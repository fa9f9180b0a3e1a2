--------------------------------- MODULE Ewr ---------------------------------
(***************************************************************************)
(* The domains of the planning lab (SA_BE_Planification/question1 to 5):   *)
(* robots that work the zones around a base, as FF is given them.  Each    *)
(* question adds rules to the domain of the one before.  A field declares  *)
(* what a problem file does: the sets zones, robots, uavs, instruments,    *)
(* tasks, available and independent, and the sets of pairs adjacent,       *)
(* adapted, require and fixed; everyone starts at the base.                *)
(***************************************************************************)
EXTENDS Parse

Fact(p, args) == [p |-> p, args |-> args]
Atom(p, args) == ATOM(Fact(p, args))
No(p, args)   == NOT(Atom(p, args))
List(names, type) == [k \in DOMAIN names |-> Typed(names[k], <<type>>)]
Action(name, params, preconds, literals) ==
  [name |-> name, params |-> params, preconds |-> preconds, effects |-> AND(literals)]

Variables == {"r", "v", "u", "from", "to", "i", "t", "z"}

\* Fault: an occupied zone may be entered.
X_move_Occupied(q) ==
  Action("move", List(<<"r">>, "robot") \o List(<<"from", "to">>, "location"),
    AND({Atom("adjacent", <<"from", "to">>), Atom("at", <<"r", "from">>)}),
    {Atom("at", <<"r", "to">>), No("at", <<"r", "from">>)})

(* From question 2 on, a robot moves to a zone only if it is not occupied. *)
move(q) ==
  Action("move", List(<<"r">>, "robot") \o List(<<"from", "to">>, "location"),
    AND({Atom("adjacent", <<"from", "to">>), Atom("at", <<"r", "from">>)}
          \cup IF q = 1 THEN {}
               ELSE {OR({Atom("=", <<"to", "base">>), No("occupied", <<"to">>)})}),
    {Atom("at", <<"r", "to">>), No("at", <<"r", "from">>)}
      \cup IF q = 1 THEN {} ELSE {Atom("occupied", <<"to">>), No("occupied", <<"from">>)})

mount ==
  Action("mount", List(<<"r">>, "robot") \o List(<<"i">>, "instrument"),
    AND({Atom("at", <<"r", "base">>), Atom("available", <<"i">>), Atom("bare", <<"r">>)}),
    {Atom("carry", <<"r", "i">>), No("bare", <<"r">>), No("available", <<"i">>)})

unmount ==
  Action("unmount", List(<<"r">>, "robot") \o List(<<"i">>, "instrument"),
    AND({Atom("at", <<"r", "base">>), Atom("carry", <<"r", "i">>)}),
    {No("carry", <<"r", "i">>), Atom("bare", <<"r">>), Atom("available", <<"i">>)})

(* Question 3 brings fixed instruments, question 4 tasks that require      *)
(* another one, question 5 vehicles and the task that is sprayed.          *)
equipped(q) ==
  IF q <= 2 THEN Atom("carry", <<"r", "i">>)
  ELSE OR({Atom("carry", <<"r", "i">>), Atom("fixed", <<"r", "i">>)})

perform(q) ==
  Action("perform",
    List(<<"r">>, IF q = 5 THEN "vehicle" ELSE "robot") \o List(<<"z">>, "zone")
      \o List(<<"i">>, "instrument") \o List(<<"t">>, "task"),
    AND({Atom("at", <<"r", "z">>), equipped(q), Atom("adapted", <<"i", "t">>),
         NOT(Atom("achieved", <<"t", "z">>))}
        \cup (IF q < 4 THEN {}
              ELSE {OR({Atom("independent", <<"t">>),
                        AND({Atom("require", <<"t", "binage">>),
                             Atom("achieved", <<"binage", "z">>)})})})
        \cup (IF q < 5 THEN {} ELSE {NOT(Atom("=", <<"t", "epandage">>))})),
    {Atom("achieved", <<"t", "z">>)})

spray ==
  Action("spray", List(<<"u">>, "uav") \o List(<<"z">>, "zone"),
    AND({Atom("at", <<"u", "z">>), Atom("fixed", <<"u", "pulverisateur">>),
         NOT(Atom("achieved", <<"epandage", "z">>)), Atom("achieved", <<"supervision", "z">>),
         Atom("full", <<"u">>), NOT(Atom("occupied", <<"z">>))}),
    {Atom("achieved", <<"epandage", "z">>), No("full", <<"u">>)})

fly ==
  Action("fly", List(<<"u">>, "uav") \o List(<<"from", "to">>, "location"),
    Atom("at", <<"u", "from">>),
    {Atom("at", <<"u", "to">>), No("at", <<"u", "from">>)})

refill ==
  Action("refill", List(<<"u">>, "uav"),
    AND({Atom("at", <<"u", "base">>), No("full", <<"u">>)}),
    {Atom("full", <<"u">>)})

domain(q) == <<move(q), mount, unmount, perform(q)>>
               \o IF q = 5 THEN <<spray, fly, refill>> ELSE <<>>

\* A name without a type takes that of the next name; the last names are objects.
types(q) ==
  List(<<"location">>, "location") \o List(<<"zone">>, "location")
    \o (IF q <= 3 THEN List(<<"robot">>, "object")
        ELSE List(<<"vehicle">>, "vehicle") \o List(<<"robot">>, "vehicle"))
    \o (IF q = 5 THEN List(<<"uav">>, "vehicle") ELSE <<>>)
    \o List(<<"instrument", "task">>, "object")

predicates(q) ==
  LET vehicle == IF q <= 3 THEN "robot" ELSE "vehicle"
      carrier == IF q = 5 THEN "vehicle" ELSE "robot"
      Args(list) == [k \in DOMAIN list |-> Typed("x", <<list[k]>>)]
  IN  [adjacent |-> Args(<<"location", "location">>), at |-> Args(<<vehicle, "location">>),
       carry |-> Args(<<carrier, "instrument">>), bare |-> Args(<<"robot">>),
       achieved |-> Args(<<"task", "zone">>), adapted |-> Args(<<"instrument", "task">>),
       available |-> Args(<<IF q = 1 THEN "object" ELSE "instrument">>)]
      @@ (IF q = 1 THEN NoSub ELSE [occupied |-> Args(<<"location">>)])
      @@ (IF q <= 2 THEN NoSub ELSE [fixed |-> Args(<<carrier, "instrument">>)])
      @@ (IF q <= 3 THEN NoSub ELSE [independent |-> Args(<<"task">>), require |-> Args(<<"task", "task">>)])
      @@ (IF q <= 4 THEN NoSub ELSE [full |-> Args(<<"uav">>)])

objects(f) ==
  List(InSomeOrder(f.robots), "robot") \o List(InSomeOrder(f.uavs), "uav") \o List(<<"base">>, "location")
    \o List(InSomeOrder(f.zones), "zone") \o List(InSomeOrder(f.instruments), "instrument")
    \o List(InSomeOrder(f.tasks), "task")

init(f) ==
  UNION {{Atom("adjacent", <<p[1], p[2]>>), Atom("adjacent", <<p[2], p[1]>>)} : p \in f.adjacent}
    \cup {Atom("at", <<x, "base">>) : x \in f.robots \cup f.uavs}
    \cup {Atom("bare", <<x>>) : x \in f.robots} \cup {Atom("full", <<x>>) : x \in f.uavs}
    \cup {Atom("available", <<x>>) : x \in f.available}
    \cup {Atom("independent", <<x>>) : x \in f.independent}
    \cup {Atom("fixed", p) : p \in f.fixed} \cup {Atom("adapted", p) : p \in f.adapted}
    \cup {Atom("require", p) : p \in f.require}

(* The goal of the problem files: tasks done in all zones, all at the base.*)
goal(f, done) ==
  AND({FORALL(List(<<"z">>, "zone"), AND({Atom("achieved", <<x, "z">>) : x \in done}))}
        \cup {Atom("at", <<x, "base">>) : x \in f.robots \cup f.uavs})

ewr(q, f, done) ==
  [types |-> types(q), constants |-> objects(f), args |-> predicates(q), vars |-> Variables,
   initial |-> AND(init(f)), goal |-> goal(f, done), ops |-> domain(q)]
-----------------------------------------------------------------------------
(* The problem files, on a ring of four zones through the base ("a"), with *)
(* three more zones next to the base ("b").                                *)
ring == {<<"z1", "z2">>, <<"z2", "z3">>, <<"z3", "z4">>, <<"z1", "base">>, <<"z4", "base">>}

tasksOf(q) == {"buttage", "binage"} \cup (IF q = 2 THEN {} ELSE {"supervision"})
                                   \cup (IF q \in {1, 5} THEN {"epandage"} ELSE {})

field(q, variant) ==
  LET more == IF variant = "b" THEN {"z5", "z6", "z7"} ELSE {}
      robots == IF q = 2 \/ (q = 5 /\ variant = "b") THEN {"ra", "rb"}
                ELSE IF q = 5 THEN {"ra"} ELSE {"rbt"}
      uavs == IF q = 5 THEN {"drn"} ELSE {}
      camera == IF q = 2 THEN {} ELSE {"camera"}
      pulverisateur == IF q \in {1, 5} THEN {"pulverisateur"} ELSE {}
  IN  [zones       |-> {"z1", "z2", "z3", "z4"} \cup more,
       adjacent    |-> ring \cup {<<x, "base">> : x \in more},
       robots      |-> robots, uavs |-> uavs,
       instruments |-> {"socle", "brosses"} \cup camera \cup pulverisateur,
       tasks       |-> tasksOf(q),
       available   |-> {"socle", "brosses"},
       adapted     |-> {<<"socle", "binage">>, <<"brosses", "buttage">>}
                         \cup {<<x, "supervision">> : x \in camera}
                         \cup {<<x, "epandage">> : x \in IF q = 5 THEN pulverisateur ELSE {}},
       fixed       |-> (IF q >= 3 THEN (robots \cup uavs) \X camera ELSE {})
                         \cup (uavs \X pulverisateur),
       independent |-> IF q >= 4 THEN {"supervision", "binage"} ELSE {},
       require     |-> (IF q >= 4 THEN {<<"buttage", "binage">>} ELSE {})
                         \cup (IF q = 5 THEN {<<"epandage", "supervision">>} ELSE {})]

wanted(q, variant) ==
  CASE q = 1 -> IF variant = "a" THEN {"binage"} ELSE {"buttage"}
    [] q = 2 -> {"binage", "buttage"}
    [] q = 3 -> {"supervision", "binage", "buttage"}
    [] q = 4 -> {"buttage"} \cup IF variant = "a" THEN {"supervision"} ELSE {}
    [] q = 5 -> {"epandage", "buttage"}

pb(q, variant) == ewr(q, field(q, variant), wanted(q, variant))
-----------------------------------------------------------------------------
(* What the comments of the domains say of every state of a plan: at most  *)
(* one robot per zone, and no task before the one it requires.             *)
OneRobotPerZone(f, s) ==
  \A x \in f.zones : Cardinality({y \in f.robots : Fact("at", <<y, x>>) \in s}) <= 1

RequiredFirst(f, s) ==
  \A p \in f.require, x \in f.zones :
    Fact("achieved", <<p[1], x>>) \in s => Fact("achieved", <<p[2], x>>) \in s
=============================================================================
