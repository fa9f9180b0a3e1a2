-------------------------------- MODULE Pddl --------------------------------
(***************************************************************************)
(* What the text of a PDDL problem means: the states are sets of ground    *)
(* facts, a formula is true or false in a state, an instance of an         *)
(* operator whose precondition holds leads to the state without its        *)
(* deleted facts and with its added ones.  Nothing here is FF's: it is     *)
(* what FF's answers are measured by.  The texts are those of Parse.       *)
(***************************************************************************)
EXTENDS Parse

(* The names above a type, and the constants of (either ...) of types.     *)
RECURSIVE Above(_, _)
Above(pb, names) ==
  LET next == names \cup UNION {ToSet(t.type) : t \in {u \in ToSet(pb.types) : u.name \in names}}
  IN  IF next = names THEN names \cup {"object"} ELSE Above(pb, next)

Constants(pb, type) ==
  {k.name : k \in {c \in ToSet(pb.constants) :
                     \A t \in ToSet(c.type) : Above(pb, {t}) \cap ToSet(type) # {}}}

Objects(pb) == {k.name : k \in ToSet(pb.constants)}

(* The instances of a typed list of variables.                             *)
Instances(pb, list) ==
  {sub \in [{t.name : t \in ToSet(list)} -> Objects(pb)] :
     \A t \in ToSet(list) : sub[t.name] \in Constants(pb, t.type)}

RECURSIVE Holds(_, _, _, _)
Holds(pb, s, w, sub) ==
  CASE w.c = "ALL" -> \A t \in Instances(pb, w.list) : Holds(pb, s, w.son, t @@ sub)
    [] w.c = "EX"  -> \E t \in Instances(pb, w.list) : Holds(pb, s, w.son, t @@ sub)
    [] w.c = "AND" -> \A son \in w.sons : Holds(pb, s, son, sub)
    [] w.c = "OR"  -> \E son \in w.sons : Holds(pb, s, son, sub)
    [] w.c = "NOT" -> ~Holds(pb, s, w.son, sub)
    [] w.c = "ATOM" -> LET f == Instance(w.fact, sub)
                       IN  IF f.p = "=" THEN f.args[1] = f.args[2] ELSE f \in s
    [] OTHER -> w.c \in {"TRU", "NIL"}

(* The literals of an effect that come true in s.                          *)
RECURSIVE Fired(_, _, _, _)
Fired(pb, s, e, sub) ==
  CASE e.c = "ALL"  -> UNION {Fired(pb, s, e.son, t @@ sub) : t \in Instances(pb, e.list)}
    [] e.c = "AND"  -> UNION {Fired(pb, s, son, sub) : son \in e.sons}
    [] e.c = "WHEN" -> IF Holds(pb, s, e.condition, sub) THEN Fired(pb, s, e.son, sub) ELSE {}
    [] e.c = "NOT"  -> {[negated |-> TRUE, fact |-> Instance(e.son.fact, sub)]}
    [] OTHER        -> {[negated |-> FALSE, fact |-> Instance(e.fact, sub)]}

Goal(pb, s) == Holds(pb, s, pb.goal, NoSub)

Applicable(pb, s, o, sub) == sub \in Instances(pb, o.params) /\ Holds(pb, s, o.preconds, sub)

Successor(pb, s, o, sub) ==
  LET ls == Fired(pb, s, o.effects, sub)
      of(negated) == {l.fact : l \in {k \in ls : k.negated = negated}}
  IN  (s \ of(TRUE)) \cup of(FALSE)

Operator(pb, name) == CHOOSE o \in ToSet(pb.ops) : o.name = name

InitialState(pb) ==
  IF pb.initial = NIL THEN {}
  ELSE {n.fact : n \in {m \in IF pb.initial.c = "AND" THEN pb.initial.sons ELSE {pb.initial} : m.c = "ATOM"}}

(* The states a plan, a sequence of [name, inst], goes through.            *)
Trajectory(pb, plan) ==
  FoldLeft(LAMBDA T, a : Append(T, Successor(pb, Last(T), Operator(pb, a.name), a.inst)),
           <<InitialState(pb)>>, plan)

Legal(pb, plan) ==
  /\ \A k \in DOMAIN plan :
       Applicable(pb, Trajectory(pb, plan)[k], Operator(pb, plan[k].name), plan[k].inst)
  /\ Goal(pb, Last(Trajectory(pb, plan)))

OneStep(pb, s) ==
  UNION {{Successor(pb, s, o, sub) : sub \in {i \in Instances(pb, o.params) : Applicable(pb, s, o, i)}} :
         o \in ToSet(pb.ops)}

RECURSIVE ReachableFrom(_, _)
ReachableFrom(pb, states) ==
  LET next == states \cup UNION {OneStep(pb, s) : s \in states}
  IN  IF next = states THEN states ELSE ReachableFrom(pb, next)

Solvable(pb) == \E s \in ReachableFrom(pb, {InitialState(pb)}) : Goal(pb, s)
=============================================================================
