---------------------------- MODULE MCFFPlanner ----------------------------
EXTENDS FFPlanner, Ewr, Pddl

(* The problem files of the lab; two robots with the work of one zone, or  *)
(* with nothing to work with.                                              *)
Farms == {pb(q, "a") : q \in 1..5} \cup {pb(1, "b")}
  \cup {ewr(2, [field(2, "a") EXCEPT !.zones = {"z1"}, !.adjacent = {<<"z1", "base">>},
                                     !.available = tools], {"binage", "buttage"}) :
           tools \in {{}, {"socle", "brosses"}}}

(* Problems without objects: all pairs of operators that add one of three  *)
(* facts and delete at most one other.                                     *)
P(x) == Atom(x, <<>>)
NotP(x) == No(x, <<>>)
Props == {"p", "q", "g"}
NoArgs(ps) == [x \in ps |-> <<>>]
Problem(args, initial, goals, ops) ==
  [types |-> <<>>, constants |-> List(<<"k">>, "object"), args |-> args, vars |-> {"x", "y"},
   initial |-> IF initial = {} THEN NIL ELSE AND(initial), goal |-> goals, ops |-> ops]

Literals1 == {l \in [add : Props, dels : {{}, {"p"}, {"q"}, {"g"}}] : l.add \notin l.dels}
Changes(l) == {P(l.add)} \cup {NotP(x) : x \in l.dels}

Plain(name) ==
  {Action(name, <<>>, pre, Changes(l)) : pre \in {NIL, P("p"), NotP("p"), NotP("q")}, l \in Literals1}

Switches ==
  {Problem(NoArgs(Props), start, goals, <<a, b>>) :
     a \in Plain("a"), b \in Plain("b"), start \in {{}, {P("p"), NotP("q")}},
     goals \in {AND({P("q"), P("g")}), OR({P("g"), AND({P("q"), NotP("p")})})}}

(* Conditional effects.  No fact is added and deleted at once.             *)
Conditions(name) ==
  {Action(name, <<>>, pre, {WHEN(P("p"), AND({P("q")} \cup d)), WHEN(NotP("q"), P(y))}) :
     pre \in {NIL, NotP("g")}, y \in {"p", "g"}, d \in {{}, {NotP("p")}, {NotP("g")}}}
Coherent(o) ==
  \A e1, e2 \in o.effects.sons : \A l \in Parts(e1.son), k \in Parts(e2.son) : l # NOT(k)
Toggles ==
  {Problem(NoArgs(Props), start, AND({P("q"), P("g")}), <<a, b>>) :
     a \in {o \in Conditions("a") : Coherent(o)}, b \in Plain("b"), start \in {{}, {P("p")}}}

(* A detour: the plan for the first goal is cut back to its start while    *)
(* the second is pursued.                                                  *)
Move(name, pre, add, del) ==
  Action(name, <<>>, P(pre), {P(x) : x \in add} \cup {NotP(x) : x \in del})
Detour ==
  Problem(NoArgs({"r", "m", "w", "v", "g", "q"}), {P("r"), P("q")}, AND({P("g"), P("q")}),
    <<Action("a", <<>>, P("r"), {P("g"), NotP("r"), WHEN(P("q"), NotP("q"))}),
      Move("u1", "g", {"m"}, {"g"}), Move("u2", "m", {"q", "r"}, {"m"}),
      Move("w1", "g", {"w"}, {}), Move("w2", "w", {"v"}, {}), Move("w3", "v", {"q"}, {})>>)

(* Quantifiers over several variables, unions of types, nested effects,    *)
(* static predicates, and formulae that are in no disjunctive normal form. *)
On(x)  == Atom("on", <<x>>)
Lit(x) == Atom("lit", <<x>>)
Link(x, y) == Atom("link", <<x, y>>)
Done == Atom("done", <<>>)
Object(names) == List(names, "object")
Union == <<Typed("x", <<"leaf", "hub">>)>>

Reach  == Action("reach", Object(<<"x">>), EXISTS(Object(<<"y">>), AND({Link("x", "y"), On("y")})), {On("x")})
All    == Action("all", <<>>, FORALL(Union, On("x")), {Done})
Spread == Action("spread", <<>>, Done,
            {FORALL(List(<<"x">>, "leaf"),
                    WHEN(OR({Lit("x"), EXISTS(Object(<<"y">>), Link("y", "x"))}),
                         AND({On("x"), NOT(Lit("x"))})))})
Hard   == Action("hard", Object(<<"x">>) \o List(<<"y">>, "leaf"),
                 AND({OR({On("x"), Lit("y")}), OR({NOT(On("y")), Link("x", "y")})}), {AND({Lit("x")})})
Clear  == Action("clear", Union, AND({On("x"), NOT(Lit("x"))}), {NOT(On("x")), Lit("x")})

Nets ==
  {[Problem([on |-> Object(<<"x">>), lit |-> Object(<<"x">>), link |-> Object(<<"x", "y">>), done |-> <<>>],
            {Link("k1", "k2")} \cup start, w, ops) EXCEPT
      !.types = Object(<<"node">>) \o List(<<"leaf", "hub">>, "node"),
      !.constants = List(<<"k1">>, "hub") \o List(<<"k2">>, "leaf")] :
     start \in SUBSET {On("k1"), On("k2"), Lit("k1")},
     w \in {FORALL(List(<<"x">>, "node"), AND({On("x"), Lit("x")})),
            AND({Done, EXISTS(Object(<<"x">>), AND({Lit("x"), NOT(On("x"))}))}),
            AND({Done, FORALL(Object(<<"x", "y">>), OR({Lit("x"), NOT(On("y"))}))})},
     ops \in {<<Reach, Spread, Clear>>, <<Reach, All, Hard>>, <<All, Spread, Clear>>, <<All, Hard, Clear>>,
              <<All, Spread, Hard>>, <<Reach, All, Hard, Clear>>, <<Reach, All, Spread, Hard, Clear>>}}

(* Goals that a chain of operators destroys: each operator adds one and    *)
(* deletes the next.                                                       *)
Steps == {"g1", "g2", "g3", "g4"}
Ladders ==
  {Problem(NoArgs(Steps), {}, AND({P(x) : x \in Steps}),
           [k \in 1..4 |-> Action(chain[k], <<>>, NIL,
                             {P(chain[k])} \cup IF k = 4 THEN {} ELSE {NotP(chain[k + 1])})]) :
     chain \in {c \in [1..4 -> Steps] : IsInjective(c)}}

(* What FF does not take for ADL: a WHEN in a precondition, or an effect   *)
(* with a condition inside a conjunction under a quantifier.               *)
Refused ==
  {Problem(NoArgs(Props), {}, P("g"), <<o>>) :
     o \in {Action("a", <<>>, WHEN(P("p"), P("q")), {P("g")}),
            Action("a", <<>>, NIL, {FORALL(Object(<<"x">>), AND({P("g"), WHEN(P("p"), P("q"))}))})}}

(* Goals that hold at the start and that nothing deletes: no operator, or  *)
(* none that can ever be applied.                                          *)
Decided ==
  {Problem(NoArgs(Props), {P("p")}, P("p"), <<Action("a", <<>>, P("q"), {P("g")} \cup d)>>) :
     d \in {{}, {NotP("p")}}}

AllProblems == Farms \cup Switches \cup Toggles \cup Nets \cup Ladders \cup Decided \cup Refused
                 \cup {Detour}
-----------------------------------------------------------------------------
(* Problems whose answer is wrong, one for each cause.  In Unequal a static*)
(* precondition names one variable twice.  Further ones, in no run: two    *)
(* unary static preconditions have no object in common; an effect is       *)
(* quantified over a type that its static condition does not respect; an   *)
(* operator deletes and adds the same fact, whose negation another needs.  *)
Small(args, initial, goals, ops) ==
  [Problem(args, initial, goals, ops) EXCEPT
     !.types = List(<<"one">>, "object"), !.constants = List(<<"k1">>, "one") \o Object(<<"k2">>)]
Facts1 == [on |-> Object(<<"x">>), lit |-> Object(<<"x">>), link |-> Object(<<"x", "y">>), done |-> <<>>]
Finish(pre) == Action("finish", Object(<<"x">>), pre, {Done})

Loop == Small(Facts1, {Link("k1", "k2")}, Done, <<Finish(Link("x", "x"))>>)
Unequal == {Loop}

Disjoint == Small(Facts1, {On("k1"), Lit("k2")}, Done, <<Finish(AND({On("x"), Lit("x")}))>>)
Narrowed == Small(Facts1, {Link("k1", "k2"), Link("k2", "k1")}, On("k2"),
              <<Action("all", <<>>, NIL, {FORALL(List(<<"x", "y">>, "one"), WHEN(Link("x", "y"), On("x")))})>>)
Turn == Small(Facts1, {On("k1"), On("k2")}, Done,
              <<Action("turn", Object(<<"x", "y">>), On("x"), {On("y"), NOT(On("x"))}),
                Finish(AND({NOT(On("k1")), NOT(On("k2"))}))>>)
WrongAnswers == {Disjoint, Narrowed, Turn}

(* Solvable problems that FF calls unsolvable: an operator that only       *)
(* deletes, for which another effect waits, is taken for one that does no  *)
(* good; an effect whose add is its own precondition is taken for one that *)
(* adds nothing, although another effect deletes the fact.                 *)
Forget ==
  Problem(NoArgs(Props), {P("p"), P("q")}, AND({P("g"), P("q")}),
    <<Action("op1", <<>>, NIL, {NotP("p")}), Action("op2", <<>>, NIL, {P("g"), WHEN(P("p"), NotP("q"))})>>)
Restore ==
  Problem(NoArgs(Props \cup {"h"}), {P("p"), P("q")}, AND({P("g"), P("p")}),
    <<Action("op1", <<>>, P("p"), {P("p"), P("g"), WHEN(P("q"), NotP("p"))}),
      Action("op2", <<>>, P("g"), {P("h"), NotP("q")})>>)
Overlooked == {Forget, Restore}

(* A plan whose last state, of step 6, was cut out before: it is entered   *)
(* with its old link, and the old links lead from it back to the state of  *)
(* step 3.  Wherever the next cut is, its walk goes round.  Another        *)
(* numbering of the facts makes another plan: they are written here in the *)
(* order of their numbers.                                                 *)
Shift(name, pre, add, del) ==
  Action(name, <<>>, AND({P(x) : x \in pre}), {P(x) : x \in add} \cup {NotP(x) : x \in del})
Roundabout ==
  {Problem(NoArgs({"h7", "h6", "h5", "h4", "h3", "h2", "h1"}), {P("h2"), P("h6")},
     AND({P(x) : x \in {"h1", "h2", "h3", "h4", "h5"}}),
     <<Shift("s8", {"h6"}, {"h2"}, {"h4"}),
       Shift("s7", {"h7"}, {"h1"}, {"h2"}),
       Shift("s6", {"h1"}, {"h5"}, {"h2"}),
       Shift("s5", {"h1", "h4"}, {"h3", "h5"}, {"h1"}),
       Shift("s4", {"h6"}, {"h1", "h4"}, {"h3", "h5", "h6"}),
       Shift("s3", {"h1"}, {"h3", "h7"}, {}),
       Shift("s2", {}, {"h4", "h7"}, {"h1", "h3", "h6"}),
       Shift("s1", {"h3", "h7"}, {"h1", "h6"}, {"h7"})>>)}
-----------------------------------------------------------------------------
(* The plan as it is printed.                                              *)
plan == SelectSeq([k \in DOMAIN plan_ops |-> task.names[plan_ops[k]]], LAMBDA n : n # GOAL_REACHED)

(* A plan that FF prints is one of the problem it was given: the operators *)
(* are applicable one after the other, with the types, the quantifiers and *)
(* the negations of the PDDL text, and the goal holds after the last.      *)
LegalPlan == pc \in {"found", "empty plan"} => Legal(text, plan)

(* What the passes over the text leave to the reachability analysis.       *)
TemplatesAreGround ==
  pc = "reach" /\ gactions = {} =>
    IsGround(dom.initial, ginitial(dom), templates, Disjuncts(dom.goal))

(* FF says that a problem has no plan only when no sequence of operators   *)
(* leads to the goal: the passes over the text hand over ground templates, *)
(* from which nothing is lost by what the proofs say, and the search that  *)
(* failed to climb starts again and misses nothing.                        *)
UnsolvableIsTrue ==
  /\ TemplatesAreGround
  /\ pc \in {"unsolvable", "no plan"} => ~Solvable(text)

(* "EMPLOY SOMEWHAT TEDIOUS HASHING PROCEDURE TO AVOID REPEATED STATES IN  *)
(* THE PLAN" (search.c:586): a plan that comes back to one of its states is*)
(* cut there, whatever the table holds of the plans before it, and the walk*)
(* that takes the states behind the cut out of the table ends.             *)
RepetitionsAreCut == pc # "endless"

(* Every problem of the run is answered: the passes over the templates,    *)
(* the climb, the walk that cuts a plan back and the best first search all *)
(* end, and none of them in one of FF's own error messages.                *)
Terminates == <>(pc \in Answers)

(* What the comments of the lab's domains promise of every plan: at no     *)
(* time two robots in one zone, no task before the one it requires.        *)
FieldConstraints ==
  pc = "found" /\ "zone" \in DOMAIN problem.types =>
    LET states == Trajectory(text, plan)
        f == [zones |-> problem.types["zone"], robots |-> problem.types["robot"],
              require |-> {r.args : r \in {i \in problem.initial : i.p = "require"}}]
    IN  \A k \in DOMAIN states : OneRobotPerZone(f, states[k]) /\ RequiredFirst(f, states[k])
=============================================================================
