---------------------------- MODULE RelaxedPlan ----------------------------
(***************************************************************************)
(* The heuristic of FF (relax.c): the fixpoint of the task without         *)
(* deletes, the relaxed plan extracted from it and the helpful actions.    *)
(* The counters and flags that relax.c keeps in the connectivity graph and *)
(* resets after each evaluation are the values of one evaluation here.     *)
(***************************************************************************)
EXTENDS ConnectivityGraph

INFINITY == -1

LESS(a, b) == a # INFINITY /\ (b = INFINITY \/ a < b)

(* build_fixpoint, deletes ignored: the facts before each step t, in layer *)
(* t + 1, and the effects they enable, until the goals are in or nothing   *)
(* new comes in.                                                           *)
Layer(g, facts) == [facts |-> facts, effects |-> Enabled(g, facts)]

Complete(g, layer, goals) ==
  goals \subseteq layer.facts \/ UNION {g.ef[e].A : e \in layer.effects} \subseteq layer.facts

NextLayer(g, goals, F) ==
  LET layer == Last(F)
  IN  IF Complete(g, layer, goals) THEN F
      ELSE Append(F, Layer(g, layer.facts \cup UNION {g.ef[e].A : e \in layer.effects}))

build_fixpoint(g, s, goals) ==
  FoldLeft(LAMBDA F, t : NextLayer(g, goals, F), <<Layer(g, s)>>, Upto(Cardinality(g.facts)))

FactLevel(F, f) == Min({t \in DOMAIN F : f \in F[t].facts}) - 1

(* The effects that came in at step t of the fixpoint.                     *)
EffectsAt(F, t) == F[t + 1].effects \ (IF t = 0 THEN {} ELSE F[t].effects)

Difficulty(g, F, e) == MapThenSumSet(LAMBDA f : FactLevel(F, f), g.ef[e].PC)

(* The first of the least difficult effects that achieve ft one step       *)
(* earlier.                                                                *)
Achiever(g, F, ft, time) ==
  LET by    == Adders(g, ft) \cap EffectsAt(F, time - 1)
      least == Min({Difficulty(g, F, e) : e \in by})
  IN  Min({e \in by : Difficulty(g, F, e) = least})

(* initialize_goals: every goal waits at its level.                        *)
initialize_goals(F, max, goals) ==
  [goals_at |-> [t \in 0..max |-> Increasing({f \in goals : FactLevel(F, f) = t})],
   is_goal  |-> goals,
   is_true  |-> [f \in {} |-> 0],
   used     |-> {},              \* the pairs <<operator, time>>
   in_plan  |-> <<>>]            \* the pairs <<effect, time>>, in order

\* Fault: what a later step adds is taken for true at this one.
X_TrueAt_Ever(r, f, time) == f \in DOMAIN r.is_true

TrueAt(r, f, time) == f \in DOMAIN r.is_true /\ r.is_true[f] = time

(* What an effect and those it implies add.                                *)
AddedWith(g, e) == g.ef[e].A \cup UNION {g.ef[d].A : d \in Implied(g, e)}

Marked(is_true, facts, time) ==
  [f \in facts \cup DOMAIN is_true |-> IF f \in facts THEN time ELSE is_true[f]]

(* Effect e enters the plan at time: its open preconditions become goals,  *)
(* what is added with it is true at this step.                             *)
Selected(g, F, time, r, e) ==
  LET open == {f \in g.ef[e].PC : ~TrueAt(r, f, time) /\ f \notin r.is_goal}
  IN  [goals_at |-> [t \in DOMAIN r.goals_at |->
                       r.goals_at[t] \o Increasing({f \in open : FactLevel(F, f) = t})],
       is_goal  |-> r.is_goal \cup open,
       is_true  |-> Marked(r.is_true, AddedWith(g, e), time),
       used     |-> r.used \cup {<<g.ef[e].op, time>>},
       in_plan  |-> Append(r.in_plan, <<e, time>>)]

(* A goal that an operator selected for this step adds needs no achiever.  *)
AchieveGoal(g, F, time, r, ft) ==
  IF TrueAt(r, ft, time) THEN r ELSE Selected(g, F, time, r, Achiever(g, F, ft, time))

achieve_goals(g, F, r, time) ==
  FoldLeft(LAMBDA acc, ft : AchieveGoal(g, F, time, acc, ft), r, r.goals_at[time])

extract_1P(g, F, goals) ==
  LET max == Max({FactLevel(F, f) : f \in goals} \cup {0})
      down(acc, k) == achieve_goals(g, F, acc, Cardinality(DOMAIN acc.goals_at) - k)
  IN  FoldLeft(down, initialize_goals(F, max, goals), Upto(max))

(* collect_H_info: the operators that achieve, at the first step, a goal   *)
(* of level 1, by the number of goals they delete; of two that delete as   *)
(* many, the one found last comes first.                                   *)
HelpfulFound(g, F, r) ==
  LET byGoal == [k \in DOMAIN r.goals_at[1] |->
                   LET es == Increasing(Adders(g, r.goals_at[1][k]) \cap EffectsAt(F, 0))
                   IN  [i \in DOMAIN es |-> g.ef[es[i]].op]]
  IN  FlattenSeq(byGoal)

DeletedGoals(g, F, r, o) ==
  MapThenSumSet(LAMBDA e : Cardinality(g.ef[e].D \cap r.is_goal), EffectsOf(g, o) \cap EffectsAt(F, 0))

ByDeletedGoals(ops, H, D) ==
  LET at(o) == Min({k \in DOMAIN H : H[k] = o})
  IN  Ranked(ops, LAMBDA o, p : D[o] < D[p] \/ (D[o] = D[p] /\ at(o) > at(p)))

collect_H_info(g, F, r) ==
  LET wanted  == {e \in Kept(g) \cap EffectsAt(F, 0) : g.ef[e].A \cap ToSet(r.goals_at[1]) # {}}
      helpful == {g.ef[e].op : e \in wanted}
  IN  IF 1 \notin DOMAIN r.goals_at THEN <<>>
      ELSE ByDeletedGoals(helpful, HelpfulFound(g, F, r), [o \in helpful |-> DeletedGoals(g, F, r, o)])

(* get_1P_and_H: the length of the relaxed plan, INFINITY when the goals   *)
(* are not in the fixpoint, with the effects of the plan and the helpful   *)
(* operators.                                                              *)
Evaluation(g, F, r) ==
  [h |-> Cardinality(r.used), in_plan |-> r.in_plan, H |-> collect_H_info(g, F, r)]

Evaluate(g, F, goals) ==
  IF goals \subseteq Last(F).facts THEN Evaluation(g, F, extract_1P(g, F, goals))
  ELSE [h |-> INFINITY, in_plan |-> <<>>, H |-> <<>>]

get_1P_and_H(g, s, goals) == Evaluate(g, build_fixpoint(g, s, goals), goals)
=============================================================================
