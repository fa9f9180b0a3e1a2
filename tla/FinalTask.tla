----------------------------- MODULE FinalTask -----------------------------
(***************************************************************************)
(* From ground templates to the task the search works on: the reachability *)
(* analysis, and with its result the relevant facts, final goal, initial   *)
(* state and actions (collect_relevant_facts of inst_final.c).             *)
(*                                                                         *)
(* initial are the facts that hold at the start, fluents those of them     *)
(* whose predicate some operator adds or deletes (ginitial), disjuncts the *)
(* goal in DNF, each of its disjuncts a set of facts.  r is the result of  *)
(* the reachability analysis: [initial, fluents, pos, actions].  The       *)
(* relevant facts are numbered from 1.                                     *)
(***************************************************************************)
EXTENDS PlanSearch

VARIABLES
  templates,  \* geasy_templates and ghard_templates not yet turned to actions
  pos,        \* the possibly positive facts: lpos
  gactions

reachVars == <<templates, pos, gactions>>

Keep == UNCHANGED <<climbVars, planVars, bfsVars>>

(* One pass of perform_reachability_analysis: the templates whose          *)
(* preconditions are possibly positive become actions, the conditions of   *)
(* their effects are ignored; a pass that adds nothing is the last.        *)
ReachabilityPass ==
  /\ pc = "reach"
  /\ LET ready == {t \in templates : t.preconds \subseteq pos}
         added == UNION {UNION {e.adds : e \in t.effects} : t \in ready}
     IN  /\ templates' = templates \ ready
         /\ gactions' = gactions \cup ready
         /\ pos' = pos \cup added
         /\ pc' = IF added \subseteq pos THEN "collect" ELSE "reach"
  /\ UNCHANGED task /\ Keep
-----------------------------------------------------------------------------
Deleted(r) == UNION {UNION {e.dels : e \in a.effects} : a \in r.actions}

(* Possibly negative: not initial, or deleted by some action.              *)
Neg(r, facts) == {f \in facts : f \notin r.initial \/ f \in Deleted(r)}

Relevant(r) == Neg(r, r.pos)

(* The goal: a disjunct with a fact that cannot be reached is FALSE, what  *)
(* always holds is TRUE and left out.  It is TRUE when an empty disjunct   *)
(* is left, FALSE when none is.                                            *)
set_relevants_in_wff(r, disjuncts) == {Neg(r, d) : d \in {e \in disjuncts : e \subseteq r.pos}}

(* A disjunctive goal becomes a fact that one more action per disjunct     *)
(* adds.                                                                   *)
IsOr(goal)  == Cardinality(goal) > 1
GoalFact(r) == Cardinality(Relevant(r)) + 1
GOAL_REACHED == [name |-> "GOAL-REACHED"]

Numbers(index, facts) == {index[f] : f \in facts}

GoalActions(r, index, goal) ==
  IF ~IsOr(goal) THEN {}
  ELSE {[preconds |-> Numbers(index, d),
         effects  |-> <<[conditions |-> {}, adds |-> {GoalFact(r)}, dels |-> {}]>>] : d \in goal}

final_goals(r, index, goal) == IF IsOr(goal) THEN {GoalFact(r)}
                               ELSE UNION {Numbers(index, d) : d \in goal}

(* An effect with an unreachable condition is skipped; conditions that     *)
(* always hold, adds of facts always true and deletes of facts never true  *)
(* are dropped.                                                            *)
FinalEffects(r, index, a) ==
  {[conditions |-> Numbers(index, Neg(r, e.conditions)),
    adds       |-> Numbers(index, Neg(r, e.adds)),
    dels       |-> Numbers(index, e.dels \cap r.pos)] :
      e \in {d \in a.effects : d.conditions \subseteq r.pos}}

FinalAction(r, index, a) ==
  [preconds |-> Numbers(index, Neg(r, a.preconds)),
   effects  |-> Listed(FinalEffects(r, index, a))]

(* names[op] says which instance of which operator op is.                  *)
collect_relevant_facts(r, goal) ==
  LET facts   == Listed(Relevant(r))
      index   == [f \in Relevant(r) |-> CHOOSE i \in DOMAIN facts : facts[i] = f]
      goals   == final_goals(r, index, goal)
      goalOps == Listed(GoalActions(r, index, goal))
      found   == Listed(r.actions)
      actions == goalOps \o [k \in DOMAIN found |-> FinalAction(r, index, found[k])]
      all     == (1..Len(facts)) \cup goals
  IN  [graph   |-> build_connectivity_graph(all, actions, goals),
       initial |-> Numbers(index, Neg(r, r.fluents)),
       goals   |-> Increasing(goals),
       facts   |-> facts,
       actions |-> actions,
       names   |-> [k \in DOMAIN goalOps |-> GOAL_REACHED]
                     \o [k \in DOMAIN found |-> [name |-> found[k].name, inst |-> found[k].inst]]]

CollectRelevantFacts(initial, fluents, disjuncts) ==
  /\ pc = "collect"
  /\ LET r    == [initial |-> initial, fluents |-> fluents, pos |-> pos, actions |-> gactions]
         goal == set_relevants_in_wff(r, disjuncts)
     IN  CASE {} \in goal -> pc' = "empty plan" /\ UNCHANGED task
           [] goal = {}   -> pc' = "no plan" /\ UNCHANGED task
           [] OTHER       -> pc' = "agenda" /\ task' = collect_relevant_facts(r, goal)
  /\ UNCHANGED reachVars /\ Keep
-----------------------------------------------------------------------------
(* The planner from the templates on.  The passes before leave finitely    *)
(* many templates and facts, and what a template deletes of the initial    *)
(* facts is not static.                                                    *)
IsGround(initial, fluents, actions, disjuncts) ==
  /\ IsFiniteSet(initial) /\ fluents \subseteq initial /\ IsFiniteSet(disjuncts)
  /\ IsFiniteSet(actions)
  /\ \A a \in actions :
       IsFiniteSet(a.effects) /\ \A e \in a.effects : IsFiniteSet(e.adds) /\ e.dels \cap initial \subseteq fluents

GroundInit(initial, fluents, actions, disjuncts) ==
  /\ IsGround(initial, fluents, actions, disjuncts)
  /\ pc = "reach" /\ templates = actions /\ pos = initial /\ gactions = {}
  /\ SearchInit

GroundNext(initial, fluents, disjuncts) ==
  \/ ReachabilityPass
  \/ CollectRelevantFacts(initial, fluents, disjuncts)
  \/ SearchNext /\ UNCHANGED reachVars

GroundSpec(initial, fluents, actions, disjuncts) ==
  /\ GroundInit(initial, fluents, actions, disjuncts)
  /\ [][GroundNext(initial, fluents, disjuncts)]_<<reachVars, searchVars>>

(* What ground actions mean: the effects whose conditions hold all take    *)
(* place, and a fact that is deleted and added is there afterwards.        *)
Fires(s, a)   == {e \in a.effects : e.conditions \subseteq s}
Applied(s, a) == (s \ UNION {e.dels : e \in Fires(s, a)}) \cup UNION {e.adds : e \in Fires(s, a)}

GroundRun(initial, actions, acts, states) ==
  /\ acts \in Seq(actions) /\ states[1] = initial
  /\ \A k \in DOMAIN acts : /\ acts[k].preconds \subseteq states[k]
                            /\ states[k + 1] = Applied(states[k], acts[k])

NoGroundPlan(initial, actions, disjuncts) ==
  \A acts, states : GroundRun(initial, actions, acts, states) =>
    \A d \in disjuncts : ~(d \subseteq states[Len(acts) + 1])

(* The facts of a state of the search, and the plan in terms of the        *)
(* actions found: a GOAL-REACHED operator changes nothing.                 *)
StateOf(r, s) == (r.initial \ Deleted(r)) \cup {task.facts[i] : i \in s \cap DOMAIN task.facts}

PlanIsGround(r, disjuncts) ==
  LET state(k) == StateOf(r, plan_states[k])
  IN  /\ state(1) = r.initial
      /\ \A k \in DOMAIN plan_ops :
           IF task.names[plan_ops[k]] = GOAL_REACHED THEN state(k + 1) = state(k)
           ELSE \E a \in r.actions : /\ task.names[plan_ops[k]] = [name |-> a.name, inst |-> a.inst]
                                     /\ a.preconds \subseteq state(k)
                                     /\ state(k + 1) = Applied(state(k), a)
      /\ \E d \in disjuncts : d \subseteq state(Len(plan_states))

(* What FF leaves out when it builds the graph: an add that is a           *)
(* precondition of its effect, whatever another effect deletes; an         *)
(* operator whose effects add nothing, whatever its deletes are good for.  *)
AddsStay(a) ==
  \A e, d \in a.effects :
    e.conditions # d.conditions => e.adds \cap d.dels \cap (a.preconds \cup e.conditions) = {}

OnlyDeletes(r, a) ==
  LET es == {e \in a.effects : e.conditions \subseteq r.pos}
  IN  /\ \A e \in es : Neg(r, e.adds) \subseteq a.preconds \cup e.conditions
      /\ \E e \in es : ~(e.dels \cap r.pos \subseteq e.adds)

Unconditional(a) == \A e \in a.effects : e.conditions = {}

(* The answers, for the ground actions.                                    *)
AnswersAreTrue(initial, fluents, actions, disjuncts) ==
  LET r == [initial |-> initial, fluents |-> fluents, pos |-> pos, actions |-> gactions]
  IN  /\ pc = "empty plan" => \E d \in disjuncts : d \subseteq initial
      /\ pc = "no plan" => NoGroundPlan(initial, actions, disjuncts)
      /\ pc = "found" /\ (\A a \in gactions : AddsStay(a)) => PlanIsGround(r, disjuncts)
      /\ /\ pc = "unsolvable"
         /\ \/ \A a \in gactions : AddsStay(a) /\ ~OnlyDeletes(r, a)
            \/ \A a \in gactions : Unconditional(a)
         => NoGroundPlan(initial, actions, disjuncts)
=============================================================================
