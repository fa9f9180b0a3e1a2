------------------------- MODULE ConnectivityGraph -------------------------
(***************************************************************************)
(* The ground planning task of FF-v2.3 as the search sees it: one array of *)
(* operators, one of effects and one of facts (build_connectivity_graph of *)
(* inst_final.c), and the state transition of search.c over it.            *)
(*                                                                         *)
(* A fact is its index among the relevant facts.  The lists of facts PC, A *)
(* and D of an effect are sets; where the code walks such a list, the      *)
(* model walks it by increasing index.  Operators and effects keep the     *)
(* order of their arrays.  A ground action is                              *)
(*   [preconds |-> facts, effects |-> <<[conditions, adds, dels], ...>>].  *)
(***************************************************************************)
EXTENDS Integers, Sequences, FiniteSets, SequencesExt

NoGoal == -1
Listed(set) == FoldSet(LAMBDA x, list : Append(list, x), <<>>, set)

\* The elements of a finite set in the order of Before, which is total on it.
Ranked(set, Before(_, _)) ==
  [k \in 1..Cardinality(set) |->
     CHOOSE x \in set : Cardinality({y \in set : Before(y, x)}) = k - 1]
Increasing(F) == Ranked(F, <)
Upto(n) == [k \in 1..n |-> k]

(* Effects with the same conditions are integrated into the first of them. *)
Group(a, i) == {j \in DOMAIN a.effects :
                  a.effects[j].conditions = a.effects[i].conditions}

Leaders(a) == {i \in DOMAIN a.effects : \A j \in Group(a, i) : i <= j}

Integrated(a, i) ==
  LET PC   == a.preconds \cup a.effects[i].conditions
      adds == UNION {a.effects[j].adds : j \in Group(a, i)}
      dels == UNION {a.effects[j].dels : j \in Group(a, i)}
  IN  [PC |-> PC, A |-> adds \ PC, D |-> dels \ adds]

(* An empty effect is removed; so is every effect of an operator whose     *)
(* effects only delete.                                                    *)
RemovedEffect(a, e) == \/ e.A = {} /\ e.D = {}
                       \/ \A i \in Leaders(a) : Integrated(a, i).A = {}

EffectConns(a, op) ==
  LET is == Increasing(Leaders(a))
  IN  [k \in DOMAIN is |->
         LET e == Integrated(a, is[k])
         IN  [op |-> op, PC |-> e.PC, A |-> e.A, D |-> e.D,
              removed |-> RemovedEffect(a, e)]]

build_connectivity_graph(facts, actions, goal) ==
  [facts |-> facts, num_op |-> Len(actions), goal |-> goal,
   ef |-> FlattenSeq([op \in DOMAIN actions |-> EffectConns(actions[op], op)])]

(* The cross references of the arrays.                                     *)
Kept(g)        == {e \in DOMAIN g.ef : ~g.ef[e].removed}
EffectsOf(g, op) == {e \in Kept(g) : g.ef[e].op = op}
Implied(g, e)  == {d \in EffectsOf(g, g.ef[e].op) \ {e} : g.ef[d].PC \subseteq g.ef[e].PC}
Adders(g, ft)  == {e \in Kept(g) : ft \in g.ef[e].A}
Deleters(g, ft) == {e \in Kept(g) : ft \in g.ef[e].D}
Needers(g, ft) == {e \in Kept(g) : ft \in g.ef[e].PC}

(* An effect without preconditions enters the list l0P_E, removed or not.  *)
Enabled(g, F) == {e \in DOMAIN g.ef :
                    IF g.ef[e].PC = {} THEN TRUE
                    ELSE e \in Kept(g) /\ g.ef[e].PC \subseteq F}
-----------------------------------------------------------------------------
(* The effects of op that fire in s, and the state transition: the deleted *)
(* facts leave the state before the added ones enter it.                   *)
TrueEffects(g, s, op) == {e \in EffectsOf(g, op) : g.ef[e].PC \subseteq s}

Undeleted(g, s, op) == s \ UNION {g.ef[e].D : e \in TrueEffects(g, s, op)}

result_to_dest(g, s, op) ==
  Undeleted(g, s, op) \cup UNION {g.ef[e].A : e \in TrueEffects(g, s, op)}

(* The goal that came in last when op was applied to s.                    *)
new_goal(g, s, op) ==
  LET came == (result_to_dest(g, s, op) \ Undeleted(g, s, op)) \cap g.goal
      by(f) == Min({e \in TrueEffects(g, s, op) : f \in g.ef[e].A})
  IN  IF came = {} THEN NoGoal
      ELSE CHOOSE f \in came : \A o \in came : \/ by(o) < by(f)
                                               \/ (by(o) = by(f) /\ o <= f)

(* get_A: the operators with an effect whose preconditions hold in s.      *)
get_A(g, s) == Increasing({g.ef[e].op : e \in Enabled(g, s)})
=============================================================================
