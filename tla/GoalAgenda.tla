----------------------------- MODULE GoalAgenda -----------------------------
(***************************************************************************)
(* The goal agenda of FF (orderings.c): heuristic orderings between pairs  *)
(* of goals, closed transitively and cut into a sequence of goal sets.     *)
(* gs is the list of goals of the final task, in its order.                *)
(***************************************************************************)
EXTENDS ConnectivityGraph

(* What every adder of ft, and every effect an adder implies, deletes.     *)
False(g, ft) ==
  LET by == Adders(g, ft) \cup UNION {Implied(g, e) : e \in Adders(g, ft)}
  IN  IF by = {} THEN {} ELSE {f \in g.facts : \A e \in by : f \in g.ef[e].D}

(* The effects not to be used while ft is true: its deleters, the effects  *)
(* they imply, and those that need a fact of its False set.                *)
setup_E(g, ft) ==
  Deleters(g, ft) \cup UNION {Implied(g, e) : e \in Deleters(g, ft)}
                  \cup UNION {Needers(g, f) : f \in False(g, ft)}

possibly_achievable(g, ft, unusable) ==
  \E e \in Adders(g, ft) \ unusable :
    \A f \in g.ef[e].PC : Adders(g, f) \ unusable # {}

(* <<j, i>> : goal j is to be reached before goal i.                       *)
detect_ordering_constraints(g, gs) ==
  LET Before(i) == LET E == setup_E(g, gs[i])
                   IN  {j \in DOMAIN gs : j = i \/ ~possibly_achievable(g, gs[j], E)}
  IN  UNION {{<<j, i>> : j \in Before(i)} : i \in DOMAIN gs}

(* Transitive closure, one intermediate goal after the other.              *)
Through(n, C, j) ==
  C \cup {<<i, k>> : i \in {i \in 1..n : <<i, j>> \in C}, k \in {k \in 1..n : <<j, k>> \in C}}

\* Fault: the last goal is not tried between two others.
X_Closure_OneLess(n, lm) == FoldLeft(LAMBDA C, j : Through(n, C, j), lm, Upto(n - 1))

Closure(n, lm) == FoldLeft(LAMBDA C, j : Through(n, C, j), lm, Upto(n))

Hits(lm, i)   == {j \in {p[1] : p \in lm} \cup {p[2] : p \in lm} :
                    j # i /\ (<<i, j>> \in lm \/ <<j, i>> \in lm)}
Degree(lm, i) == Cardinality({j \in Hits(lm, i) : <<j, i>> \in lm})
                   - Cardinality({j \in Hits(lm, i) : <<i, j>> \in lm})

(* One entry per degree, by increasing degree; the goals that no ordering  *)
(* touches are the last entry.                                             *)
build_goal_agenda(gs, closed) ==
  LET ordered == {i \in DOMAIN gs : Hits(closed, i) # {}}
      degrees == Increasing({Degree(closed, i) : i \in ordered})
      entries == [k \in DOMAIN degrees |->
                    {gs[i] : i \in {j \in ordered : Degree(closed, j) = degrees[k]}}]
      others  == {gs[i] : i \in DOMAIN gs \ ordered}
  IN  IF others = {} THEN entries ELSE Append(entries, others)

compute_goal_agenda(g, gs) ==
  build_goal_agenda(gs, Closure(Len(gs), detect_ordering_constraints(g, gs)))
=============================================================================
