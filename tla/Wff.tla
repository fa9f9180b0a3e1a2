-------------------------------- MODULE Wff --------------------------------
(***************************************************************************)
(* The formulae of FF-v2.3 and their normalization (inst_pre.c).           *)
(*                                                                         *)
(* A fact is [p, args] with constants and variables as arguments, a        *)
(* formula one of the records below.  The sons of a node are a set: their  *)
(* order, and a son that occurs twice, mean nothing.  dom is the domain in *)
(* integer representation: its variables, its types with their constants,  *)
(* the predicates some operator adds or deletes, the initial facts.        *)
(***************************************************************************)
EXTENDS Integers, Sequences, FiniteSets, SequencesExt

TRU == [c |-> "TRU"]
FAL == [c |-> "FAL"]
ATOM(fact) == [c |-> "ATOM", fact |-> fact]
NOT(w)     == [c |-> "NOT", son |-> w]
AND(ws)    == [c |-> "AND", sons |-> ws]
OR(ws)     == [c |-> "OR", sons |-> ws]
ALL(x, type, w) == [c |-> "ALL", var |-> x, type |-> type, son |-> w]
EX(x, type, w)  == [c |-> "EX", var |-> x, type |-> type, son |-> w]

(* A substitution maps some variables to constants.                        *)
Instance(fact, sub) ==
  [fact EXCEPT !.args = [i \in DOMAIN fact.args |->
     IF fact.args[i] \in DOMAIN sub THEN sub[fact.args[i]] ELSE fact.args[i]]]

HasVars(dom, fact) == \E i \in DOMAIN fact.args : fact.args[i] \in dom.vars

matches(dom, f1, f2) ==
  \A i \in DOMAIN f1.args : f1.args[i] \in dom.vars \/ f1.args[i] = f2.args[i]

(* Inertia: what no operator adds, or deletes, is as in the initial state. *)
possibly_positive(dom, f) ==
  \/ f.p \in dom.is_added
  \/ \E i \in dom.initial : i.p = f.p /\ matches(dom, f, i)

possibly_negative(dom, f) ==
  \/ f.p \in dom.is_deleted
  \/ HasVars(dom, f)
  \/ f \notin dom.initial

SimplifyAtom(dom, f) ==
  IF ~possibly_negative(dom, f) THEN TRU
  ELSE IF ~possibly_positive(dom, f) THEN FAL ELSE ATOM(f)

(* A conjunction, or disjunction, without its neutral sons.                *)
Combine(c, ws) ==
  LET neutral == IF c = "AND" THEN TRU ELSE FAL
      zero    == IF c = "AND" THEN FAL ELSE TRU
      left    == ws \ {neutral}
  IN  IF zero \in ws THEN zero
      ELSE IF left = {} THEN neutral
      ELSE IF Cardinality(left) = 1 THEN CHOOSE w \in left : TRUE
      ELSE [c |-> c, sons |-> left]

Negate(w) == IF w = TRU THEN FAL ELSE IF w = FAL THEN TRU ELSE NOT(w)

RECURSIVE simplify_wff(_, _)
simplify_wff(dom, w) ==
  CASE w.c \in {"ALL", "EX"} ->
         LET s == simplify_wff(dom, w.son)
         IN  IF s \in {TRU, FAL} THEN s ELSE [w EXCEPT !.son = s]
    [] w.c \in {"AND", "OR"} -> Combine(w.c, {simplify_wff(dom, s) : s \in w.sons})
    [] w.c = "NOT"  -> Negate(simplify_wff(dom, w.son))
    [] w.c = "ATOM" -> SimplifyAtom(dom, w.fact)
    [] OTHER -> w

RECURSIVE var_used_in_wff(_, _)
var_used_in_wff(x, w) ==
  CASE w.c \in {"ALL", "EX", "NOT"} -> var_used_in_wff(x, w.son)
    [] w.c \in {"AND", "OR"} -> \E s \in w.sons : var_used_in_wff(x, s)
    [] w.c = "ATOM" -> \E i \in DOMAIN w.fact.args : w.fact.args[i] = x
    [] OTHER -> FALSE

RECURSIVE remove_unused_vars_in_wff(_)
remove_unused_vars_in_wff(w) ==
  CASE w.c \in {"ALL", "EX"} ->
         LET s == remove_unused_vars_in_wff(w.son)
         IN  IF var_used_in_wff(w.var, s) THEN [w EXCEPT !.son = s] ELSE s
    [] w.c \in {"AND", "OR"} ->
         [w EXCEPT !.sons = {remove_unused_vars_in_wff(s) : s \in w.sons}]
    [] w.c = "NOT" -> [w EXCEPT !.son = remove_unused_vars_in_wff(w.son)]
    [] OTHER -> w

(* One son for each constant of the type, the outer quantifiers first.     *)
RECURSIVE expand_quantifiers_in_wff(_, _, _)
expand_quantifiers_in_wff(dom, w, sub) ==
  CASE w.c \in {"ALL", "EX"} ->
         [c    |-> IF w.c = "ALL" THEN "AND" ELSE "OR",
          sons |-> {expand_quantifiers_in_wff(dom, w.son, (w.var :> k) @@ sub) :
                      k \in dom.types[w.type]}]
    [] w.c \in {"AND", "OR"} ->
         [w EXCEPT !.sons = {expand_quantifiers_in_wff(dom, s, sub) : s \in w.sons}]
    [] w.c = "NOT"  -> NOT(expand_quantifiers_in_wff(dom, w.son, sub))
    [] w.c = "ATOM" -> SimplifyAtom(dom, Instance(w.fact, sub))
    [] OTHER -> w

RECURSIVE NOTs_down_in_wff(_)
NOTs_down_in_wff(w) ==
  CASE w.c \in {"AND", "OR"} -> [w EXCEPT !.sons = {NOTs_down_in_wff(s) : s \in w.sons}]
    [] w.c = "NOT" ->
         LET s == w.son
         IN  CASE s.c = "NOT" -> NOTs_down_in_wff(s.son)
               [] s.c \in {"AND", "OR"} ->
                    [c    |-> IF s.c = "AND" THEN "OR" ELSE "AND",
                     sons |-> {NOTs_down_in_wff(NOT(t)) : t \in s.sons}]
               [] OTHER -> w
    [] OTHER -> w

RECURSIVE merge_ANDs_and_ORs_in_wff(_)
merge_ANDs_and_ORs_in_wff(w) ==
  IF w.c \in {"AND", "OR"}
  THEN LET ms == {merge_ANDs_and_ORs_in_wff(s) : s \in w.sons}
       IN  [w EXCEPT !.sons = {s \in ms : s.c # w.c}
                                \cup UNION {s.sons : s \in {t \in ms : t.c = w.c}}]
  ELSE w

(* An atom and its negation side by side.                                  *)
RECURSIVE detect_tautologies_in_wff(_)
detect_tautologies_in_wff(w) ==
  IF w.c \in {"AND", "OR"}
  THEN LET ds == {detect_tautologies_in_wff(s) : s \in w.sons}
       IN  IF \E d \in ds : d.c = "ATOM" /\ NOT(d) \in ds
           THEN IF w.c = "AND" THEN FAL ELSE TRU
           ELSE [w EXCEPT !.sons = ds]
  ELSE w

cleanup_wff(dom, w) ==
  merge_ANDs_and_ORs_in_wff(detect_tautologies_in_wff(simplify_wff(dom,
    detect_tautologies_in_wff(merge_ANDs_and_ORs_in_wff(w)))))

NoSub == [x \in {} |-> x]

normalize_wff(dom, w) ==
  cleanup_wff(dom, NOTs_down_in_wff(expand_quantifiers_in_wff(dom,
    remove_unused_vars_in_wff(simplify_wff(dom, w)), NoSub)))
-----------------------------------------------------------------------------
(* A conjunction of ORs becomes the OR of its hitting sets: one son, or    *)
(* one disjunct of a son, of each.                                         *)
Branches(w) == IF w.c = "OR" THEN w.sons ELSE {w}

Sons(c, w) == IF w.c = c THEN w.sons ELSE {w}

HittingSets(ws) ==
  FoldSet(LAMBDA w, hs : {h \cup Sons("AND", b) : h \in hs, b \in Branches(w)}, {{}}, ws)

RECURSIVE dnf(_)
dnf(w) ==
  IF w.c \notin {"AND", "OR"} THEN w
  ELSE LET ds == {dnf(s) : s \in w.sons}
       IN  IF w.c = "AND" /\ \E d \in ds : d.c = "OR"
           THEN OR({AND(hs) : hs \in HittingSets(ds)})
           ELSE [c |-> w.c, sons |-> UNION {Sons(w.c, d) : d \in ds}]

IsLiterals(w) == w.c = "ATOM" \/ (w.c = "AND" /\ \A s \in w.sons : s.c = "ATOM")

is_dnf(w) == \/ w.c \in {"TRU", "FAL"} \/ IsLiterals(w)
             \/ w.c = "OR" /\ \A s \in w.sons : IsLiterals(s)

(* The conjuncts of a literal conjunction, and the disjuncts of a DNF.     *)
Facts(w) == IF w.c = "ATOM" THEN {w.fact} ELSE {s.fact : s \in w.sons}

Disjuncts(w) == CASE w.c = "TRU" -> {{}}
                  [] w.c = "FAL" -> {}
                  [] w.c = "OR"  -> {Facts(s) : s \in w.sons}
                  [] OTHER       -> {Facts(w)}

(* The predicates under a NOT, and the formula with NOT-p in their place.  *)
RECURSIVE Negated(_)
Negated(w) == CASE w.c \in {"AND", "OR"} -> UNION {Negated(s) : s \in w.sons}
                [] w.c = "NOT" -> {w.son.fact.p}
                [] OTHER -> {}

NotName(p) == "NOT-" \o p

RECURSIVE replace_not_p_with_n_in_wff(_)
replace_not_p_with_n_in_wff(w) ==
  CASE w.c \in {"AND", "OR"} ->
         [w EXCEPT !.sons = {replace_not_p_with_n_in_wff(s) : s \in w.sons}]
    [] w.c = "NOT" -> ATOM([w.son.fact EXCEPT !.p = NotName(@)])
    [] OTHER -> w

(* instantiate_wff: the formula under sub; an atom without variables left  *)
(* is decided by the inertia.                                              *)
RECURSIVE instantiate_wff(_, _, _)
instantiate_wff(dom, w, sub) ==
  CASE w.c \in {"AND", "OR"} -> Combine(w.c, {instantiate_wff(dom, s, sub) : s \in w.sons})
    [] w.c = "ATOM" -> LET f == Instance(w.fact, sub)
                       IN  IF HasVars(dom, f) THEN ATOM(f) ELSE SimplifyAtom(dom, f)
    [] OTHER -> w
=============================================================================
