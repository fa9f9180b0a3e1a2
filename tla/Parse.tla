-------------------------------- MODULE Parse --------------------------------
(***************************************************************************)
(* What FF-v2.3 makes of the parsed domain and problem (parse.c): the      *)
(* types with all their members, quantifiers over one variable each, and   *)
(* operators whose effects are a set of conditional effects.               *)
(*                                                                         *)
(* A text is what the grammars deliver: the lists types and constants and, *)
(* for each predicate, the list args, all of names with a type; the        *)
(* variables vars; the nodes initial and goal; the list ops.  A type is    *)
(* a sequence of names, of more than one for (either ...).  The nodes are  *)
(* those of Wff, but that a quantifier has a list of variables, an effect  *)
(* may be under a WHEN, and NIL stands for what the text leaves out.       *)
(***************************************************************************)
EXTENDS Wff

NIL == [c |-> "NIL"]
FORALL(list, w) == [c |-> "ALL", list |-> list, son |-> w]
EXISTS(list, w) == [c |-> "EX", list |-> list, son |-> w]
WHEN(condition, w) == [c |-> "WHEN", condition |-> condition, son |-> w]
Typed(name, type)  == [name |-> name, type |-> type]

STANDARD_TYPE == "object"
TypeName(type) == IF Len(type) = 1 THEN type[1]
                  ELSE FoldLeft(LAMBDA s, t : s \o "~" \o t, "EITHER", type)

InSomeOrder(set) == FoldSet(LAMBDA x, list : Append(list, x), <<>>, set)

(* The typed lists in a formula or an effect.                              *)
RECURSIVE TypedIn(_)
TypedIn(n) ==
  CASE n.c \in {"ALL", "EX"} -> Append(TypedIn(n.son), n.list)
    [] n.c \in {"AND", "OR"} -> FoldSet(LAMBDA s, lists : lists \o TypedIn(s), <<>>, n.sons)
    [] n.c = "NOT"  -> TypedIn(n.son)
    [] n.c = "WHEN" -> TypedIn(n.condition) \o TypedIn(n.son)
    [] OTHER -> <<>>

(* All typed lists of a text, in the order they are looked at.             *)
TypedLists(text) ==
  LET ps == InSomeOrder(DOMAIN text.args)
      ofOp(o) == TypedIn(o.preconds) \o TypedIn(o.effects) \o <<o.params>>
  IN  <<text.types, text.constants>> \o [k \in DOMAIN ps |-> text.args[ps[k]]]
        \o TypedIn(text.goal) \o FlattenSeq([k \in DOMAIN text.ops |-> ofOp(text.ops[k])])

(* ltype_names: each type once, in the order of its first use.             *)
ltype_names(text) ==
  LET Enter(names, t) == IF t \in ToSet(names) THEN names ELSE Append(names, t)
      used == FlattenSeq(TypedLists(text))
      declared == [k \in 1..(2 * Len(text.types)) |->
                     LET t == text.types[(k + 1) \div 2]
                     IN  IF k % 2 = 1 THEN t.name ELSE TypeName(t.type)]
  IN  FoldLeft(Enter, <<>>, declared \o [k \in DOMAIN used |-> TypeName(used[k].type)])

(* One type after the other as the intermediate one.                       *)
Closed(names, m) ==
  FoldLeft(LAMBDA C, j : C \cup ({i \in ToSet(names) : <<i, j>> \in C}
                                   \X {k \in ToSet(names) : <<j, k>> \in C}), m, names)

(* A union is a subtype of every type its components are subtypes of; they *)
(* are subtypes of it.                                                     *)
AddUnion(names, components, m, i) ==
  LET above == {j \in ToSet(names) \ {i} : \A k \in components[i] : <<k, j>> \in m}
  IN  IF Cardinality(components[i]) < 2 \/ above = {} THEN m
      ELSE m \cup ({i} \X above) \cup (components[i] \X {i})

Inclusions(text, names) ==
  LET used == FlattenSeq(TypedLists(text))
      components == [t \in ToSet(names) |->
                       UNION {ToSet(used[k].type) : k \in {k \in DOMAIN used : TypeName(used[k].type) = t}}]
      declared == {<<t, t>> : t \in ToSet(names)} \cup (ToSet(names) \X {STANDARD_TYPE})
                    \cup {<<t.name, TypeName(t.type)>> : t \in ToSet(text.types)}
  IN  Closed(names, FoldLeft(LAMBDA m, i : AddUnion(names, components, m, i),
                             Closed(names, declared), names))

(* Each constant is a member of its type and of all types above.           *)
Members(text, m, t) == {k.name : k \in {k \in ToSet(text.constants) : <<TypeName(k.type), t>> \in m}}

build_orig_constant_list(text) ==
  LET m == Inclusions(text, ltype_names(text))
  IN  [t \in {t \in ToSet(ltype_names(text)) : Members(text, m, t) # {}} |-> Members(text, m, t)]

(* A quantifier with one variable for each that it lists.                  *)
RECURSIVE normalize_tyl_in_pl(_)
normalize_tyl_in_pl(n) ==
  CASE n.c \in {"ALL", "EX"} ->
         FoldRight(LAMBDA t, w : [c |-> n.c, var |-> t.name, type |-> TypeName(t.type), son |-> w],
                   n.list, normalize_tyl_in_pl(n.son))
    [] n.c \in {"AND", "OR"} -> [n EXCEPT !.sons = {normalize_tyl_in_pl(s) : s \in @}]
    [] n.c = "NOT"  -> [n EXCEPT !.son = normalize_tyl_in_pl(@)]
    [] n.c = "WHEN" -> [n EXCEPT !.condition = normalize_tyl_in_pl(@), !.son = normalize_tyl_in_pl(@)]
    [] OTHER -> n
-----------------------------------------------------------------------------
(* make_adl_domain: what is no ADL is refused.                             *)
OrTrue(n) == IF n = NIL THEN TRU ELSE n

RECURSIVE is_wff(_)
is_wff(n) ==
  CASE n.c \in {"ALL", "EX", "NOT"} -> is_wff(n.son)
    [] n.c \in {"AND", "OR"} -> \A s \in n.sons : is_wff(s)
    [] OTHER -> n.c \in {"ATOM", "TRU", "FAL"}

is_eff_literal(n) == n.c = "ATOM" \/ (n.c = "NOT" /\ n.son.c = "ATOM")

Parts(n) == IF n.c = "AND" THEN n.sons ELSE {n}

make_conjunction_of_literals(n) == \A s \in Parts(n) : is_eff_literal(s)

LiteralsOf(n) ==
  {[negated |-> s.c = "NOT", fact |-> IF s.c = "NOT" THEN s.son.fact ELSE s.fact] : s \in Parts(n)}

(* The variables quantified in front, and what they are quantified over.   *)
RECURSIVE Quantified(_)
Quantified(n) == IF n.c # "ALL" THEN [params |-> NoSub, body |-> n]
                 ELSE LET q == Quantified(n.son)
                      IN  [q EXCEPT !.params = (n.var :> n.type) @@ @]

IsConditional(n) ==
  IF n.c = "WHEN" THEN is_wff(OrTrue(n.condition)) /\ make_conjunction_of_literals(n.son)
  ELSE make_conjunction_of_literals(n)

is_effect(n) == \A s \in Parts(n) : IsConditional(Quantified(s).body)

Conditional(q) ==
  IF q.body.c = "WHEN"
  THEN [params |-> q.params, conditions |-> OrTrue(q.body.condition), literals |-> LiteralsOf(q.body.son)]
  ELSE [params |-> q.params, conditions |-> TRU, literals |-> LiteralsOf(q.body)]

(* The literals without a condition come together in one more effect.      *)
make_effects(n) ==
  LET plain == {s \in Parts(n) : make_conjunction_of_literals(s)}
      literals == UNION {LiteralsOf(s) : s \in plain}
  IN  {Conditional(Quantified(s)) : s \in Parts(n) \ plain}
        \cup IF literals = {} THEN {} ELSE {[params |-> NoSub, conditions |-> TRU, literals |-> literals]}

is_initial(n) == n = NIL \/ \A s \in Parts(n) : s.c \in {"ATOM", "NOT"}

(* The negated facts of the initial state are dropped.                     *)
make_conjunction_of_atoms(n) ==
  IF n = NIL THEN {} ELSE {s.fact : s \in {p \in Parts(n) : p.c = "ATOM"}}

is_adl(text) ==
  /\ is_initial(text.initial)
  /\ is_wff(OrTrue(text.goal))
  /\ \A k \in DOMAIN text.ops : /\ is_wff(OrTrue(text.ops[k].preconds))
                                /\ is_effect(normalize_tyl_in_pl(text.ops[k].effects))

Params(list) == [x \in {t.name : t \in ToSet(list)} |->
                   TypeName((CHOOSE t \in ToSet(list) : t.name = x).type)]

AdlOperator(o) ==
  [name |-> o.name, params |-> Params(o.params),
   preconds |-> normalize_tyl_in_pl(OrTrue(o.preconds)),
   effects |-> make_effects(normalize_tyl_in_pl(o.effects))]

make_adl_domain(text) ==
  [constants |-> {k.name : k \in ToSet(text.constants)},
   types     |-> build_orig_constant_list(text),
   args      |-> [p \in DOMAIN text.args |-> [k \in DOMAIN text.args[p] |-> TypeName(text.args[p][k].type)]],
   vars      |-> text.vars,
   initial   |-> make_conjunction_of_atoms(text.initial),
   goal      |-> normalize_tyl_in_pl(OrTrue(text.goal)),
   operators |-> {AdlOperator(text.ops[k]) : k \in DOMAIN text.ops}]
=============================================================================
