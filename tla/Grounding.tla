----------------------------- MODULE Grounding -----------------------------
(***************************************************************************)
(* The preprocessing of FF-v2.3: from a parsed PDDL problem to its ground  *)
(* actions (inst_pre.c, inst_easy.c, inst_hard.c).                         *)
(*                                                                         *)
(* A problem, and the domain dom made from it, are records: constants,     *)
(* types (name |-> constants), args (predicate |-> types of its arguments),*)
(* vars, initial, goal and operators.  An operator is [name, params,       *)
(* preconds, effects], an effect [params, conditions, literals], a literal *)
(* [negated, fact]; params maps each variable to its type.  Lists whose    *)
(* order means nothing are sets, so facts, disjuncts, templates and        *)
(* actions that occur twice are one.                                       *)
(***************************************************************************)
EXTENDS Wff

ALL_OBJECTS == "ARTFICIAL-ALL-OBJECTS"
EQ == "="

Known(pb, params) == \A x \in DOMAIN params : params[x] \in DOMAIN pb.types
                                              /\ pb.types[params[x]] # {}

(* A quantifier over an unknown or empty type, an empty AND or OR.         *)
RECURSIVE make_Wff(_, _)
make_Wff(pb, w) ==
  CASE w.c \in {"ALL", "EX"} ->
         IF Known(pb, w.var :> w.type) THEN [w EXCEPT !.son = make_Wff(pb, @)]
         ELSE IF w.c = "EX" THEN FAL ELSE TRU
    [] w.c \in {"AND", "OR"} ->
         IF w.sons = {} THEN (IF w.c = "OR" THEN FAL ELSE TRU)
         ELSE [w EXCEPT !.sons = {make_Wff(pb, s) : s \in @}]
    [] w.c = "NOT" -> NOT(make_Wff(pb, w.son))
    [] OTHER -> w

make_effect(pb, e) == [e EXCEPT !.conditions = make_Wff(pb, @)]

(* Operators and effects with a parameter of an unknown or empty type are  *)
(* skipped; every constant equals itself.                                  *)
encode_domain_in_integers(pb) ==
  [pb EXCEPT !.types   = (ALL_OBJECTS :> pb.constants) @@ @,
             !.args    = (EQ :> <<ALL_OBJECTS, ALL_OBJECTS>>) @@ @,
             !.initial = @ \cup {[p |-> EQ, args |-> <<k, k>>] : k \in pb.constants},
             !.goal    = make_Wff(pb, @),
             !.operators =
               {[o EXCEPT !.preconds = make_Wff(pb, @),
                          !.effects  = {make_effect(pb, e) : e \in {d \in @ : Known(pb, d.params)}}] :
                  o \in {q \in @ : Known(pb, q.params)}}]
-----------------------------------------------------------------------------
Literals(dom) == UNION {UNION {e.literals : e \in o.effects} : o \in dom.operators}

collect_inertia_information(dom) ==
  dom @@ [is_added   |-> {l.fact.p : l \in {k \in Literals(dom) : ~k.negated}},
          is_deleted |-> {l.fact.p : l \in {k \in Literals(dom) : k.negated}}]

Static(dom, p) == p \notin dom.is_added \cup dom.is_deleted

(* Each unary static predicate becomes a type.                             *)
split_initial_state(dom) ==
  dom @@ [unary |-> {p \in DOMAIN dom.args : Static(dom, p) /\ Len(dom.args[p]) = 1}]

ginitial(dom) == {f \in dom.initial : ~Static(dom, f.p)}

normalize_all_wffs(dom) ==
  LET normal(w)   == normalize_wff(dom, w)
      effect(e)   == [e EXCEPT !.conditions = normal(@)]
      operator(o) == [o EXCEPT !.preconds = normal(@), !.effects = {effect(e) : e \in @}]
  IN  [dom EXCEPT !.goal = normal(@), !.operators = {operator(o) : o \in @}]

(* The goal is put into DNF once it is known to be neither TRU nor FAL.    *)
goal_into_DNF(dom) == [dom EXCEPT !.goal = cleanup_wff(dom, dnf(@))]
-----------------------------------------------------------------------------
NegatedPredicates(dom) ==
  Negated(dom.goal) \cup UNION {Negated(o.preconds)
                                  \cup UNION {Negated(e.conditions) : e \in o.effects} :
                                o \in dom.operators}

Tuples(dom, p) ==
  {t \in [DOMAIN dom.args[p] -> dom.constants] :
     \A i \in DOMAIN t : t[i] \in dom.types[dom.args[p][i]]}

Opposite(f) == [f EXCEPT !.p = NotName(@)]

(* NOT-p: the literals on p are mirrored, and it holds initially where p   *)
(* does not.                                                               *)
Symmetric(ps, literals) ==
  literals \cup {[negated |-> ~l.negated, fact |-> Opposite(l.fact)] :
                   l \in {k \in literals : k.fact.p \in ps}}

add_to_initial_state(dom, p) ==
  {Opposite(f) : f \in {[p |-> p, args |-> t] : t \in Tuples(dom, p)} \ dom.initial}

translate_negative_preconds(dom) ==
  LET ps == NegatedPredicates(dom)
      effect(e) == [e EXCEPT !.conditions = replace_not_p_with_n_in_wff(@),
                             !.literals   = Symmetric(ps, @)]
      operator(o) == [o EXCEPT !.preconds = replace_not_p_with_n_in_wff(@),
                               !.effects  = {effect(e) : e \in @}]
      Mirrored(qs) == {NotName(p) : p \in ps \cap qs}
  IN  [dom EXCEPT !.goal       = replace_not_p_with_n_in_wff(@),
                  !.operators  = {operator(o) : o \in @},
                  !.is_added   = @ \cup Mirrored(dom.is_deleted),
                  !.is_deleted = @ \cup Mirrored(dom.is_added),
                  !.initial    = @ \cup UNION {add_to_initial_state(dom, p) : p \in ps},
                  !.args       = [n \in {NotName(p) : p \in ps} |->
                                    dom.args[CHOOSE p \in ps : NotName(p) = n]] @@ @]
-----------------------------------------------------------------------------
(* split_domain: the easy operators, one for each disjunct of the          *)
(* preconditions; their parameters map to sets of constants.               *)
hard(o) == ~is_dnf(o.preconds) \/ \E e \in o.effects : ~is_dnf(e.conditions)

ConstantsOf(dom, params) == [x \in DOMAIN params |-> dom.types[params[x]]]

Adds(literals) == {l.fact : l \in {k \in literals : ~k.negated}}
Dels(literals) == {l.fact : l \in {k \in literals : k.negated}}

make_normal_effects(dom, o) ==
  UNION {{[vars |-> ConstantsOf(dom, e.params), conditions |-> d,
           adds |-> Adds(e.literals), dels |-> Dels(e.literals)] :
            d \in Disjuncts(e.conditions)} : e \in o.effects}

NormOperators(dom, o) ==
  {[name |-> o.name, vars |-> ConstantsOf(dom, o.params), preconds |-> d,
    effects |-> make_normal_effects(dom, o)] : d \in Disjuncts(o.preconds)}

(* What the preconditions say already is no condition of an effect.        *)
cleanup_easy_domain(o) ==
  [o EXCEPT !.effects = {[e EXCEPT !.conditions = @ \ o.preconds] : e \in @}]

Extension(dom, p) == {f.args[1] : f \in {g \in dom.initial : g.p = p}}

(* The unary static facts about the variables vars become their types.     *)
UnaryAbout(dom, facts, xs) == {f \in facts : f.p \in dom.unary /\ f.args[1] \in xs}

Narrow(dom, vars, facts) ==
  [x \in DOMAIN vars |->
     {k \in vars[x] : \A f \in UnaryAbout(dom, facts, {x}) : k \in Extension(dom, f.p)}]

NarrowEffect(dom, e) ==
  [e EXCEPT !.vars       = Narrow(dom, @, e.conditions),
            !.conditions = @ \ UnaryAbout(dom, @, DOMAIN e.vars)]

encode_easy_unaries_as_types(dom, o) ==
  [o EXCEPT !.vars     = Narrow(dom, @, o.preconds),
            !.preconds = @ \ UnaryAbout(dom, @, DOMAIN o.vars),
            !.effects  = {NarrowEffect(dom, e) : e \in @}]

VarsIn(facts) == UNION {{f.args[i] : i \in DOMAIN f.args} : f \in facts}
EffectVars(e) == VarsIn(e.conditions \cup e.adds \cup e.dels)
UsedVars(o)   == VarsIn(o.preconds) \cup UNION {EffectVars(e) : e \in o.effects}

First(dom, ks) == CHOOSE k \in IF ks = {} THEN dom.constants ELSE ks : TRUE

(* An unused parameter is removed; removed keeps the constant that the     *)
(* name of the action will show for it.                                    *)
remove_unused_easy_parameters(dom, o) ==
  LET Left(vars, used) == [x \in DOMAIN vars \cap used |-> vars[x]]
  IN  [name     |-> o.name,
       removed  |-> [x \in DOMAIN o.vars \ UsedVars(o) |-> First(dom, o.vars[x])],
       vars     |-> Left(o.vars, UsedVars(o)),
       preconds |-> o.preconds,
       effects  |-> {[e EXCEPT !.vars = Left(@, EffectVars(e))] : e \in o.effects}]

HasEmpty(vars) == \E x \in DOMAIN vars : vars[x] = {}

handle_empty_easy_parameters(os) ==
  {[o EXCEPT !.effects = {e \in @ : ~HasEmpty(e.vars)}] : o \in {q \in os : ~HasEmpty(q.vars)}}

easy_operators(dom) ==
  handle_empty_easy_parameters(
    {remove_unused_easy_parameters(dom, encode_easy_unaries_as_types(dom, cleanup_easy_domain(o))) :
       o \in UNION {NormOperators(dom, o) : o \in {q \in dom.operators : ~hard(q)}}})
-----------------------------------------------------------------------------
(* Unification of a static fact c with the initial facts: each extension   *)
(* of sub by the constants of a fact that fits.  A variable that occurs    *)
(* twice in c, unbound, gets the constant of its last occurrence.  The     *)
(* parameters of operators must be in the ranges of their types, those of  *)
(* effects have none.                                                      *)
Unify(dom, c, sub, ranges) ==
  LET args   == Instance(c, sub).args
      open   == {i \in DOMAIN args : args[i] \in dom.vars}
      legal(x, k) == x \in DOMAIN ranges => k \in ranges[x]
      fits(f) == /\ f.p = c.p
                 /\ \A i \in DOMAIN args : IF i \in open THEN legal(args[i], f.args[i])
                                           ELSE args[i] = f.args[i]
      last(x) == CHOOSE i \in open : args[i] = x /\ \A j \in open : args[j] = x => j <= i
  IN  {[x \in {args[i] : i \in open} |-> f.args[last(x)]] @@ sub :
         f \in {g \in dom.initial : fits(g)}}

UnifyAll(dom, cs, ranges) ==
  FoldSet(LAMBDA c, subs : UNION {Unify(dom, c, sub, ranges) : sub \in subs}, {NoSub}, cs)

(* Every instance of the variables left.                                   *)
Multiply(vars, subs) ==
  LET Rest(sub) == {f \in [DOMAIN vars \ DOMAIN sub -> UNION {vars[x] : x \in DOMAIN vars}] :
                      \A x \in DOMAIN f : f[x] \in vars[x]}
  IN  UNION {{sub @@ f : f \in Rest(sub)} : sub \in subs}

InstanceSet(facts, sub) == {Instance(f, sub) : f \in facts}

InstanceEffect(e, sub) ==
  [conditions |-> InstanceSet(e.conditions, sub),
   adds |-> InstanceSet(e.adds, sub), dels |-> InstanceSet(e.dels, sub)]

InertiaConds(dom, e, opvars) ==
  {c \in e.conditions : Static(dom, c.p) /\ VarsIn({c}) \cap opvars = {}}

multiply_easy_effect_parameters(dom, o, e) ==
  LET cs == InertiaConds(dom, e, DOMAIN o.vars)
  IN  {InstanceEffect([e EXCEPT !.conditions = @ \ cs], sub) :
         sub \in Multiply(e.vars, UnifyAll(dom, cs, NoSub))}

(* The templates of an operator; the static preconditions are unified and  *)
(* gone.                                                                   *)
multiply_easy_op_parameters(dom, o) ==
  LET cs == {c \in o.preconds : Static(dom, c.p)}
      effects == UNION {multiply_easy_effect_parameters(dom, o, e) : e \in o.effects}
  IN  {[name |-> o.name, inst |-> sub @@ o.removed,
        preconds |-> InstanceSet(o.preconds \ cs, sub),
        effects  |-> {InstanceEffect(e, sub) : e \in effects}] :
          sub \in Multiply(o.vars, UnifyAll(dom, cs, o.vars))}

build_easy_action_templates(dom) ==
  UNION {multiply_easy_op_parameters(dom, o) : o \in easy_operators(dom)}
-----------------------------------------------------------------------------
(* Hard operators: the formulae are instantiated first and put into DNF    *)
(* then.                                                                   *)
GroundDisjuncts(dom, w, sub) ==
  Disjuncts(cleanup_wff(dom, dnf(instantiate_wff(dom, w, sub))))

create_hard_pseudo_effects(dom, e, sub) ==
  LET Ground(s) == {[conditions |-> d, adds |-> InstanceSet(Adds(e.literals), s),
                     dels |-> InstanceSet(Dels(e.literals), s)] :
                       d \in GroundDisjuncts(dom, e.conditions, s)}
  IN  UNION {Ground(s @@ sub) : s \in Multiply(ConstantsOf(dom, e.params), {NoSub})}

cleanup_hard_domain(dom, o) ==
  LET used(x) == \/ var_used_in_wff(x, o.preconds)
                 \/ \E e \in o.effects : \/ var_used_in_wff(x, e.conditions)
                                         \/ x \in VarsIn(Adds(e.literals) \cup Dels(e.literals))
      vars == ConstantsOf(dom, o.params)
  IN  [x \in DOMAIN vars |-> IF used(x) THEN vars[x] ELSE {First(dom, vars[x])}]

create_hard_mixed_operators(dom, o) ==
  UNION {{[name |-> o.name, inst |-> sub, preconds |-> d,
           effects |-> UNION {create_hard_pseudo_effects(dom, e, sub) : e \in o.effects}] :
             d \in GroundDisjuncts(dom, o.preconds, sub)} :
         sub \in Multiply(cleanup_hard_domain(dom, o), {NoSub})}

build_hard_action_templates(dom) ==
  UNION {create_hard_mixed_operators(dom, o) : o \in {q \in dom.operators : hard(q)}}
=============================================================================
