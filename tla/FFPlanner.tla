----------------------------- MODULE FFPlanner -----------------------------
(***************************************************************************)
(* FF-v2.3 from the text of a PDDL problem to its answer (main.c): typed   *)
(* lists and effects, encoding, inertia, normalization, NOT-p translation, *)
(* instantiation, reachability, the final task, and then the search.       *)
(***************************************************************************)
EXTENDS FinalTask, Grounding, Parse

CONSTANT Problems     \* the texts the grammars may hand over

VARIABLES
  text,       \* the parse trees: gparse_*, gorig_*, gloaded_ops
  problem,    \* the same after make_adl_domain
  dom         \* its integer representation as preprocessing leaves it

textVars == <<text, problem, dom>>
vars == <<textVars, reachVars, searchVars>>

NoTask == [initial |-> {}]

Init ==
  /\ text \in Problems
  /\ problem = NoSub /\ dom = NoSub /\ templates = {} /\ pos = {} /\ gactions = {}
  /\ task = NoTask /\ pc = "parse"
  /\ SearchInit

BuildAdlDomain ==
  /\ pc = "parse"
  /\ IF is_adl(text) THEN problem' = make_adl_domain(text) /\ pc' = "encode"
     ELSE pc' = "no ADL" /\ UNCHANGED problem
  /\ UNCHANGED <<text, dom, templates, pos, gactions, task>> /\ Keep

Encode ==
  /\ pc = "encode"
  /\ dom' = split_initial_state(collect_inertia_information(encode_domain_in_integers(problem)))
  /\ pc' = "normalize"
  /\ UNCHANGED <<text, problem, templates, pos, gactions, task>> /\ Keep

(* A goal that simplifies to TRUE or FALSE ends the planner.               *)
NormalizeAllWffs ==
  /\ pc = "normalize"
  /\ LET normal == normalize_all_wffs(dom)
     IN  CASE normal.goal = TRU -> pc' = "empty plan" /\ UNCHANGED dom
           [] normal.goal = FAL -> pc' = "no plan" /\ UNCHANGED dom
           [] OTHER -> pc' = "translate" /\ dom' = goal_into_DNF(normal)
  /\ UNCHANGED <<text, problem, templates, pos, gactions, task>> /\ Keep

TranslateNegativePreconds ==
  /\ pc = "translate"
  /\ dom' = translate_negative_preconds(dom)
  /\ pc' = "instantiate"
  /\ UNCHANGED <<text, problem, templates, pos, gactions, task>> /\ Keep

BuildActionTemplates ==
  /\ pc = "instantiate"
  /\ templates' = build_easy_action_templates(dom) \cup build_hard_action_templates(dom)
  /\ pos' = dom.initial
  /\ pc' = "reach"
  /\ UNCHANGED <<text, problem, dom, gactions, task>> /\ Keep

Reachability == ReachabilityPass /\ UNCHANGED textVars

RECURSIVE Undecided(_)
Undecided(w) == \/ w.c = "ATOM"
                \/ w.c \in {"AND", "OR"} /\ \A s \in w.sons : Undecided(s)

(* A goal that the first DNF has decided is no ATOM, AND or OR any more.   *)
Collect ==
  /\ pc = "collect"
  /\ IF Undecided(dom.goal) THEN CollectRelevantFacts(dom.initial, ginitial(dom), Disjuncts(dom.goal))
     ELSE pc' = "won't get here" /\ UNCHANGED <<task, reachVars>> /\ Keep
  /\ UNCHANGED textVars

Search == SearchNext /\ UNCHANGED <<textVars, reachVars>>

Answers == {"found", "empty plan", "no plan", "unsolvable", "no ADL"}
Aborts  == {"too long", "won't get here", "debug me", "endless"}

Exit == pc \in Answers \cup Aborts /\ UNCHANGED vars

Next == \/ BuildAdlDomain \/ Encode \/ NormalizeAllWffs \/ TranslateNegativePreconds \/ BuildActionTemplates
        \/ Reachability \/ Collect \/ Search \/ Exit

Spec == Init /\ [][Next]_vars

(* The planner is one thread that keeps running: weak fairness of Next,    *)
(* whose enabling condition is spelled out.  Until it has answered or      *)
(* aborted it can take a step, and every step changes a variable: pc, the  *)
(* templates, the node that is current or the open list.                   *)
Running  == pc \notin Answers \cup Aborts
FairSpec == Spec /\ ([]<>~Running \/ []<><<TRUE>>_vars)
=============================================================================
