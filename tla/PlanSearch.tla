----------------------------- MODULE PlanSearch -----------------------------
(***************************************************************************)
(* The search of FF (search.c and the main loop of main.c): enforced hill  *)
(* climbing towards one goal agenda entry after the other, and best first  *)
(* search from the initial state when it fails.                            *)
(*                                                                         *)
(* The hash table of a climbing step holds the states of its space, so it  *)
(* is not a variable of its own.  The plan hash table is: it keeps the     *)
(* states that an earlier plan went through, with step -1, and their old   *)
(* next_step links.                                                        *)
(***************************************************************************)
EXTENDS RelaxedPlan, GoalAgenda

CONSTANT MAX_PLAN_LENGTH

VARIABLES
  task,         \* [graph, initial, goals]: gef_conn..., ginitial_state, ggoal_state
  pc,           \* the function the planner is in
  agenda,       \* ggoal_agenda
  entry,        \* i of main: the agenda entry being worked on
  current_end,  \* the goals of all entries up to this one
  S, h, gH,     \* the state climbed to, its goal distance, its helpful operators
  space,        \* nodes [S, op, father, new_goal] from lehc_space_head on
  current,      \* lehc_current_start, an index of space
  plan_ops,     \* gplan_ops
  plan_states,  \* gplan_states; plan_states[k + 1] is reached by k operators
  plan_hash,    \* lplan_hash_entry: state |-> [step, next_step]
  open, nodes   \* best first: the open list, and all nodes [S, op, h, father]

climbVars == <<agenda, entry, current_end, S, h, gH, space, current, plan_hash>>
planVars  == <<plan_ops, plan_states>>
bfsVars   == <<open, nodes>>
searchVars == <<task, pc, climbVars, planVars, bfsVars>>

NULL == {-1}     \* no state: the facts are numbered from 1
INVALID == -1
graph == task.graph

SearchInit ==
  /\ agenda = <<>> /\ entry = 0 /\ current_end = {}
  /\ S = {} /\ h = INFINITY /\ gH = <<>> /\ space = <<>> /\ current = 0
  /\ plan_hash = [s \in {} |-> 0]
  /\ plan_ops = <<>> /\ plan_states = <<>>
  /\ open = <<>> /\ nodes = <<>>
-----------------------------------------------------------------------------
(* main: from the final task to the first climb.                           *)
ComputeGoalAgenda ==
  /\ pc = "agenda"
  /\ agenda' = compute_goal_agenda(graph, task.goals)
  /\ entry' = 1
  /\ current_end' = agenda'[1]
  /\ plan_states' = <<task.initial>>
  /\ plan_hash' = [s \in {task.initial} |-> [step |-> 0, next_step |-> NULL]]
  /\ pc' = "climb"
  /\ UNCHANGED <<task, S, h, gH, space, current, plan_ops, bfsVars>>

(* do_enforced_hill_climbing, before its loop.                             *)
Start(eval) ==
  /\ h' = eval.h /\ gH' = eval.H
  /\ pc' = CASE eval.h = INFINITY -> "fallback"
             [] eval.h = 0        -> "reached"
             [] OTHER             -> "widen"

StartClimbing ==
  /\ pc = "climb"
  /\ S' = Last(plan_states)
  /\ Start(get_1P_and_H(graph, Last(plan_states), current_end))
  /\ UNCHANGED <<task, agenda, entry, current_end, space, current, plan_hash, planVars, bfsVars>>

(* The hash table of a climb: its start and the states of its space.       *)
ehc_state_hashed(sp, s) == s = S \/ \E n \in DOMAIN sp : sp[n].S = s

(* add_to_ehc_space, for op applied to s and for the operators ops.        *)
EnterSpace(sp, op, s, father) ==
  LET t == result_to_dest(graph, s, op)
  IN  IF ehc_state_hashed(sp, t) THEN sp
      ELSE Append(sp, [S |-> t, op |-> op, father |-> father, new_goal |-> new_goal(graph, s, op)])

Successors(sp, ops, s, father) ==
  FoldLeft(LAMBDA acc, op : EnterSpace(acc, op, s, father), sp, ops)

(* search_for_better_state, before its loop.                               *)
Widen ==
  /\ pc = "widen"
  /\ space' = Successors(<<>>, gH, S, 0)
  /\ current' = 1
  /\ pc' = "expand"
  /\ UNCHANGED <<task, agenda, entry, current_end, S, h, gH, plan_hash, planVars, bfsVars>>

new_goal_gets_deleted(n, eval) ==
  /\ n.new_goal # NoGoal
  /\ \E k \in DOMAIN eval.in_plan : n.new_goal \in graph.ef[eval.in_plan[k][1]].D

(* expand_first_node: the node is dropped, or it is the better state the   *)
(* climb was looking for, or its helpful successors join the space.        *)
Judge(n, eval) ==
  LET dropped == eval.h = INFINITY \/ new_goal_gets_deleted(n, eval)
      better  == ~dropped /\ eval.h < h
  IN  /\ gH' = IF eval.h = INFINITY THEN gH ELSE eval.H
      /\ h' = IF better THEN eval.h ELSE h
      /\ pc' = IF better THEN "extract" ELSE "expand"
      /\ current' = IF better THEN current ELSE current + 1
      /\ space' = IF dropped \/ better THEN space
                  ELSE Successors(space, eval.H, n.S, current)

ExpandFirstNode ==
  /\ pc = "expand" /\ current <= Len(space)
  /\ Judge(space[current], get_1P_and_H(graph, space[current].S, current_end))
  /\ UNCHANGED <<task, agenda, entry, current_end, S, plan_hash, planVars, bfsVars>>

\* Fault: a climb that fails is tried again.
X_SpaceExhausted_Again ==
  /\ pc = "expand" /\ current > Len(space)
  /\ pc' = "climb"
  /\ UNCHANGED <<task, climbVars, planVars, bfsVars>>

SpaceExhausted ==
  /\ pc = "expand" /\ current > Len(space)
  /\ pc' = "fallback"
  /\ UNCHANGED <<task, climbVars, planVars, bfsVars>>
-----------------------------------------------------------------------------
(* extract_plan_fragment.  The nodes from the start to the better state;   *)
(* the deepest of them that the plan already goes through cuts the plan    *)
(* back.                                                                   *)
PathTo(n) ==
  LET P[i \in DOMAIN space] ==
        IF space[i].father = 0 THEN <<space[i]>>
        ELSE Append(P[space[i].father], space[i])
  IN  P[n]

InPlan(ph, s) == s \in DOMAIN ph /\ ph[s].step # INVALID

CutAt(path) == Max({0} \cup {i \in DOMAIN path : InPlan(plan_hash, path[i].S)})

(* The states that the walk along next_step from s invalidates; it does    *)
(* not end when one of them links back.                                    *)
Links(ph, N) == {ph[t].next_step : t \in N} \ {NULL}

Linked(ph, s) ==
  FoldLeft(LAMBDA N, k : N \cup Links(ph, N), Links(ph, {s}), Upto(Cardinality(DOMAIN ph)))

WalkEnds(ph, s) == s \notin Linked(ph, s) /\ \A t \in Linked(ph, s) : t \notin Linked(ph, t)

CutBack(ph, s) ==
  [t \in DOMAIN ph |-> IF t \in Linked(ph, s) THEN [ph[t] EXCEPT !.step = INVALID] ELSE ph[t]]

(* hash_plan_state: a state is entered again with its old link.            *)
hash_plan_state(ph, s, step) ==
  [t \in DOMAIN ph \cup {s} |->
     IF t # s THEN ph[t]
     ELSE [step |-> step, next_step |-> IF s \in DOMAIN ph THEN ph[s].next_step ELSE NULL]]

\* Fault: a state is entered with the step before it.
X_Extend_Early(acc, n) ==
  LET ph == hash_plan_state(acc.hash, n.S, Len(acc.ops))
  IN  [hash |-> [ph EXCEPT ![acc.start].next_step = n.S], start |-> n.S,
       ops |-> Append(acc.ops, n.op), states |-> Append(acc.states, n.S)]

(* One operator more: the table, the link, the states and the operators.   *)
Extend(acc, n) ==
  LET ph == hash_plan_state(acc.hash, n.S, Len(acc.ops) + 1)
  IN  [hash |-> [ph EXCEPT ![acc.start].next_step = n.S], start |-> n.S,
       ops |-> Append(acc.ops, n.op), states |-> Append(acc.states, n.S)]

ExtractPlanFragment ==
  /\ pc = "extract"
  /\ LET path  == PathTo(current)
         cut   == CutAt(path)
         from  == IF cut = 0 THEN S ELSE path[cut].S
         step  == IF cut = 0 THEN Len(plan_ops) ELSE plan_hash[from].step
         rest  == SubSeq(path, cut + 1, Len(path))
         hash  == IF cut = 0 THEN plan_hash ELSE CutBack(plan_hash, from)
         fragment == FoldLeft(Extend, [hash |-> hash, start |-> from,
                                       ops |-> SubSeq(plan_ops, 1, step),
                                       states |-> SubSeq(plan_states, 1, step + 1)], rest)
     IN  IF step + Len(rest) > MAX_PLAN_LENGTH
         THEN pc' = "too long" /\ UNCHANGED <<task, climbVars, planVars, bfsVars>>
         ELSE IF ~InPlan(plan_hash, from) \/ \E i \in DOMAIN rest : InPlan(hash, rest[i].S)
         THEN pc' = "debug me" /\ UNCHANGED <<task, climbVars, planVars, bfsVars>>
         ELSE IF cut # 0 /\ ~WalkEnds(plan_hash, from)
         THEN pc' = "endless" /\ UNCHANGED <<task, climbVars, planVars, bfsVars>>
         ELSE /\ plan_ops' = fragment.ops
              /\ plan_states' = fragment.states
              /\ plan_hash' = fragment.hash
              /\ S' = space[current].S
              /\ pc' = IF h = 0 THEN "reached" ELSE "widen"
              /\ UNCHANGED <<task, agenda, entry, current_end, h, gH, space, current, bfsVars>>

(* The loop of main over the agenda.                                       *)
NextEntry ==
  /\ pc = "reached" /\ entry < Len(agenda)
  /\ entry' = entry + 1
  /\ current_end' = current_end \cup agenda[entry + 1]
  /\ pc' = "climb"
  /\ UNCHANGED <<task, agenda, S, h, gH, space, current, plan_hash, planVars, bfsVars>>

AgendaDone ==
  /\ pc = "reached" /\ entry = Len(agenda)
  /\ pc' = "found"
  /\ UNCHANGED <<task, climbVars, planVars, bfsVars>>
-----------------------------------------------------------------------------
bfs_state_hashed(ns, s) == \E k \in DOMAIN ns : ns[k].S = s

\* Fault: a node is kept only if it is nearer than its father.
X_EnterBfsSpace_Nearer(b, s, op, father, hs) ==
  LET at == Cardinality({k \in DOMAIN b.open : b.nodes[b.open[k]].h <= hs}) + 1
  IN  IF hs = INFINITY \/ (father # 0 /\ b.nodes[father].h <= hs) THEN b
      ELSE [open  |-> InsertAt(b.open, at, Len(b.nodes) + 1),
            nodes |-> Append(b.nodes, [S |-> s, op |-> op, h |-> hs, father |-> father])]

(* add_to_bfs_space: the new node goes behind those that are as near.      *)
EnterBfsSpace(b, s, op, father, hs) ==
  LET at == Cardinality({k \in DOMAIN b.open : b.nodes[b.open[k]].h <= hs}) + 1
  IN  IF hs = INFINITY THEN b
      ELSE [open  |-> InsertAt(b.open, at, Len(b.nodes) + 1),
            nodes |-> Append(b.nodes, [S |-> s, op |-> op, h |-> hs, father |-> father])]

AddToBfsSpace(b, s, op, father) ==
  IF bfs_state_hashed(b.nodes, s) THEN b
  ELSE EnterBfsSpace(b, s, op, father, get_1P_and_H(graph, s, ToSet(task.goals)).h)

Queue(b) == open' = b.open /\ nodes' = b.nodes

\* Fault: the search goes on where the climb got stuck.
X_StartBestFirst_Stuck ==
  /\ pc = "fallback"
  /\ Queue(AddToBfsSpace([open |-> <<>>, nodes |-> <<>>], S, -1, 0))
  /\ pc' = "best first"
  /\ UNCHANGED <<task, climbVars, planVars>>

StartBestFirst ==
  /\ pc = "fallback"
  /\ Queue(AddToBfsSpace([open |-> <<>>, nodes |-> <<>>], task.initial, -1, 0))
  /\ pc' = "best first"
  /\ UNCHANGED <<task, climbVars, planVars>>

Expanded(b, n) ==
  FoldLeft(LAMBDA acc, op : AddToBfsSpace(acc, result_to_dest(graph, nodes[n].S, op), op, n),
           b, get_A(graph, nodes[n].S))

ExpandBest ==
  /\ pc = "best first" /\ open # <<>> /\ nodes[Head(open)].h # 0
  /\ Queue(Expanded([open |-> Tail(open), nodes |-> nodes], Head(open)))
  /\ UNCHANGED <<task, pc, climbVars, planVars>>

(* extract_plan: the nodes from a son of the root to n.                    *)
NodesTo(n) ==
  LET P[i \in DOMAIN nodes] == IF nodes[i].father = 0 THEN <<>>
                               ELSE Append(P[nodes[i].father], i)
  IN  P[n]

ExtractPlan ==
  /\ pc = "best first" /\ open # <<>> /\ nodes[Head(open)].h = 0
  /\ LET path == NodesTo(Head(open))
     IN  IF Len(path) > MAX_PLAN_LENGTH
         THEN pc' = "too long" /\ UNCHANGED planVars
         ELSE /\ plan_ops' = [k \in DOMAIN path |-> nodes[path[k]].op]
              /\ plan_states' = <<plan_states[1]>> \o [k \in DOMAIN path |-> nodes[path[k]].S]
              /\ pc' = "found"
  /\ UNCHANGED <<task, climbVars, bfsVars>>

ProvenUnsolvable ==
  /\ pc = "best first" /\ open = <<>>
  /\ pc' = "unsolvable"
  /\ UNCHANGED <<task, climbVars, planVars, bfsVars>>

SearchNext ==
  \/ ComputeGoalAgenda \/ StartClimbing \/ Widen \/ ExpandFirstNode \/ SpaceExhausted
  \/ ExtractPlanFragment \/ NextEntry \/ AgendaDone
  \/ StartBestFirst \/ ExpandBest \/ ExtractPlan \/ ProvenUnsolvable

(* The search alone, for any task made of finitely many numbered facts,    *)
(* whose goals are distinct.                                               *)
EfConn == [op : Nat, PC : SUBSET Nat, A : SUBSET Nat, D : SUBSET Nat, removed : BOOLEAN]

IsTask(t) ==
  /\ t.graph.ef \in Seq(EfConn)
  /\ IsFiniteSet(t.graph.facts) /\ t.graph.facts \subseteq Nat
  /\ t.initial \subseteq t.graph.facts
  /\ \A e \in DOMAIN t.graph.ef :
       LET c == t.graph.ef[e]
       IN  c.PC \cup c.A \subseteq t.graph.facts /\ (c.removed => c.A = {})
  /\ t.goals \in Seq(Nat) /\ IsInjective(t.goals)

SearchSpec == SearchInit /\ pc = "agenda" /\ IsTask(task) /\ [][SearchNext]_searchVars
-----------------------------------------------------------------------------
(* The passes before hand over a task as above, and its agenda holds every *)
(* goal once; of two goals, the one that has to be reached first, directly *)
(* or through others, is in an earlier entry, and goals that have to       *)
(* precede each other are in the same one.                                 *)
AgendaRespectsOrders ==
  pc = "climb" /\ entry = 1 =>
    LET before == detect_ordering_constraints(graph, task.goals)
        goals  == DOMAIN task.goals
        later  == {X \in SUBSET goals : \A p \in before : p[1] \in X => p[2] \in X}
        first(i, j) == i # j /\ \A X \in later : i \in X => j \in X
        in(i)  == CHOOSE k \in DOMAIN agenda : task.goals[i] \in agenda[k]
        touched(i) == \E j \in goals \ {i} : first(i, j) \/ first(j, i)
    IN  /\ IsTask(task)
        /\ UNION ToSet(agenda) = ToSet(task.goals)
        /\ \A k, l \in DOMAIN agenda : k # l => agenda[k] \cap agenda[l] = {}
        /\ \A i, j \in goals : first(i, j) =>
             IF first(j, i) THEN in(i) = in(j) ELSE in(i) < in(j)
        /\ \A i, j \in goals : touched(i) /\ ~touched(j) => in(i) < in(j)

(* The states kept with the plan are those its operators lead through, no  *)
(* state twice, and the table finds each of them at its step: what cutting *)
(* a plan back relies on.  The last state of a plan that was found has all *)
(* goals.                                                                  *)
PlanFollowsStates ==
  plan_states # <<>> =>
    /\ Len(plan_states) = Len(plan_ops) + 1
    /\ \A k \in DOMAIN plan_ops : plan_states[k + 1] = result_to_dest(graph, plan_states[k], plan_ops[k])
    /\ IsInjective(plan_states)
    /\ nodes = <<>> => \A s \in DOMAIN plan_hash \cup ToSet(plan_states) :
         /\ s \in ToSet(plan_states) <=> InPlan(plan_hash, s)
         /\ InPlan(plan_hash, s) => plan_states[plan_hash[s].step + 1] = s
    /\ pc = "found" => ToSet(task.goals) \subseteq Last(plan_states)

(* The relaxed plan of the state a climb widens is a plan of the task      *)
(* without deletes: in the order of their steps, and within a step of      *)
(* their selection, the preconditions of each effect hold in the state or  *)
(* are added before, and so are the goals.  The distance is the number of  *)
(* its operators, and the climb goes on with the distance and the helpful  *)
(* operators of this very state, however many others it has judged since.  *)
RelaxedPlanWorks ==
  pc = "widen" =>
    LET r     == get_1P_and_H(graph, S, current_end)
        steps == DOMAIN r.in_plan
        ef(k)   == r.in_plan[k][1]
        time(k) == r.in_plan[k][2]
        before(k) == {j \in steps : time(j) < time(k) \/ (time(j) = time(k) /\ j < k)}
        after(K)  == S \cup UNION {AddedWith(graph, ef(j)) : j \in K}
    IN  /\ \A k \in steps : graph.ef[ef(k)].PC \subseteq after(before(k))
        /\ current_end \subseteq after(steps)
        /\ r.h = Cardinality({<<graph.ef[ef(k)].op, time(k)>> : k \in steps})
        /\ h = r.h /\ gH = r.H
=============================================================================
