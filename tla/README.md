# A TLA+ verification of the ITR lab sources

The repository collects the programs of a real-time systems curriculum: POSIX
threads, a thread pool and the web servers built on it, a mine pump controller,
RTEMS labs, MPI programs, socket programs, the planner FF-v2.3 with the planning
domains of a lab, and a few studies that are not programs (SLAM, networks, Petri
nets). Most of the small programs are about the same thing: threads or processes that
share a little state and wait for each other. The planner, by far the largest program,
is sequential, and what is hard about it is that its many passes agree with each
other. This directory holds TLA+ models of them, the TLC configurations that check the
models on small instances, and proofs, checked by TLAPS, that hold for every value of
the constants.

`PROJECT.json` lists the components, the runs, the lines of the source that each
definition stands for, the hazards and the theorems.

Contents: 1 inventory, 2 how the models are written, 3 the models one by one,
4 the runs, 5 fairness, 6 the proofs, 7 what is only model-checked, 8 where the code
disagrees with its documents, 9 what is not modelled, 10 plan.

## 1. Inventory

### Programs that are modelled

| Component | Source | State | Operations | What is hard |
|---|---|---|---|---|
| thread pool | `IN_TD_Concurrent/threadpool.c`, `test_threadpool.c` | a linked list of heap nodes (`first`, `last`, `next`), a queue mutex, a condition variable, `terminated`; a pool mutex and `thread_init` | init, exec/push, pop, execute, shutdown, destroy | the list under concurrent push and pop; wakeups that are lost, spurious or stolen; `free` outside the lock; a pool destroyed by one of its own tasks; `malloc` that fails |
| web servers | `simple_web_1.c`, `tp_web_1.c`, `lf_web.c` | descriptors, the tasks in the pool, each thread's `client_fd` | accept, exec, recv, send, close | who owns a descriptor whose number is given out again; a pointer to a local variable handed to another thread; leader/followers; failing calls |
| web client | `web_client.c`, `isocket.c` | loop counter of each thread, `portname`, shared by all | connect, send, read, close, `exit` | a static address that another thread clears |
| readers/writer lock | `IN_TD_POSIX/ex3.c` | mutex, two condition variables, `n_readers`, `writers_waiting`, `shared_data` | lock and unlock for readers and writers, the jobs | handover between sides, writers first, a stopping test made without the lock |
| termination by notification | `IN_TD_POSIX/ex2.c` | semaphore, condition variable, `completed_threads`, an uninitialised loop counter | create, notify, acknowledge | signals nobody waits for, wakeups counted as notifications |
| single-track railway | `IN_TD_POSIX/train.c` | semaphores `F[2]`, `G`; counts `T[2]` without protection | arrive, enter, leave | lost updates, two semaphores that both open the track |
| message box | `IN_BE_Pump/msg_box.c` | mutex, condition variable, a flag and a buffer | send (overwrites), receive (blocks) | mixed messages, lost wakeups |
| mine pump | `IN_BE_Pump/minepump.c`, `simu.c`, `minteger.c` | two shared integers, a semaphore, a message box, the simulated water and methane | two periodic tasks, a controller, an alarm task | levels that change between read and command, posts that pile up, messages that are overwritten |
| parallel image filter | `IN_TD_MPI/be-p.c`, `be-np.c` | lines of an image at the master and at each worker, messages on their way | deal out, filter, collect | sends that block, chunks that overlap, a remainder nobody gets |
| image convolution by scatter and gather | `IN_TD_MPI/convolution_image/image_conv.c` | counts, displacements and lines of each process | share, scatter, compute, gather | lines that do not divide by the processes; offsets in pixels where lines are meant |
| minimum by UDP | `IN_BE_DSYS/` | the server's table and last minimum, datagrams on their way | send; receive, minimum | datagrams lost, overtaken, repeated; a minimum that has to rise again |
| minimum by TCP | `IN_BE_DSYS_RENOU_ARNAUD/` | the connections, the array of responses | accept; ask, read, minimum; connect, answer | a client that dies in the middle of a turn; a `read` nobody tests |
| RTEMS labs | `IN_LAB_RTEMS/ex1`, `ex2` | priorities, periods, a count of passes, a semaphore | period, count, suspend, resume, delete; obtain, release | a count without protection; a task resumed before it sleeps; priority inversion |
| FF planner | `SA_BE_Planification/FF-v2.3/` | parse trees, the domain in integers, templates, ground actions, the connectivity graph, the search space and its hash tables | parse, encode, normalize, translate, instantiate, reach, collect; agenda, climb, best first | each pass relies on what the one before left; a climb that ends dead; a plan that comes back to a state it was in |
| planning domains | `SA_BE_Planification/question1` to `5` | the domains and problem files of the lab | move, mount, unmount, perform, spray, fly, refill | two robots in one zone, tasks that require others |

How they interact: FF reads the planning domains; the web servers run on the thread pool (`pthread_pool_exec`), one
process with the client at the other end of a connection; the mine pump runs on the
message box and on the two protected integers; all the others stand alone. In the models the composition is the same: `WebServer` contains
the FIFO of `TaskQueue`, which `ThreadPool` is shown to implement; `MinePump` contains
the box of `MessageBox`, which `MsgBox` is shown to implement.

What makes each of them correct:

- **thread pool**: the pointers always are the FIFO of the tasks pushed and not yet
  popped; no node is used after it was freed; a task runs once; no task waits in the
  queue while all workers sleep; after the shutdown everybody leaves; the pool is not
  used after it was destroyed.
- **web servers and client**: an open descriptor is in the hands of one thread; each
  connection is answered once; one thread accepts at a time; the leader's failure does
  not end the chain; every request is answered.
- **readers/writer lock**: a writer is alone; the counters mean what their comments
  say; a waiting writer is not overtaken; nobody sleeps on a free lock; no increment is
  lost; the bound on the data is overshot by no more than the late writers.
- **notification**: SUCCESS is printed only when as many threads notified as main waits
  for, all that were created if their handles fit, and then.
- **railway**: one train on the track.
- **message box**: a message arrives whole and at most once; a receiver does not sleep
  on a full box.
- **mine pump**: at methane level Alarm2 the pump stops; the alarm follows the level;
  the water stays between its sensors, up to the lag of the controller.
- **filter**: the lines of the result are what the sequential program computes; all
  processes end.
- **image convolution**: every line is computed by exactly one process, and no result
  is laid over another.
- **minimum by UDP, by TCP**: the minimum printed is that of the values received last;
  that of a turn misses no client that is still there.
- **RTEMS labs**: all tasks leave, whatever the count loses; the urgent task never
  waits for the middle one.
- **FF planner and domains**: a plan that is printed is a plan of the PDDL text; a
  problem called unsolvable is; every problem is answered; the relaxed plan, the goal
  agenda and the states kept with a plan are what the search takes them for; the
  plans of the lab obey the rules its comments state.

### Programs and files that are not modelled

| Component | Source | Why, or when |
|---|---|---|
| MPI exercises | `IN_TD_MPI/hello*.c`, `p2p.c`, `pingpong.c`, `send_rec.c` | one message, or a counter passed to and fro by two processes; the channels of `ParallelFilter` cover what can go wrong in them |
| 1553B response times | `SA_BE_RTSystems/be.py` | a fixed-point iteration on real numbers, as a script; planned, as a function |
| AFDX delays | `IN_RT_Networks/` | the network model of the tool is not in the repository |
| socket exercises | `IN_TD_Socket/` | servers of one thread that answer a constant; `WebServer` covers more |
| thread creation exercise | `IN_TD_POSIX/ex1.c` | threads that share nothing |
| periods and clocks of the mine pump | `IN_BE_Pump/utils.c`, `periodic_task.c` | `MinePump` lets the dispatches come at any pace |
| mine pump GUI | `IN_BE_Pump/minepump.tcl` | `MinePump` takes it for a sensor that may answer anything |
| navigation robot | `IN_BE_MC/` | already a formal model (NuSMV) |
| Petri nets, fault trees | `SA_BE_Petri`, `SA_BE_SysDep` | drawings for Tina and AltaRica, no program |
| SLAM, manipulation | `SA_BE_SLAM2D`, `SA_BE_Manipulation` | numerical computation on reals, external libraries |
| herd database | `IN_TP_SQL` | a schema and its rows |

## 2. How the models are written

- **One module per program**, its state as variables with the names of the source
  (`writersWaiting` for `writers_waiting`), one action per step. A step is what a
  thread does between two points at which another thread can see or disturb it: two
  assignments inside a critical section that nobody reads outside of it are one step,
  a load and a store without protection are two.
- **`pc`** says where each thread is; the labels are named for the operation about to
  be done (`"pop_lock"`: about to lock in `pthread_queue_pop`).
- **Mutexes** are a variable that holds the owner. `pthread_cond_wait` is three
  steps: release and sleep, be woken, take the mutex back. A signal wakes one sleeper,
  any of them; a broadcast all. A sleeper may also wake by itself, at most
  `MaxSpurious` times in a behaviour; fairness never asks for it.
- **Undefined behaviour** is a choice over what the build can do: the uninitialised
  loop counter of `ex2.c` starts from any value of `Garbage`, a set of integers, and the
  `h` of a worker in `be-p.c` from any of `WorkerGarbage`; a thread handle that `ex2.c`
  stores outside of `Threads[]` overwrites nothing that is used, or some of the locals of
  main, or ends the process (see `Notify`); the buffer of `msg_box_init` starts with any bytes;
  `pthread_mutex_destroy` on a locked mutex does what glibc does (it refuses, and
  nobody looks); `connect` with the address that another thread has cleared either
  works or is refused; `response[i]` of the TCP server, after a read that failed, is what
  it was or whatever the stack held.
- **History variables** (`accepted`, `served`, `runs`, `added`, `latest`, `received`,
  `given`, `strayed`, `behind`) are marked as such and no guard of a program step reads them;
  `behind` is the one exception, it carries a bound (see `MinePump`).
- **Bounds** are constants: `MaxSpurious`, `MaxFailures`, `MaxPosts`, `MaxBehind`,
  `Requests`, `Capacity`, `MaxSends`, `MaxRounds`, and the sets of threads, nodes,
  values and problems. `MAX_TOTAL_PASSES` (4) and `MAX_PLAN_LENGTH` (100) are limits of
  the code itself, which has 1000 and 2000.
- **Fault operators.** An operator `X_Something` under a comment "Fault: ..." is a
  mutation of the operator `X` defined right after it: a guard dropped, an order
  swapped, a reset forgotten. No specification uses them. They are there to show that
  each property would notice such a bug: with `X` replaced by its mutation TLC finds
  the property violated.
- **Pure algorithms**, which the planner is full of, are operators named for the
  functions they translate; a variable stands for what one phase of `main` hands to the
  next, and an action for the phase.
- The `MC...` modules hold the values of the constants, and `MCFFPlanner` the
  planner's properties that speak of the PDDL text. The `...Proofs` modules hold the
  theorems.

## 3. The models

### ThreadPool, TaskQueue, ThreadPoolRefinement

`ThreadPool` follows `threadpool.c` function by function. `CreateWorker`, `InitDone`:
`pthread_pool_init`, where the first worker may run before the last one exists.
`RegLock`/`RegAdd`, `DeregLock`/`DeregSub`: the prologue and epilogue of
`pthread_pool_body`, an unsigned counter modulo `SizeMax` under the pool mutex.
`MallocNode`, `MallocFails`, `PushLock`, `PushLink`, `PushSignal`: `pthread_pool_exec`
and `pthread_queue_push`. `PopLock`, `PopFound`, `PopWait`, `PopRelock`,
`PopTerminated`, `PopTake`, `PopUnlock`, `PopCopy`: `pthread_queue_pop`, with the copy
and the `free` after the unlock. `ExecTask` calls the routine; `ShutLock`, `ShutSet`,
`ShutWake`, `PoolDestroy`: the shutdown, and the destruction of the pool mutex without
a join.

Main submits the routines of `Script`. A routine returns at once (`"job"`), submits
itself again before it returns (`"relay"`, the leader of `lf_web.c`), or destroys the
pool (`"destroy"`, as in `test_threadpool.c`). The blocks of `Node` are given out once
each, so that a pointer to a freed block stays recognisable. The task that
`pthread_pool_exec` allocates for itself and leaks is not followed.

`TaskQueue` is what `threadpool.h` promises, without list or lock: tasks are claimed
in the order they were submitted, each by one worker, each called once, and a worker
leaves only when the pool is closed and empty. `ThreadPoolRefinement` maps the list to
it: pending are the nodes linked and not unlinked, a worker has claimed a node from
the unlinking to the call.

### WebServer

One module for the three servers, `program` says which, and their client. It starts
when the socket listens. `Accept` takes the oldest connection and gives it the lowest
free descriptor, as the system does, so that numbers are reused; `AcceptFails` leaves
-1 in `client_fd` and goes on, because the code only calls `perror`. `Exec`,
`ExecFails`, `Take` are the pool, as a FIFO. `RecvCall`, `RecvReturn`, `Send`, `Close`
are `webserver_process`; the thread looks up what its descriptor refers to in each
call, so that a descriptor closed or reused in between is seen. `Place(t)` says whose
`client_fd` a thread uses: in `tp_web_1.c` every task has a pointer to main's.

The client's threads clear and fill the one `portname` of `isocket.c` (`ClearName`,
`FillName`), connect, send a request, read until the server closes, close. A refused
connection is `exit(1)` for all threads (`Refused`). The listen backlog of 5 is longer
than the two clients of the runs need; `SIGPIPE`, the bytes, the latencies and the
pauses are left out.

### RWLock, RWLockAbstract

`RWLock` is `ex3.c` with its jobs: lock, test, wait, enter for both sides, unlock with
its choice of whom to wake, and the reader and writer jobs around it, with the tests
of `shared_data` that decide when a job ends. `shared_data += increment` is a load and
a store. The sleeps are left out. `RWLockAbstract` has two variables: who is inside
and which writers want to be; readers come in only while no writer wants to.

### MsgBox, MessageBox

`MsgBox` is `msg_box_send` and `msg_box_receive` for any number of senders and
receivers; a message is copied byte by byte, in any order, so that a receiver without
the mutex would see a mixture. `MessageBox` is the box of the header: a send replaces
the content, a receive takes it. `msg_box_delete`, which nobody calls, is left out.

### MinePump

The four tasks of `minepump.c` over `simu.c`. `gui` says which build: with
`__SIMU_SOCKET__` the sensors return anything (`Readings` for methane); without it the
water is a byte that each `ReadHLS` moves by +2, or by -2 with the pump on, and the
methane follows its ramp (`Ramp`, 60 values). Each access to an `m_integer` is one step, because `minteger.c`
makes it under a mutex; the box is that of `MessageBox`. The steps of the tasks
interleave in every way: priorities and periods are left out, because main creates the
tasks without `PTHREAD_EXPLICIT_SCHED` (`minepump.c:170`), so that the attributes it
sets do not apply, and because what holds for every interleaving holds for the
scheduled ones.

The ramp is a recursive function, which the provers cannot unfold; that its values lie
between 40 and 100 is stated as `RampAssumption`, which TLC evaluates in the run, and
the proof about the water uses it.

Two bounds keep the model finite and are part of what it claims: at most
`MaxPosts` posts wait for the controller, and without the GUI at most `MaxBehind`
water dispatches come between two commands of the pump. Without the second one the
water would be unbounded, with any controller. `WaterInBand` then states how far the water may
leave the band between the two sensors: the read that sees it, and twice `MaxBehind`
dispatches, two units each. With one unit less the run fails.

### Notify

`ex2.c`: `SemWait`, `SetId`, `Complete`, `Signal` are the end of `thread_job`;
`Create`, `OpenSemaphore`, `Wait`, `Acknowledge`, `Verdict`, `Exit` are `main`; its return
ends the threads. A signal wakes main only if it waits.

Nothing initialises the `i` of line 62, with which main counts the threads it creates. From
a positive start it creates fewer than `Wanted`, from a negative one more, and
`pthread_create` stores their handles below `Threads[]`. `StoreHandle` says what that does:
depending on the layout of the build nothing that is used is overwritten, or any of the
locals `i`, `nThreads` and `ack_threads` are, with values of `Garbage`, or the process ends.
That a stray store reaches nothing else of this program (`shared_state` and the semaphore
are not on the stack) is an assumption. When the system has no more threads (`Threads` is
the set of those it can create), `pthread_create` fails and nobody looks.

`SuccessIsTrue` is therefore in two parts: "SUCCESS" means in any case that as many
threads have notified as main waits for, and, if no handle went astray (`strayed`), that
these are `Wanted` and all that were created. Without the proviso the second part is false
(`CreatedHaveNotified`, section 8).

### Train

`train.c`: the look at the count, the increment as load and store, the two semaphores
and the two ways to leave. `Direction` is the set of directions that `random() % 2`
takes: with one value the track is safe whatever the races do to the counts (proved),
with two it is not (run `train_twoways`). The program may also stop for ever: with a
wrong count the last train posts the semaphore of its own side and the other side
waits. The run does not check deadlock for this reason.

### ParallelFilter

`be-p.c`. The master sends two parameters to each worker, then the lines of each
chunk, then collects the results worker by worker; a worker receives, filters, sends.
A line is a term that says what it was computed from, so that two lines are equal
only when the program computed them from the same lines in the same way. A send
appends to the channel of the receiver; the sender's next step needs the channel to be
no longer than `Capacity`. With `Capacity = 0` this is a synchronous send, with more
the library buffers.

The model shows what the program does: each worker is sent `nb_line + 1` lines and
receives `nb_line`, so one message stays unread and the program ends only because it
is buffered; the two lines at a seam between chunks are filtered without the neighbour
that their worker has not received, so that they are wrong; and the lines from
`(size - 1) * nb_line + 1` on are filtered by nobody. `InsideIsFiltered` is about the
other lines.

### ImagePartition

`image_conv.c`: process 0 tells each process how many lines it gets (`Share`), the
lines are scattered, computed and gathered. Counts and displacements are numbers of
pixels, as MPI takes them. What is gathered is recorded as the range of pixels each
process fills, and it shows what line 148 does: the displacement of a result is moved
by one pixel, and that of process 0 not at all, where the first line computed is one
line further down. So the image that results lies a line too high. The results still
do not overlap and stay within the image. The initialisation of the last line (119 to
123) exchanges the height and the width and is left out with the other pixels.

### MinUdp, MinTcp

`MinUdp` has one action per turn of a client and of the server, and a network that
delivers, repeats and loses datagrams in any order. A datagram carries its number
among those of its client, which no guard reads: the property needs it to say which
values are the last ones. What the server *names* beside the minimum may be another
process with the same value, since it prints only when the value changes; no property
speaks of the name.

`MinTcp` has the two loops of the server step by step, and clients that connect,
answer and die at any time. A write to a connection that is closed resets it, and the
second one kills the server. The result of `read` is not tested: the property says
that a turn's minimum is not above the value of any client that is still there, and
one of their values as long as all are.

### RateMonotonic, PriorityCeiling

One processor: `Runs(t)` is true of the ready task of highest priority. A period, or a
wait, ends at any time, which preempts. `RateMonotonic` (`ex1`) has `Total_Passes++` as
a load and a store, the tasks that suspend themselves and main that resumes them. Main
can only do so without losing one because it runs below all of them.
`PriorityCeiling` (`ex2`) has the semaphore whose holder runs at the priority of task 1.

### Labs

`Notify`, `ParallelFilter` and the five modules before this are small and share
nothing. `Labs` puts them side by side: `lab` says which one a behaviour is about, its
steps are the steps of that module, and the others stay in one initial state. The
state space is the sum of the seven, not the product, and each property speaks of its
own lab. `MCLabs` is the instance for TLC.

### FF-v2.3: Parse, Wff, Grounding, FinalTask, ConnectivityGraph, RelaxedPlan, GoalAgenda, PlanSearch, FFPlanner

`FFPlanner` is `main.c`: from a text, as the grammars hand it over, to an answer. Its
variables are what one phase leaves to the next, its actions the phases.

| Module | Source | What it has |
|---|---|---|
| `Parse` | `parse.c` | types with all their members, `either`, quantifiers over lists, nested effects made into a set of conditional ones, what is refused as no ADL |
| `Wff` | `inst_pre.c`, `instantiate_wff` of `inst_hard.c` | formulae: simplification by inertia, expansion of quantifiers, NOTs pushed down, merging, tautologies, unused variables, the DNF by hitting sets, `NOT-p` |
| `Grounding` | `inst_pre.c`, `inst_easy.c`, `inst_hard.c` | encoding, inertia, the easy operators with unary static facts as types and unification of the other static ones, the hard ones by instantiation |
| `FinalTask` | `inst_final.c` | the reachability analysis, relevant facts, the goal and its actions, the final actions; as `GroundSpec` also a specification of its own, of the planner from any ground templates on |
| `ConnectivityGraph` | `inst_final.c`, `search.c`, `relax.c` | operators, effects and facts, implied effects, the transition `result_to_dest` |
| `RelaxedPlan` | `relax.c` | the fixpoint without deletes as a list of layers (`NextLayer`), the relaxed plan extracted from it step by step downwards, helpful actions, goals that are deleted |
| `GoalAgenda` | `orderings.c` | the `False` sets, orderings between goals, their closure and the agenda |
| `PlanSearch` | `search.c`, `main.c` | enforced hill climbing node by node, the plan that is cut back to a state it went through, best first search; as `SearchSpec` also a specification of its own, of the search of any task |
| `Pddl` | none | what the text means: states, formulae, legal plans, solvable problems. It does not use anything of FF and is what FF's answers are measured by |

Abstractions. Lists whose order the code does not promise are sets: facts, disjuncts,
templates and actions that occur twice are merged, and where the code walks such a list
the model walks it in a fixed order (`Increasing`, `InSomeOrder`). So the model may find
another plan than the program on the same problem; the properties hold of either. The
counters that `relax.c` keeps in the graph and resets are the values of one evaluation.
Hash tables are functions or sets of states. The array bounds `MAX_...` are not
modelled, but for the length of a plan.

### Ewr, MCFFPlanner

`Ewr` is the five domains of the lab and the fields of their problem files, as the
parser hands them over: robots that move, mount instruments and perform tasks in zones,
with more rules from question to question. `MCFFPlanner` has the problems of the run
and the properties that relate the planner to `Pddl` and to the rules of the lab; those
that speak of the search alone (`AgendaRespectsOrders`, `PlanFollowsStates`,
`RelaxedPlanWorks`) are in `PlanSearch` and are proved. `Roundabout` and `Overlooked` are
problems that no run has; section 8 says what they show.

## 4. The runs

| Run | Module, cfg | Instance | States | Shows |
|---|---|---|---|---|
| `threadpool` | `MCThreadPool_pool` | 2 workers, 3 nodes, a relay and the shutdown, `malloc` may fail, 1 spurious wakeup | 248 030 | no freed node is reached, no task stranded, one leader, nobody sleeps after the shutdown, refinement of `TaskQueue`, every task runs, every worker leaves |
| `threadpool_destroy` | `MCThreadPool_destroy` | 2 workers | violation | a worker locks the destroyed mutex |
| `rwlock` | `MCRWLock_lock` | 2 readers, 2 writers, increments 1 and 2 up to 3, 1 spurious wakeup | 75 625 | counters, wakeups, data, refinement of `RWLockAbstract`, termination |
| `msgbox` | `MCMsgBox_box` | 2 senders, 2 receivers, messages of 2 bytes, 1 spurious wakeup | 152 350 | wakeups, refinement of `MessageBox`, messages leave the box |
| `pump` | `MCMinePump_pump` | both builds, the methane at its thresholds, 2 posts with the GUI, 1 without, 1 dispatch behind | 486 810 | alarms, pump, water |
| `notify_lost` | `MCNotify_lost` | 2 threads, `i` from 0 | violation | main waits for ever |
| `train_twoways` | `MCTrain_twoways` | 3 trains, both directions | violation | two trains on the track |
| `web` | `MCWebServer_web` | `simple_web_1.c` and `lf_web.c`, 2 workers, 2 clients of 2 requests, 2 failures | 88 000 | descriptors, answers, one acceptor, everybody answered |
| `web_tp` | `MCWebServer_tp` | `tp_web_1.c`, no failures | violation | the data of a task has changed |
| `labs` | `MCLabs_labs` | seven programs: `ex2.c` with 2 threads wanted, 3 possible, `i` from -1, 0 or 1, locals overwritten with these, 1 spurious wakeup; 3 filter workers, 3, 12 and 14 lines; 2 UDP clients, 2 datagrams each of 3 values; 3 TCP clients, 3 turns; images of 4 to 14 lines over 1 to 4 processes; 3 periodic tasks, 4 passes; the 3 tasks of `ex2` | 80 980 | counts, minima, lines, priorities, the end of the filter and of the periodic tasks |
| `planner` | `MCFFPlanner_planner` | the `pb*a.pddl` files and `pb1b.pddl`, and families of small problems | 60 313 | legal plans, true refusals, the heuristics, termination |
| `planner_illegal` | `MCFFPlanner_illegal` | a problem of one operator, whose precondition names a variable twice | violation | a plan that is none |

Why the bounds are enough:

- Two workers race for one task, for the mutex and for the last node, one sleeps while
  the other pushes (the relay) or shuts down, so that a signal, a broadcast and a
  spurious wakeup each have somebody to meet. Three nodes make a list with a first, a
  middle and a last one. What needs a third worker, a broadcast that wakes two, is
  proved for any number of them.
- Two readers and two writers make every handover of the lock: reader to reader,
  reader to writer, writer to writer with readers waiting, writer to readers. The
  increments differ so that a lost one shows; two writers past the test make the
  overshoot.
- Two senders and two receivers make an overwritten message, a stolen one and a
  wakeup for a receiver that finds nothing.
- The thresholds of the methane sensor, plus and minus one, make each class and each
  change between classes. Two posts make a controller that is behind.
- Two clients and two workers make a descriptor that is closed by one thread and given
  to another; two requests make it come back; two failures make one for each kind.
- A start of `i` at -1 makes one thread more than the two that are wanted, and one handle
  below the array, which may overwrite each local with a value that is too small, the
  right one before it grows, or one that is too large; at 1 one thread is missing. The
  theorem holds for any start and any of the values.
- Three workers make a first, a middle and a last chunk; 12 and 14 lines are divided
  without and with a remainder; 3 lines are fewer than the processes.
- Two datagrams of each of two clients make one that is overtaken, one repeated after a
  newer one, and a minimum that rises and falls. Three turns over TCP make a death
  before, between and after a request and its answer, and the second write that kills.
- 4, 7, 9, 10 and 14 lines over one to four processes make every remainder, and
  processes that get no line.
- Three periodic tasks make one that is preempted between its load and its store by
  one that is preempted itself; four passes are enough for each to lose one.
- The families of small problems were chosen so that each path of the planner is
  taken: all pairs of operators over three facts (`Switches`: dead ends, best first
  search, problems without plan, disjunctive goals), conditional effects (`Toggles`),
  quantifiers, unions of types, easy and hard operators (`Nets`), goals that destroy
  each other (`Ladders`), a plan that comes back to its start (`Detour`), goals that
  are decided before the search (`Decided`), texts that are no ADL (`Refused`). The
  100 operators of `MAX_PLAN_LENGTH` are never reached.
- One spurious wakeup is enough to find a test that is not repeated; the theorems hold
  for any number.

Deadlock is checked wherever the program is supposed to end or to go on: a final
stuttering step stands for the end, and in `labs` `Stop` says of each program where it
may stop. It is not checked in `web` and `web_tp` (a server without clients waits in
`accept`), in `notify_lost` (main may wait for ever, which is what the run is about) and
in `train_twoways` (see `Train`). Symmetry is used in `train_twoways` only, which has no
liveness property and treats its trains alike.

## 5. Fairness

- **ThreadPool**: weak fairness of each thread: a thread that can run runs. No thread
  here asks again and again for a mutex that others hold in turn for ever, because the
  scripts end. Nobody owes a spurious wakeup.
- **RWLock**: weak fairness of the steps, and strong fairness of taking the mutex: the
  jobs sleep between two calls, so that the mutex is free for long times and a thread
  that asks for it again and again gets it. Weak fairness alone would let two threads
  pass it to each other for ever.
- **MsgBox**: the same, where a sender is activated by its period and a receiver is
  not shut out by it. A send is never forced to begin, one that has begun ends; so
  `MessageLeavesTheBox` holds even if nothing is sent afterwards.
- **MinePump**: weak fairness of each task: the clock releases the periodic ones, and
  the four together do not use the whole processor.
- **Notify**: weak fairness of main and of each thread, strong fairness of
  `sem_wait`, since a semaphore serves all that wait for it. The counterexample of
  `notify_lost` thus is no scheduler's fault.
- **WebServer**: weak fairness of each thread of the server and of the client.
  Failures of `accept` and `exec` are part of a thread's step and bounded by
  `MaxFailures`.
- **ParallelFilter**: weak fairness of each process.
- **RateMonotonic**: weak fairness of the processor, which runs whatever is ready, and
  of the end of each period, which a clock brings about. There is no fairness between
  the tasks: priorities decide, and the task of lowest priority runs only because the
  others wait for their periods.
- **FFPlanner**: the planner is one thread that keeps running, weak fairness of `Next`.
  Its enabling condition is spelled out (`Running`), because each step of the planner
  is expensive to compute and TLC would compute it twice.
- The servers of the minimum, the image partition and the priority ceiling have safety
  properties only and assume no fairness. The clients and the server over UDP run for
  ever and owe each other nothing.

## 6. The proofs

Eight modules hold theorems. All are for any finite sets of threads and any values of
the bounds, under the named assumptions on the constants (`PoolAssumption`,
`RWAssumption` and so on), which only say that the special values differ from the
threads and that the numbers are numbers. Where a theorem needs more, it says so in
its ASSUME.

- **ThreadPoolProofs.** `TypeCorrect` and `MutualExclusion` from `MutexInv`: types,
  the owner of the mutex is between lock and unlock, and what a thread relies on where
  it dereferences a node (`Locals`); the types alone are not inductive, since a pop
  reads `first->next`. `ListStaysIntact`, `TasksRunAtMostOnce` and
  `FreedNodesAreUnreachable` from `ListInv`: `ListIntact`, and that no node is linked
  twice (`Order`), that a node being pushed is nowhere else (`Fresh`), that two workers
  never hold the same node and that the node they hold was unlinked (`Owned`), and that
  what is freed or was run is behind them (`Spent`).
  `ShutdownWakesEverybody` needs nothing beyond `MutexInv`: a worker tests `terminated`
  and goes to sleep under the one mutex under which `terminated` is set and broadcast.
  `PoolIsImplemented` is the refinement of `TaskQueue`: linking a node is a submission,
  unlinking it a claim, calling its routine a run, all other steps are stutters; it
  rests on `ListInv`, which says what the pointers mean, and on two facts about the
  tail of a sequence. `NoTaskIsStranded` assumes that there is a worker and that only
  the last routine of the script destroys the pool, without which a task pushed after
  the last worker has left is stranded in fact. Its invariant `StrandInv` says that a
  filled queue has a worker that is awake, or a sleeper that main is about to signal
  (`Attended`), that nobody leaves before the shutdown (`LeftByShutdown`), and that a
  shutdown going on means that its task was taken (`ShutdownWasTaken`), hence that main
  has nothing left to push (`ShutdownIsLast`).
  `OneThreadLeads` assumes one relay at most in the script. Then the right to accept is
  a token: still with main, or one node of the queue, or one worker from the unlinking
  of its task to the linking of its successor (`OneToken`); with two relays there are
  two leaders, and nothing in the pool prevents it.
- **RWLockProofs.** `LockExcludes`, `CountersMean` and `RWTypeCorrect` from `RWInv`:
  the owner of the mutex is in its critical section (`MutexHeld`), and what a thread
  has tested is still true when it enters (`TestStillTrue`), which is the reason the
  mutex is held from the test to the counter. `NoUpdateIsLost` adds that a writer's
  copy is the current value. `LockIsImplemented` is the refinement: every step maps to
  a step of `RWLockAbstract` or to a stutter. `NobodySleepsOnAFreeLock` is inductive once
  the writer that was woken may also be past its test (`OnItsWay`): a writer that waits
  at a free lock is followed by one that will enter, and readers sleep only behind a
  writer. `OvershootIsBounded` is about the sum of a fold over a
  set of writers (`SumOf`): that the sum splits off any writer is shown by induction over
  the size of the set. Its invariant `Overshoot` says that
  the data, with the increments of the writers that have passed their test and not yet
  added (`Committed`), stays below the bound and all increments together.
- **MsgBoxProofs.** `BoxTypeCorrect`, `NoReceiverIsForgotten` and `BoxIsImplemented`
  from `BoxInv`: a sender or receiver in the middle of its copy has copied this much of
  this message (`CopiedSoFar`), a full box holds the latest message (`FullBox`), and a
  full box with sleepers has a receiver on its way (`Answering`).
- **MinePumpProofs.** `PumpTypeCorrect`, `NoAlarmIsMissed`, `AlarmIsRight` from
  `PumpInv`: unless a read of the methane level is still to come, what the controller
  has read, sent and commanded is up to date (`UpToDate`). This is the argument why the
  order write, post, wait, read loses no alarm. `WaterStaysInBand` holds for any
  `MaxBehind` up to 19; beyond, the byte may wrap. Its invariant `WaterInv` bounds the
  water by what the controller knows: with the pump off it is at most at the sensor
  until the level has been written, then two units higher for each dispatch since the
  last command, and once more if the controller had read the old level (`Rising`); the
  same downwards (`Falling`).
- **TrainProofs.** `OneWayIsSafe`: if all trains run in one direction, the trains on
  the track and the values of the semaphores sum up to one token (`OneToken`),
  whatever the counts say.
- **WebServerProofs.** `WebTypeCorrect`. `OneThreadAccepts`: in `lf_web.c` the right to
  accept is one token, in a thread or in the queue, until a task is lost.
  `NoDescriptorIsShared`: if `tp_web_1.c` is not among the programs, whoever serves uses
  its own `client_fd` (`Roles`), and then each open descriptor has one owner (`Owned`).
  `EachIsAnsweredOnce` counts on top of that: a connection waits, is open, or was
  closed, one of the three and in one place (`Apart`), one not yet made is nowhere
  (`Unknown`), and one answer has been sent exactly on those that are closed or about to
  be (`Counted`).
- **LabsProofs.** Theorems of `LabsSpec`, of each lab by the invariant of that lab.
  `LabsAssumption` says what the programs are run with: at least one worker besides the
  master (`Size` from 2), images of at least one line, for the convolution of three,
  since each line it computes takes three and `(ih - 3) / nb_process` of a smaller image
  is negative, one client, and whole numbers. No other bound is assumed.
  - `CompletedIsExact`, `SuccessIsNeverFalse` (`ex2.c`): the semaphore excludes
    (`Exclusive`), so that the value loaded is current (`Loaded`). Until a handle is stored
    outside of `Threads[]`, `i` counts at least the threads that were created and does not
    exceed what main waits for (`InBounds`), so that as many notifications are all of them.
    The verdict is the last thing main does (`VerdictIsLast`): nothing is created and no
    local is overwritten after it. Nothing is assumed of the start of `i` but that it is an
    integer.
  - `PrintedMinimumIsCurrent` (UDP): a datagram, and an entry of the table, with the
    number of the client's last one carries the client's value (`Genuine`, `Entry`), and
    the minimum printed is that of the table.
  - `TurnMinimumIsSound` (TCP): a connection that is open has in this turn either not
    been asked, or has one request or one answer under way, or has been heard, and then
    `response[i]` is what it gave (`ClientOK`); what a reset or closed one left in the
    array is not bounded by anything.
  - `EveryLineIsComputedOnce` (`image_conv.c`): by induction over the processes, the
    lines before process p (`Before`) are the sum of the shares of those before it, and
    the shares of all are the image (`SharesAddUp`), so that each line has one owner
    (`Own`), and the pixels gathered from p end before those of p + 1 begin (`Landed`).
  - `InnerLinesAreFiltered` (`be-p.c`): what is under way from the master to a worker is
    the part of the stream of its messages between what it has received and what was
    sent (`Segment`, `ChannelsOK`), for any capacity of the channels; a worker that
    filters holds the lines dealt out to it, and a result that came back lands in the
    line it belongs to (`OutOK`).
  - `NoPriorityInversion` (`ex2` of RTEMS), an action property: who holds the semaphore
    runs at the priority of task 1 and is awake, and who waits for it waits for such a
    task (`CeilingInv`).
- **PlanSearchProofs.** Theorems of `SearchSpec`, the search of any task (`IsTask`): its
  facts are finitely many numbers, the initial state, the preconditions and what is added
  are made of them, an effect that `build_connectivity_graph` has removed adds nothing,
  and the goals are distinct. That the planner hands over such a task is proved too, from
  the templates on (`SearchIsSoundFromTemplates`, below).
  - `AgendaIsAnOrder`: the closure of the orderings holds what follows from them and
    nothing else (`ClosureIsTransitive`, the induction of Warshall's algorithm over the
    intermediate goals), a goal that has to come before another has a smaller degree
    (`DegreeRespects`), and grouping the goals by rank gives an agenda that respects the
    orderings (`AgendaPlaces`). The property itself speaks of sets closed under the
    orderings and knows no algorithm; `FirstMeans` links the two.
  - `PlanIsFollowed`: from `FollowInv`. Its core is `PlanIsKept`: the operators are a run
    through the states (`IsRun`), the table's links lead from each state of the plan to
    the next (`IsTable`), and its steps are right for exactly the states of the plan
    (`IsKept`). The links of states that were cut off stay behind in the table. Hence
    the argument for cutting: the walk from the state at step k invalidates all states
    after k, since the links of the plan lead through them (`LinksLeadOn`), and none
    before, since a walk that ended (`WalkEnds`) has not come back to its start
    (`CutIsKept`). While a climb is under way each node of its space is reached from its
    father by its operator (`IsSpace`), so that the fragment continues the plan
    (`FragmentFollows`); the nodes of best first search are a tree with the initial
    state as its root (`IsTree`), whose branches are runs (`ExtractedIsRun`). That a plan
    which was found ends in a state with all goals is `GoalInv`: a climb that ends has
    reached the goals of all entries up to the current one, a node of best first search
    with distance 0 all goals, since the distance is 0 only where the goals hold
    (`EvaluationIs`).
  - `NoPlanIsMissed`: when the open list is empty no run of operators leads from the
    initial state to the goals (`NoPlan`). Three arguments. First, on the heuristic
    (`EvaluationIs`): the distance is INFINITY only if the last layer of the fixpoint,
    which has the state but not all goals, is closed under all operators, deletes and all
    (`FixpointIsClosed`), so that leaving the state out loses nothing; that the fixpoint
    is closed after as many rounds as there are facts is a count of the facts that come
    in (`LayerGrows`, `FixpointIs`), and that a distance which is not INFINITY is 0
    exactly where the goals hold needs that an effect is selected for every goal above
    the state (`ExtractionUses`). Second, on the queue: every node is waiting or has been
    expanded, and then each of its successors is a node or dead (`IsSettled`,
    `HasSearched`). Third, with nothing waiting, the states of the nodes and the dead
    ones hold every run from the initial state, and a goal state would be a node of
    distance 0, which ends the search (`SearchedHasNoPlan`).
  - `RelaxedPlanIsPlan`: from the last step down (`ExtractionSelects`, `AchievePlans`,
    `SelectedGrows`), each goal of a step has been added at this step, and a precondition
    of what was selected is a goal of an earlier step or was added at this one before
    (`IsSelection`); a goal of step 0 is in the state. `EvalInv` carries the evaluation
    of a node from the step that found it better over the extraction of the plan to the
    climb that goes on from it: `h` and `gH` are those of this very state.
  - `NothingToDebug`: none of the three messages "debug me" of `search.c` (644, 648,
    687) is ever printed: the state that a plan is cut back to is in the plan, and no
    state after the cut is in the table with a step. The fourth outcome of a climb that
    the model has, a walk along the links that does not end, is not excluded, because a
    state that enters the plan again keeps its old link (see `Roundabout` in section 8).
  - `PlanEndsAtGoals`: no state of the plan before the last has all goals, so that
    nothing of the plan is done after the goals hold. By `EndInv`: a climb widens, and
    best first search expands, only states that lack a goal (`FathersLack`), because the
    goals of an entry are goals of the task (`EntryIsOfGoals`) and h is 0 where they hold.

  And theorems of `GroundSpec`, the planner from the ground templates on: the
  reachability analysis, `collect_relevant_facts`, the connectivity graph and the search.
  It starts from any templates, facts and disjuncts of the goal that are ground
  (`IsGround`): finitely many, and an initial fact that some template deletes is one of
  the fluents. That the passes over the text leave such templates is `TemplatesAreGround`,
  a part of `UnsolvableIsTrue`, and checked on every problem of the `planner` run.

  - `SearchIsSoundFromTemplates`: the agenda, the plan that is kept and the relaxed plans
    are what the theorems above say, and no "debug me" comes. `GroundInv` is the fixpoint
    that the analysis approaches (`ReachInv`: what is not an action yet is a template,
    what the actions need and add is among the positive facts, and when the analysis
    ends no template is left that could be applied), then the equation that the task is
    what `collect_relevant_facts` makes of it, then `SearchInv`, all invariants of the
    search together. The step between them is `TaskIsTask`: the facts are numbered without
    gaps or repetitions (`IndexIs`), every final operator is made of these numbers
    (`OpsAreNumbered`), each node of the graph comes from the leader of a group of effects
    with the same condition (`ConnsOf`, `GraphEffects`), and what the graph drops adds
    nothing.
  - `AnswersAreTrueOfActions`: what FF's answers say about the ground actions, in their own
    terms (`Applied`: all effects whose conditions hold, a fact added and deleted is
    there), without numbers, graph or relevance. A goal that simplifies to TRUE holds at
    the start; to FALSE, no sequence of actions reaches it. A plan that was found leads
    through states of the actions (`PlanIsGround`: from the initial state, each action
    applicable, to a disjunct of the goal), if in each action no effect deletes an add of another
    that the action or this effect needs (`AddsStay`). And "proven unsolvable" is true
    (`NoGroundPlan`) if besides no action is left without its deletes because its adds
    change nothing (`OnlyDeletes`), or if no effect has a condition, where deletes are
    good for nothing. Both provisos are necessary: without them the answer is wrong in
    FF itself (`Overlooked` in section 8). The argument: a state of the search stands for
    the facts of its numbers and the facts that hold throughout (`StateOf`,
    `StateIsShown`); what the graph makes of a state is what the action makes of it
    (`TransitionMoves`, `ActionMoves`, `StepIsGround`), although facts that never change
    were dropped and effects grouped, joined and left out; so each run of ground actions
    is covered by a run of operators (`RunIsCovered`; without conditions by one whose
    states are at least as large, `UnconditionalGrows`), whose actions were all found
    reachable (`RunIsReachable`), and one that ends in the goal would have been found
    (`GoalIsCovered` against `NoPlan` of `NoPlanIsMissed`).

`TypeCorrect` and its like, `MutualExclusion`, `ListStaysIntact`, `TasksRunAtMostOnce`,
`LockExcludes` and `AlarmIsRight` state definitions that no run checks any more: they
were model-checked before they were proved, and the runs spend their time on what
follows from them.

## 7. Only model-checked

- All liveness properties, and everything about fairness and `ENABLED`.
  These are `EveryTaskRuns`, `EveryWorkerLeaves`, `Termination`, `MessageLeavesTheBox`,
  `AlarmSounds`, `MineIsDrained`, `AllAnswered`, `EveryoneEnds`, `EveryTaskLeaves`,
  `Terminates`.
- `LegalPlan`, `UnsolvableIsTrue` and `FieldConstraints`: they compare the answers with
  the PDDL text, whose modules (`Wff`, `Parse`, `Grounding`, `FFPlanner`, `Pddl`, `Ewr`)
  declare recursive operators over formulae, and the prover takes no theorem of a module
  that reaches one.
  What they say of the ground actions instead of the text is proved, from the templates
  on (`AnswersAreTrueOfActions`). What remains for TLC is that the templates mean what the
  text means, which is where the cause of `planner_illegal` lies, and the three others
  that section 8 lists with it.

Induction over data by the library's theorems takes an operator as a parameter, which the
provers cannot instantiate. Where a proof needs it the induction is made by hand: over
the numbers by `Upwards`, which follows from the well-foundedness of `<`, over finite
sets by their size, and a fold over a list is brought into the form of a
function on `0..n` whose value at n is made from the one at n - 1 (`LinkedSteps`,
`ExtendSteps`, `EnterSteps`, `AddSteps`, `ClosureSteps`, `LayerSteps`, `AchieveSteps`,
`DownSteps`).

## 8. Where the code disagrees with its documents

Each of these is a run that TLC ends with a counterexample, and a finding in
`PROJECT.json`.

- `threadpool_destroy`: the pool mutex is destroyed without joining the workers, which
  lock it to leave; `threadpool.h` promises a graceful termination.
- `web_tp`: `tp_web_1.c` passes the address of a local variable to the pool, which
  `threadpool.h` warns against; the next `accept` overwrites it.
- `train_twoways`: the last train of a side opens the track twice; the comment at
  `train.c:61` says one train.
- `notify_lost`: all threads have notified and main still waits; the comment at
  `ex2.c:106` says that the test is then a success.
- `planner_illegal`: `output.c:763` announces a plan as legal, and it is none. The run has
  the problem `Loop` of `MCFFPlanner`: a static precondition names one variable twice,
  `(link ?x ?x)`, and the only fact is `(link k1 k2)`. `unify_easy_inertia_preconds`
  (`inst_easy.c` 1238 to 1296) takes every initial fact of the predicate; at line 1283 it
  binds the variable to the first argument, then overwrites it with the second, without
  comparing the two, and the operator is applied with `?x` = `k2`. (Line 1016 does the same
  for the conditions of effects.) Three further causes of plans that are none have a problem
  each in `MCFFPlanner` and no run; with `Problems <- WrongAnswers`, or with any one of the
  three, TLC shows that `LegalPlan` is violated:
  - `Disjoint`: two unary static preconditions that no object satisfies together. Their
    variable gets an empty type, but parameters that occur nowhere any more are removed
    before the ones of an empty type are looked for (622 to 762), and the operator
    stays, without its precondition.
  - `Narrowed`: an effect quantified over a type, with a static condition. The constants
    are taken from the initial facts of the condition, and their type is not checked
    (978 to 1029).
  - `Turn`: an operator, instantiated with one object for two parameters, that adds and
    deletes one fact whose negation another operator needs. The fact stays true, and
    its `NOT-` fact becomes true too.

`LegalPlan` holds, in `planner`, of the problems that meet none of the four. More was met
while modelling and has no run: `ex2.c`, from a negative start of `i`, prints "SUCCESS"
although a thread that was created has not notified, against the comment of `ex2.c:106`
(with `CreatedHaveNotified` as the invariant of `labs`, TLC shows it: `i` starts at -1 and
the stray handle overwrites `nThreads` with 0, or more threads are created than are waited
for; compiled with the flags of the `Makefile` and started from -1, the program with two
threads wanted starts three, waits for two and prints "2/2/2 [SUCCESS]"); the period of the water task is
750 ms where its comment says 250 ms (`minepump.c:156` and `31`), which no model
without time can tell apart; and the result of `be-p.c` at the seams of the chunks is
not that of `be-np.c` (see `ParallelFilter`), although `Rapport.txt` says that workers
proceed as in the sequential program.

In FF, in addition:

- A goal that only the conversion to DNF decides makes `collect_relevant_facts` stop
  with "won't get here"; the problems of the run do not contain one.
- `print_official_result` is never called.
- The `next_step` links of the plan's hash table are not taken back when the plan is cut,
  `hash_plan_state` (685 to 692) enters a state again with the link that it had before,
  and the loop at `search.c:627` follows the links until one is NULL. `Roundabout` in
  `MCFFPlanner`, seven facts and eight operators without parameters, is a problem on
  which it never ends: the last state of a plan, of step 6, was cut out before, its old
  link leads over a state that is not in the plan any more to the one of step 3, and the
  walk of the next cut goes round. With `Problems <- Roundabout` and `RepetitionsAreCut`
  (`search.c:586`: "TO AVOID REPEATED STATES IN THE PLAN") as the invariant, TLC shows it
  in 75 states. `Terminates` is therefore a property of the problems of the run, and not
  of every problem; the theorems about what is printed are not touched.
- Problems with a plan are answered with "problem proven unsolvable". `inst_final.c`
  1308 to 1348 removes the effects of an operator that only deletes, because "the op
  will never do any good", but a delete is good for an operator one of whose effects
  has that fact as a condition (`Forget` in `MCFFPlanner`). And 1177 to 1298 leaves out
  an add that is a precondition or condition of its own effect, although another effect of the
  operator may delete the fact (`Restore`). With `Problems <- Overlooked` TLC shows that
  `UnsolvableIsTrue` is violated, in 17 states; the program itself, compiled, answers the
  same. These are the two provisos of `AnswersAreTrueOfActions`. No problem of
  the `planner` run has such an operator that matters.
- The members of a union type depend on the order in which the types are written
  (`parse.c` 391 to 416).
- If no object of the type `object` is ever named, the index of that type stays -1
  and is used for an array.
- `dom5.pddl:15` announces at most one survey task per trip; no operator enforces it.

## 9. Left out inside the modelled programs

- Time: the lengths of periods, computations and pauses. Priorities are modelled where
  they are in force (`RateMonotonic`, `PriorityCeiling`).
- The failure of calls that the code treats with `CHECK_NZ` or `exit` before any thread
  runs; `malloc` in `msg_box_init` and the creation of threads, but in `ex2.c`; the status of
  `rtems_semaphore_create` in `ex2`, which nobody tests.
- What is printed; the content of messages, pages and pixels; SIGPIPE in the web servers.
- A push after the shutdown, which the code accepts and whose task may never run (the
  scripts destroy the pool last, as `test_threadpool.c` does); `msg_box_delete`.
- The scripts that start and kill the processes of the UDP minimum.
- In FF: the lexers and grammars (generated code, and what they hand over is where
  `Parse` starts), the static array sizes, `memory.c`, the options, the info levels and
  the timing. `pb5b.pddl` and its like are larger variants of the problems of the run.

## 10. Plan

Done, in this order: `ThreadPool` with its abstract queue and proofs, `RWLock`,
`MsgBox`, `MinePump`, `Train`, `Notify`, `WebServer`, `ParallelFilter`; then the planner
and its domains, the small labs, and the theorems about wakeups, the water, the answers
and the refinement of `TaskQueue`. Then the labs as one specification (`Labs`) with a theorem for each
safety property, the bound on the overshoot, and the search of the planner: its agenda,
the plan it keeps, its relaxed plans, and that it misses no plan. At last, the planner
from the ground templates on: what its answers mean for the ground actions.

Next, in order:

1. Response times: the fixed point of `be.py` against a reference definition, in whole
   microseconds.
2. The walk along the links of the plan table: the condition on the old links under which
   every cut ends, as an invariant of the tasks that keep it (`Roundabout` does not).
3. `LegalPlan` over the facts of the text: the passes of `Grounding` without recursive
   operators, so that a theorem can say that the templates mean what the text means. The
   formulae are trees, and their recursion would have to be over the depth.
