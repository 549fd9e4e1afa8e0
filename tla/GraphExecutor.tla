---------------------------- MODULE GraphExecutor ----------------------------
(***************************************************************************)
(* One run of graph::graph_executor (src/Library/Graph/graph_executor.cpp):*)
(* the calling thread inside execute(), the worker tasks it pushes on the  *)
(* persistent pool, and cancel() from a third thread.                      *)
(*                                                                         *)
(* A thread is at one label of pc at a time and every action is one atomic *)
(* operation of the C++ code (an atomic read-modify-write, a critical      *)
(* section of ready_mutex) together with the thread-private work around    *)
(* it.  ready_mutex is a variable only because one critical section is     *)
(* split: evaluating the predicate of ready_cv.wait and going to sleep are *)
(* two steps, since `completed` is incremented outside the mutex.          *)
(*                                                                         *)
(* A definition whose name ends in an underscore and a word is a plausible *)
(* mistake in the definition that follows it; none is part of the model.   *)
(***************************************************************************)
EXTENDS DependencyGraph

CONSTANTS Worker,   \* the tasks pushed on the pool, one per pool thread
          Caller,   \* the thread inside execute()
          Nobody,   \* ready_mutex is free
          NoNode,   \* no node id
          Outside,  \* ids a caller may ask for that are no node of the graph
          Modes     \* the entry points explored, a subset of AllModes

AllModes == {"run", "run_to", "run_incremental", "run_async"}

ASSUME ThreadAssumption ==
  /\ IsFiniteSet(Worker) /\ Worker # {}
  /\ Caller \notin Worker
  /\ Nobody \notin Worker \cup {Caller}
  /\ NoNode \notin Node \cup Outside
  /\ Outside \cap Node = {}
  /\ Modes \subseteq AllModes

Thread == Worker \cup {Caller}

VARIABLES
  \* the arguments of the run, constant once it has started
  mode,              \* the entry point
  sinks,             \* the ids run_to was asked for (is_sink)
  scheduled,         \* nodes this run executes
  cache,             \* nodes with an entry in in_out_cache
  dirty,             \* nodes run_incremental recomputes
  \* run_state
  remaining,         \* in-degree counter of each node
  consumers_left,    \* scheduled consumers that still need a result
  results,           \* the shared_ptr slot of each node
  failed,            \* per-node failure flag
  ready_heap,        \* nodes pushed and not yet popped
  completed,         \* number of finished nodes
  failure_recorded,  \* the compare-exchange of record_failure
  failed_node_id,    \* the node it recorded, or the id run_to refused
  \* threads
  ready_mutex,       \* the thread holding it, or Nobody
  pc,                \* where each thread is
  cur,               \* the node a worker executes
  pushing,           \* the successor a worker is about to enqueue
  freed,             \* edges whose consumers_left decrement is done
  sent,              \* edges whose remaining decrement is done
  finished,          \* nodes counted in completed (history)
  \* what the outside sees
  cancel_flag,       \* set by cancel()
  outcome,           \* what became of each node (history)
  out_results,       \* the map handed back to the caller
  status             \* the status returned

args  == <<mode, sinks, scheduled, cache, dirty>>
core  == <<remaining, consumers_left, results, failed>>
fail  == <<failure_recorded, failed_node_id>>
loops == <<freed, sent>>
final == <<out_results, status>>
vars  == <<args, core, ready_heap, completed, fail, ready_mutex, pc, cur,
           pushing, loops, finished, cancel_flag, outcome, final>>

-----------------------------------------------------------------------------
WorkerLabels ==
  {"idle", "queued", "lock", "block", "waiting", "begin", "work", "record",
   "settle", "push", "notify_one", "notify_all", "exited"}
CallerLabels ==
  {"seed", "spawn", "lock", "block", "waiting", "wake", "join", "returned"}
Slots    == {"null", "empty", "value", "cached"}
Outcomes == {"none", "running", "value", "cached", "failed", "skipped"}

Restricted   == mode = "run_to"
Incremental  == mode = "run_incremental"

\* run_to: every requested id is below node_count().
ValidSinks == sinks \subseteq Node

total_to_run == Cardinality(scheduled)

ScheduledOut(n) == {e \in Out(n) : To[e] \in scheduled}

\* graph_passes::consumer_counts: how many scheduled edges leave a node.
consumer_counts(n) == Cardinality(ScheduledOut(n))

\* The dependency slots a node gives up once it has run (run_to only).
ToRelease_Requested(n) ==
  IF Restricted THEN {e \in In(n) : From[e] \in scheduled} ELSE {}
ToRelease(n) ==
  IF Restricted THEN {e \in In(n) : From[e] \in scheduled \ sinks} ELSE {}

\* The fetch_sub that reaches zero: this thread was the last to decrement.
LastConsumer_Early(dep) == consumers_left[dep] <= 2
LastConsumer(dep) == consumers_left[dep] = 1

LastDependency_Early(succ) == remaining[succ] <= 2
LastDependency(succ) == remaining[succ] = 1

SourceNodes == {n \in scheduled : remaining[n] = 0}

DependencyFailed_All(n) == In(n) # {} /\ \A e \in In(n) : failed[From[e]]
DependencyFailed(n) == \E e \in In(n) : failed[From[e]]

\* execute_node does not start a node that is cancelled or has a bad input.
MustSkip_NoCancel(n) == DependencyFailed(n)
MustSkip(n) == cancel_flag \/ DependencyFailed(n)

\* finish_node takes ready_mutex between the count and the notification.
FinishMayNotify_Unlocked == TRUE
FinishMayNotify == ready_mutex = Nobody

\* The caller waits for every worker's future before it frees run_state.
WorkersJoined_NoWait == TRUE
WorkersJoined == \A w \in Worker : pc[w] = "exited"

\* The predicates of ready_cv.wait.
WaitPredicate_IgnoreHeap(t) == completed = total_to_run
WaitPredicate(t) ==
  \/ t \in Worker /\ ready_heap # {}
  \/ completed = total_to_run

TopPriority(heap) ==
  {n \in heap : \A m \in heap : Priority[m] <= Priority[n]}

\* ready_cv.notify_all by a thread that moves on to label `next`.
NotifyAll(t, next) ==
  pc' = [u \in Thread |-> IF u = t THEN next
                          ELSE IF pc[u] = "waiting" THEN "lock" ELSE pc[u]]

-----------------------------------------------------------------------------
(* run(), run_to(), run_incremental() and run_async() choose the arguments; *)
(* the constructor of run_state sets up the counters.                        *)
InitArgs ==
  /\ mode \in Modes
  /\ cancel_flag = FALSE
  /\ sinks \in IF Restricted THEN SUBSET (Node \cup Outside) ELSE {{}}
  /\ scheduled = IF ~Restricted THEN Node
                 ELSE IF sinks \subseteq Node THEN Ancestors(sinks) ELSE {}
  /\ cache \in IF Incremental THEN SUBSET Node ELSE {{}}
  /\ \E version_moved \in IF Incremental THEN SUBSET Node ELSE {Node} :
       dirty = Descendants(version_moved \cup (Node \ cache))

InitRunState ==
  /\ remaining = [n \in Node |-> Cardinality({e \in In(n) : From[e] \in scheduled})]
  /\ consumers_left = [n \in Node |-> consumer_counts(n)]
  /\ results = [n \in Node |-> "null"]
  /\ failed = [n \in Node |-> FALSE]
  /\ ready_heap = {}
  /\ completed = 0
  /\ failure_recorded = FALSE
  /\ failed_node_id = NoNode

Init ==
  /\ InitArgs
  /\ InitRunState
  /\ ready_mutex = Nobody
  /\ pc = [t \in Thread |-> IF t = Caller THEN "seed" ELSE "idle"]
  /\ cur = [w \in Worker |-> NoNode]
  /\ pushing = [w \in Worker |-> NoNode]
  /\ freed = {} /\ sent = {} /\ finished = {}
  /\ outcome = [n \in Node |-> "none"]
  /\ out_results = [n \in {} |-> "null"]
  /\ status = "running"

-----------------------------------------------------------------------------
(* The calling thread. *)

\* run_to returns at once, naming the first id that is no node; execute() is
\* not called and the caller's map stays as it was.
Refuse ==
  /\ pc[Caller] = "seed"
  /\ ~ValidSinks
  /\ failed_node_id' \in sinks \ Node
  /\ status' = "node_failed"
  /\ pc' = [pc EXCEPT ![Caller] = "returned"]
  /\ UNCHANGED <<args, core, ready_heap, completed, failure_recorded,
                 ready_mutex, cur, pushing, loops, finished, cancel_flag,
                 outcome, out_results>>

\* Enqueue the scheduled nodes that wait for nothing.
Seed ==
  /\ pc[Caller] = "seed"
  /\ ValidSinks
  /\ ready_heap' = SourceNodes
  /\ pc' = [pc EXCEPT ![Caller] = "spawn"]
  /\ UNCHANGED <<args, core, completed, fail, ready_mutex, cur, pushing, loops,
                 finished, cancel_flag, outcome, final>>

\* queue_->push of one worker task; after the last one the caller waits.
Spawn(w) ==
  /\ pc[Caller] = "spawn"
  /\ pc[w] = "idle"
  /\ pc' = [pc EXCEPT ![w] = "queued",
                      ![Caller] = IF \A v \in Worker \ {w} : pc[v] # "idle"
                                  THEN "lock" ELSE "spawn"]
  /\ UNCHANGED <<args, core, ready_heap, completed, fail, ready_mutex, cur,
                 pushing, loops, finished, cancel_flag, outcome, final>>

\* The caller's ready_cv.wait returns: every scheduled node is counted.
CallerProceed ==
  /\ pc[Caller] = "lock"
  /\ ready_mutex = Nobody
  /\ WaitPredicate(Caller)
  /\ pc' = [pc EXCEPT ![Caller] = "wake"]
  /\ UNCHANGED <<args, core, ready_heap, completed, fail, ready_mutex, cur,
                 pushing, loops, finished, cancel_flag, outcome, final>>

\* Wake the workers still asleep so that they see the completed count.
CallerWake ==
  /\ pc[Caller] = "wake"
  /\ ready_mutex = Nobody
  /\ NotifyAll(Caller, "join")
  /\ UNCHANGED <<args, core, ready_heap, completed, fail, ready_mutex, cur,
                 pushing, loops, finished, cancel_flag, outcome, final>>

\* The map the caller receives: per-node results of this kind of run.
Reported(n) == IF results[n] = "null" THEN "empty" ELSE results[n]

Collected_Failed ==
  IF Restricted THEN [n \in sinks |-> Reported(n)] ELSE [n \in Node |-> Reported(n)]
Collected ==
  IF Incremental THEN [n \in {m \in Node : ~failed[m]} |-> Reported(n)]
  ELSE IF Restricted THEN [n \in sinks |-> Reported(n)]
  ELSE [n \in Node |-> Reported(n)]

RunStatus ==
  IF cancel_flag THEN "cancelled" ELSE IF failure_recorded THEN "node_failed" ELSE "ok"

\* All worker futures are ready: collect, compute the status, free run_state.
Return ==
  /\ pc[Caller] = "join"
  /\ WorkersJoined
  /\ out_results' = Collected
  /\ status' = RunStatus
  /\ pc' = [pc EXCEPT ![Caller] = "returned"]
  /\ UNCHANGED <<args, core, ready_heap, completed, fail, ready_mutex, cur,
                 pushing, loops, finished, cancel_flag, outcome>>

\* cancel() from another thread while a run_async() is in flight.
Cancel ==
  /\ mode = "run_async"
  /\ ~cancel_flag
  /\ status = "running"
  /\ cancel_flag' = TRUE
  /\ UNCHANGED <<args, core, ready_heap, completed, fail, ready_mutex, pc, cur,
                 pushing, loops, finished, outcome, final>>

-----------------------------------------------------------------------------
(* Waiting on ready_cv, for the caller and for the workers. *)

\* The predicate is false; the thread still holds ready_mutex.
DecideToWait(t) ==
  /\ pc[t] = "lock"
  /\ ready_mutex = Nobody
  /\ ~WaitPredicate(t)
  /\ ready_mutex' = t
  /\ pc' = [pc EXCEPT ![t] = "block"]
  /\ UNCHANGED <<args, core, ready_heap, completed, fail, cur, pushing, loops,
                 finished, cancel_flag, outcome, final>>

\* It goes to sleep and releases ready_mutex, in one step.
Block(t) ==
  /\ pc[t] = "block"
  /\ ready_mutex' = Nobody
  /\ pc' = [pc EXCEPT ![t] = "waiting"]
  /\ UNCHANGED <<args, core, ready_heap, completed, fail, cur, pushing, loops,
                 finished, cancel_flag, outcome, final>>

\* A condition variable may wake a waiter for no reason.
SpuriousWake(t) ==
  /\ pc[t] = "waiting"
  /\ pc' = [pc EXCEPT ![t] = "lock"]
  /\ UNCHANGED <<args, core, ready_heap, completed, fail, ready_mutex, cur,
                 pushing, loops, finished, cancel_flag, outcome, final>>

-----------------------------------------------------------------------------
(* A worker task. *)

\* A pool thread takes the task.
StartTask(w) ==
  /\ pc[w] = "queued"
  /\ pc' = [pc EXCEPT ![w] = "lock"]
  /\ UNCHANGED <<args, core, ready_heap, completed, fail, ready_mutex, cur,
                 pushing, loops, finished, cancel_flag, outcome, final>>

PopReady(w) ==
  /\ pc[w] = "lock"
  /\ ready_mutex = Nobody
  /\ WaitPredicate(w)
  /\ \E n \in TopPriority(ready_heap) :
       /\ cur' = [cur EXCEPT ![w] = n]
       /\ ready_heap' = ready_heap \ {n}
  /\ pc' = [pc EXCEPT ![w] = "begin"]
  /\ UNCHANGED <<args, core, completed, fail, ready_mutex, pushing, loops,
                 finished, cancel_flag, outcome, final>>

ExitLoop(w) ==
  /\ pc[w] = "lock"
  /\ ready_mutex = Nobody
  /\ WaitPredicate(w)
  /\ ready_heap = {}
  /\ pc' = [pc EXCEPT ![w] = "exited"]
  /\ UNCHANGED <<args, core, ready_heap, completed, fail, ready_mutex, cur,
                 pushing, loops, finished, cancel_flag, outcome, final>>

\* execute_node: cancelled, or a dependency failed or was skipped.
Skip(w) ==
  /\ pc[w] = "begin"
  /\ MustSkip(cur[w])
  /\ failed' = [failed EXCEPT ![cur[w]] = TRUE]
  /\ results' = [results EXCEPT ![cur[w]] = "empty"]
  /\ outcome' = [outcome EXCEPT ![cur[w]] = "skipped"]
  /\ pc' = [pc EXCEPT ![w] = "settle"]
  /\ UNCHANGED <<args, remaining, consumers_left, ready_heap, completed, fail,
                 ready_mutex, cur, pushing, loops, finished, cancel_flag, final>>

\* A clean node of an incremental run is served from the cache; a missing
\* entry is reported as a failure of the node.
ServeClean(w) ==
  LET hit == cur[w] \in cache IN
  /\ pc[w] = "begin"
  /\ ~MustSkip(cur[w])
  /\ Incremental /\ cur[w] \notin dirty
  /\ failed' = [failed EXCEPT ![cur[w]] = ~hit]
  /\ results' = [results EXCEPT ![cur[w]] = IF hit THEN "cached" ELSE "empty"]
  /\ outcome' = [outcome EXCEPT ![cur[w]] = IF hit THEN "cached" ELSE "failed"]
  /\ failure_recorded' = (failure_recorded \/ ~hit)
  /\ pc' = [pc EXCEPT ![w] = IF hit \/ failure_recorded THEN "settle" ELSE "record"]
  /\ UNCHANGED <<args, remaining, consumers_left, ready_heap, completed,
                 failed_node_id, ready_mutex, cur, pushing, loops, finished,
                 cancel_flag, final>>

\* Otherwise the inputs are copied out of the dependencies' slots.
GatherInputs(w) ==
  /\ pc[w] = "begin"
  /\ ~MustSkip(cur[w])
  /\ Incremental => cur[w] \in dirty
  /\ outcome' = [outcome EXCEPT ![cur[w]] = "running"]
  /\ pc' = [pc EXCEPT ![w] = "work"]
  /\ UNCHANGED <<args, core, ready_heap, completed, fail, ready_mutex, cur,
                 pushing, loops, finished, cancel_flag, final>>

WorkReturns(w) ==
  /\ pc[w] = "work"
  /\ results' = [results EXCEPT ![cur[w]] = "value"]
  /\ outcome' = [outcome EXCEPT ![cur[w]] = "value"]
  /\ pc' = [pc EXCEPT ![w] = "settle"]
  /\ UNCHANGED <<args, remaining, consumers_left, failed, ready_heap, completed,
                 fail, ready_mutex, cur, pushing, loops, finished, cancel_flag,
                 final>>

\* work_ throws: the node fails, and the first to fail goes on to record it.
WorkThrows(w) ==
  /\ pc[w] = "work"
  /\ failed' = [failed EXCEPT ![cur[w]] = TRUE]
  /\ results' = [results EXCEPT ![cur[w]] = "empty"]
  /\ outcome' = [outcome EXCEPT ![cur[w]] = "failed"]
  /\ failure_recorded' = TRUE
  /\ pc' = [pc EXCEPT ![w] = IF failure_recorded THEN "settle" ELSE "record"]
  /\ UNCHANGED <<args, remaining, consumers_left, ready_heap, completed,
                 failed_node_id, ready_mutex, cur, pushing, loops, finished,
                 cancel_flag, final>>

\* record_failure under failure_mutex, by the winner of the exchange.
RecordFailure(w) ==
  /\ pc[w] = "record"
  /\ failed_node_id' = cur[w]
  /\ pc' = [pc EXCEPT ![w] = "settle"]
  /\ UNCHANGED <<args, core, ready_heap, completed, failure_recorded,
                 ready_mutex, cur, pushing, loops, finished, cancel_flag,
                 outcome, final>>

\* Liveness: give up one dependency's slot, freeing it after its last consumer.
ReleaseSlot(w) ==
  /\ pc[w] = "settle"
  /\ \E e \in ToRelease(cur[w]) \ freed :
       LET dep == From[e] IN
       /\ freed' = freed \cup {e}
       /\ consumers_left' = [consumers_left EXCEPT ![dep] = @ - 1]
       /\ results' = IF LastConsumer(dep)
                     THEN [results EXCEPT ![dep] = "null"] ELSE results
  /\ UNCHANGED <<args, remaining, failed, ready_heap, completed, fail,
                 ready_mutex, pc, cur, pushing, sent, finished, cancel_flag,
                 outcome, final>>

\* Decrement one successor; the thread that brings it to zero enqueues it.
SignalSuccessor(w) ==
  /\ pc[w] = "settle"
  /\ ToRelease(cur[w]) \subseteq freed
  /\ \E e \in ScheduledOut(cur[w]) \ sent :
       LET succ == To[e] IN
       /\ sent' = sent \cup {e}
       /\ remaining' = [remaining EXCEPT ![succ] = @ - 1]
       /\ IF LastDependency(succ)
          THEN /\ pushing' = [pushing EXCEPT ![w] = succ]
               /\ pc' = [pc EXCEPT ![w] = "push"]
          ELSE UNCHANGED <<pushing, pc>>
  /\ UNCHANGED <<args, consumers_left, results, failed, ready_heap, completed,
                 fail, ready_mutex, cur, freed, finished, cancel_flag, outcome,
                 final>>

PushReady(w) ==
  /\ pc[w] = "push"
  /\ ready_mutex = Nobody
  /\ ready_heap' = ready_heap \cup {pushing[w]}
  /\ pushing' = [pushing EXCEPT ![w] = NoNode]
  /\ pc' = [pc EXCEPT ![w] = "notify_one"]
  /\ UNCHANGED <<args, core, completed, fail, ready_mutex, cur, loops, finished,
                 cancel_flag, outcome, final>>

\* notify_one, outside the mutex: any waiter may be chosen, the caller too.
NotifyOne(w) ==
  /\ pc[w] = "notify_one"
  /\ LET waiters == {t \in Thread : pc[t] = "waiting"} IN
     IF waiters = {} THEN pc' = [pc EXCEPT ![w] = "settle"]
     ELSE \E t \in waiters : pc' = [pc EXCEPT ![w] = "settle", ![t] = "lock"]
  /\ UNCHANGED <<args, core, ready_heap, completed, fail, ready_mutex, cur,
                 pushing, loops, finished, cancel_flag, outcome, final>>

\* finish_node: the count moves before ready_mutex is taken.
CountCompleted(w) ==
  /\ pc[w] = "settle"
  /\ ToRelease(cur[w]) \subseteq freed
  /\ ScheduledOut(cur[w]) \subseteq sent
  /\ completed' = completed + 1
  /\ finished' = finished \cup {cur[w]}
  /\ pc' = [pc EXCEPT ![w] = "notify_all"]
  /\ UNCHANGED <<args, core, ready_heap, fail, ready_mutex, cur, pushing, loops,
                 cancel_flag, outcome, final>>

FinishNotify(w) ==
  /\ pc[w] = "notify_all"
  /\ FinishMayNotify
  /\ NotifyAll(w, "lock")
  /\ cur' = [cur EXCEPT ![w] = NoNode]
  /\ UNCHANGED <<args, core, ready_heap, completed, fail, ready_mutex, pushing,
                 loops, finished, cancel_flag, outcome, final>>

-----------------------------------------------------------------------------
\* Execution of the node a worker has popped.
ExecuteNode(w) ==
  \/ Skip(w) \/ ServeClean(w) \/ GatherInputs(w) \/ WorkReturns(w)
  \/ WorkThrows(w) \/ RecordFailure(w) \/ ReleaseSlot(w) \/ SignalSuccessor(w)
  \/ PushReady(w) \/ NotifyOne(w) \/ CountCompleted(w) \/ FinishNotify(w)

WorkerStep(w) ==
  \/ StartTask(w) \/ PopReady(w) \/ ExitLoop(w) \/ ExecuteNode(w)
  \/ DecideToWait(w) \/ Block(w)

CallerStep ==
  \/ Refuse
  \/ Seed
  \/ \E w \in Worker : Spawn(w)
  \/ CallerProceed \/ CallerWake \/ Return
  \/ DecideToWait(Caller) \/ Block(Caller)

\* The run is over: nothing but stuttering is left.
Finished == status # "running" /\ UNCHANGED vars

Next ==
  \/ CallerStep
  \/ \E w \in Worker : WorkerStep(w)
  \/ \E t \in Thread : SpuriousWake(t)
  \/ Cancel
  \/ Finished

Spec == Init /\ [][Next]_vars

(* Every thread keeps being scheduled, the pool eventually takes every task, *)
(* and a thread that asks for ready_mutex again and again gets it.  Nothing  *)
(* is assumed of cancel() or of spurious wake-ups.                           *)
Fairness ==
  /\ SF_vars(CallerStep)
  /\ \A w \in Worker : SF_vars(WorkerStep(w))

FairSpec == Spec /\ Fairness

-----------------------------------------------------------------------------
(* Properties. *)

Settled == {"value", "cached", "failed", "skipped"}
Bad     == {"failed", "skipped"}

\* Every variable holds a value of the C++ type it stands for.
TypeOK ==
  /\ mode \in AllModes
  /\ sinks \subseteq Node \cup Outside /\ scheduled \subseteq Node
  /\ cache \subseteq Node /\ dirty \subseteq Node
  /\ remaining \in [Node -> Nat]
  /\ consumers_left \in [Node -> Nat]
  /\ results \in [Node -> Slots]
  /\ failed \in [Node -> BOOLEAN]
  /\ ready_heap \subseteq Node
  /\ completed \in Nat
  /\ failure_recorded \in BOOLEAN
  /\ failed_node_id \in Node \cup Outside \cup {NoNode}
  /\ ready_mutex \in Thread \cup {Nobody}
  /\ pc \in [Thread -> WorkerLabels \cup CallerLabels]
  /\ cur \in [Worker -> Node \cup {NoNode}]
  /\ pushing \in [Worker -> Node \cup {NoNode}]
  /\ freed \subseteq Edge /\ sent \subseteq Edge
  /\ finished \subseteq Node
  /\ cancel_flag \in BOOLEAN
  /\ outcome \in [Node -> Outcomes]
  /\ DOMAIN out_results \subseteq Node
  /\ status \in {"running", "ok", "node_failed", "cancelled"}

\* A worker about to run a node finds the result slot of every dependency
\* filled: the dependencies have all been settled, and no sibling consumer has
\* already released a slot this node still has to read (execute_node's
\* dereference of results[dep]).
InputsReady ==
  \A w \in Worker : pc[w] = "begin" =>
    \A e \in In(cur[w]) : /\ outcome[From[e]] \in Settled
                          /\ results[From[e]] # "null"

\* No node is executed twice: two workers never hold the same node, and a node
\* in the ready heap or on its way there is held by nobody and has not started.
ExecutedOnce ==
  /\ \A v, w \in Worker : v # w /\ cur[v] # NoNode => cur[v] # cur[w]
  /\ \A n \in ready_heap : outcome[n] = "none" /\ \A w \in Worker : cur[w] # n
  /\ \A w \in Worker : pc[w] = "push" =>
       /\ pushing[w] \notin ready_heap
       /\ outcome[pushing[w]] = "none"
       /\ \A v \in Worker : cur[v] # pushing[w] /\ (v # w => pushing[v] # pushing[w])

\* A node produces a value only from dependencies that did, and a node is
\* skipped only for a bad dependency or a cancellation, however the failure of
\* one worker interleaves with the nodes of the others.
FailurePropagates ==
  \A n \in Node :
    /\ outcome[n] \in {"running", "value", "cached"} =>
         \A e \in In(n) : outcome[From[e]] \in {"value", "cached"}
    /\ outcome[n] = "skipped" =>
         cancel_flag \/ \E e \in In(n) : outcome[From[e]] \in Bad

\* While a node is in the ready heap and the workers have been pushed, some
\* worker is on its way to it: not all are asleep or gone, even when notify_one
\* has woken the calling thread instead of a worker.
ReadyNodeHasWorker ==
  ready_heap # {} /\ pc[Caller] \notin {"seed", "spawn"} =>
    \E w \in Worker : pc[w] \notin {"block", "waiting", "exited"}

\* The run returns only when every scheduled node is settled and no worker can
\* touch run_state again (it is destroyed on return); a worker is still idle
\* only if its task was never pushed, as when run_to refuses the request.
ReturnsAfterAll ==
  status # "running" =>
    /\ \A n \in scheduled : outcome[n] \in Settled
    /\ \A w \in Worker : pc[w] = IF sinks \subseteq Node THEN "exited" ELSE "idle"

\* The status tells the truth: ok means that every node the caller asked for is
\* a node of the graph and has its value, and a failure names a node whose work
\* threw or, when nothing was run, a requested id the graph does not have.
StatusTruthful ==
  /\ status = "node_failed" =>
       IF sinks \subseteq Node
       THEN failed_node_id \in Node /\ outcome[failed_node_id] = "failed"
       ELSE /\ failed_node_id \in sinks \ Node
            /\ \A n \in Node : outcome[n] = "none"
  /\ status = "ok" => /\ sinks \subseteq Node
                      /\ \A n \in scheduled \cup sinks : outcome[n] \in {"value", "cached"}
  /\ status = "cancelled" => cancel_flag

\* A failure reaches every dependent, and the caller is told of it.
FailuresReported == FailurePropagates /\ StatusTruthful

\* run_to frees exactly the slots nobody asked for: at the end every
\* intermediate result is gone and every requested one is still there.
IntermediatesFreed ==
  status # "running" /\ Restricted =>
    \A n \in scheduled : results[n] = "null" <=> n \notin sinks

\* run_incremental leaves no entry for a node that failed or was skipped, and
\* an old entry survives only for a node none of whose dependencies moved.
CacheNotPoisoned ==
  status # "running" /\ Incremental =>
    \A n \in Node :
      /\ n \in DOMAIN out_results <=> outcome[n] \in {"value", "cached"}
      /\ n \in DOMAIN out_results => out_results[n] # "empty"
      /\ outcome[n] = "cached" => \A e \in In(n) : outcome[From[e]] = "cached"
      /\ outcome[n] = "failed" => n \in dirty

\* Every run returns: no wake-up of a worker or of the caller is lost.
RunReturns == <>(status # "running")

Promise == INSTANCE GraphRun WITH
  clean       <- IF Incremental THEN Node \ dirty ELSE {},
  outside     <- sinks \ Node,
  cancellable <- mode = "run_async",
  blamed      <- failed_node_id

\* The executor keeps the promise of GraphRun: every step of a thread is one of
\* its steps or leaves it alone, and fair threads drive it to the end.
ImplementsGraphRun == Promise!FairSpec
=============================================================================
