-------------------------- MODULE GraphExecutorProofs --------------------------
(***************************************************************************)
(* IInv of GraphExecutorInv is an invariant of the executor for every      *)
(* graph and every pool of workers, and so is FateInv.  The safety         *)
(* properties follow from the two, and that the executor implements        *)
(* GraphRun.                                                               *)
(***************************************************************************)
EXTENDS GraphExecutorInv, FiniteSetTheorems, TLAPS

-----------------------------------------------------------------------------
(* Sets of edges and their cardinalities. *)

\* Crossing one more edge off a finite set of edges lowers its count by one.
LEMMA CrossOff ==
  ASSUME NEW S, IsFiniteSet(S), NEW T, NEW e \in S \ T
  PROVE  /\ Cardinality(S \ (T \cup {e})) = Cardinality(S \ T) - 1
         /\ Cardinality(S \ T) \in Nat \ {0}
<1>1. IsFiniteSet(S \ T)
  BY FS_Subset
<1>2. S \ (T \cup {e}) = (S \ T) \ {e}
  OBVIOUS
<1>3. Cardinality((S \ T) \ {e}) = Cardinality(S \ T) - 1
  BY <1>1, FS_RemoveElement
<1>4. Cardinality(S \ T) \in Nat
  BY <1>1, FS_CardinalityType
<1>5. Cardinality(S \ T) # 0
  BY <1>1, FS_EmptySet
<1> QED
  BY <1>2, <1>3, <1>4, <1>5

\* A count of zero means that every edge has been crossed off.
LEMMA AllCrossedOff ==
  ASSUME NEW S, IsFiniteSet(S), NEW T, Cardinality(S \ T) = 0
  PROVE  S \subseteq T
<1>1. IsFiniteSet(S \ T)
  BY FS_Subset
<1> QED
  BY <1>1, FS_EmptySet

\* The edges into, out of and between scheduled nodes are finite sets.
LEMMA FiniteEdges ==
  ASSUME NEW n
  PROVE  /\ IsFiniteSet(ScheduledIn(n)) /\ ScheduledIn(n) \subseteq Edge
         /\ IsFiniteSet(ScheduledOut(n)) /\ ScheduledOut(n) \subseteq Edge
<1>1. IsFiniteSet(Edge)
  BY GraphAssumption
<1>2. ScheduledIn(n) \subseteq Edge /\ ScheduledOut(n) \subseteq Edge
  BY DEF ScheduledIn, ScheduledOut, In, Out
<1> QED
  BY <1>1, <1>2, FS_Subset

\* What a node needs before it may run: every dependency of a scheduled node
\* whose counter has reached zero is settled and signalled.
LEMMA ZeroMeansSettled ==
  ASSUME IInv, NEW n \in scheduled, remaining[n] = 0, NEW e \in In(n)
  PROVE  e \in sent /\ outcome[From[e]] \in Settled
<1>1. n \in Node /\ e \in Edge /\ To[e] = n /\ From[e] \in scheduled
  BY GraphAssumption DEF IInv, TypeOK, ArgsInv, ClosedUpward, In
<1>2. ScheduledIn(n) \subseteq sent
  BY <1>1, FiniteEdges, AllCrossedOff DEF IInv, CountInv
<1> QED
  BY <1>1, <1>2 DEF IInv, EdgeInv, ScheduledIn, In

-----------------------------------------------------------------------------
(* Initial states. *)

LEMMA InitInv == Init => IInv
<1> SUFFICES ASSUME Init PROVE IInv
  OBVIOUS
<1> USE DEF Init, InitArgs, InitRunState
<1>1. ArgsInv
  <2>1. CASE Restricted /\ sinks \subseteq Node
    <3>1. scheduled = Ancestors(sinks)
      BY <2>1
    <3>2. ClosedUpward(Ancestors(sinks)) /\ sinks \subseteq Ancestors(sinks)
      BY <2>1, GraphAssumption DEF Ancestors, ClosedUpward
    <3> QED
      BY <2>1, <3>1, <3>2 DEF ArgsInv
  <2>2. CASE Restricted /\ ~(sinks \subseteq Node)
    BY <2>2 DEF ArgsInv, ClosedUpward
  <2>3. CASE ~Restricted
    <3>1. scheduled = Node /\ sinks = {}
      BY <2>3
    <3> QED
      BY <2>3, <3>1, GraphAssumption DEF ArgsInv, ClosedUpward
  <2> QED
    BY <2>1, <2>2, <2>3
<1>2. scheduled \subseteq Node /\ sinks \subseteq Node \cup Outside
  <2>1. Ancestors(sinks) \subseteq Node
    BY DEF Ancestors
  <2>2. sinks \in SUBSET (Node \cup Outside) \/ sinks = {}
    OBVIOUS
  <2> QED
    BY <2>1, <2>2
<1>3. dirty \subseteq Node /\ cache \subseteq Node
  BY DEF Descendants
<1>4. CountInv
  BY FS_EmptySet DEF consumer_counts, CountInv, ScheduledIn
<1>5. TypeOK
  <2>1. \A n \in Node : remaining[n] \in Nat /\ consumers_left[n] \in Nat
    BY FiniteEdges, FS_CardinalityType DEF consumer_counts, ScheduledIn
  <2> QED
    BY <1>2, <1>3, <2>1, ThreadAssumption
       DEF TypeOK, AllModes, Thread, WorkerLabels, CallerLabels, Slots, Outcomes
<1>6. EdgeInv /\ NodeInv
  BY DEF EdgeInv, NodeInv, Bad, Settled
<1>7. WorkerInv
  BY <1>2, ThreadAssumption DEF WorkerInv, Thread, WorkerLabels, ActiveLabels, SettledLabels
<1>8. CallerInv
  BY ThreadAssumption DEF CallerInv, Thread, CallerLabels
<1>9. ExecutedOnce
  BY ThreadAssumption DEF ExecutedOnce, Thread
<1> QED
  BY <1>1, <1>4, <1>5, <1>6, <1>7, <1>8, <1>9 DEF IInv

-----------------------------------------------------------------------------
(* Steps that only move threads between labels. *)

\* What depends on the nodes and edges alone survives any step that leaves
\* them alone.
LEMMA QuietStep ==
  ASSUME IInv, UNCHANGED <<args, core, ready_heap, completed, loops, finished, outcome>>
  PROVE  ArgsInv' /\ CountInv' /\ EdgeInv' /\ NodeInv'
<1> USE DEF IInv, args, core, loops
<1>1. ArgsInv'
  BY DEF ArgsInv, Restricted
<1>2. CountInv'
  BY DEF CountInv, ScheduledIn, ScheduledOut
<1>3. EdgeInv'
  BY DEF EdgeInv, Restricted
<1>4. NodeInv'
  BY DEF NodeInv, Released, ToRelease, ScheduledOut, Restricted
<1> QED
  BY <1>1, <1>2, <1>3, <1>4

\* A thread that holds no node goes from a label to another where it holds
\* none; other threads may be woken.
LEMMA IdleStep ==
  ASSUME IInv,
         UNCHANGED <<args, core, ready_heap, completed, fail, cur, pushing,
                     loops, finished, outcome>>,
         pc' \in [Thread -> WorkerLabels \cup CallerLabels],
         ready_mutex' \in Thread \cup {Nobody},
         cancel_flag' \in BOOLEAN,
         \A w \in Worker :
           \/ pc'[w] = pc[w]
           \/ /\ pc[w] \notin ActiveLabels
              /\ pc'[w] \in WorkerLabels \ ActiveLabels
  PROVE  ArgsInv' /\ CountInv' /\ EdgeInv' /\ NodeInv' /\ WorkerInv'
         /\ ExecutedOnce' /\ (final' = final => TypeOK')
<1>1. ArgsInv' /\ CountInv' /\ EdgeInv' /\ NodeInv'
  BY QuietStep
<1>2. final' = final => TypeOK'
  BY DEF IInv, TypeOK, args, core, fail, loops, final
<1>3. WorkerInv'
  BY DEF IInv, WorkerInv, ActiveLabels, SettledLabels, args, core, loops
<1>4. \A w \in Worker : pc'[w] = "push" => pc[w] = "push"
  BY DEF ActiveLabels, SettledLabels
<1>5. ExecutedOnce'
  BY <1>4 DEF IInv, ExecutedOnce, core
<1> QED
  BY <1>1, <1>2, <1>3, <1>5

\* A worker's step cannot disturb what the calling thread relies on, as long
\* as it leaves the completed count of a finished run alone.
LEMMA CallerUndisturbed ==
  ASSUME IInv, NEW w \in Worker, pc[w] \notin {"idle", "exited"},
         \/ pc'[Caller] = pc[Caller]
         \/ pc[Caller] = "waiting" /\ pc'[Caller] = "lock",
         UNCHANGED <<args, final>>,
         completed' = completed \/ completed # total_to_run
  PROVE  CallerInv'
<1>1. pc[Caller] \notin {"seed", "returned"}
  BY DEF IInv, CallerInv
<1>2. total_to_run' = total_to_run
  BY DEF total_to_run, args
<1>3. pc'[Caller] \in CallerLabels \ {"seed", "returned"}
  BY <1>1 DEF IInv, CallerInv, CallerLabels
<1> QED
  BY <1>1, <1>2, <1>3 DEF IInv, CallerInv, final, args

LEMMA SpawnInv == ASSUME IInv, NEW w \in Worker, Spawn(w) PROVE IInv'
<1> USE DEF Spawn
<1>1. pc' \in [Thread -> WorkerLabels \cup CallerLabels]
  BY ThreadAssumption DEF IInv, TypeOK, Thread, WorkerLabels, CallerLabels
<1>2. \A v \in Worker : pc'[v] = IF v = w THEN "queued" ELSE pc[v]
  BY ThreadAssumption DEF IInv, TypeOK, Thread
<1>3. pc'[Caller] \in {"lock", "spawn"}
  BY ThreadAssumption DEF IInv, TypeOK, Thread
<1>4. CallerInv'
  BY <1>3 DEF IInv, CallerInv, CallerLabels, final, args
<1>5. \A v \in Worker : \/ pc'[v] = pc[v]
                        \/ /\ pc[v] \notin ActiveLabels
                           /\ pc'[v] \in WorkerLabels \ ActiveLabels
  <2>1. pc[w] = "idle"
    OBVIOUS
  <2>2. "idle" \notin ActiveLabels /\ "queued" \in WorkerLabels \ ActiveLabels
    BY DEF ActiveLabels, SettledLabels, WorkerLabels
  <2> QED
    BY <1>2, <2>1, <2>2
<1>6. UNCHANGED <<args, core, ready_heap, completed, fail, cur, pushing,
                  loops, finished, outcome, ready_mutex, cancel_flag, final>>
  OBVIOUS
<1>7. TypeOK
  BY DEF IInv
<1>8. ready_mutex' \in Thread \cup {Nobody} /\ cancel_flag' \in BOOLEAN
  BY <1>6, <1>7 DEF TypeOK
<1> QED
  BY <1>1, <1>4, <1>5, <1>6, <1>8, IdleStep DEF IInv

LEMMA CallerProceedInv == ASSUME IInv, CallerProceed PROVE IInv'
<1> USE DEF CallerProceed
<1>1. pc' \in [Thread -> WorkerLabels \cup CallerLabels]
  BY ThreadAssumption DEF IInv, TypeOK, Thread, WorkerLabels, CallerLabels
<1>2. \A v \in Worker : pc'[v] = pc[v]
  BY ThreadAssumption DEF IInv, TypeOK, Thread
<1>3. pc'[Caller] = "wake"
  BY ThreadAssumption DEF IInv, TypeOK, Thread
<1>4. CallerInv'
  BY <1>3, ThreadAssumption DEF WaitPredicate, IInv, CallerInv, CallerLabels, final, total_to_run, args
<1> QED
  BY <1>1, <1>2, <1>4, IdleStep DEF IInv, TypeOK, final

LEMMA CallerWakeInv == ASSUME IInv, CallerWake PROVE IInv'
<1> USE DEF CallerWake, NotifyAll
<1>1. pc' \in [Thread -> WorkerLabels \cup CallerLabels]
  BY ThreadAssumption DEF IInv, TypeOK, Thread, WorkerLabels, CallerLabels
<1>2. \A v \in Worker : pc'[v] = IF pc[v] = "waiting" THEN "lock" ELSE pc[v]
  BY ThreadAssumption DEF Thread
<1>3. pc'[Caller] = "join"
  BY DEF Thread
<1>4. CallerInv'
  BY <1>3 DEF IInv, CallerInv, CallerLabels, final, total_to_run, args
<1>5. \A v \in Worker : \/ pc'[v] = pc[v]
                        \/ /\ pc[v] \notin ActiveLabels
                           /\ pc'[v] \in WorkerLabels \ ActiveLabels
  BY <1>2 DEF ActiveLabels, SettledLabels, WorkerLabels
<1> QED
  BY <1>1, <1>4, <1>5, IdleStep DEF IInv, TypeOK, final

LEMMA ReturnStep == ASSUME IInv, Return PROVE IInv'
<1> USE DEF Return
<1>1. pc' \in [Thread -> WorkerLabels \cup CallerLabels]
  BY ThreadAssumption DEF IInv, TypeOK, Thread, WorkerLabels, CallerLabels
<1>2. \A v \in Worker : pc'[v] = pc[v]
  BY ThreadAssumption DEF IInv, TypeOK, Thread
<1>3. pc'[Caller] = "returned"
  BY ThreadAssumption DEF IInv, TypeOK, Thread
<1>4. CallerInv'
  BY <1>2, <1>3 DEF WorkersJoined, IInv, CallerInv, CallerLabels, RunStatus, total_to_run, args
<1>5. ArgsInv' /\ CountInv' /\ EdgeInv' /\ NodeInv' /\ WorkerInv' /\ ExecutedOnce'
  BY <1>1, <1>2, IdleStep DEF IInv, TypeOK
<1>6. DOMAIN Collected \subseteq Node
  <2>1. pc[Caller] = "join"
    OBVIOUS
  <2>2. sinks \subseteq Node
    BY <2>1 DEF IInv, CallerInv
  <2> QED
    BY <2>2 DEF Collected
<1>7. TypeOK'
  BY <1>1, <1>6 DEF IInv, TypeOK, RunStatus, args, core, fail, loops
<1> QED
  BY <1>4, <1>5, <1>7 DEF IInv

\* A refused request has scheduled nothing, so its counts agree with an empty run.
LEMMA RefuseInv == ASSUME IInv, Refuse PROVE IInv'
<1>1. /\ pc[Caller] = "seed" /\ pc' = [pc EXCEPT ![Caller] = "returned"]
      /\ ~(sinks \subseteq Node) /\ failed_node_id' \in sinks \ Node
      /\ status' = "node_failed"
      /\ UNCHANGED <<args, core, ready_heap, completed, failure_recorded, ready_mutex, cur,
                     pushing, loops, finished, cancel_flag, outcome, out_results>>
  BY DEF Refuse, ValidSinks
<1>2. /\ pc' \in [Thread -> WorkerLabels \cup CallerLabels]
      /\ pc'[Caller] = "returned"
      /\ \A w \in Worker : pc'[w] = pc[w] /\ pc[w] = "idle"
  BY <1>1, ThreadAssumption DEF IInv, TypeOK, CallerInv, Thread, CallerLabels
<1>3. completed = total_to_run
  <2>1. scheduled = {} /\ finished \subseteq scheduled
    BY <1>1 DEF IInv, ArgsInv, NodeInv, TypeOK, Settled
  <2>2. finished = scheduled
    BY <2>1
  <2> QED
    BY <2>2 DEF IInv, CountInv, total_to_run
<1>4. TypeOK'
  BY <1>1, <1>2 DEF IInv, TypeOK, args, core, loops
<1>5. ArgsInv' /\ CountInv' /\ EdgeInv' /\ NodeInv'
  BY <1>1, QuietStep
<1>6. WorkerInv'
  BY <1>1, <1>2 DEF IInv, WorkerInv, args, core
<1>7. CallerInv'
  BY <1>1, <1>2, <1>3 DEF IInv, CallerInv, CallerLabels, total_to_run, args
<1>8. ExecutedOnce'
  BY <1>1, <1>2 DEF IInv, ExecutedOnce
<1> QED
  BY <1>4, <1>5, <1>6, <1>7, <1>8 DEF IInv

LEMMA WaitingInv ==
  ASSUME IInv, NEW t \in Thread, DecideToWait(t) \/ Block(t) \/ SpuriousWake(t)
  PROVE  IInv'
<1> USE DEF DecideToWait, Block, SpuriousWake
<1>1. pc' \in [Thread -> WorkerLabels \cup CallerLabels]
  BY DEF IInv, TypeOK, WorkerLabels, CallerLabels
<1>2. /\ \A u \in Thread \ {t} : pc'[u] = pc[u]
      /\ pc[t] \in {"lock", "block", "waiting"}
      /\ pc'[t] \in {"lock", "block", "waiting"}
  BY DEF IInv, TypeOK
<1>3. CallerInv'
  <2>1. Caller \in Thread /\ Worker \subseteq Thread
    BY DEF Thread
  <2>2. pc'[Caller] \in CallerLabels
    BY <1>2, <2>1 DEF IInv, CallerInv, CallerLabels
  <2>3. pc[Caller] = "returned" => \A w \in Worker : pc[w] \in {"idle", "exited"}
    BY DEF IInv, CallerInv
  <2>4. pc[Caller] = "seed" => \A w \in Worker : pc[w] = "idle"
    BY DEF IInv, CallerInv
  <2>5. pc'[Caller] = pc[Caller] \/ {pc[Caller], pc'[Caller]} \subseteq {"lock", "block", "waiting"}
    BY <1>2, <2>1
  <2>6. pc[Caller] \in {"seed", "returned"} => \A w \in Worker : pc'[w] = pc[w]
    BY <1>2, <2>1, <2>3, <2>4
  <2>7. total_to_run' = total_to_run
    BY DEF total_to_run, args
  <2> QED
    BY <2>2, <2>5, <2>6, <2>7 DEF IInv, CallerInv, final, args
<1>4. \A w \in Worker : \/ pc'[w] = pc[w]
                        \/ /\ pc[w] \notin ActiveLabels
                           /\ pc'[w] \in WorkerLabels \ ActiveLabels
  BY <1>2 DEF Thread, ActiveLabels, SettledLabels, WorkerLabels
<1>5. ready_mutex' \in Thread \cup {Nobody}
  BY DEF IInv, TypeOK
<1> QED
  BY <1>1, <1>3, <1>4, <1>5, IdleStep DEF IInv, TypeOK, final

LEMMA CancelInv == ASSUME IInv, Cancel PROVE IInv'
<1>1. ready_mutex' \in Thread \cup {Nobody} /\ pc' \in [Thread -> WorkerLabels \cup CallerLabels]
  BY DEF IInv, TypeOK, Cancel
<1>2. CallerInv'
  BY DEF IInv, CallerInv, Cancel, final, total_to_run, args
<1> QED
  BY <1>1, <1>2, IdleStep DEF Cancel, IInv, final

LEMMA TaskInv == ASSUME IInv, NEW w \in Worker, StartTask(w) \/ ExitLoop(w) PROVE IInv'
<1> USE DEF StartTask, ExitLoop
<1>1. pc' \in [Thread -> WorkerLabels \cup CallerLabels]
  BY DEF IInv, TypeOK, Thread, WorkerLabels, CallerLabels
<1>2. /\ \A u \in Thread \ {w} : pc'[u] = pc[u]
      /\ pc[w] \in {"queued", "lock"}
      /\ pc'[w] \in {"lock", "exited"}
  BY DEF IInv, TypeOK, Thread
<1>3. CallerInv'
  BY <1>2, CallerUndisturbed, ThreadAssumption DEF Thread
<1>4. \A v \in Worker : \/ pc'[v] = pc[v]
                        \/ /\ pc[v] \notin ActiveLabels
                           /\ pc'[v] \in WorkerLabels \ ActiveLabels
  BY <1>2 DEF Thread, ActiveLabels, SettledLabels, WorkerLabels
<1>5. ready_mutex' \in Thread \cup {Nobody} /\ cancel_flag' \in BOOLEAN
  BY DEF IInv, TypeOK
<1> QED
  BY <1>1, <1>3, <1>4, <1>5, IdleStep DEF IInv, final

-----------------------------------------------------------------------------
(* Steps that execute a node. *)

\* A worker changes the label of no thread but itself and threads it wakes.
OnlyMoves(w) ==
  /\ pc' \in [Thread -> WorkerLabels \cup CallerLabels]
  /\ \A t \in Thread \ {w} : pc'[t] = pc[t] \/ (pc[t] = "waiting" /\ pc'[t] = "lock")

LEMMA MoveOne ==
  ASSUME IInv, NEW w \in Worker, NEW next \in WorkerLabels, pc' = [pc EXCEPT ![w] = next]
  PROVE  OnlyMoves(w) /\ pc'[w] = next /\ \A t \in Thread \ {w} : pc'[t] = pc[t]
BY DEF OnlyMoves, IInv, TypeOK, Thread

\* The wait is over for some threads: none of them holds a node.
LEMMA OthersKeep ==
  ASSUME IInv, NEW w \in Worker, OnlyMoves(w)
  PROVE  /\ \A v \in Worker \ {w} :
              /\ pc'[v] \in WorkerLabels
              /\ pc'[v] \in ActiveLabels <=> pc[v] \in ActiveLabels
              /\ pc[v] \in ActiveLabels => pc'[v] = pc[v]
         /\ \/ pc'[Caller] = pc[Caller]
            \/ pc[Caller] = "waiting" /\ pc'[Caller] = "lock"
<1>1. Caller \in Thread \ {w} /\ Worker \subseteq Thread
  BY ThreadAssumption DEF Thread
<1>2. \A v \in Worker : pc[v] \in WorkerLabels
  BY DEF IInv, WorkerInv
<1>3. \A v \in Worker \ {w} : pc'[v] = pc[v] \/ (pc[v] = "waiting" /\ pc'[v] = "lock")
  BY <1>1 DEF OnlyMoves
<1>4. {"waiting", "lock"} \subseteq WorkerLabels \ ActiveLabels
  BY DEF WorkerLabels, ActiveLabels, SettledLabels
<1> QED
  BY <1>1, <1>2, <1>3, <1>4 DEF OnlyMoves

LEMMA PopReadyInv == ASSUME IInv, NEW w \in Worker, PopReady(w) PROVE IInv'
<1>1. PICK n \in TopPriority(ready_heap) :
        /\ cur' = [cur EXCEPT ![w] = n]
        /\ ready_heap' = ready_heap \ {n}
  BY DEF PopReady
<1>2. pc[w] = "lock" /\ pc' = [pc EXCEPT ![w] = "begin"]
  BY DEF PopReady
<1>3. UNCHANGED <<args, core, completed, fail, ready_mutex, pushing, loops,
                  finished, cancel_flag, outcome, final>>
  BY DEF PopReady
<1>4. n \in ready_heap /\ n \in Node /\ n # NoNode
  BY <1>1, ThreadAssumption DEF TopPriority, IInv, TypeOK
<1>5. OnlyMoves(w) /\ pc'[w] = "begin" /\ \A t \in Thread \ {w} : pc'[t] = pc[t]
  BY <1>2, MoveOne DEF WorkerLabels
<1>6. cur'[w] = n /\ \A v \in Worker \ {w} : cur'[v] = cur[v]
  BY <1>1 DEF IInv, TypeOK
<1>7. n \in scheduled /\ remaining[n] = 0 /\ outcome[n] = "none"
      /\ \A v \in Worker : cur[v] # n
  BY <1>4 DEF IInv, NodeInv, ExecutedOnce
<1>8. TypeOK'
  BY <1>1, <1>3, <1>4, <1>5 DEF IInv, TypeOK, OnlyMoves, args, core, fail, loops, final
<1>9. ArgsInv' /\ CountInv' /\ EdgeInv'
  BY <1>3 DEF IInv, ArgsInv, CountInv, EdgeInv, Restricted, ScheduledIn, ScheduledOut,
              args, core, loops
<1>10. NodeInv'
  BY <1>1, <1>3 DEF IInv, NodeInv, Released, ToRelease, ScheduledOut, Restricted, args, core, loops
<1>11. WorkerInv'
  <2>1. n \notin finished
    BY <1>4, <1>7 DEF IInv, NodeInv, Settled
  <2>2. \A v \in Worker \ {w} : pc'[v] = pc[v]
    BY <1>5 DEF Thread
  <2>3. pushing[w] = NoNode
    BY <1>2 DEF IInv, WorkerInv
  <2>4. "begin" \in ActiveLabels /\ "begin" \in WorkerLabels
    BY DEF ActiveLabels, WorkerLabels
  <2> QED
    BY <1>3, <1>5, <1>6, <1>7, <2>1, <2>2, <2>3, <2>4
       DEF IInv, WorkerInv, SettledLabels, args, core, loops
<1>12. CallerInv'
  BY <1>2, <1>3, <1>5, OthersKeep, CallerUndisturbed DEF final
<1>13. ExecutedOnce'
  <2>1. \A v \in Worker : pc'[v] = "push" => pc[v] = "push" /\ v # w
    BY <1>5 DEF Thread
  <2>2. \A v \in Worker : pc[v] = "push" => pushing[v] # n
    BY <1>4 DEF IInv, ExecutedOnce
  <2> QED
    BY <1>1, <1>3, <1>4, <1>6, <1>7, <2>1, <2>2 DEF IInv, ExecutedOnce, core
<1> QED
  BY <1>8, <1>9, <1>10, <1>11, <1>12, <1>13 DEF IInv

\* The shape shared by the steps that start a node or settle it: the node goes
\* to a new outcome, its failure flag and slot follow, nothing else moves.
OutcomeMoves(w, what, next) ==
  /\ outcome' = [outcome EXCEPT ![cur[w]] = what]
  /\ failed' = [failed EXCEPT ![cur[w]] = what \in Bad]
  /\ results' \in [Node -> Slots]
  /\ \A n \in Node \ {cur[w]} : results'[n] = results[n]
  /\ what \in Settled => results'[cur[w]] # "null"
  /\ pc' = [pc EXCEPT ![w] = next]
  /\ failure_recorded' \in BOOLEAN
  /\ failed_node_id' \in Node \cup Outside \cup {NoNode}
  /\ UNCHANGED <<args, remaining, consumers_left, ready_heap, completed,
                 ready_mutex, cur, pushing, loops, finished, cancel_flag, final>>

LEMMA OutcomeStep ==
  ASSUME IInv, NEW w \in Worker, NEW what, NEW next,
         \/ pc[w] = "begin" /\ what = "running" /\ next = "work"
         \/ /\ pc[w] \in {"begin", "work"}
            /\ what \in Settled
            /\ next \in {"record", "settle"},
         OutcomeMoves(w, what, next)
  PROVE  IInv'
<1> DEFINE n == cur[w]
<1>1. n \in Node /\ n \in scheduled /\ remaining[n] = 0 /\ n \notin finished
      /\ outcome[n] \notin Settled
  BY DEF IInv, TypeOK, WorkerInv, ActiveLabels, Settled
<1>2. next \in WorkerLabels /\ next \in ActiveLabels \ {"begin", "push", "notify_all"}
      /\ pc[w] \in ActiveLabels \ {"push", "notify_all"}
  BY DEF WorkerLabels, ActiveLabels, SettledLabels
<1>3. OnlyMoves(w) /\ pc'[w] = next /\ \A t \in Thread \ {w} : pc'[t] = pc[t]
  BY <1>2, MoveOne DEF OutcomeMoves
<1>4. /\ outcome'[n] = what
      /\ \A m \in Node \ {n} : outcome'[m] = outcome[m] /\ failed'[m] = failed[m]
      /\ failed'[n] <=> what \in Bad
      /\ what # "none" /\ what \in Outcomes
  BY <1>1 DEF OutcomeMoves, IInv, TypeOK, Settled, Outcomes
<1>5. TypeOK'
  <2>1. /\ outcome' \in [Node -> Outcomes]
        /\ failed' \in [Node -> BOOLEAN]
    <3>1. outcome' \in [Node -> Outcomes]
      BY <1>4 DEF IInv, TypeOK, OutcomeMoves
    <3>2. (what \in Bad) \in BOOLEAN
      OBVIOUS
    <3>3. failed \in [Node -> BOOLEAN] /\ failed' = [failed EXCEPT ![cur[w]] = what \in Bad]
      BY DEF IInv, TypeOK, OutcomeMoves
    <3>4. failed' \in [Node -> BOOLEAN]
      BY <3>2, <3>3
    <3> QED
      BY <3>1, <3>4
  <2>2. pc' \in [Thread -> WorkerLabels \cup CallerLabels]
    BY <1>3 DEF OnlyMoves
  <2> QED
    BY <2>1, <2>2 DEF IInv, TypeOK, OutcomeMoves, args, loops, final
<1>6. ArgsInv' /\ CountInv'
  BY DEF OutcomeMoves, IInv, ArgsInv, CountInv, Restricted, ScheduledIn, ScheduledOut, args, loops
<1>7. EdgeInv'
  <2>1. \A e \in sent : From[e] \in Node /\ From[e] # n
    BY <1>1, GraphAssumption DEF IInv, TypeOK, EdgeInv
  <2>2. \A e \in freed : To[e] \in Node /\ To[e] # n
    BY <1>1, GraphAssumption DEF IInv, TypeOK, EdgeInv
  <2> QED
    BY <1>4, <2>1, <2>2 DEF OutcomeMoves, IInv, EdgeInv, Restricted, args, loops
<1>8. n \notin ready_heap /\ \A v \in Worker \ {w} : cur[v] # n
      /\ (pc[v] = "push" => pushing[v] # n)
  BY <1>1, ThreadAssumption DEF IInv, ExecutedOnce
<1>9. NodeInv'
  <2> SUFFICES ASSUME NEW m \in Node PROVE NodeInv!(m)'
    BY DEF NodeInv
  <2>1. CASE m = n
    <3>1. m \in scheduled' /\ remaining'[m] = 0 /\ m \notin finished' /\ m \notin ready_heap'
      BY <2>1, <1>1, <1>8 DEF OutcomeMoves, args
    <3> QED
      BY <2>1, <1>1, <1>4, <3>1 DEF OutcomeMoves
  <2>2. CASE m # n
    BY <2>2, <1>4 DEF IInv, NodeInv, OutcomeMoves, Released, ToRelease,
                      ScheduledOut, Restricted, args, loops
  <2> QED
    BY <2>1, <2>2
<1>10. WorkerInv'
  <2> SUFFICES ASSUME NEW v \in Worker PROVE WorkerInv!(v)'
    BY DEF WorkerInv
  <2>1. CASE v = w
    <3>1. pushing[w] = NoNode
      BY <1>2 DEF IInv, WorkerInv
    <3>2. next = "work" => what = "running"
      OBVIOUS
    <3>3. next \in SettledLabels => what \in Settled
      BY DEF SettledLabels
    <3> QED
      BY <2>1, <1>1, <1>2, <1>3, <1>4, <3>1, <3>2, <3>3 DEF WorkerInv, OutcomeMoves, args
  <2>2. CASE v # w
    <3>1. pc'[v] = pc[v]
      BY <2>2, <1>3 DEF Thread
    <3>2. pc[v] \in ActiveLabels => cur[v] \in Node \ {n}
      BY <2>2, <1>8 DEF IInv, WorkerInv, TypeOK
    <3>3. pc[v] = "push" => pushing[v] \in Node \ {n}
      BY <2>2, <1>8 DEF IInv, WorkerInv, TypeOK
    <3> QED
      BY <1>4, <3>1, <3>2, <3>3
         DEF IInv, WorkerInv, OutcomeMoves, ActiveLabels, SettledLabels, args
  <2> QED
    BY <2>1, <2>2
<1>11. CallerInv'
  BY <1>3, OthersKeep, CallerUndisturbed DEF OutcomeMoves
<1>12. ExecutedOnce'
  <2>1. \A v \in Worker : pc'[v] = "push" => pc[v] = "push" /\ v # w
    BY <1>2, <1>3 DEF Thread
  <2>2. \A v \in Worker : pc'[v] = "push" => pushing[v] \in Node \ {n}
    BY <1>8, <2>1 DEF IInv, WorkerInv, TypeOK
  <2>3. \A m \in ready_heap : m \in Node \ {n}
    BY <1>8 DEF IInv, TypeOK
  <2> QED
    BY <1>4, <2>1, <2>2, <2>3 DEF OutcomeMoves, IInv, ExecutedOnce
<1> QED
  BY <1>5, <1>6, <1>7, <1>9, <1>10, <1>11, <1>12 DEF IInv

LEMMA ExecuteBodyInv ==
  ASSUME IInv, NEW w \in Worker,
         \/ Skip(w) \/ ServeClean(w) \/ GatherInputs(w) \/ WorkReturns(w) \/ WorkThrows(w)
  PROVE  IInv'
<1> DEFINE n == cur[w]
<1>1. /\ failed \in [Node -> BOOLEAN] /\ results \in [Node -> Slots]
      /\ failure_recorded \in BOOLEAN /\ failed_node_id \in Node \cup Outside \cup {NoNode}
      /\ cur[w] \in Node \cup {NoNode}
  BY DEF IInv, TypeOK
<1>2. pc[w] \in {"begin", "work"} => n \in Node /\ failed[n] = FALSE
  BY <1>1 DEF IInv, TypeOK, WorkerInv, ActiveLabels, NodeInv, Bad
<1>3. /\ "skipped" \in Bad /\ "failed" \in Bad /\ "value" \notin Bad /\ "cached" \notin Bad
      /\ "running" \notin Bad /\ Bad \subseteq Settled
      /\ "running" \notin Settled /\ {"value", "cached"} \subseteq Settled
      /\ {"empty", "value", "cached"} \subseteq Slots
  BY DEF Bad, Settled, Slots
<1>4. CASE Skip(w)
  <2>1. OutcomeMoves(w, "skipped", "settle")
    BY <1>1, <1>2, <1>3, <1>4 DEF Skip, OutcomeMoves, fail
  <2> QED
    BY <2>1, <1>3, <1>4, OutcomeStep DEF Skip
<1>5. CASE ServeClean(w)
  <2>1. CASE n \in cache
    <3>1. /\ pc[w] = "begin" /\ pc' = [pc EXCEPT ![w] = "settle"]
          /\ failed' = [failed EXCEPT ![n] = FALSE]
          /\ results' = [results EXCEPT ![n] = "cached"]
          /\ outcome' = [outcome EXCEPT ![n] = "cached"]
          /\ failure_recorded' = failure_recorded
      BY <2>1, <1>1, <1>5 DEF ServeClean
    <3>2. UNCHANGED <<args, remaining, consumers_left, ready_heap, completed,
                      failed_node_id, ready_mutex, cur, pushing, loops, finished,
                      cancel_flag, final>>
      BY <1>5 DEF ServeClean
    <3>3. ("cached" \in Bad) = FALSE /\ n \in Node
      BY <3>1, <1>2, <1>3
    <3>4. OutcomeMoves(w, "cached", "settle")
      BY <3>1, <3>2, <3>3, <1>1, <1>3 DEF OutcomeMoves
    <3> QED
      BY <3>1, <3>4, <1>3, OutcomeStep
  <2>2. CASE n \notin cache
    <3>1. PICK next \in {"record", "settle"} : pc' = [pc EXCEPT ![w] = next]
      BY <2>2, <1>5 DEF ServeClean
    <3>2. OutcomeMoves(w, "failed", next)
      BY <2>2, <3>1, <1>1, <1>2, <1>3, <1>5 DEF ServeClean, OutcomeMoves
    <3> QED
      BY <3>2, <1>3, <1>5, OutcomeStep DEF ServeClean
  <2> QED
    BY <2>1, <2>2
<1>6. CASE GatherInputs(w)
  <2>1. OutcomeMoves(w, "running", "work")
    BY <1>1, <1>2, <1>3, <1>6 DEF GatherInputs, OutcomeMoves, core, fail
  <2> QED
    BY <2>1, <1>6, OutcomeStep DEF GatherInputs
<1>7. CASE WorkReturns(w)
  <2>1. OutcomeMoves(w, "value", "settle")
    BY <1>1, <1>2, <1>3, <1>7 DEF WorkReturns, OutcomeMoves, fail
  <2> QED
    BY <2>1, <1>3, <1>7, OutcomeStep DEF WorkReturns
<1>8. CASE WorkThrows(w)
  <2>1. PICK next \in {"record", "settle"} : pc' = [pc EXCEPT ![w] = next]
    BY <1>8 DEF WorkThrows
  <2>2. OutcomeMoves(w, "failed", next)
    BY <2>1, <1>1, <1>2, <1>3, <1>8 DEF WorkThrows, OutcomeMoves
  <2> QED
    BY <2>2, <1>3, <1>8, OutcomeStep DEF WorkThrows
<1> QED
  BY <1>4, <1>5, <1>6, <1>7, <1>8

-----------------------------------------------------------------------------
(* Steps after the node is settled. *)

LEMMA SettleMoveInv == ASSUME IInv, NEW w \in Worker, RecordFailure(w) \/ NotifyOne(w) PROVE IInv'
<1>1. UNCHANGED <<args, core, ready_heap, completed, failure_recorded, ready_mutex,
                  cur, pushing, loops, finished, cancel_flag, outcome, final>>
  BY DEF RecordFailure, NotifyOne, fail
<1>2. pc[w] \in {"record", "notify_one"}
  BY DEF RecordFailure, NotifyOne
<1>3. OnlyMoves(w) /\ pc'[w] = "settle"
  <2>1. CASE RecordFailure(w)
    BY <2>1, MoveOne DEF RecordFailure, WorkerLabels
  <2>2. CASE NotifyOne(w)
    <3>1. CASE {t \in Thread : pc[t] = "waiting"} = {}
      BY <2>2, <3>1, MoveOne DEF NotifyOne, WorkerLabels
    <3>2. CASE {t \in Thread : pc[t] = "waiting"} # {}
      <4>1. PICK t \in Thread : /\ pc[t] = "waiting"
                                /\ pc' = [pc EXCEPT ![w] = "settle", ![t] = "lock"]
        BY <2>2, <3>2 DEF NotifyOne
      <4>2. t # w
        BY <4>1, <1>2
      <4> QED
        BY <4>1, <4>2 DEF OnlyMoves, IInv, TypeOK, WorkerLabels, Thread
    <3> QED
      BY <3>1, <3>2
  <2> QED
    BY <2>1, <2>2
<1>4. ArgsInv' /\ CountInv' /\ EdgeInv' /\ NodeInv'
  BY <1>1, QuietStep
<1>5. failed_node_id' \in Node \cup Outside \cup {NoNode}
  BY <1>2 DEF RecordFailure, NotifyOne, fail, IInv, TypeOK
<1>6. TypeOK'
  BY <1>1, <1>3, <1>5 DEF IInv, TypeOK, OnlyMoves, args, core, loops, final
<1>7. WorkerInv'
  <2> SUFFICES ASSUME NEW v \in Worker PROVE WorkerInv!(v)'
    BY DEF WorkerInv
  <2>1. CASE v = w
    BY <2>1, <1>1, <1>2, <1>3
       DEF IInv, WorkerInv, ActiveLabels, SettledLabels, WorkerLabels, args, core
  <2>2. CASE v # w
    BY <2>2, <1>1, <1>3, OthersKeep DEF IInv, WorkerInv, ActiveLabels, SettledLabels, args, core
  <2> QED
    BY <2>1, <2>2
<1>8. CallerInv'
  BY <1>1, <1>2, <1>3, OthersKeep, CallerUndisturbed
<1>9. \A v \in Worker : pc'[v] = "push" => pc[v] = "push"
  BY <1>3, OthersKeep DEF ActiveLabels, SettledLabels
<1>10. ExecutedOnce'
  BY <1>1, <1>9 DEF IInv, ExecutedOnce
<1> QED
  BY <1>4, <1>6, <1>7, <1>8, <1>10 DEF IInv

\* The node a worker is done executing: scheduled, settled, not counted yet.
LEMMA HeldNode ==
  ASSUME IInv, NEW w \in Worker, pc[w] \in SettledLabels \ {"notify_all"}
  PROVE  /\ cur[w] \in Node /\ cur[w] \in scheduled /\ remaining[cur[w]] = 0
         /\ outcome[cur[w]] \in Settled /\ cur[w] \notin finished
         /\ pc[w] # "push" => pushing[w] = NoNode
BY DEF IInv, TypeOK, WorkerInv, ActiveLabels

LEMMA ReleaseSlotInv == ASSUME IInv, NEW w \in Worker, ReleaseSlot(w) PROVE IInv'
<1> DEFINE n == cur[w]
<1>1. PICK e \in ToRelease(n) \ freed :
        /\ freed' = freed \cup {e}
        /\ consumers_left' = [consumers_left EXCEPT ![From[e]] = @ - 1]
        /\ results' = IF consumers_left[From[e]] = 1
                      THEN [results EXCEPT ![From[e]] = "null"] ELSE results
  BY DEF LastConsumer, ReleaseSlot
<1> DEFINE dep == From[e]
<1>2. pc[w] = "settle"
      /\ UNCHANGED <<args, remaining, failed, ready_heap, completed, fail, ready_mutex,
                     pc, cur, pushing, sent, finished, cancel_flag, outcome, final>>
  BY DEF ReleaseSlot
<1>3. n \in Node /\ n \in scheduled /\ outcome[n] \in Settled
  BY <1>2, HeldNode DEF SettledLabels
<1>4. Restricted /\ e \in Edge /\ To[e] = n /\ dep \in scheduled \ sinks /\ dep \in Node
  BY <1>1, GraphAssumption DEF ToRelease, In
<1>5. e \in ScheduledOut(dep) \ freed
  BY <1>1, <1>3, <1>4 DEF ScheduledOut, Out
<1>6. /\ consumers_left[dep] \in Nat \ {0}
      /\ consumers_left[dep] = Cardinality(ScheduledOut(dep) \ freed)
      /\ consumers_left[dep] - 1 = Cardinality(ScheduledOut(dep) \ freed')
  <2>1. consumers_left[dep] = Cardinality(ScheduledOut(dep) \ freed)
    BY <1>4 DEF IInv, CountInv
  <2>2. IsFiniteSet(ScheduledOut(dep))
    BY FiniteEdges
  <2>3. /\ Cardinality(ScheduledOut(dep) \ (freed \cup {e})) = Cardinality(ScheduledOut(dep) \ freed) - 1
        /\ Cardinality(ScheduledOut(dep) \ freed) \in Nat \ {0}
    BY <1>5, <2>2, CrossOff
  <2> QED
    BY <1>1, <2>1, <2>3
<1>7. TypeOK'
  <2>1. consumers_left' \in [Node -> Nat]
    BY <1>1, <1>4, <1>6 DEF IInv, TypeOK
  <2>2. results' \in [Node -> Slots]
    BY <1>1, <1>4 DEF IInv, TypeOK, Slots
  <2>3. freed' \subseteq Edge
    BY <1>1, <1>4 DEF IInv, TypeOK
  <2> QED
    BY <1>2, <2>1, <2>2, <2>3 DEF IInv, TypeOK, args, fail, final
<1>8. \A m \in Node : ScheduledOut(m)' = ScheduledOut(m) /\ ScheduledIn(m)' = ScheduledIn(m)
  BY <1>2 DEF ScheduledOut, ScheduledIn, args
<1>9. CountInv'
  <2>1. \A m \in Node : consumers_left'[m] = Cardinality(ScheduledOut(m)' \ freed')
    <3> SUFFICES ASSUME NEW m \in Node
                 PROVE  consumers_left'[m] = Cardinality(ScheduledOut(m) \ freed')
      BY <1>8
    <3>1. CASE m = dep
      BY <3>1, <1>1, <1>6 DEF IInv, TypeOK
    <3>2. CASE m # dep
      <4>1. ScheduledOut(m) \ freed' = ScheduledOut(m) \ freed
        BY <3>2, <1>1, <1>4 DEF ScheduledOut, Out
      <4>2. consumers_left'[m] = consumers_left[m]
        BY <3>2, <1>1 DEF IInv, TypeOK
      <4> QED
        BY <4>1, <4>2 DEF IInv, CountInv
    <3> QED
      BY <3>1, <3>2
  <2> QED
    BY <1>2, <1>8, <2>1 DEF IInv, CountInv
<1>10. EdgeInv'
  <2>1. UNCHANGED <<sinks, scheduled, mode, sent, outcome>>
    BY <1>2 DEF args
  <2> QED
    BY <1>1, <1>3, <1>4, <2>1 DEF IInv, EdgeInv, Restricted
<1>11. NodeInv'
  <2> SUFFICES ASSUME NEW m \in Node PROVE NodeInv!(m)'
    BY DEF NodeInv
  <2>1. Released(m) => Released(m)'
    BY <1>1, <1>2, <1>8 DEF Released, Restricted, args
  <2>2. outcome[m] \in Settled => results'[m] # "null" \/ Released(m)'
    <3>1. CASE m = dep /\ consumers_left[dep] = 1
      <4>1. ScheduledOut(dep) \subseteq freed'
        BY <3>1, <1>6, AllCrossedOff, FiniteEdges
      <4> QED
        BY <3>1, <4>1, <1>2, <1>4, <1>8 DEF Released, Restricted, args
    <3>2. CASE ~(m = dep /\ consumers_left[dep] = 1)
      <4>1. results'[m] = results[m]
        BY <3>2, <1>1 DEF IInv, TypeOK
      <4> QED
        BY <4>1, <2>1 DEF IInv, NodeInv
    <3> QED
      BY <3>1, <3>2
  <2>3. ToRelease(m)' = ToRelease(m)
    BY <1>2 DEF ToRelease, Restricted, args
  <2> QED
    BY <1>1, <1>2, <1>8, <2>2, <2>3 DEF IInv, NodeInv, args
<1>12. ArgsInv' /\ WorkerInv' /\ ExecutedOnce'
  BY <1>2 DEF IInv, ArgsInv, WorkerInv, ExecutedOnce, Restricted, args
<1>13. CallerInv'
  BY <1>2 DEF IInv, CallerInv, total_to_run, args, final
<1> QED
  BY <1>7, <1>9, <1>10, <1>11, <1>12, <1>13 DEF IInv

LEMMA CountCompletedInv == ASSUME IInv, NEW w \in Worker, CountCompleted(w) PROVE IInv'
<1> DEFINE n == cur[w]
<1>1. /\ pc[w] = "settle" /\ pc' = [pc EXCEPT ![w] = "notify_all"]
      /\ ToRelease(n) \subseteq freed /\ ScheduledOut(n) \subseteq sent
      /\ completed' = completed + 1 /\ finished' = finished \cup {n}
      /\ UNCHANGED <<args, core, ready_heap, fail, ready_mutex, cur, pushing, loops,
                     cancel_flag, outcome, final>>
  BY DEF CountCompleted
<1>2. n \in Node /\ n \in scheduled /\ outcome[n] \in Settled /\ n \notin finished
      /\ remaining[n] = 0 /\ pushing[w] = NoNode
  BY <1>1, HeldNode DEF SettledLabels
<1>3. OnlyMoves(w) /\ pc'[w] = "notify_all" /\ \A t \in Thread \ {w} : pc'[t] = pc[t]
  BY <1>1, MoveOne DEF WorkerLabels
<1>4. finished \subseteq scheduled /\ IsFiniteSet(finished) /\ IsFiniteSet(scheduled)
  <2>1. finished \subseteq scheduled /\ scheduled \subseteq Node
    BY DEF IInv, NodeInv, TypeOK, Settled
  <2> QED
    BY <2>1, GraphAssumption, FS_Subset
<1>5. completed # total_to_run
  BY <1>2, <1>4, FS_Subset DEF IInv, CountInv, total_to_run
<1>6. TypeOK'
  BY <1>1, <1>2, <1>3 DEF IInv, TypeOK, OnlyMoves, args, core, fail, loops, final
<1>7. CountInv'
  <2>1. completed' = Cardinality(finished')
    BY <1>1, <1>2, <1>4, FS_AddElement DEF IInv, CountInv
  <2> QED
    BY <1>1, <2>1 DEF IInv, CountInv, ScheduledIn, ScheduledOut, args, core, loops
<1>8. ArgsInv' /\ EdgeInv'
  BY <1>1 DEF IInv, ArgsInv, EdgeInv, Restricted, args, loops
<1>9. NodeInv'
  BY <1>1, <1>2 DEF IInv, NodeInv, Released, ToRelease, ScheduledOut, Restricted, args, core, loops
<1>10. WorkerInv'
  <2> SUFFICES ASSUME NEW v \in Worker PROVE WorkerInv!(v)'
    BY DEF WorkerInv
  <2>1. CASE v = w
    BY <2>1, <1>1, <1>2, <1>3 DEF ActiveLabels, SettledLabels, WorkerLabels, args, core
  <2>2. CASE v # w
    <3>1. pc'[v] = pc[v]
      BY <2>2, <1>3 DEF Thread
    <3>2. cur[v] # n
      BY <2>2, <1>2, ThreadAssumption DEF IInv, ExecutedOnce
    <3> QED
      BY <1>1, <3>1, <3>2 DEF IInv, WorkerInv, args, core
  <2> QED
    BY <2>1, <2>2
<1>11. CallerInv'
  BY <1>1, <1>3, <1>5, OthersKeep, CallerUndisturbed
<1>12. \A v \in Worker : pc'[v] = "push" => pc[v] = "push"
  BY <1>3 DEF Thread
<1>13. ExecutedOnce'
  BY <1>1, <1>12 DEF IInv, ExecutedOnce
<1> QED
  BY <1>6, <1>7, <1>8, <1>9, <1>10, <1>11, <1>13 DEF IInv

LEMMA SignalSuccessorInv == ASSUME IInv, NEW w \in Worker, SignalSuccessor(w) PROVE IInv'
<1> DEFINE n == cur[w]
<1>1. PICK e \in ScheduledOut(n) \ sent :
        /\ sent' = sent \cup {e}
        /\ remaining' = [remaining EXCEPT ![To[e]] = @ - 1]
        /\ IF remaining[To[e]] = 1
           THEN /\ pushing' = [pushing EXCEPT ![w] = To[e]]
                /\ pc' = [pc EXCEPT ![w] = "push"]
           ELSE UNCHANGED <<pushing, pc>>
  BY DEF LastDependency, SignalSuccessor
<1> DEFINE succ == To[e]
<1>2. pc[w] = "settle"
      /\ UNCHANGED <<args, consumers_left, results, failed, ready_heap, completed, fail,
                     ready_mutex, cur, freed, finished, cancel_flag, outcome, final>>
  BY DEF SignalSuccessor
<1>3. n \in Node /\ n \in scheduled /\ outcome[n] \in Settled /\ n \notin finished
      /\ remaining[n] = 0 /\ pushing[w] = NoNode
  BY <1>2, HeldNode DEF SettledLabels
<1>4. e \in Edge /\ From[e] = n /\ succ \in scheduled /\ succ \in Node
  BY <1>1, GraphAssumption DEF ScheduledOut, Out
<1>5. e \in ScheduledIn(succ) \ sent
  BY <1>1, <1>3, <1>4 DEF ScheduledIn, In
<1>6. /\ remaining[succ] \in Nat \ {0}
      /\ remaining[succ] - 1 = Cardinality(ScheduledIn(succ) \ sent')
  <2>1. remaining[succ] = Cardinality(ScheduledIn(succ) \ sent)
    BY <1>4 DEF IInv, CountInv
  <2>2. IsFiniteSet(ScheduledIn(succ))
    BY FiniteEdges
  <2>3. /\ Cardinality(ScheduledIn(succ) \ (sent \cup {e})) = Cardinality(ScheduledIn(succ) \ sent) - 1
        /\ Cardinality(ScheduledIn(succ) \ sent) \in Nat \ {0}
    BY <1>5, <2>2, CrossOff
  <2> QED
    BY <1>1, <2>1, <2>3
\* Nobody is busy with the successor yet: its counter is not zero.
<1>7. /\ succ \notin ready_heap /\ outcome[succ] = "none" /\ succ \notin finished
      /\ \A v \in Worker : cur[v] # succ /\ (pc[v] = "push" => pushing[v] # succ)
  <2>1. remaining[succ] # 0
    BY <1>6
  <2>2. \A v \in Worker : cur[v] # succ
    BY <1>4, <2>1, ThreadAssumption DEF IInv, WorkerInv
  <2>3. \A v \in Worker : pc[v] = "push" => pushing[v] # succ
    BY <2>1 DEF IInv, WorkerInv
  <2>4. succ \notin ready_heap /\ outcome[succ] = "none" /\ succ \notin finished
    BY <1>4, <2>1 DEF IInv, NodeInv, Settled
  <2> QED
    BY <2>2, <2>3, <2>4
<1>8. /\ remaining' \in [Node -> Nat]
      /\ remaining'[succ] = remaining[succ] - 1
      /\ \A m \in Node \ {succ} : remaining'[m] = remaining[m]
  BY <1>1, <1>4, <1>6 DEF IInv, TypeOK
<1>9. /\ OnlyMoves(w)
      /\ \A t \in Thread \ {w} : pc'[t] = pc[t]
      /\ \/ /\ pc'[w] = "push" /\ pushing'[w] = succ /\ remaining'[succ] = 0
         \/ /\ pc'[w] = "settle" /\ pushing'[w] = NoNode
  <2>1. CASE remaining[succ] = 1
    BY <2>1, <1>1, <1>8, MoveOne DEF WorkerLabels, IInv, TypeOK
  <2>2. CASE remaining[succ] # 1
    BY <2>2, <1>1, <1>2, <1>3 DEF OnlyMoves, IInv, TypeOK
  <2> QED
    BY <2>1, <2>2
<1>10. pushing' \in [Worker -> Node \cup {NoNode}]
       /\ \A v \in Worker \ {w} : pushing'[v] = pushing[v] /\ pc'[v] = pc[v]
  BY <1>1, <1>4 DEF IInv, TypeOK, Thread
<1>11. TypeOK'
  <2>1. sent' \subseteq Edge
    BY <1>1, <1>4 DEF IInv, TypeOK
  <2>2. pc' \in [Thread -> WorkerLabels \cup CallerLabels]
    BY <1>9 DEF OnlyMoves
  <2> QED
    BY <1>2, <1>8, <1>10, <2>1, <2>2 DEF IInv, TypeOK, args, fail, final
<1>12. CountInv'
  <2>1. \A m \in Node : remaining'[m] = Cardinality(ScheduledIn(m) \ sent')
    <3> SUFFICES ASSUME NEW m \in Node PROVE remaining'[m] = Cardinality(ScheduledIn(m) \ sent')
      OBVIOUS
    <3>1. CASE m = succ
      BY <3>1, <1>6, <1>8
    <3>2. CASE m # succ
      <4>1. ScheduledIn(m) \ sent' = ScheduledIn(m) \ sent
        BY <3>2, <1>1 DEF ScheduledIn, In
      <4> QED
        BY <3>2, <4>1, <1>8 DEF IInv, CountInv
    <3> QED
      BY <3>1, <3>2
  <2>2. \A m \in Node : ScheduledOut(m)' = ScheduledOut(m) /\ ScheduledIn(m)' = ScheduledIn(m)
    BY <1>2 DEF ScheduledOut, ScheduledIn, args
  <2> QED
    BY <1>2, <2>1, <2>2 DEF IInv, CountInv
<1>13. EdgeInv'
  <2>1. UNCHANGED <<sinks, scheduled, mode, freed, outcome>>
    BY <1>2 DEF args
  <2> QED
    BY <1>1, <1>3, <1>4, <2>1 DEF IInv, EdgeInv, Restricted
<1>14. NodeInv'
  <2> SUFFICES ASSUME NEW m \in Node PROVE NodeInv!(m)'
    BY DEF NodeInv
  <2>1. /\ UNCHANGED <<sinks, scheduled, mode, results, failed, ready_heap, freed, finished, outcome>>
        /\ ToRelease(m)' = ToRelease(m) /\ ScheduledOut(m)' = ScheduledOut(m)
        /\ Released(m)' <=> Released(m)
    BY <1>2 DEF args, ToRelease, ScheduledOut, Released, Restricted
  <2>2. m \in ready_heap \/ outcome[m] # "none" => remaining'[m] = remaining[m]
    BY <1>7, <1>8
  <2> QED
    BY <1>1, <2>1, <2>2 DEF IInv, NodeInv
<1>15. WorkerInv'
  <2> SUFFICES ASSUME NEW v \in Worker PROVE WorkerInv!(v)'
    BY DEF WorkerInv
  <2>1. UNCHANGED <<scheduled, cur, finished, outcome>>
    BY <1>2 DEF args
  <2>2. CASE v = w
    <3>1. remaining'[n] = 0
      BY <1>3, <1>7, <1>8
    <3>2. {"push", "settle"} \subseteq WorkerLabels \cap SettledLabels /\ SettledLabels \subseteq ActiveLabels
      BY DEF WorkerLabels, ActiveLabels, SettledLabels
    <3> QED
      BY <2>1, <2>2, <3>1, <3>2, <1>3, <1>4, <1>7, <1>9
  <2>3. CASE v # w
    <3>1. cur[v] # succ /\ (pc[v] = "push" => pushing[v] # succ)
      BY <1>7
    <3>2. cur[v] \in Node \cup {NoNode} /\ pushing[v] \in Node \cup {NoNode} /\ scheduled \subseteq Node
      BY DEF IInv, TypeOK
    <3>3. cur[v] \in Node => remaining'[cur[v]] = remaining[cur[v]]
      BY <3>1, <1>8
    <3>4. pc[v] = "push" /\ pushing[v] \in Node => remaining'[pushing[v]] = remaining[pushing[v]]
      BY <3>1, <1>8
    <3> QED
      BY <2>1, <2>3, <3>2, <3>3, <3>4, <1>10 DEF IInv, WorkerInv
  <2> QED
    BY <2>2, <2>3
<1>16. CallerInv'
  BY <1>2, <1>9, OthersKeep, CallerUndisturbed
<1>17. ExecutedOnce'
  <2>1. UNCHANGED <<ready_heap, cur, outcome>>
    BY <1>2
  <2>2. \A v \in Worker : pc'[v] = "push" =>
          (v = w /\ pushing'[v] = succ) \/ (v # w /\ pc[v] = "push" /\ pushing'[v] = pushing[v])
    BY <1>9, <1>10
  <2>3. \A v \in Worker : pushing'[v] \in {NoNode, succ} \/ pushing'[v] = pushing[v]
    BY <1>9, <1>10
  <2>4. \A v \in Worker : pushing[v] # succ /\ succ # NoNode
    BY <1>4, <1>7, ThreadAssumption DEF IInv, WorkerInv
  <2>5. \A v \in Worker : pc[v] = "push" => pushing[v] # NoNode
    BY ThreadAssumption DEF IInv, WorkerInv, TypeOK
  <2> QED
    BY <2>1, <2>2, <2>3, <2>4, <2>5, <1>7, <1>9, <1>10 DEF IInv, ExecutedOnce
<1>18. ArgsInv'
  BY <1>2 DEF IInv, ArgsInv, Restricted, args
<1> QED
  BY <1>11, <1>12, <1>13, <1>14, <1>15, <1>16, <1>17, <1>18 DEF IInv

LEMMA PushReadyInv == ASSUME IInv, NEW w \in Worker, PushReady(w) PROVE IInv'
<1> DEFINE p == pushing[w]
<1>1. /\ pc[w] = "push" /\ pc' = [pc EXCEPT ![w] = "notify_one"]
      /\ ready_heap' = ready_heap \cup {p}
      /\ pushing' = [pushing EXCEPT ![w] = NoNode]
      /\ UNCHANGED <<args, core, completed, fail, ready_mutex, cur, loops, finished,
                     cancel_flag, outcome, final>>
  BY DEF PushReady
<1>2. p \in scheduled /\ p \in Node /\ remaining[p] = 0 /\ outcome[p] = "none"
      /\ \A v \in Worker : cur[v] # p /\ (v # w => pushing[v] # p)
  BY <1>1 DEF IInv, TypeOK, WorkerInv, ExecutedOnce
<1>3. OnlyMoves(w) /\ pc'[w] = "notify_one" /\ \A t \in Thread \ {w} : pc'[t] = pc[t]
  BY <1>1, MoveOne DEF WorkerLabels
<1>4. /\ pushing' \in [Worker -> Node \cup {NoNode}]
      /\ pushing'[w] = NoNode
      /\ \A v \in Worker \ {w} : pushing'[v] = pushing[v] /\ pc'[v] = pc[v]
  BY <1>1, <1>3 DEF IInv, TypeOK, Thread
<1>5. TypeOK'
  BY <1>1, <1>2, <1>3, <1>4 DEF IInv, TypeOK, OnlyMoves, args, core, fail, loops, final
<1>6. ArgsInv' /\ CountInv' /\ EdgeInv'
  BY <1>1 DEF IInv, ArgsInv, CountInv, EdgeInv, Restricted, ScheduledIn, ScheduledOut,
              args, core, loops
<1>7. NodeInv'
  BY <1>1, <1>2 DEF IInv, NodeInv, Released, ToRelease, ScheduledOut, Restricted, args, core, loops
<1>8. WorkerInv'
  <2> SUFFICES ASSUME NEW v \in Worker PROVE WorkerInv!(v)'
    BY DEF WorkerInv
  <2>1. UNCHANGED <<scheduled, remaining, cur, finished, outcome>>
    BY <1>1 DEF args, core
  <2>2. CASE v = w
    BY <2>1, <2>2, <1>1, <1>3, <1>4
       DEF IInv, WorkerInv, WorkerLabels, ActiveLabels, SettledLabels
  <2>3. CASE v # w
    BY <2>1, <2>3, <1>4 DEF IInv, WorkerInv
  <2> QED
    BY <2>2, <2>3
<1>9. CallerInv'
  BY <1>1, <1>3, OthersKeep, CallerUndisturbed
<1>10. ExecutedOnce'
  <2>1. \A v \in Worker : pc'[v] = "push" => v # w /\ pc[v] = "push"
    BY <1>3, <1>4
  <2>2. p # NoNode /\ \A v \in Worker : pc[v] = "push" => pushing[v] # NoNode
    BY <1>2, ThreadAssumption DEF IInv, WorkerInv, TypeOK
  <2>3. UNCHANGED <<cur, outcome>>
    BY <1>1
  <2> QED
    BY <2>1, <2>2, <2>3, <1>1, <1>2, <1>4 DEF IInv, ExecutedOnce
<1> QED
  BY <1>5, <1>6, <1>7, <1>8, <1>9, <1>10 DEF IInv

LEMMA FinishNotifyInv == ASSUME IInv, NEW w \in Worker, FinishNotify(w) PROVE IInv'
<1>1. /\ pc[w] = "notify_all" /\ NotifyAll(w, "lock")
      /\ cur' = [cur EXCEPT ![w] = NoNode]
      /\ UNCHANGED <<args, core, ready_heap, completed, fail, ready_mutex, pushing, loops,
                     finished, cancel_flag, outcome, final>>
  BY DEF FinishNotify
<1>2. OnlyMoves(w) /\ pc'[w] = "lock"
  BY <1>1 DEF NotifyAll, OnlyMoves, IInv, TypeOK, Thread, WorkerLabels, CallerLabels
<1>3. /\ cur' \in [Worker -> Node \cup {NoNode}]
      /\ cur'[w] = NoNode
      /\ \A v \in Worker \ {w} : cur'[v] = cur[v]
  BY <1>1 DEF IInv, TypeOK
<1>4. TypeOK'
  BY <1>1, <1>2, <1>3 DEF IInv, TypeOK, OnlyMoves, args, core, fail, loops, final
<1>5. ArgsInv' /\ CountInv' /\ EdgeInv' /\ NodeInv'
  BY <1>1, QuietStep
<1>6. WorkerInv'
  <2> SUFFICES ASSUME NEW v \in Worker PROVE WorkerInv!(v)'
    BY DEF WorkerInv
  <2>1. UNCHANGED <<scheduled, remaining, pushing, finished, outcome>>
    BY <1>1 DEF args, core
  <2>2. CASE v = w
    <3>1. NoNode \notin finished
      BY ThreadAssumption DEF IInv, TypeOK
    <3>2. pushing[w] = NoNode
      BY <1>1 DEF IInv, WorkerInv
    <3> QED
      BY <2>1, <2>2, <3>1, <3>2, <1>2, <1>3 DEF WorkerLabels, ActiveLabels, SettledLabels
  <2>3. CASE v # w
    BY <2>1, <2>3, <1>2, <1>3, OthersKeep DEF IInv, WorkerInv, ActiveLabels, SettledLabels
  <2> QED
    BY <2>2, <2>3
<1>7. CallerInv'
  BY <1>1, <1>2, OthersKeep, CallerUndisturbed
<1>8. ExecutedOnce'
  <2>1. \A v \in Worker : pc'[v] = "push" => v # w /\ pc[v] = "push"
    BY <1>2, OthersKeep DEF ActiveLabels, SettledLabels
  <2>2. \A v \in Worker : pc[v] = "push" => pushing[v] # NoNode
    BY ThreadAssumption DEF IInv, WorkerInv, TypeOK
  <2>3. UNCHANGED <<ready_heap, pushing, outcome>> /\ NoNode \notin ready_heap
    BY <1>1, ThreadAssumption DEF IInv, TypeOK
  <2>4. \A v \in Worker : cur'[v] \in {cur[v], NoNode}
    BY <1>3
  <2> QED
    BY <2>1, <2>2, <2>3, <2>4, <1>3 DEF IInv, ExecutedOnce
<1> QED
  BY <1>4, <1>5, <1>6, <1>7, <1>8 DEF IInv

LEMMA SeedInv == ASSUME IInv, Seed PROVE IInv'
<1>1. /\ pc[Caller] = "seed" /\ pc' = [pc EXCEPT ![Caller] = "spawn"]
      /\ ready_heap' = {n \in scheduled : remaining[n] = 0}
      /\ UNCHANGED <<args, core, completed, fail, ready_mutex, cur, pushing, loops,
                     finished, cancel_flag, outcome, final>>
  BY DEF SourceNodes, Seed
<1>2. /\ pc' \in [Thread -> WorkerLabels \cup CallerLabels]
      /\ pc'[Caller] = "spawn"
      /\ \A w \in Worker : pc'[w] = "idle"
  BY <1>1, ThreadAssumption DEF IInv, TypeOK, CallerInv, Thread, CallerLabels
<1>3. \A n \in Node : outcome[n] = "none"
  BY <1>1 DEF IInv, CallerInv
<1>4. \A w \in Worker : cur[w] = NoNode /\ pushing[w] = NoNode /\ NoNode \notin finished
  BY <1>1, ThreadAssumption
     DEF IInv, CallerInv, WorkerInv, ActiveLabels, SettledLabels, TypeOK
<1>5. ready_heap' \subseteq Node
  BY <1>1 DEF IInv, TypeOK
<1>6. TypeOK'
  BY <1>1, <1>2, <1>5 DEF IInv, TypeOK, args, core, fail, loops, final
<1>7. ArgsInv' /\ CountInv' /\ EdgeInv'
  BY <1>1 DEF IInv, ArgsInv, CountInv, EdgeInv, Restricted, ScheduledIn, ScheduledOut,
              args, core, loops
<1>8. NodeInv'
  BY <1>1, <1>3 DEF IInv, NodeInv, Released, ToRelease, ScheduledOut, Restricted, args, core, loops
<1>9. WorkerInv'
  BY <1>1, <1>2, <1>4 DEF WorkerInv, WorkerLabels, ActiveLabels, SettledLabels
<1>10. CallerInv'
  BY <1>1, <1>2 DEF IInv, CallerInv, CallerLabels, final, args, Seed, ValidSinks
<1>11. ExecutedOnce'
  BY <1>1, <1>2, <1>3, <1>4, <1>5, ThreadAssumption DEF ExecutedOnce
<1> QED
  BY <1>6, <1>7, <1>8, <1>9, <1>10, <1>11 DEF IInv

-----------------------------------------------------------------------------
(* The invariant and what follows from it. *)

LEMMA StepInv == IInv /\ [Next]_vars => IInv'
<1> SUFFICES ASSUME IInv, [Next]_vars PROVE IInv'
  OBVIOUS
<1>1. CASE CallerStep
  BY <1>1, RefuseInv, SeedInv, SpawnInv, CallerProceedInv, CallerWakeInv, ReturnStep, WaitingInv
     DEF CallerStep, Thread
<1>2. ASSUME NEW w \in Worker, WorkerStep(w) PROVE IInv'
  <2>1. CASE ExecuteNode(w)
    BY <2>1, ExecuteBodyInv, SettleMoveInv, ReleaseSlotInv, SignalSuccessorInv,
       PushReadyInv, CountCompletedInv, FinishNotifyInv DEF ExecuteNode
  <2> QED
    BY <1>2, <2>1, TaskInv, PopReadyInv, WaitingInv DEF WorkerStep, Thread
<1>3. ASSUME NEW t \in Thread, SpuriousWake(t) PROVE IInv'
  BY <1>3, WaitingInv
<1>4. CASE Cancel
  BY <1>4, CancelInv
<1>5. CASE UNCHANGED vars
  <2>1. UNCHANGED <<args, core, ready_heap, completed, fail, ready_mutex, pc, cur,
                    pushing, loops, finished, cancel_flag, outcome, final>>
    BY <1>5 DEF vars
  <2>2. UNCHANGED <<mode, sinks, scheduled, cache, dirty, remaining, consumers_left,
                    results, failed, failure_recorded, failed_node_id, freed, sent,
                    out_results, status>>
    BY <2>1 DEF args, core, fail, loops, final
  <2>3. ArgsInv' /\ CountInv' /\ EdgeInv' /\ NodeInv'
    BY <2>1, QuietStep
  <2>4. TypeOK' /\ WorkerInv' /\ CallerInv' /\ ExecutedOnce'
    BY <2>1, <2>2 DEF IInv, TypeOK, WorkerInv, CallerInv, ExecutedOnce, total_to_run
  <2> QED
    BY <2>3, <2>4 DEF IInv
<1> QED
  BY <1>1, <1>2, <1>3, <1>4, <1>5 DEF Next, Finished

\* For every graph and every number of workers, each state of a run satisfies
\* the inductive invariant: remaining and consumers_left count exactly the edges
\* still to be signalled and released.
THEOREM Invariance == Spec => []IInv
<1> QED
  BY InitInv, StepInv, PTL DEF Spec

\* The variables of a run keep their types; in particular no unsigned counter
\* of run_state is ever decremented below zero.
THEOREM TypeCorrect == Spec => []TypeOK
<1>1. IInv => TypeOK
  BY DEF IInv
<1> QED
  BY <1>1, Invariance, PTL

\* No node is executed twice or by two workers, and none is queued twice.
THEOREM NodesExecutedOnce == Spec => []ExecutedOnce
<1>1. IInv => ExecutedOnce
  BY DEF IInv
<1> QED
  BY <1>1, Invariance, PTL

\* A node runs only once every dependency is settled, and it then finds every
\* dependency's slot filled: run_to's early release never frees a slot that a
\* consumer still has to read.
THEOREM InputsAlwaysReady == Spec => []InputsReady
<1>1. IInv => InputsReady
  <2> SUFFICES ASSUME IInv, NEW w \in Worker, pc[w] = "begin", NEW e \in In(cur[w])
               PROVE  outcome[From[e]] \in Settled /\ results[From[e]] # "null"
    BY DEF InputsReady
  <2>1. cur[w] \in scheduled /\ remaining[cur[w]] = 0 /\ outcome[cur[w]] = "none"
    BY DEF IInv, WorkerInv, ActiveLabels
  <2>2. outcome[From[e]] \in Settled
    BY <2>1, ZeroMeansSettled
  <2>3. e \in Edge /\ To[e] = cur[w] /\ From[e] \in Node
    BY GraphAssumption DEF In
  <2>4. e \notin freed
    BY <2>1, <2>3 DEF IInv, EdgeInv, Settled
  <2>5. ~Released(From[e])
    BY <2>1, <2>3, <2>4 DEF Released, ScheduledOut, Out
  <2> QED
    BY <2>2, <2>3, <2>5 DEF IInv, NodeInv
<1> QED
  BY <1>1, Invariance, PTL

\* When the run returns every scheduled node is settled and every worker task
\* has ended, so none can touch run_state after it is destroyed.
THEOREM ReturnsLast == Spec => []ReturnsAfterAll
<1>1. IInv => ReturnsAfterAll
  <2> SUFFICES ASSUME IInv, status # "running"
               PROVE  /\ \A n \in scheduled : outcome[n] \in Settled
                      /\ \A w \in Worker :
                           pc[w] = IF sinks \subseteq Node THEN "exited" ELSE "idle"
    BY DEF ReturnsAfterAll
  <2>1. /\ completed = total_to_run
        /\ \A w \in Worker : pc[w] = IF sinks \subseteq Node THEN "exited" ELSE "idle"
    BY DEF IInv, CallerInv
  <2>2. finished \subseteq scheduled /\ scheduled \subseteq Node
    BY DEF IInv, NodeInv, TypeOK, Settled
  <2>3. IsFiniteSet(scheduled)
    BY <2>2, GraphAssumption, FS_Subset
  <2>4. Cardinality(finished) = Cardinality(scheduled)
    BY <2>1 DEF IInv, CountInv, total_to_run
  <2>5. finished = scheduled
    BY <2>2, <2>3, <2>4, FS_Subset
  <2> QED
    BY <2>1, <2>2, <2>5 DEF IInv, NodeInv
<1> QED
  BY <1>1, Invariance, PTL

-----------------------------------------------------------------------------
(* The promise: FateInv of GraphExecutorInv is an invariant of the         *)
(* executor, for every graph and every pool of workers, and with it the    *)
(* executor implements GraphRun: what the caller is told of a run is what  *)
(* became of its nodes.                                                    *)

Good == {"value", "cached"}

-----------------------------------------------------------------------------
(* The order of the graph. *)

\* A node starts only after its dependencies are settled.
LEMMA DependentsWait ==
  ASSUME IInv, NEW e \in Edge, outcome[To[e]] # "none"
  PROVE  outcome[From[e]] \in Settled
<1>1. To[e] \in Node /\ e \in In(To[e])
  BY GraphAssumption DEF In
<1>2. To[e] \in scheduled /\ remaining[To[e]] = 0
  BY <1>1 DEF IInv, NodeInv
<1> QED
  BY <1>1, <1>2, ZeroMeansSettled

\* A node a worker has popped and not settled: its dependencies are settled,
\* none of its dependents has started.
LEMMA StartedNode ==
  ASSUME IInv, NEW w \in Worker, pc[w] \in {"begin", "work"}
  PROVE  /\ cur[w] \in Node /\ cur[w] \in scheduled
         /\ outcome[cur[w]] = IF pc[w] = "begin" THEN "none" ELSE "running"
         /\ \A e \in In(cur[w]) : /\ e \in Edge /\ From[e] \in Node
                                  /\ outcome[From[e]] \in Settled
                                  /\ failed[From[e]] <=> outcome[From[e]] \in Bad
         /\ \A e \in Edge : From[e] = cur[w] => outcome[To[e]] = "none"
<1>1. cur[w] \in Node /\ cur[w] \in scheduled /\ remaining[cur[w]] = 0
      /\ outcome[cur[w]] = IF pc[w] = "begin" THEN "none" ELSE "running"
  BY DEF IInv, TypeOK, WorkerInv, ActiveLabels
<1>2. \A e \in In(cur[w]) : outcome[From[e]] \in Settled
  BY <1>1, ZeroMeansSettled
<1>3. \A e \in In(cur[w]) : e \in Edge /\ From[e] \in Node
  BY GraphAssumption DEF In
<1>4. \A m \in Node : failed[m] <=> outcome[m] \in Bad
  BY DEF IInv, NodeInv
<1>5. \A e \in Edge : From[e] = cur[w] => outcome[To[e]] = "none"
  BY <1>1, DependentsWait DEF Settled
<1> QED
  BY <1>1, <1>2, <1>3, <1>4, <1>5

\* Once the run has returned every scheduled node has been counted.
LEMMA AllFinished ==
  ASSUME IInv, pc[Caller] \in {"wake", "join", "returned"}
  PROVE  finished = scheduled /\ \A n \in scheduled : outcome[n] \in Settled
<1>1. completed = total_to_run
  BY DEF IInv, CallerInv
<1>2. finished \subseteq scheduled /\ scheduled \subseteq Node
  BY DEF IInv, NodeInv, TypeOK, Settled
<1>3. IsFiniteSet(scheduled)
  BY <1>2, GraphAssumption, FS_Subset
<1>4. Cardinality(finished) = Cardinality(scheduled)
  BY <1>1 DEF IInv, CountInv, total_to_run
<1>5. finished = scheduled
  BY <1>2, <1>3, <1>4, FS_Subset
<1> QED
  BY <1>2, <1>5 DEF IInv, NodeInv

\* In an acyclic graph, skipped nodes go back to one that failed, unless the
\* run was cancelled.
LEMMA SkippedNeedsFailed ==
  ASSUME FailurePropagates, ~cancel_flag, NEW n \in Node, outcome[n] = "skipped"
  PROVE  \E m \in Node : outcome[m] = "failed"
<1> DEFINE S == {m \in Node : outcome[m] = "skipped"}
<1>1. PICK m \in S : \A e \in Edge : To[e] = m => From[e] \notin S
  BY AcyclicAssumption
<1>2. PICK e \in In(m) : outcome[From[e]] \in Bad
  BY <1>1 DEF FailurePropagates
<1>3. e \in Edge /\ To[e] = m /\ From[e] \in Node
  BY GraphAssumption DEF In
<1>4. outcome[From[e]] # "skipped"
  BY <1>1, <1>3
<1> QED
  BY <1>2, <1>3, <1>4 DEF Bad

-----------------------------------------------------------------------------
(* Initial states. *)

LEMMA InitFate == Init => FateInv
<1> SUFFICES ASSUME Init PROVE FateInv
  OBVIOUS
<1> USE DEF Init, InitArgs, InitRunState
<1>1. ASSUME Restricted, NEW n \in scheduled \ sinks PROVE ScheduledOut(n) # {}
  <2>1. sinks \subseteq Node /\ scheduled = Ancestors(sinks)
    BY <1>1
  <2>2. ClosedUpward(scheduled) /\ sinks \subseteq scheduled /\ scheduled \subseteq Node
    BY <2>1, GraphAssumption DEF Ancestors, ClosedUpward
  <2> SUFFICES ASSUME ScheduledOut(n) = {} PROVE FALSE
    OBVIOUS
  <2>3. ClosedUpward(scheduled \ {n})
    BY <2>2 DEF ClosedUpward, ScheduledOut, Out
  <2>4. n \in scheduled \ {n}
    BY <1>1, <2>1, <2>2, <2>3 DEF Ancestors
  <2> QED
    BY <2>4
<1>2. ASSUME Incremental PROVE ClosedDownward(dirty) /\ Node \ cache \subseteq dirty
  <2>1. PICK seeds \in SUBSET Node : Node \ cache \subseteq seeds /\ dirty = Descendants(seeds)
    <3>1. PICK moved \in SUBSET Node : dirty = Descendants(moved \cup (Node \ cache))
      BY <1>2
    <3> QED
      BY <3>1
  <2> QED
    BY <2>1, GraphAssumption DEF Descendants, ClosedDownward
<1>3. ChoiceInv
  BY <1>1, <1>2 DEF ChoiceInv
<1>4. OutcomeInv
  BY DEF OutcomeInv, FailurePropagates
<1>5. SlotInv
  BY DEF SlotInv
<1>6. BlameInv
  BY ThreadAssumption DEF BlameInv, Thread
<1>7. ReturnInv /\ ReadyNodeHasWorker
  BY DEF ReturnInv, ReadyNodeHasWorker
<1> QED
  BY <1>3, <1>4, <1>5, <1>6, <1>7 DEF FateInv

-----------------------------------------------------------------------------
(* One part of FateInv at a time: what leaves it alone. *)

LEMMA ChoiceKept == ASSUME ChoiceInv, UNCHANGED args PROVE ChoiceInv'
BY DEF ChoiceInv, Restricted, Incremental, ScheduledOut, args

LEMMA OutcomeKept ==
  ASSUME OutcomeInv, UNCHANGED <<args, outcome>>, cancel_flag => cancel_flag'
  PROVE  OutcomeInv'
BY DEF OutcomeInv, FailurePropagates, Incremental, args

LEMMA SlotKept ==
  ASSUME SlotInv, UNCHANGED <<args, results, freed, outcome>>
  PROVE  SlotInv'
BY DEF SlotInv, Released, ScheduledOut, Restricted, SlotOf, args

LEMMA BlameKept ==
  ASSUME BlameInv, UNCHANGED <<args, fail, outcome>>,
         \A w \in Worker : /\ pc'[w] = "record" <=> pc[w] = "record"
                           /\ pc[w] = "record" => cur'[w] = cur[w]
  PROVE  BlameInv'
BY DEF BlameInv, fail, args

\* Nothing but Return and Refuse ends the run.
LEMMA ReturnKept == ASSUME status' = "running" PROVE ReturnInv'
BY DEF ReturnInv

LEMMA StillRunning ==
  ASSUME IInv
  PROVE  /\ pc[Caller] # "returned" => status = "running"
         /\ \A w \in Worker : pc[w] \notin {"idle", "exited"} => status = "running"
BY DEF IInv, CallerInv, TypeOK

Asleep == {"block", "waiting", "exited"}

\* A worker that is awake after the step keeps the promise by itself.
LEMMA AwakeByWorker ==
  ASSUME NEW w \in Worker, pc'[w] \notin Asleep
  PROVE  ReadyNodeHasWorker'
BY DEF ReadyNodeHasWorker, Asleep

LEMMA AwakeKept ==
  ASSUME ReadyNodeHasWorker, UNCHANGED ready_heap,
         pc[Caller] \notin {"seed", "spawn"},
         \A w \in Worker : pc[w] \notin Asleep => pc'[w] \notin Asleep
  PROVE  ReadyNodeHasWorker'
BY DEF ReadyNodeHasWorker, Asleep

\* The steps that move no node: four parts of FateInv stay as they are.
LEMMA StillFate ==
  ASSUME IInv, FateInv,
         UNCHANGED <<args, results, fail, freed, outcome>>,
         cancel_flag => cancel_flag',
         \A w \in Worker : /\ pc'[w] = "record" <=> pc[w] = "record"
                           /\ pc[w] = "record" => cur'[w] = cur[w]
  PROVE  ChoiceInv' /\ OutcomeInv' /\ SlotInv' /\ BlameInv'
BY ChoiceKept, OutcomeKept, SlotKept, BlameKept DEF FateInv

-----------------------------------------------------------------------------
(* Steps that move threads only. *)

LEMMA CallerFate ==
  ASSUME IInv, FateInv, Seed \/ (\E w \in Worker : Spawn(w)) \/ CallerProceed \/ CallerWake
  PROVE  FateInv'
<1>1. /\ UNCHANGED <<args, results, fail, freed, outcome, cancel_flag, cur, status>>
      /\ pc[Caller] # "returned"
  BY DEF Seed, Spawn, CallerProceed, CallerWake, core, loops, final
<1>2. \A w \in Worker : pc'[w] = "record" <=> pc[w] = "record"
  BY ThreadAssumption
     DEF Seed, Spawn, CallerProceed, CallerWake, NotifyAll, IInv, TypeOK, Thread
<1>3. ChoiceInv' /\ OutcomeInv' /\ SlotInv' /\ BlameInv' /\ ReturnInv'
  BY <1>1, <1>2, StillFate, ReturnKept, StillRunning
<1>4. ReadyNodeHasWorker'
  <2>1. CASE Seed
    BY <2>1, ThreadAssumption DEF Seed, ReadyNodeHasWorker, IInv, TypeOK, Thread
  <2>2. ASSUME NEW w \in Worker, Spawn(w) PROVE ReadyNodeHasWorker'
    <3>1. pc'[w] = "queued"
      BY <2>2, ThreadAssumption DEF Spawn, IInv, TypeOK, Thread
    <3> QED
      BY <3>1, AwakeByWorker DEF Asleep
  <2>3. CASE CallerProceed \/ CallerWake
    <3>1. UNCHANGED ready_heap /\ pc[Caller] \notin {"seed", "spawn"}
      BY <2>3 DEF CallerProceed, CallerWake
    <3>2. \A w \in Worker : pc[w] \notin Asleep => pc'[w] \notin Asleep
      BY <2>3, ThreadAssumption
         DEF CallerProceed, CallerWake, NotifyAll, IInv, TypeOK, Thread, Asleep
    <3> QED
      BY <3>1, <3>2, AwakeKept DEF FateInv
  <2> QED
    BY <2>1, <2>2, <2>3
<1> QED
  BY <1>3, <1>4 DEF FateInv

\* The caller collects after every worker has exited, so what it reports cannot
\* change any more.
LEMMA ReturnFate == ASSUME IInv, FateInv, Return PROVE FateInv'
<1>1. /\ UNCHANGED <<args, results, failed, fail, freed, outcome, cancel_flag, cur, ready_heap>>
      /\ pc[Caller] = "join"
  BY DEF Return, core, loops, fail
<1>2. \A w \in Worker : pc'[w] = pc[w]
  BY ThreadAssumption DEF Return, IInv, TypeOK, Thread
<1>3. ChoiceInv' /\ OutcomeInv' /\ SlotInv' /\ BlameInv'
  BY <1>1, <1>2, StillFate
<1>4. ReturnInv'
  <2>1. sinks' \subseteq Node
    BY <1>1 DEF IInv, CallerInv, args
  <2> QED
    BY <1>1, <2>1
       DEF ReturnInv, Return, Collected, Reported, RunStatus, Restricted, Incremental, args, fail
<1>5. ReadyNodeHasWorker'
  BY <1>1, <1>2, AwakeKept DEF FateInv
<1> QED
  BY <1>3, <1>4, <1>5 DEF FateInv

LEMMA RefuseFate == ASSUME IInv, FateInv, Refuse PROVE FateInv'
<1>1. /\ UNCHANGED <<args, results, failed, failure_recorded, freed, outcome, cancel_flag,
                     cur, ready_heap>>
      /\ pc[Caller] = "seed" /\ pc' = [pc EXCEPT ![Caller] = "returned"]
      /\ ~(sinks \subseteq Node) /\ failed_node_id' \in sinks \ Node
      /\ status' = "node_failed"
  BY DEF Refuse, ValidSinks, core, loops
<1>2. \A w \in Worker : pc'[w] = pc[w] /\ pc[w] = "idle"
  BY <1>1, ThreadAssumption DEF IInv, TypeOK, CallerInv, Thread
<1>3. ChoiceInv' /\ OutcomeInv' /\ SlotInv'
  BY <1>1, ChoiceKept, OutcomeKept, SlotKept DEF FateInv
<1>4. failed_node_id' # NoNode
  BY <1>1, ThreadAssumption DEF IInv, TypeOK
<1>5. BlameInv'
  BY <1>1, <1>2, <1>4 DEF FateInv, BlameInv, args
<1>6. ReturnInv'
  BY <1>1, <1>4 DEF ReturnInv, args
<1>7. ReadyNodeHasWorker'
  BY <1>1, <1>2, ThreadAssumption DEF ReadyNodeHasWorker
<1> QED
  BY <1>3, <1>5, <1>6, <1>7 DEF FateInv

LEMMA CancelFate == ASSUME IInv, FateInv, Cancel PROVE FateInv'
<1>1. /\ UNCHANGED <<args, results, fail, freed, outcome, cur, pc, ready_heap, status>>
      /\ status = "running" /\ cancel_flag'
  BY DEF Cancel, core, loops, final
<1>2. ChoiceInv' /\ OutcomeInv' /\ SlotInv' /\ BlameInv' /\ ReturnInv'
  BY <1>1, StillFate, ReturnKept
<1>3. ReadyNodeHasWorker'
  BY <1>1 DEF FateInv, ReadyNodeHasWorker
<1> QED
  BY <1>2, <1>3 DEF FateInv

\* A worker gives up only when it finds the heap empty; a thread that sleeps
\* anyway had already decided to.
LEMMA WaitingFate ==
  ASSUME IInv, FateInv, NEW t \in Thread, DecideToWait(t) \/ Block(t) \/ SpuriousWake(t)
  PROVE  FateInv'
<1>1. /\ UNCHANGED <<args, results, fail, freed, outcome, cur, cancel_flag, ready_heap, status>>
      /\ pc[t] \in {"lock", "block", "waiting"}
      /\ pc'[t] \in {"lock", "block", "waiting"}
      /\ \A u \in Thread \ {t} : pc'[u] = pc[u]
  BY DEF DecideToWait, Block, SpuriousWake, core, loops, final, IInv, TypeOK
<1>2. Caller \in Thread /\ Worker \subseteq Thread /\ (t = Caller \/ t \in Worker)
  BY DEF Thread
<1>3. status = "running"
  BY <1>1, <1>2, StillRunning
<1>4. ChoiceInv' /\ OutcomeInv' /\ SlotInv' /\ BlameInv' /\ ReturnInv'
  BY <1>1, <1>2, <1>3, StillFate, ReturnKept
<1>5. ReadyNodeHasWorker'
  <2>1. CASE DecideToWait(t) /\ t \in Worker
    <3>1. ready_heap = {}
      BY <2>1 DEF DecideToWait, WaitPredicate
    <3> QED
      BY <3>1, <1>1 DEF ReadyNodeHasWorker
  <2>2. CASE ~(DecideToWait(t) /\ t \in Worker)
    <3>1. pc'[Caller] \in {"seed", "spawn"} <=> pc[Caller] \in {"seed", "spawn"}
      BY <1>1, <1>2
    <3>2. \A w \in Worker : pc[w] \notin Asleep => pc'[w] \notin Asleep
      BY <2>2, <1>1, <1>2 DEF DecideToWait, Block, SpuriousWake, Asleep
    <3> QED
      BY <1>1, <3>1, <3>2 DEF FateInv, ReadyNodeHasWorker, Asleep
  <2> QED
    BY <2>1, <2>2
<1> QED
  BY <1>4, <1>5 DEF FateInv

LEMMA TaskFate ==
  ASSUME IInv, FateInv, NEW w \in Worker, StartTask(w) \/ PopReady(w) \/ ExitLoop(w)
  PROVE  FateInv'
<1>1. /\ UNCHANGED <<args, results, fail, freed, outcome, cancel_flag, status>>
      /\ pc[w] \in {"queued", "lock"} /\ pc'[w] \in {"lock", "begin", "exited"}
      /\ \A u \in Thread \ {w} : pc'[u] = pc[u]
      /\ \A v \in Worker \ {w} : cur'[v] = cur[v]
  BY DEF StartTask, PopReady, ExitLoop, core, loops, final, IInv, TypeOK, Thread
<1>2. \A v \in Worker : /\ pc'[v] = "record" <=> pc[v] = "record"
                        /\ pc[v] = "record" => cur'[v] = cur[v]
  BY <1>1 DEF Thread
<1>3. ChoiceInv' /\ OutcomeInv' /\ SlotInv' /\ BlameInv' /\ ReturnInv'
  BY <1>1, <1>2, StillFate, ReturnKept, StillRunning
<1>4. ReadyNodeHasWorker'
  <2>1. CASE ExitLoop(w)
    BY <2>1 DEF ExitLoop, ReadyNodeHasWorker
  <2>2. CASE StartTask(w) \/ PopReady(w)
    <3>1. pc'[w] \in {"lock", "begin"}
      BY <2>2 DEF StartTask, PopReady, IInv, TypeOK, Thread
    <3> QED
      BY <3>1, AwakeByWorker DEF Asleep
  <2> QED
    BY <2>1, <2>2
<1> QED
  BY <1>3, <1>4 DEF FateInv

\* A worker between two nodes' steps: it signals, queues, counts or notifies.
LEMMA SignalFate ==
  ASSUME IInv, FateInv, NEW w \in Worker,
         SignalSuccessor(w) \/ PushReady(w) \/ NotifyOne(w) \/ CountCompleted(w) \/ FinishNotify(w)
  PROVE  FateInv'
<1>1. /\ UNCHANGED <<args, results, fail, freed, outcome, cancel_flag, status>>
      /\ pc[w] \in {"settle", "push", "notify_one", "notify_all"}
      /\ \A v \in Worker \ {w} : cur'[v] = cur[v]
  BY DEF SignalSuccessor, PushReady, NotifyOne, CountCompleted, FinishNotify,
         core, loops, final, IInv, TypeOK
<1>2. /\ pc'[w] \in {"settle", "push", "notify_one", "notify_all", "lock"}
      /\ \A v \in Worker \ {w} : pc'[v] = pc[v] \/ (pc[v] = "waiting" /\ pc'[v] = "lock")
  <2>1. CASE SignalSuccessor(w)
    BY <2>1 DEF SignalSuccessor, IInv, TypeOK, Thread
  <2>2. CASE PushReady(w) \/ CountCompleted(w)
    BY <2>2 DEF PushReady, CountCompleted, IInv, TypeOK, Thread
  <2>3. CASE NotifyOne(w)
    BY <2>3 DEF NotifyOne, IInv, TypeOK, Thread
  <2>4. CASE FinishNotify(w)
    BY <2>4 DEF FinishNotify, NotifyAll, Thread
  <2> QED
    BY <2>1, <2>2, <2>3, <2>4
<1>3. \A v \in Worker : /\ pc'[v] = "record" <=> pc[v] = "record"
                        /\ pc[v] = "record" => cur'[v] = cur[v]
  BY <1>1, <1>2
<1>4. ChoiceInv' /\ OutcomeInv' /\ SlotInv' /\ BlameInv' /\ ReturnInv'
  BY <1>1, <1>3, StillFate, ReturnKept, StillRunning
<1>5. ReadyNodeHasWorker'
  BY <1>2, AwakeByWorker DEF Asleep
<1> QED
  BY <1>4, <1>5 DEF FateInv

-----------------------------------------------------------------------------
(* Steps that settle a node. *)

\* A worker gives the node it holds a new outcome: what the outcomes of its
\* dependencies allow, the invariant allows.
LEMMA OutcomeChosen ==
  ASSUME IInv, OutcomeInv, NEW w \in Worker, pc[w] \in {"begin", "work"},
         NEW what \in Outcomes \ {"none"},
         outcome' = [outcome EXCEPT ![cur[w]] = what],
         UNCHANGED <<args, cancel_flag>>,
         what \in Good \cup {"running"} => \A e \in In(cur[w]) : outcome[From[e]] \in Good,
         what = "skipped" => cancel_flag \/ \E e \in In(cur[w]) : outcome[From[e]] \in Bad,
         what = "cached" => Incremental /\ cur[w] \notin dirty,
         Incremental /\ what \in {"running", "value", "failed"} => cur[w] \in dirty
  PROVE  OutcomeInv'
<1> DEFINE n == cur[w]
<1>1. /\ n \in Node /\ outcome[n] \notin Settled
      /\ \A e \in In(n) : e \in Edge /\ From[e] \in Node /\ outcome[From[e]] \in Settled
      /\ \A e \in Edge : From[e] = n => outcome[To[e]] = "none"
  BY StartedNode DEF Settled
<1>2. outcome'[n] = what /\ \A m \in Node \ {n} : outcome'[m] = outcome[m]
  BY <1>1 DEF IInv, TypeOK
<1>3. FailurePropagates'
  <2> SUFFICES ASSUME NEW m \in Node
               PROVE  /\ outcome'[m] \in Good \cup {"running"} =>
                           \A e \in In(m) : outcome'[From[e]] \in Good
                      /\ outcome'[m] = "skipped" =>
                           cancel_flag' \/ \E e \in In(m) : outcome'[From[e]] \in Bad
    BY DEF FailurePropagates, Good
  <2>1. CASE m = n
    <3>1. \A e \in In(n) : outcome'[From[e]] = outcome[From[e]]
      BY <1>1, <1>2
    <3> QED
      BY <2>1, <3>1, <1>2
  <2>2. CASE m # n
    <3>1. outcome'[m] = outcome[m]
      BY <2>2, <1>2
    <3>2. \A e \in In(m) : e \in Edge /\ To[e] = m /\ From[e] \in Node
      BY GraphAssumption DEF In
    <3>3. outcome[m] # "none" => \A e \in In(m) : outcome'[From[e]] = outcome[From[e]]
      BY <3>2, <1>1, <1>2
    <3> QED
      BY <3>1, <3>3 DEF OutcomeInv, FailurePropagates, Good
  <2> QED
    BY <2>1, <2>2
<1>4. Incremental' <=> Incremental
  BY DEF Incremental, args
<1> QED
  BY <1>2, <1>3, <1>4 DEF OutcomeInv, args

\* The slot of a node that is not settled has not been released.
LEMMA SlotFilled ==
  ASSUME IInv, ChoiceInv, SlotInv, NEW w \in Worker, pc[w] \in {"begin", "work"},
         NEW what,
         outcome' = [outcome EXCEPT ![cur[w]] = what],
         results'[cur[w]] \in {"null", SlotOf(what)},
         \A m \in Node \ {cur[w]} : results'[m] = results[m],
         UNCHANGED <<args, freed>>
  PROVE  SlotInv'
<1> DEFINE n == cur[w]
<1>1. /\ n \in Node /\ n \in scheduled /\ outcome[n] \notin Settled
      /\ \A e \in Edge : From[e] = n => outcome[To[e]] = "none"
  BY StartedNode DEF Settled
<1>2. outcome'[n] = what /\ \A m \in Node \ {n} : outcome'[m] = outcome[m]
  BY <1>1 DEF IInv, TypeOK
<1>3. ~Released(n)
  <2> SUFFICES ASSUME Released(n) PROVE FALSE
    OBVIOUS
  <2>1. PICK e \in ScheduledOut(n) : TRUE
    BY <1>1 DEF ChoiceInv, Released
  <2>2. e \in freed /\ e \in Edge /\ From[e] = n
    BY <2>1 DEF Released, ScheduledOut, Out
  <2>3. outcome[To[e]] \in Settled
    BY <2>2 DEF IInv, EdgeInv
  <2> QED
    BY <2>2, <2>3, <1>1 DEF Settled
<1>4. \A m \in Node : Released(m)' <=> Released(m)
  BY DEF Released, Restricted, ScheduledOut, args
<1> QED
  BY <1>1, <1>2, <1>3, <1>4 DEF SlotInv, SlotOf, args

\* Settling a node without a failure leaves the failure record alone.
LEMMA BlameUntouched ==
  ASSUME IInv, BlameInv, NEW w \in Worker, pc[w] \in {"begin", "work"},
         NEW what \in Outcomes \ {"failed"}, NEW next \in {"work", "settle"},
         outcome' = [outcome EXCEPT ![cur[w]] = what],
         pc' = [pc EXCEPT ![w] = next],
         UNCHANGED <<args, fail, cur>>
  PROVE  BlameInv'
<1>1. cur[w] \in Node /\ outcome[cur[w]] # "failed"
  BY StartedNode
<1>2. /\ \A m \in Node : outcome'[m] = "failed" <=> outcome[m] = "failed"
      /\ \A m \in Node \ {cur[w]} : outcome'[m] = outcome[m]
  BY <1>1 DEF IInv, TypeOK
<1>3. \A v \in Worker : pc'[v] = "record" <=> pc[v] = "record"
  BY DEF IInv, TypeOK, Thread
<1>4. \A v \in Worker : pc[v] = "record" => cur[v] \in Node
  BY ThreadAssumption DEF BlameInv, IInv, TypeOK, WorkerInv, ActiveLabels, SettledLabels
<1> QED
  BY <1>2, <1>3, <1>4 DEF BlameInv, fail, args

LEMMA SkipFate == ASSUME IInv, FateInv, NEW w \in Worker, Skip(w) PROVE FateInv'
<1>1. /\ pc[w] = "begin" /\ pc' = [pc EXCEPT ![w] = "settle"]
      /\ results' = [results EXCEPT ![cur[w]] = "empty"]
      /\ outcome' = [outcome EXCEPT ![cur[w]] = "skipped"]
      /\ UNCHANGED <<args, fail, cur, freed, cancel_flag, status>>
      /\ MustSkip(cur[w])
  BY DEF Skip, loops, final
<1>2. cur[w] \in Node /\ \A e \in In(cur[w]) : failed[From[e]] <=> outcome[From[e]] \in Bad
  BY <1>1, StartedNode
<1>3. ChoiceInv'
  BY <1>1, ChoiceKept DEF FateInv
<1>4. OutcomeInv'
  BY <1>1, <1>2, OutcomeChosen DEF FateInv, MustSkip, DependencyFailed, Outcomes, Good
<1>5. SlotInv'
  <2>1. results'[cur[w]] = SlotOf("skipped") /\ \A m \in Node \ {cur[w]} : results'[m] = results[m]
    BY <1>1, <1>2 DEF SlotOf, Bad, IInv, TypeOK
  <2> QED
    BY <2>1, <1>1, SlotFilled DEF FateInv
<1>6. BlameInv'
  BY <1>1, BlameUntouched DEF FateInv, Outcomes
<1>7. ReturnInv'
  BY <1>1, StillRunning, ReturnKept
<1>8. ReadyNodeHasWorker'
  BY <1>1, AwakeByWorker DEF IInv, TypeOK, Thread, Asleep
<1> QED
  BY <1>3, <1>4, <1>5, <1>6, <1>7, <1>8 DEF FateInv

\* A clean node has its entry: run_incremental counts a node without one dirty.
LEMMA CacheHit ==
  ASSUME IInv, FateInv, NEW w \in Worker, ServeClean(w)
  PROVE  cur[w] \in cache
<1>1. cur[w] \in Node
  BY StartedNode DEF ServeClean
<1> QED
  BY <1>1 DEF FateInv, ChoiceInv, ServeClean

LEMMA ServeFate == ASSUME IInv, FateInv, NEW w \in Worker, ServeClean(w) PROVE FateInv'
<1>1. cur[w] \in cache
  BY CacheHit
<1>2. failure_recorded' = failure_recorded
  BY <1>1 DEF ServeClean, IInv, TypeOK
<1>3. /\ pc[w] = "begin" /\ pc' = [pc EXCEPT ![w] = "settle"]
      /\ results' = [results EXCEPT ![cur[w]] = "cached"]
      /\ outcome' = [outcome EXCEPT ![cur[w]] = "cached"]
      /\ UNCHANGED <<args, fail, cur, freed, cancel_flag, status>>
      /\ ~MustSkip(cur[w]) /\ Incremental /\ cur[w] \notin dirty
  BY <1>1, <1>2 DEF ServeClean, loops, final, fail
<1>4. cur[w] \in Node /\ \A e \in In(cur[w]) : outcome[From[e]] \in Good
  BY <1>3, StartedNode DEF MustSkip, DependencyFailed, Good, Settled, Bad
<1>5. ChoiceInv'
  BY <1>3, ChoiceKept DEF FateInv
<1>6. OutcomeInv'
  BY <1>3, <1>4, OutcomeChosen DEF FateInv, Outcomes, Good
<1>7. SlotInv'
  <2>1. results'[cur[w]] = SlotOf("cached") /\ \A m \in Node \ {cur[w]} : results'[m] = results[m]
    BY <1>3, <1>4 DEF SlotOf, Bad, IInv, TypeOK
  <2> QED
    BY <2>1, <1>3, SlotFilled DEF FateInv
<1>8. BlameInv'
  BY <1>3, BlameUntouched DEF FateInv, Outcomes
<1>9. ReturnInv'
  BY <1>3, StillRunning, ReturnKept
<1>10. ReadyNodeHasWorker'
  BY <1>3, AwakeByWorker DEF IInv, TypeOK, Thread, Asleep
<1> QED
  BY <1>5, <1>6, <1>7, <1>8, <1>9, <1>10 DEF FateInv

LEMMA GatherFate == ASSUME IInv, FateInv, NEW w \in Worker, GatherInputs(w) PROVE FateInv'
<1>1. /\ pc[w] = "begin" /\ pc' = [pc EXCEPT ![w] = "work"]
      /\ outcome' = [outcome EXCEPT ![cur[w]] = "running"]
      /\ UNCHANGED <<args, results, fail, cur, freed, cancel_flag, status>>
      /\ ~MustSkip(cur[w]) /\ (Incremental => cur[w] \in dirty)
  BY DEF GatherInputs, core, loops, final
<1>2. /\ cur[w] \in Node /\ outcome[cur[w]] = "none"
      /\ \A e \in In(cur[w]) : outcome[From[e]] \in Good
  BY <1>1, StartedNode DEF MustSkip, DependencyFailed, Good, Settled, Bad
<1>3. ChoiceInv'
  BY <1>1, ChoiceKept DEF FateInv
<1>4. OutcomeInv'
  BY <1>1, <1>2, OutcomeChosen DEF FateInv, Outcomes, Good
<1>5. SlotInv'
  <2>1. results[cur[w]] = "null"
    BY <1>2 DEF FateInv, SlotInv, SlotOf, Bad, IInv, TypeOK, Slots
  <2> QED
    BY <2>1, <1>1, SlotFilled DEF FateInv
<1>6. BlameInv'
  BY <1>1, BlameUntouched DEF FateInv, Outcomes
<1>7. ReturnInv'
  BY <1>1, StillRunning, ReturnKept
<1>8. ReadyNodeHasWorker'
  BY <1>1, AwakeByWorker DEF IInv, TypeOK, Thread, Asleep
<1> QED
  BY <1>3, <1>4, <1>5, <1>6, <1>7, <1>8 DEF FateInv

LEMMA ReturnsFate == ASSUME IInv, FateInv, NEW w \in Worker, WorkReturns(w) PROVE FateInv'
<1>1. /\ pc[w] = "work" /\ pc' = [pc EXCEPT ![w] = "settle"]
      /\ results' = [results EXCEPT ![cur[w]] = "value"]
      /\ outcome' = [outcome EXCEPT ![cur[w]] = "value"]
      /\ UNCHANGED <<args, fail, cur, freed, cancel_flag, status>>
  BY DEF WorkReturns, loops, final
<1>2. cur[w] \in Node /\ outcome[cur[w]] = "running"
  BY <1>1, StartedNode
<1>3. ChoiceInv'
  BY <1>1, ChoiceKept DEF FateInv
<1>4. OutcomeInv'
  <2>1. (Incremental => cur[w] \in dirty) /\ \A e \in In(cur[w]) : outcome[From[e]] \in Good
    BY <1>2 DEF FateInv, OutcomeInv, FailurePropagates, Good
  <2> QED
    BY <1>1, <2>1, OutcomeChosen DEF FateInv, Outcomes
<1>5. SlotInv'
  <2>1. results'[cur[w]] = SlotOf("value") /\ \A m \in Node \ {cur[w]} : results'[m] = results[m]
    BY <1>1, <1>2 DEF SlotOf, Bad, IInv, TypeOK
  <2> QED
    BY <2>1, <1>1, SlotFilled DEF FateInv
<1>6. BlameInv'
  BY <1>1, BlameUntouched DEF FateInv, Outcomes
<1>7. ReturnInv'
  BY <1>1, StillRunning, ReturnKept
<1>8. ReadyNodeHasWorker'
  BY <1>1, AwakeByWorker DEF IInv, TypeOK, Thread, Asleep
<1> QED
  BY <1>3, <1>4, <1>5, <1>6, <1>7, <1>8 DEF FateInv

\* The first worker whose node throws wins the exchange, and nobody else is
\* between the exchange and the record.
LEMMA ThrowsFate == ASSUME IInv, FateInv, NEW w \in Worker, WorkThrows(w) PROVE FateInv'
<1> DEFINE next == IF failure_recorded THEN "settle" ELSE "record"
<1>1. /\ pc[w] = "work" /\ pc' = [pc EXCEPT ![w] = next]
      /\ results' = [results EXCEPT ![cur[w]] = "empty"]
      /\ outcome' = [outcome EXCEPT ![cur[w]] = "failed"]
      /\ failure_recorded' = TRUE
      /\ UNCHANGED <<args, failed_node_id, cur, freed, cancel_flag, status>>
  BY DEF WorkThrows, loops, final
<1>2. cur[w] \in Node /\ outcome[cur[w]] = "running"
  BY <1>1, StartedNode
<1>3. pc'[w] = next /\ \A v \in Worker \ {w} : pc'[v] = pc[v]
  BY <1>1 DEF IInv, TypeOK, Thread
<1>4. ChoiceInv'
  BY <1>1, ChoiceKept DEF FateInv
<1>5. OutcomeInv'
  <2>1. Incremental => cur[w] \in dirty
    BY <1>2 DEF FateInv, OutcomeInv
  <2> QED
    BY <1>1, <2>1, OutcomeChosen DEF FateInv, Outcomes, Good
<1>6. SlotInv'
  <2>1. results'[cur[w]] = SlotOf("failed") /\ \A m \in Node \ {cur[w]} : results'[m] = results[m]
    BY <1>1, <1>2 DEF SlotOf, Bad, IInv, TypeOK
  <2> QED
    BY <2>1, <1>1, SlotFilled DEF FateInv
<1>7. BlameInv'
  <2>1. outcome'[cur[w]] = "failed" /\ \A m \in Node \ {cur[w]} : outcome'[m] = outcome[m]
    BY <1>1, <1>2 DEF IInv, TypeOK
  <2>2. \A v \in Worker : pc[v] = "record" =>
          cur[v] \in Node \ {cur[w]} /\ v # w /\ failure_recorded
    BY <1>1, <1>2, ThreadAssumption
       DEF FateInv, BlameInv, IInv, TypeOK, WorkerInv, ActiveLabels, SettledLabels
  <2>0. sinks \subseteq Node
    <3>1. cur[w] \in scheduled
      BY <1>1, StartedNode
    <3> QED
      BY <3>1 DEF IInv, ArgsInv
  <2>3. ~failure_recorded => failed_node_id = NoNode
    BY <2>0 DEF FateInv, BlameInv
  <2>4. \E v \in Worker : failed_node_id = NoNode => pc'[v] = "record"
    BY <1>3, <2>2 DEF FateInv, BlameInv
  <2>5. failed_node_id # NoNode => failed_node_id \in Node /\ outcome'[failed_node_id] = "failed"
    BY <1>2, <2>0, <2>1 DEF FateInv, BlameInv
  <2>6. \A v \in Worker : pc'[v] = "record" =>
          /\ outcome'[cur[v]] = "failed" /\ failed_node_id = NoNode
          /\ \A u \in Worker : pc'[u] = "record" => u = v
    BY <1>3, <2>1, <2>2, <2>3 DEF FateInv, BlameInv
  <2> QED
    BY <1>1, <1>2, <2>0, <2>1, <2>4, <2>5, <2>6 DEF BlameInv, args
<1>8. ReturnInv'
  BY <1>1, StillRunning, ReturnKept
<1>9. ReadyNodeHasWorker'
  BY <1>3, AwakeByWorker DEF Asleep
<1> QED
  BY <1>4, <1>5, <1>6, <1>7, <1>8, <1>9 DEF FateInv

LEMMA RecordFate == ASSUME IInv, FateInv, NEW w \in Worker, RecordFailure(w) PROVE FateInv'
<1>1. /\ pc[w] = "record" /\ pc' = [pc EXCEPT ![w] = "settle"]
      /\ failed_node_id' = cur[w]
      /\ UNCHANGED <<args, results, failure_recorded, cur, freed, outcome, cancel_flag, status>>
  BY DEF RecordFailure, core, loops, final
<1>2. cur[w] \in Node /\ outcome[cur[w]] = "failed"
  BY <1>1, HeldNode DEF FateInv, BlameInv, SettledLabels
<1>3. pc'[w] = "settle" /\ \A v \in Worker \ {w} : pc'[v] = pc[v]
  BY <1>1 DEF IInv, TypeOK, Thread
<1>4. ChoiceInv' /\ OutcomeInv' /\ SlotInv'
  BY <1>1, ChoiceKept, OutcomeKept, SlotKept DEF FateInv
<1>5. BlameInv'
  <2>1. \A v \in Worker : pc'[v] # "record"
    BY <1>1, <1>3 DEF FateInv, BlameInv
  <2>2. failed_node_id' # NoNode
    BY <1>1, <1>2, ThreadAssumption
  <2>3. sinks' \subseteq Node
    BY <1>1, HeldNode DEF IInv, ArgsInv, SettledLabels, args
  <2> QED
    BY <1>1, <1>2, <2>1, <2>2, <2>3 DEF FateInv, BlameInv
<1>6. ReturnInv' /\ ReadyNodeHasWorker'
  BY <1>1, <1>3, StillRunning, ReturnKept, AwakeByWorker DEF Asleep
<1> QED
  BY <1>4, <1>5, <1>6 DEF FateInv

\* A slot is emptied by the consumer that brings its count to zero, which is
\* when the last edge out of the node has been released.
LEMMA ReleaseFate == ASSUME IInv, FateInv, NEW w \in Worker, ReleaseSlot(w) PROVE FateInv'
<1>1. /\ pc[w] = "settle"
      /\ UNCHANGED <<args, fail, cur, outcome, cancel_flag, status, pc>>
  BY DEF ReleaseSlot, final
<1>2. PICK e \in ToRelease(cur[w]) \ freed :
        /\ freed' = freed \cup {e}
        /\ results' = IF consumers_left[From[e]] = 1
                      THEN [results EXCEPT ![From[e]] = "null"] ELSE results
  BY DEF ReleaseSlot, LastConsumer
<1> DEFINE dep == From[e]
<1>3. /\ cur[w] \in scheduled /\ e \in Edge /\ To[e] = cur[w]
      /\ dep \in Node /\ dep \in scheduled \ sinks /\ Restricted
  BY <1>1, <1>2, HeldNode, GraphAssumption DEF ToRelease, In, SettledLabels
<1>4. e \in ScheduledOut(dep) \ freed
  BY <1>2, <1>3 DEF ScheduledOut, Out
<1>5. ScheduledOut(dep) \subseteq freed' => consumers_left[dep] = 1
  <2>1. consumers_left[dep] = Cardinality(ScheduledOut(dep) \ freed)
    BY <1>3 DEF IInv, CountInv
  <2>2. /\ Cardinality(ScheduledOut(dep) \ (freed \cup {e})) = Cardinality(ScheduledOut(dep) \ freed) - 1
        /\ Cardinality(ScheduledOut(dep) \ freed) \in Nat \ {0}
    BY <1>4, FiniteEdges, CrossOff
  <2>3. ASSUME ScheduledOut(dep) \subseteq freed \cup {e}
        PROVE  Cardinality(ScheduledOut(dep) \ (freed \cup {e})) = 0
    <3>1. ScheduledOut(dep) \ (freed \cup {e}) = {}
      BY <2>3
    <3> QED
      BY <3>1, FS_EmptySet
  <2> QED
    BY <1>2, <2>1, <2>2, <2>3
<1>6. ChoiceInv' /\ OutcomeInv'
  BY <1>1, ChoiceKept, OutcomeKept DEF FateInv
<1>7. SlotInv'
  <2> SUFFICES ASSUME NEW m \in Node
               PROVE  /\ results'[m] \in {"null", SlotOf(outcome[m])}
                      /\ m \in scheduled /\ Released(m)' => results'[m] = "null"
    BY <1>1 DEF SlotInv, SlotOf, args
  <2>1. Released(m)' <=> Restricted /\ m \notin sinks /\ ScheduledOut(m) \subseteq freed'
    BY <1>1 DEF Released, Restricted, ScheduledOut, args
  <2>2. CASE m = dep
    BY <2>1, <2>2, <1>2, <1>3, <1>5 DEF FateInv, SlotInv, IInv, TypeOK
  <2>3. CASE m # dep
    <3>1. results'[m] = results[m]
      BY <2>3, <1>2 DEF IInv, TypeOK
    <3>2. e \notin ScheduledOut(m)
      BY <2>3 DEF ScheduledOut, Out
    <3>3. Released(m)' => Released(m)
      BY <2>1, <3>2, <1>2 DEF Released
    <3> QED
      BY <3>1, <3>3 DEF FateInv, SlotInv
  <2> QED
    BY <2>2, <2>3
<1>8. BlameInv'
  BY <1>1, BlameKept DEF FateInv
<1>9. ReturnInv' /\ ReadyNodeHasWorker'
  BY <1>1, StillRunning, ReturnKept, AwakeByWorker DEF Asleep
<1> QED
  BY <1>6, <1>7, <1>8, <1>9 DEF FateInv

-----------------------------------------------------------------------------
(* The invariant and what follows from it. *)

LEMMA StepFate == IInv /\ FateInv /\ [Next]_vars => FateInv'
<1> SUFFICES ASSUME IInv, FateInv, [Next]_vars PROVE FateInv'
  OBVIOUS
<1>1. CASE CallerStep
  BY <1>1, CallerFate, RefuseFate, ReturnFate, WaitingFate DEF CallerStep, Thread
<1>2. ASSUME NEW w \in Worker, WorkerStep(w) PROVE FateInv'
  <2>1. CASE ExecuteNode(w)
    BY <2>1, SkipFate, ServeFate, GatherFate, ReturnsFate, ThrowsFate, RecordFate,
       ReleaseFate, SignalFate DEF ExecuteNode
  <2> QED
    BY <1>2, <2>1, TaskFate, WaitingFate DEF WorkerStep, Thread
<1>3. ASSUME NEW t \in Thread, SpuriousWake(t) PROVE FateInv'
  BY <1>3, WaitingFate
<1>4. CASE Cancel
  BY <1>4, CancelFate
<1>5. CASE UNCHANGED vars
  <2>1. UNCHANGED <<args, results, failed, fail, freed, outcome, cancel_flag, cur, pc,
                    ready_heap, out_results, status>>
    BY <1>5 DEF vars, core, loops, final
  <2>2. ChoiceInv' /\ OutcomeInv' /\ SlotInv' /\ BlameInv'
    BY <2>1, StillFate
  <2>3. ReturnInv' /\ ReadyNodeHasWorker'
    BY <2>1 DEF FateInv, ReturnInv, ReadyNodeHasWorker, Collected, Reported, RunStatus,
                Restricted, Incremental, args, fail
  <2> QED
    BY <2>2, <2>3 DEF FateInv
<1> QED
  BY <1>1, <1>2, <1>3, <1>4, <1>5 DEF Next, Finished

\* For every graph and every number of workers: the outcomes of the nodes agree
\* with those of their dependencies, each slot holds what its node's outcome
\* says until its last consumer releases it, and one failed node is blamed.
THEOREM FateInvariance == Spec => []FateInv
<1> QED
  BY InitInv, InitFate, StepInv, StepFate, PTL DEF Spec

\* While a node is queued some worker is on its way to it, whichever waiter
\* notify_one picked: the executor cannot fall asleep on queued work.
THEOREM NoLostNode == Spec => []ReadyNodeHasWorker
<1>1. FateInv => ReadyNodeHasWorker
  BY DEF FateInv
<1> QED
  BY <1>1, FateInvariance, PTL

\* A failure or a cancellation reaches exactly the nodes it must, and the status
\* the caller gets is true of the run: ok means every node has its value, and a
\* failure names a node whose work threw.
THEOREM FailuresAreReported == Spec => []FailuresReported
<1>1. IInv /\ FateInv => StatusTruthful
  <2> SUFFICES ASSUME IInv, FateInv, status # "running" PROVE StatusTruthful
    BY DEF StatusTruthful
  <2>1. CASE ~(sinks \subseteq Node)
    <3>1. status = "node_failed" /\ failed_node_id \in sinks \ Node
      BY <2>1 DEF FateInv, ReturnInv, BlameInv
    <3>2. \A n \in Node : outcome[n] = "none"
      BY <2>1 DEF IInv, ArgsInv, NodeInv
    <3> QED
      BY <2>1, <3>1, <3>2 DEF StatusTruthful
  <2>2. CASE sinks \subseteq Node
    <3>1. /\ status = RunStatus
          /\ \A w \in Worker : pc[w] # "record"
          /\ \A n \in scheduled : n \in Node /\ outcome[n] \in Settled
          /\ sinks \subseteq scheduled
      BY <2>2, AllFinished DEF IInv, TypeOK, ArgsInv, CallerInv, FateInv, ReturnInv
    <3>2. status = "node_failed" => failed_node_id \in Node /\ outcome[failed_node_id] = "failed"
      BY <2>2, <3>1 DEF RunStatus, FateInv, BlameInv
    <3>3. status = "ok" => \A n \in scheduled : outcome[n] \in Good
      <4>1. status = "ok" => ~cancel_flag /\ \A n \in Node : outcome[n] # "failed"
        BY <3>1 DEF RunStatus, FateInv, BlameInv
      <4>2. status = "ok" => \A n \in Node : outcome[n] # "skipped"
        BY <4>1, SkippedNeedsFailed DEF FateInv, OutcomeInv
      <4> QED
        BY <3>1, <4>1, <4>2 DEF Settled, Good
    <3>4. status = "cancelled" => cancel_flag
      BY <3>1 DEF RunStatus
    <3> QED
      BY <2>2, <3>1, <3>2, <3>3, <3>4 DEF StatusTruthful, Good
  <2> QED
    BY <2>1, <2>2
<1>2. IInv /\ FateInv => FailuresReported
  BY <1>1 DEF FailuresReported, FateInv, OutcomeInv
<1> QED
  BY <1>2, Invariance, FateInvariance, PTL

\* When run_to returns, the slots of the nodes nobody asked for are empty and
\* those of the requested nodes are not.
THEOREM IntermediatesAreFreed == Spec => []IntermediatesFreed
<1>1. IInv /\ FateInv => IntermediatesFreed
  <2> SUFFICES ASSUME IInv, FateInv, status # "running", Restricted, NEW n \in scheduled
               PROVE  results[n] = "null" <=> n \notin sinks
    BY DEF IntermediatesFreed
  <2>1. n \in Node /\ finished = scheduled /\ outcome[n] \in Settled
    BY AllFinished DEF IInv, TypeOK, CallerInv
  <2>2. ASSUME n \notin sinks PROVE results[n] = "null"
    <3>1. ASSUME NEW e \in ScheduledOut(n) PROVE e \in freed
      <4>1. To[e] \in finished /\ To[e] \in Node /\ e \in ToRelease(To[e])
        BY <2>1, <2>2, GraphAssumption DEF ScheduledOut, Out, ToRelease, In
      <4> QED
        BY <4>1 DEF IInv, NodeInv
    <3>2. Released(n)
      BY <2>2, <3>1 DEF Released
    <3> QED
      BY <2>1, <3>2 DEF FateInv, SlotInv
  <2>3. n \in sinks => results[n] # "null"
    BY <2>1 DEF IInv, NodeInv, Released
  <2> QED
    BY <2>2, <2>3
<1> QED
  BY <1>1, Invariance, FateInvariance, PTL

\* run_incremental hands back an entry for exactly the nodes that have a value,
\* and an old entry only for a node none of whose dependencies moved.
THEOREM CacheStaysClean == Spec => []CacheNotPoisoned
<1>1. IInv /\ FateInv => CacheNotPoisoned
  <2> SUFFICES ASSUME IInv, FateInv, status # "running", Incremental, NEW n \in Node
               PROVE  /\ n \in DOMAIN out_results <=> outcome[n] \in Good
                      /\ n \in DOMAIN out_results => out_results[n] # "empty"
                      /\ outcome[n] = "cached" => \A e \in In(n) : outcome[From[e]] = "cached"
                      /\ outcome[n] = "failed" => n \in dirty
    BY DEF CacheNotPoisoned, Good
  <2>1. ~Restricted
    BY DEF Incremental, Restricted
  <2>2. outcome[n] \in Settled
    BY <2>1, AllFinished DEF IInv, ArgsInv, CallerInv
  <2>3. out_results = [m \in {k \in Node : ~failed[k]} |-> Reported(m)]
    BY <2>1 DEF IInv, ArgsInv, FateInv, ReturnInv, Collected
  <2>4. n \in DOMAIN out_results <=> outcome[n] \in Good
    BY <2>2, <2>3 DEF IInv, NodeInv, Settled, Bad, Good
  <2>5. outcome[n] \in Good => results[n] = outcome[n]
    BY <2>1, <2>2 DEF IInv, NodeInv, Released, FateInv, SlotInv, SlotOf, Good, Bad
  <2>6. n \in DOMAIN out_results => out_results[n] # "empty"
    BY <2>3, <2>4, <2>5 DEF Reported, Good
  <2>7. ASSUME outcome[n] = "cached", NEW e \in In(n) PROVE outcome[From[e]] = "cached"
    <3>1. e \in Edge /\ To[e] = n /\ From[e] \in Node
      BY GraphAssumption DEF In
    <3>2. n \notin dirty /\ From[e] \notin dirty
      BY <2>7, <3>1 DEF FateInv, OutcomeInv, ChoiceInv, ClosedDownward
    <3>3. outcome[From[e]] \in Good
      BY <2>7 DEF FateInv, OutcomeInv, FailurePropagates, Good
    <3> QED
      BY <3>1, <3>2, <3>3 DEF FateInv, OutcomeInv, Good
  <2>8. outcome[n] = "failed" => n \in dirty
    BY DEF FateInv, OutcomeInv
  <2> QED
    BY <2>4, <2>6, <2>7, <2>8
<1> QED
  BY <1>1, Invariance, FateInvariance, PTL

-----------------------------------------------------------------------------
(* The executor implements GraphRun.                                         *)

LEMMA InitKeepsPromise == Init => Promise!Init
<1> SUFFICES ASSUME Init PROVE Promise!Init
  OBVIOUS
<1>1. ClosedUpward(scheduled) /\ scheduled \subseteq Node
  BY InitInv DEF IInv, ArgsInv, TypeOK
<1>2. Incremental => ClosedUpward(Node \ dirty)
  BY InitFate, GraphAssumption DEF FateInv, ChoiceInv, ClosedDownward, ClosedUpward
<1>3. ~Incremental => ClosedUpward({})
  BY DEF ClosedUpward
<1> QED
  BY <1>1, <1>2, <1>3
     DEF Promise!Init, Promise!ClosedUpward, ClosedUpward, Init, InitArgs, InitRunState

\* What a run may still do to a node it has started, and a node it has not.
LEMMA NodeSteps ==
  ASSUME IInv, NEW w \in Worker, pc[w] = "begin"
  PROVE  /\ Promise!Ready(cur[w])
         /\ Promise!Blocked(cur[w]) <=> MustSkip(cur[w])
<1>1. /\ cur[w] \in Node /\ cur[w] \in scheduled /\ outcome[cur[w]] = "none"
      /\ \A e \in In(cur[w]) : /\ outcome[From[e]] \in Settled
                               /\ failed[From[e]] <=> outcome[From[e]] \in Bad
  BY StartedNode
<1> QED
  BY <1>1 DEF Promise!Ready, Promise!Blocked, Promise!In, In, Promise!Settled, Promise!Good,
              Promise!Bad, Settled, Bad, MustSkip, DependencyFailed

\* Every step of a thread is a step of the promised run or leaves it alone.
LEMMA StepKeepsPromise ==
  IInv /\ FateInv /\ [Next]_vars => [Promise!Next]_(Promise!vars)
<1> DEFINE same == UNCHANGED <<args, cancel_flag, outcome, status, failed_node_id>>
<1> SUFFICES ASSUME IInv, FateInv, [Next]_vars PROVE [Promise!Next]_(Promise!vars)
  OBVIOUS
<1>1. same => UNCHANGED Promise!vars
  BY DEF Promise!vars, Incremental, args
<1>2. UNCHANGED args => UNCHANGED Promise!args
  BY DEF Promise!args, Incremental, args
<1>3. CASE CallerStep
  <2>1. ASSUME Return PROVE Promise!Return
    <3>1. /\ pc[Caller] = "join" /\ status = "running" /\ sinks \subseteq Node
          /\ \A w \in Worker : pc[w] # "record"
      BY <2>1, StillRunning DEF Return, WorkersJoined, IInv, CallerInv
    <3>2. \A n \in scheduled : outcome[n] \in Settled
      BY <3>1, AllFinished
    <3>3. Promise!Failed # {} <=> failure_recorded
      BY DEF Promise!Failed, FateInv, BlameInv
    <3>4. failure_recorded => failed_node_id \in Promise!Failed
      BY <3>1 DEF Promise!Failed, FateInv, BlameInv
    <3> QED
      BY <2>1, <3>1, <3>2, <3>3, <3>4, <1>2
         DEF Promise!Return, Return, RunStatus, fail, Settled, Promise!Settled, Promise!Good,
             Promise!Bad
  <2>3. ASSUME Refuse PROVE Promise!Refuse
    <3>1. status = "running"
      BY <2>3, StillRunning DEF Refuse
    <3> QED
      BY <2>3, <3>1, <1>2 DEF Refuse, Promise!Refuse
  <2>2. ASSUME CallerStep, ~Return, ~Refuse PROVE same
    BY <2>2 DEF CallerStep, Seed, Spawn, CallerProceed, CallerWake, DecideToWait, Block, fail, final
  <2> QED
    BY <1>1, <1>3, <2>1, <2>2, <2>3 DEF Promise!Next, Promise!Progress
<1>4. ASSUME NEW w \in Worker, ExecuteNode(w) PROVE [Promise!Next]_(Promise!vars)
  <2> DEFINE n == cur[w]
  <2>1. ASSUME Skip(w) PROVE Promise!Skip(n) /\ n \in Node
    BY <2>1, <1>2, NodeSteps, StartedNode DEF Skip, Promise!Skip, Promise!Settle, fail, final
  <2>2. ASSUME ServeClean(w) PROVE Promise!Serve(n) /\ n \in Node
    BY <2>2, <1>2, NodeSteps, StartedNode, CacheHit
       DEF ServeClean, Promise!Serve, Promise!Settle, final
  <2>3. ASSUME GatherInputs(w) PROVE Promise!Start(n) /\ n \in Node
    BY <2>3, <1>2, NodeSteps, StartedNode
       DEF GatherInputs, Promise!Start, Promise!Settle, fail, final
  <2>4. ASSUME WorkReturns(w) \/ WorkThrows(w) PROVE Promise!Finish(n) /\ n \in Node
    <3>1. n \in Node /\ outcome[n] = "running"
      BY <2>4, StartedNode DEF WorkReturns, WorkThrows
    <3> QED
      BY <2>4, <3>1, <1>2 DEF WorkReturns, WorkThrows, Promise!Finish, Promise!Settle, fail, final
  <2>5. ASSUME RecordFailure(w) PROVE Promise!Blame(n) /\ n \in Node
    <3>1. n \in Node
      BY <2>5, HeldNode DEF RecordFailure, SettledLabels
    <3> QED
      BY <2>5, <3>1, <1>2
         DEF RecordFailure, FateInv, BlameInv, Promise!Blame, Promise!Failed, final
  <2>6. ASSUME \/ ReleaseSlot(w) \/ SignalSuccessor(w) \/ PushReady(w)
               \/ NotifyOne(w) \/ CountCompleted(w) \/ FinishNotify(w)
        PROVE  same
    BY <2>6 DEF ReleaseSlot, SignalSuccessor, PushReady, NotifyOne, CountCompleted,
                FinishNotify, fail, final
  <2> QED
    BY <1>1, <1>4, <2>1, <2>2, <2>3, <2>4, <2>5, <2>6
       DEF ExecuteNode, Promise!Next, Promise!Progress
<1>5. ASSUME NEW w \in Worker, WorkerStep(w), ~ExecuteNode(w) PROVE same
  BY <1>5 DEF WorkerStep, StartTask, PopReady, ExitLoop, DecideToWait, Block, fail, final
<1>6. ASSUME NEW t \in Thread, SpuriousWake(t) PROVE same
  BY <1>6 DEF SpuriousWake, fail, final
<1>7. ASSUME Cancel PROVE Promise!Cancel
  BY <1>7, <1>2 DEF Cancel, Promise!Cancel, fail, final
<1>8. ASSUME UNCHANGED vars PROVE same
  BY <1>8 DEF vars, fail, final
<1> QED
  BY <1>1, <1>3, <1>4, <1>5, <1>6, <1>7, <1>8 DEF Next, Finished, Promise!Next

\* However the threads interleave, a run does nothing to its nodes, its failure
\* record and its status but what GraphRun allows: the safety half of
\* ImplementsGraphRun.
THEOREM PromiseKept == Spec => Promise!Spec
<1> QED
  BY InitInv, InitFate, InitKeepsPromise, StepInv, StepFate, StepKeepsPromise, PTL
     DEF Spec, Promise!Spec
=============================================================================
