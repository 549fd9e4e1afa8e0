--------------------------- MODULE GraphExecutorInv ---------------------------
(***************************************************************************)
(* The inductive invariant behind the safety properties of GraphExecutor.  *)
(* Its heart is that the two counters of run_state count edges: remaining  *)
(* those whose dependency has not signalled yet, consumers_left those      *)
(* whose consumer has not released its input yet.                          *)
(***************************************************************************)
EXTENDS GraphExecutor

\* Labels at which a worker holds a node, and those after it is settled.
SettledLabels == {"record", "settle", "push", "notify_one", "notify_all"}
ActiveLabels  == {"begin", "work"} \cup SettledLabels

ScheduledIn(n) == {e \in In(n) : From[e] \in scheduled}

ArgsInv ==
  /\ ClosedUpward(scheduled)
  /\ Restricted /\ sinks \subseteq Node => sinks \subseteq scheduled
  /\ ~Restricted => scheduled = Node /\ sinks = {}
  /\ ~(sinks \subseteq Node) => scheduled = {}

CountInv ==
  /\ \A n \in Node : remaining[n] = Cardinality(ScheduledIn(n) \ sent)
  /\ \A n \in Node : consumers_left[n] = Cardinality(ScheduledOut(n) \ freed)
  /\ completed = Cardinality(finished)

EdgeInv ==
  /\ \A e \in sent : To[e] \in scheduled /\ outcome[From[e]] \in Settled
  /\ \A e \in freed :
       /\ Restricted
       /\ From[e] \in scheduled \ sinks
       /\ To[e] \in scheduled
       /\ outcome[To[e]] \in Settled

\* A slot is empty again only once every scheduled consumer has let go of it.
Released(n) == Restricted /\ n \notin sinks /\ ScheduledOut(n) \subseteq freed

NodeInv ==
  \A n \in Node :
    /\ n \in ready_heap =>
         n \in scheduled /\ remaining[n] = 0 /\ outcome[n] = "none"
    /\ outcome[n] # "none" => n \in scheduled /\ remaining[n] = 0
    /\ failed[n] <=> outcome[n] \in Bad
    /\ outcome[n] \in Settled => results[n] # "null" \/ Released(n)
    /\ n \in finished => /\ outcome[n] \in Settled
                         /\ ToRelease(n) \subseteq freed
                         /\ ScheduledOut(n) \subseteq sent

WorkerInv ==
  \A w \in Worker :
    /\ pc[w] \in WorkerLabels
    /\ IF pc[w] \in ActiveLabels
       THEN cur[w] \in scheduled /\ remaining[cur[w]] = 0
       ELSE cur[w] = NoNode
    /\ pc[w] = "begin" => outcome[cur[w]] = "none"
    /\ pc[w] = "work" => outcome[cur[w]] = "running"
    /\ pc[w] \in SettledLabels => outcome[cur[w]] \in Settled
    /\ cur[w] \in finished <=> pc[w] = "notify_all"
    /\ IF pc[w] = "push"
       THEN /\ pushing[w] \in scheduled
            /\ remaining[pushing[w]] = 0
            /\ outcome[pushing[w]] = "none"
       ELSE pushing[w] = NoNode

CallerInv ==
  /\ pc[Caller] \in CallerLabels
  /\ pc[Caller] = "seed" => /\ \A w \in Worker : pc[w] = "idle"
                            /\ \A n \in Node : outcome[n] = "none"
                            /\ ready_heap = {}
  /\ pc[Caller] \in {"wake", "join", "returned"} => completed = total_to_run
  /\ status # "running" <=> pc[Caller] = "returned"
  /\ pc[Caller] \notin {"seed", "returned"} => sinks \subseteq Node
  /\ pc[Caller] = "returned" =>
       \A w \in Worker : pc[w] = IF sinks \subseteq Node THEN "exited" ELSE "idle"

\* All the facts a step of any thread preserves together.
IInv ==
  /\ TypeOK
  /\ ArgsInv
  /\ CountInv
  /\ EdgeInv
  /\ NodeInv
  /\ WorkerInv
  /\ CallerInv
  /\ ExecutedOnce

-----------------------------------------------------------------------------
(* What becomes of the nodes, the slots and the failure record, on top of    *)
(* IInv: the promise of GraphRun and what the caller is told rest on it.     *)

\* run_to runs only what a requested node needs; the nodes run_incremental
\* recomputes are all those with no cached value and all that depend on one.
ChoiceInv ==
  /\ Restricted => \A n \in scheduled \ sinks : ScheduledOut(n) # {}
  /\ Incremental => ClosedDownward(dirty) /\ Node \ cache \subseteq dirty

OutcomeInv ==
  /\ FailurePropagates
  /\ \A n \in Node :
       /\ outcome[n] = "cached" => Incremental /\ n \notin dirty
       /\ Incremental /\ outcome[n] \in {"running", "value", "failed"} => n \in dirty

\* What the slot of a settled node holds until it is released.
SlotOf(what) == IF what \in Bad THEN "empty" ELSE what

SlotInv ==
  \A n \in Node :
    /\ results[n] \in {"null"} \cup {SlotOf(outcome[n])}
    /\ n \in scheduled /\ Released(n) => results[n] = "null"

\* record_failure has one winner; until it has written the node's id, it is
\* the only worker that may write it.
BlameInv ==
  /\ failure_recorded <=> \E n \in Node : outcome[n] = "failed"
  /\ failed_node_id # NoNode =>
       IF sinks \subseteq Node THEN failed_node_id \in Node /\ outcome[failed_node_id] = "failed"
                     ELSE failed_node_id \in sinks \ Node
  /\ failure_recorded /\ failed_node_id = NoNode => \E w \in Worker : pc[w] = "record"
  /\ \A w \in Worker : pc[w] = "record" =>
       /\ outcome[cur[w]] = "failed"
       /\ failed_node_id = NoNode
       /\ \A v \in Worker : pc[v] = "record" => v = w

ReturnInv ==
  status # "running" => IF sinks \subseteq Node THEN out_results = Collected /\ status = RunStatus
                        ELSE status = "node_failed" /\ failed_node_id # NoNode

FateInv ==
  /\ ChoiceInv
  /\ OutcomeInv
  /\ SlotInv
  /\ BlameInv
  /\ ReturnInv
  /\ ReadyNodeHasWorker
=============================================================================
