------------------------------- MODULE GraphRun -------------------------------
(***************************************************************************)
(* What a run of graph_executor promises its caller (graph_executor.h),    *)
(* with no threads, counters or queues: every scheduled node is settled    *)
(* once, after all its dependencies; a node whose dependency went wrong,   *)
(* or that had not started when the run was cancelled, is skipped; the     *)
(* status names what happened.  A request for a node the graph does not    *)
(* have is refused, and nothing is run.                                    *)
(***************************************************************************)
EXTENDS DependencyGraph

CONSTANTS NoNode, Outside

VARIABLES scheduled,     \* nodes of this run
          clean,         \* scheduled nodes served from the caller's cache
          outside,       \* requested ids that are no node
          cancellable,   \* the run was started by run_async()
          cancel_flag, outcome, status,
          blamed         \* the node a failure status names

vars == <<scheduled, clean, outside, cancellable, cancel_flag, outcome, status, blamed>>
args == <<scheduled, clean, outside, cancellable>>

Good    == {"value", "cached"}
Bad     == {"failed", "skipped"}
Settled == Good \cup Bad

TypeOK ==
  /\ scheduled \subseteq Node
  /\ clean \subseteq Node
  /\ outside \subseteq Outside
  /\ cancellable \in BOOLEAN
  /\ cancel_flag \in BOOLEAN
  /\ outcome \in [Node -> Settled \cup {"none", "running"}]
  /\ status \in {"running", "ok", "node_failed", "cancelled"}
  /\ blamed \in Node \cup Outside \cup {NoNode}

Ready(n) ==
  /\ n \in scheduled
  /\ outcome[n] = "none"
  /\ \A e \in In(n) : outcome[From[e]] \in Settled

Blocked(n) == cancel_flag \/ \E e \in In(n) : outcome[From[e]] \in Bad

Settle(n, what) ==
  /\ outcome' = [outcome EXCEPT ![n] = what]
  /\ UNCHANGED <<args, cancel_flag, status, blamed>>

Init ==
  /\ scheduled \subseteq Node /\ ClosedUpward(scheduled)
  /\ clean \subseteq Node /\ ClosedUpward(clean)
  /\ outside \subseteq Outside
  /\ outside # {} => scheduled = {}
  /\ cancellable \in BOOLEAN
  /\ cancel_flag = FALSE
  /\ outcome = [n \in Node |-> "none"]
  /\ status = "running"
  /\ blamed = NoNode

Skip(n)   == Ready(n) /\ Blocked(n) /\ Settle(n, "skipped")
Serve(n)  == Ready(n) /\ ~Blocked(n) /\ n \in clean /\ Settle(n, "cached")
Start(n)  == Ready(n) /\ ~Blocked(n) /\ n \notin clean /\ Settle(n, "running")
Finish(n) == outcome[n] = "running" /\ \E what \in {"value", "failed"} : Settle(n, what)

Cancel ==
  /\ cancellable /\ status = "running"
  /\ cancel_flag' = TRUE
  /\ UNCHANGED <<args, outcome, status, blamed>>

\* The failure that is reported is the first one recorded.
Failed == {n \in Node : outcome[n] = "failed"}

Blame(n) ==
  /\ n \in Failed
  /\ blamed = NoNode
  /\ blamed' = n
  /\ UNCHANGED <<args, cancel_flag, outcome, status>>

Refuse ==
  /\ status = "running"
  /\ blamed' \in outside
  /\ status' = "node_failed"
  /\ UNCHANGED <<args, cancel_flag, outcome>>

Return ==
  /\ status = "running"
  /\ outside = {}
  /\ \A n \in scheduled : outcome[n] \in Settled
  /\ Failed # {} => blamed \in Failed
  /\ status' = IF cancel_flag THEN "cancelled"
               ELSE IF Failed # {} THEN "node_failed" ELSE "ok"
  /\ UNCHANGED <<args, cancel_flag, outcome, blamed>>

Progress ==
  \/ \E n \in Node : Skip(n) \/ Serve(n) \/ Start(n) \/ Finish(n) \/ Blame(n)
  \/ Refuse \/ Return

Next == Progress \/ Cancel

Spec == Init /\ [][Next]_vars

\* A run of a finite acyclic graph whose works return is driven to its end.
FairSpec == Spec /\ WF_vars(Progress)
=============================================================================
