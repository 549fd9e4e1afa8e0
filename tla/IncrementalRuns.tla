--------------------------- MODULE IncrementalRuns ---------------------------
(***************************************************************************)
(* A client that keeps a cache of results and runs a graph again and again *)
(* with graph_executor::run_incremental, changing the version stamps of    *)
(* nodes, losing cache entries and meeting failures in between.  One run   *)
(* is seen here node by node, in any order the dependencies allow, as      *)
(* GraphExecutor implements it.                                            *)
(*                                                                         *)
(* A result is what it was computed from: the set of pairs <<node, stamp>> *)
(* of the node itself and of all its inputs.  Two results of a node agree  *)
(* exactly when they come from the same work on the same inputs.           *)
(*                                                                         *)
(* A definition whose name ends in an underscore and a word is a plausible *)
(* mistake in the definition that follows it; none is part of the model.   *)
(***************************************************************************)
EXTENDS DependencyGraph

CONSTANT Stamp    \* version stamps; 0 is "unstamped"

ASSUME StampAssumption == Stamp \subseteq Nat /\ 0 \in Stamp

VARIABLES
  version,    \* the stamps of the graph as built now
  baseline,   \* baseline_versions: the stamps the cache was computed against
  cached,     \* the nodes with an entry in in_out_cache
  cache,      \* cache[n]: the entry, of significance for n \in cached
  running,    \* a run is in progress
  dirty,      \* nodes to recompute
  settled,    \* nodes with an outcome
  failed,     \* nodes that failed or were skipped
  result,     \* result slots
  recomputed, \* nodes whose work ran in this run, or in the last one
  status      \* of the last run; "none" once the client changed anything

graphvars == <<version, baseline>>
cachevars == <<cached, cache>>
runvars == <<running, dirty, settled, failed, result, recomputed>>
incremental_vars == <<graphvars, cachevars, runvars, status>>

Deps(n) == {From[e] : e \in In(n)}
Upstream(n) == Ancestors({n})

Result == SUBSET (Node \X Stamp)

(* What a full run computes for n when the nodes have the given stamps. *)
Full(n, stamps) == {<<a, stamps[a]>> : a \in Upstream(n)}

RunsInit ==
  /\ version \in [Node -> Stamp]
  /\ baseline = [n \in Node |-> 0]      \* an empty vector: all entries count as 0
  /\ cached = {} /\ cache = [n \in Node |-> {}]
  /\ running = FALSE /\ dirty = {} /\ settled = {} /\ failed = {}
  /\ result = [n \in Node |-> {}]
  /\ recomputed = {}
  /\ status = "none"

---------------------------------------------------------------------------
(* The client between two runs *)

(* The work of a node changes and so does its stamp. *)
Restamp(n, s) ==
  /\ ~running /\ s # version[n]
  /\ version' = [version EXCEPT ![n] = s]
  /\ status' = "none"
  /\ UNCHANGED <<baseline, cachevars, runvars>>

(* An entry of the cache is dropped. *)
Evict(n) ==
  /\ ~running /\ n \in cached
  /\ cached' = cached \ {n}
  /\ cache' = [cache EXCEPT ![n] = {}]
  /\ status' = "none"
  /\ UNCHANGED <<graphvars, runvars>>

---------------------------------------------------------------------------
(* run_incremental *)

version_moved_Forward == {n \in Node : version[n] > baseline[n]}
version_moved == {n \in Node : version[n] # baseline[n]}
no_cache == Node \ cached

Dirty_SeedsOnly == version_moved \cup no_cache
Dirty_All == IF version_moved \cup no_cache = {} THEN {} ELSE Node

Dirty == Descendants(version_moved \cup no_cache)

Start ==
  /\ ~running
  /\ running' = TRUE
  /\ dirty' = Dirty
  /\ settled' = {} /\ failed' = {} /\ recomputed' = {}
  /\ result' = [n \in Node |-> {}]
  /\ status' = "none"
  /\ UNCHANGED <<graphvars, cachevars>>

Ready(n) == running /\ n \notin settled /\ Deps(n) \subseteq settled

(* A dependency failed: the node is skipped. *)
Skip(n) ==
  /\ Ready(n) /\ Deps(n) \cap failed # {}
  /\ settled' = settled \cup {n}
  /\ failed' = failed \cup {n}
  /\ UNCHANGED <<graphvars, cachevars, running, dirty, result, recomputed, status>>

(* A clean node is served from the cache. *)
Serve(n) ==
  /\ Ready(n) /\ Deps(n) \cap failed = {} /\ n \notin dirty
  /\ settled' = settled \cup {n}
  /\ IF n \in cached
     THEN result' = [result EXCEPT ![n] = cache[n]] /\ UNCHANGED failed
     ELSE failed' = failed \cup {n} /\ UNCHANGED result
  /\ UNCHANGED <<graphvars, cachevars, running, dirty, recomputed, status>>

(* A dirty node's work runs on its inputs, and returns or throws. *)
Compute(n) ==
  /\ Ready(n) /\ Deps(n) \cap failed = {} /\ n \in dirty
  /\ settled' = settled \cup {n}
  /\ recomputed' = recomputed \cup {n}
  /\ \/ /\ result' = [result EXCEPT ![n] =
                        {<<n, version[n]>>} \cup UNION {result[d] : d \in Deps(n)}]
        /\ UNCHANGED failed
     \/ /\ failed' = failed \cup {n}
        /\ UNCHANGED result
  /\ UNCHANGED <<graphvars, cachevars, running, dirty, status>>

(* All nodes settled: the cache is rewritten, without the nodes that have  *)
(* failed or were skipped, and the client snapshots the stamps.            *)
Return ==
  /\ running /\ settled = Node
  /\ running' = FALSE
  /\ cached' = Node \ failed
  /\ cache' = [n \in Node |-> IF n \in failed THEN {} ELSE result[n]]
  /\ baseline' = version
  /\ status' = IF failed = {} THEN "success" ELSE "failure"
  /\ UNCHANGED <<version, dirty, settled, failed, result, recomputed>>

RunsNext ==
  \/ \E n \in Node : (\E s \in Stamp : Restamp(n, s)) \/ Evict(n)
  \/ Start
  \/ \E n \in Node : Skip(n) \/ Serve(n) \/ Compute(n)
  \/ Return

RunsSpec == RunsInit /\ [][RunsNext]_incremental_vars

---------------------------------------------------------------------------
(* Properties *)

RunsTypeOK ==
  /\ version \in [Node -> Stamp] /\ baseline \in [Node -> Stamp]
  /\ cached \subseteq Node /\ cache \in [Node -> Result]
  /\ running \in BOOLEAN
  /\ dirty \subseteq Node /\ settled \subseteq Node /\ failed \subseteq settled
  /\ recomputed \subseteq settled
  /\ result \in [Node -> Result]
  /\ status \in {"none", "success", "failure"}

(* Whatever the history of restamping, eviction and failure, an entry of   *)
(* the cache is the result of a full run on the stamps of the baseline:    *)
(* run_incremental never serves an entry computed from an outdated input.  *)
CacheCurrent == \A n \in cached : cache[n] = Full(n, baseline)

(* After a success every node has the result a full run would compute now. *)
SuccessIsFull ==
  status = "success" => cached = Node /\ \A n \in Node : cache[n] = Full(n, version)

(* While a run is in progress a node's work runs only if the stamp of the  *)
(* node or of something it needs differs from its baseline, or an entry of *)
(* them is missing.  A stamp that has moved to 0 differs too: the code     *)
(* compares the two with !=, though the header says that version 0 never   *)
(* triggers a recompute.                                                   *)
Affected(n) == \E a \in Upstream(n) : version[a] # baseline[a] \/ a \notin cached
OnlyAffectedRecompute == running => \A n \in recomputed : Affected(n)
=============================================================================
