----------------------- MODULE IncrementalRunsProofs -----------------------
(***************************************************************************)
(* For every acyclic graph, every set of stamps and every history of       *)
(* restamping, eviction, failure and re-running, the cache that            *)
(* run_incremental maintains is what full runs would have computed.        *)
(***************************************************************************)
EXTENDS IncrementalRuns, TLAPS

(* What a run in progress knows.  The dirty set stays the one computed at  *)
(* its start because neither stamps nor cache move during the run.         *)
RunInv ==
  running => /\ dirty = Dirty
             /\ recomputed \subseteq dirty
             /\ \A n \in settled \ failed : result[n] = Full(n, version)

StatusInv == status = "success" => ~running /\ cached = Node /\ baseline = version

IncInv == RunsTypeOK /\ CacheCurrent /\ RunInv /\ StatusInv

---------------------------------------------------------------------------
(* Facts about the graph *)

LEMMA UpstreamSelf == ASSUME NEW n \in Node PROVE n \in Upstream(n)
BY DEF Upstream, Ancestors

LEMMA UpstreamInNode == ASSUME NEW n \in Node PROVE Upstream(n) \subseteq Node
BY DEF Upstream, Ancestors

LEMMA DepsInNode == ASSUME NEW n \in Node PROVE Deps(n) \subseteq Node
BY GraphAssumption DEF Deps, In, GraphAssumption

LEMMA UpstreamClosed == ASSUME NEW n \in Node PROVE ClosedUpward(Upstream(n))
<1> SUFFICES ASSUME NEW e \in Edge, To[e] \in Upstream(n) PROVE From[e] \in Upstream(n)
  BY DEF ClosedUpward
<1>1. From[e] \in Node
  BY GraphAssumption DEF GraphAssumption
<1>2. ASSUME NEW S \in SUBSET Node, {n} \subseteq S, ClosedUpward(S) PROVE From[e] \in S
  <2>1. To[e] \in S
    BY <1>2 DEF Upstream, Ancestors
  <2> QED BY <2>1, <1>2 DEF ClosedUpward
<1> QED BY <1>1, <1>2 DEF Upstream, Ancestors

(* What a dependency needs, its dependent needs. *)
LEMMA UpstreamGrows ==
  ASSUME NEW n \in Node, NEW d \in Deps(n) PROVE Upstream(d) \subseteq Upstream(n)
<1> SUFFICES ASSUME NEW a \in Upstream(d), NEW S \in SUBSET Node, {n} \subseteq S, ClosedUpward(S)
             PROVE a \in S
  BY DEF Upstream, Ancestors
<1>1. PICK e \in Edge : To[e] = n /\ From[e] = d
  BY DEF Deps, In
<1>2. d \in S
  BY <1>1 DEF ClosedUpward
<1> QED BY <1>2 DEF Upstream, Ancestors

(* A node needs itself and what its dependencies need, nothing else. *)
LEMMA UpstreamStep ==
  ASSUME NEW n \in Node
  PROVE Upstream(n) = {n} \cup UNION {Upstream(d) : d \in Deps(n)}
<1> DEFINE S == {n} \cup UNION {Upstream(d) : d \in Deps(n)}
<1>1. S \subseteq Upstream(n)
  BY UpstreamSelf, UpstreamGrows
<1>2. S \in SUBSET Node
  BY UpstreamInNode, DepsInNode
<1>3. ClosedUpward(S)
  <2> SUFFICES ASSUME NEW e \in Edge, To[e] \in S PROVE From[e] \in S
    BY DEF ClosedUpward
  <2>1. CASE To[e] = n
    <3>1. From[e] \in Deps(n)
      BY <2>1 DEF Deps, In
    <3>2. From[e] \in Upstream(From[e])
      BY <3>1, DepsInNode, UpstreamSelf
    <3> QED BY <3>1, <3>2
  <2>2. ASSUME NEW d \in Deps(n), To[e] \in Upstream(d) PROVE From[e] \in S
    <3>1. From[e] \in Upstream(d)
      BY <2>2, DepsInNode, UpstreamClosed DEF ClosedUpward
    <3> QED BY <3>1
  <2> QED BY <2>1, <2>2
<1>4. Upstream(n) \subseteq S
  <2> HIDE DEF S
  <2>1. {n} \subseteq S
    BY DEF S
  <2> QED BY <1>2, <1>3, <2>1 DEF Upstream, Ancestors
<1> QED BY <1>1, <1>4

(* A clean node needs no seed. *)
LEMMA CleanUpstream ==
  ASSUME NEW seeds, seeds \subseteq Node, NEW n \in Node \ Descendants(seeds)
  PROVE Upstream(n) \cap seeds = {}
<1>1. PICK S \in SUBSET Node : seeds \subseteq S /\ ClosedDownward(S) /\ n \notin S
  BY DEF Descendants
<1>2. ClosedUpward(Node \ S)
  BY <1>1, GraphAssumption DEF ClosedUpward, ClosedDownward, GraphAssumption
<1>3. Upstream(n) \subseteq Node \ S
  BY <1>1, <1>2 DEF Upstream, Ancestors
<1> QED BY <1>1, <1>3

(* A dirty node needs one. *)
LEMMA DirtyUpstream ==
  ASSUME NEW seeds, seeds \subseteq Node, NEW n \in Descendants(seeds)
  PROVE \E a \in Upstream(n) : a \in seeds
<1> DEFINE S == {m \in Node : \E a \in Upstream(m) : a \in seeds}
<1>1. seeds \subseteq S
  BY UpstreamSelf
<1>2. ClosedDownward(S)
  <2> SUFFICES ASSUME NEW e \in Edge, From[e] \in S PROVE To[e] \in S
    BY DEF ClosedDownward
  <2>1. To[e] \in Node /\ From[e] \in Deps(To[e])
    BY GraphAssumption DEF GraphAssumption, Deps, In
  <2>2. Upstream(From[e]) \subseteq Upstream(To[e])
    BY <2>1, UpstreamGrows
  <2> QED BY <2>1, <2>2
<1>3. n \in S
  <2> HIDE DEF S
  <2>1. S \in SUBSET Node
    BY DEF S
  <2> QED BY <1>1, <1>2, <2>1 DEF Descendants
<1> QED BY <1>3

---------------------------------------------------------------------------
(* The step that matters: a result computed from full results is full. *)

LEMMA FullStep ==
  ASSUME NEW n \in Node, NEW stamps, NEW res,
         \A d \in Deps(n) : res[d] = Full(d, stamps)
  PROVE {<<n, stamps[n]>>} \cup UNION {res[d] : d \in Deps(n)} = Full(n, stamps)
<1> DEFINE L == {<<n, stamps[n]>>} \cup UNION {res[d] : d \in Deps(n)}
<1>1. ASSUME NEW p \in L PROVE p \in Full(n, stamps)
  <2>1. CASE p = <<n, stamps[n]>>
    BY <2>1, UpstreamSelf DEF Full
  <2>2. ASSUME NEW d \in Deps(n), p \in res[d] PROVE p \in Full(n, stamps)
    <3>1. PICK a \in Upstream(d) : p = <<a, stamps[a]>>
      BY <2>2 DEF Full
    <3>2. a \in Upstream(n)
      BY <3>1, UpstreamGrows
    <3> QED BY <3>1, <3>2 DEF Full
  <2> QED BY <2>1, <2>2
<1>2. ASSUME NEW p \in Full(n, stamps) PROVE p \in L
  <2>1. PICK a \in Upstream(n) : p = <<a, stamps[a]>>
    BY DEF Full
  <2>2. CASE a = n
    BY <2>1, <2>2
  <2>3. ASSUME NEW d \in Deps(n), a \in Upstream(d) PROVE p \in L
    <3>1. p \in res[d]
      BY <2>1, <2>3 DEF Full
    <3> QED BY <3>1
  <2> QED BY <2>2, <2>3, UpstreamStep
<1> QED BY <1>1, <1>2

(* A clean node's entry is the full result on the stamps of now. *)
LEMMA CleanIsFull ==
  ASSUME RunsTypeOK, CacheCurrent, NEW n \in Node \ Dirty
  PROVE n \in cached /\ cache[n] = Full(n, version)
<1> DEFINE seeds == version_moved \cup no_cache
<1>1. seeds \subseteq Node
  BY DEF version_moved, no_cache
<1>2. Upstream(n) \cap seeds = {}
  BY <1>1, CleanUpstream DEF Dirty
<1>3. \A a \in Upstream(n) : version[a] = baseline[a] /\ a \in cached
  BY <1>2, UpstreamInNode DEF version_moved, no_cache
<1>4. Full(n, version) = Full(n, baseline)
  BY <1>3 DEF Full
<1> QED BY <1>3, <1>4, UpstreamSelf DEF CacheCurrent

---------------------------------------------------------------------------

LEMMA InitInv == RunsInit => IncInv
<1> SUFFICES ASSUME RunsInit PROVE IncInv
  OBVIOUS
<1>1. {} \in Result
  BY DEF Result
<1>2. [n \in Node |-> {}] \in [Node -> Result] /\ [n \in Node |-> 0] \in [Node -> Stamp]
  BY <1>1, StampAssumption DEF StampAssumption
<1>3. RunsTypeOK
  BY <1>2 DEF RunsInit, RunsTypeOK
<1> QED BY <1>3 DEF RunsInit, IncInv, CacheCurrent, RunInv, StatusInv

LEMMA StepInv == IncInv /\ [RunsNext]_incremental_vars => IncInv'
<1> SUFFICES ASSUME IncInv, [RunsNext]_incremental_vars PROVE IncInv'
  OBVIOUS
<1> USE DEF IncInv
<1>1. ASSUME NEW n \in Node, NEW s \in Stamp, Restamp(n, s) PROVE IncInv'
  BY <1>1 DEF Restamp, RunsTypeOK, CacheCurrent, RunInv, StatusInv, cachevars, runvars, Full
<1>2. ASSUME NEW n \in Node, Evict(n) PROVE IncInv'
  BY <1>2 DEF Evict, RunsTypeOK, CacheCurrent, RunInv, StatusInv, graphvars, runvars, Full, Result
<1>3. CASE Start
  <2>1. Dirty \subseteq Node
    BY DEF Dirty, Descendants
  <2>2. RunsTypeOK'
    BY <1>3, <2>1 DEF Start, RunsTypeOK, graphvars, cachevars, Result
  <2> QED BY <1>3, <2>2 DEF Start, CacheCurrent, RunInv, StatusInv, graphvars, cachevars, Full,
                            Dirty, version_moved, no_cache
<1>4. ASSUME NEW n \in Node, Skip(n) PROVE IncInv'
  BY <1>4 DEF Skip, Ready, RunsTypeOK, CacheCurrent, RunInv, StatusInv, graphvars, cachevars, Full,
              Dirty, version_moved, no_cache
<1>5. ASSUME NEW n \in Node, Serve(n) PROVE IncInv'
  <2>1. UNCHANGED <<version, baseline, cached, cache, running, dirty, recomputed, status>>
    BY <1>5 DEF Serve, graphvars, cachevars
  <2>2. running /\ n \notin dirty /\ n \notin settled /\ settled' = settled \cup {n}
    BY <1>5 DEF Serve, Ready
  <2>3. n \in cached /\ cache[n] = Full(n, version)
    BY <2>2, CleanIsFull DEF RunInv
  <2>4. result' = [result EXCEPT ![n] = cache[n]] /\ failed' = failed
    BY <1>5, <2>3 DEF Serve
  <2>5. RunsTypeOK'
    BY <2>1, <2>2, <2>4 DEF RunsTypeOK
  <2>6. RunInv'
    BY <2>1, <2>2, <2>3, <2>4 DEF RunInv, RunsTypeOK, Full, Dirty, version_moved, no_cache
  <2> QED BY <2>1, <2>5, <2>6 DEF CacheCurrent, StatusInv, Full
<1>6. ASSUME NEW n \in Node, Compute(n) PROVE IncInv'
  <2> DEFINE new == {<<n, version[n]>>} \cup UNION {result[d] : d \in Deps(n)}
  <2>1. UNCHANGED <<version, baseline, cached, cache, running, dirty, status>>
    BY <1>6 DEF Compute, graphvars, cachevars
  <2>2. /\ running /\ n \in dirty /\ n \notin settled /\ settled' = settled \cup {n}
        /\ Deps(n) \subseteq settled \ failed /\ recomputed' = recomputed \cup {n}
    BY <1>6 DEF Compute, Ready
  <2>3. \/ result' = [result EXCEPT ![n] = new] /\ failed' = failed
        \/ result' = result /\ failed' = failed \cup {n}
    BY <1>6 DEF Compute
  <2>4. new = Full(n, version)
    BY <2>2, FullStep DEF RunInv
  <2>5. Full(n, version) \in Result
    BY UpstreamInNode DEF Full, Result, RunsTypeOK
  <2> HIDE DEF new
  <2>6. RunsTypeOK'
    BY <2>1, <2>2, <2>3, <2>4, <2>5 DEF RunsTypeOK
  <2>7. RunInv'
    <3>1. Dirty' = Dirty /\ \A m \in Node : Full(m, version)' = Full(m, version)
      BY <2>1 DEF Dirty, version_moved, no_cache, Full
    <3>2. \A m \in settled' \ failed' : m # n => m \in settled \ failed /\ result'[m] = result[m]
      BY <2>2, <2>3 DEF RunsTypeOK
    <3>3. n \notin failed' => result'[n] = new
      BY <2>3 DEF RunsTypeOK
    <3>4. \A m \in settled' \ failed' : result'[m] = Full(m, version)
      BY <3>2, <3>3, <2>4, <2>2 DEF RunInv
    <3>5. settled' \subseteq Node
      BY <2>6 DEF RunsTypeOK
    <3> QED BY <2>1, <2>2, <3>1, <3>4, <3>5 DEF RunInv
  <2> QED BY <2>1, <2>6, <2>7 DEF CacheCurrent, StatusInv, Full
<1>7. CASE Return
  <2>1. /\ running /\ settled = Node /\ ~running' /\ version' = version /\ baseline' = version
        /\ cached' = Node \ failed
        /\ cache' = [n \in Node |-> IF n \in failed THEN {} ELSE result[n]]
        /\ status' = (IF failed = {} THEN "success" ELSE "failure")
        /\ UNCHANGED <<dirty, settled, failed, result, recomputed>>
    BY <1>7 DEF Return
  <2>2. RunsTypeOK'
    <3>1. {} \in Result
      BY DEF Result
    <3>2. \A n \in Node : (IF n \in failed THEN {} ELSE result[n]) \in Result
      BY <3>1 DEF RunsTypeOK
    <3>3. cache' \in [Node -> Result]
      BY <2>1, <3>2
    <3>4. /\ version \in [Node -> Stamp] /\ dirty \subseteq Node /\ settled \subseteq Node
          /\ failed \subseteq settled /\ recomputed \subseteq settled
          /\ result \in [Node -> Result]
      BY DEF RunsTypeOK
    <3>5. running' = FALSE /\ status' \in {"none", "success", "failure"}
      BY <2>1
    <3>6. version' \in [Node -> Stamp] /\ baseline' \in [Node -> Stamp] /\ cached' \subseteq Node
      BY <2>1, <3>4
    <3>7. /\ dirty' \subseteq Node /\ settled' \subseteq Node /\ failed' \subseteq settled'
          /\ recomputed' \subseteq settled' /\ result' \in [Node -> Result]
      BY <2>1, <3>4
    <3> QED BY <3>3, <3>5, <3>6, <3>7 DEF RunsTypeOK
  <2>3. CacheCurrent'
    BY <2>1 DEF CacheCurrent, RunInv, Full
  <2> QED BY <2>1, <2>2, <2>3 DEF RunInv, StatusInv
<1>8. CASE UNCHANGED incremental_vars
  BY <1>8 DEF incremental_vars, graphvars, cachevars, runvars, RunsTypeOK, CacheCurrent, RunInv, StatusInv, Full,
              Dirty, version_moved, no_cache
<1> QED BY <1>1, <1>2, <1>3, <1>4, <1>5, <1>6, <1>7, <1>8 DEF RunsNext

(* The invariant that carries the others holds in every behaviour. *)
THEOREM IncrementalInvariance == RunsSpec => []IncInv
BY InitInv, StepInv, PTL DEF RunsSpec

(* An entry of the cache is never out of date with the baseline. *)
THEOREM CacheAlwaysCurrent == RunsSpec => []CacheCurrent
<1>1. IncInv => CacheCurrent
  BY DEF IncInv
<1> QED BY IncrementalInvariance, <1>1, PTL

(* A successful incremental run leaves what a full run would have computed. *)
THEOREM SuccessMeansFull == RunsSpec => []SuccessIsFull
<1>1. IncInv => SuccessIsFull
  BY DEF IncInv, SuccessIsFull, StatusInv, CacheCurrent
<1> QED BY IncrementalInvariance, <1>1, PTL

(* No work runs that no moved stamp and no missing entry calls for. *)
THEOREM RecomputeIsJustified == RunsSpec => []OnlyAffectedRecompute
<1>1. IncInv => OnlyAffectedRecompute
  <2> SUFFICES ASSUME IncInv, running, NEW n \in recomputed PROVE Affected(n)
    BY DEF OnlyAffectedRecompute
  <2> DEFINE seeds == version_moved \cup no_cache
  <2>1. n \in Descendants(seeds)
    BY DEF IncInv, RunInv, Dirty
  <2>2. seeds \subseteq Node
    BY DEF version_moved, no_cache
  <2>3. \E a \in Upstream(n) : a \in seeds
    BY <2>1, <2>2, DirtyUpstream
  <2> QED BY <2>3 DEF Affected, version_moved, no_cache
<1> QED BY IncrementalInvariance, <1>1, PTL
=============================================================================
