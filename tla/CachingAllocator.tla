-------------------------- MODULE CachingAllocator --------------------------
(***************************************************************************)
(* The CUDA/HIP caching allocator of one device,                           *)
(* Memory/gpu/cuda_caching_allocator.cpp, with its clients, the driver and *)
(* the streams of the device.                                              *)
(*                                                                         *)
(* The allocator takes whole segments from the driver, splits them into    *)
(* blocks, pools the free blocks, merges free neighbours, and defers the   *)
(* reuse of a block used on other streams until events recorded on those   *)
(* streams have completed.  One recursive mutex protects it; the mutex is  *)
(* dropped around the driver's malloc.  Every stretch of a call between    *)
(* two points where something else may happen is one action; the loops     *)
(* that poll events, wait for events, release and trim take one action for *)
(* each round.                                                             *)
(*                                                                         *)
(* Blocks are named by their address (two blocks never share one), so a    *)
(* cache_block* is an address, and dst taking over the ptr of src in a     *)
(* merge renames dst.  Events are not named: the i-th entry of the queue   *)
(* of a stream waits for the i-th marker recorded on that stream.          *)
(* Statistics other than the three byte counts, the history ring, the      *)
(* profiler reports and virtual-memory backed segments are left out.       *)
(*                                                                         *)
(* A definition whose name ends in an underscore and a word is a plausible *)
(* mistake in the definition that follows it; none is part of the model.   *)
(***************************************************************************)
EXTENDS Integers, Sequences, FiniteSets, FiniteSetsExt, SequencesExt

CONSTANTS
  Thread,          \* host threads
  NoThread,        \* nobody holds the mutex
  Stream,          \* streams
  DefaultStream,   \* the stream nullptr names; it need not be in Stream
  AddrLimit,       \* device addresses are 0 .. AddrLimit - 1
  Base,            \* addresses at which the driver places segments
  Sizes,           \* sizes clients ask for
  CapChoices,      \* arguments of set_max_cached_bytes
  MaxChoices,      \* values set_memory_fraction gives allowed_memory_maximum_
  Unlimited,       \* numeric_limits<size_t>::max()
  MaxKernels,      \* bound: kernels in flight on one stream
  HasCallback,     \* a free-memory callback is registered
  Faults,          \* driver calls that may fail: see FaultKinds
  kMinBlockSize, kSmallSize, kSmallBuffer, kMinLargeAlloc, kLargeBuffer,
  kRoundLarge      \* the size classes of caching_allocator_config.h

FaultKinds == {"oom",      \* cudaMalloc: out of memory though the model has room
               "malloc",   \* cudaMalloc: another error
               "query",    \* cudaEventQuery
               "record",   \* cudaEventRecord or cudaEventCreate
               "sync",     \* cudaEventSynchronize
               "free",     \* cudaFree
               "device",   \* cudaGetDevice or cudaSetDevice, but for the next
               "device_late"}  \* the same before the events of a block are recorded

null == -1
Addr == 0 .. (AddrLimit - 1)

ASSUME AllocatorAssumption ==
  /\ NoThread \notin Thread
  /\ IsFiniteSet(Stream)
  /\ AddrLimit \in Nat /\ Base \subseteq Addr
  /\ Sizes \subseteq Nat \ {0}
  /\ Unlimited \in Nat /\ CapChoices \subseteq Nat /\ MaxChoices \subseteq Nat
  /\ MaxKernels \in Nat
  /\ HasCallback \in BOOLEAN
  /\ Faults \subseteq FaultKinds

(* Each class is a multiple of the smallest block, and a request fits the  *)
(* segment made for it.                                                    *)
ASSUME SizeClassAssumption ==
  /\ {kMinBlockSize, kSmallSize, kSmallBuffer, kMinLargeAlloc, kLargeBuffer, kRoundLarge}
       \subseteq Nat \ {0}
  /\ kSmallSize <= kSmallBuffer /\ kSmallSize <= kMinLargeAlloc
  /\ kMinLargeAlloc <= kLargeBuffer
  /\ \A k \in {kSmallSize, kSmallBuffer, kMinLargeAlloc, kLargeBuffer, kRoundLarge} :
       k % kMinBlockSize = 0

VARIABLES
  \* ---- the allocator
  lock,             \* mutex_
  block,            \* the cache_blocks by address
  pool,             \* small_blocks_ and large_blocks_ (a block knows which)
  live,             \* allocated_blocks_
  queue,            \* cuda_events_: the block of each event, oldest first
  segment,          \* driver_segments_: size of the segment at each base
  bytes_cached, bytes_allocated, bytes_reserved,
  max_cached_bytes, allowed_memory_maximum,
  \* ---- the calls in progress
  pc,               \* where each thread is; "idle" between calls
  req,              \* allocate's size and stream, and the limit it began under
  ptr,              \* the block a thread frees or has just obtained
  hint,             \* deallocate's stream hint
  after,            \* what follows polling or flushing
  nested,           \* the call was made by a free-memory callback
  synced,           \* events of each queue the flush in progress has recycled
  \* ---- the device and the clients
  device,           \* segments the driver has handed out
  work,             \* work[s]: kernels and event markers in flight, oldest first
  declared          \* streams the client of a live block has declared

core == <<block, pool, live, queue, segment>>
bytes == <<bytes_cached, bytes_allocated, bytes_reserved>>
limits == <<max_cached_bytes, allowed_memory_maximum>>
call == <<req, ptr, hint, after, nested, synced>>
world == <<device, work, declared>>
vars == <<lock, core, bytes, limits, pc, call, world>>

Block == [size : 1 .. AddrLimit, stream : Stream, is_small : BOOLEAN,
          allocated : BOOLEAN, prev : Addr \cup {null}, next : Addr \cup {null},
          event_count : Nat, stream_uses : SUBSET Stream, segment_base : Addr]

NoRequest == [size |-> 0, stream |-> DefaultStream, limit |-> Unlimited]

---------------------------------------------------------------------------
(* Sizes: caching_allocator_config.h *)

CeilTo(n, k) == k * ((n + k - 1) \div k)

round_request_size(n) == IF n < kMinBlockSize THEN kMinBlockSize ELSE CeilTo(n, kMinBlockSize)

segment_size_for(n) ==
  IF n <= kSmallSize THEN kSmallBuffer
  ELSE IF n < kMinLargeAlloc THEN kLargeBuffer ELSE CeilTo(n, kRoundLarge)

Rounded(t) == round_request_size(req[t].size)
UsesSmallPool(t) == Rounded(t) <= kSmallSize
SegmentSize(t) == segment_size_for(Rounded(t))

is_split(b) == b.prev # null \/ b.next # null

should_split(b, n) ==
  IF b.is_small THEN b.size - n >= kMinBlockSize ELSE b.size - n > kSmallSize

---------------------------------------------------------------------------
(* The device: kernels touch [lo, hi); a marker stands for an event. *)

Marker == [lo |-> 0, hi |-> 0]
Kernel(a) == [lo |-> a, hi |-> a + block[a].size]
Touches(w, lo, hi) == w.lo < hi /\ lo < w.hi
Pending(s) == Cardinality({i \in 1 .. Len(work[s]) : work[s][i] = Marker})

(* cudaEventQuery: the i-th event queued on s has completed. *)
Completed(s, i) == i <= Len(queue[s]) - Pending(s)

(* cudaFree returns only when no kernel in flight touches the segment. *)
Drained(lo, hi) ==
  [s \in Stream |->
     LET touching == {i \in 1 .. Len(work[s]) : Touches(work[s][i], lo, hi)}
     IN SubSeq(work[s], IF touching = {} THEN 1 ELSE Max(touching) + 1, Len(work[s]))]

---------------------------------------------------------------------------
(* Chains of blocks.  Each operator maps the blocks before to those after. *)

Without(f, a) == Restrict(f, DOMAIN f \ {a})
With(f, a, v) == [x \in DOMAIN f \cup {a} |-> IF x = a THEN v ELSE f[x]]

mergeable(blk, src) ==
  /\ src # null
  /\ ~blk[src].allocated
  /\ blk[src].event_count = 0
  /\ blk[src].stream_uses = {}

(* dst takes over src's range and links; its next neighbour follows it. *)
merge_prev_StaleLink(blk, dst) ==
  LET src == blk[dst].prev IN
  With(Without(blk, dst), src,
       [blk[dst] EXCEPT !.prev = blk[src].prev, !.size = @ + blk[src].size])

merge_prev(blk, dst) ==
  LET src == blk[dst].prev
      merged == [blk[dst] EXCEPT !.prev = blk[src].prev, !.size = @ + blk[src].size]
  IN [a \in DOMAIN blk \ {dst} |->
        IF a = src THEN merged
        ELSE IF a = blk[dst].next THEN [blk[a] EXCEPT !.prev = src]
        ELSE blk[a]]

merge_next(blk, dst) ==
  LET src == blk[dst].next
      merged == [blk[dst] EXCEPT !.next = blk[src].next, !.size = @ + blk[src].size]
  IN [a \in DOMAIN blk \ {src} |->
        IF a = dst THEN merged
        ELSE IF a = blk[src].next THEN [blk[a] EXCEPT !.prev = dst]
        ELSE blk[a]]

(* free_block: merge with prev, then with next, and pool the result. *)
FreeBlock_PrevOnly(blk, a) ==
  LET withPrev == mergeable(blk, blk[a].prev)
      start == IF withPrev THEN blk[a].prev ELSE a
  IN [block |-> IF withPrev THEN merge_prev(blk, a) ELSE blk, pool |-> pool \cup {start}]

FreeBlock(blk, a) ==
  LET withPrev == mergeable(blk, blk[a].prev)
      start == IF withPrev THEN blk[a].prev ELSE a
      blk1 == IF withPrev THEN merge_prev(blk, a) ELSE blk
      src == blk1[start].next
      withNext == mergeable(blk1, src)
  IN [block |-> IF withNext THEN merge_next(blk1, start) ELSE blk1,
      pool |-> (pool \ (IF withNext THEN {src} ELSE {})) \cup {start}]

(* The block of n bytes cut off the front of the block at a; the rest      *)
(* keeps its object and moves up by n.                                     *)
Split(blk, a, n) ==
  LET rest == a + n IN
  [x \in DOMAIN blk \cup {rest} |->
     IF x = a THEN [blk[a] EXCEPT !.size = n, !.next = rest]
     ELSE IF x = rest THEN [blk[a] EXCEPT !.prev = a, !.size = @ - n]
     ELSE IF x = blk[a].next THEN [blk[x] EXCEPT !.prev = rest]
     ELSE blk[x]]

---------------------------------------------------------------------------
(* Calls, their beginning and end *)

Init ==
  /\ lock = NoThread
  /\ block = <<>> /\ pool = {} /\ live = {} /\ segment = <<>>
  /\ queue = [s \in Stream |-> <<>>]
  /\ bytes_cached = 0 /\ bytes_allocated = 0 /\ bytes_reserved = 0
  /\ max_cached_bytes = Unlimited /\ allowed_memory_maximum = Unlimited
  /\ pc = [t \in Thread |-> "idle"]
  /\ req = [t \in Thread |-> NoRequest]
  /\ ptr = [t \in Thread |-> null]
  /\ hint = [t \in Thread |-> DefaultStream]
  /\ after = [t \in Thread |-> "idle"]
  /\ nested = [t \in Thread |-> FALSE]
  /\ synced = [s \in Stream |-> 0]
  /\ device = <<>>
  /\ work = [s \in Stream |-> <<>>]
  /\ declared = <<>>

(* A thread enters the allocator: with the mutex free, or from within a    *)
(* free-memory callback, which already holds it.                           *)
MayEnter(t) == \/ pc[t] = "idle" /\ lock = NoThread
               \/ pc[t] = "callback" /\ HasCallback

Enter(t, where, next) ==
  /\ MayEnter(t)
  /\ lock' = t
  /\ pc' = [pc EXCEPT ![t] = where]
  /\ after' = [after EXCEPT ![t] = next]
  /\ nested' = [nested EXCEPT ![t] = pc[t] = "callback"]

(* The call is over; a callback's call returns to the callback. *)
Leave(t) ==
  /\ lock' = IF nested[t] THEN t ELSE NoThread
  /\ pc' = [pc EXCEPT ![t] = IF nested[t] THEN "callback" ELSE "idle"]
  /\ req' = [req EXCEPT ![t] = IF nested[t] THEN @ ELSE NoRequest]
  /\ nested' = [nested EXCEPT ![t] = FALSE]
  /\ ptr' = [ptr EXCEPT ![t] = null]
  /\ hint' = [hint EXCEPT ![t] = DefaultStream]
  /\ after' = [after EXCEPT ![t] = "idle"]
  /\ UNCHANGED synced

(* An exception ends the call and every call it was made from; the mutex   *)
(* is released if the call held it.                                        *)
Throw(t) ==
  /\ lock' = IF lock = t THEN NoThread ELSE lock
  /\ pc' = [pc EXCEPT ![t] = "idle"]
  /\ req' = [req EXCEPT ![t] = NoRequest]
  /\ nested' = [nested EXCEPT ![t] = FALSE]
  /\ ptr' = [ptr EXCEPT ![t] = null]
  /\ hint' = [hint EXCEPT ![t] = DefaultStream]
  /\ after' = [after EXCEPT ![t] = "idle"]
  /\ synced' = [s \in Stream |-> IF lock = t THEN 0 ELSE synced[s]]

Goto(t, where) == pc' = [pc EXCEPT ![t] = where]

(* The client may name the block at a: it has been returned to it and no   *)
(* thread is freeing it.                                                   *)
Owned(a) == a \in live /\ \A t \in Thread : ptr[t] # a

---------------------------------------------------------------------------
(* process_events_locked and synchronize_and_free_events_locked *)

(* The i-th event of s is recycled; with its last event gone, the block is *)
(* freed.                                                                  *)
Recycle(s, i) ==
  LET a == queue[s][i]
      blk == [block EXCEPT ![a].event_count = @ - 1]
      freed == FreeBlock(blk, a)
      last == blk[a].event_count = 0
  IN /\ block' = IF last THEN freed.block ELSE blk
     /\ pool' = IF last THEN freed.pool ELSE pool
     /\ bytes_cached' = bytes_cached + (IF last THEN block[a].size ELSE 0)

(* A completed event at the head of a queue is popped.  The order in which *)
(* the code visits the streams does not matter: streams are independent.   *)
PollEvent(t, s) ==
  /\ pc[t] = "poll" /\ queue[s] # <<>> /\ Completed(s, 1)
  /\ Recycle(s, 1)
  /\ queue' = [queue EXCEPT ![s] = Tail(@)]
  /\ UNCHANGED <<lock, live, segment, bytes_allocated, bytes_reserved, limits, pc, call, world>>

PollDone(t) ==
  /\ pc[t] = "poll" /\ \A s \in Stream : queue[s] = <<>> \/ ~Completed(s, 1)
  /\ Goto(t, after[t])
  /\ after' = [after EXCEPT ![t] = "idle"]
  /\ UNCHANGED <<lock, core, bytes, limits, req, ptr, hint, nested, synced, world>>

PollThrows(t) ==
  /\ "query" \in Faults
  /\ pc[t] = "poll" /\ \E s \in Stream : queue[s] # <<>>
  /\ Throw(t)
  /\ UNCHANGED <<core, bytes, limits, world>>

(* cudaEventSynchronize returns once the event has completed.  One queue   *)
(* after the other; a queue is erased when all its events were waited for. *)
SyncEvent(t, s) ==
  LET i == synced[s] + 1 IN
  /\ pc[t] = "flush" /\ i <= Len(queue[s]) /\ Completed(s, i)
  /\ \A r \in Stream \ {s} : synced[r] = 0
  /\ Recycle(s, i)
  /\ queue' = [queue EXCEPT ![s] = IF i = Len(@) THEN <<>> ELSE @]
  /\ synced' = [synced EXCEPT ![s] = IF i = Len(queue[s]) THEN 0 ELSE i]
  /\ UNCHANGED <<lock, live, segment, bytes_allocated, bytes_reserved, limits, pc, req, ptr,
                 hint, after, nested, world>>

(* The wait throws: the queue keeps the events already recycled. *)
SyncThrows(t) ==
  /\ "sync" \in Faults
  /\ pc[t] = "flush" /\ \E s \in Stream : queue[s] # <<>>
  /\ Throw(t)
  /\ UNCHANGED <<core, bytes, limits, world>>

---------------------------------------------------------------------------
(* Giving segments back *)

(* release_segment_locked, with the caller's removal from the pool; an     *)
(* error of cudaFree is ignored, and the driver keeps the segment.         *)
Release(a) ==
  LET base == block[a].segment_base IN
  /\ pool' = pool \ {a}
  /\ bytes_cached' = bytes_cached - block[a].size
  /\ bytes_reserved' = bytes_reserved - block[a].size
  /\ block' = Without(block, a)
  /\ segment' = Without(segment, base)
  /\ \/ /\ device' = Without(device, base)
        /\ work' = Drained(base, base + segment[base])
     \/ "free" \in Faults /\ UNCHANGED <<device, work>>

Releasable == {a \in pool : ~is_split(block[a])}

NoEventQueued == \A s \in Stream : queue[s] = <<>>

(* release_cached_blocks_locked once no event is left *)
FlushBlock(t) ==
  /\ pc[t] = "flush" /\ NoEventQueued
  /\ \E a \in Releasable : Release(a)
  /\ UNCHANGED <<lock, live, queue, bytes_allocated, limits, pc, call, declared>>

FlushDone(t) ==
  /\ pc[t] = "flush" /\ NoEventQueued /\ Releasable = {}
  /\ IF after[t] = "return"
     THEN Leave(t)
     ELSE /\ Goto(t, after[t])
          /\ lock' = IF after[t] = "driver_retry" THEN NoThread ELSE lock
          /\ after' = [after EXCEPT ![t] = "idle"]
          /\ UNCHANGED <<req, ptr, hint, nested, synced>>
  /\ UNCHANGED <<core, bytes, limits, world>>

(* trim_cache_locked: largest first *)
Victims_SmallPool == {a \in Releasable : /\ block[a].is_small
                                        /\ \A b \in Releasable : block[b].size <= block[a].size}

Victims == {a \in Releasable : \A b \in Releasable : block[b].size <= block[a].size}

OverCap == max_cached_bytes # Unlimited /\ bytes_cached > max_cached_bytes

TrimBlock(t) ==
  /\ pc[t] = "trim" /\ OverCap
  /\ \E a \in Victims : Release(a)
  /\ UNCHANGED <<lock, live, queue, bytes_allocated, limits, pc, call, declared>>

TrimDone(t) ==
  /\ pc[t] = "trim" /\ (~OverCap \/ Victims = {})
  /\ Leave(t)
  /\ UNCHANGED <<core, bytes, limits, world>>

---------------------------------------------------------------------------
(* allocate *)

Allocate(t, n, s) ==
  /\ pc[t] = "idle"
  /\ Enter(t, "poll", "search")
  /\ req' = [req EXCEPT ![t] = [size |-> n, stream |-> s, limit |-> allowed_memory_maximum]]
  /\ UNCHANGED <<core, bytes, limits, ptr, hint, synced, world>>

(* get_free_block_locked: the smallest block that fits, of the same pool   *)
(* and stream.                                                             *)
Fitting(t) == {a \in pool : /\ block[a].is_small = UsesSmallPool(t)
                            /\ block[a].stream = req[t].stream
                            /\ block[a].size >= Rounded(t)}

BestFit(t) == {a \in Fitting(t) : \A b \in Fitting(t) : block[a].size <= block[b].size}

(* alloc_found_block_locked: the block at a, in no pool, becomes live.     *)
(* "before" and "cached" are the blocks and the pool at that moment.       *)
Found(t, a, before, rest, cached) ==
  LET n == Rounded(t)
      split == should_split(before[a], n)
      blk == IF split THEN Split(before, a, n) ELSE before
  IN /\ block' = [blk EXCEPT ![a].allocated = TRUE]
     /\ pool' = IF split THEN rest \cup {a + n} ELSE rest
     /\ live' = live \cup {a}
     /\ bytes_cached' = cached + (IF split THEN before[a].size - n ELSE 0)
     /\ bytes_allocated' = bytes_allocated + blk[a].size
     /\ declared' = With(declared, a, {})
     /\ ptr' = [ptr EXCEPT ![t] = a]
     /\ Goto(t, "trim")

(* A hit, at once or after the callbacks. *)
Hit(t) ==
  /\ pc[t] \in {"search", "research"}
  /\ \E a \in BestFit(t) : Found(t, a, block, pool \ {a}, bytes_cached - block[a].size)
  /\ UNCHANGED <<lock, queue, segment, bytes_reserved, limits, req, hint, after, nested, synced,
                 device, work>>

(* Nothing fits: run the callbacks. *)
RunCallbacks(t) ==
  /\ pc[t] = "search" /\ BestFit(t) = {}
  /\ Goto(t, "callback")
  /\ UNCHANGED <<lock, core, bytes, limits, call, world>>

(* The callbacks are through; the cache is searched again only if one of   *)
(* them says it freed memory.                                              *)
CallbacksDone(t, freed) ==
  /\ pc[t] = "callback" /\ (freed => HasCallback)
  /\ Goto(t, IF freed THEN "research" ELSE "miss")
  /\ UNCHANGED <<lock, core, bytes, limits, call, world>>

reserved_would_exceed(t) == bytes_reserved + SegmentSize(t) > allowed_memory_maximum

(* A miss within the limit goes to the driver without the mutex; over the  *)
(* limit the cache is flushed and the limit looked at once more.           *)
Miss(t) ==
  /\ \/ pc[t] = "research" /\ BestFit(t) = {}
     \/ pc[t] = "miss"
  /\ IF reserved_would_exceed(t)
     THEN /\ Goto(t, "flush")
          /\ after' = [after EXCEPT ![t] = "recheck"]
          /\ UNCHANGED lock
     ELSE /\ Goto(t, "driver")
          /\ lock' = NoThread
          /\ UNCHANGED after
  /\ UNCHANGED <<core, bytes, limits, req, ptr, hint, nested, synced, world>>

Recheck(t) ==
  /\ pc[t] = "recheck"
  /\ IF reserved_would_exceed(t)
     THEN Throw(t)
     ELSE Goto(t, "driver") /\ lock' = NoThread /\ UNCHANGED call
  /\ UNCHANGED <<core, bytes, limits, world>>

FreeAt(base, n) ==
  /\ base + n <= AddrLimit
  /\ \A b \in DOMAIN device : b + device[b] <= base \/ base + n <= b

(* cudaMalloc, with no mutex held *)
DriverMalloc(t) ==
  /\ pc[t] \in {"driver", "driver_retry"}
  /\ \E base \in Base :
       /\ FreeAt(base, SegmentSize(t))
       /\ device' = With(device, base, SegmentSize(t))
       /\ ptr' = [ptr EXCEPT ![t] = base]
  /\ Goto(t, "mapped")
  /\ UNCHANGED <<lock, core, bytes, limits, req, hint, after, nested, synced, work, declared>>

DriverRefuses_RetriesForever(t) ==
  /\ pc[t] \in {"driver", "driver_retry"}
  /\ "oom" \in Faults \/ \A base \in Base : ~FreeAt(base, SegmentSize(t))
  /\ Goto(t, "refused")
  /\ UNCHANGED <<lock, core, bytes, limits, call, world>>

DriverRefuses(t) ==
  /\ pc[t] \in {"driver", "driver_retry"}
  /\ "oom" \in Faults \/ \A base \in Base : ~FreeAt(base, SegmentSize(t))
  /\ Goto(t, IF pc[t] = "driver" THEN "refused" ELSE "exhausted")
  /\ UNCHANGED <<lock, core, bytes, limits, call, world>>

DriverErrs(t) ==
  /\ "malloc" \in Faults
  /\ pc[t] \in {"driver", "driver_retry"}
  /\ Goto(t, "exhausted")
  /\ UNCHANGED <<lock, core, bytes, limits, call, world>>

(* The mutex is taken again and the new segment, one block so far, is      *)
(* booked and used.                                                        *)
BookSegment(t) ==
  LET base == ptr[t]
      fresh == [size |-> SegmentSize(t), stream |-> req[t].stream, is_small |-> UsesSmallPool(t),
                allocated |-> FALSE, prev |-> null, next |-> null, event_count |-> 0,
                stream_uses |-> {}, segment_base |-> base]
  IN /\ pc[t] = "mapped" /\ lock = NoThread
     /\ lock' = t
     /\ segment' = With(segment, base, SegmentSize(t))
     /\ bytes_reserved' = bytes_reserved + SegmentSize(t)
     /\ Found(t, base, With(block, base, fresh), pool, bytes_cached)
     /\ UNCHANGED <<queue, limits, req, hint, after, nested, synced, device, work>>

(* The first refusal flushes the cache for one retry. *)
FlushForRetry(t) ==
  /\ pc[t] = "refused" /\ lock = NoThread
  /\ lock' = t
  /\ Goto(t, "flush")
  /\ after' = [after EXCEPT ![t] = "driver_retry"]
  /\ UNCHANGED <<core, bytes, limits, req, ptr, hint, nested, synced, world>>

(* The second one, or another driver error, is the caller's. *)
GiveUp(t) ==
  /\ pc[t] = "exhausted" /\ lock = NoThread
  /\ Throw(t)
  /\ UNCHANGED <<core, bytes, limits, world>>

(* The calls that switch to the device throw when they cannot: the         *)
(* driver's malloc, before it is asked; a flush, before it waits for its   *)
(* first event; and what a callback calls.  Where a client's call begins   *)
(* with the switch (polling, empty_cache, set_memory_fraction), it fails   *)
(* with nothing changed, which is no step.                                 *)
FlushDue(t) ==
  \/ pc[t] = "miss" /\ reserved_would_exceed(t)
  \/ pc[t] = "research" /\ BestFit(t) = {} /\ reserved_would_exceed(t)
  \/ pc[t] = "refused" /\ lock = NoThread

DeviceThrows(t) ==
  /\ "device" \in Faults
  /\ \/ pc[t] \in {"driver", "driver_retry"}
     \/ FlushDue(t)
     \/ pc[t] = "callback" /\ HasCallback
  /\ Throw(t)
  /\ UNCHANGED <<core, bytes, limits, world>>

---------------------------------------------------------------------------
(* deallocate, record_stream and the settings *)

(* What the client owes: kernels on other streams than the block's have    *)
(* been declared, by record_stream or by the hint (nullptr is no hint).    *)
Declares(a, s) ==
  \A r \in Stream \ ({block[a].stream} \cup ({s} \ {DefaultStream}) \cup declared[a]) :
    \A i \in 1 .. Len(work[r]) : ~Touches(work[r][i], a, a + block[a].size)

Deallocate(t, a, s) ==
  /\ Owned(a) /\ Declares(a, s)
  /\ Enter(t, "poll", "free")
  /\ ptr' = [ptr EXCEPT ![t] = a]
  /\ hint' = [hint EXCEPT ![t] = s]
  /\ UNCHANGED <<core, bytes, limits, req, synced, world>>

Uses_NoHint(t, b) == b.stream_uses

Uses(t, b) == b.stream_uses \cup ({hint[t]} \ {DefaultStream, b.stream})

(* insert_events_locked: one event on each stream of "on". *)
Recorded(blk, a, on) ==
  /\ block' = [blk EXCEPT ![a].event_count = Cardinality(on), ![a].stream_uses = {}]
  /\ queue' = [s \in Stream |-> IF s \in on THEN Append(queue[s], a) ELSE queue[s]]
  /\ work' = [s \in Stream |-> IF s \in on THEN Append(work[s], Marker) ELSE work[s]]

FreedBytes_Merged(blk, freed, a) == LET m == CHOOSE m \in freed.pool : m <= a /\ a < m + freed.block[m].size
                                    IN freed.block[m].size
FreedBytes(blk, freed, a) == blk[a].size

Unlist(t) ==
  LET a == ptr[t] IN
  /\ live' = live \ {a}
  /\ declared' = Without(declared, a)
  /\ bytes_allocated' = bytes_allocated - block[a].size

(* A block used on its own stream only goes back to its pool at once. *)
FreeNow(t) ==
  LET a == ptr[t]
      blk == [block EXCEPT ![a].allocated = FALSE]
      freed == FreeBlock(blk, a)
  IN /\ pc[t] = "free" /\ Uses(t, block[a]) = {}
     /\ Unlist(t)
     /\ block' = freed.block
     /\ pool' = freed.pool
     /\ bytes_cached' = bytes_cached + FreedBytes(blk, freed, a)
     /\ Goto(t, "trim")
     /\ UNCHANGED <<lock, queue, segment, bytes_reserved, limits, call, device, work>>

(* Otherwise it waits for an event on each of the other streams. *)
FreeLater(t) ==
  LET a == ptr[t]
      blk == [block EXCEPT ![a].allocated = FALSE]
  IN /\ pc[t] = "free" /\ Uses(t, block[a]) # {}
     /\ Unlist(t)
     /\ Recorded(blk, a, Uses(t, block[a]))
     /\ Goto(t, "trim")
     /\ UNCHANGED <<lock, pool, segment, bytes_cached, bytes_reserved, limits, call, device>>

(* Recording fails after some events: those already queued will free the   *)
(* block, or it is freed now if there are none; the error is the caller's. *)
Salvaged_Orphan(blk, a, on) == Recorded(blk, a, on) /\ UNCHANGED <<pool, bytes_cached>>

Salvaged(blk, a, on) ==
  IF on = {}
  THEN LET freed == FreeBlock([blk EXCEPT ![a].stream_uses = {}], a) IN
       /\ block' = freed.block
       /\ pool' = freed.pool
       /\ bytes_cached' = bytes_cached + blk[a].size
       /\ UNCHANGED <<queue, work>>
  ELSE Recorded(blk, a, on) /\ UNCHANGED <<pool, bytes_cached>>

RecordThrows(t) ==
  LET a == ptr[t]
      blk == [block EXCEPT ![a].allocated = FALSE]
  IN /\ "record" \in Faults
     /\ pc[t] = "free"
     /\ Unlist(t)
     /\ \E on \in SUBSET Uses(t, block[a]) \ {Uses(t, block[a])} : Salvaged(blk, a, on)
     /\ Throw(t)
     /\ UNCHANGED <<segment, bytes_reserved, limits, device>>

(* The switch to the device that precedes the recording throws: the block  *)
(* has left the table of live blocks and nothing else has it.              *)
InsertThrows(t) ==
  LET a == ptr[t] IN
  /\ "device_late" \in Faults
  /\ pc[t] = "free" /\ Uses(t, block[a]) # {}
  /\ Unlist(t)
  /\ block' = [block EXCEPT ![a].allocated = FALSE, ![a].stream_uses = Uses(t, block[a])]
  /\ Throw(t)
  /\ UNCHANGED <<pool, queue, segment, bytes_cached, bytes_reserved, limits, device, work>>

record_stream(t, a, s) ==
  /\ pc[t] = "idle" /\ lock = NoThread /\ Owned(a)
  /\ declared' = [declared EXCEPT ![a] = @ \cup {s}]
  /\ block' = [block EXCEPT ![a].stream_uses = @ \cup ({s} \ {DefaultStream, block[a].stream})]
  /\ UNCHANGED <<lock, pool, live, queue, segment, bytes, limits, pc, call, device, work>>

empty_cache(t) ==
  /\ Enter(t, "flush", "return")
  /\ UNCHANGED <<core, bytes, limits, req, ptr, hint, synced, world>>

set_max_cached_bytes(t, n) ==
  /\ pc[t] = "idle" /\ n # max_cached_bytes
  /\ Enter(t, "trim", "idle")
  /\ max_cached_bytes' = n
  /\ UNCHANGED <<core, bytes, allowed_memory_maximum, req, ptr, hint, synced, world>>

set_memory_fraction(t, n) ==
  /\ pc[t] = "idle" /\ lock = NoThread /\ n # allowed_memory_maximum
  /\ allowed_memory_maximum' = n
  /\ UNCHANGED <<lock, core, bytes, max_cached_bytes, pc, call, world>>

---------------------------------------------------------------------------
(* Destruction: the segment of every block found anywhere is freed at the  *)
(* head of the block's chain, as far as cudaFree succeeds.  A new          *)
(* allocator takes over.                                                   *)

Everywhere == pool \cup live \cup UNION {Range(queue[s]) : s \in Stream}

HeadOf(a) ==
  LET head[x \in DOMAIN block] == IF block[x].prev = null THEN x ELSE head[block[x].prev]
  IN head[a]

Destroy ==
  /\ lock = NoThread /\ \A t \in Thread : pc[t] = "idle"
  /\ LET bases == {HeadOf(a) : a \in Everywhere} IN
     \E kept \in SUBSET bases :
       /\ "free" \in Faults \/ kept = {}
       /\ device' = Restrict(device, DOMAIN device \ (bases \ kept))
  /\ block' = <<>> /\ pool' = {} /\ live' = {} /\ segment' = <<>>
  /\ queue' = [s \in Stream |-> <<>>]
  /\ bytes_cached' = 0 /\ bytes_allocated' = 0 /\ bytes_reserved' = 0
  /\ max_cached_bytes' = Unlimited /\ allowed_memory_maximum' = Unlimited
  /\ work' = [s \in Stream |-> <<>>] /\ declared' = <<>>
  /\ UNCHANGED <<lock, pc, call>>

---------------------------------------------------------------------------
(* Clients and the device *)

Launch(a, s) ==
  /\ Owned(a) /\ Len(work[s]) - Pending(s) < MaxKernels
  /\ work' = [work EXCEPT ![s] = Append(@, Kernel(a))]
  /\ UNCHANGED <<lock, core, bytes, limits, pc, call, device, declared>>

Finish(s) ==
  /\ work[s] # <<>>
  /\ work' = [work EXCEPT ![s] = Tail(@)]
  /\ UNCHANGED <<lock, core, bytes, limits, pc, call, device, declared>>

Allocating(t) ==
  \/ \E n \in Sizes, s \in Stream : Allocate(t, n, s)
  \/ Hit(t) \/ RunCallbacks(t) \/ (\E freed \in BOOLEAN : CallbacksDone(t, freed))
  \/ Miss(t) \/ Recheck(t)
  \/ DriverMalloc(t) \/ DriverRefuses(t) \/ DriverErrs(t)
  \/ BookSegment(t) \/ FlushForRetry(t) \/ GiveUp(t) \/ DeviceThrows(t)

Freeing(t) ==
  \/ \E a \in live, s \in Stream \cup {DefaultStream} : Deallocate(t, a, s)
  \/ FreeNow(t) \/ FreeLater(t) \/ RecordThrows(t) \/ InsertThrows(t)

Keeping(t) ==
  \/ \E s \in Stream : PollEvent(t, s)
  \/ PollDone(t) \/ PollThrows(t)
  \/ \E s \in Stream : SyncEvent(t, s)
  \/ SyncThrows(t)
  \/ FlushBlock(t) \/ FlushDone(t) \/ TrimBlock(t) \/ TrimDone(t)

Setting(t) ==
  \/ \E a \in live, s \in Stream : record_stream(t, a, s)
  \/ empty_cache(t)
  \/ \E n \in CapChoices : set_max_cached_bytes(t, n)
  \/ \E n \in MaxChoices : set_memory_fraction(t, n)

Next ==
  \/ \E t \in Thread : Allocating(t) \/ Freeing(t) \/ Keeping(t) \/ Setting(t)
  \/ Destroy
  \/ \E a \in live, s \in Stream : Launch(a, s)
  \/ \E s \in Stream : Finish(s)

Spec == Init /\ [][Next]_vars

(* Threads inside the allocator keep running, a thread that waits for the  *)
(* mutex gets it in the end, a callback ends, and the device makes progress *)
(* on every stream.  Clients need do nothing.                              *)
Fairness ==
  /\ \A t \in Thread :
       /\ WF_vars(Keeping(t))
       /\ WF_vars(Hit(t) \/ RunCallbacks(t) \/ Miss(t) \/ Recheck(t))
       /\ WF_vars(FreeNow(t) \/ FreeLater(t))
       /\ WF_vars(DriverMalloc(t) \/ DriverRefuses(t))
       /\ SF_vars(BookSegment(t) \/ FlushForRetry(t) \/ GiveUp(t))
       /\ SF_vars(CallbacksDone(t, FALSE))
  /\ \A s \in Stream : WF_vars(Finish(s))

FairSpec == Spec /\ Fairness

---------------------------------------------------------------------------
(* Properties *)

(* Types; in particular no block has a size of zero, an event count is     *)
(* never negative, and the byte counts never wrap below zero.              *)
TypeOK ==
  /\ lock \in Thread \cup {NoThread}
  /\ DOMAIN block \subseteq Addr /\ \A a \in DOMAIN block : block[a] \in Block
  /\ pool \subseteq Addr /\ live \subseteq Addr
  /\ queue \in [Stream -> Seq(Addr)]
  /\ DOMAIN segment \subseteq Base /\ \A b \in DOMAIN segment : segment[b] \in Nat \ {0}
  /\ DOMAIN device \subseteq Base /\ \A b \in DOMAIN device : device[b] \in Nat \ {0}
  /\ bytes_cached \in Nat /\ bytes_allocated \in Nat /\ bytes_reserved \in Nat
  /\ max_cached_bytes \in CapChoices \cup {Unlimited}
  /\ allowed_memory_maximum \in MaxChoices \cup {Unlimited}
  /\ ptr \in [Thread -> Addr \cup {null}]
  /\ synced \in [Stream -> Nat]
  /\ DOMAIN declared = live

(* Every block is in exactly one place (the member comment of              *)
(* allocated_blocks_): live, in a pool, or waiting in one event queue for  *)
(* each of its outstanding events.  The one exception is a block whose     *)
(* device switch in insert_events_locked failed: it is nowhere.            *)
Waiting(s) == SubSeq(queue[s], synced[s] + 1, Len(queue[s]))
WaitsOn(a) == {s \in Stream : a \in Range(Waiting(s))}

Stranded(a) == a \notin live /\ block[a].stream_uses # {}

Sorted ==
  /\ pool \cup live \cup UNION {Range(Waiting(s)) : s \in Stream} \subseteq DOMAIN block
  /\ \A s \in Stream : IsInjective(Waiting(s))
  /\ \A a \in DOMAIN block :
       /\ block[a].allocated <=> a \in live
       /\ block[a].event_count = Cardinality(WaitsOn(a))
       /\ a \in pool <=> a \notin live /\ WaitsOn(a) = {} /\ ~Stranded(a)
       /\ a \in live \/ Stranded(a) => WaitsOn(a) = {}
       /\ Stranded(a) => "device_late" \in Faults

(* No block is between the pools and the event queues ("a CUDA error here  *)
(* must not orphan the block between the pools and the event queues").     *)
NotOrphaned == \A a \in DOMAIN block : a \in live \cup pool \/ WaitsOn(a) # {}

(* The blocks of a segment tile it: linked in address order, no gap, no    *)
(* overlap, all of one stream and size class.                              *)
Tiled ==
  /\ DOMAIN segment \subseteq DOMAIN block
  /\ \A a \in DOMAIN block :
       LET b == block[a]
           end == a + b.size
           base == b.segment_base
       IN /\ base \in DOMAIN segment /\ base <= a /\ end <= base + segment[base]
          /\ b.prev = null <=> a = base
          /\ b.next = null <=> end = base + segment[base]
          /\ b.next # null =>
               /\ b.next = end /\ end \in DOMAIN block
               /\ block[end].prev = a /\ block[end].segment_base = base
               /\ block[end].stream = b.stream /\ block[end].is_small = b.is_small

(* No merge is missed: two neighbours are never both free.                 *)
Coalesced == \A a \in pool : block[a].next \notin pool

(* The counters are the sums they stand for, and the driver's segments are *)
(* those booked, but for one a thread is about to book: none is given back *)
(* twice, and none leaks but by cudaFree or by a block that is nowhere     *)
(* when the allocator is destroyed.                                        *)
SegmentsMayLeak == {"free", "device_late"} \cap Faults # {}

TotalSize(S) == SumFunctionOnSet([a \in DOMAIN block |-> block[a].size], S)

Accounted ==
  /\ bytes_cached = TotalSize(pool)
  /\ bytes_allocated = TotalSize(live)
  /\ bytes_reserved = SumFunction(segment)
  /\ LET known == DOMAIN segment \cup {ptr[t] : t \in {u \in Thread : pc[u] = "mapped"}} IN
     /\ known \subseteq DOMAIN device
     /\ known = DOMAIN device \/ SegmentsMayLeak
  /\ \A b \in DOMAIN segment : device[b] = segment[b]

(* Whichever driver calls fail, a call that is cut short leaves every      *)
(* block where it can be found again, its segment booked and its bytes     *)
(* counted; what the two exceptions above lose is all that is lost.        *)
NothingLost == Sorted /\ Accounted

(* Between calls the cache respects max_cached_bytes, when there is a cap,  *)
(* as far as it can: what is over it is all in split blocks, which cannot  *)
(* be released.                                                            *)
CapHeld ==
  (\A t \in Thread : pc[t] = "idle") /\ max_cached_bytes # Unlimited
    /\ bytes_cached > max_cached_bytes
    => \A a \in pool : is_split(block[a])

(* No segment is ever handed out to two owners, and none while another     *)
(* stream still works in it: the allocator keeps the promise of StreamHeap. *)
Promise == INSTANCE StreamHeap WITH
  live <- {[lo |-> a, hi |-> a + block[a].size, stream |-> block[a].stream] : a \in live}

ImplementsStreamHeap == Promise!Spec

(* An allocation begun under a memory fraction does not take the reserved  *)
(* bytes past it ("driver allocations that would push reserved bytes past  *)
(* fraction * device_total_memory() flush the cache and then fail").       *)
FractionHeld ==
  [][\A t \in Thread : BookSegment(t) =>
       bytes_reserved' <= Max({req[t].limit, allowed_memory_maximum})]_vars

(* A call that has begun ends, with a block or with an error.              *)
CallsReturn == \A t \in Thread : pc[t] # "idle" ~> pc[t] = "idle"
=============================================================================
