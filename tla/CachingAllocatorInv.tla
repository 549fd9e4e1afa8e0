------------------------- MODULE CachingAllocatorInv -------------------------
(***************************************************************************)
(* The inductive invariant behind the safety properties of                 *)
(* CachingAllocator.  A cudaEventSynchronize that fails is left out: a     *)
(* flush that it cuts short leaves events in a queue that were recycled    *)
(* already (the run of the sync fault shows it), and nothing below holds   *)
(* from there on.                                                          *)
(***************************************************************************)
EXTENDS CachingAllocator

NoSyncFault == "sync" \notin Faults

\* Labels at which a thread holds the mutex, and those at which it does not.
LockedLabels == {"poll", "free", "flush", "trim",
                 "search", "research", "callback", "miss", "recheck"}
OpenLabels   == {"idle", "driver", "driver_retry", "mapped", "refused", "exhausted"}

CallTypes ==
  /\ pc \in [Thread -> LockedLabels \cup OpenLabels]
  /\ req \in [Thread -> [size : Nat, stream : Stream \cup {DefaultStream}, limit : Nat]]
  /\ hint \in [Thread -> Stream \cup {DefaultStream}]
  /\ after \in [Thread -> {"idle", "search", "free", "return", "recheck", "driver_retry"}]
  /\ nested \in [Thread -> BOOLEAN]

LockInv == \A t \in Thread : pc[t] \in LockedLabels <=> lock = t

\* The call in progress is an allocation, or was made by one's callback.
Requesting(t) ==
  \/ pc[t] \in {"search", "research", "callback", "miss", "recheck"}
  \/ pc[t] \in OpenLabels \ {"idle"}
  \/ pc[t] = "poll" /\ after[t] = "search"
  \/ pc[t] = "flush" /\ after[t] # "return"
  \/ nested[t]

CallInv ==
  \A t \in Thread :
    /\ pc[t] = "poll" => after[t] \in {"search", "free"}
    /\ pc[t] = "flush" => after[t] \in {"return", "recheck", "driver_retry"}
    /\ nested[t] => \/ pc[t] \in {"free", "trim"}
                    \/ pc[t] = "poll" /\ after[t] = "free"
                    \/ pc[t] = "flush" /\ after[t] = "return"
    /\ Requesting(t) => req[t].stream \in Stream
    /\ pc[t] = "free" \/ (pc[t] = "poll" /\ after[t] = "free") => ptr[t] \in live

\* A flush alone leaves recycled events at the head of a queue, for a while.
SyncedInv ==
  /\ \A s \in Stream : synced[s] # 0 => synced[s] < Len(queue[s])
  /\ (\E s \in Stream : synced[s] # 0) => \E t \in Thread : pc[t] = "flush"

\* The driver's segments are apart, and no two threads have obtained the same.
DeviceInv ==
  /\ \A b \in DOMAIN device : b + device[b] <= AddrLimit
  /\ \A b, c \in DOMAIN device : b < c => b + device[b] <= c
  /\ \A t \in Thread : pc[t] = "mapped" =>
       /\ ptr[t] \in DOMAIN device \ DOMAIN segment
       /\ device[ptr[t]] = SegmentSize(t)
       /\ \A u \in Thread : pc[u] = "mapped" /\ ptr[u] = ptr[t] => u = t

\* Tiled, with the links followed backwards too and no block inside another.
LinksBack ==
  \A a \in DOMAIN block :
    LET p == block[a].prev IN
    p # null => p \in DOMAIN block /\ block[p].next = a

Apart == \A a, c \in DOMAIN block : a < c => a + block[a].size <= c

HeapInv == Tiled /\ LinksBack /\ Apart

AInv ==
  /\ TypeOK
  /\ CallTypes
  /\ LockInv
  /\ CallInv
  /\ SyncedInv
  /\ DeviceInv
  /\ HeapInv
  /\ Sorted
  /\ Coalesced
  /\ Accounted

\* A thread that has filled the cache past its cap has yet to trim or flush it.
WillTrim(t) == pc[t] \notin {"idle", "recheck", "driver_retry", "exhausted"}

CapInv == OverCap /\ Releasable # {} => \E t \in Thread : WillTrim(t)

\* A thread that found room for its segment under the limit, and has yet to book it.
Committed(t) ==
  \/ pc[t] \in {"driver", "driver_retry", "mapped", "refused"}
  \/ pc[t] = "flush" /\ after[t] = "driver_retry"

FractionInv ==
  \A t \in Thread : Committed(t) => bytes_reserved + SegmentSize(t) <= allowed_memory_maximum

-----------------------------------------------------------------------------
(* Why memory is not handed out while another stream works in it.          *)

\* The kernel k of stream s touches the block at a, which is of another stream.
Foreign(blk, a, s, k) == blk[a].stream # s /\ Touches(k, a, a + blk[a].size)

\* Thread t is freeing the block at a, for a client that has said where it is used.
GivingBack(t, a) == ptr[t] = a /\ (pc[t] = "free" \/ (pc[t] = "poll" /\ after[t] = "free"))

\* Events recorded on s behind its i-th entry: the last so many of queue[s].
Behind(w, i) == Cardinality({j \in (i + 1) .. Len(w) : w[j] = Marker})

HeldBack(s, i, a) ==
  \E q \in 1 .. Len(queue[s]) : queue[s][q] = a /\ q > Len(queue[s]) - Behind(work[s], i)

\* The blocks of other streams that the i-th entry of s may touch: live ones, as
\* long as their client does not free them without naming s, and those that an
\* event behind that entry keeps out of the pools.
Excused(s, i) ==
  {a \in Addr : IF a \in live
                THEN \A t \in Thread : GivingBack(t, a) => s \in declared[a] \cup {hint[t]}
                ELSE HeldBack(s, i, a)}

KernelInv ==
  \A s \in Stream : \A i \in 1 .. Len(work[s]) :
    LET k == work[s][i] IN
    k # Marker =>
      /\ k.lo < k.hi
      /\ \E b \in DOMAIN segment : b <= k.lo /\ k.hi <= b + segment[b]
      /\ \A a \in DOMAIN block : Foreign(block, a, s, k) => a \in Excused(s, i)

\* Recycled events were complete, and live blocks know the streams declared.
EventInv == \A s \in Stream : synced[s] + Pending(s) <= Len(queue[s])

UsesInv ==
  \A a \in live : /\ declared[a] \subseteq Stream
                  /\ block[a].stream_uses = declared[a] \ {DefaultStream, block[a].stream}

WorkType == work \in [Stream -> Seq([lo : Nat, hi : Nat])]

SInv == WorkType /\ KernelInv /\ EventInv /\ UsesInv
=============================================================================
