--------------------------- MODULE MetalAllocator ---------------------------
(***************************************************************************)
(* The Metal caching allocator: segments are buffers packed into heaps,    *)
(* split into blocks that are pooled when free and merged with their free  *)
(* neighbours.  One recursive mutex covers every call from end to end, so  *)
(* a call is one step; only a free-memory callback, run inside allocate(), *)
(* re-enters.  There is one stream and no deferred reuse.                  *)
(*                                                                         *)
(* The allocator's state is a record, and every step of a call an operator *)
(* on such records.  A block is named by its address.  A block's           *)
(* registration_counter is the position of its buffer in "buffers".        *)
(* Hit, miss and driver counters and the profiler's reports are left out.  *)
(*                                                                         *)
(* A definition whose name ends in an underscore and a word is a plausible *)
(* mistake in the definition that follows it; none is part of the model.   *)
(***************************************************************************)
EXTENDS MemorySnapshot

CONSTANTS
  Config,           \* the instances: see ConfigType
  Base,             \* addresses at which a buffer may be placed
  Unlimited,        \* numeric_limits<size_t>::max()
  kMinBlockSize, kSmallSize, kSmallBuffer, kMinLargeAlloc, kLargeBuffer, kRoundLarge,
  kSmallHeapBytes, kLargeHeapBytes

(* What varies between instances: the sizes requested, the memory of the   *)
(* device, the caps and limits set, the ring (0: history off), whether a   *)
(* callback is registered, and whether peaks are followed.                 *)
ConfigType == [sizes : SUBSET (Nat \ {0}), device : Nat, caps : SUBSET Nat, limits : SUBSET Nat,
               ring : Nat, callback : BOOLEAN, peaks : BOOLEAN]

ASSUME MetalAssumption ==
  /\ \A c \in Config : /\ DOMAIN c = {"sizes", "device", "caps", "limits", "ring", "callback", "peaks"}
                       /\ {c.callback, c.peaks} \subseteq BOOLEAN /\ 0 \notin c.sizes
  /\ Base \subseteq Nat /\ Unlimited \in Nat

VARIABLES
  conf,     \* the instance
  m,        \* the allocator
  returned   \* of the last call: "none", "ok", "oom", "emptied", "destroyed"

metalVars == <<conf, m, returned>>

null == -1

CeilTo(n, k) == k * ((n + k - 1) \div k)
round_request_size(n) == IF n < kMinBlockSize THEN kMinBlockSize ELSE CeilTo(n, kMinBlockSize)
segment_size_for(n) ==
  IF n <= kSmallSize THEN kSmallBuffer
  ELSE IF n < kMinLargeAlloc THEN kLargeBuffer ELSE CeilTo(n, kRoundLarge)

---------------------------------------------------------------------------
(* Blocks and pools                                                        *)

is_split(b) == b.prev # null \/ b.next # null
Whole(s) == {a \in s.pool : ~is_split(s.block[a])}      \* cached whole segments
Registered(s, base) == CHOOSE i \in DOMAIN s.buffers : s.buffers[i].base = base
Drop(f, gone) == [a \in DOMAIN f \ gone |-> f[a]]

\* Peaks are left at 0 in the instances that do not follow them.
bump_peak(peak, value) == IF conf.peaks THEN Max({peak, value}) ELSE 0

Traced(s, action, address, size) ==
  [s EXCEPT !.history = record(@, action, address, size, s.allocated, s.reserved)]

\* cache_block_comparator, on blocks of the one stream.
Precedes(s, a, b) ==
  LET x == s.block[a]
      y == s.block[b]
  IN  IF x.size # y.size THEN x.size < y.size
      ELSE IF x.base # y.base THEN Registered(s, x.base) < Registered(s, y.base)
      ELSE a < b

get_free_block(s, is_small, n) ==
  LET fit == {a \in s.pool : s.block[a].is_small = is_small /\ s.block[a].size >= n}
  IN  IF fit = {} THEN null ELSE CHOOSE a \in fit : \A b \in fit \ {a} : Precedes(s, a, b)

Unpooled(s, a) == [s EXCEPT !.pool = @ \ {a}, !.cached = @ - s.block[a].size]

\* The buffer of a whole segment is released with its last block.
release_segment(s, a) ==
  LET t == [s EXCEPT !.reserved = @ - s.block[a].size]
      u == Traced(t, "segment_free", a, s.block[a].size)
  IN  [u EXCEPT !.block = Drop(@, {a}),
                !.buffers = SelectSeq(@, LAMBDA f : f.base # s.block[a].base)]

release_cached_blocks(s) ==
  FoldLeft(LAMBDA t, a : release_segment(Unpooled(t, a), a), s,
           SortedBy(Whole(s), LAMBDA a, b :
             IF s.block[a].is_small # s.block[b].is_small THEN s.block[a].is_small
             ELSE Precedes(s, a, b)))

\* The largest whole segment goes first; of equals, the first met.
RECURSIVE trim_cache(_)
trim_cache(s) ==
  LET victim == CHOOSE a \in Whole(s) :
                  \A b \in Whole(s) \ {a} :
                    \/ s.block[a].size > s.block[b].size
                    \/ /\ s.block[a].size = s.block[b].size
                       /\ \/ s.block[a].is_small /\ ~s.block[b].is_small
                          \/ s.block[a].is_small = s.block[b].is_small /\ Precedes(s, a, b)
  IN  IF s.max_cached = Unlimited \/ s.cached <= s.max_cached \/ Whole(s) = {} THEN s
      ELSE trim_cache(release_segment(Unpooled(s, victim), victim))

\* src is the free neighbour before dst, or after it; dst takes over its range.
try_merge_prev(s, dst) ==
  LET src == s.block[dst].prev
      whole == [s.block[dst] EXCEPT !.prev = s.block[src].prev, !.size = @ + s.block[src].size]
  IN  IF src = null \/ s.block[src].allocated THEN [s |-> s, at |-> dst]
      ELSE [at |-> src,
            s |-> [s EXCEPT !.pool = @ \ {src},
                            !.block = [a \in DOMAIN @ \ {dst} |->
                              IF a = src THEN whole
                              ELSE IF a = s.block[dst].next THEN [@[a] EXCEPT !.prev = src]
                              ELSE @[a]]]]

try_merge_next_stale(s, dst) ==
  LET src == s.block[dst].next
      whole == [s.block[dst] EXCEPT !.next = s.block[src].next, !.size = @ + s.block[src].size]
  IN  IF src = null \/ s.block[src].allocated THEN s
      ELSE [s EXCEPT !.pool = @ \ {src},
                     !.block = [a \in DOMAIN @ \ {src} |-> IF a = dst THEN whole ELSE @[a]]]

try_merge_next(s, dst) ==
  LET src == s.block[dst].next
      whole == [s.block[dst] EXCEPT !.next = s.block[src].next, !.size = @ + s.block[src].size]
  IN  IF src = null \/ s.block[src].allocated THEN s
      ELSE [s EXCEPT !.pool = @ \ {src},
                     !.block = [a \in DOMAIN @ \ {src} |->
                       IF a = dst THEN whole
                       ELSE IF a = s.block[src].next THEN [@[a] EXCEPT !.prev = dst]
                       ELSE @[a]]]

free_block(s, a) ==
  LET one == try_merge_prev(s, a)
      two == try_merge_next(one.s, one.at)
      cached == s.cached + s.block[a].size
      three == [two EXCEPT !.pool = @ \cup {one.at}, !.cached = cached,
                           !.peak_cached = bump_peak(@, cached)]
  IN  Traced(three, "free_completed", one.at, s.block[a].size)

---------------------------------------------------------------------------
(* Segments: in the first heap with room, in a new heap, or a buffer of    *)
(* its own.  The device has conf.device bytes; a heap takes its whole size.*)

Size(f) == f.size
InHeap(s, i) == MapThenSumSet(Size, {f \in ToSet(s.buffers) : f.heap = i})
HeapRoom(s, i) == s.heaps[i] - InHeap(s, i)
DeviceRoom(s) ==
  conf.device - InHeap(s, 0) - SumFunction(s.heaps)

class_bytes(n) == IF n <= kSmallBuffer THEN kSmallHeapBytes ELSE kLargeHeapBytes

\* The heaps afterwards, and the heap of the new buffer: 0 none, -1 no buffer.
make_heap_buffer(s, n) ==
  LET fit == {i \in DOMAIN s.heaps : HeapRoom(s, i) >= n}
      new == Max({class_bytes(n), n})
  IN  IF fit # {} THEN [heaps |-> s.heaps, heap |-> Min(fit)]
      ELSE IF new <= DeviceRoom(s)
      THEN [heaps |-> Append(s.heaps, new), heap |-> Len(s.heaps) + 1]
      ELSE [heaps |-> s.heaps, heap |-> IF n <= DeviceRoom(s) THEN 0 ELSE -1]

\* The lowest address with room (external: the driver's choice).
Place(s, n) ==
  Min({b \in Base : \A f \in ToSet(s.buffers) : b + n <= f.base \/ f.base + f.size <= b})

alloc_segment(s, is_small, n) ==
  LET made == make_heap_buffer(s, n)
      base == Place(s, n)
      t == [s EXCEPT
              !.heaps = made.heaps,
              !.buffers = Append(@, [base |-> base, size |-> n, heap |-> made.heap]),
              !.block = (base :> [size |-> n, prev |-> null, next |-> null, base |-> base,
                                  is_small |-> is_small, allocated |-> FALSE]) @@ @,
              !.reserved = @ + n,
              !.peak_reserved = bump_peak(@, s.reserved + n)]
  IN  IF made.heap = -1 THEN [s |-> s, at |-> null]
      ELSE [s |-> Traced(t, "segment_alloc", base, n), at |-> base]

---------------------------------------------------------------------------
(* Calls                                                                   *)

should_split(b, n) ==
  IF b.is_small THEN b.size - n >= kMinBlockSize ELSE b.size - n > kSmallSize

\* The front n bytes go to the client; the rest of a block that is split is pooled.
alloc_found_block(s, a, n) ==
  LET b == s.block[a]
      rest == a + n
      split == [s EXCEPT
        !.pool = @ \cup {rest}, !.cached = @ + b.size - n,
        !.block = [x \in DOMAIN @ \cup {rest} |->
          IF x = a THEN [b EXCEPT !.size = n, !.next = rest]
          ELSE IF x = rest THEN [b EXCEPT !.size = @ - n, !.prev = a]
          ELSE IF x = b.next THEN [@[x] EXCEPT !.prev = rest]
          ELSE @[x]]]
      t == IF should_split(b, n) THEN split ELSE s
      bytes == s.allocated + t.block[a].size
      u == [t EXCEPT !.block[a].allocated = TRUE, !.live = @ \cup {a},
                     !.allocated = bytes, !.peak_allocated = bump_peak(@, bytes)]
  IN  Traced(u, "alloc", a, u.block[a].size)

deallocate(s, a) ==
  LET t == [s EXCEPT !.live = @ \ {a}, !.block[a].allocated = FALSE,
                     !.allocated = @ - s.block[a].size]
      u == Traced(t, "free_requested", a, s.block[a].size)
  IN  trim_cache(free_block(u, a))

empty_cache(s) ==
  LET t == release_cached_blocks(s)
  IN  IF t.live = {} THEN [t EXCEPT !.heaps = <<>>] ELSE t

\* What a callback may do to the allocator, and whether it says it freed memory.
Callback(s) ==
  IF ~conf.callback THEN {[s |-> s, freed |-> FALSE]}
  ELSE {[s |-> deallocate(s, a), freed |-> TRUE] : a \in s.live}
         \cup {[s |-> empty_cache(s), freed |-> TRUE], [s |-> s, freed |-> FALSE]}

reserved_would_exceed(s, n) == s.reserved + n > s.limit

\* The rest of allocate() when nothing cached fits.
Miss_noflush(s, is_small, n) ==
  IF reserved_would_exceed(s, n) THEN [s |-> s, at |-> null]
  ELSE alloc_segment(s, is_small, n)

Miss(s, is_small, n) ==
  LET t == IF reserved_would_exceed(s, n) THEN release_cached_blocks(s) ELSE s
      one == alloc_segment(t, is_small, n)
      flushed == release_cached_blocks(one.s)
  IN  IF reserved_would_exceed(t, n) THEN [s |-> t, at |-> null]
      ELSE IF one.at # null THEN one
      ELSE alloc_segment(flushed, is_small, n)

NewState(s, result) == m' = s /\ returned' = result /\ UNCHANGED conf

Hit(s, a, n) == NewState(trim_cache(alloc_found_block(Unpooled(s, a), a, n)), "ok")

allocate(size) ==
  LET n == round_request_size(size)
      is_small == n <= kSmallSize
      cached == get_free_block(m, is_small, n)
  IN
  \/ cached # null /\ Hit(m, cached, n)
  \/ /\ cached = null
     /\ \E c \in Callback(m) :
          LET again == IF c.freed THEN get_free_block(c.s, is_small, n) ELSE null
              got == Miss(c.s, is_small, segment_size_for(n))
          IN  \/ again # null /\ Hit(c.s, again, n)
              \/ /\ again = null /\ got.at # null
                 /\ NewState(trim_cache(alloc_found_block(got.s, got.at, n)), "ok")
              \/ /\ again = null /\ got.at = null
                 /\ NewState(Traced(got.s, "oom", 0, size), "oom")

Deallocate(a) == a \in m.live /\ NewState(deallocate(m, a), "ok")

EmptyCache == NewState(empty_cache(m), "emptied")

set_max_cached_bytes(n) == NewState(trim_cache([m EXCEPT !.max_cached = n]), "ok")

set_memory_fraction(n) == NewState([m EXCEPT !.limit = n], "ok")

reset_peak_stats ==
  conf.peaks /\
  NewState([m EXCEPT !.peak_cached = m.cached, !.peak_allocated = m.allocated,
                     !.peak_reserved = m.reserved], "ok")

record_memory_history(enabled, n) ==
  NewState([m EXCEPT !.history = set_enabled(@, enabled, n)], "ok")

\* snapshot(), but for the entry it leaves in the ring.
Snapshot_pooled(s) ==
  finish_snapshot(
    FoldSet(LAMBDA a, acc :
               add_snapshot_block(acc, s.block[a].base,
                                  s.buffers[Registered(s, s.block[a].base)].size,
                                  s.block[a].is_small, SeenBlock(a, s.block[a].size, FALSE)),
             <<>>, s.pool))

Snapshot(s) ==
  finish_snapshot(
    FoldSet(LAMBDA a, acc :
               add_snapshot_block(acc, s.block[a].base,
                                  s.buffers[Registered(s, s.block[a].base)].size,
                                  s.block[a].is_small,
                                  SeenBlock(a, s.block[a].size, s.block[a].allocated)),
             <<>>, s.live \cup s.pool))

\* stats(): the counts a snapshot of the pools adds to the counters.
stats(s) ==
  [cache_blocks |-> Cardinality(s.pool), bytes_cached |-> s.cached,
   inactive_split_bytes |-> MapThenSumSet(LAMBDA a : s.block[a].size, s.pool \ Whole(s))]

snapshot == NewState(Traced(m, "snapshot", 0, 0), "ok")

\* The live block that holds an address, and the offset in its buffer.
resolve_live_allocation(s, p) ==
  LET at == IF p \in s.live THEN {p}
            ELSE {a \in s.live : a <= p /\ p < a + s.block[a].size}
  IN  IF at = {} THEN [found |-> FALSE]
      ELSE LET b == s.block[CHOOSE a \in at : TRUE]
           IN  [found |-> TRUE, handle |-> b.base, offset |-> p - b.base]

\* The destructor deletes what it reaches from the pools and the live blocks along
\* their links: back to the head of the chain, and on from there.
RECURSIVE HeadOf(_, _), Onward(_, _)
HeadOf(s, a) == IF s.block[a].prev = null THEN a ELSE HeadOf(s, s.block[a].prev)
Onward(s, a) == {a} \cup IF s.block[a].next = null THEN {} ELSE Onward(s, s.block[a].next)

release_all_blocks(s) ==
  LET all == UNION {{a} \cup Onward(s, HeadOf(s, a)) : a \in s.pool \cup s.live}
  IN  [s EXCEPT !.block = Drop(@, all), !.pool = {}, !.live = {}, !.heaps = <<>>,
                !.buffers = SelectSeq(@, LAMBDA f : \E a \in DOMAIN s.block \ all : s.block[a].base = f.base),
                !.cached = 0, !.peak_cached = 0]

Constructed ==
  [block |-> <<>>, pool |-> {}, live |-> {}, buffers |-> <<>>, heaps |-> <<>>,
   cached |-> 0, allocated |-> 0, reserved |-> 0,
   peak_cached |-> 0, peak_allocated |-> 0, peak_reserved |-> 0,
   max_cached |-> Unlimited, limit |-> Unlimited,
   history |-> history(FALSE, Max({1, conf.ring}))]

MetalInit == conf \in Config /\ m = Constructed /\ returned = "none"

\* The allocator is destroyed, and the client builds another.
Destroy ==
  LET left == release_all_blocks(m)
  IN  NewState([Constructed EXCEPT !.block = left.block, !.buffers = left.buffers,
                                   !.heaps = left.heaps], "destroyed")

MetalNext ==
  \/ \E n \in conf.sizes : allocate(n)
  \/ \E a \in m.live : Deallocate(a)
  \/ EmptyCache \/ Destroy
  \/ \E n \in conf.caps : set_max_cached_bytes(n)
  \/ \E n \in conf.limits : set_memory_fraction(n)
  \/ reset_peak_stats
  \/ conf.ring > 0 /\ (snapshot \/ record_memory_history(TRUE, conf.ring)
                                \/ record_memory_history(FALSE, 0))

---------------------------------------------------------------------------
(* Correctness                                                             *)

BlocksOf(f) == {a \in DOMAIN m.block : m.block[a].base = f.base}

(* The blocks of every buffer tile it in the order of their links, each    *)
(* either pooled or with a client, and no two free neighbours are left     *)
(* unmerged; buffers fit their heaps and the device.                       *)
Tiled ==
  /\ \A a \in DOMAIN m.block :
       LET b == m.block[a] IN
       /\ b.next # null => /\ b.next = a + b.size /\ b.next \in DOMAIN m.block
                           /\ m.block[b.next].prev = a
                           /\ b.allocated \/ m.block[b.next].allocated
       /\ b.prev = null <=> a = b.base
       /\ b.allocated <=> a \in m.live
  /\ m.pool = DOMAIN m.block \ m.live
  /\ \A f \in ToSet(m.buffers) :
       MapThenSumSet(LAMBDA a : m.block[a].size, BlocksOf(f)) = f.size
  /\ \A i \in DOMAIN m.heaps : HeapRoom(m, i) >= 0
  /\ DeviceRoom(m) >= 0

(* The byte counts are those of the blocks and buffers there are, and the  *)
(* peaks of allocated and reserved bytes are not below their counts.       *)
Accounted ==
  /\ m.cached = MapThenSumSet(LAMBDA a : m.block[a].size, m.pool)
  /\ m.allocated = MapThenSumSet(LAMBDA a : m.block[a].size, m.live)
  /\ m.reserved = MapThenSumSet(Size, ToSet(m.buffers))
  /\ conf.peaks => m.peak_allocated >= m.allocated /\ m.peak_reserved >= m.reserved

(* What the header says of the cache: with a cap, more than the cap stays  *)
(* cached only in split segments; an allocation fails only after the cache *)
(* was flushed; emptying it with nothing live, and the destructor with     *)
(* whatever is live, give everything back.                                 *)
Flushed ==
  /\ m.cached > m.max_cached => Whole(m) = {}
  /\ returned = "oom" => Whole(m) = {}
  /\ returned = "emptied" /\ m.live = {} => m.buffers = <<>> /\ m.heaps = <<>>
  /\ returned = "destroyed" => m.block = <<>> /\ m.buffers = <<>>

(* An address resolves to a buffer exactly when a live block holds it, and *)
(* then to that block's buffer at the right offset.                        *)
Resolves ==
  \A p \in 0 .. Max(Base) + kLargeHeapBytes :
    LET r == resolve_live_allocation(m, p)
        holder == {a \in m.live : p \in a .. a + m.block[a].size - 1}
    IN  /\ r.found <=> holder # {}
        /\ r.found => /\ \A a \in holder : m.block[a].base = r.handle
                      /\ r.handle + r.offset = p

(* A snapshot shows every segment whole: its blocks, in order, add up to   *)
(* the buffer, those marked allocated to its allocated size; all segments  *)
(* together show the bytes the counters hold.                              *)
SnapshotWhole ==
  LET seen == Snapshot(m)
      sum(f(_)) == SumFunction([i \in DOMAIN seen |-> f(seen[i])])
  IN  /\ \A i \in DOMAIN seen :
           /\ SumFunction([j \in DOMAIN seen[i].blocks |-> seen[i].blocks[j].size]) = seen[i].total_size
           /\ \A j \in 1 .. Len(seen[i].blocks) - 1 :
                seen[i].blocks[j].address + seen[i].blocks[j].size = seen[i].blocks[j + 1].address
      /\ sum(LAMBDA g : g.total_size) = m.reserved
      /\ sum(LAMBDA g : g.allocated_size) = m.allocated

(* The ring keeps at most its maximum, and replaying it from its oldest    *)
(* entry gives the totals of every later one.                              *)
Effect(e) ==
  [allocated |-> CASE e.action = "alloc" -> e.size [] e.action = "free_requested" -> -e.size
                   [] OTHER -> 0,
   reserved |-> CASE e.action = "segment_alloc" -> e.size [] e.action = "segment_free" -> -e.size
                  [] OTHER -> 0]

TraceReplays ==
  LET t == m.history.entries IN
  /\ Len(t) <= m.history.max
  /\ \A i \in 1 .. Len(t) - 1 :
       /\ t[i + 1].total_allocated = t[i].total_allocated + Effect(t[i + 1]).allocated
       /\ t[i + 1].total_reserved = t[i].total_reserved + Effect(t[i + 1]).reserved
  /\ t # <<>> => Last(t).total_allocated = m.allocated /\ Last(t).total_reserved = m.reserved

(* The heap the client sees: its blocks and its counters agree.            *)
HeapSound == Tiled /\ Accounted

(* What stats() calls cached but not an inactive split is what a flush     *)
(* would give back.                                                        *)
StatsPredictFlush ==
  LET t == stats(m) IN
  /\ t.bytes_cached - t.inactive_split_bytes = m.reserved - release_cached_blocks(m).reserved
  /\ t.cache_blocks = Cardinality(release_cached_blocks(m).pool) + Cardinality(Whole(m))

(* What a debugging tool is told is true: addresses, segments, history and *)
(* totals.                                                                 *)
DiagnosticsTrue == Resolves /\ SnapshotWhole /\ TraceReplays /\ StatsPredictFlush

=============================================================================
