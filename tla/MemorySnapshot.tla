--------------------------- MODULE MemorySnapshot ---------------------------
(***************************************************************************)
(* The snapshot and the history ring that the GPU allocators share: pure   *)
(* operators on the ring and on a segment map.  Stack frames, streams and  *)
(* requested sizes are left out.                                           *)
(***************************************************************************)
EXTENDS Integers, Sequences, FiniteSets, FiniteSetsExt, SequencesExt

\* The elements of S in the order that less gives them.
SortedBy(S, less(_, _)) ==
  [i \in 1 .. Cardinality(S) |-> CHOOSE x \in S : Cardinality({y \in S : less(y, x)}) = i - 1]

\* gpu_memory_history
history(enabled, max) == [enabled |-> enabled, max |-> max, entries |-> <<>>]

record(h, action, address, size, allocated, reserved) ==
  LET e == [action |-> action, address |-> address, size |-> size,
            total_allocated |-> allocated, total_reserved |-> reserved]
      kept == IF Len(h.entries) >= h.max THEN Tail(h.entries) ELSE h.entries
  IN  IF h.enabled THEN [h EXCEPT !.entries = Append(kept, e)] ELSE h

\* max_entries = 0 keeps the ring's size; the newest entries stay.
set_enabled(h, enabled, max_entries) ==
  LET max == IF max_entries = 0 THEN h.max ELSE max_entries
      over == Max({0, Len(h.entries) - max})
  IN  [enabled |-> enabled, max |-> max,
       entries |-> IF enabled THEN SubSeq(h.entries, over + 1, Len(h.entries)) ELSE <<>>]

\* A block seen by a snapshot, and the segment entry it is added to.
SeenBlock(address, size, allocated) == [address |-> address, size |-> size, allocated |-> allocated]

add_snapshot_block(segments, base, segment_size, is_small, b) ==
  LET seg == IF base \in DOMAIN segments THEN segments[base]
             ELSE [total_size |-> segment_size, allocated_size |-> 0,
                   is_small |-> is_small, blocks |-> {}]
      new == [seg EXCEPT !.blocks = @ \cup {b},
                         !.allocated_size = @ + IF b.allocated THEN b.size ELSE 0]
  IN  [x \in DOMAIN segments \cup {base} |-> IF x = base THEN new ELSE segments[x]]

\* The segments by address, the blocks of each sorted by address.
finish_snapshot(segments) ==
  LET bases == SortedBy(DOMAIN segments, <)
  IN  [i \in DOMAIN bases |->
         LET seg == segments[bases[i]] IN
         [address |-> bases[i], total_size |-> seg.total_size,
          allocated_size |-> seg.allocated_size, is_small |-> seg.is_small,
          blocks |-> SortedBy(seg.blocks, LAMBDA a, b : a.address < b.address)]]

=============================================================================
