----------------------------- MODULE StreamHeap -----------------------------
(***************************************************************************)
(* What a caching device allocator promises its clients, with no caching   *)
(* in sight.  Memory is handed out in ranges; every range belongs to the   *)
(* stream it was allocated for.  Kernels run in the order of their stream  *)
(* and may still be in flight after the range they touch was given back.   *)
(* The promise: a range is handed out only if it overlaps no range in use  *)
(* and no kernel in flight on ANOTHER stream touches it.                   *)
(***************************************************************************)
EXTENDS Integers, Sequences

CONSTANTS Stream,   \* execution streams
          Addr      \* device addresses

VARIABLES live,     \* ranges in use: [lo, hi, stream]
          work      \* work[s]: kernels in flight on s and events recorded behind
                    \* them, oldest first: [lo, hi]

heapvars == <<live, work>>

Event == [lo |-> 0, hi |-> 0]   \* it touches nothing

Overlap(a, b) == a.lo < b.hi /\ b.lo < a.hi

InFlight(s) == {work[s][i] : i \in 1 .. Len(work[s])}

Init == /\ live = {}
        /\ work = [s \in Stream |-> <<>>]

(* A range is handed out. *)
Allocate ==
  \E r \in live' \ live :
    /\ live' = live \cup {r}
    /\ \A q \in live : ~Overlap(q, r)
    /\ \A s \in Stream \ {r.stream} : \A k \in InFlight(s) : ~Overlap(k, r)
    /\ UNCHANGED work

(* A range is given back, whatever still runs on it; events may be         *)
(* recorded behind what does.                                              *)
Free == /\ \E r \in live : live' = live \ {r}
        /\ \E on \in SUBSET Stream :
             work' = [s \in Stream |-> IF s \in on THEN Append(work[s], Event) ELSE work[s]]

(* A client starts a kernel on a range in use. *)
Launch == /\ \E r \in live, s \in Stream :
                work' = [work EXCEPT ![s] = Append(@, [lo |-> r.lo, hi |-> r.hi])]
          /\ UNCHANGED live

(* Every stream gets through some of its oldest entries. *)
Complete ==
  /\ \A s \in Stream : \E n \in 0 .. Len(work[s]) :
       work'[s] = SubSeq(work[s], n + 1, Len(work[s]))
  /\ DOMAIN work' = Stream
  /\ UNCHANGED live

(* The allocator is destroyed: all ranges go, after the device is idle. *)
Teardown == /\ live' = {}
            /\ work' = [s \in Stream |-> <<>>]

Next == Allocate \/ Free \/ Launch \/ Complete \/ Teardown

Spec == Init /\ [][Next]_heapvars
=============================================================================
