---------------------------- MODULE MCFoundations ----------------------------
(***************************************************************************)
(* The sequential structures of Core, Memory and Graph and the shared      *)
(* pointer, one at a time: five pointers to one object (the last strong    *)
(* one in its destructor, a weak one being dropped, one being locked, the  *)
(* results of two lock()s); a hash table; the Metal caching allocator; a   *)
(* client that runs one graph again and again with a cache of results.     *)
(***************************************************************************)
EXTENDS IntrusivePtr, FlatHash, MetalAllocator, IncrementalRuns

VARIABLE part       \* the structure of this behavior

MCHandle == 1 .. 5

\* A run of five and its neighbour, two runs that meet, homes that part as the table grows.
MCKind == {[policy |-> "power_of_two", hash |-> <<0, 1, 1, 1, 1, 0>>],
           [policy |-> "fibonacci", hash |-> <<0, 8, 16, 1, 9, 3>>],
           [policy |-> "prime", hash |-> <<1, 12, 23, 3, 4, 3>>]}
MCLoad == {<<1, 2>>, <<1, 1>>}
MCHashKey == 1 .. 6
MCValue == {0, 1}
MCBuckets == {0, 9}

\* A cap and a device that fills; a memory limit and a callback; a ring of two entries;
\* peaks.
MCConfig == {
  [sizes |-> {1, 2}, device |-> 10, caps |-> {1}, limits |-> {}, ring |-> 0,
   callback |-> FALSE, peaks |-> FALSE],
  [sizes |-> {2, 5}, device |-> 14, caps |-> {}, limits |-> {8}, ring |-> 0,
   callback |-> TRUE, peaks |-> FALSE],
  [sizes |-> {1}, device |-> 6, caps |-> {2}, limits |-> {}, ring |-> 2,
   callback |-> FALSE, peaks |-> FALSE],
  [sizes |-> {1}, device |-> 6, caps |-> {}, limits |-> {}, ring |-> 0,
   callback |-> FALSE, peaks |-> TRUE]}
MCBase == {0, 6, 12, 18, 24}

\* Three nodes: 1 feeds 2 twice and 3 once, 2 feeds 3, so that a change of 1 reaches 3
\* on two ways.  An edge is <<dependency, dependent, number>>.
MCNode == 1 .. 3
MCEdge == {<<1, 2, 1>>, <<1, 2, 2>>, <<1, 3, 1>>, <<2, 3, 1>>}
MCFrom == [e \in MCEdge |-> e[1]]
MCTo == [e \in MCEdge |-> e[2]]
MCPriority == [n \in MCNode |-> 4 - n]

MCInit ==
  /\ part \in {"pointer", "hash", "metal", "incremental"}
  /\ Init /\ HashInit /\ MetalInit /\ RunsInit
  /\ part # "pointer" => role[1] = "strong"
  /\ part # "hash" => kind = CHOOSE d \in Kind : TRUE
  /\ part # "metal" => conf = CHOOSE d \in Config : TRUE
  /\ part # "incremental" => version = [n \in Node |-> 0]

MCNext ==
  /\ UNCHANGED part
  /\ \/ part = "pointer" /\ Next /\ UNCHANGED <<hashVars, metalVars, incremental_vars>>
     \/ part = "hash" /\ HashNext /\ UNCHANGED <<vars, metalVars, incremental_vars>>
     \/ part = "metal" /\ MetalNext /\ UNCHANGED <<vars, hashVars, incremental_vars>>
     \/ part = "incremental" /\ RunsNext
        /\ UNCHANGED <<vars, hashVars, metalVars>>

MCSpec == MCInit /\ [][MCNext]_<<part, vars, hashVars, metalVars, incremental_vars>>
=============================================================================
