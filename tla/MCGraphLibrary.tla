--------------------------- MODULE MCGraphLibrary ---------------------------
(***************************************************************************)
(* The graph library, one part at a time: a graph that is executed, one    *)
(* that is declared, built and pruned, one that is resolved key by key.    *)
(***************************************************************************)
EXTENDS MCGraphExecutor, MCKeyedBuilder, GraphPasses

VARIABLE part       \* the part of this behavior

LibraryInit ==
  /\ part \in {"run", "build", "resolve"}
  /\ Init /\ KeyedInit /\ PassesInit
  /\ part # "run" => mode = "run"
  /\ part # "resolve" => recipe = CHOOSE r \in Recipe : r.way = "resolver"

LibraryVars == <<part, vars, builder_vars, keyed, passes>>

LibraryNext ==
  \/ part = "run" /\ Next /\ UNCHANGED <<part, builder_vars, keyed, passes>>
  \/ part = "build" /\ PassesNext /\ UNCHANGED <<part, vars, keyed>>
  \/ part = "resolve" /\ KeyedNext /\ UNCHANGED <<part, vars, passes>>
  \/ part # "run" /\ UNCHANGED LibraryVars      \* a client stops at its bounds, or before

LibrarySpec == LibraryInit /\ [][LibraryNext]_LibraryVars
=============================================================================
