--------------------------- MODULE MCKeyedBuilder ---------------------------
(***************************************************************************)
(* Small instances of the keyed builder: one client of plain resolvers;    *)
(* clients whose keys share a need or need each other, with discovery.     *)
(***************************************************************************)
EXTENDS KeyedBuilder

MCRecipe ==
  {[way |-> "resolver", needs |-> <<<<>>, <<>>, <<>>>>, eager |-> TRUE],
   [way |-> "discovery", needs |-> <<<<2, 3>>, <<3>>, <<>>>>, eager |-> TRUE],
   [way |-> "discovery", needs |-> <<<<2, 3>>, <<>>, <<>>>>, eager |-> FALSE],
   [way |-> "discovery", needs |-> <<<<2>>, <<3>>, <<1>>>>, eager |-> FALSE]}
=============================================================================
