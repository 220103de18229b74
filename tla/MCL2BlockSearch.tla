-------------------------- MODULE MCL2BlockSearch --------------------------
(***************************************************************************)
(* The search with the arguments the runs pass.  A .cfg file cannot write  *)
(* NoBlock, so the argument sets are definitions.                          *)
(***************************************************************************)
EXTENDS L2BlockSearch

MCMin == {NoBlock, 0, 3}    \* None, 0 and a block behind the genesis block
MCMax == {NoBlock, 6}       \* "latest" and a block that may not exist yet
=============================================================================
