------------------------------ MODULE MCArena ------------------------------
(***************************************************************************)
(* A pool of 64 bytes with 8-byte headers: three or four blocks, so that   *)
(* every caller can run twice, meet an exhausted pool at each of its       *)
(* allocations and resizes, and follow any other caller.                   *)
(***************************************************************************)
EXTENDS Arena

MCBlockSizes == {5}
MCFileSizes  == {3}
MCDupSizes   == {6}
=============================================================================
