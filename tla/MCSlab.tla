------------------------------- MODULE MCSlab -------------------------------
(***************************************************************************)
(* Instances of Slab for TLC.  Pages of 16 bytes with chunks of 4 have     *)
(* three chunks behind the header, as the 1024 bytes chunks of the kernel. *)
(* Callers ask for chunks of one cache, with three pages for slabs, of     *)
(* both, with two, or for blocks.                                          *)
(***************************************************************************)
EXTENDS Slab, TLC

CONSTANTS c1, c2

TwoCores == {c1, c2}
Symmetry == Permutations(TwoCores)
OneCache == <<4>>
TwoCaches == <<4, 5>>
MCWorkloads == {[sizes |-> {4}, taken |-> 5 .. 8],
                [sizes |-> {4, 5}, taken |-> 4 .. 8],
                [sizes |-> {16, 17, 33}, taken |-> {}]}
OneCore == {c1}
OnlyChunks == {[sizes |-> {4}, taken |-> {}]}
ChunksAndBlocks == {[sizes |-> {4, 16}, taken |-> {}]}
=============================================================================
