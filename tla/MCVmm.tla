------------------------------- MODULE MCVmm --------------------------------
(***************************************************************************)
(* Instances of Vmm for TLC: 81 pages, the upper 27 the kernel's.  The     *)
(* program has a segment across the border of two page tables, one of less *)
(* than a page, and a header that is not to be loaded.                     *)
(***************************************************************************)
EXTENDS Vmm, TLC

CONSTANTS p1, p2

TwoProcs == {p1, p2}
Symmetry == Permutations(TwoProcs)

MCText == <<0, 8>>
MCRodata == <<8, 13>>
MCData == <<16, 31>>
MCMemMap == <<<<0, 35>>, <<40, 40>>>>
MCDevices == <<12, 17>>
MCFb == <<10>>

Header(vaddr, memsz, x, w, load) == [vaddr |-> vaddr, memsz |-> memsz, x |-> x, w |-> w, load |-> load]
Program == [valid |-> TRUE, phdrs |-> <<Header(26 * 8, 9, TRUE, FALSE, TRUE),
                                        Header(0, 8, FALSE, FALSE, FALSE),
                                        Header(30 * 8, 3, FALSE, TRUE, TRUE)>>]
MCElfs == {Program, NoElf}

(* Code that starts in the middle of a page.                               *)
Unaligned == [valid |-> TRUE, phdrs |-> <<Header(34 * 8 + 2, 4, TRUE, FALSE, TRUE),
                                          Header(30 * 8, 4, FALSE, TRUE, TRUE)>>]
MCElfsUnaligned == {Unaligned}
=============================================================================
