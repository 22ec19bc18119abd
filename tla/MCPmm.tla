------------------------------- MODULE MCPmm -------------------------------
(***************************************************************************)
(* Instances of Pmm for TLC.  A page of 2 bytes holds the bits of 16       *)
(* frames; the first map needs 2 pages for its 18 frames, the second one a *)
(* page for 8, and has its first usable entry too small for the bitmap.    *)
(***************************************************************************)
EXTENDS Pmm

CONSTANTS c1, c2

TwoCores == {c1, c2}

Entry(base, length, usable) ==
    [base |-> base, length |-> length, usable |-> usable]

Maps == { <<Entry(0, 1, FALSE), Entry(1, 5, TRUE), Entry(6, 10, FALSE),
            Entry(16, 2, TRUE)>>,
          <<Entry(0, 1, TRUE), Entry(1, 2, FALSE), Entry(3, 5, TRUE)>> }
=============================================================================
