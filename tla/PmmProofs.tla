----------------------------- MODULE PmmProofs -----------------------------
(***************************************************************************)
(* The safety of the physical memory manager, for every number of cores,   *)
(* every memory map, page size and request size.                           *)
(***************************************************************************)
EXTENDS Pmm, TLAPS

(* First-order steps are left to Zenon; a step that needs arithmetic or    *)
(* function updates cites SMT.                                             *)
USE Zenon

(* A core inside palloc holds pmm_lock, and only a core inside palloc has  *)
(* restarted its search or found its pages.                                *)
LockHeld ==
    /\ \A c \in Core : pages[c] > 0 => pmm_lock = c
    /\ \A c \in retried \cup found : pages[c] > 0

(* What a core found is free until it marks it.                            *)
FoundIsFree ==
    \A c \in found :
        /\ Fits(c)
        /\ bitmap_available(cached_index, pages[c])

(* No block has a frame that was reserved at the start.                    *)
BlocksAvoidReserved ==
    \A b \in blocks : Run(b.base, b.pages) \cap reserved = {}

(* The inductive invariant.  That a block may be handed out rests on what  *)
(* bitmap_available saw still being true when the bits are set, and this   *)
(* on the lock.                                                            *)
IInv ==
    /\ TypeOK
    /\ LockHeld
    /\ FoundIsFree
    /\ BlocksAvoidReserved
    /\ FramesOwnedOnce
    /\ BitsAreAccounted
    /\ SearchMissesNothing

-----------------------------------------------------------------------------
(* The initial states: nothing is handed out, and the reserved frames are  *)
(* those whose bit is set.                                                 *)
LEMMA InitIInv == Init => IInv
<1> SUFFICES ASSUME Init PROVE IInv
    OBVIOUS
<1> USE PmmAssumption
<1>1. PICK m \in MemoryMaps : \E last, home \in 1 .. Len(m) :
          /\ bitmap_max_entries = EndOf(m, last)
          /\ bitmap_base = m[home].base
          /\ used \subseteq 0 .. EndOf(m, last) - 1
          /\ reserved = used
    BY DEF Init
<1>2. PICK last, home \in 1 .. Len(m) :
          /\ bitmap_max_entries = EndOf(m, last)
          /\ bitmap_base = m[home].base
          /\ used \subseteq 0 .. EndOf(m, last) - 1
          /\ reserved = used
    BY <1>1
<1> DEFINE Entry == [base : Nat, length : Nat \ {0}, usable : {TRUE, FALSE}]
<1>3. m \in Seq(Entry)
    OBVIOUS
<1>4. bitmap_max_entries \in Nat /\ bitmap_base \in Nat
    <2>1. m[last] \in Entry /\ m[home] \in Entry
        <3> HIDE DEF Entry
        <3> QED
            BY <1>3, SMT
    <2>2. m[last].base \in Nat /\ m[last].length \in Nat /\ m[home].base \in Nat
        BY <2>1
    <2>3. EndOf(m, last) \in Nat
        BY <2>2, SMTT(30) DEF EndOf
    <2> QED
        BY <1>2, <2>2, <2>3
<1>5. TypeOK
    BY <1>2, <1>4, SMTT(30) DEF Init, TypeOK
<1>6. LockHeld /\ FoundIsFree /\ BlocksAvoidReserved /\ FramesOwnedOnce
    BY SMT DEF Init, LockHeld, FoundIsFree, BlocksAvoidReserved, FramesOwnedOnce
<1>7. BitsAreAccounted /\ SearchMissesNothing
    BY <1>1 DEF Init, BitsAreAccounted, SearchMissesNothing
<1> QED
    BY <1>5, <1>6, <1>7 DEF IInv

(* Taking the lock changes nothing the invariant speaks of but the holder. *)
LEMMA Palloc ==
    ASSUME IInv, NEW c \in Core, NEW n \in 1 .. MaxPages, palloc(c, n)
    PROVE  IInv'
<1> USE PmmAssumption DEF IInv, palloc, LockFree
<1>1. retried = {} /\ found = {}
    BY SMT DEF LockHeld, TypeOK
<1>2. TypeOK'
    BY SMT DEF TypeOK
<1>3. LockHeld'
    BY <1>1 DEF LockHeld, TypeOK
<1>4. FoundIsFree' /\ SearchMissesNothing'
    BY <1>1 DEF FoundIsFree, SearchMissesNothing
<1>5. BlocksAvoidReserved' /\ FramesOwnedOnce' /\ BitsAreAccounted'
    BY DEF BlocksAvoidReserved, FramesOwnedOnce, BitsAreAccounted
<1> QED
    BY <1>2, <1>3, <1>4, <1>5

(* The core that searches is the only one in palloc.                       *)
LEMMA Alone ==
    ASSUME IInv, NEW c \in Core, pages[c] > 0
    PROVE  /\ pmm_lock = c
           /\ retried \subseteq {c} /\ found \subseteq {c}
           /\ \A d \in Core : d # c => pages[d] = 0
           /\ pages[c] \in 1 .. MaxPages
<1> QED
    BY PmmAssumption, SMT DEF IInv, LockHeld, TypeOK

(* What bitmap_available returned TRUE for is recorded.                    *)
LEMMA Found ==
    ASSUME IInv, NEW c \in Core, palloc_found(c)
    PROVE  IInv'
<1> USE PmmAssumption DEF IInv, palloc_found, Searching
<1>1. TypeOK' /\ LockHeld'
    BY DEF TypeOK, LockHeld
<1>2. FoundIsFree'
    BY DEF FoundIsFree, Fits, bitmap_available
<1>3. SearchMissesNothing'
    BY DEF SearchMissesNothing, bitmap_available
<1>4. BlocksAvoidReserved' /\ FramesOwnedOnce' /\ BitsAreAccounted'
    BY DEF BlocksAvoidReserved, FramesOwnedOnce, BitsAreAccounted
<1> QED
    BY <1>1, <1>2, <1>3, <1>4

(* The pages are marked: they were free, so they meet no other block and   *)
(* no reserved frame.                                                      *)
LEMMA Mark ==
    ASSUME IInv, NEW c \in Core, palloc_mark(c)
    PROVE  IInv'
<1> USE PmmAssumption DEF IInv, palloc_mark, Return
<1> DEFINE n == pages[c]
           b == [base |-> cached_index, pages |-> n]
<1>1. pages[c] > 0
    BY DEF LockHeld
<1>2. /\ retried \subseteq {c} /\ found \subseteq {c}
      /\ \A d \in Core : d # c => pages[d] = 0
      /\ n \in 1 .. MaxPages
    BY <1>1, Alone
<1>3. /\ cached_index + n < bitmap_max_entries
      /\ Run(cached_index, n) \cap used = {}
    BY DEF FoundIsFree, Fits, bitmap_available
<1>4. TypeOK'
    <2> USE DEF TypeOK
    <2>1. result' \in [Core -> Nat \cup {NULL}] /\ pages' \in [Core -> 0 .. MaxPages]
        BY SMT
    <2>2. Run(cached_index, n) \subseteq 0 .. bitmap_max_entries - 1
        BY <1>2, <1>3, SMTT(30) DEF Run
    <2>3. used' \subseteq 0 .. bitmap_max_entries - 1
        BY <2>2
    <2>4. b \in Block
        BY <1>2, SMT DEF Block
    <2>5. blocks' \subseteq Block
        BY <2>4
    <2>6. cached_index' \in 0 .. bitmap_max_entries
        BY <1>2, <1>3, SMT
    <2> QED
        BY <2>1, <2>3, <2>5, <2>6
<1>5. LockHeld'
    BY <1>2, SMT DEF LockHeld, TypeOK
<1>6. FoundIsFree' /\ SearchMissesNothing'
    BY <1>2 DEF FoundIsFree, SearchMissesNothing
<1>7. /\ reserved \subseteq used
      /\ \A a \in blocks : Run(a.base, a.pages) \subseteq used
    BY DEF BitsAreAccounted, FramesOwnedOnce
<1>8. /\ blocks' = blocks \cup {b}
      /\ used' = used \cup Run(b.base, b.pages)
      /\ Run(b.base, b.pages) \cap used = {}
      /\ reserved' = reserved
    BY <1>3
<1>9. BlocksAvoidReserved' /\ FramesOwnedOnce' /\ BitsAreAccounted'
    <2> HIDE DEF b, palloc_mark
    <2>1. BlocksAvoidReserved'
        BY <1>7, <1>8 DEF BlocksAvoidReserved
    <2>2. FramesOwnedOnce'
        BY <1>7, <1>8 DEF FramesOwnedOnce
    <2>3. BitsAreAccounted'
        BY <1>8, SMT DEF BitsAreAccounted
    <2> QED
        BY <2>1, <2>2, <2>3
<1> QED
    BY <1>4, <1>5, <1>6, <1>9

(* One index further: the one left behind has no room.                     *)
LEMMA NextStep ==
    ASSUME IInv, NEW c \in Core, palloc_next(c)
    PROVE  IInv'
<1> USE PmmAssumption DEF IInv, palloc_next, Searching, NextIndex
<1>1. /\ retried \subseteq {c} /\ found = {}
      /\ pages[c] \in 1 .. MaxPages
    BY Alone
<1>2. TypeOK'
    BY <1>1, SMT DEF TypeOK, Fits
<1>3. LockHeld' /\ FoundIsFree'
    BY <1>1 DEF LockHeld, FoundIsFree
<1>4. SearchMissesNothing'
    <2> SUFFICES ASSUME NEW d \in retried', NEW i \in 0 .. cached_index' - 1
                 PROVE  ~ bitmap_available(i, pages[d])'
        BY DEF SearchMissesNothing
    <2>1. d = c /\ d \in retried
        BY <1>1
    <2>2. CASE i = cached_index
        BY <2>1, <2>2 DEF bitmap_available
    <2>3. CASE i # cached_index
        <3>1. i \in 0 .. cached_index - 1
            BY <2>3, SMT DEF TypeOK
        <3> QED
            BY <2>1, <3>1 DEF SearchMissesNothing, bitmap_available
    <2> QED
        BY <2>2, <2>3
<1>5. BlocksAvoidReserved' /\ FramesOwnedOnce' /\ BitsAreAccounted'
    BY DEF BlocksAvoidReserved, FramesOwnedOnce, BitsAreAccounted
<1> QED
    BY <1>2, <1>3, <1>4, <1>5

(* The restart, and the return of NULL.                                    *)
LEMMA AtEnd ==
    ASSUME IInv, NEW c \in Core, palloc_retry(c) \/ palloc_fail(c)
    PROVE  IInv'
<1> USE PmmAssumption DEF IInv, palloc_retry, palloc_fail, Searching, Return
<1>1. /\ retried \subseteq {c} /\ found = {}
      /\ \A d \in Core : d # c => pages[d] = 0
      /\ pages[c] \in 1 .. MaxPages
    BY Alone, SMT
<1>2. TypeOK'
    <2>1. CASE palloc_retry(c)
        BY <2>1, SMT DEF TypeOK
    <2>2. CASE palloc_fail(c)
        BY <2>2, SMT DEF TypeOK
    <2> QED
        BY <2>1, <2>2
<1>3. LockHeld'
    BY <1>1, SMT DEF LockHeld, TypeOK
<1>4. FoundIsFree'
    BY <1>1 DEF FoundIsFree
<1>5. SearchMissesNothing'
    BY <1>1, SMT DEF SearchMissesNothing
<1>6. BlocksAvoidReserved' /\ FramesOwnedOnce' /\ BitsAreAccounted'
    BY DEF BlocksAvoidReserved, FramesOwnedOnce, BitsAreAccounted
<1> QED
    BY <1>2, <1>3, <1>4, <1>5, <1>6

(* The bits of a block are reset: no other block has one of them.          *)
LEMMA Pfree ==
    ASSUME IInv, NEW c \in Core, NEW b \in blocks, pfree(c, b)
    PROVE  IInv'
<1> USE PmmAssumption DEF IInv, pfree, LockFree, Freed
<1>1. retried = {} /\ found = {}
    BY SMT DEF LockHeld, TypeOK
<1>2. TypeOK'
    BY DEF TypeOK
<1>3. LockHeld' /\ FoundIsFree' /\ SearchMissesNothing'
    BY <1>1 DEF LockHeld, FoundIsFree, SearchMissesNothing
<1>4. BlocksAvoidReserved'
    BY DEF BlocksAvoidReserved
<1>5. FramesOwnedOnce'
    BY DEF FramesOwnedOnce
<1>6. BitsAreAccounted'
    BY SMTT(30) DEF BitsAreAccounted, FramesOwnedOnce, BlocksAvoidReserved
<1> QED
    BY <1>2, <1>3, <1>4, <1>5, <1>6

(* Every step preserves the invariant.                                     *)
LEMMA NextIInv == IInv /\ [Next]_vars => IInv'
<1> SUFFICES ASSUME IInv, [Next]_vars PROVE IInv'
    OBVIOUS
<1>1. CASE Next
    BY <1>1, Palloc, Found, Mark, NextStep, AtEnd, Pfree DEF Next, Search
<1>2. CASE UNCHANGED vars
    BY <1>2 DEF vars, IInv, TypeOK, LockHeld, FoundIsFree, Fits,
        BlocksAvoidReserved, FramesOwnedOnce, BitsAreAccounted,
        SearchMissesNothing, bitmap_available
<1> QED
    BY <1>1, <1>2

(* The inductive invariant holds of every behaviour of the page allocator. *)
LEMMA Inductive == Spec => []IInv
<1> QED
    BY InitIInv, NextIInv, PTL DEF Spec

(* palloc gives no frame to two callers, and none that init_pmm reserved:  *)
(* on every machine, whatever the cores do.                                *)
THEOREM OwnedOnce == Spec => [](FramesOwnedOnce /\ BlocksAvoidReserved)
<1>1. IInv => FramesOwnedOnce /\ BlocksAvoidReserved
    BY DEF IInv
<1> QED
    BY <1>1, Inductive, PTL

(* The bitmap of palloc and pfree is exactly the reserved frames and the   *)
(* blocks handed out: no frame leaks.                                      *)
THEOREM NoLeak == Spec => []BitsAreAccounted
<1>1. IInv => BitsAreAccounted
    BY DEF IInv
<1> QED
    BY <1>1, Inductive, PTL

(* The second search of palloc passes over no run of free frames that is   *)
(* large enough, so that NULL is the answer only when there is none.       *)
THEOREM Complete == Spec => []SearchMissesNothing
<1>1. IInv => SearchMissesNothing
    BY DEF IInv
<1> QED
    BY <1>1, Inductive, PTL

(* palloc sets no bit behind the end of the bitmap.                        *)
THEOREM InBounds == Spec => []TypeOK
<1>1. IInv => TypeOK
    BY DEF IInv
<1> QED
    BY <1>1, Inductive, PTL
-----------------------------------------------------------------------------
(* The frame that holds the bit of frame f.                                *)
FrameOfBit(f) == bitmap_base + (f \div 8) \div PageSize

(* Every frame of the bitmap is reserved.                                  *)
BitmapReserved == \A f \in 0 .. bitmap_max_entries - 1 : FrameOfBit(f) \in reserved

(* palign leaves room for the bit of every frame.                          *)
LEMMA BitmapHoldsBits ==
    ASSUME NEW frames \in Nat, NEW f \in 0 .. frames - 1
    PROVE  /\ palign(frames) \div PageSize \in Nat
           /\ (f \div 8) \div PageSize \in 0 .. palign(frames) \div PageSize - 1
<1> USE PmmAssumption
<1> DEFINE bytes == frames \div 8 + (IF (frames \div 8) * 8 < frames THEN 1 ELSE 0)
           full == bytes \div PageSize
           k == full + (IF full * PageSize < bytes THEN 1 ELSE 0)
           byte == f \div 8
           q == byte \div PageSize
<1>1. bytes \in Nat /\ byte \in Nat /\ byte < bytes
    BY SMT
<1> HIDE DEF bytes, byte
<1>2. full \in Nat /\ bytes < full * PageSize + PageSize
    BY <1>1, SMT
<1>3. q \in Nat /\ q * PageSize <= byte
    BY <1>1, SMT
<1> HIDE DEF full, q
<1>4. k \in Nat /\ bytes <= k * PageSize
    <2>1. CASE full * PageSize < bytes
        <3>1. k = full + 1
            BY <2>1
        <3>2. k * PageSize = full * PageSize + PageSize
            BY <3>1, <1>2, SMT
        <3>3. full * PageSize \in Nat
            BY <1>2, SMT
        <3> QED
            BY <1>1, <1>2, <3>1, <3>2, <3>3, SMT
    <2>2. CASE ~ (full * PageSize < bytes)
        <3>1. k = full
            BY <2>2, <1>2, SMT
        <3>2. full * PageSize \in Nat
            BY <1>2, SMT
        <3> QED
            BY <1>1, <1>2, <2>2, <3>1, <3>2, SMT
    <2> QED
        BY <2>1, <2>2
<1>5. palign(frames) = k * PageSize
    BY DEF palign, k, full, bytes
<1> HIDE DEF k
<1>6. (k * PageSize) \div PageSize = k
    BY <1>4, SMT
<1>7. q < k
    <2> SUFFICES ASSUME q >= k PROVE FALSE
        BY <1>3, <1>4, SMT
    <2>1. PICK d \in Nat : q = k + d
        <3>1. q - k \in Nat /\ q = k + (q - k)
            BY <1>3, <1>4, SMT
        <3> QED
            BY <3>1
    <2>2. q * PageSize = k * PageSize + d * PageSize
        BY <2>1, <1>4, SMT
    <2>3. d * PageSize \in Nat /\ k * PageSize \in Nat
        BY <1>4, SMT
    <2> QED
        BY <1>1, <1>3, <1>4, <2>2, <2>3, SMT
<1> QED
    BY <1>3, <1>4, <1>5, <1>6, <1>7, SMT DEF q, byte

(* The end of a run of frames is a number.                                 *)
LEMMA Sums == \A a, b \in Nat : a + b \in Nat
<1> QED
    BY SMT

(* What init_pmm cuts off an entry meets no entry in front of it or behind *)
(* it.                                                                     *)
LEMMA Outside ==
    \A a, la, b, lb, n, size \in Nat :
        /\ n < size /\ size < lb
        /\ a + la <= b \/ b + lb <= a
        => b + n \notin Run(a, la)
<1> QED
    BY SMT DEF Run

(* The frames init_pmm cuts off for the bitmap are in no usable entry of   *)
(* the map any more, and below the end of memory.                          *)
LEMMA CarvedAway ==
    ASSUME NEW m \in MemoryMaps, NEW last \in 1 .. Len(m), NEW home \in 1 .. Len(m),
           NEW size \in Nat, IsLast(m, last), IsHome(m, home, size),
           NEW n \in 0 .. size - 1
    PROVE  m[home].base + n \in (0 .. EndOf(m, last) - 1) \ FreeFrames(Carved(m, home, size))
<1> DEFINE Entry == [base : Nat, length : Nat \ {0}, usable : {TRUE, FALSE}]
           f == m[home].base + n
           cut == Carved(m, home, size)
<1>1. m \in Seq(Entry)
    BY PmmAssumption
<1>2. \A j \in 1 .. Len(m) : m[j] \in Entry
    <2> HIDE DEF Entry
    <2> QED
        BY <1>1, SMT
<1>3. \A j \in 1 .. Len(m) : m[j].base \in Nat /\ m[j].length \in Nat
    BY <1>2
<1>4. home \in UsableEntries(m) /\ last \in UsableEntries(m) /\ home <= last /\ m[home].length > size
    BY DEF IsLast, IsHome
<1>5. f \in 0 .. EndOf(m, last) - 1
    <2>1. f < EndOf(m, home)
        BY <1>3, <1>4, SMT DEF EndOf
    <2>2. EndOf(m, home) <= EndOf(m, last)
        <3>1. home < last => EndOf(m, home) <= m[last].base
            BY <1>4, MapsAssumption
        <3>2. home = last \/ home < last
            BY <1>4, SMT
        <3> QED
            BY <1>3, <3>1, <3>2, SMTT(30) DEF EndOf
    <2>3. m[home].base \in Nat /\ m[home].length \in Nat /\ n \in Nat
        BY <1>3, SMT
    <2>4. f \in Nat /\ EndOf(m, home) \in Nat
        BY <2>3, Sums DEF EndOf
    <2>5. m[last].base \in Nat /\ m[last].length \in Nat
        BY <1>3
    <2>6. EndOf(m, last) \in Nat
        BY <2>5, Sums DEF EndOf
    <2> HIDE DEF f
    <2> QED
        BY <2>1, <2>2, <2>4, <2>6, SMT
<1>6. ASSUME NEW j \in UsableEntries(cut)
      PROVE  f \notin Run(cut[j].base, cut[j].length)
    <2>1. DOMAIN m = 1 .. Len(m)
        BY <1>1, SMT
    <2>2. /\ cut = [m EXCEPT ![home] = [m[home] EXCEPT !.base = @ + size, !.length = @ - size]]
          /\ DOMAIN cut = 1 .. Len(m)
        BY <2>1 DEF Carved
    <2>3. m[home] = [base |-> m[home].base, length |-> m[home].length, usable |-> m[home].usable]
        BY <1>2
    <2>4. Len(cut) = Len(m)
        BY <2>2, SMT
    <2>5. j \in 1 .. Len(m)
        BY <2>4 DEF UsableEntries
    <2>6. /\ m[j].base \in Nat /\ m[j].length \in Nat
          /\ m[home].base \in Nat /\ m[home].length \in Nat
          /\ n \in Nat /\ n < size
        BY <1>3, <2>5, SMT
    <2>7. CASE j = home
        <3>1. cut[j].base = m[home].base + size
            BY <2>1, <2>2, <2>3, <2>7
        <3>2. cut[j].length = m[home].length - size
            BY <2>1, <2>2, <2>3, <2>7
        <3> QED
            BY <1>3, <3>1, <3>2, SMT DEF Run
    <2>8. CASE j # home
        <3>1. cut[j] = m[j]
            BY <2>1, <2>2, <2>5, <2>8
        <3>2. j \in UsableEntries(m)
            BY <2>4, <3>1 DEF UsableEntries
        <3>3. CASE j < home
            <4>1. EndOf(m, j) <= m[home].base
                BY <1>4, <3>2, <3>3, MapsAssumption
            <4> QED
                BY <2>6, <3>1, <4>1, <1>4, Outside DEF EndOf
        <3>4. CASE home < j
            <4>1. EndOf(m, home) <= m[j].base
                BY <1>4, <3>2, <3>4, MapsAssumption
            <4> QED
                BY <1>4, <2>6, <3>1, <4>1, Outside DEF EndOf
        <3> QED
            BY <2>5, <2>8, <3>3, <3>4, SMT
    <2> QED
        BY <2>7, <2>8
<1>7. f \notin FreeFrames(cut)
    BY <1>6 DEF FreeFrames
<1> QED
    BY <1>5, <1>7

(* init_pmm reserves its bitmap.                                           *)
LEMMA InitReserves == Init => BitmapReserved
<1> SUFFICES ASSUME Init, NEW f \in 0 .. bitmap_max_entries - 1
             PROVE  FrameOfBit(f) \in reserved
    BY DEF BitmapReserved
<1> USE PmmAssumption
<1> DEFINE Start(m, last, home) ==
        LET frames == EndOf(m, last)
            size == palign(frames) \div PageSize
        IN  /\ IsLast(m, last)
            /\ IsHome(m, home, size)
            /\ bitmap_max_entries = frames
            /\ bitmap_base = m[home].base
            /\ used = (0 .. frames - 1) \ FreeFrames(Carved(m, home, size))
            /\ reserved = used
<1>a. PICK m \in MemoryMaps : \E last, home \in 1 .. Len(m) : Start(m, last, home)
    BY DEF Init
<1>1. PICK last, home \in 1 .. Len(m) : Start(m, last, home)
    BY <1>a
<1> DEFINE size == palign(EndOf(m, last)) \div PageSize
<1>2. EndOf(m, last) \in Nat
    BY <1>1, InitIInv DEF IInv, TypeOK
<1>3. size \in Nat /\ (f \div 8) \div PageSize \in 0 .. size - 1
    BY <1>1, <1>2, BitmapHoldsBits
<1> HIDE DEF size
<1>4. m[home].base + (f \div 8) \div PageSize
          \in (0 .. EndOf(m, last) - 1) \ FreeFrames(Carved(m, home, size))
    BY <1>1, <1>3, CarvedAway DEF size
<1> QED
    BY <1>1, <1>4 DEF FrameOfBit, size

(* The bit of no frame lies in memory that palloc has handed out, on any   *)
(* machine whose memory map is in order: init_pmm cuts the bitmap off the  *)
(* map and makes it large enough.                                          *)
THEOREM BitmapSafe == Spec => []BitmapOutOfReach
<1>1. BitmapReserved /\ [Next]_vars => BitmapReserved'
    <2> SUFFICES ASSUME BitmapReserved, [Next]_vars
                 PROVE  BitmapReserved'
        OBVIOUS
    <2>1. UNCHANGED <<bitmap_max_entries, bitmap_base, reserved>>
        BY DEF Next, Search, palloc, palloc_found, palloc_mark, palloc_next,
            palloc_retry, palloc_fail, pfree, vars
    <2> QED
        BY <2>1 DEF BitmapReserved, FrameOfBit
<1>2. BitmapReserved /\ BlocksAvoidReserved => BitmapOutOfReach
    BY DEF BitmapReserved, FrameOfBit, BlocksAvoidReserved, BitmapOutOfReach
<1> QED
    BY <1>1, <1>2, InitReserves, OwnedOnce, PTL DEF Spec
=============================================================================
