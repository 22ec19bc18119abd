-------------------------------- MODULE Pmm --------------------------------
(***************************************************************************)
(* The physical memory manager, kernel/memory/pmm.c: a bitmap with one bit *)
(* per page frame, searched next-fit from cached_index under pmm_lock.     *)
(*                                                                         *)
(* Addresses are counted in frames; bytes appear only where init_pmm sizes *)
(* and places the bitmap.  A core that holds pmm_lock searches one index   *)
(* per step, while the other cores run or spin.                            *)
(***************************************************************************)
EXTENDS Integers, Sequences

CONSTANTS Core,        \* the cores that allocate and free
          NULL,        \* no core, no address
          PageSize,    \* PAGE_SIZE_BYTES
          MaxPages,    \* the largest number of pages a caller asks for
          MemoryMaps   \* memory maps: sequences of [base, length, usable]

ASSUME PmmAssumption ==
    /\ NULL \notin Core \cup Nat
    /\ PageSize \in Nat \ {0}
    /\ MaxPages \in Nat \ {0}
    /\ MemoryMaps \subseteq
           Seq([base : Nat, length : Nat \ {0}, usable : {TRUE, FALSE}])

VARIABLES
    bitmap_max_entries,  \* the number of frames the bitmap describes
    bitmap_base,         \* the first frame of the bitmap itself
    used,                \* the frames whose bit is set
    cached_index,        \* where the next search starts
    pmm_lock,            \* the core holding pmm_lock, or NULL
    pages,               \* the argument of the core's palloc, 0 outside
    retried,             \* the cores in their second palloc_internal
    found,               \* the cores that are about to mark the pages found
    result,              \* what the core's last palloc returned
    blocks,              \* what palloc returned and pfree has not got back
    reserved             \* the frames that were never free

vars == <<bitmap_max_entries, bitmap_base, used, cached_index, pmm_lock, pages,
          retried, found, result, blocks, reserved>>

Run(base, n) == base .. base + n - 1

-----------------------------------------------------------------------------
(***************************************************************************)
(* init_pmm.                                                               *)
(***************************************************************************)

(* The bytes of a bitmap of this many frames, rounded up to bytes and then *)
(* to pages.                                                               *)
palign(frames) ==
    LET bytes == frames \div 8 + (IF (frames \div 8) * 8 < frames THEN 1 ELSE 0)
        full == bytes \div PageSize
    IN  (full + (IF full * PageSize < bytes THEN 1 ELSE 0)) * PageSize

UsableEntries(m) == {i \in 1 .. Len(m) : m[i].usable}

(* The frames up to the end of entry i.                                    *)
EndOf(m, i) == m[i].base + m[i].length

(* The map is sorted by address and its usable entries do not overlap.     *)
(* The boot protocol of Limine promises both; init_pmm builds on them when *)
(* it takes the end of the last usable entry for the end of memory.        *)
ASSUME MapsAssumption ==
    \A m \in MemoryMaps : \A i, j \in UsableEntries(m) :
        i < j => EndOf(m, i) <= m[j].base

(* The entry the loop over the map sees last.                              *)
IsLast(m, i) ==
    /\ i \in UsableEntries(m)
    /\ \A j \in UsableEntries(m) : j <= i

(* The first usable entry that is larger than the bitmap of size frames.   *)
IsHome(m, i, size) ==
    LET homes == {j \in UsableEntries(m) : m[j].length > size}
    IN  i \in homes /\ \A j \in homes : i <= j

(* Mutant of Carved: the entry of the bitmap stays as it was.              *)
NotCarved(m, i, size) == m

(* The map once the bitmap is cut off the front of its entry.              *)
Carved(m, i, size) == [m EXCEPT ![i].base = @ + size, ![i].length = @ - size]

FreeFrames(m) == UNION {Run(m[i].base, m[i].length) : i \in UsableEntries(m)}

(* All bits are set, then those of the usable frames are reset.            *)
Init ==
    /\ \E m \in MemoryMaps : \E last, home \in 1 .. Len(m) :
          LET frames == EndOf(m, last)
              size == palign(frames) \div PageSize
          IN  /\ IsLast(m, last)
              /\ IsHome(m, home, size)
              /\ bitmap_max_entries = frames
              /\ bitmap_base = m[home].base
              /\ used = (0 .. frames - 1) \ FreeFrames(Carved(m, home, size))
              /\ reserved = used
    /\ cached_index = 0
    /\ pmm_lock = NULL
    /\ pages = [c \in Core |-> 0]
    /\ retried = {}
    /\ found = {}
    /\ result = [c \in Core |-> NULL]
    /\ blocks = {}

-----------------------------------------------------------------------------
bitmap_available(index, n) == \A i \in Run(index, n) : i \notin used

(* Mutant of LockFree: pmm_lock is not waited for.                         *)
LockIgnored == TRUE

(* pmm_lock can be taken.                                                  *)
LockFree == pmm_lock = NULL

(* palloc: take pmm_lock.                                                  *)
palloc(c, n) ==
    /\ pages[c] = 0
    /\ LockFree
    /\ pmm_lock' = c
    /\ pages' = [pages EXCEPT ![c] = n]
    /\ UNCHANGED <<bitmap_max_entries, bitmap_base, used, cached_index, retried,
                   found, result, blocks, reserved>>

(* Release pmm_lock and return r.                                          *)
Return(c, r) ==
    /\ result' = [result EXCEPT ![c] = r]
    /\ pmm_lock' = NULL
    /\ pages' = [pages EXCEPT ![c] = 0]
    /\ retried' = retried \ {c}
    /\ found' = found \ {c}

(* Mutant of Fits: the pages need not fit.                                 *)
FitsFirst(c) == cached_index < bitmap_max_entries

(* The condition of the loop of palloc_internal.                           *)
Fits(c) == cached_index + pages[c] < bitmap_max_entries

(* The core is in the loop, or at its end.                                 *)
Searching(c) == pages[c] > 0 /\ c \notin found

(* An iteration that finds the pages free ...                              *)
palloc_found(c) ==
    /\ Searching(c)
    /\ Fits(c)
    /\ bitmap_available(cached_index, pages[c])
    /\ found' = found \cup {c}
    /\ UNCHANGED <<bitmap_max_entries, bitmap_base, used, cached_index, pmm_lock,
                   pages, retried, result, blocks, reserved>>

(* ... and marks them, moves on behind them and returns.                   *)
palloc_mark(c) ==
    LET n == pages[c]
    IN  /\ c \in found
        /\ used' = used \cup Run(cached_index, n)
        /\ blocks' = blocks \cup {[base |-> cached_index, pages |-> n]}
        /\ cached_index' = cached_index + n
        /\ Return(c, cached_index)
        /\ UNCHANGED <<bitmap_max_entries, bitmap_base, reserved>>

(* Mutant of NextIndex: the search goes on behind the pages it looked at.  *)
StepOver(c) == cached_index + pages[c]

(* The next index the search looks at.                                     *)
NextIndex(c) == cached_index + 1

(* An iteration that does not.                                             *)
palloc_next(c) ==
    /\ Searching(c)
    /\ Fits(c)
    /\ ~ bitmap_available(cached_index, pages[c])
    /\ cached_index' = NextIndex(c)
    /\ UNCHANGED <<bitmap_max_entries, bitmap_base, used, pmm_lock, pages,
                   retried, found, result, blocks, reserved>>

(* Mutant of palloc_retry: it restarts the search again and again.         *)
palloc_retries(c) ==
    /\ Searching(c)
    /\ ~ Fits(c)
    /\ cached_index' = 0
    /\ UNCHANGED <<bitmap_max_entries, bitmap_base, used, pmm_lock, pages,
                   retried, found, result, blocks, reserved>>

(* The first search has come to the end: palloc restarts it once from 0.   *)
palloc_retry(c) ==
    /\ Searching(c)
    /\ ~ Fits(c)
    /\ c \notin retried
    /\ cached_index' = 0
    /\ retried' = retried \cup {c}
    /\ UNCHANGED <<bitmap_max_entries, bitmap_base, used, pmm_lock, pages,
                   found, result, blocks, reserved>>

(* The second one has as well: NULL.                                       *)
palloc_fail(c) ==
    /\ Searching(c)
    /\ ~ Fits(c)
    /\ c \in retried
    /\ Return(c, NULL)
    /\ UNCHANGED <<bitmap_max_entries, bitmap_base, used, cached_index, blocks,
                   reserved>>

(* Mutant of Freed: one page too many.                                     *)
FreedAndNext(b) == Run(b.base, b.pages + 1)

(* The frames pfree resets.                                                *)
Freed(b) == Run(b.base, b.pages)

(* pfree of a block some caller got.  Its loop runs under pmm_lock from    *)
(* beginning to end and is one step.                                       *)
pfree(c, b) ==
    /\ pages[c] = 0
    /\ LockFree
    /\ used' = used \ Freed(b)
    /\ blocks' = blocks \ {b}
    /\ UNCHANGED <<bitmap_max_entries, bitmap_base, cached_index, pmm_lock,
                   pages, retried, found, result, reserved>>

-----------------------------------------------------------------------------
Search(c) == \/ palloc_found(c) \/ palloc_mark(c) \/ palloc_next(c)
             \/ palloc_retry(c) \/ palloc_fail(c)

Next == \E c \in Core : \/ \E n \in 1 .. MaxPages : palloc(c, n)
                        \/ Search(c)
                        \/ \E b \in blocks : pfree(c, b)

Spec == Init /\ [][Next]_vars

(* A core that holds pmm_lock goes on; it may be interrupted but its       *)
(* thread runs again.                                                      *)
FairSpec == Spec /\ \A c \in Core : WF_vars(Search(c))

-----------------------------------------------------------------------------
Block == [base : Nat, pages : 1 .. MaxPages]

(* Types; the search stays inside the bitmap and sets no bit outside it.   *)
TypeOK ==
    /\ bitmap_max_entries \in Nat
    /\ bitmap_base \in Nat
    /\ used \in SUBSET (0 .. bitmap_max_entries - 1)
    /\ cached_index \in 0 .. bitmap_max_entries
    /\ pmm_lock \in Core \cup {NULL}
    /\ pages \in [Core -> 0 .. MaxPages]
    /\ retried \in SUBSET Core
    /\ found \in SUBSET Core
    /\ result \in [Core -> Nat \cup {NULL}]
    /\ blocks \in SUBSET Block
    /\ reserved \in SUBSET (0 .. bitmap_max_entries - 1)

(* No frame belongs to two blocks, and the bit of every frame of a block   *)
(* is set, so that no later palloc can hand it out.                        *)
FramesOwnedOnce ==
    /\ \A b \in blocks : Run(b.base, b.pages) \subseteq used
    /\ \A a, b \in blocks :
          a # b => Run(a.base, a.pages) \cap Run(b.base, b.pages) = {}

(* The bitmap has exactly the bits of the reserved frames and of the       *)
(* blocks set: palloc and pfree leak no frame and free no other one's.     *)
BitsAreAccounted ==
    used = reserved \cup UNION {Run(b.base, b.pages) : b \in blocks}

(* The bit of every frame lies in a frame that is never handed out: nobody *)
(* who writes to the memory they got can change the bitmap.                *)
BitmapOutOfReach ==
    \A f \in 0 .. bitmap_max_entries - 1 :
        LET home == bitmap_base + (f \div 8) \div PageSize
        IN  \A b \in blocks : home \notin Run(b.base, b.pages)

(* The restarted search misses nothing: below cached_index there is no run *)
(* of free frames of the size asked for.  When it comes to the end, and    *)
(* palloc returns NULL, there is none in front of the last frame.          *)
SearchMissesNothing ==
    \A c \in retried : \A i \in 0 .. cached_index - 1 :
        ~ bitmap_available(i, pages[c])

(* palloc returns, with a block or with NULL.                              *)
PallocReturns == \A c \in Core : (pages[c] > 0) ~> (pages[c] = 0)
=============================================================================
