-------------------------------- MODULE Slab --------------------------------
(***************************************************************************)
(* The kernel heap (kernel/memory/slab.c, behind kmalloc, krealloc and     *)
(* kfree of kernel/klib/kmalloc.c): caches of chunks cut out of one-page   *)
(* slabs, and blocks of whole pages for what is larger.  A page is a       *)
(* number, an address a pair of a page and an offset in chunks; offset 0   *)
(* is the page boundary that slab_free tells blocks from chunks by.        *)
(***************************************************************************)
EXTENDS Integers, Sequences, FiniteSets

CONSTANTS Core,         \* the cores that call the heap
          NULL,
          PageBytes,    \* PAGE_SIZE_BYTES
          HeaderBytes,  \* sizeof(struct slab)
          known_chunks, \* the chunk sizes of the caches, ascending
          Pages,        \* the pages of the physical memory
          Workloads,    \* what callers ask for: sizes of chunks or of blocks
          MaxHeld       \* bound: how much callers hold at a time

Cache == 1 .. Len(known_chunks)
Page == 0 .. Pages - 1

ASSUME SlabAssumption ==
    /\ Cache # {} /\ Pages > Len(known_chunks)
    /\ \A i \in Cache : PageBytes > 2 * known_chunks[i]

VARIABLES
    bitmap, cached_index,  \* the page allocator: used pages, next-fit index
    head,    \* head[i][l], slabs_<l> of cache i
    lock,    \* the core that holds cache->lock
    slab,    \* the slab in a page: prev, next, used_chunks, free_chunk
    word0,   \* the first word of a page: slab->cache, or
             \* page_metadata.pages_allocated, or NULL
    cpu,     \* a core's place (at) and its locals
    held,    \* the addresses callers have not freed yet
    workload \* the sizes they ask for, and the pages others have taken

vars == <<bitmap, cached_index, head, lock, slab, word0, cpu, held, workload>>

(* init_slab and cache_insert: every cache lives in a page of its own.     *)
Init ==
    /\ workload \in Workloads
    /\ bitmap = (0 .. Len(known_chunks) - 1) \cup workload.taken
    /\ cached_index = Len(known_chunks)
    /\ head = [i \in Cache |-> [empty |-> NULL, partial |-> NULL, full |-> NULL]]
    /\ lock = [i \in Cache |-> NULL]
    /\ slab = [p \in Page |-> [prev |-> NULL, next |-> NULL, used |-> 0, free |-> <<>>]]
    /\ word0 = [p \in Page |-> NULL]
    /\ cpu = [c \in Core |-> [at |-> "idle", idx |-> 1, list |-> "partial",
                              slab |-> NULL, top |-> <<>>, addr |-> NULL]]
    /\ held = {}

-----------------------------------------------------------------------------
CeilDiv(a, b) == (a + b - 1) \div b
Least(S) == {i \in S : \A j \in S : i <= j}

(* palloc(n): the first n free pages from cached_index on, else from 0; a  *)
(* set of at most one page.  FitsLast is a mutant: one page too many.      *)
FitsLast(i, n) == i + n <= Pages /\ i .. i + n - 1 \cap bitmap = {}
Fits(i, n) == i + n < Pages /\ i .. i + n - 1 \cap bitmap = {}
palloc(n) ==
    LET after == {i \in cached_index .. Pages : Fits(i, n)}
    IN  IF after # {} THEN Least(after) ELSE Least({i \in Page : Fits(i, n)})
Taken(p, n) == /\ bitmap' = bitmap \cup (p .. p + n - 1)
               /\ cached_index' = p + n

(* Mutant of total_chunks: the header is forgotten.                        *)
total_chunks_all(i) == PageBytes \div known_chunks[i]

(* Chunks of a slab of cache i; the header takes whole chunks.             *)
total_chunks(i) ==
    (PageBytes \div known_chunks[i]) - CeilDiv(HeaderBytes, known_chunks[i])

(* The smallest cache whose chunks are large enough.                       *)
get_cache_index(size) == Least({i \in Cache : size <= known_chunks[i]})

(* Mutant of transfer_slab: the slab is not put into the other list.       *)
unlink_slab(slabs, s, i, from, to) ==
    LET p == slabs[s].prev
        n == slabs[s].next
    IN  /\ slab' = [slabs EXCEPT ![s].next = head[i][to], ![s].prev = NULL]
        /\ head' = [head EXCEPT ![i][from] = IF p # NULL THEN head[i][from] ELSE n]

(* transfer_slab: unlink s by what its own links say and put it in front   *)
(* of the list `to`, whose first slab keeps its prev.                      *)
transfer_slab(slabs, s, i, from, to) ==
    LET p == slabs[s].prev
        n == slabs[s].next
        first == IF p # NULL THEN head[i][from] ELSE n
        left == IF p = NULL THEN slabs ELSE [slabs EXCEPT ![p].next = n]
        right == IF n = NULL THEN left ELSE [left EXCEPT ![n].prev = p]
    IN  /\ slab' = [right EXCEPT ![s].next = head[i][to], ![s].prev = NULL]
        /\ head' = [head EXCEPT ![i][from] = first, ![i][to] = s]

-----------------------------------------------------------------------------
(* Mutant of BlockPages: no page for the metadata.                         *)
BlockPagesShort(size) == CeilDiv(size, PageBytes)

(* A block needs whole pages and one for its page_metadata.                *)
BlockPages(size) == CeilDiv(size, PageBytes) + 1

(* slab_alloc(size) called with nothing to free, or by slab_realloc with   *)
(* the block old to free afterwards: to the cache's lock, or to the page   *)
(* allocator, whose NULL is returned and changes nothing.                  *)
Allocate(c, size, old) ==
    /\ \/ /\ \E i \in get_cache_index(size) :
                cpu' = [cpu EXCEPT ![c].idx = i, ![c].at = "lock", ![c].addr = old]
          /\ held' = held \ {old}
          /\ UNCHANGED <<bitmap, cached_index, word0>>
       \/ /\ get_cache_index(size) = {}
          /\ \E p \in palloc(BlockPages(size)) :
                /\ Taken(p, BlockPages(size))
                /\ word0' = [word0 EXCEPT ![p] = CeilDiv(size, PageBytes)]
                /\ held' = (held \ {old}) \cup {<<p + 1, 0>>}
          /\ cpu' = [cpu EXCEPT ![c].addr = old,
                                ![c].at = IF old = NULL THEN "idle" ELSE "free"]
    /\ UNCHANGED <<head, lock, slab, workload>>

slab_alloc(c, size) ==
    /\ cpu[c].at = "idle"
    /\ Cardinality(held) < MaxHeld
    /\ Allocate(c, size, NULL)

(* Mutant of CacheLockFree: the lock is not tested.                        *)
CacheLockIgnored(i) == TRUE

CacheLockFree(i) == lock[i] = NULL

(* slab_alloc_chunk, after the lock: the partial list first.               *)
slab_alloc_chunk(c) ==
    LET i == cpu[c].idx
    IN  /\ cpu[c].at = "lock"
        /\ CacheLockFree(i)
        /\ lock' = [lock EXCEPT ![i] = c]
        /\ cpu' = [cpu EXCEPT ![c].at = "walk", ![c].list = "partial",
                              ![c].slab = head[i].partial]
        /\ UNCHANGED <<bitmap, cached_index, head, slab, word0, held, workload>>

(* slab_inner_alloc_chunk: a full slab is passed over; one that is not is  *)
(* counted up and its free list read.                                      *)
slab_inner_alloc_chunk(c) ==
    LET s == cpu[c].slab
    IN  /\ cpu[c].at = "walk"
        /\ s # NULL
        /\ IF slab[s].used # total_chunks(cpu[c].idx)
           THEN /\ slab' = [slab EXCEPT ![s].used = @ + 1]
                /\ cpu' = [cpu EXCEPT ![c].at = "take", ![c].top = slab[s].free]
           ELSE /\ cpu' = [cpu EXCEPT ![c].slab = slab[s].next]
                /\ UNCHANGED slab
        /\ UNCHANGED <<bitmap, cached_index, head, lock, word0, held, workload>>

(* A slab with its last chunk taken goes to the full list, one with its    *)
(* first to the partial list.                                              *)
Relocate(slabs, s, i) ==
    IF slabs[s].used = total_chunks(i) THEN transfer_slab(slabs, s, i, "partial", "full")
    ELSE IF slabs[s].used = 1 THEN transfer_slab(slabs, s, i, "empty", "partial")
    ELSE slab' = slabs /\ UNCHANGED head

(* The first free chunk is popped and returned, the lock released.         *)
take_chunk(c) ==
    LET s == cpu[c].slab
        i == cpu[c].idx
    IN  /\ cpu[c].at = "take"
        /\ Relocate([slab EXCEPT ![s].free = Tail(cpu[c].top)], s, i)
        /\ held' = held \cup {<<s, Head(cpu[c].top)>>}
        /\ lock' = [lock EXCEPT ![i] = NULL]
        /\ cpu' = [cpu EXCEPT ![c].at = IF cpu[c].addr = NULL THEN "idle" ELSE "free",
                              ![c].slab = NULL, ![c].top = <<>>]
        /\ UNCHANGED <<bitmap, cached_index, word0, workload>>

(* The partial list is exhausted: try the empty one.                       *)
walk_empty(c) ==
    /\ cpu[c].at = "walk" /\ cpu[c].slab = NULL /\ cpu[c].list = "partial"
    /\ cpu' = [cpu EXCEPT ![c].list = "empty", ![c].slab = head[cpu[c].idx].empty]
    /\ UNCHANGED <<bitmap, cached_index, head, lock, slab, word0, held, workload>>

(* Both are: slab_spawn, and the walk over the empty list again, whose     *)
(* first slab now has room.  The chunk list ends behind the page, and line *)
(* 88 puts its NULL there.  Without a page the ASSERT stops the core, with *)
(* the lock.                                                               *)
slab_spawn(c) ==
    LET i == cpu[c].idx
        chunks == [k \in 1 .. total_chunks(i) + 1 |-> k]
        e == head[i].empty
    IN  /\ cpu[c].at = "walk" /\ cpu[c].slab = NULL /\ cpu[c].list = "empty"
        /\ \/ \E s \in palloc(1) :
              /\ Taken(s, 1)
              /\ slab' = [p \in Page |->
                    IF p = s THEN [prev |-> NULL, next |-> e, used |-> 0, free |-> chunks]
                    ELSE IF p = e THEN [slab[p] EXCEPT !.prev = s] ELSE slab[p]]
              /\ head' = [head EXCEPT ![i].empty = s]
              /\ word0' = [word0 EXCEPT ![s] = i, ![s + 1] = NULL]
              /\ cpu' = [cpu EXCEPT ![c].slab = s]
           \/ /\ palloc(1) = {}
              /\ cpu' = [cpu EXCEPT ![c].at = "halted"]
              /\ UNCHANGED <<bitmap, cached_index, head, slab, word0>>
        /\ UNCHANGED <<lock, held, workload>>

-----------------------------------------------------------------------------
(* Callers free what they hold.                                            *)
slab_free(c, a) ==
    /\ cpu[c].at = "idle"
    /\ a \in held
    /\ held' = held \ {a}
    /\ cpu' = [cpu EXCEPT ![c].at = "free", ![c].addr = a]
    /\ UNCHANGED <<bitmap, cached_index, head, lock, slab, word0, workload>>

SizeOf(a) == IF a[2] = 0 THEN word0[a[1] - 1] * PageBytes
             ELSE known_chunks[word0[a[1]]]

(* slab_realloc: new memory for what has to grow, then the old is freed.   *)
(* For what need not grow the heap does not change: a block is returned as *)
(* it is, for a chunk the code returns NULL, and the callers, tmpfs_write  *)
(* and vector_resize, go on with the chunk they have.                      *)
slab_realloc(c, a, size) ==
    /\ cpu[c].at = "idle"
    /\ a \in held
    /\ size > SizeOf(a)
    /\ Allocate(c, size, a)

(* Mutant of ReturnedPages: the metadata page is kept.                     *)
ReturnedPagesShort(p) == p + 1 .. p + word0[p]

ReturnedPages(p) == p .. p + word0[p]

(* slab_free on a page boundary: pages_allocated + 1 pages go back.        *)
free_pages(c) ==
    /\ cpu[c].at = "free" /\ cpu[c].addr[2] = 0
    /\ bitmap' = bitmap \ ReturnedPages(cpu[c].addr[1] - 1)
    /\ cpu' = [cpu EXCEPT ![c].at = "idle", ![c].addr = NULL]
    /\ UNCHANGED <<cached_index, head, lock, slab, word0, held, workload>>

(* slab_free_chunk, under the lock: the chunk is the first free one again. *)
(* used_chunks is not counted down.                                        *)
slab_free_chunk(c) ==
    LET s == cpu[c].addr[1]
        i == word0[s]
        pushed == [slab EXCEPT ![s].free = <<cpu[c].addr[2]>> \o @]
    IN  /\ cpu[c].at = "free" /\ cpu[c].addr[2] # 0
        /\ CacheLockFree(i)
        /\ IF slab[s].used + 1 = total_chunks(i)
           THEN transfer_slab(pushed, s, i, "full", "partial")
           ELSE IF slab[s].used = 0 THEN transfer_slab(pushed, s, i, "partial", "empty")
           ELSE slab' = pushed /\ UNCHANGED head
        /\ cpu' = [cpu EXCEPT ![c].at = "idle", ![c].addr = NULL]
        /\ UNCHANGED <<bitmap, cached_index, lock, word0, held, workload>>

-----------------------------------------------------------------------------
InCall(c) == \/ slab_alloc_chunk(c) \/ slab_inner_alloc_chunk(c) \/ take_chunk(c)
             \/ walk_empty(c) \/ slab_spawn(c) \/ free_pages(c) \/ slab_free_chunk(c)

Next == \E c \in Core :
    \/ \E size \in workload.sizes : slab_alloc(c, size)
    \/ \E a \in held : slab_free(c, a)
    \/ \E a \in held, size \in workload.sizes : slab_realloc(c, a, size)
    \/ InCall(c)

Spec == Init /\ [][Next]_vars

-----------------------------------------------------------------------------
(* The slabs of a list: what its head and the next links reach.            *)
Chain(first) ==
    LET Reach[n \in 0 .. Pages] ==
            IF n = 0 THEN {first} \ {NULL}
            ELSE LET r == Reach[n - 1] IN r \cup ({slab[s].next : s \in r} \ {NULL})
    IN  Reach[Pages]

(* The pages slab_spawn has made slabs; their chunk list is never empty.    *)
Slabs == {p \in Page : slab[p].free # <<>>}

Freeing == {cpu[c].addr : c \in Core} \ {NULL}
Blocks == {a[1] - 1 : a \in {b \in held \cup Freeing : b[2] = 0}}
Chunks == {a \in held \cup Freeing : a[2] # 0}

(* Types; the pages handed out are pages of the memory.                    *)
TypeOK ==
    /\ bitmap \subseteq Page /\ cached_index \in Page
    /\ head \in [Cache -> [{"empty", "partial", "full"} -> Page \cup {NULL}]]
    /\ lock \in [Cache -> Core \cup {NULL}]
    /\ \A p \in Page : {slab[p].prev, slab[p].next} \subseteq Page \cup {NULL}

(* No chunk and no block has two owners: a chunk that is held, or about to *)
(* be given to a second core, is not free and lies between the slab's      *)
(* header and the end of its page; blocks are in used pages and disjoint.  *)
OwnedOnce ==
    /\ \A a \in Chunks :
          LET size == known_chunks[word0[a[1]]]
              free == slab[a[1]].free
          IN  /\ (CeilDiv(HeaderBytes, size) + a[2]) * size <= PageBytes
              /\ \A k \in DOMAIN free : free[k] # a[2]
    /\ \A c \in Core : cpu[c].at = "take" =>
          /\ <<cpu[c].slab, Head(cpu[c].top)>> \notin Chunks
          /\ \A d \in Core \ {c} : cpu[d].at = "take" => cpu[c].slab # cpu[d].slab
    /\ \A p \in Blocks : /\ p .. p + word0[p] \subseteq bitmap
                         /\ \A q \in Blocks : p < q => p + word0[p] < q

(* Whatever callers free, and wherever slab_free_chunk then moves a slab   *)
(* whose used_chunks it has not counted down, no room is lost: a slab with *)
(* chunks it has not given out yet is in the partial or the empty list of  *)
(* its cache, where an allocation finds it before it spawns another one,   *)
(* and the slabs of those lists are of that cache.                         *)
RoomIsFound ==
    \A i \in Cache : lock[i] = NULL =>
        LET walked == Chain(head[i].partial) \cup Chain(head[i].empty)
        IN  /\ \A s \in walked : word0[s] = i
            /\ \A s \in Slabs :
                  word0[s] = i /\ slab[s].used < total_chunks(i) => s \in walked

(* The pages in use are the caches, the slabs and the blocks: freeing and  *)
(* growing blocks neither loses pages nor returns too many.                *)
PagesAccounted ==
    bitmap = (0 .. Len(known_chunks) - 1) \cup workload.taken \cup Slabs
             \cup UNION {p .. p + word0[p] : p \in Blocks}

(* The first word of a slab names its cache for as long as a chunk of it   *)
(* is held: slab_free_chunk follows it, and slab_free trusts the one of a  *)
(* block.  The comment at slab.c:79 has slab_spawn initialise the chunk    *)
(* list of its own page.                                                   *)
HeadersIntact ==
    /\ \A a \in Chunks : word0[a[1]] # NULL
    /\ \A p \in Blocks : word0[p] # NULL

(* The comment at slab.c:160: what slab_free_chunk moves to the partial    *)
(* list was a slab of the full list.                                       *)
FreeMovesFullSlab ==
    [][\A c \in Core :
          LET s == cpu[c].addr[1]
          IN  slab_free_chunk(c) /\ slab'[s].next # slab[s].next
              => s \in Chain(head[word0[s]].full)]_vars
=============================================================================
