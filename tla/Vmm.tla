-------------------------------- MODULE Vmm ---------------------------------
(***************************************************************************)
(* The page tables (kernel/memory/vmm.c) and everything that maps pages    *)
(* for a process: its creation (kernel/arch/process.c, thread.c), the      *)
(* loading of its program (kernel/apps/elf.c), and the system calls mmap   *)
(* and get_fb_context.                                                     *)
(*                                                                         *)
(* An address is a number, in pages of PAGE_SIZE bytes; the tables of the  *)
(* four levels have ENTRIES entries.  An entry is the page frame or table  *)
(* its physical address names, and the set of its flags; the low bits of   *)
(* an address are the same bits as the flags PRESENT, WRITE and USER.      *)
(* A table, once allocated, stays: there is no code that frees one.        *)
(* map_section maps a page in a step, so that two processes on two cores   *)
(* can take turns.                                                         *)
(***************************************************************************)
EXTENDS Integers, Sequences

CONSTANTS Procs,
          ENTRIES,            \* PAGE_ENTRIES; the upper half of them the kernel's
          HHDM, Kernel,       \* pages where the physical memory and the kernel start
          Text, Rodata, Data, \* the kernel's sections, as byte offsets [start, end]
          MemMap,             \* the areas of memory at boot: base and length in bytes
          Bitmap, Devices,    \* page frames of the bitmap and of memory-mapped devices
          Heap,               \* page frames kmalloc gives out
          Fb, FbOffset,       \* the framebuffer's page frames; 0x900000000 in pages
          Elfs,               \* program files: header valid, and program headers
          StackPages,         \* pages of a user stack
          Lens,               \* lengths asked of mmap, in bytes
          Unmaps, MaxUnmaps   \* bounds: which pages, and how many, unmap_page is called on

VARIABLES tables,  \* the entries of each table allocated
          pml4,    \* the top table of the kernel and of each process, 0 when none
          owner,   \* whom kmalloc gave a page frame
          proc,    \* how far each process is: pc, its program, next program header
          todo,    \* what map_section still has to map in each page map
          booted,  \* how many of its sections the kernel has come to
          unmapped

vars == <<tables, pml4, owner, proc, todo, booted, unmapped>>

PAGE_SIZE == 8
Pages == 0 .. ENTRIES * ENTRIES * ENTRIES * ENTRIES - 1

Zero == [page |-> 0, flags |-> {}]
ZeroTable == [e \in 0 .. ENTRIES - 1 |-> Zero]

(* address | flags: what lies below the page in the address ends up among  *)
(* the flags.                                                              *)
Bit == [PRESENT |-> 1, WRITE |-> 2, USER |-> 4]
Or(addr, flags) ==
    [page |-> addr \div PAGE_SIZE,
     flags |-> flags \cup {f \in DOMAIN Bit : ((addr % PAGE_SIZE) \div Bit[f]) % 2 = 1}]

align_address(addr, round_up) ==
    LET down == (addr \div PAGE_SIZE) * PAGE_SIZE
    IN  IF round_up /\ down # addr THEN down + PAGE_SIZE ELSE down

PagesOf(bytes) == (bytes \div PAGE_SIZE) + (IF bytes % PAGE_SIZE # 0 THEN 1 ELSE 0)

-----------------------------------------------------------------------------
(* vmm.c.  at is the tables so far with the table the walk has reached.    *)
Index(v, level) ==
    (CASE level = 3 -> v \div (ENTRIES * ENTRIES * ENTRIES)
       [] level = 2 -> v \div (ENTRIES * ENTRIES)
       [] level = 1 -> v \div ENTRIES
       [] level = 0 -> v) % ENTRIES

High == {v \in Pages : 2 * Index(v, 3) >= ENTRIES}
Low == Pages \ High

(* Mutant of allocate_map: tables the user cannot go through.              *)
AllocateKernelMap(at, e) ==
    LET new == Len(at.tables) + 1
    IN  [tables |-> Append([at.tables EXCEPT ![at.base][e] =
                                [page |-> new, flags |-> {"PRESENT", "WRITE"}]], ZeroTable),
         base |-> new]

allocate_map(at, e) ==
    LET new == Len(at.tables) + 1
    IN  [tables |-> Append([at.tables EXCEPT ![at.base][e] =
                                [page |-> new, flags |-> {"PRESENT", "WRITE", "USER"}]], ZeroTable),
         base |-> new]

get_next_page_map(at, e) ==
    IF "PRESENT" \in at.tables[at.base][e].flags
    THEN [at EXCEPT !.base = at.tables[at.base][e].page]
    ELSE allocate_map(at, e)

Section(v, p, n, flags) == [v |-> v, p |-> p, n |-> n, flags |-> flags]
Idle == Section(0, 0, 0, {})

(* Mutant of map_section: a page more than the section has.                *)
MapSectionAndOne(m, vaddr, paddr, len, flags) ==
    todo' = [todo EXCEPT ![m] = Section(vaddr, paddr, PagesOf(len) + 1, flags)]

(* map_section is called with len bytes at vaddr, and maps page by page.   *)
map_section(m, vaddr, paddr, len, flags) ==
    todo' = [todo EXCEPT ![m] = Section(vaddr, paddr, PagesOf(len), flags)]

map_page(m, root) ==
    /\ todo[m].n > 0
    /\ LET s    == todo[m]
           v    == s.v \div PAGE_SIZE
           pdpt == get_next_page_map([tables |-> tables, base |-> root], Index(v, 3))
           pd   == get_next_page_map(pdpt, Index(v, 2))
           pt   == get_next_page_map(pd, Index(v, 1))
       IN  /\ tables' = [pt.tables EXCEPT ![pt.base][Index(v, 0)] = Or(s.p, s.flags)]
           /\ todo' = [todo EXCEPT ![m] =
                            IF s.n = 1 THEN Idle
                            ELSE Section(s.v + PAGE_SIZE, s.p + PAGE_SIZE, s.n - 1, s.flags)]
    /\ UNCHANGED <<pml4, owner, proc, booted, unmapped>>

(* What init_vmm maps, in its order: page, page frame, pages, flags.       *)
KernelSections ==
    LET image(s, flags) ==
            LET start == align_address(s[1], FALSE)
            IN  Section(Kernel + (start \div PAGE_SIZE), start \div PAGE_SIZE,
                        PagesOf(align_address(s[2], TRUE) - start), flags)
        area(m) ==
            LET start == align_address(m[1], FALSE)
            IN  Section(HHDM + (start \div PAGE_SIZE), start \div PAGE_SIZE,
                        PagesOf(align_address(m[1] + m[2], TRUE) - start), {"WRITE", "PRESENT"})
        frame(p) == Section(HHDM + p, p, 1, {"NX", "WRITE", "PRESENT"})
    IN  <<image(Text, {"PRESENT"}), image(Rodata, {"NX", "PRESENT"}),
          image(Data, {"NX", "WRITE", "PRESENT"})>>
        \o [i \in DOMAIN MemMap |-> area(MemMap[i])]
        \o <<frame(Bitmap)>> \o [i \in DOMAIN Devices |-> frame(Devices[i])]

init_vmm ==
    /\ booted < Len(KernelSections) /\ todo["kernel"].n = 0
    /\ LET s == KernelSections[booted + 1]
       IN  map_section("kernel", s.v * PAGE_SIZE, s.p * PAGE_SIZE, s.n * PAGE_SIZE, s.flags)
    /\ booted' = booted + 1
    /\ UNCHANGED <<tables, pml4, owner, proc, unmapped>>

(* Mark upper half as kernel only.                                         *)
KernelOnly(table) ==
    [e \in 0 .. ENTRIES - 1 |-> IF 2 * e >= ENTRIES THEN [table[e] EXCEPT !.flags = @ \ {"USER"}] ELSE table[e]]

(* The end of init_vmm: the upper half becomes the kernel's alone.         *)
load_pagemap ==
    /\ booted = Len(KernelSections) /\ todo["kernel"].n = 0 /\ pml4["kernel"] = 0
    /\ tables' = [tables EXCEPT ![1] = KernelOnly(@)]
    /\ pml4' = [pml4 EXCEPT !["kernel"] = 1]
    /\ UNCHANGED <<owner, proc, todo, booted, unmapped>>

(* Nothing calls unmap_page yet.  It works on the kernel's page map.       *)
unmap_page(v) ==
    /\ pml4["kernel"] # 0 /\ unmapped < MaxUnmaps
    /\ LET entry(b, l) == tables[b][Index(v, l)]
           there(b, l) == "PRESENT" \in entry(b, l).flags
           pdpt == entry(pml4["kernel"], 3).page
           pd == entry(pdpt, 2).page
           pt == entry(pd, 1).page
       IN  /\ there(pml4["kernel"], 3) /\ there(pdpt, 2) /\ there(pd, 1)
           /\ tables' = [tables EXCEPT ![pt][Index(v, 0)] = Zero]
    /\ unmapped' = unmapped + 1
    /\ UNCHANGED <<pml4, owner, proc, todo, booted>>

-----------------------------------------------------------------------------
(* slab_alloc as kmalloc calls it for whole pages: page frames in a row    *)
(* that are free (the first such), or NULL when there are none.  The page  *)
(* before them that holds their number (slab.c:174-185), which nobody maps *)
(* for a process, is left out.                                             *)
NULL == -1
Run(f, n) == f .. f + n - 1
FreeAt(n) == {f \in Heap : \A g \in Run(f, n) : g \in Heap /\ owner[g] = "free"}
kmalloc(n) == IF FreeAt(n) = {} THEN NULL ELSE CHOOSE f \in FreeAt(n) : \A g \in FreeAt(n) : f <= g
Give(p, f, n) == [g \in DOMAIN owner |-> IF g \in Run(f, n) THEN p ELSE owner[g]]

(* Mutant of copy_pml4: an empty page map.                                 *)
EmptyPml4 == ZeroTable

copy_pml4 == tables[pml4["kernel"]]

(* create_user_process, up to the loading of the program.  A file that     *)
(* elf_verify_header refuses has its program left out, and the process     *)
(* goes on.                                                                *)
create_user_process(p, elf) ==
    /\ pml4["kernel"] # 0 /\ proc[p].pc = "none"
    /\ tables' = Append(tables, copy_pml4)
    /\ pml4' = [pml4 EXCEPT ![p] = Len(tables) + 1]
    /\ proc' = [proc EXCEPT ![p] = [pc |-> IF elf.valid THEN "load" ELSE "stack", elf |-> elf, i |-> 1]]
    /\ UNCHANGED <<owner, todo, booted, unmapped>>

ElfFlags(hdr) ==
    {"USER", "PRESENT"} \cup (IF hdr.x THEN {} ELSE {"NX"}) \cup (IF hdr.w THEN {"WRITE"} ELSE {})

(* One round of elf_load's loop over the program headers.                  *)
elf_load(p) ==
    /\ proc[p].pc = "load" /\ todo[p].n = 0
    /\ IF proc[p].i > Len(proc[p].elf.phdrs)
       THEN proc' = [proc EXCEPT ![p].pc = "stack"] /\ UNCHANGED <<owner, todo>>
       ELSE LET hdr    == proc[p].elf.phdrs[proc[p].i]
                offset == hdr.vaddr % PAGE_SIZE
                n      == PagesOf(offset + hdr.memsz)
                f      == kmalloc(n)
            IN  CASE ~hdr.load ->
                        proc' = [proc EXCEPT ![p].i = @ + 1] /\ UNCHANGED <<owner, todo>>
                  [] hdr.load /\ f = NULL ->
                        proc' = [proc EXCEPT ![p].pc = "stack"] /\ UNCHANGED <<owner, todo>>
                  [] hdr.load /\ f # NULL ->
                        /\ proc' = [proc EXCEPT ![p].i = @ + 1]
                        /\ owner' = Give(p, f, n)
                        /\ map_section(p, hdr.vaddr - offset, f * PAGE_SIZE + offset,
                                       n * PAGE_SIZE, ElfFlags(hdr))
    /\ UNCHANGED <<tables, pml4, booted, unmapped>>

(* What the kernel gives a process is mapped where it lies in memory.      *)
MapOwn(p, f, n) ==
    /\ owner' = Give(p, f, n)
    /\ map_section(p, f * PAGE_SIZE, f * PAGE_SIZE, n * PAGE_SIZE, {"PRESENT", "NX", "USER", "WRITE"})

(* create_user_thread maps the stack of the first thread; without memory   *)
(* for it the process never runs.                                          *)
create_user_thread(p) ==
    /\ proc[p].pc = "stack" /\ todo[p].n = 0
    /\ IF kmalloc(StackPages) = NULL
       THEN proc' = [proc EXCEPT ![p].pc = "failed"] /\ UNCHANGED <<owner, todo>>
       ELSE proc' = [proc EXCEPT ![p].pc = "run"] /\ MapOwn(p, kmalloc(StackPages), StackPages)
    /\ UNCHANGED <<tables, pml4, booted, unmapped>>

syscall_mmap(p, len) ==
    /\ proc[p].pc = "run" /\ todo[p].n = 0 /\ kmalloc(PagesOf(len)) # NULL
    /\ MapOwn(p, kmalloc(PagesOf(len)), PagesOf(len))
    /\ UNCHANGED <<tables, pml4, proc, booted, unmapped>>

syscall_get_fb_context(p) ==
    /\ proc[p].pc = "run" /\ todo[p].n = 0
    /\ map_section(p, (Fb[1] + FbOffset) * PAGE_SIZE, Fb[1] * PAGE_SIZE,
                   Len(Fb) * PAGE_SIZE, {"PRESENT", "NX", "USER", "WRITE"})
    /\ UNCHANGED <<tables, pml4, owner, proc, booted, unmapped>>

-----------------------------------------------------------------------------
(* The layout: the kernel's sections lie in the upper half; the segments   *)
(* of a program, the frames of the heap and the framebuffer, mapped where  *)
(* they are mapped, in the lower half.  Nothing in map_page, elf_load or   *)
(* the system calls checks it: the linker scripts and the boot loader have *)
(* it so.                                                                  *)
ASSUME VmmAssumption ==
    /\ ENTRIES \in Nat \ {0} /\ HHDM \in Nat /\ Kernel \in Nat /\ Bitmap \in Nat
    /\ "kernel" \notin Procs /\ "free" \notin Procs
    /\ \A s \in {Text, Rodata, Data} : s \in Nat \X Nat /\ s[1] <= s[2]
    /\ MemMap \in Seq(Nat \X Nat) /\ Devices \in Seq(Nat)
    /\ \A i \in DOMAIN KernelSections : \A j \in 0 .. KernelSections[i].n - 1 :
            KernelSections[i].v + j \in High
    /\ Heap \subseteq Low /\ StackPages \in Nat /\ Lens \subseteq Nat /\ Unmaps \subseteq Pages
    /\ Fb \in Seq(Nat) /\ Fb # <<>> /\ FbOffset \in Nat
    /\ \A i \in DOMAIN Fb : Fb[i] = Fb[1] + i - 1 /\ Fb[i] + FbOffset \in Low
    /\ Elfs \subseteq [valid : BOOLEAN,
                       phdrs : Seq([vaddr : Nat, memsz : Nat, x : BOOLEAN, w : BOOLEAN, load : BOOLEAN])]
    /\ \A elf \in Elfs : \A i \in DOMAIN elf.phdrs :
            LET hdr == elf.phdrs[i]
            IN  hdr.load => \A j \in 0 .. PagesOf((hdr.vaddr % PAGE_SIZE) + hdr.memsz) - 1 :
                                (hdr.vaddr \div PAGE_SIZE) + j \in Low

-----------------------------------------------------------------------------
NoElf == [valid |-> FALSE, phdrs |-> <<>>]

Init ==
    /\ tables = <<ZeroTable>>
    /\ pml4 = [m \in Procs \cup {"kernel"} |-> 0]
    /\ owner = [f \in Heap |-> "free"]
    /\ proc = [p \in Procs |-> [pc |-> "none", elf |-> NoElf, i |-> 1]]
    /\ todo = [m \in Procs \cup {"kernel"} |-> Idle]
    /\ booted = 0
    /\ unmapped = 0

Next ==
    \/ init_vmm
    \/ map_page("kernel", 1)
    \/ load_pagemap
    \/ \E v \in Unmaps : unmap_page(v)
    \/ \E p \in Procs : map_page(p, pml4[p])
    \/ \E p \in Procs, elf \in Elfs : create_user_process(p, elf)
    \/ \E p \in Procs : elf_load(p)
    \/ \E p \in Procs : create_user_thread(p)
    \/ \E p \in Procs, len \in Lens : syscall_mmap(p, len)
    \/ \E p \in Procs : syscall_get_fb_context(p)

Spec == Init /\ [][Next]_vars

-----------------------------------------------------------------------------
(* The processor's walk: a right counts when every level grants it.  (NX   *)
(* is never set above the last level.)                                     *)
NoMap == [page |-> 0, flags |-> {}]
Absent(entry) == "PRESENT" \notin entry.flags
Walk(root, v) ==
    LET pml4e == tables[root][Index(v, 3)]
        pdpte == tables[pml4e.page][Index(v, 2)]
        pde == tables[pdpte.page][Index(v, 1)]
        pte == tables[pde.page][Index(v, 0)]
        above == pml4e.flags \cap pdpte.flags \cap pde.flags
    IN  IF root = 0 \/ Absent(pml4e) \/ Absent(pdpte) \/ Absent(pde) \/ Absent(pte)
        THEN NoMap
        ELSE [page |-> pte.page, flags |-> (pte.flags \cap above) \cup (pte.flags \cap {"NX"})]

(* The two halves of the address spaces, and the rights a page can have.   *)
KernelMap == [v \in High |-> Walk(1, v)]
UserMap == [p \in Procs |-> [v \in Low |-> Walk(pml4[p], v)]]
UserRights == {ElfFlags(h) : h \in [x : BOOLEAN, w : BOOLEAN]}
KernelRights == {KernelSections[i].flags : i \in DOMAIN KernelSections}

(* The tables, walked as the processor walks them, are an AddressSpace:    *)
(* mapping a page changes that page of that process and no other page, of  *)
(* this process, of another or of the kernel, and gives it rights of its   *)
(* half.  (map_page and all its callers, unmap_page, the copy of the top   *)
(* table.)                                                                 *)
Space == INSTANCE AddressSpace WITH
    kernel <- KernelMap, user <- UserMap, Rights <- UserRights \cup KernelRights
RefinesAddressSpace == Space!Spec

(* Once the kernel runs on its own tables, each page of its half leads to  *)
(* the frame and rights of the last section that init_vmm mapped there.    *)
KernelMapped ==
    pml4["kernel"] # 0 /\ unmapped = 0 =>
        \A v \in High :
            LET on == {i \in DOMAIN KernelSections :
                        v \in KernelSections[i].v .. KernelSections[i].v + KernelSections[i].n - 1}
                s == KernelSections[CHOOSE i \in on : \A j \in on : j <= i]
            IN  Walk(1, v) = IF on = {} THEN NoMap ELSE [page |-> s.p + v - s.v, flags |-> s.flags]

(* Every process sees the kernel as the kernel does, also after a page of  *)
(* the kernel was unmapped, and a user may not touch it; the kernel's own  *)
(* page map has no lower half.  (create_user_process copies the top table, *)
(* whose entries lead to tables all share.)                                *)
KernelShared ==
    /\ \A p \in Procs, v \in High :
            pml4[p] # 0 => /\ Walk(pml4[p], v) = Walk(pml4["kernel"], v)
                           /\ "USER" \notin Walk(pml4[p], v).flags
    /\ \A v \in Low : Walk(pml4["kernel"], v) = NoMap

(* What a process can reach as a user is memory kmalloc gave out for it,   *)
(* or the framebuffer.  (The lengths elf_load, create_user_thread, mmap    *)
(* and get_fb_context compute.)                                            *)
UserReachesOwn ==
    \A p \in Procs, v \in Low :
        "USER" \in Walk(pml4[p], v).flags =>
            \/ Walk(pml4[p], v).page \in {Fb[i] : i \in DOMAIN Fb}
            \/ Walk(pml4[p], v).page \in Heap /\ owner[Walk(pml4[p], v).page] = p

(* From its loading on, every page of a segment has the rights the program *)
(* header gives the segment, whatever is mapped before and after it, and   *)
(* its pages are page frames in a row, where elf_load has copied the file. *)
(* elf_load gives this to segments that start at a page: the offset in the *)
(* page of others ends up in the flags (elf.c:185-193).                    *)
SegmentRights ==
    \A p \in Procs : proc[p].pc # "none" /\ todo[p].n = 0 =>
        \A j \in 1 .. proc[p].i - 1 :
            LET hdr    == proc[p].elf.phdrs[j]
                first  == hdr.vaddr \div PAGE_SIZE
                mapped == Walk(pml4[p], first)
                pages  == PagesOf((hdr.vaddr % PAGE_SIZE) + hdr.memsz)
            IN  hdr.load => \A k \in 0 .. pages - 1 :
                    Walk(pml4[p], first + k) = [page |-> mapped.page + k, flags |-> ElfFlags(hdr)]
=============================================================================
