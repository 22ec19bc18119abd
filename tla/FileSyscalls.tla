---------------------------- MODULE FileSyscalls ----------------------------
(***************************************************************************)
(* The users of the file system: kmain (kernel/kernel.c), which builds the *)
(* tree and loads the applications of the archive, and the processes it    *)
(* starts, which open, read and seek (kernel/syscalls/open.c, read.c,      *)
(* lseek.c) through their descriptors (kernel/fs/fd.c).                    *)
(*                                                                         *)
(* A process has one thread, so the locks of its descriptors and of their  *)
(* table are never waited for.  Processes run on several cores: between    *)
(* two calls of the vfs in one system call the others run.  A call through *)
(* a NULL pointer, and a copy that leaves the memory, stop the kernel.     *)
(***************************************************************************)
EXTENDS Vfs

CONSTANTS Process,
          Archives,  \* archives: the entries with name, size and regular
          Paths,     \* the paths processes open
          Flags,     \* sets of open flags: O_CREAT, O_DIRECTORY
          Sizes,     \* the counts processes read
          MaxFd,     \* bound: descriptors of all processes
          MaxOffset, \* bound: the offset of a descriptor
          MaxNodes   \* bound: vnodes

VARIABLES boot,   \* what kmain does next
          archive, \* the archive that was loaded with the kernel
          tar,    \* its block the loader is at
          proc    \* the processes

vars == <<vnode, fs_metas, fs_nodes, boot, archive, tar, proc>>

Blocks == FlattenSeq([i \in DOMAIN archive |-> Archived(archive[i])])
Tmp(name) == Abs(<<"tmp", name>>)

Idle == [pc |-> "idle", path |-> Abs(<<>>), flags |-> {}, fd |-> 0, vnode |-> 0,
         fds |-> <<>>]

Init ==
    /\ vnode = <<>> /\ fs_metas = {} /\ fs_nodes = <<>>
    /\ boot = "vfs_init" /\ tar = 1 /\ archive \in Archives
    /\ proc = [p \in Process |-> [Idle EXCEPT !.pc = "none"]]

-----------------------------------------------------------------------------
(* kmain, one operation after the other.                                   *)
Boot(from, to) == boot = from /\ boot' = to /\ UNCHANGED <<archive, tar, proc>>

MakeDirectory(name) ==
    vnode' = vfs_create(v_root, Abs(<<name>>), "VDIR").vnode /\ UNCHANGED <<fs_metas, fs_nodes>>

kmain_init ==
    /\ Boot("vfs_init", "dev") /\ vnode' = vfs_init
    /\ fs_metas' = {"tmpfs", "devfs"} /\ UNCHANGED fs_nodes
kmain_dev == Boot("dev", "mount_dev") /\ MakeDirectory("dev")
kmain_mount_dev == Boot("mount_dev", "tmp") /\ vfs_mount(Abs(<<"dev">>), "devfs")
kmain_tmp == Boot("tmp", "mount_tmp") /\ MakeDirectory("tmp")
kmain_mount_tmp == Boot("mount_tmp", "keyboard") /\ vfs_mount(Abs(<<"tmp">>), "tmpfs")
kmain_keyboard == Boot("keyboard", "mouse") /\ devfs_new_device("kb0", "keyboard")
kmain_mouse == Boot("mouse", "load") /\ devfs_new_device("ms0", "mouse")

(* tmpfs_load_userapps: while there is a header at the block, create the   *)
(* file, open it and write its contents.                                   *)
AtHeader == tar \in DOMAIN Blocks /\ Blocks[tar].magic

load_create ==
    /\ boot = "load" /\ AtHeader /\ Blocks[tar].entry.regular
    /\ vnode' = vfs_create(v_root, Tmp(Blocks[tar].entry.name), "VREG").vnode
    /\ boot' = "write"
    /\ UNCHANGED <<fs_metas, fs_nodes, archive, tar, proc>>

load_write ==
    LET app == Blocks[tar].entry
        n == vfs_open(v_root, Tmp(app.name)).node
    IN  /\ boot = "write"
        /\ vnode' = [Referenced(n) EXCEPT ![n] = tmpfs_write(@, Contents(app.name, app.size), 0)]
        /\ tar' = NextHeader(tar, app.size)
        /\ boot' = "load"
        /\ UNCHANGED <<fs_metas, fs_nodes, archive, proc>>

(* Any other entry: "continue" tests the same header again, for ever.      *)
load_skip ==
    /\ boot = "load" /\ AtHeader /\ ~Blocks[tar].entry.regular
    /\ boot' = "loop"
    /\ UNCHANGED <<vnode, fs_metas, fs_nodes, archive, tar, proc>>

load_done ==
    /\ boot = "load" /\ ~AtHeader
    /\ boot' = "run"
    /\ UNCHANGED <<vnode, fs_metas, fs_nodes, archive, tar, proc>>

(* create_user_process opens its file (elf_load) and does not close it.    *)
create_user_process(p) ==
    LET at == vfs_open(v_root, Tmp(archive[1].name))
    IN  /\ boot = "run" /\ proc[p].pc = "none"
        /\ \A q \in Process : proc[q].pc # "halted"
        /\ at.err = "SUCCESS"
        /\ vnode' = Referenced(at.node)
        /\ proc' = [proc EXCEPT ![p] = Idle]
        /\ UNCHANGED <<fs_metas, fs_nodes, boot, archive, tar>>

-----------------------------------------------------------------------------
(* The steps of syscall_open.  fd_create adds a descriptor at the end: a   *)
(* slot is never given back, since fd_free wants ref = 0 and ref stays 1.  *)
NewFd == [vnode |-> 0, offset |-> 0, path |-> Abs(<<>>)]

syscall_open(p, path, flags) ==
    /\ proc[p].pc = "idle" /\ SumFunction([q \in Process |-> Len(proc[q].fds)]) < MaxFd
    /\ proc' = [proc EXCEPT ![p].pc = "open", ![p].path = path, ![p].flags = flags,
                            ![p].fds = Append(@, NewFd), ![p].fd = Len(proc[p].fds) + 1]
    /\ UNCHANGED <<vnode, fs_metas, fs_nodes, boot, archive, tar>>

Halted == [p \in Process |-> IF proc[p].pc = "none" THEN proc[p]
                             ELSE [proc[p] EXCEPT !.pc = "halted"]]

(* syscall_openat_fail, the vnode already closed: the descriptor stays.    *)
Failed(p) == [proc EXCEPT ![p].pc = "idle", ![p].vnode = 0]

Opened(p, at) ==
    /\ vnode' = Referenced(at.node)
    /\ proc' = [proc EXCEPT ![p].pc = "finish", ![p].vnode = at.node]

open_lookup(p) ==
    LET at == vfs_open(v_root, proc[p].path)
    IN  /\ proc[p].pc = "open"
        /\ IF at.err = "SUCCESS" THEN Opened(p, at)
           ELSE /\ proc' = IF at.err = "FAULT" THEN Halted
                           ELSE IF at.err = "NODE_MISSING" /\ "O_CREAT" \in proc[p].flags
                           THEN [proc EXCEPT ![p].pc = "create"] ELSE Failed(p)
                /\ UNCHANGED vnode
        /\ UNCHANGED <<fs_metas, fs_nodes, boot, archive, tar>>

open_create(p) ==
    LET made == vfs_create(v_root, proc[p].path, "VREG")
    IN  /\ proc[p].pc = "create" /\ Len(vnode) < MaxNodes
        /\ vnode' = made.vnode
        /\ proc' = IF made.err = "SUCCESS" THEN [proc EXCEPT ![p].pc = "reopen"] ELSE Failed(p)
        /\ UNCHANGED <<fs_metas, fs_nodes, boot, archive, tar>>

open_again(p) ==
    LET at == vfs_open(v_root, proc[p].path)
    IN  /\ proc[p].pc = "reopen"
        /\ IF at.err = "SUCCESS" THEN Opened(p, at) ELSE proc' = Failed(p) /\ UNCHANGED vnode
        /\ UNCHANGED <<fs_metas, fs_nodes, boot, archive, tar>>

open_finish(p) ==
    LET n == proc[p].vnode
        refused == \/ vnode[n].type = "VSKT"
                   \/ ~DIR(n) /\ "O_DIRECTORY" \in proc[p].flags
        fd == [vnode |-> n, offset |-> 0, path |-> proc[p].path]
    IN  /\ proc[p].pc = "finish"
        /\ IF refused THEN vnode' = vfs_close(n) /\ proc' = Failed(p)
           ELSE /\ proc' = [proc EXCEPT ![p].pc = "idle", ![p].vnode = 0,
                                        ![p].fds = [@ EXCEPT ![proc[p].fd] = fd]]
                /\ UNCHANGED vnode
        /\ UNCHANGED <<fs_metas, fs_nodes, boot, archive, tar>>

(* memcpy from the memory of the file, and from what lies behind it.       *)
Copied(data, offset, size) ==
    [i \in 1 .. size |-> IF offset + i \in DOMAIN data THEN data[offset + i] ELSE Garbage]

(* No memory is that large: addresses between the two halves are invalid.  *)
Unmapped(size) == 2 * size >= SizeMod

(* syscall_read from a file of tmpfs or a directory; the devices have      *)
(* drivers of their own.  A descriptor of a failed open is refused.        *)
syscall_read(p, i, count) ==
    LET fd == proc[p].fds[i]
        n == vnode[fd.vnode]
        size == tmpfs_read(n, count, fd.offset)
    IN  /\ proc[p].pc = "idle" /\ fd.vnode # 0
        /\ n.vfsops \in {"none", "tmpfs"}
        /\ proc' = IF n.vfsops = "none" \/ Unmapped(size) THEN Halted
                   ELSE [proc EXCEPT ![p].fds[i].offset = @ + size]
        /\ UNCHANGED <<vnode, fs_metas, fs_nodes, boot, archive, tar>>

(* syscall_lseek: any offset is taken.  The descriptor of a failed open    *)
(* has no vnode, whose st_mode is read all the same.                       *)
syscall_lseek(p, i, whence, offset) ==
    LET fd == proc[p].fds[i]
        to == CASE whence = "SET" -> offset
                [] whence = "CUR" -> fd.offset + offset
                [] whence = "END" -> vnode[fd.vnode].size
    IN  /\ proc[p].pc = "idle"
        /\ IF fd.vnode = 0 THEN proc' = Halted
           ELSE to <= MaxOffset /\ proc' = [proc EXCEPT ![p].fds[i].offset = to]
        /\ UNCHANGED <<vnode, fs_metas, fs_nodes, boot, archive, tar>>

-----------------------------------------------------------------------------
kmain == \/ kmain_init \/ kmain_dev \/ kmain_mount_dev \/ kmain_tmp \/ kmain_mount_tmp
         \/ kmain_keyboard \/ kmain_mouse \/ load_create \/ load_write
         \/ load_skip \/ load_done

Running(p) ==
    \/ \E path \in Paths, flags \in Flags : syscall_open(p, path, flags)
    \/ open_lookup(p) \/ open_create(p) \/ open_again(p) \/ open_finish(p)
    \/ \E i \in DOMAIN proc[p].fds, n \in Sizes :
          \/ syscall_read(p, i, n)
          \/ \E whence \in {"SET", "CUR", "END"} : syscall_lseek(p, i, whence, n)

Next == kmain \/ \E p \in Process : create_user_process(p) \/ Running(p)

Spec == Init /\ [][Next]_vars

-----------------------------------------------------------------------------
Fds(p) == {i \in DOMAIN proc[p].fds : proc[p].fds[i].vnode # 0}

(* Types of the tables, and the size of a file is within its blocks.       *)
TypeOK ==
    /\ Len(vnode) <= MaxNodes
    /\ \A n \in DOMAIN vnode : /\ vnode[n].ref \in Nat
                               /\ vnode[n].type \in {"VREG", "VDIR", "VSKT"}
                               /\ vnode[n].size <= vnode[n].blocks * Block
                               /\ Len(vnode[n].data) = vnode[n].blocks * Block
    /\ \A p \in Process : Len(proc[p].fds) <= MaxFd

(* The nodes are a tree of directories: every node but the root is a child *)
(* of its parent, once, and the parent is a directory (vfs_create does not *)
(* test that; the lookup before it in syscall_openat does).                *)
Tree ==
    \A n \in DOMAIN vnode \ {v_root} :
        LET p == vnode[n].parent
        IN  /\ p < n /\ DIR(p)
            /\ Cardinality({i \in DOMAIN vnode[p].children : vnode[p].children[i] = n}) = 1

(* A descriptor is of the node its path names, also when two processes     *)
(* found the path missing and both created it: the later node is hidden    *)
(* behind the earlier one for ever.                                        *)
FdNamesNode ==
    \A p \in Process : \A i \in Fds(p) :
        vfs_path_to_node(v_root, proc[p].fds[i].path).node = proc[p].fds[i].vnode

(* v_ref_count counts the holders of a node: the descriptors, the opens in *)
(* progress, and what the kernel opened and keeps (applications and        *)
(* devices); whatever path an open takes, failing or not.                  *)
Kept(n) ==
    LET loaded == vnode[n].parent # 0 /\ vnode[vnode[n].parent].name = "tmp" /\
                  \E a \in DOMAIN archive : archive[a].name = vnode[n].name
        device == vnode[n].vfsops \in {"keyboard", "mouse"}
        started == {p \in Process : proc[p].pc # "none"}
    IN  (IF device \/ (loaded /\ ~(boot = "write" /\ n = Len(vnode))) THEN 1 ELSE 0)
        + (IF loaded /\ vnode[n].name = archive[1].name THEN Cardinality(started) ELSE 0)
RefsCounted ==
    \A n \in DOMAIN vnode :
        vnode[n].ref = Kept(n)
            + Cardinality({p \in Process : proc[p].vnode = n})
            + Cardinality({<<p, i>> \in Process \X (1 .. MaxFd) :
                             i \in Fds(p) /\ proc[p].fds[i].vnode = n})

(* Wherever the reads and seeks of the processes have left a descriptor of *)
(* an application, a read from it gives the bytes the archive holds at its *)
(* offset, as many as were asked for unless the file ends before, and none *)
(* from behind the memory of the file.  (For an offset behind the end see  *)
(* tmpfs_read: the code has no answer there.)                              *)
ReadsLoaded ==
    \A p \in Process : \A i \in Fds(p), count \in Sizes, a \in DOMAIN archive :
        LET fd == proc[p].fds[i]
            n == vnode[fd.vnode]
            got == Copied(n.data, fd.offset, tmpfs_read(n, count, fd.offset))
        IN  n.name = archive[a].name /\ fd.offset <= n.size =>
              /\ \A k \in DOMAIN got : fd.offset + k <= archive[a].size =>
                    got[k] = <<archive[a].name, fd.offset + k>>
              /\ fd.offset + Len(got) <= n.blocks * Block
              /\ fd.offset + count <= archive[a].size => Len(got) = count

(* The comment at vfs.c:429: vnodes are not required to be mounted to a    *)
(* file system.  No lookup calls through a missing vfsops.                 *)
LookupNeedsNoDriver ==
    \A p \in Process : proc[p].pc = "open" =>
        vfs_path_to_node(v_root, proc[p].path).err # "FAULT"

(* The comment at kernel.c:67: kmain stores the applications in the vfs,   *)
(* all of them before it starts the first process.                         *)
AppsStored ==
    boot = "run" => \A a \in DOMAIN archive :
        vfs_path_to_node(v_root, Tmp(archive[a].name)).err = "SUCCESS"

(* What the loader does achieve, whatever the archive: it stores every     *)
(* application, whole, up to and including the first one whose length its  *)
(* "num_blocks % 512" rounds wrongly.  The length is rounded right when    *)
(* it is of whole blocks exactly if the number of whole blocks is a        *)
(* multiple of the block size.                                             *)
RoundedRight(size) == (size % TarBlock = 0) <=> ((size \div TarBlock) % TarBlock = 0)
StoredUntilMiscounted ==
    boot = "run" => \A a \in DOMAIN archive :
        (\A b \in 1 .. a - 1 : RoundedRight(archive[b].size)) =>
            LET at == vfs_path_to_node(v_root, Tmp(archive[a].name))
            IN  /\ at.err = "SUCCESS"
                /\ SubSeq(vnode[at.node].data, 1, archive[a].size) =
                      Contents(archive[a].name, archive[a].size)
=============================================================================
