-------------------------------- MODULE Vfs ---------------------------------
(***************************************************************************)
(* The tree of vnodes and the operations on it (kernel/fs/vfs.c), with the *)
(* drivers tmpfs.c and devfs.c.  Every vfs_ operation runs under vfs_lock  *)
(* and is one step of its caller: here it is an operator that gives the    *)
(* new table of nodes and the code it returns.                             *)
(*                                                                         *)
(* A path is its names and whether it starts with a slash.  A node is      *)
(* known by its place in the table; 1 is v_root, 0 is NULL.  vnodes are    *)
(* allocated in zeroed memory: vfs_alloc_node leaves vfsops as it is.      *)
(* Allocations succeed.                                                    *)
(***************************************************************************)
EXTENDS Integers, Sequences, FiniteSets, SequencesExt

CONSTANTS Block,    \* PAGE_SIZE_BYTES, st_blksize of a file
          TarBlock, \* 512, the block of an archive
          SizeMod,  \* 2^64, the range of size_t
          Garbage   \* a byte nothing was written to

VARIABLES vnode,    \* the table of vnodes
          fs_metas, \* the names of the drivers that are registered
          fs_nodes  \* the mounted file systems: root and inode_count

fsvars == <<vnode, fs_metas, fs_nodes>>

v_root == 1
DIR(n) == vnode[n].type = "VDIR"

(* vfs_alloc_node: a node that belongs to no file system.                  *)
vfs_alloc_node(parent, name, type) ==
    [name |-> name, type |-> type, parent |-> parent, children |-> <<>>,
     mp |-> 0, vfsops |-> "none", ref |-> 0, size |-> 0, blocks |-> 0, data |-> <<>>,
     ino |-> 0]

vfs_init == <<vfs_alloc_node(0, "", "VDIR")>>

Abs(names) == [abs |-> TRUE, names |-> names]
Rel(names) == [abs |-> FALSE, names |-> names]
Parent(path) == [path EXCEPT !.names = Front(@)]

(* Mutant of vfs_get_child: the last child of that name.                   *)
LastChild(n, name) ==
    LET kids == vnode[n].children
        at == {i \in DOMAIN kids : vnode[kids[i]].name = name}
    IN  IF at = {} THEN 0 ELSE kids[CHOOSE i \in at : \A j \in at : j <= i]

vfs_get_child(n, name) ==
    LET kids == vnode[n].children
        at == {i \in DOMAIN kids : vnode[kids[i]].name = name}
    IN  IF at = {} THEN 0 ELSE kids[CHOOSE i \in at : \A j \in at : i <= j]

(* Mutant of Descend: a file is searched like a directory.                 *)
DescendFiles(at, name) ==
    LET child == vfs_get_child(at.node, name)
    IN  IF at.err # "SUCCESS" THEN at
        ELSE IF child # 0 THEN [node |-> child, err |-> "SUCCESS"]
        ELSE [node |-> 0, err |-> IF vnode[at.node].vfsops = "none" THEN "FAULT"
                                  ELSE "NODE_MISSING"]

(* One name of a path.  A child that is missing is asked of the driver,    *)
(* whose open fails; a directory of no file system has no driver to call.  *)
Descend(at, name) ==
    LET child == vfs_get_child(at.node, name)
    IN  IF at.err # "SUCCESS" THEN at
        ELSE IF ~DIR(at.node) THEN [node |-> 0, err |-> "INVALID_PATH"]
        ELSE IF child # 0 THEN [node |-> child, err |-> "SUCCESS"]
        ELSE [node |-> 0, err |-> IF vnode[at.node].vfsops = "none" THEN "FAULT"
                                  ELSE "NODE_MISSING"]

(* A path that starts with a slash starts at the root (the empty path is   *)
(* the root), any other path with the name of its base.                    *)
vfs_path_to_node(base, path) ==
    LET invalid == [node |-> 0, err |-> "INVALID_PATH"]
        start == [node |-> base, err |-> "SUCCESS"]
    IN  IF path.abs
        THEN IF base = v_root THEN FoldLeft(Descend, start, path.names) ELSE invalid
        ELSE IF path.names # <<>> /\ Head(path.names) = vnode[base].name /\ DIR(base)
        THEN FoldLeft(Descend, start, Tail(path.names)) ELSE invalid

-----------------------------------------------------------------------------
(* The drivers.  The files of tmpfs and devfs get one block; a device gets *)
(* its own vfsops in devfs_new_device.                                     *)
Memory(n) == [i \in 1 .. n |-> Garbage]
DriverCreate(n) == [n EXCEPT !.size = Block, !.blocks = 1, !.data = Memory(Block)]

(* Mutant of tmpfs_write: the last, partial block is not counted.          *)
WriteFullBlocks(n, bytes, offset) ==
    LET end == offset + Len(bytes)
        need == end \div Block
        grow == need > n.blocks
        data == IF grow THEN n.data \o Memory((need - n.blocks) * Block) ELSE n.data
    IN  [n EXCEPT !.blocks = IF grow THEN need ELSE @, !.size = end, !.data = data]

(* tmpfs_write grows the file to the blocks it needs; st_size is at least  *)
(* the end of what was written.                                            *)
tmpfs_write(n, bytes, offset) ==
    LET end == offset + Len(bytes)
        need == (end + Block - 1) \div Block
        grow == need > n.blocks
        data == IF grow THEN n.data \o Memory((need - n.blocks) * Block) ELSE n.data
    IN  [n EXCEPT !.blocks = IF grow THEN need ELSE @,
                  !.size = IF grow \/ end > @ THEN end ELSE @,
                  !.data = [i \in 1 .. Len(data) |->
                              IF i > offset /\ i <= end THEN bytes[i - offset] ELSE data[i]]]

(* Mutant of tmpfs_read: the size is not cut at the end of the file.       *)
ReadUncut(n, size, offset) == size

(* The number of bytes tmpfs_read copies, a size_t: for an offset behind   *)
(* the end of the file the subtraction wraps around.                       *)
tmpfs_read(n, size, offset) ==
    IF offset + size >= n.size THEN (n.size - offset) % SizeMod ELSE size

-----------------------------------------------------------------------------
(* vfs_open takes a reference, vfs_close gives it back.                    *)
vfs_open(base, path) == vfs_path_to_node(base, path)
Referenced(n) == [vnode EXCEPT ![n].ref = @ + 1]

(* Mutant of vfs_close: the reference is kept.                             *)
ReferenceKept(n) == vnode

vfs_close(n) == [vnode EXCEPT ![n].ref = @ - 1]

(* vfs_create: a new node at the end of its parent's children, of the file *)
(* system the parent is of.                                                *)
vfs_create(base, path, type) ==
    LET at == vfs_path_to_node(base, Parent(path))
        p == vnode[at.node]
        new == vfs_alloc_node(at.node, Last(path.names), type)
        mounted == DriverCreate([new EXCEPT !.mp = p.mp, !.vfsops = p.vfsops])
    IN  IF at.err # "SUCCESS" THEN [err |-> at.err, vnode |-> vnode]
        ELSE [err |-> "SUCCESS",
              vnode |-> Append([vnode EXCEPT ![at.node].children = Append(@, Len(vnode) + 1)],
                               IF p.vfsops = "none" THEN new ELSE mounted)]

(* vfs_mount, for a driver that is registered: the directory becomes the   *)
(* root of a new file system.                                              *)
vfs_mount(path, fs) ==
    LET at == vfs_path_to_node(v_root, path)
    IN  /\ at.err = "SUCCESS" /\ DIR(at.node) /\ fs \in fs_metas
        /\ fs_nodes' = Append(fs_nodes, [root |-> at.node, inode_count |-> 0])
        /\ vnode' = [vnode EXCEPT ![at.node].mp = at.node, ![at.node].vfsops = fs]
        /\ UNCHANGED fs_metas

(* devfs_new_device creates the file, opens it and gives it its driver and *)
(* number (dev_id counts with inode_count: there is one devfs); a name     *)
(* that is taken is refused, after it was opened.                          *)
devfs_new_device(name, ops) ==
    LET fs == CHOOSE i \in DOMAIN fs_nodes : vnode[fs_nodes[i].root].vfsops = "devfs"
        root == fs_nodes[fs].root
        path == Rel(<<"dev", name>>)
        found == vfs_open(root, path)
        made == vfs_create(root, path, "VREG").vnode
        dev == Len(made)
    IN  /\ UNCHANGED fs_metas
        /\ IF found.err = "SUCCESS"
           THEN vnode' = Referenced(found.node) /\ UNCHANGED fs_nodes
           ELSE /\ vnode' = [made EXCEPT ![dev].ref = 1, ![dev].vfsops = ops,
                                ![dev].ino = fs_nodes[fs].inode_count]
                /\ fs_nodes' = [fs_nodes EXCEPT ![fs].inode_count = @ + 1]

-----------------------------------------------------------------------------
(* An archive is a sequence of blocks: the header of an entry, with its    *)
(* name, its size and whether it is a regular file whose name does not     *)
(* start with "./", or a block of the data of a file.  From the header at  *)
(* a block the loader goes to the block after the data it thinks the file  *)
(* has.                                                                    *)
DataBlocks(size) == (size + TarBlock - 1) \div TarBlock
Archived(entry) ==
    <<[magic |-> TRUE, entry |-> entry]>> \o
    [i \in 1 .. DataBlocks(entry.size) |-> [magic |-> FALSE, entry |-> entry]]
Contents(name, size) == [i \in 1 .. size |-> <<name, i>>]

(* Mutant of NextHeader: the header itself is not counted.                 *)
NextHeaderShort(at, size) ==
    LET n == size \div TarBlock IN at + (IF n % TarBlock # 0 THEN n + 1 ELSE n)

NextHeader(at, size) ==
    LET n == size \div TarBlock IN at + 1 + (IF n % TarBlock # 0 THEN n + 1 ELSE n)
=============================================================================
