------------------------------ MODULE ShellFiles -----------------------------
(* The RAM file system and the mount table (kernel/src/fs/mod.rs) under the *)
(* commands of the built-in shell (kernel/src/shell.rs).  Only the shell     *)
(* task calls them, so a command is one step.                                *)
(*                                                                           *)
(* A path is the sequence of what stands between its slashes; "/" is the     *)
(* empty sequence and two slashes in a row hold the component "".  An        *)
(* argument keeps what the user typed: whether it begins with a slash, and   *)
(* its components with "", "." and "..".  Every component counts as one      *)
(* towards the buffers, of which ShellPath holds PathCap and a mount path     *)
(* TargetCap; whether a name fits NAME_MAX is its own matter.  What a mounted *)
(* volume holds is a tree; how exFAT stores it is the subject of ExFat.       *)
EXTENDS Integers, Sequences, SequencesExt, FiniteSets

CONSTANTS
    DirMax,      \* DIR_MAX_ENTRIES
    NodeCap,     \* NODE_POOL_CAP
    PathCap,     \* components that fit into ShellPath and cwd (256 bytes)
    TargetCap,   \* components that fit into a mount path (64 bytes)
    VolDepth,    \* components find_entry looks at (8)
    FileMax,     \* FILE_MAX_SIZE
    Cuts,        \* each name of NAME_MAX bytes or more, and its first NAME_MAX - 1
    MountSlots,  \* places of MOUNTS
    Disks,       \* the block devices, in the order of the driver registry
    DevFiles,    \* names register_dev_files gives to the registered drivers
    PathArgs,    \* arguments the user may type
    TargetArgs,  \* those of them given to mount
    Texts,       \* texts the user may write
    CountMax     \* bound on NODE_COUNT, which grows with every refused creation

ASSUME ShellFilesAssumption ==
    /\ {DirMax, NodeCap, PathCap, TargetCap, VolDepth, FileMax, MountSlots, CountMax} \subseteq Nat \ {0}
    /\ NodeCap < CountMax
    /\ TargetArgs \subseteq PathArgs /\ \A a \in PathArgs : a.abs \in BOOLEAN

VARIABLES
    ram,      \* POOL and NODE_COUNT
    mounts,   \* MOUNTS
    cwd,      \* ShellState::cwd
    said,     \* whether the last command reported an error
    written,  \* history: what was last written to each file
    entered   \* history: where the last cd found its directory

filesVars == <<ram, mounts, cwd, said, written, entered>>

Missing == 0   \* an error of lookup, resolve_path or a creation
Root == 1

NoMount == [at |-> <<>>, disk |-> 0]

-----------------------------------------------------------------------------
(* Nodes.  A node is never given back, so the pool is a sequence and the     *)
(* children of a directory are a sequence as well.                           *)

new_file(nm) == [kind |-> "file", name |-> nm, kids |-> <<>>, text |-> <<>>]

new_dir(nm) == [kind |-> "dir", name |-> nm, kids |-> <<>>, text |-> <<>>]

\* NODE_COUNT grows even when the pool is full
alloc_node(r, vnode) ==
    [nodes |-> IF r.count >= NodeCap THEN r.nodes ELSE Append(r.nodes, vnode),
     count |-> r.count + 1]

is_dir(r, id) == id # Missing /\ r.nodes[id].kind = "dir"

Children(r, dir, nm) ==
    IF is_dir(r, dir)
    THEN {k \in DOMAIN r.nodes[dir].kids : r.nodes[r.nodes[dir].kids[k]].name = nm}
    ELSE {}

lookup(r, dir, nm) ==
    LET hits == Children(r, dir, nm) IN
    IF hits = {} THEN Missing ELSE r.nodes[dir].kids[Min(hits)]

\* empty components are passed over
resolve_path(r, path) ==
    LET at[i \in 0..Len(path)] ==
          IF i = 0 THEN Root ELSE IF path[i] = "" THEN at[i - 1] ELSE lookup(r, at[i - 1], path[i])
    IN at[Len(path)]

\* the new node is allocated before a place in the directory is looked for
Placed(r, dir) ==
    IF r.count >= NodeCap \/ Len(r.nodes[dir].kids) >= DirMax THEN Missing ELSE r.count + 1

AttachedAnyway(r, dir, id) ==
    [r EXCEPT !.nodes[dir].kids = IF id = Missing THEN Append(Front(@), Len(r.nodes)) ELSE Append(@, id)]

Attached(r, dir, id) ==
    IF id = Missing THEN r ELSE [r EXCEPT !.nodes[dir].kids = Append(@, id)]

NameFits(nm) == nm # "" /\ nm \notin DOMAIN Cuts

create(r, dir, vnode) ==
    IF ~NameFits(vnode.name) \/ ~is_dir(r, dir) \/ lookup(r, dir, vnode.name) # Missing
    THEN [ram |-> r, id |-> Missing]
    ELSE [ram |-> Attached(alloc_node(r, vnode), dir, Placed(r, dir)), id |-> Placed(r, dir)]

create_file(r, dir, nm) == create(r, dir, new_file(nm))

create_dir(r, dir, nm) == create(r, dir, new_dir(nm))

write_fileShort(r, id, text) ==
    IF is_dir(r, id) THEN r
    ELSE [r EXCEPT !.nodes[id].text = IF Len(text) > FileMax THEN SubSeq(text, 1, FileMax - 1)
                                      ELSE text]

write_file(r, id, text) ==
    IF is_dir(r, id) THEN r
    ELSE [r EXCEPT !.nodes[id].text = IF Len(text) > FileMax THEN SubSeq(text, 1, FileMax)
                                      ELSE text]

read_file(r, id) == r.nodes[id].text

list_dir(r, dir) == {r.nodes[k].name : k \in ToSet(r.nodes[dir].kids)}

\* fs::init: the root and its three directories
fs_init ==
    LET r0 == alloc_node([nodes |-> <<>>, count |-> 0], new_dir("/"))
        r1 == create_dir(r0, Root, "dev").ram
        r2 == create_dir(r1, Root, "proc").ram
    IN create_dir(r2, Root, "mnt").ram

register_dev_files(r) ==
    LET made[i \in 0..Len(DevFiles)] ==
          IF i = 0 THEN r
          ELSE create_file(made[i - 1], resolve_path(r, <<"dev">>), DevFiles[i]).ram
    IN made[Len(DevFiles)]

-----------------------------------------------------------------------------
(* Mounts.                                                                   *)

Covers(m, path) == m # NoMount /\ IsPrefix(m.at, path)

find_mount_first(mt, path) ==
    IF \E i \in DOMAIN mt : Covers(mt[i], path)
    THEN mt[CHOOSE i \in DOMAIN mt : Covers(mt[i], path) /\ \A j \in DOMAIN mt :
                                       Covers(mt[j], path) => i <= j]
    ELSE NoMount

\* the slots in order; a longer mount path replaces a shorter one
find_mount_for_path(mt, path) ==
    LET best[i \in 0..MountSlots] ==
          IF i = 0 THEN NoMount
          ELSE IF Covers(mt[i], path) /\ Len(mt[i].at) > Len(best[i - 1].at) THEN mt[i]
          ELSE best[i - 1]
    IN best[MountSlots]

rel(m, path) == SubSeq(path, Len(m.at) + 1, Len(path))

\* ExfatFs::find_entry on the tree of the volume: a file in the middle of a
\* path ends the search, and is what is found; components past the eighth are
\* dropped
Found(tree, path) ==
    LET step[i \in 0..Len(path)] ==
          IF i = 0 THEN <<>>
          ELSE IF step[i - 1] = <<"none">> THEN <<"none">>
          ELSE IF step[i - 1] # <<>> /\ tree[step[i - 1]] = "file" THEN step[i - 1]
          ELSE IF SubSeq(path, 1, i) \in DOMAIN tree THEN SubSeq(path, 1, i)
          ELSE <<"none">>
    IN step[IF Len(path) > VolDepth THEN VolDepth ELSE Len(path)]

\* the directory walk ignores an error of the device, and then finds nothing
VolumeType(m, path, io) ==
    IF m = NoMount THEN "none"
    ELSE IF rel(m, path) = <<>> THEN "dir"
    ELSE IF ~io \/ Found(Disks[m.disk].tree, rel(m, path)) = <<"none">> THEN "none"
    ELSE Disks[m.disk].tree[Found(Disks[m.disk].tree, rel(m, path))]

path_file_type(r, mt, path, io) ==
    LET id == resolve_path(r, path) IN
    IF id # Missing THEN r.nodes[id].kind
    ELSE VolumeType(find_mount_for_path(mt, path), path, io)

\* what stands before the last slash; of "//d" that is "/"
MountParent(at) == IF Front(at) = <<"">> THEN <<>> ELSE Front(at)

list_mount_children(mt, path) ==
    {Last(mt[i].at) : i \in {j \in DOMAIN mt : mt[j] # NoMount /\ MountParent(mt[j].at) = path}}

Cut(nm) == IF nm \in DOMAIN Cuts THEN Cuts[nm] ELSE nm

VolumeNames(tree, path) ==
    {Cut(Last(p)) : p \in {q \in DOMAIN tree : Front(q) = path}}

\* a file is listed by its own name; find_entry compares whole names, but what is
\* listed goes through a buffer of NAME_MAX bytes
list_path(m, path) ==
    IF rel(m, path) = <<>> THEN VolumeNames(Disks[m.disk].tree, <<>>)
    ELSE IF Disks[m.disk].tree[Found(Disks[m.disk].tree, rel(m, path))] = "file"
    THEN {Cut(Last(Found(Disks[m.disk].tree, rel(m, path))))}
    ELSE VolumeNames(Disks[m.disk].tree, Found(Disks[m.disk].tree, rel(m, path)))

\* the parent of a mount point is a directory of the RAM file system, however it
\* is written; the target is kept as it was typed, while find_mount_for_path is
\* given normalised paths; the target itself may exist there as well, and then stays in front of the mount
valid_mount_target(r, path) ==
    path # <<>> /\ NameFits(Last(path)) /\ is_dir(r, resolve_path(r, Front(path)))

find_block_device(n) == n \in DOMAIN Disks

Occupied(mt) == {i \in DOMAIN mt : mt[i] # NoMount}

\* TargetBusy, NoSpace, or the first empty slot
register_mount(mt, path, n) ==
    IF (\E i \in Occupied(mt) : mt[i].at = path) \/ Occupied(mt) = DOMAIN mt THEN mt
    ELSE [mt EXCEPT ![CHOOSE i \in DOMAIN mt \ Occupied(mt) :
                        \A j \in DOMAIN mt \ Occupied(mt) : i <= j] = [at |-> path, disk |-> n]]

\* the volume is accepted: sector 0 can be read (twice), detect_fs recognises
\* exFAT, and ExfatFs::mount accepts the boot sector
detect_fs(n, io) == io /\ Disks[n].form = "exfat"

mount_fs(r, mt, n, arg, io) ==
    IF /\ arg.abs /\ Len(arg.parts) <= TargetCap
       /\ valid_mount_target(r, arg.parts)
       /\ find_block_device(n)
       /\ detect_fs(n, io)
    THEN register_mount(mt, arg.parts, n)
    ELSE mt

unmount(mt, path) == [i \in DOMAIN mt |-> IF mt[i].at = path THEN NoMount ELSE mt[i]]

-----------------------------------------------------------------------------
(* Paths as the shell reads them.                                            *)

TooLong == <<"too long">>

push_component(out, nm) ==
    IF out = TooLong THEN TooLong
    ELSE IF nm \in {"", "."} THEN out
    ELSE IF nm = ".." THEN (IF out = <<>> THEN out ELSE Front(out))
    ELSE IF Len(out) >= PathCap THEN TooLong
    ELSE Append(out, nm)

normalize_path(arg) ==
    LET out[i \in 0..Len(arg.parts)] ==
          IF i = 0 THEN (IF arg.abs THEN <<>> ELSE cwd)
          ELSE push_component(out[i - 1], arg.parts[i])
    IN out[Len(arg.parts)]

\* the last component is the child, whatever it is; the rest is normalised
split_parent(arg) == normalize_path([arg EXCEPT !.parts = Front(@)])

ParentNode(arg) ==
    IF arg.parts = <<>> \/ split_parent(arg) = TooLong THEN Missing
    ELSE resolve_path(ram, split_parent(arg))

-----------------------------------------------------------------------------
(* Commands.                                                                 *)

FilesInit ==
    /\ ram = register_dev_files(fs_init)
    /\ mounts = [i \in 1..MountSlots |-> NoMount]
    /\ cwd = <<>>
    /\ said = "ok"
    /\ written = <<>>
    /\ entered = "ram"

Report(ok) == said' = IF ok THEN "ok" ELSE "error"

cmd_cdToAny(path, io) ==
    LET ok == path # TooLong /\ path_file_type(ram, mounts, path, io) # "none" IN
    /\ cwd' = IF ok THEN path ELSE cwd
    /\ entered' = IF ok THEN (IF resolve_path(ram, path) # Missing THEN "ram" ELSE "mount")
                  ELSE entered
    /\ Report(ok)
    /\ UNCHANGED <<ram, mounts, written>>

cmd_cdTo(path, io) ==
    LET ok == path # TooLong /\ path_file_type(ram, mounts, path, io) = "dir" IN
    /\ cwd' = IF ok THEN path ELSE cwd
    /\ entered' = IF ok THEN (IF resolve_path(ram, path) # Missing THEN "ram" ELSE "mount")
                  ELSE entered
    /\ Report(ok)
    /\ UNCHANGED <<ram, mounts, written>>

\* without an argument cd goes to "/"
cmd_cd ==
    \E arg \in PathArgs, io \in BOOLEAN :
      cmd_cdTo(IF arg.parts = <<>> THEN <<>> ELSE normalize_path(arg), io)

\* what ls prints, as a set of names, or an error
Listing(path, io) ==
    IF is_dir(ram, resolve_path(ram, path))
    THEN list_dir(ram, resolve_path(ram, path)) \cup list_mount_children(mounts, path)
    ELSE IF resolve_path(ram, path) # Missing
    THEN {ram.nodes[resolve_path(ram, path)].name}
    ELSE IF VolumeType(find_mount_for_path(mounts, path), path, io) = "none" THEN {}
    ELSE list_path(find_mount_for_path(mounts, path), path)

cmd_ls ==
    \E arg \in PathArgs, io \in BOOLEAN :
      LET path == normalize_path(arg) IN
      /\ Report(path # TooLong /\ path_file_type(ram, mounts, path, io) # "none")
      /\ UNCHANGED <<ram, mounts, cwd, written, entered>>

\* an empty file is no error in the RAM file system, but is one on a volume,
\* where the trees of Disks hold no empty files
cmd_cat ==
    \E arg \in {a \in PathArgs : a.parts # <<>>}, io \in BOOLEAN :
      LET path == normalize_path(arg) IN
      /\ Report(path # TooLong /\ path_file_type(ram, mounts, path, io) = "file")
      /\ UNCHANGED <<ram, mounts, cwd, written, entered>>

Written(arg, text, made) ==
    IF made.id = Missing \/ is_dir(made.ram, made.id) THEN written
    ELSE (Append(split_parent(arg), Last(arg.parts)) :> text) @@ written

Created(arg, made, isFile) ==
    /\ ram' = made.ram
    /\ written' = IF isFile THEN Written(arg, <<>>, made) ELSE written
    /\ Report(made.id # Missing)
    /\ UNCHANGED <<mounts, cwd, entered>>

cmd_mkdir ==
    /\ ram.count < CountMax
    /\ \E arg \in {a \in PathArgs : a.parts # <<>>} :
         Created(arg, create_dir(ram, ParentNode(arg), Last(arg.parts)), FALSE)

cmd_touch ==
    /\ ram.count < CountMax
    /\ \E arg \in {a \in PathArgs : a.parts # <<>>} :
         Created(arg, create_file(ram, ParentNode(arg), Last(arg.parts)), TRUE)

\* echo text > file: the file as it is, or a new one; an error of write_file,
\* which a directory gives, is not reported
Opened(arg) ==
    IF lookup(ram, ParentNode(arg), Last(arg.parts)) # Missing
    THEN [ram |-> ram, id |-> lookup(ram, ParentNode(arg), Last(arg.parts))]
    ELSE create_file(ram, ParentNode(arg), Last(arg.parts))

EchoTo(arg, text, open) ==
    /\ ram' = IF open.id = Missing THEN open.ram ELSE write_file(open.ram, open.id, text)
    /\ written' = Written(arg, text, open)
    /\ Report(open.id # Missing)
    /\ UNCHANGED <<mounts, cwd, entered>>

cmd_echo ==
    /\ ram.count < CountMax
    /\ \E arg \in {a \in PathArgs : a.parts # <<>>}, text \in Texts :
         EchoTo(arg, text, Opened(arg))

\* mount /dev/blk<n> <target>; the target is taken as it was typed
cmd_mount ==
    \E arg \in TargetArgs, n \in 1..(Len(Disks) + 1), io \in BOOLEAN :
      /\ mounts' = mount_fs(ram, mounts, n, arg, io)
      /\ Report(mounts' # mounts)
      /\ UNCHANGED <<ram, cwd, written, entered>>

\* mount -u <target>
cmd_unmount ==
    \E arg \in TargetArgs :
      /\ mounts' = IF arg.abs /\ arg.parts # <<>> THEN unmount(mounts, arg.parts) ELSE mounts
      /\ Report(mounts' # mounts)
      /\ UNCHANGED <<ram, cwd, written, entered>>

execute_command ==
    \/ cmd_cd \/ cmd_ls \/ cmd_cat \/ cmd_mkdir \/ cmd_touch \/ cmd_echo
    \/ cmd_mount \/ cmd_unmount

FilesSpec == FilesInit /\ [][execute_command]_filesVars

-----------------------------------------------------------------------------
(* Properties.                                                               *)

\* the paths of arguments that are written as normalize_path writes them
ProbePaths == {a.parts : a \in {b \in PathArgs : b.abs /\ ToSet(b.parts) \cap {"", ".", ".."} = {}}}

\* A file reads back as what echo last wrote to its path, cut at FILE_MAX_SIZE,
\* whatever was created, mounted or unmounted since, and from whichever current
\* directory it was written.
LastWriteRead ==
    \A p \in DOMAIN written :
      LET id == resolve_path(ram, p) IN
      /\ id # Missing
      /\ read_file(ram, id) = SubSeq(written[p], 1, IF Len(written[p]) > FileMax THEN FileMax
                                                    ELSE Len(written[p]))

\* A name ls prints and path_file_type does not find: a volume's name that was cut,
\* or a mount whose target was typed with two slashes in front, which "/" lists.
Unreachable(path, nm) ==
    \/ nm \in {Cuts[l] : l \in DOMAIN Cuts}
    \/ path = <<>> /\ \E i \in DOMAIN mounts : mounts[i].at = <<"", nm>>

\* A path means the same to every command, in whichever order the mounts came and
\* went: no two mounts have one target as typed, find_mount_for_path gives the
\* innermost mount above a path, and every name ls prints for a directory is found
\* under that directory, in the RAM file system, at a mount point or on a volume,
\* with the two exceptions of Unreachable.  (Names are looked up as they are; an
\* entry called ".." exists, but the shell reads it as a direction.)
PathsAgree ==
    /\ \A i, j \in Occupied(mounts) : i # j => mounts[i].at # mounts[j].at
    /\ \A path \in ProbePaths :
         LET above == {i \in Occupied(mounts) : IsPrefix(mounts[i].at, path)}
             m == find_mount_for_path(mounts, path) IN
         /\ IF above = {} THEN m = NoMount
            ELSE \E i \in above : m = mounts[i] /\ \A j \in above : IsPrefix(mounts[j].at, m.at)
         /\ path_file_type(ram, mounts, path, TRUE) = "dir" =>
              \A nm \in Listing(path, TRUE) :
                Unreachable(path, nm) \/ path_file_type(ram, mounts, Append(path, nm), TRUE) # "none"

\* A current directory the RAM file system holds stays a directory; only one
\* entered on a volume can be lost, to mount -u or to a node created over it.
CwdIsDirectory ==
    path_file_type(ram, mounts, cwd, TRUE) # "dir" => entered = "mount"

\* A command that reports an error changes nothing a later command can see: no
\* directory, no text, no mount, not the current directory.  (It may use up a
\* node: alloc_node comes first.)
FailedChangesNothing ==
    [][said' = "error" =>
         /\ mounts' = mounts /\ cwd' = cwd
         /\ \A id \in DOMAIN ram.nodes : ram'.nodes[id] = ram.nodes[id]
      ]_filesVars

=============================================================================
