-------------------------------- MODULE ExFat --------------------------------
(* The read-only exFAT reader (kernel/src/fs/exfat.rs, kernel/src/fs/detect.rs) *)
(* on small volumes.  A cluster holds Slots directory slots, or Slots units  *)
(* of data.  A file is described by a set of slots: one for the file, one    *)
(* for the stream (with the length of the name) and one per part of the      *)
(* name.  A walk over a directory and a read of a file take one step per     *)
(* cluster, and the device may fail at each.                                 *)
EXTENDS Integers, Sequences, SequencesExt, FiniteSets

CONSTANTS
    Slots,        \* slots, or units of data, in a cluster
    Width,        \* numbers of the boot sector are taken modulo 2^32
    UsizeMod,     \* lengths kept in a usize are taken modulo 2^32, or 2^64 on rv64
    BufClusters,  \* clusters' worth of CLUSTER_BUF, 512 bytes each (8)
    Media,        \* what a device may hold: a boot sector and a volume
    Walks,        \* directories: first cluster, length, chaining
    Requests      \* reads: first cluster, length, buffer and chaining

ASSUME ExFatAssumption ==
    /\ {Slots, Width, BufClusters, UsizeMod} \subseteq Nat \ {0}
    /\ \A rq \in Requests : rq.buf < UsizeMod

VARIABLES
    xboot,     \* the boot sector of the device
    xvol,      \* the volume
    xop,       \* what the shell is doing
    xreq,      \* the request being served
    xcluster,  \* the local cluster of the loop
    xout       \* what the loop has produced

exfatVars == <<xboot, xvol, xop, xreq, xcluster, xout>>

EndOfChain == 0

-----------------------------------------------------------------------------
(* Mounting.                                                                 *)

\* sector 0 as detect.rs looks at it: the shifts must not be 0
try_detect_exfat(b) == b.signed /\ b.bps_shift # 0 /\ b.spc_shift # 0

\* ExfatFs::mount: 512-byte sectors, a cluster fits CLUSTER_BUF, the root
\* directory lies in the cluster heap; cluster_count + 2 wraps
exfat_mount(b) ==
    /\ b.signed
    /\ b.bps_shift \in 9..12 /\ b.spc_shift <= 25
    /\ 2^b.bps_shift = 512 /\ 2^b.spc_shift <= BufClusters
    /\ b.cluster_count # 0
    /\ b.root >= 2 /\ b.root < (b.cluster_count + 2) % Width

MountVolume ==
    /\ xop = "unmounted"
    /\ \E io \in BOOLEAN :
         xop' = IF io /\ try_detect_exfat(xboot) /\ exfat_mount(xboot) THEN "idle"
                ELSE "refused"
    /\ UNCHANGED <<xboot, xvol, xreq, xcluster, xout>>

-----------------------------------------------------------------------------
(* Cluster chains.                                                           *)

\* clusters 0 and 1 do not exist; their places of the FAT end a chain
next_cluster(c) == IF c \in DOMAIN xvol.fat THEN xvol.fat[c] ELSE EndOfChain

CeilDiv(a, b) == (a + b - 1) \div b

\* a file or directory without a FAT chain occupies consecutive clusters
next_cluster_for_entry(rq, c) ==
    IF ~rq.no_fat_chain THEN next_cluster(c)
    ELSE IF (c - rq.first) + 1 >= (IF rq.len = 0 THEN 1 ELSE CeilDiv(rq.len, Slots))
    THEN EndOfChain ELSE c + 1

-----------------------------------------------------------------------------
(* Directories.                                                              *)

Slot(kind, x) == [kind |-> kind, x |-> x]

SlotsOf(e) == <<Slot("file", e.dir), Slot("stream", Len(e.name))>>
              \o [k \in DOMAIN e.name |-> Slot("name", e.name[k])]

\* the slots of the root directory of a volume, as a formatter lays them out
Flat(v) == (IF v.label THEN <<Slot("label", 0)>> ELSE <<>>)
           \o FlattenSeq([k \in DOMAIN v.sets |-> SlotsOf(v.sets[k])])

\* the clusters of the root directory in the order of the directory
Part(v, n) ==
    LET all == Flat(v) IN
    [k \in 1..Slots |-> IF (n - 1) * Slots + k <= Len(all) THEN all[(n - 1) * Slots + k]
                        ELSE Slot("unused", 0)]

\* the slots of a cluster; cluster 1 reads as sector 0, which is no directory
read_cluster(v, c) ==
    IF \E n \in DOMAIN v.order : v.order[n] = c
    THEN Part(v, CHOOSE n \in DOMAIN v.order : v.order[n] = c)
    ELSE [k \in 1..Slots |-> Slot("unused", 0)]

\* the first slot after the name parts that follow the stream at i + 1
NameEnd(sl, i) ==
    CHOOSE j \in (i + 2)..(Len(sl) + 1) :
      /\ \A k \in (i + 2)..(j - 1) : sl[k].kind = "name"
      /\ j - (i + 2) <= sl[i + 1].x
      /\ \/ j = Len(sl) + 1 \/ sl[j].kind # "name" \/ j - (i + 2) = sl[i + 1].x

NameParts(sl, from, to) == [k \in 1..(to - from) |-> sl[from + k - 1].x]

list_clusterNoBreak(sl) ==
    LET scan[i \in 1..(Len(sl) + 1)] ==
          IF i > Len(sl) THEN <<>>
          ELSE IF sl[i].kind = "file" /\ i < Len(sl)
          THEN <<[name |-> <<>>, dir |-> sl[i].x]>> \o scan[i + 1]
          ELSE scan[i + 1]
    IN scan[1]

\* the inner loop of list_entry_dir: a file slot counts when the stream is in
\* the same cluster; the name is what follows in the same cluster
list_cluster(sl) ==
    LET scan[i \in 1..(Len(sl) + 1)] ==
          IF i > Len(sl) THEN <<>>
          ELSE IF sl[i].kind = "unused" THEN <<>>
          ELSE IF sl[i].kind = "file" /\ i < Len(sl) /\ sl[IF i < Len(sl) THEN i + 1 ELSE i].kind = "stream"
          THEN <<[name |-> NameParts(sl, i + 2, NameEnd(sl, i)), dir |-> sl[i].x]>>
               \o scan[NameEnd(sl, i)]
          ELSE scan[i + 1]
    IN scan[1]

Idle == xop \in {"idle", "listed", "copied", "failed"}

Clusters(rq) == IF rq.no_fat_chain THEN CeilDiv(rq.len, Slots) ELSE 1

\* requests for consecutive clusters stay inside the volume
InVolume(rq) == rq.first + Clusters(rq) <= Cardinality(DOMAIN xvol.fat) + 2

StartWalk ==
    /\ Idle
    /\ \E rq \in Walks :
         /\ InVolume(rq)
         /\ xreq' = rq /\ xcluster' = rq.first
    /\ xop' = "walk" /\ xout' = <<>>
    /\ UNCHANGED <<xboot, xvol>>

list_entry_dirRetry ==
    /\ xop = "walk"
    /\ IF xcluster = EndOfChain THEN xop' = "listed" /\ UNCHANGED <<xcluster, xout>>
       ELSE \/ /\ xcluster' = next_cluster_for_entry(xreq, xcluster)
               /\ xout' = xout \o list_cluster(read_cluster(xvol, xcluster))
               /\ xop' = xop
            \/ xcluster' = xreq.first /\ xout' = <<>> /\ xop' = xop
    /\ UNCHANGED <<xboot, xvol, xreq>>

\* one turn of the outer loop of list_entry_dir; the cluster or the FAT may be
\* unreadable, the latter after the entries of the cluster were reported
list_entry_dir ==
    /\ xop = "walk"
    /\ IF xcluster = EndOfChain THEN xop' = "listed" /\ UNCHANGED <<xcluster, xout>>
       ELSE \/ /\ xcluster' = next_cluster_for_entry(xreq, xcluster)
               /\ xout' = xout \o list_cluster(read_cluster(xvol, xcluster))
               /\ xop' = xop
            \/ /\ xop' = "failed" /\ UNCHANGED xcluster
               /\ xout' \in {xout, xout \o list_cluster(read_cluster(xvol, xcluster))}
    /\ UNCHANGED <<xboot, xvol, xreq>>

-----------------------------------------------------------------------------
(* Files.                                                                    *)

StartRead ==
    /\ Idle
    /\ \E rq \in Requests :
         /\ InVolume(rq)
         /\ xreq' = rq /\ xcluster' = rq.first
    /\ xop' = "read" /\ xout' = <<>>
    /\ UNCHANGED <<xboot, xvol>>

\* the length of the file is 64 bits wide and is cast to usize before it is compared
target_len ==
    LET data_length == xreq.len % UsizeMod IN IF data_length < xreq.buf THEN data_length ELSE xreq.buf

read_len == IF target_len - Len(xout) < Slots THEN target_len - Len(xout) ELSE Slots

\* one turn of the loop of read_file; unit k of cluster c is written <<c, k>>
read_file_loop ==
    /\ xop = "read"
    /\ IF xcluster = EndOfChain \/ Len(xout) >= target_len
       THEN xop' = "copied" /\ UNCHANGED <<xcluster, xout>>
       ELSE \/ /\ xout' = xout \o [k \in 1..read_len |-> <<xcluster, k>>]
               /\ xcluster' = next_cluster_for_entry(xreq, xcluster)
               /\ xop' = xop
            \/ /\ xop' = "failed" /\ UNCHANGED xcluster
               /\ xout' \in {xout, xout \o [k \in 1..read_len |-> <<xcluster, k>>]}
    /\ UNCHANGED <<xboot, xvol, xreq>>

-----------------------------------------------------------------------------
NoRequest == [first |-> 0, len |-> 0, buf |-> 0, no_fat_chain |-> FALSE]

ExFatInit ==
    /\ \E md \in Media : xboot = md.boot /\ xvol = md.vol
    /\ xop = "unmounted"
    /\ xreq = NoRequest
    /\ xcluster = EndOfChain
    /\ xout = <<>>

ExFatNext == MountVolume \/ StartWalk \/ list_entry_dir \/ StartRead \/ read_file_loop

ExFatSpec == ExFatInit /\ [][ExFatNext]_exfatVars /\ WF_exfatVars(list_entry_dir \/ read_file_loop)

-----------------------------------------------------------------------------
(* Properties.                                                               *)

\* the clusters of a chain, then EndOfChain
Chain(rq) ==
    LET at[k \in 0..(Cardinality(DOMAIN xvol.fat) + 1)] ==
          IF k = 0 THEN rq.first
          ELSE IF rq.no_fat_chain
          THEN (IF k * Slots < rq.len THEN rq.first + k ELSE EndOfChain)
          ELSE next_cluster(at[k - 1])
    IN at

Acyclic(rq) == \E k \in DOMAIN Chain(rq) : Chain(rq)[k] = EndOfChain

\* what a directory slot set shows when only its own cluster is looked at
Shown(v, k) ==
    LET before == Len(Flat([v EXCEPT !.sets = SubSeq(@, 1, k - 1)]))
        room == Slots - (before % Slots)
        nm == v.sets[k].name IN
    IF room < 2 THEN <<>>
    ELSE <<[name |-> IF Len(nm) > room - 2 THEN SubSeq(nm, 1, room - 2) ELSE nm,
            dir |-> v.sets[k].dir]>>

\* A completed request gives what the volume holds.  A directory listing shows
\* every entry whose slots share a cluster, in order and with its name, whatever
\* the order of the clusters on the volume; of an entry that goes over the end of
\* a cluster it shows what lies before the end: a name cut short, or nothing when
\* the stream slot is past it.  A read gives the units of the chain in order, with
\* or without a FAT chain, also when the chain runs in a circle: never more than the
\* file, the buffer and the chain have, and just as many as long as the length of
\* the file fits a usize.  And what is mounted has its root directory in the
\* cluster heap, although the bound it is compared with may wrap.
RequestsExact ==
    /\ (xop = "listed" /\ \A n \in DOMAIN xvol.order : Chain(xreq)[n - 1] = xvol.order[n]) =>
         xout = FlattenSeq([k \in DOMAIN xvol.sets |-> Shown(xvol, k)])
    /\ xop = "copied" =>
         LET ends == {k \in DOMAIN Chain(xreq) : Chain(xreq)[k] = EndOfChain}
             held == IF ends = {} THEN {} ELSE {Slots * Min(ends)}
             n == Min({xreq.len, xreq.buf} \cup held) IN
         /\ Len(xout) <= n /\ (xreq.len < UsizeMod => Len(xout) = n)
         /\ xout = [u \in DOMAIN xout |-> <<Chain(xreq)[(u - 1) \div Slots], ((u - 1) % Slots) + 1>>]
    /\ xop \notin {"unmounted", "refused"} => xboot.root \in 2..(xboot.cluster_count + 1)

\* A read ends on every volume, because the length of the file bounds it; a
\* directory walk, which nothing bounds, ends when the chain has an end.
RequestsEnd ==
    (xop = "read" \/ (xop = "walk" /\ Acyclic(xreq))) ~> xop \in {"copied", "listed", "failed"}

=============================================================================
