------------------------------ MODULE MCSession -----------------------------
(* A session at the console: the bytes of the receive path, the line editor, *)
(* the file commands, the exFAT reader and the sockets.  The parts share no  *)
(* variable and are checked side by side; part says which one a behaviour is *)
(* about.                                                                    *)
EXTENDS MCRxPath, LineEditor, ShellFiles, ExFat, Sockets

VARIABLE part

\* line editor: two commands that begin alike; a mount point listed twice
TheCommands == {<<"a", "a">>, <<"a", "b", "b">>}
Listed(nm, isDir) == [name |-> nm, dir |-> isDir]
HereList == <<Listed(<<"a", "b">>, TRUE), Listed(<<"b">>, TRUE), Listed(<<"b">>, TRUE)>>
BelowList == <<Listed(<<"a">>, FALSE)>>

\* files: paths above, at and below the mount points, one typed with two slashes; an
\* exFAT disk, with a name too long for the RAM file system, and another
Abs(p) == [abs |-> TRUE, parts |-> p]
Rel(p) == [abs |-> FALSE, parts |-> p]
TheArgs == {Abs(<<>>), Abs(<<"mnt">>), Abs(<<"mnt", "d">>), Abs(<<"", "d">>), Rel(<<"d">>), Rel(<<"..">>),
            Rel(<<"d", "f">>), Rel(<<"longname">>)}
TheTargets == {Abs(<<"mnt">>), Abs(<<"mnt", "d">>), Abs(<<"", "d">>), Rel(<<"d">>)}
TheTexts == {<<1, 2, 3>>, <<4>>}
TheCuts == "longname" :> "longnam"
TheTree == (<<"d">> :> "dir") @@ (<<"d", "f">> :> "file") @@ (<<"f">> :> "file") @@ (<<"longname">> :> "file")
TheDisks == <<[form |-> "exfat", tree |-> TheTree], [form |-> "other", tree |-> <<>>]>>
TheDevFiles == <<"blk0">>

\* exFAT: boot sectors with every field at its limits; volumes of a few clusters
\* with every FAT, circles included; directories of up to three entries
GoodBoot == [signed |-> TRUE, bps_shift |-> 9, spc_shift |-> 1, cluster_count |-> 4, root |-> 2]
Boots == [signed : BOOLEAN, bps_shift : {0, 8, 9, 10, 13}, spc_shift : {0, 1, 3, 4, 26},
          cluster_count : {0, 1, 3, 13, 14, 15}, root : {0, 1, 2, 4, 5, 15}]
Fats == [2..4 -> {0, 1, 2, 3, 4}]
Linear == [c \in 2..5 |-> IF c = 5 THEN 0 ELSE c + 1]
Twisted == (2 :> 4) @@ (4 :> 3) @@ (3 :> 5) @@ (5 :> 0)
Vol(f, es, lb, ord) == [fat |-> f, sets |-> es, label |-> lb, order |-> ord]
EntrySets == UNION {[1..n -> {[name |-> <<"a">>, dir |-> TRUE], [name |-> <<"b", "c">>, dir |-> FALSE]}] : n \in 1..3}
TheMedia ==
    {[boot |-> b, vol |-> Vol(Linear, <<>>, FALSE, <<2>>)] : b \in Boots}
    \cup {[boot |-> GoodBoot, vol |-> Vol(f, <<>>, FALSE, <<2>>)] : f \in Fats}
    \cup {[boot |-> GoodBoot, vol |-> Vol(IF tw THEN Twisted ELSE Linear, es, lb,
                                          IF tw THEN <<2, 4, 3, 5>> ELSE <<2, 3, 4, 5>>)] :
            es \in EntrySets, lb \in BOOLEAN, tw \in BOOLEAN}
Req(c, n, b, nochain) == [first |-> c, len |-> n, buf |-> b, no_fat_chain |-> nochain]
TheWalks == {Req(2, 0, 0, FALSE), Req(3, 6, 0, TRUE), Req(2, 16, 0, TRUE)}
TheReads == {Req(0, 0, 8, FALSE), Req(3, 9, 6, FALSE), Req(2, 11, 16, FALSE), Req(3, 5, 8, TRUE),
             Req(3, 33, 6, FALSE)}

-----------------------------------------------------------------------------
sessionVars == <<vars, editVars, filesVars, exfatVars, sockVars, part>>

Parts == {"rx", "edit", "files", "exfat", "sockets"}

\* a part that is not the subject has one initial state
SessionInit ==
    /\ part \in Parts
    /\ Init /\ (part = "rx" \/ board = CHOOSE b \in Boards : TRUE)
    /\ EditorInit
    /\ IF part = "files" THEN FilesInit
       ELSE /\ ram = [nodes |-> <<[fs_init.nodes[Root] EXCEPT !.kids = <<>>]>>, count |-> 1]
            /\ mounts = [i \in 1..MountSlots |-> NoMount]
            /\ cwd = <<>> /\ said = "ok" /\ written = <<>> /\ entered = "ram"
    /\ IF part = "exfat" THEN ExFatInit
       ELSE /\ xboot = GoodBoot /\ xvol = Vol(Linear, <<>>, FALSE, <<2>>) /\ xop = "unmounted"
            /\ xreq = NoRequest /\ xcluster = EndOfChain /\ xout = <<>>
    /\ SockInit /\ (part = "sockets" \/ (stack_up /\ \A t \in Tasks : prio[t] = 1))

\* the kernel has panicked, the volume was refused, or the bound on calls is
\* reached
Halted ==
    /\ \/ part = "edit" /\ panicked
       \/ part = "exfat" /\ xop = "refused"
       \/ part = "sockets" /\ (broken \/ budget = 0)
    /\ UNCHANGED sessionVars

SessionNext ==
    \/ part = "rx" /\ Next /\ UNCHANGED <<editVars, filesVars, exfatVars, sockVars, part>>
    \/ part = "edit" /\ shell_main /\ UNCHANGED <<vars, filesVars, exfatVars, sockVars, part>>
    \/ part = "files" /\ execute_command /\ UNCHANGED <<vars, editVars, exfatVars, sockVars, part>>
    \/ part = "exfat" /\ ExFatNext /\ UNCHANGED <<vars, editVars, filesVars, sockVars, part>>
    \/ part = "sockets" /\ SockNext /\ UNCHANGED <<vars, editVars, filesVars, exfatVars, part>>
    \/ Halted

SessionSpec ==
    /\ SessionInit /\ [][SessionNext]_sessionVars
    /\ WF_sessionVars(/\ part = "exfat" /\ (list_entry_dir \/ read_file_loop)
                      /\ UNCHANGED <<vars, editVars, filesVars, sockVars, part>>)
    /\ \A t \in Tasks : WF_sessionVars(/\ part = "sockets" /\ TopStep(t)
                                       /\ UNCHANGED <<vars, editVars, filesVars, exfatVars, part>>)

=============================================================================
