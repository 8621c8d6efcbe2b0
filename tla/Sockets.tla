------------------------------- MODULE Sockets -------------------------------
(* The socket interface over smoltcp (kernel/src/net/smoltcp/socket.rs) and  *)
(* poll (mod.rs), called by several tasks.  NETWORK_SOCKETS, NETWORK_IFACE   *)
(* and RX_TX_DEVICE are spin locks that leave interrupts on, so a call can   *)
(* be preempted between any two of its steps; HANDLE_POOL and UDP_IN_USE are *)
(* atomic.  The kernel itself makes no call yet: the callers are tasks that  *)
(* use the interface in any order and share descriptors.  They have any      *)
(* levels, and one CPU runs them by strict priority without inheritance: a   *)
(* call never blocks, so while it lasts no task of a lower level runs, and a *)
(* task that finds a lock taken spins.                                       *)
(*                                                                           *)
(* The smoltcp socket set (external) is a table of places; a handle is a     *)
(* place and is reused.  Using a handle whose place is empty panics.         *)
EXTENDS Integers, FiniteSets, FiniteSetsExt

CONSTANTS
    Tasks,
    FdCap,     \* entries of HANDLE_POOL (4)
    Places,    \* places of SOCKETS_STORAGE: 1..8, the first has the DHCP socket
    RxCap,     \* packets a receive buffer holds
    Prios,     \* levels of the calling tasks
    Budget     \* bound: calls that are made

NoTask == "none"

ASSUME SocketsAssumption ==
    /\ FdCap \in Nat \ {0} /\ Places \in Nat /\ Places > 1
    /\ RxCap \in Nat /\ Budget \in Nat /\ NoTask \notin Tasks /\ Prios \subseteq Nat

NoSocket == [gen |-> 0, bound |-> FALSE, rx |-> 0]

VARIABLES
    stack_up,    \* NETWORK_SOCKETS is Some: the platform has a network device
    in_use,      \* UDP_IN_USE
    sset,        \* the socket set
    pool,        \* HANDLE_POOL: the place, or 0
    locks,       \* holder of NETWORK_IFACE, RX_TX_DEVICE, NETWORK_SOCKETS
    scall,       \* the call of each task and how far it is
    stale,       \* history: tasks whose descriptor was closed during their call
    budget, broken,
    prio         \* the level of each task, which no call changes

sockVars == <<stack_up, in_use, sset, pool, locks, scall, stale, budget, broken, prio>>

NoCall == [op |-> "none", at |-> "idle", fd |-> 0, handle |-> 0, gen |-> 0]

SockInit ==
    /\ stack_up \in BOOLEAN
    /\ in_use = FALSE
    /\ sset = [p \in 2..Places |-> NoSocket]
    /\ pool = [f \in 0..(FdCap - 1) |-> 0]
    /\ locks = [l \in {"iface", "dev", "sockets"} |-> NoTask]
    /\ scall = [t \in Tasks |-> NoCall]
    /\ stale = {}
    /\ budget = Budget
    /\ broken = FALSE
    /\ prio \in [Tasks -> Prios]

At(t, s) == scall[t].at = s

Goto(t, s) == scall' = [scall EXCEPT ![t].at = s]

Return(t) == scall' = [scall EXCEPT ![t] = NoCall] /\ stale' = stale \ {t}

Acquire(t, l) == locks[l] = NoTask /\ locks' = [locks EXCEPT ![l] = t]

Release(l) == locks' = [locks EXCEPT ![l] = NoTask]

-----------------------------------------------------------------------------
(* socket().                                                                 *)

\* the static buffers are claimed first; a second caller gets ENOBUFS
ClaimAlways(t) ==
    /\ At(t, "idle") /\ budget > 0
    /\ in_use' = TRUE /\ budget' = budget - 1
    /\ scall' = [scall EXCEPT ![t].op = "socket", ![t].at = "claimed"]
    /\ UNCHANGED <<stack_up, sset, pool, locks, stale, broken>>

Claim(t) ==
    /\ At(t, "idle") /\ budget > 0
    /\ in_use' = TRUE /\ budget' = budget - 1
    /\ scall' = IF in_use THEN scall ELSE [scall EXCEPT ![t].op = "socket", ![t].at = "claimed"]
    /\ UNCHANGED <<stack_up, sset, pool, locks, stale, broken>>

\* without a stack the call fails with the buffers still claimed
Add(t) ==
    /\ At(t, "claimed") /\ locks["sockets"] = NoTask
    /\ IF stack_up
       THEN /\ locks' = [locks EXCEPT !["sockets"] = t]
            /\ LET p == Min({q \in 2..Places : sset[q].gen = 0}) IN
               /\ sset' = [sset EXCEPT ![p] = [NoSocket EXCEPT !.gen = budget + 1]]
               /\ scall' = [scall EXCEPT ![t].at = "added", ![t].handle = p]
            /\ UNCHANGED stale
       ELSE Return(t) /\ UNCHANGED <<sset, locks>>
    /\ UNCHANGED <<stack_up, in_use, pool, budget, broken>>

\* with no free descriptor the socket is removed again
allocate_fd(t) ==
    LET free == {f \in DOMAIN pool : pool[f] = 0} IN
    /\ At(t, "added")
    /\ IF free # {}
       THEN pool' = [pool EXCEPT ![Min(free)] = scall[t].handle] /\ UNCHANGED <<sset, in_use>>
       ELSE sset' = [sset EXCEPT ![scall[t].handle] = NoSocket] /\ in_use' = FALSE /\ UNCHANGED pool
    /\ Release("sockets") /\ Return(t)
    /\ UNCHANGED <<stack_up, budget, broken>>

-----------------------------------------------------------------------------
(* Calls on a descriptor: the handle is looked up before the lock is taken.  *)

Ops == {"bind", "recv", "send_to", "recv_from", "close"}

Closing(f) == \E t \in Tasks : At(t, "removed") /\ scall[t].fd = f

\* connect, listen, accept and send return without looking at the descriptor
get_handle(t) ==
    /\ At(t, "idle") /\ budget > 0
    /\ \E o \in Ops, f \in DOMAIN pool :
        /\ pool[f] # 0
        /\ scall' = [scall EXCEPT ![t] = [op |-> o, at |-> "found", fd |-> f, handle |-> pool[f],
                                          gen |-> sset[pool[f]].gen]]
        /\ stale' = IF Closing(f) THEN stale \cup {t} ELSE stale
    /\ budget' = budget - 1
    /\ UNCHANGED <<stack_up, in_use, sset, pool, locks, broken>>

LockWithout(t) ==
    /\ At(t, "found") /\ locks["sockets"] = NoTask /\ Goto(t, "locked")
    /\ UNCHANGED <<stack_up, in_use, sset, pool, locks, stale, budget, broken>>

Lock(t) ==
    /\ At(t, "found") /\ Acquire(t, "sockets") /\ Goto(t, "locked")
    /\ UNCHANGED <<stack_up, in_use, sset, pool, stale, budget, broken>>

bind(s) == [s EXCEPT !.bound = TRUE]

recv(s) == IF s.rx > 0 THEN [s EXCEPT !.rx = @ - 1] ELSE s

\* the packet goes to the transmit buffer, whose contents nothing here depends on
send_to(s) == s

recv_from(s) == recv(s)

Panic(t) ==
    /\ broken' = TRUE
    /\ UNCHANGED <<stack_up, in_use, sset, pool, locks, scall, stale, budget>>

Present(t) == sset[scall[t].handle].gen # 0

Use(t) ==
    /\ At(t, "locked") /\ scall[t].op # "close"
    /\ IF ~Present(t) THEN Panic(t)
       ELSE LET o == scall[t].op IN
            /\ sset' = [sset EXCEPT ![scall[t].handle] =
                          IF o = "bind" THEN bind(@) ELSE IF o = "recv" THEN recv(@)
                          ELSE IF o = "recv_from" THEN recv_from(@) ELSE send_to(@)]
            /\ Release("sockets") /\ Return(t)
            /\ UNCHANGED <<stack_up, in_use, pool, budget, broken>>

\* every call on the descriptor that is under way now has a stale handle
RemoveSocket(t) ==
    /\ At(t, "locked") /\ scall[t].op = "close"
    /\ IF ~Present(t) THEN Panic(t)
       ELSE /\ sset' = [sset EXCEPT ![scall[t].handle] = NoSocket]
            /\ Goto(t, "removed")
            /\ stale' = stale \cup {u \in Tasks \ {t} : scall[u].at = "found" /\ scall[u].fd = scall[t].fd}
            /\ UNCHANGED <<stack_up, in_use, pool, locks, budget, broken>>

free_fd(t) ==
    /\ At(t, "removed") /\ Goto(t, "freed")
    /\ pool' = [pool EXCEPT ![scall[t].fd] = 0]
    /\ UNCHANGED <<stack_up, in_use, sset, locks, stale, budget, broken>>

CloseEnd(t) ==
    /\ At(t, "freed") /\ in_use' = FALSE /\ Release("sockets") /\ Return(t)
    /\ UNCHANGED <<stack_up, sset, pool, budget, broken>>

-----------------------------------------------------------------------------
(* poll(): the three locks in order, then the stack takes what the device    *)
(* has received and hands a packet to the socket that is bound.              *)

PollCall(t) ==
    /\ At(t, "idle") /\ budget > 0
    /\ scall' = [scall EXCEPT ![t].op = "poll", ![t].at = "poll"] /\ budget' = budget - 1
    /\ UNCHANGED <<stack_up, in_use, sset, pool, locks, stale, broken>>

PollIface(t) ==
    /\ At(t, "poll") /\ Acquire(t, "iface") /\ Goto(t, "iface")
    /\ UNCHANGED <<stack_up, in_use, sset, pool, stale, budget, broken>>

PollDev(t) ==
    /\ At(t, "iface") /\ Acquire(t, "dev") /\ Goto(t, "dev")
    /\ UNCHANGED <<stack_up, in_use, sset, pool, stale, budget, broken>>

PollSockets(t) ==
    /\ At(t, "dev") /\ Acquire(t, "sockets") /\ Goto(t, "polling")
    /\ UNCHANGED <<stack_up, in_use, sset, pool, stale, budget, broken>>

\* what SmoltcpDevice::receive and its tokens let the stack deliver
Delivered(s) == IF s.bound /\ s.rx < RxCap THEN {s, [s EXCEPT !.rx = @ + 1]} ELSE {s}

pollKeepsDevice(t) ==
    /\ At(t, "polling") /\ UNCHANGED sset
    /\ locks' = [locks EXCEPT !["iface"] = NoTask, !["sockets"] = NoTask] /\ Return(t)
    /\ UNCHANGED <<stack_up, in_use, pool, budget, broken>>

poll(t) ==
    /\ At(t, "polling")
    /\ IF stack_up THEN \E p \in 2..Places : \E s \in Delivered(sset[p]) : sset' = [sset EXCEPT ![p] = s]
       ELSE UNCHANGED sset
    /\ locks' = [l \in DOMAIN locks |-> NoTask] /\ Return(t)
    /\ UNCHANGED <<stack_up, in_use, pool, budget, broken>>

SockStep(t) ==
    /\ ~broken
    /\ \/ Add(t) \/ allocate_fd(t) \/ Lock(t) \/ Use(t) \/ RemoveSocket(t) \/ free_fd(t) \/ CloseEnd(t)
       \/ PollIface(t) \/ PollDev(t) \/ PollSockets(t) \/ poll(t)

SockStart(t) == ~broken /\ (Claim(t) \/ get_handle(t) \/ PollCall(t))

\* the lock the next step of a call takes
Wanted(t) ==
    CASE scall[t].at \in {"claimed", "found", "dev"} -> {"sockets"}
      [] scall[t].at = "poll" -> {"iface"}
      [] scall[t].at = "iface" -> {"dev"}
      [] OTHER -> {}

WaitsFor(t, u) == \E l \in Wanted(t) : locks[l] = u

Spin(t) == ~broken /\ (\E u \in Tasks : WaitsFor(t, u)) /\ UNCHANGED sockVars

\* no task of a higher level is inside a call
MayRun(t) == \A u \in Tasks : prio[u] > prio[t] => At(u, "idle")

SockNext ==
    \/ \E t \in Tasks : MayRun(t) /\ (SockStep(t) \/ SockStart(t)) /\ UNCHANGED prio
    \/ \E t \in Tasks : MayRun(t) /\ Spin(t)

\* no caller has a higher level
OnTop(t) == \A u \in Tasks : prio[u] <= prio[t]

TopStep(t) == OnTop(t) /\ SockStep(t) /\ UNCHANGED prio

\* Callers of the highest level share the CPU, so each goes on with its call;
\* of the others, which what is above them may keep out, nothing is assumed.
SockSpec == SockInit /\ [][SockNext]_sockVars /\ \A t \in Tasks : WF_sockVars(TopStep(t))

-----------------------------------------------------------------------------
(* Properties.                                                               *)

Live == {p \in 2..Places : sset[p].gen # 0}

\* The static packet buffers back at most one socket, counting the one that
\* socket() has built and not yet added, and UDP_IN_USE tells whether they do,
\* whatever calls overlap and however descriptors are misused: it is set as long
\* as the socket exists, and with no socket, and none being opened or closed, it
\* is set only where socket() was refused for want of a network device.
BuffersOwnedOnce ==
    LET owners == Cardinality(Live) + Cardinality({t \in Tasks : At(t, "claimed")})
        quiet == \A t \in Tasks : scall[t].op \notin {"socket", "close"} IN
    /\ owners <= 1
    /\ owners = 1 => in_use
    /\ in_use /\ quiet /\ stack_up => owners = 1

\* A call works on the socket it looked up, and does not panic, unless its
\* descriptor was closed by another task in the meantime.
HandleStillMine ==
    /\ \A t \in Tasks : scall[t].at \in {"found", "locked"} /\ t \notin stale =>
          sset[scall[t].handle].gen = scall[t].gen
    /\ broken => stale # {}

\* A task spins on a lock that a preempted task of a lower level holds.
Inverted == \E t, u \in Tasks : WaitsFor(t, u) /\ prio[u] < prio[t]

\* the number of calls that have returned; it changes by one at a time
Ended == Budget - budget - Cardinality({t \in Tasks : ~At(t, "idle")})

\* Priority inversion is the only deadlock: while a caller of the highest level is
\* inside a call, some call ends, unless one panics or a task spins on a lock
\* whose holder it keeps from running.  No lock is left held and the calls of one
\* level do not wait for each other in a circle.  (That each of them ends cannot
\* be said: the spin locks are not fair.)
SocketCallsEnd ==
    \A parity \in {0, 1} :
      (Ended % 2 = parity /\ \E t \in Tasks : OnTop(t) /\ ~At(t, "idle"))
        ~> (Ended % 2 # parity \/ broken \/ Inverted)

=============================================================================
