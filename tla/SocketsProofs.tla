---------------------------- MODULE SocketsProofs ----------------------------
(* The static packet buffers back one socket, for any number of tasks,       *)
(* descriptors and places.                                                   *)
EXTENDS Sockets, TLAPS, FiniteSetTheorems

Fds == 0..(FdCap - 1)
Quiet == {"idle", "found", "locked", "poll", "iface", "dev", "polling"}
Closes == {"removed", "freed"}
Steps == Quiet \cup Closes \cup {"claimed", "added"}
Holding == {"added", "locked", "removed", "freed", "polling"}
Call == [op : {"none", "socket", "bind", "recv", "send_to", "recv_from", "close", "poll"},
         at : Steps, fd : Fds, handle : {0} \cup 2..Places, gen : Nat]
Socket == [gen : Nat, bound : BOOLEAN, rx : Nat]

Types ==
    /\ stack_up \in BOOLEAN /\ in_use \in BOOLEAN /\ budget \in Nat
    /\ sset \in [2..Places -> Socket]
    /\ pool \in [Fds -> {0} \cup 2..Places]
    /\ locks \in [{"iface", "dev", "sockets"} -> Tasks \cup {NoTask}]
    /\ scall \in [Tasks -> Call]

\* NETWORK_SOCKETS is held through the steps that work on the set.
Locked == \A t \in Tasks : scall[t].at \in Holding => locks["sockets"] = t

Empty == \A f \in Fds : pool[f] = 0

\* One socket at a time: being built, in the set, or being closed.
OneSocket ==
    /\ \A t \in Tasks : scall[t].at = "claimed" =>
          /\ in_use = TRUE /\ Live = {} /\ Empty
          /\ \A u \in Tasks : scall[u].at = "claimed" => u = t
    /\ \A t \in Tasks : scall[t].at = "added" => scall[t].handle \in Live /\ Empty
    /\ \A t \in Tasks : scall[t].at \in Closes =>
          in_use = TRUE /\ Live = {} /\ \A u \in Tasks : scall[u].at # "claimed"
    /\ \A t \in Tasks : scall[t].at = "freed" => Empty
    /\ \A p \in Live : in_use = TRUE /\ \A q \in Live : q = p

\* UDP_IN_USE is not left behind where there is a stack.
Accounted ==
    /\ in_use = TRUE /\ stack_up = TRUE /\ Live = {} =>
          \E t \in Tasks : scall[t].at \in {"claimed", "removed", "freed"}
    /\ \A t \in Tasks : scall[t].at \in {"claimed", "added"} => scall[t].op = "socket"
    /\ \A t \in Tasks : scall[t].at \in Closes => scall[t].op = "close"

\* With one socket the lowest free descriptor is always the first.
FirstDescriptor ==
    /\ \A f \in Fds : pool[f] # 0 => f = 0
    /\ \A f \in Fds : pool[f] # 0 =>
          pool[f] \in Live \/ \E t \in Tasks : scall[t].at = "removed"
    /\ \A t \in Tasks : scall[t].at \in {"found", "locked", "removed"} => scall[t].fd = 0
    /\ \A t \in Tasks : scall[t].at \in {"found", "locked"} => scall[t].handle \in 2..Places

\* The inductive invariant.
SockInv == Types /\ Locked /\ OneSocket /\ Accounted /\ FirstDescriptor

-----------------------------------------------------------------------------
(* Facts on single steps.                                                    *)

\* A task that has made no call is idle.
LEMMA FdZero == 0 \in Fds /\ NoCall \in Call /\ NoCall.at = "idle"
<1>1. 0 \in Fds
  BY SocketsAssumption DEF Fds
<1> QED
  BY <1>1 DEF NoCall, Call, Steps, Quiet

\* what a step of t that sets its call to r does to the calls
LEMMA CallStep ==
    ASSUME Types, NEW t \in Tasks, NEW r \in Call, scall' = [scall EXCEPT ![t] = r]
    PROVE  /\ scall' \in [Tasks -> Call] /\ scall'[t] = r
           /\ \A u \in Tasks : u # t => scall'[u] = scall[u]
BY DEF Types

\* what Goto does to the call of t
LEMMA GotoStep ==
    ASSUME Types, NEW t \in Tasks, NEW s \in Steps, Goto(t, s)
    PROVE  /\ scall' \in [Tasks -> Call]
           /\ scall'[t].at = s /\ scall'[t].op = scall[t].op
           /\ scall'[t].fd = scall[t].fd /\ scall'[t].handle = scall[t].handle
           /\ \A u \in Tasks : u # t => scall'[u] = scall[u]
<1> DEFINE r == [scall[t] EXCEPT !.at = s]
<1>1. scall[t] \in Call
  BY DEF Types
<1>2. /\ r \in Call /\ r.at = s /\ r.op = scall[t].op /\ r.fd = scall[t].fd
      /\ r.handle = scall[t].handle
  BY <1>1 DEF Call
<1>3. scall' = [scall EXCEPT ![t] = r]
  BY DEF Goto
<1> HIDE DEF r
<1> QED
  BY <1>2, <1>3, CallStep

\* what Return does to the call of t
LEMMA ReturnStep ==
    ASSUME Types, NEW t \in Tasks, Return(t)
    PROVE  /\ scall' \in [Tasks -> Call] /\ scall'[t].at = "idle"
           /\ \A u \in Tasks : u # t => scall'[u] = scall[u]
BY FdZero, CallStep DEF Return

\* A step of t keeps the lock with the one task that works on the set.
LEMMA LockStep ==
    ASSUME Types, Locked, NEW t \in Tasks,
           \A u \in Tasks : u # t => scall'[u] = scall[u],
           \/ /\ locks'["sockets"] = locks["sockets"]
              /\ scall'[t].at \in Holding => scall[t].at \in Holding
           \/ locks["sockets"] = NoTask /\ locks'["sockets"] = t
           \/ scall[t].at \in Holding /\ scall'[t].at \notin Holding
    PROVE  Locked'
<1> SUFFICES ASSUME NEW u \in Tasks, scall'[u].at \in Holding
             PROVE  locks'["sockets"] = u
  BY DEF Locked
<1>1. CASE u = t
  BY <1>1 DEF Locked
<1>2. CASE u # t
  <2>1. locks["sockets"] = u
    BY <1>2 DEF Locked
  <2> QED
    BY <1>2, <2>1, SocketsAssumption DEF Locked
<1> QED
  BY <1>1, <1>2

\* Before any call there is no socket and nothing is claimed.
LEMMA SockInitInv == SockInit => SockInv
<1> SUFFICES ASSUME SockInit PROVE SockInv
  OBVIOUS
<1>1. Types
  BY FdZero, SocketsAssumption DEF SockInit, Types, NoSocket, Fds, Socket
<1>2. \A t \in Tasks : scall[t].at = "idle"
  BY FdZero DEF SockInit
<1>3. Live = {} /\ in_use = FALSE
  BY DEF Live, SockInit, NoSocket
<1>4. Empty
  BY DEF Empty, SockInit, Fds
<1> QED
  BY <1>1, <1>2, <1>3, <1>4
  DEF SockInv, Locked, OneSocket, Accounted, FirstDescriptor, Holding, Closes, Empty

\* A step of t that leaves the tables alone and neither opens nor closes.
LEMMA QuietStep ==
    ASSUME SockInv, NEW t \in Tasks, Types', Locked',
           \A u \in Tasks : u # t => scall'[u] = scall[u],
           scall[t].at \in Quiet, scall'[t].at \in Quiet,
           Live' = Live, pool' = pool, in_use' = in_use, stack_up' = stack_up,
           scall'[t].at \in {"found", "locked"} =>
               scall'[t].fd = 0 /\ scall'[t].handle \in 2..Places
    PROVE  SockInv'
<1>1. Empty' = Empty
  BY DEF Empty
<1>2. \A u \in Tasks : scall'[u].at \notin Quiet => scall'[u] = scall[u]
  OBVIOUS
<1>3. \A u \in Tasks : scall[u].at \notin Quiet => scall'[u] = scall[u]
  OBVIOUS
<1>4. OneSocket'
  BY <1>1, <1>2 DEF SockInv, OneSocket, Quiet, Closes
<1>5. Accounted'
  BY <1>2, <1>3 DEF SockInv, Accounted, Quiet, Closes
<1>6. FirstDescriptor'
  BY <1>2, <1>3 DEF SockInv, FirstDescriptor, Quiet
<1> QED
  BY <1>4, <1>5, <1>6 DEF SockInv

\* The buffers are free only when there is no socket at all.
LEMMA FreeMeansNone ==
    ASSUME SockInv, in_use = FALSE
    PROVE  Live = {} /\ Empty /\ \A u \in Tasks : scall[u].at \notin {"claimed", "added"} \cup Closes
<1>1. Live = {}
  BY DEF SockInv, OneSocket
<1>2. \A u \in Tasks : scall[u].at \notin {"claimed", "added"} \cup Closes
  BY <1>1 DEF SockInv, OneSocket
<1>3. Empty
  BY <1>1, <1>2 DEF SockInv, FirstDescriptor, Empty, Closes
<1> QED
  BY <1>1, <1>2, <1>3

-----------------------------------------------------------------------------
(* socket().                                                                 *)

\* The swap of UDP_IN_USE lets one caller through, and only when no socket is left.
LEMMA ClaimKeeps ==
    ASSUME SockInv, NEW t \in Tasks, Claim(t) PROVE SockInv'
<1>1. /\ scall[t].at = "idle" /\ budget' = budget - 1 /\ budget > 0
      /\ stack_up' = stack_up /\ sset' = sset /\ pool' = pool /\ locks' = locks
  BY DEF Claim, At
<1>2. Live' = Live /\ in_use' = TRUE
  BY <1>1 DEF Live, Claim
<1>3. CASE in_use = TRUE
  <2>1. scall' = scall
    BY <1>3 DEF Claim
  <2>2. Types' /\ Locked'
    BY <1>1, <1>2, <2>1 DEF SockInv, Types, Locked
  <2> QED
    BY <1>1, <1>2, <1>3, <2>1, <2>2, QuietStep DEF Quiet
<1>4. CASE in_use = FALSE
  <2> DEFINE r == [[scall[t] EXCEPT !.op = "socket"] EXCEPT !.at = "claimed"]
  <2>1. scall[t] \in Call
    BY DEF SockInv, Types
  <2>2. r \in Call /\ r.op = "socket" /\ r.at = "claimed"
    BY <2>1 DEF Call, Steps
  <2>3. scall' = [scall EXCEPT ![t] = r]
    BY <1>4 DEF Claim, SockInv, Types
  <2> HIDE DEF r
  <2>4. /\ scall' \in [Tasks -> Call] /\ scall'[t] = r
        /\ \A u \in Tasks : u # t => scall'[u] = scall[u]
    BY <2>2, <2>3, CallStep DEF SockInv
  <2>5. Types'
    BY <1>1, <1>2, <2>4 DEF SockInv, Types
  <2>6. Locked'
    BY <1>1, <2>2, <2>4, LockStep DEF SockInv, Holding
  <2>7. /\ Live = {} /\ Empty
        /\ \A u \in Tasks : scall[u].at \notin {"claimed", "added"} \cup Closes
    BY <1>4, FreeMeansNone
  <2>8. Empty'
    BY <1>1, <2>7 DEF Empty
  <2>9. OneSocket'
    BY <1>2, <2>2, <2>4, <2>7, <2>8 DEF OneSocket, Closes
  <2>10. Accounted'
    BY <1>2, <2>2, <2>4, <2>7 DEF Accounted, Closes
  <2>11. FirstDescriptor'
    BY <2>2, <2>4, <2>8 DEF SockInv, FirstDescriptor, Empty
  <2> QED
    BY <2>5, <2>6, <2>9, <2>10, <2>11 DEF SockInv
<1> QED
  BY <1>3, <1>4 DEF SockInv, Types

\* What iterating from the first entry finds.
LEMMA MinIs ==
    ASSUME NEW S \in SUBSET Nat, NEW m \in S, \A x \in S : m <= x
    PROVE  Min(S) = m
<1> DEFINE c == CHOOSE x \in S : \A y \in S : x <= y
<1>1. c \in S /\ \A y \in S : c <= y
  OBVIOUS
<1>2. Min(S) = c
  BY DEF Min
<1> HIDE DEF c
<1>3. c <= m /\ m <= c /\ c \in Nat /\ m \in Nat
  BY <1>1
<1>4. c = m
  BY ONLY <1>3
<1> QED
  BY <1>2, <1>4

\* The set is empty, so the socket goes to its first free place; without a stack
\* the buffers stay claimed and nobody owns them.
LEMMA AddKeeps ==
    ASSUME SockInv, NEW t \in Tasks, Add(t) PROVE SockInv'
<1>1. /\ scall[t].at = "claimed" /\ scall[t].op = "socket" /\ locks["sockets"] = NoTask
      /\ stack_up' = stack_up /\ in_use' = in_use /\ pool' = pool /\ budget' = budget
  BY DEF Add, At, SockInv, Accounted
<1>2. /\ in_use = TRUE /\ Live = {} /\ Empty
      /\ \A u \in Tasks : scall[u].at = "claimed" => u = t
  BY <1>1 DEF SockInv, OneSocket
<1>3. \A u \in Tasks : scall[u].at \notin Holding
  BY <1>1, SocketsAssumption DEF SockInv, Locked
<1>4. Empty'
  BY <1>1, <1>2 DEF Empty
<1>5. CASE stack_up = TRUE
  <2>1. 2 \in 2..Places
    BY SocketsAssumption
  <2>2. {q \in 2..Places : sset[q].gen = 0} = 2..Places
    BY <1>2 DEF Live
  <2>3. Min({q \in 2..Places : sset[q].gen = 0}) = 2
    BY <2>1, <2>2, MinIs
  <2> DEFINE n == [NoSocket EXCEPT !.gen = budget + 1]
             r == [scall[t] EXCEPT !.at = "added", !.handle = 2]
  <2>4. n \in Socket /\ n.gen # 0
    <3>1. budget + 1 \in Nat /\ budget + 1 # 0
      BY DEF SockInv, Types
    <3>2. NoSocket \in Socket
      BY DEF NoSocket, Socket
    <3> QED
      BY <3>1, <3>2 DEF Socket
  <2>5. scall[t] \in Call
    BY DEF SockInv, Types
  <2>6. r \in Call /\ r.at = "added" /\ r.op = "socket" /\ r.handle = 2
    BY <1>1, <2>1, <2>5 DEF Call, Steps
  <2>7. /\ locks' = [locks EXCEPT !["sockets"] = t]
        /\ sset' = [sset EXCEPT ![2] = n] /\ scall' = [scall EXCEPT ![t] = r]
    BY <1>5, <2>3 DEF Add
  <2> HIDE DEF n, r
  <2>8. /\ scall' \in [Tasks -> Call] /\ scall'[t] = r
        /\ \A u \in Tasks : u # t => scall'[u] = scall[u]
    BY <2>6, <2>7, CallStep DEF SockInv
  <2>9. sset' \in [2..Places -> Socket] /\ sset'[2] = n
        /\ \A q \in 2..Places : q # 2 => sset'[q] = sset[q]
    BY <2>1, <2>4, <2>7 DEF SockInv, Types
  <2>10. Live' = {2}
    BY <1>2, <2>1, <2>4, <2>9 DEF Live
  <2>11. /\ locks' \in [{"iface", "dev", "sockets"} -> Tasks \cup {NoTask}]
         /\ locks'["sockets"] = t
    BY <2>7 DEF SockInv, Types
  <2>12. Types'
    BY <1>1, <2>8, <2>9, <2>11 DEF SockInv, Types
  <2>13. Locked'
    BY <1>1, <2>8, <2>11, LockStep DEF SockInv
  <2>14. \A u \in Tasks : scall'[u].at \notin {"claimed"} \cup Closes
                           /\ (scall'[u].at = "added" => scall'[u].handle = 2)
                           /\ (scall'[u].at = "added" => scall'[u].op = "socket")
    BY <1>2, <1>3, <2>6, <2>8 DEF Holding, Closes
  <2>15. OneSocket'
    BY <1>1, <1>2, <1>4, <2>10, <2>14 DEF OneSocket, Closes
  <2>16. Accounted'
    BY <2>10, <2>14 DEF Accounted
  <2>17. FirstDescriptor'
    BY <1>4, <2>6, <2>8 DEF SockInv, FirstDescriptor, Empty
  <2> QED
    BY <2>12, <2>13, <2>15, <2>16, <2>17 DEF SockInv
<1>6. CASE stack_up = FALSE
  <2>1. Return(t) /\ sset' = sset /\ locks' = locks
    BY <1>6 DEF Add
  <2>2. /\ scall' \in [Tasks -> Call] /\ scall'[t].at = "idle"
        /\ \A u \in Tasks : u # t => scall'[u] = scall[u]
    BY <2>1, ReturnStep DEF SockInv
  <2>3. Types'
    BY <1>1, <2>1, <2>2 DEF SockInv, Types
  <2>4. Locked'
    BY <2>1, <2>2, LockStep DEF SockInv, Holding
  <2>5. Live' = {}
    BY <1>2, <2>1 DEF Live
  <2>6. \A u \in Tasks : scall'[u].at \notin {"claimed"} \cup Holding
    BY <1>2, <1>3, <2>2 DEF Holding
  <2>7. OneSocket' /\ Accounted'
    BY <1>1, <1>6, <2>5, <2>6 DEF OneSocket, Accounted, Holding, Closes
  <2>8. FirstDescriptor'
    BY <1>4, <2>2 DEF SockInv, FirstDescriptor, Empty
  <2> QED
    BY <2>3, <2>4, <2>7, <2>8 DEF SockInv
<1> QED
  BY <1>5, <1>6 DEF SockInv, Types

\* A descriptor is always free, and it is the first one.
LEMMA AllocateKeeps ==
    ASSUME SockInv, NEW t \in Tasks, allocate_fd(t) PROVE SockInv'
<1> DEFINE free == {f \in DOMAIN pool : pool[f] = 0}
<1>1. /\ scall[t].at = "added" /\ scall[t].handle \in Live /\ Empty
      /\ stack_up' = stack_up /\ budget' = budget /\ Release("sockets") /\ Return(t)
  BY DEF allocate_fd, At, SockInv, OneSocket
<1>2. free = Fds
  BY <1>1 DEF SockInv, Types, Empty
<1>3. Min(free) = 0 /\ free # {}
  <2>1. Fds \in SUBSET Nat /\ 0 \in Fds /\ \A x \in Fds : 0 <= x
    BY FdZero DEF Fds
  <2> QED
    BY <1>2, <2>1, MinIs
<1>4. pool' = [pool EXCEPT ![0] = scall[t].handle] /\ sset' = sset /\ in_use' = in_use
  BY <1>3 DEF allocate_fd
<1>5. /\ scall' \in [Tasks -> Call] /\ scall'[t].at = "idle"
      /\ \A u \in Tasks : u # t => scall'[u] = scall[u]
  BY <1>1, ReturnStep DEF SockInv
<1>6. /\ pool' \in [Fds -> {0} \cup 2..Places] /\ pool'[0] = scall[t].handle
      /\ \A f \in Fds : f # 0 => pool'[f] = 0
  BY <1>1, <1>4, FdZero DEF SockInv, Types, Empty, Live
<1>7. Types'
  BY <1>1, <1>4, <1>5, <1>6 DEF SockInv, Types, Release
<1>8. Locked'
  BY <1>1, <1>5, LockStep DEF SockInv, Holding
<1>9. Live' = Live
  BY <1>4 DEF Live
<1>10. \A u \in Tasks : scall'[u].at \notin {"claimed"} \cup Holding
  <2>1. \A u \in Tasks : scall[u].at \in Holding => u = t
    BY <1>1 DEF SockInv, Locked, Holding
  <2>2. \A u \in Tasks : scall[u].at # "claimed"
    BY <1>1 DEF SockInv, OneSocket
  <2> QED
    BY <1>5, <2>1, <2>2 DEF Holding
<1>11. OneSocket'
  BY <1>4, <1>9, <1>10 DEF SockInv, OneSocket, Holding, Closes
<1>12. Accounted'
  BY <1>1, <1>9, <1>10 DEF Accounted, Holding, Closes
<1>13. FirstDescriptor'
  BY <1>1, <1>5, <1>6, <1>9, <1>10 DEF SockInv, FirstDescriptor, Holding
<1> QED
  BY <1>7, <1>8, <1>11, <1>12, <1>13 DEF SockInv

-----------------------------------------------------------------------------
(* close().                                                                  *)

\* close() removes the one socket there is.
LEMMA RemoveKeeps ==
    ASSUME SockInv, NEW t \in Tasks, RemoveSocket(t), Present(t) PROVE SockInv'
<1> DEFINE h == scall[t].handle
<1>1. /\ scall[t].at = "locked" /\ scall[t].op = "close"
      /\ sset' = [sset EXCEPT ![h] = NoSocket] /\ Goto(t, "removed")
      /\ stack_up' = stack_up /\ in_use' = in_use /\ pool' = pool
      /\ locks' = locks /\ budget' = budget
  BY DEF RemoveSocket, At
<1>2. h \in 2..Places /\ scall[t].fd = 0
  BY <1>1 DEF SockInv, FirstDescriptor
<1>3. h \in Live
  BY <1>2 DEF Live, Present
<1>4. in_use = TRUE /\ \A p \in Live : p = h
  BY <1>3 DEF SockInv, OneSocket
<1>5. /\ scall' \in [Tasks -> Call] /\ scall'[t].at = "removed"
      /\ scall'[t].op = "close" /\ scall'[t].fd = 0
      /\ \A u \in Tasks : u # t => scall'[u] = scall[u]
  BY <1>1, <1>2, GotoStep DEF SockInv, Steps, Closes
<1>6. NoSocket \in Socket /\ NoSocket.gen = 0
  BY DEF NoSocket, Socket
<1>7. /\ sset' \in [2..Places -> Socket] /\ sset'[h] = NoSocket
      /\ \A q \in 2..Places : q # h => sset'[q] = sset[q]
  BY <1>1, <1>2, <1>6 DEF SockInv, Types
<1>8. Live' = {}
  BY <1>4, <1>6, <1>7 DEF Live
<1>9. Types'
  BY <1>1, <1>5, <1>7 DEF SockInv, Types
<1>10. Locked'
  BY <1>1, <1>5, LockStep DEF SockInv, Holding
<1>11. \A u \in Tasks : u # t => scall'[u].at \notin {"claimed"} \cup Holding
  <2>1. \A u \in Tasks : scall[u].at \in Holding => u = t
    BY <1>1 DEF SockInv, Locked, Holding
  <2>2. \A u \in Tasks : scall[u].at # "claimed"
    BY <1>3 DEF SockInv, OneSocket
  <2> QED
    BY <1>5, <2>1, <2>2 DEF Holding
<1>12. OneSocket'
  BY <1>1, <1>4, <1>5, <1>8, <1>11 DEF OneSocket, Holding, Closes
<1>13. Accounted'
  BY <1>5, <1>11 DEF Accounted, Holding, Closes
<1>14. FirstDescriptor'
  BY <1>1, <1>5 DEF SockInv, FirstDescriptor
<1> QED
  BY <1>9, <1>10, <1>12, <1>13, <1>14 DEF SockInv

\* free_fd clears the one descriptor in use.
LEMMA FreeFdKeeps ==
    ASSUME SockInv, NEW t \in Tasks, free_fd(t) PROVE SockInv'
<1>1. /\ scall[t].at = "removed" /\ scall[t].fd = 0 /\ scall[t].op = "close"
      /\ pool' = [pool EXCEPT ![0] = 0] /\ Goto(t, "freed")
      /\ stack_up' = stack_up /\ in_use' = in_use /\ sset' = sset
      /\ locks' = locks /\ budget' = budget
  BY DEF free_fd, At, SockInv, FirstDescriptor, Accounted, Closes
<1>2. in_use = TRUE /\ Live = {} /\ \A u \in Tasks : scall[u].at # "claimed"
  BY <1>1 DEF SockInv, OneSocket, Closes
<1>3. /\ scall' \in [Tasks -> Call] /\ scall'[t].at = "freed" /\ scall'[t].op = "close"
      /\ \A u \in Tasks : u # t => scall'[u] = scall[u]
  BY <1>1, GotoStep DEF SockInv, Steps, Closes
<1>4. pool' \in [Fds -> {0} \cup 2..Places] /\ \A f \in Fds : pool'[f] = 0
  BY <1>1, FdZero DEF SockInv, Types, FirstDescriptor
<1>5. Live' = {} /\ Empty'
  BY <1>1, <1>2, <1>4 DEF Live, Empty
<1>6. Types'
  BY <1>1, <1>3, <1>4 DEF SockInv, Types
<1>7. Locked'
  BY <1>1, <1>3, LockStep DEF SockInv, Holding
<1>8. \A u \in Tasks : u # t => scall'[u].at \notin {"claimed"} \cup Holding
  BY <1>1, <1>2, <1>3 DEF SockInv, Locked, Holding
<1>9. OneSocket'
  BY <1>1, <1>2, <1>3, <1>5, <1>8 DEF OneSocket, Holding, Closes
<1>10. Accounted'
  BY <1>3, <1>8 DEF Accounted, Holding, Closes
<1>11. FirstDescriptor'
  BY <1>3, <1>4 DEF SockInv, FirstDescriptor
<1> QED
  BY <1>6, <1>7, <1>9, <1>10, <1>11 DEF SockInv

\* UDP_IN_USE is cleared last, with neither socket nor descriptor left.
LEMMA CloseEndKeeps ==
    ASSUME SockInv, NEW t \in Tasks, CloseEnd(t) PROVE SockInv'
<1>1. /\ scall[t].at = "freed" /\ in_use' = FALSE /\ Release("sockets") /\ Return(t)
      /\ stack_up' = stack_up /\ sset' = sset /\ pool' = pool /\ budget' = budget
  BY DEF CloseEnd, At
<1>2. Live = {} /\ Empty /\ \A u \in Tasks : scall[u].at # "claimed"
  BY <1>1 DEF SockInv, OneSocket, Closes
<1>3. /\ scall' \in [Tasks -> Call] /\ scall'[t].at = "idle"
      /\ \A u \in Tasks : u # t => scall'[u] = scall[u]
  BY <1>1, ReturnStep DEF SockInv
<1>4. Live' = {} /\ Empty'
  BY <1>1, <1>2 DEF Live, Empty
<1>5. Types'
  BY <1>1, <1>3 DEF SockInv, Types, Release
<1>6. Locked'
  BY <1>1, <1>3, LockStep DEF SockInv, Holding
<1>7. \A u \in Tasks : scall'[u].at \notin {"claimed"} \cup Holding
  BY <1>1, <1>2, <1>3 DEF SockInv, Locked, Holding
<1>8. OneSocket' /\ Accounted'
  BY <1>1, <1>4, <1>7 DEF OneSocket, Accounted, Holding, Closes
<1>9. FirstDescriptor'
  BY <1>3, <1>4 DEF SockInv, FirstDescriptor, Empty
<1> QED
  BY <1>5, <1>6, <1>8, <1>9 DEF SockInv

-----------------------------------------------------------------------------
(* The other steps.                                                          *)

\* A socket that is used stays where it is.
LEMMA SameSockets ==
    ASSUME Types, NEW p \in 2..Places, NEW s \in Socket, s.gen = sset[p].gen,
           sset' = [sset EXCEPT ![p] = s]
    PROVE  sset' \in [2..Places -> Socket] /\ Live' = Live
<1>1. /\ sset' \in [2..Places -> Socket] /\ sset'[p] = s
      /\ \A q \in 2..Places : q # p => sset'[q] = sset[q]
  BY DEF Types
<1>2. \A q \in 2..Places : sset'[q].gen = sset[q].gen
  BY <1>1
<1> QED
  BY <1>1, <1>2 DEF Live

\* bind, recv, send_to and a delivery leave the identity of a socket alone.
LEMMA SocketOps ==
    ASSUME NEW s \in Socket
    PROVE  /\ \A r \in {bind(s), recv(s), recv_from(s), send_to(s)} : r \in Socket /\ r.gen = s.gen
           /\ \A r \in Delivered(s) : r \in Socket /\ r.gen = s.gen
<1>1. bind(s) \in Socket /\ bind(s).gen = s.gen
  BY DEF Socket, bind
<1>2. recv(s) \in Socket /\ recv(s).gen = s.gen
  BY DEF Socket, recv
<1>3. \A r \in Delivered(s) : r \in Socket /\ r.gen = s.gen
  <2>1. s.rx + 1 \in Nat
    BY DEF Socket
  <2> DEFINE n == [s EXCEPT !.rx = @ + 1]
  <2>2. n \in Socket /\ n.gen = s.gen
    BY <2>1 DEF Socket
  <2>3. \A r \in Delivered(s) : r = s \/ r = n
    BY DEF Delivered
  <2> HIDE DEF n
  <2> QED
    BY <2>2, <2>3
<1> QED
  BY <1>1, <1>2, <1>3 DEF recv_from, send_to

\* get_handle finds the first descriptor or none.
LEMMA LookupKeeps ==
    ASSUME SockInv, NEW t \in Tasks, get_handle(t) PROVE SockInv'
<1>1. /\ scall[t].at = "idle" /\ budget > 0 /\ budget' = budget - 1
      /\ stack_up' = stack_up /\ in_use' = in_use /\ sset' = sset
      /\ pool' = pool /\ locks' = locks
  BY DEF get_handle, At
<1>2. PICK o \in Ops, f \in DOMAIN pool :
        /\ pool[f] # 0
        /\ scall' = [scall EXCEPT ![t] = [op |-> o, at |-> "found", fd |-> f, handle |-> pool[f],
                                          gen |-> sset[pool[f]].gen]]
  BY DEF get_handle
<1> DEFINE r == [op |-> o, at |-> "found", fd |-> f, handle |-> pool[f], gen |-> sset[pool[f]].gen]
<1>3. f \in Fds /\ f = 0 /\ pool[f] \in 2..Places
  BY <1>2 DEF SockInv, Types, FirstDescriptor
<1>4. sset[pool[f]].gen \in Nat
  BY <1>3 DEF SockInv, Types, Socket
<1>5. r \in Call /\ r.at = "found" /\ r.fd = 0 /\ r.handle \in 2..Places
  BY <1>3, <1>4 DEF Call, Steps, Quiet, Ops
<1>6. scall' = [scall EXCEPT ![t] = r]
  BY <1>2
<1> HIDE DEF r
<1>7. /\ scall' \in [Tasks -> Call] /\ scall'[t] = r
      /\ \A u \in Tasks : u # t => scall'[u] = scall[u]
  BY <1>5, <1>6, CallStep DEF SockInv
<1>8. Types'
  BY <1>1, <1>7 DEF SockInv, Types
<1>9. Locked'
  BY <1>1, <1>5, <1>7, LockStep DEF SockInv, Holding
<1>10. Live' = Live
  BY <1>1 DEF Live
<1> QED
  BY <1>1, <1>5, <1>7, <1>8, <1>9, <1>10, QuietStep DEF Quiet

\* Taking a lock on the way.
LEMMA AcquireKeeps ==
    ASSUME SockInv, NEW t \in Tasks, Lock(t) \/ PollDev(t) \/ PollSockets(t) PROVE SockInv'
<1>1. /\ stack_up' = stack_up /\ in_use' = in_use /\ sset' = sset /\ pool' = pool
      /\ budget' = budget
  BY DEF Lock, PollDev, PollSockets
<1>2. Live' = Live
  BY <1>1 DEF Live
<1>3. ASSUME NEW l \in {"iface", "dev", "sockets"}, Acquire(t, l)
      PROVE  /\ locks' \in [{"iface", "dev", "sockets"} -> Tasks \cup {NoTask}]
             /\ locks[l] = NoTask /\ locks'[l] = t
             /\ \A k \in {"iface", "dev", "sockets"} : k # l => locks'[k] = locks[k]
  BY <1>3 DEF Acquire, SockInv, Types
<1>4. CASE Lock(t)
  <2>1. scall[t].at = "found" /\ Acquire(t, "sockets") /\ Goto(t, "locked")
    BY <1>4 DEF Lock, At
  <2>2. /\ scall' \in [Tasks -> Call] /\ scall'[t].at = "locked"
        /\ scall'[t].fd = scall[t].fd /\ scall'[t].handle = scall[t].handle
        /\ \A u \in Tasks : u # t => scall'[u] = scall[u]
    BY <2>1, GotoStep DEF SockInv, Steps, Quiet
  <2>3. Types' /\ Locked'
    BY <1>1, <1>3, <2>1, <2>2, LockStep DEF SockInv, Types
  <2>4. scall[t].fd = 0 /\ scall[t].handle \in 2..Places
    BY <2>1 DEF SockInv, FirstDescriptor
  <2> QED
    BY <1>1, <1>2, <2>1, <2>2, <2>3, <2>4, QuietStep DEF Quiet
<1>5. CASE PollDev(t)
  <2>1. scall[t].at = "iface" /\ Acquire(t, "dev") /\ Goto(t, "dev")
    BY <1>5 DEF PollDev, At
  <2>2. /\ scall' \in [Tasks -> Call] /\ scall'[t].at = "dev"
        /\ \A u \in Tasks : u # t => scall'[u] = scall[u]
    BY <2>1, GotoStep DEF SockInv, Steps, Quiet
  <2>3. Types'
    BY <1>1, <1>3, <2>1, <2>2 DEF SockInv, Types
  <2>4. Locked'
    BY <1>3, <2>1, <2>2, LockStep DEF SockInv, Holding
  <2> QED
    BY <1>1, <1>2, <2>1, <2>2, <2>3, <2>4, QuietStep DEF Quiet
<1>6. CASE PollSockets(t)
  <2>1. scall[t].at = "dev" /\ Acquire(t, "sockets") /\ Goto(t, "polling")
    BY <1>6 DEF PollSockets, At
  <2>2. /\ scall' \in [Tasks -> Call] /\ scall'[t].at = "polling"
        /\ \A u \in Tasks : u # t => scall'[u] = scall[u]
    BY <2>1, GotoStep DEF SockInv, Steps, Quiet
  <2>3. Types' /\ Locked'
    BY <1>1, <1>3, <2>1, <2>2, LockStep DEF SockInv, Types
  <2> QED
    BY <1>1, <1>2, <2>1, <2>2, <2>3, QuietStep DEF Quiet
<1> QED
  BY <1>4, <1>5, <1>6

\* poll() is called; it holds nothing yet.
LEMMA PollCallKeeps ==
    ASSUME SockInv, NEW t \in Tasks, PollCall(t) PROVE SockInv'
<1>1. /\ scall[t].at = "idle" /\ budget > 0 /\ budget' = budget - 1 /\ locks' = locks
      /\ stack_up' = stack_up /\ in_use' = in_use /\ sset' = sset /\ pool' = pool
  BY DEF PollCall, At
<1> DEFINE r == [[scall[t] EXCEPT !.op = "poll"] EXCEPT !.at = "poll"]
<1>2. scall[t] \in Call
  BY DEF SockInv, Types
<1>3. r \in Call /\ r.at = "poll"
  BY <1>2 DEF Call, Steps, Quiet
<1>4. scall' = [scall EXCEPT ![t] = r]
  BY DEF PollCall, SockInv, Types
<1> HIDE DEF r
<1>5. /\ scall' \in [Tasks -> Call] /\ scall'[t] = r
      /\ \A u \in Tasks : u # t => scall'[u] = scall[u]
  BY <1>3, <1>4, CallStep DEF SockInv
<1>6. Types'
  BY <1>1, <1>5 DEF SockInv, Types
<1>7. Locked'
  BY <1>1, <1>3, <1>5, LockStep DEF SockInv, Holding
<1>8. Live' = Live
  BY <1>1 DEF Live
<1> QED
  BY <1>1, <1>3, <1>5, <1>6, <1>7, <1>8, QuietStep DEF Quiet

\* poll() takes its first lock.
LEMMA PollIfaceKeeps ==
    ASSUME SockInv, NEW t \in Tasks, PollIface(t) PROVE SockInv'
<1>1. /\ scall[t].at = "poll" /\ Acquire(t, "iface") /\ Goto(t, "iface") /\ budget' = budget
      /\ stack_up' = stack_up /\ in_use' = in_use /\ sset' = sset /\ pool' = pool
  BY DEF PollIface, At
<1>2. /\ scall' \in [Tasks -> Call] /\ scall'[t].at = "iface"
      /\ \A u \in Tasks : u # t => scall'[u] = scall[u]
  BY <1>1, GotoStep DEF SockInv, Steps, Quiet
<1>3. /\ locks' \in [{"iface", "dev", "sockets"} -> Tasks \cup {NoTask}]
      /\ locks'["sockets"] = locks["sockets"]
  BY <1>1 DEF Acquire, SockInv, Types
<1>4. Types'
  BY <1>1, <1>2, <1>3 DEF SockInv, Types
<1>5. Locked'
  BY <1>2, <1>3, LockStep DEF SockInv, Holding
<1>6. Live' = Live
  BY <1>1 DEF Live
<1> QED
  BY <1>1, <1>2, <1>4, <1>5, <1>6, QuietStep DEF Quiet

\* A call on a socket changes its contents only.
LEMMA UseKeeps ==
    ASSUME SockInv, NEW t \in Tasks, Use(t), Present(t) PROVE SockInv'
<1> DEFINE h == scall[t].handle
           o == scall[t].op
           s == IF o = "bind" THEN bind(sset[h]) ELSE IF o = "recv" THEN recv(sset[h])
                ELSE IF o = "recv_from" THEN recv_from(sset[h]) ELSE send_to(sset[h])
<1>1. /\ scall[t].at = "locked" /\ Release("sockets") /\ Return(t)
      /\ stack_up' = stack_up /\ in_use' = in_use /\ pool' = pool /\ budget' = budget
  BY DEF Use, At
<1>2. h \in 2..Places
  BY <1>1 DEF SockInv, FirstDescriptor
<1>3. sset[h] \in Socket
  BY <1>2 DEF SockInv, Types
<1>4. s \in Socket /\ s.gen = sset[h].gen
  BY <1>3, SocketOps
<1>5. sset' = [sset EXCEPT ![h] = s]
  BY <1>2 DEF Use, SockInv, Types
<1> HIDE DEF s
<1>6. sset' \in [2..Places -> Socket] /\ Live' = Live
  BY <1>2, <1>4, <1>5, SameSockets DEF SockInv
<1>7. /\ scall' \in [Tasks -> Call] /\ scall'[t].at = "idle"
      /\ \A u \in Tasks : u # t => scall'[u] = scall[u]
  BY <1>1, ReturnStep DEF SockInv
<1>8. Types'
  BY <1>1, <1>6, <1>7 DEF SockInv, Types, Release
<1>9. Locked'
  BY <1>1, <1>7, LockStep DEF SockInv, Holding
<1> QED
  BY <1>1, <1>6, <1>7, <1>8, <1>9, QuietStep DEF Quiet

\* poll() delivers into a socket that exists.
LEMMA PollKeeps ==
    ASSUME SockInv, NEW t \in Tasks, poll(t) PROVE SockInv'
<1>1. /\ scall[t].at = "polling" /\ locks' = [l \in DOMAIN locks |-> NoTask] /\ Return(t)
      /\ stack_up' = stack_up /\ in_use' = in_use /\ pool' = pool /\ budget' = budget
  BY DEF poll, At
<1>2. sset' \in [2..Places -> Socket] /\ Live' = Live
  <2>1. CASE sset' = sset
    BY <2>1 DEF SockInv, Types, Live
  <2>2. CASE \E p \in 2..Places : \E s \in Delivered(sset[p]) : sset' = [sset EXCEPT ![p] = s]
    <3>1. PICK p \in 2..Places : \E s \in Delivered(sset[p]) : sset' = [sset EXCEPT ![p] = s]
      BY <2>2
    <3>2. PICK s \in Delivered(sset[p]) : sset' = [sset EXCEPT ![p] = s]
      BY <3>1
    <3>3. sset[p] \in Socket
      BY DEF SockInv, Types
    <3>4. s \in Socket /\ s.gen = sset[p].gen
      BY <3>3, SocketOps
    <3> QED
      BY <3>2, <3>4, SameSockets DEF SockInv
  <2> QED
    BY <2>1, <2>2 DEF poll
<1>3. /\ scall' \in [Tasks -> Call] /\ scall'[t].at = "idle"
      /\ \A u \in Tasks : u # t => scall'[u] = scall[u]
  BY <1>1, ReturnStep DEF SockInv
<1>4. Types'
  BY <1>1, <1>2, <1>3 DEF SockInv, Types
<1>5. Locked'
  BY <1>1, <1>3, LockStep DEF SockInv, Holding
<1> QED
  BY <1>1, <1>2, <1>3, <1>4, <1>5, QuietStep DEF Quiet

-----------------------------------------------------------------------------
(* The theorem.                                                              *)

\* A panic, and a turn of a spin loop, change none of the tables.
LEMMA SameKeeps ==
    ASSUME SockInv, UNCHANGED <<stack_up, in_use, sset, pool, locks, scall, stale, budget>>
    PROVE  SockInv'
BY DEF SockInv, Types, Locked, OneSocket, Accounted, FirstDescriptor, Live, Empty

\* Every step of every call preserves the invariant.
LEMMA SockNextInv == SockInv /\ [SockNext]_sockVars => SockInv'
<1> SUFFICES ASSUME SockInv, [SockNext]_sockVars PROVE SockInv'
  OBVIOUS
<1>1. ASSUME NEW t \in Tasks, SockStep(t) PROVE SockInv'
  <2>1. CASE Add(t) \/ allocate_fd(t) \/ free_fd(t) \/ CloseEnd(t)
    BY <2>1, AddKeeps, AllocateKeeps, FreeFdKeeps, CloseEndKeeps
  <2>2. CASE Lock(t) \/ PollIface(t) \/ PollDev(t) \/ PollSockets(t) \/ poll(t)
    BY <2>2, AcquireKeeps, PollIfaceKeeps, PollKeeps
  <2>3. CASE (Use(t) \/ RemoveSocket(t)) /\ Present(t)
    BY <2>3, UseKeeps, RemoveKeeps
  <2>4. CASE (Use(t) \/ RemoveSocket(t)) /\ ~Present(t)
    <3>1. Panic(t)
      BY <2>4 DEF Use, RemoveSocket
    <3> QED
      BY <3>1, SameKeeps DEF Panic
  <2> QED
    BY <1>1, <2>1, <2>2, <2>3, <2>4 DEF SockStep
<1>2. ASSUME NEW t \in Tasks, SockStart(t) PROVE SockInv'
  BY <1>2, ClaimKeeps, LookupKeeps, PollCallKeeps DEF SockStart
<1>3. CASE UNCHANGED sockVars
  BY <1>3, SameKeeps DEF sockVars
<1> QED
  BY <1>1, <1>2, <1>3 DEF SockNext, Spin

\* Sets of at most one element are counted.
LEMMA AtMostOne ==
    ASSUME NEW S, \A x, y \in S : x = y
    PROVE  Cardinality(S) \in {0, 1} /\ (Cardinality(S) = 0 <=> S = {})
<1>1. CASE S = {}
  BY <1>1, FS_EmptySet
<1>2. CASE S # {}
  <2>1. PICK x \in S : TRUE
    BY <1>2
  <2>2. S = {x}
    BY <2>1
  <2>3. Cardinality({x}) = 1
    BY FS_Singleton
  <2> QED
    BY <1>2, <2>2, <2>3
<1> QED
  BY <1>1, <1>2

\* The invariant counts the owners of the buffers.
LEMMA SockInvOwns == SockInv => BuffersOwnedOnce
<1> SUFFICES ASSUME SockInv PROVE BuffersOwnedOnce
  OBVIOUS
<1> DEFINE C == {t \in Tasks : At(t, "claimed")}
           a == Cardinality(Live)
           b == Cardinality(C)
<1>1. a \in {0, 1} /\ (a = 0 <=> Live = {})
  BY AtMostOne DEF SockInv, OneSocket
<1>2. \A x, y \in C : x = y
  BY DEF SockInv, OneSocket, At
<1>3. b \in {0, 1} /\ (b = 0 <=> C = {})
  BY <1>2, AtMostOne
<1>4. C # {} => Live = {} /\ in_use = TRUE
  BY DEF SockInv, OneSocket, At
<1>5. Live # {} => in_use = TRUE
  BY DEF SockInv, OneSocket
<1>6. ASSUME in_use = TRUE, stack_up = TRUE, \A t \in Tasks : scall[t].op \notin {"socket", "close"}
      PROVE  Live # {}
  BY <1>6 DEF SockInv, Accounted, Closes
<1> HIDE DEF a, b, C
<1>7. a + b <= 1
  BY <1>1, <1>3, <1>4
<1>8. a + b = 1 => in_use = TRUE
  BY <1>1, <1>3, <1>4, <1>5
<1>9. Live # {} => a + b = 1
  BY <1>1, <1>3, <1>4
<1> QED
  BY <1>6, <1>7, <1>8, <1>9 DEF BuffersOwnedOnce, a, b, C, SockInv, Types

\* However many tasks call the socket interface, and whatever they do with
\* each other's descriptors, the static packet buffers back at most one socket
\* and UDP_IN_USE says so.
THEOREM BuffersBackOneSocket == SockSpec => []BuffersOwnedOnce
BY SockInitInv, SockNextInv, SockInvOwns, PTL DEF SockSpec
=============================================================================
