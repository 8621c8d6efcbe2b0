------------------------------- MODULE RxPath ------------------------------
(***************************************************************************)
(* Console input: the ring buffer and pop_from_rx_buf of                   *)
(* kernel/src/driver/char.rs, the UART that feeds it (its interrupt        *)
(* handler drains the device into the ring; on some boards the reader also *)
(* polls the device), and its readers, the shell task and the read system  *)
(* call.  On one CPU the interrupt handler and the system call are atomic  *)
(* for the shell, whose own accesses to the ring are separate steps.       *)
(* Bytes are numbered in the order in which they reach the device.         *)
(***************************************************************************)
EXTENDS Integers, Sequences, SequencesExt

CONSTANTS
    BufSize,        \* BUF_SIZE
    FifoSize,       \* the receive FIFO of the device
    Boards,         \* the builds, see Board
    MaxBytes        \* bound on the bytes that arrive

\* has_poll: set_rx_poll_fn was called; has_shell: built with the shell;
\* has_calls: programs use the read system call
Board == [has_poll : BOOLEAN, has_shell : BOOLEAN, has_calls : BOOLEAN]

ASSUME RxAssumption ==
    /\ BufSize \in Nat \ {0} /\ FifoSize \in Nat \ {0} /\ MaxBytes \in Nat
    /\ Boards \subseteq Board

VARIABLES
    board,          \* never changes
    device,         \* the receive FIFO of the UART
    arrived,        \* the number of bytes received so far
    data, head, tail,       \* RxBuffer
    pc, old_tail, val,      \* the shell inside pop_from_rx_buf
    dropped,        \* history: bytes push found no room for
    delivered       \* history: the bytes returned to the readers, in order

vars == <<board, device, arrived, data, head, tail, pc, old_tail, val, dropped, delivered>>
ring == <<data, head, tail>>
shell == <<pc, old_tail, val>>

Index == 0..(BufSize - 1)

Init ==
    /\ board \in Boards
    /\ device = <<>> /\ arrived = 0
    /\ data = [i \in Index |-> 0] /\ head = 0 /\ tail = 0
    /\ pc = "start" /\ old_tail = 0 /\ val = 0
    /\ dropped = {} /\ delivered = <<>>

\* the bytes in the ring, the next one to be popped first
Contents == [k \in 1..((head - tail) % BufSize) |-> data[(tail + k - 1) % BufSize]]

-----------------------------------------------------------------------------
\* external: a byte reaches the device
Arrive ==
    /\ arrived < MaxBytes /\ Len(device) < FifoSize
    /\ arrived' = arrived + 1
    /\ device' = Append(device, arrived')
    /\ UNCHANGED <<ring, shell, dropped, delivered>>

\* faulty variant: uses the last free place, so that full looks like empty
NoRoomLate == FALSE

NoRoom == (head + 1) % BufSize = tail

\* handle_irq: push_to_rx_buf for a byte of the device.  The loop of the handler
\* is a series of these; a byte that arrives after the loop leads to the states
\* in which the shell goes on before the device is empty.
Interrupt ==
    /\ device # <<>>
    /\ pc # "polling"
    /\ device' = Tail(device)
    /\ IF NoRoom
       THEN dropped' = dropped \cup {Head(device)} /\ UNCHANGED ring
       ELSE /\ data' = [data EXCEPT ![head] = Head(device)]
            /\ head' = (head + 1) % BufSize
            /\ UNCHANGED <<tail, dropped>>
    /\ UNCHANGED <<arrived, shell, delivered>>

-----------------------------------------------------------------------------
(* The shell: pop_from_rx_buf.                                             *)

\* pop: load the tail and the head
PopLoad ==
    /\ board.has_shell
    /\ pc \in {"start", "again"}
    /\ old_tail' = tail
    /\ pc' = IF tail # head THEN "read"
             ELSE IF pc = "start" /\ board.has_poll THEN "empty" ELSE "start"
    /\ UNCHANGED <<device, arrived, ring, val, dropped, delivered>>

PopRead ==
    /\ pc = "read"
    /\ val' = data[old_tail]
    /\ pc' = "store"
    /\ UNCHANGED <<device, arrived, ring, old_tail, dropped, delivered>>

\* pop stores the new tail and returns the byte
PopStore ==
    /\ pc = "store"
    /\ tail' = (old_tail + 1) % BufSize
    /\ delivered' = Append(delivered, val)
    /\ pc' = "start"
    /\ UNCHANGED <<device, arrived, data, head, old_tail, val, dropped>>

\* disable_irq() after a first pop that found nothing
PollStart ==
    /\ pc = "empty"
    /\ pc' = "polling"
    /\ UNCHANGED <<device, arrived, ring, old_tail, val, dropped, delivered>>

\* poll() and enable_irq(); with nothing in the device, pop once more
Poll ==
    /\ pc = "polling"
    /\ IF device # <<>>
       THEN /\ delivered' = Append(delivered, Head(device))
            /\ device' = Tail(device)
            /\ pc' = "start"
       ELSE pc' = "again" /\ UNCHANGED <<device, delivered>>
    /\ UNCHANGED <<arrived, ring, old_tail, val, dropped>>

-----------------------------------------------------------------------------
\* read_console: another task gets a byte from pop_from_rx_buf inside its system
\* call, while the shell is anywhere but in its critical section
ReadCall ==
    /\ board.has_calls
    /\ pc # "polling"
    /\ \/ /\ tail # head
          /\ delivered' = Append(delivered, data[tail])
          /\ tail' = (tail + 1) % BufSize
          /\ UNCHANGED device
       \/ /\ tail = head /\ board.has_poll /\ device # <<>>
          /\ delivered' = Append(delivered, Head(device))
          /\ device' = Tail(device)
          /\ UNCHANGED tail
    /\ UNCHANGED <<arrived, data, head, shell, dropped>>

Done == arrived = MaxBytes /\ device = <<>> /\ head = tail /\ pc = "start" /\ UNCHANGED vars

Next ==
    /\ UNCHANGED board
    /\ \/ Arrive \/ Interrupt
       \/ PopLoad \/ PopRead \/ PopStore \/ PollStart \/ Poll
       \/ ReadCall \/ Done

Spec == Init /\ [][Next]_vars

-----------------------------------------------------------------------------
(***************************************************************************)
(* Every byte that arrived is in exactly one place, once: dropped because  *)
(* the ring was full, still in the device, in the ring, or delivered.  The *)
(* interrupt handler may push between any two loads and stores of pop.     *)
(***************************************************************************)
EveryByteOnce ==
    LET places == delivered \o Contents \o device
    IN  /\ IsInjective(places)
        /\ Range(places) \cap dropped = {}
        /\ Range(places) \cup dropped = 1..arrived

(***************************************************************************)
(* What char.rs says of pop ("Single-consumer pop. Intended consumer is    *)
(* the shell task."), as far as a user sees it: no byte of input is        *)
(* delivered twice.                                                        *)
(***************************************************************************)
DeliveredOnce == IsInjective(delivered)

=============================================================================
