---- MODULE VirtioQueue ----
(***************************************************************************)
(* The VirtIO MMIO drivers: the probe handshake of virtio_common and the   *)
(* synchronous, one-request-at-a-time queue that virtio_blk, virtio_rng    *)
(* and virtio_gpu share.  A call takes io_busy, writes the request, bumps  *)
(* avail.idx, polls used.idx at most PollLimit times and reads the answer  *)
(* out of a buffer that every request uses.  The device is external.       *)
(***************************************************************************)
EXTENDS Integers, Sequences

CONSTANTS Callers,        \* tasks that call the driver
          Sectors,        \* sectors, or byte counts asked of the entropy device
          PollLimit,      \* OPENION_VIRTIO_*_POLL_LIMIT
          IdxMod,         \* 2^16 in the code: the ring indices wrap
          MaxOutstanding, \* bound: requests the device may owe
          MaxFills,       \* bound: fill_rect calls
          NoJob           \* the device holds no request

ASSUME VqAssumption ==
  /\ PollLimit \in Nat \ {0}
  /\ IdxMod \in Nat \ {0, 1}
  /\ MaxOutstanding \in Nat
  /\ MaxFills \in Nat
  /\ Sectors \subseteq Nat

VARIABLES
  kind,           \* the driver: "blk", "rng" or "gpu"
  device,         \* what the device's registers answer to the probe
  phase,          \* "probe", "init" (gpu commands of init_hw), "live" or "dead"
  status,         \* the STATUS register
  request,        \* the request buffer: the command last written to it
  response,       \* the answer buffer: its data and its status byte
  avail_idx, used_idx, last_used_idx,
  used_lens,      \* length fields of the used-ring entries from last_used_idx on
  io_busy,
  job,            \* the request the device is working on
  vpc, script, seen, spins, taken, insync,  \* the callers' control and locals
  result,         \* what each caller's last call returned
  timed_out,      \* history: some poll gave up
  fb, texture, screen  \* the framebuffer's version, and the host's copies

vqvars == <<kind, device, phase, status, request, response, avail_idx, used_idx,
            last_used_idx, used_lens, io_busy, job, vpc, script, seen, spins, taken, insync,
            result, timed_out, fb, texture, screen>>
queue == <<request, response, avail_idx, used_idx, last_used_idx, used_lens, job>>
picture == <<fb, texture, screen>>

\* A command: its type, and the sector or byte count for those that have one.
Cmd(op, arg) == [op |-> op, arg |-> arg]
Gpu(op) == Cmd(op, 0)
\* status 0xFF before a block request, zero before the others
Blank == [data |-> NoJob, bytes |-> 0, st |-> "none"]
NoResult == [res |-> "none", own |-> TRUE, sync |-> TRUE, shows |-> 0]

Inc(i) == IF i + 1 = IdxMod THEN 0 ELSE i + 1

\* Device registers as the drivers read them.
Devices == [magic : BOOLEAN, version : {0, 1, 2}, id_matches : BOOLEAN,
            modern : BOOLEAN, accepts : BOOLEAN, queue_fits : BOOLEAN]

VqInit ==
  /\ kind \in {"blk", "rng", "gpu"}
  /\ device \in Devices
  /\ phase = "probe" /\ status = {}
  /\ request = NoJob /\ response = Blank
  /\ avail_idx = 0 /\ used_idx = 0 /\ last_used_idx = 0 /\ used_lens = <<>>
  /\ io_busy = FALSE /\ job = NoJob
  /\ vpc = [c \in Callers |-> "idle"]
  /\ script = [c \in Callers |-> <<>>]
  /\ seen = 0 /\ spins = 0 /\ taken = 0 /\ insync = TRUE
  /\ result = [c \in Callers |-> NoResult]
  /\ timed_out = FALSE
  /\ fb = 0 /\ texture = 0 /\ screen = 0

-----------------------------------------------------------------------------
\* MmioTransport::validate_device with OPENION_VIRTIO_MMIO_LEGACY = false.
validate_device == device.magic /\ device.version = 2 /\ device.id_matches

\* negotiate_features: the device clears FEATURES_OK to refuse.
negotiate_features == device.modern /\ device.accepts

\* MmioTransport::setup_queue
setup_queue == device.queue_fits

\* The status register after reset, ACKNOWLEDGE, DRIVER, negotiation and queue
\* set-up; the block and entropy drivers do not report a queue that is too small.
FailedBit(bad_features, bad_queue) ==
  IF bad_features \/ (bad_queue /\ kind = "gpu") THEN {"FAILED"} ELSE {}
DriverOkBit(ready) == IF ready /\ kind # "gpu" THEN {"DRIVER_OK"} ELSE {}
HandshakeStatus ==
  LET ok == negotiate_features
      fits == setup_queue IN
  {"ACKNOWLEDGE", "DRIVER"} \cup (IF ok THEN {"FEATURES_OK"} ELSE {})
    \cup FailedBit(~ok, ok /\ ~fits)
    \cup DriverOkBit(ok /\ fits)

\* flush_rect's two commands
flush_rect == <<Gpu("transfer"), Gpu("flush")>>

\* virtio_gpu's init_hw: display info and resource set-up, DRIVER_OK, clear.
read_display_info == <<Gpu("display")>>
create_framebuffer_resource == <<Gpu("create"), Gpu("backing"), Gpu("scanout")>> \o flush_rect
InitScript == read_display_info \o create_framebuffer_resource \o <<Gpu("DRIVER_OK")>> \o flush_rect

\* The factory's probe: device_id, pool slot, init_hw.
VqProbe(c) ==
  /\ phase = "probe"
  /\ LET ok == negotiate_features /\ setup_queue IN
     IF ~validate_device
       THEN phase' = "dead" /\ UNCHANGED <<status, script, vpc>>
       ELSE /\ status' = HandshakeStatus
            /\ phase' = IF ~ok THEN "dead" ELSE IF kind = "gpu" THEN "init" ELSE "live"
            /\ IF ok /\ kind = "gpu"
                 THEN script' = [script EXCEPT ![c] = InitScript]
                      /\ vpc' = [vpc EXCEPT ![c] = "ready"]
                 ELSE UNCHANGED <<script, vpc>>
  /\ UNCHANGED <<kind, device, io_busy, seen, spins, taken, insync, result, timed_out>>
  /\ UNCHANGED queue /\ UNCHANGED picture

-----------------------------------------------------------------------------
\* bound: a call starts only while the device owes less than MaxOutstanding
RoomForCall == (avail_idx - used_idx) % IdxMod < MaxOutstanding

\* read_sector(sector) and fill_bytes(buf) are one command each; fill_rect
\* writes the pixels, then transfers and flushes; flush only does the latter.
Call(c, s) ==
  /\ phase = "live" /\ vpc[c] = "idle" /\ RoomForCall
  /\ script' = [script EXCEPT ![c] = s]
  /\ vpc' = [vpc EXCEPT ![c] = "ready"]
  /\ result' = [result EXCEPT ![c] = [NoResult EXCEPT !.shows = fb']]
  /\ UNCHANGED <<kind, device, phase, status, io_busy, seen, spins, taken, insync, timed_out, texture, screen>>
  /\ UNCHANGED queue

read_sector(c, sector) == kind = "blk" /\ UNCHANGED fb /\ Call(c, <<Cmd("read", sector)>>)
fill_bytes(c, want) == kind = "rng" /\ UNCHANGED fb /\ Call(c, <<Cmd("fill", want)>>)
fill_rect(c) == kind = "gpu" /\ fb < MaxFills /\ fb' = fb + 1 /\ Call(c, flush_rect)
flush(c) == kind = "gpu" /\ UNCHANGED fb /\ Call(c, flush_rect)

\* A call returns: an error of init_hw means no driver.
Error(r) == [NoResult EXCEPT !.res = r]
Return(c, r) ==
  /\ vpc' = [vpc EXCEPT ![c] = "idle"]
  /\ script' = [script EXCEPT ![c] = <<>>]
  /\ result' = [result EXCEPT ![c] = r]
  /\ phase' = IF phase = "init" THEN IF r.res = "ok" THEN "live" ELSE "dead" ELSE phase

\* io_busy.swap(true): a driver that is in use answers Busy at once.
BusyIgnored == FALSE
Busy == io_busy
Acquire(c) ==
  /\ vpc[c] = "ready" /\ Head(script[c]).op # "DRIVER_OK"
  /\ IF Busy
       THEN Return(c, Error("busy")) /\ UNCHANGED io_busy
       ELSE /\ io_busy' = TRUE /\ vpc' = [vpc EXCEPT ![c] = "write"]
            /\ UNCHANGED <<phase, script, result>>
  /\ UNCHANGED <<kind, device, status, seen, spins, taken, insync, timed_out>>
  /\ UNCHANGED queue /\ UNCHANGED picture

\* init_hw sets DRIVER_OK between its commands.
SetDriverOk(c) ==
  /\ vpc[c] = "ready" /\ Head(script[c]).op = "DRIVER_OK"
  /\ status' = status \cup {"DRIVER_OK"}
  /\ script' = [script EXCEPT ![c] = Tail(@)]
  /\ UNCHANGED <<kind, device, phase, io_busy, vpc, seen, spins, taken, insync, result, timed_out>>
  /\ UNCHANGED queue /\ UNCHANGED picture

\* What is left in the answer buffer when a request is submitted: the block
\* driver resets the status byte, the other two clear all of it.
BlkPrepare == [response EXCEPT !.st = "none"]
RngPrepare == Blank
GpuPrepare == Blank

WriteRequest(c) ==
  /\ vpc[c] = "write"
  /\ request' = Head(script[c])
  /\ response' = CASE kind = "blk" -> BlkPrepare [] kind = "rng" -> RngPrepare [] kind = "gpu" -> GpuPrepare
  /\ vpc' = [vpc EXCEPT ![c] = "publish"]
  /\ UNCHANGED <<kind, device, phase, status, avail_idx, used_idx, last_used_idx, used_lens,
                 io_busy, job, script, seen, spins, taken, insync, result, timed_out>>
  /\ UNCHANGED picture

\* avail.idx is bumped, the device notified and last_used_idx read.  insync
\* records whether every earlier completion had been consumed by then.
Publish(c) ==
  /\ vpc[c] = "publish"
  /\ avail_idx' = Inc(avail_idx)
  /\ seen' = last_used_idx /\ spins' = 0 /\ taken' = 0
  /\ insync' = (last_used_idx = avail_idx)
  /\ vpc' = [vpc EXCEPT ![c] = "poll"]
  /\ UNCHANGED <<kind, device, phase, status, request, response, used_idx, last_used_idx,
                 used_lens, io_busy, job, script, result, timed_out>>
  /\ UNCHANGED picture

\* used.idx is stored as the new last_used_idx, and the loop's bound.
NoteUsed == used_idx
NextSpinStuck(n) == n
NextSpin(n) == n + 1
GiveUp(n) == n >= PollLimit

\* One turn of the polling loop; the last one gives up and releases the driver
\* with the request still in the ring.
PollUsed(c) ==
  /\ vpc[c] = "poll"
  /\ IF used_idx # seen
       THEN /\ last_used_idx' = NoteUsed /\ vpc' = [vpc EXCEPT ![c] = "answer"]
            /\ taken' = Head(used_lens) /\ used_lens' = <<>>
            /\ UNCHANGED <<phase, io_busy, script, seen, spins, insync, result, timed_out>>
       ELSE /\ UNCHANGED <<last_used_idx, used_lens>>
            /\ IF GiveUp(NextSpin(spins))
                 THEN /\ Return(c, Error("timeout")) /\ io_busy' = FALSE /\ timed_out' = TRUE
                      /\ seen' = 0 /\ spins' = 0 /\ taken' = 0 /\ insync' = TRUE
                 ELSE spins' = NextSpin(spins)
                      /\ UNCHANGED <<phase, io_busy, script, vpc, seen, taken, insync, result, timed_out>>
  /\ UNCHANGED <<kind, device, status, request, response, avail_idx, used_idx, job>>
  /\ UNCHANGED picture

\* The block and gpu drivers look at the status; the entropy driver hands out
\* min(taken, want) bytes of its buffer, whatever they are.
BlkAnswered == response.st = "ok"
GpuAnswered == response.st = "ok"
RngCopied(want) == IF taken < want THEN taken ELSE want

\* own records whether what is handed out is the answer to this very command.
TakeAnswer(c) ==
  /\ vpc[c] = "answer"
  /\ LET cmd == Head(script[c])
         ok == CASE kind = "blk" -> BlkAnswered [] kind = "gpu" -> GpuAnswered [] kind = "rng" -> TRUE
         more == ok /\ Len(script[c]) > 1
         own == IF kind = "rng" THEN RngCopied(cmd.arg) <= response.bytes
                                ELSE response.data = cmd
         got == [result[c] EXCEPT !.own = @ /\ (ok => own), !.sync = @ /\ insync] IN
     IF more
       THEN /\ script' = [script EXCEPT ![c] = Tail(@)]
            /\ vpc' = [vpc EXCEPT ![c] = "ready"]
            /\ result' = [result EXCEPT ![c] = got]
            /\ UNCHANGED phase
       ELSE /\ Return(c, IF ok THEN [got EXCEPT !.res = "ok"] ELSE Error("fault"))
  /\ io_busy' = FALSE
  /\ seen' = 0 /\ spins' = 0 /\ taken' = 0 /\ insync' = TRUE
  /\ UNCHANGED <<kind, device, status, timed_out>>
  /\ UNCHANGED queue /\ UNCHANGED picture

-----------------------------------------------------------------------------
\* The device (external): it reads the request when it gets to it, writes the
\* answer, and then advances used.idx.
DeviceFetch ==
  /\ job = NoJob /\ avail_idx # used_idx
  /\ job' = request
  /\ UNCHANGED <<kind, device, phase, status, request, response, avail_idx, used_idx,
                 last_used_idx, used_lens, io_busy, vpc, script, seen, spins, taken, insync, result, timed_out>>
  /\ UNCHANGED picture

DeviceAnswer(st, n) ==
  /\ job # NoJob /\ response' = [data |-> job, bytes |-> n, st |-> st]
  /\ n <= IF kind = "rng" THEN job.arg ELSE 0
  /\ used_lens' = Append(used_lens, n) /\ used_idx' = Inc(used_idx) /\ job' = NoJob
  /\ texture' = IF st = "ok" /\ job.op = "transfer" THEN fb ELSE texture
  /\ screen' = IF st = "ok" /\ job.op = "flush" THEN texture ELSE screen
  /\ UNCHANGED <<kind, device, phase, status, request, avail_idx, last_used_idx, io_busy,
                 vpc, script, seen, spins, taken, insync, result, timed_out, fb>>

CallerStep(c) ==
  \/ Acquire(c) \/ SetDriverOk(c) \/ WriteRequest(c) \/ Publish(c) \/ PollUsed(c) \/ TakeAnswer(c)

VqNext ==
  \/ \E c \in Callers :
       \/ VqProbe(c) \/ CallerStep(c) \/ fill_rect(c) \/ flush(c)
       \/ \E s \in Sectors : read_sector(c, s) \/ fill_bytes(c, s)
  \/ DeviceFetch
  \/ \E st \in {"ok", "error"}, n \in Sectors \cup {0} : DeviceAnswer(st, n)

VqSpec == VqInit /\ [][VqNext]_vqvars /\ \A c \in Callers : WF_vqvars(CallerStep(c))

-----------------------------------------------------------------------------
(* A call that returns Ok has done what it was asked for, unless an        *)
(* earlier poll gave up and left a completion behind for it to mistake for *)
(* its own: its answer is the one to its own request (its sector, or no    *)
(* more random bytes than the device wrote for it), and what was in the    *)
(* framebuffer when it was called is on the screen.  io_busy keeps the     *)
(* request and answer buffers to one call.                                 *)
OkMeansDone ==
  \A c \in Callers : result[c].res = "ok" =>
    /\ result[c].sync \/ ~timed_out => result[c].own
    /\ kind = "gpu" /\ ~timed_out => screen >= result[c].shows

(* Every call returns, even from a device that never answers: the polling  *)
(* loop is bounded and nobody waits for io_busy.                           *)
CallsReturn == \A c \in Callers : (vpc[c] # "idle") ~> (vpc[c] = "idle")
====
