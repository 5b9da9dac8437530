----------------------------- MODULE ControlLoop -----------------------------
(***************************************************************************)
(* The message loop of control_channel.rs (Step C of run) on top of the    *)
(* stream it reads and writes.                                             *)
(*                                                                         *)
(* One task runs the loop.  Each turn is a biased select! over read_frame  *)
(* and the nav, audio and video queues; the branch that wins runs to its   *)
(* end before the next turn, and the losing futures are dropped.  On the   *)
(* car's USB link the stream is UsbAccessoryStream (usb/stream.rs), which  *)
(* runs every read(2) and write(2) on a blocking worker and remembers the  *)
(* one in flight in IoState: dropping read_frame does not take a read that *)
(* was started back.  Over TCP (head-unit emulator, tests) reads and       *)
(* writes are independent.                                                 *)
(***************************************************************************)
EXTENDS Naturals

CONSTANTS
  Links,        \* the links a session may run over: "usb", "tcp"
  UsbSources,   \* the queues that carry traffic of our own over USB
  TcpSources,   \* ... and over TCP
  QueueCap,     \* capacity of each queue (8, 64 and 64 in the code)
  InboundCap,   \* bound: frames from the car waiting to be read
  MaxReplies    \* bound: messages handle_frame answers a frame with

ASSUME LoopAssumption ==
  /\ Links \subseteq {"usb", "tcp"}
  /\ UsbSources \cup TcpSources \subseteq {"nav", "audio", "video"}
  /\ QueueCap \in Nat \ {0}
  /\ InboundCap \in Nat \ {0}
  /\ MaxReplies \in Nat

VARIABLES
  link,      \* the link of this session, which never changes
  loop,      \* where the loop is: select, handle, write, ended
  branch,    \* the select! branch being run
  toWrite,   \* frames this branch still has to write
  queue,     \* length of each outbound queue
  inbound,   \* frames from the car not read yet
  linkUp,    \* the cable is plugged in
  io,        \* UsbAccessoryStream::state: Idle, Reading, Writing
  syscall    \* the blocking worker: none, blocked, done, failed

vars == <<loop, branch, toWrite, queue, inbound, linkUp, io, syscall>>
stream == <<io, syscall>>

Sources == IF link = "usb" THEN UsbSources ELSE TcpSources

Branches == {"none", "read"} \cup Sources

TypeOK ==
  /\ link \in Links
  /\ loop \in {"select", "handle", "write", "ended"}
  /\ branch \in Branches
  /\ toWrite \in Nat
  /\ queue \in [Sources -> 0..QueueCap]
  /\ inbound \in 0..InboundCap
  /\ linkUp \in BOOLEAN
  /\ io \in {"Idle", "Reading", "Writing"}
  /\ syscall \in {"none", "blocked", "done", "failed"}

Init ==
  /\ link \in Links
  /\ loop = "select"
  /\ branch = "none"
  /\ toWrite = 0
  /\ queue = [s \in Sources |-> 0]
  /\ inbound = 0
  /\ linkUp = TRUE
  /\ io = "Idle"
  /\ syscall = "none"

\* encode_instruction yields three messages, the other queues hold one each.
Burst(s) == IF s = "nav" THEN 3 ELSE 1

\* The sources select! polls before s, in the order of its branches.
Before(s) ==
  {t \in Sources : \/ t = "nav" /\ s # "nav"
                   \/ t = "audio" /\ s = "video"}

-----------------------------------------------------------------------------
(* UsbAccessoryStream                                                      *)

\* poll_read while Idle: a blocking worker enters read(2).
UsbStartRead ==
  /\ link = "usb"
  /\ loop = "select"
  /\ io = "Idle"
  /\ io' = "Reading" /\ syscall' = "blocked"
  /\ UNCHANGED <<loop, branch, toWrite, queue, inbound, linkUp>>

\* read(2) returns a frame, or an error once the cable is out.
KernelRead ==
  /\ io = "Reading" /\ syscall = "blocked"
  /\ \/ linkUp /\ inbound > 0 /\ inbound' = inbound - 1 /\ syscall' = "done"
     \/ ~linkUp /\ syscall' = "failed" /\ UNCHANGED inbound
  /\ UNCHANGED <<loop, branch, toWrite, queue, linkUp, io>>

\* poll_write while Idle.  While a read is in flight poll_write is Pending,
\* and leaves nobody polling the read: no action is enabled then.
UsbStartWrite ==
  /\ link = "usb"
  /\ loop = "write"
  /\ io = "Idle"
  /\ io' = "Writing" /\ syscall' = "blocked"
  /\ UNCHANGED <<loop, branch, toWrite, queue, inbound, linkUp>>

KernelWrite ==
  /\ io = "Writing" /\ syscall = "blocked"
  /\ syscall' = IF linkUp THEN "done" ELSE "failed"
  /\ UNCHANGED <<loop, branch, toWrite, queue, inbound, linkUp, io>>

-----------------------------------------------------------------------------
(* The select! branches                                                    *)

\* Mutant of FrameRead: poll_read leaves the finished read in the state.
FrameReadKeepsState ==
  /\ loop = "select"
  /\ \/ io = "Reading" /\ syscall = "done" /\ UNCHANGED inbound
     \/ /\ link = "tcp" /\ inbound > 0
        /\ inbound' = inbound - 1
  /\ loop' = "handle" /\ branch' = "read"
  /\ UNCHANGED <<toWrite, queue, linkUp, io, syscall>>

\* read_frame completes with a frame.  A socket still holds what came before
\* the peer closed it, unless the connection was reset (ReadFails).
FrameRead ==
  /\ loop = "select"
  /\ \/ /\ io = "Reading" /\ syscall = "done"
        /\ io' = "Idle" /\ syscall' = "none"
        /\ UNCHANGED inbound
     \/ /\ link = "tcp" /\ inbound > 0
        /\ inbound' = inbound - 1
        /\ UNCHANGED stream
  /\ loop' = "handle" /\ branch' = "read"
  /\ UNCHANGED <<toWrite, queue, linkUp>>

\* Mutant of ReadFails: the error is logged and the loop goes on.
ReadFailsIsLogged ==
  /\ loop = "select"
  /\ \/ io = "Reading" /\ syscall = "failed" /\ io' = "Idle" /\ syscall' = "none"
     \/ link = "tcp" /\ ~linkUp /\ UNCHANGED stream
  /\ UNCHANGED <<loop, branch, toWrite, queue, inbound, linkUp>>

\* read_frame fails: run() returns.
ReadFails ==
  /\ loop = "select"
  /\ \/ io = "Reading" /\ syscall = "failed"
     \/ link = "tcp" /\ ~linkUp
  /\ loop' = "ended"
  /\ UNCHANGED <<branch, toWrite, queue, inbound, linkUp, io, syscall>>

\* Mutant of ReadPending: an unbiased select!.
ReadPendingOrNot == TRUE

\* read_frame has been polled first and is Pending.
ReadPending ==
  IF link = "usb" THEN io = "Reading" /\ syscall = "blocked"
  ELSE linkUp /\ inbound = 0

\* A queue wins: the read_frame future is dropped.
TakeOutbound(s) ==
  /\ loop = "select"
  /\ ReadPending
  /\ \A t \in Before(s) : queue[t] = 0
  /\ queue[s] > 0
  /\ queue' = [queue EXCEPT ![s] = @ - 1]
  /\ loop' = "write" /\ branch' = s /\ toWrite' = Burst(s)
  /\ UNCHANGED <<inbound, linkUp, io, syscall>>

\* handle_frame: decrypt, route, and answer with some messages, or none.
HandleFrame ==
  /\ loop = "handle"
  /\ \E n \in 0..MaxReplies :
       /\ toWrite' = n
       /\ loop' = IF n = 0 THEN "select" ELSE "write"
  /\ UNCHANGED <<branch, queue, inbound, linkUp, io, syscall>>

\* write_all of one frame returns.
FrameWritten ==
  /\ loop = "write"
  /\ \/ io = "Writing" /\ syscall = "done" /\ io' = "Idle" /\ syscall' = "none"
     \/ link = "tcp" /\ linkUp /\ UNCHANGED stream
  /\ toWrite' = toWrite - 1
  /\ loop' = IF toWrite = 1 THEN "select" ELSE "write"
  /\ UNCHANGED <<branch, queue, inbound, linkUp>>

\* Mutant of WriteFails: the message is tried again until it is written.
WriteFailsRetries ==
  /\ loop = "write"
  /\ \/ io = "Writing" /\ syscall = "failed" /\ io' = "Idle" /\ syscall' = "none"
     \/ link = "tcp" /\ ~linkUp /\ UNCHANGED stream
  /\ UNCHANGED <<loop, branch, toWrite, queue, inbound, linkUp>>

\* write_all fails: the rest of the branch's messages are dropped, the error
\* is logged and the loop goes on.
WriteFails ==
  /\ loop = "write"
  /\ \/ io = "Writing" /\ syscall = "failed" /\ io' = "Idle" /\ syscall' = "none"
     \/ link = "tcp" /\ ~linkUp /\ UNCHANGED stream
  /\ toWrite' = 0
  /\ loop' = "select"
  /\ UNCHANGED <<branch, queue, inbound, linkUp>>

-----------------------------------------------------------------------------
(* The other tasks and the car                                             *)

\* The nav runner, an audio encoder or a video streamer queues a message.
Produce(s) ==
  /\ loop # "ended"
  /\ queue[s] < QueueCap
  /\ queue' = [queue EXCEPT ![s] = @ + 1]
  /\ UNCHANGED <<loop, branch, toWrite, inbound, linkUp, io, syscall>>

CarSends ==
  /\ linkUp
  /\ inbound < InboundCap
  /\ inbound' = inbound + 1
  /\ UNCHANGED <<loop, branch, toWrite, queue, linkUp, io, syscall>>

Unplug ==
  /\ linkUp
  /\ linkUp' = FALSE
  /\ UNCHANGED <<loop, branch, toWrite, queue, inbound, io, syscall>>

Usb == UsbStartRead \/ KernelRead \/ UsbStartWrite \/ KernelWrite

Loop ==
  \/ FrameRead \/ ReadFails \/ HandleFrame \/ FrameWritten \/ WriteFails
  \/ \E s \in Sources : TakeOutbound(s)

Next ==
  /\ \/ Usb \/ Loop
     \/ \E s \in Sources : Produce(s)
     \/ CarSends \/ Unplug
  /\ UNCHANGED link

Spec == Init /\ [][Next]_<<link, vars>>

\* The loop's task is woken when a future it polls is ready, and the blocking
\* workers return when the kernel has something for them; the car takes what is
\* written while the link is up.  Nothing else is assumed of it, of the sources
\* and of the cable.
FairSpec == Spec /\ WF_vars(Usb) /\ WF_vars(Loop)

-----------------------------------------------------------------------------
(* Properties                                                              *)

\* A write gets behind a read that no one is waiting for only over USB, and
\* only in the branch of a queue, which has dropped read_frame.  The answers to
\* the car's own frames never do, whatever the queues carry: handle_frame runs
\* when poll_read has taken the finished read out of IoState.
OnlyQueuesBlocked ==
  loop = "write" /\ io = "Reading" => link = "usb" /\ branch \in UsbSources

\* A message that waits behind a read nobody polls any more.
Wedged == loop = "write" /\ io = "Reading"

\* Every message the loop took from a queue or answers with reaches the wire
\* (or its write fails): the loop comes back to its select!.  That the trait
\* surface is preserved (usb/stream.rs:59-60) would imply this.
BranchCompletes == loop = "write" ~> loop \in {"select", "ended"}

\* The abandoned read is the only thing that can keep a branch from its end:
\* not a burst, not a write that fails, not a queue that refills.
BranchReturns == loop = "write" ~> loop \in {"select", "ended"} \/ Wedged

\* run() returns once the stream is closed, from wherever it is but there.
UnplugEnds == ~linkUp ~> loop = "ended" \/ Wedged

\* A frame the car sent is read in the end, whatever else is queued.
InboundServed ==
  inbound = InboundCap ~> inbound < InboundCap \/ ~linkUp \/ Wedged

=============================================================================
