---------------------------- MODULE VideoPipeline ----------------------------
(***************************************************************************)
(* The video pipeline of channels/video/pipeline.rs.                       *)
(*                                                                         *)
(* The control loop owns a VideoPipelineHandle and calls start(), stop()   *)
(* and on_media_ack() on it.  Every start() spawns a streaming task that   *)
(* pulls access units from a VideoSource and pushes them into a bounded    *)
(* mpsc queue the control loop drains onto the wire.  The tasks and the    *)
(* control loop share nothing but atomics (in_flight, wire_channel), a     *)
(* watch channel (generation) and the queue, so every atomic access is a   *)
(* step of its own: start() and stop() are two steps, and so is a streamer *)
(* that has sent a frame but not counted it yet.                           *)
(***************************************************************************)
EXTENDS Integers, Sequences

CONSTANTS
  MaxInFlight,    \* max_in_flight: the cap on frames sent and not yet acked
  OutboundCap,    \* capacity of the outbound mpsc queue (64 in the code)
  MaxGeneration,  \* bound: how often start() and stop() are called
  Channels,       \* the channel bytes the head unit may assign to video
  NoChannel       \* ChannelId::None, the "not known yet" sentinel

ASSUME ConstantsAssumption ==
  /\ MaxInFlight \in Nat \ {0}
  /\ OutboundCap \in Nat \ {0}
  /\ MaxGeneration \in Nat
  /\ NoChannel \notin Channels

Generations == 1..MaxGeneration

\* An AV_MEDIA_WITH_TIMESTAMP_INDICATION: who produced it, where it goes.
Frame == [gen : Generations, channel : Channels \cup {NoChannel}]

\* Where a streaming task is in the loop of spawn_streamer:
\*   idle     not spawned            check   at the head of the loop
\*   gate     testing the cap        parked  in the select! of the cap loop
\*   source   awaiting next_frame    send    awaiting outbound_tx.send
\*   count    frame sent, in_flight not incremented yet
\*   exited   returned
StreamerState ==
  {"idle", "check", "gate", "parked", "source", "send", "count", "exited"}

VARIABLES
  generation,    \* the value of the watch channel
  in_flight,     \* the flow-control counter
  wire_channel,  \* the channel byte frames are written on
  streamer,      \* the state of the task of each generation
  staged,        \* the channel byte of the message a task is about to send
  outbound,      \* the mpsc queue
  receiver,      \* TRUE while the control loop holds outbound_rx
  call           \* the API call the control loop is in the middle of

\* History variables: they never influence a step.
VARIABLES
  ahead,         \* frames of the current generation sent and not yet acked
  late           \* frames each task queued after it had been superseded

pipeline == <<generation, in_flight, wire_channel, streamer, staged,
              outbound, receiver, call>>
history  == <<ahead, late>>
vars     == <<pipeline, history>>

TypeOK ==
  /\ generation \in 0..MaxGeneration
  /\ in_flight \in Nat
  /\ wire_channel \in Channels \cup {NoChannel}
  /\ streamer \in [Generations -> StreamerState]
  /\ staged \in [Generations -> Channels \cup {NoChannel}]
  /\ outbound \in Seq(Frame)
  /\ Len(outbound) <= OutboundCap
  /\ receiver \in BOOLEAN
  /\ call \in {"none", "start", "stop"}
  /\ ahead \in Nat
  /\ late \in [Generations -> Nat]

Init ==
  /\ generation = 0
  /\ in_flight = 0
  /\ wire_channel = NoChannel
  /\ streamer = [g \in Generations |-> "idle"]
  /\ staged = [g \in Generations |-> NoChannel]
  /\ outbound = <<>>
  /\ receiver = TRUE
  /\ call = "none"
  /\ ahead = 0
  /\ late = [g \in Generations |-> 0]

\* Mutant of Released: fetch_sub without the saturation.
ReleasedWithoutFloor(n) == n - 1

\* Saturating decrement of a counter.
Released(n) == IF n > 0 THEN n - 1 ELSE 0

\* The watch value moved past g: its task is cancelled, cooperatively.
Superseded(g) == g # generation

Live(g) == streamer[g] \notin {"idle", "exited"}

-----------------------------------------------------------------------------
(* The control loop's calls.                                               *)

\* The control loop is between two frames and still running.
ControlIdle == receiver /\ call = "none"

SetWireChannel(c) ==
  /\ ControlIdle
  /\ wire_channel' = c
  /\ UNCHANGED <<generation, in_flight, streamer, staged, outbound, receiver,
                 call, history>>

\* start(), first half: the counter is reset before the generation moves.
StartReset ==
  /\ ControlIdle
  /\ generation < MaxGeneration
  /\ in_flight' = 0
  /\ call' = "start"
  /\ UNCHANGED <<generation, wire_channel, streamer, staged, outbound,
                 receiver, history>>

\* start(), second half: subscribe, bump the generation, spawn the streamer.
StartSpawn ==
  /\ call = "start"
  /\ generation' = generation + 1
  /\ streamer' = [streamer EXCEPT ![generation + 1] = "check"]
  /\ call' = "none"
  /\ ahead' = 0
  /\ UNCHANGED <<in_flight, wire_channel, staged, outbound, receiver, late>>

\* Mutant of StopBump: stop() resets the counter but signals nobody.
StopWithoutBump ==
  /\ ControlIdle
  /\ generation < MaxGeneration
  /\ call' = "stop"
  /\ UNCHANGED <<generation, in_flight, wire_channel, streamer, staged,
                 outbound, receiver, history>>

\* stop(), first half: the generation moves before the counter is reset.  A
\* watch channel that no task subscribes to does not take the new value.
StopBump ==
  /\ ControlIdle
  /\ generation < MaxGeneration
  /\ generation' = IF \E g \in Generations : Live(g)
                   THEN generation + 1 ELSE generation
  /\ call' = "stop"
  /\ UNCHANGED <<in_flight, wire_channel, streamer, staged, outbound,
                 receiver, history>>

\* stop(), second half.
StopReset ==
  /\ call = "stop"
  /\ in_flight' = 0
  /\ call' = "none"
  /\ UNCHANGED <<generation, wire_channel, streamer, staged, outbound,
                 receiver, history>>

\* Mutant of OnMediaAck: an ack releases every slot.
AckReleasesAll ==
  /\ ControlIdle
  /\ in_flight' = 0
  /\ ahead' = Released(ahead)
  /\ UNCHANGED <<generation, wire_channel, streamer, staged, outbound,
                 receiver, call, late>>

\* on_media_ack(): one credit back, never below zero.
OnMediaAck ==
  /\ ControlIdle
  /\ in_flight' = Released(in_flight)
  /\ ahead' = Released(ahead)
  /\ UNCHANGED <<generation, wire_channel, streamer, staged, outbound,
                 receiver, call, late>>

\* The control loop takes the next frame off the queue.
Drain ==
  /\ ControlIdle
  /\ outbound # <<>>
  /\ outbound' = Tail(outbound)
  /\ UNCHANGED <<generation, in_flight, wire_channel, streamer, staged,
                 receiver, call, history>>

\* run() returns: outbound_rx is dropped with whatever it still holds.
Disconnect ==
  /\ ControlIdle
  /\ receiver' = FALSE
  /\ outbound' = <<>>
  /\ UNCHANGED <<generation, in_flight, wire_channel, streamer, staged,
                 call, history>>

-----------------------------------------------------------------------------
(* The streaming task of generation g.                                     *)

\* The task moves from one point of its loop to the next.
Goto(g, from, to) ==
  /\ streamer[g] = from
  /\ streamer' = [streamer EXCEPT ![g] = to]

\* Mutant of Check: the loop head does not look at the generation.
CheckNothing(g) ==
  /\ Goto(g, "check", "gate")
  /\ UNCHANGED <<generation, in_flight, wire_channel, staged, outbound,
                 receiver, call, history>>

\* Loop head: exit if somebody bumped the generation, else go on.
Check(g) ==
  /\ Goto(g, "check", IF Superseded(g) THEN "exited" ELSE "gate")
  /\ UNCHANGED <<generation, in_flight, wire_channel, staged, outbound,
                 receiver, call, history>>

\* Mutant of Gate: the cap test is off by one.
GateOffByOne(g) ==
  /\ Goto(g, "gate", IF in_flight <= MaxInFlight THEN "source" ELSE "parked")
  /\ UNCHANGED <<generation, in_flight, wire_channel, staged, outbound,
                 receiver, call, history>>

\* The cap test of the backpressure loop.  Once it lets the task through,
\* the generation is not looked at again before the frame is sent.
Gate(g) ==
  /\ Goto(g, "gate", IF in_flight < MaxInFlight THEN "source" ELSE "parked")
  /\ UNCHANGED <<generation, in_flight, wire_channel, staged, outbound,
                 receiver, call, history>>

\* The 5 ms timer fires, or changed() returns without a new generation
\* (always, once the sender is gone): test the cap again.
Wake(g) ==
  /\ Goto(g, "parked", "gate")
  /\ UNCHANGED <<generation, in_flight, wire_channel, staged, outbound,
                 receiver, call, history>>

\* Mutant of Cancel: a new generation only wakes the cap loop.
CancelOnlyWakes(g) ==
  /\ Superseded(g)
  /\ Goto(g, "parked", "gate")
  /\ UNCHANGED <<generation, in_flight, wire_channel, staged, outbound,
                 receiver, call, history>>

\* changed() returns and the generation is another one: close and exit.
Cancel(g) ==
  /\ Superseded(g)
  /\ Goto(g, "parked", "exited")
  /\ UNCHANGED <<generation, in_flight, wire_channel, staged, outbound,
                 receiver, call, history>>

\* next_frame() yields an access unit; the message is addressed to the
\* channel byte known now.
NextFrame(g) ==
  /\ Goto(g, "source", "send")
  /\ staged' = [staged EXCEPT ![g] = wire_channel]
  /\ UNCHANGED <<generation, in_flight, wire_channel, outbound, receiver,
                 call, history>>

\* next_frame() yields None: the task returns.
Exhausted(g) ==
  /\ Goto(g, "source", "exited")
  /\ UNCHANGED <<generation, in_flight, wire_channel, staged, outbound,
                 receiver, call, history>>

\* outbound_tx.send succeeds.  The frame is not counted yet.
Send(g) ==
  /\ receiver
  /\ Len(outbound) < OutboundCap
  /\ Goto(g, "send", "count")
  /\ outbound' = Append(outbound, [gen |-> g, channel |-> staged[g]])
  /\ IF Superseded(g)
     THEN late' = [late EXCEPT ![g] = @ + 1] /\ UNCHANGED ahead
     ELSE ahead' = ahead + 1 /\ UNCHANGED late
  /\ UNCHANGED <<generation, in_flight, wire_channel, staged, receiver, call>>

\* outbound_tx.send fails: the receiver is gone, the task exits.
SendFails(g) ==
  /\ ~receiver
  /\ Goto(g, "send", "exited")
  /\ UNCHANGED <<generation, in_flight, wire_channel, staged, outbound,
                 receiver, call, history>>

\* in_flight.fetch_add, after the send.
Count(g) ==
  /\ Goto(g, "count", "check")
  /\ in_flight' = in_flight + 1
  /\ UNCHANGED <<generation, wire_channel, staged, outbound, receiver, call,
                 history>>

Streamer(g) ==
  \/ Check(g) \/ Gate(g) \/ Wake(g) \/ Cancel(g)
  \/ NextFrame(g) \/ Exhausted(g)
  \/ Send(g) \/ SendFails(g) \/ Count(g)

-----------------------------------------------------------------------------

Control ==
  \/ \E c \in Channels : SetWireChannel(c)
  \/ StartReset \/ StartSpawn \/ StopBump \/ StopReset
  \/ OnMediaAck \/ Drain \/ Disconnect

Next == Control \/ \E g \in Generations : Streamer(g)

Spec == Init /\ [][Next]_vars

\* tokio runs every ready task, the source keeps its pace, and while the
\* control loop runs it finishes its calls and drains its queue.  Which
\* ready branch select! takes is random, so a cancellation that is ready
\* again and again is taken in the end: strong fairness for Cancel.  The
\* mpsc hands free slots to blocked senders in the order they asked: a task
\* blocked in send is not overtaken for ever, strong fairness for Send.
Fairness ==
  /\ WF_vars(StartSpawn) /\ WF_vars(StopReset) /\ WF_vars(Drain)
  /\ \A g \in Generations :
       /\ WF_vars(Streamer(g))
       /\ SF_vars(Cancel(g)) /\ SF_vars(Send(g))

FairSpec == Spec /\ Fairness

-----------------------------------------------------------------------------
(* Properties                                                              *)

\* A superseded streamer queues at most one more frame: the loop re-reads
\* the generation after every send, so STOP and re-START cost at most one
\* stale access unit per cancelled task, whatever the interleaving of the
\* cap test, the source, a full queue and the counter resets.
LateFrameBound == \A g \in Generations : late[g] <= 1

\* Flow control: since its START the current streamer is never more than
\* MaxInFlight frames ahead of the acks the control loop processed.  While
\* a re-START is half way (counter reset, generation not moved yet) the
\* streamer being replaced may run on a fresh counter.
WindowBound == call # "start" => ahead <= MaxInFlight

\* The pipeline implements the credit window it advertised.
Window == INSTANCE CreditWindow WITH
            Size   <- MaxInFlight,
            window <- IF call = "start" THEN 0 ELSE ahead

WindowSpec == Window!Spec

\* Cancellation takes effect: a task whose generation was superseded by a
\* STOP or a re-START returns in the end, whatever it was waiting for.
SupersededExit ==
  \A g \in Generations : (Live(g) /\ Superseded(g)) ~> ~Live(g)

-----------------------------------------------------------------------------
(* The inductive invariant behind LateFrameBound and WindowBound.          *)

\* Generations are numbered in the order they start.
FutureIdle ==
  \A g \in Generations : g > generation => streamer[g] = "idle" /\ late[g] = 0

\* A task that has queued a late frame cannot pass the loop head again.
LateOnce ==
  \A g \in Generations :
    late[g] # 0 => /\ late[g] = 1
                   /\ Superseded(g)
                   /\ streamer[g] \in {"count", "check", "exited"}

\* What the control loop has done so far in the call it is in.
CallHalfWay ==
  /\ call = "start" => generation < MaxGeneration
  /\ call = "stop" /\ generation \in Generations => ~Live(generation)

\* in_flight never under-counts the frames the current streamer is ahead,
\* except for the one it has sent and not counted yet.
Counted(s) ==
  /\ s \in {"check", "gate", "parked", "source", "send"} => ahead <= in_flight
  /\ s = "count" => ahead <= in_flight + 1
  /\ s \in {"source", "send"} => ahead < MaxInFlight

Accounting ==
  call # "start" =>
    /\ ahead <= MaxInFlight
    /\ generation \in Generations => Counted(streamer[generation])

IInv == TypeOK /\ FutureIdle /\ LateOnce /\ CallHalfWay /\ Accounting

=============================================================================
