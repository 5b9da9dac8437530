---------------------------- MODULE AudioChannels ----------------------------
(***************************************************************************)
(* The audio channels (channels/audio.rs): AudioChannelManager, which the  *)
(* control loop calls for every frame on an audio channel, the encoder     *)
(* tasks it spawns for an output channel (run_outbound_encoder), and the   *)
(* sinks it attaches to a channel the car records into.                    *)
(*                                                                         *)
(* An encoder and the manager share one watch channel: STOP sends TRUE on  *)
(* it, a replaced START too, and the end of the session drops its sender.  *)
(* The encoder looks at it only between two frames.  Handlers run one at a *)
(* time, in the control loop's task; the encoders and the flush tasks run  *)
(* beside them.                                                            *)
(***************************************************************************)
EXTENDS Naturals, Sequences

CONSTANTS
  Outputs,      \* channels we play on (MediaAudio)
  Inputs,       \* channels the car records into (SpeechAudio, SystemAudio)
  QueueCap,     \* capacity of the audio queue (64 in the code)
  MaxEncoders,  \* bound: START_INDICATIONs on output channels
  MaxData,      \* bound: data frames the car sends
  MaxFlushes    \* bound: flush tasks of a sink waiting to run

Channels == Outputs \cup Inputs
Encoders == 1..MaxEncoders
None == 0

ASSUME AudioAssumption ==
  /\ Outputs \cap Inputs = {}
  /\ QueueCap \in Nat \ {0}
  /\ MaxEncoders \in Nat
  /\ MaxData \in Nat
  /\ MaxFlushes \in Nat \ {0}
  /\ None \notin Outputs


VARIABLES
  manager,     \* run() holds the AudioChannelManager and the queue's receiver
  started,     \* AudioChannelState::started
  stop_tx,     \* AudioChannelState::stop_tx: the encoder whose sender it is
  sink,        \* AudioChannelState::sink is attached
  starting,    \* the channel whose on_start_indication is half way
  spawned,     \* encoders spawned so far
  owner,       \* the channel an encoder was spawned for
  encoder,     \* where each encoder is
  signalled,   \* TRUE was sent on the encoder's watch channel
  queue,       \* the audio queue: the encoder each message came from
  written,     \* frames pushed to each sink
  flushed,     \* how many of them its last flush wrote out
  flushes      \* flush tasks spawned and not run yet

tables == <<started, stop_tx, sink>>
tasks == <<spawned, owner, encoder, signalled>>
files == <<written, flushed, flushes>>

(* History: what the car may expect, and what it got. *)
VARIABLES
  late,        \* frames each encoder queued after it was told to stop
  sent,        \* data frames the car sent
  opened,      \* channels the car has ever opened with AV_INPUT_OPEN_REQUEST
  marked,      \* frames in each sink when its channel was last stopped
  failed,      \* frames in each sink when a flush of it last failed
  held,        \* those of them it opened or started last, not stopped
  owed         \* data frames sent on a channel the car holds open, not acked

history == <<late, sent, opened, marked, failed, held, owed>>
vars == <<manager, starting, queue, tables, tasks, files, history>>

TypeOK ==
  /\ manager \in BOOLEAN
  /\ started \in [Channels -> BOOLEAN]
  /\ stop_tx \in [Channels -> Encoders \cup {None}]
  /\ sink \in [Channels -> BOOLEAN]
  /\ starting \in Outputs \cup {None}
  /\ spawned \in 0..MaxEncoders
  /\ owner \in [Encoders -> Outputs \cup {None}]
  /\ encoder \in [Encoders -> {"unborn", "select", "send", "exited"}]
  /\ signalled \in [Encoders -> BOOLEAN]
  /\ queue \in Seq(Encoders) /\ Len(queue) <= QueueCap
  /\ written \in [Channels -> Nat]
  /\ flushed \in [Channels -> Nat]
  /\ flushes \in [Channels -> Nat]
  /\ late \in [Encoders -> Nat]
  /\ sent \in 0..MaxData
  /\ opened \subseteq Channels /\ held \subseteq opened
  /\ owed \in [Channels -> Nat]
  /\ marked \in [Channels -> Nat]
  /\ failed \in [Channels -> Nat]

Init ==
  /\ manager = TRUE
  /\ started = [c \in Channels |-> FALSE]
  /\ stop_tx = [c \in Channels |-> None]
  /\ sink = [c \in Channels |-> FALSE]
  /\ starting = None
  /\ spawned = 0
  /\ owner = [e \in Encoders |-> None]
  /\ encoder = [e \in Encoders |-> "unborn"]
  /\ signalled = [e \in Encoders |-> FALSE]
  /\ queue = <<>>
  /\ written = [c \in Channels |-> 0]
  /\ flushed = [c \in Channels |-> 0]
  /\ flushes = [c \in Channels |-> 0]
  /\ late = [e \in Encoders |-> 0]
  /\ sent = 0
  /\ opened = {}
  /\ held = {}
  /\ owed = [c \in Channels |-> 0]
  /\ marked = [c \in Channels |-> 0]
  /\ failed = [c \in Channels |-> 0]

\* The control loop may hand the manager its next frame.
Idle == manager /\ starting = None

\* stop_rx.changed() is ready: TRUE was sent, or the sender is gone.
SeesStop(e) == signalled[e] \/ \A c \in Channels : stop_tx[c] # e

-----------------------------------------------------------------------------
(* AudioChannelManager::handle                                             *)

\* History: what the car makes of its own START, STOP and OPEN.
CarHolds(c, holds) == held' = IF holds THEN held \cup {c} ELSE held \ {c}

\* take() the sender and send TRUE on it.
SignalStop(c) ==
  /\ stop_tx' = [stop_tx EXCEPT ![c] = None]
  /\ signalled' = [e \in Encoders |-> signalled[e] \/ e = stop_tx[c]]

\* on_start_indication, Output: stop the previous encoder, drop the lock.
StartTakesOver(c) ==
  /\ Idle
  /\ c \in Outputs
  /\ spawned < MaxEncoders
  /\ SignalStop(c)
  /\ starting' = c
  /\ CarHolds(c, c \in opened)
  /\ UNCHANGED <<manager, queue, started, sink, spawned, owner, encoder,
                 files, late, sent, opened, marked, failed, owed>>

\* ... then build a source, lock again, store the new sender, spawn.
StartSpawns(c) ==
  LET e == spawned + 1 IN
  /\ starting = c /\ c # None
  /\ starting' = None
  /\ started' = [started EXCEPT ![c] = TRUE]
  /\ stop_tx' = [stop_tx EXCEPT ![c] = e]
  /\ spawned' = e
  /\ owner' = [owner EXCEPT ![e] = c]
  /\ encoder' = [encoder EXCEPT ![e] = "select"]
  /\ UNCHANGED <<manager, queue, sink, signalled, files, history>>

\* Mutant of StartInput: START replaces the sink it should have kept.
StartInputDropsSink(c) ==
  /\ Idle
  /\ c \in Inputs
  /\ started' = [started EXCEPT ![c] = TRUE]
  /\ sink' = [sink EXCEPT ![c] = FALSE]
  /\ CarHolds(c, c \in opened)
  /\ UNCHANGED <<manager, starting, queue, stop_tx, tasks, files, late, sent,
                 opened, marked, failed, owed>>

\* on_start_indication, Input: ready for data, but no sink is attached here.
StartInput(c) ==
  /\ Idle
  /\ c \in Inputs
  /\ started' = [started EXCEPT ![c] = TRUE]
  /\ CarHolds(c, c \in opened)
  /\ UNCHANGED <<manager, starting, queue, stop_tx, sink, tasks, files, late,
                 sent, opened, marked, failed, owed>>

\* History: what a STOP is to flush.
Mark(c) == marked' = [marked EXCEPT ![c] = written[c]]

\* Mutant of Stop: the sink is not flushed.
StopWithoutFlush(c) ==
  /\ Idle
  /\ started' = [started EXCEPT ![c] = FALSE]
  /\ SignalStop(c)
  /\ CarHolds(c, FALSE) /\ Mark(c)
  /\ UNCHANGED <<manager, starting, queue, sink, spawned, owner, encoder,
                 files, late, sent, opened, failed, owed>>

\* on_stop_indication.  The sink stays attached and is flushed by a task.
Stop(c) ==
  /\ Idle
  /\ sink[c] => flushes[c] < MaxFlushes
  /\ started' = [started EXCEPT ![c] = FALSE]
  /\ SignalStop(c)
  /\ flushes' = [flushes EXCEPT ![c] = IF sink[c] THEN @ + 1 ELSE @]
  /\ CarHolds(c, FALSE) /\ Mark(c)
  /\ UNCHANGED <<manager, starting, queue, sink, spawned, owner, encoder,
                 written, flushed, late, sent, opened, failed, owed>>

\* on_input_open, on any audio channel: attach a sink the first time, answer.
InputOpen(c, open) ==
  /\ Idle
  /\ sink' = [sink EXCEPT ![c] = TRUE]
  /\ started' = [started EXCEPT ![c] = open]
  /\ opened' = opened \cup {c}
  /\ CarHolds(c, open)
  /\ UNCHANGED <<manager, starting, queue, stop_tx, tasks, files, late, sent,
                 marked, failed, owed>>

\* A frame is decoded only on a started channel with a sink; a timed frame
\* without its timestamp is an error.
Accepted(c, wellFormed) == started[c] /\ sink[c] /\ wellFormed

\* on_data_frame: push to the sink and ack.  A failed push is logged and the
\* frame acked all the same; an unaccepted frame is dropped without an ack.
DataFrame(c, wellFormed) ==
  /\ Idle
  /\ sent < MaxData
  /\ sent' = sent + 1
  /\ IF Accepted(c, wellFormed)
     THEN /\ \/ written' = [written EXCEPT ![c] = @ + 1]
             \/ UNCHANGED written
          /\ UNCHANGED owed
     ELSE /\ owed' = IF c \in held /\ wellFormed
                     THEN [owed EXCEPT ![c] = @ + 1] ELSE owed
          /\ UNCHANGED written
  /\ UNCHANGED <<manager, starting, queue, tables, tasks, flushed, flushes,
                 late, opened, marked, failed, held>>

\* A flush task runs and the sink takes everything it holds,
RunFlush(c) ==
  /\ flushes[c] > 0
  /\ flushes' = [flushes EXCEPT ![c] = @ - 1]
  /\ flushed' = [flushed EXCEPT ![c] = written[c]]
  /\ UNCHANGED <<manager, starting, queue, tables, tasks, written, history>>

\* or it fails: the error is logged, nothing tries again before the next STOP.
FlushFails(c) ==
  /\ flushes[c] > 0
  /\ flushes' = [flushes EXCEPT ![c] = @ - 1]
  /\ failed' = [failed EXCEPT ![c] = written[c]]
  /\ UNCHANGED <<manager, starting, queue, tables, tasks, written, flushed,
                 late, sent, opened, marked, held, owed>>

-----------------------------------------------------------------------------
(* run_outbound_encoder                                                    *)

\* Mutant of Select: the source is polled before the stop signal.
SelectUnbiased(e) ==
  /\ encoder[e] = "select"
  /\ \/ encoder' = [encoder EXCEPT ![e] = "send"]
     \/ SeesStop(e) /\ encoder' = [encoder EXCEPT ![e] = "exited"]
  /\ UNCHANGED <<manager, starting, queue, tables, spawned, owner, signalled,
                 files, history>>

\* The biased select!: the stop signal first, then the source, which is
\* always ready with a frame, with None or with an error.
Select(e) ==
  /\ encoder[e] = "select"
  /\ \/ ~SeesStop(e) /\ encoder' = [encoder EXCEPT ![e] = "send"]
     \/ encoder' = [encoder EXCEPT ![e] = "exited"]
  /\ UNCHANGED <<manager, starting, queue, tables, spawned, owner, signalled,
                 files, history>>

\* out_tx.send(..).await completes: nothing else is looked at while it waits.
Send(e) ==
  /\ encoder[e] = "send"
  /\ manager
  /\ Len(queue) < QueueCap
  /\ queue' = Append(queue, e)
  /\ encoder' = [encoder EXCEPT ![e] = "select"]
  /\ late' = IF SeesStop(e) THEN [late EXCEPT ![e] = @ + 1] ELSE late
  /\ UNCHANGED <<manager, starting, tables, spawned, owner, signalled, files,
                 sent, opened, marked, failed, held, owed>>

\* Mutant of SendFails: a failed send is logged and the encoder goes on.
SendFailsIsLogged(e) ==
  /\ encoder[e] = "send"
  /\ ~manager
  /\ UNCHANGED vars

\* ... or the receiver is gone.
SendFails(e) ==
  /\ encoder[e] = "send"
  /\ ~manager
  /\ encoder' = [encoder EXCEPT ![e] = "exited"]
  /\ UNCHANGED <<manager, starting, queue, tables, spawned, owner, signalled,
                 files, history>>

-----------------------------------------------------------------------------
(* The control loop                                                        *)

\* The audio branch takes a message and writes it.
Drain ==
  /\ Idle
  /\ queue # <<>>
  /\ queue' = Tail(queue)
  /\ UNCHANGED <<manager, starting, tables, tasks, files, history>>

\* run() returns: manager and receiver are dropped, and the senders with them.
SessionEnds ==
  /\ Idle
  /\ manager' = FALSE
  /\ queue' = <<>>
  /\ stop_tx' = [c \in Channels |-> None]
  /\ UNCHANGED <<starting, started, sink, tasks, files, history>>

\* The commands run the session in a runtime of their own and drop it when
\* run() has returned: whatever it had spawned is discarded where it waits.
RuntimeDropped ==
  /\ ~manager
  /\ flushes' = [c \in Channels |-> 0]
  /\ encoder' = [e \in Encoders |->
       IF encoder[e] = "unborn" THEN "unborn" ELSE "exited"]
  /\ UNCHANGED <<manager, starting, queue, tables, spawned, owner, signalled,
                 written, flushed, history>>

\* A car records on the input channels only; the handlers do not check it.
Handler ==
  \/ \E c \in Channels : StartTakesOver(c) \/ StartInput(c) \/ Stop(c)
  \/ \E c \in Inputs, open \in BOOLEAN : InputOpen(c, open)
  \/ \E c \in Inputs, wellFormed \in BOOLEAN : DataFrame(c, wellFormed)

Encoder(e) == Select(e) \/ Send(e) \/ SendFails(e)

Next ==
  \/ Handler \/ Drain \/ SessionEnds \/ RuntimeDropped
  \/ \E c \in Channels : StartSpawns(c) \/ RunFlush(c) \/ FlushFails(c)
  \/ \E e \in Encoders : Encoder(e)

Spec == Init /\ [][Next]_vars

\* The tasks are polled when they are ready; an encoder that waits for room in
\* the queue gets it in turn, since the semaphore of tokio's mpsc is fair; the
\* loop comes back to its select! and drains.  The source may be endless, and
\* nothing is assumed of the car, of the outcome of a flush, or of when the
\* runtime goes.
Fairness ==
  /\ \A c \in Channels :
       WF_vars(StartSpawns(c)) /\ WF_vars(RunFlush(c) \/ FlushFails(c))
  /\ WF_vars(Drain)
  /\ \A e \in Encoders : WF_vars(Encoder(e)) /\ SF_vars(Send(e))

FairSpec == Spec /\ Fairness

-----------------------------------------------------------------------------
(* Properties                                                              *)

\* An encoder that was stopped, replaced or orphaned queues at most the one
\* frame it had already taken from its source.
LateFrameBound == \A e \in Encoders : late[e] <= 1

\* Once the car has opened a channel, no well-formed frame it sends while it
\* keeps the channel started goes without an ack, whatever sequence of START,
\* STOP and OPEN came before: its window does not run dry.
HeldOpenIsAcked == \A c \in Channels : owed[c] = 0

\* A stopped encoder exits, even one that waits for room in the queue; so
\* does one whose channel's state went with the session.
StopEnds ==
  \A e \in Encoders :
    (encoder[e] # "unborn" /\ SeesStop(e)) ~> encoder[e] = "exited"

\* What was recorded up to a STOP is flushed, whatever is recorded and stopped
\* again meanwhile, unless a flush of it fails or the session ends first: the
\* flush is a detached task, and the runtime does not wait for it.
StopFlushes ==
  \A c \in Channels : \A n \in 1..MaxData :
    marked[c] = n ~> flushed[c] >= n \/ failed[c] >= n \/ ~manager

=============================================================================
