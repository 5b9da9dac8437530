--------------------------- MODULE HeadUnitSession ---------------------------
(***************************************************************************)
(* The video half of a projection session: handle_frame of                 *)
(* control_channel.rs, the video channel handler of channels/video/mod.rs  *)
(* and the VideoPipeline they drive, facing a head unit that assigns       *)
(* channel bytes as it likes.                                              *)
(*                                                                         *)
(* handle_frame looks at the message id before it looks at the channel:    *)
(* three ids reach the pipeline from there, and the channel handler that   *)
(* the frame is then routed to may call the pipeline once more.            *)
(***************************************************************************)
EXTENDS VideoPipeline, FiniteSets

CONSTANTS
  VideoByte,    \* the channel byte the head unit assigned to its video sink
  SensorByte,   \* ... to its sensor source
  AudioBytes,   \* ... to the audio sinks whose frames it acknowledges
  HUMessages,   \* which of "VideoFocus" and "Start" this head unit sends
  MaxLost,      \* bound: messages that send_encrypted fails to write
  MaxStray,     \* bound: acks of audio frames
  MaxWire       \* bound: how many unacknowledged frames the wire holds

ASSUME SessionAssumption ==
  /\ VideoByte \in Channels
  /\ HUMessages \subseteq {"VideoFocus", "Start"}
  /\ MaxLost \in Nat
  /\ MaxStray \in Nat
  /\ MaxWire \in Nat \ {0}

\* ChannelId of aabox-common: our own canonical numbering.
VideoId == 3
AudioManaged == 4..7    \* MediaAudio, SpeechAudio, SystemAudio, AvInput

\* The message ids handle_frame tells apart for video:
\*   VideoFocus 0x8008   MediaAck 0x8004   Start 0x8001
\*   Stop 0x8002, which is a SensorStartResponse on the sensor channel
MessageIds == {"VideoFocus", "MediaAck", "Start", "Stop"}

Bytes == Channels \cup AudioBytes \cup {SensorByte}

VARIABLES
  frame,       \* the inbound frame being handled
  todo,        \* the calls handle_frame still has to make for it
  wire,        \* video frames written and not yet acknowledged
  announced    \* generations whose Start message was written

\* History variables: they only bound the head unit and the link.
VARIABLES
  lost,        \* video frames and Start messages that were not written
  stray        \* acks of audio frames that were handled

session == <<frame, todo, wire, announced, lost, stray>>
sessionVars == <<vars, session>>

InboundFrame == [channel : Bytes, msg : MessageIds] \cup {<<>>}

SessionTypeOK ==
  /\ TypeOK
  /\ frame \in InboundFrame
  /\ todo \in Seq({"start", "stop", "ack", "reply"})
  /\ wire \in Seq(Frame)
  /\ announced \subseteq Generations
  /\ lost \in 0..MaxLost
  /\ stray \in 0..MaxStray

SessionInit ==
  /\ Init
  /\ frame = <<>>
  /\ todo = <<>>
  /\ wire = <<>>
  /\ announced = {}
  /\ lost = 0
  /\ stray = 0

\* The loop is at its select!.
AtSelect == ControlIdle /\ todo = <<>>

\* Mutant of Intercepted: 0x8002 stops the pipeline on any channel.
InterceptedAnyStop(ch, msg) ==
  CASE msg = "VideoFocus" -> <<"start">>
    [] msg = "MediaAck" -> <<"ack">>
    [] msg = "Stop" -> <<"stop">>
    [] OTHER -> <<>>

\* Mutant of Intercepted: acks are left to the channel handlers.
InterceptedNoAck(ch, msg) ==
  CASE msg = "VideoFocus" -> <<"start">>
    [] msg = "Stop" -> IF ch = wire_channel THEN <<"stop">> ELSE <<>>
    [] OTHER -> <<>>

\* What handle_frame itself asks of the pipeline, on any channel.
Intercepted(ch, msg) ==
  CASE msg = "VideoFocus" -> <<"start">>
    [] msg = "MediaAck" -> <<"ack">>
    [] msg = "Stop" -> IF ch = wire_channel THEN <<"stop">> ELSE <<>>
    [] OTHER -> <<>>

\* Mutant of Routed: nobody answers a VideoFocusNotification.
RoutedWithoutReply(ch, msg) ==
  CASE ch = VideoId /\ msg = "MediaAck" -> <<"ack">>
    [] ch = VideoId /\ msg = "Stop" -> <<"stop">>
    [] ch = VideoId /\ msg = "Start" -> <<"start">>
    [] OTHER -> <<>>

\* What the handler the frame is routed to does: video::handle on channel 3,
\* nothing for video on the audio channels, dispatch elsewhere, which
\* answers a VideoFocusNotification with our Start.
Routed(ch, msg) ==
  CASE ch = VideoId /\ msg = "MediaAck" -> <<"ack">>
    [] ch = VideoId /\ msg = "Stop" -> <<"stop">>
    [] ch = VideoId /\ msg = "Start" -> <<"start">>
    [] ch \notin AudioManaged \cup {VideoId} /\ msg = "VideoFocus" -> <<"reply">>
    [] OTHER -> <<>>

Calls(ch, msg) == Intercepted(ch, msg) \o Routed(ch, msg)

\* Bound: only frames that keep the generation within MaxGeneration.
Bumps(calls) ==
  Len(SelectSeq(calls, LAMBDA c : c \in {"start", "stop"}))

\* Mutant of HandleFrame: the assigned channel byte is not recorded.
HandleFrameForgetsChannel(ch, msg) ==
  /\ AtSelect
  /\ generation + Bumps(Calls(ch, msg)) <= MaxGeneration
  /\ todo' = Calls(ch, msg)
  /\ frame' = IF todo' = <<>> THEN <<>> ELSE [channel |-> ch, msg |-> msg]
  /\ UNCHANGED <<vars, announced, lost>>

\* Mutant of HandleFrame: a VideoFocusNotification resets the counter itself.
HandleFrameResetsCounter(ch, msg) ==
  /\ AtSelect
  /\ generation + Bumps(Calls(ch, msg)) <= MaxGeneration
  /\ todo' = Calls(ch, msg)
  /\ frame' = IF todo' = <<>> THEN <<>> ELSE [channel |-> ch, msg |-> msg]
  /\ wire_channel' = IF msg = "VideoFocus" THEN ch ELSE wire_channel
  /\ in_flight' = IF msg = "VideoFocus" THEN 0 ELSE in_flight
  /\ UNCHANGED <<generation, streamer, staged, outbound, receiver, call,
                 history, announced, lost>>

HandleFrame(ch, msg) ==
  /\ AtSelect
  /\ generation + Bumps(Calls(ch, msg)) <= MaxGeneration
  /\ todo' = Calls(ch, msg)
  /\ frame' = IF todo' = <<>> THEN <<>> ELSE [channel |-> ch, msg |-> msg]
  /\ wire_channel' = IF msg = "VideoFocus" THEN ch ELSE wire_channel
  /\ UNCHANGED <<generation, in_flight, streamer, staged, outbound, receiver,
                 call, history, announced, lost>>

\* The message is written, or send_encrypted fails and the loop goes on.
Written == UNCHANGED lost
NotWritten == lost < MaxLost /\ lost' = lost + 1

\* The next of the calls.
RunCall ==
  /\ todo # <<>>
  /\ \/ /\ \/ Head(todo) = "start" /\ StartReset
           \/ Head(todo) = "stop" /\ StopBump
           \/ Head(todo) = "ack" /\ OnMediaAck
        /\ UNCHANGED <<announced, lost>>
     \/ /\ Head(todo) = "reply" /\ ControlIdle
        /\ \/ Written /\ announced' = announced \cup {generation}
           \/ NotWritten /\ UNCHANGED announced
        /\ UNCHANGED vars
  /\ todo' = Tail(todo)
  /\ frame' = IF todo' = <<>> /\ call' = "none" THEN <<>> ELSE frame
  /\ UNCHANGED <<wire, stray>>

\* The second half of a start() or stop().
FinishCall ==
  /\ StartSpawn \/ StopReset
  /\ frame' = IF todo = <<>> THEN <<>> ELSE frame
  /\ UNCHANGED <<todo, wire, announced, lost, stray>>

\* The loop writes the next video frame; a failed send is only logged.
DrainVideo ==
  /\ AtSelect
  /\ Len(wire) < MaxWire
  /\ Drain
  /\ \/ Written /\ wire' = Append(wire, Head(outbound))
     \/ NotWritten /\ UNCHANGED wire
  /\ UNCHANGED <<frame, todo, announced, stray>>

\* read_frame fails: run() returns.
SessionEnds ==
  /\ AtSelect
  /\ Disconnect
  /\ UNCHANGED session

StreamerStep(g) == Streamer(g) /\ UNCHANGED session

-----------------------------------------------------------------------------
(* The head unit.  What it sends is handled when the loop reads it.        *)

\* VideoFocusNotification, unsolicited, on its video channel.
HUFocus ==
  /\ "VideoFocus" \in HUMessages
  /\ HandleFrame(VideoByte, "VideoFocus")
  /\ UNCHANGED <<wire, stray>>

\* A head unit of the older dialect starts the stream itself.
HUStart ==
  /\ "Start" \in HUMessages
  /\ HandleFrame(VideoByte, "Start")
  /\ UNCHANGED <<wire, stray>>

HUStop == HandleFrame(VideoByte, "Stop") /\ UNCHANGED <<wire, stray>>

\* One AVMediaAckIndication for each video frame it receives, in order.  A
\* frame on a channel it never assigned is ignored, and stays unacked.
HUAck ==
  /\ wire # <<>>
  /\ Head(wire).channel = VideoByte
  /\ HandleFrame(VideoByte, "MediaAck")
  /\ wire' = Tail(wire)
  /\ UNCHANGED stray

\* The ack of an audio frame.
HUAudioAck ==
  /\ stray < MaxStray
  /\ \E b \in AudioBytes : HandleFrame(b, "MediaAck")
  /\ stray' = stray + 1
  /\ UNCHANGED wire

\* SensorStartResponse, the answer to our SensorStartRequest.
HUSensorResponse ==
  HandleFrame(SensorByte, "Stop") /\ UNCHANGED <<wire, stray>>

-----------------------------------------------------------------------------

SessionNext ==
  \/ HUFocus \/ HUStart \/ HUStop \/ HUAck \/ HUAudioAck \/ HUSensorResponse
  \/ RunCall \/ FinishCall \/ DrainVideo \/ SessionEnds
  \/ \E g \in Generations : StreamerStep(g)

SessionSpec == SessionInit /\ [][SessionNext]_sessionVars

\* The control loop's task and the streamers run; the head unit acks what
\* it receives.  Starting and stopping the stream is up to the head unit.
SessionFairness ==
  /\ WF_sessionVars(RunCall) /\ WF_sessionVars(FinishCall)
  /\ SF_sessionVars(DrainVideo)
  /\ SF_sessionVars(HUAck)
  /\ \A g \in Generations :
       /\ WF_sessionVars(StreamerStep(g))
       /\ SF_sessionVars(Cancel(g) /\ UNCHANGED session)

FairSessionSpec == SessionSpec /\ SessionFairness

-----------------------------------------------------------------------------
(* Properties                                                              *)

\* The session uses the pipeline only through its calls: handle_frame's
\* double dispatch is still a sequence of whole start/stop/ack calls, so
\* whatever holds of the pipeline alone holds of it in a session.
PipelineSpec == Spec

\* Video frames are written on the channel the head unit assigned, and the
\* head unit sees our Start before the first frame of the stream it
\* announces: handle_frame replies before the loop drains the new queue.
\* Only a Start that could not be written leaves a stream unannounced.
FramesAnnounced ==
  \A i \in DOMAIN wire :
    /\ wire[i].channel = VideoByte
    /\ lost = 0 => wire[i].gen \in announced

\* Only a frame of the current video channel stops the pipeline: 0x8002
\* means something else everywhere else.
StopFromVideoChannel ==
  call = "stop" => frame # <<>> /\ frame.channel = wire_channel

\* The head unit is never owed acks for more than max_unacked frames, as
\* long as streaming is not restarted: but for the acks of audio frames, each
\* of which lets the streamer send one more.
Unacked == Len(outbound) + Len(wire)
UnackedBound ==
  generation <= 1 /\ call # "start" => Unacked <= MaxInFlight + stray

\* An ack that overtakes the streamer's own fetch_add is lost to the
\* saturating decrement, and the slot with it.  It takes in_flight = 0, so a
\* streamer can lose one slot and no more; a frame that could not be written
\* costs one too, since nobody will ack it.  With max_unacked above the number
\* of both the pipeline always finds a free slot again.
PendingAcks == Cardinality({k \in DOMAIN todo : todo[k] = "ack"})
SlotLeakBound ==
  receiver => in_flight <= Unacked + PendingAcks + generation + lost

\* A streamer held back by the cap gets its next frame out or exits, as
\* long as the head unit keeps acking, the session lasts, and the slots lost
\* to overtaken acks and failed writes are fewer than max_unacked.
NoStall ==
  \A g \in Generations :
    streamer[g] \in {"gate", "parked"} ~>
      \/ streamer[g] \in {"source", "exited"}
      \/ ~receiver
      \/ generation + lost >= MaxInFlight

=============================================================================
