------------------------------- MODULE Dispatch -------------------------------
(***************************************************************************)
(* What the control loop answers to a message: dispatch, dispatch_control  *)
(* and the handlers of the input, sensor, video, audio and navigation      *)
(* channels, as functions from a message to the messages sent back.        *)
(*                                                                         *)
(* A message is its channel byte, its id and the one argument its answer   *)
(* depends on.  Ids are the numbers on the wire: the same number means     *)
(* different things on different channels, and dispatch looks at the       *)
(* number before the channel.                                              *)
(***************************************************************************)
EXTENDS Naturals, SequencesExt

CONSTANTS
  Tables,       \* the service tables of the head units: name -> descriptors
  Garbled       \* the argument of a message whose body does not decode

\* ChannelId: our own canonical numbering.
Control == 0
Input == 1
Sensor == 2
Video == 3
AudioManaged == 4..7      \* what handle_frame gives to AudioChannelManager,
AudioStates == 4..6       \* and what that has a format for: not AvInput
ChannelBytes == 0..255

\* ControlMessageId.
VersionRequest == 1
VersionResponse == 2
SslHandshake == 3
AuthComplete == 4
ServiceDiscoveryRequest == 5
ServiceDiscoveryResponse == 6
ChannelOpenRequest == 7
ChannelOpenResponse == 8
PingRequest == 11
PingResponse == 12
NavigationFocusRequest == 13
NavigationFocusResponse == 14
ShutdownRequest == 15
ShutdownResponse == 16
VoiceSessionRequest == 17
AudioFocusRequest == 18
AudioFocusResponse == 19
BatteryStatus == 23
CallAvailability == 24
Unexpected == 255

\* Service messages 0x8000 to 0x8008, as the services call them.
Service(n) == 32768 + n
Setup == Service(0)          \* AV: SETUP_REQUEST
Start == Service(1)          \* AV: START; sensor: START_REQUEST; input: event
Stop == Service(2)           \* AV: STOP; sensor: START_RESPONSE; input: BINDING_REQUEST
SetupResponse == Service(3)  \* AV; sensor: EVENT_INDICATION; input: BINDING_RESPONSE
MediaAck == Service(4)
OpenInput == Service(5)      \* AV_INPUT_OPEN_REQUEST, or MicrophoneRequest
InputOpened == Service(6)    \* its response
VideoFocus == Service(8)

Message(ch, id, arg) == [ch |-> ch, id |-> id, arg |-> arg]

\* Arguments.
Ok == 0
Pcm == 1
H264 == 3
Granted == 1          \* AudioFocusState GAIN, NavigationFocus NATIVE

Decodes(m) == m.arg # Garbled
AnswerIf(m, answer) == IF Decodes(m) THEN <<answer>> ELSE <<>>

-----------------------------------------------------------------------------
(* ServiceDiscoveryResponse: the head unit's channels                      *)

\* A descriptor carries some of the sub-messages; the first of them in this
\* order says what it is.  The audio types are all treated alike.
classify_channel(d) ==
  IF "sensor" \in d.sub THEN "sensor"
  ELSE IF "av" \in d.sub THEN
    IF d.video_configs \/ d.stream = "video" THEN "video" ELSE "audio"
  ELSE IF "input" \in d.sub THEN "input"
  ELSE IF "av_input" \in d.sub THEN "av_input"
  ELSE IF "bluetooth" \in d.sub THEN "bluetooth"
  ELSE IF "navigation" \in d.sub THEN "navigation"
  ELSE "other"

\* Vendor extensions and descriptors that say nothing stay closed.
should_open(kind) == kind # "other"

setup_message_for(ch, kind) ==
  CASE kind = "audio" -> <<Message(ch, Setup, Pcm)>>
    [] kind = "video" -> <<Message(ch, Setup, H264)>>
    [] kind = "av_input" -> <<Message(ch, OpenInput, Ok)>>
    [] kind = "sensor" -> <<Message(ch, Start, Ok)>>
    [] kind = "input" -> <<Message(ch, Stop, Ok)>>
    [] OTHER -> <<>>

\* Mutant of Openings: the setup goes out ahead of its open.
OpeningsSetupFirst(d) ==
  IF should_open(classify_channel(d))
  THEN setup_message_for(d.id, classify_channel(d))
       \o <<Message(d.id, ChannelOpenRequest, d.id)>>
  ELSE <<>>

\* The open goes out on the channel's own byte, and its setup right after.
Openings(d) ==
  IF should_open(classify_channel(d))
  THEN <<Message(d.id, ChannelOpenRequest, d.id)>>
       \o setup_message_for(d.id, classify_channel(d))
  ELSE <<>>

\* The answer to the table of head unit hu.
OpenAll(hu) ==
  <<Message(Control, BatteryStatus, 100), Message(Control, CallAvailability, 0)>>
  \o FlattenSeq([k \in DOMAIN Tables[hu] |-> Openings(Tables[hu][k])])

-----------------------------------------------------------------------------
(* The handlers                                                            *)

\* Everything on channel 0.  A request that does not decode is an error and
\* gets no answer, but for NavigationFocusRequest, which is answered blind.
dispatch_control(m, hu) ==
  CASE m.id = ServiceDiscoveryResponse ->
         IF Decodes(m) THEN OpenAll(hu) ELSE <<>>
    [] m.id = PingRequest -> AnswerIf(m, Message(Control, PingResponse, m.arg))
    [] m.id = AudioFocusRequest ->
         AnswerIf(m, Message(Control, AudioFocusResponse, Granted))
    [] m.id = NavigationFocusRequest ->
         <<Message(Control, NavigationFocusResponse, Granted)>>
    [] m.id = ChannelOpenRequest ->
         AnswerIf(m, Message(Control, ChannelOpenResponse, Ok))
    [] m.id = ShutdownRequest -> <<Message(Control, ShutdownResponse, Ok)>>
    [] OTHER -> <<>>

\* Mutant of InputHandle: a binding is only logged.
InputHandleLogs(m) == <<>>

\* input::handle acknowledges a binding and logs everything else.
InputHandle(m) ==
  IF m.id = Stop THEN AnswerIf(m, Message(Input, SetupResponse, Ok)) ELSE <<>>

\* SensorHandler::handle acknowledges a subscription.
SensorHandle(m) ==
  IF m.id = Start THEN AnswerIf(m, Message(Sensor, Stop, Ok)) ELSE <<>>

\* video::handle and AudioChannelManager::handle, as far as they answer: the
\* latter ignores a channel that it has no format for.
VideoHandle(m) ==
  IF m.id = Setup THEN AnswerIf(m, Message(m.ch, SetupResponse, Ok)) ELSE <<>>
AudioHandle(m) ==
  CASE m.ch \in AudioStates /\ m.id = Setup ->
         AnswerIf(m, Message(m.ch, SetupResponse, Ok))
    [] m.ch \in AudioStates /\ m.id = OpenInput ->
         AnswerIf(m, Message(m.ch, InputOpened, Ok))
    [] OTHER -> <<>>

\* Answers that dispatch swallows or gives whatever the channel is.
CrossChannel(m) == m.id \in {ChannelOpenResponse, Unexpected}
Intercepted(m) ==
  \/ m.id \in {SetupResponse, VideoFocus}
  \/ m.id = AudioFocusResponse /\ m.ch = Control
  \/ m.id = Stop /\ m.ch = Sensor

\* dispatch: interceptions by id, then the handler of the channel.
dispatch(m, hu) ==
  CASE CrossChannel(m) -> <<>>
    [] m.id = VideoFocus -> <<Message(m.ch, Start, Ok)>>
    [] m.id # VideoFocus /\ Intercepted(m) -> <<>>
    [] OTHER ->
         CASE m.ch = Control -> dispatch_control(m, hu)
           [] m.ch = Input -> InputHandle(m)
           [] m.ch = Sensor -> SensorHandle(m)
           [] OTHER -> <<>>

\* handle_frame sends audio and video bytes to their own handlers, unless
\* the id is an answer to one of our opens.
Answers(m, hu) ==
  CASE ~CrossChannel(m) /\ m.ch \in AudioManaged -> AudioHandle(m)
    [] ~CrossChannel(m) /\ m.ch = Video -> VideoHandle(m)
    [] OTHER -> dispatch(m, hu)

\* A position in a SENSOR_EVENT_INDICATION is logged and passed on by
\* SensorHandler::handle, if the message gets there.
Logs(m) ==
  /\ ~CrossChannel(m) /\ ~Intercepted(m)
  /\ m.ch = Sensor /\ m.id = SetupResponse /\ Decodes(m)

=============================================================================
