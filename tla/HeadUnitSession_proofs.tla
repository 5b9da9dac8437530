----------------------- MODULE HeadUnitSession_proofs -----------------------
(***************************************************************************)
(* Proofs about the video pipeline and the session that drives it, for     *)
(* every number of generations, every cap and queue capacity.              *)
(*                                                                         *)
(* First the pipeline alone: its inductive invariant IInv, and the credit  *)
(* window it implements.  Then the session: for every head unit, every     *)
(* channel assignment and every choice of what it sends, handle_frame      *)
(* reaches the pipeline only through whole calls, so what holds of the     *)
(* pipeline holds in every session.  With a head unit whose channel bytes  *)
(* do not collide with our own ids, only its video channel stops the       *)
(* stream, and every stream is announced first.  Last, flow control end to *)
(* end: what the head unit is owed, and the slots that can be lost.        *)
(***************************************************************************)
EXTENDS HeadUnitSession, SequenceTheorems, FiniteSetTheorems, TLAPS

-----------------------------------------------------------------------------
(* The pipeline.                                                           *)

\* Appending to and taking from the bounded queue keep it a queue of frames.
LEMMA QueueAppend ==
  ASSUME NEW q \in Seq(Frame), NEW f \in Frame
  PROVE  Append(q, f) \in Seq(Frame) /\ Len(Append(q, f)) = Len(q) + 1
OBVIOUS

\* A queue of frames that loses one.
LEMMA QueueTail ==
  ASSUME NEW q \in Seq(Frame), q # <<>>
  PROVE  Tail(q) \in Seq(Frame) /\ Len(Tail(q)) = Len(q) - 1
OBVIOUS

\* IInv holds initially.
LEMMA InitInv == Init => IInv
<1> SUFFICES ASSUME Init PROVE IInv
  OBVIOUS
<1> USE ConstantsAssumption DEF Init
<1>1. TypeOK
  BY DEF TypeOK, StreamerState
<1>2. FutureIdle /\ LateOnce
  BY DEF FutureIdle, LateOnce
<1>3. CallHalfWay /\ Accounting
  BY DEF CallHalfWay, Accounting, Generations
<1> QED
  BY <1>1, <1>2, <1>3 DEF IInv

-----------------------------------------------------------------------------
(* TypeOK is preserved.                                                    *)

\* The loop's calls keep the types,
LEMMA ControlTypeOK ==
  ASSUME IInv, Control
  PROVE  TypeOK'
<1> USE ConstantsAssumption DEF IInv, TypeOK, ControlIdle, pipeline, history
<1>1. ASSUME NEW c \in Channels, SetWireChannel(c) PROVE TypeOK'
  BY <1>1 DEF SetWireChannel
<1>2. CASE StartReset
  BY <1>2 DEF StartReset
<1>3. CASE StartSpawn
  <2>1. generation + 1 \in 0..MaxGeneration
    BY <1>3 DEF StartSpawn, CallHalfWay
  <2>2. streamer' \in [Generations -> StreamerState]
    BY <1>3 DEF StartSpawn, StreamerState
  <2> QED
    BY <1>3, <2>1, <2>2 DEF StartSpawn
<1>4. CASE StopBump
  BY <1>4 DEF StopBump
<1>5. CASE StopReset
  BY <1>5 DEF StopReset
<1>6. CASE OnMediaAck
  BY <1>6 DEF OnMediaAck, Released
<1>7. CASE Drain
  BY <1>7, QueueTail DEF Drain
<1>8. CASE Disconnect
  <2>1. outbound' \in Seq(Frame) /\ Len(outbound') <= OutboundCap
    <3> HIDE DEF IInv, TypeOK
    <3>1. outbound' = <<>>
      BY <1>8 DEF Disconnect
    <3> QED
      BY <3>1
  <2> QED
    BY <1>8, <2>1 DEF Disconnect
<1> QED
  BY <1>1, <1>2, <1>3, <1>4, <1>5, <1>6, <1>7, <1>8 DEF Control

\* and so do the streamers.
LEMMA StreamerTypeOK ==
  ASSUME IInv, NEW g \in Generations, Streamer(g)
  PROVE  TypeOK'
<1> USE ConstantsAssumption
    DEF IInv, TypeOK, Goto, pipeline, history, StreamerState
<1>1. CASE Check(g) \/ Gate(g) \/ Wake(g) \/ Cancel(g)
  BY <1>1 DEF Check, Gate, Wake, Cancel
<1>2. CASE NextFrame(g)
  BY <1>2 DEF NextFrame
<1>3. CASE Exhausted(g) \/ SendFails(g)
  BY <1>3 DEF Exhausted, SendFails
<1>4. CASE Count(g)
  BY <1>4 DEF Count
<1>5. CASE Send(g)
  <2> DEFINE f == [gen |-> g, channel |-> staged[g]]
  <2>1. f \in Frame
    BY DEF Frame
  <2>2. outbound' \in Seq(Frame) /\ Len(outbound') <= OutboundCap
    <3>1. outbound' = Append(outbound, f)
      BY <1>5 DEF Send
    <3> HIDE DEF f
    <3>2. Len(outbound') = Len(outbound) + 1 /\ outbound' \in Seq(Frame)
      BY <2>1, <3>1, QueueAppend
    <3>3. Len(outbound) < OutboundCap /\ Len(outbound) \in Nat
      BY <1>5 DEF Send
    <3> QED
      BY <3>2, <3>3
  <2>3. ahead' \in Nat /\ late' \in [Generations -> Nat]
    BY <1>5 DEF Send
  <2> QED
    BY <1>5, <2>2, <2>3 DEF Send
<1> QED
  BY <1>1, <1>2, <1>3, <1>4, <1>5 DEF Streamer

-----------------------------------------------------------------------------
(* The rest of the invariant is preserved.                                 *)

\* The loop's calls keep the other parts of IInv,
LEMMA ControlInv ==
  ASSUME IInv, Control
  PROVE  (FutureIdle /\ LateOnce /\ CallHalfWay /\ Accounting)'
<1> USE ConstantsAssumption
    DEF IInv, TypeOK, ControlIdle, pipeline, history, Generations
<1> USE DEF FutureIdle, LateOnce, CallHalfWay, Accounting, Counted, Superseded,
            Live
<1>1. ASSUME NEW c \in Channels, SetWireChannel(c)
      PROVE  (FutureIdle /\ LateOnce /\ CallHalfWay /\ Accounting)'
  BY <1>1 DEF SetWireChannel
<1>2. CASE StartReset
  BY <1>2 DEF StartReset
<1>3. CASE StartSpawn
  <2>1. generation' = generation + 1 /\ generation + 1 \in Generations
    BY <1>3 DEF StartSpawn
  <2>2. \A g \in Generations : g > generation + 1 =>
          streamer'[g] = streamer[g]
    BY <1>3, <2>1 DEF StartSpawn
  <2>3. FutureIdle' /\ LateOnce'
    BY <1>3, <2>1, <2>2 DEF StartSpawn
  <2>4. CallHalfWay' /\ Accounting'
    BY <1>3, <2>1 DEF StartSpawn
  <2> QED
    BY <2>3, <2>4
<1>4. CASE StopBump
  <2>1. /\ generation < MaxGeneration /\ generation \in Nat /\ MaxGeneration \in Nat
        /\ call' = "stop" /\ ahead' = ahead
        /\ UNCHANGED <<streamer, late, in_flight>>
    BY <1>4 DEF StopBump
  <2>2. CASE generation' = generation + 1
    <3>1. generation' \in Generations /\ streamer'[generation'] = "idle"
      BY <2>1, <2>2
    <3>2. FutureIdle' /\ LateOnce'
      BY <2>1, <2>2
    <3>3. CallHalfWay' /\ Accounting'
      BY <1>4, <2>1, <3>1 DEF StopBump
    <3> QED
      BY <3>2, <3>3
  <2>3. CASE generation' = generation /\ \A g \in Generations : ~Live(g)
    <3>1. FutureIdle' /\ LateOnce'
      BY <2>1, <2>3
    <3>2. CallHalfWay' /\ Accounting'
      BY <1>4, <2>1, <2>3 DEF StopBump
    <3> QED
      BY <3>1, <3>2
  <2> QED
    BY <1>4, <2>2, <2>3 DEF StopBump
<1>5. CASE StopReset
  BY <1>5 DEF StopReset
<1>6. CASE OnMediaAck
  <2>1. FutureIdle' /\ LateOnce' /\ CallHalfWay'
    BY <1>6 DEF OnMediaAck
  <2>2. Accounting'
    BY <1>6 DEF OnMediaAck, Released
  <2> QED
    BY <2>1, <2>2
<1>7. CASE Drain
  BY <1>7 DEF Drain
<1>8. CASE Disconnect
  BY <1>8 DEF Disconnect
<1> QED
  BY <1>1, <1>2, <1>3, <1>4, <1>5, <1>6, <1>7, <1>8 DEF Control

\* and so do the streamers.
LEMMA StreamerInv ==
  ASSUME IInv, NEW g \in Generations, Streamer(g)
  PROVE  (FutureIdle /\ LateOnce /\ CallHalfWay /\ Accounting)'
<1> USE ConstantsAssumption
    DEF IInv, TypeOK, Goto, pipeline, history, Generations
<1>0. /\ streamer[g] # "idle" /\ streamer[g] # "exited"
      /\ generation' = generation /\ call' = call
      /\ \A h \in Generations \ {g} : streamer'[h] = streamer[h]
  BY DEF Streamer, Check, Gate, Wake, Cancel, NextFrame, Exhausted, Send,
         SendFails, Count
<1>1. FutureIdle' /\ CallHalfWay'
  <2>1. g <= generation
    BY <1>0 DEF FutureIdle
  <2>2. \A h \in Generations \ {g} : late'[h] = late[h]
    BY DEF Streamer, Check, Gate, Wake, Cancel, NextFrame, Exhausted, Send,
           SendFails, Count
  <2>3. FutureIdle'
    BY <1>0, <2>1, <2>2 DEF FutureIdle
  <2>4. CallHalfWay'
    BY <1>0 DEF CallHalfWay, Live
  <2> QED
    BY <2>3, <2>4
<1>2. LateOnce' /\ Accounting'
  <2> USE DEF LateOnce, Accounting, Counted, Superseded
  <2>1. CASE Check(g)
    BY <2>1 DEF Check
  <2>2. CASE Gate(g)
    BY <2>2 DEF Gate
  <2>3. CASE Wake(g) \/ Cancel(g)
    <3>1. CASE Wake(g)
      BY <3>1 DEF Wake
    <3>2. CASE Cancel(g)
      BY <3>2 DEF Cancel
    <3> QED
      BY <2>3, <3>1, <3>2
  <2>4. CASE NextFrame(g)
    BY <2>4 DEF NextFrame
  <2>5. CASE Exhausted(g) \/ SendFails(g)
    BY <2>5 DEF Exhausted, SendFails
  <2>6. CASE Send(g)
    <3>1. CASE Superseded(g)
      <4>1. /\ late' = [late EXCEPT ![g] = @ + 1] /\ ahead' = ahead
            /\ in_flight' = in_flight /\ streamer[g] = "send"
            /\ streamer' = [streamer EXCEPT ![g] = "count"]
        BY <2>6, <3>1 DEF Send
      <4>2. late[g] = 0
        BY <4>1
      <4> QED
        BY <1>0, <3>1, <4>1, <4>2
    <3>2. CASE ~Superseded(g)
      <4>1. /\ ahead' = ahead + 1 /\ late' = late
            /\ in_flight' = in_flight /\ streamer[g] = "send"
            /\ streamer' = [streamer EXCEPT ![g] = "count"]
        BY <2>6, <3>2 DEF Send
      <4> QED
        BY <1>0, <3>2, <4>1
    <3> QED
      BY <3>1, <3>2
  <2>7. CASE Count(g)
    BY <2>7 DEF Count
  <2> QED
    BY <2>1, <2>2, <2>3, <2>4, <2>5, <2>6, <2>7 DEF Streamer
<1> QED
  BY <1>1, <1>2

\* Hence every step keeps IInv,
LEMMA NextInv == IInv /\ [Next]_vars => IInv'
<1> SUFFICES ASSUME IInv, [Next]_vars PROVE IInv'
  OBVIOUS
<1>1. CASE Control
  BY <1>1, ControlTypeOK, ControlInv DEF IInv
<1>2. ASSUME NEW g \in Generations, Streamer(g) PROVE IInv'
  BY <1>2, StreamerTypeOK, StreamerInv DEF IInv
<1>3. CASE UNCHANGED vars
  BY <1>3 DEF vars, pipeline, history, IInv, TypeOK, FutureIdle, LateOnce,
              CallHalfWay, Accounting, Counted, Superseded, Live
<1> QED
  BY <1>1, <1>2, <1>3 DEF Next

\* and it always holds.
LEMMA Invariance == Spec => []IInv
BY InitInv, NextInv, PTL DEF Spec

\* Every variable keeps its type; in particular the outbound queue never
\* outgrows its capacity (pipeline.rs:71).
THEOREM TypeCorrect == Spec => []TypeOK
BY Invariance, PTL DEF IInv

\* A cancelled streaming task queues at most one more frame, however many
\* times the pipeline was stopped and restarted (pipeline.rs:266-322).
THEOREM AtMostOneLateFrame == Spec => []LateFrameBound
<1>1. IInv => LateFrameBound
  BY DEF IInv, TypeOK, LateOnce, LateFrameBound
<1> QED
  BY <1>1, Invariance, PTL

\* The current streamer never outruns max_unacked (pipeline.rs:280-320).
THEOREM FlowControl == Spec => []WindowBound
<1>1. IInv => WindowBound
  BY DEF IInv, Accounting, WindowBound
<1> QED
  BY <1>1, Invariance, PTL

-----------------------------------------------------------------------------
(* Refinement: every step is a step of the credit window, or a stutter.    *)

\* Every step of the pipeline is a step of the window, or none.
LEMMA WindowStep ==
  ASSUME IInv, [Next]_vars
  PROVE  [Window!Next]_(IF call = "start" THEN 0 ELSE ahead)
<1> USE DEF Window!Next, Window!Restart, Window!Ack, Window!Send
<1> USE ConstantsAssumption DEF IInv, TypeOK, pipeline, history
<1>1. CASE StartReset
  BY <1>1 DEF StartReset
<1>2. CASE StartSpawn
  BY <1>2 DEF StartSpawn
<1>3. CASE OnMediaAck
  BY <1>3 DEF OnMediaAck, ControlIdle, Released
<1>4. ASSUME NEW g \in Generations, Send(g)
      PROVE  [Window!Next]_(IF call = "start" THEN 0 ELSE ahead)
  <2>1. CASE Superseded(g)
    BY <1>4, <2>1 DEF Send
  <2>2. CASE ~Superseded(g) /\ call # "start"
    <3>1. ahead < MaxInFlight
      BY <1>4, <2>2 DEF Send, Goto, Superseded, Accounting, Counted
    <3> QED
      BY <1>4, <2>2, <3>1 DEF Send
  <2>3. CASE call = "start"
    BY <1>4, <2>3 DEF Send
  <2> QED
    BY <2>1, <2>2, <2>3
<1>5. CASE StopBump \/ StopReset \/ Drain \/ Disconnect
  BY <1>5 DEF StopBump, StopReset, Drain, Disconnect, ControlIdle
<1>6. ASSUME NEW g \in Generations, Streamer(g), ~Send(g)
      PROVE  [Window!Next]_(IF call = "start" THEN 0 ELSE ahead)
  BY <1>6 DEF Streamer, Check, Gate, Wake, Cancel, NextFrame, Exhausted,
              SendFails, Count
<1>7. ASSUME NEW c \in Channels, SetWireChannel(c)
      PROVE  [Window!Next]_(IF call = "start" THEN 0 ELSE ahead)
  BY <1>7 DEF SetWireChannel
<1>8. CASE UNCHANGED vars
  BY <1>8 DEF vars
<1> QED
  BY <1>1, <1>2, <1>3, <1>4, <1>5, <1>6, <1>7, <1>8 DEF Next, Control

\* The pipeline implements the credit window it advertised: seen from its
\* calls and its queue it is a counter that never exceeds max_unacked.
THEOREM Refinement == Spec => WindowSpec
<1>1. Init => Window!Init
  BY DEF Init, Window!Init
<1>2. IInv /\ [Next]_vars => [Window!Next]_(IF call = "start" THEN 0 ELSE ahead)
  BY WindowStep
<1> QED
  BY <1>1, <1>2, Invariance, PTL DEF Spec, WindowSpec, Window!Spec

-----------------------------------------------------------------------------
(* The session.                                                            *)

\* Frames that do not announce a new video channel change nothing of the
\* pipeline's state before the calls they ask for are run.
LEMMA HandleFrameStep ==
  ASSUME NEW ch, NEW msg, HandleFrame(ch, msg), msg # "VideoFocus"
  PROVE  UNCHANGED vars
BY DEF HandleFrame, vars, pipeline, history

\* Every step of the session is a step of the pipeline, or none.
LEMMA SessionStep ==
  ASSUME [SessionNext]_sessionVars
  PROVE  [Next]_vars
<1>1. CASE HUFocus
  <2>1. SetWireChannel(VideoByte)
    BY <1>1 DEF HUFocus, HandleFrame, AtSelect, SetWireChannel
  <2> QED
    BY <2>1, SessionAssumption DEF Next, Control
<1>2. CASE HUStart \/ HUStop \/ HUAck \/ HUAudioAck \/ HUSensorResponse
  BY <1>2, HandleFrameStep DEF HUStart, HUStop, HUAck, HUAudioAck,
     HUSensorResponse
<1>3. CASE RunCall
  BY <1>3 DEF RunCall, Next, Control
<1>4. CASE FinishCall
  BY <1>4 DEF FinishCall, Next, Control
<1>5. CASE DrainVideo \/ SessionEnds
  BY <1>5 DEF DrainVideo, SessionEnds, Next, Control
<1>6. ASSUME NEW g \in Generations, StreamerStep(g) PROVE [Next]_vars
  BY <1>6 DEF StreamerStep, Next
<1>7. CASE UNCHANGED sessionVars
  BY <1>7 DEF sessionVars
<1> QED
  BY <1>1, <1>2, <1>3, <1>4, <1>5, <1>6, <1>7 DEF SessionNext

\* Every session is a behaviour of the pipeline driven through its calls
\* (control_channel.rs:513-545 and video/mod.rs:57-125).
THEOREM SessionUsesPipeline == SessionSpec => PipelineSpec
<1>1. SessionInit => Init
  BY DEF SessionInit
<1> QED
  BY <1>1, SessionStep, PTL DEF SessionSpec, PipelineSpec, Spec

\* Hence, whatever the head unit sends: one late frame per cancelled task
\* at most, and never more than max_unacked frames past the processed acks.
THEOREM SessionSafety == SessionSpec => [](LateFrameBound /\ WindowBound)
BY SessionUsesPipeline, AtMostOneLateFrame, FlowControl, PTL DEF PipelineSpec

-----------------------------------------------------------------------------
(* What a frame makes handle_frame call.                                   *)

\* Short lists of calls: put together,
LEMMA Concat ==
  ASSUME NEW S, NEW a \in S, NEW b \in S
  PROVE  /\ <<a>> \o <<b>> = <<a, b>>
         /\ <<a>> \o <<>> = <<a>> /\ <<>> \o <<a>> = <<a>>
         /\ <<>> \o <<>> = <<>>
<1>1. /\ Len(<<a>> \o <<b>>) = 2 /\ Len(<<a, b>>) = 2
      /\ \A i \in 1..2 : (<<a>> \o <<b>>)[i] = <<a, b>>[i]
      /\ <<a>> \o <<b>> \in Seq(S) /\ <<a, b>> \in Seq(S)
  OBVIOUS
<1>2. <<a>> \o <<b>> = <<a, b>>
  BY <1>1, SeqEqual
<1>3. <<a>> \in Seq(S) /\ <<>> \in Seq(S)
  OBVIOUS
<1> QED
  BY <1>2, <1>3, ConcatEmptySeq

\* and taken apart.
LEMMA Queues ==
  ASSUME NEW a, NEW b
  PROVE  /\ Tail(<<a>>) = <<>> /\ Head(<<a>>) = a
         /\ Tail(<<a, b>>) = <<b>> /\ Head(<<a, b>>) = a
         /\ <<a>> # <<>> /\ <<a, b>> # <<>> /\ <<a, b>> # <<b>>
OBVIOUS

ApiCalls == {"start", "stop", "ack", "reply"}

\* The calls that each message asks for.
LEMMA CallsOf ==
  ASSUME NEW ch
  PROVE  /\ Calls(ch, "VideoFocus") \in {<<"start">>, <<"start", "reply">>}
         /\ Calls(ch, "MediaAck") \in {<<"ack">>, <<"ack", "ack">>}
         /\ Calls(ch, "Stop") \in {<<>>, <<"stop">>, <<"stop", "stop">>}
         /\ Calls(ch, "Start") \in {<<>>, <<"start">>}
<1>1. \A a, b \in ApiCalls :
        /\ <<a>> \o <<b>> = <<a, b>>
        /\ <<a>> \o <<>> = <<a>> /\ <<>> \o <<a>> = <<a>>
        /\ <<>> \o <<>> = <<>>
  BY Concat
<1> QED
  BY <1>1 DEF Calls, Intercepted, Routed, ApiCalls

\* On a channel byte that is none of our ids the channel handlers add nothing
\* but the reply to a VideoFocusNotification.
LEMMA CallsElsewhere ==
  ASSUME NEW ch, ch # VideoId
  PROVE  /\ ch \notin AudioManaged =>
              Calls(ch, "VideoFocus") = <<"start", "reply">>
         /\ Calls(ch, "MediaAck") = <<"ack">>
         /\ Calls(ch, "Stop") = IF ch = wire_channel THEN <<"stop">> ELSE <<>>
         /\ Calls(ch, "Start") = <<>>
<1>1. \A a, b \in ApiCalls :
        /\ <<a>> \o <<b>> = <<a, b>>
        /\ <<a>> \o <<>> = <<a>> /\ <<>> \o <<a>> = <<a>>
        /\ <<>> \o <<>> = <<>>
  BY Concat
<1> QED
  BY <1>1 DEF Calls, Intercepted, Routed, ApiCalls

Todos == {<<>>, <<"start">>, <<"stop">>, <<"ack">>, <<"reply">>,
          <<"start", "reply">>, <<"stop", "stop">>, <<"ack", "ack">>}

\* Taking the next call off leaves a list of calls; a reply comes last, after
\* the start() it answers.
LEMMA NextCall ==
  /\ <<>> \in Todos /\ <<>> # <<"reply">>
  /\ \A t \in Todos \ {<<>>} :
       /\ Tail(t) \in Todos
       /\ Tail(t) = <<"reply">> => Head(t) = "start"
       /\ Head(t) = "reply" => t = <<"reply">> /\ Tail(t) = <<>>
<1>1. /\ <<>> # <<"reply">> /\ <<"stop">> # <<"reply">> /\ <<"ack">> # <<"reply">>
      /\ <<"start">> # <<"reply">>
  OBVIOUS
<1>2. /\ Tail(<<"start">>) = <<>> /\ Tail(<<"stop">>) = <<>>
      /\ Tail(<<"ack">>) = <<>> /\ Tail(<<"reply">>) = <<>>
      /\ Tail(<<"start", "reply">>) = <<"reply">>
      /\ Tail(<<"stop", "stop">>) = <<"stop">>
      /\ Tail(<<"ack", "ack">>) = <<"ack">>
  OBVIOUS
<1>3. /\ Head(<<"start">>) = "start" /\ Head(<<"stop">>) = "stop"
      /\ Head(<<"ack">>) = "ack" /\ Head(<<"start", "reply">>) = "start"
      /\ Head(<<"stop", "stop">>) = "stop" /\ Head(<<"ack", "ack">>) = "ack"
  OBVIOUS
<1> QED
  BY <1>1, <1>2, <1>3 DEF Todos

\* The lists of calls are lists of calls of the API.
LEMMA TodosAreCalls == Todos \subseteq Seq(ApiCalls)
BY DEF Todos, ApiCalls

\* What one handled frame leaves to be done, and for which frame.
LEMMA FrameHandled ==
  ASSUME NEW ch \in Bytes, NEW msg \in MessageIds, HandleFrame(ch, msg)
  PROVE  /\ todo' \in Todos /\ todo' # <<"reply">>
         /\ frame' \in InboundFrame
         /\ todo = <<>> /\ call = "none" /\ call' = "none"
         /\ generation' = generation
         /\ UNCHANGED <<announced, lost>>
<1>1. todo' \in Todos /\ todo' # <<"reply">>
  BY CallsOf, Queues DEF HandleFrame, MessageIds, Todos
<1>2. frame' \in InboundFrame
  BY DEF HandleFrame, InboundFrame
<1> QED
  BY <1>1, <1>2 DEF HandleFrame, AtSelect, ControlIdle

\* The head unit's part of a step that delivers one of its frames.
LEMMA HeadUnitStep ==
  ASSUME HUFocus \/ HUStart \/ HUStop \/ HUAck \/ HUAudioAck \/ HUSensorResponse
  PROVE  /\ \E ch \in Bytes, msg \in MessageIds :
              /\ HandleFrame(ch, msg)
              /\ msg \in {"VideoFocus", "Start"} => ch = VideoByte
         /\ wire' = wire \/ (wire # <<>> /\ wire' = Tail(wire))
         /\ stray' = stray \/ (stray < MaxStray /\ stray' = stray + 1)
<1>1. VideoByte \in Bytes /\ SensorByte \in Bytes /\ AudioBytes \subseteq Bytes
  BY SessionAssumption DEF Bytes
<1>2. {"VideoFocus", "Start", "Stop", "MediaAck"} \subseteq MessageIds
  BY DEF MessageIds
<1>3. CASE HUFocus \/ HUStart \/ HUStop
  BY <1>1, <1>2, <1>3 DEF HUFocus, HUStart, HUStop
<1>4. CASE HUAck
  BY <1>1, <1>2, <1>4 DEF HUAck
<1>5. CASE HUAudioAck
  <2>1. \E b \in Bytes : HandleFrame(b, "MediaAck")
    BY <1>1, <1>5 DEF HUAudioAck
  <2> QED
    BY <1>2, <1>5, <2>1 DEF HUAudioAck
<1>6. CASE HUSensorResponse
  BY <1>1, <1>2, <1>6 DEF HUSensorResponse
<1> QED
  BY <1>3, <1>4, <1>5, <1>6

-----------------------------------------------------------------------------
(* Types                                                                   *)

\* A reply is only due once its start() has begun, so it announces a
\* generation that exists.
SessionTyped ==
  /\ frame \in InboundFrame
  /\ todo \in Todos
  /\ wire \in Seq(Frame)
  /\ announced \subseteq Generations
  /\ lost \in 0..MaxLost
  /\ stray \in 0..MaxStray
  /\ todo = <<"reply">> /\ call = "none" => generation > 0
  /\ todo = <<"reply">> => call \in {"none", "start"}

\* SessionTyped holds initially,
LEMMA SessionTypedInit == SessionInit => SessionTyped
<1> SUFFICES ASSUME SessionInit PROVE SessionTyped
  OBVIOUS
<1>1. wire \in Seq(Frame) /\ announced \subseteq Generations
  BY DEF SessionInit
<1>2. lost \in 0..MaxLost /\ stray \in 0..MaxStray
  BY SessionAssumption DEF SessionInit
<1>3. frame \in InboundFrame
  BY DEF SessionInit, InboundFrame
<1>4. todo \in Todos /\ todo # <<"reply">>
  BY NextCall DEF SessionInit
<1> QED
  BY <1>1, <1>2, <1>3, <1>4 DEF SessionTyped

\* every step keeps it,
LEMMA SessionTypedStep ==
  ASSUME SessionTyped, TypeOK, [SessionNext]_sessionVars
  PROVE  SessionTyped'
<1> USE DEF SessionTyped
<1>0. MaxLost \in Nat /\ MaxStray \in Nat
  BY SessionAssumption
<1>1. CASE HUFocus \/ HUStart \/ HUStop \/ HUAck \/ HUAudioAck \/ HUSensorResponse
  <2>1. wire' \in Seq(Frame)
    BY <1>1, HeadUnitStep, QueueTail
  <2>2. stray' \in 0..MaxStray
    <3>1. stray' = stray \/ (stray < MaxStray /\ stray' = stray + 1)
      BY <1>1, HeadUnitStep
    <3> QED
      BY <3>1, <1>0
  <2>3. /\ todo' \in Todos /\ todo' # <<"reply">> /\ frame' \in InboundFrame
        /\ UNCHANGED <<announced, lost>>
    BY <1>1, HeadUnitStep, FrameHandled
  <2> QED
    BY <2>1, <2>2, <2>3
<1>2. CASE RunCall
  <2>1. UNCHANGED <<wire, stray>> /\ frame' \in InboundFrame
    BY <1>2 DEF RunCall, InboundFrame
  <2>2. todo' \in Todos
    BY <1>2, NextCall DEF RunCall
  <2>3. CASE Head(todo) = "reply"
    <3>1. todo = <<"reply">> /\ todo' = <<>>
      BY <1>2, <2>3, NextCall DEF RunCall
    <3>2. call = "none" /\ generation \in Generations
      BY <1>2, <2>3, <3>1 DEF RunCall, ControlIdle, TypeOK, Generations,
         StartReset, StopBump, OnMediaAck
    <3>3. announced' \subseteq Generations /\ lost' \in 0..MaxLost
      <4>1. /\ announced' = announced \/ announced' = announced \cup {generation}
            /\ lost' = lost \/ (lost < MaxLost /\ lost' = lost + 1)
        BY <1>2, <2>3 DEF RunCall, Written, NotWritten
      <4> QED
        BY <4>1, <3>2, <1>0
    <3> QED
      BY <2>1, <2>2, <3>1, <3>3, NextCall
  <2>4. CASE Head(todo) # "reply"
    <3>1. UNCHANGED <<announced, lost>>
      BY <1>2, <2>4 DEF RunCall
    <3>2. todo' = <<"reply">> => call' = "start"
      <4>1. todo' = <<"reply">> => Head(todo) = "start"
        BY <1>2, NextCall DEF RunCall
      <4> QED
        BY <1>2, <4>1 DEF RunCall, StartReset
    <3> QED
      BY <2>1, <2>2, <3>1, <3>2
  <2> QED
    BY <2>3, <2>4
<1>3. CASE FinishCall
  <2>1. UNCHANGED <<todo, wire, announced, lost, stray>>
        /\ frame' \in InboundFrame
    BY <1>3 DEF FinishCall, InboundFrame
  <2>2. todo = <<"reply">> => generation' > 0 /\ call' = "none"
    BY <1>3 DEF FinishCall, StartSpawn, StopReset, TypeOK
  <2> QED
    BY <2>1, <2>2
<1>4. CASE DrainVideo
  <2>1. wire' \in Seq(Frame)
    <3>1. outbound \in Seq(Frame) /\ outbound # <<>>
      BY <1>4 DEF DrainVideo, Drain, TypeOK
    <3>2. Head(outbound) \in Frame
      BY <3>1
    <3> QED
      BY <1>4, <3>2, QueueAppend DEF DrainVideo
  <2>2. lost' \in 0..MaxLost
    <3>1. lost' = lost \/ (lost < MaxLost /\ lost' = lost + 1)
      BY <1>4 DEF DrainVideo, Written, NotWritten
    <3> QED
      BY <3>1, <1>0
  <2> QED
    BY <1>4, <2>1, <2>2, NextCall DEF DrainVideo, AtSelect
<1>5. CASE SessionEnds
  BY <1>5, NextCall DEF SessionEnds, session, AtSelect
<1>6. ASSUME NEW g \in Generations, StreamerStep(g) PROVE SessionTyped'
  <2>1. UNCHANGED <<generation, call>>
    BY <1>6 DEF StreamerStep, Streamer, Check, Gate, Wake, Cancel, NextFrame,
       Exhausted, Send, SendFails, Count
  <2> QED
    BY <1>6, <2>1 DEF StreamerStep, session
<1>7. CASE UNCHANGED sessionVars
  BY <1>7 DEF sessionVars, session, vars, pipeline
<1> QED
  BY <1>1, <1>2, <1>3, <1>4, <1>5, <1>6, <1>7 DEF SessionNext

\* and so it always holds.
LEMMA SessionTypes == SessionSpec => [](SessionTyped /\ TypeOK)
<1>1. SessionSpec => []TypeOK
  BY SessionUsesPipeline, TypeCorrect, PTL DEF PipelineSpec
<1> QED
  BY <1>1, SessionTypedInit, SessionTypedStep, PTL DEF SessionSpec

\* Every variable of the session keeps its type, whatever bytes the head unit
\* assigns: handle_frame never has more than two calls to make for a frame.
THEOREM SessionTypeCorrect == SessionSpec => []SessionTypeOK
<1>1. SessionTyped /\ TypeOK => SessionTypeOK
  BY TodosAreCalls DEF SessionTyped, SessionTypeOK, ApiCalls
<1> QED
  BY <1>1, SessionTypes, PTL

-----------------------------------------------------------------------------
(* A head unit whose bytes are none of our ids                             *)

\* No byte the head unit uses is our ChannelId::Video, and its video byte is
\* not one of the ids of our audio channels: no frame of another service is
\* handled as video, and every VideoFocusNotification is replied to.
OwnBytes == VideoId \notin Bytes /\ VideoByte \notin AudioManaged

PlainTodos == {<<>>, <<"start", "reply">>, <<"reply">>, <<"stop">>, <<"ack">>}

\* The generations whose Start was written, or the link lost something; and
\* with them the one whose reply is the next thing handle_frame does.
Told == IF lost > 0 THEN Generations ELSE announced
Due == IF lost > 0 THEN Generations
       ELSE announced \cup
            (IF todo = <<"reply">> /\ call = "none" THEN {generation} ELSE {})

\* A stop is due only for a frame of the video channel.
StopDue ==
  call = "stop" \/ todo = <<"stop">> =>
    frame # <<>> /\ frame.channel = wire_channel

\* A stream starts after the video channel became known, and its reply is
\* written before the loop is back at its queue; from then on whatever the
\* streamer stages, queues and sees written goes there and was announced.
Announcing ==
  /\ todo \in PlainTodos
  /\ call = "start" => todo = <<"reply">>
  /\ call = "stop" => todo = <<>>
  /\ todo \in {<<"start", "reply">>, <<"reply">>} => wire_channel = VideoByte
  /\ \A g \in Generations : streamer[g] # "idle" =>
       g \in Due /\ wire_channel = VideoByte
  /\ \A g \in Generations : streamer[g] = "send" => staged[g] = VideoByte
  /\ outbound \in Seq([gen : Due, channel : {VideoByte}])
  /\ wire \in Seq([gen : Told, channel : {VideoByte}])

SessionInv == SessionTyped /\ TypeOK /\ StopDue /\ Announcing

\* A sequence over a set is one over a larger set,
LEMMA Widened ==
  ASSUME NEW S, NEW T, S \subseteq T, NEW q \in Seq(S)
  PROVE  q \in Seq(T)
OBVIOUS

\* and so is a queue of frames of more streams.
LEMMA WidenedFrames ==
  ASSUME NEW A, NEW B, A \subseteq B, NEW q \in Seq([gen : A, channel : {VideoByte}])
  PROVE  q \in Seq([gen : B, channel : {VideoByte}])
<1>1. [gen : A, channel : {VideoByte}] \subseteq [gen : B, channel : {VideoByte}]
  OBVIOUS
<1> QED
  BY <1>1, Widened

\* Typed queues: taking the first away,
LEMMA TailSeq ==
  ASSUME NEW S, NEW q \in Seq(S), q # <<>>
  PROVE  Tail(q) \in Seq(S) /\ Head(q) \in S
OBVIOUS

\* and adding one.
LEMMA AppendSeq ==
  ASSUME NEW S, NEW q \in Seq(S), NEW x \in S
  PROVE  Append(q, x) \in Seq(S)
OBVIOUS

\* The lists that a plain frame leaves, and what is left of each.
LEMMA NextPlain ==
  /\ <<>> \in PlainTodos /\ <<"reply">> # <<>> /\ <<"stop">> # <<>>
  /\ <<"reply">> # <<"stop">> /\ <<"start", "reply">> # <<"stop">>
  /\ <<"start", "reply">> # <<>> /\ <<"start", "reply">> # <<"reply">>
  /\ <<"ack">> \notin {<<>>, <<"stop">>, <<"reply">>, <<"start", "reply">>}
  /\ \A t \in PlainTodos \ {<<>>} :
       \/ t = <<"start", "reply">> /\ Head(t) = "start" /\ Tail(t) = <<"reply">>
       \/ t = <<"reply">> /\ Head(t) = "reply" /\ Tail(t) = <<>>
       \/ t = <<"stop">> /\ Head(t) = "stop" /\ Tail(t) = <<>>
       \/ t = <<"ack">> /\ Head(t) = "ack" /\ Tail(t) = <<>>
<1>1. /\ <<"reply">> # <<>> /\ <<"stop">> # <<>> /\ <<"ack">> # <<>>
      /\ <<"reply">> # <<"stop">> /\ <<"start", "reply">> # <<"stop">>
      /\ <<"start", "reply">> # <<>> /\ <<"start", "reply">> # <<"reply">>
      /\ <<"ack">> # <<"stop">> /\ <<"ack">> # <<"reply">>
      /\ <<"ack">> # <<"start", "reply">>
  OBVIOUS
<1>2. /\ Tail(<<"start", "reply">>) = <<"reply">> /\ Tail(<<"reply">>) = <<>>
      /\ Tail(<<"stop">>) = <<>> /\ Tail(<<"ack">>) = <<>>
      /\ Head(<<"start", "reply">>) = "start" /\ Head(<<"reply">>) = "reply"
      /\ Head(<<"stop">>) = "stop" /\ Head(<<"ack">>) = "ack"
  OBVIOUS
<1> QED
  BY <1>1, <1>2 DEF PlainTodos

\* A frame is told from no frame.
LEMMA NotEmptyFrame ==
  ASSUME NEW c, NEW m
  PROVE  [channel |-> c, msg |-> m] # <<>>
<1>1. DOMAIN [channel |-> c, msg |-> m] = {"channel", "msg"}
  OBVIOUS
<1>2. DOMAIN <<>> = {}
  OBVIOUS
<1>3. "channel" \in {"channel", "msg"}
  OBVIOUS
<1> QED
  BY <1>1, <1>2, <1>3, Zenon

\* SessionInv holds initially.
LEMMA SessionInvInit == SessionInit /\ TypeOK => SessionInv
<1> SUFFICES ASSUME SessionInit, TypeOK PROVE SessionInv
  OBVIOUS
<1>1. SessionTyped
  BY SessionTypedInit
<1>2. StopDue
  BY NextPlain DEF SessionInit, Init, StopDue
<1>3. Announcing
  <2>1. todo = <<>> /\ call = "none" /\ outbound = <<>> /\ wire = <<>>
        /\ streamer = [g \in Generations |-> "idle"]
    BY DEF SessionInit, Init
  <2> QED
    BY <2>1, NextPlain DEF Announcing
<1> QED
  BY <1>1, <1>2, <1>3 DEF SessionInv

\* A frame of the head unit sets the next calls, and changes nothing of a
\* stream; a stop is one of them only for a frame of the video channel.
LEMMA FrameStep ==
  ASSUME OwnBytes, SessionInv, NEW ch \in Bytes, NEW msg \in MessageIds,
         HandleFrame(ch, msg), msg \in {"VideoFocus", "Start"} => ch = VideoByte,
         wire' = wire \/ (wire # <<>> /\ wire' = Tail(wire))
  PROVE  StopDue' /\ Announcing'
<1>1. /\ todo = <<>> /\ call = "none" /\ call' = "none"
      /\ todo' = Calls(ch, msg)
      /\ UNCHANGED <<announced, lost, generation, streamer, staged, outbound>>
      /\ wire_channel' = IF msg = "VideoFocus" THEN ch ELSE wire_channel
  BY DEF HandleFrame, AtSelect, ControlIdle, vars, pipeline
<1>2. /\ msg = "VideoFocus" => todo' = <<"start", "reply">>
      /\ msg = "MediaAck" => todo' = <<"ack">>
      /\ msg = "Stop" => todo' = IF ch = wire_channel THEN <<"stop">> ELSE <<>>
      /\ msg = "Start" => todo' = <<>>
  BY <1>1, CallsElsewhere DEF OwnBytes
<1>3. msg \in {"VideoFocus", "MediaAck", "Stop", "Start"}
  BY DEF MessageIds
<1>4. todo' \in PlainTodos
  BY <1>2, <1>3, NextPlain DEF PlainTodos
<1>5. StopDue'
  <2>1. todo' = <<"stop">> =>
          /\ ch = wire_channel /\ wire_channel' = wire_channel
          /\ frame' = [channel |-> ch, msg |-> msg]
    BY <1>1, <1>2, <1>3, NextPlain DEF HandleFrame
  <2> QED
    BY <1>1, <2>1, NotEmptyFrame DEF StopDue
<1>6. todo' \in {<<"start", "reply">>, <<"reply">>} => wire_channel' = VideoByte
  BY <1>1, <1>2, <1>3, NextPlain
<1>7. wire_channel = VideoByte => wire_channel' = VideoByte
  BY <1>1
<1>8. Told' = Told /\ Due' = Due
  <2>1. todo # <<"reply">> /\ todo' # <<"reply">>
    BY <1>1, <1>2, <1>3, NextPlain
  <2> QED
    BY <1>1, <2>1 DEF Told, Due
<1>9. wire' \in Seq([gen : Told', channel : {VideoByte}])
  BY <1>8, TailSeq DEF SessionInv, Announcing
<1> QED
  BY <1>1, <1>4, <1>5, <1>6, <1>7, <1>8, <1>9 DEF SessionInv, Announcing

\* Its parts StopDue and Announcing: a call begins,
LEMMA RunCallStep ==
  ASSUME SessionInv, RunCall
  PROVE  StopDue' /\ Announcing'
<1>1. /\ todo \in PlainTodos \ {<<>>} /\ todo' = Tail(todo)
      /\ UNCHANGED <<wire, streamer, staged, outbound, wire_channel>>
      /\ call = "none"
  BY DEF RunCall, SessionInv, Announcing, StartReset, StopBump, OnMediaAck,
     ControlIdle, vars, pipeline
<1> USE NextPlain DEF SessionInv, Announcing
<1>2. CASE Head(todo) = "start"
  <2>1. /\ todo = <<"start", "reply">> /\ todo' = <<"reply">>
        /\ call' = "start" /\ UNCHANGED <<announced, lost>>
    BY <1>1, <1>2 DEF RunCall, StartReset
  <2>2. Told' = Told /\ Due' = Due
    BY <2>1 DEF Told, Due
  <2> QED
    BY <1>1, <2>1, <2>2 DEF StopDue, PlainTodos
<1>3. CASE Head(todo) = "stop"
  <2>1. /\ todo = <<"stop">> /\ todo' = <<>> /\ call' = "stop"
        /\ UNCHANGED <<announced, lost, frame>>
    BY <1>1, <1>3 DEF RunCall, StopBump
  <2>2. Told' = Told /\ Due' = Due
    BY <2>1 DEF Told, Due
  <2> QED
    BY <1>1, <2>1, <2>2 DEF StopDue, PlainTodos
<1>4. CASE Head(todo) = "ack"
  <2>1. /\ todo = <<"ack">> /\ todo' = <<>> /\ call' = "none"
        /\ UNCHANGED <<announced, lost>>
    BY <1>1, <1>4 DEF RunCall, OnMediaAck
  <2>2. Told' = Told /\ Due' = Due
    BY <2>1 DEF Told, Due
  <2> QED
    BY <1>1, <2>1, <2>2 DEF StopDue, PlainTodos
<1>5. CASE Head(todo) = "reply"
  <2>1. /\ todo = <<"reply">> /\ todo' = <<>> /\ call' = "none"
        /\ \/ UNCHANGED lost /\ announced' = announced \cup {generation}
           \/ lost' = lost + 1 /\ UNCHANGED announced
    BY <1>1, <1>5 DEF RunCall, Written, NotWritten, vars, pipeline
  <2>2. lost \in Nat /\ announced \subseteq Generations
    BY SessionAssumption DEF SessionTyped
  <2>3. generation \in Generations
    BY <1>1, <2>1 DEF SessionTyped, TypeOK, Generations
  <2>4. Due \subseteq Due' /\ Told \subseteq Told'
    BY <1>1, <2>1, <2>2, <2>3 DEF Told, Due
  <2>5. /\ outbound' \in Seq([gen : Due', channel : {VideoByte}])
        /\ wire' \in Seq([gen : Told', channel : {VideoByte}])
    BY <1>1, <2>4, WidenedFrames
  <2> QED
    BY <1>1, <2>1, <2>4, <2>5 DEF StopDue, PlainTodos
<1> QED
  BY <1>1, <1>2, <1>3, <1>4, <1>5

\* a call ends,
LEMMA FinishCallStep ==
  ASSUME SessionInv, FinishCall
  PROVE  StopDue' /\ Announcing'
<1> USE NextPlain DEF SessionInv, Announcing
<1>1. /\ UNCHANGED <<todo, wire, announced, lost, staged, outbound, wire_channel>>
      /\ call' = "none" /\ call # "none"
  BY DEF FinishCall, StartSpawn, StopReset
<1>2. Told' = Told /\ Due \subseteq Due'
  BY <1>1 DEF Told, Due
<1>3. outbound' \in Seq([gen : Due', channel : {VideoByte}])
  BY <1>1, <1>2, WidenedFrames
<1>4. StopDue'
  BY <1>1 DEF StopDue, FinishCall, StartSpawn, StopReset
<1>5. CASE StartSpawn
  <2>1. todo = <<"reply">> /\ wire_channel = VideoByte
    BY <1>5 DEF StartSpawn
  <2>2. generation + 1 \in Generations => generation + 1 \in Due'
    BY <1>1, <1>5, <2>1 DEF StartSpawn, Due
  <2>3. \A g \in Generations :
          /\ streamer'[g] # "idle" => streamer[g] # "idle" \/ g = generation + 1
          /\ streamer'[g] = "send" => streamer[g] = "send"
    BY <1>5 DEF StartSpawn, TypeOK
  <2> QED
    BY <1>1, <1>2, <1>3, <1>4, <2>1, <2>2, <2>3
<1>6. CASE StopReset
  <2>1. UNCHANGED streamer
    BY <1>6 DEF StopReset
  <2> QED
    BY <1>1, <1>2, <1>3, <1>4, <2>1
<1> QED
  BY <1>5, <1>6 DEF FinishCall

\* The loop drains its queue only with no call left to make.
LEMMA LoopStep ==
  ASSUME SessionInv, DrainVideo \/ SessionEnds
  PROVE  StopDue' /\ Announcing'
<1> USE NextPlain DEF SessionInv, Announcing
<1>1. /\ UNCHANGED <<frame, todo, announced, streamer, staged, wire_channel, call>>
      /\ todo = <<>> /\ call = "none"
  BY DEF DrainVideo, SessionEnds, AtSelect, ControlIdle, Drain, Disconnect, session
<1>2. Due = Told /\ Due' = Told'
  BY <1>1 DEF Due, Told
<1>3. StopDue'
  BY <1>1 DEF StopDue
<1>4. CASE DrainVideo
  <2>1. /\ outbound # <<>> /\ outbound' = Tail(outbound)
        /\ lost' = lost \/ lost' = lost + 1
        /\ wire' = wire \/ wire' = Append(wire, Head(outbound))
    BY <1>4 DEF DrainVideo, Drain, Written, NotWritten
  <2>2. lost \in Nat /\ announced \subseteq Generations
    BY SessionAssumption DEF SessionTyped
  <2>3. Told \subseteq Told'
    BY <1>1, <2>1, <2>2 DEF Told
  <2>4. /\ outbound' \in Seq([gen : Told, channel : {VideoByte}])
        /\ wire' \in Seq([gen : Told, channel : {VideoByte}])
    <3>1. /\ outbound \in Seq([gen : Told, channel : {VideoByte}])
          /\ wire \in Seq([gen : Told, channel : {VideoByte}])
      BY <1>2
    <3> DEFINE F == [gen : Told, channel : {VideoByte}]
    <3> HIDE DEF F
    <3>2. outbound \in Seq(F) /\ wire \in Seq(F)
      BY <3>1 DEF F
    <3>3. Tail(outbound) \in Seq(F) /\ Head(outbound) \in F
      BY <2>1, <3>2, TailSeq
    <3>4. Append(wire, Head(outbound)) \in Seq(F)
      BY <3>2, <3>3, AppendSeq
    <3>5. outbound' \in Seq(F) /\ wire' \in Seq(F)
      BY <2>1, <3>2, <3>3, <3>4
    <3> QED
      BY <3>5 DEF F
  <2>5. /\ outbound' \in Seq([gen : Due', channel : {VideoByte}])
        /\ wire' \in Seq([gen : Told', channel : {VideoByte}])
    BY <1>2, <2>3, <2>4, WidenedFrames
  <2> QED
    BY <1>1, <1>2, <1>3, <2>3, <2>5
<1>5. CASE SessionEnds
  <2>1. outbound' = <<>> /\ UNCHANGED <<wire, lost>>
    BY <1>5 DEF SessionEnds, Disconnect, session
  <2>2. Told' = Told
    BY <1>1, <2>1 DEF Told
  <2> QED
    BY <1>1, <1>2, <1>3, <2>1, <2>2
<1> QED
  BY <1>4, <1>5

\* a streamer takes a step.
LEMMA StreamerSessionStep ==
  ASSUME SessionInv, NEW g \in Generations, StreamerStep(g)
  PROVE  StopDue' /\ Announcing'
<1> USE DEF SessionInv, Announcing
<1>1. UNCHANGED <<frame, todo, wire, announced, lost, generation, wire_channel, call>>
  BY DEF StreamerStep, session, Streamer, Check, Gate, Wake, Cancel, NextFrame,
     Exhausted, Send, SendFails, Count
<1>2. Told' = Told /\ Due' = Due /\ StopDue'
  BY <1>1 DEF Told, Due, StopDue
<1>3. /\ \A h \in Generations : streamer'[h] # "idle" => streamer[h] # "idle"
      /\ \A h \in Generations : streamer'[h] = "send" => staged'[h] = VideoByte
  <2>1. CASE NextFrame(g)
    BY <2>1 DEF NextFrame, Goto, TypeOK
  <2>2. CASE Check(g) \/ Gate(g) \/ Wake(g) \/ Cancel(g) \/ Exhausted(g)
             \/ Send(g) \/ SendFails(g) \/ Count(g)
    BY <2>2 DEF Check, Gate, Wake, Cancel, Exhausted, Send, SendFails, Count,
       Goto, TypeOK
  <2> QED
    BY <2>1, <2>2 DEF StreamerStep, Streamer
<1>4. outbound' \in Seq([gen : Due, channel : {VideoByte}])
  <2>1. CASE Send(g)
    <3>1. /\ g \in Due /\ staged[g] = VideoByte
          /\ outbound' = Append(outbound, [gen |-> g, channel |-> staged[g]])
      BY <2>1 DEF Send, Goto
    <3>2. [gen |-> g, channel |-> staged[g]] \in [gen : Due, channel : {VideoByte}]
      BY <3>1
    <3> QED
      BY <3>1, <3>2, AppendSeq
  <2>2. CASE Check(g) \/ Gate(g) \/ Wake(g) \/ Cancel(g) \/ Exhausted(g)
             \/ NextFrame(g) \/ SendFails(g) \/ Count(g)
    BY <2>2 DEF Check, Gate, Wake, Cancel, NextFrame, Exhausted, SendFails, Count
  <2> QED
    BY <2>1, <2>2 DEF StreamerStep, Streamer
<1> QED
  BY <1>1, <1>2, <1>3, <1>4

\* Every step keeps SessionInv,
LEMMA SessionInvStep ==
  ASSUME OwnBytes, SessionInv, TypeOK', [SessionNext]_sessionVars
  PROVE  SessionInv'
<1>0. SessionTyped'
  BY SessionTypedStep DEF SessionInv
<1>1. CASE HUFocus \/ HUStart \/ HUStop \/ HUAck \/ HUAudioAck \/ HUSensorResponse
  BY <1>0, <1>1, HeadUnitStep, FrameStep DEF SessionInv
<1>2. CASE RunCall \/ FinishCall \/ DrainVideo \/ SessionEnds
  BY <1>0, <1>2, RunCallStep, FinishCallStep, LoopStep DEF SessionInv
<1>3. ASSUME NEW g \in Generations, StreamerStep(g) PROVE SessionInv'
  BY <1>0, <1>3, StreamerSessionStep DEF SessionInv
<1>4. CASE UNCHANGED sessionVars
  <2>1. StopDue' /\ Announcing'
    BY <1>4 DEF sessionVars, session, vars, pipeline, SessionInv, StopDue,
       Announcing, Due, Told
  <2> QED
    BY <1>0, <2>1 DEF SessionInv
<1> QED
  BY <1>1, <1>2, <1>3, <1>4 DEF SessionNext

\* and so it always holds.
LEMMA SessionInvariant == OwnBytes => (SessionSpec => []SessionInv)
<1> SUFFICES ASSUME OwnBytes PROVE SessionSpec => []SessionInv
  OBVIOUS
<1>1. SessionSpec => []TypeOK
  BY SessionUsesPipeline, TypeCorrect, PTL DEF PipelineSpec
<1>2. SessionInv /\ TypeOK' /\ [SessionNext]_sessionVars => SessionInv'
  BY SessionInvStep
<1> QED
  BY <1>1, <1>2, SessionInvInit, PTL DEF SessionSpec

\* With such a head unit the pipeline is stopped by a frame of its own channel
\* only (control_channel.rs:533-541); session_sensor shows that the condition
\* on the bytes cannot be dropped.
THEOREM OnlyVideoStops == OwnBytes => (SessionSpec => []StopFromVideoChannel)
<1> SUFFICES ASSUME OwnBytes PROVE SessionSpec => []StopFromVideoChannel
  OBVIOUS
<1>1. SessionInv => StopFromVideoChannel
  BY DEF SessionInv, StopDue, StopFromVideoChannel
<1> QED
  BY <1>1, SessionInvariant, PTL

\* And every frame on the wire is on the byte the head unit assigned, after
\* the Start that announced its stream, unless a message could not be written
\* (control_channel.rs:513-524, 606-616, and the order of run's branches).
THEOREM StreamsAreAnnounced == OwnBytes => (SessionSpec => []FramesAnnounced)
<1> SUFFICES ASSUME OwnBytes PROVE SessionSpec => []FramesAnnounced
  OBVIOUS
<1>1. SessionInv => FramesAnnounced
  <2> SUFFICES ASSUME SessionInv, NEW i \in DOMAIN wire
               PROVE  /\ wire[i].channel = VideoByte
                      /\ lost = 0 => wire[i].gen \in announced
    BY DEF FramesAnnounced
  <2>1. wire[i] \in [gen : Told, channel : {VideoByte}]
    <3> DEFINE F == [gen : Told, channel : {VideoByte}]
    <3>1. wire \in Seq(F)
      BY DEF SessionInv, Announcing
    <3> HIDE DEF F
    <3>2. wire[i] \in F
      BY <3>1
    <3> QED
      BY <3>2 DEF F
  <2> QED
    BY <2>1 DEF Told
<1> QED
  BY <1>1, SessionInvariant, PTL

-----------------------------------------------------------------------------
(* Flow control end to end                                                 *)

\* The acks among a list of calls.
Acks(t) == Cardinality({k \in DOMAIN t : t[k] = "ack"})

\* How many acks each list of calls holds.
LEMMA AcksOf ==
  /\ Acks(<<>>) = 0
  /\ Acks(<<"start">>) = 0 /\ Acks(<<"stop">>) = 0 /\ Acks(<<"reply">>) = 0
  /\ Acks(<<"start", "reply">>) = 0 /\ Acks(<<"stop", "stop">>) = 0
  /\ Acks(<<"ack">>) = 1 /\ Acks(<<"ack", "ack">>) = 2
<1> DEFINE At(t) == {k \in DOMAIN t : t[k] = "ack"}
<1>1. /\ At(<<>>) = {} /\ At(<<"start">>) = {} /\ At(<<"stop">>) = {}
      /\ At(<<"reply">>) = {} /\ At(<<"start", "reply">>) = {}
      /\ At(<<"stop", "stop">>) = {}
  OBVIOUS
<1>2. At(<<"ack">>) = 1..1 /\ At(<<"ack", "ack">>) = 1..2
  OBVIOUS
<1>3. /\ Cardinality({}) = 0
      /\ Cardinality(1..1) = 1 /\ Cardinality(1..2) = 2
  <2>1. Cardinality({}) = 0
    BY FS_EmptySet
  <2>2. \A b \in Int : Cardinality(1..b) = IF 1 > b THEN 0 ELSE b - 1 + 1
    BY FS_Interval, 1 \in Int
  <2>3. /\ Cardinality(1..1) = IF 1 > 1 THEN 0 ELSE 1 - 1 + 1
        /\ Cardinality(1..2) = IF 1 > 2 THEN 0 ELSE 2 - 1 + 1
    BY <2>2, 1 \in Int, 2 \in Int, Zenon
  <2> QED
    BY <2>1, <2>3
<1> HIDE DEF At
<1>4. /\ Cardinality(At(<<>>)) = 0 /\ Cardinality(At(<<"start">>)) = 0
      /\ Cardinality(At(<<"stop">>)) = 0 /\ Cardinality(At(<<"reply">>)) = 0
      /\ Cardinality(At(<<"start", "reply">>)) = 0
      /\ Cardinality(At(<<"stop", "stop">>)) = 0
      /\ Cardinality(At(<<"ack">>)) = 1 /\ Cardinality(At(<<"ack", "ack">>)) = 2
  BY <1>1, <1>2, <1>3
<1> QED
  BY <1>4 DEF Acks, At

\* Taking a call off the list takes off its ack, if it is one; a start() that
\* is under way leaves none behind it.
LEMMA NextAck ==
  ASSUME NEW t \in Todos
  PROVE  /\ Acks(t) \in Nat
         /\ t # <<>> => Acks(Tail(t)) = IF Head(t) = "ack" THEN Acks(t) - 1
                                        ELSE Acks(t)
         /\ t # <<>> /\ Head(t) = "start" => Acks(Tail(t)) = 0
<1>1. Acks(t) \in Nat
  BY AcksOf DEF Todos
<1>2. /\ Tail(<<"start">>) = <<>> /\ Tail(<<"stop">>) = <<>>
      /\ Tail(<<"ack">>) = <<>> /\ Tail(<<"reply">>) = <<>>
      /\ Tail(<<"start", "reply">>) = <<"reply">>
      /\ Tail(<<"stop", "stop">>) = <<"stop">>
      /\ Tail(<<"ack", "ack">>) = <<"ack">>
  OBVIOUS
<1>3. /\ Head(<<"start">>) = "start" /\ Head(<<"stop">>) = "stop"
      /\ Head(<<"ack">>) = "ack" /\ Head(<<"reply">>) = "reply"
      /\ Head(<<"start", "reply">>) = "start"
      /\ Head(<<"stop", "stop">>) = "stop" /\ Head(<<"ack", "ack">>) = "ack"
  OBVIOUS
<1>4. CASE t = <<>>
  BY <1>1, <1>4
<1>5. CASE t \in {<<"start">>, <<"stop">>, <<"reply">>}
  BY <1>1, <1>2, <1>3, <1>5, AcksOf
<1>6. CASE t \in {<<"start", "reply">>, <<"stop", "stop">>}
  BY <1>1, <1>2, <1>3, <1>6, AcksOf
<1>7. CASE t \in {<<"ack">>, <<"ack", "ack">>}
  <2>1. CASE t = <<"ack">>
    BY <1>1, <1>2, <1>3, <2>1, AcksOf
  <2>2. CASE t = <<"ack", "ack">>
    <3>1. /\ Acks(t) = 2 /\ Tail(t) = <<"ack">> /\ Head(t) = "ack"
      BY <1>2, <1>3, <2>2, AcksOf
    <3>2. Acks(Tail(t)) = 1
      BY <3>1, AcksOf
    <3> QED
      BY <1>1, <3>1, <3>2
  <2> QED
    BY <1>7, <2>1, <2>2
<1> QED
  BY <1>4, <1>5, <1>6, <1>7 DEF Todos

\* Neither the acks of a channel that is not our ChannelId::Video nor the other
\* messages are counted more than once.
AckedOnce == VideoId # VideoByte /\ VideoId \notin AudioBytes

\* What a frame of the head unit does to the frames it is owed acks for: each
\* ack it sends is at least one call, and each is for a video frame it takes
\* off the wire or for an audio frame.
LEMMA HeadUnitFlow ==
  ASSUME SessionTyped,
         HUFocus \/ HUStart \/ HUStop \/ HUAck \/ HUAudioAck \/ HUSensorResponse
  PROVE  /\ UNCHANGED <<generation, in_flight, streamer, outbound, receiver, ahead,
                        lost>>
         /\ call = "none" /\ call' = "none"
         /\ Acks(todo) = 0 /\ todo' \in Todos
         /\ \/ wire' = wire
            \/ wire # <<>> /\ wire' = Tail(wire) /\ Acks(todo') >= 1
         /\ AckedOnce =>
              \/ wire' = wire /\ stray' = stray /\ Acks(todo') = 0
              \/ wire' = wire /\ stray' = stray + 1 /\ Acks(todo') = 1
              \/ /\ wire # <<>> /\ wire' = Tail(wire) /\ stray' = stray
                 /\ Acks(todo') = 1
<1>1. PICK ch \in Bytes, msg \in MessageIds :
        /\ HandleFrame(ch, msg)
        /\ msg \in {"VideoFocus", "Start"} => ch = VideoByte
  BY HeadUnitStep
<1>2. /\ UNCHANGED <<generation, in_flight, streamer, outbound, receiver, ahead, lost>>
      /\ call = "none" /\ call' = "none" /\ todo = <<>>
  BY <1>1 DEF HandleFrame, AtSelect, ControlIdle, history
<1>3. Acks(todo) = 0 /\ todo' \in Todos
  BY <1>1, <1>2, AcksOf, FrameHandled
<1>4. \A c : HandleFrame(c, "MediaAck") =>
        /\ Acks(todo') \in {1, 2}
        /\ c # VideoId => Acks(todo') = 1
  BY CallsOf, CallsElsewhere, AcksOf DEF HandleFrame
<1>5. \A c : HandleFrame(c, "VideoFocus") \/ HandleFrame(c, "Stop")
               \/ HandleFrame(c, "Start") => Acks(todo') = 0
  BY CallsOf, AcksOf DEF HandleFrame
<1>6. CASE HUFocus \/ HUStart \/ HUStop \/ HUSensorResponse
  <2>1. Acks(todo') = 0 /\ UNCHANGED <<wire, stray>>
    BY <1>5, <1>6 DEF HUFocus, HUStart, HUStop, HUSensorResponse
  <2> QED
    BY <1>2, <1>3, <2>1
<1>7. CASE HUAck
  <2>1. /\ HandleFrame(VideoByte, "MediaAck")
        /\ wire # <<>> /\ wire' = Tail(wire) /\ stray' = stray
    BY <1>7 DEF HUAck
  <2> QED
    BY <1>2, <1>3, <1>4, <2>1 DEF AckedOnce
<1>8. CASE HUAudioAck
  <2>1. PICK b \in AudioBytes : HandleFrame(b, "MediaAck")
    BY <1>8 DEF HUAudioAck
  <2>2. wire' = wire /\ stray' = stray + 1
    BY <1>8 DEF HUAudioAck
  <2> QED
    BY <1>2, <1>3, <1>4, <2>1, <2>2 DEF AckedOnce
<1> QED
  BY <1>6, <1>7, <1>8

\* The frames the head unit is owed acks for, and the acks it has sent that
\* are not counted yet, are covered by what the streamer of the first stream
\* is ahead, and the acks of audio frames.
OwedInv ==
  /\ generation = 0 => outbound = <<>> /\ wire = <<>>
  /\ generation <= 1 /\ call # "start" =>
       Unacked + PendingAcks <= ahead + stray
  /\ call = "start" => PendingAcks = 0

\* The numbers the flow invariants add up.
LEMMA FlowTypes ==
  ASSUME SessionTyped, TypeOK
  PROVE  /\ Len(outbound) \in Nat /\ Len(wire) \in Nat /\ Unacked \in Nat
         /\ PendingAcks = Acks(todo) /\ PendingAcks \in Nat
         /\ ahead \in Nat /\ stray \in Nat /\ lost \in Nat
         /\ generation \in Nat /\ in_flight \in Nat
<1>1. Len(outbound) \in Nat /\ Len(wire) \in Nat
  BY DEF SessionTyped, TypeOK
<1>2. Acks(todo) \in Nat
  BY NextAck DEF SessionTyped
<1>3. stray \in Nat /\ lost \in Nat
  BY SessionAssumption DEF SessionTyped
<1> QED
  BY <1>1, <1>2, <1>3, ConstantsAssumption
  DEF Unacked, PendingAcks, Acks, TypeOK

\* What the loop's own steps do to the same numbers: it moves a frame from
\* the queue to the wire, or drops it.
LEMMA DrainFlow ==
  ASSUME SessionTyped, TypeOK, DrainVideo
  PROVE  /\ UNCHANGED <<generation, in_flight, streamer, receiver, call, ahead,
                        stray, todo>>
         /\ outbound # <<>> /\ Len(outbound') = Len(outbound) - 1
         /\ \/ Len(wire') = Len(wire) + 1 /\ lost' = lost
            \/ Len(wire') = Len(wire) /\ lost' = lost + 1
<1>1. /\ outbound # <<>> /\ outbound' = Tail(outbound)
      /\ \/ lost' = lost /\ wire' = Append(wire, Head(outbound))
         \/ lost' = lost + 1 /\ wire' = wire
  BY DEF DrainVideo, Drain, Written, NotWritten
<1>2. outbound \in Seq(Frame) /\ wire \in Seq(Frame)
  BY DEF SessionTyped, TypeOK
<1>3. Head(outbound) \in Frame
  BY <1>1, <1>2
<1>4. /\ Len(outbound') = Len(outbound) - 1
      /\ Len(Append(wire, Head(outbound))) = Len(wire) + 1
  BY <1>1, <1>2, <1>3, QueueTail, QueueAppend
<1> QED
  BY <1>1, <1>4 DEF DrainVideo, Drain, AtSelect, history

\* A frame is queued by the streamer of a generation that has started.
LEMMA SendFlow ==
  ASSUME IInv, NEW g \in Generations, Send(g)
  PROVE  /\ Len(outbound') = Len(outbound) + 1
         /\ generation # 0
         /\ generation <= 1 => ahead' = ahead + 1
<1>1. [gen |-> g, channel |-> staged[g]] \in Frame
  BY DEF Frame, IInv, TypeOK
<1>2. Len(outbound') = Len(outbound) + 1
  <2>1. outbound' = Append(outbound, [gen |-> g, channel |-> staged[g]])
    BY DEF Send
  <2> QED
    BY <1>1, <2>1, QueueAppend DEF IInv, TypeOK
<1>3. g <= generation
  BY DEF Send, Goto, IInv, FutureIdle, TypeOK, Generations
<1> QED
  BY <1>2, <1>3, ConstantsAssumption
  DEF Send, Superseded, Generations, IInv, TypeOK

\* OwedInv holds initially,
LEMMA OwedInit == SessionInit => OwedInv
<1> SUFFICES ASSUME SessionInit PROVE OwedInv
  OBVIOUS
<1>1. /\ outbound = <<>> /\ wire = <<>> /\ todo = <<>> /\ ahead = 0 /\ stray = 0
      /\ call = "none"
  BY DEF SessionInit, Init
<1>2. Unacked = 0 /\ PendingAcks = 0
  BY <1>1, AcksOf DEF Unacked, PendingAcks, Acks
<1> QED
  BY <1>1, <1>2 DEF OwedInv

\* and every step keeps it.
LEMMA OwedStep ==
  ASSUME AckedOnce, OwedInv, SessionTyped, IInv, SessionTyped', TypeOK',
         [SessionNext]_sessionVars
  PROVE  OwedInv'
<1>0. TypeOK
  BY DEF IInv
<1>a. /\ Len(outbound) \in Nat /\ Len(wire) \in Nat /\ PendingAcks = Acks(todo)
      /\ Acks(todo) \in Nat /\ ahead \in Nat /\ stray \in Nat
      /\ generation \in Nat
      /\ Unacked = Len(outbound) + Len(wire)
  BY <1>0, FlowTypes DEF Unacked
<1>b. /\ Unacked' = Len(outbound') + Len(wire') /\ PendingAcks' = Acks(todo')
  BY DEF Unacked, PendingAcks, Acks
<1> SUFFICES
      /\ generation' = 0 => outbound' = <<>> /\ wire' = <<>>
      /\ generation' <= 1 /\ call' # "start" =>
           Len(outbound') + Len(wire') + Acks(todo') <= ahead' + stray'
      /\ call' = "start" => Acks(todo') = 0
  BY <1>b DEF OwedInv
<1>c. /\ generation = 0 => outbound = <<>> /\ wire = <<>>
      /\ generation <= 1 /\ call # "start" =>
           Len(outbound) + Len(wire) + Acks(todo) <= ahead + stray
      /\ call = "start" => Acks(todo) = 0
  BY <1>a DEF OwedInv
<1>1. CASE HUFocus \/ HUStart \/ HUStop \/ HUAck \/ HUAudioAck \/ HUSensorResponse
  <2>1. wire # <<>> => Tail(wire) # wire /\ Len(Tail(wire)) = Len(wire) - 1
    BY QueueTail DEF SessionTyped
  <2> QED
    BY <1>1, <1>a, <1>c, <2>1, HeadUnitFlow
<1>2. CASE RunCall
  <2>1. /\ UNCHANGED <<wire, stray, outbound>> /\ todo # <<>> /\ todo' = Tail(todo)
        /\ call = "none"
    BY <1>2 DEF RunCall, StartReset, StopBump, OnMediaAck, ControlIdle, vars, pipeline
  <2>2. /\ Acks(todo') = IF Head(todo) = "ack" THEN Acks(todo) - 1 ELSE Acks(todo)
        /\ Head(todo) = "start" => Acks(todo') = 0
    BY <2>1, NextAck DEF SessionTyped
  <2>3. CASE Head(todo) = "start"
    BY <1>2, <1>a, <1>c, <2>1, <2>2, <2>3 DEF RunCall, StartReset
  <2>4. CASE Head(todo) = "stop"
    <3>1. /\ call' = "stop" /\ ahead' = ahead
          /\ generation' = IF \E g \in Generations : Live(g)
                           THEN generation + 1 ELSE generation
      BY <1>2, <2>4 DEF RunCall, StopBump, history
    <3>2. generation' = generation \/ generation' = generation + 1
      BY <3>1
    <3> QED
      BY <1>a, <1>c, <2>1, <2>2, <2>4, <3>1, <3>2
  <2>5. CASE Head(todo) = "ack"
    <3>1. ahead' = Released(ahead) /\ call' = "none" /\ generation' = generation
      BY <1>2, <2>1, <2>5 DEF RunCall, OnMediaAck
    <3>2. Acks(todo) >= 1
      BY <2>1, <2>2, <2>5, NextAck, NextCall DEF SessionTyped
    <3> QED
      BY <1>a, <1>c, <2>1, <2>2, <2>5, <3>1, <3>2 DEF Released
  <2>6. CASE Head(todo) = "reply"
    BY <1>2, <1>a, <1>c, <2>1, <2>2, <2>6 DEF RunCall, vars, pipeline, history
  <2> QED
    BY <1>2, <2>3, <2>4, <2>5, <2>6 DEF RunCall
<1>3. CASE FinishCall
  <2>1. UNCHANGED <<todo, wire, outbound, stray>> /\ call' = "none"
    BY <1>3 DEF FinishCall, StartSpawn, StopReset
  <2>2. CASE StartSpawn
    <3>1. call = "start" /\ generation' = generation + 1 /\ ahead' = 0
      BY <2>2 DEF StartSpawn
    <3>2. generation' <= 1 => Len(outbound) = 0 /\ Len(wire) = 0
      BY <1>a, <1>c, <3>1
    <3> QED
      BY <1>a, <1>c, <2>1, <3>1, <3>2
  <2>3. CASE StopReset
    BY <1>a, <1>c, <2>1, <2>3 DEF StopReset, history
  <2> QED
    BY <1>3, <2>2, <2>3 DEF FinishCall
<1>4. CASE DrainVideo
  BY <1>0, <1>4, <1>a, <1>c, DrainFlow
<1>5. CASE SessionEnds
  <2>1. outbound' = <<>> /\ UNCHANGED <<generation, wire, stray, ahead, call, todo>>
    BY <1>5 DEF SessionEnds, Disconnect, session, history
  <2>2. Len(outbound') = 0
    BY <2>1
  <2> QED
    BY <1>a, <1>c, <2>1, <2>2
<1>6. ASSUME NEW g \in Generations, StreamerStep(g)
      PROVE  /\ generation' = 0 => outbound' = <<>> /\ wire' = <<>>
             /\ generation' <= 1 /\ call' # "start" =>
                  Len(outbound') + Len(wire') + Acks(todo') <= ahead' + stray'
             /\ call' = "start" => Acks(todo') = 0
  <2>1. UNCHANGED <<generation, call, wire, todo, stray>>
    BY <1>6 DEF StreamerStep, session, Streamer, Check, Gate, Wake, Cancel,
       NextFrame, Exhausted, Send, SendFails, Count
  <2>2. CASE Send(g)
    BY <1>a, <1>c, <2>1, <2>2, SendFlow
  <2>3. CASE ~Send(g)
    <3>1. UNCHANGED <<outbound, ahead>>
      BY <1>6, <2>3 DEF StreamerStep, Streamer, Check, Gate, Wake, Cancel,
         NextFrame, Exhausted, SendFails, Count, history
    <3> QED
      BY <1>a, <1>c, <2>1, <3>1
  <2> QED
    BY <2>2, <2>3
<1>7. CASE UNCHANGED sessionVars
  BY <1>7, <1>a, <1>c DEF sessionVars, session, vars, pipeline, history
<1> QED
  BY <1>1, <1>2, <1>3, <1>4, <1>5, <1>6, <1>7 DEF SessionNext

\* The pipeline's invariant holds in every session.
LEMMA SessionPipeline == SessionSpec => []IInv
BY SessionUsesPipeline, Invariance, PTL DEF PipelineSpec

\* As long as streaming is not restarted the head unit is never owed acks for
\* more than max_unacked frames, the acks of audio frames aside, whatever its
\* bytes are, if none of them makes one ack count twice (video/mod.rs:238-247,
\* 285-300, 345-382; control_channel.rs:525-531).
THEOREM OwedBounded == AckedOnce => (SessionSpec => []UnackedBound)
<1> SUFFICES ASSUME AckedOnce PROVE SessionSpec => []UnackedBound
  OBVIOUS
<1>1. OwedInv /\ (SessionTyped /\ IInv) /\ (SessionTyped /\ IInv)'
        /\ [SessionNext]_sessionVars => OwedInv'
  BY OwedStep DEF IInv
<1>2. OwedInv /\ SessionTyped /\ IInv => UnackedBound
  <2> SUFFICES ASSUME OwedInv, SessionTyped, IInv, generation <= 1, call # "start"
               PROVE  Unacked <= MaxInFlight + stray
    BY DEF UnackedBound
  <2>1. Unacked + PendingAcks <= ahead + stray
    BY DEF OwedInv
  <2>2. ahead <= MaxInFlight
    BY DEF IInv, Accounting
  <2> QED
    BY <2>1, <2>2, FlowTypes, ConstantsAssumption DEF IInv
<1>3. SessionSpec => []SessionTyped
  BY SessionTypes, PTL
<1> QED
  BY <1>1, <1>2, <1>3, OwedInit, SessionPipeline, PTL DEF SessionSpec

\* The streamers between their send and their fetch_add.
Uncounted == {g \in Generations : streamer[g] = "count"}
Counting == Cardinality(Uncounted)

\* What in_flight counts, or is about to, is a frame the head unit still has
\* to ack, an ack that is still to be processed, or a slot that was lost: one
\* for each streamer at most and one for each frame that was not written.
SlotInv ==
  receiver => in_flight + Counting <=
                Unacked + PendingAcks + generation + lost

\* At most one frame per streamer is sent and not yet counted.
LEMMA UncountedFew ==
  ASSUME IInv
  PROVE  /\ IsFiniteSet(Uncounted) /\ Counting \in Nat
         /\ Counting <= generation
<1>1. generation \in Nat
  BY ConstantsAssumption DEF IInv, TypeOK
<1>2. Uncounted \subseteq 1..generation
  <2> SUFFICES ASSUME NEW g \in Generations, streamer[g] = "count"
               PROVE  g \in 1..generation
    BY DEF Uncounted
  <2>1. g <= generation
    BY <1>1, ConstantsAssumption DEF IInv, FutureIdle, Generations
  <2> QED
    BY <1>1, <2>1, ConstantsAssumption DEF Generations
<1>3. IsFiniteSet(1..generation)
      /\ Cardinality(1..generation) = IF 1 > generation THEN 0 ELSE generation - 1 + 1
  BY <1>1, FS_Interval, 1 \in Int, generation \in Int
<1>4. /\ IsFiniteSet(Uncounted)
      /\ Counting <= Cardinality(1..generation)
  BY <1>2, <1>3, FS_Subset DEF Counting
<1>5. Counting \in Nat
  BY <1>4, FS_CardinalityType DEF Counting
<1> QED
  BY <1>1, <1>3, <1>4, <1>5

\* A send adds one to them, a fetch_add takes one away, and nothing else
\* changes them.
LEMMA UncountedStreamer ==
  ASSUME IInv, NEW g \in Generations, Streamer(g)
  PROVE  /\ Send(g) => Counting' = Counting + 1
         /\ Count(g) => Counting' = Counting - 1
         /\ ~Send(g) /\ ~Count(g) =>
              Uncounted' = Uncounted /\ UNCHANGED <<outbound, in_flight>>
<1>0. streamer \in [Generations -> StreamerState]
  BY DEF IInv, TypeOK
<1>1. CASE Send(g)
  <2>1. streamer' = [streamer EXCEPT ![g] = "count"] /\ streamer[g] = "send"
    BY <1>1 DEF Send, Goto
  <2>2. Uncounted' = Uncounted \cup {g} /\ g \notin Uncounted
    BY <1>0, <2>1 DEF Uncounted
  <2>3. ~Count(g)
    BY <2>1 DEF Count, Goto
  <2> QED
    BY <1>1, <2>2, <2>3, UncountedFew, FS_AddElement DEF Counting
<1>2. CASE Count(g)
  <2>1. streamer' = [streamer EXCEPT ![g] = "check"] /\ streamer[g] = "count"
    BY <1>2 DEF Count, Goto
  <2>2. Uncounted' = Uncounted \ {g} /\ g \in Uncounted
    BY <1>0, <2>1 DEF Uncounted
  <2>3. ~Send(g)
    BY <2>1 DEF Send, Goto
  <2> QED
    BY <1>2, <2>2, <2>3, UncountedFew, FS_RemoveElement DEF Counting
<1>3. CASE ~Send(g) /\ ~Count(g)
  <2>1. \E from, to \in StreamerState \ {"count"} : Goto(g, from, to)
    BY <1>3 DEF Streamer, Check, Gate, Wake, Cancel, NextFrame, Exhausted,
       SendFails, StreamerState
  <2>2. Uncounted' = Uncounted
    BY <1>0, <2>1 DEF Goto, Uncounted
  <2>3. UNCHANGED <<outbound, in_flight>>
    BY <1>3 DEF Streamer, Check, Gate, Wake, Cancel, NextFrame, Exhausted,
       SendFails
  <2> QED
    BY <1>3, <2>2, <2>3
<1> QED
  BY <1>1, <1>2, <1>3

\* SlotInv holds initially,
LEMMA SlotInit == SessionInit => SlotInv
<1> SUFFICES ASSUME SessionInit PROVE SlotInv
  OBVIOUS
<1>1. Uncounted = {}
  BY DEF SessionInit, Init, Uncounted
<1>2. /\ Unacked = 0 /\ PendingAcks = 0 /\ in_flight = 0 /\ generation = 0
      /\ lost = 0
  BY AcksOf DEF SessionInit, Init, Unacked, PendingAcks, Acks
<1> QED
  BY <1>1, <1>2, FS_EmptySet DEF SlotInv, Counting

\* and every step keeps it.
LEMMA SlotStep ==
  ASSUME SlotInv, SessionTyped, IInv, SessionTyped', IInv',
         [SessionNext]_sessionVars
  PROVE  SlotInv'
<1>0. TypeOK /\ TypeOK'
  BY DEF IInv
<1>a. /\ Unacked \in Nat /\ PendingAcks \in Nat /\ lost \in Nat
      /\ in_flight \in Nat /\ generation \in Nat
      /\ Counting \in Nat /\ Counting <= generation
  BY <1>0, FlowTypes, UncountedFew
<1>b. Unacked' \in Nat /\ PendingAcks' \in Nat
  <2>1. Unacked' \in Nat
    BY <1>0 DEF Unacked, TypeOK, SessionTyped
  <2>2. PendingAcks' \in Nat
    BY NextAck DEF PendingAcks, Acks, SessionTyped
  <2> QED
    BY <2>1, <2>2
<1>c. /\ UNCHANGED <<outbound, wire>> => Unacked' = Unacked
      /\ UNCHANGED todo => PendingAcks' = PendingAcks
      /\ UNCHANGED streamer => Counting' = Counting
  BY DEF Unacked, PendingAcks, Uncounted, Counting
<1>d. /\ Len(outbound) \in Nat /\ Len(wire) \in Nat
      /\ Unacked = Len(outbound) + Len(wire)
      /\ Unacked' = Len(outbound') + Len(wire')
  BY <1>0 DEF Unacked, TypeOK, SessionTyped
<1> SUFFICES ASSUME receiver', receiver' = receiver
             PROVE  in_flight' + Counting' <=
                      Unacked' + PendingAcks' + generation' + lost'
  <2>1. receiver' => receiver' = receiver
    BY DEF SessionNext, sessionVars, session, vars, pipeline, HUFocus, HUStart,
       HUStop, HUAck, HUAudioAck, HUSensorResponse, HandleFrame, RunCall,
       StartReset, StopBump, OnMediaAck, FinishCall, StartSpawn, StopReset,
       DrainVideo, Drain, SessionEnds, Disconnect, StreamerStep, Streamer,
       Check, Gate, Wake, Cancel, NextFrame, Exhausted, Send, SendFails, Count
  <2> QED
    BY <2>1 DEF SlotInv
<1>e. in_flight + Counting <= Unacked + PendingAcks + generation + lost
  <2>1. receiver
    OBVIOUS
  <2> QED
    BY <2>1 DEF SlotInv
<1>u. PICK u : u \in Nat /\ u = Unacked'
  BY <1>b
<1>p. PICK p : p \in Nat /\ p = PendingAcks'
  BY <1>b
<1>t. u \in Nat /\ p \in Nat
  BY <1>u, <1>p
<1> SUFFICES in_flight' + Counting' <= u + p + generation' + lost'
  BY <1>u, <1>p
<1>f. /\ UNCHANGED <<outbound, wire>> => u = Unacked
      /\ UNCHANGED todo => p = PendingAcks
      /\ u = Len(outbound') + Len(wire') /\ p = Acks(todo')
  BY <1>c, <1>d, <1>u, <1>p DEF PendingAcks, Acks
<1>1. CASE HUFocus \/ HUStart \/ HUStop \/ HUAck \/ HUAudioAck \/ HUSensorResponse
  <2>1. /\ UNCHANGED <<generation, in_flight, streamer, outbound, lost>>
        /\ Acks(todo) = 0
        /\ \/ wire' = wire
           \/ wire # <<>> /\ wire' = Tail(wire) /\ Acks(todo') >= 1
    BY <1>1, HeadUnitFlow
  <2>2. PendingAcks = 0 /\ Counting' = Counting
    BY <1>c, <1>f, <2>1 DEF PendingAcks, Acks
  <2>3. CASE wire' = wire
    <3>1. u = Unacked
      BY <1>c, <1>f, <2>1, <2>3
    <3>2. /\ UNCHANGED <<generation, in_flight, lost>> /\ PendingAcks = 0
          /\ Counting' = Counting
      BY <2>1, <2>2
    <3> QED
      BY <1>a, <1>t, <1>e, <3>1, <3>2
  <2>4. CASE wire # <<>> /\ wire' = Tail(wire) /\ Acks(todo') >= 1
    <3>1. Len(wire') = Len(wire) - 1
      BY <2>4, QueueTail DEF SessionTyped
    <3>2. u = Unacked - 1
      BY <1>d, <1>f, <2>1, <3>1
    <3>3. p >= 1
      BY <1>f, <2>4
    <3>4. /\ UNCHANGED <<generation, in_flight, lost>> /\ PendingAcks = 0
          /\ Counting' = Counting
      BY <2>1, <2>2
    <3> QED
      BY <1>a, <1>t, <1>e, <3>2, <3>3, <3>4
  <2> QED
    BY <2>1, <2>3, <2>4
<1>2. CASE RunCall
  <2>1. /\ UNCHANGED <<wire, outbound, streamer>> /\ todo # <<>>
        /\ todo' = Tail(todo)
    BY <1>2 DEF RunCall, StartReset, StopBump, OnMediaAck, vars, pipeline
  <2>2. p = IF Head(todo) = "ack" THEN PendingAcks - 1 ELSE PendingAcks
    BY <1>f, <2>1, NextAck DEF SessionTyped, PendingAcks, Acks
  <2>3. u = Unacked /\ Counting' = Counting
    BY <1>c, <1>f, <2>1
  <2>4. CASE Head(todo) = "start"
    <3>1. in_flight' = 0 /\ UNCHANGED <<generation, lost>>
      BY <1>2, <2>4 DEF RunCall, StartReset
    <3>2. Counting' = Counting
      BY <2>3
    <3> QED
      BY <1>a, <1>t, <3>1, <3>2
  <2>5. CASE Head(todo) = "stop"
    <3>1. /\ UNCHANGED <<in_flight, lost>>
          /\ generation' = IF \E g \in Generations : Live(g)
                           THEN generation + 1 ELSE generation
      BY <1>2, <2>5 DEF RunCall, StopBump
    <3>2. generation' = generation \/ generation' = generation + 1
      BY <3>1
    <3>3. p = PendingAcks
      BY <2>2, <2>5
    <3> QED
      BY <1>a, <1>t, <1>e, <2>3, <3>1, <3>2, <3>3
  <2>6. CASE Head(todo) = "ack"
    <3>1. in_flight' = Released(in_flight) /\ UNCHANGED <<generation, lost>>
      BY <1>2, <2>6 DEF RunCall, OnMediaAck
    <3>2. p = PendingAcks - 1
      BY <2>2, <2>6
    <3>3. \/ in_flight' = 0
          \/ in_flight > 0 /\ in_flight' = in_flight - 1
      BY <1>a, <1>t, <3>1 DEF Released
    <3> QED
      BY <1>a, <1>t, <1>e, <2>3, <3>1, <3>2, <3>3
  <2>7. CASE Head(todo) = "reply"
    <3>1. UNCHANGED <<in_flight, generation>> /\ (lost' = lost \/ lost' = lost + 1)
      BY <1>2, <2>7 DEF RunCall, vars, pipeline, Written, NotWritten
    <3>2. p = PendingAcks
      BY <2>2, <2>7
    <3> QED
      BY <1>a, <1>t, <1>e, <2>3, <3>1, <3>2
  <2> QED
    BY <1>2, <2>4, <2>5, <2>6, <2>7 DEF RunCall
<1>3. CASE FinishCall
  <2>1. UNCHANGED <<todo, wire, outbound, lost>>
    BY <1>3 DEF FinishCall, StartSpawn, StopReset
  <2>2. CASE StartSpawn
    <3>1. /\ generation' = generation + 1 /\ in_flight' = in_flight
          /\ streamer' = [streamer EXCEPT ![generation + 1] = "check"]
          /\ generation + 1 \in Generations
      BY <2>2, <1>a, ConstantsAssumption
      DEF StartSpawn, IInv, CallHalfWay, Generations
    <3>2. streamer[generation + 1] = "idle"
      BY <1>a, <1>t, <3>1 DEF IInv, FutureIdle
    <3>3. Uncounted' = Uncounted
      BY <3>1, <3>2 DEF Uncounted, IInv, TypeOK
    <3>4. Counting' = Counting
      BY <3>3 DEF Counting
    <3> QED
      BY <1>a, <1>t, <1>c, <1>f, <1>e, <2>1, <3>1, <3>4
  <2>3. CASE StopReset
    <3>1. in_flight' = 0 /\ UNCHANGED <<generation, streamer>>
      BY <2>3 DEF StopReset
    <3> QED
      BY <1>a, <1>t, <1>c, <1>f, <2>1, <3>1
  <2> QED
    BY <1>3, <2>2, <2>3 DEF FinishCall
<1>4. CASE DrainVideo
  <2>1. /\ UNCHANGED <<generation, in_flight, streamer, todo>>
        /\ Len(outbound') = Len(outbound) - 1
        /\ \/ Len(wire') = Len(wire) + 1 /\ lost' = lost
           \/ Len(wire') = Len(wire) /\ lost' = lost + 1
    BY <1>0, <1>4, DrainFlow
  <2>2. \/ u = Unacked /\ lost' = lost
        \/ u = Unacked - 1 /\ lost' = lost + 1
    BY <1>d, <1>f, <2>1
  <2> QED
    BY <1>a, <1>t, <1>c, <1>f, <1>e, <2>1, <2>2
<1>5. CASE SessionEnds
  BY <1>5 DEF SessionEnds, Disconnect
<1>6. ASSUME NEW g \in Generations, StreamerStep(g)
      PROVE  in_flight' + Counting' <= u + p + generation' + lost'
  <2>1. UNCHANGED <<generation, wire, todo, lost>> /\ Streamer(g)
    BY <1>6 DEF StreamerStep, session, Streamer, Check, Gate, Wake, Cancel,
       NextFrame, Exhausted, Send, SendFails, Count
  <2>2. p = PendingAcks
    BY <1>c, <1>f, <2>1
  <2>3. CASE Send(g)
    <3>1. Counting' = Counting + 1
      BY <2>1, <2>3, UncountedStreamer
    <3>2. in_flight' = in_flight /\ Len(outbound') = Len(outbound) + 1
      BY <2>3, SendFlow DEF Send
    <3>3. u = Unacked + 1
      BY <1>d, <1>f, <2>1, <3>2
    <3> QED
      BY <1>a, <1>t, <1>e, <2>1, <2>2, <3>1, <3>2, <3>3
  <2>4. CASE Count(g)
    <3>1. Counting' = Counting - 1
      BY <2>1, <2>4, UncountedStreamer
    <3>2. in_flight' = in_flight + 1 /\ outbound' = outbound
      BY <2>4 DEF Count
    <3> QED
      BY <1>a, <1>t, <1>c, <1>f, <1>e, <2>1, <2>2, <3>1, <3>2
  <2>5. CASE ~Send(g) /\ ~Count(g)
    <3>1. Uncounted' = Uncounted /\ UNCHANGED <<outbound, in_flight>>
      BY <2>1, <2>5, UncountedStreamer
    <3>2. Counting' = Counting
      BY <3>1 DEF Counting
    <3> QED
      BY <1>a, <1>t, <1>c, <1>f, <1>e, <2>1, <2>2, <3>1, <3>2
  <2> QED
    BY <2>3, <2>4, <2>5
<1>7. CASE UNCHANGED sessionVars
  BY <1>7, <1>a, <1>c, <1>f, <1>e DEF sessionVars, session, vars, pipeline
<1> QED
  BY <1>1, <1>2, <1>3, <1>4, <1>5, <1>6, <1>7 DEF SessionNext

\* A streamer loses one slot at most to an ack that overtook its fetch_add,
\* and no other slot is lost but those of frames that were not written,
\* whatever bytes the head unit assigns (video/mod.rs:274-305, 372-382).
THEOREM SlotsLostBounded == SessionSpec => []SlotLeakBound
<1>1. SlotInv /\ (SessionTyped /\ IInv) /\ (SessionTyped /\ IInv)'
        /\ [SessionNext]_sessionVars => SlotInv'
  BY SlotStep
<1>2. SlotInv /\ SessionTyped /\ IInv => SlotLeakBound
  <2> SUFFICES ASSUME SlotInv, SessionTyped, IInv, receiver
               PROVE  in_flight <= Unacked + PendingAcks + generation + lost
    BY DEF SlotLeakBound
  <2> QED
    BY UncountedFew, FlowTypes DEF SlotInv, IInv
<1>3. SessionSpec => []SessionTyped
  BY SessionTypes, PTL
<1> QED
  BY <1>1, <1>2, <1>3, SlotInit, SessionPipeline, PTL DEF SessionSpec

=============================================================================
