------------------------ MODULE AudioChannels_proofs ------------------------
(***************************************************************************)
(* The audio channels for any set of channels, any number of encoders and  *)
(* any capacity of the queue: a stopped encoder queues one more frame at   *)
(* most, and data on a channel the car holds open is acknowledged.         *)
(***************************************************************************)
EXTENDS AudioChannels, TLAPS

\* A START in progress has an encoder left to spawn; encoders not spawned yet
\* have not begun, so none of them waits with a frame.
Spawning ==
  /\ starting # None => spawned < MaxEncoders
  /\ \A e \in Encoders : e > spawned => encoder[e] = "unborn"

\* The late frame is the one an encoder held when its stop signal came: once
\* it is queued the encoder is back at its select!, sees the signal, and never
\* asks its source again.
LateFrame ==
  \A e \in Encoders :
    /\ late[e] \in {0, 1}
    /\ late[e] = 1 => SeesStop(e) /\ encoder[e] \in {"select", "exited"}

\* A sink attached by an OPEN stays; on a channel the car has opened, START
\* and STOP keep the car's view and ours the same.
Held ==
  /\ opened \subseteq Inputs
  /\ \A c \in opened : sink[c]
  /\ \A c \in held : started[c]
  /\ HeldOpenIsAcked

AudioInv == TypeOK /\ Spawning /\ LateFrame /\ Held

\* The numbers the encoders are given.
LEMMA Positions ==
  /\ MaxEncoders \in Nat /\ QueueCap \in Nat
  /\ \A e \in Encoders : e \in Nat /\ e # None
BY AudioAssumption DEF Encoders, None

\* A queue below its capacity takes one more message,
LEMMA AppendFits ==
  ASSUME NEW S, NEW q \in Seq(S), NEW cap \in Nat, Len(q) < cap, NEW x \in S
  PROVE  Append(q, x) \in Seq(S) /\ Len(Append(q, x)) <= cap
OBVIOUS

\* and one that loses a message still fits.
LEMMA TailFits ==
  ASSUME NEW S, NEW q \in Seq(S), NEW cap \in Nat, Len(q) <= cap, q # <<>>
  PROVE  Tail(q) \in Seq(S) /\ Len(Tail(q)) <= cap
OBVIOUS

\* AudioInv holds initially,
LEMMA AudioInit == Init => AudioInv
<1> SUFFICES ASSUME Init PROVE AudioInv
  OBVIOUS
<1>1. TypeOK
  BY AudioAssumption, Positions DEF Init, TypeOK
<1>2. Spawning /\ LateFrame /\ Held
  BY DEF Init, Spawning, LateFrame, Held, HeldOpenIsAcked
<1> QED
  BY <1>1, <1>2 DEF AudioInv

\* Once an encoder has been spawned and sees its stop signal it always will.
LEMMA StopIsKept ==
  ASSUME TypeOK, NEW e \in Encoders, SeesStop(e),
         \/ UNCHANGED <<stop_tx, signalled>>
         \/ \E c \in Channels : SignalStop(c)
         \/ stop_tx' = [c \in Channels |-> None] /\ UNCHANGED signalled
  PROVE  SeesStop(e)'
BY Positions DEF TypeOK, SeesStop, SignalStop

\* Handlers that neither spawn an encoder nor run one keep LateFrame.
LEMMA LateFrameKept ==
  ASSUME AudioInv, UNCHANGED <<late, encoder>>,
         \/ UNCHANGED <<stop_tx, signalled>>
         \/ \E c \in Channels : SignalStop(c)
         \/ stop_tx' = [c \in Channels |-> None] /\ UNCHANGED signalled
  PROVE  LateFrame'
BY StopIsKept DEF AudioInv, LateFrame

\* The manager's handlers.
LEMMA HandlerStep ==
  ASSUME AudioInv, Handler
  PROVE  AudioInv'
<1> USE DEF Channels
<1>1. ASSUME NEW c \in Channels, StartTakesOver(c) PROVE AudioInv'
  <2>1. TypeOK'
    BY <1>1 DEF StartTakesOver, SignalStop, CarHolds, AudioInv, TypeOK, files
  <2>2. Spawning'
    BY <1>1 DEF StartTakesOver, AudioInv, Spawning
  <2>3. LateFrame'
    BY <1>1, LateFrameKept DEF StartTakesOver
  <2>4. Held'
    BY <1>1, AudioAssumption DEF StartTakesOver, CarHolds, AudioInv, Held,
       HeldOpenIsAcked
  <2> QED
    BY <2>1, <2>2, <2>3, <2>4 DEF AudioInv
<1>2. ASSUME NEW c \in Channels, StartInput(c) PROVE AudioInv'
  <2>1. TypeOK'
    BY <1>2 DEF StartInput, CarHolds, AudioInv, TypeOK, files, tasks
  <2>2. Spawning'
    BY <1>2 DEF StartInput, AudioInv, Spawning, tasks
  <2>3. LateFrame'
    BY <1>2, LateFrameKept DEF StartInput, tasks
  <2>4. Held'
    BY <1>2 DEF StartInput, CarHolds, AudioInv, TypeOK, Held, HeldOpenIsAcked
  <2> QED
    BY <2>1, <2>2, <2>3, <2>4 DEF AudioInv
<1>3. ASSUME NEW c \in Channels, Stop(c) PROVE AudioInv'
  <2>1. TypeOK'
    <3>1. /\ flushes' \in [Channels -> Nat]
          /\ marked' \in [Channels -> Nat]
          /\ held' \subseteq opened'
      <4>1. /\ flushes \in [Channels -> Nat] /\ marked \in [Channels -> Nat]
            /\ written \in [Channels -> Nat] /\ held \subseteq opened
        BY DEF AudioInv, TypeOK
      <4>2. flushes' \in [Channels -> Nat]
        BY <1>3, <4>1 DEF Stop
      <4>3. marked' \in [Channels -> Nat]
        BY <1>3, <4>1 DEF Stop, Mark
      <4>4. held' \subseteq opened'
        BY <1>3, <4>1 DEF Stop, CarHolds
      <4> QED
        BY <4>2, <4>3, <4>4
    <3>2. /\ stop_tx' \in [Channels -> Encoders \cup {None}]
          /\ signalled' \in [Encoders -> BOOLEAN]
          /\ started' \in [Channels -> BOOLEAN]
      BY <1>3 DEF Stop, SignalStop, AudioInv, TypeOK
    <3> QED
      BY <1>3, <3>1, <3>2 DEF Stop, AudioInv, TypeOK
  <2>2. Spawning'
    BY <1>3 DEF Stop, AudioInv, Spawning
  <2>3. LateFrame'
    BY <1>3, LateFrameKept DEF Stop
  <2>4. Held'
    BY <1>3 DEF Stop, CarHolds, AudioInv, TypeOK, Held, HeldOpenIsAcked
  <2> QED
    BY <2>1, <2>2, <2>3, <2>4 DEF AudioInv
<1>4. ASSUME NEW c \in Inputs, NEW open \in BOOLEAN, InputOpen(c, open)
      PROVE  AudioInv'
  <2>1. TypeOK'
    <3>1. /\ sink' \in [Channels -> BOOLEAN]
          /\ started' \in [Channels -> BOOLEAN]
          /\ opened' \subseteq Channels
          /\ held' \subseteq opened'
      BY <1>4 DEF InputOpen, CarHolds, AudioInv, TypeOK
    <3> QED
      BY <1>4, <3>1 DEF InputOpen, AudioInv, TypeOK, files, tasks
  <2>2. Spawning'
    BY <1>4 DEF InputOpen, AudioInv, Spawning, tasks
  <2>3. LateFrame'
    BY <1>4, LateFrameKept DEF InputOpen, tasks
  <2>4. Held'
    BY <1>4 DEF InputOpen, CarHolds, AudioInv, TypeOK, Held, HeldOpenIsAcked
  <2> QED
    BY <2>1, <2>2, <2>3, <2>4 DEF AudioInv
<1>5. ASSUME NEW c \in Inputs, NEW wellFormed \in BOOLEAN,
             DataFrame(c, wellFormed)
      PROVE  AudioInv'
  <2>1. owed' = owed
    BY <1>5 DEF DataFrame, Accepted, AudioInv, Held, TypeOK
  <2>2. TypeOK'
    <3>1. sent' \in 0..MaxData
      BY <1>5, AudioAssumption DEF DataFrame, AudioInv, TypeOK
    <3>2. written' \in [Channels -> Nat]
      <4>1. /\ written \in [Channels -> Nat]
            /\ \/ written' = [written EXCEPT ![c] = @ + 1]
               \/ written' = written
        BY <1>5 DEF DataFrame, AudioInv, TypeOK
      <4> QED
        BY <4>1
    <3> QED
      BY <1>5, <2>1, <3>1, <3>2 DEF DataFrame, AudioInv, TypeOK, tables, tasks
  <2>3. Spawning'
    BY <1>5 DEF DataFrame, AudioInv, Spawning, tasks
  <2>4. LateFrame'
    BY <1>5, LateFrameKept DEF DataFrame, tables, tasks
  <2>5. Held'
    BY <1>5, <2>1 DEF DataFrame, AudioInv, Held, HeldOpenIsAcked, tables
  <2> QED
    BY <2>2, <2>3, <2>4, <2>5 DEF AudioInv
<1> QED
  BY <1>1, <1>2, <1>3, <1>4, <1>5 DEF Handler

\* The second half of a START: the new encoder begins with a fresh signal.
LEMMA StartSpawnsStep ==
  ASSUME AudioInv, NEW c \in Channels, StartSpawns(c)
  PROVE  AudioInv'
<1> DEFINE new == spawned + 1
<1>1. /\ new \in Encoders /\ encoder[new] = "unborn" /\ spawned \in Nat
      /\ c \in Outputs
  BY Positions DEF StartSpawns, AudioInv, Spawning, TypeOK, Encoders
<1>2. TypeOK'
  <2>1. /\ spawned' \in 0..MaxEncoders /\ starting' \in Outputs \cup {None}
        /\ new \in 1..MaxEncoders
    BY <1>1 DEF StartSpawns, Encoders
  <2>2. /\ started' \in [Channels -> BOOLEAN]
        /\ stop_tx' \in [Channels -> Encoders \cup {None}]
    BY <1>1 DEF StartSpawns, AudioInv, TypeOK
  <2>3. owner' \in [Encoders -> Outputs \cup {None}]
    BY <1>1 DEF StartSpawns, AudioInv, TypeOK
  <2>4. encoder' \in [Encoders -> {"unborn", "select", "send", "exited"}]
    BY <1>1 DEF StartSpawns, AudioInv, TypeOK
  <2>5. UNCHANGED <<manager, queue, sink, signalled, files, history>>
    BY DEF StartSpawns
  <2> QED
    BY <2>1, <2>2, <2>3, <2>4, <2>5 DEF AudioInv, TypeOK, files, history
<1>3. Spawning'
  BY <1>1, Positions DEF StartSpawns, AudioInv, Spawning, TypeOK
<1>4. LateFrame'
  <2> SUFFICES ASSUME NEW e \in Encoders
               PROVE  /\ late'[e] \in {0, 1}
                      /\ late'[e] = 1 => /\ SeesStop(e)'
                                         /\ encoder'[e] \in {"select", "exited"}
    BY DEF LateFrame, SeesStop
  <2>1. late' = late
    BY DEF StartSpawns, history
  <2>2. CASE e = new
    BY <1>1, <2>1, <2>2 DEF AudioInv, LateFrame
  <2>3. CASE e # new
    <3>1. encoder'[e] = encoder[e] /\ signalled'[e] = signalled[e]
      BY <1>1, <2>3 DEF StartSpawns, AudioInv, TypeOK
    <3>2. \A d \in Channels : stop_tx[d] # e => stop_tx'[d] # e
      BY <2>3 DEF StartSpawns, AudioInv, TypeOK
    <3> QED
      BY <2>1, <3>1, <3>2 DEF AudioInv, LateFrame, SeesStop
  <2> QED
    BY <2>2, <2>3
<1>5. Held'
  BY DEF StartSpawns, AudioInv, TypeOK, Held, HeldOpenIsAcked, history
<1> QED
  BY <1>2, <1>3, <1>4, <1>5 DEF AudioInv

\* One step of an encoder.
LEMMA EncoderStep ==
  ASSUME AudioInv, NEW e \in Encoders, Encoder(e)
  PROVE  AudioInv'
<1>1. Held'
  BY DEF Encoder, Select, Send, SendFails, tables, history, AudioInv, Held,
     HeldOpenIsAcked
<1>2. encoder[e] # "unborn"
  BY DEF Encoder, Select, Send, SendFails
<1>3. Spawning'
  BY <1>2 DEF Encoder, Select, Send, SendFails, AudioInv, TypeOK, Spawning
<1>4. CASE Select(e) \/ SendFails(e)
  <2>1. TypeOK'
    BY <1>4 DEF Select, SendFails, AudioInv, TypeOK, tables, files, history
  <2>2. LateFrame'
    <3>1. /\ UNCHANGED <<late, signalled, stop_tx>>
          /\ encoder \in [Encoders -> {"unborn", "select", "send", "exited"}]
      BY <1>4 DEF Select, SendFails, AudioInv, TypeOK, tables, history
    <3>2. \/ encoder' = [encoder EXCEPT ![e] = "exited"]
          \/ ~SeesStop(e) /\ encoder' = [encoder EXCEPT ![e] = "send"]
      BY <1>4 DEF Select, SendFails
    <3> QED
      BY <3>1, <3>2 DEF AudioInv, LateFrame, SeesStop
  <2> QED
    BY <1>1, <1>3, <2>1, <2>2 DEF AudioInv
<1>5. CASE Send(e)
  <2>1. late[e] = 0
    BY <1>5 DEF Send, AudioInv, LateFrame
  <2>2. queue' \in Seq(Encoders) /\ Len(queue') <= QueueCap
    BY <1>5, AppendFits, Positions DEF Send, AudioInv, TypeOK
  <2>3. late' \in [Encoders -> Nat]
    BY <1>5 DEF Send, AudioInv, TypeOK
  <2>4. TypeOK'
    BY <1>5, <2>2, <2>3 DEF Send, AudioInv, TypeOK, tables, files
  <2>5. LateFrame'
    <3>1. /\ UNCHANGED <<signalled, stop_tx>>
          /\ \A d \in Encoders : SeesStop(d)' <=> SeesStop(d)
      BY <1>5 DEF Send, SeesStop, tables
    <3>2. /\ encoder \in [Encoders -> {"unborn", "select", "send", "exited"}]
          /\ late \in [Encoders -> Nat]
      BY DEF AudioInv, TypeOK
    <3>3. encoder' = [encoder EXCEPT ![e] = "select"]
          /\ late' = IF SeesStop(e) THEN [late EXCEPT ![e] = @ + 1] ELSE late
      BY <1>5 DEF Send
    <3> SUFFICES ASSUME NEW d \in Encoders
                 PROVE  /\ late'[d] \in {0, 1}
                        /\ late'[d] = 1 => /\ SeesStop(d)'
                                           /\ encoder'[d] \in {"select", "exited"}
      BY DEF LateFrame, SeesStop
    <3>4. CASE d = e
      BY <2>1, <3>1, <3>2, <3>3, <3>4
    <3>5. CASE d # e
      BY <3>1, <3>2, <3>3, <3>5 DEF AudioInv, LateFrame
    <3> QED
      BY <3>4, <3>5
  <2> QED
    BY <1>1, <1>3, <2>4, <2>5 DEF AudioInv
<1> QED
  BY <1>4, <1>5 DEF Encoder

\* The control loop, the flush tasks and the end of their runtime.
LEMMA OtherStep ==
  ASSUME AudioInv,
         \/ Drain \/ SessionEnds \/ RuntimeDropped
         \/ \E c \in Channels : RunFlush(c) \/ FlushFails(c)
  PROVE  AudioInv'
<1>1. CASE Drain
  <2>1. queue' \in Seq(Encoders) /\ Len(queue') <= QueueCap
    BY <1>1, TailFits, Positions DEF Drain, AudioInv, TypeOK
  <2>2. TypeOK'
    BY <1>1, <2>1 DEF Drain, AudioInv, TypeOK, tables, tasks, files, history
  <2>3. Spawning' /\ LateFrame'
    BY <1>1, LateFrameKept DEF Drain, AudioInv, Spawning, tables, tasks, history
  <2>4. Held'
    BY <1>1 DEF Drain, AudioInv, Held, HeldOpenIsAcked, tables, history
  <2> QED
    BY <2>2, <2>3, <2>4 DEF AudioInv
<1>2. CASE SessionEnds
  <2>1. queue' \in Seq(Encoders) /\ Len(queue') <= QueueCap
    BY <1>2, Positions DEF SessionEnds
  <2>2. TypeOK'
    BY <1>2, <2>1 DEF SessionEnds, AudioInv, TypeOK, tasks, files, history
  <2>3. Spawning' /\ LateFrame'
    BY <1>2, LateFrameKept DEF SessionEnds, AudioInv, Spawning, tasks, history
  <2>4. Held'
    BY <1>2 DEF SessionEnds, AudioInv, Held, HeldOpenIsAcked, history
  <2> QED
    BY <2>2, <2>3, <2>4 DEF AudioInv
<1>3. ASSUME NEW c \in Channels, RunFlush(c) PROVE AudioInv'
  <2>0. flushes' \in [Channels -> Nat] /\ flushed' \in [Channels -> Nat]
    <3>1. flushes \in [Channels -> Nat] /\ flushed \in [Channels -> Nat]
          /\ written \in [Channels -> Nat]
      BY DEF AudioInv, TypeOK
    <3>2. flushes[c] - 1 \in Nat /\ written[c] \in Nat
      BY <1>3, <3>1 DEF RunFlush
    <3> QED
      BY <1>3, <3>1, <3>2 DEF RunFlush
  <2>1. TypeOK'
    <3>1. UNCHANGED <<manager, starting, queue, tables, tasks, written, history>>
      BY <1>3 DEF RunFlush
    <3> QED
      BY <2>0, <3>1 DEF AudioInv, TypeOK, tables, tasks, history
  <2>2. Spawning' /\ LateFrame'
    BY <1>3, LateFrameKept DEF RunFlush, AudioInv, Spawning, tables, tasks,
       history
  <2>3. Held'
    BY <1>3 DEF RunFlush, AudioInv, Held, HeldOpenIsAcked, tables, history
  <2> QED
    BY <2>1, <2>2, <2>3 DEF AudioInv
<1>4. ASSUME NEW c \in Channels, FlushFails(c) PROVE AudioInv'
  <2>0. flushes' \in [Channels -> Nat] /\ failed' \in [Channels -> Nat]
    <3>1. flushes \in [Channels -> Nat] /\ failed \in [Channels -> Nat]
          /\ written \in [Channels -> Nat]
      BY DEF AudioInv, TypeOK
    <3>2. flushes[c] - 1 \in Nat /\ written[c] \in Nat
      BY <1>4, <3>1 DEF FlushFails
    <3> QED
      BY <1>4, <3>1, <3>2 DEF FlushFails
  <2>1. TypeOK'
    <3>1. UNCHANGED <<manager, starting, queue, tables, tasks, written, flushed,
                      late, sent, opened, marked, held, owed>>
      BY <1>4 DEF FlushFails
    <3> QED
      BY <2>0, <3>1 DEF AudioInv, TypeOK, tables, tasks
  <2>2. Spawning' /\ LateFrame'
    BY <1>4, LateFrameKept DEF FlushFails, AudioInv, Spawning, tables, tasks
  <2>3. Held'
    BY <1>4 DEF FlushFails, AudioInv, Held, HeldOpenIsAcked, tables
  <2> QED
    BY <2>1, <2>2, <2>3 DEF AudioInv
<1>5. CASE RuntimeDropped
  <2>1. TypeOK'
    BY <1>5 DEF RuntimeDropped, AudioInv, TypeOK, tables, history
  <2>2. Spawning'
    BY <1>5 DEF RuntimeDropped, AudioInv, TypeOK, Spawning
  <2>3. LateFrame'
    BY <1>5 DEF RuntimeDropped, AudioInv, TypeOK, LateFrame, SeesStop, tables,
       history
  <2>4. Held'
    BY <1>5 DEF RuntimeDropped, AudioInv, Held, HeldOpenIsAcked, tables, history
  <2> QED
    BY <2>1, <2>2, <2>3, <2>4 DEF AudioInv
<1> QED
  BY <1>1, <1>2, <1>3, <1>4, <1>5

\* every step keeps it,
LEMMA AudioStep == AudioInv /\ [Next]_vars => AudioInv'
<1> SUFFICES ASSUME AudioInv, [Next]_vars PROVE AudioInv'
  OBVIOUS
<1>1. CASE UNCHANGED vars
  BY <1>1 DEF vars, tables, tasks, files, history, AudioInv, TypeOK, Spawning,
     LateFrame, SeesStop, Held, HeldOpenIsAcked
<1>2. CASE Next
  BY <1>2, HandlerStep, StartSpawnsStep, EncoderStep, OtherStep DEF Next
<1> QED
  BY <1>1, <1>2

\* and so it always holds.
LEMMA AudioInvariant == Spec => []AudioInv
BY AudioInit, AudioStep, PTL DEF Spec

\* Every variable of the audio channels keeps its type; the queue never holds
\* more than its capacity.
THEOREM AudioTypeCorrect == Spec => []TypeOK
<1>1. AudioInv => TypeOK
  BY DEF AudioInv
<1> QED
  BY <1>1, AudioInvariant, PTL

\* However often a channel is started, replaced and stopped, each encoder
\* queues at most one frame after it was told to stop (audio.rs:470-512).
THEOREM OneLateAudioFrame == Spec => []LateFrameBound
<1>1. AudioInv => LateFrameBound
  BY DEF AudioInv, LateFrame, LateFrameBound
<1> QED
  BY <1>1, AudioInvariant, PTL

\* No sequence of OPEN, START and STOP leaves a channel the car holds open
\* without a sink or not started, so its data is acked (audio.rs:670-860).
THEOREM HeldDataIsAcked == Spec => []HeldOpenIsAcked
<1>1. AudioInv => HeldOpenIsAcked
  BY DEF AudioInv, Held
<1> QED
  BY <1>1, AudioInvariant, PTL

=============================================================================
