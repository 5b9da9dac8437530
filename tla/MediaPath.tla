------------------------------ MODULE MediaPath ------------------------------
(***************************************************************************)
(* From the screen recorder to the car: the source cuts the recorder's     *)
(* bytes into access units, each becomes one message (its timestamp and    *)
(* the unit), the control loop sends it in fragments, the car reassembles. *)
(* The flow control in between is VideoPipeline's matter; here it is a     *)
(* queue of OutboundCap units.                                             *)
(***************************************************************************)
EXTENDS AccessUnits, FragmentedSend

CONSTANTS
  OutboundCap,  \* capacity of the video queue (64 in the code)
  Overhead      \* message id and timestamp (10 bytes in the code)

ASSUME PathAssumption ==
  /\ OutboundCap \in Nat \ {0}
  /\ Overhead \in Nat
  /\ Lengths = {Overhead + Len(ExpectedUnit(k)) : k \in DOMAIN SliceNals}

pathVars == <<source, vars>>

PathInit == SourceInit /\ SendInit

\* The streamer queues the next access unit.
Queue ==
  /\ Len(emitted) < Len(accepted) + OutboundCap
  /\ EmitQueued
  /\ UNCHANGED vars

\* Mutant of Take: the message has no timestamp.
TakeBare ==
  /\ Len(accepted) < Len(emitted)
  /\ Begin(Len(emitted[Len(accepted) + 1].au))
  /\ UNCHANGED source

\* Mutant of Take: the newest unit goes first.
TakeNewest ==
  /\ Len(accepted) < Len(emitted)
  /\ Begin(Overhead + Len(emitted[Len(emitted)].au))
  /\ UNCHANGED source

\* The loop takes the oldest queued unit and calls send_encrypted.
Take ==
  /\ Len(accepted) < Len(emitted)
  /\ Begin(Overhead + Len(emitted[Len(accepted) + 1].au))
  /\ UNCHANGED source

Source == (ReadStdout \/ SourceEnds) /\ UNCHANGED vars
Sender == (WriteFragment \/ WriteFails \/ PeerReads) /\ UNCHANGED source

PathNext == Queue \/ Take \/ Source \/ Sender

PathSpec == PathInit /\ [][PathNext]_pathVars

\* The streamer and the loop run, the car reads; writes may fail, the recorder
\* may stop or end.
PathFairness ==
  /\ WF_pathVars(Queue) /\ WF_pathVars(Take)
  /\ WF_pathVars(WriteFragment /\ UNCHANGED source)
  /\ WF_pathVars(PeerReads /\ UNCHANGED source)

FairPathSpec == PathSpec /\ PathFairness

-----------------------------------------------------------------------------
(* Properties                                                              *)

\* What the car reassembles as its k-th message is the k-th unit recorded, all
\* of it and nothing else: no unit is skipped, sent twice or cut short on its
\* way from next_frame through the queue and the fragments, and what follows a
\* write that failed is not taken for it.
UnitsInOrder ==
  /\ DeliveredInOrder
  /\ \A k \in DOMAIN peer.received :
       /\ k \in DOMAIN SliceNals
       /\ WholeMessage(peer.received[k],
                       [id |-> k, len |-> Overhead + Len(ExpectedUnit(k))])

\* A write has failed: a record the peer waits for was never written.
Failed == record > peer.next + Len(wire) \/ ~peer.up

\* The car has the whole of unit k, behind its timestamp.
Delivered(k) ==
  /\ k <= Len(peer.received)
  /\ LET chunks == peer.received[k]
     IN chunks[Len(chunks)].to = Overhead + Len(ExpectedUnit(k))

\* A unit the source has recognised reaches the car, whole and through the
\* fragments of its message, unless a write fails.
UnitsArrive ==
  \A k \in DOMAIN SliceNals :
    Len(emitted) + Len(queued) >= k ~> Delivered(k) \/ Failed

\* Behind UnitsInOrder: the k-th message is the k-th unit, which was handed out.
UnitsTaken ==
  \A k \in DOMAIN accepted :
    k <= Len(emitted) /\ accepted[k].len = Overhead + Len(ExpectedUnit(k))

=============================================================================
