---------------------------- MODULE CreditWindow ----------------------------
(***************************************************************************)
(* What the video pipeline promises the head unit: a credit window.        *)
(*                                                                         *)
(* The phone advertises max_unacked in its AVChannelSetupResponse; from    *)
(* then on it may be at most Size frames ahead of the acknowledgements it  *)
(* has processed since streaming (re)started.  Nothing here says how the   *)
(* promise is kept: no counter, no streaming task, no queue.               *)
(***************************************************************************)
EXTENDS Naturals

CONSTANT Size      \* max_unacked, as advertised

VARIABLE window    \* frames sent and not yet acknowledged

Init == window = 0

\* A frame goes out; only while a credit is left.
Send == window < Size /\ window' = window + 1

\* The head unit returns a credit.
Ack == window > 0 /\ window' = window - 1

\* Streaming starts again, with every credit available.
Restart == window' = 0

Next == Send \/ Ack \/ Restart

Spec == Init /\ [][Next]_window

=============================================================================
