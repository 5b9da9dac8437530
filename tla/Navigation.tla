------------------------------ MODULE Navigation ------------------------------
(***************************************************************************)
(* Turn-by-turn guidance: the destination file's watcher                   *)
(* (nav/destination_file.rs), the nav runner (nav/runner.rs), the          *)
(* OSRM-backed source it drives (nav/osrm.rs), and the queues that tie     *)
(* them to the control loop (Step B of control_channel.rs, channels/nav.rs *)
(* and the GPS sink of channels/sensor.rs).                                *)
(*                                                                         *)
(* Three tasks run: watcher, runner and control loop.  A destination is a  *)
(* number, a route its destination and how many steps it has, a position   *)
(* fix only what the source finds out from it: whether the next maneuver   *)
(* is reached and whether the vehicle has left the route.                  *)
(***************************************************************************)
EXTENDS Naturals, Sequences

CONSTANTS
  DestCap,      \* capacity of the destination queue (4 in the code)
  GpsCap,       \* capacity of the GPS sink (8)
  NavCap,       \* capacity of the instruction queue (8)
  Lengths,      \* how many steps the routes of the server have
  MaxWrites     \* bound: how often the destination file is written

ASSUME NavAssumption ==
  /\ DestCap \in Nat \ {0} /\ GpsCap \in Nat \ {0} /\ NavCap \in Nat \ {0}
  /\ Lengths \subseteq Nat
  /\ MaxWrites \in Nat

NoDestination == 0
Cli == 1                         \* the --nav-destination
FromFile(v) == v + 1             \* what the file's v-th version says
Destinations == 1..MaxWrites + 1

NoRoute == [dest |-> NoDestination, len |-> 0]
Routes == [dest : Destinations, len : Lengths] \cup {NoRoute}
NoInstruction == [dest |-> NoDestination, step |-> 0]
Instructions == [dest : Destinations, step : Nat]

VARIABLES
  cli, watch,  \* which of the two CLI options are given; never changes
  file,        \* the destination file: version, state, mtime, torn mtime
  watcher,     \* the watcher: where it is, last_mtime, the destination read
  destq,       \* the queue behind dest_rx
  gps,         \* fixes in the GPS sink
  runner,      \* where the runner is
  source,      \* OsrmNavSource: destination, route, next_idx, fix, current
  navq,        \* the queue behind nav_rx
  loopUp       \* run() has not returned

options == <<cli, watch>>
vars == <<options, file, watcher, destq, gps, runner, source, navq, loopUp>>

WatcherAt == {"stat", "read", "send", "sleep", "stopped"}
RunnerAt == {"select", "fetch", "refetch", "send", "demo", "exited"}

TypeOK ==
  /\ cli \in BOOLEAN /\ watch \in BOOLEAN
  /\ file \in [version : 0..MaxWrites, state : {"absent", "torn", "whole"},
               mtime : Nat, torn : Nat]
  /\ watcher \in [at : WatcherAt, last : Nat, dest : 0..MaxWrites + 1]
  /\ destq \in Seq(Destinations) /\ Len(destq) <= DestCap
  /\ gps \in 0..GpsCap
  /\ runner \in RunnerAt
  /\ source \in [dest : 0..MaxWrites + 1, route : Routes, next : Nat,
                 fix : BOOLEAN, current : Instructions \cup {NoInstruction}]
  /\ navq \in Seq(Instructions \cup {NoInstruction}) /\ Len(navq) <= NavCap
  /\ loopUp \in BOOLEAN

\* run() puts the CLI's destination into a queue of its own, and the runner
\* reads the watcher's queue instead when there is one.
InitialQueue == IF cli /\ ~watch THEN <<Cli>> ELSE <<>>

\* With neither option there is no source: the demo task sends "straight on".
Init ==
  /\ cli \in BOOLEAN /\ watch \in BOOLEAN
  /\ file = [version |-> 0, state |-> "absent", mtime |-> 0, torn |-> 0]
  /\ watcher = [at |-> IF watch THEN "stat" ELSE "stopped", last |-> 0,
                dest |-> NoDestination]
  /\ destq = InitialQueue
  /\ gps = 0
  /\ runner = IF cli \/ watch THEN "select" ELSE "demo"
  /\ source = [dest |-> NoDestination, route |-> NoRoute, next |-> 0,
               fix |-> FALSE, current |-> NoInstruction]
  /\ navq = <<>>
  /\ loopUp = TRUE

-----------------------------------------------------------------------------
(* The destination file, written by another process (external).            *)

WriteBegins ==
  /\ watch
  /\ file.version < MaxWrites
  /\ file' = [version |-> file.version + 1, state |-> "torn",
              mtime |-> file.mtime + 1, torn |-> file.mtime + 1]
  /\ UNCHANGED <<options, watcher, destq, gps, runner, source, navq, loopUp>>

\* The rest of the content, within the same tick of the clock or later.
WriteEnds ==
  /\ file.state = "torn"
  /\ \E m \in {file.mtime, file.mtime + 1} :
       file' = [file EXCEPT !.state = "whole", !.mtime = m]
  /\ UNCHANGED <<options, watcher, destq, gps, runner, source, navq, loopUp>>

Removed ==
  /\ file.state = "whole"
  /\ file' = [file EXCEPT !.state = "absent"]
  /\ UNCHANGED <<options, watcher, destq, gps, runner, source, navq, loopUp>>

-----------------------------------------------------------------------------
(* watch_destination_file and check_and_push                               *)

\* The file's mtime, recorded before its content is read.
Stat ==
  /\ watcher.at = "stat"
  /\ watcher' =
       IF file.state = "absent"
       THEN [watcher EXCEPT !.at = "sleep", !.last = 0]
       ELSE [watcher EXCEPT !.last = file.mtime,
                            !.at = IF file.mtime = watcher.last THEN "sleep"
                                   ELSE "read"]
  /\ UNCHANGED <<options, file, destq, gps, runner, source, navq, loopUp>>

\* A file that has gone is passed over, one that does not parse is logged.
Read ==
  /\ watcher.at = "read"
  /\ watcher' = IF file.state = "whole"
                THEN [watcher EXCEPT !.at = "send",
                                     !.dest = FromFile(file.version)]
                ELSE [watcher EXCEPT !.at = "sleep"]
  /\ UNCHANGED <<options, file, destq, gps, runner, source, navq, loopUp>>

\* Mutant of Push: try_send instead of send, a full queue drops the new one.
PushOrDrop ==
  /\ watcher.at = "send"
  /\ destq' = IF runner # "exited" /\ Len(destq) < DestCap
              THEN Append(destq, watcher.dest) ELSE destq
  /\ watcher' = [watcher EXCEPT !.at = "sleep", !.dest = NoDestination]
  /\ UNCHANGED <<options, file, gps, runner, source, navq, loopUp>>

\* send waits for room, and fails at once when the runner is gone.
Push ==
  /\ watcher.at = "send"
  /\ \/ runner = "exited" /\ UNCHANGED destq
     \/ /\ runner # "exited" /\ Len(destq) < DestCap
        /\ destq' = Append(destq, watcher.dest)
  /\ watcher' = [watcher EXCEPT !.at = "sleep", !.dest = NoDestination]
  /\ UNCHANGED <<options, file, gps, runner, source, navq, loopUp>>

\* Mutant of Tick: the watcher does not ask whether anyone listens.
TickForever ==
  /\ watcher.at = "sleep"
  /\ watcher' = [watcher EXCEPT !.at = "stat"]
  /\ UNCHANGED <<options, file, destq, gps, runner, source, navq, loopUp>>

Tick ==
  /\ watcher.at = "sleep"
  /\ watcher' = [watcher EXCEPT !.at = IF runner = "exited" THEN "stopped"
                                       ELSE "stat"]
  /\ UNCHANGED <<options, file, destq, gps, runner, source, navq, loopUp>>

-----------------------------------------------------------------------------
(* OsrmNavSource, driven by the runner's select!                           *)

\* rebuild_current: the maneuver at next_idx, or the last one.
Rebuilt(route, next) ==
  IF route.len = 0 THEN NoInstruction
  ELSE [dest |-> route.dest,
        step |-> IF next < route.len THEN next ELSE route.len - 1]

\* The runner sends what the source returned, or selects again.
Emits(s) == IF s.current = NoInstruction THEN "select" ELSE "send"

\* Mutant of TakeDestination: the old route stays until a new one is there.
TakeDestinationKeepsRoute ==
  /\ runner = "select"
  /\ destq # <<>>
  /\ destq' = Tail(destq)
  /\ source' = [source EXCEPT !.dest = Head(destq)]
  /\ runner' = IF source.fix THEN "fetch" ELSE "select"
  /\ UNCHANGED <<options, file, watcher, gps, navq, loopUp>>

\* set_destination: forget the route; fetch one if a position is known.
TakeDestination ==
  /\ runner = "select"
  /\ destq # <<>>
  /\ destq' = Tail(destq)
  /\ source' = [source EXCEPT !.dest = Head(destq), !.route = NoRoute,
                              !.next = 0, !.current = NoInstruction]
  /\ runner' = IF source.fix THEN "fetch" ELSE "select"
  /\ UNCHANGED <<options, file, watcher, gps, navq, loopUp>>

\* update_position without a route: nothing to do, or the bootstrap fetch.
TakeFirstFix ==
  /\ runner = "select"
  /\ gps > 0 /\ gps' = gps - 1
  /\ source.route = NoRoute
  /\ source' = [source EXCEPT !.fix = TRUE]
  /\ runner' = IF source.dest = NoDestination THEN "select" ELSE "fetch"
  /\ UNCHANGED <<options, file, watcher, destq, navq, loopUp>>

\* Mutant of Advanced: the arrival is advanced past as well.
AdvancedPastEnd(s) == s.next + 1

\* The next step, if there is one behind the maneuver that was reached.
Advanced(s) == IF s.next + 1 < s.route.len THEN s.next + 1 ELSE s.next

\* update_position on a route: advance, refetch when far from every maneuver
\* (a route of no steps has none), else refresh the instruction.
TakeFix ==
  /\ runner = "select"
  /\ gps > 0 /\ gps' = gps - 1
  /\ source.route # NoRoute
  /\ \E reached \in BOOLEAN, left \in BOOLEAN :
       /\ reached => source.route.len > 0 /\ ~left
       /\ left => source.route.len > 0
       /\ LET next == IF reached THEN Advanced(source) ELSE source.next
          IN source' = [source EXCEPT !.fix = TRUE, !.next = next,
                          !.current = IF left THEN @
                                      ELSE Rebuilt(source.route, next)]
       /\ runner' = IF left THEN "refetch" ELSE Emits(source')
  /\ UNCHANGED <<options, file, watcher, destq, navq, loopUp>>

\* Mutant of FirstStep: a new route keeps the step counter of the old one.
FirstStepKept(len) == source.next

FirstStep(len) == IF len >= 2 THEN 1 ELSE 0

\* The routing service answers (external): from the depart to the first turn.
FetchSucceeds(len) ==
  /\ runner \in {"fetch", "refetch"}
  /\ LET route == [dest |-> source.dest, len |-> len]
         next == FirstStep(len)
     IN source' = [source EXCEPT !.route = route, !.next = next,
                                 !.current = Rebuilt(route, next)]
  /\ runner' = Emits(source')
  /\ UNCHANGED <<options, file, watcher, destq, gps, navq, loopUp>>

\* Or it fails or times out: an error, or guidance along the route left.
FetchFails ==
  /\ \/ runner = "fetch" /\ runner' = "select" /\ UNCHANGED source
     \/ /\ runner = "refetch"
        /\ source' = [source EXCEPT
                        !.current = Rebuilt(source.route, source.next)]
        /\ runner' = Emits(source')
  /\ UNCHANGED <<options, file, watcher, destq, gps, navq, loopUp>>

Send ==
  /\ runner = "send"
  /\ loopUp /\ Len(navq) < NavCap
  /\ navq' = Append(navq, source.current)
  /\ runner' = "select"
  /\ UNCHANGED <<options, file, watcher, destq, gps, source, loopUp>>

\* nav_tx is closed.
SendFails ==
  /\ runner \in {"send", "demo"}
  /\ ~loopUp
  /\ runner' = "exited"
  /\ UNCHANGED <<options, file, watcher, destq, gps, source, navq, loopUp>>

\* Both receivers yield None: run() has dropped its senders and the queues
\* are empty.  A watcher never drops its sender.
InputsClosed ==
  /\ runner = "select"
  /\ ~loopUp /\ ~watch /\ destq = <<>> /\ gps = 0
  /\ runner' = "exited"
  /\ UNCHANGED <<options, file, watcher, destq, gps, source, navq, loopUp>>

\* spawn_demo's next tick.
DemoSends ==
  /\ runner = "demo"
  /\ loopUp /\ Len(navq) < NavCap
  /\ navq' = Append(navq, NoInstruction)
  /\ UNCHANGED <<options, file, watcher, destq, gps, runner, source, loopUp>>

-----------------------------------------------------------------------------
(* The control loop                                                        *)

\* The sensor handler is given a position event; append_gps drops the fix when
\* the sink is full.  Only a source has a sink.  In a session dispatch keeps
\* these events from the handler (PositionsLogged of Bringup), so that this is
\* what the runner must cope with, and nothing may depend on it coming.
FixArrives ==
  /\ loopUp /\ (cli \/ watch)
  /\ gps' = IF gps < GpsCap THEN gps + 1 ELSE gps
  /\ UNCHANGED <<options, file, watcher, destq, runner, source, navq, loopUp>>

\* Status, turn and distance of one instruction are written; when one of the
\* three writes fails, the rest is dropped and logged.
WriteInstruction ==
  /\ loopUp /\ navq # <<>>
  /\ navq' = Tail(navq)
  /\ UNCHANGED <<options, file, watcher, destq, gps, runner, source, loopUp>>

\* run() returns and drops its ends of the queues.
LoopEnds ==
  /\ loopUp
  /\ loopUp' = FALSE
  /\ navq' = <<>>
  /\ UNCHANGED <<options, file, watcher, destq, gps, runner, source>>

-----------------------------------------------------------------------------

Writer == WriteBegins \/ WriteEnds \/ Removed
Watcher == Stat \/ Read \/ Push \/ Tick
FetchEnds == FetchFails \/ \E len \in Lengths : FetchSucceeds(len)
Runner == TakeDestination \/ TakeFirstFix \/ TakeFix \/ FetchEnds \/ Send
          \/ SendFails \/ InputsClosed
Loop == FixArrives \/ WriteInstruction \/ LoopEnds

Next == Writer \/ Watcher \/ Runner \/ DemoSends \/ Loop

Spec == Init /\ [][Next]_vars

\* tokio runs the tasks; a fetch ends, by its timeout if not before; select!
\* picks among ready branches at random, so that neither input starves.
\* Nothing is assumed of the loop, the fixes, the file or the service.
FairSpec ==
  Spec /\ WF_vars(Watcher) /\ WF_vars(Runner) /\ SF_vars(TakeDestination)

-----------------------------------------------------------------------------
(* Properties                                                              *)

\* Guidance is along a route to the destination last installed: a fetch that
\* fails or is still under way leaves no instruction for the one before it.
GuidesToDestination ==
  source.current # NoInstruction => source.current.dest = source.dest

\* next_idx stays on the route, whatever is reached and however short the
\* route is that replaces it.
StepInRange ==
  source.next < source.route.len \/ source.next = 0

\* A destination the user asked for: on the command line when no file is
\* watched, or in a file whose content was complete at its last mtime.
Wanted(d) ==
  \/ d = Cli /\ cli /\ ~watch
  \/ /\ watch /\ file.state = "whole" /\ file.mtime > file.torn
     /\ d = FromFile(file.version)

\* As long as the loop keeps emptying the instruction queue, the source takes
\* that destination up, past a full queue, a runner busy with fetches that
\* fail, and fixes that compete with it; unless it is replaced or the loop
\* ends.  (A file completed within the mtime tick of its torn write is not
\* Wanted here: the watcher never reads it again.)
DestinationInstalled ==
  []<>(navq = <<>>) =>
    \A d \in Destinations :
      Wanted(d) ~> source.dest = d \/ ~Wanted(d) \/ ~loopUp

\* After the control loop has ended the runner and the watcher end, too: a
\* runner behind a watcher only when it has something left to send.
TasksStop ==
  ~loopUp /\ (~watch \/ runner = "send") ~>
    runner = "exited" /\ watcher.at = "stopped"

=============================================================================
