-------------------------- MODULE Navigation_proofs --------------------------
(***************************************************************************)
(* Guidance follows the destination that is set and stays on the route     *)
(* that is held, for every capacity of the queues and every length of the  *)
(* routes the service returns.                                             *)
(***************************************************************************)
EXTENDS Navigation, TLAPS

\* The route held is one to the destination set.  A fetch is only started for
\* a destination, and the watcher only sends one.
RouteInv ==
  /\ source.route # NoRoute => source.route.dest = source.dest
  /\ runner \in {"fetch", "refetch"} => source.dest \in Destinations
  /\ watcher.at = "send" => watcher.dest \in Destinations

NavInv == TypeOK /\ RouteInv /\ GuidesToDestination /\ StepInRange

\* Destinations and their absence, as numbers.
LEMMA Numbers ==
  /\ Destinations \subseteq 0..MaxWrites + 1
  /\ NoDestination \in 0..MaxWrites + 1 /\ NoDestination \notin Destinations
  /\ Cli \in Destinations
  /\ \A v \in 0..MaxWrites : FromFile(v) \in Destinations
BY NavAssumption DEF Destinations, NoDestination, Cli, FromFile

\* A route has a length and its steps.
LEMMA RouteLengths ==
  ASSUME NEW route \in Routes
  PROVE  /\ route.len \in Nat
         /\ route # NoRoute => route.dest \in Destinations /\ route.len \in Lengths
<1>1. CASE route = NoRoute
  BY <1>1 DEF NoRoute
<1>2. CASE route \in [dest : Destinations, len : Lengths]
  <2>1. route.dest \in Destinations /\ route.len \in Lengths
    BY <1>2
  <2> QED
    BY <2>1, NavAssumption
<1> QED
  BY <1>1, <1>2 DEF Routes

\* rebuild_current yields the maneuver of a step of the route, or none.
LEMMA RebuiltType ==
  ASSUME NEW route \in Routes, NEW next \in Nat
  PROVE  /\ Rebuilt(route, next) \in Instructions \cup {NoInstruction}
         /\ Rebuilt(route, next) # NoInstruction =>
              route # NoRoute /\ Rebuilt(route, next).dest = route.dest
<1>1. CASE route.len = 0
  BY <1>1 DEF Rebuilt
<1>2. CASE route.len # 0
  <2>1. route # NoRoute
    BY <1>2 DEF NoRoute
  <2>2. route.dest \in Destinations /\ route.len \in Nat /\ route.len # 0
    BY <1>2, <2>1, RouteLengths
  <2>3. (IF next < route.len THEN next ELSE route.len - 1) \in Nat
    BY <2>2
  <2> QED
    BY <1>2, <2>1, <2>2, <2>3 DEF Rebuilt, Instructions
<1> QED
  BY <1>1, <1>2

\* A queue that is only counted stays within its capacity.
LEMMA Counted ==
  ASSUME NEW cap \in Nat, NEW n \in 0..cap
  PROVE  /\ n > 0 => n - 1 \in 0..cap
         /\ n < cap => n + 1 \in 0..cap
OBVIOUS

\* A queue below its capacity takes one more message,
LEMMA Appended ==
  ASSUME NEW S, NEW q \in Seq(S), NEW cap \in Nat, Len(q) < cap, NEW x \in S
  PROVE  Append(q, x) \in Seq(S) /\ Len(Append(q, x)) <= cap
OBVIOUS

\* and one that loses a message still fits.
LEMMA Dequeued ==
  ASSUME NEW S, NEW q \in Seq(S), NEW cap \in Nat, Len(q) <= cap, q # <<>>
  PROVE  Head(q) \in S /\ Tail(q) \in Seq(S) /\ Len(Tail(q)) <= cap
OBVIOUS

\* The initial state.
LEMMA NavInit == Init => NavInv
<1> SUFFICES ASSUME Init PROVE NavInv
  OBVIOUS
<1> USE NavAssumption, Numbers
<1>1. destq \in Seq(Destinations) /\ Len(destq) <= DestCap
  BY DEF Init, InitialQueue
<1>2. source \in [dest : 0..MaxWrites + 1, route : Routes, next : Nat,
                  fix : BOOLEAN, current : Instructions \cup {NoInstruction}]
  BY DEF Init, Routes
<1>3. /\ file \in [version : 0..MaxWrites, state : {"absent", "torn", "whole"},
                   mtime : Nat, torn : Nat]
      /\ watcher \in [at : WatcherAt, last : Nat, dest : 0..MaxWrites + 1]
  BY DEF Init, WatcherAt
<1>4. TypeOK
  BY <1>1, <1>2, <1>3 DEF Init, TypeOK, RunnerAt, NoDestination
<1>5. RouteInv /\ GuidesToDestination /\ StepInRange
  BY DEF Init, RouteInv, GuidesToDestination, StepInRange
<1> QED
  BY <1>4, <1>5 DEF NavInv

\* The file's writer and the watcher leave the source alone.
LEMMA WatcherStep ==
  ASSUME NavInv, Writer \/ Watcher
  PROVE  NavInv'
<1>1. CASE Writer
  <2>1. file' \in [version : 0..MaxWrites, state : {"absent", "torn", "whole"},
                   mtime : Nat, torn : Nat]
    <3>1. CASE WriteBegins
      <4>1. file.version \in 0..MaxWrites /\ file.version < MaxWrites
            /\ file.mtime \in Nat
        BY <3>1 DEF WriteBegins, NavInv, TypeOK
      <4>2. file.version + 1 \in 0..MaxWrites
        BY <4>1, Counted, NavAssumption
      <4> QED
        BY <3>1, <4>1, <4>2 DEF WriteBegins
    <3>2. CASE WriteEnds
      <4>1. file.mtime \in Nat /\ file \in [version : 0..MaxWrites,
              state : {"absent", "torn", "whole"}, mtime : Nat, torn : Nat]
        BY DEF NavInv, TypeOK
      <4>2. PICK m \in {file.mtime, file.mtime + 1} :
               file' = [file EXCEPT !.state = "whole", !.mtime = m]
        BY <3>2 DEF WriteEnds
      <4>3. m \in Nat
        BY <4>1, <4>2
      <4> QED
        BY <4>1, <4>2, <4>3
    <3>3. CASE Removed
      BY <3>3 DEF Removed, NavInv, TypeOK
    <3> QED
      BY <1>1, <3>1, <3>2, <3>3 DEF Writer
  <2>2. UNCHANGED <<options, watcher, destq, gps, runner, source, navq, loopUp>>
    BY <1>1 DEF Writer, WriteBegins, WriteEnds, Removed
  <2> QED
    BY <2>1, <2>2 DEF NavInv, TypeOK, options, RouteInv, GuidesToDestination, StepInRange
<1>2. CASE Stat
  BY <1>2 DEF Stat, NavInv, TypeOK, options, WatcherAt, RouteInv,
     GuidesToDestination, StepInRange
<1>3. CASE Read
  BY <1>3, Numbers DEF Read, NavInv, TypeOK, options, WatcherAt, RouteInv,
     GuidesToDestination, StepInRange
<1>4. CASE Push
  <2>1. watcher.dest \in Destinations /\ destq \in Seq(Destinations)
        /\ Len(destq) <= DestCap /\ DestCap \in Nat
    BY <1>4, NavAssumption DEF Push, RouteInv, NavInv, TypeOK
  <2>2. \/ destq' = destq
        \/ Len(destq) < DestCap /\ destq' = Append(destq, watcher.dest)
    BY <1>4 DEF Push
  <2>3. destq' \in Seq(Destinations) /\ Len(destq') <= DestCap
    BY <2>1, <2>2, Appended
  <2> QED
    BY <1>4, <2>3, Numbers DEF Push, NavInv, TypeOK, options, WatcherAt,
       RouteInv, GuidesToDestination, StepInRange
<1>5. CASE Tick
  BY <1>5 DEF Tick, NavInv, TypeOK, options, WatcherAt, RouteInv,
     GuidesToDestination, StepInRange
<1> QED
  BY <1>1, <1>2, <1>3, <1>4, <1>5 DEF Watcher

\* The runner and the source it drives.
LEMMA RunnerStep ==
  ASSUME NavInv, Runner
  PROVE  NavInv'
<1> USE NavAssumption, Numbers
<1>0. /\ source.dest \in 0..MaxWrites + 1 /\ source.route \in Routes
      /\ source.next \in Nat
      /\ source.current \in Instructions \cup {NoInstruction}
      /\ DOMAIN source = {"dest", "route", "next", "fix", "current"}
  BY DEF NavInv, TypeOK
<1>1. CASE TakeDestination
  <2>1. /\ Head(destq) \in Destinations /\ destq' \in Seq(Destinations)
        /\ Len(destq') <= DestCap
    BY <1>1, Dequeued DEF TakeDestination, NavInv, TypeOK
  <2>2. /\ source'.dest = Head(destq) /\ source'.route = NoRoute
        /\ source'.next = 0 /\ source'.current = NoInstruction
        /\ source' \in [dest : 0..MaxWrites + 1, route : Routes, next : Nat,
                        fix : BOOLEAN, current : Instructions \cup {NoInstruction}]
    BY <1>1, <2>1 DEF TakeDestination, NavInv, TypeOK, Routes
  <2> QED
    BY <1>1, <2>1, <2>2 DEF TakeDestination, NavInv, TypeOK, RunnerAt, options,
       RouteInv, GuidesToDestination, StepInRange
<1>2. CASE TakeFirstFix
  <2>1. gps' \in 0..GpsCap
    BY <1>2, Counted DEF TakeFirstFix, NavInv, TypeOK
  <2>2. source.dest # NoDestination => source.dest \in Destinations
    BY <1>0 DEF NoDestination, Destinations
  <2>3. /\ source' = [source EXCEPT !.fix = TRUE]
        /\ runner' \in {"select", "fetch"}
        /\ runner' = "fetch" => source.dest # NoDestination
        /\ UNCHANGED <<options, file, watcher, destq, navq, loopUp>>
    BY <1>2 DEF TakeFirstFix
  <2>4. /\ source'.dest = source.dest /\ source'.route = source.route
        /\ source'.next = source.next /\ source'.current = source.current
        /\ source' \in [dest : 0..MaxWrites + 1, route : Routes, next : Nat,
                        fix : BOOLEAN, current : Instructions \cup {NoInstruction}]
    BY <2>3 DEF NavInv, TypeOK
  <2>5. TypeOK'
    BY <2>1, <2>3, <2>4 DEF NavInv, TypeOK, RunnerAt, options
  <2>6. RouteInv'
    BY <2>2, <2>3, <2>4 DEF NavInv, RouteInv
  <2>7. GuidesToDestination' /\ StepInRange'
    BY <2>4 DEF NavInv, GuidesToDestination, StepInRange
  <2> QED
    BY <2>5, <2>6, <2>7 DEF NavInv
<1>3. CASE TakeFix
  <2>1. gps' \in 0..GpsCap
    BY <1>3, Counted DEF TakeFix, NavInv, TypeOK
  <2>2. source.route # NoRoute /\ source.dest \in Destinations
        /\ source.route.dest = source.dest /\ source.route.len \in Nat
    BY <1>0, <1>3, RouteLengths DEF TakeFix, NavInv, RouteInv
  <2>3. Advanced(source) \in Nat
        /\ (Advanced(source) < source.route.len \/ Advanced(source) = 0)
    BY <1>0, <2>2 DEF Advanced, NavInv, StepInRange
  <2>4. PICK next \in Nat, left \in BOOLEAN :
          /\ next < source.route.len \/ next = 0
          /\ source' = [source EXCEPT !.fix = TRUE, !.next = next,
                          !.current = IF left THEN @ ELSE Rebuilt(source.route, next)]
          /\ runner' = IF left THEN "refetch" ELSE Emits(source')
    BY <1>0, <1>3, <2>3 DEF TakeFix, NavInv, StepInRange
  <2>5. /\ source'.dest = source.dest /\ source'.route = source.route
        /\ source'.next = next
        /\ source'.current \in {source.current, Rebuilt(source.route, next)}
        /\ source' \in [dest : 0..MaxWrites + 1, route : Routes, next : Nat,
                        fix : BOOLEAN, current : Instructions \cup {NoInstruction}]
    BY <1>0, <2>4, RebuiltType DEF NavInv, TypeOK
  <2>6. source'.current # NoInstruction => source'.current.dest = source.dest
    BY <1>0, <2>2, <2>5, RebuiltType DEF NavInv, GuidesToDestination
  <2>7. runner' \in RunnerAt
    BY <2>4 DEF Emits, RunnerAt
  <2> QED
    BY <1>3, <2>1, <2>2, <2>4, <2>5, <2>6, <2>7 DEF TakeFix, NavInv, TypeOK,
       options, RouteInv, GuidesToDestination, StepInRange
<1>4. ASSUME NEW len \in Lengths, FetchSucceeds(len) PROVE NavInv'
  <2> DEFINE route == [dest |-> source.dest, len |-> len]
             next == FirstStep(len)
  <2>1. route \in Routes /\ len \in Nat
    BY <1>4 DEF FetchSucceeds, NavInv, RouteInv, Routes
  <2>2. next \in Nat /\ (next < len \/ next = 0)
    BY <2>1 DEF FirstStep
  <2>3. /\ source'.dest = source.dest /\ source'.route = route
        /\ source'.next = next /\ source'.current = Rebuilt(route, next)
        /\ source' \in [dest : 0..MaxWrites + 1, route : Routes, next : Nat,
                        fix : BOOLEAN, current : Instructions \cup {NoInstruction}]
    BY <1>0, <1>4, <2>1, <2>2, RebuiltType DEF FetchSucceeds, NavInv, TypeOK
  <2>4. source'.current # NoInstruction => source'.current.dest = source.dest
    BY <2>1, <2>2, <2>3, RebuiltType
  <2>5. runner' \in RunnerAt \ {"fetch", "refetch"}
    BY <1>4 DEF FetchSucceeds, Emits, RunnerAt
  <2>6. UNCHANGED <<options, file, watcher, destq, gps, navq, loopUp>>
    BY <1>4 DEF FetchSucceeds
  <2>7. TypeOK'
    BY <2>3, <2>5, <2>6 DEF NavInv, TypeOK, options
  <2>8. RouteInv'
    BY <2>3, <2>5, <2>6 DEF NavInv, RouteInv
  <2>9. GuidesToDestination' /\ StepInRange'
    BY <2>2, <2>3, <2>4 DEF GuidesToDestination, StepInRange
  <2> QED
    BY <2>7, <2>8, <2>9 DEF NavInv
<1>5. CASE FetchFails
  <2>1. CASE UNCHANGED source
    <3>1. /\ runner' \in {"select", "send"}
          /\ UNCHANGED <<options, file, watcher, destq, gps, navq, loopUp>>
      BY <1>5 DEF FetchFails, Emits
    <3>2. TypeOK'
      BY <2>1, <3>1 DEF NavInv, TypeOK, RunnerAt, options
    <3>3. RouteInv' /\ GuidesToDestination' /\ StepInRange'
      BY <2>1, <3>1 DEF NavInv, RouteInv, GuidesToDestination, StepInRange
    <3> QED
      BY <3>2, <3>3 DEF NavInv
  <2>2. CASE source' = [source EXCEPT !.current = Rebuilt(source.route, source.next)]
    <3>1. /\ source'.dest = source.dest /\ source'.route = source.route
          /\ source'.next = source.next
          /\ source'.current = Rebuilt(source.route, source.next)
          /\ source' \in [dest : 0..MaxWrites + 1, route : Routes, next : Nat,
                          fix : BOOLEAN, current : Instructions \cup {NoInstruction}]
      BY <1>0, <2>2, RebuiltType DEF NavInv, TypeOK
    <3>2. source'.current # NoInstruction => source'.current.dest = source.dest
      BY <1>0, <3>1, RebuiltType DEF NavInv, RouteInv
    <3>3. /\ runner' \in RunnerAt \ {"fetch", "refetch"}
          /\ UNCHANGED <<options, file, watcher, destq, gps, navq, loopUp>>
      BY <1>5 DEF FetchFails, Emits, RunnerAt
    <3>4. TypeOK'
      BY <3>1, <3>3 DEF NavInv, TypeOK, options
    <3>5. RouteInv' /\ GuidesToDestination' /\ StepInRange'
      BY <3>1, <3>2, <3>3 DEF NavInv, RouteInv, GuidesToDestination,
         StepInRange
    <3> QED
      BY <3>4, <3>5 DEF NavInv
  <2> QED
    BY <1>5, <2>1, <2>2 DEF FetchFails
<1>6. CASE Send
  <2>1. navq' \in Seq(Instructions \cup {NoInstruction}) /\ Len(navq') <= NavCap
    BY <1>0, <1>6, Appended DEF Send, NavInv, TypeOK
  <2> QED
    BY <1>6, <2>1 DEF Send, NavInv, TypeOK, RunnerAt, options, RouteInv,
       GuidesToDestination, StepInRange
<1>7. CASE SendFails \/ InputsClosed
  BY <1>7 DEF SendFails, InputsClosed, NavInv, TypeOK, RunnerAt, options,
     RouteInv, GuidesToDestination, StepInRange
<1> QED
  BY <1>1, <1>2, <1>3, <1>4, <1>5, <1>6, <1>7 DEF Runner, FetchEnds

\* The demo task and the control loop only touch the queues.
LEMMA LoopStep ==
  ASSUME NavInv, DemoSends \/ Loop
  PROVE  NavInv'
<1> USE NavAssumption, Numbers
<1>0. UNCHANGED <<options, file, watcher, destq, runner, source>>
  BY DEF DemoSends, Loop, FixArrives, WriteInstruction, LoopEnds
<1>1. gps' \in 0..GpsCap /\ loopUp' \in BOOLEAN
  <2>1. gps \in 0..GpsCap /\ loopUp \in BOOLEAN /\ GpsCap \in Nat
    BY DEF NavInv, TypeOK
  <2>2. gps' = gps \/ (gps < GpsCap /\ gps' = gps + 1)
    BY DEF DemoSends, Loop, FixArrives, WriteInstruction, LoopEnds
  <2>3. loopUp' \in {loopUp, FALSE}
    BY DEF DemoSends, Loop, FixArrives, WriteInstruction, LoopEnds
  <2> QED
    BY <2>1, <2>2, <2>3, Counted
<1>2. navq' \in Seq(Instructions \cup {NoInstruction}) /\ Len(navq') <= NavCap
  <2>1. navq \in Seq(Instructions \cup {NoInstruction}) /\ Len(navq) <= NavCap
        /\ NavCap \in Nat
    BY DEF NavInv, TypeOK
  <2>2. \/ navq' \in {navq, <<>>}
        \/ navq # <<>> /\ navq' = Tail(navq)
        \/ Len(navq) < NavCap /\ navq' = Append(navq, NoInstruction)
    BY DEF DemoSends, Loop, FixArrives, WriteInstruction, LoopEnds
  <2>3. NoInstruction \in Instructions \cup {NoInstruction}
    OBVIOUS
  <2>4. CASE navq' = <<>>
    BY <2>1, <2>4
  <2>5. CASE navq # <<>> /\ navq' = Tail(navq)
    BY <2>1, <2>5, Dequeued
  <2>6. CASE Len(navq) < NavCap /\ navq' = Append(navq, NoInstruction)
    BY <2>1, <2>3, <2>6, Appended
  <2> QED
    BY <2>1, <2>2, <2>4, <2>5, <2>6
<1> QED
  BY <1>0, <1>1, <1>2 DEF NavInv, TypeOK, options, RouteInv,
     GuidesToDestination, StepInRange

\* Every step keeps NavInv.
LEMMA NavStep ==
  ASSUME NavInv, [Next]_vars
  PROVE  NavInv'
<1>1. CASE UNCHANGED vars
  BY <1>1 DEF vars, options, NavInv, TypeOK, RouteInv, GuidesToDestination,
     StepInRange
<1> QED
  BY <1>1, WatcherStep, RunnerStep, LoopStep DEF Next

\* The queues keep their bounds and every variable its type.
THEOREM NavTypeCorrect == Spec => []TypeOK
<1>1. NavInv => TypeOK
  BY DEF NavInv
<1> QED
  BY <1>1, NavInit, NavStep, PTL DEF Spec

\* An instruction handed to the car belongs to the destination that is set:
\* between set_destination and the new route, and after a fetch that failed,
\* the guidance of the old one is gone (osrm.rs:475-518, 574-593).
THEOREM GuidanceFollows == Spec => []GuidesToDestination
<1>1. NavInv => GuidesToDestination
  BY DEF NavInv
<1> QED
  BY <1>1, NavInit, NavStep, PTL DEF Spec

\* next_idx never leaves the route (osrm.rs:399-441, 549-560), whatever the
\* lengths of the routes it is carried through.
THEOREM StepOnRoute == Spec => []StepInRange
<1>1. NavInv => StepInRange
  BY DEF NavInv
<1> QED
  BY <1>1, NavInit, NavStep, PTL DEF Spec

=============================================================================
