---------------------------- MODULE Bringup_proofs ----------------------------
(***************************************************************************)
(* What is proved about the bring-up, for every set of head units with any *)
(* tables and all bounds.  Four invariants, each on top of the last:       *)
(*                                                                         *)
(*   ControlInv    the states of the watchdog, the process and the head    *)
(*                 unit fit together, and a connection that a process has  *)
(*                 read from is gone before the next one starts;           *)
(*   ServingInv    an AuthComplete that is OK is under way only from a     *)
(*                 head unit that has accepted us;                         *)
(*   HandshakeInv  where the daemon is, where the head unit is and what is *)
(*                 under way between them fit together: the whole          *)
(*                 conversation of each kind of head unit, message by      *)
(*                 message, and what is left of it when either side ends;  *)
(*   ServiceInv    what is under way to a head unit that serves, and what  *)
(*                 will be answered to what is under way from it, is the   *)
(*                 rest of the answer to its table and then what it is     *)
(*                 owed, in the order it waits for it.                     *)
(***************************************************************************)
EXTENDS Bringup, SequenceTheorems, WellFoundedInduction, TLAPS

-----------------------------------------------------------------------------
(* The processes and the connections                                       *)

Daemons == [at : DaemonAt, hs : TlsStates, read : BOOLEAN, broken : BOOLEAN,
            sends : SendStates]
CarTyped ==
  /\ DOMAIN car = DOMAIN Away
  /\ car.at \in CarAt /\ car.quiet \in BOOLEAN /\ car.unexpected \in BOOLEAN
  /\ car.opened \subseteq ChannelBytes /\ car.set \subseteq car.opened
\* Whether the daemon's link is broken after a head unit has left.
Cut == daemon.broken \/ daemon.at \notin (IF Usb THEN {"off", "open"} ELSE {"off"})
\* A record was lost on its way.
Skips == daemon.sends # "all"
\* What a step makes of the daemon and of the head unit, but for a write that
\* fails.
DaemonTurns(at, hs, read, broken) ==
  daemon' \in Daemons /\ daemon'.at = at /\ daemon'.hs = hs
  /\ (daemon'.read <=> read) /\ (daemon'.broken <=> broken)
  /\ (Skips' => Skips) /\ (Skips /\ at = "loop" => Skips')
CarTurns(at, unexpected) ==
  CarTyped' /\ car'.at = at /\ (car'.unexpected <=> unexpected)

\* What the steps make of the daemon's record: a step that leaves it alone,
LEMMA DaemonKeeps ==
  daemon \in Daemons /\ UNCHANGED daemon
  => DaemonTurns(daemon.at, daemon.hs, daemon.read, daemon.broken)
BY DEF DaemonTurns, Skips

\* the end of the process,
LEMMA DaemonOff == daemon' = Off => DaemonTurns("off", "hello", FALSE, FALSE)
BY DEF DaemonTurns, Skips, Off, Daemons, DaemonAt, TlsStates, SendStates

\* the start of the next one,
LEMMA DaemonStarts ==
  daemon' = [Off EXCEPT !.at = "open"] => DaemonTurns("open", "hello", FALSE, FALSE)
BY DEF DaemonTurns, Skips, Off, Daemons, DaemonAt, TlsStates, SendStates

\* a frame that goes out,
LEMMA DaemonWrites ==
  ASSUME daemon \in Daemons,
         \/ UNCHANGED daemon
         \/ Skips /\ daemon' = [daemon EXCEPT !.sends = "garbled"]
  PROVE  DaemonTurns(daemon.at, daemon.hs, daemon.read, daemon.broken)
BY DEF DaemonTurns, Skips, Daemons, SendStates

\* a message understood,
LEMMA DaemonProceeds ==
  ASSUME daemon \in Daemons, NEW a \in DaemonAt, NEW h \in TlsStates,
         daemon' = [daemon EXCEPT !.at = a, !.hs = h, !.read = TRUE]
  PROVE  DaemonTurns(a, h, TRUE, daemon.broken)
BY DEF DaemonTurns, Skips, Daemons

\* a step on to the next place,
LEMMA DaemonMoves ==
  ASSUME daemon \in Daemons, NEW a \in DaemonAt,
         daemon' = [daemon EXCEPT !.at = a]
  PROVE  DaemonTurns(a, daemon.hs, daemon.read, daemon.broken)
BY DEF DaemonTurns, Skips, Daemons

\* the end of usb_run while its read is still blocked,
LEMMA DaemonExits ==
  ASSUME daemon \in Daemons,
         daemon' = [daemon EXCEPT !.at = "exiting", !.hs = "hello"]
  PROVE  DaemonTurns("exiting", "hello", daemon.read, daemon.broken)
BY DEF DaemonTurns, Skips, Daemons, DaemonAt, TlsStates

\* and a head unit that has gone.
LEMMA DaemonBroken ==
  ASSUME daemon \in Daemons, NEW b \in BOOLEAN,
         daemon' = [daemon EXCEPT !.broken = (@ \/ b)]
  PROVE  DaemonTurns(daemon.at, daemon.hs, daemon.read, daemon.broken \/ b)
BY DEF DaemonTurns, Skips, Daemons

\* The same for the head unit's record: left alone,
LEMMA CarKeeps ==
  CarTyped /\ UNCHANGED car => CarTurns(car.at, car.unexpected)
BY DEF CarTurns, CarTyped

\* gone,
LEMMA CarGoes == car' = Away => CarTurns("away", FALSE)
BY DEF CarTurns, CarTyped, Away, CarAt

\* elsewhere in the protocol,
LEMMA CarMoves ==
  ASSUME CarTyped, NEW a \in CarAt, car' = [car EXCEPT !.at = a]
  PROVE  CarTurns(a, car.unexpected)
BY DEF CarTurns, CarTyped, Away

\* changed in one of the fields that do not say where it is,
LEMMA CarEdits ==
  ASSUME CarTyped, NEW v, NEW b \in BOOLEAN,
         \/ car' = [car EXCEPT !.quiet = b]
         \/ car' = [car EXCEPT !.owed = v]
         \/ v \in ChannelBytes /\ car' = [car EXCEPT !.opened = @ \cup {v}]
         \/ v \in car.opened /\ car' = [car EXCEPT !.set = @ \cup {v}]
  PROVE  CarTurns(car.at, car.unexpected)
<1>1. CASE car' = [car EXCEPT !.quiet = b]
  BY <1>1 DEF CarTurns, CarTyped, Away
<1>2. CASE car' = [car EXCEPT !.owed = v]
  BY <1>2 DEF CarTurns, CarTyped, Away
<1>3. CASE v \in ChannelBytes /\ car' = [car EXCEPT !.opened = @ \cup {v}]
  BY <1>3 DEF CarTurns, CarTyped, Away
<1>4. CASE v \in car.opened /\ car' = [car EXCEPT !.set = @ \cup {v}]
  BY <1>4 DEF CarTurns, CarTyped, Away
<1> QED
  BY <1>1, <1>2, <1>3, <1>4

\* and told something unexpected.
LEMMA CarFrowns ==
  ASSUME CarTyped, car' = [car EXCEPT !.unexpected = TRUE]
  PROVE  CarTurns(car.at, TRUE)
BY DEF CarTurns, CarTyped, Away

\* The processes and the connections.
Watched ==
  /\ <<hu, kind>> \in Cars
  /\ watchdog \in {"ended", "ready", "runs"} /\ wedged \in BOOLEAN
  /\ daemon.at = "exiting" => Usb
  /\ daemon.hs = "bad" => daemon.at = "tls"
  /\ daemon.at \in {"auth", "loop"} => daemon.hs = "done"
  /\ Skips => daemon.at = "loop"
  /\ daemon.at = "off" <=> watchdog # "runs"
  /\ daemon.at \in {"off", "open", "first"} => ~daemon.read /\ daemon.hs = "hello"
  /\ daemon.at = "off" => ~daemon.broken
  /\ stale \in BOOLEAN
  /\ stale => watchdog = "ended"
Counted ==
  /\ faults \in 0..MaxFaults /\ requests \in 0..MaxRequests
  /\ positions \in Nat /\ logged \in 0..positions
ControlInv == daemon \in Daemons /\ CarTyped /\ Watched /\ Counted

\* Every head unit that comes has a table and one of the known ways to open.
LEMMA Kinships ==
  <<hu, kind>> \in Cars => hu \in DOMAIN Tables /\ kind \in Kinds
BY BringupAssumption

\* The turn of the watchdog that rebinds the gadget.
LEMMA CtlRebind ==
  ASSUME ControlInv, Rebind
  PROVE  /\ ControlInv'
         /\ DaemonTurns(daemon.at, daemon.hs, daemon.read, daemon.broken)
         /\ CarTurns("away", FALSE)
<1>0. daemon \in Daemons /\ CarTyped
  BY DEF ControlInv
<1>1. DaemonTurns(daemon.at, daemon.hs, daemon.read, daemon.broken)
  BY <1>0, DaemonKeeps DEF Rebind
<1>2. CarTurns("away", FALSE)
  BY CarGoes DEF Rebind
<1>3. Counted'
  BY DEF ControlInv, Counted, Rebind, fixes, bounds
<1>4. /\ UNCHANGED <<hu, kind>> /\ wedged' = FALSE /\ stale' = FALSE
      /\ watchdog = "ended" /\ watchdog' = "ready"
  BY DEF ControlInv, Watched, Usb, Rebind, fixes, bounds
<1>5. Watched'
  BY <1>1, <1>4 DEF ControlInv, Watched, DaemonTurns, Usb
<1> QED
  BY <1>1, <1>2, <1>3, <1>5 DEF ControlInv, DaemonTurns, CarTurns

\* The start of a process.
LEMMA CtlLaunch ==
  ASSUME ControlInv, Launch
  PROVE  /\ ControlInv'
         /\ DaemonTurns("open", "hello", FALSE, FALSE)
         /\ CarTurns(car.at, car.unexpected)
<1>0. daemon \in Daemons /\ CarTyped
  BY DEF ControlInv
<1>1. DaemonTurns("open", "hello", FALSE, FALSE)
  BY DaemonStarts DEF Launch
<1>2. CarTurns(car.at, car.unexpected)
  BY <1>0, CarKeeps DEF Launch
<1>3. Counted'
  BY DEF ControlInv, Counted, Launch, fixes, bounds
<1>4. UNCHANGED <<hu, kind, wedged, stale>> /\ watchdog = "ready" /\ watchdog' = "runs"
  BY DEF ControlInv, Watched, Usb, Launch, fixes, bounds, link
<1>5. Watched'
  BY <1>1, <1>4 DEF ControlInv, Watched, DaemonTurns, Usb
<1> QED
  BY <1>1, <1>2, <1>3, <1>5 DEF ControlInv, DaemonTurns, CarTurns

\* A gadget that wedges.
LEMMA CtlWedges ==
  ASSUME ControlInv, Wedges
  PROVE  /\ ControlInv'
         /\ DaemonTurns(daemon.at, daemon.hs, daemon.read, daemon.broken)
         /\ CarTurns(car.at, car.unexpected)
<1>0. daemon \in Daemons /\ CarTyped
  BY DEF ControlInv
<1>1. DaemonTurns(daemon.at, daemon.hs, daemon.read, daemon.broken)
  BY <1>0, DaemonKeeps DEF Wedges
<1>2. CarTurns(car.at, car.unexpected)
  BY <1>0, CarKeeps DEF Wedges
<1>3. Counted'
  BY BringupAssumption DEF ControlInv, Counted, Wedges, Fault, fixes
<1>4. UNCHANGED <<hu, kind, stale, watchdog>> /\ wedged' = TRUE
  BY DEF ControlInv, Watched, Usb, Wedges, Fault, fixes, link
<1>5. Watched'
  BY <1>1, <1>4 DEF ControlInv, Watched, DaemonTurns, Usb
<1> QED
  BY <1>1, <1>2, <1>3, <1>5 DEF ControlInv, DaemonTurns, CarTurns

\* The device is open.
LEMMA CtlOpen ==
  ASSUME ControlInv, Open
  PROVE  /\ ControlInv'
         /\ DaemonTurns("first", daemon.hs, daemon.read, daemon.broken)
         /\ CarTurns(car.at, car.unexpected)
<1>0. daemon \in Daemons /\ CarTyped
  BY DEF ControlInv
<1>1. DaemonTurns("first", daemon.hs, daemon.read, daemon.broken)
  BY <1>0, DaemonMoves DEF Open, DaemonAt
<1>2. CarTurns(car.at, car.unexpected)
  BY <1>0, CarKeeps DEF Open
<1>3. Counted'
  BY DEF ControlInv, Counted, Open, fixes, bounds
<1>4. UNCHANGED <<hu, kind, wedged, watchdog, stale>> /\ daemon.at = "open"
  BY DEF ControlInv, Watched, Usb, Open, fixes, bounds, link, DaemonAt
<1>5. Watched'
  BY <1>1, <1>4 DEF ControlInv, Watched, DaemonTurns, Usb
<1> QED
  BY <1>1, <1>2, <1>3, <1>5 DEF ControlInv, DaemonTurns, CarTurns

\* The end of the handshake.
LEMMA CtlHandshakeDone ==
  ASSUME ControlInv, HandshakeDone
  PROVE  /\ ControlInv'
         /\ DaemonTurns("auth", daemon.hs, daemon.read, daemon.broken)
         /\ CarTurns(car.at, car.unexpected)
<1>0. daemon \in Daemons /\ CarTyped
  BY DEF ControlInv
<1>1. DaemonTurns("auth", daemon.hs, daemon.read, daemon.broken)
  BY <1>0, DaemonMoves DEF HandshakeDone, DaemonAt
<1>2. CarTurns(car.at, car.unexpected)
  BY <1>0, CarKeeps DEF HandshakeDone
<1>3. Counted'
  BY DEF ControlInv, Counted, HandshakeDone, fixes, bounds
<1>4. UNCHANGED <<hu, kind, wedged, watchdog, stale>> /\ daemon.at = "tls" /\ daemon.hs = "done"
  BY DEF ControlInv, Watched, Usb, HandshakeDone, fixes, bounds, link, DaemonAt
<1>5. Watched'
  BY <1>1, <1>4 DEF ControlInv, Watched, DaemonTurns, Usb
<1> QED
  BY <1>1, <1>2, <1>3, <1>5 DEF ControlInv, DaemonTurns, CarTurns

\* A write.
LEMMA CtlWrite ==
  ASSUME ControlInv, Write
  PROVE  /\ ControlInv'
         /\ DaemonTurns(daemon.at, daemon.hs, daemon.read, daemon.broken)
         /\ CarTurns(car.at, car.unexpected)
<1>0. daemon \in Daemons /\ CarTyped
  BY DEF ControlInv
<1>1. DaemonTurns(daemon.at, daemon.hs, daemon.read, daemon.broken)
  BY <1>0, DaemonWrites DEF Write, Skips
<1>2. CarTurns(car.at, car.unexpected)
  BY <1>0, CarKeeps DEF Write
<1>3. Counted'
  BY DEF ControlInv, Counted, Write, fixes, bounds
<1>4. UNCHANGED <<hu, kind, wedged, watchdog, stale>>
  BY DEF ControlInv, Watched, Usb, Write, fixes, bounds, link
<1>5. Watched'
  BY <1>1, <1>4 DEF ControlInv, Watched, DaemonTurns, Usb
<1> QED
  BY <1>1, <1>2, <1>3, <1>5 DEF ControlInv, DaemonTurns, CarTurns

\* A head unit comes,
LEMMA CtlComes ==
  ASSUME ControlInv, Comes
  PROVE  /\ ControlInv'
         /\ DaemonTurns(daemon.at, daemon.hs, daemon.read, daemon.broken)
         /\ CarTurns("greet", car.unexpected)
<1>0. daemon \in Daemons /\ CarTyped
  BY DEF ControlInv
<1>1. DaemonTurns(daemon.at, daemon.hs, daemon.read, daemon.broken)
  BY <1>0, DaemonKeeps DEF Comes, Speaking
<1>2. CarTurns("greet", car.unexpected)
  BY <1>0, CarMoves DEF Comes, Says, CarAt
<1>3. Counted'
  BY DEF ControlInv, Counted, Comes, fixes, bounds
<1>4. UNCHANGED <<hu, kind, wedged, watchdog, stale>>
  BY DEF ControlInv, Watched, Usb, Comes, Says, Speaking, fixes, bounds, CarAt
<1>5. Watched'
  BY <1>1, <1>4 DEF ControlInv, Watched, DaemonTurns, Usb
<1> QED
  BY <1>1, <1>2, <1>3, <1>5 DEF ControlInv, DaemonTurns, CarTurns

\* opens the conversation,
LEMMA CtlGreets ==
  ASSUME ControlInv, Greets
  PROVE  /\ ControlInv'
         /\ DaemonTurns(daemon.at, daemon.hs, daemon.read, daemon.broken)
         /\ CarTurns(IF kind \in {"car", "dhu-tcp"} THEN "version" ELSE "probe", car.unexpected)
<1>0. daemon \in Daemons /\ CarTyped
  BY DEF ControlInv
<1>1. DaemonTurns(daemon.at, daemon.hs, daemon.read, daemon.broken)
  BY <1>0, DaemonKeeps DEF Greets, Speaking
<1>2. CarTurns(IF kind \in {"car", "dhu-tcp"} THEN "version" ELSE "probe", car.unexpected)
  BY <1>0, CarMoves, Kinships DEF Greets, Says, CarAt, Greeting, Kinds, ControlInv, Watched
<1>3. Counted'
  BY DEF ControlInv, Counted, Greets, fixes, bounds
<1>4. UNCHANGED <<hu, kind, wedged, watchdog, stale>>
  BY DEF Greets, Speaking
<1>5. Watched'
  BY <1>1, <1>4 DEF ControlInv, Watched, DaemonTurns, Usb
<1> QED
  BY <1>1, <1>2, <1>3, <1>5 DEF ControlInv, DaemonTurns, CarTurns

\* asks for something,
LEMMA CtlAsks ==
  ASSUME ControlInv, Asks
  PROVE  /\ ControlInv'
         /\ DaemonTurns(daemon.at, daemon.hs, daemon.read, daemon.broken)
         /\ CarTurns(car.at, car.unexpected)
<1>0. daemon \in Daemons /\ CarTyped
  BY DEF ControlInv
<1>1. DaemonTurns(daemon.at, daemon.hs, daemon.read, daemon.broken)
  BY <1>0, DaemonKeeps DEF Asks, Speaking
<1>2. CarTurns(car.at, car.unexpected)
  BY <1>0, CarEdits DEF Asks
<1>3. Counted'
  BY BringupAssumption DEF ControlInv, Counted, Asks, fixes
<1>4. UNCHANGED <<hu, kind, wedged, watchdog, stale>>
  BY DEF ControlInv, Watched, Usb, Asks, Speaking, fixes
<1>5. Watched'
  BY <1>1, <1>4 DEF ControlInv, Watched, DaemonTurns, Usb
<1> QED
  BY <1>1, <1>2, <1>3, <1>5 DEF ControlInv, DaemonTurns, CarTurns

\* falls silent,
LEMMA CtlFallsSilent ==
  ASSUME ControlInv, FallsSilent
  PROVE  /\ ControlInv'
         /\ DaemonTurns(daemon.at, daemon.hs, daemon.read, daemon.broken)
         /\ CarTurns(car.at, car.unexpected)
<1>0. daemon \in Daemons /\ CarTyped
  BY DEF ControlInv
<1>1. DaemonTurns(daemon.at, daemon.hs, daemon.read, daemon.broken)
  BY <1>0, DaemonKeeps DEF FallsSilent, Speaking
<1>2. CarTurns(car.at, car.unexpected)
  BY <1>0, CarEdits DEF FallsSilent
<1>3. Counted'
  BY BringupAssumption DEF ControlInv, Counted, FallsSilent, Fault, fixes
<1>4. UNCHANGED <<hu, kind, wedged, watchdog, stale>>
  BY DEF ControlInv, Watched, Usb, FallsSilent, Fault, Speaking, fixes
<1>5. Watched'
  BY <1>1, <1>4 DEF ControlInv, Watched, DaemonTurns, Usb
<1> QED
  BY <1>1, <1>2, <1>3, <1>5 DEF ControlInv, DaemonTurns, CarTurns

\* and speaks again,
LEMMA CtlWakes ==
  ASSUME ControlInv, Wakes
  PROVE  /\ ControlInv'
         /\ DaemonTurns(daemon.at, daemon.hs, daemon.read, daemon.broken)
         /\ CarTurns(car.at, car.unexpected)
<1>0. daemon \in Daemons /\ CarTyped
  BY DEF ControlInv
<1>1. DaemonTurns(daemon.at, daemon.hs, daemon.read, daemon.broken)
  BY <1>0, DaemonKeeps DEF Wakes
<1>2. CarTurns(car.at, car.unexpected)
  BY <1>0, CarEdits DEF Wakes
<1>3. Counted'
  BY DEF ControlInv, Counted, Wakes, fixes, bounds
<1>4. UNCHANGED <<hu, kind, wedged, watchdog, stale>>
  BY DEF ControlInv, Watched, Usb, Wakes, bounds, fixes
<1>5. Watched'
  BY <1>1, <1>4 DEF ControlInv, Watched, DaemonTurns, Usb
<1> QED
  BY <1>1, <1>2, <1>3, <1>5 DEF ControlInv, DaemonTurns, CarTurns

\* talks nonsense,
LEMMA CtlTalksNonsense ==
  ASSUME ControlInv, TalksNonsense
  PROVE  /\ ControlInv'
         /\ DaemonTurns(daemon.at, daemon.hs, daemon.read, daemon.broken)
         /\ CarTurns(IF car.at \in {"auth", "served"} THEN car.at ELSE "lost", car.unexpected)
<1>0. daemon \in Daemons /\ CarTyped
  BY DEF ControlInv
<1>1. DaemonTurns(daemon.at, daemon.hs, daemon.read, daemon.broken)
  BY <1>0, DaemonKeeps DEF TalksNonsense, Speaking
<1>2. CarTurns(IF car.at \in {"auth", "served"} THEN car.at ELSE "lost", car.unexpected)
  BY <1>0, CarMoves DEF TalksNonsense, Says, CarAt
<1>3. Counted'
  BY BringupAssumption DEF ControlInv, Counted, TalksNonsense, Fault, fixes
<1>4. UNCHANGED <<hu, kind, wedged, watchdog, stale>>
  BY DEF ControlInv, Watched, Usb, TalksNonsense, Says, Fault, Speaking, fixes, CarAt
<1>5. Watched'
  BY <1>1, <1>4 DEF ControlInv, Watched, DaemonTurns, Usb
<1> QED
  BY <1>1, <1>2, <1>3, <1>5 DEF ControlInv, DaemonTurns, CarTurns

\* refuses our certificate,
LEMMA CtlRefuses ==
  ASSUME ControlInv, Refuses
  PROVE  /\ ControlInv'
         /\ DaemonTurns(daemon.at, daemon.hs, daemon.read, daemon.broken)
         /\ CarTurns("lost", car.unexpected)
<1>0. daemon \in Daemons /\ CarTyped
  BY DEF ControlInv
<1>1. DaemonTurns(daemon.at, daemon.hs, daemon.read, daemon.broken)
  BY <1>0, DaemonKeeps DEF Refuses, Speaking
<1>2. CarTurns("lost", car.unexpected)
  BY <1>0, CarMoves DEF Refuses, Says, CarAt
<1>3. Counted'
  BY BringupAssumption DEF ControlInv, Counted, Refuses, Fault, fixes
<1>4. UNCHANGED <<hu, kind, wedged, watchdog, stale>>
  BY DEF ControlInv, Watched, Usb, Refuses, Says, Fault, Speaking, fixes, CarAt
<1>5. Watched'
  BY <1>1, <1>4 DEF ControlInv, Watched, DaemonTurns, Usb
<1> QED
  BY <1>1, <1>2, <1>3, <1>5 DEF ControlInv, DaemonTurns, CarTurns

\* is unplugged,
LEMMA CtlIsUnplugged ==
  ASSUME ControlInv, IsUnplugged
  PROVE  /\ ControlInv'
         /\ DaemonTurns(daemon.at, daemon.hs, daemon.read, Cut)
         /\ CarTurns("away", FALSE)
<1>0. daemon \in Daemons /\ CarTyped
  BY DEF ControlInv
<1>1. DaemonTurns(daemon.at, daemon.hs, daemon.read, Cut)
  BY <1>0, DaemonBroken DEF IsUnplugged, Leaves, Cut
<1>2. CarTurns("away", FALSE)
  BY CarGoes DEF IsUnplugged, Leaves
<1>3. Counted'
  BY BringupAssumption DEF ControlInv, Counted, IsUnplugged, Fault, Leaves, fixes
<1>4. UNCHANGED <<hu, kind, wedged, watchdog>> /\ stale' = FALSE
  BY DEF ControlInv, Watched, Usb, IsUnplugged, Leaves, Fault, fixes
<1>5. Watched'
  BY <1>1, <1>4 DEF ControlInv, Watched, DaemonTurns, Usb, Cut
<1> QED
  BY <1>1, <1>2, <1>3, <1>5 DEF ControlInv, DaemonTurns, CarTurns

\* or gives up.
LEMMA CtlGivesUp ==
  ASSUME ControlInv, GivesUp
  PROVE  /\ ControlInv'
         /\ DaemonTurns(daemon.at, daemon.hs, daemon.read, Cut)
         /\ CarTurns("away", FALSE)
<1>0. daemon \in Daemons /\ CarTyped
  BY DEF ControlInv
<1>1. DaemonTurns(daemon.at, daemon.hs, daemon.read, Cut)
  BY <1>0, DaemonBroken DEF GivesUp, Leaves, Cut
<1>2. CarTurns("away", FALSE)
  BY CarGoes DEF GivesUp, Leaves
<1>3. Counted'
  BY DEF ControlInv, Counted, GivesUp, Leaves, fixes, bounds
<1>4. UNCHANGED <<hu, kind, wedged, watchdog>> /\ stale' = FALSE
  BY DEF ControlInv, Watched, Usb, GivesUp, Leaves, bounds, fixes
<1>5. Watched'
  BY <1>1, <1>4 DEF ControlInv, Watched, DaemonTurns, Usb, Cut
<1> QED
  BY <1>1, <1>2, <1>3, <1>5 DEF ControlInv, DaemonTurns, CarTurns

\* A process that ends,
LEMMA CtlStops ==
  ASSUME ControlInv, Ends, Counted', UNCHANGED <<hu, kind, wedged>>
  PROVE  ControlInv'
<1>0. daemon \in Daemons /\ CarTyped
  BY DEF ControlInv
<1>1. DaemonTurns("off", "hello", FALSE, FALSE)
  BY DaemonOff DEF Ends
<1>2. CarTyped'
  BY <1>0, CarKeeps, CarGoes DEF Ends, CarTurns
<1>3. watchdog' = "ended" /\ stale' \in BOOLEAN
  BY <1>0 DEF Ends, ControlInv, Watched, Daemons
<1>4. ~Skips'
  BY DEF Ends, Off, Skips
<1>5. Watched'
  BY <1>1, <1>3, <1>4 DEF ControlInv, Watched, DaemonTurns, Usb
<1> QED
  BY <1>1, <1>2, <1>5 DEF ControlInv, DaemonTurns

\* undisturbed,
LEMMA CtlEnds ==
  ASSUME ControlInv, Ends, UNCHANGED <<hu, kind, wedged, bounds, fixes>>
  PROVE  ControlInv'
<1>1. Counted'
  BY DEF ControlInv, Counted, bounds, fixes
<1> QED
  BY <1>1, CtlStops

\* that fails on a message,
LEMMA CtlFails ==
  ASSUME ControlInv, Fails, UNCHANGED <<hu, kind, wedged, bounds, fixes>>
  PROVE  ControlInv'
<1>1. CASE ~Usb
  BY <1>1, CtlEnds DEF Fails
<1>2. CASE Usb
  <2>0. daemon \in Daemons /\ CarTyped
    BY DEF ControlInv
  <2>1. DaemonTurns("off", "hello", FALSE, FALSE)
    BY <1>2, DaemonOff DEF Fails
  <2>2. CarTyped'
    BY <1>2, <2>0, CarKeeps DEF Fails, CarTurns
  <2>3. watchdog' = "ended" /\ stale' /\ ~Skips'
    BY <1>2 DEF Fails, Off, Skips
  <2>4. Watched'
    BY <2>1, <2>3 DEF ControlInv, Watched, DaemonTurns, Usb
  <2> QED
    BY <2>1, <2>2, <2>4 DEF ControlInv, DaemonTurns, Counted, bounds, fixes
<1> QED
  BY <1>1, <1>2

\* that has waited too long,
LEMMA CtlTimeout == ControlInv /\ Timeout => ControlInv'
<1> SUFFICES ASSUME ControlInv, Timeout PROVE ControlInv'
  OBVIOUS
<1>1. CASE ~Usb
  BY <1>1, CtlEnds DEF Timeout
<1>2. CASE Usb
  <2>0. daemon \in Daemons /\ CarTyped
    BY DEF ControlInv
  <2>1. DaemonTurns("exiting", "hello", daemon.read, daemon.broken)
    BY <1>2, <2>0, DaemonExits DEF Timeout
  <2>2. CarTyped'
    BY <1>2, <2>0, CarKeeps DEF Timeout, CarTurns
  <2>3. daemon.at = "tls" /\ UNCHANGED <<hu, kind, wedged, watchdog, stale, bounds, fixes>>
    BY <1>2 DEF Timeout
  <2>4. Watched'
    BY <1>2, <2>1, <2>3 DEF ControlInv, Watched, DaemonTurns, Usb
  <2> QED
    BY <2>1, <2>2, <2>3, <2>4 DEF ControlInv, DaemonTurns, Counted, bounds, fixes
<1> QED
  BY <1>1, <1>2

\* or cannot write: the loop goes on, and skips a record.
Misses == /\ daemon' = [daemon EXCEPT !.sends = IF @ = "all" THEN "skipped" ELSE @]
          /\ outs' = <<>> /\ daemon.at = "loop"
          /\ UNCHANGED <<watchdog, link, car, stale>>

\* Its record then.
LEMMA DaemonMisses ==
  ASSUME daemon \in Daemons, Misses
  PROVE  /\ daemon' \in Daemons /\ Skips'
         /\ UNCHANGED <<daemon.at, daemon.hs, daemon.read, daemon.broken>>
BY DEF Misses, Skips, Daemons, SendStates

\* A write that fails,
LEMMA CtlWriteError ==
  ASSUME ControlInv, WriteError, Counted', UNCHANGED <<hu, kind, wedged>>
  PROVE  ControlInv'
<1>1. CASE Ends
  BY <1>1, CtlStops
<1>2. CASE Misses
  <2>0. daemon \in Daemons /\ CarTyped
    BY DEF ControlInv
  <2>1. /\ daemon' \in Daemons /\ Skips'
        /\ UNCHANGED <<daemon.at, daemon.hs, daemon.read, daemon.broken>>
    BY <1>2, <2>0, DaemonMisses
  <2>2. CarTyped'
    BY <1>2, <2>0, CarKeeps DEF Misses, CarTurns
  <2>3. Watched'
    BY <1>2, <2>1 DEF Misses, ControlInv, Watched, Usb
  <2> QED
    BY <2>1, <2>2, <2>3 DEF ControlInv
<1> QED
  BY <1>1, <1>2 DEF WriteError, Misses

\* on a link that is gone
LEMMA CtlWriteFails == ControlInv /\ WriteFails => ControlInv'
<1> SUFFICES ASSUME ControlInv, WriteFails PROVE ControlInv'
  OBVIOUS
<1>1. Counted'
  BY DEF WriteFails, ControlInv, Counted, bounds, fixes
<1> QED
  BY <1>1, CtlWriteError DEF WriteFails

\* or on one that is there.
LEMMA CtlWriteIsLost == ControlInv /\ WriteIsLost => ControlInv'
<1> SUFFICES ASSUME ControlInv, WriteIsLost PROVE ControlInv'
  OBVIOUS
<1>1. Counted'
  BY BringupAssumption DEF WriteIsLost, Fault, ControlInv, Counted, fixes
<1> QED
  BY <1>1, CtlWriteError DEF WriteIsLost

\* Everything else that ends a process.
LEMMA CtlOver == ControlInv /\ (ReadFails \/ PreseedFails \/ Exit) => ControlInv'
BY CtlEnds, CtlFails DEF ReadFails, PreseedFails, Exit

\* A handshake goes on within the protocol.
Moves(at, hs) ==
  /\ at \in {"tls", "auth", "loop"} /\ hs \in TlsStates
  /\ hs = "bad" => at = "tls"
  /\ at \in {"auth", "loop"} => hs = "done"

\* A read ends in failure or goes on within the protocol.
LEMMA ReadOutcome ==
  ASSUME ControlInv, Read
  PROVE  \/ Fails /\ UNCHANGED fixes
         \/ \E at, hs, msgs : /\ Moves(at, hs) /\ Proceed(at, hs, msgs)
                              /\ daemon.at = "loop" => at = "loop"
<1> USE DEF Moves, TlsStates
<1>1. CASE daemon.at = "first" /\ Usb /\ FirstUsb /\ UNCHANGED fixes
  BY <1>1 DEF FirstUsb, Preseed
<1>2. CASE daemon.at = "first" /\ ~Usb /\ FirstTcp /\ UNCHANGED fixes
  BY <1>2 DEF FirstTcp
<1>3. CASE /\ daemon.at = "tls" /\ daemon.hs \in {"hello", "finished"} /\ Handshake
           /\ UNCHANGED fixes
  BY <1>3 DEF Handshake, Tls, Message, Empty, ClientHello, ClientFinished
<1>4. CASE daemon.at = "auth" /\ Authenticated /\ UNCHANGED fixes
  BY <1>4 DEF Authenticated
<1>5. CASE daemon.at = "loop" /\ Handle
  BY <1>5 DEF Handle
<1> QED
  BY <1>1, <1>2, <1>3, <1>4, <1>5 DEF Read

\* Reading keeps ControlInv.
LEMMA CtlRead == ControlInv /\ Read => ControlInv'
<1> SUFFICES ASSUME ControlInv, Read PROVE ControlInv'
  OBVIOUS
<1>1. UNCHANGED <<hu, kind, wedged, bounds>>
  BY DEF Read
<1>2. CASE Fails /\ UNCHANGED fixes
  BY <1>1, <1>2, CtlFails
<1>3. ASSUME NEW at, NEW hs, NEW msgs, Moves(at, hs), Proceed(at, hs, msgs),
             daemon.at = "loop" => at = "loop"
      PROVE  ControlInv'
  <2>0. daemon \in Daemons /\ CarTyped
    BY DEF ControlInv
  <2>1. DaemonTurns(at, hs, TRUE, daemon.broken)
    BY <2>0, <1>3, DaemonProceeds DEF Proceed, Moves, DaemonAt
  <2>2. CarTyped'
    BY <1>3, <2>0, CarKeeps DEF Proceed, CarTurns
  <2>3. Counted'
    BY <1>1 DEF Read, Handle, ControlInv, Counted, bounds, fixes
  <2>4. UNCHANGED <<watchdog, stale>> /\ watchdog = "runs"
    BY <1>3 DEF Proceed, Read, Ready, Reading, ControlInv, Watched
  <2>5. Skips' => daemon'.at = "loop"
    BY <1>3, <2>1 DEF ControlInv, Watched, DaemonTurns
  <2>6. Watched'
    BY <1>1, <1>3, <2>1, <2>4, <2>5 DEF ControlInv, Watched, DaemonTurns, Usb, Moves
  <2> QED
    BY <2>1, <2>2, <2>3, <2>6 DEF ControlInv, DaemonTurns
<1>4. ASSUME \E at, hs, msgs : /\ Moves(at, hs) /\ Proceed(at, hs, msgs)
                               /\ daemon.at = "loop" => at = "loop"
      PROVE  ControlInv'
  BY <1>3, <1>4
<1> QED
  BY <1>2, <1>4, ReadOutcome

\* A head unit's services are on channels that fit a byte.
LEMMA TableChannels ==
  ASSUME ControlInv, NEW ch, NEW v \in ServicesAt(ch)
  PROVE  ch \in ChannelBytes
<1>1. PICK d \in ToSet(Table) : d.id = ch
  BY DEF ServicesAt
<1>2. hu \in DOMAIN Tables
  BY Kinships DEF ControlInv, Watched
<1>3. \A e \in ToSet(Tables[hu]) : e.id \in ChannelBytes
  BY <1>2, BringupAssumption
<1> QED
  BY <1>1, <1>3 DEF Table

\* A head unit that hears something it can place.
LEMMA AnsweredAt ==
  ASSUME NEW m, NEW a \in Answered(m)
  PROVE  a[1] \in CarAt
BY DEF Answered, CarAt

\* Before it serves, such a head unit moves on; from then on it stays.
LEMMA PlacedTurns ==
  ASSUME ControlInv, NEW m, NEW p \in Placed(m), car' = p[1]
  PROVE  /\ car.at \in {"lost", "served"} => CarTurns(car.at, car.unexpected)
         /\ car.at \notin {"lost", "served"} =>
              \E a \in Answered(m) : CarTurns(a[1], car.unexpected) /\ p[2] = a[2]
<1>0. CarTyped
  BY DEF ControlInv
<1>1. CASE car.at = "lost"
  BY <1>0, <1>1, CarKeeps DEF Placed
<1>2. CASE car.at \notin {"lost", "served"}
  <2>1. PICK a \in Answered(m) : p = <<[car EXCEPT !.at = a[1]], a[2]>>
    BY <1>2 DEF Placed
  <2> QED
    BY <1>0, <1>2, <2>1, AnsweredAt, CarMoves
<1>3. CASE car.at = "served"
  <2>0. \/ p = <<car, <<>>>>
        \/ p = <<[car EXCEPT !.owed = Tail(@)], <<>>>>
        \/ p \in OpenPlaced(m)
        \/ m.ch \in car.opened /\ p \in SetupPlaced(m)
    <3>1. \/ Placed(m) = {<<car, <<>>>>}
          \/ Placed(m) = {<<[car EXCEPT !.owed = Tail(@)], <<>>>>}
          \/ Placed(m) = OpenPlaced(m)
          \/ m.ch \in car.opened /\ Placed(m) = SetupPlaced(m)
          \/ Placed(m) = {}
      BY <1>3 DEF Placed
    <3> QED
      BY <3>1
  <2>1. \/ car' = car
        \/ \E v : car' = [car EXCEPT !.owed = v]
        \/ /\ \E v : v \in ServicesAt(m.ch)
           /\ car' = [car EXCEPT !.opened = @ \cup {m.ch}]
        \/ m.ch \in car.opened /\ car' = [car EXCEPT !.set = @ \cup {m.ch}]
    <3>1. CASE p = <<car, <<>>>>
      BY <3>1
    <3>2. CASE p = <<[car EXCEPT !.owed = Tail(@)], <<>>>>
      BY <3>2
    <3>3. CASE p \in OpenPlaced(m)
      BY <3>3 DEF OpenPlaced
    <3>4. CASE m.ch \in car.opened /\ p \in SetupPlaced(m)
      <4>1. PICK a \in SetupsFor(m) :
              p = <<[car EXCEPT !.set = @ \cup {m.ch}], <<Message(m.ch, a.answer, Ok)>>>>
        BY <3>4, Zenon DEF SetupPlaced
      <4> QED
        BY <3>4, <4>1
    <3> QED
      BY <2>0, <3>1, <3>2, <3>3, <3>4
  <2>2. CASE car' = car
    BY <1>0, <1>3, <2>2, CarKeeps
  <2>3. ASSUME NEW v, car' = [car EXCEPT !.owed = v]
        PROVE  CarTurns(car.at, car.unexpected)
    BY <1>0, <2>3, CarEdits
  <2>4. CASE /\ \E v : v \in ServicesAt(m.ch)
             /\ car' = [car EXCEPT !.opened = @ \cup {m.ch}]
    <3>1. m.ch \in ChannelBytes
      BY <2>4, TableChannels
    <3> QED
      BY <1>0, <1>3, <2>4, <3>1, CarEdits
  <2>5. CASE m.ch \in car.opened /\ car' = [car EXCEPT !.set = @ \cup {m.ch}]
    BY <1>0, <1>3, <2>5, CarEdits
  <2> QED
    BY <1>3, <2>1, <2>2, <2>3, <2>4, <2>5
<1> QED
  BY <1>1, <1>2, <1>3

\* Hearing keeps ControlInv.
LEMMA CtlHears == ControlInv /\ Hears => ControlInv'
<1> SUFFICES ASSUME ControlInv, Hears PROVE ControlInv'
  OBVIOUS
<1> DEFINE m == Head(toCar)
<1>1. CarTyped'
  <2>1. CASE Placed(m) = {}
    BY <2>1, CarFrowns DEF Hears, ControlInv, CarTurns
  <2>2. CASE Placed(m) # {}
    <3>1. PICK p \in Placed(m) : car' = p[1]
      BY <2>2 DEF Hears
    <3> QED
      BY <3>1, PlacedTurns DEF CarTurns
  <2> QED
    BY <2>1, <2>2
<1>2. UNCHANGED <<hu, kind, wedged, watchdog, daemon, stale, bounds, fixes>>
  BY DEF Hears, Speaking
<1> QED
  BY <1>1, <1>2 DEF ControlInv, Watched, Counted, Usb, Skips, bounds, fixes

\* ControlInv holds initially,
LEMMA ControlInit == Init => ControlInv
<1> SUFFICES ASSUME Init PROVE ControlInv
  OBVIOUS
<1>1. daemon \in Daemons /\ CarTyped /\ daemon.at = "off" /\ daemon.hs = "hello"
      /\ ~daemon.read /\ ~daemon.broken /\ ~Skips
  BY DEF Init, Off, Away, CarTyped, CarAt, Daemons, DaemonAt, TlsStates, SendStates, Skips
<1>2. <<hu, kind>> \in Cars
  <2>1. PICK c \in Cars : hu = c[1] /\ kind = c[2]
    BY DEF Init
  <2>3. c = <<c[1], c[2]>>
    BY BringupAssumption
  <2> QED
    BY <2>1, <2>3
<1>3. faults \in 0..MaxFaults /\ requests \in 0..MaxRequests /\ logged \in 0..positions
      /\ positions \in Nat
  BY BringupAssumption DEF Init
<1> QED
  BY <1>1, <1>2, <1>3 DEF Init, ControlInv, Watched, Counted

\* and every step keeps it.
LEMMA ControlNext == ControlInv /\ [Next]_vars => ControlInv'
<1>1. ControlInv /\ UNCHANGED vars => ControlInv'
  BY DEF ControlInv, Watched, Counted, CarTyped, Usb, Skips, vars, bounds, fixes
<1> QED
  BY <1>1, CtlRebind, CtlLaunch, CtlOpen, CtlRead, CtlOver, CtlHandshakeDone, CtlWrite,
     CtlWriteFails, CtlWriteIsLost, CtlTimeout, CtlComes, CtlGreets, CtlHears, CtlAsks, CtlFallsSilent,
     CtlWakes, CtlTalksNonsense, CtlRefuses, CtlIsUnplugged, CtlWedges, CtlGivesUp
     DEF Next, DaemonStep, CarStep

\* Type correctness of the bring-up: watchdog, process, gadget and head unit stay
\* within their states for every set of head units and all bounds.
THEOREM BringupTypeCorrect == Spec => []TypeOK
<1>1. ControlInv => TypeOK
  BY DEF ControlInv, Watched, Counted, CarTyped, Daemons, Skips, TypeOK
<1> QED
  BY <1>1, ControlInit, ControlNext, PTL DEF Spec

\* A daemon joins a connection at its first message: no process that shakes hands
\* or serves has a predecessor that read from the same connection (the rebinding
\* in aabox-aapd-watchdog.sh before each start).
THEOREM JoinsOnce == Spec => []JoinsAtTheStart
<1>1. ControlInv => JoinsAtTheStart
  BY DEF ControlInv, Watched, JoinsAtTheStart
<1> QED
  BY <1>1, ControlInit, ControlNext, PTL DEF Spec

-----------------------------------------------------------------------------
(* Whom the control loop serves.                                           *)

Frames == [ch : ChannelBytes, id : Nat, arg : Nat \cup {Garbled}]
Accepts(m) == m.id = AuthComplete /\ m.arg = Ok
Accepted(at) == at \in {"auth", "served"}

\* What is under way to the daemon from a head unit that is there: an
\* AuthComplete that is OK only from one that has accepted us.
Heard(q, at) ==
  /\ q \in Seq(Frames)
  /\ \A i \in 1..Len(q) : Accepts(q[i]) => Accepted(at)
Speech(msgs, at) ==
  \/ msgs = <<>>
  \/ \E m \in Frames : msgs = <<m>> /\ (Accepts(m) => Accepted(at))
ServingInv == ControlInv /\ Heard(toDaemon, car.at) /\ ServesAccepted

\* An empty queue holds no AuthComplete;
LEMMA HeardNothing == ASSUME NEW at PROVE Heard(<<>>, at)
BY DEF Heard

\* taking its first message away,
LEMMA HeardLess ==
  ASSUME NEW q, NEW at, Heard(q, at), q # <<>>
  PROVE  Heard(Tail(q), at) /\ Head(q) \in Frames
         /\ (Accepts(Head(q)) => Accepted(at))
BY DEF Heard

\* or adding what such a head unit says, keeps it so.
LEMMA HeardMore ==
  ASSUME NEW q, NEW at, NEW b, NEW msgs, Heard(q, at), Accepted(at) => Accepted(b),
         Speech(msgs, b)
  PROVE  Heard(q \o msgs, b)
<1>0. q \in Seq(Frames) /\ \A i \in 1..Len(q) : Accepts(q[i]) => Accepted(b)
  BY DEF Heard
<1>1. CASE msgs = <<>>
  BY <1>0, <1>1, ConcatEmptySeq DEF Heard
<1>2. ASSUME NEW m \in Frames, msgs = <<m>>, Accepts(m) => Accepted(b)
      PROVE  Heard(q \o msgs, b)
  <2>1. q \o msgs = Append(q, m)
    BY <1>0, <1>2, AppendIsConcat
  <2>2. Append(q, m) \in Seq(Frames) /\ Len(Append(q, m)) = Len(q) + 1
        /\ \A i \in 1..Len(q) + 1 :
             Append(q, m)[i] = IF i = Len(q) + 1 THEN m ELSE q[i]
    BY <1>0, <1>2, AppendProperties
  <2> QED
    BY <1>0, <1>2, <2>1, <2>2 DEF Heard
<1> QED
  BY <1>1, <1>2 DEF Speech

\* What a message is made of, and when it accepts us.
LEMMA Arguments ==
  ASSUME NEW ch \in ChannelBytes, NEW id \in Nat, NEW arg \in Nat \cup {Garbled}
  PROVE  Message(ch, id, arg) \in Frames
         /\ (id # AuthComplete => ~Accepts(Message(ch, id, arg)))
         /\ (arg # Ok => ~Accepts(Message(ch, id, arg)))
BY DEF Message, Frames, Accepts

\* The numbers: what fits where, and that AuthComplete is none of the others.
LEMMA Ids ==
  /\ {Control, Input} \subseteq ChannelBytes
  /\ {VersionRequest, SslHandshake, AuthComplete, ServiceDiscoveryResponse,
      ChannelOpenRequest, ChannelOpenResponse, PingRequest, NavigationFocusRequest,
      ShutdownRequest, VoiceSessionRequest, AudioFocusRequest, AudioFocusResponse,
      Setup, Start, Stop, SetupResponse, OpenInput, InputOpened, VideoFocus} \subseteq Nat
  /\ AuthComplete \notin
     {VersionRequest, SslHandshake, ServiceDiscoveryResponse,
      ChannelOpenRequest, ChannelOpenResponse, PingRequest, NavigationFocusRequest,
      ShutdownRequest, VoiceSessionRequest, AudioFocusRequest, AudioFocusResponse,
      Setup, Start, Stop, SetupResponse, OpenInput, InputOpened, VideoFocus}
  /\ {Ok, Granted, Refused, ClientHello, ClientFinished, Announcement} \subseteq Nat
  /\ Refused # Ok
BY DEF Control, Input, ChannelBytes, VersionRequest, SslHandshake, AuthComplete,
       ServiceDiscoveryResponse, ChannelOpenRequest, ChannelOpenResponse, PingRequest,
       NavigationFocusRequest, ShutdownRequest, VoiceSessionRequest, AudioFocusRequest,
       AudioFocusResponse, Setup, Start, Stop, SetupResponse, OpenInput, InputOpened,
       VideoFocus, Service, Ok, Granted, Refused, ClientHello, ClientFinished, Announcement

\* TLS bytes never accept us.
LEMMA TlsArguments ==
  ASSUME NEW arg \in Nat \cup {Garbled}
  PROVE  Tls(arg) \in Frames /\ ~Accepts(Tls(arg))
BY Arguments, Ids DEF Tls

\* Saying nothing, or one message that may be said.
LEMMA SpeechOf ==
  /\ \A at : Speech(<<>>, at)
  /\ \A m \in Frames : \A at : (Accepts(m) => Accepted(at)) => Speech(<<m>>, at)
BY DEF Speech

\* The head unit's part of the handshakes, arm by arm.
LEMMA AnsweredCases ==
  ASSUME NEW m, NEW a \in Answered(m)
  PROVE  \/ car.at = "version" /\ kind = "car" /\ m.id = VersionResponse
            /\ a = <<"hello", <<Tls(ClientHello)>>>>
         \/ car.at = "version" /\ kind # "car" /\ m.id = VersionResponse
            /\ a = <<"probe", <<>>>>
         \/ car.at = "probe" /\ m = Tls(Empty) /\ kind = "dhu-bundled"
            /\ a = <<"hello", <<>>>>
         \/ car.at = "probe" /\ m = Tls(Empty) /\ kind # "dhu-bundled"
            /\ a = <<"hello", <<Tls(ClientHello)>>>>
         \/ car.at = "hello" /\ m = Tls(ServerHello)
            /\ a = <<"finish", <<Tls(ClientFinished)>>>>
         \/ car.at = "finish" /\ m = Tls(ServerFinished)
            /\ a = <<"auth", <<Message(Control, AuthComplete, Ok)>>>>
         \/ car.at = "auth" /\ m.id = ServiceDiscoveryRequest
            /\ a = <<"served", <<Message(Control, ServiceDiscoveryResponse, Ok)>>>>
BY DEF Answered

\* Its part of the handshakes is such speech,
LEMMA AnsweredSpeech ==
  ASSUME NEW m, NEW a \in Answered(m)
  PROVE  Speech(a[2], a[1]) /\ (Accepted(car.at) => Accepted(a[1]))
<1>1. Tls(ClientHello) \in Frames /\ ~Accepts(Tls(ClientHello))
      /\ Tls(ClientFinished) \in Frames /\ ~Accepts(Tls(ClientFinished))
  BY TlsArguments, Ids
<1>2. Message(Control, AuthComplete, Ok) \in Frames
  BY Arguments, Ids
<1>3. Message(Control, ServiceDiscoveryResponse, Ok) \in Frames
  BY Arguments, Ids
<1> HIDE DEF Tls
<1>4. CASE car.at = "version" \/ car.at = "probe"
  BY <1>1, <1>4, AnsweredCases, SpeechOf DEF Accepted
<1>5. CASE car.at = "hello" \/ car.at = "finish" \/ car.at = "auth"
  BY <1>1, <1>2, <1>3, <1>5, AnsweredCases, SpeechOf DEF Accepted
<1> QED
  BY <1>4, <1>5, AnsweredCases

\* so are its requests,
LEMMA RequestFrames ==
  ASSUME ControlInv, NEW r \in Requests
  PROVE  r[1] \in Frames
<1>1. \A ch \in ChannelBytes, id \in Nat, arg \in Nat \cup {Garbled} :
        Message(ch, id, arg) \in Frames
  BY Arguments
<1>2. {Ok, Granted, 1, Garbled} \subseteq Nat \cup {Garbled}
  BY Ids
<1>3. \A d \in ToSet(Table) : d.id \in ChannelBytes
  BY Kinships, BringupAssumption DEF ControlInv, Watched, Table
<1>4. ASSUME NEW d \in ToSet(Table), r \in RequestsOf(d) PROVE r[1] \in Frames
  <2>1. \E id \in {VideoFocus, Setup, OpenInput, SetupResponse, Start, Stop},
           arg \in {Ok, Granted} : r[1] = Message(d.id, id, arg)
    <3> HIDE DEF Message
    <3> QED
      BY <1>4 DEF RequestsOf, Position
  <2> QED
    BY <1>1, <1>2, <1>3, <2>1, Ids
<1>5. \/ \E d \in ToSet(Table) : r \in RequestsOf(d)
      \/ \E id \in {PingRequest, AudioFocusRequest, NavigationFocusRequest,
                    ChannelOpenRequest, AudioFocusResponse, VoiceSessionRequest,
                    ShutdownRequest}, arg \in {Ok, 1, Garbled} :
           r[1] = Message(Control, id, arg)
  BY DEF Requests
<1>6. ASSUME NEW id \in {PingRequest, AudioFocusRequest, NavigationFocusRequest,
                     ChannelOpenRequest, AudioFocusResponse, VoiceSessionRequest,
                     ShutdownRequest},
             NEW arg \in {Ok, 1, Garbled}
      PROVE  Message(Control, id, arg) \in Frames
  <2>1. Control \in ChannelBytes /\ id \in Nat /\ arg \in Nat \cup {Garbled}
    BY <1>2, Ids
  <2> QED
    BY <1>1, <2>1
<1> QED
  BY <1>4, <1>5, <1>6

\* and so is what it says to what it places.
LEMMA PlacedSpeech ==
  ASSUME ControlInv, NEW m, NEW p \in Placed(m), car.at \in {"lost", "served"}
  PROVE  Speech(p[2], car.at)
<1>1. CASE car.at = "lost"
  BY <1>1, SpeechOf DEF Placed
<1>2. CASE car.at = "served"
  <2>1. \/ p[2] = <<>>
        \/ p \in OpenPlaced(m)
        \/ m.ch \in car.opened /\ p \in SetupPlaced(m)
    <3>1. \/ Placed(m) = {<<car, <<>>>>}
          \/ Placed(m) = {<<[car EXCEPT !.owed = Tail(@)], <<>>>>}
          \/ Placed(m) = OpenPlaced(m)
          \/ m.ch \in car.opened /\ Placed(m) = SetupPlaced(m)
          \/ Placed(m) = {}
      BY <1>2 DEF Placed
    <3> QED
      BY <3>1
  <2>2. CASE p \in OpenPlaced(m)
    <3>1. m.ch \in ChannelBytes /\ p[2] = <<Message(m.ch, ChannelOpenResponse, Ok)>>
      BY <2>2, TableChannels DEF OpenPlaced
    <3>2. Message(m.ch, ChannelOpenResponse, Ok) \in Frames
      BY <3>1, Arguments, Ids
    <3> QED
      BY <1>2, <3>1, <3>2, SpeechOf DEF Accepted
  <2>3. CASE m.ch \in car.opened /\ p \in SetupPlaced(m)
    <3>1. PICK a \in SetupsFor(m) : p[2] = <<Message(m.ch, a.answer, Ok)>>
      BY <2>3 DEF SetupPlaced
    <3>2. m.ch \in ChannelBytes
      BY <2>3 DEF ControlInv, CarTyped
    <3>3. a.answer \in {SetupResponse, InputOpened, Stop}
      BY DEF SetupsFor, Awaits
    <3>4. Message(m.ch, a.answer, Ok) \in Frames
      BY <3>2, <3>3, Arguments, Ids
    <3> QED
      BY <1>2, <3>1, <3>4, SpeechOf DEF Accepted
  <2> QED
    BY <2>1, <2>2, <2>3, SpeechOf
<1> QED
  BY <1>1, <1>2

\* What a step has to show of the messages and of whom the loop serves.
Serving(q, at) ==
  /\ Heard(q, at)
  /\ daemon'.at = "loop" /\ ~daemon'.broken => Accepted(at)

\* ControlInv and Serving after a step are ServingInv.
LEMMA ServingStep ==
  ASSUME ControlInv', Serving(toDaemon', car'.at)
  PROVE  ServingInv'
BY DEF ServingInv, Serving, ServesAccepted, Accepted

\* The daemon goes on with its connection, or its process ends.
LEMMA ServingEnds ==
  ASSUME ServingInv, Ends
  PROVE  Serving(toDaemon', car'.at)
<1>1. daemon'.at = "off"
  BY DEF Ends, Off
<1>2. CASE Usb
  BY <1>1, <1>2 DEF Ends, ServingInv, Serving, link
<1>3. CASE ~Usb
  BY <1>1, <1>3, HeardNothing DEF Ends, Serving
<1> QED
  BY <1>2, <1>3

\* A process that fails on a message takes that message with it.
LEMMA ServingFails ==
  ASSUME ServingInv, Fails, toDaemon # <<>>
  PROVE  Serving(toDaemon', car'.at)
<1>1. CASE ~Usb
  BY <1>1, ServingEnds DEF Fails
<1>2. CASE Usb
  <2>1. daemon'.at = "off"
    BY <1>2 DEF Fails, Off
  <2> QED
    BY <1>2, <2>1, HeardLess DEF Fails, ServingInv, Serving
<1> QED
  BY <1>1, <1>2

\* It gets into the loop by an AuthComplete that is OK.
LEMMA ReadAccepted ==
  ASSUME ServingInv, Read, NEW at, NEW hs, NEW msgs, Proceed(at, hs, msgs)
  PROVE  daemon'.at = "loop" /\ ~daemon'.broken => Accepted(car.at)
<1>0. daemon \in Daemons
  BY DEF ServingInv, ControlInv
<1>1. ASSUME NEW b \in {"tls", "auth"}, NEW h, NEW ms, Proceed(b, h, ms) PROVE daemon'.at = b
  BY <1>0, <1>1 DEF Proceed, Daemons
<1>2. toDaemon # <<>> /\ ~daemon.broken
  BY DEF Read, Ready
<1>3. CASE Fails
  BY <1>3, ServingFails, <1>2 DEF Fails, Ends, Off
<1>4. CASE daemon.at = "first" /\ Usb /\ FirstUsb
  BY <1>1, <1>3, <1>4 DEF FirstUsb, Preseed
<1>5. CASE daemon.at = "first" /\ ~Usb /\ FirstTcp
  BY <1>1, <1>3, <1>5 DEF FirstTcp
<1>6. CASE daemon.at = "tls" /\ daemon.hs \in {"hello", "finished"} /\ Handshake
  BY <1>1, <1>3, <1>6 DEF Handshake, Tls, Message, Empty, ClientHello, ClientFinished
<1>7. CASE daemon.at = "auth" /\ Authenticated
  <2>1. CASE Accepts(Frame)
    BY <1>2, <2>1, HeardLess DEF ServingInv, Frame
  <2>2. CASE ~Accepts(Frame)
    BY <1>3, <1>7, <2>2 DEF Authenticated, Accepts
  <2> QED
    BY <2>1, <2>2
<1>8. CASE daemon.at = "loop"
  BY <1>2, <1>8 DEF ServingInv, ServesAccepted, Accepted
<1> QED
  BY <1>4, <1>5, <1>6, <1>7, <1>8 DEF Read

\* Reading keeps ServingInv.
LEMMA ServingRead ==
  ASSUME ServingInv, Read
  PROVE  Serving(toDaemon', car'.at)
<1>1. toDaemon # <<>>
  BY DEF Read, Ready
<1>2. CASE Fails
  BY <1>1, <1>2, ServingFails
<1>3. ASSUME NEW at, NEW hs, NEW msgs, Proceed(at, hs, msgs)
      PROVE  Serving(toDaemon', car'.at)
  BY <1>1, <1>3, ReadAccepted, HeardLess DEF Proceed, ServingInv, Serving
<1> QED
  BY <1>2, <1>3, ReadOutcome DEF ServingInv

\* The head unit leaves, or the watchdog takes the gadget off: nothing is
\* under way, and the loop's connection is broken.
LEMMA ServingLeaves ==
  ASSUME ServingInv, Leaves
  PROVE  Serving(toDaemon', car'.at)
<1>0. daemon \in Daemons
  BY DEF ServingInv, ControlInv
<1>1. daemon'.at = "loop" => daemon'.broken
  BY <1>0 DEF Leaves, Daemons
<1> QED
  BY <1>1, HeardNothing DEF Leaves, Serving

\* The watchdog rebinds only while no process runs.
LEMMA ServingRebind ==
  ASSUME ServingInv, Rebind
  PROVE  Serving(toDaemon', car'.at)
<1>1. daemon'.at # "loop"
  BY DEF Rebind, ServingInv, ControlInv, Watched
<1> QED
  BY <1>1, HeardNothing DEF Rebind, Serving

\* Other steps of the daemon and of the watchdog.
LEMMA ServingQuiet ==
  ASSUME ServingInv, UNCHANGED <<toDaemon, car>>,
         UNCHANGED <<daemon.at, daemon.broken>> \/ daemon'.at # "loop"
  PROVE  Serving(toDaemon', car'.at)
BY DEF ServingInv, Serving, ServesAccepted, Accepted

\* The head unit says something.
LEMMA ServingSays ==
  ASSUME ServingInv, UNCHANGED daemon, NEW msgs, NEW b, Speech(msgs, b),
         Accepted(car.at) => Accepted(b),
         toDaemon' = toDaemon \o msgs, car'.at = b
  PROVE  Serving(toDaemon', car'.at)
BY HeardMore DEF ServingInv, Serving, ServesAccepted, Accepted

\* All steps of the daemon but reading, and of the watchdog but rebinding.
LEMMA ServingOwn ==
  ASSUME ServingInv,
         Launch \/ Wedges \/ Open \/ HandshakeDone \/ Write \/ Timeout \/ WriteFails
         \/ WriteIsLost \/ ReadFails \/ PreseedFails \/ Exit
  PROVE  Serving(toDaemon', car'.at)
<1>0. daemon \in Daemons
  BY DEF ServingInv, ControlInv
<1>1. CASE Ends
  BY <1>1, ServingEnds
<1>2. CASE Wedges \/ Write
  <2>1. UNCHANGED <<daemon.at, daemon.broken, toDaemon, car>>
    BY <1>0, <1>2, DaemonWrites DEF Wedges, Write, DaemonTurns, Daemons, Skips, link
  <2> QED
    BY <2>1, ServingQuiet
<1>3. CASE Launch
  <2>1. daemon'.at = "open"
    BY <1>3, DaemonStarts DEF Launch, DaemonTurns
  <2> QED
    BY <1>3, <2>1, ServingQuiet DEF Launch, link
<1>4. CASE Open
  <2>1. daemon'.at = "first"
    BY <1>0, <1>4, DaemonMoves DEF Open, DaemonTurns, DaemonAt
  <2> QED
    BY <1>4, <2>1, ServingQuiet DEF Open, link
<1>5. CASE HandshakeDone
  <2>1. daemon'.at = "auth"
    BY <1>0, <1>5, DaemonMoves DEF HandshakeDone, DaemonTurns, DaemonAt
  <2> QED
    BY <1>5, <2>1, ServingQuiet DEF HandshakeDone, link
<1>6. CASE Timeout
  <2>1. CASE Usb
    <3>1. daemon'.at = "exiting"
      BY <1>0, <1>6, <2>1, DaemonExits DEF Timeout, DaemonTurns
    <3> QED
      BY <1>6, <2>1, <3>1, ServingQuiet DEF Timeout, link
  <2> QED
    BY <1>1, <1>6, <2>1 DEF Timeout
<1>7. CASE WriteFails \/ WriteIsLost
  <2>1. Ends \/ Misses
    BY <1>7 DEF WriteFails, WriteIsLost, WriteError, Misses
  <2>2. CASE Misses
    <3>1. UNCHANGED <<daemon.at, daemon.broken, toDaemon, car>>
      BY <1>0, <2>2, DaemonMisses DEF Misses, link
    <3> QED
      BY <3>1, ServingQuiet
  <2> QED
    BY <1>1, <2>1, <2>2
<1>8. CASE Exit
  BY <1>1, <1>8, ServingFails DEF Exit
<1> QED
  BY <1>1, <1>2, <1>3, <1>4, <1>5, <1>6, <1>7, <1>8 DEF ReadFails, PreseedFails

\* A head unit that hears something.
LEMMA ServingHears ==
  ASSUME ServingInv, Hears
  PROVE  Serving(toDaemon', car'.at)
<1>0. ControlInv /\ CarTyped /\ toDaemon \in Seq(Frames) /\ UNCHANGED daemon
  BY DEF ServingInv, ControlInv, Heard, Hears, Speaking
<1> DEFINE m == Head(toCar)
<1>1. CASE Placed(m) = {}
  <2>1. car'.at = car.at /\ toDaemon' = toDaemon \o <<>>
    BY <1>0, <1>1, CarFrowns DEF Hears, CarTurns
  <2> QED
    BY <1>0, <2>1, SpeechOf, ServingSays
<1>2. CASE Placed(m) # {}
  <2>1. PICK p \in Placed(m) : car' = p[1] /\ toDaemon' = toDaemon \o p[2]
    BY <1>2 DEF Hears
  <2>2. CASE car.at \in {"lost", "served"}
    <3>1. car'.at = car.at
      BY <1>0, <2>1, <2>2, PlacedTurns DEF CarTurns
    <3>2. Speech(p[2], car.at)
      BY <1>0, <2>2, PlacedSpeech
    <3> QED
      BY <1>0, <2>1, <3>1, <3>2, ServingSays
  <2>3. CASE car.at \notin {"lost", "served"}
    <3>1. PICK a \in Answered(m) : CarTurns(a[1], car.unexpected) /\ p[2] = a[2]
      BY <1>0, <2>1, <2>3, PlacedTurns
    <3>2. car'.at = a[1]
      BY <3>1 DEF CarTurns
    <3>3. Speech(a[2], a[1]) /\ (Accepted(car.at) => Accepted(a[1]))
      BY AnsweredSpeech
    <3> QED
      BY <1>0, <2>1, <3>1, <3>2, <3>3, ServingSays
  <2> QED
    BY <2>2, <2>3
<1> QED
  BY <1>1, <1>2

\* A head unit that speaks of its own.
LEMMA ServingSpeaks ==
  ASSUME ServingInv,
         Comes \/ Greets \/ Asks \/ FallsSilent \/ Wakes \/ TalksNonsense \/ Refuses
  PROVE  Serving(toDaemon', car'.at)
<1>0. CarTyped /\ toDaemon \in Seq(Frames)
  BY DEF ServingInv, ControlInv, Heard
<1>1. UNCHANGED daemon
  BY DEF Comes, Greets, Asks, FallsSilent, Wakes, TalksNonsense, Refuses, Speaking
<1>2. CASE Comes
  <2>1. car'.at = "greet" /\ toDaemon' = toDaemon \o <<>> /\ ~Accepted(car.at)
    BY <1>0, <1>2, CarMoves DEF Comes, Says, CarTurns, CarAt, Accepted
  <2> QED
    BY <1>1, <2>1, SpeechOf, ServingSays
<1>3. CASE Greets
  <2>1. PICK b \in {"version", "probe"} :
          /\ car' = [car EXCEPT !.at = b]
          /\ \/ toDaemon' = toDaemon \o <<Message(Control, VersionRequest, Ok)>>
             \/ toDaemon' = toDaemon \o <<Tls(Announcement)>>
             \/ toDaemon' = toDaemon \o <<Tls(ClientHello)>>
    <3>1. kind \in Kinds
      BY Kinships DEF ServingInv, ControlInv, Watched
    <3> HIDE DEF Message, Tls
    <3> QED
      BY <1>3, <3>1 DEF Greets, Greeting, Says, Kinds
  <2>2. car'.at = b /\ ~Accepted(car.at)
    BY <1>0, <1>3, <2>1, CarMoves DEF Greets, CarTurns, CarAt, Accepted
  <2>3. /\ Message(Control, VersionRequest, Ok) \in Frames
        /\ ~Accepts(Message(Control, VersionRequest, Ok))
    BY Arguments, Ids
  <2>4. /\ Tls(Announcement) \in Frames /\ ~Accepts(Tls(Announcement))
        /\ Tls(ClientHello) \in Frames /\ ~Accepts(Tls(ClientHello))
    BY TlsArguments, Ids
  <2>5. /\ Speech(<<Message(Control, VersionRequest, Ok)>>, b)
        /\ Speech(<<Tls(Announcement)>>, b) /\ Speech(<<Tls(ClientHello)>>, b)
    BY <2>3, <2>4, SpeechOf
  <2> QED
    BY <1>1, <2>1, <2>2, <2>5, ServingSays
<1>4. CASE Asks
  <2>1. PICK r \in Requests : toDaemon' = Append(toDaemon, r[1])
                              /\ car' = [car EXCEPT !.owed = @ \o r[2]]
    BY <1>4 DEF Asks
  <2>2. r[1] \in Frames
    BY RequestFrames DEF ServingInv
  <2>3. toDaemon' = toDaemon \o <<r[1]>>
    BY <1>0, <2>1, <2>2, AppendIsConcat
  <2>4. car'.at = car.at /\ car.at = "served"
    BY <1>0, <1>4, <2>1, CarEdits DEF Asks, CarTurns
  <2>5. Speech(<<r[1]>>, car.at)
    BY <2>2, <2>4, SpeechOf DEF Accepted
  <2> QED
    BY <1>1, <2>3, <2>4, <2>5, ServingSays
<1>5. CASE FallsSilent \/ Wakes
  <2>1. car'.at = car.at /\ toDaemon' = toDaemon
    BY <1>0, <1>5, CarEdits DEF FallsSilent, Wakes, CarTurns, link
  <2>2. toDaemon' = toDaemon \o <<>>
    BY <1>0, <2>1, ConcatEmptySeq
  <2> QED
    BY <1>1, <2>1, <2>2, SpeechOf, ServingSays
<1>6. CASE TalksNonsense
  <2>1. CASE car.at \in {"auth", "served"}
    <3>1. /\ toDaemon' = toDaemon \o <<Message(Control, PingRequest, Garbled)>>
          /\ car'.at = car.at
      BY <1>0, <1>6, <2>1, CarMoves DEF TalksNonsense, Says, CarTurns, CarAt
    <3>2. Message(Control, PingRequest, Garbled) \in Frames
          /\ ~Accepts(Message(Control, PingRequest, Garbled))
      BY Arguments, Ids
    <3> QED
      BY <1>1, <3>1, <3>2, SpeechOf, ServingSays
  <2>2. CASE car.at \notin {"auth", "served"}
    <3>1. PICK m \in Nonsense :
            toDaemon' = toDaemon \o <<m>> /\ car' = [car EXCEPT !.at = "lost"]
      BY <1>6, <2>2 DEF TalksNonsense, Says
    <3>2. car'.at = "lost" /\ ~Accepted(car.at)
      BY <1>0, <2>2, <3>1, CarMoves DEF CarTurns, CarAt, Accepted
    <3>3. Message(Control, VersionRequest, Garbled) \in Frames
          /\ ~Accepts(Message(Control, VersionRequest, Garbled))
      BY Arguments, Ids
    <3>4. Message(Input, PingRequest, Garbled) \in Frames
          /\ ~Accepts(Message(Input, PingRequest, Garbled))
      BY Arguments, Ids
    <3>5. Tls(ClientFinished) \in Frames /\ ~Accepts(Tls(ClientFinished))
      BY TlsArguments, Ids
    <3>6. m \in Frames /\ ~Accepts(m)
      BY <3>3, <3>4, <3>5 DEF Nonsense
    <3> QED
      BY <1>1, <3>1, <3>2, <3>6, SpeechOf, ServingSays
  <2> QED
    BY <2>1, <2>2
<1>7. CASE Refuses
  <2>1. /\ toDaemon' = toDaemon \o <<Message(Control, AuthComplete, Refused)>>
        /\ car'.at = "lost" /\ ~Accepted(car.at)
    BY <1>0, <1>7, CarMoves DEF Refuses, Says, CarTurns, CarAt, Accepted
  <2>2. Message(Control, AuthComplete, Refused) \in Frames
        /\ ~Accepts(Message(Control, AuthComplete, Refused))
    BY Arguments, Ids
  <2> QED
    BY <1>1, <2>1, <2>2, SpeechOf, ServingSays
<1> QED
  BY <1>2, <1>3, <1>4, <1>5, <1>6, <1>7

\* ServingInv holds initially,
LEMMA ServingInit == Init => ServingInv
BY ControlInit, HeardNothing DEF Init, ServingInv, ServesAccepted, Off

\* and every step keeps it.
LEMMA ServingNext == ServingInv /\ [Next]_vars => ServingInv'
<1> SUFFICES ASSUME ServingInv, [Next]_vars PROVE ServingInv'
  OBVIOUS
<1>1. ControlInv'
  BY ControlNext DEF ServingInv
<1>2. CASE UNCHANGED vars
  BY <1>1, <1>2 DEF vars, link, ServingInv, ServesAccepted
<1>3. CASE Next
  <2>1. Serving(toDaemon', car'.at)
    BY <1>3, ServingRebind, ServingOwn, ServingRead, ServingHears, ServingSpeaks, ServingLeaves
       DEF Next, DaemonStep, CarStep, IsUnplugged, GivesUp
  <2> QED
    BY <1>1, <2>1, ServingStep
<1> QED
  BY <1>2, <1>3

\* The control loop serves only a head unit that has sent an AuthComplete that is
\* OK in this very connection (steps A and A2 of control_channel::run).
THEOREM LoopServesAccepted == Spec => []ServesAccepted
<1>1. ServingInv => ServesAccepted
  BY DEF ServingInv
<1> QED
  BY <1>1, ServingInit, ServingNext, PTL DEF Spec

-----------------------------------------------------------------------------
(* The openings of a table                                                 *)

\* The openings of a table: at p the open of d, whose channel is new, or its
\* setup right behind the open.
Offers(d) == d.service \notin {"vendor", "none"}
OpeningOf(d) == Message(d.id, ChannelOpenRequest, d.id)
Opens(s, from, p, d) ==
  /\ Offers(d) /\ s[p] = OpeningOf(d)
  /\ \A q \in from..p - 1 : s[q].ch # d.id
SetsUp(s, from, p, d) ==
  /\ p > from /\ s[p - 1] = OpeningOf(d)
  /\ \E a \in Awaits(d.service) : s[p] = Message(d.id, a.id, a.arg)
  /\ \A q \in from..p - 2 : s[q].ch # d.id
InOrder(s, from, ds) ==
  /\ s \in Seq(Frames)
  /\ \A p \in from..Len(s) : \E d \in ds : Opens(s, from, p, d) \/ SetsUp(s, from, p, d)

\* One message and another.
LEMMA PairJoined == ASSUME NEW x, NEW y PROVE <<x>> \o <<y>> = <<x, y>>
<1>1. PICK S : S = {x, y}
  OBVIOUS
<1>2. <<x>> \in Seq(S) /\ y \in S
  BY <1>1
<1>3. <<x>> \o <<y>> = Append(<<x>>, y)
  BY <1>2, AppendIsConcat
<1>4. Append(<<x>>, y) \in Seq(S) /\ <<x, y>> \in Seq(S)
  BY <1>1, <1>2
<1>5. /\ Len(Append(<<x>>, y)) = 2 /\ Append(<<x>>, y)[1] = x /\ Append(<<x>>, y)[2] = y
      /\ Len(<<x, y>>) = 2 /\ <<x, y>>[1] = x /\ <<x, y>>[2] = y
  BY <1>2, AppendProperties
<1>6. \A s, t \in Seq(S) : Len(s) = 2 /\ Len(t) = 2 /\ s[1] = t[1] /\ s[2] = t[2] => s = t
  BY SeqEqual
<1> QED
  BY <1>3, <1>4, <1>5, <1>6

\* What a descriptor of a service is taken for, and what it is answered with.
LEMMA OpeningsAre ==
  ASSUME NEW d, IsDescribed(d)
  PROVE  \/ Openings(d) = <<>>
         \/ Offers(d) /\ Openings(d) = <<OpeningOf(d)>>
         \/ Offers(d) /\ \E a \in Awaits(d.service) :
                           Openings(d) = <<OpeningOf(d), Message(d.id, a.id, a.arg)>>
<1> DEFINE class == classify_channel(d)
           Up(a) == <<Message(d.id, a.id, a.arg)>>
<1>1. d.service \in DOMAIN SubOf /\ d.sub = SubOf[d.service]
      /\ (d.sub = {"av"} => (d.service = "video" <=> d.video_configs \/ d.stream = "video"))
  BY DEF IsDescribed
<1>2. /\ class = "other" \/ Offers(d)
      /\ \/ setup_message_for(d.id, class) = <<>>
         \/ \E a \in Awaits(d.service) : setup_message_for(d.id, class) = Up(a)
  <2>1. CASE d.service = "video"
    <3>1. class = "video"
      BY <1>1, <2>1 DEF SubOf, classify_channel
    <3>2. setup_message_for(d.id, class) = Up([id |-> Setup, arg |-> H264, answer |-> SetupResponse])
      BY <3>1 DEF setup_message_for
    <3> QED
      BY <2>1, <3>2 DEF Awaits, Offers
  <2>2. CASE d.service = "audio"
    <3>1. class = "audio"
      BY <1>1, <2>2 DEF SubOf, classify_channel
    <3>2. setup_message_for(d.id, class) = Up([id |-> Setup, arg |-> Pcm, answer |-> SetupResponse])
      BY <3>1 DEF setup_message_for
    <3> QED
      BY <2>2, <3>2 DEF Awaits, Offers
  <2>3. CASE d.service = "microphone"
    <3>1. class = "av_input"
      BY <1>1, <2>3 DEF SubOf, classify_channel
    <3>2. setup_message_for(d.id, class)
            = Up([id |-> OpenInput, arg |-> Ok, answer |-> InputOpened])
      BY <3>1 DEF setup_message_for
    <3> QED
      BY <2>3, <3>2 DEF Awaits, Offers
  <2>4. CASE d.service = "sensor"
    <3>1. class = "sensor"
      BY <1>1, <2>4 DEF SubOf, classify_channel
    <3>2. setup_message_for(d.id, class) = Up([id |-> Start, arg |-> Ok, answer |-> Stop])
      BY <3>1 DEF setup_message_for
    <3> QED
      BY <2>4, <3>2 DEF Awaits, Offers
  <2>5. CASE d.service = "input"
    <3>1. class = "input"
      BY <1>1, <2>5 DEF SubOf, classify_channel
    <3>2. setup_message_for(d.id, class) = Up([id |-> Stop, arg |-> Ok, answer |-> SetupResponse])
      BY <3>1 DEF setup_message_for
    <3> QED
      BY <2>5, <3>2 DEF Awaits, Offers
  <2>6. CASE d.service \in {"navigation", "bluetooth"}
    <3>1. class \in {"navigation", "bluetooth"}
      BY <1>1, <2>6 DEF SubOf, classify_channel
    <3> QED
      BY <2>6, <3>1 DEF setup_message_for, Offers
  <2>7. CASE d.service \in {"vendor", "none"}
    <3>1. class = "other"
      BY <1>1, <2>7 DEF SubOf, classify_channel
    <3> QED
      BY <3>1 DEF setup_message_for
  <2> QED
    BY <1>1, <2>1, <2>2, <2>3, <2>4, <2>5, <2>6, <2>7 DEF SubOf
<1>3. CASE class = "other"
  BY <1>3 DEF Openings, should_open
<1>4. CASE class # "other"
  <2>1. Openings(d) = <<OpeningOf(d)>> \o setup_message_for(d.id, class)
    BY <1>4 DEF Openings, should_open, OpeningOf
  <2> HIDE DEF class
  <2>2. CASE setup_message_for(d.id, class) = <<>>
    <3>1. Openings(d) = <<OpeningOf(d)>>
      BY <2>1, <2>2
    <3> QED
      BY <1>2, <1>4, <3>1
  <2>3. CASE \E a \in Awaits(d.service) : setup_message_for(d.id, class) = Up(a)
    <3>1. PICK a \in Awaits(d.service) : setup_message_for(d.id, class) = Up(a)
      BY <2>3
    <3>2. \A x, y : <<x>> \o <<y>> = <<x, y>>
      BY PairJoined
    <3>3. Openings(d) = <<OpeningOf(d), Message(d.id, a.id, a.arg)>>
      <4>1. PICK x, y : x = OpeningOf(d) /\ y = Message(d.id, a.id, a.arg)
        OBVIOUS
      <4>2. Openings(d) = <<x>> \o <<y>>
        BY <2>1, <3>1, <4>1
      <4> QED
        BY <3>2, <4>1, <4>2
    <3> QED
      BY <1>2, <1>4, <3>3
  <2> QED
    BY <1>2, <2>2, <2>3
<1> QED
  BY <1>3, <1>4

\* The messages that open a service.
LEMMA OpeningFrames ==
  ASSUME NEW d, d.id \in ChannelBytes
  PROVE  /\ OpeningOf(d) \in Frames
         /\ \A a \in Awaits(d.service) : Message(d.id, a.id, a.arg) \in Frames
<1>1. /\ ChannelOpenRequest \in Nat /\ {Setup, OpenInput, Start, Stop} \subseteq Nat
      /\ {H264, Pcm, Ok} \subseteq Nat /\ ChannelBytes \subseteq Nat
  BY DEF ChannelOpenRequest, Setup, OpenInput, Start, Stop, Service, H264, Pcm, Ok, ChannelBytes
<1>2. \A a \in Awaits(d.service) : a.id \in {Setup, OpenInput, Start, Stop} /\ a.arg \in {H264, Pcm, Ok}
  BY DEF Awaits
<1>3. OpeningOf(d) \in Frames
  BY <1>1, Arguments DEF OpeningOf
<1>4. ASSUME NEW a \in Awaits(d.service) PROVE Message(d.id, a.id, a.arg) \in Frames
  <2>1. a.id \in Nat /\ a.arg \in Nat \cup {Garbled}
    BY <1>1, <1>2
  <2> QED
    BY <2>1, Arguments
<1> QED
  BY <1>3, <1>4

\* The open of d is not a setup of its channel.
LEMMA SetupIsNoOpen ==
  ASSUME NEW d, NEW a \in Awaits(d.service)
  PROVE  a.id # ChannelOpenRequest
BY DEF Awaits, ChannelOpenRequest, Setup, OpenInput, Start, Stop, Service

\* No message goes out on a channel of another descriptor.
LEMMA OnChannels ==
  ASSUME NEW s, NEW from, NEW ds, InOrder(s, from, ds), NEW p \in from..Len(s)
  PROVE  \E d \in ds : s[p].ch = d.id
<1>1. PICK d \in ds : Opens(s, from, p, d) \/ SetsUp(s, from, p, d)
  BY DEF InOrder
<1>2. \A ch, id, arg : Message(ch, id, arg).ch = ch
  BY DEF Message
<1>3. s[p].ch = d.id
  <2> HIDE DEF Message
  <2> QED
    BY <1>1, <1>2 DEF Opens, SetsUp, OpeningOf
<1> QED
  BY <1>3

\* One descriptor more.
LEMMA InOrderMore ==
  ASSUME NEW s, NEW ds, InOrder(s, 1, ds), NEW d, d.id \in ChannelBytes, IsDescribed(d),
         \A e \in ds : e.id # d.id
  PROVE  InOrder(s \o Openings(d), 1, ds \cup {d})
<1>1. s \in Seq(Frames) /\ Len(s) \in Nat
      /\ \A p \in 1..Len(s) : \E e \in ds : Opens(s, 1, p, e) \/ SetsUp(s, 1, p, e)
  BY DEF InOrder
<1>2. \A p \in 1..Len(s) : s[p].ch # d.id
  <2>1. \A p \in 1..Len(s) : \E e \in ds : s[p].ch = e.id
    BY OnChannels
  <2> QED
    BY <2>1
<1>3. ASSUME NEW t \in Seq(Frames), Len(s) <= Len(t), \A p \in 1..Len(s) : t[p] = s[p],
             NEW p \in 1..Len(s)
      PROVE  \E e \in ds : Opens(t, 1, p, e) \/ SetsUp(t, 1, p, e)
  <2>1. PICK e \in ds : Opens(s, 1, p, e) \/ SetsUp(s, 1, p, e)
    BY <1>1
  <2>2. Opens(s, 1, p, e) => Opens(t, 1, p, e)
    BY <1>1, <1>3 DEF Opens
  <2>3. ASSUME SetsUp(s, 1, p, e) PROVE SetsUp(t, 1, p, e)
    <3>1. p > 1 /\ p - 1 \in 1..Len(s) /\ \A q \in 1..p - 2 : q \in 1..Len(s)
      BY <1>1, <2>3 DEF SetsUp
    <3>2. t[p] = s[p] /\ t[p - 1] = s[p - 1] /\ \A q \in 1..p - 2 : t[q] = s[q]
      BY <1>3, <3>1
    <3> QED
      BY <2>3, <3>2 DEF SetsUp
  <2> QED
    BY <2>1, <2>2, <2>3
<1>4. PICK m \in Frames : m = OpeningOf(d)
  BY OpeningFrames
<1>5. CASE Openings(d) = <<>>
  <2>1. s \o <<>> = s
    BY <1>1, ConcatEmptySeq
  <2> QED
    BY <1>1, <1>5, <2>1 DEF InOrder
<1>6. ASSUME Offers(d), NEW t, t = Append(s, m)
      PROVE  /\ t \in Seq(Frames) /\ Len(t) = Len(s) + 1
             /\ \A p \in 1..Len(s) : t[p] = s[p]
             /\ t[Len(s) + 1] = m
             /\ Opens(t, 1, Len(s) + 1, d)
  <2>1. /\ t \in Seq(Frames) /\ Len(t) = Len(s) + 1
        /\ \A p \in 1..Len(s) : t[p] = s[p]
        /\ t[Len(s) + 1] = m
    BY <1>1, <1>4, <1>6, AppendProperties
  <2>2. \A q \in 1..Len(s) : t[q].ch # d.id
    BY <1>2, <2>1
  <2> QED
    BY <1>1, <1>4, <1>6, <2>1, <2>2 DEF Opens
<1>7. CASE Offers(d) /\ Openings(d) = <<OpeningOf(d)>>
  <2>1. PICK t : t = Append(s, m)
    OBVIOUS
  <2>2. s \o Openings(d) = t
    BY <1>1, <1>4, <1>7, <2>1, AppendIsConcat
  <2>3. InOrder(t, 1, ds \cup {d})
    <3>1. t \in Seq(Frames) /\ Len(t) = Len(s) + 1 /\ \A p \in 1..Len(s) : t[p] = s[p]
      BY <1>6, <1>7, <2>1
    <3>2. ASSUME NEW p \in 1..Len(t)
          PROVE  \E e \in ds \cup {d} : Opens(t, 1, p, e) \/ SetsUp(t, 1, p, e)
      <4>1. CASE p \in 1..Len(s)
        BY <1>1, <1>3, <3>1, <4>1
      <4>2. CASE p = Len(s) + 1
        BY <1>6, <1>7, <2>1, <4>2
      <4> QED
        BY <1>1, <3>1, <4>1, <4>2
    <3> QED
      BY <3>1, <3>2 DEF InOrder
  <2> QED
    BY <2>2, <2>3
<1>8. ASSUME Offers(d), NEW a \in Awaits(d.service),
             Openings(d) = <<OpeningOf(d), Message(d.id, a.id, a.arg)>>
      PROVE  InOrder(s \o Openings(d), 1, ds \cup {d})
  <2>1. PICK n \in Frames : n = Message(d.id, a.id, a.arg)
    BY OpeningFrames
  <2>2. PICK t : t = Append(s, m)
    OBVIOUS
  <2>3. /\ t \in Seq(Frames) /\ Len(t) = Len(s) + 1
        /\ \A p \in 1..Len(s) : t[p] = s[p]
        /\ t[Len(s) + 1] = m
        /\ Opens(t, 1, Len(s) + 1, d)
    BY <1>6, <1>8, <2>2
  <2>4. PICK u : u = Append(t, n)
    OBVIOUS
  <2>5. /\ u \in Seq(Frames) /\ Len(u) = Len(s) + 2
        /\ \A p \in 1..Len(s) + 1 : u[p] = t[p]
        /\ u[Len(s) + 2] = n
    BY <1>1, <2>1, <2>3, <2>4, AppendProperties
  <2>6. s \o Openings(d) = u
    <3>1. \A x, y \in Frames : s \o <<x, y>> = Append(Append(s, x), y)
      BY <1>1
    <3> QED
      BY <1>4, <1>8, <2>1, <2>2, <2>4, <3>1, Zenon
  <2>7. ASSUME NEW p \in 1..Len(u)
        PROVE  \E e \in ds \cup {d} : Opens(u, 1, p, e) \/ SetsUp(u, 1, p, e)
    <3>0. \A i \in 1..Len(s) : u[i] = s[i]
      BY <1>1, <2>3, <2>5
    <3>1. CASE p \in 1..Len(s)
      <4>1. Len(s) <= Len(u)
        BY <1>1, <2>5
      <4>2. \E e \in ds : Opens(u, 1, p, e) \/ SetsUp(u, 1, p, e)
        BY <1>3, <2>5, <3>0, <3>1, <4>1, Zenon
      <4> QED
        BY <4>2
    <3>2. CASE p = Len(s) + 1
      <4>1. Opens(u, 1, p, d)
        BY <1>1, <1>2, <1>4, <1>8, <2>3, <2>5, <3>0, <3>2 DEF Opens
      <4> QED
        BY <4>1
    <3>3. CASE p = Len(s) + 2
      <4>1. u[p] = Message(d.id, a.id, a.arg)
        BY <2>1, <2>5, <3>3
      <4>2. p > 1 /\ p - 1 = Len(s) + 1 /\ p - 2 = Len(s)
        BY <1>1, <3>3
      <4>3. u[p - 1] = OpeningOf(d)
        BY <1>1, <1>4, <2>3, <2>5, <4>2
      <4>4. \A q \in 1..p - 2 : u[q].ch # d.id
        BY <1>2, <3>0, <4>2
      <4>5. SetsUp(u, 1, p, d)
        BY <4>1, <4>2, <4>3, <4>4, Zenon DEF SetsUp
      <4> QED
        BY <4>5
    <3> QED
      BY <1>1, <2>5, <3>1, <3>2, <3>3
  <2> QED
    BY <2>5, <2>6, <2>7 DEF InOrder
<1> QED
  BY <1>5, <1>7, <1>8, OpeningsAre

-----------------------------------------------------------------------------
(* Joining what the services of a table are opened with                    *)

\* A set of numbers has a least one,
LEMMA Least ==
  ASSUME NEW U, U \subseteq Nat, U # {}
  PROVE \E x \in U : \A y \in U : x <= y
<1> DEFINE Less == {p \in Nat \X Nat : p[1] < p[2]}
<1>1. IsWellFoundedOn(Less, Nat)
  BY NatLessThanWellFounded DEF OpToRel
<1> HIDE DEF Less
<1>2. PICK x \in U : \A y \in U : ~ (<<y, x>> \in Less)
  BY <1>1, WFMin
<1>3. ASSUME NEW y \in U PROVE x <= y
  <2>1. y < x => <<y, x>> \in Less
    BY DEF Less
  <2>2. x \in Nat /\ y \in Nat
    OBVIOUS
  <2>3. ~(y < x)
    BY <1>2, <2>1, Zenon
  <2> QED
    BY <2>2, <2>3
<1> QED
  BY <1>3

\* so what holds of 1 and is passed on up to n holds of n.
LEMMA Counting ==
  ASSUME NEW n \in Nat \ {0}, NEW U, 1 \in U, \A k \in 1..n - 1 : k \in U => k + 1 \in U
  PROVE n \in U
<1> SUFFICES ASSUME n \notin U PROVE FALSE
  OBVIOUS
<1> DEFINE V == {k \in 1..n : k \notin U}
<1>1. V \subseteq Nat /\ n \in V
  OBVIOUS
<1>2. PICK x \in V : \A y \in V : x <= y
  <2> HIDE DEF V
  <2> QED
    BY <1>1, Least
<1>3. x \in 1..n /\ x \notin U /\ x # 1
  BY <1>2
<1>4. x - 1 \in 1..n - 1 /\ (x - 1) + 1 = x
  BY <1>3
<1>5. x - 1 \in U
  BY <1>2, <1>3, <1>4
<1> QED
  BY <1>3, <1>4, <1>5

\* Joining sequences one by one, from the first.
Joined(g, n, m) == \A i \in 1..n : g[i] = IF i = 1 THEN m[i] ELSE g[i - 1] \o m[i]

\* There is such a row of sequences.
LEMMA JoinedExists ==
  ASSUME NEW S, NEW n \in Nat \ {0}, NEW m \in [1..n -> Seq(S)]
  PROVE  \E g \in [1..n -> Seq(S)] : Joined(g, n, m)
<1> DEFINE U == {k \in 1..n : \E g \in [1..k -> Seq(S)] : Joined(g, k, m)}
<1>1. 1 \in U
  <2>1. PICK g : g = [i \in 1..1 |-> m[1]]
    OBVIOUS
  <2>2. g \in [1..1 -> Seq(S)] /\ Joined(g, 1, m)
    BY <2>1 DEF Joined
  <2> QED
    BY <2>2
<1>2. ASSUME NEW k \in 1..n - 1, k \in U PROVE k + 1 \in U
  <2>1. PICK g \in [1..k -> Seq(S)] : Joined(g, k, m)
    BY <1>2
  <2>2. PICK h : h = [i \in 1..k + 1 |-> IF i = k + 1 THEN g[k] \o m[k + 1] ELSE g[i]]
    OBVIOUS
  <2>3. g[k] \o m[k + 1] \in Seq(S)
    <3>1. g[k] \in Seq(S) /\ m[k + 1] \in Seq(S)
      OBVIOUS
    <3> QED
      BY <3>1, ConcatProperties
  <2>4. h \in [1..k + 1 -> Seq(S)]
    BY <2>2, <2>3
  <2>5. ASSUME NEW i \in 1..k + 1 PROVE h[i] = IF i = 1 THEN m[i] ELSE h[i - 1] \o m[i]
    <3>1. CASE i = k + 1
      <4>1. i # 1 /\ i - 1 = k /\ h[i] = g[k] \o m[k + 1] /\ h[k] = g[k]
        BY <2>2, <3>1
      <4> QED
        BY <3>1, <4>1
    <3>2. CASE i \in 1..k
      <4>1. h[i] = g[i] /\ (i # 1 => i - 1 \in 1..k /\ h[i - 1] = g[i - 1])
        BY <2>2, <3>2
      <4>2. g[i] = IF i = 1 THEN m[i] ELSE g[i - 1] \o m[i]
        BY <2>1, <3>2 DEF Joined
      <4> QED
        BY <4>1, <4>2
    <3> QED
      BY <3>1, <3>2
  <2>6. Joined(h, k + 1, m)
    BY <2>5 DEF Joined
  <2>7. k + 1 \in 1..n
    OBVIOUS
  <2> QED
    BY <2>4, <2>6, <2>7
<1>3. n \in U
  <2> HIDE DEF U
  <2> QED
    BY <1>1, <1>2, Counting
<1> QED
  BY <1>3

\* FlattenSeq joins all of them.
LEMMA FlattenedIs ==
  ASSUME NEW S, NEW n \in Nat \ {0}, NEW m \in [1..n -> Seq(S)]
  PROVE  \E g : Joined(g, n, m) /\ FlattenSeq(m) = g[n]
<1> DEFINE Rec(f) == f = [i \in 1..Len(m) |-> IF i = 1 THEN m[i] ELSE f[i - 1] \o m[i]]
           flat == CHOOSE f : Rec(f)
<1>1. Len(m) = n
  OBVIOUS
<1>2. PICK g \in [1..n -> Seq(S)] : Joined(g, n, m)
  BY JoinedExists
<1>3. Rec(g)
  <2>1. g = [i \in 1..n |-> g[i]]
    OBVIOUS
  <2> QED
    BY <1>1, <1>2, <2>1 DEF Joined
<1>4. Rec(flat)
  <2> HIDE DEF Rec
  <2> QED
    BY <1>3
<1>5. Joined(flat, n, m)
  <2> HIDE DEF flat
  <2> QED
    BY <1>1, <1>4 DEF Joined
<1>6. FlattenSeq(m) = flat[n]
  BY <1>1, Zenon DEF FlattenSeq
<1> HIDE DEF flat
<1> QED
  BY <1>5, <1>6

\* The openings of a table.
LEMMA OpeningsInOrder ==
  ASSUME NEW h \in DOMAIN Tables
  PROVE  InOrder(FlattenSeq([k \in DOMAIN Tables[h] |-> Openings(Tables[h][k])]), 1,
                 ToSet(Tables[h]))
<1>1. PICK t : t = Tables[h]
  OBVIOUS
<1>2. /\ t \in Seq(ToSet(t))
      /\ \A j, k \in DOMAIN t : t[j].id = t[k].id => j = k
      /\ \A d \in ToSet(t) : d.id \in ChannelBytes /\ IsDescribed(d)
  BY <1>1, BringupAssumption, TableAssumption, Zenon
<1>3. PICK n \in Nat : n = Len(t) /\ DOMAIN t = 1..n
  BY <1>2, LenProperties
<1>4. \A k \in 1..n : t[k] \in ToSet(t)
  BY <1>3 DEF ToSet
<1> DEFINE m == [k \in 1..n |-> Openings(t[k])]
<1>5. m \in [1..n -> Seq(Frames)]
  <2>1. ASSUME NEW k \in 1..n PROVE Openings(t[k]) \in Seq(Frames)
    <3>1. PICK d : d = t[k] /\ d.id \in ChannelBytes /\ IsDescribed(d)
      BY <1>2, <1>4
    <3>2. PICK x \in Frames : x = OpeningOf(d)
      BY <3>1, OpeningFrames
    <3>3. ASSUME NEW a \in Awaits(d.service),
                 Openings(d) = <<OpeningOf(d), Message(d.id, a.id, a.arg)>>
          PROVE  Openings(d) \in Seq(Frames)
      <4>1. PICK y \in Frames : y = Message(d.id, a.id, a.arg)
        BY <3>1, OpeningFrames
      <4>2. <<x, y>> \in Seq(Frames)
        OBVIOUS
      <4> QED
        BY <3>2, <3>3, <4>1, <4>2
    <3>4. <<>> \in Seq(Frames) /\ <<x>> \in Seq(Frames)
      OBVIOUS
    <3>5. Openings(d) \in Seq(Frames)
      BY <3>1, <3>2, <3>3, <3>4, OpeningsAre
    <3> QED
      BY <3>1, <3>5
  <2> QED
    BY <2>1
<1>6. m = [k \in DOMAIN Tables[h] |-> Openings(Tables[h][k])]
  BY <1>1, <1>3
<1>7. CASE n = 0
  <2>1. FlattenSeq(m) = <<>>
    <3>1. m = <<>> /\ Len(m) = 0
      BY <1>7
    <3> HIDE DEF m
    <3> QED
      BY <3>1, Zenon DEF FlattenSeq
  <2>2. InOrder(<<>>, 1, ToSet(Tables[h]))
    BY DEF InOrder
  <2> QED
    BY <1>6, <2>1, <2>2
<1>8. CASE n # 0
  <2>1. PICK g : Joined(g, n, m) /\ FlattenSeq(m) = g[n]
    <3> HIDE DEF m
    <3> QED
      BY <1>5, <1>8, FlattenedIs
  <2> DEFINE Firsts(k) == {t[j] : j \in 1..k}
             U == {k \in 1..n : InOrder(g[k], 1, Firsts(k))}
  <2>2. ASSUME NEW k \in 1..n, NEW s, InOrder(s, 1, Firsts(k - 1))
        PROVE  InOrder(s \o m[k], 1, Firsts(k))
    <3>1. PICK d : d = t[k]
      OBVIOUS
    <3>2. d.id \in ChannelBytes /\ IsDescribed(d)
      BY <1>2, <1>4, <3>1
    <3>3. \A e \in Firsts(k - 1) : e.id # d.id
      BY <1>2, <1>3, <3>1
    <3>4. Firsts(k - 1) \cup {d} = Firsts(k)
      BY <3>1
    <3>5. m[k] = Openings(d)
      BY <3>1
    <3> HIDE DEF Firsts, m
    <3> QED
      BY <2>2, <3>2, <3>3, <3>4, <3>5, InOrderMore
  <2>3. 1 \in U
    <3>1. InOrder(<<>>, 1, Firsts(1 - 1))
      BY DEF InOrder
    <3>2. InOrder(<<>> \o m[1], 1, Firsts(1))
      <4>1. 1 \in 1..n
        BY <1>8
      <4> HIDE DEF m, Firsts
      <4> QED
        BY <2>2, <3>1, <4>1
    <3>3. <<>> \o m[1] = m[1]
      <4>1. m[1] \in Seq(Frames)
        BY <1>5, <1>8
      <4> HIDE DEF m
      <4> QED
        BY <4>1, ConcatEmptySeq
    <3>4. g[1] = m[1]
      BY <1>8, <2>1 DEF Joined
    <3> QED
      BY <1>8, <3>2, <3>3, <3>4
  <2>4. ASSUME NEW k \in 1..n - 1, k \in U PROVE k + 1 \in U
    <3>1. k + 1 \in 1..n /\ (k + 1) - 1 = k /\ k + 1 # 1
      OBVIOUS
    <3>2. g[k + 1] = g[k] \o m[k + 1]
      BY <2>1, <3>1 DEF Joined
    <3>3. InOrder(g[k], 1, Firsts((k + 1) - 1))
      BY <2>4, <3>1
    <3>4. InOrder(g[k] \o m[k + 1], 1, Firsts(k + 1))
      BY <2>2, <3>1, <3>3
    <3> QED
      BY <3>1, <3>2, <3>4
  <2>5. n \in U
    <3> HIDE DEF U
    <3> QED
      BY <1>8, <2>3, <2>4, Counting
  <2>6. Firsts(n) = ToSet(t)
    BY <1>3 DEF ToSet
  <2> QED
    BY <1>1, <1>6, <2>1, <2>5, <2>6
<1> QED
  BY <1>7, <1>8

\* The head unit's table as the loop answers it: two messages about the phone,
\* then the openings.
LEMMA TableAnswered ==
  ASSUME NEW h \in DOMAIN Tables
  PROVE  /\ InOrder(OpenAll(h), 3, ToSet(Tables[h]))
         /\ Len(OpenAll(h)) >= 2
         /\ OpenAll(h)[1] = Message(Control, BatteryStatus, 100)
         /\ OpenAll(h)[2] = Message(Control, CallAvailability, 0)
<1>1. PICK ds : ds = ToSet(Tables[h])
  OBVIOUS
<1>2. PICK s : s = FlattenSeq([k \in DOMAIN Tables[h] |-> Openings(Tables[h][k])])
  OBVIOUS
<1>3. InOrder(s, 1, ds)
  BY <1>1, <1>2, OpeningsInOrder
<1>4. PICK b \in Frames : b = Message(Control, BatteryStatus, 100)
  BY Arguments DEF Control, ChannelBytes, BatteryStatus
<1>5. PICK c \in Frames : c = Message(Control, CallAvailability, 0)
  BY Arguments DEF Control, ChannelBytes, CallAvailability
<1>6. PICK t : t = <<b, c>> \o s
  OBVIOUS
<1>7. t = OpenAll(h)
  BY <1>2, <1>4, <1>5, <1>6 DEF OpenAll
<1>8. s \in Seq(Frames) /\ Len(s) \in Nat
      /\ \A p \in 1..Len(s) : \E d \in ds : Opens(s, 1, p, d) \/ SetsUp(s, 1, p, d)
  BY <1>3 DEF InOrder
<1>9. /\ t \in Seq(Frames) /\ Len(t) = Len(s) + 2 /\ t[1] = b /\ t[2] = c
      /\ \A p \in 3..Len(t) : t[p] = s[p - 2]
  <2>1. <<b, c>> \in Seq(Frames) /\ Len(<<b, c>>) = 2
    OBVIOUS
  <2>2. /\ t \in Seq(Frames) /\ Len(t) = 2 + Len(s)
        /\ \A p \in 1..2 + Len(s) : t[p] = IF p <= 2 THEN <<b, c>>[p] ELSE s[p - 2]
    BY <1>6, <1>8, <2>1, ConcatProperties
  <2> QED
    BY <1>8, <2>2
<1>10. ASSUME NEW p \in 3..Len(t)
       PROVE  \E d \in ds : Opens(t, 3, p, d) \/ SetsUp(t, 3, p, d)
  <2>0. PICK i \in 1..Len(s) : p = i + 2
    <3>1. p - 2 \in 1..Len(s) /\ p = (p - 2) + 2
      BY <1>8, <1>9
    <3> QED
      BY <3>1
  <2>1. PICK d \in ds : Opens(s, 1, i, d) \/ SetsUp(s, 1, i, d)
    BY <1>8
  <2>2. t[p] = s[i] /\ \A q \in 3..p - 1 : q - 2 \in 1..i - 1 /\ t[q] = s[q - 2]
    BY <1>8, <1>9, <2>0
  <2>3. ASSUME Opens(s, 1, i, d) PROVE Opens(t, 3, p, d)
    BY <2>2, <2>3 DEF Opens
  <2>4. ASSUME SetsUp(s, 1, i, d) PROVE SetsUp(t, 3, p, d)
    <3>1. /\ i > 1 /\ s[i - 1] = OpeningOf(d)
          /\ \E a \in Awaits(d.service) : s[i] = Message(d.id, a.id, a.arg)
          /\ \A q \in 1..i - 2 : s[q].ch # d.id
      BY <2>4 DEF SetsUp
    <3>2. p > 3 /\ p - 1 \in 3..p - 1 /\ (p - 1) - 2 = i - 1
      BY <2>0, <3>1
    <3>3. t[p - 1] = OpeningOf(d)
      BY <2>2, <3>1, <3>2
    <3>4. ASSUME NEW q \in 3..p - 2 PROVE t[q].ch # d.id
      <4>1. q \in 3..p - 1 /\ q - 2 \in 1..i - 2
        BY <2>0
      <4> QED
        BY <2>2, <3>1, <4>1
    <3> QED
      BY <2>2, <3>1, <3>2, <3>3, <3>4 DEF SetsUp
  <2> QED
    BY <2>1, <2>3, <2>4
<1>11. InOrder(t, 3, ds)
  BY <1>9, <1>10 DEF InOrder
<1> QED
  BY <1>1, <1>4, <1>5, <1>7, <1>8, <1>9, <1>11

Replying == {m \in Frames : m.id # ServiceDiscoveryRequest}

\* Whatever the loop answers, it asks for no table again.
LEMMA AnswersReply ==
  ASSUME NEW h \in DOMAIN Tables, NEW m \in Frames
  PROVE  Answers(m, h) \in Seq(Replying)
<1>1. \A ch \in ChannelBytes, arg \in Nat \cup {Garbled},
         id \in {PingResponse, AudioFocusResponse, NavigationFocusResponse, ChannelOpenResponse,
                ShutdownResponse, SetupResponse, InputOpened, Start, Stop} :
        Message(ch, id, arg) \in Replying
  <2> DEFINE ids == {PingResponse, AudioFocusResponse, NavigationFocusResponse,
                     ChannelOpenResponse, ShutdownResponse, SetupResponse, InputOpened, Start, Stop}
  <2>1. ids \subseteq Nat /\ ServiceDiscoveryRequest \notin ids
    BY SMT DEF PingResponse, AudioFocusResponse, NavigationFocusResponse, ChannelOpenResponse,
       ShutdownResponse, SetupResponse, InputOpened, Start, Stop, Service, ServiceDiscoveryRequest
  <2>2. \A ch, id, arg : Message(ch, id, arg).id = id
    BY DEF Message
  <2> HIDE DEF ids, Message
  <2>3. \A ch \in ChannelBytes, id \in ids, arg \in Nat \cup {Garbled} :
          Message(ch, id, arg) \in Replying
    BY <2>1, <2>2, Arguments DEF Replying
  <2> QED
    BY <2>3 DEF ids
<1>2. OpenAll(h) \in Seq(Replying)
  <2>1. PICK s : s = OpenAll(h)
    OBVIOUS
  <2>2. /\ InOrder(s, 3, ToSet(Tables[h])) /\ Len(s) >= 2
        /\ s[1] = Message(Control, BatteryStatus, 100)
        /\ s[2] = Message(Control, CallAvailability, 0)
    BY <2>1, TableAnswered
  <2>3. s \in Seq(Frames) /\ Len(s) \in Nat
    BY <2>2 DEF InOrder
  <2>4. /\ \A ch, id, arg : Message(ch, id, arg).id = id
        /\ {BatteryStatus, CallAvailability, ChannelOpenRequest, Setup, OpenInput, Start, Stop}
             \subseteq Nat \ {ServiceDiscoveryRequest}
    BY SMT DEF Message, BatteryStatus, CallAvailability, ChannelOpenRequest, Setup, OpenInput,
       Start, Stop, Service, ServiceDiscoveryRequest
  <2> HIDE DEF Message
  <2>5. \A d : \A a \in Awaits(d.service) : a.id \in {Setup, OpenInput, Start, Stop}
    BY DEF Awaits
  <2>6. ASSUME NEW p \in 3..Len(s) PROVE s[p].id # ServiceDiscoveryRequest
    <3>1. PICK d \in ToSet(Tables[h]) : Opens(s, 3, p, d) \/ SetsUp(s, 3, p, d)
      BY <2>2 DEF InOrder
    <3>2. s[p] = OpeningOf(d) \/ \E a \in Awaits(d.service) : s[p] = Message(d.id, a.id, a.arg)
      BY <3>1 DEF Opens, SetsUp
    <3> QED
      BY <2>4, <2>5, <3>2 DEF OpeningOf
  <2>7. \A p \in 1..Len(s) : s[p] \in Replying
    <3>1. ASSUME NEW p \in 1..Len(s) PROVE s[p].id # ServiceDiscoveryRequest
      <4>1. p = 1 \/ p = 2 \/ p \in 3..Len(s)
        BY <2>3
      <4> QED
        BY <2>2, <2>4, <2>6, <4>1
    <3>2. \A p \in 1..Len(s) : s[p] \in Frames
      BY <2>3
    <3> QED
      BY <3>1, <3>2 DEF Replying
  <2> QED
    BY <2>1, <2>3, <2>7
<1>3. <<>> \in Seq(Replying) /\ \A x \in Replying : <<x>> \in Seq(Replying)
  OBVIOUS
<1>4. /\ m.ch \in ChannelBytes /\ m.arg \in Nat \cup {Garbled}
      /\ {Control, Input, Sensor} \subseteq ChannelBytes /\ {Ok, Granted} \subseteq Nat
  BY DEF Frames, Control, Input, Sensor, ChannelBytes, Ok, Granted
<1> HIDE DEF Message
<1>5. dispatch_control(m, h) \in Seq(Replying)
  BY <1>1, <1>2, <1>3, <1>4 DEF dispatch_control, AnswerIf
<1>6. /\ InputHandle(m) \in Seq(Replying) /\ SensorHandle(m) \in Seq(Replying)
      /\ VideoHandle(m) \in Seq(Replying) /\ AudioHandle(m) \in Seq(Replying)
  BY <1>1, <1>3, <1>4 DEF InputHandle, SensorHandle, VideoHandle, AudioHandle, AnswerIf
<1>7. <<Message(m.ch, Start, Ok)>> \in Seq(Replying)
  BY <1>1, <1>3, <1>4
<1>8. dispatch(m, h) \in Seq(Replying)
  BY <1>3, <1>5, <1>6, <1>7 DEF dispatch
<1> QED
  BY <1>6, <1>8 DEF Answers

-----------------------------------------------------------------------------
(* The handshakes: who has said what, and who is to speak.                 *)

\* What a queue holds.
One(q, m) == q \in Seq(Frames) /\ q # <<>> /\ Head(q) = m /\ Tail(q) = <<>>
Two(q, m, n) ==
  q \in Seq(Frames) /\ q # <<>> /\ Head(q) = m /\ One(Tail(q), n)

\* What is under way to the head unit, written or still to write.
FlowNone == toCar = <<>> /\ outs = <<>>
FlowOne(m) ==
  \/ One(toCar, m) /\ outs = <<>>
  \/ toCar = <<>> /\ One(outs, m)
FlowTwo(m, n) ==
  \/ Two(toCar, m, n) /\ outs = <<>>
  \/ One(toCar, m) /\ One(outs, n)
  \/ toCar = <<>> /\ Two(outs, m, n)

Request == Message(Control, VersionRequest, Ok)
Response(arg) == Message(Control, VersionResponse, arg)
Complete == Message(Control, AuthComplete, Ok)
Discovery == Message(Control, ServiceDiscoveryRequest, Ok)
Ping == Message(Control, PingRequest, Garbled)

\* A head unit that has accepted us may go on with pings of no use.
Pings(q) == q \in Seq(Frames) /\ \A i \in 1..Len(q) : q[i] = Ping
Accepting(q) == q \in Seq(Frames) /\ q # <<>> /\ Head(q) = Complete /\ Pings(Tail(q))

\* Queues of one message,
LEMMA OneIs ==
  ASSUME NEW m \in Frames
  PROVE  One(<<m>>, m) /\ One(Append(<<>>, m), m) /\ One(<<>> \o <<m>>, m)
<1>1. <<m>> # <<>> /\ <<m>> \in Seq(Frames) /\ Head(<<m>>) = m /\ Tail(<<m>>) = <<>>
  OBVIOUS
<1>2. Append(<<>>, m) = <<m>> /\ <<>> \o <<m>> = <<m>>
  OBVIOUS
<1> QED
  BY <1>1, <1>2 DEF One

\* of two,
LEMMA TwoAre ==
  ASSUME NEW m \in Frames, NEW n \in Frames
  PROVE  Two(<<m, n>>, m, n)
<1>1. /\ <<m, n>> # <<>> /\ <<m, n>> \in Seq(Frames) /\ Head(<<m, n>>) = m
      /\ Tail(<<m, n>>) = <<n>>
  OBVIOUS
<1> QED
  BY <1>1, OneIs DEF Two

\* and of one and another.
LEMMA TwoMore ==
  ASSUME NEW q, NEW m, NEW n \in Frames, One(q, m)
  PROVE  Two(Append(q, n), m, n)
<1>1. q \in Seq(Frames) /\ q # <<>> /\ Head(q) = m /\ Tail(q) = <<>>
  BY DEF One
<1>2. /\ Append(q, n) \in Seq(Frames) /\ Append(q, n) # <<>>
      /\ Head(Append(q, n)) = m /\ Tail(Append(q, n)) = Append(Tail(q), n)
  BY <1>1
<1> QED
  BY <1>1, <1>2, OneIs DEF Two

\* Reading such a ping,
LEMMA PingsLess ==
  ASSUME NEW q, Pings(q), q # <<>>
  PROVE  Head(q) = Ping /\ Pings(Tail(q))
BY DEF Pings

\* or sending one more, leaves only pings behind.
LEMMA PingsMore ==
  ASSUME NEW q, Ping \in Frames
  PROVE  /\ Pings(q) => Pings(q \o <<Ping>>)
         /\ Accepting(q) => Accepting(q \o <<Ping>>)
<1> HIDE DEF Ping
<1> SUFFICES ASSUME q \in Seq(Frames)
             PROVE  /\ Pings(q) => Pings(q \o <<Ping>>)
                    /\ Accepting(q) => Accepting(q \o <<Ping>>)
  BY DEF Pings, Accepting
<1>1. \A s \in Seq(Frames) : s \o <<Ping>> = Append(s, Ping)
  BY AppendIsConcat
<1>2. ASSUME NEW s \in Seq(Frames), Pings(s) PROVE Pings(Append(s, Ping))
  BY <1>2 DEF Pings
<1>3. ASSUME Accepting(q) PROVE Accepting(Append(q, Ping))
  <2>1. q # <<>> /\ Head(q) = Complete /\ Pings(Tail(q)) /\ Tail(q) \in Seq(Frames)
    BY <1>3 DEF Accepting, Pings
  <2>2. /\ Append(q, Ping) \in Seq(Frames) /\ Append(q, Ping) # <<>>
        /\ Head(Append(q, Ping)) = Head(q)
        /\ Tail(Append(q, Ping)) = Append(Tail(q), Ping)
    BY <2>1
  <2>3. Pings(Append(Tail(q), Ping))
    BY <1>2, <2>1
  <2> QED
    BY <2>1, <2>2, <2>3 DEF Accepting
<1> QED
  BY <1>1, <1>2, <1>3

\* The AuthComplete alone.
LEMMA AcceptingIs == Complete \in Frames => Accepting(<<>> \o <<Complete>>)
<1> SUFFICES ASSUME Complete \in Frames PROVE Accepting(<<>> \o <<Complete>>)
  OBVIOUS
<1>1. One(<<>> \o <<Complete>>, Complete)
  BY OneIs
<1>2. Pings(<<>>)
  BY DEF Pings
<1> QED
  BY <1>1, <1>2 DEF Accepting, One

\* Writing moves a message on; hearing takes the first; reading adds to none.
LEMMA FlowWrite ==
  ASSUME NEW m, NEW n, outs # <<>>, toCar' = Append(toCar, Head(outs)), outs' = Tail(outs)
  PROVE  /\ ~FlowNone
         /\ FlowOne(m) => FlowOne(m)'
         /\ FlowTwo(m, n) => FlowTwo(m, n)'
<1>1. ~FlowNone
  BY DEF FlowNone
<1>2. ASSUME FlowOne(m) PROVE FlowOne(m)'
  <2>1. toCar = <<>> /\ One(outs, m)
    BY <1>2 DEF FlowOne
  <2>2. m \in Frames /\ Head(outs) = m /\ Tail(outs) = <<>>
    BY <2>1 DEF One
  <2> QED
    BY <2>1, <2>2, OneIs DEF FlowOne
<1>3. ASSUME FlowTwo(m, n) PROVE FlowTwo(m, n)'
  <2>1. CASE One(toCar, m) /\ One(outs, n)
    <3>1. n \in Frames /\ Head(outs) = n /\ Tail(outs) = <<>>
      BY <2>1 DEF One
    <3> QED
      BY <2>1, <3>1, TwoMore DEF FlowTwo
  <2>2. CASE toCar = <<>> /\ Two(outs, m, n)
    <3>1. m \in Frames /\ Head(outs) = m /\ One(Tail(outs), n)
      BY <2>2 DEF Two
    <3> QED
      BY <2>2, <3>1, OneIs DEF FlowTwo
  <2> QED
    BY <1>3, <2>1, <2>2 DEF FlowTwo
<1> QED
  BY <1>1, <1>2, <1>3

\* The head unit hears the first message first.
LEMMA FlowHear ==
  ASSUME NEW m, NEW n, toCar # <<>>, toCar' = Tail(toCar), UNCHANGED outs
  PROVE  /\ ~FlowNone
         /\ FlowOne(m) => Head(toCar) = m /\ FlowNone'
         /\ FlowTwo(m, n) => Head(toCar) = m /\ FlowOne(n)'
BY DEF FlowNone, FlowOne, FlowTwo, One, Two

\* The daemon answers with nothing else under way.
LEMMA FlowRead ==
  ASSUME NEW m \in Frames, NEW n \in Frames, FlowNone, UNCHANGED toCar
  PROVE  /\ outs' = <<m>> => FlowOne(m)'
         /\ outs' = <<m, n>> => FlowTwo(m, n)'
BY OneIs, TwoAre DEF FlowNone, FlowOne, FlowTwo

\* Other steps leave what is under way alone.
LEMMA FlowKept ==
  ASSUME NEW m, NEW n, UNCHANGED <<toCar, outs>>
  PROVE  /\ FlowNone => FlowNone'
         /\ FlowOne(m) => FlowOne(m)'
         /\ FlowTwo(m, n) => FlowTwo(m, n)'
BY DEF FlowNone, FlowOne, FlowTwo

\* The messages of the handshakes, by what they are made of.
LEMMA Named ==
  /\ \A arg \in 0..7 : Tls(arg) \in Frames /\ Response(arg) \in Frames
  /\ \A arg : Tls(arg).ch = Control /\ Tls(arg).id = SslHandshake /\ Tls(arg).arg = arg
  /\ \A arg : Response(arg).id = VersionResponse
  /\ {Request, Complete, Discovery, Ping} \subseteq Frames
  /\ Request.ch = Control /\ Request.id = VersionRequest /\ Decodes(Request)
  /\ Complete.id = AuthComplete /\ Complete.arg = Ok
  /\ Discovery.id = ServiceDiscoveryRequest
<1>1. /\ {Control} \subseteq ChannelBytes
      /\ {VersionRequest, VersionResponse, SslHandshake, AuthComplete,
          ServiceDiscoveryRequest, PingRequest} \subseteq Nat
      /\ Ok \in Nat /\ 0..7 \subseteq Nat /\ Ok # Garbled
  BY BringupAssumption
     DEF Control, ChannelBytes, VersionRequest, VersionResponse, SslHandshake, AuthComplete,
         ServiceDiscoveryRequest, PingRequest, Ok
<1>2. \A ch \in ChannelBytes, id \in Nat, arg \in Nat \cup {Garbled} :
        Message(ch, id, arg) \in Frames
  BY Arguments
<1>3. \A ch, id, arg : /\ Message(ch, id, arg).ch = ch /\ Message(ch, id, arg).id = id
                       /\ Message(ch, id, arg).arg = arg
  BY DEF Message
<1> HIDE DEF Message
<1>4. \A arg \in 0..7 : Tls(arg) \in Frames /\ Response(arg) \in Frames
  BY <1>1, <1>2 DEF Tls, Response
<1>5. \A arg : Tls(arg).ch = Control /\ Tls(arg).id = SslHandshake /\ Tls(arg).arg = arg
  BY <1>3 DEF Tls
<1>6. \A arg : Response(arg).id = VersionResponse
  BY <1>3 DEF Response
<1>7. Request \in Frames /\ Complete \in Frames /\ Discovery \in Frames /\ Ping \in Frames
  BY <1>1, <1>2 DEF Request, Complete, Discovery, Ping
<1>8. Request.ch = Control /\ Request.id = VersionRequest /\ Decodes(Request)
  BY <1>1, <1>3 DEF Request, Decodes
<1>9. Complete.id = AuthComplete /\ Complete.arg = Ok /\ Discovery.id = ServiceDiscoveryRequest
  BY <1>3 DEF Complete, Discovery
<1> QED
  BY <1>4, <1>5, <1>6, <1>7, <1>8, <1>9

\* What SslHandshake messages carry is told apart.
LEMMA TlsArgs ==
  /\ {Empty, ClientHello, ClientFinished, ServerHello, ServerFinished, Announcement,
      WithStatus, Plain} \subseteq 0..7
  /\ Empty # ClientHello /\ Empty # ClientFinished /\ ClientHello # ClientFinished
  /\ Announcement \notin {Empty, ClientHello, ClientFinished}
BY DEF Empty, ClientHello, ClientFinished, ServerHello, ServerFinished, Announcement,
       WithStatus, Plain

\* What a head unit waits for is understood.
LEMMA AnsweredSome ==
  ASSUME NEW m,
         \/ car.at = "version" /\ m.id = VersionResponse
         \/ car.at = "probe" /\ m = Tls(Empty)
         \/ car.at = "hello" /\ m = Tls(ServerHello)
         \/ car.at = "finish" /\ m = Tls(ServerFinished)
         \/ car.at = "auth" /\ m.id = ServiceDiscoveryRequest
  PROVE  Answered(m) # {}
BY DEF Answered

\* Nobody of ours has read of this connection: what the head unit has said so
\* far is all under way, and nothing comes back yet.
Unread ==
  /\ FlowNone
  /\ \/ car.at \in {"away", "greet"} /\ toDaemon = <<>>
     \/ car.at = "version" /\ kind \in {"car", "dhu-tcp"} /\ One(toDaemon, Request)
     \/ car.at = "probe" /\ kind = "dhu-u" /\ One(toDaemon, Tls(Announcement))
     \/ car.at = "probe" /\ kind = "dhu-bundled" /\ One(toDaemon, Tls(ClientHello))

\* While the daemon waits for the hello, for the end of the handshake, for
\* the AuthComplete, and for the services.
AwaitsHello ==
  \/ car.at = "version" /\ kind = "car" /\ toDaemon = <<>> /\ FlowOne(Response(WithStatus))
  \/ car.at = "version" /\ kind = "dhu-tcp" /\ toDaemon = <<>>
     /\ FlowTwo(Response(Plain), Tls(Empty))
  \/ car.at = "probe" /\ kind \in {"dhu-u", "dhu-tcp"} /\ toDaemon = <<>>
     /\ FlowOne(Tls(Empty))
  \/ car.at = "hello" /\ kind # "dhu-bundled" /\ One(toDaemon, Tls(ClientHello)) /\ FlowNone
AwaitsFinished ==
  \/ car.at = "probe" /\ kind = "dhu-bundled" /\ toDaemon = <<>>
     /\ FlowTwo(Tls(Empty), Tls(ServerHello))
  \/ car.at = "hello" /\ toDaemon = <<>> /\ FlowOne(Tls(ServerHello))
  \/ car.at = "finish" /\ One(toDaemon, Tls(ClientFinished)) /\ FlowNone
AwaitsComplete ==
  \/ car.at = "finish" /\ toDaemon = <<>> /\ FlowOne(Tls(ServerFinished))
  \/ car.at = "auth" /\ Accepting(toDaemon) /\ FlowNone
AwaitsServices == car.at = "auth" /\ Pings(toDaemon) /\ FlowOne(Discovery) /\ ~Skips
HasServices == car.at = "served" /\ outs \in Seq(Replying)

Going ==
  \/ daemon.at = "tls" /\ daemon.hs = "hello" /\ AwaitsHello
  \/ daemon.at = "tls" /\ daemon.hs = "finished" /\ AwaitsFinished
  \/ daemon.at \in {"tls", "auth"} /\ daemon.hs = "done" /\ AwaitsComplete
  \/ daemon.at = "loop" /\ (AwaitsServices \/ HasServices)

\* The process that read of this connection has ended or is about to: what it
\* has written is still understood.
Leftover ==
  /\ car.at # "served" /\ (daemon.broken => toCar = <<>>)
  /\ \/ toCar = <<>>
     \/ car.at = "version" /\ One(toCar, Response(WithStatus))
     \/ car.at = "probe" /\ One(toCar, Tls(Empty))
     \/ car.at = "probe" /\ kind = "dhu-bundled" /\ Two(toCar, Tls(Empty), Tls(ServerHello))
     \/ car.at = "hello" /\ One(toCar, Tls(ServerHello))
     \/ car.at = "finish" /\ One(toCar, Tls(ServerFinished))

Live == daemon.at \in {"tls", "auth", "loop"} /\ ~daemon.broken
Fresh == ~daemon.broken /\ (watchdog = "ready" \/ daemon.at \in {"open", "first"})
InStep ==
  /\ Live => Going
  /\ Fresh => Unread
  /\ ~Live /\ ~Fresh => Leftover
Understood ==
  /\ HandshakeUnderstood
  /\ daemon.at \notin {"tls", "auth", "loop"} => outs = <<>>
  /\ car.at # "lost" => InStep
HandshakeInv == ServingInv /\ Understood

\* The connection is gone, or the head unit is lost.
LEMMA GoneStep ==
  ASSUME ControlInv', car'.at = "away", ~car'.unexpected, toCar' = <<>>, toDaemon' = <<>>,
         daemon'.at \notin {"tls", "auth", "loop"} => outs' = <<>>,
         daemon'.at \in {"tls", "auth", "loop"} => daemon'.broken
  PROVE  Understood'
<1>1. ~Live' /\ (Fresh' => outs' = <<>>)
  BY DEF Live, Fresh, ControlInv, Watched
<1>2. Unread' \/ ~Fresh'
  BY <1>1 DEF Unread, FlowNone
<1>3. Leftover'
  BY DEF Leftover
<1> QED
  BY <1>1, <1>2, <1>3 DEF Understood, HandshakeUnderstood, InStep

\* A lost head unit is told nothing it would not expect.
LEMMA LostStep ==
  ASSUME car'.at = "lost", ~car'.unexpected,
         daemon'.at \notin {"tls", "auth", "loop"} => outs' = <<>>
  PROVE  Understood'
BY DEF Understood, HandshakeUnderstood

\* A head unit that leaves.
LEMMA UnderstoodLeaves ==
  ASSUME HandshakeInv, Leaves, ControlInv'
  PROVE  Understood'
<1>0. daemon \in Daemons
  BY DEF HandshakeInv, ServingInv, ControlInv
<1>1. daemon'.at = daemon.at
      /\ (daemon'.broken <=> Cut)
  BY <1>0, DaemonBroken DEF Leaves, DaemonTurns, Cut
<1>2. car'.at = "away" /\ ~car'.unexpected
  BY CarGoes DEF Leaves, CarTurns
<1>3. toCar' = <<>> /\ toDaemon' = <<>> /\ outs' = outs
  BY DEF Leaves
<1>4. daemon'.at \notin {"tls", "auth", "loop"} => outs' = <<>>
  BY <1>1, <1>3 DEF HandshakeInv, Understood
<1>5. daemon'.at \in {"tls", "auth", "loop"} => daemon'.broken
  BY <1>1 DEF Cut
<1> QED
  BY <1>2, <1>3, <1>4, <1>5, GoneStep

\* The rebinding.
LEMMA UnderstoodRebind ==
  ASSUME HandshakeInv, Rebind
  PROVE  Understood'
<1>1. ControlInv' /\ daemon'.at = daemon.at /\ car'.at = "away" /\ ~car'.unexpected
  BY CtlRebind DEF HandshakeInv, ServingInv, DaemonTurns, CarTurns
<1>2. daemon.at = "off"
  BY DEF Rebind, HandshakeInv, ServingInv, ControlInv, Watched
<1>3. toCar' = <<>> /\ toDaemon' = <<>> /\ outs' = <<>>
  BY <1>2 DEF Rebind, HandshakeInv, Understood
<1> QED
  BY <1>1, <1>2, <1>3, GoneStep

\* A process that ends: its connection was broken, or its head unit lost, or
\* it leaves an answer behind.
LEMMA UnderstoodEnds ==
  ASSUME HandshakeInv, Ends, ControlInv',
         Usb => daemon.broken \/ car.at = "lost" \/ Leftover, UNCHANGED kind
  PROVE  Understood'
<1>1. daemon'.at = "off" /\ ~daemon'.broken /\ outs' = <<>> /\ watchdog' = "ended"
  BY DaemonOff DEF Ends, DaemonTurns
<1>2. CASE ~Usb
  <2>1. car'.at = "away" /\ ~car'.unexpected /\ toCar' = <<>> /\ toDaemon' = <<>>
    BY <1>2, CarGoes DEF Ends, CarTurns
  <2> QED
    BY <1>1, <2>1, GoneStep
<1>3. CASE Usb
  <2>1. UNCHANGED <<car, toCar, toDaemon>>
    BY <1>3 DEF Ends, link
  <2>2. CASE car.at = "lost"
    <3>1. car'.at = "lost" /\ ~car'.unexpected
      BY <2>1, <2>2 DEF HandshakeInv, Understood, HandshakeUnderstood
    <3> QED
      BY <1>1, <3>1, LostStep
  <2>3. CASE car.at # "lost"
    <3>1. Leftover
      <4>1. daemon.broken => ~Live /\ ~Fresh
        BY DEF Live, Fresh
      <4> QED
        BY <1>3, <2>3, <4>1 DEF HandshakeInv, Understood, InStep
    <3>2. Leftover'
      BY <1>1, <2>1, <3>1 DEF Leftover
    <3> QED
      BY <1>1, <2>1, <3>2
         DEF HandshakeInv, Understood, HandshakeUnderstood, InStep, Live, Fresh
  <2> QED
    BY <2>2, <2>3
<1> QED
  BY <1>2, <1>3

\* A ping that does not decode gets no answer.
LEMMA PingUnanswered == Answers(Ping, hu) = <<>>
<1>1. Ping.ch = 0 /\ Ping.id = PingRequest /\ ~Decodes(Ping)
  BY DEF Ping, Message, Decodes, Control
<1> HIDE DEF Ping
<1>2. ~CrossChannel(Ping)
  BY <1>1, SMT DEF CrossChannel, PingRequest, ChannelOpenResponse, Unexpected
<1>3. Ping.id # VideoFocus /\ ~Intercepted(Ping)
  BY <1>1, SMT DEF Intercepted, PingRequest, VideoFocus, SetupResponse, AudioFocusResponse, Stop,
             Service
<1>4. Ping.ch \notin AudioManaged /\ Ping.ch # Video
  BY <1>1, SMT DEF AudioManaged, Video
<1>5. Answers(Ping, hu) = dispatch(Ping, hu)
  BY <1>2, <1>4 DEF Answers
<1>6. dispatch(Ping, hu) = dispatch_control(Ping, hu)
  BY <1>1, <1>2, <1>3, SMT DEF dispatch, Control, Input, Sensor
<1>7. dispatch_control(Ping, hu) = AnswerIf(Ping, Message(Control, PingResponse, Ping.arg))
  BY <1>1 DEF dispatch_control, PingRequest, ServiceDiscoveryResponse, AudioFocusRequest,
     NavigationFocusRequest, ChannelOpenRequest, ShutdownRequest
<1>8. AnswerIf(Ping, Message(Control, PingResponse, Ping.arg)) = <<>>
  BY <1>1 DEF AnswerIf
<1> QED
  BY <1>5, <1>6, <1>7, <1>8

\* A process that fails on a message.
LEMMA UnderstoodFails ==
  ASSUME HandshakeInv, Fails, ControlInv',
         Usb => car.at = "lost" \/ Leftover, UNCHANGED kind
  PROVE  Understood'
<1>1. CASE ~Usb
  BY <1>1, UnderstoodEnds DEF Fails
<1>2. CASE Usb
  <2>1. daemon'.at = "off" /\ ~daemon'.broken /\ outs' = <<>> /\ watchdog' = "ended"
        /\ UNCHANGED <<car, toCar>>
    BY <1>2, DaemonOff DEF Fails, DaemonTurns
  <2>2. CASE car.at = "lost"
    <3>1. car'.at = "lost" /\ ~car'.unexpected
      BY <2>1, <2>2 DEF HandshakeInv, Understood, HandshakeUnderstood
    <3> QED
      BY <2>1, <3>1, LostStep
  <2>3. CASE Leftover
    <3>1. Leftover'
      BY <2>1, <2>3 DEF Leftover
    <3> QED
      BY <2>1, <3>1 DEF HandshakeInv, Understood, HandshakeUnderstood, InStep, Live, Fresh
  <2> QED
    BY <1>2, <2>2, <2>3
<1> QED
  BY <1>1, <1>2

\* The daemon reads a message of a connection that goes on.
LEMMA ProceedStep ==
  ASSUME HandshakeInv, ControlInv', NEW at, NEW hs, NEW msgs, Moves(at, hs),
         Proceed(at, hs, msgs), ~daemon.broken, car.at # "lost", Going'
  PROVE  Understood'
<1>0. daemon \in Daemons
  BY DEF HandshakeInv, ServingInv, ControlInv
<1>1. daemon'.at = at /\ ~daemon'.broken /\ car' = car
  BY <1>0, DaemonProceeds DEF Proceed, Moves, DaemonAt, DaemonTurns
<1>2. Live' /\ ~Fresh'
  BY <1>1 DEF Moves, Live, Fresh, ControlInv, Watched
<1>3. ~car'.unexpected \/ car'.at = "served"
  BY <1>1 DEF HandshakeInv, Understood, HandshakeUnderstood
<1> QED
  BY <1>1, <1>2, <1>3 DEF Understood, HandshakeUnderstood, InStep, Moves

\* The first message of each head unit is the one that usb_run or dhu_listen is prepared for.
LEMMA ReadsFirst ==
  ASSUME HandshakeInv, Read, daemon.at = "first", car.at # "lost", ControlInv'
  PROVE  Understood'
<1>0. daemon \in Daemons /\ ~daemon.broken /\ toDaemon # <<>> /\ UNCHANGED kind
  BY DEF HandshakeInv, ServingInv, ControlInv, Read, Ready
<1>1. Unread
  BY <1>0 DEF HandshakeInv, Understood, InStep, Fresh
<1>2. ASSUME NEW hs \in TlsStates, NEW msgs, Proceed("tls", hs, msgs)
      PROVE  daemon'.at = "tls" /\ daemon'.hs = hs /\ outs' = msgs /\ UNCHANGED <<car, toCar>>
             /\ toDaemon' = Tail(toDaemon)
  BY <1>0, <1>2, DaemonProceeds DEF Proceed, DaemonAt, DaemonTurns
<1>3. {"hello", "finished"} \subseteq TlsStates /\ Moves("tls", "hello") /\ Moves("tls", "finished")
  BY DEF TlsStates, Moves
<1>4. CASE car.at = "version" /\ kind = "car"
  <2>1. Frame = Request /\ Tail(toDaemon) = <<>>
    BY <1>1, <1>4 DEF Unread, Frame, One
  <2>2. Proceed("tls", "hello", <<Response(WithStatus)>>)
    BY <1>4, <2>1, Named DEF Read, Usb, FirstUsb, Response, VersionRequest, SslHandshake
  <2>3. FlowOne(Response(WithStatus))'
    BY <1>1, <1>2, <1>3, <2>2, Named, TlsArgs, FlowRead DEF Unread
  <2>4. Going'
    BY <1>0, <1>2, <1>3, <1>4, <2>1, <2>2, <2>3 DEF Going, AwaitsHello
  <2> QED
    BY <1>0, <1>3, <1>4, <2>2, <2>4, ProceedStep
<1>5. CASE car.at = "version" /\ kind = "dhu-tcp"
  <2>1. Frame = Request /\ Tail(toDaemon) = <<>>
    BY <1>1, <1>5 DEF Unread, Frame, One
  <2>2. Proceed("tls", "hello", <<Response(Plain), Tls(Empty)>>)
    BY <1>5, <2>1, Named DEF Read, Usb, FirstTcp, Response
  <2>3. FlowTwo(Response(Plain), Tls(Empty))'
    BY <1>1, <1>2, <1>3, <2>2, Named, TlsArgs, FlowRead DEF Unread
  <2>4. Going'
    BY <1>0, <1>2, <1>3, <1>5, <2>1, <2>2, <2>3 DEF Going, AwaitsHello
  <2> QED
    BY <1>0, <1>3, <1>5, <2>2, <2>4, ProceedStep
<1>6. CASE car.at = "probe" /\ kind = "dhu-u"
  <2>1. Frame = Tls(Announcement) /\ Tail(toDaemon) = <<>>
    BY <1>1, <1>6 DEF Unread, Frame, One
  <2>2. Preseed(Announcement)
    BY <1>6, <2>1, Named DEF Read, Usb, FirstUsb, VersionRequest, SslHandshake
  <2>3. Proceed("tls", "hello", <<Tls(Empty)>>)
    BY <2>2, TlsArgs DEF Preseed, StartsTls
  <2>4. FlowOne(Tls(Empty))'
    BY <1>1, <1>2, <1>3, <2>3, Named, TlsArgs, FlowRead DEF Unread
  <2>5. Going'
    BY <1>0, <1>2, <1>3, <1>6, <2>1, <2>3, <2>4 DEF Going, AwaitsHello
  <2> QED
    BY <1>0, <1>3, <1>6, <2>3, <2>5, ProceedStep
<1>7. CASE car.at = "probe" /\ kind = "dhu-bundled"
  <2>1. Frame = Tls(ClientHello) /\ Tail(toDaemon) = <<>>
    BY <1>1, <1>7 DEF Unread, Frame, One
  <2>2. Preseed(ClientHello)
    BY <1>7, <2>1, Named DEF Read, Usb, FirstUsb, VersionRequest, SslHandshake
  <2>3. Proceed("tls", "finished", <<Tls(Empty), Tls(ServerHello)>>)
    BY <2>2 DEF Preseed, StartsTls
  <2>4. FlowTwo(Tls(Empty), Tls(ServerHello))'
    BY <1>1, <1>2, <1>3, <2>3, Named, TlsArgs, FlowRead DEF Unread
  <2>5. Going'
    BY <1>0, <1>2, <1>3, <1>7, <2>1, <2>3, <2>4 DEF Going, AwaitsFinished
  <2> QED
    BY <1>0, <1>3, <1>7, <2>3, <2>5, ProceedStep
<1> QED
  BY <1>0, <1>1, <1>4, <1>5, <1>6, <1>7 DEF Unread

\* So is each message after it.
LEMMA ReadsLater ==
  ASSUME HandshakeInv, Read, daemon.at # "first", car.at # "lost", ControlInv'
  PROVE  Understood'
<1>0. daemon \in Daemons /\ ~daemon.broken /\ toDaemon # <<>> /\ UNCHANGED kind /\ outs = <<>>
      /\ daemon.at \in {"tls", "auth", "loop"}
  BY DEF HandshakeInv, ServingInv, ControlInv, Read, Ready, Reading
<1>1. Going
  BY <1>0 DEF HandshakeInv, Understood, InStep, Live
<1>2. ASSUME NEW at \in {"tls", "auth", "loop"}, NEW hs \in TlsStates, NEW msgs,
             Proceed(at, hs, msgs)
      PROVE  daemon'.at = at /\ daemon'.hs = hs /\ outs' = msgs /\ UNCHANGED <<car, toCar>>
             /\ toDaemon' = Tail(toDaemon)
  BY <1>0, <1>2, DaemonProceeds DEF Proceed, DaemonAt, DaemonTurns
<1>3. {"hello", "finished", "done"} \subseteq TlsStates /\ Moves("tls", "finished")
      /\ Moves("tls", "done") /\ Moves("loop", "done")
  BY DEF TlsStates, Moves
<1>4. CASE daemon.at = "tls" /\ daemon.hs = "hello"
  <2>1. One(toDaemon, Tls(ClientHello)) /\ FlowNone /\ car.at = "hello"
    BY <1>0, <1>1, <1>4 DEF Going, AwaitsHello
  <2>2. Frame = Tls(ClientHello) /\ Tail(toDaemon) = <<>>
    BY <2>1 DEF Frame, One
  <2>3. Proceed("tls", "finished", <<Tls(ServerHello)>>)
    BY <1>4, <2>2, Named, TlsArgs DEF Read, Handshake
  <2>4. FlowOne(Tls(ServerHello))'
    BY <1>2, <1>3, <2>1, <2>3, Named, TlsArgs, FlowRead
  <2>5. Going'
    BY <1>2, <1>3, <2>1, <2>2, <2>3, <2>4 DEF Going, AwaitsFinished
  <2> QED
    BY <1>0, <1>3, <2>3, <2>5, ProceedStep
<1>5. CASE daemon.at = "tls" /\ daemon.hs = "finished"
  <2>1. One(toDaemon, Tls(ClientFinished)) /\ FlowNone /\ car.at = "finish"
    BY <1>0, <1>1, <1>5 DEF Going, AwaitsFinished
  <2>2. Frame = Tls(ClientFinished) /\ Tail(toDaemon) = <<>>
    BY <2>1 DEF Frame, One
  <2>3. Proceed("tls", "done", <<Tls(ServerFinished)>>)
    BY <1>5, <2>2, Named, TlsArgs DEF Read, Handshake
  <2>4. FlowOne(Tls(ServerFinished))'
    BY <1>2, <1>3, <2>1, <2>3, Named, TlsArgs, FlowRead
  <2>5. Going'
    BY <1>2, <1>3, <2>1, <2>2, <2>3, <2>4 DEF Going, AwaitsComplete
  <2> QED
    BY <1>0, <1>3, <2>3, <2>5, ProceedStep
<1>6. CASE daemon.at = "auth"
  <2>1. Accepting(toDaemon) /\ FlowNone /\ car.at = "auth"
    BY <1>0, <1>1, <1>6 DEF Going, AwaitsComplete
  <2>2. Frame = Complete /\ Pings(Tail(toDaemon))
    BY <2>1 DEF Frame, Accepting
  <2>3. Proceed("loop", "done", <<Discovery>>)
    BY <1>6, <2>2, Named DEF Read, Authenticated, Discovery
  <2>4. FlowOne(Discovery)'
    BY <1>2, <1>3, <2>1, <2>3, Named, FlowRead
  <2>5. ~Skips'
    BY <1>0, <1>3, <1>6, <2>3, DaemonProceeds
       DEF Proceed, DaemonAt, DaemonTurns, HandshakeInv, ServingInv, ControlInv, Watched
  <2>6. Going'
    BY <1>2, <1>3, <2>1, <2>2, <2>3, <2>4, <2>5 DEF Going, AwaitsServices
  <2> QED
    BY <1>0, <1>3, <2>3, <2>6, ProceedStep
<1>7. CASE daemon.at = "loop"
  <2>1. Proceed("loop", "done", Answers(Frame, hu))
    BY <1>7 DEF Read, Handle
  <2>2. CASE car.at = "served"
    <3>1. Frame \in Frames /\ hu \in DOMAIN Tables
      BY <1>0, Kinships DEF HandshakeInv, ServingInv, ControlInv, Watched, Heard, Frame
    <3>2. Answers(Frame, hu) \in Seq(Replying)
      BY <3>1, AnswersReply
    <3>3. Going'
      BY <1>2, <1>3, <2>1, <2>2, <3>2 DEF Going, HasServices
    <3> QED
      BY <1>0, <1>3, <2>1, <3>3, ProceedStep
  <2>3. CASE AwaitsServices
    <3>1. Frame = Ping /\ Pings(Tail(toDaemon))
      BY <1>0, <2>3, PingsLess DEF AwaitsServices, Frame
    <3>2. Answers(Ping, hu) = <<>>
      BY PingUnanswered
    <3>3. FlowOne(Discovery)'
      BY <1>0, <1>2, <1>3, <2>1, <2>3, <3>1, <3>2, FlowKept DEF AwaitsServices
    <3>4. ~Skips'
      BY <1>0, <1>3, <2>1, <2>3, DaemonProceeds DEF Proceed, DaemonAt, DaemonTurns, AwaitsServices
    <3>5. Going'
      BY <1>2, <1>3, <2>1, <2>3, <3>1, <3>3, <3>4 DEF Going, AwaitsServices
    <3> QED
      BY <1>0, <1>3, <2>1, <3>5, ProceedStep
  <2> QED
    BY <1>1, <1>7, <2>2, <2>3 DEF Going, HasServices
<1> QED
  BY <1>0, <1>4, <1>5, <1>6, <1>7 DEF Read

\* Reading, altogether.
LEMMA UnderstoodRead ==
  ASSUME HandshakeInv, Read
  PROVE  Understood'
<1>1. ControlInv' /\ UNCHANGED kind
  BY CtlRead DEF HandshakeInv, ServingInv, Read
<1>2. CASE car.at = "lost"
  <2>1. CASE Fails
    BY <1>1, <1>2, <2>1, UnderstoodFails
  <2>2. ASSUME NEW at, NEW hs, NEW msgs, Moves(at, hs), Proceed(at, hs, msgs)
        PROVE  Understood'
    <3>0. daemon \in Daemons
      BY DEF HandshakeInv, ServingInv, ControlInv
    <3>1. daemon'.at \in {"tls", "auth", "loop"} /\ car' = car
      BY <2>2, <3>0, DaemonProceeds DEF Proceed, Moves, DaemonAt, DaemonTurns
    <3>2. ~car'.unexpected
      BY <1>2, <3>1 DEF HandshakeInv, Understood, HandshakeUnderstood
    <3> QED
      BY <1>2, <3>1, <3>2, LostStep
  <2> QED
    BY <2>1, <2>2, ReadOutcome DEF HandshakeInv, ServingInv
<1>3. CASE car.at # "lost"
  BY <1>1, <1>3, ReadsFirst, ReadsLater
<1> QED
  BY <1>2, <1>3

\* A step that leaves the messages and the head unit's place as they are.
LEMMA SameStep ==
  ASSUME HandshakeInv, UNCHANGED <<toCar, toDaemon, outs, kind>>,
         car'.at = car.at, car'.unexpected <=> car.unexpected,
         daemon'.broken <=> daemon.broken, Fresh' <=> Fresh, Live' <=> Live,
         daemon'.at \notin {"tls", "auth", "loop"} => daemon.at \notin {"tls", "auth", "loop"},
         Live /\ Going => Going'
  PROVE  Understood'
<1>1. /\ HandshakeUnderstood'
      /\ daemon'.at \notin {"tls", "auth", "loop"} => outs' = <<>>
  BY DEF HandshakeInv, Understood, HandshakeUnderstood
<1>2. (Unread => Unread') /\ (Leftover => Leftover')
  BY DEF Unread, Leftover, FlowNone
<1>3. car'.at # "lost" => InStep'
  BY <1>2 DEF HandshakeInv, Understood, InStep
<1> QED
  BY <1>1, <1>3 DEF Understood

\* Starting, opening and wedging change nothing under way.
LEMMA UnderstoodStarts ==
  ASSUME HandshakeInv, Launch \/ Wedges \/ Open
  PROVE  Understood'
<1>0. ControlInv
  BY DEF HandshakeInv, ServingInv
<1>1. UNCHANGED <<toCar, toDaemon, outs, kind, car>>
  BY DEF Launch, Wedges, Open, link
<1>2. CASE Launch
  <2>1. daemon'.at = "open" /\ ~daemon'.broken /\ daemon.at = "off" /\ ~daemon.broken
        /\ watchdog = "ready"
    BY <1>0, <1>2, CtlLaunch DEF DaemonTurns, ControlInv, Watched, Launch
  <2> QED
    BY <1>1, <2>1, SameStep DEF Fresh, Live
<1>3. CASE Wedges
  <2>1. UNCHANGED <<daemon, watchdog>>
    BY <1>3 DEF Wedges
  <2> QED
    BY <1>1, <2>1, SameStep
       DEF Fresh, Live, Going, AwaitsHello, AwaitsFinished, AwaitsComplete, AwaitsServices,
           HasServices, FlowNone, FlowOne, FlowTwo, Skips
<1>4. CASE Open
  <2>1. daemon'.at = "first" /\ (daemon'.broken <=> daemon.broken) /\ daemon.at = "open"
        /\ UNCHANGED watchdog
    BY <1>0, <1>4, CtlOpen DEF DaemonTurns, Open
  <2>2. watchdog # "ready"
    BY <1>0, <2>1 DEF ControlInv, Watched
  <2> QED
    BY <1>1, <2>1, <2>2, SameStep DEF Fresh, Live
<1> QED
  BY <1>2, <1>3, <1>4

\* The end of the handshake.
LEMMA UnderstoodHandshakeDone ==
  ASSUME HandshakeInv, HandshakeDone
  PROVE  Understood'
<1>0. ControlInv
  BY DEF HandshakeInv, ServingInv
<1>1. UNCHANGED <<toCar, toDaemon, outs, kind, car, watchdog>>
  BY DEF HandshakeDone, link
<1>2. daemon'.at = "auth" /\ daemon'.hs = "done" /\ (daemon'.broken <=> daemon.broken)
      /\ daemon.at = "tls" /\ daemon.hs = "done"
  BY <1>0, CtlHandshakeDone DEF DaemonTurns, HandshakeDone
<1>3. Going => Going'
  BY <1>1, <1>2 DEF Going, AwaitsComplete, FlowNone, FlowOne
<1> QED
  BY <1>1, <1>2, <1>3, SameStep DEF Fresh, Live, ControlInv, Watched

\* Writing moves what is under way on, or what there is to say to a head unit
\* that serves goes out for nothing.
LEMMA UnderstoodWrite ==
  ASSUME HandshakeInv, Write
  PROVE  Understood'
<1>1. /\ UNCHANGED <<toDaemon, kind, car, watchdog>> /\ outs # <<>> /\ ~daemon.broken
      /\ outs' = Tail(outs) /\ daemon \in Daemons
      /\ \/ toCar' = Append(toCar, Head(outs)) /\ UNCHANGED daemon
         \/ /\ Skips /\ UNCHANGED toCar
            /\ daemon' = [daemon EXCEPT !.sends = "garbled"]
  BY DEF Write, Skips, HandshakeInv, ServingInv, ControlInv
<1>2. UNCHANGED <<daemon.at, daemon.hs, daemon.broken>>
  BY <1>1 DEF Daemons
<1>3. Live /\ Live' /\ ~Fresh'
  BY <1>1, <1>2 DEF Live, Fresh, HandshakeInv, Understood, ServingInv, ControlInv, Watched
<1>4. ASSUME Going PROVE Going' \/ car.at = "lost"
  <2>1. CASE HasServices
    <3>1. HasServices'
      BY <1>1, <2>1 DEF HasServices
    <3>2. daemon.at = "loop"
      BY <1>4, <2>1
         DEF Going, HasServices, AwaitsHello, AwaitsFinished, AwaitsComplete, AwaitsServices
    <3> QED
      BY <1>2, <3>1, <3>2 DEF Going
  <2>2. CASE toCar' = Append(toCar, Head(outs)) /\ UNCHANGED daemon
    <3>1. AwaitsHello => AwaitsHello'
      BY <1>1, <2>2, FlowWrite DEF AwaitsHello
    <3>2. AwaitsFinished => AwaitsFinished'
      BY <1>1, <2>2, FlowWrite DEF AwaitsFinished
    <3>3. AwaitsComplete => AwaitsComplete'
      BY <1>1, <2>2, FlowWrite DEF AwaitsComplete
    <3>4. AwaitsServices => AwaitsServices'
      BY <1>1, <2>2, FlowWrite DEF AwaitsServices, Skips
    <3> QED
      BY <1>2, <1>4, <2>1, <3>1, <3>2, <3>3, <3>4 DEF Going
  <2>3. CASE Skips
    BY <1>4, <2>1, <2>3 DEF Going, AwaitsServices, HandshakeInv, ServingInv, ControlInv, Watched
  <2> QED
    BY <1>1, <2>1, <2>2, <2>3
<1> QED
  BY <1>1, <1>2, <1>3, <1>4
     DEF HandshakeInv, Understood, HandshakeUnderstood, InStep, Live

\* A write that fails: the process ends and leaves an answer behind, or the loop
\* drops what it had to say to a head unit that serves, or that is not there.
LEMMA UnderstoodWriteError ==
  ASSUME HandshakeInv, outs # <<>>, WriteError, ControlInv', UNCHANGED kind
  PROVE  Understood'
<1>0. ControlInv /\ daemon \in Daemons /\ daemon.at \in {"tls", "auth", "loop"}
  BY DEF HandshakeInv, ServingInv, ControlInv, Understood
<1>1. CASE Ends /\ (daemon.at = "loop" => Head(outs).id = ServiceDiscoveryRequest)
  <2>1. ASSUME Usb, ~daemon.broken, car.at # "lost" PROVE Leftover
    <3>1. Going
      BY <1>0, <2>1 DEF HandshakeInv, Understood, InStep, Live
    <3>2. ~HasServices \/ daemon.at # "loop"
      BY <1>1 DEF HasServices, Replying
    <3>3. /\ \A m : FlowOne(m) => toCar = <<>>
          /\ \A m, n : FlowTwo(m, n) => toCar = <<>> \/ One(toCar, m)
          /\ ~FlowNone
      BY DEF FlowNone, FlowOne, FlowTwo
    <3>4. CASE daemon.at = "tls" /\ daemon.hs = "hello" /\ AwaitsHello
      BY <2>1, <3>3, <3>4 DEF AwaitsHello, Leftover, Usb
    <3>5. CASE daemon.at = "tls" /\ daemon.hs = "finished" /\ AwaitsFinished
      BY <2>1, <3>3, <3>5 DEF AwaitsFinished, Leftover
    <3>6. CASE AwaitsComplete \/ AwaitsServices
      BY <2>1, <3>3, <3>6 DEF AwaitsComplete, AwaitsServices, Leftover
    <3> QED
      BY <3>1, <3>2, <3>4, <3>5, <3>6 DEF Going
  <2>2. Usb => daemon.broken \/ car.at = "lost" \/ Leftover
    BY <2>1
  <2> QED
    BY <1>1, <2>2, UnderstoodEnds
<1>2. CASE Misses /\ daemon.at = "loop" /\ Head(outs).id # ServiceDiscoveryRequest
  <2>1. outs' = <<>> /\ UNCHANGED <<watchdog, toCar, toDaemon, car>>
        /\ UNCHANGED <<daemon.at, daemon.hs, daemon.broken>>
    BY <1>0, <1>2, DaemonMisses DEF Misses, link
  <2>2. (Live' <=> Live) /\ (Fresh' <=> Fresh)
    BY <2>1 DEF Live, Fresh
  <2>3. Leftover => Leftover'
    BY <2>1 DEF Leftover
  <2>4. ~Fresh
    BY <1>0, <1>2 DEF Fresh, ControlInv, Watched
  <2>5. ASSUME Going PROVE Going'
    <3>1. ~FlowOne(Discovery)
      BY <1>2, Named DEF FlowOne, One
    <3>2. HasServices
      BY <1>2, <2>5, <3>1 DEF Going, AwaitsServices
    <3>3. HasServices'
      BY <2>1, <3>2 DEF HasServices
    <3> QED
      BY <1>2, <2>1, <3>3 DEF Going
  <2> QED
    BY <2>1, <2>2, <2>3, <2>4, <2>5 DEF HandshakeInv, Understood, HandshakeUnderstood, InStep
<1> QED
  BY <1>1, <1>2 DEF WriteError, Misses

\* On a link that is gone or one that is there.
LEMMA UnderstoodWriteFails ==
  ASSUME HandshakeInv, WriteFails \/ WriteIsLost
  PROVE  Understood'
<1>1. ControlInv' /\ UNCHANGED kind /\ WriteError /\ outs # <<>>
  BY CtlWriteFails, CtlWriteIsLost DEF WriteFails, WriteIsLost, HandshakeInv, ServingInv
<1> QED
  BY <1>1, UnderstoodWriteError

\* What else ends a process.
LEMMA UnderstoodOver ==
  ASSUME HandshakeInv, ReadFails \/ PreseedFails \/ Exit
  PROVE  Understood'
<1>0. ControlInv' /\ UNCHANGED kind
  BY CtlOver DEF ReadFails, PreseedFails, Exit, HandshakeInv, ServingInv
<1>1. CASE ReadFails
  BY <1>0, <1>1, UnderstoodEnds DEF ReadFails
<1>2. CASE PreseedFails
  <2>1. daemon.broken \/ car.at = "lost"
    BY <1>2 DEF PreseedFails, HandshakeInv, Understood, InStep, Live, Going
  <2> QED
    BY <1>0, <1>2, <2>1, UnderstoodEnds DEF PreseedFails
<1>3. CASE Exit
  <2>1. ~Live /\ ~Fresh
    BY <1>3 DEF Exit, Live, Fresh, HandshakeInv, ServingInv, ControlInv, Watched
  <2>2. car.at = "lost" \/ Leftover
    BY <2>1 DEF HandshakeInv, Understood, InStep
  <2> QED
    BY <1>0, <1>3, <2>2, UnderstoodEnds, UnderstoodFails DEF Exit
<1> QED
  BY <1>1, <1>2, <1>3

\* The read timeout: what is written is still understood.
LEMMA UnderstoodTimeout ==
  ASSUME HandshakeInv, Timeout
  PROVE  Understood'
<1>0. ControlInv' /\ ControlInv /\ UNCHANGED kind
  BY CtlTimeout DEF Timeout, HandshakeInv, ServingInv
<1>1. CASE ~Usb
  BY <1>0, <1>1, UnderstoodEnds DEF Timeout
<1>2. CASE Usb
  <2>1. /\ UNCHANGED <<outs, watchdog, toCar, toDaemon, car>> /\ outs = <<>> /\ toDaemon = <<>>
        /\ daemon.at = "tls" /\ ~daemon.broken
    BY <1>2 DEF Timeout, link, Reading
  <2>2. daemon'.at = "exiting" /\ ~daemon'.broken
    BY <1>0, <1>2, <2>1, DaemonExits DEF Timeout, DaemonTurns, ControlInv
  <2>3. CASE car.at = "lost"
    BY <2>1, <2>3, LostStep DEF HandshakeInv, Understood, HandshakeUnderstood
  <2>4. CASE car.at # "lost"
    <3>1. Going
      BY <2>1, <2>4 DEF HandshakeInv, Understood, InStep, Live
    <3>2. Leftover'
      <4>1. /\ \A m : ~One(toDaemon, m) /\ (FlowOne(m) => One(toCar', m))
            /\ \A m, n : FlowTwo(m, n) => Two(toCar', m, n)
            /\ ~Accepting(toDaemon)
        BY <2>1 DEF FlowOne, FlowTwo, One, Two, Accepting
      <4>2. CASE daemon.hs = "hello"
        BY <1>2, <2>1, <2>2, <3>1, <4>1, <4>2 DEF Going, AwaitsHello, Leftover, Usb
      <4>3. CASE daemon.hs = "finished"
        BY <1>0, <2>1, <2>2, <3>1, <4>1, <4>3 DEF Going, AwaitsFinished, Leftover
      <4>4. CASE daemon.hs = "done"
        BY <2>1, <2>2, <3>1, <4>1, <4>4 DEF Going, AwaitsComplete, Leftover
      <4> QED
        BY <2>1, <3>1, <4>2, <4>3, <4>4 DEF Going
    <3>3. ~Live' /\ ~Fresh'
      BY <1>0, <2>1, <2>2 DEF Live, Fresh, ControlInv, Watched
    <3> QED
      BY <2>1, <2>4, <3>2, <3>3 DEF HandshakeInv, Understood, HandshakeUnderstood, InStep
  <2> QED
    BY <2>3, <2>4
<1> QED
  BY <1>1, <1>2

\* What a head unit makes of a message it waits for.
LEMMA Replies ==
  ASSUME HandshakeInv, Hears, car.at \notin {"lost", "served"}, Answered(Head(toCar)) # {}
  PROVE  \E a \in Answered(Head(toCar)) :
           car'.at = a[1] /\ (car'.unexpected <=> car.unexpected)
           /\ toDaemon' = toDaemon \o a[2]
<1>0. ControlInv
  BY DEF HandshakeInv, ServingInv
<1> DEFINE m == Head(toCar)
<1>1. Placed(m) # {}
  <2>1. PICK a \in Answered(m) : TRUE
    OBVIOUS
  <2> QED
    BY <2>1 DEF Placed
<1>2. PICK p \in Placed(m) : car' = p[1] /\ toDaemon' = toDaemon \o p[2]
  BY <1>1 DEF Hears
<1>3. PICK a \in Answered(m) : CarTurns(a[1], car.unexpected) /\ p[2] = a[2]
  BY <1>0, <1>2, PlacedTurns
<1> QED
  BY <1>2, <1>3 DEF CarTurns

\* Where it is then and what it says, by what it waited for.
LEMMA Reply ==
  ASSUME HandshakeInv, Hears, car.at \notin {"lost", "served"}, Answered(Head(toCar)) # {}
  PROVE  /\ car'.unexpected <=> car.unexpected
         /\ car.at = "version" /\ kind = "car" =>
              car'.at = "hello" /\ toDaemon' = toDaemon \o <<Tls(ClientHello)>>
         /\ car.at = "version" /\ kind # "car" =>
              car'.at = "probe" /\ toDaemon' = toDaemon
         /\ car.at = "probe" /\ kind = "dhu-bundled" =>
              car'.at = "hello" /\ toDaemon' = toDaemon
         /\ car.at = "probe" /\ kind # "dhu-bundled" =>
              car'.at = "hello" /\ toDaemon' = toDaemon \o <<Tls(ClientHello)>>
         /\ car.at = "hello" =>
              car'.at = "finish" /\ toDaemon' = toDaemon \o <<Tls(ClientFinished)>>
         /\ car.at = "finish" =>
              car'.at = "auth" /\ toDaemon' = toDaemon \o <<Complete>>
         /\ car.at = "auth" => car'.at = "served"
<1>0. toDaemon \o <<>> = toDaemon
  BY ConcatEmptySeq DEF HandshakeInv, ServingInv, Heard
<1>1. PICK a \in Answered(Head(toCar)) :
        car'.at = a[1] /\ (car'.unexpected <=> car.unexpected)
        /\ toDaemon' = toDaemon \o a[2]
  BY Replies
<1> DEFINE m == Head(toCar)
<1> HIDE DEF m, Tls, Message
<1>2. a \in Answered(m)
  BY <1>1 DEF m
<1>3. /\ car.at = "version" /\ kind = "car" => a[1] = "hello" /\ a[2] = <<Tls(ClientHello)>>
      /\ car.at = "version" /\ kind # "car" => a[1] = "probe" /\ a[2] = <<>>
  BY <1>2, AnsweredCases
<1>4. /\ car.at = "probe" /\ kind = "dhu-bundled" => a[1] = "hello" /\ a[2] = <<>>
      /\ car.at = "probe" /\ kind # "dhu-bundled" =>
           a[1] = "hello" /\ a[2] = <<Tls(ClientHello)>>
  BY <1>2, AnsweredCases
<1>5. /\ car.at = "hello" => a[1] = "finish" /\ a[2] = <<Tls(ClientFinished)>>
      /\ car.at = "finish" => a[1] = "auth" /\ a[2] = <<Complete>>
      /\ car.at = "auth" => a[1] = "served"
  BY <1>2, AnsweredCases DEF Complete
<1> QED
  BY <1>0, <1>1, <1>3, <1>4, <1>5

\* What a running process has written is what the head unit waits for.
LEMMA HearsLive ==
  ASSUME HandshakeInv, Hears, Live, car.at \notin {"lost", "served"}
  PROVE  Understood'
<1>1. /\ UNCHANGED <<daemon, outs, kind, watchdog>> /\ toCar # <<>> /\ toCar' = Tail(toCar)
  BY DEF Hears, Speaking
<1>2. Going
  BY DEF HandshakeInv, Understood, InStep
<1>3. /\ ~FlowNone
      /\ \A m, n : /\ FlowOne(m) => Head(toCar) = m /\ FlowNone'
                   /\ FlowTwo(m, n) => Head(toCar) = m /\ FlowOne(n)'
  BY <1>1, FlowHear
<1>4. /\ \A m \in Frames : One(<<>> \o <<m>>, m)
      /\ Accepting(<<>> \o <<Complete>>)
      /\ Tls(ClientHello) \in Frames /\ Tls(ClientFinished) \in Frames
  BY OneIs, AcceptingIs, Named, TlsArgs
<1>5. ASSUME Going', car'.unexpected <=> car.unexpected PROVE Understood'
  <2>1. Live' /\ ~Fresh'
    BY <1>1 DEF Live, Fresh, HandshakeInv, ServingInv, ControlInv, Watched
  <2> QED
    BY <1>1, <1>5, <2>1 DEF HandshakeInv, Understood, HandshakeUnderstood, InStep, Live
<1>6. CASE daemon.at = "tls" /\ daemon.hs = "hello" /\ AwaitsHello
  <2>1. Answered(Head(toCar)) # {}
    BY <1>3, <1>6, AnsweredSome, Named DEF AwaitsHello
  <2>2. AwaitsHello' \/ car'.at = "served"
    BY <1>1, <1>3, <1>4, <1>6, <2>1, Reply DEF AwaitsHello
  <2> QED
    BY <1>1, <1>5, <1>6, <2>1, <2>2, Reply DEF Going, AwaitsHello
<1>7. CASE daemon.at = "tls" /\ daemon.hs = "finished" /\ AwaitsFinished
  <2>1. Answered(Head(toCar)) # {}
    BY <1>3, <1>7, AnsweredSome, Named DEF AwaitsFinished
  <2>2. AwaitsFinished'
    BY <1>1, <1>3, <1>4, <1>7, <2>1, Reply DEF AwaitsFinished
  <2> QED
    BY <1>1, <1>5, <1>7, <2>1, <2>2, Reply DEF Going
<1>8. CASE daemon.at \in {"tls", "auth"} /\ daemon.hs = "done" /\ AwaitsComplete
  <2>1. Answered(Head(toCar)) # {}
    BY <1>3, <1>8, AnsweredSome, Named DEF AwaitsComplete
  <2>2. AwaitsComplete'
    BY <1>1, <1>3, <1>4, <1>8, <2>1, Reply DEF AwaitsComplete
  <2> QED
    BY <1>1, <1>5, <1>8, <2>1, <2>2, Reply DEF Going
<1>9. CASE daemon.at = "loop" /\ AwaitsServices
  <2>1. Answered(Head(toCar)) # {}
    BY <1>3, <1>9, AnsweredSome, Named DEF AwaitsServices
  <2>2. car'.at = "served"
    BY <1>9, <2>1, Reply DEF AwaitsServices
  <2>3. outs' = <<>>
    BY <1>1, <1>3, <1>9 DEF AwaitsServices, FlowNone
  <2> QED
    BY <1>1, <1>5, <1>9, <2>1, <2>2, <2>3, Reply DEF Going, HasServices
<1> QED
  BY <1>2, <1>6, <1>7, <1>8, <1>9 DEF Going, HasServices

\* What the process that has ended had written is heard to its end.
LEMMA HearsLeftover ==
  ASSUME HandshakeInv, Hears, Leftover, ~Live, ~Fresh, car.at \notin {"lost", "served"}
  PROVE  Understood'
<1>1. /\ UNCHANGED <<daemon, outs, kind, watchdog>> /\ toCar # <<>> /\ toCar' = Tail(toCar)
  BY DEF Hears, Speaking
<1>2. Answered(Head(toCar)) # {}
  BY <1>1, AnsweredSome, Named DEF Leftover, One, Two
<1>3. Leftover'
  BY <1>1, <1>2, Reply DEF Leftover, One, Two
<1> QED
  BY <1>1, <1>2, <1>3, Reply
     DEF HandshakeInv, Understood, HandshakeUnderstood, InStep, Live, Fresh, Leftover

\* A head unit that serves is served by the loop.
LEMMA ServedLive ==
  ASSUME HandshakeInv, car.at = "served"
  PROVE  Live /\ daemon.at = "loop" /\ outs \in Seq(Replying)
BY DEF HandshakeInv, Understood, InStep, Going, Unread, Leftover, AwaitsHello, AwaitsFinished,
       AwaitsComplete, AwaitsServices, HasServices, Live, Fresh

\* Such a head unit goes on being served.
LEMMA ServedStep ==
  ASSUME HandshakeInv, car.at = "served", car'.at = "served",
         UNCHANGED <<daemon, watchdog, outs>>
  PROVE  Understood'
<1>1. Live /\ daemon.at = "loop" /\ ~Fresh /\ outs \in Seq(Replying)
  BY ServedLive DEF Fresh, HandshakeInv, ServingInv, ControlInv, Watched
<1> QED
  BY <1>1 DEF Understood, HandshakeUnderstood, InStep, Live, Fresh, Going, HasServices

\* Hearing, altogether.
LEMMA UnderstoodHears ==
  ASSUME HandshakeInv, Hears
  PROVE  Understood'
<1>0. ControlInv /\ UNCHANGED <<daemon, watchdog, outs>> /\ toCar # <<>>
  BY DEF HandshakeInv, ServingInv, Hears, Speaking
<1>1. CASE car.at \in {"lost", "served"}
  <2> DEFINE m == Head(toCar)
  <2>1. CASE Placed(m) = {}
    <3>1. car.at = "served"
      BY <1>1, <2>1 DEF Placed
    <3>2. car'.at = "served"
      BY <1>0, <2>1, <3>1, CarFrowns DEF Hears, ControlInv, CarTurns
    <3> QED
      BY <1>0, <3>1, <3>2, ServedStep
  <2>2. CASE Placed(m) # {}
    <3>1. PICK p \in Placed(m) : car' = p[1]
      BY <2>2 DEF Hears
    <3>2. car'.at = car.at /\ (car'.unexpected <=> car.unexpected)
      BY <1>0, <1>1, <3>1, PlacedTurns DEF CarTurns
    <3> QED
      BY <1>0, <1>1, <3>2, ServedStep, LostStep DEF HandshakeInv, Understood, HandshakeUnderstood
  <2> QED
    BY <2>1, <2>2
<1>2. CASE car.at \notin {"lost", "served"}
  <2>1. CASE Live
    BY <1>2, <2>1, HearsLive
  <2>2. CASE Fresh
    BY <1>0, <1>2, <2>2 DEF HandshakeInv, Understood, InStep, Unread, FlowNone
  <2>3. CASE ~Live /\ ~Fresh
    BY <1>2, <2>3, HearsLeftover DEF HandshakeInv, Understood, InStep
  <2> QED
    BY <2>1, <2>2, <2>3
<1> QED
  BY <1>1, <1>2

\* Falling silent and speaking again.
LEMMA UnderstoodSilence ==
  ASSUME HandshakeInv, FallsSilent \/ Wakes
  PROVE  Understood'
<1>1. /\ car'.at = car.at /\ (car'.unexpected <=> car.unexpected)
      /\ UNCHANGED <<toCar, toDaemon, outs, kind, daemon, watchdog>>
  BY CtlFallsSilent, CtlWakes
     DEF FallsSilent, Wakes, Speaking, link, CarTurns, HandshakeInv, ServingInv
<1>2. Going => Going'
  BY <1>1
     DEF Going, AwaitsHello, AwaitsFinished, AwaitsComplete, AwaitsServices, HasServices,
         FlowNone, FlowOne, FlowTwo, Skips
<1> QED
  BY <1>1, <1>2, SameStep DEF Fresh, Live

\* A head unit comes and opens.
LEMMA UnderstoodComes ==
  ASSUME HandshakeInv, Comes \/ Greets
  PROVE  Understood'
<1>0. ControlInv /\ toDaemon \in Seq(Frames) /\ kind \in Kinds
  BY Kinships DEF HandshakeInv, ServingInv, ControlInv, Watched, Heard
<1>1. UNCHANGED <<toCar, outs, kind, daemon, watchdog>> /\ car.at \in {"away", "greet"}
  BY DEF Comes, Greets, Speaking
<1>2. ~Live /\ ~Live' /\ (Fresh' <=> Fresh)
  BY <1>1
     DEF Live, Fresh, HandshakeInv, Understood, InStep, Going, AwaitsHello, AwaitsFinished,
         AwaitsComplete, AwaitsServices, HasServices
<1>3. car'.at \in {"greet", "version", "probe"} /\ (car'.unexpected <=> car.unexpected)
  BY <1>0, CtlComes, CtlGreets DEF CarTurns
<1>4. Fresh => Unread'
  <2>1. CASE Comes
    <3>1. car'.at = "greet" /\ toDaemon' = toDaemon \o <<>>
      BY <1>0, <2>1, CtlComes DEF CarTurns, Comes, Says
    <3>2. toDaemon' = toDaemon
      BY <1>0, <3>1, ConcatEmptySeq
    <3> QED
      BY <1>1, <3>1, <3>2 DEF HandshakeInv, Understood, InStep, Unread, FlowNone
  <2>2. CASE Greets
    <3>1. car'.at = IF kind \in {"car", "dhu-tcp"} THEN "version" ELSE "probe"
      BY <1>0, <2>2, CtlGreets DEF CarTurns
    <3>2. /\ kind \in {"car", "dhu-tcp"} => toDaemon' = toDaemon \o <<Request>>
          /\ kind = "dhu-u" => toDaemon' = toDaemon \o <<Tls(Announcement)>>
          /\ kind = "dhu-bundled" => toDaemon' = toDaemon \o <<Tls(ClientHello)>>
      BY <2>2 DEF Greets, Greeting, Says, Request
    <3>3. /\ One(<<>> \o <<Request>>, Request)
          /\ One(<<>> \o <<Tls(Announcement)>>, Tls(Announcement))
          /\ One(<<>> \o <<Tls(ClientHello)>>, Tls(ClientHello))
      BY OneIs, Named, TlsArgs
    <3>4. Fresh => toDaemon = <<>> /\ FlowNone'
      BY <1>1, <2>2 DEF HandshakeInv, Understood, InStep, Unread, FlowNone, Greets
    <3> QED
      BY <1>0, <1>1, <3>1, <3>2, <3>3, <3>4 DEF Unread, Kinds
  <2> QED
    BY <2>1, <2>2
<1>5. ~Fresh => Leftover'
  BY <1>1, <1>2, <1>3 DEF HandshakeInv, Understood, InStep, Leftover
<1> QED
  BY <1>1, <1>2, <1>3, <1>4, <1>5 DEF HandshakeInv, Understood, HandshakeUnderstood, InStep

\* Requests come from a head unit that serves.
LEMMA UnderstoodAsks ==
  ASSUME HandshakeInv, Asks
  PROVE  Understood'
BY CtlAsks, ServedStep DEF Asks, Speaking, CarTurns, HandshakeInv, ServingInv

\* A head unit that talks nonsense is lost, or has accepted us.
LEMMA UnderstoodTalksNonsense ==
  ASSUME HandshakeInv, TalksNonsense
  PROVE  Understood'
<1>0. ControlInv /\ UNCHANGED <<toCar, outs, kind, daemon, watchdog>>
  BY DEF HandshakeInv, ServingInv, TalksNonsense, Speaking
<1>1. /\ car'.at = IF car.at \in {"auth", "served"} THEN car.at ELSE "lost"
      /\ car'.unexpected <=> car.unexpected
  BY <1>0, CtlTalksNonsense DEF CarTurns
<1>2. CASE car.at = "served"
  BY <1>0, <1>1, <1>2, ServedStep
<1>3. CASE car.at \notin {"auth", "served"}
  <2>1. ~car'.unexpected /\ car'.at = "lost"
    BY <1>1, <1>3 DEF HandshakeInv, Understood, HandshakeUnderstood
  <2>2. daemon'.at \notin {"tls", "auth", "loop"} => outs' = <<>>
    BY <1>0 DEF HandshakeInv, Understood
  <2> QED
    BY <2>1, <2>2, LostStep
<1>4. CASE car.at = "auth"
  <2>1. toDaemon' = toDaemon \o <<Ping>>
    BY <1>4 DEF TalksNonsense, Says, Ping
  <2>2. Going => Going'
    <3>1. /\ Pings(toDaemon) => Pings(toDaemon')
          /\ Accepting(toDaemon) => Accepting(toDaemon')
      BY <2>1, PingsMore, Named
    <3>2. /\ FlowNone => FlowNone'
          /\ FlowOne(Discovery) => FlowOne(Discovery)'
      BY <1>0 DEF FlowNone, FlowOne
    <3> QED
      BY <1>0, <1>1, <1>4, <3>1, <3>2
         DEF Going, AwaitsHello, AwaitsFinished, AwaitsComplete, AwaitsServices, HasServices,
             Skips
  <2>3. (Live' <=> Live) /\ (Fresh' <=> Fresh) /\ ~Fresh
    BY <1>0, <1>4 DEF Live, Fresh, HandshakeInv, Understood, InStep, Unread
  <2>4. Leftover => Leftover'
    BY <1>0, <1>1, <1>4 DEF Leftover
  <2> QED
    BY <1>0, <1>1, <1>4, <2>2, <2>3, <2>4
       DEF HandshakeInv, Understood, HandshakeUnderstood, InStep
<1> QED
  BY <1>2, <1>3, <1>4

\* So is one that refuses our certificate.
LEMMA UnderstoodRefuses ==
  ASSUME HandshakeInv, Refuses
  PROVE  Understood'
<1>1. car'.at = "lost" /\ (car'.unexpected <=> car.unexpected) /\ car.at = "finish"
      /\ UNCHANGED <<daemon, outs>>
  BY CtlRefuses DEF Refuses, Speaking, CarTurns, HandshakeInv, ServingInv
<1> QED
  BY <1>1, LostStep DEF HandshakeInv, Understood, HandshakeUnderstood

\* HandshakeInv holds initially,
LEMMA HandshakeInit == Init => HandshakeInv
<1> SUFFICES ASSUME Init PROVE HandshakeInv
  OBVIOUS
<1>1. /\ toDaemon = <<>> /\ toCar = <<>> /\ outs = <<>> /\ car.at = "away" /\ ~car.unexpected
      /\ daemon.at = "off"
  BY DEF Init, Away, Off
<1>2. ~Live /\ Unread
  BY <1>1 DEF Live, Unread, FlowNone
<1>3. Leftover
  BY <1>1 DEF Leftover
<1> QED
  BY <1>1, <1>2, <1>3, ServingInit DEF HandshakeInv, Understood, HandshakeUnderstood, InStep

\* and every step keeps it.
LEMMA HandshakeNext == HandshakeInv /\ [Next]_vars => HandshakeInv'
<1> SUFFICES ASSUME HandshakeInv, [Next]_vars PROVE HandshakeInv'
  OBVIOUS
<1>1. ServingInv' /\ ControlInv'
  BY ServingNext DEF HandshakeInv, ServingInv
<1>2. CASE UNCHANGED vars
  <2>1. UNCHANGED <<toCar, toDaemon, outs, kind, daemon, car, watchdog>>
    BY <1>2 DEF vars, link
  <2>2. Going => Going'
    BY <2>1
       DEF Going, AwaitsHello, AwaitsFinished, AwaitsComplete, AwaitsServices, HasServices,
           FlowNone, FlowOne, FlowTwo, Skips
  <2> QED
    BY <1>1, <2>1, <2>2, SameStep DEF HandshakeInv, Fresh, Live
<1>3. CASE Next
  <2>1. Understood'
    BY <1>1, <1>3, UnderstoodRebind, UnderstoodStarts, UnderstoodHandshakeDone, UnderstoodRead,
       UnderstoodWrite, UnderstoodWriteFails, UnderstoodOver, UnderstoodTimeout,
       UnderstoodHears, UnderstoodComes, UnderstoodAsks, UnderstoodSilence,
       UnderstoodTalksNonsense, UnderstoodRefuses, UnderstoodLeaves
       DEF Next, DaemonStep, CarStep, IsUnplugged, GivesUp
  <2> QED
    BY <1>1, <2>1 DEF HandshakeInv
<1> QED
  BY <1>2, <1>3

\* Before it has accepted us, no head unit is told what it does not wait for: the
\* probes and versions of usb_run and dhu_listen reach only who asked for them,
\* and what a process wrote before it ended is understood as well.
THEOREM HandshakesUnderstood == Spec => []HandshakeUnderstood
<1>1. HandshakeInv => HandshakeUnderstood
  BY DEF HandshakeInv, Understood
<1> QED
  BY <1>1, HandshakeInit, HandshakeNext, PTL DEF Spec

\* During the handshakes the daemon and the head unit never both wait: while the
\* daemon reads and its head unit is not lost, some message is under way or still
\* to be written (usb_run, dhu_listen, server_handshake and run).
THEOREM HandshakesNeverStall == Spec => []NeverBothWait
<1>1. HandshakeInv => NeverBothWait
  <2> SUFFICES ASSUME HandshakeInv, daemon.at \in {"first", "tls", "auth", "loop"},
                      ~daemon.broken, car.at \in Handshakes,
                      toDaemon = <<>>, toCar = <<>>, outs = <<>>
               PROVE  FALSE
    BY DEF NeverBothWait
  <2>1. car.at \notin {"lost", "served", "away", "greet"}
    BY DEF Handshakes
  <2>2. /\ \A m : ~One(toDaemon, m) /\ ~FlowOne(m)
        /\ \A m, n : ~FlowTwo(m, n)
        /\ ~Accepting(toDaemon)
    BY DEF One, Two, FlowOne, FlowTwo, Accepting
  <2>3. CASE Fresh
    BY <2>1, <2>2, <2>3 DEF HandshakeInv, Understood, InStep, Unread
  <2>4. CASE Live
    BY <2>1, <2>2, <2>4
       DEF HandshakeInv, Understood, InStep, Going, AwaitsHello, AwaitsFinished, AwaitsComplete,
           AwaitsServices, HasServices, Handshakes
  <2> QED
    BY <2>3, <2>4 DEF Live, Fresh
<1> QED
  BY <1>1, HandshakeInit, HandshakeNext, PTL DEF Spec

-----------------------------------------------------------------------------
(* What is said to a head unit that serves                                 *)

\* What the head unit says to what it hears gets no answer.
LEMMA RepliesUnanswered ==
  ASSUME NEW ch \in ChannelBytes, NEW arg, NEW h
  PROVE  /\ Answers(Message(ch, ChannelOpenResponse, arg), h) = <<>>
         /\ Answers(Message(ch, SetupResponse, arg), h) = <<>>
         /\ Answers(Message(ch, InputOpened, arg), h) = <<>>
         /\ ch # Input => Answers(Message(ch, Stop, arg), h) = <<>>
         /\ ch # Sensor => Answers(Message(ch, Start, arg), h) = <<>>
<1>1. ASSUME NEW m, m.ch = ch, m.id = ChannelOpenResponse PROVE Answers(m, h) = <<>>
  <2>1. CrossChannel(m) /\ m.id # VideoFocus /\ ~Intercepted(m)
    BY <1>1, SMT DEF CrossChannel, Intercepted, ChannelOpenResponse, SetupResponse, VideoFocus,
       AudioFocusResponse, Stop, Service
  <2> QED
    BY <2>1 DEF Answers, dispatch
<1>2. ASSUME NEW m, m.ch = ch, m.id = SetupResponse PROVE Answers(m, h) = <<>>
  BY <1>2 DEF Answers, dispatch, CrossChannel, Intercepted, AudioHandle, VideoHandle,
     ChannelOpenResponse, Unexpected, Setup, OpenInput, SetupResponse, VideoFocus, Service
<1>3. ASSUME NEW m, m.ch = ch, m.id = InputOpened PROVE Answers(m, h) = <<>>
  <2>1. ~CrossChannel(m) /\ ~Intercepted(m) /\ m.id # VideoFocus
    BY <1>3, SMT DEF CrossChannel, Intercepted, ChannelOpenResponse, Unexpected, InputOpened,
       SetupResponse, VideoFocus, AudioFocusResponse, Stop, Service
  <2>2. AudioHandle(m) = <<>> /\ VideoHandle(m) = <<>> /\ InputHandle(m) = <<>>
        /\ SensorHandle(m) = <<>>
    BY <1>3, SMT DEF AudioHandle, VideoHandle, InputHandle, SensorHandle, InputOpened, Setup,
       OpenInput, Stop, Start, Service
  <2>3. dispatch_control(m, h) = <<>>
    BY <1>3, SMT DEF dispatch_control, InputOpened, Service, ServiceDiscoveryResponse, PingRequest,
       AudioFocusRequest, NavigationFocusRequest, ChannelOpenRequest, ShutdownRequest
  <2> QED
    BY <2>1, <2>2, <2>3 DEF Answers, dispatch
<1>4. ASSUME NEW m, m.ch = ch, m.id = Stop, ch # Input PROVE Answers(m, h) = <<>>
  <2>1. ~CrossChannel(m) /\ m.id # VideoFocus
    BY <1>4, SMT DEF CrossChannel, ChannelOpenResponse, Unexpected, Stop, VideoFocus, Service
  <2>2. AudioHandle(m) = <<>> /\ VideoHandle(m) = <<>> /\ SensorHandle(m) = <<>>
    BY <1>4, SMT DEF AudioHandle, VideoHandle, SensorHandle, Stop, Setup, OpenInput, Start, Service
  <2>3. dispatch_control(m, h) = <<>>
    BY <1>4, SMT DEF dispatch_control, Stop, Service, ServiceDiscoveryResponse, PingRequest,
       AudioFocusRequest, NavigationFocusRequest, ChannelOpenRequest, ShutdownRequest
  <2> QED
    BY <1>4, <2>1, <2>2, <2>3 DEF Answers, dispatch
<1>5. ASSUME NEW m, m.ch = ch, m.id = Start, ch # Sensor PROVE Answers(m, h) = <<>>
  <2>1. ~CrossChannel(m) /\ ~Intercepted(m) /\ m.id # VideoFocus
    BY <1>5, SMT DEF CrossChannel, Intercepted, ChannelOpenResponse, Unexpected, Start,
       SetupResponse, VideoFocus, AudioFocusResponse, Stop, Service
  <2>2. AudioHandle(m) = <<>> /\ VideoHandle(m) = <<>> /\ InputHandle(m) = <<>>
    BY <1>5, SMT DEF AudioHandle, VideoHandle, InputHandle, Stop, Setup, OpenInput, Start, Service
  <2>3. dispatch_control(m, h) = <<>>
    BY <1>5, SMT DEF dispatch_control, Start, Service, ServiceDiscoveryResponse, PingRequest,
       AudioFocusRequest, NavigationFocusRequest, ChannelOpenRequest, ShutdownRequest
  <2> QED
    BY <1>5, <2>1, <2>2, <2>3 DEF Answers, dispatch
<1>6. \A id : Message(ch, id, arg).ch = ch /\ Message(ch, id, arg).id = id
  BY DEF Message
<1> HIDE DEF Message
<1> QED
  BY <1>1, <1>2, <1>3, <1>4, <1>5, <1>6

-----------------------------------------------------------------------------
(* What the loop answers                                                   *)

\* What goes to dispatch_control.
LEMMA ControlDispatched ==
  ASSUME NEW m, NEW h, m.ch = Control,
         m.id \in {ServiceDiscoveryResponse, PingRequest, AudioFocusRequest, NavigationFocusRequest,
                   ChannelOpenRequest, VoiceSessionRequest, ShutdownRequest}
  PROVE  Answers(m, h) = dispatch_control(m, h)
<1>1. ~CrossChannel(m) /\ ~Intercepted(m) /\ m.id # VideoFocus
  BY SMT DEF CrossChannel, Intercepted, ChannelOpenResponse, Unexpected, SetupResponse, VideoFocus,
     AudioFocusResponse, Stop, Service, ServiceDiscoveryResponse, PingRequest, AudioFocusRequest,
     NavigationFocusRequest, ChannelOpenRequest, VoiceSessionRequest, ShutdownRequest
<1>2. m.ch \notin AudioManaged /\ m.ch # Video /\ m.ch # Input /\ m.ch # Sensor
  BY SMT DEF AudioManaged, Video, Control, Input, Sensor
<1>3. Answers(m, h) = dispatch(m, h)
  BY <1>1, <1>2 DEF Answers
<1> QED
  BY <1>1, <1>2, <1>3 DEF dispatch

\* The requests on channel 0 are answered as the head unit expects,
LEMMA ControlAnswered ==
  ASSUME NEW h
  PROVE  /\ Answers(Message(Control, ServiceDiscoveryResponse, Ok), h) = OpenAll(h)
         /\ Answers(Message(Control, PingRequest, 1), h) = <<Message(Control, PingResponse, 1)>>
         /\ Answers(Message(Control, AudioFocusRequest, Ok), h)
              = <<Message(Control, AudioFocusResponse, Granted)>>
         /\ Answers(Message(Control, NavigationFocusRequest, Garbled), h)
              = <<Message(Control, NavigationFocusResponse, Granted)>>
         /\ Answers(Message(Control, ChannelOpenRequest, Ok), h)
              = <<Message(Control, ChannelOpenResponse, Ok)>>
         /\ Answers(Message(Control, AudioFocusResponse, Ok), h) = <<>>
         /\ Answers(Message(Control, VoiceSessionRequest, Ok), h) = <<>>
         /\ Answers(Message(Control, ShutdownRequest, Ok), h)
              = <<Message(Control, ShutdownResponse, Ok)>>
<1>1. Ok # Garbled /\ 1 # Garbled
  BY BringupAssumption DEF Ok
<1>2. \A id, arg : /\ Message(Control, id, arg).ch = Control /\ Message(Control, id, arg).id = id
                   /\ Message(Control, id, arg).arg = arg
  BY DEF Message
<1> HIDE DEF Message
<1>3. ASSUME NEW m, m.id = ServiceDiscoveryResponse, m.arg = Ok
      PROVE  dispatch_control(m, h) = OpenAll(h)
  BY <1>1, <1>3, SMT DEF dispatch_control, Decodes, ServiceDiscoveryResponse, PingRequest,
     AudioFocusRequest, NavigationFocusRequest, ChannelOpenRequest, ShutdownRequest
<1>4. ASSUME NEW m, m.id = PingRequest, m.arg = 1
      PROVE  dispatch_control(m, h) = <<Message(Control, PingResponse, 1)>>
  BY <1>1, <1>4, SMT DEF dispatch_control, Decodes, AnswerIf, ServiceDiscoveryResponse, PingRequest,
     AudioFocusRequest, NavigationFocusRequest, ChannelOpenRequest, ShutdownRequest
<1>5. ASSUME NEW m, m.id = AudioFocusRequest, m.arg = Ok
      PROVE  dispatch_control(m, h) = <<Message(Control, AudioFocusResponse, Granted)>>
  BY <1>1, <1>5, SMT DEF dispatch_control, Decodes, AnswerIf, ServiceDiscoveryResponse, PingRequest,
     AudioFocusRequest, NavigationFocusRequest, ChannelOpenRequest, ShutdownRequest
<1>6. ASSUME NEW m, m.id = NavigationFocusRequest
      PROVE  dispatch_control(m, h) = <<Message(Control, NavigationFocusResponse, Granted)>>
  BY <1>6, SMT DEF dispatch_control, ServiceDiscoveryResponse, PingRequest,
     AudioFocusRequest, NavigationFocusRequest, ChannelOpenRequest, ShutdownRequest
<1>7. ASSUME NEW m, m.id = ChannelOpenRequest, m.arg = Ok
      PROVE  dispatch_control(m, h) = <<Message(Control, ChannelOpenResponse, Ok)>>
  BY <1>1, <1>7, SMT DEF dispatch_control, Decodes, AnswerIf, ServiceDiscoveryResponse, PingRequest,
     AudioFocusRequest, NavigationFocusRequest, ChannelOpenRequest, ShutdownRequest
<1>8. ASSUME NEW m, m.id = VoiceSessionRequest
      PROVE  dispatch_control(m, h) = <<>>
  BY <1>8, SMT DEF dispatch_control, ServiceDiscoveryResponse, PingRequest, VoiceSessionRequest,
     AudioFocusRequest, NavigationFocusRequest, ChannelOpenRequest, ShutdownRequest
<1>9. ASSUME NEW m, m.id = ShutdownRequest
      PROVE  dispatch_control(m, h) = <<Message(Control, ShutdownResponse, Ok)>>
  BY <1>9, SMT DEF dispatch_control, ServiceDiscoveryResponse, PingRequest,
     AudioFocusRequest, NavigationFocusRequest, ChannelOpenRequest, ShutdownRequest
<1>10. ASSUME NEW m, m.ch = Control, m.id = AudioFocusResponse PROVE Answers(m, h) = <<>>
  <2>1. ~CrossChannel(m) /\ Intercepted(m) /\ m.id # VideoFocus
    BY <1>10, SMT DEF CrossChannel, Intercepted, ChannelOpenResponse, Unexpected, VideoFocus,
       AudioFocusResponse, Service
  <2>2. m.ch \notin AudioManaged /\ m.ch # Video
    BY <1>10, SMT DEF AudioManaged, Video, Control
  <2> QED
    BY <2>1, <2>2 DEF Answers, dispatch
<1> QED
  BY <1>2, <1>3, <1>4, <1>5, <1>6, <1>7, <1>8, <1>9, <1>10, ControlDispatched

\* and so are those on the channels of its services, where dispatch knows the
\* channel.
LEMMA ServiceAnswered ==
  ASSUME NEW ch \in ChannelBytes, NEW h
  PROVE  /\ ch \notin {Video} \cup AudioManaged =>
              Answers(Message(ch, VideoFocus, Ok), h) = <<Message(ch, Start, Ok)>>
         /\ ch \in {Video} \cup AudioStates =>
              Answers(Message(ch, Setup, Ok), h) = <<Message(ch, SetupResponse, Ok)>>
         /\ ch \in AudioStates =>
              Answers(Message(ch, OpenInput, Ok), h) = <<Message(ch, InputOpened, Ok)>>
         /\ ch = Sensor =>
              Answers(Message(ch, Start, Ok), h) = <<Message(ch, Stop, Ok)>>
         /\ ch = Input =>
              Answers(Message(ch, Stop, Ok), h) = <<Message(ch, SetupResponse, Ok)>>
<1>1. Ok # Garbled
  BY BringupAssumption DEF Ok
<1>2. \A id, arg : /\ Message(ch, id, arg).ch = ch /\ Message(ch, id, arg).id = id
                   /\ Message(ch, id, arg).arg = arg
  BY DEF Message
<1> HIDE DEF Message
<1>3. ASSUME NEW m, m.id \in {VideoFocus, Setup, OpenInput, Start, Stop}
      PROVE  ~CrossChannel(m)
  BY <1>3, SMT DEF CrossChannel, ChannelOpenResponse, Unexpected, VideoFocus, Setup, OpenInput,
     Start, Stop, Service
<1>4. ASSUME NEW m, m.ch = ch, m.id = VideoFocus, ch \notin {Video} \cup AudioManaged
      PROVE  Answers(m, h) = <<Message(ch, Start, Ok)>>
  BY <1>3, <1>4 DEF Answers, dispatch
<1>5. ASSUME NEW m, m.ch = ch, m.id = Setup, m.arg = Ok, ch \in {Video} \cup AudioStates
      PROVE  Answers(m, h) = <<Message(ch, SetupResponse, Ok)>>
  <2>1. /\ ch \in AudioStates => AudioHandle(m) = <<Message(ch, SetupResponse, Ok)>>
        /\ VideoHandle(m) = <<Message(ch, SetupResponse, Ok)>>
    BY <1>1, <1>5 DEF AudioHandle, VideoHandle, AnswerIf, Decodes, Setup, OpenInput, Service
  <2>2. /\ ch \in AudioManaged => ch \in AudioStates
        /\ ch \in {Video} \cup AudioManaged
    BY <1>5 DEF Video, AudioManaged, AudioStates
  <2> QED
    BY <1>3, <1>5, <2>1, <2>2 DEF Answers
<1>6. ASSUME NEW m, m.ch = ch, m.id = OpenInput, m.arg = Ok, ch \in AudioStates
      PROVE  Answers(m, h) = <<Message(ch, InputOpened, Ok)>>
  <2>1. AudioHandle(m) = <<Message(ch, InputOpened, Ok)>>
    BY <1>1, <1>6 DEF AudioHandle, AnswerIf, Decodes, Setup, OpenInput, Service
  <2>2. ch # Video /\ ch \in AudioManaged
    BY <1>6 DEF Video, AudioManaged, AudioStates
  <2> QED
    BY <1>3, <1>6, <2>1, <2>2 DEF Answers
<1>7. ASSUME NEW m, m.ch = ch, m.id = Start, m.arg = Ok, ch = Sensor
      PROVE  Answers(m, h) = <<Message(ch, Stop, Ok)>>
  <2>1. SensorHandle(m) = <<Message(ch, Stop, Ok)>>
    BY <1>1, <1>7 DEF SensorHandle, AnswerIf, Decodes
  <2>2. ch \notin AudioManaged /\ ch # Video /\ ch # Control /\ ch # Input
    BY <1>7 DEF Video, AudioManaged, Sensor, Control, Input
  <2>3. ~Intercepted(m) /\ m.id # VideoFocus
    BY <1>7, SMT DEF Intercepted, SetupResponse, VideoFocus, AudioFocusResponse, Start, Stop, Service
  <2> QED
    BY <1>3, <1>7, <2>1, <2>2, <2>3 DEF Answers, dispatch
<1>8. ASSUME NEW m, m.ch = ch, m.id = Stop, m.arg = Ok, ch = Input
      PROVE  Answers(m, h) = <<Message(ch, SetupResponse, Ok)>>
  <2>1. InputHandle(m) = <<Message(ch, SetupResponse, Ok)>>
    BY <1>1, <1>8 DEF InputHandle, AnswerIf, Decodes
  <2>2. ch \notin AudioManaged /\ ch # Video /\ ch # Control /\ ch # Sensor
    BY <1>8 DEF Video, AudioManaged, Sensor, Control, Input
  <2>3. ~Intercepted(m) /\ m.id # VideoFocus
    BY <1>8, <2>2, SMT DEF Intercepted, SetupResponse, VideoFocus, AudioFocusResponse, Stop, Service
  <2> QED
    BY <1>3, <1>8, <2>1, <2>2, <2>3 DEF Answers, dispatch
<1> QED
  BY <1>2, <1>4, <1>5, <1>6, <1>7, <1>8

\* What the head unit may be owed: an answer on a channel that is set up, or one
\* of these on channel 0.
Owes(o) ==
  \/ o.ch \in car.set
  \/ o.ch = Control /\ o.id \in {PingResponse, AudioFocusResponse, NavigationFocusResponse,
                                 ChannelOpenResponse, ShutdownResponse}

\* Each of its requests is answered with what it is owed for it.
LEMMA RequestAnswered ==
  ASSUME ControlInv, NEW r \in Requests
  PROVE  /\ Answers(r[1], hu) = r[2]
         /\ r[2] = <<>> \/ \E o \in Frames : r[2] = <<o>> /\ Owes(o)
<1>1. \A ch \in ChannelBytes, id \in Nat, arg \in Nat :
        /\ Message(ch, id, arg) \in Frames
        /\ Message(ch, id, arg).ch = ch /\ Message(ch, id, arg).id = id
  BY Arguments DEF Message
<1>2. hu \in DOMAIN Tables
  BY Kinships DEF ControlInv, Watched
<1>3. ASSUME NEW d \in ToSet(Table), d.id \in car.set, r \in RequestsOf(d)
      PROVE  /\ Answers(r[1], hu) = r[2]
             /\ r[2] = <<>> \/ \E o \in Frames : r[2] = <<o>> /\ Owes(o)
  <2>1. d.id \in ChannelBytes /\ IsNumbered(d, hu \in Modern)
    BY <1>2, BringupAssumption, TableAssumption, Zenon DEF Table
  <2>2. {Start, Stop, SetupResponse, InputOpened} \subseteq Nat /\ Ok \in Nat
    BY Ids
  <2>3. \A id \in {Start, Stop, SetupResponse, InputOpened} :
          Message(d.id, id, Ok) \in Frames /\ Owes(Message(d.id, id, Ok))
    <3> HIDE DEF Message
    <3> QED
      BY <1>1, <1>3, <2>1, <2>2 DEF Owes
  <2> HIDE DEF Message
  <2>4. CASE r = <<Position(d), <<>>>>
    BY <2>1, <2>4, RepliesUnanswered DEF Position
  <2>5. CASE hu \in Modern /\ d.service = "video"
             /\ r = <<Message(d.id, VideoFocus, Ok), <<Message(d.id, Start, Ok)>>>>
    BY <2>1, <2>3, <2>5, ServiceAnswered DEF IsNumbered
  <2>6. CASE hu \notin Modern /\ d.service \in {"video", "audio"}
             /\ r = <<Message(d.id, Setup, Ok), <<Message(d.id, SetupResponse, Ok)>>>>
    BY <2>1, <2>3, <2>6, ServiceAnswered DEF IsNumbered
  <2>7. CASE hu \notin Modern /\ d.service = "microphone"
             /\ r = <<Message(d.id, OpenInput, Ok), <<Message(d.id, InputOpened, Ok)>>>>
    BY <2>1, <2>3, <2>7, ServiceAnswered DEF IsNumbered
  <2>8. CASE hu \notin Modern /\ d.service = "sensor"
             /\ r = <<Message(d.id, Start, Ok), <<Message(d.id, Stop, Ok)>>>>
    BY <2>1, <2>3, <2>8, ServiceAnswered DEF IsNumbered
  <2>9. CASE d.service = "input" /\ r = <<Message(d.id, Start, Ok), <<>>>>
    BY <2>1, <2>9, RepliesUnanswered DEF IsNumbered
  <2>10. CASE hu \notin Modern /\ d.service = "input"
              /\ r = <<Message(d.id, Stop, Ok), <<Message(d.id, SetupResponse, Ok)>>>>
    BY <2>1, <2>3, <2>10, ServiceAnswered DEF IsNumbered
  <2> QED
    BY <1>3, <2>4, <2>5, <2>6, <2>7, <2>8, <2>9, <2>10 DEF RequestsOf
<1>4. Control \in ChannelBytes /\ {Ok, Granted, 1} \subseteq Nat
      /\ {PingResponse, AudioFocusResponse, NavigationFocusResponse, ChannelOpenResponse,
          ShutdownResponse} \subseteq Nat
  BY Ids DEF PingResponse, AudioFocusResponse, NavigationFocusResponse, ChannelOpenResponse,
             ShutdownResponse
<1>5. \A id \in {PingResponse, AudioFocusResponse, NavigationFocusResponse,
                 ChannelOpenResponse, ShutdownResponse}, arg \in {Ok, Granted, 1} :
        Message(Control, id, arg) \in Frames /\ Owes(Message(Control, id, arg))
  <2> HIDE DEF Message
  <2> QED
    BY <1>1, <1>4 DEF Owes
<1>6. CASE \A d \in ToSet(Table) : ~(d.id \in car.set /\ r \in RequestsOf(d))
  <2> HIDE DEF Message
  <2>1. \/ r = <<Message(Control, PingRequest, 1), <<Message(Control, PingResponse, 1)>>>>
        \/ r = <<Message(Control, AudioFocusRequest, Ok),
                 <<Message(Control, AudioFocusResponse, Granted)>>>>
        \/ r = <<Message(Control, NavigationFocusRequest, Garbled),
                 <<Message(Control, NavigationFocusResponse, Granted)>>>>
        \/ r = <<Message(Control, ChannelOpenRequest, Ok),
                 <<Message(Control, ChannelOpenResponse, Ok)>>>>
        \/ r = <<Message(Control, AudioFocusResponse, Ok), <<>>>>
        \/ r = <<Message(Control, VoiceSessionRequest, Ok), <<>>>>
        \/ r = <<Message(Control, ShutdownRequest, Ok),
                 <<Message(Control, ShutdownResponse, Ok)>>>>
    BY <1>6 DEF Requests
  <2> QED
    BY <1>5, <2>1, ControlAnswered
<1> QED
  BY <1>3, <1>6

-----------------------------------------------------------------------------
(* What a sequence of messages will be answered with                       *)

\* Joining messages is associative.
LEMMA FramesJoined ==
  \A x, y, z \in Seq(Frames) : (x \o y) \o z = x \o (y \o z)
BY ConcatAssociative

\* What the daemon will answer to a queue of messages: f[i] is the rest of the
\* answers s once the first i messages are read.
Yields(q, s, h) ==
  \E f \in [0..Len(q) -> Seq(Frames)] :
    /\ f[0] = s /\ f[Len(q)] = <<>>
    /\ \A i \in 1..Len(q) :
         Answers(q[i], h) \in Seq(Frames) /\ f[i - 1] = Answers(q[i], h) \o f[i]

\* Pings yield nothing,
LEMMA PingsYield ==
  ASSUME NEW q, Pings(q)
  PROVE  Yields(q, <<>>, hu)
<1>1. q \in Seq(Frames) /\ Len(q) \in Nat /\ \A i \in 1..Len(q) : q[i] = Ping
  BY DEF Pings
<1>2. PICK f : f = [i \in 0..Len(q) |-> <<>>]
  OBVIOUS
<1>3. <<>> \in Seq(Frames) /\ <<>> = <<>> \o <<>>
  OBVIOUS
<1>4. f \in [0..Len(q) -> Seq(Frames)] /\ \A i \in 0..Len(q) : f[i] = <<>>
  BY <1>2, <1>3
<1>5. ASSUME NEW i \in 1..Len(q)
      PROVE  Answers(q[i], hu) \in Seq(Frames) /\ f[i - 1] = Answers(q[i], hu) \o f[i]
  <2>1. Answers(q[i], hu) = <<>>
    BY <1>1, PingUnanswered
  <2>2. f[i - 1] = <<>> /\ f[i] = <<>>
    BY <1>1, <1>4
  <2> QED
    BY <1>3, <2>1, <2>2
<1> QED
  BY <1>1, <1>4, <1>5 DEF Yields

\* the first message yields its answer first,
LEMMA YieldsLess ==
  ASSUME NEW q \in Seq(Frames), q # <<>>, NEW s, NEW h, Yields(q, s, h)
  PROVE  /\ Answers(Head(q), h) \in Seq(Frames)
         /\ \E r \in Seq(Frames) : s = Answers(Head(q), h) \o r /\ Yields(Tail(q), r, h)
<1>1. PICK n \in Nat : Len(q) = n + 1
  <2>1. Len(q) \in Nat \ {0}
    BY EmptySeq
  <2>2. Len(q) - 1 \in Nat /\ Len(q) = (Len(q) - 1) + 1
    BY <2>1
  <2> QED
    BY <2>2
<1>2. PICK f \in [0..n + 1 -> Seq(Frames)] :
        /\ f[0] = s /\ f[n + 1] = <<>>
        /\ \A i \in 1..n + 1 :
             Answers(q[i], h) \in Seq(Frames) /\ f[i - 1] = Answers(q[i], h) \o f[i]
  BY <1>1 DEF Yields
<1>3. /\ Head(q) = q[1] /\ Tail(q) \in Seq(Frames) /\ Len(Tail(q)) = n
      /\ \A i \in 1..n : Tail(q)[i] = q[i + 1]
  BY <1>1, HeadTailProperties
<1>4. Answers(q[1], h) \in Seq(Frames) /\ s = Answers(q[1], h) \o f[1] /\ f[1] \in Seq(Frames)
  <2>1. 1 \in 1..n + 1 /\ 1 \in 0..n + 1 /\ 1 - 1 = 0
    OBVIOUS
  <2> QED
    BY <1>2, <2>1
<1>5. PICK g : g = [i \in 0..n |-> f[i + 1]]
  OBVIOUS
<1>6. g \in [0..n -> Seq(Frames)] /\ g[0] = f[1] /\ g[n] = <<>>
  BY <1>2, <1>5
<1>7. ASSUME NEW i \in 1..n
      PROVE  Answers(Tail(q)[i], h) \in Seq(Frames)
             /\ g[i - 1] = Answers(Tail(q)[i], h) \o g[i]
  <2>1. i + 1 \in 1..n + 1 /\ (i + 1) - 1 = i /\ i \in 0..n /\ i - 1 \in 0..n /\ (i - 1) + 1 = i
    OBVIOUS
  <2>2. g[i - 1] = f[i] /\ g[i] = f[i + 1]
    BY <1>5, <2>1
  <2> QED
    BY <1>2, <1>3, <2>1, <2>2
<1>8. Yields(Tail(q), f[1], h)
  BY <1>3, <1>6, <1>7 DEF Yields
<1> QED
  BY <1>3, <1>4, <1>8

\* and one message more yields its answer last.
LEMMA YieldsMore ==
  ASSUME NEW q \in Seq(Frames), NEW s, NEW h, Yields(q, s, h), NEW m \in Frames,
         NEW a \in Seq(Frames), Answers(m, h) = a
  PROVE  Yields(q \o <<m>>, s \o a, h)
<1>1. PICK n \in Nat : Len(q) = n
  BY LenProperties
<1>2. PICK f \in [0..n -> Seq(Frames)] :
        /\ f[0] = s /\ f[n] = <<>>
        /\ \A i \in 1..n :
             Answers(q[i], h) \in Seq(Frames) /\ f[i - 1] = Answers(q[i], h) \o f[i]
  BY <1>1 DEF Yields
<1>3. PICK t : t = Append(q, m)
  OBVIOUS
<1>4. /\ t = q \o <<m>> /\ t \in Seq(Frames) /\ Len(t) = n + 1 /\ t[n + 1] = m
      /\ \A i \in 1..n : t[i] = q[i]
  BY <1>1, <1>3, AppendProperties, AppendIsConcat
<1>5. PICK g : g = [i \in 0..n + 1 |-> IF i = n + 1 THEN <<>> ELSE f[i] \o a]
  OBVIOUS
<1>6. /\ g[n + 1] = <<>>
      /\ \A i \in 0..n : g[i] = f[i] \o a
  <2>1. n + 1 \in 0..n + 1 /\ \A i \in 0..n : i \in 0..n + 1 /\ i # n + 1
    OBVIOUS
  <2> QED
    BY <1>5, <2>1, Zenon
<1>7. g \in [0..n + 1 -> Seq(Frames)]
  <2>1. \A i \in 0..n : f[i] \o a \in Seq(Frames)
    BY <1>2, ConcatProperties
  <2>2. <<>> \in Seq(Frames)
    OBVIOUS
  <2> QED
    BY <1>5, <2>1, <2>2
<1>8. ASSUME NEW i \in 1..n
      PROVE  Answers(t[i], h) \in Seq(Frames) /\ g[i - 1] = Answers(t[i], h) \o g[i]
  <2>1. i \in 0..n /\ i - 1 \in 0..n
    OBVIOUS
  <2>2. f[i] \in Seq(Frames)
    BY <2>1
  <2>3. Answers(q[i], h) \in Seq(Frames) /\ f[i - 1] = Answers(q[i], h) \o f[i]
    BY <1>2, Zenon
  <2> DEFINE b == Answers(q[i], h)
  <2> HIDE DEF b
  <2>4. (b \o f[i]) \o a = b \o (f[i] \o a)
    <3>1. b \in Seq(Frames)
      BY <2>3, Zenon DEF b
    <3>2. PICK c \in Seq(Frames) : c = f[i]
      BY <2>2
    <3>3. \A z \in Seq(Frames) : (b \o c) \o z = b \o (c \o z)
      BY <3>1, FramesJoined, Zenon
    <3> QED
      BY <3>2, <3>3, Zenon
  <2>5. g[i - 1] = f[i - 1] \o a /\ g[i] = f[i] \o a /\ Answers(t[i], h) = b
    BY <1>4, <1>6, <2>1, Zenon DEF b
  <2>6. g[i - 1] = b \o g[i]
    BY <2>3, <2>4, <2>5, Zenon DEF b
  <2> QED
    BY <2>3, <2>5, <2>6, Zenon DEF b
<1>9. Answers(t[n + 1], h) \in Seq(Frames) /\ g[n] = Answers(t[n + 1], h) \o g[n + 1]
  <2>1. <<>> \o a = a /\ a \o <<>> = a
    BY ConcatEmptySeq
  <2>2. g[n] = a
    <3>1. n \in 0..n
      OBVIOUS
    <3> QED
      BY <1>2, <1>6, <2>1, <3>1, Zenon
  <2> QED
    BY <1>4, <1>6, <2>1, <2>2, Zenon
<1>10. g[0] = s \o a
  <2>1. 0 \in 0..n
    OBVIOUS
  <2> QED
    BY <1>2, <1>6, <2>1, Zenon
<1>11. ASSUME NEW i \in 1..n + 1
       PROVE  Answers(t[i], h) \in Seq(Frames) /\ g[i - 1] = Answers(t[i], h) \o g[i]
  <2>1. CASE i = n + 1
    <3>1. i - 1 = n
      BY <2>1
    <3> QED
      BY <1>9, <2>1, <3>1, Zenon
  <2>2. CASE i \in 1..n
    BY <1>8, <2>2, Zenon
  <2>3. i = n + 1 \/ i \in 1..n
    OBVIOUS
  <2> QED
    BY <2>1, <2>2, <2>3, Zenon
<1>12. Yields(t, s \o a, h)
  <2>1. PICK k : k = n + 1
    OBVIOUS
  <2>2. \A i \in 1..k :
          Answers(t[i], h) \in Seq(Frames) /\ g[i - 1] = Answers(t[i], h) \o g[i]
    BY <1>11, <2>1, Zenon
  <2>3. Len(t) = k /\ g \in [0..k -> Seq(Frames)] /\ g[k] = <<>>
    BY <1>4, <1>6, <1>7, <2>1, Zenon
  <2> QED
    BY <1>10, <2>2, <2>3, Zenon DEF Yields
<1> QED
  BY <1>4, <1>12

\* The first of two joined sequences comes first.
LEMMA HeadTailJoined ==
  ASSUME NEW s \in Seq(Frames), NEW t \in Seq(Frames), s # <<>>
  PROVE  /\ s \o t \in Seq(Frames) /\ s \o t # <<>>
         /\ Head(s \o t) = Head(s) /\ Tail(s \o t) = Tail(s) \o t
<1>1. /\ s \o t \in Seq(Frames) /\ Len(s \o t) = Len(s) + Len(t)
      /\ \A i \in 1..Len(s) + Len(t) : (s \o t)[i] = IF i <= Len(s) THEN s[i] ELSE t[i - Len(s)]
  BY ConcatProperties
<1>2. Len(s) \in Nat \ {0} /\ Len(t) \in Nat
  BY EmptySeq, LenProperties
<1>3. s \o t # <<>>
  BY <1>1, <1>2
<1>4. /\ Tail(s) \in Seq(Frames) /\ Len(Tail(s)) = Len(s) - 1
      /\ \A i \in 1..Len(s) - 1 : Tail(s)[i] = s[i + 1]
  BY HeadTailProperties
<1>5. /\ Tail(s \o t) \in Seq(Frames) /\ Len(Tail(s \o t)) = Len(s) + Len(t) - 1
      /\ \A i \in 1..Len(s) + Len(t) - 1 : Tail(s \o t)[i] = (s \o t)[i + 1]
  BY <1>1, <1>3, HeadTailProperties
<1>6. /\ Tail(s) \o t \in Seq(Frames) /\ Len(Tail(s) \o t) = Len(s) - 1 + Len(t)
      /\ \A i \in 1..Len(s) - 1 + Len(t) :
           (Tail(s) \o t)[i] = IF i <= Len(s) - 1 THEN Tail(s)[i] ELSE t[i - (Len(s) - 1)]
  BY <1>4, ConcatProperties
<1>7. ASSUME NEW i \in 1..Len(s) + Len(t) - 1 PROVE Tail(s \o t)[i] = (Tail(s) \o t)[i]
  <2>1. PICK k \in Nat, l \in Nat : k = Len(s) /\ l = Len(t)
    BY <1>2
  <2>2. i + 1 \in 1..k + l /\ i \in 1..k - 1 + l
    BY <1>2, <1>7, <2>1
  <2>3. CASE i <= k - 1
    BY <1>1, <1>4, <1>5, <1>6, <1>7, <2>1, <2>2, <2>3
  <2>4. CASE ~(i <= k - 1)
    <3>1. ~(i + 1 <= k) /\ i - (k - 1) = (i + 1) - k
      BY <2>2, <2>4
    <3> QED
      BY <1>1, <1>5, <1>6, <1>7, <2>1, <2>2, <2>4, <3>1
  <2> QED
    BY <2>3, <2>4
<1>8. Tail(s \o t) = Tail(s) \o t
  <2>1. PICK u \in Seq(Frames), v \in Seq(Frames) : u = Tail(s \o t) /\ v = Tail(s) \o t
    BY <1>5, <1>6
  <2>2. Len(u) = Len(v) /\ \A i \in 1..Len(u) : u[i] = v[i]
    BY <1>2, <1>5, <1>6, <1>7, <2>1
  <2> QED
    BY <2>1, <2>2, SeqEqual
<1>9. Head(s \o t) = Head(s)
  <2>1. Head(s \o t) = (s \o t)[1] /\ Head(s) = s[1] /\ 1 \in 1..Len(s) + Len(t) /\ 1 <= Len(s)
    BY <1>1, <1>2, <1>3
  <2> QED
    BY <1>1, <2>1
<1> QED
  BY <1>1, <1>3, <1>8, <1>9

\* What is left of a sequence from a place on: its first message, and the rest.
LEMMA LeftFrom ==
  ASSUME NEW s \in Seq(Frames), NEW n \in 0..Len(s), n < Len(s), NEW t \in Seq(Frames)
  PROVE  /\ Head(SubSeq(s, n + 1, Len(s)) \o t) = s[n + 1]
         /\ Tail(SubSeq(s, n + 1, Len(s)) \o t) = SubSeq(s, (n + 1) + 1, Len(s)) \o t
<1>1. Len(s) \in Nat /\ n \in Nat /\ n <= Len(s) /\ \A i \in 1..Len(s) : s[i] \in Frames
  BY LenProperties
<1>2. PICK u : u = SubSeq(s, n + 1, Len(s))
  OBVIOUS
<1>3. u \in Seq(Frames) /\ Len(u) = IF n + 1 <= Len(s) THEN Len(s) - (n + 1) + 1 ELSE 0
  <2>1. \A i \in n + 1..Len(s) : s[i] \in Frames
    BY <1>1
  <2>2. n + 1 \in Int /\ Len(s) \in Int
    BY <1>1
  <2> QED
    BY <1>2, <2>1, <2>2, SubSeqProperties
<1>4. n + 1 \in 1..Len(s) /\ Len(s) \in n + 1..Len(s)
  BY <1>1
<1>5. Head(u) = s[n + 1] /\ Tail(u) = SubSeq(s, (n + 1) + 1, Len(s))
  BY <1>2, <1>4, HeadTailOfSubSeq
<1>6. u # <<>>
  <2>1. Len(u) # 0
    BY <1>1, <1>3, <1>4
  <2> QED
    BY <2>1
<1>7. Head(u \o t) = Head(u) /\ Tail(u \o t) = Tail(u) \o t
  BY <1>3, <1>6, HeadTailJoined
<1> QED
  BY <1>2, <1>5, <1>7, Zenon

\* At its end nothing is left,
LEMMA LeftNone ==
  ASSUME NEW s \in Seq(Frames), NEW t \in Seq(Frames)
  PROVE  SubSeq(s, Len(s) + 1, Len(s)) \o t = t
<1>1. SubSeq(s, Len(s) + 1, Len(s)) = <<>>
  BY LenProperties, SubSeqEmpty
<1> QED
  BY <1>1, ConcatEmptySeq

\* and at its start all of it.
LEMMA LeftAll ==
  ASSUME NEW s \in Seq(Frames)
  PROVE  SubSeq(s, 0 + 1, Len(s)) \o <<>> = s
<1>1. SubSeq(s, 1, Len(s)) = s /\ 0 + 1 = 1
  BY SubSeqFull
<1> QED
  BY <1>1, ConcatEmptySeq

-----------------------------------------------------------------------------
(* What a head unit has opened and set up                                  *)

\* The channels that the first n messages of the answer to the table have opened,
\* and those that they have set up.
OpenedBy(n) == {OpenAll(hu)[q].ch : q \in 3..n}
SetUpBy(n) ==
  {OpenAll(hu)[q].ch : q \in {p \in 3..n : OpenAll(hu)[p].id # ChannelOpenRequest}}

\* The answer to the table, message by message: what it says of the phone, the
\* open of a channel that is not open yet, or the setup of one that is.
LEMMA TableStep ==
  ASSUME ControlInv, NEW n \in Nat, n < Len(OpenAll(hu)), NEW m, m = OpenAll(hu)[n + 1]
  PROVE  \/ /\ m.ch = Control /\ m.id \in {BatteryStatus, CallAvailability}
            /\ OpenedBy(n + 1) = OpenedBy(n) /\ SetUpBy(n + 1) = SetUpBy(n)
            /\ n < 2
         \/ /\ \E d \in ToSet(Table) : Offers(d) /\ m = OpeningOf(d)
            /\ m.ch \notin OpenedBy(n)
            /\ OpenedBy(n + 1) = OpenedBy(n) \cup {m.ch} /\ SetUpBy(n + 1) = SetUpBy(n)
         \/ /\ \E d \in ToSet(Table) : \E a \in Awaits(d.service) :
                 m = Message(d.id, a.id, a.arg)
            /\ m.id # ChannelOpenRequest
            /\ m.ch \in OpenedBy(n) \ SetUpBy(n)
            /\ OpenedBy(n + 1) = OpenedBy(n) /\ SetUpBy(n + 1) = SetUpBy(n) \cup {m.ch}
<1>0. hu \in DOMAIN Tables
  BY Kinships DEF ControlInv, Watched
<1>1. PICK A : A = OpenAll(hu)
  OBVIOUS
<1>2. /\ InOrder(A, 3, ToSet(Table)) /\ Len(A) >= 2
      /\ A[1] = Message(Control, BatteryStatus, 100)
      /\ A[2] = Message(Control, CallAvailability, 0)
  BY <1>0, <1>1, TableAnswered DEF Table
<1>3. A \in Seq(Frames) /\ Len(A) \in Nat
      /\ \A p \in 3..Len(A) : \E d \in ToSet(Table) : Opens(A, 3, p, d) \/ SetsUp(A, 3, p, d)
  BY <1>2 DEF InOrder
<1>4. /\ \A k : OpenedBy(k) = {A[q].ch : q \in 3..k}
      /\ \A k : SetUpBy(k) = {A[q].ch : q \in {p \in 3..k : A[p].id # ChannelOpenRequest}}
  BY <1>1 DEF OpenedBy, SetUpBy
<1>5. m = A[n + 1]
  BY <1>1
<1>6. \A ch, id, arg : Message(ch, id, arg).ch = ch /\ Message(ch, id, arg).id = id
  BY DEF Message
<1> HIDE DEF Message
<1>7. CASE n < 2
  <2>1. n + 1 = 1 \/ n + 1 = 2
    BY <1>7
  <2>2. m.ch = Control /\ m.id \in {BatteryStatus, CallAvailability}
    BY <1>2, <1>5, <1>6, <2>1
  <2>3. 3..n = {} /\ 3..n + 1 = {}
    BY <1>7
  <2>4. OpenedBy(n + 1) = OpenedBy(n) /\ SetUpBy(n + 1) = SetUpBy(n)
    BY <1>4, <2>3
  <2> QED
    BY <1>7, <2>2, <2>4
<1>8. CASE ~(n < 2)
  <2>0. n + 1 \in 3..Len(A) /\ 3..n + 1 = 3..n \cup {n + 1} /\ (n + 1) - 1 = n /\ (n + 1) - 2 = n - 1
    BY <1>1, <1>3, <1>8
  <2>1. OpenedBy(n + 1) = OpenedBy(n) \cup {m.ch}
    BY <1>4, <1>5, <2>0
  <2>2. PICK d \in ToSet(Table) : Opens(A, 3, n + 1, d) \/ SetsUp(A, 3, n + 1, d)
    BY <1>3, <2>0
  <2>3. CASE Opens(A, 3, n + 1, d)
    <3>1. Offers(d) /\ m = OpeningOf(d) /\ \A q \in 3..n : A[q].ch # d.id
      BY <1>5, <2>0, <2>3 DEF Opens
    <3>2. m.ch = d.id /\ m.id = ChannelOpenRequest
      BY <1>6, <3>1 DEF OpeningOf
    <3>3. m.ch \notin OpenedBy(n)
      BY <1>4, <3>1, <3>2
    <3>4. SetUpBy(n + 1) = SetUpBy(n)
      BY <1>4, <1>5, <2>0, <3>2
    <3> QED
      BY <2>1, <3>1, <3>3, <3>4
  <2>4. CASE SetsUp(A, 3, n + 1, d)
    <3>1. /\ n + 1 > 3 /\ A[n] = OpeningOf(d)
          /\ \E a \in Awaits(d.service) : m = Message(d.id, a.id, a.arg)
          /\ \A q \in 3..n - 1 : A[q].ch # d.id
      BY <1>5, <2>0, <2>4 DEF SetsUp
    <3>2. PICK a \in Awaits(d.service) : m = Message(d.id, a.id, a.arg)
      BY <3>1
    <3>3. m.ch = d.id /\ m.id # ChannelOpenRequest
      BY <1>6, <3>2, SetupIsNoOpen
    <3>4. A[n].ch = d.id /\ A[n].id = ChannelOpenRequest /\ n \in 3..n
      BY <1>6, <3>1 DEF OpeningOf
    <3>5. m.ch \in OpenedBy(n)
      BY <1>4, <3>3, <3>4
    <3>6. m.ch \notin SetUpBy(n)
      <4> SUFFICES ASSUME NEW p \in 3..n, A[p].id # ChannelOpenRequest, A[p].ch = m.ch
                   PROVE  FALSE
        BY <1>4
      <4>1. p = n \/ p \in 3..n - 1
        OBVIOUS
      <4> QED
        BY <3>1, <3>3, <3>4, <4>1
    <3>7. SetUpBy(n + 1) = SetUpBy(n) \cup {m.ch}
      BY <1>4, <1>5, <2>0, <3>3
    <3>8. OpenedBy(n) \cup {m.ch} = OpenedBy(n)
      BY <3>5
    <3> QED
      BY <2>1, <3>1, <3>3, <3>5, <3>6, <3>7, <3>8
  <2> QED
    BY <2>2, <2>3, <2>4
<1> QED
  BY <1>7, <1>8

\* The ids that the loop sends unasked are none of those it owes on channel 0.
LEMMA OwedIds ==
  ASSUME NEW d, NEW a \in Awaits(d.service)
  PROVE  {a.id, BatteryStatus, CallAvailability, ChannelOpenRequest}
         \cap {PingResponse, AudioFocusResponse, NavigationFocusResponse,
               ChannelOpenResponse, ShutdownResponse} = {}
         /\ a.id \notin {BatteryStatus, CallAvailability}
<1>1. a.id \in {Setup, OpenInput, Start, Stop}
  BY DEF Awaits
<1> QED
  BY <1>1 DEF Setup, OpenInput, Start, Stop, Service, BatteryStatus, CallAvailability,
     ChannelOpenRequest, PingResponse, AudioFocusResponse, NavigationFocusResponse,
     ChannelOpenResponse, ShutdownResponse

\* What the head unit says to a message that it places unasked gets no answer.
Quiet(msgs) == msgs = <<>> \/ \E y \in Frames : msgs = <<y>> /\ Answers(y, hu) = <<>>

\* A head unit that places an opening says so, and the loop has no answer,
LEMMA OpenAnswered ==
  ASSUME ControlInv, NEW m, NEW p \in OpenPlaced(m)
  PROVE  p[1] = [car EXCEPT !.opened = @ \cup {m.ch}] /\ Quiet(p[2])
<1>1. PICK v \in ServicesAt(m.ch) :
        p = <<[car EXCEPT !.opened = @ \cup {m.ch}], <<Message(m.ch, ChannelOpenResponse, Ok)>>>>
  BY DEF OpenPlaced
<1>2. m.ch \in ChannelBytes
  BY TableChannels
<1>3. PICK y \in Frames : y = Message(m.ch, ChannelOpenResponse, Ok)
  BY <1>2, Arguments, Ids
<1>4. Answers(y, hu) = <<>>
  BY <1>2, <1>3, RepliesUnanswered
<1> QED
  BY <1>1, <1>3, <1>4 DEF Quiet

\* and just so when it places a setup.
LEMMA SetupAnswered ==
  ASSUME ControlInv, NEW m, NEW p \in SetupPlaced(m)
  PROVE  p[1] = [car EXCEPT !.set = @ \cup {m.ch}] /\ Quiet(p[2])
<1>1. PICK a \in SetupsFor(m) :
        p = <<[car EXCEPT !.set = @ \cup {m.ch}], <<Message(m.ch, a.answer, Ok)>>>>
  BY DEF SetupPlaced
<1>2. PICK d \in ToSet(Table) : d.id = m.ch /\ a \in Awaits(d.service)
  BY DEF SetupsFor, ServicesAt
<1>3. m.ch \in ChannelBytes
  BY <1>2, TableChannels DEF ServicesAt
<1>4. hu \in DOMAIN Tables
  BY Kinships DEF ControlInv, Watched
<1>5. d.service = "sensor" => m.ch # Input
  BY <1>2, <1>4, TableAssumption DEF IsNumbered, Table
<1>6. a.answer \in {SetupResponse, InputOpened, Stop} /\ (a.answer = Stop => m.ch # Input)
  <2>1. SetupResponse # Stop /\ InputOpened # Stop
    BY DEF SetupResponse, InputOpened, Stop, Service
  <2>2. \/ a.answer \in {SetupResponse, InputOpened}
        \/ d.service = "sensor" /\ a.answer = Stop
    BY <1>2 DEF Awaits
  <2> QED
    BY <1>5, <2>1, <2>2
<1>7. PICK y \in Frames : y = Message(m.ch, a.answer, Ok)
  BY <1>3, <1>6, Arguments, Ids
<1>8. Answers(y, hu) = <<>>
  BY <1>3, <1>6, <1>7, RepliesUnanswered
<1> QED
  BY <1>1, <1>7, <1>8 DEF Quiet

-----------------------------------------------------------------------------
(* A head unit that serves                                                 *)

\* What the head unit is owed is a queue of such answers.
OwedWell ==
  car.owed \in Seq(Frames) /\ \A i \in 1..Len(car.owed) : Owes(car.owed[i])

\* A head unit that serves has heard the first n messages of the answer to its
\* table, and nothing else that counts.  What is under way to it, and what the
\* daemon will answer to what is under way from it, is the rest of these and
\* then what it is owed, in this order; behind a write that failed nothing goes
\* out any more, and s is what it will miss.
Unsent == IF Skips THEN <<>> ELSE outs
Serves(n, s) ==
  /\ toDaemon \in Seq(Frames) /\ toCar \in Seq(Frames) /\ outs \in Seq(Frames)
  /\ ~Skips => Yields(toDaemon, s, hu)
  /\ (toCar \o Unsent) \o s
       = SubSeq(OpenAll(hu), n + 1, Len(OpenAll(hu))) \o car.owed
  /\ car.opened = OpenedBy(n) /\ car.set = SetUpBy(n)
Served ==
  /\ ~car.unexpected /\ OwedWell
  /\ \E n \in 0..Len(OpenAll(hu)), s \in Seq(Frames) : Serves(n, s)
Blank == car.owed = <<>> /\ car.opened = {} /\ car.set = {}
Attended == IF car.at = "served" THEN Served ELSE Blank
ServiceInv == HandshakeInv /\ Attended

\* The answer to a table is a sequence of messages.
LEMMA TableFrames ==
  ASSUME ControlInv
  PROVE  OpenAll(hu) \in Seq(Frames) /\ Len(OpenAll(hu)) \in Nat
<1>1. hu \in DOMAIN Tables
  BY Kinships DEF ControlInv, Watched
<1>2. OpenAll(hu) \in Seq(Frames)
  BY <1>1, TableAnswered DEF InOrder
<1> QED
  BY <1>2, LenProperties

\* The head unit is the same for good.
LEMMA SameHeadUnit == [Next]_vars => hu' = hu
<1> SUFFICES ASSUME [Next]_vars PROVE hu' = hu
  OBVIOUS
<1>1. CASE UNCHANGED vars
  BY <1>1 DEF vars
<1>2. CASE Rebind \/ Launch \/ DaemonStep
  BY <1>2 DEF Rebind, Launch, DaemonStep, Open, Read, ReadFails, PreseedFails, HandshakeDone,
     Write, WriteFails, Timeout, Exit
<1>3. CASE CarStep \/ Asks \/ FallsSilent \/ Wakes \/ TalksNonsense \/ Refuses
  BY <1>3 DEF CarStep, Comes, Greets, Hears, Asks, FallsSilent, Wakes, TalksNonsense, Refuses,
     Speaking
<1>4. CASE IsUnplugged \/ Wedges \/ GivesUp \/ WriteIsLost
  BY <1>4 DEF IsUnplugged, Wedges, GivesUp, Leaves, WriteIsLost
<1> QED
  BY <1>1, <1>2, <1>3, <1>4 DEF Next

\* What a step has to show of a head unit that serves.
LEMMA ServedThen ==
  ASSUME UNCHANGED hu, ~car'.unexpected, OwedWell',
         NEW n \in 0..Len(OpenAll(hu)), NEW s \in Seq(Frames),
         toDaemon' \in Seq(Frames), toCar' \in Seq(Frames), outs' \in Seq(Frames),
         Skips' \/ Yields(toDaemon', s, hu),
         (toCar' \o Unsent') \o s
           = SubSeq(OpenAll(hu), n + 1, Len(OpenAll(hu))) \o car'.owed,
         car'.opened = OpenedBy(n), car'.set = SetUpBy(n)
  PROVE  Served'
<1>1. OpenedBy(n)' = OpenedBy(n) /\ SetUpBy(n)' = SetUpBy(n)
  BY Zenon DEF OpenedBy, SetUpBy
<1>2. Yields(toDaemon, s, hu)' <=> Yields(toDaemon', s, hu)
  BY Zenon DEF Yields
<1>3. OpenAll(hu)' = OpenAll(hu)
  BY Zenon
<1> HIDE DEF OpenedBy, SetUpBy, Yields, Skips, Unsent
<1>4. Serves(n, s)'
  BY <1>1, <1>2, <1>3, Zenon DEF Serves
<1>5. \E k \in 0..Len(OpenAll(hu)), t \in Seq(Frames) : Serves(k, t)'
  BY <1>4, Zenon
<1> QED
  BY <1>3, <1>5, Zenon DEF Served

\* What the head unit does leaves what goes out to it alone.
LEMMA UnsentKept ==
  ASSUME UNCHANGED <<daemon, outs>>
  PROVE  Unsent' = Unsent /\ (Skips' <=> Skips)
BY DEF Unsent, Skips

\* The parts of the head unit's record that a step leaves alone.
SameService ==
  /\ car'.owed = car.owed /\ car'.opened = car.opened /\ car'.set = car.set
CarElsewhere ==
  \/ car' = car
  \/ \E v : \/ car' = [car EXCEPT !.at = v]
            \/ car' = [car EXCEPT !.quiet = v]
            \/ car' = [car EXCEPT !.unexpected = v]

\* Steps elsewhere leave them alone;
LEMMA ServiceKept == CarTyped /\ CarElsewhere => SameService
<1> SUFFICES ASSUME CarTyped, CarElsewhere PROVE SameService
  OBVIOUS
<1>1. CASE car' = car
  BY <1>1 DEF SameService
<1>2. ASSUME NEW v, \/ car' = [car EXCEPT !.at = v]
                    \/ car' = [car EXCEPT !.quiet = v]
                    \/ car' = [car EXCEPT !.unexpected = v]
      PROVE  SameService
  BY <1>2 DEF SameService, CarTyped, Away
<1> QED
  BY <1>1, <1>2 DEF CarElsewhere

\* an edit of one of them leaves the others alone.
LEMMA ServiceEdits ==
  ASSUME CarTyped, NEW v
  PROVE  /\ car' = [car EXCEPT !.owed = v] =>
              car'.owed = v /\ car'.opened = car.opened /\ car'.set = car.set
         /\ car' = [car EXCEPT !.opened = @ \cup {v}] =>
              /\ car'.owed = car.owed /\ car'.opened = car.opened \cup {v}
              /\ car'.set = car.set
         /\ car' = [car EXCEPT !.set = @ \cup {v}] =>
              /\ car'.owed = car.owed /\ car'.opened = car.opened
              /\ car'.set = car.set \cup {v}
BY DEF CarTyped, Away

\* What the head unit is owed: all the same while more is set up,
LEMMA OwedKept ==
  ASSUME OwedWell, car'.owed = car.owed, car.set \subseteq car'.set
  PROVE  OwedWell'
BY DEF OwedWell, Owes

\* one answer less,
LEMMA OwedLess ==
  ASSUME OwedWell, car.owed # <<>>, car'.owed = Tail(car.owed), car'.set = car.set
  PROVE  OwedWell'
<1>1. PICK t : t = Tail(car.owed)
  OBVIOUS
<1>2. /\ t \in Seq(Frames) /\ Len(t) = Len(car.owed) - 1 /\ Len(car.owed) \in Nat
      /\ \A i \in 1..Len(t) : t[i] = car.owed[i + 1]
  BY <1>1, HeadTailProperties, LenProperties DEF OwedWell
<1>3. car'.owed = t
  BY <1>1, Zenon
<1>4. ASSUME NEW i \in 1..Len(t) PROVE Owes(t[i])'
  <2>1. i + 1 \in 1..Len(car.owed) /\ t[i] = car.owed[i + 1]
    BY <1>2
  <2>2. Owes(t[i])
    BY <2>1 DEF OwedWell
  <2> QED
    BY <2>2 DEF Owes
<1> QED
  BY <1>2, <1>3, <1>4 DEF OwedWell

\* or one more.
LEMMA OwedMore ==
  ASSUME OwedWell, NEW o \in Frames, Owes(o), car'.owed = car.owed \o <<o>>,
         car'.set = car.set
  PROVE  OwedWell'
<1>1. PICK t : t = Append(car.owed, o)
  OBVIOUS
<1>2. /\ t = car.owed \o <<o>> /\ t \in Seq(Frames) /\ Len(t) = Len(car.owed) + 1
      /\ \A i \in 1..Len(car.owed) : t[i] = car.owed[i]
      /\ t[Len(car.owed) + 1] = o /\ Len(car.owed) \in Nat
  BY <1>1, AppendProperties, AppendIsConcat, LenProperties DEF OwedWell
<1>3. car'.owed = t
  BY <1>2, Zenon
<1>4. ASSUME NEW i \in 1..Len(t) PROVE Owes(t[i])'
  <2>1. Owes(t[i])
    BY <1>2 DEF OwedWell
  <2> QED
    BY <2>1 DEF Owes
<1> QED
  BY <1>2, <1>3, <1>4 DEF OwedWell

-----------------------------------------------------------------------------
(* The head unit that does not serve yet, and how it starts                *)

\* What steps make of the record of a head unit that does not serve: it starts
\* to serve only on hearing something.
LEMMA CarMotions ==
  ASSUME HandshakeInv, Next, ~Hears, car.at # "served"
  PROVE  /\ car' = Away \/ CarElsewhere
         /\ car'.at # "served"
<1>0. ControlInv /\ CarTyped
  BY DEF HandshakeInv, ServingInv, ControlInv
<1>1. Away.at # "served"
  BY DEF Away
<1>2. ASSUME NEW v, v # "served", car' = [car EXCEPT !.at = v]
      PROVE  CarElsewhere /\ car'.at # "served"
  BY <1>0, <1>2 DEF CarElsewhere, CarTyped, Away
<1>3. CASE Rebind \/ Launch \/ DaemonStep \/ WriteIsLost
  <2>1. car' = car \/ car' = Away
    <3>1. CASE Read
      <4>1. CASE Fails
        BY <4>1 DEF Fails, Ends
      <4>2. ASSUME NEW at, NEW hs, NEW msgs, Proceed(at, hs, msgs) PROVE car' = car
        BY <4>2 DEF Proceed
      <4> QED
        BY <1>0, <3>1, <4>1, <4>2, ReadOutcome
    <3>2. CASE Exit
      BY <3>2 DEF Exit, Fails, Ends
    <3> QED
      BY <1>3, <3>1, <3>2 DEF Rebind, Launch, DaemonStep, Open, ReadFails, PreseedFails,
         HandshakeDone, Write, WriteFails, WriteIsLost, WriteError, Timeout, Ends
  <2> QED
    BY <1>1, <2>1 DEF CarElsewhere
<1>4. CASE Comes
  BY <1>2, <1>4 DEF Comes, Says
<1>5. CASE Greets
  <2>1. kind \in Kinds
    BY <1>0, Kinships DEF ControlInv, Watched
  <2>2. car' = [car EXCEPT !.at = "version"] \/ car' = [car EXCEPT !.at = "probe"]
    BY <1>5, <2>1 DEF Greets, Greeting, Says, Kinds
  <2> QED
    BY <1>2, <2>2
<1>6. CASE FallsSilent \/ Wakes
  <2>1. PICK v : car' = [car EXCEPT !.quiet = v]
    BY <1>6 DEF FallsSilent, Wakes
  <2> QED
    BY <1>0, <2>1 DEF CarElsewhere, CarTyped, Away
<1>7. CASE TalksNonsense
  <2>1. car' = [car EXCEPT !.at = car.at] \/ car' = [car EXCEPT !.at = "lost"]
    BY <1>7 DEF TalksNonsense, Says
  <2> QED
    BY <1>2, <2>1
<1>8. CASE Refuses
  BY <1>2, <1>8 DEF Refuses, Says
<1>9. CASE IsUnplugged \/ GivesUp \/ Wedges
  <2>1. car' = car \/ car' = Away
    BY <1>9 DEF IsUnplugged, GivesUp, Wedges, Leaves
  <2> QED
    BY <1>1, <2>1 DEF CarElsewhere
<1> QED
  BY <1>3, <1>4, <1>5, <1>6, <1>7, <1>8, <1>9 DEF Next, CarStep, Asks

\* A head unit that has gone has forgotten everything.
LEMMA AwayBlank == car' = Away => Blank' /\ car'.at # "served"
BY DEF Away, Blank

\* A head unit that does not serve is offered no services.
LEMMA AttendedBefore ==
  ASSUME HandshakeInv, Next, ~Hears, car.at # "served", Blank
  PROVE  Attended'
<1>1. car'.at # "served" /\ (car' = Away \/ CarElsewhere)
  BY CarMotions
<1>2. CarElsewhere => Blank'
  BY ServiceKept DEF HandshakeInv, ServingInv, ControlInv, SameService, Blank
<1> QED
  BY <1>1, <1>2, AwayBlank DEF Attended

\* It starts to serve when it hears our ServiceDiscoveryRequest and answers it
\* with its table: nothing is under way to it then, and all that the daemon has
\* to answer is that table.
LEMMA AttendedHearing ==
  ASSUME HandshakeInv, Hears, car.at # "served", Blank
  PROVE  Attended'
<1>0. ControlInv /\ CarTyped /\ UNCHANGED <<hu, daemon, outs>> /\ toDaemon \in Seq(Frames)
      /\ ~car.unexpected /\ toCar # <<>> /\ toCar' = Tail(toCar)
  BY DEF HandshakeInv, ServingInv, ControlInv, Hears, Speaking, Understood, HandshakeUnderstood,
     Heard
<1> DEFINE m == Head(toCar)
<1>1. CASE Placed(m) = {}
  <2>1. car' = [car EXCEPT !.unexpected = TRUE]
    BY <1>1 DEF Hears
  <2>2. car'.at # "served" /\ CarElsewhere
    BY <1>0, <2>1 DEF CarElsewhere, CarTyped, Away
  <2> QED
    BY <1>0, <2>2, ServiceKept DEF Attended, SameService, Blank
<1>2. CASE Placed(m) # {} /\ car.at = "lost"
  <2>1. car' = car
    <3>1. PICK p \in Placed(m) : car' = p[1]
      BY <1>2 DEF Hears
    <3>2. p = <<car, <<>>>>
      BY <1>2, <3>1 DEF Placed
    <3> QED
      BY <3>1, <3>2
  <2> QED
    BY <1>2, <2>1 DEF Attended, Blank
<1>3. CASE Placed(m) # {} /\ car.at # "lost"
  <2>1. PICK p \in Placed(m) : car' = p[1] /\ toDaemon' = toDaemon \o p[2]
    BY <1>3 DEF Hears
  <2>2. PICK a \in Answered(m) : p = <<[car EXCEPT !.at = a[1]], a[2]>>
    BY <1>3, <2>1 DEF Placed
  <2>3. car' = [car EXCEPT !.at = a[1]] /\ toDaemon' = toDaemon \o a[2]
    BY <2>1, <2>2
  <2>4. car'.at = a[1] /\ car'.unexpected = car.unexpected /\ SameService
    BY <1>0, <2>3, ServiceKept DEF CarElsewhere, CarTyped, Away
  <2>5. CASE a[1] # "served"
    BY <2>4, <2>5 DEF Attended, SameService, Blank
  <2>6. CASE a[1] = "served"
    <3>1. car.at = "auth" /\ a[2] = <<Message(Control, ServiceDiscoveryResponse, Ok)>>
      <4> HIDE DEF Tls, Message, m
      <4> QED
        BY <2>6, AnsweredCases
    <3>2. m.id = ServiceDiscoveryRequest
      <4>1. a \in Answered(m)
        OBVIOUS
      <4> HIDE DEF Tls, Message, m
      <4> QED
        BY <2>6, <4>1, AnsweredCases
    <3>3. Going
      <4>1. ~Fresh
        BY <3>1 DEF HandshakeInv, Understood, InStep, Unread
      <4>2. Live
        BY <1>0, <3>1, <4>1 DEF HandshakeInv, Understood, InStep, Leftover
      <4> QED
        BY <3>1, <4>2 DEF HandshakeInv, Understood, InStep
    <3>4. AwaitsServices
      BY <1>0, <3>1, <3>3
         DEF Going, AwaitsHello, AwaitsFinished, AwaitsComplete, HasServices, FlowNone
    <3>5. FlowNone'
      BY <1>0, <3>4, FlowHear DEF AwaitsServices
    <3>6. Yields(toDaemon, <<>>, hu) /\ ~Skips
      BY <3>4, PingsYield DEF AwaitsServices
    <3>7. PICK A \in Seq(Frames) : A = OpenAll(hu)
      BY <1>0, TableFrames
    <3>8. PICK r \in Frames : r = Message(Control, ServiceDiscoveryResponse, Ok)
      BY Arguments, Ids
    <3>9. Answers(r, hu) = A
      BY <3>7, <3>8, ControlAnswered
    <3>10. toDaemon' = toDaemon \o <<r>>
      BY <2>3, <3>1, <3>8
    <3>11. Yields(toDaemon', A, hu)
      <4>1. Yields(toDaemon \o <<r>>, <<>> \o A, hu)
        BY <1>0, <3>6, <3>9, YieldsMore
      <4>2. <<>> \o A = A
        BY ConcatEmptySeq
      <4> QED
        BY <3>10, <4>1, <4>2, Zenon
    <3>12. toDaemon' \in Seq(Frames)
      <4>1. <<r>> \in Seq(Frames)
        OBVIOUS
      <4> QED
        BY <1>0, <3>10, <4>1, ConcatProperties
    <3>13. toCar' = <<>> /\ outs' = <<>> /\ toCar' \in Seq(Frames) /\ outs' \in Seq(Frames)
           /\ Unsent' = <<>>
      <4>1. Unsent' = Unsent
        BY <1>0, UnsentKept
      <4>2. toCar' = <<>> /\ outs' = <<>>
        BY <3>5 DEF FlowNone
      <4>3. Unsent = <<>>
        BY <1>0, <3>6, <4>2 DEF Unsent
      <4> QED
        BY <4>1, <4>2, <4>3
    <3>14. (toCar' \o Unsent') \o A = SubSeq(A, 0 + 1, Len(A)) \o <<>>
      <4>1. (<<>> \o <<>>) \o A = A
        <5>1. <<>> \o <<>> = <<>> /\ <<>> \o A = A
          BY ConcatEmptySeq
        <5> QED
          BY <5>1, Zenon
      <4>2. SubSeq(A, 0 + 1, Len(A)) \o <<>> = A
        BY LeftAll
      <4> QED
        BY <3>13, <4>1, <4>2, Zenon
    <3>15. car'.owed = <<>> /\ car'.opened = OpenedBy(0) /\ car'.set = SetUpBy(0)
      BY <2>4 DEF SameService, Blank, OpenedBy, SetUpBy
    <3>16. OwedWell'
      BY <3>15 DEF OwedWell
    <3>17. ~car'.unexpected /\ 0 \in 0..Len(OpenAll(hu))
      BY <1>0, <2>4, TableFrames
    <3>18. Served'
      BY <1>0, <3>7, <3>11, <3>12, <3>13, <3>14, <3>15, <3>16, <3>17, ServedThen
    <3> QED
      BY <2>4, <2>6, <3>18 DEF Attended
  <2> QED
    BY <2>5, <2>6
<1> QED
  BY <1>1, <1>2, <1>3

-----------------------------------------------------------------------------
(* The steps of a head unit that serves                                    *)

\* While the loop serves a head unit, it reads and writes, and the head unit
\* listens, asks, falls silent, talks nonsense or leaves; nothing else happens.
LEMMA ServedMotions ==
  ASSUME HandshakeInv, Next, car.at = "served"
  PROVE  \/ Ready /\ Handle
         \/ Write \/ Hears \/ Asks \/ FallsSilent \/ Wakes \/ TalksNonsense
         \/ Misses /\ UNCHANGED hu
         \/ car' = Away
<1>1. daemon.at = "loop" /\ ~daemon.broken /\ watchdog = "runs" /\ outs \in Seq(Replying)
  BY ServedLive DEF Live, HandshakeInv, ServingInv, ControlInv, Watched
<1>2. CASE Rebind \/ Launch \/ Wedges \/ Comes \/ Greets \/ Refuses
  BY <1>1, <1>2 DEF Rebind, Launch, Wedges, Comes, Greets, Refuses
<1>3. CASE Open \/ ReadFails \/ PreseedFails \/ HandshakeDone \/ WriteFails \/ Timeout \/ Exit
  BY <1>1, <1>3 DEF Open, ReadFails, PreseedFails, HandshakeDone, WriteFails, Timeout, Exit
<1>4. CASE Read
  BY <1>1, <1>4 DEF Read
<1>5. CASE IsUnplugged \/ GivesUp
  BY <1>5 DEF IsUnplugged, GivesUp, Leaves
<1>6. CASE WriteIsLost
  <2>1. Head(outs).id # ServiceDiscoveryRequest
    <3>1. outs # <<>>
      BY <1>6 DEF WriteIsLost
    <3>2. Head(outs) \in Replying
      BY <1>1, <3>1
    <3> QED
      BY <3>2 DEF Replying
  <2> QED
    BY <1>1, <1>6, <2>1 DEF WriteIsLost, WriteError, Misses
<1> QED
  BY <1>2, <1>3, <1>4, <1>5, <1>6 DEF Next, DaemonStep, CarStep

\* Steps that change nothing of what is under way.
LEMMA AttendedQuiet ==
  ASSUME HandshakeInv, Served, UNCHANGED <<hu, toCar, outs, toDaemon, daemon>>, CarElsewhere,
         ~car'.unexpected
  PROVE  Served'
<1>1. PICK n \in 0..Len(OpenAll(hu)), s \in Seq(Frames) : Serves(n, s)
  BY Zenon DEF Served
<1>2. SameService
  BY ServiceKept DEF HandshakeInv, ServingInv, ControlInv
<1>3. OwedWell'
  BY <1>2, OwedKept DEF Served, SameService
<1>4. Unsent' = Unsent /\ (Skips' <=> Skips)
  BY UnsentKept
<1> QED
  BY <1>1, <1>2, <1>3, <1>4, ServedThen DEF Serves, SameService

\* A message that the loop reads is answered as expected,
LEMMA AttendedHandle ==
  ASSUME HandshakeInv, Served, Ready, Handle, UNCHANGED hu
  PROVE  Served'
<1>1. PICK n \in 0..Len(OpenAll(hu)), s \in Seq(Frames) : Serves(n, s)
  BY Zenon DEF Served
<1>2. /\ toDaemon' = Tail(toDaemon) /\ outs' = Answers(Head(toDaemon), hu)
      /\ UNCHANGED <<toCar, car>> /\ outs = <<>> /\ toDaemon # <<>>
  BY DEF Ready, Reading, Handle, Proceed, Frame
<1>3. /\ toDaemon \in Seq(Frames) /\ toCar \in Seq(Frames)
      /\ ~Skips => Yields(toDaemon, s, hu)
  BY <1>1 DEF Serves
<1>4. outs' \in Seq(Frames) /\ (Skips' <=> Skips) /\ Unsent = <<>>
  <2>1. Frame \in Frames /\ hu \in DOMAIN Tables
    BY <1>2, <1>3, Kinships
       DEF HandshakeInv, ServingInv, ControlInv, Watched, Frame
  <2>2. outs' \in Seq(Replying)
    BY <1>2, <2>1, AnswersReply DEF Frame
  <2>3. Skips' <=> Skips
    BY DEF Handle, Proceed, Skips, HandshakeInv, ServingInv, ControlInv, Daemons
  <2>4. Unsent = <<>>
    BY <1>2 DEF Unsent
  <2> QED
    BY <2>2, <2>3, <2>4 DEF Replying
<1>5. PICK r \in Seq(Frames) : s = Unsent' \o r /\ (Skips' \/ Yields(toDaemon', r, hu))
  <2>1. CASE Skips
    <3>1. Unsent' = <<>> /\ s = <<>> \o s
      BY <1>4, <2>1, ConcatEmptySeq DEF Unsent
    <3> QED
      BY <1>4, <2>1, <3>1, Zenon
  <2>2. CASE ~Skips
    <3>1. \E r \in Seq(Frames) : s = outs' \o r /\ Yields(toDaemon', r, hu)
      BY <1>2, <1>3, <2>2, YieldsLess
    <3>2. Unsent' = outs'
      BY <1>4, <2>2 DEF Unsent
    <3> QED
      BY <3>1, <3>2, Zenon
  <2> QED
    BY <2>1, <2>2
<1>6. (toCar' \o Unsent') \o r = (toCar \o Unsent) \o s
  <2>1. toCar \o Unsent = toCar
    BY <1>3, <1>4, ConcatEmptySeq
  <2>2. PICK o \in Seq(Frames) : o = Unsent'
    <3>1. Unsent' \in Seq(Frames)
      BY <1>4 DEF Unsent
    <3> QED
      BY <3>1
  <2>3. toCar \in Seq(Frames)
    BY <1>3
  <2>4. \A z \in Seq(Frames) : (toCar \o o) \o z = toCar \o (o \o z)
    BY <2>3, FramesJoined, Zenon
  <2> QED
    BY <1>2, <1>5, <2>1, <2>2, <2>4, Zenon
<1>7. toDaemon' \in Seq(Frames)
  BY <1>2, <1>3, HeadTailProperties
<1>8. OwedWell'
  BY <1>2, OwedKept DEF Served
<1>9. (toCar' \o Unsent') \o r = SubSeq(OpenAll(hu), n + 1, Len(OpenAll(hu))) \o car'.owed
  BY <1>1, <1>2, <1>6, Zenon DEF Serves
<1> QED
  BY <1>1, <1>2, <1>4, <1>5, <1>7, <1>8, <1>9, ServedThen DEF Serves, Served

\* goes out in this order,
LEMMA AttendedWrite ==
  ASSUME HandshakeInv, Served, Write
  PROVE  Served'
<1>1. PICK n \in 0..Len(OpenAll(hu)), s \in Seq(Frames) : Serves(n, s)
  BY Zenon DEF Served
<1>2. /\ outs' = Tail(outs) /\ outs # <<>> /\ UNCHANGED <<hu, car, toDaemon>>
      /\ IF Skips
         THEN daemon' = [daemon EXCEPT !.sends = "garbled"] /\ UNCHANGED toCar
         ELSE toCar' = Append(toCar, Head(outs)) /\ UNCHANGED daemon
  BY DEF Write, Skips
<1>3. toCar \in Seq(Frames) /\ outs \in Seq(Frames)
  BY <1>1 DEF Serves
<1>4. PICK x \in Frames, o \in Seq(Frames) :
        x = Head(outs) /\ o = Tail(outs) /\ outs = <<x>> \o o
  <2>1. Head(outs) \in Frames /\ Tail(outs) \in Seq(Frames)
    BY <1>2, <1>3, HeadTailProperties
  <2>2. outs = <<Head(outs)>> \o Tail(outs)
    BY <1>2, <1>3
  <2> QED
    BY <2>1, <2>2
<1>5. <<x>> \in Seq(Frames)
  OBVIOUS
<1>6. Skips' <=> Skips
  <2>1. daemon \in Daemons
    BY DEF HandshakeInv, ServingInv, ControlInv
  <2> QED
    BY <1>2, <2>1 DEF Skips, Daemons
<1>7. toCar' \o Unsent' = toCar \o Unsent /\ toCar' \in Seq(Frames)
  <2>1. CASE Skips
    BY <1>2, <1>3, <1>6, <2>1 DEF Unsent
  <2>2. CASE ~Skips
    <3>1. toCar' = toCar \o <<x>> /\ toCar' \in Seq(Frames)
      <4>1. toCar' = Append(toCar, x)
        BY <1>2, <1>4, <2>2
      <4> QED
        BY <1>3, <4>1, AppendIsConcat, AppendProperties
    <3>2. \A z \in Seq(Frames) : (toCar \o <<x>>) \o z = toCar \o (<<x>> \o z)
      BY <1>3, <1>5, FramesJoined, Zenon
    <3>3. Unsent = outs /\ Unsent' = outs'
      BY <1>6, <2>2 DEF Unsent
    <3> QED
      BY <1>2, <1>4, <3>1, <3>2, <3>3, Zenon
  <2> QED
    BY <2>1, <2>2
<1>8. OwedWell'
  BY <1>2, OwedKept DEF Served
<1>9. (toCar' \o Unsent') \o s = SubSeq(OpenAll(hu), n + 1, Len(OpenAll(hu))) \o car'.owed
  BY <1>1, <1>2, <1>7, Zenon DEF Serves
<1>10. outs' \in Seq(Frames)
  BY <1>2, <1>4
<1> QED
  BY <1>1, <1>2, <1>6, <1>7, <1>8, <1>9, <1>10, ServedThen DEF Serves, Served

\* or is dropped behind a write that fails: it will miss that as well.
LEMMA AttendedMisses ==
  ASSUME HandshakeInv, Served, Misses, UNCHANGED hu
  PROVE  Served'
<1>1. PICK n \in 0..Len(OpenAll(hu)), s \in Seq(Frames) : Serves(n, s)
  BY Zenon DEF Served
<1>2. outs' = <<>> /\ UNCHANGED <<toCar, toDaemon, car>> /\ Skips'
  BY DaemonMisses DEF Misses, link, HandshakeInv, ServingInv, ControlInv
<1>3. Unsent' = <<>>
  BY <1>2 DEF Unsent
<1>4. /\ toDaemon \in Seq(Frames) /\ toCar \in Seq(Frames) /\ outs \in Seq(Frames)
      /\ (toCar \o Unsent) \o s
           = SubSeq(OpenAll(hu), n + 1, Len(OpenAll(hu))) \o car.owed
      /\ car.opened = OpenedBy(n) /\ car.set = SetUpBy(n)
  BY <1>1 DEF Serves
<1>5. PICK u \in Seq(Frames) : u = Unsent
  <2>1. Unsent \in Seq(Frames)
    BY <1>4 DEF Unsent
  <2> QED
    BY <2>1
<1>6. PICK q \in Seq(Frames) : q = u \o s
  BY ConcatProperties
<1>7. (toCar' \o Unsent') \o q = (toCar \o Unsent) \o s
  <2>1. \A z \in Seq(Frames) : (toCar \o u) \o z = toCar \o (u \o z)
    BY <1>4, FramesJoined, Zenon
  <2>2. toCar' \o <<>> = toCar
    BY <1>2, <1>4, ConcatEmptySeq
  <2> QED
    BY <1>3, <1>5, <1>6, <2>1, <2>2, Zenon
<1>8. (toCar' \o Unsent') \o q = SubSeq(OpenAll(hu), n + 1, Len(OpenAll(hu))) \o car'.owed
  BY <1>2, <1>4, <1>7, Zenon
<1>9. OwedWell' /\ <<>> \in Seq(Frames)
  BY <1>2, OwedKept DEF Served
<1> QED
  BY <1>2, <1>4, <1>8, <1>9, ServedThen DEF Served

\* A request adds its answer to what is to come and to what is owed.
LEMMA AttendedAsks ==
  ASSUME HandshakeInv, Served, Asks
  PROVE  Served'
<1>0. ControlInv /\ CarTyped /\ ~car.unexpected
  BY DEF HandshakeInv, ServingInv, ControlInv, Served
<1>1. PICK n \in 0..Len(OpenAll(hu)), s \in Seq(Frames) : Serves(n, s)
  BY Zenon DEF Served
<1>2. PICK r \in Requests :
        /\ toDaemon' = Append(toDaemon, r[1])
        /\ car' = [car EXCEPT !.owed = @ \o r[2]]
  BY DEF Asks
<1>3. UNCHANGED <<hu, toCar, outs>> /\ Unsent' = Unsent /\ (Skips' <=> Skips)
  BY UnsentKept DEF Asks, Speaking
<1>4. toDaemon \in Seq(Frames) /\ toCar \in Seq(Frames) /\ outs \in Seq(Frames)
      /\ car.owed \in Seq(Frames) /\ OwedWell
  BY <1>1 DEF Serves, Served, OwedWell
<1>5. PICK m \in Frames : m = r[1]
  BY <1>0, RequestFrames
<1>6. toDaemon' = toDaemon \o <<m>> /\ toDaemon' \in Seq(Frames)
  BY <1>2, <1>4, <1>5, AppendIsConcat, AppendProperties
<1>7. PICK a \in Seq(Frames) : a = r[2] /\ Answers(m, hu) = a
  <2>1. r[2] \in Seq(Frames)
    <3>1. <<>> \in Seq(Frames) /\ \A o \in Frames : <<o>> \in Seq(Frames)
      OBVIOUS
    <3> QED
      BY <1>0, <3>1, RequestAnswered, Zenon
  <2> QED
    BY <1>0, <1>5, <2>1, RequestAnswered, Zenon
<1>8. ~Skips => Yields(toDaemon', s \o a, hu)
  BY <1>1, <1>4, <1>6, <1>7, YieldsMore DEF Serves
<1>9. car'.owed = car.owed \o a /\ car'.opened = car.opened /\ car'.set = car.set
  BY <1>0, <1>2, <1>7, ServiceEdits
<1>10. ~car'.unexpected
  BY <1>0, <1>2 DEF CarTyped, Away
<1>11. OwedWell'
  <2>1. CASE a = <<>>
    <3>1. car'.owed = car.owed
      BY <1>4, <1>9, <2>1, ConcatEmptySeq
    <3> QED
      BY <1>4, <1>9, <3>1, OwedKept
  <2>2. CASE \E o \in Frames : a = <<o>> /\ Owes(o)
    BY <1>4, <1>9, <2>2, OwedMore
  <2> QED
    BY <1>0, <1>7, <2>1, <2>2, RequestAnswered
<1>12. (toCar' \o Unsent') \o (s \o a)
         = SubSeq(OpenAll(hu), n + 1, Len(OpenAll(hu))) \o car'.owed
  <2>1. PICK u \in Seq(Frames) : u = toCar \o Unsent
    <3>1. Unsent \in Seq(Frames)
      BY <1>4 DEF Unsent
    <3> QED
      BY <1>4, <3>1, ConcatProperties
  <2>2. PICK l \in Seq(Frames) : l = SubSeq(OpenAll(hu), n + 1, Len(OpenAll(hu)))
    <3>1. OpenAll(hu) \in Seq(Frames) /\ Len(OpenAll(hu)) \in Nat
      BY <1>0, TableFrames
    <3>2. \A i \in n + 1..Len(OpenAll(hu)) : OpenAll(hu)[i] \in Frames
      BY <3>1, ElementOfSeq
    <3>3. n + 1 \in Int /\ Len(OpenAll(hu)) \in Int
      BY <3>1
    <3> QED
      BY <3>2, <3>3, SubSeqProperties
  <2>3. u \o s = l \o car.owed
    BY <1>1, <2>1, <2>2, Zenon DEF Serves
  <2>4. u \o (s \o a) = (u \o s) \o a /\ (l \o car.owed) \o a = l \o (car.owed \o a)
    <3>1. \A z \in Seq(Frames) : (u \o s) \o z = u \o (s \o z)
      BY FramesJoined, Zenon
    <3>2. PICK w \in Seq(Frames) : w = car.owed
      BY <1>4
    <3>3. \A z \in Seq(Frames) : (l \o w) \o z = l \o (w \o z)
      BY FramesJoined, Zenon
    <3> QED
      BY <3>1, <3>2, <3>3, Zenon
  <2> QED
    BY <1>3, <1>9, <2>1, <2>2, <2>3, <2>4, Zenon
<1>13. s \o a \in Seq(Frames)
  BY ConcatProperties
<1> QED
  BY <1>1, <1>3, <1>4, <1>6, <1>8, <1>9, <1>10, <1>11, <1>12, <1>13, ServedThen DEF Serves

\* A ping of no use adds nothing.
LEMMA AttendedNonsense ==
  ASSUME HandshakeInv, Served, TalksNonsense, car.at = "served"
  PROVE  Served'
<1>0. ControlInv /\ CarTyped /\ ~car.unexpected
  BY DEF HandshakeInv, ServingInv, ControlInv, Served
<1>1. PICK n \in 0..Len(OpenAll(hu)), s \in Seq(Frames) : Serves(n, s)
  BY Zenon DEF Served
<1>2. /\ UNCHANGED <<hu, toCar, outs>> /\ car' = [car EXCEPT !.at = car.at]
      /\ toDaemon' = toDaemon \o <<Ping>> /\ Unsent' = Unsent /\ (Skips' <=> Skips)
  BY UnsentKept DEF TalksNonsense, Speaking, Says, Ping
<1>3. SameService /\ ~car'.unexpected
  <2>1. CarElsewhere
    BY <1>2 DEF CarElsewhere
  <2> QED
    BY <1>0, <1>2, <2>1, ServiceKept DEF CarTyped, Away
<1>4. toDaemon \in Seq(Frames) /\ <<>> \in Seq(Frames)
  BY <1>1 DEF Serves
<1>5. PICK m \in Frames : m = Ping
  BY Named
<1>6. ~Skips => Yields(toDaemon \o <<m>>, s \o <<>>, hu)
  BY <1>1, <1>4, <1>5, PingUnanswered, YieldsMore DEF Serves
<1>7. s \o <<>> = s
  BY ConcatEmptySeq
<1>8. ~Skips => Yields(toDaemon', s, hu)
  BY <1>2, <1>5, <1>6, <1>7, Zenon
<1>9. toDaemon' \in Seq(Frames)
  <2>1. <<m>> \in Seq(Frames)
    OBVIOUS
  <2> QED
    BY <1>2, <1>4, <1>5, <2>1, ConcatProperties
<1>10. OwedWell'
  BY <1>3, OwedKept DEF Served, SameService
<1> QED
  BY <1>1, <1>2, <1>3, <1>8, <1>9, <1>10, ServedThen DEF Serves, SameService

-----------------------------------------------------------------------------
(* What it hears                                                           *)

\* What the head unit hears next: the rest of the answer to its table as long as
\* there is some, and then what it is owed.
LEMMA HeardNext ==
  ASSUME HandshakeInv, NEW n \in 0..Len(OpenAll(hu)), NEW s \in Seq(Frames), Serves(n, s),
         OwedWell, toCar # <<>>
  PROVE  /\ Tail(toCar) \in Seq(Frames)
         /\ n < Len(OpenAll(hu)) =>
              /\ Head(toCar) = OpenAll(hu)[n + 1]
              /\ (Tail(toCar) \o Unsent) \o s
                   = SubSeq(OpenAll(hu), (n + 1) + 1, Len(OpenAll(hu))) \o car.owed
         /\ n = Len(OpenAll(hu)) =>
              /\ car.owed # <<>> /\ Head(toCar) = Head(car.owed)
              /\ (Tail(toCar) \o Unsent) \o s
                   = SubSeq(OpenAll(hu), n + 1, Len(OpenAll(hu))) \o Tail(car.owed)
<1>0. ControlInv
  BY DEF HandshakeInv, ServingInv
<1>1. PICK A \in Seq(Frames) : A = OpenAll(hu)
  BY <1>0, TableFrames
<1>2. PICK w \in Seq(Frames) : w = car.owed
  BY DEF OwedWell
<1>3. toCar \in Seq(Frames) /\ Unsent \in Seq(Frames)
      /\ (toCar \o Unsent) \o s = SubSeq(A, n + 1, Len(A)) \o w
  <2>1. Unsent \in Seq(Frames)
    BY DEF Serves, Unsent
  <2> QED
    BY <1>1, <1>2, <2>1 DEF Serves
<1>4. /\ toCar \o Unsent \in Seq(Frames) /\ toCar \o Unsent # <<>>
      /\ Head(toCar \o Unsent) = Head(toCar)
      /\ Tail(toCar \o Unsent) = Tail(toCar) \o Unsent
  BY <1>3, HeadTailJoined, Zenon
<1>5. PICK u \in Seq(Frames) : u = toCar \o Unsent
  BY <1>4
<1>6. /\ u # <<>> /\ Head(u) = Head(toCar) /\ Tail(u) = Tail(toCar) \o Unsent
      /\ u \o s = SubSeq(A, n + 1, Len(A)) \o w
  BY <1>3, <1>4, <1>5, Zenon
<1>7. u \o s # <<>> /\ Head(u \o s) = Head(u) /\ Tail(u \o s) = Tail(u) \o s
  BY <1>6, HeadTailJoined, Zenon
<1>8. n \in 0..Len(A) /\ Len(A) \in Nat
  BY <1>1, LenProperties
<1>9. Tail(toCar) \in Seq(Frames)
  BY <1>3, HeadTailProperties
<1>10. ASSUME n < Len(A)
       PROVE  Head(toCar) = A[n + 1]
              /\ (Tail(toCar) \o Unsent) \o s = SubSeq(A, (n + 1) + 1, Len(A)) \o w
  <2>1. /\ Head(SubSeq(A, n + 1, Len(A)) \o w) = A[n + 1]
        /\ Tail(SubSeq(A, n + 1, Len(A)) \o w) = SubSeq(A, (n + 1) + 1, Len(A)) \o w
    BY <1>8, <1>10, LeftFrom
  <2> QED
    BY <1>6, <1>7, <2>1, Zenon
<1>11. ASSUME n = Len(A)
       PROVE  w # <<>> /\ Head(toCar) = Head(w)
              /\ (Tail(toCar) \o Unsent) \o s = SubSeq(A, n + 1, Len(A)) \o Tail(w)
  <2>1. SubSeq(A, n + 1, Len(A)) \o w = w
    BY <1>11, LeftNone
  <2>2. w # <<>> /\ Head(toCar) = Head(w) /\ (Tail(toCar) \o Unsent) \o s = Tail(w)
    BY <1>6, <1>7, <2>1, Zenon
  <2>3. Tail(w) \in Seq(Frames)
    BY <2>2, HeadTailProperties
  <2>4. SubSeq(A, n + 1, Len(A)) \o Tail(w) = Tail(w)
    BY <1>11, <2>3, LeftNone
  <2> QED
    BY <2>2, <2>4, Zenon
<1> QED
  BY <1>1, <1>2, <1>9, <1>10, <1>11, Zenon

\* No answer it is owed looks like the next message of the answer to its table.
LEMMA OwedApart ==
  ASSUME HandshakeInv, OwedWell, NEW n \in Nat, n < Len(OpenAll(hu)), car.set = SetUpBy(n),
         car.opened = OpenedBy(n), NEW m, m = OpenAll(hu)[n + 1], car.owed # <<>>
  PROVE  m # Head(car.owed)
<1>0. ControlInv /\ CarTyped
  BY DEF HandshakeInv, ServingInv, ControlInv
<1>1. PICK o : o = Head(car.owed) /\ Owes(o)
  <2>1. Head(car.owed) = car.owed[1] /\ 1 \in 1..Len(car.owed)
    BY EmptySeq DEF OwedWell
  <2> QED
    BY <2>1 DEF OwedWell
<1>2. SUFFICES ASSUME m = o PROVE FALSE
  BY <1>1
<1>3. \A ch, id, arg : Message(ch, id, arg).ch = ch /\ Message(ch, id, arg).id = id
  BY DEF Message
<1> DEFINE Due == {PingResponse, AudioFocusResponse, NavigationFocusResponse,
                   ChannelOpenResponse, ShutdownResponse}
<1>4. BatteryStatus \notin Due /\ CallAvailability \notin Due /\ ChannelOpenRequest \notin Due
  BY DEF BatteryStatus, CallAvailability, ChannelOpenRequest, PingResponse, AudioFocusResponse,
     NavigationFocusResponse, ChannelOpenResponse, ShutdownResponse
<1>5. Control \notin SetUpBy(n) \/ m.ch # Control \/ n >= 2
  <2>1. n < 2 => 3..n = {}
    OBVIOUS
  <2> QED
    BY <2>1 DEF SetUpBy
<1>6. o.ch \in SetUpBy(n) \/ (o.ch = Control /\ o.id \in Due)
  BY <1>1 DEF Owes
<1> HIDE DEF Message, Due
<1>7. CASE m.ch = Control /\ m.id \in {BatteryStatus, CallAvailability} /\ n < 2
  BY <1>2, <1>4, <1>5, <1>6, <1>7
<1>8. CASE (\E d \in ToSet(Table) : Offers(d) /\ m = OpeningOf(d)) /\ m.ch \notin OpenedBy(n)
  <2>1. m.id = ChannelOpenRequest
    BY <1>3, <1>8 DEF OpeningOf
  <2>2. SetUpBy(n) \subseteq OpenedBy(n)
    BY <1>0 DEF CarTyped
  <2> QED
    BY <1>2, <1>4, <1>6, <1>8, <2>1, <2>2
<1>9. CASE /\ \E d \in ToSet(Table) : \E a \in Awaits(d.service) :
                 m = Message(d.id, a.id, a.arg)
           /\ m.ch \notin SetUpBy(n)
  <2>0. PICK d \in ToSet(Table) : \E a \in Awaits(d.service) : m = Message(d.id, a.id, a.arg)
    BY <1>9
  <2>1. PICK a \in Awaits(d.service) : m = Message(d.id, a.id, a.arg)
    BY <2>0
  <2>2. a.id \notin Due
    BY OwedIds DEF Due
  <2>3. m.id = a.id
    BY <1>3, <2>1
  <2> QED
    BY <1>2, <1>6, <1>9, <2>2, <2>3
<1> QED
  BY <1>0, <1>7, <1>8, <1>9, TableStep

\* What gets no answer is a message or none,
LEMMA QuietSeq ==
  ASSUME NEW q \in Seq(Frames), NEW msgs, Quiet(msgs)
  PROVE  q \o msgs \in Seq(Frames)
<1>1. \A y \in Frames : <<y>> \in Seq(Frames)
  OBVIOUS
<1> QED
  BY <1>1, ConcatProperties, ConcatEmptySeq DEF Quiet

\* and saying it, the head unit is still served the same.
LEMMA QuietYields ==
  ASSUME NEW q \in Seq(Frames), NEW s \in Seq(Frames), Yields(q, s, hu), NEW msgs, Quiet(msgs)
  PROVE  Yields(q \o msgs, s, hu)
<1>1. CASE msgs = <<>>
  <2>1. q \o msgs = q
    BY <1>1, ConcatEmptySeq
  <2> QED
    BY <2>1
<1>2. CASE \E y \in Frames : msgs = <<y>> /\ Answers(y, hu) = <<>>
  <2>1. PICK y \in Frames : msgs = <<y>> /\ Answers(y, hu) = <<>>
    BY <1>2
  <2>2. <<y>> \in Seq(Frames) /\ <<>> \in Seq(Frames)
    OBVIOUS
  <2>3. Yields(q \o <<y>>, s \o <<>>, hu)
    BY <2>1, <2>2, YieldsMore
  <2>4. s \o <<>> = s
    BY ConcatEmptySeq
  <2> QED
    BY <2>1, <2>3, <2>4, Zenon
<1> QED
  BY <1>1, <1>2 DEF Quiet

\* The next message of the answer to the table is placed: the message about the
\* phone, the open of a closed channel, or the setup of an open one.
LEMMA PlacesTable ==
  ASSUME HandshakeInv, car.at = "served", OwedWell, NEW n \in Nat, n < Len(OpenAll(hu)),
         car.set = SetUpBy(n), car.opened = OpenedBy(n), NEW m, m = OpenAll(hu)[n + 1]
  PROVE  /\ Placed(m) # {}
         /\ \A p \in Placed(m) : car' = p[1] =>
              /\ car'.owed = car.owed /\ car'.opened = OpenedBy(n + 1)
              /\ car'.set = SetUpBy(n + 1) /\ car'.unexpected = car.unexpected
              /\ Quiet(p[2])
<1>0. ControlInv /\ CarTyped
  BY DEF HandshakeInv, ServingInv, ControlInv
<1>1. ~(car.owed # <<>> /\ m = Head(car.owed))
  BY OwedApart
<1>2. \A ch, id, arg : /\ Message(ch, id, arg).ch = ch /\ Message(ch, id, arg).id = id
                       /\ Message(ch, id, arg).arg = arg
  BY DEF Message
<1>3. ChannelOpenRequest \notin {BatteryStatus, CallAvailability}
  BY DEF ChannelOpenRequest, BatteryStatus, CallAvailability
<1> HIDE DEF Message
<1>4. CASE /\ m.ch = Control /\ m.id \in {BatteryStatus, CallAvailability}
           /\ OpenedBy(n + 1) = OpenedBy(n) /\ SetUpBy(n + 1) = SetUpBy(n)
  <2>1. Placed(m) = {<<car, <<>>>>}
    BY <1>1, <1>4, Zenon DEF Placed
  <2> QED
    BY <1>4, <2>1 DEF Quiet
<1>5. CASE /\ \E d \in ToSet(Table) : Offers(d) /\ m = OpeningOf(d)
           /\ m.ch \notin OpenedBy(n)
           /\ OpenedBy(n + 1) = OpenedBy(n) \cup {m.ch} /\ SetUpBy(n + 1) = SetUpBy(n)
  <2>1. PICK d \in ToSet(Table) : Offers(d) /\ m = OpeningOf(d)
    BY <1>5
  <2>2. m.ch = d.id /\ m.id = ChannelOpenRequest /\ m.arg = m.ch
    BY <1>2, <2>1 DEF OpeningOf
  <2>3. Placed(m) = OpenPlaced(m)
    BY <1>1, <1>3, <1>5, <2>2, Zenon DEF Placed
  <2>4. OpenPlaced(m) # {}
    <3>1. d.service \in ServicesAt(m.ch) \ {"vendor", "none"}
      BY <2>1, <2>2 DEF ServicesAt, Offers
    <3> QED
      BY <3>1 DEF OpenPlaced
  <2>5. ASSUME NEW p \in OpenPlaced(m), car' = p[1]
        PROVE  /\ car'.owed = car.owed /\ car'.opened = OpenedBy(n + 1)
               /\ car'.set = SetUpBy(n + 1) /\ car'.unexpected = car.unexpected
               /\ Quiet(p[2])
    <3>1. car' = [car EXCEPT !.opened = @ \cup {m.ch}] /\ Quiet(p[2])
      BY <1>0, <2>5, OpenAnswered
    <3>2. car'.unexpected = car.unexpected
      BY <1>0, <3>1 DEF CarTyped, Away
    <3> QED
      BY <1>0, <1>5, <3>1, <3>2, ServiceEdits
  <2> QED
    BY <2>3, <2>4, <2>5
<1>6. CASE /\ \E d \in ToSet(Table) : \E a \in Awaits(d.service) :
                 m = Message(d.id, a.id, a.arg)
           /\ m.id # ChannelOpenRequest
           /\ m.ch \in OpenedBy(n) \ SetUpBy(n)
           /\ OpenedBy(n + 1) = OpenedBy(n) /\ SetUpBy(n + 1) = SetUpBy(n) \cup {m.ch}
  <2>0. PICK d \in ToSet(Table) : \E a \in Awaits(d.service) : m = Message(d.id, a.id, a.arg)
    BY <1>6
  <2>1. PICK a \in Awaits(d.service) : m = Message(d.id, a.id, a.arg)
    BY <2>0
  <2>2. m.ch = d.id /\ m.id = a.id /\ m.arg = a.arg
    BY <1>2, <2>1
  <2>3. m.id \notin {BatteryStatus, CallAvailability}
    BY <2>2, OwedIds
  <2>4. Placed(m) = SetupPlaced(m)
    BY <1>1, <1>6, <2>3, Zenon DEF Placed
  <2>5. SetupPlaced(m) # {}
    <3>1. d.service \in ServicesAt(m.ch)
      BY <2>2 DEF ServicesAt
    <3>2. a \in SetupsFor(m)
      BY <2>2, <3>1 DEF SetupsFor
    <3> QED
      BY <3>2 DEF SetupPlaced
  <2>6. ASSUME NEW p \in SetupPlaced(m), car' = p[1]
        PROVE  /\ car'.owed = car.owed /\ car'.opened = OpenedBy(n + 1)
               /\ car'.set = SetUpBy(n + 1) /\ car'.unexpected = car.unexpected
               /\ Quiet(p[2])
    <3>1. car' = [car EXCEPT !.set = @ \cup {m.ch}] /\ Quiet(p[2])
      BY <1>0, <2>6, SetupAnswered
    <3>2. car'.unexpected = car.unexpected
      BY <1>0, <3>1 DEF CarTyped, Away
    <3> QED
      BY <1>0, <1>6, <3>1, <3>2, ServiceEdits
  <2> QED
    BY <2>4, <2>5, <2>6
<1> QED
  BY <1>0, <1>4, <1>5, <1>6, TableStep

\* So a head unit that serves places all it hears.
LEMMA AttendedHears ==
  ASSUME HandshakeInv, Served, Hears, car.at = "served"
  PROVE  Served'
<1>0. ControlInv /\ CarTyped /\ ~car.unexpected /\ OwedWell
  BY DEF HandshakeInv, ServingInv, ControlInv, Served
<1>1. PICK n \in 0..Len(OpenAll(hu)), s \in Seq(Frames) : Serves(n, s)
  BY Zenon DEF Served
<1>2. PICK m : m = Head(toCar)
  OBVIOUS
<1>3. /\ toCar # <<>> /\ toCar' = Tail(toCar) /\ UNCHANGED <<hu, outs>>
      /\ Unsent' = Unsent /\ (Skips' <=> Skips)
      /\ Placed(m) # {} =>
           \E p \in Placed(m) : car' = p[1] /\ toDaemon' = toDaemon \o p[2]
  BY <1>2, UnsentKept DEF Hears, Speaking
<1>4. /\ toDaemon \in Seq(Frames) /\ outs \in Seq(Frames)
      /\ ~Skips => Yields(toDaemon, s, hu)
      /\ car.opened = OpenedBy(n) /\ car.set = SetUpBy(n)
  BY <1>1 DEF Serves
<1>5. Len(OpenAll(hu)) \in Nat /\ n \in Nat /\ n <= Len(OpenAll(hu))
  BY <1>0, TableFrames
<1>6. CASE n < Len(OpenAll(hu))
  <2>1. /\ toCar' \in Seq(Frames) /\ m = OpenAll(hu)[n + 1]
        /\ (toCar' \o Unsent) \o s
             = SubSeq(OpenAll(hu), (n + 1) + 1, Len(OpenAll(hu))) \o car.owed
    BY <1>0, <1>1, <1>2, <1>3, <1>6, HeardNext, Zenon
  <2>2. /\ Placed(m) # {}
        /\ \A p \in Placed(m) : car' = p[1] =>
             /\ car'.owed = car.owed /\ car'.opened = OpenedBy(n + 1)
             /\ car'.set = SetUpBy(n + 1) /\ car'.unexpected = car.unexpected
             /\ Quiet(p[2])
    BY <1>0, <1>4, <1>5, <1>6, <2>1, PlacesTable
  <2>3. PICK p \in Placed(m) : car' = p[1] /\ toDaemon' = toDaemon \o p[2]
    BY <1>3, <2>2
  <2>4. /\ car'.owed = car.owed /\ car'.opened = OpenedBy(n + 1)
        /\ car'.set = SetUpBy(n + 1) /\ ~car'.unexpected
        /\ Quiet(p[2])
    BY <1>0, <2>2, <2>3
  <2>5. toDaemon' \in Seq(Frames) /\ (~Skips => Yields(toDaemon', s, hu))
    BY <1>4, <2>3, <2>4, QuietYields, QuietSeq
  <2>6. SetUpBy(n) \subseteq SetUpBy(n + 1)
    BY <1>5 DEF SetUpBy
  <2>7. OwedWell'
    BY <1>0, <1>4, <2>4, <2>6, OwedKept
  <2>8. n + 1 \in 0..Len(OpenAll(hu))
    BY <1>5, <1>6
  <2>9. (toCar' \o Unsent') \o s
          = SubSeq(OpenAll(hu), (n + 1) + 1, Len(OpenAll(hu))) \o car'.owed
    BY <1>3, <2>1, <2>4, Zenon
  <2>10. outs' \in Seq(Frames)
    BY <1>3, <1>4
  <2> QED
    BY <1>3, <2>1, <2>4, <2>5, <2>7, <2>8, <2>9, <2>10, ServedThen
<1>7. CASE n = Len(OpenAll(hu))
  <2>1. /\ toCar' \in Seq(Frames) /\ car.owed # <<>> /\ m = Head(car.owed)
        /\ (toCar' \o Unsent) \o s
             = SubSeq(OpenAll(hu), n + 1, Len(OpenAll(hu))) \o Tail(car.owed)
    BY <1>0, <1>1, <1>2, <1>3, <1>7, HeardNext, Zenon
  <2>2. Placed(m) = {<<[car EXCEPT !.owed = Tail(@)], <<>>>>}
    BY <2>1 DEF Placed
  <2>3. PICK p \in Placed(m) : car' = p[1] /\ toDaemon' = toDaemon \o p[2]
    BY <1>3, <2>2
  <2>4. p = <<[car EXCEPT !.owed = Tail(@)], <<>>>>
    BY <2>2
  <2>5. car' = [car EXCEPT !.owed = Tail(@)] /\ toDaemon' = toDaemon \o <<>>
    BY <2>3, <2>4
  <2>6. car'.owed = Tail(car.owed) /\ car'.opened = car.opened /\ car'.set = car.set
        /\ ~car'.unexpected
    BY <1>0, <2>5 DEF CarTyped, Away
  <2>7. toDaemon' = toDaemon
    BY <1>4, <2>5, ConcatEmptySeq
  <2>8. OwedWell'
    BY <1>0, <2>1, <2>6, OwedLess
  <2>9. (toCar' \o Unsent') \o s
          = SubSeq(OpenAll(hu), n + 1, Len(OpenAll(hu))) \o car'.owed
    BY <1>3, <2>1, <2>6, Zenon
  <2>10. outs' \in Seq(Frames) /\ toDaemon' \in Seq(Frames)
         /\ (~Skips => Yields(toDaemon', s, hu))
    BY <1>3, <1>4, <2>7
  <2> QED
    BY <1>1, <1>3, <1>4, <2>1, <2>6, <2>8, <2>9, <2>10, ServedThen
<1> QED
  BY <1>5, <1>6, <1>7

\* ServiceInv holds initially,
LEMMA ServiceInit == Init => ServiceInv
<1> SUFFICES ASSUME Init PROVE ServiceInv
  OBVIOUS
<1>1. car.at # "served" /\ Blank
  BY DEF Init, Away, Blank
<1> QED
  BY <1>1, HandshakeInit DEF ServiceInv, Attended

\* and every step keeps it.
LEMMA ServiceNext == ServiceInv /\ [Next]_vars => ServiceInv'
<1> SUFFICES ASSUME ServiceInv, [Next]_vars PROVE ServiceInv'
  OBVIOUS
<1>0. HandshakeInv /\ CarTyped /\ HandshakeInv' /\ hu' = hu
  BY HandshakeNext, SameHeadUnit DEF ServiceInv, HandshakeInv, ServingInv, ControlInv
<1>1. ASSUME car.at = "served" PROVE Served /\ ~car.unexpected
  BY <1>1 DEF ServiceInv, Attended, Served
<1>2. CASE UNCHANGED vars
  <2>1. UNCHANGED <<hu, toCar, outs, toDaemon, car, daemon>>
    BY <1>2 DEF vars, link
  <2>2. CASE car.at = "served"
    <3>1. CarElsewhere /\ ~car'.unexpected
      BY <1>1, <2>1, <2>2 DEF CarElsewhere
    <3>2. Served'
      BY <1>0, <1>1, <2>1, <2>2, <3>1, AttendedQuiet
    <3> QED
      BY <1>0, <2>1, <2>2, <3>2 DEF ServiceInv, Attended
  <2>3. CASE car.at # "served"
    BY <1>0, <2>1, <2>3 DEF ServiceInv, Attended, Blank
  <2> QED
    BY <2>2, <2>3
<1>3. CASE Next /\ car.at # "served"
  <2>1. Blank
    BY <1>3 DEF ServiceInv, Attended
  <2>2. Attended'
    BY <1>0, <1>3, <2>1, AttendedBefore, AttendedHearing
  <2> QED
    BY <1>0, <2>2 DEF ServiceInv
<1>4. CASE Next /\ car.at = "served"
  <2>1. CASE car' = Away
    BY <1>0, <2>1, AwayBlank DEF ServiceInv, Attended
  <2>2. ASSUME car'.at = "served", Served' PROVE ServiceInv'
    BY <1>0, <2>2 DEF ServiceInv, Attended
  <2>3. CASE Ready /\ Handle
    <3>1. car' = car
      BY <2>3 DEF Handle, Proceed
    <3> QED
      BY <1>0, <1>1, <1>4, <2>2, <2>3, <3>1, AttendedHandle
  <2>4. CASE Write
    <3>1. car' = car
      BY <2>4 DEF Write
    <3> QED
      BY <1>0, <1>1, <1>4, <2>2, <2>4, <3>1, AttendedWrite
  <2>5. CASE Hears
    <3>1. Served'
      BY <1>0, <1>1, <1>4, <2>5, AttendedHears
    <3>2. car'.at = "served"
      <4>1. ControlInv
        BY <1>0 DEF HandshakeInv, ServingInv
      <4>2. CASE Placed(Head(toCar)) = {}
        <5>1. car' = [car EXCEPT !.unexpected = TRUE]
          BY <2>5, <4>2 DEF Hears
        <5> QED
          BY <1>0, <1>4, <5>1 DEF CarTyped, Away
      <4>3. CASE Placed(Head(toCar)) # {}
        <5>1. PICK p \in Placed(Head(toCar)) : car' = p[1]
          BY <2>5, <4>3 DEF Hears
        <5> QED
          BY <1>4, <4>1, <5>1, PlacedTurns DEF CarTurns
      <4> QED
        BY <4>2, <4>3
    <3> QED
      BY <2>2, <3>1, <3>2
  <2>6. CASE Asks
    <3>1. car'.at = "served"
      <4>1. PICK r \in Requests : car' = [car EXCEPT !.owed = @ \o r[2]]
        BY <2>6 DEF Asks
      <4> QED
        BY <1>0, <1>4, <4>1 DEF CarTyped, Away
    <3> QED
      BY <1>0, <1>1, <1>4, <2>2, <2>6, <3>1, AttendedAsks
  <2>7. CASE FallsSilent \/ Wakes
    <3>1. UNCHANGED <<hu, toCar, outs, toDaemon, daemon>>
      BY <2>7 DEF FallsSilent, Wakes, Speaking, link
    <3>2. PICK v : car' = [car EXCEPT !.quiet = v]
      BY <2>7 DEF FallsSilent, Wakes
    <3>3. CarElsewhere /\ ~car'.unexpected /\ car'.at = "served"
      BY <1>0, <1>1, <1>4, <3>2 DEF CarElsewhere, CarTyped, Away
    <3>4. Served'
      BY <1>0, <1>1, <1>4, <3>1, <3>3, AttendedQuiet
    <3> QED
      BY <2>2, <3>3, <3>4
  <2>8. CASE TalksNonsense
    <3>1. car'.at = "served"
      BY <1>0, <1>4, <2>8 DEF TalksNonsense, Says, CarTyped, Away
    <3> QED
      BY <1>0, <1>1, <1>4, <2>2, <2>8, <3>1, AttendedNonsense
  <2>9. CASE Misses
    <3>1. car' = car
      BY <2>9 DEF Misses
    <3> QED
      BY <1>0, <1>1, <1>4, <2>2, <2>9, <3>1, AttendedMisses
  <2> QED
    BY <1>0, <1>4, <2>1, <2>3, <2>4, <2>5, <2>6, <2>7, <2>8, <2>9, ServedMotions
<1> QED
  BY <1>2, <1>3, <1>4

\* A head unit that describes its services as IsDescribed and numbers them as
\* IsNumbered says never hears anything it cannot place: dispatch, the handlers
\* and OpenAll tell it what it waits for, in the order it waits for it.
THEOREM ServiceUnderstood == Spec => []NothingUnexpected
<1>1. ServiceInv => NothingUnexpected
  BY DEF ServiceInv, HandshakeInv, Understood, HandshakeUnderstood, Attended, Served,
     NothingUnexpected
<1> QED
  BY <1>1, ServiceInit, ServiceNext, PTL DEF Spec

=============================================================================
