-------------------------------- MODULE Bringup --------------------------------
(***************************************************************************)
(* From power-on to projection: the watchdog that keeps the daemon running *)
(* (aabox-aapd-watchdog.sh, aabox-usb-bind.sh), usb_run and dhu_listen of  *)
(* main.rs, the version and TLS handshakes (control.rs, tls_tunnel.rs),    *)
(* the head of control_channel::run, and its dispatch of what the head     *)
(* unit sends from then on.                                                *)
(*                                                                         *)
(* The head unit is the other half of the protocol, as the comments of     *)
(* main.rs and the head unit of the tests describe it, and a strict one:   *)
(* whatever it did not ask for and cannot place is unexpected.  It may     *)
(* fall silent, leave, send nonsense or refuse our certificate a few       *)
(* times; a head unit that gets nowhere leaves and tries again.            *)
(***************************************************************************)
EXTENDS Dispatch

CONSTANTS
  Cars,         \* pairs <<head unit, how it connects>>
  Modern,       \* the head units that let us open the services
  MaxFaults,    \* bound: how often the head unit misbehaves
  MaxRequests,  \* bound: requests of a head unit's own
  MaxWire       \* bound: messages the link holds; a write waits for the host

\* How a head unit opens: a car, the desktop head unit over USB with its
\* TLS hello in the first message or after it, or over TCP.
Kinds == {"car", "dhu-u", "dhu-bundled", "dhu-tcp"}
ASSUME BringupAssumption ==
  /\ \A c \in Cars : \E h \in DOMAIN Tables, k \in Kinds : c = <<h, k>>
  /\ \A h \in DOMAIN Tables : \A d \in ToSet(Tables[h]) : d.id \in ChannelBytes
  /\ Modern \subseteq DOMAIN Tables
  /\ MaxFaults \in Nat /\ MaxRequests \in Nat
  /\ MaxWire \in Nat \ {0}
  /\ Garbled \notin 0..7

\* How a head unit describes its services: each by a sub-message of its own, and
\* no two by the same id.
SubOf == [video |-> {"av"}, audio |-> {"av"}, microphone |-> {"av_input"},
          sensor |-> {"sensor"}, input |-> {"input"},
          navigation |-> {"navigation"}, bluetooth |-> {"bluetooth"},
          vendor |-> {"vendor_ext"}, none |-> {}]
IsDescribed(d) ==
  /\ d.service \in DOMAIN SubOf /\ d.sub = SubOf[d.service]
  /\ d.sub = {"av"} => (d.service = "video" <=> d.video_configs \/ d.stream = "video")

\* The numberings that dispatch gets along with: it takes a channel for ours by
\* our own byte, whatever service the head unit numbers so.  The requests of an
\* older head unit (RequestsOf) are answered by the handlers of our bytes alone,
\* so its services carry these, and none is on the byte of AvInput, whose
\* requests AudioChannelManager ignores; a modern one may use any byte but one
\* whose handler of ours answers the same id in another way.
IsNumbered(d, modern) ==
  /\ d.service = "sensor" => d.id # Input
  /\ d.service = "input" => d.id # Sensor
  /\ modern => (d.service = "video" => d.id \notin {Video} \cup AudioManaged)
  /\ ~modern =>
       /\ d.service = "sensor" => d.id = Sensor
       /\ d.service = "input" => d.id = Input
       /\ d.service \in {"video", "audio"} => d.id \in {Video} \cup AudioStates
       /\ d.service = "microphone" => d.id \in AudioStates
ASSUME TableAssumption ==
  \A h \in DOMAIN Tables :
    /\ Tables[h] \in Seq(ToSet(Tables[h]))
    /\ \A j, k \in DOMAIN Tables[h] : Tables[h][j].id = Tables[h][k].id => j = k
    /\ \A d \in ToSet(Tables[h]) : IsDescribed(d) /\ IsNumbered(d, h \in Modern)

\* What SslHandshake messages carry.
Empty == 0
ClientHello == 1
ClientFinished == 2
ServerHello == 3
ServerFinished == 4
Announcement == 5
Tls(arg) == Message(Control, SslHandshake, arg)
StartsTls(arg) == arg \in {ClientHello, ClientFinished}

Refused == 3     \* an AuthComplete whose status is not OK
WithStatus == 6  \* version 1.6, eight bytes;  1.7, six bytes:
Plain == 7

VARIABLES
  hu, kind,    \* the head unit and how it connects; never change
  watchdog,    \* the daemon "ended", is "ready" to be started or "runs"
  wedged,      \* the USB gadget no longer gets through to the host
  daemon,      \* where usb_run or dhu_listen is, the TLS connection's state,
               \*   whether it has read from the link, and its link broke, and
               \*   what became of the records it encrypted
  outs,        \* the messages it has still to write
  toDaemon, toCar,
  car,         \* the head unit's side of the connection
  stale,       \* a process that has ended read from this connection
  faults, requests,
  positions, logged    \* position events handled, and logged

link == <<toDaemon, toCar>>
bounds == <<faults, requests>>
fixes == <<positions, logged>>
vars == <<hu, kind, watchdog, wedged, daemon, outs, link, car, stale, bounds, fixes>>

Usb == kind # "dhu-tcp"
Table == Tables[hu]
DaemonAt == {"off", "open", "first", "tls", "auth", "loop", "exiting"}
TlsStates == {"hello", "finished", "done", "bad"}
\* All went out; one did not; others did behind it, which nobody can decrypt.
SendStates == {"all", "skipped", "garbled"}
CarAt == {"away", "greet", "version", "probe", "hello", "finish", "auth",
          "lost", "served"}
Off == [at |-> "off", hs |-> "hello", read |-> FALSE, broken |-> FALSE,
        sends |-> "all"]
Away == [at |-> "away", quiet |-> FALSE, opened |-> {}, set |-> {},
         owed |-> <<>>, unexpected |-> FALSE]

TypeOK ==
  /\ <<hu, kind>> \in Cars
  /\ watchdog \in {"ended", "ready", "runs"} /\ wedged \in BOOLEAN
  /\ daemon \in [at : DaemonAt, hs : TlsStates, read : BOOLEAN,
                 broken : BOOLEAN, sends : SendStates]
  /\ daemon.at = "exiting" => Usb
  /\ daemon.hs = "bad" => daemon.at = "tls"
  /\ daemon.at \in {"auth", "loop"} => daemon.hs = "done"
  /\ daemon.sends # "all" => daemon.at = "loop"
  /\ car.at \in CarAt /\ car.quiet \in BOOLEAN /\ car.unexpected \in BOOLEAN
  /\ car.opened \subseteq ChannelBytes /\ car.set \subseteq car.opened
  /\ stale \in BOOLEAN
  /\ faults \in 0..MaxFaults /\ requests \in 0..MaxRequests
  /\ logged \in 0..positions

\* The services behind a channel byte, and the setup a service waits for.
ServicesAt(ch) == {d.service : d \in {e \in ToSet(Table) : e.id = ch}}
Awaits(service) ==
  CASE service = "video" -> {[id |-> Setup, arg |-> H264, answer |-> SetupResponse]}
    [] service = "audio" -> {[id |-> Setup, arg |-> Pcm, answer |-> SetupResponse]}
    [] service = "microphone" -> {[id |-> OpenInput, arg |-> Ok, answer |-> InputOpened]}
    [] service = "sensor" -> {[id |-> Start, arg |-> Ok, answer |-> Stop]}
    [] service = "input" -> {[id |-> Stop, arg |-> Ok, answer |-> SetupResponse]}
    [] OTHER -> {}

-----------------------------------------------------------------------------
(* The watchdog                                                            *)

\* Mutant of Rebind: the gadget is left as it is.
RebindSkipped ==
  /\ Usb /\ watchdog = "ended"
  /\ watchdog' = "ready"
  /\ UNCHANGED <<hu, kind, wedged, daemon, outs, link, car, stale, bounds, fixes>>

\* One turn of the watchdog's loop: aabox-usb-bind.sh takes the gadget off
\* the controller and puts it back.  The host sees a device that is gone, and
\* a wedged gadget is reset.
Rebind ==
  /\ Usb /\ watchdog = "ended"
  /\ watchdog' = "ready" /\ wedged' = FALSE
  /\ car' = Away /\ toDaemon' = <<>> /\ toCar' = <<>> /\ stale' = FALSE
  /\ UNCHANGED <<hu, kind, daemon, outs, bounds, fixes>>

\* Then, after a pause, it starts the daemon.
Launch ==
  /\ watchdog = "ready"
  /\ watchdog' = "runs"
  /\ daemon' = [Off EXCEPT !.at = "open"]
  /\ UNCHANGED <<hu, kind, wedged, outs, link, car, stale, bounds, fixes>>

-----------------------------------------------------------------------------
(* The daemon                                                              *)

\* The process ends.  What it read of a connection that is still there is
\* lost with it; over TCP the socket closes.
Ends ==
  /\ daemon' = Off
  /\ outs' = <<>>
  /\ watchdog' = "ended"
  /\ IF Usb
     THEN stale' = (stale \/ (daemon.read /\ ~daemon.broken)) /\ UNCHANGED <<link, car>>
     ELSE car' = Away /\ toDaemon' = <<>> /\ toCar' = <<>> /\ UNCHANGED stale

\* wait_for_accessory opens the device whether a host is there or not;
\* dhu_listen accepts one connection.
Open ==
  /\ daemon.at = "open"
  /\ Usb \/ car.at # "away" \/ daemon.broken
  /\ daemon' = [daemon EXCEPT !.at = "first"]
  /\ UNCHANGED <<hu, kind, watchdog, wedged, outs, link, car, stale, bounds, fixes>>

Reading == daemon.at \in {"first", "tls", "auth", "loop"} /\ outs = <<>>
Ready == Reading /\ ~daemon.broken /\ toDaemon # <<>>
Frame == Head(toDaemon)

\* read_frame returned Frame; the daemon goes on at the given place, or ends.
Proceed(at, hs, msgs) ==
  /\ toDaemon' = Tail(toDaemon)
  /\ daemon' = [daemon EXCEPT !.at = at, !.hs = hs, !.read = TRUE]
  /\ outs' = msgs
  /\ UNCHANGED <<watchdog, toCar, car, stale>>

\* It did not understand Frame, or TLS failed: whether with an error or with
\* Ok(()), the process ends.
Fails ==
  IF Usb
  THEN /\ daemon' = Off /\ outs' = <<>> /\ watchdog' = "ended"
       /\ toDaemon' = Tail(toDaemon) /\ stale' = TRUE
       /\ UNCHANGED <<toCar, car>>
  ELSE Ends

\* Mutant of Preseed: a TLS hello in the first message is dropped.
PreseedDropped(arg) == Proceed("tls", "hello", <<Tls(Empty)>>)

\* The first message was SslHandshake: answer with a probe, and hand rustls
\* the TLS bytes that came along.
Preseed(arg) ==
  CASE arg = ClientHello ->
         Proceed("tls", "finished", <<Tls(Empty), Tls(ServerHello)>>)
    [] StartsTls(arg) /\ arg # ClientHello ->
         Proceed("tls", "bad", <<Tls(Empty)>>)
    [] OTHER -> Proceed("tls", "hello", <<Tls(Empty)>>)

\* usb_run: the first message says who is there.
FirstUsb ==
  CASE Frame.id = VersionRequest /\ Decodes(Frame) ->
         Proceed("tls", "hello", <<Message(Control, VersionResponse, WithStatus)>>)
    [] Frame.id = SslHandshake -> Preseed(Frame.arg)
    [] OTHER -> Fails

\* dhu_listen: version_handshake_responder, then the probe.
FirstTcp ==
  IF Frame.ch = Control /\ Frame.id = VersionRequest /\ Decodes(Frame)
  THEN Proceed("tls", "hello",
               <<Message(Control, VersionResponse, Plain), Tls(Empty)>>)
  ELSE Fails

\* server_handshake: read SslHandshake messages, hand them to rustls, write
\* what it has to say.
Handshake ==
  CASE Frame.ch # Control \/ Frame.id # SslHandshake -> Fails
    [] Frame = Tls(Empty) -> Proceed("tls", daemon.hs, <<>>)
    [] Frame = Tls(ClientHello) /\ daemon.hs = "hello" ->
         Proceed("tls", "finished", <<Tls(ServerHello)>>)
    [] Frame = Tls(ClientFinished) /\ daemon.hs = "finished" ->
         Proceed("tls", "done", <<Tls(ServerFinished)>>)
    [] OTHER -> Fails

\* Mutant of Authenticated: the status is logged and ignored.
AuthenticatedAnyway ==
  IF Frame.id = AuthComplete
  THEN Proceed("loop", "done",
               <<Message(Control, ServiceDiscoveryRequest, Ok)>>)
  ELSE Fails

\* Steps A and A2 of run(): an AuthComplete whose status is OK is answered
\* with our ServiceDiscoveryRequest.
Authenticated ==
  IF Frame.id = AuthComplete /\ Frame.arg = Ok
  THEN Proceed("loop", "done",
               <<Message(Control, ServiceDiscoveryRequest, Ok)>>)
  ELSE Fails

\* handle_frame; its errors are logged.
Handle ==
  /\ Proceed("loop", "done", Answers(Frame, hu))
  /\ IF Frame.id = SetupResponse /\ "sensor" \in ServicesAt(Frame.ch)
     THEN /\ positions' = positions + 1
          /\ logged' = IF Logs(Frame) THEN logged + 1 ELSE logged
     ELSE UNCHANGED fixes

Read ==
  /\ Ready
  /\ \/ daemon.at = "first" /\ Usb /\ FirstUsb /\ UNCHANGED fixes
     \/ daemon.at = "first" /\ ~Usb /\ FirstTcp /\ UNCHANGED fixes
     \/ daemon.at = "tls" /\ daemon.hs \in {"hello", "finished"} /\ Handshake
        /\ UNCHANGED fixes
     \/ daemon.at = "auth" /\ Authenticated /\ UNCHANGED fixes
     \/ daemon.at = "loop" /\ Handle
  /\ UNCHANGED <<hu, kind, wedged, bounds>>

\* A head unit that leaves: the bulk endpoint is gone, or the socket is.
ReadFails ==
  /\ Reading /\ daemon.broken
  /\ Ends
  /\ UNCHANGED <<hu, kind, wedged, bounds, fixes>>

\* rustls rejects the bytes of the first message.
PreseedFails ==
  /\ daemon.at = "tls" /\ daemon.hs = "bad" /\ outs = <<>>
  /\ Ends
  /\ UNCHANGED <<hu, kind, wedged, bounds, fixes>>

\* server_handshake returns Ok, and run() starts.
HandshakeDone ==
  /\ daemon.at = "tls" /\ daemon.hs = "done" /\ outs = <<>>
  /\ daemon' = [daemon EXCEPT !.at = "auth"]
  /\ UNCHANGED <<hu, kind, watchdog, wedged, outs, link, car, stale, bounds,
                 fixes>>

\* A frame goes out; its record means nothing behind one that did not.
Write ==
  /\ outs # <<>> /\ ~daemon.broken /\ Len(toCar) < MaxWire
  /\ outs' = Tail(outs)
  /\ IF daemon.sends = "all"
     THEN toCar' = Append(toCar, Head(outs)) /\ UNCHANGED daemon
     ELSE daemon' = [daemon EXCEPT !.sends = "garbled"] /\ UNCHANGED toCar
  /\ UNCHANGED <<hu, kind, watchdog, wedged, toDaemon, car, stale, bounds, fixes>>

\* A failed write ends the process, up to the ServiceDiscoveryRequest.  From
\* then on handle_frame drops the answers that are left, its record is lost
\* to the TLS connection, and the control loop logs it and goes on to read.
WriteError ==
  IF daemon.at = "loop" /\ Head(outs).id # ServiceDiscoveryRequest
  THEN /\ outs' = <<>>
       /\ daemon' = [daemon EXCEPT !.sends = IF @ = "all" THEN "skipped" ELSE @]
       /\ UNCHANGED <<watchdog, link, car, stale>>
  ELSE Ends

\* A write to a link that is gone.
WriteFails ==
  /\ outs # <<>> /\ daemon.broken
  /\ WriteError
  /\ UNCHANGED <<hu, kind, wedged, bounds, fixes>>

\* Fifteen seconds are over and the head unit said nothing.  usb_run returns,
\* but its runtime waits for the read(2) that is still blocked.
Timeout ==
  /\ daemon.at = "tls" /\ Reading /\ ~daemon.broken /\ toDaemon = <<>>
  /\ car.quiet
  /\ IF Usb
     THEN /\ daemon' = [daemon EXCEPT !.at = "exiting", !.hs = "hello"]
          /\ UNCHANGED <<outs, watchdog, link, car, stale>>
     ELSE Ends
  /\ UNCHANGED <<hu, kind, wedged, bounds, fixes>>

\* It returns with a late answer, which nobody looks at, or with an error.
Exit ==
  /\ daemon.at = "exiting"
  /\ \/ toDaemon # <<>> /\ ~daemon.broken /\ Fails
     \/ daemon.broken /\ Ends
  /\ UNCHANGED <<hu, kind, wedged, bounds, fixes>>

DaemonStep ==
  \/ Open \/ Read \/ ReadFails \/ PreseedFails \/ HandshakeDone
  \/ Write \/ WriteFails \/ Timeout \/ Exit

-----------------------------------------------------------------------------
(* The head unit                                                           *)

Speaking == ~car.quiet /\ UNCHANGED <<hu, kind, watchdog, daemon, outs, stale>>
Says(at, msgs) ==
  /\ car' = [car EXCEPT !.at = at]
  /\ toDaemon' = toDaemon \o msgs

\* The daemon's read fails once the head unit is gone.
Leaves ==
  /\ car' = Away /\ toDaemon' = <<>> /\ toCar' = <<>> /\ stale' = FALSE
  /\ daemon' = [daemon EXCEPT !.broken =
                  (@ \/ daemon.at \notin (IF Usb THEN {"off", "open"} ELSE {"off"}))]
  /\ UNCHANGED <<hu, kind, watchdog, outs, fixes>>

\* It comes, over TCP only while dhu_listen listens.
Comes ==
  /\ car.at = "away" /\ Speaking
  /\ Usb \/ (daemon.at = "open" /\ ~daemon.broken)
  /\ Says("greet", <<>>)
  /\ UNCHANGED <<wedged, toCar, bounds, fixes>>

Greeting ==
  CASE kind \in {"car", "dhu-tcp"} ->
         Says("version", <<Message(Control, VersionRequest, Ok)>>)
    [] kind = "dhu-u" -> Says("probe", <<Tls(Announcement)>>)
    [] kind = "dhu-bundled" -> Says("probe", <<Tls(ClientHello)>>)

Greets ==
  /\ car.at = "greet" /\ Speaking /\ ~wedged
  /\ Greeting
  /\ UNCHANGED <<wedged, toCar, bounds, fixes>>

\* Its part of the handshakes: what it waits for, where it is then and what
\* it says.
Answered(m) ==
  CASE car.at = "version" /\ m.id = VersionResponse ->
         IF kind = "car" THEN {<<"hello", <<Tls(ClientHello)>>>>}
         ELSE {<<"probe", <<>>>>}
    [] car.at = "probe" /\ m = Tls(Empty) ->
         {<<"hello", IF kind = "dhu-bundled" THEN <<>>
                     ELSE <<Tls(ClientHello)>>>>}
    [] car.at = "hello" /\ m = Tls(ServerHello) ->
         {<<"finish", <<Tls(ClientFinished)>>>>}
    [] car.at = "finish" /\ m = Tls(ServerFinished) ->
         {<<"auth", <<Message(Control, AuthComplete, Ok)>>>>}
    [] car.at = "auth" /\ m.id = ServiceDiscoveryRequest ->
         {<<"served", <<Message(Control, ServiceDiscoveryResponse, Ok)>>>>}
    [] OTHER -> {}

\* The setups that m is.
SetupsFor(m) ==
  {a \in UNION {Awaits(v) : v \in ServicesAt(m.ch)} : a.id = m.id /\ a.arg = m.arg}

\* The opening of a service it offers, and the setup that this service waits
\* for: the new state of the car and what it says.
OpenPlaced(m) ==
  {<<[car EXCEPT !.opened = @ \cup {m.ch}],
     <<Message(m.ch, ChannelOpenResponse, Ok)>>>> :
     v \in ServicesAt(m.ch) \ {"vendor", "none"}}
SetupPlaced(m) ==
  {<<[car EXCEPT !.set = @ \cup {m.ch}],
     <<Message(m.ch, a.answer, Ok)>>>> : a \in SetupsFor(m)}

\* While it serves it places the answers to its requests, in order; what it
\* is told unasked; an opening; and the setup once the channel is open.
Placed(m) ==
  IF car.at = "lost" THEN {<<car, <<>>>>}
  ELSE IF car.at # "served"
  THEN {<<[car EXCEPT !.at = a[1]], a[2]>> : a \in Answered(m)}
  ELSE IF car.owed # <<>> /\ m = Head(car.owed)
  THEN {<<[car EXCEPT !.owed = Tail(@)], <<>>>>}
  ELSE IF m.ch = Control /\ m.id \in {BatteryStatus, CallAvailability}
  THEN {<<car, <<>>>>}
  ELSE IF m.id = ChannelOpenRequest /\ m.arg = m.ch /\ m.ch \notin car.opened
  THEN OpenPlaced(m)
  ELSE IF m.ch \in car.opened \ car.set
  THEN SetupPlaced(m)
  ELSE {}

Hears ==
  /\ toCar # <<>> /\ Speaking
  /\ toCar' = Tail(toCar)
  /\ LET places == Placed(Head(toCar))
         place == IF places = {} THEN <<[car EXCEPT !.unexpected = TRUE], <<>>>>
                  ELSE CHOOSE p \in places : TRUE
     IN car' = place[1] /\ toDaemon' = toDaemon \o place[2]
  /\ UNCHANGED <<wedged, bounds, fixes>>

\* What a head unit asks of its own, with the answers it is owed.  On its
\* service channels a modern one announces video focus; an older one makes
\* the requests that are ours with a modern one.
Position(d) == Message(d.id, SetupResponse, Granted)
RequestsOf(d) ==
  CASE d.service = "video" /\ hu \in Modern ->
         {<<Message(d.id, VideoFocus, Ok), <<Message(d.id, Start, Ok)>>>>}
    [] d.service \in {"video", "audio"} /\ hu \notin Modern ->
         {<<Message(d.id, Setup, Ok), <<Message(d.id, SetupResponse, Ok)>>>>}
    [] d.service = "microphone" /\ hu \notin Modern ->
         {<<Message(d.id, OpenInput, Ok), <<Message(d.id, InputOpened, Ok)>>>>}
    [] d.service = "sensor" ->
         {<<Position(d), <<>>>>} \cup
         IF hu \in Modern THEN {}
         ELSE {<<Message(d.id, Start, Ok), <<Message(d.id, Stop, Ok)>>>>}
    [] d.service = "input" ->
         {<<Message(d.id, Start, Ok), <<>>>>} \cup
         IF hu \in Modern THEN {}
         ELSE {<<Message(d.id, Stop, Ok), <<Message(d.id, SetupResponse, Ok)>>>>}
    [] OTHER -> {}
Requests ==
  {<<Message(Control, PingRequest, 1), <<Message(Control, PingResponse, 1)>>>>,
        <<Message(Control, AudioFocusRequest, Ok),
          <<Message(Control, AudioFocusResponse, Granted)>>>>,
        <<Message(Control, NavigationFocusRequest, Garbled),
          <<Message(Control, NavigationFocusResponse, Granted)>>>>,
        <<Message(Control, ChannelOpenRequest, Ok),
          <<Message(Control, ChannelOpenResponse, Ok)>>>>,
        <<Message(Control, AudioFocusResponse, Ok), <<>>>>,
        <<Message(Control, VoiceSessionRequest, Ok), <<>>>>,
        <<Message(Control, ShutdownRequest, Ok),
          <<Message(Control, ShutdownResponse, Ok)>>>>}
  \cup UNION {RequestsOf(d) : d \in {e \in ToSet(Table) : e.id \in car.set}}

Asks ==
  /\ car.at = "served" /\ Speaking /\ requests < MaxRequests
  /\ requests' = requests + 1
  /\ \E r \in Requests :
       /\ toDaemon' = Append(toDaemon, r[1])
       /\ car' = [car EXCEPT !.owed = @ \o r[2]]
  /\ UNCHANGED <<wedged, toCar, faults, fixes>>

-----------------------------------------------------------------------------
(* What goes wrong                                                         *)

Fault == faults < MaxFaults /\ faults' = faults + 1 /\ UNCHANGED requests

FallsSilent ==
  /\ Fault /\ car.at # "away" /\ Speaking
  /\ car' = [car EXCEPT !.quiet = TRUE]
  /\ UNCHANGED <<wedged, link, fixes>>

\* Its answer comes after all.
Wakes ==
  /\ car.quiet
  /\ car' = [car EXCEPT !.quiet = FALSE]
  /\ UNCHANGED <<hu, kind, watchdog, wedged, daemon, outs, link, stale, bounds,
                 fixes>>

\* During the handshakes it says something else and is lost: a short version
\* request, a message out of place, TLS bytes out of place.  Once it has
\* accepted us it sends a request that does not decode.
Nonsense == {Message(Control, VersionRequest, Garbled),
             Message(Input, PingRequest, Garbled), Tls(ClientFinished)}
TalksNonsense ==
  /\ Fault /\ car.at # "away" /\ Speaking
  /\ IF car.at \in {"auth", "served"}
     THEN Says(car.at, <<Message(Control, PingRequest, Garbled)>>)
     ELSE \E m \in Nonsense : Says("lost", <<m>>)
  /\ UNCHANGED <<wedged, toCar, fixes>>

\* It does not like our certificate.
Refuses ==
  /\ Fault /\ car.at = "finish" /\ Speaking
  /\ toCar # <<>> /\ Head(toCar) = Tls(ServerFinished)
  /\ toCar' = Tail(toCar)
  /\ Says("lost", <<Message(Control, AuthComplete, Refused)>>)
  /\ UNCHANGED <<wedged, fixes>>

\* A write fails although the head unit is still there.
WriteIsLost ==
  /\ Fault /\ outs # <<>> /\ ~daemon.broken
  /\ WriteError
  /\ UNCHANGED <<hu, kind, wedged, fixes>>

IsUnplugged == Fault /\ car.at # "away" /\ Leaves /\ UNCHANGED wedged

\* Failed handshakes leave the accessory function wedged.
Wedges ==
  /\ Fault /\ Usb /\ watchdog = "ended" /\ ~wedged
  /\ wedged' = TRUE
  /\ UNCHANGED <<hu, kind, watchdog, daemon, outs, link, car, stale, fixes>>

\* A head unit that gets nowhere, or that meets a record it cannot decrypt,
\* leaves, to try again.
GivesUp ==
  /\ \/ car.quiet \/ car.at = "lost" \/ (car.at = "greet" /\ wedged)
     \/ daemon.sends = "garbled" /\ ~daemon.broken /\ toCar = <<>>
  /\ Leaves /\ UNCHANGED <<wedged, bounds>>

CarStep == Comes \/ Greets \/ Hears

Init ==
  /\ \E c \in Cars : hu = c[1] /\ kind = c[2]
  /\ watchdog = "ready" /\ wedged = FALSE
  /\ daemon = Off /\ outs = <<>>
  /\ toDaemon = <<>> /\ toCar = <<>>
  /\ car = Away /\ stale = FALSE
  /\ faults = 0 /\ requests = 0
  /\ positions = 0 /\ logged = 0

Next ==
  \/ Rebind \/ Launch \/ DaemonStep \/ CarStep \/ Asks
  \/ FallsSilent \/ Wakes \/ TalksNonsense \/ Refuses \/ IsUnplugged
  \/ WriteIsLost \/ Wedges \/ GivesUp

\* The watchdog and the daemon run; the head unit goes on with the protocol,
\* and leaves when it gets nowhere.  It need not wake, ask or misbehave.
Fairness ==
  /\ WF_vars(Rebind) /\ WF_vars(Launch) /\ WF_vars(DaemonStep)
  /\ WF_vars(CarStep) /\ WF_vars(GivesUp)

Spec == Init /\ [][Next]_vars /\ Fairness

-----------------------------------------------------------------------------
(* Properties                                                              *)

\* The head unit never hears anything it cannot place: a setup before its
\* open or of the wrong kind, an open of a service it keeps to itself, an
\* answer nobody asked for, two answers to one request or answers in another
\* order, a TLS probe a car did not ask for (dispatch, OpenAll, usb_run).
NothingUnexpected == ~car.unexpected

\* The daemon joins a connection at its first message and nowhere else:
\* what a process has read of it before, another one never needs, although a
\* process may end in the middle of a handshake that the head unit goes on
\* with (the rebinding in aabox-aapd-watchdog.sh).
JoinsAtTheStart ==
  daemon.at \in {"tls", "auth", "loop"} /\ ~daemon.broken => ~stale

\* During the handshakes the two sides never wait for one another: whichever
\* head unit it is, and whatever failed before, something is on its way as
\* long as the daemon reads and the head unit is not lost (the probe and the
\* TLS bytes of the first message in usb_run and dhu_listen).
Handshakes == {"version", "probe", "hello", "finish", "auth"}
NeverBothWait ==
  daemon.at \in {"first", "tls", "auth", "loop"} /\ ~daemon.broken
  /\ car.at \in Handshakes
  => toDaemon # <<>> \/ toCar # <<>> \/ outs # <<>>

\* Before it has accepted us no head unit hears a message it does not wait
\* for: none hears a probe in place of a version or a version in place of a
\* probe, or what one process of ours had to say to another's handshake.
HandshakeUnderstood == car.at # "served" => ~car.unexpected

\* The control loop serves only a head unit that has accepted us in this
\* very connection (AuthComplete in run()).
ServesAccepted ==
  daemon.at = "loop" /\ ~daemon.broken => car.at \in {"auth", "served"}

\* Whatever went wrong before, in the end the head unit serves us and every
\* service it offers is open and set up: handshakes that hang end, processes
\* that end are started again, a wedged gadget is reset, a head unit that meets
\* a gap in our records comes again.  dhu_listen takes only one connection, so
\* there only an undisturbed head unit gets there; and the daemon repeats
\* nothing: when a write failed and nothing was written since, it stays at that.
Offered == {d \in ToSet(Table) : d.service \notin {"vendor", "none"}}
Projected ==
  /\ daemon.at = "loop" /\ ~daemon.broken /\ car.at = "served"
  /\ \A d \in Offered :
       d.id \in IF Awaits(d.service) = {} THEN car.opened ELSE car.set
Projects ==
  <>[]Projected \/ (~Usb /\ <>(faults > 0)) \/ <>[](daemon.sends = "skipped")

\* What the head unit asks of us it gets answered, as long as the connection
\* lasts, whatever it asks besides and whatever goes wrong at its end
\* (dispatch_control and the channel handlers).  Behind a write that failed
\* nothing is answered; the next one makes the head unit leave.
RequestsAnswered ==
  car.owed # <<>> ~> car.owed = <<>> \/ daemon.sends = "skipped"

\* sensor.rs says: "Every SENSOR_EVENT_INDICATION that carries one or more
\* GPSLocation records gets appended as NDJSON"; dispatch takes them all for
\* AVChannelSetupResponses.
PositionsLogged == logged = positions

=============================================================================
