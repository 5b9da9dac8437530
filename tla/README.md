# TLA+ models of aabox

aabox is a Linux box between an Android Auto head unit and Android apps: a Rust
daemon (`aabox-aapd`) speaks the Android Auto Projection protocol to the car
over a USB accessory gadget, or over TCP to an emulator, and a second daemon
(`aabox-resigner`) patches and re-signs the APKs dropped into a directory. This
directory holds TLA+ models of that code, the TLC configurations that check
them and TLAPS proofs of their main theorems.

Paths below are relative to `src/crates/aabox-aapd/src/` unless they say
otherwise.

## 1. Inventory

| Component | Source | State it keeps | Operations | What is hard |
|---|---|---|---|---|
| Video pipeline | `channels/video/pipeline.rs` | `in_flight`, `wire_channel` (atomics), `generation` (watch), outbound mpsc, one streaming task per START | `start`, `stop`, `on_media_ack`, `set_wire_channel`, the streamer loop | tasks and control loop interleave at every atomic access; cancellation is cooperative |
| Video channel and session routing | `channels/video/mod.rs`, `control_channel.rs` `handle_frame` | the pipeline | interception by message id, then routing by channel byte | one frame reaches two handlers; channel bytes are assigned by the car |
| Control loop | `control_channel.rs` `run`, Step C | the `select!`, the queues | read branch, nav / audio / video branches | a losing branch's future is dropped; a branch runs to its end |
| USB accessory stream | `usb/stream.rs` | `IoState` Idle / Reading / Writing | `poll_read`, `poll_write` | half duplex; a blocking read cannot be taken back |
| Framing and frame reader | `framing.rs`, `control.rs` `read_frame`, `write_frame` | none between calls | encode, parse, read one frame | short reads, coalesced frames, cancellation |
| Encryption and fragmentation | `encrypted.rs`, `tls_tunnel.rs`, `control_channel.rs` `send_encrypted` | TLS connection | wrap, unwrap, fragment | records must be decrypted in the order they were produced |
| Dispatch | `control_channel.rs` `dispatch`, `dispatch_control` | flags of the session | 0x0008, 0x00ff, 0x8003, 0x8008, ... and per-channel handlers | message ids mean different things on different channels |
| Audio channels | `channels/audio.rs` | per-channel session, sink, encoder task | setup, start, stop, ack, data, encoder loop | encoder task versus stop / restart, bounded queue |
| Sensor and input channels | `channels/sensor.rs`, `channels/input.rs` | GPS log, input sink | start request / response, events | order of events and replies |
| Navigation channel | `channels/nav.rs` | none | one instruction becomes three messages | an instruction is sent in part when a send fails |
| Navigation sources and runner | `nav/runner.rs`, `nav/osrm.rs`, `nav/source.rs`, `nav/destination_file.rs` | route, current step, last position, file mtime | set destination, update position, watch the file | off-route recalculation, stale route, termination |
| Video sources | `channels/video/source.rs`, `nal.rs` | capture child process, NAL buffer | next access unit, close | start codes split between reads |
| Session bring-up | `main.rs`, `tls_*.rs`, `control.rs` handshakes, `usb/*.rs` | gadget, accessory fd, timeouts | wait for accessory, version, TLS, auth, restart | timeouts racing late answers, restart by the watchdog |
| Resigner watcher | `src/crates/aabox-resigner/src/watcher.rs` | the directory | scan, process, install, move | a file still being written, a restart half way |
| APK patching and signing | `apk.rs`, `dex.rs`, `sign.rs` of the resigner | none | rewrite dex, recompute checksums, v2 block | offsets, padding, length prefixes |
| Services table, logging, config | `services.rs`, `kmsg.rs`, ... | none | constants and I/O | not modelled |
| Shell tools | `src/tools/` | process table | bind the gadget, restart the daemon | external to the Rust code |

How they interact: the control loop owns everything of a session. It reads a
frame, hands it to `handle_frame`, which may call the video pipeline directly
and then routes the frame to a channel handler; the handlers answer with
messages the loop writes. Nav runner, audio encoders and video streamers are
tasks of their own that only push into bounded mpsc queues, which the loop
drains when nothing is to be read. The video pipeline's tasks and the loop also
share two atomics and a watch channel. The stream below is either a TCP socket
or `UsbAccessoryStream`, which runs one blocking system call at a time.

What makes each part correct:

- *pipeline*: the number of unacknowledged frames is bounded by the advertised
  `max_unacked`; a cancelled task produces at most one more frame and exits.
- *session*: a stream is announced before its frames; frames use the channel
  byte the car assigned; only the car's video channel stops the video.
- *control loop*: a branch that has begun to write comes back; inbound frames
  are served; the loop ends when the cable is pulled.
- *frame reader*: every frame written by the peer is returned once, in order,
  and reading fails only at the end of the stream.
- *sending*: the car can decrypt and reassemble what was written, whole messages
  and in order, whatever write fails.
- *video sources*: access units are handed out whole, and not later than they
  are known to be complete.
- *audio*: a stopped encoder falls silent and ends, recorded data is
  acknowledged and reaches its file.
- *navigation*: guidance is to the destination asked for last, and ends with the
  session.
- *dispatch and bring-up*: a strict head unit never hears anything it cannot
  place, a broken handshake is started over, and in the end it is projected to.
- *resigner*: what is installed is complete, patched and signed such that the
  platform accepts it; no download is forgotten.

`PROJECT.json` lists all components with their status, and under `hazards` the
places in the code where these things may go wrong, each with its properties.

## 2. Plan

The order is by importance: what moves the video, then what everything runs on,
then the other channels. All of it is done.

1. `CreditWindow`, `VideoPipeline`; refinement of the first by the second.
2. `HeadUnitSession` on top of the pipeline, with an arbitrary head unit.
3. `ControlLoop` with `UsbAccessoryStream`.
4. `FrameReader`; `FragmentedSend`; `AccessUnits`; `MediaPath` composes the last
   two.
5. `Dispatch` and, on top of it, `Bringup`.
6. `AudioChannels`; `Navigation`.
7. `DexPatch` and `SigningBlock`; `ResignerWatch` on top of both.

The safety invariants of all passing runs are theorems now; section 6 says what
stays with TLC.

Modules are parameterised by CONSTANTS with named assumptions, have one action
per operation and declare no RECURSIVE operator, so that each can be proved
about. Definitions that begin with "Mutant of" are variants of a definition with
a plausible bug; no specification uses them. They are kept to show that the
property named in `PROJECT.json` notices the bug.

## 3. The modules

### CreditWindow

What flow control promises: a window of `Size` slots; `Deliver` takes one,
`Ack` gives one back, `Restart` opens them all.

### VideoPipeline (`channels/video/pipeline.rs`)

| Model | Code |
|---|---|
| `generation` | the value of the watch channel `generation_tx` |
| `in_flight`, `wire_channel` | the atomics of the same names |
| `streamer[g]` | the program counter of the task `spawn_streamer` created for generation g |
| `staged[g]` | the channel byte of the message that task has built |
| `outbound`, `receiver` | the mpsc queue and whether `run` still holds its receiver |
| `call` | `start` and `stop` are two steps each: the counter and the watch value are separate accesses, made in opposite orders |

One action per atomic access of the streamer: the generation test at the head
of the loop (`Check`), the cap test (`Gate`), the two branches of the cap loop's
`select!` (`Wake`, `Cancel`), `next_frame` (`NextFrame`, `Exhausted`), the queue
(`Send`, `SendFails`) and the `fetch_add` after it (`Count`). `watch::send` with
no receiver leaves the value alone, which is why `StopBump` looks for a live
task. The access units themselves are not modelled here. The history variables
`ahead` and `late` count; no guard reads them.

`Released` is the saturating decrement of `on_media_ack`; `in_flight` is not
given a width: its reset at every START and the cap keep it a few units high.

### HeadUnitSession (`control_channel.rs` `handle_frame`, `channels/video/mod.rs`)

Extends `VideoPipeline` with the frames of a head unit. `Intercepted` is what
`handle_frame` asks of the pipeline by message id on any channel, `Routed` what
the handler chosen by the channel byte asks on top. `HandleFrame` computes the
calls, `RunCall` and `FinishCall` execute them one atomic access at a time, and
the loop is back at its `select!` when `todo` is empty. `DrainVideo` is the video
branch; a failed send is logged and the message lost (`NotWritten`). The head
unit (actions `HU...`) is external: it may announce focus, start, stop, ack
what it received and send messages on other channels. The constants say which
bytes it uses and which messages it sends.

### ControlLoop (`control_channel.rs` Step C, `usb/stream.rs`)

The biased `select!`, the branches, and the stream below. `io` is
`UsbAccessoryStream::state`, `syscall` the blocking worker. `TakeOutbound`
drops the `read_frame` future and leaves `io` as it is. Over TCP reads and
writes do not meet. A frame is one read: what happens inside a frame is
`FrameReader`'s matter, so over USB a first read that returns the whole frame is
assumed, which is the case the code is written for.

### FrameReader (`control.rs` `read_frame`, `framing.rs`)

Bytes are offsets into what the peer writes. The first read of up to `BufCap`
bytes, the header in what it returned, `read_exact` for the rest; what is in
the buffer behind the frame is dropped. `ReadSizes` says what a read may
return: over TCP all that arrived, over USB never more than the transfer. The
constant `FrameStart` holds the offset of each frame; the assumption states its
recurrence. `MCFrameReader` builds it for TLC.

### FragmentedSend, AccessUnits, MediaPath

`FragmentedSend` is `send_encrypted`: `Begin` takes a message, each
`WriteFragment` encrypts one chunk (a TLS record gets the next number when it is
produced, not when it arrives) and writes its frame; `WriteFails` leaves the
message half written and the record number used. The peer (`PeerReads`,
external) decrypts records in order and reassembles; it gives up on the first
record it cannot decrypt or the first frame out of place. Chunks are intervals
of bytes, so a hole, an overlap and a wrong size are visible.

`AccessUnits` is `nal.rs` and `ScreenRecordVideoSource::next_frame` on real
bytes: the recorder's output arrives in reads of any size, and start codes,
headers and payloads may be cut anywhere. The reference it is checked against
is the list of NALs the stream was encoded from. `EmulationAssumption` is what
the comment at the top of `nal.rs` relies on: no start code inside a NAL (the
encoder's escape byte) and, by H.264, no zero at its end. `Ascending` stands for
the order in which the scan finds what it looks for.

`MediaPath` composes them: units become messages with a timestamp in front
(`Overhead`), queue up, are sent in fragments and reassembled. A message is its
number and its length there; which unit it is, `Take` decides. `UnitsInOrder`
says from end to end that the peer delivers our messages in order
(`DeliveredInOrder`) and that the k-th is the k-th unit recorded.

### Dispatch and Bringup (`main.rs`, `control.rs`, `tls_*.rs`, `control_channel.rs`, `channels/*.rs`, `src/tools/`)

`Dispatch` is pure: from a message (channel byte, id, argument) to the sequence
of answers, with `dispatch`'s ladder of ids in its order, `OpenAll` for the
service table, and the handlers of the other channels. Ids are the numbers of
the protocol, since which channel reads a number how is the point.

`AudioStates` are the bytes for which `AudioChannelManager` has a format. Byte 7,
our `AvInput`, is handed to it as well, and ignored there.

`Bringup` runs it in a session: the watchdog (`Rebind`, `Launch`), the daemon
from the first frame over the version exchange, TLS and AuthComplete to the
loop, and a head unit, external, in the four ways of connecting the comments of
`main.rs` describe. The head unit is strict: `car.unexpected` records the first
thing it cannot place. Up to `MaxFaults` times it falls silent, leaves, sends
garbage or refuses us. A USB process that gets stuck in a blocking read keeps
the gadget (`exiting`) until the host moves. One of the faults is a write of ours
that fails with the head unit still there (`WriteIsLost`): before the loop the
process ends; in the loop `handle_frame` drops the answers that are left and the
loop goes on (`WriteError`). Its TLS record is gone, so that the head unit cannot
decrypt what is written next, and leaves (`daemon.sends`). TLS is a state machine of four
messages; `daemon.hs` is `rustls`' side of it, external.

`NeverBothWait` is about the part before AuthComplete, in which the ways of
connecting differ; `NothingUnexpected` is about all of a session, and
`HandshakeUnderstood` names its part before AuthComplete, which holds for any
service table. The rest needs tables like those that the comments report:
`IsDescribed` (each service by its own sub-message, video distinguishable from
audio) and `IsNumbered`, which says what `dispatch` requires of the head unit's
numbering of its channels (see "Dispatch" in section 5): the services of an older
head unit are on the bytes that `video` and `AudioChannelManager` answer on, 7
not among them. `TableAssumption` states both of every head unit.

`MCBringup` gives a car's service table, from the comments about the Carnival,
and the desktop head unit's.

### AudioChannels (`channels/audio.rs`)

The table of `AudioChannelManager` (`started`, `stop_tx`, `sink`), one record of
`encoder` per task ever spawned, the bounded queue, and the flush tasks. START
on an output channel is two steps, because the lock is dropped while the source
is built. An encoder looks at its stop signal only in the `select!`, not while
it waits in `send`; `SeesStop` includes the sender that is overwritten by a new
START or dropped at the end of the session, which ends an encoder as well.
`marked`, `held` and `owed` are history: what a STOP has to flush, and what the
car is entitled to have acked. `AV_INPUT_OPEN_REQUEST(open = false)` clears
`started` and does not flush, as in the code. A flush is a detached task: it may
fail, which is logged and not tried again (`FlushFails`), and it goes with the
runtime, which the commands drop when `run` has returned (`RuntimeDropped`).
`failed` is history, too: what was in the sink when a flush last failed.

### Navigation (`nav/*.rs`, `channels/nav.rs`, `channels/sensor.rs`, Step B)

The destination file (its writer is external: a write is visible half done, and
two writes may share one mtime), the watcher's poll, the runner's `select!`, the
source with route, step index, current instruction and recalculation, and the
three queues. A position is what the source finds out from it: next maneuver
reached or not, off the route or not, and the fetch that follows succeeds or
fails. `WriteInstruction` is the loop's branch with the burst of three messages,
written or not. `FixArrives` is a position event given to the sensor handler;
`dispatch` keeps these events from it (`positions` in section 5), so nothing in
this module assumes that one ever comes.

### DexPatch, SigningBlock, ResignerWatch (`src/crates/aabox-resigner/src/`)

`DexPatch` walks real code units: ULEB128, instruction widths, payload tables,
class data with its deltas, header checksums. `SigningBlock` computes the layout
of the v2 block; `Verifies` reads it back the way an independent verifier does:
it finds the block from the end of the file and digests the regions itself.
What an app is made of is stated beside it and without its tables
(`IsCompiled`): the units of each instruction format, the entries of each table,
the bytes of a number, the numbers of a class, the names behind a field.
`ResignerWatch` is the daemon around them (`inotify` events, size test, read,
intermediate file, `pm install`, deletion), with downloads in place or by
rename, failing writes and installs, and kills. `MCResigner` holds small apps:
every width of instruction in front of a read of the field, tables whose data
look like one, absent classes, methods without code, and archives that end on a
page boundary, beside it, and 1, 11 and 12 bytes off where the padding pair
changes.

## 4. The runs

Passing runs:

| Run | What it shows | Bounds |
|---|---|---|
| `pipeline` | `LateFrameBound`, `WindowBound`, the refinement `WindowSpec`, and that a cancelled task exits wherever it waits (`SupersededExit`) | 2 generations: START, then START or STOP, with the stale task anywhere in its loop; cap and queue 2, so that each can be full, partly full and empty while the other is not |
| `session` | for a car with video, audio and sensors on bytes of their own: a stream is announced before its frames, which go to the right channel; only that channel stops it; the advertised window holds but for acks of audio frames (each gives one slot back, which `UnackedBound` counts); one slot per stream and per failed send may be lost and no more; with acks coming the cap lets the streamer go on (`NoStall`) | 2 generations (STOP and re-START); cap 3, one more than the slots that two streams can lose; one failed send, one audio ack; 251,914 states |
| `loop` | over TCP and over USB, with all three sources on either: only the messages of the queues ever get behind a read that was given up, an answer to the car never does (`OnlyQueuesBlocked`); unless one did (`Wedged`), every branch comes back, inbound frames are served and the loop ends with the link | queues of 2, bursts and replies of 3 |
| `reader` | over USB transfers that hold one frame at most: aligned, no spurious failure, every frame that arrived is returned; over TCP, whatever is segmented and cancelled, no frame is returned twice or out of order | five frames: an empty payload, a FIRST frame longer than the buffer, several frames that fit into one read |
| `audio` | a stopped, replaced or orphaned encoder sends one frame more at most and ends, even blocked on the queue; data on a channel the car holds open is acked; what a STOP has to flush is flushed, unless the flush fails or the session ends first | one output and one input channel, 2 encoders on a queue of 2, 2 data frames |
| `media` | fragments are well formed and decrypt; messages arrive whole and in order; units are exact and not held back; the car's messages are the recorder's units (`UnitsInOrder`); every unit arrives unless a write fails | 7 NALs, read in any pieces, whose messages are below, at, one above and two times the fragment size |
| `nav` | guidance follows the destination taken last; the step stays on the route; a destination that stays in the file reaches the source, as long as the loop empties the instruction queue; the tasks end | 2 versions of the file, queues of 1 (full as soon as used), routes of 0, 1 and 3 steps |
| `resigner` | whatever is installed is whole, patched, with fitting checksums and a signature that verifies; a download that met a running daemon is installed; the daemon comes to rest | 2 versions of one of 5 apps |
| `bringup` | nothing unexpected is sent, no process joins a half-done handshake, the two sides never both wait (`NeverBothWait`), only an accepted connection is served, a well-behaved head unit is projected to and answered | 2 faults in any places, a failed write of ours among them, one request of the head unit's own, one message on the wire each way; 659,720 states |

Larger values repeat the same cases: tasks interact only through the counters
and the current generation, and the theorems of section 6 hold for every value
of the constants. Deadlock checking is off in all runs because all these
systems may stop: a bound is used up, the loop has ended, the stream is at its
end. What must not stop is stated as a liveness property.

Three runs (`loop_usb_wedge`, `positions`, `session_sensor`) are expected to be
violated; each is a finding (section 5).

### Bounds

`MaxGeneration` (calls of start and stop), `MaxLost`, `MaxStray`, `MaxWire`
(messages the link holds), `InboundCap`, `MaxReplies`, the finite streams of
`FrameReader` and `AccessUnits`, `MaxMessages`, `WireCap`, `MaxEncoders`,
`MaxData`, `MaxFlushes`, `MaxWrites`, `MaxVersion`, `MaxFaults`, `MaxRequests`.
They are the only bounds that are not in the code. `OutboundCap`, `QueueCap`,
`DestCap`, `GpsCap`, `NavCap`, `BufCap` and `MaxFragment` are the code's limits,
scaled down.

### Fairness

- *Pipeline*: weak fairness of every task, since tokio polls what is ready and
  the sources keep producing. Strong fairness of `Cancel`: `select!` picks among
  ready branches at random and the cancellation stays ready, so it is picked in
  the end. Strong fairness of `Send`: tokio's mpsc gives out permits in FIFO
  order.
- *Control loop*: weak fairness of its own steps and of the blocking worker. A
  write completes while the link is up: a car that stops reading without
  unplugging would block it. Nothing is assumed of the sources or the cable.
- *Session*: the loop and the streamers as above, strong fairness of
  `DrainVideo` (it loses the biased select while frames arrive, and they do not
  arrive for ever without acks), and a car that acknowledges what it receives
  (`HUAck`), which is `NoStall`'s premise. Starting and stopping are not fair.
- *Reader*: the reading task is scheduled; the peer owes nothing.
- *Audio*: encoders, flush tasks and the loop's drain are scheduled; permits
  come in FIFO order. Nothing is assumed of the car, of whether a flush succeeds
  or of when the runtime is dropped, and sources may be endless.
- *Media*: the source's task and the loop run, the car reads what arrives.
- *Navigation*: tokio runs the tasks and a fetch ends (5 s, `HTTP_TIMEOUT`), one
  way or the other; the runner's `select!` picks at random, so a destination that
  waits is taken. Nothing is assumed of fixes, of the routing service or of the
  loop; that it empties the instruction queue again and again is a premise of
  `DestinationInstalled` (over USB `loop_usb_wedge` shows that it may not).
- *Resigner*: the daemon's next step is taken when it has one. Downloads, kills
  and restarts are not fair.
- *Bring-up*: the watchdog loops, the daemon runs, a head unit that is not
  misbehaving answers, and one that gets nowhere, or meets a record it cannot
  decrypt, leaves and connects again. A
  timeout needs no fairness of its own: it is part of the daemon's steps.

## 5. Findings

Each is a run whose property TLC refutes; `PROJECT.json` quotes the lines of the
code or its comments that say otherwise.

| Run | What happens |
|---|---|
| `loop_usb_wedge` | over USB a queued message taken while a read is in flight waits for a write that is never started; stuck there, the loop does not notice the cable being pulled either (`UnplugEnds` fails without `Wedged`) |
| `positions` | a SENSOR_EVENT_INDICATION has the id of an AVChannelSetupResponse, and `dispatch` takes every 0x8003 for the latter: no position is logged or handed to the nav runner |
| `session_sensor` | a sensor response on channel byte 3, our own `ChannelId::Video`, stops the video |

More that was observed while modelling. Each can be reproduced by the change
named; none contradicts a line of the documentation as plainly as those above.

*Video.* For cars whose bytes coincide with our numbering, in
`HeadUnitSession.cfg`: with `Channels = {3}`, `VideoByte = 3` a frame is
intercepted and then handled by `video::handle` as well, so one ack is counted
twice (`UnackedBound` fails) and a VideoFocusNotification is never answered with
our Start (`FramesAnnounced` fails); with `HUMessages = {"Start"}` on top the
frames go out on channel byte 255 (`FramesAnnounced` fails). Acks of audio
frames release video slots (`control_channel.rs:526`), hence `stray` in
`UnackedBound`. Frames queued before a STOP are written after it. A streamer
held at the cap when the loop ends wakes every 5 ms until the process ends
(`pipeline.rs:280-290`, against the comment at 312-313).

*Dispatch.* It knows a channel by our own byte for it, whatever service the head
unit's table has there (`control_channel.rs:551-569`); only `OpenAll` looks at
the table. So it depends on the numbering what a head unit hears. In
`Bringup.cfg` with `MaxRequests = 2`, `NothingUnexpected` fails as soon as a
table in `MCBringup` breaks any one part of `IsNumbered`, or has an id twice: a
sensor on our input byte has the confirmation of its setup answered, and an input
channel on our sensor byte its events; a modern video channel on one of our
video or audio bytes is not told to start when it announces video focus; and
services of an older head unit on bytes that are not ours for them get no answer
to their requests, or that of another handler; neither do the requests of a service
on byte 7, which `AudioChannelManager` has no format for (`audio.rs:586-601`).

*Reader.* Where a transport coalesces frames (TCP), `read_frame` drops what is
in its buffer beyond the first (`control.rs:210`): `Aligned` fails over
`Transports = {"tcp"}`, and a header that arrives in two pieces is an error.
Inbound fragments are dispatched one by one, not reassembled
(`control_channel.rs:481`); the head units of the comments send none.

*Control loop.* Audio precedes video in the biased select
(`control_channel.rs:450`): whether a busy audio source can starve the video
depends on the rates of the sources, which no model here has.

*Audio.* Samples pushed after the last STOP are not flushed when the session
ends, nor when a channel is closed by `AV_INPUT_OPEN_REQUEST(open = false)`. A
STOP's own flush is lost if the session ends before it ran: without `~manager`,
`StopFlushes` fails.

*Navigation.* With a watcher configured, which is the default, a destination of
the command line is put into a queue whose receiver is gone
(`control_channel.rs:350-360`), though the comment there says that this never
fails: `DestinationInstalled` fails without `~watch` in `Wanted`. A failed
recalculation emits the instruction of the route that was left once more, though
the comment at `osrm.rs:583` says that it emits none: the arm of `FetchFails` for
"refetch". A file whose second half is written within the mtime tick of its
first is not read again (`destination_file.rs:141`), hence the premise of
`Wanted`. A route of no steps is never fetched again. The runner's header
(`runner.rs:18-20`) says it ends when an input closes; it goes on while either is
open (92-95). One version of the file may be pushed twice. What needs positions
does not happen today, see `positions`: no route is begun, and the safety
invariants are about the source as it is once it is fed.

*Resigner.* There is no scan at the start: a download that completes while the
daemon is down stays there (`missed`). A complete APK below 1 MiB is ignored. An
in-place download may be taken up on its creation event, before it is finished;
the close event brings the daemon back to it. After a failed install the
intermediate file stays.

*Bring-up.* Without the rebind (as in `aabox-aapd-watchdog-systembin.sh`) a new
process may join a handshake half way (`JoinsAtTheStart` fails; the mutant
`RebindSkipped`). After the TLS timeout `usb_run` returns, but the runtime waits
for a `read(2)` that ends only when the host moves. Reading the first frame and
AuthComplete has no timeout. When a send fails `handle_frame` drops the rest of
its answers (`control_channel.rs:567`), and with the next one the session is
lost, since its record cannot be decrypted; if there is no next one, the head
unit waits. This is what `daemon.sends = "skipped"` excepts in `Projects` and
`RequestsAnswered`, each of which fails without it. A VideoFocusNotification on byte 3 gets
no Start, see above. `dhu_listen` takes one connection and ends with it.

## 6. What is proved

TLAPS checks these for every value of the constants that satisfies the named
assumptions, TLC on the instances above.

**HeadUnitSession_proofs**, the pipeline (from `ConstantsAssumption`).
`TypeCorrect`, `AtMostOneLateFrame`, `FlowControl`, `Refinement`. Neither bound
is inductive by itself: a late frame is only counted when it is queued, and what
prevents a second one is where the task stands afterwards. `IInv` adds

- `FutureIdle`: tasks exist only up to the current generation, so a new START
  finds its task unspawned and uncounted;
- `LateOnce`: a task that has queued a late frame is between the count and the
  loop head, where the generation test turns it away;
- `CallHalfWay`: inside a call of `stop` no task of the current generation runs;
- `Accounting`: `in_flight` is at least what the current task is ahead, less the
  one frame it has sent and not counted, and past the cap test there is room.

Tasks of older generations may also increment `in_flight`; the invariant is a
lower bound, so they can only make the window smaller.
`Refinement` maps each step to `CreditWindow` with the same invariant.

**HeadUnitSession_proofs**, the session (also `SessionAssumption`).
`SessionUsesPipeline`: every session step is a pipeline step or leaves the
pipeline alone. `SessionSafety`: hence late frames and the window are bounded in
every session, whatever the head unit sends and on whatever channel.
`SessionTypeCorrect`: the calls of one frame are one of eight short lists
(`Todos`). `OnlyVideoStops` and `StreamsAreAnnounced` need that the head unit's
bytes do not collide with our ids (`OwnBytes`), which section 5 shows to be
necessary. Their invariant:

- `StopDue`: while a stop is due or half way, the frame it is for is still the
  one being handled and the video channel has not changed;
- `Announcing`: whoever streams is `Due`, its Start was written or is the very
  next thing `handle_frame` does, and since the loop does not drain its queue in
  between, every frame written was announced; channel bytes travel from
  `wire_channel` over `staged` and the queue to the wire unchanged.

Two more theorems count the frames that wait for an ack. `OwedBounded`
(`UnackedBound`) rests on `OwedInv`: while there was one START at most, the
frames queued, on the wire or with the peer and the acks still to be processed
are no more than `ahead` and `stray`, the acks of audio frames handled so far.
Nothing is sent before the first START, and no ack is pending in one. It needs
`AckedOnce`: the byte of the video channel is not our `ChannelId::Video` and no
audio channel has that byte; otherwise `handle_frame` counts an ack twice, and
section 5 shows the bound to fail. `SlotsLostBounded` (`SlotLeakBound`) needs no
such condition. It is not inductive either: a frame that was sent and not
counted yet may be acked first, and the saturating decrement then loses the
slot. `SlotInv` counts these frames with `in_flight`; there is at most one of
them per task (`UncountedFew`), which is the `generation` in the bound.

**ControlLoop_proofs** (from `LoopAssumption`, for both links and any sources on
either, a car's USB session with its three queues included). `LoopTypeCorrect`.
`RepliesFindStreamFree` (`OnlyQueuesBlocked`): a loop that writes with the stream
in a read is writing a queue's message, over USB. It is not inductive: an answer
is written without a look at the stream, and what frees the stream is that the
frame was read by the branch that answers it. `WriterInv` says so, and that over
a socket this state is never used. `WedgeIsFinal`: a message that got behind a
read stays there, whatever arrives, returns or is unplugged; this is the safety
half of `loop_usb_wedge`, for every queue size.

**FrameReader_proofs** (from `ReaderAssumption`). `ReaderCorrect`: if every
transfer holds bytes of one frame at most and no transfer ends inside a header
(`FramedStream`), reading over USB is aligned and fails at the end only. The
invariant adds where the reader stands inside the frame it is completing.
`ReaderTypeCorrect`, `ReaderNeverReplays` hold on every link: `Received` says
that a read never takes more than arrived, `Forward` that all frames returned
start before the reader's place.

**MediaPath_proofs**, `send_encrypted` (from `SendAssumption`).
`FragmentsWellFormed`: for every length and every fragment size. Its invariant
relates the tally of fragments written so far to the offset: nothing, FIRST and
MIDDLEs, or the complete message. `MessagesInOrder` (`DeliveredInOrder`, the
half of `UnitsInOrder` that is about messages) follows the fragments to the
peer. `DeliveryInv` (`FramesFollow`, `SenderFollows`, `PartialBegun`, `Held`):
record numbers on the wire increase without a gap as long as the peer can still
read them; what the peer holds of a message, with the frames under way in front
of the next record the sender will use, is exactly the part of it that was
written; after a write that failed there is a gap in the numbers, and behind it
nothing is delivered.

**MediaPath_proofs**, the access units (from `SourceAssumption` and
`EmulationAssumption`: any list of NALs, with prefixes of three or four bytes in
any mixture, and reads of any size). `UnitsCutExactly` (`UnitsExact`) goes from
the bytes to the units:

- `AscendingIs`, `AscendingExists`: a set of numbers has one ascending order;
  `FlattenIs`, `FlattenPieces`: consecutive pieces of a sequence join to the
  piece they make up;
- `EncodedBytes`, `StreamBytes`, `OffsetsGrow`, `LastByte`: which byte of which
  NAL is where in the stream (`Offset`);
- `StartsInStream`: 00 00 01 is in the stream where a prefix is and nowhere else.
  The assumption rules out those inside a body; those that begin in one NAL and
  end in the next are ruled out by the last byte not being zero. `FourByte`: a
  zero in front of it is always the prefix's own;
- `ThreeInBuffer`, `FourInBuffer`, `StartCodesAre`, `FindLast`: the same for
  leftover and the bytes just read (`Buffer`), where a start code counts once all
  of its prefix has arrived (`Seen`);
- `SplitWhole`, `TypeOfEncoded`, `UnitHas`, `GroupWhole`: what ends with a NAL is
  split into its NALs and grouped into the units, and a stretch without a slice
  that is left;
- `CompleteIs`: so `Complete` returns the units whose successor has begun, and
  the bytes behind the last of them as the rest, parameter sets included.

`UnitsExact` is not inductive: it does not say what waits in `queued` and
`leftover`. `SourceInv` does: the queue holds the next units, and `leftover` is
everything read behind them, from the end of a unit (`UnitEnd`). A read appends
to that, which is again such a piece of the stream, whatever its length: where
the reads cut does not matter.

**MediaPath_proofs**, the path (from all of these and `PathAssumption`).
`PathImplementsSend`: every step of the path is one of `FragmentedSend` or leaves
it alone, hence its theorems hold here. That the lengths the loop sends are
those of the units needs `SourceInv`. `UnitsReachTheCar` (`UnitsInOrder`) adds to
the three invariants that message k is unit k (`UnitsTaken`).

**AudioChannels_proofs** (from `AudioAssumption`). `AudioTypeCorrect`,
`OneLateAudioFrame`, `HeldDataIsAcked`. The invariant: an encoder that has queued
its late frame is at the `select!` or gone, and the stop it sees stays visible
(`LateFrame`); a START in progress still has its encoder unspawned (`Spawning`);
opened channels have a sink, held ones are started (`Held`).

**Navigation_proofs** (from `NavAssumption`). `NavTypeCorrect`,
`GuidanceFollows`, `StepOnRoute`, with `RouteInv`: the route held is one to the
destination set, and a fetch is only under way for a destination.

**Bringup_proofs** (from `BringupAssumption`, for every set of head units with
any service tables, and any number of faults; the last of the four also from
`TableAssumption`). Four invariants, each on top of the one before:

- `ControlInv`: which states of the watchdog, the process and the head unit go
  together. `stale` (a process that has ended read from this connection) implies
  that the watchdog is about to rebind, and the rebind ends the connection; a
  process that has not begun to shake hands has read nothing. Hence
  `BringupTypeCorrect` and `JoinsOnce` (`JoinsAtTheStart`).
- `ServingInv`: an AuthComplete that is OK is under way only from a head unit
  that has accepted us, whatever it says besides and whatever its requests and
  answers are. Hence `LoopServesAccepted` (`ServesAccepted`).
- `HandshakeInv`: the conversation itself. As long as nobody of ours has read of
  a connection, all the head unit has said is under way (`Unread`); while a
  process shakes hands, the place of either side and the one or two messages
  between them determine each other (`Going`, with `AwaitsHello`,
  `AwaitsFinished`, `AwaitsComplete`, `AwaitsServices` by the state of the TLS
  connection and an arm for each way of connecting); and once the process has
  ended or its link broke, what it had written is still what the head unit waits
  for, and nothing follows (`Leftover`). In the loop, once the head unit serves,
  nothing is left to write that could begin a handshake (`HasServices`, by the
  lemma `AnswersReply`), so that a write that fails takes none of it. Each step leads from one of these to
  another, a head unit that has gone or is lost aside. Hence
  `HandshakesUnderstood` (`HandshakeUnderstood`) and `HandshakesNeverStall`
  (`NeverBothWait`).
- `ServiceInv`: the head unit that serves. It has heard the first n messages of
  `OpenAll`, and has opened and set up the channels that these name. The
  messages under way to it, those the loop has still to write, and the answers
  the loop will give to what is under way from it (`Yields`) are, in this order,
  the rest of `OpenAll` and then the answers the head unit is owed for its
  requests (`Serves`). That the loop answers the table before anything else, and
  a request not before the openings in front of it are written, is in this
  equation; each step takes something from its one side and adds as much to the
  other, or moves a message along within it. A write that fails breaks off the
  left side: what is under way is still a beginning of the right one, nothing is
  added to it any more (`Unsent`), and the rest is what the head unit will miss.
  Hence `ServiceUnderstood`
  (`NothingUnexpected`): the next message the head unit hears is the next of the
  openings, which the lemma `TableAnswered` (`InOrder`) shows to be an open of a
  channel not opened yet, or the setup right behind its open (`PlacesTable`); or
  it is the first that it is owed. Confirmations of the head unit yield nothing
  (`RepliesUnanswered`), nonsense nothing, requests their answer
  (`RequestAnswered`).

**Resigner_proofs** (from `AppsAssumption`, `MaxVersionAssumption`: apps are any
set of records of archive, certificate and entries whose dex files, where they
are dex files, have checksums that fit, `IsApp`). `ResignerTypeCorrect` and
`InstalledWasReadLast` (`NothingTorn`) with `DaemonInv`: between the steps of
`handle_one` the bytes read, patched and installed are of one version.
`ProductIsAccepted` (`PlatformAccepts`) computes for all sizes what the signer
does:

- whatever archive `locate_zip_layout` accepts, it finds the end record that
  fits the file's length;
- `ChunksOf` cuts a region into consecutive chunks without hole or overlap, so
  the digest covers the three regions once (`AllCovered`), and the verifier's
  own reading of the file, which starts from its end, finds the same regions;
- `build_signing_block` makes whole pages; the padding pair is left out only if
  there is no room to fill and is never too short to hold its id; the pairs add
  up to the size in front and behind;
- `patch_dex` recomputes both checksums after its last change, and
  `process_apk` hands every entry through it or leaves it alone.

`InstalledIsPatched` (`InstalledIsClamped`) also assumes `CompiledAssumption`:
the classes of an app are as the Dalvik format has them. Instructions and tables
stand one behind the other, each as long as its format says, of any number and
with any operands; each method is reached from some class and not behind one
that lies outside the file; names are unique and at most one field entry is
`SDK_INT`'s. None of it mentions the patcher's own tables or walks. Then:

- `WalkFindsMethods`: the class data decode to the numbers they were written
  with, one behind the other (`NumberRead`, `NumbersRead`), the offsets in them
  are those of the class (`OffsetsRead`), and the walk over the classes meets
  all methods and nothing else;
- `StopsAtInstructions`: the walk over code units stops at the beginning of
  every instruction and of every table, and nowhere inside one (`OneInstruction`
  compares `OPCODE_LENGTH_CODE_UNITS` and the payload sizes with the format);
- `ReadsFound`, `RewrittenJoins`: so what it takes for a read is one, two reads
  never overlap, and the method with its reads replaced is the concatenation of
  the instructions with theirs (`MethodRewritten`);
- the index that the four lookups return is that of the entry whose names are
  `SDK_INT`'s, or there is none and no instruction refers to it.

`Repacked` and the totals in `Pairs` and `LpElements` are recursive functions;
that they exist for every length is proved with the least number principle
(`Iteration`; in Bringup_proofs `JoinedExists`, for the joined openings of a
table). `Visited` and `Numbers` recur from the end of their bytes
(`FromTheEnd`, `EndExists`), `FlattenSeq` from its first part (`Flattened`).

Only model-checked is liveness: the prover handles neither fairness nor ENABLED.

That `FrameStart`'s recurrence makes it increasing would need induction as well,
which is why monotonicity is part of the assumption; TLC evaluates the
assumption on each instance.

## 7. What is not modelled

- The gadget's creation and the accessory swap (`usb/mod.rs:83-110`,
  `usb/gadget.rs`, uevents) and the clock check (`main.rs:66-103`): done once,
  before any message, against the kernel's configfs and clock.
- Logging and log formats (`kmsg.rs`), the CLI, the error type; `services.rs`
  builds a table that no handler reads; generated protobuf code.
- Certificates, TLS records' contents, RSA, DER, hashing, the ZIP library: a
  digest is what it was taken of, a record its number.
- Codec payloads and PCM; the test-pattern and empty video sources, which are a
  choice between a frame and none in `VideoPipeline`; starting and killing the
  recorder process.
- Geometry, HTTP and JSON of the routing service: what the source concludes from
  them is a choice. Of the demo task only that it keeps the queue filled.
- `Frame::parse`, which only tests use.
- Shell tools other than the watchdog's loop and the rebind: building,
  installing, collecting logs, setting the clock.
- A TCP close loses what is still under way in the model of `Bringup`, where the
  kernel might deliver it; the daemon's blocking workers do not panic.
