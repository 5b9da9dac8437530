---------------------------- MODULE ResignerWatch ----------------------------
(***************************************************************************)
(* aabox-resigner --watch: the daemon that waits for a download of the     *)
(* launcher, patches and re-signs it and has it installed (watcher.rs,     *)
(* process_apk in lib.rs, repack_and_patch in apk.rs).                     *)
(*                                                                         *)
(* One name is watched.  A downloader writes the file in place, in several *)
(* goes if it likes, or renames a complete one to it; the daemon has one   *)
(* thread, so events wait in the kernel's queue while it works.  Every     *)
(* version of the download is the same app, told apart by its number; what *)
(* process_apk makes of it is computed from its contents.                  *)
(***************************************************************************)
EXTENDS DexPatch, SigningBlock

CONSTANTS
  Apps,         \* the apps that may be downloaded
  MaxVersion    \* bound: how many versions are downloaded

ASSUME MaxVersionAssumption == MaxVersion \in Nat

\* An app as it may be downloaded.  Its classes are damaged, or the runtime
\* would accept them as they are: without a read of the field a file is passed
\* on with the digests it came with.
IsApp(a) ==
  /\ IsArchive(a.zip) /\ a.cert \in Nat
  /\ Len(a.entries) \in Nat
  /\ \A k \in 1..Len(a.entries) :
       /\ {"kind", "data"} \subseteq DOMAIN a.entries[k]
       /\ a.entries[k].kind = "dex" =>
            LET dex == a.entries[k].data
            IN /\ DOMAIN dex = {"valid", "body", "sha", "adler"}
               /\ ~dex.valid \/ HeaderFits(dex)

ASSUME AppsAssumption == \A a \in Apps : IsApp(a)

\* What a compiler makes of an app (external): classes as the Dalvik format has
\* them.  An instruction has as many units as its format,
FormatUnits(op) ==
  CASE op \in {3, 6, 9, 20, 23, 27, 36, 37, 38, 42, 43, 44, 252, 253}
              \cup 110..114 \cup 116..120 -> 3
    [] op \in {250, 251} -> 4
    [] op = 24 -> 5
    [] op \in {1, 4, 7, 29, 30, 33, 39, 40} \cup 10..18
              \cup 123..143 \cup 176..207 -> 1
    [] OTHER -> 2

\* and a table as many as its entries take: of a packed switch, of a sparse
\* one, or of an array.
IsTable(w) ==
  \/ w[1] = 256 /\ Len(w) = 4 + 2 * w[2]
  \/ w[1] = 512 /\ Len(w) = 2 + 4 * w[2]
  \/ /\ w[1] = 768 /\ Len(w) >= 4 /\ w[4] = 0
     /\ 2 * (Len(w) - 4) \in {w[2] * w[3], w[2] * w[3] + 1}

Instruction(w) ==
  /\ w \in Seq(Nat) /\ w # <<>>
  /\ \/ w = <<0>>
     \/ Len(w) >= 2 /\ IsTable(w)
     \/ /\ opcode(w[1]) \in (1..226 \cup 250..255) \ (62..67 \cup {115, 121, 122})
        /\ Len(w) = FormatUnits(opcode(w[1]))

SdkInt == [class |-> "Landroid/os/Build$VERSION;", type |-> "I", name |-> "SDK_INT"]

\* The id tables lead from an entry for a field to its names, each name stands
\* there once, and one entry at most is SDK_INT's.
HasField(body, field) ==
  LET Name(type) == body.strings[body.types[type + 1] + 1]
      Named(e) == [class |-> Name(e.class), type |-> Name(e.type),
                   name |-> body.strings[e.name + 1]]
      TypeIds == 0..Len(body.types) - 1
      StringIds == 0..Len(body.strings) - 1
  IN /\ body.strings \in Seq(STRING) /\ IsInjective(body.strings)
     /\ body.types \in Seq(StringIds) /\ IsInjective(body.types)
     /\ body.fields \in Seq([class : TypeIds, type : TypeIds, name : StringIds])
     /\ {k \in DOMAIN body.fields : Named(body.fields[k]) = SdkInt}
          = IF field = NotFound THEN {} ELSE {field + 1}

\* A number has its low bits first, seven in a byte; the last byte is below 128.
IsNumber(w) ==
  /\ w \in Seq(Nat) /\ Len(w) \in 1..5
  /\ \A j \in 1..Len(w) : w[j] < 128 <=> j = Len(w)

Value(w) ==
  LET Bits(j) == IF j > Len(w) THEN 0 ELSE w[j] % 128
  IN Bits(1) + 128 * (Bits(2) + 128 * (Bits(3) + 128 * (Bits(4) + 128 * Bits(5))))

\* A class: how many fields and methods of two kinds each, two numbers for
\* every field and three for every method; the third leads to its code.
Offsets(class) ==
  LET Number(k) == Value(class[k])
      fields == Number(1) + Number(2)
  IN [m \in 1..Number(3) + Number(4) |-> Number(4 + 2 * fields + 3 * m)]

IsClass(class) ==
  /\ class \in Seq(Seq(Nat)) /\ \A k \in DOMAIN class : IsNumber(class[k])
  /\ class # <<>> =>
       /\ Len(class) >= 4
       /\ Len(class) = 4 + 2 * (Value(class[1]) + Value(class[2]))
                         + 3 * (Value(class[3]) + Value(class[4]))

\* Some class leads to a method, and not behind one that lies outside the file.
IsReached(o, a) ==
  \E c \in DOMAIN a.classes :
    /\ a.classes[c] # <<>>
    /\ \E m \in DOMAIN Offsets(a.classes[c]) :
         /\ Offsets(a.classes[c])[m] = o
         /\ \A j \in 1..m : Offsets(a.classes[c])[j] \in {0} \cup DOMAIN a.methods

\* Every classes.dex holds the field, the classes and the methods.
IsCompiled(a) ==
  /\ a.field \in Nat \cup {NotFound}
  /\ \A o \in DOMAIN a.methods :
       /\ a.methods[o] \in Seq(Seq(Nat)) /\ a.methods[o] # <<>>
       /\ \A k \in DOMAIN a.methods[o] : Instruction(a.methods[o][k])
       /\ o # 0 /\ IsReached(o, a)
  /\ \A c \in DOMAIN a.classes : IsClass(a.classes[c])
  /\ \A k \in 1..Len(a.entries) :
       a.entries[k].kind = "dex" /\ a.entries[k].data.valid =>
         LET body == a.entries[k].data.body
         IN /\ DOMAIN body = {"strings", "types", "fields", "classes", "code"}
            /\ HasField(body, a.field)
            /\ body.classes = [c \in DOMAIN a.classes |-> FlattenSeq(a.classes[c])]
            /\ body.code = [o \in DOMAIN a.methods |-> FlattenSeq(a.methods[o])]

ASSUME CompiledAssumption == \A a \in Apps : IsCompiled(a)

None == 0            \* no version: not there, or torn

VARIABLES
  app,          \* the app that is downloaded, and
  product,      \*   what process_apk makes of it; never change
  file,         \* the download: version, size, whether it is open for writing
  events,       \* the inotify queue: file name and kind of event
  daemon,       \* where handle_one is, what it reads and what it has made
  patched,      \* the intermediate file, .aabox-patched.apk
  installed,    \* what the package manager has installed
  missed        \* history: this version met a daemon that was down, or a
                \*   write or an install that failed

const == <<app, product>>
vars == <<const, file, events, daemon, patched, installed, missed>>

Sizes == {"absent", "small", "torn", "whole"}
DaemonAt == {"down", "idle", "stat", "read", "create", "write",
             "install", "remove"}
Idle == [at |-> "idle", version |-> 0, whole |-> FALSE, gone |-> FALSE]

TypeOK ==
  /\ file \in [version : 0..MaxVersion, size : Sizes, open : BOOLEAN]
  /\ events \in Seq({"download", "intermediate"} \X {"create", "close", "move"})
  /\ daemon \in [at : DaemonAt, version : 0..MaxVersion, whole : BOOLEAN,
                 gone : BOOLEAN]
  /\ daemon.at \in {"create", "write", "install", "remove"} =>
       product # NotAZip
  /\ patched \in 0..MaxVersion
  /\ installed \in 0..MaxVersion
  /\ missed \in BOOLEAN

-----------------------------------------------------------------------------
(* process_apk                                                             *)

\* Mutant of Repacked: the old signature travels along.
RepackedWithSignature(entries) ==
  [k \in DOMAIN entries |->
     IF entries[k].kind = "dex"
     THEN [entries[k] EXCEPT !.data = patch_dex(@)] ELSE entries[k]]

\* repack_and_patch: signing artefacts are dropped, every classes*.dex goes
\* through the patcher, everything else is copied.
Repacked(entries) ==
  LET written(entry) == IF entry.kind = "dex"
                        THEN [entry EXCEPT !.data = patch_dex(@)] ELSE entry
      upto[k \in 0..Len(entries)] ==
        IF k = 0 THEN <<>>
        ELSE IF entries[k].kind = "signature" THEN upto[k - 1]
        ELSE Append(upto[k - 1], written(entries[k]))
  IN upto[Len(entries)]

\* An entry that cannot be patched, or a layout that cannot be signed, fails
\* the whole file.  The layout is that of the archive the writer made.
process_apk(a) ==
  LET entries == Repacked(a.entries)
      signed == sign_apk_v2(a.zip, a.cert)
  IN IF signed = NotAZip \/ \E k \in DOMAIN entries : entries[k].data = Failed
     THEN NotAZip
     ELSE [entries |-> entries, signature |-> signed]

-----------------------------------------------------------------------------
Init ==
  /\ app \in Apps /\ product = process_apk(app)
  /\ file = [version |-> 0, size |-> "absent", open |-> FALSE]
  /\ events = <<>>
  /\ daemon = [Idle EXCEPT !.at = "down"]
  /\ patched = None
  /\ installed = None
  /\ missed = FALSE

-----------------------------------------------------------------------------
(* The downloader and the user (external)                                  *)

\* inotify adds an event unless the last one in the queue is the same; there
\* is no queue while the daemon is down.
Event(name, kind) ==
  IF daemon.at = "down" \/ (events # <<>> /\ Last(events) = <<name, kind>>)
  THEN events ELSE Append(events, <<name, kind>>)

\* A new version is written in place.  A daemon that is reading the file is
\* left with something torn.
Download ==
  /\ ~file.open /\ file.version < MaxVersion
  /\ file' = [version |-> file.version + 1, size |-> "small", open |-> TRUE]
  /\ events' = IF file.size = "absent" THEN Event("download", "create")
               ELSE events
  /\ daemon' = IF daemon.at = "read" /\ ~daemon.gone
               THEN [daemon EXCEPT !.whole = FALSE] ELSE daemon
  /\ missed' = (daemon.at = "down")
  /\ UNCHANGED <<const, patched, installed>>

Grow ==
  /\ file.open
  /\ \/ file.size = "small" /\ file' = [file EXCEPT !.size = "torn"]
     \/ file.size = "torn" /\ file' = [file EXCEPT !.size = "whole"]
  /\ UNCHANGED <<const, events, daemon, patched, installed, missed>>

Close ==
  /\ file.open
  /\ file' = [file EXCEPT !.open = FALSE]
  /\ events' = Event("download", "close")
  /\ UNCHANGED <<const, daemon, patched, installed, missed>>

\* A chunked downloader comes back for the rest.
Reopen ==
  /\ ~file.open /\ file.size = "torn"
  /\ file' = [file EXCEPT !.open = TRUE]
  /\ UNCHANGED <<const, events, daemon, patched, installed, missed>>

\* Another downloader writes elsewhere and renames.
MoveIn ==
  /\ ~file.open /\ file.version < MaxVersion
  /\ file' = [version |-> file.version + 1, size |-> "whole", open |-> FALSE]
  /\ events' = Event("download", "move")
  /\ daemon' = [daemon EXCEPT !.gone = (daemon.at = "read")]
  /\ missed' = (daemon.at = "down")
  /\ UNCHANGED <<const, patched, installed>>

Delete ==
  /\ ~file.open /\ file.size # "absent"
  /\ file' = [file EXCEPT !.size = "absent"]
  /\ daemon' = [daemon EXCEPT !.gone = (daemon.at = "read")]
  /\ UNCHANGED <<const, events, patched, installed, missed>>

-----------------------------------------------------------------------------
(* The daemon                                                              *)

\* watch: only what happens from now on is seen.
Start ==
  /\ daemon.at = "down"
  /\ daemon' = Idle
  /\ UNCHANGED <<const, file, events, patched, installed, missed>>

Crash ==
  /\ daemon.at # "down"
  /\ daemon' = [Idle EXCEPT !.at = "down"]
  /\ events' = <<>>
  /\ missed' = TRUE
  /\ UNCHANGED <<const, file, patched, installed>>

\* Mutant of Candidate: only the creation of a file is looked at.
CandidateNew(event) == event[1] = "download" /\ event[2] = "create"

\* is_carcar_apk_filename: any watched event of the name, not of the daemon's
\* own output.
Candidate(event) == event[1] = "download"

Take ==
  /\ daemon.at = "idle"
  /\ events # <<>>
  /\ events' = Tail(events)
  /\ daemon' = IF Candidate(Head(events)) THEN [daemon EXCEPT !.at = "stat"]
               ELSE daemon
  /\ UNCHANGED <<const, file, patched, installed, missed>>

\* handle_one: gone or too small, or the file is opened.
Stat ==
  /\ daemon.at = "stat"
  /\ daemon' = IF file.size \in {"absent", "small"} THEN Idle
               ELSE [daemon EXCEPT !.at = "read", !.version = file.version,
                                   !.whole = (file.size = "whole")]
  /\ UNCHANGED <<const, file, events, patched, installed, missed>>

\* Mutant of Processed: a failure in the pipeline is logged and no more.
ProcessedAnyway(version, whole) ==
  IF whole
  THEN [daemon EXCEPT !.at = "create", !.version = version, !.whole = TRUE,
                      !.gone = FALSE]
  ELSE Idle

\* What comes of the bytes that were read: nothing unless they are a complete
\* archive (its directory is at the end) that can be patched and signed.  It is
\* made in memory, so an error leaves nothing on the disk.
Processed(version, whole) ==
  IF whole /\ product # NotAZip
  THEN [daemon EXCEPT !.at = "create", !.version = version, !.whole = TRUE,
                      !.gone = FALSE]
  ELSE Idle

\* The file as it was opened, or, if it was still growing, perhaps the whole.
Read ==
  /\ daemon.at = "read"
  /\ \/ daemon' = Processed(daemon.version, daemon.whole)
     \/ /\ ~daemon.whole /\ ~daemon.gone /\ file.size = "whole"
        /\ daemon' = Processed(file.version, TRUE)
  /\ UNCHANGED <<const, file, events, patched, installed, missed>>

\* fs::write creates or truncates the intermediate ...
CreateOutput ==
  /\ daemon.at = "create"
  /\ patched' = None
  /\ events' = Event("intermediate", "create")
  /\ daemon' = [daemon EXCEPT !.at = "write"]
  /\ UNCHANGED <<const, file, installed, missed>>

\* ... and fills and closes it.
WriteOutput ==
  /\ daemon.at = "write"
  /\ patched' = daemon.version
  /\ events' = Event("intermediate", "close")
  /\ daemon' = [daemon EXCEPT !.at = "install"]
  /\ UNCHANGED <<const, file, installed, missed>>

\* Mutant of WriteOutputFails: a short write goes unnoticed.
WriteOutputFailsUnnoticed ==
  /\ daemon.at = "write"
  /\ events' = Event("intermediate", "close")
  /\ daemon' = [daemon EXCEPT !.at = "install"]
  /\ missed' = TRUE
  /\ UNCHANGED <<const, file, patched, installed>>

\* The disk is full: the torn intermediate stays.
WriteOutputFails ==
  /\ daemon.at = "write"
  /\ events' = Event("intermediate", "close")
  /\ daemon' = Idle
  /\ missed' = TRUE
  /\ UNCHANGED <<const, file, patched, installed>>

\* pm install reads the intermediate.
Install ==
  /\ daemon.at = "install"
  /\ installed' = patched
  /\ daemon' = [daemon EXCEPT !.at = "remove"]
  /\ UNCHANGED <<const, file, events, patched, missed>>

\* Mutant of InstallFails: it is tried again.
InstallFailsRetries ==
  /\ daemon.at = "install"
  /\ daemon' = [daemon EXCEPT !.at = "write"]
  /\ missed' = TRUE
  /\ UNCHANGED <<const, file, events, patched, installed>>

\* It fails: the intermediate stays.
InstallFails ==
  /\ daemon.at = "install"
  /\ daemon' = Idle
  /\ missed' = TRUE
  /\ UNCHANGED <<const, file, events, patched, installed>>

\* Best effort.
RemoveOutput ==
  /\ daemon.at = "remove"
  /\ patched' \in {None, patched}
  /\ daemon' = Idle
  /\ UNCHANGED <<const, file, events, installed, missed>>

-----------------------------------------------------------------------------

Downloader == Download \/ Grow \/ Close \/ Reopen \/ MoveIn \/ Delete
HandleOne == Stat \/ Read \/ CreateOutput \/ WriteOutput
             \/ WriteOutputFails \/ Install \/ InstallFails \/ RemoveOutput
Daemon == Take \/ HandleOne

Next == Downloader \/ Start \/ Crash \/ Daemon

Spec == Init /\ [][Next]_vars

\* Once started the daemon's thread runs; nobody promises a download or a
\* restart.
FairSpec == Spec /\ WF_vars(Daemon)

-----------------------------------------------------------------------------
(* Properties                                                              *)

\* What one instruction becomes: a read of the field the constant, everything
\* else itself, payload data that looks like a read included.
Clamped(instruction) ==
  IF opcode(instruction[1]) \in Sgets /\ instruction[2] = app.field
  THEN <<256 * high(instruction[1]) + Const16, CLAMPED_SDK_INT>>
  ELSE instruction

Dexes ==
  {product.entries[k].data : k \in {j \in DOMAIN product.entries :
                                      product.entries[j].kind = "dex"}}

\* What has been installed is without the old signature; in its methods every
\* read of SDK_INT is replaced and nothing else is touched.
InstalledIsClamped ==
  daemon.at = "remove" =>
    /\ \A k \in DOMAIN product.entries : product.entries[k].kind # "signature"
    /\ \A dex \in Dexes : \A o \in DOMAIN app.methods :
         dex.body.code[o] =
           FlattenSeq([k \in DOMAIN app.methods[o] |->
                         Clamped(app.methods[o][k])])

\* The runtime accepts its classes, since signature and checksum of each fit
\* it, and the package manager accepts the signature of the whole.
PlatformAccepts ==
  daemon.at = "remove" =>
    /\ \A dex \in Dexes : HeaderFits(dex)
    /\ Verifies(product.signature)

\* It is what was read last, and never the rest of a write that failed or of
\* an earlier run.
NothingTorn == daemon.at = "remove" => installed = daemon.version

\* A complete download that can be patched is installed, however it came and
\* whatever the daemon was doing, unless it is replaced or removed or the
\* daemon is killed or fails to write or to install.
DropInstalled ==
  \A v \in 1..MaxVersion :
    LET There == file.version = v /\ file.size = "whole" /\ ~file.open /\ ~missed
    IN There /\ product # NotAZip ~> installed = v \/ ~There

\* The daemon comes to rest when the downloads are over: neither its own output
\* nor a failure sets it off again.
Settles ==
  file.version = MaxVersion ~>
    file.open \/ (daemon.at \in {"idle", "down"} /\ events = <<>>)

=============================================================================
