----------------------------- MODULE AccessUnits -----------------------------
(***************************************************************************)
(* Splitting an H.264 Annex-B byte stream into access units (nal.rs), and  *)
(* the screen recorder source that does it while the stream is still       *)
(* arriving (ScreenRecordVideoSource of source.rs).                        *)
(*                                                                         *)
(* The recorder's stdout returns any number of bytes per read, so a start  *)
(* code, a header or a payload may be cut anywhere.  The source may only   *)
(* hand out what can no longer grow.                                       *)
(***************************************************************************)
EXTENDS Naturals, Sequences, FiniteSets, SequencesExt

CONSTANTS
  Nals,      \* what the recorder encodes: [prefix, header, body] each
  ReadMax    \* the read buffer (65536 in the code)

\* nal_unit_type is the low five bits of the header byte.
SLICE_NON_IDR == 1
SLICE_IDR == 5

ASSUME SourceAssumption ==
  /\ Nals \in Seq([prefix : {3, 4}, header : 1..255, body : Seq(0..255)])
  /\ ReadMax \in Nat \ {0}

\* A finite set of numbers in ascending order.
Ascending(S) ==
  [k \in 1..Cardinality(S) |-> CHOOSE i \in S : Cardinality({j \in S : j < i}) = k - 1]

\* The bytes the recorder writes, NAL by NAL.
Encoded(nal) ==
  (IF nal.prefix = 4 THEN <<0, 0, 0, 1>> ELSE <<0, 0, 1>>)
    \o <<nal.header>> \o nal.body

Stream == FlattenSeq([i \in DOMAIN Nals |-> Encoded(Nals[i])])

-----------------------------------------------------------------------------
(* nal.rs.  Positions are from 1.                                          *)

ThreeAt(buf, i) ==
  i >= 1 /\ i + 2 <= Len(buf) /\ buf[i] = 0 /\ buf[i + 1] = 0 /\ buf[i + 2] = 1
FourAt(buf, i) == i >= 1 /\ buf[i] = 0 /\ ThreeAt(buf, i + 1)

\* What the comment at the top of nal.rs relies on: emulation prevention keeps
\* start codes out of a NAL.  And H.264 lets no NAL end with a zero.
ASSUME EmulationAssumption ==
  \A n \in ToSet(Nals) :
    /\ \A i \in DOMAIN n.body : ~ThreeAt(n.body, i)
    /\ n.body # <<>> => Last(n.body) # 0

\* start_code_offsets: a zero in front of 00 00 01 belongs to the start code.
StartCodes(buf) ==
  {i \in 1..Len(buf) : FourAt(buf, i) \/ (ThreeAt(buf, i) /\ ~FourAt(buf, i - 1))}

\* split_nals: from one start code to the next, the last to the end.
split_nals(buf) ==
  LET at == Ascending(StartCodes(buf))
      end(i) == IF i = Len(at) THEN Len(buf) ELSE at[i + 1] - 1
  IN [i \in DOMAIN at |-> SubSeq(buf, at[i], end(i))]

\* The header byte follows the prefix; a NAL without one has type 0.
nal_unit_type(nal) ==
  LET header == IF FourAt(nal, 1) THEN 5 ELSE 4
  IN IF header <= Len(nal) THEN nal[header] % 32 ELSE 0

is_slice(nut) == nut \in {SLICE_NON_IDR, SLICE_IDR}

HasType(au, types) ==
  \E i \in DOMAIN split_nals(au) : nal_unit_type(split_nals(au)[i]) \in types
au_has_idr(au) == HasType(au, {SLICE_IDR})
au_has_slice(au) == HasType(au, {SLICE_NON_IDR, SLICE_IDR})

\* group_access_units: a slice ends its unit, what trails is one of its own.
group_access_units(buf) ==
  LET nals == split_nals(buf)
      ends == Ascending({i \in DOMAIN nals : \/ is_slice(nal_unit_type(nals[i]))
                                             \/ i = Len(nals)})
      first(k) == IF k = 1 THEN 1 ELSE ends[k - 1] + 1
  IN [k \in DOMAIN ends |-> FlattenSeq(SubSeq(nals, first(k), ends[k]))]

\* Mutant of find_last_start_code: only four-byte prefixes are looked for.
find_last_four(buf) ==
  LET all == {i \in 1..Len(buf) : FourAt(buf, i)}
  IN IF all = {} THEN 0 ELSE CHOOSE i \in all : \A j \in all : j <= i

\* find_last_start_code, 0 when there is none.
find_last_start_code(buf) ==
  LET all == {i \in 1..Len(buf) : ThreeAt(buf, i)}
      last == CHOOSE i \in all : \A j \in all : j <= i
  IN IF all = {} THEN 0 ELSE IF FourAt(buf, last - 1) THEN last - 1 ELSE last

-----------------------------------------------------------------------------
(* ScreenRecordVideoSource                                                 *)

VARIABLES
  pos,        \* bytes of the stream read from stdout
  stdout,     \* stdout is open
  leftover,   \* bytes that do not form a complete unit yet
  queued,     \* complete units not handed out yet
  emitted     \* units handed out, with their keyframe flag

source == <<pos, stdout, leftover, queued, emitted>>

SourceInit ==
  /\ pos = 0
  /\ stdout = TRUE
  /\ leftover = <<>>
  /\ queued = <<>>
  /\ emitted = <<>>

\* next_frame hands out a queued unit.
EmitQueued ==
  /\ queued # <<>>
  /\ emitted' = Append(emitted, [au |-> Head(queued),
                                 keyframe |-> au_has_idr(Head(queued))])
  /\ queued' = Tail(queued)
  /\ UNCHANGED <<pos, stdout, leftover>>

\* Mutant of Complete: trailing parameter sets are a unit of their own.
CompleteKeepsTrailing(bytes) ==
  LET cut == find_last_start_code(bytes)
      aus == group_access_units(SubSeq(bytes, 1, cut - 1))
  IN IF cut <= 1 THEN [aus |-> <<>>, rest |-> bytes]
     ELSE [aus |-> aus, rest |-> SubSeq(bytes, cut, Len(bytes))]

\* What next_frame makes of its bytes: the units before the last start code,
\* without a last one that has no slice, which goes back to the front.
Complete(bytes) ==
  LET cut == find_last_start_code(bytes)
      aus == group_access_units(SubSeq(bytes, 1, cut - 1))
      rest == SubSeq(bytes, cut, Len(bytes))
  IN IF cut <= 1 THEN [aus |-> <<>>, rest |-> bytes]
     ELSE IF aus # <<>> /\ ~au_has_slice(Last(aus))
     THEN [aus |-> Front(aus), rest |-> Last(aus) \o rest]
     ELSE [aus |-> aus, rest |-> rest]

\* next_frame reads once more.
ReadStdout ==
  /\ queued = <<>> /\ stdout
  /\ \E n \in 1..ReadMax :
       /\ pos + n <= Len(Stream)
       /\ pos' = pos + n
       /\ LET done == Complete(leftover \o SubSeq(Stream, pos + 1, pos + n)) IN
            queued' = done.aus /\ leftover' = done.rest
  /\ UNCHANGED <<stdout, emitted>>

\* The recorder exits, or the streamer is cancelled and close() kills it:
\* next_frame answers None from now on, and leftover is dropped with us.
SourceEnds ==
  /\ queued = <<>> /\ stdout
  /\ stdout' = FALSE
  /\ UNCHANGED <<pos, leftover, queued, emitted>>

-----------------------------------------------------------------------------
(* Properties                                                              *)

\* The access units as encoded: NALs up to and including each slice.
SliceNals == Ascending({i \in DOMAIN Nals : is_slice(Nals[i].header % 32)})
ExpectedUnit(k) ==
  FlattenSeq([i \in 1..(SliceNals[k] - (IF k = 1 THEN 0 ELSE SliceNals[k - 1])) |->
              Encoded(Nals[i + (IF k = 1 THEN 0 ELSE SliceNals[k - 1])])])

\* However the recorder's output is cut into reads, what next_frame hands out
\* are the encoded access units, in order, whole, with the parameter sets in
\* the unit of the slice they precede.
WholeUnits ==
  /\ Len(emitted) <= Len(SliceNals)
  /\ \A k \in DOMAIN emitted :
       /\ emitted[k].au = ExpectedUnit(k)
       /\ emitted[k].keyframe = (Nals[SliceNals[k]].header % 32 = SLICE_IDR)

\* And a unit is held back only until the next start code has arrived.
NoneHeldBack ==
  \A k \in DOMAIN SliceNals :
    LET next == SliceNals[k] + 1 IN
    /\ next \in DOMAIN Nals
    /\ pos >= Len(FlattenSeq([i \in 1..SliceNals[k] |-> Encoded(Nals[i])]))
                + Nals[next].prefix
    => Len(emitted) + Len(queued) >= k

\* The units handed out are the units recorded, whole and without delay.
UnitsExact == WholeUnits /\ NoneHeldBack

-----------------------------------------------------------------------------
(* The inductive invariant behind UnitsExact.                              *)

\* Where in the stream a NAL ends, and which NAL ends a unit.
Offset(i) == Len(FlattenSeq([k \in 1..i |-> Encoded(Nals[k])]))
UnitEnd(k) == IF k = 0 THEN 0 ELSE SliceNals[k]

\* The units cut so far are the units encoded, and leftover is all that was
\* read behind them.
SourceInv ==
  LET cut == Len(emitted) + Len(queued) IN
    /\ emitted \in Seq([au : Seq(Nat), keyframe : BOOLEAN]) /\ queued \in Seq(Seq(Nat))
    /\ cut <= Len(SliceNals)
    /\ pos \in Offset(UnitEnd(cut))..Len(Stream)
    /\ leftover = SubSeq(Stream, Offset(UnitEnd(cut)) + 1, pos)
    /\ \A k \in DOMAIN queued : queued[k] = ExpectedUnit(Len(emitted) + k)
    /\ UnitsExact

=============================================================================
