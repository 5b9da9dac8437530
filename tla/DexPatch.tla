------------------------------- MODULE DexPatch -------------------------------
(***************************************************************************)
(* The DEX patcher of aabox-resigner (dex.rs): find the field              *)
(* Build.VERSION.SDK_INT, walk every method's instructions and replace     *)
(* each read of that field by the constant 35.                             *)
(*                                                                         *)
(* Instructions and class data keep their encoding, because the walk is    *)
(* what can go wrong: a code unit is a number below 2^16 (opcode in its    *)
(* low byte), class data a sequence of bytes.  The id tables are sequences *)
(* (indices count from 0), code items are found by their offset, and a     *)
(* digest is the data it was taken of.                                     *)
(***************************************************************************)
EXTENDS Integers, Sequences, SequencesExt

CONSTANT Failed        \* the result of a read that is an error
NotFound == -1         \* an id table has no such entry

CLAMPED_SDK_INT == 35
Const16 == 19          \* 0x13, the opcode that replaces the read
Sgets == 96..102       \* 0x60..0x66

opcode(unit) == unit % 256
high(unit) == unit \div 256

-----------------------------------------------------------------------------
(* The instructions of one method                                          *)

\* Mutant of CodeUnits: const-wide, the only format of five units, has three.
CodeUnitsNoWide(op) ==
  CASE op \in {3, 6, 9, 20, 23, 24, 27} \cup 36..38 \cup 42..44 \cup 110..114
              \cup 116..120 \cup 238..240 \cup {252, 253} -> 3
    [] op \in {250, 251} -> 4
    [] op \in 62..67 \cup {115, 121, 122} \cup 243..249 -> 0
    [] op \in {0, 1, 4, 7} \cup 10..18 \cup {29, 30, 33, 39, 40}
              \cup 123..143 \cup 176..207 \cup {236, 241} -> 1
    [] OTHER -> 2

\* OPCODE_LENGTH_CODE_UNITS, with 0 for an opcode that is not used.
CodeUnits(op) ==
  CASE op \in {3, 6, 9, 20, 23, 27} \cup 36..38 \cup 42..44 \cup 110..114
              \cup 116..120 \cup 238..240 \cup {252, 253} -> 3
    [] op \in {250, 251} -> 4
    [] op = 24 -> 5
    [] op \in 62..67 \cup {115, 121, 122} \cup 243..249 -> 0
    [] op \in {0, 1, 4, 7} \cup 10..18 \cup {29, 30, 33, 39, 40}
              \cup 123..143 \cup 176..207 \cup {236, 241} -> 1
    [] OTHER -> 2

\* Mutant of PayloadUnits: the odd last byte of an array is not rounded up.
PayloadUnitsRoundsDown(insns, i) ==
  CASE high(insns[i]) = 1 -> 4 + 2 * insns[i + 1]
    [] high(insns[i]) = 2 -> 2 + 4 * insns[i + 1]
    [] high(insns[i]) = 3 -> 4 + (insns[i + 1] * insns[i + 2]) \div 2
    [] OTHER -> 1

\* A nop, or one of the tables stored between the instructions: the targets
\* of a packed switch, those of a sparse one, or the elements of an array (the
\* upper half of its 32-bit size is 0 below 65536 elements).
PayloadUnits(insns, i) ==
  CASE high(insns[i]) = 1 -> 4 + 2 * insns[i + 1]
    [] high(insns[i]) = 2 -> 2 + 4 * insns[i + 1]
    [] high(insns[i]) = 3 -> 4 + (insns[i + 1] * insns[i + 2] + 1) \div 2
    [] OTHER -> 1

\* The payload's size fields, or the whole instruction, must be there.
CutShort(insns, i) ==
  LET op == opcode(insns[i])
      needs == IF op # 0 THEN CodeUnits(op)
               ELSE CASE high(insns[i]) \in {1, 2} -> 2
                      [] high(insns[i]) = 3 -> 4
                      [] OTHER -> 1
  IN i + needs > Len(insns) + 1

\* How far the walk advances; an unknown opcode counts one unit.
Advance(insns, i) ==
  LET op == opcode(insns[i])
  IN IF op = 0 THEN PayloadUnits(insns, i)
     ELSE IF CodeUnits(op) = 0 THEN 1 ELSE CodeUnits(op)

\* The places the walk stops at, from the first unit on.
Visited(insns) ==
  LET from[i \in 1..Len(insns)] ==
        IF CutShort(insns, i) THEN {}
        ELSE LET next == i + Advance(insns, i)
             IN {i} \cup IF next > Len(insns) THEN {} ELSE from[next]
  IN IF insns = <<>> THEN {} ELSE from[1]

\* Where the field is read.
Reads(insns, field) ==
  {i \in Visited(insns) : opcode(insns[i]) \in Sgets /\ insns[i + 1] = field}

\* rewrite_sget_in_insns: sget vAA, field becomes const/16 vAA, 35.
Rewritten(insns, field) ==
  LET reads == Reads(insns, field)
  IN [i \in DOMAIN insns |->
        CASE i \in reads -> 256 * high(insns[i]) + Const16
          [] i - 1 \in reads -> CLAMPED_SDK_INT
          [] OTHER -> insns[i]]

-----------------------------------------------------------------------------
(* The class data that lead to the methods                                 *)

\* Mutant of read_uleb128: the first byte holds the most significant bits.
read_uleb128_reversed(buf, p) ==
  LET ends == {k \in 0..4 : p + k <= Len(buf) /\ buf[p + k] < 128}
      last == CHOOSE k \in ends : \A j \in ends : k <= j
      bits(k) == IF k > last THEN 0 ELSE buf[p + last - k] % 128
  IN IF ends = {} THEN <<>>
     ELSE <<p + last + 1,
            bits(0) + 128 * (bits(1) + 128 * (bits(2) + 128 * (bits(3) + 128 * bits(4))))>>

\* At most five bytes of seven bits, the least significant first: where the
\* next number begins, and this one.  A number that is cut short or does not
\* end is an error, <<>>.  (Sizes and offsets are below 2^31, so the lost bits
\* of the fifth byte do not matter.)
read_uleb128(buf, p) ==
  LET ends == {k \in 0..4 : p + k <= Len(buf) /\ buf[p + k] < 128}
      last == CHOOSE k \in ends : \A j \in ends : k <= j
      bits(k) == IF k > last THEN 0 ELSE buf[p + k] % 128
  IN IF ends = {} THEN <<>>
     ELSE <<p + last + 1,
            bits(0) + 128 * (bits(1) + 128 * (bits(2) + 128 * (bits(3) + 128 * bits(4))))>>

\* The numbers read one behind the other, up to the first error.
Numbers(buf) ==
  LET from[p \in 1..Len(buf)] ==
        LET read == read_uleb128(buf, p)
        IN IF read = <<>> THEN <<>>
           ELSE <<read[2]>> \o IF read[1] > Len(buf) THEN <<>> ELSE from[read[1]]
  IN IF buf = <<>> THEN <<>> ELSE from[1]

\* Mutant of MethodsAt: an instance field is one number, not two.
MethodsAtShort(sizes) == 4 + 2 * sizes[1] + sizes[2]

\* Where the methods begin: behind the four sizes and two numbers per field.
MethodsAt(sizes) == 4 + 2 * (sizes[1] + sizes[2])

\* The third number of every method, its code offset.
CodeOffsets(numbers) ==
  LET methods == numbers[3] + numbers[4]
      first == MethodsAt(numbers)
      there == (Len(numbers) - first) \div 3
  IN IF Len(numbers) < 4 \/ Len(numbers) < first THEN <<>>
     ELSE [m \in 1..(IF there < methods THEN there ELSE methods) |->
             numbers[first + 3 * m]]

\* Mutant of Walked: a method without code ends the class.
WalkedToAbstract(body, offsets) ==
  {offsets[m] : m \in {k \in DOMAIN offsets :
     \A j \in 1..k : offsets[j] \in DOMAIN body.code}}

\* walk_one_class_data: the code items of one class.  Code that lies outside
\* the file ends the walk of this class.
Walked(body, offsets) ==
  {offsets[m] : m \in {k \in DOMAIN offsets :
     /\ offsets[k] # 0
     /\ \A j \in 1..k : offsets[j] = 0 \/ offsets[j] \in DOMAIN body.code}}

\* walk_code_items: a class that cannot be parsed is skipped, and so is one
\* without data.
walk_code_items(body) ==
  UNION {Walked(body, CodeOffsets(Numbers(body.classes[c]))) :
           c \in {k \in DOMAIN body.classes : body.classes[k] # <<>>}}

-----------------------------------------------------------------------------
(* The file                                                                *)

\* find_string_idx, find_type_idx, find_field_idx: the first entry that is
\* equal.
find_idx(table, entry) ==
  IF Contains(table, entry)
  THEN (CHOOSE i \in DOMAIN table :
          table[i] = entry /\ \A j \in 1..i - 1 : table[j] # entry) - 1
  ELSE NotFound

\* Each lookup needs the result of the one before; one miss ends the search.
SdkIntField(body) ==
  LET sdk_int == find_idx(body.strings, "SDK_INT")
      i_type == find_idx(body.types, find_idx(body.strings, "I"))
      build_ver == find_idx(body.types,
                            find_idx(body.strings, "Landroid/os/Build$VERSION;"))
  IN find_idx(body.fields,
              [class |-> build_ver, type |-> i_type, name |-> sdk_int])

\* Mutant of recompute_header_checksums: the checksum before the signature.
recompute_checksum_first(dex) ==
  [dex EXCEPT !.sha = dex.body, !.adler = [sha |-> dex.sha, body |-> dex.body]]

\* The signature covers the body, the checksum both.
recompute_header_checksums(dex) ==
  [dex EXCEPT !.sha = dex.body, !.adler = [sha |-> dex.body, body |-> dex.body]]

\* What the runtime checks of a file before it uses its classes (external).
HeaderFits(dex) ==
  dex.sha = dex.body /\ dex.adler = [sha |-> dex.body, body |-> dex.body]

\* Only a file in which something was patched gets new checksums.
patch_dex(dex) ==
  LET body == dex.body
      field == SdkIntField(body)
      walked == walk_code_items(body)
      patched == [body EXCEPT !.code =
                    [o \in DOMAIN @ |->
                       IF o \in walked THEN Rewritten(@[o], field) ELSE @[o]]]
  IN IF ~dex.valid THEN Failed
     ELSE IF field = NotFound \/ \A o \in walked : Reads(body.code[o], field) = {}
     THEN dex
     ELSE recompute_header_checksums([dex EXCEPT !.body = patched])

=============================================================================
