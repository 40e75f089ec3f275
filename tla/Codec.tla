------------------------------- MODULE Codec -------------------------------
(***************************************************************************)
(* The binary encodings: rule sets and round states (protocol-types'       *)
(* serialisation.ts, rule-set-codec.ts, serialise.ts), transactions        *)
(* (tx-builder's encode.ts) and wire frames (wire-ts's frame.ts).  A       *)
(* message is written field by field, arrives whole, cut off, or with      *)
(* other bytes behind it, and is read field by field.                      *)
(*                                                                         *)
(* A format is the sequence of the message's fields.  A list or an option  *)
(* is a field for its length, which puts the fields of its elements on the *)
(* plan when it is written or read.  Bytes are digits of base B (256 in    *)
(* the code); numbers have the code's widths, while a type tag, a magic    *)
(* and the zeros in place of the state hash are one byte, which has to be  *)
(* the right one.  A value is a sequence: a number n is <<n>>.             *)
(***************************************************************************)
EXTENDS Integers, Sequences, SequencesExt

CONSTANTS B, MaxSafeInteger,    \* the base; Number.MAX_SAFE_INTEGER
          HashBytes,        \* 32
          InitialCapacity,  \* 256
          Utf8Cap,          \* MAX_RESERVED_TRAILING
          MaxPayload,       \* MAX_PAYLOAD_SIZE
          MaxOdd            \* bound on the fields that are not 0 or empty

(* The values that fit w bytes. *)
Power[w \in 0 .. 8] == IF w = 0 THEN 1 ELSE Power[w - 1] * B

ASSUME CodecAssumption ==
    /\ B \in Nat /\ B >= 4
    /\ {HashBytes, InitialCapacity} \subseteq Nat \ {0}
    /\ {MaxSafeInteger, Utf8Cap, MaxPayload, MaxOdd} \subseteq Nat
    /\ MaxSafeInteger < Power[8] /\ MaxPayload < Power[4]

VARIABLES phase,            \* "write", "read", "accepted" or "rejected"
          format, plan,     \* the fields still to be written or read
          values, odd,      \* what was written; how many are not 0 or empty
          buf, offset,      \* the writer's buffer and its length
          data, behind,     \* what arrived, and what its buffer holds behind
          pos, got          \* the reader's position and what it has read

cvars == <<phase, format, plan, values, odd, buf, offset, data, behind, pos, got>>

-----------------------------------------------------------------------------
(* Fields. *)

Field(type, width, parts) == [type |-> type, width |-> width, parts |-> parts]
U8 == Field("uint", 1, << >>)
U16 == Field("uint", 2, << >>)
U32 == Field("uint", 4, << >>)
U64 == Field("safe", 8, << >>)          \* a number: at most MaxSafeInteger
Big64 == Field("uint", 8, << >>)        \* a bigint
I32 == Field("int", 4, << >>)
Flag == Field("bool", 1, << >>)
Bytes32 == Field("raw", HashBytes, << >>)
Varint == Field("varint", 0, << >>)
Bytes == Field("bytes", 0, << >>)
NonEmpty == Field("bytes", 1, << >>)    \* '' is written as no string at all
Utf8 == Field("utf8", 0, << >>)
Payload == Field("payload", 4, << >>)
Multiplier == Field("multiplier", 4, << >>)
Among(codes) == Field("among", 1, codes) \* anything else is refused
List(parts) == Field("list", 0, parts)
Optional(part) == Field("optional", 1, <<part>>)

(* rule-set-codec.ts *)
DefaultsFormat == <<List(<<Utf8, Utf8>>)>>
PenaltyFormat == <<U64, U64, U64, U64>>
SettlementFormat == <<Multiplier, Multiplier, U64, U64>>
RecoveryFormat == <<Flag, Flag, Flag>>
RuleSetFormat ==
    <<Among(<<1>>), Among(<<1>>), U8, U8, U64, U64, U64, U32, U32, U32>> \o DefaultsFormat
      \o PenaltyFormat \o <<Among(<<2, 3>>), U8>> \o SettlementFormat \o RecoveryFormat

(* serialise.ts, which has no reader: that a state can be read back is what *)
(* makes its hash binding.  player_id and the tail of the key are Bytes32. *)
PreferencesFormat == <<List(<<Bytes, Bytes>>)>>
PlayerFormat ==
    <<Among(<<2>>), Among(<<1>>), U32, Bytes32, Bytes32, Bytes, U64, Optional(NonEmpty),
      Flag, Optional(Bytes32), Flag, Optional(Bytes32), List(<<Bytes>>)>> \o PreferencesFormat
ConcealedCardFormat ==
    <<Among(<<3>>), Among(<<1>>), U32, Bytes32, Bytes32, Bytes, Bytes, Bytes32, Bytes>>
VisibleCardsFormat == <<List(<<U8>>)>>
RoundStateFormat ==
    <<Among(<<1>>), Among(<<1>>), Bytes, Bytes32, Bytes32, U32, Optional(U32), List(PlayerFormat), U64>>
      \o VisibleCardsFormat
      \o <<List(<<Bytes32>>), List(<<Bytes>>), Optional(U32), Optional(U32), List(<<Bytes32>>),
           Optional(Bytes32), Optional(Bytes32), Optional(List(ConcealedCardFormat)),
           Optional(Bytes32), Among(<<0>>)>>

(* encode.ts *)
InputFormat == <<Bytes32, U32, Bytes, U32>>
OutputFormat == <<Big64, Bytes>>
TxFormat == <<I32, List(InputFormat), List(OutputFormat), U32>>

(* frame.ts *)
FrameFormat == <<Among(<<3>>), U16, U16, Payload>>

(* A list of numbers of every length, for the limits of varints. *)
CountsFormat == <<Varint, Varint>>

Formats == [RuleSet |-> RuleSetFormat, RoundState |-> RoundStateFormat, Tx |-> TxFormat,
            Frame |-> FrameFormat, Counts |-> CountsFormat]

-----------------------------------------------------------------------------
(* Writing. *)

(* The digits of n, the least first. *)
LE(n, width) ==
    LET rest[k \in 0 .. width] == IF k = 0 THEN n ELSE rest[k - 1] \div B
    IN  [k \in 1 .. width |-> rest[k - 1] % B]

VarintBytes(n) ==
    IF n < B - 3 THEN <<n>>
    ELSE IF n < Power[2] THEN <<B - 3>> \o LE(n, 2)
    ELSE IF n < Power[4] THEN <<B - 2>> \o LE(n, 4)
    ELSE <<B - 1>> \o LE(n, 8)

(* Stands for a digest: it tells payloads apart that differ in one byte or *)
(* in their length.                                                        *)
checksumOf(payload) ==
    LET sum[k \in 0 .. Len(payload)] == IF k = 0 THEN 0 ELSE sum[k - 1] + payload[k] + 1
    IN  sum[Len(payload)] % Power[4]

Encoded(f, v) ==
    CASE f.type \in {"uint", "safe", "bool"} -> LE(v[1], f.width)
      [] f.type \in {"int", "multiplier"} -> LE(IF v[1] < 0 THEN v[1] + Power[4] ELSE v[1], 4)
      [] f.type \in {"among", "optional", "raw"} -> v
      [] f.type \in {"varint", "list"} -> VarintBytes(v[1])
      [] f.type \in {"bytes", "utf8"} -> VarintBytes(Len(v)) \o v
      [] f.type = "payload" -> LE(Len(v), 4) \o LE(checksumOf(v), 4) \o v

(* The fields of the elements; those of a map come in the order of keys.   *)
ElementFields(f, v) ==
    IF f.type \in {"list", "optional"}
    THEN [k \in 1 .. v[1] * Len(f.parts) |-> f.parts[((k - 1) % Len(f.parts)) + 1]] ELSE << >>

(* Values at the limits of a field, 0 or empty first.  One past the limit  *)
(* is offered where the writer refuses it.  An unsigned field of w bytes   *)
(* has no such limit in the code: a number of more bytes is written as its *)
(* low ones, without an error.  Those are left out, so that what is said   *)
(* of reading back holds for callers that keep to the width of the field.  *)
Zeros(n) == [k \in 1 .. n |-> 0]
Limits(f) ==
    CASE f.type = "uint" -> <<<<0>>, <<Power[f.width - 1]>>, <<Power[f.width] - 1>>>>
      [] f.type = "safe" -> <<<<0>>, <<Power[4]>>, <<MaxSafeInteger>>, <<MaxSafeInteger + 1>>>>
      [] f.type = "int" -> <<<<0>>, <<-1>>, <<Power[4] \div 2 - 1>>>>
      [] f.type \in {"bool", "optional"} -> <<<<0>>, <<1>>>>
      [] f.type = "multiplier" -> <<<<0>>, <<Power[4] \div 2 - 1>>>>
      [] f.type = "among" -> [k \in DOMAIN f.parts |-> <<f.parts[k]>>]
      [] f.type = "raw" -> <<Zeros(f.width), <<B - 1>> \o Zeros(f.width - 1)>>
      [] f.type = "varint" -> <<<<0>>, <<B - 4>>, <<B - 3>>, <<B - 1>>, <<Power[2] - 1>>, <<Power[2]>>,
                                <<Power[4] - 1>>, <<Power[4]>>,
                                <<MaxSafeInteger>>, <<MaxSafeInteger + 1>>>>
      [] f.type = "list" -> <<<<0>>, <<1>>, <<2>>>>
      [] f.type \in {"bytes", "utf8"} ->
             SubSeq(<<<< >>, <<B - 1>>, Zeros(B - 3), Zeros(Power[2])>>, f.width + 1, 4)
      [] f.type = "payload" -> <<<< >>, <<B - 1>>, Zeros(MaxPayload), Zeros(MaxPayload + 1)>>

Writable(f, v) ==
    /\ f.type \in {"safe", "varint"} => v[1] <= MaxSafeInteger
    /\ f.type = "payload" => Len(v) <= MaxPayload

(* cap[k]: the capacity after k turns of the loop, or when it has ended. *)
Doubled(capacity, required) == IF capacity < required THEN capacity * 2 ELSE capacity

ensure(capacity, required) ==
    LET cap[k \in 0 .. required] ==
          IF k = 0 THEN capacity * 2 ELSE Doubled(cap[k - 1], required)
    IN  IF required <= capacity THEN capacity ELSE cap[required]

(* A CanonicalWriter grows; concat makes an array of exactly the total.    *)
Growing == {"RuleSet", "Counts"}
Capacity(required) ==
    IF format \in Growing THEN ensure(Len(buf), required) ELSE required

(* Bytes past the end of a typed array are lost. *)
Put(bytes) ==
    LET capacity == Capacity(offset + Len(bytes))
    IN  [k \in 1 .. capacity |->
            CASE k \in offset + 1 .. offset + Len(bytes) -> bytes[k - offset]
              [] k <= Len(buf) /\ k <= offset -> buf[k]
              [] OTHER -> 0]

Written == SubSeq(buf, 1, offset)

CodecInit ==
    /\ phase = "write"
    /\ \E name \in DOMAIN Formats : format = name /\ plan = Formats[name]
    /\ values = << >> /\ odd = 0
    /\ buf = (IF format \in Growing THEN Zeros(InitialCapacity) ELSE << >>)
    /\ offset = 0
    /\ data = << >> /\ behind = << >> /\ pos = 0 /\ got = << >>

WriteField(k) ==
    /\ phase = "write" /\ plan # << >>
    /\ LET f == Head(plan)
           v == Limits(f)[k]
       IN  /\ k \in DOMAIN Limits(f)
           /\ k > 1 => odd < MaxOdd
           /\ Writable(f, v)
           /\ buf' = Put(Encoded(f, v))
           /\ offset' = offset + Len(Encoded(f, v))
           /\ values' = Append(values, v)
           /\ plan' = ElementFields(f, v) \o Tail(plan)
           /\ odd' = IF k > 1 THEN odd + 1 ELSE odd
    /\ UNCHANGED <<phase, format, data, behind, pos, got>>

-----------------------------------------------------------------------------
(* The first n bytes arrive, as a buffer of their own or as a view of one  *)
(* that holds the rest as well; or all of them do, and more.               *)
Deliver(n, rest) ==
    /\ phase = "write" /\ plan = << >>
    /\ phase' = "read"
    /\ plan' = Formats[format]
    /\ data' = SubSeq(Written, 1, n) \o rest
    /\ behind' \in {<< >>, SubSeq(Written, n + 1, offset)}
    /\ UNCHANGED <<format, values, odd, buf, offset, pos, got>>

-----------------------------------------------------------------------------
(* Reading: the value and the new position, or no result where it throws.  *)

Take(n, at, available) ==
    IF at + n <= Len(available)
    THEN {[v |-> SubSeq(available, at + 1, at + n), pos |-> at + n]} ELSE {}

Value(digits) ==
    LET w == Len(digits)
        value[k \in 0 .. w] == IF k = 0 THEN 0 ELSE value[k - 1] * B + digits[w + 1 - k]
    IN  value[w]

(* A DataView is made over the whole buffer behind the view. *)
Reach == IF format = "Tx" THEN data \o behind ELSE data

readUint(width, at) ==
    {[v |-> <<Value(r.v)>>, pos |-> r.pos] :
        r \in Take(width, at, IF width = 1 THEN data ELSE Reach)}

readU64LE(at) == {r \in readUint(8, at) : r.v[1] <= MaxSafeInteger}

readVarint(at) ==
    UNION {CASE first.v[1] < B - 3 -> {first}
             [] first.v[1] = B - 3 -> readUint(2, first.pos)
             [] first.v[1] = B - 2 -> readUint(4, first.pos)
             [] first.v[1] = B - 1 -> IF format = "Tx" THEN readUint(8, first.pos)
                                      ELSE readU64LE(first.pos) :
           first \in readUint(1, at)}

readBytes(cap, at) ==
    UNION {Take(n.v[1], n.pos, data) : n \in {n \in readVarint(at) : n.v[1] <= cap}}

(* Fault: the sign is lost. *)
readI32Unsigned(at) == readUint(4, at)

readI32LE(at) ==
    {[r EXCEPT !.v[1] = IF @ < Power[4] \div 2 THEN @ ELSE @ - Power[4]] : r \in readUint(4, at)}

readPayload(at) ==
    UNION {UNION {{p \in Take(length.v[1], sum.pos, data) : checksumOf(p.v) = sum.v[1]} :
                     sum \in readUint(4, length.pos)} :
           length \in {n \in readUint(4, at) : n.v[1] <= MaxPayload}}

readField(f, at) ==
    CASE f.type = "uint" -> readUint(f.width, at)
      [] f.type = "safe" -> readU64LE(at)
      [] f.type = "multiplier" -> readUint(f.width, at)
      [] f.type = "int" -> readI32LE(at)
      [] f.type \in {"bool", "optional"} -> {r \in readUint(1, at) : r.v[1] \in {0, 1}}
      [] f.type = "among" -> {r \in readUint(1, at) : r.v[1] \in Range(f.parts)}
      [] f.type = "raw" -> Take(f.width, at, data)
      [] f.type \in {"varint", "list"} -> readVarint(at)
      [] f.type = "bytes" -> readBytes(Len(data), at)
      [] f.type = "utf8" -> readBytes(Utf8Cap, at)
      [] f.type = "payload" -> readPayload(at)

ReadField ==
    /\ phase = "read" /\ plan # << >>
    /\ \E r \in readField(Head(plan), pos) :
          /\ pos' = r.pos
          /\ got' = Append(got, r.v)
          /\ plan' = ElementFields(Head(plan), r.v) \o Tail(plan)
    /\ UNCHANGED <<phase, format, values, odd, buf, offset, data, behind>>

ReadThrows ==
    /\ phase = "read" /\ plan # << >>
    /\ readField(Head(plan), pos) = {}
    /\ phase' = "rejected"
    /\ UNCHANGED <<format, plan, values, odd, buf, offset, data, behind, pos, got>>

(* Fault: what is left over is not looked at. *)
ReadEndsAnyhow ==
    /\ phase = "read" /\ plan = << >>
    /\ phase' = "accepted"
    /\ UNCHANGED <<format, plan, values, odd, buf, offset, data, behind, pos, got>>

(* Only a transaction must end where its bytes do. *)
ReadEnds ==
    /\ phase = "read" /\ plan = << >>
    /\ phase' = IF format = "Tx" /\ pos # Len(data) THEN "rejected" ELSE "accepted"
    /\ UNCHANGED <<format, plan, values, odd, buf, offset, data, behind, pos, got>>

(* Only a message with at most one field that is not 0 or empty is cut.    *)
CodecNext ==
    \/ \E k \in 1 .. 10 : WriteField(k)
    \/ \E n \in 0 .. offset : odd <= 1 /\ Deliver(n, << >>)
    \/ \E rest \in {<< >>, <<0>>, <<1, 1>>} : Deliver(offset, rest)
    \/ ReadField
    \/ ReadThrows
    \/ ReadEnds

CodecSpec == CodecInit /\ [][CodecNext]_cvars

-----------------------------------------------------------------------------
(* Every encoding can be read back: whatever arrived, and however often    *)
(* the writer's buffer grew, the fields read so far are the first of those *)
(* written, with their values.                                             *)
ReadIsWritten == got = SubSeq(values, 1, Len(got))

(* readUtf8 refuses what writeUtf8 lets pass. *)
TooLong == format = "RuleSet" /\ \E k \in DOMAIN values : Len(values[k]) > Utf8Cap

(* A message is accepted exactly if it arrived whole and, for a            *)
(* transaction, nothing came with it; also when the cut is hidden by the   *)
(* bytes behind a view.  The reader ends where the message does, so the    *)
(* next one starts there.                                                  *)
AcceptedIsWhole ==
    /\ phase = "accepted" => pos = offset /\ Len(data) >= offset
    /\ phase = "accepted" /\ format = "Tx" => Len(data) = offset
    /\ phase = "rejected" =>
          Len(data) < offset \/ TooLong \/ (format = "Tx" /\ Len(data) > offset)
=============================================================================
