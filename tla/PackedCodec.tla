---------------------------- MODULE PackedCodec ----------------------------
(***************************************************************************)
(* The packed batch on the wire.  Python writes it, or the Rust executor   *)
(* does (/pack-batch, which checks what it wrote), and the contract reads  *)
(* it; each has its own code, and the contract commits to the hash of the  *)
(* bytes.                                                                  *)
(*                                                                         *)
(* A batch is a list of fields <<bytes, value>> whose counts say how many  *)
(* follow, each written with its most significant byte first.  Bytes,      *)
(* widths and limits are scaled down; addresses and ids are numbers, and   *)
(* the data of a leg is one number of as many bytes as it has.             *)
(***************************************************************************)
EXTENDS Integers, Sequences, SequencesExt

CONSTANTS
  Base,                   \* values of a byte: 256
  Radix,                  \* values of a digit in a request: 10
  Address,                \* bytes of an address: 20
  Word,                   \* bytes of a uint256: 32
  Block,                  \* bytes of a block number or a time: 8
  Length,                 \* bytes of the length of a leg's data: 2
  PACKED_VERSION,         \* 1
  MAX_PACKED_CANDIDATES,  \* 8
  MAX_PACKED_LEGS,        \* 4
  MAX_PACKED_LEG_DATA,    \* 2048
  Refused                 \* ValueError, Err, revert

\* base to the power n.
Power(base, n) ==
  LET upTo[i \in 0 .. n] == IF i = 0 THEN 1 ELSE base * upTo[i - 1]
  IN upTo[n]

ASSUME PackedCodecAssumption ==
  /\ Base \in Nat \ {0, 1} /\ Radix \in 2 .. Base
  /\ {Address, Word, Block, Length} \subseteq Nat \ {0}
  /\ {PACKED_VERSION, MAX_PACKED_CANDIDATES, MAX_PACKED_LEGS} \subseteq 1 .. Base - 1
  /\ MAX_PACKED_LEG_DATA \in 0 .. Power(Base, Length) - 1
  /\ Refused \notin Nat \cup Seq(Nat) \cup Seq(Nat \X Nat)

-----------------------------------------------------------------------------
(* Seeded faults, as in BaseArbExecutor.                                   *)

\* Bytes after the last field are ignored.
PrefixRead(s) == s.ok

\* A version is not looked at.
AnyVersion(raw) == TRUE

\* The least significant byte is written first.
LittleEndian(value, bytes) == [i \in 1 .. bytes |-> (value \div Power(Base, i - 1)) % Base]

-----------------------------------------------------------------------------
(* encode_packed_batch.                                                    *)

_u(value, bytes) == [i \in 1 .. bytes |-> (value \div Power(Base, bytes - i)) % Base]

LegFields(leg) ==
  <<<<Address, leg.adapter>>, <<Address, leg.token_in>>, <<Address, leg.token_out>>,
    <<Word, leg.min_out>>, <<Length, leg.data[1]>>, leg.data>>

CandidateFields(candidate) ==
  <<<<Word, candidate.candidate_id>>, <<Word, candidate.min_profit>>,
    <<1, Len(candidate.legs)>>>>
  \o FlattenSeq([i \in DOMAIN candidate.legs |-> LegFields(candidate.legs[i])])

Fields(batch) ==
  <<<<1, PACKED_VERSION>>, <<1, Len(batch.candidates)>>, <<Address, batch.asset>>,
    <<Word, batch.amount>>, <<Block, batch.target_block>>, <<Block, batch.deadline>>>>
  \o FlattenSeq([i \in DOMAIN batch.candidates |->
                   CandidateFields(batch.candidates[i])])

Written(fields) == FlattenSeq([i \in DOMAIN fields |-> _u(fields[i][2], fields[i][1])])

Encodable(batch) ==
  /\ Len(batch.candidates) \in 1 .. MAX_PACKED_CANDIDATES
  /\ \A i \in DOMAIN batch.candidates :
       LET legs == batch.candidates[i].legs
       IN /\ Len(legs) \in 2 .. MAX_PACKED_LEGS
          /\ \A j \in DOMAIN legs : /\ legs[j].token_in # legs[j].token_out
                                    /\ legs[j].data[1] <= MAX_PACKED_LEG_DATA
  /\ \A i \in DOMAIN Fields(batch) :
       Fields(batch)[i][2] < Power(Base, Fields(batch)[i][1])

encode_packed_batch(batch) ==
  IF Encodable(batch) THEN Written(Fields(batch)) ELSE Refused

-----------------------------------------------------------------------------
(* encode_batch.  Its request carries amounts as digits, which it turns    *)
(* into bytes by hand; addresses and ids are bytes in hex, blocks are u64. *)

Digits(value) ==
  LET size == CHOOSE n \in 1 .. value + 1 : /\ value < Power(Radix, n)
                                            /\ n = 1 \/ value >= Power(Radix, n - 1)
  IN [i \in 1 .. size |-> (value \div Power(Radix, size - i)) % Radix]

\* out times Radix, plus a digit; the carry goes from byte to byte.
WithDigit(out, digit) ==
  LET n == Len(out)
      carry[i \in 0 .. n] ==
        IF i = n THEN digit ELSE (out[i + 1] * Radix + carry[i + 1]) \div Base
      shifted == [i \in 1 .. n |-> (out[i] * Radix + carry[i]) % Base]
  IN IF carry[0] > 0 THEN <<carry[0]>> \o shifted ELSE shifted

decimal_to_be_bytes(digits, bytes) ==
  LET out[i \in 0 .. Len(digits)] ==
        IF i = 0 THEN <<0>>
        ELSE IF out[i - 1] = Refused THEN Refused
             ELSE LET next == WithDigit(out[i - 1], digits[i])
                  IN IF Len(next) > bytes THEN Refused ELSE next
  IN out[Len(digits)]

\* Padded on the left; the conversion leaves no zeros there to strip.
parse_uint(value, bytes) ==
  LET decoded == decimal_to_be_bytes(Digits(value), bytes)
  IN IF decoded = Refused THEN Refused
     ELSE [i \in 1 .. bytes - Len(decoded) |-> 0] \o decoded

Amounted(batch) ==
  {batch.amount} \cup
  UNION {{batch.candidates[i].min_profit} \cup
         {batch.candidates[i].legs[j].min_out : j \in DOMAIN batch.candidates[i].legs} :
           i \in DOMAIN batch.candidates}

Accepted(batch) ==
  /\ Len(batch.candidates) \in 1 .. MAX_PACKED_CANDIDATES
  /\ \A i \in DOMAIN batch.candidates :
       LET legs == batch.candidates[i].legs
       IN /\ Len(legs) \in 2 .. MAX_PACKED_LEGS
          /\ \A j \in DOMAIN legs : /\ legs[j].token_in # legs[j].token_out
                                    /\ legs[j].data[1] <= MAX_PACKED_LEG_DATA
  /\ \A value \in Amounted(batch) : parse_uint(value, Word) # Refused

LegBytes(leg) ==
  _u(leg.adapter, Address) \o _u(leg.token_in, Address) \o _u(leg.token_out, Address)
  \o parse_uint(leg.min_out, Word) \o _u(leg.data[1], Length)
  \o _u(leg.data[2], leg.data[1])

CandidateBytes(candidate) ==
  _u(candidate.candidate_id, Word) \o parse_uint(candidate.min_profit, Word)
  \o <<Len(candidate.legs)>>
  \o FlattenSeq([i \in DOMAIN candidate.legs |-> LegBytes(candidate.legs[i])])

encode_batch(batch) ==
  IF ~Accepted(batch) THEN Refused
  ELSE <<PACKED_VERSION, Len(batch.candidates)>> \o _u(batch.asset, Address)
       \o parse_uint(batch.amount, Word)
       \o _u(batch.target_block, Block) \o _u(batch.deadline, Block)
       \o FlattenSeq([i \in DOMAIN batch.candidates |->
                        CandidateBytes(batch.candidates[i])])

-----------------------------------------------------------------------------
(* _decodePacked.  A reader: the bytes, how many were read, the fields     *)
(* they made, and whether every check so far passed.                       *)

Value(bytes) ==
  LET upTo[i \in 0 .. Len(bytes)] ==
        IF i = 0 THEN 0 ELSE upTo[i - 1] * Base + bytes[i]
  IN upTo[Len(bytes)]

\* Past the end a read yields nothing and spoils the rest.
Read(s, bytes) ==
  IF s.o + bytes > Len(s.p)
  THEN [s EXCEPT !.ok = FALSE, !.fields = Append(@, <<bytes, 0>>)]
  ELSE [s EXCEPT !.o = @ + bytes,
                 !.fields = Append(@, <<bytes, Value(SubSeq(s.p, s.o + 1, s.o + bytes))>>)]

ReadAll(s, widths) ==
  LET upTo[i \in 0 .. Len(widths)] ==
        IF i = 0 THEN s ELSE Read(upTo[i - 1], widths[i])
  IN upTo[Len(widths)]

LastRead(s) == Last(s.fields)[2]
Checked(s, condition) == [s EXCEPT !.ok = @ /\ condition]

ReadLeg(s) ==
  LET t == ReadAll(s, <<Address, Address, Address, Word, Length>>)
  IN IF t.ok /\ LastRead(t) <= MAX_PACKED_LEG_DATA THEN Read(t, LastRead(t))
     ELSE Checked(t, FALSE)

ReadCandidate(s) ==
  LET t == ReadAll(s, <<Word, Word, 1>>)
      upTo[i \in 0 .. MAX_PACKED_LEGS] == IF i = 0 THEN t ELSE ReadLeg(upTo[i - 1])
  IN IF t.ok /\ LastRead(t) \in 2 .. MAX_PACKED_LEGS THEN upTo[LastRead(t)]
     ELSE Checked(t, FALSE)

AllRead(s) == s.ok /\ s.o = Len(s.p)

_decodePacked(p) ==
  LET version == Read([p |-> p, o |-> 0, fields |-> <<>>, ok |-> TRUE], 1)
      count == Read(Checked(version, LastRead(version) = PACKED_VERSION), 1)
      header == ReadAll(Checked(count, LastRead(count) \in 1 .. MAX_PACKED_CANDIDATES),
                        <<Address, Word, Block, Block>>)
      upTo[i \in 0 .. MAX_PACKED_CANDIDATES] ==
        IF i = 0 THEN header ELSE ReadCandidate(upTo[i - 1])
      batch == upTo[LastRead(count)]
  IN IF header.ok /\ AllRead(batch) THEN batch.fields ELSE Refused

-----------------------------------------------------------------------------
(* validate_batch_bytes: an offset, or Refused, and no values but counts.  *)

take(raw, o, n) == IF o = Refused \/ o + n > Len(raw) THEN Refused ELSE o + n

skip_leg(raw, o) ==
  LET fixed == take(raw, o, 3 * Address + Word)
      data == take(raw, fixed, Length)
  IN IF data = Refused THEN Refused
     ELSE LET data_len == Value(SubSeq(raw, fixed + 1, data))
          IN IF data_len > MAX_PACKED_LEG_DATA THEN Refused
             ELSE take(raw, data, data_len)

skip_candidate(raw, o) ==
  LET legs == take(raw, take(raw, o, 2 * Word), 1)
      upTo[i \in 0 .. MAX_PACKED_LEGS] ==
        IF i = 0 THEN legs ELSE skip_leg(raw, upTo[i - 1])
  IN IF legs = Refused THEN Refused
     ELSE IF raw[legs] \in 2 .. MAX_PACKED_LEGS THEN upTo[raw[legs]] ELSE Refused

VersionKnown(raw) == raw[1] = PACKED_VERSION

validate_batch_bytes(raw) ==
  LET header == 2 + Address + Word + 2 * Block
      upTo[i \in 0 .. MAX_PACKED_CANDIDATES] ==
        IF i = 0 THEN header ELSE skip_candidate(raw, upTo[i - 1])
  IN /\ Len(raw) >= header
     /\ VersionKnown(raw)
     /\ raw[2] \in 1 .. MAX_PACKED_CANDIDATES
     /\ upTo[raw[2]] = Len(raw)
=============================================================================
