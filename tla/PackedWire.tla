----------------------------- MODULE PackedWire -----------------------------
(***************************************************************************)
(* From the menu of a plan to the batch the contract reads: the planner    *)
(* composed with the codec.  The batch hash, which the contract marks as   *)
(* used, is the hash of the bytes.                                         *)
(***************************************************************************)
EXTENDS PackedBatchPlan, PackedCodec

CONSTANTS
  AddressOf, \* the addresses of the tokens cycles start from
  Legs,      \* the legs of a cycle, by route and first token
  Deadline   \* the deadline of every candidate

\* The blocks a plan may target.
Targets == 1 .. MaxBlock + 1 \cup {o \in Observations \ {None} : o > 0}

\* What a field of so many bytes can hold.
Within(bytes) == 0 .. Power(Base, bytes) - 1

\* The legs of a cycle, as RouteLeg and the quotes give them.
LegTypes ==
  [adapter : Within(Address), token_in : Within(Address), token_out : Within(Address),
   min_out : Within(Word), data : Nat \X Nat]

\* What is planned has the types of the contract, and cycles have as many legs
\* as it takes.  The encoder raises ValueError for anything else.
ASSUME PackedWireAssumption ==
  /\ MaxMenu <= MAX_PACKED_CANDIDATES
  /\ Routes \cup Amounts \cup {p \in Profits : p > 0} \subseteq Within(Word)
  /\ Targets \cup {Deadline} \subseteq Within(Block)
  /\ \A a \in Assets, r \in Routes :
       LET legs == Legs[r][a[r]]
       IN /\ AddressOf[a[r]] \in Within(Address)
          /\ legs \in Seq(LegTypes) /\ Len(legs) \in 2 .. MAX_PACKED_LEGS
          /\ \A i \in DOMAIN legs :
               /\ legs[i].token_in # legs[i].token_out
               /\ legs[i].data[1] <= MAX_PACKED_LEG_DATA
               /\ legs[i].data[2] \in Within(legs[i].data[1])

_to_candidate(r, token, profit) ==
  [candidate_id |-> r, min_profit |-> profit, legs |-> Legs[r][token]]

\* profit: of each candidate of the menu.
PackedBatch(menu, token, amount, target, profit) ==
  [asset |-> AddressOf[token], amount |-> amount, target_block |-> target,
   deadline |-> Deadline,
   candidates |-> [i \in DOMAIN menu |-> _to_candidate(menu[i], token, profit[i])]]

\* The batch of the plan, which has the loan of its first candidate.
Batch ==
  LET first == plan.menu[1]
  IN PackedBatch(plan.menu, asset[first], task[first].amount, task[first].target,
                 [i \in DOMAIN plan.menu |-> task[plan.menu[i]].profit])

Packed == plan.at \in {"simulate", "measure", "ready"}

-----------------------------------------------------------------------------
(* Correctness.  The sets below are constant: every batch of the instance  *)
(* is examined once, and the invariants say where the plans are.           *)

Menus == {m \in UNION {[1 .. n -> Routes] : n \in 1 .. MaxMenu} :
            \A i, j \in DOMAIN m : i # j => m[i] # m[j]}

\* The first tokens the cycles of a menu can share.
SharedTokens(m) ==
  {a[m[1]] : a \in {b \in Assets : \A i \in DOMAIN m : b[m[i]] = b[m[1]]}}

Batches ==
  UNION {{PackedBatch(m, token, amount, target, profit) :
            token \in SharedTokens(m), amount \in Amounts, target \in Targets,
            profit \in [DOMAIN m -> {p \in Profits : p > 0}]} : m \in Menus}

\* A batch cut short, one with a byte more, and one with a byte off by one.
Damaged(p) ==
  {SubSeq(p, 1, n) : n \in 0 .. Len(p) - 1}
    \cup {Append(p, byte) : byte \in {0, Base - 1}}
    \cup {[p EXCEPT ![i] = (@ + k) % Base] : i \in DOMAIN p, k \in {1, Base - 1}}

ReadBack ==
  {b \in Batches : _decodePacked(encode_packed_batch(b)) = Fields(b)}

\* The contract reads exactly the batch that was planned and simulated: loan,
\* blocks, candidates in order, and the legs and data of each
\* (encode_packed_batch, _decodePacked).
PlanIsReadBack == Packed => Batch \in ReadBack

Canonical ==
  {b \in Batches :
     \A p \in Damaged(encode_packed_batch(b)) \ {encode_packed_batch(b)} :
       LET fields == _decodePacked(p)
       IN fields # Refused => fields # Fields(b) /\ p = Written(fields)}

\* No other bytes stand for the batch: a stream near it is refused, or is the
\* one encoding of another batch.  So the hash of the bytes, by which the
\* contract refuses to execute twice, identifies the batch (_decodePacked).
BytesAreCanonical == Packed => Batch \in Canonical

\* The batch, and batches that must be refused: an amount that does not fit, too
\* many or too few legs, a leg from a token to itself, data that is too long.
Variants(b) ==
  LET first == b.candidates[1]
      With(legs) == [b EXCEPT !.candidates[1].legs = legs]
  IN {b, [b EXCEPT !.amount = Power(Base, Word) - 1], [b EXCEPT !.amount = Power(Base, Word)],
      [b EXCEPT !.candidates[1].min_profit = Power(Base, Word)],
      [b EXCEPT !.candidates = <<>>],
      With(SubSeq(first.legs, 1, 1)),
      With(first.legs \o first.legs),
      With([first.legs EXCEPT ![1].token_out = first.legs[1].token_in]),
      With([first.legs EXCEPT ![2].data = <<MAX_PACKED_LEG_DATA + 1, 0>>])}

Agreed ==
  {b \in Batches :
     /\ \A v \in Variants(b) : encode_batch(v) = encode_packed_batch(v)
     /\ \A p \in Damaged(encode_packed_batch(b)) \cup {encode_packed_batch(b)} :
          validate_batch_bytes(p) <=> _decodePacked(p) # Refused}

\* The Rust executor writes the same bytes as Python, though it converts the
\* amounts digit by digit, and refuses the same batches (encode_batch); and it
\* finds bytes valid exactly if the contract can read them, though it checks
\* only lengths and counts (validate_batch_bytes).
RustAgrees == Packed => Batch \in Agreed
=============================================================================
