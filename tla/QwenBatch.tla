------------------------------ MODULE QwenBatch ------------------------------
(***************************************************************************)
(* QwenTransformersBackend.batch_next_token_logits: prompts of different   *)
(* lengths are padded on the right to one tensor and run through the model *)
(* together; of each row the hidden state of its own last token is         *)
(* projected on the tokens that any row asks for, and each row picks its   *)
(* own out of them again.  It is given the batches of PrefixScan.          *)
(***************************************************************************)
EXTENDS PrefixScan, SequencesExt

CONSTANTS NoToken,         \* Python's None: the tokenizer declares no such token
          CandidateRows,   \* the tokens to score for a row
          PadAndEos        \* pad_token_id and eos_token_id of a tokenizer

ASSUME QwenAssumption ==
  \A tokens \in CandidateRows : tokens \in Seq(TokensIn(<<tokens>>))

MaxLength(rows) == Max({Len(rows[r]) : r \in DOMAIN rows})

PadToken(pad, eos) == IF pad # NoToken THEN pad ELSE eos

Ids(rows, filler) ==
  [r \in DOMAIN rows |-> [i \in 1 .. MaxLength(rows) |->
     IF i <= Len(rows[r]) THEN rows[r][i] ELSE filler]]

Mask(rows) == [r \in DOMAIN rows |-> [i \in 1 .. MaxLength(rows) |-> i <= Len(rows[r])]]

(* Faulty: the last column for every row. *)
LastIndicesOfTensor(rows) == [r \in DOMAIN rows |-> MaxLength(rows)]

LastIndices(rows) == [r \in DOMAIN rows |-> Len(rows[r])]

(* The text model: the hidden state at a position is of the token there,   *)
(* after those up to it, each at its place, that are not masked out.       *)
Hidden(ids, mask, i) ==
  << ids[i], LET seen == {j \in 1 .. i : mask[j]} IN [j \in seen |-> ids[j]] >>

(* The output head: one logit for each hidden state and selected token,    *)
(* the tokens in one order for all rows.                                   *)
ProjectSelected(hidden, tokenIds) ==
  LET unique == SetToSeq(UNION {ToSet(tokenIds[r]) : r \in DOMAIN tokenIds})
      values == [r \in DOMAIN hidden |-> [k \in DOMAIN unique |-> <<hidden[r], unique[k]>>]]
      offset == [token \in ToSet(unique) |-> CHOOSE k \in DOMAIN unique : unique[k] = token]
  IN [r \in DOMAIN tokenIds |-> [k \in DOMAIN tokenIds[r] |-> values[r][offset[tokenIds[r][k]]]]]

(* The call raises ValueError.                                             *)
Invalid(rows, tokenIds, pad, eos) ==
  \/ rows = <<>>
  \/ Len(rows) # Len(tokenIds)
  \/ <<>> \in ToSet(rows) \cup ToSet(tokenIds)
  \/ PadToken(pad, eos) = NoToken

BatchNextTokenLogits(rows, tokenIds, pad, eos) ==
  LET ids == Ids(rows, PadToken(pad, eos))
  IN ProjectSelected(
       [r \in DOMAIN rows |-> Hidden(ids[r], Mask(rows)[r], LastIndices(rows)[r])], tokenIds)

NextTokenLogits(row, tokens, pad, eos) ==
  BatchNextTokenLogits(<<row>>, <<tokens>>, pad, eos)[1]

RowByRow(rows, tokenIds, pad, eos) ==
  IF \E r \in DOMAIN rows : Invalid(<<rows[r]>>, <<tokenIds[r]>>, pad, eos)
  THEN Invalid(rows, tokenIds, pad, eos)
  ELSE /\ ~Invalid(rows, tokenIds, pad, eos)
       /\ BatchNextTokenLogits(rows, tokenIds, pad, eos) =
            [r \in DOMAIN rows |-> NextTokenLogits(rows[r], tokenIds[r], pad, eos)]

(* A row of a batch has the logits it would have alone, whatever other rows *)
(* there are, how long they are and which tokens they ask for, also when    *)
(* the padding is a token of the prompts; and a batch is only refused for   *)
(* a row that would be refused alone.                                       *)
QwenBatchIsRowByRow ==
  \A tokenIds \in [DOMAIN batch -> CandidateRows], special \in PadAndEos :
    RowByRow(batch, tokenIds, special[1], special[2])
=============================================================================
