--------------------------- MODULE PromptCompiler ---------------------------
(***************************************************************************)
(* compiler.py: a request and a tokenizer become a prompt, the token slots *)
(* to read, and the number of leading tokens that later prompts will share.*)
(*                                                                         *)
(* A text is a sequence of marks: each fixed phrase of a prompt and each   *)
(* quoted value (canonical_json) is one mark, so the question of a request *)
(* can never be mistaken for the phrase that follows it.  The tokenizer is *)
(* not part of the repository: it may cut a text into tokens across        *)
(* marks, fail to tell marks apart, and render a chat in its own way.      *)
(***************************************************************************)
EXTENDS Integers, Sequences, FiniteSets, SequencesExt

CONSTANTS
  Encode(_, _),        \* tokenizer, text: the sequence of tokens
  ChatPrompt(_, _, _), \* tokenizer, system message, user message: the text
  Collation,           \* ids and descriptions in the order of their text
  Alphabet,            \* the letters that name options
  NoHint

ASSUME CollationAssumption ==
  /\ Collation \in Seq(ToSet(Collation))
  /\ \A j, k \in DOMAIN Collation : Collation[j] = Collation[k] => j = k

(* Ids or descriptions in order: the n-th has n of them up to itself.      *)
Rank(x) == CHOOSE k \in DOMAIN Collation : Collation[k] = x
UpTo(S, x) == {y \in S : Rank(y) <= Rank(x)}
Sorted(S) ==
  [n \in 1 .. Cardinality(S) |-> CHOOSE x \in S : Cardinality(UpTo(S, x)) = n]

(* The letter baseline can name no more options than there are letters.    *)
TooManyOptions(request) == Cardinality(request.ids) > Len(Alphabet)

-----------------------------------------------------------------------------
(* Readout slots *)

OneTokenMore(tokenizer, prompt, mark) ==
  LET ids == Encode(tokenizer, prompt)
      longer == Encode(tokenizer, Append(prompt, mark))
  IN Len(longer) = Len(ids) + 1 /\ IsPrefix(ids, longer)

Slot(tokenizer, prompt, mark) == Last(Encode(tokenizer, Append(prompt, mark)))

(* readout gives every name the text whose token is read for it.           *)
ReadoutHolds(tokenizer, prompt, readout) ==
  /\ \A name \in DOMAIN readout : OneTokenMore(tokenizer, prompt, readout[name])
  /\ \A m, n \in DOMAIN readout :
       Slot(tokenizer, prompt, readout[m]) = Slot(tokenizer, prompt, readout[n]) => m = n

-----------------------------------------------------------------------------
(* Reusable prefix *)

Occurrences(text, part) ==
  {i \in 1 .. Len(text) - Len(part) + 1 : SubSeq(text, i, i + Len(part) - 1) = part}

(* Faulty: counts the tokens of the prefix rendered alone, without looking  *)
(* whether the prompt begins with them.                                    *)
PrefixLenUnmatched(tokenizer, prompt, user, stable) ==
  IF stable = <<>> \/ Cardinality(Occurrences(prompt, user)) # 1 THEN NoHint
  ELSE LET before == SubSeq(prompt, 1, (CHOOSE i \in Occurrences(prompt, user) : TRUE) - 1)
       IN Len(Encode(tokenizer, before \o stable))

(* Only when the template renders the message once and unchanged is it     *)
(* known where the stable text ends.  The text rendered up to there is     *)
(* tokenized by itself, and only tokens the prompt agrees on are counted,  *)
(* because the last ones may merge with what follows.                      *)
SafeReusablePrefixLen(tokenizer, prompt, user, stable) ==
  IF stable = <<>> \/ Cardinality(Occurrences(prompt, user)) # 1 THEN NoHint
  ELSE LET start == CHOOSE i \in Occurrences(prompt, user) : TRUE
           rendered == SubSeq(prompt, 1, start - 1) \o stable
           matched == Len(LongestCommonPrefix(
                            {Encode(tokenizer, rendered), Encode(tokenizer, prompt)}))
       IN IF matched = 0 THEN NoHint ELSE matched

-----------------------------------------------------------------------------
(* Compiling *)

Compile(tokenizer, version, stable, varying, readout) ==
  LET user == stable \o varying
      prompt == ChatPrompt(tokenizer, version, user)
      ids == Encode(tokenizer, prompt)
  IN [ok |-> ids # <<>> /\ ReadoutHolds(tokenizer, prompt, readout),
      version |-> version, prompt |-> prompt, ids |-> ids,
      stable |-> stable,
      readout |-> [n \in DOMAIN readout |-> Slot(tokenizer, prompt, readout[n])],
      hint |-> SafeReusablePrefixLen(tokenizer, prompt, user, stable)]

(* Letters go to candidates in the order of their ids.                     *)
Letters(request) ==
  LET canonical == Sorted(request.ids)
  IN [c \in request.ids |-> Alphabet[CHOOSE k \in DOMAIN canonical : canonical[k] = c]]

Options(request) ==
  LET canonical == Sorted(request.ids)
  IN FlattenSeq([k \in DOMAIN canonical |->
                   <<Alphabet[k], request.description[canonical[k]]>>])

(* The evidence changes from one decision to the next, so the prompt that  *)
(* reuses its beginning puts the question first.                           *)
CompileLetterChoice(tokenizer, request, reuse) ==
  LET letters == Letters(request)
      options == <<"OPTIONS">> \o Options(request) \o <<"CHOOSE">>
  IN IF reuse
     THEN Compile(tokenizer, "letter-question-prefix",
                  <<"QUESTION", request.question, "EVIDENCE">>,
                  <<request.state>> \o options, letters)
     ELSE Compile(tokenizer, "letter-baseline", <<>>,
                  <<"EVIDENCE", request.state, "QUESTION", request.question>> \o options,
                  letters)

YesNo == [yes |-> "Yes", no |-> "No"]

CompileSemanticCandidate(tokenizer, request, c) ==
  Compile(tokenizer, "semantic-comparative",
          <<"EVIDENCE", request.state, "QUESTION">>,
          <<request.question, "ALTERNATIVES">>
            \o Sorted({request.description[d] : d \in request.ids})
            \o <<"CANDIDATE", request.description[c], "BEST?">>,
          YesNo)

CompileIndependentCandidate(tokenizer, request, c) ==
  Compile(tokenizer, "semantic-binary",
          <<"EVIDENCE", request.state, "QUESTION">>,
          <<request.question, "CANDIDATE", request.description[c], "CORRECT?">>,
          YesNo)
=============================================================================
