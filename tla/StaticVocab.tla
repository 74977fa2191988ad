---------------------------- MODULE StaticVocab -----------------------------
(***************************************************************************)
(* The static vocabulary of a draft model: which tokens it keeps, and the  *)
(* logits over them.  The projection is spread over tp ranks; every rank   *)
(* computes the columns of its shard of lm_head, with a static vocabulary  *)
(* only the kept ones, and fills the others; the shards are gathered and   *)
(* the kept columns selected.  A token is a                                *)
(* number below V; the logits of one position are a sequence, token t at   *)
(* t + 1.                                                                  *)
(***************************************************************************)
EXTENDS Integers, Sequences, SequencesExt

CONSTANTS
  V,          \* vocab_size
  PadTo       \* DEFAULT_VOCAB_PADDING_SIZE

ASSUME VocabConstants == V \in Nat \ {0} /\ PadTo \in Nat \ {0}

Vocab == 0..(V - 1)
FillLogit == -1    \* finfo.min: below every logit, which are natural numbers here

\* _load_static_vocab_from_file: ids out of range and repeated ids are skipped.  A line
\* that is no number is skipped like one out of range.
LoadStaticVocab(lines) ==
  FoldLeft(LAMBDA ids, x : IF x \in Vocab /\ ~Contains(ids, x) THEN Append(ids, x) ELSE ids,
           <<>>, lines)

\* ratio = num / den of the vocabulary, at least one token; a ratio outside (0, 1] is the
\* whole vocabulary.
RatioSize(num, den) ==
  LET n == (V * num) \div den
  IN  IF ~(0 < num /\ num <= den) THEN V ELSE IF n < 1 THEN 1 ELSE n

\* ModelConfig.__init__: the file if it shrinks the vocabulary, else the ratio, else none.
StaticIndices(use, lines, num, den) ==
  LET ids == LoadStaticVocab(lines)
  IN  IF ~use THEN <<>>
      ELSE IF ids # <<>> /\ Len(ids) < V THEN ids
      ELSE IF RatioSize(num, den) < V THEN [i \in 1..RatioSize(num, den) |-> i - 1]
      ELSE <<>>
-----------------------------------------------------------------------------
PerPartition(tp) == (((V + PadTo - 1) \div PadTo) * PadTo) \div tp

\* org_vocab_start_index and org_vocab_end_index of a rank: the padding is cut off.
ShardBound(tp, r) == LET b == r * PerPartition(tp) IN IF b < V THEN b ELSE V

\* Mutant: a rank takes the kept ids as columns of its own.
LocalLogitsGlobal(logits, ids, tp, r) ==
  [c \in 1..PerPartition(tp) |-> IF Contains(ids, c - 1) THEN logits[c] ELSE FillLogit]

\* _matmul_static_vocab_parallel on rank r: the columns of its shard.
LocalLogits(logits, ids, tp, r) ==
  [c \in 1..PerPartition(tp) |->
     LET t == ShardBound(tp, r) + c - 1
     IN  IF t < ShardBound(tp, r + 1) /\ Contains(ids, t) THEN logits[t + 1] ELSE FillLogit]

\* The whole product of rank r without a static vocabulary; the rows of the padding are 0.
WholeLogits(logits, tp, r) ==
  [c \in 1..PerPartition(tp) |->
     LET t == ShardBound(tp, r) + c - 1 IN IF t < ShardBound(tp, r + 1) THEN logits[t + 1] ELSE 0]

\* _get_logits: the shards gathered, then the kept columns, or all but the padding.
NextTokenLogits(logits, ids, tp) ==
  IF ids = <<>>
  THEN SubSeq(FlattenSeq([r \in 1..tp |-> WholeLogits(logits, tp, r - 1)]), 1, V)
  ELSE LET gathered == FlattenSeq([r \in 1..tp |-> LocalLogits(logits, ids, tp, r - 1)])
       IN  [i \in 1..Len(ids) |-> gathered[ids[i] + 1]]
=============================================================================
