---------------------------- MODULE MCEagleDecode ---------------------------
(* Small instances of EagleDecode: four tokens, the last one is EOS.       *)
EXTENDS EagleDecode

\* Logits that order the tokens, and logits with equal scores: a probability of 1 gives a
\* child the score of its parent.
Sharp == {<<3, 1, 2, 1>>, <<1, 2, 3, 3>>}
Flat == {<<3, 1, 1, 2>>, <<1, 3, 3, 0>>}

Config(page, k, n, prompt, logits) ==
  [page_size |-> page, topk |-> k, steps |-> 2, draft_tokens |-> n, prompt |-> prompt,
   max_new |-> 4, answers |-> {0, 2, 3}, logits |-> logits, tp |-> 2,
   use_static_vocab |-> TRUE, lines |-> <<>>, ratio |-> <<1, 1>>]

\* A tree in single slots without a static vocabulary; chains in pages with a ratio that is
\* not valid, and over three ids of a file, from both shards and not in order; a tree in
\* pages over three quarters of the vocabulary, from two of three shards.
Decoding == {
  [Config(1, 2, 4, <<0>>, Sharp) EXCEPT !.use_static_vocab = FALSE],
  [Config(2, 1, 3, <<0, 1>>, Sharp) EXCEPT !.ratio = <<0, 1>>],
  [Config(2, 1, 3, <<0>>, Sharp \cup Flat) EXCEPT !.lines = <<3, 9, 0, 3, 2>>],
  [Config(2, 2, 4, <<0, 1>>, Flat) EXCEPT !.ratio = <<3, 4>>, !.tp = 3]}

\* A vocabulary from a file: the lines 2, a number out of range, 1 and 2 again.
FromFile == {
  [Config(1, 1, 3, <<0>>, Sharp) EXCEPT !.lines = <<2, 7, 1, 2>>]}
=============================================================================
