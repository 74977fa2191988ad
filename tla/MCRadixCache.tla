---------------------------- MODULE MCRadixCache ----------------------------
(* Small instances of RadixCache.                                          *)
EXTENDS RadixCache, TLC

Symmetry == Permutations(Reqs)

In(s, k) == [ids |-> s, extra_key |-> k]

\* A prompt, one that branches off it, and the first in another namespace.
PlainInputs == {In(<<1, 1, 2>>, 0), In(<<1, 2>>, 0), In(<<1, 2>>, 1)}

\* Pages of two tokens: a prompt of two pages and a tail, one that leaves it after a page.
PagedInputs == {In(<<1, 1, 2, 2, 2>>, 0), In(<<1, 1, 1>>, 0)}

\* Two requests with one prompt, long enough for an unaligned chunk inside a page.
TwinInputs == {In(<<1, 1, 2, 2, 2>>, 0)}

\* Bigram keys: chunks that end inside a bigram, and a prompt with another first bigram.
EagleInputs == {In(<<1, 1>>, 0), In(<<1, 2>>, 0)}
=============================================================================
