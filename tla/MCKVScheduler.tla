--------------------------- MODULE MCKVScheduler ---------------------------
(* Small instances of KVScheduler for TLC. *)
EXTENDS KVScheduler, TLC

CONSTANTS ta, tb

MCToken == {ta, tb}

\* Two unrelated prompts, and one that goes on from the first and takes two
\* chunks.
MCPrompts == {<<ta>>, <<tb>>, <<ta, tb, ta, tb>>}

\* With two tokens to a page: a prompt that ends inside its first page, and
\* two that share a page.
MCPagedPrompts == {<<tb>>, <<ta, tb, ta>>, <<ta, tb, tb, tb, ta>>}

Symmetry == Permutations(Req)
=============================================================================
