---------------------------- MODULE MessageDedup ----------------------------
(***************************************************************************)
(* The bounded memory of MessageDedup (mcp-plugin/src/dedup.ts): a Set of    *)
(* keys, in the order they were recorded, that drops the oldest drop of them *)
(* when it grows past max.  A dropped key is recorded again as a new one.    *)
(***************************************************************************)
EXTENDS Naturals, Sequences

\* keys: all that were ever recorded, oldest first; kept: how many of the newest are
\* still in the Set.
DedupOf(K) == [keys : Seq(K), kept : Nat]
NewDedup   == [keys |-> <<>>, kept |-> 0]

Remembers(d, key) == \E i \in (Len(d.keys) - d.kept + 1)..Len(d.keys) : d.keys[i] = key

\* recordOrSkip, of a key that is not skipped.
Record(d, key, max, drop) ==
  [keys |-> Append(d.keys, key),
   kept |-> IF d.kept < max THEN d.kept + 1 ELSE d.kept + 1 - drop]

\* So many keys the Set always keeps, once it has had them: a key is recorded again only
\* after at least as many others.
Window(max, drop) == max + 1 - drop
=============================================================================
