------------------------------ MODULE FifoCache ------------------------------
(***************************************************************************)
(* What a prompt cache promises its caller: a list of entries in the order *)
(* of their last put.  A put replaces the entry of its key and may cost    *)
(* some of the oldest others, never a younger one; a cache that is saved   *)
(* and loaded keeps a youngest part of its entries, unchanged.             *)
(***************************************************************************)
EXTENDS Sequences, Naturals

CONSTANTS Keys, ValuesOf    \* ValuesOf[k]: what may be put under key k

VARIABLE content            \* the entries, oldest first

Suffixes(s) == {SubSeq(s, i, Len(s)) : i \in 1 .. Len(s) + 1}
Without(s, k) == SelectSeq(s, LAMBDA e : e.key # k)

FifoInit == content = <<>>

FifoPut ==
  \E k \in Keys, s \in Suffixes(content) :
    \E v \in ValuesOf[k] : content' = Append(Without(s, k), [key |-> k, val |-> v])

FifoClear  == content' = <<>>
FifoReload == content' \in Suffixes(content)

FifoNext == FifoPut \/ FifoClear \/ FifoReload
FifoSpec == FifoInit /\ [][FifoNext]_content
=============================================================================
