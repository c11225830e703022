----------------------------- MODULE FifoChannel -----------------------------
(****************************************************************************)
(* What every ring buffer of src/concurrency promises its two sides: the     *)
(* items accepted from the producers come out once each, in the order in     *)
(* which they were accepted.  A push accepts one item or a batch; a pop       *)
(* delivers one item or a batch; a reset forgets everything.                  *)
(*                                                                            *)
(* Nothing here says how many items may be in flight: capacity is a property  *)
(* of each ring, stated in its own module.                                    *)
(****************************************************************************)
EXTENDS Naturals, Sequences

VARIABLES accepted,     \* every item taken from a producer, in order
          delivered     \* every item handed to the consumer, in order

vars == <<accepted, delivered>>

Init == accepted = << >> /\ delivered = << >>

Accept ==
  /\ Len(accepted') > Len(accepted)
  /\ SubSeq(accepted', 1, Len(accepted)) = accepted
  /\ UNCHANGED delivered

Deliver ==
  /\ \E n \in 1 .. (Len(accepted) - Len(delivered)) :
       delivered' = SubSeq(accepted, 1, Len(delivered) + n)
  /\ UNCHANGED accepted

Clear == accepted' = << >> /\ delivered' = << >>

Next == Accept \/ Deliver \/ Clear

Spec == Init /\ [][Next]_vars

=============================================================================
