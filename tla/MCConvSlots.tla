----------------------------- MODULE MCConvSlots -----------------------------
(* Two conversations: one fills the retirement queue for the other. *)
EXTENDS ConvSlots

CONSTANTS c1, c2

TwoConvs == {c1, c2}
=============================================================================
