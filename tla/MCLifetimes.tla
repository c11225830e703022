----------------------------- MODULE MCLifetimes -----------------------------
(* Who keeps whose storage: two conversations around the slot table of one  *)
(* executor, and one object of each kind with the references between them.  *)
(* The two share no variable: a behaviour moves the part that its first     *)
(* state picks.                                                             *)
EXTENDS MCConvSlots, ObjectGraph

CONSTANTS m1, a1, t1, s1, v1, g1, e1, i1   \* objects

VARIABLE part

GraphObjects == {m1, a1, t1, s1, v1, g1, e1, i1}
GraphKinds ==
  [o \in GraphObjects |->
     CASE o = m1 -> "model" [] o = a1 -> "adapter" [] o = t1 -> "toolset" [] o = s1 -> "session"
       [] o = v1 -> "conv"  [] o = g1 -> "agent"   [] o = e1 -> "embedder" [] o = i1 -> "index"]

LTInit == part \in {"slots", "objects"} /\ Init /\ OGInit

ltVars == <<part, vars, ogVars>>

\* A caller may leave the objects alone from any state on, so a stop of theirs
\* is no deadlock; one of the conversations is.
LTNext ==
  \/ part = "slots" /\ Next /\ UNCHANGED <<part, ogVars>>
  \/ part = "objects" /\ OGNext /\ UNCHANGED <<part, vars>>
  \/ part = "objects" /\ UNCHANGED ltVars

\* The fairness is that of the conversations, for what is promised of them; the
\* objects have invariants only.
LTSpec == LTInit /\ [][LTNext]_ltVars /\ Fairness
=============================================================================
