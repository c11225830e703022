--------------------------- MODULE MCSessionDecode ---------------------------
(* Two sessions of one worker: the first streams, the second may. *)
EXTENDS SessionDecode

CONSTANTS s1, s2
OneSession  == {s1}
TwoSessions == {s1, s2}
NoSessions  == {}

\* The local form in which StreamFaithful speaks of a stream is the right one:
\* what it allows are the prefixes of the fragments of the first n tokens.
ASSUME StreamForm ==
  \A n \in 0 .. 3 : \A q \in BoundedSeq((1 .. 4) \X {0, 1}, 5) :
    LET run == FlattenSeq([t \in 1 .. n |-> Fragments(t)])
    IN /\ InOrder(q) /\ Within(q, n) <=> IsPrefix(q, run)
       /\ InOrder(q) /\ Within(q, n) /\ EndsWith(q, n) <=> q = run

=============================================================================
