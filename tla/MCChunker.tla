------------------------------ MODULE MCChunker ------------------------------
(* Chunks of two sentences that overlap by one. *)
EXTENDS Chunker

ShortTexts == UNION {[1 .. n -> Classes \ {"control"}] : n \in 0 .. 4}
OverlappingSentences ==
  {[mode |-> "sentence", max |-> 2, overlap |-> 1, keepEmpty |-> FALSE, room |-> 8]}
==============================================================================
