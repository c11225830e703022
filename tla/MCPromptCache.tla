---------------------------- MODULE MCPromptCache ----------------------------
(* A prompt cache whose caller also puts prompts without tokens. *)
EXTENDS PromptCache

CONSTANTS k1, k2, k3

CacheKeySet == {k1, k2, k3}
CacheHash   == [k \in CacheKeySet |-> IF k = k3 THEN 3 ELSE 2]
==============================================================================
