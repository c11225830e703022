----------------------------- MODULE MCStreams -----------------------------
(* The places where one thread waits for what another does: the reader of  *)
(* a conversation's stream and its control thread, the wait on a request,  *)
(* and the pushes to the ring of a work queue.  They share no variable, so *)
(* their product would show nothing that they do not show one by one: a    *)
(* behaviour moves the one that its first state picks.                     *)
EXTENDS BatchExecutor, Requests, TicketRing

CONSTANTS p1, p2

VARIABLE part

SlotZero   == {0}
TwoPushers == {p1, p2}

STInit == part \in {"stream", "request", "ring"} /\ Init /\ RQInit /\ TRInit

STNext ==
  /\ \/ part = "stream" /\ Next /\ UNCHANGED <<rqVars, trVars>>
     \/ part = "request" /\ RQNext /\ UNCHANGED <<vars, trVars>>
     \/ part = "ring" /\ TRNext /\ UNCHANGED <<vars, rqVars>>
  /\ UNCHANGED part

\* The closed forms in which BatchExecutor speaks of a stream and of a context are
\* the right ones: one after the other, the fragments of the tokens, and the
\* places of the chunks.
ASSUME EntryForm ==
  \A q \in BoundedSeq(1 .. 3, 4) :
    Entries(q) = FlattenSeq([i \in DOMAIN q |->
                   IF q[i] \in WideTokens THEN <<<<q[i], 1>>, <<q[i], 0>>>> ELSE <<<<q[i], 0>>>>])

ASSUME ContextForm ==
  \A lens \in BoundedSeq(0 .. 3, 4) :
    LET start(k) == FoldLeft(LAMBDA a, b : a + b, 0, SubSeq(lens, 1, k - 1))
        prompt   == [k \in DOMAIN lens |-> [start |-> start(k), len |-> lens[k]]]
    IN PromptTokens(prompt) = FlattenSeq([k \in DOMAIN lens |->
         IF lens[k] = Media THEN <<<<"media", k>>>>
         ELSE [i \in 1 .. lens[k] |-> <<"prompt", start(k) + i>>]])

\* The fair actions of a component that was not picked are never enabled.
STSpec ==
  /\ STInit /\ [][STNext]_<<part, vars, rqVars, trVars>>
  /\ ExecutorFairness /\ RQFairness /\ TRFairness
=============================================================================
