----------------------------- MODULE SessionDecode -----------------------------
(****************************************************************************)
(* Sessions (src/inference/session.cpp): the thread that controls a session  *)
(* feeds it, submits its decode to the work queue of a worker, resets it and *)
(* destroys it; the worker runs decode_loop to the end of the run and emits   *)
(* tokens into the session's ring, waiting while that is full; a reader       *)
(* drains the ring; any thread may cancel.                                    *)
(*                                                                            *)
(* This is one worker and the sessions assigned to it (session->worker_id).   *)
(* Its queue is a FIFO channel, as TicketRing shows.  Tokens, fragments and   *)
(* entries are those of BatchExecutor; rest is the entry of which a read with *)
(* a small buffer left a part in pending_utf8.  Sampling, metadata, timings   *)
(* and final_err are left out, but not the failures on the way.               *)
(****************************************************************************)
EXTENDS Naturals, Sequences, FiniteSetsExt, SequencesExt

CONSTANTS Sessions,     \* the sessions of one worker
          MaxChunks,    \* bound: prompt chunks of a run
          MaxTokens,    \* AstralSessionDesc::max_tokens
          StopHold,     \* stop_max_len: 0 without stop sequences
          RingCapacity, \* entries of the token ring
          WideTokens,   \* ordinals of the tokens of two fragments
          Streamed,     \* sessions with stream_enabled
          Abandoned,    \* those whose stream nobody is sure to read
          Failures      \* whether the provider and the queue may report errors

ASSUME CountAssumption == {MaxTokens, RingCapacity} \subseteq Nat \ {0} /\ {MaxChunks, StopHold} \subseteq Nat
ASSUME StreamAssumption == Abandoned \subseteq Streamed /\ Streamed \subseteq Sessions
ASSUME FailureAssumption == Failures \in BOOLEAN

VARIABLES
  sess,    \* session -> the session, as FreshSession below
  ctx,     \* session -> what the provider's context holds
  ring,    \* session -> token_ring
  rest,    \* session -> the entry that is partly read: at most one
  got,     \* session -> history: the entries the reader took
  eos,     \* session -> history: the reader was told that the stream ended
  reader,  \* session -> where the reader is in stream_read
  control, \* session -> where the control thread is
  queue,   \* the worker's queue
  worker   \* the worker: where it is, its session, and decode_loop's locals

streamVars == <<ring, rest, got, eos>>
vars == <<sess, ctx, streamVars, reader, control, queue, worker>>

FreshSession ==
  [ state  |-> "idle",
    cancel |-> FALSE,   \* cancel_requested
    prompt |-> 0,       \* prompt_chunk_count
    total  |-> 0,       \* total_tokens
    stop   |-> 0 ]      \* history: tokens of the stop sequence that ended the run

NoSession == "none"
Idle == [at |-> "idle", job |-> NoSession, hold |-> << >>, sent |-> 0, retain |-> 0,
         last |-> FALSE, final |-> "completed"]

\* backend_session_ctx is null
NoContext == <<<<"null", 0>>>>

Init ==
  /\ sess = [s \in Sessions |-> FreshSession]
  /\ ctx = [s \in Sessions |-> << >>]
  /\ ring = [s \in Sessions |-> << >>]
  /\ rest = [s \in Sessions |-> << >>]
  /\ got = [s \in Sessions |-> << >>]
  /\ eos = [s \in Sessions |-> FALSE]
  /\ reader = [s \in Sessions |-> "drain"]
  /\ control = [s \in Sessions |-> "out"]
  /\ queue = << >>
  /\ worker = Idle

Decoding(s) == sess[s].state = "decoding"
Terminal(s) == sess[s].state \in {"completed", "canceled", "failed"}
ToState(s, st) == sess' = [sess EXCEPT ![s].state = st]
Goto(s, l) == control' = [control EXCEPT ![s] = l]

-----------------------------------------------------------------------------
(* The control thread *)

\* session_feed and its siblings: the state changes even if the chunk is
\* empty, does not fit or does not tokenize
Feed(s) ==
  /\ control[s] = "out"
  /\ sess[s].state \in {"idle", "feeding"}
  /\ \/ ToState(s, "feeding")
     \/ /\ sess[s].prompt < MaxChunks
        /\ sess' = [sess EXCEPT ![s] = [sess[s] EXCEPT !.state = "feeding", !.prompt = sess[s].prompt + 1]]
  /\ UNCHANGED <<ctx, streamVars, reader, control, queue, worker>>

\* session_decode: the state first, then the work item
Decode(s) ==
  /\ control[s] = "out"
  /\ sess[s].state = "feeding"
  /\ ToState(s, "decoding")
  /\ Goto(s, "submit")
  /\ UNCHANGED <<ctx, streamVars, reader, queue, worker>>

\* a refused submission that leaves the session decoding
Submit_NoRevert(s) ==
  /\ control[s] = "submit"
  /\ Goto(s, "out")
  /\ \/ queue' = Append(queue, s) /\ UNCHANGED sess
     \/ Failures /\ UNCHANGED <<sess, queue>>
  /\ UNCHANGED <<ctx, streamVars, reader, worker>>

Submit(s) ==
  /\ control[s] = "submit"
  /\ Goto(s, "out")
  /\ \/ queue' = Append(queue, s) /\ UNCHANGED sess
     \/ Failures /\ ToState(s, "feeding") /\ UNCHANGED queue
  /\ UNCHANGED <<ctx, streamVars, reader, worker>>

\* session_cancel, from any thread and in any state
Cancel(s) ==
  /\ control[s] \in {"out", "submit"}
  /\ ~sess[s].cancel
  /\ sess' = [sess EXCEPT ![s].cancel = TRUE]
  /\ UNCHANGED <<ctx, streamVars, reader, control, queue, worker>>

\* the provider's reset, or its context destroyed and created anew.  A failure
\* leaves the state as it was and possibly no context at all.
ResetContext(s) ==
  \/ /\ ctx[s] # NoContext
     /\ ctx' = [ctx EXCEPT ![s] = << >>]
     /\ sess' = [sess EXCEPT ![s] = FreshSession]
  \/ /\ Failures
     /\ \E left \in {ctx[s], NoContext} : ctx' = [ctx EXCEPT ![s] = left]
     /\ sess' = [sess EXCEPT ![s] = [FreshSession EXCEPT !.state = sess[s].state]]

\* session_reset, refused while a reader holds its lock
Reset(s) ==
  /\ control[s] = "out"
  /\ ~Decoding(s)
  /\ reader[s] = "drain"
  /\ ResetContext(s)
  /\ ring' = [ring EXCEPT ![s] = << >>]
  /\ rest' = [rest EXCEPT ![s] = << >>]
  /\ got' = [got EXCEPT ![s] = << >>]
  /\ eos' = [eos EXCEPT ![s] = FALSE]
  /\ UNCHANGED <<reader, control, queue, worker>>

\* a destroy that waits for the run without cancelling it
DestroyBegin_NoCancel(s) ==
  /\ control[s] = "out"
  /\ reader[s] = "drain"
  /\ Goto(s, "destroying")
  /\ UNCHANGED <<sess, ctx, streamVars, reader, queue, worker>>

\* session_destroy, once no reader is inside: a run under way is canceled
DestroyBegin(s) ==
  /\ control[s] = "out"
  /\ reader[s] = "drain"
  /\ Goto(s, "destroying")
  /\ sess' = [sess EXCEPT ![s].cancel = @ \/ Decoding(s)]
  /\ UNCHANGED <<ctx, streamVars, reader, queue, worker>>

\* and awaited, before everything is released
DestroyEnd(s) ==
  /\ control[s] = "destroying"
  /\ ~Decoding(s)
  /\ Goto(s, "freed")
  /\ sess' = [sess EXCEPT ![s] = FreshSession]
  /\ ctx' = [ctx EXCEPT ![s] = NoContext]
  /\ ring' = [ring EXCEPT ![s] = << >>]
  /\ rest' = [rest EXCEPT ![s] = << >>]
  /\ got' = [got EXCEPT ![s] = << >>]
  /\ eos' = [eos EXCEPT ![s] = FALSE]
  /\ UNCHANGED <<reader, queue, worker>>

Control(s) ==
  \/ Feed(s) \/ Decode(s) \/ Submit(s) \/ Cancel(s) \/ Reset(s)
  \/ DestroyBegin(s) \/ DestroyEnd(s)

-----------------------------------------------------------------------------
(* stream_read: the remainder of the last entry, else what the ring holds, of  *)
(* which the last entry may not fit as a whole; then a look at the state.      *)

ReadRest(s) ==
  /\ rest[s] # << >>
  /\ got' = [got EXCEPT ![s] = @ \o rest[s]]
  /\ rest' = [rest EXCEPT ![s] = << >>]
  /\ UNCHANGED <<ring, reader, eos>>

ReadRing(s) ==
  /\ rest[s] = << >>
  /\ \E n \in 1 .. Len(ring[s]), whole \in BOOLEAN :
       /\ got' = [got EXCEPT ![s] = @ \o SubSeq(ring[s], 1, IF whole THEN n ELSE n - 1)]
       /\ rest' = [rest EXCEPT ![s] = IF whole THEN << >> ELSE <<ring[s][n]>>]
       /\ ring' = [ring EXCEPT ![s] = SubSeq(@, n + 1, Len(@))]
  /\ reader' = [reader EXCEPT ![s] = "drain"]
  /\ UNCHANGED eos

ReadEmpty(s) ==
  /\ reader[s] = "drain"
  /\ rest[s] = << >>
  /\ ring[s] = << >>
  /\ reader' = [reader EXCEPT ![s] = "check"]
  /\ UNCHANGED streamVars

\* 0 if the run is over, else another round or the timeout
ReadCheck(s) ==
  /\ reader[s] = "check"
  /\ eos' = [eos EXCEPT ![s] = @ \/ Terminal(s)]
  /\ reader' = [reader EXCEPT ![s] = "drain"]
  /\ UNCHANGED <<ring, rest, got>>

StreamRead(s) ==
  /\ control[s] \in {"out", "submit"}
  /\ \/ reader[s] = "drain" /\ (ReadRest(s) \/ ReadRing(s))
     \/ ReadEmpty(s) \/ ReadCheck(s)
  /\ UNCHANGED <<sess, ctx, control, queue, worker>>

-----------------------------------------------------------------------------
(* The worker: worker_loop and decode_loop *)

Start ==
  /\ worker.at = "idle"
  /\ queue # << >>
  /\ worker' = [Idle EXCEPT !.at = "feed", !.job = Head(queue)]
  /\ queue' = Tail(queue)
  /\ UNCHANGED <<sess, ctx, streamVars, reader, control>>

End(final) == worker' = [worker EXCEPT !.at = "end", !.final = final]

\* session_feed_prompt_chunks; a provider refuses a null context
FeedPrompt ==
  /\ worker.at = "feed"
  /\ LET s == worker.job IN
     \/ /\ ctx[s] # NoContext
        /\ ctx' = [ctx EXCEPT ![s] = Append(@, <<"prompt", sess[s].prompt>>)]
        /\ worker' = [worker EXCEPT !.at = "check"]
     \/ /\ Failures \/ ctx[s] = NoContext
        /\ End("failed")
        /\ UNCHANGED ctx
  /\ UNCHANGED <<sess, streamVars, reader, control, queue>>

CheckCancel ==
  /\ worker.at = "check"
  /\ IF sess[worker.job].cancel THEN End("canceled") ELSE worker' = [worker EXCEPT !.at = "sample"]
  /\ UNCHANGED <<sess, ctx, streamVars, reader, control, queue>>

\* logits, sampling and session_accept; then the token is counted, compared
\* with the stop sequences, and held
Sample ==
  /\ worker.at = "sample"
  /\ LET s == worker.job
         n == sess[s].total + 1
     IN \/ /\ Failures
           /\ End("failed")
           /\ UNCHANGED <<sess, ctx>>
        \/ /\ ctx' = [ctx EXCEPT ![s] = Append(@, <<"eos", n>>)]
           /\ worker' = [worker EXCEPT !.at = "emit", !.last = TRUE]
           /\ UNCHANGED sess
        \/ /\ ctx' = [ctx EXCEPT ![s] = Append(@, <<"sampled", n>>)]
           /\ \E stop \in 0 .. Min({StopHold, n}) :
                /\ sess' = [sess EXCEPT ![s] = [sess[s] EXCEPT !.total = n, !.stop = stop]]
                /\ worker' = [worker EXCEPT !.at = "emit", !.retain = StopHold,
                                            !.hold = IF s \in Streamed THEN Append(@, n) ELSE @,
                                            !.last = stop > 0 \/ n = MaxTokens]
  /\ UNCHANGED <<streamVars, reader, control, queue>>

Fragments(t) == IF t \in WideTokens THEN <<<<t, 1>>, <<t, 0>>>> ELSE <<<<t, 0>>>>

HasRoom(s) == Len(ring[s]) < RingCapacity

\* session_stream_flush_one for the next fragment of the oldest held token, or
\* a detokenizer that fails
Emit ==
  /\ worker.at = "emit"
  /\ Len(worker.hold) > worker.retain
  /\ LET s     == worker.job
         frags == Fragments(Head(worker.hold))
         i     == worker.sent + 1
     IN \/ /\ HasRoom(s)
           /\ ring' = [ring EXCEPT ![s] = Append(@, frags[i])]
           /\ worker' = IF i = Len(frags) THEN [worker EXCEPT !.sent = 0, !.hold = Tail(@)]
                                          ELSE [worker EXCEPT !.sent = i]
        \/ /\ ~HasRoom(s)
           /\ worker' = [worker EXCEPT !.at = "blocked"]
           /\ UNCHANGED ring
        \/ /\ Failures /\ worker.sent = 0
           /\ End("failed")
           /\ UNCHANGED ring
  /\ UNCHANGED <<sess, ctx, rest, got, eos, reader, control, queue>>

\* waits for room and for nothing else
Blocked_NoCancel ==
  /\ worker.at = "blocked"
  /\ worker' = [worker EXCEPT !.at = "emit"]
  /\ UNCHANGED <<sess, ctx, streamVars, reader, control, queue>>

\* backpressure: the ring was full, and the run may be canceled
Blocked ==
  /\ worker.at = "blocked"
  /\ IF sess[worker.job].cancel THEN End("canceled") ELSE worker' = [worker EXCEPT !.at = "emit"]
  /\ UNCHANGED <<sess, ctx, streamVars, reader, control, queue>>

\* the hold at the end of the run, the stop sequence taken back
LastHold ==
  SubSeq(worker.hold, 1, Len(worker.hold) - Min({sess[worker.job].stop, Len(worker.hold)}))

\* nothing to emit for now: the next token, or what is held after the last one
Emitted ==
  /\ worker.at = "emit"
  /\ Len(worker.hold) <= worker.retain
  /\ IF ~worker.last THEN worker' = [worker EXCEPT !.at = "check"]
     ELSE IF worker.retain > 0 THEN worker' = [worker EXCEPT !.retain = 0, !.hold = LastHold]
     ELSE End("completed")
  /\ UNCHANGED <<sess, ctx, streamVars, reader, control, queue>>

\* the terminal state; the session is not touched after it
Finish ==
  /\ worker.at = "end"
  /\ ToState(worker.job, worker.final)
  /\ worker' = Idle
  /\ UNCHANGED <<ctx, streamVars, reader, control, queue>>

Work ==
  \/ Start \/ FeedPrompt \/ CheckCancel \/ Sample \/ Emit \/ Blocked \/ Emitted \/ Finish

-----------------------------------------------------------------------------
\* every session is destroyed
Terminated == (\A s \in Sessions : control[s] = "freed") /\ worker = Idle /\ UNCHANGED vars

Next ==
  \/ \E s \in Sessions : Control(s)
  \/ \E s \in Streamed : StreamRead(s)
  \/ Work
  \/ Terminated

Spec == Init /\ [][Next]_vars

\* The worker runs and a thread inside an API call returns.  A streaming caller
\* drains its stream or cancels the session, as astral_session_decode demands.
Fairness ==
  /\ WF_vars(Work)
  /\ \A s \in Sessions : WF_vars(Submit(s)) /\ WF_vars(DestroyEnd(s))
  /\ \A s \in Streamed \ Abandoned : WF_vars(StreamRead(s))
  /\ \A s \in Abandoned : WF_vars(Decoding(s) /\ Cancel(s))

FairSpec == Spec /\ Fairness

-----------------------------------------------------------------------------
(* Properties *)

Spots == {"idle", "feed", "check", "sample", "emit", "blocked", "end"}

\* Types and bounds: of the ring, of a run's length, and of the tokens held.
TypeOK ==
  /\ \A s \in Sessions :
       /\ sess[s].state \in {"idle", "feeding", "decoding", "completed", "canceled", "failed"}
       /\ sess[s].cancel \in BOOLEAN
       /\ sess[s].prompt \in 0 .. MaxChunks
       /\ sess[s].total \in 0 .. MaxTokens
       /\ sess[s].stop \in 0 .. StopHold
       /\ Len(ring[s]) <= RingCapacity
       /\ Len(rest[s]) <= 1
       /\ reader[s] \in {"drain", "check"}
       /\ control[s] \in {"out", "submit", "destroying", "freed"}
  /\ worker.at \in Spots
  /\ worker.job \in Sessions \cup {NoSession}
  /\ Len(worker.hold) <= StopHold + 1
  /\ queue \in Seq(Sessions)

\* the parties that have a session's run in hand
Owners(s) ==
  { <<"control">> : x \in {y \in {s} : control[y] = "submit"} }
  \cup { <<"queue", i>> : i \in {j \in DOMAIN queue : queue[j] = s} }
  \cup { <<"worker">> : x \in {y \in {s} : worker.job = y} }

\* A session is decoding exactly while one party has its run in hand: no run is
\* lost, doubled, or left on a session that is at rest or freed.
RunOwned == \A s \in Sessions : Cardinality(Owners(s)) = IF Decoding(s) THEN 1 ELSE 0

\* What has come out of the run of s, read or not.
Delivered(s) == got[s] \o rest[s] \o ring[s]

\* The entry that follows e on a stream: the next fragment of its token, or the
\* first of the token after it.
Following(e) == IF e[2] > 0 THEN <<e[1], e[2] - 1>> ELSE Head(Fragments(e[1] + 1))

InOrder(q) == \A i \in DOMAIN q : q[i] = IF i = 1 THEN Head(Fragments(1)) ELSE Following(q[i - 1])

\* no token after the n-th, and the n-th as a whole
Within(q, n) == \A i \in DOMAIN q : q[i][1] <= n
EndsWith(q, n) == IF n = 0 THEN q = << >> ELSE q # << >> /\ q[Len(q)] = <<n, 0>>

\* The reader gets the sampled tokens once, in order and whole, and never a
\* token of the stop sequence that ended the run; a completed run delivers all.
StreamFaithful ==
  \A s \in Streamed :
    LET n == sess[s].total - sess[s].stop
    IN /\ InOrder(Delivered(s)) /\ Within(Delivered(s), n)
       /\ sess[s].state = "completed" => EndsWith(Delivered(s), n)

\* A run starts on an empty context: the provider's holds the prompt of this run
\* and the tokens it sampled, and nothing of the run before a reset.
ContextFaithful ==
  worker.at \in {"check", "sample"} =>
    LET s == worker.job
    IN ctx[s] = << <<"prompt", sess[s].prompt>> >> \o [i \in 1 .. sess[s].total |-> <<"sampled", i>>]

\* One owner per run, its tokens in order on the stream, its own context in the
\* provider.
SessionSound == TypeOK /\ RunOwned /\ StreamFaithful /\ ContextFaithful

\* astral_rt.h on astral_stream_read: "0 indicates end-of-stream (session is
\* terminal and no buffered data remains)."
EndOfStream == \A s \in Streamed : eos[s] => ring[s] = << >> /\ rest[s] = << >>

\* Every run ends, also one queued behind an abandoned stream.
DecodeEnds == \A s \in Sessions : Decoding(s) ~> ~Decoding(s)

\* session_destroy returns: it cancels the run it waits for, and a worker that
\* is parked on a full ring notices.
DestroyReturns == \A s \in Sessions : control[s] = "destroying" ~> control[s] = "freed"

=============================================================================
