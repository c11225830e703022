----------------------------- MODULE BatchExecutor -----------------------------
(****************************************************************************)
(* The continuous-batching loop of a model's executor thread                 *)
(* (src/inference/executor.cpp) against the conversation API                 *)
(* (src/inference/conversation_runtime.cpp).  In one tick the executor visits *)
(* the conversations of its slots five times over: to flush their output, to *)
(* reset their slot, to feed media, to collect one decode token each, and to  *)
(* ingest prompt tokens; it then evaluates the batch and samples.  Every      *)
(* visit loads the conversation's state anew, and the API changes it between  *)
(* any two visits.  The stream reader is a third thread.                      *)
(*                                                                            *)
(* A conversation is named after its slot, which it keeps (ConvSlots models   *)
(* the slot table).  A token is its ordinal in the prompt or in the run; a     *)
(* wide sampled token takes two entries of the token ring, the spill of        *)
(* pending_emit.  Sampling itself, penalties, metadata and grammars are left   *)
(* out, but not the failures they cause.  The 64 entries of the hold are never *)
(* all in use (HoldBounded), so stream_hold_push's path for that is left out.  *)
(****************************************************************************)
EXTENDS Naturals, Sequences, FiniteSets, FiniteSetsExt, SequencesExt

CONSTANTS MaxSlots,     \* ModelExecutor::max_slots
          MaxBatch,     \* max_batch_tokens
          PromptCap,    \* max_prompt_tokens_per_slot_per_tick
          CtxSize,      \* positions a provider slot can hold
          Chunks,       \* prompt chunks: Media, or the length of a text
          MaxChunks,    \* bound: chunks per prompt
          MaxTokens,    \* AstralConvDesc::max_tokens
          StopHold,     \* stop_max_len: 0 without stop sequences
          RingCapacity, \* entries of the token ring
          WideTokens,   \* ordinals of the sampled tokens that spill
          Streamed,     \* slots whose conversation has stream_enabled
          Failures,     \* whether the provider may report errors
          LateDecode    \* whether conv_decode may land after the reset visits

Slots == 0 .. MaxSlots - 1
Media == 0

ASSUME CountAssumption == {MaxSlots, MaxBatch, PromptCap, MaxTokens, RingCapacity} \subseteq Nat \ {0}
ASSUME BoundAssumption == {CtxSize, StopHold} \subseteq Nat
ASSUME ChunkAssumption == Chunks \subseteq Nat /\ MaxChunks \in Nat
ASSUME StreamAssumption == Streamed \subseteq Slots /\ WideTokens \subseteq Nat
ASSUME SwitchAssumption == Failures \in BOOLEAN /\ LateDecode \in BOOLEAN

VARIABLES
  conv,     \* slot -> the conversation, as FreshConv below
  ring,     \* slot -> token_ring: entries <<token, fragments to come>>
  got,      \* slot -> history: the entries the reader took
  eos,      \* slot -> history: the reader was told that the stream ended
  reader,   \* slot -> where the reader is in conv_stream_read
  control,  \* slot -> where the control thread is in conv_cancel
  phase,    \* which visit of the tick the executor is at
  at,       \* the number of slots visited, or of batch tokens seen, in this phase
  rr,       \* the slot that goes first
  batch,    \* batch_tokens
  kv        \* slot -> the context the provider holds for it

vars == <<conv, ring, got, eos, reader, control, phase, at, rr, batch, kv>>

FreshConv ==
  [ state   |-> "idle",
    cancel  |-> FALSE,    \* cancel_requested
    dirty   |-> FALSE,    \* needs_slot_reset
    prompt  |-> << >>,    \* prompt_chunks: token_start and token_count
    count   |-> 0,        \* prompt_count
    chunk   |-> 0,        \* prompt_chunk_index
    off     |-> 0,        \* prompt_chunk_token_off
    fed     |-> 0,        \* prompt_off
    past    |-> 0,        \* n_past
    pending |-> FALSE,    \* pending_token_valid
    total   |-> 0,        \* total_tokens
    hold    |-> << >>,    \* hold: sampled tokens not yet in the ring
    staged  |-> FALSE,    \* pending_emit_valid: hold's head waits for the ring
    spilled |-> 0,        \* fragments of the staged token already in the ring
    ending  |-> FALSE,    \* completion_pending
    stop    |-> 0 ]       \* history: tokens of the stop sequence taken back

Init ==
  /\ conv = [s \in Slots |-> FreshConv]
  /\ ring = [s \in Slots |-> << >>]
  /\ got = [s \in Slots |-> << >>]
  /\ eos = [s \in Slots |-> FALSE]
  /\ reader = [s \in Slots |-> "drain"]
  /\ control = [s \in Slots |-> "out"]
  /\ phase = "idle"
  /\ at = 0
  /\ rr = 0
  /\ batch = << >>
  /\ kv = [s \in Slots |-> << >>]

execVars   == <<phase, at, rr, batch, kv>>
clientVars == <<got, eos, reader, control>>

Decoding(s) == conv[s].state = "decoding"
Terminal(s) == conv[s].state \in {"completed", "canceled", "failed"}

-----------------------------------------------------------------------------
(* The control thread.  Control operations of a conversation do not overlap.  *)

\* conv_feed, conv_feed_tokens, conv_feed_image, conv_feed_audio
Feed(s, k) ==
  /\ control[s] = "out"
  /\ conv[s].state \in {"idle", "feeding"}
  /\ Len(conv[s].prompt) < MaxChunks
  /\ LET c == conv[s]
     IN conv' = [conv EXCEPT ![s] =
          [c EXCEPT !.prompt = Append(c.prompt, [start |-> c.count, len |-> k]),
                    !.count = c.count + k, !.state = "feeding"]]
  /\ UNCHANGED <<ring, clientVars, execVars>>

\* conv_decode: the per-run state is cleared and a slot reset asked for
Decode(s) ==
  /\ control[s] = "out"
  /\ conv[s].state = "feeding"
  /\ conv[s].prompt # << >>
  /\ LateDecode \/ phase \notin {"reset", "media", "decode", "prompt"}
  /\ conv' = [conv EXCEPT ![s] =
       [FreshConv EXCEPT !.state = "decoding", !.prompt = conv[s].prompt,
                         !.count = conv[s].count, !.dirty = TRUE]]
  /\ UNCHANGED <<ring, clientVars, execVars>>

\* conv_cancel: the load of the state, and what it does when nothing decodes
CancelLoad(s) ==
  /\ control[s] = "out"
  /\ \/ /\ conv[s].state \in {"idle", "feeding"}
        /\ conv' = [conv EXCEPT ![s].state = "canceled"]
        /\ UNCHANGED control
     \/ /\ Decoding(s)
        /\ ~conv[s].cancel
        /\ control' = [control EXCEPT ![s] = "cancel"]
        /\ UNCHANGED conv
  /\ UNCHANGED <<ring, got, eos, reader, execVars>>

\* the store, by which time the run may have ended
CancelStore(s) ==
  /\ control[s] = "cancel"
  /\ conv' = [conv EXCEPT ![s].cancel = TRUE]
  /\ control' = [control EXCEPT ![s] = "out"]
  /\ UNCHANGED <<ring, got, eos, reader, execVars>>

\* conv_reset, refused while the reader holds its lock
Reset(s) ==
  /\ control[s] = "out"
  /\ ~Decoding(s)
  /\ reader[s] = "drain"
  /\ conv' = [conv EXCEPT ![s] = [FreshConv EXCEPT !.dirty = TRUE]]
  /\ ring' = [ring EXCEPT ![s] = << >>]
  /\ got' = [got EXCEPT ![s] = << >>]
  /\ eos' = [eos EXCEPT ![s] = FALSE]
  /\ UNCHANGED <<reader, control, execVars>>

Control(s) ==
  \/ \E k \in Chunks : Feed(s, k)
  \/ Decode(s) \/ CancelLoad(s) \/ CancelStore(s) \/ Reset(s)

-----------------------------------------------------------------------------
(* conv_stream_read: drain, look at the state, and drain once more before the  *)
(* end of the stream is reported.                                              *)

Take(s, n) ==
  /\ got' = [got EXCEPT ![s] = @ \o SubSeq(ring[s], 1, n)]
  /\ ring' = [ring EXCEPT ![s] = SubSeq(@, n + 1, Len(@))]

ReadDrain(s) ==
  /\ reader[s] = "drain"
  /\ \/ /\ \E n \in 1 .. Len(ring[s]) : Take(s, n)
        /\ UNCHANGED reader
     \/ /\ ring[s] = << >>
        /\ reader' = [reader EXCEPT ![s] = "check"]
        /\ UNCHANGED <<ring, got>>
  /\ UNCHANGED <<conv, eos, control, execVars>>

\* the state was loaded first and only then the ring found empty
ReadCheck_NoSecondDrain(s) ==
  /\ reader[s] = "check"
  /\ reader' = [reader EXCEPT ![s] = "drain"]
  /\ eos' = [eos EXCEPT ![s] = @ \/ Terminal(s)]
  /\ UNCHANGED <<conv, ring, got, control, execVars>>

\* no terminal state: another round of the loop, or a timeout
ReadCheck(s) ==
  /\ reader[s] = "check"
  /\ reader' = [reader EXCEPT ![s] = IF Terminal(s) THEN "last" ELSE "drain"]
  /\ UNCHANGED <<conv, ring, got, eos, control, execVars>>

ReadLast(s) ==
  /\ reader[s] = "last"
  /\ reader' = [reader EXCEPT ![s] = "drain"]
  /\ \/ /\ \E n \in 1 .. Len(ring[s]) : Take(s, n)
        /\ UNCHANGED eos
     \/ /\ ring[s] = << >>
        /\ eos' = [eos EXCEPT ![s] = TRUE]
        /\ UNCHANGED <<ring, got>>
  /\ UNCHANGED <<conv, control, execVars>>

StreamRead(s) == ReadDrain(s) \/ ReadCheck(s) \/ ReadLast(s)

-----------------------------------------------------------------------------
(* Output: stream_hold_push, stream_hold_flush_ready, stream_stage_token,      *)
(* stream_flush_pending_emit and finish_completion_when_output_drained, on a   *)
(* pair of a conversation c and its ring r.                                    *)

\* how many entries the first n tokens of a sequence take
EntryCount(tokens, n) == n + Cardinality({i \in 1 .. n : tokens[i] \in WideTokens})

\* the entries of a sequence of tokens, each a token and the number of its
\* fragments still to come
Entries(tokens) ==
  LET whose(k) == CHOOSE n \in DOMAIN tokens : EntryCount(tokens, n - 1) < k /\ k <= EntryCount(tokens, n)
  IN [k \in 1 .. EntryCount(tokens, Len(tokens)) |->
        <<tokens[whose(k)], EntryCount(tokens, whose(k)) - k>>]

\* the entries of the held tokens that are not in the ring yet
Unsent(c, tokens) == SubSeq(Entries(tokens), c.spilled + 1, Len(Entries(tokens)))

\* Tokens leave the hold, oldest first, until retain are left or the ring is
\* full; then the head is staged, with the fragments that did get through.
FlushHold(c, r, retain) ==
  IF Len(c.hold) <= retain THEN <<c, r>>
  ELSE LET out   == Unsent(c, SubSeq(c.hold, 1, Len(c.hold) - retain))
           sent  == SubSeq(out, 1, Min({Len(out), RingCapacity - Len(r)}))
           whole == Max({n \in 0 .. Len(c.hold) - retain :
                           EntryCount(c.hold, n) <= c.spilled + Len(sent)})
           left  == SubSeq(c.hold, whole + 1, Len(c.hold))
       IN << [c EXCEPT !.hold = left,
                       !.staged = sent # out,
                       !.spilled = IF sent = out THEN 0
                                   ELSE c.spilled + Len(sent) - EntryCount(c.hold, whole)],
             r \o sent >>

\* stop_hold: how many of the newest tokens are kept back
Retain == StopHold

Fail(c) == [c EXCEPT !.state = "failed"]

\* a token that does not detokenize fails the run; those before it are out
FlushFailures(c, r, retain) ==
  { <<Fail(f[1]), f[2]>> :
      f \in {g \in {FlushHold(c, r, n) : n \in retain + 1 .. Len(c.hold)} : ~g[1].staged} }

\* a completion that does not wait for its output
Finish_Undrained(s, c, r) ==
  IF ~c.ending THEN <<c, r>>
  ELSE <<[c EXCEPT !.ending = FALSE, !.state = "completed"], r>>

Finish(s, c, r) ==
  IF ~c.ending THEN <<c, r>>
  ELSE LET f == IF s \in Streamed THEN FlushHold(c, r, 0) ELSE <<c, r>>
           d == f[1]
       IN << IF d.staged \/ d.hold # << >> THEN d
             ELSE [d EXCEPT !.ending = FALSE, !.state = "completed"], f[2] >>

\* what the sampled token is: one of many, the eos token, or the end of a stop
\* sequence of some length
Outcomes(c) ==
  [kind : {"more", "eos"}, len : {0}]
  \cup [kind : {"stop"}, len : 1 .. Min({StopHold, c.total + 1})]

\* the hold gives back the stop sequence before it lets the newest token go
TakeBack(c, n) == [c EXCEPT !.hold = SubSeq(@, 1, Len(@) - Min({n, Len(@)})), !.stop = n]

\* process_logits_for_conv: the token is counted and held, ...
IsLast(c, o) == c.total + 1 >= MaxTokens \/ o.kind # "more"

Counted(s, c, o) ==
  [c EXCEPT !.total = @ + 1, !.pending = ~IsLast(c, o),
            !.hold = IF s \in Streamed THEN Append(@, c.total + 1) ELSE @]

\* ... what it pushes out of the hold is emitted, a stop sequence taken back, ...
Held(s, c, r, o) ==
  LET pushed == IF s \in Streamed THEN FlushHold(Counted(s, c, o), r, Retain)
                                  ELSE <<[Counted(s, c, o) EXCEPT !.staged = FALSE], r>>
      kept   == IF o.kind = "stop" /\ s \in Streamed THEN TakeBack(pushed[1], o.len) ELSE pushed[1]
  IN <<[kept EXCEPT !.ending = IsLast(c, o)], pushed[2]>>

\* ... and the last token ends the run, at once if its output is drained
Sampled(s, c, r, o) == Finish(s, Held(s, c, r, o)[1], Held(s, c, r, o)[2])

SampledFailures(s, c, r, o) ==
  LET h == Held(s, c, r, o)
  IN FlushFailures(Counted(s, c, o), r, Retain)
       \cup (IF h[1].ending THEN FlushFailures(h[1], h[2], 0) ELSE {})

-----------------------------------------------------------------------------
(* The executor thread: one visit per step.  Within the visit of a decoding    *)
(* conversation no other thread writes to it but for the cancel flag.          *)

NextPhase == [idle |-> "flush", flush |-> "reset", reset |-> "media", media |-> "decode",
              decode |-> "prompt", prompt |-> "eval"]

\* the executor goes on to the next slot, and after the last to the next phase
Visited ==
  IF at + 1 < MaxSlots THEN at' = at + 1 /\ UNCHANGED phase
                       ELSE at' = 0 /\ phase' = NextPhase[phase]

Put(s, pair) == conv' = [conv EXCEPT ![s] = pair[1]] /\ ring' = [ring EXCEPT ![s] = pair[2]]

\* snapshot_has_work
Tick ==
  /\ phase = "idle"
  /\ \E s \in Slots : Decoding(s)
  /\ phase' = "flush"
  /\ UNCHANGED <<conv, ring, clientVars, at, rr, batch, kv>>

\* flushes but leaves the completion to the next sampled token
FlushVisit_NoFinish ==
  /\ phase = "flush"
  /\ Visited
  /\ LET c == conv[at]
     IN IF ~Decoding(at) THEN UNCHANGED <<conv, ring>>
        ELSE Put(at, IF at \in Streamed THEN FlushHold(c, ring[at], Retain)
                                       ELSE <<[c EXCEPT !.staged = FALSE], ring[at]>>)
  /\ UNCHANGED <<clientVars, rr, batch, kv>>

\* step 1: emit what backpressure held up, and complete
FlushVisit ==
  /\ phase = "flush"
  /\ Visited
  /\ LET c == conv[at]
         f == IF at \in Streamed THEN FlushHold(c, ring[at], Retain)
                                 ELSE <<[c EXCEPT !.staged = FALSE], ring[at]>>
     IN IF ~Decoding(at) THEN UNCHANGED <<conv, ring>>
        ELSE \/ Put(at, Finish(at, f[1], f[2]))
             \/ /\ Failures
                /\ \E x \in FlushFailures(c, ring[at], IF c.ending THEN 0 ELSE Retain) : Put(at, x)
  /\ UNCHANGED <<clientVars, rr, batch, kv>>

\* what the executor clears along with the provider's slot
SlotReset(c) ==
  [c EXCEPT !.dirty = FALSE, !.past = 0, !.fed = 0, !.pending = FALSE, !.staged = FALSE,
            !.spilled = 0, !.hold = << >>]

\* step 1b: session_slot_reset; a grammar that does not apply fails the run
ResetVisit ==
  /\ phase = "reset"
  /\ Visited
  /\ LET c == IF conv[at].dirty THEN SlotReset(conv[at]) ELSE conv[at]
     IN IF ~Decoding(at) THEN UNCHANGED <<conv, kv>>
        ELSE /\ kv' = [kv EXCEPT ![at] = IF conv[at].dirty THEN << >> ELSE @]
             /\ \/ conv' = [conv EXCEPT ![at] = c]
                \/ Failures /\ conv' = [conv EXCEPT ![at] = Fail(c)]
  /\ UNCHANGED <<ring, clientVars, rr, batch>>

Canceled(c) == [c EXCEPT !.state = "canceled"]

HasChunk(c)       == c.chunk < Len(c.prompt)
AtMedia(c)        == HasChunk(c) /\ c.prompt[c.chunk + 1].len = Media
AtText(c)         == HasChunk(c) /\ c.prompt[c.chunk + 1].len # Media
PromptComplete(c) == ~HasChunk(c)

\* step 1c: one media chunk goes to the provider outside the batch
MediaVisit ==
  /\ phase = "media"
  /\ Visited
  /\ LET c   == conv[at]
         fed == [c EXCEPT !.past = Len(kv[at]) + 1, !.chunk = @ + 1, !.off = 0]
     IN \/ /\ ~Decoding(at) \/ c.staged
           /\ UNCHANGED <<conv, ring, kv>>
        \/ /\ Decoding(at) /\ ~c.staged /\ c.cancel
           /\ Put(at, <<Canceled(c), ring[at]>>)
           /\ UNCHANGED kv
        \/ /\ Decoding(at) /\ ~c.staged /\ ~c.cancel /\ ~AtMedia(c)
           /\ UNCHANGED <<conv, ring, kv>>
        \/ /\ Decoding(at) /\ ~c.staged /\ ~c.cancel /\ AtMedia(c)
           /\ Len(kv[at]) < CtxSize
           /\ kv' = [kv EXCEPT ![at] = Append(@, <<"media", c.chunk + 1>>)]
           /\ IF PromptComplete(fed) /\ ~fed.pending
                THEN \E o \in Outcomes(fed) : Put(at, Sampled(at, fed, ring[at], o))
                ELSE Put(at, <<fed, ring[at]>>)
        \/ /\ Decoding(at) /\ ~c.staged /\ ~c.cancel /\ AtMedia(c)
           /\ Failures \/ Len(kv[at]) = CtxSize
           /\ Put(at, <<Fail(c), ring[at]>>)
           /\ UNCHANGED kv
        \/ /\ Decoding(at) /\ ~c.staged /\ ~c.cancel /\ AtMedia(c)
           /\ Failures /\ Len(kv[at]) < CtxSize
           /\ kv' = [kv EXCEPT ![at] = Append(@, <<"media", c.chunk + 1>>)]
           /\ \/ Put(at, <<Fail(fed), ring[at]>>)
              \/ /\ PromptComplete(fed) /\ ~fed.pending
                 /\ \E o \in Outcomes(fed) : \E x \in SampledFailures(at, fed, ring[at], o) : Put(at, x)
  /\ UNCHANGED <<clientVars, rr, batch>>

\* the slots in round-robin order: from rr up, then those below it
RoundRobin(i) == (rr + i) % MaxSlots

Entry(s, token, pos, want) == [slot |-> s, token |-> token, pos |-> pos, want |-> want]

\* a backpressured slot is passed over before its cancellation is seen
DecodeVisit_StagedFirst ==
  /\ phase = "decode"
  /\ Visited
  /\ LET s == RoundRobin(at)
         c == conv[s]
     IN IF Len(batch) >= MaxBatch \/ ~Decoding(s) \/ c.staged THEN UNCHANGED <<conv, batch>>
        ELSE IF c.cancel THEN conv' = [conv EXCEPT ![s] = Canceled(c)] /\ UNCHANGED batch
        ELSE /\ batch' = IF c.pending THEN Append(batch, Entry(s, <<"sampled", c.total>>, c.past, TRUE))
                                      ELSE batch
             /\ UNCHANGED conv
  /\ UNCHANGED <<ring, clientVars, rr, kv>>

\* step 2, first loop: at most one decode token per slot.  A full batch ends the
\* loop, cancellations unseen.
DecodeVisit ==
  /\ phase = "decode"
  /\ Visited
  /\ LET s == RoundRobin(at)
         c == conv[s]
     IN IF Len(batch) >= MaxBatch \/ ~Decoding(s) THEN UNCHANGED <<conv, batch>>
        ELSE IF c.cancel THEN conv' = [conv EXCEPT ![s] = Canceled(c)] /\ UNCHANGED batch
        ELSE /\ batch' = IF c.pending /\ ~c.staged
                           THEN Append(batch, Entry(s, <<"sampled", c.total>>, c.past, TRUE)) ELSE batch
             /\ UNCHANGED conv
  /\ UNCHANGED <<ring, clientVars, rr, kv>>

\* the last token of every chunk asks for logits
WantsLogits_AnyChunk(c, take) ==
  /\ c.off + take = c.prompt[c.chunk + 1].len
  /\ ~c.pending

\* the last prompt token asks for logits
WantsLogits(c, take) ==
  /\ c.off + take = c.prompt[c.chunk + 1].len
  /\ c.chunk + 1 >= Len(c.prompt)
  /\ ~c.pending

\* how many prompt tokens one slot may add to the batch
Share(c) == Min({c.prompt[c.chunk + 1].len - c.off, MaxBatch - Len(batch), PromptCap})

\* step 2, second loop: prompt tokens into what is left of the batch
PromptVisit ==
  /\ phase = "prompt"
  /\ Visited
  /\ LET s    == RoundRobin(at)
         c    == conv[s]
         take == Share(c)
     IN IF Len(batch) >= MaxBatch \/ ~Decoding(s) \/ c.staged \/ ~AtText(c)
          THEN UNCHANGED batch
          ELSE batch' = batch \o [i \in 1 .. take |->
                 Entry(s, <<"prompt", c.prompt[c.chunk + 1].start + c.off + i>>, c.past + i - 1,
                       i = take /\ WantsLogits(c, take))]
  /\ UNCHANGED <<conv, ring, clientVars, rr, kv>>

EndTick == phase' = "idle" /\ at' = 0 /\ rr' = (rr + 1) % MaxSlots /\ batch' = << >>

\* the next text token of the prompt was evaluated
Advance(c) ==
  IF ~AtText(c) THEN [c EXCEPT !.fed = @ + 1]
  ELSE IF c.off + 1 >= c.prompt[c.chunk + 1].len
         THEN [c EXCEPT !.fed = @ + 1, !.chunk = @ + 1, !.off = 0]
         ELSE [c EXCEPT !.fed = @ + 1, !.off = @ + 1]

\* positions and prompt offsets after a token of the batch was evaluated
Evaluated(c, e) ==
  LET d == IF c.fed < c.count
             THEN IF e.token = <<"prompt", c.fed + 1>> THEN Advance(c) ELSE c
             ELSE [c EXCEPT !.pending = FALSE]
  IN [d EXCEPT !.past = @ + 1]

\* session_batch_eval, for a batch that is not empty and for which there is room
Eval ==
  /\ phase = "eval"
  /\ batch # << >>
  /\ \A s \in Slots : Len(kv[s]) + Cardinality({i \in DOMAIN batch : batch[i].slot = s}) <= CtxSize
  /\ phase' = "tally"
  /\ UNCHANGED <<conv, ring, clientVars, at, rr, batch, kv>>

\* The bookkeeping for the next token of the batch.  The token joins the
\* provider's context in the same step: no other thread looks at that.
Tally ==
  /\ phase = "tally"
  /\ LET e == batch[at + 1]
     IN /\ kv' = [kv EXCEPT ![e.slot] = Append(@, e.token)]
        /\ conv' = [conv EXCEPT ![e.slot] = IF Decoding(e.slot) THEN Evaluated(@, e) ELSE @]
  /\ IF at + 1 < Len(batch) THEN at' = at + 1 /\ UNCHANGED phase
                            ELSE at' = 0 /\ phase' = "output"
  /\ UNCHANGED <<ring, clientVars, rr, batch>>

\* an evaluation that fails ends every run in sight
EvalFails ==
  /\ phase = "eval"
  /\ batch # << >>
  /\ Failures \/ \E s \in Slots :
       Len(kv[s]) + Cardinality({i \in DOMAIN batch : batch[i].slot = s}) > CtxSize
  /\ conv' = [s \in Slots |-> IF Decoding(s) THEN Fail(conv[s]) ELSE conv[s]]
  /\ EndTick
  /\ UNCHANGED <<ring, clientVars, kv>>

EvalNothing ==
  /\ phase = "eval"
  /\ batch = << >>
  /\ EndTick
  /\ UNCHANGED <<conv, ring, clientVars, kv>>

\* session_batch_logits, if the next token of the batch wanted them
Output ==
  /\ phase = "output"
  /\ LET s == batch[at + 1].slot
         c == conv[s]
     IN IF ~batch[at + 1].want \/ ~Decoding(s) \/ c.staged THEN UNCHANGED <<conv, ring>>
        ELSE \/ \E o \in Outcomes(c) : Put(s, Sampled(s, c, ring[s], o))
             \/ Failures /\ Put(s, <<Fail(c), ring[s]>>)
             \/ /\ Failures
                /\ \E o \in Outcomes(c) : \E x \in SampledFailures(s, c, ring[s], o) : Put(s, x)
  /\ IF at + 1 = Len(batch) THEN EndTick ELSE at' = at + 1 /\ UNCHANGED <<phase, rr, batch>>
  /\ UNCHANGED <<clientVars, kv>>

Execute ==
  \/ Tick \/ FlushVisit \/ ResetVisit \/ MediaVisit \/ DecodeVisit \/ PromptVisit
  \/ Eval \/ Tally \/ EvalFails \/ EvalNothing \/ Output

-----------------------------------------------------------------------------
\* only a conversation with a stream has a reader
Next ==
  \/ \E s \in Slots : Control(s)
  \/ \E s \in Streamed : StreamRead(s)
  \/ Execute

Spec == Init /\ [][Next]_vars

\* in every phase but idle some visit is possible
HasWork == phase # "idle" \/ \E s \in Slots : Decoding(s)

\* The executor thread runs (weak fairness of Execute, its enabling condition
\* spelled out), and a thread inside conv_cancel returns.
ExecutorFairness ==
  /\ []<>~HasWork \/ []<><<Execute>>_vars
  /\ \A s \in Slots : WF_vars(CancelStore(s))

\* Backpressure ends only if someone reads the stream.
ReaderFairness == \A s \in Streamed : WF_vars(StreamRead(s))

FairSpec == Spec /\ ExecutorFairness

-----------------------------------------------------------------------------
(* Properties *)

Phases == {"idle", "flush", "reset", "media", "decode", "prompt", "eval", "tally", "output"}

Conversation ==
  [ state : {"idle", "feeding", "decoding", "completed", "canceled", "failed"},
    cancel : BOOLEAN, dirty : BOOLEAN, pending : BOOLEAN, staged : BOOLEAN, ending : BOOLEAN,
    prompt : Seq([start : Nat, len : Chunks]), count : Nat, chunk : Nat, off : Nat, fed : Nat, past : Nat,
    total : 0 .. MaxTokens, hold : Seq(1 .. MaxTokens), spilled : Nat, stop : 0 .. StopHold ]

Tokens == {"media", "prompt", "sampled"} \X Nat

\* Types, and the bounds of the prompt, of the token ring and of the batch.
TypeOK ==
  /\ conv \in [Slots -> Conversation]
  /\ \A s \in Slots : conv[s].chunk <= Len(conv[s].prompt) /\ Len(conv[s].prompt) <= MaxChunks
  /\ {ring, got} \subseteq [Slots -> Seq((1 .. MaxTokens) \X {0, 1})]
  /\ \A s \in Slots : Len(ring[s]) <= RingCapacity
  /\ eos \in [Slots -> BOOLEAN]
  /\ reader \in [Slots -> {"drain", "check", "last"}]
  /\ control \in [Slots -> {"out", "cancel"}]
  /\ phase \in Phases
  /\ at \in IF phase \in {"tally", "output"} THEN 0 .. Len(batch) - 1 ELSE Slots
  /\ rr \in Slots
  /\ batch \in Seq([slot : Slots, token : Tokens, pos : Nat, want : BOOLEAN])
  /\ Len(batch) <= MaxBatch
  /\ kv \in [Slots -> Seq(Tokens)]

\* hold[64] is indexed modulo 64 and stream_hold_push has a path for a full
\* one.  It is never needed: at most one token more than the longest stop
\* sequence is held, since nothing is sampled while the oldest is staged.
HoldBounded == \A s \in Slots : Len(conv[s].hold) <= StopHold + 1

Numbers(n) == [i \in 1 .. n |-> i]

\* The reader gets every sampled token once, in order and whole, except those of
\* the stop sequence that ended the run: what it took, what is in the ring and
\* what is held make up the run, and at its completion nothing is held.  A run
\* that is canceled or fails delivers a prefix.
StreamFaithful ==
  \A s \in Streamed :
    LET c    == conv[s]
        sent == got[s] \o ring[s]
        run  == Entries(Numbers(c.total - c.stop))
    IN /\ c.state \in {"decoding", "completed"} => sent \o Unsent(c, c.hold) = run
       /\ c.state = "completed" => sent = run
       /\ IsPrefix(sent, run)

\* conv_stream_read reports the end of the stream only when the run is over and
\* its whole output was read, although the executor emits the last token and
\* ends the run between the reader's look at the ring and its look at the state.
EndOfStream ==
  \A s \in Slots : eos[s] => Terminal(s) /\ ring[s] = << >>

\* how many places of the context the first k chunks of a prompt take
Extent(prompt, k) ==
  IF k = 0 THEN 0
  ELSE prompt[k].start + prompt[k].len + Cardinality({i \in 1 .. k : prompt[i].len = Media})

\* prompt and sampled tokens in the order in which they belong in the context
PromptTokens(prompt) ==
  LET whose(p) == CHOOSE k \in DOMAIN prompt : Extent(prompt, k - 1) < p /\ p <= Extent(prompt, k)
  IN [p \in 1 .. Extent(prompt, Len(prompt)) |->
        IF prompt[whose(p)].len = Media THEN <<"media", whose(p)>>
        ELSE <<"prompt", prompt[whose(p)].start + p - Extent(prompt, whose(p) - 1)>>]

Context(c) == PromptTokens(c.prompt) \o [i \in 1 .. c.total |-> <<"sampled", i>>]

\* The provider's slot holds what the conversation fed and sampled, nothing of
\* an earlier run, each token at the position the batch gave it, and nothing is
\* sampled before the whole prompt is in.
ContextFaithful ==
  /\ \A s \in Slots :
       LET c == conv[s] IN
       Decoding(s) /\ ~c.dirty =>
         /\ IsPrefix(kv[s], Context(c))
         /\ c.total > 0 => IsPrefix(PromptTokens(c.prompt), kv[s])
         /\ c.past = Len(kv[s])
  /\ phase = "tally" => LET e == batch[at + 1] IN e.pos = Len(kv[e.slot])

\* What is fed, sampled, held, buffered and read of a stream fits together, within
\* the bounds of the hold buffer, the ring and the batch.
StreamSound == TypeOK /\ HoldBounded /\ StreamFaithful /\ ContextFaithful

\* executor.cpp, step 1b: "Apply per-slot reset/grammar before advancing
\* decoding."  No token goes into the batch for a slot that awaits its reset.
ResetBeforeAdvance ==
  \A i \in DOMAIN batch : ~conv[batch[i].slot].dirty

\* A run whose stream is read ends: no completion is forgotten, and no output
\* is left behind once its reader makes room.
DecodeEnds == ReaderFairness => \A s \in Slots : Decoding(s) ~> ~Decoding(s)

\* A requested cancellation ends the run even if nobody reads its stream and the
\* output is backpressured for ever.
CancelEnds == \A s \in Slots : Decoding(s) /\ conv[s].cancel ~> ~Decoding(s)

=============================================================================
