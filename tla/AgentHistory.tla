----------------------------- MODULE AgentHistory -----------------------------
(***************************************************************************)
(* What an agent says to the model (agent.cpp): three texts, the history   *)
(* as records into one byte arena, the prefix rendered from both and kept  *)
(* until something changes, the prompt fed through a prompt cache that may *)
(* hold the whole prompt, its prefix or nothing, and the saved form in its *)
(* three versions.  A unit stands for a byte, a label or a record header;  *)
(* a hash is taken to be injective; the cache may lose any entry at any    *)
(* time (PromptCache has its rules).                                       *)
(***************************************************************************)
EXTENDS Naturals, Sequences, FiniteSets, SequencesExt

CONSTANTS
  TextChoices,     \* "system", "summary", "memory" -> contents it may be given
  MessageTexts,    \* contents of messages
  Roles,           \* roles of messages
  MaxMessages,     \* max_messages
  MaxPromptBytes,  \* max_prompt_bytes
  Reserve,         \* kHeaderReserveBytes
  TruncateOldest,  \* overflow_policy
  Documents,       \* inputs of set_memory_context_from_results
  MaxCached        \* entries of the prompt cache

VARIABLES
  agent,    \* the agent's texts, records, arena, prefix and last fed tokens
  said,     \* ghost: its texts and messages, and the prompt it should have fed
  pcached,  \* the prompt cache: key -> tokens
  file      \* a saved history, with a ghost of what was saved

agVars == <<agent, said, pcached, file>>

TextKinds == {"system", "summary", "memory"}
NoText == [k \in TextKinds |-> <<>>]
Invalid == [valid |-> FALSE, text |-> <<>>]
NoFile == [version |-> 0, lens |-> [k \in TextKinds |-> 0], count |-> 0, body |-> <<>>,
           of |-> [text |-> NoText, log |-> <<>>]]

AHInit ==
  /\ agent = [text |-> NoText, msgs |-> <<>>, arena |-> <<>>, prefix |-> Invalid,
              fed |-> <<>>, decoding |-> FALSE]
  /\ said = [text |-> NoText, log |-> <<>>, prompt |-> <<>>]
  /\ pcached = <<>> /\ file = NoFile

---------------------------------------------------------------------------
(* Rendering *)

Line(label, content) == <<label>> \o content \o <<"nl">>
TextLine(k, c) == IF c = <<>> THEN <<>> ELSE Line(k, c)
TextLines(t) == TextLine("system", t["system"]) \o TextLine("summary", t["summary"])
                \o TextLine("memory", t["memory"])

Content(a, m) == SubSeq(a.arena, m.off + 1, m.off + m.len)

StablePrefix(a) ==
  TextLines(a.text) \o FlattenSeq([i \in DOMAIN a.msgs |-> Line(a.msgs[i].role, Content(a, a.msgs[i]))])

UserLine(user) == IF user = <<>> THEN <<>> ELSE Line("user", user)
Prompt(prefix, user) == prefix \o UserLine(user) \o <<"assistant">>

PromptBytes(a, user) ==
  Reserve + Len(IF a.prefix.valid THEN a.prefix.text ELSE StablePrefix(a))
  + Len(UserLine(user)) + 1

---------------------------------------------------------------------------
(* The history *)

RemoveOldest_KeepOffsets(a) ==
  [a EXCEPT !.msgs = Tail(@),
            !.arena = SubSeq(@, Head(a.msgs).off + Head(a.msgs).len + 1, Len(@)),
            !.prefix = Invalid]

\* remove_oldest_message: the arena moves down and so do the offsets
RemoveOldest(a) ==
  LET end == Head(a.msgs).off + Head(a.msgs).len IN
  [a EXCEPT !.msgs = [i \in 1 .. Len(@) - 1 |-> [@[i + 1] EXCEPT !.off = @ - end]],
            !.arena = SubSeq(@, end + 1, Len(@)),
            !.prefix = Invalid]

\* the agent after its k oldest messages were removed one by one
Without(a, k) == FoldLeft(LAMBDA b, i : RemoveOldest(b), a, [i \in 1 .. k |-> i])

\* add_message_storage; "nomem" is an allocation that fails after the removal
MessageAdd(role, c, outcome) ==
  LET full == Len(agent.msgs) = MaxMessages
      room == IF full THEN RemoveOldest(agent) ELSE agent
      log  == IF full THEN Tail(said.log) ELSE said.log
  IN /\ full => TruncateOldest
     /\ IF outcome = "ok"
        THEN /\ agent' = [room EXCEPT !.msgs = Append(@, [role |-> role, off |-> Len(room.arena),
                                                          len |-> Len(c)]),
                                      !.arena = @ \o c, !.prefix = Invalid]
             /\ said' = [said EXCEPT !.log = Append(log, [role |-> role, content |-> c])]
        ELSE agent' = room /\ said' = [said EXCEPT !.log = log]
     /\ UNCHANGED <<pcached, file>>

HistoryClear ==
  /\ agent' = [agent EXCEPT !.msgs = <<>>, !.arena = <<>>, !.prefix = Invalid]
  /\ said' = [said EXCEPT !.log = <<>>]
  /\ UNCHANGED <<pcached, file>>

\* replace_system_prompt, replace_summary, replace_memory_context
Replaced(a, k, c) == [a EXCEPT !.text[k] = c, !.prefix = Invalid]

SetText(k, c) ==
  /\ ~agent.decoding
  /\ agent' = Replaced(agent, k, c) /\ said' = [said EXCEPT !.text[k] = c]
  /\ UNCHANGED <<pcached, file>>

\* what replace_memory_context_from_results copies: chunks that are not empty,
\* a separator before each but the first
Selected(d) ==
  LET chunks == SelectSeq([i \in DOMAIN d.results |->
                             SubSeq(d.text, d.chunks[d.results[i]].begin + 1, d.chunks[d.results[i]].end)],
                          LAMBDA c : c # <<>>)
  IN FlattenSeq([i \in DOMAIN chunks |-> (IF i = 1 THEN <<>> ELSE d.separator) \o chunks[i]])

RangesValid(d) ==
  \A i \in DOMAIN d.results :
    /\ d.results[i] \in DOMAIN d.chunks
    /\ d.chunks[d.results[i]].begin <= d.chunks[d.results[i]].end
    /\ d.chunks[d.results[i]].end <= Len(d.text)

SetMemoryFromResults(d) ==
  /\ ~agent.decoding /\ RangesValid(d) /\ Len(Selected(d)) <= d.max
  /\ agent' = Replaced(agent, "memory", Selected(d))
  /\ said' = [said EXCEPT !.text["memory"] = Selected(d)]
  /\ UNCHANGED <<pcached, file>>

---------------------------------------------------------------------------
(* The prompt *)

\* apply_prompt_overflow: messages removed until the prompt fits
Removed(user) ==
  IF PromptBytes(agent, user) <= MaxPromptBytes \/ ~TruncateOldest THEN 0
  ELSE CHOOSE k \in 0 .. Len(agent.msgs) :
         /\ k = Len(agent.msgs) \/ PromptBytes(Without(agent, k), user) <= MaxPromptBytes
         /\ \A j \in 0 .. k - 1 : PromptBytes(Without(agent, j), user) > MaxPromptBytes

Fitted(user) == Without(agent, Removed(user))

Tokenize(text, special) == (IF special THEN <<"bos">> ELSE <<>>) \o text

FullKey(prompt) == [kind |-> "raw", text |-> prompt]
PrefixKey(prefix) == [kind |-> "history", text |-> prefix]

\* a put may replace an entry, push others out or be refused
Puts(c, key, toks) ==
  {c} \cup {[k \in kept \cup {key} |-> IF k = key THEN toks ELSE c[k]] :
              kept \in {s \in SUBSET (DOMAIN c) : Cardinality(s \cup {key}) <= MaxCached}}

\* feed_prompt_with_cache: the tokens fed and the caches it may leave behind
Feeds(prefix, prompt) ==
  LET all == Tokenize(prompt, TRUE) IN
  IF FullKey(prompt) \in DOMAIN pcached
    THEN {[fed |-> pcached[FullKey(prompt)], cache |-> pcached]}
  ELSE IF prefix = <<>> THEN {[fed |-> all, cache |-> pcached]}
  ELSE IF PrefixKey(prefix) \in DOMAIN pcached
    THEN {[fed |-> pcached[PrefixKey(prefix)]
                   \o Tokenize(SubSeq(prompt, Len(prefix) + 1, Len(prompt)), FALSE),
           cache |-> pcached]}
  ELSE {[fed |-> all, cache |-> c2] :
          c2 \in UNION {Puts(c1, PrefixKey(prefix), Tokenize(prefix, TRUE)) :
                          c1 \in Puts(pcached, FullKey(prompt), all)}}

\* agent_chat_enqueue up to conv_decode.  What the overflow removed stays
\* removed when a later step fails.
Enqueue(user, outcome) ==
  LET fit == Fitted(user)
      gone == Removed(user)
      prefix == IF fit.prefix.valid THEN fit.prefix.text ELSE StablePrefix(fit)
      log == SubSeq(said.log, gone + 1, Len(said.log))
      want == TextLines(said.text)
              \o FlattenSeq([i \in DOMAIN log |-> Line(log[i].role, log[i].content)])
  IN /\ ~agent.decoding
     /\ CASE PromptBytes(fit, user) > MaxPromptBytes \/ outcome = "scratch_nomem" ->
               /\ agent' = fit /\ said' = [said EXCEPT !.log = log] /\ UNCHANGED pcached
          [] OTHER ->
               \E f \in Feeds(prefix, Prompt(prefix, user)) :
                 /\ agent' = [fit EXCEPT !.prefix = [valid |-> TRUE, text |-> prefix],
                                         !.fed = f.fed, !.decoding = TRUE]
                 /\ said' = [said EXCEPT !.log = log, !.prompt = Prompt(want, user)]
                 /\ pcached' = f.cache
     /\ UNCHANGED file

\* conv_reset discards the fed tokens before the next chat reads them
ChatEnds ==
  /\ agent.decoding /\ agent' = [agent EXCEPT !.decoding = FALSE, !.fed = <<>>]
  /\ said' = [said EXCEPT !.prompt = <<>>]
  /\ UNCHANGED <<pcached, file>>

\* the cache evicts, is cleared or loaded
CacheLoses ==
  /\ \E s \in SUBSET (DOMAIN pcached) : s # DOMAIN pcached /\ pcached' = [k \in s |-> pcached[k]]
  /\ UNCHANGED <<agent, said, file>>

---------------------------------------------------------------------------
(* Saving and loading *)

Kept(version) == CASE version = 1 -> {"system"} [] version = 2 -> {"system", "summary"}
                   [] OTHER -> TextKinds

\* agent_history_save writes version 3; older files come from older releases
Saved(a, version) ==
  LET t == [k \in TextKinds |-> IF k \in Kept(version) THEN a.text[k] ELSE <<>>] IN
  [version |-> version, lens |-> [k \in TextKinds |-> Len(t[k])], count |-> Len(a.msgs),
   body |-> t["system"] \o t["summary"] \o t["memory"]
            \o FlattenSeq([i \in DOMAIN a.msgs |->
                 <<[role |-> a.msgs[i].role, len |-> a.msgs[i].len]>> \o Content(a, a.msgs[i])]),
   of |-> [text |-> [k \in TextKinds |-> IF k \in Kept(version) THEN said.text[k] ELSE <<>>],
           log |-> said.log]]

HistorySave(version) ==
  /\ file' = Saved(agent, version) /\ UNCHANGED <<agent, said, pcached>>

\* where record i begins; past the end when a record does not fit
RecordAt(f, body) ==
  LET start == f.lens["system"] + f.lens["summary"] + f.lens["memory"]
      past == Len(body) + 1
      at[i \in 0 .. f.count] ==
        IF i = 0 THEN start
        ELSE IF at[i - 1] >= Len(body) \/ body[at[i - 1] + 1] \notin [role : Roles, len : 0 .. Len(body)]
          THEN past
        ELSE at[i - 1] + 1 + body[at[i - 1] + 1].len
  IN at

Loads(f, body) ==
  /\ f.version \in 1 .. 3 /\ f.count <= MaxMessages
  /\ RecordAt(f, body)[f.count] = Len(body)

\* agent_history_load of a file that may have lost or gained its last unit:
\* everything is parsed and allocated before anything is replaced
HistoryLoad(body) ==
  LET at == RecordAt(file, body)
      len(i) == body[at[i - 1] + 1].len
      arena == FlattenSeq([i \in 1 .. file.count |-> SubSeq(body, at[i - 1] + 2, at[i])])
      before == [i \in 1 .. file.count |-> at[i - 1] - at[0] - (i - 1)]
      s == file.lens["system"]
      u == file.lens["summary"]
  IN /\ Loads(file, body)
     /\ agent' = [agent EXCEPT
          !.text = [k \in TextKinds |->
             CASE k = "system" -> SubSeq(body, 1, s)
               [] k = "summary" -> SubSeq(body, s + 1, s + u)
               [] k = "memory" -> SubSeq(body, s + u + 1, at[0])],
          !.msgs = [i \in 1 .. file.count |-> [role |-> body[at[i - 1] + 1].role,
                                               off |-> before[i], len |-> len(i)]],
          !.arena = arena, !.prefix = Invalid]
     /\ said' = [said EXCEPT !.text = file.of.text, !.log = file.of.log]
     /\ UNCHANGED <<pcached, file>>

Bodies == {file.body, Append(file.body, "x")}
          \cup (IF file.body = <<>> THEN {} ELSE {Front(file.body)})

---------------------------------------------------------------------------
AHNext ==
  \/ \E k \in TextKinds : \E c \in TextChoices[k] : SetText(k, c)
  \/ \E d \in Documents : SetMemoryFromResults(d)
  \/ \E r \in Roles, c \in MessageTexts, o \in {"ok", "nomem"} : MessageAdd(r, c, o)
  \/ HistoryClear
  \/ \E u \in MessageTexts, o \in {"ok", "scratch_nomem"} : Enqueue(u, o)
  \/ ChatEnds \/ CacheLoses
  \/ \E v \in 1 .. 3 : HistorySave(v)
  \/ \E b \in Bodies : HistoryLoad(b)

AHSpec == AHInit /\ [][AHNext]_agVars

\* The model was fed the prompt that the texts and messages the agent has
\* been given call for, after one beginning-of-sequence token, whichever
\* part of it came from the cache (agent.cpp:672, 459), the arena's records
\* still spell the messages after truncation and loading (380, 1487), and a
\* prefix kept between chats is the one a fresh rendering would give (217).
PromptFaithful ==
  /\ agent.text = said.text
  /\ [i \in DOMAIN agent.msgs |-> [role |-> agent.msgs[i].role, content |-> Content(agent, agent.msgs[i])]]
       = said.log
  /\ agent.prefix.valid => agent.prefix.text = StablePrefix(agent)
  /\ agent.decoding => agent.fed = <<"bos">> \o said.prompt
===============================================================================
