----------------------------- MODULE ObjectGraph -----------------------------
(***************************************************************************)
(* The objects behind the handles of the C ABI and the references between  *)
(* them: who keeps whose storage alive, in which order a destruction gives *)
(* references back, and what each family of astral_* calls dereferences    *)
(* once its handle checks have passed.                                     *)
(*                                                                         *)
(* Calls are atomic here (the handle table itself is HandleTable, the      *)
(* threads are in the other modules).  References that the code counts are *)
(* counted; the one it does not count, an agent's pointer to its model, is *)
(* not.                                                                    *)
(***************************************************************************)
EXTENDS Naturals, Sequences, FiniteSets, Functions

CONSTANTS
  Objects,       \* the objects a caller makes, each at most once
  KindOf,        \* object -> its HandleKind
  OptionalOps,   \* the optional operations the provider has
  MaxAdapters,   \* ASTRAL_SESSION_ADAPTERS_MAX
  NoObject       \* a null pointer

ASSUME GraphAssumption ==
  /\ KindOf \in [Objects -> {"model", "adapter", "toolset", "session", "conv", "agent",
                             "embedder", "index", "cursor", "view"}]
  /\ IsFiniteSet(Objects) /\ NoObject \notin Objects /\ MaxAdapters \in Nat

VARIABLES
  obj,      \* object -> its record
  leaked    \* models with a reference that a failed session_create never gave
            \* back (bound: one such failure for each)

ogVars == <<obj, leaked>>

Fresh == [mem |-> "none", reg |-> FALSE, refs |-> 0, owned |-> FALSE, model |-> NoObject,
          toolset |-> NoObject, adapters |-> <<>>, conv |-> NoObject]

OfKind(k) == {o \in Objects : KindOf[o] = k}

\* lookup_handle: the object of a registered handle of this kind
Lookup(k) == {o \in OfKind(k) : obj[o].reg}
Unmade(k) == {o \in OfKind(k) : obj[o].mem = "none"}

---------------------------------------------------------------------------
(* References, as functions from one graph to the next *)

Retain(g, o)  == [g EXCEPT ![o].refs = @ + 1]
Forget(g, o)  == [g EXCEPT ![o].reg = FALSE, ![o].mem = "freed"]

\* model_release: the last reference unloads the provider and then takes the
\* handle away
DropModel(g, m) ==
  LET down == [g EXCEPT ![m].refs = @ - 1]
  IN  IF g[m].refs = 1 THEN Forget(down, m) ELSE down

\* toolset_release
DropToolset(g, t) ==
  IF t = NoObject THEN g
  ELSE LET down == [g EXCEPT ![t].refs = @ - 1]
       IN  IF g[t].refs = 1 THEN Forget(down, t) ELSE down

\* adapter_release: the last reference unloads the provider's adapter and
\* gives the adapter's model reference back
DropAdapter(g, a) ==
  LET down == [g EXCEPT ![a].refs = @ - 1]
  IN  IF g[a].refs = 1 THEN DropModel(Forget(down, a), g[a].model) ELSE down

\* the graph after each turn of the loop over a list of adapters
DropEach(g, list) ==
  LET after[n \in 0 .. Len(list)] == IF n = 0 THEN g ELSE DropAdapter(after[n - 1], list[n])
  IN  after

\* session_adapter_refs_clear
DropAdapters(g, s) ==
  [DropEach(g, g[s].adapters)[Len(g[s].adapters)] EXCEPT ![s].adapters = <<>>]

\* session_destroy and conv_destroy, from the handle to the storage
DestroyRunner(g, s) ==
  LET out      == [g EXCEPT ![s].reg = FALSE]
      tools    == [DropToolset(out, g[s].toolset) EXCEPT ![s].toolset = NoObject]
      adapters == DropAdapters(tools, s)
  IN  [DropModel(adapters, g[s].model) EXCEPT ![s].mem = "freed"]

---------------------------------------------------------------------------
(* Creation *)

OGInit == obj = [o \in Objects |-> Fresh] /\ leaked = {}

Made(g, o) == [g EXCEPT ![o].mem = "live", ![o].reg = TRUE, ![o].owned = TRUE]

\* model_load, toolset_create: born with the caller's reference
CreateRoot(o) ==
  /\ KindOf[o] \in {"model", "toolset"} /\ obj[o].mem = "none"
  /\ obj' = [Made(obj, o) EXCEPT ![o].refs = 1]
  /\ UNCHANGED leaked

\* adapter_load; when the handle table is full the reference it took on the
\* model goes back, which is a step that changes nothing
AdapterLoad(o) ==
  \E m \in Lookup("model") :
    /\ o \in Unmade("adapter") /\ "model_adapter_load" \in OptionalOps
    /\ obj' = [Made(Retain(obj, m), o) EXCEPT ![o].refs = 1, ![o].model = m]
    /\ UNCHANGED leaked

\* session_create and conv_create once they succeed, and embedder_create
RunnerCreate(o) ==
  \E m \in Lookup("model") :
    /\ o \in Unmade("session") \cup Unmade("conv") \cup Unmade("embedder")
    /\ KindOf[o] = "embedder" => "embedder_create" \in OptionalOps
    /\ obj' = [Made(Retain(obj, m), o) EXCEPT ![o].model = m]
    /\ UNCHANGED leaked

\* session_create without memory for the scratch block or for the session:
\* it returns with the model's reference taken
SessionCreateNoMemory ==
  \E m \in Lookup("model") :
    /\ Unmade("session") # {} /\ m \notin leaked
    /\ obj' = Retain(obj, m)
    /\ leaked' = leaked \cup {m}

\* agent_create: the toolset is retained, the model is linked by its address,
\* so the caller is one that owns the model
AgentCreate(o) ==
  \E m \in {r \in Lookup("model") : obj[r].owned}, t \in Lookup("toolset") \cup {NoObject} :
    /\ o \in Unmade("agent")
    /\ obj' = [Made(IF t = NoObject THEN obj ELSE Retain(obj, t), o) EXCEPT
                 ![o].model = m, ![o].toolset = t]
    /\ UNCHANGED leaked

\* prompt caches, memory indexes, search cursors and snapshot views refer to
\* nothing; a cursor copies its results out of the index it was made from
CreatePlain(o) ==
  /\ o \in Unmade("index") \cup Unmade("view") \cup Unmade("cursor")
  /\ KindOf[o] = "cursor" => Lookup("index") # {}
  /\ obj' = Made(obj, o)
  /\ UNCHANGED leaked

---------------------------------------------------------------------------
(* References between live objects *)

\* session_adapters_add: an adapter of the session's own model
AdaptersAdd(s) ==
  \E a \in Lookup("adapter") :
    /\ s \in Lookup("session") /\ obj[a].model = obj[s].model
    /\ "session_adapter_add" \in OptionalOps /\ Len(obj[s].adapters) < MaxAdapters
    /\ obj' = [Retain(obj, a) EXCEPT ![s].adapters = Append(@, a)]
    /\ UNCHANGED leaked

\* session_adapters_clear
AdaptersClear(s) ==
  /\ s \in Lookup("session") /\ obj[s].adapters # <<>>
  /\ obj' = DropAdapters(obj, s)
  /\ UNCHANGED leaked

\* the old toolset released before the new one is retained
SetToolset_ReleaseFirst(s, t) ==
  /\ s \in Lookup("session") \cup Lookup("conv")
  /\ obj' = Retain([DropToolset(obj, obj[s].toolset) EXCEPT ![s].toolset = t], t)
  /\ UNCHANGED leaked

\* session_set_toolset and conv_set_toolset retain the new one first, so that
\* setting the same toolset again does not free it
SetToolset(s, t) ==
  /\ s \in Lookup("session") \cup Lookup("conv")
  /\ obj' = DropToolset([Retain(obj, t) EXCEPT ![s].toolset = t], obj[s].toolset)
  /\ UNCHANGED leaked

ClearToolset(s) ==
  /\ s \in Lookup("session") \cup Lookup("conv") /\ obj[s].toolset # NoObject
  /\ obj' = DropToolset([obj EXCEPT ![s].toolset = NoObject], obj[s].toolset)
  /\ UNCHANGED leaked

\* agent_ensure_conversation: by the handle of the model, which may be gone
EnsureConversation(a, c) ==
  /\ a \in Lookup("agent") /\ obj[a].conv = NoObject /\ c \in Unmade("conv")
  /\ obj[a].model \in Lookup("model")
  /\ LET made  == [Retain(obj, obj[a].model) EXCEPT
                     ![c].mem = "live", ![c].reg = TRUE, ![c].model = obj[a].model,
                     ![c].toolset = obj[a].toolset, ![a].conv = c]
     IN  obj' = IF obj[a].toolset = NoObject THEN made ELSE Retain(made, obj[a].toolset)
  /\ UNCHANGED leaked

\* agent_release_slot
ReleaseSlot(a) ==
  /\ a \in Lookup("agent") /\ obj[a].conv # NoObject
  /\ obj' = [DestroyRunner(obj, obj[a].conv) EXCEPT ![a].conv = NoObject]
  /\ UNCHANGED leaked

---------------------------------------------------------------------------
(* Destruction: the caller gives back what it owns, once *)

Owned(k) == {o \in Lookup(k) : obj[o].owned}

\* The agents of a model that a caller still has
AgentsOf(m) == {a \in Lookup("agent") : obj[a].model = m}

\* astral_model_release; the caller destroys the model's agents before
ModelRelease(m) ==
  /\ m \in Owned("model") /\ AgentsOf(m) = {}
  /\ obj' = DropModel([obj EXCEPT ![m].owned = FALSE], m)
  /\ UNCHANGED leaked

\* astral_toolset_destroy, astral_model_adapter_release
RefRelease(o) ==
  /\ o \in Owned("toolset") \cup Owned("adapter")
  /\ obj' = LET given == [obj EXCEPT ![o].owned = FALSE]
            IN  IF KindOf[o] = "toolset" THEN DropToolset(given, o) ELSE DropAdapter(given, o)
  /\ UNCHANGED leaked

\* astral_session_destroy, astral_conv_destroy
RunnerDestroy(s) ==
  /\ s \in Owned("session") \cup Owned("conv")
  /\ obj' = [DestroyRunner(obj, s) EXCEPT ![s].owned = FALSE]
  /\ UNCHANGED leaked

\* embedder_destroy lowers the model's count itself and frees nothing
EmbedderDestroy(e) ==
  /\ e \in Owned("embedder")
  /\ obj' = [Forget(obj, e) EXCEPT ![e].owned = FALSE, ![obj[e].model].refs = @ - 1]
  /\ UNCHANGED leaked

\* agent_destroy: unlinks itself from the model, then its conversation and
\* its toolset
AgentDestroy(a) ==
  /\ a \in Owned("agent")
  /\ LET conv  == IF obj[a].conv = NoObject THEN obj ELSE DestroyRunner(obj, obj[a].conv)
         tools == DropToolset(conv, obj[a].toolset)
     IN  obj' = [Forget(tools, a) EXCEPT ![a].owned = FALSE, ![a].conv = NoObject]
  /\ UNCHANGED leaked

DestroyPlain(o) ==
  /\ o \in Owned("index") \cup Owned("view") \cup Owned("cursor")
  /\ obj' = [Forget(obj, o) EXCEPT ![o].owned = FALSE]
  /\ UNCHANGED leaked

OGNext ==
  \/ \E o \in Objects :
       \/ CreateRoot(o) \/ AdapterLoad(o) \/ RunnerCreate(o) \/ AgentCreate(o) \/ CreatePlain(o)
       \/ AdaptersAdd(o) \/ AdaptersClear(o) \/ ClearToolset(o) \/ ReleaseSlot(o)
       \/ ModelRelease(o) \/ RefRelease(o) \/ RunnerDestroy(o) \/ EmbedderDestroy(o)
       \/ AgentDestroy(o) \/ DestroyPlain(o)
  \/ SessionCreateNoMemory
  \/ \E s \in Objects, t \in Lookup("toolset") : SetToolset(s, t)
  \/ \E a, c \in Objects : EnsureConversation(a, c)

OGSpec == OGInit /\ [][OGNext]_ogVars

---------------------------------------------------------------------------
(* The calls of the C ABI.  Each looks its handle up, refuses what the     *)
(* provider has no operation for, and then works through the object and    *)
(* what hangs off it; a family is the calls that reach the same objects.   *)

Family(kind, ops, reads) == [on |-> kind, ops |-> ops, reads |-> reads]

\* astral_model_info, _caps, _limits
ModelQueries == {Family("model", {}, {})}

\* astral_model_media_init, _media_info need the operation they forward to
MediaCalls == {Family("model", {"model_media_init"}, {}), Family("model", {"model_media_info"}, {})}

\* astral_model_executor_configure, astral_model_executor_tune
ExecutorCalls == {Family("model", {}, {})}

\* astral_model_embedding_dim, astral_tokenize, _count
TokenCalls == {Family("model", {}, {}), Family("model", {"model_embedding_dim"}, {})}

\* astral_tokenize_batch, astral_detokenize, _count
DetokenizeCalls == {Family("model", {}, {})}

\* astral_model_adapter_info, _path_copy
AdapterCalls == {Family("adapter", {}, {"model"})}

\* astral_toolset_count, _get, _parse_call
ToolsetCalls == {Family("toolset", {}, {})}

\* astral_session_feed, _feed_tokens, _set_system_prompt, _feed_image,
\* _feed_audio
SessionFeedCalls == {Family("session", {}, {"model"}),
                     Family("session", {"session_feed_image"}, {"model"}),
                     Family("session", {"session_feed_audio"}, {"model"})}

\* astral_session_set_sampler, _penalty_prompt_set_tokens, _stop_clear,
\* _stop_add_utf8, _stop_set_utf8, _set_logprobs, astral_stream_read_meta
SessionSamplingCalls == {Family("session", {}, {"model"})}

\* astral_session_state_size, _state_save, _state_load
SessionStateCalls == {Family("session", {"session_state"}, {"model"})}

\* astral_session_adapters_count, _get, _set_scale
SessionAdapterCalls == {Family("session", {"session_adapter_add"}, {"model", "adapters"})}

\* astral_session_set_grammar_gbnf, _json_schema, _clear_grammar
SessionGrammarCalls == {Family("session", {"session_grammar"}, {"model"})}

\* astral_session_set_slot
SessionSlotCalls == {Family("session", {"session_set_slot"}, {"model"})}

\* astral_session_decode, _cancel, _state, _wait, _reset, astral_stream_read: a
\* reset applies the adapters again
SessionRunCalls == {Family("session", {}, {"model", "adapters"})}

\* astral_session_stats
SessionStatsCalls == {Family("session", {}, {})}

\* astral_conv_feed, _feed_tokens, _set_system_prompt, _feed_image, _feed_audio
ConvFeedCalls == {Family("conv", {}, {"model"}), Family("conv", {"session_feed_image"}, {"model"}),
                  Family("conv", {"session_feed_audio"}, {"model"})}

\* astral_conv_decode, _cancel, _state, _wait, _reset
ConvRunCalls == {Family("conv", {}, {"model"})}

\* astral_conv_set_sampler, _penalty_prompt_set_tokens, _stop_*, _set_logprobs
ConvSamplingCalls == {Family("conv", {}, {"model"})}

\* astral_conv_grammar_set_gbnf, _set_json_schema, _clear
ConvGrammarCalls == {Family("conv", {"session_grammar_for_slot"}, {"model"})}

\* astral_conv_stream_read, _stream_read_meta, _stats
ConvStreamCalls == {Family("conv", {}, {})}

\* astral_agent_assigned_slot, the prompt texts and their sizes
AgentTextCalls == {Family("agent", {}, {"conv"})}

\* astral_agent_parse_tool_call, _message_add, _history_*
AgentHistoryCalls == {Family("agent", {}, {"conv", "toolset"})}

\* astral_agent_chat_*: reclaiming a slot walks the agents of the model
AgentChatCalls == {Family("agent", {}, {"conv", "convmodel", "toolset", "model"})}

\* astral_embed_enqueue, _image, _audio, _multimodal, _collect, _cancel
EmbedCalls == {Family("embedder", {}, {"model"}),
               Family("embedder", {"embedder_embed_image"}, {"model"}),
               Family("embedder", {"embedder_embed_audio"}, {"model"}),
               Family("embedder", {"embedder_embed_multimodal"}, {"model"})}

\* astral_memory_count, _stats, _clear, _get_record, _update_record,
\* _add_batch, _remove
MemoryCalls == {Family("index", {}, {})}

\* astral_memory_search, _search_batch, _search_begin, _search_fetch
MemorySearchCalls == {Family("index", {}, {}), Family("cursor", {}, {})}

\* astral_memory_save_size, _save
SaveCalls == {Family("index", {}, {})}

\* astral_memory_snapshot_view_info, _snapshot_view_search
SnapshotCalls == {Family("view", {}, {})}

Families ==
  UNION {ModelQueries, MediaCalls, ExecutorCalls, TokenCalls, DetokenizeCalls, AdapterCalls,
         ToolsetCalls, SessionFeedCalls, SessionSamplingCalls, SessionStateCalls,
         SessionAdapterCalls, SessionGrammarCalls, SessionSlotCalls, SessionRunCalls,
         SessionStatsCalls, ConvFeedCalls, ConvRunCalls, ConvSamplingCalls, ConvGrammarCalls,
         ConvStreamCalls, AgentTextCalls, AgentHistoryCalls, AgentChatCalls, EmbedCalls,
         MemoryCalls, MemorySearchCalls, SaveCalls, SnapshotCalls}

\* What a call of a family on object o dereferences
Pointers(o) ==
  [model |-> {obj[o].model}, toolset |-> {obj[o].toolset},
   adapters |-> Range(obj[o].adapters), conv |-> {obj[o].conv},
   convmodel |-> IF obj[o].conv = NoObject THEN {} ELSE {obj[obj[o].conv].model}]
Dereferenced(f, o) == {o} \cup ((UNION {Pointers(o)[r] : r \in f.reads}) \ {NoObject})

Accepted(f, o) == obj[o].reg /\ KindOf[o] = f.on /\ f.ops \subseteq OptionalOps

---------------------------------------------------------------------------
(* Correctness *)

Alive(o) == obj[o].mem = "live"

\* The objects that have a count
Shared == {"model", "adapter", "toolset"}

\* A reference is an object and a field of it, or the caller's own, or one that
\* was leaked; an agent's pointer to its model is not one.
References == Objects \X {"toolset", "model", "adapters", "caller", "leak"} \X (0 .. MaxAdapters)

\* Reference r of the graph is one to object o.
RefersTo(g, lost, r, o) ==
  LET h == r[1]
      i == r[3]
  IN  \/ r[2] = "toolset" /\ i = 0 /\ g[h].mem = "live" /\ g[h].toolset = o
      \/ r[2] = "model" /\ i = 0 /\ g[h].mem = "live" /\ g[h].model = o /\ KindOf[h] # "agent"
      \/ r[2] = "adapters" /\ g[h].mem = "live" /\ i \in DOMAIN g[h].adapters /\ g[h].adapters[i] = o
      \/ r[2] = "caller" /\ i = 0 /\ h = o /\ g[o].owned /\ KindOf[o] \in Shared
      \/ r[2] = "leak" /\ i = 0 /\ h = o /\ o \in lost

ReferencesTo(g, lost, o) == {r \in References : RefersTo(g, lost, r, o)}

\* How many references there are to object o
Holders(o) == Cardinality(ReferencesTo(obj, leaked, o))

Counted == {o \in Objects : Alive(o) /\ KindOf[o] \in Shared}

OGTypeOK ==
  /\ obj \in [Objects -> [mem : {"none", "live", "freed"}, reg : BOOLEAN, refs : Nat,
                         owned : BOOLEAN, model : Objects \cup {NoObject},
                         toolset : Objects \cup {NoObject}, adapters : Seq(Objects),
                         conv : Objects \cup {NoObject}]]
  /\ leaked \subseteq OfKind("model")

\* Every reference that is taken is given back once: through failed creates,
\* replaced toolsets, adapters attached twice and destruction in any order
\* the count of an object is the number of references that exist, adapters and
\* toolsets nobody holds are gone, and what a live object refers to is alive.
RefsBalance ==
  /\ \A o \in Counted : obj[o].refs = Holders(o)
  /\ \A o \in Counted : KindOf[o] # "model" => obj[o].refs > 0
  /\ \A o \in Objects : obj[o].reg => Alive(o)
  /\ \A o \in Objects : Alive(o) =>
       \A d \in Range(obj[o].adapters) \cup ({obj[o].toolset, obj[o].model} \ {NoObject}) :
         Alive(d)

\* No call of the C ABI that its handle checks let through dereferences freed
\* storage: whatever the caller destroyed before, in whatever order, what
\* hangs off a registered handle is alive.
CallsReachLive ==
  \A f \in Families, o \in Objects : Accepted(f, o) => \A d \in Dereferenced(f, o) : Alive(d)

\* The object graph as one invariant.
GraphSound == OGTypeOK /\ RefsBalance /\ CallsReachLive
=============================================================================
