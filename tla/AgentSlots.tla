------------------------------ MODULE AgentSlots ------------------------------
(***************************************************************************)
(* Agents and the executor slots they chat in (agent.cpp).  There may be   *)
(* more agents than slots: a chat that finds no free slot takes the slot   *)
(* of another agent whose chat is over and read, in the order of the       *)
(* model's agent list from a rotating cursor, and keeps the result of the  *)
(* chat that lost its slot.  An enqueue is a sequence of steps of the      *)
(* agent's control thread; the executor streams tokens and ends chats in   *)
(* between.  A conversation's stream is counted in tokens.                 *)
(***************************************************************************)
EXTENDS Naturals, Sequences, SequencesExt, FiniteSets

CONSTANTS
  Agents,        \* agents of one model
  ThreadOf,      \* agent -> the control thread that calls it
  AffinityOf,    \* agent -> 0 (any slot) or the slot it insists on, plus one
  ToolUsers,     \* agents with a toolset, which capture what is read
  AgentSlotIds,  \* executor slots, 1 .. max_slots
  MaxChatTokens, \* max_tokens
  CaptureTokens, \* capacity of the capture buffer, in tokens
  MaxChats,      \* bound: chats in all
  NoAgent        \* no agent

ASSUME AgentAssumption ==
  /\ NoAgent \notin Agents /\ AgentSlotIds \subseteq Nat \ {0}
  /\ AffinityOf \in [Agents -> {0} \cup AgentSlotIds]
  /\ ToolUsers \subseteq Agents
  /\ {MaxChatTokens, CaptureTokens, MaxChats} \subseteq Nat

VARIABLES
  alist,   \* the model's list of agents, newest first
  cursor,  \* agent_reclaim_cursor
  aconv,   \* per agent: its conversation, or none
  achat,   \* per agent: the chat's released result and captured output
  acall,   \* per thread: where its enqueue is
  chats,   \* chats begun
  ghost    \* per agent: what became of its last chat

asVars == <<alist, cursor, aconv, achat, acall, chats, ghost>>

Threads == {ThreadOf[a] : a \in Agents}
NoConv == [slot |-> 0, state |-> "none", ring |-> 0, made |-> 0]
NoResult == [has |-> FALSE, state |-> "idle", tokens |-> 0]
NoChat == [res |-> NoResult, captured |-> 0, truncated |-> FALSE]
NoCall == [at |-> "idle", agent |-> NoAgent, victim |-> NoAgent]
Nothing == [state |-> "idle", made |-> 0, read |-> 0, base |-> 0]
Over == {"idle", "feeding", "completed", "canceled", "failed"}  \* any state but decoding

ASInit ==
  /\ alist = <<>> /\ cursor = NoAgent
  /\ aconv = [a \in Agents |-> NoConv] /\ achat = [a \in Agents |-> NoChat]
  /\ acall = [t \in Threads |-> NoCall] /\ chats = 0
  /\ ghost = [a \in Agents |-> Nothing]

Ready(a) == a \in Range(alist) /\ acall[ThreadOf[a]].at = "idle"
Place(a) == CHOOSE i \in DOMAIN alist : alist[i] = a
FreeSlots == {s \in AgentSlotIds : \A a \in Agents : aconv[a].slot # s}
Usable(a) == {s \in FreeSlots : AffinityOf[a] \in {0, s}}

\* agent_create: link at the head of the list
ACreate(a) ==
  /\ a \notin Range(alist) /\ acall[ThreadOf[a]].at = "idle"
  /\ alist' = <<a>> \o alist
  /\ achat' = [achat EXCEPT ![a] = NoChat] /\ ghost' = [ghost EXCEPT ![a] = Nothing]
  /\ UNCHANGED <<cursor, aconv, acall, chats>>

\* model_agent_unlink: the cursor steps off the agent that leaves
CursorAfter(a) ==
  LET i == Place(a) IN
  IF cursor # a THEN cursor
  ELSE IF i < Len(alist) THEN alist[i + 1]
  ELSE IF i > 1 THEN Head(alist)
  ELSE NoAgent

\* agent_destroy: its conversation goes with it, running or not
ADestroy(a) ==
  /\ Ready(a)
  /\ cursor' = CursorAfter(a) /\ alist' = RemoveAt(alist, Place(a))
  /\ aconv' = [aconv EXCEPT ![a] = NoConv] /\ achat' = [achat EXCEPT ![a] = NoChat]
  /\ ghost' = [ghost EXCEPT ![a] = Nothing]
  /\ UNCHANGED <<acall, chats>>

---------------------------------------------------------------------------
(* Giving a slot back *)

Unread(a) == aconv[a].ring > 0

\* agent_can_reclaim_slot
Reclaimable(a, c) ==
  /\ c # a /\ aconv[c].state \in Over /\ ~Unread(c)
  /\ AffinityOf[a] = 0 \/ aconv[c].slot = AffinityOf[a]

\* the list as reclaim_completed_agent_slot walks it
Walk ==
  LET i == IF cursor = NoAgent THEN 1 ELSE Place(cursor) IN
  SubSeq(alist, i, Len(alist)) \o SubSeq(alist, 1, i - 1)

NextInList(c) ==
  LET i == Place(c) IN
  IF i < Len(alist) THEN alist[i + 1] ELSE Head(alist)

\* a slot given back without its result
Released_Forgotten(a) ==
  /\ aconv' = [aconv EXCEPT ![a] = NoConv]
  /\ UNCHANGED achat

\* agent_release_slot: the result is kept, the conversation destroyed
Released(a) ==
  /\ aconv' = [aconv EXCEPT ![a] = NoConv]
  /\ achat' = [achat EXCEPT ![a].res = [has |-> TRUE, state |-> aconv[a].state, tokens |-> aconv[a].made]]

AReleaseSlot(a) ==
  /\ Ready(a) /\ aconv[a].state \in Over /\ ~Unread(a)
  /\ Released(a)
  /\ UNCHANGED <<alist, cursor, acall, chats, ghost>>

---------------------------------------------------------------------------
(* agent_chat_enqueue *)

\* everything before the conversation is needed: the released result is
\* forgotten and the capture emptied
EnqueueBegin(a) ==
  /\ Ready(a) /\ chats < MaxChats /\ aconv[a].state # "decoding"
  /\ achat' = [achat EXCEPT ![a] = NoChat]
  /\ ghost' = [ghost EXCEPT ![a] = IF aconv[a].state = "none" THEN Nothing
                                   ELSE [@ EXCEPT !.base = ghost[a].read]]
  /\ acall' = [acall EXCEPT ![ThreadOf[a]] =
                 [NoCall EXCEPT !.at = IF aconv[a].state = "none" THEN "create" ELSE "reset", !.agent = a]]
  /\ UNCHANGED <<alist, cursor, aconv, chats>>

\* conv_create_affine finds a slot
CreateConv(t) ==
  LET a == acall[t].agent IN
  /\ acall[t].at \in {"create", "again"} /\ Usable(a) # {}
  /\ \E s \in Usable(a) :
       aconv' = [aconv EXCEPT ![a] = [slot |-> s, state |-> "idle", ring |-> 0, made |-> 0]]
  /\ acall' = [acall EXCEPT ![t].at = "reset"]
  /\ UNCHANGED <<alist, cursor, achat, chats, ghost>>

\* E_BUSY: reclaim_completed_agent_slot picks an agent under the executor lock
PickReclaim(t) ==
  LET a == acall[t].agent IN
  /\ acall[t].at = "create" /\ Usable(a) = {}
  /\ \E i \in DOMAIN Walk :
       /\ Reclaimable(a, Walk[i]) /\ \A j \in 1 .. i - 1 : ~Reclaimable(a, Walk[j])
       /\ cursor' = NextInList(Walk[i])
       /\ acall' = [acall EXCEPT ![t].at = "release", ![t].victim = Walk[i]]
  /\ UNCHANGED <<alist, aconv, achat, chats, ghost>>

\* and releases its slot after the lock, if it still may
ReleaseReclaim(t) ==
  LET c == acall[t].victim
      ok == aconv[c].state \in Over /\ ~Unread(c)
  IN /\ acall[t].at = "release"
     /\ IF ok THEN Released(c) ELSE UNCHANGED <<aconv, achat>>
     /\ acall' = [acall EXCEPT ![t] = IF ok THEN [@ EXCEPT !.at = "again", !.victim = NoAgent] ELSE NoCall]
     /\ UNCHANGED <<alist, cursor, chats, ghost>>

\* no slot: E_BUSY, with nothing reclaimable or the slot taken by another
EnqueueBusy(t) ==
  LET a == acall[t].agent IN
  /\ acall[t].at \in {"create", "again"} /\ Usable(a) = {}
  /\ \/ acall[t].at = "again"
     \/ \A c \in Range(alist) : ~Reclaimable(a, c)
  /\ acall' = [acall EXCEPT ![t] = NoCall]
  /\ UNCHANGED <<alist, cursor, aconv, achat, chats, ghost>>

\* conv_reset empties the stream; a reader inside the stream makes it fail
ResetConv(t) ==
  LET a == acall[t].agent IN
  /\ acall[t].at = "reset"
  /\ \/ /\ aconv' = [aconv EXCEPT ![a].state = "idle", ![a].ring = 0, ![a].made = 0]
        /\ ghost' = [ghost EXCEPT ![a] = Nothing]
        /\ acall' = [acall EXCEPT ![t].at = "feed"]
     \/ acall' = [acall EXCEPT ![t] = NoCall] /\ UNCHANGED <<aconv, ghost>>
  /\ UNCHANGED <<alist, cursor, achat, chats>>

\* the feed of the prompt and conv_decode; each may fail
FeedConv(t) ==
  LET a == acall[t].agent IN
  /\ acall[t].at = "feed"
  /\ \/ /\ aconv' = [aconv EXCEPT ![a].state = "feeding"]
        /\ ghost' = [ghost EXCEPT ![a].state = "feeding"]
        /\ acall' = [acall EXCEPT ![t].at = "decode"]
     \/ acall' = [acall EXCEPT ![t] = NoCall] /\ UNCHANGED <<aconv, ghost>>
  /\ UNCHANGED <<alist, cursor, achat, chats>>

DecodeConv(t) ==
  LET a == acall[t].agent IN
  /\ acall[t].at = "decode"
  /\ \/ /\ aconv' = [aconv EXCEPT ![a].state = "decoding"]
        /\ ghost' = [ghost EXCEPT ![a].state = "decoding"]
        /\ chats' = chats + 1
     \/ UNCHANGED <<aconv, ghost, chats>>
  /\ acall' = [acall EXCEPT ![t] = NoCall]
  /\ UNCHANGED <<alist, cursor, achat>>

---------------------------------------------------------------------------
(* The executor, the reader and cancellation *)

Streams(a) ==
  /\ aconv[a].state = "decoding" /\ aconv[a].made < MaxChatTokens
  /\ aconv' = [aconv EXCEPT ![a].made = @ + 1, ![a].ring = @ + 1]
  /\ ghost' = [ghost EXCEPT ![a].made = @ + 1]
  /\ UNCHANGED <<alist, cursor, achat, acall, chats>>

Ends(a, how) ==
  /\ aconv[a].state = "decoding" /\ (how = "completed" => aconv[a].made > 0)
  /\ aconv' = [aconv EXCEPT ![a].state = how]
  /\ ghost' = [ghost EXCEPT ![a].state = how]
  /\ UNCHANGED <<alist, cursor, achat, acall, chats>>

\* agent_chat_stream_read, append_generated_capture
AStreamRead(a) ==
  /\ Ready(a) /\ aconv[a].ring > 0
  /\ aconv' = [aconv EXCEPT ![a].ring = @ - 1]
  /\ ghost' = [ghost EXCEPT ![a].read = @ + 1]
  /\ achat' = [achat EXCEPT
       ![a].captured = IF a \in ToolUsers /\ @ < CaptureTokens THEN @ + 1 ELSE @,
       ![a].truncated = @ \/ (a \in ToolUsers /\ achat[a].captured = CaptureTokens)]
  /\ UNCHANGED <<alist, cursor, acall, chats>>

\* agent_chat_result
ResultOf(a) ==
  IF aconv[a].state # "none" THEN [state |-> aconv[a].state, made |-> aconv[a].made]
  ELSE [state |-> achat[a].res.state, made |-> achat[a].res.tokens]

---------------------------------------------------------------------------
ASNext ==
  \/ \E a \in Agents : \/ ACreate(a) \/ ADestroy(a) \/ AReleaseSlot(a) \/ EnqueueBegin(a)
                       \/ Streams(a) \/ AStreamRead(a)
                       \/ \E how \in {"completed", "canceled", "failed"} : Ends(a, how)
  \/ \E t \in Threads : \/ CreateConv(t) \/ PickReclaim(t) \/ ReleaseReclaim(t) \/ EnqueueBusy(t)
                        \/ ResetConv(t) \/ FeedConv(t) \/ DecodeConv(t)

ASSpec == ASInit /\ [][ASNext]_asVars

\* No agent loses its conversation while its enqueue feeds it (agent.cpp:1040).
ConvKept == \A t \in Threads : acall[t].at \in {"reset", "feed", "decode"} => aconv[acall[t].agent].slot # 0

\* A chat an agent has begun keeps its conversation until it is over and
\* read, and its result outlives the slot: no agent's conversation goes away
\* under its enqueue, what agent_chat_result reports is what became of the
\* chat, nothing that was streamed is lost unread, the tool call is parsed
\* from all that was read since the enqueue or known to be cut, no slot
\* serves two agents, and the cursor points into the list (agent.cpp:1040,
\* 1236, 1798, 990, 234).
ChatKept ==
  /\ ConvKept
  /\ \A a \in Range(alist) :
       /\ ResultOf(a) = [state |-> ghost[a].state, made |-> ghost[a].made]
       /\ aconv[a].ring = ghost[a].made - ghost[a].read
       /\ a \in ToolUsers => \/ achat[a].captured = ghost[a].read - ghost[a].base
                             \/ achat[a].truncated /\ achat[a].captured < ghost[a].read - ghost[a].base
  /\ \A a, b \in Agents : a # b /\ aconv[a].slot # 0 => aconv[a].slot # aconv[b].slot
  /\ cursor # NoAgent => cursor \in Range(alist)
===============================================================================
