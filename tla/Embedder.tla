------------------------------- MODULE Embedder -------------------------------
(***************************************************************************)
(* The embedder's ticket queue (embedder.cpp).  A request takes a slot of  *)
(* the free mask, copies its input into it and gets a ticket made of a     *)
(* counter and the slot; collecting the ticket runs the provider and frees *)
(* the slot, giving it up (a cancel, a collect into too little room) frees *)
(* it too and remembers the ticket in a short history.  Callers run in     *)
(* parallel, each on the tickets it enqueued; any caller may ask for the   *)
(* state of any ticket, and looks at the slot's ticket first and at its    *)
(* state or at the history later.                                          *)
(***************************************************************************)
EXTENDS Integers, Sequences, FiniteSets

CONSTANTS
  Callers,       \* threads
  MaxInflight,   \* slots
  History,       \* entries of the completed-ticket history
  MaxTickets     \* bound: tickets handed out

ASSUME EmbedAssumption == MaxInflight \in Nat \ {0} /\ History \in Nat \ {0} /\ MaxTickets \in Nat

VARIABLES
  free,     \* the free mask, as a set of slots
  counter,  \* ticket_counter
  eslot,    \* [slots -> slot]
  done,     \* the completed-ticket ring, of tickets and their errors
  doneAt,   \* completed_cursor
  ecall,    \* [Callers -> call in progress]
  mine,     \* [Callers -> tickets returned by enqueue and still in their slot]
  issued,   \* ghost: tickets that enqueue returned
  answered, \* ghost: tickets collected
  given,    \* ghost: tickets given up and their errors, in order
  bufs,     \* ghost: input copies allocated and not freed, by input and kind
  crossed   \* ghost: tickets answered from another ticket's input

endVars == <<issued, answered, given>>
emVars == <<free, counter, eslot, done, doneAt, ecall, mine, endVars, bufs, crossed>>

ESlots == 0 .. MaxInflight - 1
NoTicket == <<0, 0>>
CleanSlot == [state |-> "free", ticket |-> NoTicket, input |-> 0, text |-> 0, media |-> 0]
IdleCall == [pc |-> "idle", mask |-> {}, at |-> 0, ticket |-> NoTicket, kind |-> "text", open |-> FALSE]
NoEntry == <<NoTicket, "OK">>

EMInit ==
  /\ free = ESlots /\ counter = 1 /\ eslot = [i \in ESlots |-> CleanSlot]
  /\ done = [i \in 0 .. History - 1 |-> NoEntry] /\ doneAt = 0
  /\ ecall = [t \in Callers |-> IdleCall] /\ mine = [t \in Callers |-> {}]
  /\ issued = {} /\ answered = {} /\ given = <<>> /\ bufs = {} /\ crossed = {}

Call(t, c) == ecall' = [ecall EXCEPT ![t] = c]
Lowest(mask) == CHOOSE i \in mask : \A j \in mask : i <= j

\* the copies of an input that slot i points to
SlotCopies(i) == {<<eslot[i].input, m>> : m \in {n \in {"text", "media"} : eslot[i][n] = 1}}

\* slot_clear_buffers: the copies are freed
Clear(i) ==
  /\ bufs' = bufs \ SlotCopies(i)
  /\ eslot' = [eslot EXCEPT ![i].text = 0, ![i].media = 0]

-----------------------------------------------------------------------------
(* Enqueue.                                                                *)

Enqueue(t, kind) ==
  /\ ecall[t].pc = "idle" /\ counter <= MaxTickets
  /\ Call(t, [IdleCall EXCEPT !.pc = "acquire", !.mask = free, !.kind = kind])
  /\ UNCHANGED <<free, counter, eslot, done, doneAt, mine, endVars, bufs, crossed>>

AcquireSlot_Blind(t) ==
  LET c == ecall[t] IN
  /\ c.pc = "acquire"
  /\ IF c.mask = {} THEN Call(t, IdleCall) /\ UNCHANGED free
     ELSE free' = free \ {Lowest(c.mask)} /\ Call(t, [c EXCEPT !.pc = "fill", !.at = Lowest(c.mask)])
  /\ UNCHANGED <<counter, eslot, done, doneAt, mine, endVars, bufs, crossed>>

\* acquire_free_slot: one fetch_and on the lowest bit of the mask last seen;
\* the bit may be gone, then the search goes on in what the fetch returned
AcquireSlot(t) ==
  LET c == ecall[t]
      i == Lowest(c.mask)
  IN  /\ c.pc = "acquire"
      /\ IF c.mask = {} THEN Call(t, IdleCall) /\ UNCHANGED free
         ELSE /\ free' = free \ {i}
              /\ Call(t, IF i \in free THEN [c EXCEPT !.pc = "fill", !.mask = {}, !.at = i]
                         ELSE [c EXCEPT !.mask = free \ {i}])
      /\ UNCHANGED <<counter, eslot, done, doneAt, mine, endVars, bufs, crossed>>

\* the copies a request makes: text is tokenised into the slot, media is
\* copied, a multimodal request may have either or both
CopiesOf(texts, medias) == {[text |-> a, media |-> b] : a \in texts, b \in medias}
TextCopies == CopiesOf({0}, {0})
ImageCopies == CopiesOf({0}, {1})
AudioCopies == CopiesOf({0}, {1})
MultimodalCopies == CopiesOf({0, 1}, {0, 1})
Copies(kind) == CASE kind = "text" -> TextCopies [] kind = "image" -> ImageCopies
                  [] kind = "audio" -> AudioCopies [] OTHER -> MultimodalCopies

\* the slot is filled and the ticket stored, with the state still free
Fill(t, copies) ==
  LET c == ecall[t]
      ticket == <<counter, c.at>>
  IN  /\ c.pc = "fill"
      /\ eslot' = [eslot EXCEPT ![c.at] = [state |-> "free", ticket |-> ticket, input |-> counter,
                                           text |-> copies.text, media |-> copies.media]]
      /\ bufs' = bufs \cup {<<counter, m>> : m \in {n \in {"text", "media"} : copies[n] = 1}}
      /\ counter' = counter + 1
      /\ Call(t, [IdleCall EXCEPT !.pc = "publish", !.at = c.at, !.ticket = ticket])
      /\ UNCHANGED <<free, done, doneAt, mine, endVars, crossed>>

\* the Ready state; after it the caller learns its ticket
Publish(t) ==
  LET c == ecall[t] IN
  /\ c.pc = "publish" /\ eslot' = [eslot EXCEPT ![c.at].state = "ready"]
  /\ mine' = [mine EXCEPT ![t] = @ \cup {c.ticket}] /\ issued' = issued \cup {c.ticket}
  /\ Call(t, IdleCall)
  /\ UNCHANGED <<free, counter, done, doneAt, answered, given, bufs, crossed>>

\* tokenising fails, memory is missing or the media is invalid: what was
\* copied is freed and the slot given back; the counter has moved on
FillFails(t) ==
  LET c == ecall[t] IN
  /\ c.pc = "fill" /\ counter' = counter + 1
  /\ Call(t, [IdleCall EXCEPT !.pc = "release", !.at = c.at])
  /\ UNCHANGED <<free, eslot, done, doneAt, mine, endVars, bufs, crossed>>

\* release_free_slot, the last step of every path
ReleaseSlot(t) ==
  /\ ecall[t].pc = "release" /\ free' = free \cup {ecall[t].at} /\ Call(t, IdleCall)
  /\ UNCHANGED <<counter, eslot, done, doneAt, mine, endVars, bufs, crossed>>

-----------------------------------------------------------------------------
(* Collect and cancel.                                                     *)

\* completed_ticket_store
StoreCompleted(ticket, err) ==
  /\ done' = [done EXCEPT ![doneAt] = <<ticket, err>>]
  /\ doneAt' = IF doneAt + 1 = History THEN 0 ELSE doneAt + 1
  /\ given' = Append(given, <<ticket, err>>)

\* completed_ticket_find
Found(ticket, err) == \E i \in DOMAIN done : done[i] = <<ticket, err>>

\* the slot holds the ticket and is ready: it runs, the slot lock held
Collect(t, ticket) ==
  LET s == eslot[ticket[2]] IN
  /\ ecall[t].pc = "idle" /\ ticket \in mine[t] /\ s.ticket = ticket /\ s.state = "ready"
  /\ eslot' = [eslot EXCEPT ![ticket[2]].state = "running"]
  /\ Call(t, [IdleCall EXCEPT !.pc = "running", !.at = ticket[2], !.ticket = ticket])
  /\ UNCHANGED <<free, counter, done, doneAt, mine, endVars, bufs, crossed>>

\* the provider crossed, with a vector of the input or an error
Embed(t, ret) ==
  LET c == ecall[t] IN
  /\ c.pc = "running" /\ Call(t, [c EXCEPT !.pc = "clear"])
  /\ crossed' = crossed \cup {k \in {c.ticket} : ret = "OK" /\ eslot[c.at].input # k[1]}
  /\ UNCHANGED <<free, counter, eslot, done, doneAt, mine, endVars, bufs>>

\* the answer is out: the buffers first
CollectEnd(t) ==
  LET c == ecall[t] IN
  /\ c.pc = "clear" /\ Clear(c.at) /\ answered' = answered \cup {c.ticket}
  /\ Call(t, [c EXCEPT !.pc = "retire"])
  /\ UNCHANGED <<free, counter, done, doneAt, mine, issued, given, crossed>>

\* a request is given up: the buffers, then the history
Abandon(t, ticket, err) ==
  /\ ecall[t].pc = "idle" /\ ticket \in mine[t] /\ eslot[ticket[2]].ticket = ticket
  /\ Clear(ticket[2]) /\ StoreCompleted(ticket, err)
  /\ Call(t, [IdleCall EXCEPT !.pc = "retire", !.at = ticket[2], !.ticket = ticket])
  /\ UNCHANGED <<free, counter, mine, issued, answered, crossed>>

\* embedder_cancel of a ready ticket
Cancel(t, ticket) == eslot[ticket[2]].state = "ready" /\ Abandon(t, ticket, "E_CANCELED")

\* embedder_collect into a vector that is too small
CollectTooSmall(t, ticket) == Abandon(t, ticket, "E_NOT_FOUND")

\* how a request ends, on every path: ticket, then state, then the mask
RetireTicket(t) ==
  LET c == ecall[t] IN
  /\ c.pc = "retire" /\ eslot' = [eslot EXCEPT ![c.at].ticket = NoTicket]
  /\ mine' = [mine EXCEPT ![t] = @ \ {c.ticket}] /\ Call(t, [c EXCEPT !.pc = "vacate"])
  /\ UNCHANGED <<free, counter, done, doneAt, endVars, bufs, crossed>>

Vacate(t) ==
  LET c == ecall[t] IN
  /\ c.pc = "vacate" /\ eslot' = [eslot EXCEPT ![c.at].state = "free", ![c.at].input = 0]
  /\ Call(t, [c EXCEPT !.pc = "release"])
  /\ UNCHANGED <<free, counter, done, doneAt, mine, endVars, bufs, crossed>>

-----------------------------------------------------------------------------
(* embedder_request_state.                                                 *)

Open(ticket) == \E t \in Callers : ticket \in mine[t]

\* the slot's ticket is looked at
RequestState(t, ticket) ==
  /\ ecall[t].pc = "idle" /\ ticket \in issued
  /\ Call(t, [IdleCall EXCEPT !.pc = IF eslot[ticket[2]].ticket = ticket THEN "state" ELSE "history",
                              !.ticket = ticket, !.open = Open(ticket)])
  /\ UNCHANGED <<free, counter, eslot, done, doneAt, mine, endVars, bufs, crossed>>

\* what the second look, at the slot's state or at the history, reports
Answer(c) ==
  LET state == eslot[c.ticket[2]].state
  IN  CASE c.pc = "state" /\ state = "ready"                          -> "QUEUED"
        [] c.pc = "state" /\ state = "running"                        -> "RUNNING"
        [] c.pc = "history" /\ Found(c.ticket, "E_CANCELED")          -> "CANCELED"
        [] c.pc = "history" /\ Found(c.ticket, "E_NOT_FOUND")         -> "FAILED"
        [] OTHER                                                      -> "INVALID"

StateAnswered(t) ==
  /\ ecall[t].pc \in {"state", "history"} /\ Call(t, IdleCall)
  /\ UNCHANGED <<free, counter, eslot, done, doneAt, mine, endVars, bufs, crossed>>

EMNext ==
  \E t \in Callers :
    \/ \E kind \in {"text", "image", "audio", "multimodal"} : Enqueue(t, kind)
    \/ AcquireSlot(t)
    \/ \E copies \in Copies(ecall[t].kind) : Fill(t, copies)
    \/ FillFails(t)
    \/ Publish(t)
    \/ ReleaseSlot(t)
    \/ \E ticket \in mine[t] : Collect(t, ticket) \/ Cancel(t, ticket) \/ CollectTooSmall(t, ticket)
    \/ \E ret \in {"OK", "E_BACKEND"} : Embed(t, ret)
    \/ CollectEnd(t)
    \/ RetireTicket(t)
    \/ Vacate(t)
    \/ \E ticket \in issued : RequestState(t, ticket)
    \/ StateAnswered(t)

EMSpec == EMInit /\ [][EMNext]_emVars

-----------------------------------------------------------------------------
Users(i) == {t \in Callers : /\ ecall[t].at = i
                             /\ ecall[t].pc \in {"fill", "publish", "running", "clear", "retire", "vacate", "release"}}
Holders(i) == {k \in UNION {mine[t] : t \in Callers} : k[2] = i}

\* A slot is free in the mask, or one call or one open ticket owns it; a free
\* slot holds neither a ticket nor a copy of an input, and no copy leaks.
SlotsOwned ==
  /\ \A i \in ESlots : /\ i \in free => eslot[i] = CleanSlot /\ Users(i) = {} /\ Holders(i) = {}
                       /\ i \notin free => Cardinality(Users(i)) <= 1 /\ Cardinality(Holders(i)) <= 1
                                           /\ (Users(i) # {} \/ Holders(i) # {})
  /\ bufs = UNION {SlotCopies(i) : i \in ESlots}

\* the last History tickets given up, with their errors
Remembered(ticket, err) ==
  \E n \in DOMAIN given : n + History > Len(given) /\ given[n] = <<ticket, err>>

\* A vector is computed from the input its ticket was enqueued with.  Whenever
\* the second look of a state query comes: a ticket that is still open is
\* queued or running, to its owner queued; only one that was open at the first
\* look is reported so; and one that was over then was collected and is not
\* known, or was given up and is canceled or failed as it was given up, for as
\* long as the history is to remember it.
TicketsFaithful ==
  /\ crossed = {}
  /\ \A t \in Callers :
       LET c == ecall[t]
           k == ecall[t].ticket
           answer == Answer(ecall[t])
       IN  c.pc \in {"state", "history"} =>
             /\ Open(k) => answer \in {"QUEUED", "RUNNING"}
             /\ k \in mine[t] => answer = "QUEUED"
             /\ answer \in {"QUEUED", "RUNNING"} => c.open
             /\ ~c.open => /\ k \in answered \/ \E n \in DOMAIN given : given[n][1] = k
                           /\ answer = (CASE Remembered(k, "E_CANCELED")  -> "CANCELED"
                                          [] Remembered(k, "E_NOT_FOUND") -> "FAILED"
                                          [] OTHER                        -> "INVALID")

\* The embedder as one invariant (embedder.cpp:112, 411, 602, 643, 684).
EmbedFaithful == SlotsOwned /\ TicketsFaithful
=============================================================================
