------------------------------- MODULE SeqRings -------------------------------
(***************************************************************************)
(* The two rings whose slots carry a sequence number: MpmcQueue, where     *)
(* both ends take a ticket with fetch_add and wait for their slot, and     *)
(* MpscRing, where producers claim a position by compare-and-swap and may  *)
(* find the ring full.  One step is one access to shared memory.           *)
(***************************************************************************)
EXTENDS Integers, Sequences, FiniteSets

CONSTANTS
  Queueing,      \* threads that enqueue
  Dequeuing,     \* threads that dequeue; an MpscRing has one of them
  RingCapacity,  \* slots, a power of two
  RingKinds,     \* subset of {"mpmc", "mpsc"}
  PushesEach     \* bound: items a thread enqueues; dequeues stop with them

VARIABLES
  kind,    \* which ring
  enq, deq,  \* enqueue_pos_, dequeue_pos_
  cell,    \* [slot -> [seq, data]]
  rt,      \* [thread -> its program counter, position and item]
  sent,    \* ghost: [thread -> items it has enqueued]
  taken    \* ghost: [thread -> items it has dequeued, in order]

srVars == <<kind, enq, deq, cell, rt, sent, taken>>

RingSlots == 0 .. RingCapacity - 1
NoData == <<>>
Resting == [pc |-> "idle", pos |-> 0, item |-> NoData]

SRInit ==
  /\ kind \in RingKinds /\ enq = 0 /\ deq = 0
  /\ cell = [i \in RingSlots |-> [seq |-> i, data |-> NoData]]
  /\ rt = [t \in Queueing \cup Dequeuing |-> Resting]
  /\ sent = [t \in Queueing |-> 0] /\ taken = [t \in Dequeuing |-> <<>>]

SlotAt(pos) == pos % RingCapacity
Go(t, pc, pos, item) == rt' = [rt EXCEPT ![t] = [pc |-> pc, pos |-> pos, item |-> item]]

Total == Cardinality(Queueing) * PushesEach

---------------------------------------------------------------------------
(* MpmcQueue *)

EnqueueTicket(t) ==
  /\ kind = "mpmc" /\ rt[t].pc = "idle" /\ sent[t] < PushesEach
  /\ Go(t, "fill", enq, <<t, sent[t] + 1>>)
  /\ enq' = enq + 1 /\ sent' = [sent EXCEPT ![t] = @ + 1]
  /\ UNCHANGED <<kind, deq, cell, taken>>

\* enqueue_wait leaves its loop when the slot has come around to its ticket
EnqueueFill(t) ==
  LET s == SlotAt(rt[t].pos)
  IN  /\ rt[t].pc = "fill" /\ (kind = "mpmc" => cell[s].seq = rt[t].pos)
      /\ cell' = [cell EXCEPT ![s].data = rt[t].item] /\ Go(t, "publish", rt[t].pos, rt[t].item)
      /\ UNCHANGED <<kind, enq, deq, sent, taken>>

EnqueuePublish(t) ==
  /\ rt[t].pc = "publish"
  /\ cell' = [cell EXCEPT ![SlotAt(rt[t].pos)].seq = rt[t].pos + 1] /\ Go(t, "idle", 0, NoData)
  /\ UNCHANGED <<kind, enq, deq, sent, taken>>

DequeueTicket(t) ==
  /\ kind = "mpmc" /\ rt[t].pc = "idle" /\ deq < Total
  /\ Go(t, "read", deq, NoData) /\ deq' = deq + 1
  /\ UNCHANGED <<kind, enq, cell, sent, taken>>

DequeueRead_NoWait(t) ==
  /\ rt[t].pc = "read" /\ Go(t, "release", rt[t].pos, cell[SlotAt(rt[t].pos)].data)
  /\ taken' = [taken EXCEPT ![t] = Append(@, cell[SlotAt(rt[t].pos)].data)]
  /\ UNCHANGED <<kind, enq, deq, cell, sent>>

DequeueRead(t) ==
  LET s == SlotAt(rt[t].pos)
  IN  /\ rt[t].pc = "read" /\ (kind = "mpmc" => cell[s].seq = rt[t].pos + 1)
      /\ Go(t, "release", rt[t].pos, cell[s].data)
      /\ taken' = [taken EXCEPT ![t] = Append(@, cell[s].data)]
      /\ UNCHANGED <<kind, enq, deq, cell, sent>>

\* the slot is free for the ticket one lap ahead
DequeueRelease(t) ==
  /\ rt[t].pc = "release"
  /\ cell' = [cell EXCEPT ![SlotAt(rt[t].pos)].seq = rt[t].pos + RingCapacity]
  /\ Go(t, IF kind = "mpmc" THEN "idle" ELSE "advance", rt[t].pos, NoData)
  /\ UNCHANGED <<kind, enq, deq, sent, taken>>

---------------------------------------------------------------------------
(* MpscRing *)

\* try_push loads the position, again after it lost the slot to another
LoadPos(t) ==
  /\ kind = "mpsc" /\ \/ rt[t].pc = "idle" /\ sent[t] < PushesEach
                      \/ rt[t].pc = "reload"
  /\ Go(t, "check", enq, <<t, sent[t] + 1>>)
  /\ UNCHANGED <<kind, enq, deq, cell, sent, taken>>

\* a slot that is behind means full: the push gives up
CheckSeq(t) ==
  LET seq == cell[SlotAt(rt[t].pos)].seq
  IN  /\ rt[t].pc = "check"
      /\ Go(t, IF seq = rt[t].pos THEN "claim" ELSE IF seq < rt[t].pos THEN "full" ELSE "reload",
            rt[t].pos, rt[t].item)
      /\ UNCHANGED <<kind, enq, deq, cell, sent, taken>>

GiveUp(t) ==
  /\ rt[t].pc = "full" /\ Go(t, "idle", 0, NoData)
  /\ UNCHANGED <<kind, enq, deq, cell, sent, taken>>

\* compare_exchange_weak may fail although the position matches; a failure
\* stores the position it saw
Claim(t) ==
  /\ rt[t].pc = "claim"
  /\ \/ enq = rt[t].pos /\ enq' = enq + 1 /\ sent' = [sent EXCEPT ![t] = @ + 1]
        /\ Go(t, "fill", rt[t].pos, rt[t].item)
     \/ Go(t, "check", enq, rt[t].item) /\ UNCHANGED <<enq, sent>>
  /\ UNCHANGED <<kind, deq, cell, taken>>

\* pop, by the one consumer
PopCheck(t) ==
  /\ kind = "mpsc" /\ t = CHOOSE d \in Dequeuing : TRUE
  /\ rt[t].pc = "idle" /\ cell[SlotAt(deq)].seq = deq + 1
  /\ Go(t, "read", deq, NoData)
  /\ UNCHANGED <<kind, enq, deq, cell, sent, taken>>

PopAdvance(t) ==
  /\ rt[t].pc = "advance" /\ deq' = rt[t].pos + 1 /\ Go(t, "idle", 0, NoData)
  /\ UNCHANGED <<kind, enq, cell, sent, taken>>

SRNext ==
  \/ \E t \in Queueing : EnqueueTicket(t) \/ EnqueueFill(t) \/ EnqueuePublish(t)
                         \/ LoadPos(t) \/ CheckSeq(t) \/ GiveUp(t) \/ Claim(t)
  \/ \E t \in Dequeuing : DequeueTicket(t) \/ DequeueRead(t) \/ DequeueRelease(t)
                          \/ PopCheck(t) \/ PopAdvance(t)

SRSpec == SRInit /\ [][SRNext]_srVars

---------------------------------------------------------------------------
(* Correctness *)

\* What a dequeuer takes from one producer is in that producer's order, no
\* item is taken twice and none that was not sent (mpmc_queue.hpp:48, 71;
\* mpsc_ring.hpp:45, 75).
TakenOnce ==
  /\ \A t \in Dequeuing, i, j \in 1 .. Total :
       (i < j /\ j <= Len(taken[t]) /\ taken[t][i][1] = taken[t][j][1]) => taken[t][i][2] < taken[t][j][2]
  /\ \A t \in Dequeuing : \A i \in DOMAIN taken[t] :
       /\ taken[t][i] # NoData /\ taken[t][i][2] <= sent[taken[t][i][1]]
       /\ \A u \in Dequeuing \ {t} : \A j \in DOMAIN taken[u] : taken[t][i] # taken[u][j]

\* A slot is written and read by one thread at a time
SlotOwned ==
  \A t, u \in DOMAIN rt :
    (t # u /\ {rt[t].pc, rt[u].pc} \subseteq {"publish", "release"}) => SlotAt(rt[t].pos) # SlotAt(rt[u].pos)

\* try_push finds its slot behind only while the ring really is full: as many
\* items claimed and not taken out as it has slots.
FullMeansFull ==
  \A t \in Queueing :
    (rt[t].pc = "check" /\ cell[SlotAt(rt[t].pos)].seq < rt[t].pos) => enq - deq >= RingCapacity

\* Both rings as one invariant.
RingsFaithful == TakenOnce /\ SlotOwned /\ FullMeansFull
==============================================================================
