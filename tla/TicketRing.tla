------------------------------ MODULE TicketRing ------------------------------
(****************************************************************************)
(* MpscTicketRing (src/concurrency/mpsc_ticket_ring.hpp): the bounded ring    *)
(* behind every worker's work queue.  Producers reserve tickets with one      *)
(* fetch_add, wait until the sequence number of their slot equals the ticket, *)
(* write the item and publish it by storing ticket + 1.  The single consumer  *)
(* polls the slot of its next ticket, copies the item out and releases the    *)
(* slot to the producer one lap ahead by storing ticket + Capacity.           *)
(*                                                                            *)
(* Each atomic access is a step of its own, and so is each plain access to    *)
(* slot.data: the sequence number alone must keep the plain accesses apart.   *)
(* An item is named by its producer and the ticket it was given.              *)
(* wait_hint only delays a poll; a failed poll changes nothing.               *)
(****************************************************************************)
EXTENDS Naturals, Sequences

CONSTANTS Producers,    \* threads that push
          Capacity,     \* slots of the ring
          BatchSizes,   \* sizes of push_batch_wait (1 is push_wait)
          MaxTickets    \* bound: tickets handed out between two resets

VARIABLES
  enqueue_pos,  \* the next ticket
  dequeue_pos,  \* the consumer's next ticket
  seq,          \* slot -> slot.seq
  data,         \* slot -> slot.data
  ppc,          \* producer -> where it is in push_batch_wait
  pos,          \* producer -> the ticket it is working on
  end,          \* producer -> the first ticket after its batch
  cpc,          \* where the consumer is in pop
  out,          \* the item the consumer copied
  order,        \* history: the items in ticket order
  received      \* history: the items in the order pop returned them

trVars == <<enqueue_pos, dequeue_pos, seq, data, ppc, pos, end, cpc, out, order, received>>

TRSlots  == 0 .. Capacity - 1
Items  == Producers \X Nat
NoItem == <<"none", 0>>

\* pos & kIndexMask
SlotOf(t) == t % Capacity

TRInit ==
  /\ enqueue_pos = 0
  /\ dequeue_pos = 0
  /\ seq = [i \in TRSlots |-> i]
  /\ data = [i \in TRSlots |-> NoItem]
  /\ ppc = [p \in Producers |-> "idle"]
  /\ pos = [p \in Producers |-> 0]
  /\ end = [p \in Producers |-> 0]
  /\ cpc = "poll"
  /\ out = NoItem
  /\ order = << >>
  /\ received = << >>

-----------------------------------------------------------------------------
(* push_wait and push_batch_wait *)

\* enqueue_pos_.fetch_add(count)
Reserve(p, n) ==
  /\ ppc[p] = "idle"
  /\ enqueue_pos + n <= MaxTickets
  /\ enqueue_pos' = enqueue_pos + n
  /\ pos' = [pos EXCEPT ![p] = enqueue_pos]
  /\ end' = [end EXCEPT ![p] = enqueue_pos + n]
  /\ order' = order \o [i \in 1 .. n |-> <<p, enqueue_pos + i - 1>>]
  /\ ppc' = [ppc EXCEPT ![p] = "wait"]
  /\ UNCHANGED <<dequeue_pos, seq, data, cpc, out, received>>

\* as written by a producer that trusts any generation of the slot
SlotFree_AnyLap(p) == SlotOf(seq[SlotOf(pos[p])]) = SlotOf(pos[p])

\* the load of slot.seq that ends the wait
SlotFree(p) == seq[SlotOf(pos[p])] = pos[p]

AwaitSlot(p) ==
  /\ ppc[p] = "wait"
  /\ SlotFree(p)
  /\ ppc' = [ppc EXCEPT ![p] = "write"]
  /\ UNCHANGED <<enqueue_pos, dequeue_pos, seq, data, pos, end, cpc, out, order, received>>

WriteSlot(p) ==
  /\ ppc[p] = "write"
  /\ data' = [data EXCEPT ![SlotOf(pos[p])] = <<p, pos[p]>>]
  /\ ppc' = [ppc EXCEPT ![p] = "publish"]
  /\ UNCHANGED <<enqueue_pos, dequeue_pos, seq, pos, end, cpc, out, order, received>>

\* slot.seq.store(pos + 1), then the next ticket of the batch or the return
Publish(p) ==
  /\ ppc[p] = "publish"
  /\ seq' = [seq EXCEPT ![SlotOf(pos[p])] = pos[p] + 1]
  /\ pos' = [pos EXCEPT ![p] = pos[p] + 1]
  /\ ppc' = [ppc EXCEPT ![p] = IF pos[p] + 1 = end[p] THEN "idle" ELSE "wait"]
  /\ UNCHANGED <<enqueue_pos, dequeue_pos, data, end, cpc, out, order, received>>

Produce(p) ==
  \/ \E n \in BatchSizes : Reserve(p, n)
  \/ AwaitSlot(p)
  \/ WriteSlot(p)
  \/ Publish(p)

-----------------------------------------------------------------------------
(* pop *)

\* a poll that takes any generation not below its ticket
PopPoll_AnyGeneration ==
  /\ cpc = "poll"
  /\ seq[SlotOf(dequeue_pos)] >= dequeue_pos
  /\ cpc' = "read"
  /\ UNCHANGED <<enqueue_pos, dequeue_pos, seq, data, ppc, pos, end, out, order, received>>

PopPoll ==
  /\ cpc = "poll"
  /\ seq[SlotOf(dequeue_pos)] = dequeue_pos + 1
  /\ cpc' = "read"
  /\ UNCHANGED <<enqueue_pos, dequeue_pos, seq, data, ppc, pos, end, out, order, received>>

Read ==
  /\ cpc = "read"
  /\ out' = data[SlotOf(dequeue_pos)]
  /\ cpc' = "release"
  /\ UNCHANGED <<enqueue_pos, dequeue_pos, seq, data, ppc, pos, end, order, received>>

\* a release that forgets the lap leaves the slot published for ever
Released_SameLap(t) == t + 1

\* a release two laps ahead skips the ticket that waits for the slot
Released_TwoLaps(t) == t + 2 * Capacity

\* the generation that lets the producer one lap ahead reuse the slot
Released(t) == t + Capacity

Release ==
  /\ cpc = "release"
  /\ seq' = [seq EXCEPT ![SlotOf(dequeue_pos)] = Released(dequeue_pos)]
  /\ cpc' = "advance"
  /\ UNCHANGED <<enqueue_pos, dequeue_pos, data, ppc, pos, end, out, order, received>>

PopAdvance ==
  /\ cpc = "advance"
  /\ dequeue_pos' = dequeue_pos + 1
  /\ received' = Append(received, out)
  /\ cpc' = "poll"
  /\ UNCHANGED <<enqueue_pos, seq, data, ppc, pos, end, out, order>>

Consume == PopPoll \/ Read \/ Release \/ PopAdvance

-----------------------------------------------------------------------------
\* reset(): both cursors and every sequence number start over.  Its callers
\* own the ring alone, so no push and no pop is under way.
ResetRing ==
  /\ \A p \in Producers : ppc[p] = "idle"
  /\ cpc = "poll"
  /\ enqueue_pos' = 0
  /\ dequeue_pos' = 0
  /\ seq' = [i \in TRSlots |-> i]
  /\ order' = << >>
  /\ received' = << >>
  /\ UNCHANGED <<data, ppc, pos, end, cpc, out>>

TRNext ==
  \/ \E p \in Producers : Produce(p)
  \/ Consume
  \/ ResetRing

TRSpec == TRInit /\ [][TRNext]_trVars

\* A producer inside push_wait keeps polling its slot, and a worker calls
\* pop_wait for ever; whether a thread pushes at all is its own affair.
TRFairness ==
  /\ \A p \in Producers : WF_trVars(AwaitSlot(p) \/ WriteSlot(p) \/ Publish(p))
  /\ WF_trVars(Consume)

-----------------------------------------------------------------------------
(* Properties *)

Published(t) == seq[SlotOf(t)] = t + 1

\* The cursors, sequence numbers and program counters stay in their ranges, and
\* the consumer never runs ahead of the tickets handed out.
TRTypeOK ==
  /\ enqueue_pos \in Nat
  /\ dequeue_pos \in 0 .. enqueue_pos
  /\ seq \in [TRSlots -> Nat]
  /\ data \in [TRSlots -> Items \cup {NoItem}]
  /\ ppc \in [Producers -> {"idle", "wait", "write", "publish"}]
  /\ pos \in [Producers -> Nat]
  /\ end \in [Producers -> Nat]
  /\ cpc \in {"poll", "read", "release", "advance"}
  /\ out \in Items \cup {NoItem}
  /\ order \in Seq(Items)
  /\ received \in Seq(Items \cup {NoItem})

\* slot.data is a plain object: while one thread writes it no other thread may
\* write or read it (the acquire and release of slot.seq are all that orders
\* push_wait's `slot.data = item` and pop's `out = slot.data`).
SlotExclusive ==
  \A p \in Producers :
    ppc[p] = "write" =>
      /\ \A q \in Producers \ {p} :
           ppc[q] \in {"write", "publish"} => SlotOf(pos[q]) # SlotOf(pos[p])
      /\ cpc = "read" => SlotOf(dequeue_pos) # SlotOf(pos[p])

\* An item that was published and not yet released is still in its slot: no
\* producer, however far its ticket is ahead, wrote over it.
PublishedIntact ==
  \A t \in dequeue_pos .. enqueue_pos - 1 :
    Published(t) => data[SlotOf(t)] = order[t + 1]

\* The sequence numbers alone keep the plain slot accesses of mpsc_ticket_ring.hpp
\* apart and what was published in place.
RingSound == TRTypeOK /\ SlotExclusive /\ PublishedIntact

\* The ring is a FIFO channel whose accept is the reservation of the ticket and
\* whose deliver is the return of pop.
Channel == INSTANCE FifoChannel WITH accepted <- order, delivered <- received
ImplementsFifo == Channel!Spec

\* A producer that reserved tickets returns from push_wait: the consumer frees
\* the slots it waits for, even when its batch is longer than the ring.
PushReturns == \A p \in Producers : ppc[p] # "idle" ~> ppc[p] = "idle"

\* Every reserved item is returned by some pop, unless a reset discards it.
EveryItemDelivered ==
  \A n \in 1 .. MaxTickets :
    Len(order) >= n ~> (Len(received) >= n \/ Len(order) < n)

=============================================================================
