--------------------------- MODULE TicketRing_proofs ---------------------------
(****************************************************************************)
(* Proofs about TicketRing for any number of producers, any batch sizes and   *)
(* any capacity that the static_assert of mpsc_ticket_ring.hpp:24 admits: the *)
(* sequence numbers keep the plain accesses of a slot apart, and the ring     *)
(* implements FifoChannel.                                                    *)
(*                                                                            *)
(* The argument: the slots hold the Capacity tickets from dequeue_pos on, one *)
(* ticket per slot, and the sequence number of a slot says how far the ticket *)
(* that owns it has come.  A ticket ahead of that window waits.               *)
(****************************************************************************)
EXTENDS TicketRing, TLAPS

\* static_assert(Capacity >= 2), and a push of at least one item.  With a single
\* slot "published" and "free for the next ticket" are the same number.
RingParameters == Capacity \in Nat /\ Capacity >= 2 /\ BatchSizes \subseteq Nat \ {0}

Busy(p)     == ppc[p] # "idle"
Holds(p, t) == Busy(p) /\ pos[p] <= t /\ t < end[p]
Pending(t)  == \E p \in Producers : Holds(p, t)
Done(t)     == t < enqueue_pos /\ ~Pending(t)

\* The first ticket whose slot the consumer has not given back, and the tickets
\* that own the slots.
Front  == IF cpc = "advance" THEN dequeue_pos + 1 ELSE dequeue_pos
Window == {t \in Nat : Front <= t /\ t < Front + Capacity}

\* One history entry per ticket, and the deliveries are its beginning.
HistoryInv ==
  /\ Len(order) = enqueue_pos
  /\ Len(received) = dequeue_pos
  /\ \A i \in 1 .. dequeue_pos : received[i] = order[i]

\* A producer inside a push has tickets left, all of them handed out, still to
\* come for the consumer, and its own.
HoldersInv ==
  \A p \in Producers : Busy(p) =>
    /\ Front <= pos[p] /\ pos[p] < end[p] /\ end[p] <= enqueue_pos
    /\ \A t \in Nat : Holds(p, t) => order[t + 1] = <<p, t>>
    /\ \A q \in Producers \ {p} : Busy(q) => end[q] <= pos[p] \/ end[p] <= pos[q]

\* What the sequence number of the slot of a ticket in the window says.
SeqInv ==
  \A t \in Window : seq[SlotOf(t)] = IF Done(t) THEN t + 1 ELSE t

\* No ticket ahead of the window is done.
AheadInv == \A t \in Nat : Front + Capacity <= t => ~Done(t)

\* A producer that saw its slot free still finds it free.
WritersInv ==
  \A p \in Producers :
    /\ ppc[p] \in {"write", "publish"} => seq[SlotOf(pos[p])] = pos[p]
    /\ ppc[p] = "publish" => data[SlotOf(pos[p])] = <<p, pos[p]>>

\* The slots of the tickets that are done hold their items.
DataInv == \A t \in Window : Done(t) => data[SlotOf(t)] = order[t + 1]

\* The consumer inside pop has a ticket that is done, and copied its item.
ConsumerInv ==
  /\ cpc # "poll" => Done(dequeue_pos)
  /\ cpc \in {"release", "advance"} => out = order[dequeue_pos + 1]

RingInv ==
  /\ TRTypeOK /\ HistoryInv /\ HoldersInv /\ SeqInv
  /\ AheadInv /\ WritersInv /\ DataInv /\ ConsumerInv

-----------------------------------------------------------------------------
(* Tickets and slots *)

LEMMA DivMod ==
  ASSUME RingParameters, NEW n \in Nat
  PROVE  /\ n \div Capacity \in Nat
         /\ SlotOf(n) \in TRSlots
         /\ n = Capacity * (n \div Capacity) + SlotOf(n)
BY DEF RingParameters, SlotOf, TRSlots

\* a ticket is given by its lap and its slot, in one way
LEMMA LapUnique ==
  ASSUME RingParameters, NEW q \in Nat, NEW r \in Nat, NEW i \in TRSlots, NEW j \in TRSlots,
         Capacity * q + i = Capacity * r + j
  PROVE  q = r /\ i = j
<1> USE DEF RingParameters, TRSlots
<1>1. CASE q < r
  <2>1. Capacity * (q + 1) <= Capacity * r
    BY <1>1
  <2> QED
    BY <2>1
<1>2. CASE r < q
  <2>1. Capacity * (r + 1) <= Capacity * q
    BY <1>2
  <2> QED
    BY <2>1
<1> QED
  BY <1>1, <1>2

\* two tickets less than a lap apart have different slots
LEMMA SlotsApart ==
  ASSUME RingParameters, NEW t \in Nat, NEW u \in Nat,
         SlotOf(t) = SlotOf(u), t <= u, u < t + Capacity
  PROVE  t = u
<1>1. /\ t \div Capacity \in Nat /\ u \div Capacity \in Nat /\ SlotOf(t) \in TRSlots
      /\ t = Capacity * (t \div Capacity) + SlotOf(t)
      /\ u = Capacity * (u \div Capacity) + SlotOf(t)
  BY DivMod
<1> USE DEF RingParameters, TRSlots
<1>2. CASE t \div Capacity < u \div Capacity
  <2>1. Capacity * ((t \div Capacity) + 1) <= Capacity * (u \div Capacity)
    BY <1>1, <1>2
  <2> QED
    BY <1>1, <2>1
<1>3. CASE u \div Capacity < t \div Capacity
  <2>1. Capacity * ((u \div Capacity) + 1) <= Capacity * (t \div Capacity)
    BY <1>1, <1>3
  <2> QED
    BY <1>1, <2>1
<1> QED
  BY <1>1, <1>2, <1>3

LEMMA LapsLater ==
  ASSUME RingParameters, NEW t \in Nat, NEW k \in Nat
  PROVE  SlotOf(t + Capacity * k) = SlotOf(t)
<1> DEFINE u == t + Capacity * k
<1>1. u \in Nat
  BY DEF RingParameters
<1>2. /\ t \div Capacity \in Nat /\ SlotOf(t) \in TRSlots
      /\ t = Capacity * (t \div Capacity) + SlotOf(t)
  BY DivMod
<1>3. /\ u \div Capacity \in Nat /\ SlotOf(u) \in TRSlots
      /\ u = Capacity * (u \div Capacity) + SlotOf(u)
  BY <1>1, DivMod
<1>4. Capacity * ((t \div Capacity) + k) + SlotOf(t) = u
  BY <1>2 DEF RingParameters, TRSlots
<1>5. (t \div Capacity) + k \in Nat
  BY <1>2
<1> HIDE DEF u
<1>6. SlotOf(t) = SlotOf(u)
  BY <1>2, <1>3, <1>4, <1>5, LapUnique
<1> QED
  BY <1>6 DEF u

\* releasing a ticket gives its slot to the ticket one lap later
LEMMA NextLap ==
  ASSUME RingParameters, NEW t \in Nat
  PROVE  SlotOf(t + Capacity) = SlotOf(t)
<1>1. t + Capacity * 1 = t + Capacity
  BY DEF RingParameters
<1> QED
  BY <1>1, LapsLater

LEMMA FirstLap ==
  ASSUME RingParameters, NEW t \in TRSlots
  PROVE  SlotOf(t) = t
<1>1. t \in Nat /\ Capacity * 0 + t = t
  BY DEF RingParameters, TRSlots
<1>2. t \div Capacity \in Nat /\ SlotOf(t) \in TRSlots /\ t = Capacity * (t \div Capacity) + SlotOf(t)
  BY <1>1, DivMod
<1>3. Capacity * 0 + t = Capacity * (t \div Capacity) + SlotOf(t)
  BY <1>1, <1>2
<1> QED
  BY <1>2, <1>3, LapUnique

\* every ticket from the front on shares its slot with one in the window
LEMMA Owner ==
  ASSUME RingParameters, NEW f \in Nat, NEW t \in Nat, f <= t
  PROVE  \E u \in Nat : f <= u /\ u < f + Capacity /\ u <= t /\ SlotOf(u) = SlotOf(t)
<1> DEFINE k == (t - f) \div Capacity
           r == SlotOf(t - f)
<1>1. t - f \in Nat
  OBVIOUS
<1>2. k \in Nat /\ r \in TRSlots /\ t - f = Capacity * k + r
  BY <1>1, DivMod
<1>3. Capacity * k \in Nat
  BY <1>2 DEF RingParameters
<1> HIDE DEF k, r
<1>4. f + r \in Nat /\ t = (f + r) + Capacity * k /\ f <= f + r /\ f + r < f + Capacity /\ f + r <= t
  BY <1>2, <1>3 DEF TRSlots, RingParameters
<1>5. SlotOf(f + r) = SlotOf(t)
  BY <1>2, <1>4, LapsLater
<1> QED
  BY <1>4, <1>5

-----------------------------------------------------------------------------
(* The steps of a push *)

LEMMA ConcatFacts ==
  ASSUME NEW S, NEW s \in Seq(S), NEW f \in Seq(S)
  PROVE  /\ s \o f \in Seq(S)
         /\ Len(s \o f) = Len(s) + Len(f)
         /\ \A i \in 1 .. Len(s) : (s \o f)[i] = s[i]
         /\ \A i \in 1 .. Len(f) : (s \o f)[Len(s) + i] = f[i]
OBVIOUS

\* the types in the form in which the steps need them
LEMMA TypeFacts ==
  ASSUME RingParameters, RingInv
  PROVE  /\ Capacity \in Nat /\ Capacity >= 2
         /\ enqueue_pos \in Nat /\ dequeue_pos \in Nat /\ dequeue_pos <= enqueue_pos
         /\ Front \in Nat /\ dequeue_pos <= Front /\ Front <= enqueue_pos
         /\ \A p \in Producers : pos[p] \in Nat /\ end[p] \in Nat
         /\ order \in Seq(Items) /\ received \in Seq(Items \cup {NoItem})
BY DEF RingParameters, RingInv, TRTypeOK, Front, ConsumerInv, Done

LEMMA WindowApart ==
  ASSUME RingParameters, RingInv, NEW t \in Window, NEW u \in Window, SlotOf(t) = SlotOf(u)
  PROVE  t = u
<1>1. /\ t \in Nat /\ u \in Nat /\ Front \in Nat /\ Capacity \in Nat
      /\ Front <= t /\ t < Front + Capacity /\ Front <= u /\ u < Front + Capacity
  BY TypeFacts DEF Window
<1>2. CASE t <= u
  BY <1>1, <1>2, SlotsApart
<1>3. CASE u <= t
  BY <1>1, <1>3, SlotsApart
<1> QED
  BY <1>1, <1>2, <1>3

\* a producer that finds its slot free has a ticket in the window
LEMMA WriterInWindow ==
  ASSUME RingParameters, RingInv, NEW p \in Producers, Busy(p), seq[SlotOf(pos[p])] = pos[p]
  PROVE  pos[p] \in Window
<1> DEFINE t == pos[p]
<1>1. t \in Nat /\ Front \in Nat /\ Front <= t /\ Capacity \in Nat /\ Capacity >= 2
  BY TypeFacts DEF RingInv, HoldersInv
<1> HIDE DEF t
<1>2. PICK u \in Nat : Front <= u /\ u < Front + Capacity /\ u <= t /\ SlotOf(u) = SlotOf(t)
  BY <1>1, Owner
<1>3. u \in Window /\ seq[SlotOf(u)] \in {u, u + 1}
  BY <1>2 DEF Window, RingInv, SeqInv
<1>4. CASE t = u
  BY <1>3, <1>4 DEF t
<1>5. CASE t = u + 1
  BY <1>1, <1>2, <1>5, SlotsApart
<1> QED
  BY <1>2, <1>3, <1>4, <1>5 DEF t

\* two producers past their wait are at different slots
LEMMA WritersApart ==
  ASSUME RingParameters, RingInv, NEW p \in Producers, NEW q \in Producers \ {p},
         Busy(p), Busy(q), pos[p] \in Window, pos[q] \in Window
  PROVE  SlotOf(pos[q]) # SlotOf(pos[p])
<1>1. pos[p] # pos[q]
  BY TypeFacts DEF RingInv, HoldersInv
<1> QED
  BY <1>1, WindowApart

\* the ticket a producer works on is its own and not done
LEMMA TicketPending ==
  ASSUME RingParameters, RingInv, NEW p \in Producers, Busy(p)
  PROVE  /\ Holds(p, pos[p]) /\ ~Done(pos[p]) /\ pos[p] < enqueue_pos
         /\ order[pos[p] + 1] = <<p, pos[p]>>
         /\ \A q \in Producers \ {p} : ~Holds(q, pos[p])
BY TypeFacts DEF RingInv, HoldersInv, Holds, Done, Pending

LEMMA ReserveRing ==
  ASSUME RingParameters, RingInv, NEW p \in Producers, NEW n \in BatchSizes, Reserve(p, n)
  PROVE  RingInv'
<1> DEFINE batch == [i \in 1 .. n |-> <<p, enqueue_pos + i - 1>>]
<1>1. /\ n \in Nat /\ n > 0 /\ ppc[p] = "idle" /\ enqueue_pos' = enqueue_pos + n
      /\ pos' = [pos EXCEPT ![p] = enqueue_pos] /\ end' = [end EXCEPT ![p] = enqueue_pos + n]
      /\ order' = order \o batch /\ ppc' = [ppc EXCEPT ![p] = "wait"]
      /\ UNCHANGED <<dequeue_pos, seq, data, cpc, out, received>>
  BY DEF Reserve, RingParameters
<1>2. batch \in Seq(Items) /\ Len(batch) = n
  BY <1>1, TypeFacts DEF Items
<1>3. /\ order \in Seq(Items) /\ Len(order) = enqueue_pos
  BY DEF RingInv, TRTypeOK, HistoryInv
<1> HIDE DEF batch
<1>4. /\ order' \in Seq(Items) /\ Len(order') = enqueue_pos + n
      /\ \A i \in 1 .. enqueue_pos : order'[i] = order[i]
      /\ \A i \in 1 .. n : order'[enqueue_pos + i] = batch[i]
  <2>1. /\ order \o batch \in Seq(Items) /\ Len(order \o batch) = Len(order) + n
        /\ \A i \in 1 .. Len(order) : (order \o batch)[i] = order[i]
        /\ \A i \in 1 .. n : (order \o batch)[Len(order) + i] = batch[i]
    BY <1>1, <1>2, <1>3, ConcatFacts
  <2> QED
    BY <1>1, <1>3, <2>1
<1>5. \A t \in Nat : enqueue_pos <= t /\ t < enqueue_pos + n => order'[t + 1] = <<p, t>>
  <2> TAKE t \in Nat
  <2> HAVE enqueue_pos <= t /\ t < enqueue_pos + n
  <2>1. /\ t - enqueue_pos + 1 \in 1 .. n /\ enqueue_pos + (t - enqueue_pos + 1) = t + 1
        /\ enqueue_pos + (t - enqueue_pos + 1) - 1 = t
    BY <1>1, TypeFacts
  <2>2. batch[t - enqueue_pos + 1] = <<p, t>>
    BY <2>1 DEF batch
  <2> QED
    BY <1>4, <2>1, <2>2
<1>6. \A q \in Producers : ppc[q] \in {"idle", "wait", "write", "publish"}
  BY DEF RingInv, TRTypeOK
<1>7. \A q \in Producers \ {p} : /\ Busy(q)' <=> Busy(q)
                                /\ pos'[q] = pos[q] /\ end'[q] = end[q] /\ ppc'[q] = ppc[q]
  BY <1>1 DEF Busy, RingInv, TRTypeOK
<1>8. /\ pos'[p] = enqueue_pos /\ end'[p] = enqueue_pos + n /\ ppc'[p] = "wait" /\ Busy(p)'
  BY <1>1 DEF RingInv, TRTypeOK, Busy
<1>9. \A t \in Nat : Done(t)' <=> Done(t)
  <2> TAKE t \in Nat
  <2>1. ASSUME t < enqueue_pos PROVE Pending(t)' <=> Pending(t)
    <3>1. ~Holds(p, t) /\ ~Holds(p, t)'
      BY <1>1, <1>8, <2>1, TypeFacts DEF Holds, Busy
    <3>2. \A q \in Producers \ {p} : Holds(q, t)' <=> Holds(q, t)
      BY <1>7 DEF Holds
    <3> QED
      BY <3>1, <3>2 DEF Pending
  <2>2. ASSUME enqueue_pos <= t PROVE ~Done(t) /\ ~Done(t)'
    BY <1>1, <1>8, <2>2, TypeFacts DEF Done, Pending, Holds
  <2> QED
    BY <1>1, <2>1, <2>2, TypeFacts DEF Done
<1>10. Front' = Front /\ Window' = Window
  BY <1>1 DEF Front, Window
<1>11. TRTypeOK'
  <2>1. enqueue_pos' \in Nat /\ dequeue_pos' \in 0 .. enqueue_pos'
    BY <1>1, TypeFacts
  <2>2. /\ ppc' \in [Producers -> {"idle", "wait", "write", "publish"}]
        /\ pos' \in [Producers -> Nat] /\ end' \in [Producers -> Nat]
    BY <1>1, TypeFacts DEF RingInv, TRTypeOK
  <2> QED
    BY <1>1, <1>4, <2>1, <2>2 DEF RingInv, TRTypeOK
<1>12. HistoryInv'
  BY <1>1, <1>4, TypeFacts DEF RingInv, HistoryInv
<1>13. HoldersInv'
  <2> SUFFICES ASSUME NEW q \in Producers, Busy(q)'
               PROVE  /\ Front' <= pos'[q] /\ pos'[q] < end'[q] /\ end'[q] <= enqueue_pos'
                      /\ \A t \in Nat : Holds(q, t)' => order'[t + 1] = <<q, t>>
                      /\ \A r \in Producers \ {q} :
                           Busy(r)' => end'[r] <= pos'[q] \/ end'[q] <= pos'[r]
    BY DEF HoldersInv
  <2>1. CASE q = p
    <3>1. Front' <= pos'[q] /\ pos'[q] < end'[q] /\ end'[q] <= enqueue_pos'
      BY <1>1, <1>8, <1>10, <2>1, TypeFacts
    <3>2. \A t \in Nat : Holds(q, t)' => order'[t + 1] = <<q, t>>
      BY <1>5, <1>8, <2>1 DEF Holds
    <3>3. \A r \in Producers \ {q} : Busy(r)' => end'[r] <= pos'[q]
      BY <1>7, <1>8, <2>1 DEF RingInv, HoldersInv
    <3> QED
      BY <3>1, <3>2, <3>3
  <2>2. CASE q # p
    <3>1. /\ Busy(q) /\ Front <= pos[q] /\ pos[q] < end[q] /\ end[q] <= enqueue_pos
          /\ \A t \in Nat : Holds(q, t) => order[t + 1] = <<q, t>>
          /\ \A r \in Producers \ {q} : Busy(r) => end[r] <= pos[q] \/ end[q] <= pos[r]
      BY <1>7, <2>2 DEF RingInv, HoldersInv
    <3>2. Front' <= pos'[q] /\ pos'[q] < end'[q] /\ end'[q] <= enqueue_pos'
      BY <1>1, <1>7, <1>10, <2>2, <3>1, TypeFacts
    <3>3. ASSUME NEW t \in Nat, Holds(q, t)' PROVE order'[t + 1] = <<q, t>>
      <4>1. Holds(q, t) /\ t + 1 \in 1 .. enqueue_pos
        BY <1>7, <2>2, <3>1, <3>3, TypeFacts DEF Holds
      <4> QED
        BY <1>4, <3>1, <4>1
    <3>4. \A r \in Producers \ {q} : Busy(r)' => end'[r] <= pos'[q] \/ end'[q] <= pos'[r]
      BY <1>7, <1>8, <2>2, <3>1
    <3> QED
      BY <3>2, <3>3, <3>4
  <2> QED
    BY <2>1, <2>2
<1>14. SeqInv' /\ AheadInv'
  BY <1>1, <1>9, <1>10 DEF RingInv, SeqInv, AheadInv, Window
<1>15. WritersInv'
  BY <1>1, <1>7, <1>8 DEF RingInv, WritersInv
<1>16. DataInv'
  <2> SUFFICES ASSUME NEW t \in Window, Done(t)
               PROVE  data[SlotOf(t)] = order'[t + 1]
    BY <1>1, <1>9, <1>10 DEF DataInv, Window
  <2>1. data[SlotOf(t)] = order[t + 1] /\ t + 1 \in 1 .. enqueue_pos
    BY TypeFacts DEF RingInv, DataInv, Done, Window
  <2> QED
    BY <1>4, <2>1
<1>17. ConsumerInv'
  <2>1. ASSUME cpc # "poll" PROVE Done(dequeue_pos)' /\ dequeue_pos + 1 \in 1 .. enqueue_pos
    <3>1. Done(dequeue_pos) /\ dequeue_pos \in Nat
      BY <2>1, TypeFacts DEF RingInv, ConsumerInv
    <3>2. PICK d \in Nat : d = dequeue_pos
      BY <3>1
    <3>3. Done(d)' /\ d' = dequeue_pos'
      BY <1>1, <1>9, <3>1, <3>2
    <3> QED
      BY <1>1, <3>1, <3>2, <3>3, TypeFacts DEF Done
  <2>2. cpc \in {"release", "advance"} => out = order[dequeue_pos + 1]
    BY DEF RingInv, ConsumerInv
  <2> QED
    BY <1>1, <1>4, <2>1, <2>2 DEF ConsumerInv
<1> QED
  BY <1>11, <1>12, <1>13, <1>14, <1>15, <1>16, <1>17 DEF RingInv

\* a step that moves no ticket and no sequence number
LEMMA TicketsRest ==
  ASSUME RingParameters, RingInv, Front' = Front,
         \A p \in Producers : Busy(p)' <=> Busy(p),
         UNCHANGED <<enqueue_pos, dequeue_pos, seq, pos, end, order, received>>
  PROVE  /\ HistoryInv' /\ HoldersInv' /\ SeqInv' /\ AheadInv'
         /\ Window' = Window /\ \A t \in Nat : Done(t)' <=> Done(t)
<1>1. Window' = Window
  BY DEF Window
<1>2. \A p \in Producers, t \in Nat : Holds(p, t)' <=> Holds(p, t)
  BY DEF Holds
<1>3. \A t \in Nat : Done(t)' <=> Done(t)
  BY <1>2 DEF Done, Pending
<1>4. HistoryInv'
  BY DEF RingInv, HistoryInv
<1>5. HoldersInv'
  BY <1>2 DEF RingInv, HoldersInv
<1>6. SeqInv' /\ AheadInv'
  BY <1>1, <1>3 DEF RingInv, SeqInv, AheadInv, Window
<1> QED
  BY <1>1, <1>3, <1>4, <1>5, <1>6

\* Done of the consumer's ticket, where the ticket is left alone
LEMMA ConsumerRest ==
  ASSUME RingParameters, RingInv, UNCHANGED <<dequeue_pos, cpc, out, order>>,
         \A t \in Nat : Done(t) => Done(t)'
  PROVE  ConsumerInv'
<1>1. PICK d \in Nat : d = dequeue_pos
  BY TypeFacts
<1>2. d' = dequeue_pos' /\ (Done(d) => Done(d)')
  BY <1>1
<1>3. Done(dequeue_pos) => Done(dequeue_pos)'
  BY <1>1, <1>2 DEF Done
<1> QED
  BY <1>3 DEF RingInv, ConsumerInv

LEMMA AwaitRing ==
  ASSUME RingParameters, RingInv, NEW p \in Producers, AwaitSlot(p)
  PROVE  RingInv'
<1>1. /\ ppc[p] = "wait" /\ seq[SlotOf(pos[p])] = pos[p]
      /\ ppc' = [ppc EXCEPT ![p] = "write"]
      /\ UNCHANGED <<enqueue_pos, dequeue_pos, seq, data, pos, end, cpc, out, order, received>>
  BY DEF AwaitSlot, SlotFree
<1>2. ppc \in [Producers -> {"idle", "wait", "write", "publish"}]
  BY DEF RingInv, TRTypeOK
<1>3. Front' = Front /\ \A q \in Producers : Busy(q)' <=> Busy(q)
  BY <1>1, <1>2 DEF Front, Busy
<1>4. /\ HistoryInv' /\ HoldersInv' /\ SeqInv' /\ AheadInv'
      /\ Window' = Window /\ \A t \in Nat : Done(t)' <=> Done(t)
  BY <1>1, <1>3, TicketsRest
<1>5. TRTypeOK'
  BY <1>1 DEF RingInv, TRTypeOK
<1>6. WritersInv'
  BY <1>1, <1>2 DEF RingInv, WritersInv
<1>7. DataInv'
  BY <1>1, <1>4 DEF RingInv, DataInv, Window
<1>8. ConsumerInv'
  BY <1>1, <1>4, ConsumerRest
<1> QED
  BY <1>4, <1>5, <1>6, <1>7, <1>8 DEF RingInv

LEMMA WriteRing ==
  ASSUME RingParameters, RingInv, NEW p \in Producers, WriteSlot(p)
  PROVE  RingInv'
<1>1. /\ ppc[p] = "write" /\ ppc' = [ppc EXCEPT ![p] = "publish"]
      /\ data' = [data EXCEPT ![SlotOf(pos[p])] = <<p, pos[p]>>]
      /\ UNCHANGED <<enqueue_pos, dequeue_pos, seq, pos, end, cpc, out, order, received>>
  BY DEF WriteSlot
<1>2. /\ ppc \in [Producers -> {"idle", "wait", "write", "publish"}]
      /\ data \in [TRSlots -> Items \cup {NoItem}]
  BY DEF RingInv, TRTypeOK
<1>3. pos[p] \in Nat /\ SlotOf(pos[p]) \in TRSlots /\ Busy(p) /\ pos[p] \in Window
  BY <1>1, TypeFacts, DivMod, WriterInWindow DEF Busy, RingInv, WritersInv
<1>4. Front' = Front /\ \A q \in Producers : Busy(q)' <=> Busy(q)
  BY <1>1, <1>2 DEF Front, Busy
<1>5. /\ HistoryInv' /\ HoldersInv' /\ SeqInv' /\ AheadInv'
      /\ Window' = Window /\ \A t \in Nat : Done(t)' <=> Done(t)
  BY <1>1, <1>4, TicketsRest
<1>6. TRTypeOK'
  BY <1>1, <1>2, <1>3 DEF RingInv, TRTypeOK, Items
<1>7. WritersInv'
  <2> SUFFICES ASSUME NEW q \in Producers
               PROVE  /\ ppc'[q] \in {"write", "publish"} => seq'[SlotOf(pos'[q])] = pos'[q]
                      /\ ppc'[q] = "publish" => data'[SlotOf(pos'[q])] = <<q, pos'[q]>>
    BY DEF WritersInv
  <2>1. CASE q = p
    BY <1>1, <1>2, <1>3, <2>1 DEF RingInv, WritersInv
  <2>2. CASE q # p
    <3>1. /\ ppc'[q] = ppc[q] /\ pos'[q] = pos[q]
          /\ ppc[q] \in {"write", "publish"} => seq[SlotOf(pos[q])] = pos[q]
          /\ ppc[q] = "publish" => data[SlotOf(pos[q])] = <<q, pos[q]>>
      BY <1>1, <1>2, <2>2 DEF RingInv, WritersInv
    <3>2. ASSUME ppc[q] = "publish" PROVE SlotOf(pos[q]) # SlotOf(pos[p])
      <4>1. Busy(q) /\ pos[q] \in Window
        BY <3>1, <3>2, WriterInWindow DEF Busy
      <4> QED
        BY <1>3, <2>2, <4>1, WritersApart
    <3>3. pos[q] \in Nat /\ SlotOf(pos[q]) \in TRSlots
      BY TypeFacts, DivMod
    <3> QED
      BY <1>1, <1>2, <3>1, <3>2, <3>3
  <2> QED
    BY <2>1, <2>2
<1>8. DataInv'
  <2> SUFFICES ASSUME NEW t \in Window, Done(t)
               PROVE  data'[SlotOf(t)] = order[t + 1]
    BY <1>1, <1>5 DEF DataInv, Window
  <2>1. t \in Nat /\ SlotOf(t) \in TRSlots /\ t # pos[p]
    BY <1>3, DivMod, TicketPending DEF Window
  <2>2. SlotOf(t) # SlotOf(pos[p])
    BY <1>3, <2>1, WindowApart
  <2>3. data[SlotOf(t)] = order[t + 1]
    BY DEF RingInv, DataInv
  <2> QED
    BY <1>1, <1>2, <2>1, <2>2, <2>3
<1>9. ConsumerInv'
  BY <1>1, <1>5, ConsumerRest
<1> QED
  BY <1>5, <1>6, <1>7, <1>8, <1>9 DEF RingInv

LEMMA PublishRing ==
  ASSUME RingParameters, RingInv, NEW p \in Producers, Publish(p)
  PROVE  RingInv'
<1>1. /\ ppc[p] = "publish" /\ seq' = [seq EXCEPT ![SlotOf(pos[p])] = pos[p] + 1]
      /\ pos' = [pos EXCEPT ![p] = pos[p] + 1]
      /\ ppc' = [ppc EXCEPT ![p] = IF pos[p] + 1 = end[p] THEN "idle" ELSE "wait"]
      /\ UNCHANGED <<enqueue_pos, dequeue_pos, data, end, cpc, out, order, received>>
  BY DEF Publish
<1>2. /\ ppc \in [Producers -> {"idle", "wait", "write", "publish"}]
      /\ pos \in [Producers -> Nat] /\ seq \in [TRSlots -> Nat]
  BY DEF RingInv, TRTypeOK
<1>3. /\ pos[p] \in Nat /\ SlotOf(pos[p]) \in TRSlots /\ Busy(p) /\ pos[p] \in Window
      /\ pos[p] < end[p] /\ end[p] \in Nat /\ end[p] <= enqueue_pos
  BY <1>1, TypeFacts, DivMod, WriterInWindow DEF Busy, RingInv, WritersInv, HoldersInv
<1>4. \A q \in Producers \ {p} : /\ Busy(q)' <=> Busy(q)
                                /\ pos'[q] = pos[q] /\ end'[q] = end[q] /\ ppc'[q] = ppc[q]
  BY <1>1, <1>2 DEF Busy
<1>5. /\ pos'[p] = pos[p] + 1 /\ end'[p] = end[p] /\ ppc'[p] \in {"idle", "wait"}
      /\ Busy(p)' <=> pos[p] + 1 # end[p]
  BY <1>1, <1>2 DEF Busy
<1>6. \A t \in Nat : Done(t)' <=> Done(t) \/ t = pos[p]
  <2> TAKE t \in Nat
  <2>1. Holds(p, t)' <=> Holds(p, t) /\ t # pos[p]
    BY <1>3, <1>5 DEF Holds
  <2>2. \A q \in Producers \ {p} : Holds(q, t)' <=> Holds(q, t)
    BY <1>4 DEF Holds
  <2>3. t = pos[p] => \A q \in Producers \ {p} : ~Holds(q, t)
    BY <1>3, TicketPending DEF Holds
  <2>4. CASE t = pos[p]
    BY <1>1, <1>3, <2>1, <2>2, <2>3, <2>4, TypeFacts DEF Done, Pending
  <2>5. CASE t # pos[p]
    BY <1>1, <2>1, <2>2, <2>5 DEF Done, Pending
  <2> QED
    BY <2>4, <2>5
<1>7. Front' = Front /\ Window' = Window
  BY <1>1 DEF Front, Window
<1>8. TRTypeOK'
  BY <1>1, <1>2, <1>3, <1>5 DEF RingInv, TRTypeOK
<1>9. HistoryInv'
  BY <1>1 DEF RingInv, HistoryInv
<1>10. HoldersInv'
  <2> SUFFICES ASSUME NEW q \in Producers, Busy(q)'
               PROVE  /\ Front' <= pos'[q] /\ pos'[q] < end'[q] /\ end'[q] <= enqueue_pos'
                      /\ \A t \in Nat : Holds(q, t)' => order'[t + 1] = <<q, t>>
                      /\ \A r \in Producers \ {q} :
                           Busy(r)' => end'[r] <= pos'[q] \/ end'[q] <= pos'[r]
    BY DEF HoldersInv
  <2>1. /\ Busy(q) /\ Front <= pos[q] /\ pos[q] < end[q] /\ end[q] <= enqueue_pos
        /\ \A t \in Nat : Holds(q, t) => order[t + 1] = <<q, t>>
        /\ \A r \in Producers \ {q} : Busy(r) => end[r] <= pos[q] \/ end[q] <= pos[r]
    BY <1>3, <1>4 DEF RingInv, HoldersInv
  <2>2. /\ pos[q] <= pos'[q] /\ pos'[q] < end[q] /\ end'[q] = end[q] /\ pos[q] \in Nat
        /\ pos'[q] \in Nat /\ end[q] \in Nat /\ Front \in Nat
    BY <1>3, <1>4, <1>5, <2>1, TypeFacts
  <2>3. Front' <= pos'[q] /\ pos'[q] < end'[q] /\ end'[q] <= enqueue_pos'
    BY <1>1, <1>7, <2>1, <2>2
  <2>4. \A t \in Nat : Holds(q, t)' => Holds(q, t)
    BY <2>1, <2>2 DEF Holds
  <2>5. ASSUME NEW r \in Producers \ {q}, Busy(r)'
        PROVE  end'[r] <= pos'[q] \/ end'[q] <= pos'[r]
    <3>1. /\ Busy(r) /\ end'[r] = end[r] /\ pos[r] <= pos'[r]
          /\ end[r] \in Nat /\ pos[r] \in Nat /\ pos'[r] \in Nat
      BY <1>3, <1>4, <1>5, <2>5, TypeFacts
    <3> QED
      BY <2>1, <2>2, <3>1
  <2> QED
    BY <1>1, <2>1, <2>3, <2>4, <2>5
<1>11. SeqInv'
  <2> SUFFICES ASSUME NEW t \in Window
               PROVE  seq'[SlotOf(t)] = IF Done(t)' THEN t + 1 ELSE t
    BY <1>7 DEF SeqInv
  <2>1. t \in Nat /\ SlotOf(t) \in TRSlots /\ seq[SlotOf(t)] = IF Done(t) THEN t + 1 ELSE t
    BY DivMod DEF Window, RingInv, SeqInv
  <2>2. CASE t = pos[p]
    BY <1>1, <1>2, <1>6, <2>1, <2>2
  <2>3. CASE t # pos[p]
    <3>1. SlotOf(t) # SlotOf(pos[p])
      BY <1>3, <2>3, WindowApart
    <3> QED
      BY <1>1, <1>2, <1>6, <2>1, <2>3, <3>1
  <2> QED
    BY <2>2, <2>3
<1>12. AheadInv'
  <2> SUFFICES ASSUME NEW t \in Nat, Front + Capacity <= t, Done(t)'
               PROVE  FALSE
    BY <1>7 DEF AheadInv
  <2> QED
    BY <1>3, <1>6, TypeFacts DEF RingInv, AheadInv, Window
<1>13. WritersInv'
  <2> SUFFICES ASSUME NEW q \in Producers, ppc'[q] \in {"write", "publish"}
               PROVE  /\ seq'[SlotOf(pos'[q])] = pos'[q]
                      /\ ppc'[q] = "publish" => data'[SlotOf(pos'[q])] = <<q, pos'[q]>>
    BY DEF WritersInv
  <2>1. /\ q # p /\ pos'[q] = pos[q] /\ seq[SlotOf(pos[q])] = pos[q] /\ Busy(q)
        /\ ppc'[q] = "publish" => data[SlotOf(pos[q])] = <<q, pos[q]>>
    BY <1>4, <1>5 DEF RingInv, WritersInv, Busy
  <2>2. SlotOf(pos[q]) # SlotOf(pos[p])
    BY <1>3, <2>1, WriterInWindow, WritersApart
  <2>3. SlotOf(pos[q]) \in TRSlots
    BY TypeFacts, DivMod
  <2> QED
    BY <1>1, <1>2, <2>1, <2>2, <2>3
<1>14. DataInv'
  <2> SUFFICES ASSUME NEW t \in Window, Done(t)'
               PROVE  data[SlotOf(t)] = order[t + 1]
    BY <1>1, <1>7 DEF DataInv
  <2>1. CASE t = pos[p]
    BY <1>1, <1>3, <2>1, TicketPending DEF RingInv, WritersInv
  <2>2. CASE t # pos[p]
    BY <1>6, <2>2 DEF RingInv, DataInv, Window
  <2> QED
    BY <2>1, <2>2
<1>15. ConsumerInv'
  BY <1>1, <1>6, ConsumerRest
<1> QED
  BY <1>8, <1>9, <1>10, <1>11, <1>12, <1>13, <1>14, <1>15 DEF RingInv

LEMMA ProduceRing ==
  ASSUME RingParameters, RingInv, NEW p \in Producers, Produce(p)
  PROVE  RingInv'
BY ReserveRing, AwaitRing, WriteRing, PublishRing DEF Produce

-----------------------------------------------------------------------------
(* The steps of pop, and reset *)

LEMMA PollReadRing ==
  ASSUME RingParameters, RingInv, PopPoll \/ Read
  PROVE  RingInv'
<1>1. /\ cpc \in {"poll", "read"} /\ cpc' \in {"read", "release"}
      /\ UNCHANGED <<enqueue_pos, dequeue_pos, seq, data, ppc, pos, end, order, received>>
  BY DEF PopPoll, Read
<1>2. /\ Front' = Front /\ Front = dequeue_pos /\ dequeue_pos \in Window
      /\ \A p \in Producers : Busy(p)' <=> Busy(p)
  BY <1>1, TypeFacts DEF Front, Busy, Window
<1>3. /\ HistoryInv' /\ HoldersInv' /\ SeqInv' /\ AheadInv'
      /\ Window' = Window /\ \A t \in Nat : Done(t)' <=> Done(t)
  BY <1>1, <1>2, TicketsRest
<1>4. Done(dequeue_pos)
  <2>1. CASE PopPoll
    <3>1. seq[SlotOf(dequeue_pos)] = dequeue_pos + 1
      BY <2>1 DEF PopPoll
    <3>2. seq[SlotOf(dequeue_pos)] = IF Done(dequeue_pos) THEN dequeue_pos + 1 ELSE dequeue_pos
      BY <1>2 DEF RingInv, SeqInv
    <3> QED
      BY <3>1, <3>2, TypeFacts
  <2>2. CASE Read
    BY <2>2 DEF Read, RingInv, ConsumerInv
  <2> QED
    BY <2>1, <2>2
<1>5. Done(dequeue_pos)'
  <2>1. PICK d \in Nat : d = dequeue_pos
    BY TypeFacts
  <2>2. d = dequeue_pos' /\ Done(d)'
    BY <1>1, <1>3, <1>4, <2>1
  <2> QED
    BY <2>2 DEF Done
<1>6. TRTypeOK'
  <2>1. SlotOf(dequeue_pos) \in TRSlots
    BY TypeFacts, DivMod
  <2> QED
    BY <2>1 DEF RingInv, TRTypeOK, PopPoll, Read
<1>7. WritersInv'
  BY <1>1 DEF RingInv, WritersInv
<1>8. DataInv'
  BY <1>1, <1>3 DEF RingInv, DataInv, Window
<1>9. ConsumerInv'
  <2>1. ASSUME cpc' \in {"release", "advance"} PROVE out' = order[dequeue_pos + 1]
    <3>1. Read
      BY <2>1 DEF PopPoll
    <3> QED
      BY <1>2, <1>4, <3>1 DEF Read, RingInv, DataInv
  <2> QED
    BY <1>1, <1>5, <2>1 DEF ConsumerInv
<1> QED
  BY <1>3, <1>6, <1>7, <1>8, <1>9 DEF RingInv

LEMMA ReleaseRing ==
  ASSUME RingParameters, RingInv, Release
  PROVE  RingInv'
<1>1. /\ cpc = "release" /\ cpc' = "advance"
      /\ seq' = [seq EXCEPT ![SlotOf(dequeue_pos)] = dequeue_pos + Capacity]
      /\ UNCHANGED <<enqueue_pos, dequeue_pos, data, ppc, pos, end, out, order, received>>
  BY DEF Release, Released
<1>2. /\ Front = dequeue_pos /\ Front' = dequeue_pos + 1 /\ dequeue_pos \in Nat
      /\ Capacity \in Nat /\ Capacity >= 2
      /\ dequeue_pos \in Window /\ SlotOf(dequeue_pos) \in TRSlots
      /\ SlotOf(dequeue_pos + Capacity) = SlotOf(dequeue_pos)
  BY <1>1, TypeFacts, DivMod, NextLap DEF Front, Window
<1>3. /\ ppc \in [Producers -> {"idle", "wait", "write", "publish"}]
      /\ seq \in [TRSlots -> Nat] /\ Done(dequeue_pos)
  BY <1>1 DEF RingInv, TRTypeOK, ConsumerInv
<1>4. /\ \A p \in Producers : Busy(p)' <=> Busy(p)
      /\ \A p \in Producers, t \in Nat : Holds(p, t)' <=> Holds(p, t)
  BY <1>1 DEF Busy, Holds
<1>5. \A t \in Nat : Done(t)' <=> Done(t)
  BY <1>1, <1>4 DEF Done, Pending
<1>6. \A p \in Producers : Busy(p) => pos[p] \in Nat /\ Front < pos[p]
  <2> SUFFICES ASSUME NEW p \in Producers, Busy(p)
               PROVE  pos[p] \in Nat /\ Front < pos[p]
    OBVIOUS
  <2>1. pos[p] \in Nat /\ Front \in Nat /\ Front <= pos[p]
    BY TypeFacts DEF RingInv, HoldersInv
  <2>2. ASSUME pos[p] = dequeue_pos PROVE FALSE
    <3>1. Holds(p, dequeue_pos)
      BY <2>2, TicketPending DEF Holds
    <3> QED
      BY <1>3, <3>1 DEF Done, Pending
  <2> QED
    BY <1>2, <2>1, <2>2
\* the window moves by one: its first ticket leaves, the next lap's enters
<1>7. ASSUME NEW t \in Window'
      PROVE  \/ t = dequeue_pos + Capacity /\ ~Done(t)
             \/ t \in Window /\ t # dequeue_pos /\ SlotOf(t) # SlotOf(dequeue_pos)
  <2>1. t \in Nat /\ dequeue_pos + 1 <= t /\ t < dequeue_pos + 1 + Capacity
    BY <1>1, <1>2 DEF Window
  <2>2. CASE t = dequeue_pos + Capacity
    BY <1>2, <2>1, <2>2 DEF RingInv, AheadInv
  <2>3. CASE t # dequeue_pos + Capacity
    <3>1. t \in Window /\ t # dequeue_pos
      BY <1>2, <2>1, <2>3 DEF Window
    <3> QED
      BY <1>2, <3>1, WindowApart
  <2> QED
    BY <2>2, <2>3
<1>8. \A t \in Window' : t \in Nat
  BY DEF Window
<1>9. TRTypeOK'
  BY <1>1, <1>2, <1>3 DEF RingInv, TRTypeOK
<1>10. HistoryInv'
  BY <1>1 DEF RingInv, HistoryInv
<1>11. HoldersInv'
  <2> SUFFICES ASSUME NEW p \in Producers, Busy(p)
               PROVE  /\ Front' <= pos[p] /\ pos[p] < end[p] /\ end[p] <= enqueue_pos
                      /\ \A t \in Nat : Holds(p, t)' => order[t + 1] = <<p, t>>
                      /\ \A q \in Producers \ {p} :
                           Busy(q)' => end[q] <= pos[p] \/ end[p] <= pos[q]
    BY <1>1, <1>4 DEF HoldersInv
  <2>1. Front' <= pos[p]
    BY <1>2, <1>6
  <2> QED
    BY <1>4, <2>1 DEF RingInv, HoldersInv
<1>12. SeqInv'
  <2> SUFFICES ASSUME NEW t \in Window'
               PROVE  seq'[SlotOf(t)] = IF Done(t) THEN t + 1 ELSE t
    BY <1>5, <1>8 DEF SeqInv
  <2>1. CASE t = dequeue_pos + Capacity /\ ~Done(t)
    BY <1>1, <1>2, <1>3, <2>1
  <2>2. CASE t \in Window /\ t # dequeue_pos /\ SlotOf(t) # SlotOf(dequeue_pos)
    <3>1. seq[SlotOf(t)] = IF Done(t) THEN t + 1 ELSE t
      BY <2>2 DEF RingInv, SeqInv
    <3>2. SlotOf(t) \in TRSlots
      BY <1>8, DivMod
    <3> QED
      BY <1>1, <1>3, <2>2, <3>1, <3>2
  <2> QED
    BY <1>7, <2>1, <2>2
<1>13. AheadInv'
  BY <1>2, <1>5 DEF RingInv, AheadInv
<1>14. WritersInv'
  <2> SUFFICES ASSUME NEW p \in Producers, ppc[p] \in {"write", "publish"}
               PROVE  /\ seq'[SlotOf(pos[p])] = pos[p]
                      /\ ppc[p] = "publish" => data[SlotOf(pos[p])] = <<p, pos[p]>>
    BY <1>1 DEF WritersInv
  <2>1. /\ seq[SlotOf(pos[p])] = pos[p] /\ Busy(p)
        /\ ppc[p] = "publish" => data[SlotOf(pos[p])] = <<p, pos[p]>>
    BY DEF RingInv, WritersInv, Busy
  <2>2. SlotOf(pos[p]) # SlotOf(dequeue_pos) /\ SlotOf(pos[p]) \in TRSlots
    BY <1>2, <1>6, <2>1, WriterInWindow, WindowApart, TypeFacts, DivMod
  <2> QED
    BY <1>1, <1>3, <2>1, <2>2
<1>15. DataInv'
  <2> SUFFICES ASSUME NEW t \in Window', Done(t)
               PROVE  data[SlotOf(t)] = order[t + 1]
    BY <1>1, <1>5, <1>8 DEF DataInv
  <2> QED
    BY <1>7 DEF RingInv, DataInv
<1>16. ConsumerInv'
  <2>1. Done(dequeue_pos)'
    BY <1>1, <1>2, <1>3, <1>5 DEF Done
  <2> QED
    BY <1>1, <2>1 DEF RingInv, ConsumerInv
<1> QED
  BY <1>9, <1>10, <1>11, <1>12, <1>13, <1>14, <1>15, <1>16 DEF RingInv

LEMMA AppendFacts ==
  ASSUME NEW S, NEW s \in Seq(S), NEW e \in S
  PROVE  /\ Append(s, e) \in Seq(S)
         /\ Len(Append(s, e)) = Len(s) + 1
         /\ \A i \in 1 .. Len(s) + 1 :
              Append(s, e)[i] = IF i = Len(s) + 1 THEN e ELSE s[i]
OBVIOUS

LEMMA AdvanceRing ==
  ASSUME RingParameters, RingInv, PopAdvance
  PROVE  RingInv'
<1>1. /\ cpc = "advance" /\ cpc' = "poll" /\ dequeue_pos' = dequeue_pos + 1
      /\ received' = Append(received, out)
      /\ UNCHANGED <<enqueue_pos, seq, data, ppc, pos, end, out, order>>
  BY DEF PopAdvance
<1>2. /\ Front' = Front /\ Window' = Window
      /\ dequeue_pos \in Nat /\ enqueue_pos \in Nat /\ dequeue_pos + 1 <= enqueue_pos
  BY <1>1, TypeFacts DEF Front, Window
<1>3. \A p \in Producers : Busy(p)' <=> Busy(p)
  BY <1>1 DEF Busy
<1>4. \A p \in Producers, t \in Nat : Holds(p, t)' <=> Holds(p, t)
  BY <1>1, <1>3 DEF Holds
<1>5. \A t \in Nat : Done(t)' <=> Done(t)
  BY <1>1, <1>4 DEF Done, Pending
<1>6. /\ received \in Seq(Items \cup {NoItem}) /\ out \in Items \cup {NoItem}
      /\ Len(received) = dequeue_pos /\ out = order[dequeue_pos + 1]
  BY <1>1 DEF RingInv, TRTypeOK, HistoryInv, ConsumerInv
<1>7. /\ received' \in Seq(Items \cup {NoItem}) /\ Len(received') = dequeue_pos + 1
      /\ \A i \in 1 .. dequeue_pos + 1 :
           received'[i] = IF i = dequeue_pos + 1 THEN out ELSE received[i]
  BY <1>1, <1>6, AppendFacts
<1>8. TRTypeOK'
  BY <1>1, <1>2, <1>7 DEF RingInv, TRTypeOK
<1>9. HistoryInv'
  BY <1>1, <1>2, <1>6, <1>7 DEF RingInv, HistoryInv
<1>10. HoldersInv'
  BY <1>1, <1>2, <1>3, <1>4 DEF RingInv, HoldersInv
<1>11. SeqInv' /\ AheadInv' /\ DataInv'
  BY <1>1, <1>2, <1>5 DEF RingInv, SeqInv, AheadInv, DataInv, Window
<1>12. WritersInv' /\ ConsumerInv'
  BY <1>1 DEF RingInv, WritersInv, ConsumerInv
<1> QED
  BY <1>8, <1>9, <1>10, <1>11, <1>12 DEF RingInv

\* an empty ring that no thread uses, whatever its slots still contain
Fresh ==
  /\ enqueue_pos = 0 /\ dequeue_pos = 0 /\ seq = [i \in TRSlots |-> i]
  /\ data \in [TRSlots -> Items \cup {NoItem}]
  /\ ppc \in [Producers -> {"idle", "wait", "write", "publish"}]
  /\ \A p \in Producers : ppc[p] = "idle"
  /\ pos \in [Producers -> Nat] /\ end \in [Producers -> Nat]
  /\ cpc = "poll" /\ out \in Items \cup {NoItem}
  /\ order = << >> /\ received = << >>

LEMMA FreshRing == RingParameters /\ Fresh => RingInv
<1> SUFFICES ASSUME RingParameters, Fresh
             PROVE  RingInv
  OBVIOUS
<1>1. \A t \in Nat : ~Done(t)
  BY DEF Fresh, Done
<1>2. /\ Front = 0 /\ Window = TRSlots
      /\ \A t \in TRSlots : SlotOf(t) = t /\ t \in Nat
  BY FirstLap DEF Fresh, Front, Window, TRSlots, RingParameters
<1>3. TRTypeOK
  BY DEF Fresh, TRTypeOK, TRSlots, RingParameters
<1>4. HistoryInv /\ HoldersInv /\ WritersInv /\ ConsumerInv
  BY DEF Fresh, HistoryInv, HoldersInv, WritersInv, ConsumerInv, Busy
<1>5. SeqInv /\ AheadInv /\ DataInv
  BY <1>1, <1>2 DEF Fresh, SeqInv, AheadInv, DataInv
<1> QED
  BY <1>3, <1>4, <1>5 DEF RingInv

LEMMA InitRing == RingParameters /\ TRInit => RingInv
<1>1. RingParameters /\ TRInit => Fresh
  BY DEF TRInit, Fresh, RingParameters
<1> QED
  BY <1>1, FreshRing

LEMMA RestartRing == RingParameters /\ RingInv /\ ResetRing => RingInv'
<1>1. RingInv /\ ResetRing => Fresh'
  BY DEF RingInv, TRTypeOK, ResetRing, Fresh
<1>2. RingParameters => RingParameters'
  BY DEF RingParameters
<1> QED
  BY <1>1, <1>2, FreshRing, PTL

LEMMA NextRing == RingParameters /\ RingInv /\ [TRNext]_trVars => RingInv'
<1> SUFFICES ASSUME RingParameters, RingInv, [TRNext]_trVars
             PROVE  RingInv'
  OBVIOUS
<1>1. CASE \E p \in Producers : Produce(p)
  BY <1>1, ProduceRing
<1>2. CASE Consume
  BY <1>2, PollReadRing, ReleaseRing, AdvanceRing DEF Consume
<1>3. CASE ResetRing
  BY <1>3, RestartRing
<1>4. CASE UNCHANGED trVars
  <2>1. /\ Front' = Front /\ \A p \in Producers : Busy(p)' <=> Busy(p)
        /\ UNCHANGED <<enqueue_pos, dequeue_pos, seq, data, ppc, pos, end, cpc, out, order, received>>
    BY <1>4 DEF trVars, Front, Busy
  <2>2. /\ HistoryInv' /\ HoldersInv' /\ SeqInv' /\ AheadInv'
        /\ Window' = Window /\ \A t \in Nat : Done(t)' <=> Done(t)
    BY <2>1, TicketsRest
  <2>3. TRTypeOK' /\ WritersInv' /\ DataInv'
    BY <2>1, <2>2 DEF RingInv, TRTypeOK, WritersInv, DataInv, Window
  <2>4. ConsumerInv'
    BY <2>1, <2>2, ConsumerRest
  <2> QED
    BY <2>2, <2>3, <2>4 DEF RingInv
<1> QED
  BY <1>1, <1>2, <1>3, <1>4 DEF TRNext

LEMMA RingInvariant == RingParameters => (TRSpec => []RingInv)
<1> SUFFICES ASSUME RingParameters
             PROVE  TRSpec => []RingInv
  OBVIOUS
<1>1. TRInit => RingInv
  BY InitRing
<1>2. RingInv /\ [TRNext]_trVars => RingInv'
  BY NextRing
<1> QED
  BY <1>1, <1>2, PTL DEF TRSpec

-----------------------------------------------------------------------------
(* What the ring guarantees *)

LEMMA RingImpliesSound == RingParameters /\ RingInv => RingSound
<1> SUFFICES ASSUME RingParameters, RingInv
             PROVE  RingSound
  OBVIOUS
<1>1. TRTypeOK
  BY DEF RingInv
<1>2. \A p \in Producers : ppc[p] \in {"write", "publish"} => Busy(p) /\ pos[p] \in Window
  BY WriterInWindow DEF RingInv, WritersInv, Busy
<1>3. SlotExclusive
  <2> SUFFICES ASSUME NEW p \in Producers, ppc[p] = "write"
               PROVE  /\ \A q \in Producers \ {p} :
                           ppc[q] \in {"write", "publish"} => SlotOf(pos[q]) # SlotOf(pos[p])
                      /\ cpc = "read" => SlotOf(dequeue_pos) # SlotOf(pos[p])
    BY DEF SlotExclusive
  <2>1. \A q \in Producers \ {p} :
          ppc[q] \in {"write", "publish"} => SlotOf(pos[q]) # SlotOf(pos[p])
    BY <1>2, WritersApart
  <2>2. ASSUME cpc = "read" PROVE SlotOf(dequeue_pos) # SlotOf(pos[p])
    <3>1. Done(dequeue_pos) /\ dequeue_pos \in Window
      BY <2>2, TypeFacts DEF RingInv, ConsumerInv, Front, Window
    <3>2. dequeue_pos # pos[p]
      BY <1>2, <3>1, TicketPending DEF Done, Pending, Holds
    <3> QED
      BY <1>2, <3>1, <3>2, WindowApart
  <2> QED
    BY <2>1, <2>2
<1>4. PublishedIntact
  <2> SUFFICES ASSUME NEW t \in dequeue_pos .. enqueue_pos - 1, seq[SlotOf(t)] = t + 1
               PROVE  data[SlotOf(t)] = order[t + 1]
    BY DEF PublishedIntact, Published
  <2>1. /\ t \in Nat /\ dequeue_pos <= t /\ t < enqueue_pos
        /\ Front \in Nat /\ Capacity \in Nat /\ Capacity >= 2 /\ dequeue_pos \in Nat
    BY TypeFacts
  <2>2. CASE Front <= t
    <3>1. PICK u \in Nat : Front <= u /\ u < Front + Capacity /\ u <= t /\ SlotOf(u) = SlotOf(t)
      BY <2>1, <2>2, Owner
    <3>2. u \in Window /\ seq[SlotOf(u)] = IF Done(u) THEN u + 1 ELSE u
      BY <3>1 DEF Window, RingInv, SeqInv
    <3>3. t = u /\ Done(u)
      BY <2>1, <3>1, <3>2
    <3> QED
      BY <3>2, <3>3 DEF RingInv, DataInv
  \* the slot of the ticket just given back belongs to the next lap
  <2>3. CASE t < Front
    <3>1. t = dequeue_pos /\ Front = dequeue_pos + 1
      BY <2>1, <2>3 DEF Front
    <3>2. /\ t + Capacity \in Window /\ SlotOf(t + Capacity) = SlotOf(t)
      BY <2>1, <3>1, NextLap DEF Window
    <3>3. seq[SlotOf(t)] \in {t + Capacity, t + Capacity + 1}
      BY <3>2 DEF RingInv, SeqInv
    <3> QED
      BY <2>1, <3>3
  <2> QED
    BY <2>1, <2>2, <2>3
<1> QED
  BY <1>1, <1>3, <1>4 DEF RingSound

\* mpsc_ticket_ring.hpp: whatever the number of producers, the sizes of their
\* batches and how far their tickets run ahead of the slots, no two threads touch
\* one slot.data at a time and nothing published is overwritten before pop has it.
THEOREM RingSafe == RingParameters => (TRSpec => []RingSound)
<1> SUFFICES ASSUME RingParameters
             PROVE  TRSpec => []RingSound
  OBVIOUS
<1>1. TRSpec => []RingInv
  BY RingInvariant
<1>2. RingInv => RingSound
  BY RingImpliesSound
<1> QED
  BY <1>1, <1>2, PTL

-----------------------------------------------------------------------------
(* The ring implements FifoChannel: a step of the ring is a step of the       *)
(* channel, or leaves its two histories alone.                                *)

LEMMA PrefixFacts ==
  ASSUME NEW S, NEW s \in Seq(S), NEW n \in 0 .. Len(s), NEW f \in Seq(S),
         Len(f) = n, \A i \in 1 .. n : f[i] = s[i]
  PROVE  SubSeq(s, 1, n) = f
<1>1. /\ SubSeq(s, 1, n) \in Seq(S) /\ Len(SubSeq(s, 1, n)) = n
      /\ \A i \in 1 .. n : SubSeq(s, 1, n)[i] = s[i]
  OBVIOUS
<1> QED
  BY <1>1

LEMMA ReserveAccepts ==
  ASSUME RingParameters, RingInv, NEW p \in Producers, NEW n \in BatchSizes, Reserve(p, n)
  PROVE  Channel!Accept
<1> DEFINE batch == [i \in 1 .. n |-> <<p, enqueue_pos + i - 1>>]
<1>1. /\ n \in Nat /\ n > 0 /\ order' = order \o batch /\ received' = received
  BY DEF Reserve, RingParameters
<1>2. order \in Seq(Items) /\ batch \in Seq(Items) /\ Len(batch) = n
  BY <1>1, TypeFacts DEF Items
<1> HIDE DEF batch
<1>3. /\ order \o batch \in Seq(Items) /\ Len(order \o batch) = Len(order) + Len(batch)
      /\ \A i \in 1 .. Len(order) : (order \o batch)[i] = order[i]
  BY <1>2, ConcatFacts
<1>4. Len(order) \in Nat
  BY <1>2
<1>5. Len(order') > Len(order)
  BY <1>1, <1>2, <1>3, <1>4
<1>6. SubSeq(order', 1, Len(order)) = order
  BY <1>1, <1>2, <1>3, <1>4, PrefixFacts
<1> QED
  BY <1>1, <1>5, <1>6 DEF Channel!Accept

LEMMA AdvanceDelivers ==
  ASSUME RingParameters, RingInv, PopAdvance
  PROVE  Channel!Deliver
<1>1. received' = Append(received, out) /\ order' = order /\ cpc = "advance"
  BY DEF PopAdvance
<1>2. /\ received \in Seq(Items \cup {NoItem}) /\ out \in Items \cup {NoItem}
      /\ order \in Seq(Items \cup {NoItem}) /\ Len(order) = enqueue_pos
      /\ Len(received) = dequeue_pos /\ \A i \in 1 .. dequeue_pos : received[i] = order[i]
      /\ out = order[dequeue_pos + 1] /\ dequeue_pos \in Nat /\ enqueue_pos \in Nat
      /\ dequeue_pos + 1 <= enqueue_pos
  <2>1. order \in Seq(Items) /\ Items \subseteq Items \cup {NoItem}
    BY TypeFacts
  <2>2. order \in Seq(Items \cup {NoItem})
    BY <2>1
  <2> QED
    BY <1>1, <2>2, TypeFacts DEF RingInv, TRTypeOK, HistoryInv, ConsumerInv, Done
<1>3. /\ received' \in Seq(Items \cup {NoItem}) /\ Len(received') = dequeue_pos + 1
      /\ \A i \in 1 .. dequeue_pos + 1 : received'[i] = order[i]
  BY <1>1, <1>2, AppendFacts
<1>4. SubSeq(order, 1, dequeue_pos + 1) = received'
  BY <1>2, <1>3, PrefixFacts
<1>5. 1 \in 1 .. Len(order) - Len(received)
  BY <1>2
<1> QED
  BY <1>1, <1>2, <1>4, <1>5 DEF Channel!Deliver

LEMMA RingStepsFifo == RingParameters /\ RingInv /\ [TRNext]_trVars => [Channel!Next]_(Channel!vars)
<1> SUFFICES ASSUME RingParameters, RingInv, [TRNext]_trVars
             PROVE  Channel!Next \/ UNCHANGED Channel!vars
  OBVIOUS
<1> USE DEF Channel!Next, Channel!vars
<1>1. ASSUME NEW p \in Producers, Produce(p) PROVE Channel!Next \/ UNCHANGED Channel!vars
  <2>1. CASE \E n \in BatchSizes : Reserve(p, n)
    BY <2>1, ReserveAccepts
  <2>2. CASE AwaitSlot(p) \/ WriteSlot(p) \/ Publish(p)
    BY <2>2 DEF AwaitSlot, WriteSlot, Publish
  <2> QED
    BY <1>1, <2>1, <2>2 DEF Produce
<1>2. CASE PopPoll \/ Read \/ Release
  BY <1>2 DEF PopPoll, Read, Release
<1>3. CASE PopAdvance
  BY <1>3, AdvanceDelivers
<1>4. CASE ResetRing
  BY <1>4 DEF ResetRing, Channel!Clear
<1>5. CASE UNCHANGED trVars
  BY <1>5 DEF trVars
<1> QED
  BY <1>1, <1>2, <1>3, <1>4, <1>5 DEF TRNext, Consume

\* mpsc_ticket_ring.hpp: producers that finish in any order, and batches longer
\* than the ring, still reach the consumer once each in the order of the
\* fetch_add that gave them their tickets.
THEOREM RingIsFifo == RingParameters => (TRSpec => ImplementsFifo)
<1> SUFFICES ASSUME RingParameters
             PROVE  TRSpec => ImplementsFifo
  OBVIOUS
<1>1. TRInit => Channel!Init
  BY DEF TRInit, Channel!Init
<1>2. TRSpec => []RingInv
  BY RingInvariant
<1>3. RingInv /\ [TRNext]_trVars => [Channel!Next]_(Channel!vars)
  BY RingStepsFifo
<1> QED
  BY <1>1, <1>2, <1>3, PTL DEF TRSpec, ImplementsFifo, Channel!Spec
================================================================================
