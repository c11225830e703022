----------------------------- MODULE Rings_proofs -----------------------------
(****************************************************************************)
(* Proofs about the queues that are tables of slots: FanIn, for any number of *)
(* lanes, any capacity and any batch sizes, SeqRings, for any threads and any *)
(* capacity the code compiles, and the embedder's tickets (Embedder), for any *)
(* callers and any number of slots.                                           *)
(*                                                                            *)
(* FanIn.  Each lane hands over what was pushed, in order, although either    *)
(* side works from a stale copy of the other's counter, and no lane with      *)
(* something to read is passed over for more than one round.                  *)
(* The argument for the rings: the cached counters are behind the real ones,  *)
(* so the cells the producer writes are free and those the consumer reads are *)
(* written; a cell is given by its position, since the positions in use are   *)
(* less than a lap apart.  The argument for the turns: the pops that pass a   *)
(* lane over bring the next poll nearer to it.                                *)
(*                                                                            *)
(* SeqRings.  Each item is taken once and each producer's in order, and no    *)
(* two threads are in one slot.  The argument: the sequence number of a slot  *)
(* tells which of its positions is being written, which is to be read and     *)
(* which comes next; the positions of a slot are a lap, hence at least two    *)
(* apart, so no number serves two of them.  The items that are claimed and    *)
(* not taken therefore have a position each, in the order of their claims.    *)
(*                                                                            *)
(* Embedder.  A slot is in the mask, or one call is inside it, or an open     *)
(* ticket is in it, and a state query reports what became of its ticket.  The *)
(* argument: the bit that acquire_free_slot finds set belongs to one caller,  *)
(* a ticket is new because its counter is, only its owner runs it, takes it   *)
(* or gives it up, a ticket leaves its slot only after its end is on record,  *)
(* and the history keeps the last tickets given up, each in its own entry.    *)
(****************************************************************************)
EXTENDS FanIn, SeqRings, Embedder, FiniteSetTheorems, WellFoundedInduction, TLAPS

-----------------------------------------------------------------------------
(* FanIn *)

\* at least one lane with a slot, and calls for at least one item
FanInParameters ==
  /\ Producers \in Nat \ {0}
  /\ LaneCapacity \in Nat \ {0}
  /\ BatchSizes \subseteq Nat \ {0}

Cell(n) == n % LaneCapacity

Ring == [head : Nat, tail : Nat, ptail : Nat, chead : Nat, buf : [0 .. LaneCapacity - 1 -> Nat]]

TypeInv ==
  /\ lane \in [Lanes -> Ring]
  /\ pushing \in [Lanes -> Nat]
  /\ popper \in [pc : {"idle", "look", "copy", "store"}, at : Lanes, tries : Lanes, n : Nat,
                 out : Seq(Nat), want : Nat]
  /\ got \in [Lanes -> Seq(Nat)]
  /\ passed \in [Lanes -> Nat]

\* The caches are behind, a push fits behind what the producer knows of the
\* tail, and what is not read yet is in the cells of its positions.
Sound(l, n) ==
  /\ l.ptail <= l.tail /\ l.tail <= l.chead /\ l.chead <= l.head
  /\ l.head + n <= l.ptail + LaneCapacity
  /\ \A v \in Nat : l.tail < v /\ v <= l.head + n => l.buf[Cell(v - 1)] = v

LaneInv == \A p \in Lanes : Sound(lane[p], pushing[p])

\* The consumer takes what it has seen of the lane it serves.
PopInv ==
  /\ popper.pc = "look" => popper.want > 0
  /\ popper.pc \in {"copy", "store"} => lane[Serving].tail + popper.n <= lane[Serving].chead
  /\ popper.pc = "store" => popper.out = [i \in 1 .. popper.n |-> lane[Serving].tail + i]

GotInv == \A p \in Lanes : got[p] = [i \in 1 .. lane[p].tail |-> i]

\* polls from the next one to the one of lane p
Distance(p) == IF p >= popper.at THEN p - popper.at ELSE p - popper.at + Producers

\* A lane that was passed over still has something to read, the poll under way
\* has not gone past it, and every pop that passes it over brings it nearer.
TurnInv ==
  \A p \in Lanes : passed[p] > 0 =>
    /\ lane[p].tail < lane[p].head
    /\ popper.tries <= Distance(p)
    /\ passed[p] + Distance(p) <= Producers

FanInInv == TypeInv /\ LaneInv /\ PopInv /\ GotInv /\ TurnInv

-----------------------------------------------------------------------------
(* Arithmetic *)

LEMMA DivMod ==
  ASSUME NEW m \in Nat \ {0}, NEW n \in Nat
  PROVE  /\ n \div m \in Nat
         /\ n % m \in 0 .. m - 1
         /\ n = m * (n \div m) + (n % m)
OBVIOUS

\* positions less than a lap apart have cells of their own
LEMMA ModApart ==
  ASSUME NEW m \in Nat \ {0}, NEW t \in Nat, NEW u \in Nat, t % m = u % m, t <= u, u < t + m
  PROVE  t = u
<1>1. /\ t \div m \in Nat /\ u \div m \in Nat /\ t % m \in 0 .. m - 1
      /\ t = m * (t \div m) + (t % m)
      /\ u = m * (u \div m) + (t % m)
  BY DivMod
<1>2. CASE t \div m < u \div m
  <2>1. m * ((t \div m) + 1) <= m * (u \div m)
    BY <1>1, <1>2
  <2> QED
    BY <1>1, <2>1
<1>3. CASE u \div m < t \div m
  <2>1. m * ((u \div m) + 1) <= m * (t \div m)
    BY <1>1, <1>3
  <2> QED
    BY <1>1, <2>1
<1> QED
  BY <1>1, <1>2, <1>3

\* one round of the lanes
LEMMA ModOnce ==
  ASSUME NEW m \in Nat \ {0}, NEW n \in Nat, n < m + m
  PROVE  n % m = IF n < m THEN n ELSE n - m
<1>1. /\ n \div m \in Nat /\ n % m \in 0 .. m - 1
      /\ n = m * (n \div m) + (n % m)
  BY DivMod
<1>2. CASE n \div m = 0
  BY <1>1, <1>2
<1>3. CASE n \div m = 1
  BY <1>1, <1>3
<1>4. CASE n \div m >= 2
  <2>1. m * (n \div m) >= m * 2
    BY <1>1, <1>4
  <2> QED
    BY <1>1, <2>1
<1> QED
  BY <1>1, <1>2, <1>3, <1>4

LEMMA CellsApart ==
  ASSUME FanInParameters, NEW t \in Nat, NEW u \in Nat, Cell(t) = Cell(u),
         t < u + LaneCapacity, u < t + LaneCapacity
  PROVE  t = u
<1>1. LaneCapacity \in Nat \ {0}
  BY DEF FanInParameters
<1>2. CASE t <= u
  BY <1>1, <1>2, ModApart DEF Cell
<1>3. CASE u <= t
  BY <1>1, <1>3, ModApart DEF Cell
<1> QED
  BY <1>2, <1>3

\* the lane a poll looks at, by its distance from the first
LEMMA ServingAt ==
  ASSUME FanInParameters, TypeInv
  PROVE  /\ Serving \in Lanes
         /\ Serving = IF popper.at + popper.tries < Producers THEN popper.at + popper.tries
                      ELSE popper.at + popper.tries - Producers
         /\ Distance(Serving) = popper.tries
<1>1. /\ Producers \in Nat \ {0}
      /\ popper.at \in 0 .. Producers - 1 /\ popper.tries \in 0 .. Producers - 1
  BY DEF FanInParameters, TypeInv, Lanes
<1>2. /\ popper.at + popper.tries \in Nat
      /\ popper.at + popper.tries < Producers + Producers
  BY <1>1
<1>3. Serving = IF popper.at + popper.tries < Producers THEN popper.at + popper.tries
                ELSE popper.at + popper.tries - Producers
  BY <1>1, <1>2, ModOnce DEF Serving
<1> QED
  BY <1>1, <1>3 DEF Lanes, Distance

LEMMA SmallerOf ==
  ASSUME NEW a \in Int, NEW b \in Int
  PROVE  /\ Smaller(a, b) \in Int /\ Smaller(a, b) <= a /\ Smaller(a, b) <= b
         /\ Smaller(a, b) \in {a, b}
BY DEF Smaller

LEMMA FunctionFacts ==
  ASSUME NEW S, NEW m \in Nat, NEW q \in [1 .. m -> S]
  PROVE  q \in Seq(S) /\ Len(q) = m
OBVIOUS

-----------------------------------------------------------------------------
(* The producers *)

LEMMA LaneType ==
  ASSUME TypeInv, NEW p \in Lanes
  PROVE  /\ lane[p] \in Ring /\ pushing[p] \in Nat
         /\ lane[p].head \in Nat /\ lane[p].tail \in Nat /\ lane[p].ptail \in Nat
         /\ lane[p].chead \in Nat /\ lane[p].buf \in [0 .. LaneCapacity - 1 -> Nat]
BY DEF TypeInv, Ring

\* what a step of one lane's producer may do to it
LEMMA ProducerSteps ==
  ASSUME FanInParameters, FanInInv, NEW p \in Lanes, NEW l \in Ring, NEW n \in Nat,
         lane' = [lane EXCEPT ![p] = l], pushing' = [pushing EXCEPT ![p] = n],
         UNCHANGED <<popper, got, passed>>,
         l.tail = lane[p].tail, l.chead = lane[p].chead, lane[p].head <= l.head, Sound(l, n)
  PROVE  FanInInv'
<1>1. \A q \in Lanes : lane'[q] = IF q = p THEN l ELSE lane[q]
  BY DEF FanInInv, TypeInv
<1>2. \A q \in Lanes : pushing'[q] = IF q = p THEN n ELSE pushing[q]
  BY DEF FanInInv, TypeInv
<1>3. \A q \in Lanes : lane'[q].tail = lane[q].tail /\ lane'[q].chead = lane[q].chead
  BY <1>1
<1>4. \A q \in Lanes : lane[q].tail < lane[q].head => lane'[q].tail < lane'[q].head
  <2> SUFFICES ASSUME NEW q \in Lanes, lane[q].tail < lane[q].head
               PROVE  lane'[q].tail < lane'[q].head
    OBVIOUS
  <2>1. lane[q].head \in Nat /\ lane[q].tail \in Nat /\ l.head \in Nat
    BY LaneType DEF FanInInv, Ring
  <2> QED
    BY <1>1, <2>1
<1>5. TypeInv'
  BY DEF FanInInv, TypeInv
<1>6. LaneInv'
  BY <1>1, <1>2 DEF FanInInv, LaneInv
<1>7. Serving \in Lanes
  BY ServingAt DEF FanInInv
<1>8. PopInv'
  BY <1>3, <1>7 DEF FanInInv, PopInv, Serving
<1>9. GotInv'
  BY <1>3 DEF FanInInv, GotInv
<1>10. TurnInv'
  BY <1>4 DEF FanInInv, TurnInv, Distance
<1> QED
  BY <1>5, <1>6, <1>8, <1>9, <1>10 DEF FanInInv

LEMMA PushCopySteps ==
  ASSUME FanInParameters, FanInInv, NEW p \in Lanes, NEW count \in BatchSizes, PushCopy(p, count)
  PROVE  FanInInv'
<1> DEFINE l     == lane[p]
           stale == LaneCapacity - (l.head - l.ptail)
           seen  == IF stale < count THEN l.tail ELSE l.ptail
           room  == LaneCapacity - (l.head - seen)
           n     == Smaller(count, room)
           buf   == [i \in DOMAIN l.buf |->
                       IF \E j \in 0 .. n - 1 : (l.head + j) % LaneCapacity = i
                       THEN CHOOSE v \in l.head + 1 .. l.head + n : (v - 1) % LaneCapacity = i
                       ELSE l.buf[i]]
           new   == [l EXCEPT !.ptail = seen, !.buf = buf]
<1>1. /\ l \in Ring /\ l.head \in Nat /\ l.tail \in Nat /\ l.ptail \in Nat /\ l.chead \in Nat
      /\ l.buf \in [0 .. LaneCapacity - 1 -> Nat] /\ Sound(l, 0) /\ pushing[p] = 0
      /\ count \in Nat \ {0} /\ LaneCapacity \in Nat \ {0}
  BY LaneType DEF FanInInv, LaneInv, PushCopy, FanInParameters
<1>2. /\ pushing' = [pushing EXCEPT ![p] = n]
      /\ lane' = [lane EXCEPT ![p] = new]
      /\ UNCHANGED <<popper, got, passed>>
  BY DEF PushCopy
<1>3. seen \in Nat /\ l.ptail <= seen /\ seen <= l.tail
  BY <1>1 DEF Sound
<1>4. n \in Nat /\ l.head + n <= seen + LaneCapacity
  <2>1. room \in Nat
    <3>1. /\ l.head \in Nat /\ seen \in Nat /\ LaneCapacity \in Nat
          /\ seen <= l.head /\ l.head <= seen + LaneCapacity
      <4> HIDE DEF seen
      <4>1. /\ l.tail <= l.chead /\ l.chead <= l.head /\ l.head + 0 <= l.ptail + LaneCapacity
        BY <1>1 DEF Sound
      <4> HIDE DEF l
      <4> QED
        BY <1>1, <1>3, <4>1
    <3> DEFINE h == l.head
    <3>2. /\ h \in Nat /\ seen \in Nat /\ LaneCapacity \in Nat
          /\ seen <= h /\ h <= seen + LaneCapacity
      BY <3>1
    <3> HIDE DEF seen, h
    <3>3. LaneCapacity - (h - seen) \in Nat
      BY <3>2
    <3> QED
      BY <3>3 DEF h
  <2>2. n \in {count, room} /\ n <= room
    BY <1>1, <2>1, SmallerOf
  <2>3. count \in Nat /\ seen \in Nat /\ LaneCapacity \in Nat /\ l.head \in Nat
    BY <1>1, <1>3
  <2>4. room = LaneCapacity - (l.head - seen)
    BY DEF room
  <2> HIDE DEF n, room, seen, l
  <2> QED
    BY <2>1, <2>2, <2>3, <2>4
<1> HIDE DEF n, seen, l
<1>5. ASSUME NEW i \in 0 .. LaneCapacity - 1,
             \E j \in 0 .. n - 1 : (l.head + j) % LaneCapacity = i
      PROVE  buf[i] \in l.head + 1 .. l.head + n /\ (buf[i] - 1) % LaneCapacity = i
  <2>1. PICK j \in 0 .. n - 1 : (l.head + j) % LaneCapacity = i
    BY <1>5
  <2>2. l.head + j + 1 \in l.head + 1 .. l.head + n /\ (l.head + j + 1) - 1 = l.head + j
    <3>1. l.head \in Nat /\ n \in Nat /\ j \in Int /\ 0 <= j /\ j <= n - 1
      BY <1>1, <1>4
    <3> QED
      BY <3>1
  <2>3. \E v \in l.head + 1 .. l.head + n : (v - 1) % LaneCapacity = i
    BY <2>1, <2>2
  <2>4. buf[i] = CHOOSE v \in l.head + 1 .. l.head + n : (v - 1) % LaneCapacity = i
    BY <1>1, <1>5
  <2> QED
    BY <2>3, <2>4
<1>6. ASSUME NEW i \in 0 .. LaneCapacity - 1,
             ~\E j \in 0 .. n - 1 : (l.head + j) % LaneCapacity = i
      PROVE  buf[i] = l.buf[i]
  BY <1>1, <1>6
<1>7. buf \in [0 .. LaneCapacity - 1 -> Nat]
  <2>1. ASSUME NEW i \in 0 .. LaneCapacity - 1 PROVE buf[i] \in Nat
    <3>1. CASE \E j \in 0 .. n - 1 : (l.head + j) % LaneCapacity = i
      <4>1. buf[i] \in l.head + 1 .. l.head + n
        BY <1>5, <3>1
      <4>2. \A v \in l.head + 1 .. l.head + n : v \in Nat
        <5>1. l.head \in Nat /\ n \in Nat
          BY <1>1, <1>4
        <5> QED
          BY <5>1
      <4> QED
        BY <4>1, <4>2
    <3>2. CASE ~\E j \in 0 .. n - 1 : (l.head + j) % LaneCapacity = i
      BY <1>1, <1>6, <3>2
    <3> QED
      BY <3>1, <3>2
  <2>2. DOMAIN l.buf = 0 .. LaneCapacity - 1
    BY <1>1
  <2> QED
    BY <2>1, <2>2
<1> HIDE DEF buf
<1>8. ASSUME NEW v \in Nat, l.tail < v, v <= l.head + n
      PROVE  buf[Cell(v - 1)] = v
  <2>1. v - 1 \in Nat /\ Cell(v - 1) \in 0 .. LaneCapacity - 1
    <3>1. v - 1 \in Nat
      BY <1>1, <1>8
    <3> QED
      BY <1>1, <3>1, DivMod DEF Cell
  <2>2. CASE l.head < v
    <3>1. v - 1 - l.head \in 0 .. n - 1 /\ l.head + (v - 1 - l.head) = v - 1
      BY <1>1, <1>4, <1>8, <2>2
    <3>2. \E j \in 0 .. n - 1 : (l.head + j) % LaneCapacity = Cell(v - 1)
      BY <3>1 DEF Cell
    <3>3. PICK w \in l.head + 1 .. l.head + n : w = buf[Cell(v - 1)] /\ Cell(w - 1) = Cell(v - 1)
      BY <1>5, <2>1, <3>2 DEF Cell
    <3>4. w - 1 \in Nat /\ w - 1 < (v - 1) + LaneCapacity /\ v - 1 < (w - 1) + LaneCapacity
      <4>1. /\ l.head \in Nat /\ n \in Nat /\ seen \in Nat /\ l.tail \in Nat /\ LaneCapacity \in Nat
            /\ l.tail <= l.head /\ l.head + n <= seen + LaneCapacity /\ seen <= l.tail
            /\ l.head < v /\ v <= l.head + n /\ v \in Nat
        BY <1>1, <1>3, <1>4, <1>8, <2>2 DEF Sound
      <4>2. w \in Int /\ l.head + 1 <= w /\ w <= l.head + n
        BY <4>1
      <4> DEFINE h == l.head
                 t == l.tail
      <4>3. /\ h \in Nat /\ n \in Nat /\ seen \in Nat /\ t \in Nat /\ LaneCapacity \in Nat
            /\ t <= h /\ h + n <= seen + LaneCapacity /\ seen <= t
            /\ h < v /\ v <= h + n /\ w \in Int /\ h + 1 <= w /\ w <= h + n
        BY <4>1, <4>2
      <4> HIDE DEF h, t
      <4> QED
        BY <4>3
    <3>5. w - 1 = v - 1
      BY <2>1, <3>3, <3>4, CellsApart
    <3> QED
      BY <3>3, <3>5
  <2>3. CASE v <= l.head
    <3>1. ~\E j \in 0 .. n - 1 : (l.head + j) % LaneCapacity = Cell(v - 1)
      <4> SUFFICES ASSUME NEW j \in 0 .. n - 1, Cell(l.head + j) = Cell(v - 1) PROVE FALSE
        BY DEF Cell
      <4>1. /\ l.head + j \in Nat /\ l.head + j < (v - 1) + LaneCapacity
            /\ v - 1 < l.head + j
        <5>1. /\ l.head \in Nat /\ n \in Nat /\ seen \in Nat /\ l.tail \in Nat /\ LaneCapacity \in Nat
              /\ l.head + n <= seen + LaneCapacity /\ seen <= l.tail
              /\ l.tail < v /\ v <= l.head /\ v \in Nat
          BY <1>1, <1>3, <1>4, <1>8, <2>3
        <5>2. j \in Int /\ 0 <= j /\ j <= n - 1
          BY <5>1
        <5> QED
          BY <5>1, <5>2
      <4>2. v - 1 < (l.head + j) + LaneCapacity
        <5>1. l.head + j \in Nat /\ v - 1 \in Nat /\ v - 1 < l.head + j /\ LaneCapacity \in Nat
          BY <1>1, <2>1, <4>1
        <5> QED
          BY <5>1
      <4>3. l.head + j = v - 1
        BY <2>1, <4>1, <4>2, CellsApart
      <4> QED
        BY <2>1, <4>1, <4>3
    <3>2. l.buf[Cell(v - 1)] = v
      BY <1>1, <1>8, <2>3 DEF Sound
    <3> QED
      BY <1>6, <2>1, <3>1, <3>2
  <2> QED
    BY <1>1, <1>8, <2>2, <2>3
<1>9. new \in Ring /\ new.head = l.head /\ new.tail = l.tail /\ new.chead = l.chead
  BY <1>1, <1>3, <1>7 DEF Ring
<1>10. Sound(new, n)
  <2>1. /\ seen <= l.tail /\ l.tail <= l.chead /\ l.chead <= l.head
        /\ l.head + n <= seen + LaneCapacity
    BY <1>1, <1>3, <1>4 DEF Sound
  <2> QED
    BY <1>8, <2>1 DEF Sound
<1>11. l.head <= new.head
  BY <1>1
<1> HIDE DEF new
<1>12. new.tail = lane[p].tail /\ new.chead = lane[p].chead /\ lane[p].head <= new.head
  BY <1>9, <1>11 DEF l
<1> QED
  BY <1>2, <1>4, <1>9, <1>10, <1>12, ProducerSteps

LEMMA PushPublishSteps ==
  ASSUME FanInParameters, FanInInv, NEW p \in Lanes, PushPublish(p)
  PROVE  FanInInv'
<1> DEFINE l   == lane[p]
           new == [l EXCEPT !.head = l.head + pushing[p]]
<1>1. /\ l \in Ring /\ l.head \in Nat /\ l.tail \in Nat /\ l.ptail \in Nat /\ l.chead \in Nat
      /\ l.buf \in [0 .. LaneCapacity - 1 -> Nat] /\ Sound(l, pushing[p]) /\ pushing[p] \in Nat
      /\ LaneCapacity \in Nat \ {0}
  BY LaneType DEF FanInInv, LaneInv, FanInParameters
<1>2. /\ pushing' = [pushing EXCEPT ![p] = 0]
      /\ lane' = [lane EXCEPT ![p] = new]
      /\ UNCHANGED <<popper, got, passed>>
  BY DEF PushPublish
<1>3. new \in Ring /\ new.tail = l.tail /\ new.chead = l.chead /\ l.head <= new.head
  BY <1>1 DEF Ring
<1>4. Sound(new, 0)
  <2>1. l.head + pushing[p] + 0 = l.head + pushing[p] /\ l.chead <= l.head + pushing[p]
    BY <1>1 DEF Sound
  <2> QED
    BY <1>1, <2>1 DEF Sound
<1> HIDE DEF new
<1> QED
  BY <1>2, <1>3, <1>4, ProducerSteps

-----------------------------------------------------------------------------
(* The consumer *)

LEMMA PopperType ==
  ASSUME FanInParameters, TypeInv
  PROVE  /\ popper.at \in Int /\ 0 <= popper.at /\ popper.at < Producers
         /\ popper.tries \in Int /\ 0 <= popper.tries /\ popper.tries < Producers
         /\ popper.n \in Nat /\ popper.want \in Nat /\ popper.out \in Seq(Nat)
         /\ Producers \in Nat \ {0}
BY DEF FanInParameters, TypeInv, Lanes

LEMMA DistanceRange ==
  ASSUME FanInParameters, TypeInv, NEW p \in Lanes
  PROVE  Distance(p) \in Nat /\ Distance(p) < Producers
<1>1. p \in Int /\ 0 <= p /\ p < Producers
  BY DEF FanInParameters, Lanes
<1> QED
  BY <1>1, PopperType DEF Distance

LEMMA DistanceApart ==
  ASSUME FanInParameters, TypeInv, NEW p \in Lanes, NEW q \in Lanes, Distance(p) = Distance(q)
  PROVE  p = q
<1>1. p \in Int /\ 0 <= p /\ p < Producers /\ q \in Int /\ 0 <= q /\ q < Producers
  BY DEF FanInParameters, Lanes
<1> QED
  BY <1>1, PopperType DEF Distance

LEMMA PopBeginSteps ==
  ASSUME FanInParameters, FanInInv, NEW count \in BatchSizes, PopBegin(count)
  PROVE  FanInInv'
<1> USE DEF FanInInv
<1>1. /\ UNCHANGED <<lane, pushing, got, passed>>
      /\ popper' = [popper EXCEPT !.pc = "look", !.tries = 0, !.want = count]
      /\ count \in Nat \ {0}
  BY DEF PopBegin, FanInParameters
<1>2. /\ popper'.pc = "look" /\ popper'.at = popper.at /\ popper'.tries = 0 /\ popper'.want = count
  BY <1>1 DEF TypeInv
<1>3. 0 \in Lanes
  BY DEF FanInParameters, Lanes
<1>4. TypeInv'
  BY <1>1, <1>3 DEF TypeInv
<1>5. LaneInv' /\ GotInv'
  BY <1>1 DEF LaneInv, GotInv
<1>6. PopInv'
  BY <1>1, <1>2 DEF PopInv
<1>7. TurnInv'
  <2> SUFFICES ASSUME NEW p \in Lanes, passed[p] > 0
               PROVE  /\ lane[p].tail < lane[p].head /\ 0 <= Distance(p)
                      /\ passed[p] + Distance(p) <= Producers
    BY <1>1, <1>2 DEF TurnInv, Distance
  <2> QED
    BY DistanceRange DEF TurnInv
<1> QED
  BY <1>4, <1>5, <1>6, <1>7

LEMMA PopLookSteps ==
  ASSUME FanInParameters, FanInInv, PopLook
  PROVE  FanInInv'
<1> USE DEF FanInInv
<1> DEFINE q    == Serving
           l    == lane[q]
           seen == IF l.chead - l.tail < popper.want THEN l.head ELSE l.chead
           n    == Smaller(popper.want, seen - l.tail)
           new  == [l EXCEPT !.chead = seen]
<1>1. /\ q \in Lanes /\ l \in Ring /\ pushing[q] \in Nat
      /\ l.head \in Nat /\ l.tail \in Nat /\ l.chead \in Nat /\ l.ptail \in Nat
      /\ Sound(l, pushing[q]) /\ popper.want \in Nat \ {0}
  BY LaneType, ServingAt, PopperType DEF LaneInv, PopLook, PopInv
<1>2. /\ popper.pc = "look"
      /\ lane' = [lane EXCEPT ![q] = new]
      /\ popper' = IF n > 0 THEN [popper EXCEPT !.pc = "copy", !.n = n]
                   ELSE IF popper.tries + 1 < Producers THEN [popper EXCEPT !.tries = @ + 1]
                   ELSE [Idle EXCEPT !.at = popper.at]
      /\ UNCHANGED <<pushing, got, passed>>
  BY DEF PopLook, Serving
<1>3. seen \in Nat /\ l.tail <= l.chead /\ l.chead <= seen /\ seen <= l.head
  BY <1>1 DEF Sound
<1>4. n \in Nat /\ l.tail + n <= seen /\ (n = 0 => l.tail = l.head)
  <2>1. seen - l.tail \in Nat
    BY <1>1, <1>3
  <2>2. n \in {popper.want, seen - l.tail} /\ n <= seen - l.tail
    <3>1. popper.want \in Int /\ seen - l.tail \in Int
      BY <1>1, <2>1
    <3> HIDE DEF l, seen
    <3> QED
      BY <3>1, SmallerOf
  <2>3. CASE n = popper.want
    <3> HIDE DEF n, seen
    <3> QED
      BY <1>1, <1>3, <2>1, <2>2, <2>3
  <2>4. CASE n = seen - l.tail
    <3>1. seen = l.tail => l.tail = l.head
      BY <1>1, <1>3
    <3> HIDE DEF n, seen
    <3> QED
      BY <1>1, <1>3, <2>1, <2>4, <3>1
  <2> QED
    BY <2>2, <2>3, <2>4
<1>5. /\ new \in Ring /\ new.chead = seen /\ new.head = l.head /\ new.tail = l.tail
      /\ new.ptail = l.ptail /\ new.buf = l.buf
  BY <1>1, <1>3 DEF Ring
<1>6. \A p \in Lanes : lane'[p] = IF p = q THEN new ELSE lane[p]
  BY <1>2 DEF TypeInv
<1> HIDE DEF seen, n, new
<1>7. Sound(new, pushing[q])
  BY <1>1, <1>3, <1>5 DEF Sound
<1>8. \A p \in Lanes : lane'[p].tail = lane[p].tail /\ lane'[p].head = lane[p].head
  BY <1>5, <1>6
<1>9. LaneInv'
  BY <1>2, <1>6, <1>7 DEF LaneInv
<1>10. GotInv'
  BY <1>2, <1>8 DEF GotInv
<1>11. lane' \in [Lanes -> Ring]
  BY <1>1, <1>2, <1>5 DEF TypeInv
<1>12. CASE n > 0
  <2>1. popper' = [popper EXCEPT !.pc = "copy", !.n = n]
    BY <1>2, <1>12
  <2>2. /\ popper'.pc = "copy" /\ popper'.at = popper.at /\ popper'.tries = popper.tries
        /\ popper'.n = n
    BY <2>1 DEF TypeInv
  <2>3. TypeInv'
    BY <1>2, <1>4, <1>11, <2>1 DEF TypeInv
  <2>4. Serving' = q
    BY <2>2 DEF Serving
  <2>5. lane'[q].tail + n <= lane'[q].chead
    BY <1>1, <1>4, <1>5, <1>6
  <2>6. PopInv'
    BY <2>2, <2>4, <2>5 DEF PopInv
  <2>7. TurnInv'
    BY <1>2, <1>8, <2>2 DEF TurnInv, Distance
  <2> QED
    BY <1>9, <1>10, <2>3, <2>6, <2>7
<1>13. CASE n = 0 /\ popper.tries + 1 < Producers
  <2>1. popper' = [popper EXCEPT !.tries = @ + 1]
    BY <1>2, <1>13
  <2>2. /\ popper'.pc = "look" /\ popper'.at = popper.at /\ popper'.tries = popper.tries + 1
        /\ popper'.want = popper.want
    BY <1>2, <2>1 DEF TypeInv
  <2>3. popper.tries + 1 \in Lanes
    BY <1>13, PopperType DEF Lanes
  <2>4. TypeInv'
    BY <1>2, <1>11, <2>1, <2>3 DEF TypeInv
  <2>5. PopInv'
    BY <1>1, <2>2 DEF PopInv
  <2>6. TurnInv'
    <3> SUFFICES ASSUME NEW p \in Lanes, passed[p] > 0
                 PROVE  /\ lane[p].tail < lane[p].head /\ popper.tries + 1 <= Distance(p)
                        /\ passed[p] + Distance(p) <= Producers
      BY <1>2, <1>8, <2>2 DEF TurnInv, Distance
    <3>1. /\ lane[p].tail < lane[p].head /\ popper.tries <= Distance(p)
          /\ passed[p] + Distance(p) <= Producers
      BY DEF TurnInv
    <3>2. p # q
      BY <1>1, <1>4, <1>13, <3>1
    <3>3. Distance(p) # popper.tries
      BY <1>1, <3>2, DistanceApart, ServingAt
    <3> HIDE DEF FanInInv
    <3> QED
      BY <3>1, <3>3, DistanceRange, PopperType DEF FanInInv
  <2> QED
    BY <1>9, <1>10, <2>4, <2>5, <2>6
<1>14. CASE n = 0 /\ ~(popper.tries + 1 < Producers)
  <2>1. popper' = [Idle EXCEPT !.at = popper.at]
    BY <1>2, <1>14
  <2>2. popper'.pc = "idle" /\ popper'.at = popper.at /\ popper'.tries = 0
    BY <2>1 DEF Idle
  <2>3. TypeInv'
    <3>1. 0 \in Lanes /\ <<>> \in Seq(Nat) /\ popper.at \in Lanes
      BY DEF FanInParameters, Lanes, TypeInv
    <3> QED
      <4>1. popper' = [pc |-> "idle", at |-> popper.at, tries |-> 0, n |-> 0, out |-> <<>>, want |-> 0]
        BY <2>1 DEF Idle
      <4>2. popper' \in [pc : {"idle", "look", "copy", "store"}, at : Lanes, tries : Lanes, n : Nat,
                         out : Seq(Nat), want : Nat]
        <5> HIDE DEF FanInInv
        <5> QED
          BY <3>1, <4>1
      <4>3. UNCHANGED <<pushing, got, passed>>
        BY <1>2
      <4> QED
        BY <1>11, <4>2, <4>3 DEF TypeInv
  <2>4. PopInv'
    BY <2>2 DEF PopInv
  <2>5. TurnInv'
    <3> SUFFICES ASSUME NEW p \in Lanes, passed[p] > 0
                 PROVE  /\ lane[p].tail < lane[p].head /\ 0 <= Distance(p)
                        /\ passed[p] + Distance(p) <= Producers
      BY <1>2, <1>8, <2>2 DEF TurnInv, Distance
    <3> QED
      BY DistanceRange DEF TurnInv
  <2> QED
    BY <1>9, <1>10, <2>3, <2>4, <2>5
<1> QED
  BY <1>4, <1>12, <1>13, <1>14

LEMMA PopCopySteps ==
  ASSUME FanInParameters, FanInInv, PopCopy
  PROVE  FanInInv'
<1> USE DEF FanInInv
<1> DEFINE l   == lane[Serving]
           out == [i \in 1 .. popper.n |-> l.buf[(l.tail + i - 1) % LaneCapacity]]
<1>1. /\ popper.pc = "copy" /\ UNCHANGED <<lane, pushing, got, passed>>
      /\ popper' = [popper EXCEPT !.pc = "store", !.out = out]
  BY DEF PopCopy
<1>2. /\ Serving \in Lanes /\ popper.n \in Nat /\ pushing[Serving] \in Nat
      /\ l.head \in Nat /\ l.tail \in Nat /\ l.chead \in Nat
      /\ Sound(l, pushing[Serving]) /\ l.tail + popper.n <= l.chead
  BY <1>1, LaneType, ServingAt, PopperType DEF LaneInv, PopInv
<1>3. \A i \in 1 .. popper.n : l.buf[(l.tail + i - 1) % LaneCapacity] = l.tail + i
  <2> SUFFICES ASSUME NEW i \in 1 .. popper.n
               PROVE  l.buf[(l.tail + i - 1) % LaneCapacity] = l.tail + i
    OBVIOUS
  <2>1. /\ i \in Int /\ 1 <= i /\ i <= popper.n /\ l.chead <= l.head
    BY <1>2 DEF Sound
  <2>2. /\ l.tail + i \in Nat /\ l.tail < l.tail + i /\ l.tail + i <= l.head + pushing[Serving]
    BY <1>2, <2>1
  <2>3. l.buf[Cell((l.tail + i) - 1)] = l.tail + i
    BY <1>2, <2>2 DEF Sound
  <2> QED
    <3>1. (l.tail + i) - 1 = l.tail + i - 1
      BY <1>2, <2>1
    <3>2. Cell(l.tail + i - 1) = (l.tail + i - 1) % LaneCapacity
      BY DEF Cell
    <3> HIDE DEF l
    <3> QED
      BY <2>3, <3>1, <3>2
<1>4. out = [i \in 1 .. popper.n |-> l.tail + i]
  BY <1>3
<1>5. out \in Seq(Nat)
  <2>1. out \in [1 .. popper.n -> Nat]
    BY <1>2, <1>4
  <2> QED
    BY <1>2, <2>1, FunctionFacts
<1> HIDE DEF out
<1>6. /\ popper'.pc = "store" /\ popper'.at = popper.at /\ popper'.tries = popper.tries
      /\ popper'.n = popper.n /\ popper'.out = out
  BY <1>1 DEF TypeInv
<1>7. TypeInv'
  BY <1>1, <1>5 DEF TypeInv
<1>8. LaneInv' /\ GotInv'
  BY <1>1 DEF LaneInv, GotInv
<1>9. PopInv'
  <2>1. Serving' = Serving
    BY <1>6 DEF Serving
  <2> QED
    BY <1>1, <1>2, <1>4, <1>6, <2>1 DEF PopInv
<1>10. TurnInv'
  BY <1>1, <1>6 DEF TurnInv, Distance
<1> QED
  BY <1>7, <1>8, <1>9, <1>10

\* the items delivered so far and the next ones
LEMMA Appended ==
  ASSUME NEW t \in Nat, NEW n \in Nat
  PROVE  [i \in 1 .. t |-> i] \o [i \in 1 .. n |-> t + i] = [i \in 1 .. t + n |-> i]
<1> DEFINE a == [i \in 1 .. t |-> i]
           b == [i \in 1 .. n |-> t + i]
<1>1. a \in Seq(Nat) /\ Len(a) = t
  <2>1. a \in [1 .. t -> Nat]
    OBVIOUS
  <2> QED
    BY <2>1, FunctionFacts
<1>2. b \in Seq(Nat) /\ Len(b) = n
  <2>1. b \in [1 .. n -> Nat]
    OBVIOUS
  <2> QED
    BY <2>1, FunctionFacts
<1>3. a \o b \in Seq(Nat) /\ Len(a \o b) = t + n
  BY <1>1, <1>2
<1>4. \A i \in 1 .. t + n : (a \o b)[i] = i
  <2> SUFFICES ASSUME NEW i \in 1 .. t + n PROVE (a \o b)[i] = i
    OBVIOUS
  <2>1. (a \o b)[i] = IF i <= t THEN a[i] ELSE b[i - t]
    BY <1>1, <1>2
  <2> QED
    BY <2>1
<1>5. a \o b = [i \in 1 .. t + n |-> (a \o b)[i]]
  BY <1>3
<1> QED
  BY <1>4, <1>5

\* where the next poll begins and how far it is from there
LEMMA NextTurn ==
  ASSUME FanInParameters, TypeInv, popper'.at = (Serving + 1) % Producers
  PROVE  /\ popper'.at \in Lanes
         /\ \A p \in Lanes : Distance(p)' \in Nat /\ Distance(p)' < Producers
         /\ \A p \in Lanes : Distance(p) > popper.tries =>
              Distance(p)' = Distance(p) - popper.tries - 1
<1> DEFINE s == Serving
           a == popper'.at
<1>1. /\ s \in Int /\ 0 <= s /\ s < Producers
      /\ s = IF popper.at + popper.tries < Producers THEN popper.at + popper.tries
             ELSE popper.at + popper.tries - Producers
  BY ServingAt DEF Lanes, FanInParameters
<1>2. Producers \in Nat \ {0}
  BY DEF FanInParameters
<1>3. a = IF s + 1 < Producers THEN s + 1 ELSE 0
  <2>1. s + 1 \in Nat /\ s + 1 < Producers + Producers
    BY <1>1, <1>2
  <2> DEFINE k == s + 1
  <2>2. k % Producers = IF k < Producers THEN k ELSE k - Producers
    <3> HIDE DEF k
    <3> QED
      BY <1>2, <2>1, ModOnce DEF k
  <2>3. a = k % Producers
    OBVIOUS
  <2> HIDE DEF a, s
  <2> QED
    BY <1>1, <1>2, <2>2, <2>3
<1>4. a \in Int /\ 0 <= a /\ a < Producers
  <2> HIDE DEF a, s
  <2> QED
    BY <1>1, <1>2, <1>3
<1>5. ASSUME NEW p \in Lanes
      PROVE  /\ Distance(p)' \in Nat /\ Distance(p)' < Producers
             /\ Distance(p) > popper.tries => Distance(p)' = Distance(p) - popper.tries - 1
  <2>1. p \in Int /\ 0 <= p /\ p < Producers
    BY <1>2 DEF Lanes
  <2>2. Distance(p)' = IF p >= a THEN p - a ELSE p - a + Producers
    BY DEF Distance
  <2>3. Distance(p) = IF p >= popper.at THEN p - popper.at ELSE p - popper.at + Producers
    BY DEF Distance
  <2>4. /\ popper.at \in Int /\ 0 <= popper.at /\ popper.at < Producers
        /\ popper.tries \in Int /\ 0 <= popper.tries /\ popper.tries < Producers
    BY PopperType
  <2> DEFINE d == Distance(p)'
             e == Distance(p)
             at == popper.at
             tr == popper.tries
  <2>5. /\ d = IF p >= a THEN p - a ELSE p - a + Producers
        /\ e = IF p >= at THEN p - at ELSE p - at + Producers
        /\ at \in Int /\ 0 <= at /\ at < Producers
        /\ tr \in Int /\ 0 <= tr /\ tr < Producers
        /\ s = IF at + tr < Producers THEN at + tr ELSE at + tr - Producers
    BY <1>1, <2>2, <2>3, <2>4
  <2> HIDE DEF a, s, d, e, at, tr
  <2>6. d \in Nat /\ d < Producers
    BY <1>2, <1>4, <2>1, <2>5
  <2>7. e > tr => d = e - tr - 1
    BY <1>1, <1>2, <1>3, <1>4, <2>1, <2>5
  <2> QED
    BY <2>6, <2>7 DEF d, e, tr
<1>6. a \in Lanes
  BY <1>2, <1>4 DEF Lanes
<1> QED
  BY <1>5, <1>6

LEMMA PopStoreSteps ==
  ASSUME FanInParameters, FanInInv, PopStore
  PROVE  FanInInv'
<1> USE DEF FanInInv
<1> DEFINE q    == Serving
           l    == lane[q]
           n    == popper.n
           new  == [l EXCEPT !.tail = l.tail + n]
<1>1. /\ q \in Lanes /\ l \in Ring /\ pushing[q] \in Nat /\ n \in Nat
      /\ l.head \in Nat /\ l.tail \in Nat /\ l.chead \in Nat /\ l.ptail \in Nat
      /\ Sound(l, pushing[q])
  BY LaneType, ServingAt, PopperType DEF LaneInv
<1>2. /\ popper.pc = "store"
      /\ lane' = [lane EXCEPT ![q] = new]
      /\ got' = [got EXCEPT ![q] = @ \o popper.out]
      /\ passed' = [p \in Lanes |-> IF p = q \/ lane[p].head = lane[p].tail THEN 0 ELSE passed[p] + 1]
      /\ popper' = [Idle EXCEPT !.at = (q + 1) % Producers]
      /\ pushing' = pushing
  BY DEF PopStore
<1>3. /\ l.tail + n <= l.chead /\ popper.out = [i \in 1 .. n |-> l.tail + i]
  BY <1>2 DEF PopInv
<1>4. /\ popper'.pc = "idle" /\ popper'.at = (q + 1) % Producers /\ popper'.tries = 0
  BY <1>2 DEF Idle
<1>5. /\ new \in Ring /\ new.tail = l.tail + n /\ new.head = l.head
      /\ new.chead = l.chead /\ new.ptail = l.ptail /\ new.buf = l.buf
  BY <1>1 DEF Ring
<1>6. \A p \in Lanes : lane'[p] = IF p = q THEN new ELSE lane[p]
  BY <1>2 DEF TypeInv
<1> HIDE DEF new
<1>7. Sound(new, pushing[q])
  <2>1. /\ l.ptail <= l.tail + n /\ l.tail + n <= l.chead /\ l.chead <= l.head
        /\ l.head + pushing[q] <= l.ptail + LaneCapacity
    BY <1>1, <1>3 DEF Sound
  <2>2. ASSUME NEW v \in Nat, l.tail + n < v, v <= l.head + pushing[q]
        PROVE  l.buf[Cell(v - 1)] = v
    <3>1. l.tail < v
      BY <1>1, <2>2
    <3> QED
      BY <1>1, <2>2, <3>1 DEF Sound
  <2> QED
    BY <1>5, <2>1, <2>2 DEF Sound
<1>8. LaneInv'
  BY <1>2, <1>6, <1>7 DEF LaneInv
<1>9. got[q] \o popper.out = [i \in 1 .. l.tail + n |-> i]
  <2>1. got[q] = [i \in 1 .. l.tail |-> i]
    BY <1>1 DEF GotInv
  <2>2. l.tail \in Nat /\ n \in Nat
    BY <1>1
  <2> HIDE DEF n, l
  <2> QED
    BY <1>3, <2>1, <2>2, Appended
<1>10. GotInv'
  <2> SUFFICES ASSUME NEW p \in Lanes PROVE got'[p] = [i \in 1 .. lane'[p].tail |-> i]
    BY DEF GotInv
  <2>1. CASE p = q
    <3>1. got'[p] = got[q] \o popper.out
      BY <1>2, <2>1 DEF TypeInv
    <3>2. lane'[p].tail = l.tail + n
      BY <1>5, <1>6, <2>1
    <3> QED
      BY <1>9, <3>1, <3>2
  <2>2. CASE p # q
    <3>1. got'[p] = got[p] /\ lane'[p] = lane[p]
      BY <1>2, <1>6, <2>2 DEF TypeInv
    <3> QED
      BY <3>1 DEF GotInv
  <2> QED
    BY <2>1, <2>2
<1>11. TypeInv'
  <2>1. lane' \in [Lanes -> Ring]
    BY <1>1, <1>2, <1>5 DEF TypeInv
  <2>2. passed' \in [Lanes -> Nat]
    BY <1>2 DEF TypeInv
  <2>3. got' \in [Lanes -> Seq(Nat)]
    <3>1. got[q] \o popper.out \in Seq(Nat)
      BY <1>1, PopperType DEF TypeInv
    <3> QED
      BY <1>1, <1>2, <3>1 DEF TypeInv
  <2>4. popper' \in [pc : {"idle", "look", "copy", "store"}, at : Lanes, tries : Lanes, n : Nat,
                     out : Seq(Nat), want : Nat]
    <3>1. 0 \in Lanes /\ <<>> \in Seq(Nat)
      BY DEF FanInParameters, Lanes
    <3>2. (q + 1) % Producers \in Lanes
      BY <1>4, NextTurn
    <3> QED
      BY <1>2, <3>1, <3>2 DEF Idle
  <2>5. pushing' \in [Lanes -> Nat]
    BY <1>2 DEF TypeInv
  <2> QED
    BY <2>1, <2>2, <2>3, <2>4, <2>5 DEF TypeInv
<1>12. PopInv'
  BY <1>4 DEF PopInv
<1>13. TurnInv'
  <2> SUFFICES ASSUME NEW p \in Lanes, passed'[p] > 0
               PROVE  /\ lane'[p].tail < lane'[p].head /\ popper'.tries <= Distance(p)'
                      /\ passed'[p] + Distance(p)' <= Producers
    BY DEF TurnInv
  <2>1. p # q /\ lane[p].head # lane[p].tail /\ passed'[p] = passed[p] + 1
    BY <1>2
  <2>2. lane'[p] = lane[p]
    BY <1>6, <2>1
  <2>3. lane[p].tail < lane[p].head
    <3>1. /\ lane[p].tail \in Nat /\ lane[p].head \in Nat /\ lane[p].chead \in Nat
          /\ lane[p].tail <= lane[p].chead /\ lane[p].chead <= lane[p].head
      BY LaneType DEF LaneInv, Sound
    <3> QED
      BY <2>1, <3>1
  <2>4. /\ Distance(p)' \in Nat /\ Distance(p)' < Producers
        /\ Distance(p) > popper.tries => Distance(p)' = Distance(p) - popper.tries - 1
    BY <1>4, NextTurn
  <2>5. /\ passed[p] \in Nat /\ popper.tries \in Nat /\ Distance(p) \in Nat /\ Producers \in Nat
    <3>1. passed[p] \in Nat
      BY DEF TypeInv
    <3> QED
      BY <3>1, PopperType, DistanceRange
  <2>6. CASE passed[p] = 0
    <3>1. passed'[p] = 1 /\ popper'.tries = 0
      BY <1>4, <2>1, <2>6
    <3> DEFINE d == Distance(p)'
    <3>2. d \in Nat /\ d < Producers
      BY <2>4
    <3> HIDE DEF d
    <3>3. 0 <= d /\ 1 + d <= Producers
      BY <2>5, <3>2
    <3> QED
      BY <2>2, <2>3, <3>1, <3>3 DEF d
  <2>7. CASE passed[p] > 0
    <3>1. popper.tries <= Distance(p) /\ passed[p] + Distance(p) <= Producers
      BY <2>7 DEF TurnInv
    <3>2. Distance(p) # popper.tries
      BY <1>1, <2>1, DistanceApart, ServingAt
    <3> DEFINE d == Distance(p)'
               e == Distance(p)
    <3>3. /\ d \in Nat /\ e \in Nat /\ popper.tries <= e /\ passed[p] + e <= Producers
          /\ e # popper.tries /\ (e > popper.tries => d = e - popper.tries - 1)
      BY <2>4, <2>5, <3>1, <3>2
    <3> HIDE DEF d, e
    <3>4. (passed[p] + 1) + d <= Producers /\ 0 <= d
      BY <2>5, <3>3
    <3> QED
      BY <1>4, <2>1, <2>2, <2>3, <3>4 DEF d
  <2> QED
    BY <2>5, <2>6, <2>7
<1> QED
  BY <1>8, <1>10, <1>11, <1>12, <1>13

LEMMA ResetSteps ==
  ASSUME FanInParameters, FanInInv, Reset
  PROVE  FanInInv'
<1> USE DEF FanInInv
<1>1. /\ lane' = [p \in Lanes |-> [EmptyLane EXCEPT !.buf = lane[p].buf]]
      /\ popper' = Idle /\ got' = [p \in Lanes |-> <<>>] /\ passed' = [p \in Lanes |-> 0]
      /\ pushing' = pushing /\ \A p \in Lanes : pushing[p] = 0
  BY DEF Reset
<1>2. ASSUME NEW p \in Lanes
      PROVE  /\ lane'[p] \in Ring
             /\ lane'[p].head = 0 /\ lane'[p].tail = 0 /\ lane'[p].ptail = 0 /\ lane'[p].chead = 0
  BY <1>1, LaneType DEF EmptyLane, Ring
<1>3. TypeInv'
  <2>1. 0 \in Lanes /\ <<>> \in Seq(Nat)
    BY DEF FanInParameters, Lanes
  <2>2. lane' \in [Lanes -> Ring]
    BY <1>1, <1>2
  <2> QED
    BY <1>1, <2>1, <2>2 DEF TypeInv, Idle
<1>4. LaneInv'
  <2> SUFFICES ASSUME NEW p \in Lanes PROVE Sound(lane'[p], 0)
    BY <1>1 DEF LaneInv
  <2>1. LaneCapacity \in Nat
    BY DEF FanInParameters
  <2>2. \A v \in Nat : ~(0 < v /\ v <= 0 + 0)
    OBVIOUS
  <2> QED
    BY <1>2, <2>1, <2>2 DEF Sound
<1>5. PopInv'
  BY <1>1 DEF PopInv, Idle
<1>6. GotInv'
  <2> SUFFICES ASSUME NEW p \in Lanes PROVE got'[p] = [i \in 1 .. lane'[p].tail |-> i]
    BY DEF GotInv
  <2>1. got'[p] = <<>> /\ lane'[p].tail = 0
    BY <1>1, <1>2
  <2> QED
    BY <2>1
<1>7. TurnInv'
  BY <1>1 DEF TurnInv
<1> QED
  BY <1>3, <1>4, <1>5, <1>6, <1>7

-----------------------------------------------------------------------------
(* The theorem *)

LEMMA InitInv ==
  ASSUME FanInParameters, FIInit
  PROVE  FanInInv
<1> USE DEF FIInit
<1>1. 0 \in Lanes /\ <<>> \in Seq(Nat) /\ LaneCapacity \in Nat
  BY DEF FanInParameters, Lanes
<1>2. EmptyLane \in Ring
  BY DEF EmptyLane, Ring, NoItem
<1>3. TypeInv
  BY <1>1, <1>2 DEF TypeInv, Idle
<1>4. LaneInv
  <2> SUFFICES ASSUME NEW p \in Lanes PROVE Sound(EmptyLane, 0)
    BY DEF LaneInv
  <2>1. \A v \in Nat : ~(0 < v /\ v <= 0 + 0)
    OBVIOUS
  <2> QED
    BY <1>1, <2>1 DEF Sound, EmptyLane
<1>5. PopInv
  BY DEF PopInv, Idle
<1>6. GotInv
  <2> SUFFICES ASSUME NEW p \in Lanes PROVE got[p] = [i \in 1 .. lane[p].tail |-> i]
    BY DEF GotInv
  <2>1. got[p] = <<>> /\ lane[p].tail = 0
    BY DEF EmptyLane
  <2> QED
    BY <2>1
<1>7. TurnInv
  BY DEF TurnInv
<1> QED
  BY <1>3, <1>4, <1>5, <1>6, <1>7 DEF FanInInv

LEMMA NextInv ==
  ASSUME FanInParameters, FanInInv, [FINext]_fiVars
  PROVE  FanInInv'
<1>1. CASE UNCHANGED fiVars
  BY <1>1 DEF fiVars, FanInInv, TypeInv, LaneInv, PopInv, GotInv, TurnInv, Distance, Serving
<1>2. CASE \E p \in Lanes : PushPublish(p)
  BY <1>2, PushPublishSteps
<1>3. CASE \E p \in Lanes : \E c \in BatchSizes : PushCopy(p, c)
  BY <1>3, PushCopySteps
<1>4. CASE \E c \in BatchSizes : PopBegin(c)
  BY <1>4, PopBeginSteps
<1>5. CASE PopLook
  BY <1>5, PopLookSteps
<1>6. CASE PopCopy
  BY <1>6, PopCopySteps
<1>7. CASE PopStore
  BY <1>7, PopStoreSteps
<1>8. CASE Reset
  BY <1>8, ResetSteps
<1> QED
  BY <1>1, <1>2, <1>3, <1>4, <1>5, <1>6, <1>7, <1>8 DEF FINext

LEMMA InvImplies ==
  ASSUME FanInParameters, FanInInv
  PROVE  FanInFaithful
<1>1. InOrder
  BY DEF FanInInv, GotInv, InOrder
<1>2. CachesBehind
  BY DEF FanInInv, LaneInv, Sound, CachesBehind
<1>3. FairTurns
  <2> SUFFICES ASSUME NEW p \in Lanes PROVE passed[p] <= Producers
    BY DEF FairTurns
  <2>1. passed[p] \in Nat /\ Distance(p) \in Nat /\ Producers \in Nat
    BY DistanceRange DEF FanInInv, TypeInv, FanInParameters
  <2>2. passed[p] > 0 => passed[p] + Distance(p) <= Producers
    BY DEF FanInInv, TurnInv
  <2> QED
    BY <2>1, <2>2
<1> QED
  BY <1>1, <1>2, <1>3 DEF FanInFaithful

\* Every lane hands over what was pushed to it, once and in order, the cached
\* counters stay behind the real ones, a push never reaches an item that is not
\* read, and a lane with something to read is passed over by at most one pop of
\* every lane (spsc_ring.hpp's push_batch and pop_batch, spsc_fan_in.hpp's
\* polling), for any number of lanes, any capacity and any batch sizes.
THEOREM FanInSafe == FanInParameters => (FISpec => []FanInFaithful)
<1> SUFFICES ASSUME FanInParameters PROVE FISpec => []FanInFaithful
  OBVIOUS
<1>1. FIInit => FanInInv
  BY InitInv
<1>2. FanInInv /\ [FINext]_fiVars => FanInInv'
  BY NextInv
<1>3. FanInInv => FanInFaithful
  BY InvImplies
<1> QED
  BY <1>1, <1>2, <1>3, PTL DEF FISpec

-----------------------------------------------------------------------------
(* SeqRings: the invariant *)

\* Capacity >= 2 is a static assertion of MpmcQueue; Queueing is finite, so
\* that the bound of the model is a number.
SeqRingParameters ==
  /\ IsFiniteSet(Queueing) /\ PushesEach \in Nat
  /\ RingCapacity \in Nat /\ RingCapacity >= 2
  /\ RingKinds \subseteq {"mpmc", "mpsc"}

Holding   == {"fill", "publish"}
Producing == Holding \cup {"check", "claim", "full", "reload"}
Taking    == {"read", "release", "advance"}
Threads == Queueing \cup Dequeuing

Items == Queueing \X Nat
Data  == Items \cup {NoData}

SeqOf(p)  == cell[SlotAt(p)].seq
DataOf(p) == cell[SlotAt(p)].data

SeqRingTypes ==
  /\ kind \in {"mpmc", "mpsc"} /\ enq \in Nat /\ deq \in Nat
  /\ cell \in [RingSlots -> [seq : Nat, data : Data]]
  /\ rt \in [Threads -> [pc : {"idle"} \cup Producing \cup Taking, pos : Nat, item : Data]]
  /\ sent \in [Queueing -> Nat]
  /\ taken \in [Dequeuing -> Seq(Items)]

\* A thread is at steps of its own end and of this kind of ring; a claimed
\* position is claimed by one thread at each end, and an MpscRing is popped by
\* one thread only.
RoleOf(t) ==
  /\ rt[t].pc \in Producing => t \in Queueing
  /\ rt[t].pc \in Taking => t \in Dequeuing
  /\ kind = "mpmc" => rt[t].pc \in {"idle"} \cup Holding \cup {"read", "release"}
  /\ rt[t].pc \in Holding => rt[t].pos < enq
  /\ rt[t].pc \in {"check", "claim"} => rt[t].pos <= enq /\ rt[t].item = <<t, sent[t] + 1>>
  /\ rt[t].pc \in Taking => IF kind = "mpmc" THEN rt[t].pos < deq
                            ELSE rt[t].pos = deq /\ t = CHOOSE d \in Dequeuing : TRUE

Apart(t, u) ==
  (t # u /\ ({rt[t].pc, rt[u].pc} \subseteq Holding \/ {rt[t].pc, rt[u].pc} \subseteq Taking))
    => rt[t].pos # rt[u].pos

RoleInv == (\A t \in Threads : RoleOf(t)) /\ (\A t, u \in Threads : Apart(t, u))

\* What the sequence number of a slot says to the thread at its position, and
\* of positions not claimed or given back.
SeqAt(t) ==
  /\ rt[t].pc = "fill" => SeqOf(rt[t].pos) <= rt[t].pos
  /\ rt[t].pc = "publish" => SeqOf(rt[t].pos) = rt[t].pos /\ DataOf(rt[t].pos) = rt[t].item
  /\ rt[t].pc = "release" => SeqOf(rt[t].pos) = rt[t].pos + 1
  /\ kind = "mpsc" =>
       /\ rt[t].pc = "fill" => SeqOf(rt[t].pos) = rt[t].pos
       /\ rt[t].pc = "claim" /\ rt[t].pos = enq => SeqOf(rt[t].pos) = rt[t].pos
       /\ rt[t].pc = "read" => SeqOf(rt[t].pos) = rt[t].pos + 1
       /\ rt[t].pc = "advance" => SeqOf(rt[t].pos) >= rt[t].pos + RingCapacity

SeqInv ==
  /\ \A t \in Threads : SeqAt(t)
  /\ \A p \in Nat : p >= enq => SeqOf(p) <= p
  /\ \A p \in Nat : SlotAt(p) <= SeqOf(p)
  /\ kind = "mpsc" => \A p \in Nat : p < deq => SeqOf(p) >= p + RingCapacity

\* item x has position p: its producer is about to fill or publish the slot, or the slot
\* is published and nobody has read it
InFlight(p, x) ==
  \/ \E t \in Queueing : rt[t].pc \in Holding /\ rt[t].pos = p /\ rt[t].item = x
  \/ /\ SeqOf(p) = p + 1 /\ DataOf(p) = x
     /\ \A t \in Dequeuing : ~(rt[t].pc = "release" /\ rt[t].pos = p)

\* Items in flight are in their producer's order along the positions.
FlightInv ==
  /\ \A p \in Nat, x \in Data : InFlight(p, x) =>
       p < enq /\ x \in Items /\ x[2] <= sent[x[1]]
  /\ \A p, q \in Nat, x, y \in Data : InFlight(p, x) /\ InFlight(q, y) =>
       /\ p = q => x = y
       /\ p < q /\ x[1] = y[1] => x[2] < y[2]

\* a position that thread t may still read
Ahead(t, p) == p >= deq \/ (rt[t].pc = "read" /\ rt[t].pos = p)

TakenInv ==
  /\ \A t \in Dequeuing : \A i \in DOMAIN taken[t] :
       /\ taken[t][i][2] <= sent[taken[t][i][1]]
       /\ \A j \in DOMAIN taken[t] : i < j /\ taken[t][i][1] = taken[t][j][1] => taken[t][i][2] < taken[t][j][2]
       /\ \A p \in Nat, x \in Data : InFlight(p, x) =>
            /\ taken[t][i] # x
            /\ Ahead(t, p) /\ taken[t][i][1] = x[1] => taken[t][i][2] < x[2]
  /\ \A t, u \in Dequeuing : t # u =>
       \A i \in DOMAIN taken[t], j \in DOMAIN taken[u] : taken[t][i] # taken[u][j]

SeqRingInv == SeqRingTypes /\ RoleInv /\ SeqInv /\ FlightInv /\ TakenInv

-----------------------------------------------------------------------------
(* Slots and steps *)

\* positions a lap apart share a slot
LEMMA ModLap ==
  ASSUME NEW m \in Nat \ {0}, NEW n \in Nat
  PROVE  (n + m) % m = n % m
<1> DEFINE j == n \div m
           k == (n + m) \div m
<1>1. /\ j \in Nat /\ k \in Nat /\ n % m \in 0 .. m - 1 /\ (n + m) % m \in 0 .. m - 1
      /\ n = m * j + (n % m) /\ n + m = m * k + ((n + m) % m)
  BY DivMod, n + m \in Nat
<1> HIDE DEF j, k
<1>2. m * (j + 1) = m * j + m
  BY <1>1
<1>3. CASE k < j + 1
  <2>1. m * (k + 1) <= m * (j + 1) /\ m * (k + 1) = m * k + m
    BY <1>1, <1>3
  <2> QED
    BY <1>1, <1>2, <2>1
<1>4. CASE k > j + 1
  <2>1. m * (j + 2) <= m * k /\ m * (j + 2) = m * j + m + m
    BY <1>1, <1>4
  <2> QED
    BY <1>1, <1>2, <2>1
<1>5. CASE k = j + 1
  BY <1>1, <1>2, <1>5
<1> QED
  BY <1>1, <1>3, <1>4, <1>5

LEMMA SlotRange ==
  ASSUME SeqRingParameters, NEW p \in Nat
  PROVE  SlotAt(p) \in RingSlots /\ SlotAt(p) \in Nat /\ SlotAt(p) <= p
<1>1. RingCapacity \in Nat \ {0}
  BY DEF SeqRingParameters
<1>2. /\ p \div RingCapacity \in Nat
      /\ p % RingCapacity \in 0 .. RingCapacity - 1
      /\ p = RingCapacity * (p \div RingCapacity) + (p % RingCapacity)
  BY <1>1, DivMod
<1>3. RingCapacity * (p \div RingCapacity) >= 0
  BY <1>1, <1>2
<1> QED
  BY <1>1, <1>2, <1>3 DEF SlotAt, RingSlots

\* two positions of a slot are at least a lap apart
LEMMA LapApart ==
  ASSUME SeqRingParameters, NEW p \in Nat, NEW q \in Nat, SlotAt(p) = SlotAt(q), p < q
  PROVE  p + RingCapacity <= q
<1>1. RingCapacity \in Nat \ {0}
  BY DEF SeqRingParameters
<1>2. p % RingCapacity = q % RingCapacity /\ p <= q
  BY DEF SlotAt
<1>3. CASE q < p + RingCapacity
  <2>1. p = q
    BY <1>1, <1>2, <1>3, ModApart
  <2> QED
    BY <2>1
<1> QED
  BY <1>1, <1>3

\* a step of one thread leaves the others where they were
LEMMA OneGoes ==
  ASSUME SeqRingTypes, NEW t \in Threads, NEW a, NEW p, NEW x, Go(t, a, p, x)
  PROVE  /\ rt'[t].pc = a /\ rt'[t].pos = p /\ rt'[t].item = x
         /\ \A u \in Threads : u # t => rt'[u] = rt[u]
BY DEF SeqRingTypes, Go

LEMMA GoType ==
  ASSUME SeqRingTypes, NEW t \in Threads, NEW a \in {"idle"} \cup Producing \cup Taking,
         NEW p \in Nat, NEW x \in Data, Go(t, a, p, x)
  PROVE  rt' \in [Threads -> [pc : {"idle"} \cup Producing \cup Taking, pos : Nat, item : Data]]
BY DEF SeqRingTypes, Go

LEMMA ThreadType ==
  ASSUME SeqRingTypes, NEW t \in Threads
  PROVE  /\ rt[t].pc \in {"idle"} \cup Producing \cup Taking
         /\ rt[t].pos \in Nat /\ rt[t].item \in Data
BY DEF SeqRingTypes

LEMMA SlotType ==
  ASSUME SeqRingParameters, SeqRingTypes, NEW p \in Nat
  PROVE  SeqOf(p) \in Nat /\ DataOf(p) \in Data
BY SlotRange DEF SeqRingTypes, SeqOf, DataOf

\* storing a sequence number, and storing an item
LEMMA SeqStored ==
  ASSUME SeqRingParameters, SeqRingTypes, NEW p \in Nat, NEW v \in Nat,
         cell' = [cell EXCEPT ![SlotAt(p)].seq = v]
  PROVE  /\ cell' \in [RingSlots -> [seq : Nat, data : Data]]
         /\ \A q \in Nat : /\ SeqOf(q)' = IF SlotAt(q) = SlotAt(p) THEN v ELSE SeqOf(q)
                           /\ DataOf(q)' = DataOf(q)
<1>1. SlotAt(p) \in RingSlots /\ (\A q \in Nat : SlotAt(q) \in RingSlots)
  BY SlotRange
<1> QED
  BY <1>1 DEF SeqRingTypes, SeqOf, DataOf

LEMMA DataStored ==
  ASSUME SeqRingParameters, SeqRingTypes, NEW p \in Nat, NEW x \in Data,
         cell' = [cell EXCEPT ![SlotAt(p)].data = x]
  PROVE  /\ cell' \in [RingSlots -> [seq : Nat, data : Data]]
         /\ \A q \in Nat : /\ DataOf(q)' = IF SlotAt(q) = SlotAt(p) THEN x ELSE DataOf(q)
                           /\ SeqOf(q)' = SeqOf(q)
<1>1. SlotAt(p) \in RingSlots /\ (\A q \in Nat : SlotAt(q) \in RingSlots)
  BY SlotRange
<1> QED
  BY <1>1 DEF SeqRingTypes, SeqOf, DataOf

-----------------------------------------------------------------------------
(* What a step of one thread keeps of the others *)

LEMMA OtherRoles ==
  ASSUME SeqRingTypes, RoleInv, NEW t \in Threads, NEW a, NEW p, NEW x, Go(t, a, p, x),
         kind' = kind, enq' \in Nat, enq' >= enq, deq' \in Nat, deq' >= deq,
         kind = "mpsc" /\ deq' # deq => rt[t].pc \in Taking,
         \A u \in Queueing : u # t => sent'[u] = sent[u],
         RoleOf(t)', \A u \in Threads : Apart(t, u)'
  PROVE  RoleInv'
<1>1. \A u \in Threads : u # t => rt'[u] = rt[u]
  BY OneGoes
<1>2. ASSUME NEW u \in Threads, u # t PROVE RoleOf(u)'
  <2>1. rt'[u] = rt[u] /\ RoleOf(u) /\ RoleOf(t)
    BY <1>1, <1>2 DEF RoleInv
  <2>2. rt[u].pos \in Nat /\ enq \in Nat /\ deq \in Nat /\ kind \in {"mpmc", "mpsc"}
    BY ThreadType DEF SeqRingTypes
  <2>3. rt[u].pc \in Holding => rt[u].pos < enq'
    BY <2>1, <2>2 DEF RoleOf
  <2>4. rt[u].pc \in {"check", "claim"} => rt[u].pos <= enq' /\ rt[u].item = <<u, sent'[u] + 1>>
    BY <1>2, <2>1, <2>2 DEF RoleOf, Producing
  <2>5. rt[u].pc \in Taking => IF kind = "mpmc" THEN rt[u].pos < deq'
                               ELSE rt[u].pos = deq' /\ u = CHOOSE d \in Dequeuing : TRUE
    <3>1. CASE kind = "mpmc"
      BY <2>1, <2>2, <3>1 DEF RoleOf
    <3>2. CASE kind = "mpsc"
      <4>1. rt[u].pc \in Taking => rt[u].pos = deq /\ u = CHOOSE d \in Dequeuing : TRUE
        BY <2>1, <3>2 DEF RoleOf
      <4>2. rt[t].pc \in Taking => t = CHOOSE d \in Dequeuing : TRUE
        BY <2>1, <3>2 DEF RoleOf
      <4> QED
        BY <1>2, <3>2, <4>1, <4>2
    <3> QED
      BY <2>2, <3>1, <3>2
  <2> QED
    BY <2>1, <2>3, <2>4, <2>5 DEF RoleOf
<1>3. ASSUME NEW u \in Threads, NEW v \in Threads PROVE Apart(u, v)'
  <2>1. Apart(u, v)
    BY DEF RoleInv
  <2>2. CASE u = t
    BY <2>2
  <2>3. CASE v = t
    <3>1. Apart(t, u)'
      OBVIOUS
    <3> QED
      BY <2>3, <3>1 DEF Apart
  <2>4. CASE u # t /\ v # t
    BY <1>1, <2>1, <2>4 DEF Apart
  <2> QED
    BY <2>2, <2>3, <2>4
<1>4. \A u \in Threads : RoleOf(u)'
  BY <1>2
<1> QED
  BY <1>3, <1>4 DEF RoleInv

\* a step that stores no sequence number
LEMMA OtherSeqs ==
  ASSUME SeqRingParameters, SeqRingTypes, RoleInv, SeqInv,
         NEW t \in Threads, NEW a, NEW p, NEW x, Go(t, a, p, x),
         kind' = kind, enq' \in Nat, enq' >= enq, \A q \in Nat : SeqOf(q)' = SeqOf(q),
         \A u \in Threads : (u # t /\ rt[u].pc = "publish") => cell'[SlotAt(rt[u].pos)].data = DataOf(rt[u].pos),
         kind = "mpsc" => \A q \in Nat : q < deq' => SeqOf(q) >= q + RingCapacity,
         SeqAt(t)'
  PROVE  SeqInv'
<1>1. \A u \in Threads : u # t => rt'[u] = rt[u]
  BY OneGoes
<1>2. ASSUME NEW u \in Threads, u # t PROVE SeqAt(u)'
  <2>1. rt'[u] = rt[u] /\ SeqAt(u) /\ RoleOf(u)
    BY <1>1, <1>2 DEF SeqInv, RoleInv
  <2>2. rt[u].pos \in Nat /\ enq \in Nat
    BY ThreadType DEF SeqRingTypes
  <2>3. /\ cell'[SlotAt(rt[u].pos)].seq = SeqOf(rt[u].pos)
        /\ rt[u].pc = "publish" => cell'[SlotAt(rt[u].pos)].data = DataOf(rt[u].pos)
    BY <1>2, <2>1, <2>2 DEF SeqOf, DataOf
  <2>4. rt[u].pc = "claim" /\ rt[u].pos = enq' => rt[u].pos = enq
    BY <2>1, <2>2 DEF RoleOf
  <2> QED
    BY <2>1, <2>3, <2>4 DEF SeqAt, SeqOf, DataOf
<1>3. \A q \in Nat : q >= enq' => SeqOf(q)' <= q
  BY DEF SeqInv, SeqRingTypes
<1>4. \A q \in Nat : SlotAt(q) <= SeqOf(q)'
  BY DEF SeqInv
<1>5. kind' = "mpsc" => \A q \in Nat : q < deq' => SeqOf(q)' >= q + RingCapacity
  OBVIOUS
<1>6. \A u \in Threads : SeqAt(u)'
  BY <1>2
<1> QED
  BY <1>3, <1>4, <1>5, <1>6 DEF SeqInv

\* Nothing comes into flight and nobody gets further back.
Quiet ==
  /\ \A p \in Nat, x \in Data : InFlight(p, x)' => InFlight(p, x)
  /\ \A t \in Dequeuing, p \in Nat : Ahead(t, p)' => Ahead(t, p)

LEMMA QuietSteps ==
  ASSUME FlightInv, TakenInv, Quiet, enq' = enq, UNCHANGED <<sent, taken>>
  PROVE  FlightInv' /\ TakenInv'
<1>1. FlightInv'
  BY DEF FlightInv, Quiet
<1>2. ASSUME NEW t \in Dequeuing, NEW i \in DOMAIN taken[t], NEW p \in Nat, NEW x \in Data, InFlight(p, x)'
      PROVE  /\ taken[t][i] # x
             /\ Ahead(t, p)' /\ taken[t][i][1] = x[1] => taken[t][i][2] < x[2]
  BY <1>2 DEF TakenInv, Quiet
<1>3. TakenInv'
  BY <1>2 DEF TakenInv
<1> QED
  BY <1>1, <1>3

\* a step past no slot leaves the items in flight alone
LEMMA StillFlight ==
  ASSUME SeqRingTypes, NEW t \in Threads, NEW a, NEW p, NEW x, Go(t, a, p, x),
         a \notin Holding, rt[t].pc # "release", cell' = cell
  PROVE  \A q \in Nat, y \in Data : InFlight(q, y)' => InFlight(q, y)
<1>1. rt'[t].pc = a /\ (\A u \in Threads : u # t => rt'[u] = rt[u])
  BY OneGoes
<1>2. ASSUME NEW q \in Nat, NEW y \in Data,
             \E u \in Queueing : rt'[u].pc \in Holding /\ rt'[u].pos = q /\ rt'[u].item = y
      PROVE  InFlight(q, y)
  <2>1. PICK u \in Queueing : rt'[u].pc \in Holding /\ rt'[u].pos = q /\ rt'[u].item = y
    BY <1>2
  <2>2. u # t
    BY <1>1, <2>1
  <2>3. rt'[u] = rt[u]
    BY <1>1, <2>2 DEF Threads
  <2> QED
    BY <2>1, <2>3 DEF InFlight
<1>3. ASSUME NEW q \in Nat, NEW y \in Data, SeqOf(q)' = q + 1, DataOf(q)' = y,
             \A u \in Dequeuing : ~(rt'[u].pc = "release" /\ rt'[u].pos = q)
      PROVE  InFlight(q, y)
  <2>1. SeqOf(q) = q + 1 /\ DataOf(q) = y
    BY <1>3 DEF SeqOf, DataOf
  <2>2. \A u \in Dequeuing : ~(rt[u].pc = "release" /\ rt[u].pos = q)
    BY <1>1, <1>3 DEF Threads
  <2> QED
    BY <2>1, <2>2 DEF InFlight
<1> QED
  BY <1>2, <1>3 DEF InFlight

-----------------------------------------------------------------------------
(* One lemma per action *)

\* the steps of try_push that claim nothing
LEMMA LocalSteps ==
  ASSUME SeqRingParameters, SeqRingInv, NEW t \in Queueing,
         LoadPos(t) \/ CheckSeq(t) \/ GiveUp(t)
           \/ (rt[t].pc = "claim" /\ Go(t, "check", enq, rt[t].item) /\ UNCHANGED <<kind, enq, deq, cell, sent, taken>>)
  PROVE  SeqRingInv'
<1>0. SeqRingTypes /\ RoleInv /\ SeqInv /\ FlightInv /\ TakenInv /\ t \in Threads
  BY DEF SeqRingInv, Threads
<1>1. /\ rt[t].pc \in {"idle", "reload", "check", "full", "claim"}
      /\ UNCHANGED <<kind, enq, deq, cell, sent, taken>>
  BY DEF LoadPos, CheckSeq, GiveUp
<1>2. PICK b, r, y :
        /\ Go(t, b, r, y)
        /\ b \in {"idle", "check", "claim", "full", "reload"} /\ r \in Nat /\ y \in Data
        /\ b \in {"check", "claim"} => r <= enq /\ y = <<t, sent[t] + 1>> /\ kind # "mpmc"
        /\ b # "idle" => kind # "mpmc"
        /\ b = "claim" => SeqOf(r) = r
  <2>1. CASE LoadPos(t)
    <3>1. Go(t, "check", enq, <<t, sent[t] + 1>>) /\ kind = "mpsc"
      BY <2>1 DEF LoadPos
    <3>2. enq \in Nat /\ <<t, sent[t] + 1>> \in Data
      BY <1>0 DEF SeqRingTypes, Data, Items
    <3> QED
      BY <3>1, <3>2
  <2>2. CASE CheckSeq(t)
    <3>1. PICK b \in {"claim", "full", "reload"} :
            Go(t, b, rt[t].pos, rt[t].item) /\ (b = "claim" => SeqOf(rt[t].pos) = rt[t].pos)
      BY <2>2 DEF CheckSeq, SeqOf
    <3>2. rt[t].pos \in Nat /\ rt[t].item \in Data /\ RoleOf(t) /\ rt[t].pc = "check"
      BY <1>0, <2>2, ThreadType DEF RoleInv, CheckSeq
    <3>3. rt[t].pos <= enq /\ rt[t].item = <<t, sent[t] + 1>> /\ kind # "mpmc"
      BY <3>2 DEF RoleOf, Holding
    <3> QED
      BY <3>1, <3>2, <3>3
  <2>3. CASE GiveUp(t)
    BY <2>3 DEF GiveUp, Data
  <2>4. CASE rt[t].pc = "claim" /\ Go(t, "check", enq, rt[t].item)
    <3>1. enq \in Nat /\ rt[t].item \in Data /\ RoleOf(t)
      BY <1>0, ThreadType DEF RoleInv, SeqRingTypes
    <3>2. rt[t].item = <<t, sent[t] + 1>> /\ kind # "mpmc"
      BY <2>4, <3>1 DEF RoleOf, Holding
    <3> QED
      BY <2>4, <3>1, <3>2
  <2> QED
    BY <2>1, <2>2, <2>3, <2>4
<1>3. rt'[t].pc = b /\ rt'[t].pos = r /\ rt'[t].item = y
  BY <1>0, <1>2, OneGoes
<1>4. SeqRingTypes'
  <2>1. rt' \in [Threads -> [pc : {"idle"} \cup Producing \cup Taking, pos : Nat, item : Data]]
    BY <1>0, <1>2, GoType DEF Producing
  <2> QED
    BY <1>0, <1>1, <2>1 DEF SeqRingTypes
<1>5. enq \in Nat /\ deq \in Nat /\ kind \in {"mpmc", "mpsc"}
  BY <1>0 DEF SeqRingTypes
<1>6. RoleInv'
  <2>1. RoleOf(t)'
    BY <1>1, <1>2, <1>3, <1>5 DEF RoleOf, Holding, Taking
  <2>2. \A u \in Threads : Apart(t, u)'
    BY <1>2, <1>3 DEF Apart, Holding, Taking
  <2> QED
    BY <1>0, <1>1, <1>2, <1>5, <2>1, <2>2, OtherRoles
<1>7. SeqInv'
  <2>1. \A q \in Nat : SeqOf(q)' = SeqOf(q) /\ DataOf(q)' = DataOf(q)
    BY <1>1 DEF SeqOf, DataOf
  <2>2. SeqAt(t)'
    BY <1>1, <1>2, <1>3, <2>1 DEF SeqAt
  <2>3. kind = "mpsc" => \A q \in Nat : q < deq' => SeqOf(q) >= q + RingCapacity
    BY <1>0, <1>1 DEF SeqInv
  <2>4. \A u \in Threads : (u # t /\ rt[u].pc = "publish") => cell'[SlotAt(rt[u].pos)].data = DataOf(rt[u].pos)
    BY <1>1 DEF DataOf
  <2> QED
    BY <1>0, <1>1, <1>2, <1>5, <2>1, <2>2, <2>3, <2>4, OtherSeqs
<1>8. Quiet
  <2>1. \A q \in Nat, z \in Data : InFlight(q, z)' => InFlight(q, z)
    BY <1>0, <1>1, <1>2, StillFlight DEF Holding
  <2>2. ASSUME NEW u \in Dequeuing, NEW q \in Nat, Ahead(u, q)' PROVE Ahead(u, q)
    <3>1. u # t => rt'[u] = rt[u]
      BY <1>0, <1>2, OneGoes DEF Threads
    <3> QED
      BY <1>1, <1>2, <1>3, <2>2, <3>1 DEF Ahead
  <2> QED
    BY <2>1, <2>2 DEF Quiet
<1> QED
  BY <1>0, <1>1, <1>4, <1>6, <1>7, <1>8, QuietSteps DEF SeqRingInv

\* an item and its position come into flight
LEMMA ClaimedFlight ==
  ASSUME SeqRingParameters, SeqRingTypes, FlightInv, TakenInv, NEW t \in Queueing,
         \A q \in Nat, y \in Data : InFlight(q, y)' => InFlight(q, y) \/ (q = enq /\ y = <<t, sent[t] + 1>>),
         \A u \in Dequeuing, q \in Nat : Ahead(u, q)' => Ahead(u, q),
         enq' = enq + 1, deq' = deq, sent' = [sent EXCEPT ![t] = @ + 1], taken' = taken
  PROVE  FlightInv' /\ TakenInv'
<1> DEFINE new == <<t, sent[t] + 1>>
<1>1. /\ new \in Items /\ new[1] = t /\ new[2] = sent[t] + 1 /\ sent[t] \in Nat /\ enq \in Nat
      /\ sent'[t] = sent[t] + 1 /\ \A u \in Queueing : sent[u] \in Nat /\ sent[u] <= sent'[u]
  BY DEF SeqRingTypes, Items
<1>2. \A y \in Items : y[1] \in Queueing /\ y[2] \in Nat
  BY DEF Items
<1>3. \A q \in Nat, y \in Data : InFlight(q, y)' => InFlight(q, y) \/ (q = enq /\ y = new)
  OBVIOUS
<1>4. \A q \in Nat, y \in Data : InFlight(q, y) => q < enq /\ y \in Items /\ y[2] <= sent[y[1]]
  BY DEF FlightInv
<1> HIDE DEF new
<1>5. FlightInv'
  <2>1. ASSUME NEW q \in Nat, NEW y \in Data, InFlight(q, y)'
        PROVE  q < enq' /\ y \in Items /\ y[2] <= sent'[y[1]]
    <3>1. CASE InFlight(q, y)
      BY <1>1, <1>2, <1>4, <3>1
    <3>2. CASE q = enq /\ y = new
      BY <1>1, <3>2
    <3> QED
      BY <1>3, <2>1, <3>1, <3>2
  <2>2. ASSUME NEW q \in Nat, NEW r \in Nat, NEW y \in Data, NEW z \in Data, InFlight(q, y)', InFlight(r, z)'
        PROVE  /\ q = r => y = z
               /\ q < r /\ y[1] = z[1] => y[2] < z[2]
    <3>1. CASE InFlight(q, y) /\ InFlight(r, z)
      BY <3>1 DEF FlightInv
    <3>2. CASE InFlight(q, y) /\ r = enq /\ z = new
      BY <1>1, <1>2, <1>4, <3>2
    <3>3. CASE q = enq /\ y = new /\ InFlight(r, z)
      BY <1>1, <1>4, <3>3
    <3>4. CASE q = enq /\ y = new /\ r = enq /\ z = new
      BY <1>1, <3>4
    <3> QED
      BY <1>3, <2>2, <3>1, <3>2, <3>3, <3>4
  <2> QED
    BY <2>1, <2>2 DEF FlightInv
<1>6. TakenInv'
  <2>1. ASSUME NEW u \in Dequeuing, NEW i \in DOMAIN taken[u]
        PROVE  taken[u][i] \in Items /\ taken[u][i][2] <= sent[taken[u][i][1]]
    <3>1. taken[u] \in Seq(Items)
      BY DEF SeqRingTypes
    <3> QED
      BY <3>1 DEF TakenInv
  <2>2. ASSUME NEW u \in Dequeuing, NEW i \in DOMAIN taken[u]
        PROVE  taken[u][i][2] <= sent'[taken[u][i][1]]
    BY <1>1, <1>2, <2>1
  <2>3. ASSUME NEW u \in Dequeuing, NEW i \in DOMAIN taken[u], NEW q \in Nat, NEW y \in Data, InFlight(q, y)'
        PROVE  /\ taken[u][i] # y
               /\ Ahead(u, q)' /\ taken[u][i][1] = y[1] => taken[u][i][2] < y[2]
    <3>1. CASE InFlight(q, y)
      BY <2>3, <3>1 DEF TakenInv
    <3>2. CASE q = enq /\ y = new
      BY <1>1, <1>2, <2>1, <3>2
    <3> QED
      BY <1>3, <2>3, <3>1, <3>2
  <2> QED
    BY <2>2, <2>3 DEF TakenInv
<1> QED
  BY <1>5, <1>6

\* fetch_add of the MPMC queue, or the exchange of the MPSC ring that succeeds
LEMMA ClaimSteps ==
  ASSUME SeqRingParameters, SeqRingInv, NEW t \in Queueing,
         Go(t, "fill", enq, <<t, sent[t] + 1>>),
         rt[t].pc \in {"idle", "claim"}, kind = "mpsc" => SeqOf(enq) = enq,
         enq' = enq + 1, sent' = [sent EXCEPT ![t] = @ + 1], UNCHANGED <<kind, deq, cell, taken>>
  PROVE  SeqRingInv'
<1>0. SeqRingTypes /\ RoleInv /\ SeqInv /\ FlightInv /\ TakenInv /\ t \in Threads
  BY DEF SeqRingInv, Threads
<1>1. /\ enq \in Nat /\ deq \in Nat /\ kind \in {"mpmc", "mpsc"} /\ sent \in [Queueing -> Nat]
      /\ <<t, sent[t] + 1>> \in Data
  BY <1>0 DEF SeqRingTypes, Data, Items
<1>2. rt'[t].pc = "fill" /\ rt'[t].pos = enq /\ rt'[t].item = <<t, sent[t] + 1>>
  BY <1>0, OneGoes
<1>3. \A u \in Threads : u # t => rt'[u] = rt[u]
  BY <1>0, OneGoes
<1>4. SeqRingTypes'
  <2>1. rt' \in [Threads -> [pc : {"idle"} \cup Producing \cup Taking, pos : Nat, item : Data]]
    BY <1>0, <1>1, GoType DEF Producing, Holding
  <2> QED
    BY <1>0, <1>1, <2>1 DEF SeqRingTypes
<1>5. RoleInv'
  <2>1. RoleOf(t)'
    BY <1>1, <1>2 DEF RoleOf, Holding, Taking, Producing
  <2>2. ASSUME NEW u \in Threads, u # t PROVE Apart(t, u)'
    <3>1. rt'[u] = rt[u] /\ RoleOf(u) /\ rt[u].pos \in Nat
      BY <1>0, <1>3, <2>2, ThreadType DEF RoleInv
    <3>2. rt'[u].pc \in Holding => rt'[u].pos # enq
      BY <1>1, <3>1 DEF RoleOf
    <3> QED
      BY <1>2, <3>2 DEF Apart, Taking
  <2>3. \A u \in Threads : Apart(t, u)'
    BY <2>2 DEF Apart
  <2>4. \A u \in Queueing : u # t => sent'[u] = sent[u]
    BY <1>1
  <2> QED
    BY <1>0, <1>1, <2>1, <2>3, <2>4, OtherRoles
<1>6. SeqInv'
  <2>1. \A q \in Nat : SeqOf(q)' = SeqOf(q) /\ DataOf(q)' = DataOf(q)
    BY DEF SeqOf, DataOf
  <2>2. SeqOf(enq) <= enq
    BY <1>0, <1>1 DEF SeqInv
  <2>3. cell'[SlotAt(enq)].seq = SeqOf(enq)
    BY DEF SeqOf
  <2>4. SeqAt(t)'
    BY <1>1, <1>2, <2>2, <2>3 DEF SeqAt, SeqOf
  <2>5. kind = "mpsc" => \A q \in Nat : q < deq' => SeqOf(q) >= q + RingCapacity
    BY <1>0 DEF SeqInv
  <2>6. \A u \in Threads : (u # t /\ rt[u].pc = "publish") => cell'[SlotAt(rt[u].pos)].data = DataOf(rt[u].pos)
    BY DEF DataOf
  <2> QED
    BY <1>0, <1>1, <2>1, <2>4, <2>5, <2>6, OtherSeqs
<1>7. \A q \in Nat, y \in Data : InFlight(q, y)' => InFlight(q, y) \/ (q = enq /\ y = <<t, sent[t] + 1>>)
  <2>1. ASSUME NEW q \in Nat, NEW y \in Data, NEW u \in Queueing,
               rt'[u].pc \in Holding, rt'[u].pos = q, rt'[u].item = y, u # t
        PROVE  InFlight(q, y)
    <3>1. rt'[u] = rt[u]
      BY <1>3, <2>1 DEF Threads
    <3> QED
      BY <2>1, <3>1 DEF InFlight
  <2>2. ASSUME NEW q \in Nat, NEW y \in Data, SeqOf(q)' = q + 1, DataOf(q)' = y,
               \A u \in Dequeuing : ~(rt'[u].pc = "release" /\ rt'[u].pos = q)
        PROVE  InFlight(q, y)
    <3>1. SeqOf(q) = q + 1 /\ DataOf(q) = y
      BY <2>2 DEF SeqOf, DataOf
    <3>2. \A u \in Dequeuing : ~(rt[u].pc = "release" /\ rt[u].pos = q)
      BY <1>3, <2>2 DEF Threads
    <3> QED
      BY <3>1, <3>2 DEF InFlight
  <2> QED
    BY <1>2, <2>1, <2>2 DEF InFlight
<1>8. ASSUME NEW u \in Dequeuing, NEW q \in Nat, Ahead(u, q)' PROVE Ahead(u, q)
  <2>1. u # t => rt'[u] = rt[u]
    BY <1>3 DEF Threads
  <2> QED
    BY <1>2, <1>8, <2>1 DEF Ahead
<1>9. FlightInv' /\ TakenInv'
  BY <1>0, <1>7, <1>8, ClaimedFlight
<1> QED
  BY <1>4, <1>5, <1>6, <1>9 DEF SeqRingInv

\* the slot of a claimed position still waits for it
LEMMA FillWaits ==
  ASSUME SeqRingInv, NEW t \in Queueing, EnqueueFill(t)
  PROVE  rt[t].pc = "fill" /\ SeqOf(rt[t].pos) = rt[t].pos
<1>1. SeqAt(t) /\ kind \in {"mpmc", "mpsc"}
  BY DEF SeqRingInv, SeqInv, Threads, SeqRingTypes
<1> QED
  BY <1>1 DEF EnqueueFill, SeqAt, SeqOf

LEMMA FillSteps ==
  ASSUME SeqRingParameters, SeqRingInv, NEW t \in Queueing, EnqueueFill(t)
  PROVE  SeqRingInv'
<1>0. SeqRingTypes /\ RoleInv /\ SeqInv /\ FlightInv /\ TakenInv /\ t \in Threads
  BY DEF SeqRingInv, Threads
<1> DEFINE p == rt[t].pos
           x == rt[t].item
<1>1. /\ Go(t, "publish", p, x) /\ cell' = [cell EXCEPT ![SlotAt(p)].data = x]
      /\ UNCHANGED <<kind, enq, deq, sent, taken>>
  BY DEF EnqueueFill
<1>2. rt[t].pc = "fill" /\ SeqOf(p) = p /\ p \in Nat /\ x \in Data /\ p < enq
  BY <1>0, FillWaits, ThreadType DEF RoleInv, RoleOf, Holding
<1>3. rt'[t].pc = "publish" /\ rt'[t].pos = p /\ rt'[t].item = x
  BY <1>0, <1>1, OneGoes
<1>4. \A u \in Threads : u # t => rt'[u] = rt[u]
  BY <1>0, <1>1, OneGoes
<1>5. /\ cell' \in [RingSlots -> [seq : Nat, data : Data]]
      /\ \A q \in Nat : DataOf(q)' = (IF SlotAt(q) = SlotAt(p) THEN x ELSE DataOf(q)) /\ SeqOf(q)' = SeqOf(q)
  BY <1>0, <1>1, <1>2, DataStored
<1>6. enq \in Nat /\ deq \in Nat /\ kind \in {"mpmc", "mpsc"}
  BY <1>0 DEF SeqRingTypes
<1>7. SeqRingTypes'
  <2>1. rt' \in [Threads -> [pc : {"idle"} \cup Producing \cup Taking, pos : Nat, item : Data]]
    BY <1>0, <1>1, <1>2, GoType DEF Producing, Holding
  <2> QED
    BY <1>0, <1>1, <1>5, <2>1 DEF SeqRingTypes
<1>8. RoleInv'
  <2>1. RoleOf(t)'
    BY <1>0, <1>1, <1>2, <1>3 DEF RoleInv, RoleOf, Holding, Taking, Producing
  <2>2. ASSUME NEW u \in Threads, u # t PROVE Apart(t, u)'
    <3>1. rt'[u] = rt[u] /\ Apart(t, u)
      BY <1>0, <1>4, <2>2 DEF RoleInv
    <3> QED
      BY <1>2, <1>3, <2>2, <3>1 DEF Apart, Taking, Holding
  <2>3. \A u \in Threads : Apart(t, u)'
    BY <2>2 DEF Apart
  <2> QED
    BY <1>0, <1>1, <1>6, <2>1, <2>3, OtherRoles
<1>9. SeqInv'
  <2>1. ASSUME NEW u \in Threads, u # t, rt[u].pc = "publish"
        PROVE  cell'[SlotAt(rt[u].pos)].data = DataOf(rt[u].pos)
    <3>1. Apart(t, u) /\ SeqAt(u) /\ rt[u].pos \in Nat
      BY <1>0, ThreadType DEF RoleInv, SeqInv
    <3>2. rt[u].pos # p /\ SeqOf(rt[u].pos) = rt[u].pos
      BY <1>2, <2>1, <3>1 DEF Apart, SeqAt, Holding
    <3>3. SlotAt(rt[u].pos) # SlotAt(p)
      BY <1>2, <3>2 DEF SeqOf
    <3>4. SlotAt(p) \in RingSlots /\ SlotAt(rt[u].pos) \in RingSlots
      BY <1>2, <3>1, SlotRange
    <3> QED
      BY <1>0, <1>1, <3>3, <3>4 DEF DataOf, SeqRingTypes
  <2>2. SeqAt(t)'
    <3>1. cell'[SlotAt(p)].seq = p /\ cell'[SlotAt(p)].data = x
      BY <1>2, <1>5 DEF SeqOf, DataOf
    <3> QED
      BY <1>3, <3>1 DEF SeqAt, SeqOf, DataOf
  <2>3. kind = "mpsc" => \A q \in Nat : q < deq' => SeqOf(q) >= q + RingCapacity
    BY <1>0, <1>1 DEF SeqInv
  <2>4. \A q \in Nat : SeqOf(q)' = SeqOf(q)
    BY <1>5
  <2> QED
    BY <1>0, <1>1, <1>6, <2>1, <2>2, <2>3, <2>4, OtherSeqs
<1>10. Quiet
  <2>1. ASSUME NEW q \in Nat, NEW y \in Data, InFlight(q, y)' PROVE InFlight(q, y)
    <3>1. CASE \E u \in Queueing : rt'[u].pc \in Holding /\ rt'[u].pos = q /\ rt'[u].item = y
      <4>1. PICK u \in Queueing : rt'[u].pc \in Holding /\ rt'[u].pos = q /\ rt'[u].item = y
        BY <3>1
      <4>2. rt[u].pc \in Holding /\ rt[u].pos = q /\ rt[u].item = y
        BY <1>2, <1>3, <1>4, <4>1 DEF Threads, Holding
      <4> QED
        BY <4>2 DEF InFlight
    <3>2. CASE /\ SeqOf(q)' = q + 1 /\ DataOf(q)' = y
               /\ \A u \in Dequeuing : ~(rt'[u].pc = "release" /\ rt'[u].pos = q)
      <4>1. SeqOf(q) = q + 1
        BY <1>5, <3>2
      <4>2. CASE SlotAt(q) = SlotAt(p)
        <5>1. p = q + 1
          BY <1>2, <4>1, <4>2 DEF SeqOf
        <5>2. q + RingCapacity <= p
          BY <1>2, <4>2, <5>1, LapApart
        <5> QED
          BY <5>1, <5>2 DEF SeqRingParameters
      <4>3. CASE SlotAt(q) # SlotAt(p)
        <5>1. DataOf(q) = y
          BY <1>5, <3>2, <4>3
        <5>2. \A u \in Dequeuing : ~(rt[u].pc = "release" /\ rt[u].pos = q)
          BY <1>2, <1>4, <3>2 DEF Threads
        <5> QED
          BY <4>1, <5>1, <5>2 DEF InFlight
      <4> QED
        BY <4>2, <4>3
    <3> QED
      BY <2>1, <3>1, <3>2 DEF InFlight
  <2>2. ASSUME NEW u \in Dequeuing, NEW q \in Nat, Ahead(u, q)' PROVE Ahead(u, q)
    BY <1>1, <1>3, <1>4, <2>2 DEF Ahead, Threads
  <2> QED
    BY <2>1, <2>2 DEF Quiet
<1> QED
  BY <1>0, <1>1, <1>7, <1>8, <1>9, <1>10, QuietSteps DEF SeqRingInv

\* Where a slot had the number of position p, no other position of the slot is
\* held, read or about to be claimed, except by those who wait for a later one.
LEMMA SlotOfOne ==
  ASSUME SeqRingParameters, SeqRingInv, NEW u \in Threads, NEW p \in Nat, NEW e \in {0, 1},
         SlotAt(rt[u].pos) = SlotAt(p), SeqOf(p) = p + e, rt[u].pos # p
  PROVE  /\ rt[u].pc \notin {"publish", "release"}
         /\ rt[u].pc = "fill" => p + RingCapacity <= rt[u].pos
         /\ kind = "mpsc" => rt[u].pc \notin {"fill", "read"} /\ ~(rt[u].pc = "claim" /\ rt[u].pos = enq)
<1> DEFINE r == rt[u].pos
<1>1. /\ SeqRingTypes /\ SeqAt(u) /\ r \in Nat /\ SeqOf(r) = p + e
      /\ RingCapacity \in Nat /\ RingCapacity >= 2 /\ enq \in Nat
  BY ThreadType DEF SeqRingInv, SeqInv, SeqOf, SeqRingParameters, SeqRingTypes
<1>2. (r < p => r + RingCapacity <= p) /\ (p < r => p + RingCapacity <= r)
  BY <1>1, LapApart
<1> HIDE DEF r
<1>3. SeqOf(r) # r /\ SeqOf(r) # r + 1
  BY <1>1, <1>2 DEF r
<1>4. SeqOf(r) <= r => p + RingCapacity <= r
  BY <1>1, <1>2 DEF r
<1> QED
  BY <1>1, <1>3, <1>4 DEF SeqAt, r

StoreSeq(p, v) == cell' = [cell EXCEPT ![SlotAt(p)].seq = v]

\* Storing a later number in a slot disturbs no other thread.
LEMMA RaisedSeqs ==
  ASSUME SeqRingParameters, SeqRingInv, NEW t \in Threads, NEW a, NEW b, NEW x, Go(t, a, b, x),
         NEW p \in Nat, SeqOf(p) \in {p, p + 1}, NEW v \in Nat, v >= SeqOf(p), v <= p + RingCapacity, p < enq, StoreSeq(p, v),
         UNCHANGED <<kind, enq, deq>>,
         \A u \in Threads : u # t /\ rt[u].pos = p =>
           /\ rt[u].pc \notin {"fill", "publish", "release"}
           /\ kind = "mpsc" => rt[u].pc # "read" /\ ~(rt[u].pc = "claim" /\ rt[u].pos = enq),
         SeqAt(t)'
  PROVE  SeqInv'
<1>0. SeqRingTypes /\ RoleInv /\ SeqInv
  BY DEF SeqRingInv
<1>1. \A u \in Threads : u # t => rt'[u] = rt[u]
  BY <1>0, OneGoes
<1>2. \A q \in Nat : SeqOf(q)' = (IF SlotAt(q) = SlotAt(p) THEN v ELSE SeqOf(q)) /\ DataOf(q)' = DataOf(q)
  BY <1>0, SeqStored DEF StoreSeq
<1>3. /\ \A q \in Nat : SeqOf(q) \in Nat /\ SlotAt(q) \in Nat
      /\ RingCapacity \in Nat /\ enq \in Nat /\ deq \in Nat
  BY <1>0, SlotType, SlotRange DEF SeqRingParameters, SeqRingTypes
<1> PICK e \in {0, 1} : SeqOf(p) = p + e
  <2>1. p = p + 0
    OBVIOUS
  <2> QED
    BY <2>1
<1>4. \A q \in Nat : SlotAt(q) = SlotAt(p) => SeqOf(q) = p + e
  BY DEF SeqOf
<1>5. \A q \in Nat : SeqOf(q)' >= SeqOf(q) /\ SeqOf(q)' \in Nat
  BY <1>2, <1>3, <1>4
<1>6. ASSUME NEW u \in Threads, u # t PROVE SeqAt(u)'
  <2> DEFINE r == rt[u].pos
  <2>1. rt'[u] = rt[u] /\ SeqAt(u) /\ r \in Nat
    BY <1>0, <1>1, <1>6, ThreadType DEF SeqInv
  <2>2. /\ cell'[SlotAt(r)].seq = IF SlotAt(r) = SlotAt(p) THEN v ELSE SeqOf(r)
        /\ cell'[SlotAt(r)].data = DataOf(r)
    BY <1>2, <2>1 DEF SeqOf, DataOf
  <2>3. CASE SlotAt(r) # SlotAt(p)
    BY <2>1, <2>2, <2>3 DEF SeqAt, SeqOf, DataOf
  <2>4. CASE SlotAt(r) = SlotAt(p) /\ r = p
    <3>1. /\ rt[u].pc \notin {"fill", "publish", "release"}
          /\ kind = "mpsc" => rt[u].pc # "read" /\ ~(rt[u].pc = "claim" /\ rt[u].pos = enq)
      BY <1>6, <2>4
    <3>2. rt[u].pc = "advance" /\ kind = "mpsc" => SeqOf(r) >= r + RingCapacity
      BY <2>1 DEF SeqAt
    <3>3. SeqOf(r) = p + e
      BY <2>4
    <3>4. rt[u].pc = "advance" /\ kind = "mpsc" => v >= r + RingCapacity
      BY <1>3, <2>1, <3>2, <3>3
    <3> QED
      BY <2>1, <2>2, <2>4, <3>1, <3>4 DEF SeqAt, SeqOf, DataOf
  <2>5. CASE SlotAt(r) = SlotAt(p) /\ r # p
    <3>1. /\ rt[u].pc \notin {"publish", "release"}
          /\ rt[u].pc = "fill" => p + RingCapacity <= r
          /\ kind = "mpsc" => rt[u].pc \notin {"fill", "read"} /\ ~(rt[u].pc = "claim" /\ r = enq)
      BY <2>5, SlotOfOne
    <3>2. rt[u].pc = "fill" => v <= r
      BY <1>3, <2>1, <3>1
    <3>3. rt[u].pc = "advance" /\ kind = "mpsc" => SeqOf(r) >= r + RingCapacity
      BY <2>1 DEF SeqAt
    <3>4. SeqOf(r) = p + e
      BY <1>4, <2>1, <2>5
    <3>5. rt[u].pc = "advance" /\ kind = "mpsc" => v >= r + RingCapacity
      BY <1>3, <2>1, <3>3, <3>4
    <3> QED
      BY <2>1, <2>2, <2>5, <3>1, <3>2, <3>5 DEF SeqAt, SeqOf, DataOf
  <2> QED
    BY <2>3, <2>4, <2>5
<1>7. ASSUME NEW q \in Nat, q >= enq' PROVE SeqOf(q)' <= q
  <2>1. SeqOf(q) <= q /\ q > p
    BY <1>0, <1>3, <1>7 DEF SeqInv
  <2>2. SlotAt(q) = SlotAt(p) => p + RingCapacity <= q
    BY <2>1, LapApart
  <2> QED
    BY <1>2, <1>3, <2>1, <2>2
<1>8. \A q \in Nat : SlotAt(q) <= SeqOf(q)'
  BY <1>0, <1>3, <1>5 DEF SeqInv
<1>9. kind' = "mpsc" => \A q \in Nat : q < deq' => SeqOf(q)' >= q + RingCapacity
  BY <1>0, <1>3, <1>5 DEF SeqInv
<1>10. \A u \in Threads : SeqAt(u)'
  BY <1>6
<1> QED
  BY <1>7, <1>8, <1>9, <1>10 DEF SeqInv

LEMMA PublishSteps ==
  ASSUME SeqRingParameters, SeqRingInv, NEW t \in Queueing, EnqueuePublish(t)
  PROVE  SeqRingInv'
<1>0. SeqRingTypes /\ RoleInv /\ SeqInv /\ FlightInv /\ TakenInv /\ t \in Threads
  BY DEF SeqRingInv, Threads
<1> DEFINE p == rt[t].pos
<1>1. /\ rt[t].pc = "publish" /\ Go(t, "idle", 0, NoData)
      /\ cell' = [cell EXCEPT ![SlotAt(p)].seq = p + 1]
      /\ UNCHANGED <<kind, enq, deq, sent, taken>>
  BY DEF EnqueuePublish
<1>2. p \in Nat /\ p < enq /\ SeqOf(p) = p /\ DataOf(p) = rt[t].item
  BY <1>0, <1>1, ThreadType DEF RoleInv, RoleOf, Holding, SeqInv, SeqAt
<1>3. rt'[t].pc = "idle" /\ rt'[t].pos = 0
  BY <1>0, <1>1, OneGoes
<1>4. \A u \in Threads : u # t => rt'[u] = rt[u]
  BY <1>0, <1>1, OneGoes
<1>5. /\ cell' \in [RingSlots -> [seq : Nat, data : Data]]
      /\ \A q \in Nat : SeqOf(q)' = (IF SlotAt(q) = SlotAt(p) THEN p + 1 ELSE SeqOf(q)) /\ DataOf(q)' = DataOf(q)
  <2>1. p + 1 \in Nat
    BY <1>2
  <2> HIDE DEF p
  <2> QED
    BY <1>0, <1>1, <1>2, <2>1, SeqStored
<1>6. /\ enq \in Nat /\ deq \in Nat /\ kind \in {"mpmc", "mpsc"}
      /\ RingCapacity \in Nat /\ RingCapacity >= 2
  BY <1>0 DEF SeqRingTypes, SeqRingParameters
<1>7. SeqRingTypes'
  <2>1. rt' \in [Threads -> [pc : {"idle"} \cup Producing \cup Taking, pos : Nat, item : Data]]
    BY <1>0, <1>1, GoType DEF Data
  <2> QED
    BY <1>0, <1>1, <1>5, <2>1 DEF SeqRingTypes
<1>8. RoleInv'
  <2>1. RoleOf(t)'
    BY <1>3 DEF RoleOf, Holding, Taking, Producing
  <2>2. \A u \in Threads : Apart(t, u)'
    BY <1>3 DEF Apart, Holding, Taking
  <2> QED
    BY <1>0, <1>1, <1>6, <2>1, <2>2, OtherRoles
<1>9. SeqInv'
  <2>1. ASSUME NEW u \in Threads, u # t, rt[u].pos = p
        PROVE  /\ rt[u].pc \notin {"fill", "publish", "release"}
               /\ kind = "mpsc" => rt[u].pc # "read" /\ ~(rt[u].pc = "claim" /\ rt[u].pos = enq)
    <3>1. SeqAt(u) /\ Apart(t, u)
      BY <1>0 DEF SeqInv, RoleInv
    <3> QED
      BY <1>1, <1>2, <1>6, <2>1, <3>1 DEF SeqAt, Apart, Holding
  <2>2. SeqAt(t)'
    BY <1>3 DEF SeqAt
  <2>3. SeqOf(p) \in {p, p + 1} /\ p + 1 >= SeqOf(p) /\ p + 1 <= p + RingCapacity /\ p + 1 \in Nat
    BY <1>2, <1>6
  <2>4. StoreSeq(p, p + 1)
    BY <1>1 DEF StoreSeq
  <2> HIDE DEF p
  <2> QED
    BY <1>0, <1>1, <1>2, <2>1, <2>2, <2>3, <2>4, RaisedSeqs
<1>10. Quiet
  <2>1. ASSUME NEW q \in Nat, NEW y \in Data, InFlight(q, y)' PROVE InFlight(q, y)
    <3>1. CASE \E u \in Queueing : rt'[u].pc \in Holding /\ rt'[u].pos = q /\ rt'[u].item = y
      <4>1. PICK u \in Queueing : rt'[u].pc \in Holding /\ rt'[u].pos = q /\ rt'[u].item = y
        BY <3>1
      <4>2. rt[u].pc \in Holding /\ rt[u].pos = q /\ rt[u].item = y
        BY <1>3, <1>4, <4>1 DEF Threads, Holding
      <4> QED
        BY <4>2 DEF InFlight
    <3>2. CASE /\ SeqOf(q)' = q + 1 /\ DataOf(q)' = y
               /\ \A u \in Dequeuing : ~(rt'[u].pc = "release" /\ rt'[u].pos = q)
      <4>1. CASE SlotAt(q) = SlotAt(p)
        <5>1. q = p /\ DataOf(p) = y
          BY <1>2, <1>5, <3>2, <4>1
        <5> QED
          BY <1>1, <1>2, <5>1 DEF InFlight, Holding
      <4>2. CASE SlotAt(q) # SlotAt(p)
        <5>1. SeqOf(q) = q + 1 /\ DataOf(q) = y
          BY <1>5, <3>2, <4>2
        <5>2. \A u \in Dequeuing : ~(rt[u].pc = "release" /\ rt[u].pos = q)
          BY <1>1, <1>4, <3>2 DEF Threads
        <5> QED
          BY <5>1, <5>2 DEF InFlight
      <4> QED
        BY <4>1, <4>2
    <3> QED
      BY <2>1, <3>1, <3>2 DEF InFlight
  <2>2. ASSUME NEW u \in Dequeuing, NEW q \in Nat, Ahead(u, q)' PROVE Ahead(u, q)
    BY <1>1, <1>3, <1>4, <2>2 DEF Ahead, Threads
  <2> QED
    BY <2>1, <2>2 DEF Quiet
<1> QED
  BY <1>0, <1>1, <1>7, <1>8, <1>9, <1>10, QuietSteps DEF SeqRingInv

\* the slot goes to the position one lap ahead
LEMMA ReleaseSteps ==
  ASSUME SeqRingParameters, SeqRingInv, NEW t \in Dequeuing, DequeueRelease(t)
  PROVE  SeqRingInv'
<1>0. SeqRingTypes /\ RoleInv /\ SeqInv /\ FlightInv /\ TakenInv /\ t \in Threads
  BY DEF SeqRingInv, Threads
<1> DEFINE p == rt[t].pos
           a == IF kind = "mpmc" THEN "idle" ELSE "advance"
<1>1. /\ rt[t].pc = "release" /\ Go(t, a, p, NoData)
      /\ cell' = [cell EXCEPT ![SlotAt(p)].seq = p + RingCapacity]
      /\ UNCHANGED <<kind, enq, deq, sent, taken>>
  BY DEF DequeueRelease
<1>2. p \in Nat /\ SeqOf(p) = p + 1 /\ RoleOf(t)
  BY <1>0, <1>1, ThreadType DEF RoleInv, SeqInv, SeqAt
<1>3. rt'[t].pc = a /\ rt'[t].pos = p
  BY <1>0, <1>1, OneGoes
<1>4. \A u \in Threads : u # t => rt'[u] = rt[u]
  BY <1>0, <1>1, OneGoes
<1>6. /\ enq \in Nat /\ deq \in Nat /\ kind \in {"mpmc", "mpsc"}
      /\ RingCapacity \in Nat /\ RingCapacity >= 2 /\ p + RingCapacity \in Nat
  BY <1>0, <1>2 DEF SeqRingTypes, SeqRingParameters
<1>5. /\ cell' \in [RingSlots -> [seq : Nat, data : Data]]
      /\ \A q \in Nat : /\ SeqOf(q)' = IF SlotAt(q) = SlotAt(p) THEN p + RingCapacity ELSE SeqOf(q)
                        /\ DataOf(q)' = DataOf(q)
  BY <1>0, <1>1, <1>2, <1>6, SeqStored
<1>7. SeqRingTypes'
  <2>1. rt' \in [Threads -> [pc : {"idle"} \cup Producing \cup Taking, pos : Nat, item : Data]]
    BY <1>0, <1>1, <1>2, GoType DEF Data, Taking
  <2> QED
    BY <1>0, <1>1, <1>5, <2>1 DEF SeqRingTypes
<1>8. RoleInv'
  <2>1. RoleOf(t)'
    BY <1>0, <1>1, <1>2, <1>3, <1>6 DEF RoleOf, Holding, Taking, Producing
  <2>2. ASSUME NEW u \in Threads, u # t PROVE Apart(t, u)'
    <3>1. rt'[u] = rt[u] /\ Apart(t, u)
      BY <1>0, <1>4, <2>2 DEF RoleInv
    <3> QED
      BY <1>1, <1>3, <2>2, <3>1 DEF Apart, Taking, Holding
  <2>3. \A u \in Threads : Apart(t, u)'
    BY <2>2 DEF Apart
  <2> QED
    BY <1>0, <1>1, <1>6, <2>1, <2>3, OtherRoles
<1>9. SeqInv'
  <2>1. ASSUME NEW u \in Threads, u # t, rt[u].pos = p
        PROVE  /\ rt[u].pc \notin {"fill", "publish", "release"}
               /\ kind = "mpsc" => rt[u].pc # "read" /\ ~(rt[u].pc = "claim" /\ rt[u].pos = enq)
    <3>1. SeqAt(u) /\ Apart(t, u)
      BY <1>0 DEF SeqInv, RoleInv
    <3> QED
      BY <1>1, <1>2, <1>6, <2>1, <3>1 DEF SeqAt, Apart, Taking
  <2>2. SeqAt(t)'
    <3>1. cell'[SlotAt(p)].seq = p + RingCapacity
      BY <1>2, <1>5 DEF SeqOf
    <3> QED
      BY <1>1, <1>3, <1>6, <3>1 DEF SeqAt, SeqOf
  <2>3. SeqOf(p) \in {p, p + 1} /\ p + RingCapacity >= SeqOf(p) /\ p + RingCapacity <= p + RingCapacity
    BY <1>2, <1>6
  <2>4. p < enq
    BY <1>0, <1>2, <1>6 DEF SeqInv
  <2>5. StoreSeq(p, p + RingCapacity)
    BY <1>1 DEF StoreSeq
  <2> HIDE DEF p, a
  <2> QED
    BY <1>0, <1>1, <1>2, <1>6, <2>1, <2>2, <2>3, <2>4, <2>5, RaisedSeqs
<1>10. Quiet
  <2>1. ASSUME NEW q \in Nat, NEW y \in Data, InFlight(q, y)' PROVE InFlight(q, y)
    <3>1. CASE \E u \in Queueing : rt'[u].pc \in Holding /\ rt'[u].pos = q /\ rt'[u].item = y
      <4>1. PICK u \in Queueing : rt'[u].pc \in Holding /\ rt'[u].pos = q /\ rt'[u].item = y
        BY <3>1
      <4>2. rt[u].pc \in Holding /\ rt[u].pos = q /\ rt[u].item = y
        BY <1>3, <1>4, <4>1 DEF Threads, Holding
      <4> QED
        BY <4>2 DEF InFlight
    <3>2. CASE /\ SeqOf(q)' = q + 1 /\ DataOf(q)' = y
               /\ \A u \in Dequeuing : ~(rt'[u].pc = "release" /\ rt'[u].pos = q)
      <4>1. CASE SlotAt(q) = SlotAt(p)
        <5>1. q + 1 = p + RingCapacity
          BY <1>5, <3>2, <4>1
        <5>2. p < q
          BY <1>2, <1>6, <5>1
        <5>3. p + RingCapacity <= q
          BY <1>2, <4>1, <5>2, LapApart
        <5> QED
          BY <1>2, <1>6, <5>1, <5>3
      <4>2. CASE SlotAt(q) # SlotAt(p)
        <5>1. SeqOf(q) = q + 1 /\ DataOf(q) = y
          BY <1>5, <3>2, <4>2
        <5>2. \A u \in Dequeuing : ~(rt[u].pc = "release" /\ rt[u].pos = q)
          BY <1>4, <3>2, <4>2 DEF Threads
        <5> QED
          BY <5>1, <5>2 DEF InFlight
      <4> QED
        BY <4>1, <4>2
    <3> QED
      BY <2>1, <3>1, <3>2 DEF InFlight
  <2>2. ASSUME NEW u \in Dequeuing, NEW q \in Nat, Ahead(u, q)' PROVE Ahead(u, q)
    BY <1>1, <1>3, <1>4, <2>2 DEF Ahead, Threads
  <2> QED
    BY <2>1, <2>2 DEF Quiet
<1> QED
  BY <1>0, <1>1, <1>7, <1>8, <1>9, <1>10, QuietSteps DEF SeqRingInv

\* fetch_add of the MPMC queue's other end
LEMMA TicketSteps ==
  ASSUME SeqRingParameters, SeqRingInv, NEW t \in Dequeuing, DequeueTicket(t)
  PROVE  SeqRingInv'
<1>0. SeqRingTypes /\ RoleInv /\ SeqInv /\ FlightInv /\ TakenInv /\ t \in Threads
  BY DEF SeqRingInv, Threads
<1>1. /\ rt[t].pc = "idle" /\ kind = "mpmc" /\ Go(t, "read", deq, NoData) /\ deq' = deq + 1
      /\ UNCHANGED <<kind, enq, cell, sent, taken>>
  BY DEF DequeueTicket
<1>2. enq \in Nat /\ deq \in Nat
  BY <1>0 DEF SeqRingTypes
<1>3. rt'[t].pc = "read" /\ rt'[t].pos = deq
  BY <1>0, <1>1, OneGoes
<1>4. \A u \in Threads : u # t => rt'[u] = rt[u]
  BY <1>0, <1>1, OneGoes
<1>5. SeqRingTypes'
  <2>1. rt' \in [Threads -> [pc : {"idle"} \cup Producing \cup Taking, pos : Nat, item : Data]]
    BY <1>0, <1>1, <1>2, GoType DEF Taking, Data
  <2> QED
    BY <1>0, <1>1, <1>2, <2>1 DEF SeqRingTypes
<1>6. RoleInv'
  <2>1. RoleOf(t)'
    BY <1>1, <1>2, <1>3 DEF RoleOf, Holding, Producing, Taking
  <2>2. ASSUME NEW u \in Threads, u # t PROVE Apart(t, u)'
    <3>1. rt'[u] = rt[u] /\ RoleOf(u) /\ rt[u].pos \in Nat
      BY <1>0, <1>4, <2>2, ThreadType DEF RoleInv
    <3>2. rt'[u].pc \in Taking => rt'[u].pos # deq
      BY <1>1, <1>2, <3>1 DEF RoleOf
    <3> QED
      BY <1>3, <3>2 DEF Apart, Holding
  <2>3. \A u \in Threads : Apart(t, u)'
    BY <2>2 DEF Apart
  <2>4. deq' \in Nat /\ deq' >= deq /\ ~(kind = "mpsc")
    BY <1>1, <1>2
  <2> QED
    BY <1>0, <1>1, <1>2, <2>1, <2>3, <2>4, OtherRoles
<1>7. SeqInv'
  <2>1. \A q \in Nat : SeqOf(q)' = SeqOf(q)
    BY <1>1 DEF SeqOf
  <2>2. SeqAt(t)'
    BY <1>1, <1>3 DEF SeqAt
  <2>3. \A u \in Threads : (u # t /\ rt[u].pc = "publish") => cell'[SlotAt(rt[u].pos)].data = DataOf(rt[u].pos)
    BY <1>1 DEF DataOf
  <2> QED
    BY <1>0, <1>1, <1>2, <2>1, <2>2, <2>3, OtherSeqs
<1>8. Quiet
  <2>1. \A q \in Nat, y \in Data : InFlight(q, y)' => InFlight(q, y)
    BY <1>0, <1>1, StillFlight DEF Holding
  <2>2. ASSUME NEW u \in Dequeuing, NEW q \in Nat, Ahead(u, q)' PROVE Ahead(u, q)
    <3>1. u # t => rt'[u] = rt[u]
      BY <1>4 DEF Threads
    <3> QED
      BY <1>1, <1>2, <1>3, <2>2, <3>1 DEF Ahead
  <2> QED
    BY <2>1, <2>2 DEF Quiet
<1> QED
  BY <1>0, <1>1, <1>5, <1>6, <1>7, <1>8, QuietSteps DEF SeqRingInv

\* the one consumer of an MPSC ring finds its slot published
LEMMA PopCheckSteps ==
  ASSUME SeqRingParameters, SeqRingInv, NEW t \in Dequeuing, PopCheck(t)
  PROVE  SeqRingInv'
<1>0. SeqRingTypes /\ RoleInv /\ SeqInv /\ FlightInv /\ TakenInv /\ t \in Threads
  BY DEF SeqRingInv, Threads
<1>1. /\ rt[t].pc = "idle" /\ kind = "mpsc" /\ Go(t, "read", deq, NoData)
      /\ SeqOf(deq) = deq + 1 /\ UNCHANGED <<kind, enq, deq, cell, sent, taken>>
  BY DEF PopCheck, SeqOf
<1>9. t = CHOOSE d \in Dequeuing : TRUE
  BY DEF PopCheck
<1>2. enq \in Nat /\ deq \in Nat
  BY <1>0 DEF SeqRingTypes
<1>3. rt'[t].pc = "read" /\ rt'[t].pos = deq
  BY <1>0, <1>1, OneGoes
<1>4. \A u \in Threads : u # t => rt'[u] = rt[u]
  BY <1>0, <1>1, OneGoes
<1>5. SeqRingTypes'
  <2>1. rt' \in [Threads -> [pc : {"idle"} \cup Producing \cup Taking, pos : Nat, item : Data]]
    BY <1>0, <1>1, <1>2, GoType DEF Taking, Data
  <2> QED
    BY <1>0, <1>1, <1>2, <2>1 DEF SeqRingTypes
<1>6. RoleInv'
  <2>1. RoleOf(t)'
    BY <1>1, <1>2, <1>3, <1>9 DEF RoleOf, Holding, Producing, Taking
  <2>2. ASSUME NEW u \in Threads, u # t PROVE Apart(t, u)'
    <3>1. rt'[u] = rt[u] /\ RoleOf(u)
      BY <1>0, <1>4, <2>2 DEF RoleInv
    <3>2. rt'[u].pc \notin Taking
      BY <1>1, <1>9, <2>2, <3>1 DEF RoleOf
    <3> QED
      BY <1>3, <3>2 DEF Apart, Holding
  <2>3. \A u \in Threads : Apart(t, u)'
    BY <2>2 DEF Apart
  <2> QED
    BY <1>0, <1>1, <1>2, <2>1, <2>3, OtherRoles
<1>7. SeqInv'
  <2>1. \A q \in Nat : SeqOf(q)' = SeqOf(q)
    BY <1>1 DEF SeqOf
  <2>2. cell'[SlotAt(deq)].seq = deq + 1
    BY <1>1 DEF SeqOf
  <2>3. SeqAt(t)'
    BY <1>1, <1>3, <2>2 DEF SeqAt, SeqOf
  <2>4. \A u \in Threads : (u # t /\ rt[u].pc = "publish") => cell'[SlotAt(rt[u].pos)].data = DataOf(rt[u].pos)
    BY <1>1 DEF DataOf
  <2>5. \A q \in Nat : q < deq' => SeqOf(q) >= q + RingCapacity
    BY <1>0, <1>1 DEF SeqInv
  <2> QED
    BY <1>0, <1>1, <1>2, <2>1, <2>3, <2>4, <2>5, OtherSeqs
<1>8. Quiet
  <2>1. \A q \in Nat, y \in Data : InFlight(q, y)' => InFlight(q, y)
    BY <1>0, <1>1, StillFlight DEF Holding
  <2>2. ASSUME NEW u \in Dequeuing, NEW q \in Nat, Ahead(u, q)' PROVE Ahead(u, q)
    <3>1. u # t => rt'[u] = rt[u]
      BY <1>4 DEF Threads
    <3> QED
      BY <1>1, <1>2, <1>3, <2>2, <3>1 DEF Ahead
  <2> QED
    BY <2>1, <2>2 DEF Quiet
<1> QED
  BY <1>0, <1>1, <1>5, <1>6, <1>7, <1>8, QuietSteps DEF SeqRingInv

LEMMA PopAdvanceSteps ==
  ASSUME SeqRingParameters, SeqRingInv, NEW t \in Dequeuing, PopAdvance(t)
  PROVE  SeqRingInv'
<1>0. SeqRingTypes /\ RoleInv /\ SeqInv /\ FlightInv /\ TakenInv /\ t \in Threads
  BY DEF SeqRingInv, Threads
<1>1. /\ rt[t].pc = "advance" /\ Go(t, "idle", 0, NoData) /\ deq' = rt[t].pos + 1
      /\ UNCHANGED <<kind, enq, cell, sent, taken>>
  BY DEF PopAdvance
<1>2. enq \in Nat /\ deq \in Nat /\ kind \in {"mpmc", "mpsc"} /\ RoleOf(t) /\ SeqAt(t) /\ RingCapacity \in Nat
  BY <1>0 DEF SeqRingTypes, RoleInv, SeqInv, SeqRingParameters
<1>3. kind = "mpsc" /\ rt[t].pos = deq /\ deq' = deq + 1 /\ SeqOf(deq) >= deq + RingCapacity
  BY <1>1, <1>2 DEF RoleOf, SeqAt, Taking, Holding
<1>4. rt'[t].pc = "idle"
  BY <1>0, <1>1, OneGoes
<1>5. \A u \in Threads : u # t => rt'[u] = rt[u]
  BY <1>0, <1>1, OneGoes
<1>6. SeqRingTypes'
  <2>1. rt' \in [Threads -> [pc : {"idle"} \cup Producing \cup Taking, pos : Nat, item : Data]]
    BY <1>0, <1>1, GoType DEF Data
  <2> QED
    BY <1>0, <1>1, <1>2, <1>3, <2>1 DEF SeqRingTypes
<1>7. RoleInv'
  <2>1. RoleOf(t)'
    BY <1>4 DEF RoleOf, Holding, Producing, Taking
  <2>2. \A u \in Threads : Apart(t, u)'
    BY <1>4 DEF Apart, Holding, Taking
  <2>3. deq' \in Nat /\ deq' >= deq /\ rt[t].pc \in Taking
    BY <1>1, <1>2, <1>3 DEF Taking
  <2> QED
    BY <1>0, <1>1, <1>2, <2>1, <2>2, <2>3, OtherRoles
<1>8. SeqInv'
  <2>1. \A q \in Nat : SeqOf(q)' = SeqOf(q)
    BY <1>1 DEF SeqOf
  <2>2. SeqAt(t)'
    BY <1>4 DEF SeqAt
  <2>3. \A u \in Threads : (u # t /\ rt[u].pc = "publish") => cell'[SlotAt(rt[u].pos)].data = DataOf(rt[u].pos)
    BY <1>1 DEF DataOf
  <2>4. \A q \in Nat : q < deq' => SeqOf(q) >= q + RingCapacity
    <3> SUFFICES ASSUME NEW q \in Nat, q < deq' PROVE SeqOf(q) >= q + RingCapacity
      OBVIOUS
    <3>1. q < deq \/ q = deq
      BY <1>2, <1>3
    <3> QED
      BY <1>0, <1>3, <3>1 DEF SeqInv
  <2> QED
    BY <1>0, <1>1, <1>2, <2>1, <2>2, <2>3, <2>4, OtherSeqs
<1>9. Quiet
  <2>1. \A q \in Nat, y \in Data : InFlight(q, y)' => InFlight(q, y)
    BY <1>0, <1>1, StillFlight DEF Holding
  <2>2. ASSUME NEW u \in Dequeuing, NEW q \in Nat, Ahead(u, q)' PROVE Ahead(u, q)
    <3>1. u # t => rt'[u] = rt[u]
      BY <1>5 DEF Threads
    <3> QED
      BY <1>2, <1>3, <1>4, <2>2, <3>1 DEF Ahead
  <2> QED
    BY <2>1, <2>2 DEF Quiet
<1> QED
  BY <1>0, <1>1, <1>6, <1>7, <1>8, <1>9, QuietSteps DEF SeqRingInv

\* the item of position p goes from the items in flight to what t has taken
LEMMA TakenFlight ==
  ASSUME SeqRingTypes, FlightInv, TakenInv, NEW t \in Dequeuing, NEW p \in Nat, NEW x \in Data,
         InFlight(p, x), Ahead(t, p), p <= deq,
         \A q \in Nat, y \in Data : InFlight(q, y)' => InFlight(q, y) /\ q # p,
         \A u \in Dequeuing, q \in Nat : Ahead(u, q)' => Ahead(u, q),
         \A q \in Nat : Ahead(t, q)' => q >= deq,
         taken' = [taken EXCEPT ![t] = Append(@, x)], UNCHANGED <<enq, deq, sent>>
  PROVE  FlightInv' /\ TakenInv'
<1>1. x \in Items /\ x[2] <= sent[x[1]] /\ deq \in Nat
  BY DEF FlightInv, SeqRingTypes
<1>2. FlightInv'
  BY DEF FlightInv
<1>3. /\ \A u \in Dequeuing : taken[u] \in Seq(Items)
      /\ taken'[t] = Append(taken[t], x) /\ \A u \in Dequeuing : u # t => taken'[u] = taken[u]
  BY DEF SeqRingTypes
<1> DEFINE n == Len(taken[t])
<1>4. /\ n \in Nat /\ DOMAIN taken[t] = 1 .. n /\ DOMAIN taken'[t] = 1 .. (n + 1)
      /\ taken'[t][n + 1] = x /\ \A i \in 1 .. n : taken'[t][i] = taken[t][i]
  BY <1>1, <1>3
<1>5. ASSUME NEW u \in Dequeuing, NEW i \in DOMAIN taken[u]
      PROVE  /\ taken[u][i] # x /\ taken[u][i][2] <= sent[taken[u][i][1]]
             /\ u = t /\ taken[u][i][1] = x[1] => taken[u][i][2] < x[2]
             /\ \A q \in Nat, y \in Data : InFlight(q, y) =>
                  /\ taken[u][i] # y
                  /\ Ahead(u, q) /\ taken[u][i][1] = y[1] => taken[u][i][2] < y[2]
  BY DEF TakenInv
<1> HIDE DEF n
<1>6. ASSUME NEW u \in Dequeuing, NEW i \in DOMAIN taken'[u]
      PROVE  taken'[u][i][2] <= sent[taken'[u][i][1]]
  <2>1. CASE u = t /\ i = n + 1
    BY <1>1, <1>4, <2>1
  <2>2. CASE u # t \/ i \in 1 .. n
    BY <1>3, <1>4, <1>5, <1>6, <2>2
  <2> QED
    BY <1>4, <1>6, <2>1, <2>2
<1>7. ASSUME NEW u \in Dequeuing, NEW i \in DOMAIN taken'[u], NEW j \in DOMAIN taken'[u],
             i < j, taken'[u][i][1] = taken'[u][j][1]
      PROVE  taken'[u][i][2] < taken'[u][j][2]
  <2>1. CASE u = t /\ j = n + 1
    <3>1. i \in 1 .. n
      BY <1>4, <1>7, <2>1
    <3> QED
      BY <1>4, <1>5, <1>7, <2>1, <3>1
  <2>2. CASE u = t /\ j \in 1 .. n
    <3>1. i \in 1 .. n
      BY <1>4, <1>7, <2>2
    <3> QED
      BY <1>4, <1>7, <2>2, <3>1 DEF TakenInv
  <2>3. CASE u # t
    BY <1>3, <1>7, <2>3 DEF TakenInv
  <2> QED
    BY <1>4, <1>7, <2>1, <2>2, <2>3
<1>8. ASSUME NEW u \in Dequeuing, NEW i \in DOMAIN taken'[u], NEW q \in Nat, NEW y \in Data, InFlight(q, y)'
      PROVE  /\ taken'[u][i] # y
             /\ Ahead(u, q)' /\ taken'[u][i][1] = y[1] => taken'[u][i][2] < y[2]
  <2>1. InFlight(q, y) /\ q # p
    BY <1>8
  <2>2. CASE u = t /\ i = n + 1
    <3>1. x # y
      <4>1. x[2] \in Nat /\ y[2] \in Nat /\ (p < q \/ q < p)
        BY <1>1, <2>1 DEF FlightInv, Items
      <4>2. x[1] = y[1] => x[2] < y[2] \/ y[2] < x[2]
        BY <2>1, <4>1 DEF FlightInv
      <4> QED
        BY <4>1, <4>2
    <3>2. Ahead(t, q)' => p < q
      BY <1>1, <2>1
    <3> QED
      BY <1>4, <2>1, <2>2, <3>1, <3>2 DEF FlightInv
  <2>3. CASE u # t \/ i \in 1 .. n
    BY <1>3, <1>4, <1>5, <1>8, <2>1, <2>3
  <2> QED
    BY <1>4, <1>8, <2>2, <2>3
<1>9. ASSUME NEW u \in Dequeuing, NEW v \in Dequeuing, u # v,
             NEW i \in DOMAIN taken'[u], NEW j \in DOMAIN taken'[v]
      PROVE  taken'[u][i] # taken'[v][j]
  <2>1. CASE u = t /\ i = n + 1
    BY <1>3, <1>4, <1>5, <1>9, <2>1
  <2>2. CASE v = t /\ j = n + 1
    BY <1>3, <1>4, <1>5, <1>9, <2>2
  <2>3. CASE (u # t \/ i \in 1 .. n) /\ (v # t \/ j \in 1 .. n)
    <3>1. i \in DOMAIN taken[u] /\ taken'[u][i] = taken[u][i]
      BY <1>3, <1>4, <1>9, <2>3
    <3>2. j \in DOMAIN taken[v] /\ taken'[v][j] = taken[v][j]
      BY <1>3, <1>4, <1>9, <2>3
    <3> QED
      BY <1>9, <3>1, <3>2 DEF TakenInv
  <2> QED
    BY <1>4, <1>9, <2>1, <2>2, <2>3
<1>10. TakenInv'
  BY <1>6, <1>7, <1>8, <1>9 DEF TakenInv
<1> QED
  BY <1>2, <1>10

LEMMA ReadSteps ==
  ASSUME SeqRingParameters, SeqRingInv, NEW t \in Dequeuing, DequeueRead(t)
  PROVE  SeqRingInv'
<1>0. SeqRingTypes /\ RoleInv /\ SeqInv /\ FlightInv /\ TakenInv /\ t \in Threads
  BY DEF SeqRingInv, Threads
<1> DEFINE p == rt[t].pos
           x == DataOf(p)
<1>1. /\ rt[t].pc = "read" /\ Go(t, "release", p, x)
      /\ taken' = [taken EXCEPT ![t] = Append(@, x)]
      /\ UNCHANGED <<kind, enq, deq, cell, sent>>
  BY DEF DequeueRead, DataOf
<1>2. /\ enq \in Nat /\ deq \in Nat /\ kind \in {"mpmc", "mpsc"} /\ p \in Nat /\ x \in Data
      /\ RoleOf(t) /\ SeqAt(t)
  BY <1>0, ThreadType, SlotType DEF SeqRingTypes, RoleInv, SeqInv
<1>3. SeqOf(p) = p + 1
  BY <1>1, <1>2 DEF DequeueRead, SeqAt, SeqOf
<1>4. p <= deq /\ (kind = "mpmc" => p < deq)
  BY <1>1, <1>2 DEF RoleOf, Taking
<1>5. rt'[t].pc = "release" /\ rt'[t].pos = p
  BY <1>0, <1>1, OneGoes
<1>6. \A u \in Threads : u # t => rt'[u] = rt[u]
  BY <1>0, <1>1, OneGoes
<1>7. \A u \in Dequeuing : ~(rt[u].pc = "release" /\ rt[u].pos = p)
  BY <1>0, <1>1 DEF RoleInv, Apart, Taking, Threads
<1>8. InFlight(p, x)
  BY <1>3, <1>7 DEF InFlight
<1>9. x \in Items
  BY <1>0, <1>2, <1>8 DEF FlightInv
<1>10. SeqRingTypes'
  <2>1. rt' \in [Threads -> [pc : {"idle"} \cup Producing \cup Taking, pos : Nat, item : Data]]
    BY <1>0, <1>1, <1>2, GoType DEF Taking
  <2>2. taken' \in [Dequeuing -> Seq(Items)]
    <3> HIDE DEF x
    <3> QED
      BY <1>0, <1>1, <1>9 DEF SeqRingTypes
  <2> QED
    BY <1>0, <1>1, <2>1, <2>2 DEF SeqRingTypes
<1>11. RoleInv'
  <2>1. RoleOf(t)'
    BY <1>1, <1>2, <1>5 DEF RoleOf, Holding, Producing, Taking
  <2>2. ASSUME NEW u \in Threads, u # t PROVE Apart(t, u)'
    <3>1. rt'[u] = rt[u] /\ Apart(t, u)
      BY <1>0, <1>6, <2>2 DEF RoleInv
    <3> QED
      BY <1>1, <1>5, <2>2, <3>1 DEF Apart, Taking, Holding
  <2>3. \A u \in Threads : Apart(t, u)'
    BY <2>2 DEF Apart
  <2> QED
    BY <1>0, <1>1, <1>2, <2>1, <2>3, OtherRoles
<1>12. SeqInv'
  <2>1. \A q \in Nat : SeqOf(q)' = SeqOf(q)
    BY <1>1 DEF SeqOf
  <2>2. cell'[SlotAt(p)].seq = p + 1
    BY <1>1, <1>3 DEF SeqOf
  <2>3. SeqAt(t)'
    BY <1>5, <2>2 DEF SeqAt, SeqOf
  <2>4. \A u \in Threads : (u # t /\ rt[u].pc = "publish") => cell'[SlotAt(rt[u].pos)].data = DataOf(rt[u].pos)
    BY <1>1 DEF DataOf
  <2>5. kind = "mpsc" => \A q \in Nat : q < deq' => SeqOf(q) >= q + RingCapacity
    BY <1>0, <1>1 DEF SeqInv
  <2> QED
    BY <1>0, <1>1, <1>2, <2>1, <2>3, <2>4, <2>5, OtherSeqs
<1>13. ASSUME NEW q \in Nat, NEW y \in Data, InFlight(q, y)' PROVE InFlight(q, y) /\ q # p
  <2>1. CASE \E u \in Queueing : rt'[u].pc \in Holding /\ rt'[u].pos = q /\ rt'[u].item = y
    <3>1. PICK u \in Queueing : rt'[u].pc \in Holding /\ rt'[u].pos = q /\ rt'[u].item = y
      BY <2>1
    <3>2. u # t /\ u \in Threads
      BY <1>5, <3>1 DEF Holding, Threads
    <3>3. rt[u].pc \in Holding /\ rt[u].pos = q /\ rt[u].item = y
      BY <1>6, <3>1, <3>2
    <3>4. SeqOf(q) <= q
      BY <1>0, <3>2, <3>3 DEF SeqInv, SeqAt, Holding
    <3>5. q # p
      BY <1>2, <1>3, <3>4
    <3> QED
      BY <3>3, <3>5 DEF InFlight
  <2>2. CASE /\ SeqOf(q)' = q + 1 /\ DataOf(q)' = y
             /\ \A u \in Dequeuing : ~(rt'[u].pc = "release" /\ rt'[u].pos = q)
    <3>1. SeqOf(q) = q + 1 /\ DataOf(q) = y
      BY <1>1, <2>2 DEF SeqOf, DataOf
    <3>2. q # p
      BY <1>5, <2>2
    <3>3. \A u \in Dequeuing : ~(rt[u].pc = "release" /\ rt[u].pos = q)
      BY <1>1, <1>6, <2>2 DEF Threads
    <3> QED
      BY <3>1, <3>2, <3>3 DEF InFlight
  <2> QED
    BY <1>13, <2>1, <2>2 DEF InFlight
<1>14. /\ \A u \in Dequeuing, q \in Nat : Ahead(u, q)' => Ahead(u, q)
       /\ \A q \in Nat : Ahead(t, q)' => q >= deq
       /\ Ahead(t, p)
  <2>1. \A u \in Dequeuing : u # t => rt'[u] = rt[u]
    BY <1>6 DEF Threads
  <2> QED
    BY <1>1, <1>5, <2>1 DEF Ahead
<1>15. FlightInv' /\ TakenInv'
  <2> HIDE DEF p, x
  <2> QED
    BY <1>0, <1>1, <1>2, <1>4, <1>8, <1>13, <1>14, TakenFlight
<1> QED
  BY <1>10, <1>11, <1>12, <1>15 DEF SeqRingInv

-----------------------------------------------------------------------------
(* The theorem *)

LEMMA InitSeqRing == SeqRingParameters /\ SRInit => SeqRingInv
<1> SUFFICES ASSUME SeqRingParameters, SRInit PROVE SeqRingInv
  OBVIOUS
<1>1. \A t \in Threads : rt[t].pc = "idle"
  BY DEF SRInit, Threads, Resting
<1>2. SeqRingTypes
  <2>1. kind \in {"mpmc", "mpsc"} /\ enq \in Nat /\ deq \in Nat
    BY DEF SRInit, SeqRingParameters
  <2>2. cell \in [RingSlots -> [seq : Nat, data : Data]]
    BY DEF SRInit, SeqRingParameters, RingSlots, Data
  <2>3. rt \in [Threads -> [pc : {"idle"} \cup Producing \cup Taking, pos : Nat, item : Data]]
    BY DEF SRInit, Threads, Resting, Data
  <2>4. sent \in [Queueing -> Nat] /\ taken \in [Dequeuing -> Seq(Items)]
    BY DEF SRInit
  <2> QED
    BY <2>1, <2>2, <2>3, <2>4 DEF SeqRingTypes
<1>3. RoleInv
  BY <1>1 DEF RoleInv, RoleOf, Apart, Holding, Producing, Taking
<1>4. \A p \in Nat : SeqOf(p) = SlotAt(p) /\ SlotAt(p) <= p /\ SlotAt(p) \in Nat
  BY SlotRange DEF SRInit, SeqOf
<1>5. SeqInv
  BY <1>1, <1>4 DEF SeqInv, SeqAt, SRInit
<1>6. \A p \in Nat, x \in Data : ~InFlight(p, x)
  BY <1>1, <1>4 DEF InFlight, Holding, Threads
<1>7. FlightInv
  BY <1>6 DEF FlightInv
<1>8. TakenInv
  BY DEF TakenInv, SRInit
<1> QED
  BY <1>2, <1>3, <1>5, <1>7, <1>8 DEF SeqRingInv

LEMMA NextSeqRing == SeqRingParameters /\ SeqRingInv /\ [SRNext]_srVars => SeqRingInv'
<1> SUFFICES ASSUME SeqRingParameters, SeqRingInv, [SRNext]_srVars PROVE SeqRingInv'
  OBVIOUS
<1>1. ASSUME NEW t \in Queueing, EnqueueTicket(t) PROVE SeqRingInv'
  <2>1. /\ Go(t, "fill", enq, <<t, sent[t] + 1>>) /\ rt[t].pc = "idle" /\ kind = "mpmc"
        /\ enq' = enq + 1 /\ sent' = [sent EXCEPT ![t] = @ + 1] /\ UNCHANGED <<kind, deq, cell, taken>>
    BY <1>1 DEF EnqueueTicket
  <2> QED
    BY <2>1, ClaimSteps
<1>2. ASSUME NEW t \in Queueing, Claim(t) PROVE SeqRingInv'
  <2>1. rt[t].pc = "claim" /\ RoleOf(t) /\ SeqAt(t) /\ UNCHANGED <<kind, deq, cell, taken>>
    BY <1>2 DEF Claim, SeqRingInv, RoleInv, SeqInv, Threads
  <2>2. CASE enq = rt[t].pos /\ enq' = enq + 1 /\ sent' = [sent EXCEPT ![t] = @ + 1]
             /\ Go(t, "fill", rt[t].pos, rt[t].item)
    <3>1. rt[t].item = <<t, sent[t] + 1>> /\ (kind = "mpsc" => SeqOf(enq) = enq)
      BY <2>1, <2>2 DEF RoleOf, SeqAt
    <3>2. Go(t, "fill", enq, <<t, sent[t] + 1>>)
      BY <2>2, <3>1
    <3> QED
      BY <2>1, <2>2, <3>1, <3>2, ClaimSteps
  <2>3. CASE Go(t, "check", enq, rt[t].item) /\ UNCHANGED <<enq, sent>>
    BY <2>1, <2>3, LocalSteps
  <2> QED
    BY <1>2, <2>2, <2>3 DEF Claim
<1>3. ASSUME NEW t \in Queueing, EnqueueFill(t) \/ EnqueuePublish(t) \/ LoadPos(t) \/ CheckSeq(t) \/ GiveUp(t)
      PROVE  SeqRingInv'
  BY <1>3, FillSteps, PublishSteps, LocalSteps
<1>4. ASSUME NEW t \in Dequeuing,
             DequeueTicket(t) \/ DequeueRead(t) \/ DequeueRelease(t) \/ PopCheck(t) \/ PopAdvance(t)
      PROVE  SeqRingInv'
  BY <1>4, TicketSteps, ReadSteps, ReleaseSteps, PopCheckSteps, PopAdvanceSteps
<1>5. CASE UNCHANGED srVars
  BY <1>5 DEF srVars, SeqRingInv, SeqRingTypes, RoleInv, RoleOf, Apart, SeqInv, SeqAt, FlightInv, InFlight,
     TakenInv, Ahead, SeqOf, DataOf
<1> QED
  BY <1>1, <1>2, <1>3, <1>4, <1>5 DEF SRNext

LEMMA SeqRingImplies == SeqRingParameters /\ SeqRingInv => RingsFaithful
<1> SUFFICES ASSUME SeqRingParameters, SeqRingInv PROVE RingsFaithful
  OBVIOUS
<1>0. SeqRingTypes /\ RoleInv /\ SeqInv /\ FlightInv /\ TakenInv
  BY DEF SeqRingInv
<1>1. TakenOnce
  <2>1. Total \in Nat
    BY FS_CardinalityType DEF Total, SeqRingParameters
  <2>2. ASSUME NEW t \in Dequeuing, NEW i \in DOMAIN taken[t]
        PROVE  taken[t][i] # NoData /\ taken[t][i][2] <= sent[taken[t][i][1]]
    <3>1. taken[t] \in Seq(Items)
      BY <1>0 DEF SeqRingTypes
    <3>2. taken[t][i] \in Items
      BY <3>1
    <3>3. taken[t][i] # NoData
      <4>1. PICK d \in Queueing, n \in Nat : taken[t][i] = <<d, n>>
        BY <3>2 DEF Items
      <4>2. <<d, n>> # <<>>
        OBVIOUS
      <4> QED
        BY <4>1, <4>2 DEF NoData
    <3> QED
      BY <1>0, <3>3 DEF TakenInv
  <2>3. ASSUME NEW t \in Dequeuing, NEW i \in 1 .. Total, NEW j \in 1 .. Total,
               i < j, j <= Len(taken[t]), taken[t][i][1] = taken[t][j][1]
        PROVE  taken[t][i][2] < taken[t][j][2]
    <3>1. taken[t] \in Seq(Items)
      BY <1>0 DEF SeqRingTypes
    <3>2. i \in DOMAIN taken[t] /\ j \in DOMAIN taken[t]
      BY <2>1, <2>3, <3>1
    <3> QED
      BY <1>0, <2>3, <3>2 DEF TakenInv
  <2> QED
    BY <1>0, <2>2, <2>3 DEF TakenOnce, TakenInv
<1>2. SlotOwned
  <2> SUFFICES ASSUME NEW t \in Threads, NEW u \in Threads, t # u,
                      rt[t].pc \in {"publish", "release"}, rt[u].pc \in {"publish", "release"},
                      SlotAt(rt[t].pos) = SlotAt(rt[u].pos)
               PROVE  FALSE
    BY <1>0 DEF SlotOwned, SeqRingTypes
  <2> DEFINE p == rt[t].pos
             r == rt[u].pos
  <2>1. p \in Nat /\ r \in Nat /\ SeqAt(t) /\ SeqAt(u) /\ Apart(t, u) /\ SeqOf(p) = SeqOf(r)
    BY <1>0, ThreadType DEF RoleInv, SeqInv, SeqOf
  <2>2. /\ rt[t].pc = "publish" => SeqOf(p) = p
        /\ rt[t].pc = "release" => SeqOf(p) = p + 1
        /\ rt[u].pc = "publish" => SeqOf(r) = r
        /\ rt[u].pc = "release" => SeqOf(r) = r + 1
    BY <2>1 DEF SeqAt
  <2>3. rt[t].pc = rt[u].pc => p # r
    BY <2>1 DEF Apart, Holding, Taking
  <2>4. (p < r => p + RingCapacity <= r) /\ (r < p => r + RingCapacity <= p)
    BY <2>1, LapApart
  <2> HIDE DEF p, r
  <2> QED
    BY <2>1, <2>2, <2>3, <2>4 DEF SeqRingParameters
<1>3. FullMeansFull
  <2> SUFFICES ASSUME NEW t \in Queueing, rt[t].pc = "check", SeqOf(rt[t].pos) < rt[t].pos
               PROVE  enq - deq >= RingCapacity
    BY DEF FullMeansFull, SeqOf
  <2> DEFINE p == rt[t].pos
             c == p - RingCapacity
  <2>1. p \in Nat /\ RoleOf(t) /\ t \in Threads
    BY <1>0, ThreadType DEF RoleInv, Threads
  <2>2. p <= enq /\ kind = "mpsc" /\ enq \in Nat /\ deq \in Nat /\ RingCapacity \in Nat \ {0}
    BY <1>0, <2>1 DEF RoleOf, Holding, SeqRingTypes, SeqRingParameters
  <2>3. p >= RingCapacity
    <3>1. SlotAt(p) <= SeqOf(p) /\ SeqOf(p) \in Nat
      BY <1>0, <2>1, SlotType DEF SeqInv
    <3>2. p < RingCapacity => SlotAt(p) = p
      BY <2>1, <2>2 DEF SlotAt
    <3> QED
      BY <2>1, <2>2, <3>1, <3>2
  <2>4. c \in Nat /\ SlotAt(c) = SlotAt(p)
    <3>1. c \in Nat /\ p = c + RingCapacity
      BY <2>1, <2>2, <2>3
    <3> HIDE DEF p, c
    <3> QED
      BY <2>2, <3>1, ModLap DEF SlotAt
  <2>5. c < deq => SeqOf(c) >= c + RingCapacity
    BY <1>0, <2>2, <2>4 DEF SeqInv
  <2>6. SeqOf(c) = SeqOf(p)
    BY <2>4 DEF SeqOf
  <2>7. SeqOf(p) < p /\ p = c + RingCapacity /\ SeqOf(p) \in Nat
    BY <1>0, <2>1, <2>2, SlotType
  <2> HIDE DEF p, c
  <2> QED
    BY <2>1, <2>2, <2>4, <2>5, <2>6, <2>7
<1> QED
  BY <1>1, <1>2, <1>3 DEF RingsFaithful

\* Both rings deliver each item once and each producer's in order, two threads
\* never are in one slot, and a push gives up only on a full ring, whatever the
\* number of threads and items and the capacity (mpmc_queue.hpp:25-88,
\* mpsc_ring.hpp:29-95).
THEOREM RingsSafe == SeqRingParameters => (SRSpec => []RingsFaithful)
<1> SUFFICES ASSUME SeqRingParameters PROVE SRSpec => []RingsFaithful
  OBVIOUS
<1>1. SRInit => SeqRingInv
  BY InitSeqRing
<1>2. SeqRingInv /\ [SRNext]_srVars => SeqRingInv'
  BY NextSeqRing
<1>3. SeqRingInv => RingsFaithful
  BY SeqRingImplies
<1> QED
  BY <1>1, <1>2, <1>3, PTL DEF SRSpec

-----------------------------------------------------------------------------
(* Embedder *)

EmbedTickets == (Nat \ {0}) \X ESlots
EmbedEntries == EmbedTickets \X {"E_CANCELED", "E_NOT_FOUND"}
EmbedSlots ==
  [state : {"free", "ready", "running"}, ticket : EmbedTickets \cup {NoTicket}, input : Nat,
   text : {0, 1}, media : {0, 1}]
InsidePcs == {"fill", "publish", "running", "clear", "retire", "vacate", "release"}
EmbedCalls ==
  [pc : InsidePcs \cup {"idle", "acquire", "state", "history"}, mask : SUBSET ESlots, at : ESlots,
   ticket : EmbedTickets \cup {NoTicket}, kind : {"text", "image", "audio", "multimodal"}, open : BOOLEAN]

EmbedType ==
  /\ free \subseteq ESlots /\ counter \in Nat \ {0}
  /\ eslot \in [ESlots -> EmbedSlots]
  /\ ecall \in [Callers -> EmbedCalls]
  /\ mine \in [Callers -> SUBSET EmbedTickets]
  /\ issued \subseteq EmbedTickets

Inside(t) == ecall[t].pc \in InsidePcs
Running(t) == ecall[t].pc \in {"running", "clear", "retire", "vacate"}
Empty(i) == eslot[i].text = 0 /\ eslot[i].media = 0
Ended(k) == k \in answered \/ \E n \in DOMAIN given : given[n][1] = k

\* The slot holds a new ticket that enqueue has not returned.
Filled(i, k) ==
  /\ k \in EmbedTickets /\ k[2] = i /\ k[1] < counter /\ k \notin issued
  /\ eslot[i].ticket = k /\ eslot[i].state = "free" /\ eslot[i].input = k[1]

\* A call that is inside a slot has taken it from the mask; what the slot holds
\* follows from how far the call is.
CallInv(t) ==
  /\ Inside(t) => ecall[t].at \notin free
  /\ ecall[t].pc \in {"fill", "release"} => eslot[ecall[t].at] = CleanSlot
  /\ ecall[t].pc = "publish" => Filled(ecall[t].at, ecall[t].ticket)
  /\ ecall[t].pc \in {"running", "clear", "retire"} =>
       /\ ecall[t].ticket \in mine[t] /\ ecall[t].ticket[2] = ecall[t].at
       /\ eslot[ecall[t].at].ticket = ecall[t].ticket
  /\ ecall[t].pc \in {"running", "clear"} => eslot[ecall[t].at].state = "running"
  /\ ecall[t].pc = "retire" => Ended(ecall[t].ticket) /\ Empty(ecall[t].at)
  /\ ecall[t].pc = "vacate" => eslot[ecall[t].at].ticket = NoTicket /\ Empty(ecall[t].at)

\* A query has found the ticket in its slot exactly when the ticket was open,
\* and a ticket that was over stays over.
QueryInv(t) ==
  ecall[t].pc \in {"state", "history"} =>
    /\ ecall[t].ticket \in issued /\ (ecall[t].pc = "state" <=> ecall[t].open)
    /\ ~ecall[t].open => ~Open(ecall[t].ticket)

UsersApart == \A t, u \in Callers : t # u /\ Inside(t) /\ Inside(u) => ecall[t].at # ecall[u].at

\* An open ticket is in its slot, with the input it was made for.
TicketInv(k) ==
  /\ eslot[k[2]].ticket = k /\ eslot[k[2]].input = k[1] /\ eslot[k[2]].state # "free"
  /\ k[2] \notin free /\ k \in issued

MineApart == \A t, u \in Callers : t # u => mine[t] \cap mine[u] = {}

\* A ticket that was returned is open or over, and in a slot only while open.
IssuedInv(k) ==
  /\ k[1] < counter /\ (eslot[k[2]].ticket = k => Open(k))
  /\ Open(k) \/ Ended(k)

\* A slot is clean, has a call inside it, or holds an open ticket.
SlotInv(i) ==
  /\ i \in free => eslot[i] = CleanSlot
  /\ i \notin free => \/ \E t \in Callers : Inside(t) /\ ecall[t].at = i
                      \/ eslot[i].ticket[2] = i /\ \E t \in Callers : eslot[i].ticket \in mine[t]
  /\ eslot[i].state = "running" => \E t \in Callers : Running(t) /\ ecall[t].at = i

InputInv(i) == eslot[i].input < counter /\ (eslot[i].input = 0 => Empty(i))
InputsApart == \A i, j \in ESlots : i # j /\ eslot[i].input = eslot[j].input => eslot[i].input = 0

\* Where the history keeps the nth ticket given up, if it is among the last.
Recent(n) == n + History > Len(given)
EntryAt(n) ==
  LET back == doneAt - (Len(given) + 1 - n) IN IF back >= 0 THEN back ELSE back + History

HistoryInv ==
  /\ given \in Seq(EmbedEntries) /\ doneAt \in 0 .. History - 1
  /\ done \in [0 .. History - 1 -> EmbedEntries \cup {NoEntry}]
  /\ \A n \in DOMAIN given : Recent(n) => done[EntryAt(n)] = given[n]
  /\ \A i \in 0 .. History - 1 :
       done[i] = NoEntry \/ \E n \in DOMAIN given : Recent(n) /\ EntryAt(n) = i /\ done[i] = given[n]

BufsInv == bufs = UNION {SlotCopies(i) : i \in ESlots}

EmbedCore ==
  /\ EmbedType
  /\ \A t \in Callers : CallInv(t) /\ QueryInv(t)
  /\ UsersApart
  /\ \A t \in Callers : \A k \in mine[t] : TicketInv(k)
  /\ MineApart
  /\ \A k \in issued : IssuedInv(k)
  /\ \A i \in ESlots : SlotInv(i) /\ InputInv(i)
  /\ InputsApart

EmbedInv == EmbedCore /\ HistoryInv /\ BufsInv /\ crossed = {}
\* A set of natural numbers has a least element.
LEMMA LeastElement ==
  ASSUME NEW T \in SUBSET Nat, T # {}
  PROVE  \E x \in T : \A y \in T : x <= y
<1> DEFINE R == OpToRel(<, Nat)
<1>1. PICK x \in T : \A y \in T : <<y, x>> \notin R
  <2>1. IsWellFoundedOn(R, Nat)
    BY NatLessThanWellFounded
  <2> HIDE DEF R
  <2> QED
    BY <2>1, WFMin
<1>2. \A y \in T : x <= y
  <2> SUFFICES ASSUME NEW y \in T PROVE x <= y
    OBVIOUS
  <2>1. <<y, x>> \notin R
    BY <1>1
  <2> QED
    BY <2>1 DEF OpToRel
<1> QED
  BY <1>2

\* The lowest set bit of the mask is set.
LEMMA LowestIn ==
  ASSUME NEW mask \in SUBSET ESlots, mask # {}
  PROVE  Lowest(mask) \in mask
<1>1. mask \in SUBSET Nat
  BY EmbedAssumption DEF ESlots
<1>2. \E i \in mask : \A j \in mask : i <= j
  BY <1>1, LeastElement
<1> QED
  BY <1>2 DEF Lowest

\* A set without two different elements has at most one.
LEMMA AtMostOne ==
  ASSUME NEW S, \A x, y \in S : x = y
  PROVE  Cardinality(S) <= 1
<1>1. CASE S = {}
  BY <1>1, FS_EmptySet
<1>2. CASE S # {}
  <2>1. PICK x \in S : TRUE
    BY <1>2
  <2>2. S = {x}
    BY <2>1
  <2> QED
    BY <2>2, FS_Singleton
<1> QED
  BY <1>1, <1>2

\* A ticket is a counter and a slot.
LEMMA TicketKinds ==
  /\ NoTicket \notin EmbedTickets /\ 0 \in ESlots
  /\ \A k \in EmbedTickets : k = <<k[1], k[2]>> /\ k[1] \in Nat \ {0} /\ k[2] \in ESlots
  /\ \A n \in Nat \ {0}, i \in ESlots : <<n, i>> \in EmbedTickets /\ <<n, i>>[1] = n /\ <<n, i>>[2] = i
BY EmbedAssumption DEF NoTicket, EmbedTickets, ESlots

\* A clean slot and a caller at rest.
LEMMA CleanFacts ==
  /\ CleanSlot \in EmbedSlots /\ CleanSlot.state = "free" /\ CleanSlot.text = 0 /\ CleanSlot.media = 0
  /\ CleanSlot.ticket = NoTicket /\ CleanSlot.input = 0
  /\ IdleCall \in EmbedCalls /\ IdleCall.pc = "idle"
BY TicketKinds DEF CleanSlot, EmbedSlots, IdleCall, EmbedCalls

\* What the type says of one caller and of one slot.
LEMMA CallerType ==
  ASSUME EmbedInv, NEW t \in Callers
  PROVE  ecall[t] \in EmbedCalls /\ mine[t] \subseteq EmbedTickets /\ mine[t] \subseteq issued
BY DEF EmbedInv, EmbedCore, EmbedType, TicketInv

LEMMA EmbedSlotType ==
  ASSUME EmbedInv, NEW i \in ESlots
  PROVE  eslot[i] \in EmbedSlots
BY DEF EmbedInv, EmbedCore, EmbedType

-----------------------------------------------------------------------------
\* An embedder is created with all its slots free.
LEMMA EmbedInit == EMInit => EmbedInv
<1> SUFFICES ASSUME EMInit PROVE EmbedInv
  OBVIOUS
<1> USE DEF EMInit
<1>1. EmbedType
  BY CleanFacts, EmbedAssumption DEF EmbedType
<1>2. \A t \in Callers : CallInv(t) /\ QueryInv(t)
  BY CleanFacts DEF CallInv, QueryInv, Inside, InsidePcs
<1>3. UsersApart
  BY CleanFacts DEF UsersApart, Inside, InsidePcs
<1>4. \A i \in ESlots : SlotInv(i) /\ InputInv(i)
  BY CleanFacts DEF SlotInv, InputInv, Empty
<1>5. InputsApart /\ MineApart
  BY CleanFacts DEF InputsApart, MineApart
<1>6. HistoryInv
  <2>1. given \in Seq(EmbedEntries) /\ DOMAIN given = {}
    OBVIOUS
  <2>2. doneAt \in 0 .. History - 1
    BY EmbedAssumption
  <2> QED
    BY <2>1, <2>2 DEF HistoryInv
<1>7. BufsInv
  <2>1. ASSUME NEW i \in ESlots PROVE SlotCopies(i) = {}
    BY CleanFacts DEF SlotCopies, CleanSlot
  <2> QED
    BY <2>1 DEF BufsInv
<1>8. EmbedCore
  BY <1>1, <1>2, <1>3, <1>4, <1>5 DEF EmbedCore
<1> QED
  BY <1>6, <1>7, <1>8 DEF EmbedInv

\* Nobody else is inside a call's slot, or holds a ticket of it.
LEMMA AloneInside ==
  ASSUME EmbedInv, NEW t \in Callers, Inside(t), NEW u \in Callers, u # t
  PROVE  /\ Inside(u) => ecall[u].at # ecall[t].at
         /\ \A k \in mine[u] : k[2] # ecall[t].at
<1>1. Inside(u) => ecall[u].at # ecall[t].at
  BY DEF EmbedInv, EmbedCore, UsersApart
<1>2. ASSUME NEW k \in mine[u], k[2] = ecall[t].at PROVE FALSE
  <2>1. k \in EmbedTickets /\ k # NoTicket /\ k \in issued /\ eslot[ecall[t].at].ticket = k
    BY <1>2, CallerType, TicketKinds DEF EmbedInv, EmbedCore, TicketInv
  <2>2. CallInv(t)
    BY DEF EmbedInv, EmbedCore
  <2>3. CASE ecall[t].pc \in {"fill", "release", "vacate"}
    BY <2>1, <2>2, <2>3, CleanFacts DEF CallInv
  <2>4. CASE ecall[t].pc = "publish"
    BY <2>1, <2>2, <2>4 DEF CallInv, Filled
  <2>5. CASE ecall[t].pc \in {"running", "clear", "retire"}
    <3>1. k \in mine[t]
      BY <2>1, <2>2, <2>5 DEF CallInv
    <3> QED
      BY <1>2, <3>1 DEF EmbedInv, EmbedCore, MineApart
  <2> QED
    BY <2>3, <2>4, <2>5 DEF Inside, InsidePcs
<1> QED
  BY <1>1, <1>2

\* While its owner is not inside it, nobody is inside an open ticket's slot.
LEMMA AloneWith ==
  ASSUME EmbedInv, NEW t \in Callers, ~Inside(t), NEW k \in mine[t], NEW u \in Callers
  PROVE  Inside(u) => ecall[u].at # k[2]
<1>1. CASE u = t
  BY <1>1
<1>2. CASE u # t
  BY <1>2, AloneInside
<1> QED
  BY <1>1, <1>2

\* A slot's open ticket is the one it holds: there are no two.
LEMMA OneTicket ==
  ASSUME EmbedInv, NEW t \in Callers, NEW k \in mine[t], NEW u \in Callers, NEW h \in mine[u], h[2] = k[2]
  PROVE  h = k /\ u = t
<1>1. h = k
  BY DEF EmbedInv, EmbedCore, TicketInv
<1> QED
  BY <1>1 DEF EmbedInv, EmbedCore, MineApart

-----------------------------------------------------------------------------
(* What a step of one call leaves alone.                                   *)

\* A ticket that is over stays over; endings are only added.
LEMMA EndedStays ==
  ASSUME answered \subseteq answered', NEW k, Ended(k),
         \A n \in DOMAIN given : n \in DOMAIN given' /\ given'[n] = given[n]
  PROVE  Ended(k)'
BY DEF Ended

\* A step of call t that touches slot i alone, where nobody else is.
LEMMA OneSlot ==
  ASSUME EmbedInv, EmbedType', NEW t \in Callers, NEW i \in ESlots,
         \A u \in Callers \ {t} : ecall'[u] = ecall[u] /\ mine'[u] = mine[u],
         \A j \in ESlots \ {i} : eslot'[j] = eslot[j] /\ (j \in free' <=> j \in free),
         \A u \in Callers \ {t} : (Inside(u) => ecall[u].at # i) /\ \A k \in mine[u] : k[2] # i,
         Inside(t) => ecall[t].at = i, Inside(t)' => ecall'[t].at = i,
         \A k \in mine'[t] \ mine[t] : k[2] = i /\ k \notin issued,
         \A k \in mine[t] \ mine'[t] : k[2] = i,
         counter' >= counter, issued \subseteq issued', \A k \in issued' \ issued : k[2] = i,
         answered \subseteq answered',
         \A n \in DOMAIN given : n \in DOMAIN given' /\ given'[n] = given[n],
         CallInv(t)', QueryInv(t)', SlotInv(i)', InputInv(i)',
         \A k \in mine'[t] : k[2] = i => TicketInv(k)',
         \A k \in issued' : k[2] = i => IssuedInv(k)',
         eslot'[i].input # 0 =>
           eslot'[i].input = eslot[i].input \/ eslot'[i].input = counter
  PROVE  EmbedCore'
<1>0. /\ counter \in Nat /\ counter' \in Nat
      /\ \A u \in Callers : ecall[u] \in EmbedCalls /\ mine[u] \subseteq EmbedTickets
      /\ \A j \in ESlots : eslot[j].input \in Nat /\ eslot[j].input < counter
  BY CallerType DEF EmbedInv, EmbedCore, EmbedType, InputInv, EmbedSlots
<1>1. \A u \in Callers \ {t} : Inside(u)' = Inside(u) /\ Running(u)' = Running(u)
  BY DEF Inside, Running
<1>2. ASSUME NEW u \in Callers \ {t} PROVE CallInv(u)'
  <2>1. CallInv(u) /\ ecall'[u] = ecall[u] /\ ecall[u].at \in ESlots /\ mine'[u] = mine[u]
    BY <1>0 DEF EmbedInv, EmbedCore, EmbedCalls
  <2>2. CASE ~Inside(u)
    BY <2>1, <2>2 DEF CallInv, Inside, InsidePcs
  <2>3. CASE Inside(u)
    <3> DEFINE j == ecall[u].at
    <3>1. j # i /\ eslot'[j] = eslot[j] /\ j \notin free' /\ ecall'[u].at = j
      BY <2>1, <2>3 DEF CallInv
    <3>2. Ended(ecall[u].ticket) => Ended(ecall[u].ticket)'
      BY EndedStays
    <3>3. Empty(j)' = Empty(j)
      BY <3>1 DEF Empty
    <3>4. Filled(j, ecall[u].ticket) => Filled(j, ecall[u].ticket)'
      <4> SUFFICES ASSUME Filled(j, ecall[u].ticket) PROVE Filled(j, ecall[u].ticket)'
        OBVIOUS
      <4>1. ecall[u].ticket[1] \in Nat /\ ecall[u].ticket[2] = j /\ ecall[u].ticket \notin issued'
        BY <3>1, TicketKinds DEF Filled
      <4> QED
        BY <1>0, <3>1, <4>1 DEF Filled
    <3> HIDE DEF j
    <3>5. ecall'[u].ticket = ecall[u].ticket /\ ecall'[u].pc = ecall[u].pc
      BY <2>1
    <3> QED
      BY <2>1, <3>1, <3>2, <3>3, <3>4, <3>5 DEF CallInv, j
  <2> QED
    BY <2>2, <2>3
<1>3. ASSUME NEW u \in Callers, NEW k \in mine'[u], k[2] # i PROVE k \in mine[u] /\ k[2] \in ESlots
  BY <1>0, <1>3, TicketKinds
<1>4. ASSUME NEW k \in issued PROVE Open(k)' => Open(k)
  BY <1>4 DEF Open
<1>5. ASSUME NEW k, k[2] # i, Open(k) PROVE Open(k)'
  BY <1>5 DEF Open
<1>6. ASSUME NEW u \in Callers \ {t} PROVE QueryInv(u)'
  <2>1. QueryInv(u) /\ ecall'[u] = ecall[u]
    BY DEF EmbedInv, EmbedCore
  <2> QED
    BY <1>4, <2>1 DEF QueryInv
<1>7. UsersApart'
  <2> SUFFICES ASSUME NEW u \in Callers, NEW v \in Callers, u # v, Inside(u)', Inside(v)'
               PROVE  ecall'[u].at # ecall'[v].at
    BY DEF UsersApart
  <2>1. CASE u # t /\ v # t
    BY <1>1, <2>1 DEF EmbedInv, EmbedCore, UsersApart
  <2>2. CASE u = t \/ v = t
    BY <1>1, <2>2
  <2> QED
    BY <2>1, <2>2
<1>8. ASSUME NEW u \in Callers, NEW k \in mine'[u] PROVE TicketInv(k)'
  <2>1. CASE k[2] = i
    <3>1. u = t
      BY <2>1
    <3> QED
      BY <2>1, <3>1
  <2>2. CASE k[2] # i
    <3>1. TicketInv(k) /\ k[2] \in ESlots /\ eslot'[k[2]] = eslot[k[2]]
      BY <1>3, <2>2 DEF EmbedInv, EmbedCore
    <3> QED
      BY <2>2, <3>1 DEF TicketInv
  <2> QED
    BY <2>1, <2>2
<1>9. MineApart'
  <2> SUFFICES ASSUME NEW u \in Callers, NEW v \in Callers, u # v, NEW k \in mine'[u], k \in mine'[v]
               PROVE  FALSE
    BY DEF MineApart
  <2>1. CASE k[2] = i
    BY <2>1
  <2>2. CASE k[2] # i
    BY <1>3, <2>2 DEF EmbedInv, EmbedCore, MineApart
  <2> QED
    BY <2>1, <2>2
<1>10. ASSUME NEW k \in issued', k[2] # i PROVE IssuedInv(k)'
  <2>1. k \in issued /\ IssuedInv(k) /\ k \in EmbedTickets
    BY <1>10 DEF EmbedInv, EmbedCore, EmbedType
  <2>2. k[2] \in ESlots /\ k[1] \in Nat /\ eslot'[k[2]] = eslot[k[2]]
    BY <1>10, <2>1, TicketKinds
  <2>3. (Open(k)' <=> Open(k)) /\ (Ended(k) => Ended(k)')
    <3>1. Ended(k) => Ended(k)'
      BY EndedStays
    <3>2. Open(k) => Open(k)'
      BY <1>5, <1>10
    <3> QED
      BY <1>4, <2>1, <3>1, <3>2
  <2>4. k[1] < counter'
    BY <1>0, <2>1, <2>2 DEF IssuedInv
  <2> QED
    BY <2>1, <2>2, <2>3, <2>4 DEF IssuedInv
<1>11. ASSUME NEW j \in ESlots \ {i} PROVE SlotInv(j)' /\ InputInv(j)'
  <2>1. SlotInv(j) /\ InputInv(j) /\ eslot'[j] = eslot[j] /\ (j \in free' <=> j \in free)
    BY DEF EmbedInv, EmbedCore
  <2>2. ASSUME NEW u \in Callers, Inside(u), ecall[u].at = j PROVE Inside(u)' /\ ecall'[u].at = j
    BY <1>1, <2>2
  <2>3. ASSUME NEW u \in Callers, Running(u), ecall[u].at = j PROVE Running(u)' /\ ecall'[u].at = j
    <3>1. Inside(u)
      BY <2>3 DEF Running, Inside, InsidePcs
    <3> QED
      BY <1>1, <2>3, <3>1
  <2>4. ASSUME NEW u \in Callers, eslot[j].ticket \in mine[u], eslot[j].ticket[2] = j
        PROVE  eslot[j].ticket \in mine'[u]
    BY <2>4
  <2>5. InputInv(j)'
    BY <1>0, <2>1 DEF InputInv, Empty
  <2> QED
    BY <2>1, <2>2, <2>3, <2>4, <2>5 DEF SlotInv
<1>12. InputsApart'
  <2> SUFFICES ASSUME NEW j \in ESlots, NEW l \in ESlots, j # l, eslot'[j].input = eslot'[l].input,
                      eslot'[j].input # 0
               PROVE  FALSE
    BY DEF InputsApart
  <2>1. CASE j # i /\ l # i
    BY <2>1 DEF EmbedInv, EmbedCore, InputsApart
  <2>2. CASE j = i
    <3>1. eslot'[l].input = eslot[l].input
      BY <2>2
    <3> QED
      BY <1>0, <2>2, <3>1 DEF EmbedInv, EmbedCore, InputsApart
  <2>3. CASE l = i
    <3>1. eslot'[j].input = eslot[j].input
      BY <2>3
    <3> QED
      BY <1>0, <2>3, <3>1 DEF EmbedInv, EmbedCore, InputsApart
  <2> QED
    BY <2>1, <2>2, <2>3
<1>13. \A u \in Callers : CallInv(u)' /\ QueryInv(u)'
  BY <1>2, <1>6
<1>14. \A k \in issued' : IssuedInv(k)'
  BY <1>10
<1>15. \A j \in ESlots : SlotInv(j)' /\ InputInv(j)'
  BY <1>11
<1> QED
  BY <1>7, <1>8, <1>9, <1>12, <1>13, <1>14, <1>15 DEF EmbedCore

\* A step that changes neither the history nor what was given up.
LEMMA SameHistory ==
  ASSUME EmbedInv, UNCHANGED <<done, doneAt, given>>
  PROVE  HistoryInv' /\ \A n \in DOMAIN given : n \in DOMAIN given' /\ given'[n] = given[n]
BY DEF EmbedInv, HistoryInv, Recent, EntryAt

\* A step that changes no copy.
LEMMA SameBufs ==
  ASSUME EmbedInv, bufs' = bufs, \A i \in ESlots : SlotCopies(i)' = SlotCopies(i)
  PROVE  BufsInv'
BY DEF EmbedInv, BufsInv

\* A step of one call that leaves the slots, the mask and the tickets alone.
LEMMA CallOnly ==
  ASSUME EmbedInv, NEW t \in Callers, NEW c \in EmbedCalls, ecall' = [ecall EXCEPT ![t] = c],
         UNCHANGED <<free, eslot, mine, bufs, issued, answered, given, done, doneAt>>, crossed' = {},
         counter' \in Nat, counter' >= counter,
         c.pc \in InsidePcs <=> Inside(t), Inside(t) => c.at = ecall[t].at,
         Running(t) => c.pc \in {"running", "clear", "retire", "vacate"},
         CallInv(t)', QueryInv(t)'
  PROVE  EmbedInv'
<1>1. /\ ecall'[t] = c /\ \A u \in Callers \ {t} : ecall'[u] = ecall[u]
      /\ ecall' \in [Callers -> EmbedCalls]
  BY DEF EmbedInv, EmbedCore, EmbedType
<1>2. EmbedType' /\ counter \in Nat
  BY <1>1 DEF EmbedInv, EmbedCore, EmbedType
<1>3. ASSUME NEW u \in Callers
      PROVE  /\ Inside(u)' = Inside(u) /\ (Inside(u) => ecall'[u].at = ecall[u].at)
             /\ Running(u) => Running(u)'
  BY <1>1 DEF Inside, Running
<1>4. ASSUME NEW u \in Callers PROVE CallInv(u)' /\ QueryInv(u)'
  <2>1. CASE u = t
    BY <2>1
  <2>2. CASE u # t
    <3>1. CallInv(u) /\ QueryInv(u) /\ ecall'[u] = ecall[u]
      BY <1>1, <2>2 DEF EmbedInv, EmbedCore
    <3>2. Filled(ecall[u].at, ecall[u].ticket) => Filled(ecall[u].at, ecall[u].ticket)'
      BY <1>2, <3>1, TicketKinds DEF Filled
    <3> QED
      BY <3>1, <3>2 DEF CallInv, QueryInv, Open, Inside, Ended, Empty
  <2> QED
    BY <2>1, <2>2
<1>5. UsersApart'
  BY <1>3 DEF EmbedInv, EmbedCore, UsersApart
<1>6. \A u \in Callers : \A k \in mine'[u] : TicketInv(k)'
  BY DEF EmbedInv, EmbedCore, TicketInv
<1>7. ASSUME NEW i \in ESlots PROVE SlotInv(i)' /\ InputInv(i)'
  <2>1. SlotInv(i) /\ InputInv(i) /\ eslot[i].input \in Nat
    BY EmbedSlotType DEF EmbedInv, EmbedCore, EmbedSlots
  <2>2. (\E u \in Callers : Inside(u) /\ ecall[u].at = i) => (\E u \in Callers : Inside(u)' /\ ecall'[u].at = i)
    BY <1>3
  <2>3. (\E u \in Callers : Running(u) /\ ecall[u].at = i) => (\E u \in Callers : Running(u)' /\ ecall'[u].at = i)
    <3>1. \A u \in Callers : Running(u) => Inside(u)
      BY DEF Running, Inside, InsidePcs
    <3> QED
      BY <1>3, <3>1
  <2>4. InputInv(i)'
    BY <1>2, <2>1 DEF InputInv, Empty
  <2> QED
    BY <2>1, <2>2, <2>3, <2>4 DEF SlotInv
<1>8. ASSUME NEW k \in issued' PROVE IssuedInv(k)'
  <2>1. IssuedInv(k) /\ k[1] \in Nat
    BY TicketKinds DEF EmbedInv, EmbedCore, EmbedType
  <2> QED
    BY <1>2, <2>1 DEF IssuedInv, Open, Ended
<1>9. MineApart' /\ InputsApart'
  BY DEF EmbedInv, EmbedCore, MineApart, InputsApart
<1>10. EmbedCore'
  BY <1>2, <1>4, <1>5, <1>6, <1>7, <1>8, <1>9 DEF EmbedCore
<1>11. HistoryInv' /\ BufsInv'
  BY SameHistory, SameBufs DEF SlotCopies
<1> QED
  BY <1>10, <1>11 DEF EmbedInv

-----------------------------------------------------------------------------
(* The steps that move a call and touch no slot.                           *)

\* A call outside every slot that asks about no ticket.
LEMMA QuietCall ==
  ASSUME NEW t \in Callers, ecall'[t].pc \in {"idle", "acquire"}
  PROVE  CallInv(t)' /\ QueryInv(t)'
BY DEF CallInv, QueryInv, Inside, InsidePcs

\* A request reads the mask.
LEMMA EnqueueStep ==
  ASSUME EmbedInv, NEW t \in Callers, NEW what \in {"text", "image", "audio", "multimodal"}, Enqueue(t, what)
  PROVE  EmbedInv'
<1> DEFINE c == [IdleCall EXCEPT !.pc = "acquire", !.mask = free, !.kind = what]
<1>1. free \subseteq ESlots /\ counter \in Nat /\ crossed = {} /\ ecall[t].pc = "idle"
  BY DEF Enqueue, EmbedInv, EmbedCore, EmbedType
<1>2. c \in EmbedCalls /\ c.pc = "acquire"
  BY <1>1, CleanFacts DEF EmbedCalls
<1>3. /\ ecall' = [ecall EXCEPT ![t] = c] /\ crossed' = {} /\ counter' = counter
      /\ UNCHANGED <<free, eslot, mine, bufs, issued, answered, given, done, doneAt>>
  BY <1>1 DEF Enqueue, Call, endVars
<1> HIDE DEF c
<1>4. counter' \in Nat /\ counter' >= counter
  BY <1>1, <1>3
<1>5. ~Inside(t) /\ ~Running(t) /\ c.pc \notin InsidePcs
  BY <1>1, <1>2 DEF Inside, InsidePcs, Running
<1>6. ecall'[t].pc = "acquire"
  BY <1>2, <1>3 DEF EmbedInv, EmbedCore, EmbedType
<1> QED
  BY <1>2, <1>3, <1>4, <1>5, <1>6, QuietCall, CallOnly

\* A request that fails keeps its slot until it gives it back.
LEMMA FillFailsStep ==
  ASSUME EmbedInv, NEW t \in Callers, FillFails(t)
  PROVE  EmbedInv'
<1> DEFINE d == [IdleCall EXCEPT !.pc = "release", !.at = ecall[t].at]
<1>1. /\ ecall[t] \in EmbedCalls /\ ecall[t].pc = "fill" /\ counter \in Nat /\ crossed = {}
      /\ crossed' = crossed /\ counter' = counter + 1 /\ ecall' = [ecall EXCEPT ![t] = d]
      /\ UNCHANGED <<free, eslot, mine, bufs, issued, answered, given, done, doneAt>>
  BY DEF FillFails, Call, EmbedInv, EmbedCore, EmbedType, endVars
<1>2. d \in EmbedCalls /\ d.pc = "release" /\ d.at = ecall[t].at
  BY <1>1, CleanFacts DEF EmbedCalls, InsidePcs
<1> HIDE DEF d
<1>3. counter' \in Nat /\ counter' >= counter
  BY <1>1
<1>4. ecall'[t] = d
  BY <1>1 DEF EmbedInv, EmbedCore, EmbedType
<1>5. CallInv(t) /\ Inside(t) /\ ~Running(t)
  BY <1>1 DEF EmbedInv, EmbedCore, Inside, InsidePcs, Running
<1>6. CallInv(t)' /\ QueryInv(t)'
  BY <1>1, <1>2, <1>4, <1>5 DEF CallInv, QueryInv, Inside, InsidePcs
<1>7. d.pc \in InsidePcs
  BY <1>2 DEF InsidePcs
<1> QED
  BY <1>1, <1>2, <1>3, <1>5, <1>6, <1>7, CallOnly

\* The provider computes from the input that the ticket was made for.
LEMMA EmbedStep ==
  ASSUME EmbedInv, NEW t \in Callers, NEW ret \in {"OK", "E_BACKEND"}, Embed(t, ret)
  PROVE  EmbedInv'
<1> DEFINE c == ecall[t]
           d == [c EXCEPT !.pc = "clear"]
<1>1. /\ c \in EmbedCalls /\ c.pc = "running" /\ counter \in Nat
      /\ UNCHANGED <<free, counter, eslot, mine, bufs, issued, answered, given, done, doneAt>>
      /\ ecall' = [ecall EXCEPT ![t] = d]
  BY DEF Embed, Call, EmbedInv, EmbedCore, EmbedType, endVars
<1>2. d \in EmbedCalls /\ d.pc = "clear" /\ d.at = c.at /\ d.ticket = c.ticket
  BY <1>1 DEF EmbedCalls, InsidePcs
<1>3. CallInv(t)
  BY DEF EmbedInv, EmbedCore
<1>4. crossed' = {}
  <2>1. c.ticket \in mine[t] /\ c.ticket[2] = c.at
    BY <1>1, <1>3 DEF CallInv
  <2>2. eslot[c.at].input = c.ticket[1]
    BY <2>1 DEF EmbedInv, EmbedCore, TicketInv
  <2> QED
    BY <2>2 DEF Embed, EmbedInv
<1> HIDE DEF d
<1>5. counter' \in Nat /\ counter' >= counter
  BY <1>1
<1>6. Inside(t) /\ d.pc \in InsidePcs /\ ecall'[t] = d
  BY <1>1, <1>2 DEF Inside, InsidePcs, EmbedInv, EmbedCore, EmbedType
<1>7. CallInv(t)' /\ QueryInv(t)'
  BY <1>1, <1>2, <1>3, <1>6 DEF CallInv, QueryInv, Inside, InsidePcs
<1> HIDE DEF c
<1> QED
  BY <1>1, <1>2, <1>4, <1>5, <1>6, <1>7, CallOnly DEF c

\* A query looks at the ticket of the slot.
LEMMA RequestStateStep ==
  ASSUME EmbedInv, NEW t \in Callers, NEW k \in issued, RequestState(t, k)
  PROVE  EmbedInv'
<1> DEFINE pc == IF eslot[k[2]].ticket = k THEN "state" ELSE "history"
           c == [IdleCall EXCEPT !.pc = pc, !.ticket = k, !.open = Open(k)]
<1>1. /\ ecall[t].pc = "idle" /\ counter \in Nat /\ crossed = {} /\ k \in EmbedTickets /\ Open(k) \in BOOLEAN
      /\ ecall' = [ecall EXCEPT ![t] = c] /\ crossed' = {} /\ counter' = counter
      /\ UNCHANGED <<free, eslot, mine, bufs, issued, answered, given, done, doneAt>>
  BY DEF RequestState, Call, EmbedInv, EmbedCore, EmbedType, endVars, Open
<1>2. pc \in {"state", "history"} /\ (pc = "state" <=> Open(k))
  <2>1. Open(k) => eslot[k[2]].ticket = k
    BY DEF Open, EmbedInv, EmbedCore, TicketInv
  <2>2. eslot[k[2]].ticket = k => Open(k)
    BY DEF EmbedInv, EmbedCore, IssuedInv
  <2> QED
    BY <2>1, <2>2
<1> HIDE DEF pc
<1>3. c \in EmbedCalls /\ c.pc = pc /\ c.ticket = k /\ c.open = Open(k)
  <2> HIDE DEF Open
  <2> QED
    BY <1>1, <1>2, CleanFacts DEF EmbedCalls
<1> HIDE DEF c
<1>4. counter' \in Nat /\ counter' >= counter
  BY <1>1
<1>5. ~Inside(t) /\ ~Running(t) /\ c.pc \notin InsidePcs
  BY <1>1, <1>2, <1>3 DEF Inside, InsidePcs, Running
<1>6. ecall'[t] = c
  BY <1>1, <1>3 DEF EmbedInv, EmbedCore, EmbedType
<1>7. Open(k)' = Open(k)
  BY <1>1 DEF Open
<1>8. QueryInv(t)' /\ CallInv(t)'
  BY <1>1, <1>2, <1>3, <1>5, <1>6, <1>7 DEF QueryInv, CallInv, Inside, InsidePcs
<1> QED
  BY <1>1, <1>3, <1>4, <1>5, <1>8, CallOnly

\* The second look answers it.
LEMMA StateAnsweredStep ==
  ASSUME EmbedInv, NEW t \in Callers, StateAnswered(t)
  PROVE  EmbedInv'
<1>1. /\ ecall[t].pc \in {"state", "history"} /\ counter \in Nat /\ crossed = {}
      /\ ecall' = [ecall EXCEPT ![t] = IdleCall] /\ crossed' = {} /\ counter' = counter
      /\ UNCHANGED <<free, eslot, mine, bufs, issued, answered, given, done, doneAt>>
  BY DEF StateAnswered, Call, EmbedInv, EmbedCore, EmbedType, endVars
<1>2. counter' \in Nat /\ counter' >= counter
  BY <1>1
<1>3. ~Inside(t) /\ ~Running(t) /\ IdleCall.pc \notin InsidePcs
  BY <1>1, CleanFacts DEF Inside, InsidePcs, Running
<1>4. ecall'[t].pc = "idle"
  BY <1>1, CleanFacts DEF EmbedInv, EmbedCore, EmbedType
<1> QED
  BY <1>1, <1>2, <1>3, <1>4, CleanFacts, QuietCall, CallOnly

\* acquire_free_slot: the bit that the fetch found set is the caller's.
LEMMA AcquireStep ==
  ASSUME EmbedInv, NEW t \in Callers, AcquireSlot(t)
  PROVE  EmbedInv'
<1> DEFINE c == ecall[t]
           i == Lowest(c.mask)
<1>k. /\ c \in EmbedCalls /\ c.pc = "acquire" /\ c.mask \in SUBSET ESlots /\ free \subseteq ESlots
      /\ UNCHANGED <<counter, eslot, done, doneAt, mine, issued, answered, given, bufs, crossed>>
      /\ crossed = {} /\ counter \in Nat
  BY DEF AcquireSlot, EmbedInv, EmbedCore, EmbedType, EmbedCalls, endVars
<1>a. /\ counter' \in Nat /\ counter' >= counter
      /\ ~Inside(t) /\ ~Running(t) /\ \A d \in {"acquire", "idle"} : d \notin InsidePcs
  BY <1>k DEF Inside, InsidePcs, Running
<1>b. c.mask # {} => /\ free' = free \ {i}
                     /\ ecall' = [ecall EXCEPT ![t] = IF i \in free THEN [c EXCEPT !.pc = "fill", !.mask = {}, !.at = i]
                                                      ELSE [c EXCEPT !.mask = free \ {i}]]
  BY DEF AcquireSlot, Call
<1>1. CASE c.mask = {}
  <2>1. ecall' = [ecall EXCEPT ![t] = IdleCall] /\ free' = free
    BY <1>1 DEF AcquireSlot, Call
  <2>2. ecall'[t].pc = "idle"
    BY <2>1, CleanFacts DEF EmbedInv, EmbedCore, EmbedType
  <2> QED
    BY <1>k, <1>a, <2>1, <2>2, CleanFacts, QuietCall, CallOnly
<1>2. CASE c.mask # {} /\ i \notin free
  <2> DEFINE d == [c EXCEPT !.mask = free \ {i}]
  <2>1. ecall' = [ecall EXCEPT ![t] = d] /\ free' = free
    <3>1. free \ {i} = free
      BY <1>2
    <3> QED
      BY <1>2, <1>b, <3>1
  <2>2. d \in EmbedCalls /\ d.pc = "acquire"
    BY <1>k DEF EmbedCalls
  <2> HIDE DEF d
  <2>3. ecall'[t].pc = "acquire"
    BY <2>1, <2>2 DEF EmbedInv, EmbedCore, EmbedType
  <2> QED
    BY <1>k, <1>a, <2>1, <2>2, <2>3, QuietCall, CallOnly
<1>3. CASE c.mask # {} /\ i \in free
  <2>1. PICK j \in ESlots : j = i
    BY <1>k, <1>3
  <2> DEFINE d == [c EXCEPT !.pc = "fill", !.mask = {}, !.at = j]
  <2>2. ecall' = [ecall EXCEPT ![t] = d] /\ free' = free \ {j} /\ j \in free
    BY <1>3, <1>b, <2>1
  <2>3. d \in EmbedCalls /\ d.pc = "fill" /\ d.at = j
    BY <1>k, <2>1 DEF EmbedCalls, InsidePcs
  <2> HIDE DEF d, i
  <2>4. ecall'[t] = d /\ \A u \in Callers \ {t} : ecall'[u] = ecall[u]
    BY <2>2, <2>3 DEF EmbedInv, EmbedCore, EmbedType
  <2>5. EmbedType'
    BY <1>k, <2>2, <2>3 DEF EmbedInv, EmbedCore, EmbedType
  <2>6. SlotInv(j) /\ InputInv(j) /\ eslot[j] = CleanSlot /\ eslot' = eslot /\ mine' = mine
    BY <1>k, <2>2 DEF EmbedInv, EmbedCore, SlotInv
  <2>7. \A u \in Callers : (Inside(u) => ecall[u].at # j) /\ \A k \in mine[u] : k[2] # j
    BY <2>2 DEF EmbedInv, EmbedCore, CallInv, TicketInv
  <2>8. CallInv(t)' /\ QueryInv(t)'
    BY <1>k, <2>2, <2>3, <2>4, <2>6 DEF CallInv, QueryInv, Inside, InsidePcs
  <2>9. SlotInv(j)' /\ InputInv(j)'
    <3>1. Inside(t)' /\ ecall'[t].at = j
      BY <2>3, <2>4 DEF Inside, InsidePcs
    <3>2. eslot'[j].state = "free"
      BY <2>6, CleanFacts
    <3>3. InputInv(j)'
      BY <1>k, <2>6 DEF InputInv, Empty
    <3> QED
      BY <1>k, <2>2, <2>6, <3>1, <3>2, <3>3 DEF SlotInv
  <2>10. \A k \in issued' : IssuedInv(k)'
    BY <1>k DEF EmbedInv, EmbedCore, IssuedInv, Open, Ended
  <2>11. \A n \in DOMAIN given : n \in DOMAIN given' /\ given'[n] = given[n]
    BY <1>k
  <2>12. EmbedCore'
    BY <1>k, <1>a, <2>2, <2>3, <2>4, <2>5, <2>6, <2>7, <2>8, <2>9, <2>10, <2>11, OneSlot
  <2>13. HistoryInv' /\ BufsInv'
    BY <1>k, SameHistory, SameBufs DEF SlotCopies
  <2> QED
    BY <1>k, <2>12, <2>13 DEF EmbedInv
<1> QED
  BY <1>1, <1>2, <1>3

-----------------------------------------------------------------------------
(* The steps inside a slot.                                                *)

\* What is known of the slot a call is inside.
LEMMA InsideSlot ==
  ASSUME EmbedInv, NEW t \in Callers, Inside(t), NEW i \in ESlots, ecall[t].at = i
  PROVE  /\ eslot[i] \in EmbedSlots /\ SlotInv(i) /\ InputInv(i) /\ CallInv(t) /\ i \notin free
         /\ counter \in Nat \ {0} /\ \A k \in mine[t] : k[2] = i => k = eslot[i].ticket
         /\ \A u \in Callers \ {t} : (Inside(u) => ecall[u].at # i) /\ \A k \in mine[u] : k[2] # i
<1>1. \A u \in Callers \ {t} : (Inside(u) => ecall[u].at # i) /\ \A k \in mine[u] : k[2] # i
  BY AloneInside
<1>2. \A k \in mine[t] : k[2] = i => k = eslot[i].ticket
  BY DEF EmbedInv, EmbedCore, TicketInv
<1> QED
  BY <1>1, <1>2, EmbedSlotType DEF EmbedInv, EmbedCore, EmbedType, CallInv

\* Tickets and their endings stay as they are, and the slot keeps its ticket.
LEMMA SameIssued ==
  ASSUME EmbedInv, NEW i \in ESlots, eslot'[i].ticket = eslot[i].ticket, UNCHANGED <<mine, issued>>,
         counter' = counter, answered \subseteq answered',
         \A n \in DOMAIN given : n \in DOMAIN given' /\ given'[n] = given[n]
  PROVE  \A k \in issued' : k[2] = i => IssuedInv(k)'
<1> SUFFICES ASSUME NEW k \in issued, k[2] = i PROVE IssuedInv(k)'
  OBVIOUS
<1>1. IssuedInv(k) /\ Open(k)' = Open(k)
  BY DEF EmbedInv, EmbedCore, Open
<1>2. Ended(k) => Ended(k)'
  BY EndedStays
<1> QED
  BY <1>1, <1>2 DEF IssuedInv

\* release_free_slot: the slot is clean and its caller leaves it.
LEMMA ReleaseStep ==
  ASSUME EmbedInv, NEW t \in Callers, ReleaseSlot(t)
  PROVE  EmbedInv'
<1>i. PICK i \in ESlots : ecall[t].at = i
  BY CallerType DEF EmbedCalls
<1>k. /\ ecall[t].pc = "release" /\ Inside(t) /\ counter \in Nat /\ crossed = {}
      /\ UNCHANGED <<counter, eslot, mine, bufs, issued, answered, given, done, doneAt>> /\ crossed' = crossed
      /\ ecall' = [ecall EXCEPT ![t] = IdleCall] /\ free' = free \cup {i}
  BY <1>i DEF ReleaseSlot, Call, EmbedInv, EmbedCore, EmbedType, Inside, InsidePcs, endVars
<1>1. ecall'[t].pc = "idle" /\ \A u \in Callers \ {t} : ecall'[u] = ecall[u]
  BY <1>k, CleanFacts DEF EmbedInv, EmbedCore, EmbedType
<1>2. EmbedType'
  BY <1>k, CleanFacts DEF EmbedInv, EmbedCore, EmbedType
<1>3. /\ SlotInv(i) /\ InputInv(i) /\ CallInv(t) /\ eslot[i] = CleanSlot
      /\ \A k \in mine[t] : k[2] = i => k = eslot[i].ticket
      /\ \A u \in Callers \ {t} : (Inside(u) => ecall[u].at # i) /\ \A k \in mine[u] : k[2] # i
  BY <1>i, <1>k, InsideSlot DEF CallInv
<1>4. ASSUME NEW k \in mine[t] PROVE k[2] # i
  <2>1. k # NoTicket
    BY CallerType, TicketKinds
  <2> QED
    BY <1>3, <2>1, CleanFacts
<1>5. SlotInv(i)' /\ InputInv(i)'
  BY <1>k, <1>3, CleanFacts DEF SlotInv, InputInv, Empty
<1>6. CallInv(t)' /\ QueryInv(t)'
  BY <1>1, QuietCall
<1>7. ~Inside(t)'
  BY <1>1 DEF Inside, InsidePcs
<1>8. HistoryInv' /\ BufsInv' /\ \A n \in DOMAIN given : n \in DOMAIN given' /\ given'[n] = given[n]
  BY <1>k, SameHistory, SameBufs DEF SlotCopies
<1>9. \A k \in issued' : k[2] = i => IssuedInv(k)'
  BY <1>k, <1>8, SameIssued
<1>10. EmbedCore'
  BY <1>i, <1>k, <1>1, <1>2, <1>3, <1>4, <1>5, <1>6, <1>7, <1>8, <1>9, OneSlot
<1> QED
  BY <1>k, <1>8, <1>10 DEF EmbedInv

\* Which copies a kind of request may make.
LEMMA CopyKinds ==
  ASSUME NEW what \in {"text", "image", "audio", "multimodal"}, NEW copies \in Copies(what)
  PROVE  copies.text \in {0, 1} /\ copies.media \in {0, 1}
BY DEF Copies, TextCopies, ImageCopies, AudioCopies, MultimodalCopies, CopiesOf

\* The counter makes every ticket and every input a new one.
LEMMA FillStep ==
  ASSUME EmbedInv, NEW t \in Callers, NEW copies \in Copies(ecall[t].kind), Fill(t, copies)
  PROVE  EmbedInv'
<1>i. PICK i \in ESlots : ecall[t].at = i
  BY CallerType DEF EmbedCalls
<1> DEFINE k == <<counter, i>>
           e == [state |-> "free", ticket |-> k, input |-> counter, text |-> copies.text, media |-> copies.media]
           c == [IdleCall EXCEPT !.pc = "publish", !.at = i, !.ticket = k]
<1>k. /\ ecall[t].pc = "fill" /\ Inside(t) /\ counter \in Nat \ {0} /\ crossed' = crossed /\ crossed = {}
      /\ copies.text \in {0, 1} /\ copies.media \in {0, 1} /\ counter' = counter + 1
      /\ UNCHANGED <<free, mine, issued, answered, given, done, doneAt>>
      /\ ecall' = [ecall EXCEPT ![t] = c] /\ eslot' = [eslot EXCEPT ![i] = e]
      /\ bufs' = bufs \cup {<<counter, m>> : m \in {n \in {"text", "media"} : copies[n] = 1}}
  BY <1>i, CopyKinds, CallerType
     DEF Fill, Call, EmbedInv, EmbedCore, EmbedType, EmbedCalls, Inside, InsidePcs, endVars
<1>2. /\ k \in EmbedTickets /\ k[1] = counter /\ k[2] = i
      /\ e \in EmbedSlots /\ e.state = "free" /\ e.ticket = k /\ e.input = counter
      /\ e.text = copies.text /\ e.media = copies.media
      /\ c \in EmbedCalls /\ c.pc = "publish" /\ c.at = i /\ c.ticket = k
  <2>1. k \in EmbedTickets /\ k[1] = counter /\ k[2] = i
    BY <1>k, TicketKinds
  <2> HIDE DEF k
  <2> QED
    BY <1>k, <2>1, CleanFacts DEF EmbedSlots, EmbedCalls, InsidePcs
<1>h. PICK k2 : k2 = k
  OBVIOUS
<1> HIDE DEF e, c, k
<1>1. /\ ecall'[t] = c /\ \A u \in Callers \ {t} : ecall'[u] = ecall[u]
      /\ eslot'[i] = e /\ \A j \in ESlots \ {i} : eslot'[j] = eslot[j]
  BY <1>k DEF EmbedInv, EmbedCore, EmbedType
<1>3. /\ SlotInv(i) /\ InputInv(i) /\ CallInv(t) /\ eslot[i] = CleanSlot /\ i \notin free
      /\ \A h \in mine[t] : h[2] = i => h = eslot[i].ticket
      /\ \A u \in Callers \ {t} : (Inside(u) => ecall[u].at # i) /\ \A h \in mine[u] : h[2] # i
  BY <1>i, <1>k, InsideSlot DEF CallInv
<1>4. EmbedType'
  BY <1>k, <1>2 DEF EmbedInv, EmbedCore, EmbedType
<1>5. ASSUME NEW h \in mine[t] PROVE h[2] # i
  <2>1. h # NoTicket
    BY CallerType, TicketKinds
  <2> QED
    BY <1>3, <2>1, CleanFacts
<1>6. k \notin issued
  BY <1>k, <1>2 DEF EmbedInv, EmbedCore, IssuedInv
<1>7. Inside(t)' /\ ~Running(t)
  BY <1>k, <1>1, <1>2 DEF Inside, InsidePcs, Running
<1>8. CallInv(t)' /\ QueryInv(t)'
  <2>1. counter < counter'
    BY <1>k
  <2>2. Filled(i, k2)'
    BY <1>h, <1>k, <1>1, <1>2, <1>6, <2>1 DEF Filled
  <2>3. ecall'[t].pc = "publish" /\ ecall'[t].at = i /\ ecall'[t].ticket = k2
    BY <1>h, <1>1, <1>2
  <2>4. Filled(ecall[t].at, ecall[t].ticket)'
    BY <2>2, <2>3 DEF Filled
  <2>5. i \notin free'
    BY <1>3, <1>k
  <2> QED
    BY <2>3, <2>4, <2>5 DEF CallInv, QueryInv, Inside, InsidePcs
<1>9. SlotInv(i)' /\ InputInv(i)'
  <2>1. InputInv(i)'
    BY <1>k, <1>1, <1>2 DEF InputInv
  <2> QED
    BY <1>k, <1>1, <1>2, <1>3, <1>7, <2>1 DEF SlotInv
<1>10. ASSUME NEW h \in issued', h[2] = i PROVE IssuedInv(h)'
  <2>1. IssuedInv(h) /\ h \in issued /\ h # k /\ h[1] \in Nat
    BY <1>k, <1>6, TicketKinds DEF EmbedInv, EmbedCore, EmbedType
  <2>2. eslot'[h[2]].ticket # h /\ h[1] < counter'
    BY <1>k, <1>1, <1>2, <1>10, <2>1 DEF IssuedInv
  <2> QED
    BY <1>k, <2>1, <2>2 DEF IssuedInv, Open, Ended
<1>11. HistoryInv' /\ \A n \in DOMAIN given : n \in DOMAIN given' /\ given'[n] = given[n]
  BY <1>k, SameHistory
<1>12. counter' >= counter /\ eslot'[i].input = counter
  BY <1>k, <1>1, <1>2
<1>13. EmbedCore'
  BY <1>i, <1>k, <1>1, <1>2, <1>3, <1>4, <1>5, <1>7, <1>8, <1>9, <1>10, <1>11, <1>12, OneSlot
<1>14. BufsInv'
  <2>1. SlotCopies(i) = {}
    BY <1>3, CleanFacts DEF SlotCopies, CleanSlot
  <2>2. SlotCopies(i)' = {<<counter, m>> : m \in {n \in {"text", "media"} : copies[n] = 1}}
    <3>1. e["text"] = copies["text"] /\ e["media"] = copies["media"]
      BY <1>2
    <3>2. eslot'[i].input = counter /\ \A n \in {"text", "media"} : eslot'[i][n] = copies[n]
      BY <1>1, <1>2, <3>1
    <3> QED
      BY <3>2 DEF SlotCopies
  <2>3. \A j \in ESlots \ {i} : SlotCopies(j)' = SlotCopies(j)
    BY <1>1 DEF SlotCopies
  <2>4. bufs = UNION {SlotCopies(j) : j \in ESlots}
    BY DEF EmbedInv, BufsInv
  <2>5. bufs' = UNION {SlotCopies(j)' : j \in ESlots}
    BY <1>k, <2>1, <2>2, <2>3, <2>4
  <2> QED
    BY <2>5 DEF BufsInv
<1> QED
  BY <1>k, <1>11, <1>13, <1>14 DEF EmbedInv

\* The state that makes the ticket its caller's.
LEMMA PublishStep ==
  ASSUME EmbedInv, NEW t \in Callers, Publish(t)
  PROVE  EmbedInv'
<1>i. PICK i \in ESlots : ecall[t].at = i
  BY CallerType DEF EmbedCalls
<1>p. PICK k : k = ecall[t].ticket
  OBVIOUS
<1> DEFINE e == [eslot[i] EXCEPT !.state = "ready"]
<1>k. /\ ecall[t].pc = "publish" /\ Inside(t) /\ counter \in Nat \ {0} /\ crossed' = crossed /\ crossed = {}
      /\ UNCHANGED <<free, counter, answered, given, done, doneAt, bufs>>
      /\ ecall' = [ecall EXCEPT ![t] = IdleCall] /\ eslot' = [eslot EXCEPT ![i] = e]
      /\ mine' = [mine EXCEPT ![t] = mine[t] \cup {k}] /\ issued' = issued \cup {k}
  BY <1>i, <1>p DEF Publish, Call, EmbedInv, EmbedCore, EmbedType, Inside, InsidePcs
<1>3. /\ eslot[i] \in EmbedSlots /\ SlotInv(i) /\ InputInv(i) /\ CallInv(t) /\ i \notin free
      /\ \A h \in mine[t] : h[2] = i => h = eslot[i].ticket
      /\ \A u \in Callers \ {t} : (Inside(u) => ecall[u].at # i) /\ \A h \in mine[u] : h[2] # i
  BY <1>i, <1>k, InsideSlot
<1>f. Filled(i, k)
  BY <1>i, <1>p, <1>k, <1>3 DEF CallInv
<1>2. /\ e \in EmbedSlots /\ e.state = "ready" /\ e.ticket = k /\ e.input = k[1]
      /\ e.text = eslot[i].text /\ e.media = eslot[i].media /\ e.input = eslot[i].input
  BY <1>3, <1>f DEF EmbedSlots, Filled
<1> HIDE DEF e
<1>1. /\ ecall'[t].pc = "idle" /\ \A u \in Callers \ {t} : ecall'[u] = ecall[u]
      /\ eslot'[i] = e /\ \A j \in ESlots \ {i} : eslot'[j] = eslot[j]
      /\ mine'[t] = mine[t] \cup {k} /\ \A u \in Callers \ {t} : mine'[u] = mine[u]
  BY <1>k, CleanFacts DEF EmbedInv, EmbedCore, EmbedType
<1>4. EmbedType'
  <2>1. mine' \in [Callers -> SUBSET EmbedTickets]
    BY <1>k, <1>f DEF EmbedInv, EmbedCore, EmbedType, Filled
  <2>2. ecall' \in [Callers -> EmbedCalls] /\ eslot' \in [ESlots -> EmbedSlots]
    BY <1>k, <1>2, CleanFacts DEF EmbedInv, EmbedCore, EmbedType
  <2> QED
    BY <1>k, <1>f, <2>1, <2>2 DEF EmbedInv, EmbedCore, EmbedType, Filled
<1>5. ASSUME NEW h \in mine'[t], h[2] = i PROVE TicketInv(h)'
  <2>1. h = k
    BY <1>1, <1>3, <1>5, <1>f DEF Filled
  <2> QED
    BY <1>k, <1>1, <1>2, <1>3, <1>5, <2>1 DEF TicketInv
<1>6. CallInv(t)' /\ QueryInv(t)' /\ ~Inside(t)'
  BY <1>1, QuietCall DEF Inside, InsidePcs
<1>7. SlotInv(i)' /\ InputInv(i)'
  <2>1. InputInv(i)'
    BY <1>k, <1>1, <1>2, <1>3 DEF InputInv, Empty
  <2>2. k[2] = i /\ k \in mine'[t]
    BY <1>1, <1>f DEF Filled
  <2> QED
    BY <1>k, <1>1, <1>2, <1>3, <2>1, <2>2 DEF SlotInv
<1>8. ASSUME NEW h \in issued', h[2] = i PROVE IssuedInv(h)'
  <2>1. CASE h = k
    <3>1. Open(h)'
      BY <1>1, <2>1 DEF Open
    <3> QED
      BY <1>k, <1>f, <2>1, <3>1 DEF IssuedInv, Filled
  <2>2. CASE h # k
    <3>1. IssuedInv(h) /\ eslot'[h[2]].ticket # h
      BY <1>k, <1>1, <1>2, <1>8, <2>2 DEF EmbedInv, EmbedCore
    <3>2. Open(h) => Open(h)'
      BY <1>1 DEF Open
    <3> QED
      BY <1>k, <3>1, <3>2 DEF IssuedInv, Ended
  <2> QED
    BY <2>1, <2>2
<1>9. HistoryInv' /\ \A n \in DOMAIN given : n \in DOMAIN given' /\ given'[n] = given[n]
  BY <1>k, SameHistory
<1>10. BufsInv'
  <2>1. ASSUME NEW j \in ESlots PROVE SlotCopies(j)' = SlotCopies(j)
    BY <1>1, <1>2 DEF SlotCopies
  <2> QED
    BY <1>k, <2>1, SameBufs
<1>11. \A h \in mine'[t] \ mine[t] : h[2] = i /\ h \notin issued
  BY <1>1, <1>f DEF Filled
<1>12. \A h \in issued' \ issued : h[2] = i
  BY <1>k, <1>f DEF Filled
<1>13. EmbedCore'
  BY <1>i, <1>k, <1>1, <1>2, <1>3, <1>4, <1>5, <1>6, <1>7, <1>8, <1>9, <1>11, <1>12, OneSlot
<1> QED
  BY <1>k, <1>9, <1>10, <1>13 DEF EmbedInv

\* The request runs: only the owner of the ticket may start it.
LEMMA CollectStep ==
  ASSUME EmbedInv, NEW t \in Callers, NEW k \in mine[t], Collect(t, k)
  PROVE  EmbedInv'
<1>i. PICK i \in ESlots : i = k[2]
  BY CallerType, TicketKinds
<1> DEFINE c == [IdleCall EXCEPT !.pc = "running", !.at = i, !.ticket = k]
           e == [eslot[i] EXCEPT !.state = "running"]
<1>k. /\ ecall[t].pc = "idle" /\ eslot[i].ticket = k /\ eslot[i].state = "ready" /\ k \in EmbedTickets
      /\ UNCHANGED <<free, counter, mine, bufs, crossed, issued, answered, given, done, doneAt>>
      /\ ecall' = [ecall EXCEPT ![t] = c] /\ eslot' = [eslot EXCEPT ![i] = e]
      /\ eslot[i] \in EmbedSlots /\ crossed = {} /\ counter \in Nat
  BY <1>i, CallerType DEF Collect, Call, EmbedInv, EmbedCore, EmbedType, endVars
<1>c. c \in EmbedCalls /\ c.pc = "running" /\ c.at = i /\ c.ticket = k
  BY <1>k, CleanFacts DEF EmbedCalls, InsidePcs
<1>e. /\ e \in EmbedSlots /\ e.state = "running" /\ e.ticket = k /\ e.input = eslot[i].input
      /\ e.text = eslot[i].text /\ e.media = eslot[i].media
  BY <1>k DEF EmbedSlots
<1> HIDE DEF c, e
<1>1. /\ ecall'[t] = c /\ \A u \in Callers \ {t} : ecall'[u] = ecall[u]
      /\ eslot'[i] = e /\ \A j \in ESlots \ {i} : eslot'[j] = eslot[j]
  BY <1>k DEF EmbedInv, EmbedCore, EmbedType
<1>2. ~Inside(t) /\ Inside(t)' /\ Running(t)'
  BY <1>k, <1>1, <1>c DEF Inside, InsidePcs, Running
<1>3. \A u \in Callers \ {t} : (Inside(u) => ecall[u].at # i) /\ \A h \in mine[u] : h[2] # i
  BY <1>i, <1>2, AloneWith, OneTicket
<1>4. TicketInv(k) /\ SlotInv(i) /\ InputInv(i)
  BY DEF EmbedInv, EmbedCore
<1>5. EmbedType'
  BY <1>k, <1>c, <1>e DEF EmbedInv, EmbedCore, EmbedType
<1>6. ASSUME NEW h \in mine'[t], h[2] = i PROVE TicketInv(h)'
  <2>1. h = k
    BY <1>i, <1>k, <1>6, OneTicket
  <2> QED
    BY <1>i, <1>k, <1>1, <1>e, <1>4, <2>1 DEF TicketInv
<1>7. CallInv(t)' /\ QueryInv(t)'
  BY <1>i, <1>k, <1>1, <1>2, <1>c, <1>e, <1>4 DEF CallInv, QueryInv, TicketInv
<1>8. SlotInv(i)' /\ InputInv(i)'
  <2>1. InputInv(i)'
    BY <1>k, <1>1, <1>e, <1>4 DEF InputInv, Empty
  <2>2. ecall'[t].at = i /\ i \notin free'
    BY <1>i, <1>k, <1>1, <1>c, <1>4 DEF TicketInv
  <2> QED
    BY <1>2, <2>1, <2>2 DEF SlotInv
<1>9. HistoryInv' /\ \A n \in DOMAIN given : n \in DOMAIN given' /\ given'[n] = given[n]
  BY <1>k, SameHistory
<1>10. \A h \in issued' : h[2] = i => IssuedInv(h)'
  BY <1>k, <1>1, <1>e, <1>9, SameIssued
<1>11. EmbedCore'
  BY <1>i, <1>k, <1>1, <1>c, <1>e, <1>2, <1>3, <1>5, <1>6, <1>7, <1>8, <1>9, <1>10, OneSlot
<1>12. BufsInv'
  <2>1. ASSUME NEW j \in ESlots PROVE SlotCopies(j)' = SlotCopies(j)
    BY <1>1, <1>e DEF SlotCopies
  <2> QED
    BY <1>k, <2>1, SameBufs
<1> QED
  BY <1>k, <1>9, <1>11, <1>12 DEF EmbedInv

\* slot_clear_buffers frees the slot's copies and nobody else's.
LEMMA ClearFacts ==
  ASSUME EmbedInv, NEW i \in ESlots, Clear(i)
  PROVE  /\ BufsInv' /\ eslot' \in [ESlots -> EmbedSlots]
         /\ \A j \in ESlots \ {i} : eslot'[j] = eslot[j]
         /\ eslot'[i].text = 0 /\ eslot'[i].media = 0 /\ eslot'[i].state = eslot[i].state
         /\ eslot'[i].ticket = eslot[i].ticket /\ eslot'[i].input = eslot[i].input
<1> DEFINE e == [eslot[i] EXCEPT !.text = 0, !.media = 0]
<1>1. eslot[i] \in EmbedSlots /\ eslot' = [eslot EXCEPT ![i] = e] /\ eslot \in [ESlots -> EmbedSlots]
  BY EmbedSlotType DEF Clear, EmbedInv, EmbedCore, EmbedType
<1>2. /\ e \in EmbedSlots /\ e.text = 0 /\ e.media = 0 /\ e.state = eslot[i].state
      /\ e.ticket = eslot[i].ticket /\ e.input = eslot[i].input
  BY <1>1 DEF EmbedSlots
<1> HIDE DEF e
<1>3. eslot'[i] = e /\ \A j \in ESlots \ {i} : eslot'[j] = eslot[j]
  BY <1>1
<1>4. BufsInv'
  <2>1. bufs' = bufs \ SlotCopies(i) /\ bufs = UNION {SlotCopies(j) : j \in ESlots}
    BY DEF Clear, EmbedInv, BufsInv
  <2>2. SlotCopies(i)' = {}
    BY <1>2, <1>3 DEF SlotCopies
  <2>3. \A j \in ESlots \ {i} : SlotCopies(j)' = SlotCopies(j)
    BY <1>3 DEF SlotCopies
  <2>4. ASSUME NEW j \in ESlots \ {i} PROVE SlotCopies(j) \cap SlotCopies(i) = {}
    <3>1. CASE eslot[j].input # eslot[i].input
      BY <3>1 DEF SlotCopies
    <3>2. CASE eslot[j].input = eslot[i].input
      <4>1. InputInv(i) /\ eslot[i].input = 0
        BY <3>2 DEF EmbedInv, EmbedCore, InputsApart
      <4> QED
        BY <4>1 DEF InputInv, Empty, SlotCopies
    <3> QED
      BY <3>1, <3>2
  <2>5. bufs' = UNION {SlotCopies(j)' : j \in ESlots}
    BY <2>1, <2>2, <2>3, <2>4
  <2> QED
    BY <2>5 DEF BufsInv
<1> QED
  BY <1>1, <1>2, <1>3, <1>4

\* A call that has cleared its slot holds the request's last step but two: the
\* provider has answered (embedder_collect) or the request is given up.
LEMMA ClearedStep ==
  ASSUME EmbedInv, NEW t \in Callers, NEW k \in mine[t], NEW c \in EmbedCalls, Clear(k[2]),
         c.pc = "retire", c.at = k[2], c.ticket = k, ecall' = [ecall EXCEPT ![t] = c],
         Inside(t) => ecall[t].at = k[2],
         \A u \in Callers \ {t} : Inside(u) => ecall[u].at # k[2],
         UNCHANGED <<free, counter, mine, issued, crossed>>, answered \subseteq answered', Ended(k)',
         \A n \in DOMAIN given : n \in DOMAIN given' /\ given'[n] = given[n], HistoryInv'
  PROVE  EmbedInv'
<1>i. PICK i \in ESlots : i = k[2]
  BY CallerType, TicketKinds
<1>k. TicketInv(k) /\ SlotInv(i) /\ InputInv(i) /\ k \in EmbedTickets /\ counter \in Nat /\ crossed' = {}
  BY CallerType DEF EmbedInv, EmbedCore, EmbedType
<1>b. /\ BufsInv' /\ eslot' \in [ESlots -> EmbedSlots]
      /\ \A j \in ESlots \ {i} : eslot'[j] = eslot[j]
      /\ eslot'[i].text = 0 /\ eslot'[i].media = 0 /\ eslot'[i].state = eslot[i].state
      /\ eslot'[i].ticket = eslot[i].ticket /\ eslot'[i].input = eslot[i].input
  BY <1>i, ClearFacts
<1>1. ecall'[t] = c /\ \A u \in Callers \ {t} : ecall'[u] = ecall[u]
  BY DEF EmbedInv, EmbedCore, EmbedType
<1>2. Inside(t)' /\ Running(t)'
  BY <1>1 DEF Inside, InsidePcs, Running
<1>3. \A u \in Callers \ {t} : (Inside(u) => ecall[u].at # i) /\ \A h \in mine[u] : h[2] # i
  BY <1>i, OneTicket
<1>4. EmbedType'
  BY <1>b DEF EmbedInv, EmbedCore, EmbedType
<1>5. ASSUME NEW h \in mine'[t], h[2] = i PROVE TicketInv(h)'
  <2>1. h = k
    BY <1>i, <1>5, OneTicket
  <2> QED
    BY <1>i, <1>k, <1>b, <2>1 DEF TicketInv
<1>6. CallInv(t)' /\ QueryInv(t)'
  <2>1. Empty(i)' /\ i \notin free' /\ eslot'[i].ticket = k /\ k \in mine'[t]
    BY <1>i, <1>k, <1>b DEF Empty, TicketInv
  <2>2. ecall'[t].pc = "retire" /\ ecall'[t].at = i /\ ecall'[t].ticket = k
    BY <1>i, <1>1
  <2>3. Ended(ecall[t].ticket)' /\ Empty(ecall[t].at)'
    BY <2>1, <2>2 DEF Ended, Empty
  <2> QED
    BY <1>i, <2>1, <2>2, <2>3 DEF CallInv, QueryInv
<1>7. SlotInv(i)' /\ InputInv(i)'
  <2>1. InputInv(i)'
    BY <1>k, <1>b DEF InputInv, Empty
  <2>2. ecall'[t].at = i /\ i \notin free'
    BY <1>i, <1>k, <1>1 DEF TicketInv
  <2> QED
    BY <1>2, <2>1, <2>2 DEF SlotInv
<1>8. \A h \in issued' : h[2] = i => IssuedInv(h)'
  BY <1>b, SameIssued
<1>9. EmbedCore'
  BY <1>i, <1>k, <1>b, <1>1, <1>2, <1>3, <1>4, <1>5, <1>6, <1>7, <1>8, OneSlot
<1> QED
  BY <1>k, <1>b, <1>9 DEF EmbedInv

\* embedder_collect after the provider has answered.
LEMMA CollectEndStep ==
  ASSUME EmbedInv, NEW t \in Callers, CollectEnd(t)
  PROVE  EmbedInv'
<1>p. PICK k : k = ecall[t].ticket
  OBVIOUS
<1> DEFINE c == [ecall[t] EXCEPT !.pc = "retire"]
<1>1. /\ ecall[t] \in EmbedCalls /\ ecall[t].pc = "clear" /\ Inside(t) /\ CallInv(t)
      /\ Clear(ecall[t].at) /\ ecall' = [ecall EXCEPT ![t] = c] /\ answered' = answered \cup {k}
      /\ UNCHANGED <<free, counter, mine, issued, given, done, doneAt, crossed>>
  BY <1>p, CallerType DEF CollectEnd, Call, EmbedInv, EmbedCore, Inside, InsidePcs
<1>2. k \in mine[t] /\ ecall[t].at = k[2]
  BY <1>p, <1>1 DEF CallInv
<1>3. c \in EmbedCalls /\ c.pc = "retire" /\ c.at = k[2] /\ c.ticket = k
  BY <1>p, <1>1, <1>2 DEF EmbedCalls, InsidePcs
<1> HIDE DEF c
<1>4. \A u \in Callers \ {t} : Inside(u) => ecall[u].at # k[2]
  BY <1>1, <1>2, AloneInside
<1>5. HistoryInv' /\ \A n \in DOMAIN given : n \in DOMAIN given' /\ given'[n] = given[n]
  BY <1>1, SameHistory
<1>6. Ended(k)'
  BY <1>1 DEF Ended
<1> QED
  BY <1>1, <1>2, <1>3, <1>4, <1>5, <1>6, ClearedStep

\* completed_ticket_store: the ring keeps the last tickets given up.
LEMMA StoreStep ==
  ASSUME EmbedInv, NEW k \in EmbedTickets, NEW err \in {"E_CANCELED", "E_NOT_FOUND"}, StoreCompleted(k, err)
  PROVE  /\ HistoryInv' /\ Ended(k)'
         /\ \A n \in DOMAIN given : n \in DOMAIN given' /\ given'[n] = given[n]
<1> DEFINE e == <<k, err>>
<1>1. /\ given \in Seq(EmbedEntries) /\ given' = Append(given, e) /\ e \in EmbedEntries
      /\ done' = [done EXCEPT ![doneAt] = e] /\ History \in Nat \ {0} /\ doneAt \in 0 .. History - 1
      /\ doneAt' = IF doneAt + 1 = History THEN 0 ELSE doneAt + 1
      /\ done \in [0 .. History - 1 -> EmbedEntries \cup {NoEntry}]
      /\ e[1] = k
  BY EmbedAssumption DEF StoreCompleted, EmbedInv, HistoryInv, EmbedEntries
<1> HIDE DEF e
<1>l. PICK len \in Nat : len = Len(given)
  BY <1>1
<1>2. /\ given' \in Seq(EmbedEntries) /\ Len(given') = len + 1 /\ given'[len + 1] = e
      /\ DOMAIN given' = 1 .. len + 1 /\ DOMAIN given = 1 .. len
      /\ \A n \in 1 .. len : given'[n] = given[n]
  BY <1>1, <1>l
<1>3. Ended(k)'
  <2>1. len + 1 \in DOMAIN given' /\ given'[len + 1][1] = k
    BY <1>1, <1>2
  <2> QED
    BY <2>1 DEF Ended
<1>4. doneAt' \in 0 .. History - 1 /\ done' \in [0 .. History - 1 -> EmbedEntries \cup {NoEntry}]
  BY <1>1
<1>5. EntryAt(len + 1)' = doneAt /\ Recent(len + 1)'
  BY <1>1, <1>2, <1>l DEF EntryAt, Recent
<1>6. ASSUME NEW n \in 1 .. len, Recent(n)'
      PROVE  Recent(n) /\ EntryAt(n)' = EntryAt(n) /\ EntryAt(n) # doneAt /\ EntryAt(n) \in 0 .. History - 1
  BY <1>1, <1>2, <1>6, <1>l DEF EntryAt, Recent
<1>7. ASSUME NEW n \in 1 .. len, Recent(n), EntryAt(n) # doneAt PROVE Recent(n)'
  <2>1. n + History > len /\ History \in Nat \ {0} /\ doneAt \in 0 .. History - 1
    BY <1>1, <1>7, <1>l DEF Recent
  <2>2. n + History # len + 1
    <3> SUFFICES ASSUME n + History = len + 1 PROVE FALSE
      OBVIOUS
    <3>1. doneAt - (len + 1 - n) < 0 /\ doneAt - (len + 1 - n) + History = doneAt
      BY <2>1
    <3> QED
      BY <1>7, <1>l, <2>1, <3>1 DEF EntryAt
  <2>3. n + History > len + 1
    BY <2>1, <2>2
  <2> QED
    BY <1>2, <2>3 DEF Recent
<1>8. ASSUME NEW n \in DOMAIN given', Recent(n)' PROVE done'[EntryAt(n)'] = given'[n]
  <2>1. CASE n = len + 1
    BY <1>1, <1>2, <1>5, <2>1
  <2>2. CASE n \in 1 .. len
    <3>1. done[EntryAt(n)] = given[n]
      BY <1>2, <1>6, <1>8, <2>2 DEF EmbedInv, HistoryInv
    <3> QED
      BY <1>1, <1>2, <1>6, <1>8, <2>2, <3>1
  <2> QED
    BY <1>2, <2>1, <2>2
<1>9. ASSUME NEW i \in 0 .. History - 1
      PROVE  \/ done'[i] = NoEntry
             \/ \E n \in DOMAIN given' : Recent(n)' /\ EntryAt(n)' = i /\ done'[i] = given'[n]
  <2>1. CASE i = doneAt
    <3>1. len + 1 \in DOMAIN given' /\ done'[i] = given'[len + 1]
      BY <1>1, <1>2, <2>1
    <3> QED
      BY <1>5, <2>1, <3>1
  <2>2. CASE i # doneAt
    <3>1. done'[i] = done[i]
      BY <1>1, <2>2
    <3>2. CASE done[i] = NoEntry
      BY <3>1, <3>2
    <3>3. CASE \E n \in DOMAIN given : Recent(n) /\ EntryAt(n) = i /\ done[i] = given[n]
      <4>1. PICK n \in 1 .. len : Recent(n) /\ EntryAt(n) = i /\ done[i] = given[n]
        BY <1>2, <3>3
      <4>2. Recent(n)' /\ EntryAt(n)' = i /\ n \in DOMAIN given'
        BY <1>2, <1>6, <1>7, <2>2, <4>1
      <4> QED
        BY <1>2, <3>1, <4>1, <4>2
    <3> QED
      BY <3>2, <3>3 DEF EmbedInv, HistoryInv
  <2> QED
    BY <2>1, <2>2
<1> QED
  BY <1>2, <1>3, <1>4, <1>8, <1>9 DEF HistoryInv

\* A request is given up; nobody is inside its slot.
LEMMA AbandonStep ==
  ASSUME EmbedInv, NEW t \in Callers, NEW k \in mine[t], NEW err \in {"E_CANCELED", "E_NOT_FOUND"},
         Abandon(t, k, err)
  PROVE  EmbedInv'
<1> DEFINE c == [IdleCall EXCEPT !.pc = "retire", !.at = k[2], !.ticket = k]
<1>1. /\ ecall[t].pc = "idle" /\ k \in EmbedTickets /\ k[2] \in ESlots
      /\ Clear(k[2]) /\ ecall' = [ecall EXCEPT ![t] = c] /\ StoreCompleted(k, err)
      /\ UNCHANGED <<free, counter, mine, issued, answered, crossed>>
  BY CallerType, TicketKinds DEF Abandon, Call
<1>2. c \in EmbedCalls /\ c.pc = "retire" /\ c.at = k[2] /\ c.ticket = k
  BY <1>1, CleanFacts DEF EmbedCalls, InsidePcs
<1> HIDE DEF c
<1>3. ~Inside(t)
  BY <1>1 DEF Inside, InsidePcs
<1>4. \A u \in Callers : Inside(u) => ecall[u].at # k[2]
  BY <1>3, AloneWith
<1>5. /\ HistoryInv' /\ Ended(k)'
      /\ \A n \in DOMAIN given : n \in DOMAIN given' /\ given'[n] = given[n]
  BY <1>1, StoreStep
<1> QED
  BY <1>1, <1>2, <1>3, <1>4, <1>5, ClearedStep

\* The slot lets go of a ticket whose request has ended.
LEMMA RetireStep ==
  ASSUME EmbedInv, NEW t \in Callers, RetireTicket(t)
  PROVE  EmbedInv'
<1>i. PICK i \in ESlots : ecall[t].at = i
  BY CallerType DEF EmbedCalls
<1>p. PICK k : k = ecall[t].ticket
  OBVIOUS
<1> DEFINE e == [eslot[i] EXCEPT !.ticket = NoTicket]
           c == [ecall[t] EXCEPT !.pc = "vacate"]
<1>k. /\ ecall[t] \in EmbedCalls /\ ecall[t].pc = "retire" /\ Inside(t) /\ counter \in Nat /\ crossed = {}
      /\ crossed' = crossed /\ UNCHANGED <<free, counter, issued, answered, given, done, doneAt, bufs>>
      /\ ecall' = [ecall EXCEPT ![t] = c] /\ eslot' = [eslot EXCEPT ![i] = e]
      /\ mine' = [mine EXCEPT ![t] = mine[t] \ {k}]
  BY <1>i, <1>p, CallerType DEF RetireTicket, Call, EmbedInv, EmbedCore, EmbedType, Inside, InsidePcs, endVars
<1>3. /\ eslot[i] \in EmbedSlots /\ SlotInv(i) /\ InputInv(i) /\ CallInv(t) /\ i \notin free
      /\ \A h \in mine[t] : h[2] = i => h = eslot[i].ticket
      /\ \A u \in Callers \ {t} : (Inside(u) => ecall[u].at # i) /\ \A h \in mine[u] : h[2] # i
  BY <1>i, <1>k, InsideSlot
<1>f. k \in mine[t] /\ k[2] = i /\ eslot[i].ticket = k /\ Empty(i) /\ Ended(k)
  BY <1>i, <1>p, <1>k, <1>3 DEF CallInv
<1>2. /\ e \in EmbedSlots /\ e.state = eslot[i].state /\ e.ticket = NoTicket /\ e.input = eslot[i].input
      /\ e.text = eslot[i].text /\ e.media = eslot[i].media
      /\ c \in EmbedCalls /\ c.pc = "vacate" /\ c.at = i
  BY <1>i, <1>k, <1>3 DEF EmbedSlots, EmbedCalls, InsidePcs
<1> HIDE DEF c, e
<1>1. /\ ecall'[t] = c /\ \A u \in Callers \ {t} : ecall'[u] = ecall[u]
      /\ eslot'[i] = e /\ \A j \in ESlots \ {i} : eslot'[j] = eslot[j]
      /\ mine'[t] = mine[t] \ {k} /\ \A u \in Callers \ {t} : mine'[u] = mine[u]
  BY <1>k DEF EmbedInv, EmbedCore, EmbedType
<1>4. EmbedType'
  <2>1. mine' \in [Callers -> SUBSET EmbedTickets]
    BY <1>k DEF EmbedInv, EmbedCore, EmbedType
  <2>2. ecall' \in [Callers -> EmbedCalls] /\ eslot' \in [ESlots -> EmbedSlots]
    BY <1>k, <1>2 DEF EmbedInv, EmbedCore, EmbedType
  <2> QED
    BY <1>k, <2>1, <2>2 DEF EmbedInv, EmbedCore, EmbedType
<1>5. ASSUME NEW h \in mine'[t] PROVE h[2] # i
  BY <1>1, <1>3, <1>f
<1>6. Inside(t)' /\ Running(t)'
  BY <1>1, <1>2 DEF Inside, InsidePcs, Running
<1>e. Empty(i)' /\ eslot'[i].ticket = NoTicket
  BY <1>1, <1>2, <1>f DEF Empty
<1>7. CallInv(t)' /\ QueryInv(t)'
  <2>1. ecall'[t].pc = "vacate" /\ ecall'[t].at = i
    BY <1>1, <1>2
  <2>2. Empty(ecall[t].at)'
    BY <1>e, <2>1 DEF Empty
  <2> QED
    BY <1>k, <1>3, <1>e, <2>1, <2>2 DEF CallInv, QueryInv
<1>8. SlotInv(i)' /\ InputInv(i)'
  <2>1. InputInv(i)'
    BY <1>k, <1>1, <1>2, <1>3, <1>e DEF InputInv
  <2>2. ecall'[t].at = i /\ i \notin free'
    BY <1>k, <1>1, <1>2, <1>3
  <2> QED
    BY <1>6, <2>1, <2>2 DEF SlotInv
<1>9. ASSUME NEW h \in issued', h[2] = i PROVE IssuedInv(h)'
  <2>1. IssuedInv(h) /\ h # NoTicket
    BY <1>k, TicketKinds DEF EmbedInv, EmbedCore, EmbedType
  <2>2. Open(h)' \/ Ended(h)
    <3>1. CASE h = k
      BY <1>f, <3>1
    <3>2. CASE h # k
      BY <1>1, <2>1, <3>2 DEF IssuedInv, Open
    <3> QED
      BY <3>1, <3>2
  <2> QED
    BY <1>k, <1>e, <1>9, <2>1, <2>2 DEF IssuedInv, Ended
<1>10. HistoryInv' /\ \A n \in DOMAIN given : n \in DOMAIN given' /\ given'[n] = given[n]
  BY <1>k, SameHistory
<1>11. BufsInv'
  <2>1. ASSUME NEW j \in ESlots PROVE SlotCopies(j)' = SlotCopies(j)
    BY <1>1, <1>2 DEF SlotCopies
  <2> QED
    BY <1>k, <2>1, SameBufs
<1>12. \A h \in mine[t] \ mine'[t] : h[2] = i
  BY <1>1, <1>f
<1>13. EmbedCore'
  BY <1>i, <1>k, <1>1, <1>2, <1>3, <1>4, <1>5, <1>6, <1>7, <1>8, <1>9, <1>10, <1>12, OneSlot
<1> QED
  BY <1>k, <1>10, <1>11, <1>13 DEF EmbedInv

\* Its state is the last thing of the slot to be reset.
LEMMA VacateStep ==
  ASSUME EmbedInv, NEW t \in Callers, Vacate(t)
  PROVE  EmbedInv'
<1>i. PICK i \in ESlots : ecall[t].at = i
  BY CallerType DEF EmbedCalls
<1> DEFINE e == [eslot[i] EXCEPT !.state = "free", !.input = 0]
           c == [ecall[t] EXCEPT !.pc = "release"]
<1>k. /\ ecall[t] \in EmbedCalls /\ ecall[t].pc = "vacate" /\ Inside(t) /\ counter \in Nat \ {0} /\ crossed = {}
      /\ crossed' = crossed /\ UNCHANGED <<free, counter, mine, issued, answered, given, done, doneAt, bufs>>
      /\ ecall' = [ecall EXCEPT ![t] = c] /\ eslot' = [eslot EXCEPT ![i] = e]
  BY <1>i, CallerType DEF Vacate, Call, EmbedInv, EmbedCore, EmbedType, Inside, InsidePcs, endVars
<1>3. /\ eslot[i] \in EmbedSlots /\ SlotInv(i) /\ InputInv(i) /\ CallInv(t) /\ i \notin free
      /\ \A h \in mine[t] : h[2] = i => h = eslot[i].ticket
      /\ \A u \in Callers \ {t} : (Inside(u) => ecall[u].at # i) /\ \A h \in mine[u] : h[2] # i
  BY <1>i, <1>k, InsideSlot
<1>f. eslot[i].ticket = NoTicket /\ Empty(i)
  BY <1>i, <1>k, <1>3 DEF CallInv
<1>2. e = CleanSlot /\ c \in EmbedCalls /\ c.pc = "release" /\ c.at = i
  <2>1. c \in EmbedCalls /\ c.pc = "release" /\ c.at = i
    BY <1>i, <1>k DEF EmbedCalls, InsidePcs
  <2>2. /\ e \in EmbedSlots /\ e.state = "free" /\ e.input = 0 /\ e.ticket = NoTicket
        /\ e.text = 0 /\ e.media = 0
    BY <1>3, <1>f DEF EmbedSlots, Empty
  <2>3. \A s \in EmbedSlots : s = [state |-> s.state, ticket |-> s.ticket, input |-> s.input,
                                  text |-> s.text, media |-> s.media]
    BY DEF EmbedSlots
  <2> HIDE DEF c, e
  <2> QED
    BY <2>1, <2>2, <2>3 DEF CleanSlot
<1> HIDE DEF c, e
<1>1. /\ ecall'[t] = c /\ \A u \in Callers \ {t} : ecall'[u] = ecall[u]
      /\ eslot'[i] = CleanSlot /\ \A j \in ESlots \ {i} : eslot'[j] = eslot[j]
  BY <1>k, <1>2 DEF EmbedInv, EmbedCore, EmbedType
<1>4. EmbedType'
  BY <1>k, <1>2, CleanFacts DEF EmbedInv, EmbedCore, EmbedType
<1>5. ASSUME NEW h \in mine[t] PROVE h[2] # i
  <2>1. h # NoTicket
    BY CallerType, TicketKinds
  <2> QED
    BY <1>3, <1>f, <2>1
<1>6. Inside(t)'
  BY <1>1, <1>2 DEF Inside, InsidePcs
<1>7. CallInv(t)' /\ QueryInv(t)'
  BY <1>k, <1>1, <1>2, <1>3 DEF CallInv, QueryInv
<1>8. SlotInv(i)' /\ InputInv(i)'
  <2>1. InputInv(i)'
    BY <1>k, <1>1, CleanFacts DEF InputInv, Empty
  <2>2. ecall'[t].at = i /\ i \notin free'
    BY <1>k, <1>1, <1>2, <1>3
  <2> QED
    BY <1>1, <1>6, <2>1, <2>2, CleanFacts DEF SlotInv
<1>9. HistoryInv' /\ \A n \in DOMAIN given : n \in DOMAIN given' /\ given'[n] = given[n]
  BY <1>k, SameHistory
<1>10. \A h \in issued' : h[2] = i => IssuedInv(h)'
  BY <1>k, <1>1, <1>f, <1>9, CleanFacts, SameIssued
<1>11. BufsInv'
  <2>1. ASSUME NEW j \in ESlots PROVE SlotCopies(j)' = SlotCopies(j)
    <3>1. CASE j = i
      BY <1>1, <1>f, <3>1, CleanFacts DEF SlotCopies, Empty, CleanSlot
    <3>2. CASE j # i
      BY <1>1, <3>2 DEF SlotCopies
    <3> QED
      BY <3>1, <3>2
  <2> QED
    BY <1>k, <2>1, SameBufs
<1>12. eslot'[i].input = 0
  BY <1>1, CleanFacts
<1>13. EmbedCore'
  BY <1>i, <1>k, <1>1, <1>2, <1>3, <1>4, <1>5, <1>6, <1>7, <1>8, <1>9, <1>10, <1>12, OneSlot
<1> QED
  BY <1>k, <1>9, <1>11, <1>13 DEF EmbedInv

\* Every step of every caller preserves it.
LEMMA EmbedNext ==
  ASSUME EmbedInv, [EMNext]_emVars
  PROVE  EmbedInv'
<1>1. CASE UNCHANGED emVars
  <2>1. HistoryInv' /\ BufsInv' /\ crossed' = {}
    BY <1>1, SameHistory, SameBufs DEF emVars, endVars, EmbedInv, SlotCopies
  <2>2. EmbedCore'
    BY <1>1 DEF emVars, endVars, EmbedInv, EmbedCore, EmbedType, CallInv, QueryInv, UsersApart, MineApart,
                TicketInv, IssuedInv, SlotInv, InputInv, InputsApart, Inside, Running, Empty, Ended, Filled, Open
  <2> QED
    BY <2>1, <2>2 DEF EmbedInv
<1>2. ASSUME NEW t \in Callers,
             \/ AcquireSlot(t) \/ FillFails(t) \/ Publish(t) \/ ReleaseSlot(t)
             \/ CollectEnd(t) \/ RetireTicket(t) \/ Vacate(t) \/ StateAnswered(t)
      PROVE  EmbedInv'
  BY <1>2, AcquireStep, FillFailsStep, PublishStep, ReleaseStep, CollectEndStep, RetireStep, VacateStep,
     StateAnsweredStep
<1>3. ASSUME NEW t \in Callers, NEW what \in {"text", "image", "audio", "multimodal"}, Enqueue(t, what)
      PROVE  EmbedInv'
  BY <1>3, EnqueueStep
<1>4. ASSUME NEW t \in Callers, NEW copies \in Copies(ecall[t].kind), Fill(t, copies)
      PROVE  EmbedInv'
  BY <1>4, FillStep
<1>5. ASSUME NEW t \in Callers, NEW k \in mine[t], Collect(t, k) \/ Cancel(t, k) \/ CollectTooSmall(t, k)
      PROVE  EmbedInv'
  BY <1>5, CollectStep, AbandonStep DEF Cancel, CollectTooSmall
<1>6. ASSUME NEW t \in Callers, NEW ret \in {"OK", "E_BACKEND"}, Embed(t, ret)
      PROVE  EmbedInv'
  BY <1>6, EmbedStep
<1>7. ASSUME NEW t \in Callers, NEW k \in issued, RequestState(t, k)
      PROVE  EmbedInv'
  BY <1>7, RequestStateStep
<1> QED
  BY <1>1, <1>2, <1>3, <1>4, <1>5, <1>6, <1>7 DEF EMNext

-----------------------------------------------------------------------------
\* The slots as the callers see them.
LEMMA EmbedSlotsOwned == EmbedInv => SlotsOwned
<1> SUFFICES ASSUME EmbedInv PROVE SlotsOwned
  OBVIOUS
<1>u. \A i \in ESlots, t \in Callers : t \in Users(i) <=> Inside(t) /\ ecall[t].at = i
  BY DEF Users, Inside, InsidePcs
<1>1. ASSUME NEW i \in ESlots, i \in free
      PROVE  eslot[i] = CleanSlot /\ Users(i) = {} /\ Holders(i) = {}
  <2>1. eslot[i] = CleanSlot
    BY <1>1 DEF EmbedInv, EmbedCore, SlotInv
  <2>2. Users(i) = {}
    <3>1. \A t \in Callers : t \notin Users(i)
      BY <1>u, <1>1 DEF EmbedInv, EmbedCore, CallInv
    <3> QED
      BY <3>1 DEF Users
  <2>3. Holders(i) = {}
    BY <1>1 DEF EmbedInv, EmbedCore, TicketInv, Holders
  <2> QED
    BY <2>1, <2>2, <2>3
<1>2. ASSUME NEW i \in ESlots, i \notin free
      PROVE  /\ Cardinality(Users(i)) <= 1 /\ Cardinality(Holders(i)) <= 1
             /\ Users(i) # {} \/ Holders(i) # {}
  <2>1. Cardinality(Users(i)) <= 1
    <3>1. \A t, u \in Users(i) : t = u
      BY <1>u DEF EmbedInv, EmbedCore, UsersApart, Users
    <3> QED
      BY <3>1, AtMostOne
  <2>2. Cardinality(Holders(i)) <= 1
    <3>1. \A k, h \in Holders(i) : k = h
      BY DEF EmbedInv, EmbedCore, TicketInv, Holders
    <3> QED
      BY <3>1, AtMostOne
  <2>3. CASE \E t \in Callers : Inside(t) /\ ecall[t].at = i
    BY <1>u, <2>1, <2>2, <2>3
  <2>4. CASE eslot[i].ticket[2] = i /\ \E t \in Callers : eslot[i].ticket \in mine[t]
    <3>1. eslot[i].ticket \in Holders(i)
      BY <2>4 DEF Holders
    <3> QED
      BY <2>1, <2>2, <3>1
  <2> QED
    BY <1>2, <2>3, <2>4 DEF EmbedInv, EmbedCore, SlotInv
<1> QED
  BY <1>1, <1>2 DEF SlotsOwned, EmbedInv, BufsInv

\* The history keeps exactly the last tickets given up.
LEMMA FoundRemembered ==
  ASSUME EmbedInv, NEW k \in EmbedTickets, NEW err
  PROVE  Found(k, err) <=> Remembered(k, err)
<1>1. NoEntry # <<k, err>>
  BY TicketKinds DEF NoEntry
<1>2. DOMAIN done = 0 .. History - 1 /\ History \in Nat \ {0} /\ doneAt \in 0 .. History - 1
      /\ given \in Seq(EmbedEntries) /\ DOMAIN given = 1 .. Len(given) /\ Len(given) \in Nat
  BY EmbedAssumption DEF EmbedInv, HistoryInv
<1>3. ASSUME Found(k, err) PROVE Remembered(k, err)
  <2>1. PICK i \in 0 .. History - 1 : done[i] = <<k, err>>
    BY <1>2, <1>3 DEF Found
  <2>2. \E n \in DOMAIN given : Recent(n) /\ EntryAt(n) = i /\ done[i] = given[n]
    BY <1>1, <2>1 DEF EmbedInv, HistoryInv
  <2> QED
    BY <2>1, <2>2 DEF Remembered, Recent
<1>4. ASSUME Remembered(k, err) PROVE Found(k, err)
  <2>1. PICK n \in DOMAIN given : n + History > Len(given) /\ given[n] = <<k, err>>
    BY <1>4 DEF Remembered
  <2>2. done[EntryAt(n)] = given[n]
    BY <2>1 DEF EmbedInv, HistoryInv, Recent
  <2>3. EntryAt(n) \in 0 .. History - 1
    BY <1>2, <2>1 DEF EntryAt
  <2> QED
    BY <1>2, <2>1, <2>2, <2>3 DEF Found
<1> QED
  BY <1>3, <1>4

\* What the second look of a state query reports.
LEMMA EmbedQueries ==
  ASSUME EmbedInv, NEW t \in Callers, ecall[t].pc \in {"state", "history"}
  PROVE  /\ Open(ecall[t].ticket) => Answer(ecall[t]) \in {"QUEUED", "RUNNING"}
         /\ ecall[t].ticket \in mine[t] => Answer(ecall[t]) = "QUEUED"
         /\ Answer(ecall[t]) \in {"QUEUED", "RUNNING"} => ecall[t].open
         /\ ~ecall[t].open =>
              /\ Ended(ecall[t].ticket)
              /\ Answer(ecall[t]) = (CASE Remembered(ecall[t].ticket, "E_CANCELED")  -> "CANCELED"
                                       [] Remembered(ecall[t].ticket, "E_NOT_FOUND") -> "FAILED"
                                       [] OTHER                                     -> "INVALID")
<1> DEFINE c == ecall[t]
           k == c.ticket
<1>1. /\ QueryInv(t) /\ c.open \in BOOLEAN /\ k \in issued /\ k \in EmbedTickets /\ k[2] \in ESlots
      /\ (c.pc = "state" <=> c.open) /\ (~c.open => ~Open(k)) /\ c.pc \in {"state", "history"}
  BY CallerType, TicketKinds DEF EmbedInv, EmbedCore, EmbedType, QueryInv, EmbedCalls
<1>2. ASSUME Open(k) PROVE c.pc = "state" /\ eslot[k[2]].state \in {"ready", "running"}
  <2>1. TicketInv(k)
    BY <1>2 DEF Open, EmbedInv, EmbedCore
  <2> QED
    BY <1>1, <1>2, <2>1, EmbedSlotType DEF TicketInv, EmbedSlots
<1>3. ASSUME k \in mine[t] PROVE eslot[k[2]].state = "ready"
  <2>1. Open(k) /\ ~Inside(t)
    BY <1>1, <1>3 DEF Open, Inside, InsidePcs
  <2>2. ASSUME eslot[k[2]].state = "running" PROVE FALSE
    <3>1. PICK u \in Callers : Running(u) /\ ecall[u].at = k[2]
      BY <1>1, <2>2 DEF EmbedInv, EmbedCore, SlotInv
    <3>2. Inside(u)
      BY <3>1 DEF Running, Inside, InsidePcs
    <3> QED
      BY <1>3, <2>1, <3>1, <3>2, AloneWith
  <2> QED
    BY <1>2, <2>1, <2>2
<1>4. ASSUME ~c.open
      PROVE  /\ Ended(k)
             /\ Answer(c) = (CASE Remembered(k, "E_CANCELED")  -> "CANCELED"
                               [] Remembered(k, "E_NOT_FOUND") -> "FAILED"
                               [] OTHER                        -> "INVALID")
  <2>1. Ended(k)
    BY <1>1, <1>4 DEF EmbedInv, EmbedCore, IssuedInv
  <2>2. Found(k, "E_CANCELED") <=> Remembered(k, "E_CANCELED")
    BY <1>1, FoundRemembered
  <2>3. Found(k, "E_NOT_FOUND") <=> Remembered(k, "E_NOT_FOUND")
    BY <1>1, FoundRemembered
  <2>4. c.pc = "history"
    BY <1>1, <1>4
  <2> QED
    BY <2>1, <2>2, <2>3, <2>4 DEF Answer
<1>5. Open(k) => Answer(c) \in {"QUEUED", "RUNNING"}
  BY <1>2 DEF Answer
<1>6. k \in mine[t] => Answer(c) = "QUEUED"
  BY <1>2, <1>3 DEF Answer, Open
<1>7. Answer(c) \in {"QUEUED", "RUNNING"} => c.open
  BY <1>1 DEF Answer
<1> QED
  BY <1>4, <1>5, <1>6, <1>7

\* For any callers, any number of slots, tickets and entries of the history: a
\* slot is free, being filled, holding one open ticket or being given back, the
\* copies of inputs not yet freed are those the slots point to, a vector is
\* computed from its own input, and whenever the second look of a state query
\* comes, it reports an open ticket as queued or running, a ticket that was over
\* at the first look as it ended, and nothing else (acquire_free_slot,
\* embedder_collect, embedder_cancel, embedder_request_state).
THEOREM EmbedCorrect == EMSpec => []EmbedFaithful
<1>1. EMInit => EmbedInv
  BY EmbedInit
<1>2. EmbedInv /\ [EMNext]_emVars => EmbedInv'
  BY EmbedNext
<1>3. EmbedInv => EmbedFaithful
  <2> SUFFICES ASSUME EmbedInv PROVE EmbedFaithful
    OBVIOUS
  <2>1. TicketsFaithful
    BY EmbedQueries DEF TicketsFaithful, EmbedInv, Ended
  <2> QED
    BY <2>1, EmbedSlotsOwned DEF EmbedFaithful
<1> QED
  BY <1>1, <1>2, <1>3, PTL DEF EMSpec
=============================================================================
