-------------------------------- MODULE FanIn --------------------------------
(***************************************************************************)
(* SPSC lanes behind one consumer (spsc_ring.hpp, spsc_fan_in.hpp).  Each  *)
(* producer pushes batches into its own ring; the consumer polls the rings *)
(* in turn.  Either side keeps a cached copy of the other's counter and    *)
(* reads the real one only when the copy says the ring is full or empty.   *)
(* A push of one item is a batch of one.                                   *)
(***************************************************************************)
EXTENDS Integers, Sequences, FiniteSets

CONSTANTS
  Producers,     \* number of lanes
  LaneCapacity,  \* slots of a ring, a power of two
  MaxPushed,     \* bound: items pushed per lane
  MaxResets,     \* bound: resets
  BatchSizes     \* the counts callers ask for

VARIABLES
  lane,     \* [Lanes -> ring]: counters, caches, buffer
  pushing,  \* [Lanes -> items written but not published]
  popper,   \* the consumer: where its poll stands
  got,      \* [Lanes -> items delivered]
  passed,   \* ghost: pops from other lanes while this one had something
  resets    \* resets so far

fiVars == <<lane, pushing, popper, got, passed, resets>>

Lanes == 0 .. Producers - 1
NoItem == 0
EmptyLane == [head |-> 0, tail |-> 0, ptail |-> 0, chead |-> 0, buf |-> [i \in 0 .. LaneCapacity - 1 |-> NoItem]]
Idle == [pc |-> "idle", at |-> 0, tries |-> 0, n |-> 0, out |-> <<>>, want |-> 0]

FIInit ==
  /\ lane = [p \in Lanes |-> EmptyLane] /\ pushing = [p \in Lanes |-> 0] /\ popper = Idle
  /\ got = [p \in Lanes |-> <<>>] /\ passed = [p \in Lanes |-> 0] /\ resets = 0

Smaller(a, b) == IF a < b THEN a ELSE b

\* push_batch up to the copy: the tail is read again when the cached one
\* leaves too little room
PushCopy(p, count) ==
  LET l     == lane[p]
      stale == LaneCapacity - (l.head - l.ptail)
      seen  == IF stale < count THEN l.tail ELSE l.ptail
      n     == Smaller(count, LaneCapacity - (l.head - seen))
  IN  /\ pushing[p] = 0 /\ l.head + count <= MaxPushed
      /\ pushing' = [pushing EXCEPT ![p] = n]
      /\ lane' = [lane EXCEPT ![p] = [l EXCEPT !.ptail = seen,
                    !.buf = [i \in DOMAIN l.buf |->
                       IF \E j \in 0 .. n - 1 : (l.head + j) % LaneCapacity = i
                       THEN CHOOSE v \in l.head + 1 .. l.head + n : (v - 1) % LaneCapacity = i
                       ELSE l.buf[i]]]]
      /\ UNCHANGED <<popper, got, passed, resets>>

\* the release store of the head
PushPublish(p) ==
  /\ pushing[p] > 0
  /\ lane' = [lane EXCEPT ![p].head = @ + pushing[p]] /\ pushing' = [pushing EXCEPT ![p] = 0]
  /\ UNCHANGED <<popper, got, passed, resets>>

\* The fan-in's pop_batch begins at the lane after the last one served; `at`
\* of an idle consumer is next_consumer_lane_
PopBegin(count) ==
  /\ popper.pc = "idle"
  /\ popper' = [popper EXCEPT !.pc = "look", !.tries = 0, !.want = count]
  /\ UNCHANGED <<lane, pushing, got, passed, resets>>

\* pop_batch of one lane: what is available, by the cached head or the real one
PopLook ==
  LET q == (popper.at + popper.tries) % Producers
      l == lane[q]
      seen == IF l.chead - l.tail < popper.want THEN l.head ELSE l.chead
      n == Smaller(popper.want, seen - l.tail)
  IN  /\ popper.pc = "look"
      /\ lane' = [lane EXCEPT ![q].chead = seen]
      /\ popper' = IF n > 0 THEN [popper EXCEPT !.pc = "copy", !.n = n]
                   ELSE IF popper.tries + 1 < Producers THEN [popper EXCEPT !.tries = @ + 1]
                   ELSE [Idle EXCEPT !.at = popper.at]
      /\ UNCHANGED <<pushing, got, passed, resets>>

Serving == (popper.at + popper.tries) % Producers

\* pop_batch's two memcpy, consume_batch's calls
PopCopy ==
  /\ popper.pc = "copy"
  /\ popper' = [popper EXCEPT !.pc = "store",
                  !.out = [i \in 1 .. popper.n |-> lane[Serving].buf[(lane[Serving].tail + i - 1) % LaneCapacity]]]
  /\ UNCHANGED <<lane, pushing, got, passed, resets>>

PopStore_StaySame ==
  /\ popper.pc = "store"
  /\ lane' = [lane EXCEPT ![Serving].tail = @ + popper.n]
  /\ got' = [got EXCEPT ![Serving] = @ \o popper.out]
  /\ passed' = [p \in Lanes |-> IF p = Serving \/ lane[p].head = lane[p].tail THEN 0 ELSE passed[p] + 1]
  /\ popper' = [Idle EXCEPT !.at = Serving]
  /\ UNCHANGED <<pushing, resets>>

\* the release store of the tail; the next poll starts behind this lane
PopStore ==
  /\ popper.pc = "store"
  /\ lane' = [lane EXCEPT ![Serving].tail = @ + popper.n]
  /\ got' = [got EXCEPT ![Serving] = @ \o popper.out]
  /\ passed' = [p \in Lanes |-> IF p = Serving \/ lane[p].head = lane[p].tail THEN 0 ELSE passed[p] + 1]
  /\ popper' = [Idle EXCEPT !.at = (Serving + 1) % Producers]
  /\ UNCHANGED <<pushing, resets>>

\* reset: no push or pop is under way
Reset ==
  /\ popper.pc = "idle" /\ \A p \in Lanes : pushing[p] = 0
  /\ resets < MaxResets /\ resets' = resets + 1
  /\ lane' = [p \in Lanes |-> [EmptyLane EXCEPT !.buf = lane[p].buf]]
  /\ popper' = Idle /\ got' = [p \in Lanes |-> <<>>] /\ passed' = [p \in Lanes |-> 0]
  /\ UNCHANGED pushing

FINext ==
  \/ \E p \in Lanes : PushPublish(p) \/ \E c \in BatchSizes : PushCopy(p, c)
  \/ \E c \in BatchSizes : PopBegin(c)
  \/ PopLook \/ PopCopy \/ PopStore \/ Reset

FISpec == FIInit /\ [][FINext]_fiVars

---------------------------------------------------------------------------
(* Correctness *)

\* Items come out of each lane once and in order although both sides work
\* from stale copies of the other's counter, and nothing unread is written
\* over (spsc_ring.hpp:63, 145, 196, 246).
InOrder == \A p \in Lanes : got[p] = [i \in 1 .. lane[p].tail |-> i]

\* The cached counters stay behind the real ones, and a push within the ring.
CachesBehind ==
  \A p \in Lanes :
    /\ lane[p].ptail <= lane[p].tail /\ lane[p].tail <= lane[p].chead
    /\ lane[p].chead <= lane[p].head
    /\ lane[p].head + pushing[p] <= lane[p].ptail + LaneCapacity

\* A lane with something to read is passed over by at most one pop of every
\* lane, one of them already under way (spsc_fan_in.hpp:47, 61).
FairTurns == \A p \in Lanes : passed[p] <= Producers

\* The lanes and the pops over them as one invariant.
FanInFaithful == InOrder /\ CachesBehind /\ FairTurns
==============================================================================
