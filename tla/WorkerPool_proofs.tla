--------------------------- MODULE WorkerPool_proofs ---------------------------
(****************************************************************************)
(* Proofs about WorkerPool, for any number of workers, callers and records:   *)
(* the memory and the queues outlive the workers, the jobs on a caller's      *)
(* stack are gone when it returns, and its shards handle every record once.   *)
(*                                                                            *)
(* The argument for the first: the index of Main's loop separates the workers *)
(* that run from those that do not.  For the others: a call has no more       *)
(* remote shards than there are workers, so shard s of a call is only ever    *)
(* with worker s, in its queue or in its hands, and at most once.  The        *)
(* counter in the frame is the number of shards that are still to be          *)
(* submitted or are with a worker; at zero there are none.                    *)
(****************************************************************************)
EXTENDS WorkerPool, FiniteSetTheorems, TLAPS

-----------------------------------------------------------------------------
(* The workers and the memory they run on *)

\* A worker thread that has been started and has not left worker_loop.
Alive(w) == worker[w] \in {"pop", "scan", "count"}

\* Where Main is while there may be workers.
Staffed == {"start", "unstart", "up", "sentinel", "join"}

ControlInv ==
  /\ main \in {"down", "memory", "arrays", "cleanup", "release"} \cup Staffed
  /\ at \in Workers
  /\ worker \in [Workers -> {"none", "pop", "scan", "count", "exited"}]

\* The memory, the queues and the flag are there when Main needs them.
SetUpInv ==
  /\ main \in {"memory", "arrays"} \cup Staffed => initialized
  /\ main \in {"arrays"} \cup Staffed => region
  /\ main \in Staffed => work_queues

\* Main's loop index separates the workers that run from those that do not.
RosterInv ==
  \A w \in Workers : Alive(w) =>
    /\ main \in Staffed
    /\ main \in {"start", "unstart"} => w < at
    /\ main = "join" => w >= at

PoolInv == ControlInv /\ SetUpInv /\ RosterInv

LEMMA InitPool == Init => PoolInv
BY ThreadAssumption
DEF Init, PoolInv, ControlInv, SetUpInv, RosterInv, Alive, Staffed, Workers

\* A step that leaves Main, its index and the set of running workers alone.
LEMMA PoolFrame ==
  ASSUME PoolInv, UNCHANGED runtimeVars,
         worker' \in [Workers -> {"none", "pop", "scan", "count", "exited"}],
         \A w \in Workers : Alive(w)' => Alive(w)
  PROVE PoolInv'
BY DEF PoolInv, ControlInv, SetUpInv, RosterInv, Alive, Staffed, runtimeVars

LEMMA MainPool ==
  ASSUME PoolInv, MainCalls \/ MainRuns
  PROVE PoolInv'
<1> USE ThreadAssumption DEF Workers, Staffed
<1>1. CASE InitBegin
  BY <1>1 DEF InitBegin, workerVars, PoolInv, ControlInv, SetUpInv, RosterInv, Alive
<1>2. CASE InitMemory
  BY <1>2 DEF InitMemory, workerVars, PoolInv, ControlInv, SetUpInv, RosterInv, Alive
<1>3. CASE InitArrays
  BY <1>3 DEF InitArrays, PoolInv, ControlInv, SetUpInv, RosterInv, Alive
<1>4. CASE StartWorker
  BY <1>4 DEF StartWorker, PoolInv, ControlInv, SetUpInv, RosterInv, Alive
<1>5. CASE StartFails
  BY <1>5 DEF StartFails, workerVars, PoolInv, ControlInv, SetUpInv, RosterInv, Alive
<1>6. CASE JoinStarted
  BY <1>6 DEF JoinStarted, workerVars, PoolInv, ControlInv, SetUpInv, RosterInv, Alive
<1>7. CASE InitCleanup
  BY <1>7 DEF InitCleanup, workerVars, PoolInv, ControlInv, SetUpInv, RosterInv, Alive
<1>8. CASE ShutdownBegin
  BY <1>8 DEF ShutdownBegin, workerVars, PoolInv, ControlInv, SetUpInv, RosterInv, Alive
<1>9. CASE SendNull
  BY <1>9 DEF SendNull, PoolInv, ControlInv, SetUpInv, RosterInv, Alive
<1>10. CASE JoinWorker
  BY <1>10 DEF JoinWorker, PoolInv, ControlInv, SetUpInv, RosterInv, Alive
<1>11. CASE Release
  BY <1>11 DEF Release, workerVars, PoolInv, ControlInv, SetUpInv, RosterInv, Alive
<1> QED
  BY <1>1, <1>2, <1>3, <1>4, <1>5, <1>6, <1>7, <1>8, <1>9, <1>10, <1>11
  DEF MainCalls, MainRuns

LEMMA WorkerPoolStep ==
  ASSUME PoolInv, NEW v \in Workers, WorkerStep(v)
  PROVE PoolInv'
<1>1. /\ UNCHANGED runtimeVars
      /\ worker' \in [Workers -> {"none", "pop", "scan", "count", "exited"}]
      /\ \A w \in Workers : Alive(w)' => Alive(w)
  BY DEF WorkerStep, Pop, Scan, Complete, PoolInv, ControlInv, Alive
<1> QED
  BY <1>1, PoolFrame

LEMMA CallerPoolStep ==
  ASSUME PoolInv, UNCHANGED <<runtimeVars, worker>>
  PROVE PoolInv'
BY DEF PoolInv, ControlInv, SetUpInv, RosterInv, Alive, Staffed, runtimeVars

LEMMA NextPool == PoolInv /\ [Next]_vars => PoolInv'
<1> SUFFICES ASSUME PoolInv, [Next]_vars
             PROVE PoolInv'
  OBVIOUS
<1>1. CASE MainCalls \/ MainRuns
  BY <1>1, MainPool
<1>2. CASE \E w \in Workers : WorkerStep(w)
  BY <1>2, WorkerPoolStep
<1>3. CASE \E c \in Callers : CallStep(c)
  <2>1. UNCHANGED <<runtimeVars, worker>>
    BY <1>3 DEF CallStep, ClaimScratch, Submit, OwnShard, Return, workerVars
  <2> QED
    BY <2>1, CallerPoolStep
<1>4. CASE \E c \in Callers, kind \in Kinds, count \in Counts : Begin(c, kind, count)
  <2>1. UNCHANGED <<runtimeVars, worker>>
    BY <1>4 DEF Begin, workerVars
  <2> QED
    BY <2>1, CallerPoolStep
<1>5. CASE UNCHANGED vars
  BY <1>5, CallerPoolStep DEF vars, workerVars
<1> QED
  BY <1>1, <1>2, <1>3, <1>4, <1>5 DEF Next

\* astral_init and astral_shutdown (src/core/init.cpp): whatever fails while the
\* runtime starts, and however many workers it has, its memory, its queues and
\* the initialized flag stay as long as a worker thread runs.
THEOREM PoolSafe == Spec => []WorkersOutlived
<1>1. PoolInv => WorkersOutlived
  BY DEF PoolInv, SetUpInv, RosterInv, Alive, Staffed, WorkersOutlived
<1> QED
  BY <1>1, InitPool, NextPool, PTL DEF Spec

-----------------------------------------------------------------------------
(* The shards of a call partition its range *)

\* products and quotients are monotonic
LEMMA Times ==
  ASSUME NEW k \in Nat, NEW i \in Nat, NEW j \in Nat
  PROVE  /\ k * i \in Nat /\ k * (i + 1) = k * i + k /\ k * i = i * k
         /\ i <= j => k * i <= k * j
<1>1. ASSUME i <= j PROVE k * i <= k * j
  <2>1. PICK d \in Nat : j = i + d
    BY <1>1
  <2>2. k * j = k * i + k * d /\ k * d \in Nat /\ k * i \in Nat /\ k * j \in Nat
    BY <2>1
  <2> QED
    BY <2>2
<1> QED
  BY <1>1

LEMMA Quotient ==
  ASSUME NEW a \in Nat, NEW b \in Nat \ {0}
  PROVE  /\ a \div b \in Nat /\ (a \div b) * b <= a /\ a < (a \div b) * b + b
         /\ \A c \in Nat : c <= a => c \div b <= a \div b
OBVIOUS

\* The parts of a search: equal parts, rounded down.
LEMMA EqualParts ==
  ASSUME NEW count \in Nat \ {0}, NEW shards \in Nat \ {0}
  PROVE  /\ \A i, j, p \in Nat :
              i < j => ~(p < (count * (i + 1)) \div shards /\ p >= (count * j) \div shards)
         /\ \A p \in 0 .. count - 1 : \E i \in 0 .. shards - 1 :
              (count * i) \div shards <= p /\ p < (count * (i + 1)) \div shards
<1>1. ASSUME NEW i \in Nat, NEW j \in Nat, NEW p \in Nat, i < j,
             p < (count * (i + 1)) \div shards, p >= (count * j) \div shards
      PROVE  FALSE
  <2>1. count * (i + 1) <= count * j /\ count * (i + 1) \in Nat /\ count * j \in Nat
    <3>1. i + 1 \in Nat /\ i + 1 <= j
      BY <1>1
    <3> QED
      BY <3>1, Times
  <2>2. (count * (i + 1)) \div shards <= (count * j) \div shards
    BY <2>1, Quotient
  <2>3. (count * (i + 1)) \div shards \in Nat /\ (count * j) \div shards \in Nat
    BY <2>1, Quotient
  <2> QED
    BY <1>1, <2>2, <2>3
<1>2. ASSUME NEW p \in 0 .. count - 1
      PROVE  \E i \in 0 .. shards - 1 :
               (count * i) \div shards <= p /\ p < (count * (i + 1)) \div shards
  <2> DEFINE a == (p + 1) * shards - 1
             i == a \div count
  <2>1. a \in Nat /\ a + 1 = p * shards + shards /\ p * shards \in Nat
    OBVIOUS
  <2>2. i \in Nat /\ i * count <= a /\ a < i * count + count
    BY <2>1, Quotient
  <2>3. count * i = i * count /\ count * (i + 1) = i * count + count /\ i * count \in Nat
    BY <2>2
  <2>4. a < count * shards
    <3>1. (p + 1) * shards <= count * shards
      <4>1. shards * (p + 1) <= shards * count
        BY Times
      <4> QED
        BY <4>1
    <3> QED
      BY <2>1, <3>1
  <2> HIDE DEF a, i
  <2>5. i < shards
    <3> SUFFICES ASSUME shards <= i PROVE FALSE
      BY <2>2
    <3>1. count * shards <= count * i
      BY <2>2, Times
    <3> QED
      BY <2>1, <2>2, <2>3, <2>4, <3>1
  <2>6. (count * i) \div shards <= p
    <3> DEFINE q == (count * i) \div shards
    <3>1. q \in Nat /\ q * shards <= count * i
      BY <2>2, <2>3, Quotient
    <3> HIDE DEF q
    <3>2. q * shards < p * shards + shards
      BY <2>1, <2>2, <2>3, <3>1
    <3> SUFFICES ASSUME p + 1 <= q PROVE FALSE
      BY <3>1 DEF q
    <3>3. shards * (p + 1) <= shards * q
      BY <3>1, Times
    <3> QED
      BY <3>1, <3>2, <3>3
  <2>7. p < (count * (i + 1)) \div shards
    <3> DEFINE q == (count * (i + 1)) \div shards
    <3>1. q \in Nat /\ count * (i + 1) < q * shards + shards
      BY <2>2, <2>3, Quotient
    <3> HIDE DEF q
    <3>2. p * shards < q * shards
      BY <2>1, <2>2, <2>3, <3>1
    <3> SUFFICES ASSUME q <= p PROVE FALSE
      BY <3>1 DEF q
    <3>3. shards * q <= shards * p
      BY <3>1, Times
    <3> QED
      BY <3>1, <3>2, <3>3
  <2>8. i \in 0 .. shards - 1
    BY <2>2, <2>5
  <2> QED
    BY <2>6, <2>7, <2>8, Zenon
<1> QED
  BY <1>1, <1>2

\* The parts of an add: chunks rounded up.
LEMMA Chunks ==
  ASSUME NEW count \in Nat \ {0}, NEW shards \in Nat \ {0},
         NEW chunk \in Nat, chunk = (count + shards - 1) \div shards
  PROVE  /\ \A i, j, p \in Nat : i < j => ~(p < (i + 1) * chunk /\ p >= j * chunk)
         /\ \A p \in 0 .. count - 1 : \E i \in 0 .. shards - 1 :
              i * chunk <= p /\ p < (i + 1) * chunk
<1>1. chunk \in Nat /\ count - 1 < chunk * shards
  <2> DEFINE a == count + shards - 1
  <2>1. a \in Nat /\ chunk = a \div shards
    OBVIOUS
  <2>2. a = count + shards - 1
    OBVIOUS
  <2> HIDE DEF a
  <2>3. chunk \in Nat /\ a < chunk * shards + shards
    BY <2>1, Quotient
  <2>4. chunk * shards \in Nat
    BY <2>3
  <2> QED
    BY <2>2, <2>3, <2>4
<1>2. chunk # 0
  BY <1>1
<1>3. ASSUME NEW i \in Nat, NEW j \in Nat, NEW p \in Nat, i < j,
             p < (i + 1) * chunk, p >= j * chunk
      PROVE  FALSE
  <2>1. chunk * (i + 1) <= chunk * j
    <3>1. i + 1 \in Nat /\ i + 1 <= j
      BY <1>3
    <3> QED
      BY <1>1, <3>1, Times
  <2> QED
    BY <1>1, <1>3, <2>1
<1>4. ASSUME NEW p \in 0 .. count - 1
      PROVE  \E i \in 0 .. shards - 1 : i * chunk <= p /\ p < (i + 1) * chunk
  <2> DEFINE i == p \div chunk
  <2>1. i \in Nat /\ i * chunk <= p /\ p < i * chunk + chunk
    BY <1>1, <1>2, Quotient
  <2> HIDE DEF i
  <2>2. i < shards
    <3> SUFFICES ASSUME shards <= i PROVE FALSE
      BY <2>1
    <3>1. chunk * shards <= chunk * i
      BY <1>1, <2>1, Times
    <3> QED
      BY <1>1, <2>1, <3>1
  <2>3. i \in 0 .. shards - 1 /\ p < (i + 1) * chunk
    BY <1>1, <2>1, <2>2
  <2> QED
    BY <2>1, <2>3, Zenon
<1> QED
  BY <1>1, <1>3, <1>4, Zenon

\* The shards of a call partition its range.
LEMMA Partition ==
  ASSUME NEW kind \in Kinds, NEW count \in Nat \ {0}, NEW shards \in Nat \ {0}
  PROVE  /\ \A i, j \in 0 .. shards - 1, p \in 0 .. count - 1 :
              p \in ShardRange(kind, count, shards, i) /\ p \in ShardRange(kind, count, shards, j)
                => i = j
         /\ \A p \in 0 .. count - 1 : \E i \in 0 .. shards - 1 :
              p \in ShardRange(kind, count, shards, i)
<1> DEFINE Part(i) == ShardRange(kind, count, shards, i)
<1>1. ASSUME \A i, j, p \in Nat : i < j /\ p < count => ~(p \in Part(i) /\ p \in Part(j)),
             \A p \in 0 .. count - 1 : \E i \in 0 .. shards - 1 : p \in Part(i)
      PROVE  /\ \A i, j \in 0 .. shards - 1, p \in 0 .. count - 1 :
                  p \in Part(i) /\ p \in Part(j) => i = j
             /\ \A p \in 0 .. count - 1 : \E i \in 0 .. shards - 1 : p \in Part(i)
  <2> HIDE DEF Part
  <2> QED
    BY <1>1
<1>2. CASE kind = "add"
  <2> DEFINE chunk == (count + shards - 1) \div shards
  <2>a. chunk = (count + shards - 1) \div shards
    OBVIOUS
  <2> HIDE DEF chunk
  <2>b. chunk \in Nat
    <3>1. count + shards - 1 \in Nat
      OBVIOUS
    <3> QED
      BY <2>a, <3>1, Quotient
  <2>1. /\ \A i, j, p \in Nat : i < j => ~(p < (i + 1) * chunk /\ p >= j * chunk)
        /\ \A p \in 0 .. count - 1 : \E i \in 0 .. shards - 1 :
             i * chunk <= p /\ p < (i + 1) * chunk
    <3> DEFINE Q(k) == k = (count + shards - 1) \div shards =>
              /\ \A i, j, p \in Nat : i < j => ~(p < (i + 1) * k /\ p >= j * k)
              /\ \A p \in 0 .. count - 1 : \E i \in 0 .. shards - 1 :
                   i * k <= p /\ p < (i + 1) * k
    <3>1. ASSUME NEW k \in Nat PROVE Q(k)
      BY Chunks, ZenonT(60)
    <3>2. Q(chunk)
      BY <2>b, <3>1, Zenon
    <3> QED
      BY <2>a, <3>2, Zenon
  <2>2. \A i \in Nat, p \in 0 .. count - 1 :
          p \in ShardRange(kind, count, shards, i) <=> i * chunk <= p /\ p < (i + 1) * chunk
    <3> SUFFICES ASSUME NEW i \in Nat, NEW p \in 0 .. count - 1
                 PROVE  p \in ShardRange(kind, count, shards, i) <=>
                          i * chunk <= p /\ p < (i + 1) * chunk
      OBVIOUS
    <3>1. ShardRange(kind, count, shards, i) = (i * chunk) .. (Least((i + 1) * chunk, count) - 1)
      BY <1>2, <2>a DEF ShardRange
    <3>2. PICK x \in Nat, y \in Nat : x = i * chunk /\ y = (i + 1) * chunk
      BY <2>b
    <3>3. p \in x .. (Least(y, count) - 1) <=> x <= p /\ p < y
      BY DEF Least
    <3> QED
      BY <3>1, <3>2, <3>3
  <2>3. \A i, j, p \in Nat : i < j /\ p < count => ~(p \in Part(i) /\ p \in Part(j))
    <3> SUFFICES ASSUME NEW i \in Nat, NEW j \in Nat, NEW p \in Nat, i < j, p < count
                 PROVE  ~(p \in Part(i) /\ p \in Part(j))
      OBVIOUS
    <3>1. p \in 0 .. count - 1
      OBVIOUS
    <3> QED
      BY <2>1, <2>2, <3>1, Zenon
  <2>4. \A p \in 0 .. count - 1 : \E i \in 0 .. shards - 1 : p \in Part(i)
    <3> TAKE p \in 0 .. count - 1
    <3>1. PICK i \in 0 .. shards - 1 : i * chunk <= p /\ p < (i + 1) * chunk
      BY <2>1, Zenon
    <3>2. i \in Nat
      OBVIOUS
    <3> QED
      BY <2>2, <3>1, <3>2, Zenon
  <2> QED
    BY <1>1, <2>3, <2>4, Zenon
<1>3. CASE kind # "add"
  <2>1. \A i \in Nat, p \in 0 .. count - 1 :
          p \in ShardRange(kind, count, shards, i) <=>
            (count * i) \div shards <= p /\ p < (count * (i + 1)) \div shards
    <3> SUFFICES ASSUME NEW i \in Nat, NEW p \in 0 .. count - 1
                 PROVE  p \in ShardRange(kind, count, shards, i) <=>
                          (count * i) \div shards <= p /\ p < (count * (i + 1)) \div shards
      OBVIOUS
    <3>1. ShardRange(kind, count, shards, i) =
            ((count * i) \div shards) .. ((count * (i + 1)) \div shards - 1)
      BY <1>3 DEF ShardRange
    <3>2. count * i \in Nat /\ count * (i + 1) \in Nat
      OBVIOUS
    <3>3. PICK x \in Nat, y \in Nat :
            x = (count * i) \div shards /\ y = (count * (i + 1)) \div shards
      BY <3>2, Quotient
    <3>4. p \in x .. (y - 1) <=> x <= p /\ p < y
      OBVIOUS
    <3> QED
      BY <3>1, <3>3, <3>4
  <2>2. \A i, j, p \in Nat : i < j /\ p < count => ~(p \in Part(i) /\ p \in Part(j))
    <3> SUFFICES ASSUME NEW i \in Nat, NEW j \in Nat, NEW p \in Nat, i < j, p < count
                 PROVE  ~(p \in Part(i) /\ p \in Part(j))
      OBVIOUS
    <3>1. p \in 0 .. count - 1
      OBVIOUS
    <3> QED
      BY <2>1, <3>1, EqualParts, Zenon
  <2>3. \A p \in 0 .. count - 1 : \E i \in 0 .. shards - 1 : p \in Part(i)
    <3> TAKE p \in 0 .. count - 1
    <3>1. PICK i \in 0 .. shards - 1 :
            (count * i) \div shards <= p /\ p < (count * (i + 1)) \div shards
      BY EqualParts, Zenon
    <3>2. i \in Nat
      OBVIOUS
    <3> QED
      BY <2>1, <3>1, <3>2, Zenon
  <2> QED
    BY <1>1, <2>2, <2>3, Zenon
<1> QED
  BY <1>1, <1>2, <1>3
-----------------------------------------------------------------------------
(* The inductive invariant *)

In(s, x) == \E i \in 1 .. Len(s) : s[i] = x

\* No item is in the queue twice.
Once(s) == \A i, j \in 1 .. Len(s) : s[i] = s[j] /\ s[i] # NullItem => i = j

Active(c)    == call[c].pc # "idle"
RemoteOf(c)  == Remote(call[c].kind, call[c].count)
ItemOf(c, s) == [by |-> c, id |-> call[c].id, shard |-> s]
Held(c, s)   == job[s] = ItemOf(c, s) \/ In(queue[s], ItemOf(c, s))

\* Shards that are to be submitted, with a worker or the caller's own to scan.
Pending(c, s) == IF s < RemoteOf(c) THEN s >= call[c].next \/ Held(c, s)
                 ELSE call[c].pc \in {"submit", "own"}
Left(c)       == {s \in 0 .. call[c].shards - 1 : Pending(c, s)}

\* The shard has been scanned and is about to be counted down.
Counting(c, s) == s \in Workers /\ worker[s] = "count" /\ job[s] = ItemOf(c, s)

Fields == {"pc", "id", "kind", "count", "shards", "next", "remaining", "scratch", "hits"}

Flags      == {initialized, region, work_queues, claimed} \subseteq BOOLEAN
RuntimeInv == PoolInv /\ Flags /\ inits \in 0 .. MaxInits

FrameInv ==
  /\ DOMAIN call = Callers
  /\ \A c \in Callers :
       /\ DOMAIN call[c] = Fields
       /\ call[c].pc \in {"idle", "claim", "submit", "own", "wait"}
       /\ call[c].id \in 0 .. MaxCalls
       /\ call[c].kind \in Kinds
       /\ call[c].scratch \in {"none", "index", "own"}
       /\ call[c].shards \in Nat
       /\ call[c].remaining \in 0 .. call[c].shards
       /\ call[c].next \in 0 .. call[c].shards

\* How far a call has come.
Phase(c) ==
  /\ main = "up" /\ call[c].id >= 1
  /\ call[c].count \in Nat \ {0}
  /\ call[c].shards = ShardCount(call[c].kind, call[c].count)
  /\ call[c].pc \in {"claim", "submit"} => call[c].next < RemoteOf(c)
  /\ call[c].pc \in {"own", "wait"} => call[c].next = RemoteOf(c)
  /\ call[c].pc = "claim" =>
       call[c].next = 0 /\ call[c].kind = "graph" /\ call[c].scratch = "none"
  /\ call[c].pc = "own" => call[c].kind = "record"

\* The counter counts the shards that are left.
Counted(c) == call[c].remaining = Cardinality(Left(c))

\* A shard that is left and not yet scanned has no results, every other has them.
Hits(c) ==
  /\ DOMAIN call[c].hits = 0 .. call[c].count - 1
  /\ \A s \in 0 .. call[c].shards - 1, p \in 0 .. call[c].count - 1 :
       p \in ShardRange(call[c].kind, call[c].count, call[c].shards, s) =>
         call[c].hits[p] = IF Pending(c, s) /\ ~Counting(c, s) THEN 0 ELSE 1

CallerInv(c) == Active(c) => Phase(c) /\ Counted(c) /\ Hits(c)

\* An item with worker w is shard w of a call under way that has submitted it.
Belongs(w, item) ==
  item = NullItem \/ \E c \in Callers :
    /\ item = ItemOf(c, w)
    /\ call[c].pc \in {"submit", "own", "wait"}
    /\ w < call[c].next

ItemInv ==
  /\ queue \in [Workers -> Seq(Items \cup {NullItem})]
  /\ job \in [Workers -> Items \cup {NullItem}]
  /\ \A w \in Workers :
       /\ Len(queue[w]) <= QueueCapacity
       /\ job[w] # NullItem <=> worker[w] \in {"scan", "count"}
       /\ Belongs(w, job[w])
       /\ \A i \in 1 .. Len(queue[w]) : Belongs(w, queue[w][i])
       /\ Once(queue[w])
       /\ job[w] # NullItem => ~In(queue[w], job[w])

\* One call at a time holds the scratch of the index.
ScratchInv ==
  \A c \in Callers : Active(c) /\ call[c].scratch = "index" =>
    claimed /\ \A d \in Callers : Active(d) /\ call[d].scratch = "index" => c = d

FanOutInv ==
  RuntimeInv /\ FrameInv /\ ItemInv /\ ScratchInv /\ \A c \in Callers : CallerInv(c)

-----------------------------------------------------------------------------
(* Queues and items *)

LEMMA InAppend ==
  ASSUME NEW S, NEW s \in Seq(S), NEW e \in S, NEW x
  PROVE  In(Append(s, e), x) <=> In(s, x) \/ x = e
<1>1. /\ Len(Append(s, e)) = Len(s) + 1 /\ Append(s, e)[Len(s) + 1] = e /\ Len(s) \in Nat
      /\ \A i \in 1 .. Len(s) : Append(s, e)[i] = s[i]
  OBVIOUS
<1>2. ASSUME In(s, x) \/ x = e PROVE In(Append(s, e), x)
  BY <1>1, <1>2 DEF In
<1>3. ASSUME NEW i \in 1 .. Len(Append(s, e)), Append(s, e)[i] = x PROVE In(s, x) \/ x = e
  <2>1. i \in 1 .. Len(s) \/ i = Len(s) + 1
    BY <1>1
  <2> QED
    BY <1>1, <1>3, <2>1 DEF In
<1> QED
  BY <1>2, <1>3 DEF In

LEMMA InTail ==
  ASSUME NEW S, NEW s \in Seq(S), s # << >>, NEW x
  PROVE  In(s, x) <=> x = Head(s) \/ In(Tail(s), x)
<1>1. /\ Len(s) \in Nat \ {0} /\ Len(Tail(s)) = Len(s) - 1 /\ Head(s) = s[1]
      /\ \A i \in 1 .. Len(s) - 1 : Tail(s)[i] = s[i + 1]
  OBVIOUS
<1>2. ASSUME x = Head(s) \/ In(Tail(s), x) PROVE In(s, x)
  BY <1>1, <1>2 DEF In
<1>3. ASSUME NEW i \in 1 .. Len(s), s[i] = x PROVE x = Head(s) \/ In(Tail(s), x)
  <2>1. i = 1 \/ (i - 1 \in 1 .. Len(s) - 1 /\ Tail(s)[i - 1] = s[i])
    BY <1>1
  <2> QED
    BY <1>1, <1>3, <2>1 DEF In
<1> QED
  BY <1>2, <1>3 DEF In

LEMMA OnceAppend ==
  ASSUME NEW S, NEW s \in Seq(S), NEW e \in S, Once(s), e = NullItem \/ ~In(s, e)
  PROVE  Once(Append(s, e))
<1>1. /\ Len(Append(s, e)) = Len(s) + 1 /\ Append(s, e)[Len(s) + 1] = e /\ Len(s) \in Nat
      /\ \A i \in 1 .. Len(s) : Append(s, e)[i] = s[i]
  OBVIOUS
<1>2. ASSUME NEW i \in 1 .. Len(s) + 1, NEW j \in 1 .. Len(s) + 1,
             Append(s, e)[i] = Append(s, e)[j], Append(s, e)[i] # NullItem
      PROVE  i = j
  <2>1. /\ i \in 1 .. Len(s) \/ i = Len(s) + 1
        /\ j \in 1 .. Len(s) \/ j = Len(s) + 1
    BY <1>1
  <2> QED
    BY <1>1, <1>2, <2>1 DEF Once, In
<1> QED
  BY <1>1, <1>2 DEF Once

LEMMA OnceTail ==
  ASSUME NEW S, NEW s \in Seq(S), s # << >>, Once(s)
  PROVE  Once(Tail(s)) /\ (Head(s) # NullItem => ~In(Tail(s), Head(s)))
<1>1. /\ Len(s) \in Nat \ {0} /\ Len(Tail(s)) = Len(s) - 1 /\ Head(s) = s[1]
      /\ \A i \in 1 .. Len(s) - 1 : Tail(s)[i] = s[i + 1] /\ i + 1 \in 1 .. Len(s)
  OBVIOUS
<1>2. ASSUME NEW i \in 1 .. Len(s) - 1, NEW j \in 1 .. Len(s) - 1,
             Tail(s)[i] = Tail(s)[j], Tail(s)[i] # NullItem
      PROVE  i = j
  <2>1. s[i + 1] = s[j + 1] /\ s[i + 1] # NullItem /\ i + 1 \in 1 .. Len(s) /\ j + 1 \in 1 .. Len(s)
    BY <1>1, <1>2
  <2>2. i + 1 = j + 1
    BY <2>1 DEF Once
  <2> QED
    BY <2>2
<1>3. ASSUME NEW i \in 1 .. Len(s) - 1, Tail(s)[i] = Head(s), Head(s) # NullItem PROVE FALSE
  <2>1. s[i + 1] = s[1] /\ i + 1 \in 1 .. Len(s) /\ 1 \in 1 .. Len(s) /\ i + 1 # 1 /\ s[1] # NullItem
    BY <1>1, <1>3
  <2> QED
    BY <2>1 DEF Once
<1> QED
  BY <1>1, <1>2, <1>3 DEF Once, In

\* A call has a remote shard, at most one for each worker, and only the single
\* query has a shard more.
LEMMA RemoteShards ==
  ASSUME NEW kind \in Kinds, NEW count \in Nat \ {0}
  PROVE  /\ Remote(kind, count) \in Nat \ {0} /\ Remote(kind, count) <= ThreadCount
         /\ ShardCount(kind, count) = IF kind = "record" THEN Remote(kind, count) + 1
                                                         ELSE Remote(kind, count)
<1>1. /\ ThreadCount \in Nat \ {0} /\ MaxWorkers \in Nat /\ MaxWorkers > 1
      /\ MaxAddWorkers \in Nat /\ MaxAddWorkers > 1
  BY ThreadAssumption, FanOutAssumption
<1>2. Remote(kind, count) \in Nat \ {0} /\ Remote(kind, count) <= ThreadCount
  BY <1>1 DEF Remote, Least
<1> QED
  BY <1>2 DEF ShardCount

-----------------------------------------------------------------------------
(* What a step leaves alone *)

LEMMA InitFanOut == Init => FanOutInv
<1> SUFFICES ASSUME Init PROVE FanOutInv
  OBVIOUS
<1>a. Flags
  BY DEF Init, Flags
<1>1. RuntimeInv
  BY <1>a, InitPool, BoundAssumption DEF Init, RuntimeInv
<1>2. FrameInv /\ ScratchInv /\ \A c \in Callers : CallerInv(c)
  BY BoundAssumption DEF Init, NoCall, FrameInv, ScratchInv, CallerInv, Active, Fields, Kinds
<1>3. ItemInv
  <2>1. /\ \A w \in Workers : queue[w] = << >> /\ job[w] = NullItem /\ worker[w] = "none"
        /\ queue \in [Workers -> Seq(Items \cup {NullItem})]
        /\ job \in [Workers -> Items \cup {NullItem}]
    BY DEF Init
  <2>2. Len(<< >>) = 0 /\ 1 .. 0 = {} /\ 0 <= QueueCapacity
    BY CapacityAssumption
  <2> QED
    BY <2>1, <2>2 DEF ItemInv, Belongs, Once
<1> QED
  BY <1>1, <1>2, <1>3 DEF FanOutInv

\* The items with a worker are its shards of calls under way.
LEMMA HeldItem ==
  ASSUME FanOutInv, NEW w \in Workers, NEW x, x # NullItem,
         x = job[w] \/ In(queue[w], x)
  PROVE  \E c \in Callers : /\ x = ItemOf(c, w) /\ Held(c, w) /\ Active(c)
                            /\ call[c].pc \in {"submit", "own", "wait"} /\ w < call[c].next
<1>1. Belongs(w, x)
  BY DEF FanOutInv, ItemInv, In
<1>2. PICK c \in Callers : /\ x = ItemOf(c, w) /\ call[c].pc \in {"submit", "own", "wait"}
                           /\ w < call[c].next
  BY <1>1 DEF Belongs
<1> QED
  BY <1>2 DEF Held, Active

LEMMA ItemsDiffer ==
  ASSUME FanOutInv
  PROVE  /\ \A c, d \in Callers : \A s, t : ItemOf(c, s) = ItemOf(d, t) => c = d /\ s = t
         /\ \A c \in Callers : \A s : Active(c) => ItemOf(c, s) # NullItem
         /\ \A c \in Callers, w \in Workers : Active(c) => ItemOf(c, w) \in Items
<1>1. \A c \in Callers : \A s : ItemOf(c, s).by = c /\ ItemOf(c, s).shard = s /\ ItemOf(c, s).id = call[c].id
  BY DEF ItemOf
<1>2. \A c \in Callers : Active(c) => call[c].id \in 1 .. MaxCalls
  BY DEF FanOutInv, FrameInv, CallerInv, Phase
<1>3. NullItem.id = 0 /\ Workers \subseteq Nat
  BY ThreadAssumption DEF NullItem, Workers
<1>4. \A c \in Callers, w \in Workers : Active(c) => ItemOf(c, w) \in Items
  BY <1>2, <1>3 DEF ItemOf, Items
<1>5. \A c \in Callers : \A s : Active(c) => ItemOf(c, s) # NullItem
  BY <1>1, <1>2, <1>3
<1>6. \A c, d \in Callers : \A s, t : ItemOf(c, s) = ItemOf(d, t) => c = d /\ s = t
  BY <1>1
<1> QED
  BY <1>4, <1>5, <1>6

\* A step that leaves a call, the workers' items of it and Main alone.
LEMMA CallerKept ==
  ASSUME FanOutInv, NEW d \in Callers, call'[d] = call[d], Active(d) => main' = main,
         \A w \in Workers : /\ Active(d) => (Held(d, w)' <=> Held(d, w))
                            /\ Active(d) => (Counting(d, w)' <=> Counting(d, w))
  PROVE  CallerInv(d)'
<1> SUFFICES ASSUME Active(d) PROVE Phase(d)' /\ Counted(d)' /\ Hits(d)'
  BY DEF CallerInv, Active
<1>1. Phase(d) /\ Counted(d) /\ Hits(d) /\ call[d].shards \in Nat
  BY DEF FanOutInv, FrameInv, CallerInv
<1>2. Phase(d)'
  BY <1>1 DEF Phase, RemoteOf
<1>3. /\ RemoteOf(d)' = RemoteOf(d)
      /\ \A s \in 0 .. call[d].shards - 1 : s < RemoteOf(d) => s \in Workers
  BY <1>1, RemoteShards, ThreadAssumption DEF Phase, RemoteOf, FanOutInv, FrameInv, Workers
<1>4. \A s \in 0 .. call[d].shards - 1 : Pending(d, s)' <=> Pending(d, s)
  BY <1>3 DEF Pending
<1>5. Left(d)' = Left(d)
  BY <1>4 DEF Left
<1>6. \A s \in 0 .. call[d].shards - 1 : Counting(d, s)' <=> Counting(d, s)
  BY DEF Counting
<1>7. Counted(d)'
  BY <1>1, <1>5 DEF Counted
<1>8. Hits(d)'
  BY <1>1, <1>4, <1>6 DEF Hits
<1> QED
  BY <1>2, <1>7, <1>8

LEMMA BelongsKept ==
  ASSUME NEW w \in Workers, NEW x, Belongs(w, x),
         \A c \in Callers : x = ItemOf(c, w) /\ call[c].pc \in {"submit", "own", "wait"} =>
           /\ call'[c].id = call[c].id
           /\ call'[c].pc \in {"submit", "own", "wait"}
           /\ w < call[c].next => w < call'[c].next
  PROVE  Belongs(w, x)'
BY DEF Belongs, ItemOf

\* A step of a caller that gives nothing to a worker.
LEMMA ItemsKept ==
  ASSUME FanOutInv, UNCHANGED workerVars,
         \A c \in Callers, w \in Workers :
           Held(c, w) /\ call[c].pc \in {"submit", "own", "wait"} =>
             /\ call'[c].id = call[c].id
             /\ call'[c].pc \in {"submit", "own", "wait"}
             /\ w < call[c].next => w < call'[c].next
  PROVE  ItemInv'
<1>1. ASSUME NEW w \in Workers, NEW x, Belongs(w, x), x = job[w] \/ In(queue[w], x)
      PROVE  Belongs(w, x)'
  <2>1. \A c \in Callers : x = ItemOf(c, w) => Held(c, w)
    BY <1>1 DEF Held
  <2> QED
    BY <1>1, <2>1, BelongsKept
<1>2. \A w \in Workers : \A i \in 1 .. Len(queue[w]) : In(queue[w], queue[w][i])
  BY DEF In
<1> QED
  BY <1>1, <1>2 DEF FanOutInv, ItemInv, workerVars

LEMMA NoCalls ==
  ASSUME FanOutInv, \A c \in Callers : ~Active(c)
  PROVE  \A w \in Workers : /\ job[w] = NullItem /\ worker[w] \notin {"scan", "count"}
                            /\ \A i \in 1 .. Len(queue[w]) : queue[w][i] = NullItem
<1> SUFFICES ASSUME NEW w \in Workers
             PROVE  /\ job[w] = NullItem /\ worker[w] \notin {"scan", "count"}
                    /\ \A i \in 1 .. Len(queue[w]) : queue[w][i] = NullItem
  OBVIOUS
<1>1. job[w] = NullItem
  BY HeldItem
<1>2. \A i \in 1 .. Len(queue[w]) : queue[w][i] = NullItem
  BY HeldItem DEF In
<1> QED
  BY <1>1, <1>2 DEF FanOutInv, ItemInv

\* Main acts when no call is under way, and hands out nothing but null items.
LEMMA MainKept ==
  ASSUME FanOutInv, \A c \in Callers : ~Active(c), UNCHANGED <<call, claimed, job>>, RuntimeInv',
         queue' \in [Workers -> Seq(Items \cup {NullItem})],
         \A w \in Workers :
           /\ Len(queue'[w]) <= QueueCapacity
           /\ \A i \in 1 .. Len(queue'[w]) : queue'[w][i] = NullItem
           /\ worker'[w] \notin {"scan", "count"}
  PROVE  FanOutInv'
<1>1. FrameInv' /\ ScratchInv' /\ \A c \in Callers : CallerInv(c)'
  BY DEF FanOutInv, FrameInv, ScratchInv, CallerInv, Active
<1>2. \A w \in Workers : job'[w] = NullItem
  BY NoCalls
<1>3. ItemInv'
  BY <1>2 DEF FanOutInv, ItemInv, Belongs, Once
<1> QED
  BY <1>1, <1>3 DEF FanOutInv

LEMMA MainFanOut ==
  ASSUME FanOutInv, MainCalls \/ MainRuns
  PROVE  FanOutInv'
<1> USE DEF Workers
<1>1. \A c \in Callers : ~Active(c)
  BY DEF FanOutInv, CallerInv, Phase, Active, MainCalls, MainRuns, InitBegin, InitMemory,
     InitArrays, StartWorker, StartFails, JoinStarted, InitCleanup, ShutdownBegin, SendNull,
     JoinWorker, Release
<1>2. PoolInv'
  BY NextPool DEF FanOutInv, RuntimeInv, Next
<1>a. Flags'
  BY DEF FanOutInv, RuntimeInv, Flags, MainCalls, MainRuns, InitBegin, InitMemory,
     InitArrays, StartWorker, StartFails, JoinStarted, InitCleanup, ShutdownBegin, SendNull,
     JoinWorker, Release
<1>3. RuntimeInv'
  BY <1>2, <1>a, BoundAssumption DEF FanOutInv, RuntimeInv, MainCalls, MainRuns, InitBegin, InitMemory,
     InitArrays, StartWorker, StartFails, JoinStarted, InitCleanup, ShutdownBegin, SendNull,
     JoinWorker, Release
<1>4. /\ queue \in [Workers -> Seq(Items \cup {NullItem})]
      /\ worker \in [Workers -> {"none", "pop", "scan", "count", "exited"}]
      /\ at \in Workers
      /\ \A w \in Workers :
           /\ Len(queue[w]) <= QueueCapacity
           /\ \A i \in 1 .. Len(queue[w]) : queue[w][i] = NullItem
           /\ worker[w] \notin {"scan", "count"}
  BY <1>1, NoCalls DEF FanOutInv, ItemInv, RuntimeInv, PoolInv, ControlInv
<1>5. /\ UNCHANGED <<call, claimed, job>>
      /\ \A w \in Workers : worker'[w] \notin {"scan", "count"}
  BY <1>4 DEF MainCalls, MainRuns, InitBegin, InitMemory, workerVars,
     InitArrays, StartWorker, StartFails, JoinStarted, InitCleanup, ShutdownBegin, SendNull,
     JoinWorker, Release
<1>6. CASE InitArrays
  <2>1. queue' = [w \in Workers |-> << >>] /\ Len(<< >>) = 0 /\ 0 <= QueueCapacity
    BY <1>6, CapacityAssumption DEF InitArrays
  <2> QED
    BY <1>1, <1>3, <1>5, <2>1, MainKept
<1>7. CASE SendNull
  <2> DEFINE q == Append(queue[at], NullItem)
  <2>1. queue' = [queue EXCEPT ![at] = q] /\ Len(queue[at]) < QueueCapacity
    BY <1>4, <1>7 DEF SendNull, Enqueue, HasSpace
  <2>2. /\ q \in Seq(Items \cup {NullItem}) /\ Len(q) = Len(queue[at]) + 1
        /\ Len(queue[at]) \in Nat
        /\ \A i \in 1 .. Len(q) : q[i] = NullItem
    <3>1. queue[at] \in Seq(Items \cup {NullItem})
      BY <1>4
    <3>2. \A i \in 1 .. Len(queue[at]) : queue[at][i] = NullItem
      BY <1>4
    <3> QED
      BY <3>1, <3>2
  <2> HIDE DEF q
  <2>3. Len(q) <= QueueCapacity
    BY <2>1, <2>2, CapacityAssumption
  <2>4. queue' \in [Workers -> Seq(Items \cup {NullItem})]
    BY <1>4, <2>1, <2>2
  <2>5. \A w \in Workers : queue'[w] = q \/ queue'[w] = queue[w]
    BY <1>4, <2>1
  <2> QED
    BY <1>1, <1>3, <1>4, <1>5, <2>2, <2>3, <2>4, <2>5, MainKept
<1>8. CASE UNCHANGED queue
  BY <1>1, <1>3, <1>4, <1>5, <1>8, MainKept
<1> QED
  BY <1>6, <1>7, <1>8 DEF MainCalls, MainRuns, InitBegin, InitMemory, workerVars,
     StartWorker, StartFails, JoinStarted, InitCleanup, ShutdownBegin, JoinWorker, Release

LEMMA LeftFinite ==
  ASSUME NEW c, call[c].shards \in Nat
  PROVE  /\ IsFiniteSet(Left(c))
         /\ IsFiniteSet(0 .. call[c].shards - 1)
         /\ Cardinality(0 .. call[c].shards - 1) = call[c].shards
<1> DEFINE a == 0
           b == call[c].shards - 1
<1>1. a \in Int /\ b \in Int
  OBVIOUS
<1>2. IsFiniteSet(a .. b) /\ Cardinality(a .. b) = IF a > b THEN 0 ELSE b - a + 1
  <2> HIDE DEF a, b
  <2> QED
    BY <1>1, FS_Interval
<1>3. IsFiniteSet(0 .. call[c].shards - 1) /\ Cardinality(0 .. call[c].shards - 1) = call[c].shards
  BY <1>2
<1>4. Left(c) \subseteq 0 .. call[c].shards - 1
  BY DEF Left
<1> QED
  BY <1>3, <1>4, FS_Subset

-----------------------------------------------------------------------------
(* The workers *)

LEMMA RuntimeKept ==
  ASSUME FanOutInv, Next, UNCHANGED runtimeVars, claimed' \in BOOLEAN
  PROVE  RuntimeInv' /\ main' = main
<1>1. PoolInv'
  BY NextPool DEF FanOutInv, RuntimeInv
<1>2. Flags'
  BY DEF FanOutInv, RuntimeInv, Flags, runtimeVars
<1> QED
  BY <1>1, <1>2 DEF FanOutInv, RuntimeInv, runtimeVars

LEMMA PopFanOut ==
  ASSUME FanOutInv, NEW w \in Workers, Pop(w)
  PROVE  FanOutInv'
<1> DEFINE T == Items \cup {NullItem}
           x == Head(queue[w])
           q == Tail(queue[w])
<1>1. /\ queue \in [Workers -> Seq(T)] /\ job \in [Workers -> T]
      /\ queue[w] \in Seq(T) /\ queue[w] # << >> /\ job[w] = NullItem
      /\ x \in T /\ q \in Seq(T) /\ Len(q) <= Len(queue[w]) /\ Len(queue[w]) <= QueueCapacity
      /\ Len(q) \in Nat /\ Len(queue[w]) \in Nat /\ Once(queue[w])
      /\ queue' = [queue EXCEPT ![w] = q] /\ job' = [job EXCEPT ![w] = x]
  <2>1. queue' = [queue EXCEPT ![w] = q] /\ job' = [job EXCEPT ![w] = x] /\ queue[w] # << >>
        /\ worker[w] = "pop"
    BY DEF Pop
  <2>2. /\ queue \in [Workers -> Seq(T)] /\ job \in [Workers -> T]
        /\ Len(queue[w]) <= QueueCapacity /\ Once(queue[w])
        /\ job[w] # NullItem <=> worker[w] \in {"scan", "count"}
    BY DEF FanOutInv, ItemInv
  <2> HIDE DEF T
  <2>3. queue[w] \in Seq(T) /\ job[w] = NullItem
    BY <2>1, <2>2
  <2>4. x \in T /\ q \in Seq(T) /\ Len(q) <= Len(queue[w])
        /\ Len(q) \in Nat /\ Len(queue[w]) \in Nat
    BY <2>1, <2>3
  <2> QED
    BY <2>1, <2>2, <2>3, <2>4
<1>2. /\ worker[w] = "pop" /\ worker'[w] = IF x = NullItem THEN "exited" ELSE "scan"
      /\ \A v \in Workers \ {w} : worker'[v] = worker[v]
      /\ UNCHANGED <<runtimeVars, call, claimed>>
  BY DEF Pop, FanOutInv, RuntimeInv, PoolInv, ControlInv
<1>3. Next /\ claimed \in BOOLEAN
  BY DEF Next, WorkerStep, FanOutInv, RuntimeInv, Flags
<1>4. RuntimeInv' /\ main' = main
  BY <1>2, <1>3, RuntimeKept
<1>5. /\ \A y : In(queue[w], y) <=> y = x \/ In(q, y)
      /\ Once(q) /\ (x # NullItem => ~In(q, x))
  BY <1>1, InTail, OnceTail
<1> HIDE DEF x, q
<1>6. /\ queue'[w] = q /\ job'[w] = x
      /\ \A v \in Workers \ {w} : queue'[v] = queue[v] /\ job'[v] = job[v]
      /\ queue' \in [Workers -> Seq(T)] /\ job' \in [Workers -> T]
  BY <1>1
<1>7. \A v \in Workers : \A y : y # NullItem =>
        ((y = job'[v] \/ In(queue'[v], y)) <=> (y = job[v] \/ In(queue[v], y)))
  BY <1>1, <1>5, <1>6
<1>8. \A v, y : Belongs(v, y)' <=> Belongs(v, y)
  BY <1>2 DEF Belongs, ItemOf
<1>9. ASSUME NEW d \in Callers PROVE CallerInv(d)'
  <2>1. ASSUME NEW v \in Workers, Active(d)
        PROVE  (Held(d, v)' <=> Held(d, v)) /\ (Counting(d, v)' <=> Counting(d, v))
    <3>1. ItemOf(d, v) # NullItem /\ ItemOf(d, v)' = ItemOf(d, v)
      BY <1>2, <2>1, ItemsDiffer DEF ItemOf
    <3> QED
      BY <1>2, <1>6, <1>7, <3>1 DEF Held, Counting
  <2> QED
    BY <1>2, <1>4, <2>1, CallerKept
<1>10. FrameInv' /\ ScratchInv'
  BY <1>2 DEF FanOutInv, FrameInv, ScratchInv, Active
<1>11. ItemInv'
  <2>1. ASSUME NEW v \in Workers
        PROVE  /\ Len(queue'[v]) <= QueueCapacity
               /\ job'[v] # NullItem <=> worker'[v] \in {"scan", "count"}
               /\ Belongs(v, job'[v])
               /\ \A i \in 1 .. Len(queue'[v]) : Belongs(v, queue'[v][i])
               /\ Once(queue'[v])
               /\ job'[v] # NullItem => ~In(queue'[v], job'[v])
    <3>1. CASE v = w
      <4>1. Len(queue'[v]) <= QueueCapacity
        BY <1>1, <1>6, <3>1, CapacityAssumption
      <4>2. Belongs(v, x) /\ \A i \in 1 .. Len(q) : Belongs(v, q[i])
        <5>1. \A y : In(queue[w], y) => Belongs(w, y)
          BY DEF In, FanOutInv, ItemInv
        <5>2. \A i \in 1 .. Len(q) : In(q, q[i])
          BY DEF In
        <5> QED
          BY <1>5, <3>1, <5>1, <5>2
      <4> QED
        BY <1>2, <1>5, <1>6, <3>1, <4>1, <4>2
    <3>2. CASE v # w
      BY <1>2, <1>6, <3>2 DEF FanOutInv, ItemInv
    <3> QED
      BY <3>1, <3>2
  <2> QED
    BY <1>6, <1>8, <2>1 DEF ItemInv
<1> QED
  BY <1>4, <1>9, <1>10, <1>11 DEF FanOutInv

\* The results of a scan: one more for the records of the shard.
LEMMA ScannedHits ==
  ASSUME FanOutInv, NEW c \in Callers, Active(c), NEW s \in 0 .. call[c].shards - 1,
         Pending(c, s), ~Counting(c, s)
  PROVE  /\ DOMAIN Scanned(c, s) = 0 .. call[c].count - 1
         /\ \A t \in 0 .. call[c].shards - 1, p \in 0 .. call[c].count - 1 :
              p \in ShardRange(call[c].kind, call[c].count, call[c].shards, t) =>
                Scanned(c, s)[p] = IF t = s THEN 1 ELSE call[c].hits[p]
<1> DEFINE Part(t) == ShardRange(call[c].kind, call[c].count, call[c].shards, t)
           N == 0 .. call[c].count - 1
           S == 0 .. call[c].shards - 1
<1>1. /\ call[c].kind \in Kinds /\ call[c].count \in Nat \ {0} /\ call[c].shards \in Nat \ {0}
      /\ DOMAIN call[c].hits = N
      /\ \A p \in N : p \in Part(s) => call[c].hits[p] = 0
  <2>1. CallerInv(c) /\ FrameInv
    BY DEF FanOutInv
  <2>2. Phase(c) /\ Hits(c)
    BY <2>1 DEF CallerInv
  <2>3. call[c].kind \in Kinds /\ call[c].count \in Nat \ {0} /\ call[c].shards \in Nat \ {0}
    BY <2>1, <2>2 DEF FrameInv, Phase
  <2> QED
    BY <2>2, <2>3 DEF Hits
<1>2. \A i, j \in S, p \in N : p \in Part(i) /\ p \in Part(j) => i = j
  BY <1>1, Partition, ZenonT(60)
<1>3. Scanned(c, s) = [p \in N |-> call[c].hits[p] + (IF p \in Part(s) THEN 1 ELSE 0)]
  BY <1>1 DEF Scanned
<1>4. \A t \in S, p \in N : p \in Part(t) => call[c].hits[p] \in Nat
  BY DEF FanOutInv, CallerInv, Hits
<1> HIDE DEF Part, N
<1>5. \A t \in S, p \in N : p \in Part(t) =>
        Scanned(c, s)[p] = IF t = s THEN 1 ELSE call[c].hits[p]
  BY <1>1, <1>2, <1>3, <1>4
<1>6. DOMAIN Scanned(c, s) = N
  BY <1>3
<1> QED
  BY <1>5, <1>6 DEF N, Part

LEMMA ScanFanOut ==
  ASSUME FanOutInv, NEW w \in Workers, Scan(w)
  PROVE  FanOutInv'
<1>1. /\ worker[w] = "scan" /\ worker'[w] = "count" /\ job[w] # NullItem
      /\ \A v \in Workers \ {w} : worker'[v] = worker[v]
      /\ UNCHANGED <<runtimeVars, queue, job, claimed>>
  BY DEF Scan, FanOutInv, ItemInv, RuntimeInv, PoolInv, ControlInv
<1>2. PICK c \in Callers : /\ job[w] = ItemOf(c, w) /\ Held(c, w) /\ Active(c)
                           /\ call[c].pc \in {"submit", "own", "wait"} /\ w < call[c].next
  BY <1>1, HeldItem
<1>3. job[w].by = c /\ job[w].shard = w
  BY <1>2 DEF ItemOf
<1> DEFINE h == Scanned(c, w)
<1>4. DOMAIN call = Callers /\ DOMAIN call[c] = Fields /\ call' = [call EXCEPT ![c].hits = h]
  BY <1>3 DEF Scan, FanOutInv, FrameInv
<1> HIDE DEF h
<1>5. /\ DOMAIN call' = Callers /\ \A d \in Callers \ {c} : call'[d] = call[d]
      /\ DOMAIN call'[c] = Fields /\ call'[c].hits = h
      /\ call'[c].pc = call[c].pc /\ call'[c].id = call[c].id /\ call'[c].kind = call[c].kind
      /\ call'[c].count = call[c].count /\ call'[c].shards = call[c].shards
      /\ call'[c].next = call[c].next /\ call'[c].remaining = call[c].remaining
      /\ call'[c].scratch = call[c].scratch
  BY <1>4 DEF Fields
<1>6. Next /\ claimed \in BOOLEAN
  BY DEF Next, WorkerStep, FanOutInv, RuntimeInv, Flags
<1>7. RuntimeInv' /\ main' = main
  BY <1>1, <1>6, RuntimeKept
<1>8. /\ \A d \in Callers : call'[d].id = call[d].id /\ call'[d].pc = call[d].pc
                            /\ call'[d].next = call[d].next /\ call'[d].scratch = call[d].scratch
      /\ \A d \in Callers, v \in Workers : ItemOf(d, v)' = ItemOf(d, v)
      /\ \A d \in Callers, v \in Workers : Held(d, v)' <=> Held(d, v)
      /\ \A d \in Callers : Active(d)' <=> Active(d)
  BY <1>1, <1>5 DEF ItemOf, Held, Active
<1>9. \A d \in Callers, v \in Workers :
        Counting(d, v)' <=> Counting(d, v) \/ (d = c /\ v = w)
  BY <1>1, <1>2, <1>8, ItemsDiffer DEF Counting
<1>10. ~Counting(c, w)
  BY <1>1 DEF Counting
<1>11. ASSUME NEW d \in Callers \ {c} PROVE CallerInv(d)'
  BY <1>5, <1>7, <1>8, <1>9, CallerKept
<1>12. CallerInv(c)'
  <2>1. /\ Phase(c) /\ Counted(c) /\ Hits(c) /\ call[c].shards \in Nat /\ call[c].kind \in Kinds
        /\ call[c].next \in 0 .. call[c].shards
    BY <1>2 DEF FanOutInv, FrameInv, CallerInv
  <2>2. Phase(c)'
    BY <1>5, <1>7, <2>1 DEF Phase, RemoteOf
  <2>3. /\ RemoteOf(c)' = RemoteOf(c) /\ RemoteOf(c) \in Nat
        /\ \A s \in 0 .. call[c].shards - 1 : s < RemoteOf(c) => s \in Workers
    BY <1>5, <2>1, RemoteShards, ThreadAssumption DEF Phase, RemoteOf, Workers
  <2>4. \A s \in 0 .. call[c].shards - 1 : Pending(c, s)' <=> Pending(c, s)
    BY <1>5, <1>8, <2>3 DEF Pending
  <2>5. Left(c)' = Left(c)
    BY <1>5, <2>4 DEF Left
  <2>6. w \in 0 .. call[c].shards - 1 /\ w < RemoteOf(c) /\ Pending(c, w)
    BY <1>2, <2>1, <2>3, ThreadAssumption DEF Workers, Phase, Pending
  <2>7. /\ DOMAIN h = 0 .. call[c].count - 1
        /\ \A t \in 0 .. call[c].shards - 1, p \in 0 .. call[c].count - 1 :
             p \in ShardRange(call[c].kind, call[c].count, call[c].shards, t) =>
               h[p] = IF t = w THEN 1 ELSE call[c].hits[p]
    BY <1>2, <1>10, <2>6, ScannedHits DEF h
  <2>8. \A s \in 0 .. call[c].shards - 1 :
          Counting(c, s)' <=> Counting(c, s) \/ s = w
    BY <1>9 DEF Counting
  <2>9. Hits(c)'
    BY <1>5, <2>1, <2>4, <2>7, <2>8 DEF Hits
  <2> QED
    BY <1>5, <2>1, <2>2, <2>5, <2>9 DEF CallerInv, Counted
<1>13. FrameInv' /\ ScratchInv'
  BY <1>1, <1>5, <1>8 DEF FanOutInv, FrameInv, ScratchInv
<1>14. ItemInv'
  <2>1. \A v \in Workers : \A y : Belongs(v, y)' <=> Belongs(v, y)
    BY <1>8 DEF Belongs
  <2> QED
    BY <1>1, <2>1 DEF FanOutInv, ItemInv
<1> QED
  BY <1>7, <1>11, <1>12, <1>13, <1>14 DEF FanOutInv

LEMMA CompleteFanOut ==
  ASSUME FanOutInv, NEW w \in Workers, Complete(w)
  PROVE  FanOutInv'
<1>1. /\ worker[w] = "count" /\ worker'[w] = "pop" /\ job[w] # NullItem /\ job'[w] = NullItem
      /\ \A v \in Workers \ {w} : worker'[v] = worker[v] /\ job'[v] = job[v]
      /\ UNCHANGED <<runtimeVars, queue, claimed>>
      /\ job' \in [Workers -> Items \cup {NullItem}]
  BY DEF Complete, FanOutInv, ItemInv, RuntimeInv, PoolInv, ControlInv
<1>2. PICK c \in Callers : /\ job[w] = ItemOf(c, w) /\ Held(c, w) /\ Active(c)
                           /\ call[c].pc \in {"submit", "own", "wait"} /\ w < call[c].next
  BY <1>1, HeldItem
<1>3. job[w].by = c
  BY <1>2 DEF ItemOf
<1>4. DOMAIN call = Callers /\ DOMAIN call[c] = Fields
      /\ call' = [call EXCEPT ![c].remaining = call[c].remaining - 1]
  BY <1>3 DEF Complete, FanOutInv, FrameInv
<1>5. /\ DOMAIN call' = Callers /\ \A d \in Callers \ {c} : call'[d] = call[d]
      /\ DOMAIN call'[c] = Fields /\ call'[c].hits = call[c].hits
      /\ call'[c].pc = call[c].pc /\ call'[c].id = call[c].id /\ call'[c].kind = call[c].kind
      /\ call'[c].count = call[c].count /\ call'[c].shards = call[c].shards
      /\ call'[c].next = call[c].next /\ call'[c].remaining = call[c].remaining - 1
      /\ call'[c].scratch = call[c].scratch
  BY <1>4 DEF Fields
<1>6. Next /\ claimed \in BOOLEAN
  BY DEF Next, WorkerStep, FanOutInv, RuntimeInv, Flags
<1>7. RuntimeInv' /\ main' = main
  BY <1>1, <1>6, RuntimeKept
<1>8. /\ \A d \in Callers : call'[d].id = call[d].id /\ call'[d].pc = call[d].pc
                            /\ call'[d].next = call[d].next /\ call'[d].scratch = call[d].scratch
      /\ \A d \in Callers, v \in Workers : ItemOf(d, v)' = ItemOf(d, v)
      /\ \A d \in Callers : Active(d)' <=> Active(d)
  BY <1>1, <1>5 DEF ItemOf, Active
<1>9. ~In(queue[w], ItemOf(c, w))
  BY <1>1, <1>2 DEF FanOutInv, ItemInv
<1>10. \A d \in Callers, v \in Workers : Active(d) =>
         /\ Held(d, v)' <=> Held(d, v) /\ ~(d = c /\ v = w)
         /\ Counting(d, v)' <=> Counting(d, v) /\ ~(d = c /\ v = w)
  <2> SUFFICES ASSUME NEW d \in Callers, NEW v \in Workers, Active(d)
               PROVE  /\ Held(d, v)' <=> Held(d, v) /\ ~(d = c /\ v = w)
                      /\ Counting(d, v)' <=> Counting(d, v) /\ ~(d = c /\ v = w)
    OBVIOUS
  <2>1. CASE v # w
    BY <1>1, <1>8, <2>1 DEF Held, Counting
  <2>2. CASE v = w
    <3>1. ItemOf(d, v) # NullItem /\ (ItemOf(d, v) = ItemOf(c, w) => d = c)
      BY ItemsDiffer
    <3> QED
      BY <1>1, <1>2, <1>8, <1>9, <2>2, <3>1 DEF Held, Counting
  <2> QED
    BY <2>1, <2>2
<1>11. ASSUME NEW d \in Callers \ {c} PROVE CallerInv(d)'
  BY <1>5, <1>7, <1>10, CallerKept
<1> DEFINE S == 0 .. call[c].shards - 1
<1>12. /\ Phase(c) /\ Counted(c) /\ Hits(c) /\ call[c].shards \in Nat /\ call[c].kind \in Kinds
       /\ call[c].next \in 0 .. call[c].shards /\ call[c].remaining \in 0 .. call[c].shards
  BY <1>2 DEF FanOutInv, FrameInv, CallerInv
<1>13. /\ RemoteOf(c)' = RemoteOf(c) /\ RemoteOf(c) \in Nat
       /\ \A s \in S : s < RemoteOf(c) => s \in Workers
  BY <1>5, <1>12, RemoteShards, ThreadAssumption DEF Phase, RemoteOf, Workers
<1>14. w \in S /\ w < RemoteOf(c) /\ Pending(c, w)
  BY <1>2, <1>12, <1>13, ThreadAssumption DEF Workers, Phase, Pending
<1>15. \A s \in S : Pending(c, s)' <=> Pending(c, s) /\ s # w
  <2>1. call[c].next \in Nat /\ w \in Nat
    BY <1>12, <1>14
  <2> QED
    BY <1>2, <1>5, <1>10, <1>13, <1>14, <2>1 DEF Pending
<1>16. Left(c)' = Left(c) \ {w} /\ w \in Left(c) /\ Left(c) \subseteq S
  BY <1>5, <1>14, <1>15 DEF Left
<1>17. /\ Cardinality(Left(c)') = Cardinality(Left(c)) - 1
       /\ Cardinality(Left(c)) \in Nat \ {0}
  <2>2. IsFiniteSet(Left(c))
    BY <1>12, LeftFinite
  <2>3. Cardinality(Left(c) \ {w}) = Cardinality(Left(c)) - 1
    BY <1>16, <2>2, FS_RemoveElement
  <2>4. Cardinality(Left(c)) \in Nat /\ Cardinality(Left(c)) # 0
    BY <1>16, <2>2, FS_CardinalityType, FS_EmptySet
  <2> QED
    BY <1>16, <2>3, <2>4
<1>18. CallerInv(c)'
  <2>1. Phase(c)'
    BY <1>5, <1>7, <1>12 DEF Phase, RemoteOf
  <2>2. Counted(c)'
    BY <1>5, <1>12, <1>17 DEF Counted
  <2>3. \A s \in S : (Pending(c, s) /\ ~Counting(c, s))' <=> (Pending(c, s) /\ ~Counting(c, s))
    <3>1. Counting(c, w)
      BY <1>1, <1>2 DEF Counting
    <3>2. \A s \in S : s # w => (Counting(c, s)' <=> Counting(c, s))
      BY <1>2, <1>10 DEF Counting
    <3> QED
      BY <1>15, <3>1, <3>2
  <2>4. Hits(c)'
    BY <1>5, <1>12, <2>3 DEF Hits
  <2> QED
    BY <2>1, <2>2, <2>4 DEF CallerInv
<1>19. FrameInv' /\ ScratchInv'
  <2>1. call'[c].remaining \in 0 .. call[c].shards
    BY <1>5, <1>12, <1>17 DEF Counted
  <2> QED
    BY <1>1, <1>5, <1>8, <2>1 DEF FanOutInv, FrameInv, ScratchInv
<1>20. ItemInv'
  <2>1. \A v \in Workers : \A y : Belongs(v, y)' <=> Belongs(v, y)
    BY <1>8 DEF Belongs
  <2>2. Belongs(w, NullItem)
    BY DEF Belongs
  <2> QED
    BY <1>1, <2>1, <2>2 DEF FanOutInv, ItemInv
<1> QED
  BY <1>7, <1>11, <1>18, <1>19, <1>20 DEF FanOutInv

-----------------------------------------------------------------------------
(* The callers *)

\* A step of one call changes its frame only.
LEMMA CallFanOut ==
  ASSUME FanOutInv, NEW c \in Callers, UNCHANGED <<runtimeVars, workerVars>>,
         Next, claimed' \in BOOLEAN,
         DOMAIN call' = Callers, \A d \in Callers \ {c} : call'[d] = call[d],
         FrameInv', ScratchInv', CallerInv(c)',
         \A w \in Workers : Held(c, w) /\ call[c].pc \in {"submit", "own", "wait"} =>
           /\ call'[c].id = call[c].id
           /\ call'[c].pc \in {"submit", "own", "wait"}
           /\ w < call[c].next => w < call'[c].next
  PROVE  FanOutInv'
<1>1. RuntimeInv' /\ main' = main
  BY RuntimeKept
<1>2. ItemInv'
  BY ItemsKept
<1>3. ASSUME NEW d \in Callers \ {c} PROVE CallerInv(d)'
  <2>1. \A w \in Workers : (Held(d, w)' <=> Held(d, w)) /\ (Counting(d, w)' <=> Counting(d, w))
    BY DEF Held, Counting, ItemOf, workerVars
  <2> QED
    BY <1>1, <2>1, CallerKept
<1> QED
  BY <1>1, <1>2, <1>3 DEF FanOutInv

LEMMA BeginFanOut ==
  ASSUME FanOutInv, NEW c \in Callers, NEW kind \in Kinds, NEW count \in Counts,
         Begin(c, kind, count)
  PROVE  FanOutInv'
<1> DEFINE n == ShardCount(kind, count)
           r == Remote(kind, count)
           h == [p \in 0 .. count - 1 |-> 0]
<1>1. /\ main = "up" /\ ~Active(c) /\ call[c].id < MaxCalls /\ call[c].id \in Nat
      /\ UNCHANGED <<runtimeVars, workerVars, claimed>> /\ claimed \in BOOLEAN
      /\ main' = main /\ MaxCalls \in Nat
  BY BoundAssumption
  DEF Begin, Active, FanOutInv, FrameInv, RuntimeInv, Flags, runtimeVars
<1>2. /\ count \in Nat \ {0} /\ r \in Nat \ {0} /\ r <= ThreadCount
      /\ n = IF kind = "record" THEN r + 1 ELSE r
  BY CountAssumption, RemoteShards
<1>3. DOMAIN h = 0 .. count - 1 /\ \A p \in 0 .. count - 1 : h[p] = 0
  OBVIOUS
<1>4. /\ DOMAIN call = Callers
      /\ call' = [call EXCEPT ![c] =
           [pc |-> IF kind = "graph" THEN "claim" ELSE "submit", id |-> call[c].id + 1,
            kind |-> kind, count |-> count, shards |-> n, next |-> 0, remaining |-> n,
            scratch |-> "none", hits |-> h]]
  BY DEF Begin, FanOutInv, FrameInv
<1> HIDE DEF h, n, r
<1>5. /\ DOMAIN call' = Callers /\ \A d \in Callers \ {c} : call'[d] = call[d]
      /\ DOMAIN call'[c] = Fields
      /\ call'[c].pc = (IF kind = "graph" THEN "claim" ELSE "submit")
      /\ call'[c].id = call[c].id + 1 /\ call'[c].kind = kind /\ call'[c].count = count
      /\ call'[c].shards = n /\ call'[c].next = 0 /\ call'[c].remaining = n
      /\ call'[c].scratch = "none" /\ call'[c].hits = h
  BY <1>4 DEF Fields
<1>6. Next
  BY DEF Next
<1>7. FrameInv'
  BY <1>1, <1>2, <1>5 DEF FanOutInv, FrameInv
<1>8. ScratchInv'
  BY <1>1, <1>5 DEF FanOutInv, ScratchInv, Active
<1>9. /\ RemoteOf(c)' = r
      /\ \A w \in Workers : ~Held(c, w)' /\ ~Counting(c, w)'
  <2>1. RemoteOf(c)' = r
    BY <1>5 DEF RemoteOf, r
  <2>2. ASSUME NEW w \in Workers,
               job[w] = ItemOf(c, w)' \/ In(queue[w], ItemOf(c, w)')
        PROVE  FALSE
    <3>1. ItemOf(c, w)'.by = c /\ ItemOf(c, w)'.id # 0
      BY <1>1, <1>5 DEF ItemOf
    <3>2. ItemOf(c, w)' # NullItem
      BY <3>1 DEF NullItem
    <3>3. PICK d \in Callers : ItemOf(c, w)' = ItemOf(d, w) /\ Active(d)
      BY <2>2, <3>2, HeldItem
    <3>4. ItemOf(d, w).by = d
      BY DEF ItemOf
    <3> QED
      BY <1>1, <3>1, <3>3, <3>4
  <2>3. UNCHANGED <<job, queue>>
    BY <1>1 DEF workerVars
  <2> QED
    BY <2>1, <2>2, <2>3 DEF Held, Counting
<1>10. \A s \in 0 .. n - 1 : Pending(c, s)' /\ ~Counting(c, s)'
  <2> SUFFICES ASSUME NEW s \in 0 .. n - 1 PROVE Pending(c, s)' /\ ~Counting(c, s)'
    OBVIOUS
  <2>1. s \in Nat /\ s >= 0 /\ (~(s < r) => kind = "record")
    BY <1>2
  <2>2. Pending(c, s)'
    BY <1>5, <1>9, <2>1 DEF Pending
  <2>3. ~Counting(c, s)'
    BY <1>9 DEF Counting
  <2> QED
    BY <2>2, <2>3
<1>11. CallerInv(c)'
  <2>1. Phase(c)'
    BY <1>1, <1>2, <1>5, <1>9 DEF Phase, n
  <2>2. Left(c)' = 0 .. n - 1
    BY <1>5, <1>10 DEF Left
  <2>3. Cardinality(0 .. n - 1) = n
    <3>1. n \in Nat
      BY <1>2
    <3>2. 0 \in Int /\ n - 1 \in Int /\ (0 > n - 1 => n = 0) /\ (n - 1) - 0 + 1 = n
      BY <3>1
    <3> QED
      BY <3>2, FS_Interval
  <2>4. Counted(c)'
    BY <1>5, <2>2, <2>3 DEF Counted
  <2>5. Hits(c)'
    BY <1>3, <1>5, <1>10 DEF Hits
  <2> QED
    BY <2>1, <2>4, <2>5 DEF CallerInv
<1>12. \A w \in Workers : ~(call[c].pc \in {"submit", "own", "wait"})
  BY <1>1 DEF Active
<1> QED
  BY <1>1, <1>5, <1>6, <1>7, <1>8, <1>11, <1>12, CallFanOut

LEMMA ClaimFanOut ==
  ASSUME FanOutInv, NEW c \in Callers, ClaimScratch(c)
  PROVE  FanOutInv'
<1> DEFINE free == ScratchCount >= call[c].shards /\ ~claimed
<1>1. /\ call[c].pc = "claim" /\ Active(c) /\ DOMAIN call = Callers /\ DOMAIN call[c] = Fields
      /\ UNCHANGED <<runtimeVars, workerVars>> /\ claimed \in BOOLEAN
      /\ Phase(c) /\ Counted(c) /\ Hits(c) /\ call[c].shards \in Nat /\ call[c].kind \in Kinds
      /\ call[c].next = 0 /\ call[c].kind = "graph" /\ call[c].scratch = "none"
      /\ main' = main
  BY DEF ClaimScratch, Active, FanOutInv, FrameInv, CallerInv, Phase, RuntimeInv, Flags, runtimeVars
<1>2. claimed' = (claimed \/ ScratchCount >= call[c].shards) /\ claimed' \in BOOLEAN
  BY DEF ClaimScratch
<1>3. \/ /\ free /\ call' = [call EXCEPT ![c].pc = "submit", ![c].scratch = "index"]
      \/ call' = [call EXCEPT ![c].pc = "submit", ![c].scratch = "own"]
      \/ call' = [call EXCEPT ![c].pc = "idle"]
  BY DEF ClaimScratch
<1>4. /\ DOMAIN call' = Callers /\ \A d \in Callers \ {c} : call'[d] = call[d]
      /\ DOMAIN call'[c] = Fields /\ call'[c].hits = call[c].hits
      /\ call'[c].id = call[c].id /\ call'[c].kind = call[c].kind
      /\ call'[c].count = call[c].count /\ call'[c].shards = call[c].shards
      /\ call'[c].next = call[c].next /\ call'[c].remaining = call[c].remaining
      /\ \/ free /\ call'[c].pc = "submit" /\ call'[c].scratch = "index"
         \/ call'[c].pc = "submit" /\ call'[c].scratch = "own"
         \/ call'[c].pc = "idle" /\ call'[c].scratch = "none"
  <2>1. CASE free /\ call' = [call EXCEPT ![c].pc = "submit", ![c].scratch = "index"]
    BY <1>1, <2>1 DEF Fields
  <2>2. CASE call' = [call EXCEPT ![c].pc = "submit", ![c].scratch = "own"]
    BY <1>1, <2>2 DEF Fields
  <2>3. CASE call' = [call EXCEPT ![c].pc = "idle"]
    BY <1>1, <2>3 DEF Fields
  <2> QED
    BY <1>3, <2>1, <2>2, <2>3
<1>5. Next
  BY DEF Next, CallStep
<1>6. FrameInv'
  BY <1>4 DEF FanOutInv, FrameInv
<1>7. ScratchInv'
  <2>1. \A d \in Callers : Active(d) /\ call[d].scratch = "index" => claimed
    BY DEF FanOutInv, ScratchInv
  <2>2. claimed => claimed'
    BY <1>2
  <2>3. free => claimed' /\ ~claimed
    BY <1>2
  <2>4. \A d \in Callers \ {c} : Active(d)' /\ call'[d].scratch = "index" =>
          Active(d) /\ call[d].scratch = "index"
    BY <1>4 DEF Active
  <2>5. Active(c)' /\ call'[c].scratch = "index" => free
    BY <1>4 DEF Active
  <2>6. ASSUME NEW d \in Callers, Active(d)', call'[d].scratch = "index",
               NEW e \in Callers, Active(e)', call'[e].scratch = "index"
        PROVE  claimed' /\ d = e
    <3> HIDE DEF free
    <3> QED
      BY <2>1, <2>2, <2>3, <2>4, <2>5, <2>6 DEF FanOutInv, ScratchInv
  <2> QED
    BY <2>6 DEF ScratchInv
<1> HIDE DEF free
<1>8. CallerInv(c)'
  <2> SUFFICES ASSUME call'[c].pc = "submit" PROVE Phase(c)' /\ Counted(c)' /\ Hits(c)'
    BY <1>4 DEF CallerInv, Active
  <2>1. Phase(c)'
    BY <1>1, <1>4 DEF Phase, RemoteOf
  <2>2. /\ RemoteOf(c)' = RemoteOf(c)
        /\ \A s \in 0 .. call[c].shards - 1 : s < RemoteOf(c)
    BY <1>1, <1>4, RemoteShards DEF Phase, RemoteOf
  <2>3. \A s \in 0 .. call[c].shards - 1 :
          (Pending(c, s)' <=> Pending(c, s)) /\ (Counting(c, s)' <=> Counting(c, s))
    BY <1>1, <1>4, <2>2 DEF Pending, Held, Counting, ItemOf, workerVars
  <2>4. Left(c)' = Left(c)
    BY <1>4, <2>3 DEF Left
  <2> QED
    BY <1>1, <1>4, <2>1, <2>3, <2>4 DEF Counted, Hits
<1> QED
  BY <1>1, <1>2, <1>4, <1>5, <1>6, <1>7, <1>8, CallFanOut

LEMMA OwnFanOut ==
  ASSUME FanOutInv, NEW c \in Callers, OwnShard(c)
  PROVE  FanOutInv'
<1>a. PICK z : z = call[c].shards - 1
  OBVIOUS
<1> DEFINE h == Scanned(c, z)
           S == 0 .. call[c].shards - 1
<1>1. /\ call[c].pc = "own" /\ Active(c) /\ DOMAIN call = Callers /\ DOMAIN call[c] = Fields
      /\ UNCHANGED <<runtimeVars, workerVars, claimed>> /\ claimed \in BOOLEAN
      /\ Phase(c) /\ Counted(c) /\ Hits(c) /\ call[c].shards \in Nat /\ call[c].kind \in Kinds
      /\ call[c].next \in 0 .. call[c].shards /\ call[c].remaining \in 0 .. call[c].shards
      /\ main' = main
  BY DEF OwnShard, Active, FanOutInv, FrameInv, CallerInv, RuntimeInv, Flags, runtimeVars
<1>2. /\ call[c].kind = "record" /\ call[c].next = RemoteOf(c)
      /\ call[c].shards = RemoteOf(c) + 1 /\ RemoteOf(c) \in Nat
      /\ RemoteOf(c) <= ThreadCount /\ call[c].count \in Nat \ {0}
  BY <1>1, RemoteShards DEF Phase, RemoteOf
<1>3. z \in S /\ z = RemoteOf(c)
  BY <1>2, <1>a
<1>4. call' = [call EXCEPT ![c].hits = h, ![c].remaining = call[c].remaining - 1, ![c].pc = "wait"]
  BY <1>1, <1>a DEF OwnShard
<1> HIDE DEF h
<1>5. /\ DOMAIN call' = Callers /\ \A d \in Callers \ {c} : call'[d] = call[d]
      /\ DOMAIN call'[c] = Fields /\ call'[c].hits = h /\ call'[c].pc = "wait"
      /\ call'[c].id = call[c].id /\ call'[c].kind = call[c].kind
      /\ call'[c].count = call[c].count /\ call'[c].shards = call[c].shards
      /\ call'[c].next = call[c].next /\ call'[c].remaining = call[c].remaining - 1
      /\ call'[c].scratch = call[c].scratch
  BY <1>1, <1>4 DEF Fields
<1>6. Next
  BY DEF Next, CallStep
<1>7. /\ \A w \in Workers : ItemOf(c, w)' = ItemOf(c, w)
      /\ \A w \in Workers : Held(c, w)' <=> Held(c, w)
      /\ \A s \in S : Counting(c, s)' <=> Counting(c, s)
  BY <1>1, <1>5 DEF ItemOf, Held, Counting, workerVars
<1>8. RemoteOf(c)' = RemoteOf(c) /\ \A s \in S : s < RemoteOf(c) => s \in Workers
  BY <1>2, <1>5, ThreadAssumption DEF RemoteOf, Workers
<1>9. /\ Pending(c, z) /\ ~Pending(c, z)'
      /\ \A s \in S : s # z => s < RemoteOf(c)
      /\ \A s \in S : s # z => (Pending(c, s)' <=> Pending(c, s))
  <2>1. Pending(c, z) /\ ~Pending(c, z)'
    BY <1>1, <1>2, <1>3, <1>5, <1>8 DEF Pending
  <2>2. \A s \in S : s # z => s < RemoteOf(c)
    BY <1>2, <1>3
  <2> QED
    BY <1>5, <1>7, <1>8, <2>1, <2>2 DEF Pending
<1>10. ~Counting(c, z)
  <2> SUFFICES ASSUME z \in Workers, job[z] = ItemOf(c, z) PROVE FALSE
    BY DEF Counting
  <2>1. ItemOf(c, z) # NullItem
    BY <1>1, ItemsDiffer
  <2>2. PICK d \in Callers : ItemOf(c, z) = ItemOf(d, z) /\ z < call[d].next
    BY <2>1, HeldItem
  <2>3. d = c
    BY <2>2, ItemsDiffer
  <2> QED
    BY <1>2, <1>3, <2>2, <2>3
<1>11. /\ DOMAIN h = 0 .. call[c].count - 1
       /\ \A t \in S, p \in 0 .. call[c].count - 1 :
            p \in ShardRange(call[c].kind, call[c].count, call[c].shards, t) =>
              h[p] = IF t = z THEN 1 ELSE call[c].hits[p]
  BY <1>1, <1>3, <1>9, <1>10, ScannedHits DEF h
<1>12. Left(c)' = Left(c) \ {z} /\ z \in Left(c)
  BY <1>3, <1>5, <1>9 DEF Left
<1>13. /\ Cardinality(Left(c)') = Cardinality(Left(c)) - 1
       /\ Cardinality(Left(c)) \in Nat \ {0}
  <2>1. IsFiniteSet(Left(c))
    BY <1>1, LeftFinite
  <2>2. Cardinality(Left(c) \ {z}) = Cardinality(Left(c)) - 1
    BY <1>12, <2>1, FS_RemoveElement
  <2>3. Cardinality(Left(c)) \in Nat /\ Cardinality(Left(c)) # 0
    BY <1>12, <2>1, FS_CardinalityType, FS_EmptySet
  <2> QED
    BY <1>12, <2>2, <2>3
<1>14. CallerInv(c)'
  <2>1. Phase(c)'
    BY <1>1, <1>2, <1>5, <1>8 DEF Phase
  <2>2. Counted(c)'
    BY <1>1, <1>5, <1>13 DEF Counted
  <2>3. Hits(c)'
    BY <1>1, <1>3, <1>5, <1>7, <1>9, <1>11 DEF Hits
  <2> QED
    BY <2>1, <2>2, <2>3 DEF CallerInv
<1>15. FrameInv'
  <2>1. call'[c].remaining \in 0 .. call[c].shards
    BY <1>1, <1>5, <1>13 DEF Counted
  <2> QED
    BY <1>5, <2>1 DEF FanOutInv, FrameInv
<1>16. ScratchInv'
  <2>1. \A d \in Callers : Active(d)' /\ call'[d].scratch = "index" =>
          Active(d) /\ call[d].scratch = "index"
    BY <1>1, <1>5 DEF Active
  <2> QED
    BY <1>1, <2>1 DEF FanOutInv, ScratchInv
<1> QED
  BY <1>1, <1>5, <1>6, <1>14, <1>15, <1>16, CallFanOut

LEMMA ReturnFanOut ==
  ASSUME FanOutInv, NEW c \in Callers, Return(c)
  PROVE  FanOutInv'
<1>1. /\ call[c].pc = "wait" /\ call[c].remaining = 0 /\ Active(c)
      /\ DOMAIN call = Callers /\ DOMAIN call[c] = Fields
      /\ call' = [call EXCEPT ![c].pc = "idle"]
      /\ UNCHANGED <<runtimeVars, workerVars>> /\ claimed' = (claimed /\ call[c].scratch # "index")
      /\ Phase(c) /\ Counted(c) /\ call[c].shards \in Nat /\ call[c].kind \in Kinds
      /\ claimed' \in BOOLEAN
  BY DEF Return, Active, FanOutInv, FrameInv, CallerInv
<1>2. /\ DOMAIN call' = Callers /\ \A d \in Callers \ {c} : call'[d] = call[d]
      /\ DOMAIN call'[c] = Fields /\ call'[c].pc = "idle"
      /\ call'[c].id = call[c].id /\ call'[c].kind = call[c].kind
      /\ call'[c].count = call[c].count /\ call'[c].shards = call[c].shards
      /\ call'[c].next = call[c].next /\ call'[c].remaining = call[c].remaining
      /\ call'[c].scratch = call[c].scratch
  BY <1>1 DEF Fields
<1>3. Next
  BY DEF Next, CallStep
<1>4. FrameInv'
  BY <1>2 DEF FanOutInv, FrameInv
<1>5. ScratchInv'
  <2>1. \A d \in Callers : Active(d)' => d # c /\ Active(d) /\ call'[d].scratch = call[d].scratch
    BY <1>2 DEF Active
  <2>2. ASSUME NEW d \in Callers, Active(d)', call'[d].scratch = "index",
               NEW e \in Callers, Active(e)', call'[e].scratch = "index"
        PROVE  claimed' /\ d = e
    <3>1. claimed /\ d = e /\ (call[c].scratch = "index" => c = d)
      BY <1>1, <2>1, <2>2 DEF FanOutInv, ScratchInv
    <3> QED
      BY <1>1, <2>1, <2>2, <3>1
  <2> QED
    BY <2>2 DEF ScratchInv
<1>6. CallerInv(c)'
  BY <1>2 DEF CallerInv, Active
<1>7. Left(c) = {}
  <2>1. IsFiniteSet(Left(c)) /\ Cardinality(Left(c)) = 0
    BY <1>1, LeftFinite DEF Counted
  <2> QED
    BY <2>1, FS_EmptySet
<1>8. \A w \in Workers : ~Held(c, w)
  <2> SUFFICES ASSUME NEW w \in Workers, Held(c, w) PROVE FALSE
    OBVIOUS
  <2>1. ItemOf(c, w) # NullItem
    BY <1>1, ItemsDiffer
  <2>2. PICK d \in Callers : ItemOf(c, w) = ItemOf(d, w) /\ w < call[d].next
    BY <2>1, HeldItem DEF Held
  <2>3. d = c
    BY <2>2, ItemsDiffer
  <2>4. /\ w \in Nat /\ w < RemoteOf(c) /\ RemoteOf(c) \in Nat /\ RemoteOf(c) <= call[c].shards
    BY <1>1, <2>2, <2>3, RemoteShards, ThreadAssumption DEF Phase, RemoteOf, Workers
  <2>5. w \in Left(c)
    BY <1>1, <2>4 DEF Left, Pending
  <2> QED
    BY <1>7, <2>5
<1> QED
  BY <1>1, <1>2, <1>3, <1>4, <1>5, <1>6, <1>8, CallFanOut

LEMMA SubmitFanOut ==
  ASSUME FanOutInv, NEW c \in Callers, Submit(c)
  PROVE  FanOutInv'
<1> DEFINE T == Items \cup {NullItem}
           S == 0 .. call[c].shards - 1
<1>1. /\ call[c].pc = "submit" /\ Active(c) /\ DOMAIN call = Callers /\ DOMAIN call[c] = Fields
      /\ UNCHANGED <<runtimeVars, worker, job, claimed>> /\ claimed \in BOOLEAN
      /\ Phase(c) /\ Counted(c) /\ Hits(c) /\ call[c].shards \in Nat /\ call[c].kind \in Kinds
      /\ call[c].next \in 0 .. call[c].shards /\ call[c].remaining \in 0 .. call[c].shards
      /\ main' = main
  BY DEF Submit, Active, FanOutInv, FrameInv, CallerInv, RuntimeInv, Flags, runtimeVars
<1>a. PICK w, x, q : w = call[c].next /\ x = ItemOf(c, w) /\ q = Append(queue[w], x)
  OBVIOUS
<1>b. w \in Nat
  BY <1>a, <1>1
<1>2. /\ w < RemoteOf(c) /\ RemoteOf(c) \in Nat /\ RemoteOf(c) <= ThreadCount
      /\ call[c].shards = (IF call[c].kind = "record" THEN RemoteOf(c) + 1 ELSE RemoteOf(c))
      /\ call[c].count \in Nat \ {0}
  BY <1>a, <1>1, RemoteShards DEF Phase, RemoteOf
<1>3. /\ w \in Workers /\ w % ThreadCount = w /\ w \in Nat /\ ThreadCount \in Nat
      /\ \A s \in S : s < RemoteOf(c) => s \in Workers
  <2>1. ThreadCount \in Nat \ {0} /\ w < ThreadCount
    BY <1>2, <1>b, ThreadAssumption
  <2>2. w % ThreadCount = w
    BY <1>b, <2>1
  <2>3. \A s \in S : s < RemoteOf(c) => s \in Workers
    BY <1>1, <1>2, <2>1 DEF Workers
  <2> QED
    BY <1>b, <2>1, <2>2, <2>3 DEF Workers
<1>4. /\ queue' = [queue EXCEPT ![w] = q] /\ Len(queue[w]) < QueueCapacity
      /\ queue \in [Workers -> Seq(T)] /\ queue[w] \in Seq(T) /\ Once(queue[w])
      /\ job \in [Workers -> T]
  BY <1>a, <1>3 DEF Submit, Enqueue, HasSpace, ItemOf, FanOutInv, ItemInv
<1>5. x \in Items /\ x # NullItem
  BY <1>a, <1>1, <1>3, ItemsDiffer
<1>6. job[w] # x /\ ~In(queue[w], x)
  <2> SUFFICES ASSUME x = job[w] \/ In(queue[w], x) PROVE FALSE
    OBVIOUS
  <2>1. PICK d \in Callers : x = ItemOf(d, w) /\ w < call[d].next
    BY <1>3, <1>5, HeldItem
  <2>2. d = c
    <3>1. ItemOf(c, w) = ItemOf(d, w)
      BY <1>a, <2>1
    <3> QED
      BY <3>1, ItemsDiffer
  <2> QED
    BY <1>a, <1>3, <2>1, <2>2
<1>7. /\ q \in Seq(T) /\ Len(q) = Len(queue[w]) + 1 /\ Len(queue[w]) \in Nat
      /\ Once(q) /\ \A y : In(q, y) <=> In(queue[w], y) \/ y = x
  <2> QED
    BY <1>a, <1>4, <1>5, <1>6, InAppend, OnceAppend
<1> DEFINE a == IF call[c].next + 1 < RemoteOf(c) THEN "submit"
                ELSE IF call[c].kind = "record" THEN "own" ELSE "wait"
<1>8. call' = [call EXCEPT ![c].next = call[c].next + 1, ![c].pc = a]
  BY DEF Submit, RemoteOf
<1>9. /\ (a = "submit" /\ w + 1 < RemoteOf(c))
         \/ (a = "own" /\ w + 1 = RemoteOf(c) /\ call[c].kind = "record")
         \/ (a = "wait" /\ w + 1 = RemoteOf(c) /\ call[c].kind # "record")
  <2>1. PICK r \in Nat : r = RemoteOf(c)
    BY <1>2
  <2>2. w < r /\ (w + 1 < r \/ w + 1 = r)
    BY <1>2, <1>b, <2>1
  <2> QED
    BY <1>a, <2>1, <2>2
<1> HIDE DEF a
<1>10. /\ DOMAIN call' = Callers /\ \A d \in Callers \ {c} : call'[d] = call[d]
       /\ DOMAIN call'[c] = Fields /\ call'[c].hits = call[c].hits /\ call'[c].pc = a
       /\ call'[c].id = call[c].id /\ call'[c].kind = call[c].kind
       /\ call'[c].count = call[c].count /\ call'[c].shards = call[c].shards
       /\ call'[c].next = w + 1 /\ call'[c].remaining = call[c].remaining
       /\ call'[c].scratch = call[c].scratch
  BY <1>a, <1>1, <1>8 DEF Fields
<1>11. Next
  BY DEF Next, CallStep
<1>12. RuntimeInv' /\ main' = main
  BY <1>1, <1>11, RuntimeKept
<1>13. /\ queue'[w] = q /\ \A v \in Workers \ {w} : queue'[v] = queue[v]
       /\ queue' \in [Workers -> Seq(T)]
  BY <1>3, <1>4, <1>7
<1> HIDE DEF T
<1>14. /\ \A d \in Callers, v \in Workers : ItemOf(d, v)' = ItemOf(d, v)
       /\ \A d \in Callers : Active(d)' <=> Active(d)
  BY <1>1, <1>9, <1>10 DEF ItemOf, Active
<1>15. \A d \in Callers, v \in Workers :
         /\ Held(d, v)' <=> Held(d, v) \/ (d = c /\ v = w)
         /\ Counting(d, v)' <=> Counting(d, v)
  <2> SUFFICES ASSUME NEW d \in Callers, NEW v \in Workers
               PROVE  /\ Held(d, v)' <=> Held(d, v) \/ (d = c /\ v = w)
                      /\ Counting(d, v)' <=> Counting(d, v)
    OBVIOUS
  <2>1. Counting(d, v)' <=> Counting(d, v)
    BY <1>1, <1>14 DEF Counting
  <2>2. Held(d, v)' <=> (job[v] = ItemOf(d, v) \/ In(queue'[v], ItemOf(d, v)))
    BY <1>1, <1>14 DEF Held
  <2>3. CASE v # w
    BY <1>13, <2>1, <2>2, <2>3 DEF Held
  <2>4. CASE v = w
    <3>1. ItemOf(d, v) = x <=> d = c
      BY <1>a, <2>4, ItemsDiffer
    <3> QED
      BY <1>7, <1>13, <2>1, <2>2, <2>4, <3>1 DEF Held
  <2> QED
    BY <2>3, <2>4
<1>16. ASSUME NEW d \in Callers \ {c} PROVE CallerInv(d)'
  BY <1>10, <1>12, <1>15, CallerKept
<1>17. CallerInv(c)'
  <2>1. Phase(c)'
    BY <1>a, <1>1, <1>2, <1>3, <1>9, <1>10, <1>12 DEF Phase, RemoteOf
  <2>2. RemoteOf(c)' = RemoteOf(c)
    BY <1>10 DEF RemoteOf
  <2>3. \A s \in S : Pending(c, s)' <=> Pending(c, s)
    <3> SUFFICES ASSUME NEW s \in S PROVE Pending(c, s)' <=> Pending(c, s)
      OBVIOUS
    <3>1. CASE s < RemoteOf(c)
      BY <1>1, <1>3, <1>10, <1>15, <1>a, <2>2, <3>1 DEF Pending
    <3>2. CASE ~(s < RemoteOf(c))
      BY <1>1, <1>2, <1>9, <1>10, <2>2, <3>2 DEF Pending
    <3> QED
      BY <3>1, <3>2
  <2>4. Left(c)' = Left(c)
    BY <1>10, <2>3 DEF Left
  <2>5. \A s \in S : Counting(c, s)' <=> Counting(c, s)
    BY <1>15 DEF Counting
  <2>6. Hits(c)'
    BY <1>1, <1>10, <2>3, <2>5 DEF Hits
  <2> QED
    BY <1>1, <1>10, <2>1, <2>4, <2>6 DEF CallerInv, Counted
<1>18. FrameInv'
  <2>1. call'[c].next \in 0 .. call[c].shards
    BY <1>1, <1>2, <1>3, <1>9, <1>10
  <2>2. call'[c].pc \in {"submit", "own", "wait"}
    BY <1>9, <1>10
  <2> QED
    BY <1>10, <2>1, <2>2 DEF FanOutInv, FrameInv
<1>19. ScratchInv'
  <2>1. \A d \in Callers : call'[d].scratch = call[d].scratch
    BY <1>10
  <2> QED
    BY <1>1, <1>14, <2>1 DEF FanOutInv, ScratchInv
<1>20. ItemInv'
  <2>1. ASSUME NEW v \in Workers, NEW y, Belongs(v, y) PROVE Belongs(v, y)'
    <3>1. \A d \in Callers : y = ItemOf(d, v) /\ call[d].pc \in {"submit", "own", "wait"} =>
            /\ call'[d].id = call[d].id
            /\ call'[d].pc \in {"submit", "own", "wait"}
            /\ v < call[d].next => v < call'[d].next
      <4>1. \A d \in Callers \ {c} : call'[d] = call[d]
        BY <1>10
      <4>2. /\ call'[c].id = call[c].id /\ call'[c].pc \in {"submit", "own", "wait"}
            /\ call'[c].next = w + 1 /\ call[c].next = w /\ w \in Nat /\ v \in Nat
        BY <1>a, <1>b, <1>9, <1>10, ThreadAssumption DEF Workers
      <4> QED
        BY <4>1, <4>2
    <3> QED
      BY <2>1, <3>1, BelongsKept
  <2>2. Belongs(w, x)'
    <3>1. x = ItemOf(c, w)' /\ call'[c].pc \in {"submit", "own", "wait"} /\ w < call'[c].next
      BY <1>a, <1>3, <1>9, <1>10, <1>14
    <3> QED
      BY <3>1 DEF Belongs
  <2>3. ASSUME NEW v \in Workers
        PROVE  /\ Len(queue'[v]) <= QueueCapacity
               /\ job'[v] # NullItem <=> worker'[v] \in {"scan", "count"}
               /\ Belongs(v, job[v])'
               /\ \A i \in 1 .. Len(queue'[v]) : Belongs(v, queue[v][i])'
               /\ Once(queue'[v])
               /\ job'[v] # NullItem => ~In(queue'[v], job'[v])
    <3>1. /\ Len(queue[v]) <= QueueCapacity
          /\ job'[v] # NullItem <=> worker'[v] \in {"scan", "count"}
          /\ Belongs(v, job[v]) /\ job'[v] = job[v]
          /\ \A i \in 1 .. Len(queue[v]) : Belongs(v, queue[v][i])
          /\ Once(queue[v])
          /\ job[v] # NullItem => ~In(queue[v], job[v])
      BY <1>1 DEF FanOutInv, ItemInv
    <3>2. Belongs(v, job[v])'
      BY <2>1, <3>1
    <3>3. CASE v = w
      <4>1. Len(q) <= QueueCapacity
        BY <1>4, <1>7, CapacityAssumption
      <4>2. \A i \in 1 .. Len(q) : Belongs(v, q[i])'
        <5>1. \A y : In(queue[w], y) => Belongs(w, y)
          BY <3>1, <3>3 DEF In
        <5>2. \A i \in 1 .. Len(q) : In(q, q[i])
          BY DEF In
        <5> QED
          BY <1>7, <2>1, <2>2, <3>3, <5>1, <5>2
      <4> QED
        BY <1>6, <1>7, <1>13, <3>1, <3>2, <3>3, <4>1, <4>2
    <3>4. CASE v # w
      BY <1>13, <2>1, <3>1, <3>2, <3>4
    <3> QED
      BY <3>3, <3>4
  <2>4. job' \in [Workers -> Items \cup {NullItem}]
    BY <1>1, <1>4 DEF T
  <2> QED
    BY <1>13, <2>3, <2>4 DEF ItemInv, T
<1> QED
  BY <1>12, <1>16, <1>17, <1>18, <1>19, <1>20 DEF FanOutInv

-----------------------------------------------------------------------------
(* The theorem *)

LEMMA NextFanOut == FanOutInv /\ [Next]_vars => FanOutInv'
<1> SUFFICES ASSUME FanOutInv, [Next]_vars
             PROVE  FanOutInv'
  OBVIOUS
<1>1. CASE MainCalls \/ MainRuns
  BY <1>1, MainFanOut
<1>2. ASSUME NEW w \in Workers, WorkerStep(w) PROVE FanOutInv'
  BY <1>2, PopFanOut, ScanFanOut, CompleteFanOut DEF WorkerStep
<1>3. ASSUME NEW c \in Callers, CallStep(c) PROVE FanOutInv'
  BY <1>3, ClaimFanOut, SubmitFanOut, OwnFanOut, ReturnFanOut DEF CallStep
<1>4. ASSUME NEW c \in Callers, NEW kind \in Kinds, NEW count \in Counts, Begin(c, kind, count)
      PROVE  FanOutInv'
  BY <1>4, BeginFanOut
<1>5. CASE UNCHANGED vars
  <2>1. PoolInv'
    BY NextPool DEF FanOutInv, RuntimeInv
  <2>2. /\ Flags' /\ inits' \in 0 .. MaxInits
    BY <1>5 DEF FanOutInv, RuntimeInv, Flags, vars, runtimeVars
  <2>3. FrameInv' /\ ScratchInv'
    BY <1>5 DEF FanOutInv, FrameInv, ScratchInv, Active, vars
  <2>4. ItemInv'
    BY <1>5, ItemsKept DEF vars
  <2>5. ASSUME NEW d \in Callers PROVE CallerInv(d)'
    <3>1. \A w \in Workers : (Held(d, w)' <=> Held(d, w)) /\ (Counting(d, w)' <=> Counting(d, w))
      BY <1>5 DEF Held, Counting, ItemOf, vars, workerVars
    <3> QED
      BY <1>5, <3>1, CallerKept DEF vars, runtimeVars
  <2> QED
    BY <2>1, <2>2, <2>3, <2>4, <2>5 DEF FanOutInv, RuntimeInv
<1> QED
  BY <1>1, <1>2, <1>3, <1>4, <1>5 DEF Next

LEMMA FanOutTypes == FanOutInv => TypeOK
<1> SUFFICES ASSUME FanOutInv PROVE TypeOK
  OBVIOUS
<1>1. {initialized, region, work_queues, claimed} \subseteq BOOLEAN
  BY DEF FanOutInv, RuntimeInv, Flags
<1>2. /\ main \in {"down", "memory", "arrays", "start", "unstart", "cleanup", "up",
                   "sentinel", "join", "release"}
      /\ at \in Workers /\ inits \in 0 .. MaxInits
      /\ worker \in [Workers -> {"none", "pop", "scan", "count", "exited"}]
  BY DEF FanOutInv, RuntimeInv, PoolInv, ControlInv, Staffed
<1>3. /\ queue \in [Workers -> Seq(Items \cup {NullItem})]
      /\ job \in [Workers -> Items \cup {NullItem}]
      /\ \A w \in Workers : Len(queue[w]) <= QueueCapacity
  BY DEF FanOutInv, ItemInv
<1> QED
  BY <1>1, <1>2, <1>3 DEF FanOutInv, FrameInv, TypeOK

LEMMA FramesOutlive == FanOutInv => FrameOutlivesItems
<1> SUFFICES ASSUME FanOutInv, NEW w \in Workers, NEW x, x # NullItem,
                    x = job[w] \/ In(queue[w], x)
             PROVE  call[x.by].id = x.id /\ call[x.by].pc # "idle"
  <2>1. \A v \in Workers : DOMAIN queue[v] = 1 .. Len(queue[v])
    BY DEF FanOutInv, ItemInv
  <2> QED
    BY <2>1 DEF FrameOutlivesItems, In
<1>1. PICK c \in Callers : x = ItemOf(c, w) /\ Active(c)
  BY HeldItem
<1>2. x.by = c /\ x.id = call[c].id
  BY <1>1 DEF ItemOf
<1> QED
  BY <1>1, <1>2 DEF Active

LEMMA AllScanned == FanOutInv => ScannedOnce
<1> SUFFICES ASSUME FanOutInv, NEW c \in Callers, call[c].pc = "wait", call[c].remaining = 0,
                    NEW p \in DOMAIN call[c].hits
             PROVE  call[c].hits[p] = 1
  BY DEF ScannedOnce
<1>1. /\ Active(c) /\ Phase(c) /\ Counted(c) /\ Hits(c)
      /\ call[c].shards \in Nat /\ call[c].kind \in Kinds
  BY DEF FanOutInv, FrameInv, CallerInv, Active
<1>2. call[c].count \in Nat \ {0} /\ call[c].shards \in Nat \ {0} /\ p \in 0 .. call[c].count - 1
  BY <1>1, RemoteShards DEF Phase, Hits
<1>3. Left(c) = {}
  <2>1. IsFiniteSet(Left(c)) /\ Cardinality(Left(c)) = 0
    BY <1>1, LeftFinite DEF Counted
  <2> QED
    BY <2>1, FS_EmptySet
<1>4. PICK s \in 0 .. call[c].shards - 1 :
        p \in ShardRange(call[c].kind, call[c].count, call[c].shards, s)
  <2>1. PICK k \in Kinds, n \in Nat \ {0}, m \in Nat \ {0} :
          k = call[c].kind /\ n = call[c].count /\ m = call[c].shards
    BY <1>1, <1>2
  <2>2. \E s \in 0 .. m - 1 : p \in ShardRange(k, n, m, s)
    <3>1. p \in 0 .. n - 1
      BY <1>2, <2>1
    <3> QED
      BY <3>1, Partition
  <2> QED
    BY <2>1, <2>2
<1>5. ~Pending(c, s)
  BY <1>3 DEF Left
<1> QED
  BY <1>1, <1>2, <1>4, <1>5 DEF Hits

LEMMA ScratchAlone == FanOutInv => ScratchExclusive
<1> SUFFICES ASSUME FanOutInv, NEW v \in Workers, NEW w \in Workers,
                    worker[v] \in {"scan", "count"}, worker[w] \in {"scan", "count"},
                    call[job[v].by].scratch = "index", call[job[w].by].scratch = "index"
             PROVE  job[v].by = job[w].by
  BY DEF ScratchExclusive
<1>1. ASSUME NEW u \in Workers, worker[u] \in {"scan", "count"}
      PROVE  job[u].by \in Callers /\ Active(job[u].by)
  <2>1. job[u] # NullItem
    BY <1>1 DEF FanOutInv, ItemInv
  <2>2. PICK c \in Callers : job[u] = ItemOf(c, u) /\ Active(c)
    BY <2>1, HeldItem
  <2>3. job[u].by = c
    BY <2>2 DEF ItemOf
  <2> QED
    BY <2>2, <2>3
<1>2. /\ job[v].by \in Callers /\ Active(job[v].by)
      /\ job[w].by \in Callers /\ Active(job[w].by)
  BY <1>1
<1> QED
  BY <1>2 DEF FanOutInv, ScratchInv

\* The fan-out calls of memory_index.cpp and memory_index_graph.cpp over the
\* workers of init.cpp: for any number of workers, callers, records and shards no
\* worker touches the frame of a call that has returned, a call returns with every
\* record handled once, and the scratch of the index serves one call at a time.
THEOREM FanOutCorrect == Spec => []FanOutSound
<1>1. FanOutInv => FanOutSound
  BY FanOutTypes, FramesOutlive, AllScanned, ScratchAlone DEF FanOutSound
<1> QED
  BY <1>1, InitFanOut, NextFanOut, PTL DEF Spec
================================================================================
