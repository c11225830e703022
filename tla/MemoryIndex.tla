----------------------------- MODULE MemoryIndex -----------------------------
(***************************************************************************)
(* The flat memory index (memory_index.cpp): records in slots, a dense     *)
(* list of the occupied ones, a flag that says the list is the identity,   *)
(* an open addressing table from keys to slots with tombstones, and a      *)
(* batch insert that stages slots and rolls them back.  A vector is one    *)
(* number, Bad stands for one that is not finite, and a score is computed  *)
(* from it as the three metrics do.  Queries are read-only, so they are    *)
(* operators: every path through memory_search is compared with the        *)
(* definition of the answer in every state.                                *)
(***************************************************************************)
EXTENDS Integers, Sequences, SequencesExt, FiniteSets

CONSTANTS
  IndexKeys,      \* record keys, positive numbers
  KeyHash,        \* key -> its mixed hash
  IndexCapacity,  \* capacity
  TableSize,      \* key_table_capacity
  Groups,         \* group ids, 0 (ASTRAL_MEMORY_GROUP_ANY) is in no record
  Vectors,        \* vectors of records
  Queries,        \* query vectors
  Batches,        \* the batches of an add: sequences of records
  Updates,        \* records of an update, whose vector stays
  Bad, Nil        \* a vector that is not finite; no record

VARIABLES
  mi,     \* the index
  recs    \* ghost: key -> the record the caller has stored under it

miVars == <<mi, recs>>

Slots == 0 .. IndexCapacity - 1
Empty == -1
Tombstone == -2
NoSlot == -3

\* memory_create: everything zeroed
EmptyIndex ==
  [slot |-> [s \in Slots |-> Nil], pos |-> [s \in Slots |-> 0],
   active |-> [p \in Slots |-> 0], count |-> 0, hint |-> 0, dense |-> TRUE,
   table |-> [p \in 0 .. TableSize - 1 |-> Empty]]

MIInit == mi = EmptyIndex /\ recs = <<>>

---------------------------------------------------------------------------
(* The key table *)

Probe(hash, i) == (hash + i) % TableSize
Least(S) == CHOOSE i \in S : \A j \in S : i <= j

Holds(x, p, k) == x.table[p] >= 0 /\ x.slot[x.table[p]] # Nil /\ x.slot[x.table[p]].key = k

\* The probes of key k that end a search for it: a hole or the key
Stops(x, k) ==
  {i \in 0 .. TableSize - 1 : \/ x.table[Probe(KeyHash[k], i)] = Empty
                              \/ Holds(x, Probe(KeyHash[k], i), k)}

\* The table position of key k, or NoSlot
KeyPos(x, k) ==
  LET stops == Stops(x, k)
      p     == Probe(KeyHash[k], Least(stops))
  IN  IF stops = {} \/ x.table[p] = Empty THEN NoSlot ELSE p

\* find_slot_by_key_hashed
FindSlotByKey(x, k) == LET p == KeyPos(x, k) IN IF p = NoSlot THEN NoSlot ELSE x.table[p]

\* key_table_insert_new_hashed: the first tombstone before the first hole, or
\* the hole itself.  The table is twice as large as the index, so one exists.
Inserted(x, k, s) ==
  LET free == {i \in 0 .. TableSize - 1 : x.table[Probe(KeyHash[k], i)] < 0}
  IN  [x EXCEPT !.table[Probe(KeyHash[k], Least(free))] = s]

\* key_table_remove
KeyRemoved(x, k) ==
  LET p == KeyPos(x, k) IN IF p = NoSlot THEN x ELSE [x EXCEPT !.table[p] = Tombstone]

ActiveRange(x, n) == [i \in 1 .. n |-> x.active[i - 1]]

\* key_table_rebuild over the first n active slots
Rebuilt(x, n) ==
  FoldLeft(LAMBDA y, s : Inserted(y, y.slot[s].key, s),
           [x EXCEPT !.table = [p \in DOMAIN @ |-> Empty]], ActiveRange(x, n))

---------------------------------------------------------------------------
(* memory_add_batch *)

\* find_free_slot: from the hint, around
FreeSlot(x) ==
  LET at(i) == (x.hint + i) % IndexCapacity
      free  == {i \in Slots : x.slot[at(i)] = Nil}
  IN  IF free = {} THEN NoSlot ELSE at(Least(free))

\* One record of the staging loop; b.n counts the staged slots
Stage(b, r) ==
  LET x == b.x
      s == FindSlotByKey(x, r.key)
      f == FreeSlot(x)
  IN  IF b.err # "ok" THEN b
      ELSE IF s # NoSlot
      THEN [b EXCEPT !.slots = Append(@, s), !.updates = @ \/ x.pos[s] < x.count]
      ELSE IF f = NoSlot THEN [b EXCEPT !.err = "nomem"]
      ELSE LET placed == [x EXCEPT !.dense = @ /\ f = b.n, !.slot[f] = r, !.pos[f] = b.n,
                                   !.active[b.n] = f, !.hint = (f + 1) % IndexCapacity]
           IN  [b EXCEPT !.x = Inserted(placed, r.key, f), !.n = @ + 1, !.slots = Append(@, f)]

Staged(x, batch) ==
  FoldLeft(Stage, [x |-> x, n |-> x.count, slots |-> <<>>, updates |-> FALSE, err |-> "ok"], batch)

\* memory_add_rollback_new_slots: the new slots are emptied, the table is
\* rebuilt from the old ones
RolledBack(x, b) ==
  LET new == {b.x.active[p] : p \in x.count .. b.n - 1}
  IN  Rebuilt([b.x EXCEPT !.slot = [s \in Slots |-> IF s \in new THEN Nil ELSE @[s]],
                          !.pos = [s \in Slots |-> IF s \in new THEN 0 ELSE @[s]],
                          !.active = [p \in Slots |-> IF p \in x.count .. b.n - 1 THEN 0 ELSE @[p]],
                          !.hint = x.hint, !.dense = x.dense], x.count)

Finite(batch) == \A i \in DOMAIN batch : batch[i].vec # Bad

\* The records in order: of several for one key the last one stays
Written(b, batch) ==
  [FoldLeft(LAMBDA y, i : [y EXCEPT !.slot[b.slots[i]] = batch[i]], b.x, [i \in DOMAIN batch |-> i])
     EXCEPT !.count = b.n]

\* Vectors are checked before anything is overwritten when the batch updates
\* records, and while they are stored when all its slots are new
AddBatch(batch) ==
  LET b == Staged(mi, batch)
      ok == b.err = "ok" /\ Finite(batch)
  IN  /\ mi' = IF ok THEN Written(b, batch) ELSE RolledBack(mi, b)
      /\ recs' = IF ok THEN FoldLeft(LAMBDA f, r : [k \in DOMAIN f \cup {r.key} |->
                                       IF k = r.key THEN r ELSE f[k]], recs, batch)
                 ELSE recs

---------------------------------------------------------------------------
(* memory_remove, memory_update_record, memory_clear *)

RemoveRecord_StayDense(k) ==
  LET s    == FindSlotByKey(mi, k)
      p    == mi.pos[s]
      last == mi.active[mi.count - 1]
  IN  /\ s # NoSlot
      /\ mi' = [KeyRemoved(mi, k) EXCEPT !.hint = s, !.active[p] = last,
                           !.pos = [[@ EXCEPT ![last] = p] EXCEPT ![s] = 0], !.slot[s] = Nil,
                           !.count = @ - 1]
      /\ recs' = [j \in DOMAIN recs \ {k} |-> recs[j]]

RemoveRecord(k) ==
  LET s    == FindSlotByKey(mi, k)
      p    == mi.pos[s]
      last == mi.active[mi.count - 1]
      out  == KeyRemoved(mi, k)
  IN  /\ s # NoSlot
      /\ mi' = [out EXCEPT !.hint = s, !.active[p] = last,
                           !.pos = [[@ EXCEPT ![last] = p] EXCEPT ![s] = 0], !.slot[s] = Nil,
                           !.count = @ - 1, !.dense = @ /\ p = mi.count - 1]
      /\ recs' = [j \in DOMAIN recs \ {k} |-> recs[j]]

\* The key of a record may change to one that is not in use
UpdateRecord(k, r) ==
  LET s == FindSlotByKey(mi, k)
      new == [r EXCEPT !.vec = mi.slot[s].vec]
      moved == IF r.key = k THEN mi ELSE Inserted(KeyRemoved(mi, k), r.key, s)
  IN  /\ s # NoSlot /\ (r.key # k => FindSlotByKey(mi, r.key) = NoSlot)
      /\ mi' = [moved EXCEPT !.slot[s] = new]
      /\ recs' = [j \in (DOMAIN recs \ {k}) \cup {r.key} |-> IF j = r.key THEN new ELSE recs[j]]

ClearIndex == mi' = EmptyIndex /\ recs' = <<>>

---------------------------------------------------------------------------
(* memory_load: record i goes to slot i *)

\* active_slot_at
ActiveSlotAt(x, p) == IF x.dense THEN p ELSE x.active[p]

SavedRecords(x) == [i \in 1 .. x.count |-> x.slot[ActiveSlotAt(x, i - 1)]]

LoadRecord(x, r) ==
  [Inserted(x, r.key, x.count) EXCEPT !.slot[x.count] = r, !.pos[x.count] = x.count,
                                      !.active[x.count] = x.count, !.count = @ + 1]

Loaded(records) ==
  LET x == FoldLeft(LoadRecord, EmptyIndex, records)
  IN  [x EXCEPT !.hint = IF x.count < IndexCapacity THEN x.count ELSE 0]

\* two records of one key are refused
Loadable(records) == \A i, j \in DOMAIN records : records[i].key = records[j].key => i = j

Reload ==
  /\ Loadable(SavedRecords(mi)) /\ mi' = Loaded(SavedRecords(mi))
  /\ UNCHANGED recs

---------------------------------------------------------------------------
(* Searching *)

Sign(v) == IF v = 0 THEN 0 ELSE IF v > 0 THEN 1 ELSE -1
Metrics == {"dot", "cosine", "l2"}

\* score_slot, on vectors of one dimension
Score(metric, q, v) ==
  CASE metric = "dot" -> q * v
    [] metric = "cosine" -> Sign(q) * Sign(v)
    [] metric = "l2" -> -((q - v) * (q - v))

\* result_better
Better(a, b) == a.score > b.score \/ (a.score = b.score /\ a.key < b.key)

\* insert_result: the candidate sinks past what it beats, the last one falls
\* out when there are more than k
InsertResult(results, k, c) ==
  LET n == Len(results)
      p == IF \E i \in 1 .. n : Better(c, results[i])
           THEN Least({i \in 1 .. n : \A j \in i .. n : Better(c, results[j])}
                      \cup {n + 1}) ELSE n + 1
      all == SubSeq(results, 1, p - 1) \o <<c>> \o SubSeq(results, p, n)
  IN  SubSeq(all, 1, IF n < k THEN n + 1 ELSE k)

Candidate(x, s, metric, q) ==
  [key |-> x.slot[s].key, group |-> x.slot[s].group, score |-> Score(metric, q, x.slot[s].vec)]

MatchesGroup(x, s, g) == g = 0 \/ x.slot[s].group = g

\* One record of a scan, with the early reject against a full list
Consider(x, d, s, results) ==
  LET c == Candidate(x, s, d.metric, d.q)
  IN  IF ~MatchesGroup(x, s, d.group) THEN results
      ELSE IF Len(results) = d.k /\ ~Better(c, results[d.k]) THEN results
      ELSE InsertResult(results, d.k, c)

\* memory_search_flat_batch_range: the active positions of one shard
ScanRange(x, d, from, to) ==
  FoldLeft(LAMBDA r, p : Consider(x, d, ActiveSlotAt(x, p), r), <<>>, [i \in 1 .. to - from |-> from + i - 1])

\* memory_search_dot, _cosine and _l2
Scan(x, d) == ScanRange(x, d, 0, x.count)

\* The scans of a dense index without a group read slots and no active list
DenseScan(x, d) ==
  FoldLeft(LAMBDA r, s : Consider(x, d, s, r), <<>>, [i \in 1 .. x.count |-> i - 1])

\* memory_search_q8
CompactScan(x, d) == IF d.group = 0 /\ x.dense THEN DenseScan(x, d) ELSE Scan(x, d)

\* memory_search_flat_batch: the records outside, the queries inside
BatchScan(x, d, qs) ==
  LET each(rs, p) ==
        [q \in qs |-> Consider(x, [d EXCEPT !.q = q], IF d.group = 0 /\ x.dense THEN p ELSE ActiveSlotAt(x, p), rs[q])]
  IN  FoldLeft(each, [q \in qs |-> <<>>], [i \in 1 .. x.count |-> i - 1])

Improve(x, d, best, s) ==
  LET c == Candidate(x, s, d.metric, d.q) IN IF best = <<>> \/ Better(c, best[1]) THEN <<c>> ELSE best

\* memory_search_dot_top1, _cosine_top1 and _l2_top1: without a group the
\* first record is the first best one, a dense index is read slot by slot
TopOneAny(x, d) ==
  LET at(p) == IF x.dense THEN p ELSE ActiveSlotAt(x, p)
  IN  IF x.count = 0 THEN <<>>
      ELSE FoldLeft(LAMBDA b, p : Improve(x, d, b, at(p)), <<Candidate(x, at(0), d.metric, d.q)>>,
                    [i \in 1 .. x.count - 1 |-> i])

TopOneOfGroup(x, d) ==
  FoldLeft(LAMBDA b, p : IF MatchesGroup(x, ActiveSlotAt(x, p), d.group)
                         THEN Improve(x, d, b, ActiveSlotAt(x, p)) ELSE b,
           <<>>, [i \in 1 .. x.count |-> i - 1])

\* memory_search_flat_record_parallel: shards of count * i / n, merged in order
Sharded(x, d, n) ==
  FoldLeft(LAMBDA r, i : FoldLeft(LAMBDA q, c : InsertResult(q, d.k, c), r,
                           ScanRange(x, d, (x.count * (i - 1)) \div n, (x.count * i) \div n)),
           <<>>, [i \in 1 .. n |-> i])

\* memory_search_flat and memory_search_flat_single_range: the answers of the
\* paths that may serve a search
Paths(x, d) ==
  {Scan(x, d), CompactScan(x, d), BatchScan(x, d, Queries)[d.q], Sharded(x, d, 2)}
  \cup (IF d.k # 1 THEN {} ELSE IF d.group = 0 THEN {TopOneAny(x, d)} ELSE {TopOneOfGroup(x, d)})

---------------------------------------------------------------------------
Records == [key : IndexKeys, group : Groups, vec : Vectors]

MINext ==
  \/ \E b \in Batches : AddBatch(b)
  \/ \E k \in IndexKeys : RemoveRecord(k) \/ \E r \in Updates : UpdateRecord(k, r)
  \/ ClearIndex \/ Reload

MISpec == MIInit /\ [][MINext]_miVars

---------------------------------------------------------------------------
(* Correctness *)

MITypeOK ==
  /\ mi.slot \in [Slots -> Records \cup {Nil}] /\ mi.count \in 0 .. IndexCapacity
  /\ mi.hint \in Slots /\ mi.dense \in BOOLEAN
  /\ mi.table \in [0 .. TableSize - 1 -> Slots \cup {Empty, Tombstone}]

Occupied == {s \in Slots : mi.slot[s] # Nil}

\* The index holds what the caller stored: a lookup finds each stored key at
\* the slot with its last record and no other key, through collisions,
\* tombstones, key changes and rolled back batches.
LookupsExact ==
  \A k \in IndexKeys :
    IF k \in DOMAIN recs THEN FindSlotByKey(mi, k) # NoSlot /\ mi.slot[FindSlotByKey(mi, k)] = recs[k]
    ELSE FindSlotByKey(mi, k) = NoSlot

\* The active list has each occupied slot once and knows its place, and a
\* dense index really has its records in the first slots.
ActiveWhole ==
  /\ {mi.active[p] : p \in 0 .. mi.count - 1} = Occupied /\ Cardinality(Occupied) = mi.count
  /\ \A p \in 0 .. mi.count - 1 : mi.pos[mi.active[p]] = p
  /\ mi.dense => Occupied = 0 .. mi.count - 1
  /\ mi.dense => \A p \in 0 .. mi.count - 1 : mi.active[p] = p

\* The definition of an answer: the best k matching records, best first
Answer(d) ==
  LET all == {[key |-> k, group |-> recs[k].group, score |-> Score(d.metric, d.q, recs[k].vec)] :
                k \in {j \in DOMAIN recs : d.group = 0 \/ recs[j].group = d.group}}
      ranked == SetToSortSeq(all, Better)
  IN  SubSeq(ranked, 1, IF Len(ranked) < d.k THEN Len(ranked) ELSE d.k)

\* Every path of memory_search gives the best k records of the group, best
\* first, ties by key, whatever slots they ended up in.
SearchesExact ==
  \A m \in Metrics, q \in Queries, k \in 1 .. 2, g \in {0} \cup Groups :
    LET d == [metric |-> m, q |-> q, k |-> k, group |-> g] IN Paths(mi, d) = {Answer(d)}

\* The memory index as one invariant (memory_index.cpp:406, 1792, 2187, 2317,
\* 1084).
IndexFaithful == MITypeOK /\ ActiveWhole /\ LookupsExact /\ SearchesExact
==============================================================================
