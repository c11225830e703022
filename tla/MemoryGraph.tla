----------------------------- MODULE MemoryGraph -----------------------------
(***************************************************************************)
(* The graph index (memory_index_graph.cpp) and its snapshot               *)
(* (memory_index_snapshot.cpp): layered neighbour lists built record by    *)
(* record, a best-first search with two array heaps and visit marks that   *)
(* carry a generation of a few bits, and a saved form whose nodes are      *)
(* positions of the active list instead of slots.  A graph is a record, so *)
(* the parts that the code has twice, the heaps and the walk of a layer,   *)
(* are here once; what a search scores with, and what it makes of the list *)
(* it has found, depends on the storage kind and differs between the live  *)
(* index and the snapshot, as in the code.  Vectors are numbers, a score   *)
(* is minus the squared distance, and a quantised vector has lost its      *)
(* remainder by CodeStep.                                                  *)
(***************************************************************************)
EXTENDS Integers, Sequences, SequencesExt, FiniteSets

CONSTANTS
  NodeKeys,       \* keys of records, positive numbers
  NewKeys,        \* the keys a record is renamed to
  KeyLevel,       \* key -> its level, graph_level_for_key
  KeyVector,      \* key -> the vectors it may be stored with
  GraphCapacity,  \* slots
  MaxLevel,       \* graph_level_capacity - 1
  NeighborCap,    \* graph_neighbor_capacity, doubled on level 0
  BuildCap,       \* graph_search_capacity
  QueryCaps,      \* the search capacities queries ask for
  CandidateReserve, \* kGraphCandidateReserveMultiplier
  GenBits,        \* width of a visit generation, 16 in the code
  GraphQueries,   \* query vectors
  GraphKinds,     \* storage kinds, of StorageKinds
  CodeStep,       \* what a quantised number is a multiple of
  RerankMin,      \* kGraphF32RerankMinCandidates
  RerankTimes,    \* kGraphF32RerankTopKMultiplier
  ExactCount      \* kGraphCompactExactSearchMaxBytes, as a number of records

VARIABLE g        \* the live graph

None == -1
GSlots == 0 .. GraphCapacity - 1
Levels == 0 .. MaxLevel

\* graph_neighbor_capacity_at_level
LevelCap(l) == IF l = 0 THEN 2 * NeighborCap ELSE NeighborCap

\* Kinds that share every branch below share a name: "f6" is F6_E2M3, F6_E3M2
\* and F8_E5M2, "q8r" is Q8 and F6_E3M2 with F32_RERANK, "e2m3r" and "e5m2r"
\* are the other two with F32_RERANK
StorageKinds == {"f32", "q8", "f6", "q8r", "e2m3r", "e5m2r"}

Compact(x) == x.kind # "f32"
Rerank(x)  == x.kind \in {"q8r", "e2m3r", "e5m2r"}

EmptyGraph(kind) ==
  [kind |-> kind, active |-> <<>>, key |-> [s \in GSlots |-> 0], vec |-> [s \in GSlots |-> 0],
   nbr |-> [l \in Levels |-> [s \in GSlots |-> <<>>]], entry |-> None, max |-> 0,
   gen |-> 0, seen |-> [s \in GSlots |-> 0]]

MGInit == g \in {EmptyGraph(kind) : kind \in GraphKinds}

Level(x, s) == KeyLevel[x.key[s]]
At(l, x, s) == x.key[s] # 0 /\ Level(x, s) >= l

\* A plain compact index stores the quantised vector alone, one that reranks
\* the quantised and the whole one, of which vec is the whole one
Code(v) == CodeStep * (v \div CodeStep)
StoredAs(x, v) == IF Compact(x) /\ ~Rerank(x) THEN Code(v) ELSE v

Dist(a, b) == -((a - b) * (a - b))
Scores(x, v) == [s \in DOMAIN x.vec |-> Dist(x.vec[s], v)]
CodeScores(x, v) == [s \in DOMAIN x.vec |-> Dist(Code(x.vec[s]), Code(v))]

\* score_pair, when lists are built: whole vectors for e5m2r and f32
PairScores(x, s) == IF x.kind \in {"f32", "e5m2r"} THEN Scores(x, x.vec[s]) ELSE CodeScores(x, x.vec[s])

\* score_slot: the whole query with what is stored
SlotScores(x, q) == Scores(x, q)

\* score_slot_compact_query: a compact index walks with the quantised query
RouteScores(x, q) == IF Compact(x) THEN CodeScores(x, q) ELSE Scores(x, q)

\* snapshot_score_active and snapshot_graph_score_active
SnapshotScores(f, q) == IF f.kind = "f6" THEN CodeScores(f, q) ELSE Scores(f, q)
SnapshotRoute(f, q) == IF f.kind \in {"q8r", "e5m2r"} THEN CodeScores(f, q) ELSE SnapshotScores(f, q)

\* graph_candidate_better; graph_candidate_worse is its converse
Better(x, a, b) == a.score > b.score \/ (a.score = b.score /\ x.key[a.s] < x.key[b.s])

Item(s, sc) == [s |-> s, score |-> sc[s]]

---------------------------------------------------------------------------
(* Array heaps: the item that comes first is at the root.  Candidates have *)
(* the best first, the top list the worst.                                 *)

First(x, best, a, b) == IF best THEN Better(x, a, b) ELSE Better(x, b, a)

RECURSIVE SiftUp(_, _, _, _)
SiftUp(x, best, h, i) ==
  IF i > 1 /\ First(x, best, h[i], h[i \div 2])
  THEN SiftUp(x, best, [h EXCEPT ![i] = h[i \div 2], ![i \div 2] = h[i]], i \div 2)
  ELSE h

RECURSIVE SiftDown(_, _, _, _)
SiftDown(x, best, h, i) ==
  LET left == 2 * i
      child == IF left + 1 <= Len(h) /\ First(x, best, h[left + 1], h[left]) THEN left + 1 ELSE left
  IN  IF left <= Len(h) /\ First(x, best, h[child], h[i])
      THEN SiftDown(x, best, [h EXCEPT ![i] = h[child], ![child] = h[i]], child)
      ELSE h

Push(x, best, h, item) == SiftUp(x, best, Append(h, item), Len(h) + 1)

\* The last item takes the place of the root
Popped(x, best, h) ==
  IF Len(h) = 1 THEN <<>> ELSE SiftDown(x, best, [Front(h) EXCEPT ![1] = Last(h)], 1)

\* insert_graph_query_top_candidate
InsertTop(x, cap, h, item) ==
  IF Len(h) < cap THEN Push(x, FALSE, h, item)
  ELSE IF Better(x, item, h[1]) THEN SiftDown(x, FALSE, [h EXCEPT ![1] = item], 1) ELSE h

\* graph_query_refresh_worst_candidate
WorstPos(x, q) ==
  CHOOSE i \in DOMAIN q : \A j \in DOMAIN q \ {i} : Better(x, q[j], q[i])

\* The better item takes the place of the worst one and moves up, or down when
\* it could not move up; the cached position is void
ReplaceWorst(x, c, w, item) ==
  LET up == SiftUp(x, TRUE, [c.q EXCEPT ![w] = item], w)
  IN  IF ~Better(x, item, c.q[w]) THEN [c EXCEPT !.worst = w]
      ELSE [q |-> IF up[w] = item THEN SiftDown(x, TRUE, up, w) ELSE up, worst |-> 0]

\* graph_candidate_search_capacity
CandidateCap(cap) ==
  IF cap * CandidateReserve < GraphCapacity THEN cap * CandidateReserve ELSE GraphCapacity

\* graph_query_add_candidate: a full heap gives up its worst item, whose
\* position is cached between calls
AddCandidate(x, cap, c, item) ==
  IF Len(c.q) < CandidateCap(cap) THEN [c EXCEPT !.q = Push(x, TRUE, c.q, item)]
  ELSE ReplaceWorst(x, c, IF c.worst # 0 THEN c.worst ELSE WorstPos(x, c.q), item)

\* graph_query_pop_candidate
PopCandidate(x, c) == [q |-> Popped(x, TRUE, c.q), worst |-> 0]

---------------------------------------------------------------------------
(* Searching *)

\* graph_query_begin_visit: a generation that wraps clears the marks
BeginVisit(x) ==
  LET next == (x.gen + 1) % 2^GenBits
  IN  IF next = 0 THEN [x EXCEPT !.gen = 1, !.seen = [s \in DOMAIN @ |-> 0]]
      ELSE [x EXCEPT !.gen = next]

\* graph_greedy_closest_query: one pass over the neighbours of the closest
\* node so far, repeated while it moves
GreedyPass(x, sc, l, c) ==
  FoldLeft(LAMBDA b, n : IF At(l, x, n) /\ sc[n] > sc[b] THEN n ELSE b, c, x.nbr[l][c])

RECURSIVE GreedyLevel(_, _, _, _)
GreedyLevel(x, sc, l, c) ==
  LET n == GreedyPass(x, sc, l, c) IN IF n = c THEN c ELSE GreedyLevel(x, sc, l, n)

Greedy(x, sc, entry, from, to) ==
  FoldLeft(LAMBDA c, l : GreedyLevel(x, sc, l, c), entry, [i \in 1 .. from - to |-> from - i + 1])

\* graph_search_layer_query
Visit(x, sc, cap, w, n) ==
  LET top == InsertTop(x, cap, w.top, Item(n, sc))
  IN  IF w.seen[n] = x.gen THEN w
      ELSE [top |-> top, seen |-> [w.seen EXCEPT ![n] = x.gen],
            cand |-> IF top # w.top THEN AddCandidate(x, cap, w.cand, Item(n, sc)) ELSE w.cand]

RECURSIVE SearchLayer(_, _, _, _)
SearchLayer(x, sc, cap, w) ==
  LET c == w.cand.q[1]
  IN  IF w.cand.q = <<>> \/ (Len(w.top) = cap /\ ~Better(x, c, w.top[1])) THEN w
      ELSE SearchLayer(x, sc, cap,
             FoldLeft(LAMBDA v, n : Visit(x, sc, cap, v, n),
                      [w EXCEPT !.cand = PopCandidate(x, @)], x.nbr[0][c.s]))

\* The layer search from an entry node that is marked and queued first
Layer(x, sc, cap, entry) ==
  SearchLayer(x, sc, cap,
    Visit(x, sc, cap, [top |-> <<>>, seen |-> x.seen, cand |-> [q |-> <<>>, worst |-> 0]], entry))

\* memory_search_graph_with_scratch: x has begun its visit
SearchFrom(x, sc, cap) == Layer(x, sc, cap, Greedy(x, sc, x.entry, x.max, 0))

\* A mapped snapshot descends only through the levels it has and clamps the
\* budget to its nodes (snapshot_graph_greedy_closest,
\* snapshot_graph_search_capacity)
SnapshotEntry(f, sc) == IF f.max = 0 THEN f.entry ELSE Greedy(f, sc, f.entry, f.max, 0)
SnapshotCap(f, cap) == IF cap > Len(f.active) THEN Len(f.active) ELSE cap

\* trim_graph_query_top_candidates, which gives the worst up first, to the
\* number that graph_f32_rerank_capacity has for k results
RECURSIVE Trimmed(_, _, _)
Trimmed(x, top, n) == IF Len(top) <= n THEN top ELSE Trimmed(x, Popped(x, FALSE, top), n)

RerankCap(k) == IF k * RerankTimes > RerankMin THEN k * RerankTimes ELSE RerankMin
Shortlist(x, top, k) == IF Rerank(x) THEN Trimmed(x, top, RerankCap(k)) ELSE top

Slots(top) == {a.s : a \in ToSet(top)}

\* insert_result: the best k of the nodes S, best first
Results(x, sc, S, k) ==
  LET best == SortSeq(SetToSeq({Item(n, sc) : n \in S}), LAMBDA a, b : Better(x, a, b))
  IN  [i \in 1 .. IF Len(best) < k THEN Len(best) ELSE k |-> [key |-> x.key[best[i].s], score |-> best[i].score]]

\* compact_graph_exact_search_preferred: a small compact index is searched
\* flat, live and mapped
FlatPreferred(x) == Compact(x) /\ Len(x.active) <= ExactCount

\* What a plain compact index adds to the list it has found: the neighbours of
\* the list that the walk did not visit
Nearby(x, w) ==
  IF Compact(x) /\ ~Rerank(x)
  THEN {n \in UNION {ToSet(x.nbr[0][s]) : s \in Slots(w.top)} : w.seen[n] # x.gen}
  ELSE {}

\* The results of memory_search_graph_with_scratch: a compact index scores what
\* it has found again
LiveResults(x, q, w, k) ==
  Results(x, SlotScores(x, q), Slots(Shortlist(x, w.top, k)) \cup Nearby(x, w), k)

\* The results of memory_snapshot_view_search_graph: an index that reranks scores
\* again, any other returns the scores of the walk, and no neighbour is added
SnapshotResults(f, q, top, k) ==
  Results(f, IF Rerank(f) THEN SnapshotScores(f, q) ELSE SnapshotRoute(f, q), Slots(Shortlist(f, top, k)), k)

---------------------------------------------------------------------------
(* Building *)

\* insert_graph_build_candidate: by score only, equal ones behind
InsertBuild(list, cap, c) ==
  LET p == Cardinality({i \in DOMAIN list : list[i].score >= c.score}) + 1
      all == SubSeq(list, 1, p - 1) \o <<c>> \o SubSeq(list, p, Len(list))
  IN  SubSeq(all, 1, IF Len(all) < cap THEN Len(all) ELSE cap)

\* graph_collect_neighbors_exact
CollectExact(x, s, l, sc) ==
  FoldLeft(LAMBDA list, n : InsertBuild(list, GraphCapacity, Item(n, sc)), <<>>,
           SelectSeq(x.active, LAMBDA n : n # s /\ At(l, x, n)))

\* graph_search_layer_pair
VisitPair(x, s, l, sc, w, n) ==
  LET item == Item(n, sc)
      skip == n = s \/ w.seen[n] = x.gen \/ ~At(l, x, n)
      worth == Len(w.top) < BuildCap \/ Better(x, item, w.top[BuildCap])
  IN  IF skip THEN w
      ELSE [top |-> IF worth THEN InsertBuild(w.top, BuildCap, item) ELSE w.top,
            seen |-> [w.seen EXCEPT ![n] = x.gen],
            cand |-> IF worth THEN AddCandidate(x, BuildCap, w.cand, item) ELSE w.cand]

RECURSIVE PairLayer(_, _, _, _, _)
PairLayer(x, s, l, sc, w) ==
  LET c == w.cand.q[1]
  IN  IF w.cand.q = <<>> \/ (Len(w.top) = BuildCap /\ ~Better(x, c, w.top[BuildCap])) THEN w
      ELSE PairLayer(x, s, l, sc,
             FoldLeft(LAMBDA v, n : VisitPair(x, s, l, sc, v, n),
                      [w EXCEPT !.cand = PopCandidate(x, @)], x.nbr[l][c.s]))

SearchPair(x, s, l, sc, entry) ==
  LET y == BeginVisit(x)
      w == [top |-> <<>>, seen |-> y.seen, cand |-> [q |-> <<>>, worst |-> 0]]
      done == PairLayer(y, s, l, sc, VisitPair(y, s, l, sc, w, entry))
  IN  IF entry = None \/ entry = s \/ ~At(l, x, entry) THEN [x |-> x, top |-> <<>>]
      ELSE [x |-> [y EXCEPT !.seen = done.seen], top |-> done.top]

\* graph_neighbor_diverse: no chosen neighbour is closer to the candidate than
\* the owner is
Diverse(x, c, chosen) == \A i \in DOMAIN chosen : PairScores(x, c.s)[chosen[i]] <= c.score

\* graph_select_neighbors: diverse ones first, then whatever is left
SelectNeighbors(x, list) ==
  LET take(chosen, c) ==
        IF Len(chosen) < NeighborCap /\ Diverse(x, c, [i \in DOMAIN chosen |-> chosen[i].s])
        THEN Append(chosen, c) ELSE chosen
      fill(chosen, c) ==
        IF Len(chosen) < NeighborCap /\ c \notin ToSet(chosen) THEN Append(chosen, c) ELSE chosen
  IN  FoldLeft(fill, FoldLeft(take, <<>>, list), list)

Refine_Overfull(x, l, owner, c) ==
  IF c.s \in ToSet(x.nbr[l][owner]) THEN x ELSE [x EXCEPT !.nbr[l][owner] = Append(@, c.s)]

\* refine_graph_neighbor_list: a full list trades its weakest member for a
\* better and diverse newcomer
Refine(x, l, owner, c) ==
  LET list == x.nbr[l][owner]
      sc == PairScores(x, owner)
      weak == CHOOSE i \in DOMAIN list : \A j \in DOMAIN list \ {i} : Better(x, Item(list[j], sc), Item(list[i], sc))
  IN  IF owner = c.s \/ c.s \in ToSet(list) THEN x
      ELSE IF Len(list) < LevelCap(l) THEN [x EXCEPT !.nbr[l][owner] = Append(@, c.s)]
      ELSE IF ~Better(x, c, Item(list[weak], sc)) \/ ~Diverse(x, c, RemoveAt(list, weak)) THEN x
      ELSE [x EXCEPT !.nbr[l][owner][weak] = c.s]

\* The chosen neighbours become those of s, and s one of theirs
LinkLevel(x, s, l, chosen) ==
  FoldLeft(LAMBDA y, c : Refine(y, l, c.s, [s |-> s, score |-> c.score]),
           [x EXCEPT !.nbr[l][s] = [i \in DOMAIN chosen |-> chosen[i].s]], chosen)

NeighborsFound(b, s, sc, l) ==
  IF Len(b.x.active) <= BuildCap THEN [x |-> b.x, top |-> CollectExact(b.x, s, l, sc)]
  ELSE SearchPair(b.x, s, l, sc, b.entry)

ConnectFound(b, s, l, found) ==
  [x |-> LinkLevel(found.x, s, l, SelectNeighbors(b.x, found.top)),
   entry |-> IF found.top = <<>> THEN b.entry ELSE found.top[1].s]

ConnectLevel(b, s, sc, l) == ConnectFound(b, s, l, NeighborsFound(b, s, sc, l))

\* graph_connect_slot_impl: s is the last active slot
Connect(x, s) ==
  LET lvl == Level(x, s)
      sc == PairScores(x, s)
      entry == IF x.entry = None THEN x.active[1] ELSE x.entry
      from == IF x.max > lvl THEN Greedy(x, sc, entry, x.max, lvl) ELSE entry
      low == IF lvl < x.max THEN lvl ELSE x.max
      y == FoldLeft(LAMBDA b, l : ConnectLevel(b, s, sc, l), [x |-> x, entry |-> from],
                    [i \in 1 .. low + 1 |-> low - i + 1]).x
  IN  IF Len(x.active) <= 1 THEN [x EXCEPT !.entry = s, !.max = lvl]
      ELSE IF lvl > x.max THEN [y EXCEPT !.max = lvl, !.entry = s] ELSE y

\* graph_rebuild_impl
Rebuild(x) ==
  FoldLeft(LAMBDA y, s : Connect([y EXCEPT !.active = Append(@, s)], s),
           [x EXCEPT !.active = <<>>, !.nbr = EmptyGraph(x.kind).nbr, !.entry = None, !.max = 0], x.active)

---------------------------------------------------------------------------
(* What memory_add_batch, memory_remove and memory_search do to the graph.  *)
(* MemoryIndex has the choice of the slot.                                  *)

Free == {s \in GSlots : g.key[s] = 0}
SlotOf(k) == CHOOSE s \in GSlots : g.key[s] = k
Stored == {g.key[s] : s \in GSlots} \ {0}

GraphAdd(k, v) ==
  LET s == CHOOSE t \in Free : \A u \in Free : t <= u
  IN  /\ k \notin Stored /\ Free # {}
      /\ g' = Connect([g EXCEPT !.key[s] = k, !.vec[s] = StoredAs(g, v), !.active = Append(@, s)], s)

\* a record that is there already is rewritten and the graph rebuilt
GraphUpdate(k, v) == k \in Stored /\ g' = Rebuild([g EXCEPT !.vec[SlotOf(k)] = StoredAs(g, v)])

\* a record that is given another key may have another level
GraphRename(k, new) ==
  k \in Stored /\ new \notin Stored /\ g' = Rebuild([g EXCEPT !.key[SlotOf(k)] = new])

\* the last active slot takes the place of the removed one; the vector of a free
\* slot is never read
GraphRemove(k) ==
  LET s == SlotOf(k)
      p == CHOOSE i \in DOMAIN g.active : g.active[i] = s
      rest == Front([g.active EXCEPT ![p] = Last(g.active)])
  IN  /\ k \in Stored
      /\ g' = Rebuild([g EXCEPT !.active = rest, !.key[s] = 0, !.vec[s] = 0])

\* A query marks what it visits and what it adds
GraphSearch(q, cap) ==
  LET x == BeginVisit(g)
      w == SearchFrom(x, RouteScores(x, q), cap)
  IN  /\ g.entry # None /\ ~FlatPreferred(g)
      /\ g' = [x EXCEPT !.seen = [s \in DOMAIN @ |-> IF s \in Nearby(x, w) THEN x.gen ELSE w.seen[s]]]

GraphClear == g' = EmptyGraph(g.kind)

---------------------------------------------------------------------------
(* memory_save and the reading of it: node i is active position i *)

PosOf(x, s) == (CHOOSE i \in DOMAIN x.active : x.active[i] = s) - 1

Saved(x) ==
  LET n == Len(x.active)
      at(i) == x.active[i + 1]
      pos(list) == [j \in DOMAIN list |-> PosOf(x, list[j])]
  IN  [kind |-> x.kind, active |-> [i \in 1 .. n |-> i - 1], key |-> [i \in 0 .. n - 1 |-> x.key[at(i)]],
       vec |-> [i \in 0 .. n - 1 |-> x.vec[at(i)]],
       nbr |-> [l \in Levels |-> [i \in 0 .. n - 1 |-> pos(x.nbr[l][at(i)])]],
       entry |-> IF x.entry = None THEN None ELSE PosOf(x, x.entry), max |-> x.max, gen |-> 0, seen |-> [i \in 0 .. n - 1 |-> 0]]

\* memory_snapshot_view_search_graph on the mapped bytes
SnapshotSearch(f, q, cap) ==
  LET y == BeginVisit(f)
      sc == SnapshotRoute(y, q)
  IN  Layer(y, sc, SnapshotCap(f, cap), SnapshotEntry(y, sc)).top

\* memory_load: node i becomes slot i.  Lists saved for another topology, and
\* those of an empty graph, are built anew.
LoadedGraph(f) ==
  LET n == Len(f.active)
      wide(h, d) == [s \in GSlots |-> IF s < n THEN h[s] ELSE d]
  IN  [f EXCEPT !.key = wide(f.key, 0), !.vec = wide(f.vec, 0), !.seen = wide(f.seen, 0),
                !.nbr = [l \in Levels |-> wide(f.nbr[l], <<>>)]]

GraphReload(sameTopology) ==
  LET x == LoadedGraph(Saved(g))
  IN  g' = IF sameTopology /\ g.entry # None THEN x ELSE Rebuild(x)

MGNext ==
  \/ \E k \in NodeKeys : GraphRemove(k) \/ \E v \in KeyVector[k] : GraphAdd(k, v) \/ GraphUpdate(k, v)
  \/ \E k \in NodeKeys, new \in NewKeys : GraphRename(k, new)
  \/ \E q \in GraphQueries, cap \in QueryCaps : GraphSearch(q, cap)
  \/ GraphClear \/ \E sameTopology \in BOOLEAN : GraphReload(sameTopology)

MGSpec == MGInit /\ [][MGNext]_g

---------------------------------------------------------------------------
(* Correctness *)

Live == ToSet(g.active)

\* Neighbour lists stay within their capacity, name live nodes of the level,
\* never their owner and never a node twice, and the entry has the top level
\* (memory_index_graph.cpp:235, 351, 858, 923).
ListsSound ==
  /\ \A l \in Levels, s \in GSlots :
       LET list == g.nbr[l][s]
       IN  /\ Len(list) <= LevelCap(l) /\ IsInjective(list)
           /\ \A i \in DOMAIN list : list[i] # s /\ list[i] \in Live /\ At(l, g, list[i])
           /\ list # <<>> => s \in Live
  /\ Live = {s \in GSlots : g.key[s] # 0}
  /\ IF Live = {} THEN g.entry = None ELSE g.entry \in Live /\ Level(g, g.entry) = g.max
  /\ \A s \in Live : Level(g, s) <= g.max

\* The nodes the lists of level 0 lead to
RECURSIVE Reach(_, _)
Reach(x, S) ==
  LET T == S \cup UNION {ToSet(x.nbr[0][s]) : s \in S} IN IF T = S THEN S ELSE Reach(x, T)

\* The best-first search on sets instead of arrays: what the heaps stand for
BestOf(x, S) == CHOOSE a \in S : \A b \in S \ {a} : Better(x, a, b)
WorstOf(x, S) == CHOOSE a \in S : \A b \in S \ {a} : Better(x, b, a)
Keep(x, cap, S) == IF Cardinality(S) <= cap THEN S ELSE S \ {WorstOf(x, S)}

RECURSIVE SetSearch(_, _, _, _)
SetSearch(x, sc, cap, w) ==
  LET c == BestOf(x, w.cand)
      visit(v, n) ==
        LET top == Keep(x, cap, v.top \cup {Item(n, sc)})
        IN  IF n \in v.seen THEN v
            ELSE [top |-> top, seen |-> v.seen \cup {n},
                  cand |-> IF Item(n, sc) \in top THEN Keep(x, CandidateCap(cap), v.cand \cup {Item(n, sc)}) ELSE v.cand]
  IN  IF w.cand = {} \/ (Cardinality(w.top) = cap /\ ~Better(x, c, WorstOf(x, w.top))) THEN w.top
      ELSE SetSearch(x, sc, cap, FoldLeft(visit, [w EXCEPT !.cand = @ \ {c}], x.nbr[0][c.s]))

Reference(x, sc, cap) ==
  LET e == Greedy(x, sc, x.entry, x.max, 0)
  IN  SetSearch(x, sc, cap, [top |-> {Item(e, sc)}, seen |-> {e}, cand |-> {Item(e, sc)}])

RECURSIVE BestItems(_, _, _)
BestItems(x, cap, S) == IF Cardinality(S) <= cap THEN S ELSE BestItems(x, cap, S \ {WorstOf(x, S)})

\* A candidate heap holds the best of what it was given in whatever order, the
\* best of them at its root, also when it is full and replaces its worst item
\* (memory_index_graph.cpp:218, graph_query_add_candidate).
HeapKeepsBest(sc, cap) ==
  \A order \in SetToSeqs(Live) :
    LET c == FoldLeft(LAMBDA h, s : AddCandidate(g, cap, h, Item(s, sc)), [q |-> <<>>, worst |-> 0], order)
        S == {Item(s, sc) : s \in Live}
    IN  ToSet(c.q) = BestItems(g, CandidateCap(cap), S) /\ c.q[1] = BestOf(g, S)

\* A walk gives what the search on sets gives, whatever the visit marks of
\* earlier ones and the array order of the heaps; one as wide as the graph
\* gives all that level 0 leads to (memory_index_graph.cpp:579;
\* memory_index_snapshot.cpp:1366).
WalkSound(x, sc, cap, top) ==
  LET start == Greedy(x, sc, x.entry, x.max, 0)
  IN  /\ ToSet(top) = Reference(x, sc, cap) /\ IsInjective(top)
      /\ cap >= GraphCapacity => Slots(top) = Reach(x, {start})
      /\ \A n \in ToSet(x.nbr[0][start]) \cup {start} : BestOf(x, ToSet(top)).score >= sc[n]

\* The best k of all that a walk from the entry can reach
BestReached(x, q, k) ==
  Results(x, SlotScores(x, q), Reach(x, {Greedy(x, RouteScores(x, q), x.entry, x.max, 0)}), k)

SlotsOfKeys(x, list) == {s \in GSlots : \E i \in DOMAIN list : list[i].key = x.key[s]}

\* What a caller gets from the live index and from the snapshot.  The kinds that
\* walk and score alike give the same from both; a plain f6 index rescores
\* and adds neighbours only when it is live, and its live results are then as
\* good, place by place, as those of the snapshot; the other two walk by other
\* scores, and only the live search promises the best of what a wide walk
\* reaches (memory_index_graph.cpp:1303-1343; memory_index_snapshot.cpp:1492-1516).
ResultsSound(x, y, q, cap, w, top, k) ==
  LET live == LiveResults(x, q, w, k)
      saved == SnapshotResults(y, q, top, k)
      rescored == Results(x, SlotScores(x, q), SlotsOfKeys(x, saved), k)
  IN  /\ x.kind \in {"f32", "q8r", "e5m2r"} => live = saved
      /\ x.kind = "f6" => \A i \in DOMAIN saved : live[i].score >= rescored[i].score
      /\ cap >= GraphCapacity /\ (Rerank(x) => RerankCap(k) >= Len(w.top)) =>
           live = BestReached(x, q, k)

\* Both walks, the heaps under them and the results of both.
SearchesSound ==
  g.entry # None /\ ~FlatPreferred(g) =>
    \A q \in GraphQueries, cap \in QueryCaps :
      LET x == BeginVisit(g)
          y == BeginVisit(Saved(g))
          w == SearchFrom(x, RouteScores(x, q), cap)
          top == SnapshotSearch(Saved(g), q, cap)
      IN  /\ WalkSound(x, RouteScores(x, q), cap, w.top)
          /\ WalkSound(y, SnapshotRoute(y, q), SnapshotCap(y, cap), top)
          /\ CandidateCap(cap) < Len(g.active) => HeapKeepsBest(RouteScores(x, q), cap)
          /\ \A k \in 1 .. 2 : ResultsSound(x, y, q, cap, w, top, k)

\* The live graph and the searches over it as one invariant.
GraphRoutes == ListsSound /\ SearchesSound
==============================================================================
