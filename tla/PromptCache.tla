----------------------------- MODULE PromptCache -----------------------------
(***************************************************************************)
(* The prompt cache of the C ABI (src/inference/api.cpp): an open          *)
(* addressing table with linear probing whose entries are threaded on a    *)
(* FIFO list and own ranges of one token arena that is written as a ring.  *)
(* Removing an entry re-inserts the rest of its probe chain, which moves   *)
(* entries under the list; removing one that is not the oldest compacts    *)
(* the arena when the list is in address order and otherwise marks it      *)
(* fragmented, which decides how much a later put must evict.              *)
(*                                                                         *)
(* The operations are operators on a cache record, as in the code every    *)
(* one works through a PromptCache pointer.  The tokens of a key are copies *)
(* of the key, so a range that is overwritten or moved wrongly shows.      *)
(***************************************************************************)
EXTENDS Naturals, Sequences, SequencesExt, FiniteSets

CONSTANTS
  CacheKeys,     \* the caller's keys
  HashOf,        \* key -> prompt_cache_hash of it
  MaxEntries,    \* max_entries
  CacheTokens,   \* max_tokens
  LoadTokens,    \* max_tokens of a cache made from saved bytes
  PutSizes,      \* token counts the caller puts
  MaxPuts,       \* bound: the highest sequence number
  Vacant         \* no slot, no cache, no token

ASSUME CacheAssumption ==
  /\ MaxEntries \in Nat \ {0} /\ CacheTokens \in Nat \ {0} /\ MaxPuts \in Nat
  /\ LoadTokens \in Nat \ {0} /\ PutSizes \subseteq Nat
  /\ HashOf \in [CacheKeys -> Nat]

VARIABLE pcache   \* the cache, or NoCache

NoSlot  == Vacant
NoCache == Vacant

\* prompt_cache_table_capacity: the power of two that keeps a load factor of
\* a quarter, never below four
TableCapacity(maxEntries) ==
  LET target == IF maxEntries < 4 THEN 4 ELSE 4 * maxEntries
  IN  CHOOSE c \in {2 ^ i : i \in 0 .. 30} : c >= target /\ c < 2 * target

EmptyEntry == [state |-> "empty", key |-> Vacant, count |-> 0, offset |-> 0,
               prev |-> NoSlot, next |-> NoSlot, seq |-> 0]

\* astral_prompt_cache_create
CreateCache(maxTokens) ==
  [entries |-> [s \in 0 .. TableCapacity(MaxEntries) - 1 |-> EmptyEntry],
   storage |-> [i \in 0 .. maxTokens - 1 |-> Vacant],
   maxTokens |-> maxTokens, entryCount |-> 0, tokenCount |-> 0, write |-> 0,
   head |-> NoSlot, tail |-> NoSlot, lastHit |-> NoSlot, fragmented |-> FALSE,
   nextSeq |-> 1]

Capacity(c) == Cardinality(DOMAIN c.entries)
Occupied(c) == {s \in DOMAIN c.entries : c.entries[s].state = "occupied"}
After(c, s) == (s + 1) % Capacity(c)

\* The slots on the FIFO list, from fifo_head along fifo_next.
RECURSIVE WalkFrom(_, _, _)
WalkFrom(c, s, w) ==
  IF s = NoSlot \/ Len(w) >= Capacity(c) THEN w
  ELSE WalkFrom(c, c.entries[s].next, Append(w, s))
FifoWalk(c) == WalkFrom(c, c.head, <<>>)

---------------------------------------------------------------------------
(* The table and the list *)

RECURSIVE ProbeKey(_, _, _, _)
ProbeKey(c, k, s, n) ==
  IF n = Capacity(c) \/ c.entries[s].state = "empty" THEN NoSlot
  ELSE IF c.entries[s].key = k THEN s ELSE ProbeKey(c, k, After(c, s), n + 1)

\* prompt_cache_find_hashed: the remembered slot first, then the probe chain
FindSlot(c, k) ==
  IF c.lastHit # NoSlot /\ c.entries[c.lastHit].state = "occupied"
       /\ c.entries[c.lastHit].key = k
  THEN c.lastHit
  ELSE ProbeKey(c, k, HashOf[k] % Capacity(c), 0)

Remember(c, s) == [c EXCEPT !.lastHit = s]

\* prompt_cache_empty_entry
RECURSIVE ProbeEmpty(_, _, _)
ProbeEmpty(c, s, n) ==
  IF n = Capacity(c) THEN NoSlot
  ELSE IF c.entries[s].state = "empty" THEN s ELSE ProbeEmpty(c, After(c, s), n + 1)
EmptySlot(c, h) == ProbeEmpty(c, h % Capacity(c), 0)

\* prompt_cache_fifo_append
FifoAppend(c, s) ==
  LET linked == [c EXCEPT !.entries[s].prev = c.tail, !.entries[s].next = NoSlot,
                          !.tail = s]
  IN  IF c.tail = NoSlot THEN [linked EXCEPT !.head = s]
      ELSE [linked EXCEPT !.entries[c.tail].next = s]

\* The neighbours of slot s, and head and tail, now point at p (before) and n
\* (after): how unlink closes a gap and relocate follows a moved entry.
Relink(c, s, e, p, n) ==
  LET front == IF e.prev # NoSlot THEN [c EXCEPT !.entries[e.prev].next = n]
               ELSE IF c.head = s THEN [c EXCEPT !.head = n] ELSE c
  IN  IF e.next # NoSlot THEN [front EXCEPT !.entries[e.next].prev = p]
      ELSE IF c.tail = s THEN [front EXCEPT !.tail = p] ELSE front

\* prompt_cache_fifo_unlink
FifoUnlink(c, s) == LET e == c.entries[s] IN Relink(c, s, e, e.prev, e.next)

\* prompt_cache_fifo_relocate
FifoRelocate(c, old, new) == Relink(c, old, c.entries[new], new, new)

---------------------------------------------------------------------------
(* The token arena *)

\* prompt_cache_token_ranges_overlap
RangesOverlap(o1, n1, o2, n2) == o1 < o2 + n2 /\ o2 < o1 + n1

\* prompt_cache_compact_tokens: only when the list is in address order
InAddressOrder(c) ==
  LET w == FifoWalk(c)
  IN  \A i \in 2 .. Len(w) :
        c.entries[w[i]].offset >= c.entries[w[i - 1]].offset + c.entries[w[i - 1]].count

MoveDown(c, s, to) ==
  LET e == c.entries[s]
  IN  [c EXCEPT !.storage = [i \in DOMAIN @ |->
                   IF i \in to .. to + e.count - 1 THEN c.storage[e.offset + i - to] ELSE @[i]],
                !.entries[s].offset = to]

RECURSIVE SlideDown(_, _, _)
SlideDown(c, walk, to) ==
  IF walk = <<>> THEN [c EXCEPT !.write = to, !.fragmented = FALSE]
  ELSE LET e == c.entries[Head(walk)]
       IN  SlideDown(IF e.count # 0 /\ e.offset # to THEN MoveDown(c, Head(walk), to) ELSE c,
                     Tail(walk), to + e.count)

CompactTokens(c) ==
  IF InAddressOrder(c) THEN SlideDown(c, FifoWalk(c), 0) ELSE [c EXCEPT !.fragmented = TRUE]

---------------------------------------------------------------------------
(* Removal and eviction *)

\* prompt_cache_release_entry_payload
ReleasePayload(c, s) ==
  [FifoUnlink(c, s) EXCEPT
     !.tokenCount = IF @ >= c.entries[s].count THEN @ - c.entries[s].count ELSE 0,
     !.entries[s] = EmptyEntry]

\* The loop of prompt_cache_remove_entry: each entry behind the hole is taken
\* out and put into the first empty slot of its own chain.
RECURSIVE ReinsertFrom(_, _)
ReinsertFrom(c, s) ==
  IF c.entries[s].state = "empty" THEN c
  ELSE LET e   == c.entries[s]
           out == [c EXCEPT !.entries[s] = EmptyEntry]
           dst == EmptySlot(out, HashOf[e.key])
       IN  ReinsertFrom(FifoRelocate([out EXCEPT !.entries[dst] = e], s, dst), After(c, s))

Settle(c, behind) == IF behind THEN CompactTokens(c) ELSE c

\* a removal that leaves the entries behind the hole where they are
RemoveEntry_KeepChain(c, hole) ==
  Settle(ReleasePayload([c EXCEPT !.lastHit = NoSlot], hole), hole # c.head)

\* prompt_cache_remove_entry
RemoveEntry(c, hole) ==
  Settle(ReinsertFrom(ReleasePayload([c EXCEPT !.lastHit = NoSlot], hole), After(c, hole)),
         hole # c.head)

\* an eviction from the wrong end of the list
EvictOldest_Newest(c) == [RemoveEntry(c, c.tail) EXCEPT !.entryCount = @ - 1]

\* prompt_cache_evict_oldest
EvictOldest(c) == [RemoveEntry(c, c.head) EXCEPT !.entryCount = @ - 1]

OverBudget(c, n) == c.entryCount >= MaxEntries \/ c.tokenCount + n > c.maxTokens

RECURSIVE EvictForBudget(_, _)
EvictForBudget(c, n) ==
  IF OverBudget(c, n) /\ c.head # NoSlot THEN EvictForBudget(EvictOldest(c), n) ELSE c

\* prompt_cache_token_range_any_overlap, prompt_cache_head_token_overlap
AnyOverlap(c, o, n) ==
  \E s \in Range(FifoWalk(c)) : RangesOverlap(o, n, c.entries[s].offset, c.entries[s].count)
HeadOverlap(c, o, n) ==
  c.head # NoSlot /\ RangesOverlap(o, n, c.entries[c.head].offset, c.entries[c.head].count)

\* A fragmented arena needs every entry checked, a ring only the oldest.
Covered(c, o, n) == IF c.fragmented THEN AnyOverlap(c, o, n) ELSE HeadOverlap(c, o, n)

RECURSIVE EvictForRange(_, _, _)
EvictForRange(c, o, n) ==
  IF Covered(c, o, n) /\ c.head # NoSlot THEN EvictForRange(EvictOldest(c), o, n) ELSE c

\* prompt_cache_reserve_tokens: evicts, then writes at the ring position
RingOffset(c, n) == IF c.write + n > c.maxTokens THEN 0 ELSE c.write
ReserveRange(c, o, n)  == [EvictForRange(c, o, n) EXCEPT !.write = o + n]
ReserveAtWrite(c, n)   == ReserveRange(c, RingOffset(c, n), n)
ReserveTokens(c, n)    == ReserveAtWrite(EvictForBudget(c, n), n)

\* prompt_cache_clear_impl
ClearCache(c) ==
  [c EXCEPT !.entries = [s \in DOMAIN @ |-> EmptyEntry], !.head = NoSlot, !.tail = NoSlot,
            !.write = 0, !.tokenCount = 0, !.entryCount = 0, !.fragmented = FALSE,
            !.lastHit = NoSlot]

Without(c, s) == IF s = NoSlot THEN c ELSE [RemoveEntry(c, s) EXCEPT !.entryCount = @ - 1]

\* The tokens copied to at, the entry made in slot s and appended to the list
Store(c, k, toks, at, s) ==
  FifoAppend([c EXCEPT
    !.storage = [i \in DOMAIN @ |->
       IF i \in at .. at + Len(toks) - 1 THEN toks[i - at + 1] ELSE @[i]],
    !.entries[s] = [state |-> "occupied", key |-> k, count |-> Len(toks), offset |-> at,
                    prev |-> NoSlot, next |-> NoSlot, seq |-> c.nextSeq],
    !.nextSeq = @ + 1, !.tokenCount = @ + Len(toks), !.entryCount = @ + 1,
    !.lastHit = s], s)

StoreReserved(c, k, toks) == Store(c, k, toks, c.write - Len(toks), EmptySlot(c, HashOf[k]))

\* astral_prompt_cache_put_tokens, after its checks
PutTokens(c, k, toks) ==
  StoreReserved(ReserveTokens(Without(c, FindSlot(c, k)), Len(toks)), k, toks)

TokensAt(c, s) ==
  [i \in 1 .. c.entries[s].count |-> c.storage[c.entries[s].offset + i - 1]]

---------------------------------------------------------------------------
(* Saving and loading *)

\* astral_prompt_cache_save (and the size it needs)
SaveBytes(c) ==
  LET w == FifoWalk(c)
  IN  [count |-> c.entryCount, tokens |-> c.tokenCount,
       records |-> [i \in DOMAIN w |-> [key |-> c.entries[w[i]].key,
                                        seq |-> c.entries[w[i]].seq,
                                        toks |-> TokensAt(c, w[i])]]]

\* One record of astral_prompt_cache_load: a put, then the saved sequence
Resequence(c, s, seq) ==
  [c EXCEPT !.entries[s].seq = seq, !.nextSeq = IF @ <= seq THEN seq + 1 ELSE @]
ResequenceKey(c, k, seq) == Resequence(c, FindSlot(c, k), seq)
LoadRecord(c, r) == ResequenceKey(PutTokens(c, r.key, r.toks), r.key, r.seq)

RECURSIVE LoadRecords(_, _)
LoadRecords(c, records) ==
  IF records = <<>> THEN c ELSE LoadRecords(LoadRecord(c, Head(records)), Tail(records))

RECURSIVE SumOf(_)
SumOf(s) == IF s = <<>> THEN 0 ELSE Head(s) + SumOf(Tail(s))

\* astral_prompt_cache_load: NoCache when a record is missing or does not
\* fit, or when bytes are left over
LoadCache(b) ==
  IF \/ Len(b.records) # b.count
     \/ \E i \in DOMAIN b.records : Len(b.records[i].toks) > LoadTokens
     \/ SumOf([i \in DOMAIN b.records |-> Len(b.records[i].toks)]) # b.tokens
  THEN NoCache
  ELSE LoadRecords(CreateCache(LoadTokens), b.records)

---------------------------------------------------------------------------
(* The calls *)

PCInit == pcache = CreateCache(CacheTokens)

Live == pcache # NoCache

CachePut(k) ==
  /\ Live /\ pcache.nextSeq <= MaxPuts
  /\ \E n \in PutSizes \cap 0 .. pcache.maxTokens : pcache' = PutTokens(pcache, k, [i \in 1 .. n |-> k])

\* get_tokens and get_token_view: what they return is the entry's range, what
\* they change is the remembered slot
CacheGet(k) ==
  /\ Live /\ FindSlot(pcache, k) # NoSlot
  /\ pcache' = Remember(pcache, FindSlot(pcache, k))

CacheClear == Live /\ pcache' = ClearCache(pcache)

Truncated(b) == IF b.records = <<>> THEN b ELSE [b EXCEPT !.records = Front(@)]

\* A save, a destroy, and a load of the saved bytes, whole or with the last
\* record cut off
CacheReload ==
  /\ Live
  /\ \E cut \in {FALSE, TRUE} :
       pcache' = LoadCache(IF cut THEN Truncated(SaveBytes(pcache)) ELSE SaveBytes(pcache))

CacheRecreate == ~Live /\ pcache' = CreateCache(CacheTokens)

PCNext ==
  \/ \E k \in CacheKeys : CachePut(k) \/ CacheGet(k)
  \/ CacheClear \/ CacheReload \/ CacheRecreate

PCSpec == PCInit /\ [][PCNext]_pcache

---------------------------------------------------------------------------
(* Correctness *)

\* The entries a caller can see, oldest first.
Contents(c) ==
  IF c = NoCache THEN <<>>
  ELSE LET w == FifoWalk(c)
       IN  [i \in DOMAIN w |-> [key |-> c.entries[w[i]].key, val |-> TokensAt(c, w[i])]]

PCTypeOK ==
  Live => /\ pcache.entries \in [0 .. TableCapacity(MaxEntries) - 1 ->
                 [state : {"empty", "occupied"}, key : CacheKeys \cup {Vacant},
                  count : Nat, offset : Nat, prev : Nat \cup {NoSlot},
                  next : Nat \cup {NoSlot}, seq : Nat]]
          /\ pcache.storage \in [0 .. pcache.maxTokens - 1 -> CacheKeys \cup {Vacant}]

\* Relocating entries while a probe chain closes keeps the FIFO list whole:
\* it visits every occupied slot once, in the order of their puts, and its
\* backward links and its tail agree.
ListWhole ==
  Live => LET w == FifoWalk(pcache)
              E(i) == pcache.entries[w[i]]
          IN  /\ Range(w) = Occupied(pcache)
              /\ Len(w) = pcache.entryCount /\ Cardinality(Occupied(pcache)) = Len(w)
              /\ \A i \in DOMAIN w : E(i).prev = IF i = 1 THEN NoSlot ELSE w[i - 1]
              /\ pcache.tail = IF w = <<>> THEN NoSlot ELSE Last(w)
              /\ \A i \in 2 .. Len(w) : E(i - 1).seq < E(i).seq

\* A lookup finds a stored key where it is and misses every other key, with
\* and without the remembered slot: no removal leaves a hole that cuts a probe
\* chain, and no hint outlives the entry it was taken from.
LookupsAgree ==
  Live => \A k \in CacheKeys, c \in {pcache, Remember(pcache, NoSlot)} :
            LET at == {s \in Occupied(pcache) : pcache.entries[s].key = k}
            IN  IF at = {} THEN FindSlot(c, k) = NoSlot ELSE at = {FindSlot(c, k)}

\* Two entries never share arena cells, whatever mix of ring writes,
\* evictions, replacements and compactions came before, and the token count
\* that decides about evictions is the sum of the entries.
ArenaDisjoint ==
  Live => /\ \A s, t \in Occupied(pcache) :
               s # t => ~RangesOverlap(pcache.entries[s].offset, pcache.entries[s].count,
                                       pcache.entries[t].offset, pcache.entries[t].count)
                        \/ pcache.entries[s].count = 0 \/ pcache.entries[t].count = 0
          /\ LET w == FifoWalk(pcache)
             IN  pcache.tokenCount = SumOf([i \in DOMAIN w |-> pcache.entries[w[i]].count])
          /\ pcache.tokenCount <= pcache.maxTokens

\* An entry keeps the tokens of its put until it is replaced, evicted or
\* cleared, whatever is put, evicted, moved or compacted around it.
EntriesIntact ==
  Live => \A s \in Occupied(pcache) :
            TokensAt(pcache, s) = [i \in 1 .. pcache.entries[s].count |-> pcache.entries[s].key]

\* Bytes written by a save load back as the very entries that were saved, in
\* the same order, whenever the new cache's budget can hold them.
SavedReloads ==
  Live /\ pcache.tokenCount <= LoadTokens =>
    Contents(LoadCache(SaveBytes(pcache))) = Contents(pcache)

\* The parts above, as the one invariant the table, the list and the arena
\* keep together.
CacheWhole ==
  PCTypeOK /\ ListWhole /\ LookupsAgree /\ ArenaDisjoint /\ EntriesIntact /\ SavedReloads

\* The table, list and arena together are a FIFO cache: a put costs only the
\* oldest entries, and every key keeps the tokens of its last put.
Fifo == INSTANCE FifoCache WITH
          Keys <- CacheKeys, content <- Contents(pcache),
          ValuesOf <- [k \in CacheKeys |-> {[i \in 1 .. n |-> k] : n \in 0 .. CacheTokens}]
IsFifoCache == Fifo!FifoSpec
=============================================================================
