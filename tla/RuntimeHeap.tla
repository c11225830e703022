----------------------------- MODULE RuntimeHeap -----------------------------
(***************************************************************************)
(* The runtime's memory (core/init.cpp, frame_allocator.hpp): the arena    *)
(* heap with its size classes and thread caches, the pool of session       *)
(* blocks, and the two bump allocators (worker scratch, session frames).   *)
(* An address is a number; the sizes of the code are scaled down by the    *)
(* constants.  A heap block carries no header: the size and alignment its  *)
(* owner gives back must lead to the bucket it came from.                  *)
(***************************************************************************)
EXTENDS Integers, Sequences, FiniteSets

CONSTANTS
  HeapThreads,   \* threads that allocate
  HeapConfigs,   \* how the runtime may be initialised (see Partition), with bounds
  HeapRequests,  \* <<size, align>> pairs
  MinPow2, MaxPow2, Subdiv, PtrSize, MaxAlign,   \* the geometry of the size classes
  FirstGrow, MaxGrow, LocalRefill, LocalMax, LocalFlush,
  MaxStarts      \* bound: initialisations

VARIABLES
  heap,    \* the ArenaHeap
  cache,   \* [HeapThreads -> ThreadCache]
  hcall,   \* [HeapThreads -> allocate_slow in progress]
  live,    \* blocks handed out
  pool,    \* session block pool: free list, blocks handed out
  bump,    \* [kind -> bump allocator]
  starts   \* initialisations so far

rhVars == <<heap, cache, hcall, live, pool, bump, starts>>

Nil == -1
Lesser(a, b) == IF a < b THEN a ELSE b
Greater(a, b) == IF a < b THEN b ELSE a
AlignUp(v, a) == ((v + a - 1) \div a) * a
HighBit(n) == CHOOSE h \in 0 .. 12 : 2 ^ h <= n /\ n < 2 ^ (h + 1)
Levels == HighBit(MaxPow2) - HighBit(MinPow2) + 1
Buckets == 0 .. Levels * Subdiv - 1
NoBucket == Levels * Subdiv

NormalizedSize(size, align) ==
  IF align > MaxAlign THEN 0 ELSE Greater(PtrSize, AlignUp(size, align))

BucketSize(req) ==
  LET n       == Greater(req, MinPow2)
      base    == 2 ^ HighBit(n)
      rounded == AlignUp(n, Greater(1, base \div Subdiv))
  IN  IF n > MaxPow2 \/ (rounded >= 2 * base /\ 2 * base > MaxPow2) THEN 0 ELSE rounded

\* rounding up to the next power of two lands in the next level's first bucket
BucketIndex(req) ==
  LET hb    == HighBit(req)
      shift == hb - HighBit(Subdiv)
      sub   == (req - 2 ^ hb + 2 ^ shift - 1) \div 2 ^ shift
  IN  CASE req < MinPow2 -> 0
        [] req > MaxPow2 -> NoBucket
        [] OTHER         -> (hb - HighBit(MinPow2)) * Subdiv + sub

BucketReq(b) == LET base == MinPow2 * 2 ^ (b \div Subdiv)
                IN  base + (b % Subdiv) * Greater(1, base \div Subdiv)

\* ArenaHeap::reset
Cold(epoch) == [on |-> FALSE, vm |-> FALSE, base |-> 0, size |-> 0, used |-> 0, committed |-> 0, epoch |-> epoch,
                free |-> [b \in Buckets |-> <<>>], grow |-> [b \in Buckets |-> 0], cfg |-> Nil]
FreshCache(epoch) == [epoch |-> epoch, list |-> [b \in Buckets |-> <<>>], count |-> [b \in Buckets |-> 0]]
NoPool == [base |-> 0, size |-> 0, count |-> 0, next |-> <<>>, head |-> Nil, held |-> <<>>]
NoCall == [pc |-> "idle"]
NoBump == [base |-> 0, cap |-> 0, used |-> 0, given |-> {}]

RHInit ==
  /\ heap = Cold(1) /\ cache = [t \in HeapThreads |-> FreshCache(0)] /\ hcall = [t \in HeapThreads |-> NoCall]
  /\ live = {} /\ pool = NoPool /\ bump = [k \in {"scratch", "frame"} |-> NoBump] /\ starts = 0

-----------------------------------------------------------------------------
(* Initialisation: an arena is cut into worker scratch, heap and session   *)
(* blocks, a virtual memory reservation becomes heap as a whole.           *)

\* session_pool_init_from_arena; one unit of metadata per block (block and
\* metadata alignment are MaxAlign and 1)
SessionPool(start, end, size, asked) ==
  LET wanted == IF asked # 0 THEN asked ELSE Greater(1, Lesser(16, (end - start) \div size))
      base   == AlignUp(start + wanted, MaxAlign)
      count  == Lesser(wanted, (end - base) \div size)
  IN  IF end - start < wanted \/ base >= end \/ count <= 0 THEN NoPool
      ELSE [NoPool EXCEPT !.base = base, !.size = size, !.count = count, !.head = 0,
              !.next = [i \in 0 .. count - 1 |-> IF i + 1 < count THEN i + 1 ELSE Nil]]

\* astral_init's partition of an arena; a pool without blocks fails it
Partition(c) ==
  LET scratch == AlignUp(c.base, MaxAlign)
      at      == AlignUp(scratch + c.workers * c.scratch, MaxAlign)
  IN  [scratch |-> scratch, heap |-> at, pool |-> SessionPool(at + c.heap, c.base + c.size, c.block, c.blocks)]

Start(c) ==
  LET p == Partition(c) IN
  /\ ~heap.on /\ starts < MaxStarts /\ starts' = starts + 1
  /\ IF c.mode = "vm"
     THEN /\ heap' = [Cold(heap.epoch + 2) EXCEPT !.on = TRUE, !.vm = TRUE, !.base = c.base, !.size = c.size,
                        !.committed = Lesser(c.commit, c.size), !.cfg = c]
          /\ UNCHANGED <<pool, bump>>
     ELSE /\ p.pool.count > 0
          /\ heap' = [Cold(heap.epoch + 3) EXCEPT !.on = TRUE, !.base = p.heap, !.size = c.heap,
                        !.committed = c.heap, !.cfg = c]
          /\ pool' = p.pool
          /\ bump' = [bump EXCEPT !["scratch"] =
               [NoBump EXCEPT !.base = p.scratch + (c.workers - 1) * c.scratch, !.cap = c.scratch]]
  /\ UNCHANGED <<cache, hcall, live>>

\* astral_shutdown, once everything was given back; the thread caches stay
Stop ==
  /\ heap.on /\ live = {} /\ pool.held = <<>> /\ bump["frame"] = NoBump /\ \A t \in HeapThreads : hcall[t] = NoCall
  /\ heap' = Cold(heap.epoch + 1) /\ pool' = NoPool /\ bump' = [bump EXCEPT !["scratch"] = NoBump]
  /\ UNCHANGED <<cache, hcall, live, starts>>

-----------------------------------------------------------------------------
(* The heap.                                                               *)

TlsCache_Keep(t) == [cache[t] EXCEPT !.epoch = heap.epoch]

\* tls_cache: a cache filled before the last reset is forgotten on touch
TlsCache(t) == IF cache[t].epoch = heap.epoch THEN cache[t] ELSE FreshCache(heap.epoch)

Reversed(s) == [i \in 1 .. Len(s) |-> s[Len(s) + 1 - i]]

\* move up to LocalRefill blocks to the empty local list and take the first
Refilled(t, b, r) ==
  LET n    == Lesser(LocalRefill, Len(heap.free[b]))
      mine == Reversed(SubSeq(heap.free[b], 1, n))
  IN  /\ heap' = [heap EXCEPT !.free[b] = SubSeq(@, n + 1, Len(@))]
      /\ cache' = [cache EXCEPT ![t] = [TlsCache(t) EXCEPT !.list[b] = Tail(mine), !.count[b] = n - 1]]
      /\ live' = live \cup {[a |-> Head(mine), req |-> r]}

\* runtime_alloc: the local list, else the bucket, else grow it
Allocate(t, r) ==
  LET b == BucketIndex(NormalizedSize(r[1], r[2]))
      c == TlsCache(t)
  IN  /\ heap.on /\ hcall[t] = NoCall /\ Cardinality(live) < heap.cfg.maxLive
      /\ NormalizedSize(r[1], r[2]) # 0 /\ b # NoBucket
      /\ \/ /\ c.list[b] # <<>>
            /\ cache' = [cache EXCEPT ![t] = [c EXCEPT !.list[b] = Tail(@), !.count[b] = @ - 1]]
            /\ live' = live \cup {[a |-> Head(c.list[b]), req |-> r]}
            /\ UNCHANGED <<heap, hcall>>
         \/ /\ c.list[b] = <<>> /\ heap.free[b] # <<>> /\ Refilled(t, b, r) /\ UNCHANGED hcall
         \/ /\ c.list[b] = <<>> /\ heap.free[b] = <<>>
            /\ cache' = [cache EXCEPT ![t] = c]
            /\ hcall' = [hcall EXCEPT ![t] = [pc |-> "grow", b |-> b, r |-> r]]
            /\ UNCHANGED <<heap, live>>
      /\ UNCHANGED <<pool, bump, starts>>

\* the commit target: doubled until it covers the need, at most the reservation
CommitTarget(required) ==
  LET steps == {Lesser(heap.committed * 2 ^ k, heap.size) : k \in 0 .. 8}
  IN  CHOOSE s \in steps : s >= required /\ \A o \in steps : o >= required => s <= o

\* grow_bucket, the arena part under its own lock: used, committed and the
\* new blocks; the operating system may refuse to commit
GrowBucket(t, commits) ==
  LET b     == hcall[t].b
      size  == BucketSize(BucketReq(b))
      want  == IF heap.grow[b] = 0 THEN FirstGrow ELSE Lesser(2 * heap.grow[b], MaxGrow)
      off   == AlignUp(heap.base + heap.used, MaxAlign) - heap.base
      count == Lesser(want, Greater(0, heap.size - off) \div size)
      need  == off + count * size
      upto  == IF count > 0 /\ need > heap.committed /\ heap.vm /\ commits THEN CommitTarget(need) ELSE heap.committed
      blocks == [i \in 1 .. count |-> heap.base + off + (count - i) * size]
  IN  /\ hcall[t].pc = "grow"
      /\ \/ /\ heap.free[b] # <<>> \/ (count > 0 /\ need <= upto)
            /\ heap' = IF heap.free[b] # <<>> THEN heap
                       ELSE [heap EXCEPT !.used = need, !.committed = upto, !.free[b] = blocks, !.grow[b] = count]
            /\ hcall' = [hcall EXCEPT ![t].pc = "refill"]
         \/ /\ heap.free[b] = <<>> /\ (count = 0 \/ need > upto)
            /\ hcall' = [hcall EXCEPT ![t] = NoCall] /\ UNCHANGED heap
      /\ UNCHANGED <<cache, live, pool, bump, starts>>

\* the second refill; other threads may have emptied the bucket again, then
\* the allocation fails (or falls back to the system in the vm mode)
AllocateSlow(t) ==
  /\ hcall[t].pc = "refill"
  /\ IF heap.free[hcall[t].b] # <<>> THEN Refilled(t, hcall[t].b, hcall[t].r) ELSE UNCHANGED <<heap, cache, live>>
  /\ hcall' = [hcall EXCEPT ![t] = NoCall] /\ UNCHANGED <<pool, bump, starts>>

\* runtime_free by any thread: to the caller's cache, the excess to the bucket
Deallocate(t, block) ==
  LET b    == BucketIndex(NormalizedSize(block.req[1], block.req[2]))
      c    == TlsCache(t)
      mine == <<block.a>> \o c.list[b]
      n    == IF c.count[b] + 1 < LocalMax THEN 0 ELSE Lesser(LocalFlush, Len(mine))
  IN  /\ heap.on /\ hcall[t] = NoCall /\ block \in live
      /\ live' = live \ {block}
      /\ cache' = [cache EXCEPT ![t] = [c EXCEPT !.list[b] = SubSeq(mine, n + 1, Len(mine)), !.count[b] = @ + 1 - n]]
      /\ heap' = [heap EXCEPT !.free[b] = Reversed(SubSeq(mine, 1, n)) \o @]
      /\ UNCHANGED <<hcall, pool, bump, starts>>

-----------------------------------------------------------------------------
(* Session blocks and bump allocators.                                     *)

\* runtime_session_scratch_acquire in an arena; the session puts a frame
\* allocator on its first block
PoolAcquire ==
  /\ heap.on /\ pool.head # Nil /\ Len(pool.held) < heap.cfg.maxHeld
  /\ pool' = [pool EXCEPT !.head = pool.next[pool.head], !.held = Append(@, pool.head)]
  /\ bump' = IF bump["frame"] # NoBump THEN bump
             ELSE [bump EXCEPT !["frame"] = [NoBump EXCEPT !.base = pool.base + pool.head * pool.size, !.cap = pool.size]]
  /\ UNCHANGED <<heap, cache, hcall, live, starts>>

PoolRelease(i) ==
  LET at == (pool.base + pool.held[i] * pool.size - pool.base) \div pool.size
      gone == bump["frame"].base = pool.base + pool.held[i] * pool.size
  IN  /\ pool' = [pool EXCEPT !.next[at] = pool.head, !.head = at,
                    !.held = SubSeq(@, 1, i - 1) \o SubSeq(@, i + 1, Len(@))]
      /\ bump' = IF gone THEN [bump EXCEPT !["frame"] = NoBump] ELSE bump
      /\ UNCHANGED <<heap, cache, hcall, live, starts>>

\* FrameAllocator::alloc aligns the address
FrameOffset(f, align) == AlignUp(f.base + f.used, align) - f.base
\* runtime_worker_scratch_alloc aligns the offset
ScratchOffset(f, align) == AlignUp(f.used, align)

BumpAlloc(k, r) ==
  LET f   == bump[k]
      off == IF k = "frame" THEN FrameOffset(f, r[2]) ELSE ScratchOffset(f, r[2])
  IN  /\ Cardinality(f.given) < heap.cfg.maxBumps /\ off + r[1] <= f.cap
      /\ bump' = [bump EXCEPT ![k].used = off + r[1], ![k].given = @ \cup {[a |-> f.base + off, req |-> r]}]
      /\ UNCHANGED <<heap, cache, hcall, live, pool, starts>>

BumpReset(k) ==
  /\ bump[k].used > 0 /\ bump' = [bump EXCEPT ![k].used = 0, ![k].given = {}]
  /\ UNCHANGED <<heap, cache, hcall, live, pool, starts>>

RHNext ==
  \/ \E c \in HeapConfigs : Start(c)
  \/ Stop
  \/ \E t \in HeapThreads : \/ \E r \in HeapRequests : Allocate(t, r)
                            \/ \E ok \in BOOLEAN : GrowBucket(t, ok)
                            \/ AllocateSlow(t)
                            \/ \E blk \in live : Deallocate(t, blk)
  \/ heap.on /\ PoolAcquire
  \/ \E i \in DOMAIN pool.held : PoolRelease(i)
  \/ heap.on /\ \E k \in {"scratch", "frame"} : BumpReset(k) \/ \E r \in HeapRequests : BumpAlloc(k, r)

RHSpec == RHInit /\ [][RHNext]_rhVars

-----------------------------------------------------------------------------
Span(a, n) == a .. a + n - 1

\* every heap block there is: in a bucket, in a current cache, or handed out
Blocks ==
  LET cached == {t \in HeapThreads : cache[t].epoch = heap.epoch}
  IN  UNION {{<<b, "free", i, heap.free[b][i]>> : i \in DOMAIN heap.free[b]} : b \in Buckets}
      \cup UNION {UNION {{<<b, t, i, cache[t].list[b][i]>> : i \in DOMAIN cache[t].list[b]} : b \in Buckets} : t \in cached}
      \cup {<<BucketIndex(NormalizedSize(x.req[1], x.req[2])), "live", x.req, x.a>> : x \in live}

BlockSize(k) == BucketSize(BucketReq(k[1]))

\* No two heap blocks overlap, wherever they are, and all lie in committed
\* memory; a block handed out holds the size its owner asked for, aligned as
\* asked.  Cached blocks of an earlier initialisation are never handed out.
HeapBlocksSound ==
  /\ \A k \in Blocks : /\ k[4] >= heap.base /\ k[4] + BlockSize(k) <= heap.base + heap.committed
                       /\ \A o \in Blocks \ {k} : Span(k[4], BlockSize(k)) \cap Span(o[4], BlockSize(o)) = {}
  /\ \A x \in live : /\ x.a % x.req[2] = 0
                     /\ BucketSize(BucketReq(BucketIndex(NormalizedSize(x.req[1], x.req[2])))) >= x.req[1]
  /\ heap.on => heap.used <= heap.committed /\ heap.committed <= heap.size
  /\ \A t \in HeapThreads : \A b \in Buckets : cache[t].count[b] = Len(cache[t].list[b])

\* The free list of session blocks holds every block nobody has, once; the
\* blocks lie in the arena behind the heap.
PoolSound ==
  LET chain[i \in 0 .. pool.count] ==
        IF i = 0 THEN pool.head ELSE IF chain[i - 1] = Nil THEN Nil ELSE pool.next[chain[i - 1]]
      held == {pool.held[i] : i \in DOMAIN pool.held}
      free == {chain[i] : i \in 0 .. pool.count} \ {Nil}
  IN  pool.count > 0 =>
        /\ Cardinality(held) = Len(pool.held) /\ held \cap free = {} /\ held \cup free = 0 .. pool.count - 1
        /\ pool.base >= heap.base + heap.size + pool.count
        /\ pool.base + pool.count * pool.size <= heap.cfg.base + heap.cfg.size

\* What a bump allocator gave out since its reset is disjoint, aligned and
\* inside its region; the scratch region ends before the heap.
BumpsSound ==
  \A k \in DOMAIN bump : LET f == bump[k] IN
    /\ \A x \in f.given : /\ x.a % x.req[2] = 0 /\ x.a >= f.base /\ x.a + x.req[1] <= f.base + f.cap
                          /\ \A y \in f.given \ {x} : Span(x.a, x.req[1]) \cap Span(y.a, y.req[1]) = {}
    /\ k = "scratch" /\ heap.on => f.base + f.cap <= heap.base \/ heap.vm

\* The runtime never hands out memory twice, in part or as a whole.
HeapSound == HeapBlocksSound /\ PoolSound /\ BumpsSound
=============================================================================
