----------------------------- MODULE MCRuntime -----------------------------
(* The runtime below inference: workers, fan-out calls and shutdown, the    *)
(* handle table, the rings, the heap.  They share no variable, so their     *)
(* product would show nothing that they do not show one by one: a behaviour *)
(* moves the one component that its first state picks, and the others stay  *)
(* at their initial states.                                                 *)
EXTENDS WorkerPool, HandleTable, FanIn, SeqRings

CONSTANTS th1, th2,                         \* threads
          MinPow2, MaxPow2, Subdiv, PtrSize, MaxAlign, FirstGrow, MaxGrow,
          LocalRefill, LocalMax, LocalFlush, MaxStarts

VARIABLES part,
          heap, cache, hcall, live, pool, bump, starts

TwoThreads  == {th1, th2}
SmallCounts == {2, 5}

\* a reserved heap with room for two blocks, and an arena cut into its parts
HeapConfig(mode, size, maxLive, maxHeld, maxBumps) ==
  [mode |-> mode, base |-> 3, size |-> size, commit |-> 24, workers |-> 2, scratch |-> 16, heap |-> 70,
   block |-> 24, blocks |-> 0, maxLive |-> maxLive, maxHeld |-> maxHeld, maxBumps |-> maxBumps]
HeapSetups   == {HeapConfig("vm", 72, 2, 0, 0), HeapConfig("arena", 200, 0, 2, 2)}
HeapRequests == {<<9, 2>>, <<16, 16>>}

RH == INSTANCE RuntimeHeap WITH HeapThreads <- TwoThreads, HeapConfigs <- HeapSetups

heapVars == <<heap, cache, hcall, live, pool, bump, starts>>

Parts == {"workers", "handles", "fan-in", "rings", "heap"}

\* all parts but p stand still
OnlyMoves(p) ==
  /\ UNCHANGED part
  /\ IF p = "workers" THEN TRUE ELSE UNCHANGED vars
  /\ IF p = "handles" THEN TRUE ELSE UNCHANGED htVars
  /\ IF p = "fan-in" THEN TRUE ELSE UNCHANGED fiVars
  /\ IF p = "rings" THEN TRUE ELSE UNCHANGED srVars
  /\ IF p = "heap" THEN TRUE ELSE UNCHANGED heapVars

RTInit ==
  /\ part \in Parts
  /\ Init /\ HTInit /\ FIInit /\ SRInit /\ RH!RHInit
  /\ (part # "rings" => kind = "mpmc")

RTNext ==
  \/ part = "workers" /\ Next /\ OnlyMoves("workers")
  \/ part = "handles" /\ HTNext /\ OnlyMoves("handles")
  \/ part = "fan-in" /\ FINext /\ OnlyMoves("fan-in")
  \/ part = "rings" /\ SRNext /\ OnlyMoves("rings")
  \/ part = "heap" /\ RH!RHNext /\ OnlyMoves("heap")

rtVars == <<part, vars, htVars, fiVars, srVars, heapVars>>

\* The workers' fair actions are never enabled where another part was picked.
RTSpec == RTInit /\ [][RTNext]_rtVars /\ Fairness

\* RuntimeHeap: the blocks that the heap and its thread caches, the session pool
\* and the bump allocators hand out are disjoint, aligned and inside the backing
\* of the present initialisation (init.cpp).
HeapSound == part = "heap" => RH!HeapSound
=============================================================================
