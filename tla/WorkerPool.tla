------------------------------ MODULE WorkerPool ------------------------------
(****************************************************************************)
(* The runtime's worker pool (src/core/init.cpp): astral_init builds the      *)
(* queues and starts the workers, astral_shutdown sends every worker a null   *)
(* item, joins it and releases the memory, and in between API threads fan     *)
(* memory-index work out over the workers (memory_index.cpp,                  *)
(* memory_index_graph.cpp) with jobs and a counter on their own stack.        *)
(*                                                                            *)
(* As astral_rt.h demands, init and shutdown are called from one thread, Main *)
(* here, and no other call overlaps them.  Under that rule submit_work_affine *)
(* never refuses an item, so the callers' fallback of running a refused job   *)
(* themselves is left out; so are calls made from a worker, which no work     *)
(* function of the runtime makes.  A queue is the bounded FIFO that           *)
(* TicketRing is shown to implement.                                          *)
(****************************************************************************)
EXTENDS Naturals, Sequences, FiniteSets

CONSTANTS ThreadCount,   \* g_runtime.thread_count
          QueueCapacity, \* kWorkQueueCapacity
          MaxWorkers,    \* kMemorySearchBatchParallelMaxWorkers
          MaxAddWorkers, \* kMemoryAddParallelMaxWorkers
          Callers,       \* API threads that use the memory index
          Counts,        \* records, queries or vectors of one call
          ScratchCount,  \* graph_batch_scratch_count of the index
          MaxRecords,    \* kMemorySearchBatchParallelMaxRecords
          MaxInits,      \* bound: calls of astral_init
          MaxCalls       \* bound: calls of a caller in all

ASSUME ThreadAssumption == ThreadCount \in Nat \ {0}
ASSUME CapacityAssumption == QueueCapacity \in Nat \ {0}
ASSUME FanOutAssumption == {MaxWorkers, MaxAddWorkers} \subseteq Nat \ {0, 1}
ASSUME CountAssumption == Counts \subseteq Nat \ {0}
ASSUME IndexAssumption == {ScratchCount, MaxRecords} \subseteq Nat
ASSUME BoundAssumption == {MaxInits, MaxCalls} \subseteq Nat

Workers == 0 .. ThreadCount - 1
Kinds   == {"record", "batch", "graph", "add"}

VARIABLES
  initialized, \* g_runtime.initialized
  region,      \* whether the runtime holds its memory backing
  work_queues, \* whether the queue array exists
  queue,       \* worker -> its queue
  worker,      \* worker -> where its thread is
  job,         \* worker -> the item it works on
  main,        \* where Main is in astral_init or astral_shutdown
  at,          \* Main's loop index
  inits,       \* calls of astral_init so far
  call,        \* caller -> its call's frame
  claimed      \* graph_batch_scratch_claimed of the index

runtimeVars == <<initialized, region, work_queues, main, at, inits>>
workerVars  == <<queue, worker, job>>
vars == <<runtimeVars, workerVars, call, claimed>>

NullItem == [by |-> "null", id |-> 0, shard |-> 0]   \* WorkItem{nullptr, nullptr}
Items    == [by : Callers, id : 1 .. MaxCalls, shard : Nat]

NoCall == [pc |-> "idle", id |-> 0, kind |-> "record", count |-> 0, shards |-> 0,
           next |-> 0, remaining |-> 0, scratch |-> "none", hits |-> << >>]

Init ==
  /\ initialized = FALSE
  /\ region = FALSE
  /\ work_queues = FALSE
  /\ queue = [w \in Workers |-> << >>]
  /\ worker = [w \in Workers |-> "none"]
  /\ job = [w \in Workers |-> NullItem]
  /\ main = "down"
  /\ at = 0
  /\ inits = 0
  /\ call = [c \in Callers |-> NoCall]
  /\ claimed = FALSE

-----------------------------------------------------------------------------
(* astral_init *)

InitBegin ==
  /\ main = "down"
  /\ inits < MaxInits
  /\ inits' = inits + 1
  /\ initialized' = TRUE
  /\ main' = "memory"
  /\ UNCHANGED <<region, work_queues, at, workerVars, call, claimed>>

\* Reserving and committing virtual memory, or cutting the arena up.  The arena
\* may be held already when a later part of it turns out too small.
InitMemory ==
  /\ main = "memory"
  /\ \/ region' = TRUE /\ main' = "arrays"
     \/ region' \in BOOLEAN /\ main' = "cleanup"
  /\ UNCHANGED <<initialized, work_queues, at, inits, workerVars, call, claimed>>

InitArrays ==
  /\ main = "arrays"
  /\ \/ work_queues' = TRUE /\ main' = "start"
     \/ work_queues' \in BOOLEAN /\ main' = "cleanup"
  /\ queue' = [w \in Workers |-> << >>]
  /\ at' = 0
  /\ UNCHANGED <<initialized, region, inits, worker, job, call, claimed>>

\* thread_start succeeds, and with the last worker astral_init returns.
StartWorker ==
  /\ main = "start"
  /\ worker' = [worker EXCEPT ![at] = "pop"]
  /\ IF at + 1 < ThreadCount
       THEN at' = at + 1 /\ main' = main
       ELSE at' = 0 /\ main' = "up"
  /\ UNCHANGED <<initialized, region, work_queues, inits, queue, job, call, claimed>>

\* thread_start fails: astral_init joins the workers below it, in order.
StartFails ==
  /\ main = "start"
  /\ main' = "unstart"
  /\ UNCHANGED <<initialized, region, work_queues, at, inits, workerVars, call, claimed>>

\* The joined workers were sent no null item.
JoinStarted ==
  /\ main = "unstart"
  /\ \A w \in 0 .. at - 1 : worker[w] = "exited"
  /\ main' = "cleanup"
  /\ UNCHANGED <<initialized, region, work_queues, at, inits, workerVars, call, claimed>>

\* runtime_init_fail_cleanup; workers is nullptr whenever it is called.
InitCleanup ==
  /\ main = "cleanup"
  /\ initialized' = FALSE
  /\ region' = FALSE
  /\ work_queues' = FALSE
  /\ main' = "down"
  /\ at' = 0
  /\ UNCHANGED <<inits, workerVars, call, claimed>>

-----------------------------------------------------------------------------
(* submit_work_affine and worker_loop *)

\* push_wait waits while the queue is full.
HasSpace(w) == Len(queue[w]) < QueueCapacity

Enqueue(w, item) ==
  /\ HasSpace(w)
  /\ queue' = [queue EXCEPT ![w] = Append(@, item)]

\* pop_wait; the null item ends the thread.
Pop(w) ==
  /\ worker[w] = "pop"
  /\ queue[w] # << >>
  /\ job' = [job EXCEPT ![w] = Head(queue[w])]
  /\ queue' = [queue EXCEPT ![w] = Tail(@)]
  /\ worker' = [worker EXCEPT ![w] = IF Head(queue[w]) = NullItem THEN "exited" ELSE "scan"]
  /\ UNCHANGED <<runtimeVars, call, claimed>>

-----------------------------------------------------------------------------
(* A fan-out call: jobs and the counter of remaining shards live in its frame *)

Least(a, b) == IF a <= b THEN a ELSE b

\* The calls go parallel only with at least two workers; the single query with
\* one, since the caller takes the last shard, and only over many records.
GoesParallel(kind, count) == IF kind = "record" THEN count > MaxRecords ELSE ThreadCount > 1

\* Shards given to workers: worker_count, or remote_count for a single query.
Remote(kind, count) ==
  CASE kind = "record" -> Least(ThreadCount, MaxWorkers - 1)
    [] kind = "add" -> Least(Least(ThreadCount, MaxAddWorkers), count)
    [] OTHER -> Least(Least(ThreadCount, MaxWorkers), count)

ShardCount(kind, count) == Remote(kind, count) + (IF kind = "record" THEN 1 ELSE 0)

\* [begin, end) of a shard: equal parts rounded down for the searches, chunks
\* rounded up for add, whose last chunks may be short or empty.
ShardRange(kind, count, shards, i) ==
  LET chunk == (count + shards - 1) \div shards
  IN IF kind = "add" THEN (i * chunk) .. (Least((i + 1) * chunk, count) - 1)
     ELSE ((count * i) \div shards) .. ((count * (i + 1)) \div shards - 1)

\* The frame: shards, the counter, and per record how often it was scanned.
Begin(c, kind, count) ==
  /\ main = "up"
  /\ call[c].pc = "idle"
  /\ call[c].id < MaxCalls
  /\ GoesParallel(kind, count)
  /\ call' = [call EXCEPT ![c] =
       [pc |-> IF kind = "graph" THEN "claim" ELSE "submit", id |-> @.id + 1, kind |-> kind,
        count |-> count, shards |-> ShardCount(kind, count), next |-> 0,
        remaining |-> ShardCount(kind, count), scratch |-> "none",
        hits |-> [p \in 0 .. count - 1 |-> 0]]]
  /\ UNCHANGED <<runtimeVars, workerVars, claimed>>

\* Graph batches use the scratch of the index, one call at a time and if there
\* is enough of it.  Otherwise the call allocates its own, or, when that fails,
\* gives up and searches serially.
ClaimScratch(c) ==
  /\ call[c].pc = "claim"
  /\ claimed' = (claimed \/ ScratchCount >= call[c].shards)
  /\ IF ScratchCount >= call[c].shards /\ ~claimed
       THEN call' = [call EXCEPT ![c].pc = "submit", ![c].scratch = "index"]
       ELSE \/ call' = [call EXCEPT ![c].pc = "submit", ![c].scratch = "own"]
            \/ call' = [call EXCEPT ![c].pc = "idle"]
  /\ UNCHANGED <<runtimeVars, workerVars>>

\* One job to one worker; after the last, the caller's own shard or the wait.
Submit(c) ==
  /\ call[c].pc = "submit"
  /\ Enqueue(call[c].next % ThreadCount, [by |-> c, id |-> call[c].id, shard |-> call[c].next])
  /\ call' = [call EXCEPT ![c].next = @ + 1,
                          ![c].pc = IF call[c].next + 1 < Remote(call[c].kind, call[c].count)
                                      THEN "submit"
                                      ELSE IF call[c].kind = "record" THEN "own" ELSE "wait"]
  /\ UNCHANGED <<runtimeVars, worker, job, claimed>>

\* What a shard writes: its part of the results.
Scanned(c, i) ==
  [p \in DOMAIN call[c].hits |->
     call[c].hits[p] + (IF p \in ShardRange(call[c].kind, call[c].count, call[c].shards, i) THEN 1 ELSE 0)]

OwnShard_Uncounted(c) ==
  /\ call[c].pc = "own"
  /\ call' = [call EXCEPT ![c].hits = Scanned(c, call[c].shards - 1), ![c].pc = "wait"]
  /\ UNCHANGED <<runtimeVars, workerVars, claimed>>

\* The caller's own shard of a single query.
OwnShard(c) ==
  /\ call[c].pc = "own"
  /\ call' = [call EXCEPT ![c].hits = Scanned(c, call[c].shards - 1),
                          ![c].remaining = @ - 1,
                          ![c].pc = "wait"]
  /\ UNCHANGED <<runtimeVars, workerVars, claimed>>

\* The worker scans its shard, then counts it down.
Scan(w) ==
  /\ worker[w] = "scan"
  /\ call' = [call EXCEPT ![job[w].by].hits = Scanned(job[w].by, job[w].shard)]
  /\ worker' = [worker EXCEPT ![w] = "count"]
  /\ UNCHANGED <<runtimeVars, queue, job, claimed>>

Complete(w) ==
  /\ worker[w] = "count"
  /\ call' = [call EXCEPT ![job[w].by].remaining = @ - 1]
  /\ worker' = [worker EXCEPT ![w] = "pop"]
  /\ job' = [job EXCEPT ![w] = NullItem]
  /\ UNCHANGED <<runtimeVars, queue, claimed>>

Return_NoWait(c) ==
  /\ call[c].pc = "wait"
  /\ call' = [call EXCEPT ![c].pc = "idle"]
  /\ claimed' = (claimed /\ call[c].scratch # "index")
  /\ UNCHANGED <<runtimeVars, workerVars>>

\* The caller spins until every shard is counted, then leaves its frame.
Return(c) ==
  /\ call[c].pc = "wait"
  /\ call[c].remaining = 0
  /\ call' = [call EXCEPT ![c].pc = "idle"]
  /\ claimed' = (claimed /\ call[c].scratch # "index")
  /\ UNCHANGED <<runtimeVars, workerVars>>

-----------------------------------------------------------------------------
(* astral_shutdown *)

ShutdownBegin ==
  /\ main = "up"
  /\ \A c \in Callers : call[c].pc = "idle"
  /\ main' = "sentinel"
  /\ at' = 0
  /\ UNCHANGED <<initialized, region, work_queues, inits, workerVars, call, claimed>>

SendNull_First ==
  /\ main = "sentinel"
  /\ Enqueue(at, NullItem)
  /\ at' = 0 /\ main' = "join"
  /\ UNCHANGED <<initialized, region, work_queues, inits, worker, job, call, claimed>>

SendNull ==
  /\ main = "sentinel"
  /\ Enqueue(at, NullItem)
  /\ IF at + 1 < ThreadCount
       THEN at' = at + 1 /\ main' = main
       ELSE at' = 0 /\ main' = "join"
  /\ UNCHANGED <<initialized, region, work_queues, inits, worker, job, call, claimed>>

JoinWorker_First ==
  /\ main = "join"
  /\ worker[at] = "exited"
  /\ worker' = [worker EXCEPT ![at] = "none"]
  /\ at' = 0 /\ main' = "release"
  /\ UNCHANGED <<initialized, region, work_queues, inits, queue, job, call, claimed>>

JoinWorker ==
  /\ main = "join"
  /\ worker[at] = "exited"
  /\ worker' = [worker EXCEPT ![at] = "none"]
  /\ IF at + 1 < ThreadCount
       THEN at' = at + 1 /\ main' = main
       ELSE at' = 0 /\ main' = "release"
  /\ UNCHANGED <<initialized, region, work_queues, inits, queue, job, call, claimed>>

Release ==
  /\ main = "release"
  /\ region' = FALSE
  /\ work_queues' = FALSE
  /\ initialized' = FALSE
  /\ main' = "down"
  /\ UNCHANGED <<at, inits, workerVars, call, claimed>>

-----------------------------------------------------------------------------
MainCalls == InitBegin \/ ShutdownBegin

MainRuns ==
  \/ InitMemory \/ InitArrays \/ StartWorker \/ StartFails \/ JoinStarted \/ InitCleanup
  \/ SendNull \/ JoinWorker \/ Release

WorkerStep(w) == Pop(w) \/ Scan(w) \/ Complete(w)

CallStep(c) == ClaimScratch(c) \/ Submit(c) \/ OwnShard(c) \/ Return(c)

Next ==
  \/ MainCalls
  \/ MainRuns
  \/ \E w \in Workers : WorkerStep(w)
  \/ \E c \in Callers : CallStep(c)
  \/ \E c \in Callers, kind \in Kinds, count \in Counts : Begin(c, kind, count)

Spec == Init /\ [][Next]_vars

\* Every thread runs, also Main inside astral_init and astral_shutdown; nobody is
\* obliged to call them.  push_wait takes its ticket at once, so a caller cannot
\* be overtaken for ever at a queue.
Fairness ==
  /\ WF_vars(MainRuns)
  /\ \A w \in Workers : WF_vars(WorkerStep(w))
  /\ \A c \in Callers : WF_vars(CallStep(c)) /\ SF_vars(Submit(c))

FairSpec == Spec /\ Fairness

-----------------------------------------------------------------------------
(* Properties *)

\* Types, and no queue beyond its capacity.
TypeOK ==
  /\ {initialized, region, work_queues, claimed} \subseteq BOOLEAN
  /\ queue \in [Workers -> Seq(Items \cup {NullItem})]
  /\ \A w \in Workers : Len(queue[w]) <= QueueCapacity
  /\ worker \in [Workers -> {"none", "pop", "scan", "count", "exited"}]
  /\ job \in [Workers -> Items \cup {NullItem}]
  /\ main \in {"down", "memory", "arrays", "start", "unstart", "cleanup", "up",
               "sentinel", "join", "release"}
  /\ at \in Workers
  /\ inits \in 0 .. MaxInits
  /\ \A c \in Callers :
       /\ call[c].pc \in {"idle", "claim", "submit", "own", "wait"}
       /\ call[c].id \in 0 .. MaxCalls
       /\ call[c].kind \in Kinds
       /\ call[c].scratch \in {"none", "index", "own"}
       /\ call[c].remaining \in 0 .. call[c].shards
       /\ call[c].next \in 0 .. call[c].shards

\* A worker thread that exists finds its queue and the runtime's memory: they
\* go, in astral_shutdown and in a failed astral_init, after it was joined.
WorkersOutlived ==
  \A w \in Workers : worker[w] \in {"pop", "scan", "count"} =>
    work_queues /\ region /\ initialized

\* The jobs and the counter are on the caller's stack: no item in a queue or in
\* the hands of a worker belongs to a call that has returned.
FrameOutlivesItems ==
  LET live(item) == item = NullItem \/
                    (call[item.by].id = item.id /\ call[item.by].pc # "idle")
  IN \A w \in Workers : live(job[w]) /\ \A i \in DOMAIN queue[w] : live(queue[w][i])

\* A call returns with every record, query or vector handled exactly once:
\* the shards partition the range, whatever the number of workers.
ScannedOnce ==
  \A c \in Callers : call[c].pc = "wait" /\ call[c].remaining = 0 =>
    \A p \in DOMAIN call[c].hits : call[c].hits[p] = 1

\* Two workers never search with the same scratch of the index.
ScratchExclusive ==
  LET uses(w) == /\ worker[w] \in {"scan", "count"}
                 /\ call[job[w].by].kind = "graph" /\ call[job[w].by].scratch = "index"
  IN \A v, w \in Workers : v # w /\ uses(v) /\ uses(w) => job[v].by = job[w].by

\* The shards of a fan-out call partition its range and touch neither a frame
\* that is gone nor a scratch that is taken.
FanOutSound == TypeOK /\ FrameOutlivesItems /\ ScannedOnce /\ ScratchExclusive

\* A fan-out call returns: no queue order and no full queue keeps it waiting.
CallReturns == \A c \in Callers : call[c].pc # "idle" ~> call[c].pc = "idle"

\* astral_shutdown returns, with every worker joined.
ShutdownReturns == main = "sentinel" ~> main = "down"

\* astral_rt.h: "@return ASTRAL_OK on success; ASTRAL_E_INVALID if cfg is NULL;
\* error code on failure".  astral_init returns.
InitReturns == main = "memory" ~> main \in {"up", "down"}

=============================================================================
