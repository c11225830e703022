# A TLA+ verification of the Astral runtime

Astral is an in-process inference runtime with a C ABI: an application loads a
model, opens sessions or batched conversations on it, feeds prompts, and reads
tokens from a stream while worker threads decode. The interesting part of the
code is not the arithmetic but the hand-overs: between the threads that call the
API, the worker threads, each model's executor thread and the stream readers,
nearly all of them without locks. This directory models those hand-overs,
checks them with TLC and proves the central safety properties with TLAPS.
Paths below are relative to the repository.

## 1. The system

| Component | State | Operations | Talks to |
|---|---|---|---|
| Worker queue ring, `src/concurrency/mpsc_ticket_ring.hpp` | two cursors, slots with a sequence number and plain data | `push_wait`, `push_batch_wait`, `pop`, `pop_wait`, `reset` | API threads push, one worker pops |
| Stream ring and fan-in, `src/concurrency/spsc_ring.hpp`, `spsc_fan_in.hpp` | head, tail, cached copies of both, turn | `push`, `pop`, batches, `reset`, fan-in `pop` | decode thread pushes, reader pops |
| MPMC queue, MPSC ring, `mpmc_queue.hpp`, `mpsc_ring.hpp` | cursors, cells with a sequence number | `enqueue`, `dequeue`, `try_push`, `pop` | library code and tests |
| Epoch manager, `src/concurrency/epoch.hpp` | global epoch, participants, retirement queues, safe frontier | `register_thread`, `enter`, `leave`, `defer_delete`, `collect` | the slot table of the executor |
| Worker pool, `src/core/init.cpp` | `initialized`, memory backing, queues, threads | `astral_init`, `submit_work_affine`, `worker_loop`, `astral_shutdown` | everything that submits work |
| Runtime heap, session blocks, `src/core/init.cpp`, `frame_allocator.hpp` | size classes, thread caches, block list, bump offsets | allocate, free, acquire, release, reset | every component |
| Handle table, `src/core/handles.hpp` | entries with kind, pointer and generation | register, lookup, unregister | the C ABI |
| Models, `src/inference/model.cpp` | reference count, provider context, executor | load, retain, release | sessions, conversations |
| Objects of the C ABI, `src/inference/api.cpp` | references between objects, handles | create, destroy, attach, detach; every family of calls | handle table, all objects |
| Conversations and slot table, `src/inference/conversation_runtime.cpp`, `executor.cpp` | slots, slot lock, storage, retirement marker | `conv_create`, `conv_destroy`, snapshot, collect | epoch manager, model, executor |
| Batching executor, `src/inference/executor.cpp` | per slot: prompt cursor, positions, hold, staged token, state | one tick: flush, reset, media, decode, prompt, evaluate, sample | conversation API, provider, stream ring |
| Sessions, `src/inference/session.cpp` | state, cancel flag, prompt, ring, provider context | feed, decode, cancel, reset, destroy, `stream_read`, `decode_loop` | worker queue, provider |
| Requests, `src/inference/api.cpp` | a handle on a session, conversation, agent or cursor | state, wait with a timeout, cancel | the object they name |
| Prompt cache, `src/inference/api.cpp` | hash table, FIFO list, token arena | get, put, clear, save, load | agents, the caller |
| Memory index, `src/inference/memory_index*.cpp` | slots, key table, dense list, graph, saved files | add, update, remove, search, batch search, save, load, map | worker pool |
| Agents, `src/inference/agent.cpp` | texts, history, chat, slot, place in the model's list | add message, chat, read, truncate, save, load, destroy | conversations, prompt cache |
| Embedder, `src/inference/embedder.cpp` | free mask, slots, tickets, history of tickets given up | enqueue, collect, cancel, state | provider |
| Chunking, UTF-8, tool calls, `chunking.cpp`, `utf8.cpp`, `tooling.cpp` | per call | chunk ranges, validate, parse | pure |
| Sampler, adapters, providers, platform, engine plugins | small local state or tables of functions | | sessions, executor |

Behaviours that are hard to get right, and hard to test:

* plain memory ordered only by sequence numbers or epochs (rings, epoch manager);
* a snapshot that outlives the lock under which it was taken (slot table);
* one tick that loads a conversation's state at five places while the API
  changes it (executor);
* backpressure: a full stream ring stops a slot, or parks a worker with other
  sessions queued behind it;
* cancellation and destruction racing completion;
* an end of stream seen between the last token and the final state;
* failures half way: a creation that fails after it was published, a worker that
  cannot be started, a provider error in the middle of a batch;
* calls that keep their jobs and counters on their own stack while workers use them.

What makes each component correct, and the property that says so:

* ticket ring: exclusive plain accesses, FIFO delivery, pushes that return
  (`RingSound`, `ImplementsFifo`, `PushReturns`, `EveryItemDelivered`);
* stream ring, MPMC and MPSC rings: everything delivered once and in order, no lane
  starved, no push refused while there is room (`FanInFaithful`, `RingsFaithful`);
* epochs: nothing deleted while readable, nothing lost or deleted twice
  (`NoUseAfterReclaim`, `FrontierBehindReaders`, `RetiredExactlyOnce`);
* handle table: a lookup returns the object of that handle or nothing, whatever it
  races with (`HandlesSound`);
* objects: references balance and an accepted call reaches live storage (`GraphSound`);
* heap: what is handed out is disjoint, aligned and of this initialisation (`HeapSound`);
* slot table and model: storage and provider outlive their users, destruction
  ends (`LifetimesSound`, `DestroyReturns`, `ModelUnloaded`);
* executor: the reader gets exactly the sampled tokens, the provider's context is
  exactly prompt and output of this run, every run ends (`StreamSound`, `EndOfStream`,
  `ContextFaithful`, `DecodeEnds`, `CancelEnds`);
* sessions: the same, and every run is in exactly one pair of hands (`SessionSound`);
* requests: a wait reports an end that happened while it waited, and returns
  (`WaitVerdict`, `WaitReturns`);
* worker pool: memory and queues outlive the workers, frames outlive the jobs in
  them, shards cover the work once (`WorkersOutlived`, `FanOutSound`,
  `CallReturns`, `ShutdownReturns`);
* prompt cache: a FIFO cache whose entries keep their tokens (`CacheWhole`, `IsFifoCache`);
* agents: a chat's result and unread output survive the loss of its slot, and the
  model is fed the prompt that texts and messages call for (`ChatKept`, `PromptFaithful`);
* memory index: table, dense list and every search path answer as the stored records
  do; graph searches return the best of what their lists lead to, and a snapshot what
  the live index does for the kinds that score alike; files are read as they were written
  (`IndexFaithful`, `GraphRoutes`, `SnapshotSound`);
* embedder: a slot belongs to one ticket, which keeps its own input and result, and a state
  query tells what became of its ticket (`EmbedFaithful`);
* chunking and tool calls: `ChunkerFaithful`, `ToolCallsFaithful`.

## 2. The modules

`X.tla` is a specification, `X_proofs.tla` holds its theorems, `MCX.tla` gives it
constants that a `.cfg` cannot spell.

### Concurrency

**FifoChannel** is the abstract promise of a queue: a sequence accepted, a prefix
of it delivered, and a clear.

**TicketRing** models `MpscTicketRing`. Every atomic access and every plain access
to `slot.data` is a step. A producer goes wait, write, publish for each ticket of
its batch, after one `fetch_add` (`Reserve`); the consumer goes poll, read,
release, advance. `ResetRing` needs all threads at rest, as the code demands.
`ImplementsFifo` maps the order of tickets to *accepted* and the results of `pop`
to *delivered*.

**FanIn** models `SpscRing` with the cached copy each side keeps of the other's
counter (`push_batch` and `pop_batch`; one item is a batch of one), and `SpscFanIn`,
which polls its lanes in turn. `reset` needs both sides at rest.

**SeqRings** models `MpmcQueue` (both ends take a ticket with `fetch_add`, then wait for
their cell) and `MpscRing` (producers claim a position by compare-and-swap and may
find the ring full). `kind` picks one of the two.

**EpochReclamation** models `EpochManager`: `enter` is load, store, check (and retry);
`defer_delete` is stamp and publish; `collect` is, per participant, a head load,
removals and deleter calls, then the epoch increment, the scan of participants
one by one, and the commit of the new frontier. The accesses are `seq_cst` in the
code, so steps in one total order are what the code can do. Objects and the
references of open critical sections are added as the thing being protected. The
unsigned subtraction at epoch 0 (the scan gives up) is kept.

**HandleTable** models the handle table: a lookup takes no lock and reads pointer, kind
and generation of an entry one after the other, while registration and removal run
under `BackoffSpinLock`. Generations have `GenBits` bits, so that they wrap.

### Core

**WorkerPool** models `astral_init` with each failure it handles, `worker_loop`,
`astral_shutdown`, and the memory-index calls that fan out over the workers:
single query (the caller scans the last shard), batches, graph batches (with the
index's scratch claimed by one call at a time), and add preprocessing. A queue is
a bounded FIFO (TicketRing). Init and shutdown overlap no other call, which
`include/astral_rt.h` demands; under this rule a submission is never refused.

**RuntimeHeap** models the arena heap (size classes, grown by a few blocks at a time,
and thread caches that refill and flush), the pool of session blocks, the worker
scratch and the session frames. Addresses are numbers; sizes are scaled down by the
constants. A block carries no header: the request its owner gives back must lead to
the class it came from.

**ObjectGraph** models the objects behind the handles, the references between them
(counted, or merely held) and, for each family of `astral_*` calls, which handles it
accepts and which storage it then dereferences. A call is one step.

### Inference

**ConvSlots** models creation and destruction of conversations around the
executor's slot table, the executor's collect/snapshot/scan loop, and model
references. Threads are named after the conversations they own. Its epoch
manager has one reader that is also the collector, so an epoch is kept as its
age up to the grace period; EpochReclamation covers the general case. Every
failure of `conv_create_affine` is an alternative of its step.

**BatchExecutor** models one executor thread tick by tick: a visit of one slot in
one phase is one step, because each visit loads the state once (the bookkeeping after
an evaluation, `Tally`, is one step per token of the batch); the API calls
`conv_feed`, `conv_decode`, `conv_cancel` (a load and a store), `conv_reset` and
`conv_stream_read` (drain, look at the state, drain again) fall between visits.
Tokens are ordinals, so equality of sequences says what is delivered; a wide token
takes two ring entries (the spill of `pending_emit`). The hold of a stop sequence,
the staged token, completion under backpressure, partial emission before a
detokenizer error, and failed evaluations that fail every slot are kept.
A reader with a buffer smaller than an entry is in SessionDecode only.

**SessionDecode** models the sessions of one worker, its queue, `decode_loop` with
its waits on a full ring, the control thread (feed, decode, reset, destroy),
cancellation from any thread, and `stream_read` with a small buffer (`rest`).

**Requests** models `astral_request_wait` and what it calls, `session_wait` and `conv_wait`:
a load of the state, a second load of the error, the deadline, a last look at the
status; beside it the owner feeds, decodes, cancels and resets and the worker stores
error and state in two steps. Agent chats and search cursors are polled.

**AgentSlots** models the executor slots that agents share: an enqueue that finds no free
slot takes that of another agent whose chat is over and read, by a rotating cursor
in the model's list, and keeps the result of the chat that lost it. The steps of an
enqueue are separate, streaming and the ends of chats fall in between.

**AgentHistory** models what an agent says to the model: three texts, messages as records
in one byte arena, truncation of the oldest, the kept prefix, a prompt fed through a
prompt cache that may have lost anything, and the three versions of the saved form.

**FifoCache** is the abstract promise of a prompt cache: entries in the order of their last
put, a put that may cost the oldest others, a saved form that keeps a youngest part.

**PromptCache** implements it (`IsFifoCache`): the probing table, removal by
re-inserting the rest of a chain, the list threaded through entries that move, and
the token arena written as a ring, compacted or marked fragmented.

**Embedder** models tickets made of a counter and a slot, the free mask, enqueue (ticket,
then state), collect, cancel and the collect into too little room, the resets at the end of
a request one by one (copies or history, ticket, state, mask bit), the short history of the
tickets given up, with their errors, and the state query in its two steps: the look at the
slot's ticket, and later the look at its state or at the history.

**Chunker** models the six chunk modes with overlap, one step per chunk, and the scalar
and vectorised UTF-8 checks. A byte is its class. **ToolCalls** models the search for a
tool call in a text of JSON pieces.

### Memory index

**MemoryIndex** models records, the dense list with its identity flag, the key table with
tombstones, batches that are staged and rolled back, and every path of a search
(scalar, packed, by group, parallel shards with their merge) as operators compared
with the definition of the answer in every state.

**MemoryGraph** models the layered neighbour lists, insertion, update, renaming and
removal, the best-first search with its two heaps and visit generations, and the search
of the saved form, whose nodes are positions instead of slots; a file saved for another
topology is built anew when it is loaded. Heaps and walk are written once, for both
forms. Scoring is not: a graph has a storage kind, and the live index and the snapshot
each have the code's own choice of what a walk and a result are scored with
(`RouteScores`, `SlotScores`; `SnapshotRoute`, `SnapshotScores`), of the shortlist that is
rescored (`Shortlist`), and of the unvisited neighbours that a plain compact index adds
when it is live only (`Nearby`). `ResultsSound` says what that leaves of equality: the
same results for `f32`, and for Q8 and E3M2 (`q8r`) and E5M2 (`e5m2r`) that rerank; live
results that are place by place no worse for the plain F6 and F8 kinds; for plain Q8 and
reranked E2M3 the two walk by different scores, so each is only compared with its own
definition. Small compact indexes are searched flat (`FlatPreferred`), which MemoryIndex has.

**SnapshotFile** models saved indexes as bytes: what `memory_save` writes where, what each
reader computes from the header for each version, truncated files, alignment of
what the kernels read, and what a view owns.

### How they compose

TicketRing implements FifoChannel, and SessionDecode and WorkerPool use a FIFO for
the queue; FanIn justifies the bounded FIFO that the token rings are in BatchExecutor
and SessionDecode; EpochReclamation justifies the retirement rule that ConvSlots uses;
ConvSlots justifies that BatchExecutor's slots do not change under a tick;
SessionDecode justifies that the items of a worker end; HandleTable justifies that
ObjectGraph decides a call by its handle alone; PromptCache implements FifoCache, of
which AgentHistory asks no more than that an entry found is the entry put.

Components that share no variable are checked side by side in one run: **MCStreams**
(BatchExecutor with one slot, Requests, TicketRing), **MCLifetimes** (ConvSlots,
ObjectGraph), **MCRuntime** (WorkerPool, HandleTable, FanIn, SeqRings, RuntimeHeap)
and **MCInference**
(BatchExecutor with two slots and every other module of inference and memory index).
The variable `part`, picked in the first state, says which component moves; the
others stay at their initial states. Their product would multiply the states and show
nothing that is not a property of one of them.

`PROJECT.json` maps each definition to the lines it models. Definitions named
`X_Something` before an `X` are faulty variants of `X` used to show that the
properties can fail; no specification uses them.

## 3. The runs

| Run | Checks | Instance |
|---|---|---|
| `EpochReclamation` | `TypeOK NoUseAfterReclaim FrontierBehindReaders RetiredExactlyOnce` | 2 participants, 2 objects, queues of 1, 3 grace epochs, 5 epochs |
| `Lifetimes`: slots | `LifetimesSound DestroyReturns ModelUnloaded` | 2 conversations, 2 slots, retirement queue of 1 |
| `Lifetimes`: objects | `GraphSound` | one object of each of 8 kinds, 2 adapters a session |
| `SessionDecode` | `SessionSound DecodeEnds DestroyReturns` | 2 sessions, one abandoned by its reader, 2 tokens, ring of 1, failures |
| `Streams`: stream | `StreamSound EndOfStream DecodeEnds CancelEnds` | 1 slot, prompts of up to 2 chunks (media or 3 tokens), 5 tokens, stop sequences of up to 2, ring of 1, provider failures |
| `Streams`: request | `WaitVerdict WaitReturns` | one waiter, 4 kinds of request, 2 error codes, 2 runs |
| `Streams`: ring | `RingSound ImplementsFifo PushReturns EveryItemDelivered` | 2 producers, ring of 2, batches of 1 and 3, 6 tickets between resets |
| `Runtime`: workers | `WorkersOutlived FanOutSound CallReturns ShutdownReturns` | 2 workers, queues of 1, 2 callers, 2 calls, 2 inits |
| `Runtime`: handles | `HandlesSound` | 2 threads, 2 entries, 2 kinds, generations of 2 bits, 3 objects |
| `Runtime`: fan-in | `FanInFaithful` | 2 lanes of 2 entries, batches of 1 and 3, 5 pushes, 1 reset |
| `Runtime`: rings | `RingsFaithful` | 2 producers of 2 items, 2 consumers, 2 cells |
| `Runtime`: heap | `HeapSound` | 2 threads, 2 live blocks, 2 session blocks, 2 initialisations, a reserved and an arena backing |
| `Inference`: executor | `ContextFaithful` | 2 slots, batch of 2, prompts of up to 2 chunks |
| `Inference`: agents | `ChatKept` | 3 agents of one control thread, 1 shared slot, one agent bound to it |
| `Inference`: history | `PromptFaithful` | 2 messages of 1 or 2 bytes, a limit that not every prompt fits, 1 cached entry, a recall from an index |
| `Inference`: prompt cache | `CacheWhole IsFifoCache` | 3 keys of which 2 collide, 3 entries, 4 tokens, 5 puts |
| `Inference`: index | `IndexFaithful` | 4 keys of which 3 collide at the end of the table, 3 records, 2 groups, a query that the 3 metrics rank differently |
| `Inference`: graph | `GraphRoutes` | 3 nodes, 3 levels, lists of 1 (2 on level 0), generations of 2 bits, 6 groups of storage kinds, numbers quantised to even ones, shortlists of 2, a flat search for 1 record, renaming to the key of the top level |
| `Inference`: snapshot | `SnapshotSound` | all storage kinds, file versions 5 to 9, cuts, shifted bases |
| `Inference`: embedder | `EmbedFaithful` | 2 callers, 2 slots, history of 2, 2 tickets and one more by a call that has begun |
| `Inference`: chunker | `ChunkerFaithful` | texts of up to 3 bytes of 5 classes, up to 7 tokens, all modes, overlap for characters, words and tokens (for sentences: `ChunkerReturns`) |
| `Inference`: tool calls | `ToolCallsFaithful` | texts of up to 3 pieces, and of 7 between braces |
| `ConvSlotsHandleTable` | `SnapshotStorageLive`, violated | as `Lifetimes`: slots |
| `BatchLateDecode` | `ResetBeforeAdvance`, violated | 2 slots, late `conv_decode` allowed |
| `SessionEndOfStream` | `EndOfStream`, violated | 1 session |
| `WorkerPoolInit` | `InitReturns`, violated | 3 workers |
| `PromptCacheEntries` | `EntriesIntact`, violated | as the prompt cache above, with puts of no tokens |
| `ChunkerReturns` | `ChunkReturns`, violated | sentences of two, overlap of one |

Why the bounds are enough to be interesting. The ticket ring is lapped three times and
a batch is longer than the ring, so a producer waits for slots its own earlier items
occupy. Five epochs are more than a grace period of three, so entries are both
kept and drained in every order, with a queue that is full at one entry. The
retirement queue of one entry makes one destroying conversation wait for the
other. A prompt chunk of three tokens does not fit a batch of two, so prompts are
cut; five tokens with a stop sequence of two and spilled tokens of two fragments
against a ring of one entry reach every state of hold, staging and completion.
Two sessions make one wait behind the other. With two workers the clamp of the
fan-out bites (`MaxWorkers = 2`), and counts of 2 and 5 give short shards. Three
objects share two handle entries, so that entries are reused under a lookup; a
generation does not come back to an earlier value within them, as with 32 bits it
does not for four billion objects on one entry. The arena of the heap
holds fewer blocks than the threads ask for, and two initialisations leave a thread
cache behind. In the tables all chains pass the end of the table; three entries
with four tokens wrap, fragment and evict in every order. A candidate heap of the graph is
never full in a search of three nodes; `HeapKeepsBest`, a part of `GraphRoutes`, fills one
in every order instead. The query of the graph is an odd number, so that a quantised
query ranks the nodes differently. Three agents on one slot
pass it on while results are still unread.
`CHECK_DEADLOCK FALSE` stands in the configurations of WorkerPool, the prompt cache and
the chunker and of the two runs that contain them or other bounded work, `Runtime` and
`Inference`: after the bounded number of calls the application may stay silent. In
`Lifetimes` a caller may leave the objects alone by a step of its own, so that a stop of
the conversations is still found.

Symmetry is used for the objects of EpochReclamation, in a run without liveness.

### What the violations show

* **ConvSlotsHandleTable.** `conv_create_affine` publishes the conversation in a slot,
  then registers the handle; if the table is full it empties the slot and releases
  the storage at once. The executor may hold it in a snapshot.
  `docs/architecture/CONCURRENCY_MODEL.md:45` promises retirement before release,
  which `conv_destroy` keeps (`DestroyedAfterSnapshot`, a part of `LifetimesSound`).
* **BatchLateDecode.** A `conv_decode` that lands after the tick's reset visit and
  before its batch has tokens evaluated on the slot's old context, and those prompt
  tokens are not fed again after the reset. `executor.cpp:681` says resets are
  applied first. The other batching runs set `LateDecode = FALSE`: they show what
  holds when a decode is first seen by the reset visit, and the window itself is
  this run's subject.
* **SessionEndOfStream.** `stream_read` looks at the ring, then at the state, and not
  at the ring again; a last token and a completion in between are reported as the
  end with a token still buffered (`astral_rt.h:2079` rules that out).
  `conv_stream_read` drains a second time, and `EndOfStream` holds in `Streams`.
* **WorkerPoolInit.** If a worker other than the first cannot be started, `astral_init`
  joins the others without sending them the null item that ends `worker_loop`, and
  never returns its error code.
* **PromptCacheEntries.** A put without tokens is accepted. `prompt_cache_reserve_tokens`
  asks `prompt_cache_head_token_overlap` (`api.cpp:812`) about the oldest entry only,
  and a range without tokens does not stop a put that wraps around: it is
  copied over the tokens of the live entries behind the empty one, and later lookups
  return them. `docs/api/PROMPT_CACHE.md:42` promises that entries stay valid. The
  `Inference` run has no empty puts and checks the same property there.
* **ChunkerReturns.** With overlap, a chunk that finds no further unit but blanks behind it
  leaves the scan where its own first unit begins (`chunking.cpp:321`, `339`): "A. B. "
  in sentences of two with overlap one is emitted for ever, and `astral_chunk_count`
  does not return, although `docs/api/CHUNKING.md:44` has it count. The invariants of
  `ChunkerFaithful` are about the texts that end and about every prefix of the others.

Outside the runs' bounds: with two control threads, `ConvKept` (a part of `ChatKept`)
fails in AgentSlots. The reclaiming agent checks the owner's chat (`agent.cpp:1040`) and
releases its conversation (1052) while the owner's thread may be inside its own
enqueue. `docs/api/AGENT_RUNTIME.md:50-53` and `109-117` leave open whether agents of one
model may be driven by several threads, so it is not listed as a divergence; the run
drives all agents from one thread.

### Fairness

* TicketRing: producers inside a push and the consumer keep taking steps. The
  consumer is `worker_loop`, which pops for ever.
* ConvSlots: threads inside an API call and the executor take steps; the slot lock
  is given strong fairness: `BackoffSpinLock` is not a fair lock, but its holders
  release it after a bounded section and waiters keep probing, so being passed over
  for ever is left to the scheduler. An application destroys what it created.
* BatchExecutor: the executor runs while it has work, and a `conv_cancel` that has
  begun ends. The reader is fair only as an assumption inside `DecodeEnds`, and
  `CancelEnds` does without it. `DecodeEnds` is checked with a batch that has room
  for every slot. If `max_batch_tokens` is smaller than the number of slots, decode
  tokens are collected first and a prompt may wait as long as the others have
  tokens pending; nothing in the code bounds that wait.
* SessionDecode: the worker runs, a call that has begun ends, and a stream is either
  read or, if abandoned, canceled in the end; otherwise the worker stays parked on
  the full ring, as the code intends.
* Requests: a thread inside a wait runs, and its deadline passes in the end. Nothing is
  asked of the owner or the worker: `WaitReturns` holds by the deadline alone.
* WorkerPool: every thread inside a call runs; a push gets its turn (tickets are
  handed out in order). Nobody is obliged to call init or shutdown.
* Chunker: the loop runs.
* A run of several parts conjoins the fairness of its parts; the actions of a part that
  was not picked are never enabled, so its fairness asks for nothing.

## 4. The proofs

`EpochReclamation_proofs` proves, for every number of participants, set of objects,
queue length, grace period and epoch bound:

* `TypeCorrect`: `Spec => []TypeOK`;
* `FrontierCorrect`: `Spec => []FrontierBehindReaders`;
* `ReclamationSafe`: `Spec => []NoUseAfterReclaim`.

`NoUseAfterReclaim` is not inductive. The invariant proved is `TypeInv`, `FrontierInv`
and `ObjectInv` together. `FrontierInv` adds to `FrontierBehindReaders` that no
frontier, committed or being computed, reaches the current global epoch
(`BehindGlobal`) and what a thread inside `enter` has announced (`EnterInv`). That is
why the second load of the global epoch closes the race with the collector: a
reader that gets in has announced the current epoch, and every frontier lies
strictly before that one. `ObjectInv` says that a linked object is on nobody's way to
its deleter, and that an object some open critical section has loaded is neither
deleted nor with the collector, and if it is being retired or queued, then with a
stamp no earlier than that reader's epoch. Entries are drained only up to the
frontier, hence never one that a reader may hold. The grace period matters only for
progress: the proof needs no more than its being positive. The assumptions on the
constants are the named `ASSUME`s of the module.

`RetirementExact`, in the same module, proves `Spec => []RetiredExactlyOnce`. Its
invariant says of each place that can hold an object (a caller's stamp, a queue entry,
the collector's hand) that it is the only one, entry by entry of a queue, and that the
state of the object is *unlinked* there. The removal of an entry by the collector and a
publication into the same queue are the steps that need it: both move entries whose
neighbours are somebody else's.

`WorkerPool_proofs` proves `PoolSafe`, `Spec => []WorkersOutlived`, for any number of
workers and callers. The invariant adds where Main is while workers exist, that the
memory, queues and flag are set up there, and that Main's loop index separates
running workers from those not yet started (while starting, also after a failed
start) or already joined (while shutting down): this is what makes the release
after the last join safe.

In the same module `FanOutCorrect` proves `Spec => []FanOutSound` over the invariant of
`PoolSafe`. A call has at most as many remote shards as there are workers, so shard *s*
is only ever with worker *s*, once: still to be submitted, in that worker's queue or in
its hands. `remaining` is the number of those shards, so at zero no item points into
the frame any more. That the shards cover the range once (equal parts for a search,
rounded-up parts for a batch) is arithmetic with a product and a quotient, in lemmas of
its own.

`TicketRing_proofs` proves, for any producers, any batch sizes and any capacity of at
least 2 (`RingParameters`; the `static_assert` of `mpsc_ticket_ring.hpp:24`):

* `RingSafe`: `Spec => []RingSound`;
* `RingIsFifo`: `Spec => ImplementsFifo`, the refinement of FifoChannel, step by step:
  `Reserve` is the accept of its tickets, `PopAdvance` the deliver, `ResetRing` the clear and every
  other step a stutter.

The slots always hold the `Capacity` tickets from the consumer's on, one ticket a slot
(`Window`). The sequence number of a slot says whether its ticket is done (`SeqInv`), a
ticket ahead of the window never is (`AheadInv`), and ranges of tickets inside `push`
are disjoint (`HoldersInv`). Two tickets less than a lap apart have different slots,
which is where the capacity enters; with one slot *published* and *free for the next lap*
would be the same number.

`Rings_proofs` proves `FanInSafe`, `FISpec => []FanInFaithful`, for at least one lane, at
least one slot a lane and batches of at least one (`FanInParameters`). The cached counters
are behind the real ones, so the cells a producer writes are free and those the consumer
reads are written (`Sound`). For the turns, `TurnInv` adds up the pops that passed a
lane over and the distance from the next poll to it: never more than the number of lanes.

In the same module `RingsSafe` proves `SRSpec => []RingsFaithful` for MpmcQueue and
MpscRing: any dequeuing threads, any finite set of enqueuing ones, any capacity of at
least 2 (`SeqRingParameters`; the `static_assert`s of `mpmc_queue.hpp:25` and
`mpsc_ring.hpp:29`). `InFlight` relates a position to the item that was claimed with it and
that nobody has read: while its producer fills or publishes the slot, then in the slot.
Every step leaves this relation alone, adds the newest position or removes one that is
read, so the order per producer and *taken once* follow from the order of the claims
(`FlightInv`, `TakenInv`). That a slot answers for one position at a time is `SeqInv`: the
positions of a slot are a lap apart, so the number *published* of one is neither *free* nor
*published* of another; with a single slot it would be. For an MpscRing it also says
that every position before the consumer's is given back, hence that a slot found behind
means a full ring.

The third part of the module is `EmbedCorrect`, `EMSpec => []EmbedFaithful`, for any callers
and any number of slots, tickets and entries of the history. `EmbedInv` says of a slot
that it is in the mask, or that one call is inside it, or that it holds a ticket some caller
has not collected; of a call that it is inside a slot only after the `fetch_and` that found
the bit set, so no two are inside one (`UsersApart`); and of an open ticket that its slot
holds it with the input it was made for. A ticket and its input are new because the counter
is, hence no slot holds a returned ticket of the past and no two slots hold copies of one
input (`InputsApart`). Only the owner of a ticket runs, collects or cancels it
(`MineApart`), which is what the model assumes of the callers. For the state query,
`QueryInv` says that the first look finds the ticket in its slot exactly when it is open,
and that a ticket that was over stays over; `IssuedInv` that a ticket leaves its slot only
when it was collected or is on record; and `HistoryInv` that the ring of the history holds
exactly the last tickets given up, the nth in the entry `EntryAt(n)`. Whenever the second
look comes, an open ticket is then queued or running, and one that was over at the first
look is answered as it ended. Of a ticket that ends between the two looks nothing follows
but that it was open at the first (section 5).

`Objects_proofs` proves `HandlesSafe`, `HTSpec => []HandlesSound`, for any number of
threads and any table size. `HandleParameters` assumes that fewer objects are registered
than a generation can count: when a generation comes round, a lookup that slept for a
whole round could take an old handle for a new one, in the code after 2^32 - 1
claims of one entry. The generation of an entry is the number of its claims, so a
handle that is out names a generation the entry has or had, never one it will have; a
lookup that finds its generation after it loaded the pointer has seen one claim only.

In the same module `VerdictTrue` proves `RQSpec => []WaitVerdict` for any error codes and any
number of runs: what the object shows while a wait is under way is among the ends it
has shown since, also between the load of the state and that of the error.

Its third part is `ChatCorrect`, `OneControlThread => (ASSpec => []ChatKept)`, for any number of
agents and slots, any affinities, token limit and capture capacity; the executor streams
and ends chats between any two steps of an enqueue. `ChatKept` is not inductive.
`EnqueueInv` adds what an enqueue relies on at each of its steps: its agent is in the list,
does not decode and has forgotten its old result; it has no conversation before
`CreateConv` and keeps it from then on. The last holds only because no other thread can
reclaim meanwhile, which is `OneControlThread`; with two threads `ConvKept` is false
(above). `ChatInv` adds up what is unread and what was read to what was made, with the
capture bounded by its capacity, and says that an agent outside the list has no slot.

Its fourth part is `GraphCorrect`, `OGSpec => []GraphSound`, for any finite set of objects of
every kind and any limit of adapters a session. `GraphSound` is not inductive: that a count
is right now says nothing of what the chain of drops inside a destruction meets.
`GraphInv` keeps the references themselves in a table (`AllReferences`: an object and a
field of it, its caller, or a leak) and says that the table accounts for every count
(`Balanced`), that a live object refers to live objects of the kinds its own kind allows
(`LinksAt`), that a handle is registered exactly as long as its object lives
(`RegisteredAt`), and that an agent's model is still its caller's and its conversation
nobody else's (`AgentAt`). A drop sheds one entry of the table, and two when it takes the last
reference to an adapter, which gives back its model (`Sheds`); the drops of a list of
adapters are followed one by one, by the least turn that could go wrong. A call moves the
graph and the table by the same entries, hence the two agree again when it returns. The
agent's pointer to its model is in no table: that the model outlives the agent is assumed
of the caller, as in the model.

`ConvSlots_proofs` proves `LifetimesSafe`, `Spec => []LifetimesSound`, for any finite set of
conversations that does not contain the null pointer (`ConvParameters`), any number of
slots, queue entries and grace epochs. The invariant follows a conversation through
the places that hold it: slot, snapshot, lock, the entry being filled, the queue, the
marker. Three parts carry the argument. The marker of a conversation is set only while
the executor holds no snapshot (`ReadyInv`); the retirement counter is the queue, the
entries drained and the one that is announced but not queued (`CountInv`), so an executor
that stops has nothing left to drain; and the reference count of the model is the
number of threads that hold a reference (`ReferenceInv`), so that only one drops the last.
The grace epochs are not needed for safety: the executor is the only reader and the
only collector.

`SessionDecode_proofs` proves `SessionSafe`, `Spec => []SessionSound`, for any sessions of
which none is the value for "no session" (`SessionParameters`), any token limit, length of a
stop sequence, ring size and choice of wide tokens. `OwnerInv` follows a run from the
submission through the queue to the worker. Until the worker feeds its prompt the session
is fresh (`FreshInv`): a reset and a refused submission keep it so, which is why nothing of
an earlier run is on its stream or in its context. From then on the stream ends just before
the next fragment of the oldest held token (`StreamInv`), and the hold is the tokens
from there to the last one sampled (`HoldInv`). That the worker never emits what it
must take back is `Ahead`: before the last flush it holds `StopHold` tokens or all there
are, so a whole stop sequence is among them. The faithfulness of the stream is stated
entry by entry, each the one that follows its predecessor; `MCSessionDecode` has TLC
compare that statement with the flattened list of fragments.

`BatchExecutor_proofs` proves, for any number of slots, any batch, prompt share, context,
token limit, stop length and ring size, any lengths of prompt chunks and any choice of
wide tokens and streaming slots:

* `StreamCorrect`: `~LateDecode /\ Spec => []StreamSound`;
* `ContextCorrect`: `~LateDecode /\ Spec => []ContextFaithful`;
* `StreamEnds`: `Spec => []EndOfStream`.

`~LateDecode` excludes a `conv_decode` between a tick's reset visits and its evaluation.
The code does not exclude it, and the first two theorems are false without it: that is
what `BatchLateDecode` shows. Everything else the control thread and the reader do may
fall between any two visits, and `StreamEnds` needs no such hypothesis.

`IInv` is `Shape`, `ClientType` and `BatchType` (types), `SlotInv` and `BatchOk`. `SlotInv` ties
a slot's conversation to its stream and to its context: the hold is the last so many
tokens of the run (`HoldInOrder`), what was sent ends just before them or inside the
first of them, and the place reached in the prompt gives the length of the context
(`Progress`, `Places`). `BatchOk` ties the batch to the conversations: its entries of one
slot are the next tokens of that slot at the positions that follow (`Blocks`), also after
part of them was tallied; a slot asks for logits once and awaits them when its entry was
tallied (`Wanted`), so that nothing is sampled early or twice; and after its visit no
decoding slot is dirty (`ResetDone`). `StreamSound` alone is not inductive: it says nothing
of what a batch in the making will do to the context. `Entries` and `PromptTokens` are
given by position (which token an entry belongs to, which chunk a place) rather than by
recursion, so that they can be reasoned about; `EntryForm` and `ContextForm` in `MCStreams`
have TLC compare them with the flattened lists. Inductions over numbers are done by the
least counterexample (`LeastElement`).

The invariants were first checked by TLC on the instances of the runs. Parameters that a
theorem needs are operators (`RingParameters` and so on) in its hypothesis; those of
EpochReclamation, WorkerPool, Requests, AgentSlots, ObjectGraph and Embedder are the named `ASSUME`s of
the modules.

Only model-checked: the heap, what an agent says (`PromptFaithful`), the
prompt cache and its refinement `IsFifoCache`, the memory index, the chunker and tool-call
parsing. The prompt cache, the index and the two parsers compute with folds and recursion
over tables and texts, which the prover cannot follow for every input; the block list of the
heap needs arithmetic of alignments and sizes that is not linear. Liveness under fairness and
ENABLED are out of the prover's reach.

## 5. What is not modelled

* Inside the modelled components: sampling, penalties, logit values, grammars' text, the
  arithmetic of vectors and scores beyond their order, the token-metadata ring,
  timings, statistics and logging; session state save and load; sampler setters; `peek` and
  the wait-for-event signals of the stream ring on ARM; the last vector width of the
  NEON UTF-8 check; worker pinning; the wording of prompts and of JSON.
* Components: the sampler (floating point), the CPU backend and the remote provider with
  plugin loading (foreign code and transfers), platform wrappers, object pool
  and statistics, engine plugins, examples, benchmarks.
* Compositions: a search whose shard is queued behind a parked session waits for that
  stream to be read or canceled (`memory_index.cpp:1568`), which nothing bounds;
  destroying an embedder while other threads use it.
* The memory model below sequential consistency: acquire/release pairs are taken to
  order what they guard; no weaker outcome is explored.

Seen while reading, and not the subject of a run:

* `session_create` keeps the model reference it counted when it then gets no memory
  (`session.cpp:696-712`); ObjectGraph has it as `leaked`, so that the model is never unloaded.
  `embedder_destroy` and a failing `embedder_create` give their reference back without
  unloading the model when it was the last (`embedder.cpp:251-330`).
* `embedder_request_state` looks at the slot's ticket and then at its state
  (`embedder.cpp:643`, `655`): when the ticket is collected and its slot filled again in
  between (776-778, 382-383), the query says QUEUED of a ticket that is over by then.
  The query is a step pair in the model, and `TicketsFaithful` allows this answer only for
  a ticket that was still open at the first look.
* The embedder's cancel and collect look at the ticket before they take the slot's lock
  (`embedder.cpp:602-608`, `684-692`): two threads that cancel and collect one ticket may
  pass the look and find the slot reused. A collect into a vector that is too small
  clears the slot outside the lock (697-705). `embedder_destroy` waits only for
  running slots (301, 776). The run lets each caller use its own tickets.
* An agent holds a plain pointer to its model (`agent.cpp:222`); releasing a model twice
  gives back a reference of someone else; `session_destroy` unloads adapters before the
  provider's session.
* `prompt_cache_table_capacity` does not end for more than 2^29 entries (`api.cpp:567`).
* `request_wait` returns OK for a failed or canceled agent chat; the status says which.
* Truncated messages are gone even if a later step of the enqueue fails (`agent.cpp:513`, 924),
  and a failed enqueue drops the kept result of the chat before (958, 1685).
* A graph search of a mapped snapshot may return other records and other scores than the
  live index it was saved from. A plain compact live index scores its list again and adds
  the unvisited neighbours of that list (`memory_index_graph.cpp:1309-1341`), the snapshot
  returns the scores of its walk and adds nothing (`memory_index_snapshot.cpp:1499-1516`);
  plain Q8 and reranked E2M3 walk by other scores. MemoryGraph has both. The snapshot's descent
  relies on links being live (1402-1430). Snapshots before version 5 have their own
  stride (113-157), unlike what `docs/api/MEMORY_INDEX.md:211-213` says.
* `SpscRing` on ARM signals from a tail that may be old (`spsc_ring.hpp:63`);
  `validate_neon` decides characters across its blocks separately (`utf8.cpp:357`).
* The depth of a tool name is counted from where the search resumed (`tooling.cpp:389-417`).
* A size class grown by one thread may be emptied by others before it takes its refill: the
  allocation fails although memory is left (`init.cpp:226`). A tiny arena makes the partition
  sizes wrap (1296, 1309). Worker scratch aligns the offset, not the address (949).

## 6. Plan

1. Theorems: the step of PromptCache to FifoCache for the list part.
2. Agents driven by two threads, and embedder tickets shared between threads, once the
   documentation says what is allowed.
3. Destruction of an embedder against its callers.
4. The parked session and the search behind it as one specification.
5. The remote provider: transfers, retries and cancellation.
