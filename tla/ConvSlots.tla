------------------------------- MODULE ConvSlots -------------------------------
(****************************************************************************)
(* The life of a conversation around the slot table of its model's executor  *)
(* (src/inference/conversation_runtime.cpp, executor.cpp, model.cpp): clients *)
(* create and destroy conversations, the executor thread scans a snapshot of  *)
(* the slots under an epoch, and whoever drops the last reference to the      *)
(* model stops the executor and unloads the provider.                         *)
(*                                                                            *)
(* Each conversation is used by one client thread, as astral_rt.h demands, so *)
(* the client is named after its conversation; Owner holds the load reference *)
(* of the model.  The lock is Model::executor_lock, the slot-table lock.      *)
(*                                                                            *)
(* The executor is the only reader and the only collector of its              *)
(* EpochManager, so no epoch advances while it is inside one.  An epoch is    *)
(* therefore kept as its age, the number of increments since, saturated at    *)
(* GraceEpochs: collect() drains exactly the entries of that age.             *)
(* EpochReclamation models the manager at the grain of its atomic accesses.   *)
(****************************************************************************)
EXTENDS Naturals, Sequences

CONSTANTS Convs,            \* conversations, each created at most once
          Owner,            \* the thread that loaded the model
          MaxSlots,         \* ModelExecutor::max_slots
          QueueCapacity,    \* entries of the retirement queue
          GraceEpochs,      \* EpochManager::kGraceEpochs
          HandleTableFills  \* whether register_handle may fail

ASSUME OwnerAssumption == Owner \notin Convs
ASSUME SlotsAssumption == MaxSlots \in Nat \ {0}
ASSUME QueueAssumption == QueueCapacity \in Nat \ {0}
ASSUME GraceAssumption == GraceEpochs \in Nat \ {0}
ASSUME HandleAssumption == HandleTableFills \in BOOLEAN

Threads == Convs \cup {Owner}
Slots   == 0 .. MaxSlots - 1
NoConv  == "none"
NoSlot  == MaxSlots     \* kInvalidExecutorSlot

VARIABLES
  pc,           \* thread -> where it is in create, use, destroy or release
  state,        \* conversation -> Conversation::state, reduced
  cancel,       \* conversation -> cancel_requested
  mem,          \* conversation -> its storage
  slot_id,      \* conversation -> slot_id
  ready,        \* conversation -> epoch_reclaim_ready
  slots,        \* slot -> conversation (active_slot_mask has the bits of these)
  lock,         \* holder of executor_lock across steps
  executor,     \* Model::executor
  running,      \* ModelExecutor::running
  xpc,          \* where the executor thread is
  rounds,       \* executor: collect() calls of this round
  snapshot,     \* executor: conversations of SlotSnapshot
  todo,         \* executor: those it has not visited in this tick
  retire_count, \* conversation_retire_count
  retired,      \* the retirement queue: entries [ptr, age]
  stamp,        \* the entry defer_delete() is filling, or NoStamp
  advanced,     \* increments of the global epoch, saturated at GraceEpochs
  reclaimed,    \* executor: entries reclaimed in this round
  refcount,     \* Model::refcount
  model         \* the model and its provider context

clientVars == <<pc, state, cancel, mem, slot_id, ready>>
epochVars  == <<retire_count, retired, stamp, advanced>>
execVars   == <<xpc, rounds, snapshot, todo, reclaimed>>
modelVars  == <<executor, running, refcount, model>>
vars == <<clientVars, slots, lock, modelVars, execVars, epochVars>>

NoStamp == [ptr |-> NoConv, age |-> 0]

Init ==
  /\ pc = [t \in Threads |-> IF t = Owner THEN "holding" ELSE "new"]
  /\ state = [c \in Convs |-> "idle"]
  /\ cancel = [c \in Convs |-> FALSE]
  /\ mem = [c \in Convs |-> "none"]
  /\ slot_id = [c \in Convs |-> NoSlot]
  /\ ready = [c \in Convs |-> FALSE]
  /\ slots = [i \in Slots |-> NoConv]
  /\ lock = NoConv
  /\ executor = "none"
  /\ running = FALSE
  /\ xpc = "off"
  /\ rounds = 0
  /\ snapshot = {}
  /\ todo = {}
  /\ retire_count = 0
  /\ retired = << >>
  /\ stamp = NoStamp
  /\ advanced = 0
  /\ reclaimed = 0
  /\ refcount = 1
  /\ model = "loaded"

Goto(t, l) == pc' = [pc EXCEPT ![t] = l]

-----------------------------------------------------------------------------
(* conv_create_affine *)

\* ensure_executor: created and started under the lock by whoever comes first;
\* a start that fails leaves no executor and fails the create.
EnsureExecutor(c) ==
  /\ pc[c] = "new"
  /\ pc[Owner] = "holding"
  /\ \/ /\ executor # "none"
        /\ Goto(c, "ensured")
        /\ UNCHANGED <<modelVars, xpc>>
     \/ /\ executor = "none"
        /\ lock = NoConv
        /\ executor' = "started"
        /\ running' = TRUE
        /\ xpc' = "loop"
        /\ Goto(c, "ensured")
        /\ UNCHANGED <<refcount, model>>
     \/ /\ executor = "none"
        /\ lock = NoConv
        /\ Goto(c, "refused")
        /\ UNCHANGED <<modelVars, xpc>>
  /\ UNCHANGED <<state, cancel, mem, slot_id, ready, slots, lock, rounds, snapshot, todo,
                 reclaimed, epochVars>>

Allocate(c) ==
  /\ pc[c] = "ensured"
  /\ mem' = [mem EXCEPT ![c] = "live"]
  /\ refcount' = refcount + 1
  /\ Goto(c, "allocated")
  /\ UNCHANGED <<state, cancel, slot_id, ready, slots, lock, executor, running, model,
                 execVars, epochVars>>

\* The scan for a slot under the lock: any free one, since the client may ask
\* for a particular slot.  A failed allocation, a failed query of the provider
\* and a taken slot give everything back.
TakeSlot(c) ==
  /\ pc[c] = "allocated"
  /\ \/ /\ lock = NoConv
        /\ \E i \in {j \in Slots : slots[j] = NoConv} :
             /\ slots' = [slots EXCEPT ![i] = c]
             /\ slot_id' = [slot_id EXCEPT ![c] = i]
        /\ Goto(c, "slotted")
     \/ /\ Goto(c, "undo")
        /\ UNCHANGED <<slots, slot_id>>
  /\ UNCHANGED <<state, cancel, mem, ready, lock, modelVars, execVars, epochVars>>

RegisterHandle(c) ==
  /\ pc[c] = "slotted"
  /\ \/ Goto(c, "live")
     \/ HandleTableFills /\ Goto(c, "unslot")
  /\ UNCHANGED <<state, cancel, mem, slot_id, ready, slots, lock, modelVars, execVars, epochVars>>

\* the create that found the handle table full takes its slot back and, with
\* no retirement in between, goes on to release its storage
Unslot(c) ==
  /\ pc[c] = "unslot"
  /\ lock = NoConv
  /\ slots' = [slots EXCEPT ![slot_id[c]] = NoConv]
  /\ slot_id' = [slot_id EXCEPT ![c] = NoSlot]
  /\ Goto(c, "undo")
  /\ UNCHANGED <<state, cancel, mem, ready, lock, modelVars, execVars, epochVars>>

Create(c) == EnsureExecutor(c) \/ Allocate(c) \/ TakeSlot(c) \/ RegisterHandle(c) \/ Unslot(c)

-----------------------------------------------------------------------------
(* conv_decode, as far as the slot table is concerned (a feed came first) *)

Decode(c) ==
  /\ pc[c] = "live"
  /\ state[c] = "idle"
  /\ state' = [state EXCEPT ![c] = "decoding"]
  /\ cancel' = [cancel EXCEPT ![c] = FALSE]
  /\ UNCHANGED <<pc, mem, slot_id, ready, slots, lock, modelVars, execVars, epochVars>>

-----------------------------------------------------------------------------
(* conv_destroy *)

\* unregister_handle, then cancel and wait if decoding
DestroyBegin(c) ==
  /\ pc[c] = "live"
  /\ IF state[c] = "decoding"
       THEN cancel' = [cancel EXCEPT ![c] = TRUE] /\ Goto(c, "waiting")
       ELSE Goto(c, "remove") /\ UNCHANGED cancel
  /\ UNCHANGED <<state, mem, slot_id, ready, slots, lock, modelVars, execVars, epochVars>>

AwaitTerminal(c) ==
  /\ pc[c] = "waiting"
  /\ state[c] # "decoding"
  /\ Goto(c, "remove")
  /\ UNCHANGED <<state, cancel, mem, slot_id, ready, slots, lock, modelVars, execVars, epochVars>>

\* lock, empty the slot
RemoveSlot(c) ==
  /\ pc[c] = "remove"
  /\ lock = NoConv
  /\ lock' = c
  /\ slots' = [slots EXCEPT ![slot_id[c]] = NoConv]
  /\ slot_id' = [slot_id EXCEPT ![c] = NoSlot]
  /\ ready' = [ready EXCEPT ![c] = FALSE]
  /\ Goto(c, "retire")
  /\ UNCHANGED <<state, cancel, mem, modelVars, execVars, epochVars>>

CountRetirement(c) ==
  /\ pc[c] = "retire"
  /\ retire_count' = retire_count + 1
  /\ Goto(c, "defer")
  /\ UNCHANGED <<state, cancel, mem, slot_id, ready, slots, lock, modelVars, execVars,
                 retired, stamp, advanced>>

\* defer_delete: room check and stamp, or the queue is full and the client
\* takes its count back and lets go of the lock before it tries again
Stamp(c) ==
  /\ pc[c] = "defer"
  /\ Len(retired) < QueueCapacity
  /\ stamp' = [ptr |-> c, age |-> 0]
  /\ Goto(c, "publish")
  /\ UNCHANGED <<state, cancel, mem, slot_id, ready, slots, lock, modelVars, execVars,
                 retire_count, retired, advanced>>

QueueFull_KeepLock(c) ==
  /\ pc[c] = "defer"
  /\ Len(retired) >= QueueCapacity
  /\ retire_count' = retire_count - 1
  /\ Goto(c, "retire")
  /\ UNCHANGED <<state, cancel, mem, slot_id, ready, slots, lock, modelVars, execVars,
                 retired, stamp, advanced>>

QueueFull(c) ==
  /\ pc[c] = "defer"
  /\ Len(retired) >= QueueCapacity
  /\ retire_count' = retire_count - 1
  /\ lock' = NoConv
  /\ Goto(c, "relock")
  /\ UNCHANGED <<state, cancel, mem, slot_id, ready, slots, modelVars, execVars,
                 retired, stamp, advanced>>

Relock(c) ==
  /\ pc[c] = "relock"
  /\ lock = NoConv
  /\ lock' = c
  /\ Goto(c, "retire")
  /\ UNCHANGED <<state, cancel, mem, slot_id, ready, slots, modelVars, execVars, epochVars>>

\* a destroy that forgets to wait for the marker
PublishRetired_NoWait(c) ==
  /\ pc[c] = "publish"
  /\ retired' = Append(retired, stamp)
  /\ stamp' = NoStamp
  /\ lock' = NoConv
  /\ Goto(c, "release")
  /\ UNCHANGED <<state, cancel, mem, slot_id, ready, slots, modelVars, execVars,
                 retire_count, advanced>>

PublishRetired(c) ==
  /\ pc[c] = "publish"
  /\ retired' = Append(retired, stamp)
  /\ stamp' = NoStamp
  /\ lock' = NoConv
  /\ Goto(c, "quiesce")
  /\ UNCHANGED <<state, cancel, mem, slot_id, ready, slots, modelVars, execVars,
                 retire_count, advanced>>

AwaitQuiescent(c) ==
  /\ pc[c] = "quiesce"
  /\ ready[c]
  /\ Goto(c, "release")
  /\ UNCHANGED <<state, cancel, mem, slot_id, ready, slots, lock, modelVars, execVars, epochVars>>

Destroy(c) ==
  \/ DestroyBegin(c) \/ AwaitTerminal(c) \/ RemoveSlot(c) \/ CountRetirement(c)
  \/ Stamp(c) \/ QueueFull(c) \/ Relock(c) \/ PublishRetired(c) \/ AwaitQuiescent(c)

-----------------------------------------------------------------------------
(* Release of a conversation's storage, model_release, executor_stop_and_join *)

\* the count after the decrement is compared with one
DropReference_Late(t, next) ==
  /\ refcount' = refcount - 1
  /\ Goto(t, IF refcount > 0 THEN next ELSE IF executor = "none" THEN "unload" ELSE "stop")

\* fetch_sub on the refcount: the last one stops the executor, if there is one
DropReference(t, next) ==
  /\ refcount' = refcount - 1
  /\ Goto(t, IF refcount > 1 THEN next ELSE IF executor = "none" THEN "unload" ELSE "stop")

\* scratch memory and model reference go back, of a destroyed conversation or
\* of one whose creation failed
Free(c) ==
  /\ pc[c] \in {"release", "undo"}
  /\ mem' = [mem EXCEPT ![c] = "freed"]
  /\ DropReference(c, IF pc[c] = "undo" THEN "refused" ELSE "gone")
  /\ UNCHANGED <<state, cancel, slot_id, ready, slots, lock, executor, running, model,
                 execVars, epochVars>>

\* astral_model_release; the caller does not race it with a create, and no
\* create starts after it
OwnerRelease ==
  /\ pc[Owner] = "holding"
  /\ \A c \in Convs : pc[c] \notin {"ensured", "allocated", "slotted", "unslot", "undo"}
  /\ DropReference(Owner, "gone")
  /\ UNCHANGED <<state, cancel, mem, slot_id, ready, slots, lock, executor, running, model,
                 execVars, epochVars>>

StopExecutor(t) ==
  /\ pc[t] = "stop"
  /\ running' = FALSE
  /\ Goto(t, "join")
  /\ UNCHANGED <<state, cancel, mem, slot_id, ready, slots, lock, executor, refcount, model,
                 execVars, epochVars>>

JoinExecutor(t) ==
  /\ pc[t] = "join"
  /\ xpc = "exited"
  /\ executor' = "none"
  /\ Goto(t, "unload")
  /\ UNCHANGED <<state, cancel, mem, slot_id, ready, slots, lock, running, refcount, model,
                 execVars, epochVars>>

Unload(t) ==
  /\ pc[t] = "unload"
  /\ model' = "unloaded"
  /\ Goto(t, "gone")
  /\ UNCHANGED <<state, cancel, mem, slot_id, ready, slots, lock, executor, running, refcount,
                 execVars, epochVars>>

ReleaseModel(t) == StopExecutor(t) \/ JoinExecutor(t) \/ Unload(t)

-----------------------------------------------------------------------------
(* executor_thread: collect, enter, snapshot, visit, leave *)

\* The loop condition; a stopped executor leaves its loop.  Its last collect and
\* the joining thread's find nothing: every conversation holds a reference until
\* its retirement was reclaimed.
Loop ==
  /\ xpc = "loop"
  /\ xpc' = IF running THEN (IF retire_count = 0 THEN "snapshot" ELSE "collect") ELSE "exited"
  /\ rounds' = 0
  /\ reclaimed' = 0
  /\ UNCHANGED <<snapshot, todo, clientVars, slots, lock, modelVars, epochVars>>

\* an epoch after one more increment
Older(age) == IF age < GraceEpochs THEN age + 1 ELSE age

\* drain_through takes the first n entries and stops at the next, which is not
\* behind the frontier
Drainable(n) ==
  LET behind(i) == advanced = GraceEpochs /\ retired[i].age = GraceEpochs
  IN /\ \A i \in 1 .. n : behind(i)
     /\ n < Len(retired) => ~behind(n + 1)

\* one collect(): drain what is behind the frontier (mark_conversation_quiescent
\* is the deleter), then advance the epoch, which ages every entry
CollectOnce ==
  /\ xpc = "collect"
  /\ rounds <= GraceEpochs
  /\ \E n \in 0 .. Len(retired) :
       /\ Drainable(n)
       /\ ready' = [c \in Convs |-> ready[c] \/ \E i \in 1 .. n : retired[i].ptr = c]
       /\ retired' = [i \in 1 .. Len(retired) - n |->
                        [ptr |-> retired[i + n].ptr, age |-> Older(retired[i + n].age)]]
       /\ reclaimed' = reclaimed + n
  /\ stamp' = IF stamp = NoStamp THEN stamp ELSE [ptr |-> stamp.ptr, age |-> Older(stamp.age)]
  /\ advanced' = Older(advanced)
  /\ rounds' = rounds + 1
  /\ UNCHANGED <<pc, state, cancel, mem, slot_id, slots, lock, modelVars, xpc, snapshot, todo,
                 retire_count>>

CollectEnd ==
  /\ xpc = "collect"
  /\ rounds > GraceEpochs
  /\ retire_count' = retire_count - reclaimed
  /\ xpc' = "snapshot"
  /\ UNCHANGED <<rounds, snapshot, todo, reclaimed, clientVars, slots, lock, modelVars,
                 retired, stamp, advanced>>

\* SlotSnapshot::acquire: enter the epoch (no one else advances it, so enter()
\* succeeds at once), then copy the slots under the lock
Snapshot ==
  /\ xpc = "snapshot"
  /\ lock = NoConv
  /\ snapshot' = {slots[i] : i \in Slots} \ {NoConv}
  /\ todo' = snapshot'
  /\ xpc' = "scan"
  /\ UNCHANGED <<rounds, reclaimed, clientVars, slots, lock, modelVars, epochVars>>

\* the tick reads the state of a snapshotted conversation; a decoding one is
\* canceled on request, and otherwise may or may not reach its end
Visit(c) ==
  /\ xpc = "scan"
  /\ c \in todo
  /\ todo' = todo \ {c}
  /\ IF state[c] # "decoding" THEN UNCHANGED state
     ELSE IF cancel[c] THEN state' = [state EXCEPT ![c] = "terminal"]
     ELSE state' \in {state, [state EXCEPT ![c] = "terminal"]}
  /\ UNCHANGED <<xpc, rounds, reclaimed, snapshot, pc, cancel, mem, slot_id, ready, slots, lock,
                 modelVars, epochVars>>

\* SlotSnapshot::release at the end of the tick
Leave ==
  /\ xpc = "scan"
  /\ todo = {}
  /\ snapshot' = {}
  /\ xpc' = "loop"
  /\ UNCHANGED <<rounds, reclaimed, todo, clientVars, slots, lock, modelVars, epochVars>>

Execute ==
  \/ Loop \/ CollectOnce \/ CollectEnd \/ Snapshot
  \/ \E c \in Convs : Visit(c)
  \/ Leave

-----------------------------------------------------------------------------
\* the model is gone, and with it every client that ever started
Terminated ==
  /\ pc[Owner] = "gone"
  /\ \A c \in Convs : pc[c] \in {"new", "refused", "gone"}
  /\ UNCHANGED vars

Next ==
  \/ \E c \in Convs : Create(c) \/ Decode(c) \/ Destroy(c) \/ Free(c)
  \/ OwnerRelease
  \/ \E t \in Threads : ReleaseModel(t)
  \/ Execute
  \/ Terminated

Spec == Init /\ [][Next]_vars

\* what client c does once it has begun to create: it goes on to the end, and
\* it destroys the conversation it created
Oblige(c) ==
  \/ Allocate(c) \/ TakeSlot(c) \/ RegisterHandle(c) \/ Unslot(c)
  \/ Destroy(c) \/ Free(c) \/ ReleaseModel(c)

\* The executor thread and a thread inside an API call keep running.  The lock
\* is a BackoffSpinLock: a thread that finds it free again and again gets it at
\* last, hence strong fairness.  Whether a client creates or decodes is its own
\* affair, but it destroys what it created and the owner releases the model.
Fairness ==
  /\ SF_vars(Execute)
  /\ \A c \in Convs : SF_vars(Oblige(c))
  /\ WF_vars(OwnerRelease \/ ReleaseModel(Owner))

FairSpec == Spec /\ Fairness

-----------------------------------------------------------------------------
(* Properties *)

Labels == {"holding", "new", "ensured", "allocated", "slotted", "unslot", "live",
           "waiting", "remove", "retire", "defer", "publish", "relock", "quiesce",
           "release", "undo", "refused", "stop", "join", "unload", "gone"}

\* Types, and the bounds of the retirement queue and of its counter.
TypeOK ==
  /\ pc \in [Threads -> Labels]
  /\ state \in [Convs -> {"idle", "decoding", "terminal"}]
  /\ cancel \in [Convs -> BOOLEAN]
  /\ mem \in [Convs -> {"none", "live", "freed"}]
  /\ slot_id \in [Convs -> 0 .. MaxSlots]
  /\ ready \in [Convs -> BOOLEAN]
  /\ slots \in [Slots -> Convs \cup {NoConv}]
  /\ lock \in Convs \cup {NoConv}
  /\ executor \in {"none", "started"}
  /\ running \in BOOLEAN
  /\ xpc \in {"off", "loop", "collect", "snapshot", "scan", "exited"}
  /\ rounds \in 0 .. GraceEpochs + 1
  /\ snapshot \subseteq Convs
  /\ todo \subseteq snapshot
  /\ retire_count \in Nat
  /\ retired \in Seq([ptr : Convs, age : 0 .. GraceEpochs])
  /\ Len(retired) <= QueueCapacity
  /\ stamp \in [ptr : Convs \cup {NoConv}, age : 0 .. GraceEpochs]
  /\ advanced \in 0 .. GraceEpochs
  /\ reclaimed \in Nat
  /\ refcount \in Nat
  /\ model \in {"loaded", "unloaded"}

\* docs/architecture/CONCURRENCY_MODEL.md: "Destruction waits until the marker
\* crosses the safe epoch frontier before releasing conversation storage."  The
\* executor touches only conversations whose storage is still there.
SnapshotStorageLive == \A c \in snapshot : mem[c] = "live"

\* conv_destroy keeps that promise for every conversation that was created: a
\* snapshot may outlive the slot, and the storage outlives the snapshot.
DestroyedAfterSnapshot ==
  \A c \in snapshot : mem[c] = "freed" => pc[c] = "refused"

\* conv_destroy keeps the conversation's promise to the others: storage goes
\* only after the conversation left its slot and its decode ended.
FreedIsDetached ==
  \A c \in Convs : mem[c] = "freed" =>
    /\ state[c] # "decoding"
    /\ \A i \in Slots : slots[i] # c
    /\ \A i \in DOMAIN retired : retired[i].ptr # c

\* The provider context and the executor outlive every user of theirs: the
\* executor thread and every conversation that holds a reference.
ModelOutlivesUsers ==
  model = "unloaded" =>
    /\ xpc \in {"off", "exited"}
    /\ \A c \in Convs : pc[c] \in {"new", "refused", "gone"}

\* conversation_retire_count never understates the queue, so the executor's
\* shortcut of not collecting at zero strands no retirement.
RetireCountCoversQueue ==
  retire_count >= Len(retired) + (IF xpc = "collect" THEN reclaimed ELSE 0)

\* Storage and provider outlive their users: the snapshot of the executor, the
\* slot, the retirement queue with its counter, and the executor thread.
LifetimesSound ==
  /\ TypeOK /\ DestroyedAfterSnapshot /\ FreedIsDetached
  /\ ModelOutlivesUsers /\ RetireCountCoversQueue

\* conv_destroy returns: the cancel is honoured, a full retirement queue is
\* drained, the marker is reached, and no lock order blocks it for ever.
DestroyReturns == \A c \in Convs : pc[c] = "live" ~> pc[c] = "gone"

\* The provider is unloaded once, whoever drops the last reference.
ModelUnloaded == pc[Owner] = "gone" ~> model = "unloaded"

=============================================================================
