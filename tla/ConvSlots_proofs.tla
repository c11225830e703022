-------------------------- MODULE ConvSlots_proofs --------------------------
(****************************************************************************)
(* Storage, slots and the provider outlive their users, for every number of   *)
(* conversations, slots, queue entries and grace epochs.                      *)
(*                                                                            *)
(* The argument: the marker of a conversation is set only while the executor  *)
(* holds no snapshot, and no later snapshot finds the conversation in a slot. *)
(* The retirement counter is what is queued, drained or about to be queued,   *)
(* and the reference count the number of threads that refer to the model.     *)
(****************************************************************************)
EXTENDS ConvSlots, FiniteSets, FiniteSetTheorems, TLAPS

\* What is assumed of the parameters: the handle table bounds the number of
\* conversations, and none is the null pointer.
ConvParameters == IsFiniteSet(Convs) /\ NoConv \notin Convs

-----------------------------------------------------------------------------
(* The inductive invariant *)

\* where a conversation holds a reference to the model, a slot, or the lock; and
\* where the thread that dropped the last reference is
Referring == {"holding", "allocated", "slotted", "unslot", "live", "waiting", "remove",
              "retire", "defer", "publish", "relock", "quiesce", "release", "undo"}
Creating  == {"ensured", "allocated", "slotted", "unslot", "undo"}
Slotted   == {"slotted", "unslot", "live", "waiting", "remove"}
Locking   == {"retire", "defer", "publish"}
Releasing == {"stop", "join", "unload"}

References == {t \in Threads : pc[t] \in Referring}

\* A conversation is created under the owner's reference.
CreateInv ==
  /\ pc[Owner] \in {"holding", "gone"} \cup Releasing
  /\ \A c \in Convs : /\ pc[c] # "holding"
                      /\ pc[c] \in Creating => pc[Owner] = "holding"

\* A slot holds the conversation that holds the slot; only such a conversation decodes.
SlotInv ==
  /\ \A c \in Convs : pc[c] \in Slotted => slot_id[c] \in Slots /\ slots[slot_id[c]] = c
  /\ \A i \in Slots : slots[i] # NoConv => pc[slots[i]] \in Slotted /\ slot_id[slots[i]] = i
  /\ \A c \in Convs : state[c] = "decoding" => pc[c] \in {"live", "waiting"}

\* The thread between the count of its retirement and the publication of the
\* entry holds the lock, the entry that is filled is its own, and there is room.
RetireInv ==
  /\ \A c \in Convs : pc[c] \in Locking <=> lock = c
  /\ \A c \in Convs : pc[c] = "publish" <=> stamp.ptr = c
  /\ \A c \in Convs : pc[c] = "publish" => Len(retired) < QueueCapacity

\* An entry of the queue is of a conversation that waits for its marker, and
\* the only one of it.
QueueInv ==
  \A i \in DOMAIN retired :
    /\ pc[retired[i].ptr] = "quiesce"
    /\ ~ready[retired[i].ptr]
    /\ \A j \in DOMAIN retired : retired[j].ptr = retired[i].ptr => j = i

\* The marker is behind every snapshot, and storage goes after the marker.
ReadyInv ==
  /\ xpc # "scan" => snapshot = {}
  /\ \A c \in Convs :
       /\ ready[c] => c \notin snapshot /\ pc[c] \in {"quiesce", "release", "gone"} \cup Releasing
       /\ pc[c] \in {"release", "gone"} \cup Releasing => ready[c]
       /\ mem[c] = "freed" => pc[c] \in {"refused", "gone"} \cup Releasing

Collected == IF xpc = "collect" THEN reclaimed ELSE 0
Pending   == IF \E c \in Convs : pc[c] \in {"defer", "publish"} THEN 1 ELSE 0

\* The counter is the entries of the queue, those this round reclaimed, and the
\* one that is about to be published.
CountInv == retire_count = Len(retired) + Collected + Pending

\* The reference count counts the references.
ReferenceInv == refcount = Cardinality(References)

\* The one thread that drops the last reference stops what is left of the model.
ReleaseInv ==
  /\ \A t \in Threads : pc[t] \in Releasing => refcount = 0
  /\ \A t, u \in Threads : pc[t] \in Releasing /\ pc[u] \in Releasing => t = u
  /\ executor = "none" => xpc \in {"off", "exited"}
  /\ \A t \in Threads : pc[t] = "unload" => executor = "none"
  /\ model = "unloaded" =>
       /\ executor = "none"
       /\ refcount = 0
       /\ \A t \in Threads : pc[t] \notin Releasing

LifetimeInv ==
  /\ TypeOK /\ CreateInv /\ SlotInv /\ RetireInv /\ QueueInv /\ ReadyInv /\ CountInv
  /\ ReferenceInv /\ ReleaseInv

-----------------------------------------------------------------------------
(* Types *)

Entry == [ptr : Convs, age : 0 .. GraceEpochs]

TypeFacts ==
  /\ Owner \notin Convs /\ Owner \in Threads /\ Convs \subseteq Threads
  /\ \A t \in Threads : t = Owner \/ t \in Convs
  /\ NoConv \notin Convs
  /\ MaxSlots \in Nat /\ NoSlot \notin Slots
  /\ pc \in [Threads -> Labels]
  /\ state \in [Convs -> {"idle", "decoding", "terminal"}]
  /\ mem \in [Convs -> {"none", "live", "freed"}]
  /\ slot_id \in [Convs -> 0 .. MaxSlots]
  /\ ready \in [Convs -> BOOLEAN]
  /\ slots \in [Slots -> Convs \cup {NoConv}]
  /\ snapshot \subseteq Convs
  /\ Len(retired) \in Nat /\ DOMAIN retired = 1 .. Len(retired)
  /\ \A i \in DOMAIN retired : retired[i].ptr \in Convs
  /\ stamp.ptr \in Convs \cup {NoConv}
  /\ retire_count \in Nat /\ reclaimed \in Nat /\ refcount \in Nat

LEMMA Facts == ConvParameters /\ TypeOK => TypeFacts
<1> SUFFICES ASSUME ConvParameters, TypeOK PROVE TypeFacts
  OBVIOUS
<1>1. /\ Len(retired) \in Nat /\ DOMAIN retired = 1 .. Len(retired)
      /\ \A i \in DOMAIN retired : retired[i].ptr \in Convs
  <2>1. retired \in Seq(Entry)
    BY DEF TypeOK, Entry
  <2>2. \A r \in Entry : r.ptr \in Convs
    BY DEF Entry
  <2>3. Len(retired) \in Nat /\ DOMAIN retired = 1 .. Len(retired)
    BY <2>1
  <2>4. \A i \in 1 .. Len(retired) : retired[i] \in Entry
    BY <2>1
  <2> QED
    BY <2>2, <2>3, <2>4
<1> QED
  BY <1>1, OwnerAssumption, SlotsAssumption
  DEF ConvParameters, TypeOK, TypeFacts, Threads, Slots, NoSlot

-----------------------------------------------------------------------------
(* The references *)

LEMMA AppendFacts ==
  ASSUME NEW S, NEW q \in Seq(S), NEW e \in S
  PROVE  /\ Len(Append(q, e)) = Len(q) + 1
         /\ DOMAIN Append(q, e) = 1 .. Len(q) + 1
         /\ Append(q, e)[Len(q) + 1] = e
         /\ \A i \in 1 .. Len(q) : Append(q, e)[i] = q[i]
OBVIOUS

LEMMA FunctionFacts ==
  ASSUME NEW S, NEW m \in Nat, NEW q \in [1 .. m -> S]
  PROVE  q \in Seq(S) /\ Len(q) = m
OBVIOUS

LEMMA FiniteReferences ==
  ASSUME ConvParameters PROVE IsFiniteSet(References)
<1>1. IsFiniteSet(Threads)
  BY FS_AddElement DEF ConvParameters, Threads
<1> QED
  BY <1>1, FS_Subset DEF References

\* no reference is left where the count is zero
LEMMA Referred ==
  ASSUME ConvParameters, ReferenceInv, NEW t \in Threads, pc[t] \in Referring
  PROVE  refcount \in Nat \ {0}
<1>1. t \in References /\ References # {}
  BY DEF References
<1> QED
  BY <1>1, FiniteReferences, FS_CardinalityType, FS_EmptySet DEF ReferenceInv

\* A creation that failed does not hold the last reference.
LEMMA UndoReferences ==
  ASSUME ConvParameters, TypeOK, CreateInv, ReferenceInv, NEW c \in Convs, pc[c] = "undo"
  PROVE  ~(refcount <= 1)
<1>1. c \in References /\ Owner \in References /\ c # Owner
  BY OwnerAssumption DEF References, Referring, CreateInv, Creating, Threads
<1>2. /\ IsFiniteSet(References \ {c}) /\ Cardinality(References \ {c}) = Cardinality(References) - 1
      /\ Cardinality(References) \in Nat
  BY <1>1, FiniteReferences, FS_RemoveElement, FS_CardinalityType
<1>3. Cardinality(References \ {c}) \in Nat \ {0}
  BY <1>1, <1>2, FS_CardinalityType, FS_EmptySet
<1> QED
  BY <1>2, <1>3 DEF ReferenceInv

\* Of the threads that drop a reference, the last one alone goes on to stop
\* the executor and unload the provider.
LEMMA DropRelease ==
  ASSUME ConvParameters, LifetimeInv, NEW t \in Threads, NEW next \in {"refused", "gone"},
         pc[t] \in Referring, DropReference(t, next), UNCHANGED <<executor, xpc, model>>
  PROVE  ReleaseInv'
<1>1. refcount \in Nat \ {0} /\ pc \in [Threads -> Labels]
  BY Referred DEF LifetimeInv, TypeOK
<1>2. \A u \in Threads : pc[u] \notin Releasing
  BY <1>1 DEF LifetimeInv, ReleaseInv
<1>3. PICK l \in {next, "unload", "stop"} :
        /\ pc' = [pc EXCEPT ![t] = l] /\ refcount' = refcount - 1
        /\ l # next => refcount' = 0
        /\ l = "unload" => executor = "none"
  <2>1. refcount' = refcount - 1 /\ (refcount' = 0 <=> ~(refcount > 1))
    BY <1>1 DEF DropReference
  <2>2. CASE refcount > 1
    BY <2>1, <2>2 DEF DropReference, Goto
  <2>3. CASE ~(refcount > 1) /\ executor = "none"
    BY <2>1, <2>3 DEF DropReference, Goto
  <2>4. CASE ~(refcount > 1) /\ executor # "none"
    BY <2>1, <2>4 DEF DropReference, Goto
  <2> QED
    BY <2>2, <2>3, <2>4
<1>4. model # "unloaded"
  BY <1>1 DEF LifetimeInv, ReleaseInv
<1> QED
  BY <1>1, <1>2, <1>3, <1>4 DEF LifetimeInv, ReleaseInv, Releasing

-----------------------------------------------------------------------------
(* Each part of the invariant is kept by every step. *)

LEMMA NextType == ConvParameters /\ LifetimeInv /\ [Next]_vars => TypeOK'
<1> SUFFICES ASSUME ConvParameters, LifetimeInv, [Next]_vars PROVE TypeOK'
  OBVIOUS
<1> USE OwnerAssumption, SlotsAssumption, QueueAssumption, GraceAssumption DEF LifetimeInv
<1>0. TypeFacts
  BY Facts DEF LifetimeInv
<1>1. ASSUME NEW c \in Convs, EnsureExecutor(c) PROVE TypeOK'
  BY <1>1 DEF EnsureExecutor, Goto, epochVars, modelVars, TypeOK, Labels, Threads
<1>2. ASSUME NEW c \in Convs, Allocate(c) PROVE TypeOK'
  BY <1>2 DEF Allocate, Goto, epochVars, execVars, TypeOK, Labels, Threads
<1>3. ASSUME NEW c \in Convs, TakeSlot(c) PROVE TypeOK'
  <2>1. UNCHANGED <<state, cancel, mem, ready, lock, modelVars, execVars, epochVars>>
    BY <1>3 DEF TakeSlot
  <2>2. pc' \in [Threads -> Labels]
    BY <1>3 DEF TakeSlot, Goto, TypeOK, Threads, Labels
  <2>3. /\ slots' \in [Slots -> Convs \cup {NoConv}]
        /\ slot_id' \in [Convs -> 0 .. MaxSlots]
    <3>1. CASE UNCHANGED <<slots, slot_id>>
      BY <3>1 DEF TypeOK
    <3>2. CASE \E i \in {j \in Slots : slots[j] = NoConv} :
                 slots' = [slots EXCEPT ![i] = c] /\ slot_id' = [slot_id EXCEPT ![c] = i]
      <4>1. PICK i \in Slots :
              slots' = [slots EXCEPT ![i] = c] /\ slot_id' = [slot_id EXCEPT ![c] = i]
        BY <3>2
      <4>2. i \in 0 .. MaxSlots
        BY DEF Slots
      <4> QED
        BY <4>1, <4>2 DEF TypeOK
    <3> QED
      BY <1>3, <3>1, <3>2 DEF TakeSlot
  <2> QED
    BY <2>1, <2>2, <2>3 DEF TypeOK, modelVars, execVars, epochVars
<1>4. ASSUME NEW c \in Convs, RegisterHandle(c) PROVE TypeOK'
  BY <1>4 DEF RegisterHandle, Goto, epochVars, execVars, modelVars, TypeOK, Labels, Threads
<1>5. ASSUME NEW c \in Convs, Unslot(c) PROVE TypeOK'
  <2>1. UNCHANGED <<state, cancel, mem, ready, lock, modelVars, execVars, epochVars>>
    BY <1>5 DEF Unslot
  <2>2. pc' \in [Threads -> Labels]
    BY <1>5 DEF Unslot, Goto, TypeOK, Threads, Labels
  <2>3. /\ slots' \in [Slots -> Convs \cup {NoConv}]
        /\ slot_id' \in [Convs -> 0 .. MaxSlots]
    <3>1. NoSlot \in 0 .. MaxSlots
      BY DEF NoSlot
    <3> QED
      BY <1>5, <3>1 DEF Unslot, TypeOK
  <2> QED
    BY <2>1, <2>2, <2>3 DEF TypeOK, modelVars, execVars, epochVars
<1>6. ASSUME NEW c \in Convs, Decode(c) PROVE TypeOK'
  BY <1>6 DEF Decode, epochVars, execVars, modelVars, TypeOK, Labels, Threads
<1>7. ASSUME NEW c \in Convs, DestroyBegin(c) PROVE TypeOK'
  BY <1>7 DEF DestroyBegin, Goto, epochVars, execVars, modelVars, TypeOK, Labels, Threads
<1>8. ASSUME NEW c \in Convs, AwaitTerminal(c) PROVE TypeOK'
  BY <1>8 DEF AwaitTerminal, Goto, epochVars, execVars, modelVars, TypeOK, Labels, Threads
<1>9. ASSUME NEW c \in Convs, RemoveSlot(c) PROVE TypeOK'
  <2>1. UNCHANGED <<state, cancel, mem, modelVars, execVars, epochVars>>
    BY <1>9 DEF RemoveSlot
  <2>2. pc' \in [Threads -> Labels]
    BY <1>9 DEF RemoveSlot, Goto, TypeOK, Threads, Labels
  <2>3. /\ slots' \in [Slots -> Convs \cup {NoConv}]
        /\ slot_id' \in [Convs -> 0 .. MaxSlots]
    <3>1. NoSlot \in 0 .. MaxSlots
      BY DEF NoSlot
    <3> QED
      BY <1>9, <3>1 DEF RemoveSlot, TypeOK
  <2>4. ready' \in [Convs -> BOOLEAN] /\ lock' \in Convs \cup {NoConv}
    BY <1>9 DEF RemoveSlot, TypeOK
  <2> QED
    BY <2>1, <2>2, <2>3, <2>4 DEF TypeOK, modelVars, execVars, epochVars
<1>10. ASSUME NEW c \in Convs, CountRetirement(c) PROVE TypeOK'
  BY <1>10 DEF CountRetirement, Goto, execVars, modelVars, TypeOK, Labels, Threads
<1>11. ASSUME NEW c \in Convs, Stamp(c) PROVE TypeOK'
  BY <1>11 DEF Stamp, Goto, execVars, modelVars, TypeOK, Labels, Threads
<1>12. ASSUME NEW c \in Convs, QueueFull(c) PROVE TypeOK'
  <2>1. /\ pc[c] = "defer" /\ retire_count' = retire_count - 1 /\ lock' = NoConv
        /\ UNCHANGED <<state, cancel, mem, slot_id, ready, slots, modelVars, execVars,
                       retired, stamp, advanced>>
    BY <1>12 DEF QueueFull
  <2>2. pc' \in [Threads -> Labels]
    BY <1>12 DEF QueueFull, Goto, TypeOK, Threads, Labels
  <2>3. retire_count' \in Nat
    <3>1. Pending = 1 /\ Collected \in Nat /\ Len(retired) \in Nat
      BY <1>0, <2>1 DEF Pending, Collected, TypeFacts
    <3> QED
      BY <2>1, <3>1 DEF CountInv
  <2> QED
    BY <2>1, <2>2, <2>3 DEF TypeOK, modelVars, execVars
<1>13. ASSUME NEW c \in Convs, Relock(c) PROVE TypeOK'
  BY <1>13 DEF Relock, Goto, epochVars, execVars, modelVars, TypeOK, Labels, Threads
<1>14. ASSUME NEW c \in Convs, PublishRetired(c) PROVE TypeOK'
  <2>1. /\ retired' = Append(retired, stamp) /\ stamp' = NoStamp /\ lock' = NoConv
        /\ pc[c] = "publish"
        /\ UNCHANGED <<state, cancel, mem, slot_id, ready, slots, modelVars, execVars,
                       retire_count, advanced>>
    BY <1>14 DEF PublishRetired
  <2>2. pc' \in [Threads -> Labels]
    BY <1>14 DEF PublishRetired, Goto, TypeOK, Threads, Labels
  <2>3. stamp' \in [ptr : Convs \cup {NoConv}, age : 0 .. GraceEpochs]
    BY <2>1 DEF NoStamp
  <2>4. retired' \in Seq([ptr : Convs, age : 0 .. GraceEpochs]) /\ Len(retired') <= QueueCapacity
    <3>1. retired \in Seq(Entry) /\ stamp \in Entry /\ Len(retired) < QueueCapacity
      BY <2>1 DEF RetireInv, TypeOK, Entry
    <3>2. retired' \in Seq(Entry) /\ Len(retired') = Len(retired) + 1 /\ Len(retired) \in Nat
      BY <2>1, <3>1, AppendFacts
    <3> QED
      BY <3>1, <3>2 DEF Entry
  <2> QED
    BY <2>1, <2>2, <2>3, <2>4 DEF TypeOK, modelVars, execVars
<1>15. ASSUME NEW c \in Convs, AwaitQuiescent(c) PROVE TypeOK'
  BY <1>15 DEF AwaitQuiescent, Goto, epochVars, execVars, modelVars, TypeOK, Labels, Threads
<1>16. ASSUME NEW c \in Convs, Free(c) PROVE TypeOK'
  <2>1. /\ pc[c] \in Referring /\ mem' = [mem EXCEPT ![c] = "freed"] /\ refcount' = refcount - 1
        /\ UNCHANGED <<state, cancel, slot_id, ready, slots, lock, executor, running, model,
                       execVars, epochVars>>
    BY <1>16 DEF Free, DropReference, Referring
  <2>2. pc' \in [Threads -> Labels]
    BY <1>16 DEF Free, DropReference, Goto, TypeOK, Threads, Labels
  <2>3. refcount' \in Nat
    <3>1. refcount \in Nat \ {0}
      BY <1>0, <2>1, Referred DEF TypeFacts
    <3> QED
      BY <2>1, <3>1
  <2> QED
    BY <2>1, <2>2, <2>3 DEF TypeOK, execVars, epochVars
<1>17. ASSUME OwnerRelease PROVE TypeOK'
  <2>1. /\ pc[Owner] \in Referring /\ refcount' = refcount - 1
        /\ UNCHANGED <<state, cancel, mem, slot_id, ready, slots, lock, executor, running, model,
                       execVars, epochVars>>
    BY <1>17 DEF OwnerRelease, DropReference, Referring
  <2>2. pc' \in [Threads -> Labels]
    BY <1>17 DEF OwnerRelease, DropReference, Goto, TypeOK, Threads, Labels
  <2>3. refcount' \in Nat
    <3>1. refcount \in Nat \ {0}
      BY <1>0, <2>1, Referred DEF TypeFacts
    <3> QED
      BY <2>1, <3>1
  <2> QED
    BY <2>1, <2>2, <2>3 DEF TypeOK, execVars, epochVars
<1>18. ASSUME NEW t \in Threads, StopExecutor(t) PROVE TypeOK'
  BY <1>18 DEF StopExecutor, Goto, epochVars, execVars, TypeOK, Labels, Threads
<1>19. ASSUME NEW t \in Threads, JoinExecutor(t) PROVE TypeOK'
  BY <1>19 DEF JoinExecutor, Goto, epochVars, execVars, TypeOK, Labels, Threads
<1>20. ASSUME NEW t \in Threads, Unload(t) PROVE TypeOK'
  BY <1>20 DEF Unload, Goto, epochVars, execVars, TypeOK, Labels, Threads
<1>21. ASSUME Loop PROVE TypeOK'
  BY <1>21 DEF Loop, clientVars, epochVars, modelVars, TypeOK, Labels, Threads
<1>22. ASSUME CollectOnce PROVE TypeOK'
  <2>1. /\ UNCHANGED <<pc, state, cancel, mem, slot_id, slots, lock, modelVars, xpc, snapshot,
                       todo, retire_count>>
        /\ rounds' = rounds + 1 /\ rounds <= GraceEpochs
        /\ advanced' = Older(advanced)
        /\ stamp' = IF stamp = NoStamp THEN stamp
                                       ELSE [ptr |-> stamp.ptr, age |-> Older(stamp.age)]
    BY <1>22 DEF CollectOnce
  <2>2. PICK n \in 0 .. Len(retired) :
          /\ ready' = [d \in Convs |-> ready[d] \/ \E i \in 1 .. n : retired[i].ptr = d]
          /\ retired' = [i \in 1 .. Len(retired) - n |->
                           [ptr |-> retired[i + n].ptr, age |-> Older(retired[i + n].age)]]
          /\ reclaimed' = reclaimed + n
    BY <1>22 DEF CollectOnce
  <2>3. \A age \in 0 .. GraceEpochs : Older(age) \in 0 .. GraceEpochs
    BY DEF Older
  <2>4. /\ rounds' \in 0 .. GraceEpochs + 1 /\ advanced' \in 0 .. GraceEpochs
        /\ reclaimed' \in Nat
    BY <1>0, <2>1, <2>2, <2>3 DEF TypeOK, TypeFacts
  <2>5. stamp' \in [ptr : Convs \cup {NoConv}, age : 0 .. GraceEpochs]
    BY <2>1, <2>3 DEF TypeOK
  <2>6. ready' \in [Convs -> BOOLEAN]
    <3>1. \A d \in Convs : (ready[d] \/ \E i \in 1 .. n : retired[i].ptr = d) \in BOOLEAN
      OBVIOUS
    <3> QED
      BY <2>2, <3>1
  <2>7. retired' \in Seq([ptr : Convs, age : 0 .. GraceEpochs]) /\ Len(retired') <= QueueCapacity
    <3>1. retired \in Seq(Entry) /\ Len(retired) <= QueueCapacity
      BY DEF TypeOK, Entry
    <3>2. ASSUME NEW i \in 1 .. Len(retired) - n
          PROVE  [ptr |-> retired[i + n].ptr, age |-> Older(retired[i + n].age)] \in Entry
      <4>1. i + n \in 1 .. Len(retired)
        BY <1>0, <3>2 DEF TypeFacts
      <4>2. retired[i + n] \in Entry
        BY <3>1, <4>1
      <4> QED
        BY <2>3, <4>2 DEF Entry
    <3>3. Len(retired) - n \in Nat
      BY <1>0 DEF TypeFacts
    <3>4. retired' \in Seq(Entry) /\ Len(retired') = Len(retired) - n
      <4>1. retired' \in [1 .. Len(retired) - n -> Entry]
        BY <2>2, <3>2
      <4> QED
        BY <3>3, <4>1, FunctionFacts
    <3> QED
      BY <1>0, <3>1, <3>4 DEF Entry, TypeFacts
  <2> QED
    BY <2>1, <2>4, <2>5, <2>6, <2>7 DEF TypeOK, modelVars
<1>23. ASSUME CollectEnd PROVE TypeOK'
  <2>1. /\ xpc = "collect" /\ xpc' = "snapshot" /\ retire_count' = retire_count - reclaimed
        /\ UNCHANGED <<rounds, snapshot, todo, reclaimed, clientVars, slots, lock, modelVars,
                       retired, stamp, advanced>>
    BY <1>23 DEF CollectEnd
  <2>2. retire_count' \in Nat
    <3>1. Collected = reclaimed /\ Pending \in Nat /\ Len(retired) \in Nat /\ reclaimed \in Nat
      BY <1>0, <2>1 DEF Pending, Collected, TypeFacts
    <3> QED
      BY <2>1, <3>1 DEF CountInv
  <2> QED
    BY <2>1, <2>2 DEF TypeOK, clientVars, modelVars
<1>24. ASSUME Snapshot PROVE TypeOK'
  BY <1>24 DEF Snapshot, clientVars, epochVars, modelVars, TypeOK, Labels, Threads
<1>25. ASSUME NEW c \in Convs, Visit(c) PROVE TypeOK'
  BY <1>25 DEF Visit, epochVars, modelVars, TypeOK, Labels, Threads
<1>26. ASSUME Leave PROVE TypeOK'
  BY <1>26 DEF Leave, clientVars, epochVars, modelVars, TypeOK, Labels, Threads
<1>27. CASE UNCHANGED vars
  BY <1>0, <1>27 DEF vars, clientVars, epochVars, execVars, modelVars, LifetimeInv, TypeOK, Labels,
  Threads
<1> QED
  BY <1>1, <1>2, <1>3, <1>4, <1>5, <1>6, <1>7, <1>8, <1>9, <1>10, <1>11, <1>12, <1>13, <1>14, <1>15,
  <1>16, <1>17, <1>18, <1>19, <1>20, <1>21, <1>22, <1>23, <1>24, <1>25, <1>26, <1>27 DEF Next,
  Create, Destroy, ReleaseModel, Execute, Terminated

LEMMA NextCreate == ConvParameters /\ LifetimeInv /\ [Next]_vars => CreateInv'
<1> SUFFICES ASSUME ConvParameters, LifetimeInv, [Next]_vars PROVE CreateInv'
  OBVIOUS
<1>0. TypeFacts
  BY Facts DEF LifetimeInv
<1>1. ASSUME NEW c \in Convs, EnsureExecutor(c) PROVE CreateInv'
  BY <1>0, <1>1 DEF EnsureExecutor, Goto, epochVars, modelVars, LifetimeInv, CreateInv, Creating,
  Releasing, TypeFacts
<1>2. ASSUME NEW c \in Convs, Allocate(c) PROVE CreateInv'
  BY <1>0, <1>2 DEF Allocate, Goto, epochVars, execVars, LifetimeInv, CreateInv, Creating,
  Releasing, TypeFacts
<1>3. ASSUME NEW c \in Convs, TakeSlot(c) PROVE CreateInv'
  BY <1>0, <1>3 DEF TakeSlot, Goto, epochVars, execVars, modelVars, LifetimeInv, CreateInv,
  Creating, Releasing, TypeFacts
<1>4. ASSUME NEW c \in Convs, RegisterHandle(c) PROVE CreateInv'
  BY <1>0, <1>4 DEF RegisterHandle, Goto, epochVars, execVars, modelVars, LifetimeInv, CreateInv,
  Creating, Releasing, TypeFacts
<1>5. ASSUME NEW c \in Convs, Unslot(c) PROVE CreateInv'
  BY <1>0, <1>5 DEF Unslot, Goto, epochVars, execVars, modelVars, LifetimeInv, CreateInv, Creating,
  Releasing, TypeFacts
<1>6. ASSUME NEW c \in Convs, DestroyBegin(c) PROVE CreateInv'
  BY <1>0, <1>6 DEF DestroyBegin, Goto, epochVars, execVars, modelVars, LifetimeInv, CreateInv,
  Creating, Releasing, TypeFacts
<1>7. ASSUME NEW c \in Convs, AwaitTerminal(c) PROVE CreateInv'
  BY <1>0, <1>7 DEF AwaitTerminal, Goto, epochVars, execVars, modelVars, LifetimeInv, CreateInv,
  Creating, Releasing, TypeFacts
<1>8. ASSUME NEW c \in Convs, RemoveSlot(c) PROVE CreateInv'
  BY <1>0, <1>8 DEF RemoveSlot, Goto, epochVars, execVars, modelVars, LifetimeInv, CreateInv,
  Creating, Releasing, TypeFacts
<1>9. ASSUME NEW c \in Convs, CountRetirement(c) PROVE CreateInv'
  BY <1>0, <1>9 DEF CountRetirement, Goto, execVars, modelVars, LifetimeInv, CreateInv, Creating,
  Releasing, TypeFacts
<1>10. ASSUME NEW c \in Convs, Stamp(c) PROVE CreateInv'
  BY <1>0, <1>10 DEF Stamp, Goto, execVars, modelVars, LifetimeInv, CreateInv, Creating, Releasing,
  TypeFacts
<1>11. ASSUME NEW c \in Convs, QueueFull(c) PROVE CreateInv'
  BY <1>0, <1>11 DEF QueueFull, Goto, execVars, modelVars, LifetimeInv, CreateInv, Creating,
  Releasing, TypeFacts
<1>12. ASSUME NEW c \in Convs, Relock(c) PROVE CreateInv'
  BY <1>0, <1>12 DEF Relock, Goto, epochVars, execVars, modelVars, LifetimeInv, CreateInv, Creating,
  Releasing, TypeFacts
<1>13. ASSUME NEW c \in Convs, PublishRetired(c) PROVE CreateInv'
  BY <1>0, <1>13 DEF PublishRetired, Goto, execVars, modelVars, LifetimeInv, CreateInv, Creating,
  Releasing, TypeFacts
<1>14. ASSUME NEW c \in Convs, AwaitQuiescent(c) PROVE CreateInv'
  BY <1>0, <1>14 DEF AwaitQuiescent, Goto, epochVars, execVars, modelVars, LifetimeInv, CreateInv,
  Creating, Releasing, TypeFacts
<1>15. ASSUME NEW c \in Convs, Free(c) PROVE CreateInv'
  BY <1>0, <1>15 DEF Free, DropReference, Goto, epochVars, execVars, LifetimeInv, CreateInv,
  Creating, Releasing, TypeFacts
<1>16. ASSUME OwnerRelease PROVE CreateInv'
  BY <1>0, <1>16 DEF OwnerRelease, DropReference, Goto, epochVars, execVars, LifetimeInv, CreateInv,
  Creating, Releasing, TypeFacts
<1>17. ASSUME NEW t \in Threads, StopExecutor(t) PROVE CreateInv'
  BY <1>0, <1>17 DEF StopExecutor, Goto, epochVars, execVars, LifetimeInv, CreateInv, Creating,
  Releasing, TypeFacts
<1>18. ASSUME NEW t \in Threads, JoinExecutor(t) PROVE CreateInv'
  BY <1>0, <1>18 DEF JoinExecutor, Goto, epochVars, execVars, LifetimeInv, CreateInv, Creating,
  Releasing, TypeFacts
<1>19. ASSUME NEW t \in Threads, Unload(t) PROVE CreateInv'
  BY <1>0, <1>19 DEF Unload, Goto, epochVars, execVars, LifetimeInv, CreateInv, Creating, Releasing,
  TypeFacts
<1>20. CASE (\E c \in Convs : Decode(c)) \/ Loop \/ CollectOnce \/ CollectEnd \/ Snapshot \/ (\E
          c \in Convs : Visit(c)) \/ Leave \/ UNCHANGED vars
  BY <1>0, <1>20 DEF Decode, epochVars, execVars, modelVars, Loop, clientVars, CollectOnce,
  CollectEnd, Snapshot, Visit, Leave, vars, LifetimeInv, CreateInv, Creating, Releasing
<1> QED
  BY <1>1, <1>2, <1>3, <1>4, <1>5, <1>6, <1>7, <1>8, <1>9, <1>10, <1>11, <1>12, <1>13, <1>14, <1>15,
  <1>16, <1>17, <1>18, <1>19, <1>20 DEF Next, Create, Destroy, ReleaseModel, Execute, Terminated

LEMMA NextSlot == ConvParameters /\ LifetimeInv /\ [Next]_vars => SlotInv'
<1> SUFFICES ASSUME ConvParameters, LifetimeInv, [Next]_vars PROVE SlotInv'
  OBVIOUS
<1>0. TypeFacts
  BY Facts DEF LifetimeInv
<1>1. ASSUME NEW c \in Convs, EnsureExecutor(c) PROVE SlotInv'
  <2>1. PICK l \in {"ensured", "refused"} : pc' = [pc EXCEPT ![c] = l]
    BY <1>1 DEF EnsureExecutor, Goto
  <2>2. pc[c] = "new" /\ UNCHANGED <<state, slot_id, slots>>
    BY <1>1 DEF EnsureExecutor
  <2> QED
    BY <1>0, <2>1, <2>2 DEF LifetimeInv, SlotInv, Slotted, Slots, TypeFacts
<1>2. ASSUME NEW c \in Convs, Allocate(c) PROVE SlotInv'
  BY <1>0, <1>2 DEF Allocate, Goto, epochVars, execVars, LifetimeInv, SlotInv, Slotted, Slots,
  TypeFacts
<1>3. ASSUME NEW c \in Convs, TakeSlot(c) PROVE SlotInv'
  <2>1. pc[c] = "allocated" /\ UNCHANGED state
    BY <1>3 DEF TakeSlot
  <2>2. CASE pc' = [pc EXCEPT ![c] = "undo"] /\ UNCHANGED <<slots, slot_id>>
    <3>1. \A d \in Convs : pc'[d] = IF d = c THEN "undo" ELSE pc[d]
      BY <1>0, <2>2 DEF TypeFacts
    <3>2. "allocated" \notin Slotted
      BY DEF Slotted
    <3>3. \A j \in Slots : slots[j] # NoConv => slots[j] \in Convs \ {c}
      <4> TAKE j \in Slots
      <4> HAVE slots[j] # NoConv
      <4>1. slots[j] \in Convs /\ pc[slots[j]] \in Slotted
        BY <1>0 DEF TypeFacts, LifetimeInv, SlotInv
      <4> QED
        BY <2>1, <3>2, <4>1
    <3> QED
      BY <2>1, <2>2, <3>1, <3>3 DEF LifetimeInv, SlotInv, Slotted
  <2>3. CASE \E i \in {j \in Slots : slots[j] = NoConv} :
               /\ pc' = [pc EXCEPT ![c] = "slotted"]
               /\ slots' = [slots EXCEPT ![i] = c]
               /\ slot_id' = [slot_id EXCEPT ![c] = i]
    <3>1. PICK i \in {j \in Slots : slots[j] = NoConv} :
            /\ pc' = [pc EXCEPT ![c] = "slotted"]
            /\ slots' = [slots EXCEPT ![i] = c]
            /\ slot_id' = [slot_id EXCEPT ![c] = i]
      BY <2>3
    <3>2. /\ \A d \in Convs : /\ pc'[d] = IF d = c THEN "slotted" ELSE pc[d]
                             /\ slot_id'[d] = IF d = c THEN i ELSE slot_id[d]
          /\ \A j \in Slots : slots'[j] = IF j = i THEN c ELSE slots[j]
          /\ slots[i] = NoConv /\ c \notin {slots[j] : j \in Slots}
      BY <1>0, <2>1, <3>1 DEF LifetimeInv, SlotInv, Slotted, TypeFacts
    <3>3. \A d \in Convs : pc'[d] \in Slotted => slot_id'[d] \in Slots /\ slots'[slot_id'[d]] = d
      BY <1>0, <3>2 DEF LifetimeInv, SlotInv, TypeFacts
    <3>4. \A j \in Slots : slots'[j] # NoConv =>
            pc'[slots'[j]] \in Slotted /\ slot_id'[slots'[j]] = j
      BY <1>0, <3>2 DEF LifetimeInv, SlotInv, Slotted, TypeFacts
    <3>5. \A d \in Convs : state'[d] = "decoding" => pc'[d] \in {"live", "waiting"}
      BY <2>1, <3>2 DEF LifetimeInv, SlotInv
    <3> QED
      BY <3>3, <3>4, <3>5 DEF SlotInv
  <2> QED
    BY <1>3, <2>2, <2>3 DEF TakeSlot, Goto
<1>4. ASSUME NEW c \in Convs, RegisterHandle(c) PROVE SlotInv'
  <2>1. PICK l \in {"live", "unslot"} : pc' = [pc EXCEPT ![c] = l]
    BY <1>4 DEF RegisterHandle, Goto
  <2>2. pc[c] = "slotted" /\ UNCHANGED <<state, slot_id, slots>>
    BY <1>4 DEF RegisterHandle
  <2> QED
    BY <1>0, <2>1, <2>2 DEF LifetimeInv, SlotInv, Slotted, TypeFacts
<1>5. ASSUME NEW c \in Convs, Unslot(c) PROVE SlotInv'
  BY <1>0, <1>5 DEF Unslot, Goto, epochVars, execVars, modelVars, LifetimeInv, SlotInv, Slotted,
  Slots, TypeFacts
<1>6. ASSUME NEW c \in Convs, Decode(c) PROVE SlotInv'
  BY <1>0, <1>6 DEF Decode, epochVars, execVars, modelVars, LifetimeInv, SlotInv, Slotted, Slots,
  TypeFacts
<1>7. ASSUME NEW c \in Convs, DestroyBegin(c) PROVE SlotInv'
  <2>1. PICK l \in {"waiting", "remove"} :
          pc' = [pc EXCEPT ![c] = l] /\ (state[c] = "decoding" => l = "waiting")
    BY <1>7 DEF DestroyBegin, Goto
  <2>2. pc[c] = "live" /\ UNCHANGED <<state, slot_id, slots>>
    BY <1>7 DEF DestroyBegin
  <2> QED
    BY <1>0, <2>1, <2>2 DEF LifetimeInv, SlotInv, Slotted, TypeFacts
<1>8. ASSUME NEW c \in Convs, AwaitTerminal(c) PROVE SlotInv'
  <2>1. /\ pc[c] = "waiting" /\ state[c] # "decoding" /\ pc' = [pc EXCEPT ![c] = "remove"]
        /\ UNCHANGED <<state, slot_id, slots>>
    BY <1>8 DEF AwaitTerminal, Goto
  <2> QED
    BY <1>0, <2>1 DEF LifetimeInv, SlotInv, Slotted, TypeFacts
<1>9. ASSUME NEW c \in Convs, RemoveSlot(c) PROVE SlotInv'
  <2>1. /\ pc[c] = "remove" /\ pc' = [pc EXCEPT ![c] = "retire"]
        /\ slots' = [slots EXCEPT ![slot_id[c]] = NoConv]
        /\ slot_id' = [slot_id EXCEPT ![c] = NoSlot] /\ UNCHANGED state
    BY <1>9 DEF RemoveSlot, Goto
  <2>2. slot_id[c] \in Slots /\ slots[slot_id[c]] = c
    BY <2>1 DEF LifetimeInv, SlotInv, Slotted
  <2>3. /\ pc'[c] = "retire" /\ slots'[slot_id[c]] = NoConv
        /\ \A d \in Convs : d # c => pc'[d] = pc[d] /\ slot_id'[d] = slot_id[d]
        /\ \A j \in Slots : j # slot_id[c] => slots'[j] = slots[j]
    BY <1>0, <2>1, <2>2 DEF TypeFacts
  <2>4. ASSUME NEW d \in Convs, pc'[d] \in Slotted
        PROVE  slot_id'[d] \in Slots /\ slots'[slot_id'[d]] = d
    <3>1. d # c /\ slot_id'[d] = slot_id[d] /\ pc'[d] = pc[d]
      <4>1. "retire" \notin Slotted
        BY DEF Slotted
      <4>2. d # c
        BY <2>3, <2>4, <4>1
      <4> QED
        BY <2>3, <4>2
    <3>2. slot_id[d] \in Slots /\ slots[slot_id[d]] = d
      BY <2>4, <3>1 DEF LifetimeInv, SlotInv
    <3>3. slot_id[d] # slot_id[c]
      BY <2>2, <3>1, <3>2
    <3> QED
      BY <2>3, <3>1, <3>2, <3>3
  <2>5. ASSUME NEW j \in Slots, slots'[j] # NoConv
        PROVE  pc'[slots'[j]] \in Slotted /\ slot_id'[slots'[j]] = j
    <3>1. j # slot_id[c] /\ slots'[j] = slots[j]
      BY <2>3, <2>5
    <3>2. slots[j] \in Convs /\ pc[slots[j]] \in Slotted /\ slot_id[slots[j]] = j
      BY <1>0, <2>5, <3>1 DEF LifetimeInv, SlotInv, TypeFacts
    <3>3. slots[j] # c
      BY <3>1, <3>2
    <3>4. pc'[slots[j]] = pc[slots[j]] /\ slot_id'[slots[j]] = slot_id[slots[j]]
      BY <2>3, <3>2, <3>3
    <3> QED
      BY <3>1, <3>2, <3>4
  <2>6. \A d \in Convs : state'[d] = "decoding" => pc'[d] \in {"live", "waiting"}
    BY <2>1, <2>3 DEF LifetimeInv, SlotInv
  <2> QED
    BY <2>4, <2>5, <2>6 DEF SlotInv
<1>10. ASSUME NEW c \in Convs, CountRetirement(c) PROVE SlotInv'
  BY <1>0, <1>10 DEF CountRetirement, Goto, execVars, modelVars, LifetimeInv, SlotInv, Slotted,
  Slots, TypeFacts
<1>11. ASSUME NEW c \in Convs, Stamp(c) PROVE SlotInv'
  BY <1>0, <1>11 DEF Stamp, Goto, execVars, modelVars, LifetimeInv, SlotInv, Slotted, Slots,
  TypeFacts
<1>12. ASSUME NEW c \in Convs, QueueFull(c) PROVE SlotInv'
  BY <1>0, <1>12 DEF QueueFull, Goto, execVars, modelVars, LifetimeInv, SlotInv, Slotted, Slots,
  TypeFacts
<1>13. ASSUME NEW c \in Convs, Relock(c) PROVE SlotInv'
  BY <1>0, <1>13 DEF Relock, Goto, epochVars, execVars, modelVars, LifetimeInv, SlotInv, Slotted,
  Slots, TypeFacts
<1>14. ASSUME NEW c \in Convs, PublishRetired(c) PROVE SlotInv'
  BY <1>0, <1>14 DEF PublishRetired, Goto, execVars, modelVars, LifetimeInv, SlotInv, Slotted,
  Slots, TypeFacts
<1>15. ASSUME NEW c \in Convs, AwaitQuiescent(c) PROVE SlotInv'
  <2>1. /\ pc[c] = "quiesce" /\ pc' = [pc EXCEPT ![c] = "release"]
        /\ UNCHANGED <<state, slot_id, slots>>
    BY <1>15 DEF AwaitQuiescent, Goto
  <2> QED
    BY <1>0, <2>1 DEF LifetimeInv, SlotInv, Slotted, TypeFacts
<1>16. ASSUME NEW c \in Convs, Free(c) PROVE SlotInv'
  BY <1>0, <1>16 DEF Free, DropReference, Goto, epochVars, execVars, LifetimeInv, SlotInv, Slotted,
  Slots, TypeFacts
<1>17. ASSUME OwnerRelease PROVE SlotInv'
  BY <1>0, <1>17 DEF OwnerRelease, DropReference, Goto, epochVars, execVars, LifetimeInv, SlotInv,
  Slotted, Slots, TypeFacts
<1>18. ASSUME NEW t \in Threads, StopExecutor(t) PROVE SlotInv'
  BY <1>0, <1>18 DEF StopExecutor, Goto, epochVars, execVars, LifetimeInv, SlotInv, Slotted, Slots,
  TypeFacts
<1>19. ASSUME NEW t \in Threads, JoinExecutor(t) PROVE SlotInv'
  BY <1>0, <1>19 DEF JoinExecutor, Goto, epochVars, execVars, LifetimeInv, SlotInv, Slotted, Slots,
  TypeFacts
<1>20. ASSUME NEW t \in Threads, Unload(t) PROVE SlotInv'
  BY <1>0, <1>20 DEF Unload, Goto, epochVars, execVars, LifetimeInv, SlotInv, Slotted, Slots,
  TypeFacts
<1>21. ASSUME NEW c \in Convs, Visit(c) PROVE SlotInv'
  BY <1>0, <1>21 DEF Visit, epochVars, modelVars, LifetimeInv, SlotInv, Slotted, Slots, TypeFacts
<1>22. CASE Loop \/ CollectOnce \/ CollectEnd \/ Snapshot \/ Leave \/ UNCHANGED vars
  BY <1>0, <1>22 DEF Loop, clientVars, epochVars, modelVars, CollectOnce, CollectEnd, Snapshot,
  Leave, vars, execVars, LifetimeInv, SlotInv, Slotted, Slots
<1> QED
  BY <1>1, <1>2, <1>3, <1>4, <1>5, <1>6, <1>7, <1>8, <1>9, <1>10, <1>11, <1>12, <1>13, <1>14, <1>15,
  <1>16, <1>17, <1>18, <1>19, <1>20, <1>21, <1>22 DEF Next, Create, Destroy, ReleaseModel, Execute,
  Terminated

LEMMA NextRetire == ConvParameters /\ LifetimeInv /\ [Next]_vars => RetireInv'
<1> SUFFICES ASSUME ConvParameters, LifetimeInv, [Next]_vars PROVE RetireInv'
  OBVIOUS
<1>0. TypeFacts
  BY Facts DEF LifetimeInv
<1>1. ASSUME NEW c \in Convs, EnsureExecutor(c) PROVE RetireInv'
  BY <1>0, <1>1 DEF EnsureExecutor, Goto, epochVars, modelVars, LifetimeInv, RetireInv, Locking,
  TypeFacts
<1>2. ASSUME NEW c \in Convs, Allocate(c) PROVE RetireInv'
  BY <1>0, <1>2 DEF Allocate, Goto, epochVars, execVars, LifetimeInv, RetireInv, Locking, TypeFacts
<1>3. ASSUME NEW c \in Convs, TakeSlot(c) PROVE RetireInv'
  BY <1>0, <1>3 DEF TakeSlot, Goto, epochVars, execVars, modelVars, LifetimeInv, RetireInv, Locking,
  TypeFacts
<1>4. ASSUME NEW c \in Convs, RegisterHandle(c) PROVE RetireInv'
  BY <1>0, <1>4 DEF RegisterHandle, Goto, epochVars, execVars, modelVars, LifetimeInv, RetireInv,
  Locking, TypeFacts
<1>5. ASSUME NEW c \in Convs, Unslot(c) PROVE RetireInv'
  BY <1>0, <1>5 DEF Unslot, Goto, epochVars, execVars, modelVars, LifetimeInv, RetireInv, Locking,
  TypeFacts
<1>6. ASSUME NEW c \in Convs, DestroyBegin(c) PROVE RetireInv'
  BY <1>0, <1>6 DEF DestroyBegin, Goto, epochVars, execVars, modelVars, LifetimeInv, RetireInv,
  Locking, TypeFacts
<1>7. ASSUME NEW c \in Convs, AwaitTerminal(c) PROVE RetireInv'
  BY <1>0, <1>7 DEF AwaitTerminal, Goto, epochVars, execVars, modelVars, LifetimeInv, RetireInv,
  Locking, TypeFacts
<1>8. ASSUME NEW c \in Convs, RemoveSlot(c) PROVE RetireInv'
  BY <1>0, <1>8 DEF RemoveSlot, Goto, epochVars, execVars, modelVars, LifetimeInv, RetireInv,
  Locking, TypeFacts
<1>9. ASSUME NEW c \in Convs, CountRetirement(c) PROVE RetireInv'
  BY <1>0, <1>9 DEF CountRetirement, Goto, execVars, modelVars, LifetimeInv, RetireInv, Locking,
  TypeFacts
<1>10. ASSUME NEW c \in Convs, Stamp(c) PROVE RetireInv'
  BY <1>0, <1>10 DEF Stamp, Goto, execVars, modelVars, LifetimeInv, RetireInv, Locking, TypeFacts
<1>11. ASSUME NEW c \in Convs, QueueFull(c) PROVE RetireInv'
  BY <1>0, <1>11 DEF QueueFull, Goto, execVars, modelVars, LifetimeInv, RetireInv, Locking,
  TypeFacts
<1>12. ASSUME NEW c \in Convs, Relock(c) PROVE RetireInv'
  BY <1>0, <1>12 DEF Relock, Goto, epochVars, execVars, modelVars, LifetimeInv, RetireInv, Locking,
  TypeFacts
<1>13. ASSUME NEW c \in Convs, PublishRetired(c) PROVE RetireInv'
  <2>1. /\ pc[c] = "publish" /\ pc' = [pc EXCEPT ![c] = "quiesce"]
        /\ lock = c /\ lock' = NoConv /\ stamp'.ptr = NoConv
    BY <1>13 DEF PublishRetired, Goto, NoStamp, LifetimeInv, RetireInv, Locking
  <2> QED
    BY <1>0, <2>1 DEF LifetimeInv, RetireInv, Locking, TypeFacts
<1>14. ASSUME NEW c \in Convs, AwaitQuiescent(c) PROVE RetireInv'
  BY <1>0, <1>14 DEF AwaitQuiescent, Goto, epochVars, execVars, modelVars, LifetimeInv, RetireInv,
  Locking, TypeFacts
<1>15. ASSUME NEW c \in Convs, Free(c) PROVE RetireInv'
  BY <1>0, <1>15 DEF Free, DropReference, Goto, epochVars, execVars, LifetimeInv, RetireInv,
  Locking, TypeFacts
<1>16. ASSUME OwnerRelease PROVE RetireInv'
  BY <1>0, <1>16 DEF OwnerRelease, DropReference, Goto, epochVars, execVars, LifetimeInv, RetireInv,
  Locking, TypeFacts
<1>17. ASSUME NEW t \in Threads, StopExecutor(t) PROVE RetireInv'
  BY <1>0, <1>17 DEF StopExecutor, Goto, epochVars, execVars, LifetimeInv, RetireInv, Locking,
  TypeFacts
<1>18. ASSUME NEW t \in Threads, JoinExecutor(t) PROVE RetireInv'
  BY <1>0, <1>18 DEF JoinExecutor, Goto, epochVars, execVars, LifetimeInv, RetireInv, Locking,
  TypeFacts
<1>19. ASSUME NEW t \in Threads, Unload(t) PROVE RetireInv'
  BY <1>0, <1>19 DEF Unload, Goto, epochVars, execVars, LifetimeInv, RetireInv, Locking, TypeFacts
<1>20. ASSUME CollectOnce PROVE RetireInv'
  <2>1. /\ UNCHANGED <<pc, lock>> /\ stamp'.ptr = stamp.ptr
    BY <1>20 DEF CollectOnce
  <2>2. PICK n \in 0 .. Len(retired) :
          retired' = [i \in 1 .. Len(retired) - n |->
                        [ptr |-> retired[i + n].ptr, age |-> Older(retired[i + n].age)]]
    BY <1>20 DEF CollectOnce
  <2>3. Len(retired') <= Len(retired) /\ Len(retired') \in Nat
    <3>1. Len(retired) - n \in Nat /\ Len(retired) - n <= Len(retired)
      BY <1>0 DEF TypeFacts
    <3>2. Len(retired') = Len(retired) - n
      BY <2>2, <3>1
    <3> QED
      BY <3>1, <3>2
  <2>4. \A d \in Convs : pc[d] = "publish" => Len(retired') < QueueCapacity
    BY <1>0, <2>3, QueueAssumption DEF LifetimeInv, RetireInv, TypeFacts
  <2> QED
    BY <2>1, <2>4 DEF LifetimeInv, RetireInv
<1>21. CASE (\E c \in Convs : Decode(c)) \/ Loop \/ CollectEnd \/ Snapshot \/ (\E c \in Convs :
          Visit(c)) \/ Leave \/ UNCHANGED vars
  BY <1>0, <1>21 DEF Decode, epochVars, execVars, modelVars, Loop, clientVars, CollectEnd, Snapshot,
  Visit, Leave, vars, LifetimeInv, RetireInv, Locking
<1> QED
  BY <1>1, <1>2, <1>3, <1>4, <1>5, <1>6, <1>7, <1>8, <1>9, <1>10, <1>11, <1>12, <1>13, <1>14, <1>15,
  <1>16, <1>17, <1>18, <1>19, <1>20, <1>21 DEF Next, Create, Destroy, ReleaseModel, Execute,
  Terminated

LEMMA NextQueue == ConvParameters /\ LifetimeInv /\ [Next]_vars => QueueInv'
<1> SUFFICES ASSUME ConvParameters, LifetimeInv, [Next]_vars PROVE QueueInv'
  OBVIOUS
<1>0. TypeFacts
  BY Facts DEF LifetimeInv
<1>1. ASSUME NEW c \in Convs, EnsureExecutor(c) PROVE QueueInv'
  BY <1>0, <1>1 DEF EnsureExecutor, Goto, epochVars, modelVars, LifetimeInv, QueueInv, TypeFacts
<1>2. ASSUME NEW c \in Convs, Allocate(c) PROVE QueueInv'
  BY <1>0, <1>2 DEF Allocate, Goto, epochVars, execVars, LifetimeInv, QueueInv, TypeFacts
<1>3. ASSUME NEW c \in Convs, TakeSlot(c) PROVE QueueInv'
  BY <1>0, <1>3 DEF TakeSlot, Goto, epochVars, execVars, modelVars, LifetimeInv, QueueInv, TypeFacts
<1>4. ASSUME NEW c \in Convs, RegisterHandle(c) PROVE QueueInv'
  BY <1>0, <1>4 DEF RegisterHandle, Goto, epochVars, execVars, modelVars, LifetimeInv, QueueInv,
  TypeFacts
<1>5. ASSUME NEW c \in Convs, Unslot(c) PROVE QueueInv'
  BY <1>0, <1>5 DEF Unslot, Goto, epochVars, execVars, modelVars, LifetimeInv, QueueInv, TypeFacts
<1>6. ASSUME NEW c \in Convs, DestroyBegin(c) PROVE QueueInv'
  BY <1>0, <1>6 DEF DestroyBegin, Goto, epochVars, execVars, modelVars, LifetimeInv, QueueInv,
  TypeFacts
<1>7. ASSUME NEW c \in Convs, AwaitTerminal(c) PROVE QueueInv'
  BY <1>0, <1>7 DEF AwaitTerminal, Goto, epochVars, execVars, modelVars, LifetimeInv, QueueInv,
  TypeFacts
<1>8. ASSUME NEW c \in Convs, RemoveSlot(c) PROVE QueueInv'
  BY <1>0, <1>8 DEF RemoveSlot, Goto, epochVars, execVars, modelVars, LifetimeInv, QueueInv,
  TypeFacts
<1>9. ASSUME NEW c \in Convs, CountRetirement(c) PROVE QueueInv'
  BY <1>0, <1>9 DEF CountRetirement, Goto, execVars, modelVars, LifetimeInv, QueueInv, TypeFacts
<1>10. ASSUME NEW c \in Convs, Stamp(c) PROVE QueueInv'
  BY <1>0, <1>10 DEF Stamp, Goto, execVars, modelVars, LifetimeInv, QueueInv, TypeFacts
<1>11. ASSUME NEW c \in Convs, QueueFull(c) PROVE QueueInv'
  BY <1>0, <1>11 DEF QueueFull, Goto, execVars, modelVars, LifetimeInv, QueueInv, TypeFacts
<1>12. ASSUME NEW c \in Convs, Relock(c) PROVE QueueInv'
  BY <1>0, <1>12 DEF Relock, Goto, epochVars, execVars, modelVars, LifetimeInv, QueueInv, TypeFacts
<1>13. ASSUME NEW c \in Convs, PublishRetired(c) PROVE QueueInv'
  <2>1. /\ pc[c] = "publish" /\ pc' = [pc EXCEPT ![c] = "quiesce"] /\ stamp.ptr = c
        /\ retired' = Append(retired, stamp) /\ UNCHANGED ready
    BY <1>13 DEF PublishRetired, Goto, LifetimeInv, RetireInv
  <2>2. /\ DOMAIN retired' = 1 .. Len(retired) + 1
        /\ retired'[Len(retired) + 1].ptr = c
        /\ \A i \in 1 .. Len(retired) : retired'[i] = retired[i]
    <3>1. retired \in Seq(Entry) /\ stamp \in Entry
      BY <2>1 DEF LifetimeInv, TypeOK, Entry
    <3> QED
      BY <2>1, <3>1, AppendFacts
  <2>3. ~ready[c] /\ \A i \in DOMAIN retired : retired[i].ptr # c
    BY <2>1 DEF LifetimeInv, QueueInv, ReadyInv, Releasing
  <2>4. ASSUME NEW i \in DOMAIN retired'
        PROVE  \/ i = Len(retired) + 1 /\ retired'[i].ptr = c
               \/ i \in DOMAIN retired /\ retired'[i] = retired[i]
    BY <1>0, <2>2, <2>4 DEF TypeFacts
  <2>5. ASSUME NEW i \in DOMAIN retired'
        PROVE  pc'[retired'[i].ptr] = "quiesce" /\ ~ready'[retired'[i].ptr]
    BY <1>0, <2>1, <2>3, <2>4 DEF LifetimeInv, QueueInv, TypeFacts
  <2>6. ASSUME NEW i \in DOMAIN retired', NEW j \in DOMAIN retired',
               retired'[j].ptr = retired'[i].ptr
        PROVE  j = i
    BY <2>3, <2>4, <2>6 DEF LifetimeInv, QueueInv
  <2> QED
    BY <2>5, <2>6 DEF QueueInv
<1>14. ASSUME NEW c \in Convs, AwaitQuiescent(c) PROVE QueueInv'
  BY <1>0, <1>14 DEF AwaitQuiescent, Goto, epochVars, execVars, modelVars, LifetimeInv, QueueInv,
  TypeFacts
<1>15. ASSUME NEW c \in Convs, Free(c) PROVE QueueInv'
  BY <1>0, <1>15 DEF Free, DropReference, Goto, epochVars, execVars, LifetimeInv, QueueInv,
  TypeFacts
<1>16. ASSUME OwnerRelease PROVE QueueInv'
  BY <1>0, <1>16 DEF OwnerRelease, DropReference, Goto, epochVars, execVars, LifetimeInv, QueueInv,
  TypeFacts
<1>17. ASSUME NEW t \in Threads, StopExecutor(t) PROVE QueueInv'
  BY <1>0, <1>17 DEF StopExecutor, Goto, epochVars, execVars, LifetimeInv, QueueInv, TypeFacts
<1>18. ASSUME NEW t \in Threads, JoinExecutor(t) PROVE QueueInv'
  BY <1>0, <1>18 DEF JoinExecutor, Goto, epochVars, execVars, LifetimeInv, QueueInv, TypeFacts
<1>19. ASSUME NEW t \in Threads, Unload(t) PROVE QueueInv'
  BY <1>0, <1>19 DEF Unload, Goto, epochVars, execVars, LifetimeInv, QueueInv, TypeFacts
<1>20. ASSUME CollectOnce PROVE QueueInv'
  <2>1. PICK n \in 0 .. Len(retired) :
          /\ ready' = [d \in Convs |-> ready[d] \/ \E i \in 1 .. n : retired[i].ptr = d]
          /\ retired' = [i \in 1 .. Len(retired) - n |->
                           [ptr |-> retired[i + n].ptr, age |-> Older(retired[i + n].age)]]
    BY <1>20 DEF CollectOnce
  <2>2. UNCHANGED pc
    BY <1>20 DEF CollectOnce
  <2>3. ASSUME NEW i \in DOMAIN retired'
        PROVE  /\ i \in Nat /\ i + n \in DOMAIN retired /\ i + n \notin 1 .. n
               /\ retired'[i].ptr = retired[i + n].ptr /\ retired[i + n].ptr \in Convs
    BY <1>0, <2>1, <2>3 DEF TypeFacts
  <2>4. ASSUME NEW i \in DOMAIN retired'
        PROVE  pc'[retired'[i].ptr] = "quiesce" /\ ~ready'[retired'[i].ptr]
    <3>1. ~ready[retired[i + n].ptr] /\ pc[retired[i + n].ptr] = "quiesce"
      BY <2>3 DEF LifetimeInv, QueueInv
    <3>2. ASSUME NEW k \in 1 .. n PROVE retired[k].ptr # retired[i + n].ptr
      <4>1. k \in DOMAIN retired /\ k # i + n
        BY <1>0, <2>3 DEF TypeFacts
      <4> QED
        BY <2>3, <4>1 DEF LifetimeInv, QueueInv
    <3> QED
      BY <2>1, <2>2, <2>3, <3>1, <3>2
  <2>5. ASSUME NEW i \in DOMAIN retired', NEW j \in DOMAIN retired',
               retired'[j].ptr = retired'[i].ptr
        PROVE  j = i
    <3>1. j + n = i + n
      BY <2>3, <2>5 DEF LifetimeInv, QueueInv
    <3> QED
      BY <2>3, <3>1
  <2> QED
    BY <2>4, <2>5 DEF QueueInv
<1>21. CASE (\E c \in Convs : Decode(c)) \/ Loop \/ CollectEnd \/ Snapshot \/ (\E c \in Convs :
          Visit(c)) \/ Leave \/ UNCHANGED vars
  BY <1>0, <1>21 DEF Decode, epochVars, execVars, modelVars, Loop, clientVars, CollectEnd, Snapshot,
  Visit, Leave, vars, LifetimeInv, QueueInv
<1> QED
  BY <1>1, <1>2, <1>3, <1>4, <1>5, <1>6, <1>7, <1>8, <1>9, <1>10, <1>11, <1>12, <1>13, <1>14, <1>15,
  <1>16, <1>17, <1>18, <1>19, <1>20, <1>21 DEF Next, Create, Destroy, ReleaseModel, Execute,
  Terminated

LEMMA NextReady == ConvParameters /\ LifetimeInv /\ [Next]_vars => ReadyInv'
<1> SUFFICES ASSUME ConvParameters, LifetimeInv, [Next]_vars PROVE ReadyInv'
  OBVIOUS
<1>0. TypeFacts
  BY Facts DEF LifetimeInv
<1>1. ASSUME NEW c \in Convs, EnsureExecutor(c) PROVE ReadyInv'
  <2>1. PICK l \in {"ensured", "refused"} : pc' = [pc EXCEPT ![c] = l]
    BY <1>1 DEF EnsureExecutor, Goto
  <2>2. pc[c] = "new" /\ xpc' \in {xpc, "loop"} /\ UNCHANGED <<snapshot, ready, mem>>
    BY <1>1 DEF EnsureExecutor
  <2>3. xpc' # xpc => xpc # "scan"
    BY <1>1 DEF EnsureExecutor, LifetimeInv, ReleaseInv
  <2> QED
    BY <1>0, <2>1, <2>2, <2>3 DEF LifetimeInv, ReadyInv, Releasing, TypeFacts
<1>2. ASSUME NEW c \in Convs, Allocate(c) PROVE ReadyInv'
  BY <1>0, <1>2 DEF Allocate, Goto, epochVars, execVars, LifetimeInv, ReadyInv, Releasing, TypeFacts
<1>3. ASSUME NEW c \in Convs, TakeSlot(c) PROVE ReadyInv'
  BY <1>0, <1>3 DEF TakeSlot, Goto, epochVars, execVars, modelVars, LifetimeInv, ReadyInv,
  Releasing, TypeFacts
<1>4. ASSUME NEW c \in Convs, RegisterHandle(c) PROVE ReadyInv'
  BY <1>0, <1>4 DEF RegisterHandle, Goto, epochVars, execVars, modelVars, LifetimeInv, ReadyInv,
  Releasing, TypeFacts
<1>5. ASSUME NEW c \in Convs, Unslot(c) PROVE ReadyInv'
  BY <1>0, <1>5 DEF Unslot, Goto, epochVars, execVars, modelVars, LifetimeInv, ReadyInv, Releasing,
  TypeFacts
<1>6. ASSUME NEW c \in Convs, DestroyBegin(c) PROVE ReadyInv'
  BY <1>0, <1>6 DEF DestroyBegin, Goto, epochVars, execVars, modelVars, LifetimeInv, ReadyInv,
  Releasing, TypeFacts
<1>7. ASSUME NEW c \in Convs, AwaitTerminal(c) PROVE ReadyInv'
  BY <1>0, <1>7 DEF AwaitTerminal, Goto, epochVars, execVars, modelVars, LifetimeInv, ReadyInv,
  Releasing, TypeFacts
<1>8. ASSUME NEW c \in Convs, RemoveSlot(c) PROVE ReadyInv'
  BY <1>0, <1>8 DEF RemoveSlot, Goto, epochVars, execVars, modelVars, LifetimeInv, ReadyInv,
  Releasing, TypeFacts
<1>9. ASSUME NEW c \in Convs, CountRetirement(c) PROVE ReadyInv'
  BY <1>0, <1>9 DEF CountRetirement, Goto, execVars, modelVars, LifetimeInv, ReadyInv, Releasing,
  TypeFacts
<1>10. ASSUME NEW c \in Convs, Stamp(c) PROVE ReadyInv'
  BY <1>0, <1>10 DEF Stamp, Goto, execVars, modelVars, LifetimeInv, ReadyInv, Releasing, TypeFacts
<1>11. ASSUME NEW c \in Convs, QueueFull(c) PROVE ReadyInv'
  BY <1>0, <1>11 DEF QueueFull, Goto, execVars, modelVars, LifetimeInv, ReadyInv, Releasing,
  TypeFacts
<1>12. ASSUME NEW c \in Convs, Relock(c) PROVE ReadyInv'
  BY <1>0, <1>12 DEF Relock, Goto, epochVars, execVars, modelVars, LifetimeInv, ReadyInv, Releasing,
  TypeFacts
<1>13. ASSUME NEW c \in Convs, PublishRetired(c) PROVE ReadyInv'
  BY <1>0, <1>13 DEF PublishRetired, Goto, execVars, modelVars, LifetimeInv, ReadyInv, Releasing,
  TypeFacts
<1>14. ASSUME NEW c \in Convs, AwaitQuiescent(c) PROVE ReadyInv'
  BY <1>0, <1>14 DEF AwaitQuiescent, Goto, epochVars, execVars, modelVars, LifetimeInv, ReadyInv,
  Releasing, TypeFacts
<1>15. ASSUME NEW c \in Convs, Free(c) PROVE ReadyInv'
  <2>1. PICK l \in {"refused", "gone", "unload", "stop"} :
                 /\ pc' = [pc EXCEPT ![c] = l]
                 /\ pc[c] = "undo" => l = "refused" \/ refcount <= 1
                 /\ pc[c] # "undo" => l # "refused"
    <3>1. refcount \in Nat
      BY <1>0 DEF TypeFacts
    <3>2. CASE refcount > 1 /\ pc[c] = "undo"
      BY <1>15, <3>2 DEF Free, DropReference, Goto
    <3>3. CASE refcount > 1 /\ pc[c] # "undo"
      BY <1>15, <3>3 DEF Free, DropReference, Goto
    <3>4. CASE ~(refcount > 1)
      <4>1. refcount <= 1
        BY <3>1, <3>4
      <4>2. CASE executor = "none"
        BY <1>15, <3>4, <4>1, <4>2 DEF Free, DropReference, Goto
      <4>3. CASE executor # "none"
        BY <1>15, <3>4, <4>1, <4>3 DEF Free, DropReference, Goto
      <4> QED
        BY <4>2, <4>3
    <3> QED
      BY <3>2, <3>3, <3>4
  <2>2. /\ pc[c] \in {"release", "undo"} /\ mem' = [mem EXCEPT ![c] = "freed"]
        /\ UNCHANGED <<xpc, snapshot, ready>>
    BY <1>15 DEF Free, execVars
  <2>3. pc[c] = "undo" => l = "refused"
    BY <2>1, UndoReferences DEF LifetimeInv
  <2> QED
    BY <1>0, <2>1, <2>2, <2>3 DEF LifetimeInv, ReadyInv, Releasing, TypeFacts
<1>16. ASSUME OwnerRelease PROVE ReadyInv'
  BY <1>0, <1>16 DEF OwnerRelease, DropReference, Goto, epochVars, execVars, LifetimeInv, ReadyInv,
  Releasing, TypeFacts
<1>17. ASSUME NEW t \in Threads, StopExecutor(t) PROVE ReadyInv'
  BY <1>0, <1>17 DEF StopExecutor, Goto, epochVars, execVars, LifetimeInv, ReadyInv, Releasing,
  TypeFacts
<1>18. ASSUME NEW t \in Threads, JoinExecutor(t) PROVE ReadyInv'
  BY <1>0, <1>18 DEF JoinExecutor, Goto, epochVars, execVars, LifetimeInv, ReadyInv, Releasing,
  TypeFacts
<1>19. ASSUME NEW t \in Threads, Unload(t) PROVE ReadyInv'
  BY <1>0, <1>19 DEF Unload, Goto, epochVars, execVars, LifetimeInv, ReadyInv, Releasing, TypeFacts
<1>20. ASSUME Loop PROVE ReadyInv'
  BY <1>0, <1>20 DEF Loop, clientVars, epochVars, modelVars, LifetimeInv, ReadyInv, Releasing,
  TypeFacts
<1>21. ASSUME CollectOnce PROVE ReadyInv'
  <2>1. PICK n \in 0 .. Len(retired) :
          ready' = [d \in Convs |-> ready[d] \/ \E i \in 1 .. n : retired[i].ptr = d]
    BY <1>21 DEF CollectOnce
  <2>2. xpc = "collect" /\ UNCHANGED <<pc, mem, xpc, snapshot>>
    BY <1>21 DEF CollectOnce
  <2>3. 1 .. n \subseteq DOMAIN retired
    BY <1>0 DEF TypeFacts
  <2>4. ASSUME NEW d \in Convs, ready'[d] PROVE ready[d] \/ pc[d] = "quiesce"
    BY <2>1, <2>3, <2>4 DEF LifetimeInv, QueueInv
  <2>5. \A d \in Convs : ready[d] => ready'[d]
    BY <2>1
  <2>6. snapshot = {}
    BY <2>2 DEF LifetimeInv, ReadyInv
  <2> QED
    BY <2>2, <2>4, <2>5, <2>6 DEF LifetimeInv, ReadyInv, Releasing
<1>22. ASSUME CollectEnd PROVE ReadyInv'
  BY <1>0, <1>22 DEF CollectEnd, clientVars, modelVars, LifetimeInv, ReadyInv, Releasing, TypeFacts
<1>23. ASSUME Snapshot PROVE ReadyInv'
  <2>1. /\ snapshot' = {slots[i] : i \in Slots} \ {NoConv} /\ xpc' = "scan"
        /\ UNCHANGED <<pc, mem, ready>>
    BY <1>23 DEF Snapshot, clientVars
  <2>2. ASSUME NEW d \in snapshot' PROVE pc[d] \in Slotted
    BY <2>1, <2>2 DEF LifetimeInv, SlotInv
  <2> QED
    BY <2>1, <2>2 DEF LifetimeInv, ReadyInv, Releasing, Slotted
<1>24. ASSUME Leave PROVE ReadyInv'
  BY <1>0, <1>24 DEF Leave, clientVars, epochVars, modelVars, LifetimeInv, ReadyInv, Releasing,
  TypeFacts
<1>25. CASE (\E c \in Convs : Decode(c)) \/ (\E c \in Convs : Visit(c)) \/ UNCHANGED vars
  BY <1>0, <1>25 DEF Decode, epochVars, execVars, modelVars, Visit, vars, clientVars, LifetimeInv,
  ReadyInv, Releasing
<1> QED
  BY <1>1, <1>2, <1>3, <1>4, <1>5, <1>6, <1>7, <1>8, <1>9, <1>10, <1>11, <1>12, <1>13, <1>14, <1>15,
  <1>16, <1>17, <1>18, <1>19, <1>20, <1>21, <1>22, <1>23, <1>24, <1>25 DEF Next, Create, Destroy,
  ReleaseModel, Execute, Terminated

LEMMA NextCount == ConvParameters /\ LifetimeInv /\ [Next]_vars => CountInv'
<1> SUFFICES ASSUME ConvParameters, LifetimeInv, [Next]_vars PROVE CountInv'
  OBVIOUS
<1>0. TypeFacts
  BY Facts DEF LifetimeInv
<1>1. ASSUME NEW c \in Convs, EnsureExecutor(c) PROVE CountInv'
  <2>1. PICK l \in {"ensured", "refused"} : pc' = [pc EXCEPT ![c] = l]
    BY <1>1 DEF EnsureExecutor, Goto
  <2>2. pc[c] = "new" /\ UNCHANGED <<retire_count, retired, reclaimed>>
    BY <1>1 DEF EnsureExecutor, epochVars
  <2>3. xpc' = "collect" <=> xpc = "collect"
    BY <1>1 DEF EnsureExecutor, LifetimeInv, ReleaseInv
  <2>4. Pending' = Pending /\ Collected' = Collected
    BY <1>0, <2>1, <2>2, <2>3 DEF TypeFacts, Pending, Collected
  <2> QED
    BY <2>2, <2>4 DEF LifetimeInv, CountInv
<1>2. ASSUME NEW c \in Convs, Allocate(c) PROVE CountInv'
  BY <1>0, <1>2 DEF Allocate, Goto, epochVars, execVars, LifetimeInv, CountInv, Collected, Pending,
  TypeFacts
<1>3. ASSUME NEW c \in Convs, TakeSlot(c) PROVE CountInv'
  BY <1>0, <1>3 DEF TakeSlot, Goto, epochVars, execVars, modelVars, LifetimeInv, CountInv,
  Collected, Pending, TypeFacts
<1>4. ASSUME NEW c \in Convs, RegisterHandle(c) PROVE CountInv'
  BY <1>0, <1>4 DEF RegisterHandle, Goto, epochVars, execVars, modelVars, LifetimeInv, CountInv,
  Collected, Pending, TypeFacts
<1>5. ASSUME NEW c \in Convs, Unslot(c) PROVE CountInv'
  BY <1>0, <1>5 DEF Unslot, Goto, epochVars, execVars, modelVars, LifetimeInv, CountInv, Collected,
  Pending, TypeFacts
<1>6. ASSUME NEW c \in Convs, DestroyBegin(c) PROVE CountInv'
  BY <1>0, <1>6 DEF DestroyBegin, Goto, epochVars, execVars, modelVars, LifetimeInv, CountInv,
  Collected, Pending, TypeFacts
<1>7. ASSUME NEW c \in Convs, AwaitTerminal(c) PROVE CountInv'
  BY <1>0, <1>7 DEF AwaitTerminal, Goto, epochVars, execVars, modelVars, LifetimeInv, CountInv,
  Collected, Pending, TypeFacts
<1>8. ASSUME NEW c \in Convs, RemoveSlot(c) PROVE CountInv'
  BY <1>0, <1>8 DEF RemoveSlot, Goto, epochVars, execVars, modelVars, LifetimeInv, CountInv,
  Collected, Pending, TypeFacts
<1>9. ASSUME NEW c \in Convs, CountRetirement(c) PROVE CountInv'
  <2>1. /\ pc[c] = "retire" /\ pc' = [pc EXCEPT ![c] = "defer"]
        /\ retire_count' = retire_count + 1 /\ UNCHANGED <<retired, xpc, reclaimed>>
    BY <1>9 DEF CountRetirement, Goto, execVars
  <2>2. Pending = 0
    BY <2>1 DEF LifetimeInv, RetireInv, Locking, Pending
  <2>3. Pending' = 1 /\ Collected' = Collected
    BY <1>0, <2>1 DEF TypeFacts, Pending, Collected
  <2>4. CountInv /\ retire_count \in Nat /\ Len(retired) \in Nat /\ Collected \in Nat
    BY <1>0 DEF LifetimeInv, TypeFacts, Collected
  <2> QED
    BY <2>1, <2>2, <2>3, <2>4 DEF CountInv
<1>10. ASSUME NEW c \in Convs, Stamp(c) PROVE CountInv'
  BY <1>0, <1>10 DEF Stamp, Goto, execVars, modelVars, LifetimeInv, CountInv, Collected, Pending,
  TypeFacts
<1>11. ASSUME NEW c \in Convs, QueueFull(c) PROVE CountInv'
  <2>1. /\ pc[c] = "defer" /\ pc' = [pc EXCEPT ![c] = "relock"]
        /\ retire_count' = retire_count - 1 /\ UNCHANGED <<retired, xpc, reclaimed>>
    BY <1>11 DEF QueueFull, Goto, execVars
  <2>2. \A d \in Convs : pc[d] \in {"defer", "publish"} => d = c
    BY <2>1 DEF LifetimeInv, RetireInv, Locking
  <2>3. Pending = 1 /\ Pending' = 0 /\ Collected' = Collected
    BY <1>0, <2>1, <2>2 DEF TypeFacts, Pending, Collected
  <2>4. CountInv /\ retire_count \in Nat /\ Len(retired) \in Nat /\ Collected \in Nat
    BY <1>0 DEF LifetimeInv, TypeFacts, Collected
  <2> QED
    BY <2>1, <2>3, <2>4 DEF CountInv
<1>12. ASSUME NEW c \in Convs, Relock(c) PROVE CountInv'
  BY <1>0, <1>12 DEF Relock, Goto, epochVars, execVars, modelVars, LifetimeInv, CountInv, Collected,
  Pending, TypeFacts
<1>13. ASSUME NEW c \in Convs, PublishRetired(c) PROVE CountInv'
  <2>1. /\ pc[c] = "publish" /\ pc' = [pc EXCEPT ![c] = "quiesce"]
        /\ retired' = Append(retired, stamp) /\ UNCHANGED <<retire_count, xpc, reclaimed>>
    BY <1>13 DEF PublishRetired, Goto, execVars
  <2>2. Len(retired') = Len(retired) + 1
    <3>1. retired \in Seq(Entry) /\ stamp \in Entry
      BY <2>1 DEF LifetimeInv, RetireInv, TypeOK, Entry
    <3> QED
      BY <2>1, <3>1, AppendFacts
  <2>3. \A d \in Convs : pc[d] \in {"defer", "publish"} => d = c
    BY <2>1 DEF LifetimeInv, RetireInv, Locking
  <2>4. Pending = 1 /\ Pending' = 0 /\ Collected' = Collected
    BY <1>0, <2>1, <2>3 DEF TypeFacts, Pending, Collected
  <2>5. CountInv /\ retire_count \in Nat /\ Len(retired) \in Nat /\ Collected \in Nat
    BY <1>0 DEF LifetimeInv, TypeFacts, Collected
  <2> QED
    BY <2>1, <2>2, <2>4, <2>5 DEF CountInv
<1>14. ASSUME NEW c \in Convs, AwaitQuiescent(c) PROVE CountInv'
  BY <1>0, <1>14 DEF AwaitQuiescent, Goto, epochVars, execVars, modelVars, LifetimeInv, CountInv,
  Collected, Pending, TypeFacts
<1>15. ASSUME NEW c \in Convs, Free(c) PROVE CountInv'
  BY <1>0, <1>15 DEF Free, DropReference, Goto, epochVars, execVars, LifetimeInv, CountInv,
  Collected, Pending, TypeFacts
<1>16. ASSUME OwnerRelease PROVE CountInv'
  BY <1>0, <1>16 DEF OwnerRelease, DropReference, Goto, epochVars, execVars, LifetimeInv, CountInv,
  Collected, Pending, TypeFacts
<1>17. ASSUME NEW t \in Threads, StopExecutor(t) PROVE CountInv'
  BY <1>0, <1>17 DEF StopExecutor, Goto, epochVars, execVars, LifetimeInv, CountInv, Collected,
  Pending, TypeFacts
<1>18. ASSUME NEW t \in Threads, JoinExecutor(t) PROVE CountInv'
  BY <1>0, <1>18 DEF JoinExecutor, Goto, epochVars, execVars, LifetimeInv, CountInv, Collected,
  Pending, TypeFacts
<1>19. ASSUME NEW t \in Threads, Unload(t) PROVE CountInv'
  BY <1>0, <1>19 DEF Unload, Goto, epochVars, execVars, LifetimeInv, CountInv, Collected, Pending,
  TypeFacts
<1>20. ASSUME Loop PROVE CountInv'
  BY <1>0, <1>20 DEF Loop, clientVars, epochVars, modelVars, LifetimeInv, CountInv, Collected,
  Pending, TypeFacts
<1>21. ASSUME CollectOnce PROVE CountInv'
  BY <1>0, <1>21 DEF CollectOnce, modelVars, LifetimeInv, CountInv, Collected, Pending, TypeFacts
<1>22. ASSUME CollectEnd PROVE CountInv'
  <2>1. /\ xpc = "collect" /\ xpc' = "snapshot" /\ retire_count' = retire_count - reclaimed
        /\ UNCHANGED <<pc, retired>>
    BY <1>22 DEF CollectEnd, clientVars
  <2>2. Collected = reclaimed /\ Collected' = 0 /\ Pending' = Pending /\ Pending \in Nat
    BY <2>1 DEF Collected, Pending
  <2>3. CountInv /\ retire_count \in Nat /\ Len(retired) \in Nat /\ Collected \in Nat
    BY <1>0 DEF LifetimeInv, TypeFacts, Collected
  <2> QED
    BY <2>1, <2>2, <2>3 DEF CountInv
<1>23. ASSUME Snapshot PROVE CountInv'
  BY <1>0, <1>23 DEF Snapshot, clientVars, epochVars, modelVars, LifetimeInv, CountInv, Collected,
  Pending, TypeFacts
<1>24. ASSUME Leave PROVE CountInv'
  BY <1>0, <1>24 DEF Leave, clientVars, epochVars, modelVars, LifetimeInv, CountInv, Collected,
  Pending, TypeFacts
<1>25. CASE (\E c \in Convs : Decode(c)) \/ (\E c \in Convs : Visit(c)) \/ UNCHANGED vars
  BY <1>0, <1>25 DEF Decode, epochVars, execVars, modelVars, Visit, vars, clientVars, LifetimeInv,
  CountInv, Collected, Pending
<1> QED
  BY <1>1, <1>2, <1>3, <1>4, <1>5, <1>6, <1>7, <1>8, <1>9, <1>10, <1>11, <1>12, <1>13, <1>14, <1>15,
  <1>16, <1>17, <1>18, <1>19, <1>20, <1>21, <1>22, <1>23, <1>24, <1>25 DEF Next, Create, Destroy,
  ReleaseModel, Execute, Terminated

LEMMA NextReference == ConvParameters /\ LifetimeInv /\ [Next]_vars => ReferenceInv'
<1> SUFFICES ASSUME ConvParameters, LifetimeInv, [Next]_vars PROVE ReferenceInv'
  OBVIOUS
<1>0. TypeFacts
  BY Facts DEF LifetimeInv
<1>1. ASSUME NEW c \in Convs, EnsureExecutor(c) PROVE ReferenceInv'
  BY <1>0, <1>1 DEF EnsureExecutor, Goto, epochVars, modelVars, LifetimeInv, ReferenceInv,
  References, Referring, TypeFacts
<1>2. ASSUME NEW c \in Convs, Allocate(c) PROVE ReferenceInv'
  <2>1. /\ pc[c] = "ensured" /\ pc' = [pc EXCEPT ![c] = "allocated"] /\ refcount' = refcount + 1
    BY <1>2 DEF Allocate, Goto
  <2>2. References' = References \cup {c} /\ c \notin References
    BY <1>0, <2>1 DEF References, Referring, TypeFacts
  <2> QED
    BY <2>1, <2>2, FiniteReferences, FS_AddElement DEF LifetimeInv, ReferenceInv
<1>3. ASSUME NEW c \in Convs, TakeSlot(c) PROVE ReferenceInv'
  <2>1. PICK l \in {"slotted", "undo"} : pc' = [pc EXCEPT ![c] = l]
    BY <1>3 DEF TakeSlot, Goto
  <2>2. pc[c] = "allocated" /\ UNCHANGED refcount
    BY <1>3 DEF TakeSlot, modelVars
  <2>3. References' = References
    BY <1>0, <2>1, <2>2 DEF References, Referring, TypeFacts
  <2> QED
    BY <2>2, <2>3 DEF LifetimeInv, ReferenceInv
<1>4. ASSUME NEW c \in Convs, RegisterHandle(c) PROVE ReferenceInv'
  <2>1. PICK l \in {"live", "unslot"} : pc' = [pc EXCEPT ![c] = l]
    BY <1>4 DEF RegisterHandle, Goto
  <2>2. pc[c] = "slotted" /\ UNCHANGED refcount
    BY <1>4 DEF RegisterHandle, modelVars
  <2>3. References' = References
    BY <1>0, <2>1, <2>2 DEF References, Referring, TypeFacts
  <2> QED
    BY <2>2, <2>3 DEF LifetimeInv, ReferenceInv
<1>5. ASSUME NEW c \in Convs, Unslot(c) PROVE ReferenceInv'
  BY <1>0, <1>5 DEF Unslot, Goto, epochVars, execVars, modelVars, LifetimeInv, ReferenceInv,
  References, Referring, TypeFacts
<1>6. ASSUME NEW c \in Convs, DestroyBegin(c) PROVE ReferenceInv'
  <2>1. PICK l \in {"waiting", "remove"} : pc' = [pc EXCEPT ![c] = l]
    BY <1>6 DEF DestroyBegin, Goto
  <2>2. pc[c] = "live" /\ UNCHANGED refcount
    BY <1>6 DEF DestroyBegin, modelVars
  <2>3. References' = References
    BY <1>0, <2>1, <2>2 DEF References, Referring, TypeFacts
  <2> QED
    BY <2>2, <2>3 DEF LifetimeInv, ReferenceInv
<1>7. ASSUME NEW c \in Convs, AwaitTerminal(c) PROVE ReferenceInv'
  BY <1>0, <1>7 DEF AwaitTerminal, Goto, epochVars, execVars, modelVars, LifetimeInv, ReferenceInv,
  References, Referring, TypeFacts
<1>8. ASSUME NEW c \in Convs, RemoveSlot(c) PROVE ReferenceInv'
  BY <1>0, <1>8 DEF RemoveSlot, Goto, epochVars, execVars, modelVars, LifetimeInv, ReferenceInv,
  References, Referring, TypeFacts
<1>9. ASSUME NEW c \in Convs, CountRetirement(c) PROVE ReferenceInv'
  BY <1>0, <1>9 DEF CountRetirement, Goto, execVars, modelVars, LifetimeInv, ReferenceInv,
  References, Referring, TypeFacts
<1>10. ASSUME NEW c \in Convs, Stamp(c) PROVE ReferenceInv'
  BY <1>0, <1>10 DEF Stamp, Goto, execVars, modelVars, LifetimeInv, ReferenceInv, References,
  Referring, TypeFacts
<1>11. ASSUME NEW c \in Convs, QueueFull(c) PROVE ReferenceInv'
  BY <1>0, <1>11 DEF QueueFull, Goto, execVars, modelVars, LifetimeInv, ReferenceInv, References,
  Referring, TypeFacts
<1>12. ASSUME NEW c \in Convs, Relock(c) PROVE ReferenceInv'
  BY <1>0, <1>12 DEF Relock, Goto, epochVars, execVars, modelVars, LifetimeInv, ReferenceInv,
  References, Referring, TypeFacts
<1>13. ASSUME NEW c \in Convs, PublishRetired(c) PROVE ReferenceInv'
  BY <1>0, <1>13 DEF PublishRetired, Goto, execVars, modelVars, LifetimeInv, ReferenceInv,
  References, Referring, TypeFacts
<1>14. ASSUME NEW c \in Convs, AwaitQuiescent(c) PROVE ReferenceInv'
  BY <1>0, <1>14 DEF AwaitQuiescent, Goto, epochVars, execVars, modelVars, LifetimeInv,
  ReferenceInv, References, Referring, TypeFacts
<1>15. ASSUME NEW c \in Convs, Free(c) PROVE ReferenceInv'
  <2>1. PICK l \in {"refused", "gone", "unload", "stop"} : pc' = [pc EXCEPT ![c] = l]
    BY <1>15 DEF Free, DropReference, Goto
  <2>2. pc[c] \in {"release", "undo"} /\ refcount' = refcount - 1
    BY <1>15 DEF Free, DropReference
  <2>3. References' = References \ {c} /\ c \in References
    BY <1>0, <2>1, <2>2 DEF References, Referring, TypeFacts
  <2> QED
    BY <2>2, <2>3, FiniteReferences, FS_RemoveElement DEF LifetimeInv, ReferenceInv
<1>16. ASSUME OwnerRelease PROVE ReferenceInv'
  <2>1. PICK l \in {"gone", "unload", "stop"} : pc' = [pc EXCEPT ![Owner] = l]
    BY <1>16 DEF OwnerRelease, DropReference, Goto
  <2>2. pc[Owner] = "holding" /\ refcount' = refcount - 1
    BY <1>16 DEF OwnerRelease, DropReference
  <2>3. References' = References \ {Owner} /\ Owner \in References
    BY <1>0, <2>1, <2>2 DEF References, Referring, TypeFacts
  <2> QED
    BY <2>2, <2>3, FiniteReferences, FS_RemoveElement DEF LifetimeInv, ReferenceInv
<1>17. ASSUME NEW t \in Threads, StopExecutor(t) PROVE ReferenceInv'
  BY <1>0, <1>17 DEF StopExecutor, Goto, epochVars, execVars, LifetimeInv, ReferenceInv, References,
  Referring, TypeFacts
<1>18. ASSUME NEW t \in Threads, JoinExecutor(t) PROVE ReferenceInv'
  BY <1>0, <1>18 DEF JoinExecutor, Goto, epochVars, execVars, LifetimeInv, ReferenceInv, References,
  Referring, TypeFacts
<1>19. ASSUME NEW t \in Threads, Unload(t) PROVE ReferenceInv'
  BY <1>0, <1>19 DEF Unload, Goto, epochVars, execVars, LifetimeInv, ReferenceInv, References,
  Referring, TypeFacts
<1>20. CASE (\E c \in Convs : Decode(c)) \/ Loop \/ CollectOnce \/ CollectEnd \/ Snapshot \/ (\E
          c \in Convs : Visit(c)) \/ Leave \/ UNCHANGED vars
  BY <1>0, <1>20 DEF Decode, epochVars, execVars, modelVars, Loop, clientVars, CollectOnce,
  CollectEnd, Snapshot, Visit, Leave, vars, LifetimeInv, ReferenceInv, References, Referring
<1> QED
  BY <1>1, <1>2, <1>3, <1>4, <1>5, <1>6, <1>7, <1>8, <1>9, <1>10, <1>11, <1>12, <1>13, <1>14, <1>15,
  <1>16, <1>17, <1>18, <1>19, <1>20 DEF Next, Create, Destroy, ReleaseModel, Execute, Terminated

LEMMA NextRelease == ConvParameters /\ LifetimeInv /\ [Next]_vars => ReleaseInv'
<1> SUFFICES ASSUME ConvParameters, LifetimeInv, [Next]_vars PROVE ReleaseInv'
  OBVIOUS
<1>0. TypeFacts
  BY Facts DEF LifetimeInv
<1>1. ASSUME NEW c \in Convs, EnsureExecutor(c) PROVE ReleaseInv'
  <2>1. PICK l \in {"ensured", "refused"} : pc' = [pc EXCEPT ![c] = l]
    BY <1>1 DEF EnsureExecutor, Goto
  <2>2. /\ pc[c] = "new" /\ pc[Owner] = "holding" /\ UNCHANGED <<refcount, model>>
        /\ executor' \in {executor, "started"}
        /\ executor' = "none" => xpc' = xpc
    BY <1>1 DEF EnsureExecutor, modelVars
  <2>3. refcount # 0
    BY <1>0, <2>2, Referred DEF LifetimeInv, Referring, TypeFacts
  <2>4. \A t \in Threads : pc'[t] \notin Releasing
    BY <1>0, <2>1, <2>3 DEF LifetimeInv, ReleaseInv, Releasing, TypeFacts
  <2>5. executor' = "none" => executor = "none" /\ xpc' = xpc
    BY <1>1 DEF EnsureExecutor, modelVars
  <2> QED
    BY <2>2, <2>3, <2>4, <2>5 DEF LifetimeInv, ReleaseInv, Releasing
<1>2. ASSUME NEW c \in Convs, Allocate(c) PROVE ReleaseInv'
  <2>1. /\ pc[c] = "ensured" /\ pc' = [pc EXCEPT ![c] = "allocated"]
        /\ UNCHANGED <<executor, xpc, model>>
    BY <1>2 DEF Allocate, Goto, execVars
  <2>2. pc[Owner] = "holding"
    BY <2>1 DEF LifetimeInv, CreateInv, Creating
  <2>3. refcount # 0
    BY <1>0, <2>2, Referred DEF LifetimeInv, Referring, TypeFacts
  <2>4. \A t \in Threads : pc'[t] \notin Releasing
    BY <1>0, <2>1, <2>3 DEF LifetimeInv, ReleaseInv, Releasing, TypeFacts
  <2> QED
    BY <2>1, <2>3, <2>4 DEF LifetimeInv, ReleaseInv, Releasing
<1>3. ASSUME NEW c \in Convs, TakeSlot(c) PROVE ReleaseInv'
  BY <1>0, <1>3 DEF TakeSlot, Goto, epochVars, execVars, modelVars, LifetimeInv, ReleaseInv,
  Releasing, TypeFacts
<1>4. ASSUME NEW c \in Convs, RegisterHandle(c) PROVE ReleaseInv'
  BY <1>0, <1>4 DEF RegisterHandle, Goto, epochVars, execVars, modelVars, LifetimeInv, ReleaseInv,
  Releasing, TypeFacts
<1>5. ASSUME NEW c \in Convs, Unslot(c) PROVE ReleaseInv'
  BY <1>0, <1>5 DEF Unslot, Goto, epochVars, execVars, modelVars, LifetimeInv, ReleaseInv,
  Releasing, TypeFacts
<1>6. ASSUME NEW c \in Convs, DestroyBegin(c) PROVE ReleaseInv'
  BY <1>0, <1>6 DEF DestroyBegin, Goto, epochVars, execVars, modelVars, LifetimeInv, ReleaseInv,
  Releasing, TypeFacts
<1>7. ASSUME NEW c \in Convs, AwaitTerminal(c) PROVE ReleaseInv'
  BY <1>0, <1>7 DEF AwaitTerminal, Goto, epochVars, execVars, modelVars, LifetimeInv, ReleaseInv,
  Releasing, TypeFacts
<1>8. ASSUME NEW c \in Convs, RemoveSlot(c) PROVE ReleaseInv'
  BY <1>0, <1>8 DEF RemoveSlot, Goto, epochVars, execVars, modelVars, LifetimeInv, ReleaseInv,
  Releasing, TypeFacts
<1>9. ASSUME NEW c \in Convs, CountRetirement(c) PROVE ReleaseInv'
  BY <1>0, <1>9 DEF CountRetirement, Goto, execVars, modelVars, LifetimeInv, ReleaseInv, Releasing,
  TypeFacts
<1>10. ASSUME NEW c \in Convs, Stamp(c) PROVE ReleaseInv'
  BY <1>0, <1>10 DEF Stamp, Goto, execVars, modelVars, LifetimeInv, ReleaseInv, Releasing, TypeFacts
<1>11. ASSUME NEW c \in Convs, QueueFull(c) PROVE ReleaseInv'
  BY <1>0, <1>11 DEF QueueFull, Goto, execVars, modelVars, LifetimeInv, ReleaseInv, Releasing,
  TypeFacts
<1>12. ASSUME NEW c \in Convs, Relock(c) PROVE ReleaseInv'
  BY <1>0, <1>12 DEF Relock, Goto, epochVars, execVars, modelVars, LifetimeInv, ReleaseInv,
  Releasing, TypeFacts
<1>13. ASSUME NEW c \in Convs, PublishRetired(c) PROVE ReleaseInv'
  BY <1>0, <1>13 DEF PublishRetired, Goto, execVars, modelVars, LifetimeInv, ReleaseInv, Releasing,
  TypeFacts
<1>14. ASSUME NEW c \in Convs, AwaitQuiescent(c) PROVE ReleaseInv'
  BY <1>0, <1>14 DEF AwaitQuiescent, Goto, epochVars, execVars, modelVars, LifetimeInv, ReleaseInv,
  Releasing, TypeFacts
<1>15. ASSUME NEW c \in Convs, Free(c) PROVE ReleaseInv'
  <2>1. pc[c] \in Referring /\ UNCHANGED <<executor, xpc, model>>
    BY <1>15 DEF Free, execVars, Referring
  <2>2. \E next \in {"refused", "gone"} : DropReference(c, next)
    BY <1>15 DEF Free
  <2> QED
    BY <1>0, <2>1, <2>2, DropRelease DEF TypeFacts
<1>16. ASSUME OwnerRelease PROVE ReleaseInv'
  <2>1. pc[Owner] \in Referring /\ UNCHANGED <<executor, xpc, model>>
    BY <1>16 DEF OwnerRelease, execVars, Referring
  <2>2. \E next \in {"refused", "gone"} : DropReference(Owner, next)
    BY <1>16 DEF OwnerRelease
  <2> QED
    BY <1>0, <2>1, <2>2, DropRelease DEF TypeFacts
<1>17. ASSUME NEW t \in Threads, StopExecutor(t) PROVE ReleaseInv'
  BY <1>0, <1>17 DEF StopExecutor, Goto, epochVars, execVars, LifetimeInv, ReleaseInv, Releasing,
  TypeFacts
<1>18. ASSUME NEW t \in Threads, JoinExecutor(t) PROVE ReleaseInv'
  BY <1>0, <1>18 DEF JoinExecutor, Goto, epochVars, execVars, LifetimeInv, ReleaseInv, Releasing,
  TypeFacts
<1>19. ASSUME NEW t \in Threads, Unload(t) PROVE ReleaseInv'
  BY <1>0, <1>19 DEF Unload, Goto, epochVars, execVars, LifetimeInv, ReleaseInv, Releasing,
  TypeFacts
<1>20. ASSUME Loop PROVE ReleaseInv'
  BY <1>0, <1>20 DEF Loop, clientVars, epochVars, modelVars, LifetimeInv, ReleaseInv, Releasing,
  TypeFacts
<1>21. ASSUME CollectEnd PROVE ReleaseInv'
  BY <1>0, <1>21 DEF CollectEnd, clientVars, modelVars, LifetimeInv, ReleaseInv, Releasing,
  TypeFacts
<1>22. ASSUME Snapshot PROVE ReleaseInv'
  BY <1>0, <1>22 DEF Snapshot, clientVars, epochVars, modelVars, LifetimeInv, ReleaseInv, Releasing,
  TypeFacts
<1>23. ASSUME Leave PROVE ReleaseInv'
  BY <1>0, <1>23 DEF Leave, clientVars, epochVars, modelVars, LifetimeInv, ReleaseInv, Releasing,
  TypeFacts
<1>24. CASE (\E c \in Convs : Decode(c)) \/ CollectOnce \/ (\E c \in Convs : Visit(c)) \/
          UNCHANGED vars
  BY <1>0, <1>24 DEF Decode, epochVars, execVars, modelVars, CollectOnce, Visit, vars, clientVars,
  LifetimeInv, ReleaseInv, Releasing
<1> QED
  BY <1>1, <1>2, <1>3, <1>4, <1>5, <1>6, <1>7, <1>8, <1>9, <1>10, <1>11, <1>12, <1>13, <1>14, <1>15,
  <1>16, <1>17, <1>18, <1>19, <1>20, <1>21, <1>22, <1>23, <1>24 DEF Next, Create, Destroy,
  ReleaseModel, Execute, Terminated

-----------------------------------------------------------------------------
(* The theorem *)

LEMMA InitLifetime == ConvParameters /\ Init => LifetimeInv
<1> SUFFICES ASSUME ConvParameters, Init PROVE LifetimeInv
  OBVIOUS
<1> USE OwnerAssumption, SlotsAssumption, QueueAssumption, GraceAssumption DEF Init
<1>1. TypeOK
  <2>1. pc \in [Threads -> Labels] /\ stamp \in [ptr : Convs \cup {NoConv}, age : 0 .. GraceEpochs]
    BY DEF Labels, NoStamp
  <2>2. slots \in [Slots -> Convs \cup {NoConv}] /\ slot_id \in [Convs -> 0 .. MaxSlots]
    BY DEF NoSlot
  <2>3. retired \in Seq([ptr : Convs, age : 0 .. GraceEpochs]) /\ Len(retired) <= QueueCapacity
    OBVIOUS
  <2>4. /\ state \in [Convs -> {"idle", "decoding", "terminal"}] /\ cancel \in [Convs -> BOOLEAN]
        /\ mem \in [Convs -> {"none", "live", "freed"}] /\ ready \in [Convs -> BOOLEAN]
    OBVIOUS
  <2>5. /\ lock = NoConv /\ rounds \in 0 .. GraceEpochs + 1 /\ advanced \in 0 .. GraceEpochs
        /\ snapshot \subseteq Convs /\ todo \subseteq snapshot
    OBVIOUS
  <2>6. /\ retire_count \in Nat /\ reclaimed \in Nat /\ refcount \in Nat /\ running \in BOOLEAN
        /\ executor = "none" /\ xpc = "off" /\ model = "loaded"
    OBVIOUS
  <2> HIDE DEF Init
  <2> QED
    BY <2>1, <2>2, <2>3, <2>4, <2>5, <2>6 DEF TypeOK
<1>2. CreateInv /\ SlotInv /\ ReadyInv /\ ReleaseInv
  BY DEF CreateInv, SlotInv, ReadyInv, ReleaseInv, Creating, Slotted, Releasing, Threads
<1>3. RetireInv
  BY DEF ConvParameters, RetireInv, Locking, NoStamp, Threads
<1>4. QueueInv /\ CountInv
  BY DEF QueueInv, CountInv, Collected, Pending, Threads
<1>5. ReferenceInv
  <2>1. References = {Owner}
    BY DEF References, Referring, Threads
  <2> QED
    BY <2>1, FS_Singleton DEF ReferenceInv
<1> QED
  BY <1>1, <1>2, <1>3, <1>4, <1>5 DEF LifetimeInv

LEMMA NextLifetime == ConvParameters /\ LifetimeInv /\ [Next]_vars => LifetimeInv'
BY NextType, NextCreate, NextSlot, NextRetire, NextQueue, NextReady, NextCount, NextReference,
   NextRelease
DEF LifetimeInv

LEMMA LifetimesFollow == ConvParameters /\ LifetimeInv => LifetimesSound
<1> SUFFICES ASSUME ConvParameters, LifetimeInv PROVE LifetimesSound
  OBVIOUS
<1>0. TypeFacts
  BY Facts DEF LifetimeInv
<1>1. DestroyedAfterSnapshot
  BY <1>0 DEF LifetimeInv, ReadyInv, Releasing, DestroyedAfterSnapshot, TypeFacts
<1>2. FreedIsDetached
  <2> SUFFICES ASSUME NEW c \in Convs, mem[c] = "freed"
               PROVE  /\ state[c] # "decoding"
                      /\ \A i \in Slots : slots[i] # c
                      /\ \A i \in DOMAIN retired : retired[i].ptr # c
    BY DEF FreedIsDetached
  <2>1. pc[c] \in {"refused", "gone"} \cup Releasing /\ c # NoConv
    BY <1>0 DEF LifetimeInv, ReadyInv, TypeFacts
  <2> QED
    BY <2>1 DEF LifetimeInv, SlotInv, QueueInv, Slotted, Releasing
<1>3. ModelOutlivesUsers
  <2> SUFFICES ASSUME model = "unloaded", NEW c \in Convs
               PROVE  xpc \in {"off", "exited"} /\ pc[c] \in {"new", "refused", "gone"}
    BY DEF LifetimeInv, ReleaseInv, ModelOutlivesUsers
  <2>1. /\ xpc \in {"off", "exited"} /\ refcount = 0
        /\ \A t \in Threads : pc[t] \notin Releasing
    BY DEF LifetimeInv, ReleaseInv
  <2>2. \A t \in Threads : pc[t] \notin Referring
    BY <2>1, Referred DEF LifetimeInv
  <2>3. pc[Owner] # "holding" /\ pc[c] # "ensured"
    BY <1>0, <2>2 DEF LifetimeInv, CreateInv, Creating, Referring, TypeFacts
  <2>4. pc[c] \in Labels /\ c \in Threads
    BY <1>0 DEF TypeFacts
  <2> QED
    BY <2>1, <2>2, <2>3, <2>4 DEF Labels, Referring, Releasing
<1>4. RetireCountCoversQueue
  <2>1. Pending \in Nat /\ Len(retired) \in Nat /\ Collected \in Nat
    BY <1>0 DEF Pending, Collected, TypeFacts
  <2> QED
    BY <2>1 DEF LifetimeInv, CountInv, Collected, RetireCountCoversQueue
<1> QED
  BY <1>1, <1>2, <1>3, <1>4 DEF LifetimeInv, LifetimesSound

\* conv_create, conv_destroy, the executor thread and model_release: whatever
\* the interleaving, storage outlives the snapshot, the slot and the queue entry
\* of its conversation, the provider outlives the executor and every reference,
\* and the retirement counter never understates the queue.
THEOREM LifetimesSafe == ConvParameters => (Spec => []LifetimesSound)
<1> SUFFICES ASSUME ConvParameters PROVE Spec => []LifetimesSound
  OBVIOUS
<1>1. Init => LifetimeInv
  BY InitLifetime
<1>2. LifetimeInv /\ [Next]_vars => LifetimeInv'
  BY NextLifetime
<1>3. LifetimeInv => LifetimesSound
  BY LifetimesFollow
<1> QED
  BY <1>1, <1>2, <1>3, PTL DEF Spec

=============================================================================
