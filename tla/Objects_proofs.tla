----------------------------- MODULE Objects_proofs -----------------------------
(****************************************************************************)
(* Proofs about the objects behind the C ABI: how it reaches them, through a  *)
(* handle (HandleTable, for any number of threads and any table size) and by  *)
(* waiting for what was asked of them (Requests, for any set of error codes   *)
(* and any number of runs), how agents share the slots they chat in           *)
(* (AgentSlots, for any number of agents, slots and tokens), and what keeps   *)
(* the storage of an object (ObjectGraph, for any number of objects).         *)
(*                                                                            *)
(* HandleTable.  The generation of a slot grows with every claim and only     *)
(* the holder of the lock claims, so a handle that is out names a generation  *)
(* its slot has now or had before, never one it will have.  A lookup that     *)
(* loaded a pointer and finds the generation of its handle afterwards has     *)
(* therefore seen the slot in that generation all along.                      *)
(*                                                                            *)
(* Requests.  While a wait is under way, the end that the object shows now is *)
(* among the ends it has shown since the wait began, so a verdict that        *)
(* follows a load of the state names an end of that set - even when a reset   *)
(* or another run comes between the load of the state and that of the error.  *)
(*                                                                            *)
(* AgentSlots.  An agent inside an enqueue is in the list, has forgotten its  *)
(* old result and does not decode; it has no conversation until one is made   *)
(* and keeps it from then on, because the only thread that could reclaim it   *)
(* is the one inside the enqueue.  What is unread and what was read add up to *)
(* what was made, and the capture holds what was read since its base.         *)
(*                                                                            *)
(* ObjectGraph.  A live object points to live objects of the kinds that its   *)
(* own kind refers to, and its handle is in the table for as long as it       *)
(* lives.  Its count is the number of entries in a table of references: each  *)
(* call moves the graph and the table by the same entries, and the drop that  *)
(* takes the last entry is the one that frees the object.                     *)
(****************************************************************************)
EXTENDS HandleTable, Requests, AgentSlots, ObjectGraph, FiniteSetTheorems,
        WellFoundedInduction, TLAPS

-----------------------------------------------------------------------------
(* HandleTable *)

\* handles.hpp starts a generation over after 2^32 - 1 claims of one slot: the
\* proofs are about tables that register fewer objects than a generation counts.
HandleParameters ==
  /\ HandleSlots \in Nat \ {0} /\ MaxObjects \in Nat
  /\ 2 ^ GenBits \in Nat /\ MaxObjects < 2 ^ GenBits
  /\ Null \notin HTThreads

Indexes == 0 .. HandleSlots - 1
Issued  == DOMAIN issued
Count   == Cardinality(DOMAIN issued)

Claiming(t)    == hpc[t].at \in {"reg_kind", "reg_ptr"}
Registering(t) == hpc[t].at = "reg_scan" \/ Claiming(t)
Removing(t)    == hpc[t].at \in {"unreg", "unreg_kind"}
Looking(t)     == hpc[t].at \in {"look_kind", "look_gen"}

ThreadStates ==
  [at : {"idle"}]
    \cup [at : {"reg_scan"}, kind : HandleKinds, i : 0 .. HandleSlots]
    \cup [at : {"reg_kind", "reg_ptr"}, h : Handles]
    \cup [at : {"unreg", "unreg_kind"}, h : Handles]
    \cup [at : {"look_kind", "look_gen", "found"}, h : Handles, ptr : 1 .. MaxObjects \cup {Null}]

\* what hslot may be, as in HTTypeOK
Tables ==
  [0 .. HandleSlots - 1 ->
     [ptr : 1 .. MaxObjects \cup {Null}, gen : 0 .. 2 ^ GenBits - 1,
      kind : HandleKinds \cup {Invalid}]]

\* the types, with those of the threads and of the history
TypesInv ==
  /\ HTTypeOK
  /\ hpc \in [HTThreads -> ThreadStates]
  /\ issued \in [Issued -> 1 .. MaxObjects]
  /\ IsFiniteSet(Issued) /\ Count <= MaxObjects

\* Registration and removal run one at a time.
LockInv == \A t \in HTThreads : Registering(t) \/ Removing(t) => hlock = t

\* Objects are numbered as they are registered, and there is room for the one
\* being registered.
NumberInv ==
  /\ \A h \in Issued : issued[h] <= Count
  /\ \A h, g \in Issued : issued[h] = issued[g] => h = g
  /\ \A t \in HTThreads : Registering(t) => Count < MaxObjects

\* A generation counts the claims of its slot: those whose handle is out and the
\* one under way.
GenInv ==
  /\ \A i \in Indexes :
       \/ hslot[i].gen <= Count
       \/ hslot[i].gen = Count + 1 /\ \E t \in HTThreads : Claiming(t)
  /\ \A h \in Issued : h.gen <= hslot[h.index].gen
  /\ \A h, g \in Issued : h.index = g.index /\ h.gen = g.gen => h = g

\* A slot with a pointer has the handle of its object.
FilledInv ==
  \A i \in Indexes :
    hslot[i].ptr # Null =>
      \E h \in Issued : h.index = i /\ issued[h] = hslot[i].ptr /\ Matches(hslot[i], h)

\* The slot that a registration claimed is empty, in a generation of its own.
ClaimInv ==
  \A t \in HTThreads : Claiming(t) =>
    LET h == hpc[t].h
    IN  /\ hslot[h.index].ptr = Null /\ hslot[h.index].gen = h.gen
        /\ hpc[t].at = "reg_ptr" => hslot[h.index].kind = h.kind
        /\ \A g \in Issued : g.index = h.index => g.gen < h.gen

\* A removal keeps the slot that it emptied until it is through.
RemoveInv ==
  \A t \in HTThreads :
    /\ Removing(t) => hpc[t].h \in Issued
    /\ hpc[t].at = "unreg_kind" => hslot[hpc[t].h.index].ptr = Null

\* The pointer that a lookup loaded is its object's, unless the slot is in a
\* later generation by now.
LookInv ==
  \A t \in HTThreads :
    /\ Looking(t) \/ hpc[t].at = "found" => hpc[t].h \in Issued
    /\ Looking(t) /\ hslot[hpc[t].h.index].gen = hpc[t].h.gen => hpc[t].ptr = issued[hpc[t].h]
    /\ hpc[t].at = "found" => hpc[t].ptr \in {Null, issued[hpc[t].h]}

HandleInv ==
  /\ TypesInv /\ LockInv /\ NumberInv /\ GenInv
  /\ FilledInv /\ ClaimInv /\ RemoveInv /\ LookInv

-----------------------------------------------------------------------------
(* Numbers and records *)

\* below the bound a generation does not start over
LEMMA NextGenFacts ==
  ASSUME HandleParameters, NEW g \in Nat, g < MaxObjects
  PROVE  NextGen(g) = g + 1 /\ g + 1 \in 1 .. 2 ^ GenBits - 1
<1> DEFINE M == 2 ^ GenBits
<1>1. M \in Nat /\ MaxObjects \in Nat /\ MaxObjects < M
  BY DEF HandleParameters
<1>2. NextGen(g) = IF (g + 1) % M = 0 THEN 1 ELSE (g + 1) % M
  BY DEF NextGen
<1> HIDE DEF M
<1>3. g + 1 \in 1 .. M - 1
  BY <1>1
<1>4. (g + 1) % M = g + 1
  BY <1>1, <1>3
<1> QED
  BY <1>2, <1>3, <1>4 DEF M

LEMMA IndexFacts ==
  ASSUME HandleParameters, NEW n \in Nat
  PROVE  n % HandleSlots \in Indexes
BY DEF HandleParameters, Indexes

LEMMA HandleFacts ==
  ASSUME HandleParameters, NEW h \in Handles
  PROVE  h.index \in Indexes /\ h.kind \in HandleKinds /\ h.gen \in 1 .. 2 ^ GenBits - 1 /\ h.gen \in Nat
<1> DEFINE M == 2 ^ GenBits
<1>1. h.index \in Indexes /\ h.kind \in HandleKinds /\ h.gen \in 1 .. M - 1
  BY DEF Handles, Indexes
<1>2. M \in Nat
  BY DEF HandleParameters
<1> HIDE DEF M
<1>3. h.gen \in Nat
  BY <1>1, <1>2
<1> QED
  BY <1>1, <1>3 DEF M

\* what a thread has in its hands, by where it is
LEMMA ThreadFacts ==
  ASSUME HandleParameters, TypesInv, NEW t \in HTThreads
  PROVE  /\ hpc[t].at \in {"idle", "reg_scan", "reg_kind", "reg_ptr", "unreg", "unreg_kind",
                          "look_kind", "look_gen", "found"}
         /\ hpc[t].at = "reg_scan" => /\ hpc[t].kind \in HandleKinds /\ hpc[t].i \in 0 .. HandleSlots
                                     /\ hpc[t] = [at |-> "reg_scan", kind |-> hpc[t].kind, i |-> hpc[t].i]
         /\ Claiming(t) \/ Removing(t) =>
              hpc[t].h \in Handles /\ hpc[t] = [at |-> hpc[t].at, h |-> hpc[t].h]
         /\ Looking(t) \/ hpc[t].at = "found" =>
              /\ hpc[t].h \in Handles /\ hpc[t].ptr \in 1 .. MaxObjects \cup {Null}
              /\ hpc[t] = [at |-> hpc[t].at, h |-> hpc[t].h, ptr |-> hpc[t].ptr]
<1>1. hpc[t] \in ThreadStates
  BY DEF TypesInv
<1> QED
  BY <1>1 DEF ThreadStates, Claiming, Removing, Looking

LEMMA SlotFacts ==
  ASSUME HandleParameters, TypesInv, NEW i \in Indexes
  PROVE  /\ hslot[i].ptr \in 1 .. MaxObjects \cup {Null}
         /\ hslot[i].gen \in 0 .. 2 ^ GenBits - 1 /\ hslot[i].gen \in Nat
         /\ hslot[i].kind \in HandleKinds \cup {Invalid}
<1> DEFINE M == 2 ^ GenBits
<1>1. /\ hslot[i].ptr \in 1 .. MaxObjects \cup {Null} /\ hslot[i].gen \in 0 .. M - 1
      /\ hslot[i].kind \in HandleKinds \cup {Invalid}
  BY DEF TypesInv, HTTypeOK, Indexes
<1>2. M \in Nat
  BY DEF HandleParameters
<1> HIDE DEF M
<1>3. hslot[i].gen \in Nat
  BY <1>1, <1>2
<1> QED
  BY <1>1, <1>3 DEF M

\* a store into one field of a slot keeps the types of the table
LEMMA StoreFacts ==
  ASSUME HandleParameters, TypesInv, NEW i \in Indexes
  PROVE  /\ \A g \in 0 .. 2 ^ GenBits - 1 : [hslot EXCEPT ![i].gen = g] \in Tables
         /\ \A k \in HandleKinds \cup {Invalid} : [hslot EXCEPT ![i].kind = k] \in Tables
         /\ \A p \in 1 .. MaxObjects \cup {Null} : [hslot EXCEPT ![i].ptr = p] \in Tables
<1> DEFINE Gens == 0 .. 2 ^ GenBits - 1
           Ptrs == 1 .. MaxObjects \cup {Null}
           Kinds == HandleKinds \cup {Invalid}
           SlotRecords == [ptr : Ptrs, gen : Gens, kind : Kinds]
<1>1. hslot \in Tables /\ Tables = [0 .. HandleSlots - 1 -> SlotRecords]
  BY DEF TypesInv, HTTypeOK, Tables
<1>2. i \in 0 .. HandleSlots - 1
  BY DEF Indexes
<1> HIDE DEF Gens, Ptrs, Kinds
<1>3. hslot[i] \in SlotRecords
  BY <1>1, <1>2
<1>4. ASSUME NEW g \in Gens PROVE [hslot EXCEPT ![i].gen = g] \in Tables
  <2>1. [hslot[i] EXCEPT !.gen = g] \in SlotRecords
    BY <1>3
  <2> QED
    BY <1>1, <1>2, <2>1
<1>5. ASSUME NEW k \in Kinds PROVE [hslot EXCEPT ![i].kind = k] \in Tables
  <2>1. [hslot[i] EXCEPT !.kind = k] \in SlotRecords
    BY <1>3
  <2> QED
    BY <1>1, <1>2, <2>1
<1>6. ASSUME NEW p \in Ptrs PROVE [hslot EXCEPT ![i].ptr = p] \in Tables
  <2>1. [hslot[i] EXCEPT !.ptr = p] \in SlotRecords
    BY <1>3
  <2> QED
    BY <1>1, <1>2, <2>1
<1> QED
  BY <1>4, <1>5, <1>6 DEF Gens, Ptrs, Kinds

LEMMA CountFacts ==
  ASSUME HandleParameters, TypesInv
  PROVE  /\ Count \in Nat /\ Count <= MaxObjects /\ MaxObjects \in Nat
         /\ Issued \subseteq Handles
         /\ \A h \in Issued : issued[h] \in 1 .. MaxObjects
BY FS_CardinalityType DEF TypesInv, HTTypeOK, Issued, Count, HandleParameters

\* while one thread holds the lock no other registers or removes
LEMMA Alone ==
  ASSUME HandleInv, NEW t \in HTThreads, Registering(t) \/ Removing(t)
  PROVE  hlock = t /\ \A u \in HTThreads \ {t} : ~Registering(u) /\ ~Claiming(u) /\ ~Removing(u)
BY DEF HandleInv, LockInv, Registering

\* a free lock
LEMMA NobodyInside ==
  ASSUME HandleParameters, HandleInv, hlock = Null
  PROVE  \A u \in HTThreads : ~Registering(u) /\ ~Claiming(u) /\ ~Removing(u)
BY DEF HandleParameters, HandleInv, LockInv, Registering

-----------------------------------------------------------------------------
LEMMA InitHandle == HandleParameters /\ HTInit => HandleInv
<1> SUFFICES ASSUME HandleParameters, HTInit
             PROVE  HandleInv
  OBVIOUS
<1>1. Issued = {} /\ IsFiniteSet(Issued) /\ Count = 0
  BY FS_EmptySet DEF HTInit, Issued, Count
<1>2. \A t \in HTThreads : hpc[t] = [at |-> "idle"]
  BY DEF HTInit, HTIdle
<1>3. \A i \in Indexes : hslot[i].ptr = Null /\ hslot[i].gen = 0 /\ hslot[i].kind = Invalid
  BY DEF HTInit, Indexes
<1>4. TypesInv
  <2>1. 0 \in 0 .. 2 ^ GenBits - 1
    BY DEF HandleParameters
  <2>2. HTTypeOK
    BY <1>1, <2>1 DEF HTTypeOK, HTInit, HandleParameters, Issued
  <2>3. hpc \in [HTThreads -> ThreadStates]
    BY <1>2 DEF HTInit, HTIdle, ThreadStates
  <2>4. issued \in [Issued -> 1 .. MaxObjects]
    BY <1>1 DEF HTInit, Issued
  <2> QED
    BY <1>1, <2>2, <2>3, <2>4 DEF TypesInv, HandleParameters
<1> QED
  BY <1>1, <1>2, <1>3, <1>4
  DEF HandleInv, LockInv, NumberInv, GenInv, FilledInv, ClaimInv, RemoveInv, LookInv,
      Registering, Claiming, Removing, Looking

-----------------------------------------------------------------------------
(* Steps that leave the slots and the history alone: taking the lock, passing *)
(* a slot that is in use, giving up, and every step of a lookup.              *)

LEMMA ThreadStep ==
  ASSUME HandleParameters, HandleInv, NEW t \in HTThreads, NEW s \in ThreadStates,
         UNCHANGED <<hslot, hnext, issued>>, hpc' = [hpc EXCEPT ![t] = s],
         ~Claiming(t), s.at \notin {"reg_kind", "reg_ptr", "unreg_kind"},
         hlock' \in HTThreads \cup {Null},
         s.at \in {"reg_scan", "unreg"} => hlock' = t,
         \A u \in HTThreads \ {t} : Registering(u) \/ Removing(u) => hlock' = u,
         s.at = "reg_scan" => Count < MaxObjects,
         s.at \in {"unreg", "look_kind", "look_gen", "found"} => s.h \in Issued,
         s.at \in {"look_kind", "look_gen"} /\ hslot[s.h.index].gen = s.h.gen => s.ptr = issued[s.h],
         s.at = "found" => s.ptr \in {Null, issued[s.h]}
  PROVE  HandleInv'
<1>1. /\ hpc \in [HTThreads -> ThreadStates] /\ hpc'[t] = s
      /\ \A u \in HTThreads \ {t} : hpc'[u] = hpc[u]
  BY DEF HandleInv, TypesInv
<1>2. /\ Issued' = Issued /\ Count' = Count
      /\ \A u \in HTThreads : Claiming(u)' <=> Claiming(u)
      /\ \A u \in HTThreads \ {t} :
           /\ Registering(u)' <=> Registering(u)
           /\ Removing(u)' <=> Removing(u)
           /\ Looking(u)' <=> Looking(u)
  BY <1>1 DEF Issued, Count, Claiming, Registering, Removing, Looking
<1>3. TypesInv'
  BY <1>1, <1>2 DEF HandleInv, TypesInv, HTTypeOK, Issued
<1>4. LockInv'
  BY <1>1, <1>2 DEF LockInv, Registering, Removing, Claiming
<1>5. NumberInv'
  BY <1>1, <1>2 DEF HandleInv, NumberInv, Registering, Claiming
<1>6. GenInv'
  BY <1>2 DEF HandleInv, GenInv
<1>7. FilledInv'
  BY <1>2 DEF HandleInv, FilledInv
<1>8. ClaimInv'
  BY <1>1, <1>2 DEF HandleInv, ClaimInv
<1>9. RemoveInv'
  BY <1>1, <1>2 DEF HandleInv, RemoveInv, Removing
<1>10. LookInv'
  BY <1>1, <1>2 DEF HandleInv, LookInv, Looking
<1> QED
  BY <1>3, <1>4, <1>5, <1>6, <1>7, <1>8, <1>9, <1>10 DEF HandleInv

\* what every step of a thread starts from
LEMMA StepFacts ==
  ASSUME HandleParameters, HandleInv, NEW t \in HTThreads
  PROVE  /\ TypesInv
         /\ hlock \in HTThreads \cup {Null}
         /\ \A u \in HTThreads : Registering(u) \/ Removing(u) => hlock = u
         /\ [at |-> "idle"] \in ThreadStates
BY DEF HandleInv, TypesInv, HTTypeOK, LockInv, ThreadStates

LEMMA BeginStep ==
  ASSUME HandleParameters, HandleInv, NEW t \in HTThreads,
         \/ \E k \in HandleKinds : RegisterBegin(t, k)
         \/ \E h \in Issued : UnregisterBegin(t, h)
  PROVE  HandleInv'
<1>1. hpc[t].at = "idle" /\ hlock = Null /\ hlock' = t /\ UNCHANGED <<hslot, hnext, issued>>
  BY DEF RegisterBegin, UnregisterBegin, Acquire
<1>2. /\ ~Claiming(t)
      /\ \A u \in HTThreads \ {t} : ~(Registering(u) \/ Removing(u))
  BY <1>1, NobodyInside DEF Claiming
<1>3. CASE \E k \in HandleKinds : RegisterBegin(t, k)
  <2>1. PICK k \in HandleKinds : RegisterBegin(t, k)
    BY <1>3
  <2> DEFINE s == [at |-> "reg_scan", kind |-> k, i |-> 0]
  <2>2. hpc' = [hpc EXCEPT ![t] = s] /\ Count < MaxObjects
    BY <2>1 DEF RegisterBegin, Acquire, Count
  <2>3. s \in ThreadStates /\ s.at = "reg_scan"
    BY DEF ThreadStates, HandleParameters
  <2> HIDE DEF s
  <2> QED
    BY <1>1, <1>2, <2>2, <2>3, ThreadStep
<1>4. CASE \E h \in Issued : UnregisterBegin(t, h)
  <2>1. PICK h \in Issued : UnregisterBegin(t, h)
    BY <1>4
  <2> DEFINE s == [at |-> "unreg", h |-> h]
  <2>2. hpc' = [hpc EXCEPT ![t] = s]
    BY <2>1 DEF UnregisterBegin, Acquire
  <2>3. s \in ThreadStates /\ s.at = "unreg" /\ s.h \in Issued
    BY CountFacts, StepFacts DEF ThreadStates
  <2> HIDE DEF s
  <2> QED
    BY <1>1, <1>2, <2>2, <2>3, ThreadStep
<1> QED
  BY <1>3, <1>4

\* a step that ends the thread's call without a change to the table
LEMMA GiveUp ==
  ASSUME HandleParameters, HandleInv, NEW t \in HTThreads, ~Claiming(t),
         UNCHANGED <<hslot, hnext, issued>>, hpc' = [hpc EXCEPT ![t] = HTIdle],
         \/ hlock' = Null /\ (Registering(t) \/ Removing(t))
         \/ hlock' = hlock
  PROVE  HandleInv'
<1> DEFINE s == [at |-> "idle"]
<1>1. s \in ThreadStates /\ s.at = "idle" /\ hpc' = [hpc EXCEPT ![t] = s]
  BY StepFacts DEF HTIdle
<1>2. /\ hlock' \in HTThreads \cup {Null}
      /\ \A u \in HTThreads \ {t} : Registering(u) \/ Removing(u) => hlock' = u
  BY StepFacts, Alone
<1> HIDE DEF s
<1> QED
  BY <1>1, <1>2, ThreadStep

LEMMA LookupStep ==
  ASSUME HandleParameters, HandleInv, NEW t \in HTThreads,
         \/ \E h \in Issued : LookupPtr(t, h)
         \/ LookupKind(t) \/ LookupGen(t) \/ LookupReturn(t)
  PROVE  HandleInv'
<1>1. /\ UNCHANGED <<hslot, hnext, hlock, issued>> /\ ~Claiming(t)
      /\ hlock' \in HTThreads \cup {Null}
      /\ \A u \in HTThreads \ {t} : Registering(u) \/ Removing(u) => hlock' = u
  BY StepFacts DEF LookupPtr, LookupKind, LookupGen, LookupReturn, Claiming
<1>2. TypesInv /\ LookInv /\ Issued \subseteq Handles
  BY CountFacts DEF HandleInv
<1>3. CASE \E h \in Issued : LookupPtr(t, h)
  <2>1. PICK h \in Issued : LookupPtr(t, h)
    BY <1>3
  <2>2. /\ h \in Handles /\ h.index \in Indexes /\ h.gen \in Nat
        /\ hslot[h.index].ptr \in 1 .. MaxObjects \cup {Null}
    BY <1>2, HandleFacts, SlotFacts
  <2>3. CASE hslot[h.index].ptr = Null
    <3> DEFINE s == [at |-> "found", h |-> h, ptr |-> Null]
    <3>1. s \in ThreadStates /\ s.at = "found" /\ s.h = h /\ s.ptr = Null
      BY <2>2 DEF ThreadStates
    <3>2. hpc' = [hpc EXCEPT ![t] = s]
      BY <2>1, <2>3 DEF LookupPtr
    <3> HIDE DEF s
    <3> QED
      BY <1>1, <3>1, <3>2, ThreadStep
  <2>4. CASE hslot[h.index].ptr # Null
    <3> DEFINE s == [at |-> "look_kind", h |-> h, ptr |-> hslot[h.index].ptr]
    <3>1. s \in ThreadStates /\ s.at = "look_kind" /\ s.h = h /\ s.ptr = hslot[h.index].ptr
      BY <2>2 DEF ThreadStates
    <3>2. hpc' = [hpc EXCEPT ![t] = s]
      BY <2>1, <2>4 DEF LookupPtr
    <3>3. ASSUME hslot[h.index].gen = h.gen PROVE hslot[h.index].ptr = issued[h]
      <4>1. PICK g \in Issued : /\ g.index = h.index /\ issued[g] = hslot[h.index].ptr
                               /\ Matches(hslot[h.index], g)
        BY <2>2, <2>4 DEF HandleInv, FilledInv
      <4>2. g = h
        BY <3>3, <4>1 DEF Matches, HandleInv, GenInv
      <4> QED
        BY <4>1, <4>2
    <3> HIDE DEF s
    <3> QED
      BY <1>1, <3>1, <3>2, <3>3, ThreadStep
  <2> QED
    BY <2>3, <2>4
<1>4. CASE LookupKind(t)
  <2>1. /\ hpc[t].at = "look_kind" /\ hpc[t].h \in Issued /\ hpc[t].h \in Handles
        /\ hpc[t].ptr \in 1 .. MaxObjects \cup {Null}
        /\ hpc[t] = [at |-> "look_kind", h |-> hpc[t].h, ptr |-> hpc[t].ptr]
        /\ hslot[hpc[t].h.index].gen = hpc[t].h.gen => hpc[t].ptr = issued[hpc[t].h]
    BY <1>2, <1>4, ThreadFacts DEF LookupKind, LookInv, Looking
  <2>2. CASE hslot[hpc[t].h.index].kind = hpc[t].h.kind
    <3> DEFINE s == [at |-> "look_gen", h |-> hpc[t].h, ptr |-> hpc[t].ptr]
    <3>1. s \in ThreadStates /\ s.at = "look_gen" /\ s.h = hpc[t].h /\ s.ptr = hpc[t].ptr
      BY <2>1 DEF ThreadStates
    <3>2. hpc' = [hpc EXCEPT ![t] = s]
      <4>1. [hpc[t] EXCEPT !.at = "look_gen"] = s
        BY <2>1
      <4>2. hpc' = [hpc EXCEPT ![t] = [hpc[t] EXCEPT !.at = "look_gen"]]
        BY <1>4, <2>2 DEF LookupKind
      <4> QED
        BY <4>1, <4>2
    <3> HIDE DEF s
    <3> QED
      BY <1>1, <2>1, <3>1, <3>2, ThreadStep
  <2>3. CASE hslot[hpc[t].h.index].kind # hpc[t].h.kind
    <3> DEFINE s == [at |-> "found", h |-> hpc[t].h, ptr |-> Null]
    <3>1. s \in ThreadStates /\ s.at = "found" /\ s.h = hpc[t].h /\ s.ptr = Null
      BY <2>1 DEF ThreadStates
    <3>2. hpc' = [hpc EXCEPT ![t] = s]
      BY <1>4, <2>3 DEF LookupKind
    <3> HIDE DEF s
    <3> QED
      BY <1>1, <2>1, <3>1, <3>2, ThreadStep
  <2> QED
    BY <2>2, <2>3
<1>5. CASE LookupGen(t)
  <2>1. /\ hpc[t].at = "look_gen" /\ hpc[t].h \in Issued /\ hpc[t].h \in Handles
        /\ hpc[t].ptr \in 1 .. MaxObjects \cup {Null}
        /\ hpc[t] = [at |-> "look_gen", h |-> hpc[t].h, ptr |-> hpc[t].ptr]
        /\ hslot[hpc[t].h.index].gen = hpc[t].h.gen => hpc[t].ptr = issued[hpc[t].h]
    BY <1>2, <1>5, ThreadFacts DEF LookupGen, LookInv, Looking
  <2> DEFINE s == [at |-> "found", h |-> hpc[t].h,
                   ptr |-> IF hslot[hpc[t].h.index].gen = hpc[t].h.gen THEN hpc[t].ptr ELSE Null]
  <2>2. /\ s \in ThreadStates /\ s.at = "found" /\ s.h = hpc[t].h
        /\ s.ptr \in {Null, issued[hpc[t].h]}
    BY <2>1 DEF ThreadStates
  <2>3. hpc' = [hpc EXCEPT ![t] = s]
    BY <1>5 DEF LookupGen
  <2> HIDE DEF s
  <2> QED
    BY <1>1, <2>1, <2>2, <2>3, ThreadStep
<1>6. CASE LookupReturn(t)
  BY <1>1, <1>6, GiveUp DEF LookupReturn
<1> QED
  BY <1>3, <1>4, <1>5, <1>6

-----------------------------------------------------------------------------
(* The steps that store into a slot *)

\* what a store into the slot of index i by thread t leaves as it was
LEMMA OthersRest ==
  ASSUME HandleParameters, HandleInv, NEW t \in HTThreads, NEW s, hpc' = [hpc EXCEPT ![t] = s]
  PROVE  /\ hpc \in [HTThreads -> ThreadStates] /\ hpc'[t] = s
         /\ \A u \in HTThreads \ {t} :
              /\ hpc'[u] = hpc[u]
              /\ Claiming(u)' <=> Claiming(u)
              /\ Registering(u)' <=> Registering(u)
              /\ Removing(u)' <=> Removing(u)
              /\ Looking(u)' <=> Looking(u)
<1>1. hpc \in [HTThreads -> ThreadStates]
  BY DEF HandleInv, TypesInv
<1>2. hpc'[t] = s /\ \A u \in HTThreads \ {t} : hpc'[u] = hpc[u]
  BY <1>1
<1> QED
  BY <1>1, <1>2 DEF Claiming, Registering, Removing, Looking

\* the claim: the generation of an empty slot goes up by one
LEMMA ClaimStep ==
  ASSUME HandleParameters, HandleInv, NEW t \in HTThreads, hpc[t].at = "reg_scan",
         NEW i \in Indexes, hslot[i].ptr = Null,
         NEW g, g = NextGen(hslot[i].gen),
         hslot' = [hslot EXCEPT ![i].gen = g],
         hpc' = [hpc EXCEPT ![t] =
                   [at |-> "reg_kind", h |-> [kind |-> hpc[t].kind, index |-> i, gen |-> g]]],
         UNCHANGED <<hlock, hnext, issued>>
  PROVE  HandleInv'
<1> DEFINE h == [kind |-> hpc[t].kind, index |-> i, gen |-> g]
           s == [at |-> "reg_kind", h |-> h]
<1>1. /\ TypesInv /\ hpc[t].kind \in HandleKinds
      /\ hlock = t /\ Count < MaxObjects
      /\ \A u \in HTThreads : ~Claiming(u)
      /\ \A u \in HTThreads \ {t} : ~Registering(u) /\ ~Removing(u)
  BY ThreadFacts, Alone DEF HandleInv, NumberInv, Registering, Claiming
<1>2. hslot[i].gen \in Nat /\ hslot[i].gen <= Count
  BY <1>1, SlotFacts DEF HandleInv, GenInv
<1>3. g = hslot[i].gen + 1 /\ g \in 1 .. 2 ^ GenBits - 1
  BY <1>1, <1>2, NextGenFacts, CountFacts
<1>4. h \in Handles /\ h.index = i /\ h.gen = g /\ s \in ThreadStates /\ s.at = "reg_kind" /\ s.h = h
  BY <1>1, <1>3 DEF Handles, Indexes, ThreadStates
<1> HIDE DEF h
<1>5. hpc' = [hpc EXCEPT ![t] = s]
  BY DEF h
<1>6. /\ hslot'[i].gen = g /\ hslot'[i].ptr = Null /\ hslot'[i].kind = hslot[i].kind
      /\ \A j \in Indexes \ {i} : hslot'[j] = hslot[j]
      /\ \A j \in Indexes : hslot'[j].ptr = hslot[j].ptr
  BY <1>1, SlotFacts DEF TypesInv, HTTypeOK, Indexes
<1> HIDE DEF s
<1>7. /\ hpc'[t] = s
      /\ \A u \in HTThreads \ {t} :
           /\ hpc'[u] = hpc[u]
           /\ ~Claiming(u)' /\ ~Registering(u)' /\ ~Removing(u)'
           /\ Looking(u)' <=> Looking(u)
  BY <1>1, <1>5, OthersRest
<1>8. Claiming(t)' /\ Registering(t)' /\ ~Removing(t)' /\ ~Looking(t)' /\ hpc'[t].at # "found"
  BY <1>4, <1>7 DEF Claiming, Registering, Removing, Looking
<1>9. Issued' = Issued /\ Count' = Count /\ Issued \subseteq Handles /\ Count \in Nat
  BY <1>1, CountFacts DEF Issued, Count
<1>10. \A k \in Issued : k.index \in Indexes /\ k.gen \in Nat /\ k.gen <= hslot[k.index].gen
  BY <1>9, HandleFacts DEF HandleInv, GenInv
<1>11. TypesInv'
  <2>1. hslot' \in Tables
    <3>1. g \in 0 .. 2 ^ GenBits - 1
      BY <1>3 DEF HandleParameters
    <3> QED
      BY <1>1, <3>1, StoreFacts
  <2>2. hpc' \in [HTThreads -> ThreadStates]
    BY <1>1, <1>4, <1>5 DEF TypesInv
  <2> QED
    BY <1>1, <1>9, <2>1, <2>2 DEF TypesInv, HTTypeOK, Issued, Tables
<1>12. LockInv'
  BY <1>1, <1>7 DEF LockInv
<1>13. NumberInv'
  BY <1>1, <1>7, <1>9 DEF HandleInv, NumberInv
<1>14. GenInv'
  <2>1. ASSUME NEW j \in Indexes
        PROVE  \/ hslot'[j].gen <= Count'
               \/ hslot'[j].gen = Count' + 1 /\ Claiming(t)'
    <3>1. CASE j = i
      BY <1>2, <1>3, <1>6, <1>8, <1>9, <3>1
    <3>2. CASE j # i
      BY <1>1, <1>6, <1>9, <3>2 DEF HandleInv, GenInv
    <3> QED
      BY <3>1, <3>2
  <2>2. ASSUME NEW k \in Issued PROVE k.gen <= hslot'[k.index].gen
    BY <1>2, <1>3, <1>6, <1>10
  <2>3. \A k, l \in Issued : k.index = l.index /\ k.gen = l.gen => k = l
    BY DEF HandleInv, GenInv
  <2> QED
    BY <1>9, <2>1, <2>2, <2>3 DEF GenInv
<1>15. FilledInv'
  <2> SUFFICES ASSUME NEW j \in Indexes, hslot'[j].ptr # Null
               PROVE  \E k \in Issued : k.index = j /\ issued[k] = hslot'[j].ptr /\ Matches(hslot'[j], k)
    BY <1>9 DEF FilledInv, Matches
  <2>1. j # i /\ hslot'[j] = hslot[j]
    BY <1>6
  <2> QED
    BY <2>1 DEF HandleInv, FilledInv
<1>16. ClaimInv'
  <2> SUFFICES /\ hslot'[h.index].ptr = Null /\ hslot'[h.index].gen = h.gen
               /\ \A k \in Issued : k.index = h.index => k.gen < h.gen
    BY <1>4, <1>7, <1>9 DEF ClaimInv
  <2> QED
    BY <1>2, <1>3, <1>4, <1>6, <1>10
<1>17. RemoveInv'
  BY <1>4, <1>7, <1>8, <1>1, <1>9 DEF HandleInv, RemoveInv, Removing
<1>18. LookInv'
  <2> SUFFICES ASSUME NEW u \in HTThreads \ {t}
               PROVE  /\ Looking(u) \/ hpc[u].at = "found" => hpc[u].h \in Issued
                      /\ Looking(u) /\ hslot'[hpc[u].h.index].gen = hpc[u].h.gen =>
                           hpc[u].ptr = issued[hpc[u].h]
                      /\ hpc[u].at = "found" => hpc[u].ptr \in {Null, issued[hpc[u].h]}
    BY <1>7, <1>8, <1>9 DEF LookInv
  <2>1. /\ Looking(u) \/ hpc[u].at = "found" => hpc[u].h \in Issued
        /\ Looking(u) /\ hslot[hpc[u].h.index].gen = hpc[u].h.gen => hpc[u].ptr = issued[hpc[u].h]
        /\ hpc[u].at = "found" => hpc[u].ptr \in {Null, issued[hpc[u].h]}
    BY DEF HandleInv, LookInv
  <2>2. ASSUME Looking(u), hslot'[hpc[u].h.index].gen = hpc[u].h.gen
        PROVE  hslot[hpc[u].h.index].gen = hpc[u].h.gen
    <3>1. /\ hpc[u].h.index \in Indexes /\ hpc[u].h.gen \in Nat
          /\ hpc[u].h.gen <= hslot[hpc[u].h.index].gen
      BY <1>10, <2>1, <2>2
    <3> QED
      BY <1>2, <1>3, <1>6, <2>2, <3>1
  <2> QED
    BY <2>1, <2>2
<1> QED
  BY <1>11, <1>12, <1>13, <1>14, <1>15, <1>16, <1>17, <1>18 DEF HandleInv

LEMMA ScanStep ==
  ASSUME HandleParameters, HandleInv, NEW t \in HTThreads, RegisterScan(t)
  PROVE  HandleInv'
<1> DEFINE i == (hnext + hpc[t].i) % HandleSlots
<1>1. /\ hpc[t].at = "reg_scan" /\ UNCHANGED <<hnext, issued>> /\ TypesInv
      /\ ~Claiming(t) /\ Registering(t) /\ hlock = t /\ Count < MaxObjects
  BY Alone DEF RegisterScan, HandleInv, NumberInv, Claiming, Registering
<1>2. /\ hpc[t].kind \in HandleKinds /\ hpc[t].i \in 0 .. HandleSlots
      /\ hpc[t] = [at |-> "reg_scan", kind |-> hpc[t].kind, i |-> hpc[t].i]
  BY <1>1, ThreadFacts
<1>3. i \in Indexes
  <2>1. hnext \in 0 .. HandleSlots - 1 /\ HandleSlots \in Nat
    BY <1>1 DEF TypesInv, HTTypeOK, HandleParameters
  <2>2. hnext + hpc[t].i \in Nat
    BY <1>2, <2>1
  <2> QED
    BY <2>2, IndexFacts
<1>4. CASE hpc[t].i = HandleSlots
  BY <1>1, <1>4, GiveUp DEF RegisterScan
<1>5. CASE hpc[t].i # HandleSlots /\ hslot[i].ptr # Null
  <2> DEFINE s == [at |-> "reg_scan", kind |-> hpc[t].kind, i |-> hpc[t].i + 1]
  <2>1. s \in ThreadStates /\ s.at = "reg_scan"
    BY <1>2, <1>5 DEF ThreadStates, HandleParameters
  <2>2. /\ hpc' = [hpc EXCEPT ![t] = [hpc[t] EXCEPT !.i = hpc[t].i + 1]]
        /\ UNCHANGED <<hslot, hlock>>
    BY <1>5 DEF RegisterScan
  <2>3. [hpc[t] EXCEPT !.i = hpc[t].i + 1] = s
    BY <1>2
  <2> HIDE DEF s
  <2>4. \A u \in HTThreads \ {t} : Registering(u) \/ Removing(u) => hlock' = u
    BY <1>1, Alone
  <2> QED
    BY <1>1, <2>1, <2>2, <2>3, <2>4, ThreadStep
<1>6. CASE hpc[t].i # HandleSlots /\ hslot[i].ptr = Null
  <2> DEFINE g == NextGen(hslot[i].gen)
  <2>1. /\ hslot' = [hslot EXCEPT ![i].gen = g]
        /\ hpc' = [hpc EXCEPT ![t] =
                     [at |-> "reg_kind", h |-> [kind |-> hpc[t].kind, index |-> i, gen |-> g]]]
        /\ UNCHANGED hlock
    BY <1>6 DEF RegisterScan
  <2> HIDE DEF i, g
  <2>2. g = NextGen(hslot[i].gen) /\ hslot[i].ptr = Null
    BY <1>6 DEF g, i
  <2> QED
    BY <1>1, <1>3, <2>1, <2>2, ClaimStep
<1> QED
  BY <1>4, <1>5, <1>6

\* A store that leaves the generations alone, and the pointers of all but the
\* slot of the thread's handle, which it leaves empty: the kind of a claimed
\* slot, and both stores of a removal.
LEMMA EmptyStore ==
  ASSUME HandleParameters, HandleInv, NEW t \in HTThreads, Claiming(t) \/ Removing(t),
         NEW h, h = hpc[t].h, NEW s \in ThreadStates, hpc' = [hpc EXCEPT ![t] = s],
         hslot' \in Tables,
         hslot'[h.index].ptr = Null,
         \A i \in Indexes : hslot'[i].gen = hslot[i].gen /\ (i # h.index => hslot'[i] = hslot[i]),
         UNCHANGED <<hnext, issued>>,
         \/ s.at = "idle" /\ hlock' = Null /\ Removing(t)
         \/ s.at = "unreg_kind" /\ s.h = h /\ hlock' = hlock /\ Removing(t)
         \/ s.at = "reg_ptr" /\ s.h = h /\ hlock' = hlock /\ Claiming(t) /\ hslot'[h.index].kind = h.kind
  PROVE  HandleInv'
<1>1. /\ TypesInv /\ hlock = t /\ (Claiming(t) => Count < MaxObjects)
      /\ \A u \in HTThreads \ {t} : ~Registering(u) /\ ~Claiming(u) /\ ~Removing(u)
      /\ (Removing(t) => h \in Issued) /\ h \in Handles /\ h.index \in Indexes
  BY ThreadFacts, Alone, HandleFacts DEF HandleInv, NumberInv, Registering, RemoveInv
<1>2. /\ hpc'[t] = s
      /\ \A u \in HTThreads \ {t} :
           /\ hpc'[u] = hpc[u]
           /\ ~Claiming(u)' /\ ~Registering(u)' /\ ~Removing(u)'
           /\ Looking(u)' <=> Looking(u)
  BY <1>1, OthersRest
<1>3. /\ ~Looking(t)' /\ hpc'[t].at # "found" /\ hpc'[t].at # "reg_scan"
      /\ Claiming(t)' <=> s.at = "reg_ptr"
      /\ Claiming(t)' => Claiming(t)
      /\ Registering(t)' => Claiming(t) /\ hlock' = t
      /\ Removing(t)' => s.at = "unreg_kind" /\ s.h = h /\ h \in Issued /\ hlock' = t
  BY <1>1, <1>2 DEF Claiming, Removing, Registering, Looking
<1>4. Issued' = Issued /\ Count' = Count /\ Issued \subseteq Handles
  BY <1>1, CountFacts DEF Issued, Count
<1>5. \A k \in Issued : k.index \in Indexes
  BY <1>4, HandleFacts
<1>6. TypesInv'
  BY <1>1, <1>4 DEF TypesInv, HTTypeOK, Issued, Tables
<1>7. LockInv'
  BY <1>2, <1>3 DEF LockInv
<1>8. NumberInv'
  BY <1>1, <1>2, <1>3, <1>4 DEF HandleInv, NumberInv
<1>9. GenInv'
  <2>1. ASSUME NEW i \in Indexes
        PROVE  \/ hslot'[i].gen <= Count'
               \/ hslot'[i].gen = Count' + 1 /\ \E u \in HTThreads : Claiming(u)'
    <3>1. Claiming(t) => Claiming(t)'
      <4>1. ASSUME Claiming(t) PROVE ~Removing(t)
        BY <4>1 DEF Claiming, Removing
      <4> QED
        BY <1>3, <4>1
    <3>2. \/ hslot[i].gen <= Count
          \/ hslot[i].gen = Count + 1 /\ Claiming(t)
      BY <1>1 DEF HandleInv, GenInv
    <3> QED
      BY <1>4, <3>1, <3>2
  <2>2. \A k \in Issued : k.gen <= hslot'[k.index].gen
    BY <1>5 DEF HandleInv, GenInv
  <2>3. \A k, l \in Issued : k.index = l.index /\ k.gen = l.gen => k = l
    BY DEF HandleInv, GenInv
  <2> QED
    BY <1>4, <2>1, <2>2, <2>3 DEF GenInv
<1>10. FilledInv'
  <2> SUFFICES ASSUME NEW i \in Indexes, hslot'[i].ptr # Null
               PROVE  \E k \in Issued : k.index = i /\ issued[k] = hslot'[i].ptr /\ Matches(hslot'[i], k)
    BY <1>4 DEF FilledInv, Matches
  <2>1. hslot'[i] = hslot[i]
    OBVIOUS
  <2> QED
    BY <2>1 DEF HandleInv, FilledInv
<1>11. ClaimInv'
  <2> SUFFICES ASSUME Claiming(t)'
               PROVE  /\ hslot'[h.index].ptr = Null /\ hslot'[h.index].gen = h.gen
                      /\ hslot'[h.index].kind = h.kind
                      /\ \A k \in Issued : k.index = h.index => k.gen < h.gen
    BY <1>2, <1>3, <1>4 DEF ClaimInv
  <2> QED
    BY <1>1, <1>3 DEF HandleInv, ClaimInv, Removing, Claiming
<1>12. RemoveInv'
  BY <1>2, <1>3, <1>4, <1>1 DEF RemoveInv, Removing
<1>13. LookInv'
  <2> SUFFICES ASSUME NEW u \in HTThreads \ {t}
               PROVE  /\ Looking(u) \/ hpc[u].at = "found" => hpc[u].h \in Issued
                      /\ Looking(u) /\ hslot'[hpc[u].h.index].gen = hpc[u].h.gen =>
                           hpc[u].ptr = issued[hpc[u].h]
                      /\ hpc[u].at = "found" => hpc[u].ptr \in {Null, issued[hpc[u].h]}
    BY <1>2, <1>3, <1>4 DEF LookInv
  <2> QED
    BY <1>5 DEF HandleInv, LookInv
<1> QED
  BY <1>6, <1>7, <1>8, <1>9, <1>10, <1>11, <1>12, <1>13 DEF HandleInv

LEMMA KindStep ==
  ASSUME HandleParameters, HandleInv, NEW t \in HTThreads, RegisterKind(t)
  PROVE  HandleInv'
<1> DEFINE h == hpc[t].h
           s == [at |-> "reg_ptr", h |-> h]
<1>1. /\ hpc[t].at = "reg_kind" /\ hslot' = [hslot EXCEPT ![h.index].kind = h.kind]
      /\ hpc' = [hpc EXCEPT ![t].at = "reg_ptr"] /\ UNCHANGED <<hnext, hlock, issued>>
  BY DEF RegisterKind
<1>2. /\ TypesInv /\ Claiming(t) /\ h \in Handles /\ hpc[t] = [at |-> "reg_kind", h |-> h]
      /\ h.index \in Indexes /\ h.kind \in HandleKinds \cup {Invalid}
      /\ hslot[h.index].ptr = Null
  BY <1>1, ThreadFacts, HandleFacts DEF HandleInv, ClaimInv, Claiming
<1>3. /\ hpc' = [hpc EXCEPT ![t] = s] /\ s \in ThreadStates /\ s.at = "reg_ptr" /\ s.h = h
  <2>1. [hpc[t] EXCEPT !.at = "reg_ptr"] = s
    BY <1>2
  <2> QED
    BY <1>1, <1>2, <2>1 DEF ThreadStates
<1> HIDE DEF h, s
<1>4. /\ hslot'[h.index].ptr = Null /\ hslot'[h.index].kind = h.kind
      /\ \A i \in Indexes : hslot'[i].gen = hslot[i].gen /\ (i # h.index => hslot'[i] = hslot[i])
  BY <1>1, <1>2, SlotFacts DEF TypesInv, HTTypeOK, Indexes
<1>5. hslot' \in Tables
  BY <1>1, <1>2, StoreFacts
<1>6. /\ h = hpc[t].h /\ UNCHANGED <<hnext, issued>> /\ (Claiming(t) \/ Removing(t))
      /\ s.at = "reg_ptr" /\ s.h = h /\ hlock' = hlock /\ Claiming(t) /\ hslot'[h.index].kind = h.kind
  BY <1>1, <1>2, <1>3, <1>4 DEF h
<1>7. hpc' = [hpc EXCEPT ![t] = s] /\ s \in ThreadStates
  BY <1>3
<1> QED
  BY <1>4, <1>5, <1>6, <1>7, EmptyStore

LEMMA RemoveStep ==
  ASSUME HandleParameters, HandleInv, NEW t \in HTThreads, UnregisterPtr(t) \/ UnregisterKind(t)
  PROVE  HandleInv'
<1> DEFINE h == hpc[t].h
<1>1. /\ TypesInv /\ Removing(t) /\ ~Claiming(t) /\ h \in Handles /\ h.index \in Indexes
      /\ hpc[t] = [at |-> hpc[t].at, h |-> h]
      /\ UNCHANGED <<hnext, issued>>
  <2>1. /\ TypesInv /\ Removing(t) /\ ~Claiming(t) /\ UNCHANGED <<hnext, issued>>
    BY DEF UnregisterPtr, UnregisterKind, HandleInv, Removing, Claiming
  <2> QED
    BY <2>1, ThreadFacts, HandleFacts
<1> HIDE DEF h
<1>2. h = hpc[t].h
  BY DEF h
<1>3. CASE UnregisterPtr(t) /\ Matches(hslot[h.index], h)
  <2> DEFINE s == [at |-> "unreg_kind", h |-> h]
  <2>1. /\ hslot' = [hslot EXCEPT ![h.index].ptr = Null] /\ UNCHANGED hlock
        /\ hpc' = [hpc EXCEPT ![t].at = "unreg_kind"]
    BY <1>2, <1>3 DEF UnregisterPtr
  <2>2. hpc' = [hpc EXCEPT ![t] = s] /\ s \in ThreadStates /\ s.at = "unreg_kind" /\ s.h = h
    <3>1. [hpc[t] EXCEPT !.at = "unreg_kind"] = s
      BY <1>1
    <3> QED
      BY <1>1, <2>1, <3>1 DEF ThreadStates
  <2> HIDE DEF s
  <2>3. /\ hslot'[h.index].ptr = Null
        /\ \A i \in Indexes : hslot'[i].gen = hslot[i].gen /\ (i # h.index => hslot'[i] = hslot[i])
    BY <1>1, <2>1, SlotFacts DEF TypesInv, HTTypeOK, Indexes
  <2>4. hslot' \in Tables
    BY <1>1, <2>1, StoreFacts
  <2>5. /\ UNCHANGED <<hnext, issued>> /\ (Claiming(t) \/ Removing(t))
        /\ s.at = "unreg_kind" /\ s.h = h /\ hlock' = hlock /\ Removing(t)
    BY <1>1, <2>1, <2>2
  <2>6. hpc' = [hpc EXCEPT ![t] = s] /\ s \in ThreadStates
    BY <2>2
  <2> QED
    BY <1>2, <2>3, <2>4, <2>5, <2>6, EmptyStore
<1>4. CASE UnregisterPtr(t) /\ ~Matches(hslot[h.index], h)
  <2>1. hpc' = [hpc EXCEPT ![t] = HTIdle] /\ hlock' = Null /\ UNCHANGED hslot
    BY <1>2, <1>4 DEF UnregisterPtr
  <2> QED
    BY <1>1, <2>1, GiveUp
<1>5. CASE UnregisterKind(t)
  <2> DEFINE s == [at |-> "idle"]
  <2>1. /\ hslot' = [hslot EXCEPT ![h.index].kind = Invalid] /\ hlock' = Null
        /\ hpc' = [hpc EXCEPT ![t] = s] /\ s \in ThreadStates /\ s.at = "idle"
        /\ hslot[h.index].ptr = Null
    BY <1>2, <1>5, StepFacts DEF UnregisterKind, HTIdle, HandleInv, RemoveInv
  <2> HIDE DEF s
  <2>2. /\ hslot'[h.index].ptr = Null
        /\ \A i \in Indexes : hslot'[i].gen = hslot[i].gen /\ (i # h.index => hslot'[i] = hslot[i])
    BY <1>1, <2>1, SlotFacts DEF TypesInv, HTTypeOK, Indexes
  <2>3. hslot' \in Tables
    BY <1>1, <2>1, StoreFacts
  <2>4. UNCHANGED <<hnext, issued>> /\ (Claiming(t) \/ Removing(t))
    BY <1>1, <1>5 DEF UnregisterKind
  <2>5. s.at = "idle" /\ hlock' = Null /\ Removing(t)
    BY <1>1, <2>1
  <2>6. hpc' = [hpc EXCEPT ![t] = s] /\ s \in ThreadStates
    BY <2>1
  <2> QED
    BY <1>2, <2>2, <2>3, <2>4, <2>5, <2>6, EmptyStore
<1> QED
  BY <1>3, <1>4, <1>5

\* the store that publishes the object and hands its handle out
LEMMA PublishStep ==
  ASSUME HandleParameters, HandleInv, NEW t \in HTThreads, RegisterPtr(t)
  PROVE  HandleInv'
<1> DEFINE h == hpc[t].h
           n == Count + 1
           s == [at |-> "idle"]
<1>1. /\ hpc[t].at = "reg_ptr" /\ hslot' = [hslot EXCEPT ![h.index].ptr = n]
      /\ issued' = [k \in Issued \cup {h} |-> IF k = h THEN n ELSE issued[k]]
      /\ hnext' = (h.index + 1) % HandleSlots /\ hlock' = Null
      /\ hpc' = [hpc EXCEPT ![t] = s] /\ s \in ThreadStates /\ s.at = "idle"
  BY StepFacts DEF RegisterPtr, ObjectFor, Issued, Count, HTIdle
<1>2. /\ TypesInv /\ Claiming(t) /\ h \in Handles /\ h.index \in Indexes /\ h.gen \in Nat
      /\ hslot[h.index].ptr = Null /\ hslot[h.index].gen = h.gen /\ hslot[h.index].kind = h.kind
      /\ \A k \in Issued : k.index = h.index => k.gen < h.gen
      /\ Count < MaxObjects
  BY <1>1, ThreadFacts, HandleFacts DEF HandleInv, ClaimInv, NumberInv, Claiming, Registering
<1>3. \A u \in HTThreads \ {t} : ~Registering(u) /\ ~Claiming(u) /\ ~Removing(u)
  BY <1>2, Alone DEF Registering
<1>4. h \notin Issued
  BY <1>2
<1>5. /\ Count \in Nat /\ MaxObjects \in Nat /\ Issued \subseteq Handles /\ n \in 1 .. MaxObjects
      /\ \A k \in Issued : issued[k] \in 1 .. MaxObjects /\ issued[k] <= Count
  BY <1>2, CountFacts DEF HandleInv, NumberInv
<1> HIDE DEF h, n, s
<1>6. h = hpc[t].h /\ n = Count + 1
  BY DEF h, n
<1>7. /\ Issued' = Issued \cup {h} /\ Count' = n /\ IsFiniteSet(Issued')
      /\ issued'[h] = n /\ \A k \in Issued : issued'[k] = issued[k]
  <2>1. Issued' = Issued \cup {h}
    BY <1>1 DEF Issued
  <2>2. IsFiniteSet(Issued \cup {h}) /\ Cardinality(Issued \cup {h}) = Cardinality(Issued) + 1
    BY <1>2, <1>4, FS_AddElement DEF TypesInv
  <2>3. Count' = Cardinality(Issued') /\ Count = Cardinality(Issued)
    BY DEF Count, Issued
  <2> QED
    BY <1>1, <1>4, <1>6, <2>1, <2>2, <2>3
<1>8. \A k \in Issued : k.index \in Indexes /\ k.gen \in Nat
  BY <1>5, HandleFacts
<1>9. /\ hpc'[t] = s
      /\ \A u \in HTThreads \ {t} :
           /\ hpc'[u] = hpc[u]
           /\ ~Claiming(u)' /\ ~Registering(u)' /\ ~Removing(u)'
           /\ Looking(u)' <=> Looking(u)
  BY <1>1, <1>3, OthersRest
<1>10. \A u \in HTThreads : ~Claiming(u)' /\ ~Registering(u)' /\ ~Removing(u)'
  BY <1>1, <1>9 DEF Claiming, Registering, Removing
<1>11. ~Looking(t)' /\ hpc'[t].at # "found"
  BY <1>1, <1>9 DEF Looking
<1>12. /\ hslot'[h.index].ptr = n /\ hslot'[h.index].gen = h.gen /\ hslot'[h.index].kind = h.kind
       /\ \A i \in Indexes : hslot'[i].gen = hslot[i].gen /\ (i # h.index => hslot'[i] = hslot[i])
  BY <1>1, <1>2, SlotFacts DEF TypesInv, HTTypeOK, Indexes
<1>13. TypesInv'
  <2>1. hslot' \in Tables
    BY <1>1, <1>2, <1>5, StoreFacts
  <2>2. hnext' \in 0 .. HandleSlots - 1
    BY <1>1, <1>2, IndexFacts DEF Indexes
  <2>3. hpc' \in [HTThreads -> ThreadStates]
    BY <1>1, <1>2 DEF TypesInv
  <2>4. Issued' \subseteq Handles
    BY <1>2, <1>5, <1>7
  <2>5. issued' \in [Issued' -> 1 .. MaxObjects]
    BY <1>1, <1>4, <1>5, <1>7
  <2>6. Count' <= MaxObjects
    BY <1>2, <1>5, <1>6, <1>7
  <2> QED
    BY <1>1, <1>7, <2>1, <2>2, <2>3, <2>4, <2>5, <2>6 DEF TypesInv, HTTypeOK, Issued, Tables
<1>14. LockInv'
  BY <1>10 DEF LockInv
<1>15. NumberInv'
  <2>1. \A k \in Issued' : issued'[k] <= n
    BY <1>5, <1>6, <1>7
  <2>2. \A k, l \in Issued' : issued'[k] = issued'[l] => k = l
    BY <1>5, <1>6, <1>7 DEF HandleInv, NumberInv
  <2> QED
    BY <1>7, <1>10, <2>1, <2>2 DEF NumberInv
<1>16. GenInv'
  <2>1. \A i \in Indexes : hslot'[i].gen <= n
    BY <1>2, <1>5, <1>6, <1>12, SlotFacts DEF HandleInv, GenInv
  <2>2. \A k \in Issued' : k.gen <= hslot'[k.index].gen
    BY <1>2, <1>7, <1>8, <1>12 DEF HandleInv, GenInv
  <2>3. \A k, l \in Issued' : k.index = l.index /\ k.gen = l.gen => k = l
    BY <1>2, <1>7, <1>8 DEF HandleInv, GenInv
  <2> QED
    BY <1>7, <2>1, <2>2, <2>3 DEF GenInv
<1>17. FilledInv'
  <2> SUFFICES ASSUME NEW i \in Indexes, hslot'[i].ptr # Null
               PROVE  \E k \in Issued' : k.index = i /\ issued'[k] = hslot'[i].ptr /\ Matches(hslot'[i], k)
    BY DEF FilledInv, Matches
  <2>1. CASE i = h.index
    BY <1>7, <1>12, <2>1 DEF Matches
  <2>2. CASE i # h.index
    BY <1>7, <1>12, <2>2 DEF HandleInv, FilledInv
  <2> QED
    BY <2>1, <2>2
<1>18. ClaimInv'
  BY <1>10 DEF ClaimInv
<1>19. RemoveInv'
  BY <1>10 DEF RemoveInv, Removing
<1>20. LookInv'
  <2> SUFFICES ASSUME NEW u \in HTThreads \ {t}
               PROVE  /\ Looking(u) \/ hpc[u].at = "found" => hpc[u].h \in Issued'
                      /\ Looking(u) /\ hslot'[hpc[u].h.index].gen = hpc[u].h.gen =>
                           hpc[u].ptr = issued'[hpc[u].h]
                      /\ hpc[u].at = "found" => hpc[u].ptr \in {Null, issued'[hpc[u].h]}
    BY <1>9, <1>11 DEF LookInv
  <2>1. /\ Looking(u) \/ hpc[u].at = "found" => hpc[u].h \in Issued
        /\ Looking(u) /\ hslot[hpc[u].h.index].gen = hpc[u].h.gen => hpc[u].ptr = issued[hpc[u].h]
        /\ hpc[u].at = "found" => hpc[u].ptr \in {Null, issued[hpc[u].h]}
    BY DEF HandleInv, LookInv
  <2> QED
    BY <1>7, <1>8, <1>12, <2>1
<1> QED
  BY <1>13, <1>14, <1>15, <1>16, <1>17, <1>18, <1>19, <1>20 DEF HandleInv

LEMMA NextHandle == HandleParameters /\ HandleInv /\ [HTNext]_htVars => HandleInv'
<1> SUFFICES ASSUME HandleParameters, HandleInv, [HTNext]_htVars
             PROVE  HandleInv'
  OBVIOUS
<1>1. ASSUME NEW t \in HTThreads, \E k \in HandleKinds : RegisterBegin(t, k)
      PROVE  HandleInv'
  BY <1>1, BeginStep
<1>2. ASSUME NEW t \in HTThreads, NEW h \in DOMAIN issued, UnregisterBegin(t, h) \/ LookupPtr(t, h)
      PROVE  HandleInv'
  BY <1>2, BeginStep, LookupStep DEF Issued
<1>3. ASSUME NEW t \in HTThreads, RegisterScan(t) \/ RegisterKind(t) \/ RegisterPtr(t)
      PROVE  HandleInv'
  BY <1>3, ScanStep, KindStep, PublishStep
<1>4. ASSUME NEW t \in HTThreads, UnregisterPtr(t) \/ UnregisterKind(t)
      PROVE  HandleInv'
  BY <1>4, RemoveStep
<1>5. ASSUME NEW t \in HTThreads, LookupKind(t) \/ LookupGen(t) \/ LookupReturn(t)
      PROVE  HandleInv'
  BY <1>5, LookupStep
<1>6. CASE UNCHANGED htVars
  BY <1>6
  DEF htVars, HandleInv, TypesInv, HTTypeOK, LockInv, NumberInv, GenInv, FilledInv, ClaimInv,
      RemoveInv, LookInv, Issued, Count, Claiming, Registering, Removing, Looking, Matches
<1> QED
  BY <1>1, <1>2, <1>3, <1>4, <1>5, <1>6 DEF HTNext

LEMMA HandleImpliesSound == HandleInv => HandlesSound
BY DEF HandleInv, TypesInv, NumberInv, FilledInv, LookInv, HTTypeOK, Indexes, Issued,
       HandlesSound, LookupExact, SlotsAgree

\* handles.hpp: with any number of threads and of slots, a lookup that races
\* with removals and registrations returns the object its handle was issued for
\* or nothing, no handle is issued twice and every object in the table can be
\* found - as long as no slot's generation has started over.
THEOREM HandlesSafe == HandleParameters => (HTSpec => []HandlesSound)
<1> SUFFICES ASSUME HandleParameters
             PROVE  HTSpec => []HandlesSound
  OBVIOUS
<1>1. HTInit => HandleInv
  BY InitHandle
<1>2. HandleInv /\ [HTNext]_htVars => HandleInv'
  BY NextHandle
<1>3. HandleInv => HandlesSound
  BY HandleImpliesSound
<1> QED
  BY <1>1, <1>2, <1>3, PTL DEF HTSpec

-----------------------------------------------------------------------------
(* Requests *)

Waiting == wait.at \in {"load", "err", "status", "poll"}
Inner   == rkind \in {"session", "conv"}

Saw(s) == \E e \in ends : e.state = s

TypeInv ==
  /\ RQTypeOK
  /\ rkind \in {"none", "session", "conv", "agent", "cursor"}
  /\ rstep \in {"none", "idle"} \cup Ended
  /\ wait = [at |-> wait.at, code |-> wait.code, status |-> wait.status]

\* Sessions and conversations wait inside the object, the others poll, and
\* nobody waits for a request that was not made.
LoopInv ==
  /\ wait.at \in {"load", "err", "status"} => Inner
  /\ wait.at = "poll" => rkind \in {"agent", "cursor"}
  /\ rkind = "none" => wait.at = "idle" /\ rstate = "idle" /\ rstep = "none"

\* What the object shows was recorded, and the error is only read after a
\* failure was seen.
SeenInv ==
  /\ Waiting => Visible \subseteq ends
  /\ wait.at = "err" => Saw("failed")

\* The verdict itself.
VerdictInv ==
  /\ wait.at \in {"status", "done"} /\ Inner =>
       /\ wait.code = "ok" => Saw("completed")
       /\ wait.code = "E_CANCELED" => Saw("canceled") \/ Saw("failed")
       /\ wait.code \notin {"ok", "E_CANCELED", "E_TIMEOUT"} => Saw("failed")
  /\ wait.at = "done" /\ rkind \in {"agent", "cursor"} =>
       wait.code = "ok" <=> wait.status \in Ended

RequestInv == TypeInv /\ LoopInv /\ SeenInv /\ VerdictInv

USE DEF Ended, Waiting, Inner

LEMMA InitRequest == RQInit => RequestInv
BY RequestAssumption
DEF RQInit, RequestInv, TypeInv, LoopInv, SeenInv, VerdictInv, RQTypeOK, NotWaiting

\* A step of the owner or of the worker leaves the waiter where it is and adds
\* what it made visible.
LEMMA OwnerRequest ==
  ASSUME RequestInv, TypeInv', Quiet, Record, rkind # "none"
  PROVE  RequestInv'
<1>1. UNCHANGED <<rkind, late, wait>> /\ wait.at \in {"idle", "load", "err", "status", "poll", "done"}
  BY DEF Quiet, RequestInv, TypeInv, RQTypeOK
<1>2. ends \subseteq ends' /\ (Waiting => Visible' \subseteq ends')
  BY <1>1 DEF Record
<1>3. \A s : Saw(s) => Saw(s)'
  BY <1>2 DEF Saw
<1> QED
  BY <1>1, <1>2, <1>3 DEF RequestInv, LoopInv, SeenInv, VerdictInv

LEMMA OwnerTypes ==
  ASSUME RequestInv,
         RQFeed \/ RQDecode \/ Cancel \/ EndError \/ EndState \/ ResetBegin \/ ResetEnd
  PROVE  TypeInv' /\ rkind # "none" /\ Quiet /\ Record
<1> USE RequestAssumption DEF RequestInv, TypeInv, LoopInv, RQTypeOK, Owner, Quiet
<1>1. CASE RQFeed
  BY <1>1 DEF RQFeed
<1>2. CASE RQDecode
  BY <1>2 DEF RQDecode
<1>3. CASE Cancel
  BY <1>3 DEF Cancel
<1>4. CASE EndError
  BY <1>4 DEF EndError
<1>5. CASE EndState
  BY <1>5 DEF EndState
<1>6. CASE ResetBegin
  BY <1>6 DEF ResetBegin
<1>7. CASE ResetEnd
  BY <1>7 DEF ResetEnd
<1> QED
  BY <1>1, <1>2, <1>3, <1>4, <1>5, <1>6, <1>7

LEMMA MakeRequest ==
  ASSUME RequestInv, NEW k \in RequestKinds, Make(k)
  PROVE  RequestInv'
<1>1. /\ rkind = "none" /\ wait.at = "idle" /\ rkind' \in {"session", "conv", "agent", "cursor"}
      /\ UNCHANGED <<rerr, rcancel, rstep, rruns, late, wait, ends>>
      /\ rstate' \in {"completed", rstate}
  BY RequestAssumption DEF Make, RequestInv, LoopInv
<1> QED
  BY <1>1 DEF RequestInv, TypeInv, LoopInv, SeenInv, VerdictInv, RQTypeOK

\* A step that leaves the object alone, and the waiter's set of ends.
LEMMA WaiterRequest ==
  ASSUME RequestInv, Rest, UNCHANGED ends,
         NEW a \in {"load", "err", "status", "poll", "done"}, NEW c, NEW st,
         wait' = [at |-> a, code |-> c, status |-> st],
         a \in {"load", "err", "status"} => Inner,
         a = "poll" => rkind \in {"agent", "cursor"},
         rkind # "none",
         a # "done" => Waiting,
         a = "err" => Saw("failed"),
         a \in {"status", "done"} /\ Inner =>
           /\ c = "ok" => Saw("completed")
           /\ c = "E_CANCELED" => Saw("canceled") \/ Saw("failed")
           /\ c \notin {"ok", "E_CANCELED", "E_TIMEOUT"} => Saw("failed"),
         a = "done" /\ rkind \in {"agent", "cursor"} => (c = "ok" <=> st \in Ended)
  PROVE  RequestInv'
<1>1. wait'.at = a /\ wait'.code = c /\ wait'.status = st
  OBVIOUS
<1>2. UNCHANGED <<rkind, rstate, rerr, rcancel, rstep, rruns>>
  BY DEF Rest
<1>3. TypeInv'
  BY <1>1, <1>2 DEF RequestInv, TypeInv, RQTypeOK
<1>4. LoopInv'
  BY <1>1, <1>2 DEF LoopInv
<1>5. SeenInv'
  BY <1>1, <1>2 DEF RequestInv, SeenInv, Saw, Visible
<1>6. VerdictInv'
  BY <1>1, <1>2 DEF VerdictInv, Saw
<1> QED
  BY <1>3, <1>4, <1>5, <1>6 DEF RequestInv

\* the end that shows while a wait is under way was recorded
LEMMA ShownIsSeen ==
  ASSUME RequestInv, Waiting, rstate \in Ended
  PROVE  Saw(rstate)
<1>1. [state |-> rstate, err |-> rerr] \in ends
  BY DEF RequestInv, SeenInv, Visible
<1> QED
  BY <1>1 DEF Saw

LEMMA LoadRequest ==
  ASSUME RequestInv, WaitLoad
  PROVE  RequestInv'
<1>1. /\ wait.at = "load" /\ Rest /\ UNCHANGED ends /\ Inner /\ Waiting
      /\ wait = [at |-> "load", code |-> wait.code, status |-> wait.status]
      /\ rkind # "none"
  BY DEF WaitLoad, RequestInv, TypeInv, LoopInv
<1> DEFINE W(a, c) == [at |-> a, code |-> c, status |-> wait.status]
<1>2. /\ [wait EXCEPT !.at = "err"] = W("err", wait.code)
      /\ wait = W("load", wait.code)
  BY <1>1
<1>3. CASE rstate = "completed"
  <2>1. wait' = W("status", "ok") /\ Saw("completed")
    BY <1>1, <1>2, <1>3, ShownIsSeen DEF WaitLoad, Returns
  <2> QED
    BY <1>1, <2>1, WaiterRequest
<1>4. CASE rstate = "canceled"
  <2>1. wait' = W("status", "E_CANCELED") /\ Saw("canceled")
    BY <1>1, <1>2, <1>4, ShownIsSeen DEF WaitLoad, Returns
  <2> QED
    BY <1>1, <2>1, WaiterRequest
<1>5. CASE rstate = "failed"
  <2>1. wait' = W("err", wait.code) /\ Saw("failed")
    BY <1>1, <1>2, <1>5, ShownIsSeen DEF WaitLoad
  <2> QED
    BY <1>1, <2>1, WaiterRequest
<1>6. CASE rstate \notin Ended
  <2>1. wait' = W("status", "E_TIMEOUT") \/ wait' = W("load", wait.code)
    BY <1>1, <1>2, <1>6 DEF WaitLoad, Returns
  <2> QED
    BY <1>1, <2>1, WaiterRequest
<1> QED
  BY <1>3, <1>4, <1>5, <1>6

LEMMA ErrorRequest ==
  ASSUME RequestInv, WaitErr
  PROVE  RequestInv'
<1>1. /\ wait.at = "err" /\ Rest /\ UNCHANGED ends /\ Inner /\ Waiting /\ Saw("failed")
      /\ rkind # "none"
  BY DEF WaitErr, RequestInv, TypeInv, LoopInv, SeenInv
<1> DEFINE c == IF rerr # "ok" THEN rerr ELSE "E_BACKEND"
<1>2. c # "ok"
  OBVIOUS
<1>3. wait' = [at |-> "status", code |-> c, status |-> wait.status]
  BY DEF WaitErr, Returns
<1> HIDE DEF c
<1> QED
  BY <1>1, <1>2, <1>3, WaiterRequest

LEMMA StatusRequest ==
  ASSUME RequestInv, WaitStatus
  PROVE  RequestInv'
<1> DEFINE st == FromSession(rstate)
<1>1. /\ wait.at = "status" /\ Rest /\ UNCHANGED ends /\ Inner
      /\ wait = [at |-> "status", code |-> wait.code, status |-> wait.status]
      /\ rkind # "none" /\ wait' = [wait EXCEPT !.at = "done", !.status = st]
      /\ wait.code = "ok" => Saw("completed")
      /\ wait.code = "E_CANCELED" => Saw("canceled") \/ Saw("failed")
      /\ wait.code \notin {"ok", "E_CANCELED", "E_TIMEOUT"} => Saw("failed")
  BY DEF WaitStatus, RequestInv, TypeInv, LoopInv, VerdictInv
<1> HIDE DEF st
<1>2. wait' = [at |-> "done", code |-> wait.code, status |-> st]
  BY <1>1
<1> QED
  BY <1>1, <1>2, WaiterRequest

LEMMA PollRequest ==
  ASSUME RequestInv, Poll
  PROVE  RequestInv'
<1> DEFINE st == FromSession(rstate)
<1>1. /\ wait.at = "poll" /\ Rest /\ UNCHANGED ends /\ rkind \in {"agent", "cursor"} /\ Waiting
      /\ wait = [at |-> "poll", code |-> wait.code, status |-> wait.status]
      /\ \/ st \in Ended /\ wait' = [at |-> "done", code |-> "ok", status |-> st]
         \/ st \notin Ended /\ wait' = [at |-> "done", code |-> "E_TIMEOUT", status |-> st]
         \/ wait' = wait
  BY DEF Poll, RequestInv, TypeInv, LoopInv
<1> HIDE DEF st
<1> QED
  BY <1>1, WaiterRequest

\* a wait begins with what the object shows
LEMMA BeginRequest ==
  ASSUME RequestInv, WaitBegin
  PROVE  RequestInv'
<1>1. /\ Rest /\ ends' = Visible /\ rkind # "none"
      /\ wait' = [at |-> IF Inner THEN "load" ELSE "poll", code |-> "none", status |-> "none"]
  BY DEF WaitBegin, NotWaiting
<1>2. UNCHANGED <<rkind, rstate, rerr, rcancel, rstep, rruns>> /\ Visible' = Visible
  BY <1>1 DEF Rest, Visible
<1>3. /\ wait'.at \in {"load", "poll"} /\ (wait'.at = "load" <=> Inner)
      /\ wait' = [at |-> wait'.at, code |-> wait'.code, status |-> wait'.status]
  BY <1>1
<1> QED
  BY <1>1, <1>2, <1>3 DEF RequestInv, TypeInv, LoopInv, SeenInv, VerdictInv, RQTypeOK

LEMMA NextRequest == RequestInv /\ [RQNext]_rqVars => RequestInv'
<1> SUFFICES ASSUME RequestInv, [RQNext]_rqVars
             PROVE  RequestInv'
  OBVIOUS
<1>1. CASE \E k \in RequestKinds : Make(k)
  BY <1>1, MakeRequest
<1>2. CASE RQFeed \/ RQDecode \/ Cancel \/ EndError \/ EndState \/ ResetBegin \/ ResetEnd
  BY <1>2, OwnerTypes, OwnerRequest
<1>3. CASE Deadline \/ UNCHANGED rqVars
  BY <1>3
  DEF Deadline, rqVars, RequestInv, TypeInv, LoopInv, SeenInv, VerdictInv, RQTypeOK, Saw, Visible
<1>4. CASE WaitBegin
  BY <1>4, BeginRequest
<1>5. CASE Waiter
  BY <1>5, LoadRequest, ErrorRequest, StatusRequest, PollRequest DEF Waiter
<1> QED
  BY <1>1, <1>2, <1>3, <1>4, <1>5 DEF RQNext

LEMMA RequestImpliesVerdict == RequestInv => WaitVerdict
BY DEF RequestInv, TypeInv, VerdictInv, Saw, WaitVerdict

\* session_wait, conv_wait and astral_request_wait: whatever resets, cancels and
\* further runs go on beside the wait, between its load of the state and its load
\* of the error too, OK, canceled and failed name an end that was visible while it
\* waited.
THEOREM VerdictTrue == RQSpec => []WaitVerdict
<1>1. RequestInv => WaitVerdict
  BY RequestImpliesVerdict
<1> QED
  BY <1>1, InitRequest, NextRequest, PTL DEF RQSpec


-----------------------------------------------------------------------------
(* AgentSlots *)

ConvStates == Over \cup {"none", "decoding"}
CallPlaces == {"idle", "create", "release", "again", "reset", "feed", "decode"}

\* One thread drives the agents of the model.  With two, the victim of a reclaim
\* may begin an enqueue between the check of its chat and the release of its slot.
OneControlThread == \A a, b \in Agents : ThreadOf[a] = ThreadOf[b]

AgentType ==
  /\ alist \in Seq(Agents)
  /\ \A i, j \in DOMAIN alist : alist[i] = alist[j] => i = j
  /\ cursor \in Range(alist) \cup {NoAgent}
  /\ aconv \in [Agents -> [slot : AgentSlotIds \cup {0}, state : ConvStates, ring : Nat, made : Nat]]
  /\ achat \in [Agents -> [res : [has : BOOLEAN, state : ConvStates, tokens : Nat],
                           captured : Nat, truncated : BOOLEAN]]
  /\ acall \in [Threads -> [at : CallPlaces, agent : Agents \cup {NoAgent}, victim : Agents \cup {NoAgent}]]
  /\ chats \in Nat
  /\ ghost \in [Agents -> [state : ConvStates, made : Nat, read : Nat, base : Nat]]

\* An agent has a slot as long as it has a conversation, its history is that
\* of the conversation or of the released result, and what was captured is
\* what was read since the enqueue, up to the capacity.
ChatInv(a) ==
  /\ aconv[a].slot = 0 <=> aconv[a].state = "none"
  /\ a \notin Range(alist) => aconv[a].state = "none"
  /\ aconv[a].state = "none" => aconv[a].ring = 0
  /\ ResultOf(a) = [state |-> ghost[a].state, made |-> ghost[a].made]
  /\ aconv[a].ring + ghost[a].read = ghost[a].made
  /\ ghost[a].base <= ghost[a].read
  /\ a \in ToolUsers =>
       /\ achat[a].captured <= CaptureTokens
       /\ \/ achat[a].captured + ghost[a].base = ghost[a].read
          \/ achat[a].truncated /\ achat[a].captured + ghost[a].base < ghost[a].read

\* The agent of an enqueue is in the list, its old result forgotten; it has no
\* conversation before one is created, and has one from then on.
EnqueueInv(t) ==
  LET a == acall[t].agent IN
  acall[t].at # "idle" =>
    /\ a \in Range(alist) /\ achat[a] = NoChat
    /\ acall[t].at \in {"create", "release", "again"} => aconv[a].state = "none" /\ ghost[a] = Nothing
    /\ acall[t].at \in {"reset", "feed", "decode"} => aconv[a].slot # 0 /\ aconv[a].state # "decoding"
    /\ acall[t].at = "release" => acall[t].victim \in Agents \ {a}

SlotsApart == \A a, b \in Agents : a # b /\ aconv[a].slot # 0 => aconv[a].slot # aconv[b].slot

AgentInv ==
  /\ AgentType
  /\ \A a \in Agents : ChatInv(a)
  /\ \A t \in Threads : EnqueueInv(t)
  /\ SlotsApart


\* The states in which a chat is over are states of a conversation.
LEMMA OverStates == Over \subseteq ConvStates /\ "none" \notin Over /\ "decoding" \notin Over
BY DEF Over, ConvStates

\* An agent of the list is where Place says.
LEMMA PlaceOf ==
  ASSUME AgentType, NEW a \in Range(alist)
  PROVE  Place(a) \in 1 .. Len(alist) /\ alist[Place(a)] = a
<1>1. \E i \in DOMAIN alist : alist[i] = a
  BY DEF Range
<1>2. Place(a) \in DOMAIN alist /\ alist[Place(a)] = a
  BY <1>1 DEF Place
<1>3. DOMAIN alist = 1 .. Len(alist)
  BY DEF AgentType
<1> QED
  BY <1>2, <1>3

\* The list holds agents.
LEMMA RangeOfList ==
  ASSUME AgentType
  PROVE  /\ Range(alist) \subseteq Agents
         /\ \A i \in 1 .. Len(alist) : alist[i] \in Range(alist)
<1>1. DOMAIN alist = 1 .. Len(alist) /\ \A i \in 1 .. Len(alist) : alist[i] \in Agents
  BY DEF AgentType
<1> QED
  BY <1>1 DEF Range

\* Removing one element of a list without repetitions removes that element only.
LEMMA RemovedFromList ==
  ASSUME NEW S, NEW q \in Seq(S), NEW p \in 1 .. Len(q),
         \A i, j \in DOMAIN q : q[i] = q[j] => i = j
  PROVE  /\ RemoveAt(q, p) \in Seq(S)
         /\ \A i, j \in DOMAIN RemoveAt(q, p) : RemoveAt(q, p)[i] = RemoveAt(q, p)[j] => i = j
         /\ Range(RemoveAt(q, p)) = Range(q) \ {q[p]}
<1> DEFINE r == RemoveAt(q, p)
           x == SubSeq(q, 1, p - 1)
           y == SubSeq(q, p + 1, Len(q))
<1>a. x \in Seq(S) /\ Len(x) = p - 1 /\ \A i \in 1 .. p - 1 : x[i] = q[i]
  OBVIOUS
<1>b. /\ y \in Seq(S) /\ Len(y) = Len(q) - p
      /\ \A i \in 1 .. Len(q) - p : y[i] = q[p + i]
  OBVIOUS
<1>c. r = x \o y
  BY DEF RemoveAt
<1>1. /\ r \in Seq(S) /\ Len(r) = Len(q) - 1
      /\ \A i \in 1 .. Len(r) : r[i] = IF i < p THEN q[i] ELSE q[i + 1]
  <2> HIDE DEF r, x, y
  <2>1. r \in Seq(S) /\ Len(r) = Len(q) - 1
    BY <1>a, <1>b, <1>c
  <2>2. ASSUME NEW i \in 1 .. Len(r)
        PROVE  r[i] = IF i < p THEN q[i] ELSE q[i + 1]
    <3>1. CASE i < p
      BY <1>a, <1>b, <1>c, <2>1, <3>1
    <3>2. CASE i >= p
      <4>1. i - (p - 1) \in 1 .. Len(q) - p /\ r[i] = y[i - (p - 1)] /\ p + (i - (p - 1)) = i + 1
        BY <1>a, <1>b, <1>c, <2>1, <3>2
      <4> QED
        BY <1>b, <3>2, <4>1
    <3> QED
      BY <3>1, <3>2
  <2> QED
    BY <2>1, <2>2
<1>2. ASSUME NEW i \in 1 .. Len(q), i # p
      PROVE  \E j \in 1 .. Len(r) : r[j] = q[i]
  <2>1. CASE i < p
    BY <1>1, <2>1
  <2>2. CASE i > p
    <3>1. i - 1 \in 1 .. Len(r) /\ ~(i - 1 < p) /\ (i - 1) + 1 = i
      BY <1>1, <2>2
    <3> QED
      BY <1>1, <3>1
  <2> QED
    BY <1>2, <2>1, <2>2
<1>3. ASSUME NEW i \in 1 .. Len(r)
      PROVE  r[i] \in Range(q) \ {q[p]}
  <2> DEFINE k == IF i < p THEN i ELSE i + 1
  <2>1. k \in 1 .. Len(q) /\ k # p /\ r[i] = q[k]
    BY <1>1, <1>3
  <2> HIDE DEF k, r
  <2>2. DOMAIN q = 1 .. Len(q)
    OBVIOUS
  <2> QED
    BY <2>1, <2>2 DEF Range
<1>4. Range(r) = Range(q) \ {q[p]}
  <2> HIDE DEF r
  <2>1. DOMAIN r = 1 .. Len(r) /\ DOMAIN q = 1 .. Len(q)
    BY <1>1
  <2>2. Range(r) \subseteq Range(q) \ {q[p]}
    BY <1>3, <2>1 DEF Range
  <2>3. ASSUME NEW e \in Range(q) \ {q[p]}
        PROVE  e \in Range(r)
    <3>1. PICK i \in 1 .. Len(q) : e = q[i]
      BY <2>1 DEF Range
    <3>2. PICK j \in 1 .. Len(r) : r[j] = q[i]
      BY <1>2, <3>1
    <3> QED
      BY <2>1, <3>1, <3>2 DEF Range
  <2> QED
    BY <2>2, <2>3
<1>5. \A i, j \in DOMAIN r : r[i] = r[j] => i = j
  <2> HIDE DEF r
  <2> SUFFICES ASSUME NEW i \in 1 .. Len(r), NEW j \in 1 .. Len(r), r[i] = r[j]
               PROVE  i = j
    BY <1>1
  <2>1. \A k, l \in 1 .. Len(q) : q[k] = q[l] => k = l
    OBVIOUS
  <2> QED
    BY <1>1, <2>1
<1> QED
  BY <1>1, <1>4, <1>5

\* The walk of reclaim_completed_agent_slot stays in the list.
LEMMA WalkInList ==
  ASSUME AgentType
  PROVE  \A i \in 1 .. Len(Walk) : Walk[i] \in Range(alist)
<1> DEFINE p == IF cursor = NoAgent THEN 1 ELSE Place(cursor)
<1>1. Walk = SubSeq(alist, p, Len(alist)) \o SubSeq(alist, 1, p - 1)
  BY DEF Walk
<1>2. p \in Nat \ {0} /\ p <= Len(alist) + 1
  <2>1. Len(alist) \in Nat
    BY DEF AgentType
  <2>2. CASE cursor = NoAgent
    BY <2>1, <2>2
  <2>3. CASE cursor # NoAgent
    <3>1. cursor \in Range(alist)
      BY <2>3 DEF AgentType
    <3> QED
      BY <2>1, <2>3, <3>1, PlaceOf
  <2> QED
    BY <2>2, <2>3
<1> HIDE DEF p
<1>l. Len(alist) \in Nat /\ \A i \in 1 .. Len(alist) : alist[i] \in Agents
  BY DEF AgentType
<1>3. \A i \in 1 .. Len(Walk) : \E j \in 1 .. Len(alist) : Walk[i] = alist[j]
  <2> DEFINE x == SubSeq(alist, p, Len(alist))
             y == SubSeq(alist, 1, p - 1)
  <2>1. /\ x \in Seq(Agents) /\ Len(x) = Len(alist) + 1 - p
        /\ \A i \in 1 .. Len(x) : x[i] = alist[p + i - 1] /\ p + i - 1 \in 1 .. Len(alist)
    BY <1>2, <1>l DEF AgentType
  <2>2. /\ y \in Seq(Agents) /\ Len(y) = p - 1
        /\ \A i \in 1 .. Len(y) : y[i] = alist[i] /\ i \in 1 .. Len(alist)
    BY <1>2, <1>l DEF AgentType
  <2> HIDE DEF x, y
  <2>3. Walk = x \o y
    BY <1>1 DEF x, y
  <2>4. ASSUME NEW i \in 1 .. Len(Walk)
        PROVE  \E j \in 1 .. Len(alist) : Walk[i] = alist[j]
    <3>1. CASE i <= Len(x)
      <4>1. Walk[i] = x[i] /\ i \in 1 .. Len(x)
        BY <2>1, <2>2, <2>3, <3>1
      <4> QED
        BY <2>1, <4>1
    <3>2. CASE i > Len(x)
      <4>1. Walk[i] = y[i - Len(x)] /\ i - Len(x) \in 1 .. Len(y)
        BY <2>1, <2>2, <2>3, <3>2
      <4> QED
        BY <2>2, <4>1
    <3> QED
      BY <2>1, <3>1, <3>2
  <2> QED
    BY <2>4
<1> QED
  BY <1>3, RangeOfList

\* The control thread of an agent is the control thread.
LEMMA OneThreadOnly ==
  ASSUME OneControlThread
  PROVE  /\ \A a \in Agents : ThreadOf[a] \in Threads
         /\ \A t, u \in Threads : t = u
BY DEF OneControlThread, Threads

-----------------------------------------------------------------------------
\* No agent exists at first.
LEMMA AgentInvInit == ASInit => AgentInv
<1> SUFFICES ASSUME ASInit PROVE AgentInv
  OBVIOUS
<1>1. AgentType
  BY OverStates, AgentAssumption
     DEF ASInit, AgentType, NoConv, NoChat, NoResult, NoCall, Nothing, ConvStates, Over, CallPlaces, Range
<1>2. ASSUME NEW a \in Agents PROVE ChatInv(a)
  BY AgentAssumption DEF ASInit, ChatInv, NoConv, NoChat, NoResult, Nothing, ResultOf
<1>3. \A t \in Threads : EnqueueInv(t)
  BY DEF ASInit, EnqueueInv, NoCall
<1>4. SlotsApart
  BY DEF ASInit, SlotsApart, NoConv
<1> QED
  BY <1>1, <1>2, <1>3, <1>4 DEF AgentInv

\* agent_create: a new agent has no chat.
LEMMA CreateStep ==
  ASSUME AgentInv, OneControlThread, NEW a \in Agents, ACreate(a)
  PROVE  AgentInv'
<1> USE DEF ACreate
<1>1. /\ alist' \in Seq(Agents) /\ Range(alist') = Range(alist) \cup {a}
      /\ \A i, j \in DOMAIN alist' : alist'[i] = alist'[j] => i = j
  <2>1. /\ alist' \in Seq(Agents) /\ Len(alist') = Len(alist) + 1 /\ Len(alist) \in Nat
        /\ DOMAIN alist' = 1 .. Len(alist) + 1 /\ DOMAIN alist = 1 .. Len(alist)
        /\ \A i \in 1 .. Len(alist) + 1 : alist'[i] = IF i = 1 THEN a ELSE alist[i - 1]
    BY DEF AgentInv, AgentType
  <2>2. \A i \in 1 .. Len(alist) : alist[i] # a
    BY <2>1 DEF Range
  <2>3. \A i, j \in 1 .. Len(alist) : alist[i] = alist[j] => i = j
    BY <2>1 DEF AgentInv, AgentType
  <2>4. \A i, j \in DOMAIN alist' : alist'[i] = alist'[j] => i = j
    <3> SUFFICES ASSUME NEW i \in 1 .. Len(alist) + 1, NEW j \in 1 .. Len(alist) + 1, alist'[i] = alist'[j]
                 PROVE  i = j
      BY <2>1
    <3>1. CASE i = 1 \/ j = 1
      BY <2>1, <2>2, <3>1
    <3>2. CASE i # 1 /\ j # 1
      <4>1. i - 1 \in 1 .. Len(alist) /\ j - 1 \in 1 .. Len(alist)
        BY <2>1, <3>2
      <4>2. alist[i - 1] = alist[j - 1]
        BY <2>1, <3>2
      <4>3. i - 1 = j - 1
        BY <2>3, <4>1, <4>2
      <4> QED
        BY <4>3
    <3> QED
      BY <3>1, <3>2
  <2>5. a \in Range(alist') /\ Range(alist') \subseteq Range(alist) \cup {a}
    BY <2>1 DEF Range
  <2>6. ASSUME NEW i \in 1 .. Len(alist) PROVE alist[i] \in Range(alist')
    <3>1. i + 1 \in DOMAIN alist' /\ alist'[i + 1] = alist[i]
      BY <2>1
    <3> QED
      BY <3>1 DEF Range
  <2>7. Range(alist) \subseteq Range(alist')
    BY <2>1, <2>6 DEF Range
  <2> QED
    BY <2>1, <2>4, <2>5, <2>7
<1>2. AgentType'
  BY <1>1 DEF AgentInv, AgentType, NoChat, NoResult, Nothing, ConvStates, Over
<1>3. ASSUME NEW b \in Agents PROVE ChatInv(b)'
  <2>1. CASE b = a
    <3>1. aconv[a].state = "none" /\ aconv[a].slot = 0 /\ aconv[a].ring = 0 /\ aconv' = aconv
      BY DEF AgentInv, ChatInv
    <3>2. achat'[a] = NoChat /\ ghost'[a] = Nothing
      BY DEF AgentInv, AgentType
    <3> QED
      BY <1>1, <2>1, <3>1, <3>2, AgentAssumption DEF ChatInv, ResultOf, NoChat, NoResult, Nothing
  <2>2. CASE b # a
    <3>1. aconv'[b] = aconv[b] /\ achat'[b] = achat[b] /\ ghost'[b] = ghost[b]
      BY <2>2 DEF AgentInv, AgentType
    <3> QED
      BY <1>1, <2>2, <3>1 DEF AgentInv, ChatInv, ResultOf
  <2> QED
    BY <2>1, <2>2
<1>4. ASSUME NEW t \in Threads PROVE EnqueueInv(t)'
  <2>1. t = ThreadOf[a]
    BY OneThreadOnly
  <2> QED
    BY <2>1 DEF EnqueueInv
<1>5. SlotsApart'
  BY DEF AgentInv, SlotsApart
<1> QED
  BY <1>2, <1>3, <1>4, <1>5 DEF AgentInv

\* agent_destroy: the cursor stays in the list.
LEMMA DestroyStep ==
  ASSUME AgentInv, OneControlThread, NEW a \in Agents, ADestroy(a)
  PROVE  AgentInv'
<1> USE DEF ADestroy, Ready
<1>p. Place(a) \in 1 .. Len(alist) /\ alist[Place(a)] = a
  BY PlaceOf DEF AgentInv
<1>1. /\ alist' \in Seq(Agents) /\ Range(alist') = Range(alist) \ {a}
      /\ \A i, j \in DOMAIN alist' : alist'[i] = alist'[j] => i = j
  <2>1. alist' = RemoveAt(alist, Place(a))
    OBVIOUS
  <2>2. alist \in Seq(Agents) /\ \A i, j \in DOMAIN alist : alist[i] = alist[j] => i = j
    BY DEF AgentInv, AgentType
  <2> HIDE DEF ADestroy
  <2> QED
    BY <1>p, <2>1, <2>2, RemovedFromList
<1>c. cursor' \in Range(alist') \cup {NoAgent}
  <2>a. alist \in Seq(Agents) /\ \A i, j \in DOMAIN alist : alist[i] = alist[j] => i = j
    BY DEF AgentInv, AgentType
  <2>b. DOMAIN alist = 1 .. Len(alist) /\ Len(alist) \in Nat
    BY <2>a
  <2>c. alist # << >> => Head(alist) = alist[1]
    BY <2>a
  <2>1. /\ DOMAIN alist = 1 .. Len(alist) /\ Len(alist) \in Nat
        /\ \A i, j \in 1 .. Len(alist) : alist[i] = alist[j] => i = j
        /\ alist # << >> => Head(alist) = alist[1]
    BY <2>a, <2>b, <2>c
  <2>2. \A i \in 1 .. Len(alist) : alist[i] \in Range(alist)
    BY RangeOfList DEF AgentInv
  <2>3. CASE cursor # a
    BY <1>1, <2>3 DEF CursorAfter, AgentInv, AgentType
  <2>4. CASE cursor = a /\ Place(a) < Len(alist)
    <3>1. cursor' = alist[Place(a) + 1] /\ Place(a) + 1 \in 1 .. Len(alist)
      BY <1>p, <2>1, <2>4 DEF CursorAfter
    <3>2. alist[Place(a) + 1] # a
      BY <1>p, <2>1, <3>1
    <3> QED
      BY <1>1, <2>2, <3>1, <3>2
  <2>5. CASE cursor = a /\ ~(Place(a) < Len(alist)) /\ Place(a) > 1
    <3>1. cursor' = alist[1] /\ 1 \in 1 .. Len(alist) /\ alist # << >>
      BY <1>p, <2>1, <2>5 DEF CursorAfter
    <3>2. alist[1] # a
      BY <1>p, <2>1, <2>5, <3>1
    <3> QED
      BY <1>1, <2>2, <3>1, <3>2
  <2>6. CASE cursor = a /\ ~(Place(a) < Len(alist)) /\ ~(Place(a) > 1)
    BY <2>6 DEF CursorAfter
  <2> QED
    BY <2>3, <2>4, <2>5, <2>6
<1>2. AgentType'
  BY <1>1, <1>c DEF AgentInv, AgentType, NoConv, NoChat, NoResult, Nothing, ConvStates, Over
<1>3. ASSUME NEW b \in Agents PROVE ChatInv(b)'
  <2>1. CASE b = a
    BY <2>1, AgentAssumption DEF AgentInv, AgentType, ChatInv, NoConv, NoChat, NoResult, Nothing, ResultOf
  <2>2. CASE b # a
    <3>1. aconv'[b] = aconv[b] /\ achat'[b] = achat[b] /\ ghost'[b] = ghost[b]
      BY <2>2 DEF AgentInv, AgentType
    <3> QED
      BY <1>1, <2>2, <3>1 DEF AgentInv, ChatInv, ResultOf
  <2> QED
    BY <2>1, <2>2
<1>4. ASSUME NEW t \in Threads PROVE EnqueueInv(t)'
  <2>1. t = ThreadOf[a]
    BY OneThreadOnly
  <2> QED
    BY <2>1 DEF EnqueueInv
<1>5. SlotsApart'
  <2> SUFFICES ASSUME NEW b \in Agents, NEW c \in Agents, b # c, aconv'[b].slot # 0
               PROVE  aconv'[b].slot # aconv'[c].slot
    BY DEF SlotsApart
  <2> QED
    BY DEF AgentInv, AgentType, SlotsApart, NoConv
<1> QED
  BY <1>2, <1>3, <1>4, <1>5 DEF AgentInv

\* A step of the thread that leaves the list and the cursor alone preserves the
\* invariant of the agents it does not touch.
LEMMA OthersKept ==
  ASSUME AgentInv, NEW b \in Agents, Range(alist') = Range(alist),
         aconv'[b] = aconv[b], achat'[b] = achat[b], ghost'[b] = ghost[b]
  PROVE  ChatInv(b)'
BY DEF AgentInv, ChatInv, ResultOf

\* Giving a slot back keeps the result.
LEMMA ReleasedKeeps ==
  ASSUME AgentInv, NEW a \in Agents, Released(a), UNCHANGED <<alist, ghost>>,
         aconv[a].state \in Over, ~Unread(a)
  PROVE  /\ aconv' \in [Agents -> [slot : AgentSlotIds \cup {0}, state : ConvStates, ring : Nat, made : Nat]]
         /\ achat' \in [Agents -> [res : [has : BOOLEAN, state : ConvStates, tokens : Nat],
                                  captured : Nat, truncated : BOOLEAN]]
         /\ \A b \in Agents : ChatInv(b)'
         /\ SlotsApart'
<1> USE DEF Released, Unread
<1>1. /\ aconv[a] \in [slot : AgentSlotIds \cup {0}, state : ConvStates, ring : Nat, made : Nat]
      /\ achat[a] \in [res : [has : BOOLEAN, state : ConvStates, tokens : Nat], captured : Nat, truncated : BOOLEAN]
  BY DEF AgentInv, AgentType
<1>2. /\ aconv'[a] = NoConv
      /\ achat'[a].res = [has |-> TRUE, state |-> aconv[a].state, tokens |-> aconv[a].made]
      /\ achat'[a].captured = achat[a].captured /\ achat'[a].truncated = achat[a].truncated
      /\ \A b \in Agents \ {a} : aconv'[b] = aconv[b] /\ achat'[b] = achat[b]
  BY <1>1 DEF AgentInv, AgentType
<1>3. ASSUME NEW b \in Agents PROVE ChatInv(b)'
  <2>1. CASE b = a
    <3>1. aconv[a].ring = 0 /\ aconv[a].state # "none" /\ ChatInv(a)
      BY <1>1, OverStates DEF AgentInv
    <3>2. ghost[a].state = aconv[a].state /\ ghost[a].made = aconv[a].made
      BY <3>1 DEF ChatInv, ResultOf
    <3> QED
      BY <1>2, <2>1, <3>1, <3>2 DEF ChatInv, ResultOf, NoConv
  <2>2. CASE b # a
    BY <1>2, <2>2, OthersKept
  <2> QED
    BY <2>1, <2>2
<1>4. aconv' \in [Agents -> [slot : AgentSlotIds \cup {0}, state : ConvStates, ring : Nat, made : Nat]]
  BY DEF AgentInv, AgentType, NoConv, ConvStates
<1>5. achat' \in [Agents -> [res : [has : BOOLEAN, state : ConvStates, tokens : Nat],
                            captured : Nat, truncated : BOOLEAN]]
  <2>1. [has |-> TRUE, state |-> aconv[a].state, tokens |-> aconv[a].made]
          \in [has : BOOLEAN, state : ConvStates, tokens : Nat]
    BY <1>1
  <2> QED
    BY <1>1, <2>1 DEF AgentInv, AgentType
<1>6. SlotsApart'
  BY <1>2 DEF AgentInv, SlotsApart, NoConv
<1> QED
  BY <1>3, <1>4, <1>5, <1>6

\* agent_release_slot, called by the agent's thread.
LEMMA ReleaseSlotStep ==
  ASSUME AgentInv, OneControlThread, NEW a \in Agents, AReleaseSlot(a)
  PROVE  AgentInv'
<1> USE DEF AReleaseSlot, Ready
<1>1. AgentType'
  BY ReleasedKeeps DEF AgentInv, AgentType
<1>2. ASSUME NEW t \in Threads PROVE EnqueueInv(t)'
  <2>1. t = ThreadOf[a]
    BY OneThreadOnly
  <2> QED
    BY <2>1 DEF EnqueueInv
<1> QED
  BY <1>1, <1>2, ReleasedKeeps DEF AgentInv

-----------------------------------------------------------------------------
\* What holds of a thread inside agent_chat_enqueue and of its agent.
LEMMA CallerKnown ==
  ASSUME AgentInv, NEW t \in Threads, acall[t].at # "idle"
  PROVE  /\ acall[t].agent \in Agents /\ acall[t].agent \in Range(alist)
         /\ EnqueueInv(t) /\ ChatInv(acall[t].agent)
         /\ acall[t] \in [at : CallPlaces, agent : Agents \cup {NoAgent}, victim : Agents \cup {NoAgent}]
<1>1. EnqueueInv(t) /\ acall[t].agent \in Range(alist)
  BY DEF AgentInv, EnqueueInv
<1>2. acall[t].agent \in Agents
  BY <1>1, RangeOfList DEF AgentInv
<1> QED
  BY <1>1, <1>2 DEF AgentInv, AgentType

\* agent_chat_enqueue begins: what was read before is the base of the new capture.
LEMMA EnqueueBeginStep ==
  ASSUME AgentInv, OneControlThread, NEW a \in Agents, EnqueueBegin(a)
  PROVE  AgentInv'
<1> USE DEF EnqueueBegin, Ready
<1> DEFINE t == ThreadOf[a]
<1>t. t \in Threads /\ \A u \in Threads : u = t
  BY OneThreadOnly
<1>1. /\ achat'[a] = NoChat /\ aconv' = aconv /\ alist' = alist /\ cursor' = cursor
      /\ ghost'[a] = IF aconv[a].state = "none" THEN Nothing ELSE [ghost[a] EXCEPT !.base = ghost[a].read]
      /\ \A b \in Agents \ {a} : achat'[b] = achat[b] /\ ghost'[b] = ghost[b]
  BY DEF AgentInv, AgentType
<1>2. /\ acall'[t].at = (IF aconv[a].state = "none" THEN "create" ELSE "reset")
      /\ acall'[t].agent = a /\ acall'[t].victim = NoAgent
      /\ acall' \in [Threads -> [at : CallPlaces, agent : Agents \cup {NoAgent}, victim : Agents \cup {NoAgent}]]
  BY <1>t DEF AgentInv, AgentType, NoCall, CallPlaces
<1>3. ghost[a] \in [state : ConvStates, made : Nat, read : Nat, base : Nat]
  BY DEF AgentInv, AgentType
<1>4. ghost'[a] \in [state : ConvStates, made : Nat, read : Nat, base : Nat]
  BY <1>1, <1>3 DEF Nothing, ConvStates, Over
<1>5. AgentType'
  <2>1. NoChat \in [res : [has : BOOLEAN, state : ConvStates, tokens : Nat], captured : Nat, truncated : BOOLEAN]
    BY DEF NoChat, NoResult, ConvStates, Over
  <2>2. achat' \in [Agents -> [res : [has : BOOLEAN, state : ConvStates, tokens : Nat],
                              captured : Nat, truncated : BOOLEAN]]
    BY <2>1 DEF AgentInv, AgentType
  <2>3. ghost' \in [Agents -> [state : ConvStates, made : Nat, read : Nat, base : Nat]]
    <3>1. ghost' = [ghost EXCEPT ![a] = ghost'[a]]
      BY <1>1 DEF AgentInv, AgentType
    <3> QED
      BY <1>4, <3>1 DEF AgentInv, AgentType
  <2> QED
    BY <1>1, <1>2, <2>2, <2>3 DEF AgentInv, AgentType
<1>6. ASSUME NEW b \in Agents PROVE ChatInv(b)'
  <2>1. CASE b = a /\ aconv[a].state = "none"
    <3>1. ghost'[a] = Nothing /\ ChatInv(a)
      BY <1>1, <2>1 DEF AgentInv
    <3> QED
      BY <1>1, <2>1, <3>1, AgentAssumption DEF ChatInv, ResultOf, NoChat, NoResult, Nothing
  <2>2. CASE b = a /\ aconv[a].state # "none"
    <3>1. /\ ghost'[a].state = ghost[a].state /\ ghost'[a].made = ghost[a].made
          /\ ghost'[a].read = ghost[a].read /\ ghost'[a].base = ghost[a].read
      BY <1>1, <1>3, <2>2
    <3>2. ChatInv(a) /\ achat'[a].captured = 0
      BY <1>1 DEF AgentInv, NoChat
    <3>3. ResultOf(a) = [state |-> aconv[a].state, made |-> aconv[a].made]
      BY <2>2 DEF ResultOf
    <3>4. ResultOf(a)' = [state |-> aconv[a].state, made |-> aconv[a].made]
      BY <1>1, <2>2 DEF ResultOf
    <3> QED
      BY <1>1, <1>3, <2>2, <3>1, <3>2, <3>3, <3>4, AgentAssumption DEF ChatInv
  <2>3. CASE b # a
    BY <1>1, <2>3, OthersKept
  <2> QED
    BY <2>1, <2>2, <2>3
<1>7. ASSUME NEW u \in Threads PROVE EnqueueInv(u)'
  <2>1. u = t /\ a \in Range(alist') /\ ChatInv(a)
    BY <1>t, <1>1 DEF AgentInv
  <2>2. CASE aconv[a].state = "none"
    BY <1>1, <1>2, <2>1, <2>2 DEF EnqueueInv
  <2>3. CASE aconv[a].state # "none"
    BY <1>1, <1>2, <2>1, <2>3 DEF EnqueueInv, ChatInv
  <2> QED
    BY <2>2, <2>3
<1>8. SlotsApart'
  BY <1>1 DEF AgentInv, SlotsApart
<1> QED
  BY <1>5, <1>6, <1>7, <1>8 DEF AgentInv

\* The conversation gets a slot that nobody has.
LEMMA CreateConvStep ==
  ASSUME AgentInv, OneControlThread, NEW t \in Threads, CreateConv(t)
  PROVE  AgentInv'
<1> USE DEF CreateConv
<1> DEFINE a == acall[t].agent
<1>t. \A u \in Threads : u = t
  BY OneThreadOnly
<1>k. /\ a \in Agents /\ a \in Range(alist) /\ EnqueueInv(t) /\ ChatInv(a)
      /\ acall[t] \in [at : CallPlaces, agent : Agents \cup {NoAgent}, victim : Agents \cup {NoAgent}]
  BY CallerKnown
<1>1. PICK s \in Usable(a) : aconv' = [aconv EXCEPT ![a] = [slot |-> s, state |-> "idle", ring |-> 0, made |-> 0]]
  OBVIOUS
<1>2. s \in AgentSlotIds /\ s # 0 /\ \A b \in Agents : aconv[b].slot # s
  BY <1>1, AgentAssumption DEF Usable, FreeSlots
<1>3. aconv[a].state = "none" /\ achat[a] = NoChat /\ ghost[a] = Nothing
  BY <1>k DEF EnqueueInv
<1>4. /\ aconv'[a] = [slot |-> s, state |-> "idle", ring |-> 0, made |-> 0]
      /\ \A b \in Agents \ {a} : aconv'[b] = aconv[b]
      /\ alist' = alist /\ cursor' = cursor /\ achat' = achat /\ ghost' = ghost /\ chats' = chats
  BY <1>1, <1>k DEF AgentInv, AgentType
<1>5. /\ acall'[t].at = "reset" /\ acall'[t].agent = a
      /\ acall' \in [Threads -> [at : CallPlaces, agent : Agents \cup {NoAgent}, victim : Agents \cup {NoAgent}]]
  BY <1>k DEF AgentInv, AgentType, CallPlaces
<1> HIDE DEF a, CreateConv
<1>6. AgentType'
  <2>1. aconv' \in [Agents -> [slot : AgentSlotIds \cup {0}, state : ConvStates, ring : Nat, made : Nat]]
    BY <1>1, <1>2, <1>k DEF AgentInv, AgentType, ConvStates, Over
  <2> QED
    BY <1>4, <1>5, <2>1 DEF AgentInv, AgentType
<1>7. ASSUME NEW b \in Agents PROVE ChatInv(b)'
  <2>1. CASE b = a
    BY <1>2, <1>3, <1>4, <1>k, <2>1, AgentAssumption DEF ChatInv, ResultOf, NoChat, NoResult, Nothing
  <2>2. CASE b # a
    BY <1>4, <2>2, OthersKept
  <2> QED
    BY <2>1, <2>2
<1>8. ASSUME NEW u \in Threads PROVE EnqueueInv(u)'
  <2>1. u = t
    BY <1>t
  <2> QED
    BY <1>2, <1>3, <1>4, <1>5, <1>k, <2>1 DEF EnqueueInv
<1>9. SlotsApart'
  <2> SUFFICES ASSUME NEW b \in Agents, NEW c \in Agents, b # c, aconv'[b].slot # 0
               PROVE  aconv'[b].slot # aconv'[c].slot
    BY DEF SlotsApart
  <2> QED
    BY <1>2, <1>4 DEF AgentInv, SlotsApart
<1> QED
  BY <1>6, <1>7, <1>8, <1>9 DEF AgentInv

\* The victim is another agent of the list, and so is the agent after it.
LEMMA PickReclaimStep ==
  ASSUME AgentInv, OneControlThread, NEW t \in Threads, PickReclaim(t)
  PROVE  AgentInv'
<1> USE DEF PickReclaim
<1> DEFINE a == acall[t].agent
<1>t. \A u \in Threads : u = t
  BY OneThreadOnly
<1>k. /\ a \in Agents /\ a \in Range(alist) /\ EnqueueInv(t) /\ ChatInv(a)
      /\ acall[t] \in [at : CallPlaces, agent : Agents \cup {NoAgent}, victim : Agents \cup {NoAgent}]
  BY CallerKnown
<1>1. PICK i \in DOMAIN Walk :
        /\ Reclaimable(a, Walk[i]) /\ cursor' = NextInList(Walk[i])
        /\ acall' = [acall EXCEPT ![t].at = "release", ![t].victim = Walk[i]]
  OBVIOUS
<1>2. Walk[i] \in Range(alist)
  <2>1. Walk \in Seq(Agents)
    <3>1. alist \in Seq(Agents)
      BY DEF AgentInv, AgentType
    <3>2. CASE cursor = NoAgent
      BY <3>1, <3>2 DEF Walk
    <3>3. CASE cursor # NoAgent
      <4>1. cursor \in Range(alist) /\ AgentType
        BY <3>3 DEF AgentInv, AgentType
      <4>2. Place(cursor) \in 1 .. Len(alist)
        BY <4>1, PlaceOf
      <4> QED
        BY <3>1, <3>3, <4>2 DEF Walk
    <3> QED
      BY <3>2, <3>3
  <2>2. i \in 1 .. Len(Walk)
    BY <2>1
  <2> QED
    BY <2>2, WalkInList DEF AgentInv
<1> DEFINE c == Walk[i]
<1>3. c \in Agents /\ c # a
  BY <1>1, <1>2, RangeOfList DEF Reclaimable, AgentInv
<1>4. acall[t].at = "create" /\ UNCHANGED <<alist, aconv, achat, chats, ghost>>
  OBVIOUS
<1>5. /\ acall'[t].at = "release" /\ acall'[t].agent = a /\ acall'[t].victim = c
      /\ acall' \in [Threads -> [at : CallPlaces, agent : Agents \cup {NoAgent}, victim : Agents \cup {NoAgent}]]
  BY <1>1, <1>3, <1>k DEF AgentInv, AgentType, CallPlaces
<1>6. cursor' \in Range(alist)
  <2>1. Place(c) \in 1 .. Len(alist)
    BY <1>2, PlaceOf DEF AgentInv
  <2>2. cursor' = NextInList(c)
    BY <1>1
  <2>3. alist \in Seq(Agents)
    BY DEF AgentInv, AgentType
  <2> HIDE DEF c, PickReclaim
  <2>4. CASE Place(c) < Len(alist)
    <3>1. cursor' = alist[Place(c) + 1] /\ Place(c) + 1 \in 1 .. Len(alist)
      BY <2>1, <2>2, <2>3, <2>4 DEF NextInList
    <3> QED
      BY <3>1, RangeOfList DEF AgentInv
  <2>5. CASE ~(Place(c) < Len(alist))
    <3>1. cursor' = alist[1] /\ 1 \in 1 .. Len(alist)
      BY <2>1, <2>2, <2>3, <2>5 DEF NextInList
    <3> QED
      BY <3>1, RangeOfList DEF AgentInv
  <2> QED
    BY <2>4, <2>5
<1> HIDE DEF a, c, PickReclaim
<1>7. AgentType'
  BY <1>4, <1>5, <1>6 DEF AgentInv, AgentType
<1>8. \A b \in Agents : ChatInv(b)'
  BY <1>4, OthersKept
<1>9. ASSUME NEW u \in Threads PROVE EnqueueInv(u)'
  <2>1. u = t
    BY <1>t
  <2> QED
    BY <1>3, <1>4, <1>5, <1>k, <2>1 DEF EnqueueInv, a
<1>10. SlotsApart'
  BY <1>4 DEF AgentInv, SlotsApart
<1> QED
  BY <1>7, <1>8, <1>9, <1>10 DEF AgentInv

\* The victim keeps its result.
LEMMA ReleaseReclaimStep ==
  ASSUME AgentInv, OneControlThread, NEW t \in Threads, ReleaseReclaim(t)
  PROVE  AgentInv'
<1> USE DEF ReleaseReclaim
<1> DEFINE a == acall[t].agent
           c == acall[t].victim
           ok == aconv[c].state \in Over /\ ~Unread(c)
<1>t. \A u \in Threads : u = t
  BY OneThreadOnly
<1>k. /\ a \in Agents /\ a \in Range(alist) /\ EnqueueInv(t)
      /\ acall[t] \in [at : CallPlaces, agent : Agents \cup {NoAgent}, victim : Agents \cup {NoAgent}]
  BY CallerKnown
<1>1. /\ acall[t].at = "release" /\ c \in Agents /\ c # a
      /\ achat[a] = NoChat /\ aconv[a].state = "none" /\ ghost[a] = Nothing
  BY <1>k DEF EnqueueInv
<1>2. /\ UNCHANGED <<alist, cursor, chats, ghost>>
      /\ IF ok THEN Released(c) ELSE UNCHANGED <<aconv, achat>>
      /\ acall' = [acall EXCEPT ![t] = IF ok THEN [@ EXCEPT !.at = "again", !.victim = NoAgent] ELSE NoCall]
  OBVIOUS
<1>3. /\ acall'[t].at = IF ok THEN "again" ELSE "idle"
      /\ ok => acall'[t].agent = a
      /\ acall' \in [Threads -> [at : CallPlaces, agent : Agents \cup {NoAgent}, victim : Agents \cup {NoAgent}]]
  <2> HIDE DEF ok, ReleaseReclaim
  <2>0. acall \in [Threads -> [at : CallPlaces, agent : Agents \cup {NoAgent}, victim : Agents \cup {NoAgent}]]
    BY DEF AgentInv, AgentType
  <2>1. CASE ok
    <3>1. acall' = [acall EXCEPT ![t] = [acall[t] EXCEPT !.at = "again", !.victim = NoAgent]]
      BY <1>2, <2>1
    <3> QED
      BY <1>k, <2>0, <2>1, <3>1 DEF CallPlaces
  <2>2. CASE ~ok
    <3>1. acall' = [acall EXCEPT ![t] = NoCall]
      BY <1>2, <2>2
    <3> QED
      BY <1>k, <2>0, <2>2, <3>1 DEF CallPlaces, NoCall
  <2> QED
    BY <2>1, <2>2
<1> HIDE DEF ReleaseReclaim
<1>4. CASE ok
  <2>1. Released(c) /\ aconv[c].state \in Over /\ ~Unread(c)
    BY <1>2, <1>4
  <2>2. aconv'[a] = aconv[a] /\ achat'[a] = achat[a]
    BY <1>1, <1>k, <2>1 DEF Released, AgentInv, AgentType
  <2> HIDE DEF a, c, ok
  <2>3. /\ aconv' \in [Agents -> [slot : AgentSlotIds \cup {0}, state : ConvStates, ring : Nat, made : Nat]]
        /\ achat' \in [Agents -> [res : [has : BOOLEAN, state : ConvStates, tokens : Nat],
                                 captured : Nat, truncated : BOOLEAN]]
        /\ \A b \in Agents : ChatInv(b)'
        /\ SlotsApart'
    BY <1>1, <1>2, <2>1, ReleasedKeeps
  <2>4. AgentType'
    BY <1>2, <1>3, <2>3 DEF AgentInv, AgentType
  <2>5. ASSUME NEW u \in Threads PROVE EnqueueInv(u)'
    <3>1. u = t
      BY <1>t
    <3> QED
      BY <1>1, <1>2, <1>3, <1>4, <1>k, <2>2, <3>1 DEF EnqueueInv
  <2> QED
    BY <2>3, <2>4, <2>5 DEF AgentInv
<1>5. CASE ~ok
  <2>1. UNCHANGED <<aconv, achat>> /\ acall'[t].at = "idle"
    BY <1>2, <1>3, <1>5
  <2>2. AgentType'
    BY <1>2, <1>3, <2>1 DEF AgentInv, AgentType
  <2>3. \A b \in Agents : ChatInv(b)'
    BY <1>2, <2>1, OthersKept
  <2>4. ASSUME NEW u \in Threads PROVE EnqueueInv(u)'
    <3>1. u = t
      BY <1>t
    <3> QED
      BY <2>1, <3>1 DEF EnqueueInv
  <2>5. SlotsApart'
    BY <2>1 DEF AgentInv, SlotsApart
  <2> QED
    BY <2>2, <2>3, <2>4, <2>5 DEF AgentInv
<1> QED
  BY <1>4, <1>5

\* An enqueue that gives up leaves its agent as it is.
LEMMA GiveUpStep ==
  ASSUME AgentInv, OneControlThread, NEW t \in Threads, acall' = [acall EXCEPT ![t] = NoCall],
         UNCHANGED <<alist, cursor, aconv, achat, chats, ghost>>
  PROVE  AgentInv'
<1>1. acall'[t].at = "idle" /\ \A u \in Threads : u = t
  BY OneThreadOnly DEF AgentInv, AgentType, NoCall
<1>2. acall' \in [Threads -> [at : CallPlaces, agent : Agents \cup {NoAgent}, victim : Agents \cup {NoAgent}]]
  BY DEF AgentInv, AgentType, NoCall, CallPlaces
<1>3. AgentType'
  BY <1>2 DEF AgentInv, AgentType
<1>4. \A b \in Agents : ChatInv(b)'
  BY OthersKept
<1>5. ASSUME NEW u \in Threads PROVE EnqueueInv(u)'
  <2>1. u = t
    BY <1>1
  <2> QED
    BY <1>1, <2>1 DEF EnqueueInv
<1>6. SlotsApart'
  BY DEF AgentInv, SlotsApart
<1> QED
  BY <1>3, <1>4, <1>5, <1>6 DEF AgentInv

\* No slot: the agent stays without a conversation.
LEMMA EnqueueBusyStep ==
  ASSUME AgentInv, OneControlThread, NEW t \in Threads, EnqueueBusy(t)
  PROVE  AgentInv'
BY GiveUpStep DEF EnqueueBusy

\* A step of an enqueue on the conversation of its agent.
LEMMA ConvStep ==
  ASSUME AgentInv, OneControlThread, NEW t \in Threads, acall[t].at \in {"reset", "feed", "decode"},
         NEW x, NEW y, NEW p \in {"idle", "feed", "decode"},
         aconv' = [aconv EXCEPT ![acall[t].agent] = x], ghost' = [ghost EXCEPT ![acall[t].agent] = y],
         x \in [slot : AgentSlotIds \cup {0}, state : ConvStates, ring : Nat, made : Nat],
         y \in [state : ConvStates, made : Nat, read : Nat, base : Nat],
         x.slot = aconv[acall[t].agent].slot, x.state # "none",
         x.state = y.state, x.made = y.made, x.ring + y.read = y.made,
         y.base <= y.read, acall[t].agent \in ToolUsers => y.base = y.read,
         acall'[t].at = p, p # "idle" => acall'[t].agent = acall[t].agent /\ x.state # "decoding",
         acall' \in [Threads -> [at : CallPlaces, agent : Agents \cup {NoAgent}, victim : Agents \cup {NoAgent}]],
         UNCHANGED <<alist, cursor, achat>>, chats' \in Nat
  PROVE  AgentInv'
<1> DEFINE a == acall[t].agent
<1>t. \A u \in Threads : u = t
  BY OneThreadOnly
<1>k. a \in Agents /\ a \in Range(alist) /\ EnqueueInv(t) /\ ChatInv(a)
  BY CallerKnown
<1>1. /\ aconv'[a] = x /\ ghost'[a] = y /\ achat[a] = NoChat /\ aconv[a].slot # 0
      /\ \A b \in Agents \ {a} : aconv'[b] = aconv[b] /\ ghost'[b] = ghost[b]
  BY <1>k DEF AgentInv, AgentType, EnqueueInv
<1>2. AgentType'
  BY <1>k DEF AgentInv, AgentType
<1> HIDE DEF a
<1>3. ASSUME NEW b \in Agents PROVE ChatInv(b)'
  <2>1. CASE b = a
    <3>1. aconv'[b] = x /\ ghost'[b] = y /\ achat' = achat /\ achat[b] = NoChat /\ b \in Range(alist')
      BY <1>1, <1>k, <2>1
    <3>2. ResultOf(b)' = [state |-> x.state, made |-> x.made]
      BY <3>1 DEF ResultOf
    <3>3. x.slot # 0 /\ achat'[b].captured = 0
      BY <1>1, <3>1 DEF NoChat, a
    <3> QED
      BY <2>1, <3>1, <3>2, <3>3, AgentAssumption DEF ChatInv, NoChat, a
  <2>2. CASE b # a
    BY <1>1, <2>2, OthersKept
  <2> QED
    BY <2>1, <2>2
<1>4. ASSUME NEW u \in Threads PROVE EnqueueInv(u)'
  <2>1. u = t
    BY <1>t
  <2> QED
    BY <1>1, <1>k, <2>1 DEF EnqueueInv, a
<1>5. SlotsApart'
  <2>1. \A b \in Agents : aconv'[b].slot = aconv[b].slot
    BY <1>1 DEF a
  <2> QED
    BY <2>1 DEF AgentInv, SlotsApart
<1> QED
  BY <1>2, <1>3, <1>4, <1>5 DEF AgentInv

\* The reset begins a new history.
LEMMA ResetConvStep ==
  ASSUME AgentInv, OneControlThread, NEW t \in Threads, ResetConv(t)
  PROVE  AgentInv'
<1> DEFINE a == acall[t].agent
<1>k. /\ acall[t].at = "reset" /\ a \in Agents
      /\ acall[t] \in [at : CallPlaces, agent : Agents \cup {NoAgent}, victim : Agents \cup {NoAgent}]
      /\ UNCHANGED <<alist, cursor, achat, chats>>
  BY CallerKnown DEF ResetConv
<1>1. CASE acall' = [acall EXCEPT ![t] = NoCall] /\ UNCHANGED <<aconv, ghost>>
  BY <1>1, <1>k, GiveUpStep
<1>2. CASE /\ aconv' = [aconv EXCEPT ![a].state = "idle", ![a].ring = 0, ![a].made = 0]
           /\ ghost' = [ghost EXCEPT ![a] = Nothing]
           /\ acall' = [acall EXCEPT ![t].at = "feed"]
  <2> DEFINE x == [aconv[a] EXCEPT !.state = "idle", !.ring = 0, !.made = 0]
  <2>a. /\ aconv[a] \in [slot : AgentSlotIds \cup {0}, state : ConvStates, ring : Nat, made : Nat]
        /\ aconv \in [Agents -> [slot : AgentSlotIds \cup {0}, state : ConvStates, ring : Nat, made : Nat]]
    BY <1>k DEF AgentInv, AgentType
  <2>b. /\ x.slot = aconv[a].slot /\ x.state = "idle" /\ x.ring = 0 /\ x.made = 0
        /\ x \in [slot : AgentSlotIds \cup {0}, state : ConvStates, ring : Nat, made : Nat]
    BY <2>a DEF ConvStates, Over
  <2>c. aconv' = [aconv EXCEPT ![a] = x]
    BY <1>2, <1>k, <2>a
  <2>2. /\ acall'[t].at = "feed" /\ acall'[t].agent = a
        /\ acall' \in [Threads -> [at : CallPlaces, agent : Agents \cup {NoAgent}, victim : Agents \cup {NoAgent}]]
    BY <1>2, <1>k DEF AgentInv, AgentType, CallPlaces
  <2>3. /\ Nothing \in [state : ConvStates, made : Nat, read : Nat, base : Nat]
        /\ Nothing.state = "idle" /\ Nothing.made = 0 /\ Nothing.read = 0 /\ Nothing.base = 0
    BY DEF Nothing, ConvStates, Over
  <2>4. chats' \in Nat /\ ghost' = [ghost EXCEPT ![a] = Nothing]
    BY <1>2, <1>k DEF AgentInv, AgentType
  <2> HIDE DEF x
  <2>5. x.ring + Nothing.read = Nothing.made /\ x.state # "none" /\ x.state # "decoding" /\ Nothing.base <= Nothing.read
    BY <2>b, <2>3
  <2> DEFINE y == Nothing
             p == "feed"
  <2>6. p \in {"idle", "feed", "decode"} /\ p # "idle" /\ acall'[t].at = p /\ acall'[t].agent = acall[t].agent
    BY <2>2
  <2>7. x.state = y.state /\ x.made = y.made /\ x.ring + y.read = y.made /\ y.base = y.read /\ y.base <= y.read
    BY <2>b, <2>3
  <2>8. /\ aconv' = [aconv EXCEPT ![acall[t].agent] = x] /\ ghost' = [ghost EXCEPT ![acall[t].agent] = y]
        /\ y \in [state : ConvStates, made : Nat, read : Nat, base : Nat]
        /\ x.slot = aconv[acall[t].agent].slot
    BY <2>b, <2>c, <2>3, <2>4
  <2> HIDE DEF p, y
  <2> QED
    BY <1>k, <2>b, <2>2, <2>4, <2>5, <2>6, <2>7, <2>8, ConvStep
<1> QED
  BY <1>1, <1>2 DEF ResetConv

\* The conversation of an enqueue is fed or decoded: its state changes, and
\* what its stream holds does not.
LEMMA MarkedStep ==
  ASSUME AgentInv, OneControlThread, NEW t \in Threads, acall[t].at \in {"feed", "decode"},
         NEW w \in {"feeding", "decoding"}, NEW p \in {"idle", "decode"},
         aconv' = [aconv EXCEPT ![acall[t].agent].state = w], ghost' = [ghost EXCEPT ![acall[t].agent].state = w],
         acall'[t].at = p, p # "idle" => acall'[t].agent = acall[t].agent /\ w # "decoding",
         acall' \in [Threads -> [at : CallPlaces, agent : Agents \cup {NoAgent}, victim : Agents \cup {NoAgent}]],
         UNCHANGED <<alist, cursor, achat>>, chats' \in Nat
  PROVE  AgentInv'
<1> DEFINE a == acall[t].agent
           x == [aconv[a] EXCEPT !.state = w]
           y == [ghost[a] EXCEPT !.state = w]
<1>k. a \in Agents /\ EnqueueInv(t) /\ ChatInv(a) /\ achat[a] = NoChat /\ aconv[a].slot # 0
  BY CallerKnown DEF EnqueueInv
<1>1. /\ aconv \in [Agents -> [slot : AgentSlotIds \cup {0}, state : ConvStates, ring : Nat, made : Nat]]
      /\ ghost \in [Agents -> [state : ConvStates, made : Nat, read : Nat, base : Nat]]
  BY DEF AgentInv, AgentType
<1>2. /\ aconv[a] \in [slot : AgentSlotIds \cup {0}, state : ConvStates, ring : Nat, made : Nat]
      /\ ghost[a] \in [state : ConvStates, made : Nat, read : Nat, base : Nat]
  BY <1>1, <1>k
<1>3. /\ x.slot = aconv[a].slot /\ x.state = w /\ x.ring = aconv[a].ring /\ x.made = aconv[a].made
      /\ x \in [slot : AgentSlotIds \cup {0}, state : ConvStates, ring : Nat, made : Nat]
  BY <1>2 DEF ConvStates, Over
<1>4. /\ y.state = w /\ y.made = ghost[a].made /\ y.read = ghost[a].read /\ y.base = ghost[a].base
      /\ y \in [state : ConvStates, made : Nat, read : Nat, base : Nat]
  BY <1>2 DEF ConvStates, Over
<1>5. aconv' = [aconv EXCEPT ![acall[t].agent] = x] /\ ghost' = [ghost EXCEPT ![acall[t].agent] = y]
  BY <1>1, <1>k
<1>6. aconv[a].made = ghost[a].made
  <2>1. aconv[a].state # "none"
    BY <1>k DEF ChatInv
  <2> QED
    BY <1>k, <2>1 DEF ChatInv, ResultOf
<1>7. /\ aconv[a].ring + ghost[a].read = ghost[a].made /\ ghost[a].base <= ghost[a].read
      /\ a \in ToolUsers => ghost[a].base = ghost[a].read
  BY <1>k, <1>2 DEF ChatInv, NoChat
<1> HIDE DEF x, y
<1>8. /\ x.slot = aconv[acall[t].agent].slot /\ x.state # "none"
      /\ x.state = y.state /\ x.made = y.made /\ x.ring + y.read = y.made
      /\ y.base <= y.read /\ (acall[t].agent \in ToolUsers => y.base = y.read)
  BY <1>3, <1>4, <1>6, <1>7
<1>9. p # "idle" => acall'[t].agent = acall[t].agent /\ x.state # "decoding"
  BY <1>3
<1> QED
  BY <1>3, <1>4, <1>5, <1>8, <1>9, ConvStep

\* The prompt is fed.
LEMMA FeedConvStep ==
  ASSUME AgentInv, OneControlThread, NEW t \in Threads, FeedConv(t)
  PROVE  AgentInv'
<1> DEFINE a == acall[t].agent
<1>k. /\ acall[t].at = "feed" /\ a \in Agents
      /\ acall[t] \in [at : CallPlaces, agent : Agents \cup {NoAgent}, victim : Agents \cup {NoAgent}]
      /\ UNCHANGED <<alist, cursor, achat, chats>>
  BY CallerKnown DEF FeedConv
<1>1. CASE acall' = [acall EXCEPT ![t] = NoCall] /\ UNCHANGED <<aconv, ghost>>
  BY <1>1, <1>k, GiveUpStep
<1>2. CASE /\ aconv' = [aconv EXCEPT ![a].state = "feeding"]
           /\ ghost' = [ghost EXCEPT ![a].state = "feeding"]
           /\ acall' = [acall EXCEPT ![t].at = "decode"]
  <2>1. /\ acall'[t].at = "decode" /\ acall'[t].agent = a
        /\ acall' \in [Threads -> [at : CallPlaces, agent : Agents \cup {NoAgent}, victim : Agents \cup {NoAgent}]]
    BY <1>2, <1>k DEF AgentInv, AgentType, CallPlaces
  <2>2. chats' \in Nat
    BY <1>k DEF AgentInv, AgentType
  <2> QED
    BY <1>2, <1>k, <2>1, <2>2, MarkedStep
<1> QED
  BY <1>1, <1>2 DEF FeedConv

\* The chat begins, and the enqueue is over.
LEMMA DecodeConvStep ==
  ASSUME AgentInv, OneControlThread, NEW t \in Threads, DecodeConv(t)
  PROVE  AgentInv'
<1> DEFINE a == acall[t].agent
<1>k. /\ acall[t].at = "decode" /\ a \in Agents
      /\ acall' = [acall EXCEPT ![t] = NoCall]
      /\ UNCHANGED <<alist, cursor, achat>>
  BY CallerKnown DEF DecodeConv
<1>1. CASE UNCHANGED <<aconv, ghost, chats>>
  BY <1>1, <1>k, GiveUpStep
<1>2. CASE /\ aconv' = [aconv EXCEPT ![a].state = "decoding"]
           /\ ghost' = [ghost EXCEPT ![a].state = "decoding"]
           /\ chats' = chats + 1
  <2>1. /\ acall'[t].at = "idle"
        /\ acall' \in [Threads -> [at : CallPlaces, agent : Agents \cup {NoAgent}, victim : Agents \cup {NoAgent}]]
    BY <1>k DEF AgentInv, AgentType, CallPlaces, NoCall
  <2>2. chats' \in Nat
    BY <1>2 DEF AgentInv, AgentType
  <2> QED
    BY <1>2, <1>k, <2>1, <2>2, MarkedStep
<1> QED
  BY <1>1, <1>2 DEF DecodeConv

-----------------------------------------------------------------------------
\* A token, an end or a read of a conversation that no enqueue is inside of, or
\* whose enqueue has not emptied it yet.
LEMMA TokenStep ==
  ASSUME AgentInv, OneControlThread, NEW a \in Agents, aconv[a].state # "none",
         \A t \in Threads : acall[t].at # "idle" => acall[t].agent # a,
         NEW x \in [slot : AgentSlotIds \cup {0}, state : ConvStates, ring : Nat, made : Nat],
         NEW y \in [state : ConvStates, made : Nat, read : Nat, base : Nat],
         NEW z \in [res : [has : BOOLEAN, state : ConvStates, tokens : Nat], captured : Nat, truncated : BOOLEAN],
         aconv' = [aconv EXCEPT ![a] = x], ghost' = [ghost EXCEPT ![a] = y], achat' = [achat EXCEPT ![a] = z],
         x.slot = aconv[a].slot, x.state # "none",
         x.state = y.state, x.made = y.made, x.ring + y.read = y.made,
         y.base = ghost[a].base, ghost[a].read <= y.read,
         a \in ToolUsers => /\ z.captured <= CaptureTokens
                            /\ \/ z.captured + y.base = y.read
                               \/ z.truncated /\ z.captured + y.base < y.read,
         UNCHANGED <<alist, cursor, acall, chats>>
  PROVE  AgentInv'
<1>1. /\ aconv'[a] = x /\ ghost'[a] = y /\ achat'[a] = z
      /\ \A b \in Agents \ {a} : aconv'[b] = aconv[b] /\ ghost'[b] = ghost[b] /\ achat'[b] = achat[b]
  BY DEF AgentInv, AgentType
<1>2. AgentType'
  BY DEF AgentInv, AgentType
<1>3. ASSUME NEW b \in Agents PROVE ChatInv(b)'
  <2>1. CASE b = a
    <3>1. ResultOf(a)' = [state |-> x.state, made |-> x.made]
      BY <1>1 DEF ResultOf
    <3>2. ChatInv(a) /\ ghost[a].read \in Nat /\ ghost[a].base \in Nat
      BY DEF AgentInv, AgentType
    <3>3. x.slot # 0 /\ y.base <= y.read /\ a \in Range(alist')
      BY <3>2 DEF ChatInv
    <3> QED
      BY <1>1, <2>1, <3>1, <3>3 DEF ChatInv
  <2>2. CASE b # a
    BY <1>1, <2>2, OthersKept
  <2> QED
    BY <2>1, <2>2
<1>4. ASSUME NEW t \in Threads PROVE EnqueueInv(t)'
  <2>1. CASE acall[t].at = "idle"
    BY <2>1 DEF EnqueueInv
  <2>2. CASE acall[t].at # "idle"
    <3>1. acall[t].agent \in Agents \ {a} /\ EnqueueInv(t)
      BY <2>2, CallerKnown
    <3>2. /\ aconv'[acall[t].agent] = aconv[acall[t].agent] /\ ghost'[acall[t].agent] = ghost[acall[t].agent]
          /\ achat'[acall[t].agent] = achat[acall[t].agent] /\ acall' = acall /\ alist' = alist
      BY <1>1, <3>1
    <3> QED
      BY <3>1, <3>2 DEF EnqueueInv
  <2> QED
    BY <2>1, <2>2
<1>5. SlotsApart'
  <2>1. \A b \in Agents : aconv'[b].slot = aconv[b].slot
    BY <1>1
  <2> QED
    BY <2>1 DEF AgentInv, SlotsApart
<1> QED
  BY <1>2, <1>3, <1>4, <1>5 DEF AgentInv

\* A token: made and unread grow together.
LEMMA StreamsStep ==
  ASSUME AgentInv, OneControlThread, NEW a \in Agents, Streams(a)
  PROVE  AgentInv'
<1> DEFINE x == [aconv[a] EXCEPT !.made = aconv[a].made + 1, !.ring = aconv[a].ring + 1]
           y == [ghost[a] EXCEPT !.made = ghost[a].made + 1]
           z == achat[a]
<1>k. aconv[a].state = "decoding" /\ UNCHANGED <<alist, cursor, achat, acall, chats>>
  BY DEF Streams
<1>1. /\ aconv[a] \in [slot : AgentSlotIds \cup {0}, state : ConvStates, ring : Nat, made : Nat]
      /\ ghost[a] \in [state : ConvStates, made : Nat, read : Nat, base : Nat]
      /\ z \in [res : [has : BOOLEAN, state : ConvStates, tokens : Nat], captured : Nat, truncated : BOOLEAN]
      /\ ChatInv(a)
  BY DEF AgentInv, AgentType
<1>2. \A t \in Threads : acall[t].at # "idle" => acall[t].agent # a
  BY <1>k, CallerKnown DEF EnqueueInv, CallPlaces
<1>3. /\ x \in [slot : AgentSlotIds \cup {0}, state : ConvStates, ring : Nat, made : Nat]
      /\ x.slot = aconv[a].slot /\ x.state = "decoding" /\ x.ring = aconv[a].ring + 1 /\ x.made = aconv[a].made + 1
  <2> DEFINE r == aconv[a].ring + 1
             m == aconv[a].made + 1
  <2>1. r \in Nat /\ m \in Nat
    BY <1>1
  <2>2. x = [aconv[a] EXCEPT !.made = m, !.ring = r]
    OBVIOUS
  <2> HIDE DEF r, m, x
  <2>3. /\ x \in [slot : AgentSlotIds \cup {0}, state : ConvStates, ring : Nat, made : Nat]
        /\ x.slot = aconv[a].slot /\ x.state = aconv[a].state /\ x.ring = r /\ x.made = m
    BY <1>1, <2>1, <2>2
  <2> QED
    BY <1>k, <2>3 DEF r, m
<1>4. /\ y \in [state : ConvStates, made : Nat, read : Nat, base : Nat]
      /\ y.state = ghost[a].state /\ y.made = ghost[a].made + 1 /\ y.read = ghost[a].read /\ y.base = ghost[a].base
  BY <1>1
<1>5. aconv' = [aconv EXCEPT ![a] = x] /\ ghost' = [ghost EXCEPT ![a] = y] /\ achat' = [achat EXCEPT ![a] = z]
  BY DEF Streams, AgentInv, AgentType
<1>6. ghost[a].state = "decoding" /\ ghost[a].made = aconv[a].made
  BY <1>1, <1>k DEF ChatInv, ResultOf
<1>7. /\ aconv[a].ring + ghost[a].read = ghost[a].made
      /\ a \in ToolUsers => /\ achat[a].captured <= CaptureTokens
                            /\ \/ achat[a].captured + ghost[a].base = ghost[a].read
                               \/ achat[a].truncated /\ achat[a].captured + ghost[a].base < ghost[a].read
  BY <1>1 DEF ChatInv
<1>8. /\ aconv[a].ring \in Nat /\ aconv[a].made \in Nat /\ ghost[a].read \in Nat /\ ghost[a].made \in Nat
  BY <1>1
<1> HIDE DEF x, y
<1>9. /\ x.state # "none" /\ x.state = y.state /\ x.made = y.made /\ x.ring + y.read = y.made
      /\ ghost[a].read <= y.read
  BY <1>3, <1>4, <1>6, <1>7, <1>8
<1>10. a \in ToolUsers => /\ z.captured <= CaptureTokens
                          /\ \/ z.captured + y.base = y.read
                             \/ z.truncated /\ z.captured + y.base < y.read
  BY <1>4, <1>7
<1> HIDE DEF z
<1> QED
  BY <1>k, <1>1, <1>2, <1>3, <1>4, <1>5, <1>9, <1>10, TokenStep

\* The chat ends, by itself or canceled.
LEMMA EndsStep ==
  ASSUME AgentInv, OneControlThread, NEW a \in Agents, NEW how \in {"completed", "canceled", "failed"}, Ends(a, how)
  PROVE  AgentInv'
<1> DEFINE x == [aconv[a] EXCEPT !.state = how]
           y == [ghost[a] EXCEPT !.state = how]
           z == achat[a]
<1>k. aconv[a].state = "decoding" /\ UNCHANGED <<alist, cursor, achat, acall, chats>>
  BY DEF Ends
<1>1. /\ aconv[a] \in [slot : AgentSlotIds \cup {0}, state : ConvStates, ring : Nat, made : Nat]
      /\ ghost[a] \in [state : ConvStates, made : Nat, read : Nat, base : Nat]
      /\ z \in [res : [has : BOOLEAN, state : ConvStates, tokens : Nat], captured : Nat, truncated : BOOLEAN]
      /\ ChatInv(a)
  BY DEF AgentInv, AgentType
<1>2. \A t \in Threads : acall[t].at # "idle" => acall[t].agent # a
  BY <1>k, CallerKnown DEF EnqueueInv, CallPlaces
<1>3. /\ x \in [slot : AgentSlotIds \cup {0}, state : ConvStates, ring : Nat, made : Nat]
      /\ x.slot = aconv[a].slot /\ x.state = how /\ x.ring = aconv[a].ring /\ x.made = aconv[a].made
  BY <1>1 DEF ConvStates, Over
<1>4. /\ y \in [state : ConvStates, made : Nat, read : Nat, base : Nat]
      /\ y.state = how /\ y.made = ghost[a].made /\ y.read = ghost[a].read /\ y.base = ghost[a].base
  BY <1>1 DEF ConvStates, Over
<1>5. aconv' = [aconv EXCEPT ![a] = x] /\ ghost' = [ghost EXCEPT ![a] = y] /\ achat' = [achat EXCEPT ![a] = z]
  BY DEF Ends, AgentInv, AgentType
<1>6. ghost[a].made = aconv[a].made
  BY <1>1, <1>k DEF ChatInv, ResultOf
<1>7. /\ aconv[a].ring + ghost[a].read = ghost[a].made
      /\ a \in ToolUsers => /\ achat[a].captured <= CaptureTokens
                            /\ \/ achat[a].captured + ghost[a].base = ghost[a].read
                               \/ achat[a].truncated /\ achat[a].captured + ghost[a].base < ghost[a].read
  BY <1>1 DEF ChatInv
<1>8. ghost[a].read \in Nat /\ how # "none"
  BY <1>1
<1> HIDE DEF x, y
<1>9. /\ x.state # "none" /\ x.state = y.state /\ x.made = y.made /\ x.ring + y.read = y.made
      /\ ghost[a].read <= y.read
  BY <1>3, <1>4, <1>6, <1>7, <1>8
<1>10. a \in ToolUsers => /\ z.captured <= CaptureTokens
                          /\ \/ z.captured + y.base = y.read
                             \/ z.truncated /\ z.captured + y.base < y.read
  BY <1>4, <1>7
<1> HIDE DEF z
<1> QED
  <2>1. /\ aconv[a].state # "none" /\ UNCHANGED <<alist, cursor, acall, chats>>
        /\ x.slot = aconv[a].slot /\ y.base = ghost[a].base
    BY <1>k, <1>3, <1>4
  <2>2. /\ x \in [slot : AgentSlotIds \cup {0}, state : ConvStates, ring : Nat, made : Nat]
        /\ y \in [state : ConvStates, made : Nat, read : Nat, base : Nat]
        /\ z \in [res : [has : BOOLEAN, state : ConvStates, tokens : Nat], captured : Nat, truncated : BOOLEAN]
    BY <1>1, <1>3, <1>4
  <2> QED
    BY <2>1, <2>2, <1>2, <1>5, <1>9, <1>10, TokenStep

\* A read: captured up to the capacity, and known to be cut beyond it.
LEMMA AStreamReadStep ==
  ASSUME AgentInv, OneControlThread, NEW a \in Agents, AStreamRead(a)
  PROVE  AgentInv'
<1> DEFINE x == [aconv[a] EXCEPT !.ring = aconv[a].ring - 1]
           y == [ghost[a] EXCEPT !.read = ghost[a].read + 1]
           z == achat'[a]
           tool == a \in ToolUsers
<1>k. /\ a \in Range(alist) /\ acall[ThreadOf[a]].at = "idle" /\ aconv[a].ring > 0
      /\ UNCHANGED <<alist, cursor, acall, chats>>
  BY DEF AStreamRead, Ready
<1>1. /\ aconv[a] \in [slot : AgentSlotIds \cup {0}, state : ConvStates, ring : Nat, made : Nat]
      /\ ghost[a] \in [state : ConvStates, made : Nat, read : Nat, base : Nat]
      /\ achat[a] \in [res : [has : BOOLEAN, state : ConvStates, tokens : Nat], captured : Nat, truncated : BOOLEAN]
      /\ ChatInv(a)
  BY DEF AgentInv, AgentType
<1>2. \A t \in Threads : acall[t].at # "idle" => acall[t].agent # a
  BY <1>k, OneThreadOnly
<1>3. /\ x \in [slot : AgentSlotIds \cup {0}, state : ConvStates, ring : Nat, made : Nat]
      /\ x.slot = aconv[a].slot /\ x.state = aconv[a].state /\ x.ring = aconv[a].ring - 1 /\ x.made = aconv[a].made
  BY <1>1, <1>k
<1>4. /\ y \in [state : ConvStates, made : Nat, read : Nat, base : Nat]
      /\ y.state = ghost[a].state /\ y.made = ghost[a].made /\ y.read = ghost[a].read + 1 /\ y.base = ghost[a].base
  BY <1>1
<1>5. aconv' = [aconv EXCEPT ![a] = x] /\ ghost' = [ghost EXCEPT ![a] = y]
  BY DEF AStreamRead, AgentInv, AgentType
<1>6. aconv[a].state # "none"
  BY <1>1, <1>k DEF ChatInv
<1>7. ghost[a].made = aconv[a].made /\ ghost[a].state = aconv[a].state
  BY <1>1, <1>6 DEF ChatInv, ResultOf
<1>8. /\ aconv[a].ring + ghost[a].read = ghost[a].made
      /\ tool => /\ achat[a].captured <= CaptureTokens
                 /\ \/ achat[a].captured + ghost[a].base = ghost[a].read
                    \/ achat[a].truncated /\ achat[a].captured + ghost[a].base < ghost[a].read
  BY <1>1 DEF ChatInv
<1>9. /\ z.captured = (IF tool /\ achat[a].captured < CaptureTokens THEN achat[a].captured + 1 ELSE achat[a].captured)
      /\ z.truncated = (achat[a].truncated \/ (tool /\ achat[a].captured = CaptureTokens))
      /\ z.res = achat[a].res /\ achat' = [achat EXCEPT ![a] = z]
  BY <1>1 DEF AStreamRead, AgentInv, AgentType
<1>10. z \in [res : [has : BOOLEAN, state : ConvStates, tokens : Nat], captured : Nat, truncated : BOOLEAN]
  <2> DEFINE n == IF tool /\ achat[a].captured < CaptureTokens THEN achat[a].captured + 1 ELSE achat[a].captured
             m == achat[a].truncated \/ (tool /\ achat[a].captured = CaptureTokens)
  <2>1. z = [res |-> achat[a].res, captured |-> n, truncated |-> m]
    BY <1>1 DEF AStreamRead, AgentInv, AgentType
  <2>2. n \in Nat /\ achat[a].res \in [has : BOOLEAN, state : ConvStates, tokens : Nat]
    BY <1>1
  <2>3. m \in BOOLEAN
    OBVIOUS
  <2> HIDE DEF n, m, z
  <2> QED
    BY <2>1, <2>2, <2>3
<1>14. /\ tool /\ achat[a].captured < CaptureTokens => z.captured = achat[a].captured + 1
       /\ achat[a].captured = CaptureTokens => z.captured = achat[a].captured
  BY <1>9, <1>1, AgentAssumption
<1>15. achat[a].truncated \/ (tool /\ achat[a].captured = CaptureTokens) => z.truncated
  BY <1>9
<1>11. /\ aconv[a].ring \in Nat /\ ghost[a].read \in Nat /\ ghost[a].made \in Nat /\ ghost[a].base \in Nat
       /\ achat[a].captured \in Nat /\ CaptureTokens \in Nat
  BY <1>1, AgentAssumption
<1> HIDE DEF x, y, z
<1>12. /\ x.state # "none" /\ x.state = y.state /\ x.made = y.made /\ x.ring + y.read = y.made
       /\ ghost[a].read <= y.read
  BY <1>3, <1>4, <1>6, <1>7, <1>8, <1>11
<1>13. ASSUME tool
       PROVE  /\ z.captured <= CaptureTokens
              /\ \/ z.captured + y.base = y.read
                 \/ z.truncated /\ z.captured + y.base < y.read
  <2>1. CASE achat[a].captured < CaptureTokens
    BY <1>4, <1>8, <1>11, <1>13, <1>14, <1>15, <2>1
  <2>2. CASE achat[a].captured = CaptureTokens
    <3>1. z.captured = CaptureTokens /\ z.truncated
      BY <1>13, <1>14, <1>15, <2>2
    <3>2. z.captured + ghost[a].base <= ghost[a].read
      BY <1>8, <1>11, <1>13, <2>2, <3>1
    <3> QED
      BY <1>4, <1>11, <3>1, <3>2
  <2> QED
    BY <1>8, <1>11, <1>13, <2>1, <2>2
<1> QED
  BY <1>k, <1>2, <1>3, <1>4, <1>5, <1>6, <1>9, <1>10, <1>12, <1>13, TokenStep

\* Every step of the control thread, the executor and the reader preserves it.
LEMMA AgentInvNext ==
  ASSUME AgentInv, OneControlThread, [ASNext]_asVars
  PROVE  AgentInv'
<1>1. CASE UNCHANGED asVars
  <2>1. AgentType'
    BY <1>1 DEF asVars, AgentInv, AgentType
  <2>2. \A a \in Agents : ChatInv(a)'
    BY <1>1, OthersKept DEF asVars
  <2>3. \A t \in Threads : EnqueueInv(t)'
    BY <1>1 DEF asVars, AgentInv, EnqueueInv
  <2>4. SlotsApart'
    BY <1>1 DEF asVars, AgentInv, SlotsApart
  <2> QED
    BY <2>1, <2>2, <2>3, <2>4 DEF AgentInv
<1>2. ASSUME NEW a \in Agents, ACreate(a) \/ ADestroy(a) \/ AReleaseSlot(a) \/ EnqueueBegin(a) \/ Streams(a) \/ AStreamRead(a)
      PROVE  AgentInv'
  BY <1>2, CreateStep, DestroyStep, ReleaseSlotStep, EnqueueBeginStep, StreamsStep, AStreamReadStep
<1>3. ASSUME NEW a \in Agents, NEW how \in {"completed", "canceled", "failed"}, Ends(a, how)
      PROVE  AgentInv'
  BY <1>3, EndsStep
<1>4. ASSUME NEW t \in Threads, CreateConv(t) \/ PickReclaim(t) \/ ReleaseReclaim(t) \/ EnqueueBusy(t)
                                \/ ResetConv(t) \/ FeedConv(t) \/ DecodeConv(t)
      PROVE  AgentInv'
  BY <1>4, CreateConvStep, PickReclaimStep, ReleaseReclaimStep, EnqueueBusyStep, ResetConvStep, FeedConvStep, DecodeConvStep
<1> QED
  BY <1>1, <1>2, <1>3, <1>4 DEF ASNext

\* Inside a list of agents the history of each is that of its chat.
LEMMA ChatKeptFromInv == AgentInv => ChatKept
<1> SUFFICES ASSUME AgentInv PROVE ChatKept
  OBVIOUS
<1>1. ConvKept
  BY DEF ConvKept, AgentInv, EnqueueInv
<1>2. ASSUME NEW a \in Range(alist)
      PROVE  /\ ResultOf(a) = [state |-> ghost[a].state, made |-> ghost[a].made]
             /\ aconv[a].ring = ghost[a].made - ghost[a].read
             /\ a \in ToolUsers => \/ achat[a].captured = ghost[a].read - ghost[a].base
                                   \/ achat[a].truncated /\ achat[a].captured < ghost[a].read - ghost[a].base
  <2>1. a \in Agents
    BY RangeOfList DEF AgentInv
  <2>2. ChatInv(a)
    BY <2>1 DEF AgentInv
  <2>3. /\ aconv[a].ring \in Nat /\ achat[a].captured \in Nat
        /\ ghost[a].made \in Nat /\ ghost[a].read \in Nat /\ ghost[a].base \in Nat
    BY <2>1 DEF AgentInv, AgentType
  <2>4. aconv[a].ring = ghost[a].made - ghost[a].read
    BY <2>2, <2>3 DEF ChatInv
  <2>5. a \in ToolUsers => \/ achat[a].captured = ghost[a].read - ghost[a].base
                           \/ achat[a].truncated /\ achat[a].captured < ghost[a].read - ghost[a].base
    BY <2>2, <2>3 DEF ChatInv
  <2> QED
    BY <2>2, <2>4, <2>5 DEF ChatInv
<1>3. \A a, b \in Agents : a # b /\ aconv[a].slot # 0 => aconv[a].slot # aconv[b].slot
  BY DEF AgentInv, SlotsApart
<1>4. cursor # NoAgent => cursor \in Range(alist)
  BY DEF AgentInv, AgentType
<1> QED
  BY <1>1, <1>2, <1>3, <1>4 DEF ChatKept

\* Whatever the executor streams in between, one control thread loses no chat:
\* no enqueue finds its conversation gone, results outlive their slots, and
\* nothing is lost unread (agent_chat_enqueue, reclaim_completed_agent_slot,
\* agent_release_slot, agent_chat_result).
THEOREM ChatCorrect == OneControlThread => (ASSpec => []ChatKept)
<1> SUFFICES ASSUME OneControlThread
             PROVE  ASSpec => []ChatKept
  OBVIOUS
<1>1. ASInit => AgentInv
  BY AgentInvInit
<1>2. AgentInv /\ [ASNext]_asVars => AgentInv'
  BY AgentInvNext
<1>3. AgentInv => ChatKept
  BY ChatKeptFromInv
<1> QED
  BY <1>1, <1>2, <1>3, PTL DEF ASSpec

-----------------------------------------------------------------------------
(* ObjectGraph *)

Links == Objects \cup {NoObject}
GraphRecords ==
  [mem : {"none", "live", "freed"}, reg : BOOLEAN, refs : Nat, owned : BOOLEAN, model : Links,
   toolset : Links, adapters : Seq(Objects), conv : Links]
Graphs    == [Objects -> GraphRecords]
RefTables == [Objects -> SUBSET References]

Live(g, o) == g[o].mem = "live"

\* Which objects a live object refers to, by its kind; a model, a toolset and
\* what holds no reference refer to nothing.
LinksAt(g, o) ==
  Live(g, o) =>
    /\ IF KindOf[o] \in {"adapter", "session", "conv", "embedder", "agent"}
       THEN g[o].model \in OfKind("model") ELSE g[o].model = NoObject
    /\ g[o].toolset \in OfKind("toolset") \cup {NoObject}
    /\ KindOf[o] \notin {"session", "conv", "agent"} => g[o].toolset = NoObject
    /\ g[o].adapters \in Seq(OfKind("adapter")) /\ Len(g[o].adapters) <= MaxAdapters
    /\ KindOf[o] # "session" => g[o].adapters = <<>>
    /\ KindOf[o] # "agent" => g[o].conv = NoObject

\* The table of references R accounts for the counts of the graph.
Balanced(g, R) ==
  /\ g \in Graphs /\ R \in RefTables
  /\ \A o \in Objects : R[o] # {} => KindOf[o] \in Shared /\ Live(g, o)
  /\ \A o \in Objects : KindOf[o] \in Shared /\ Live(g, o) =>
       /\ g[o].reg /\ g[o].refs = Cardinality(R[o])
       /\ KindOf[o] # "model" => R[o] # {}
  /\ \A a \in OfKind("adapter") : Live(g, a) =>
       /\ g[a].model \in OfKind("model") /\ <<a, "model", 0>> \in R[g[a].model]
       /\ \A o \in Objects : \A r \in R[o] : r[1] = a /\ r[2] = "model" => o = g[a].model /\ r[3] = 0

\* A handle is there as long as its object; what is not made yet is fresh.
RegisteredAt(g, o) ==
  /\ g[o].mem = "none" => g[o] = Fresh
  /\ Live(g, o) <=> g[o].reg
  /\ g[o].owned => Live(g, o)

\* An agent's model is one that its caller owns, its conversation nobody's else.
AgentAt(g, a) ==
  KindOf[a] = "agent" /\ Live(g, a) =>
    /\ Live(g, g[a].model) /\ g[g[a].model].owned
    /\ g[a].conv # NoObject =>
         /\ g[a].conv \in OfKind("conv") /\ Live(g, g[a].conv) /\ ~g[g[a].conv].owned
         /\ \A b \in OfKind("agent") : Live(g, b) /\ g[b].conv = g[a].conv => b = a

SoundAt(g, o) == LinksAt(g, o) /\ RegisteredAt(g, o) /\ AgentAt(g, o)
Sound(g) == \A o \in Objects : SoundAt(g, o)

AllReferences(g, lost) == [o \in Objects |-> ReferencesTo(g, lost, o)]

InOrder(g, lost) ==
  /\ lost \subseteq OfKind("model")
  /\ Sound(g)
  /\ Balanced(g, AllReferences(g, lost))

GraphInv == InOrder(obj, leaked)


-----------------------------------------------------------------------------
(* References and their number *)

LEMMA GraphConstants ==
  /\ \A o \in Objects : KindOf[o] \in {"model", "adapter", "toolset", "session", "conv", "agent",
                                      "embedder", "index", "cursor", "view"}
  /\ IsFiniteSet(Objects) /\ NoObject \notin Objects /\ MaxAdapters \in Nat
BY GraphAssumption

LEMMA FiniteReferences == IsFiniteSet(References)
<1> DEFINE F == {"toolset", "model", "adapters", "caller", "leak"}
           P == Objects \X (F \X (0 .. MaxAdapters))
           f == [p \in P |-> <<p[1], p[2][1], p[2][2]>>]
<1>1. IsFiniteSet(F)
  <2>1. IsFiniteSet({"toolset"}) /\ IsFiniteSet({"model"}) /\ IsFiniteSet({"adapters"})
        /\ IsFiniteSet({"caller"}) /\ IsFiniteSet({"leak"})
    BY FS_Singleton
  <2>2. IsFiniteSet({"toolset"} \cup {"model"})
    BY <2>1, FS_Union
  <2>3. IsFiniteSet(({"toolset"} \cup {"model"}) \cup {"adapters"})
    BY <2>1, <2>2, FS_Union
  <2>4. IsFiniteSet((({"toolset"} \cup {"model"}) \cup {"adapters"}) \cup {"caller"})
    BY <2>1, <2>3, FS_Union
  <2>5. IsFiniteSet(((({"toolset"} \cup {"model"}) \cup {"adapters"}) \cup {"caller"}) \cup {"leak"})
    BY <2>1, <2>4, FS_Union
  <2>6. F = ((({"toolset"} \cup {"model"}) \cup {"adapters"}) \cup {"caller"}) \cup {"leak"}
    OBVIOUS
  <2> QED
    BY <2>5, <2>6
<1>2. IsFiniteSet(0 .. MaxAdapters)
  BY GraphConstants, FS_Interval
<1>3. IsFiniteSet(F \X (0 .. MaxAdapters))
  BY <1>1, <1>2, FS_Product
<1>4. IsFiniteSet(P)
  BY <1>3, GraphConstants, FS_Product
<1>5. f \in Surjection(P, References)
  <2>1. f \in [P -> References]
    BY DEF References
  <2>2. ASSUME NEW r \in References PROVE \E p \in P : f[p] = r
    <3>1. <<r[1], <<r[2], r[3]>>>> \in P /\ r = <<r[1], r[2], r[3]>>
      BY DEF References
    <3>2. f[<<r[1], <<r[2], r[3]>>>>] = r
      BY <3>1
    <3> QED
      BY <3>1, <3>2
  <2> QED
    BY <2>1, <2>2 DEF Surjection
<1> QED
  BY <1>4, <1>5, FS_Surjection

\* A reference is its three parts.
LEMMA ReferenceParts ==
  ASSUME NEW r \in References
  PROVE  r[1] \in Objects /\ r[3] \in Nat /\ r = <<r[1], r[2], r[3]>>
BY GraphConstants DEF References

LEMMA ReferenceForm ==
  ASSUME NEW h \in Objects
  PROVE  /\ <<h, "toolset", 0>> \in References /\ <<h, "model", 0>> \in References
         /\ <<h, "caller", 0>> \in References /\ <<h, "leak", 0>> \in References
         /\ \A i \in 0 .. MaxAdapters : <<h, "adapters", i>> \in References
BY GraphConstants DEF References

\* One reference more, one reference less.
LEMMA RefCountFacts ==
  ASSUME NEW T \in SUBSET References
  PROVE  /\ IsFiniteSet(T) /\ Cardinality(T) \in Nat /\ (Cardinality(T) = 0 <=> T = {})
         /\ \A r \in References \ T : Cardinality(T \cup {r}) = Cardinality(T) + 1
         /\ \A r \in T : Cardinality(T \ {r}) = Cardinality(T) - 1
         /\ \A r \in T : Cardinality(T) = 1 <=> T \ {r} = {}
<1>1. IsFiniteSet(T)
  BY FiniteReferences, FS_Subset
<1>2. Cardinality(T) \in Nat /\ (Cardinality(T) = 0 <=> T = {})
  BY <1>1, FS_CardinalityType, FS_EmptySet
<1>3. \A r \in References \ T : Cardinality(T \cup {r}) = Cardinality(T) + 1
  BY <1>1, FS_AddElement
<1>4. \A r \in T : Cardinality(T \ {r}) = Cardinality(T) - 1
  BY <1>1, FS_RemoveElement
<1>5. ASSUME NEW r \in T
      PROVE  Cardinality(T) = 1 <=> T \ {r} = {}
  <2>1. Cardinality(T \ {r}) = Cardinality(T) - 1
    BY <1>4
  <2>2. IsFiniteSet(T \ {r})
    BY <1>1, FS_Subset
  <2>3. Cardinality(T \ {r}) = 0 <=> T \ {r} = {}
    BY <2>2, FS_EmptySet
  <2> QED
    BY <1>2, <2>1, <2>3
<1> QED
  BY <1>1, <1>2, <1>3, <1>4, <1>5

-----------------------------------------------------------------------------
(* Dropping one reference *)

\* model_release and toolset_release
DropCount(g, t) ==
  LET down == [g EXCEPT ![t].refs = @ - 1]
  IN  IF g[t].refs = 1 THEN Forget(down, t) ELSE down

Without(R, t, r) == [R EXCEPT ![t] = @ \ {r}]

\* The reference of an adapter that is gone to its model.
Lost(g, d, r) == r[2] = "model" /\ KindOf[r[1]] = "adapter" /\ Live(g, r[1]) /\ ~Live(d, r[1])

\* From graph g to graph d object p keeps its links and is at most given up.
Stays(g, d, p) ==
  /\ d[p].model = g[p].model /\ d[p].toolset = g[p].toolset /\ d[p].adapters = g[p].adapters
  /\ d[p].conv = g[p].conv /\ d[p].owned = g[p].owned
  /\ \/ d[p].mem = g[p].mem /\ d[p].reg = g[p].reg
     \/ Live(g, p) /\ d[p].mem = "freed" /\ ~d[p].reg
  /\ KindOf[p] \notin Shared \/ ~Live(g, p) => d[p] = g[p]

\* Graph d is g, apart from the objects X, after the references Gone were dropped
\* and what had no reference left was given up.
Sheds(g, R, d, S, Gone, X) ==
  /\ Balanced(d, S)
  /\ \A p \in Objects \ X : Stays(g, d, p)
  /\ \A o \in Objects, r \in References :
       r \in S[o] <=> r \in R[o] /\ <<o, r>> \notin Gone /\ ~Lost(g, d, r)

LEMMA DropIs ==
  ASSUME NEW g, NEW t
  PROVE  /\ DropModel(g, t) = DropCount(g, t)
         /\ t # NoObject => DropToolset(g, t) = DropCount(g, t)
BY DEF DropModel, DropToolset, DropCount

\* A record of a graph with another count; an object given up.
LEMMA RecordFacts ==
  ASSUME NEW x \in GraphRecords, NEW n \in Nat
  PROVE  LET y == [x EXCEPT !.refs = n]
             z == [y EXCEPT !.reg = FALSE, !.mem = "freed"]
         IN  /\ y \in GraphRecords /\ z \in GraphRecords
             /\ y.mem = x.mem /\ y.reg = x.reg /\ y.refs = n /\ y.owned = x.owned /\ y.model = x.model
             /\ y.toolset = x.toolset /\ y.adapters = x.adapters /\ y.conv = x.conv
             /\ z.mem = "freed" /\ z.reg = FALSE /\ z.owned = x.owned /\ z.model = x.model
             /\ z.toolset = x.toolset /\ z.adapters = x.adapters /\ z.conv = x.conv
BY DEF GraphRecords

\* The graph with another record for one object.
Put(g, t, x) == [g EXCEPT ![t] = x]

LEMMA GraphPut ==
  ASSUME NEW g \in Graphs, NEW t \in Objects, NEW x \in GraphRecords
  PROVE  /\ Put(g, t, x) \in Graphs /\ Put(g, t, x)[t] = x
         /\ \A p \in Objects : p # t => Put(g, t, x)[p] = g[p]
BY DEF Graphs, Put

LEMMA DropCountFacts ==
  ASSUME NEW g \in Graphs, NEW t \in Objects, g[t].refs > 0
  PROVE  /\ DropCount(g, t) \in Graphs
         /\ \A p \in Objects : p # t => DropCount(g, t)[p] = g[p]
         /\ DropCount(g, t)[t].model = g[t].model /\ DropCount(g, t)[t].toolset = g[t].toolset
         /\ DropCount(g, t)[t].adapters = g[t].adapters /\ DropCount(g, t)[t].conv = g[t].conv
         /\ DropCount(g, t)[t].owned = g[t].owned
         /\ g[t].refs = 1 => DropCount(g, t)[t].mem = "freed" /\ DropCount(g, t)[t].reg = FALSE
         /\ g[t].refs # 1 => /\ DropCount(g, t)[t].mem = g[t].mem /\ DropCount(g, t)[t].reg = g[t].reg
                             /\ DropCount(g, t)[t].refs = g[t].refs - 1
<1> DEFINE y == [g[t] EXCEPT !.refs = g[t].refs - 1]
           z == [y EXCEPT !.reg = FALSE, !.mem = "freed"]
           down == [g EXCEPT ![t] = y]
<1>1. g[t] \in GraphRecords /\ g[t].refs \in Nat /\ g[t].refs - 1 \in Nat
  BY DEF Graphs, GraphRecords
<1>2. /\ y \in GraphRecords /\ z \in GraphRecords
      /\ y.mem = g[t].mem /\ y.reg = g[t].reg /\ y.refs = g[t].refs - 1 /\ y.owned = g[t].owned /\ y.model = g[t].model
      /\ y.toolset = g[t].toolset /\ y.adapters = g[t].adapters /\ y.conv = g[t].conv
      /\ z.mem = "freed" /\ z.reg = FALSE /\ z.owned = g[t].owned /\ z.model = g[t].model
      /\ z.toolset = g[t].toolset /\ z.adapters = g[t].adapters /\ z.conv = g[t].conv
  BY <1>1, RecordFacts
<1>3. down \in Graphs /\ down[t] = y /\ \A p \in Objects : p # t => down[p] = g[p]
  BY <1>2, GraphPut DEF Put
<1>4. Forget(down, t) = Put(down, t, z)
  BY <1>3 DEF Forget, Graphs, Put
<1> HIDE DEF y, z, down
<1>5. /\ Forget(down, t) \in Graphs /\ Forget(down, t)[t] = z
      /\ \A p \in Objects : p # t => Forget(down, t)[p] = down[p]
  BY <1>2, <1>3, <1>4, GraphPut
<1>6. DropCount(g, t) = IF g[t].refs = 1 THEN Forget(down, t) ELSE down
  BY DEF DropCount, down, y
<1> QED
  BY <1>2, <1>3, <1>5, <1>6

\* Graph d is g with one reference less to t, and t given up if that was the last.
CountsDown(g, R, d, S, t, r) ==
  /\ Balanced(d, S)
  /\ \A p \in Objects : Stays(g, d, p)
  /\ \A p \in Objects : p # t => d[p] = g[p]
  /\ \A o \in Objects : S[o] = IF o = t THEN R[t] \ {r} ELSE R[o]
  /\ Live(d, t) <=> R[t] # {r}

LEMMA DropCountStep ==
  ASSUME NEW g, NEW R, Balanced(g, R), NEW t \in Objects, NEW r \in R[t],
         ~(r[2] = "model" /\ KindOf[r[1]] = "adapter" /\ Live(g, r[1]))
  PROVE  CountsDown(g, R, DropCount(g, t), Without(R, t, r), t, r)
<1> DEFINE d == DropCount(g, t)
           S == Without(R, t, r)
<1>1. /\ g \in Graphs /\ R \in RefTables /\ g[t] \in GraphRecords /\ Live(g, t) /\ g[t].reg
      /\ R[t] \in SUBSET References /\ r \in References
  BY DEF Balanced, Graphs, RefTables
<1>2. g[t].refs = Cardinality(R[t]) /\ KindOf[t] \in Shared
  BY <1>1 DEF Balanced, Shared
<1>3. /\ Cardinality(R[t]) \in Nat \ {0} /\ Cardinality(R[t] \ {r}) = Cardinality(R[t]) - 1
      /\ (Cardinality(R[t]) = 1 <=> R[t] \ {r} = {})
  BY <1>1, RefCountFacts
<1>4. /\ S \in RefTables /\ S[t] = R[t] \ {r}
      /\ \A o \in Objects : o # t => S[o] = R[o]
  BY <1>1 DEF RefTables, Without
<1>5. /\ d \in Graphs /\ \A p \in Objects : p # t => d[p] = g[p]
      /\ d[t].model = g[t].model /\ d[t].toolset = g[t].toolset /\ d[t].adapters = g[t].adapters
      /\ d[t].conv = g[t].conv /\ d[t].owned = g[t].owned
      /\ g[t].refs = 1 => d[t].mem = "freed" /\ d[t].reg = FALSE
      /\ g[t].refs # 1 => d[t].mem = g[t].mem /\ d[t].reg = g[t].reg /\ d[t].refs = g[t].refs - 1
  <2>1. g[t].refs > 0
    BY <1>2, <1>3
  <2> QED
    BY <1>1, <2>1, DropCountFacts
<1> HIDE DEF d, S
<1>7. IF g[t].refs = 1 THEN d[t].mem = "freed" /\ ~d[t].reg /\ S[t] = {}
      ELSE d[t].mem = "live" /\ d[t].reg /\ d[t].refs = Cardinality(S[t]) /\ S[t] # {}
  BY <1>1, <1>2, <1>3, <1>4, <1>5 DEF Live
<1>8. \A p \in Objects : Stays(g, d, p)
  <2> SUFFICES ASSUME NEW p \in Objects PROVE Stays(g, d, p)
    OBVIOUS
  <2>1. CASE p = t
    BY <2>1, <1>1, <1>2, <1>5, <1>7 DEF Stays, Live
  <2>2. CASE p # t
    BY <2>2, <1>5 DEF Stays
  <2> QED
    BY <2>1, <2>2
<1>9. Balanced(d, S)
  <2>1. \A o \in Objects : S[o] # {} => KindOf[o] \in Shared /\ Live(d, o)
    BY <1>4, <1>5, <1>7, <1>2 DEF Balanced, Live
  <2>2. ASSUME NEW o \in Objects, KindOf[o] \in Shared, Live(d, o)
        PROVE  d[o].reg /\ d[o].refs = Cardinality(S[o]) /\ (KindOf[o] # "model" => S[o] # {})
    <3>1. CASE o = t
      BY <3>1, <1>7, <2>2 DEF Live
    <3>2. CASE o # t
      BY <3>2, <1>4, <1>5, <2>2 DEF Balanced, Live
    <3> QED
      BY <3>1, <3>2
  <2>3. ASSUME NEW a \in OfKind("adapter"), Live(d, a)
        PROVE  /\ d[a].model \in OfKind("model") /\ <<a, "model", 0>> \in S[d[a].model]
               /\ \A o \in Objects : \A q \in S[o] : q[1] = a /\ q[2] = "model" => o = d[a].model /\ q[3] = 0
    <3>1. a \in Objects /\ KindOf[a] = "adapter" /\ d[a].model = g[a].model /\ Live(g, a)
      BY <1>1, <1>5, <1>7, <2>3 DEF OfKind, Live
    <3>2. /\ g[a].model \in OfKind("model") /\ <<a, "model", 0>> \in R[g[a].model]
          /\ \A o \in Objects : \A q \in R[o] : q[1] = a /\ q[2] = "model" => o = g[a].model /\ q[3] = 0
      BY <3>1 DEF Balanced
    <3>3. r # <<a, "model", 0>>
      BY <3>1, ReferenceForm
    <3> QED
      BY <3>1, <3>2, <3>3, <1>4 DEF OfKind
  <2> QED
    BY <1>4, <1>5, <2>1, <2>2, <2>3 DEF Balanced
<1> QED
  <2>1. Live(d, t) <=> R[t] # {r}
    BY <1>1, <1>3, <1>4, <1>5, <1>7 DEF Live
  <2>2. CountsDown(g, R, d, S, t, r)
    BY <2>1, <1>4, <1>5, <1>8, <1>9 DEF CountsDown
  <2> QED
    BY <2>2 DEF d, S

\* *_release of any kind
Drop(g, t) == IF KindOf[t] = "adapter" THEN DropAdapter(g, t) ELSE DropCount(g, t)

LEMMA DropAdapterIs ==
  ASSUME NEW g, NEW t
  PROVE  DropAdapter(g, t) = IF g[t].refs = 1 THEN DropCount(DropCount(g, t), g[t].model) ELSE DropCount(g, t)
BY DropIs DEF DropAdapter, DropCount

LEMMA DropStep ==
  ASSUME NEW g, NEW R, Balanced(g, R), NEW t \in Objects, NEW r \in R[t],
         ~(r[2] = "model" /\ KindOf[r[1]] = "adapter")
  PROVE  \E S \in RefTables : Sheds(g, R, Drop(g, t), S, {<<t, r>>}, {})
<1> DEFINE d == DropCount(g, t)
           S == Without(R, t, r)
<1>0. ~(r[2] = "model" /\ KindOf[r[1]] = "adapter" /\ Live(g, r[1])) /\ CountsDown(g, R, d, S, t, r)
  BY DropCountStep
<1> HIDE DEF d, S
<1>1. /\ Balanced(d, S) /\ \A p \in Objects : Stays(g, d, p)
      /\ \A o \in Objects : S[o] = IF o = t THEN R[t] \ {r} ELSE R[o]
      /\ Live(d, t) <=> R[t] # {r}
  BY <1>0 DEF CountsDown
<1>2. /\ g \in Graphs /\ R \in RefTables /\ g[t] \in GraphRecords /\ Live(g, t) /\ g[t].reg
      /\ R[t] \in SUBSET References /\ r \in References /\ S \in RefTables
      /\ g[t].refs = Cardinality(R[t]) /\ KindOf[t] \in Shared
  BY <1>1 DEF Balanced, Graphs, RefTables
<1>3. Cardinality(R[t]) = 1 <=> R[t] = {r}
  <2>1. Cardinality(R[t]) = 1 <=> R[t] \ {r} = {}
    BY <1>2, RefCountFacts
  <2> QED
    BY <2>1
<1>4. \A p \in Objects : p # t => d[p] = g[p]
  BY <1>0 DEF CountsDown
<1>5. CASE KindOf[t] # "adapter" \/ g[t].refs # 1
  <2>1. Drop(g, t) = d
    BY <1>5, DropAdapterIs DEF Drop, d
  <2>2. ASSUME NEW o \in Objects, NEW q \in References
        PROVE  q \in S[o] <=> q \in R[o] /\ <<o, q>> \notin {<<t, r>>} /\ ~Lost(g, d, q)
    <3>1. ~Lost(g, d, q)
      BY <1>1, <1>2, <1>3, <1>4, <1>5, ReferenceParts DEF Lost, Live
    <3> QED
      BY <3>1, <1>1
  <2>3. Sheds(g, R, d, S, {<<t, r>>}, {})
    BY <1>1, <2>2 DEF Sheds
  <2> QED
    BY <1>2, <2>1, <2>3
<1>6. CASE KindOf[t] = "adapter" /\ g[t].refs = 1
  <2> DEFINE m == g[t].model
             k == <<t, "model", 0>>
             e == DropCount(d, m)
             T == Without(S, m, k)
  <2>1. Drop(g, t) = e
    BY <1>6, DropAdapterIs DEF Drop, d
  <2>2. /\ m \in Objects /\ KindOf[m] = "model" /\ k \in R[m] /\ k \in References
        /\ \A o \in Objects : \A q \in R[o] : q[1] = t /\ q[2] = "model" => o = m /\ q[3] = 0
    <3>1. t \in OfKind("adapter")
      BY <1>6 DEF OfKind
    <3>2. m \in OfKind("model") /\ k \in R[m]
          /\ \A o \in Objects : \A q \in R[o] : q[1] = t /\ q[2] = "model" => o = m /\ q[3] = 0
      BY <1>2, <3>1 DEF Balanced
    <3>3. k \in References
      BY ReferenceForm
    <3> QED
      BY <3>2, <3>3 DEF OfKind
  <2>3. m # t /\ k \in S[m] /\ k[1] = t /\ k[2] = "model" /\ k[3] = 0
    BY <1>1, <1>6, <2>2
  <2>4. ~Live(d, t)
    BY <1>1, <1>2, <1>3, <1>6
  <2> HIDE DEF m, k
  <2>5. CountsDown(d, S, e, T, m, k)
    <3>1. Balanced(d, S) /\ m \in Objects /\ k \in S[m]
      BY <1>1, <2>2, <2>3
    <3>2. ~(k[2] = "model" /\ KindOf[k[1]] = "adapter" /\ Live(d, k[1]))
      BY <2>3, <2>4
    <3> QED
      BY <3>1, <3>2, DropCountStep
  <2> HIDE DEF e, T
  <2>6. /\ Balanced(e, T) /\ \A p \in Objects : Stays(d, e, p)
        /\ \A o \in Objects : T[o] = IF o = m THEN S[m] \ {k} ELSE S[o]
        /\ \A p \in Objects : p # m => e[p] = d[p]
    BY <2>5 DEF CountsDown
  <2>7. T \in RefTables
    BY <2>6 DEF Balanced
  <2>8. \A p \in Objects : Stays(g, e, p)
    BY <1>1, <2>6 DEF Stays, Live
  <2>9. ASSUME NEW o \in Objects, NEW q \in References
        PROVE  q \in T[o] <=> q \in R[o] /\ <<o, q>> \notin {<<t, r>>} /\ ~Lost(g, e, q)
    <3>1. Lost(g, e, q) <=> q[2] = "model" /\ q[1] = t
      BY <1>2, <1>4, <1>6, <2>2, <2>4, <2>6, ReferenceParts DEF Lost, Live
    <3>2. q[2] = "model" /\ q[1] = t /\ q \in R[o] => o = m /\ q = k
      BY <2>2, ReferenceParts DEF k
    <3> QED
      BY <1>1, <2>3, <2>6, <3>1, <3>2
  <2>10. Sheds(g, R, e, T, {<<t, r>>}, {})
    BY <2>6, <2>8, <2>9 DEF Sheds
  <2> QED
    BY <2>1, <2>7, <2>10
<1> QED
  BY <1>5, <1>6

\* Dropping one after the other.
LEMMA ShedsTwice ==
  ASSUME NEW g, NEW R, NEW d, NEW S, NEW G, NEW X \in SUBSET Objects, \A s \in X : KindOf[s] \notin Shared,
         Sheds(g, R, d, S, G, X),
         NEW e, NEW T, NEW H, Sheds(d, S, e, T, H, {})
  PROVE  Sheds(g, R, e, T, G \cup H, X) /\ (\A s \in X : e[s] = d[s])
<1>1. \A p \in Objects : Stays(d, e, p)
  BY DEF Sheds
<1>2. \A p \in Objects \ X : Stays(g, e, p)
  BY <1>1 DEF Sheds, Stays, Live
<1>3. \A s \in X : e[s] = d[s]
  BY <1>1 DEF Stays
<1>4. ASSUME NEW o \in Objects, NEW r \in References
      PROVE  r \in T[o] <=> r \in R[o] /\ <<o, r>> \notin G \cup H /\ ~Lost(g, e, r)
  <2>1. Lost(g, e, r) <=> Lost(g, d, r) \/ Lost(d, e, r)
    <3>1. r[1] \in Objects
      BY ReferenceParts
    <3>2. CASE r[1] \in X
      BY <3>1, <3>2 DEF Lost, Shared
    <3>3. CASE r[1] \notin X
      <4>1. Stays(g, d, r[1]) /\ Stays(d, e, r[1])
        BY <3>1, <3>3, <1>1 DEF Sheds
      <4> QED
        BY <4>1 DEF Stays, Lost, Live
    <3> QED
      BY <3>2, <3>3
  <2> QED
    BY <2>1 DEF Sheds
<1> QED
  BY <1>2, <1>3, <1>4 DEF Sheds

\* What an object without a count keeps is its own affair.
LEMMA BalancedPut ==
  ASSUME NEW g, NEW R, Balanced(g, R), NEW s \in Objects, KindOf[s] \notin Shared, NEW x \in GraphRecords
  PROVE  Balanced(Put(g, s, x), R)
<1> DEFINE h == Put(g, s, x)
<1>1. h \in Graphs /\ \A p \in Objects : p # s => h[p] = g[p]
  BY GraphPut DEF Balanced
<1> HIDE DEF h
<1>2. \A p \in Objects : KindOf[p] \in Shared => h[p] = g[p]
  BY <1>1
<1>3. \A a \in OfKind("adapter") : a \in Objects /\ h[a] = g[a]
  BY <1>2 DEF OfKind, Shared
<1> QED
  BY <1>1, <1>2, <1>3 DEF Balanced, Live, h

LEMMA ShedsPut ==
  ASSUME NEW g, NEW R, NEW d, NEW S, NEW G, NEW X \in SUBSET Objects, NEW s \in X, KindOf[s] \notin Shared,
         Sheds(g, R, d, S, G, X), NEW x \in GraphRecords
  PROVE  Sheds(g, R, Put(d, s, x), S, G, X) /\ Put(d, s, x)[s] = x /\ \A p \in X \ {s} : Put(d, s, x)[p] = d[p]
<1> DEFINE e == Put(d, s, x)
<1>1. /\ e \in Graphs /\ e[s] = x /\ \A p \in Objects : p # s => e[p] = d[p]
      /\ Balanced(e, S)
  <2>1. Balanced(d, S)
    BY DEF Sheds
  <2>2. d \in Graphs
    BY <2>1 DEF Balanced
  <2>3. Balanced(e, S)
    BY <2>1, BalancedPut
  <2>4. e \in Graphs /\ e[s] = x /\ \A p \in Objects : p # s => e[p] = d[p]
    BY <2>2, GraphPut
  <2> QED
    BY <2>3, <2>4
<1> HIDE DEF e
<1>2. \A p \in Objects \ X : Stays(g, e, p)
  BY <1>1 DEF Sheds, Stays, Live
<1>3. \A r \in References : Lost(g, e, r) <=> Lost(g, d, r)
  BY <1>1, ReferenceParts DEF Lost, Live, Shared
<1>4. Sheds(g, R, e, S, G, X)
  BY <1>1, <1>2, <1>3 DEF Sheds
<1> QED
  BY <1>1, <1>4 DEF e

\* More objects may be left out of account.
LEMMA ShedsWide ==
  ASSUME NEW g, NEW R, NEW d, NEW S, NEW G, NEW X, NEW Y, X \subseteq Y, Sheds(g, R, d, S, G, X)
  PROVE  Sheds(g, R, d, S, G, Y)
BY DEF Sheds

-----------------------------------------------------------------------------
(* Dropping a list of adapters *)

\* A set of natural numbers has a least element.
LEMMA LeastNumber ==
  ASSUME NEW T \in SUBSET Nat, T # {}
  PROVE  \E x \in T : \A y \in T : x <= y
<1> DEFINE Below == OpToRel(<, Nat)
<1>1. PICK x \in T : \A y \in T : <<y, x>> \notin Below
  <2>1. IsWellFoundedOn(Below, Nat)
    BY NatLessThanWellFounded
  <2> HIDE DEF Below
  <2> QED
    BY <2>1, WFMin
<1>2. \A y \in T : x <= y
  <2> SUFFICES ASSUME NEW y \in T PROVE x <= y
    OBVIOUS
  <2>1. <<y, x>> \notin Below
    BY <1>1
  <2> QED
    BY <2>1 DEF OpToRel
<1> QED
  BY <1>2

\* The graphs of the first n turns, as a function of the turn.
TurnsOf(g, list, n, f) ==
  f = [i \in 0 .. n |-> IF i = 0 THEN g ELSE DropAdapter(f[i - 1], list[i])]

LEMMA TurnsExist ==
  ASSUME NEW g, NEW list, NEW n \in Nat
  PROVE  \E f : TurnsOf(g, list, n, f)
<1> DEFINE Bad == {k \in Nat : ~ \E f : TurnsOf(g, list, k, f)}
<1> SUFFICES ASSUME n \in Bad PROVE FALSE
  OBVIOUS
<1>1. PICK k \in Bad : \A j \in Bad : k <= j
  BY LeastNumber
<1>2. k \in Nat /\ ~ \E f : TurnsOf(g, list, k, f)
  OBVIOUS
<1> HIDE DEF Bad
<1>3. k # 0
  <2>1. TurnsOf(g, list, 0, [i \in 0 .. 0 |-> g])
    BY DEF TurnsOf
  <2> QED
    BY <1>2, <2>1
<1>4. PICK e : TurnsOf(g, list, k - 1, e)
  <2>1. k - 1 \in Nat /\ k - 1 \notin Bad
    BY <1>1, <1>2, <1>3
  <2> QED
    BY <2>1 DEF Bad
<1> DEFINE f == [i \in 0 .. k |-> IF i = k THEN DropAdapter(e[k - 1], list[k]) ELSE e[i]]
<1>5. \A i \in 0 .. k - 1 : e[i] = IF i = 0 THEN g ELSE DropAdapter(e[i - 1], list[i])
  BY <1>4 DEF TurnsOf
<1>6. ASSUME NEW i \in 0 .. k
      PROVE  f[i] = IF i = 0 THEN g ELSE DropAdapter(f[i - 1], list[i])
  <2>1. CASE i = k
    <3>1. f[k] = DropAdapter(e[k - 1], list[k]) /\ f[k - 1] = e[k - 1]
      BY <1>2, <1>3
    <3> QED
      BY <1>3, <2>1, <3>1
  <2>2. CASE i # k /\ i # 0
    <3>1. i \in 0 .. k - 1 /\ f[i] = e[i] /\ f[i - 1] = e[i - 1]
      BY <1>2, <2>2
    <3> QED
      BY <1>5, <2>2, <3>1
  <2>3. CASE i # k /\ i = 0
    <3>1. i \in 0 .. k - 1 /\ f[i] = e[i]
      BY <1>2, <2>3
    <3> QED
      BY <1>5, <2>3, <3>1
  <2> QED
    BY <2>1, <2>2, <2>3
<1>7. f = [i \in 0 .. k |-> f[i]]
  OBVIOUS
<1> HIDE DEF f
<1>8. TurnsOf(g, list, k, f)
  BY <1>6, <1>7 DEF TurnsOf
<1> QED
  BY <1>2, <1>8

LEMMA DropEachIs ==
  ASSUME NEW g, NEW list, Len(list) \in Nat
  PROVE  /\ DropEach(g, list)[0] = g
         /\ \A n \in 1 .. Len(list) : DropEach(g, list)[n] = DropAdapter(DropEach(g, list)[n - 1], list[n])
<1>1. DropEach(g, list) = CHOOSE f : TurnsOf(g, list, Len(list), f)
  BY DEF DropEach, TurnsOf
<1>2. TurnsOf(g, list, Len(list), DropEach(g, list))
  BY <1>1, TurnsExist
<1>3. \A i \in 0 .. Len(list) :
        DropEach(g, list)[i] = IF i = 0 THEN g ELSE DropAdapter(DropEach(g, list)[i - 1], list[i])
  BY <1>2 DEF TurnsOf
<1> QED
  BY <1>3

\* the reference of entry i of the adapters of s
Entry(s, i) == <<s, "adapters", i>>

LEMMA EntryForm ==
  ASSUME NEW s \in Objects, NEW list \in Seq(OfKind("adapter")), Len(list) <= MaxAdapters, NEW i \in DOMAIN list
  PROVE  /\ list[i] \in Objects /\ KindOf[list[i]] = "adapter" /\ i \in 0 .. MaxAdapters
         /\ Entry(s, i) \in References /\ Entry(s, i)[1] = s /\ Entry(s, i)[2] = "adapters" /\ Entry(s, i)[3] = i
<1>1. list[i] \in OfKind("adapter") /\ i \in 1 .. Len(list) /\ Len(list) \in Nat
  OBVIOUS
<1>2. i \in 0 .. MaxAdapters
  BY <1>1, GraphConstants
<1>3. Entry(s, i) \in References
  BY <1>2, ReferenceForm DEF Entry
<1> QED
  BY <1>1, <1>2, <1>3 DEF OfKind, Entry

LEMMA DropEachStep ==
  ASSUME NEW g, NEW R, Balanced(g, R), NEW s \in Objects, NEW list \in Seq(OfKind("adapter")),
         Len(list) <= MaxAdapters, \A i \in DOMAIN list : Entry(s, i) \in R[list[i]]
  PROVE  \E S \in RefTables :
           Sheds(g, R, DropEach(g, list)[Len(list)], S, {<<list[i], Entry(s, i)>> : i \in DOMAIN list}, {})
<1> DEFINE after == DropEach(g, list)
           G(n) == {<<list[i], Entry(s, i)>> : i \in 1 .. n}
           Reached(n) == \E S \in RefTables : Sheds(g, R, after[n], S, G(n), {})
           Bad == {n \in Nat : n <= Len(list) /\ ~Reached(n)}
<1>1. Len(list) \in Nat /\ DOMAIN list = 1 .. Len(list)
  OBVIOUS
<1>2. after[0] = g /\ \A n \in 1 .. Len(list) : after[n] = DropAdapter(after[n - 1], list[n])
  BY <1>1, DropEachIs
<1>3. Reached(0)
  <2>1. R \in RefTables
    BY DEF Balanced
  <2>2. \A p \in Objects : Stays(g, g, p)
    BY DEF Stays
  <2>3. G(0) = {}
    OBVIOUS
  <2>4. Sheds(g, R, g, R, G(0), {})
    BY <2>2, <2>3 DEF Sheds, Lost
  <2> QED
    BY <1>2, <2>1, <2>4
<1>4. ASSUME NEW n \in 1 .. Len(list), Reached(n - 1)
      PROVE  Reached(n)
  <2> DEFINE t == list[n]
             r == Entry(s, n)
  <2>1. t \in Objects /\ KindOf[t] = "adapter" /\ r \in R[t] /\ r \in References /\ r[2] = "adapters"
    BY <1>1, EntryForm
  <2>2. PICK S \in RefTables : Sheds(g, R, after[n - 1], S, G(n - 1), {})
    BY <1>4
  <2>3. after[n] = DropAdapter(after[n - 1], t)
    BY <1>2
  <2>4. <<t, r>> \notin G(n - 1)
    BY <1>1 DEF Entry
  <2> HIDE DEF after, t, r, G
  <2>5. r \in S[t] /\ Balanced(after[n - 1], S)
    BY <2>1, <2>2, <2>4 DEF Sheds, Lost
  <2>6. Drop(after[n - 1], t) = after[n]
    BY <2>1, <2>3 DEF Drop
  <2>7. PICK T \in RefTables : Sheds(after[n - 1], S, after[n], T, {<<t, r>>}, {})
    BY <2>1, <2>5, <2>6, DropStep
  <2>9. Sheds(g, R, after[n], T, G(n - 1) \cup {<<t, r>>}, {})
    BY <2>2, <2>7, ShedsTwice
  <2>10. G(n) = G(n - 1) \cup {<<t, r>>}
    <3>1. 1 .. n = 1 .. (n - 1) \cup {n}
      BY <1>1
    <3> QED
      BY <3>1 DEF G, t, r
  <2> QED
    BY <2>9, <2>10
<1> HIDE DEF after, G, Reached
<1>5. Bad = {}
  <2> SUFFICES ASSUME Bad # {} PROVE FALSE
    OBVIOUS
  <2>1. PICK n \in Bad : \A j \in Bad : n <= j
    BY LeastNumber
  <2>2. n \in Nat /\ n <= Len(list) /\ ~Reached(n) /\ n # 0
    BY <1>3
  <2>3. n - 1 \in Nat /\ n - 1 <= Len(list) /\ n - 1 \notin Bad
    BY <1>1, <2>1, <2>2
  <2>4. Reached(n - 1) /\ n \in 1 .. Len(list)
    BY <1>1, <2>2, <2>3
  <2> QED
    BY <1>4, <2>2, <2>4
<1>6. Reached(Len(list))
  BY <1>1, <1>5
<1> QED
  BY <1>1, <1>6 DEF Reached, after, G

-----------------------------------------------------------------------------
(* Destroying a session or a conversation *)

\* the references from the links of a live object
FromLinks(g, s) == {x \in Objects \X References : x[2][1] = s /\ RefersTo(g, {}, x[2], x[1])}

\* session_destroy, conv_destroy: what s held is given back, s is gone, and an
\* adapter that only s had attached takes its model reference along.
LEMMA DestroyRunnerStep ==
  ASSUME NEW g, NEW R, Balanced(g, R), NEW s \in Objects, KindOf[s] \in {"session", "conv"}, Live(g, s),
         LinksAt(g, s), \A x \in FromLinks(g, s) : x[2] \in R[x[1]]
  PROVE  /\ \E S \in RefTables : Sheds(g, R, DestroyRunner(g, s), S, FromLinks(g, s), {s})
         /\ DestroyRunner(g, s)[s] =
              [g[s] EXCEPT !.reg = FALSE, !.toolset = NoObject, !.adapters = <<>>, !.mem = "freed"]
<1> DEFINE t == g[s].toolset
           list == g[s].adapters
           m == g[s].model
           x1 == [g[s] EXCEPT !.reg = FALSE]
           x2 == [x1 EXCEPT !.toolset = NoObject]
           x3 == [x2 EXCEPT !.adapters = <<>>]
           x4 == [x3 EXCEPT !.mem = "freed"]
           out == [g EXCEPT ![s].reg = FALSE]
           dropped == DropToolset(out, t)
           tools == [dropped EXCEPT ![s].toolset = NoObject]
           cleared == DropEach(tools, list)[Len(list)]
           adapters == [cleared EXCEPT ![s].adapters = <<>>]
           down == DropModel(adapters, m)
           end == [down EXCEPT ![s].mem = "freed"]
           G1 == IF t = NoObject THEN {} ELSE {<<t, <<s, "toolset", 0>>>>}
           G2 == {<<list[i], Entry(s, i)>> : i \in DOMAIN list}
           G3 == {<<m, <<s, "model", 0>>>>}
<1>1. /\ g \in Graphs /\ R \in RefTables /\ g[s] \in GraphRecords /\ KindOf[s] \notin Shared
      /\ t \in Links /\ (t # NoObject => t \in Objects /\ KindOf[t] = "toolset")
      /\ m \in Objects /\ KindOf[m] = "model" /\ KindOf[s] # "agent"
      /\ list \in Seq(OfKind("adapter")) /\ Len(list) <= MaxAdapters
  BY DEF Balanced, Graphs, LinksAt, OfKind, Links, Shared
<1> DEFINE X == {s}
<1>0. X \in SUBSET Objects /\ s \in X /\ KindOf[s] \notin Shared /\ \A p \in X : KindOf[p] \notin Shared
  BY <1>1
<1> HIDE DEF X
<1>2. x1 \in GraphRecords /\ x2 \in GraphRecords /\ x3 \in GraphRecords /\ x4 \in GraphRecords
      /\ x2.toolset = NoObject /\ x2.adapters = list /\ x2.model = m /\ x3.model = m
  <2>1. x1 \in GraphRecords /\ x1.adapters = list /\ x1.model = m
    BY <1>1 DEF GraphRecords
  <2> HIDE DEF x1
  <2>2. x2 \in GraphRecords /\ x2.adapters = list /\ x2.model = m /\ x2.toolset = NoObject
    BY <2>1 DEF GraphRecords, Links
  <2> HIDE DEF x2
  <2>3. x3 \in GraphRecords /\ x3.model = m
    <3>1. <<>> \in Seq(Objects)
      OBVIOUS
    <3> QED
      BY <2>2, <3>1 DEF GraphRecords
  <2> HIDE DEF x3
  <2>4. x4 \in GraphRecords
    BY <2>3 DEF GraphRecords
  <2> QED
    BY <2>1, <2>2, <2>3, <2>4
<1>3. x4 = [g[s] EXCEPT !.reg = FALSE, !.toolset = NoObject, !.adapters = <<>>, !.mem = "freed"]
  OBVIOUS
<1>4. /\ t # NoObject => <<s, "toolset", 0>> \in R[t]
      /\ \A i \in DOMAIN list : Entry(s, i) \in R[list[i]]
      /\ <<s, "model", 0>> \in R[m]
  <2>1. ASSUME t # NoObject PROVE <<t, <<s, "toolset", 0>>>> \in FromLinks(g, s)
    BY <1>1, <2>1, ReferenceForm DEF FromLinks, RefersTo, Live
  <2>2. ASSUME NEW i \in DOMAIN list PROVE <<list[i], Entry(s, i)>> \in FromLinks(g, s)
    <3>1. list[i] \in Objects /\ i \in 0 .. MaxAdapters /\ Entry(s, i) \in References
      BY <1>1, <2>2, EntryForm
    <3> QED
      BY <3>1 DEF FromLinks, RefersTo, Live, Entry
  <2>3. <<m, <<s, "model", 0>>>> \in FromLinks(g, s)
    BY <1>1, ReferenceForm DEF FromLinks, RefersTo, Live
  <2> QED
    BY <2>1, <2>2, <2>3
<1>5. FromLinks(g, s) = (G1 \cup G2) \cup G3
  <2>1. ASSUME NEW o \in Objects, NEW r \in References
        PROVE  <<o, r>> \in FromLinks(g, s) <=> <<o, r>> \in (G1 \cup G2) \cup G3
    <3>1. r = <<r[1], r[2], r[3]>> /\ r[2] \in {"toolset", "model", "adapters", "caller", "leak"}
      BY ReferenceParts DEF References
    <3>2. <<o, r>> \in FromLinks(g, s) <=> r[1] = s /\ RefersTo(g, {}, r, o)
      BY DEF FromLinks
    <3>3. CASE r[2] = "toolset"
      BY <1>1, <3>1, <3>2, <3>3, GraphConstants DEF RefersTo, Live, Entry
    <3>4. CASE r[2] = "model"
      BY <1>1, <3>1, <3>2, <3>4 DEF RefersTo, Live, Entry
    <3>5. CASE r[2] = "adapters"
      BY <1>1, <3>1, <3>2, <3>5 DEF RefersTo, Live, Entry
    <3>6. CASE r[2] \in {"caller", "leak"}
      BY <1>1, <3>1, <3>2, <3>6 DEF RefersTo, Live, Entry
    <3> QED
      BY <3>1, <3>3, <3>4, <3>5, <3>6
  <2>2. (G1 \cup G2) \cup G3 \subseteq Objects \X References
    <3>1. <<s, "toolset", 0>> \in References /\ <<s, "model", 0>> \in References
      BY ReferenceForm
    <3>3. t = NoObject \/ t \in Objects
      BY <1>1
    <3>4. m \in Objects
      BY <1>1
    <3> HIDE DEF t, m
    <3>5. G1 \subseteq Objects \X References /\ G3 \subseteq Objects \X References
      BY <3>1, <3>3, <3>4
    <3>2. \A i \in DOMAIN list : list[i] \in Objects /\ Entry(s, i) \in References
      BY <1>1, EntryForm
    <3> QED
      BY <3>5, <3>2
  <2>3. FromLinks(g, s) \subseteq Objects \X References
    BY DEF FromLinks
  <2> QED
    BY <2>1, <2>2, <2>3
<1> HIDE DEF FromLinks
<1>6. out = Put(g, s, x1)
  BY <1>1 DEF Graphs, Put
<1>7. Sheds(g, R, out, R, {}, X) /\ out[s] = x1
  <2>1. \A p \in Objects : Stays(g, g, p)
    BY DEF Stays
  <2>2. Sheds(g, R, g, R, {}, X)
    BY <2>1 DEF Sheds, Lost
  <2> DEFINE none == {}
  <2>3. Sheds(g, R, g, R, none, X)
    BY <2>2
  <2> HIDE DEF x1, out, none
  <2>4. x1 \in GraphRecords
    BY <1>2
  <2>5. Sheds(g, R, Put(g, s, x1), R, none, X) /\ Put(g, s, x1)[s] = x1
    BY <1>0, <2>3, <2>4, ShedsPut
  <2> QED
    BY <1>6, <2>5 DEF none
<1> HIDE DEF x1, x2, x3, x4, out, t, m, list
<1>8. \E S \in RefTables : Sheds(g, R, dropped, S, G1, X) /\ dropped[s] = x1
  <2>1. CASE t = NoObject
    <3>1. dropped = out
      BY <2>1 DEF DropToolset
    <3> QED
      BY <1>1, <1>7, <2>1, <3>1
  <2>2. CASE t # NoObject
    <3> DEFINE r == <<s, "toolset", 0>>
    <3>1. t \in Objects /\ KindOf[t] = "toolset" /\ r \in R[t] /\ r[2] = "toolset" /\ Balanced(out, R)
      BY <1>1, <1>4, <1>7, <2>2 DEF Sheds
    <3>2. dropped = Drop(out, t)
      BY <2>2, <3>1, DropIs DEF Drop
    <3> HIDE DEF dropped, r
    <3>3. PICK S \in RefTables : Sheds(out, R, dropped, S, {<<t, r>>}, {})
      BY <3>1, <3>2, DropStep
    <3> DEFINE none == {}
               one  == {<<t, r>>}
    <3>4. Sheds(g, R, out, R, none, X) /\ Sheds(out, R, dropped, S, one, {})
      BY <1>7, <3>3
    <3>5. none \cup one = G1
      BY <2>2 DEF r
    <3> HIDE DEF none, one, G1
    <3>6. Sheds(g, R, dropped, S, none \cup one, X) /\ dropped[s] = out[s]
      BY <1>0, <3>4, ShedsTwice
    <3> QED
      BY <1>7, <3>5, <3>6
  <2> QED
    BY <2>1, <2>2
<1>9. PICK S1 \in RefTables : Sheds(g, R, dropped, S1, G1, X) /\ dropped[s] = x1
  BY <1>8
<1> HIDE DEF dropped, G1, G2, G3
<1>10. tools = Put(dropped, s, x2) /\ dropped \in Graphs
  <2>1. dropped \in Graphs
    BY <1>9 DEF Sheds, Balanced
  <2> QED
    BY <1>9, <2>1 DEF Graphs, Put, x2
<1> HIDE DEF tools
<1>11. Sheds(g, R, tools, S1, G1, X) /\ tools[s] = x2
  <2>1. x2 \in GraphRecords
    BY <1>2
  <2>2. Sheds(g, R, dropped, S1, G1, X)
    BY <1>9
  <2>3. Sheds(g, R, Put(dropped, s, x2), S1, G1, X) /\ Put(dropped, s, x2)[s] = x2
    BY <1>0, <2>1, <2>2, ShedsPut
  <2> QED
    BY <1>10, <2>3
<1>12. PICK S2 \in RefTables : Sheds(tools, S1, cleared, S2, G2, {})
  <2>1. Balanced(tools, S1)
    BY <1>11 DEF Sheds
  <2>2. ASSUME NEW i \in DOMAIN list PROVE Entry(s, i) \in S1[list[i]]
    <3>1. list[i] \in Objects /\ Entry(s, i) \in References /\ Entry(s, i)[2] = "adapters"
      BY <1>1, <2>2, EntryForm
    <3>2. Entry(s, i) \in R[list[i]]
      BY <1>4, <2>2
    <3>3. <<list[i], Entry(s, i)>> \notin G1
      BY DEF G1, Entry
    <3> QED
      BY <1>11, <3>1, <3>2, <3>3 DEF Sheds, Lost
  <2> QED
    BY <1>1, <2>1, <2>2, DropEachStep DEF G2
<1> HIDE DEF cleared
<1>13. Sheds(g, R, cleared, S2, G1 \cup G2, X) /\ cleared[s] = x2
  BY <1>0, <1>11, <1>12, ShedsTwice
<1>14. adapters = Put(cleared, s, x3)
  <2>1. cleared \in Graphs
    BY <1>13 DEF Sheds, Balanced
  <2> QED
    BY <1>13, <2>1 DEF Graphs, Put, x3
<1> HIDE DEF adapters
<1>15. Sheds(g, R, adapters, S2, G1 \cup G2, X) /\ adapters[s] = x3
  <2>1. x3 \in GraphRecords
    BY <1>2
  <2>2. Sheds(g, R, cleared, S2, G1 \cup G2, X)
    BY <1>13
  <2>3. Sheds(g, R, Put(cleared, s, x3), S2, G1 \cup G2, X) /\ Put(cleared, s, x3)[s] = x3
    BY <1>0, <2>1, <2>2, ShedsPut
  <2> QED
    BY <1>14, <2>3
<1>16. \E S \in RefTables : Sheds(adapters, S2, down, S, G3, {})
  <2> DEFINE r == <<s, "model", 0>>
  <2>1. <<m, r>> \notin G1 \cup G2
    <3>1. <<m, r>> \notin G1
      BY DEF G1
    <3>2. <<m, r>> \notin G2
      BY DEF G2, Entry
    <3> QED
      BY <3>1, <3>2
  <2>2. r \in References /\ r[1] = s /\ r[2] = "model" /\ KindOf[s] # "adapter"
    BY <1>1, ReferenceForm DEF Shared
  <2>3. r \in S2[m] /\ Balanced(adapters, S2)
    BY <1>1, <1>4, <1>15, <2>1, <2>2 DEF Sheds, Lost
  <2>4. Drop(adapters, m) = down
    BY <1>1, DropIs DEF Drop
  <2> HIDE DEF r, down
  <2>5. \E S \in RefTables : Sheds(adapters, S2, down, S, {<<m, r>>}, {})
    BY <1>1, <2>2, <2>3, <2>4, DropStep
  <2> QED
    BY <2>5 DEF G3, r
<1>17. PICK S3 \in RefTables : Sheds(adapters, S2, down, S3, G3, {})
  BY <1>16
<1> HIDE DEF down
<1>18. Sheds(g, R, down, S3, (G1 \cup G2) \cup G3, X) /\ down[s] = x3
  BY <1>0, <1>15, <1>17, ShedsTwice
<1>19. end = Put(down, s, x4)
  <2>1. down \in Graphs
    BY <1>18 DEF Sheds, Balanced
  <2> QED
    BY <1>18, <2>1 DEF Graphs, Put, x4
<1> HIDE DEF end
<1>20. Sheds(g, R, end, S3, FromLinks(g, s), X) /\ end[s] = x4
  <2>1. x4 \in GraphRecords
    BY <1>2
  <2>2. Sheds(g, R, down, S3, FromLinks(g, s), X)
    BY <1>5, <1>18
  <2>3. Sheds(g, R, Put(down, s, x4), S3, FromLinks(g, s), X) /\ Put(down, s, x4)[s] = x4
    BY <1>0, <2>1, <2>2, ShedsPut
  <2> QED
    BY <1>19, <2>3
<1>21. DestroyRunner(g, s) = end
  BY <1>2, <1>11 DEF DestroyRunner, DropAdapters, out, dropped, tools, cleared, adapters, down, end, t, m, list
<1> QED
  BY <1>3, <1>20, <1>21 DEF x4, x3, x2, x1, X

-----------------------------------------------------------------------------
(* Other changes of a balanced graph *)

With(R, t, r) == [R EXCEPT ![t] = @ \cup {r}]

\* Graph d is g but for the count of t.
Recounted(g, d, t, n) == d = Put(g, t, [g[t] EXCEPT !.refs = n])

LEMMA RecountedIs ==
  ASSUME NEW g \in Graphs, NEW t \in Objects, NEW n \in Nat, NEW d, Recounted(g, d, t, n)
  PROVE  /\ d \in Graphs /\ d[t].refs = n
         /\ \A p \in Objects : p # t => d[p] = g[p]
         /\ \A p \in Objects : /\ d[p].mem = g[p].mem /\ d[p].reg = g[p].reg /\ d[p].owned = g[p].owned
                               /\ d[p].model = g[p].model /\ d[p].toolset = g[p].toolset
                               /\ d[p].adapters = g[p].adapters /\ d[p].conv = g[p].conv
         /\ Live(g, t) /\ KindOf[t] \in Shared => \A p \in Objects : Stays(g, d, p)
<1> DEFINE y == [g[t] EXCEPT !.refs = n]
<1>1. g[t] \in GraphRecords
  BY DEF Graphs
<1>2. /\ y \in GraphRecords
      /\ y.mem = g[t].mem /\ y.reg = g[t].reg /\ y.refs = n /\ y.owned = g[t].owned /\ y.model = g[t].model
      /\ y.toolset = g[t].toolset /\ y.adapters = g[t].adapters /\ y.conv = g[t].conv
  BY <1>1, RecordFacts
<1>3. d = Put(g, t, y)
  BY DEF Recounted
<1> HIDE DEF y
<1>4. d \in Graphs /\ d[t] = y /\ \A p \in Objects : p # t => d[p] = g[p]
  BY <1>2, <1>3, GraphPut
<1>5. \A p \in Objects : /\ d[p].mem = g[p].mem /\ d[p].reg = g[p].reg /\ d[p].owned = g[p].owned
                         /\ d[p].model = g[p].model /\ d[p].toolset = g[p].toolset
                         /\ d[p].adapters = g[p].adapters /\ d[p].conv = g[p].conv
  BY <1>2, <1>4
<1> QED
  BY <1>2, <1>4, <1>5 DEF Stays

\* *_retain: one reference more
LEMMA RetainStep ==
  ASSUME NEW g, NEW R, Balanced(g, R), NEW t \in Objects, KindOf[t] \in Shared, Live(g, t),
         NEW r \in References, r \notin R[t],
         ~(r[2] = "model" /\ KindOf[r[1]] = "adapter" /\ Live(g, r[1]))
  PROVE  /\ Balanced(Retain(g, t), With(R, t, r)) /\ Recounted(g, Retain(g, t), t, g[t].refs + 1)
         /\ g[t].refs + 1 \in Nat
<1> DEFINE d == Retain(g, t)
           S == With(R, t, r)
           n == g[t].refs + 1
<1>1. /\ g \in Graphs /\ R \in RefTables /\ g[t] \in GraphRecords /\ g[t].reg
      /\ R[t] \in SUBSET References /\ g[t].refs = Cardinality(R[t])
  BY DEF Balanced, Graphs, RefTables
<1>2. Recounted(g, d, t, n) /\ n \in Nat
  BY <1>1 DEF Recounted, Put, Retain, Graphs, GraphRecords
<1> HIDE DEF d
<1>3. /\ d \in Graphs /\ d[t].refs = n
      /\ \A p \in Objects : p # t => d[p] = g[p]
      /\ \A p \in Objects : d[p].mem = g[p].mem /\ d[p].reg = g[p].reg /\ d[p].model = g[p].model
  BY <1>1, <1>2, RecountedIs
<1>4. S \in RefTables /\ \A o \in Objects : S[o] = IF o = t THEN R[t] \cup {r} ELSE R[o]
  BY <1>1 DEF RefTables, With
<1>5. Cardinality(R[t] \cup {r}) = n
  BY <1>1, RefCountFacts
<1> HIDE DEF S, n
<1>6. \A o \in Objects : S[o] # {} => KindOf[o] \in Shared /\ Live(d, o)
  BY <1>3, <1>4 DEF Balanced, Live
<1>7. ASSUME NEW o \in Objects, KindOf[o] \in Shared, Live(d, o)
      PROVE  d[o].reg /\ d[o].refs = Cardinality(S[o]) /\ (KindOf[o] # "model" => S[o] # {})
  <2>1. CASE o = t
    BY <2>1, <1>1, <1>3, <1>4, <1>5
  <2>2. CASE o # t
    BY <2>2, <1>3, <1>4, <1>7 DEF Balanced, Live
  <2> QED
    BY <2>1, <2>2
<1>8. ASSUME NEW a \in OfKind("adapter"), Live(d, a)
      PROVE  /\ d[a].model \in OfKind("model") /\ <<a, "model", 0>> \in S[d[a].model]
             /\ \A o \in Objects : \A q \in S[o] : q[1] = a /\ q[2] = "model" => o = d[a].model /\ q[3] = 0
  <2>1. a \in Objects /\ KindOf[a] = "adapter" /\ d[a].model = g[a].model /\ Live(g, a)
    BY <1>3, <1>8 DEF OfKind, Live
  <2>2. /\ g[a].model \in OfKind("model") /\ <<a, "model", 0>> \in R[g[a].model]
        /\ \A o \in Objects : \A q \in R[o] : q[1] = a /\ q[2] = "model" => o = g[a].model /\ q[3] = 0
    BY <2>1, <1>8 DEF Balanced
  <2>3. \A o \in Objects : \A q \in S[o] : q \in R[o] \/ q = r
    BY <1>4
  <2> QED
    BY <1>4, <2>1, <2>2, <2>3 DEF OfKind
<1>9. Balanced(d, S)
  BY <1>3, <1>4, <1>6, <1>7, <1>8 DEF Balanced
<1> QED
  BY <1>2, <1>9 DEF d, S, n

\* A new object with a count, and its first reference.
LEMMA BirthStep ==
  ASSUME NEW g, NEW R, Balanced(g, R), NEW t \in Objects, KindOf[t] \in Shared, ~Live(g, t),
         NEW r \in References, r[2] # "model",
         NEW x \in GraphRecords, x.mem = "live", x.reg, x.refs = 1,
         KindOf[t] = "adapter" =>
           /\ x.model \in OfKind("model") /\ <<t, "model", 0>> \in R[x.model]
           /\ \A o \in Objects : \A q \in R[o] : q[1] = t /\ q[2] = "model" => o = x.model /\ q[3] = 0
  PROVE  Balanced(Put(g, t, x), With(R, t, r))
<1> DEFINE d == Put(g, t, x)
           S == With(R, t, r)
<1>1. /\ g \in Graphs /\ R \in RefTables /\ R[t] = {}
  BY DEF Balanced
<1>2. d \in Graphs /\ d[t] = x /\ \A p \in Objects : p # t => d[p] = g[p]
  BY <1>1, GraphPut
<1>3. S \in RefTables /\ \A o \in Objects : S[o] = IF o = t THEN R[t] \cup {r} ELSE R[o]
  BY <1>1 DEF RefTables, With
<1>4. S[t] = {r} /\ Cardinality(S[t]) = 1
  <2>1. S[t] = {r}
    BY <1>1, <1>3
  <2>2. Cardinality({r}) = 1
    BY FS_Singleton
  <2> HIDE DEF S
  <2> QED
    BY <2>1, <2>2
<1> HIDE DEF d, S
<1>5. \A o \in Objects : S[o] # {} => KindOf[o] \in Shared /\ Live(d, o)
  BY <1>2, <1>3 DEF Balanced, Live
<1>6. ASSUME NEW o \in Objects, KindOf[o] \in Shared, Live(d, o)
      PROVE  d[o].reg /\ d[o].refs = Cardinality(S[o]) /\ (KindOf[o] # "model" => S[o] # {})
  <2>1. CASE o = t
    BY <2>1, <1>2, <1>4
  <2>2. CASE o # t
    BY <2>2, <1>2, <1>3, <1>6 DEF Balanced, Live
  <2> QED
    BY <2>1, <2>2
<1>7. ASSUME NEW a \in OfKind("adapter"), Live(d, a)
      PROVE  /\ d[a].model \in OfKind("model") /\ <<a, "model", 0>> \in S[d[a].model]
             /\ \A o \in Objects : \A q \in S[o] : q[1] = a /\ q[2] = "model" => o = d[a].model /\ q[3] = 0
  <2>1. a \in Objects /\ KindOf[a] = "adapter"
    BY DEF OfKind
  <2>2. /\ d[a].model \in OfKind("model") /\ <<a, "model", 0>> \in R[d[a].model]
        /\ \A o \in Objects : \A q \in R[o] : q[1] = a /\ q[2] = "model" => o = d[a].model /\ q[3] = 0
    <3>1. CASE a = t
      BY <2>1, <3>1, <1>2
    <3>2. CASE a # t
      BY <2>1, <3>2, <1>2, <1>7 DEF Balanced, Live
    <3> QED
      BY <3>1, <3>2
  <2>3. \A o \in Objects : \A q \in S[o] : q \in R[o] \/ q = r
    BY <1>3
  <2> QED
    BY <1>3, <2>1, <2>2, <2>3 DEF OfKind
<1>8. Balanced(d, S)
  BY <1>2, <1>3, <1>5, <1>6, <1>7 DEF Balanced
<1> QED
  BY <1>8 DEF d, S

\* embedder_destroy: one reference to the model less, whatever is left
LEMMA LowerStep ==
  ASSUME NEW g, NEW R, Balanced(g, R), NEW t \in OfKind("model"), NEW r \in R[t], KindOf[r[1]] # "adapter",
         NEW d, Recounted(g, d, t, g[t].refs - 1)
  PROVE  Balanced(d, Without(R, t, r)) /\ g[t].refs - 1 \in Nat
<1> DEFINE S == Without(R, t, r)
           n == g[t].refs - 1
<1>1. /\ t \in Objects /\ KindOf[t] = "model" /\ KindOf[t] \in Shared /\ Live(g, t)
      /\ g \in Graphs /\ R \in RefTables /\ g[t].reg
      /\ R[t] \in SUBSET References /\ g[t].refs = Cardinality(R[t])
  BY DEF Balanced, Graphs, RefTables, OfKind, Shared
<1>2. n \in Nat /\ Cardinality(R[t] \ {r}) = n
  BY <1>1, RefCountFacts
<1>3. /\ d \in Graphs /\ d[t].refs = n
      /\ \A p \in Objects : p # t => d[p] = g[p]
      /\ \A p \in Objects : d[p].mem = g[p].mem /\ d[p].reg = g[p].reg /\ d[p].model = g[p].model
  BY <1>1, <1>2, RecountedIs
<1>4. S \in RefTables /\ \A o \in Objects : S[o] = IF o = t THEN R[t] \ {r} ELSE R[o]
  BY <1>1 DEF RefTables, Without
<1> HIDE DEF S, n
<1>6. \A o \in Objects : S[o] # {} => KindOf[o] \in Shared /\ Live(d, o)
  BY <1>3, <1>4 DEF Balanced, Live
<1>7. ASSUME NEW o \in Objects, KindOf[o] \in Shared, Live(d, o)
      PROVE  d[o].reg /\ d[o].refs = Cardinality(S[o]) /\ (KindOf[o] # "model" => S[o] # {})
  <2>1. CASE o = t
    BY <2>1, <1>1, <1>2, <1>3, <1>4
  <2>2. CASE o # t
    BY <2>2, <1>3, <1>4, <1>7 DEF Balanced, Live
  <2> QED
    BY <2>1, <2>2
<1>8. ASSUME NEW a \in OfKind("adapter"), Live(d, a)
      PROVE  /\ d[a].model \in OfKind("model") /\ <<a, "model", 0>> \in S[d[a].model]
             /\ \A o \in Objects : \A q \in S[o] : q[1] = a /\ q[2] = "model" => o = d[a].model /\ q[3] = 0
  <2>1. a \in Objects /\ KindOf[a] = "adapter" /\ d[a].model = g[a].model /\ Live(g, a)
    BY <1>3, <1>8 DEF OfKind, Live
  <2>2. /\ g[a].model \in OfKind("model") /\ <<a, "model", 0>> \in R[g[a].model]
        /\ \A o \in Objects : \A q \in R[o] : q[1] = a /\ q[2] = "model" => o = g[a].model /\ q[3] = 0
    BY <2>1, <1>8 DEF Balanced
  <2>3. r # <<a, "model", 0>>
    BY <2>1
  <2>4. \A o \in Objects : \A q \in S[o] : q \in R[o]
    BY <1>4
  <2> QED
    BY <1>4, <2>1, <2>2, <2>3, <2>4 DEF OfKind
<1>9. Balanced(d, S)
  BY <1>3, <1>4, <1>6, <1>7, <1>8 DEF Balanced
<1> QED
  BY <1>2, <1>9 DEF S, n

\* The balance does not ask who owns what: RefRelease and ModelRelease take the
\* caller's own reference from the object first.
Given(g, t) == Put(g, t, [g[t] EXCEPT !.owned = FALSE])

LEMMA GivenKeeps ==
  ASSUME NEW g \in Graphs, NEW t \in Objects, NEW p \in Objects
  PROVE  /\ Given(g, t)[p].mem = g[p].mem /\ Given(g, t)[p].reg = g[p].reg
         /\ Given(g, t)[p].refs = g[p].refs /\ Given(g, t)[p].model = g[p].model
         /\ Given(g, t)[p].toolset = g[p].toolset /\ Given(g, t)[p].adapters = g[p].adapters
         /\ Given(g, t)[p].conv = g[p].conv
         /\ p # t => Given(g, t)[p] = g[p]
<1>1. g[t] \in GraphRecords
  BY DEF Graphs
<1>2. \A q \in Objects : Given(g, t)[q] = IF q = t THEN [g[t] EXCEPT !.owned = FALSE] ELSE g[q]
  BY DEF Given, Put, Graphs
<1> QED
  BY <1>1, <1>2 DEF GraphRecords

LEMMA GivenStep ==
  ASSUME NEW g, NEW R, Balanced(g, R), NEW t \in Objects
  PROVE  /\ Balanced(Given(g, t), R)
         /\ \A p \in Objects :
              /\ Given(g, t)[p].mem = g[p].mem /\ Given(g, t)[p].reg = g[p].reg
              /\ Given(g, t)[p].refs = g[p].refs /\ Given(g, t)[p].model = g[p].model
              /\ Given(g, t)[p].toolset = g[p].toolset /\ Given(g, t)[p].adapters = g[p].adapters
              /\ Given(g, t)[p].conv = g[p].conv
              /\ p # t => Given(g, t)[p] = g[p]
         /\ Given(g, t)[t].owned = FALSE
<1> DEFINE y == [g[t] EXCEPT !.owned = FALSE]
           d == Given(g, t)
<1>1. g \in Graphs /\ g[t] \in GraphRecords
  BY DEF Balanced, Graphs
<1>2. y \in GraphRecords /\ y.mem = g[t].mem /\ y.reg = g[t].reg /\ y.refs = g[t].refs /\ y.owned = FALSE
      /\ y.model = g[t].model /\ y.toolset = g[t].toolset /\ y.adapters = g[t].adapters /\ y.conv = g[t].conv
  BY <1>1 DEF GraphRecords
<1>3. d = Put(g, t, y)
  BY DEF Given
<1> HIDE DEF y, d
<1>4. d \in Graphs /\ d[t] = y /\ \A p \in Objects : p # t => d[p] = g[p]
  BY <1>1, <1>2, <1>3, GraphPut
<1>5. \A p \in Objects : /\ d[p].mem = g[p].mem /\ d[p].reg = g[p].reg /\ d[p].refs = g[p].refs
                         /\ d[p].model = g[p].model /\ d[p].toolset = g[p].toolset
                         /\ d[p].adapters = g[p].adapters /\ d[p].conv = g[p].conv
                         /\ p # t => d[p] = g[p]
  BY <1>2, <1>4
<1>6. Balanced(d, R)
  <2>1. \A p \in Objects : Live(d, p) <=> Live(g, p)
    BY <1>5 DEF Live
  <2>2. \A a \in OfKind("adapter") : d[a].model = g[a].model /\ (Live(d, a) <=> Live(g, a))
    BY <1>5, <2>1 DEF OfKind
  <2> QED
    BY <1>4, <1>5, <2>1, <2>2 DEF Balanced
<1> QED
  BY <1>2, <1>4, <1>5, <1>6 DEF d

-----------------------------------------------------------------------------
(* From a balanced table to the references of a graph *)

LEMMA TableHas ==
  ASSUME NEW g, NEW lost, NEW o \in Objects, NEW r \in References
  PROVE  r \in AllReferences(g, lost)[o] <=> RefersTo(g, lost, r, o)
BY DEF AllReferences, ReferencesTo

LEMMA TableIs ==
  ASSUME NEW g, NEW S, Balanced(g, S), NEW lost,
         \A o \in Objects, r \in References : r \in S[o] <=> RefersTo(g, lost, r, o)
  PROVE  Balanced(g, AllReferences(g, lost))
<1>1. S \in RefTables
  BY DEF Balanced
<1>2. \A o \in Objects : S[o] = ReferencesTo(g, lost, o)
  BY <1>1 DEF ReferencesTo, RefTables
<1>3. S = AllReferences(g, lost)
  BY <1>1, <1>2 DEF AllReferences, RefTables
<1> QED
  BY <1>3

\* What an object refers to depends on these fields.
SameLinks(g, h, p) ==
  /\ h[p].mem = g[p].mem /\ h[p].toolset = g[p].toolset /\ h[p].model = g[p].model
  /\ h[p].adapters = g[p].adapters /\ h[p].owned = g[p].owned

LEMMA RefersSame ==
  ASSUME NEW g, NEW h, NEW lost, NEW o \in Objects, NEW r \in References, SameLinks(g, h, r[1])
  PROVE  RefersTo(h, lost, r, o) <=> RefersTo(g, lost, r, o)
BY DEF RefersTo, SameLinks

LEMMA RefersKept ==
  ASSUME NEW g, NEW h, NEW lost, NEW o \in Objects, NEW r \in References, LinksAt(g, r[1]), Stays(g, h, r[1])
  PROVE  RefersTo(h, lost, r, o) <=> RefersTo(g, lost, r, o) /\ ~Lost(g, h, r)
<1> DEFINE p == r[1]
<1>1. CASE SameLinks(g, h, p)
  <2>1. ~Lost(g, h, r)
    BY <1>1 DEF Lost, Live, SameLinks
  <2> QED
    BY <1>1, <2>1, RefersSame
<1>2. CASE ~SameLinks(g, h, p)
  <2>1. /\ Live(g, p) /\ ~Live(h, p) /\ KindOf[p] \in Shared /\ h[p].owned = g[p].owned /\ p \in Objects
        /\ h[p].mem = "freed" /\ g[p].mem = "live"
    BY <1>2, ReferenceParts DEF Stays, SameLinks, Live
  <2>2. /\ g[p].toolset = NoObject /\ g[p].adapters = <<>>
        /\ KindOf[p] # "adapter" => g[p].model = NoObject
    BY <2>1 DEF LinksAt, Shared
  <2>3. o # NoObject
    BY GraphConstants
  <2>4. r[2] \in {"toolset", "model", "adapters", "caller", "leak"}
    BY DEF References
  <2> HIDE DEF p
  <2>5. CASE r[2] \in {"toolset", "adapters"}
    BY <2>1, <2>2, <2>3, <2>5 DEF RefersTo, Lost, p
  <2>6. CASE r[2] = "model"
    BY <2>1, <2>2, <2>3, <2>6 DEF RefersTo, Lost, p, Live
  <2>7. CASE r[2] \in {"caller", "leak"}
    BY <2>1, <2>7 DEF RefersTo, Lost, p
  <2> QED
    BY <2>4, <2>5, <2>6, <2>7
<1> QED
  BY <1>1, <1>2

\* After a number of references were dropped, those left are all there are.
LEMMA ShedsTable ==
  ASSUME NEW g, NEW R, NEW d, NEW S, NEW G, NEW X \in SUBSET Objects, Sheds(g, R, d, S, G, X), NEW lost,
         \A p \in Objects \ X : LinksAt(g, p),
         \A o \in Objects, r \in References :
           IF r[1] \in X THEN r \in S[o] <=> RefersTo(d, lost, r, o)
           ELSE r \in R[o] /\ <<o, r>> \notin G <=> RefersTo(g, lost, r, o)
  PROVE  Balanced(d, AllReferences(d, lost))
<1>1. ASSUME NEW o \in Objects, NEW r \in References
      PROVE  r \in S[o] <=> RefersTo(d, lost, r, o)
  <2>1. CASE r[1] \in X
    BY <2>1
  <2>2. CASE r[1] \notin X
    <3>1. r[1] \in Objects \ X
      BY <2>2, ReferenceParts
    <3>2. LinksAt(g, r[1]) /\ Stays(g, d, r[1])
      BY <3>1 DEF Sheds
    <3>3. RefersTo(d, lost, r, o) <=> RefersTo(g, lost, r, o) /\ ~Lost(g, d, r)
      BY <3>2, RefersKept
    <3>4. r \in R[o] /\ <<o, r>> \notin G <=> RefersTo(g, lost, r, o)
      BY <2>2
    <3>5. r \in S[o] <=> r \in R[o] /\ <<o, r>> \notin G /\ ~Lost(g, d, r)
      BY DEF Sheds
    <3> QED
      BY <3>3, <3>4, <3>5
  <2> QED
    BY <2>1, <2>2
<1>2. Balanced(d, S)
  BY DEF Sheds
<1> QED
  BY <1>1, <1>2, TableIs

\* Objects that a step leaves alone stay sound, if the touched ones X do and no
\* agent loses its model or its conversation.
LEMMA SoundKept ==
  ASSUME NEW g \in Graphs, NEW h \in Graphs, Sound(g), NEW lost, Balanced(h, AllReferences(h, lost)),
         NEW X \in SUBSET Objects, \A p \in Objects \ X : Stays(g, h, p), \A o \in X : SoundAt(h, o),
         \A a \in OfKind("agent") \ X : Live(g, a) =>
           /\ g[a].model \in X => h[g[a].model].owned
           /\ g[a].conv \in X => Live(h, g[a].conv) /\ ~h[g[a].conv].owned
  PROVE  Sound(h)
<1>1. ASSUME NEW p \in Objects \ X
      PROVE  LinksAt(h, p) /\ RegisteredAt(h, p)
  <2>1. Stays(g, h, p) /\ LinksAt(g, p) /\ RegisteredAt(g, p)
    BY DEF Sound, SoundAt
  <2>2. LinksAt(h, p)
    BY <2>1 DEF LinksAt, Stays, Live
  <2>3. CASE KindOf[p] \notin Shared \/ ~Live(g, p)
    BY <2>1, <2>2, <2>3 DEF Stays, RegisteredAt, Live
  <2>4. CASE KindOf[p] \in Shared /\ Live(g, p)
    <3>1. h[p].owned => Live(h, p)
      <4>1. SUFFICES ASSUME h[p].owned PROVE Live(h, p)
        OBVIOUS
      <4>2. <<p, "caller", 0>> \in References /\ RefersTo(h, lost, <<p, "caller", 0>>, p)
        BY <2>4, <4>1, ReferenceForm DEF RefersTo
      <4>3. AllReferences(h, lost)[p] # {}
        BY <4>2, TableHas
      <4> QED
        BY <4>3 DEF Balanced
    <3> QED
      BY <2>1, <2>2, <2>4, <3>1 DEF Stays, RegisteredAt, Live
  <2> QED
    BY <2>3, <2>4
<1>2. \A p \in Objects : LinksAt(h, p) /\ RegisteredAt(h, p)
  BY <1>1 DEF SoundAt
<1>3. ASSUME NEW a \in OfKind("agent") \ X, Live(h, a)
      PROVE  AgentAt(h, a)
  <2>1. a \in Objects /\ KindOf[a] = "agent" /\ Stays(g, h, a) /\ h[a] = g[a] /\ Live(g, a)
    BY <1>3 DEF OfKind, Stays, Shared, Live
  <2>2. AgentAt(g, a) /\ LinksAt(g, a)
    BY <2>1 DEF Sound, SoundAt
  <2> DEFINE m == g[a].model
             c == g[a].conv
  <2>3. m \in Objects /\ g[m].owned
    BY <2>1, <2>2 DEF LinksAt, AgentAt, OfKind
  <2>4. h[m].owned
    <3>1. CASE m \in X
      BY <3>1, <2>1
    <3>2. CASE m \notin X
      <4>1. Stays(g, h, m)
        BY <2>3, <3>2
      <4> QED
        BY <2>3, <4>1 DEF Stays
    <3> QED
      BY <3>1, <3>2
  <2>5. Live(h, m)
    BY <1>2, <2>3, <2>4 DEF RegisteredAt
  <2>6. ASSUME c # NoObject
        PROVE  /\ c \in OfKind("conv") /\ Live(h, c) /\ ~h[c].owned
               /\ \A b \in OfKind("agent") : Live(h, b) /\ h[b].conv = c => b = a
    <3>1. /\ c \in OfKind("conv") /\ Live(g, c) /\ ~g[c].owned
          /\ \A b \in OfKind("agent") : Live(g, b) /\ g[b].conv = c => b = a
      BY <2>1, <2>2, <2>6 DEF AgentAt
    <3>2. Live(h, c) /\ ~h[c].owned
      <4>1. CASE c \in X
        BY <2>1, <4>1
      <4>2. CASE c \notin X
        <5>1. c \in Objects \ X /\ KindOf[c] = "conv"
          BY <3>1, <4>2 DEF OfKind
        <5>2. h[c] = g[c]
          BY <5>1 DEF Stays, Shared
        <5> QED
          BY <3>1, <5>2 DEF Live
      <4> QED
        BY <4>1, <4>2
    <3>3. ASSUME NEW b \in OfKind("agent"), Live(h, b), h[b].conv = c
          PROVE  b = a
      <4>1. b \in Objects /\ KindOf[b] = "agent"
        BY DEF OfKind
      <4>2. CASE b \in X
        <5>1. AgentAt(h, b)
          BY <4>2 DEF SoundAt
        <5>2. a \in OfKind("agent") /\ h[a].conv = h[b].conv /\ h[b].conv # NoObject
          BY <2>1, <2>6, <3>3
        <5> QED
          BY <4>1, <5>1, <5>2, <1>3, <3>3 DEF AgentAt
      <4>3. CASE b \notin X
        <5>1. h[b] = g[b]
          BY <4>1, <4>3 DEF Stays, Shared
        <5> QED
          BY <3>1, <3>3, <5>1 DEF Live
      <4> QED
        BY <4>2, <4>3
    <3> QED
      BY <3>1, <3>2, <3>3
  <2> QED
    BY <2>1, <2>4, <2>5, <2>6 DEF AgentAt
<1>4. \A a \in Objects : AgentAt(h, a)
  BY <1>3 DEF SoundAt, AgentAt, OfKind
<1> QED
  BY <1>2, <1>4 DEF Sound, SoundAt

-----------------------------------------------------------------------------
(* Creation *)

LEMMA GraphFacts ==
  ASSUME NEW g, NEW lost, InOrder(g, lost)
  PROVE  /\ g \in Graphs /\ lost \subseteq OfKind("model") /\ Sound(g)
         /\ AllReferences(g, lost) \in RefTables
         /\ \A o \in Objects : g[o] \in GraphRecords /\ LinksAt(g, o) /\ RegisteredAt(g, o) /\ AgentAt(g, o)
         /\ \A o \in Objects : Live(g, o) <=> g[o].reg
BY DEF InOrder, Balanced, Graphs, Sound, SoundAt, RegisteredAt

LEMMA Unborn ==
  ASSUME NEW g, NEW lost, InOrder(g, lost), NEW o \in Objects, g[o].mem = "none"
  PROVE  /\ g[o] = Fresh /\ ~Live(g, o) /\ o \notin lost /\ AllReferences(g, lost)[o] = {}
         /\ \A q \in Objects, r \in References : r[1] = o => ~RefersTo(g, lost, r, q)
<1>1. g[o] = Fresh /\ ~Live(g, o)
  BY DEF InOrder, Sound, SoundAt, RegisteredAt, Live
<1>2. AllReferences(g, lost)[o] = {}
  BY <1>1 DEF InOrder, Balanced
<1>3. o \notin lost
  <2>1. SUFFICES ASSUME o \in lost PROVE FALSE
    OBVIOUS
  <2>2. <<o, "leak", 0>> \in References /\ RefersTo(g, lost, <<o, "leak", 0>>, o)
    BY <2>1, ReferenceForm DEF RefersTo
  <2> QED
    BY <1>2, <2>2, TableHas
<1>4. ASSUME NEW q \in Objects, NEW r \in References, r[1] = o
      PROVE  ~RefersTo(g, lost, r, q)
  BY <1>1, <1>3, <1>4 DEF RefersTo, Fresh, Live
<1> QED
  BY <1>1, <1>2, <1>3, <1>4

\* A graph with one object more, which nothing refers to yet.
LEMMA NewObject ==
  ASSUME NEW g, NEW lost, InOrder(g, lost), NEW o \in Objects, g[o].mem = "none",
         NEW h, NEW S, Balanced(h, S), \A p \in Objects \ {o} : Stays(g, h, p) /\ SameLinks(g, h, p),
         h[o].mem = "live", h[o].reg, h[o].conv = NoObject, LinksAt(h, o),
         KindOf[o] = "agent" => Live(h, h[o].model) /\ h[h[o].model].owned,
         \A q \in Objects, r \in References :
           r \in S[q] <=> IF r[1] = o THEN RefersTo(h, lost, r, q) ELSE r \in AllReferences(g, lost)[q]
  PROVE  InOrder(h, lost)
<1>1. ASSUME NEW q \in Objects, NEW r \in References
      PROVE  r \in S[q] <=> RefersTo(h, lost, r, q)
  <2>1. CASE r[1] = o
    BY <2>1
  <2>2. CASE r[1] # o
    <3>1. SameLinks(g, h, r[1])
      BY <2>2, ReferenceParts
    <3>2. RefersTo(h, lost, r, q) <=> RefersTo(g, lost, r, q)
      BY <3>1, RefersSame
    <3> QED
      BY <2>2, <3>2, TableHas
  <2> QED
    BY <2>1, <2>2
<1>2. Balanced(h, AllReferences(h, lost))
  BY <1>1, TableIs
<1>3. g \in Graphs /\ h \in Graphs /\ Sound(g) /\ lost \subseteq OfKind("model")
  BY DEF InOrder, Balanced
<1>4. SoundAt(h, o)
  <2>1. RegisteredAt(h, o)
    BY DEF RegisteredAt, Live
  <2>2. AgentAt(h, o)
    BY DEF AgentAt
  <2> QED
    BY <2>1, <2>2 DEF SoundAt
<1>5. ASSUME NEW a \in OfKind("agent") \ {o}, Live(g, a)
      PROVE  g[a].model # o /\ g[a].conv # o
  <2>1. AgentAt(g, a) /\ KindOf[a] = "agent"
    BY <1>3 DEF Sound, SoundAt, OfKind
  <2>2. ~Live(g, o) /\ o # NoObject
    BY GraphConstants DEF Live
  <2> QED
    BY <1>5, <2>1, <2>2 DEF AgentAt
<1> DEFINE X == {o}
<1>6. /\ X \in SUBSET Objects /\ \A p \in Objects \ X : Stays(g, h, p)
      /\ \A p \in X : SoundAt(h, p)
      /\ \A a \in OfKind("agent") \ X : Live(g, a) =>
           /\ g[a].model \in X => h[g[a].model].owned
           /\ g[a].conv \in X => Live(h, g[a].conv) /\ ~h[g[a].conv].owned
  BY <1>4, <1>5
<1> HIDE DEF X
<1>7. Sound(h)
  BY <1>2, <1>3, <1>6, SoundKept
<1> QED
  BY <1>2, <1>3, <1>7 DEF InOrder

\* The record of an object that was just made.
Newborn(refs, owned, model, toolset) ==
  [mem |-> "live", reg |-> TRUE, refs |-> refs, owned |-> owned, model |-> model,
   toolset |-> toolset, adapters |-> <<>>, conv |-> NoObject]

\* A new object may refer to a model and a toolset.
LEMMA NewLinks ==
  ASSUME NEW g, NEW o \in Objects, g[o].adapters = <<>>, g[o].conv = NoObject,
         IF KindOf[o] \in {"adapter", "session", "conv", "embedder", "agent"}
         THEN g[o].model \in OfKind("model") ELSE g[o].model = NoObject,
         g[o].toolset # NoObject => g[o].toolset \in OfKind("toolset") /\ KindOf[o] \in {"session", "conv", "agent"}
  PROVE  LinksAt(g, o)
<1>1. <<>> \in Seq(OfKind("adapter")) /\ Len(<<>>) <= MaxAdapters
  BY GraphConstants
<1> QED
  BY <1>1 DEF LinksAt

LEMMA PlainStep ==
  ASSUME GraphInv, NEW o \in Objects, CreatePlain(o)
  PROVE  GraphInv'
<1> DEFINE x == Newborn(0, TRUE, NoObject, NoObject)
           R == AllReferences(obj, leaked)
<1>1. /\ InOrder(obj, leaked) /\ obj[o].mem = "none" /\ KindOf[o] \in {"index", "view", "cursor"}
      /\ obj \in Graphs /\ R \in RefTables /\ Balanced(obj, R)
      /\ leaked' = leaked /\ obj' = Made(obj, o)
  BY GraphFacts DEF GraphInv, InOrder, CreatePlain, Unmade, OfKind
<1>2. obj[o] = Fresh /\ o \notin leaked /\ R[o] = {}
      /\ \A q \in Objects, r \in References : r[1] = o => ~RefersTo(obj, leaked, r, q)
  BY <1>1, Unborn
<1>3. /\ x \in GraphRecords /\ x.mem = "live" /\ x.reg /\ x.owned /\ x.model = NoObject /\ x.toolset = NoObject
      /\ x.adapters = <<>> /\ x.conv = NoObject
  <2>1. NoObject \in Links /\ <<>> \in Seq(Objects)
    BY DEF Links
  <2> QED
    BY <2>1 DEF Newborn, GraphRecords
<1> HIDE DEF R
<1>4. obj' = Put(obj, o, x)
  BY <1>1, <1>2 DEF Made, Put, Graphs, Fresh, Newborn
<1> HIDE DEF x
<1>5. obj' \in Graphs /\ obj'[o] = x /\ \A p \in Objects : p # o => obj'[p] = obj[p]
  BY <1>1, <1>3, <1>4, GraphPut
<1>6. Balanced(obj', R)
  BY <1>1, <1>3, <1>4, BalancedPut DEF Shared
<1>7. \A p \in Objects \ {o} : Stays(obj, obj', p) /\ SameLinks(obj, obj', p)
  BY <1>5 DEF Stays, SameLinks
<1>8. LinksAt(obj', o)
  BY <1>1, <1>3, <1>5, NewLinks
<1>9. ASSUME NEW q \in Objects, NEW r \in References
      PROVE  r \in R[q] <=> IF r[1] = o THEN RefersTo(obj', leaked, r, q) ELSE r \in R[q]
  <2>1. CASE r[1] = o
    <3>1. r \notin R[q]
      BY <1>2, <2>1, TableHas DEF R
    <3>2. ~RefersTo(obj', leaked, r, q)
      BY <1>1, <1>2, <1>3, <1>5, <2>1, GraphConstants DEF RefersTo, Shared
    <3> QED
      BY <2>1, <3>1, <3>2
  <2> QED
    BY <2>1
<1>10. InOrder(obj', leaked)
  BY <1>1, <1>3, <1>5, <1>6, <1>7, <1>8, <1>9, NewObject DEF R
<1> QED
  BY <1>1, <1>10 DEF GraphInv

\* The references that come with a new object o: its own links and, if w, the
\* caller's.
Brings(o, w, m, t, r, q) ==
  \/ r = <<o, "toolset", 0>> /\ q = t
  \/ r = <<o, "model", 0>> /\ q = m /\ KindOf[o] # "agent"
  \/ r = <<o, "caller", 0>> /\ q = o /\ w /\ KindOf[o] \in Shared

LEMMA NewbornRefers ==
  ASSUME NEW h, NEW lost, NEW o \in Objects, o \notin lost, h[o].mem = "live", h[o].adapters = <<>>,
         NEW q \in Objects, NEW r \in References, r[1] = o
  PROVE  RefersTo(h, lost, r, q) <=> Brings(o, h[o].owned, h[o].model, h[o].toolset, r, q)
<1>1. r = <<o, r[2], r[3]>> /\ r[2] \in {"toolset", "model", "adapters", "caller", "leak"}
  BY ReferenceParts DEF References
<1>2. CASE r[2] = "toolset"
  BY <1>1, <1>2 DEF RefersTo, Brings
<1>3. CASE r[2] = "model"
  BY <1>1, <1>3 DEF RefersTo, Brings
<1>4. CASE r[2] = "caller"
  <2>1. RefersTo(h, lost, r, q) <=> r[3] = 0 /\ o = q /\ h[q].owned /\ KindOf[q] \in Shared
    BY <1>1, <1>4 DEF RefersTo
  <2>2. Brings(o, h[o].owned, h[o].model, h[o].toolset, r, q) <=>
          r[3] = 0 /\ q = o /\ h[o].owned /\ KindOf[o] \in Shared
    BY <1>1, <1>4 DEF Brings
  <2> QED
    BY <2>1, <2>2
<1>5. CASE r[2] \in {"adapters", "leak"}
  BY <1>1, <1>5 DEF RefersTo, Brings
<1> QED
  BY <1>1, <1>2, <1>3, <1>4, <1>5

\* A graph in order, with counts raised for what a new object brings.
LEMMA BornStep ==
  ASSUME NEW g, NEW lost, InOrder(g, lost), NEW o \in Objects, g[o].mem = "none",
         NEW g2 \in Graphs, \A p \in Objects : Stays(g, g2, p) /\ SameLinks(g, g2, p),
         NEW n \in Nat, NEW w \in BOOLEAN, NEW m \in Links, NEW t \in Links, NEW h, NEW S, Balanced(h, S),
         h = Put(g2, o, Newborn(n, w, m, t)),
         IF KindOf[o] \in {"adapter", "session", "conv", "embedder", "agent"}
         THEN m \in OfKind("model") ELSE m = NoObject,
         t # NoObject => t \in OfKind("toolset") /\ KindOf[o] \in {"session", "conv", "agent"},
         KindOf[o] = "agent" => Live(g, m) /\ g[m].owned,
         \A q \in Objects, r \in References :
           r \in S[q] <=> r \in AllReferences(g, lost)[q] \/ Brings(o, w, m, t, r, q)
  PROVE  InOrder(h, lost)
<1> DEFINE x == Newborn(n, w, m, t)
<1>1. /\ x \in GraphRecords /\ x.mem = "live" /\ x.reg = TRUE /\ x.owned = w /\ x.model = m
      /\ x.toolset = t /\ x.adapters = <<>> /\ x.conv = NoObject
  <2>1. NoObject \in Links /\ <<>> \in Seq(Objects)
    BY DEF Links
  <2> QED
    BY <2>1 DEF Newborn, GraphRecords
<1> HIDE DEF x
<1>2. h \in Graphs /\ h[o] = x /\ \A p \in Objects : p # o => h[p] = g2[p]
  <2>1. h = Put(g2, o, x)
    BY DEF x
  <2> QED
    BY <1>1, <2>1, GraphPut
<1>3. /\ ~Live(g, o) /\ o \notin lost
      /\ \A q \in Objects, r \in References : r[1] = o => ~RefersTo(g, lost, r, q)
  BY Unborn
<1>4. \A p \in Objects \ {o} : Stays(g, h, p) /\ SameLinks(g, h, p)
  BY <1>2 DEF Stays, SameLinks, Live
<1>5. LinksAt(h, o)
  BY <1>1, <1>2, NewLinks
<1>6. KindOf[o] = "agent" => Live(h, h[o].model) /\ h[h[o].model].owned
  <2>1. SUFFICES ASSUME KindOf[o] = "agent" PROVE Live(h, m) /\ h[m].owned
    BY <1>1, <1>2
  <2>2. m \in Objects /\ Live(g, m) /\ g[m].owned /\ m # o
    BY <2>1, <1>3 DEF OfKind
  <2>3. SameLinks(g, h, m)
    BY <2>2, <1>4
  <2> QED
    BY <2>2, <2>3 DEF SameLinks, Live
<1>7. ASSUME NEW q \in Objects, NEW r \in References
      PROVE  r \in S[q] <=> IF r[1] = o THEN RefersTo(h, lost, r, q) ELSE r \in AllReferences(g, lost)[q]
  <2>1. CASE r[1] = o
    <3>1. r \notin AllReferences(g, lost)[q]
      BY <1>3, <2>1, TableHas
    <3>2. /\ o \notin lost /\ h[o].mem = "live" /\ h[o].adapters = <<>>
          /\ h[o].owned = w /\ h[o].model = m /\ h[o].toolset = t
      BY <1>1, <1>2, <1>3
    <3>3. RefersTo(h, lost, r, q) <=> Brings(o, h[o].owned, h[o].model, h[o].toolset, r, q)
      BY <2>1, <3>2, NewbornRefers
    <3> QED
      BY <2>1, <3>1, <3>2, <3>3
  <2>2. CASE r[1] # o
    <3>1. ~Brings(o, w, m, t, r, q)
      BY <2>2 DEF Brings
    <3> QED
      BY <2>2, <3>1
  <2> QED
    BY <2>1, <2>2
<1>8. h[o].mem = "live" /\ h[o].reg /\ h[o].conv = NoObject
  BY <1>1, <1>2
<1> QED
  BY <1>4, <1>5, <1>6, <1>7, <1>8, NewObject

LEMMA WithHas ==
  ASSUME NEW R \in RefTables, NEW t \in Objects, NEW k
  PROVE  \A q \in Objects : \A r : r \in With(R, t, k)[q] <=> r \in R[q] \/ (q = t /\ r = k)
BY DEF With, RefTables

\* model_load, toolset_create
LEMMA RootStep ==
  ASSUME GraphInv, NEW o \in Objects, CreateRoot(o)
  PROVE  GraphInv'
<1> DEFINE x == Newborn(1, TRUE, NoObject, NoObject)
           R == AllReferences(obj, leaked)
           k == <<o, "caller", 0>>
           S == With(R, o, k)
<1>1. /\ InOrder(obj, leaked) /\ obj[o].mem = "none" /\ KindOf[o] \in {"model", "toolset"}
      /\ obj \in Graphs /\ R \in RefTables /\ Balanced(obj, R) /\ k \in References
      /\ leaked' = leaked /\ obj' = [Made(obj, o) EXCEPT ![o].refs = 1]
  BY GraphFacts, ReferenceForm DEF GraphInv, InOrder, CreateRoot
<1>2. obj[o] = Fresh /\ ~Live(obj, o)
  BY <1>1, Unborn
<1>3. NoObject \in Links /\ 1 \in Nat /\ TRUE \in BOOLEAN
  BY DEF Links
<1>4. x \in GraphRecords /\ x.mem = "live" /\ x.reg /\ x.refs = 1
  <2>1. NoObject \in Links /\ <<>> \in Seq(Objects)
    BY DEF Links
  <2> QED
    BY <2>1, <1>3 DEF Newborn, GraphRecords
<1>5. obj' = Put(obj, o, x)
  BY <1>1, <1>2 DEF Made, Put, Graphs, Fresh, Newborn
<1>6. \A q \in Objects, r \in References : r \in S[q] <=> r \in R[q] \/ Brings(o, TRUE, NoObject, NoObject, r, q)
  <2>1. \A q \in Objects : \A r : r \in S[q] <=> r \in R[q] \/ (q = o /\ r = k)
    BY <1>1, WithHas
  <2> HIDE DEF R, S
  <2>2. \A q \in Objects, r \in References : Brings(o, TRUE, NoObject, NoObject, r, q) <=> q = o /\ r = k
    BY <1>1, GraphConstants DEF Brings, Shared
  <2> QED
    BY <2>1, <2>2
<1> HIDE DEF R, S, k, x
<1>7. Balanced(obj', S)
  <2>1. k[2] # "model" /\ KindOf[o] \in Shared /\ KindOf[o] # "adapter"
    BY <1>1 DEF k, Shared
  <2>2. Balanced(obj, R) /\ ~Live(obj, o) /\ k \in References
    BY <1>1, <1>2
  <2> HIDE <1>1
  <2>3. Balanced(Put(obj, o, x), With(R, o, k))
    BY <1>4, <2>1, <2>2, BirthStep
  <2> QED
    BY <2>3, <1>5 DEF S
<1>8. \A p \in Objects : Stays(obj, obj, p) /\ SameLinks(obj, obj, p)
  BY DEF Stays, SameLinks
<1>9. InOrder(obj', leaked)
  <2>1. InOrder(obj, leaked) /\ obj[o].mem = "none" /\ obj \in Graphs
    BY <1>1
  <2>2. obj' = Put(obj, o, Newborn(1, TRUE, NoObject, NoObject))
    BY <1>5 DEF x
  <2>3. /\ IF KindOf[o] \in {"adapter", "session", "conv", "embedder", "agent"}
           THEN NoObject \in OfKind("model") ELSE NoObject = NoObject
        /\ KindOf[o] # "agent"
    BY <1>1
  <2> QED
    BY <2>1, <2>2, <2>3, <1>3, <1>6, <1>7, <1>8, BornStep DEF R
<1> QED
  BY <1>1, <1>9 DEF GraphInv

\* A link that is counted when there is one.
Kept(g, t) == IF t = NoObject THEN g ELSE Retain(g, t)
Noted(R, t, k) == IF t = NoObject THEN R ELSE With(R, t, k)

LEMMA KeptStep ==
  ASSUME NEW g, NEW R, Balanced(g, R), NEW t \in Links, NEW k \in References,
         t # NoObject => KindOf[t] \in Shared /\ Live(g, t) /\ k \notin R[t],
         ~(k[2] = "model" /\ KindOf[k[1]] = "adapter" /\ Live(g, k[1]))
  PROVE  /\ Balanced(Kept(g, t), Noted(R, t, k))
         /\ \A p \in Objects : Stays(g, Kept(g, t), p) /\ SameLinks(g, Kept(g, t), p)
         /\ \A q \in Objects : \A r : r \in Noted(R, t, k)[q] <=> r \in R[q] \/ (q = t /\ r = k)
<1>1. CASE t = NoObject
  <2>1. Kept(g, t) = g /\ Noted(R, t, k) = R /\ \A q \in Objects : q # t
    BY <1>1, GraphConstants DEF Kept, Noted
  <2>2. \A p \in Objects : Stays(g, g, p) /\ SameLinks(g, g, p)
    BY DEF Stays, SameLinks
  <2> QED
    BY <2>1, <2>2
<1>2. CASE t # NoObject
  <2>1. Kept(g, t) = Retain(g, t) /\ Noted(R, t, k) = With(R, t, k) /\ t \in Objects
    BY <1>2 DEF Kept, Noted, Links
  <2>2. KindOf[t] \in Shared /\ Live(g, t) /\ k \notin R[t]
    BY <1>2
  <2>3. /\ Balanced(Retain(g, t), With(R, t, k)) /\ Recounted(g, Retain(g, t), t, g[t].refs + 1)
        /\ g[t].refs + 1 \in Nat
    BY <2>1, <2>2, RetainStep
  <2>4. g \in Graphs /\ R \in RefTables
    BY DEF Balanced
  <2> DEFINE n == g[t].refs + 1
             d == Retain(g, t)
  <2> HIDE DEF n, d
  <2>5. Recounted(g, d, t, n) /\ n \in Nat
    BY <2>3 DEF n, d
  <2>6. /\ \A p \in Objects : /\ d[p].mem = g[p].mem /\ d[p].reg = g[p].reg /\ d[p].owned = g[p].owned
                              /\ d[p].model = g[p].model /\ d[p].toolset = g[p].toolset
                              /\ d[p].adapters = g[p].adapters /\ d[p].conv = g[p].conv
        /\ \A p \in Objects : Stays(g, d, p)
    BY <2>1, <2>2, <2>4, <2>5, RecountedIs
  <2>7. \A p \in Objects : Stays(g, d, p) /\ SameLinks(g, d, p)
    BY <2>6 DEF SameLinks
  <2>8. \A q \in Objects : \A r : r \in With(R, t, k)[q] <=> r \in R[q] \/ (q = t /\ r = k)
    BY <2>1, <2>4, WithHas
  <2> QED
    BY <2>1, <2>3, <2>7, <2>8 DEF d
<1> QED
  BY <1>1, <1>2

\* adapter_load
LEMMA AdapterLoadStep ==
  ASSUME GraphInv, NEW o \in Objects, AdapterLoad(o)
  PROVE  GraphInv'
<1> DEFINE R == AllReferences(obj, leaked)
           j == <<o, "model", 0>>
           k == <<o, "caller", 0>>
<1>1. PICK m \in Lookup("model") :
        /\ o \in Unmade("adapter")
        /\ obj' = [Made(Retain(obj, m), o) EXCEPT ![o].refs = 1, ![o].model = m]
        /\ UNCHANGED leaked
  BY DEF AdapterLoad
<1> DEFINE x == Newborn(1, TRUE, m, NoObject)
           g1 == Kept(obj, m)
           R1 == Noted(R, m, j)
           S == With(R1, o, k)
<1>2. /\ InOrder(obj, leaked) /\ obj[o].mem = "none" /\ KindOf[o] = "adapter" /\ leaked' = leaked
      /\ obj \in Graphs /\ R \in RefTables /\ Balanced(obj, R) /\ j \in References /\ k \in References
      /\ m \in OfKind("model") /\ m \in Objects /\ KindOf[m] = "model" /\ Live(obj, m) /\ m # NoObject
      /\ m \in Links /\ NoObject \in Links
  BY <1>1, GraphFacts, ReferenceForm, GraphConstants DEF GraphInv, InOrder, Unmade, Lookup, OfKind, Links
<1>3. obj[o] = Fresh /\ ~Live(obj, o) /\ R[o] = {}
      /\ \A q \in Objects, r \in References : r[1] = o => ~RefersTo(obj, leaked, r, q)
  BY <1>2, Unborn
<1>4. \A q \in Objects, r \in References : r[1] = o => r \notin R[q]
  BY <1>3, TableHas
<1>5. x \in GraphRecords /\ x.mem = "live" /\ x.reg /\ x.refs = 1 /\ x.model = m
  <2>1. <<>> \in Seq(Objects)
    OBVIOUS
  <2> QED
    BY <1>2, <2>1 DEF Newborn, GraphRecords
<1> HIDE DEF R, g1, R1
<1>6. /\ Balanced(g1, R1)
      /\ \A p \in Objects : Stays(obj, g1, p) /\ SameLinks(obj, g1, p)
      /\ \A q \in Objects : \A r : r \in R1[q] <=> r \in R[q] \/ (q = m /\ r = j)
  <2>1. j \notin R[m] /\ KindOf[m] \in Shared
    BY <1>2, <1>4 DEF Shared
  <2>2. ~(j[2] = "model" /\ KindOf[j[1]] = "adapter" /\ Live(obj, j[1]))
    BY <1>3
  <2> HIDE DEF j
  <2> QED
    BY <1>2, <2>1, <2>2, KeptStep DEF g1, R1
<1>7. g1 \in Graphs /\ R1 \in RefTables
  BY <1>6 DEF Balanced
<1>8. obj' = Put(g1, o, x)
  <2>1. g1 = Retain(obj, m) /\ o # m
    BY <1>2 DEF g1, Kept
  <2>2. g1[o] = Fresh
    BY <1>2, <1>3, <2>1 DEF Retain, Graphs
  <2> QED
    BY <1>1, <1>7, <2>1, <2>2 DEF Made, Put, Graphs, Fresh, Newborn
<1>9. \A q \in Objects, r \in References : r \in S[q] <=> r \in R[q] \/ Brings(o, TRUE, m, NoObject, r, q)
  <2>1. \A q \in Objects : \A r : r \in S[q] <=> r \in R1[q] \/ (q = o /\ r = k)
    BY <1>2, <1>7, WithHas
  <2> HIDE DEF S
  <2>2. \A q \in Objects, r \in References :
          Brings(o, TRUE, m, NoObject, r, q) <=> (q = o /\ r = k) \/ (q = m /\ r = j)
    BY <1>2, GraphConstants DEF Brings, Shared
  <2> QED
    BY <1>6, <2>1, <2>2
<1> HIDE DEF S, x
<1>10. Balanced(obj', S)
  <2>1. k[2] # "model" /\ KindOf[o] \in Shared /\ ~Live(g1, o)
    BY <1>2, <1>3, <1>6 DEF k, Shared, SameLinks, Live
  <2>2. /\ x.model \in OfKind("model") /\ <<o, "model", 0>> \in R1[x.model]
        /\ \A p \in Objects : \A q \in R1[p] : q[1] = o /\ q[2] = "model" => p = x.model /\ q[3] = 0
    <3>1. \A p \in Objects : R[p] \subseteq References
      BY <1>2 DEF RefTables
    <3> QED
      BY <1>2, <1>4, <1>5, <1>6, <3>1
  <2>3. k \in References
    BY <1>2
  <2> HIDE DEF k
  <2> HIDE <1>1, <1>2
  <2>4. Balanced(Put(g1, o, x), With(R1, o, k))
    BY <1>5, <1>6, <2>1, <2>2, <2>3, BirthStep
  <2> QED
    BY <2>4, <1>8 DEF S
<1>11. InOrder(obj', leaked)
  <2>1. obj' = Put(g1, o, Newborn(1, TRUE, m, NoObject)) /\ 1 \in Nat /\ TRUE \in BOOLEAN
    BY <1>8 DEF x
  <2> QED
    BY <1>2, <1>6, <1>7, <1>9, <1>10, <2>1, BornStep DEF R
<1> QED
  BY <1>2, <1>11 DEF GraphInv

\* The links a holder o of model m and toolset t has counted: an agent's model is
\* not among them.
Linked(g, o, m, t) == Kept(Kept(g, IF KindOf[o] = "agent" THEN NoObject ELSE m), t)

\* session_create, conv_create, embedder_create, agent_create
LEMMA HolderBirth ==
  ASSUME NEW g, NEW lost, InOrder(g, lost), NEW o \in Objects, g[o].mem = "none",
         KindOf[o] \in {"session", "conv", "embedder", "agent"},
         NEW m \in OfKind("model"), Live(g, m), KindOf[o] = "agent" => g[m].owned,
         NEW t \in Links,
         t # NoObject => t \in OfKind("toolset") /\ Live(g, t) /\ KindOf[o] # "embedder",
         NEW w \in BOOLEAN, NEW h, h = Put(Linked(g, o, m, t), o, Newborn(0, w, m, t))
  PROVE  InOrder(h, lost)
<1> DEFINE R == AllReferences(g, lost)
           l == IF KindOf[o] = "agent" THEN NoObject ELSE m
           j == <<o, "model", 0>>
           k == <<o, "toolset", 0>>
           x == Newborn(0, w, m, t)
           g1 == Kept(g, l)
           R1 == Noted(R, l, j)
           g2 == Kept(g1, t)
           S == Noted(R1, t, k)
<1>1. /\ g \in Graphs /\ R \in RefTables /\ Balanced(g, R) /\ j \in References /\ k \in References
      /\ m \in Objects /\ KindOf[m] = "model" /\ m # NoObject /\ m \in Links /\ l \in Links
      /\ l # NoObject => l = m
  BY GraphFacts, ReferenceForm, GraphConstants DEF InOrder, OfKind, Links
<1>2. /\ ~Live(g, o)
      /\ \A q \in Objects, r \in References : r[1] = o => r \notin R[q]
  BY Unborn, TableHas
<1>3. x \in GraphRecords
  <2>1. <<>> \in Seq(Objects) /\ NoObject \in Links
    BY DEF Links
  <2> QED
    BY <1>1, <2>1 DEF Newborn, GraphRecords
<1>4. /\ j[1] = o /\ k[1] = o /\ k[2] # "model" /\ KindOf[o] # "adapter" /\ KindOf[o] \notin Shared
  BY DEF Shared
<1>5. \A q \in Objects, r \in References :
        Brings(o, w, m, t, r, q) <=> (q = l /\ r = j) \/ (q = t /\ r = k)
  BY <1>1, <1>4, GraphConstants DEF Brings
<1>6. t # NoObject => t \in Objects /\ KindOf[t] = "toolset"
  BY DEF OfKind
<1> HIDE DEF R, l, j, k, x, g1, R1, g2, S
<1>7. /\ Balanced(g1, R1)
      /\ \A p \in Objects : Stays(g, g1, p) /\ SameLinks(g, g1, p)
      /\ \A q \in Objects : \A r : r \in R1[q] <=> r \in R[q] \/ (q = l /\ r = j)
  <2>1. l # NoObject => KindOf[l] \in Shared /\ Live(g, l) /\ j \notin R[l]
    BY <1>1, <1>2, <1>4 DEF Shared
  <2>2. ~(j[2] = "model" /\ KindOf[j[1]] = "adapter" /\ Live(g, j[1]))
    BY <1>4
  <2> QED
    BY <1>1, <2>1, <2>2, KeptStep DEF g1, R1
<1>8. /\ Balanced(g2, S)
      /\ \A p \in Objects : Stays(g1, g2, p) /\ SameLinks(g1, g2, p)
      /\ \A q \in Objects : \A r : r \in S[q] <=> r \in R1[q] \/ (q = t /\ r = k)
  <2>1. t # NoObject => KindOf[t] \in Shared /\ Live(g1, t) /\ k \notin R1[t]
    <3>1. k # j
      BY DEF k, j
    <3> QED
      BY <1>1, <1>2, <1>4, <1>6, <1>7, <3>1 DEF Shared, SameLinks, Live
  <2>2. ~(k[2] = "model" /\ KindOf[k[1]] = "adapter" /\ Live(g1, k[1]))
    BY <1>4
  <2> QED
    BY <1>1, <1>7, <2>1, <2>2, KeptStep DEF g2, S
<1>9. \A p \in Objects : Stays(g, g2, p) /\ SameLinks(g, g2, p)
  BY <1>7, <1>8 DEF Stays, SameLinks, Live
<1>10. h = Put(g2, o, x)
  BY DEF Linked, g2, g1, l, x
<1>11. Balanced(h, S)
  BY <1>3, <1>4, <1>8, <1>10, BalancedPut
<1>12. \A q \in Objects, r \in References : r \in S[q] <=> r \in R[q] \/ Brings(o, w, m, t, r, q)
  BY <1>5, <1>7, <1>8
<1> QED
  <2>1. h = Put(g2, o, Newborn(0, w, m, t)) /\ 0 \in Nat /\ g2 \in Graphs
    BY <1>8, <1>10 DEF x, Balanced
  <2>2. t # NoObject => t \in OfKind("toolset") /\ KindOf[o] \in {"session", "conv", "agent"}
    OBVIOUS
  <2> QED
    BY <1>1, <1>9, <1>11, <1>12, <2>1, <2>2, BornStep DEF R

LEMMA RetainIs ==
  ASSUME NEW g \in Graphs, NEW t \in Objects
  PROVE  /\ Retain(g, t)[t] = [g[t] EXCEPT !.refs = @ + 1]
         /\ \A p \in Objects : p # t => Retain(g, t)[p] = g[p]
         /\ Retain(g, t) \in Graphs
<1>1. g[t] \in GraphRecords
  BY DEF Graphs
<1>2. [g[t] EXCEPT !.refs = @ + 1] \in GraphRecords
  BY <1>1 DEF GraphRecords
<1> QED
  BY <1>2 DEF Retain, Graphs

LEMMA SameRecord ==
  ASSUME NEW x \in GraphRecords, NEW y \in GraphRecords,
         x.mem = y.mem, x.reg = y.reg, x.refs = y.refs, x.owned = y.owned, x.model = y.model,
         x.toolset = y.toolset, x.adapters = y.adapters, x.conv = y.conv
  PROVE  x = y
BY DEF GraphRecords

\* a new object with a model, and with a toolset
MadeOf(g, o, m)      == [Made(g, o) EXCEPT ![o].model = m]
MadeWith(g, o, m, t) == [Made(g, o) EXCEPT ![o].model = m, ![o].toolset = t]

LEMMA MadeIs ==
  ASSUME NEW g \in Graphs, NEW o \in Objects, g[o] = Fresh, NEW m \in Links, NEW t \in Links
  PROVE  /\ MadeOf(g, o, m) = Put(g, o, Newborn(0, TRUE, m, NoObject))
         /\ MadeWith(g, o, m, t) = Put(g, o, Newborn(0, TRUE, m, t))
<1> DEFINE x1 == [Fresh EXCEPT !.mem = "live"]
           x2 == [x1 EXCEPT !.reg = TRUE]
           x3 == [x2 EXCEPT !.owned = TRUE]
           x4 == [x3 EXCEPT !.model = m]
           x5 == [x4 EXCEPT !.toolset = t]
           y1 == Newborn(0, TRUE, m, NoObject)
           y2 == Newborn(0, TRUE, m, t)
<1>1. NoObject \in Links /\ <<>> \in Seq(Objects)
  BY DEF Links
<1>2. x4 = y1
  <2>1. x4 \in GraphRecords /\ y1 \in GraphRecords
    BY <1>1 DEF GraphRecords, Fresh, Newborn
  <2>2. /\ x4.mem = y1.mem /\ x4.reg = y1.reg /\ x4.refs = y1.refs /\ x4.owned = y1.owned
        /\ x4.model = y1.model /\ x4.toolset = y1.toolset /\ x4.adapters = y1.adapters /\ x4.conv = y1.conv
    BY DEF Fresh, Newborn
  <2> HIDE DEF x4, y1
  <2> QED
    BY <2>1, <2>2, SameRecord
<1>9. x5 = y2
  <2>1. x5 \in GraphRecords /\ y2 \in GraphRecords
    BY <1>1 DEF GraphRecords, Fresh, Newborn
  <2>2. /\ x5.mem = y2.mem /\ x5.reg = y2.reg /\ x5.refs = y2.refs /\ x5.owned = y2.owned
        /\ x5.model = y2.model /\ x5.toolset = y2.toolset /\ x5.adapters = y2.adapters /\ x5.conv = y2.conv
    BY DEF Fresh, Newborn
  <2> HIDE DEF x5, y2
  <2> QED
    BY <2>1, <2>2, SameRecord
<1> HIDE DEF x1, x2, x3, x4, x5
<1>3. [g EXCEPT ![o].mem = "live"] = Put(g, o, x1)
  BY DEF Put, Graphs, x1
<1>4. [Put(g, o, x1) EXCEPT ![o].reg = TRUE] = Put(g, o, x2)
  BY DEF Put, Graphs, x2
<1>5. [Put(g, o, x2) EXCEPT ![o].owned = TRUE] = Put(g, o, x3)
  BY DEF Put, Graphs, x3
<1>6. [Put(g, o, x3) EXCEPT ![o].model = m] = Put(g, o, x4)
  BY DEF Put, Graphs, x4
<1>7. [Put(g, o, x4) EXCEPT ![o].toolset = t] = Put(g, o, x5)
  BY DEF Put, Graphs, x5
<1>8. Made(g, o) = Put(g, o, x3)
  BY <1>3, <1>4, <1>5 DEF Made
<1> QED
  BY <1>2, <1>6, <1>7, <1>8, <1>9 DEF MadeOf, MadeWith

LEMMA RunnerCreateStep ==
  ASSUME GraphInv, NEW o \in Objects, RunnerCreate(o)
  PROVE  GraphInv'
<1>1. PICK m \in Lookup("model") :
        /\ o \in Unmade("session") \cup Unmade("conv") \cup Unmade("embedder")
        /\ obj' = [Made(Retain(obj, m), o) EXCEPT ![o].model = m]
        /\ UNCHANGED leaked
  BY DEF RunnerCreate
<1> DEFINE d == Retain(obj, m)
<1>2. /\ InOrder(obj, leaked) /\ obj[o].mem = "none" /\ KindOf[o] \in {"session", "conv", "embedder"}
      /\ leaked' = leaked /\ obj \in Graphs
      /\ m \in OfKind("model") /\ m \in Objects /\ Live(obj, m) /\ NoObject \in Links
      /\ m # NoObject /\ o # m /\ m \in Links
  BY <1>1, GraphFacts, GraphConstants DEF GraphInv, Unmade, Lookup, OfKind, Links
<1>3. obj[o] = Fresh
  BY <1>2, Unborn
<1>4. d[o] = Fresh /\ d \in Graphs
  BY <1>2, <1>3, RetainIs
<1>5. obj' = Put(Linked(obj, o, m, NoObject), o, Newborn(0, TRUE, m, NoObject))
  <2>1. Linked(obj, o, m, NoObject) = d
    BY <1>2 DEF Linked, Kept
  <2> HIDE DEF d
  <2>2. MadeOf(d, o, m) = Put(d, o, Newborn(0, TRUE, m, NoObject))
    BY <1>2, <1>4, MadeIs
  <2> QED
    BY <1>1, <2>1, <2>2 DEF d, MadeOf
<1>6. InOrder(obj', leaked)
  BY <1>2, <1>5, HolderBirth
<1> QED
  BY <1>2, <1>6 DEF GraphInv

LEMMA AgentCreateStep ==
  ASSUME GraphInv, NEW o \in Objects, AgentCreate(o)
  PROVE  GraphInv'
<1>1. PICK m \in {r \in Lookup("model") : obj[r].owned}, t \in Lookup("toolset") \cup {NoObject} :
        /\ o \in Unmade("agent")
        /\ obj' = [Made(IF t = NoObject THEN obj ELSE Retain(obj, t), o) EXCEPT ![o].model = m, ![o].toolset = t]
        /\ UNCHANGED leaked
  BY DEF AgentCreate
<1> DEFINE d == Kept(obj, t)
<1>2. /\ InOrder(obj, leaked) /\ obj[o].mem = "none" /\ KindOf[o] = "agent"
      /\ leaked' = leaked /\ obj \in Graphs
      /\ m \in OfKind("model") /\ Live(obj, m) /\ obj[m].owned /\ m \in Links /\ t \in Links
      /\ t # NoObject => t \in OfKind("toolset") /\ t \in Objects /\ Live(obj, t) /\ o # t
  BY <1>1, GraphFacts, GraphConstants DEF GraphInv, Unmade, Lookup, OfKind, Links
<1>3. obj[o] = Fresh
  BY <1>2, Unborn
<1>4. d[o] = Fresh /\ d \in Graphs
  BY <1>2, <1>3, RetainIs DEF Kept
<1>5. obj' = Put(Linked(obj, o, m, t), o, Newborn(0, TRUE, m, t))
  <2>1. Linked(obj, o, m, t) = d /\ d = IF t = NoObject THEN obj ELSE Retain(obj, t)
    BY <1>2 DEF Linked, Kept
  <2> HIDE DEF d
  <2>2. MadeWith(d, o, m, t) = Put(d, o, Newborn(0, TRUE, m, t))
    BY <1>2, <1>4, MadeIs
  <2> QED
    BY <1>1, <2>1, <2>2 DEF MadeWith
<1>6. InOrder(obj', leaked)
  BY <1>2, <1>5, HolderBirth
<1> QED
  BY <1>2, <1>6 DEF GraphInv

\* An agent takes up a conversation that nobody else has.
LEMMA LinkConvStep ==
  ASSUME NEW g, NEW lost, InOrder(g, lost), NEW a \in OfKind("agent"), Live(g, a), g[a].conv = NoObject,
         NEW c \in OfKind("conv"), Live(g, c), ~g[c].owned,
         \A b \in OfKind("agent") : Live(g, b) => g[b].conv # c,
         NEW h, h = Put(g, a, [g[a] EXCEPT !.conv = c])
  PROVE  InOrder(h, lost)
<1> DEFINE x == [g[a] EXCEPT !.conv = c]
           R == AllReferences(g, lost)
<1>1. /\ g \in Graphs /\ lost \subseteq OfKind("model") /\ Balanced(g, R)
      /\ a \in Objects /\ KindOf[a] = "agent" /\ KindOf[a] \notin Shared /\ g[a] \in GraphRecords
      /\ c \in Objects /\ c \in Links
      /\ \A o \in Objects : LinksAt(g, o) /\ RegisteredAt(g, o) /\ AgentAt(g, o)
  BY GraphFacts DEF InOrder, OfKind, Shared, Links
<1>2. /\ x \in GraphRecords /\ x.mem = g[a].mem /\ x.reg = g[a].reg /\ x.owned = g[a].owned /\ x.model = g[a].model
      /\ x.toolset = g[a].toolset /\ x.adapters = g[a].adapters /\ x.conv = c
  BY <1>1 DEF GraphRecords
<1>3. h = Put(g, a, x)
  OBVIOUS
<1> HIDE DEF x, R
<1>4. h \in Graphs /\ h[a] = x /\ \A p \in Objects : p # a => h[p] = g[p]
  <2>1. g \in Graphs /\ a \in Objects /\ x \in GraphRecords
    BY <1>1, <1>2
  <2>2. Put(g, a, x) \in Graphs /\ Put(g, a, x)[a] = x /\ \A p \in Objects : p # a => Put(g, a, x)[p] = g[p]
    BY <2>1, GraphPut
  <2> QED
    BY <1>3, <2>2
<1>5. Balanced(h, R)
  BY <1>1, <1>2, <1>3, BalancedPut
<1>6. \A p \in Objects : SameLinks(g, h, p) /\ h[p].reg = g[p].reg /\ (Live(h, p) <=> Live(g, p))
  BY <1>2, <1>4 DEF SameLinks, Live
<1>7. Balanced(h, AllReferences(h, lost))
  <2>1. \A o \in Objects, r \in References : r \in R[o] <=> RefersTo(h, lost, r, o)
    BY <1>6, ReferenceParts, RefersSame, TableHas DEF R
  <2> QED
    BY <1>5, <2>1, TableIs
<1>8. ASSUME NEW p \in Objects
      PROVE  SoundAt(h, p)
  <2>1. LinksAt(h, p)
    BY <1>1, <1>4, <1>6 DEF LinksAt, SameLinks
  <2>2. RegisteredAt(h, p)
    BY <1>1, <1>4, <1>6 DEF RegisteredAt, SameLinks, Live
  <2>3. ASSUME KindOf[p] = "agent", Live(h, p)
        PROVE  /\ Live(h, h[p].model) /\ h[h[p].model].owned
               /\ h[p].conv # NoObject =>
                    /\ h[p].conv \in OfKind("conv") /\ Live(h, h[p].conv) /\ ~h[h[p].conv].owned
                    /\ \A b \in OfKind("agent") : Live(h, b) /\ h[b].conv = h[p].conv => b = p
    <3>1. Live(g, p) /\ h[p].model = g[p].model /\ g[p].model \in Objects
      BY <1>1, <1>6, <2>3 DEF SameLinks, LinksAt, OfKind
    <3>2. Live(g, g[p].model) /\ g[g[p].model].owned
      BY <1>1, <2>3, <3>1 DEF AgentAt
    <3>3. Live(h, h[p].model) /\ h[h[p].model].owned
      BY <1>6, <3>1, <3>2 DEF SameLinks
    <3>4. ASSUME h[p].conv # NoObject
          PROVE  /\ h[p].conv \in OfKind("conv") /\ Live(h, h[p].conv) /\ ~h[h[p].conv].owned
                 /\ \A b \in OfKind("agent") : Live(h, b) /\ h[b].conv = h[p].conv => b = p
      <4>1. CASE p = a
        <5>1. h[p].conv = c /\ Live(h, c) /\ ~h[c].owned
          BY <1>1, <1>2, <1>4, <1>6, <4>1 DEF SameLinks
        <5>2. \A b \in OfKind("agent") : b # a => h[b] = g[b] /\ (Live(h, b) <=> Live(g, b))
          BY <1>4, <1>6 DEF OfKind
        <5> QED
          BY <4>1, <5>1, <5>2
      <4>2. CASE p # a
        <5>1. h[p].conv = g[p].conv /\ g[p].conv # NoObject
          BY <1>4, <3>4, <4>2
        <5>2. /\ g[p].conv \in OfKind("conv") /\ Live(g, g[p].conv) /\ ~g[g[p].conv].owned
              /\ \A b \in OfKind("agent") : Live(g, b) /\ g[b].conv = g[p].conv => b = p
          BY <1>1, <2>3, <3>1, <5>1 DEF AgentAt
        <5>3. Live(h, h[p].conv) /\ ~h[h[p].conv].owned
          BY <1>6, <5>1, <5>2 DEF SameLinks, OfKind
        <5>4. ASSUME NEW b \in OfKind("agent"), Live(h, b), h[b].conv = h[p].conv
              PROVE  b = p
          <6>1. b # a
            <7>1. g[p].conv # c
              BY <2>3, <3>1 DEF OfKind
            <7> QED
              BY <1>2, <1>4, <5>1, <5>4, <7>1
          <6>2. b \in Objects /\ h[b] = g[b] /\ Live(g, b)
            BY <1>4, <1>6, <5>4, <6>1 DEF OfKind
          <6> QED
            BY <5>1, <5>2, <5>4, <6>2
        <5> QED
          BY <5>1, <5>2, <5>3, <5>4
      <4> QED
        BY <4>1, <4>2
    <3> QED
      BY <3>3, <3>4
  <2>4. AgentAt(h, p)
    BY <2>3 DEF AgentAt
  <2> QED
    BY <2>1, <2>2, <2>4 DEF SoundAt
<1> QED
  BY <1>1, <1>7, <1>8 DEF InOrder, Sound

\* What EnsureConversation writes, in the order of its text: the fields of the
\* conversation, the agent's link to it, the toolset's count.
ConvFields(g, c, m, t, a) ==
  [g EXCEPT ![c].mem = "live", ![c].reg = TRUE, ![c].model = m, ![c].toolset = t, ![a].conv = c]

LEMMA ConvFieldsIs ==
  ASSUME NEW g \in Graphs, NEW c \in Objects, g[c] = Fresh, NEW a \in Objects, a # c,
         NEW m \in Links, NEW t \in Links
  PROVE  ConvFields(g, c, m, t, a) = Put(Put(g, c, Newborn(0, FALSE, m, t)), a, [g[a] EXCEPT !.conv = c])
<1> DEFINE x1 == [Fresh EXCEPT !.mem = "live"]
           x2 == [x1 EXCEPT !.reg = TRUE]
           x3 == [x2 EXCEPT !.model = m]
           x4 == [x3 EXCEPT !.toolset = t]
           y == Newborn(0, FALSE, m, t)
           z == [g[a] EXCEPT !.conv = c]
<1>1. x4 = y
  <2>1. x4 \in GraphRecords /\ y \in GraphRecords
    <3>1. NoObject \in Links /\ <<>> \in Seq(Objects)
      BY DEF Links
    <3> QED
      BY <3>1 DEF GraphRecords, Fresh, Newborn
  <2>2. /\ x4.mem = y.mem /\ x4.reg = y.reg /\ x4.refs = y.refs /\ x4.owned = y.owned
        /\ x4.model = y.model /\ x4.toolset = y.toolset /\ x4.adapters = y.adapters /\ x4.conv = y.conv
    BY DEF Fresh, Newborn
  <2> HIDE DEF x4, y
  <2> QED
    BY <2>1, <2>2, SameRecord
<1> HIDE DEF x1, x2, x3, x4, y
<1> DEFINE g1 == [g EXCEPT ![c].mem = "live"]
           g2 == [g1 EXCEPT ![c].reg = TRUE]
           g3 == [g2 EXCEPT ![c].model = m]
           g4 == [g3 EXCEPT ![c].toolset = t]
           g5 == [g4 EXCEPT ![a].conv = c]
<1>2. ConvFields(g, c, m, t, a) = g5
  BY DEF ConvFields
<1> HIDE DEF g1, g2, g3, g4, g5
<1>3. g1 = Put(g, c, x1)
  BY DEF Put, Graphs, g1, x1
<1>4. g2 = Put(g, c, x2)
  BY <1>3 DEF Put, Graphs, g2, x2
<1>5. g3 = Put(g, c, x3)
  BY <1>4 DEF Put, Graphs, g3, x3
<1>6. g4 = Put(g, c, x4)
  BY <1>5 DEF Put, Graphs, g4, x4
<1>7. g5 = Put(Put(g, c, x4), a, z)
  BY <1>6 DEF Put, Graphs, g5
<1> QED
  BY <1>1, <1>2, <1>7 DEF y

LEMMA RetainLate ==
  ASSUME NEW g \in Graphs, NEW c \in Objects, NEW a \in Objects, NEW t \in Objects, t # c, t # a,
         NEW y, NEW z
  PROVE  Retain(Put(Put(g, c, y), a, z), t) = Put(Put(Retain(g, t), c, y), a, z)
BY DEF Retain, Put, Graphs

\* agent_ensure_conversation
LEMMA EnsureStep ==
  ASSUME GraphInv, NEW a \in Objects, NEW c \in Objects, EnsureConversation(a, c)
  PROVE  GraphInv'
<1> DEFINE m == obj[a].model
           t == obj[a].toolset
           d == Retain(obj, m)
           y == Newborn(0, FALSE, m, t)
           z == [obj[a] EXCEPT !.conv = c]
           h == Put(Linked(obj, c, m, t), c, y)
<1>1. /\ InOrder(obj, leaked) /\ obj \in Graphs /\ KindOf[a] = "agent" /\ Live(obj, a) /\ obj[a].conv = NoObject
      /\ KindOf[c] = "conv" /\ obj[c].mem = "none" /\ leaked' = leaked
      /\ m \in OfKind("model") /\ m \in Objects /\ KindOf[m] = "model" /\ Live(obj, m)
      /\ obj' = IF t = NoObject THEN ConvFields(d, c, m, t, a) ELSE Retain(ConvFields(d, c, m, t, a), t)
  BY GraphFacts DEF GraphInv, EnsureConversation, Lookup, Unmade, OfKind, ConvFields
<1>2. /\ \A o \in Objects : LinksAt(obj, o) /\ RegisteredAt(obj, o) /\ AgentAt(obj, o)
      /\ Balanced(obj, AllReferences(obj, leaked))
  BY <1>1, GraphFacts DEF InOrder
<1>3. /\ obj[c] = Fresh /\ ~Live(obj, c)
  BY <1>1, Unborn
<1>4. t \in Links /\ (t # NoObject => t \in OfKind("toolset") /\ t \in Objects /\ KindOf[t] = "toolset" /\ Live(obj, t))
  <2>1. t \in OfKind("toolset") \cup {NoObject}
    BY <1>1, <1>2 DEF LinksAt
  <2>2. ASSUME t # NoObject PROVE Live(obj, t)
    <3>1. <<a, "toolset", 0>> \in References /\ RefersTo(obj, leaked, <<a, "toolset", 0>>, t) /\ t \in Objects
      BY <1>1, <2>1, <2>2, ReferenceForm DEF RefersTo, OfKind, Live
    <3>2. AllReferences(obj, leaked)[t] # {}
      BY <3>1, TableHas
    <3> QED
      BY <1>2, <3>1, <3>2 DEF Balanced
  <2> QED
    BY <2>1, <2>2 DEF OfKind, Links
<1>5. InOrder(h, leaked)
  <2>1. KindOf[c] \in {"session", "conv", "embedder", "agent"} /\ KindOf[c] # "agent" /\ KindOf[c] # "embedder"
    BY <1>1
  <2> HIDE DEF m, t
  <2> QED
    BY <1>1, <1>4, <2>1, HolderBirth
<1>6. /\ Linked(obj, c, m, t) = Kept(d, t) /\ Kept(d, t) \in Graphs /\ d \in Graphs
      /\ Kept(d, t)[a] = obj[a] /\ Kept(d, t)[c] = Fresh /\ d[a] = obj[a] /\ d[c] = Fresh
      /\ \A p \in Objects : Kept(d, t)[p].conv = obj[p].conv /\ Kept(d, t)[p].mem = obj[p].mem
  <2>1. d \in Graphs /\ d[a] = obj[a] /\ d[c] = Fresh
    BY <1>1, <1>3, RetainIs
  <2>2. \A p \in Objects : d[p].conv = obj[p].conv /\ d[p].mem = obj[p].mem
    BY <1>1 DEF Retain, Graphs, GraphRecords
  <2>3. Linked(obj, c, m, t) = Kept(d, t)
    BY <1>1, GraphConstants DEF Linked, Kept
  <2> HIDE DEF m, t, d
  <2>4. CASE t = NoObject
    BY <2>1, <2>2, <2>3, <2>4 DEF Kept
  <2>5. CASE t # NoObject
    <3>1. Kept(d, t) = Retain(d, t) /\ t \in Objects /\ t # a /\ t # c
      BY <1>1, <1>4, <2>5 DEF Kept
    <3>2. Retain(d, t) \in Graphs /\ Retain(d, t)[a] = d[a] /\ Retain(d, t)[c] = d[c]
      BY <1>1, <2>1, <3>1, RetainIs
    <3>3. \A p \in Objects : Retain(d, t)[p].conv = d[p].conv /\ Retain(d, t)[p].mem = d[p].mem
      BY <2>1, <3>1 DEF Retain, Graphs, GraphRecords
    <3> QED
      BY <2>1, <2>2, <2>3, <3>1, <3>2, <3>3
  <2> QED
    BY <2>4, <2>5
<1>7. obj' = Put(h, a, z)
  <2>1. ConvFields(d, c, m, t, a) = Put(Put(d, c, y), a, z)
    <3>1. d \in Graphs /\ d[c] = Fresh /\ d[a] = obj[a] /\ m \in Links /\ t \in Links /\ a # c
      BY <1>1, <1>4, <1>6 DEF Links
    <3> HIDE DEF m, t, d
    <3>2. ConvFields(d, c, m, t, a) = Put(Put(d, c, Newborn(0, FALSE, m, t)), a, [d[a] EXCEPT !.conv = c])
      BY <3>1, ConvFieldsIs
    <3> QED
      BY <3>1, <3>2
  <2>2. CASE t = NoObject
    BY <1>1, <1>6, <2>1, <2>2 DEF Kept
  <2>3. CASE t # NoObject
    <3>1. t \in Objects /\ t # c /\ t # a /\ d \in Graphs
      BY <1>1, <1>4, <1>6, <2>3
    <3>2. Kept(d, t) = Retain(d, t)
      BY <2>3 DEF Kept
    <3> HIDE DEF m, t, d, y, z
    <3>3. Retain(Put(Put(d, c, y), a, z), t) = Put(Put(Retain(d, t), c, y), a, z)
      BY <3>1, RetainLate
    <3> QED
      BY <1>1, <1>6, <2>1, <2>3, <3>2, <3>3
  <2> QED
    BY <2>2, <2>3
<1>8. /\ h \in Graphs /\ h[a] = obj[a] /\ h[c] = y
      /\ \A p \in Objects : p # c => h[p] = Kept(d, t)[p]
  <2>1. h \in Graphs
    BY <1>5 DEF InOrder, Balanced
  <2> HIDE DEF m, t, d, y
  <2> QED
    BY <1>1, <1>6, <2>1 DEF Put, Graphs
<1>9. Live(h, c) /\ ~h[c].owned
  BY <1>8 DEF Live, Newborn
<1>10. \A b \in OfKind("agent") : Live(h, b) => h[b].conv # c
  <2>1. SUFFICES ASSUME NEW b \in OfKind("agent"), Live(h, b), h[b].conv = c PROVE FALSE
    OBVIOUS
  <2>2. b \in Objects /\ KindOf[b] = "agent" /\ b # c
    BY <1>1 DEF OfKind
  <2>3. obj[b].conv = c /\ Live(obj, b)
    BY <1>6, <1>8, <2>1, <2>2 DEF Live
  <2>4. Live(obj, c)
    BY <1>1, <1>2, <2>2, <2>3, GraphConstants DEF AgentAt
  <2> QED
    BY <1>3, <2>4
<1>11. Live(h, a) /\ h[a].conv = NoObject /\ a \in OfKind("agent") /\ c \in OfKind("conv") /\ obj' = Put(h, a, [h[a] EXCEPT !.conv = c])
  BY <1>1, <1>7, <1>8 DEF Live, OfKind
<1> HIDE DEF h
<1>12. InOrder(obj', leaked)
  BY <1>5, <1>9, <1>10, <1>11, LinkConvStep
<1> QED
  BY <1>1, <1>12 DEF GraphInv

-----------------------------------------------------------------------------
(* Steps that move references *)

\* The caller's own reference keeps an object alive.
LEMMA OwnedLive ==
  ASSUME NEW g, NEW lost, Balanced(g, AllReferences(g, lost)), NEW p \in Objects, KindOf[p] \in Shared, g[p].owned
  PROVE  Live(g, p)
<1>1. <<p, "caller", 0>> \in References /\ RefersTo(g, lost, <<p, "caller", 0>>, p)
  BY ReferenceForm DEF RefersTo
<1>2. AllReferences(g, lost)[p] # {}
  BY <1>1, TableHas
<1> QED
  BY <1>2 DEF Balanced

LEMMA ShedsNone ==
  ASSUME NEW g, NEW R, Balanced(g, R), NEW X
  PROVE  Sheds(g, R, g, R, {}, X)
BY DEF Sheds, Stays, Lost

\* Graph h is g but for the links of the objects X, graph d is h after some
\* references were dropped: what the objects X refer to now settles whether d
\* is in order.
LEMMA Settled ==
  ASSUME NEW g, NEW lost, InOrder(g, lost), NEW X \in SUBSET Objects,
         NEW h, NEW R, NEW d, NEW S, NEW G, Sheds(h, R, d, S, G, X),
         \A p \in Objects \ X : Stays(g, h, p) /\ SameLinks(g, h, p),
         \A o \in Objects, r \in References :
           IF r[1] \in X THEN r \in S[o] <=> RefersTo(d, lost, r, o)
           ELSE r \in R[o] /\ <<o, r>> \notin G <=> RefersTo(g, lost, r, o),
         \A o \in X : /\ LinksAt(d, o) /\ RegisteredAt(d, o)
                      /\ KindOf[o] = "agent" /\ Live(d, o) => d[o].conv = NoObject /\ d[d[o].model].owned,
         \A a \in OfKind("agent") \ X : Live(g, a) =>
           /\ g[a].model \in X => d[g[a].model].owned
           /\ g[a].conv \in X => Live(d, g[a].conv) /\ ~d[g[a].conv].owned
  PROVE  InOrder(d, lost)
<1>1. /\ g \in Graphs /\ lost \subseteq OfKind("model") /\ Sound(g) /\ d \in Graphs
      /\ \A p \in Objects : LinksAt(g, p)
  BY GraphFacts DEF Sheds, Balanced
<1>2. \A p \in Objects \ X : LinksAt(h, p)
  BY <1>1 DEF LinksAt, Stays, SameLinks, Live
<1>3. \A o \in Objects, r \in References :
        IF r[1] \in X THEN r \in S[o] <=> RefersTo(d, lost, r, o)
        ELSE r \in R[o] /\ <<o, r>> \notin G <=> RefersTo(h, lost, r, o)
  BY ReferenceParts, RefersSame
<1>4. Balanced(d, AllReferences(d, lost))
  BY <1>2, <1>3, ShedsTable
<1>5. \A p \in Objects \ X : Stays(g, d, p)
  BY DEF Sheds, Stays, SameLinks, Live
<1>6. ASSUME NEW o \in X
      PROVE  SoundAt(d, o)
  <2>1. ASSUME KindOf[o] = "agent", Live(d, o)
        PROVE  d[o].conv = NoObject /\ d[d[o].model].owned /\ Live(d, d[o].model)
    <3>1. d[o].model \in Objects /\ KindOf[d[o].model] \in Shared
      BY <2>1 DEF LinksAt, OfKind, Shared
    <3> QED
      BY <1>4, <2>1, <3>1, OwnedLive
  <2>2. AgentAt(d, o)
    BY <2>1 DEF AgentAt
  <2> QED
    BY <2>2 DEF SoundAt
<1>7. Sound(d)
  BY <1>1, <1>4, <1>5, <1>6, SoundKept
<1> QED
  BY <1>1, <1>4, <1>7 DEF InOrder

\* session_create without memory
LEMMA NoMemoryStep ==
  ASSUME GraphInv, SessionCreateNoMemory
  PROVE  GraphInv'
<1>1. PICK m \in Lookup("model") : m \notin leaked /\ obj' = Retain(obj, m) /\ leaked' = leaked \cup {m}
  BY DEF SessionCreateNoMemory
<1> DEFINE R == AllReferences(obj, leaked)
           k == <<m, "leak", 0>>
           S == Noted(R, m, k)
           d == Kept(obj, m)
<1>2. /\ InOrder(obj, leaked) /\ obj \in Graphs /\ Sound(obj) /\ R \in RefTables /\ Balanced(obj, R)
      /\ m \in OfKind("model") /\ m \in Objects /\ KindOf[m] \in Shared /\ Live(obj, m) /\ m # NoObject
      /\ m \in Links /\ k \in References /\ leaked \subseteq OfKind("model")
  BY <1>1, GraphFacts, ReferenceForm, GraphConstants DEF GraphInv, InOrder, Lookup, OfKind, Links, Shared
<1>3. k \notin R[m]
  BY <1>1, <1>2, TableHas DEF RefersTo
<1>4. \A o \in Objects, r \in References :
        RefersTo(obj, leaked', r, o) <=> RefersTo(obj, leaked, r, o) \/ (o = m /\ r = k)
  <2> SUFFICES ASSUME NEW o \in Objects, NEW r \in References
               PROVE  RefersTo(obj, leaked', r, o) <=> RefersTo(obj, leaked, r, o) \/ (o = m /\ r = k)
    OBVIOUS
  <2>1. r = <<r[1], r[2], r[3]>>
    BY ReferenceParts
  <2>2. o = m /\ r = k <=> r[2] = "leak" /\ r[3] = 0 /\ r[1] = o /\ o = m
    BY <2>1
  <2> HIDE DEF k
  <2>3. RefersTo(obj, leaked', r, o) <=>
          RefersTo(obj, leaked, r, o) \/ (r[2] = "leak" /\ r[3] = 0 /\ r[1] = o /\ o = m)
    BY <1>1 DEF RefersTo
  <2> QED
    BY <2>2, <2>3
<1>5. k[2] # "model"
  OBVIOUS
<1> HIDE DEF R, S, d, k
<1>6. /\ Balanced(d, S)
      /\ \A p \in Objects : Stays(obj, d, p) /\ SameLinks(obj, d, p)
      /\ \A q \in Objects : \A r : r \in S[q] <=> r \in R[q] \/ (q = m /\ r = k)
  BY <1>2, <1>3, <1>5, KeptStep DEF S, d
<1>7. Balanced(d, AllReferences(d, leaked'))
  <2>1. \A o \in Objects, r \in References : r \in S[o] <=> RefersTo(d, leaked', r, o)
    <3>1. \A o \in Objects, r \in References : RefersTo(d, leaked', r, o) <=> RefersTo(obj, leaked', r, o)
      BY <1>6, ReferenceParts, RefersSame
    <3>2. \A o \in Objects, r \in References : r \in R[o] <=> RefersTo(obj, leaked, r, o)
      BY TableHas DEF R
    <3> QED
      BY <1>4, <1>6, <3>1, <3>2
  <2> QED
    BY <1>6, <2>1, TableIs
<1>8. Sound(d)
  <2> DEFINE X == {}
  <2>1. /\ X \in SUBSET Objects /\ \A p \in Objects \ X : Stays(obj, d, p)
        /\ \A o \in X : SoundAt(d, o)
        /\ \A a \in OfKind("agent") \ X : Live(obj, a) =>
             /\ obj[a].model \in X => d[obj[a].model].owned
             /\ obj[a].conv \in X => Live(d, obj[a].conv) /\ ~d[obj[a].conv].owned
    BY <1>6
  <2> HIDE DEF X
  <2>2. d \in Graphs
    BY <1>6 DEF Balanced
  <2> QED
    BY <1>2, <1>7, <2>1, <2>2, SoundKept
<1>9. leaked' \subseteq OfKind("model") /\ obj' = d
  BY <1>1, <1>2 DEF d, Kept
<1> QED
  BY <1>7, <1>8, <1>9 DEF GraphInv, InOrder

\* A session, a conversation or another object without a count has its record
\* changed, and no more than its links.
LEMMA HolderPut ==
  ASSUME NEW g \in Graphs, NEW s \in Objects, KindOf[s] \notin Shared, NEW y \in GraphRecords,
         NEW h, h = Put(g, s, y)
  PROVE  /\ h \in Graphs /\ h[s] = y
         /\ \A p \in Objects \ {s} : h[p] = g[p] /\ Stays(g, h, p) /\ SameLinks(g, h, p)
<1>1. h \in Graphs /\ h[s] = y /\ \A p \in Objects : p # s => h[p] = g[p]
  BY GraphPut
<1> QED
  BY <1>1 DEF Stays, SameLinks

\* session_adapters_add
LEMMA AdaptersAddStep ==
  ASSUME GraphInv, NEW s \in Objects, AdaptersAdd(s)
  PROVE  GraphInv'
<1>1. PICK a \in Lookup("adapter") :
        /\ s \in Lookup("session") /\ Len(obj[s].adapters) < MaxAdapters
        /\ obj' = [Retain(obj, a) EXCEPT ![s].adapters = Append(@, a)]
        /\ UNCHANGED leaked
  BY DEF AdaptersAdd
<1> DEFINE R == AllReferences(obj, leaked)
           list == obj[s].adapters
           longer == Append(list, a)
           n == Len(list) + 1
           k == Entry(s, n)
           S == Noted(R, a, k)
           g1 == Kept(obj, a)
           y == [obj[s] EXCEPT !.adapters = longer]
<1>2. /\ InOrder(obj, leaked) /\ obj \in Graphs /\ R \in RefTables /\ Balanced(obj, R) /\ leaked' = leaked
      /\ KindOf[s] = "session" /\ Live(obj, s) /\ obj[s] \in GraphRecords
      /\ LinksAt(obj, s) /\ RegisteredAt(obj, s)
      /\ a \in Objects /\ KindOf[a] = "adapter" /\ a \in OfKind("adapter") /\ Live(obj, a) /\ a # NoObject
      /\ a \in Links
      /\ \A p \in Objects : AgentAt(obj, p)
  BY <1>1, GraphFacts, GraphConstants DEF GraphInv, InOrder, Lookup, OfKind, Links
<1>3. /\ list \in Seq(OfKind("adapter")) /\ Len(list) \in Nat /\ n \in 1 .. MaxAdapters /\ Len(list) < MaxAdapters
  BY <1>1, <1>2, GraphConstants DEF LinksAt
<1>4. /\ longer \in Seq(OfKind("adapter")) /\ Len(longer) = n /\ longer \in Seq(Objects)
      /\ DOMAIN list = 1 .. Len(list) /\ DOMAIN longer = 1 .. n
      /\ \A i \in 1 .. Len(list) : longer[i] = list[i]
      /\ longer[n] = a
  BY <1>2, <1>3 DEF OfKind
<1>5. /\ y \in GraphRecords /\ y.mem = obj[s].mem /\ y.reg = obj[s].reg /\ y.owned = obj[s].owned
      /\ y.model = obj[s].model /\ y.toolset = obj[s].toolset /\ y.adapters = longer /\ y.conv = obj[s].conv
  BY <1>2, <1>4 DEF GraphRecords
<1>6. k \in References /\ k[2] = "adapters" /\ k[1] = s /\ k[3] = n
  <2>1. n \in 0 .. MaxAdapters
    BY <1>3, GraphConstants
  <2> HIDE DEF n
  <2> QED
    BY <2>1, ReferenceForm DEF Entry
<1> HIDE DEF R, S, g1, k
<1>7. k \notin R[a]
  <2>1. ~RefersTo(obj, leaked, k, a)
    BY <1>3, <1>4, <1>6 DEF RefersTo
  <2> QED
    BY <1>2, <1>6, <2>1, TableHas DEF R
<1>8. /\ Balanced(g1, S)
      /\ \A p \in Objects : Stays(obj, g1, p) /\ SameLinks(obj, g1, p)
      /\ \A q \in Objects : \A r : r \in S[q] <=> r \in R[q] \/ (q = a /\ r = k)
  <2>1. KindOf[a] \in Shared /\ k[2] # "model"
    BY <1>2, <1>6 DEF Shared
  <2> QED
    BY <1>2, <1>6, <1>7, <2>1, KeptStep DEF g1, S
<1>9. g1 \in Graphs /\ g1[s] = obj[s]
  BY <1>2, <1>8 DEF Balanced, Stays, Shared
<1> HIDE DEF y
<1>10. obj' = Put(g1, s, y)
  <2>1. g1 = Retain(obj, a)
    BY <1>2 DEF g1, Kept
  <2>2. [g1 EXCEPT ![s].adapters = Append(@, a)] = Put(g1, s, [g1[s] EXCEPT !.adapters = Append(g1[s].adapters, a)])
    BY DEF Put
  <2> QED
    BY <1>1, <1>9, <2>1, <2>2 DEF y
<1> HIDE DEF longer, list, n
<1>11. Balanced(obj', S) /\ KindOf[s] \notin Shared
  <2>1. KindOf[s] \notin Shared
    BY <1>2 DEF Shared
  <2> QED
    BY <1>5, <1>8, <1>10, <2>1, BalancedPut
<1>12. /\ obj' \in Graphs /\ obj'[s] = y
       /\ \A p \in Objects \ {s} : obj'[p] = g1[p]
  <2>1. \A p \in Objects \ {s} : obj'[p] = g1[p] /\ Stays(g1, obj', p) /\ SameLinks(g1, obj', p)
    BY <1>5, <1>9, <1>10, <1>11, HolderPut
  <2>2. obj' \in Graphs /\ obj'[s] = y
    BY <1>5, <1>9, <1>10, <1>11, HolderPut
  <2> QED
    BY <2>1, <2>2
<1>13. \A p \in Objects \ {s} : Stays(obj, obj', p) /\ SameLinks(obj, obj', p)
  BY <1>8, <1>12 DEF Stays, SameLinks, Live
<1> DEFINE X == {s}
           G == {}
<1>14. ASSUME NEW o \in Objects, NEW r \in References
       PROVE  IF r[1] \in X THEN r \in S[o] <=> RefersTo(obj', leaked, r, o)
              ELSE r \in S[o] /\ <<o, r>> \notin G <=> RefersTo(obj, leaked, r, o)
  <2>1. r \in S[o] <=> RefersTo(obj, leaked, r, o) \/ (o = a /\ r = k)
    BY <1>8, TableHas DEF R
  <2>2. CASE r[1] # s
    BY <1>6, <2>1, <2>2
  <2>3. CASE r[1] = s
    <3>1. r = <<s, r[2], r[3]>>
      BY <2>3, ReferenceParts
    <3>2. r = k <=> r[2] = "adapters" /\ r[3] = n
      BY <1>6, <3>1 DEF Entry, k
    <3>3. r[2] \in {"toolset", "model", "adapters", "caller", "leak"}
      BY DEF References
    <3>4. CASE r[2] = "adapters"
      <4>1. RefersTo(obj, leaked, r, o) <=> r[3] \in 1 .. Len(list) /\ list[r[3]] = o
        BY <1>2, <1>4, <2>3, <3>4 DEF RefersTo, Live, list
      <4>2. RefersTo(obj', leaked, r, o) <=> r[3] \in 1 .. n /\ longer[r[3]] = o
        BY <1>2, <1>4, <1>5, <1>12, <2>3, <3>4 DEF RefersTo, Live
      <4>3. r[3] \in 1 .. n <=> r[3] \in 1 .. Len(list) \/ r[3] = n
        BY <1>3 DEF n
      <4>4. n \notin 1 .. Len(list)
        BY <1>3 DEF n
      <4> QED
        BY <1>4, <2>1, <2>3, <3>2, <3>4, <4>1, <4>2, <4>3, <4>4
    <3>5. CASE r[2] # "adapters"
      <4>1. RefersTo(obj, leaked, r, o) <=> RefersTo(obj', leaked, r, o)
        <5>1. CASE r[2] = "caller"
          <6>1. /\ RefersTo(obj, leaked, r, o) <=> r[3] = 0 /\ s = o /\ obj[o].owned /\ KindOf[o] \in Shared
                /\ RefersTo(obj', leaked, r, o) <=> r[3] = 0 /\ s = o /\ obj'[o].owned /\ KindOf[o] \in Shared
            BY <2>3, <5>1 DEF RefersTo
          <6> QED
            BY <1>11, <6>1
        <5>2. CASE r[2] \in {"toolset", "model", "leak"}
          BY <1>5, <1>12, <2>3, <5>2 DEF RefersTo
        <5> QED
          BY <3>3, <3>5, <5>1, <5>2
      <4> QED
        BY <2>1, <2>3, <3>2, <3>5, <4>1
    <3> QED
      BY <3>4, <3>5
  <2> QED
    BY <2>2, <2>3
<1>15. /\ X \in SUBSET Objects
       /\ \A o \in X : /\ LinksAt(obj', o) /\ RegisteredAt(obj', o)
                       /\ KindOf[o] = "agent" /\ Live(obj', o) => obj'[o].conv = NoObject /\ obj'[obj'[o].model].owned
       /\ \A b \in OfKind("agent") \ X : Live(obj, b) =>
            /\ obj[b].model \in X => obj'[obj[b].model].owned
            /\ obj[b].conv \in X => Live(obj', obj[b].conv) /\ ~obj'[obj[b].conv].owned
       /\ \A p \in Objects \ X : Stays(obj, obj', p) /\ SameLinks(obj, obj', p)
  <2>1. LinksAt(obj', s)
    BY <1>2, <1>3, <1>4, <1>5, <1>12 DEF LinksAt, Live
  <2>2. RegisteredAt(obj', s)
    BY <1>2, <1>5, <1>12 DEF RegisteredAt, Live
  <2>3. ASSUME NEW b \in OfKind("agent") \ X, Live(obj, b)
        PROVE  obj[b].model # s /\ obj[b].conv # s
    <3>1. b \in Objects /\ KindOf[b] = "agent" /\ AgentAt(obj, b) /\ LinksAt(obj, b)
      BY <1>2, GraphFacts DEF OfKind
    <3> QED
      BY <1>2, <2>3, <3>1, GraphConstants DEF AgentAt, LinksAt, OfKind
  <2> QED
    BY <1>2, <1>13, <2>1, <2>2, <2>3
<1>16. Sheds(obj', S, obj', S, G, X)
  BY <1>11, ShedsNone
<1> HIDE DEF X, G
<1>17. InOrder(obj', leaked)
  BY <1>2, <1>14, <1>15, <1>16, Settled
<1> QED
  BY <1>2, <1>17 DEF GraphInv

\* The case of one holder, which is no agent.
LEMMA SettledOne ==
  ASSUME NEW g, NEW lost, InOrder(g, lost), NEW s \in Objects, KindOf[s] \notin Shared, KindOf[s] # "agent",
         NEW h, NEW R, NEW d, NEW S, NEW G, NEW X, X = {s}, Sheds(h, R, d, S, G, X),
         \A p \in Objects \ {s} : Stays(g, h, p) /\ SameLinks(g, h, p),
         \A o \in Objects, r \in References :
           IF r[1] = s THEN r \in S[o] <=> RefersTo(d, lost, r, o)
           ELSE r \in R[o] /\ <<o, r>> \notin G <=> r \in AllReferences(g, lost)[o],
         LinksAt(d, s), RegisteredAt(d, s),
         Live(g, s) /\ ~g[s].owned => Live(d, s) /\ ~d[s].owned
  PROVE  InOrder(d, lost)
<1>1. \A p \in Objects : AgentAt(g, p) /\ LinksAt(g, p)
  BY GraphFacts
<1>2. X \in SUBSET Objects /\ \A p \in Objects \ X : Stays(g, h, p) /\ SameLinks(g, h, p)
  OBVIOUS
<1>3. \A o \in Objects, r \in References :
        IF r[1] \in X THEN r \in S[o] <=> RefersTo(d, lost, r, o)
        ELSE r \in R[o] /\ <<o, r>> \notin G <=> RefersTo(g, lost, r, o)
  BY TableHas
<1>4. \A o \in X : /\ LinksAt(d, o) /\ RegisteredAt(d, o)
                   /\ KindOf[o] = "agent" /\ Live(d, o) => d[o].conv = NoObject /\ d[d[o].model].owned
  OBVIOUS
<1>5. ASSUME NEW a \in OfKind("agent") \ X, Live(g, a)
      PROVE  /\ g[a].model \in X => d[g[a].model].owned
             /\ g[a].conv \in X => Live(d, g[a].conv) /\ ~d[g[a].conv].owned
  <2>1. a \in Objects /\ KindOf[a] = "agent" /\ AgentAt(g, a) /\ LinksAt(g, a)
    BY <1>1 DEF OfKind
  <2>2. g[a].model # s
    BY <1>5, <2>1 DEF LinksAt, OfKind, Shared
  <2>3. g[a].conv = s => Live(g, s) /\ ~g[s].owned
    BY <1>5, <2>1, GraphConstants DEF AgentAt
  <2> QED
    BY <2>2, <2>3
<1> QED
  BY <1>2, <1>3, <1>4, <1>5, Settled

\* session_adapters_clear
LEMMA AdaptersClearStep ==
  ASSUME GraphInv, NEW s \in Objects, AdaptersClear(s)
  PROVE  GraphInv'
<1> DEFINE R == AllReferences(obj, leaked)
           list == obj[s].adapters
           G == {<<list[i], Entry(s, i)>> : i \in DOMAIN list}
           d == DropEach(obj, list)[Len(list)]
           y == [obj[s] EXCEPT !.adapters = <<>>]
           X == {s}
           N == {}
<1>1. /\ InOrder(obj, leaked) /\ obj \in Graphs /\ R \in RefTables /\ Balanced(obj, R) /\ leaked' = leaked
      /\ KindOf[s] = "session" /\ KindOf[s] \notin Shared /\ Live(obj, s) /\ obj[s] \in GraphRecords
      /\ LinksAt(obj, s) /\ RegisteredAt(obj, s)
      /\ obj' = [d EXCEPT ![s].adapters = <<>>]
  BY GraphFacts DEF GraphInv, InOrder, AdaptersClear, DropAdapters, Lookup, OfKind, Shared
<1>2. list \in Seq(OfKind("adapter")) /\ Len(list) <= MaxAdapters
  BY <1>1 DEF LinksAt
<1>3. \A i \in DOMAIN list : /\ list[i] \in Objects /\ i \in 0 .. MaxAdapters /\ Entry(s, i) \in References
                             /\ Entry(s, i)[1] = s /\ Entry(s, i)[2] = "adapters" /\ Entry(s, i)[3] = i
  BY <1>2, EntryForm
<1>4. \A i \in DOMAIN list : Entry(s, i) \in R[list[i]]
  <2> SUFFICES ASSUME NEW i \in DOMAIN list PROVE Entry(s, i) \in R[list[i]]
    OBVIOUS
  <2>1. RefersTo(obj, leaked, Entry(s, i), list[i])
    BY <1>1, <1>3 DEF RefersTo, Live
  <2> QED
    BY <1>3, <2>1, TableHas
<1>5. /\ y \in GraphRecords /\ y.mem = obj[s].mem /\ y.reg = obj[s].reg /\ y.owned = obj[s].owned
      /\ y.model = obj[s].model /\ y.toolset = obj[s].toolset /\ y.adapters = <<>> /\ y.conv = obj[s].conv
  <2>1. <<>> \in Seq(Objects)
    OBVIOUS
  <2> QED
    BY <1>1, <2>1 DEF GraphRecords
<1> HIDE DEF R, list, G, d, y, X, N
<1>6. PICK S \in RefTables : Sheds(obj, R, d, S, G, N)
  BY <1>1, <1>2, <1>4, DropEachStep DEF G, d, N
<1>7. d[s] = obj[s]
  BY <1>1, <1>6 DEF Sheds, Stays, N
<1>8. obj' = Put(d, s, y)
  <2>1. [d EXCEPT ![s].adapters = <<>>] = Put(d, s, [d[s] EXCEPT !.adapters = <<>>])
    BY DEF Put
  <2> QED
    BY <1>1, <1>7, <2>1 DEF y
<1>9. /\ Sheds(obj, R, obj', S, G, X) /\ obj'[s] = y
  <2>1. Sheds(obj, R, d, S, G, X)
    <3>1. N \subseteq X
      BY DEF N
    <3> QED
      BY <1>6, <3>1, ShedsWide
  <2>2. X \in SUBSET Objects /\ s \in X
    BY DEF X
  <2>3. Sheds(obj, R, Put(d, s, y), S, G, X) /\ Put(d, s, y)[s] = y
    BY <1>1, <1>5, <2>1, <2>2, ShedsPut
  <2> QED
    BY <1>8, <2>3
<1>10. ASSUME NEW o \in Objects, NEW r \in References
       PROVE  IF r[1] = s THEN r \in S[o] <=> RefersTo(obj', leaked, r, o)
              ELSE r \in R[o] /\ <<o, r>> \notin G <=> r \in R[o]
  <2>1. CASE r[1] # s
    <3>1. <<o, r>> \notin G
      BY <1>3, <2>1 DEF G
    <3> QED
      BY <2>1, <3>1
  <2>2. CASE r[1] = s
    <3>1. r \in S[o] <=> RefersTo(obj, leaked, r, o) /\ <<o, r>> \notin G
      BY <1>1, <1>9, <2>2, TableHas DEF Sheds, Lost, R
    <3>2. r = <<s, r[2], r[3]>> /\ r[2] \in {"toolset", "model", "adapters", "caller", "leak"}
      BY <2>2, ReferenceParts DEF References
    <3>3. CASE r[2] = "adapters"
      <4>1. ~RefersTo(obj', leaked, r, o)
        BY <1>5, <1>9, <2>2, <3>3 DEF RefersTo
      <4>2. RefersTo(obj, leaked, r, o) => <<o, r>> \in G
        <5>1. RefersTo(obj, leaked, r, o) => r[3] \in DOMAIN list /\ list[r[3]] = o
          BY <2>2, <3>3 DEF RefersTo, list
        <5>2. r = Entry(s, r[3])
          BY <3>2, <3>3 DEF Entry
        <5> QED
          BY <5>1, <5>2 DEF G
      <4> QED
        BY <2>2, <3>1, <4>1, <4>2
    <3>4. CASE r[2] # "adapters"
      <4>1. <<o, r>> \notin G
        BY <1>3, <3>4 DEF G
      <4>2. RefersTo(obj, leaked, r, o) <=> RefersTo(obj', leaked, r, o)
        <5>1. CASE r[2] = "caller"
          <6>1. /\ RefersTo(obj, leaked, r, o) <=> r[3] = 0 /\ s = o /\ obj[o].owned /\ KindOf[o] \in Shared
                /\ RefersTo(obj', leaked, r, o) <=> r[3] = 0 /\ s = o /\ obj'[o].owned /\ KindOf[o] \in Shared
            BY <2>2, <5>1 DEF RefersTo
          <6> QED
            BY <1>1, <6>1
        <5>2. CASE r[2] \in {"toolset", "model", "leak"}
          BY <1>5, <1>9, <2>2, <5>2 DEF RefersTo
        <5> QED
          BY <3>2, <3>4, <5>1, <5>2
      <4> QED
        BY <2>2, <3>1, <4>1, <4>2
    <3> QED
      BY <3>3, <3>4
  <2> QED
    BY <2>1, <2>2
<1>11. LinksAt(obj', s)
  <2>1. <<>> \in Seq(OfKind("adapter")) /\ Len(<<>>) <= MaxAdapters
    BY GraphConstants
  <2> QED
    BY <1>1, <1>5, <1>9, <2>1 DEF LinksAt, Live
<1>12. /\ RegisteredAt(obj', s) /\ KindOf[s] # "agent"
       /\ Live(obj, s) /\ ~obj[s].owned => Live(obj', s) /\ ~obj'[s].owned
  BY <1>1, <1>5, <1>9 DEF RegisteredAt, Live
<1>13. \A p \in Objects \ {s} : Stays(obj, obj, p) /\ SameLinks(obj, obj, p)
  BY DEF Stays, SameLinks
<1>14. InOrder(obj', leaked)
  <2>1. X = {s} /\ InOrder(obj, leaked) /\ KindOf[s] \notin Shared
    BY <1>1 DEF X
  <2>2. \A o \in Objects, r \in References :
          IF r[1] = s THEN r \in S[o] <=> RefersTo(obj', leaked, r, o)
          ELSE r \in R[o] /\ <<o, r>> \notin G <=> r \in AllReferences(obj, leaked)[o]
    BY <1>10 DEF R
  <2> QED
    BY <1>9, <1>11, <1>12, <1>13, <2>1, <2>2, SettledOne
<1> QED
  BY <1>1, <1>14 DEF GraphInv

\* Another toolset for a session or a conversation, or none.
LEMMA ToolsetStep ==
  ASSUME NEW g, NEW lost, InOrder(g, lost), NEW s \in Objects, KindOf[s] \in {"session", "conv"}, Live(g, s),
         NEW t \in Links, t # NoObject => t \in OfKind("toolset") /\ Live(g, t), t # g[s].toolset,
         NEW h, h = Put(Kept(g, t), s, [g[s] EXCEPT !.toolset = t]),
         NEW d, d = DropToolset(h, g[s].toolset)
  PROVE  InOrder(d, lost)
<1> DEFINE R == AllReferences(g, lost)
           old == g[s].toolset
           k == <<s, "toolset", 0>>
           y == [g[s] EXCEPT !.toolset = t]
           g1 == Kept(g, t)
           R1 == Noted(R, t, k)
           X == {s}
           G == IF old = NoObject THEN {} ELSE {<<old, k>>}
<1>1. /\ g \in Graphs /\ R \in RefTables /\ Balanced(g, R)
      /\ KindOf[s] \notin Shared /\ KindOf[s] # "agent" /\ KindOf[s] # "adapter" /\ g[s] \in GraphRecords
      /\ LinksAt(g, s) /\ RegisteredAt(g, s)
      /\ k \in References /\ k[1] = s /\ k[2] = "toolset"
  BY GraphFacts, ReferenceForm DEF InOrder, Shared
<1>2. /\ t # NoObject => t \in Objects /\ KindOf[t] \in Shared /\ Live(g, t)
      /\ old \in OfKind("toolset") \cup {NoObject}
      /\ old # NoObject => old \in Objects /\ KindOf[old] = "toolset"
  BY <1>1 DEF LinksAt, OfKind, Shared
<1>3. /\ y \in GraphRecords /\ y.mem = g[s].mem /\ y.reg = g[s].reg /\ y.owned = g[s].owned
      /\ y.model = g[s].model /\ y.toolset = t /\ y.adapters = g[s].adapters /\ y.conv = g[s].conv
  BY <1>1 DEF GraphRecords, Links
<1>4. \A o \in Objects : k \in R[o] <=> o = old
  <2>1. \A o \in Objects : RefersTo(g, lost, k, o) <=> o = old
    BY <1>1 DEF RefersTo, Live
  <2> QED
    BY <1>1, <2>1, TableHas
<1>5. h = Put(g1, s, y) /\ d = DropToolset(h, old)
  OBVIOUS
<1> HIDE DEF R, old, y, g1, R1, X, G, k
<1>6. /\ Balanced(g1, R1)
      /\ \A p \in Objects : Stays(g, g1, p) /\ SameLinks(g, g1, p)
      /\ \A q \in Objects : \A r : r \in R1[q] <=> r \in R[q] \/ (q = t /\ r = k)
  <2>1. t # NoObject => KindOf[t] \in Shared /\ Live(g, t) /\ k \notin R[t]
    BY <1>2, <1>4 DEF old
  <2> QED
    BY <1>1, <2>1, KeptStep DEF g1, R1
<1>7. Balanced(h, R1) /\ g1 \in Graphs
  <2>1. Balanced(Put(g1, s, y), R1)
    BY <1>1, <1>3, <1>6, BalancedPut
  <2>2. h = Put(g1, s, y)
    BY <1>5
  <2> QED
    <3>1. Balanced(h, R1)
      BY <2>1, <2>2
    <3>2. g1 \in Graphs
      BY <1>6 DEF Balanced
    <3> QED
      BY <3>1, <3>2
<1>8. h[s] = y /\ \A p \in Objects \ {s} : Stays(g, h, p) /\ SameLinks(g, h, p)
  <2>1. /\ Put(g1, s, y)[s] = y
        /\ \A p \in Objects : p # s => Put(g1, s, y)[p] = g1[p]
    BY <1>3, <1>7, GraphPut
  <2>2. h = Put(g1, s, y)
    BY <1>5
  <2>3. h[s] = y /\ \A p \in Objects : p # s => h[p] = g1[p]
    BY <2>1, <2>2
  <2> QED
    BY <1>6, <2>3 DEF Stays, SameLinks, Live
<1>9. PICK S : Sheds(h, R1, d, S, G, X)
  <2>1. CASE old = NoObject
    <3>1. d = h /\ G = {}
      BY <2>1, <1>5 DEF DropToolset, G
    <3>2. Sheds(h, R1, h, R1, {}, X)
      BY <1>7, ShedsNone
    <3> QED
      BY <3>1, <3>2
  <2>2. CASE old # NoObject
    <3> DEFINE N == {}
    <3>1. old \in Objects /\ k \in R1[old] /\ KindOf[old] # "adapter"
      BY <1>2, <1>4, <1>6, <2>2
    <3>2. d = Drop(h, old) /\ G = {<<old, k>>}
      BY <1>5, <2>2, <3>1, DropIs DEF Drop, G
    <3> HIDE DEF N
    <3>3. PICK S \in RefTables : Sheds(h, R1, Drop(h, old), S, {<<old, k>>}, N)
      BY <1>1, <1>7, <3>1, DropStep DEF N
    <3>4. Sheds(h, R1, d, S, G, N) /\ N \subseteq X
      BY <3>2, <3>3 DEF N
    <3>5. Sheds(h, R1, d, S, G, X)
      BY <3>4, ShedsWide
    <3> QED
      BY <3>5
  <2> QED
    BY <2>1, <2>2
<1>10. d[s] = y
  <2>1. Stays(h, d, s)
    <3>1. CASE old = NoObject
      BY <3>1, <1>5 DEF DropToolset, Stays
    <3>2. CASE old # NoObject
      <4>1. d = DropCount(h, old) /\ old # s /\ old \in Objects
        BY <1>1, <1>2, <1>5, <3>2, DropIs DEF Shared
      <4>2. DropCount(h, old)[s] = h[s]
        BY <1>7, <4>1 DEF DropCount, Forget, Balanced, Graphs
      <4> QED
        BY <4>1, <4>2 DEF Stays
    <3> QED
      BY <3>1, <3>2
  <2> QED
    BY <1>1, <1>8, <2>1 DEF Stays
<1>11. ASSUME NEW o \in Objects, NEW r \in References
       PROVE  IF r[1] = s THEN r \in S[o] <=> RefersTo(d, lost, r, o)
              ELSE r \in R1[o] /\ <<o, r>> \notin G <=> r \in R[o]
  <2>1. <<o, r>> \in G <=> o = old /\ r = k
    BY GraphConstants DEF G
  <2>2. CASE r[1] # s
    BY <1>1, <1>6, <2>1, <2>2
  <2>3. CASE r[1] = s
    <3>1. r \in S[o] <=> (r \in R[o] \/ (o = t /\ r = k)) /\ ~(o = old /\ r = k)
      BY <1>1, <1>6, <1>9, <2>1, <2>3 DEF Sheds, Lost
    <3>2. r = <<s, r[2], r[3]>> /\ r[2] \in {"toolset", "model", "adapters", "caller", "leak"}
      BY <2>3, ReferenceParts DEF References
    <3>3. CASE r = k
      <4>1. RefersTo(d, lost, r, o) <=> o = t
        <5>1. RefersTo(d, lost, k, o) <=> d[s].mem = "live" /\ d[s].toolset = o
          BY DEF RefersTo, k
        <5> QED
          BY <1>3, <1>10, <3>3, <5>1 DEF Live
      <4>2. t # old
        BY DEF old
      <4> QED
        BY <1>4, <2>3, <3>1, <3>3, <4>1, <4>2
    <3>4. CASE r # k
      <4>1. r \in R[o] <=> RefersTo(g, lost, r, o)
        BY TableHas DEF R
      <4>2. RefersTo(g, lost, r, o) <=> RefersTo(d, lost, r, o)
        <5>1. CASE r[2] = "caller"
          <6>1. /\ RefersTo(g, lost, r, o) <=> r[3] = 0 /\ s = o /\ g[o].owned /\ KindOf[o] \in Shared
                /\ RefersTo(d, lost, r, o) <=> r[3] = 0 /\ s = o /\ d[o].owned /\ KindOf[o] \in Shared
            BY <2>3, <5>1 DEF RefersTo
          <6> QED
            BY <1>1, <6>1
        <5>2. CASE r[2] \in {"model", "adapters", "leak"}
          BY <1>3, <1>10, <2>3, <5>2 DEF RefersTo
        <5>3. CASE r[2] = "toolset"
          <6>1. r[3] # 0
            BY <3>2, <3>4, <5>3 DEF k
          <6> QED
            BY <5>3, <6>1 DEF RefersTo
        <5> QED
          BY <3>2, <5>1, <5>2, <5>3
      <4> QED
        BY <2>3, <3>1, <3>4, <4>1, <4>2
    <3> QED
      BY <3>3, <3>4
  <2> QED
    BY <2>2, <2>3
<1>12. LinksAt(d, s)
  BY <1>1, <1>3, <1>10 DEF LinksAt, Live
<1>13. /\ RegisteredAt(d, s)
       /\ Live(g, s) /\ ~g[s].owned => Live(d, s) /\ ~d[s].owned
  BY <1>1, <1>3, <1>10 DEF RegisteredAt, Live
<1> QED
  <2>1. X = {s}
    BY DEF X
  <2>2. \A o \in Objects, r \in References :
          IF r[1] = s THEN r \in S[o] <=> RefersTo(d, lost, r, o)
          ELSE r \in R1[o] /\ <<o, r>> \notin G <=> r \in AllReferences(g, lost)[o]
    BY <1>11 DEF R
  <2> QED
    BY <1>1, <1>8, <1>9, <1>12, <1>13, <2>1, <2>2, SettledOne

LEMMA RetainDrop ==
  ASSUME NEW g \in Graphs, NEW t \in Objects, g[t].refs # 0, t # NoObject
  PROVE  DropToolset(Retain(g, t), t) = g
<1> DEFINE x == g[t]
           y == [x EXCEPT !.refs = x.refs + 1]
           z == [y EXCEPT !.refs = y.refs - 1]
<1>1. x \in GraphRecords /\ x.refs \in Nat
  BY DEF Graphs, GraphRecords
<1>2. y \in GraphRecords /\ y.refs = x.refs + 1
  BY <1>1 DEF GraphRecords
<1>3. z = x
  <2>1. z \in GraphRecords
    <3>1. y.refs - 1 \in Nat
      BY <1>1, <1>2
    <3> HIDE DEF x, y
    <3> QED
      BY <1>2, <3>1 DEF GraphRecords
  <2>2. /\ z.mem = x.mem /\ z.reg = x.reg /\ z.refs = x.refs /\ z.owned = x.owned
        /\ z.model = x.model /\ z.toolset = x.toolset /\ z.adapters = x.adapters /\ z.conv = x.conv
    BY <1>1, <1>2 DEF GraphRecords
  <2> HIDE DEF x, z
  <2> QED
    BY <1>1, <2>1, <2>2, SameRecord
<1>4. Retain(g, t) = Put(g, t, y)
  BY DEF Retain, Put
<1> HIDE DEF y, z
<1>5. Put(g, t, y)[t] = y /\ Put(g, t, y) \in Graphs
  BY <1>1, <1>2, GraphPut
<1>6. y.refs # 1
  BY <1>1, <1>2
<1>7. DropToolset(Put(g, t, y), t) = [Put(g, t, y) EXCEPT ![t].refs = @ - 1]
  BY <1>5, <1>6 DEF DropToolset
<1>8. [Put(g, t, y) EXCEPT ![t].refs = @ - 1] = Put(g, t, z)
  BY DEF Put, Graphs, z
<1>9. Put(g, t, x) = g
  BY DEF Put, Graphs
<1> QED
  BY <1>3, <1>4, <1>7, <1>8, <1>9

\* session_set_toolset, conv_set_toolset
LEMMA SetToolsetStep ==
  ASSUME GraphInv, NEW s \in Objects, NEW t \in Lookup("toolset"), SetToolset(s, t)
  PROVE  GraphInv'
<1> DEFINE old == obj[s].toolset
           d == Retain(obj, t)
           h == [d EXCEPT ![s].toolset = t]
<1>1. /\ InOrder(obj, leaked) /\ obj \in Graphs /\ leaked' = leaked /\ Balanced(obj, AllReferences(obj, leaked))
      /\ KindOf[s] \in {"session", "conv"} /\ Live(obj, s) /\ obj[s] \in GraphRecords
      /\ t \in OfKind("toolset") /\ t \in Objects /\ KindOf[t] = "toolset" /\ Live(obj, t)
      /\ t # NoObject /\ t \in Links /\ t # s
      /\ obj' = DropToolset(h, old)
  BY GraphFacts, GraphConstants DEF GraphInv, InOrder, SetToolset, Lookup, OfKind, Links
<1>2. d \in Graphs /\ d[s] = obj[s]
  BY <1>1, RetainIs
<1>3. h = Put(d, s, [obj[s] EXCEPT !.toolset = t])
  <2> HIDE DEF d
  <2> QED
    BY <1>2 DEF Put
<1>4. CASE t # old
  <2>1. h = Put(Kept(obj, t), s, [obj[s] EXCEPT !.toolset = t])
    BY <1>1, <1>3 DEF Kept
  <2> HIDE DEF h
  <2>2. InOrder(obj', leaked)
    BY <1>1, <1>4, <2>1, ToolsetStep
  <2> QED
    BY <1>1, <2>2 DEF GraphInv
<1>5. CASE t = old
  <2>1. [obj[s] EXCEPT !.toolset = t] = obj[s]
    BY <1>1, <1>5 DEF GraphRecords
  <2>2. h = d
    <3> HIDE DEF h, d, old
    <3>1. h = Put(d, s, d[s])
      BY <1>2, <1>3, <2>1
    <3>2. Put(d, s, d[s]) = d
      BY <1>2 DEF Put, Graphs
    <3> QED
      BY <3>1, <3>2
  <2>3. obj[t].refs # 0
    <3>1. KindOf[t] \in Shared /\ AllReferences(obj, leaked)[t] \in SUBSET References
      BY <1>1 DEF Shared, Balanced, RefTables
    <3>2. obj[t].refs = Cardinality(AllReferences(obj, leaked)[t]) /\ AllReferences(obj, leaked)[t] # {}
      BY <1>1, <3>1 DEF Balanced
    <3> QED
      BY <3>1, <3>2, RefCountFacts
  <2>4. DropToolset(d, t) = obj
    BY <1>1, <2>3, RetainDrop
  <2>5. obj' = obj
    BY <1>1, <1>5, <2>2, <2>4
  <2> QED
    BY <1>1, <2>5 DEF GraphInv
<1> QED
  BY <1>4, <1>5

\* session_clear_toolset, conv_clear_toolset
LEMMA ClearToolsetStep ==
  ASSUME GraphInv, NEW s \in Objects, ClearToolset(s)
  PROVE  GraphInv'
<1> DEFINE old == obj[s].toolset
           h == [obj EXCEPT ![s].toolset = NoObject]
<1>1. /\ InOrder(obj, leaked) /\ leaked' = leaked
      /\ KindOf[s] \in {"session", "conv"} /\ Live(obj, s) /\ NoObject # old /\ NoObject \in Links
      /\ obj' = DropToolset(h, old)
  BY GraphFacts DEF GraphInv, ClearToolset, Lookup, OfKind, Links
<1>2. h = Put(Kept(obj, NoObject), s, [obj[s] EXCEPT !.toolset = NoObject])
  BY DEF Put, Kept
<1> HIDE DEF h
<1>3. InOrder(obj', leaked)
  BY <1>1, <1>2, ToolsetStep
<1> QED
  BY <1>1, <1>3 DEF GraphInv

\* astral_model_release, astral_model_adapter_release, astral_toolset_destroy
LEMMA OwnerRelease ==
  ASSUME NEW g, NEW lost, InOrder(g, lost), NEW t \in Objects, KindOf[t] \in Shared, g[t].owned,
         \A a \in OfKind("agent") : Live(g, a) => g[a].model # t,
         NEW d, d = Drop(Given(g, t), t)
  PROVE  InOrder(d, lost)
<1> DEFINE R == AllReferences(g, lost)
           h == Given(g, t)
           k == <<t, "caller", 0>>
           X == {t}
           N == {}
           G == {<<t, k>>}
<1>1. /\ g \in Graphs /\ R \in RefTables /\ Balanced(g, R) /\ KindOf[t] # "agent" /\ KindOf[t] # "conv"
      /\ LinksAt(g, t) /\ RegisteredAt(g, t) /\ Live(g, t)
      /\ k \in References /\ k[1] = t /\ k[2] = "caller"
      /\ \A p \in Objects : AgentAt(g, p) /\ LinksAt(g, p)
  BY GraphFacts, ReferenceForm DEF InOrder, Shared, RegisteredAt
<1>2. k \in R[t]
  <2>1. RefersTo(g, lost, k, t)
    BY DEF RefersTo
  <2> QED
    BY <1>1, <2>1, TableHas
<1>3. d = Drop(h, t)
  OBVIOUS
<1> HIDE DEF R, h, k, X, N, G
<1>4. /\ Balanced(h, R)
      /\ \A p \in Objects :
           /\ h[p].mem = g[p].mem /\ h[p].reg = g[p].reg
           /\ h[p].refs = g[p].refs /\ h[p].model = g[p].model
           /\ h[p].toolset = g[p].toolset /\ h[p].adapters = g[p].adapters
           /\ h[p].conv = g[p].conv
           /\ p # t => h[p] = g[p]
      /\ h[t].owned = FALSE
  <2>1. Balanced(g, R)
    BY <1>1
  <2>2. Balanced(h, R)
    BY <2>1, GivenStep DEF h
  <2>3. h[t].owned = FALSE
    BY <2>1, GivenStep DEF h
  <2>4. \A p \in Objects :
          /\ h[p].mem = g[p].mem /\ h[p].reg = g[p].reg
          /\ h[p].refs = g[p].refs /\ h[p].model = g[p].model
          /\ h[p].toolset = g[p].toolset /\ h[p].adapters = g[p].adapters
          /\ h[p].conv = g[p].conv
          /\ p # t => h[p] = g[p]
    <3> TAKE p \in Objects
    <3> QED
      BY <1>1, GivenKeeps DEF h
  <2> QED
    BY <2>2, <2>3, <2>4
<1>5. PICK S \in RefTables : Sheds(h, R, Drop(h, t), S, {<<t, k>>}, N)
  BY <1>1, <1>2, <1>4, DropStep DEF N
<1>6. Sheds(h, R, d, S, G, X) /\ Stays(h, d, t)
  <2>1. Sheds(h, R, d, S, G, N) /\ N \subseteq X
    BY <1>3, <1>5 DEF N, G
  <2>2. Sheds(h, R, d, S, G, X)
    BY <2>1, ShedsWide
  <2> QED
    BY <2>1, <2>2 DEF Sheds, N
<1>7. \A p \in Objects \ X : Stays(g, h, p) /\ SameLinks(g, h, p)
  BY <1>4 DEF Stays, SameLinks, X
<1>8. LinksAt(h, t)
  BY <1>1, <1>4 DEF LinksAt, Live
<1>9. ASSUME NEW o \in Objects, NEW r \in References
      PROVE  IF r[1] \in X THEN r \in S[o] <=> RefersTo(d, lost, r, o)
             ELSE r \in R[o] /\ <<o, r>> \notin G <=> RefersTo(g, lost, r, o)
  <2>1. r \in R[o] <=> RefersTo(g, lost, r, o)
    BY TableHas DEF R
  <2>2. <<o, r>> \in G <=> o = t /\ r = k
    BY DEF G
  <2>3. CASE r[1] # t
    BY <1>1, <2>1, <2>2, <2>3 DEF X
  <2>4. CASE r[1] = t
    <3>1. r \in S[o] <=> r \in R[o] /\ ~(o = t /\ r = k) /\ ~Lost(h, d, r)
      BY <1>6, <2>2 DEF Sheds
    <3>2. RefersTo(d, lost, r, o) <=> RefersTo(h, lost, r, o) /\ ~Lost(h, d, r)
      BY <1>6, <1>8, <2>4, RefersKept
    <3>3. RefersTo(h, lost, r, o) <=> RefersTo(g, lost, r, o) /\ ~(o = t /\ r = k)
      <4>1. r = <<t, r[2], r[3]>> /\ r[2] \in {"toolset", "model", "adapters", "caller", "leak"}
        BY <2>4, ReferenceParts DEF References
      <4>2. CASE r[2] = "caller"
        <5>1. /\ RefersTo(g, lost, r, o) <=> r[3] = 0 /\ t = o /\ g[o].owned /\ KindOf[o] \in Shared
              /\ RefersTo(h, lost, r, o) <=> r[3] = 0 /\ t = o /\ h[o].owned /\ KindOf[o] \in Shared
          BY <2>4, <4>2 DEF RefersTo
        <5>2. r = k <=> r[3] = 0
          BY <4>1, <4>2 DEF k
        <5> QED
          BY <1>4, <5>1, <5>2
      <4>3. CASE r[2] # "caller"
        <5>1. r # k
          BY <1>1, <4>3
        <5>2. RefersTo(h, lost, r, o) <=> RefersTo(g, lost, r, o)
          BY <1>4, <2>4, <4>3 DEF RefersTo
        <5> QED
          BY <5>1, <5>2
      <4> QED
        BY <4>2, <4>3
    <3> QED
      BY <2>1, <2>4, <3>1, <3>2, <3>3 DEF X
  <2> QED
    BY <2>3, <2>4
<1>10. LinksAt(d, t)
  BY <1>6, <1>8 DEF LinksAt, Stays, Live
<1>11. RegisteredAt(d, t)
  BY <1>1, <1>4, <1>6 DEF RegisteredAt, Stays, Live
<1>12. /\ X \in SUBSET Objects
       /\ \A o \in X : /\ LinksAt(d, o) /\ RegisteredAt(d, o)
                       /\ KindOf[o] = "agent" /\ Live(d, o) => d[o].conv = NoObject /\ d[d[o].model].owned
  BY <1>1, <1>10, <1>11 DEF X
<1>13. ASSUME NEW a \in OfKind("agent") \ X, Live(g, a)
       PROVE  g[a].model \notin X /\ g[a].conv \notin X
  <2>1. a \in Objects /\ KindOf[a] = "agent" /\ AgentAt(g, a)
    BY <1>1 DEF OfKind
  <2>2. g[a].conv # t
    BY <1>1, <1>13, <2>1, GraphConstants DEF AgentAt, OfKind
  <2> QED
    BY <1>13, <2>2 DEF X
<1> QED
  BY <1>6, <1>7, <1>9, <1>12, <1>13, Settled

LEMMA ModelReleaseStep ==
  ASSUME GraphInv, NEW m \in Objects, ModelRelease(m)
  PROVE  GraphInv'
<1>1. /\ InOrder(obj, leaked) /\ leaked' = leaked /\ KindOf[m] = "model" /\ KindOf[m] \in Shared /\ obj[m].owned
      /\ AgentsOf(m) = {} /\ obj' = DropModel([obj EXCEPT ![m].owned = FALSE], m)
  BY DEF GraphInv, ModelRelease, Owned, Lookup, OfKind, Shared
<1>2. \A a \in OfKind("agent") : Live(obj, a) => obj[a].model # m
  BY <1>1, GraphFacts DEF AgentsOf, Lookup, OfKind
<1>3. obj' = Drop(Given(obj, m), m)
  <2>1. Given(obj, m) = [obj EXCEPT ![m].owned = FALSE]
    BY DEF Given, Put
  <2>2. KindOf[m] # "adapter"
    BY <1>1
  <2> QED
    BY <1>1, <2>1, <2>2, DropIs DEF Drop
<1>4. InOrder(obj', leaked)
  BY <1>1, <1>2, <1>3, OwnerRelease
<1> QED
  BY <1>1, <1>4 DEF GraphInv

LEMMA RefReleaseStep ==
  ASSUME GraphInv, NEW o \in Objects, RefRelease(o)
  PROVE  GraphInv'
<1> DEFINE h == [obj EXCEPT ![o].owned = FALSE]
<1>1. /\ InOrder(obj, leaked) /\ leaked' = leaked /\ KindOf[o] \in {"toolset", "adapter"} /\ KindOf[o] \in Shared
      /\ obj[o].owned /\ o # NoObject
      /\ obj' = IF KindOf[o] = "toolset" THEN DropToolset(h, o) ELSE DropAdapter(h, o)
  BY GraphConstants DEF GraphInv, RefRelease, Owned, Lookup, OfKind, Shared
<1>2. ASSUME NEW a \in OfKind("agent"), Live(obj, a)
      PROVE  obj[a].model # o
  <2>1. a \in Objects /\ KindOf[a] = "agent" /\ LinksAt(obj, a)
    BY <1>1, GraphFacts DEF OfKind
  <2> QED
    BY <1>1, <1>2, <2>1 DEF LinksAt, OfKind
<1>3. obj' = Drop(Given(obj, o), o)
  <2>1. Given(obj, o) = h
    BY DEF Given, Put
  <2> HIDE DEF h
  <2> QED
    BY <1>1, <2>1, DropIs DEF Drop
<1>4. InOrder(obj', leaked)
  BY <1>1, <1>2, <1>3, OwnerRelease
<1> QED
  BY <1>1, <1>4 DEF GraphInv

-----------------------------------------------------------------------------
(* Destruction *)

\* What is gone refers to nothing, and a holder refers through its links only.
LEMMA GoneRefers ==
  ASSUME NEW g, NEW lost, lost \subseteq OfKind("model"), NEW s \in Objects, KindOf[s] \notin Shared,
         NEW o \in Objects, NEW r \in References, r[1] = s
  PROVE  /\ ~Live(g, s) => ~RefersTo(g, lost, r, o)
         /\ RefersTo(g, lost, r, o) <=> <<o, r>> \in FromLinks(g, s)
<1>1. s \notin lost
  BY DEF OfKind, Shared
<1>2. ~Live(g, s) => ~RefersTo(g, lost, r, o)
  BY <1>1 DEF RefersTo, Live
<1>3. RefersTo(g, lost, r, o) <=> RefersTo(g, {}, r, o)
  BY <1>1 DEF RefersTo
<1>4. <<o, r>> \in FromLinks(g, s) <=> RefersTo(g, {}, r, o)
  BY DEF FromLinks
<1> QED
  BY <1>2, <1>3, <1>4

\* the record of a destroyed holder
Buried(x) == [[[x EXCEPT !.reg = FALSE] EXCEPT !.mem = "freed"] EXCEPT !.owned = FALSE]

LEMMA BuriedIs ==
  ASSUME NEW x \in GraphRecords, NEW y, y = Buried(x)
  PROVE  y \in GraphRecords /\ y.mem = "freed" /\ y.reg = FALSE /\ y.owned = FALSE
BY DEF GraphRecords, Buried

LEMMA BuriedSound ==
  ASSUME NEW d, NEW o, d[o].mem = "freed", d[o].reg = FALSE, d[o].owned = FALSE
  PROVE  LinksAt(d, o) /\ RegisteredAt(d, o) /\ ~Live(d, o)
BY DEF LinksAt, RegisteredAt, Live

\* indexes, snapshot views and search cursors
LEMMA DestroyPlainStep ==
  ASSUME GraphInv, NEW o \in Objects, DestroyPlain(o)
  PROVE  GraphInv'
<1> DEFINE R == AllReferences(obj, leaked)
           y == Buried(obj[o])
           X == {o}
           N == {}
<1>1. /\ InOrder(obj, leaked) /\ obj \in Graphs /\ Balanced(obj, R) /\ leaked' = leaked
      /\ KindOf[o] \in {"index", "view", "cursor"} /\ KindOf[o] \notin Shared /\ KindOf[o] # "agent"
      /\ leaked \subseteq OfKind("model") /\ Live(obj, o) /\ obj[o].owned
      /\ obj[o] \in GraphRecords /\ LinksAt(obj, o)
      /\ obj' = [Forget(obj, o) EXCEPT ![o].owned = FALSE]
  BY GraphFacts DEF GraphInv, InOrder, DestroyPlain, Owned, Lookup, OfKind, Shared
<1>2. y \in GraphRecords /\ y.mem = "freed" /\ y.reg = FALSE /\ y.owned = FALSE
  BY <1>1, BuriedIs
<1>3. obj' = Put(obj, o, y)
  BY <1>1 DEF Put, Forget, Graphs, Buried
<1> HIDE DEF R, y, X, N
<1>4. Sheds(obj, R, obj', R, N, X) /\ obj'[o] = y
  <2>1. Sheds(obj, R, obj, R, N, X) /\ X \in SUBSET Objects /\ o \in X
    BY <1>1, ShedsNone DEF N, X
  <2>2. Sheds(obj, R, Put(obj, o, y), R, N, X) /\ Put(obj, o, y)[o] = y
    BY <1>1, <1>2, <2>1, ShedsPut
  <2> QED
    BY <1>3, <2>2
<1>5. LinksAt(obj', o) /\ RegisteredAt(obj', o) /\ ~Live(obj', o)
  BY <1>2, <1>4, BuriedSound
<1>6. ASSUME NEW q \in Objects, NEW r \in References
      PROVE  IF r[1] = o THEN r \in R[q] <=> RefersTo(obj', leaked, r, q)
             ELSE r \in R[q] /\ <<q, r>> \notin N <=> r \in R[q]
  <2>1. CASE r[1] # o
    BY <2>1 DEF N
  <2>2. CASE r[1] = o
    <3>1. ~RefersTo(obj', leaked, r, q)
      BY <1>1, <1>5, <2>2, GoneRefers
    <3>2. ~RefersTo(obj, leaked, r, q)
      <4>1. o \notin leaked
        BY <1>1 DEF OfKind
      <4> QED
        BY <1>1, <2>2, <4>1, GraphConstants DEF RefersTo, LinksAt
    <3> QED
      BY <2>2, <3>1, <3>2, TableHas DEF R
  <2> QED
    BY <2>1, <2>2
<1>7. InOrder(obj', leaked)
  <2>1. X = {o} /\ \A p \in Objects \ {o} : Stays(obj, obj, p) /\ SameLinks(obj, obj, p)
    BY DEF X, Stays, SameLinks
  <2>2. \A q \in Objects, r \in References :
          IF r[1] = o THEN r \in R[q] <=> RefersTo(obj', leaked, r, q)
          ELSE r \in R[q] /\ <<q, r>> \notin N <=> r \in AllReferences(obj, leaked)[q]
    BY <1>6 DEF R
  <2>3. InOrder(obj, leaked) /\ KindOf[o] \notin Shared /\ KindOf[o] # "agent"
        /\ (Live(obj, o) /\ ~obj[o].owned => Live(obj', o) /\ ~obj'[o].owned)
    BY <1>1
  <2> QED
    BY <1>4, <1>5, <2>1, <2>2, <2>3, SettledOne
<1> QED
  BY <1>1, <1>7 DEF GraphInv

LEMMA EmbedderDestroyStep ==
  ASSUME GraphInv, NEW e \in Objects, EmbedderDestroy(e)
  PROVE  GraphInv'
<1> DEFINE R == AllReferences(obj, leaked)
           m == obj[e].model
           k == <<e, "model", 0>>
           y == Buried(obj[e])
           h == Put(obj, e, y)
           S == Without(R, m, k)
           G == {<<m, k>>}
           X == {e}
<1>1. /\ InOrder(obj, leaked) /\ obj \in Graphs /\ R \in RefTables /\ Balanced(obj, R) /\ leaked' = leaked
      /\ KindOf[e] = "embedder" /\ KindOf[e] \notin Shared /\ KindOf[e] # "agent"
      /\ leaked \subseteq OfKind("model") /\ Live(obj, e) /\ obj[e].owned
      /\ obj[e] \in GraphRecords /\ LinksAt(obj, e)
      /\ m \in OfKind("model") /\ m \in Objects /\ KindOf[m] = "model" /\ KindOf[m] \in Shared /\ m # e
      /\ k \in References /\ k[1] = e
      /\ obj' = [Forget(obj, e) EXCEPT ![e].owned = FALSE, ![m].refs = @ - 1]
  BY GraphFacts, ReferenceForm
  DEF GraphInv, InOrder, EmbedderDestroy, Owned, Lookup, OfKind, Shared, LinksAt
<1>2. y \in GraphRecords /\ y.mem = "freed" /\ y.reg = FALSE /\ y.owned = FALSE
  BY <1>1, BuriedIs
<1>3. [Forget(obj, e) EXCEPT ![e].owned = FALSE] = h
  BY <1>1 DEF Put, Forget, Graphs, Buried
<1> HIDE DEF R, m, k, y, h, S, G, X
<1>4. Recounted(h, obj', m, h[m].refs - 1)
  <2>1. obj' = [h EXCEPT ![m].refs = @ - 1]
    BY <1>1, <1>3
  <2> QED
    BY <2>1 DEF Recounted, Put
<1>5. h[e] = y /\ \A p \in Objects : p # e => h[p] = obj[p]
  BY <1>1, <1>2, GraphPut DEF h
<1>6. k \in R[m]
  <2>1. RefersTo(obj, leaked, k, m)
    BY <1>1 DEF RefersTo, k, m, Live
  <2> QED
    BY <1>1, <2>1, TableHas DEF R
<1>7. Balanced(h, R)
  BY <1>1, <1>2, BalancedPut DEF h
<1>8. Balanced(obj', S) /\ h[m].refs - 1 \in Nat
  <2>1. KindOf[k[1]] # "adapter"
    BY <1>1
  <2> QED
    BY <1>1, <1>4, <1>6, <1>7, <2>1, LowerStep DEF S
<1>9. /\ \A p \in Objects : p # m => obj'[p] = h[p]
      /\ \A p \in Objects : Stays(h, obj', p)
  <2>1. Live(h, m) /\ h \in Graphs
    BY <1>1, <1>6, <1>7 DEF Balanced
  <2> DEFINE n == h[m].refs - 1
  <2>2. Recounted(h, obj', m, n) /\ n \in Nat
    BY <1>4, <1>8
  <2> HIDE DEF n
  <2>3. m \in Objects /\ KindOf[m] \in Shared
    BY <1>1
  <2> QED
    BY <2>1, <2>2, <2>3, RecountedIs
<1>10. \A p \in Objects \ {e} : Stays(obj, obj', p)
  BY <1>5, <1>9 DEF Stays, Live
<1>11. obj'[e] = y
  BY <1>1, <1>5, <1>9
<1>12. S \in RefTables /\ \A o \in Objects : \A r : r \in S[o] <=> r \in R[o] /\ ~(o = m /\ r = k)
  BY <1>1 DEF S, Without, RefTables
<1>13. \A r \in References : ~Lost(obj, obj', r)
  <2> SUFFICES ASSUME NEW r \in References, Lost(obj, obj', r) PROVE FALSE
    OBVIOUS
  <2>1. r[1] \in Objects /\ KindOf[r[1]] = "adapter" /\ r[1] # e /\ r[1] # m
    BY <1>1, ReferenceParts DEF Lost
  <2>2. obj'[r[1]] = obj[r[1]]
    BY <1>5, <1>9, <2>1
  <2> QED
    BY <2>2 DEF Lost, Live
<1>14. Sheds(obj, R, obj', S, G, X)
  <2>1. \A o \in Objects, r \in References : <<o, r>> \in G <=> o = m /\ r = k
    BY DEF G
  <2> QED
    BY <1>8, <1>10, <1>12, <1>13, <2>1 DEF Sheds, X
<1>15. LinksAt(obj', e) /\ RegisteredAt(obj', e) /\ ~Live(obj', e)
  BY <1>2, <1>11, BuriedSound
<1>16. ASSUME NEW o \in Objects, NEW r \in References
       PROVE  IF r[1] = e THEN r \in S[o] <=> RefersTo(obj', leaked, r, o)
              ELSE r \in R[o] /\ <<o, r>> \notin G <=> r \in R[o]
  <2>1. CASE r[1] # e
    BY <1>1, <2>1 DEF G
  <2>2. CASE r[1] = e
    <3>1. ~RefersTo(obj', leaked, r, o)
      BY <1>1, <1>15, <2>2, GoneRefers
    <3>2. RefersTo(obj, leaked, r, o) => o = m /\ r = k
      <4>1. e \notin leaked /\ o # NoObject
        BY <1>1, GraphConstants DEF OfKind
      <4>2. obj[e].toolset = NoObject /\ obj[e].adapters = <<>>
        BY <1>1 DEF LinksAt
      <4>3. r = <<e, r[2], r[3]>>
        BY <2>2, ReferenceParts
      <4>4. RefersTo(obj, leaked, r, o) => r[2] = "model" /\ r[3] = 0 /\ o = obj[e].model
        BY <1>1, <2>2, <4>1, <4>2 DEF RefersTo
      <4> QED
        BY <4>3, <4>4 DEF k, m
    <3> QED
      BY <1>12, <2>2, <3>1, <3>2, TableHas DEF R
  <2> QED
    BY <2>1, <2>2
<1>17. InOrder(obj', leaked)
  <2>1. X = {e} /\ \A p \in Objects \ {e} : Stays(obj, obj, p) /\ SameLinks(obj, obj, p)
    BY DEF X, Stays, SameLinks
  <2>2. \A o \in Objects, r \in References :
          IF r[1] = e THEN r \in S[o] <=> RefersTo(obj', leaked, r, o)
          ELSE r \in R[o] /\ <<o, r>> \notin G <=> r \in AllReferences(obj, leaked)[o]
    BY <1>16 DEF R
  <2>3. InOrder(obj, leaked) /\ KindOf[e] \notin Shared /\ KindOf[e] # "agent"
        /\ (Live(obj, e) /\ ~obj[e].owned => Live(obj', e) /\ ~obj'[e].owned)
    BY <1>1
  <2> QED
    BY <1>14, <1>15, <2>1, <2>2, <2>3, SettledOne
<1> QED
  BY <1>1, <1>17 DEF GraphInv

\* What a live runner has linked is in the table.
LEMMA RunnerGone ==
  ASSUME NEW g, NEW lost, InOrder(g, lost), NEW s \in Objects, KindOf[s] \in {"session", "conv"}, Live(g, s),
         NEW R, R = AllReferences(g, lost), NEW X, X = {s}
  PROVE  /\ \E S \in RefTables : Sheds(g, R, DestroyRunner(g, s), S, FromLinks(g, s), X)
         /\ DestroyRunner(g, s)[s].mem = "freed" /\ DestroyRunner(g, s)[s].reg = FALSE
         /\ DestroyRunner(g, s)[s].owned = g[s].owned
         /\ DestroyRunner(g, s)[s] \in GraphRecords
<1>1. /\ Balanced(g, R) /\ LinksAt(g, s) /\ KindOf[s] \notin Shared /\ lost \subseteq OfKind("model")
      /\ g[s] \in GraphRecords
  BY GraphFacts DEF InOrder, Shared
<1>2. \A x \in FromLinks(g, s) : x[2] \in R[x[1]]
  <2> SUFFICES ASSUME NEW x \in FromLinks(g, s) PROVE x[2] \in R[x[1]]
    OBVIOUS
  <2>1. x[1] \in Objects /\ x[2] \in References /\ x[2][1] = s /\ x = <<x[1], x[2]>>
    BY DEF FromLinks
  <2>2. RefersTo(g, lost, x[2], x[1])
    BY <1>1, <2>1, GoneRefers
  <2> QED
    BY <2>1, <2>2, TableHas
<1>3. /\ \E S \in RefTables : Sheds(g, R, DestroyRunner(g, s), S, FromLinks(g, s), {s})
      /\ DestroyRunner(g, s)[s] =
           [g[s] EXCEPT !.reg = FALSE, !.toolset = NoObject, !.adapters = <<>>, !.mem = "freed"]
  BY <1>1, <1>2, DestroyRunnerStep
<1>4. /\ DestroyRunner(g, s)[s].mem = "freed" /\ DestroyRunner(g, s)[s].reg = FALSE
      /\ DestroyRunner(g, s)[s].owned = g[s].owned /\ DestroyRunner(g, s)[s] \in GraphRecords
  <2>1. <<>> \in Seq(Objects) /\ NoObject \in Links
    BY DEF Links
  <2> QED
    BY <1>1, <1>3, <2>1 DEF GraphRecords
<1> QED
  BY <1>3, <1>4

\* astral_session_destroy, astral_conv_destroy
LEMMA RunnerDestroyStep ==
  ASSUME GraphInv, NEW s \in Objects, RunnerDestroy(s)
  PROVE  GraphInv'
<1> DEFINE R == AllReferences(obj, leaked)
           e == DestroyRunner(obj, s)
           y == [e[s] EXCEPT !.owned = FALSE]
           X == {s}
           G == FromLinks(obj, s)
<1>1. /\ InOrder(obj, leaked) /\ leaked' = leaked
      /\ KindOf[s] \in {"session", "conv"} /\ KindOf[s] \notin Shared /\ KindOf[s] # "agent"
      /\ KindOf[s] # "adapter"
      /\ leaked \subseteq OfKind("model") /\ Live(obj, s) /\ obj[s].owned
      /\ obj' = [e EXCEPT ![s].owned = FALSE]
  BY GraphFacts DEF GraphInv, RunnerDestroy, Owned, Lookup, OfKind, Shared
<1>2. obj' = Put(e, s, y)
  BY <1>1 DEF Put
<1>3. /\ \E S \in RefTables : Sheds(obj, R, e, S, G, X)
      /\ e[s].mem = "freed" /\ e[s].reg = FALSE /\ e[s] \in GraphRecords
  BY <1>1, RunnerGone
<1> HIDE DEF R, e, y, X, G
<1>4. PICK S \in RefTables : Sheds(obj, R, e, S, G, X)
  BY <1>3
<1>5. y \in GraphRecords /\ y.mem = "freed" /\ y.reg = FALSE /\ y.owned = FALSE
  BY <1>3 DEF y, GraphRecords
<1>6. Sheds(obj, R, obj', S, G, X) /\ obj'[s] = y
  <2>1. X \in SUBSET Objects /\ s \in X
    BY DEF X
  <2>2. KindOf[s] \notin Shared
    BY <1>1
  <2>3. Sheds(obj, R, Put(e, s, y), S, G, X) /\ Put(e, s, y)[s] = y
    BY <1>4, <1>5, <2>1, <2>2, ShedsPut
  <2> QED
    BY <1>2, <2>3
<1>7. LinksAt(obj', s) /\ RegisteredAt(obj', s) /\ ~Live(obj', s)
  BY <1>5, <1>6, BuriedSound
<1>8. ASSUME NEW o \in Objects, NEW r \in References
      PROVE  IF r[1] = s THEN r \in S[o] <=> RefersTo(obj', leaked, r, o)
             ELSE r \in R[o] /\ <<o, r>> \notin G <=> r \in R[o]
  <2>1. CASE r[1] # s
    BY <2>1 DEF G, FromLinks
  <2>2. CASE r[1] = s
    <3>1. ~RefersTo(obj', leaked, r, o)
      BY <1>1, <1>7, <2>2, GoneRefers
    <3>2. RefersTo(obj, leaked, r, o) <=> <<o, r>> \in G
      BY <1>1, <2>2, GoneRefers DEF G
    <3>3. r \in S[o] => r \in R[o] /\ <<o, r>> \notin G
      BY <1>6 DEF Sheds
    <3> QED
      BY <2>2, <3>1, <3>2, <3>3, TableHas DEF R
  <2> QED
    BY <2>1, <2>2
<1>9. InOrder(obj', leaked)
  <2>1. X = {s} /\ \A p \in Objects \ {s} : Stays(obj, obj, p) /\ SameLinks(obj, obj, p)
    BY DEF X, Stays, SameLinks
  <2>2. \A o \in Objects, r \in References :
          IF r[1] = s THEN r \in S[o] <=> RefersTo(obj', leaked, r, o)
          ELSE r \in R[o] /\ <<o, r>> \notin G <=> r \in AllReferences(obj, leaked)[o]
    BY <1>8 DEF R
  <2>3. InOrder(obj, leaked) /\ KindOf[s] \notin Shared /\ KindOf[s] # "agent"
        /\ (Live(obj, s) /\ ~obj[s].owned => Live(obj', s) /\ ~obj'[s].owned)
    BY <1>1
  <2> QED
    BY <1>6, <1>7, <2>1, <2>2, <2>3, SettledOne
<1> QED
  BY <1>1, <1>9 DEF GraphInv

\* An agent's conversation, if it has one, goes with all that it had linked.
WithoutConv(g, a) == IF g[a].conv = NoObject THEN g ELSE DestroyRunner(g, g[a].conv)
ConvOf(g, a) == {g[a].conv} \cap Objects

\* Graph e is g after the conversation of agent a was destroyed.
LetsConv(g, R, e, S, a) ==
  /\ Sheds(g, R, e, S, FromLinks(g, g[a].conv), ConvOf(g, a))
  /\ ConvOf(g, a) \in SUBSET Objects
  /\ \A c \in ConvOf(g, a) : /\ c = g[a].conv /\ KindOf[c] = "conv" /\ Live(g, c)
                             /\ e[c].mem = "freed" /\ e[c].reg = FALSE /\ e[c].owned = FALSE

LEMMA ConvGone ==
  ASSUME NEW g, NEW lost, InOrder(g, lost), NEW a \in OfKind("agent"), Live(g, a)
  PROVE  \E S \in RefTables : LetsConv(g, AllReferences(g, lost), WithoutConv(g, a), S, a)
<1> DEFINE R == AllReferences(g, lost)
           X == ConvOf(g, a)
           e == WithoutConv(g, a)
           G == FromLinks(g, g[a].conv)
<1> SUFFICES /\ \E S \in RefTables : Sheds(g, R, e, S, G, X)
             /\ X \in SUBSET Objects
             /\ \A c \in X : /\ c = g[a].conv /\ KindOf[c] = "conv" /\ Live(g, c)
                             /\ e[c].mem = "freed" /\ e[c].reg = FALSE /\ e[c].owned = FALSE
  BY DEF LetsConv
<1> DEFINE c == g[a].conv
<1>1. /\ a \in Objects /\ KindOf[a] = "agent" /\ AgentAt(g, a) /\ Balanced(g, R) /\ R \in RefTables
      /\ g[a] \in GraphRecords /\ g \in Graphs
  BY GraphFacts DEF OfKind, InOrder
<1>2. CASE c = NoObject
  <2>1. e = g /\ X = {}
    BY <1>2, GraphConstants DEF WithoutConv, ConvOf
  <2>2. G = {}
    BY <1>2, GraphConstants, ReferenceParts DEF FromLinks
  <2>3. Sheds(g, R, g, R, {}, X)
    BY <1>1, ShedsNone
  <2>4. Sheds(g, R, e, R, G, X)
    BY <2>1, <2>2, <2>3
  <2> QED
    BY <1>1, <2>1, <2>4
<1>3. CASE c # NoObject
  <2>1. c \in Objects /\ KindOf[c] = "conv" /\ Live(g, c) /\ ~g[c].owned
    BY <1>1, <1>3 DEF AgentAt, OfKind
  <2>2. e = DestroyRunner(g, c) /\ X = {c} /\ G = FromLinks(g, c)
    BY <1>3, <2>1 DEF WithoutConv, ConvOf
  <2>3. g[c].owned = FALSE
    BY <1>1, <2>1 DEF Graphs, GraphRecords
  <2>5. R = AllReferences(g, lost)
    OBVIOUS
  <2> HIDE DEF c, R, X, e, G
  <2>4. /\ \E S \in RefTables : Sheds(g, R, DestroyRunner(g, c), S, FromLinks(g, c), X)
        /\ DestroyRunner(g, c)[c].mem = "freed" /\ DestroyRunner(g, c)[c].reg = FALSE
        /\ DestroyRunner(g, c)[c].owned = g[c].owned
    BY <2>1, <2>2, <2>5, RunnerGone
  <2> QED
    BY <2>1, <2>2, <2>3, <2>4 DEF c
<1> QED
  BY <1>2, <1>3

\* Graph d is g after agent a gave up its conversation and the references G.
AgentGives(g, lost, a, d, S, G) ==
  /\ Sheds(g, AllReferences(g, lost), d, S, G, ConvOf(g, a) \cup {a})
  /\ \A c \in ConvOf(g, a) : d[c].mem = "freed" /\ d[c].reg = FALSE /\ d[c].owned = FALSE
  /\ \A o \in Objects, r \in References :
       /\ r[1] = a => (r \in S[o] <=> RefersTo(d, lost, r, o))
       /\ <<o, r>> \in FromLinks(g, g[a].conv) => <<o, r>> \in G
       /\ <<o, r>> \in G => r[1] \in ConvOf(g, a) \cup {a}
  /\ LinksAt(d, a) /\ RegisteredAt(d, a)
  /\ Live(d, a) => d[a].conv = NoObject /\ d[a].model = g[a].model

LEMMA AgentSettled ==
  ASSUME NEW g, NEW lost, InOrder(g, lost), NEW a \in OfKind("agent"), Live(g, a),
         NEW d, NEW S, NEW G, AgentGives(g, lost, a, d, S, G)
  PROVE  InOrder(d, lost)
<1> DEFINE R == AllReferences(g, lost)
           X == ConvOf(g, a)
           Y == X \cup {a}
<1>0. /\ Sheds(g, R, d, S, G, Y)
      /\ \A c \in X : d[c].mem = "freed" /\ d[c].reg = FALSE /\ d[c].owned = FALSE
      /\ \A o \in Objects, r \in References :
           /\ r[1] = a => (r \in S[o] <=> RefersTo(d, lost, r, o))
           /\ <<o, r>> \in FromLinks(g, g[a].conv) => <<o, r>> \in G
           /\ <<o, r>> \in G => r[1] \in Y
      /\ LinksAt(d, a) /\ RegisteredAt(d, a)
      /\ Live(d, a) => d[a].conv = NoObject /\ d[a].model = g[a].model
  BY DEF AgentGives
<1>1. /\ a \in Objects /\ KindOf[a] = "agent" /\ AgentAt(g, a) /\ LinksAt(g, a) /\ lost \subseteq OfKind("model")
      /\ \A p \in Objects : AgentAt(g, p) /\ LinksAt(g, p)
  BY GraphFacts DEF OfKind
<1>2. /\ Y \in SUBSET Objects
      /\ \A c \in X : c \in Objects /\ c = g[a].conv /\ KindOf[c] = "conv" /\ KindOf[c] \notin Shared
  BY <1>1, GraphConstants DEF ConvOf, AgentAt, OfKind, Shared
<1> HIDE DEF R, X, Y
<1>3. \A p \in Objects \ Y : Stays(g, g, p) /\ SameLinks(g, g, p)
  BY DEF Stays, SameLinks
<1>4. ASSUME NEW o \in Objects, NEW r \in References
      PROVE  IF r[1] \in Y THEN r \in S[o] <=> RefersTo(d, lost, r, o)
             ELSE r \in R[o] /\ <<o, r>> \notin G <=> RefersTo(g, lost, r, o)
  <2>1. r \in R[o] <=> RefersTo(g, lost, r, o)
    BY TableHas DEF R
  <2>2. CASE r[1] \notin Y
    BY <1>0, <2>1, <2>2
  <2>3. CASE r[1] = a
    BY <1>0, <2>3 DEF Y
  <2>4. CASE r[1] \in X
    <3> DEFINE c == r[1]
    <3>1. c \in Objects /\ KindOf[c] \notin Shared /\ c = g[a].conv /\ ~Live(d, c)
      BY <1>0, <1>2, <2>4 DEF Live
    <3>2. ~RefersTo(d, lost, r, o)
      BY <1>1, <3>1, GoneRefers
    <3>3. RefersTo(g, lost, r, o) => <<o, r>> \in FromLinks(g, c)
      BY <1>1, <3>1, GoneRefers
    <3>4. r \notin S[o]
      BY <1>0, <2>1, <2>4, <3>1, <3>3 DEF Sheds
    <3> QED
      BY <2>4, <3>2, <3>4 DEF Y
  <2> QED
    BY <2>2, <2>3, <2>4 DEF Y
<1>5. ASSUME NEW o \in Y
      PROVE  /\ LinksAt(d, o) /\ RegisteredAt(d, o)
             /\ KindOf[o] = "agent" /\ Live(d, o) => d[o].conv = NoObject /\ d[d[o].model].owned
  <2>1. CASE o \in X
    BY <1>0, <1>1, <1>2, <2>1, BuriedSound DEF Shared
  <2>2. CASE o = a
    <3>1. ASSUME Live(d, a) PROVE d[d[a].model].owned
      <4> DEFINE m == g[a].model
      <4>1. m \in Objects /\ KindOf[m] = "model" /\ g[m].owned
        BY <1>1 DEF LinksAt, AgentAt, OfKind
      <4>2. m \notin Y
        BY <1>1, <1>2, <4>1 DEF Y
      <4>3. d[m].owned = g[m].owned
        BY <1>0, <4>1, <4>2 DEF Sheds, Stays
      <4> QED
        BY <1>0, <3>1, <4>1, <4>3
    <3> QED
      BY <1>0, <2>2, <3>1
  <2> QED
    BY <2>1, <2>2 DEF Y
<1>6. ASSUME NEW b \in OfKind("agent") \ Y, Live(g, b)
      PROVE  g[b].model \notin Y /\ g[b].conv \notin Y
  <2>1. b \in Objects /\ KindOf[b] = "agent" /\ AgentAt(g, b) /\ LinksAt(g, b) /\ b # a
    BY <1>1 DEF OfKind, Y
  <2>2. g[b].model \notin Y
    BY <1>1, <1>2, <1>6, <2>1 DEF LinksAt, OfKind, Y
  <2>3. ASSUME g[b].conv \in Y PROVE FALSE
    <3>1. g[b].conv \in Objects /\ g[b].conv # NoObject
      BY <1>2, <2>3, GraphConstants
    <3>2. KindOf[g[b].conv] = "conv"
      BY <1>6, <2>1, <3>1 DEF AgentAt, OfKind
    <3>3. g[b].conv = g[a].conv
      BY <1>1, <1>2, <2>3, <3>2 DEF Y
    <3> QED
      BY <1>1, <1>6, <2>1, <3>1, <3>3 DEF AgentAt
  <2> QED
    BY <2>2, <2>3
<1> QED
  BY <1>0, <1>2, <1>3, <1>4, <1>5, <1>6, Settled

\* agent_release_slot
LEMMA GraphReleaseSlotStep ==
  ASSUME GraphInv, NEW a \in Objects, ReleaseSlot(a)
  PROVE  GraphInv'
<1> DEFINE R == AllReferences(obj, leaked)
           e == WithoutConv(obj, a)
           X == ConvOf(obj, a)
           Y == X \cup {a}
           G == FromLinks(obj, obj[a].conv)
           y == [obj[a] EXCEPT !.conv = NoObject]
<1>1. /\ InOrder(obj, leaked) /\ leaked' = leaked /\ obj[a] \in GraphRecords /\ LinksAt(obj, a) /\ RegisteredAt(obj, a)
      /\ a \in OfKind("agent") /\ KindOf[a] = "agent" /\ KindOf[a] \notin Shared /\ Live(obj, a)
      /\ leaked \subseteq OfKind("model")
      /\ obj' = [e EXCEPT ![a].conv = NoObject]
  BY GraphFacts DEF GraphInv, ReleaseSlot, Lookup, OfKind, Shared, WithoutConv
<1>2. /\ \E S \in RefTables : Sheds(obj, R, e, S, G, X)
      /\ X \in SUBSET Objects
      /\ \A c \in X : /\ c = obj[a].conv /\ KindOf[c] = "conv" /\ Live(obj, c)
                      /\ e[c].mem = "freed" /\ e[c].reg = FALSE /\ e[c].owned = FALSE
  <2>1. \E S \in RefTables : LetsConv(obj, AllReferences(obj, leaked), WithoutConv(obj, a), S, a)
    <3>1. InOrder(obj, leaked) /\ a \in OfKind("agent") /\ Live(obj, a)
      BY <1>1
    <3> QED
      BY <3>1, ConvGone
  <2> QED
    BY <2>1 DEF LetsConv
<1>3. \A r \in References : r[1] \in X => r[1] = obj[a].conv
  BY <1>2
<1>4. obj[a].conv \in Objects => obj[a].conv \in X
  BY DEF ConvOf
<1>5. /\ y \in GraphRecords /\ y.mem = obj[a].mem /\ y.reg = obj[a].reg /\ y.owned = obj[a].owned
      /\ y.model = obj[a].model /\ y.toolset = obj[a].toolset /\ y.adapters = obj[a].adapters
      /\ y.conv = NoObject
  BY <1>1 DEF GraphRecords, Links
<1> HIDE DEF R, e, X, Y, G
<1>6. PICK S \in RefTables : Sheds(obj, R, e, S, G, X)
  BY <1>2
<1>7. e[a] = obj[a] /\ a \notin X
  <2>1. a \notin X
    BY <1>1, <1>2
  <2> QED
    BY <1>1, <1>6, <2>1 DEF Sheds, Stays
<1>8. obj' = Put(e, a, y)
  <2>1. [e EXCEPT ![a].conv = NoObject] = Put(e, a, [e[a] EXCEPT !.conv = NoObject])
    BY DEF Put
  <2> QED
    BY <1>1, <1>7, <2>1
<1> HIDE DEF y
<1>9. /\ Sheds(obj, R, obj', S, G, Y) /\ obj'[a] = y
      /\ \A c \in X : obj'[c].mem = "freed" /\ obj'[c].reg = FALSE /\ obj'[c].owned = FALSE
  <2>1. Y \in SUBSET Objects /\ a \in Y /\ X \subseteq Y
    BY <1>2 DEF Y
  <2>2. Sheds(obj, R, e, S, G, Y)
    BY <1>6, <2>1, ShedsWide
  <2>3. KindOf[a] \notin Shared
    BY <1>1
  <2>4. Sheds(obj, R, Put(e, a, y), S, G, Y) /\ Put(e, a, y)[a] = y /\ \A p \in Y \ {a} : Put(e, a, y)[p] = e[p]
    BY <1>5, <2>1, <2>2, <2>3, ShedsPut
  <2>5. Sheds(obj, R, obj', S, G, Y) /\ obj'[a] = y /\ \A p \in Y \ {a} : obj'[p] = e[p]
    BY <1>8, <2>4
  <2> QED
    BY <1>2, <1>7, <2>1, <2>5
<1>10. ASSUME NEW o \in Objects, NEW r \in References
       PROVE  /\ r[1] = a => (r \in S[o] <=> RefersTo(obj', leaked, r, o))
              /\ <<o, r>> \in FromLinks(obj, obj[a].conv) => <<o, r>> \in G
              /\ <<o, r>> \in G => r[1] \in Y
  <2>1. <<o, r>> \in G => r[1] = obj[a].conv /\ r[1] \in X
    BY <1>4, ReferenceParts DEF G, FromLinks
  <2>2. ASSUME r[1] = a
        PROVE  r \in S[o] <=> RefersTo(obj', leaked, r, o)
    <3>1. SameLinks(obj, obj', r[1])
      BY <1>5, <1>9, <2>2 DEF SameLinks
    <3>2. r \in S[o] <=> r \in R[o]
      BY <1>1, <1>6, <1>7, <2>1, <2>2 DEF Sheds, Lost
    <3>3. r \in R[o] <=> RefersTo(obj, leaked, r, o)
      BY TableHas DEF R
    <3> QED
      BY <3>1, <3>2, <3>3, RefersSame
  <2> QED
    BY <2>1, <2>2 DEF G, Y
<1>11. /\ LinksAt(obj', a) /\ RegisteredAt(obj', a)
       /\ Live(obj', a) => obj'[a].conv = NoObject /\ obj'[a].model = obj[a].model
  BY <1>1, <1>5, <1>9 DEF LinksAt, RegisteredAt, Live
<1>12. AgentGives(obj, leaked, a, obj', S, G)
  BY <1>9, <1>10, <1>11 DEF AgentGives, R, X, Y
<1>13. InOrder(obj', leaked)
  <2>1. InOrder(obj, leaked) /\ a \in OfKind("agent") /\ Live(obj, a)
    BY <1>1
  <2> QED
    BY <1>12, <2>1, AgentSettled
<1> QED
  BY <1>1, <1>13 DEF GraphInv

\* agent_destroy
LEMMA AgentDestroyStep ==
  ASSUME GraphInv, NEW a \in Objects, AgentDestroy(a)
  PROVE  GraphInv'
<1> DEFINE R == AllReferences(obj, leaked)
           e == WithoutConv(obj, a)
           t == obj[a].toolset
           e2 == DropToolset(e, t)
           X == ConvOf(obj, a)
           Y == X \cup {a}
           G1 == FromLinks(obj, obj[a].conv)
           k == <<a, "toolset", 0>>
           G2 == IF t = NoObject THEN {} ELSE {<<t, k>>}
           G == G1 \cup G2
           y == [Buried(obj[a]) EXCEPT !.conv = NoObject]
<1>1. /\ InOrder(obj, leaked) /\ leaked' = leaked /\ obj[a] \in GraphRecords /\ LinksAt(obj, a)
      /\ a \in OfKind("agent") /\ KindOf[a] = "agent" /\ KindOf[a] \notin Shared /\ Live(obj, a)
      /\ leaked \subseteq OfKind("model") /\ k \in References /\ k[1] = a /\ k[2] = "toolset"
      /\ t # NoObject => t \in Objects /\ KindOf[t] = "toolset"
      /\ obj' = [Forget(e2, a) EXCEPT ![a].owned = FALSE, ![a].conv = NoObject]
  BY GraphFacts, ReferenceForm
  DEF GraphInv, AgentDestroy, Owned, Lookup, OfKind, Shared, WithoutConv, LinksAt
<1>2. PICK S1 \in RefTables : /\ Sheds(obj, R, e, S1, G1, X) /\ X \in SUBSET Objects
                              /\ \A c \in X : /\ c = obj[a].conv /\ KindOf[c] = "conv" /\ KindOf[c] \notin Shared
                                              /\ e[c].mem = "freed" /\ e[c].reg = FALSE /\ e[c].owned = FALSE
  <2>1. \E S \in RefTables : LetsConv(obj, AllReferences(obj, leaked), WithoutConv(obj, a), S, a)
    <3>1. InOrder(obj, leaked) /\ a \in OfKind("agent") /\ Live(obj, a)
      BY <1>1
    <3> QED
      BY <3>1, ConvGone
  <2> QED
    BY <2>1 DEF LetsConv, Shared
<1>3. \A o \in Objects, r \in References : <<o, r>> \in G1 => r[1] \in X
  BY ReferenceParts DEF FromLinks, ConvOf
<1>4. \A o \in Objects, r \in References : <<o, r>> \in G2 <=> o = t /\ r = k
  BY GraphConstants
<1>5. a \notin X
  BY <1>1, <1>2
<1>6. Buried(obj[a]) \in GraphRecords /\ Buried(obj[a]).mem = "freed" /\ Buried(obj[a]).reg = FALSE
      /\ Buried(obj[a]).owned = FALSE
  BY <1>1, BuriedIs
<1>7. y \in GraphRecords /\ y.mem = "freed" /\ y.reg = FALSE /\ y.owned = FALSE
  BY <1>6 DEF GraphRecords, Links
<1> HIDE DEF R, e, t, e2, X, Y, G1, k, G2, G, y
<1>8. t # NoObject => k \in S1[t]
  <2>1. SUFFICES ASSUME t # NoObject PROVE k \in S1[t]
    OBVIOUS
  <2>2. RefersTo(obj, leaked, k, t)
    BY <1>1 DEF RefersTo, k, t, Live
  <2>3. k \in R[t] /\ t \in Objects
    BY <1>1, <2>1, <2>2, TableHas DEF R
  <2>4. <<t, k>> \notin G1
    BY <1>1, <1>3, <1>5, <2>3
  <2> QED
    BY <1>1, <1>2, <2>3, <2>4 DEF Sheds, Lost
<1>9. PICK S : Sheds(obj, R, e2, S, G, X) /\ \A c \in X : e2[c] = e[c]
  <2>1. CASE t = NoObject
    <3>1. e2 = e /\ G = G1
      BY <2>1 DEF e2, G, G2, DropToolset
    <3> QED
      BY <1>2, <3>1
  <2>2. CASE t # NoObject
    <3> DEFINE N == {}
               H == {<<t, k>>}
    <3>1. t \in Objects /\ KindOf[t] # "adapter" /\ k \in S1[t] /\ Balanced(e, S1)
      BY <1>1, <1>2, <1>8, <2>2 DEF Sheds
    <3>2. e2 = Drop(e, t) /\ G = G1 \cup H
      BY <2>2, <3>1, DropIs DEF Drop, e2, G, G2
    <3>3. ~(k[2] = "model" /\ KindOf[k[1]] = "adapter")
      BY <1>1
    <3> HIDE DEF N
    <3>4. PICK S2 \in RefTables : Sheds(e, S1, Drop(e, t), S2, H, N)
      BY <3>1, <3>3, DropStep DEF N
    <3> HIDE DEF H
    <3>5. Sheds(obj, R, e, S1, G1, X) /\ X \in SUBSET Objects /\ \A c \in X : KindOf[c] \notin Shared
      BY <1>2
    <3>6. Sheds(e, S1, e2, S2, H, {})
      BY <3>2, <3>4 DEF N
    <3>7. Sheds(obj, R, e2, S2, G1 \cup H, X)
      BY <3>5, <3>6, ShedsTwice
    <3>8. \A c \in X : e2[c] = e[c]
      BY <3>5, <3>6 DEF Sheds, Stays
    <3> QED
      BY <3>2, <3>7, <3>8
  <2> QED
    BY <2>1, <2>2
<1>10. e2[a] = obj[a]
  BY <1>1, <1>5, <1>9 DEF Sheds, Stays
<1>11. obj' = Put(e2, a, y)
  <2>1. e2 \in Graphs
    BY <1>9 DEF Sheds, Balanced
  <2> DEFINE x1 == [obj[a] EXCEPT !.reg = FALSE]
             x2 == [x1 EXCEPT !.mem = "freed"]
             x3 == [x2 EXCEPT !.owned = FALSE]
             d1 == [e2 EXCEPT ![a].reg = FALSE]
             d2 == [d1 EXCEPT ![a].mem = "freed"]
             d3 == [d2 EXCEPT ![a].owned = FALSE]
             d4 == [d3 EXCEPT ![a].conv = NoObject]
  <2>2. obj' = d4
    BY <1>1 DEF Forget
  <2>3. y = [x3 EXCEPT !.conv = NoObject]
    BY DEF y, Buried
  <2> HIDE DEF x1, x2, x3, d1, d2, d3, d4
  <2>4. d1 = Put(e2, a, x1)
    BY <1>10, <2>1 DEF Put, Graphs, d1, x1
  <2>5. d2 = Put(e2, a, x2)
    BY <2>1, <2>4 DEF Put, Graphs, d2, x2
  <2>6. d3 = Put(e2, a, x3)
    BY <2>1, <2>5 DEF Put, Graphs, d3, x3
  <2>7. d4 = Put(e2, a, [x3 EXCEPT !.conv = NoObject])
    BY <2>1, <2>6 DEF Put, Graphs, d4
  <2> QED
    BY <2>2, <2>3, <2>7
<1>12. /\ Sheds(obj, R, obj', S, G, Y) /\ obj'[a] = y
       /\ \A c \in X : obj'[c].mem = "freed" /\ obj'[c].reg = FALSE /\ obj'[c].owned = FALSE
  <2>1. Y \in SUBSET Objects /\ a \in Y /\ X \subseteq Y
    BY <1>2 DEF Y
  <2>2. Sheds(obj, R, e2, S, G, Y)
    BY <1>9, <2>1, ShedsWide
  <2>3. KindOf[a] \notin Shared
    BY <1>1
  <2>4. Sheds(obj, R, Put(e2, a, y), S, G, Y) /\ Put(e2, a, y)[a] = y /\ \A p \in Y \ {a} : Put(e2, a, y)[p] = e2[p]
    BY <1>7, <2>1, <2>2, <2>3, ShedsPut
  <2>5. Sheds(obj, R, obj', S, G, Y) /\ obj'[a] = y /\ \A p \in Y \ {a} : obj'[p] = e2[p]
    BY <1>11, <2>4
  <2> QED
    BY <1>2, <1>5, <1>9, <2>1, <2>5
<1>13. LinksAt(obj', a) /\ RegisteredAt(obj', a) /\ ~Live(obj', a)
  BY <1>7, <1>12, BuriedSound
<1>14. ASSUME NEW o \in Objects, NEW r \in References
       PROVE  /\ r[1] = a => (r \in S[o] <=> RefersTo(obj', leaked, r, o))
              /\ <<o, r>> \in FromLinks(obj, obj[a].conv) => <<o, r>> \in G
              /\ <<o, r>> \in G => r[1] \in Y
  <2>1. <<o, r>> \in G <=> <<o, r>> \in G1 \/ (o = t /\ r = k)
    BY <1>4 DEF G
  <2>2. <<o, r>> \in G => r[1] \in Y
    BY <1>1, <1>3, <2>1 DEF Y
  <2>3. <<o, r>> \in FromLinks(obj, obj[a].conv) => <<o, r>> \in G
    BY <2>1 DEF G1
  <2>4. ASSUME r[1] = a
        PROVE  r \in S[o] <=> RefersTo(obj', leaked, r, o)
    <3>1. ~RefersTo(obj', leaked, r, o)
      BY <1>1, <1>13, <2>4, GoneRefers
    <3>2. RefersTo(obj, leaked, r, o) => o = t /\ r = k
      <4>1. a \notin leaked /\ obj[a].adapters = <<>>
        BY <1>1 DEF OfKind, LinksAt
      <4>2. r = <<a, r[2], r[3]>>
        BY <2>4, ReferenceParts
      <4>3. RefersTo(obj, leaked, r, o) => r[2] = "toolset" /\ r[3] = 0 /\ obj[a].toolset = o
        BY <1>1, <2>4, <4>1 DEF RefersTo
      <4> QED
        BY <4>2, <4>3 DEF k, t
    <3>3. r \in S[o] => r \in R[o] /\ <<o, r>> \notin G
      BY <1>12 DEF Sheds
    <3> QED
      BY <2>1, <3>1, <3>2, <3>3, TableHas DEF R
  <2> QED
    BY <2>2, <2>3, <2>4
<1>15. AgentGives(obj, leaked, a, obj', S, G)
  BY <1>12, <1>13, <1>14 DEF AgentGives, R, X, Y
<1>16. InOrder(obj', leaked)
  <2>1. InOrder(obj, leaked) /\ a \in OfKind("agent") /\ Live(obj, a)
    BY <1>1
  <2> QED
    BY <1>15, <2>1, AgentSettled
<1> QED
  BY <1>1, <1>16 DEF GraphInv

-----------------------------------------------------------------------------
(* The invariant and what follows from it *)

LEMMA GraphInit == OGInit => GraphInv
<1> SUFFICES ASSUME OGInit PROVE GraphInv
  OBVIOUS
<1> DEFINE R == AllReferences(obj, leaked)
<1>1. leaked = {} /\ \A o \in Objects : obj[o] = Fresh
  BY DEF OGInit
<1>2. obj \in Graphs
  <2>1. NoObject \in Links /\ <<>> \in Seq(Objects)
    BY DEF Links
  <2>2. Fresh \in GraphRecords
    BY <2>1 DEF Fresh, GraphRecords
  <2> HIDE DEF R
  <2> QED
    BY <2>2 DEF OGInit, Graphs
<1>3. \A o \in Objects : ~Live(obj, o)
  BY <1>1 DEF Live, Fresh
<1>4. Sound(obj)
  <2>1. \A o \in Objects : ~obj[o].reg /\ ~obj[o].owned
    BY <1>1 DEF Fresh
  <2> QED
    BY <1>1, <1>3, <2>1 DEF Sound, SoundAt, LinksAt, RegisteredAt, AgentAt
<1>5. \A o \in Objects : R[o] = {}
  <2>1. \A o \in Objects, r \in References : ~RefersTo(obj, leaked, r, o)
    BY <1>1, ReferenceParts DEF RefersTo, Fresh
  <2> QED
    BY <2>1 DEF AllReferences, ReferencesTo
<1>6. R \in RefTables
  BY DEF AllReferences, ReferencesTo, RefTables
<1> HIDE DEF R
<1>7. Balanced(obj, R)
  BY <1>2, <1>3, <1>5, <1>6 DEF Balanced, OfKind
<1> QED
  BY <1>1, <1>4, <1>7 DEF GraphInv, InOrder, R

LEMMA GraphStep == GraphInv /\ [OGNext]_ogVars => GraphInv'
<1> SUFFICES ASSUME GraphInv, [OGNext]_ogVars PROVE GraphInv'
  OBVIOUS
<1>1. CASE UNCHANGED ogVars
  BY <1>1 DEF GraphInv, ogVars
<1>2. ASSUME NEW o \in Objects,
             \/ CreateRoot(o) \/ AdapterLoad(o) \/ RunnerCreate(o) \/ AgentCreate(o) \/ CreatePlain(o)
             \/ AdaptersAdd(o) \/ AdaptersClear(o) \/ ClearToolset(o) \/ ReleaseSlot(o)
             \/ ModelRelease(o) \/ RefRelease(o) \/ RunnerDestroy(o) \/ EmbedderDestroy(o)
             \/ AgentDestroy(o) \/ DestroyPlain(o)
      PROVE  GraphInv'
  <2>1. CASE CreateRoot(o)
    BY <2>1, RootStep
  <2>2. CASE AdapterLoad(o)
    BY <2>2, AdapterLoadStep
  <2>3. CASE RunnerCreate(o)
    BY <2>3, RunnerCreateStep
  <2>4. CASE AgentCreate(o)
    BY <2>4, AgentCreateStep
  <2>5. CASE CreatePlain(o)
    BY <2>5, PlainStep
  <2>6. CASE AdaptersAdd(o)
    BY <2>6, AdaptersAddStep
  <2>7. CASE AdaptersClear(o)
    BY <2>7, AdaptersClearStep
  <2>8. CASE ClearToolset(o)
    BY <2>8, ClearToolsetStep
  <2>9. CASE ReleaseSlot(o)
    BY <2>9, GraphReleaseSlotStep
  <2>10. CASE ModelRelease(o)
    BY <2>10, ModelReleaseStep
  <2>11. CASE RefRelease(o)
    BY <2>11, RefReleaseStep
  <2>12. CASE RunnerDestroy(o)
    BY <2>12, RunnerDestroyStep
  <2>13. CASE EmbedderDestroy(o)
    BY <2>13, EmbedderDestroyStep
  <2>14. CASE AgentDestroy(o)
    BY <2>14, AgentDestroyStep
  <2>15. CASE DestroyPlain(o)
    BY <2>15, DestroyPlainStep
  <2> QED
    BY <1>2, <2>1, <2>2, <2>3, <2>4, <2>5, <2>6, <2>7, <2>8, <2>9, <2>10, <2>11, <2>12, <2>13, <2>14, <2>15
<1>3. CASE SessionCreateNoMemory
  BY <1>3, NoMemoryStep
<1>4. ASSUME NEW s \in Objects, NEW t \in Lookup("toolset"), SetToolset(s, t)
      PROVE  GraphInv'
  BY <1>4, SetToolsetStep
<1>5. ASSUME NEW a \in Objects, NEW c \in Objects, EnsureConversation(a, c)
      PROVE  GraphInv'
  BY <1>5, EnsureStep
<1> QED
  BY <1>1, <1>2, <1>3, <1>4, <1>5 DEF OGNext

\* What something refers to is alive.
LEMMA RefersLive ==
  ASSUME NEW g, NEW lost, InOrder(g, lost), NEW o \in Objects, NEW r \in References, RefersTo(g, lost, r, o)
  PROVE  Live(g, o)
<1>1. AllReferences(g, lost)[o] # {}
  BY TableHas
<1> QED
  BY <1>1 DEF InOrder, Balanced

\* The links of a live object are to live ones.
LEMMA LinksLive ==
  ASSUME NEW g, NEW lost, InOrder(g, lost), NEW o \in Objects, Live(g, o)
  PROVE  /\ g[o].model # NoObject => g[o].model \in Objects /\ Live(g, g[o].model)
         /\ g[o].toolset # NoObject => g[o].toolset \in Objects /\ Live(g, g[o].toolset)
         /\ \A d \in Range(g[o].adapters) : d \in Objects /\ Live(g, d)
         /\ g[o].conv # NoObject => g[o].conv \in Objects /\ Live(g, g[o].conv)
<1>1. LinksAt(g, o) /\ AgentAt(g, o)
  BY GraphFacts
<1>2. ASSUME g[o].model # NoObject
      PROVE  g[o].model \in Objects /\ Live(g, g[o].model)
  <2>1. g[o].model \in Objects
    BY <1>1, <1>2 DEF LinksAt, OfKind
  <2>2. CASE KindOf[o] = "agent"
    BY <1>1, <2>1, <2>2 DEF AgentAt
  <2>3. CASE KindOf[o] # "agent"
    <3>1. <<o, "model", 0>> \in References /\ RefersTo(g, lost, <<o, "model", 0>>, g[o].model)
      BY <2>3, ReferenceForm DEF RefersTo, Live
    <3> QED
      BY <2>1, <3>1, RefersLive
  <2> QED
    BY <2>2, <2>3
<1>3. ASSUME g[o].toolset # NoObject
      PROVE  g[o].toolset \in Objects /\ Live(g, g[o].toolset)
  <2>1. g[o].toolset \in Objects
    BY <1>1, <1>3 DEF LinksAt, OfKind
  <2>2. <<o, "toolset", 0>> \in References /\ RefersTo(g, lost, <<o, "toolset", 0>>, g[o].toolset)
    BY ReferenceForm DEF RefersTo, Live
  <2> QED
    BY <2>1, <2>2, RefersLive
<1>4. ASSUME NEW d \in Range(g[o].adapters)
      PROVE  d \in Objects /\ Live(g, d)
  <2> DEFINE list == g[o].adapters
  <2>1. list \in Seq(OfKind("adapter")) /\ Len(list) <= MaxAdapters
    BY <1>1 DEF LinksAt
  <2>2. PICK i \in DOMAIN list : d = list[i]
    BY <1>4 DEF Range
  <2>3. d \in Objects /\ i \in 0 .. MaxAdapters
    BY <2>1, <2>2, EntryForm
  <2>4. <<o, "adapters", i>> \in References /\ RefersTo(g, lost, <<o, "adapters", i>>, d)
    BY <2>2, <2>3, ReferenceForm DEF RefersTo, Live
  <2> QED
    BY <2>3, <2>4, RefersLive
<1>5. ASSUME g[o].conv # NoObject
      PROVE  g[o].conv \in Objects /\ Live(g, g[o].conv)
  BY <1>1, <1>5 DEF LinksAt, AgentAt, OfKind
<1> QED
  BY <1>2, <1>3, <1>4, <1>5

LEMMA FamiliesRead ==
  \A f \in Families : f.reads \subseteq {"model", "toolset", "adapters", "conv", "convmodel"}
BY DEF Families, Family, ModelQueries, ExecutorCalls, TokenCalls, AdapterCalls, ToolsetCalls,
       SessionFeedCalls, SessionSamplingCalls, SessionStateCalls, SessionAdapterCalls,
       SessionGrammarCalls, SessionRunCalls, ConvFeedCalls, ConvRunCalls, ConvSamplingCalls,
       ConvGrammarCalls, ConvStreamCalls, AgentTextCalls, AgentHistoryCalls, AgentChatCalls,
       EmbedCalls, MemoryCalls, MediaCalls, DetokenizeCalls, SessionSlotCalls, SessionStatsCalls,
       MemorySearchCalls, SaveCalls, SnapshotCalls

LEMMA GraphInvSound == GraphInv => GraphSound
<1> SUFFICES ASSUME GraphInv PROVE GraphSound
  OBVIOUS
<1>1. /\ InOrder(obj, leaked) /\ obj \in Graphs /\ leaked \subseteq OfKind("model")
      /\ Balanced(obj, AllReferences(obj, leaked))
      /\ \A o \in Objects : Live(obj, o) <=> obj[o].reg
      /\ \A o \in Objects : Alive(o) <=> Live(obj, o)
  BY GraphFacts DEF GraphInv, InOrder, Alive, Live
<1>2. OGTypeOK
  BY <1>1 DEF OGTypeOK, Graphs, GraphRecords, Links
<1>3. RefsBalance
  <2>1. ASSUME NEW o \in Counted
        PROVE  obj[o].refs = Holders(o) /\ (KindOf[o] # "model" => obj[o].refs > 0)
    <3> DEFINE T == ReferencesTo(obj, leaked, o)
    <3>1. o \in Objects /\ KindOf[o] \in Shared /\ Live(obj, o)
      BY <1>1 DEF Counted
    <3>2. T = AllReferences(obj, leaked)[o] /\ T \in SUBSET References
      BY <3>1 DEF AllReferences, ReferencesTo
    <3> HIDE DEF T
    <3>3. obj[o].refs = Cardinality(T) /\ (KindOf[o] # "model" => T # {})
      BY <1>1, <3>1, <3>2 DEF Balanced
    <3>4. Cardinality(T) \in Nat /\ (Cardinality(T) = 0 <=> T = {})
      BY <3>2, RefCountFacts
    <3> QED
      BY <3>3, <3>4 DEF Holders, T
  <2>2. ASSUME NEW o \in Objects, Alive(o),
               NEW d \in Range(obj[o].adapters) \cup ({obj[o].toolset, obj[o].model} \ {NoObject})
        PROVE  Alive(d)
    <3>1. InOrder(obj, leaked) /\ Live(obj, o)
      BY <1>1, <2>2
    <3>2. /\ obj[o].model # NoObject => obj[o].model \in Objects /\ Live(obj, obj[o].model)
          /\ obj[o].toolset # NoObject => obj[o].toolset \in Objects /\ Live(obj, obj[o].toolset)
          /\ \A p \in Range(obj[o].adapters) : p \in Objects /\ Live(obj, p)
      BY <3>1, LinksLive
    <3> QED
      BY <1>1, <2>2, <3>2
  <2> QED
    BY <1>1, <2>1, <2>2 DEF RefsBalance
<1>4. CallsReachLive
  <2> SUFFICES ASSUME NEW f \in Families, NEW o \in Objects, Accepted(f, o), NEW d \in Dereferenced(f, o)
               PROVE  Alive(d)
    BY DEF CallsReachLive
  <2>1. Live(obj, o)
    BY <1>1 DEF Accepted
  <2>2. /\ obj[o].model # NoObject => obj[o].model \in Objects /\ Live(obj, obj[o].model)
        /\ obj[o].toolset # NoObject => obj[o].toolset \in Objects /\ Live(obj, obj[o].toolset)
        /\ \A p \in Range(obj[o].adapters) : p \in Objects /\ Live(obj, p)
        /\ obj[o].conv # NoObject => obj[o].conv \in Objects /\ Live(obj, obj[o].conv)
    BY <1>1, <2>1, LinksLive
  <2>3. CASE d = o
    BY <1>1, <2>1, <2>3
  <2>4. CASE d # o
    <3> DEFINE P == Pointers(o)
    <3> DEFINE U == UNION {P[r] : r \in f.reads}
    <3>00. Dereferenced(f, o) = {o} \cup (U \ {NoObject})
      BY Zenon DEF Dereferenced
    <3> HIDE DEF U
    <3>01. d \in U /\ d # NoObject
      BY <2>4, <3>00
    <3>0. \E r \in f.reads : d \in P[r]
      <4> HIDE DEF P
      <4> QED
        BY <3>01 DEF U
    <3>0a. f.reads \subseteq {"model", "toolset", "adapters", "conv", "convmodel"}
      BY FamiliesRead
    <3> HIDE DEF P
    <3>0b. PICK r \in f.reads : d \in P[r]
      BY <3>0
    <3>1. r \in {"model", "toolset", "adapters", "conv", "convmodel"} /\ d \in Pointers(o)[r] /\ d # NoObject
      BY <3>01, <3>0a, <3>0b DEF P
    <3>2. CASE r = "model"
      BY <1>1, <2>2, <3>1, <3>2 DEF Pointers
    <3>3. CASE r = "toolset"
      BY <1>1, <2>2, <3>1, <3>3 DEF Pointers
    <3>4. CASE r = "adapters"
      BY <1>1, <2>2, <3>1, <3>4 DEF Pointers
    <3>5. CASE r = "conv"
      BY <1>1, <2>2, <3>1, <3>5 DEF Pointers
    <3>6. CASE r = "convmodel"
      <4> DEFINE c == obj[o].conv
      <4>1. c # NoObject /\ d = obj[c].model
        BY <3>1, <3>6 DEF Pointers
      <4>2. c \in Objects /\ Live(obj, c)
        BY <2>2, <4>1
      <4> HIDE DEF c
      <4>3. obj[c].model # NoObject => obj[c].model \in Objects /\ Live(obj, obj[c].model)
        BY <1>1, <4>2, LinksLive
      <4> QED
        BY <1>1, <3>1, <4>1, <4>3
    <3> QED
      BY <3>1, <3>2, <3>3, <3>4, <3>5, <3>6
  <2> QED
    BY <2>3, <2>4
<1> QED
  BY <1>2, <1>3, <1>4 DEF GraphSound

\* No call that a handle check lets through reaches storage that is gone, and
\* every reference is given back once (model_release, adapter_release,
\* toolset_release and the destructors): GraphSound holds in every state of
\* every instance, for any number of objects of every kind.
THEOREM GraphCorrect == OGSpec => []GraphSound
<1>1. OGInit => GraphInv
  BY GraphInit
<1>2. GraphInv /\ [OGNext]_ogVars => GraphInv'
  BY GraphStep
<1>3. GraphInv => GraphSound
  BY GraphInvSound
<1> QED
  BY <1>1, <1>2, <1>3, PTL DEF OGSpec
=============================================================================
