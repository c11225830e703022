----------------------------- MODULE HandleTable -----------------------------
(***************************************************************************)
(* The handle table (src/core/handles.hpp): registration and removal run   *)
(* under a spin lock, lookups take no lock and read the pointer, the kind  *)
(* and the generation of a slot one after the other while both go on.      *)
(* Every atomic access is a step.                                          *)
(***************************************************************************)
EXTENDS Naturals, FiniteSets

CONSTANTS
  HTThreads,     \* the threads that call the table
  HandleSlots,   \* kMaxHandles
  HandleKinds,   \* the valid HandleKinds
  GenBits,       \* width of a generation, 32 in the code
  MaxObjects,    \* bound: objects ever registered
  Null, Invalid  \* a null pointer and HandleKind::Invalid, model values

ASSUME HandleAssumption ==
  HandleSlots \in Nat \ {0} /\ GenBits \in Nat \ {0} /\ MaxObjects \in Nat

VARIABLES
  hslot,     \* slot -> [ptr, gen, kind]
  hnext,     \* next_index_
  hlock,     \* the thread inside table_lock_, or Null
  hpc,       \* thread -> where it is, with the values it has loaded
  issued     \* handle -> the object it was handed out for

htVars == <<hslot, hnext, hlock, hpc, issued>>

Handles == [kind : HandleKinds, index : 0 .. HandleSlots - 1, gen : 1 .. 2 ^ GenBits - 1]

HTIdle == [at |-> "idle"]

HTInit ==
  /\ hslot = [i \in 0 .. HandleSlots - 1 |-> [ptr |-> Null, gen |-> 0, kind |-> Invalid]]
  /\ hnext = 0 /\ hlock = Null
  /\ hpc = [t \in HTThreads |-> HTIdle]
  /\ issued = [h \in {} |-> 0]

\* BackoffSpinLock::lock: the exchange that finds the lock free
Acquire(t, then) ==
  /\ hlock = Null /\ hlock' = t
  /\ hpc' = [hpc EXCEPT ![t] = then]

\* gen + 1 in GenBits bits, never 0
NextGen(g) == LET n == (g + 1) % 2 ^ GenBits IN IF n = 0 THEN 1 ELSE n

---------------------------------------------------------------------------
(* register_ptr *)

RegisterBegin(t, k) ==
  /\ hpc[t].at = "idle" /\ Cardinality(DOMAIN issued) < MaxObjects
  /\ Acquire(t, [at |-> "reg_scan", kind |-> k, i |-> 0])
  /\ UNCHANGED <<hslot, hnext, issued>>

\* One slot of the scan from next_index_: taken, or claimed by its generation;
\* past the last slot the table is full
RegisterScan(t) ==
  /\ hpc[t].at = "reg_scan"
  /\ LET i == (hnext + hpc[t].i) % HandleSlots
         g == NextGen(hslot[i].gen)
     IN  IF hpc[t].i = HandleSlots
         THEN hpc' = [hpc EXCEPT ![t] = HTIdle] /\ hlock' = Null /\ UNCHANGED hslot
         ELSE IF hslot[i].ptr # Null
         THEN hpc' = [hpc EXCEPT ![t].i = @ + 1] /\ UNCHANGED <<hslot, hlock>>
         ELSE /\ hslot' = [hslot EXCEPT ![i].gen = g]
              /\ hpc' = [hpc EXCEPT ![t] =
                   [at |-> "reg_kind", h |-> [kind |-> hpc[t].kind, index |-> i, gen |-> g]]]
              /\ UNCHANGED hlock
  /\ UNCHANGED <<hnext, issued>>

RegisterKind(t) ==
  /\ hpc[t].at = "reg_kind"
  /\ hslot' = [hslot EXCEPT ![hpc[t].h.index].kind = hpc[t].h.kind]
  /\ hpc' = [hpc EXCEPT ![t].at = "reg_ptr"]
  /\ UNCHANGED <<hnext, hlock, issued>>

\* The object behind a new handle: the n-th ever registered
ObjectFor == Cardinality(DOMAIN issued) + 1

\* The pointer is stored last and published by the release store; the handle
\* goes to the caller
RegisterPtr(t) ==
  /\ hpc[t].at = "reg_ptr"
  /\ hslot' = [hslot EXCEPT ![hpc[t].h.index].ptr = ObjectFor]
  /\ issued' = [h \in DOMAIN issued \cup {hpc[t].h} |->
                  IF h = hpc[t].h THEN ObjectFor ELSE issued[h]]
  /\ hnext' = (hpc[t].h.index + 1) % HandleSlots
  /\ hlock' = Null /\ hpc' = [hpc EXCEPT ![t] = HTIdle]

---------------------------------------------------------------------------
(* unregister_handle *)

UnregisterBegin(t, h) ==
  /\ hpc[t].at = "idle"
  /\ Acquire(t, [at |-> "unreg", h |-> h])
  /\ UNCHANGED <<hslot, hnext, issued>>

Matches(s, h) == s.ptr # Null /\ s.kind = h.kind /\ s.gen = h.gen

\* The checks under the lock and the store of the null pointer
UnregisterPtr(t) ==
  /\ hpc[t].at = "unreg"
  /\ LET h == hpc[t].h
     IN  IF Matches(hslot[h.index], h)
         THEN /\ hslot' = [hslot EXCEPT ![h.index].ptr = Null]
              /\ hpc' = [hpc EXCEPT ![t].at = "unreg_kind"] /\ UNCHANGED hlock
         ELSE hpc' = [hpc EXCEPT ![t] = HTIdle] /\ hlock' = Null /\ UNCHANGED hslot
  /\ UNCHANGED <<hnext, issued>>

UnregisterKind(t) ==
  /\ hpc[t].at = "unreg_kind"
  /\ hslot' = [hslot EXCEPT ![hpc[t].h.index].kind = Invalid]
  /\ hlock' = Null /\ hpc' = [hpc EXCEPT ![t] = HTIdle]
  /\ UNCHANGED <<hnext, issued>>

---------------------------------------------------------------------------
(* lookup: three loads without the lock *)

LookupPtr(t, h) ==
  /\ hpc[t].at = "idle"
  /\ hpc' = [hpc EXCEPT ![t] =
       IF hslot[h.index].ptr = Null THEN [at |-> "found", h |-> h, ptr |-> Null]
       ELSE [at |-> "look_kind", h |-> h, ptr |-> hslot[h.index].ptr]]
  /\ UNCHANGED <<hslot, hnext, hlock, issued>>

LookupKind(t) ==
  /\ hpc[t].at = "look_kind"
  /\ hpc' = [hpc EXCEPT ![t] =
       IF hslot[@.h.index].kind = @.h.kind THEN [@ EXCEPT !.at = "look_gen"]
       ELSE [at |-> "found", h |-> @.h, ptr |-> Null]]
  /\ UNCHANGED <<hslot, hnext, hlock, issued>>

\* Mutant: the kind is checked and the generation is not
LookupGen_Unchecked(t) ==
  /\ hpc[t].at = "look_gen"
  /\ hpc' = [hpc EXCEPT ![t].at = "found"]
  /\ UNCHANGED <<hslot, hnext, hlock, issued>>

LookupGen(t) ==
  /\ hpc[t].at = "look_gen"
  /\ hpc' = [hpc EXCEPT ![t] =
       [at |-> "found", h |-> @.h,
        ptr |-> IF hslot[@.h.index].gen = @.h.gen THEN @.ptr ELSE Null]]
  /\ UNCHANGED <<hslot, hnext, hlock, issued>>

LookupReturn(t) ==
  /\ hpc[t].at = "found"
  /\ hpc' = [hpc EXCEPT ![t] = HTIdle]
  /\ UNCHANGED <<hslot, hnext, hlock, issued>>

HTNext ==
  \E t \in HTThreads :
    \/ \E k \in HandleKinds : RegisterBegin(t, k)
    \/ RegisterScan(t) \/ RegisterKind(t) \/ RegisterPtr(t)
    \/ \E h \in DOMAIN issued : UnregisterBegin(t, h) \/ LookupPtr(t, h)
    \/ UnregisterPtr(t) \/ UnregisterKind(t)
    \/ LookupKind(t) \/ LookupGen(t) \/ LookupReturn(t)

HTSpec == HTInit /\ [][HTNext]_htVars

---------------------------------------------------------------------------
(* Correctness *)

HTTypeOK ==
  /\ hslot \in [0 .. HandleSlots - 1 ->
                  [ptr : 1 .. MaxObjects \cup {Null}, gen : 0 .. 2 ^ GenBits - 1,
                   kind : HandleKinds \cup {Invalid}]]
  /\ hnext \in 0 .. HandleSlots - 1 /\ hlock \in HTThreads \cup {Null}
  /\ DOMAIN issued \subseteq Handles

\* A lookup returns nothing or the very object its handle was issued for, even
\* when the slot is emptied and given to another object between two of its
\* loads.
LookupExact ==
  \A t \in HTThreads : hpc[t].at = "found" => hpc[t].ptr \in {Null, issued[hpc[t].h]}

\* A handle is never issued twice, and every registered object is reachable
\* through its handle.
SlotsAgree ==
  /\ \A h, g \in DOMAIN issued : issued[h] = issued[g] => h = g
  /\ \A i \in DOMAIN hslot :
       hslot[i].ptr # Null => \E h \in DOMAIN issued :
         h.index = i /\ issued[h] = hslot[i].ptr /\ Matches(hslot[i], h)

\* The table of handles.hpp as one invariant: racing lookups, registrations and
\* removals never confuse two objects that share an entry (handles.hpp:143).
HandlesSound == HTTypeOK /\ LookupExact /\ SlotsAgree
=============================================================================
