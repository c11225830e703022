------------------------ MODULE EpochReclamation_proofs ------------------------
(****************************************************************************)
(* Proofs about EpochReclamation for any number of participants and objects,  *)
(* any queue capacity and any grace period: types and queue bounds, the       *)
(* distance of the frontier from the readers, and that no reader holds an     *)
(* object that was reclaimed.                                                 *)
(****************************************************************************)
EXTENDS EpochReclamation, TLAPS

\* an entry being filled has an object, an epoch that is not ahead of the global
\* one, and room in the queue it is meant for
StampInv ==
  \A p \in Participants :
    stamp[p].epoch # Inactive =>
      /\ stamp[p].ptr \in Objects
      /\ stamp[p].epoch \in Nat
      /\ Len(retired[p]) < QueueCapacity

\* what the collector saw in a queue is still there
VisibleInv == cpc \in {"drain", "delete"} => visible <= Len(retired[ci])

TypeInv == TypeOK /\ StampInv /\ VisibleInv

USE DEF Participants, Inactive, NoObject, NoStamp

LEMMA ParticipantFacts == 0 \in Participants /\ N \in Nat /\ GraceEpochs \in Nat /\ GraceEpochs > 0
                          /\ QueueCapacity \in Nat /\ QueueCapacity > 0
BY NAssumption, GraceAssumption, QueueAssumption

\* what appending to a queue and taking its oldest entry yield
LEMMA AppendFacts ==
  ASSUME NEW S, NEW s \in Seq(S), NEW e \in S
  PROVE  /\ Append(s, e) \in Seq(S)
         /\ Len(Append(s, e)) = Len(s) + 1
         /\ \A i \in 1 .. Len(Append(s, e)) :
              Append(s, e)[i] = IF i = Len(s) + 1 THEN e ELSE s[i]
OBVIOUS

LEMMA TailFacts ==
  ASSUME NEW S, NEW s \in Seq(S), Len(s) > 0
  PROVE  /\ Head(s) \in S /\ Head(s) = s[1]
         /\ Tail(s) \in Seq(S)
         /\ Len(Tail(s)) = Len(s) - 1
         /\ \A i \in 1 .. Len(Tail(s)) : Tail(s)[i] = s[i + 1]
OBVIOUS

\* the queues of a state
LEMMA QueueFacts ==
  ASSUME TypeOK
  PROVE  \A q \in Participants :
           retired[q] \in Seq(Entry) /\ Len(retired[q]) \in Nat /\ Len(retired[q]) <= QueueCapacity
<1>1. /\ retired \in [Participants -> Seq(Entry)]
      /\ \A q \in Participants : Len(retired[q]) <= QueueCapacity
  BY DEF TypeOK
<1>2. ASSUME NEW s \in Seq(Entry) PROVE Len(s) \in Nat
  OBVIOUS
<1> QED BY <1>1, <1>2

LEMMA InitType == Init => TypeInv
BY ParticipantFacts DEF Init, TypeInv, TypeOK, StampInv, VisibleInv

LEMMA NextType == TypeInv /\ [Next]_vars => TypeInv'
<1> SUFFICES ASSUME TypeInv, [Next]_vars PROVE TypeInv'
  OBVIOUS
<1> USE ParticipantFacts DEF TypeInv, TypeOK, StampInv, VisibleInv
<1>1. ASSUME NEW p \in Participants, Register(p) PROVE TypeInv'
  BY <1>1 DEF Register, collectorVars, objectVars
<1>2. ASSUME NEW p \in Participants, Unregister(p) PROVE TypeInv'
  BY <1>2 DEF Unregister, collectorVars, objectVars
<1>3. ASSUME NEW p \in Participants, EnterLoad(p) PROVE TypeInv'
  BY <1>3 DEF EnterLoad, collectorVars, objectVars
<1>4. ASSUME NEW p \in Participants, EnterStore(p) PROVE TypeInv'
  BY <1>4 DEF EnterStore, collectorVars, objectVars
<1>5. ASSUME NEW p \in Participants, EnterCheck(p) PROVE TypeInv'
  BY <1>5 DEF EnterCheck, collectorVars, objectVars
<1>6. ASSUME NEW p \in Participants, Leave(p) PROVE TypeInv'
  BY <1>6 DEF Leave, collectorVars, objectVars
<1>7. ASSUME NEW p \in Participants, NEW o \in Objects, LoadPointer(p, o) PROVE TypeInv'
  BY <1>7 DEF LoadPointer, readerVars, collectorVars
<1>8. ASSUME NEW p \in Participants, NEW o \in Objects, Unlink(p, o) PROVE TypeInv'
  BY <1>8 DEF Unlink, readerVars, collectorVars
<1>9. ASSUME NEW p \in Participants, Stamp(p) PROVE TypeInv'
  BY <1>9 DEF Stamp, HasRoom, readerVars, collectorVars, objectVars
<1>10. ASSUME NEW p \in Participants, PublishRetired(p) PROVE TypeInv'
  <2>1. stamp[p] \in Entry /\ Len(retired[p]) < QueueCapacity
    BY <1>10 DEF PublishRetired, Entry
  <2>2. /\ Append(retired[p], stamp[p]) \in Seq(Entry)
        /\ Len(Append(retired[p], stamp[p])) = Len(retired[p]) + 1
    BY <2>1, QueueFacts, AppendFacts
  <2>3. \A q \in Participants : retired'[q] = IF q = p THEN Append(retired[p], stamp[p]) ELSE retired[q]
    BY <1>10 DEF PublishRetired
  <2>4. /\ retired' \in [Participants -> Seq(Entry)]
        /\ \A q \in Participants : Len(retired'[q]) <= QueueCapacity /\ Len(retired'[q]) >= Len(retired[q])
    <3>1. ASSUME NEW q \in Participants
          PROVE  /\ retired'[q] \in Seq(Entry)
                 /\ Len(retired'[q]) <= QueueCapacity
                 /\ Len(retired'[q]) >= Len(retired[q])
      <4>1. /\ retired[q] \in Seq(Entry) /\ Len(retired[q]) \in Nat
            /\ Len(retired[q]) <= QueueCapacity
        BY <3>1, QueueFacts
      <4> HIDE DEF TypeInv, TypeOK, StampInv, VisibleInv, Participants
      <4>2. CASE q = p
        <5>1. retired'[q] = Append(retired[p], stamp[p])
          BY <2>3, <3>1, <4>2
        <5>2. Len(retired'[q]) = Len(retired[q]) + 1
          BY <2>2, <4>2, <5>1
        <5>3. Len(retired[q]) < QueueCapacity
          BY <2>1, <4>2
        <5>4. Len(retired'[q]) <= QueueCapacity /\ Len(retired'[q]) >= Len(retired[q])
          BY <4>1, <5>2, <5>3, ParticipantFacts
        <5> QED BY <2>2, <5>1, <5>4
      <4>3. CASE q # p
        BY <2>3, <3>1, <4>1, <4>3, ParticipantFacts
      <4> QED BY <4>2, <4>3
    <3>2. retired' = [q \in Participants |-> retired'[q]]
      BY <1>10 DEF PublishRetired
    <3> QED BY <3>1, <3>2
  <2>5. StampInv'
    BY <1>10, <2>3 DEF PublishRetired
  <2>6. VisibleInv'
    <3>1. Len(retired[ci]) \in Nat /\ Len(retired'[ci]) \in Nat
      BY <2>4
    <3> QED BY <1>10, <2>4, <3>1 DEF PublishRetired, collectorVars
  <2>7. TypeOK'
    BY <1>10, <2>4 DEF PublishRetired, readerVars, collectorVars, objectVars
  <2> QED BY <2>5, <2>6, <2>7
<1>11. CASE CollectBegin
  BY <1>11 DEF CollectBegin, readerVars, objectVars
<1>12. CASE DrainHead
  <2>1. Len(retired[ci]) \in Nat
    BY QueueFacts
  <2> QED BY <1>12, <2>1 DEF DrainHead, readerVars, objectVars
<1>13. CASE DrainTake
  <2>1. retired[ci] \in Seq(Entry) /\ Len(retired[ci]) \in Nat /\ Len(retired[ci]) > 0
    BY <1>13, QueueFacts DEF DrainTake, Drainable
  <2>2. /\ Head(retired[ci]) \in Entry
        /\ Tail(retired[ci]) \in Seq(Entry)
        /\ Len(Tail(retired[ci])) = Len(retired[ci]) - 1
    BY <2>1, TailFacts
  <2>3. \A q \in Participants : retired'[q] = IF q = ci THEN Tail(retired[ci]) ELSE retired[q]
    BY <1>13 DEF DrainTake
  <2>4. /\ retired' \in [Participants -> Seq(Entry)]
        /\ \A q \in Participants : Len(retired'[q]) <= Len(retired[q])
    BY <1>13, <2>1, <2>2, <2>3, QueueFacts DEF DrainTake
  <2>5. \A q \in Participants : Len(retired[q]) \in Nat /\ Len(retired'[q]) \in Nat
    BY <2>4
  <2>6. StampInv'
    <3>1. UNCHANGED <<stamp, global_epoch>>
      BY <1>13 DEF DrainTake
    <3> QED BY <2>4, <2>5, <3>1
  <2>7. VisibleInv'
    BY <1>13, <2>1, <2>2, <2>3 DEF DrainTake, Drainable
  <2>8. victim' \in Objects /\ visible' \in Nat
    BY <1>13, <2>2 DEF DrainTake, Drainable, Entry
  <2>9. \A q \in Participants : Len(retired'[q]) <= QueueCapacity
    BY <2>4, <2>5
  <2>10. TypeOK'
    BY <1>13, <2>4, <2>8, <2>9 DEF DrainTake, readerVars, objectVars
  <2> QED BY <2>6, <2>7, <2>10
<1>14. CASE Delete
  BY <1>14 DEF Delete, readerVars
<1>15. CASE DrainDone
  <2>1. ci' \in Participants /\ cpc' \in {"head", "advance"}
    BY <1>15 DEF DrainDone
  <2> QED BY <1>15, <2>1 DEF DrainDone, readerVars, objectVars
<1>16. CASE AdvanceEpoch
  <2>1. candidate' \in Nat /\ cpc' \in {"idle", "scan"}
    BY <1>16 DEF AdvanceEpoch
  <2> QED BY <1>16, <2>1 DEF AdvanceEpoch, readerVars, objectVars
<1>17. CASE Scan
  <2>1. ci' \in Participants /\ cpc' \in {"idle", "scan", "commit"}
    BY <1>17 DEF Scan
  <2>2. candidate' \in Nat
    BY <1>17 DEF Scan, Blocks, Behind
  <2> QED BY <1>17, <2>1, <2>2 DEF Scan, readerVars, objectVars
<1>18. CASE CommitFrontier
  BY <1>18 DEF CommitFrontier, readerVars, objectVars
<1>19. CASE Destroy
  BY <1>19 DEF Destroy, readerVars, collectorVars
<1>20. CASE UNCHANGED vars
  BY <1>20 DEF vars, readerVars, collectorVars, objectVars
<1> QED
  BY <1>1, <1>2, <1>3, <1>4, <1>5, <1>6, <1>7, <1>8, <1>9, <1>10, <1>11, <1>12, <1>13,
     <1>14, <1>15, <1>16, <1>17, <1>18, <1>19, <1>20 DEF Next, Participate, Collect

\* The types, and the bound of every retirement queue, for all parameters:
\* defer_delete() never overruns its queue, although the collector moves the
\* tail between the room check and the publication.
THEOREM TypeCorrect == Spec => []TypeOK
<1>1. Init => TypeInv
  BY InitType
<1>2. TypeInv /\ [Next]_vars => TypeInv'
  BY NextType
<1>3. TypeInv => TypeOK
  BY DEF TypeInv
<1> QED BY <1>1, <1>2, <1>3, PTL DEF Spec

-----------------------------------------------------------------------------
(* The frontier *)

\* What enter() knows: it runs in a registered participant, which announces
\* the epoch it will compare with the global one.
EnterInv ==
  \A p \in Participants :
    /\ rpc[p] # "out" => registered[p]
    /\ rpc[p] = "check" => epoch[p] = seen[p]
    /\ rpc[p] = "in" => epoch[p] # Inactive /\ epoch[p] <= global_epoch

\* no frontier, proved or in the making, reaches the current epoch
BehindGlobal ==
  /\ safe_epoch < global_epoch \/ safe_epoch = -1
  /\ cpc \in {"scan", "commit"} => candidate < global_epoch

FrontierInv == EnterInv /\ BehindGlobal /\ FrontierBehindReaders

LEMMA InitFrontier == Init => FrontierInv
BY ParticipantFacts DEF Init, FrontierInv, EnterInv, BehindGlobal, FrontierBehindReaders

LEMMA NextFrontier == TypeInv /\ FrontierInv /\ [Next]_vars => FrontierInv'
<1> SUFFICES ASSUME TypeOK, FrontierInv, [Next]_vars PROVE FrontierInv'
  BY DEF TypeInv
<1> USE ParticipantFacts DEF TypeOK, FrontierInv, EnterInv, BehindGlobal, FrontierBehindReaders
<1>1. ASSUME NEW p \in Participants, Register(p) PROVE FrontierInv'
  BY <1>1 DEF Register, collectorVars, objectVars
<1>2. ASSUME NEW p \in Participants, Unregister(p) PROVE FrontierInv'
  BY <1>2 DEF Unregister, collectorVars, objectVars
<1>3. ASSUME NEW p \in Participants, EnterLoad(p) PROVE FrontierInv'
  BY <1>3 DEF EnterLoad, collectorVars, objectVars
<1>4. ASSUME NEW p \in Participants, EnterStore(p) PROVE FrontierInv'
  BY <1>4 DEF EnterStore, collectorVars, objectVars
<1>5. ASSUME NEW p \in Participants, EnterCheck(p) PROVE FrontierInv'
  <2>1. /\ UNCHANGED <<global_epoch, registered, epoch, seen, collectorVars>>
        /\ \A q \in Participants : q # p => rpc'[q] = rpc[q]
        /\ rpc'[p] \in {"in", "retry"}
        /\ rpc[p] = "check"
        /\ rpc'[p] = "in" => epoch[p] = global_epoch
    BY <1>5 DEF EnterCheck
  <2>2. EnterInv'
    BY <2>1
  <2>3. BehindGlobal'
    BY <2>1 DEF collectorVars
  <2>4. ASSUME NEW q \in Participants, rpc'[q] = "in"
        PROVE  /\ safe_epoch < epoch[q]
               /\ cpc = "commit" => candidate < epoch[q]
               /\ cpc = "scan" /\ q < ci => candidate < epoch[q]
    <3>1. CASE q = p
      BY <2>1, <2>4, <3>1
    <3>2. CASE q # p
      BY <2>1, <2>4, <3>2
    <3> QED BY <3>1, <3>2
  <2> QED BY <2>1, <2>2, <2>3, <2>4 DEF collectorVars
<1>6. ASSUME NEW p \in Participants, Leave(p) PROVE FrontierInv'
  BY <1>6 DEF Leave, collectorVars, objectVars
<1>7. ASSUME NEW p \in Participants, NEW o \in Objects, LoadPointer(p, o) PROVE FrontierInv'
  BY <1>7 DEF LoadPointer, readerVars, collectorVars
<1>8. ASSUME NEW p \in Participants, NEW o \in Objects, Unlink(p, o) PROVE FrontierInv'
  BY <1>8 DEF Unlink, readerVars, collectorVars
<1>9. ASSUME NEW p \in Participants, Stamp(p) PROVE FrontierInv'
  BY <1>9 DEF Stamp, readerVars, collectorVars, objectVars
<1>10. ASSUME NEW p \in Participants, PublishRetired(p) PROVE FrontierInv'
  BY <1>10 DEF PublishRetired, readerVars, collectorVars, objectVars
<1>11. CASE CollectBegin
  BY <1>11 DEF CollectBegin, readerVars, objectVars
<1>12. CASE DrainHead
  BY <1>12 DEF DrainHead, readerVars, objectVars
<1>13. CASE DrainTake
  BY <1>13 DEF DrainTake, readerVars, objectVars
<1>14. CASE Delete
  BY <1>14 DEF Delete, readerVars
<1>15. CASE DrainDone
  BY <1>15 DEF DrainDone, readerVars, objectVars
<1>16. CASE AdvanceEpoch
  BY <1>16 DEF AdvanceEpoch, readerVars, objectVars
<1>17. CASE Scan
  <2>1. /\ UNCHANGED <<global_epoch, registered, epoch, rpc, seen, safe_epoch>>
        /\ cpc = "scan" /\ cpc' \in {"idle", "scan", "commit"}
    BY <1>17 DEF Scan, readerVars
  <2>2. candidate' \in Nat /\ candidate' <= candidate
    <3>1. epoch[ci] \in Nat \cup {-1} /\ candidate \in Nat
      OBVIOUS
    <3>2. CASE Blocks(ci)
      <4>1. epoch[ci] # -1 /\ epoch[ci] <= candidate
        BY <3>2 DEF Blocks
      <4>2. candidate' = candidate \/ (epoch[ci] # 0 /\ candidate' = epoch[ci] - 1)
        BY <1>17, <3>2 DEF Scan, Behind
      <4> QED BY <3>1, <4>1, <4>2
    <3>3. CASE ~Blocks(ci)
      BY <1>17, <3>1, <3>3 DEF Scan
    <3> QED BY <3>2, <3>3
  <2>3. ASSUME NEW p \in Participants, rpc[p] = "in", cpc' # "idle", p <= ci
        PROVE  candidate' < epoch[p]
    <3>1. CASE p = ci
      BY <1>17, <2>3, <3>1 DEF Scan, Blocks, Behind
    <3>2. CASE p < ci
      BY <2>1, <2>2, <2>3, <3>2
    <3> QED BY <2>3, <3>1, <3>2
  <2>4. \A p \in Participants :
          /\ cpc' = "scan" /\ p < ci' => p <= ci
          /\ cpc' = "commit" => p <= ci
    BY <1>17 DEF Scan
  <2> QED BY <2>1, <2>2, <2>3, <2>4
<1>18. CASE CommitFrontier
  BY <1>18 DEF CommitFrontier, readerVars, objectVars
<1>19. CASE Destroy
  BY <1>19 DEF Destroy, readerVars, collectorVars
<1>20. CASE UNCHANGED vars
  BY <1>20 DEF vars, readerVars, collectorVars, objectVars
<1> QED
  BY <1>1, <1>2, <1>3, <1>4, <1>5, <1>6, <1>7, <1>8, <1>9, <1>10, <1>11, <1>12, <1>13,
     <1>14, <1>15, <1>16, <1>17, <1>18, <1>19, <1>20 DEF Next, Participate, Collect

\* The frontier stays strictly behind every reader inside, whatever the
\* interleaving of enter() with collect().
THEOREM FrontierCorrect == Spec => []FrontierBehindReaders
<1>1. Init => TypeInv /\ FrontierInv
  BY InitType, InitFrontier
<1>2. (TypeInv /\ FrontierInv) /\ [Next]_vars => (TypeInv /\ FrontierInv)'
  BY NextType, NextFrontier
<1>3. TypeInv /\ FrontierInv => FrontierBehindReaders
  BY DEF FrontierInv
<1> QED BY <1>1, <1>2, <1>3, PTL DEF Spec

-----------------------------------------------------------------------------
(* No use after reclamation *)

\* the entries that wait in a queue
Waiting(q) == {retired[q][i] : i \in 1 .. Len(retired[q])}

\* a linked object is on no one's way to its deleter
LinkedInv ==
  \A o \in Objects : obj[o] = "linked" =>
    /\ victim # o
    /\ \A q \in Participants : stamp[q].ptr # o /\ \A e \in Waiting(q) : e.ptr # o

\* A reader's object, if retired at all, was retired in the reader's epoch or
\* later, and so is behind no frontier.
ReaderInv ==
  \A p \in Participants : \A o \in refs[p] :
    /\ rpc[p] = "in"
    /\ obj[o] # "reclaimed"
    /\ victim # o
    /\ \A q \in Participants :
         /\ stamp[q].ptr = o /\ stamp[q].epoch # Inactive => epoch[p] <= stamp[q].epoch
         /\ \A e \in Waiting(q) : e.ptr = o => epoch[p] <= e.epoch

ObjectInv == LinkedInv /\ ReaderInv

LEMMA InitObject == Init => ObjectInv
BY NoObjectAssumption DEF Init, ObjectInv, LinkedInv, ReaderInv, Waiting

\* steps that touch neither an object nor its way to its deleter, and leave the
\* critical sections that hold objects alone
LEMMA ObjectFrame ==
  ASSUME ObjectInv, UNCHANGED <<obj, refs, victim, stamp, retired>>,
         \A p \in Participants : rpc[p] = "in" => rpc'[p] = "in" /\ epoch'[p] = epoch[p]
  PROVE  ObjectInv'
<1>1. \A q : Waiting(q)' = Waiting(q)
  BY DEF Waiting
<1>2. LinkedInv'
  BY <1>1 DEF ObjectInv, LinkedInv
<1>3. ReaderInv'
  BY <1>1 DEF ObjectInv, ReaderInv
<1> QED BY <1>2, <1>3 DEF ObjectInv

LEMMA NextObject == TypeInv /\ FrontierInv /\ ObjectInv /\ [Next]_vars => ObjectInv'
<1> SUFFICES ASSUME TypeInv, TypeOK, FrontierInv, ObjectInv, [Next]_vars PROVE ObjectInv'
  BY DEF TypeInv
<1> USE ParticipantFacts
<1>1. ASSUME NEW p \in Participants, Register(p) PROVE ObjectInv'
  <2>1. rpc[p] # "in"
    BY <1>1 DEF Register, FrontierInv, EnterInv
  <2> QED BY <1>1, <2>1, ObjectFrame DEF Register, collectorVars, objectVars, TypeOK
<1>2. ASSUME NEW p \in Participants, Unregister(p) PROVE ObjectInv'
  BY <1>2, ObjectFrame DEF Unregister, collectorVars, objectVars, TypeOK
<1>3. ASSUME NEW p \in Participants, EnterLoad(p) PROVE ObjectInv'
  BY <1>3, ObjectFrame DEF EnterLoad, collectorVars, objectVars, TypeOK
<1>4. ASSUME NEW p \in Participants, EnterStore(p) PROVE ObjectInv'
  BY <1>4, ObjectFrame DEF EnterStore, collectorVars, objectVars, TypeOK
<1>5. ASSUME NEW p \in Participants, EnterCheck(p) PROVE ObjectInv'
  BY <1>5, ObjectFrame DEF EnterCheck, collectorVars, objectVars, TypeOK
<1>6. ASSUME NEW p \in Participants, Leave(p) PROVE ObjectInv'
  <2>1. /\ UNCHANGED <<obj, victim, stamp, retired>>
        /\ \A q : Waiting(q)' = Waiting(q)
        /\ \A q \in Participants : IF q = p THEN refs'[q] = {}
             ELSE refs'[q] = refs[q] /\ rpc'[q] = rpc[q] /\ epoch'[q] = epoch[q]
    BY <1>6 DEF Leave, collectorVars, Waiting, TypeOK
  <2>2. LinkedInv'
    BY <2>1 DEF ObjectInv, LinkedInv
  <2>3. ReaderInv'
    BY <2>1 DEF ObjectInv, ReaderInv
  <2> QED BY <2>2, <2>3 DEF ObjectInv
<1>7. ASSUME NEW p \in Participants, NEW o \in Objects, LoadPointer(p, o) PROVE ObjectInv'
  <2>1. /\ UNCHANGED <<obj, victim, stamp, retired, rpc, epoch>>
        /\ rpc[p] = "in" /\ obj[o] = "linked"
        /\ \A q : Waiting(q)' = Waiting(q)
        /\ \A q \in Participants : refs'[q] = IF q = p THEN refs[q] \cup {o} ELSE refs[q]
    BY <1>7 DEF LoadPointer, readerVars, collectorVars, Waiting, TypeOK
  <2>2. LinkedInv'
    BY <2>1 DEF ObjectInv, LinkedInv
  <2>3. ASSUME NEW q \in Participants, NEW x \in refs'[q]
        PROVE  /\ rpc[q] = "in" /\ obj[x] # "reclaimed" /\ victim # x
               /\ \A r \in Participants :
                    /\ stamp[r].ptr = x /\ stamp[r].epoch # Inactive => epoch[q] <= stamp[r].epoch
                    /\ \A e \in Waiting(r) : e.ptr = x => epoch[q] <= e.epoch
    <3>1. CASE x \in refs[q]
      BY <3>1 DEF ObjectInv, ReaderInv
    <3>2. CASE q = p /\ x = o
      BY <2>1, <3>2 DEF ObjectInv, LinkedInv
    <3> QED BY <2>1, <2>3, <3>1, <3>2
  <2>4. ReaderInv'
    BY <2>1, <2>3 DEF ReaderInv
  <2> QED BY <2>2, <2>4 DEF ObjectInv
<1>8. ASSUME NEW p \in Participants, NEW o \in Objects, Unlink(p, o) PROVE ObjectInv'
  <2>1. /\ UNCHANGED <<victim, refs, rpc, epoch>>
        /\ \A q : Waiting(q)' = Waiting(q)
        /\ \A x \in Objects : obj'[x] = IF x = o THEN "unlinked" ELSE obj[x]
        /\ \A q \in Participants : stamp'[q] = IF q = p THEN [ptr |-> o, epoch |-> Inactive] ELSE stamp[q]
    BY <1>8 DEF Unlink, readerVars, collectorVars, Waiting, TypeOK
  <2>2. LinkedInv'
    BY <2>1 DEF ObjectInv, LinkedInv
  <2>3. \A q \in Participants : \A x \in refs[q] : obj'[x] # "reclaimed"
    <3>1. \A q \in Participants : \A x \in refs[q] : x \in Objects
      BY DEF TypeOK
    <3> QED BY <2>1, <3>1 DEF ObjectInv, ReaderInv
  <2>4. ReaderInv'
    BY <2>1, <2>3 DEF ObjectInv, ReaderInv
  <2> QED BY <2>2, <2>4 DEF ObjectInv
<1>9. ASSUME NEW p \in Participants, Stamp(p) PROVE ObjectInv'
  <2>1. /\ UNCHANGED <<obj, victim, refs, rpc, epoch>>
        /\ \A q : Waiting(q)' = Waiting(q)
        /\ \A q \in Participants : /\ stamp'[q].ptr = stamp[q].ptr
                                   /\ stamp'[q].epoch = IF q = p THEN global_epoch ELSE stamp[q].epoch
    BY <1>9 DEF Stamp, readerVars, collectorVars, objectVars, Waiting, TypeOK
  <2>2. LinkedInv'
    BY <2>1 DEF ObjectInv, LinkedInv
  <2>3. \A q \in Participants : rpc[q] = "in" => epoch[q] <= global_epoch
    BY DEF FrontierInv, EnterInv
  <2>4. ReaderInv'
    BY <2>1, <2>3 DEF ObjectInv, ReaderInv
  <2> QED BY <2>2, <2>4 DEF ObjectInv
<1>10. ASSUME NEW p \in Participants, PublishRetired(p) PROVE ObjectInv'
  <2>1. /\ UNCHANGED <<obj, victim, refs, rpc, epoch>>
        /\ stamp[p].epoch # Inactive
        /\ \A q \in Participants : stamp'[q] = IF q = p THEN NoStamp ELSE stamp[q]
        /\ \A q \in Participants : retired'[q] = IF q = p THEN Append(retired[p], stamp[p]) ELSE retired[q]
    BY <1>10 DEF PublishRetired, readerVars, collectorVars, objectVars, TypeOK
  <2>2. stamp[p] \in Entry
    BY <2>1 DEF TypeInv, StampInv, Entry, TypeOK
  <2>3. ASSUME NEW q \in Participants, NEW e \in Waiting(q)' PROVE e \in Waiting(q) \/ e = stamp[p]
    <3>1. CASE q # p
      BY <2>1, <2>3, <3>1 DEF Waiting
    <3>2. CASE q = p
      <4>1. retired'[q] = Append(retired[p], stamp[p]) /\ retired[p] \in Seq(Entry) /\ Len(retired[p]) \in Nat
        BY <2>1, <3>2, QueueFacts
      <4>2. PICK i \in 1 .. Len(retired'[q]) : e = retired'[q][i]
        BY <2>3 DEF Waiting
      <4>3. e = IF i = Len(retired[p]) + 1 THEN stamp[p] ELSE retired[p][i]
        BY <2>2, <4>1, <4>2, AppendFacts
      <4>4. i \in 1 .. Len(retired[p]) + 1
        BY <2>2, <4>1, <4>2, AppendFacts
      <4> QED BY <3>2, <4>1, <4>3, <4>4 DEF Waiting
    <3> QED BY <3>1, <3>2
  <2>4. LinkedInv'
    BY <2>1, <2>3, NoObjectAssumption DEF ObjectInv, LinkedInv
  <2>5. ReaderInv'
    BY <2>1, <2>3 DEF ObjectInv, ReaderInv
  <2> QED BY <2>4, <2>5 DEF ObjectInv
<1>11. CASE CollectBegin
  BY <1>11, ObjectFrame DEF CollectBegin, readerVars, objectVars
<1>12. CASE DrainHead
  BY <1>12, ObjectFrame DEF DrainHead, readerVars, objectVars
<1>13. CASE DrainTake
  <2>1. /\ retired[ci] \in Seq(Entry) /\ Len(retired[ci]) \in Nat /\ Len(retired[ci]) > 0
        /\ ci \in Participants
    BY <1>13, QueueFacts DEF DrainTake, Drainable, TypeInv, VisibleInv, TypeOK
  <2>2. /\ UNCHANGED <<obj, refs, rpc, epoch, stamp>>
        /\ victim' = Head(retired[ci]).ptr
        /\ Head(retired[ci]).epoch <= safe_epoch
        /\ \A q \in Participants : retired'[q] = IF q = ci THEN Tail(retired[ci]) ELSE retired[q]
    BY <1>13 DEF DrainTake, Drainable, readerVars, objectVars, TypeOK
  <2>3. ASSUME NEW q \in Participants, NEW e \in Waiting(q)' PROVE e \in Waiting(q)
    <3>1. CASE q # ci
      BY <2>1, <2>2, <2>3, <3>1 DEF Waiting
    <3>2. CASE q = ci
      <4>1. PICK i \in 1 .. Len(retired'[q]) : e = retired'[q][i]
        BY <2>3 DEF Waiting
      <4>2. /\ retired'[q] = Tail(retired[ci])
            /\ Len(Tail(retired[ci])) = Len(retired[ci]) - 1
            /\ \A k \in 1 .. Len(Tail(retired[ci])) : Tail(retired[ci])[k] = retired[ci][k + 1]
        BY <2>1, <2>2, <3>2, TailFacts
      <4>3. i + 1 \in 1 .. Len(retired[ci])
        BY <2>1, <4>1, <4>2
      <4>4. e = retired[ci][i + 1]
        BY <4>1, <4>2
      <4> QED BY <3>2, <4>3, <4>4 DEF Waiting
    <3> QED BY <3>1, <3>2
  <2>4. Head(retired[ci]) \in Waiting(ci) /\ Head(retired[ci]) \in Entry
    BY <2>1, TailFacts DEF Waiting
  <2>5. LinkedInv'
    BY <2>1, <2>2, <2>3, <2>4 DEF ObjectInv, LinkedInv
  <2>6. ASSUME NEW p \in Participants, NEW o \in refs[p] PROVE victim' # o
    <3>1. rpc[p] = "in" /\ safe_epoch < epoch[p]
      BY DEF ObjectInv, ReaderInv, FrontierInv, FrontierBehindReaders
    <3>2. epoch[p] \in Int /\ safe_epoch \in Int
      BY DEF TypeOK
    <3>3. Head(retired[ci]).epoch \in Nat
      BY <2>4 DEF Entry
    <3>4. ~(epoch[p] <= Head(retired[ci]).epoch)
      BY <2>2, <3>1, <3>2, <3>3
    <3> QED BY <2>1, <2>2, <2>4, <3>4 DEF ObjectInv, ReaderInv
  <2>7. ReaderInv'
    BY <2>2, <2>3, <2>6 DEF ObjectInv, ReaderInv
  <2> QED BY <2>5, <2>7 DEF ObjectInv
<1>14. CASE Delete
  <2>1. /\ UNCHANGED <<refs, rpc, epoch, stamp, retired>>
        /\ \A q : Waiting(q)' = Waiting(q)
        /\ victim' = NoObject
        /\ \A x \in Objects : obj'[x] = IF x = victim THEN "reclaimed" ELSE obj[x]
    BY <1>14 DEF Delete, readerVars, Waiting, TypeOK
  <2>2. LinkedInv'
    BY <2>1, NoObjectAssumption DEF ObjectInv, LinkedInv
  <2>3. ReaderInv'
    BY <2>1, NoObjectAssumption DEF ObjectInv, ReaderInv, TypeOK
  <2> QED BY <2>2, <2>3 DEF ObjectInv
<1>15. CASE DrainDone
  BY <1>15, ObjectFrame DEF DrainDone, readerVars, objectVars
<1>16. CASE AdvanceEpoch
  BY <1>16, ObjectFrame DEF AdvanceEpoch, readerVars, objectVars
<1>17. CASE Scan
  BY <1>17, ObjectFrame DEF Scan, readerVars, objectVars
<1>18. CASE CommitFrontier
  BY <1>18, ObjectFrame DEF CommitFrontier, readerVars, objectVars
<1>19. CASE Destroy
  <2>1. /\ UNCHANGED <<refs, victim, stamp>>
        /\ \A q \in Participants : Waiting(q)' = {}
        /\ \A x \in Objects : obj'[x] = "linked" => obj[x] = "linked"
    BY <1>19 DEF Destroy, collectorVars, Waiting, TypeOK
  <2>2. \A p \in Participants : refs[p] = {}
    BY <1>19 DEF Destroy, ObjectInv, ReaderInv, FrontierInv, EnterInv
  <2>3. LinkedInv'
    BY <2>1 DEF ObjectInv, LinkedInv
  <2>4. ReaderInv'
    BY <2>1, <2>2 DEF ReaderInv
  <2> QED BY <2>3, <2>4 DEF ObjectInv
<1>20. CASE UNCHANGED vars
  BY <1>20, ObjectFrame DEF vars, readerVars, collectorVars, objectVars
<1> QED
  BY <1>1, <1>2, <1>3, <1>4, <1>5, <1>6, <1>7, <1>8, <1>9, <1>10, <1>11, <1>12, <1>13,
     <1>14, <1>15, <1>16, <1>17, <1>18, <1>19, <1>20 DEF Next, Participate, Collect

\* Epoch-based reclamation is safe for every number of participants and
\* objects, every queue capacity and every grace period of at least one epoch:
\* collect() runs no deleter on an object that an open critical section loaded.
THEOREM ReclamationSafe == Spec => []NoUseAfterReclaim
<1> DEFINE Inv == TypeInv /\ FrontierInv /\ ObjectInv
<1>1. Init => Inv
  BY InitType, InitFrontier, InitObject
<1>2. Inv /\ [Next]_vars => Inv'
  BY NextType, NextFrontier, NextObject
<1>3. Inv => NoUseAfterReclaim
  BY DEF ObjectInv, ReaderInv, NoUseAfterReclaim
<1> QED BY <1>1, <1>2, <1>3, PTL DEF Spec

-----------------------------------------------------------------------------
(* Retired exactly once *)

\* An entry being filled is the only place that answers for its object.
StagedInv ==
  \A p \in Participants : stamp[p].ptr # NoObject =>
    /\ registered[p]
    /\ obj[stamp[p].ptr] = "unlinked"
    /\ victim # stamp[p].ptr
    /\ \A q \in Participants : q # p => stamp[q].ptr # stamp[p].ptr
    /\ \A q \in Participants : \A i \in 1 .. Len(retired[q]) : retired[q][i].ptr # stamp[p].ptr

\* So is an entry that waits in a queue ...
QueuedInv ==
  \A p \in Participants : \A i \in 1 .. Len(retired[p]) :
    /\ obj[retired[p][i].ptr] = "unlinked"
    /\ victim # retired[p][i].ptr
    /\ \A q \in Participants : \A j \in 1 .. Len(retired[q]) :
         retired[q][j].ptr = retired[p][i].ptr => q = p /\ j = i

\* ... and the collector before it calls the deleter.
VictimInv ==
  /\ victim # NoObject <=> cpc = "delete"
  /\ victim # NoObject => obj[victim] = "unlinked"

\* No unlinked object is forgotten.
OwnedInv ==
  \A o \in Objects : obj[o] = "unlinked" =>
    \/ victim = o
    \/ \E p \in Participants : stamp[p].ptr = o
    \/ \E p \in Participants : \E i \in 1 .. Len(retired[p]) : retired[p][i].ptr = o

OwnerInv == StagedInv /\ QueuedInv /\ VictimInv /\ OwnedInv

LEMMA InitOwner == Init => OwnerInv
BY NoObjectAssumption
DEF Init, OwnerInv, StagedInv, QueuedInv, VictimInv, OwnedInv

\* steps that leave the objects and the places that answer for them alone
LEMMA OwnerFrame ==
  ASSUME OwnerInv, UNCHANGED <<obj, victim, retired>>,
         cpc' = "delete" <=> cpc = "delete",
         \A p \in Participants :
           /\ stamp'[p].ptr = stamp[p].ptr
           /\ stamp[p].ptr # NoObject => (registered[p] => registered'[p])
  PROVE  OwnerInv'
BY DEF OwnerInv, StagedInv, QueuedInv, VictimInv, OwnedInv

LEMMA NextOwner == TypeInv /\ OwnerInv /\ [Next]_vars => OwnerInv'
<1> SUFFICES ASSUME TypeInv, TypeOK, OwnerInv, [Next]_vars PROVE OwnerInv'
  BY DEF TypeInv
<1> USE ParticipantFacts
<1>0. \A q \in Participants :
        retired[q] \in Seq(Entry) /\ Len(retired[q]) \in Nat /\ Len(retired[q]) <= QueueCapacity
  BY QueueFacts
<1>1. ASSUME NEW p \in Participants, Register(p) PROVE OwnerInv'
  BY <1>1, OwnerFrame DEF Register, collectorVars, objectVars, TypeOK
<1>2. ASSUME NEW p \in Participants, Unregister(p) PROVE OwnerInv'
  BY <1>2, OwnerFrame DEF Unregister, collectorVars, objectVars, TypeOK
<1>3. ASSUME NEW p \in Participants,
             EnterLoad(p) \/ EnterStore(p) \/ EnterCheck(p) \/ Leave(p) PROVE OwnerInv'
  BY <1>3, OwnerFrame DEF EnterLoad, EnterStore, EnterCheck, Leave, collectorVars, objectVars
<1>4. ASSUME NEW p \in Participants, NEW o \in Objects, LoadPointer(p, o) PROVE OwnerInv'
  BY <1>4, OwnerFrame DEF LoadPointer, readerVars, collectorVars
<1>5. ASSUME NEW p \in Participants, NEW o \in Objects, Unlink(p, o) PROVE OwnerInv'
  <2>1. /\ UNCHANGED <<victim, retired, registered, cpc>>
        /\ obj[o] = "linked" /\ o # NoObject /\ registered[p] /\ stamp[p].ptr = NoObject
        /\ \A x \in Objects : obj'[x] = IF x = o THEN "unlinked" ELSE obj[x]
        /\ \A q \in Participants : stamp'[q].ptr = IF q = p THEN o ELSE stamp[q].ptr
    BY <1>5, NoObjectAssumption DEF Unlink, readerVars, collectorVars, TypeOK
  <2>2. /\ victim # o
        /\ \A q \in Participants : stamp[q].ptr # o
        /\ \A q \in Participants : \A i \in 1 .. Len(retired[q]) : retired[q][i].ptr # o
    BY <2>1 DEF OwnerInv, StagedInv, QueuedInv, VictimInv
  <2>3. /\ victim \in Objects \cup {NoObject}
        /\ \A q \in Participants : stamp[q].ptr \in Objects \cup {NoObject}
        /\ \A q \in Participants : \A i \in 1 .. Len(retired[q]) : retired[q][i].ptr \in Objects
    <3>1. ASSUME NEW q \in Participants, NEW i \in 1 .. Len(retired[q])
          PROVE  retired[q][i].ptr \in Objects
      <4>1. retired[q][i] \in Entry
        BY <1>0
      <4> QED
        BY <4>1 DEF Entry
    <3> QED
      BY <3>1 DEF TypeOK
  <2>4. StagedInv'
    BY <2>1, <2>2, <2>3 DEF OwnerInv, StagedInv
  <2>5. QueuedInv'
    BY <2>1, <2>2, <2>3 DEF OwnerInv, QueuedInv
  <2>6. VictimInv'
    BY <2>1, <2>2, <2>3 DEF OwnerInv, VictimInv
  <2>7. OwnedInv'
    <3> SUFFICES ASSUME NEW x \in Objects, obj'[x] = "unlinked"
                 PROVE  \/ victim = x
                        \/ \E q \in Participants : stamp'[q].ptr = x
                        \/ \E q \in Participants : \E i \in 1 .. Len(retired[q]) : retired[q][i].ptr = x
      BY <2>1 DEF OwnedInv
    <3>1. CASE x = o
      BY <2>1, <3>1
    <3>2. CASE x # o /\ \E q \in Participants : stamp[q].ptr = x
      <4>1. PICK q \in Participants : stamp[q].ptr = x
        BY <3>2
      <4>2. q # p
        BY <2>1, <2>3, <4>1, NoObjectAssumption
      <4> QED
        BY <2>1, <4>1, <4>2
    <3>3. CASE x # o /\ ~\E q \in Participants : stamp[q].ptr = x
      BY <2>1, <3>3 DEF OwnerInv, OwnedInv
    <3> QED
      BY <3>1, <3>2, <3>3
  <2> QED BY <2>4, <2>5, <2>6, <2>7 DEF OwnerInv
<1>6. ASSUME NEW p \in Participants, Stamp(p) PROVE OwnerInv'
  BY <1>6, OwnerFrame DEF Stamp, readerVars, collectorVars, objectVars, TypeOK
<1>7. ASSUME NEW p \in Participants, PublishRetired(p) PROVE OwnerInv'
  <2> DEFINE n == Len(retired[p])
  <2>1. /\ UNCHANGED <<obj, victim, registered, cpc>>
        /\ stamp[p] \in Entry /\ stamp[p].ptr # NoObject
        /\ \A q \in Participants : stamp'[q].ptr = IF q = p THEN NoObject ELSE stamp[q].ptr
        /\ \A q \in Participants : q # p => retired'[q] = retired[q]
        /\ retired'[p] = Append(retired[p], stamp[p])
    BY <1>7, NoObjectAssumption
    DEF PublishRetired, readerVars, collectorVars, objectVars, TypeOK, TypeInv, StampInv, Entry
  <2>2. /\ Len(retired'[p]) = n + 1 /\ n \in Nat /\ retired'[p][n + 1] = stamp[p]
        /\ \A i \in 1 .. n : retired'[p][i] = retired[p][i]
    BY <1>0, <2>1, AppendFacts
  <2>3. \A q \in Participants : \A i \in 1 .. Len(retired[q]) :
          i \in 1 .. Len(retired'[q]) /\ retired'[q][i] = retired[q][i]
    <3> SUFFICES ASSUME NEW q \in Participants, NEW i \in 1 .. Len(retired[q])
                 PROVE  i \in 1 .. Len(retired'[q]) /\ retired'[q][i] = retired[q][i]
      OBVIOUS
    <3>1. CASE q # p
      BY <2>1, <3>1
    <3>2. CASE q = p
      BY <2>2, <3>2
    <3> QED
      BY <3>1, <3>2
  <2>4. \A q \in Participants : \A i \in 1 .. Len(retired'[q]) :
          \/ q = p /\ i = n + 1 /\ retired'[q][i].ptr = stamp[p].ptr
          \/ i \in 1 .. Len(retired[q]) /\ retired'[q][i] = retired[q][i]
    <3> TAKE q \in Participants
    <3>1. CASE q # p
      BY <1>0, <2>1, <3>1
    <3>2. CASE q = p
      BY <2>2, <3>2
    <3> QED
      BY <3>1, <3>2
  <2> HIDE DEF n
  <2>5. StagedInv'
    <3> SUFFICES ASSUME NEW q \in Participants, stamp'[q].ptr # NoObject
                 PROVE  /\ registered[q] /\ obj[stamp'[q].ptr] = "unlinked" /\ victim # stamp'[q].ptr
                        /\ \A r \in Participants : r # q => stamp'[r].ptr # stamp'[q].ptr
                        /\ \A r \in Participants : \A i \in 1 .. Len(retired'[r]) :
                             retired'[r][i].ptr # stamp'[q].ptr
      BY <2>1 DEF StagedInv
    <3>1. q # p /\ stamp'[q].ptr = stamp[q].ptr
      BY <2>1
    <3>2. /\ registered[q] /\ obj[stamp[q].ptr] = "unlinked" /\ victim # stamp[q].ptr
          /\ \A r \in Participants : r # q => stamp[r].ptr # stamp[q].ptr
          /\ \A r \in Participants : \A i \in 1 .. Len(retired[r]) :
               retired[r][i].ptr # stamp[q].ptr
      BY <3>1 DEF OwnerInv, StagedInv
    <3>3. \A r \in Participants : r # q => stamp'[r].ptr # stamp[q].ptr
      BY <2>1, <3>1, <3>2
    <3>4. ASSUME NEW r \in Participants, NEW i \in 1 .. Len(retired'[r])
          PROVE  retired'[r][i].ptr # stamp[q].ptr
      <4>1. CASE retired'[r][i].ptr = stamp[p].ptr
        BY <3>1, <3>2, <4>1
      <4>2. CASE i \in 1 .. Len(retired[r]) /\ retired'[r][i] = retired[r][i]
        BY <3>2, <4>2
      <4> QED
        BY <2>4, <4>1, <4>2
    <3> QED
      BY <2>1, <3>1, <3>2, <3>3, <3>4
  <2>6. QueuedInv'
    <3> SUFFICES ASSUME NEW q \in Participants, NEW i \in 1 .. Len(retired'[q])
                 PROVE  /\ obj[retired'[q][i].ptr] = "unlinked"
                        /\ victim # retired'[q][i].ptr
                        /\ \A r \in Participants : \A j \in 1 .. Len(retired'[r]) :
                             retired'[r][j].ptr = retired'[q][i].ptr => r = q /\ j = i
      <4>1. UNCHANGED <<obj, victim>>
        BY <2>1
      <4> QED
        BY <4>1 DEF QueuedInv
    <3>1. /\ obj[stamp[p].ptr] = "unlinked" /\ victim # stamp[p].ptr
          /\ \A r \in Participants : \A j \in 1 .. Len(retired[r]) :
               retired[r][j].ptr # stamp[p].ptr
      <4>1. stamp[p].ptr # NoObject
        BY <2>1
      <4> QED
        BY <4>1 DEF OwnerInv, StagedInv
    <3>2. CASE q = p /\ i = n + 1 /\ retired'[q][i].ptr = stamp[p].ptr
      <4>1. ASSUME NEW r \in Participants, NEW j \in 1 .. Len(retired'[r]),
                   retired'[r][j].ptr = stamp[p].ptr
            PROVE  r = p /\ j = n + 1
        <5>1. ~(j \in 1 .. Len(retired[r]) /\ retired'[r][j] = retired[r][j])
          BY <3>1, <4>1
        <5> QED
          BY <2>4, <5>1
      <4>2. \A r \in Participants : \A j \in 1 .. Len(retired'[r]) :
              retired'[r][j].ptr = retired'[q][i].ptr => r = q /\ j = i
        BY <3>2, <4>1
      <4> QED
        BY <3>1, <3>2, <4>2
    <3>3. CASE i \in 1 .. Len(retired[q]) /\ retired'[q][i] = retired[q][i]
      <4>1. /\ obj[retired[q][i].ptr] = "unlinked" /\ victim # retired[q][i].ptr
            /\ \A r \in Participants : \A j \in 1 .. Len(retired[r]) :
                 retired[r][j].ptr = retired[q][i].ptr => r = q /\ j = i
        BY <3>3 DEF OwnerInv, QueuedInv
      <4>2. ASSUME NEW r \in Participants, NEW j \in 1 .. Len(retired'[r]),
                   retired'[r][j].ptr = retired'[q][i].ptr
            PROVE  r = q /\ j = i
        <5>1. retired[q][i].ptr # stamp[p].ptr
          BY <3>1, <3>3
        <5>2. j \in 1 .. Len(retired[r]) /\ retired'[r][j] = retired[r][j]
          BY <2>4, <3>3, <4>2, <5>1
        <5> QED
          BY <3>3, <4>1, <4>2, <5>2
      <4> QED
        BY <3>3, <4>1, <4>2
    <3> QED
      BY <2>4, <3>2, <3>3
  <2>7. VictimInv'
    BY <2>1 DEF OwnerInv, VictimInv
  <2>8. OwnedInv'
    <3>1. n + 1 \in 1 .. Len(retired'[p]) /\ retired'[p][n + 1].ptr = stamp[p].ptr
      BY <2>2
    <3> SUFFICES ASSUME NEW x \in Objects, obj[x] = "unlinked"
                 PROVE  \/ victim = x
                        \/ \E q \in Participants : stamp'[q].ptr = x
                        \/ \E q \in Participants : \E i \in 1 .. Len(retired'[q]) : retired'[q][i].ptr = x
      BY <2>1 DEF OwnedInv
    <3>2. CASE x = stamp[p].ptr
      BY <3>1, <3>2
    <3>3. CASE x # stamp[p].ptr /\ \E q \in Participants : stamp[q].ptr = x
      BY <2>1, <3>3
    <3>4. CASE \E q \in Participants : \E i \in 1 .. Len(retired[q]) : retired[q][i].ptr = x
      BY <2>3, <3>4
    <3>5. \/ victim = x
          \/ \E q \in Participants : stamp[q].ptr = x
          \/ \E q \in Participants : \E i \in 1 .. Len(retired[q]) : retired[q][i].ptr = x
      BY DEF OwnerInv, OwnedInv
    <3> QED
      BY <3>2, <3>3, <3>4, <3>5
  <2> QED BY <2>5, <2>6, <2>7, <2>8 DEF OwnerInv
<1>8. CASE CollectBegin \/ DrainHead \/ DrainDone \/ AdvanceEpoch \/ Scan \/ CommitFrontier
  BY <1>8, OwnerFrame
  DEF CollectBegin, DrainHead, DrainDone, AdvanceEpoch, Scan, CommitFrontier, readerVars, objectVars
<1>9. CASE DrainTake
  <2> DEFINE c == ci
             n == Len(retired[ci])
  <2>1. /\ ci \in Participants /\ n \in Nat /\ n > 0 /\ retired[ci] \in Seq(Entry)
    BY <1>0, <1>9 DEF DrainTake, Drainable, TypeInv, VisibleInv, TypeOK
  <2>2. /\ UNCHANGED <<obj, registered, stamp>>
        /\ cpc = "drain" /\ cpc' = "delete"
        /\ victim' = Head(retired[ci]).ptr
        /\ \A q \in Participants : q # ci => retired'[q] = retired[q]
        /\ retired'[ci] = Tail(retired[ci])
    BY <1>9 DEF DrainTake, Drainable, readerVars, objectVars, TypeOK
  <2>3. /\ Len(retired'[ci]) = n - 1 /\ victim' = retired[ci][1].ptr /\ 1 \in 1 .. n
        /\ \A i \in 1 .. n - 1 : retired'[ci][i] = retired[ci][i + 1] /\ i + 1 \in 1 .. n /\ i + 1 # 1
        /\ victim' \in Objects
    <3>1. /\ Head(retired[ci]) \in Entry /\ Head(retired[ci]) = retired[ci][1]
          /\ Len(Tail(retired[ci])) = n - 1
          /\ \A i \in 1 .. n - 1 : Tail(retired[ci])[i] = retired[ci][i + 1]
      BY <2>1, TailFacts
    <3> QED
      BY <2>1, <2>2, <3>1 DEF Entry
  <2>4. PICK d \in Participants, m \in Nat : d = ci /\ m = n
    BY <2>1
  <2>5. \A q \in Participants : \A i \in 1 .. Len(retired'[q]) :
          \/ q = d /\ i \in 1 .. m - 1 /\ i + 1 \in 1 .. Len(retired[q]) /\ i + 1 # 1
             /\ retired'[q][i] = retired[q][i + 1]
          \/ q # d /\ i \in 1 .. Len(retired[q]) /\ retired'[q][i] = retired[q][i]
    BY <2>2, <2>3, <2>4
  <2>6. \A q \in Participants : \A i \in 1 .. Len(retired[q]) :
          \/ q = d /\ i = 1 /\ retired[q][i].ptr = victim'
          \/ q = d /\ i - 1 \in 1 .. Len(retired'[q]) /\ retired'[q][i - 1] = retired[q][i]
          \/ q # d /\ i \in 1 .. Len(retired'[q]) /\ retired'[q][i] = retired[q][i]
    <3> SUFFICES ASSUME NEW q \in Participants, NEW i \in 1 .. Len(retired[q]), q = d, i # 1
                 PROVE  i - 1 \in 1 .. Len(retired'[q]) /\ retired'[q][i - 1] = retired[q][i]
      BY <2>2, <2>3, <2>4
    <3>1. i \in Nat /\ i - 1 \in 1 .. n - 1 /\ (i - 1) + 1 = i
      BY <2>1, <2>4
    <3> QED
      BY <2>3, <2>4, <3>1
  <2>7. 1 \in 1 .. Len(retired[d]) /\ victim' = retired[d][1].ptr /\ victim' # NoObject
    BY <2>3, <2>4, NoObjectAssumption
  <2>8. victim = NoObject
    BY <2>2 DEF OwnerInv, VictimInv
  <2> HIDE DEF c, n
  <2>9. StagedInv'
    <3> SUFFICES ASSUME NEW q \in Participants, stamp[q].ptr # NoObject
                 PROVE  /\ registered[q] /\ obj[stamp[q].ptr] = "unlinked" /\ victim' # stamp[q].ptr
                        /\ \A r \in Participants : r # q => stamp[r].ptr # stamp[q].ptr
                        /\ \A r \in Participants : \A i \in 1 .. Len(retired'[r]) :
                             retired'[r][i].ptr # stamp[q].ptr
      BY <2>2 DEF StagedInv
    <3>1. /\ registered[q] /\ obj[stamp[q].ptr] = "unlinked"
          /\ \A r \in Participants : r # q => stamp[r].ptr # stamp[q].ptr
          /\ \A r \in Participants : \A i \in 1 .. Len(retired[r]) :
               retired[r][i].ptr # stamp[q].ptr
      BY DEF OwnerInv, StagedInv
    <3>2. victim' # stamp[q].ptr
      BY <2>7, <3>1
    <3>3. \A r \in Participants : \A i \in 1 .. Len(retired'[r]) :
            \E j \in 1 .. Len(retired[r]) : retired'[r][i] = retired[r][j]
      BY <2>5
    <3>4. ASSUME NEW r \in Participants, NEW i \in 1 .. Len(retired'[r])
          PROVE  retired'[r][i].ptr # stamp[q].ptr
      <4>1. PICK j \in 1 .. Len(retired[r]) : retired'[r][i] = retired[r][j]
        BY <3>3
      <4> QED
        BY <3>1, <4>1
    <3> QED
      BY <3>1, <3>2, <3>4
  <2>10. QueuedInv'
    <3> SUFFICES ASSUME NEW p \in Participants, NEW i \in 1 .. Len(retired'[p])
                 PROVE  /\ obj[retired'[p][i].ptr] = "unlinked"
                        /\ victim' # retired'[p][i].ptr
                        /\ \A q \in Participants : \A j \in 1 .. Len(retired'[q]) :
                             retired'[q][j].ptr = retired'[p][i].ptr => q = p /\ j = i
      BY <2>2 DEF QueuedInv
    <3>1. PICK k \in 1 .. Len(retired[p]) :
            /\ retired'[p][i] = retired[p][k] /\ (p = d => k # 1)
            /\ k = IF p = d THEN i + 1 ELSE i
      BY <2>5
    <3>2. obj[retired[p][k].ptr] = "unlinked" /\ victim' # retired[p][k].ptr
      BY <2>7, <3>1 DEF OwnerInv, QueuedInv
    <3>3. ASSUME NEW q \in Participants, NEW j \in 1 .. Len(retired'[q]),
                 retired'[q][j].ptr = retired'[p][i].ptr
          PROVE  q = p /\ j = i
      <4>1. PICK l \in 1 .. Len(retired[q]) :
              retired'[q][j] = retired[q][l] /\ l = IF q = d THEN j + 1 ELSE j
        BY <2>5
      <4>2. q = p /\ l = k
        BY <3>1, <3>3, <4>1 DEF OwnerInv, QueuedInv
      <4>3. i \in Int /\ j \in Int
        OBVIOUS
      <4> QED
        BY <3>1, <4>1, <4>2, <4>3
    <3> QED
      BY <3>1, <3>2, <3>3
  <2>11. VictimInv'
    BY <2>2, <2>7 DEF OwnerInv, QueuedInv, VictimInv
  <2>12. OwnedInv'
    <3> SUFFICES ASSUME NEW o \in Objects, obj[o] = "unlinked"
                 PROVE  \/ victim' = o
                        \/ \E p \in Participants : stamp[p].ptr = o
                        \/ \E p \in Participants : \E i \in 1 .. Len(retired'[p]) : retired'[p][i].ptr = o
      BY <2>2 DEF OwnedInv
    <3>1. CASE \E p \in Participants : stamp[p].ptr = o
      BY <3>1
    <3>2. CASE \E p \in Participants : \E i \in 1 .. Len(retired[p]) : retired[p][i].ptr = o
      <4>1. PICK p \in Participants : \E i \in 1 .. Len(retired[p]) : retired[p][i].ptr = o
        BY <3>2
      <4>2. PICK i \in 1 .. Len(retired[p]) : retired[p][i].ptr = o
        BY <4>1
      <4> QED
        BY <2>6, <4>2
    <3> QED
      BY <2>8, <3>1, <3>2, NoObjectAssumption DEF OwnerInv, OwnedInv
  <2> QED BY <2>9, <2>10, <2>11, <2>12 DEF OwnerInv
<1>10. CASE Delete
  <2>1. /\ UNCHANGED <<retired, stamp, registered>>
        /\ victim' = NoObject /\ cpc = "delete" /\ cpc' = "drain"
        /\ \A x \in Objects : obj'[x] = IF x = victim THEN "reclaimed" ELSE obj[x]
    BY <1>10 DEF Delete, readerVars, TypeOK
  <2>2. \A q \in Participants : \A i \in 1 .. Len(retired[q]) : retired[q][i].ptr \in Objects
    <3>1. ASSUME NEW q \in Participants, NEW i \in 1 .. Len(retired[q])
          PROVE  retired[q][i].ptr \in Objects
      <4>1. retired[q][i] \in Entry
        BY <1>0
      <4> QED
        BY <4>1 DEF Entry
    <3> QED
      BY <3>1
  <2>3. \A q \in Participants : stamp[q].ptr \in Objects \cup {NoObject}
    BY DEF TypeOK
  <2>4. StagedInv'
    BY <2>1, <2>3 DEF OwnerInv, StagedInv
  <2>5. QueuedInv'
    BY <2>1, <2>2, NoObjectAssumption DEF OwnerInv, QueuedInv
  <2>6. VictimInv' /\ OwnedInv'
    BY <2>1 DEF OwnerInv, VictimInv, OwnedInv
  <2> QED BY <2>4, <2>5, <2>6 DEF OwnerInv
<1>11. CASE Destroy
  <2>1. /\ UNCHANGED <<stamp, registered, victim, cpc>> /\ cpc = "idle"
        /\ \A q \in Participants : ~registered[q] /\ Len(retired'[q]) = 0
        /\ \A x \in Objects : obj'[x] =
             IF \E p \in Participants : \E i \in 1 .. Len(retired[p]) : retired[p][i].ptr = x
               THEN "reclaimed" ELSE obj[x]
    BY <1>11 DEF Destroy, readerVars, collectorVars, TypeOK
  <2>2. victim = NoObject /\ \A q \in Participants : stamp[q].ptr = NoObject
    BY <2>1 DEF OwnerInv, StagedInv, VictimInv
  <2>3. StagedInv' /\ QueuedInv' /\ VictimInv'
    BY <2>1, <2>2 DEF StagedInv, QueuedInv, VictimInv
  <2>4. OwnedInv'
    BY <2>1, <2>2, NoObjectAssumption DEF OwnerInv, OwnedInv
  <2> QED BY <2>3, <2>4 DEF OwnerInv
<1>12. CASE UNCHANGED vars
  BY <1>12, OwnerFrame DEF vars, readerVars, collectorVars, objectVars
<1> QED
  BY <1>1, <1>2, <1>3, <1>4, <1>5, <1>6, <1>7, <1>8, <1>9, <1>10, <1>11, <1>12
  DEF Next, Participate, Collect

\* what the set of the places that answer for an object holds
LEMMA HoldersMembers ==
  ASSUME TypeOK, NEW o \in Objects, NEW h
  PROVE  h \in Holders(o) <=>
           \/ \E p \in Participants : stamp[p].ptr = o /\ h = <<"stamp", p, 0>>
           \/ \E p \in Participants : \E i \in 1 .. Len(retired[p]) :
                retired[p][i].ptr = o /\ h = <<"queue", p, i>>
           \/ victim = o /\ h = <<"victim", 0, 0>>
<1>1. \A p \in Participants : \A i : i \in 1 .. Len(retired[p]) <=>
        i \in 1 .. QueueCapacity /\ i <= Len(retired[p])
  BY ParticipantFacts, QueueFacts
<1>2. \A x : (\E p \in Participants, i \in 1 .. QueueCapacity : x = <<p, i>>)
               <=> x \in Participants \X (1 .. QueueCapacity)
  OBVIOUS
<1>3. h \in { <<"queue", x[1], x[2]>> :
              x \in {y \in Participants \X (1 .. QueueCapacity) :
                       y[2] <= Len(retired[y[1]]) /\ retired[y[1]][y[2]].ptr = o} }
      <=> \E p \in Participants : \E i \in 1 .. Len(retired[p]) :
            retired[p][i].ptr = o /\ h = <<"queue", p, i>>
  <2>1. ASSUME NEW p \in Participants, NEW i \in 1 .. Len(retired[p]),
               retired[p][i].ptr = o, h = <<"queue", p, i>>
        PROVE  \E x \in {y \in Participants \X (1 .. QueueCapacity) :
                           y[2] <= Len(retired[y[1]]) /\ retired[y[1]][y[2]].ptr = o} :
                 h = <<"queue", x[1], x[2]>>
    <3>1. <<p, i>> \in Participants \X (1 .. QueueCapacity) /\ i <= Len(retired[p])
      BY <1>1, <2>1
    <3> QED
      BY <2>1, <3>1
  <2>2. ASSUME NEW x \in Participants \X (1 .. QueueCapacity),
               x[2] <= Len(retired[x[1]]), retired[x[1]][x[2]].ptr = o,
               h = <<"queue", x[1], x[2]>>
        PROVE  \E p \in Participants : \E i \in 1 .. Len(retired[p]) :
                 retired[p][i].ptr = o /\ h = <<"queue", p, i>>
    BY <1>1, <2>2
  <2> QED
    BY <2>1, <2>2
<1>4. h \in { <<"stamp", p, 0>> : p \in {q \in Participants : stamp[q].ptr = o} }
      <=> \E p \in Participants : stamp[p].ptr = o /\ h = <<"stamp", p, 0>>
  OBVIOUS
<1> QED
  BY <1>3, <1>4 DEF Holders

LEMMA OwnerImpliesOnce == TypeInv /\ OwnerInv => RetiredExactlyOnce
<1> SUFFICES ASSUME TypeInv, OwnerInv, NEW o \in Objects
             PROVE  IF obj[o] = "unlinked" THEN \E h \in Holders(o) : Holders(o) = {h}
                                           ELSE Holders(o) = {}
  BY DEF RetiredExactlyOnce
<1>0. TypeOK /\ o # NoObject
  BY NoObjectAssumption DEF TypeInv
<1>1. \A h : h \in Holders(o) <=>
           \/ \E p \in Participants : stamp[p].ptr = o /\ h = <<"stamp", p, 0>>
           \/ \E p \in Participants : \E i \in 1 .. Len(retired[p]) :
                retired[p][i].ptr = o /\ h = <<"queue", p, i>>
           \/ victim = o /\ h = <<"victim", 0, 0>>
  BY <1>0, HoldersMembers
<1>2. CASE obj[o] = "unlinked"
  <2>1. \E h : h \in Holders(o)
    BY <1>1, <1>2 DEF OwnerInv, OwnedInv
  <2>2. ASSUME NEW g \in Holders(o), NEW h \in Holders(o) PROVE g = h
    <3>1. CASE victim = o
      BY <1>0, <1>1, <3>1 DEF OwnerInv, StagedInv, QueuedInv
    <3>2. CASE \E p \in Participants : stamp[p].ptr = o
      <4>1. PICK p \in Participants : stamp[p].ptr = o
        BY <3>2
      <4>2. /\ victim # o
            /\ \A q \in Participants : stamp[q].ptr = o => q = p
            /\ \A q \in Participants : \A i \in 1 .. Len(retired[q]) : retired[q][i].ptr # o
        BY <1>0, <4>1 DEF OwnerInv, StagedInv
      <4>3. \A x \in Holders(o) : x = <<"stamp", p, 0>>
        BY <1>1, <4>2
      <4> QED
        BY <2>2, <4>3
    <3>3. CASE /\ ~\E p \in Participants : stamp[p].ptr = o
               /\ \E p \in Participants : \E i \in 1 .. Len(retired[p]) : retired[p][i].ptr = o
      <4>0. PICK p \in Participants : \E i \in 1 .. Len(retired[p]) : retired[p][i].ptr = o
        BY <3>3
      <4>1. PICK i \in 1 .. Len(retired[p]) : retired[p][i].ptr = o
        BY <4>0
      <4>2. /\ victim # o
            /\ \A q \in Participants : \A j \in 1 .. Len(retired[q]) :
                 retired[q][j].ptr = o => q = p /\ j = i
        BY <4>1 DEF OwnerInv, QueuedInv
      <4>3. \A x \in Holders(o) : x = <<"queue", p, i>>
        BY <1>1, <3>3, <4>2
      <4> QED
        BY <2>2, <4>3
    <3> QED
      BY <1>1, <2>2, <3>1, <3>2, <3>3
  <2> QED
    BY <1>2, <2>1, <2>2
<1>3. CASE obj[o] # "unlinked"
  <2>1. \A h : h \notin Holders(o)
    BY <1>0, <1>1, <1>3 DEF OwnerInv, StagedInv, QueuedInv, VictimInv
  <2> QED
    BY <1>3, <2>1
<1> QED
  BY <1>2, <1>3

\* defer_delete() and collect(): whatever queue is full and whenever the queues
\* are drained, an unlinked object is in exactly one place on its way to its
\* deleter, and no other object is in any.
THEOREM RetirementExact == Spec => []RetiredExactlyOnce
<1>1. Init => TypeInv /\ OwnerInv
  BY InitType, InitOwner
<1>2. (TypeInv /\ OwnerInv) /\ [Next]_vars => (TypeInv /\ OwnerInv)'
  BY NextType, NextOwner
<1>3. TypeInv /\ OwnerInv => RetiredExactlyOnce
  BY OwnerImpliesOnce
<1> QED BY <1>1, <1>2, <1>3, PTL DEF Spec

=============================================================================
