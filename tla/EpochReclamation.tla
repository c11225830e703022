--------------------------- MODULE EpochReclamation ---------------------------
(****************************************************************************)
(* EpochManager (src/concurrency/epoch.hpp): readers announce the epoch they  *)
(* entered in, retired objects wait in one fixed queue per participant        *)
(* stamped with the epoch of their retirement, and a single collector deletes *)
(* what no reader can hold any more.                                          *)
(*                                                                            *)
(* enter() is three atomic accesses and each is a step; so are the stamp and  *)
(* the publication of defer_delete(), and in collect() the load of a queue's  *)
(* head, each removal, each deleter call, the epoch increment and the look at *)
(* each participant.  The seq_cst accesses make these steps totally ordered.  *)
(*                                                                            *)
(* The protected data are objects that readers can reach while linked; a      *)
(* participant unlinks an object before it passes it to defer_delete, as      *)
(* every caller of it does.                                                   *)
(****************************************************************************)
EXTENDS Integers, Sequences

CONSTANTS N,            \* MaxThreads: participants 0 .. N-1
          Objects,      \* objects that can be retired
          QueueCapacity,\* MaxRetiredPerParticipant
          GraceEpochs,  \* kGraceEpochs
          MaxEpoch      \* bound: the collector stops here

ASSUME NAssumption == N \in Nat \ {0}
ASSUME QueueAssumption == QueueCapacity \in Nat \ {0}
ASSUME GraceAssumption == GraceEpochs \in Nat \ {0}
ASSUME EpochBoundAssumption == MaxEpoch \in Nat

Participants == 0 .. N - 1

\* kInactiveEpoch, and the value that stands for a null object
Inactive == -1
NoObject == "none"
ASSUME NoObjectAssumption == NoObject \notin Objects

VARIABLES
  global_epoch,
  registered,   \* participant -> registered
  epoch,        \* participant -> the epoch it announces, or Inactive
  retired,      \* participant -> its retirement queue, oldest entry first
  safe_epoch,   \* the frontier; -1 stands for !has_safe_epoch_
  rpc,          \* participant -> where its thread is in enter()
  seen,         \* participant -> the epoch enter() loaded
  stamp,        \* participant -> the entry defer_delete() is filling
  cpc,          \* where the collector is in collect()
  ci,           \* collector: the participant it looks at
  visible,      \* collector: entries below the head it loaded
  victim,       \* collector: the object whose deleter it is about to call
  candidate,    \* collector: the frontier being computed
  obj,          \* object -> linked, unlinked or reclaimed
  refs          \* participant -> objects its critical section has loaded

collectorVars == <<cpc, ci, visible, victim, candidate, safe_epoch>>
readerVars    == <<registered, epoch, rpc, seen>>
objectVars    == <<obj, refs>>
vars == <<global_epoch, retired, stamp, readerVars, collectorVars, objectVars>>

NoStamp == [ptr |-> NoObject, epoch |-> Inactive]

Init ==
  /\ global_epoch = 0
  /\ registered = [p \in Participants |-> FALSE]
  /\ epoch = [p \in Participants |-> Inactive]
  /\ retired = [p \in Participants |-> << >>]
  /\ safe_epoch = -1
  /\ rpc = [p \in Participants |-> "out"]
  /\ seen = [p \in Participants |-> 0]
  /\ stamp = [p \in Participants |-> NoStamp]
  /\ cpc = "idle"
  /\ ci = 0
  /\ visible = 0
  /\ victim = NoObject
  /\ candidate = 0
  /\ obj = [o \in Objects |-> "linked"]
  /\ refs = [p \in Participants |-> {}]

-----------------------------------------------------------------------------
(* Registration: under the registration lock the first free slot is claimed. *)

Register(p) ==
  /\ ~registered[p]
  /\ \A q \in Participants : q < p => registered[q]
  /\ registered' = [registered EXCEPT ![p] = TRUE]
  /\ epoch' = [epoch EXCEPT ![p] = Inactive]
  /\ UNCHANGED <<global_epoch, retired, stamp, rpc, seen, collectorVars, objectVars>>

\* after the participant's final leave() and defer_delete()
Unregister(p) ==
  /\ registered[p]
  /\ rpc[p] = "out"
  /\ stamp[p] = NoStamp
  /\ registered' = [registered EXCEPT ![p] = FALSE]
  /\ epoch' = [epoch EXCEPT ![p] = Inactive]
  /\ UNCHANGED <<global_epoch, retired, stamp, rpc, seen, collectorVars, objectVars>>

-----------------------------------------------------------------------------
(* enter() and leave() *)

EnterLoad(p) ==
  /\ registered[p]
  /\ rpc[p] \in {"out", "retry"}
  /\ stamp[p] = NoStamp
  /\ seen' = [seen EXCEPT ![p] = global_epoch]
  /\ rpc' = [rpc EXCEPT ![p] = "store"]
  /\ UNCHANGED <<global_epoch, registered, epoch, retired, stamp, collectorVars, objectVars>>

EnterStore(p) ==
  /\ rpc[p] = "store"
  /\ epoch' = [epoch EXCEPT ![p] = seen[p]]
  /\ rpc' = [rpc EXCEPT ![p] = "check"]
  /\ UNCHANGED <<global_epoch, registered, retired, stamp, seen, collectorVars, objectVars>>

\* an enter() that does not load the global epoch a second time
EnterCheck_Never(p) ==
  /\ rpc[p] = "check"
  /\ rpc' = [rpc EXCEPT ![p] = "in"]
  /\ UNCHANGED <<global_epoch, registered, epoch, retired, stamp, seen, collectorVars, objectVars>>

EnterCheck(p) ==
  /\ rpc[p] = "check"
  /\ IF global_epoch = seen[p]
       THEN rpc' = [rpc EXCEPT ![p] = "in"]
       ELSE rpc' = [rpc EXCEPT ![p] = "retry"]
  /\ UNCHANGED <<global_epoch, registered, epoch, retired, stamp, seen, collectorVars, objectVars>>

\* the protected load, inside the critical section
LoadPointer(p, o) ==
  /\ rpc[p] = "in"
  /\ obj[o] = "linked"
  /\ refs' = [refs EXCEPT ![p] = @ \cup {o}]
  /\ UNCHANGED <<global_epoch, retired, stamp, readerVars, collectorVars, obj>>

Leave(p) ==
  /\ rpc[p] = "in"
  /\ stamp[p] = NoStamp
  /\ rpc' = [rpc EXCEPT ![p] = "out"]
  /\ epoch' = [epoch EXCEPT ![p] = Inactive]
  /\ refs' = [refs EXCEPT ![p] = {}]
  /\ UNCHANGED <<global_epoch, registered, retired, stamp, seen, collectorVars, obj>>

-----------------------------------------------------------------------------
(* Unlinking, and defer_delete(): a full queue leaves the object with its      *)
(* caller, which tries again.                                                  *)

Unlink(p, o) ==
  /\ registered[p]
  /\ rpc[p] \in {"out", "in"}
  /\ stamp[p] = NoStamp
  /\ obj[o] = "linked"
  /\ obj' = [obj EXCEPT ![o] = "unlinked"]
  /\ stamp' = [stamp EXCEPT ![p] = [ptr |-> o, epoch |-> Inactive]]
  /\ UNCHANGED <<global_epoch, retired, readerVars, collectorVars, refs>>

\* one entry too many
HasRoom_OffByOne(p) == Len(retired[p]) <= QueueCapacity

HasRoom(p) == Len(retired[p]) < QueueCapacity

\* the room check and the load of the global epoch
Stamp(p) ==
  /\ stamp[p].ptr # NoObject
  /\ stamp[p].epoch = Inactive
  /\ HasRoom(p)
  /\ stamp' = [stamp EXCEPT ![p].epoch = global_epoch]
  /\ UNCHANGED <<global_epoch, retired, readerVars, collectorVars, objectVars>>

\* queue.head.store(head + 1)
PublishRetired(p) ==
  /\ stamp[p].epoch # Inactive
  /\ retired' = [retired EXCEPT ![p] = Append(@, stamp[p])]
  /\ stamp' = [stamp EXCEPT ![p] = NoStamp]
  /\ UNCHANGED <<global_epoch, readerVars, collectorVars, objectVars>>

-----------------------------------------------------------------------------
(* collect(): drain up to the frontier proved last time, advance the epoch,    *)
(* then prove the next frontier.  The collecting_ flag is cpc # "idle".        *)

CollectBegin ==
  /\ cpc = "idle"
  /\ global_epoch < MaxEpoch
  /\ cpc' = IF safe_epoch >= 0 THEN "head" ELSE "advance"
  /\ ci' = 0
  /\ UNCHANGED <<global_epoch, retired, stamp, readerVars, objectVars,
                 visible, victim, candidate, safe_epoch>>

\* drain_through: queue.head.load
DrainHead ==
  /\ cpc = "head"
  /\ visible' = Len(retired[ci])
  /\ cpc' = "drain"
  /\ UNCHANGED <<global_epoch, retired, stamp, readerVars, objectVars,
                 ci, victim, candidate, safe_epoch>>

\* a drain that also takes the epoch just above the frontier
Drainable_NextEpoch == visible > 0 /\ Head(retired[ci]).epoch <= safe_epoch + 1

Drainable == visible > 0 /\ Head(retired[ci]).epoch <= safe_epoch

\* the entry's deleter runs but the tail stays behind
DrainTake_KeepEntry ==
  /\ cpc = "drain"
  /\ Drainable
  /\ victim' = Head(retired[ci]).ptr
  /\ visible' = visible - 1
  /\ cpc' = "delete"
  /\ UNCHANGED <<global_epoch, retired, stamp, readerVars, objectVars, ci, candidate, safe_epoch>>

\* the entry is taken out and the tail advanced; its deleter runs next
DrainTake ==
  /\ cpc = "drain"
  /\ Drainable
  /\ victim' = Head(retired[ci]).ptr
  /\ retired' = [retired EXCEPT ![ci] = Tail(@)]
  /\ visible' = visible - 1
  /\ cpc' = "delete"
  /\ UNCHANGED <<global_epoch, stamp, readerVars, objectVars, ci, candidate, safe_epoch>>

Delete ==
  /\ cpc = "delete"
  /\ obj' = [obj EXCEPT ![victim] = "reclaimed"]
  /\ victim' = NoObject
  /\ cpc' = "drain"
  /\ UNCHANGED <<global_epoch, retired, stamp, readerVars, refs, ci, visible, candidate, safe_epoch>>

DrainDone ==
  /\ cpc = "drain"
  /\ ~Drainable
  /\ IF ci + 1 < N THEN ci' = ci + 1 /\ cpc' = "head"
                   ELSE ci' = 0 /\ cpc' = "advance"
  /\ visible' = 0
  /\ UNCHANGED <<global_epoch, retired, stamp, readerVars, objectVars, victim, candidate, safe_epoch>>

\* global_epoch_.fetch_add(1), and the early return of update_safe_frontier
AdvanceEpoch ==
  /\ cpc = "advance"
  /\ global_epoch' = global_epoch + 1
  /\ IF global_epoch + 1 < GraceEpochs
       THEN cpc' = "idle" /\ UNCHANGED candidate
       ELSE cpc' = "scan" /\ candidate' = global_epoch + 1 - GraceEpochs
  /\ ci' = 0
  /\ UNCHANGED <<retired, stamp, readerVars, objectVars, visible, victim, safe_epoch>>

\* whether participant p holds the frontier back
Blocks(p) == registered[p] /\ epoch[p] # Inactive /\ epoch[p] <= candidate

\* the frontier a blocking participant allows
Behind(p) == epoch[p] - 1

\* one iteration of the loop over the participants
Scan ==
  /\ cpc = "scan"
  /\ IF Blocks(ci) /\ epoch[ci] = 0
       THEN cpc' = "idle" /\ ci' = 0 /\ UNCHANGED candidate
       ELSE /\ candidate' = IF Blocks(ci) THEN Behind(ci) ELSE candidate
            /\ IF ci + 1 < N THEN ci' = ci + 1 /\ UNCHANGED cpc
                             ELSE ci' = 0 /\ cpc' = "commit"
  /\ UNCHANGED <<global_epoch, retired, stamp, readerVars, objectVars, visible, victim, safe_epoch>>

CommitFrontier ==
  /\ cpc = "commit"
  /\ safe_epoch' = IF candidate > safe_epoch THEN candidate ELSE safe_epoch
  /\ cpc' = "idle"
  /\ UNCHANGED <<global_epoch, retired, stamp, readerVars, objectVars, ci, visible, victim, candidate>>

Collect ==
  \/ CollectBegin \/ DrainHead \/ DrainTake \/ Delete \/ DrainDone
  \/ AdvanceEpoch \/ Scan \/ CommitFrontier

-----------------------------------------------------------------------------
\* ~EpochManager: every participant and the collector have stopped, and
\* drain_all runs the deleter of whatever is still queued.
Destroy ==
  /\ \A p \in Participants : ~registered[p]
  /\ cpc = "idle"
  /\ \E p \in Participants : retired[p] # << >>
  /\ obj' = [o \in Objects |->
               IF \E p \in Participants : \E i \in 1 .. Len(retired[p]) : retired[p][i].ptr = o
                 THEN "reclaimed" ELSE obj[o]]
  /\ retired' = [p \in Participants |-> << >>]
  /\ UNCHANGED <<global_epoch, stamp, readerVars, collectorVars, refs>>

Participate(p) ==
  \/ Register(p) \/ Unregister(p)
  \/ EnterLoad(p) \/ EnterStore(p) \/ EnterCheck(p) \/ Leave(p)
  \/ \E o \in Objects : LoadPointer(p, o) \/ Unlink(p, o)
  \/ Stamp(p) \/ PublishRetired(p)

Next ==
  \/ \E p \in Participants : Participate(p)
  \/ Collect
  \/ Destroy

Spec == Init /\ [][Next]_vars

-----------------------------------------------------------------------------
(* Properties *)

Entry == [ptr : Objects, epoch : Nat]

\* Types, and the bound of each retirement queue.
TypeOK ==
  /\ global_epoch \in Nat
  /\ registered \in [Participants -> BOOLEAN]
  /\ epoch \in [Participants -> Nat \cup {Inactive}]
  /\ retired \in [Participants -> Seq(Entry)]
  /\ \A p \in Participants : Len(retired[p]) <= QueueCapacity
  /\ safe_epoch \in Nat \cup {-1}
  /\ rpc \in [Participants -> {"out", "store", "check", "retry", "in"}]
  /\ seen \in [Participants -> Nat]
  /\ stamp \in [Participants -> [ptr : Objects \cup {NoObject}, epoch : Nat \cup {Inactive}]]
  /\ cpc \in {"idle", "head", "drain", "delete", "advance", "scan", "commit"}
  /\ ci \in Participants
  /\ visible \in Nat
  /\ victim \in Objects \cup {NoObject}
  /\ candidate \in Nat
  /\ obj \in [Objects -> {"linked", "unlinked", "reclaimed"}]
  /\ refs \in [Participants -> SUBSET Objects]

\* No object is destroyed while a critical section that loaded it is open: the
\* whole point of enter(), leave() and the frontier of collect().
NoUseAfterReclaim ==
  \A p \in Participants : \A o \in refs[p] : obj[o] # "reclaimed"

\* The frontier collect() has proved, and the part of the next one it has
\* computed, lie strictly before the epoch of every reader inside: the race of
\* enter() with the publication of a new epoch, which the second load of the
\* global epoch closes.
FrontierBehindReaders ==
  \A p \in Participants :
    rpc[p] = "in" =>
      /\ safe_epoch < epoch[p]
      /\ cpc = "commit" => candidate < epoch[p]
      /\ cpc = "scan" /\ p < ci => candidate < epoch[p]

\* the places that can answer for an unlinked object
Holders(o) ==
  { <<"stamp", p, 0>> : p \in {q \in Participants : stamp[q].ptr = o} }
  \cup { <<"queue", x[1], x[2]>> :
           x \in {y \in Participants \X (1 .. QueueCapacity) :
                    y[2] <= Len(retired[y[1]]) /\ retired[y[1]][y[2]].ptr = o} }
  \cup (IF victim = o THEN {<<"victim", 0, 0>>} ELSE {})

\* An unlinked object has exactly one owner on its way to its deleter (the
\* caller of defer_delete, one queue entry, or the collector), and a linked or
\* reclaimed one has none: nothing is deleted twice and nothing is lost when a
\* queue is full.
RetiredExactlyOnce ==
  \A o \in Objects :
    IF obj[o] = "unlinked" THEN \E h \in Holders(o) : Holders(o) = {h}
                           ELSE Holders(o) = {}

=============================================================================
