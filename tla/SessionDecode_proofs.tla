-------------------------- MODULE SessionDecode_proofs --------------------------
(****************************************************************************)
(* Proofs about SessionDecode, for any sessions of a worker, token limit,     *)
(* length of a stop sequence and size of the ring.                            *)
(*                                                                            *)
(* The argument: a run is with the thread that submits it, then in the queue, *)
(* then with the worker, and until the worker feeds its prompt the session is *)
(* fresh.  From then on what has come out of the run ends with the fragment    *)
(* before the next one of the oldest held token, and the worker holds the      *)
(* tokens after that up to the last one sampled: enough of them, until the run *)
(* is over, to take a whole stop sequence back.                               *)
(****************************************************************************)
EXTENDS SessionDecode, FiniteSetTheorems, SequenceTheorems, TLAPS

\* The worker without a run is no session.
SessionParameters == NoSession \notin Sessions

Entries == Nat \X {0, 1}
Lines   == {"prompt", "sampled", "eos", "null"} \X Nat
Finals  == {"completed", "canceled", "failed"}

States  == {"idle", "feeding", "decoding"} \cup Finals

SessionRecords ==
  [state : States, cancel : BOOLEAN, prompt : 0 .. MaxChunks, total : 0 .. MaxTokens, stop : 0 .. StopHold]

WorkerRecords ==
  [at : Spots, job : Sessions \cup {NoSession}, hold : Seq(Nat), sent : {0, 1},
   retain : {0, StopHold}, last : BOOLEAN, final : Finals]

TypeInv ==
  /\ sess \in [Sessions -> SessionRecords]
  /\ ctx \in [Sessions -> Seq(Lines)]
  /\ ring \in [Sessions -> Seq(Entries)]
  /\ rest \in [Sessions -> Seq(Entries)]
  /\ got \in [Sessions -> Seq(Entries)]
  /\ eos \in [Sessions -> BOOLEAN]
  /\ reader \in [Sessions -> {"drain", "check"}]
  /\ control \in [Sessions -> {"out", "submit", "destroying", "freed"}]
  /\ queue \in Seq(Sessions)
  /\ worker \in WorkerRecords
  /\ \A s \in Sessions : Len(ring[s]) <= RingCapacity /\ Len(rest[s]) <= 1

\* A run is with one party.
OwnerInv ==
  /\ worker.at = "idle" <=> worker.job = NoSession
  /\ worker.job # NoSession => Decoding(worker.job)
  /\ \A i \in DOMAIN queue : Decoding(queue[i]) /\ queue[i] # worker.job
  /\ \A i, j \in DOMAIN queue : queue[i] = queue[j] => i = j
  /\ \A s \in Sessions : control[s] = "submit" =>
       Decoding(s) /\ s # worker.job /\ \A i \in DOMAIN queue : queue[i] # s
  /\ \A s \in Sessions : Decoding(s) =>
       control[s] = "submit" \/ s = worker.job \/ \E i \in DOMAIN queue : queue[i] = s

\* The worker is in the run of s and has fed its prompt.
InRun(s) == worker.job = s /\ worker.at \in {"check", "sample", "emit", "blocked", "end"}

\* Before that a session has emitted nothing.
FreshInv ==
  /\ \A s \in Sessions :
       sess[s].state \in {"idle", "feeding"} \/ (Decoding(s) /\ ~InRun(s)) =>
         /\ sess[s].total = 0 /\ sess[s].stop = 0
         /\ ctx[s] \in {<< >>, NoContext}
         /\ ring[s] = << >> /\ rest[s] = << >> /\ got[s] = << >>
  /\ worker.at \in {"idle", "feed"} => worker = [Idle EXCEPT !.at = worker.at, !.job = worker.job]

\* The hold at the end of a run, the stop sequence taken back, or before it.
Flushing == worker.last /\ worker.retain = 0
Until == IF Flushing THEN sess[worker.job].total - sess[worker.job].stop
                     ELSE sess[worker.job].total

\* The last token that was emitted as a whole.
Whole == Until - Len(worker.hold)

HoldInv ==
  LET s == worker.job
      n == Len(worker.hold) IN
  InRun(s) =>
    /\ sess[s].stop <= sess[s].total
    /\ ~worker.last => sess[s].stop = 0 /\ sess[s].total < MaxTokens
    /\ ~worker.last => worker.retain = IF sess[s].total = 0 THEN 0 ELSE StopHold
    /\ worker.at \in {"check", "sample"} => ~worker.last
    /\ worker.sent = 1 => worker.at \in {"emit", "blocked", "end"}
    /\ s \notin Streamed => n = 0 /\ worker.sent = 0
    /\ s \in Streamed =>
         /\ n <= Until /\ n <= StopHold + 1
         /\ worker.hold = [i \in 1 .. n |-> Whole + i]
         /\ Flushing \/ n >= StopHold \/ n = sess[s].total
         /\ worker.at \in {"check", "sample"} => n <= worker.retain
         /\ worker.sent = 1 => n > worker.retain /\ Whole + 1 \in WideTokens
         /\ worker.at = "end" /\ worker.final = "completed" => Flushing /\ n = 0

\* Where the stream of a run stands, of which m tokens are out, and perhaps the
\* first fragment of the next.
Stands(q, m, sent) ==
  /\ InOrder(q)
  /\ sent = 0 => Within(q, m) /\ EndsWith(q, m)
  /\ sent = 1 => Within(q, m + 1) /\ q # << >> /\ q[Len(q)] = <<m + 1, 1>>

Faithful(s) ==
  LET n == sess[s].total - sess[s].stop
  IN /\ sess[s].stop <= sess[s].total
     /\ InOrder(Delivered(s)) /\ Within(Delivered(s), n)
     /\ sess[s].state = "completed" => EndsWith(Delivered(s), n)

StreamInv ==
  \A s \in Streamed : IF InRun(s) THEN Stands(Delivered(s), Whole, worker.sent) ELSE Faithful(s)

\* The provider has the prompt and the tokens of this run.
ContextOf(s, n) == << <<"prompt", sess[s].prompt>> >> \o [i \in 1 .. n |-> <<"sampled", i>>]

CtxInv ==
  worker.at \in {"check", "sample", "emit", "blocked"} /\ ~worker.last =>
    ctx[worker.job] = ContextOf(worker.job, sess[worker.job].total)

SessionInv == TypeInv /\ OwnerInv /\ FreshInv /\ HoldInv /\ StreamInv /\ CtxInv

-----------------------------------------------------------------------------
(* Sequences and fragments *)

LEMMA MinOf ==
  ASSUME NEW a \in Nat, NEW b \in Nat
  PROVE  Min({a, b}) = IF a <= b THEN a ELSE b
<1> DEFINE m == IF a <= b THEN a ELSE b
<1>1. m \in {a, b} /\ \A y \in {a, b} : m <= y
  OBVIOUS
<1>2. \A x \in {a, b} : (\A y \in {a, b} : x <= y) => x = m
  OBVIOUS
<1> QED
  BY <1>1, <1>2 DEF Min

\* The provers do well without the law of association where it is not wanted.
Associates(x, y, z) == (x \o y) \o z = x \o (y \o z)

LEMMA Regroup ==
  ASSUME NEW S, NEW x \in Seq(S), NEW y \in Seq(S), NEW z \in Seq(S)
  PROVE  Associates(x, y, z)
<1>1. x \o y \in Seq(S) /\ y \o z \in Seq(S)
  OBVIOUS
<1>2. (x \o y) \o z \in Seq(S) /\ x \o (y \o z) \in Seq(S)
  BY <1>1
<1>3. Len((x \o y) \o z) = Len(x \o (y \o z))
  BY <1>1
<1>4. \A i \in 1 .. Len((x \o y) \o z) : ((x \o y) \o z)[i] = (x \o (y \o z))[i]
  BY <1>1
<1> QED
  BY <1>2, <1>3, <1>4, SeqEqual DEF Associates

\* what a reader takes out of the ring and keeps of it is what was there
Splits(S, g, r, n) ==
  /\ SubSeq(r, 1, n) \in Seq(S) /\ SubSeq(r, 1, n - 1) \in Seq(S)
  /\ SubSeq(r, n + 1, Len(r)) \in Seq(S) /\ <<r[n]>> \in Seq(S)
  /\ Len(SubSeq(r, n + 1, Len(r))) <= Len(r)
  /\ (g \o SubSeq(r, 1, n)) \o << >> \o SubSeq(r, n + 1, Len(r)) = g \o r
  /\ (g \o SubSeq(r, 1, n - 1)) \o <<r[n]>> \o SubSeq(r, n + 1, Len(r)) = g \o r

LEMMA Split ==
  ASSUME NEW S, NEW g \in Seq(S), NEW r \in Seq(S), NEW n \in 1 .. Len(r)
  PROVE  Splits(S, g, r, n)
<1>1. n \in Nat /\ Len(r) \in Nat /\ 1 <= n /\ n <= Len(r)
  BY LenProperties
<1>2. SubSeq(r, 1, n) \in Seq(S) /\ SubSeq(r, 1, n - 1) \in Seq(S)
  BY <1>1
<1>3. SubSeq(r, n + 1, Len(r)) \in Seq(S) /\ Len(SubSeq(r, n + 1, Len(r))) <= Len(r)
  BY <1>1, SubSeqProperties, LenProperties
<1>4. <<r[n]>> \in Seq(S)
  BY <1>1
<1>5. SubSeq(r, 1, n) \o SubSeq(r, n + 1, Len(r)) = r
  BY <1>1, ConcatAdjacentSubSeq, SubSeqFull
<1>6. SubSeq(r, 1, n) = SubSeq(r, 1, n - 1) \o <<r[n]>>
  BY <1>1, SubSeqRecursiveSecond
<1>7. g \o SubSeq(r, 1, n) \in Seq(S)
  BY <1>2, ConcatProperties
<1>8. Associates(g, SubSeq(r, 1, n), SubSeq(r, n + 1, Len(r)))
  BY <1>2, <1>3, Regroup
<1>9. (g \o SubSeq(r, 1, n)) \o SubSeq(r, n + 1, Len(r)) = g \o r
  BY <1>5, <1>8 DEF Associates
<1>10. (g \o SubSeq(r, 1, n)) \o << >> = g \o SubSeq(r, 1, n)
  BY <1>7, ConcatEmptySeq
<1>11. Associates(g, SubSeq(r, 1, n - 1), <<r[n]>>)
  BY <1>2, <1>4, Regroup
<1>12. (g \o SubSeq(r, 1, n - 1)) \o <<r[n]>> = g \o SubSeq(r, 1, n)
  BY <1>6, <1>11 DEF Associates
<1> QED
  BY <1>2, <1>3, <1>4, <1>9, <1>10, <1>12 DEF Splits

Grows(a, b, c, e) == a \o b \o Append(c, e) = Append(a \o b \o c, e)

LEMMA AppendLast ==
  ASSUME NEW S, NEW a \in Seq(S), NEW b \in Seq(S), NEW c \in Seq(S), NEW e \in S
  PROVE  Grows(a, b, c, e)
<1>1. a \o b \in Seq(S) /\ (a \o b) \o c \in Seq(S) /\ <<e>> \in Seq(S)
  OBVIOUS
<1>2. Append(c, e) = c \o <<e>> /\ Append((a \o b) \o c, e) = ((a \o b) \o c) \o <<e>>
  BY <1>1, AppendIsConcat
<1>3. Associates(a \o b, c, <<e>>)
  BY <1>1, Regroup
<1> QED
  BY <1>2, <1>3 DEF Associates, Grows

LEMMA FragmentsType ==
  ASSUME NEW t \in Nat
  PROVE  /\ Len(Fragments(t)) = IF t \in WideTokens THEN 2 ELSE 1
         /\ Head(Fragments(t)) = Fragments(t)[1]
         /\ Fragments(t)[1] = <<t, IF t \in WideTokens THEN 1 ELSE 0>>
         /\ t \in WideTokens => Fragments(t)[2] = <<t, 0>>
         /\ Fragments(t)[1] \in Entries
         /\ t \in WideTokens => Fragments(t)[2] \in Entries
BY DEF Fragments, Entries

\* the next fragment on a stream
LEMMA StandsAppend ==
  ASSUME NEW q \in Seq(Entries), NEW m \in Nat, NEW sent \in {0, 1}, Stands(q, m, sent),
         sent = 1 => m + 1 \in WideTokens
  PROVE  LET i == sent + 1
             r == Append(q, Fragments(m + 1)[i])
         IN IF i = Len(Fragments(m + 1)) THEN Stands(r, m + 1, 0) ELSE i = 1 /\ Stands(r, m, 1)
<1> DEFINE t == m + 1
           i == sent + 1
           e == Fragments(t)[i]
           r == Append(q, e)
<1>1. t \in Nat /\ t # 0
  OBVIOUS
<1>2. /\ Len(Fragments(t)) = IF t \in WideTokens THEN 2 ELSE 1
      /\ Head(Fragments(t)) = <<t, IF t \in WideTokens THEN 1 ELSE 0>>
      /\ i = 1 => e = Head(Fragments(t))
      /\ i = 2 => t \in WideTokens /\ e = <<t, 0>>
      /\ e \in Entries /\ e[1] = t
  <2>0. /\ Len(Fragments(t)) = IF t \in WideTokens THEN 2 ELSE 1
        /\ Head(Fragments(t)) = Fragments(t)[1]
        /\ Fragments(t)[1] = <<t, IF t \in WideTokens THEN 1 ELSE 0>>
        /\ t \in WideTokens => Fragments(t)[2] = <<t, 0>>
        /\ Fragments(t)[1] \in Entries
        /\ t \in WideTokens => Fragments(t)[2] \in Entries
    BY <1>1, FragmentsType
  <2>1. CASE sent = 0
    <3>1. i = 1 /\ e = Fragments(t)[1]
      BY <2>1
    <3> QED
      BY <2>0, <3>1
  <2>2. CASE sent = 1
    <3>1. t \in WideTokens /\ i = 2 /\ e = Fragments(t)[2]
      BY <2>2
    <3> QED
      BY <2>0, <3>1
  <2> QED
    BY <2>1, <2>2
<1>3. /\ r \in Seq(Entries) /\ Len(r) = Len(q) + 1 /\ r[Len(q) + 1] = e
      /\ \A j \in 1 .. Len(q) : r[j] = q[j]
      /\ DOMAIN r = 1 .. Len(q) + 1 /\ DOMAIN q = 1 .. Len(q) /\ Len(q) \in Nat
  BY <1>2, AppendProperties, LenProperties
<1>4. InOrder(q) /\ Within(q, t)
  <2>1. \A j \in 1 .. Len(q) : q[j][1] \in Nat
    BY DEF Entries
  <2> QED
    BY <1>3, <2>1 DEF Stands, Within
<1>5. e = IF Len(q) + 1 = 1 THEN Head(Fragments(1)) ELSE Following(q[Len(q)])
  <2>1. CASE sent = 1
    <3>1. q # << >> /\ q[Len(q)] = <<t, 1>> /\ e = <<t, 0>>
      BY <1>2, <2>1 DEF Stands
    <3> QED
      BY <1>3, <3>1 DEF Following
  <2>2. CASE sent = 0 /\ m = 0
    <3>1. q = << >> /\ e = Head(Fragments(1))
      BY <1>2, <2>2 DEF Stands, EndsWith
    <3> QED
      BY <3>1
  <2>3. CASE sent = 0 /\ m # 0
    <3>1. q # << >> /\ q[Len(q)] = <<m, 0>> /\ e = Head(Fragments(m + 1))
      BY <1>2, <2>3 DEF Stands, EndsWith
    <3>2. Following(<<m, 0>>) = Head(Fragments(m + 1))
      BY DEF Following
    <3> QED
      BY <1>3, <3>1, <3>2
  <2> QED
    BY <2>1, <2>2, <2>3
<1> HIDE DEF r, e
<1>6. InOrder(r)
  <2> SUFFICES ASSUME NEW j \in 1 .. Len(q) + 1
               PROVE  r[j] = IF j = 1 THEN Head(Fragments(1)) ELSE Following(r[j - 1])
    BY <1>3 DEF InOrder
  <2>1. CASE j = Len(q) + 1
    <3>1. j # 1 => r[j - 1] = q[Len(q)]
      BY <1>3, <2>1
    <3> QED
      BY <1>3, <1>5, <2>1, <3>1
  <2>2. CASE j \in 1 .. Len(q)
    <3>1. r[j] = q[j] /\ (j # 1 => r[j - 1] = q[j - 1])
      BY <1>3, <2>2
    <3> QED
      BY <1>3, <1>4, <2>2, <3>1 DEF InOrder
  <2> QED
    BY <1>3, <2>1, <2>2
<1>7. Within(r, t)
  BY <1>2, <1>3, <1>4 DEF Within
<1>8. CASE i = Len(Fragments(t))
  <2>1. e = <<t, 0>>
    BY <1>2, <1>8
  <2>2. EndsWith(r, t)
    BY <1>1, <1>3, <2>1 DEF EndsWith
  <2> QED
    BY <1>6, <1>7, <1>8, <2>2 DEF Stands, r, e
<1>9. CASE i # Len(Fragments(t))
  <2>1. i = 1 /\ e = <<t, 1>>
    <3>1. i = 1 /\ t \in WideTokens
      BY <1>2, <1>9
    <3> QED
      BY <1>2, <3>1
  <2>2. r # << >> /\ Len(r) = Len(q) + 1 /\ r[Len(r)] = <<m + 1, 1>>
    BY <1>3, <2>1
  <2>3. Stands(r, m, 1)
    BY <1>6, <1>7, <2>2 DEF Stands
  <2> QED
    BY <1>9, <2>1, <2>3 DEF r, e
<1> QED
  BY <1>8, <1>9

\* a stream within the run, whose tokens are taken back after it
LEMMA StandsFaithful ==
  ASSUME NEW q \in Seq(Entries), NEW m \in Nat, NEW sent \in {0, 1}, Stands(q, m, sent),
         NEW n \in Nat, m + sent <= n
  PROVE  InOrder(q) /\ Within(q, n)
<1>1. \A j \in DOMAIN q : q[j][1] \in Nat
  BY DEF Entries
<1> QED
  BY <1>1 DEF Stands, Within

-----------------------------------------------------------------------------
(* Types *)

\* What the steps make of the record of a session.
Moved(r, q) == q.prompt = r.prompt /\ q.total = r.total /\ q.stop = r.stop

LEMMA RecordFacts ==
  ASSUME NEW r \in SessionRecords
  PROVE  /\ r.state \in States /\ r.cancel \in BOOLEAN /\ r.prompt \in 0 .. MaxChunks
         /\ r.total \in 0 .. MaxTokens /\ r.stop \in 0 .. StopHold
         /\ MaxChunks \in Nat /\ MaxTokens \in Nat /\ StopHold \in Nat
BY CountAssumption DEF SessionRecords

LEMMA StateSet ==
  ASSUME NEW r \in SessionRecords, NEW st \in States, NEW q, q = [r EXCEPT !.state = st]
  PROVE  q \in SessionRecords /\ q.state = st /\ Moved(r, q)
BY DEF SessionRecords, Moved

LEMMA CancelSet ==
  ASSUME NEW r \in SessionRecords, NEW c \in BOOLEAN, NEW q, q = [r EXCEPT !.cancel = c]
  PROVE  q \in SessionRecords /\ q.state = r.state /\ Moved(r, q)
BY DEF SessionRecords, Moved

LEMMA ChunkSet ==
  ASSUME NEW r \in SessionRecords, r.prompt < MaxChunks,
         NEW q, q = [r EXCEPT !.state = "feeding", !.prompt = r.prompt + 1]
  PROVE  q \in SessionRecords /\ q.state = "feeding" /\ q.total = r.total /\ q.stop = r.stop
<1>1. r.prompt + 1 \in 0 .. MaxChunks /\ "feeding" \in States
  BY RecordFacts DEF States
<1> QED
  BY <1>1 DEF SessionRecords

LEMMA FreshSet ==
  ASSUME NEW st \in States, NEW q, q = FreshSession \/ q = [FreshSession EXCEPT !.state = st]
  PROVE  /\ q \in SessionRecords /\ q.total = 0 /\ q.stop = 0
         /\ q = FreshSession => q.state = "idle"
         /\ q = [FreshSession EXCEPT !.state = st] => q.state = st
<1>1. FreshSession \in SessionRecords /\ FreshSession.state = "idle"
      /\ FreshSession.total = 0 /\ FreshSession.stop = 0
  BY CountAssumption DEF FreshSession, SessionRecords, States
<1>2. CASE q = FreshSession
  BY <1>1, <1>2, StateSet DEF Moved
<1>3. CASE q = [FreshSession EXCEPT !.state = st]
  BY <1>1, <1>3, StateSet DEF Moved
<1> QED
  BY <1>2, <1>3

\* the other sessions are as they were
LEMMA SessUpdate ==
  ASSUME TypeInv, NEW s \in Sessions, NEW r \in SessionRecords, sess' = [sess EXCEPT ![s] = r]
  PROVE  /\ sess' \in [Sessions -> SessionRecords] /\ sess'[s] = r
         /\ \A t \in Sessions : t # s => sess'[t] = sess[t]
BY DEF TypeInv

LEMMA InitType == Init => TypeInv
BY CountAssumption, EmptySeq
DEF Init, TypeInv, FreshSession, SessionRecords, WorkerRecords, Idle, Spots, Finals, States

LEMMA DeliveredType ==
  ASSUME TypeInv, NEW s \in Sessions
  PROVE  /\ Delivered(s) \in Seq(Entries) /\ Len(Delivered(s)) \in Nat
         /\ DOMAIN Delivered(s) = 1 .. Len(Delivered(s))
         /\ got[s] \o rest[s] \in Seq(Entries)
<1>1. got[s] \in Seq(Entries) /\ rest[s] \in Seq(Entries) /\ ring[s] \in Seq(Entries)
  BY DEF TypeInv
<1>2. got[s] \o rest[s] \in Seq(Entries)
  BY <1>1, ConcatProperties
<1>3. Delivered(s) \in Seq(Entries)
  BY <1>1, <1>2, ConcatProperties DEF Delivered
<1> QED
  BY <1>2, <1>3, LenProperties

\* What a call makes of session s, of its record and of where its thread is: it
\* moves the session on, or it empties a session whose run is over.
Moves(s, r, l) ==
  /\ r.total = sess[s].total /\ r.stop = sess[s].stop
  /\ UNCHANGED <<ctx, ring, rest, got, eos>>
  /\ \/ /\ control[s] = "out" /\ sess[s].state \in {"idle", "feeding"}
        /\ r.state = "feeding" /\ l = "out" /\ queue' = queue
     \/ /\ control[s] = "out" /\ sess[s].state = "feeding"
        /\ r.state = "decoding" /\ l = "submit" /\ queue' = queue
     \/ control[s] = "submit" /\ r = sess[s] /\ l = "out" /\ queue' = Append(queue, s)
     \/ control[s] = "submit" /\ r.state = "feeding" /\ l = "out" /\ queue' = queue
     \/ /\ r.state = sess[s].state /\ r.prompt = sess[s].prompt
        /\ l = control[s] \/ (control[s] = "out" /\ l = "destroying")
        /\ queue' = queue

Empties(s, r, l) ==
  /\ ~Decoding(s) /\ control[s] # "submit" /\ l \in {"out", "freed"}
  /\ r.total = 0 /\ r.stop = 0
  /\ ring' = [ring EXCEPT ![s] = << >>] /\ rest' = [rest EXCEPT ![s] = << >>]
  /\ got' = [got EXCEPT ![s] = << >>] /\ eos' = [eos EXCEPT ![s] = FALSE]
  /\ \E c \in {<< >>, NoContext, ctx[s]} :
       /\ ctx' = [ctx EXCEPT ![s] = c]
       /\ \/ r.state = "idle" /\ c \in {<< >>, NoContext}
          \/ r.state = sess[s].state /\ c \in {ctx[s], NoContext}
  /\ queue' = queue

LEMMA ControlStep ==
  ASSUME TypeInv, NEW s \in Sessions, Control(s)
  PROVE  \E r \in SessionRecords, l \in {"out", "submit", "destroying", "freed"} :
           /\ sess' = [sess EXCEPT ![s] = r] /\ control' = [control EXCEPT ![s] = l]
           /\ UNCHANGED <<reader, worker>>
           /\ Moves(s, r, l) \/ Empties(s, r, l)
<1>1. /\ sess[s] \in SessionRecords /\ sess = [sess EXCEPT ![s] = sess[s]]
      /\ control[s] \in {"out", "submit", "destroying", "freed"}
      /\ control = [control EXCEPT ![s] = control[s]]
  BY DEF TypeInv
<1>2. CASE Feed(s)
  <2>1. PICK r \in SessionRecords : /\ sess' = [sess EXCEPT ![s] = r] /\ r.state = "feeding"
                                    /\ r.total = sess[s].total /\ r.stop = sess[s].stop
    <3>1. CASE ToState(s, "feeding")
      <4> DEFINE q == [sess[s] EXCEPT !.state = "feeding"]
      <4>1. sess' = [sess EXCEPT ![s] = q] /\ q = [sess[s] EXCEPT !.state = "feeding"]
        BY <3>1 DEF ToState
      <4> HIDE DEF q
      <4>2. q \in SessionRecords /\ q.state = "feeding" /\ Moved(sess[s], q)
        BY <1>1, <4>1, StateSet DEF States
      <4> QED
        BY <4>1, <4>2 DEF Moved
    <3>2. CASE /\ sess[s].prompt < MaxChunks
               /\ sess' = [sess EXCEPT ![s] = [sess[s] EXCEPT !.state = "feeding", !.prompt = sess[s].prompt + 1]]
      <4> DEFINE q == [sess[s] EXCEPT !.state = "feeding", !.prompt = sess[s].prompt + 1]
      <4>1. sess' = [sess EXCEPT ![s] = q]
        BY <3>2
      <4>2. q = [sess[s] EXCEPT !.state = "feeding", !.prompt = sess[s].prompt + 1]
        OBVIOUS
      <4> HIDE DEF q
      <4>3. /\ q \in SessionRecords /\ q.state = "feeding"
            /\ q.total = sess[s].total /\ q.stop = sess[s].stop
        BY <1>1, <3>2, <4>2, ChunkSet
      <4> QED
        BY <4>1, <4>3
    <3> QED
      BY <1>2, <3>1, <3>2 DEF Feed
  <2>2. Moves(s, r, "out") /\ control' = [control EXCEPT ![s] = "out"] /\ UNCHANGED <<reader, worker>>
    BY <1>1, <1>2, <2>1 DEF Feed, Moves, streamVars
  <2> QED
    BY <2>1, <2>2
<1>3. CASE Decode(s)
  <2> DEFINE r == [sess[s] EXCEPT !.state = "decoding"]
  <2>1. sess' = [sess EXCEPT ![s] = r] /\ r = [sess[s] EXCEPT !.state = "decoding"]
    BY <1>3 DEF Decode, ToState
  <2> HIDE DEF r
  <2>2. r \in SessionRecords /\ r.state = "decoding" /\ Moved(sess[s], r)
    BY <1>1, <2>1, StateSet DEF States
  <2>3. /\ Moves(s, r, "submit") /\ control' = [control EXCEPT ![s] = "submit"]
        /\ UNCHANGED <<reader, worker>>
    BY <1>3, <2>2 DEF Decode, Goto, Moves, Moved, streamVars
  <2> QED
    BY <2>1, <2>2, <2>3
<1>4. CASE Submit(s)
  <2>1. /\ control[s] = "submit" /\ control' = [control EXCEPT ![s] = "out"]
        /\ UNCHANGED <<ctx, ring, rest, got, eos, reader, worker>>
    BY <1>4 DEF Submit, Goto, streamVars
  <2>2. CASE queue' = Append(queue, s) /\ UNCHANGED sess
    <3>1. Moves(s, sess[s], "out")
      BY <2>1, <2>2 DEF Moves
    <3> QED
      BY <1>1, <2>1, <2>2, <3>1
  <2>3. CASE ToState(s, "feeding") /\ UNCHANGED queue
    <3> DEFINE r == [sess[s] EXCEPT !.state = "feeding"]
    <3>1. sess' = [sess EXCEPT ![s] = r] /\ r = [sess[s] EXCEPT !.state = "feeding"]
      BY <2>3 DEF ToState
    <3> HIDE DEF r
    <3>2. r \in SessionRecords /\ r.state = "feeding" /\ Moved(sess[s], r)
      BY <1>1, <3>1, StateSet DEF States
    <3>3. Moves(s, r, "out")
      BY <2>1, <2>3, <3>2 DEF Moves, Moved
    <3> QED
      BY <2>1, <3>1, <3>2, <3>3
  <2> QED
    BY <1>4, <2>2, <2>3 DEF Submit
<1>5. CASE Cancel(s) \/ DestroyBegin(s)
  <2>1. PICK c \in BOOLEAN : sess' = [sess EXCEPT ![s] = [sess[s] EXCEPT !.cancel = c]]
    <3>1. sess[s].cancel \in BOOLEAN
      BY <1>1, RecordFacts
    <3>2. CASE Cancel(s)
      BY <3>2 DEF Cancel
    <3>3. CASE DestroyBegin(s)
      BY <3>1, <3>3 DEF DestroyBegin, Decoding
    <3> QED
      BY <1>5, <3>2, <3>3
  <2> DEFINE r == [sess[s] EXCEPT !.cancel = c]
  <2>2. sess' = [sess EXCEPT ![s] = r] /\ r = [sess[s] EXCEPT !.cancel = c]
    BY <2>1
  <2> HIDE DEF r
  <2>3. r \in SessionRecords /\ r.state = sess[s].state /\ Moved(sess[s], r)
    BY <1>1, <2>2, CancelSet
  <2>4. PICK l \in {control[s], "destroying"} :
          /\ control' = [control EXCEPT ![s] = l]
          /\ l = control[s] \/ (control[s] = "out" /\ l = "destroying")
    <3>1. CASE Cancel(s)
      <4>1. control' = control
        BY <3>1 DEF Cancel
      <4>2. control = [control EXCEPT ![s] = control[s]]
        BY <1>1
      <4> QED
        BY <4>1, <4>2
    <3>2. CASE DestroyBegin(s)
      BY <3>2 DEF DestroyBegin, Goto
    <3> QED
      BY <1>5, <3>1, <3>2
  <2>5. UNCHANGED <<ctx, ring, rest, got, eos, reader, queue, worker>>
    BY <1>5 DEF Cancel, DestroyBegin, streamVars
  <2>6. Moves(s, r, l)
    BY <2>3, <2>4, <2>5 DEF Moves, Moved
  <2> QED
    BY <1>1, <2>2, <2>3, <2>4, <2>5, <2>6
<1>6. CASE Reset(s)
  <2>1. PICK r \in SessionRecords, c \in {<< >>, NoContext, ctx[s]} :
          /\ sess' = [sess EXCEPT ![s] = r] /\ ctx' = [ctx EXCEPT ![s] = c]
          /\ r.total = 0 /\ r.stop = 0
          /\ \/ r.state = "idle" /\ c \in {<< >>, NoContext}
             \/ r.state = sess[s].state /\ c \in {ctx[s], NoContext}
    <3> DEFINE q == [FreshSession EXCEPT !.state = sess[s].state]
    <3>1. sess[s].state \in States /\ q = [FreshSession EXCEPT !.state = sess[s].state]
      BY <1>1, RecordFacts
    <3> HIDE DEF q
    <3>2. /\ q \in SessionRecords /\ q.total = 0 /\ q.stop = 0 /\ q.state = sess[s].state
          /\ FreshSession \in SessionRecords /\ FreshSession.state = "idle"
          /\ FreshSession.total = 0 /\ FreshSession.stop = 0
      BY <3>1, FreshSet
    <3>3. \/ ctx' = [ctx EXCEPT ![s] = << >>] /\ sess' = [sess EXCEPT ![s] = FreshSession]
          \/ /\ \E left \in {ctx[s], NoContext} : ctx' = [ctx EXCEPT ![s] = left]
             /\ sess' = [sess EXCEPT ![s] = q]
      BY <1>6, <3>1 DEF Reset, ResetContext
    <3> QED
      BY <3>2, <3>3
  <2>2. Empties(s, r, "out")
    BY <1>6, <2>1 DEF Reset, Empties
  <2> QED
    BY <1>1, <1>6, <2>1, <2>2 DEF Reset
<1>7. CASE DestroyEnd(s)
  <2>1. /\ FreshSession \in SessionRecords /\ FreshSession.state = "idle"
        /\ FreshSession.total = 0 /\ FreshSession.stop = 0
    BY FreshSet DEF States
  <2>2. Empties(s, FreshSession, "freed")
    BY <1>1, <1>7, <2>1 DEF DestroyEnd, Goto, Empties
  <2> QED
    BY <1>1, <1>7, <2>1, <2>2 DEF DestroyEnd, Goto
<1> QED
  BY <1>2, <1>3, <1>4, <1>5, <1>6, <1>7 DEF Control

LEMMA ControlType ==
  ASSUME TypeInv, NEW s \in Sessions, Control(s)
  PROVE  TypeInv'
<1>1. PICK r \in SessionRecords, l \in {"out", "submit", "destroying", "freed"} :
        /\ sess' = [sess EXCEPT ![s] = r] /\ control' = [control EXCEPT ![s] = l]
        /\ UNCHANGED <<reader, worker>>
        /\ Moves(s, r, l) \/ Empties(s, r, l)
  BY ControlStep
<1>2. /\ sess' \in [Sessions -> SessionRecords]
      /\ control' \in [Sessions -> {"out", "submit", "destroying", "freed"}]
  BY <1>1 DEF TypeInv
<1>3. CASE Moves(s, r, l)
  <2>1. queue' \in Seq(Sessions)
    <3>1. queue \in Seq(Sessions) /\ queue' \in {queue, Append(queue, s)}
      BY <1>3 DEF Moves, TypeInv
    <3> QED
      BY <3>1, AppendProperties
  <2>2. UNCHANGED <<ctx, ring, rest, got, eos>>
    BY <1>3 DEF Moves
  <2> QED
    BY <1>1, <1>2, <2>1, <2>2 DEF TypeInv
<1>4. CASE Empties(s, r, l)
  <2>1. << >> \in Seq(Entries) /\ << >> \in Seq(Lines) /\ NoContext \in Seq(Lines) /\ Len(<< >>) = 0
    <3>1. <<"null", 0>> \in Lines
      BY DEF Lines
    <3> QED
      BY <3>1, EmptySeq DEF NoContext
  <2>2. ctx' \in [Sessions -> Seq(Lines)] /\ queue' = queue
    <3>1. PICK c \in {<< >>, NoContext, ctx[s]} : ctx' = [ctx EXCEPT ![s] = c]
      BY <1>4 DEF Empties
    <3>2. c \in Seq(Lines) /\ ctx \in [Sessions -> Seq(Lines)]
      BY <2>1 DEF TypeInv
    <3> QED
      BY <1>4, <3>1, <3>2 DEF Empties
  <2>3. /\ ring' = [ring EXCEPT ![s] = << >>] /\ rest' = [rest EXCEPT ![s] = << >>]
        /\ got' = [got EXCEPT ![s] = << >>] /\ eos' = [eos EXCEPT ![s] = FALSE]
    BY <1>4 DEF Empties
  <2>4. RingCapacity \in Nat
    BY CountAssumption
  <2> QED
    BY <1>1, <1>2, <2>1, <2>2, <2>3, <2>4 DEF TypeInv
<1> QED
  BY <1>1, <1>3, <1>4

LEMMA ReadType ==
  ASSUME TypeInv, NEW s \in Streamed, StreamRead(s)
  PROVE  TypeInv' /\ \A t \in Sessions : Delivered(t)' = Delivered(t)
<1>0. s \in Sessions
  BY StreamAssumption
<1>1. UNCHANGED <<sess, ctx, control, queue, worker>>
  BY DEF StreamRead
<1>2. got[s] \in Seq(Entries) /\ rest[s] \in Seq(Entries) /\ ring[s] \in Seq(Entries)
  BY <1>0 DEF TypeInv
<1>3. << >> \in Seq(Entries) /\ Len(<< >>) = 0
  BY EmptySeq
<1>4. CASE ReadRest(s)
  <2>1. got[s] \o rest[s] \in Seq(Entries)
    BY <1>0, DeliveredType
  <2>2. (got[s] \o rest[s]) \o << >> = got[s] \o rest[s]
    BY <2>1, ConcatEmptySeq
  <2>3. TypeInv'
    BY <1>0, <1>1, <1>3, <1>4, <2>1 DEF ReadRest, TypeInv
  <2> QED
    BY <1>0, <1>4, <2>2, <2>3 DEF ReadRest, Delivered, TypeInv
<1>5. CASE ReadRing(s)
  <2> DEFINE r == ring[s]
  <2>1. PICK n \in 1 .. Len(r), whole \in BOOLEAN :
          /\ got' = [got EXCEPT ![s] = @ \o SubSeq(r, 1, IF whole THEN n ELSE n - 1)]
          /\ rest' = [rest EXCEPT ![s] = IF whole THEN << >> ELSE <<r[n]>>]
          /\ ring' = [ring EXCEPT ![s] = SubSeq(@, n + 1, Len(@))]
    BY <1>5 DEF ReadRing
  <2>2. /\ SubSeq(r, 1, n) \in Seq(Entries) /\ SubSeq(r, 1, n - 1) \in Seq(Entries)
        /\ SubSeq(r, n + 1, Len(r)) \in Seq(Entries) /\ <<r[n]>> \in Seq(Entries)
        /\ Len(SubSeq(r, n + 1, Len(r))) <= Len(r)
        /\ (got[s] \o SubSeq(r, 1, n)) \o << >> \o SubSeq(r, n + 1, Len(r)) = got[s] \o r
        /\ (got[s] \o SubSeq(r, 1, n - 1)) \o <<r[n]>> \o SubSeq(r, n + 1, Len(r)) = got[s] \o r
    <3>1. Splits(Entries, got[s], r, n)
      BY <1>2, Split
    <3> QED
      BY <3>1 DEF Splits
  <2>3. Delivered(s) = got[s] \o r
    <3>1. rest[s] = << >> /\ got[s] \o << >> = got[s]
      BY <1>2, <1>5, ConcatEmptySeq DEF ReadRing
    <3> QED
      BY <3>1 DEF Delivered
  <2>4. /\ got'[s] = got[s] \o SubSeq(r, 1, IF whole THEN n ELSE n - 1)
        /\ rest'[s] = IF whole THEN << >> ELSE <<r[n]>>
        /\ ring'[s] = SubSeq(r, n + 1, Len(r))
        /\ \A t \in Sessions \ {s} : got'[t] = got[t] /\ rest'[t] = rest[t] /\ ring'[t] = ring[t]
    BY <1>0, <2>1 DEF TypeInv
  <2>5. Delivered(s)' = Delivered(s)
    BY <2>2, <2>3, <2>4 DEF Delivered
  <2>6. got'[s] \in Seq(Entries)
    BY <1>2, <2>2, <2>4, ConcatProperties
  <2>7. rest'[s] \in Seq(Entries) /\ ring'[s] \in Seq(Entries) /\ Len(rest'[s]) <= 1
        /\ Len(ring'[s]) <= RingCapacity
    <3>1. Len(ring'[s]) \in Nat /\ Len(r) \in Nat /\ Len(r) <= RingCapacity /\ RingCapacity \in Nat
      BY <1>0, <1>2, <2>2, <2>4, LenProperties, CountAssumption DEF TypeInv
    <3>2. Len(ring'[s]) <= RingCapacity
      BY <2>2, <2>4, <3>1
    <3>3. Len(<< >>) <= 1 /\ Len(<<r[n]>>) <= 1
      OBVIOUS
    <3> QED
      BY <1>3, <2>2, <2>4, <3>2, <3>3
  <2>8. TypeInv'
    <3>1. /\ got' \in [Sessions -> Seq(Entries)] /\ rest' \in [Sessions -> Seq(Entries)]
          /\ ring' \in [Sessions -> Seq(Entries)]
      BY <2>1, <2>4, <2>6, <2>7 DEF TypeInv
    <3>2. \A t \in Sessions : Len(ring'[t]) <= RingCapacity /\ Len(rest'[t]) <= 1
      BY <2>4, <2>7 DEF TypeInv
    <3>3. eos' = eos /\ reader' \in [Sessions -> {"drain", "check"}]
      BY <1>5 DEF ReadRing, TypeInv
    <3> QED
      BY <1>1, <3>1, <3>2, <3>3 DEF TypeInv
  <2> QED
    BY <2>4, <2>5, <2>8 DEF Delivered
<1>6. CASE ReadEmpty(s)
  BY <1>1, <1>6 DEF ReadEmpty, streamVars, TypeInv, Delivered
<1>7. CASE ReadCheck(s)
  BY <1>0, <1>1, <1>7 DEF ReadCheck, Terminal, TypeInv, Delivered
<1> QED
  BY <1>4, <1>5, <1>6, <1>7 DEF StreamRead

-----------------------------------------------------------------------------
(* A step of the worker within a run *)

LEMMA WorkerFacts ==
  ASSUME TypeInv
  PROVE  /\ worker \in WorkerRecords
         /\ worker.at \in Spots /\ worker.job \in Sessions \cup {NoSession}
         /\ worker.hold \in Seq(Nat) /\ worker.sent \in {0, 1} /\ worker.retain \in {0, StopHold}
         /\ worker.last \in BOOLEAN /\ worker.final \in Finals
         /\ Len(worker.hold) \in Nat /\ worker.retain \in Nat /\ StopHold \in Nat
<1>1. worker \in WorkerRecords
  BY DEF TypeInv
<1>2. /\ worker.at \in Spots /\ worker.job \in Sessions \cup {NoSession}
      /\ worker.hold \in Seq(Nat) /\ worker.sent \in {0, 1} /\ worker.retain \in {0, StopHold}
      /\ worker.last \in BOOLEAN /\ worker.final \in Finals
  BY <1>1 DEF WorkerRecords
<1> QED
  BY <1>1, <1>2, LenProperties, CountAssumption

\* the worker has a session, whose run it is in
LEMMA AtWork ==
  ASSUME SessionParameters, TypeInv, OwnerInv, worker.at # "idle"
  PROVE  worker.job \in Sessions /\ worker.job # NoSession /\ Decoding(worker.job)
BY WorkerFacts DEF OwnerInv, SessionParameters

Inside == {"check", "sample", "emit", "blocked", "end"}

\* The worker stays in the run of s: what it makes of the session's record and
\* context, of its ring and of itself.
Stays(s, r, c, x, w) ==
  /\ worker.job = s /\ w.job = s /\ w.at \in Inside
  /\ r \in SessionRecords /\ r.state = sess[s].state
  /\ c \in Seq(Lines) /\ x \in Seq(Entries) /\ Len(x) <= RingCapacity
  /\ w \in WorkerRecords
  /\ sess' = [sess EXCEPT ![s] = r]
  /\ ctx' = [ctx EXCEPT ![s] = c]
  /\ ring' = [ring EXCEPT ![s] = x]
  /\ worker' = w
  /\ UNCHANGED <<rest, got, eos, reader, control, queue>>

LEMMA RunStep ==
  ASSUME SessionParameters, TypeInv, OwnerInv, FreshInv, StreamInv,
         NEW s \in Sessions, NEW r, NEW c, NEW x, NEW w, Stays(s, r, c, x, w)
  PROVE  /\ TypeInv' /\ OwnerInv' /\ FreshInv'
         /\ InRun(s)' /\ sess'[s] = r /\ ctx'[s] = c
         /\ Delivered(s)' = got[s] \o rest[s] \o x
         /\ (s \in Streamed => Stands(Delivered(s)', Whole', w.sent)) => StreamInv'
<1> USE DEF Stays
<1>1. /\ sess' \in [Sessions -> SessionRecords] /\ sess'[s] = r
      /\ \A t \in Sessions : t # s => sess'[t] = sess[t]
  BY SessUpdate
<1>2. /\ ring' \in [Sessions -> Seq(Entries)] /\ ring'[s] = x
      /\ \A t \in Sessions : t # s => ring'[t] = ring[t]
  BY DEF TypeInv
<1>3. /\ ctx' \in [Sessions -> Seq(Lines)] /\ ctx'[s] = c
      /\ \A t \in Sessions : t # s => ctx'[t] = ctx[t]
  BY DEF TypeInv
<1>4. TypeInv'
  BY <1>1, <1>2, <1>3 DEF TypeInv
<1>5. s # NoSession /\ w.at # "idle" /\ w.at # "feed"
  BY DEF SessionParameters, Inside
<1>6. \A t \in Sessions : Decoding(t)' <=> Decoding(t)
  BY <1>1 DEF Decoding
<1>7. InRun(s)' /\ \A t \in Sessions : t # s => ~InRun(t) /\ ~InRun(t)'
  BY DEF InRun, Inside
<1>8. OwnerInv'
  <2>1. queue' = queue /\ control' = control /\ \A i \in DOMAIN queue : queue[i] \in Sessions
    BY DEF TypeInv
  <2>2. worker'.job = s /\ worker.job = s /\ worker.at # "idle"
    BY <1>5 DEF OwnerInv
  <2> QED
    BY <1>5, <1>6, <2>1, <2>2 DEF OwnerInv
<1>9. FreshInv'
  <2> SUFFICES ASSUME NEW t \in Sessions,
                      sess'[t].state \in {"idle", "feeding"} \/ (Decoding(t)' /\ ~InRun(t)')
               PROVE  /\ sess'[t].total = 0 /\ sess'[t].stop = 0
                      /\ ctx'[t] \in {<< >>, NoContext}
                      /\ ring'[t] = << >> /\ rest'[t] = << >> /\ got'[t] = << >>
    BY <1>5 DEF FreshInv
  <2>1. Decoding(s)
    BY <1>5 DEF OwnerInv
  <2>2. t # s
    BY <1>1, <1>7, <2>1 DEF Decoding
  <2> QED
    BY <1>1, <1>2, <1>3, <1>6, <1>7, <2>2 DEF FreshInv
<1>10. \A t \in Sessions : t # s => Delivered(t)' = Delivered(t)
  BY <1>2 DEF Delivered
<1>11. Delivered(s)' = got[s] \o rest[s] \o x
  BY <1>2 DEF Delivered
<1>12. ASSUME s \in Streamed => Stands(Delivered(s)', Whole', w.sent)
       PROVE  StreamInv'
  <2>1. \A t \in Streamed : t # s => Faithful(t)'
    BY <1>1, <1>7, <1>10, StreamAssumption DEF StreamInv, Faithful
  <2>2. \A t \in Streamed : t \in Sessions
    BY StreamAssumption
  <2> QED
    BY <1>7, <1>12, <2>1, <2>2 DEF StreamInv
<1> QED
  BY <1>1, <1>3, <1>4, <1>7, <1>8, <1>9, <1>11, <1>12

\* A step that only moves the worker on to another point of the run, or to its end.
LEMMA MoveSafe ==
  ASSUME SessionParameters, SessionInv, NEW s \in Sessions, InRun(s), worker.at # "end",
         NEW w \in WorkerRecords, worker' = w,
         w.job = s, w.hold = worker.hold, w.sent = worker.sent, w.retain = worker.retain,
         w.last = worker.last, w.at \in Inside,
         w.at \in {"check", "sample"} => ~w.last /\ Len(w.hold) <= w.retain /\ w.sent = 0,
         w.at = "end" /\ w.final = "completed" => w.last /\ w.retain = 0 /\ Len(w.hold) = 0,
         UNCHANGED <<sess, ctx, streamVars, reader, control, queue>>
  PROVE  SessionInv'
<1>1. /\ sess[s] \in SessionRecords /\ sess' = [sess EXCEPT ![s] = sess[s]]
      /\ ctx[s] \in Seq(Lines) /\ ctx' = [ctx EXCEPT ![s] = ctx[s]]
      /\ ring[s] \in Seq(Entries) /\ Len(ring[s]) <= RingCapacity
      /\ ring' = [ring EXCEPT ![s] = ring[s]]
      /\ UNCHANGED <<sess, ctx, rest, got, eos, reader, control, queue>>
  BY DEF SessionInv, TypeInv, streamVars
<1>2. s = worker.job /\ sess'[s] = sess[s] /\ ctx'[s] = ctx[s]
  BY <1>1 DEF InRun
<1>3. /\ TypeInv' /\ OwnerInv' /\ FreshInv' /\ InRun(s)'
      /\ Delivered(s)' = Delivered(s)
      /\ (s \in Streamed => Stands(Delivered(s)', Whole', w.sent)) => StreamInv'
  <2>1. TypeInv /\ OwnerInv /\ FreshInv /\ StreamInv
    BY DEF SessionInv
  <2>2. Stays(s, sess[s], ctx[s], ring[s], w)
    BY <1>1, <1>2 DEF Stays
  <2>3. /\ TypeInv' /\ OwnerInv' /\ FreshInv' /\ InRun(s)'
        /\ Delivered(s)' = got[s] \o rest[s] \o ring[s]
        /\ (s \in Streamed => Stands(Delivered(s)', Whole', w.sent)) => StreamInv'
    BY <2>1, <2>2, RunStep
  <2> QED
    BY <2>3 DEF Delivered
<1>4. (Flushing' <=> Flushing) /\ Until' = Until /\ Whole' = Whole
  BY <1>1, <1>2 DEF Flushing, Until, Whole
<1>5. StreamInv'
  BY <1>2, <1>3, <1>4, StreamAssumption DEF SessionInv, StreamInv
<1>6. HoldInv'
  BY <1>2, <1>4 DEF SessionInv, HoldInv, InRun, Inside, Flushing
<1>7. CtxInv'
  <2>1. worker.at \in {"check", "sample", "emit", "blocked"}
    BY DEF InRun
  <2> QED
    BY <1>2, <2>1 DEF SessionInv, CtxInv, ContextOf
<1> QED
  BY <1>3, <1>5, <1>6, <1>7 DEF SessionInv

\* The worker's record, with its fields as they are given.
Is(w, at, hold, sent, retain, last) ==
  /\ w \in WorkerRecords /\ w.job = worker.job
  /\ w.at = at /\ w.hold = hold /\ w.sent = sent /\ w.retain = retain /\ w.last = last

LEMMA GoneOn ==
  ASSUME TypeInv, NEW a \in Spots, NEW w, w = [worker EXCEPT !.at = a]
  PROVE  Is(w, a, worker.hold, worker.sent, worker.retain, worker.last) /\ w.final = worker.final
BY DEF Is, TypeInv, WorkerRecords

LEMMA Ended ==
  ASSUME TypeInv, NEW f \in Finals, NEW w, w = [worker EXCEPT !.at = "end", !.final = f]
  PROVE  Is(w, "end", worker.hold, worker.sent, worker.retain, worker.last) /\ w.final = f
BY DEF Is, TypeInv, WorkerRecords, Spots

LEMMA CheckSafe ==
  ASSUME SessionParameters, SessionInv, CheckCancel \/ Blocked
  PROVE  SessionInv'
<1> DEFINE s == worker.job
<1>1. InRun(s) /\ worker.at # "end" /\ worker.at \in {"check", "blocked"}
  BY DEF CheckCancel, Blocked, InRun
<1>2. TypeInv /\ s \in Sessions
  BY <1>1, AtWork DEF SessionInv
<1>3. UNCHANGED <<sess, ctx, streamVars, reader, control, queue>>
  BY DEF CheckCancel, Blocked
<1>4. CASE End("canceled")
  <2>1. Is(worker', "end", worker.hold, worker.sent, worker.retain, worker.last)
        /\ worker'.final = "canceled"
    BY <1>2, <1>4, Ended DEF End, Finals
  <2> QED
    BY <1>1, <1>2, <1>3, <2>1, MoveSafe DEF Is, Inside
<1>5. CASE worker' = [worker EXCEPT !.at = "sample"] /\ worker.at = "check"
  <2>1. Is(worker', "sample", worker.hold, worker.sent, worker.retain, worker.last)
    BY <1>2, <1>5, GoneOn DEF Spots
  <2>2. ~worker.last /\ Len(worker.hold) <= worker.retain /\ worker.sent = 0
    <3>1. InRun(s) /\ worker.at = "check" /\ HoldInv
      BY <1>1, <1>5 DEF SessionInv
    <3>2. s \notin Streamed => Len(worker.hold) = 0
      BY <3>1 DEF HoldInv
    <3> QED
      BY <1>2, <3>1, <3>2, WorkerFacts DEF HoldInv
  <2> QED
    BY <1>1, <1>2, <1>3, <2>1, <2>2, MoveSafe DEF Is, Inside
<1>6. CASE worker' = [worker EXCEPT !.at = "emit"]
  <2>1. Is(worker', "emit", worker.hold, worker.sent, worker.retain, worker.last)
    BY <1>2, <1>6, GoneOn DEF Spots
  <2> QED
    BY <1>1, <1>2, <1>3, <2>1, MoveSafe DEF Is, Inside
<1> QED
  BY <1>4, <1>5, <1>6 DEF CheckCancel, Blocked

LEMMA StartSafe ==
  ASSUME SessionParameters, SessionInv, Start
  PROVE  SessionInv'
<1> DEFINE s == Head(queue)
<1>1. /\ worker.at = "idle" /\ worker.job = NoSession
      /\ UNCHANGED <<sess, ctx, ring, rest, got, eos, reader, control>>
      /\ worker' = [Idle EXCEPT !.at = "feed", !.job = s] /\ queue' = Tail(queue)
  BY DEF Start, streamVars, SessionInv, OwnerInv
<1>2. /\ queue \in Seq(Sessions) /\ queue # << >> /\ s \in Sessions /\ s = queue[1]
      /\ Tail(queue) \in Seq(Sessions) /\ DOMAIN queue = 1 .. Len(queue) /\ Len(queue) \in Nat
      /\ Len(queue) # 0
      /\ DOMAIN Tail(queue) = 1 .. Len(queue) - 1
      /\ \A i \in 1 .. Len(queue) - 1 : Tail(queue)[i] = queue[i + 1]
  <2>1. queue \in Seq(Sessions) /\ queue # << >>
    BY DEF Start, SessionInv, TypeInv
  <2> QED
    BY <2>1, HeadTailProperties, LenProperties, EmptySeq
<1>3. /\ worker'.at = "feed" /\ worker'.job = s /\ worker' \in WorkerRecords
      /\ worker' = [Idle EXCEPT !.at = worker'.at, !.job = worker'.job]
  <2>1. CountAssumption
    BY CountAssumption
  <2> QED
    BY <1>1, <1>2, <2>1, EmptySeq DEF Idle, WorkerRecords, Spots, Finals
<1>4. TypeInv'
  BY <1>1, <1>2, <1>3 DEF SessionInv, TypeInv
<1>5. \A t \in Sessions : (Decoding(t)' <=> Decoding(t)) /\ (InRun(t)' <=> InRun(t))
                          /\ Delivered(t)' = Delivered(t)
  BY <1>1, <1>3 DEF Decoding, InRun, Delivered
<1>6. OwnerInv'
  <2>1. s # NoSession /\ Decoding(s)
    BY <1>2 DEF SessionInv, OwnerInv, SessionParameters
  <2>2. \A i \in 1 .. Len(queue) - 1 : i + 1 \in DOMAIN queue /\ queue[i + 1] # s /\ Decoding(queue[i + 1])
    <3> SUFFICES ASSUME NEW i \in 1 .. Len(queue) - 1
                 PROVE  i + 1 \in DOMAIN queue /\ queue[i + 1] # s /\ Decoding(queue[i + 1])
      OBVIOUS
    <3>1. i + 1 \in DOMAIN queue /\ 1 \in DOMAIN queue /\ i + 1 # 1
      BY <1>2
    <3> QED
      BY <1>2, <3>1 DEF SessionInv, OwnerInv
  <2>3. \A i \in DOMAIN queue' : sess'[queue'[i]].state = "decoding" /\ queue'[i] # worker'.job
    <3> SUFFICES ASSUME NEW i \in 1 .. Len(queue) - 1
                 PROVE  sess[Tail(queue)[i]].state = "decoding" /\ Tail(queue)[i] # s
      BY <1>1, <1>2, <1>3
    <3>1. Decoding(queue[i + 1]) /\ queue[i + 1] # s /\ Tail(queue)[i] = queue[i + 1]
      BY <1>2, <2>2
    <3> QED
      BY <3>1 DEF Decoding
  <2>4. \A i, j \in DOMAIN queue' : queue'[i] = queue'[j] => i = j
    <3> SUFFICES ASSUME NEW i \in 1 .. Len(queue) - 1, NEW j \in 1 .. Len(queue) - 1,
                        queue[i + 1] = queue[j + 1]
                 PROVE  i = j
      BY <1>1, <1>2
    <3>1. i + 1 = j + 1
      BY <2>2 DEF SessionInv, OwnerInv
    <3> QED
      BY <1>2, <3>1
  <2>5. \A t \in Sessions : control[t] = "submit" =>
          Decoding(t) /\ t # s /\ \A i \in DOMAIN queue' : queue'[i] # t
    <3> SUFFICES ASSUME NEW t \in Sessions, control[t] = "submit"
                 PROVE  Decoding(t) /\ t # s /\ \A i \in DOMAIN queue' : queue'[i] # t
      OBVIOUS
    <3>1. Decoding(t) /\ \A i \in DOMAIN queue : queue[i] # t
      BY DEF SessionInv, OwnerInv
    <3> QED
      BY <1>1, <1>2, <2>2, <3>1
  <2>6. \A t \in Sessions : Decoding(t) =>
          control[t] = "submit" \/ t = s \/ \E i \in DOMAIN queue' : queue'[i] = t
    <3> SUFFICES ASSUME NEW t \in Sessions, Decoding(t), control[t] # "submit", t # s
                 PROVE  \E i \in DOMAIN queue' : queue'[i] = t
      OBVIOUS
    <3>1. PICK j \in DOMAIN queue : queue[j] = t
      BY <1>1 DEF SessionInv, OwnerInv, SessionParameters
    <3>2. j - 1 \in 1 .. Len(queue) - 1 /\ (j - 1) + 1 = j
      BY <1>2, <3>1
    <3> QED
      BY <1>1, <1>2, <3>1, <3>2
  <2>7. worker'.at # "idle" /\ worker'.job # NoSession
        /\ sess'[worker'.job].state = "decoding" /\ control' = control
    BY <1>1, <1>3, <2>1 DEF Decoding
  <2>8. \A t \in Sessions : Decoding(t)' <=> Decoding(t)
    BY <1>5
  <2> HIDE DEF s
  <2> QED
    BY <1>3, <2>8, <2>3, <2>4, <2>5, <2>6, <2>7 DEF OwnerInv, Decoding
<1>7. FreshInv'
  BY <1>1, <1>3, <1>5 DEF SessionInv, FreshInv
<1>8. HoldInv' /\ CtxInv'
  BY <1>3 DEF HoldInv, CtxInv, InRun
<1>9. StreamInv'
  <2>1. \A t \in Sessions : ~InRun(t) /\ ~InRun(t)'
    BY <1>3, <1>5 DEF InRun
  <2>2. \A t \in Streamed : Faithful(t)
    BY <2>1, StreamAssumption DEF SessionInv, StreamInv
  <2>3. \A t \in Streamed : Faithful(t)'
    BY <1>1, <1>5, <2>2, StreamAssumption DEF Faithful
  <2> QED
    BY <2>1, <2>3, StreamAssumption DEF StreamInv
<1> QED
  BY <1>4, <1>6, <1>7, <1>8, <1>9 DEF SessionInv

LEMMA ContextStart ==
  ASSUME NEW s
  PROVE  Append(<< >>, <<"prompt", sess[s].prompt>>) = ContextOf(s, 0)
<1>1. [i \in 1 .. 0 |-> <<"sampled", i>>] = << >>
  OBVIOUS
<1>2. << <<"prompt", sess[s].prompt>> >> \o << >> = << <<"prompt", sess[s].prompt>> >>
  OBVIOUS
<1> QED
  BY <1>1, <1>2 DEF ContextOf

LEMMA ContextGrows ==
  ASSUME NEW p, NEW n \in Nat
  PROVE  Append(<<p>> \o [i \in 1 .. n |-> <<"sampled", i>>], <<"sampled", n + 1>>)
           = <<p>> \o [i \in 1 .. n + 1 |-> <<"sampled", i>>]
<1> DEFINE S == {p} \cup ({"sampled"} \X Nat)
           f == [i \in 1 .. n |-> <<"sampled", i>>]
           g == [i \in 1 .. n + 1 |-> <<"sampled", i>>]
           e == <<"sampled", n + 1>>
<1>1. <<p>> \in Seq(S) /\ f \in Seq(S) /\ e \in S /\ g \in Seq(S)
  <2>1. \A i \in Nat : <<"sampled", i>> \in S
    OBVIOUS
  <2>2. f \in [1 .. n -> S] /\ g \in [1 .. n + 1 -> S] /\ n + 1 \in Nat
    BY <2>1
  <2>3. <<p>> \in Seq(S)
    OBVIOUS
  <2> QED
    BY <2>1, <2>2, <2>3, SeqDef
<1>2. Append(f, e) = g
  <2>1. Len(f) = n /\ Len(g) = n + 1
    OBVIOUS
  <2>2. Append(f, e) \in Seq(S) /\ Len(Append(f, e)) = n + 1
        /\ \A i \in 1 .. n : Append(f, e)[i] = f[i]
        /\ Append(f, e)[n + 1] = e
    BY <1>1, <2>1, AppendProperties
  <2>3. \A i \in 1 .. n + 1 : Append(f, e)[i] = g[i]
    <3> SUFFICES ASSUME NEW i \in 1 .. n + 1
                 PROVE  Append(f, e)[i] = <<"sampled", i>>
      OBVIOUS
    <3>1. CASE i = n + 1
      BY <2>2, <3>1
    <3>2. CASE i # n + 1
      <4>1. i \in 1 .. n
        BY <3>2
      <4> QED
        BY <2>2, <4>1
    <3> QED
      BY <3>1, <3>2
  <2> QED
    BY <1>1, <2>1, <2>2, <2>3, SeqEqual
<1> HIDE DEF f, g, e, S
<1>3. Append(f, e) = f \o <<e>> /\ Append(<<p>> \o f, e) = (<<p>> \o f) \o <<e>>
  BY <1>1, AppendIsConcat, ConcatProperties
<1>4. Associates(<<p>>, f, <<e>>)
  <2>1. <<e>> \in Seq(S)
    BY <1>1
  <2> QED
    BY <1>1, <2>1, Regroup
<1> QED
  BY <1>2, <1>3, <1>4 DEF Associates, f, g, e

LEMMA FeedSafe ==
  ASSUME SessionParameters, SessionInv, FeedPrompt
  PROVE  SessionInv'
<1>0. PICK s \in Sessions : s = worker.job
  BY AtWork DEF FeedPrompt, SessionInv
<1>1. /\ worker.at = "feed" /\ worker.job = s /\ Decoding(s) /\ TypeInv
      /\ UNCHANGED <<sess, ring, rest, got, eos, reader, control, queue>>
  BY <1>0, AtWork DEF FeedPrompt, streamVars, SessionInv
<1>2. /\ sess[s].total = 0 /\ sess[s].stop = 0 /\ ctx[s] \in {<< >>, NoContext}
      /\ ring[s] = << >> /\ rest[s] = << >> /\ got[s] = << >>
  BY <1>1 DEF SessionInv, FreshInv, InRun
<1>3. /\ worker.hold = << >> /\ worker.sent = 0 /\ worker.retain = 0 /\ ~worker.last
  BY <1>1 DEF SessionInv, FreshInv, Idle
<1>4. PICK c \in Seq(Lines), w \in WorkerRecords :
        /\ ctx' = [ctx EXCEPT ![s] = c] /\ worker' = w /\ w.job = s
        /\ w.hold = << >> /\ w.sent = 0 /\ w.retain = 0 /\ ~w.last
        /\ \/ w.at = "check" /\ c = ContextOf(s, 0)
           \/ w.at = "end" /\ w.final = "failed"
  <2>1. CASE ctx[s] # NoContext /\ ctx' = [ctx EXCEPT ![s] = Append(@, <<"prompt", sess[s].prompt>>)]
             /\ worker' = [worker EXCEPT !.at = "check"]
    <3>1. Is(worker', "check", << >>, 0, 0, FALSE)
      <4>1. Is(worker', "check", worker.hold, worker.sent, worker.retain, worker.last)
        BY <1>1, <2>1, GoneOn DEF Spots
      <4>2. worker.last = FALSE
        BY <1>1, <1>3, WorkerFacts
      <4> QED
        BY <1>3, <4>1, <4>2 DEF Is
    <3>2. ctx[s] = << >> /\ ctx' = [ctx EXCEPT ![s] = ContextOf(s, 0)]
      <4>1. ctx[s] = << >>
        BY <1>2, <2>1
      <4>2. Append(<< >>, <<"prompt", sess[s].prompt>>) = ContextOf(s, 0)
        BY ContextStart
      <4> QED
        BY <1>1, <2>1, <4>1, <4>2 DEF TypeInv
    <3>3. ContextOf(s, 0) \in Seq(Lines)
      <4>1. sess[s].prompt \in Nat
        BY <1>1, RecordFacts DEF TypeInv
      <4>2. <<"prompt", sess[s].prompt>> \in Lines
        BY <4>1 DEF Lines
      <4> QED
        BY <4>2, ContextStart, EmptySeq, AppendProperties
    <3>4. /\ worker' \in WorkerRecords /\ worker'.job = s /\ worker'.at = "check"
          /\ worker'.hold = << >> /\ worker'.sent = 0 /\ worker'.retain = 0 /\ ~worker'.last
      BY <1>1, <3>1 DEF Is
    <3> QED
      BY <3>2, <3>3, <3>4
  <2>2. CASE End("failed") /\ UNCHANGED ctx
    <3>1. Is(worker', "end", worker.hold, worker.sent, worker.retain, worker.last)
          /\ worker'.final = "failed"
      BY <1>1, <2>2, Ended DEF End, Finals
    <3>2. ctx[s] \in Seq(Lines) /\ ctx' = [ctx EXCEPT ![s] = ctx[s]]
      BY <1>1, <2>2 DEF TypeInv
    <3>3. /\ worker' \in WorkerRecords /\ worker'.job = s
          /\ worker'.at = "end" /\ worker'.final = "failed"
          /\ worker'.hold = << >> /\ worker'.sent = 0 /\ worker'.retain = 0 /\ ~worker'.last
      BY <1>1, <1>3, <3>1 DEF Is
    <3> QED
      BY <3>2, <3>3
  <2> QED
    BY <1>0, <2>1, <2>2 DEF FeedPrompt
<1>5. /\ TypeInv' /\ OwnerInv' /\ FreshInv' /\ InRun(s)' /\ sess'[s] = sess[s] /\ ctx'[s] = c
      /\ Delivered(s)' = << >>
      /\ (s \in Streamed => Stands(Delivered(s)', Whole', w.sent)) => StreamInv'
  <2>1. /\ sess[s] \in SessionRecords /\ sess = [sess EXCEPT ![s] = sess[s]]
        /\ ring[s] \in Seq(Entries) /\ ring = [ring EXCEPT ![s] = ring[s]]
        /\ Len(ring[s]) <= RingCapacity
    BY <1>1 DEF TypeInv
  <2>2. Stays(s, sess[s], c, ring[s], w)
    BY <1>1, <1>4, <2>1 DEF Stays, Inside
  <2>3. /\ TypeInv' /\ OwnerInv' /\ FreshInv' /\ InRun(s)' /\ sess'[s] = sess[s] /\ ctx'[s] = c
        /\ Delivered(s)' = got[s] \o rest[s] \o ring[s]
        /\ (s \in Streamed => Stands(Delivered(s)', Whole', w.sent)) => StreamInv'
    <3>1. TypeInv /\ OwnerInv /\ FreshInv /\ StreamInv
      BY DEF SessionInv
    <3> QED
      BY <2>2, <3>1, RunStep
  <2>4. (<< >> \o << >>) \o << >> = << >>
    OBVIOUS
  <2>5. got[s] \o rest[s] \o ring[s] = << >>
    BY <1>2, <2>4
  <2> QED
    BY <2>3, <2>5
<1>6. worker'.job = s /\ sess' = sess /\ worker' = w
  BY <1>1, <1>4
<1>7. Len(<< >>) = 0 /\ Flushing' = FALSE /\ Until' = 0 /\ Whole' = 0
  BY <1>2, <1>4, <1>6 DEF Flushing, Until, Whole
<1>8. HoldInv'
  <2>1. << >> = [i \in 1 .. 0 |-> 0 + i]
    OBVIOUS
  <2> QED
    BY <1>2, <1>4, <1>6, <1>7, <2>1, CountAssumption DEF HoldInv
<1>9. StreamInv'
  <2>1. Stands(<< >>, 0, 0)
    BY DEF Stands, InOrder, Within, EndsWith
  <2> QED
    BY <1>4, <1>5, <1>7, <2>1
<1>10. CtxInv'
  BY <1>2, <1>4, <1>5, <1>6 DEF CtxInv, ContextOf
<1> QED
  BY <1>5, <1>8, <1>9, <1>10 DEF SessionInv

\* The numbers of a run.
LEMMA RunNumbers ==
  ASSUME TypeInv, NEW s \in Sessions, worker.job = s, HoldInv, InRun(s)
  PROVE  /\ sess[s] \in SessionRecords
         /\ sess[s].total \in Nat /\ sess[s].total <= MaxTokens /\ MaxTokens \in Nat
         /\ sess[s].stop \in Nat /\ sess[s].stop <= sess[s].total /\ sess[s].stop <= StopHold
         /\ Until \in Nat /\ (Flushing => Until = sess[s].total - sess[s].stop)
         /\ (~Flushing => Until = sess[s].total)
         /\ s \in Streamed => Whole \in Nat /\ Whole + Len(worker.hold) = Until
<1>1. sess[s] \in SessionRecords
  BY DEF TypeInv
<1>2. /\ sess[s].total \in Nat /\ sess[s].total <= MaxTokens /\ MaxTokens \in Nat
      /\ sess[s].stop \in Nat /\ sess[s].stop <= StopHold
  BY <1>1, RecordFacts
<1>3. sess[s].stop <= sess[s].total
  BY DEF HoldInv
<1>4. /\ Until \in Nat /\ (Flushing => Until = sess[s].total - sess[s].stop)
      /\ (~Flushing => Until = sess[s].total)
  BY <1>2, <1>3 DEF Until
<1>5. s \in Streamed => Len(worker.hold) <= Until
  BY DEF HoldInv
<1> QED
  BY <1>1, <1>2, <1>3, <1>4, <1>5, WorkerFacts DEF Whole

\* What is out is within what the run may deliver, also before it has taken a
\* stop sequence back: it holds enough.
LEMMA Ahead ==
  ASSUME TypeInv, NEW s \in Sessions, worker.job = s, s \in Streamed, HoldInv, InRun(s)
  PROVE  /\ Whole \in Nat /\ worker.sent \in {0, 1} /\ sess[s].total - sess[s].stop \in Nat
         /\ Whole + worker.sent <= sess[s].total - sess[s].stop
<1> DEFINE k == Len(worker.hold)
           total == sess[s].total
           stop == sess[s].stop
<1>1. /\ worker.sent \in {0, 1} /\ worker.retain \in {0, StopHold} /\ StopHold \in Nat /\ k \in Nat
      /\ worker.last \in BOOLEAN
  BY WorkerFacts
<1>2. /\ total \in Nat /\ stop \in Nat /\ stop <= total /\ stop <= StopHold
      /\ Until \in Nat /\ Whole \in Nat /\ Whole + k = Until
      /\ (Flushing => Until = total - stop) /\ (~Flushing => Until = total)
  BY RunNumbers
<1>3. /\ ~worker.last => stop = 0
      /\ Flushing \/ k >= StopHold \/ k = total
      /\ worker.sent = 1 => k > worker.retain
  BY DEF HoldInv
<1>4. Whole + worker.sent <= total - stop
  <2>1. CASE Flushing
    <3>1. worker.retain = 0
      BY <2>1 DEF Flushing
    <3> HIDE DEF k, total, stop
    <3> QED
      BY <1>1, <1>2, <1>3, <2>1, <3>1
  <2>2. CASE ~Flushing /\ ~worker.last
    <3>1. worker.sent = 1 => k > 0
      BY <1>1, <1>3
    <3> HIDE DEF k, total, stop
    <3> QED
      BY <1>1, <1>2, <1>3, <2>2, <3>1
  <2>3. CASE ~Flushing /\ worker.last
    <3>1. worker.retain = StopHold
      BY <1>1, <2>3 DEF Flushing
    <3> HIDE DEF k, total, stop
    <3> QED
      BY <1>1, <1>2, <1>3, <2>3, <3>1
  <2> QED
    BY <2>1, <2>2, <2>3
<1>5. total - stop \in Nat
  <2> HIDE DEF total, stop
  <2> QED
    BY <1>2
<1> QED
  BY <1>1, <1>2, <1>4, <1>5

LEMMA SampleSafe ==
  ASSUME SessionParameters, SessionInv, Sample
  PROVE  SessionInv'
<1>0. PICK s \in Sessions : s = worker.job
  BY AtWork DEF Sample, SessionInv
<1> DEFINE n == sess[s].total + 1
           k == Len(worker.hold)
<1>1. /\ worker.at = "sample" /\ worker.job = s /\ TypeInv /\ InRun(s)
      /\ UNCHANGED <<ring, rest, got, eos, reader, control, queue>>
  BY <1>0 DEF Sample, streamVars, SessionInv, InRun
<1>2. /\ ~worker.last /\ sess[s].stop = 0 /\ sess[s].total < MaxTokens /\ worker.sent = 0
      /\ worker.retain = IF sess[s].total = 0 THEN 0 ELSE StopHold
      /\ s \notin Streamed => k = 0
      /\ s \in Streamed => /\ k <= Until /\ k <= worker.retain
                           /\ worker.hold = [i \in 1 .. k |-> Whole + i]
                           /\ Flushing \/ k >= StopHold \/ k = sess[s].total
  BY <1>1, WorkerFacts DEF SessionInv, HoldInv
<1>3. /\ sess[s] \in SessionRecords /\ sess[s].total \in Nat /\ MaxTokens \in Nat
      /\ Until = sess[s].total /\ (s \in Streamed => Whole \in Nat /\ Whole + k = sess[s].total)
      /\ k \in Nat /\ StopHold \in Nat /\ worker.hold \in Seq(Nat) /\ ~Flushing
      /\ n \in 0 .. MaxTokens /\ n \in Nat
  <2>1. ~Flushing
    BY <1>2 DEF Flushing
  <2>2. /\ sess[s] \in SessionRecords /\ sess[s].total \in Nat /\ MaxTokens \in Nat
        /\ Until = sess[s].total /\ (s \in Streamed => Whole \in Nat /\ Whole + k = sess[s].total)
    BY <1>1, <2>1, RunNumbers DEF SessionInv
  <2> QED
    BY <1>1, <1>2, <2>1, <2>2, WorkerFacts
<1>4. /\ ring[s] \in Seq(Entries) /\ ring' = [ring EXCEPT ![s] = ring[s]]
      /\ Len(ring[s]) <= RingCapacity
      /\ ctx[s] \in Seq(Lines) /\ ctx[s] = ContextOf(s, sess[s].total)
      /\ sess = [sess EXCEPT ![s] = sess[s]]
  BY <1>1, <1>2 DEF SessionInv, TypeInv, CtxInv
<1>5. s \in Streamed => Stands(Delivered(s), Whole, 0)
  BY <1>1, <1>2 DEF SessionInv, StreamInv
<1>6. CASE Failures /\ End("failed") /\ UNCHANGED <<sess, ctx>>
  <2>1. Is(worker', "end", worker.hold, worker.sent, worker.retain, worker.last)
        /\ worker'.final = "failed"
    BY <1>1, <1>6, Ended DEF End, Finals
  <2> QED
    BY <1>1, <1>6, <2>1, MoveSafe DEF Is, Inside, streamVars
<1>7. CASE /\ ctx' = [ctx EXCEPT ![s] = Append(@, <<"eos", n>>)]
           /\ worker' = [worker EXCEPT !.at = "emit", !.last = TRUE]
           /\ UNCHANGED sess
  <2> DEFINE c == Append(ctx[s], <<"eos", n>>)
  <2>1. c \in Seq(Lines) /\ ctx' = [ctx EXCEPT ![s] = c]
    <3>1. <<"eos", n>> \in Lines
      BY <1>3 DEF Lines
    <3> QED
      BY <1>1, <1>4, <1>7, <3>1, AppendProperties DEF TypeInv
  <2>2. Is(worker', "emit", worker.hold, 0, worker.retain, TRUE)
    BY <1>1, <1>2, <1>7 DEF Is, TypeInv, WorkerRecords, Spots
  <2> HIDE DEF c
  <2>3. Stays(s, sess[s], c, ring[s], worker')
    BY <1>1, <1>3, <1>4, <1>7, <2>1, <2>2 DEF Stays, Is, Inside
  <2>4. /\ TypeInv' /\ OwnerInv' /\ FreshInv' /\ InRun(s)' /\ sess'[s] = sess[s]
        /\ Delivered(s)' = Delivered(s)
        /\ (s \in Streamed => Stands(Delivered(s)', Whole', worker'.sent)) => StreamInv'
    <3>1. TypeInv /\ OwnerInv /\ FreshInv /\ StreamInv
      BY DEF SessionInv
    <3>2. /\ TypeInv' /\ OwnerInv' /\ FreshInv' /\ InRun(s)' /\ sess'[s] = sess[s]
          /\ Delivered(s)' = got[s] \o rest[s] \o ring[s]
          /\ (s \in Streamed => Stands(Delivered(s)', Whole', worker'.sent)) => StreamInv'
      BY <2>3, <3>1, RunStep
    <3> QED
      BY <3>2 DEF Delivered
  <2>5. /\ worker'.job = s /\ worker'.at = "emit" /\ worker'.hold = worker.hold /\ worker'.sent = 0
        /\ worker'.retain = worker.retain /\ worker'.last
    BY <1>1, <2>2 DEF Is
  <2>6. Until' = sess[s].total /\ Whole' = Whole
    BY <1>2, <1>3, <2>4, <2>5 DEF Until, Whole
  <2>7. HoldInv'
    BY <1>2, <1>3, <2>4, <2>5, <2>6 DEF HoldInv
  <2>8. StreamInv' /\ CtxInv'
    BY <1>5, <2>4, <2>5, <2>6 DEF CtxInv
  <2> QED
    BY <2>4, <2>7, <2>8 DEF SessionInv
<1>8. ASSUME NEW stop \in 0 .. Min({StopHold, n}),
             ctx' = [ctx EXCEPT ![s] = Append(@, <<"sampled", n>>)],
             sess' = [sess EXCEPT ![s] = [sess[s] EXCEPT !.total = n, !.stop = stop]],
             worker' = [worker EXCEPT !.at = "emit", !.retain = StopHold,
                                      !.hold = IF s \in Streamed THEN Append(@, n) ELSE @,
                                      !.last = stop > 0 \/ n = MaxTokens]
      PROVE  SessionInv'
  <2> DEFINE c == Append(ctx[s], <<"sampled", n>>)
             r == [sess[s] EXCEPT !.total = n, !.stop = stop]
             h == IF s \in Streamed THEN Append(worker.hold, n) ELSE worker.hold
             l == stop > 0 \/ n = MaxTokens
  <2>1. stop \in Nat /\ stop <= StopHold /\ stop <= n
    <3>1. Min({StopHold, n}) = IF StopHold <= n THEN StopHold ELSE n
      BY <1>3, MinOf
    <3> QED
      BY <1>3, <3>1
  <2>2. /\ r \in SessionRecords /\ r.state = sess[s].state /\ r.prompt = sess[s].prompt
        /\ r.total = n /\ r.stop = stop /\ sess' = [sess EXCEPT ![s] = r]
    <3>1. sess' = [sess EXCEPT ![s] = r]
      BY <1>8
    <3>3. r = [sess[s] EXCEPT !.total = n, !.stop = stop]
      OBVIOUS
    <3>2. stop \in 0 .. StopHold /\ n \in 0 .. MaxTokens /\ sess[s] \in SessionRecords
      BY <1>3, <2>1
    <3> HIDE DEF r, n
    <3>4. /\ r \in SessionRecords /\ r.state = sess[s].state /\ r.prompt = sess[s].prompt
          /\ r.total = n /\ r.stop = stop
      BY <3>2, <3>3 DEF SessionRecords
    <3> QED
      BY <3>1, <3>4
  <2>3. c \in Seq(Lines) /\ ctx' = [ctx EXCEPT ![s] = c]
    <3>1. <<"sampled", n>> \in Lines
      BY <1>3 DEF Lines
    <3> QED
      BY <1>1, <1>4, <1>8, <3>1, AppendProperties DEF TypeInv
  <2>4. Is(worker', "emit", h, 0, StopHold, l)
    <3>1. h \in Seq(Nat) /\ l \in BOOLEAN
      BY <1>3, AppendProperties
    <3>2. worker' = [worker EXCEPT !.at = "emit", !.retain = StopHold, !.hold = h, !.last = l]
      BY <1>1, <1>8 DEF TypeInv, WorkerRecords
    <3> HIDE DEF h, l
    <3> QED
      BY <1>1, <1>2, <3>1, <3>2 DEF Is, TypeInv, WorkerRecords, Spots
  <2>5. c = <<<<"prompt", sess[s].prompt>>>> \o [i \in 1 .. n |-> <<"sampled", i>>]
    <3> DEFINE p == <<"prompt", sess[s].prompt>>
    <3>1. Append(<<p>> \o [i \in 1 .. sess[s].total |-> <<"sampled", i>>], <<"sampled", sess[s].total + 1>>)
            = <<p>> \o [i \in 1 .. sess[s].total + 1 |-> <<"sampled", i>>]
      BY <1>3, ContextGrows
    <3> QED
      BY <1>4, <3>1 DEF ContextOf
  <2> HIDE DEF c, r
  <2>6. Stays(s, r, c, ring[s], worker')
    BY <1>1, <1>3, <1>4, <1>8, <2>2, <2>3, <2>4 DEF Stays, Is, Inside
  <2>7. /\ TypeInv' /\ OwnerInv' /\ FreshInv' /\ InRun(s)' /\ sess'[s] = r /\ ctx'[s] = c
        /\ Delivered(s)' = Delivered(s)
        /\ (s \in Streamed => Stands(Delivered(s)', Whole', worker'.sent)) => StreamInv'
    <3>1. TypeInv /\ OwnerInv /\ FreshInv /\ StreamInv
      BY DEF SessionInv
    <3>2. /\ TypeInv' /\ OwnerInv' /\ FreshInv' /\ InRun(s)' /\ sess'[s] = r /\ ctx'[s] = c
          /\ Delivered(s)' = got[s] \o rest[s] \o ring[s]
          /\ (s \in Streamed => Stands(Delivered(s)', Whole', worker'.sent)) => StreamInv'
      BY <2>6, <3>1, RunStep
    <3> QED
      BY <3>2 DEF Delivered
  <2>8. /\ worker'.job = s /\ worker'.at = "emit" /\ worker'.sent = 0 /\ worker'.hold = h
        /\ worker'.retain = StopHold /\ (worker'.last <=> l)
    BY <1>1, <2>4 DEF Is
  <2>9. Until' = n
    <3>1. CASE Flushing'
      <4>1. StopHold = 0 /\ stop = 0
        BY <1>3, <2>1, <2>8, <3>1 DEF Flushing
      <4> QED
        BY <1>3, <2>2, <2>7, <2>8, <4>1 DEF Until
    <3>2. CASE ~Flushing'
      BY <2>2, <2>7, <2>8, <3>2 DEF Until
    <3> QED
      BY <3>1, <3>2
  <2>10. s \in Streamed => /\ Len(h) = k + 1 /\ Whole' = Whole
                           /\ h = [i \in 1 .. Len(h) |-> Whole' + i]
    <3> SUFFICES ASSUME s \in Streamed
                 PROVE  /\ Len(h) = k + 1 /\ Whole' = Whole
                        /\ h = [i \in 1 .. Len(h) |-> Whole' + i]
      OBVIOUS
    <3>1. /\ h \in Seq(Nat) /\ Len(h) = k + 1 /\ h[k + 1] = n
          /\ \A i \in 1 .. k : h[i] = worker.hold[i]
      BY <1>3, AppendProperties
    <3>2. Whole' = Whole /\ Whole \in Nat /\ Whole + k + 1 = n
      <4>1. Whole' = n - (k + 1)
        BY <2>8, <2>9, <3>1 DEF Whole
      <4>2. Whole \in Nat /\ Whole + k = sess[s].total /\ k \in Nat /\ sess[s].total \in Nat
        BY <1>3
      <4> HIDE DEF k
      <4> QED
        BY <4>1, <4>2
    <3>3. \A i \in 1 .. k + 1 : h[i] = Whole + i
      <4> SUFFICES ASSUME NEW i \in 1 .. k + 1 PROVE h[i] = Whole + i
        OBVIOUS
      <4>1. CASE i = k + 1
        BY <1>3, <3>1, <3>2, <4>1
      <4>2. CASE i # k + 1
        <5>0. k \in Nat
          BY <1>3
        <5>1. i \in 1 .. k
          <6> HIDE DEF k
          <6> QED
            BY <4>2, <5>0
        <5> QED
          BY <1>2, <3>1, <5>1
      <4> QED
        BY <4>1, <4>2
    <3>4. h = [i \in 1 .. k + 1 |-> h[i]]
      BY <1>3, <3>1, LenProperties
    <3> HIDE DEF h
    <3> QED
      BY <3>1, <3>2, <3>3, <3>4
  <2>11. s \notin Streamed => Len(h) = 0
    BY <1>2
  <2> HIDE DEF h
  <2>12. HoldInv'
    <3>1. ~worker'.last => stop = 0 /\ n < MaxTokens
      BY <1>3, <2>1, <2>8
    <3>2. s \in Streamed => /\ Len(h) <= n /\ Len(h) <= StopHold + 1
                            /\ Len(h) >= StopHold \/ Len(h) = n
      <4>1. s \in Streamed => /\ k <= sess[s].total /\ k <= StopHold /\ Len(h) = k + 1
                              /\ k >= StopHold \/ k = sess[s].total
        <5>1. s \in Streamed => /\ k <= sess[s].total /\ k <= worker.retain
                                /\ k >= StopHold \/ k = sess[s].total
          BY <1>2, <1>3
        <5>2. worker.retain \in {0, StopHold} /\ StopHold \in Nat /\ k \in Nat
          BY <1>2, <1>3
        <5>3. s \in Streamed => Len(h) = k + 1
          BY <2>10
        <5> HIDE DEF k
        <5> QED
          BY <5>1, <5>2, <5>3
      <4>2. k \in Nat /\ sess[s].total \in Nat /\ StopHold \in Nat
        BY <1>3
      <4> HIDE DEF k
      <4> QED
        BY <4>1, <4>2
    <3> HIDE DEF l
    <3> QED
      BY <1>3, <2>1, <2>2, <2>7, <2>8, <2>9, <2>10, <2>11, <3>1, <3>2 DEF HoldInv
  <2>13. StreamInv'
    BY <1>5, <2>7, <2>8, <2>10
  <2>14. CtxInv'
    BY <2>2, <2>5, <2>7, <2>8 DEF CtxInv, ContextOf
  <2> QED
    BY <2>7, <2>12, <2>13, <2>14 DEF SessionInv
<1> QED
  BY <1>0, <1>6, <1>7, <1>8 DEF Sample

LEMMA EmitSafe ==
  ASSUME SessionParameters, SessionInv, Emit
  PROVE  SessionInv'
<1>0. PICK s \in Sessions : s = worker.job
  BY AtWork DEF Emit, SessionInv
<1> DEFINE hold == worker.hold
           k == Len(hold)
           m == Whole
           frags == Fragments(Head(hold))
           i == worker.sent + 1
<1>1. /\ worker.at = "emit" /\ worker.job = s /\ TypeInv /\ InRun(s) /\ k > worker.retain
      /\ UNCHANGED <<sess, ctx, rest, got, eos, reader, control, queue>>
  BY <1>0 DEF Emit, SessionInv, InRun
<1>2. /\ worker.sent \in {0, 1} /\ worker.retain \in Nat /\ StopHold \in Nat
      /\ worker.retain \in {0, StopHold} /\ worker.last \in BOOLEAN
      /\ hold \in Seq(Nat) /\ k \in Nat /\ hold # << >> /\ k # 0
  <2>1. /\ worker.sent \in {0, 1} /\ worker.retain \in Nat /\ StopHold \in Nat
        /\ worker.retain \in {0, StopHold} /\ worker.last \in BOOLEAN
        /\ hold \in Seq(Nat) /\ k \in Nat
    BY <1>1, WorkerFacts
  <2>2. k # 0
    BY <1>1, <2>1
  <2> QED
    BY <2>1, <2>2, EmptySeq
<1>3. s \in Streamed
  BY <1>1, <1>2 DEF SessionInv, HoldInv
<1>4. /\ sess[s].stop <= sess[s].total
      /\ ~worker.last => sess[s].stop = 0 /\ sess[s].total < MaxTokens
      /\ ~worker.last => worker.retain = IF sess[s].total = 0 THEN 0 ELSE StopHold
      /\ k <= Until /\ k <= StopHold + 1
      /\ hold = [j \in 1 .. k |-> m + j]
      /\ Flushing \/ k >= StopHold \/ k = sess[s].total
      /\ worker.sent = 1 => m + 1 \in WideTokens
  BY <1>1, <1>3 DEF SessionInv, HoldInv
<1>5. /\ sess[s] \in SessionRecords /\ sess[s].total \in Nat /\ sess[s].stop \in Nat /\ MaxTokens \in Nat
      /\ Until \in Nat /\ (~Flushing => Until = sess[s].total)
      /\ m \in Nat /\ m + k = Until
  BY <1>1, <1>3, RunNumbers DEF SessionInv
<1>6. Head(hold) = m + 1
  <2>1. 1 \in 1 .. k /\ Head(hold) = hold[1]
    BY <1>2
  <2>2. hold[1] = m + 1
    BY <1>4, <2>1
  <2> QED
    BY <2>1, <2>2
<1>7. Stands(Delivered(s), m, worker.sent)
  BY <1>1, <1>3 DEF SessionInv, StreamInv
<1>8. CASE ~HasRoom(s) /\ worker' = [worker EXCEPT !.at = "blocked"] /\ UNCHANGED ring
  <2>1. Is(worker', "blocked", worker.hold, worker.sent, worker.retain, worker.last)
    BY <1>1, <1>8, GoneOn DEF Spots
  <2> QED
    BY <1>1, <1>8, <2>1, MoveSafe DEF Is, Inside, streamVars
<1>9. CASE End("failed") /\ UNCHANGED ring
  <2>1. Is(worker', "end", worker.hold, worker.sent, worker.retain, worker.last)
        /\ worker'.final = "failed"
    BY <1>1, <1>9, Ended DEF End, Finals
  <2> QED
    BY <1>1, <1>9, <2>1, MoveSafe DEF Is, Inside, streamVars
<1>10. CASE /\ HasRoom(s)
            /\ ring' = [ring EXCEPT ![s] = Append(@, frags[i])]
            /\ worker' = IF i = Len(frags) THEN [worker EXCEPT !.sent = 0, !.hold = Tail(@)]
                                           ELSE [worker EXCEPT !.sent = i]
  <2> DEFINE e == Fragments(m + 1)[i]
             x == Append(ring[s], e)
             h == IF i = Len(frags) THEN Tail(hold) ELSE hold
             st == IF i = Len(frags) THEN 0 ELSE 1
  <2>1. /\ Len(frags) = IF m + 1 \in WideTokens THEN 2 ELSE 1
        /\ frags = Fragments(m + 1) /\ e \in Entries
        /\ i # Len(frags) => i = 1 /\ m + 1 \in WideTokens
    <3>1. /\ Len(Fragments(m + 1)) = IF m + 1 \in WideTokens THEN 2 ELSE 1
          /\ Fragments(m + 1)[1] \in Entries
          /\ m + 1 \in WideTokens => Fragments(m + 1)[2] \in Entries
      <4>1. m \in Nat
        BY <1>5
      <4> HIDE DEF m
      <4>2. m + 1 \in Nat
        BY <4>1
      <4> QED
        BY <4>2, FragmentsType
    <3>0. frags = Fragments(m + 1)
      BY <1>6
    <3> HIDE DEF m, frags
    <3>2. CASE worker.sent = 0
      <4>1. i = 1 /\ e = Fragments(m + 1)[1]
        BY <3>2
      <4> QED
        BY <3>0, <3>1, <4>1
    <3>3. CASE worker.sent = 1
      <4>1. i = 2 /\ e = Fragments(m + 1)[2] /\ m + 1 \in WideTokens
        BY <1>4, <3>3 DEF m
      <4> QED
        BY <3>0, <3>1, <4>1
    <3> QED
      BY <1>2, <3>2, <3>3
  <2>2. x \in Seq(Entries) /\ Len(x) <= RingCapacity /\ ring' = [ring EXCEPT ![s] = x]
        /\ ring[s] \in Seq(Entries) /\ got[s] \in Seq(Entries) /\ rest[s] \in Seq(Entries)
    <3>1. ring[s] \in Seq(Entries) /\ got[s] \in Seq(Entries) /\ rest[s] \in Seq(Entries)
      BY <1>1 DEF TypeInv
    <3>2. ring' = [ring EXCEPT ![s] = x]
      BY <1>10, <2>1
    <3>3. Len(ring[s]) \in Nat /\ Len(ring[s]) < RingCapacity /\ RingCapacity \in Nat
      BY <1>10, <3>1, LenProperties, CountAssumption DEF HasRoom
    <3>4. x \in Seq(Entries) /\ Len(x) = Len(ring[s]) + 1
      BY <2>1, <3>1, AppendProperties
    <3> HIDE DEF x
    <3> QED
      BY <3>1, <3>2, <3>3, <3>4
  <2>3. h \in Seq(Nat) /\ Len(h) = (IF i = Len(frags) THEN k - 1 ELSE k)
        /\ h = [j \in 1 .. Len(h) |-> (IF i = Len(frags) THEN m + 1 ELSE m) + j]
    <3>1. CASE i = Len(frags)
      <4>1. h \in Seq(Nat) /\ Len(h) = k - 1 /\ \A j \in 1 .. k - 1 : h[j] = hold[j + 1]
        BY <1>2, <3>1, HeadTailProperties
      <4>2. \A j \in 1 .. k - 1 : h[j] = m + 1 + j
        <5> SUFFICES ASSUME NEW j \in 1 .. k - 1 PROVE h[j] = m + 1 + j
          OBVIOUS
        <5>1. j + 1 \in 1 .. k
          <6>1. k \in Nat
            BY <1>2
          <6> HIDE DEF k
          <6> QED
            BY <6>1
        <5>2. hold[j + 1] = m + (j + 1)
          BY <1>4, <5>1
        <5>3. m + (j + 1) = m + 1 + j
          <6>1. m \in Nat /\ j \in Int
            BY <1>5
          <6> HIDE DEF m
          <6> QED
            BY <6>1
        <5> QED
          BY <4>1, <5>2, <5>3
      <4>3. h = [j \in 1 .. k - 1 |-> h[j]]
        BY <4>1, LenProperties
      <4> HIDE DEF h, m
      <4> QED
        BY <3>1, <4>1, <4>2, <4>3
    <3>2. CASE i # Len(frags)
      BY <1>2, <1>4, <3>2
    <3> QED
      BY <3>1, <3>2
  <2>4. Is(worker', "emit", h, st, worker.retain, worker.last)
    <3>1. worker' = [worker EXCEPT !.sent = st, !.hold = h] /\ st \in {0, 1}
      BY <1>1, <1>2, <1>10, <2>1 DEF TypeInv, WorkerRecords
    <3> HIDE DEF h, st
    <3> QED
      BY <1>1, <2>3, <3>1 DEF Is, TypeInv, WorkerRecords
  <2> HIDE DEF x
  <2>5. Stays(s, sess[s], ctx[s], x, worker')
    <3>1. /\ sess' = [sess EXCEPT ![s] = sess[s]] /\ ctx' = [ctx EXCEPT ![s] = ctx[s]]
          /\ ctx[s] \in Seq(Lines) /\ sess[s] \in SessionRecords
      BY <1>1 DEF TypeInv
    <3> QED
      BY <1>1, <2>2, <2>4, <3>1 DEF Stays, Is, Inside
  <2>6. /\ TypeInv' /\ OwnerInv' /\ FreshInv' /\ InRun(s)' /\ sess'[s] = sess[s] /\ ctx'[s] = ctx[s]
        /\ Delivered(s)' = got[s] \o rest[s] \o x
        /\ Stands(Delivered(s)', Whole', worker'.sent) => StreamInv'
    <3>1. TypeInv /\ OwnerInv /\ FreshInv /\ StreamInv
      BY DEF SessionInv
    <3> QED
      BY <1>3, <2>5, <3>1, RunStep
  <2>7. /\ worker'.job = s /\ worker'.at = "emit" /\ worker'.sent = st /\ worker'.hold = h
        /\ worker'.retain = worker.retain /\ (worker'.last <=> worker.last)
    BY <1>1, <2>4 DEF Is
  <2>8. /\ Until' = Until /\ (Flushing' <=> Flushing)
        /\ Whole' = IF i = Len(frags) THEN m + 1 ELSE m
    <3>1. Until' = Until /\ (Flushing' <=> Flushing)
      BY <1>1, <2>6, <2>7 DEF Until, Flushing
    <3>2. Whole' = Until - Len(h)
      BY <2>7, <3>1 DEF Whole
    <3>3. Until \in Nat /\ m \in Nat /\ k \in Nat /\ m + k = Until
      BY <1>2, <1>5
    <3> HIDE DEF h, k, m, i
    <3> QED
      BY <2>3, <3>1, <3>2, <3>3
  <2>9. Delivered(s)' = Append(Delivered(s), e)
    <3>1. e \in Entries /\ ring[s] \in Seq(Entries) /\ got[s] \in Seq(Entries) /\ rest[s] \in Seq(Entries)
      BY <2>1, <2>2
    <3>2. x = Append(ring[s], e)
      BY DEF x
    <3> HIDE DEF e
    <3>3. Grows(got[s], rest[s], ring[s], e)
      BY <3>1, AppendLast
    <3> QED
      BY <2>6, <3>2, <3>3 DEF Delivered, Grows
  <2>10. IF i = Len(frags) THEN Stands(Delivered(s)', m + 1, 0) ELSE Stands(Delivered(s)', m, 1)
    <3>1. Delivered(s) \in Seq(Entries)
      BY <1>1, DeliveredType
    <3>2. /\ m \in Nat /\ worker.sent \in {0, 1} /\ Stands(Delivered(s), m, worker.sent)
          /\ worker.sent = 1 => m + 1 \in WideTokens
      BY <1>2, <1>4, <1>5, <1>7
    <3> HIDE DEF m
    <3>3. LET z == Append(Delivered(s), Fragments(m + 1)[worker.sent + 1])
          IN IF worker.sent + 1 = Len(Fragments(m + 1)) THEN Stands(z, m + 1, 0)
             ELSE worker.sent + 1 = 1 /\ Stands(z, m, 1)
      BY <3>1, <3>2, StandsAppend
    <3> QED
      BY <2>1, <2>9, <3>3
  <2>11. StreamInv'
    BY <2>6, <2>7, <2>8, <2>10
  <2>12. HoldInv'
    <3>1. st = 1 => m + 1 \in WideTokens /\ i # Len(frags) /\ k > worker.retain
      BY <1>1, <2>1
    <3>2. Len(h) <= Until' /\ Len(h) <= StopHold + 1 /\ (st = 1 => Len(h) = k)
      <4>1. k \in Nat /\ StopHold \in Nat /\ Until \in Nat /\ k <= Until /\ k <= StopHold + 1
        BY <1>2, <1>4, <1>5
      <4> HIDE DEF h, k, i
      <4> QED
        BY <2>3, <2>8, <4>1
    <3>3. Flushing' \/ Len(h) >= StopHold \/ Len(h) = sess[s].total
      <4>1. CASE Flushing \/ i # Len(frags)
        BY <1>4, <2>3, <2>8, <4>1
      <4>2. CASE ~Flushing /\ i = Len(frags)
        <5>1. worker.retain = StopHold
          <6>1. CASE worker.last
            BY <1>2, <4>2, <6>1 DEF Flushing
          <6>2. CASE ~worker.last
            <7>1. sess[s].total # 0
              BY <1>2, <1>4, <1>5, <4>2
            <7> QED
              BY <1>4, <6>2, <7>1
          <6> QED
            BY <6>1, <6>2
        <5>2. k \in Nat /\ StopHold \in Nat /\ k > StopHold /\ Len(h) = k - 1
          BY <1>1, <1>2, <2>3, <4>2, <5>1
        <5> HIDE DEF h, k
        <5> QED
          BY <5>2
      <4> QED
        BY <4>1, <4>2
    <3>4. h = [j \in 1 .. Len(h) |-> Whole' + j]
      BY <2>3, <2>8
    <3>5. st = 1 => Whole' = m
      BY <2>8, <3>1
    <3> HIDE DEF h, st, m, k, i
    <3> QED
      BY <1>3, <1>4, <2>6, <2>7, <3>1, <3>2, <3>3, <3>4, <3>5 DEF HoldInv
  <2>13. CtxInv'
    BY <1>1, <2>6, <2>7 DEF SessionInv, CtxInv, ContextOf
  <2> QED
    BY <2>6, <2>11, <2>12, <2>13 DEF SessionInv
<1> QED
  BY <1>0, <1>8, <1>9, <1>10 DEF Emit

LEMMA EmittedSafe ==
  ASSUME SessionParameters, SessionInv, Emitted
  PROVE  SessionInv'
<1>0. PICK s \in Sessions : s = worker.job
  BY AtWork DEF Emitted, SessionInv
<1> DEFINE hold == worker.hold
           k == Len(hold)
           total == sess[s].total
           stop == sess[s].stop
<1>1. /\ worker.at = "emit" /\ worker.job = s /\ TypeInv /\ InRun(s) /\ k <= worker.retain
      /\ UNCHANGED <<sess, ctx, ring, rest, got, eos, reader, control, queue>>
  BY <1>0 DEF Emitted, SessionInv, InRun, streamVars
<1>2. /\ worker.sent \in {0, 1} /\ worker.retain \in Nat /\ StopHold \in Nat
      /\ worker.retain \in {0, StopHold} /\ worker.last \in BOOLEAN
      /\ hold \in Seq(Nat) /\ k \in Nat
  BY <1>1, WorkerFacts
<1>3. worker.sent = 0
  <2>1. s \notin Streamed => worker.sent = 0
    BY <1>1 DEF SessionInv, HoldInv
  <2>2. s \in Streamed /\ worker.sent = 1 => k > worker.retain
    BY <1>1 DEF SessionInv, HoldInv
  <2> HIDE DEF k
  <2> QED
    BY <1>1, <1>2, <2>1, <2>2
<1>4. CASE ~worker.last /\ worker' = [worker EXCEPT !.at = "check"]
  <2>1. Is(worker', "check", worker.hold, worker.sent, worker.retain, worker.last)
    BY <1>1, <1>4, GoneOn DEF Spots
  <2> QED
    BY <1>1, <1>3, <1>4, <2>1, MoveSafe DEF Is, Inside, streamVars
<1>5. CASE worker.last /\ ~(worker.retain > 0) /\ End("completed")
  <2>1. Is(worker', "end", worker.hold, worker.sent, worker.retain, worker.last)
        /\ worker'.final = "completed"
    BY <1>1, <1>5, Ended DEF End, Finals
  <2>2. worker.retain = 0 /\ Len(worker.hold) = 0
    BY <1>1, <1>2, <1>5
  <2> QED
    BY <1>1, <1>5, <2>1, <2>2, MoveSafe DEF Is, Inside, streamVars
<1>6. CASE worker.last /\ worker.retain > 0
           /\ worker' = [worker EXCEPT !.retain = 0, !.hold = LastHold]
  <2>1. /\ total \in Nat /\ stop \in Nat /\ stop <= total /\ stop <= StopHold
        /\ Until = total /\ ~Flushing
        /\ s \in Streamed => Whole \in Nat /\ Whole + k = total
    <3>1. ~Flushing
      BY <1>2, <1>6 DEF Flushing
    <3> QED
      BY <1>1, <3>1, RunNumbers DEF SessionInv
  <2>2. s \notin Streamed => k = 0
    BY <1>1 DEF SessionInv, HoldInv
  <2>3. s \in Streamed => /\ k <= total /\ k <= StopHold + 1
                          /\ hold = [i \in 1 .. k |-> Whole + i]
                          /\ k >= StopHold \/ k = total
    BY <1>1, <2>1 DEF SessionInv, HoldInv
  <2> DEFINE d == IF s \in Streamed THEN stop ELSE 0
             h == SubSeq(hold, 1, k - d)
  <2>4. d \in Nat /\ d <= k /\ k - d \in 0 .. k /\ LastHold = h
    <3>1. Min({stop, k}) = IF stop <= k THEN stop ELSE k
      BY <1>2, <2>1, MinOf
    <3>2. Min({stop, k}) = d /\ d \in Nat /\ d <= k
      <4>1. s \in Streamed => stop <= k
        BY <1>2, <2>1, <2>3
      <4> HIDE DEF k, stop
      <4> QED
        BY <1>2, <2>1, <2>2, <3>1, <4>1
    <3>3. LastHold = SubSeq(hold, 1, k - Min({stop, k}))
      BY <1>1 DEF LastHold
    <3>4. k - d \in 0 .. k
      <4>1. k \in Nat
        BY <1>2
      <4> HIDE DEF k, d
      <4> QED
        BY <3>2, <4>1
    <3> QED
      BY <3>2, <3>3, <3>4
  <2>5. h \in Seq(Nat) /\ Len(h) = k - d /\ \A i \in 1 .. k - d : h[i] = hold[i]
    <3> DEFINE z == k - d
    <3>1. hold \in Seq(Nat) /\ z \in 0 .. k /\ k = Len(hold) /\ h = SubSeq(hold, 1, z)
      BY <1>2, <2>4
    <3> HIDE DEF hold, k, z, h
    <3>2. h \in Seq(Nat) /\ Len(h) = z /\ \A i \in 1 .. z : h[i] = hold[i]
      BY <3>1, LenProperties
    <3> QED
      BY <3>2 DEF z
  <2>6. Is(worker', "emit", h, 0, 0, TRUE)
    <3>1. worker' = [worker EXCEPT !.retain = 0, !.hold = h]
      BY <1>6, <2>4
    <3>2. worker.last = TRUE /\ worker.at = "emit" /\ worker.sent = 0
      BY <1>1, <1>2, <1>3, <1>6
    <3> HIDE DEF h
    <3> QED
      BY <1>1, <2>5, <3>1, <3>2 DEF Is, TypeInv, WorkerRecords
  <2>7. Stays(s, sess[s], ctx[s], ring[s], worker')
    <3>1. /\ sess' = [sess EXCEPT ![s] = sess[s]] /\ ctx' = [ctx EXCEPT ![s] = ctx[s]]
          /\ ring' = [ring EXCEPT ![s] = ring[s]]
          /\ ctx[s] \in Seq(Lines) /\ sess[s] \in SessionRecords /\ ring[s] \in Seq(Entries)
          /\ Len(ring[s]) <= RingCapacity
      BY <1>1 DEF TypeInv
    <3> QED
      BY <1>1, <2>6, <3>1 DEF Stays, Is, Inside
  <2>8. /\ TypeInv' /\ OwnerInv' /\ FreshInv' /\ InRun(s)' /\ sess'[s] = sess[s]
        /\ Delivered(s)' = Delivered(s)
        /\ (s \in Streamed => Stands(Delivered(s)', Whole', worker'.sent)) => StreamInv'
    <3>1. TypeInv /\ OwnerInv /\ FreshInv /\ StreamInv
      BY DEF SessionInv
    <3>2. /\ TypeInv' /\ OwnerInv' /\ FreshInv' /\ InRun(s)' /\ sess'[s] = sess[s]
          /\ Delivered(s)' = got[s] \o rest[s] \o ring[s]
          /\ (s \in Streamed => Stands(Delivered(s)', Whole', worker'.sent)) => StreamInv'
      BY <2>7, <3>1, RunStep
    <3> QED
      BY <3>2 DEF Delivered
  <2>9. /\ worker'.job = s /\ worker'.at = "emit" /\ worker'.sent = 0 /\ worker'.hold = h
        /\ worker'.retain = 0 /\ worker'.last
    BY <1>1, <2>6 DEF Is
  <2>10. Flushing' /\ Until' = total - stop
    BY <2>8, <2>9 DEF Flushing, Until
  <2>11. s \in Streamed => Whole' = Whole
    <3> SUFFICES ASSUME s \in Streamed PROVE Whole' = Whole
      OBVIOUS
    <3>1. Whole' = (total - stop) - (k - stop)
      BY <2>5, <2>9, <2>10 DEF Whole
    <3>2. Whole \in Nat /\ Whole + k = total /\ k \in Nat /\ total \in Nat /\ stop \in Nat
      BY <1>2, <2>1
    <3> HIDE DEF k, total, stop
    <3> QED
      BY <3>1, <3>2
  <2>12. HoldInv'
    <3>1. s \notin Streamed => Len(h) = 0
      BY <2>2, <2>5
    <3>2. s \in Streamed => Len(h) <= total - stop /\ Len(h) <= StopHold + 1
      <4>1. s \in Streamed => Len(h) = k - stop /\ k <= total /\ k <= StopHold + 1
        BY <2>3, <2>5
      <4> HIDE DEF k, total, stop, h
      <4> QED
        BY <1>2, <2>1, <4>1
    <3>3. s \in Streamed => h = [i \in 1 .. Len(h) |-> Whole' + i]
      <4> SUFFICES ASSUME s \in Streamed PROVE h = [i \in 1 .. Len(h) |-> Whole + i]
        BY <2>11
      <4>1. \A i \in 1 .. k - d : i \in 1 .. k
        <5>1. k \in Nat /\ d \in Nat
          BY <1>2, <2>4
        <5> HIDE DEF k, d
        <5> QED
          BY <5>1
      <4>2. \A i \in 1 .. k - d : h[i] = Whole + i
        BY <2>3, <2>5, <4>1
      <4>3. h = [i \in 1 .. Len(h) |-> h[i]]
        BY <2>5, LenProperties
      <4> HIDE DEF h
      <4> QED
        BY <2>5, <4>2, <4>3
    <3> HIDE DEF h
    <3> QED
      BY <2>1, <2>8, <2>9, <2>10, <3>1, <3>2, <3>3 DEF HoldInv
  <2>13. StreamInv'
    <3>1. s \in Streamed => Stands(Delivered(s), Whole, 0)
      BY <1>1, <1>3 DEF SessionInv, StreamInv
    <3> QED
      BY <2>8, <2>9, <2>11, <3>1
  <2>14. CtxInv'
    BY <2>9 DEF CtxInv
  <2> QED
    BY <2>8, <2>12, <2>13, <2>14 DEF SessionInv
<1> QED
  BY <1>1, <1>4, <1>5, <1>6 DEF Emitted

LEMMA FinishSafe ==
  ASSUME SessionParameters, SessionInv, Finish
  PROVE  SessionInv'
<1>0. PICK s \in Sessions : s = worker.job
  BY AtWork DEF Finish, SessionInv
<1> DEFINE k == Len(worker.hold)
           total == sess[s].total
           stop == sess[s].stop
           r == [sess[s] EXCEPT !.state = worker.final]
<1>1. /\ worker.at = "end" /\ worker.job = s /\ TypeInv /\ InRun(s) /\ worker' = Idle
      /\ sess' = [sess EXCEPT ![s] = r]
      /\ UNCHANGED <<ctx, ring, rest, got, eos, reader, control, queue>>
  BY <1>0 DEF Finish, SessionInv, InRun, streamVars, ToState
<1>2. /\ worker.sent \in {0, 1} /\ worker.retain \in {0, StopHold} /\ StopHold \in Nat /\ k \in Nat
      /\ worker.final \in Finals /\ worker.last \in BOOLEAN
  BY <1>1, WorkerFacts
<1>3. r \in SessionRecords /\ r.state = worker.final /\ r.total = total /\ r.stop = stop
  <2>1. sess[s] \in SessionRecords /\ worker.final \in States
    BY <1>1, <1>2 DEF TypeInv, States
  <2>2. r = [sess[s] EXCEPT !.state = worker.final]
    OBVIOUS
  <2> HIDE DEF r
  <2> QED
    BY <2>1, <2>2, StateSet DEF Moved
<1> HIDE DEF r
<1>4. /\ sess' \in [Sessions -> SessionRecords] /\ sess'[s] = r
      /\ \A t \in Sessions : t # s => sess'[t] = sess[t]
  BY <1>1, <1>3, SessUpdate
<1>5. Idle \in WorkerRecords /\ Idle.at = "idle" /\ Idle.job = NoSession
  BY CountAssumption, EmptySeq DEF Idle, WorkerRecords, Spots, Finals
<1>6. TypeInv'
  BY <1>1, <1>4, <1>5 DEF TypeInv
<1>7. /\ ~Decoding(s)' /\ sess'[s].state \in Finals
      /\ \A t \in Sessions : t # s => (Decoding(t)' <=> Decoding(t))
  BY <1>2, <1>3, <1>4 DEF Decoding, Finals
<1>8. OwnerInv'
  <2>1. s # NoSession /\ \A i \in DOMAIN queue : queue[i] # s /\ queue[i] \in Sessions
    BY <1>1 DEF SessionInv, OwnerInv, SessionParameters, TypeInv
  <2>2. /\ worker'.at = "idle" /\ worker'.job = NoSession /\ queue' = queue /\ control' = control
        /\ worker.job = s
    BY <1>1, <1>5
  <2>3. \A i \in DOMAIN queue : sess'[queue[i]].state = "decoding" /\ queue[i] # NoSession
    BY <1>7, <2>1 DEF SessionInv, OwnerInv, Decoding, SessionParameters
  <2>4. \A t \in Sessions : control[t] = "submit" =>
          Decoding(t)' /\ t # NoSession /\ \A i \in DOMAIN queue : queue[i] # t
    BY <1>7, <2>2 DEF SessionInv, OwnerInv, SessionParameters
  <2>5. \A t \in Sessions : Decoding(t)' =>
          control[t] = "submit" \/ t = NoSession \/ \E i \in DOMAIN queue : queue[i] = t
    BY <1>7, <2>2 DEF SessionInv, OwnerInv
  <2>6. \A i, j \in DOMAIN queue : queue[i] = queue[j] => i = j
    BY DEF SessionInv, OwnerInv
  <2> QED
    BY <2>2, <2>3, <2>4, <2>5, <2>6 DEF OwnerInv, Decoding
<1>9. \A t \in Sessions : ~InRun(t)' /\ (t # s => ~InRun(t)) /\ Delivered(t)' = Delivered(t)
  BY <1>1, <1>5 DEF InRun, Delivered
<1>10. FreshInv'
  <2>1. \A t \in Sessions :
          sess'[t].state \in {"idle", "feeding"} \/ (Decoding(t)' /\ ~InRun(t)') =>
            /\ sess'[t].total = 0 /\ sess'[t].stop = 0
            /\ ctx[t] \in {<< >>, NoContext}
            /\ ring[t] = << >> /\ rest[t] = << >> /\ got[t] = << >>
    BY <1>4, <1>7, <1>9 DEF SessionInv, FreshInv, Finals
  <2>2. Idle = [Idle EXCEPT !.at = Idle.at, !.job = Idle.job]
    BY DEF Idle
  <2> QED
    BY <1>1, <2>1, <2>2 DEF FreshInv
<1>11. HoldInv' /\ CtxInv'
  BY <1>1, <1>5, <1>9 DEF HoldInv, CtxInv, InRun
<1>12. s \in Streamed => Faithful(s)'
  <2> SUFFICES ASSUME s \in Streamed PROVE Faithful(s)'
    OBVIOUS
  <2>1. /\ total \in Nat /\ stop \in Nat /\ stop <= total /\ stop <= StopHold
        /\ Until \in Nat /\ Whole \in Nat /\ Whole + k = Until
        /\ (Flushing => Until = total - stop) /\ (~Flushing => Until = total)
    BY <1>1, RunNumbers DEF SessionInv
  <2>2. /\ ~worker.last => stop = 0
        /\ Flushing \/ k >= StopHold \/ k = total
        /\ worker.sent = 1 => k > worker.retain
        /\ worker.final = "completed" => Flushing /\ k = 0
    BY <1>1 DEF SessionInv, HoldInv
  <2>3. Stands(Delivered(s), Whole, worker.sent)
    BY <1>1 DEF SessionInv, StreamInv
  <2>4. Whole + worker.sent <= total - stop
    BY <1>1, Ahead DEF SessionInv
  <2>5. total - stop \in Nat
    BY <2>1
  <2>6. Delivered(s) \in Seq(Entries)
    BY <1>1, DeliveredType
  <2>7. InOrder(Delivered(s)) /\ Within(Delivered(s), total - stop)
    <3> DEFINE n == total - stop
               m == Whole
    <3>1. n \in Nat /\ m \in Nat /\ m + worker.sent <= n /\ Stands(Delivered(s), m, worker.sent)
      BY <2>1, <2>3, <2>4, <2>5
    <3> HIDE DEF n, m
    <3>2. InOrder(Delivered(s)) /\ Within(Delivered(s), n)
      BY <1>2, <2>6, <3>1, StandsFaithful
    <3> QED
      BY <3>2 DEF n
  <2>8. worker.final = "completed" => EndsWith(Delivered(s), total - stop)
    <3> SUFFICES ASSUME worker.final = "completed"
                 PROVE  EndsWith(Delivered(s), total - stop)
      OBVIOUS
    <3>1. Flushing /\ k = 0 /\ worker.retain = 0
      BY <2>2 DEF Flushing
    <3>2. worker.sent = 0
      BY <1>2, <2>2, <3>1
    <3>3. Whole = total - stop
      BY <2>1, <3>1
    <3> QED
      BY <2>3, <3>2, <3>3 DEF Stands
  <2> QED
    BY <1>3, <1>4, <1>9, <2>1, <2>7, <2>8 DEF Faithful
<1>13. StreamInv'
  <2>1. \A t \in Streamed : t # s => Faithful(t)
    BY <1>9, StreamAssumption DEF SessionInv, StreamInv
  <2>2. \A t \in Streamed : t # s => Faithful(t)'
    BY <1>4, <1>9, <2>1, StreamAssumption DEF Faithful
  <2> QED
    BY <1>9, <1>12, <2>2, StreamAssumption DEF StreamInv
<1> QED
  BY <1>6, <1>8, <1>10, <1>11, <1>13 DEF SessionInv

-----------------------------------------------------------------------------
(* Reads and control calls *)

LEMMA Nothing ==
  ASSUME NEW S, NEW x \in Seq(S), NEW y \in Seq(S), NEW z \in Seq(S)
  PROVE  x \o y \o z = << >> <=> x = << >> /\ y = << >> /\ z = << >>
<1>1. x \o y \in Seq(S) /\ Len(x \o y) = Len(x) + Len(y)
  BY ConcatProperties
<1>2. Len((x \o y) \o z) = Len(x) + Len(y) + Len(z) /\ (x \o y) \o z \in Seq(S)
  BY <1>1, ConcatProperties
<1>3. Len(x) \in Nat /\ Len(y) \in Nat /\ Len(z) \in Nat
  BY LenProperties
<1>4. (x = << >> <=> Len(x) = 0) /\ (y = << >> <=> Len(y) = 0) /\ (z = << >> <=> Len(z) = 0)
  BY EmptySeq
<1>5. (x \o y) \o z = << >> <=> Len((x \o y) \o z) = 0
  BY <1>2, EmptySeq
<1> QED
  BY <1>2, <1>3, <1>4, <1>5

\* nothing came out of the run, wherever that might be
LEMMA NothingOut ==
  ASSUME TypeInv, NEW s \in Sessions
  PROVE  Delivered(s) = << >> <=> ring[s] = << >> /\ rest[s] = << >> /\ got[s] = << >>
<1> DEFINE x == got[s]
           y == rest[s]
           z == ring[s]
<1>1. x \in Seq(Entries) /\ y \in Seq(Entries) /\ z \in Seq(Entries)
  BY DEF TypeInv
<1> HIDE DEF x, y, z
<1>2. x \o y \o z = << >> <=> x = << >> /\ y = << >> /\ z = << >>
  BY <1>1, Nothing
<1> QED
  BY <1>2 DEF Delivered, x, y, z

LEMMA ReadSafe ==
  ASSUME SessionParameters, SessionInv, NEW s \in Streamed, StreamRead(s)
  PROVE  SessionInv'
<1>1. UNCHANGED <<sess, ctx, control, queue, worker>>
  BY DEF StreamRead
<1>2. TypeInv /\ TypeInv' /\ \A t \in Sessions : Delivered(t)' = Delivered(t)
  BY ReadType DEF SessionInv
<1>3. OwnerInv' /\ CtxInv' /\ HoldInv'
  <2>1. OwnerInv'
    BY <1>1 DEF SessionInv, OwnerInv, Decoding
  <2>2. CtxInv'
    BY <1>1 DEF SessionInv, CtxInv, ContextOf
  <2>3. Until' = Until /\ Whole' = Whole /\ (Flushing' <=> Flushing)
    BY <1>1 DEF Flushing, Until, Whole
  <2>4. HoldInv'
    BY <1>1, <2>3 DEF SessionInv, HoldInv, InRun
  <2> QED
    BY <2>1, <2>2, <2>4
<1>4. \A t \in Sessions :
        ring[t] = << >> /\ rest[t] = << >> /\ got[t] = << >> =>
          ring'[t] = << >> /\ rest'[t] = << >> /\ got'[t] = << >>
  <2> SUFFICES ASSUME NEW t \in Sessions, ring[t] = << >>, rest[t] = << >>, got[t] = << >>
               PROVE  ring'[t] = << >> /\ rest'[t] = << >> /\ got'[t] = << >>
    OBVIOUS
  <2>1. Delivered(t)' = << >>
    BY <1>2, NothingOut
  <2> DEFINE x == got'[t]
             y == rest'[t]
             z == ring'[t]
  <2>2. x \in Seq(Entries) /\ y \in Seq(Entries) /\ z \in Seq(Entries)
    BY <1>2 DEF TypeInv
  <2>3. x \o y \o z = << >>
    BY <2>1 DEF Delivered
  <2> HIDE DEF x, y, z
  <2>4. x = << >> /\ y = << >> /\ z = << >>
    BY <2>2, <2>3, Nothing
  <2> QED
    BY <2>4 DEF x, y, z
<1>5. FreshInv'
  BY <1>1, <1>4 DEF SessionInv, FreshInv, Decoding, InRun
<1>6. StreamInv'
  BY <1>1, <1>2, StreamAssumption DEF SessionInv, StreamInv, InRun, Whole, Until, Flushing, Faithful
<1> QED
  BY <1>2, <1>3, <1>5, <1>6 DEF SessionInv

LEMMA ControlSafe ==
  ASSUME SessionParameters, SessionInv, NEW s \in Sessions, Control(s)
  PROVE  SessionInv'
<1>0. PICK r \in SessionRecords, l \in {"out", "submit", "destroying", "freed"} :
        /\ sess' = [sess EXCEPT ![s] = r] /\ control' = [control EXCEPT ![s] = l]
        /\ UNCHANGED <<reader, worker>>
        /\ Moves(s, r, l) \/ Empties(s, r, l)
  BY ControlStep DEF SessionInv
<1>1. TypeInv /\ TypeInv'
  BY ControlType DEF SessionInv
<1>2. /\ sess'[s] = r /\ (\A t \in Sessions : t # s => sess'[t] = sess[t])
      /\ control'[s] = l /\ (\A t \in Sessions : t # s => control'[t] = control[t])
      /\ worker' = worker
  BY <1>0, <1>1, SessUpdate DEF TypeInv
<1>3. /\ s \in Sessions /\ s # NoSession /\ queue \in Seq(Sessions) /\ Len(queue) \in Nat
      /\ DOMAIN queue = 1 .. Len(queue) /\ \A i \in DOMAIN queue : queue[i] \in Sessions
      /\ worker.job \in Sessions \cup {NoSession}
  <2>1. worker.job \in Sessions \cup {NoSession}
    BY <1>1, WorkerFacts
  <2> QED
    BY <1>1, <2>1, LenProperties DEF SessionParameters, TypeInv
<1>4. \A t \in Sessions : (InRun(t)' <=> InRun(t))
                          /\ (t # s => (Decoding(t)' <=> Decoding(t)))
  BY <1>2 DEF InRun, Decoding
<1>5. ~Decoding(s) => s # worker.job /\ \A i \in DOMAIN queue : queue[i] # s
  BY <1>3 DEF SessionInv, OwnerInv
<1>6. control[s] = "submit" =>
        Decoding(s) /\ s # worker.job /\ \A i \in DOMAIN queue : queue[i] # s
  BY <1>3 DEF SessionInv, OwnerInv
<1>7. worker.at \in {"idle", "feed"} => worker = [Idle EXCEPT !.at = worker.at, !.job = worker.job]
  BY DEF SessionInv, FreshInv
<1>8. CASE Moves(s, r, l)
  <2>1. /\ r.total = sess[s].total /\ r.stop = sess[s].stop
        /\ UNCHANGED <<ctx, ring, rest, got, eos>>
    BY <1>8 DEF Moves
  <2>2. OwnerInv'
    <3>1. CASE queue' = Append(queue, s) /\ control[s] = "submit" /\ r = sess[s] /\ l = "out"
      <4>1. /\ DOMAIN queue' = 1 .. Len(queue) + 1 /\ queue'[Len(queue) + 1] = s
            /\ \A i \in 1 .. Len(queue) : queue'[i] = queue[i]
        BY <1>3, <3>1, AppendProperties, LenProperties
      <4>2. \A t \in Sessions : sess'[t].state = sess[t].state
        BY <1>2, <3>1
      <4>3. Decoding(s) /\ s # worker.job /\ \A i \in DOMAIN queue : queue[i] # s
        BY <1>6, <3>1
      <4>4. \A i \in DOMAIN queue' : sess'[queue'[i]].state = "decoding" /\ queue'[i] # worker.job
        <5> SUFFICES ASSUME NEW i \in 1 .. Len(queue) + 1
                     PROVE  sess'[queue'[i]].state = "decoding" /\ queue'[i] # worker.job
          BY <4>1
        <5>1. CASE i = Len(queue) + 1
          BY <4>1, <4>2, <4>3, <5>1 DEF Decoding
        <5>2. CASE i # Len(queue) + 1
          <6>1. i \in 1 .. Len(queue) /\ queue'[i] = queue[i] /\ queue[i] \in Sessions
            BY <1>3, <4>1, <5>2
          <6> QED
            BY <1>3, <4>2, <6>1 DEF SessionInv, OwnerInv, Decoding
        <5> QED
          BY <5>1, <5>2
      <4>5. \A i, j \in DOMAIN queue' : queue'[i] = queue'[j] => i = j
        <5> SUFFICES ASSUME NEW i \in 1 .. Len(queue) + 1, NEW j \in 1 .. Len(queue) + 1,
                            queue'[i] = queue'[j]
                     PROVE  i = j
          BY <4>1
        <5>1. i = Len(queue) + 1 <=> j = Len(queue) + 1
          BY <1>3, <4>1, <4>3
        <5>2. CASE i # Len(queue) + 1
          <6>1. i \in 1 .. Len(queue) /\ j \in 1 .. Len(queue)
            BY <1>3, <5>1, <5>2
          <6> QED
            BY <1>3, <4>1, <6>1 DEF SessionInv, OwnerInv
        <5> QED
          BY <5>1, <5>2
      <4>6. \A t \in Sessions : control'[t] = "submit" =>
              /\ sess'[t].state = "decoding" /\ t # worker.job
              /\ \A i \in DOMAIN queue' : queue'[i] # t
        <5> SUFFICES ASSUME NEW t \in Sessions, control'[t] = "submit"
                     PROVE  /\ sess'[t].state = "decoding" /\ t # worker.job
                            /\ \A i \in DOMAIN queue' : queue'[i] # t
          OBVIOUS
        <5>1. t # s /\ control[t] = "submit"
          BY <1>2, <3>1
        <5>2. Decoding(t) /\ t # worker.job /\ \A i \in DOMAIN queue : queue[i] # t
          BY <5>1 DEF SessionInv, OwnerInv
        <5> QED
          BY <1>3, <4>1, <4>2, <5>1, <5>2 DEF Decoding
      <4>7. \A t \in Sessions : sess'[t].state = "decoding" =>
              control'[t] = "submit" \/ t = worker.job \/ \E i \in DOMAIN queue' : queue'[i] = t
        <5> SUFFICES ASSUME NEW t \in Sessions, sess'[t].state = "decoding",
                            control'[t] # "submit", t # worker.job
                     PROVE  \E i \in DOMAIN queue' : queue'[i] = t
          OBVIOUS
        <5>1. CASE t = s
          BY <1>3, <4>1, <5>1
        <5>2. CASE t # s
          <6>1. PICK i \in DOMAIN queue : queue[i] = t
            BY <1>2, <4>2, <5>2 DEF SessionInv, OwnerInv, Decoding
          <6> QED
            BY <1>3, <4>1, <6>1
        <5> QED
          BY <5>1, <5>2
      <4> QED
        BY <1>2, <1>3, <4>2, <4>4, <4>5, <4>6, <4>7 DEF SessionInv, OwnerInv, Decoding
    <3>2. CASE /\ queue' = queue
               /\ \/ ~Decoding(s) /\ r.state # "decoding" /\ l # "submit" /\ control[s] # "submit"
                  \/ ~Decoding(s) /\ r.state = "decoding" /\ l = "submit"
                  \/ control[s] = "submit" /\ r.state = "feeding" /\ l = "out"
                  \/ r.state = sess[s].state /\ (l = "submit" <=> control[s] = "submit")
      BY <1>2, <1>3, <1>4, <1>5, <1>6, <3>2 DEF SessionInv, OwnerInv, Decoding
    <3> QED
      BY <1>8, <3>1, <3>2 DEF Moves, Decoding
  <2>3. FreshInv'
    <3>1. r.state \in {"idle", "feeding"} \/ (r.state = "decoding" /\ ~InRun(s)) =>
            sess[s].state \in {"idle", "feeding"} \/ (Decoding(s) /\ ~InRun(s))
      <4>1. s # worker.job => ~InRun(s)
        BY DEF InRun
      <4> QED
        BY <1>6, <1>8, <4>1 DEF Moves, Decoding
    <3> QED
      BY <1>2, <1>4, <1>7, <2>1, <3>1 DEF SessionInv, FreshInv, Decoding
  <2>4. \A t \in Sessions : sess'[t].total = sess[t].total /\ sess'[t].stop = sess[t].stop
    BY <1>2, <2>1
  <2>5. worker.job \in Sessions => Until' = Until /\ Whole' = Whole /\ (Flushing' <=> Flushing)
    BY <1>2, <2>4 DEF Until, Whole, Flushing
  <2>6. \A t \in Sessions : InRun(t) => t = worker.job
    BY DEF InRun
  <2>7. HoldInv'
    <3>1. CASE worker.job \in Sessions
      BY <1>2, <1>4, <2>4, <2>5, <3>1 DEF SessionInv, HoldInv
    <3>2. CASE worker.job \notin Sessions
      <4>1. worker.at = "idle"
        BY <1>1, <3>2, WorkerFacts DEF SessionInv, OwnerInv
      <4> QED
        BY <1>2, <4>1 DEF HoldInv, InRun
    <3> QED
      BY <3>1, <3>2
  <2>8. StreamInv'
    <3>1. r.state = "completed" => sess[s].state = "completed"
      BY <1>8 DEF Moves
    <3>2. \A t \in Sessions : Delivered(t)' = Delivered(t)
      BY <2>1 DEF Delivered
    <3>3. \A t \in Sessions : Faithful(t) => Faithful(t)'
      BY <1>2, <2>4, <3>1, <3>2 DEF Faithful
    <3>4. \A t \in Streamed : t \in Sessions
      BY StreamAssumption
    <3> QED
      BY <1>2, <1>4, <2>5, <2>6, <3>2, <3>3, <3>4 DEF SessionInv, StreamInv
  <2>9. CtxInv'
    <3> SUFFICES ASSUME worker.at \in {"check", "sample", "emit", "blocked"}, ~worker.last
                 PROVE  ctx[worker.job] = ContextOf(worker.job, sess[worker.job].total)'
      BY <1>2, <2>1 DEF CtxInv
    <3>1. worker.job \in Sessions /\ Decoding(worker.job)
      BY <1>1, AtWork DEF SessionInv
    <3>2. ctx[worker.job] = ContextOf(worker.job, sess[worker.job].total)
      BY DEF SessionInv, CtxInv
    <3>3. s = worker.job => r.prompt = sess[s].prompt
      BY <1>6, <1>8, <3>1 DEF Moves, Decoding
    <3>4. sess'[worker.job].prompt = sess[worker.job].prompt
          /\ sess'[worker.job].total = sess[worker.job].total
      BY <1>2, <2>4, <3>1, <3>3
    <3> QED
      BY <1>2, <3>2, <3>4 DEF ContextOf
  <2> QED
    BY <1>1, <2>2, <2>3, <2>7, <2>8, <2>9 DEF SessionInv
<1>9. CASE Empties(s, r, l)
  <2>1. /\ ~Decoding(s) /\ s # worker.job /\ ~InRun(s) /\ r.total = 0 /\ r.stop = 0
        /\ r.state # "decoding" /\ queue' = queue
        /\ control[s] # "submit" /\ l # "submit"
    BY <1>5, <1>9 DEF Empties, InRun, Decoding
  <2>2. /\ ring'[s] = << >> /\ rest'[s] = << >> /\ got'[s] = << >>
        /\ \A t \in Sessions : t # s => ring'[t] = ring[t] /\ rest'[t] = rest[t] /\ got'[t] = got[t]
    BY <1>1, <1>9 DEF Empties, TypeInv
  <2>3. /\ \A t \in Sessions : t # s => ctx'[t] = ctx[t]
        /\ \/ r.state = "idle" /\ ctx'[s] \in {<< >>, NoContext}
           \/ r.state = sess[s].state /\ ctx'[s] \in {ctx[s], NoContext}
    BY <1>1, <1>9 DEF Empties, TypeInv
  <2>4. OwnerInv'
    BY <1>2, <1>3, <1>4, <1>5, <2>1 DEF SessionInv, OwnerInv, Decoding
  <2>5. FreshInv'
    <3>1. r.state \in {"idle", "feeding"} => ctx'[s] \in {<< >>, NoContext}
      BY <2>3 DEF SessionInv, FreshInv
    <3> QED
      BY <1>2, <1>4, <1>7, <2>1, <2>2, <2>3, <3>1 DEF SessionInv, FreshInv, Decoding
  <2>6. worker.job \in Sessions =>
          /\ Until' = Until /\ Whole' = Whole /\ (Flushing' <=> Flushing)
          /\ sess'[worker.job] = sess[worker.job] /\ ctx'[worker.job] = ctx[worker.job]
    BY <1>2, <2>1, <2>3 DEF Until, Whole, Flushing
  <2>7. worker.job \notin Sessions => worker.at = "idle"
    BY <1>1, WorkerFacts DEF SessionInv, OwnerInv
  <2>8. HoldInv'
    <3>1. CASE worker.job \in Sessions
      BY <1>2, <1>4, <2>6, <3>1 DEF SessionInv, HoldInv
    <3>2. CASE worker.job \notin Sessions
      BY <1>2, <2>7, <3>2 DEF HoldInv, InRun
    <3> QED
      BY <3>1, <3>2
  <2>9. CtxInv'
    BY <1>2, <2>6, <2>7 DEF SessionInv, CtxInv, ContextOf
  <2>10. StreamInv'
    <3>1. Delivered(s)' = << >> /\ \A t \in Sessions : t # s => Delivered(t)' = Delivered(t)
      <4>1. << >> \o << >> \o << >> = << >>
        OBVIOUS
      <4> QED
        BY <2>2, <4>1 DEF Delivered
    <3>2. Faithful(s)'
      <4>1. InOrder(<< >>) /\ Within(<< >>, 0) /\ EndsWith(<< >>, 0)
        BY DEF InOrder, Within, EndsWith
      <4> QED
        BY <1>2, <2>1, <3>1, <4>1 DEF Faithful
    <3>3. \A t \in Sessions : t # s /\ Faithful(t) => Faithful(t)'
      BY <1>2, <3>1 DEF Faithful
    <3>4. \A t \in Sessions : InRun(t) => t = worker.job
      BY DEF InRun
    <3>5. \A t \in Streamed : t \in Sessions
      BY StreamAssumption
    <3> QED
      BY <1>2, <1>4, <2>1, <2>6, <3>1, <3>2, <3>3, <3>4, <3>5 DEF SessionInv, StreamInv
  <2> QED
    BY <1>1, <2>4, <2>5, <2>8, <2>9, <2>10 DEF SessionInv
<1> QED
  BY <1>0, <1>8, <1>9

-----------------------------------------------------------------------------
(* The theorem *)

LEMMA NextSafe ==
  ASSUME SessionParameters, SessionInv, [Next]_vars
  PROVE  SessionInv'
<1>1. CASE UNCHANGED vars
  <2>1. UNCHANGED <<sess, ctx, ring, rest, got, eos, reader, control, queue, worker>>
    BY <1>1 DEF vars, streamVars
  <2>2. /\ Until' = Until /\ Whole' = Whole /\ (Flushing' <=> Flushing)
        /\ \A t \in Sessions : Delivered(t)' = Delivered(t) /\ (InRun(t)' <=> InRun(t))
                               /\ (Faithful(t)' <=> Faithful(t))
    BY <2>1 DEF Until, Whole, Flushing, Delivered, InRun, Faithful
  <2>3. TypeInv' /\ OwnerInv'
    BY <2>1 DEF SessionInv, TypeInv, OwnerInv, Decoding
  <2>4. FreshInv' /\ CtxInv'
    BY <2>1, <2>2 DEF SessionInv, FreshInv, CtxInv, ContextOf, Decoding
  <2>5. HoldInv'
    BY <2>1, <2>2 DEF SessionInv, HoldInv, InRun
  <2>6. StreamInv'
    BY <2>1, <2>2, StreamAssumption DEF SessionInv, StreamInv
  <2> QED
    BY <2>3, <2>4, <2>5, <2>6 DEF SessionInv
<1>2. ASSUME NEW s \in Sessions, Control(s) PROVE SessionInv'
  BY <1>2, ControlSafe
<1>3. ASSUME NEW s \in Streamed, StreamRead(s) PROVE SessionInv'
  BY <1>3, ReadSafe
<1>4. CASE Work
  BY <1>4, StartSafe, FeedSafe, CheckSafe, SampleSafe, EmitSafe, EmittedSafe, FinishSafe DEF Work
<1> QED
  BY <1>1, <1>2, <1>3, <1>4 DEF Next, Terminated

LEMMA InitSafe == SessionParameters /\ Init => SessionInv
<1> SUFFICES ASSUME SessionParameters, Init PROVE SessionInv
  OBVIOUS
<1>1. TypeInv
  BY InitType
<1>2. Idle.at = "idle" /\ Idle.job = NoSession /\ worker = Idle /\ queue = << >> /\ DOMAIN << >> = {}
  BY DEF Idle, Init
<1>3. \A s \in Sessions : ~Decoding(s) /\ ~InRun(s) /\ Delivered(s) = << >>
                          /\ sess[s] = FreshSession /\ control[s] = "out"
  <2>1. << >> \o << >> \o << >> = << >>
    OBVIOUS
  <2> QED
    BY <1>2, <2>1 DEF Init, Decoding, InRun, Delivered, FreshSession
<1>4. OwnerInv
  BY <1>2, <1>3 DEF OwnerInv
<1>5. FreshInv
  <2>1. Idle = [Idle EXCEPT !.at = Idle.at, !.job = Idle.job]
    BY DEF Idle
  <2> QED
    BY <1>2, <2>1 DEF Init, FreshInv, FreshSession
<1>6. HoldInv /\ CtxInv
  BY <1>2 DEF HoldInv, CtxInv, InRun
<1>7. StreamInv
  <2>1. InOrder(<< >>) /\ Within(<< >>, 0)
    BY DEF InOrder, Within
  <2>2. \A s \in Streamed : Faithful(s)
    BY <1>3, <2>1, StreamAssumption DEF Faithful, FreshSession
  <2> QED
    BY <1>3, <2>2, StreamAssumption DEF StreamInv
<1> QED
  BY <1>1, <1>4, <1>5, <1>6, <1>7 DEF SessionInv

LEMMA OwnedOnce ==
  ASSUME SessionParameters, SessionInv
  PROVE  RunOwned
<1> SUFFICES ASSUME NEW s \in Sessions
             PROVE  Cardinality(Owners(s)) = IF Decoding(s) THEN 1 ELSE 0
  BY DEF RunOwned
<1>1. /\ (<<"control">> \in Owners(s) <=> control[s] = "submit")
      /\ (<<"worker">> \in Owners(s) <=> worker.job = s)
      /\ \A e \in Owners(s) : \/ control[s] = "submit" /\ e = <<"control">>
                              \/ \E i \in DOMAIN queue : queue[i] = s /\ e = <<"queue", i>>
                              \/ worker.job = s /\ e = <<"worker">>
      /\ \A i \in DOMAIN queue : queue[i] = s => <<"queue", i>> \in Owners(s)
  BY DEF Owners
<1>2. s # NoSession /\ s \in Sessions
  BY DEF SessionParameters
<1>3. CASE ~Decoding(s)
  <2>1. /\ control[s] # "submit" /\ worker.job # s
        /\ \A i \in DOMAIN queue : queue[i] # s
    BY <1>2, <1>3 DEF SessionInv, OwnerInv
  <2>2. Owners(s) = {}
    BY <1>1, <2>1
  <2> QED
    BY <1>3, <2>2, FS_EmptySet
<1>4. CASE Decoding(s)
  <2>1. \E e : Owners(s) = {e}
    <3>1. CASE control[s] = "submit"
      <4>1. worker.job # s /\ \A i \in DOMAIN queue : queue[i] # s
        BY <3>1 DEF SessionInv, OwnerInv
      <4>2. Owners(s) = {<<"control">>}
        BY <1>1, <3>1, <4>1
      <4> QED
        BY <4>2
    <3>2. CASE worker.job = s
      <4>1. control[s] # "submit" /\ \A i \in DOMAIN queue : queue[i] # s
        BY <3>2 DEF SessionInv, OwnerInv
      <4>2. Owners(s) = {<<"worker">>}
        BY <1>1, <3>2, <4>1
      <4> QED
        BY <4>2
    <3>3. CASE control[s] # "submit" /\ worker.job # s
      <4>1. PICK i \in DOMAIN queue : queue[i] = s
        BY <1>4, <3>3 DEF SessionInv, OwnerInv
      <4>2. \A j \in DOMAIN queue : queue[j] = s => j = i
        BY <4>1 DEF SessionInv, OwnerInv
      <4>3. Owners(s) = {<<"queue", i>>}
        BY <1>1, <3>3, <4>1, <4>2
      <4> QED
        BY <4>3
    <3> QED
      BY <3>1, <3>2, <3>3
  <2> QED
    BY <1>4, <2>1, FS_Singleton
<1> QED
  BY <1>3, <1>4

LEMMA Sound ==
  ASSUME SessionParameters, SessionInv
  PROVE  SessionSound
<1>1. TypeInv /\ OwnerInv /\ HoldInv /\ StreamInv /\ CtxInv
  BY DEF SessionInv
<1>2. RunOwned
  BY OwnedOnce
<1>3. TypeOK
  <2>1. \A s \in Sessions :
          /\ sess[s].state \in {"idle", "feeding", "decoding", "completed", "canceled", "failed"}
          /\ sess[s].cancel \in BOOLEAN
          /\ sess[s].prompt \in 0 .. MaxChunks
          /\ sess[s].total \in 0 .. MaxTokens
          /\ sess[s].stop \in 0 .. StopHold
    <3>1. \A s \in Sessions : sess[s] \in SessionRecords
      BY <1>1 DEF TypeInv
    <3> QED
      BY <3>1, RecordFacts DEF States, Finals
  <2>2. \A s \in Sessions :
          /\ Len(ring[s]) <= RingCapacity /\ Len(rest[s]) <= 1
          /\ reader[s] \in {"drain", "check"}
          /\ control[s] \in {"out", "submit", "destroying", "freed"}
    BY <1>1 DEF TypeInv
  <2>3. worker.at \in Spots /\ worker.job \in Sessions \cup {NoSession} /\ queue \in Seq(Sessions)
    BY <1>1, WorkerFacts DEF TypeInv
  <2>4. Len(worker.hold) <= StopHold + 1
    <3>1. Len(worker.hold) \in Nat /\ StopHold \in Nat
      BY <1>1, WorkerFacts
    <3>2. CASE worker.at \in {"idle", "feed"}
      <4>1. worker.hold = << >>
        BY <3>2 DEF SessionInv, FreshInv, Idle
      <4>2. Len(worker.hold) = 0
        BY <4>1
      <4> QED
        BY <3>1, <4>2
    <3>3. CASE worker.at \notin {"idle", "feed"}
      <4>1. PICK s \in Sessions : worker.job = s
        BY <3>3, AtWork DEF SessionInv
      <4>2. InRun(s)
        BY <2>3, <3>3, <4>1 DEF InRun, Spots
      <4>3. s \notin Streamed => Len(worker.hold) = 0
        BY <1>1, <4>1, <4>2 DEF HoldInv
      <4>4. s \in Streamed => Len(worker.hold) <= StopHold + 1
        BY <1>1, <4>1, <4>2 DEF HoldInv
      <4> QED
        BY <3>1, <4>3, <4>4
    <3> QED
      BY <3>2, <3>3
  <2> QED
    BY <2>1, <2>2, <2>3, <2>4 DEF TypeOK
<1>4. StreamFaithful
  <2> SUFFICES ASSUME NEW s \in Streamed
               PROVE  /\ InOrder(Delivered(s)) /\ Within(Delivered(s), sess[s].total - sess[s].stop)
                      /\ sess[s].state = "completed" => EndsWith(Delivered(s), sess[s].total - sess[s].stop)
    BY DEF StreamFaithful
  <2>0. s \in Sessions
    BY StreamAssumption
  <2>1. CASE ~InRun(s)
    BY <1>1, <2>1 DEF StreamInv, Faithful
  <2>2. CASE InRun(s)
    <3>1. worker.job = s /\ Decoding(s)
      BY <1>1, <2>0, <2>2 DEF InRun, OwnerInv, SessionParameters
    <3>2. Stands(Delivered(s), Whole, worker.sent)
      BY <1>1, <2>2 DEF StreamInv
    <3>3. Whole \in Nat /\ worker.sent \in {0, 1} /\ sess[s].total - sess[s].stop \in Nat
          /\ Whole + worker.sent <= sess[s].total - sess[s].stop
      BY <1>1, <2>0, <2>2, <3>1, Ahead DEF SessionInv
    <3>4. Delivered(s) \in Seq(Entries)
      BY <1>1, <2>0, DeliveredType
    <3> DEFINE n == sess[s].total - sess[s].stop
               m == Whole
    <3>5. n \in Nat /\ m \in Nat /\ m + worker.sent <= n /\ Stands(Delivered(s), m, worker.sent)
      BY <3>2, <3>3
    <3> HIDE DEF n, m
    <3>6. InOrder(Delivered(s)) /\ Within(Delivered(s), n)
      BY <3>3, <3>4, <3>5, StandsFaithful
    <3> QED
      BY <3>1, <3>6 DEF Decoding, n
  <2> QED
    BY <2>1, <2>2
<1>5. ContextFaithful
  <2> SUFFICES ASSUME worker.at \in {"check", "sample"}
               PROVE  ctx[worker.job] = ContextOf(worker.job, sess[worker.job].total)
    BY DEF ContextFaithful, ContextOf
  <2>1. InRun(worker.job)
    BY DEF InRun
  <2>2. ~worker.last
    BY <1>1, <2>1 DEF HoldInv
  <2> QED
    BY <1>1, <2>2 DEF CtxInv
<1> QED
  BY <1>2, <1>3, <1>4, <1>5 DEF SessionSound

\* Whatever the worker, the control thread, the readers and a cancel do in turn:
\* the run of a session that is decoding is with one party, in session_decode,
\* in the queue or in decode_loop; what stream_read takes and the ring holds are
\* the sampled tokens, in order and whole, and none of the stop sequence that
\* decode_loop took back; and the provider's context is that of this run.
THEOREM SessionSafe == SessionParameters => (Spec => []SessionSound)
<1> SUFFICES ASSUME SessionParameters PROVE Spec => []SessionSound
  OBVIOUS
<1>1. Init => SessionInv
  BY InitSafe
<1>2. SessionInv /\ [Next]_vars => SessionInv'
  BY NextSafe
<1>3. SessionInv => SessionSound
  BY Sound
<1> QED
  BY <1>1, <1>2, <1>3, PTL DEF Spec

=============================================================================
