-------------------------- MODULE BatchExecutor_proofs --------------------------
(****************************************************************************)
(* Proofs about BatchExecutor for any number of slots and any sizes of the     *)
(* batch, the prompt share, the context, the hold and the ring.               *)
(*                                                                            *)
(* The argument.  Of a conversation two numbers say everything about its      *)
(* stream: how many entries of the run it has sent, and how many tokens it    *)
(* holds.  The hold is a stretch of consecutive tokens that ends at the last   *)
(* one sampled, and the entries before it, with those of the staged token     *)
(* that got through, are what was sent; a flush, a token sampled and a stop   *)
(* sequence taken back keep it that way.  Likewise the place a conversation   *)
(* has reached in its prompt gives the length of its context, and what the    *)
(* batch holds for its slot are the next places, in order: at most one        *)
(* sampled token, or one share of one text.  In the invariant IInv, SlotInv   *)
(* says the former of every slot and BatchOk the latter of the batch, phase   *)
(* by phase; a slot that awaits its reset may still hold an earlier context,  *)
(* which is why no conv_decode may land between the resets and the batch.     *)
(*                                                                            *)
(* The end of a stream needs only that a run that is over stays over and      *)
(* sends nothing (EndInv).                                                    *)
(****************************************************************************)
EXTENDS BatchExecutor, FiniteSetTheorems, WellFoundedInduction, TLAPS

-----------------------------------------------------------------------------
(* Numbers *)

\* A nonempty set of naturals has a least element: what an induction over the
\* naturals needs, stated without an operator parameter.
LEMMA LeastElement ==
  ASSUME NEW T \in SUBSET Nat, T # {}
  PROVE  \E x \in T : \A y \in T : x <= y
<1> DEFINE R == OpToRel(<, Nat)
<1>1. PICK x \in T : \A y \in T : <<y, x>> \notin R
  <2>1. IsWellFoundedOn(R, Nat)
    BY NatLessThanWellFounded
  <2> HIDE DEF R
  <2> QED
    BY <2>1, WFMin
<1>2. \A y \in T : x <= y
  <2> SUFFICES ASSUME NEW y \in T PROVE x <= y
    OBVIOUS
  <2>1. <<y, x>> \notin R
    BY <1>1
  <2> QED
    BY <2>1 DEF OpToRel
<1> QED
  BY <1>2

LEMMA MinOfTwo ==
  ASSUME NEW a \in Nat, NEW b \in Nat
  PROVE  Min({a, b}) = IF a <= b THEN a ELSE b
BY DEF Min

LEMMA MinOfThree ==
  ASSUME NEW a \in Nat, NEW b \in Nat, NEW c \in Nat
  PROVE  /\ Min({a, b, c}) \in {a, b, c}
         /\ Min({a, b, c}) <= a /\ Min({a, b, c}) <= b /\ Min({a, b, c}) <= c
<1>1. \E x \in {a, b, c} : \A y \in {a, b, c} : x <= y
  <2>1. CASE a <= b /\ a <= c
    BY <2>1
  <2>2. CASE b <= a /\ b <= c
    BY <2>2
  <2>3. CASE c <= a /\ c <= b
    BY <2>3
  <2> QED
    BY <2>1, <2>2, <2>3
<1> QED
  BY <1>1 DEF Min

\* the greatest element of a set of naturals that has a bound
LEMMA MaxOfBounded ==
  ASSUME NEW S \in SUBSET Nat, S # {}, NEW b \in Nat, \A x \in S : x <= b
  PROVE  Max(S) \in S /\ \A x \in S : x <= Max(S)
<1> DEFINE Above == {n \in Nat : \A x \in S : x <= n}
<1>1. PICK m \in Above : \A y \in Above : m <= y
  <2>1. b \in Above
    OBVIOUS
  <2> QED
    BY <2>1, LeastElement
<1>2. m \in S
  <2> SUFFICES ASSUME m \notin S PROVE FALSE
    OBVIOUS
  <2>1. \A x \in S : x <= m - 1
    OBVIOUS
  <2>2. PICK z \in S : TRUE
    OBVIOUS
  <2>3. m - 1 \in Nat
    BY <2>1, <2>2
  <2> QED
    BY <1>1, <2>1, <2>3
<1>3. \A x \in S : x <= m
  OBVIOUS
<1>4. \E x \in S : \A y \in S : x >= y
  BY <1>2, <1>3
<1> QED
  BY <1>4 DEF Max

-----------------------------------------------------------------------------
(* The entries of the tokens 1, 2, 3, ... *)

\* how many entries the tokens up to n take
EN(n) == n + Cardinality(WideTokens \cap (1 .. n))

LEMMA ENStep ==
  /\ EN(0) = 0
  /\ \A n \in Nat : EN(n) \in Nat /\ EN(n + 1) = EN(n) + (IF n + 1 \in WideTokens THEN 2 ELSE 1)
<1>1. EN(0) = 0
  <2>1. WideTokens \cap (1 .. 0) = {}
    OBVIOUS
  <2> QED
    BY <2>1, FS_EmptySet DEF EN
<1>2. ASSUME NEW n \in Nat
      PROVE  EN(n) \in Nat /\ EN(n + 1) = EN(n) + (IF n + 1 \in WideTokens THEN 2 ELSE 1)
  <2> DEFINE W(k) == WideTokens \cap (1 .. k)
  <2>1. \A k \in Nat : IsFiniteSet(W(k)) /\ Cardinality(W(k)) \in Nat
    <3> SUFFICES ASSUME NEW k \in Nat PROVE IsFiniteSet(W(k)) /\ Cardinality(W(k)) \in Nat
      OBVIOUS
    <3>1. IsFiniteSet(1 .. k)
      BY FS_Interval
    <3>2. W(k) \in SUBSET (1 .. k)
      OBVIOUS
    <3> HIDE DEF W
    <3> QED
      BY <3>1, <3>2, FS_Subset, FS_CardinalityType
  <2>2. CASE n + 1 \in WideTokens
    <3>1. W(n + 1) = W(n) \cup {n + 1} /\ n + 1 \notin W(n)
      BY <2>2
    <3> HIDE DEF W
    <3>2. Cardinality(W(n + 1)) = Cardinality(W(n)) + 1
      BY <2>1, <3>1, FS_AddElement
    <3> QED
      BY <2>1, <2>2, <3>2 DEF EN, W
  <2>3. CASE n + 1 \notin WideTokens
    <3>1. W(n + 1) = W(n)
      BY <2>3
    <3> QED
      BY <2>1, <2>3, <3>1 DEF EN
  <2> QED
    BY <2>2, <2>3
<1> QED
  BY <1>1, <1>2

LEMMA ENType ==
  ASSUME NEW n \in Nat
  PROVE  EN(n) \in Nat
BY ENStep

\* every token takes an entry at least
LEMMA ENMonotonic ==
  ASSUME NEW m \in Nat, NEW n \in Nat, m <= n
  PROVE  EN(n) - EN(m) >= n - m
<1> DEFINE T == {k \in Nat : m <= k /\ ~(EN(k) - EN(m) >= k - m)}
<1>1. SUFFICES T = {}
  <2>1. n \notin T
    BY <1>1
  <2> QED
    BY <2>1, ENType
<1> SUFFICES ASSUME T # {} PROVE FALSE
  OBVIOUS
<1>2. PICK k \in T : \A j \in T : k <= j
  BY LeastElement
<1>3. k # m
  BY <1>2, ENType
<1>4. k - 1 \in Nat /\ m <= k - 1 /\ k - 1 \notin T
  BY <1>2, <1>3
<1>5. EN(k - 1) - EN(m) >= k - 1 - m
  BY <1>4
<1>6. EN(k) >= EN(k - 1) + 1
  <2> DEFINE j == k - 1
  <2>1. j \in Nat /\ k = j + 1
    BY <1>4
  <2> HIDE DEF j
  <2> QED
    BY <2>1, ENStep
<1>7. EN(k) \in Nat /\ EN(k - 1) \in Nat /\ EN(m) \in Nat
  BY <1>4, ENType
<1> QED
  BY <1>2, <1>5, <1>6, <1>7

\* the token whose entry is the k-th of the stream, and that entry
TokenOf(k) == CHOOSE t \in Nat \ {0} : EN(t - 1) < k /\ k <= EN(t)
Stream(k) == <<TokenOf(k), EN(TokenOf(k)) - k>>

LEMMA TokenExists ==
  ASSUME NEW k \in Nat \ {0}
  PROVE  \E t \in Nat \ {0} : EN(t - 1) < k /\ k <= EN(t)
<1> DEFINE T == {n \in Nat : k <= EN(n)}
<1>1. k \in T
  <2>1. EN(k) - EN(0) >= k - 0
    BY ENMonotonic
  <2> QED
    BY <2>1, ENStep, ENType
<1>2. PICK t \in T : \A j \in T : t <= j
  BY <1>1, LeastElement
<1>3. t # 0
  BY <1>2, ENStep
<1>4. t - 1 \in Nat /\ t - 1 \notin T
  BY <1>2, <1>3
<1>5. EN(t - 1) < k
  BY <1>4, ENType
<1> QED
  BY <1>2, <1>3, <1>5

LEMMA TokenUnique ==
  ASSUME NEW k \in Nat, NEW t \in Nat \ {0}, NEW u \in Nat \ {0},
         EN(t - 1) < k, k <= EN(t), EN(u - 1) < k, k <= EN(u)
  PROVE  t = u
<1>1. t - 1 \in Nat /\ u - 1 \in Nat
  OBVIOUS
<1>2. EN(t) \in Nat /\ EN(u) \in Nat /\ EN(t - 1) \in Nat /\ EN(u - 1) \in Nat
  BY <1>1, ENType
<1>3. ~(t <= u - 1)
  <2>1. t <= u - 1 => EN(u - 1) - EN(t) >= u - 1 - t
    BY <1>1, ENMonotonic
  <2> QED
    BY <2>1, <1>2, <1>1
<1>4. ~(u <= t - 1)
  <2>1. u <= t - 1 => EN(t - 1) - EN(u) >= t - 1 - u
    BY <1>1, ENMonotonic
  <2> QED
    BY <2>1, <1>2, <1>1
<1> QED
  BY <1>3, <1>4

LEMMA StreamEntry ==
  ASSUME NEW k \in Nat, NEW t \in Nat \ {0}, EN(t - 1) < k, k <= EN(t)
  PROVE  TokenOf(k) = t /\ Stream(k) = <<t, EN(t) - k>>
<1>1. TokenOf(k) \in Nat \ {0} /\ EN(TokenOf(k) - 1) < k /\ k <= EN(TokenOf(k))
  BY DEF TokenOf
<1> QED
  BY <1>1, TokenUnique DEF Stream

-----------------------------------------------------------------------------
(* The entries of a sequence of consecutive tokens *)

\* q has the tokens that follow the b-th
Follows(q, b) == q \in Seq(Nat) /\ \A i \in 1 .. Len(q) : q[i] = b + i

LEMMA CountShift ==
  ASSUME NEW b \in Nat, NEW q, Follows(q, b)
  PROVE  \A n \in 0 .. Len(q) : EntryCount(q, n) = EN(b + n) - EN(b)
<1> DEFINE W(n) == {i \in 1 .. n : q[i] \in WideTokens}
           T == {n \in 0 .. Len(q) : EntryCount(q, n) # EN(b + n) - EN(b)}
<1>1. \A n \in Nat : IsFiniteSet(W(n)) /\ Cardinality(W(n)) \in Nat
  <2> SUFFICES ASSUME NEW n \in Nat PROVE IsFiniteSet(W(n)) /\ Cardinality(W(n)) \in Nat
    OBVIOUS
  <2>1. IsFiniteSet(1 .. n)
    BY FS_Interval
  <2>2. W(n) \in SUBSET (1 .. n)
    OBVIOUS
  <2> HIDE DEF W
  <2> QED
    BY <2>1, <2>2, FS_Subset, FS_CardinalityType
<1> SUFFICES ASSUME T # {} PROVE FALSE
  OBVIOUS
<1>2. Len(q) \in Nat
  BY DEF Follows
<1>3. PICK n \in T : \A j \in T : n <= j
  <2>1. T \in SUBSET Nat
    BY <1>2
  <2> HIDE DEF T
  <2> QED
    BY <2>1, LeastElement
<1>4. n # 0
  <2>1. W(0) = {}
    OBVIOUS
  <2>2. Cardinality(W(0)) = 0
    BY <2>1, FS_EmptySet
  <2>3. EntryCount(q, 0) = 0
    BY <2>2 DEF EntryCount
  <2> QED
    BY <1>3, <2>3, ENType
<1> DEFINE m == n - 1
<1>5. m \in 0 .. Len(q) /\ n = m + 1 /\ m \in Nat /\ n \in 1 .. Len(q)
  BY <1>2, <1>3, <1>4
<1>6. EntryCount(q, m) = EN(b + m) - EN(b)
  <2>1. m \notin T
    BY <1>3, <1>5
  <2> QED
    BY <1>5, <2>1
<1>7. q[n] = b + n
  BY <1>5 DEF Follows
<1>8. EntryCount(q, n) = EntryCount(q, m) + (IF b + n \in WideTokens THEN 2 ELSE 1)
  <2>1. CASE b + n \in WideTokens
    <3>1. W(n) = W(m) \cup {n} /\ n \notin W(m)
      BY <1>5, <1>7, <2>1
    <3>2. Cardinality(W(n)) = Cardinality(W(m)) + 1
      <4> HIDE DEF W
      <4> QED
        BY <1>1, <1>5, <3>1, FS_AddElement
    <3>3. EntryCount(q, n) = n + Cardinality(W(n)) /\ EntryCount(q, m) = m + Cardinality(W(m))
      BY DEF EntryCount
    <3>4. Cardinality(W(m)) \in Nat
      BY <1>1, <1>5
    <3> HIDE DEF W, m
    <3> QED
      BY <1>5, <2>1, <3>2, <3>3, <3>4
  <2>2. CASE b + n \notin WideTokens
    <3>1. W(n) = W(m)
      BY <1>5, <1>7, <2>2
    <3>3. EntryCount(q, n) = n + Cardinality(W(n)) /\ EntryCount(q, m) = m + Cardinality(W(m))
      BY DEF EntryCount
    <3>4. Cardinality(W(m)) \in Nat
      BY <1>1, <1>5
    <3> HIDE DEF W, m
    <3> QED
      BY <1>5, <2>2, <3>1, <3>3, <3>4
  <2> QED
    BY <2>1, <2>2
<1>9. EN(b + n) = EN(b + m) + (IF b + n \in WideTokens THEN 2 ELSE 1)
  <2>1. b + m \in Nat /\ b + n = (b + m) + 1
    BY <1>5
  <2> HIDE DEF m
  <2> QED
    BY <2>1, ENStep
<1>10. EN(b) \in Nat /\ EN(b + m) \in Nat
  <2>1. b + m \in Nat
    BY <1>5
  <2> HIDE DEF m
  <2> QED
    BY <2>1, ENType
<1> QED
  BY <1>3, <1>6, <1>8, <1>9, <1>10

\* the entries of consecutive tokens are a stretch of the stream
LEMMA EntriesAre ==
  ASSUME NEW b \in Nat, NEW q, Follows(q, b)
  PROVE  /\ Len(Entries(q)) = EN(b + Len(q)) - EN(b)
         /\ Len(Entries(q)) \in Nat
         /\ Entries(q) = [k \in 1 .. Len(Entries(q)) |-> Stream(EN(b) + k)]
<1> DEFINE N == EN(b + Len(q)) - EN(b)
           whose(k) == CHOOSE n \in DOMAIN q : EntryCount(q, n - 1) < k /\ k <= EntryCount(q, n)
<1>1. Len(q) \in Nat /\ DOMAIN q = 1 .. Len(q)
  BY DEF Follows
<1>2. EntryCount(q, Len(q)) = N
  BY <1>1, CountShift
<1>3. EN(b) \in Nat /\ EN(b + Len(q)) \in Nat /\ N \in Nat
  <2>1. b + Len(q) \in Nat /\ b <= b + Len(q)
    BY <1>1
  <2>2. EN(b) \in Nat /\ EN(b + Len(q)) \in Nat
    BY <2>1, ENType
  <2>3. EN(b + Len(q)) - EN(b) >= b + Len(q) - b
    BY <2>1, ENMonotonic
  <2> QED
    BY <2>2, <2>3, <1>1
<1>4. ASSUME NEW k \in 1 .. N
      PROVE  <<q[whose(k)], EntryCount(q, whose(k)) - k>> = Stream(EN(b) + k)
  <2>1. PICK t \in Nat \ {0} : EN(t - 1) < EN(b) + k /\ EN(b) + k <= EN(t)
    <3>1. EN(b) + k \in Nat \ {0}
      BY <1>3
    <3> QED
      BY <3>1, TokenExists
  <2>2. t > b /\ t <= b + Len(q)
    <3> t - 1 \in Nat
      OBVIOUS
    <3>1. EN(t) \in Nat /\ t - 1 \in Nat /\ EN(t - 1) \in Nat
      BY ENType
    <3>2. t <= b => EN(b) - EN(t) >= b - t
      BY ENMonotonic
    <3>3. b + Len(q) <= t - 1 => EN(t - 1) - EN(b + Len(q)) >= t - 1 - (b + Len(q))
      BY <1>1, <3>1, ENMonotonic
    <3> QED
      BY <1>1, <1>3, <2>1, <3>1, <3>2, <3>3
  <2> DEFINE n == t - b
  <2>3. n \in 1 .. Len(q) /\ n - 1 \in 0 .. Len(q) /\ t = b + n /\ t - 1 = b + (n - 1)
    BY <1>1, <2>2
  <2>4. EntryCount(q, n) = EN(t) - EN(b) /\ EntryCount(q, n - 1) = EN(t - 1) - EN(b)
    <3> HIDE DEF n
    <3>1. n \in 0 .. Len(q)
      BY <2>3, <1>1
    <3> QED
      BY <2>3, <3>1, CountShift
  <2>5. EN(t) \in Nat /\ EN(t - 1) \in Nat
    <3> t - 1 \in Nat
      OBVIOUS
    <3> QED
      BY ENType
  <2>6. EntryCount(q, n - 1) < k /\ k <= EntryCount(q, n)
    BY <1>3, <2>1, <2>4, <2>5
  <2>7. \A m \in DOMAIN q : EntryCount(q, m - 1) < k /\ k <= EntryCount(q, m) => m = n
    <3> SUFFICES ASSUME NEW m \in DOMAIN q, EntryCount(q, m - 1) < k, k <= EntryCount(q, m)
                 PROVE  m = n
      OBVIOUS
    <3>1. m \in 0 .. Len(q) /\ m - 1 \in 0 .. Len(q) /\ b + m \in Nat \ {0} /\ (b + m) - 1 = b + (m - 1)
      BY <1>1
    <3>2. EntryCount(q, m) = EN(b + m) - EN(b) /\ EntryCount(q, m - 1) = EN((b + m) - 1) - EN(b)
      BY <3>1, CountShift
    <3>3. EN(b + m) \in Nat /\ EN((b + m) - 1) \in Nat
      BY SMTT(30), <3>1, ENType
    <3>4. EN((b + m) - 1) < EN(b) + k /\ EN(b) + k <= EN(b + m)
      BY <1>3, <3>2, <3>3
    <3>5. b + m = t
      <4>1. EN(b) + k \in Nat
        BY <1>3
      <4> DEFINE u == b + m
                 j == EN(b) + k
      <4>2. u \in Nat \ {0} /\ j \in Nat /\ EN(u - 1) < j /\ j <= EN(u) /\ EN(t - 1) < j /\ j <= EN(t)
        BY <2>1, <3>1, <3>4, <4>1
      <4> HIDE DEF u, j
      <4>3. u = t
        BY <4>2, TokenUnique
      <4> QED
        BY <4>3 DEF u
    <3> QED
      BY <3>5, <3>1, <1>1
  <2>8. whose(k) = n
    BY <1>1, <2>3, <2>6, <2>7
  <2>9. q[n] = t
    BY <2>3 DEF Follows
  <2>10. Stream(EN(b) + k) = <<t, EN(t) - (EN(b) + k)>>
    BY <1>3, <2>1, StreamEntry
  <2>11. EntryCount(q, n) - k = EN(t) - (EN(b) + k)
    BY <1>3, <2>4, <2>5
  <2> QED
    BY <2>8, <2>9, <2>10, <2>11
<1>5. Entries(q) = [k \in 1 .. N |-> Stream(EN(b) + k)]
  <2>1. Entries(q) = [k \in 1 .. N |-> <<q[whose(k)], EntryCount(q, whose(k)) - k>>]
    BY <1>2 DEF Entries
  <2> HIDE DEF whose
  <2> QED
    BY <2>1, <1>4
<1>6. Len(Entries(q)) = N
  BY <1>3, <1>5
<1> QED
  BY <1>3, <1>5, <1>6

LEMMA AppendFacts ==
  ASSUME NEW S, NEW q \in Seq(S), NEW e \in S
  PROVE  /\ Append(q, e) \in Seq(S) /\ Len(Append(q, e)) = Len(q) + 1
         /\ Append(q, e)[Len(q) + 1] = e /\ \A i \in 1 .. Len(q) : Append(q, e)[i] = q[i]
OBVIOUS

LEMMA PartType ==
  ASSUME NEW S, NEW q \in Seq(S), NEW m \in 1 .. Len(q) + 1, NEW n \in 0 .. Len(q)
  PROVE  SubSeq(q, m, n) \in Seq(S)
OBVIOUS

LEMMA FollowsPart ==
  ASSUME NEW b \in Nat, NEW q, Follows(q, b), NEW m \in 1 .. Len(q) + 1, NEW n \in 0 .. Len(q), m <= n + 1
  PROVE  Follows(SubSeq(q, m, n), b + m - 1) /\ Len(SubSeq(q, m, n)) = n - m + 1
<1>1. q \in Seq(Nat) /\ Len(q) \in Nat
  BY DEF Follows
<1>2. SubSeq(q, m, n) \in Seq(Nat) /\ Len(SubSeq(q, m, n)) = n - m + 1
  BY <1>1
<1>3. \A i \in 1 .. n - m + 1 : SubSeq(q, m, n)[i] = q[m + i - 1]
  BY <1>1
<1>4. \A i \in 1 .. n - m + 1 : q[m + i - 1] = b + (m + i - 1)
  BY <1>1 DEF Follows
<1> QED
  BY <1>1, <1>2, <1>3, <1>4 DEF Follows

FragmentSet == (1 .. MaxTokens) \X {0, 1}

LEMMA StreamType ==
  ASSUME NEW n \in Nat, NEW k \in 1 .. EN(n)
  PROVE  Stream(k) \in (1 .. n) \X {0, 1}
<1>1. EN(n) \in Nat
  BY ENType
<1>2. PICK t \in Nat \ {0} : EN(t - 1) < k /\ k <= EN(t)
  BY <1>1, TokenExists
<1> DEFINE u == t - 1
<1>3. u \in Nat /\ t = u + 1
  OBVIOUS
<1>4. EN(u) \in Nat /\ EN(t) \in Nat /\ EN(t) <= EN(u) + 2
  BY <1>3, ENStep
<1>5. t <= n
  <2>1. n <= u => EN(u) - EN(n) >= u - n
    BY <1>3, ENMonotonic
  <2> QED
    BY <1>1, <1>2, <1>3, <1>4, <2>1
<1>6. Stream(k) = <<t, EN(t) - k>>
  BY <1>1, <1>2, StreamEntry
<1>7. EN(t) - k \in {0, 1}
  BY <1>1, <1>2, <1>4
<1> QED
  BY <1>5, <1>6, <1>7

-----------------------------------------------------------------------------
(* The hold and the stream *)

\* how many tokens the reader gets in the end, and how many have left the hold
Reached(c) == c.total - c.stop
Ahead(c)   == Reached(c) - Len(c.hold)

\* The hold has the newest tokens of the run; some fragments of the oldest of
\* them may be out.
HoldInOrder(c) ==
  /\ Ahead(c) \in Nat
  /\ Follows(c.hold, Ahead(c))
  /\ c.staged => c.hold # << >>
  /\ c.spilled > 0 => c.staged /\ EN(Ahead(c)) + c.spilled < EN(Ahead(c) + 1)

\* q is the first n entries of the stream
IsStream(q, n) == q \in Seq(FragmentSet) /\ Len(q) = n /\ \A i \in 1 .. n : q[i] = Stream(i)

Aligned(c, q) == HoldInOrder(c) /\ IsStream(q, EN(Ahead(c)) + c.spilled)

\* d has been fed what c has, and is c but for what is held
SameInput(c, d) ==
  /\ d.cancel = c.cancel /\ d.dirty = c.dirty /\ d.prompt = c.prompt /\ d.count = c.count
  /\ d.chunk = c.chunk /\ d.off = c.off /\ d.fed = c.fed /\ d.past = c.past
HoldOnly(c, d) ==
  /\ SameInput(c, d)
  /\ d.state = c.state /\ d.pending = c.pending /\ d.ending = c.ending
  /\ d.total = c.total /\ d.stop = c.stop

LEMMA FlushOut ==
  ASSUME NEW c \in Conversation, HoldInOrder(c), NEW n \in 1 .. Len(c.hold)
  PROVE  LET out == Unsent(c, SubSeq(c.hold, 1, n))
         IN /\ Len(out) = EN(Ahead(c) + n) - (EN(Ahead(c)) + c.spilled)
            /\ Len(out) \in Nat
            /\ out \in Seq(FragmentSet)
            /\ \A i \in 1 .. Len(out) : out[i] = Stream(EN(Ahead(c)) + c.spilled + i)
<1> DEFINE A == Ahead(c)
           q == SubSeq(c.hold, 1, n)
           sp == c.spilled
           out == Unsent(c, q)
           N == EN(A + n) - EN(A)
<1>1. A \in Nat /\ sp \in Nat /\ Len(c.hold) \in Nat /\ n \in Nat
  BY DEF HoldInOrder, Conversation
<1>2. Follows(q, A) /\ Len(q) = n
  <2>1. Follows(c.hold, A)
    BY DEF HoldInOrder
  <2>2. Follows(q, A + 1 - 1) /\ Len(q) = n - 1 + 1
    <3> HIDE DEF A
    <3> QED
      BY <1>1, <2>1, FollowsPart
  <2> QED
    BY <1>1, <2>2
<1>3. /\ Len(Entries(q)) = N
      /\ Entries(q) = [k \in 1 .. N |-> Stream(EN(A) + k)]
  <2> HIDE DEF A, q
  <2> QED
    BY <1>1, <1>2, EntriesAre
<1>4. EN(A) \in Nat /\ EN(A + n) \in Nat /\ EN(A + 1) \in Nat /\ EN(A + n) >= EN(A + 1) /\ EN(A + 1) > EN(A)
  <2> HIDE DEF A
  <2>1. A + 1 \in Nat /\ A + n \in Nat /\ A + 1 <= A + n
    BY <1>1
  <2>2. EN(A + n) - EN(A + 1) >= (A + n) - (A + 1)
    BY <2>1, ENMonotonic
  <2>3. EN(A + 1) - EN(A) >= (A + 1) - A
    BY <1>1, <2>1, ENMonotonic
  <2>4. EN(A) \in Nat /\ EN(A + n) \in Nat /\ EN(A + 1) \in Nat
    BY <1>1, <2>1, ENType
  <2> QED
    BY <1>1, <2>2, <2>3, <2>4
<1>5. sp < N /\ N \in Nat
  <2>1. sp = 0 \/ EN(A) + sp < EN(A + 1)
    BY <1>1 DEF HoldInOrder
  <2> HIDE DEF A, sp
  <2> QED
    BY <1>1, <1>4, <2>1
<1>6. \A k \in 1 .. N : Stream(EN(A) + k) \in FragmentSet
  <2> SUFFICES ASSUME NEW k \in 1 .. N PROVE Stream(EN(A) + k) \in FragmentSet
    OBVIOUS
  <2>1. EN(A) + k \in 1 .. EN(A + n) /\ A + n \in Nat
    BY <1>1, <1>4, <1>5
  <2>2. Stream(EN(A) + k) \in (1 .. A + n) \X {0, 1}
    <3> HIDE DEF A
    <3> QED
      BY <2>1, StreamType
  <2>3. A + n <= MaxTokens
    <3>1. Ahead(c) = c.total - c.stop - Len(c.hold)
      BY DEF Ahead, Reached
    <3>2. c.total \in 0 .. MaxTokens /\ c.stop \in 0 .. StopHold /\ MaxTokens \in Nat /\ StopHold \in Nat
      BY CountAssumption, BoundAssumption DEF Conversation
    <3> QED
      BY <1>1, <3>1, <3>2
  <2>4. MaxTokens \in Nat
    BY CountAssumption
  <2> HIDE DEF A
  <2> QED
    BY <1>1, <2>2, <2>3, <2>4 DEF FragmentSet
<1>7. Entries(q) \in Seq(FragmentSet)
  BY <1>3, <1>5, <1>6
<1>8. out = SubSeq(Entries(q), sp + 1, N)
  BY <1>3 DEF Unsent
<1> HIDE DEF A, q, sp, N, out
<1>9. Len(out) = N - sp /\ out \in Seq(FragmentSet)
  BY <1>1, <1>3, <1>5, <1>7, <1>8
<1>10. \A i \in 1 .. N - sp : out[i] = Entries(q)[sp + i]
  BY <1>1, <1>3, <1>5, <1>7, <1>8
<1>11. \A i \in 1 .. N - sp : out[i] = Stream(EN(A) + sp + i)
  <2> SUFFICES ASSUME NEW i \in 1 .. N - sp PROVE out[i] = Stream(EN(A) + sp + i)
    OBVIOUS
  <2>1. sp + i \in 1 .. N /\ EN(A) + (sp + i) = EN(A) + sp + i
    BY <1>1, <1>4, <1>5
  <2>2. Entries(q)[sp + i] = Stream(EN(A) + (sp + i))
    BY <1>3, <2>1
  <2> QED
    BY <1>10, <2>1, <2>2
<1> QED
  BY <1>1, <1>4, <1>5, <1>9, <1>11 DEF A, q, sp, N, out

\* what a flush does, in terms of the stream
LEMMA FlushEffect ==
  ASSUME NEW c \in Conversation, NEW r \in Seq(FragmentSet), Len(r) <= RingCapacity,
         HoldInOrder(c), NEW retain \in Nat, Len(c.hold) > retain
  PROVE  \E w \in 0 .. Len(c.hold) - retain, m \in Nat, sp \in Nat, sent \in Seq(FragmentSet) :
           /\ FlushHold(c, r, retain) =
                <<[c EXCEPT !.hold = SubSeq(c.hold, w + 1, Len(c.hold)),
                            !.staged = w # Len(c.hold) - retain, !.spilled = sp], r \o sent>>
           /\ Len(sent) = m /\ m <= RingCapacity - Len(r)
           /\ \A i \in 1 .. m : sent[i] = Stream(EN(Ahead(c)) + c.spilled + i)
           /\ EN(Ahead(c) + w) + sp = EN(Ahead(c)) + c.spilled + m
           /\ sp > 0 => w # Len(c.hold) - retain /\ EN(Ahead(c) + w) + sp < EN(Ahead(c) + w + 1)
           /\ w # Len(c.hold) - retain => Len(r) + m = RingCapacity
<1> DEFINE h == c.hold
           L == Len(c.hold)
           n == L - retain
           A == Ahead(c)
           out == Unsent(c, SubSeq(h, 1, n))
           m == Min({Len(out), RingCapacity - Len(r)})
           sent == SubSeq(out, 1, m)
           S == {j \in 0 .. n : EntryCount(h, j) <= c.spilled + Len(sent)}
           w == Max(S)
           sp == IF sent = out THEN 0 ELSE c.spilled + Len(sent) - EntryCount(h, w)
<1>1. FlushHold(c, r, retain) =
        <<[c EXCEPT !.hold = SubSeq(h, w + 1, L), !.staged = sent # out, !.spilled = sp], r \o sent>>
  <2>1. ~(Len(c.hold) <= retain)
    <3>1. Len(c.hold) \in Nat
      BY DEF Conversation
    <3> QED
      BY <3>1
  <2> QED
    BY <2>1 DEF FlushHold
<1>2. A \in Nat /\ L \in Nat /\ n \in 1 .. L /\ c.spilled \in Nat /\ Follows(h, A)
  BY DEF HoldInOrder, Conversation
<1>3. RingCapacity \in Nat /\ Len(r) \in Nat /\ RingCapacity - Len(r) \in Nat
  BY CountAssumption
<1>4. /\ Len(out) = EN(A + n) - (EN(A) + c.spilled) /\ Len(out) \in Nat
      /\ out \in Seq(FragmentSet)
      /\ \A i \in 1 .. Len(out) : out[i] = Stream(EN(A) + c.spilled + i)
  BY <1>2, FlushOut
<1>5. \A j \in 0 .. L : EntryCount(h, j) = EN(A + j) - EN(A) /\ EN(A + j) \in Nat
  <2>1. \A j \in 0 .. L : EntryCount(h, j) = EN(A + j) - EN(A)
    <3> HIDE DEF A
    <3> QED
      BY <1>2, CountShift
  <2>2. \A j \in 0 .. L : A + j \in Nat
    BY <1>2
  <2>3. \A j \in Nat : EN(j) \in Nat
    BY ENType
  <2> HIDE DEF A, L
  <2> QED
    BY <2>1, <2>2, <2>3
<1>6. EN(A) \in Nat /\ (c.spilled = 0 \/ EN(A) + c.spilled < EN(A + 1))
  <2>1. EN(A) \in Nat
    <3> HIDE DEF A
    <3> QED
      BY <1>2, ENType
  <2> QED
    BY <2>1, <1>2 DEF HoldInOrder
<1>7. m \in Nat /\ m <= Len(out) /\ m <= RingCapacity - Len(r) /\ (m = Len(out) \/ m = RingCapacity - Len(r))
  <2> DEFINE a == Len(out)
             b == RingCapacity - Len(r)
  <2>1. a \in Nat /\ b \in Nat
    BY <1>3, <1>4
  <2> HIDE DEF a, b
  <2>2. Min({a, b}) = IF a <= b THEN a ELSE b
    BY <2>1, MinOfTwo
  <2> QED
    BY <2>1, <2>2 DEF a, b
<1> HIDE DEF m
<1>8. /\ sent \in Seq(FragmentSet) /\ Len(sent) = m
      /\ \A i \in 1 .. m : sent[i] = Stream(EN(A) + c.spilled + i)
      /\ sent = out <=> m = Len(out)
  <2> HIDE DEF out, A
  <2>1. sent \in Seq(FragmentSet) /\ Len(sent) = m /\ \A i \in 1 .. m : sent[i] = out[i]
    BY <1>4, <1>7
  <2>2. m = Len(out) => sent = out
    BY <1>4, <2>1
  <2> QED
    BY <1>4, <1>7, <2>1, <2>2
<1> HIDE DEF sent, out
<1>9. w \in 0 .. n /\ EN(A + w) <= EN(A) + c.spilled + m /\ \A j \in w + 1 .. n : EN(A + j) > EN(A) + c.spilled + m
  <2>1. S \in SUBSET Nat /\ (\A x \in S : x <= n) /\ n \in Nat
    BY <1>2
  <2>2. 0 \in S
    <3>1. EntryCount(h, 0) = EN(A + 0) - EN(A) /\ A + 0 = A
      BY <1>2, <1>5
    <3>2. EntryCount(h, 0) = 0
      BY <3>1, <1>6
    <3> QED
      BY <1>2, <1>7, <1>8, <3>2
  <2>3. w \in S /\ \A x \in S : x <= w
    <3> HIDE DEF S
    <3> QED
      BY <2>1, <2>2, MaxOfBounded
  <2>4. \A j \in 0 .. n : j \in S <=> EN(A + j) <= EN(A) + c.spilled + m
    <3> SUFFICES ASSUME NEW j \in 0 .. n PROVE j \in S <=> EN(A + j) <= EN(A) + c.spilled + m
      OBVIOUS
    <3>1. j \in 0 .. L
      BY <1>2
    <3>2. EntryCount(h, j) = EN(A + j) - EN(A) /\ EN(A + j) \in Nat
      BY <1>5, <3>1
    <3> QED
      BY SMTT(30), <1>2, <1>6, <1>7, <1>8, <3>2
  <2>5. w \in 0 .. n
    BY <2>3
  <2> HIDE DEF S, w
  <2>6. ASSUME NEW j \in w + 1 .. n PROVE EN(A + j) > EN(A) + c.spilled + m
    <3>1. j \in 0 .. n /\ j \notin S
      BY <2>3, <2>5, <1>2
    <3>2. ~(EN(A + j) <= EN(A) + c.spilled + m)
      BY <2>4, <3>1
    <3>3. EN(A + j) \in Nat
      BY <1>2, <1>5, <3>1
    <3> QED
      BY <1>2, <1>6, <1>7, <3>2, <3>3
  <2> QED
    BY <2>3, <2>4, <2>5, <2>6
<1>10. w \in 0 .. L /\ EntryCount(h, w) = EN(A + w) - EN(A) /\ EN(A + w) \in Nat
  <2>1. w \in 0 .. L
    BY <1>2, <1>9
  <2> QED
    BY <2>1, <1>5
<1> HIDE DEF w
<1>11. sent = out <=> w = n
  <2>1. EN(A + n) \in Nat
    BY <1>2, <1>5
  <2>2. sent = out => EN(A + n) = EN(A) + c.spilled + m
    BY <1>2, <1>4, <1>6, <1>7, <1>8, <2>1
  <2>3. sent = out => w = n
    <3>1. w # n => n \in w + 1 .. n
      BY <1>2, <1>9
    <3>2. w # n => EN(A + n) > EN(A) + c.spilled + m
      BY <1>9, <3>1
    <3> QED
      BY <2>1, <2>2, <3>2
  <2>4. w = n => sent = out
    BY SMTT(30), <1>2, <1>4, <1>6, <1>7, <1>8, <1>9, <2>1
  <2> QED
    BY <2>3, <2>4
<1>12. sp \in Nat /\ EN(A + w) + sp = EN(A) + c.spilled + m
  <2>1. CASE sent = out
    <3>1. w = n /\ m = Len(out) /\ sp = 0
      BY <2>1, <1>8, <1>11
    <3>2. m = EN(A + w) - (EN(A) + c.spilled)
      BY <1>4, <3>1
    <3> HIDE DEF sp, A, n
    <3> QED
      BY <3>1, <3>2, <1>2, <1>6, <1>7, <1>10
  <2>2. CASE sent # out
    <3>1. sp = c.spilled + m - (EN(A + w) - EN(A))
      BY <2>2, <1>8, <1>10
    <3> HIDE DEF sp, A, n
    <3>2. EN(A) \in Nat /\ EN(A + w) \in Nat /\ c.spilled \in Nat /\ m \in Nat
      BY <1>2, <1>6, <1>7, <1>10
    <3>3. EN(A + w) <= EN(A) + c.spilled + m
      BY <1>9
    <3> QED
      BY <3>1, <3>2, <3>3
  <2> QED
    BY <2>1, <2>2
<1>13. sp > 0 => w # n /\ EN(A + w) + sp < EN(A + w + 1)
  <2> SUFFICES ASSUME sp > 0 PROVE w # n /\ EN(A + w) + sp < EN(A + w + 1)
    OBVIOUS
  <2>1. w # n
    BY <1>11
  <2>2. w + 1 \in w + 1 .. n /\ A + (w + 1) = A + w + 1
    BY SMTT(30), <1>2, <1>9, <2>1
  <2>3. EN(A + (w + 1)) > EN(A) + c.spilled + m
    BY <1>9, <2>2
  <2> QED
    BY <1>12, <2>1, <2>2, <2>3
<1>14. w # n => Len(r) + m = RingCapacity
  BY <1>3, <1>7, <1>8, <1>11
<1> HIDE DEF sp, A, n
<1>15. FlushHold(c, r, retain) =
        <<[c EXCEPT !.hold = SubSeq(h, w + 1, L), !.staged = w # n, !.spilled = sp], r \o sent>>
  BY <1>1, <1>11
<1> QED
  BY <1>7, <1>8, <1>9, <1>12, <1>13, <1>14, <1>15 DEF n, A

LEMMA StreamGrows ==
  ASSUME NEW g \in Seq(FragmentSet), NEW r \in Seq(FragmentSet), NEW sent \in Seq(FragmentSet), NEW k \in Nat,
         IsStream(g \o r, k), \A i \in 1 .. Len(sent) : sent[i] = Stream(k + i)
  PROVE  IsStream(g \o (r \o sent), k + Len(sent))
<1> DEFINE p == g \o r
           q == g \o (r \o sent)
<1>1. Len(g) \in Nat /\ Len(r) \in Nat /\ Len(sent) \in Nat /\ Len(p) = Len(g) + Len(r)
  OBVIOUS
<1>2. q \in Seq(FragmentSet) /\ Len(q) = k + Len(sent) /\ Len(p) = k
  BY <1>1 DEF IsStream
<1>3. ASSUME NEW i \in 1 .. k + Len(sent) PROVE q[i] = Stream(i)
  <2>1. CASE i <= k
    <3>1. q[i] = p[i]
      BY <1>1, <1>2, <2>1
    <3> QED
      BY <2>1, <3>1 DEF IsStream
  <2>2. CASE i > k
    <3> DEFINE j == i - k
    <3>1. j \in 1 .. Len(sent) /\ i = k + j
      BY <1>1, <2>2
    <3>2. q[i] = sent[j]
      BY <1>1, <1>2, <3>1
    <3> HIDE DEF j
    <3> QED
      BY <3>1, <3>2
  <2>3. i <= k \/ i > k
    BY <1>1
  <2> QED
    BY <2>1, <2>2, <2>3
<1> QED
  BY <1>2, <1>3 DEF IsStream

FlushResult(c, g, d, q) ==
  /\ d \in Conversation /\ HoldOnly(c, d)
  /\ q \in Seq(FragmentSet) /\ Len(q) <= RingCapacity
  /\ Aligned(d, g \o q)
  /\ Len(d.hold) <= Len(c.hold)

LEMMA FlushKeeps ==
  ASSUME NEW c \in Conversation, NEW g \in Seq(FragmentSet), NEW r \in Seq(FragmentSet), Len(r) <= RingCapacity,
         Aligned(c, g \o r), NEW retain \in Nat
  PROVE  LET f == FlushHold(c, r, retain)
         IN /\ f = <<f[1], f[2]>>
            /\ FlushResult(c, g, f[1], f[2])
            /\ Len(c.hold) <= retain => f[1] = c /\ f[2] = r
            /\ Len(c.hold) > retain => Len(f[1].hold) >= retain /\ (f[1].staged <=> Len(f[1].hold) > retain)
<1> DEFINE f == FlushHold(c, r, retain)
<1>0. Len(c.hold) \in Nat
  BY DEF Conversation
<1>1. CASE Len(c.hold) <= retain
  <2>1. f = <<c, r>>
    BY <1>1 DEF FlushHold
  <2> HIDE DEF f
  <2>2. f[1] = c /\ f[2] = r /\ f = <<f[1], f[2]>>
    BY <2>1
  <2>3. FlushResult(c, g, c, r)
    BY <1>0 DEF FlushResult, HoldOnly, SameInput
  <2> QED
    BY <1>0, <1>1, <2>2, <2>3 DEF f
<1>2. CASE Len(c.hold) > retain
  <2> DEFINE A == Ahead(c)
             L == Len(c.hold)
             n == L - retain
  <2>1. HoldInOrder(c) /\ IsStream(g \o r, EN(A) + c.spilled)
    BY DEF Aligned
  <2>2. PICK w \in 0 .. L - retain, m \in Nat, sp \in Nat, sent \in Seq(FragmentSet) :
           /\ FlushHold(c, r, retain) =
                <<[c EXCEPT !.hold = SubSeq(c.hold, w + 1, L), !.staged = w # L - retain, !.spilled = sp], r \o sent>>
           /\ Len(sent) = m /\ m <= RingCapacity - Len(r)
           /\ \A i \in 1 .. m : sent[i] = Stream(EN(A) + c.spilled + i)
           /\ EN(A + w) + sp = EN(A) + c.spilled + m
           /\ sp > 0 => w # L - retain /\ EN(A + w) + sp < EN(A + w + 1)
           /\ w # L - retain => Len(r) + m = RingCapacity
    BY <1>2, <2>1, FlushEffect
  <2> DEFINE left == SubSeq(c.hold, w + 1, L)
             d == [c EXCEPT !.hold = left, !.staged = w # n, !.spilled = sp]
  <2>3. f = <<d, r \o sent>>
    BY <2>2
  <2>4. A \in Nat /\ L \in Nat /\ n \in 1 .. L /\ w \in 0 .. n /\ w \in 0 .. L /\ c.spilled \in Nat /\ Follows(c.hold, A)
    BY SMTT(30), <1>0, <1>2, <2>1 DEF HoldInOrder, Conversation
  <2>5. Follows(left, A + w) /\ Len(left) = L - w /\ left \in Seq(1 .. MaxTokens)
    <3>1. w + 1 \in 1 .. L + 1 /\ L \in 0 .. L /\ w + 1 <= L + 1
      BY <2>4
    <3>2. Follows(left, A + (w + 1) - 1) /\ Len(left) = L - (w + 1) + 1
      <4> HIDE DEF A
      <4> QED
        BY SMTT(30), <2>4, <3>1, FollowsPart
    <3>3. A + (w + 1) - 1 = A + w /\ L - (w + 1) + 1 = L - w
      BY <2>4
    <3>4. left \in Seq(1 .. MaxTokens)
      <4>1. c.hold \in Seq(1 .. MaxTokens)
        BY DEF Conversation
      <4> QED
        BY <2>4, <3>1, <4>1, PartType
    <3> QED
      BY <3>2, <3>3, <3>4
  <2> HIDE DEF left
  <2>6. d \in Conversation /\ HoldOnly(c, d) /\ d.hold = left /\ (d.staged <=> w # n) /\ d.spilled = sp
    BY <2>2, <2>5 DEF Conversation, HoldOnly, SameInput
  <2> HIDE DEF d
  <2>7. Ahead(d) = A + w
    <3>1. c.total \in Nat /\ c.stop \in Nat
      BY CountAssumption, BoundAssumption DEF Conversation
    <3> QED
      BY <2>4, <2>5, <2>6, <3>1 DEF Ahead, Reached, HoldOnly
  <2>8. HoldInOrder(d)
    <3>1. d.staged => d.hold # << >>
      BY <1>0, <2>4, <2>5, <2>6
    <3>2. d.spilled > 0 => d.staged /\ EN(Ahead(d)) + d.spilled < EN(Ahead(d) + 1)
      BY <2>2, <2>6, <2>7
    <3>3. Ahead(d) \in Nat /\ Follows(d.hold, Ahead(d))
      BY <2>4, <2>5, <2>6, <2>7
    <3> QED
      BY <3>1, <3>2, <3>3 DEF HoldInOrder
  <2>9. IsStream(g \o (r \o sent), EN(Ahead(d)) + d.spilled)
    <3> DEFINE k == EN(A) + c.spilled
    <3>1. k \in Nat
      <4>1. EN(A) \in Nat
        <5> HIDE DEF A
        <5> QED
          BY <2>4, ENType
      <4> QED
        BY <4>1, <2>4
    <3>2. \A i \in 1 .. Len(sent) : sent[i] = Stream(k + i)
      BY <2>2
    <3>3. IsStream(g \o r, k)
      BY <2>1
    <3>4. EN(Ahead(d)) + d.spilled = k + Len(sent)
      BY <2>2, <2>6, <2>7
    <3> HIDE DEF k
    <3>5. IsStream(g \o (r \o sent), k + Len(sent))
      BY <3>1, <3>2, <3>3, StreamGrows
    <3> QED
      BY <3>4, <3>5
  <2>10. r \o sent \in Seq(FragmentSet) /\ Len(r \o sent) <= RingCapacity
    BY <2>2, CountAssumption
  <2>11. Len(d.hold) <= L /\ Len(d.hold) >= retain /\ (d.staged <=> Len(d.hold) > retain)
    BY SMTT(30), <1>0, <2>4, <2>5, <2>6
  <2> HIDE DEF f
  <2>12. f[1] = d /\ f[2] = r \o sent /\ f = <<f[1], f[2]>>
    BY <2>3
  <2>13. FlushResult(c, g, d, r \o sent)
    BY <2>6, <2>8, <2>9, <2>10, <2>11 DEF FlushResult, Aligned
  <2> QED
    BY SMTT(30), <1>2, <1>0, <2>11, <2>12, <2>13 DEF f
<1> QED
  BY <1>0, <1>1, <1>2

-----------------------------------------------------------------------------
(* Sampling and the end of a run *)

\* What is held of a conversation without a stream is nothing; q is what came
\* out of the conversation of s.
Kept(s, c, q) ==
  IF s \in Streamed THEN Aligned(c, q)
  ELSE c.hold = << >> /\ ~c.staged /\ c.spilled = 0 /\ q = << >>

\* The hold has the newest tokens, as many as a stop sequence may take back, and
\* one more just when that one waits for the ring.
Filled(s, c) ==
  /\ s \in Streamed => StopHold <= Len(c.hold) \/ c.total <= Len(c.hold)
  /\ c.staged <=> Len(c.hold) > StopHold

\* the hold of a run that goes on, and what is certain of one that is to end
HoldFilled(s, c) ==
  /\ ~c.ending => c.stop = 0 /\ c.total < MaxTokens /\ Filled(s, c)
  /\ c.ending => ~c.pending /\ c.total > 0 /\ ~HasChunk(c)

\* d and q are a conversation and its ring, with g what the reader has taken
Going(s, g, d, q) ==
  /\ d \in Conversation
  /\ q \in Seq(FragmentSet) /\ Len(q) <= RingCapacity
  /\ Kept(s, d, g \o q)
  /\ Len(d.hold) <= StopHold + 1

Sampling(s, g, c, r) ==
  /\ Going(s, g, c, r)
  /\ HoldFilled(s, c)
  /\ c.state = "decoding" /\ ~c.ending /\ ~c.staged /\ ~HasChunk(c)

LEMMA ConstTypes ==
  /\ MaxTokens \in Nat /\ MaxTokens > 0 /\ StopHold \in Nat /\ RingCapacity \in Nat /\ RingCapacity > 0
  /\ MaxSlots \in Nat /\ MaxSlots > 0 /\ MaxBatch \in Nat /\ MaxBatch > 0 /\ PromptCap \in Nat /\ PromptCap > 0
  /\ CtxSize \in Nat /\ MaxChunks \in Nat
BY CountAssumption, BoundAssumption, ChunkAssumption

LEMMA ConvTypes ==
  ASSUME NEW c \in Conversation
  PROVE  /\ c.total \in Nat /\ c.total <= MaxTokens /\ c.stop \in Nat /\ c.stop <= StopHold
         /\ c.spilled \in Nat /\ Len(c.hold) \in Nat /\ c.hold \in Seq(1 .. MaxTokens)
         /\ c.pending \in BOOLEAN /\ c.staged \in BOOLEAN /\ c.ending \in BOOLEAN /\ c.dirty \in BOOLEAN
BY ConstTypes DEF Conversation

LEMMA CountedKeeps ==
  ASSUME NEW s \in Slots, NEW g \in Seq(FragmentSet), NEW c, NEW r, Sampling(s, g, c, r), NEW o
  PROVE  LET d == Counted(s, c, o)
         IN /\ Going(s, g, d, r)
            /\ s \in Streamed => Len(d.hold) = Len(c.hold) + 1 /\ Len(c.hold) <= StopHold
            /\ SameInput(c, d) /\ d.state = "decoding" /\ d.total = c.total + 1 /\ d.stop = 0
            /\ d.pending = ~IsLast(c, o) /\ d.ending = c.ending /\ d.staged = c.staged /\ d.spilled = c.spilled
            /\ d.spilled = 0
<1> DEFINE d == Counted(s, c, o)
<1>1. c \in Conversation /\ HoldFilled(s, c) /\ Kept(s, c, g \o r) /\ c.state = "decoding" /\ ~c.ending /\ ~c.staged
  BY DEF Sampling, Going
<1>2. /\ c.total \in Nat /\ c.total < MaxTokens /\ c.stop = 0 /\ Len(c.hold) \in Nat /\ Len(c.hold) <= StopHold
      /\ c.hold \in Seq(1 .. MaxTokens) /\ c.spilled \in Nat
  BY <1>1, ConvTypes, ConstTypes DEF HoldFilled, Filled
<1>3. c.spilled = 0
  BY <1>1, <1>2 DEF Kept, Aligned, HoldInOrder
<1>4. IsLast(c, o) \in BOOLEAN
  BY DEF IsLast
<1> DEFINE h == IF s \in Streamed THEN Append(c.hold, c.total + 1) ELSE c.hold
<1>5. h \in Seq(1 .. MaxTokens)
  <2>1. c.total + 1 \in 1 .. MaxTokens
    BY <1>2, ConstTypes
  <2>2. Append(c.hold, c.total + 1) \in Seq(1 .. MaxTokens)
    BY <1>2, <2>1, AppendFacts
  <2> QED
    BY <1>2, <2>2
<1>6. d = [c EXCEPT !.total = c.total + 1, !.pending = ~IsLast(c, o), !.hold = h]
  BY DEF Counted
<1> HIDE DEF h
<1>7. /\ d \in Conversation /\ SameInput(c, d) /\ d.state = c.state /\ d.total = c.total + 1 /\ d.stop = c.stop
      /\ d.pending = ~IsLast(c, o) /\ d.ending = c.ending /\ d.staged = c.staged /\ d.spilled = c.spilled /\ d.hold = h
  <2>1. c.total + 1 \in 0 .. MaxTokens
    BY <1>2, ConstTypes
  <2> HIDE DEF d
  <2> QED
    BY <1>1, <1>4, <1>5, <1>6, <2>1 DEF Conversation, SameInput
<1> HIDE DEF d
<1>8. CASE s \in Streamed
  <2>1. h = Append(c.hold, c.total + 1) /\ Len(h) = Len(c.hold) + 1
    BY <1>2, <1>8 DEF h
  <2>2. Aligned(c, g \o r)
    BY <1>1, <1>8 DEF Kept
  <2>3. Ahead(c) \in Nat /\ Ahead(d) = Ahead(c) /\ c.total = Ahead(c) + Len(c.hold)
    <3>1. Ahead(c) \in Nat
      BY <2>2 DEF Aligned, HoldInOrder
    <3>2. Ahead(c) = c.total - 0 - Len(c.hold)
      BY <1>2 DEF Ahead, Reached
    <3>3. Ahead(d) = (c.total + 1) - 0 - (Len(c.hold) + 1)
      BY <1>2, <1>7, <2>1 DEF Ahead, Reached
    <3>4. c.total \in Nat /\ Len(c.hold) \in Nat
      BY <1>2
    <3> QED
      BY <3>1, <3>2, <3>3, <3>4
  <2>4. Follows(d.hold, Ahead(d))
    <3>1. Follows(c.hold, Ahead(c))
      BY <2>2 DEF Aligned, HoldInOrder
    <3>2. h \in Seq(Nat)
      <4>1. c.hold \in Seq(Nat) /\ c.total + 1 \in Nat
        BY <1>2, <3>1 DEF Follows
      <4> QED
        BY <2>1, <4>1
    <3>3. ASSUME NEW i \in 1 .. Len(h) PROVE h[i] = Ahead(c) + i
      <4>1. CASE i = Len(c.hold) + 1
        <5>1. h[i] = c.total + 1
          BY <1>2, <2>1, <4>1
        <5> QED
          BY <1>2, <2>3, <4>1, <5>1
      <4>2. CASE i # Len(c.hold) + 1
        <5>1. i \in 1 .. Len(c.hold)
          BY <1>2, <2>1, <4>2
        <5>2. h[i] = c.hold[i]
          BY <1>2, <2>1, <5>1
        <5> QED
          BY <3>1, <5>1, <5>2 DEF Follows
      <4> QED
        BY <4>1, <4>2
    <3> QED
      BY <1>7, <2>3, <3>2, <3>3 DEF Follows
  <2>5. Aligned(d, g \o r)
    BY <1>1, <1>3, <1>7, <2>2, <2>3, <2>4 DEF Aligned, HoldInOrder
  <2>6. Going(s, g, d, r)
    <3>1. Len(d.hold) <= StopHold + 1
      BY <1>2, <1>7, <2>1, ConstTypes
    <3> QED
      BY <1>7, <1>8, <2>5, <3>1 DEF Going, Kept, Sampling
  <2> QED
    BY <1>1, <1>2, <1>3, <1>7, <1>8, <2>1, <2>6 DEF d
<1>9. CASE s \notin Streamed
  <2>1. d.hold = << >>
    BY <1>1, <1>7, <1>9 DEF h, Kept
  <2>2. Going(s, g, d, r)
    BY <1>1, <1>2, <1>3, <1>7, <1>9, <2>1, ConstTypes DEF Going, Kept, Sampling
  <2> QED
    BY <1>1, <1>2, <1>3, <1>7, <1>9, <2>1, <2>2 DEF d
<1> QED
  BY <1>8, <1>9

\* the token that was counted, and what it pushes out of the hold
Pushed(s, c, r, o) ==
  IF s \in Streamed THEN FlushHold(Counted(s, c, o), r, Retain)
                    ELSE <<[Counted(s, c, o) EXCEPT !.staged = FALSE], r>>

\* d is c with one more token sampled
OneMore(c, d) == SameInput(c, d) /\ d.state = "decoding" /\ d.total = c.total + 1

LEMMA PushedKeeps ==
  ASSUME NEW s \in Slots, NEW g \in Seq(FragmentSet), NEW c, NEW r, Sampling(s, g, c, r), NEW o
  PROVE  LET p == Pushed(s, c, r, o)
         IN /\ p = <<p[1], p[2]>>
            /\ Going(s, g, p[1], p[2]) /\ Filled(s, p[1])
            /\ OneMore(c, p[1]) /\ p[1].stop = 0
            /\ p[1].pending = ~IsLast(c, o) /\ ~p[1].ending
<1> DEFINE d == Counted(s, c, o)
           p == Pushed(s, c, r, o)
<1>1. /\ Going(s, g, d, r)
      /\ s \in Streamed => Len(d.hold) = Len(c.hold) + 1 /\ Len(c.hold) <= StopHold
      /\ SameInput(c, d) /\ d.state = "decoding" /\ d.total = c.total + 1 /\ d.stop = 0
      /\ d.pending = ~IsLast(c, o) /\ d.ending = c.ending /\ d.staged = c.staged /\ d.spilled = 0
  BY CountedKeeps
<1>2. HoldFilled(s, c) /\ ~c.ending /\ ~c.staged /\ c \in Conversation
  BY DEF Sampling, Going
<1>3. d \in Conversation /\ r \in Seq(FragmentSet) /\ Len(r) <= RingCapacity /\ Len(d.hold) \in Nat /\ StopHold \in Nat
  BY <1>1, ConvTypes, ConstTypes DEF Going
<1> HIDE DEF d
<1>4. CASE s \in Streamed
  <2> DEFINE f == FlushHold(d, r, StopHold)
  <2>1. p = f
    BY <1>4 DEF Pushed, Retain, d
  <2>2. Aligned(d, g \o r)
    BY <1>1, <1>4 DEF Going, Kept
  <2>3. /\ f = <<f[1], f[2]>>
        /\ FlushResult(d, g, f[1], f[2])
        /\ Len(d.hold) <= StopHold => f[1] = d /\ f[2] = r
        /\ Len(d.hold) > StopHold => Len(f[1].hold) >= StopHold /\ (f[1].staged <=> Len(f[1].hold) > StopHold)
    BY <1>3, <2>2, FlushKeeps
  <2> HIDE DEF f
  <2>4. /\ f[1] \in Conversation /\ HoldOnly(d, f[1]) /\ f[2] \in Seq(FragmentSet) /\ Len(f[2]) <= RingCapacity
        /\ Aligned(f[1], g \o f[2]) /\ Len(f[1].hold) <= Len(d.hold)
    BY <2>3 DEF FlushResult
  <2>5. Going(s, g, f[1], f[2])
    <3>1. Len(f[1].hold) \in Nat /\ Len(d.hold) <= StopHold + 1
      <4>1. Len(d.hold) <= StopHold + 1
        BY <1>1 DEF Going
      <4> QED
        BY <2>4, <4>1, ConvTypes
    <3>2. Len(f[1].hold) <= StopHold + 1
      BY <1>3, <2>4, <3>1
    <3> QED
      BY <1>4, <2>4, <3>2 DEF Going, Kept
  <2>6. Filled(s, f[1])
    <3>1. StopHold <= Len(c.hold) \/ c.total <= Len(c.hold)
      BY <1>2, <1>4 DEF HoldFilled, Filled
    <3>2. Len(c.hold) \in Nat /\ c.total \in Nat /\ f[1].total = d.total /\ Len(f[1].hold) \in Nat
      BY <1>2, <2>4, ConvTypes DEF HoldOnly
    <3>3. CASE Len(d.hold) <= StopHold
      <4>1. f[1] = d
        BY <2>3, <3>3
      <4>2. ~d.staged
        BY <1>1, <1>2
      <4>3. d.total <= Len(d.hold)
        BY <1>1, <1>3, <1>4, <3>1, <3>2, <3>3
      <4> QED
        BY <1>3, <3>3, <4>1, <4>2, <4>3 DEF Filled
    <3>4. CASE Len(d.hold) > StopHold
      BY <2>3, <3>4 DEF Filled
    <3> QED
      BY <1>3, <3>3, <3>4
  <2>7. OneMore(c, f[1]) /\ f[1].stop = 0 /\ f[1].pending = ~IsLast(c, o) /\ ~f[1].ending
    BY <1>1, <1>2, <2>4 DEF OneMore, HoldOnly, SameInput
  <2> HIDE DEF p
  <2> QED
    BY <2>1, <2>3, <2>5, <2>6, <2>7 DEF p
<1>5. CASE s \notin Streamed
  <2>1. ~d.staged
    BY <1>1, <1>2
  <2>2. [d EXCEPT !.staged = FALSE] = d
    BY <1>3, <2>1 DEF Conversation
  <2>3. p = <<d, r>>
    BY <1>5, <2>2 DEF Pushed, d
  <2> HIDE DEF p
  <2>4. p[1] = d /\ p[2] = r /\ p = <<p[1], p[2]>>
    BY <2>3
  <2>5. Filled(s, d)
    <3>1. d.hold = << >>
      BY <1>1, <1>5 DEF Going, Kept
    <3> QED
      BY <1>3, <1>5, <2>1, <3>1 DEF Filled
  <2>6. OneMore(c, d)
    BY <1>1 DEF OneMore
  <2> QED
    BY <1>1, <1>2, <2>4, <2>5, <2>6 DEF p
<1> QED
  BY <1>4, <1>5

\* a stop sequence that is taken back was held
LEMMA TakeBackKeeps ==
  ASSUME NEW s \in Streamed, NEW g \in Seq(FragmentSet), NEW c, NEW r, Going(s, g, c, r), Filled(s, c),
         c.stop = 0, NEW n \in 1 .. StopHold, n <= c.total
  PROVE  LET d == TakeBack(c, n)
         IN /\ Going(s, g, d, r) /\ SameInput(c, d)
            /\ d.state = c.state /\ d.total = c.total /\ d.pending = c.pending /\ d.ending = c.ending
<1> DEFINE L == Len(c.hold)
           d == TakeBack(c, n)
           h == SubSeq(c.hold, 1, L - n)
<1>1. /\ c \in Conversation /\ r \in Seq(FragmentSet) /\ Len(r) <= RingCapacity
      /\ Aligned(c, g \o r) /\ L <= StopHold + 1
  BY DEF Going, Kept
<1>2. /\ StopHold \in Nat /\ L \in Nat /\ c.hold \in Seq(1 .. MaxTokens) /\ c.total \in Nat /\ c.spilled \in Nat
      /\ c.staged \in BOOLEAN /\ n \in Nat
  BY <1>1, ConvTypes, ConstTypes
<1>3. n <= L
  BY <1>2 DEF Filled
<1>4. Min({n, L}) = n
  BY <1>2, <1>3, MinOfTwo
<1>5. d = [c EXCEPT !.hold = h, !.stop = n]
  BY <1>4 DEF TakeBack
<1>6. h \in Seq(1 .. MaxTokens) /\ Len(h) = L - n
  <2>1. L - n \in 0 .. L /\ 1 \in 1 .. L + 1
    BY <1>2, <1>3
  <2>2. h \in Seq(1 .. MaxTokens)
    BY <1>2, <2>1, PartType
  <2>3. Len(h) = L - n
    BY <1>2, <2>1
  <2> QED
    BY <2>2, <2>3
<1>7. Follows(c.hold, Ahead(c)) /\ Ahead(c) \in Nat
  BY <1>1 DEF Aligned, HoldInOrder
<1>8. Follows(h, Ahead(c))
  <2>1. \A i \in 1 .. Len(h) : i \in 1 .. L /\ h[i] = c.hold[i]
    BY <1>2, <1>3
  <2>2. h \in Seq(Nat)
    <3>1. L - n \in 0 .. L /\ 1 \in 1 .. L + 1 /\ c.hold \in Seq(Nat)
      BY <1>2, <1>3, <1>7 DEF Follows
    <3> QED
      BY <3>1, PartType
  <2> QED
    BY <1>7, <2>1, <2>2 DEF Follows
<1> HIDE DEF h, d
<1>9. /\ d \in Conversation /\ SameInput(c, d) /\ d.state = c.state /\ d.total = c.total /\ d.pending = c.pending
      /\ d.ending = c.ending /\ d.staged = c.staged /\ d.spilled = c.spilled /\ d.hold = h /\ d.stop = n
  <2>1. n \in 0 .. StopHold
    BY <1>2
  <2> QED
    BY <1>1, <1>5, <1>6, <2>1 DEF Conversation, SameInput
<1>10. Ahead(d) = Ahead(c)
  <2>1. Ahead(c) = c.total - 0 - L
    BY DEF Ahead, Reached
  <2>2. Ahead(d) = c.total - n - (L - n)
    BY <1>6, <1>9 DEF Ahead, Reached
  <2> QED
    BY SMTT(30), <1>2, <2>1, <2>2
<1>11. d.staged => d.hold # << >>
  <2>1. d.staged => L > StopHold
    BY <1>9 DEF Filled
  <2>2. d.staged => L - n > 0
    BY <1>2, <2>1
  <2> QED
    BY <1>6, <1>9, <2>2
<1>12. Aligned(d, g \o r)
  BY <1>1, <1>7, <1>8, <1>9, <1>10, <1>11 DEF Aligned, HoldInOrder
<1>13. Len(d.hold) <= StopHold + 1
  BY <1>1, <1>2, <1>6, <1>9
<1>14. Going(s, g, d, r)
  BY <1>1, <1>9, <1>12, <1>13 DEF Going, Kept
<1> QED
  BY <1>9, <1>14 DEF d

\* One more token was sampled, counted and held.
Advanced(s, g, c, d, q) ==
  Going(s, g, d, q) /\ HoldFilled(s, d) /\ OneMore(c, d) /\ (d.pending <=> ~d.ending)

LEMMA HeldKeeps ==
  ASSUME NEW s \in Slots, NEW g \in Seq(FragmentSet), NEW c, NEW r, Sampling(s, g, c, r), NEW o \in Outcomes(c)
  PROVE  LET h == Held(s, c, r, o)
         IN h = <<h[1], h[2]>> /\ Advanced(s, g, c, h[1], h[2])
<1> DEFINE p == Pushed(s, c, r, o)
           k == IF o.kind = "stop" /\ s \in Streamed THEN TakeBack(p[1], o.len) ELSE p[1]
           e == [k EXCEPT !.ending = IsLast(c, o)]
           h == Held(s, c, r, o)
<1>1. h = <<e, p[2]>>
  BY DEF Held, Pushed
<1>2. /\ Going(s, g, p[1], p[2]) /\ Filled(s, p[1]) /\ OneMore(c, p[1]) /\ p[1].stop = 0
      /\ p[1].pending = ~IsLast(c, o) /\ ~p[1].ending
  BY PushedKeeps
<1> HIDE DEF p
<1>3. /\ c \in Conversation /\ c.total \in Nat /\ StopHold \in Nat /\ MaxTokens \in Nat /\ MaxTokens > 0 /\ ~HasChunk(c)
      /\ IsLast(c, o) \in BOOLEAN
  BY ConvTypes, ConstTypes DEF Sampling, Going, IsLast
<1>4. Going(s, g, k, p[2]) /\ OneMore(c, k) /\ k.pending = ~IsLast(c, o)
  <2>1. CASE o.kind = "stop" /\ s \in Streamed
    <3>1. o.len \in 1 .. Min({StopHold, c.total + 1})
      BY <2>1 DEF Outcomes
    <3>2. o.len \in 1 .. StopHold /\ o.len <= c.total + 1
      <4>1. Min({StopHold, c.total + 1}) = IF StopHold <= c.total + 1 THEN StopHold ELSE c.total + 1
        BY <1>3, MinOfTwo
      <4> QED
        BY <1>3, <3>1, <4>1
    <3>3. p[1].total = c.total + 1
      BY <1>2 DEF OneMore
    <3>4. LET d == TakeBack(p[1], o.len)
          IN /\ Going(s, g, d, p[2]) /\ SameInput(p[1], d)
             /\ d.state = p[1].state /\ d.total = p[1].total /\ d.pending = p[1].pending /\ d.ending = p[1].ending
      BY <1>2, <2>1, <3>2, <3>3, TakeBackKeeps
    <3> QED
      BY <1>2, <2>1, <3>4 DEF OneMore, SameInput
  <2>2. CASE ~(o.kind = "stop" /\ s \in Streamed)
    <3>1. k = p[1]
      BY <2>2
    <3> QED
      BY <1>2, <3>1
  <2> QED
    BY <2>1, <2>2
<1>5. ~IsLast(c, o) => k = p[1] /\ c.total + 1 < MaxTokens
  BY <1>3 DEF IsLast
<1> HIDE DEF k
<1>6. k \in Conversation
  BY <1>4 DEF Going
<1>7. /\ e \in Conversation /\ SameInput(k, e) /\ e.state = k.state /\ e.total = k.total /\ e.pending = k.pending
      /\ e.ending = IsLast(c, o) /\ e.staged = k.staged /\ e.spilled = k.spilled /\ e.hold = k.hold /\ e.stop = k.stop
  BY <1>3, <1>6 DEF Conversation, SameInput
<1> HIDE DEF e
<1>8. Going(s, g, e, p[2])
  BY <1>4, <1>7 DEF Going, Kept, Aligned, HoldInOrder, Ahead, Reached
<1>9. OneMore(c, e) /\ (e.pending <=> ~e.ending)
  BY <1>3, <1>4, <1>7 DEF OneMore, SameInput
<1>10. HoldFilled(s, e)
  <2>1. CASE IsLast(c, o)
    <3>1. e.total > 0 /\ ~HasChunk(e)
      BY <1>3, <1>9 DEF OneMore, SameInput, HasChunk
    <3> QED
      BY <1>7, <1>9, <2>1, <3>1 DEF HoldFilled
  <2>2. CASE ~IsLast(c, o)
    <3>1. e.total < MaxTokens /\ e.stop = 0
      BY <1>2, <1>3, <1>5, <1>7, <2>2 DEF OneMore
    <3>2. Filled(s, e)
      BY <1>2, <1>5, <1>7, <2>2 DEF Filled
    <3> QED
      BY <1>7, <2>2, <3>1, <3>2 DEF HoldFilled
  <2> QED
    BY <1>3, <2>1, <2>2
<1> HIDE DEF h
<1>11. h[1] = e /\ h[2] = p[2] /\ h = <<h[1], h[2]>>
  BY <1>1
<1> QED
  BY <1>8, <1>9, <1>10, <1>11 DEF Advanced, h

\* d has been sampled no further than c, and completes no run but one that ends.
Finished(s, g, c, d, q) ==
  /\ Going(s, g, d, q) /\ SameInput(c, d) /\ d.total = c.total /\ d.pending = c.pending
  /\ \/ d.state = "decoding" /\ HoldFilled(s, d) /\ d.ending = c.ending
     \/ d.state = "completed" /\ c.ending /\ d.hold = << >>

LEMMA FinishKeeps ==
  ASSUME NEW s \in Slots, NEW g \in Seq(FragmentSet), NEW c, NEW r,
         Going(s, g, c, r), HoldFilled(s, c), c.state = "decoding"
  PROVE  LET f == Finish(s, c, r)
         IN f = <<f[1], f[2]>> /\ Finished(s, g, c, f[1], f[2])
<1> DEFINE f == Finish(s, c, r)
           e == IF s \in Streamed THEN FlushHold(c, r, 0) ELSE <<c, r>>
<1>1. /\ c \in Conversation /\ Len(c.hold) \in Nat /\ c.staged \in BOOLEAN /\ c.ending \in BOOLEAN
      /\ r \in Seq(FragmentSet) /\ Len(r) <= RingCapacity
  BY ConvTypes DEF Going
<1>2. CASE ~c.ending
  <2>1. f = <<c, r>>
    BY <1>2 DEF Finish
  <2> HIDE DEF f
  <2>2. f[1] = c /\ f[2] = r /\ f = <<f[1], f[2]>>
    BY <2>1
  <2>3. Finished(s, g, c, c, r)
    BY DEF Finished, SameInput
  <2> QED
    BY <2>2, <2>3 DEF f
<1>3. CASE c.ending
  <2>1. /\ e = <<e[1], e[2]>>
        /\ Going(s, g, e[1], e[2]) /\ HoldOnly(c, e[1])
        /\ s \notin Streamed => e[1] = c
    <3>1. CASE s \in Streamed
      <4> DEFINE x == FlushHold(c, r, 0)
      <4>1. Aligned(c, g \o r) /\ 0 \in Nat
        BY <3>1 DEF Going, Kept
      <4>2. x = <<x[1], x[2]>> /\ FlushResult(c, g, x[1], x[2])
        BY <1>1, <4>1, FlushKeeps
      <4> HIDE DEF x
      <4>3. Len(x[1].hold) <= StopHold + 1
        <5>1. Len(x[1].hold) \in Nat /\ Len(x[1].hold) <= Len(c.hold)
          BY <4>2, ConvTypes DEF FlushResult
        <5>2. Len(c.hold) <= StopHold + 1
          BY DEF Going
        <5> QED
          BY <1>1, <5>1, <5>2, ConstTypes
      <4>4. Going(s, g, x[1], x[2]) /\ HoldOnly(c, x[1])
        BY <3>1, <4>2, <4>3 DEF Going, Kept, FlushResult
      <4>5. e = x
        BY <3>1 DEF x
      <4> HIDE DEF e
      <4> QED
        BY <3>1, <4>2, <4>4, <4>5
    <3>2. CASE s \notin Streamed
      <4>1. e = <<c, r>>
        BY <3>2
      <4> HIDE DEF e
      <4>2. e[1] = c /\ e[2] = r /\ e = <<e[1], e[2]>>
        BY <4>1
      <4> QED
        BY <4>2 DEF HoldOnly, SameInput
    <3> QED
      BY <3>1, <3>2
  <2> DEFINE d == IF e[1].staged \/ e[1].hold # << >> THEN e[1]
                  ELSE [e[1] EXCEPT !.ending = FALSE, !.state = "completed"]
  <2>2. f = <<d, e[2]>>
    BY <1>3 DEF Finish
  <2> HIDE DEF e
  <2>3. e[1] \in Conversation
    BY <2>1 DEF Going
  <2>4. Finished(s, g, c, d, e[2])
    <3>1. CASE e[1].staged \/ e[1].hold # << >>
      <4>1. d = e[1]
        BY <3>1
      <4>2. d.state = "decoding" /\ d.ending = c.ending
        BY <2>1, <4>1 DEF HoldOnly
      <4>3. HoldFilled(s, d)
        BY <1>3, <2>1, <4>1 DEF HoldFilled, HoldOnly, SameInput, HasChunk
      <4> QED
        BY <2>1, <4>1, <4>2, <4>3 DEF Finished, HoldOnly
    <3>2. CASE ~(e[1].staged \/ e[1].hold # << >>)
      <4>1. d = [e[1] EXCEPT !.ending = FALSE, !.state = "completed"]
        BY <3>2
      <4> HIDE DEF d
      <4>2. /\ d \in Conversation /\ d.state = "completed" /\ SameInput(e[1], d) /\ d.total = e[1].total
            /\ d.stop = e[1].stop /\ d.pending = e[1].pending /\ d.hold = e[1].hold /\ d.staged = e[1].staged
            /\ d.spilled = e[1].spilled
        BY <2>3, <4>1 DEF Conversation, SameInput
      <4>3. Going(s, g, d, e[2])
        BY <2>1, <4>2 DEF Going, Kept, Aligned, HoldInOrder, Ahead, Reached
      <4>4. SameInput(c, d) /\ d.total = c.total /\ d.pending = c.pending
        BY <2>1, <4>2 DEF HoldOnly, SameInput
      <4> QED
        BY <1>3, <3>2, <4>2, <4>3, <4>4 DEF Finished
    <3> QED
      BY <3>1, <3>2
  <2> HIDE DEF f, d
  <2>5. f[1] = d /\ f[2] = e[2] /\ f = <<f[1], f[2]>>
    BY <2>2
  <2> QED
    BY <2>4, <2>5 DEF f
<1> QED
  BY <1>1, <1>2, <1>3

\* What a sampled token leaves: a run that goes on or one that is complete.
AfterSample(s, g, c, d, q) ==
  /\ Going(s, g, d, q) /\ SameInput(c, d) /\ d.total = c.total + 1
  /\ \/ d.state = "decoding" /\ HoldFilled(s, d) /\ (d.pending <=> ~d.ending)
     \/ d.state = "completed" /\ d.hold = << >>

LEMMA SampledKeeps ==
  ASSUME NEW s \in Slots, NEW g \in Seq(FragmentSet), NEW c, NEW r, Sampling(s, g, c, r), NEW o \in Outcomes(c)
  PROVE  LET f == Sampled(s, c, r, o)
         IN f = <<f[1], f[2]>> /\ AfterSample(s, g, c, f[1], f[2])
<1> DEFINE h == Held(s, c, r, o)
           f == Sampled(s, c, r, o)
           k == Finish(s, h[1], h[2])
<1>1. Advanced(s, g, c, h[1], h[2])
  BY HeldKeeps
<1>2. f = k
  BY DEF Sampled
<1> HIDE DEF h
<1>3. /\ Going(s, g, h[1], h[2]) /\ HoldFilled(s, h[1]) /\ h[1].state = "decoding"
      /\ OneMore(c, h[1]) /\ (h[1].pending <=> ~h[1].ending)
  BY <1>1 DEF Advanced, OneMore
<1>4. k = <<k[1], k[2]>> /\ Finished(s, g, h[1], k[1], k[2])
  BY <1>3, FinishKeeps
<1> HIDE DEF k
<1>5. AfterSample(s, g, c, k[1], k[2])
  BY <1>3, <1>4 DEF Finished, AfterSample, OneMore, SameInput
<1> HIDE DEF f
<1> QED
  BY <1>2, <1>4, <1>5 DEF f

LEMMA FlushFailuresKeep ==
  ASSUME NEW s \in Slots, NEW g \in Seq(FragmentSet), NEW c, NEW r, Going(s, g, c, r), NEW retain \in Nat,
         NEW x \in FlushFailures(c, r, retain)
  PROVE  x = <<x[1], x[2]>> /\ Going(s, g, x[1], x[2]) /\ x[1].state = "failed" /\ SameInput(c, x[1])
<1>1. PICK n \in retain + 1 .. Len(c.hold) :
        x = <<Fail(FlushHold(c, r, n)[1]), FlushHold(c, r, n)[2]>>
  BY DEF FlushFailures
<1>2. c \in Conversation /\ Len(c.hold) \in Nat /\ r \in Seq(FragmentSet) /\ Len(r) <= RingCapacity
  BY ConvTypes DEF Going
<1>3. n \in Nat /\ c.hold # << >>
  BY <1>1, <1>2
<1>4. s \in Streamed /\ Aligned(c, g \o r)
  BY <1>3 DEF Going, Kept
<1> DEFINE f == FlushHold(c, r, n)
<1>5. FlushResult(c, g, f[1], f[2])
  BY <1>2, <1>3, <1>4, FlushKeeps
<1> HIDE DEF f
<1>6. /\ f[1] \in Conversation /\ HoldOnly(c, f[1]) /\ f[2] \in Seq(FragmentSet) /\ Len(f[2]) <= RingCapacity
      /\ Aligned(f[1], g \o f[2]) /\ Len(f[1].hold) <= Len(c.hold)
  BY <1>5 DEF FlushResult
<1> DEFINE d == Fail(f[1])
<1>7. /\ d \in Conversation /\ d.state = "failed" /\ SameInput(f[1], d) /\ d.total = f[1].total /\ d.stop = f[1].stop
      /\ d.hold = f[1].hold /\ d.staged = f[1].staged /\ d.spilled = f[1].spilled
  BY <1>6 DEF Fail, Conversation, SameInput
<1> HIDE DEF d
<1>8. Aligned(d, g \o f[2])
  BY <1>6, <1>7 DEF Aligned, HoldInOrder, Ahead, Reached
<1>9. Len(d.hold) <= StopHold + 1
  <2>1. Len(c.hold) <= StopHold + 1
    BY DEF Going
  <2>2. Len(d.hold) \in Nat
    BY <1>7, ConvTypes
  <2> QED
    BY <1>2, <1>6, <1>7, <2>1, <2>2, ConstTypes
<1>10. Going(s, g, d, f[2]) /\ SameInput(c, d)
  BY <1>4, <1>6, <1>7, <1>8, <1>9 DEF Going, Kept, HoldOnly, SameInput
<1>11. x[1] = d /\ x[2] = f[2] /\ x = <<x[1], x[2]>>
  BY <1>1 DEF d, f
<1> QED
  BY <1>7, <1>10, <1>11

LEMMA SampledFailuresKeep ==
  ASSUME NEW s \in Slots, NEW g \in Seq(FragmentSet), NEW c, NEW r, Sampling(s, g, c, r), NEW o \in Outcomes(c),
         NEW x \in SampledFailures(s, c, r, o)
  PROVE  x = <<x[1], x[2]>> /\ Going(s, g, x[1], x[2]) /\ x[1].state = "failed" /\ SameInput(c, x[1])
<1> DEFINE h == Held(s, c, r, o)
           d == Counted(s, c, o)
<1>1. Going(s, g, d, r) /\ SameInput(c, d)
  BY CountedKeeps
<1>2. Advanced(s, g, c, h[1], h[2])
  BY HeldKeeps
<1>3. x \in FlushFailures(d, r, StopHold) \/ x \in FlushFailures(h[1], h[2], 0)
  BY DEF SampledFailures, Retain
<1> HIDE DEF d, h
<1>4. Going(s, g, h[1], h[2]) /\ SameInput(c, h[1])
  BY <1>2 DEF Advanced, OneMore
<1>5. StopHold \in Nat /\ 0 \in Nat
  BY ConstTypes
<1>6. CASE x \in FlushFailures(d, r, StopHold)
  <2>1. x = <<x[1], x[2]>> /\ Going(s, g, x[1], x[2]) /\ x[1].state = "failed" /\ SameInput(d, x[1])
    BY <1>1, <1>5, <1>6, FlushFailuresKeep
  <2> QED
    BY <1>1, <2>1 DEF SameInput
<1>7. CASE x \in FlushFailures(h[1], h[2], 0)
  <2>1. x = <<x[1], x[2]>> /\ Going(s, g, x[1], x[2]) /\ x[1].state = "failed" /\ SameInput(h[1], x[1])
    BY <1>4, <1>5, <1>7, FlushFailuresKeep
  <2> QED
    BY <1>4, <2>1 DEF SameInput
<1> QED
  BY <1>3, <1>6, <1>7

-----------------------------------------------------------------------------
(* The prompt and its places in the context *)

\* where the k-th chunk of a prompt ends, in tokens, and how many of the first k
\* chunks are media
EndOf(prompt, k)      == IF k = 0 THEN 0 ELSE prompt[k].start + prompt[k].len
MediaCount(prompt, k) == Cardinality({i \in 1 .. k : prompt[i].len = Media})

\* the places that a chunk takes
Places(chunk) == IF chunk.len = Media THEN 1 ELSE chunk.len

ChunkType == [start : Nat, len : Chunks]

\* every chunk starts where the one before it ends
InOrder(prompt) ==
  prompt \in Seq(ChunkType) /\ \A k \in 1 .. Len(prompt) : prompt[k].start = EndOf(prompt, k - 1)

LEMMA ChunkFacts ==
  ASSUME NEW q \in Seq(ChunkType), NEW k \in 1 .. Len(q)
  PROVE  q[k] \in ChunkType /\ q[k].start \in Nat /\ q[k].len \in Nat /\ q[k].len \in Chunks /\ Places(q[k]) \in Nat \ {0}
<1>1. q[k] \in ChunkType
  OBVIOUS
<1> DEFINE e == q[k]
<1> HIDE DEF e
<1>2. e \in ChunkType
  BY <1>1 DEF e
<1>3. e.start \in Nat /\ e.len \in Nat /\ e.len \in Chunks
  BY <1>2, ChunkAssumption DEF ChunkType
<1>4. Places(e) \in Nat \ {0}
  BY <1>3 DEF Places, Media
<1> QED
  BY <1>1, <1>3, <1>4 DEF e

LEMMA ExtentType ==
  ASSUME NEW q, InOrder(q), NEW k \in 0 .. Len(q)
  PROVE  /\ EndOf(q, k) \in Nat /\ MediaCount(q, k) \in Nat
         /\ Extent(q, k) \in Nat /\ Extent(q, k) = EndOf(q, k) + MediaCount(q, k)
<1> DEFINE S == {i \in 1 .. k : q[i].len = Media}
<1>1. q \in Seq(ChunkType) /\ Len(q) \in Nat
  BY DEF InOrder
<1>2. IsFiniteSet(S) /\ Cardinality(S) \in Nat
  <2>1. IsFiniteSet(1 .. k)
    BY FS_Interval
  <2>2. S \in SUBSET (1 .. k)
    OBVIOUS
  <2> HIDE DEF S
  <2> QED
    BY <2>1, <2>2, FS_Subset, FS_CardinalityType
<1>3. EndOf(q, k) \in Nat
  <2>1. CASE k = 0
    BY <2>1 DEF EndOf
  <2>2. CASE k # 0
    <3>1. k \in 1 .. Len(q)
      BY <2>2, <1>1
    <3>2. q[k].start \in Nat /\ q[k].len \in Nat
      BY <1>1, <3>1, ChunkFacts
    <3> QED
      BY <2>2, <3>2 DEF EndOf
  <2> QED
    BY <2>1, <2>2
<1>4. MediaCount(q, k) = Cardinality(S)
  BY DEF MediaCount
<1>5. Extent(q, k) = EndOf(q, k) + MediaCount(q, k)
  <2>1. CASE k = 0
    <3>1. S = {}
      BY <2>1
    <3>2. MediaCount(q, k) = 0
      <4> HIDE DEF S
      <4> QED
        BY <3>1, <1>4, FS_EmptySet
    <3> QED
      BY <2>1, <3>2 DEF Extent, EndOf
  <2>2. CASE k # 0
    BY <2>2 DEF Extent, EndOf, MediaCount
  <2> QED
    BY <2>1, <2>2
<1> HIDE DEF S
<1> QED
  BY <1>2, <1>3, <1>4, <1>5

LEMMA ExtentStep ==
  ASSUME NEW q, InOrder(q), NEW k \in 1 .. Len(q)
  PROVE  /\ EndOf(q, k) = EndOf(q, k - 1) + q[k].len
         /\ Extent(q, k) = Extent(q, k - 1) + Places(q[k])
<1> DEFINE j == k - 1
           S(n) == {i \in 1 .. n : q[i].len = Media}
<1>1. q \in Seq(ChunkType) /\ Len(q) \in Nat /\ k \in Nat
  BY DEF InOrder
<1>2. j \in 0 .. Len(q) /\ k \in 0 .. Len(q) /\ k = j + 1 /\ j \in Nat
  BY <1>1
<1>3. q[k].start = EndOf(q, j) /\ q[k].len \in Nat
  BY <1>1, ChunkFacts DEF InOrder
<1>4. EndOf(q, k) = EndOf(q, j) + q[k].len
  BY <1>1, <1>3 DEF EndOf
<1> HIDE DEF j
<1>5. MediaCount(q, k) = MediaCount(q, j) + (IF q[k].len = Media THEN 1 ELSE 0)
  <2>1. IsFiniteSet(S(j)) /\ Cardinality(S(j)) \in Nat
    <3>1. IsFiniteSet(1 .. j)
      BY <1>2, FS_Interval
    <3>2. S(j) \in SUBSET (1 .. j)
      OBVIOUS
    <3> HIDE DEF S
    <3> QED
      BY <3>1, <3>2, FS_Subset, FS_CardinalityType
  <2>2. CASE q[k].len = Media
    <3>1. S(k) = S(j) \cup {k} /\ k \notin S(j)
      BY <1>2, <2>2
    <3>2. Cardinality(S(k)) = Cardinality(S(j)) + 1
      <4> HIDE DEF S
      <4> QED
        BY <2>1, <3>1, FS_AddElement
    <3> QED
      BY <2>2, <3>2 DEF MediaCount
  <2>3. CASE q[k].len # Media
    <3>1. S(k) = S(j)
      BY <1>2, <2>3
    <3>2. MediaCount(q, j) \in Nat
      BY <2>1 DEF MediaCount
    <3>3. MediaCount(q, k) = Cardinality(S(k)) /\ MediaCount(q, j) = Cardinality(S(j))
      BY DEF MediaCount
    <3> HIDE DEF S
    <3> QED
      BY <2>3, <3>1, <3>2, <3>3
  <2> QED
    BY <2>2, <2>3
<1>6. /\ Extent(q, k) = EndOf(q, k) + MediaCount(q, k)
      /\ Extent(q, j) = EndOf(q, j) + MediaCount(q, j)
      /\ EndOf(q, j) \in Nat /\ MediaCount(q, j) \in Nat
  BY <1>2, ExtentType
<1>7. Extent(q, k) = Extent(q, j) + Places(q[k])
  <2>1. CASE q[k].len = Media
    <3>1. q[k].len = 0 /\ Places(q[k]) = 1
      BY <2>1 DEF Media, Places
    <3> QED
      BY <1>4, <1>5, <1>6, <2>1, <3>1
  <2>2. CASE q[k].len # Media
    <3>1. Places(q[k]) = q[k].len
      BY <2>2 DEF Places
    <3> QED
      BY <1>3, <1>4, <1>5, <1>6, <2>2, <3>1
  <2> QED
    BY <2>1, <2>2
<1> QED
  BY <1>4, <1>7 DEF j

LEMMA ExtentMonotonic ==
  ASSUME NEW q, InOrder(q), NEW j \in 0 .. Len(q), NEW k \in 0 .. Len(q), j <= k
  PROVE  EndOf(q, j) <= EndOf(q, k) /\ Extent(q, j) <= Extent(q, k)
<1> DEFINE Up(i) == EndOf(q, j) <= EndOf(q, i) /\ Extent(q, j) <= Extent(q, i)
           T == {i \in j .. Len(q) : ~Up(i)}
<1>1. Len(q) \in Nat /\ q \in Seq(ChunkType)
  BY DEF InOrder
<1> SUFFICES ASSUME T # {} PROVE FALSE
  BY <1>1
<1>2. PICK i \in T : \A h \in T : i <= h
  <2>1. T \in SUBSET Nat
    BY <1>1
  <2> HIDE DEF T
  <2> QED
    BY <2>1, LeastElement
<1>3. i \in 0 .. Len(q) /\ i \in Nat /\ j \in Nat /\ j <= i /\ ~Up(i)
  BY <1>1, <1>2
<1>4. EndOf(q, j) \in Nat /\ Extent(q, j) \in Nat
  BY ExtentType
<1>5. i # j
  BY <1>3, <1>4
<1>6. i \in 1 .. Len(q) /\ i - 1 \in j .. Len(q) /\ i - 1 \in 0 .. Len(q) /\ ~(i <= i - 1)
  BY <1>1, <1>3, <1>5
<1>7. Up(i - 1)
  <2>1. i - 1 \notin T
    BY <1>2, <1>6
  <2> QED
    BY <1>6, <2>1
<1> DEFINE h == i - 1
<1>8. EndOf(q, i) = EndOf(q, h) + q[i].len /\ Extent(q, i) = Extent(q, h) + Places(q[i])
  BY <1>6, ExtentStep
<1>9. EndOf(q, h) \in Nat /\ Extent(q, h) \in Nat /\ q[i].len \in Nat /\ Places(q[i]) \in Nat
  BY <1>1, <1>6, ExtentType, ChunkFacts
<1> HIDE DEF h, T
<1>10. EndOf(q, j) <= EndOf(q, h) /\ Extent(q, j) <= Extent(q, h)
  BY <1>7 DEF h
<1> QED
  BY <1>3, <1>4, <1>8, <1>9, <1>10

\* the p-th token of a prompt, when that is in the k-th chunk
LEMMA PlaceOf ==
  ASSUME NEW q, InOrder(q), NEW k \in 1 .. Len(q), NEW p \in Nat, Extent(q, k - 1) < p, p <= Extent(q, k)
  PROVE  /\ p \in 1 .. Extent(q, Len(q))
         /\ PromptTokens(q)[p] = IF q[k].len = Media THEN <<"media", k>>
                                 ELSE <<"prompt", q[k].start + p - Extent(q, k - 1)>>
<1> DEFINE In(i) == Extent(q, i - 1) < p /\ p <= Extent(q, i)
<1>1. Len(q) \in Nat /\ q \in Seq(ChunkType) /\ DOMAIN q = 1 .. Len(q)
  BY DEF InOrder
<1>2. /\ Extent(q, k - 1) \in Nat /\ Extent(q, k) \in Nat /\ Extent(q, Len(q)) \in Nat
      /\ Extent(q, k) <= Extent(q, Len(q))
  <2>1. k - 1 \in 0 .. Len(q) /\ k \in 0 .. Len(q) /\ Len(q) \in 0 .. Len(q) /\ k <= Len(q)
    BY <1>1
  <2> QED
    BY <2>1, ExtentType, ExtentMonotonic
<1>3. p \in 1 .. Extent(q, Len(q))
  BY <1>2
<1>4. ASSUME NEW i \in DOMAIN q, In(i) PROVE i = k
  <2>1. i \in Nat /\ k \in Nat /\ i \in 1 .. Len(q)
    BY <1>1
  <2>2. /\ i - 1 \in 0 .. Len(q) /\ k - 1 \in 0 .. Len(q) /\ i \in 0 .. Len(q) /\ k \in 0 .. Len(q)
        /\ i - 1 \in Nat /\ k - 1 \in Nat
    BY <1>1, <2>1
  <2>3. /\ Extent(q, i) \in Nat /\ Extent(q, i - 1) \in Nat
    BY <2>2, ExtentType
  <2>4. ASSUME i < k PROVE FALSE
    <3>1. i <= k - 1
      BY <2>1, <2>4
    <3>2. Extent(q, i) <= Extent(q, k - 1)
      BY <2>2, <3>1, ExtentMonotonic
    <3> QED
      BY <1>2, <1>4, <2>3, <3>2
  <2>5. ASSUME k < i PROVE FALSE
    <3>1. k <= i - 1
      BY <2>1, <2>5
    <3>2. Extent(q, k) <= Extent(q, i - 1)
      BY <2>2, <3>1, ExtentMonotonic
    <3> QED
      BY <1>2, <1>4, <2>3, <3>2
  <2> QED
    BY <2>1, <2>4, <2>5
<1>5. k \in DOMAIN q /\ In(k)
  BY <1>1
<1> DEFINE w == CHOOSE i \in DOMAIN q : In(i)
<1>6. w = k
  <2>1. w \in DOMAIN q /\ In(w)
    BY <1>5
  <2> QED
    BY <1>4, <2>1
<1>7. PromptTokens(q)[p] = IF q[w].len = Media THEN <<"media", w>>
                           ELSE <<"prompt", q[w].start + p - Extent(q, w - 1)>>
  BY <1>3 DEF PromptTokens
<1> HIDE DEF w
<1> QED
  BY <1>3, <1>6, <1>7

-----------------------------------------------------------------------------
(* What the provider holds of a conversation *)

PromptInOrder(c) == InOrder(c.prompt) /\ c.count = EndOf(c.prompt, Len(c.prompt))

\* What was fed and sampled is what was evaluated: at most the last token that was
\* sampled is not, and nothing is sampled while the prompt goes in.
Progress(c) ==
  /\ c.off = 0 \/ (AtText(c) /\ c.off < c.prompt[c.chunk + 1].len)
  /\ c.pending => c.total > 0
  /\ HasChunk(c) =>
       /\ c.total = 0
       /\ c.fed = c.prompt[c.chunk + 1].start + c.off
       /\ c.past = Extent(c.prompt, c.chunk) + c.off
  /\ ~HasChunk(c) =>
       /\ c.fed = c.count
       /\ c.past = Extent(c.prompt, Len(c.prompt)) + c.total - (IF c.pending \/ c.ending THEN 1 ELSE 0)

\* the token that belongs at the p-th place of the context
ContextAt(c, p) ==
  IF p <= Extent(c.prompt, Len(c.prompt)) THEN PromptTokens(c.prompt)[p]
  ELSE <<"sampled", p - Extent(c.prompt, Len(c.prompt))>>

Fits(c, k) == c.past = Len(k) /\ \A p \in 1 .. Len(k) : k[p] = ContextAt(c, p)

ContextOk(c, k) ==
  /\ c.chunk <= Len(c.prompt) /\ Len(c.prompt) <= MaxChunks
  /\ k \in Seq(Tokens)
  /\ PromptInOrder(c)
  /\ c.state = "decoding" /\ ~c.dirty => Progress(c) /\ Fits(c, k)

LEMMA InputTypes ==
  ASSUME NEW c \in Conversation
  PROVE  /\ c.prompt \in Seq(ChunkType) /\ Len(c.prompt) \in Nat
         /\ c.chunk \in Nat /\ c.off \in Nat /\ c.fed \in Nat /\ c.past \in Nat /\ c.count \in Nat
BY DEF Conversation, ChunkType

\* where the next chunk is
LEMMA ChunkPlace ==
  ASSUME NEW c \in Conversation, PromptInOrder(c), HasChunk(c)
  PROVE  LET k == c.chunk + 1
         IN /\ k \in 1 .. Len(c.prompt) /\ c.chunk \in 0 .. Len(c.prompt)
            /\ c.prompt[k].start \in Nat /\ c.prompt[k].len \in Nat
            /\ c.prompt[k].start = EndOf(c.prompt, c.chunk)
            /\ EndOf(c.prompt, k) = c.prompt[k].start + c.prompt[k].len
            /\ EndOf(c.prompt, k) <= c.count
            /\ Extent(c.prompt, c.chunk) \in Nat
            /\ Extent(c.prompt, k) = Extent(c.prompt, c.chunk) + Places(c.prompt[k])
<1> DEFINE q == c.prompt
           k == c.chunk + 1
<1>1. InOrder(q) /\ q \in Seq(ChunkType) /\ c.chunk \in Nat /\ Len(q) \in Nat
  BY InputTypes DEF PromptInOrder
<1>2. c.chunk < Len(q)
  BY DEF HasChunk
<1>3. k \in 1 .. Len(q) /\ k \in 0 .. Len(q) /\ k - 1 = c.chunk /\ c.chunk \in 0 .. Len(q) /\ k <= Len(q) /\ Len(q) \in 0 .. Len(q)
  BY <1>1, <1>2
<1>4. c.count = EndOf(q, Len(q))
  BY DEF PromptInOrder
<1>5. c.chunk \in Nat
  BY <1>1
<1> DEFINE m == c.chunk
<1> HIDE DEF q, k, m
<1>6. k - 1 = m /\ m \in 0 .. Len(q)
  BY <1>3 DEF m
<1>7. q[k].start \in Nat /\ q[k].len \in Nat
  BY <1>1, <1>3, ChunkFacts
<1>8. EndOf(q, k) = EndOf(q, k - 1) + q[k].len /\ Extent(q, k) = Extent(q, k - 1) + Places(q[k])
  BY <1>1, <1>3, ExtentStep
<1>9. q[k].start = EndOf(q, k - 1)
  BY <1>1, <1>3 DEF InOrder
<1>10. EndOf(q, k) <= EndOf(q, Len(q))
  BY <1>1, <1>3, ExtentMonotonic
<1>11. Extent(q, m) \in Nat
  BY <1>1, <1>6, ExtentType
<1>12. /\ k \in 1 .. Len(q) /\ m \in 0 .. Len(q)
       /\ q[k].start \in Nat /\ q[k].len \in Nat
       /\ q[k].start = EndOf(q, m)
       /\ EndOf(q, k) = q[k].start + q[k].len
       /\ EndOf(q, k) <= c.count
       /\ Extent(q, m) \in Nat
       /\ Extent(q, k) = Extent(q, m) + Places(q[k])
  BY <1>3, <1>4, <1>6, <1>7, <1>8, <1>9, <1>10, <1>11
<1> QED
  BY <1>12 DEF q, k, m

\* the token that belongs next
LEMMA NextPlace ==
  ASSUME NEW c \in Conversation, PromptInOrder(c), Progress(c)
  PROVE  /\ AtText(c) => ContextAt(c, c.past + 1) = <<"prompt", c.prompt[c.chunk + 1].start + c.off + 1>>
         /\ AtMedia(c) => ContextAt(c, c.past + 1) = <<"media", c.chunk + 1>>
         /\ c.pending => ContextAt(c, c.past + 1) = <<"sampled", c.total>>
<1> DEFINE q == c.prompt
           k == c.chunk + 1
           p == c.past + 1
<1>1. /\ InOrder(q) /\ q \in Seq(ChunkType) /\ c.chunk \in Nat /\ Len(q) \in Nat /\ p \in Nat /\ c.off \in Nat
      /\ c.total \in Nat /\ c.past \in Nat
  BY InputTypes, ConvTypes DEF PromptInOrder
<1>2. ASSUME HasChunk(c), p <= Extent(q, k), Extent(q, c.chunk) < p
      PROVE  ContextAt(c, p) = IF q[k].len = Media THEN <<"media", k>>
                               ELSE <<"prompt", q[k].start + p - Extent(q, c.chunk)>>
  <2>1. k \in 1 .. Len(q)
    BY <1>2, ChunkPlace
  <2> HIDE DEF p
  <2>2. k - 1 = c.chunk
    BY <1>1
  <2>3. Extent(q, k - 1) < p
    BY <1>2, <2>2
  <2> HIDE DEF k
  <2>4. /\ p \in 1 .. Extent(q, Len(q))
        /\ PromptTokens(q)[p] = IF q[k].len = Media THEN <<"media", k>>
                                ELSE <<"prompt", q[k].start + p - Extent(q, k - 1)>>
    BY <1>1, <1>2, <2>1, <2>3, PlaceOf
  <2>5. Extent(q, Len(q)) \in Nat
    <3>1. Len(q) \in 0 .. Len(q)
      BY <1>1
    <3> HIDE DEF q
    <3> QED
      BY <1>1, <3>1, ExtentType
  <2>6. ContextAt(c, p) = PromptTokens(q)[p]
    BY <1>1, <2>4, <2>5 DEF ContextAt
  <2> QED
    BY <2>2, <2>4, <2>6
<1>3. ASSUME HasChunk(c)
      PROVE  /\ q[k].start \in Nat /\ q[k].len \in Nat /\ Extent(q, c.chunk) \in Nat
             /\ Extent(q, k) = Extent(q, c.chunk) + Places(q[k]) /\ c.past = Extent(q, c.chunk) + c.off
  BY <1>3, ChunkPlace DEF Progress
<1>4. ASSUME AtText(c) PROVE ContextAt(c, p) = <<"prompt", q[k].start + c.off + 1>>
  <2>1. HasChunk(c) /\ q[k].len # Media /\ Places(q[k]) = q[k].len
    BY <1>4 DEF AtText, Places
  <2>2. c.off < q[k].len
    BY <1>1, <1>3, <1>4, <2>1 DEF Progress, Media
  <2>3. p <= Extent(q, k) /\ Extent(q, c.chunk) < p
    BY SMTT(30), <1>1, <1>3, <2>1, <2>2
  <2>4. ContextAt(c, p) = <<"prompt", q[k].start + p - Extent(q, c.chunk)>>
    BY <1>2, <2>1, <2>3
  <2>5. q[k].start + p - Extent(q, c.chunk) = q[k].start + c.off + 1
    <3>1. /\ q[k].start \in Nat /\ Extent(q, c.chunk) \in Nat /\ c.off \in Nat
          /\ p = Extent(q, c.chunk) + c.off + 1
      BY <1>1, <1>3, <2>1
    <3> HIDE DEF q, k, p
    <3> QED
      BY <3>1
  <2> QED
    BY <2>4, <2>5
<1>5. ASSUME AtMedia(c) PROVE ContextAt(c, p) = <<"media", k>>
  <2>1. HasChunk(c) /\ q[k].len = Media /\ Places(q[k]) = 1
    BY <1>5 DEF AtMedia, Places
  <2>2. c.off = 0
    BY <1>5, <2>1 DEF Progress, AtText
  <2>3. p <= Extent(q, k) /\ Extent(q, c.chunk) < p
    BY <1>1, <1>3, <2>1, <2>2
  <2> QED
    BY <1>2, <2>1, <2>3
<1>6. ASSUME c.pending PROVE ContextAt(c, p) = <<"sampled", c.total>>
  <2>1. c.total > 0 /\ ~HasChunk(c)
    BY <1>1, <1>6 DEF Progress
  <2>2. Extent(q, Len(q)) \in Nat
    <3>1. Len(q) \in 0 .. Len(q)
      BY <1>1
    <3> HIDE DEF q
    <3> QED
      BY <1>1, <3>1, ExtentType
  <2>3. c.past = Extent(q, Len(q)) + c.total - 1
    BY <1>6, <2>1 DEF Progress
  <2>4. p > Extent(q, Len(q)) /\ p - Extent(q, Len(q)) = c.total
    BY <1>1, <2>1, <2>2, <2>3
  <2> QED
    BY <1>1, <2>2, <2>4 DEF ContextAt
<1> QED
  BY <1>4, <1>5, <1>6

LEMMA FitsNext ==
  ASSUME NEW c \in Conversation, NEW d \in Conversation, NEW k \in Seq(Tokens), Fits(c, k),
         d.prompt = c.prompt, d.past = c.past + 1, NEW t \in Tokens, t = ContextAt(c, c.past + 1)
  PROVE  Append(k, t) \in Seq(Tokens) /\ Fits(d, Append(k, t))
<1>1. c.past = Len(k) /\ \A p \in 1 .. Len(k) : k[p] = ContextAt(c, p)
  BY DEF Fits
<1>2. /\ Append(k, t) \in Seq(Tokens) /\ Len(Append(k, t)) = Len(k) + 1
      /\ Append(k, t)[Len(k) + 1] = t /\ \A i \in 1 .. Len(k) : Append(k, t)[i] = k[i]
  BY AppendFacts
<1>3. \A p : ContextAt(d, p) = ContextAt(c, p)
  BY DEF ContextAt
<1>4. ASSUME NEW p \in 1 .. Len(k) + 1 PROVE Append(k, t)[p] = ContextAt(d, p)
  <2>1. p \in 1 .. Len(k) \/ p = Len(k) + 1
    OBVIOUS
  <2> QED
    BY <1>1, <1>2, <1>3, <2>1
<1> QED
  BY <1>1, <1>2, <1>4 DEF Fits

-----------------------------------------------------------------------------
(* The invariant of one slot: its conversation c, what its reader took (g) and *)
(* has yet to take (r), and the context k the provider holds                   *)

\* nothing was sampled or evaluated for c yet
Blank(c) ==
  /\ c.total = 0 /\ c.stop = 0 /\ c.hold = << >> /\ c.spilled = 0
  /\ ~c.staged /\ ~c.pending /\ ~c.ending
  /\ c.chunk = 0 /\ c.off = 0 /\ c.fed = 0 /\ c.past = 0

StreamOk(s, c, g, r) ==
  /\ g \in Seq(FragmentSet)
  /\ Going(s, g, c, r)
  /\ c.state \in {"idle", "feeding"} \/ (c.state = "decoding" /\ c.dirty) => Blank(c) /\ g = << >> /\ r = << >>
  /\ c.state = "decoding" => HoldFilled(s, c)
  /\ c.state = "completed" => c.hold = << >>

SlotOk(s, c, g, r, k) == StreamOk(s, c, g, r) /\ ContextOk(c, k)

\* a slot that is sampled for, and one whose logits are awaited
Ready(c)   == c.state = "decoding" /\ ~c.dirty /\ ~c.staged /\ ~c.ending
Awaited(c) == Ready(c) /\ ~c.pending /\ ~HasChunk(c)

\* d is c as far as its output goes
SameOutput(c, d) ==
  /\ d.staged = c.staged /\ d.spilled = c.spilled /\ d.hold = c.hold
  /\ d.total = c.total /\ d.stop = c.stop

LEMMA GoingSame ==
  ASSUME NEW s, NEW g, NEW c, NEW r, Going(s, g, c, r), NEW d \in Conversation, SameOutput(c, d)
  PROVE  Going(s, g, d, r)
BY DEF Going, Kept, Aligned, HoldInOrder, Ahead, Reached, SameOutput

LEMMA GoingBlank ==
  ASSUME NEW s \in Slots, NEW c \in Conversation, Blank(c)
  PROVE  Going(s, << >>, c, << >>)
<1>1. Ahead(c) = 0 /\ Len(c.hold) = 0
  <2>1. c.total = 0 /\ c.stop = 0 /\ Len(c.hold) = 0
    BY DEF Blank
  <2> QED
    BY <2>1 DEF Ahead, Reached
<1>2. Follows(<< >>, 0)
  BY DEF Follows
<1>3. IsStream(<< >> \o << >>, EN(0) + 0)
  <2>1. EN(0) = 0
    BY ENStep
  <2>2. << >> \o << >> = << >> /\ << >> \in Seq(FragmentSet) /\ Len(<< >>) = 0
    OBVIOUS
  <2> QED
    BY <2>1, <2>2 DEF IsStream
<1>4. Aligned(c, << >> \o << >>)
  BY <1>1, <1>2, <1>3 DEF Aligned, HoldInOrder, Blank
<1>5. << >> \o << >> = << >> /\ << >> \in Seq(FragmentSet) /\ Len(<< >>) = 0
  OBVIOUS
<1>6. Kept(s, c, << >> \o << >>)
  BY <1>4, <1>5 DEF Kept, Blank
<1> QED
  BY <1>1, <1>5, <1>6, ConstTypes DEF Going

\* the end of a run
LEMMA EndedSlot ==
  ASSUME NEW s \in Slots, NEW c, NEW g, NEW r, NEW k, SlotOk(s, c, g, r, k),
         NEW d, NEW q, Going(s, g, d, q), SameInput(c, d),
         d.state \in {"canceled", "failed"} \/ (d.state = "completed" /\ d.hold = << >>)
  PROVE  SlotOk(s, d, g, q, k)
BY DEF SlotOk, StreamOk, ContextOk, SameInput, PromptInOrder

LEMMA FailSlot ==
  ASSUME NEW s \in Slots, NEW c, NEW g, NEW r, NEW k, SlotOk(s, c, g, r, k)
  PROVE  SlotOk(s, Fail(c), g, r, k) /\ SlotOk(s, Canceled(c), g, r, k)
<1>1. c \in Conversation /\ Going(s, g, c, r)
  BY DEF SlotOk, StreamOk, Going
<1>2. /\ Fail(c) \in Conversation /\ SameOutput(c, Fail(c)) /\ SameInput(c, Fail(c)) /\ Fail(c).state = "failed"
      /\ Canceled(c) \in Conversation /\ SameOutput(c, Canceled(c)) /\ SameInput(c, Canceled(c))
      /\ Canceled(c).state = "canceled"
  BY <1>1 DEF Conversation, Fail, Canceled, SameOutput, SameInput
<1>3. Going(s, g, Fail(c), r) /\ Going(s, g, Canceled(c), r)
  BY <1>1, <1>2, GoingSame
<1> QED
  BY <1>2, <1>3, EndedSlot

LEMMA AwaitedSampling ==
  ASSUME NEW s \in Slots, NEW c, NEW g, NEW r, NEW k, SlotOk(s, c, g, r, k), Awaited(c)
  PROVE  Sampling(s, g, c, r) /\ g \in Seq(FragmentSet)
BY DEF SlotOk, StreamOk, Awaited, Ready, Sampling

\* a token was sampled
LEMMA SampledSlot ==
  ASSUME NEW s \in Slots, NEW c, NEW g, NEW r, NEW k, SlotOk(s, c, g, r, k), Awaited(c), NEW d, NEW q,
         AfterSample(s, g, c, d, q)
  PROVE  SlotOk(s, d, g, q, k)
<1>1. Going(s, g, d, q) /\ SameInput(c, d) /\ d.total = c.total + 1
  BY DEF AfterSample
<1>2. CASE d.state = "completed" /\ d.hold = << >>
  BY <1>1, <1>2, EndedSlot
<1>3. CASE d.state = "decoding" /\ HoldFilled(s, d) /\ (d.pending <=> ~d.ending)
  <2>1. /\ c.state = "decoding" /\ ~c.dirty /\ ~c.ending /\ ~c.pending /\ ~HasChunk(c)
        /\ Progress(c) /\ Fits(c, k) /\ g \in Seq(FragmentSet)
    BY DEF Awaited, Ready, SlotOk, ContextOk, StreamOk
  <2>2. ~d.dirty
    BY <1>1, <2>1 DEF SameInput
  <2>3. StreamOk(s, d, g, q)
    BY <1>1, <1>3, <2>1, <2>2 DEF StreamOk
  <2>4. c \in Conversation /\ d \in Conversation
    BY <1>1 DEF SlotOk, StreamOk, Going
  <2>5. Progress(d)
    <3>1. ~HasChunk(d) /\ d.off = 0 /\ d.fed = d.count
      BY <1>1, <2>1 DEF Progress, HasChunk, AtText, SameInput
    <3>2. c.past = Extent(c.prompt, Len(c.prompt)) + c.total - 0
      BY <2>1 DEF Progress
    <3>3. Extent(c.prompt, Len(c.prompt)) \in Nat
      <4>1. InOrder(c.prompt) /\ Len(c.prompt) \in 0 .. Len(c.prompt)
        BY <2>4, InputTypes DEF SlotOk, ContextOk, PromptInOrder
      <4> DEFINE p == c.prompt
      <4> HIDE DEF p
      <4>2. Extent(p, Len(p)) \in Nat
        BY <4>1, ExtentType DEF p
      <4> QED
        BY <4>2 DEF p
    <3>4. c.total \in Nat
      BY <2>4, ConvTypes
    <3>5. d.past = Extent(d.prompt, Len(d.prompt)) + d.total - 1
      <4>1. d.past = c.past /\ d.prompt = c.prompt
        BY <1>1 DEF SameInput
      <4>2. c.past = Extent(c.prompt, Len(c.prompt)) + (c.total + 1) - 1
        BY <3>2, <3>3, <3>4
      <4> QED
        BY <1>1, <4>1, <4>2
    <3>6. d.pending \/ d.ending
      BY <1>3
    <3>7. d.total > 0
      BY <1>1, <3>4
    <3> QED
      BY <3>1, <3>5, <3>6, <3>7 DEF Progress
  <2>6. Fits(d, k)
    BY <1>1, <2>1 DEF Fits, SameInput, ContextAt
  <2>7. ContextOk(d, k)
    BY <1>1, <2>5, <2>6 DEF ContextOk, SlotOk, SameInput, PromptInOrder
  <2> QED
    BY <2>3, <2>7 DEF SlotOk
<1> QED
  BY <1>2, <1>3 DEF AfterSample

\* The next token of a prompt or of a run was evaluated, or the next media chunk.
NextToken(c, e) ==
  \/ c.pending /\ e.token = <<"sampled", c.total>>
  \/ AtText(c) /\ e.token = <<"prompt", c.prompt[c.chunk + 1].start + c.off + 1>>

\* the conversation once its next token is evaluated
LEMMA EvaluatedIs ==
  ASSUME NEW c \in Conversation, PromptInOrder(c), Progress(c), NEW e, NextToken(c, e)
  PROVE  Evaluated(c, e) =
           IF c.pending THEN [c EXCEPT !.pending = FALSE, !.past = c.past + 1]
           ELSE IF c.off + 1 >= c.prompt[c.chunk + 1].len
             THEN [c EXCEPT !.past = c.past + 1, !.fed = c.fed + 1, !.chunk = c.chunk + 1, !.off = 0]
             ELSE [c EXCEPT !.past = c.past + 1, !.fed = c.fed + 1, !.off = c.off + 1]
<1>1. /\ c.past \in Nat /\ c.fed \in Nat /\ c.off \in Nat /\ c.chunk \in Nat /\ c.count \in Nat /\ c.total \in Nat
      /\ c.pending \in BOOLEAN
  BY InputTypes, ConvTypes
<1>2. CASE c.pending
  <2>1. ~(c.fed < c.count)
    BY <1>1, <1>2 DEF Progress
  <2>2. Evaluated(c, e) = [[c EXCEPT !.pending = FALSE] EXCEPT !.past = c.past + 1]
    BY <2>1 DEF Evaluated
  <2> QED
    BY <1>2, <2>2
<1>3. CASE ~c.pending
  <2>1. AtText(c) /\ HasChunk(c) /\ e.token = <<"prompt", c.prompt[c.chunk + 1].start + c.off + 1>>
    BY <1>3 DEF NextToken, AtText
  <2> DEFINE st == c.prompt[c.chunk + 1].start
             ln == c.prompt[c.chunk + 1].len
  <2>2. st \in Nat /\ ln \in Nat /\ st + ln <= c.count
    BY <2>1, ChunkPlace
  <2>3. c.fed = st + c.off
    BY <2>1 DEF Progress
  <2>4. c.off < ln
    BY <1>1, <2>1, <2>2 DEF Progress, AtText, Media
  <2>5. c.fed < c.count /\ c.fed + 1 = st + c.off + 1
    <3> HIDE DEF st, ln
    <3> QED
      BY <1>1, <2>2, <2>3, <2>4
  <2>6. e.token = <<"prompt", c.fed + 1>>
    BY <2>1, <2>5
  <2>7. Evaluated(c, e) = [Advance(c) EXCEPT !.past = Advance(c).past + 1]
    BY <2>5, <2>6 DEF Evaluated
  <2>8. CASE c.off + 1 >= ln
    <3>1. Advance(c) = [c EXCEPT !.fed = c.fed + 1, !.chunk = c.chunk + 1, !.off = 0]
      BY <2>1, <2>8 DEF Advance
    <3> QED
      BY <1>3, <2>7, <2>8, <3>1
  <2>9. CASE ~(c.off + 1 >= ln)
    <3>1. Advance(c) = [c EXCEPT !.fed = c.fed + 1, !.off = c.off + 1]
      BY <2>1, <2>9 DEF Advance
    <3> QED
      BY <1>3, <2>7, <2>9, <3>1
  <2> QED
    BY <2>8, <2>9
<1> QED
  BY <1>1, <1>2, <1>3

\* what becomes of the rest of c when its next token is evaluated
EvaluatedRest(c, d) ==
  /\ SameOutput(c, d) /\ d.state = c.state /\ d.dirty = c.dirty /\ d.ending = c.ending /\ d.prompt = c.prompt
  /\ d.past = c.past + 1
  /\ c.pending => ~d.pending /\ d.chunk = c.chunk /\ d.off = c.off
  /\ ~c.pending =>
       /\ ~d.pending
       /\ IF c.off + 1 >= c.prompt[c.chunk + 1].len THEN d.chunk = c.chunk + 1 /\ d.off = 0
                                                    ELSE d.chunk = c.chunk /\ d.off = c.off + 1

LEMMA EvaluatedSlot ==
  ASSUME NEW s \in Slots, NEW c, NEW g, NEW r, NEW k, SlotOk(s, c, g, r, k), Ready(c),
         NEW e, e.token \in Tokens, NextToken(c, e)
  PROVE  /\ SlotOk(s, Evaluated(c, e), g, r, Append(k, e.token))
         /\ EvaluatedRest(c, Evaluated(c, e))
<1> DEFINE d == Evaluated(c, e)
<1>1. /\ c \in Conversation /\ PromptInOrder(c) /\ Progress(c) /\ Fits(c, k) /\ k \in Seq(Tokens)
      /\ c.chunk <= Len(c.prompt) /\ Len(c.prompt) <= MaxChunks
      /\ Going(s, g, c, r) /\ HoldFilled(s, c) /\ g \in Seq(FragmentSet)
      /\ c.state = "decoding" /\ ~c.dirty /\ ~c.ending
  BY DEF SlotOk, StreamOk, ContextOk, Going, Ready
<1>2. /\ c.past \in Nat /\ c.fed \in Nat /\ c.off \in Nat /\ c.chunk \in Nat /\ c.count \in Nat /\ c.total \in Nat
      /\ c.pending \in BOOLEAN /\ Len(c.prompt) \in Nat
  BY <1>1, InputTypes, ConvTypes
<1>3. d = IF c.pending THEN [c EXCEPT !.pending = FALSE, !.past = c.past + 1]
          ELSE IF c.off + 1 >= c.prompt[c.chunk + 1].len
            THEN [c EXCEPT !.past = c.past + 1, !.fed = c.fed + 1, !.chunk = c.chunk + 1, !.off = 0]
            ELSE [c EXCEPT !.past = c.past + 1, !.fed = c.fed + 1, !.off = c.off + 1]
  BY <1>1, EvaluatedIs
<1> HIDE DEF d
<1>4. d \in Conversation
  <2>1. c.past + 1 \in Nat /\ c.fed + 1 \in Nat /\ c.chunk + 1 \in Nat /\ c.off + 1 \in Nat
    BY <1>2
  <2>2. CASE c.pending
    BY <1>1, <1>3, <2>1, <2>2 DEF Conversation
  <2>3. CASE ~c.pending /\ c.off + 1 >= c.prompt[c.chunk + 1].len
    BY <1>1, <1>3, <2>1, <2>3 DEF Conversation
  <2>4. CASE ~c.pending /\ ~(c.off + 1 >= c.prompt[c.chunk + 1].len)
    BY <1>1, <1>3, <2>1, <2>4 DEF Conversation
  <2> QED
    BY <2>2, <2>3, <2>4
<1>5. EvaluatedRest(c, d) /\ d.count = c.count /\ d.fed = IF c.pending THEN c.fed ELSE c.fed + 1
  <2>1. CASE c.pending
    BY <1>1, <1>3, <2>1 DEF Conversation, EvaluatedRest, SameOutput
  <2>2. CASE ~c.pending /\ c.off + 1 >= c.prompt[c.chunk + 1].len
    BY <1>1, <1>3, <2>2 DEF Conversation, EvaluatedRest, SameOutput
  <2>3. CASE ~c.pending /\ ~(c.off + 1 >= c.prompt[c.chunk + 1].len)
    BY <1>1, <1>3, <2>3 DEF Conversation, EvaluatedRest, SameOutput
  <2> QED
    BY <2>1, <2>2, <2>3
<1>6. Going(s, g, d, r)
  BY <1>1, <1>4, <1>5, GoingSame DEF EvaluatedRest
<1>7. HoldFilled(s, d)
  BY <1>1, <1>5 DEF HoldFilled, Filled, EvaluatedRest, SameOutput
<1>8. StreamOk(s, d, g, r)
  BY <1>1, <1>5, <1>6, <1>7 DEF StreamOk, EvaluatedRest
<1>9. Append(k, e.token) \in Seq(Tokens) /\ Fits(d, Append(k, e.token))
  <2>1. e.token = ContextAt(c, c.past + 1)
    BY <1>1, NextPlace DEF NextToken
  <2>2. d.prompt = c.prompt /\ d.past = c.past + 1
    BY <1>5 DEF EvaluatedRest
  <2> QED
    BY <1>1, <1>4, <2>1, <2>2, FitsNext
<1>10. Progress(d) /\ d.chunk <= Len(d.prompt)
  <2>1. CASE c.pending
    <3>1. c.total > 0 /\ ~HasChunk(c)
      BY <1>2, <2>1 , <1>1 DEF Progress
    <3>2. ~HasChunk(d) /\ d.off = 0 /\ d.fed = d.count
      BY <1>1, <1>5, <2>1, <3>1 DEF Progress, HasChunk, AtText, EvaluatedRest
    <3>3. Extent(c.prompt, Len(c.prompt)) \in Nat
      <4>1. InOrder(c.prompt) /\ Len(c.prompt) \in 0 .. Len(c.prompt)
        BY <1>1, <1>2 DEF PromptInOrder
      <4> DEFINE p == c.prompt
      <4> HIDE DEF p
      <4>2. Extent(p, Len(p)) \in Nat
        BY <4>1, ExtentType DEF p
      <4> QED
        BY <4>2 DEF p
    <3>4. c.past = Extent(c.prompt, Len(c.prompt)) + c.total - 1
      BY <1>1, <2>1, <3>1 DEF Progress
    <3>5. c.past + 1 = Extent(c.prompt, Len(c.prompt)) + c.total - 0
      BY <1>2, <3>3, <3>4
    <3>6. /\ d.past = c.past + 1 /\ d.prompt = c.prompt /\ d.total = c.total /\ ~d.pending /\ ~d.ending
          /\ d.chunk = c.chunk
      BY <1>1, <1>5, <2>1 DEF EvaluatedRest, SameOutput
    <3> QED
      BY <1>1, <3>2, <3>5, <3>6 DEF Progress
  <2>2. CASE ~c.pending
    <3>1. AtText(c) /\ HasChunk(c)
      BY <2>2 DEF NextToken, AtText
    <3> DEFINE q == c.prompt
               j == c.chunk + 1
    <3>2. /\ j \in 1 .. Len(q) /\ q[j].start \in Nat /\ q[j].len \in Nat /\ EndOf(q, j) = q[j].start + q[j].len
          /\ Extent(q, c.chunk) \in Nat /\ Extent(q, j) = Extent(q, c.chunk) + Places(q[j])
      BY <1>1, <3>1, ChunkPlace
    <3>3. c.total = 0 /\ c.fed = q[j].start + c.off /\ c.past = Extent(q, c.chunk) + c.off
      BY <1>1, <3>1 DEF Progress
    <3>4. q[j].len # Media /\ Places(q[j]) = q[j].len /\ c.off < q[j].len
      BY <1>1, <1>2, <3>1, <3>2 DEF Progress, AtText, Places, Media
    <3>5. /\ d.past = c.past + 1 /\ d.fed = c.fed + 1 /\ d.prompt = q /\ d.total = 0 /\ ~d.pending /\ ~d.ending
          /\ d.count = c.count
      BY <1>1, <1>5, <2>2, <3>3 DEF EvaluatedRest, SameOutput
    <3>6. InOrder(q) /\ c.count = EndOf(q, Len(q))
      BY <1>1 DEF PromptInOrder
    <3>7. CASE c.off + 1 >= q[j].len
      <4>1. d.chunk = j /\ d.off = 0
        BY <1>5, <2>2, <3>7 DEF EvaluatedRest
      <4>2. d.fed = EndOf(q, j) /\ d.past = Extent(q, j) + 0
        <5> DEFINE st == q[j].start
                   ln == q[j].len
                   ex == Extent(q, c.chunk)
        <5>0. st \in Nat /\ ln \in Nat /\ ex \in Nat /\ c.off \in Nat
          BY <1>2, <3>2
        <5>1. EndOf(q, j) = st + ln /\ Extent(q, j) = ex + ln
          BY <3>2, <3>4
        <5>2. c.fed = st + c.off /\ c.past = ex + c.off /\ c.off < ln /\ c.off + 1 >= ln
          BY <3>3, <3>4, <3>7
        <5> HIDE DEF st, ln, ex, q, j
        <5>3. c.off + 1 = ln
          BY <5>0, <5>2
        <5>4. c.fed + 1 = st + ln /\ c.past + 1 = ex + ln
          BY <5>0, <5>2, <5>3
        <5>5. ex + ln = (ex + ln) + 0
          BY <5>0
        <5> QED
          BY <3>5, <5>1, <5>4, <5>5
      <4>3. CASE HasChunk(d)
        <5>1. j < Len(q)
          BY <3>5, <4>1, <4>3 DEF HasChunk
        <5>2. j + 1 \in 1 .. Len(q) /\ (j + 1) - 1 = j
          BY <1>2, <5>1
        <5> DEFINE i == j + 1
        <5> HIDE DEF j
        <5>3. i \in 1 .. Len(q) /\ i - 1 = j
          BY <5>2
        <5> HIDE DEF i
        <5>4. q[i].start = EndOf(q, j)
          BY <3>6, <5>3 DEF InOrder
        <5>5. d.fed = q[i].start + 0
          <6>1. EndOf(q, j) \in Nat
            BY <1>2, <3>5, <4>2
          <6> QED
            BY <4>2, <5>4, <6>1
        <5>6. d.fed = d.prompt[d.chunk + 1].start + d.off /\ d.past = Extent(d.prompt, d.chunk) + d.off
          BY <3>5, <4>1, <4>2, <5>5 DEF i
        <5>7. d.chunk <= Len(d.prompt)
          <6>1. j \in Nat /\ Len(q) \in Nat
            BY <1>2 DEF j
          <6>2. d.chunk = j /\ d.prompt = q
            BY <3>5, <4>1
          <6> HIDE DEF q
          <6> QED
            BY <5>1, <6>1, <6>2
        <5>8. d.off = 0 /\ d.total = 0 /\ ~d.pending
          BY <3>5, <4>1
        <5> QED
          BY <4>3, <5>6, <5>7, <5>8 DEF Progress
      <4>4. CASE ~HasChunk(d)
        <5>1. j = Len(q)
          BY <1>2, <3>2, <3>5, <4>1, <4>4 DEF HasChunk
        <5>2. d.fed = d.count /\ d.past = Extent(d.prompt, Len(d.prompt)) + d.total - 0
          <6>1. Extent(q, j) \in Nat
            BY <3>2, <3>4
          <6> HIDE DEF q, j
          <6> QED
            BY <3>5, <3>6, <4>2, <5>1, <6>1
        <5> QED
          BY <1>2, <3>5, <4>1, <4>4, <5>1, <5>2 DEF Progress
      <4> QED
        BY <4>3, <4>4
    <3>8. CASE ~(c.off + 1 >= q[j].len)
      <4>1. d.chunk = c.chunk /\ d.off = c.off + 1
        BY <1>5, <2>2, <3>8 DEF EvaluatedRest
      <4>2. c.fed + 1 = q[j].start + (c.off + 1) /\ c.past + 1 = Extent(q, c.chunk) + (c.off + 1)
        <5> DEFINE st == q[j].start
                   ex == Extent(q, c.chunk)
        <5>1. st \in Nat /\ ex \in Nat /\ c.fed = st + c.off /\ c.past = ex + c.off
          BY <3>2, <3>3
        <5> HIDE DEF st, ex
        <5>2. c.fed + 1 = st + (c.off + 1) /\ c.past + 1 = ex + (c.off + 1)
          BY <1>2, <5>1
        <5> QED
          BY <5>2 DEF st, ex
      <4>3. HasChunk(d) /\ AtText(d)
        BY <3>1, <3>5, <4>1 DEF HasChunk, AtText
      <4>4. d.off < d.prompt[d.chunk + 1].len
        BY SMTT(30), <1>2, <3>2, <3>5, <3>8, <4>1
      <4> QED
        BY <1>1, <3>5, <4>1, <4>2, <4>3, <4>4 DEF Progress
    <3> QED
      BY <3>7, <3>8
  <2> QED
    BY <2>1, <2>2, <1>2
<1>11. ContextOk(d, Append(k, e.token))
  BY <1>1, <1>5, <1>9, <1>10 DEF ContextOk, EvaluatedRest, PromptInOrder
<1> QED
  BY <1>5, <1>8, <1>11 DEF SlotOk, d

-----------------------------------------------------------------------------
(* What each operation makes of the slot it works on *)

\* the next media chunk was evaluated, at the place that the provider gave it
MediaFed(c, k) == [c EXCEPT !.past = Len(k) + 1, !.chunk = @ + 1, !.off = 0]

LEMMA MediaFedSlot ==
  ASSUME NEW s \in Slots, NEW c, NEW g, NEW r, NEW k, SlotOk(s, c, g, r, k),
         c.state = "decoding", ~c.dirty, ~c.staged, AtMedia(c)
  PROVE  /\ SlotOk(s, MediaFed(c, k), g, r, Append(k, <<"media", c.chunk + 1>>))
         /\ Ready(MediaFed(c, k)) /\ SameOutput(c, MediaFed(c, k))
<1> DEFINE d == MediaFed(c, k)
           q == c.prompt
           j == c.chunk + 1
<1>1. /\ c \in Conversation /\ PromptInOrder(c) /\ Progress(c) /\ Fits(c, k) /\ k \in Seq(Tokens)
      /\ c.chunk <= Len(q) /\ Len(q) <= MaxChunks
      /\ Going(s, g, c, r) /\ HoldFilled(s, c) /\ g \in Seq(FragmentSet)
  BY DEF SlotOk, StreamOk, ContextOk, Going
<1>2. /\ c.past \in Nat /\ c.fed \in Nat /\ c.off \in Nat /\ c.chunk \in Nat /\ c.count \in Nat /\ c.total \in Nat
      /\ c.pending \in BOOLEAN /\ Len(q) \in Nat
  BY <1>1, InputTypes, ConvTypes
<1>3. HasChunk(c) /\ q[j].len = Media /\ Places(q[j]) = 1
  BY DEF AtMedia, Places
<1>4. c.past = Len(k)
  BY <1>1 DEF Fits
<1>5. d = [c EXCEPT !.past = c.past + 1, !.chunk = j, !.off = 0]
  BY <1>4 DEF MediaFed
<1>6. c.past + 1 \in Nat /\ j \in Nat
  BY <1>2
<1> HIDE DEF d
<1>7. /\ d \in Conversation /\ SameOutput(c, d) /\ d.state = c.state /\ d.dirty = c.dirty /\ d.ending = c.ending
      /\ d.pending = c.pending /\ d.prompt = q /\ d.count = c.count /\ d.fed = c.fed /\ d.past = c.past + 1
      /\ d.chunk = j /\ d.off = 0
  BY <1>1, <1>5, <1>6 DEF Conversation, SameOutput
<1>8. c.total = 0 /\ c.off = 0 /\ ~c.pending /\ ~c.ending
  <2>1. c.total = 0
    BY <1>1, <1>3 DEF Progress
  <2>2. c.off = 0
    BY <1>1, <1>3 DEF Progress, AtText
  <2>3. ~c.pending
    BY <1>1, <2>1 DEF Progress
  <2>4. ~c.ending
    BY <1>1, <1>3 DEF HoldFilled
  <2> QED
    BY <2>1, <2>2, <2>3, <2>4
<1>9. StreamOk(s, d, g, r)
  <2>1. Going(s, g, d, r)
    BY <1>1, <1>7, GoingSame
  <2>2. HoldFilled(s, d)
    BY <1>1, <1>7, <1>8 DEF HoldFilled, Filled, SameOutput
  <2> QED
    BY <1>1, <1>7, <2>1, <2>2 DEF StreamOk
<1>10. Append(k, <<"media", j>>) \in Seq(Tokens) /\ Fits(d, Append(k, <<"media", j>>))
  <2> DEFINE t == <<"media", j>>
  <2>1. t \in Tokens
    BY <1>6 DEF Tokens
  <2>2. t = ContextAt(c, c.past + 1)
    BY <1>1, NextPlace
  <2> HIDE DEF t
  <2>3. Append(k, t) \in Seq(Tokens) /\ Fits(d, Append(k, t))
    BY <1>1, <1>7, <2>1, <2>2, FitsNext
  <2> QED
    BY <2>3 DEF t
<1>11. Progress(d) /\ d.chunk <= Len(d.prompt)
  <2>1. /\ j \in 1 .. Len(q) /\ q[j].start \in Nat /\ EndOf(q, j) = q[j].start + q[j].len
        /\ Extent(q, c.chunk) \in Nat /\ Extent(q, j) = Extent(q, c.chunk) + Places(q[j])
    BY <1>1, <1>3, ChunkPlace
  <2>2. c.fed = q[j].start + c.off /\ c.past = Extent(q, c.chunk) + c.off
    BY <1>1, <1>3 DEF Progress
  <2>3. InOrder(q) /\ c.count = EndOf(q, Len(q))
    BY <1>1 DEF PromptInOrder
  <2>4. d.fed = EndOf(q, j) /\ d.past = Extent(q, j) /\ EndOf(q, j) \in Nat /\ Extent(q, j) \in Nat
    <3> DEFINE st == q[j].start
               ex == Extent(q, c.chunk)
    <3>1. st \in Nat /\ ex \in Nat
      BY <2>1
    <3>2. d.fed = st + 0 /\ d.past = ex + 0 + 1 /\ EndOf(q, j) = st + 0 /\ Extent(q, j) = ex + 1
      BY <1>3, <1>7, <1>8, <2>1, <2>2 DEF Media
    <3> HIDE DEF st, ex
    <3> QED
      BY <3>1, <3>2
  <2>5. d.total = 0 /\ ~d.pending /\ ~d.ending
    BY <1>7, <1>8 DEF SameOutput
  <2>6. j <= Len(q) /\ d.chunk <= Len(d.prompt)
    BY <1>2, <1>7, <2>1
  <2>7. CASE HasChunk(d)
    <3>1. j < Len(q)
      BY <1>7, <2>7 DEF HasChunk
    <3> DEFINE i == j + 1
    <3>2. i \in 1 .. Len(q) /\ i - 1 = j
      BY <1>2, <3>1
    <3> HIDE DEF j, i
    <3>3. q[i].start = EndOf(q, j)
      BY <2>3, <3>2 DEF InOrder
    <3>4. d.fed = d.prompt[d.chunk + 1].start + d.off /\ d.past = Extent(d.prompt, d.chunk) + d.off
      BY <1>7, <2>4, <3>3 DEF i
    <3> QED
      BY <1>7, <2>5, <2>6, <2>7, <3>4 DEF Progress
  <2>8. CASE ~HasChunk(d)
    <3>1. j = Len(q)
      BY <1>2, <1>7, <2>6, <2>8 DEF HasChunk
    <3>2. d.fed = d.count /\ d.past = Extent(d.prompt, Len(d.prompt)) + d.total - 0
      <4> HIDE DEF q, j
      <4> QED
        BY <1>7, <2>3, <2>4, <2>5, <3>1
    <3> QED
      BY <1>7, <2>5, <2>6, <2>8, <3>2 DEF Progress
  <2> QED
    BY <2>6, <2>7, <2>8
<1>12. ContextOk(d, Append(k, <<"media", j>>))
  BY <1>1, <1>7, <1>10, <1>11 DEF ContextOk, PromptInOrder
<1>13. Ready(d)
  BY <1>7, <1>8 DEF Ready, SameOutput
<1> QED
  BY <1>7, <1>9, <1>12, <1>13 DEF SlotOk, d

\* Output that was held up is flushed, and the run completed.
FlushAt(s, c, r) ==
  LET f == IF s \in Streamed THEN FlushHold(c, r, Retain) ELSE <<[c EXCEPT !.staged = FALSE], r>>
  IN Finish(s, f[1], f[2])

LEMMA FlushSlot ==
  ASSUME NEW s \in Slots, NEW c, NEW g, NEW r, NEW k, SlotOk(s, c, g, r, k), c.state = "decoding"
  PROVE  LET f == FlushAt(s, c, r)
         IN f = <<f[1], f[2]>> /\ SlotOk(s, f[1], g, f[2], k)
<1> DEFINE e == IF s \in Streamed THEN FlushHold(c, r, Retain) ELSE <<[c EXCEPT !.staged = FALSE], r>>
           f == FlushAt(s, c, r)
           x == Finish(s, e[1], e[2])
<1>1. /\ Going(s, g, c, r) /\ HoldFilled(s, c) /\ g \in Seq(FragmentSet)
      /\ c \in Conversation /\ r \in Seq(FragmentSet) /\ Len(r) <= RingCapacity
  BY DEF SlotOk, StreamOk, Going
<1>2. Len(c.hold) \in Nat /\ StopHold \in Nat /\ c.total \in Nat /\ c.ending \in BOOLEAN /\ c.staged \in BOOLEAN
  BY <1>1, ConvTypes, ConstTypes
<1>3. Going(s, g, e[1], e[2]) /\ HoldFilled(s, e[1]) /\ HoldOnly(c, e[1])
  <2>1. CASE s \in Streamed
    <3> DEFINE y == FlushHold(c, r, StopHold)
    <3>1. e = y
      BY <2>1 DEF Retain
    <3>2. Aligned(c, g \o r)
      BY <1>1, <2>1 DEF Going, Kept
    <3>3. /\ FlushResult(c, g, y[1], y[2])
          /\ Len(c.hold) <= StopHold => y[1] = c /\ y[2] = r
          /\ Len(c.hold) > StopHold => Len(y[1].hold) >= StopHold /\ (y[1].staged <=> Len(y[1].hold) > StopHold)
      BY <1>1, <1>2, <3>2, FlushKeeps
    <3> HIDE DEF y
    <3>4. /\ y[1] \in Conversation /\ HoldOnly(c, y[1]) /\ y[2] \in Seq(FragmentSet) /\ Len(y[2]) <= RingCapacity
          /\ Aligned(y[1], g \o y[2]) /\ Len(y[1].hold) <= Len(c.hold)
      BY <3>3 DEF FlushResult
    <3>5. Len(y[1].hold) <= StopHold + 1
      <4>1. Len(c.hold) <= StopHold + 1
        BY <1>1 DEF Going
      <4>2. Len(y[1].hold) \in Nat
        BY <3>4, ConvTypes
      <4> QED
        BY <1>2, <3>4, <4>1, <4>2
    <3>6. Going(s, g, y[1], y[2])
      BY <2>1, <3>4, <3>5 DEF Going, Kept
    <3>7. HoldFilled(s, y[1])
      <4>1. CASE c.ending
        BY <1>1, <3>4, <4>1 DEF HoldFilled, HoldOnly, SameInput, HasChunk
      <4>2. CASE ~c.ending
        <5>1. Filled(s, c) /\ c.stop = 0 /\ c.total < MaxTokens
          BY <1>1, <4>2 DEF HoldFilled
        <5>2. Filled(s, y[1])
          <6>1. CASE Len(c.hold) <= StopHold
            BY <3>3, <5>1, <6>1
          <6>2. CASE Len(c.hold) > StopHold
            BY <3>3, <6>2 DEF Filled
          <6> QED
            BY <1>2, <6>1, <6>2
        <5> QED
          BY <3>4, <4>2, <5>1, <5>2 DEF HoldFilled, HoldOnly
      <4> QED
        BY <1>2, <4>1, <4>2
    <3> HIDE DEF e
    <3> QED
      BY <3>1, <3>4, <3>6, <3>7
  <2>2. CASE s \notin Streamed
    <3>1. c.staged = FALSE
      BY <1>1, <1>2, <2>2 DEF Going, Kept
    <3>2. [c EXCEPT !.staged = FALSE] = c
      BY <1>1, <3>1 DEF Conversation
    <3>3. e = <<c, r>>
      BY <2>2, <3>2
    <3> HIDE DEF e
    <3>4. e[1] = c /\ e[2] = r
      BY <3>3
    <3> QED
      BY <1>1, <3>4 DEF HoldOnly, SameInput
  <2> QED
    BY <2>1, <2>2
<1>4. f = x
  BY DEF FlushAt
<1> HIDE DEF e
<1>5. x = <<x[1], x[2]>> /\ Finished(s, g, e[1], x[1], x[2])
  <2>1. e[1].state = "decoding"
    BY <1>3 DEF HoldOnly
  <2> QED
    BY <1>1, <1>3, <2>1, FinishKeeps
<1> HIDE DEF x
<1>6. SlotOk(s, x[1], g, x[2], k)
  <2>1. Going(s, g, x[1], x[2]) /\ SameInput(c, x[1]) /\ x[1].total = c.total /\ x[1].pending = c.pending
    BY <1>3, <1>5 DEF Finished, HoldOnly, SameInput
  <2>2. CASE x[1].state = "completed" /\ x[1].hold = << >>
    BY <2>1, <2>2, EndedSlot
  <2>3. CASE x[1].state = "decoding" /\ HoldFilled(s, x[1]) /\ x[1].ending = c.ending
    <3>1. ContextOk(x[1], k)
      <4>1. c.state = "decoding" /\ ~c.dirty => Progress(c) /\ Fits(c, k)
        BY DEF SlotOk, ContextOk
      <4>2. Progress(c) => Progress(x[1])
        BY <2>1, <2>3 DEF Progress, HasChunk, AtText, SameInput
      <4>3. Fits(c, k) => Fits(x[1], k)
        BY <2>1 DEF Fits, SameInput, ContextAt
      <4> QED
        BY <2>1, <4>1, <4>2, <4>3 DEF SlotOk, ContextOk, SameInput, PromptInOrder
    <3>2. StreamOk(s, x[1], g, x[2])
      <4>1. ASSUME x[1].dirty PROVE Blank(x[1]) /\ g = << >> /\ x[2] = << >>
        <5>1. c.dirty
          BY <2>1, <4>1 DEF SameInput
        <5>2. Blank(c) /\ g = << >> /\ r = << >>
          BY <5>1 DEF SlotOk, StreamOk
        <5>3. e[1] = c /\ e[2] = r
          <6>1. CASE s \in Streamed
            <7>1. Len(c.hold) <= StopHold
              BY <1>2, <5>2 DEF Blank
            <7>2. FlushHold(c, r, Retain) = <<c, r>>
              BY <7>1 DEF FlushHold, Retain
            <7> QED
              BY <6>1, <7>2 DEF e
          <6>2. CASE s \notin Streamed
            <7>1. c.staged = FALSE
              BY <1>2, <5>2 DEF Blank
            <7>2. [c EXCEPT !.staged = FALSE] = c
              BY <1>1, <7>1 DEF Conversation
            <7> QED
              BY <6>2, <7>2 DEF e
          <6> QED
            BY <6>1, <6>2
        <5>4. x = <<c, r>>
          BY <5>2, <5>3 DEF Blank, Finish, x
        <5>5. x[1] = c /\ x[2] = r
          BY <5>4
        <5> QED
          BY <5>2, <5>5
      <4> QED
        BY <1>1, <2>1, <2>3, <4>1 DEF StreamOk
    <3> QED
      BY <3>1, <3>2 DEF SlotOk
  <2> QED
    BY <1>3, <1>5, <2>2, <2>3 DEF Finished, HoldOnly
<1> HIDE DEF f
<1> QED
  BY <1>4, <1>5, <1>6 DEF f

\* The provider's slot is cleared for a new run, or is as it was.
LEMMA ResetSlot ==
  ASSUME NEW s \in Slots, NEW c, NEW g, NEW r, NEW k, SlotOk(s, c, g, r, k), c.state = "decoding"
  PROVE  LET d == IF c.dirty THEN SlotReset(c) ELSE c
             l == IF c.dirty THEN << >> ELSE k
         IN SlotOk(s, d, g, r, l) /\ SlotOk(s, Fail(c), g, r, l) /\ ~d.dirty /\ d.state = "decoding"
<1>1. c \in Conversation /\ PromptInOrder(c) /\ c.dirty \in BOOLEAN
  BY ConvTypes DEF SlotOk, StreamOk, ContextOk, Going
<1>2. SlotOk(s, Fail(c), g, r, k)
  BY FailSlot
<1>3. CASE ~c.dirty
  BY <1>2, <1>3
<1>4. CASE c.dirty
  <2> DEFINE d == SlotReset(c)
  <2>1. Blank(c) /\ g = << >> /\ r = << >> /\ HoldFilled(s, c) /\ Going(s, g, c, r)
    BY <1>4 DEF SlotOk, StreamOk
  <2>2. d = [c EXCEPT !.dirty = FALSE, !.past = 0, !.fed = 0, !.pending = FALSE, !.staged = FALSE,
                      !.spilled = 0, !.hold = << >>]
    BY DEF SlotReset
  <2> HIDE DEF d
  <2>3. << >> \in Seq(1 .. MaxTokens)
    OBVIOUS
  <2>4. /\ d \in Conversation /\ SameOutput(c, d) /\ Blank(d) /\ ~d.dirty /\ d.state = "decoding"
        /\ d.prompt = c.prompt /\ d.count = c.count /\ d.ending = c.ending
    BY <1>1, <2>1, <2>2, <2>3 DEF Conversation, SameOutput, Blank
  <2>5. StreamOk(s, d, g, r)
    <3>1. Going(s, g, d, r)
      BY <2>1, <2>4, GoingSame
    <3>2. HoldFilled(s, d)
      BY <2>1, <2>4 DEF HoldFilled, Filled, SameOutput, Blank
    <3> QED
      BY <2>1, <2>4, <3>1, <3>2 DEF StreamOk
  <2>6. Progress(d)
    <3> DEFINE q == c.prompt
    <3>1. InOrder(q) /\ c.count = EndOf(q, Len(q)) /\ Len(q) \in Nat
      BY <1>1, InputTypes DEF PromptInOrder
    <3>2. Extent(q, 0) = 0
      BY DEF Extent
    <3>3. d.chunk = 0 /\ d.off = 0 /\ d.fed = 0 /\ d.past = 0 /\ d.total = 0 /\ ~d.pending /\ ~d.ending /\ d.prompt = q
      BY <2>4 DEF Blank
    <3>4. CASE HasChunk(d)
      <4>1. 1 \in 1 .. Len(q) /\ 1 - 1 = 0
        BY <3>1, <3>3, <3>4 DEF HasChunk
      <4>2. q[1].start = EndOf(q, 0)
        BY <3>1, <4>1 DEF InOrder
      <4>3. q[1].start = 0
        BY <4>2 DEF EndOf
      <4>4. d.fed = d.prompt[d.chunk + 1].start + d.off /\ d.past = Extent(d.prompt, d.chunk) + d.off
        BY <3>2, <3>3, <4>3
      <4> QED
        BY <3>3, <3>4, <4>4 DEF Progress
    <3>5. CASE ~HasChunk(d)
      <4>1. Len(q) = 0
        BY <3>1, <3>3, <3>5 DEF HasChunk
      <4>2. d.count = 0
        BY <2>4, <3>1, <4>1 DEF EndOf
      <4>3. d.past = Extent(d.prompt, Len(d.prompt)) + d.total - 0
        BY <3>2, <3>3, <4>1
      <4> QED
        BY <3>3, <3>5, <4>2, <4>3 DEF Progress
    <3> QED
      BY <3>4, <3>5
  <2>7. Fits(d, << >>)
    BY <2>4 DEF Fits, Blank
  <2>8. ContextOk(d, << >>) /\ ContextOk(Fail(c), << >>)
    <3>1. << >> \in Seq(Tokens)
      OBVIOUS
    <3>2. d.chunk <= Len(d.prompt) /\ Len(d.prompt) <= MaxChunks
      BY <2>1, <2>4, <1>1, InputTypes DEF SlotOk, ContextOk, Blank
    <3>3. ContextOk(d, << >>)
      BY <1>1, <2>4, <2>6, <2>7, <3>1, <3>2 DEF ContextOk, PromptInOrder
    <3>4. ContextOk(Fail(c), k) /\ Fail(c).state = "failed"
      BY <1>1, <1>2 DEF SlotOk, Fail, Conversation
    <3> QED
      BY <3>1, <3>3, <3>4 DEF ContextOk
  <2>9. StreamOk(s, Fail(c), g, r)
    BY <1>2 DEF SlotOk
  <2> QED
    BY <1>4, <2>4, <2>5, <2>8, <2>9 DEF SlotOk, d
<1> QED
  BY <1>1, <1>3, <1>4

LEMMA FeedSlot ==
  ASSUME NEW s \in Slots, NEW c, NEW g, NEW r, NEW k, SlotOk(s, c, g, r, k),
         c.state \in {"idle", "feeding"}, Len(c.prompt) < MaxChunks, NEW n \in Chunks
  PROVE  SlotOk(s, [c EXCEPT !.prompt = Append(c.prompt, [start |-> c.count, len |-> n]),
                             !.count = c.count + n, !.state = "feeding"], g, r, k)
<1> DEFINE q == c.prompt
           e == [start |-> c.count, len |-> n]
           p == Append(q, e)
           d == [c EXCEPT !.prompt = p, !.count = c.count + n, !.state = "feeding"]
<1>1. /\ c \in Conversation /\ InOrder(q) /\ c.count = EndOf(q, Len(q)) /\ k \in Seq(Tokens) /\ Blank(c)
      /\ Going(s, g, c, r) /\ g = << >> /\ r = << >>
  BY DEF SlotOk, StreamOk, ContextOk, PromptInOrder, Going
<1>2. q \in Seq(ChunkType) /\ c.count \in Nat /\ n \in Nat /\ Len(q) \in Nat /\ MaxChunks \in Nat
  BY <1>1, InputTypes, ChunkAssumption
<1>3. e \in ChunkType /\ e.start = c.count /\ e.len = n
  BY <1>2 DEF ChunkType
<1>4. /\ p \in Seq(ChunkType) /\ Len(p) = Len(q) + 1 /\ p[Len(q) + 1] = e
      /\ \A i \in 1 .. Len(q) : p[i] = q[i]
  <2> HIDE DEF e
  <2> QED
    BY <1>2, <1>3, AppendFacts
<1> HIDE DEF e, p, q
<1>5. \A i \in 0 .. Len(q) : EndOf(p, i) = EndOf(q, i)
  BY <1>2, <1>4 DEF EndOf
<1>6. InOrder(p)
  <2>1. ASSUME NEW i \in 1 .. Len(p) PROVE p[i].start = EndOf(p, i - 1)
    <3>1. i - 1 \in 0 .. Len(q)
      BY <1>2, <1>4
    <3>2. CASE i = Len(q) + 1
      <4>1. EndOf(p, i - 1) = EndOf(q, Len(q))
        BY <1>2, <1>5, <3>2
      <4> QED
        BY <1>1, <1>3, <1>4, <3>2, <4>1
    <3>3. CASE i # Len(q) + 1
      <4>1. i \in 1 .. Len(q)
        BY <1>2, <1>4, <3>3
      <4>2. q[i].start = EndOf(q, i - 1)
        BY <1>1, <4>1 DEF InOrder
      <4> QED
        BY <1>4, <1>5, <3>1, <4>1, <4>2
    <3> QED
      BY <3>2, <3>3
  <2> QED
    BY <1>4, <2>1 DEF InOrder
<1>7. c.count + n = EndOf(p, Len(p))
  BY <1>2, <1>3, <1>4 DEF EndOf
<1>8. p \in Seq([start : Nat, len : Chunks]) /\ c.count + n \in Nat
  BY <1>2, <1>4 DEF ChunkType
<1> HIDE DEF d
<1>9. /\ d \in Conversation /\ SameOutput(c, d) /\ Blank(d) /\ d.prompt = p /\ d.count = c.count + n
      /\ d.state = "feeding" /\ d.chunk = 0
  BY <1>1, <1>8 DEF d, Conversation, SameOutput, Blank
<1>10. Going(s, g, d, r)
  BY <1>1, <1>9, GoingSame
<1>11. StreamOk(s, d, g, r)
  BY <1>1, <1>9, <1>10 DEF StreamOk
<1>12. Len(p) <= MaxChunks /\ 0 <= Len(p)
  BY <1>2, <1>4 DEF q
<1>13. ContextOk(d, k)
  BY <1>1, <1>6, <1>7, <1>9, <1>12 DEF ContextOk, PromptInOrder
<1> QED
  BY <1>11, <1>13 DEF SlotOk, d, p, e, q

LEMMA FreshIs ==
  /\ FreshConv \in Conversation /\ Blank(FreshConv)
  /\ FreshConv.state = "idle" /\ FreshConv.prompt = << >> /\ FreshConv.count = 0
<1>1. << >> \in Seq([start : Nat, len : Chunks]) /\ << >> \in Seq(1 .. MaxTokens)
  OBVIOUS
<1>2. 0 \in 0 .. MaxTokens /\ 0 \in 0 .. StopHold
  BY ConstTypes
<1> QED
  BY <1>1, <1>2 DEF FreshConv, Conversation, Blank

\* a conversation whose prompt is complete starts to decode
LEMMA DecodeSlot ==
  ASSUME NEW s \in Slots, NEW c, NEW g, NEW r, NEW k, SlotOk(s, c, g, r, k), c.state = "feeding"
  PROVE  SlotOk(s, [FreshConv EXCEPT !.state = "decoding", !.prompt = c.prompt, !.count = c.count,
                                     !.dirty = TRUE], g, r, k)
<1> DEFINE d == [FreshConv EXCEPT !.state = "decoding", !.prompt = c.prompt, !.count = c.count, !.dirty = TRUE]
<1>1. /\ c \in Conversation /\ PromptInOrder(c) /\ k \in Seq(Tokens) /\ g = << >> /\ r = << >>
      /\ c.chunk <= Len(c.prompt) /\ Len(c.prompt) <= MaxChunks /\ c.chunk = 0
  BY DEF SlotOk, StreamOk, ContextOk, Going, Blank
<1>2. c.prompt \in Seq([start : Nat, len : Chunks]) /\ c.count \in Nat
  BY <1>1 DEF Conversation
<1>3. /\ d \in Conversation /\ Blank(d) /\ d.prompt = c.prompt /\ d.count = c.count
      /\ d.state = "decoding" /\ d.dirty
  BY <1>2, FreshIs DEF Conversation, Blank
<1> HIDE DEF d
<1>4. Going(s, g, d, r)
  BY <1>1, <1>3, GoingBlank
<1>5. HoldFilled(s, d)
  <2>1. Len(d.hold) = 0 /\ d.total = 0 /\ ~d.staged
    BY <1>3 DEF Blank
  <2> QED
    BY <1>3, <2>1, ConstTypes DEF HoldFilled, Filled, Blank
<1>6. << >> \in Seq(FragmentSet)
  OBVIOUS
<1>7. StreamOk(s, d, g, r)
  BY <1>1, <1>3, <1>4, <1>5, <1>6 DEF StreamOk
<1>8. ContextOk(d, k)
  BY <1>1, <1>3 DEF ContextOk, PromptInOrder, Blank
<1> QED
  BY <1>7, <1>8 DEF SlotOk, d

LEMMA FreshSlot ==
  ASSUME NEW s \in Slots, NEW k \in Seq(Tokens)
  PROVE  SlotOk(s, FreshConv, << >>, << >>, k) /\ SlotOk(s, [FreshConv EXCEPT !.dirty = TRUE], << >>, << >>, k)
<1>1. ASSUME NEW d, d \in {FreshConv, [FreshConv EXCEPT !.dirty = TRUE]}
      PROVE  SlotOk(s, d, << >>, << >>, k)
  <2>1. d \in Conversation /\ Blank(d) /\ d.state = "idle" /\ d.prompt = << >> /\ d.count = 0
    BY <1>1, FreshIs DEF Conversation, Blank
  <2>2. << >> \in Seq(FragmentSet) /\ << >> \in Seq(ChunkType) /\ Len(<< >>) = 0
    OBVIOUS
  <2>3. StreamOk(s, d, << >>, << >>)
    BY <2>1, <2>2, GoingBlank DEF StreamOk
  <2>4. PromptInOrder(d)
    BY <2>1, <2>2 DEF PromptInOrder, InOrder, EndOf
  <2>5. ContextOk(d, k)
    BY <2>1, <2>2, <2>4, ConstTypes DEF ContextOk, Blank
  <2> QED
    BY <2>3, <2>5 DEF SlotOk
<1> QED
  BY <1>1

\* conv_cancel: the flag, and the state of a conversation that does not decode
LEMMA CancelSlot ==
  ASSUME NEW s \in Slots, NEW c, NEW g, NEW r, NEW k, SlotOk(s, c, g, r, k)
  PROVE  SlotOk(s, [c EXCEPT !.cancel = TRUE], g, r, k) /\ SlotOk(s, [c EXCEPT !.state = "canceled"], g, r, k)
<1> DEFINE d == [c EXCEPT !.cancel = TRUE]
<1>1. c \in Conversation /\ Going(s, g, c, r)
  BY DEF SlotOk, StreamOk, Going
<1>2. /\ d \in Conversation /\ SameOutput(c, d) /\ d.state = c.state /\ d.dirty = c.dirty /\ d.prompt = c.prompt
      /\ d.count = c.count /\ d.chunk = c.chunk /\ d.off = c.off /\ d.fed = c.fed /\ d.past = c.past
      /\ d.pending = c.pending /\ d.ending = c.ending
  BY <1>1 DEF Conversation, SameOutput
<1> HIDE DEF d
<1>3. Going(s, g, d, r)
  BY <1>1, <1>2, GoingSame
<1>4. StreamOk(s, d, g, r)
  <2>1. Blank(c) => Blank(d)
    BY <1>2 DEF Blank, SameOutput
  <2>2. HoldFilled(s, c) => HoldFilled(s, d)
    BY <1>2 DEF HoldFilled, Filled, HasChunk, SameOutput
  <2> QED
    BY <1>2, <1>3, <2>1, <2>2 DEF SlotOk, StreamOk, SameOutput
<1>5. ContextOk(d, k)
  <2>1. Progress(c) => Progress(d)
    BY <1>2 DEF Progress, HasChunk, AtText, SameOutput
  <2>2. Fits(c, k) => Fits(d, k)
    BY <1>2 DEF Fits, ContextAt
  <2> QED
    BY <1>2, <2>1, <2>2 DEF SlotOk, ContextOk, PromptInOrder
<1>6. SlotOk(s, [c EXCEPT !.state = "canceled"], g, r, k)
  BY FailSlot DEF Canceled
<1> QED
  BY <1>4, <1>5, <1>6 DEF SlotOk, d

\* the reader takes what is at the front of the ring
LEMMA TakeSlot ==
  ASSUME NEW s \in Slots, NEW c, NEW g, NEW r, NEW k, SlotOk(s, c, g, r, k), NEW n \in 1 .. Len(r)
  PROVE  SlotOk(s, c, g \o SubSeq(r, 1, n), SubSeq(r, n + 1, Len(r)), k)
<1> DEFINE a == SubSeq(r, 1, n)
           b == SubSeq(r, n + 1, Len(r))
<1>1. r \in Seq(FragmentSet) /\ Len(r) \in Nat /\ g \in Seq(FragmentSet) /\ Len(r) <= RingCapacity
  BY DEF SlotOk, StreamOk, Going
<1>2. a \in Seq(FragmentSet) /\ b \in Seq(FragmentSet)
  <2>1. 1 \in 1 .. Len(r) + 1 /\ n \in 0 .. Len(r) /\ n + 1 \in 1 .. Len(r) + 1 /\ Len(r) \in 0 .. Len(r)
    BY <1>1
  <2> QED
    BY <1>1, <2>1, PartType
<1>3. Len(a) = n /\ Len(b) = Len(r) - n /\ n \in Nat
  BY <1>1
<1>4. /\ \A i \in 1 .. Len(a) : a[i] = r[i]
      /\ \A i \in 1 .. Len(b) : b[i] = r[n + i]
  BY <1>1
<1> HIDE DEF a, b
<1>5. (g \o a) \o b = g \o r
  <2>1. Len((g \o a) \o b) = Len(g \o r)
    BY SMTT(30), <1>1, <1>2, <1>3
  <2>2. (g \o a) \o b \in Seq(FragmentSet) /\ g \o r \in Seq(FragmentSet)
    BY <1>1, <1>2
  <2>3. ASSUME NEW i \in 1 .. Len(g \o r) PROVE ((g \o a) \o b)[i] = (g \o r)[i]
    <3>1. CASE i <= Len(g)
      BY <1>1, <1>2, <1>3, <3>1
    <3>2. CASE i > Len(g) /\ i <= Len(g) + n
      <4>1. i - Len(g) \in 1 .. Len(a)
        BY <1>1, <1>3, <3>2
      <4>2. ((g \o a) \o b)[i] = a[i - Len(g)]
        BY <1>1, <1>2, <1>3, <3>2
      <4>3. (g \o r)[i] = r[i - Len(g)]
        BY <1>1, <3>2
      <4> QED
        BY <1>4, <4>1, <4>2, <4>3
    <3>3. CASE i > Len(g) + n
      <4>1. i - Len(g) - n \in 1 .. Len(b) /\ n + (i - Len(g) - n) = i - Len(g)
        BY <1>1, <1>3, <3>3
      <4>2. ((g \o a) \o b)[i] = b[i - Len(g) - n]
        BY <1>1, <1>2, <1>3, <3>3
      <4>3. (g \o r)[i] = r[i - Len(g)]
        BY <1>1, <3>3, <1>3
      <4> QED
        BY <1>4, <4>1, <4>2, <4>3
    <3> QED
      BY <1>1, <1>3, <3>1, <3>2, <3>3
  <2> QED
    BY SMTT(30), <2>1, <2>2, <2>3
<1>6. g \o a \in Seq(FragmentSet)
  BY <1>1, <1>2
<1>7. Len(b) <= RingCapacity
  BY <1>1, <1>3, ConstTypes
<1>8. s \in Streamed
  <2>1. ASSUME s \notin Streamed PROVE FALSE
    <3>1. g \o r = << >>
      BY <2>1 DEF SlotOk, StreamOk, Going, Kept
    <3>2. Len(g \o r) = 0
      BY <3>1
    <3> QED
      BY <1>1, <1>3, <3>2
  <2> QED
    BY <2>1
<1>9. Going(s, g \o a, c, b)
  BY <1>2, <1>5, <1>7, <1>8 DEF SlotOk, StreamOk, Going, Kept
<1>10. r # << >>
  BY <1>1
<1>11. StreamOk(s, c, g \o a, b)
  BY <1>6, <1>9, <1>10 DEF SlotOk, StreamOk
<1> QED
  BY <1>11 DEF SlotOk, a, b

-----------------------------------------------------------------------------
(* The batch: the tokens of a slot are next to each other, and are those that  *)
(* belong next in its context                                                  *)

EntrySet == [slot : Slots, token : Tokens, pos : Nat, want : BOOLEAN]

\* the n entries after the f-th are the next tokens of c: the one that was sampled
\* last, or some of its prompt
SampledNext(c, b, f) ==
  Ready(c) /\ c.pending /\ b[f + 1].token = <<"sampled", c.total>> /\ b[f + 1].pos = c.past

PromptNext(c, b, f, n) ==
  /\ Ready(c) /\ ~c.pending /\ AtText(c) /\ c.off + n <= c.prompt[c.chunk + 1].len
  /\ \A k \in 1 .. n :
       /\ b[f + k].token = <<"prompt", c.prompt[c.chunk + 1].start + c.off + k>>
       /\ b[f + k].pos = c.past + k - 1
       /\ b[f + k].want => k = n /\ WantsLogits(c, n)

Content(c, b, f, n) == n = 0 \/ (n = 1 /\ SampledNext(c, b, f)) \/ PromptNext(c, b, f, n)

\* those of the entries of b after the first done that are of s
BlockOf(s, c, b, done) ==
  \E f, n \in Nat :
    /\ done <= f /\ f + n <= Len(b)
    /\ \A i \in done + 1 .. Len(b) : b[i].slot = s <=> f < i /\ i <= f + n
    /\ Content(c, b, f, n)

\* d is as ready for its tokens as c
View(c, d) ==
  Ready(c) => /\ Ready(d) /\ d.pending = c.pending /\ d.chunk = c.chunk /\ d.off = c.off
              /\ d.past = c.past /\ d.prompt = c.prompt /\ d.total = c.total

LEMMA BlockKept ==
  ASSUME NEW s, NEW c, NEW d, NEW b, NEW done, BlockOf(s, c, b, done), View(c, d)
  PROVE  BlockOf(s, d, b, done)
<1>1. PICK f \in Nat, n \in Nat :
        /\ done <= f /\ f + n <= Len(b)
        /\ \A i \in done + 1 .. Len(b) : b[i].slot = s <=> f < i /\ i <= f + n
        /\ Content(c, b, f, n)
  BY DEF BlockOf
<1>2. Content(d, b, f, n)
  BY <1>1 DEF Content, SampledNext, PromptNext, View, AtText, HasChunk, WantsLogits
<1> QED
  BY <1>1, <1>2 DEF BlockOf

LEMMA BlockNone ==
  ASSUME NEW s, NEW c, NEW b, NEW done \in Nat, done <= Len(b),
         Len(b) \in Nat, \A i \in done + 1 .. Len(b) : b[i].slot # s
  PROVE  BlockOf(s, c, b, done)
<1>1. done <= done /\ done + 0 <= Len(b) /\ 0 \in Nat
  OBVIOUS
<1>2. \A i \in done + 1 .. Len(b) : b[i].slot = s <=> done < i /\ i <= done + 0
  OBVIOUS
<1> QED
  BY <1>1, <1>2 DEF BlockOf, Content

LEMMA BlockReady ==
  ASSUME NEW s, NEW c, NEW b, NEW done, BlockOf(s, c, b, done), NEW i \in done + 1 .. Len(b), b[i].slot = s
  PROVE  Ready(c)
<1>1. PICK f \in Nat, n \in Nat :
        /\ \A j \in done + 1 .. Len(b) : b[j].slot = s <=> f < j /\ j <= f + n
        /\ Content(c, b, f, n)
  BY DEF BlockOf
<1>2. f < i /\ i <= f + n
  BY <1>1
<1>3. n # 0
  BY <1>2
<1> QED
  BY <1>1, <1>3 DEF Content, SampledNext, PromptNext

\* the entries of other slots come after those of this one
LEMMA BlockBefore ==
  ASSUME NEW s, NEW c, NEW b \in Seq(EntrySet), NEW x \in Seq(EntrySet), BlockOf(s, c, b, 0),
         \A i \in 1 .. Len(x) : x[i].slot # s
  PROVE  BlockOf(s, c, b \o x, 0)
<1>1. PICK f \in Nat, n \in Nat :
        /\ 0 <= f /\ f + n <= Len(b)
        /\ \A i \in 1 .. Len(b) : b[i].slot = s <=> f < i /\ i <= f + n
        /\ Content(c, b, f, n)
  BY DEF BlockOf
<1>2. Len(b \o x) = Len(b) + Len(x) /\ Len(b) \in Nat /\ Len(x) \in Nat
  OBVIOUS
<1>3. \A i \in 1 .. Len(b) : (b \o x)[i] = b[i]
  OBVIOUS
<1>4. \A i \in Len(b) + 1 .. Len(b) + Len(x) : (b \o x)[i] = x[i - Len(b)] /\ i - Len(b) \in 1 .. Len(x)
  OBVIOUS
<1>5. ASSUME NEW i \in 1 .. Len(b \o x) PROVE (b \o x)[i].slot = s <=> f < i /\ i <= f + n
  <2>1. CASE i <= Len(b)
    <3>1. i \in 1 .. Len(b)
      BY <1>2, <2>1
    <3> QED
      BY <1>1, <1>3, <3>1
  <2>2. CASE i > Len(b)
    <3>1. i \in Len(b) + 1 .. Len(b) + Len(x)
      BY <1>2, <2>2
    <3>2. (b \o x)[i].slot # s
      BY <1>4, <3>1
    <3> QED
      BY <1>1, <1>2, <2>2, <3>2
  <2> QED
    BY <1>2, <2>1, <2>2
<1>6. Content(c, b \o x, f, n)
  <2>1. \A k \in 1 .. n : f + k \in 1 .. Len(b) /\ (b \o x)[f + k] = b[f + k]
    BY <1>1, <1>2, <1>3
  <2>2. n = 1 => (b \o x)[f + 1] = b[f + 1]
    BY <2>1
  <2> QED
    BY <1>1, <2>1, <2>2 DEF Content, SampledNext, PromptNext
<1>7. f + n <= Len(b \o x)
  BY <1>1, <1>2
<1>8. 0 + 1 = 1
  OBVIOUS
<1> QED
  BY <1>1, <1>5, <1>6, <1>7, <1>8 DEF BlockOf

\* the first entries of a slot
LEMMA BlockNew ==
  ASSUME NEW s, NEW c, NEW b \in Seq(EntrySet), NEW x \in Seq(EntrySet),
         \A i \in 1 .. Len(b) : b[i].slot # s, \A i \in 1 .. Len(x) : x[i].slot = s, Content(c, x, 0, Len(x))
  PROVE  BlockOf(s, c, b \o x, 0)
<1>2. Len(b \o x) = Len(b) + Len(x) /\ Len(b) \in Nat /\ Len(x) \in Nat
  OBVIOUS
<1>3. \A i \in 1 .. Len(b) : (b \o x)[i] = b[i]
  OBVIOUS
<1>4. \A i \in Len(b) + 1 .. Len(b) + Len(x) : (b \o x)[i] = x[i - Len(b)] /\ i - Len(b) \in 1 .. Len(x)
  OBVIOUS
<1>5. ASSUME NEW i \in 1 .. Len(b \o x) PROVE (b \o x)[i].slot = s <=> Len(b) < i /\ i <= Len(b) + Len(x)
  <2>1. CASE i <= Len(b)
    <3>1. i \in 1 .. Len(b)
      BY <1>2, <2>1
    <3>2. (b \o x)[i].slot # s
      BY <1>3, <3>1
    <3> QED
      BY <1>2, <2>1, <3>2
  <2>2. CASE i > Len(b)
    <3>1. i \in Len(b) + 1 .. Len(b) + Len(x)
      BY <1>2, <2>2
    <3>2. (b \o x)[i].slot = s
      BY <1>4, <3>1
    <3> QED
      BY <1>2, <2>2, <3>1, <3>2
  <2> QED
    BY <1>2, <2>1, <2>2
<1>6. Content(c, b \o x, Len(b), Len(x))
  <2>1. \A k \in 1 .. Len(x) : (b \o x)[Len(b) + k] = x[k] /\ x[0 + k] = x[k]
    <3> SUFFICES ASSUME NEW k \in 1 .. Len(x) PROVE (b \o x)[Len(b) + k] = x[k] /\ x[0 + k] = x[k]
      OBVIOUS
    <3>1. Len(b) + k \in Len(b) + 1 .. Len(b) + Len(x) /\ (Len(b) + k) - Len(b) = k /\ 0 + k = k
      BY <1>2
    <3> QED
      BY <1>4, <3>1
  <2>2. Len(x) = 1 => (b \o x)[Len(b) + 1] = x[0 + 1]
    <3>1. Len(x) = 1 => 1 \in 1 .. Len(x)
      BY <1>2
    <3>2. 0 + 1 = 1
      OBVIOUS
    <3> QED
      BY <2>1, <3>1, <3>2
  <2> QED
    BY <1>2, <2>1, <2>2 DEF Content, SampledNext, PromptNext
<1>7. 0 <= Len(b) /\ Len(b) + Len(x) <= Len(b \o x)
  BY <1>2
<1>8. 0 + 1 = 1
  OBVIOUS
<1> QED
  BY <1>2, <1>5, <1>6, <1>7, <1>8 DEF BlockOf

\* the next entry is of another slot
LEMMA BlockPassed ==
  ASSUME NEW s, NEW c, NEW b \in Seq(EntrySet), NEW done \in 0 .. Len(b) - 1, BlockOf(s, c, b, done),
         b[done + 1].slot # s
  PROVE  BlockOf(s, c, b, done + 1)
<1>0. Len(b) \in Nat /\ done \in Nat /\ done + 1 <= Len(b)
  OBVIOUS
<1>1. PICK f \in Nat, n \in Nat :
        /\ done <= f /\ f + n <= Len(b)
        /\ \A i \in done + 1 .. Len(b) : b[i].slot = s <=> f < i /\ i <= f + n
        /\ Content(c, b, f, n)
  BY DEF BlockOf
<1>2. CASE n = 0
  <2>1. \A i \in done + 1 + 1 .. Len(b) : b[i].slot # s
    BY <1>0, <1>1, <1>2
  <2> QED
    BY <1>0, <2>1, BlockNone
<1>3. CASE n # 0
  <2>1. done + 1 \in done + 1 .. Len(b)
    BY <1>0
  <2>2. ~(f < done + 1 /\ done + 1 <= f + n)
    BY <1>1, <2>1
  <2>3. done + 1 <= f
    BY <1>0, <1>1, <1>3, <2>2
  <2>4. \A i \in done + 1 + 1 .. Len(b) : i \in done + 1 .. Len(b)
    BY <1>0
  <2> QED
    BY <1>1, <2>3, <2>4 DEF BlockOf
<1> QED
  BY <1>2, <1>3

\* the next entry is a token of this slot
LEMMA BlockHead ==
  ASSUME NEW s, NEW c \in Conversation, NEW b \in Seq(EntrySet), NEW done \in 0 .. Len(b) - 1,
         BlockOf(s, c, b, done), b[done + 1].slot = s
  PROVE  Ready(c) /\ NextToken(c, b[done + 1]) /\ b[done + 1].pos = c.past
<1>0. Len(b) \in Nat /\ done \in Nat /\ done + 1 \in done + 1 .. Len(b)
  OBVIOUS
<1>1. PICK f \in Nat, n \in Nat :
        /\ done <= f /\ f + n <= Len(b)
        /\ \A i \in done + 1 .. Len(b) : b[i].slot = s <=> f < i /\ i <= f + n
        /\ Content(c, b, f, n)
  BY DEF BlockOf
<1>2. f < done + 1 /\ done + 1 <= f + n
  BY <1>0, <1>1
<1>3. f = done /\ n >= 1 /\ 1 \in 1 .. n
  BY <1>0, <1>1, <1>2
<1> QED
  <2>1. CASE n = 1 /\ SampledNext(c, b, f)
    BY <1>3, <2>1 DEF SampledNext, NextToken
  <2>2. CASE PromptNext(c, b, f, n)
    <3>1. /\ b[done + 1].token = <<"prompt", c.prompt[c.chunk + 1].start + c.off + 1>>
          /\ b[done + 1].pos = c.past + 1 - 1 /\ AtText(c) /\ Ready(c)
      BY <1>3, <2>2 DEF PromptNext
    <3>2. c.past \in Nat
      BY InputTypes
    <3>3. b[done + 1].pos = c.past
      BY <3>1, <3>2
    <3> QED
      BY <3>1, <3>3 DEF NextToken
  <2> QED
    BY <1>1, <1>3, <2>1, <2>2 DEF Content

\* and what is left of the block when that token is evaluated
LEMMA BlockRest ==
  ASSUME NEW s, NEW c \in Conversation, NEW b \in Seq(EntrySet), NEW done \in 0 .. Len(b) - 1, BlockOf(s, c, b, done),
         b[done + 1].slot = s, PromptInOrder(c), Progress(c), NEW d \in Conversation, EvaluatedRest(c, d)
  PROVE  BlockOf(s, d, b, done + 1) /\ (b[done + 1].want => Awaited(d))
<1>0. Len(b) \in Nat /\ done \in Nat /\ done + 1 \in done + 1 .. Len(b) /\ done + 1 <= Len(b)
  OBVIOUS
<1>1. PICK f \in Nat, n \in Nat :
        /\ done <= f /\ f + n <= Len(b)
        /\ \A i \in done + 1 .. Len(b) : b[i].slot = s <=> f < i /\ i <= f + n
        /\ Content(c, b, f, n)
  BY DEF BlockOf
<1>2. f < done + 1 /\ done + 1 <= f + n
  BY <1>0, <1>1
<1>3. f = done /\ n >= 1 /\ 1 \in 1 .. n /\ n - 1 \in Nat
  BY <1>0, <1>1, <1>2
<1>4. Ready(d) <=> Ready(c)
  BY DEF Ready, EvaluatedRest, SameOutput
<1>5. c.off \in Nat /\ c.past \in Nat /\ c.chunk \in Nat /\ Len(c.prompt) \in Nat
  BY InputTypes
<1>6. /\ done + 1 <= done + 1 /\ (done + 1) + (n - 1) <= Len(b) /\ (done + 1) + (n - 1) = f + n
      /\ done + 1 \in Nat
  BY <1>0, <1>1, <1>3
<1>7. \A i \in done + 1 + 1 .. Len(b) : b[i].slot = s <=> done + 1 < i /\ i <= (done + 1) + (n - 1)
  <2> SUFFICES ASSUME NEW i \in done + 1 + 1 .. Len(b)
               PROVE  b[i].slot = s <=> done + 1 < i /\ i <= (done + 1) + (n - 1)
    OBVIOUS
  <2>1. i \in done + 1 .. Len(b) /\ f < i /\ done + 1 < i
    BY <1>0, <1>3
  <2>2. b[i].slot = s <=> f < i /\ i <= f + n
    BY <1>1, <2>1
  <2> QED
    BY <1>6, <2>1, <2>2
<1>8. Content(d, b, done + 1, n - 1) /\ (b[done + 1].want => Awaited(d))
  <2>1. CASE n = 1 /\ SampledNext(c, b, f)
    <3>1. n - 1 = 0
      BY <2>1
    <3>2. ~HasChunk(c)
      <4>1. c.total \in Nat
        BY ConvTypes
      <4> QED
        BY <2>1, <4>1 DEF Progress, SampledNext
    <3>3. ~d.pending /\ ~HasChunk(d) /\ Ready(d)
      BY <1>4, <2>1, <3>2 DEF EvaluatedRest, HasChunk, SampledNext
    <3> QED
      BY <3>1, <3>3 DEF Content, Awaited
  <2>2. CASE PromptNext(c, b, f, n)
    <3> DEFINE st == c.prompt[c.chunk + 1].start
               ln == c.prompt[c.chunk + 1].len
    <3>1. /\ d.past = c.past + 1 /\ d.prompt = c.prompt /\ ~d.pending /\ Ready(d)
          /\ c.off + 1 >= ln => d.chunk = c.chunk + 1
          /\ ~(c.off + 1 >= ln) => d.chunk = c.chunk /\ d.off = c.off + 1
      BY <1>4, <2>2 DEF EvaluatedRest, PromptNext
    <3>2. HasChunk(c) /\ st \in Nat /\ ln \in Nat
      BY <2>2, ChunkPlace DEF AtText, PromptNext
    <3>3. b[done + 1].want => n = 1 /\ WantsLogits(c, n)
      BY <1>3, <2>2 DEF PromptNext
    <3>4. b[done + 1].want => Awaited(d)
      <4>1. ASSUME b[done + 1].want PROVE ~HasChunk(d)
        <5>1. n = 1 /\ c.off + n = ln /\ c.chunk + 1 >= Len(c.prompt)
          BY <3>3, <4>1 DEF WantsLogits
        <5>2. c.off + 1 >= ln
          BY <3>2, <5>1
        <5>3. d.chunk = c.chunk + 1
          BY <3>1, <5>2
        <5> QED
          BY <1>5, <3>1, <5>1, <5>3 DEF HasChunk
      <4> QED
        BY <3>1, <4>1 DEF Awaited
    <3>5. Content(d, b, done + 1, n - 1)
      <4>1. CASE n = 1
        BY <4>1 DEF Content
      <4>2. CASE n > 1
        <5>1. ~(c.off + 1 >= ln)
          <6>1. c.off + n <= ln
            BY <2>2 DEF PromptNext
          <6> HIDE DEF ln
          <6> QED
            BY <1>5, <3>2, <4>2, <6>1
        <5>2. d.chunk = c.chunk /\ d.off = c.off + 1 /\ d.prompt[d.chunk + 1].len = ln /\ d.prompt[d.chunk + 1].start = st
          BY <3>1, <5>1
        <5>3. AtText(d)
          BY <2>2, <3>1, <5>2 DEF AtText, HasChunk, PromptNext
        <5>4. d.off + (n - 1) <= ln /\ d.off + (n - 1) = c.off + n
          <6>1. c.off + n <= ln
            BY <2>2 DEF PromptNext
          <6>2. d.off = c.off + 1
            BY <5>2
          <6>3. ln \in Nat /\ c.off \in Nat /\ n \in Nat
            BY <1>5, <3>2
          <6> HIDE DEF ln
          <6>4. d.off + (n - 1) = c.off + n
            BY <6>2, <6>3
          <6> QED
            BY <6>1, <6>4
        <5>5. WantsLogits(d, n - 1) <=> WantsLogits(c, n)
          BY <2>2, <3>1, <5>2, <5>4 DEF WantsLogits, PromptNext
        <5>6. ASSUME NEW k \in 1 .. n - 1
              PROVE  /\ b[(done + 1) + k].token = <<"prompt", st + d.off + k>>
                     /\ b[(done + 1) + k].pos = d.past + k - 1
                     /\ b[(done + 1) + k].want => k = n - 1 /\ WantsLogits(d, n - 1)
          <6>1. k + 1 \in 1 .. n /\ f + (k + 1) = (done + 1) + k /\ k \in Nat
            BY <1>0, <1>3
          <6>2. /\ b[(done + 1) + k].token = <<"prompt", st + c.off + (k + 1)>>
                /\ b[(done + 1) + k].pos = c.past + (k + 1) - 1
                /\ b[(done + 1) + k].want => k + 1 = n /\ WantsLogits(c, n)
            BY <2>2, <6>1 DEF PromptNext
          <6>3. st + c.off + (k + 1) = st + d.off + k /\ c.past + (k + 1) - 1 = d.past + k - 1
            <7>1. st \in Nat
              BY <3>2
            <7>2. d.past = c.past + 1 /\ d.off = c.off + 1
              BY <3>1, <5>2
            <7> HIDE DEF st
            <7> QED
              BY SMTT(30), <1>5, <6>1, <7>1, <7>2
          <6>4. (k + 1 = n) <=> (k = n - 1)
            BY <1>3, <6>1
          <6> HIDE DEF st, ln
          <6> QED
            BY <5>5, <6>2, <6>3, <6>4
        <5> QED
          BY <3>1, <5>2, <5>3, <5>4, <5>6 DEF Content, PromptNext
      <4> QED
        BY <1>3, <4>1, <4>2
    <3> QED
      BY <3>4, <3>5
  <2> QED
    BY <1>1, <1>3, <2>1, <2>2 DEF Content
<1> QED
  BY <1>6, <1>7, <1>8, <1>3 DEF BlockOf

-----------------------------------------------------------------------------
(* The inductive invariant *)

Shape ==
  /\ conv \in [Slots -> Conversation]
  /\ ring \in [Slots -> Seq(FragmentSet)] /\ got \in [Slots -> Seq(FragmentSet)]
  /\ kv \in [Slots -> Seq(Tokens)]

ClientType ==
  /\ eos \in [Slots -> BOOLEAN]
  /\ reader \in [Slots -> {"drain", "check", "last"}]
  /\ control \in [Slots -> {"out", "cancel"}]

BatchType ==
  /\ phase \in Phases
  /\ phase \notin {"tally", "output"} => at \in Slots
  /\ phase \in {"tally", "output"} => at \in 0 .. Len(batch) - 1
  /\ rr \in Slots
  /\ batch \in Seq(EntrySet) /\ Len(batch) <= MaxBatch

SlotInv == \A s \in Slots : SlotOk(s, conv[s], got[s], ring[s], kv[s])

\* how many entries of the batch have been tallied
Done == IF phase = "tally" THEN at ELSE 0

\* the slots that this phase has visited
Seen == {RoundRobin(i) : i \in 0 .. at - 1}

Blocks == \A s \in Slots : BlockOf(s, conv[s], batch, Done)

\* Until the batch is tallied its entries are the next tokens of their slots.
Filling ==
  /\ phase \in {"idle", "flush", "reset", "media"} => batch = << >>
  /\ phase \in {"idle", "eval"} => at = 0
  /\ phase \in {"decode", "prompt", "eval", "tally"} => Blocks
  /\ phase = "decode" => \A i \in 1 .. Len(batch) : batch[i].slot \in Seen /\ conv[batch[i].slot].pending
  /\ phase = "prompt" => \A i \in 1 .. Len(batch) : batch[i].slot \in Seen \/ conv[batch[i].slot].pending

\* A slot asks for logits once in a batch, and awaits them when its entry was
\* tallied.
Wanted ==
  /\ \A i, j \in 1 .. Len(batch) : batch[i].want /\ batch[j].want /\ i # j => batch[i].slot # batch[j].slot
  /\ phase = "tally" => \A i \in 1 .. at : batch[i].want => Awaited(conv[batch[i].slot])
  /\ phase = "output" => \A i \in at + 1 .. Len(batch) : batch[i].want => Awaited(conv[batch[i].slot])

\* After its reset visit no decoding slot awaits a reset.
ResetDone ==
  /\ phase = "reset" => \A s \in Slots : s < at /\ conv[s].state = "decoding" => ~conv[s].dirty
  /\ phase \in {"media", "decode", "prompt"} => \A s \in Slots : conv[s].state = "decoding" => ~conv[s].dirty

BatchOk == Filling /\ Wanted /\ ResetDone

IInv == Shape /\ ClientType /\ BatchType /\ SlotInv /\ BatchOk

LEMMA SlotsFacts ==
  /\ 0 \in Slots /\ Slots \in SUBSET Nat /\ \A s \in Slots : s \in Nat /\ s < MaxSlots
  /\ \A n \in Nat : n < MaxSlots => n \in Slots
BY ConstTypes DEF Slots

LEMMA InitKeeps ==
  Init => IInv
<1> SUFFICES ASSUME Init PROVE IInv
  OBVIOUS
<1>1. << >> \in Seq(FragmentSet) /\ << >> \in Seq(Tokens) /\ << >> \in Seq(EntrySet) /\ Len(<< >>) = 0
  OBVIOUS
<1>2. FreshConv \in Conversation
  BY FreshIs
<1>3. Shape /\ ClientType
  BY <1>1, <1>2 DEF Init, Shape, ClientType
<1>4. BatchType
  BY <1>1, SlotsFacts, ConstTypes DEF Init, BatchType, Phases
<1>5. SlotInv
  BY <1>1, FreshSlot DEF Init, SlotInv
<1>6. BatchOk
  BY <1>1 DEF Init, BatchOk, Filling, Wanted, ResetDone
<1> QED
  BY <1>3, <1>4, <1>5, <1>6 DEF IInv

LEMMA SlotTypes ==
  ASSUME NEW s, NEW c, NEW g, NEW r, NEW k, SlotOk(s, c, g, r, k)
  PROVE  c \in Conversation /\ g \in Seq(FragmentSet) /\ r \in Seq(FragmentSet) /\ k \in Seq(Tokens)
BY DEF SlotOk, StreamOk, ContextOk, Going

\* an operation on one slot
LEMMA PutSlot ==
  ASSUME Shape, SlotInv, NEW s \in Slots, NEW d, NEW g, NEW r, NEW k, SlotOk(s, d, g, r, k),
         conv' = [conv EXCEPT ![s] = d], got' = [got EXCEPT ![s] = g],
         ring' = [ring EXCEPT ![s] = r], kv' = [kv EXCEPT ![s] = k]
  PROVE  Shape' /\ SlotInv' /\ conv'[s] = d /\ \A t \in Slots : t # s => conv'[t] = conv[t]
<1>1. d \in Conversation /\ g \in Seq(FragmentSet) /\ r \in Seq(FragmentSet) /\ k \in Seq(Tokens)
  BY SlotTypes
<1>2. Shape'
  BY <1>1 DEF Shape
<1>3. conv'[s] = d /\ got'[s] = g /\ ring'[s] = r /\ kv'[s] = k
  BY DEF Shape
<1>4. \A t \in Slots : t # s => conv'[t] = conv[t] /\ got'[t] = got[t] /\ ring'[t] = ring[t] /\ kv'[t] = kv[t]
  BY DEF Shape
<1>5. SlotInv'
  <2>1. ASSUME NEW t \in Slots PROVE SlotOk(t, conv'[t], got'[t], ring'[t], kv'[t])
    BY <1>3, <1>4 DEF SlotInv
  <2> QED
    BY <2>1 DEF SlotInv
<1> QED
  BY <1>2, <1>3, <1>4, <1>5

LEMMA SameSlot ==
  ASSUME Shape, NEW s \in Slots
  PROVE  /\ conv = [conv EXCEPT ![s] = conv[s]] /\ got = [got EXCEPT ![s] = got[s]]
         /\ ring = [ring EXCEPT ![s] = ring[s]] /\ kv = [kv EXCEPT ![s] = kv[s]]
BY DEF Shape

LEMMA EntryFacts ==
  ASSUME BatchType, NEW i \in 1 .. Len(batch)
  PROVE  batch[i].slot \in Slots /\ batch[i].token \in Tokens /\ batch[i].want \in BOOLEAN /\ Len(batch) \in Nat
<1>1. batch[i] \in EntrySet
  BY DEF BatchType
<1>2. Len(batch) \in Nat
  BY DEF BatchType
<1> DEFINE e == batch[i]
<1> HIDE DEF e
<1>3. e.slot \in Slots /\ e.token \in Tokens /\ e.want \in BOOLEAN
  BY <1>1 DEF EntrySet, e
<1> QED
  BY <1>2, <1>3 DEF e

LEMMA AwaitedKept ==
  ASSUME NEW c, NEW d, View(c, d), Awaited(c)
  PROVE  Awaited(d)
BY DEF View, Awaited, HasChunk

\* A step of another thread, or one of the executor that touches no batch.
LEMMA BatchStays ==
  ASSUME BatchType, BatchOk, UNCHANGED <<phase, at, rr, batch>>,
         \A t \in Slots : View(conv[t], conv'[t]),
         phase \in {"reset", "media", "decode", "prompt"} =>
           \A t \in Slots : conv'[t].state = "decoding" => conv[t].state = "decoding" /\ conv'[t].dirty = conv[t].dirty
  PROVE  BatchType' /\ BatchOk'
<1>1. BatchType'
  BY DEF BatchType
<1>2. Done' = Done /\ Seen' = Seen
  BY DEF Done, Seen, RoundRobin
<1>3. Blocks => Blocks'
  <2> SUFFICES ASSUME Blocks PROVE Blocks'
    OBVIOUS
  <2>1. ASSUME NEW s \in Slots PROVE BlockOf(s, conv'[s], batch, Done)
    <3>1. BlockOf(s, conv[s], batch, Done)
      BY DEF Blocks
    <3> QED
      BY <3>1, BlockKept
  <2> QED
    BY <1>2, <2>1 DEF Blocks
<1>4. ASSUME phase \in {"decode", "prompt"}, NEW i \in 1 .. Len(batch), conv[batch[i].slot].pending
      PROVE  conv'[batch[i].slot].pending
  <2> DEFINE s == batch[i].slot
  <2>1. s \in Slots
    BY EntryFacts
  <2>2. BlockOf(s, conv[s], batch, 0)
    BY <1>4, <2>1 DEF BatchOk, Filling, Blocks, Done
  <2>3. i \in 0 + 1 .. Len(batch)
    OBVIOUS
  <2>4. Ready(conv[s])
    BY <2>2, <2>3, BlockReady
  <2> QED
    BY <1>4, <2>1, <2>4 DEF View
<1>5. Filling'
  BY <1>2, <1>3, <1>4 DEF BatchOk, Filling
<1>6. Wanted'
  <2>1. ASSUME NEW i \in 1 .. Len(batch), Awaited(conv[batch[i].slot]) PROVE Awaited(conv'[batch[i].slot])
    BY <2>1, EntryFacts, AwaitedKept
  <2>2. phase = "tally" => \A i \in 1 .. at : i \in 1 .. Len(batch)
    BY DEF BatchType
  <2>3. phase = "output" => \A i \in at + 1 .. Len(batch) : i \in 1 .. Len(batch)
    BY DEF BatchType
  <2> QED
    BY <2>1, <2>2, <2>3 DEF BatchOk, Wanted
<1>7. ResetDone'
  BY DEF BatchOk, ResetDone
<1> QED
  BY <1>1, <1>5, <1>6, <1>7 DEF BatchOk

-----------------------------------------------------------------------------
(* Each operation keeps the invariant: the threads of the API *)

LEMMA InvParts ==
  ASSUME IInv, NEW s \in Slots
  PROVE  /\ Shape /\ ClientType /\ BatchType /\ SlotInv /\ BatchOk
         /\ SlotOk(s, conv[s], got[s], ring[s], kv[s]) /\ conv[s] \in Conversation
BY SlotTypes DEF IInv, SlotInv

\* An operation on a slot that is not ready, or that leaves its tokens as they
\* are, does not concern the batch.
LEMMA OneSlotKeeps ==
  ASSUME IInv, NEW s \in Slots, NEW d, NEW g, NEW r, NEW k, SlotOk(s, d, g, r, k),
         conv' = [conv EXCEPT ![s] = d], got' = [got EXCEPT ![s] = g],
         ring' = [ring EXCEPT ![s] = r], kv' = [kv EXCEPT ![s] = k],
         UNCHANGED <<phase, at, rr, batch>>, View(conv[s], d),
         phase \in {"reset", "media", "decode", "prompt"} =>
           (d.state = "decoding" => conv[s].state = "decoding" /\ d.dirty = conv[s].dirty)
  PROVE  Shape' /\ SlotInv' /\ BatchType' /\ BatchOk'
<1>1. Shape /\ ClientType /\ BatchType /\ SlotInv /\ BatchOk
  BY DEF IInv
<1>2. Shape' /\ SlotInv' /\ conv'[s] = d /\ \A t \in Slots : t # s => conv'[t] = conv[t]
  BY <1>1, PutSlot
<1>3. \A t \in Slots : View(conv[t], conv'[t])
  BY <1>2 DEF View
<1>4. phase \in {"reset", "media", "decode", "prompt"} =>
        \A t \in Slots : conv'[t].state = "decoding" => conv[t].state = "decoding" /\ conv'[t].dirty = conv[t].dirty
  BY <1>2
<1> QED
  BY <1>1, <1>2, <1>3, <1>4, BatchStays

LEMMA FeedKeeps ==
  ASSUME IInv, NEW s \in Slots, NEW k \in Chunks, Feed(s, k)
  PROVE  IInv'
<1> DEFINE c == conv[s]
           d == [c EXCEPT !.prompt = Append(c.prompt, [start |-> c.count, len |-> k]),
                          !.count = c.count + k, !.state = "feeding"]
<1>1. SlotOk(s, c, got[s], ring[s], kv[s]) /\ Shape /\ ClientType /\ c \in Conversation
  BY InvParts
<1>2. c.state \in {"idle", "feeding"} /\ Len(c.prompt) < MaxChunks /\ conv' = [conv EXCEPT ![s] = d]
      /\ UNCHANGED <<ring, got, eos, reader, control, phase, at, rr, batch, kv>>
  BY DEF Feed, clientVars, execVars
<1>3. SlotOk(s, d, got[s], ring[s], kv[s])
  BY <1>1, <1>2, FeedSlot
<1>4. d.state = "feeding"
  BY <1>1 DEF Conversation
<1>5. View(c, d)
  BY <1>2 DEF View, Ready
<1>6. got' = [got EXCEPT ![s] = got[s]] /\ ring' = [ring EXCEPT ![s] = ring[s]] /\ kv' = [kv EXCEPT ![s] = kv[s]]
  BY <1>1, <1>2, SameSlot
<1> HIDE DEF d
<1>7. Shape' /\ SlotInv' /\ BatchType' /\ BatchOk'
  BY <1>2, <1>3, <1>4, <1>5, <1>6, OneSlotKeeps
<1> QED
  BY <1>1, <1>2, <1>7 DEF IInv, ClientType

LEMMA DecodeKeeps ==
  ASSUME IInv, ~LateDecode, NEW s \in Slots, Decode(s)
  PROVE  IInv'
<1> DEFINE c == conv[s]
           d == [FreshConv EXCEPT !.state = "decoding", !.prompt = c.prompt, !.count = c.count, !.dirty = TRUE]
<1>1. SlotOk(s, c, got[s], ring[s], kv[s]) /\ Shape /\ ClientType
  BY InvParts
<1>2. c.state = "feeding" /\ conv' = [conv EXCEPT ![s] = d]
      /\ phase \notin {"reset", "media", "decode", "prompt"}
      /\ UNCHANGED <<ring, got, eos, reader, control, phase, at, rr, batch, kv>>
  BY DEF Decode, clientVars, execVars
<1>3. SlotOk(s, d, got[s], ring[s], kv[s])
  BY <1>1, <1>2, DecodeSlot
<1> HIDE DEF d
<1>4. View(c, d)
  BY <1>2 DEF View, Ready
<1>5. got' = [got EXCEPT ![s] = got[s]] /\ ring' = [ring EXCEPT ![s] = ring[s]] /\ kv' = [kv EXCEPT ![s] = kv[s]]
  BY <1>1, <1>2, SameSlot
<1>6. Shape' /\ SlotInv' /\ BatchType' /\ BatchOk'
  BY <1>2, <1>3, <1>4, <1>5, OneSlotKeeps
<1> QED
  BY <1>1, <1>2, <1>6 DEF IInv, ClientType

LEMMA CancelKeeps ==
  ASSUME IInv, NEW s \in Slots, CancelLoad(s) \/ CancelStore(s)
  PROVE  IInv'
<1> DEFINE c == conv[s]
           a == [c EXCEPT !.state = "canceled"]
           b == [c EXCEPT !.cancel = TRUE]
<1>1. /\ SlotOk(s, c, got[s], ring[s], kv[s]) /\ Shape /\ ClientType /\ c \in Conversation
      /\ BatchType /\ SlotInv /\ BatchOk
  BY InvParts
<1>2. UNCHANGED <<ring, got, eos, reader, phase, at, rr, batch, kv>> /\ ClientType'
  BY <1>1 DEF CancelLoad, CancelStore, execVars, ClientType
<1>3. got' = [got EXCEPT ![s] = got[s]] /\ ring' = [ring EXCEPT ![s] = ring[s]] /\ kv' = [kv EXCEPT ![s] = kv[s]]
  BY <1>1, <1>2, SameSlot
<1>4. SlotOk(s, a, got[s], ring[s], kv[s]) /\ SlotOk(s, b, got[s], ring[s], kv[s])
  BY <1>1, CancelSlot
<1>5. \/ conv' = [conv EXCEPT ![s] = a] /\ c.state \in {"idle", "feeding"}
      \/ conv' = [conv EXCEPT ![s] = b]
      \/ conv' = conv
  BY DEF CancelLoad, CancelStore
<1>6. /\ a.state = "canceled" /\ b.state = c.state /\ b.dirty = c.dirty /\ b.staged = c.staged /\ b.ending = c.ending
      /\ b.pending = c.pending /\ b.chunk = c.chunk /\ b.off = c.off /\ b.past = c.past /\ b.prompt = c.prompt
      /\ b.total = c.total
  BY <1>1 DEF Conversation
<1> HIDE DEF a, b
<1>7. Shape' /\ SlotInv' /\ BatchType' /\ BatchOk'
  <2>1. CASE conv' = [conv EXCEPT ![s] = a] /\ c.state \in {"idle", "feeding"}
    <3>1. View(c, a)
      BY <2>1 DEF View, Ready
    <3> QED
      BY <1>2, <1>3, <1>4, <1>6, <2>1, <3>1, OneSlotKeeps
  <2>2. CASE conv' = [conv EXCEPT ![s] = b]
    <3>1. View(c, b)
      BY <1>6 DEF View, Ready
    <3>2. b.state = "decoding" => c.state = "decoding" /\ b.dirty = c.dirty
      BY <1>6
    <3>3. UNCHANGED <<phase, at, rr, batch>>
      BY <1>2
    <3> QED
      BY <1>3, <1>4, <2>2, <3>1, <3>2, <3>3, OneSlotKeeps
  <2>3. CASE conv' = conv
    <3>1. conv' = [conv EXCEPT ![s] = c] /\ View(c, c)
      BY <1>1, <2>3, SameSlot DEF View
    <3>2. UNCHANGED <<phase, at, rr, batch>>
      BY <1>2
    <3>3. SlotOk(s, c, got[s], ring[s], kv[s])
      BY <1>1
    <3> HIDE DEF c
    <3> QED
      BY <1>3, <3>1, <3>2, <3>3, OneSlotKeeps DEF c
  <2> QED
    BY <1>5, <2>1, <2>2, <2>3
<1> QED
  BY <1>2, <1>7 DEF IInv

LEMMA ResetKeeps ==
  ASSUME IInv, NEW s \in Slots, Reset(s)
  PROVE  IInv'
<1> DEFINE c == conv[s]
           d == [FreshConv EXCEPT !.dirty = TRUE]
<1>1. SlotOk(s, c, got[s], ring[s], kv[s]) /\ Shape /\ ClientType /\ kv[s] \in Seq(Tokens)
  BY InvParts DEF Shape
<1>2. /\ c.state # "decoding" /\ conv' = [conv EXCEPT ![s] = d]
      /\ ring' = [ring EXCEPT ![s] = << >>] /\ got' = [got EXCEPT ![s] = << >>] /\ eos' = [eos EXCEPT ![s] = FALSE]
      /\ UNCHANGED <<reader, control, phase, at, rr, batch, kv>>
  BY DEF Reset, execVars, Decoding
<1>3. SlotOk(s, d, << >>, << >>, kv[s])
  BY <1>1, FreshSlot
<1>4. View(c, d)
  BY <1>2 DEF View, Ready
<1>5. d.state = "idle"
  BY FreshIs DEF Conversation
<1>6. kv' = [kv EXCEPT ![s] = kv[s]]
  BY <1>1, <1>2, SameSlot
<1> HIDE DEF d
<1>7. Shape' /\ SlotInv' /\ BatchType' /\ BatchOk'
  BY <1>2, <1>3, <1>4, <1>5, <1>6, OneSlotKeeps
<1>8. ClientType'
  BY <1>1, <1>2 DEF ClientType
<1> QED
  BY <1>7, <1>8 DEF IInv

LEMMA StreamReadKeeps ==
  ASSUME IInv, NEW s \in Slots, StreamRead(s)
  PROVE  IInv'
<1> DEFINE c == conv[s]
<1>1. /\ SlotOk(s, c, got[s], ring[s], kv[s]) /\ Shape /\ ClientType
      /\ BatchType /\ SlotInv /\ BatchOk
  BY InvParts
<1>2. UNCHANGED <<conv, control, phase, at, rr, batch, kv>> /\ ClientType'
  BY <1>1 DEF StreamRead, ReadDrain, ReadCheck, ReadLast, execVars, ClientType
<1>3. conv' = [conv EXCEPT ![s] = c] /\ kv' = [kv EXCEPT ![s] = kv[s]] /\ View(c, c)
  BY <1>1, <1>2, SameSlot DEF View
<1>4. (\E n \in 1 .. Len(ring[s]) : Take(s, n)) \/ UNCHANGED <<ring, got>>
  BY DEF StreamRead, ReadDrain, ReadCheck, ReadLast
<1>5. Shape' /\ SlotInv' /\ BatchType' /\ BatchOk'
  <2>1. CASE \E n \in 1 .. Len(ring[s]) : Take(s, n)
    <3>1. PICK n \in 1 .. Len(ring[s]) : Take(s, n)
      BY <2>1
    <3> DEFINE g == got[s] \o SubSeq(ring[s], 1, n)
               r == SubSeq(ring[s], n + 1, Len(ring[s]))
    <3>2. SlotOk(s, c, g, r, kv[s])
      BY <1>1, TakeSlot
    <3>3. got' = [got EXCEPT ![s] = g] /\ ring' = [ring EXCEPT ![s] = r]
      BY <3>1 DEF Take
    <3> HIDE DEF g, r
    <3> QED
      BY <1>2, <1>3, <3>2, <3>3, OneSlotKeeps
  <2>2. CASE UNCHANGED <<ring, got>>
    <3>1. ring' = [ring EXCEPT ![s] = ring[s]] /\ got' = [got EXCEPT ![s] = got[s]]
      BY <1>1, <2>2, SameSlot
    <3> QED
      BY <1>1, <1>2, <1>3, <3>1, OneSlotKeeps
  <2> QED
    BY <1>4, <2>1, <2>2
<1> QED
  BY <1>2, <1>5 DEF IInv

-----------------------------------------------------------------------------
(* Each operation keeps the invariant: the visits of the executor *)

LEMMA VisitedFacts ==
  ASSUME Visited, at \in Slots
  PROVE  /\ \/ at' = at + 1 /\ phase' = phase /\ at' \in Slots
            \/ at' = 0 /\ phase' = NextPhase[phase] /\ at + 1 = MaxSlots
         /\ at \in Nat
BY SlotsFacts, ConstTypes DEF Visited

LEMMA PutKeeps ==
  ASSUME Shape, SlotInv, NEW s \in Slots, NEW x, Put(s, x), NEW k, kv' = [kv EXCEPT ![s] = k], UNCHANGED got,
         SlotOk(s, x[1], got[s], x[2], k)
  PROVE  Shape' /\ SlotInv' /\ conv'[s] = x[1] /\ \A t \in Slots : t # s => conv'[t] = conv[t]
<1>1. got' = [got EXCEPT ![s] = got[s]]
  BY SameSlot
<1>2. conv' = [conv EXCEPT ![s] = x[1]] /\ ring' = [ring EXCEPT ![s] = x[2]]
  BY DEF Put
<1> QED
  BY <1>1, <1>2, PutSlot

LEMMA NothingKeeps ==
  ASSUME Shape, SlotInv, UNCHANGED <<conv, ring, got, kv>>
  PROVE  Shape' /\ SlotInv'
BY DEF Shape, SlotInv

LEMMA TickKeeps ==
  ASSUME IInv, Tick
  PROVE  IInv'
<1>1. /\ Shape /\ ClientType /\ BatchType /\ SlotInv /\ BatchOk
      /\ phase = "idle" /\ phase' = "flush" /\ UNCHANGED <<conv, ring, got, eos, reader, control, at, rr, batch, kv>>
  BY DEF IInv, Tick, clientVars
<1>2. Shape' /\ SlotInv' /\ ClientType'
  BY <1>1, NothingKeeps DEF ClientType
<1>3. BatchType'
  BY <1>1 DEF BatchType, Phases
<1>4. batch = << >>
  BY <1>1 DEF BatchOk, Filling
<1>5. Len(<< >>) = 0
  OBVIOUS
<1>6. BatchOk'
  BY <1>1, <1>4, <1>5 DEF BatchOk, Filling, Wanted, ResetDone
<1> QED
  BY <1>2, <1>3, <1>6 DEF IInv

LEMMA FlushVisitKeeps ==
  ASSUME IInv, FlushVisit
  PROVE  IInv'
<1> DEFINE c == conv[at]
           f == IF at \in Streamed THEN FlushHold(c, ring[at], Retain)
                                   ELSE <<[c EXCEPT !.staged = FALSE], ring[at]>>
<1>1. /\ Shape /\ ClientType /\ BatchType /\ SlotInv /\ BatchOk
      /\ phase = "flush" /\ Visited /\ UNCHANGED <<got, eos, reader, control, rr, batch, kv>>
  BY DEF IInv, FlushVisit, clientVars
<1>2. at \in Slots
  BY <1>1 DEF BatchType
<1>3. SlotOk(at, c, got[at], ring[at], kv[at]) /\ kv' = [kv EXCEPT ![at] = kv[at]]
  BY <1>1, <1>2, SameSlot DEF SlotInv
<1>4. Shape' /\ SlotInv'
  <2>1. CASE ~Decoding(at)
    <3>1. UNCHANGED <<conv, ring>>
      BY <2>1 DEF FlushVisit
    <3> QED
      BY <1>1, <3>1, NothingKeeps
  <2>2. CASE Decoding(at)
    <3>0. c.state = "decoding"
      BY <2>2 DEF Decoding
    <3>1. \/ Put(at, FlushAt(at, c, ring[at]))
          \/ \E x \in FlushFailures(c, ring[at], IF c.ending THEN 0 ELSE Retain) : Put(at, x)
      BY <2>2 DEF FlushVisit, FlushAt
    <3>2. CASE Put(at, FlushAt(at, c, ring[at]))
      <4> DEFINE x == FlushAt(at, c, ring[at])
      <4>1. SlotOk(at, x[1], got[at], x[2], kv[at])
        BY <1>2, <1>3, <3>0, FlushSlot
      <4> HIDE DEF x
      <4>2. Put(at, x)
        BY <3>2 DEF x
      <4> QED
        BY <1>1, <1>2, <1>3, <4>1, <4>2, PutKeeps
    <3>3. CASE \E x \in FlushFailures(c, ring[at], IF c.ending THEN 0 ELSE Retain) : Put(at, x)
      <4> DEFINE n == IF c.ending THEN 0 ELSE Retain
      <4>1. PICK x \in FlushFailures(c, ring[at], n) : Put(at, x)
        BY <3>3
      <4>2. n \in Nat
        BY ConstTypes DEF Retain
      <4>3. Going(at, got[at], c, ring[at]) /\ got[at] \in Seq(FragmentSet)
        BY <1>3 DEF SlotOk, StreamOk
      <4> HIDE DEF n
      <4>4. Going(at, got[at], x[1], x[2]) /\ x[1].state = "failed" /\ SameInput(c, x[1])
        BY <1>2, <4>1, <4>2, <4>3, FlushFailuresKeep
      <4>5. SlotOk(at, x[1], got[at], x[2], kv[at])
        BY <1>2, <1>3, <4>4, EndedSlot
      <4> QED
        BY <1>1, <1>2, <1>3, <4>1, <4>5, PutKeeps
    <3> QED
      BY <3>1, <3>2, <3>3
  <2> QED
    BY <2>1, <2>2
<1>5. \/ at' = at + 1 /\ phase' = phase /\ at' \in Slots
      \/ at' = 0 /\ phase' = "reset"
  <2>1. NextPhase["flush"] = "reset"
    BY DEF NextPhase
  <2> QED
    BY <1>1, <1>2, <2>1, VisitedFacts
<1>6. batch' = << >> /\ Len(<< >>) = 0
  BY <1>1 DEF BatchOk, Filling
<1>7. ClientType' /\ BatchType'
  BY <1>1, <1>5, SlotsFacts DEF ClientType, BatchType, Phases
<1>8. BatchOk'
  <2>1. phase' = "reset" => \A s \in Slots : ~(s < at')
    BY <1>1, <1>5, SlotsFacts
  <2> QED
    BY <1>1, <1>5, <1>6, <2>1 DEF BatchOk, Filling, Wanted, ResetDone
<1> QED
  BY <1>4, <1>7, <1>8 DEF IInv

LEMMA ResetVisitKeeps ==
  ASSUME IInv, ResetVisit
  PROVE  IInv'
<1> DEFINE c == conv[at]
           d == IF c.dirty THEN SlotReset(c) ELSE c
           l == IF c.dirty THEN << >> ELSE kv[at]
<1>1. /\ Shape /\ ClientType /\ BatchType /\ SlotInv /\ BatchOk
      /\ phase = "reset" /\ Visited /\ UNCHANGED <<ring, got, eos, reader, control, rr, batch>>
  BY DEF IInv, ResetVisit, clientVars
<1>2. at \in Slots
  BY <1>1 DEF BatchType
<1>3. SlotOk(at, c, got[at], ring[at], kv[at]) /\ ring' = [ring EXCEPT ![at] = ring[at]] /\ got' = [got EXCEPT ![at] = got[at]]
  BY <1>1, <1>2, SameSlot DEF SlotInv
<1>4. /\ Shape' /\ SlotInv' /\ \A t \in Slots : t # at => conv'[t] = conv[t]
      /\ conv'[at].state = "decoding" => ~conv'[at].dirty
  <2>1. CASE ~Decoding(at)
    <3>1. UNCHANGED <<conv, kv>>
      BY <2>1 DEF ResetVisit
    <3> QED
      BY <1>1, <2>1, <3>1, NothingKeeps DEF Decoding
  <2>2. CASE Decoding(at)
    <3>1. c.state = "decoding"
      BY <2>2 DEF Decoding
    <3>2. kv' = [kv EXCEPT ![at] = l]
      BY <2>2 DEF ResetVisit
    <3>3. \/ conv' = [conv EXCEPT ![at] = d]
          \/ conv' = [conv EXCEPT ![at] = Fail(d)]
      BY <2>2 DEF ResetVisit
    <3>4. SlotOk(at, d, got[at], ring[at], l) /\ ~d.dirty /\ d.state = "decoding"
      BY <1>2, <1>3, <3>1, ResetSlot
    <3> HIDE DEF d, l, c
    <3>5. SlotOk(at, Fail(d), got[at], ring[at], l)
      BY <1>2, <3>4, FailSlot
    <3>6. Fail(d).state = "failed"
      <4>1. d \in Conversation
        BY <3>4, SlotTypes
      <4> QED
        BY <4>1 DEF Fail, Conversation
    <3>7. CASE conv' = [conv EXCEPT ![at] = d]
      <4>1. Shape' /\ SlotInv' /\ conv'[at] = d /\ \A t \in Slots : t # at => conv'[t] = conv[t]
        BY <1>1, <1>2, <1>3, <3>2, <3>4, <3>7, PutSlot
      <4> QED
        BY <3>4, <4>1
    <3>8. CASE conv' = [conv EXCEPT ![at] = Fail(d)]
      <4> DEFINE y == Fail(d)
      <4> HIDE DEF y
      <4>1. SlotOk(at, y, got[at], ring[at], l) /\ conv' = [conv EXCEPT ![at] = y] /\ y.state = "failed"
        BY <3>5, <3>6, <3>8 DEF y
      <4>2. Shape' /\ SlotInv' /\ conv'[at] = y /\ \A t \in Slots : t # at => conv'[t] = conv[t]
        BY <1>1, <1>2, <1>3, <3>2, <4>1, PutSlot
      <4> QED
        BY <4>1, <4>2
    <3> QED
      BY <3>3, <3>7, <3>8
  <2> QED
    BY <2>1, <2>2
<1>5. /\ \/ at' = at + 1 /\ phase' = phase /\ at' \in Slots
         \/ at' = 0 /\ phase' = "media" /\ at + 1 = MaxSlots
      /\ at \in Nat
  <2>1. NextPhase["reset"] = "media"
    BY DEF NextPhase
  <2> QED
    BY <1>1, <1>2, <2>1, VisitedFacts
<1>6. batch' = << >> /\ Len(<< >>) = 0
  BY <1>1 DEF BatchOk, Filling
<1>7. ClientType' /\ BatchType'
  BY <1>1, <1>5, SlotsFacts DEF ClientType, BatchType, Phases
<1>8. \A s \in Slots : s < at + 1 /\ conv'[s].state = "decoding" => ~conv'[s].dirty
  <2> SUFFICES ASSUME NEW s \in Slots, s < at + 1, conv'[s].state = "decoding" PROVE ~conv'[s].dirty
    OBVIOUS
  <2>1. CASE s = at
    BY <1>4, <2>1
  <2>2. CASE s # at
    <3>1. s < at
      BY <1>5, <2>2, SlotsFacts
    <3> QED
      BY <1>1, <1>4, <2>2, <3>1 DEF BatchOk, ResetDone
  <2> QED
    BY <2>1, <2>2
<1>9. ResetDone'
  <2>1. \A s \in Slots : s < MaxSlots
    BY SlotsFacts
  <2> QED
    BY <1>1, <1>5, <1>8, <2>1 DEF ResetDone
<1>10. BatchOk'
  BY <1>1, <1>5, <1>6, <1>9 DEF BatchOk, Filling, Wanted
<1> QED
  BY <1>4, <1>7, <1>10 DEF IInv

\* what sampling may leave of a slot that awaits it
LEMMA OutcomeSlot ==
  ASSUME NEW s \in Slots, NEW c, NEW g, NEW r, NEW k, SlotOk(s, c, g, r, k), Awaited(c), NEW o \in Outcomes(c), NEW x,
         x = Sampled(s, c, r, o) \/ x \in SampledFailures(s, c, r, o)
  PROVE  SlotOk(s, x[1], g, x[2], k) /\ x[1].dirty = c.dirty
<1>1. Sampling(s, g, c, r) /\ g \in Seq(FragmentSet)
  BY AwaitedSampling
<1>2. CASE x = Sampled(s, c, r, o)
  <2> DEFINE f == Sampled(s, c, r, o)
  <2>1. AfterSample(s, g, c, f[1], f[2])
    BY <1>1, SampledKeeps
  <2> HIDE DEF f
  <2>2. x = f
    BY <1>2 DEF f
  <2>3. SlotOk(s, f[1], g, f[2], k)
    BY <2>1, SampledSlot
  <2> QED
    BY <2>1, <2>2, <2>3 DEF AfterSample, SameInput
<1>3. CASE x \in SampledFailures(s, c, r, o)
  <2>1. Going(s, g, x[1], x[2]) /\ x[1].state = "failed" /\ SameInput(c, x[1])
    BY <1>1, <1>3, SampledFailuresKeep
  <2>2. SlotOk(s, x[1], g, x[2], k)
    BY <2>1, EndedSlot
  <2> QED
    BY <2>1, <2>2 DEF SameInput
<1> QED
  BY <1>2, <1>3

LEMMA MediaVisitKeeps ==
  ASSUME IInv, MediaVisit
  PROVE  IInv'
<1> DEFINE c == conv[at]
           fed == MediaFed(c, kv[at])
           l == Append(kv[at], <<"media", c.chunk + 1>>)
<1>1. /\ Shape /\ ClientType /\ BatchType /\ SlotInv /\ BatchOk
      /\ phase = "media" /\ Visited /\ UNCHANGED <<got, eos, reader, control, rr, batch>>
  BY DEF IInv, MediaVisit, clientVars
<1>2. at \in Slots
  BY <1>1 DEF BatchType
<1>3. SlotOk(at, c, got[at], ring[at], kv[at]) /\ c \in Conversation
  BY <1>1, <1>2, SlotTypes DEF SlotInv
<1>4. \/ UNCHANGED <<conv, ring, kv>>
      \/ UNCHANGED kv /\ (Put(at, <<Canceled(c), ring[at]>>) \/ Put(at, <<Fail(c), ring[at]>>))
      \/ /\ Decoding(at) /\ ~c.staged /\ AtMedia(c) /\ kv' = [kv EXCEPT ![at] = l]
         /\ \/ Put(at, <<fed, ring[at]>>)
            \/ Put(at, <<Fail(fed), ring[at]>>)
            \/ /\ PromptComplete(fed) /\ ~fed.pending
               /\ \E o \in Outcomes(fed) : \E x :
                    /\ x = Sampled(at, fed, ring[at], o) \/ x \in SampledFailures(at, fed, ring[at], o)
                    /\ Put(at, x)
  BY DEF MediaVisit, MediaFed
<1>5. c.state = "decoding" => ~c.dirty
  BY <1>1, <1>2 DEF BatchOk, ResetDone
<1>6. /\ Shape' /\ SlotInv' /\ \A t \in Slots : t # at => conv'[t] = conv[t]
      /\ conv'[at].state = "decoding" => ~conv'[at].dirty
  <2>1. CASE UNCHANGED <<conv, ring, kv>>
    BY <1>1, <1>5, <2>1, NothingKeeps
  <2>2. CASE UNCHANGED kv /\ (Put(at, <<Canceled(c), ring[at]>>) \/ Put(at, <<Fail(c), ring[at]>>))
    <3>1. PICK d \in {Canceled(c), Fail(c)} : Put(at, <<d, ring[at]>>)
      BY <2>2
    <3>2. SlotOk(at, d, got[at], ring[at], kv[at])
      BY <1>2, <1>3, <3>1, FailSlot
    <3>3. d.state \in {"canceled", "failed"}
      BY <1>3, <3>1 DEF Canceled, Fail, Conversation
    <3>4. kv' = [kv EXCEPT ![at] = kv[at]]
      BY <1>1, <1>2, <2>2, SameSlot
    <3> DEFINE x == <<d, ring[at]>>
    <3>5. x[1] = d /\ x[2] = ring[at]
      OBVIOUS
    <3> HIDE DEF x
    <3>6. Put(at, x)
      BY <3>1 DEF x
    <3>7. Shape' /\ SlotInv' /\ conv'[at] = x[1] /\ \A t \in Slots : t # at => conv'[t] = conv[t]
      BY <1>1, <1>2, <3>2, <3>4, <3>5, <3>6, PutKeeps
    <3> QED
      BY <3>3, <3>5, <3>7
  <2>3. CASE /\ Decoding(at) /\ ~c.staged /\ AtMedia(c) /\ kv' = [kv EXCEPT ![at] = l]
             /\ \/ Put(at, <<fed, ring[at]>>)
                \/ Put(at, <<Fail(fed), ring[at]>>)
                \/ /\ PromptComplete(fed) /\ ~fed.pending
                   /\ \E o \in Outcomes(fed) : \E x :
                        /\ x = Sampled(at, fed, ring[at], o) \/ x \in SampledFailures(at, fed, ring[at], o)
                        /\ Put(at, x)
    <3>1. c.state = "decoding" /\ ~c.dirty /\ ~c.staged /\ AtMedia(c) /\ kv' = [kv EXCEPT ![at] = l]
      BY <1>5, <2>3 DEF Decoding
    <3>2. SlotOk(at, fed, got[at], ring[at], l) /\ Ready(fed)
      BY <1>2, <1>3, <3>1, MediaFedSlot
    <3> HIDE DEF fed, l
    <3>3. SlotOk(at, Fail(fed), got[at], ring[at], l) /\ Fail(fed).dirty = fed.dirty /\ ~fed.dirty
      <4>1. SlotOk(at, Fail(fed), got[at], ring[at], l)
        BY <1>2, <3>2, FailSlot
      <4>2. fed \in Conversation
        BY <3>2, SlotTypes
      <4> QED
        BY <3>2, <4>1, <4>2 DEF Fail, Conversation, Ready
    <3>4. ASSUME NEW x, Put(at, x), SlotOk(at, x[1], got[at], x[2], l), ~x[1].dirty
          PROVE  /\ Shape' /\ SlotInv' /\ \A t \in Slots : t # at => conv'[t] = conv[t]
                 /\ conv'[at].state = "decoding" => ~conv'[at].dirty
      <4>1. Shape' /\ SlotInv' /\ conv'[at] = x[1] /\ \A t \in Slots : t # at => conv'[t] = conv[t]
        BY <1>1, <1>2, <3>1, <3>4, PutKeeps
      <4> QED
        BY <3>4, <4>1
    <3>5. \E x : Put(at, x) /\ SlotOk(at, x[1], got[at], x[2], l) /\ ~x[1].dirty
      <4>1. CASE Put(at, <<fed, ring[at]>>)
        <5> DEFINE x == <<fed, ring[at]>>
        <5>1. x[1] = fed /\ x[2] = ring[at]
          OBVIOUS
        <5> HIDE DEF x
        <5>2. Put(at, x) /\ SlotOk(at, x[1], got[at], x[2], l) /\ ~x[1].dirty
          BY <3>2, <3>3, <4>1, <5>1 DEF x
        <5> QED
          BY <5>2
      <4>2. CASE Put(at, <<Fail(fed), ring[at]>>)
        <5> DEFINE x == <<Fail(fed), ring[at]>>
        <5>1. x[1] = Fail(fed) /\ x[2] = ring[at]
          OBVIOUS
        <5> HIDE DEF x
        <5>2. Put(at, x) /\ SlotOk(at, x[1], got[at], x[2], l) /\ ~x[1].dirty
          BY <3>3, <4>2, <5>1 DEF x
        <5> QED
          BY <5>2
      <4>3. CASE /\ PromptComplete(fed) /\ ~fed.pending
                 /\ \E o \in Outcomes(fed) : \E x :
                      /\ x = Sampled(at, fed, ring[at], o) \/ x \in SampledFailures(at, fed, ring[at], o)
                      /\ Put(at, x)
        <5>1. PICK o \in Outcomes(fed) : \E x :
                /\ x = Sampled(at, fed, ring[at], o) \/ x \in SampledFailures(at, fed, ring[at], o)
                /\ Put(at, x)
          BY <4>3
        <5>2. PICK x :
                /\ x = Sampled(at, fed, ring[at], o) \/ x \in SampledFailures(at, fed, ring[at], o)
                /\ Put(at, x)
          BY <5>1
        <5>3. Awaited(fed)
          BY <3>2, <4>3 DEF Awaited, PromptComplete
        <5>4. SlotOk(at, x[1], got[at], x[2], l) /\ x[1].dirty = fed.dirty
          BY <1>2, <3>2, <5>2, <5>3, OutcomeSlot
        <5> QED
          BY <3>3, <5>2, <5>4
      <4> QED
        BY <2>3, <4>1, <4>2, <4>3
    <3> QED
      BY <3>4, <3>5
  <2> QED
    BY <1>4, <2>1, <2>2, <2>3
<1>7. /\ \/ at' = at + 1 /\ phase' = phase /\ at' \in Slots
         \/ at' = 0 /\ phase' = "decode"
      /\ at \in Nat
  <2>1. NextPhase["media"] = "decode"
    BY DEF NextPhase
  <2> QED
    BY <1>1, <1>2, <2>1, VisitedFacts
<1>8. batch' = << >> /\ Len(<< >>) = 0
  BY <1>1 DEF BatchOk, Filling
<1>9. ClientType' /\ BatchType'
  BY <1>1, <1>7, SlotsFacts DEF ClientType, BatchType, Phases
<1>10. ResetDone'
  <2>1. \A s \in Slots : conv'[s].state = "decoding" => ~conv'[s].dirty
    BY <1>1, <1>6 DEF BatchOk, ResetDone
  <2> QED
    BY <1>1, <1>7, <2>1 DEF ResetDone
<1>11. Blocks'
  <2> SUFFICES ASSUME NEW s \in Slots PROVE BlockOf(s, conv'[s], batch', Done')
    BY DEF Blocks
  <2>1. Done' = 0
    BY <1>1, <1>7 DEF Done
  <2>2. \A i \in 0 + 1 .. Len(batch') : batch'[i].slot # s
    BY <1>8
  <2> QED
    BY <1>8, <2>1, <2>2, BlockNone
<1>12. BatchOk'
  BY <1>1, <1>7, <1>8, <1>10, <1>11 DEF BatchOk, Filling, Wanted
<1> QED
  BY <1>6, <1>9, <1>12 DEF IInv

\* the slots that a loop goes through from rr on are different ones
LEMMA SlotsApart ==
  ASSUME NEW t \in Nat, NEW u \in Nat, t <= u, u < t + MaxSlots, t % MaxSlots = u % MaxSlots
  PROVE  t = u
<1> DEFINE m == MaxSlots
<1>1. m \in Nat /\ m > 0
  BY ConstTypes
<1> HIDE DEF m
<1>2. \A n \in Nat : n \div m \in Nat /\ n % m \in 0 .. m - 1 /\ n = m * (n \div m) + (n % m)
  BY <1>1
<1>3. t % m = u % m /\ u < t + m
  BY DEF m
<1>4. /\ t \div m \in Nat /\ u \div m \in Nat /\ t % m \in 0 .. m - 1
      /\ t = m * (t \div m) + (t % m)
      /\ u = m * (u \div m) + (t % m)
  BY <1>2, <1>3
<1>5. CASE t \div m < u \div m
  <2>1. m * ((t \div m) + 1) <= m * (u \div m)
    BY <1>1, <1>4, <1>5
  <2> QED
    BY <1>1, <1>3, <1>4, <2>1
<1>6. CASE u \div m < t \div m
  <2>1. m * ((u \div m) + 1) <= m * (t \div m)
    BY <1>1, <1>4, <1>6
  <2> QED
    BY <1>1, <1>4, <2>1
<1> QED
  BY <1>4, <1>5, <1>6

LEMMA RoundFacts ==
  ASSUME BatchType, phase \notin {"tally", "output"}
  PROVE  /\ RoundRobin(at) \in Slots /\ RoundRobin(at) \notin Seen
         /\ at' = at + 1 /\ rr' = rr => Seen' = Seen \cup {RoundRobin(at)}
<1>1. at \in Nat /\ rr \in Nat /\ at < MaxSlots /\ rr + at \in Nat
  <2>1. at \in Slots /\ rr \in Slots
    BY DEF BatchType
  <2>2. at \in Nat /\ rr \in Nat /\ at < MaxSlots
    BY <2>1, SlotsFacts
  <2> QED
    BY <2>2
<1>2. RoundRobin(at) \in Slots
  <2>1. (rr + at) % MaxSlots \in 0 .. MaxSlots - 1
    BY <1>1, ConstTypes
  <2> QED
    BY <2>1 DEF RoundRobin, Slots
<1>3. ASSUME NEW i \in 0 .. at - 1 PROVE RoundRobin(i) # RoundRobin(at)
  <2>1. i \in Nat /\ i < at
    BY <1>1
  <2>2. rr + i \in Nat /\ rr + i <= rr + at /\ rr + at < (rr + i) + MaxSlots /\ rr + i # rr + at
    BY <1>1, <2>1, ConstTypes
  <2> QED
    BY <1>1, <2>2, SlotsApart DEF RoundRobin
<1>4. ASSUME at' = at + 1, rr' = rr PROVE Seen' = Seen \cup {RoundRobin(at)}
  <2>1. Seen' = {RoundRobin(i) : i \in 0 .. (at + 1) - 1}
    BY <1>4 DEF Seen, RoundRobin
  <2>2. 0 .. (at + 1) - 1 = (0 .. at - 1) \cup {at}
    BY <1>1
  <2> QED
    BY <2>1, <2>2 DEF Seen
<1> QED
  BY <1>2, <1>3, <1>4 DEF Seen

LEMMA DecodeVisitKeeps ==
  ASSUME IInv, DecodeVisit
  PROVE  IInv'
<1> DEFINE s == RoundRobin(at)
           c == conv[s]
           e == Entry(s, <<"sampled", c.total>>, c.past, TRUE)
<1>1. /\ Shape /\ ClientType /\ BatchType /\ SlotInv /\ BatchOk
      /\ phase = "decode" /\ Visited /\ UNCHANGED <<ring, got, eos, reader, control, rr, kv>>
  BY DEF IInv, DecodeVisit, clientVars
<1>2. at \in Slots /\ s \in Slots /\ s \notin Seen
  BY <1>1, RoundFacts DEF BatchType
<1>3. /\ SlotOk(s, c, got[s], ring[s], kv[s]) /\ c \in Conversation
      /\ c.total \in Nat /\ c.past \in Nat
  <2>1. SlotOk(s, c, got[s], ring[s], kv[s]) /\ c \in Conversation
    BY <1>1, <1>2, SlotTypes DEF SlotInv
  <2> HIDE DEF c
  <2> QED
    BY <2>1, ConvTypes, InputTypes
<1>4. \/ UNCHANGED <<conv, batch>>
      \/ conv' = [conv EXCEPT ![s] = Canceled(c)] /\ UNCHANGED batch
      \/ /\ c.state = "decoding" /\ c.pending /\ ~c.staged /\ ~(Len(batch) >= MaxBatch)
         /\ batch' = Append(batch, e) /\ UNCHANGED conv
  BY DEF DecodeVisit, Decoding
<1> HIDE DEF s
<1>5. \A t \in Slots : conv[t].state = "decoding" => ~conv[t].dirty
  BY <1>1 DEF BatchOk, ResetDone
<1>6. /\ Shape' /\ SlotInv' /\ \A t \in Slots : t # s => conv'[t] = conv[t]
      /\ conv'[s].state = "decoding" => conv'[s] = c
      /\ \/ conv'[s].pending = c.pending /\ View(c, conv'[s])
         \/ \A i \in 1 .. Len(batch) : batch[i].slot # s
  <2>1. CASE UNCHANGED conv
    BY <1>1, <2>1, NothingKeeps DEF View
  <2>2. CASE conv' = [conv EXCEPT ![s] = Canceled(c)]
    <3> DEFINE d == Canceled(c)
    <3>1. SlotOk(s, d, got[s], ring[s], kv[s])
      BY <1>2, <1>3, FailSlot
    <3>2. got' = [got EXCEPT ![s] = got[s]] /\ ring' = [ring EXCEPT ![s] = ring[s]] /\ kv' = [kv EXCEPT ![s] = kv[s]]
      BY <1>1, <1>2, SameSlot
    <3>3. d.state = "canceled"
      BY <1>3 DEF Canceled, Conversation
    <3> HIDE DEF d
    <3>4. conv' = [conv EXCEPT ![s] = d]
      BY <2>2 DEF d
    <3>5. Shape' /\ SlotInv' /\ conv'[s] = d /\ \A t \in Slots : t # s => conv'[t] = conv[t]
      <4>1. Shape /\ SlotInv /\ s \in Slots
        BY <1>1, <1>2
      <4> QED
        BY <3>1, <3>2, <3>4, <4>1, PutSlot
    <3>6. \A i \in 1 .. Len(batch) : batch[i].slot # s
      BY <1>1, <1>2 DEF BatchOk, Filling
    <3> QED
      BY <3>3, <3>5, <3>6
  <2> QED
    BY <1>4, <2>1, <2>2
<1>7. \A i \in 1 .. Len(batch) : batch[i].slot \in Seen /\ batch[i].slot \in Slots /\ batch[i].slot # s /\ conv[batch[i].slot].pending
  BY <1>1, <1>2, EntryFacts DEF BatchOk, Filling
<1>8. Len(batch) \in Nat /\ batch \in Seq(EntrySet)
  BY <1>1 DEF BatchType
<1>9. /\ batch' \in Seq(EntrySet) /\ Len(batch') <= MaxBatch
      /\ \A t \in Slots : BlockOf(t, conv'[t], batch', 0)
      /\ \A i \in 1 .. Len(batch') : batch'[i].slot \in Seen \cup {s} /\ conv'[batch'[i].slot].pending
      /\ \A i, j \in 1 .. Len(batch') : batch'[i].want /\ batch'[j].want /\ i # j => batch'[i].slot # batch'[j].slot
  <2>1. CASE UNCHANGED batch
    <3>1. ASSUME NEW t \in Slots PROVE BlockOf(t, conv'[t], batch', 0)
      <4>1. BlockOf(t, conv[t], batch, 0)
        BY <1>1 DEF BatchOk, Filling, Blocks, Done
      <4>2. CASE t # s
        BY <1>6, <2>1, <4>1, <4>2
      <4>3. CASE t = s
        <5>1. \A i \in 0 + 1 .. Len(batch) : batch[i].slot # s
          BY <1>7
        <5> QED
          BY <1>8, <2>1, <4>3, <5>1, BlockNone
      <4> QED
        BY <4>2, <4>3
    <3>2. \A i \in 1 .. Len(batch') : batch'[i].slot \in Seen \cup {s} /\ conv'[batch'[i].slot].pending
      BY <1>6, <1>7, <2>1
    <3> QED
      BY <1>1, <2>1, <3>1, <3>2 DEF BatchType, BatchOk, Wanted
  <2>2. CASE /\ c.state = "decoding" /\ c.pending /\ ~c.staged /\ ~(Len(batch) >= MaxBatch)
             /\ batch' = Append(batch, e) /\ UNCHANGED conv
    <3>1. /\ e \in EntrySet /\ e.slot = s /\ e.token = <<"sampled", c.total>> /\ e.pos = c.past /\ e.want
      <4>1. <<"sampled", c.total>> \in Tokens
        BY <1>3 DEF Tokens
      <4> QED
        BY <1>2, <1>3, <4>1 DEF Entry, EntrySet
    <3>2. Ready(c)
      <4>1. HoldFilled(s, c)
        BY <1>3, <2>2 DEF SlotOk, StreamOk
      <4> QED
        BY <1>2, <1>5, <2>2, <4>1 DEF Ready, HoldFilled
    <3> HIDE DEF e
    <3> DEFINE x == <<e>>
    <3>3. x \in Seq(EntrySet) /\ Len(x) = 1 /\ x[1] = e
      BY <3>1
    <3> HIDE DEF x
    <3>4. batch' = batch \o x
      <4>1. Append(batch, e) = batch \o <<e>>
        BY <1>8, <3>1
      <4> QED
        BY <2>2, <4>1 DEF x
    <3>5. /\ Len(batch') = Len(batch) + 1 /\ batch' \in Seq(EntrySet)
          /\ \A i \in 1 .. Len(batch) : batch'[i] = batch[i]
          /\ batch'[Len(batch) + 1] = e
      BY <1>8, <2>2, <3>1, AppendFacts
    <3>6. Len(batch') <= MaxBatch
      BY <1>8, <2>2, <3>5, ConstTypes
    <3>7. ASSUME NEW t \in Slots PROVE BlockOf(t, conv'[t], batch', 0)
      <4>1. BlockOf(t, conv[t], batch, 0) /\ conv'[t] = conv[t]
        BY <1>1, <2>2 DEF BatchOk, Filling, Blocks, Done
      <4>2. CASE t # s
        <5>1. \A i \in 1 .. Len(x) : x[i].slot # t
          BY <3>1, <3>3, <4>2
        <5> QED
          BY <1>8, <3>3, <3>4, <4>1, <5>1, BlockBefore
      <4>3. CASE t = s
        <5>1. \A i \in 1 .. Len(x) : x[i].slot = s
          BY <3>1, <3>3
        <5>2. \A i \in 1 .. Len(batch) : batch[i].slot # s
          BY <1>7
        <5>3. Content(c, x, 0, Len(x))
          <6>1. 0 + 1 = 1
            OBVIOUS
          <6> QED
            BY <2>2, <3>1, <3>2, <3>3, <6>1 DEF Content, SampledNext
        <5> QED
          BY <1>8, <3>3, <3>4, <4>1, <4>3, <5>1, <5>2, <5>3, BlockNew
      <4> QED
        BY <4>2, <4>3
    <3>8. ASSUME NEW i \in 1 .. Len(batch')
          PROVE  (i \in 1 .. Len(batch) /\ batch'[i] = batch[i]) \/ (i = Len(batch) + 1 /\ batch'[i] = e)
      <4>1. i \in 1 .. Len(batch) \/ i = Len(batch) + 1
        BY <1>8, <3>5
      <4> QED
        BY <3>5, <4>1
    <3>9. \A i \in 1 .. Len(batch') : batch'[i].slot \in Seen \cup {s} /\ conv'[batch'[i].slot].pending
      <4> SUFFICES ASSUME NEW i \in 1 .. Len(batch')
                   PROVE  batch'[i].slot \in Seen \cup {s} /\ conv'[batch'[i].slot].pending
        OBVIOUS
      <4> QED
        BY <1>7, <2>2, <3>1, <3>8
    <3>10. \A i, j \in 1 .. Len(batch') : batch'[i].want /\ batch'[j].want /\ i # j => batch'[i].slot # batch'[j].slot
      <4> SUFFICES ASSUME NEW i \in 1 .. Len(batch'), NEW j \in 1 .. Len(batch'), batch'[i].want, batch'[j].want, i # j
                   PROVE  batch'[i].slot # batch'[j].slot
        OBVIOUS
      <4>1. \A n \in 1 .. Len(batch) : batch[n].slot # s
        BY <1>7
      <4> QED
        BY <1>1, <3>1, <3>8, <4>1 DEF BatchOk, Wanted
    <3> QED
      BY <3>5, <3>6, <3>7, <3>9, <3>10
  <2> QED
    BY <1>4, <2>1, <2>2
<1>10. /\ \/ at' = at + 1 /\ phase' = phase /\ at' \in Slots
          \/ at' = 0 /\ phase' = "prompt"
       /\ at \in Nat
  <2>1. NextPhase["decode"] = "prompt"
    BY DEF NextPhase
  <2> QED
    BY <1>1, <1>2, <2>1, VisitedFacts
<1>11. ClientType' /\ BatchType'
  BY <1>1, <1>9, <1>10, SlotsFacts DEF ClientType, BatchType, Phases
<1>12. ResetDone'
  <2>1. \A t \in Slots : conv'[t].state = "decoding" => ~conv'[t].dirty
    BY <1>2, <1>5, <1>6
  <2> QED
    BY <1>1, <1>10, <2>1 DEF ResetDone
<1>13. Blocks'
  <2>1. Done' = 0
    BY <1>1, <1>10 DEF Done
  <2> QED
    BY <1>9, <2>1 DEF Blocks
<1>14. phase' = "decode" => Seen' = Seen \cup {s}
  BY <1>1, <1>10, RoundFacts DEF s
<1>15. BatchOk'
  BY <1>1, <1>9, <1>10, <1>12, <1>13, <1>14 DEF BatchOk, Filling, Wanted
<1> QED
  BY <1>6, <1>11, <1>15 DEF IInv

\* the prompt tokens that a slot adds to the batch
Added(s, c) ==
  [i \in 1 .. Share(c) |->
     Entry(s, <<"prompt", c.prompt[c.chunk + 1].start + c.off + i>>, c.past + i - 1,
           i = Share(c) /\ WantsLogits(c, Share(c)))]

LEMMA AddedFacts ==
  ASSUME NEW s \in Slots, NEW c \in Conversation, PromptInOrder(c), Progress(c), Ready(c), AtText(c), ~c.pending,
         Len(batch) \in Nat, Len(batch) < MaxBatch
  PROVE  /\ Added(s, c) \in Seq(EntrySet) /\ Len(batch) + Len(Added(s, c)) <= MaxBatch
         /\ \A i \in 1 .. Len(Added(s, c)) :
              Added(s, c)[i].slot = s /\ (Added(s, c)[i].want => i = Len(Added(s, c)))
         /\ Content(c, Added(s, c), 0, Len(Added(s, c)))
<1> DEFINE st == c.prompt[c.chunk + 1].start
           ln == c.prompt[c.chunk + 1].len
           n == Share(c)
           x == Added(s, c)
<1>1. HasChunk(c) /\ st \in Nat /\ ln \in Nat /\ c.off \in Nat /\ c.past \in Nat
  BY ChunkPlace, InputTypes DEF AtText
<1>2. c.off <= ln
  BY <1>1 DEF Progress
<1>3. n \in Nat /\ n <= ln - c.off /\ n <= MaxBatch - Len(batch)
  <2> DEFINE a == ln - c.off
             b == MaxBatch - Len(batch)
  <2>1. a \in Nat /\ b \in Nat /\ PromptCap \in Nat
    <3> HIDE DEF ln
    <3> QED
      BY <1>1, <1>2, ConstTypes
  <2>2. n = Min({a, b, PromptCap})
    BY DEF Share
  <2> HIDE DEF a, b, n
  <2>3. n \in Nat /\ n <= a /\ n <= b
    BY <2>1, <2>2, MinOfThree
  <2> QED
    BY <2>3 DEF a, b
<1>4. x = [i \in 1 .. n |-> Entry(s, <<"prompt", st + c.off + i>>, c.past + i - 1, i = n /\ WantsLogits(c, n))]
  BY DEF Added
<1> HIDE DEF st, ln, n, x
<1>5. ASSUME NEW i \in 1 .. n
      PROVE  /\ x[i] \in EntrySet /\ x[i].slot = s
             /\ x[i].token = <<"prompt", st + c.off + i>> /\ x[i].pos = c.past + i - 1
             /\ x[i].want => i = n /\ WantsLogits(c, n)
  <2> DEFINE w == i = n /\ WantsLogits(c, n)
             t == <<"prompt", st + c.off + i>>
             p == c.past + i - 1
  <2>1. t \in Tokens /\ p \in Nat /\ w \in BOOLEAN
    <3>1. st + c.off + i \in Nat /\ p \in Nat
      BY SMTT(30), <1>1, <1>3
    <3>2. w \in BOOLEAN
      OBVIOUS
    <3> QED
      BY <3>1, <3>2 DEF Tokens
  <2>2. x[i] = Entry(s, t, p, w)
    BY <1>4
  <2> HIDE DEF w, t, p
  <2>3. x[i] \in EntrySet /\ x[i].slot = s /\ x[i].token = t /\ x[i].pos = p /\ x[i].want = w
    BY <2>1, <2>2 DEF Entry, EntrySet
  <2>4. x[i].want => w
    BY <2>3
  <2> QED
    BY <2>3, <2>4 DEF w, t, p
<1>6. DOMAIN x = 1 .. n
  BY <1>4
<1>7. x \in Seq(EntrySet) /\ Len(x) = n
  <2>1. x = [i \in 1 .. n |-> x[i]]
    BY <1>4
  <2>2. \A i \in 1 .. n : x[i] \in EntrySet
    BY <1>5
  <2>3. x \in [1 .. n -> EntrySet]
    BY <2>1, <2>2
  <2> QED
    BY <1>3, <2>3
<1>8. Len(batch) + n <= MaxBatch /\ c.off + n <= ln
  BY <1>1, <1>3, ConstTypes
<1>9. PromptNext(c, x, 0, n)
  <2>1. ASSUME NEW k \in 1 .. n PROVE 0 + k = k
    BY <1>3
  <2> QED
    BY <1>5, <1>8, <2>1 DEF PromptNext, st, ln
<1> QED
  BY <1>5, <1>7, <1>8, <1>9 DEF Content, x

LEMMA PromptVisitKeeps ==
  ASSUME IInv, PromptVisit
  PROVE  IInv'
<1> DEFINE s == RoundRobin(at)
           c == conv[s]
           x == Added(s, c)
<1>1. /\ Shape /\ ClientType /\ BatchType /\ SlotInv /\ BatchOk
      /\ phase = "prompt" /\ Visited /\ UNCHANGED <<conv, ring, got, eos, reader, control, rr, kv>>
  BY DEF IInv, PromptVisit, clientVars
<1>2. at \in Slots /\ s \in Slots /\ s \notin Seen
  BY <1>1, RoundFacts DEF BatchType
<1>3. SlotOk(s, c, got[s], ring[s], kv[s]) /\ c \in Conversation
  BY <1>1, <1>2, SlotTypes DEF SlotInv
<1>4. \/ UNCHANGED batch
      \/ c.state = "decoding" /\ ~c.staged /\ AtText(c) /\ ~(Len(batch) >= MaxBatch) /\ batch' = batch \o x
  BY DEF PromptVisit, Decoding, Added
<1> HIDE DEF s, x
<1>5. Shape' /\ SlotInv'
  BY <1>1, NothingKeeps
<1>6. Len(batch) \in Nat /\ batch \in Seq(EntrySet) /\ Len(batch) <= MaxBatch
  BY <1>1 DEF BatchType
<1>7. /\ \A t \in Slots : BlockOf(t, conv[t], batch, 0)
      /\ \A i \in 1 .. Len(batch) : batch[i].slot \in Seen \/ conv[batch[i].slot].pending
  BY <1>1 DEF BatchOk, Filling, Blocks, Done
<1>8. /\ batch' \in Seq(EntrySet) /\ Len(batch') <= MaxBatch
      /\ \A t \in Slots : BlockOf(t, conv[t], batch', 0)
      /\ \A i \in 1 .. Len(batch') : batch'[i].slot \in Seen \cup {s} \/ conv[batch'[i].slot].pending
      /\ \A i, j \in 1 .. Len(batch') : batch'[i].want /\ batch'[j].want /\ i # j => batch'[i].slot # batch'[j].slot
  <2>1. CASE UNCHANGED batch
    BY <1>1, <1>6, <1>7, <2>1 DEF BatchOk, Wanted
  <2>2. CASE c.state = "decoding" /\ ~c.staged /\ AtText(c) /\ ~(Len(batch) >= MaxBatch) /\ batch' = batch \o x
    <3>1. /\ HasChunk(c) /\ ~c.dirty /\ PromptInOrder(c) /\ HoldFilled(s, c)
      BY <1>1, <1>2, <1>3, <2>2 DEF AtText, BatchOk, ResetDone, SlotOk, ContextOk, StreamOk
    <3>2. Progress(c)
      BY <1>3, <2>2, <3>1 DEF SlotOk, ContextOk
    <3>3. Ready(c) /\ ~c.pending
      <4>1. ~c.ending
        BY <3>1 DEF HoldFilled
      <4>2. ~c.pending
        BY <3>1, <3>2 DEF Progress
      <4> QED
        BY <2>2, <3>1, <4>1, <4>2 DEF Ready
    <3>4. Len(batch) < MaxBatch
      BY <1>6, <2>2, ConstTypes
    <3>5. /\ x \in Seq(EntrySet) /\ Len(batch) + Len(x) <= MaxBatch
          /\ \A i \in 1 .. Len(x) : x[i].slot = s /\ (x[i].want => i = Len(x))
          /\ Content(c, x, 0, Len(x))
      <4> HIDE DEF c
      <4> QED
        BY <1>2, <1>3, <1>6, <2>2, <3>1, <3>2, <3>3, <3>4, AddedFacts DEF x
    <3>6. \A i \in 1 .. Len(batch) : batch[i].slot # s
      BY <1>2, <1>7, <3>3
    <3>7. /\ Len(batch') = Len(batch) + Len(x) /\ batch' \in Seq(EntrySet) /\ Len(x) \in Nat
          /\ \A i \in 1 .. Len(batch) : batch'[i] = batch[i]
          /\ \A i \in Len(batch) + 1 .. Len(batch') : i - Len(batch) \in 1 .. Len(x) /\ batch'[i] = x[i - Len(batch)]
      BY <1>6, <2>2, <3>5
    <3>8. ASSUME NEW t \in Slots PROVE BlockOf(t, conv[t], batch', 0)
      <4>1. CASE t # s
        <5>1. \A i \in 1 .. Len(x) : x[i].slot # t
          BY <3>5, <4>1
        <5> QED
          BY <1>6, <1>7, <2>2, <3>5, <5>1, BlockBefore
      <4>2. CASE t = s
        <5>1. BlockOf(s, c, batch \o x, 0)
          <6> HIDE DEF c
          <6> QED
            BY <1>6, <3>5, <3>6, BlockNew
        <5> QED
          BY <2>2, <4>2, <5>1
      <4> QED
        BY <4>1, <4>2
    <3>9. ASSUME NEW i \in 1 .. Len(batch')
          PROVE  \/ i \in 1 .. Len(batch) /\ batch'[i] = batch[i]
                 \/ i \in Nat /\ i - Len(batch) \in 1 .. Len(x) /\ batch'[i] = x[i - Len(batch)]
      <4>1. i \in 1 .. Len(batch) \/ i \in Len(batch) + 1 .. Len(batch')
        BY <1>6, <3>7
      <4> QED
        BY <3>7, <4>1
    <3>10. \A i \in 1 .. Len(batch') : batch'[i].slot \in Seen \cup {s} \/ conv[batch'[i].slot].pending
      <4> SUFFICES ASSUME NEW i \in 1 .. Len(batch')
                   PROVE  batch'[i].slot \in Seen \cup {s} \/ conv[batch'[i].slot].pending
        OBVIOUS
      <4> QED
        BY <1>7, <3>5, <3>9
    <3>11. \A i, j \in 1 .. Len(batch') : batch'[i].want /\ batch'[j].want /\ i # j => batch'[i].slot # batch'[j].slot
      <4> SUFFICES ASSUME NEW i \in 1 .. Len(batch'), NEW j \in 1 .. Len(batch'), batch'[i].want, batch'[j].want, i # j
                   PROVE  batch'[i].slot # batch'[j].slot
        OBVIOUS
      <4>1. CASE i \in 1 .. Len(batch) /\ j \in 1 .. Len(batch)
        BY <1>1, <3>7, <4>1 DEF BatchOk, Wanted
      <4>2. ASSUME NEW m \in 1 .. Len(batch'), m \notin 1 .. Len(batch) PROVE batch'[m].slot = s
        BY <3>5, <3>9, <4>2
      <4>3. ASSUME NEW m \in 1 .. Len(batch) PROVE batch'[m].slot # s
        BY <3>6, <3>7
      <4>4. CASE i \notin 1 .. Len(batch) /\ j \notin 1 .. Len(batch)
        <5>1. /\ i \in Nat /\ j \in Nat
              /\ i - Len(batch) \in 1 .. Len(x) /\ batch'[i] = x[i - Len(batch)]
              /\ j - Len(batch) \in 1 .. Len(x) /\ batch'[j] = x[j - Len(batch)]
          BY <3>9, <4>4
        <5>2. i - Len(batch) = Len(x) /\ j - Len(batch) = Len(x)
          BY <3>5, <5>1
        <5> QED
          BY <1>6, <3>7, <5>1, <5>2
      <4> QED
        BY <4>1, <4>2, <4>3, <4>4
    <3> QED
      BY <3>5, <3>7, <3>8, <3>10, <3>11
  <2> QED
    BY <1>4, <2>1, <2>2
<1>9. /\ \/ at' = at + 1 /\ phase' = phase /\ at' \in Slots
         \/ at' = 0 /\ phase' = "eval"
      /\ at \in Nat
  <2>1. NextPhase["prompt"] = "eval"
    BY DEF NextPhase
  <2> QED
    BY <1>1, <1>2, <2>1, VisitedFacts
<1>10. ClientType' /\ BatchType'
  BY <1>1, <1>8, <1>9, SlotsFacts DEF ClientType, BatchType, Phases
<1>11. ResetDone'
  BY <1>1, <1>9 DEF BatchOk, ResetDone
<1>12. Blocks'
  <2>1. Done' = 0
    BY <1>1, <1>9 DEF Done
  <2> QED
    BY <1>1, <1>8, <2>1 DEF Blocks
<1>13. phase' = "prompt" => Seen' = Seen \cup {s}
  BY <1>1, <1>9, RoundFacts DEF s
<1>14. BatchOk'
  BY <1>1, <1>8, <1>9, <1>11, <1>12, <1>13 DEF BatchOk, Filling, Wanted
<1> QED
  BY <1>5, <1>10, <1>14 DEF IInv

LEMMA EvalKeeps ==
  ASSUME IInv, Eval
  PROVE  IInv'
<1>1. /\ Shape /\ ClientType /\ BatchType /\ SlotInv /\ BatchOk
      /\ phase = "eval" /\ batch # << >> /\ phase' = "tally"
      /\ UNCHANGED <<conv, ring, got, eos, reader, control, at, rr, batch, kv>>
  BY DEF IInv, Eval, clientVars
<1>2. at = 0 /\ Blocks
  BY <1>1 DEF BatchOk, Filling
<1>3. Len(batch) \in Nat /\ Len(batch) # 0
  BY <1>1 DEF BatchType
<1>4. BatchType'
  BY <1>1, <1>2, <1>3 DEF BatchType, Phases
<1>5. Shape' /\ SlotInv' /\ ClientType'
  BY <1>1, NothingKeeps DEF ClientType
<1>6. Blocks'
  <2>1. Done = 0 /\ Done' = 0
    BY <1>1, <1>2 DEF Done
  <2> QED
    BY <1>1, <1>2, <2>1 DEF Blocks
<1>7. Wanted'
  BY <1>1, <1>2 DEF BatchOk, Wanted
<1>8. BatchOk'
  BY <1>1, <1>6, <1>7 DEF BatchOk, Filling, ResetDone
<1> QED
  BY <1>4, <1>5, <1>8 DEF IInv

LEMMA TallyKeeps ==
  ASSUME IInv, Tally
  PROVE  IInv'
<1> DEFINE e == batch[at + 1]
           s == e.slot
           c == conv[s]
           d == Evaluated(c, e)
           l == Append(kv[s], e.token)
<1>1. /\ Shape /\ ClientType /\ BatchType /\ SlotInv /\ BatchOk
      /\ phase = "tally" /\ UNCHANGED <<ring, got, eos, reader, control, rr, batch>>
  BY DEF IInv, Tally, clientVars
<1>2. at \in 0 .. Len(batch) - 1 /\ at \in Nat /\ Len(batch) \in Nat /\ at + 1 \in 1 .. Len(batch) /\ batch \in Seq(EntrySet)
  BY <1>1 DEF BatchType
<1>3. s \in Slots /\ e.token \in Tokens
  BY <1>1, <1>2, EntryFacts
<1>4. SlotOk(s, c, got[s], ring[s], kv[s]) /\ c \in Conversation
  BY <1>1, <1>3, SlotTypes DEF SlotInv
<1>5. \A t \in Slots : BlockOf(t, conv[t], batch, at)
  BY <1>1 DEF BatchOk, Filling, Blocks, Done
<1>6. Ready(c) /\ NextToken(c, e)
  <2>1. BlockOf(s, c, batch, at) /\ batch[at + 1].slot = s
    BY <1>3, <1>5
  <2> HIDE DEF c, s
  <2>2. Ready(c) /\ NextToken(c, batch[at + 1])
    BY <1>2, <1>4, <2>1, BlockHead
  <2> QED
    BY <2>2
<1>7. c.state = "decoding" /\ PromptInOrder(c) /\ Progress(c)
  BY <1>4, <1>6 DEF Ready, SlotOk, ContextOk
<1>8. /\ conv' = [conv EXCEPT ![s] = d] /\ kv' = [kv EXCEPT ![s] = l]
      /\ IF at + 1 < Len(batch) THEN at' = at + 1 /\ UNCHANGED phase ELSE at' = 0 /\ phase' = "output"
  <2>1. Decoding(s)
    BY <1>7 DEF Decoding
  <2> QED
    BY <1>3, <2>1 DEF Tally
<1>9. SlotOk(s, d, got[s], ring[s], l) /\ EvaluatedRest(c, d)
  <2> HIDE DEF e, s, c
  <2> QED
    BY <1>3, <1>4, <1>6, EvaluatedSlot
<1>10. ring' = [ring EXCEPT ![s] = ring[s]] /\ got' = [got EXCEPT ![s] = got[s]]
  BY <1>1, <1>3, SameSlot
<1>11. BlockOf(s, d, batch, at + 1) /\ (e.want => Awaited(d))
  <2>1. BlockOf(s, c, batch, at) /\ batch[at + 1].slot = s
    BY <1>3, <1>5
  <2>2. d \in Conversation
    BY <1>9, SlotTypes
  <2> HIDE DEF c, s, d
  <2>3. BlockOf(s, d, batch, at + 1) /\ (batch[at + 1].want => Awaited(d))
    BY <1>2, <1>4, <1>7, <1>9, <2>1, <2>2, BlockRest
  <2> QED
    BY <2>3
<1>12. /\ Shape' /\ SlotInv' /\ conv'[s] = d /\ \A t \in Slots : t # s => conv'[t] = conv[t]
  <2> HIDE DEF d, l, s, c
  <2>1. Shape /\ SlotInv
    BY <1>1
  <2> QED
    BY <1>3, <1>8, <1>9, <1>10, <2>1, PutSlot
<1>13. ASSUME NEW t \in Slots PROVE BlockOf(t, conv'[t], batch, at + 1)
  <2>1. CASE t = s
    BY <1>11, <1>12, <2>1
  <2>2. CASE t # s
    <3>1. BlockOf(t, conv[t], batch, at) /\ batch[at + 1].slot # t
      BY <1>5, <2>2
    <3>2. BlockOf(t, conv[t], batch, at + 1)
      BY <1>2, <3>1, BlockPassed
    <3> QED
      BY <1>12, <2>2, <3>2
  <2> QED
    BY <2>1, <2>2
<1>14. ASSUME NEW i \in 1 .. at + 1, batch[i].want PROVE Awaited(conv'[batch[i].slot])
  <2>1. CASE i = at + 1
    BY <1>11, <1>12, <1>14, <2>1
  <2>2. CASE i # at + 1
    <3>1. i \in 1 .. at /\ i \in 1 .. Len(batch)
      BY <1>2, <2>2
    <3>2. Awaited(conv[batch[i].slot])
      BY <1>1, <1>14, <3>1 DEF BatchOk, Wanted
    <3>3. batch[i].slot # s
      <4>1. ~Awaited(c)
        BY <1>6 DEF Awaited, NextToken, AtText
      <4> QED
        BY <3>2, <4>1
    <3>4. batch[i].slot \in Slots
      BY <1>1, <3>1, EntryFacts
    <3> QED
      BY <1>12, <3>2, <3>3, <3>4
  <2> QED
    BY <2>1, <2>2
<1> HIDE DEF e, s, c, d, l
<1>15. ClientType' /\ BatchType'
  BY <1>1, <1>2, <1>8 DEF ClientType, BatchType, Phases
<1>16. CASE at + 1 < Len(batch)
  <2>1. at' = at + 1 /\ phase' = "tally" /\ batch' = batch
    BY <1>1, <1>8, <1>16
  <2>2. Done' = at + 1
    BY <2>1 DEF Done
  <2>3. Blocks'
    BY <1>13, <2>1, <2>2 DEF Blocks
  <2>4. Wanted'
    BY <1>1, <1>14, <2>1 DEF BatchOk, Wanted
  <2> QED
    BY <1>12, <1>15, <2>1, <2>3, <2>4 DEF IInv, BatchOk, Filling, ResetDone
<1>17. CASE ~(at + 1 < Len(batch))
  <2>1. at' = 0 /\ phase' = "output" /\ batch' = batch /\ at + 1 = Len(batch)
    BY <1>1, <1>2, <1>8, <1>17
  <2>2. \A i \in 0 + 1 .. Len(batch) : i \in 1 .. at + 1
    BY <2>1
  <2>3. Wanted'
    BY <1>1, <1>14, <2>1, <2>2 DEF BatchOk, Wanted
  <2> QED
    BY <1>12, <1>15, <2>1, <2>3 DEF IInv, BatchOk, Filling, ResetDone
<1> QED
  BY <1>16, <1>17

LEMMA EndTickKeeps ==
  ASSUME BatchType, EndTick
  PROVE  BatchType' /\ BatchOk'
<1>1. phase' = "idle" /\ at' = 0 /\ rr' = (rr + 1) % MaxSlots /\ batch' = << >>
  BY DEF EndTick
<1>2. << >> \in Seq(EntrySet) /\ Len(<< >>) = 0
  OBVIOUS
<1>3. rr' \in Slots
  <2>1. rr \in Slots
    BY DEF BatchType
  <2>2. rr + 1 \in Nat
    BY <2>1, SlotsFacts
  <2>3. (rr + 1) % MaxSlots \in 0 .. MaxSlots - 1
    BY <2>2, ConstTypes
  <2> QED
    BY <1>1, <2>3 DEF Slots
<1>4. BatchType'
  BY <1>1, <1>2, <1>3, SlotsFacts, ConstTypes DEF BatchType, Phases
<1>5. BatchOk'
  BY <1>1, <1>2 DEF BatchOk, Filling, Wanted, ResetDone
<1> QED
  BY <1>4, <1>5

LEMMA EvalFailsKeeps ==
  ASSUME IInv, EvalFails
  PROVE  IInv'
<1>1. /\ Shape /\ ClientType /\ BatchType /\ SlotInv /\ EndTick
      /\ conv' = [s \in Slots |-> IF conv[s].state = "decoding" THEN Fail(conv[s]) ELSE conv[s]]
      /\ UNCHANGED <<ring, got, eos, reader, control, kv>>
  BY DEF IInv, EvalFails, clientVars, Decoding
<1>2. ASSUME NEW s \in Slots PROVE SlotOk(s, conv'[s], got[s], ring[s], kv[s])
  <2>1. SlotOk(s, conv[s], got[s], ring[s], kv[s])
    BY <1>1 DEF SlotInv
  <2>2. SlotOk(s, Fail(conv[s]), got[s], ring[s], kv[s])
    BY <2>1, FailSlot
  <2> QED
    BY <1>1, <2>1, <2>2
<1>3. \A s \in Slots : conv'[s] \in Conversation
  BY <1>2, SlotTypes
<1>4. conv' \in [Slots -> Conversation]
  BY <1>1, <1>3
<1>5. Shape' /\ SlotInv' /\ ClientType'
  BY <1>1, <1>2, <1>4 DEF Shape, SlotInv, ClientType
<1>6. BatchType' /\ BatchOk'
  BY <1>1, EndTickKeeps
<1> QED
  BY <1>5, <1>6 DEF IInv

LEMMA EvalNothingKeeps ==
  ASSUME IInv, EvalNothing
  PROVE  IInv'
<1>1. /\ Shape /\ ClientType /\ BatchType /\ SlotInv /\ EndTick
      /\ UNCHANGED <<conv, ring, got, eos, reader, control, kv>>
  BY DEF IInv, EvalNothing, clientVars
<1>2. Shape' /\ SlotInv' /\ ClientType'
  BY <1>1, NothingKeeps DEF ClientType
<1>3. BatchType' /\ BatchOk'
  BY <1>1, EndTickKeeps
<1> QED
  BY <1>2, <1>3 DEF IInv

LEMMA OutputKeeps ==
  ASSUME IInv, Output
  PROVE  IInv'
<1> DEFINE e == batch[at + 1]
           s == e.slot
           c == conv[s]
<1>1. /\ Shape /\ ClientType /\ BatchType /\ SlotInv /\ BatchOk
      /\ phase = "output" /\ UNCHANGED <<got, eos, reader, control, kv>>
  BY DEF IInv, Output, clientVars
<1>2. at \in 0 .. Len(batch) - 1 /\ at \in Nat /\ Len(batch) \in Nat /\ at + 1 \in 1 .. Len(batch)
      /\ at + 1 \in at + 1 .. Len(batch)
  BY <1>1 DEF BatchType
<1>3. s \in Slots /\ e.want \in BOOLEAN
  BY <1>1, <1>2, EntryFacts
<1>4. SlotOk(s, c, got[s], ring[s], kv[s]) /\ c \in Conversation
  BY <1>1, <1>3, SlotTypes DEF SlotInv
<1>5. e.want => Awaited(c)
  BY <1>1, <1>2 DEF BatchOk, Wanted
<1>6. \/ UNCHANGED <<conv, ring>>
      \/ /\ e.want
         /\ \/ Put(s, <<Fail(c), ring[s]>>)
            \/ \E o \in Outcomes(c) : \E x :
                 /\ x = Sampled(s, c, ring[s], o) \/ x \in SampledFailures(s, c, ring[s], o)
                 /\ Put(s, x)
  BY DEF Output
<1>7. kv' = [kv EXCEPT ![s] = kv[s]]
  BY <1>1, <1>3, SameSlot
<1> HIDE DEF e, s
<1>8. /\ Shape' /\ SlotInv'
      /\ conv' = conv \/ (e.want /\ \A t \in Slots : t # s => conv'[t] = conv[t])
  <2>1. CASE UNCHANGED <<conv, ring>>
    BY <1>1, <2>1, NothingKeeps
  <2>2. ASSUME e.want, NEW x, Put(s, x), SlotOk(s, x[1], got[s], x[2], kv[s])
        PROVE  Shape' /\ SlotInv' /\ \A t \in Slots : t # s => conv'[t] = conv[t]
    <3>1. Shape /\ SlotInv /\ UNCHANGED got
      BY <1>1
    <3> QED
      BY <1>3, <1>7, <2>2, <3>1, PutKeeps
  <2>3. CASE e.want /\ Put(s, <<Fail(c), ring[s]>>)
    <3> DEFINE x == <<Fail(c), ring[s]>>
    <3>1. SlotOk(s, x[1], got[s], x[2], kv[s])
      BY <1>3, <1>4, FailSlot
    <3>2. Put(s, x)
      BY <2>3
    <3> HIDE DEF x
    <3> QED
      BY <2>2, <2>3, <3>1, <3>2
  <2>4. CASE /\ e.want
             /\ \E o \in Outcomes(c) : \E x :
                  /\ x = Sampled(s, c, ring[s], o) \/ x \in SampledFailures(s, c, ring[s], o)
                  /\ Put(s, x)
    <3>1. PICK o \in Outcomes(c) : \E x :
            /\ x = Sampled(s, c, ring[s], o) \/ x \in SampledFailures(s, c, ring[s], o)
            /\ Put(s, x)
      BY <2>4
    <3>2. PICK x :
            /\ x = Sampled(s, c, ring[s], o) \/ x \in SampledFailures(s, c, ring[s], o)
            /\ Put(s, x)
      BY <3>1
    <3>3. Awaited(c)
      BY <1>5, <2>4
    <3> HIDE DEF c
    <3>4. SlotOk(s, x[1], got[s], x[2], kv[s])
      BY <1>3, <1>4, <3>2, <3>3, OutcomeSlot
    <3> QED
      BY <2>2, <2>4, <3>2, <3>4
  <2> QED
    BY <1>6, <2>1, <2>3, <2>4
<1>9. ClientType'
  BY <1>1 DEF ClientType
<1>10. CASE at + 1 = Len(batch)
  <2>1. EndTick
    BY <1>10 DEF Output
  <2> QED
    BY <1>1, <1>8, <1>9, <2>1, EndTickKeeps DEF IInv
<1>11. CASE at + 1 # Len(batch)
  <2>1. at' = at + 1 /\ phase' = "output" /\ rr' = rr /\ batch' = batch
    BY <1>1, <1>11 DEF Output
  <2>2. BatchType'
    BY <1>1, <1>2, <1>11, <2>1 DEF BatchType
  <2>3. ASSUME NEW i \in at + 1 + 1 .. Len(batch), batch[i].want PROVE Awaited(conv'[batch[i].slot])
    <3>1. i \in at + 1 .. Len(batch) /\ i \in 1 .. Len(batch) /\ i # at + 1
      BY <1>2
    <3>2. Awaited(conv[batch[i].slot])
      BY <1>1, <2>3, <3>1 DEF BatchOk, Wanted
    <3>3. CASE conv' = conv
      BY <3>2, <3>3
    <3>4. CASE e.want /\ \A t \in Slots : t # s => conv'[t] = conv[t]
      <4>1. batch[i].slot # s
        BY <1>1, <1>2, <2>3, <3>1, <3>4 DEF BatchOk, Wanted, e, s
      <4>2. batch[i].slot \in Slots
        BY <1>1, <3>1, EntryFacts
      <4> QED
        BY <3>2, <3>4, <4>1, <4>2
    <3> QED
      BY <1>8, <3>3, <3>4
  <2>4. Wanted'
    BY <1>1, <2>1, <2>3 DEF BatchOk, Wanted
  <2>5. BatchOk'
    BY <1>1, <2>1, <2>4 DEF BatchOk, Filling, ResetDone
  <2> QED
    BY <1>8, <1>9, <2>2, <2>5 DEF IInv
<1> QED
  BY <1>10, <1>11

\* conv_decode does not land between a slot's reset visit and the evaluation
LEMMA NextKeeps ==
  ASSUME IInv, ~LateDecode, [Next]_vars
  PROVE  IInv'
<1>1. CASE UNCHANGED vars
  <2>1. Done' = Done /\ Seen' = Seen
    BY <1>1 DEF vars, Done, Seen, RoundRobin
  <2>2. Blocks => Blocks'
    BY <1>1, <2>1 DEF vars, Blocks
  <2> QED
    BY <1>1, <2>1, <2>2 DEF vars, IInv, Shape, ClientType, BatchType, SlotInv, BatchOk, Filling, Wanted, ResetDone
<1>2. ASSUME NEW s \in Slots, Control(s) PROVE IInv'
  BY <1>2, FeedKeeps, DecodeKeeps, CancelKeeps, ResetKeeps DEF Control
<1>3. ASSUME NEW s \in Streamed, StreamRead(s) PROVE IInv'
  BY <1>3, StreamAssumption, StreamReadKeeps
<1>4. CASE Execute
  BY <1>4, TickKeeps, FlushVisitKeeps, ResetVisitKeeps, MediaVisitKeeps, DecodeVisitKeeps, PromptVisitKeeps,
     EvalKeeps, TallyKeeps, EvalFailsKeeps, EvalNothingKeeps, OutputKeeps DEF Execute
<1> QED
  BY <1>1, <1>2, <1>3, <1>4 DEF Next

-----------------------------------------------------------------------------
(* What the inductive invariant says of streams and contexts *)

LEMMA SameSequence ==
  ASSUME NEW S, NEW a \in Seq(S), NEW b \in Seq(S), Len(a) = Len(b), \A i \in 1 .. Len(a) : a[i] = b[i]
  PROVE  a = b
OBVIOUS

LEMMA PrefixIs ==
  ASSUME NEW S, NEW a \in Seq(S), NEW b \in Seq(S), Len(a) <= Len(b), \A i \in 1 .. Len(a) : a[i] = b[i]
  PROVE  IsPrefix(a, b)
<1>1. Len(a) \in Nat /\ Len(b) \in Nat
  OBVIOUS
<1>2. SubSeq(a, 1, Len(a)) \in Seq(S) /\ SubSeq(b, 1, Len(a)) \in Seq(S)
  <2>1. 1 \in 1 .. Len(a) + 1 /\ 1 \in 1 .. Len(b) + 1 /\ Len(a) \in 0 .. Len(a) /\ Len(a) \in 0 .. Len(b)
    BY <1>1
  <2> QED
    BY <2>1, PartType
<1>3. Len(SubSeq(a, 1, Len(a))) = Len(a) /\ Len(SubSeq(b, 1, Len(a))) = Len(a)
  BY <1>1
<1>4. \A i \in 1 .. Len(a) : SubSeq(a, 1, Len(a))[i] = a[i] /\ SubSeq(b, 1, Len(a))[i] = b[i]
  BY <1>1
<1>5. SubSeq(a, 1, Len(a)) = SubSeq(b, 1, Len(a))
  BY <1>2, <1>3, <1>4, SameSequence
<1> QED
  BY <1>5 DEF IsPrefix

\* a run of n tokens
LEMMA RunIs ==
  ASSUME NEW n \in Nat, n <= MaxTokens
  PROVE  IsStream(Entries(Numbers(n)), EN(n))
<1> DEFINE q == Numbers(n)
           run == Entries(q)
<1>1. q \in Seq(Nat) /\ Len(q) = n /\ \A i \in 1 .. n : q[i] = i
  <2>1. q = [i \in 1 .. n |-> i]
    BY DEF Numbers
  <2>2. q \in [1 .. n -> Nat]
    BY <2>1
  <2> QED
    BY <2>1, <2>2
<1>2. Follows(q, 0)
  BY <1>1 DEF Follows
<1> HIDE DEF q
<1>3. /\ Len(run) = EN(0 + Len(q)) - EN(0) /\ Len(run) \in Nat
      /\ run = [k \in 1 .. Len(run) |-> Stream(EN(0) + k)]
  BY <1>2, EntriesAre
<1>4. EN(0) = 0 /\ EN(n) \in Nat /\ 0 + Len(q) = n
  BY <1>1, ENStep, ENType
<1> HIDE DEF run
<1>5. Len(run) = EN(n) /\ \A i \in 1 .. EN(n) : run[i] = Stream(i)
  BY <1>3, <1>4
<1>6. \A i \in 1 .. EN(n) : Stream(i) \in FragmentSet
  <2> SUFFICES ASSUME NEW i \in 1 .. EN(n) PROVE Stream(i) \in FragmentSet
    OBVIOUS
  <2>1. Stream(i) \in (1 .. n) \X {0, 1}
    BY StreamType
  <2>2. 1 .. n \subseteq 1 .. MaxTokens
    BY ConstTypes
  <2> QED
    BY <2>1, <2>2 DEF FragmentSet
<1>7. run \in Seq(FragmentSet)
  <2>1. run \in [1 .. EN(n) -> FragmentSet]
    BY <1>3, <1>4, <1>5, <1>6
  <2> QED
    BY <1>4, <2>1
<1> QED
  BY <1>5, <1>7 DEF IsStream, run, q

LEMMA SlotStream ==
  ASSUME NEW s \in Streamed, NEW c, NEW g, NEW r, StreamOk(s, c, g, r)
  PROVE  LET run == Entries(Numbers(c.total - c.stop))
         IN /\ (g \o r) \o Unsent(c, c.hold) = run
            /\ c.state = "completed" => g \o r = run
            /\ IsPrefix(g \o r, run)
<1> DEFINE sent == g \o r
           out == Unsent(c, c.hold)
           A == Ahead(c)
           L == Len(c.hold)
           n == c.total - c.stop
           run == Entries(Numbers(n))
<1>1. c \in Conversation /\ Aligned(c, sent)
  BY DEF StreamOk, Going, Kept
<1>2. /\ HoldInOrder(c) /\ IsStream(sent, EN(A) + c.spilled) /\ A \in Nat /\ Follows(c.hold, A)
      /\ L \in Nat /\ c.spilled \in Nat /\ c.total \in Nat /\ c.total <= MaxTokens /\ c.stop \in Nat
      /\ c.hold \in Seq(1 .. MaxTokens)
  BY <1>1, ConvTypes DEF Aligned, HoldInOrder
<1>3. n = A + L /\ n \in Nat /\ n <= MaxTokens
  <2>1. A = n - L
    BY DEF Ahead, Reached
  <2>2. c.total \in Nat /\ c.stop \in Nat /\ c.total <= MaxTokens /\ MaxTokens \in Nat /\ A \in Nat /\ L \in Nat
    BY <1>2, ConstTypes
  <2> HIDE DEF A, L
  <2>3. n = A + L
    BY <2>1, <2>2
  <2>4. n <= MaxTokens
    BY <2>2
  <2> QED
    BY <2>2, <2>3, <2>4
<1>4. IsStream(run, EN(n))
  <2> HIDE DEF n
  <2> QED
    BY <1>3, RunIs
<1>5. /\ out \in Seq(FragmentSet) /\ Len(out) = EN(n) - (EN(A) + c.spilled) /\ Len(out) \in Nat
      /\ \A i \in 1 .. Len(out) : out[i] = Stream(EN(A) + c.spilled + i)
  <2>1. CASE L = 0
    <3>1. c.spilled = 0
      BY <1>2, <2>1 DEF HoldInOrder
    <3>2. Len(Entries(c.hold)) = EN(A + L) - EN(A)
      BY <1>2, EntriesAre
    <3>3. A + L = A /\ EN(A) \in Nat
      BY <1>2, <2>1, ENType
    <3>4. Len(Entries(c.hold)) = 0
      BY <3>2, <3>3
    <3>5. out = SubSeq(Entries(c.hold), 1, 0)
      BY <3>1, <3>4 DEF Unsent
    <3>6. out = << >>
      BY <3>5
    <3>7. EN(n) = EN(A)
      BY <1>3, <3>3
    <3>8. EN(n) - (EN(A) + c.spilled) = 0
      BY <3>1, <3>3, <3>7
    <3>9. << >> \in Seq(FragmentSet) /\ Len(<< >>) = 0
      OBVIOUS
    <3> QED
      BY <3>6, <3>8, <3>9
  <2>2. CASE L > 0
    <3>1. L \in 1 .. Len(c.hold) /\ SubSeq(c.hold, 1, L) = c.hold
      <4>1. L \in 1 .. Len(c.hold)
        BY <1>2, <2>2
      <4>2. SubSeq(c.hold, 1, Len(c.hold)) = c.hold
        BY <1>2
      <4> QED
        BY <4>1, <4>2
    <3>2. LET u == Unsent(c, SubSeq(c.hold, 1, L))
          IN /\ Len(u) = EN(Ahead(c) + L) - (EN(Ahead(c)) + c.spilled)
             /\ Len(u) \in Nat
             /\ u \in Seq(FragmentSet)
             /\ \A i \in 1 .. Len(u) : u[i] = Stream(EN(Ahead(c)) + c.spilled + i)
      <4> HIDE DEF L
      <4> QED
        BY <1>1, <1>2, <3>1, FlushOut
    <3> QED
      BY <1>3, <3>1, <3>2
  <2> QED
    BY <1>2, <2>1, <2>2
<1>6. EN(n) \in Nat /\ EN(A) \in Nat
  BY <1>2, <1>3, ENType
<1> DEFINE k == EN(A) + c.spilled
<1>7. k \in Nat
  BY <1>2, <1>6
<1>8. r \in Seq(FragmentSet) /\ g \in Seq(FragmentSet)
  BY DEF StreamOk, Going
<1>9. /\ sent \in Seq(FragmentSet) /\ Len(sent) = k /\ (\A i \in 1 .. k : sent[i] = Stream(i))
      /\ run \in Seq(FragmentSet) /\ Len(run) = EN(n) /\ (\A i \in 1 .. EN(n) : run[i] = Stream(i))
  BY <1>2, <1>4 DEF IsStream
<1>10. Len(out) = EN(n) - k /\ \A i \in 1 .. Len(out) : out[i] = Stream(k + i)
  BY <1>5
<1>11. c.state = "completed" => L = 0 /\ c.spilled = 0
  <2>1. c.state = "completed" => c.hold = << >>
    BY DEF StreamOk
  <2> QED
    BY <1>2, <2>1 DEF HoldInOrder
<1>12. c.state = "completed" => k = EN(n)
  <2> SUFFICES ASSUME c.state = "completed" PROVE k = EN(n)
    OBVIOUS
  <2>1. n = A
    BY <1>2, <1>3, <1>11
  <2> QED
    BY <1>6, <1>11, <2>1
<1> HIDE DEF sent, out, run, k, n, A, L
<1>13. sent \o out = run
  <2>0. sent \in Seq(FragmentSet) /\ out \in Seq(FragmentSet) /\ Len(sent) = k /\ Len(out) \in Nat
    BY <1>5, <1>9
  <2>1. sent \o out \in Seq(FragmentSet) /\ Len(sent \o out) = EN(n)
    <3>1. sent \o out \in Seq(FragmentSet) /\ Len(sent \o out) = k + Len(out)
      BY <2>0
    <3>2. k + Len(out) = EN(n)
      BY <1>6, <1>7, <1>10
    <3> QED
      BY <3>1, <3>2
  <2>2. ASSUME NEW i \in 1 .. EN(n) PROVE (sent \o out)[i] = run[i]
    <3>1. CASE i <= k
      <4>0. i \in 1 .. k
        BY <1>6, <1>7, <3>1
      <4>1. i \in 1 .. k /\ (sent \o out)[i] = sent[i]
        BY <2>0, <4>0
      <4> QED
        BY <1>9, <4>1
    <3>2. CASE i > k
      <4> DEFINE j == i - k
      <4>1. j \in 1 .. Len(out) /\ k + j = i
        BY <1>6, <1>7, <1>10, <3>2
      <4>2. (sent \o out)[i] = out[j]
        BY <1>7, <2>0, <3>2, <4>1
      <4> HIDE DEF j
      <4>3. out[j] = Stream(i)
        BY <1>10, <4>1
      <4> QED
        BY <1>9, <4>2, <4>3
    <3>3. i <= k \/ i > k
      BY <1>6, <1>7
    <3> QED
      BY <3>1, <3>2, <3>3
  <2> QED
    BY <1>9, <2>1, <2>2, SameSequence
<1>14. c.state = "completed" => sent = run
  BY <1>9, <1>12, SameSequence
<1>15. IsPrefix(sent, run)
  <2>1. k <= EN(n)
    BY <1>5, <1>6, <1>7, <1>10
  <2>2. Len(sent) <= Len(run) /\ \A i \in 1 .. Len(sent) : sent[i] = run[i]
    BY <1>6, <1>7, <1>9, <2>1
  <2> QED
    BY <1>9, <2>2, PrefixIs
<1> QED
  BY <1>13, <1>14, <1>15 DEF sent, out, run, n

LEMMA PastBounded ==
  ASSUME NEW c \in Conversation, PromptInOrder(c), Progress(c)
  PROVE  LET x == Extent(c.prompt, Len(c.prompt))
         IN /\ x \in Nat /\ c.past <= x + c.total
            /\ c.total > 0 => x <= c.past
<1> DEFINE q == c.prompt
           x == Extent(q, Len(q))
<1>1. c.past \in Nat /\ c.total \in Nat /\ c.off \in Nat /\ c.chunk \in Nat /\ Len(q) \in Nat /\ InOrder(q)
  BY InputTypes, ConvTypes DEF PromptInOrder
<1>2. x \in Nat
  <2>1. Len(q) \in 0 .. Len(q)
    BY <1>1
  <2> HIDE DEF q
  <2> QED
    BY <1>1, <2>1, ExtentType
<1>3. CASE HasChunk(c)
  <2> DEFINE k == c.chunk + 1
             y == Extent(q, c.chunk)
             z == Extent(q, k)
             w == Places(q[k])
  <2>1. k \in 1 .. Len(q) /\ q[k].len \in Nat /\ y \in Nat /\ z = y + w
    BY <1>3, ChunkPlace
  <2>2. c.total = 0 /\ c.past = y + c.off
    BY <1>3 DEF Progress
  <2>3. c.off <= w /\ w \in Nat
    <3>1. c.off = 0 \/ (AtText(c) /\ c.off < q[k].len)
      BY DEF Progress
    <3>2. AtText(c) => w = q[k].len
      BY DEF AtText, Places
    <3>3. w \in Nat
      BY <2>1 DEF Places
    <3> HIDE DEF w, k, q
    <3> QED
      BY <1>1, <2>1, <3>1, <3>2, <3>3
  <2>4. z <= x
    <3>1. k \in 0 .. Len(q) /\ Len(q) \in 0 .. Len(q) /\ k <= Len(q)
      BY <1>1, <2>1
    <3> HIDE DEF q, k
    <3> QED
      BY <1>1, <3>1, ExtentMonotonic
  <2> HIDE DEF k, y, z, w, x
  <2> QED
    BY <1>1, <1>2, <2>1, <2>2, <2>3, <2>4 DEF x, q
<1>4. CASE ~HasChunk(c)
  <2> DEFINE m == IF c.pending \/ c.ending THEN 1 ELSE 0
  <2>1. c.past = x + c.total - m
    BY <1>4 DEF Progress
  <2>2. m \in {0, 1}
    OBVIOUS
  <2>3. x + c.total - m <= x + c.total /\ (c.total > 0 => x <= x + c.total - m)
    <3> HIDE DEF x, m
    <3> QED
      BY <1>1, <1>2, <2>2
  <2> HIDE DEF x, m
  <2> QED
    BY <1>2, <2>1, <2>3 DEF x, q
<1> QED
  BY <1>3, <1>4

LEMMA SlotContext ==
  ASSUME NEW c \in Conversation, NEW k, ContextOk(c, k), c.state = "decoding", ~c.dirty
  PROVE  /\ IsPrefix(k, Context(c))
         /\ c.total > 0 => IsPrefix(PromptTokens(c.prompt), k)
         /\ c.past = Len(k)
<1> DEFINE p == PromptTokens(c.prompt)
           x == Extent(c.prompt, Len(c.prompt))
           n == c.total
           q == [i \in 1 .. n |-> <<"sampled", i>>]
           S == Tokens \cup {p[i] : i \in 1 .. x}
<1>1. PromptInOrder(c) /\ Progress(c) /\ Fits(c, k) /\ k \in Seq(Tokens)
  BY DEF ContextOk
<1>2. x \in Nat /\ c.past <= x + n /\ (n > 0 => x <= c.past)
  BY <1>1, PastBounded
<1>3. c.past = Len(k) /\ \A i \in 1 .. Len(k) : k[i] = ContextAt(c, i)
  BY <1>1 DEF Fits
<1>4. n \in Nat /\ Len(k) \in Nat
  BY <1>1, ConvTypes
<1>5. DOMAIN p = 1 .. x /\ p = [i \in 1 .. x |-> p[i]]
  BY DEF PromptTokens
<1>6. \A i \in 1 .. Len(k) : k[i] = IF i <= x THEN p[i] ELSE <<"sampled", i - x>>
  BY <1>3 DEF ContextAt
<1> HIDE DEF p, x
<1>7. p \in Seq(S) /\ Len(p) = x
  <2>1. p \in [1 .. x -> S]
    BY <1>5
  <2> QED
    BY <1>2, <2>1
<1>8. q \in Seq(S) /\ Len(q) = n /\ \A i \in 1 .. n : q[i] = <<"sampled", i>>
  <2>1. \A i \in 1 .. n : <<"sampled", i>> \in S
    BY <1>4 DEF Tokens
  <2>2. q \in [1 .. n -> S]
    BY <2>1
  <2> HIDE DEF n
  <2> QED
    BY SMTT(30), <1>4, <2>2
<1>9. Context(c) = p \o q
  BY DEF Context, p
<1> HIDE DEF q
<1>10. k \in Seq(S)
  BY <1>1
<1> HIDE DEF S, n
<1>11. p \o q \in Seq(S) /\ Len(p \o q) = x + n /\ p \in Seq(S) /\ q \in Seq(S)
  <2>1. p \in Seq(S) /\ q \in Seq(S)
    BY <1>7, <1>8
  <2>2. p \o q \in Seq(S) /\ Len(p \o q) = Len(p) + Len(q)
    BY <2>1
  <2> QED
    BY <1>7, <1>8, <2>1, <2>2
<1>12. Len(k) <= Len(p \o q)
  BY <1>2, <1>3, <1>11
<1>13. ASSUME NEW i \in 1 .. Len(k) PROVE k[i] = (p \o q)[i]
  <2>1. CASE i <= x
    <3>1. i \in 1 .. x
      BY <1>2, <1>4, <2>1
    <3>2. (p \o q)[i] = p[i]
      BY <1>7, <1>8, <3>1
    <3> QED
      BY <1>6, <2>1, <3>2
  <2>2. CASE ~(i <= x)
    <3> DEFINE j == i - x
    <3>1. j \in 1 .. n /\ i = x + j
      BY <1>2, <1>3, <1>4, <2>2
    <3>2. (p \o q)[i] = q[j]
      <4> HIDE DEF j
      <4>1. Len(p) = x /\ Len(q) = n
        BY <1>7, <1>8
      <4>2. (p \o q)[x + j] = q[j]
        BY <1>2, <1>4, <1>11, <3>1, <4>1
      <4> QED
        BY <3>1, <4>2
    <3> QED
      BY <1>6, <1>8, <2>2, <3>1, <3>2
  <2> QED
    BY <2>1, <2>2
<1>14. IsPrefix(k, p \o q)
  BY <1>10, <1>11, <1>12, <1>13, PrefixIs
<1>15. ASSUME n > 0 PROVE IsPrefix(p, k)
  <2>1. Len(p) <= Len(k)
    BY <1>2, <1>3, <1>7, <1>15
  <2>2. ASSUME NEW i \in 1 .. Len(p) PROVE p[i] = k[i]
    <3>1. Len(p) = x
      BY <1>7
    <3>2. i \in 1 .. Len(k) /\ i <= x
      BY <1>2, <1>4, <2>1, <3>1
    <3> QED
      BY <1>6, <3>2
  <2> QED
    BY <1>7, <1>10, <2>1, <2>2, PrefixIs
<1> QED
  BY <1>3, <1>9, <1>14, <1>15 DEF p, n

LEMMA InvSound ==
  IInv => StreamSound
<1> SUFFICES ASSUME IInv PROVE StreamSound
  OBVIOUS
<1>1. Shape /\ ClientType /\ BatchType /\ SlotInv /\ BatchOk
  BY DEF IInv
<1>2. ASSUME NEW s \in Slots
      PROVE  /\ StreamOk(s, conv[s], got[s], ring[s]) /\ ContextOk(conv[s], kv[s])
             /\ Going(s, got[s], conv[s], ring[s]) /\ conv[s] \in Conversation
  BY <1>1 DEF SlotInv, SlotOk, StreamOk, Going
<1>3. TypeOK
  <2>1. conv \in [Slots -> Conversation] /\ {ring, got} \subseteq [Slots -> Seq((1 .. MaxTokens) \X {0, 1})]
        /\ kv \in [Slots -> Seq(Tokens)]
    BY <1>1 DEF Shape, FragmentSet
  <2>2. \A s \in Slots : conv[s].chunk <= Len(conv[s].prompt) /\ Len(conv[s].prompt) <= MaxChunks
    BY <1>2 DEF ContextOk
  <2>3. \A s \in Slots : Len(ring[s]) <= RingCapacity
    BY <1>2 DEF Going
  <2>4. eos \in [Slots -> BOOLEAN] /\ reader \in [Slots -> {"drain", "check", "last"}] /\ control \in [Slots -> {"out", "cancel"}]
    BY <1>1 DEF ClientType
  <2>5. /\ phase \in Phases /\ rr \in Slots /\ Len(batch) <= MaxBatch
        /\ batch \in Seq([slot : Slots, token : Tokens, pos : Nat, want : BOOLEAN])
        /\ at \in IF phase \in {"tally", "output"} THEN 0 .. Len(batch) - 1 ELSE Slots
    BY <1>1 DEF BatchType, EntrySet
  <2> QED
    BY <2>1, <2>2, <2>3, <2>4, <2>5 DEF TypeOK
<1>4. HoldBounded
  BY <1>2 DEF HoldBounded, Going
<1>5. StreamFaithful
  <2> SUFFICES ASSUME NEW s \in Streamed
               PROVE  LET c    == conv[s]
                          sent == got[s] \o ring[s]
                          run  == Entries(Numbers(c.total - c.stop))
                      IN /\ c.state \in {"decoding", "completed"} => sent \o Unsent(c, c.hold) = run
                         /\ c.state = "completed" => sent = run
                         /\ IsPrefix(sent, run)
    BY DEF StreamFaithful
  <2>1. s \in Slots
    BY StreamAssumption
  <2>2. StreamOk(s, conv[s], got[s], ring[s])
    BY <1>2, <2>1
  <2> DEFINE c == conv[s]
             g == got[s]
             r == ring[s]
  <2> HIDE DEF c, g, r
  <2>3. LET run == Entries(Numbers(c.total - c.stop))
        IN /\ (g \o r) \o Unsent(c, c.hold) = run
           /\ c.state = "completed" => g \o r = run
           /\ IsPrefix(g \o r, run)
    BY <2>2, SlotStream DEF c, g, r
  <2> QED
    BY <2>3 DEF c, g, r
<1>6. ContextFaithful
  <2>1. ASSUME NEW s \in Slots, Decoding(s), ~conv[s].dirty
        PROVE  /\ IsPrefix(kv[s], Context(conv[s]))
               /\ conv[s].total > 0 => IsPrefix(PromptTokens(conv[s].prompt), kv[s])
               /\ conv[s].past = Len(kv[s])
    <3> DEFINE c == conv[s]
    <3>1. c.state = "decoding" /\ ~c.dirty /\ c \in Conversation /\ ContextOk(c, kv[s])
      BY <1>2, <2>1 DEF Decoding
    <3> HIDE DEF c
    <3>2. /\ IsPrefix(kv[s], Context(c)) /\ (c.total > 0 => IsPrefix(PromptTokens(c.prompt), kv[s]))
          /\ c.past = Len(kv[s])
      BY <3>1, SlotContext
    <3> QED
      BY <3>2 DEF c
  <2>2. ASSUME phase = "tally" PROVE batch[at + 1].pos = Len(kv[batch[at + 1].slot])
    <3> DEFINE s == batch[at + 1].slot
               c == conv[s]
    <3>1. at \in 0 .. Len(batch) - 1 /\ at + 1 \in 1 .. Len(batch) /\ batch \in Seq(EntrySet)
      BY <1>1, <2>2 DEF BatchType
    <3>2. s \in Slots
      BY <1>1, <3>1, EntryFacts
    <3>3. BlockOf(s, c, batch, at)
      BY <1>1, <2>2, <3>2 DEF BatchOk, Filling, Blocks, Done
    <3>4. c \in Conversation /\ ContextOk(c, kv[s])
      BY <1>2, <3>2
    <3>5. batch[at + 1].slot = s
      OBVIOUS
    <3> HIDE DEF s, c
    <3>6. Ready(c) /\ batch[at + 1].pos = c.past
      BY <3>1, <3>3, <3>4, <3>5, BlockHead
    <3>7. c.past = Len(kv[s])
      BY <3>4, <3>6 DEF Ready, ContextOk, Fits
    <3> QED
      BY <3>5, <3>6, <3>7
  <2> QED
    BY <2>1, <2>2 DEF ContextFaithful
<1> QED
  BY <1>3, <1>4, <1>5, <1>6 DEF StreamSound

-----------------------------------------------------------------------------
(* The end of a stream: an invariant of its own, with late conv_decode calls *)

\* what is a record of a conversation, as far as the reader looks at it
HasState(c) == "state" \in DOMAIN c

EndInv ==
  /\ DOMAIN conv = Slots /\ DOMAIN ring = Slots /\ \A s \in Slots : HasState(conv[s])
  /\ eos \in [Slots -> BOOLEAN]
  /\ reader \in [Slots -> {"drain", "check", "last"}]
  /\ \A s \in Slots : reader[s] = "last" => Terminal(s)
  /\ EndOfStream

LEMMA FreshState ==
  HasState(FreshConv)
BY DEF FreshConv, HasState

LEMMA FlushState ==
  ASSUME NEW c, HasState(c), NEW r, NEW n
  PROVE  /\ HasState(FlushHold(c, r, n)[1])
         /\ \A x \in FlushFailures(c, r, n) : HasState(x[1])
<1>1. ASSUME NEW m PROVE HasState(FlushHold(c, r, m)[1])
  <2>1. CASE Len(c.hold) <= m
    BY <2>1 DEF FlushHold
  <2>2. CASE ~(Len(c.hold) <= m)
    <3>1. PICK h, g, p : FlushHold(c, r, m)[1] = [c EXCEPT !.hold = h, !.staged = g, !.spilled = p]
      BY <2>2 DEF FlushHold
    <3> QED
      BY <3>1 DEF HasState
  <2> QED
    BY <2>1, <2>2
<1>2. \A d : HasState(d) => HasState(Fail(d))
  BY DEF HasState, Fail
<1>3. ASSUME NEW x \in FlushFailures(c, r, n) PROVE HasState(x[1])
  <2>1. PICK m : x[1] = Fail(FlushHold(c, r, m)[1])
    BY DEF FlushFailures
  <2> QED
    BY <1>1, <1>2, <2>1
<1> QED
  BY <1>1, <1>3

LEMMA FinishState ==
  ASSUME NEW s, NEW c, HasState(c), NEW r
  PROVE  HasState(Finish(s, c, r)[1])
<1> DEFINE d == (IF s \in Streamed THEN FlushHold(c, r, 0) ELSE <<c, r>>)[1]
<1>1. HasState(d)
  BY FlushState
<1>2. Finish(s, c, r)[1] \in {c, d, [d EXCEPT !.ending = FALSE, !.state = "completed"]}
  BY DEF Finish
<1> HIDE DEF d
<1>3. HasState([d EXCEPT !.ending = FALSE, !.state = "completed"])
  BY <1>1 DEF HasState
<1> QED
  BY <1>1, <1>2, <1>3

LEMMA SampledState ==
  ASSUME NEW s, NEW c, HasState(c), NEW r, NEW o
  PROVE  /\ HasState(Sampled(s, c, r, o)[1])
         /\ \A x \in SampledFailures(s, c, r, o) : HasState(x[1])
<1> DEFINE d == Counted(s, c, o)
           p == (IF s \in Streamed THEN FlushHold(d, r, Retain) ELSE <<[d EXCEPT !.staged = FALSE], r>>)[1]
           k == IF o.kind = "stop" /\ s \in Streamed THEN TakeBack(p, o.len) ELSE p
           h == Held(s, c, r, o)[1]
<1>1. HasState(d)
  BY DEF Counted, HasState
<1> HIDE DEF d
<1>2. HasState([d EXCEPT !.staged = FALSE])
  BY <1>1 DEF HasState
<1>3. HasState(p)
  BY <1>1, <1>2, FlushState
<1>4. h = [k EXCEPT !.ending = IsLast(c, o)]
  BY DEF Held, d
<1> HIDE DEF p, h
<1>5. HasState(k)
  BY <1>3 DEF TakeBack, HasState
<1> HIDE DEF k
<1>6. HasState(h)
  BY <1>4, <1>5 DEF HasState
<1>7. HasState(Sampled(s, c, r, o)[1])
  BY <1>6, FinishState DEF Sampled, h
<1>8. ASSUME NEW x \in SampledFailures(s, c, r, o) PROVE HasState(x[1])
  <2>1. \/ x \in FlushFailures(d, r, Retain)
        \/ x \in FlushFailures(h, Held(s, c, r, o)[2], 0)
    BY DEF SampledFailures, d, h
  <2> QED
    BY <1>1, <1>6, <2>1, FlushState
<1> QED
  BY <1>7, <1>8

\* The executor changes the conversation and the ring of decoding slots only.
Touches ==
  /\ DOMAIN conv' = Slots /\ DOMAIN ring' = Slots
  /\ \A t \in Slots : /\ HasState(conv'[t])
                      /\ (conv'[t] = conv[t] /\ ring'[t] = ring[t]) \/ Decoding(t)

LEMMA TouchesNothing ==
  ASSUME EndInv, UNCHANGED <<conv, ring>>
  PROVE  Touches
BY DEF EndInv, Touches

LEMMA TouchesOne ==
  ASSUME EndInv, NEW s, Decoding(s), NEW d, s \in Slots => HasState(d), NEW q,
         conv' = [conv EXCEPT ![s] = d], ring' = [ring EXCEPT ![s] = q] \/ ring' = ring
  PROVE  Touches
<1>1. DOMAIN conv = Slots /\ DOMAIN ring = Slots /\ \A t \in Slots : HasState(conv[t])
  BY DEF EndInv
<1>2. DOMAIN conv' = Slots /\ DOMAIN ring' = Slots
  BY <1>1
<1>3. ASSUME NEW t \in Slots, t # s PROVE conv'[t] = conv[t] /\ ring'[t] = ring[t]
  BY <1>1, <1>3
<1>4. ASSUME s \in Slots PROVE conv'[s] = d
  BY <1>1, <1>4
<1> QED
  BY <1>1, <1>2, <1>3, <1>4 DEF Touches

LEMMA TouchesPut ==
  ASSUME EndInv, NEW s, Decoding(s), NEW x, s \in Slots => HasState(x[1]), Put(s, x)
  PROVE  Touches
<1>1. conv' = [conv EXCEPT ![s] = x[1]] /\ ring' = [ring EXCEPT ![s] = x[2]]
  BY DEF Put
<1> QED
  BY <1>1, TouchesOne

LEMMA ChangedState ==
  ASSUME NEW c, HasState(c)
  PROVE  /\ HasState(Fail(c)) /\ HasState(Canceled(c)) /\ HasState(SlotReset(c))
         /\ HasState([c EXCEPT !.staged = FALSE])
         /\ \A e : HasState(Evaluated(c, e))
         /\ \A k : HasState(MediaFed(c, k))
<1>1. ASSUME NEW e PROVE HasState(Evaluated(c, e))
  BY DEF HasState, Evaluated, Advance
<1> QED
  BY <1>1 DEF HasState, Fail, Canceled, SlotReset, MediaFed

LEMMA VisitTouches ==
  ASSUME EndInv, FlushVisit \/ ResetVisit
  PROVE  Touches
<1> DEFINE c == conv[at]
<1>1. at \in Slots => HasState(c)
  BY DEF EndInv
<1>2. CASE ~Decoding(at)
  BY <1>2, TouchesNothing DEF FlushVisit, ResetVisit
<1>3. CASE Decoding(at) /\ FlushVisit
  <2> DEFINE f == IF at \in Streamed THEN FlushHold(c, ring[at], Retain) ELSE <<[c EXCEPT !.staged = FALSE], ring[at]>>
             n == IF c.ending THEN 0 ELSE Retain
  <2>1. \/ Put(at, Finish(at, f[1], f[2]))
        \/ \E x \in FlushFailures(c, ring[at], n) : Put(at, x)
    BY <1>3 DEF FlushVisit
  <2>2. at \in Slots => HasState(f[1])
    BY <1>1, ChangedState, FlushState
  <2> HIDE DEF f, n, c
  <2>3. PICK x : Put(at, x) /\ (x = Finish(at, f[1], f[2]) \/ x \in FlushFailures(c, ring[at], n))
    BY <2>1
  <2>4. at \in Slots => HasState(x[1])
    BY <1>1, <2>2, <2>3, FinishState, FlushState
  <2> QED
    BY <1>3, <2>3, <2>4, TouchesPut
<1>4. CASE Decoding(at) /\ ResetVisit
  <2> DEFINE d == IF c.dirty THEN SlotReset(c) ELSE c
  <2>1. PICK x \in {d, Fail(d)} : conv' = [conv EXCEPT ![at] = x]
    BY <1>4 DEF ResetVisit
  <2>2. ring' = ring
    BY <1>4 DEF ResetVisit
  <2>3. at \in Slots => HasState(d)
    BY <1>1, ChangedState
  <2> HIDE DEF d, c
  <2>4. at \in Slots => HasState(x)
    BY <2>1, <2>3, ChangedState
  <2> QED
    BY <1>4, <2>1, <2>2, <2>4, TouchesOne
<1> QED
  BY <1>2, <1>3, <1>4

LEMMA MediaVisitTouches ==
  ASSUME EndInv, MediaVisit
  PROVE  Touches
<1> DEFINE c == conv[at]
           fed == MediaFed(c, kv[at])
<1>1. at \in Slots => HasState(c)
  BY DEF EndInv
<1>2. \/ UNCHANGED <<conv, ring>>
      \/ Decoding(at) /\ \E x :
           /\ Put(at, x)
           /\ \/ x \in {<<Canceled(c), ring[at]>>, <<Fail(c), ring[at]>>, <<fed, ring[at]>>, <<Fail(fed), ring[at]>>}
              \/ \E o : x = Sampled(at, fed, ring[at], o) \/ x \in SampledFailures(at, fed, ring[at], o)
  BY DEF MediaVisit, MediaFed
<1>3. at \in Slots => HasState(fed)
  BY <1>1, ChangedState
<1>4. CASE UNCHANGED <<conv, ring>>
  BY <1>4, TouchesNothing
<1> HIDE DEF fed, c
<1>5. CASE Decoding(at) /\ \E x :
           /\ Put(at, x)
           /\ \/ x \in {<<Canceled(c), ring[at]>>, <<Fail(c), ring[at]>>, <<fed, ring[at]>>, <<Fail(fed), ring[at]>>}
              \/ \E o : x = Sampled(at, fed, ring[at], o) \/ x \in SampledFailures(at, fed, ring[at], o)
  <2>1. PICK x :
          /\ Put(at, x)
          /\ \/ x \in {<<Canceled(c), ring[at]>>, <<Fail(c), ring[at]>>, <<fed, ring[at]>>, <<Fail(fed), ring[at]>>}
             \/ \E o : x = Sampled(at, fed, ring[at], o) \/ x \in SampledFailures(at, fed, ring[at], o)
    BY <1>5
  <2>2. ASSUME at \in Slots PROVE HasState(x[1])
    <3>1. HasState(c) /\ HasState(fed)
      BY <1>1, <1>3, <2>2
    <3>2. CASE x \in {<<Canceled(c), ring[at]>>, <<Fail(c), ring[at]>>, <<fed, ring[at]>>, <<Fail(fed), ring[at]>>}
      <4>1. x[1] \in {Canceled(c), Fail(c), fed, Fail(fed)}
        BY <3>2
      <4> QED
        BY <3>1, <4>1, ChangedState
    <3>3. CASE \E o : x = Sampled(at, fed, ring[at], o) \/ x \in SampledFailures(at, fed, ring[at], o)
      BY <3>1, <3>3, SampledState
    <3> QED
      BY <2>1, <3>2, <3>3
  <2> QED
    BY <1>5, <2>1, <2>2, TouchesPut
<1> QED
  BY <1>2, <1>4, <1>5

LEMMA BatchTouches ==
  ASSUME EndInv, DecodeVisit \/ Tally \/ EvalFails \/ Output
  PROVE  Touches
<1>1. CASE DecodeVisit
  <2> DEFINE s == RoundRobin(at)
  <2>1. UNCHANGED conv \/ (Decoding(s) /\ conv' = [conv EXCEPT ![s] = Canceled(conv[s])])
    BY <1>1 DEF DecodeVisit
  <2>2. ring' = ring
    BY <1>1 DEF DecodeVisit
  <2> HIDE DEF s
  <2> DEFINE d == Canceled(conv[s])
  <2>3. s \in Slots => HasState(d)
    BY ChangedState DEF EndInv
  <2> HIDE DEF d
  <2>4. CASE UNCHANGED conv
    BY <2>2, <2>4, TouchesNothing
  <2>5. CASE Decoding(s) /\ conv' = [conv EXCEPT ![s] = d]
    BY <2>2, <2>3, <2>5, TouchesOne
  <2> QED
    BY <2>1, <2>4, <2>5 DEF d
<1>2. CASE Tally
  <2> DEFINE e == batch[at + 1]
             s == e.slot
             d == Evaluated(conv[s], e)
  <2>1. conv' = [conv EXCEPT ![s] = IF Decoding(s) THEN d ELSE conv[s]] /\ ring' = ring
    BY <1>2 DEF Tally
  <2>2. s \in Slots => HasState(d)
    BY ChangedState DEF EndInv
  <2> HIDE DEF d, s
  <2>3. CASE Decoding(s)
    <3>1. conv' = [conv EXCEPT ![s] = d]
      BY <2>1, <2>3
    <3> QED
      BY <2>1, <2>2, <2>3, <3>1, TouchesOne
  <2>4. CASE ~Decoding(s)
    <3>1. conv' = [conv EXCEPT ![s] = conv[s]] /\ ring' = ring
      BY <2>1, <2>4
    <3> QED
      BY <3>1 DEF EndInv, Touches
  <2> QED
    BY <2>3, <2>4
<1>3. CASE EvalFails
  <2>1. ring' = ring /\ conv' = [s \in Slots |-> IF Decoding(s) THEN Fail(conv[s]) ELSE conv[s]]
    BY <1>3 DEF EvalFails
  <2>2. \A s \in Slots : HasState(Fail(conv[s])) /\ HasState(conv[s])
    BY ChangedState DEF EndInv
  <2>3. \A s \in Slots : conv'[s] = IF Decoding(s) THEN Fail(conv[s]) ELSE conv[s]
    BY <2>1
  <2>4. DOMAIN conv' = Slots /\ DOMAIN ring' = Slots
    BY <2>1 DEF EndInv
  <2> QED
    BY <2>1, <2>2, <2>3, <2>4 DEF Touches
<1>4. CASE Output
  <2> DEFINE s == batch[at + 1].slot
             c == conv[s]
  <2>1. \/ UNCHANGED <<conv, ring>>
        \/ Decoding(s) /\ \E x :
             /\ Put(s, x)
             /\ \/ x = <<Fail(c), ring[s]>>
                \/ \E o : x = Sampled(s, c, ring[s], o) \/ x \in SampledFailures(s, c, ring[s], o)
    BY <1>4 DEF Output
  <2>2. s \in Slots => HasState(c)
    BY DEF EndInv
  <2> HIDE DEF s, c
  <2>3. CASE UNCHANGED <<conv, ring>>
    BY <2>3, TouchesNothing
  <2>4. CASE Decoding(s) /\ \E x :
             /\ Put(s, x)
             /\ \/ x = <<Fail(c), ring[s]>>
                \/ \E o : x = Sampled(s, c, ring[s], o) \/ x \in SampledFailures(s, c, ring[s], o)
    <3>1. PICK x :
            /\ Put(s, x)
            /\ \/ x = <<Fail(c), ring[s]>>
               \/ \E o : x = Sampled(s, c, ring[s], o) \/ x \in SampledFailures(s, c, ring[s], o)
      BY <2>4
    <3>2. ASSUME s \in Slots PROVE HasState(x[1])
      <4>1. x[1] = Fail(c) \/ \E o : x = Sampled(s, c, ring[s], o) \/ x \in SampledFailures(s, c, ring[s], o)
        BY <3>1
      <4> QED
        BY <2>2, <3>2, <4>1, ChangedState, SampledState
    <3> QED
      BY <2>4, <3>1, <3>2, TouchesPut
  <2> QED
    BY <2>1, <2>3, <2>4
<1> QED
  BY <1>1, <1>2, <1>3, <1>4

LEMMA ExecuteTouches ==
  ASSUME EndInv, Execute
  PROVE  Touches /\ UNCHANGED <<eos, reader>>
<1>1. UNCHANGED <<eos, reader>>
  BY DEF Execute, Tick, FlushVisit, ResetVisit, MediaVisit, DecodeVisit, PromptVisit, Eval, Tally, EvalFails,
         EvalNothing, Output, clientVars
<1>2. CASE Tick \/ PromptVisit \/ Eval \/ EvalNothing
  BY <1>1, <1>2, TouchesNothing DEF Tick, PromptVisit, Eval, EvalNothing
<1>3. CASE ~(Tick \/ PromptVisit \/ Eval \/ EvalNothing)
  BY <1>1, <1>3, VisitTouches, MediaVisitTouches, BatchTouches DEF Execute
<1> QED
  BY <1>1, <1>2, <1>3

LEMMA EndInvKept ==
  ASSUME EndInv, [Next]_vars
  PROVE  EndInv'
<1>1. /\ DOMAIN conv = Slots /\ DOMAIN ring = Slots /\ \A s \in Slots : HasState(conv[s])
      /\ eos \in [Slots -> BOOLEAN]
      /\ reader \in [Slots -> {"drain", "check", "last"}]
      /\ \A s \in Slots : reader[s] = "last" => Terminal(s)
      /\ \A s \in Slots : eos[s] => Terminal(s) /\ ring[s] = << >>
  BY DEF EndInv, EndOfStream
<1>2. CASE Execute
  <2>1. Touches /\ eos' = eos /\ reader' = reader
    BY <1>2, ExecuteTouches
  <2>2. ASSUME NEW s \in Slots
        PROVE  (reader'[s] = "last" => Terminal(s)') /\ (eos'[s] => Terminal(s)' /\ ring'[s] = << >>)
    <3>1. CASE conv'[s] = conv[s] /\ ring'[s] = ring[s]
      BY <1>1, <2>1, <3>1 DEF Terminal
    <3>2. CASE Decoding(s)
      BY <1>1, <2>1, <3>2 DEF Terminal, Decoding
    <3> QED
      BY <2>1, <3>1, <3>2 DEF Touches
  <2> QED
    BY <1>1, <2>1, <2>2 DEF EndInv, EndOfStream, Touches
<1>3. ASSUME NEW s \in Slots, Control(s) PROVE EndInv'
  <2>1. CASE Reset(s)
    <3>1. /\ conv' = [conv EXCEPT ![s] = [FreshConv EXCEPT !.dirty = TRUE]] /\ ring' = [ring EXCEPT ![s] = << >>]
          /\ eos' = [eos EXCEPT ![s] = FALSE] /\ reader' = reader /\ reader[s] = "drain"
      BY <2>1 DEF Reset
    <3>2. HasState([FreshConv EXCEPT !.dirty = TRUE])
      BY FreshState DEF HasState
    <3>3. \A t \in Slots : t # s => conv'[t] = conv[t] /\ ring'[t] = ring[t] /\ eos'[t] = eos[t]
      BY <1>1, <3>1
    <3>4. /\ HasState(conv'[s]) /\ ~eos'[s]
          /\ DOMAIN conv' = Slots /\ DOMAIN ring' = Slots /\ eos' \in [Slots -> BOOLEAN]
      BY <1>1, <3>1, <3>2
    <3>5. ASSUME NEW t \in Slots
          PROVE  HasState(conv'[t]) /\ (reader'[t] = "last" => Terminal(t)')
                 /\ (eos'[t] => Terminal(t)' /\ ring'[t] = << >>)
      <4>1. CASE t = s
        BY <3>1, <3>4, <4>1
      <4>2. CASE t # s
        BY <1>1, <3>1, <3>3, <4>2 DEF Terminal
      <4> QED
        BY <4>1, <4>2
    <3> QED
      BY <1>1, <3>1, <3>4, <3>5 DEF EndInv, EndOfStream
  <2>2. ASSUME NEW d, conv' = [conv EXCEPT ![s] = d], UNCHANGED <<ring, eos, reader>>, HasState(d),
               Terminal(s) => d.state = conv[s].state
        PROVE  EndInv'
    <3>1. conv'[s] = d /\ DOMAIN conv' = Slots /\ \A t \in Slots : t # s => conv'[t] = conv[t]
      BY <1>1, <2>2
    <3>2. ASSUME NEW t \in Slots PROVE HasState(conv'[t]) /\ (Terminal(t) => Terminal(t)')
      <4>1. CASE t = s
        BY <2>2, <3>1, <4>1 DEF Terminal
      <4>2. CASE t # s
        BY <1>1, <3>1, <4>2 DEF Terminal
      <4> QED
        BY <4>1, <4>2
    <3> QED
      BY <1>1, <2>2, <3>1, <3>2 DEF EndInv, EndOfStream
  <2>3. ASSUME NEW k \in Chunks, Feed(s, k) PROVE EndInv'
    <3> DEFINE d == [conv[s] EXCEPT !.prompt = Append(conv[s].prompt, [start |-> conv[s].count, len |-> k]),
                                    !.count = conv[s].count + k, !.state = "feeding"]
    <3>1. conv' = [conv EXCEPT ![s] = d] /\ UNCHANGED <<ring, eos, reader>> /\ ~Terminal(s)
      BY <2>3 DEF Feed, clientVars, Terminal
    <3>2. HasState(d)
      BY <1>1 DEF HasState
    <3> HIDE DEF d
    <3> QED
      BY <2>2, <3>1, <3>2
  <2>4. CASE Decode(s)
    <3> DEFINE d == [FreshConv EXCEPT !.state = "decoding", !.prompt = conv[s].prompt,
                                      !.count = conv[s].count, !.dirty = TRUE]
    <3>1. conv' = [conv EXCEPT ![s] = d] /\ UNCHANGED <<ring, eos, reader>> /\ ~Terminal(s)
      BY <2>4 DEF Decode, clientVars, Terminal
    <3>2. HasState(d)
      BY FreshState DEF HasState
    <3> HIDE DEF d
    <3> QED
      BY <2>2, <3>1, <3>2
  <2>5. CASE CancelLoad(s)
    <3> DEFINE d == [conv[s] EXCEPT !.state = "canceled"]
    <3>1. UNCHANGED <<ring, eos, reader>>
      BY <2>5 DEF CancelLoad
    <3>2. (conv' = [conv EXCEPT ![s] = d] /\ ~Terminal(s)) \/ conv' = conv
      BY <2>5 DEF CancelLoad, Terminal
    <3>3. HasState(d)
      BY <1>1 DEF HasState
    <3> HIDE DEF d
    <3>4. CASE conv' = [conv EXCEPT ![s] = d] /\ ~Terminal(s)
      BY <2>2, <3>1, <3>3, <3>4
    <3>5. CASE conv' = conv
      BY <1>1, <3>1, <3>5 DEF EndInv, EndOfStream, Terminal
    <3> QED
      BY <3>2, <3>4, <3>5
  <2>6. CASE CancelStore(s)
    <3> DEFINE d == [conv[s] EXCEPT !.cancel = TRUE]
    <3>1. conv' = [conv EXCEPT ![s] = d] /\ UNCHANGED <<ring, eos, reader>>
      BY <2>6 DEF CancelStore
    <3>2. HasState(d) /\ d.state = conv[s].state
      BY <1>1 DEF HasState
    <3> HIDE DEF d
    <3> QED
      BY <2>2, <3>1, <3>2
  <2> QED
    BY <1>3, <2>1, <2>3, <2>4, <2>5, <2>6 DEF Control
<1>4. ASSUME NEW s \in Slots, StreamRead(s) PROVE EndInv'
  <2>1. conv' = conv
    BY <1>4 DEF StreamRead, ReadDrain, ReadCheck, ReadLast
  <2>2. ASSUME NEW n \in 1 .. Len(ring[s]), Take(s, n) PROVE ~eos[s]
    BY <1>1, <2>2
  <2>3. /\ DOMAIN ring' = Slots /\ \A t \in Slots : ring'[t] = ring[t] \/ (t = s /\ ~eos[s])
    <3>1. CASE ring' = ring
      BY <1>1, <3>1
    <3>2. CASE \E n \in 1 .. Len(ring[s]) : Take(s, n)
      BY <1>1, <2>2, <3>2 DEF Take
    <3> QED
      BY <1>4, <3>1, <3>2 DEF StreamRead, ReadDrain, ReadCheck, ReadLast
  <2>4. eos' = eos \/ (eos' = [eos EXCEPT ![s] = TRUE] /\ ring[s] = << >> /\ ring' = ring /\ reader[s] = "last")
    BY <1>4 DEF StreamRead, ReadDrain, ReadCheck, ReadLast
  <2>5. \E x \in {"drain", "check", "last"} :
          (reader' = [reader EXCEPT ![s] = x] \/ reader' = reader) /\ (x = "last" => Terminal(s))
    BY <1>4 DEF StreamRead, ReadDrain, ReadCheck, ReadLast
  <2>6. /\ eos' \in [Slots -> BOOLEAN] /\ reader' \in [Slots -> {"drain", "check", "last"}]
    BY <1>1, <2>4, <2>5
  <2>7. ASSUME NEW t \in Slots PROVE reader'[t] = "last" => Terminal(t)'
    BY <1>1, <2>1, <2>5 DEF Terminal
  <2>8. ASSUME NEW t \in Slots, eos'[t] PROVE Terminal(t)' /\ ring'[t] = << >>
    <3>1. CASE eos[t]
      BY <1>1, <2>1, <2>3, <3>1 DEF Terminal
    <3>2. CASE ~eos[t]
      <4>1. t = s /\ ring[s] = << >> /\ ring' = ring /\ reader[s] = "last"
        BY <1>1, <2>4, <2>8, <3>2
      <4> QED
        BY <1>1, <2>1, <4>1 DEF Terminal
    <3> QED
      BY <3>1, <3>2
  <2>9. DOMAIN conv' = Slots /\ \A t \in Slots : HasState(conv'[t])
    BY <1>1, <2>1
  <2> QED
    BY <2>3, <2>6, <2>7, <2>8, <2>9 DEF EndInv, EndOfStream
<1>5. CASE UNCHANGED vars
  <2>1. UNCHANGED <<conv, ring, eos, reader>>
    BY <1>5 DEF vars
  <2> QED
    BY <1>1, <2>1 DEF EndInv, EndOfStream, Terminal
<1> QED
  BY <1>2, <1>3, <1>4, <1>5, StreamAssumption DEF Next

-----------------------------------------------------------------------------
(* The theorems *)

\* What the reader took, what is buffered and what is held make up the run, token
\* by token and fragment by fragment, and what the provider holds is the prompt
\* and the run in order, within the bounds of hold, ring and batch
\* (stream_hold_push, stream_hold_flush_ready, stream_flush_pending_emit,
\* conv_stream_read; the batch and its bookkeeping in executor_thread_fn), for
\* any number of slots, sizes, stop sequences and reader delays, as long as no
\* conv_decode lands between a tick's reset visits and its evaluation.
THEOREM StreamCorrect ==
  ~LateDecode /\ Spec => []StreamSound
<1> SUFFICES ASSUME ~LateDecode PROVE Spec => []StreamSound
  OBVIOUS
<1>1. IInv /\ [Next]_vars => IInv'
  BY NextKeeps
<1> QED
  BY <1>1, InitKeeps, InvSound, PTL DEF Spec

\* The provider's slot holds what the conversation fed and sampled, in order and
\* at the batch's positions, and nothing of an earlier run: session_slot_reset
\* before the batch, one sampled token or a share of the prompt per slot and tick,
\* and the bookkeeping of n_past, prompt_off and the chunk offsets after it; as
\* before, with no conv_decode between the reset visits and the evaluation.
THEOREM ContextCorrect ==
  ~LateDecode /\ Spec => []ContextFaithful
<1>1. StreamSound => ContextFaithful
  BY DEF StreamSound
<1> QED
  BY <1>1, StreamCorrect, PTL

\* conv_stream_read reports the end of the stream only when the run is over and
\* its whole output was read (the second drain after the state was seen), even if
\* conv_decode lands at any moment.
THEOREM StreamEnds ==
  Spec => []EndOfStream
<1>1. Init => EndInv
  BY FreshState DEF Init, EndInv, EndOfStream
<1>2. EndInv /\ [Next]_vars => EndInv'
  BY EndInvKept
<1>3. EndInv => EndOfStream
  BY DEF EndInv
<1> QED
  BY <1>1, <1>2, <1>3, PTL DEF Spec

=============================================================================
