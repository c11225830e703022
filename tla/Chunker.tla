------------------------------- MODULE Chunker -------------------------------
(***************************************************************************)
(* Splitting text and token runs into overlapping chunks (chunking.cpp),   *)
(* and the UTF-8 checks (utf8.cpp).  A byte is abstracted to its class:    *)
(* a letter, a blank, a sentence mark, a control byte below the blank, the *)
(* lead of a two-byte character, a continuation.  The emit loop takes one  *)
(* step per chunk.                                                         *)
(***************************************************************************)
EXTENDS Integers, Sequences, FiniteSets

CONSTANTS
  Texts,         \* the texts: sequences of byte classes
  ChunkDescs,    \* [mode, max, overlap, keepEmpty, room] records, room = max_ranges
  TokenCounts,   \* lengths of token runs
  CountBits,     \* width of the chunk counter
  SimdBlock      \* bytes a vector step looks at

VARIABLE ck

Classes == {"letter", "blank", "mark", "control", "lead", "cont"}

CKInit == ck = [pc |-> "idle"]

-----------------------------------------------------------------------------
(* Units.  Positions count bytes from 0; a unit is [b, e, ok].             *)

At(t, p) == t[p + 1]
IsSpace(c) == c = "blank"
\* a truncated character counts as one byte
Utf8Step(t, p) == IF At(t, p) = "lead" /\ Len(t) - p >= 2 THEN p + 2 ELSE p + 1
NoUnit(p) == [b |-> p, e |-> p, ok |-> FALSE]
Unit(b, e) == [b |-> b, e |-> e, ok |-> TRUE]

\* the first position from p on where the byte is (or is not) a blank
SkipTo(t, p, blank) ==
  CHOOSE q \in p .. Len(t) : /\ q = Len(t) \/ IsSpace(At(t, q)) = blank
                             /\ \A r \in p .. q - 1 : IsSpace(At(t, r)) # blank

NextChar(t, p) == IF p >= Len(t) THEN NoUnit(p) ELSE Unit(p, Utf8Step(t, p))

NextWord(t, p) ==
  LET b == SkipTo(t, p, FALSE) IN IF b >= Len(t) THEN NoUnit(b) ELSE Unit(b, SkipTo(t, b, TRUE))

\* characters up to and with the first sentence mark
NextSentence(t, p) ==
  LET b == SkipTo(t, p, FALSE)
      end[q \in 0 .. Len(t)] == IF q >= Len(t) THEN q
                                ELSE IF At(t, q) = "mark" THEN Utf8Step(t, q) ELSE end[Utf8Step(t, q)]
  IN  IF b >= Len(t) THEN NoUnit(b) ELSE Unit(b, end[b])

NextUnit(mode, t, p) == CASE mode = "char" -> NextChar(t, p) [] mode = "word" -> NextWord(t, p)
                          [] mode = "sentence" -> NextSentence(t, p)

-----------------------------------------------------------------------------
(* Chunks.                                                                 *)

DescValid(d) == d.max > 0 /\ d.overlap < d.max

\* the text modes of chunk_count and chunk_ranges
ChunkBegin(d, t) ==
  /\ ck.pc = "idle" /\ DescValid(d) /\ d.mode # "token"
  /\ ck' = [pc |-> "emit", d |-> d, text |-> t, pos |-> 0, required |-> 0, ranges |-> <<>>]

\* fill_text_range, when there is room for another range
Emitted(r) == IF Len(ck.ranges) < ck.d.room THEN Append(ck.ranges, r) ELSE ck.ranges
Counted(n) == (n + 1) % 2 ^ CountBits

\* where a chunk that starts with unit u ends, and where the next one starts:
\* scan is the position behind the last unit asked for; a failed look for a
\* unit moves it over the blanks in word mode only
Chunk(d, t, u) ==
  LET run[n \in 1 .. d.max] ==
        IF n = 1 THEN [scan |-> u.e, end |-> u.e, units |-> 1, again |-> u.b]
        ELSE LET s == run[n - 1]
                 v == NextUnit(d.mode, t, s.scan)
             IN  IF s.units < n - 1 THEN s
                 ELSE IF ~v.ok THEN [s EXCEPT !.scan = IF d.mode = "word" THEN v.e ELSE s.scan]
                 ELSE [scan |-> v.e, end |-> v.e, units |-> n,
                       again |-> IF d.overlap # 0 /\ n - 1 + d.overlap = d.max THEN v.b ELSE s.again]
  IN  run[d.max]

EmitChunk_FromScan ==
  LET d == ck.d
      t == ck.text
      u == NextUnit(d.mode, t, ck.pos)
      c == Chunk(d, t, u)
  IN  /\ ck.pc = "emit" /\ d.mode \in {"char", "word", "sentence"} /\ ck.pos < Len(t) /\ u.ok
      /\ ck' = [ck EXCEPT !.ranges = Emitted([b |-> u.b, e |-> c.end]), !.required = Counted(@),
                          !.pos = IF c.scan >= Len(t) THEN Len(t) ELSE c.scan + 1]

\* one turn of the emit loop
EmitChunk ==
  LET d == ck.d
      t == ck.text
      u == NextUnit(d.mode, t, ck.pos)
      c == Chunk(d, t, u)
  IN  /\ ck.pc = "emit" /\ d.mode \in {"char", "word", "sentence"} /\ ck.pos < Len(t) /\ u.ok
      /\ ck' = [ck EXCEPT !.ranges = Emitted([b |-> u.b, e |-> c.end]), !.required = Counted(@),
                          !.pos = CASE c.scan >= Len(t) -> Len(t) [] d.overlap # 0 -> c.again [] OTHER -> c.scan]

\* the whole text as one chunk
EmitWhole ==
  /\ ck.pc = "emit" /\ ck.d.mode = "none"
  /\ LET n == IF ck.text # <<>> \/ ck.d.keepEmpty THEN 1 ELSE 0
     IN  ck' = [ck EXCEPT !.pc = "done", !.required = n,
                          !.ranges = IF n = 1 THEN Emitted([b |-> 0, e |-> Len(ck.text)]) ELSE <<>>]

\* nothing is left, or only blanks
EmitEnd ==
  /\ ck.pc = "emit" /\ ck.d.mode \in {"char", "word", "sentence"}
  /\ ck.pos < Len(ck.text) => ~NextUnit(ck.d.mode, ck.text, ck.pos).ok
  /\ ck' = [ck EXCEPT !.pc = "done"]

\* token_chunk_count_fast
TokenChunkCount(d, n) ==
  CASE n = 0 -> 0 [] n > 0 /\ n <= d.max -> 1
    [] OTHER -> LET stride == d.max - d.overlap IN 1 + (n - d.max + stride - 1) \div stride

\* emit_token_chunks in one step
TokenChunks(d, n) ==
  LET count == TokenChunkCount(d, n)
      room  == IF count < d.room THEN count ELSE d.room
      begin(i) == (i - 1) * (d.max - d.overlap)
  IN  /\ ck.pc = "idle" /\ DescValid(d) /\ d.mode = "token"
      /\ ck' = [pc |-> "done", d |-> d, text |-> [i \in 1 .. n |-> "letter"], pos |-> n, required |-> count,
                ranges |-> [i \in 1 .. room |-> [b |-> begin(i), e |-> IF begin(i) + d.max > n THEN n ELSE begin(i) + d.max]]]

CKNext ==
  \/ \E d \in ChunkDescs : \/ \E t \in Texts : ChunkBegin(d, t)
                           \/ \E n \in TokenCounts : TokenChunks(d, n)
  \/ EmitChunk \/ EmitWhole \/ EmitEnd

\* the loop runs in the caller's thread and is never interrupted
CKFairness == WF_ck(EmitChunk \/ EmitWhole \/ EmitEnd)
CKSpec == CKInit /\ [][CKNext]_ck /\ CKFairness

-----------------------------------------------------------------------------
(* UTF-8: the scalar check, and the vector ones, which skip blocks of      *)
(* ASCII and leave the rest to the scalar check.                           *)

Ascii(c) == c \notin {"lead", "cont"}

\* validate
Validate(t) ==
  LET ok[p \in 0 .. Len(t)] ==
        \/ p = Len(t)
        \/ p < Len(t) /\ Ascii(At(t, p)) /\ ok[p + 1]
        \/ p + 1 < Len(t) /\ At(t, p) = "lead" /\ At(t, p + 1) = "cont" /\ ok[p + 2]
  IN  ok[0]

From(t, p) == SubSeq(t, p + 1, Len(t))
BlockAscii(t, p) == p + SimdBlock <= Len(t) /\ \A q \in p .. p + SimdBlock - 1 : Ascii(At(t, q))

\* validate_avx2; short inputs go to the scalar check
ValidateAvx2(t) ==
  LET from[p \in 0 .. Len(t)] == IF BlockAscii(t, p) THEN from[p + SimdBlock] ELSE Validate(From(t, p))
  IN  IF Len(t) < 2 * SimdBlock THEN Validate(t) ELSE from[0]

\* count_codepoints, by blocks and then byte by byte, and what it counts
CountCodepoints(t) ==
  LET count[p \in 0 .. Len(t)] ==
        IF p + SimdBlock <= Len(t)
        THEN count[p + SimdBlock] + SimdBlock - Cardinality({q \in p .. p + SimdBlock - 1 : At(t, q) = "cont"})
        ELSE Cardinality({q \in p .. Len(t) - 1 : At(t, q) # "cont"})
  IN  count[0]

-----------------------------------------------------------------------------
Busy == ck.pc # "idle"
Full == Busy /\ ck.d.room >= ck.required   \* no range was left out

\* The ranges lie in the text in order, each starts behind the last start and
\* ends behind the last end, and no byte but blanks is between two of them or
\* behind the last; token ranges end at the last token, and not before the last
\* range.  In valid text no chunk cuts a character.
ChunksSound ==
  Full => LET r == ck.ranges
              n == Len(r)
              t == ck.text
          IN  /\ \A i \in 1 .. n : 0 <= r[i].b /\ r[i].b <= r[i].e /\ r[i].e <= Len(t)
              /\ \A i \in 1 .. n - 1 : /\ r[i].b < r[i + 1].b
                                       /\ ck.d.mode \in {"char", "token"} => r[i].e < r[i + 1].e
                                       /\ \A p \in r[i].e .. r[i + 1].b - 1 : IsSpace(At(t, p))
              /\ ck.pc = "done" => /\ n = ck.required
                                   /\ \A p \in (IF n = 0 THEN 0 ELSE r[n].e) .. Len(t) - 1 : IsSpace(At(t, p))
              /\ Validate(t) => \A i \in 1 .. n : \A p \in {r[i].b, r[i].e} : p < Len(t) => At(t, p) # "cont"

\* The AVX2 check agrees with the scalar one, and valid text has as many
\* characters as char chunks of one.
Utf8Sound ==
  Busy => /\ ValidateAvx2(ck.text) = Validate(ck.text)
          /\ Full /\ ck.pc = "done" /\ ck.d.mode = "char" /\ ck.d.max = 1 /\ Validate(ck.text)
             => CountCodepoints(ck.text) = Len(ck.ranges)

\* The chunker and the text checks it rests on (chunking.cpp:298, utf8.cpp:64).
ChunkerFaithful == ChunksSound /\ Utf8Sound

\* Chunking a text ends: `out_count` receives the required range count.
ChunkReturns == ck.pc = "emit" ~> ck.pc = "done"
=============================================================================
