---------------------------- MODULE SnapshotFile ----------------------------
(***************************************************************************)
(* Saved memory indexes as bytes (memory_index_snapshot.cpp): memory_save  *)
(* writes the sections one after the other with a running cursor, while    *)
(* every reader computes the offsets from the header alone with            *)
(* memory_save_layout.  Between the two the file may be cut short, and a   *)
(* reader meets files of older versions.  Only the places of the data are  *)
(* modelled; MemoryIndex and MemoryGraph model what the data says.         *)
(***************************************************************************)
EXTENDS Integers, Sequences

CONSTANTS
  SnapIndexes,   \* the saved indexes: [kind, dim, count, graph]; graph is <<>>
                 \* or <<base neighbours, upper neighbours, levels>>
  OldVersions,   \* versions of files written by earlier releases (5 to 9)
  Align,         \* kVectorStorageAlign
  Cuts,          \* bytes that a shortened copy may lose
  Bases          \* addresses modulo Align of a caller's own copy of the bytes

VARIABLE sf   \* [file: the bytes on disk, view: the mapped view, held: what it
              \* owns, reads: what the last call read, aligned: it used the
              \* aligned kernels at these addresses, raw: codes read unclamped]

Header == 32   \* sizeof(SaveHeader)
Record == 32   \* sizeof(AstralMemoryRecord)
Current == 10  \* kSaveVersion

Compact(k) == k # "f32"
Rerank(k) == k \in {"q8r", "e2m3r", "e3m2r", "e5m2r"}
I16(k) == k \in {"e3m2", "e3m2r"}
E5m2(k) == k \in {"e5m2", "e5m2r"}
Aligned(at, a) == ((at + a - 1) \div a) * a

\* save_payload_align, save_graph_count_bytes, save_graph_header_bytes.
PayloadAlign(v) == IF v >= 10 THEN Align ELSE 1
CountBytes(v) == IF v >= 9 THEN 1 ELSE 4
GraphHeader(v) == IF v >= 7 THEN 32 ELSE 28
ElementBytes(k) == IF Compact(k) THEN (IF I16(k) THEN 2 ELSE 1) ELSE 4

NoGraph == <<0, 0, 0>>

-----------------------------------------------------------------------------
(* Writing.  A section is [what, bytes of one element, elements, aligned]. *)

Section(what, bytes, num, align) ==
  [what |-> what, bytes |-> bytes, num |-> num, align |-> align]

\* memory_save: the sections in the order of its loops (score scales came with
\* version 8, aligned payloads with version 10).
Sections(v, ix) ==
  LET n == ix.count
      a == PayloadAlign(v)
      G == ix.graph
  IN  <<Section("record", Record, n, 1)>>
      \o (IF Compact(ix.kind) THEN <<Section("scale", 4, n, 1)>> ELSE <<>>)
      \o (IF Compact(ix.kind) /\ v >= 8 THEN <<Section("score_scale", 4, n, 1)>> ELSE <<>>)
      \o <<Section("vector", ix.dim * ElementBytes(ix.kind), n, a)>>
      \o (IF Rerank(ix.kind) THEN <<Section("rerank", ix.dim * 4, n, a)>> ELSE <<>>)
      \o (IF G = <<>> THEN <<Section("end", 0, 1, a)>>
          ELSE <<Section("graph_header", GraphHeader(v), 1, a),
                 Section("level", 1, n, 1),
                 Section("links_count", CountBytes(v), n * G[3], 1),
                 Section("base_links", 4 * G[1], n, 1),
                 Section("upper_links", 4 * G[2], n * (G[3] - 1), 1)>>)

\* Where the cursor stands before section i: memory_save_skip_to fills the gap
\* to an aligned section with zeros.
Cursor(secs) ==
  LET at[i \in 1 .. Len(secs)] ==
        IF i = 1 THEN Header
        ELSE Aligned(at[i - 1] + secs[i - 1].bytes * secs[i - 1].num, secs[i].align)
  IN  at

\* Every element written: [what, pos, at, bytes].
WrittenBy(v, ix) ==
  LET secs == Sections(v, ix)
      at == Cursor(secs)
  IN  UNION { { [what |-> secs[i].what, pos |-> p, bytes |-> secs[i].bytes,
                 at |-> at[i] + p * secs[i].bytes] : p \in 0 .. secs[i].num - 1 } :
              i \in DOMAIN secs }

WrittenBytes(v, ix) ==
  LET secs == Sections(v, ix)
      last == Len(secs)
  IN  Cursor(secs)[last] + secs[last].bytes * secs[last].num

NoFile == [version |-> 0, len |-> 0]
NoView == [version |-> 0]

FileOf(v, ix, odd) ==
  [version |-> v, ix |-> ix, len |-> WrittenBytes(v, ix), odd |-> odd]

-----------------------------------------------------------------------------
(* Reading. *)

\* memory_save_layout_impl for versions 5 and later.
Layout(v, ix, G) ==
  LET n == ix.count
      a == PayloadAlign(v)
      stride == ix.dim * ElementBytes(ix.kind)
      scale == Header + n * Record
      score == scale + n * 4
      vector == Aligned(IF ~Compact(ix.kind) THEN scale
                        ELSE IF v >= 8 THEN score + n * 4 ELSE score, a)
      rerank == Aligned(vector + n * stride, a)
      graph == Aligned(IF Rerank(ix.kind) THEN rerank + n * ix.dim * 4
                       ELSE vector + n * stride, a)
      bytes == IF G[2] = 0 \/ G[3] = 0 THEN 0
               ELSE GraphHeader(v) + n + n * G[3] * CountBytes(v)
                    + 4 * (n * G[1] + n * (G[3] - 1) * G[2])
  IN  [record |-> Header, scale |-> scale, score_scale |-> IF v >= 8 THEN score ELSE 0,
       vector |-> vector, stride |-> stride, rerank |-> rerank,
       graph |-> graph, total |-> graph + bytes]

SavedGraph(ix) == IF ix.graph = <<>> THEN NoGraph ELSE ix.graph

\* memory_snapshot_info_bytes checks the length three times: the header, the
\* payload, and the whole with the topology that the graph header announces.
Accepted_PayloadOnly(f) == f.len >= Header /\ f.len >= Layout(f.version, f.ix, NoGraph).graph

Accepted(f) ==
  LET payload == Layout(f.version, f.ix, NoGraph)
  IN  /\ f.len >= Header
      /\ f.len >= payload.graph
      /\ (f.ix.graph # <<>> => f.len >= payload.graph + GraphHeader(f.version))
      /\ f.len >= Layout(f.version, f.ix, SavedGraph(f.ix)).total

Read(what, pos, at, bytes) == [what |-> what, pos |-> pos, at |-> at, bytes |-> bytes]

\* snapshot_record_ptr, snapshot_stored_scale, snapshot_compact_score_scale,
\* snapshot_vector_ptr, snapshot_score_vector_ptr.
RecordRead(L, p) == Read("record", p, L.record + p * Record, Record)
ScaleRead(L, p) == Read("scale", p, L.scale + p * 4, 4)
ScoreScaleRead(L, p) == Read("score_scale", p, L.score_scale + p * 4, 4)
VectorRead(L, p) == Read("vector", p, L.vector + p * L.stride, L.stride)
RerankRead(L, ix, p) == Read("rerank", p, L.rerank + p * ix.dim * 4, ix.dim * 4)

\* snapshot_score_active.
ScoreReads(f, L, p) ==
  IF Rerank(f.ix.kind) THEN {RerankRead(L, f.ix, p)}
  ELSE IF Compact(f.ix.kind) THEN {ScaleRead(L, p), VectorRead(L, p)}
  ELSE {VectorRead(L, p)}

\* snapshot_graph_score_active: the reranked kinds route on their compact form,
\* but for e2m3, which scores the float vectors at once.
GraphScoreReads(f, L, p) ==
  IF f.ix.kind \in {"q8r", "e3m2r", "e5m2r"}
  THEN {ScaleRead(L, p), VectorRead(L, p)}
       \cup (IF f.version >= 8 THEN {ScoreScaleRead(L, p)} ELSE {})
  ELSE ScoreReads(f, L, p)

\* snapshot_graph_layout and the accessors of the topology: levels, counts, and
\* the links of every level.
GraphReads(f, L) ==
  LET v == f.version
      n == f.ix.count
      G == f.ix.graph
      levels == L.graph + GraphHeader(v)
      counts == levels + n
      links == counts + n * G[3] * CountBytes(v)
      P == 0 .. n - 1
  IN  {Read("graph_header", 0, L.graph, GraphHeader(v))}
      \cup { Read("level", p, levels + p, 1) : p \in P }
      \cup { Read("links_count", l * n + p, counts + (l * n + p) * CountBytes(v), CountBytes(v)) :
             l \in 0 .. G[3] - 1, p \in P }
      \cup { Read("base_links", p, links + p * 4 * G[1], 4 * G[1]) : p \in P }
      \cup { Read("upper_links", (l - 1) * n + p,
                  links + 4 * (n * G[1] + ((l - 1) * n + p) * G[2]), 4 * G[2]) :
             l \in 1 .. G[3] - 1, p \in P }

\* The topology is used when it has an entry node, which an empty index lacks.
GraphUsable(f) == f.ix.graph # <<>> /\ f.ix.count > 0

\* snapshot_e5m2_requires_clamp: some stored code is not finite.
NeedsClamp(f) == E5m2(f.ix.kind) /\ f.odd

\* snapshot_prepare_query: the aligned kernels run when the data of an aligned
\* version lies at an aligned address with an aligned stride.
UsesAligned(f, L, base) ==
  /\ Compact(f.ix.kind) /\ f.version >= 10
  /\ L.stride % Align = 0 /\ (base + L.vector) % Align = 0

\* memory_snapshot_search_with_info: every record of the file is read, and the
\* ones of the wanted groups are scored.
FlatReads(f, L) ==
  { RecordRead(L, p) : p \in 0 .. f.ix.count - 1 }
  \cup UNION { ScoreReads(f, L, p) : p \in 0 .. f.ix.count - 1 }

\* memory_snapshot_view_search_graph: topology, compact scores on the way, and
\* the exact scores of what is returned.
RoutedReads(f, L) ==
  GraphReads(f, L)
  \cup { RecordRead(L, p) : p \in 0 .. f.ix.count - 1 }
  \cup UNION { GraphScoreReads(f, L, p) \cup ScoreReads(f, L, p) : p \in 0 .. f.ix.count - 1 }

\* What a view holds; its search scratch is had whole or not at all
\* (snapshot_graph_scratch_alloc).
Owned(ready) == {"map", "view"} \cup (IF ready THEN {"scratch"} ELSE {})

-----------------------------------------------------------------------------
SFInit == sf = [file |-> NoFile, view |-> NoView, held |-> {}, reads |-> {},
                aligned |-> {}, raw |-> FALSE]

\* memory_save into a buffer of the size that memory_save_size reported, or one
\* of another length, which is refused before a byte is written.
SaveIndex(ix, room) ==
  /\ sf.file = NoFile
  /\ room >= Layout(Current, ix, SavedGraph(ix)).total
  /\ sf' = [sf EXCEPT !.file = [FileOf(Current, ix, FALSE) EXCEPT !.len = room], !.reads = {}]

\* A file of an earlier release (external): the same sections, its versions'
\* sizes, and codes that later quantizers would not produce.
OldFile(v, ix, odd) ==
  /\ sf.file = NoFile
  /\ sf' = [sf EXCEPT !.file = FileOf(v, ix, odd), !.reads = {}]

\* A copy that ended early (external).
CutFile(n) ==
  /\ sf.view = NoView /\ sf.file # NoFile
  /\ sf.file.len = WrittenBytes(sf.file.version, sf.file.ix)
  /\ sf' = [sf EXCEPT !.file.len = @ - n, !.reads = {}]

\* memory_snapshot_map: map the file, check it, look for codes to clamp, take
\* the topology if it is whole and its scratch can be had, register the view;
\* each failure gives back what was acquired before it.
MapSnapshot(scratch, registered) ==
  LET f == sf.file
      L == Layout(f.version, f.ix, SavedGraph(f.ix))
      ready == GraphUsable(f) /\ scratch
  IN  /\ sf.view = NoView /\ f # NoFile
      /\ sf' = IF ~Accepted(f) THEN [sf EXCEPT !.reads = {}]
               ELSE [sf EXCEPT
                 !.reads = (IF f.ix.graph # <<>> THEN GraphReads(f, L) ELSE {})
                           \cup (IF E5m2(f.ix.kind)
                                 THEN { VectorRead(L, p) : p \in 0 .. f.ix.count - 1 } ELSE {}),
                 !.held = IF registered THEN Owned(ready) ELSE {},
                 !.view = IF registered
                          THEN [version |-> f.version, layout |-> L, ready |-> ready,
                                clamp |-> NeedsClamp(f)]
                          ELSE NoView]

\* memory_snapshot_unmap.
UnmapSnapshot ==
  /\ sf.view # NoView
  /\ sf' = [sf EXCEPT !.view = NoView, !.reads = {}, !.aligned = {}, !.raw = FALSE,
                      !.held = @ \ Owned(sf.view.ready)]

\* What one search leaves behind: its reads, the addresses given to an aligned
\* kernel, and whether it decoded codes without the clamp.
Searched(f, L, base, reads, clamp) ==
  [sf EXCEPT !.reads = reads,
             !.aligned = IF UsesAligned(f, L, base)
                         THEN { base + r.at : r \in { q \in reads : q.what = "vector" } } ELSE {},
             !.raw = E5m2(f.ix.kind) /\ ~clamp]

\* memory_snapshot_view_search: graph views route all-group searches unless a
\* scan is cheaper (snapshot_compact_graph_exact_search_preferred).
ViewSearch(anyGroup, small) ==
  LET f == sf.file
      routed == f.ix.graph # <<>> /\ sf.view.ready /\ anyGroup /\ ~(Compact(f.ix.kind) /\ small)
  IN  /\ sf.view # NoView
      /\ sf' = Searched(f, sf.view.layout, 0,
                        IF routed THEN RoutedReads(f, sf.view.layout)
                        ELSE FlatReads(f, sf.view.layout), sf.view.clamp)

\* memory_snapshot_search over the caller's bytes, wherever they lie.
SpanSearch(base) ==
  LET f == sf.file
      L == Layout(f.version, f.ix, SavedGraph(f.ix))
  IN  /\ sf.view = NoView /\ f # NoFile /\ Accepted(f)
      /\ sf' = Searched(f, L, base, FlatReads(f, L), TRUE)

SFNext ==
  \/ \E ix \in SnapIndexes, n \in Cuts \cup {0} : SaveIndex(ix, WrittenBytes(Current, ix) - n)
  \/ \E v \in OldVersions, ix \in SnapIndexes, odd \in BOOLEAN : OldFile(v, ix, odd)
  \/ \E n \in Cuts : CutFile(n)
  \/ \E scratch, registered \in BOOLEAN : MapSnapshot(scratch, registered)
  \/ UnmapSnapshot
  \/ \E anyGroup, small \in BOOLEAN : ViewSearch(anyGroup, small)
  \/ \E base \in Bases : SpanSearch(base)

SFSpec == SFInit /\ [][SFNext]_sf

-----------------------------------------------------------------------------
(* Properties. *)

\* Whatever a search or a mapping reads by offsets computed from the header is
\* an element that the writer's cursor put exactly there, inside the bytes the
\* file still has: a shortened file is refused rather than read past its end.
ReadsWhatWasWritten ==
  LET written == IF sf.reads = {} THEN {} ELSE WrittenBy(sf.file.version, sf.file.ix)
  IN  \A r \in sf.reads :
      /\ r.at + r.bytes <= sf.file.len
      /\ r \in written

\* The aligned kernels get aligned addresses only, codes that are not finite are
\* never decoded unclamped, and a view that is gone owns nothing.
SnapshotSound ==
  /\ ReadsWhatWasWritten
  /\ \A at \in sf.aligned : at % Align = 0
  /\ (sf.raw => ~sf.file.odd)
  /\ (sf.view = NoView <=> sf.held = {})
=============================================================================
