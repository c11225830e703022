--------------------------- MODULE MCInference ---------------------------
(* What inference is made of: two conversations on the executor, agents    *)
(* and their histories, the prompt cache, the memory index with its graph  *)
(* and its files, the embedder, the chunker and tool calls.  They share no *)
(* variable, so their product would show nothing that they do not show one *)
(* by one: a behaviour moves the one component that its first state picks, *)
(* and the others stay as they began.  What one of them asks of another is *)
(* in its own module.                                                      *)
EXTENDS AgentSlots, BatchExecutor, PromptCache, Embedder

CONSTANTS th1, th2,                         \* threads
          k1, k2, k3,                       \* keys of the prompt cache
          Roles, MaxMessages, MaxPromptBytes, Reserve, TruncateOldest, MaxCached,
          IndexKeys, IndexCapacity, TableSize, Groups, Vectors, Queries, Bad, Nil,
          NodeKeys, NewKeys, GraphCapacity, MaxLevel, NeighborCap, BuildCap, QueryCaps, CandidateReserve,
          GenBits, GraphQueries, GraphKinds, CodeStep, RerankMin, RerankTimes, ExactCount,
          OldVersions, Align, Cuts, Bases,
          TokenCounts, CountBits, SimdBlock,
          ToolNames, OtherNames

VARIABLES part,
          agent, said, pcached, file,
          mi, recs,
          g, sf, ck, tc

TwoThreads == {th1, th2}
NoSlots    == {}

\* three agents of one control thread, the third bound to the only slot
OneThread == [x \in Agents |-> "control"]
Affinity  == [x \in Agents |-> IF x = "a3" THEN 1 ELSE 0]

\* two of the three keys collide
CacheKeySet == {k1, k2, k3}
CacheHash   == [k \in CacheKeySet |-> IF k = k3 THEN 3 ELSE 2]

Texts == [t \in {"system", "summary", "memory"} |-> IF t = "system" THEN {<<>>, <<"x">>} ELSE {<<>>}]
Messages == {<<"x">>, <<"y", "z">>}
Excerpts == <<[begin |-> 1, end |-> 3], [begin |-> 0, end |-> 0], [begin |-> 0, end |-> 1]>>
Sources ==
  {[text |-> <<"x", "y", "z">>, chunks |-> [c \in 0 .. 2 |-> Excerpts[c + 1]], results |-> <<0, 1, 2>>,
    separator |-> <<"-">>, max |-> 4]}

\* three of the four record keys collide at the end of the key table
RecordOf(k, grp, v) == [key |-> k, group |-> grp, vec |-> v]
RecordHash == [k \in IndexKeys |-> IF k = 3 THEN 0 ELSE 7]
RecordBatches ==
  {<<RecordOf(1, 1, 2)>>, <<RecordOf(2, 2, 1), RecordOf(2, 1, 2)>>,
   <<RecordOf(4, 1, 1), RecordOf(2, 1, 1), RecordOf(4, 2, 2)>>, <<RecordOf(3, 1, 1), RecordOf(2, 1, Bad)>>}
RecordUpdates == {RecordOf(3, 1, 1)}

NodeLevel  == [k \in NodeKeys |-> IF k = 1 THEN 2 ELSE 1]
NodeVector == [k \in NodeKeys |-> {k}]

SavedIndexes ==
  [kind : {"f32", "q8", "q8r", "e2m3r", "e3m2", "e3m2r", "e5m2", "e5m2r"},
   dim : {3, 32}, count : {0, 3}, graph : {<<>>, <<2, 1, 2>>}]

ChunkDesc(mode, max, overlap, keepEmpty, room) ==
  [mode |-> mode, max |-> max, overlap |-> overlap, keepEmpty |-> keepEmpty, room |-> room]
ChunkTexts ==
  UNION {[1 .. n -> {"letter", "blank", "mark", "lead", "cont"}] : n \in 0 .. 3}
Descs ==
  {ChunkDesc("none", 1, 0, FALSE, 8), ChunkDesc("none", 1, 0, TRUE, 8), ChunkDesc("char", 1, 0, FALSE, 8),
   ChunkDesc("char", 2, 1, FALSE, 8), ChunkDesc("char", 2, 1, FALSE, 1), ChunkDesc("word", 2, 0, FALSE, 8),
   ChunkDesc("word", 2, 1, FALSE, 8), ChunkDesc("sentence", 2, 0, FALSE, 8), ChunkDesc("token", 1, 0, FALSE, 8),
   ChunkDesc("token", 3, 1, FALSE, 8), ChunkDesc("token", 3, 2, FALSE, 8), ChunkDesc("token", 2, 1, FALSE, 1)}

Outputs ==
  UNION {[1 .. n -> {"a", "x", "badname", "args:", "args", "str", "{", "}"}] : n \in 1 .. 3}
  \cup {<<"{">> \o middle \o <<"}">> : middle \in [1 .. 5 -> {"a", "b", "args:", "{", "}"}]}

AH == INSTANCE AgentHistory WITH TextChoices <- Texts, MessageTexts <- Messages, Documents <- Sources
MI == INSTANCE MemoryIndex WITH KeyHash <- RecordHash, Batches <- RecordBatches, Updates <- RecordUpdates
MG == INSTANCE MemoryGraph WITH KeyLevel <- NodeLevel, KeyVector <- NodeVector
SF == INSTANCE SnapshotFile WITH SnapIndexes <- SavedIndexes
CK == INSTANCE Chunker WITH Texts <- ChunkTexts, ChunkDescs <- Descs
TC == INSTANCE ToolCalls WITH ToolTexts <- Outputs

historyVars == <<agent, said, pcached, file>>
indexVars   == <<mi, recs>>

Parts == {"executor", "agents", "history",
          "prompt cache", "index", "graph", "snapshot", "embedder", "chunker", "tool calls"}

\* all parts but p stand still
OnlyMoves(p) ==
  /\ UNCHANGED part
  /\ IF p = "executor" THEN TRUE ELSE UNCHANGED vars
  /\ IF p = "agents" THEN TRUE ELSE UNCHANGED asVars
  /\ IF p = "history" THEN TRUE ELSE UNCHANGED historyVars
  /\ IF p = "prompt cache" THEN TRUE ELSE UNCHANGED pcache
  /\ IF p = "index" THEN TRUE ELSE UNCHANGED indexVars
  /\ IF p = "graph" THEN TRUE ELSE UNCHANGED g
  /\ IF p = "snapshot" THEN TRUE ELSE UNCHANGED sf
  /\ IF p = "embedder" THEN TRUE ELSE UNCHANGED emVars
  /\ IF p = "chunker" THEN TRUE ELSE UNCHANGED ck
  /\ IF p = "tool calls" THEN TRUE ELSE UNCHANGED tc

INInit ==
  /\ part \in Parts
  /\ ASInit
  /\ Init /\ AH!AHInit /\ MI!MIInit
  /\ SF!SFInit /\ EMInit /\ CK!CKInit /\ TC!TCInit
  /\ IF part = "graph" THEN MG!MGInit ELSE g = MG!EmptyGraph("f32")
  /\ IF part = "prompt cache" THEN PCInit ELSE pcache = NoCache

INNext ==
  \/ part = "executor" /\ Next /\ OnlyMoves("executor")
  \/ part = "agents" /\ ASNext /\ OnlyMoves("agents")
  \/ part = "history" /\ AH!AHNext /\ OnlyMoves("history")
  \/ part = "prompt cache" /\ PCNext /\ OnlyMoves("prompt cache")
  \/ part = "index" /\ MI!MINext /\ OnlyMoves("index")
  \/ part = "graph" /\ MG!MGNext /\ OnlyMoves("graph")
  \/ part = "snapshot" /\ SF!SFNext /\ OnlyMoves("snapshot")
  \/ part = "embedder" /\ EMNext /\ OnlyMoves("embedder")
  \/ part = "chunker" /\ CK!CKNext /\ OnlyMoves("chunker")
  \/ part = "tool calls" /\ TC!TCNext /\ OnlyMoves("tool calls")

inVars == <<part, vars, asVars, historyVars, pcache, indexVars, g, sf, emVars, ck, tc>>

INSpec == INInit /\ [][INNext]_inVars

\* AgentHistory: the model is fed the prompt that the agent's texts and messages
\* call for, whichever part came from the prompt cache, and the records still
\* spell the messages after truncating, saving and loading (agent.cpp).
PromptFaithful == part = "history" => AH!PromptFaithful

\* MemoryIndex: the key table, the dense slots and the search kernels all answer
\* as the records the caller has stored (memory_index.cpp).
IndexFaithful == part = "index" => MI!IndexFaithful

\* MemoryGraph: the neighbour lists stay within their capacity and in the layer,
\* removed nodes are in none, both walks, of the live graph and of its snapshot,
\* find what their scores promise, and their results agree as far as the storage
\* kind lets them (memory_index_graph.cpp, memory_index_snapshot.cpp).
GraphRoutes == part = "graph" => MG!GraphRoutes

\* SnapshotFile: a view reads only bytes of the section that was written there,
\* whatever version, alignment or truncation the file has, gives the aligned
\* kernels aligned addresses and frees what it owns (memory_index_snapshot.cpp).
SnapshotSound == part = "snapshot" => SF!SnapshotSound

\* Chunker: the ranges are in order, inside the text and on boundaries of the
\* mode's units, nothing but blanks is left out, and the vector scans agree with
\* the scalar ones (chunking.cpp, utf8.cpp).
ChunkerFaithful == part = "chunker" => CK!ChunkerFaithful

\* ToolCalls: the reported call is in the text, and a well-formed call at the top
\* level is the one reported (tooling.cpp).
ToolCallsFaithful == part = "tool calls" => TC!ToolCallsFaithful
=============================================================================
