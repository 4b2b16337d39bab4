------------------------------ MODULE Curation ------------------------------
(***************************************************************************)
(* From a transcript to a shared memory, on one node: a session is         *)
(* ingested (internal/ingest) into messages, chunks and candidates; a      *)
(* candidate is approved or rejected, or chunks are promoted, into private *)
(* memories; a private memory is published as a shared one                 *)
(* (internal/memory: candidates.go, retrieval_units.go).                   *)
(*                                                                         *)
(* Every operation is one transaction of memoryd, and any client may call  *)
(* any of them again, after a lost answer for instance.  A chunk or memory *)
(* enters with its retrieval unit and its queue rows, in that transaction: *)
(* what becomes of them is the subject of IndexQueue.                      *)
(***************************************************************************)
EXTENDS Naturals, Sequences, FiniteSets

CONSTANTS
    Sessions,
    Namespaces,
    Artifacts,    \* what artifactPattern finds in a text
    LocalFiles,   \* the artifacts that are paths or file:// URIs
    None,         \* no artifact, no namespace
    Requests,     \* what clients send to IngestSession
    Promotions,   \* what they send to Promote
    MaxMemories   \* bound: no memory is made beyond that number

\* What a content is to the code that reads it: the kind detectChunkKind sees,
\* whether it contradicts, the artifact it mentions.
Kinds == {"decision", "rationale", "task_candidate", "debug_trace", "qa_pair"}
Contents == [kind : Kinds, contradicts : BOOLEAN, artifact : Artifacts \cup {None}]
Messages == [role : {"user", "assistant"}, content : Contents]

\* Messages are numbered within their session, and so are chunks.
ChunkIds == Sessions \X Nat

IsText(t) == DOMAIN t \subseteq Nat /\ \A i \in DOMAIN t : t[i] \in Messages

ASSUME ConstantsAssumption ==
    /\ None \notin Artifacts \cup Namespaces
    /\ LocalFiles \subseteq Artifacts
    /\ \A r \in Requests : /\ r.session \in Sessions /\ r.ns \in Namespaces
                           /\ IsText(r.msgs) /\ r.msgs # <<>>
    /\ \A r \in Promotions : r.chunks \in Seq(ChunkIds) /\ r.ns \in Namespaces
    /\ MaxMemories \in Nat

VARIABLES
    messages,     \* messages[s]: transcript_messages of s, by seq
    chunks,       \* transcript_chunks by id: [text, kind, ns]
    candidates,   \* memory_candidates by the id of their one chunk
    refs,         \* refs[a]: local_namespace of a in private_artifact_refs
    memories,     \* private_memory_nodes and memory_nodes, as they were made
    promoted,     \* transcript_promotions: <<chunk id, memory>>
    edges,        \* private_memory_edges: <<from, to, relation_type>>
    published     \* memory_publications: <<private memory, shared memory>>

vars == <<messages, chunks, candidates, refs, memories, promoted, edges, published>>

Over(f, g) == [x \in DOMAIN f \cup DOMAIN g |-> IF x \in DOMAIN f THEN f[x] ELSE g[x]]

(***************************************************************************)
(* Session ingest.                                                         *)
(***************************************************************************)

\* The seqs buildChunks begins a chunk at: every message of the user, and every
\* message before the first of them.
Starts(msgs) ==
    {i \in DOMAIN msgs :
        msgs[i].role = "user" \/ \A j \in DOMAIN msgs : j < i => msgs[j].role # "user"}

\* The messages of the chunk that begins at i.
Turn(msgs, i) ==
    [k \in {k \in DOMAIN msgs : k >= i /\ \A j \in Starts(msgs) : j <= k => j <= i} |-> msgs[k]]

Position(msgs, i) == Cardinality({j \in Starts(msgs) : j <= i})

\* detectChunkKind: the first of the kinds, in this order, that the text shows.
DetectKind(text) ==
    LET shown == {text[k].content.kind : k \in DOMAIN text}
    IN  CASE "decision" \in shown       -> "decision"
          [] "rationale" \in shown      -> "rationale"
          [] "task_candidate" \in shown -> "task_candidate"
          [] "debug_trace" \in shown    -> "debug_trace"
          [] OTHER                      -> "qa_pair"

\* The id of a chunk changes with the message it ends at.
ChunkId_ByContent(s, msgs, i) == <<s, 10 * Position(msgs, i) + Cardinality(DOMAIN Turn(msgs, i))>>

ChunkId(s, msgs, i) == <<s, Position(msgs, i)>>

\* buildChunks, for the messages a session has after the request.
BuildChunks(r, msgs) ==
    [c \in {ChunkId(r.session, msgs, i) : i \in Starts(msgs)} |->
        LET i == CHOOSE i \in Starts(msgs) : ChunkId(r.session, msgs, i) = c
            text == Turn(msgs, i)
        IN  [text |-> text, kind |-> DetectKind(text), ns |-> r.ns]]

\* A chunk that has grown is written over.
InsertChunks_Overwrite(old, built) == Over(built, old)

\* ON CONFLICT(chunk_id) DO NOTHING
InsertChunks(old, built) == Over(old, built)

Mentioned(text) == {text[k].content.artifact : k \in DOMAIN text} \ {None}

Pending(chunk) == [status |-> "pending", ns |-> chunk.ns, type |-> chunk.kind, memory |-> 0]

\* Every chunk of the session is gone through again, whatever its candidate is.
Nominated_Again(built, new) ==
    Over([c \in {c \in DOMAIN built : built[c].kind # "qa_pair"} |-> Pending(built[c])], candidates)

\* upsertPromotionCandidate, for the chunks that were inserted just now.
Nominated(built, new) ==
    Over(candidates, [c \in {c \in new : built[c].kind # "qa_pair"} |-> Pending(built[c])])

\* upsertMessages refuses a seq that comes back with another content.
Reused(r) ==
    \E i \in DOMAIN r.msgs \cap DOMAIN messages[r.session] :
        r.msgs[i].content # messages[r.session][i].content

\* IngestSession: messages, chunks of the whole session, and for each chunk
\* that is new its artifacts and its candidate.
Ingest(r) ==
    LET msgs  == Over(r.msgs, messages[r.session])
        built == BuildChunks(r, msgs)
        new   == DOMAIN built \ DOMAIN chunks
    IN  /\ ~Reused(r)
        /\ messages' = [messages EXCEPT ![r.session] = msgs]
        /\ chunks' = InsertChunks(chunks, built)
        /\ refs' = [a \in Artifacts |->
                       IF \E c \in new : a \in Mentioned(built[c].text) THEN r.ns ELSE refs[a]]
        /\ candidates' = Nominated(built, new)
        /\ UNCHANGED <<memories, promoted, edges, published>>

(***************************************************************************)
(* Promotion.                                                              *)
(***************************************************************************)
SessionsOf(ids) == {ids[i][1] : i \in DOMAIN ids}

\* inferPromotionRelationType
RelationTypes(ids) ==
    LET texts == {chunks[ids[i]].text : i \in DOMAIN ids}
    IN  IF \E t \in texts : \E k \in DOMAIN t : t[k].content.contradicts
        THEN {"contradicts"}
        ELSE IF \E i \in DOMAIN ids :
                    chunks[ids[i]].kind \in {"rationale", "debug_trace", "task_candidate"}
        THEN {"supports"} ELSE {}

\* Decisions of every session are related to.
RelationTargets_AnySession(ids) ==
    {m \in DOMAIN memories : memories[m].type = "decision" /\ \E e \in promoted : e[2] = m}

\* The decisions promoted earlier from one of the sessions.
RelationTargets(ids) ==
    {m \in DOMAIN memories :
        /\ memories[m].type = "decision"
        /\ \E e \in promoted : e[2] = m /\ e[1][1] \in SessionsOf(ids)}

\* The URIs loadTranscriptArtifactInputs finds: those whose reference is in the
\* namespace of the request.
KnownArtifacts(ids, ns) ==
    {a \in UNION {Mentioned(chunks[ids[i]].text) : i \in DOMAIN ids} : refs[a] = ns}

\* promoteTx: the private memory with the chunks' texts for its body, related
\* to the decisions of their sessions and linked to each of them.  The properties
\* tell by its 'via' which request made it; its author, its subject and a source
\* the client gives it are left out.
PromoteTx(ids, ns, type, via) ==
    LET new == Len(memories) + 1
        known == KnownArtifacts(ids, ns)
    IN  /\ Len(memories) < MaxMemories
        /\ ids # <<>>
        /\ \A i \in DOMAIN ids : ids[i] \in DOMAIN chunks
        /\ \E uri \in (IF known = {} THEN {None} ELSE known) :
               memories' = Append(memories,
                   [space |-> "private", ns |-> ns, type |-> type, via |-> via,
                    body |-> [i \in DOMAIN ids |-> chunks[ids[i]].text],
                    redaction |-> "none", source |-> uri])
        /\ edges' = edges \cup
               {<<new, m, t>> : m \in RelationTargets(ids), t \in RelationTypes(ids)}
        /\ promoted' = promoted \cup {<<ids[i], new>> : i \in DOMAIN ids}
        /\ UNCHANGED <<messages, chunks, refs, published>>

\* Promote, with a type of the client's choice.
Promote(r, type) ==
    /\ PromoteTx(r.chunks, r.ns, type, "promotion")
    /\ UNCHANGED candidates

Reviewed(c, status, m) == [candidates EXCEPT ![c].status = status, ![c].memory = m]

\* The memory is committed before the candidate is marked, by another
\* transaction.
Approve_TwoTransactions(c, ns, type) ==
    /\ candidates[c].status = "pending"
    /\ PromoteTx(<<c>>, ns, type, "review")
    /\ \/ candidates' = Reviewed(c, "approved", Len(memories) + 1)
       \/ UNCHANGED candidates

\* ApproveCandidate, with the candidate's namespace and type or those of the
\* client: promoteTx and markCandidateApprovedTx in one transaction.
Approve(c, ns, type) ==
    /\ candidates[c].status = "pending"
    /\ PromoteTx(<<c>>, ns, type, "review")
    /\ candidates' = Reviewed(c, "approved", Len(memories) + 1)

\* RejectCandidate
Reject(c) ==
    /\ candidates[c].status = "pending"
    /\ candidates' = Reviewed(c, "rejected", 0)
    /\ UNCHANGED <<messages, chunks, refs, memories, promoted, edges, published>>

(***************************************************************************)
(* Publication.                                                            *)
(***************************************************************************)

\* redactSourceURI
RedactedSource(uri, policy) == IF policy = "strict" \/ uri \in LocalFiles THEN None ELSE uri

\* The shared memory's link is written with its ends exchanged.
Link_Exchanged(p, s) == <<s, p>>

Link(p, s) == <<p, s>>

\* Publish: a new shared memory with the private one's texts, redacted; no
\* artifact and no relation comes along.
Publish(p, policy) ==
    LET m == memories[p]
    IN  /\ Len(memories) < MaxMemories
        /\ m.space = "private"
        /\ memories' = Append(memories,
               [m EXCEPT !.space = "shared", !.redaction = policy,
                         !.source = RedactedSource(m.source, policy)])
        /\ published' = published \cup {Link(p, Len(memories) + 1)}
        /\ UNCHANGED <<messages, chunks, candidates, refs, promoted, edges>>

(***************************************************************************)
(* The specification.                                                      *)
(***************************************************************************)
Init ==
    /\ messages = [s \in Sessions |-> <<>>]
    /\ chunks = <<>> /\ candidates = <<>>
    /\ refs = [a \in Artifacts |-> None]
    /\ memories = <<>>
    /\ promoted = {} /\ edges = {} /\ published = {}

Next ==
    \/ \E r \in Requests : Ingest(r)
    \/ \E r \in Promotions, type \in {"note", "decision"} : Promote(r, type)
    \/ \E c \in DOMAIN candidates :
           \/ \E ns \in Namespaces, type \in {candidates[c].type, "note", "decision"} :
                  Approve(c, ns, type)
           \/ Reject(c)
    \/ \E p \in DOMAIN memories, policy \in {"default", "strict"} : Publish(p, policy)

Spec == Init /\ [][Next]_vars

\* What a client may send and IngestSession does not ask for: a session from
\* its first message on, and each message with the same role every time.
SentFromTheStart ==
    \A r, q \in Requests : r.session = q.session =>
        \A i \in DOMAIN r.msgs, j \in DOMAIN q.msgs :
            /\ j <= i => j \in DOMAIN r.msgs
            /\ i = j /\ r.msgs[i].content = q.msgs[i].content => r.msgs[i].role = q.msgs[i].role

(***************************************************************************)
(* Properties.                                                             *)
(***************************************************************************)
PrivateMemories == {m \in DOMAIN memories : memories[m].space = "private"}
SharedMemories  == {m \in DOMAIN memories : memories[m].space = "shared"}

\* Every variable has its type and every link has both its ends.
TypeOK ==
    /\ DOMAIN messages = Sessions /\ \A s \in Sessions : IsText(messages[s])
    /\ DOMAIN chunks \subseteq ChunkIds
    /\ \A c \in DOMAIN chunks : /\ IsText(chunks[c].text)
                                /\ chunks[c].kind \in Kinds /\ chunks[c].ns \in Namespaces
    /\ DOMAIN candidates \subseteq DOMAIN chunks
    /\ \A c \in DOMAIN candidates :
           /\ candidates[c].status \in {"pending", "approved", "rejected"}
           /\ candidates[c].ns \in Namespaces /\ candidates[c].type \in Kinds
           /\ candidates[c].memory \in {0} \cup DOMAIN memories
    /\ refs \in [Artifacts -> Namespaces \cup {None}]
    /\ Len(memories) <= MaxMemories
    /\ promoted \subseteq (DOMAIN chunks) \X PrivateMemories
    /\ edges \subseteq PrivateMemories \X PrivateMemories \X {"supports", "contradicts"}
    /\ published \subseteq PrivateMemories \X SharedMemories

\* What a memory says was said: its body is made of the texts of the chunks it
\* is linked to, as they are stored today, and these are made of messages of
\* their session, whatever the session has grown to since and whoever sent it
\* again (promoteTx, upsertChunks, upsertMessages).
Provenance ==
    /\ \A m \in PrivateMemories :
           {memories[m].body[i] : i \in DOMAIN memories[m].body} =
               {chunks[e[1]].text : e \in {x \in promoted : x[2] = m}}
    /\ \A e \in published : memories[e[2]].body = memories[e[1]].body
    /\ \A m \in SharedMemories : \E e \in published : e[2] = m
    /\ \A c \in DOMAIN chunks : \A i \in DOMAIN chunks[c].text :
           /\ i \in DOMAIN messages[c[1]]
           /\ chunks[c].text[i].content = messages[c[1]][i].content

\* A candidate yields one memory when it is approved and none before that or
\* after a rejection, however often and in whatever order clients approve,
\* reject and ingest again (ApproveCandidate, RejectCandidate).
ApprovedOnce ==
    \A c \in DOMAIN candidates :
        {m \in PrivateMemories : memories[m].via = "review" /\ <<c, m>> \in promoted} =
            IF candidates[c].status = "approved" THEN {candidates[c].memory} ELSE {}

\* A relation promotion infers leads from a memory to an earlier decision that
\* comes from a session both are about (promoteInferredRelations).
RelationsExplained ==
    \A e \in edges :
        /\ e[1] > e[2] /\ memories[e[2]].type = "decision"
        /\ \E x, y \in promoted : x[2] = e[1] /\ y[2] = e[2] /\ x[1][1] = y[1][1]

\* No message is in two chunks, although the chunks of a session are built anew
\* each time more of it arrives, so Recall does not find a sentence twice.
ChunksDisjoint ==
    \A c, d \in DOMAIN chunks :
        c # d /\ c[1] = d[1] => DOMAIN chunks[c].text \cap DOMAIN chunks[d].text = {}

\* A reviewed candidate never changes again: ingesting its session once more
\* does not put it back in the list.
ReviewIsFinal ==
    [][\A c \in DOMAIN candidates :
           /\ c \in DOMAIN candidates'
           /\ candidates[c].status # "pending" => candidates'[c] = candidates[c]]_vars

\* Every message of a session is part of some chunk.
MessagesChunked ==
    \A s \in Sessions : \A i \in DOMAIN messages[s] :
        \E c \in DOMAIN chunks : c[1] = s /\ i \in DOMAIN chunks[c].text
=============================================================================
