---------------------------- MODULE CurationProofs ----------------------------
(***************************************************************************)
(* Proofs about Curation, for any sessions, requests and promotions.  What *)
(* the properties rest on is that chunks and messages are never written    *)
(* over and memories are only appended: a link that is right when it is    *)
(* made stays right.  Shape adds to TypeOK what the steps need to know of  *)
(* the records they rebuild.                                               *)
(***************************************************************************)
EXTENDS Curation, FiniteSetTheorems, SequenceTheorems, TLAPS

\* A sequence, of whatever it is made of.
IsSequence(s) == s \in Seq({s[i] : i \in DOMAIN s})

IsMemory(m) ==
    /\ DOMAIN m = {"space", "ns", "type", "via", "body", "redaction", "source"}
    /\ m.space \in {"private", "shared"}

IsCandidate(c) == c = [status |-> c.status, ns |-> c.ns, type |-> c.type, memory |-> c.memory]

Shape ==
    /\ messages = [s \in Sessions |-> messages[s]]
    /\ IsSequence(memories)
    /\ \A m \in DOMAIN memories : IsMemory(memories[m])
    /\ candidates = [c \in DOMAIN candidates |-> candidates[c]]
    /\ \A c \in DOMAIN candidates : IsCandidate(candidates[c])

CurationInv == TypeOK /\ Shape /\ Provenance /\ ApprovedOnce /\ RelationsExplained

\* Appending to a sequence adds one place and leaves the others.
LEMMA AppendSequence ==
  ASSUME NEW s, IsSequence(s), NEW x
  PROVE  /\ IsSequence(Append(s, x))
         /\ Len(s) \in Nat /\ DOMAIN s = 1 .. Len(s)
         /\ Len(Append(s, x)) = Len(s) + 1
         /\ DOMAIN Append(s, x) = 1 .. Len(s) + 1
         /\ \A i \in 1 .. Len(s) : Append(s, x)[i] = s[i]
         /\ Append(s, x)[Len(s) + 1] = x
<1> DEFINE old == {s[i] : i \in DOMAIN s}
           new == {Append(s, x)[i] : i \in DOMAIN Append(s, x)}
<1>1. s \in Seq(old \cup {x})
  <2>1. s \in Seq(old)
    BY DEF IsSequence
  <2> QED BY <2>1
<1> HIDE DEF old
<1>2. /\ Len(s) \in Nat /\ DOMAIN s = 1 .. Len(s)
      /\ Append(s, x) \in Seq(old \cup {x}) /\ Len(Append(s, x)) = Len(s) + 1
      /\ DOMAIN Append(s, x) = 1 .. Len(s) + 1
      /\ \A i \in 1 .. Len(s) : Append(s, x)[i] = s[i]
      /\ Append(s, x)[Len(s) + 1] = x
  BY <1>1
<1>3. Append(s, x) \in Seq(new)
  <2>1. Append(s, x) \in [1 .. Len(s) + 1 -> old \cup {x}]
    BY <1>2, LenProperties
  <2>2. \A i \in 1 .. Len(s) + 1 : Append(s, x)[i] \in new
    BY <1>2
  <2> HIDE DEF new
  <2>3. Append(s, x) \in [1 .. Len(s) + 1 -> new]
    BY <2>1, <2>2
  <2>4. Len(s) + 1 \in Nat
    BY <1>2
  <2> QED BY <2>3, <2>4, SeqDef
<1> QED BY <1>2, <1>3 DEF IsSequence

\* Nothing is ingested, so nothing can be wrong.
LEMMA CurationInitInv == Init => CurationInv
<1> SUFFICES ASSUME Init PROVE CurationInv
  OBVIOUS
<1>1. Len(memories) = 0 /\ DOMAIN memories = {} /\ IsSequence(memories)
  BY DEF Init, IsSequence
<1>2. TypeOK
  BY <1>1, ConstantsAssumption DEF Init, TypeOK, IsText, PrivateMemories, SharedMemories
<1>3. Shape
  BY <1>1 DEF Init, Shape
<1>4. Provenance /\ ApprovedOnce /\ RelationsExplained
  BY <1>1 DEF Init, Provenance, ApprovedOnce, RelationsExplained, PrivateMemories, SharedMemories
<1> QED BY <1>2, <1>3, <1>4 DEF CurationInv

(***************************************************************************)
(* Session ingest.                                                         *)
(***************************************************************************)

\* What a chunk is made of.
LEMMA TurnIsText ==
  ASSUME NEW msgs, IsText(msgs), NEW i \in Starts(msgs)
  PROVE  /\ IsText(Turn(msgs, i))
         /\ \A k \in DOMAIN Turn(msgs, i) : k \in DOMAIN msgs /\ Turn(msgs, i)[k] = msgs[k]
  BY DEF Turn, IsText

\* The number of a turn is a number.
LEMMA PositionIsNat ==
  ASSUME NEW msgs, IsText(msgs), NEW i \in Starts(msgs)
  PROVE  Position(msgs, i) \in Nat
<1>1. i \in Nat /\ Starts(msgs) \subseteq Nat
  BY DEF Starts, IsText
<1>2. {j \in Starts(msgs) : j <= i} \subseteq 0 .. i
  BY <1>1
<1>3. IsFiniteSet({j \in Starts(msgs) : j <= i})
  <2>1. IsFiniteSet(0 .. i)
    BY <1>1, FS_Interval
  <2> QED BY <1>2, <2>1, FS_Subset
<1> QED BY <1>3, FS_CardinalityType DEF Position

\* Every text gets one of the kinds.
LEMMA KindIsKnown ==
  ASSUME NEW text
  PROVE  DetectKind(text) \in Kinds
  BY DEF DetectKind, Kinds

\* A chunk that is built is one turn, under the id of its position.
LEMMA BuiltFrom ==
  ASSUME NEW r, NEW msgs, NEW c \in DOMAIN BuildChunks(r, msgs)
  PROVE  \E i \in Starts(msgs) :
            /\ ChunkId(r.session, msgs, i) = c
            /\ BuildChunks(r, msgs)[c] =
                   [text |-> Turn(msgs, i), kind |-> DetectKind(Turn(msgs, i)), ns |-> r.ns]
<1> DEFINE i == CHOOSE i \in Starts(msgs) : ChunkId(r.session, msgs, i) = c
<1>1. \E j \in Starts(msgs) : ChunkId(r.session, msgs, j) = c
  BY DEF BuildChunks
<1>2. i \in Starts(msgs) /\ ChunkId(r.session, msgs, i) = c
  BY <1>1
<1>3. BuildChunks(r, msgs)[c] =
          [text |-> Turn(msgs, i), kind |-> DetectKind(Turn(msgs, i)), ns |-> r.ns]
  BY DEF BuildChunks
<1> HIDE DEF i
<1> QED BY <1>2, <1>3

\* The chunks built from messages are of their session and quote them.
LEMMA BuiltChunks ==
  ASSUME NEW r \in Requests, NEW msgs, IsText(msgs), NEW c \in DOMAIN BuildChunks(r, msgs)
  PROVE  LET chunk == BuildChunks(r, msgs)[c]
         IN  /\ c \in ChunkIds /\ c[1] = r.session
             /\ IsText(chunk.text) /\ chunk.kind \in Kinds /\ chunk.ns \in Namespaces
             /\ \A k \in DOMAIN chunk.text : k \in DOMAIN msgs /\ chunk.text[k] = msgs[k]
<1>1. PICK i \in Starts(msgs) :
          /\ ChunkId(r.session, msgs, i) = c
          /\ BuildChunks(r, msgs)[c] =
                 [text |-> Turn(msgs, i), kind |-> DetectKind(Turn(msgs, i)), ns |-> r.ns]
  BY BuiltFrom
<1>2. r.session \in Sessions /\ r.ns \in Namespaces
  BY ConstantsAssumption
<1>3. c \in ChunkIds /\ c[1] = r.session
  BY <1>1, <1>2, PositionIsNat DEF ChunkId, ChunkIds
<1> QED
  BY <1>1, <1>2, <1>3, TurnIsText, KindIsKnown

\* IngestSession adds to the tables and changes no row of them but those of
\* private_artifact_refs.
LEMMA IngestAdds ==
  ASSUME CurationInv, NEW r \in Requests, Ingest(r)
  PROVE  /\ messages' = [s \in Sessions |-> messages'[s]]
         /\ \A s \in Sessions : IsText(messages'[s])
         /\ \A s \in Sessions : \A i \in DOMAIN messages[s] :
                i \in DOMAIN messages'[s] /\ messages'[s][i].content = messages[s][i].content
         /\ DOMAIN chunks \subseteq DOMAIN chunks'
         /\ \A c \in DOMAIN chunks : chunks'[c] = chunks[c]
         /\ \A c \in DOMAIN chunks' \ DOMAIN chunks :
                /\ c \in ChunkIds /\ IsText(chunks'[c].text)
                /\ chunks'[c].kind \in Kinds /\ chunks'[c].ns \in Namespaces
                /\ \A k \in DOMAIN chunks'[c].text :
                       k \in DOMAIN messages'[c[1]] /\ chunks'[c].text[k] = messages'[c[1]][k]
         /\ candidates' = [c \in DOMAIN candidates' |-> candidates'[c]]
         /\ DOMAIN candidates \subseteq DOMAIN candidates'
         /\ \A c \in DOMAIN candidates : candidates'[c] = candidates[c]
         /\ \A c \in DOMAIN candidates' \ DOMAIN candidates :
                c \in DOMAIN chunks' \ DOMAIN chunks /\ candidates'[c] = Pending(chunks'[c])
<1> DEFINE msgs  == Over(r.msgs, messages[r.session])
           built == BuildChunks(r, msgs)
           new   == DOMAIN built \ DOMAIN chunks
<1>1. /\ ~Reused(r) /\ messages' = [messages EXCEPT ![r.session] = msgs]
      /\ chunks' = Over(chunks, built) /\ candidates' = Nominated(built, new)
  BY DEF Ingest, InsertChunks
<1>2. r.session \in Sessions /\ IsText(r.msgs)
  BY ConstantsAssumption
<1>3. /\ messages = [s \in Sessions |-> messages[s]] /\ \A s \in Sessions : IsText(messages[s])
      /\ DOMAIN candidates \subseteq DOMAIN chunks
  BY DEF CurationInv, TypeOK, Shape
<1>4. /\ DOMAIN msgs = DOMAIN r.msgs \cup DOMAIN messages[r.session]
      /\ \A k \in DOMAIN r.msgs : msgs[k] = r.msgs[k]
      /\ \A k \in DOMAIN messages[r.session] \ DOMAIN r.msgs : msgs[k] = messages[r.session][k]
  BY DEF Over
<1>5. IsText(msgs)
  BY <1>2, <1>3, <1>4 DEF IsText
<1> HIDE DEF msgs
<1>6. /\ messages' = [s \in Sessions |-> messages'[s]] /\ messages'[r.session] = msgs
      /\ \A s \in Sessions \ {r.session} : messages'[s] = messages[s]
  BY <1>1, <1>2, <1>3
<1>7. \A s \in Sessions : IsText(messages'[s])
  BY <1>3, <1>5, <1>6
<1>8. \A s \in Sessions : \A i \in DOMAIN messages[s] :
          i \in DOMAIN messages'[s] /\ messages'[s][i].content = messages[s][i].content
  BY <1>1, <1>4, <1>6 DEF Reused
<1>9. /\ DOMAIN chunks' = DOMAIN chunks \cup DOMAIN built
      /\ \A c \in DOMAIN chunks : chunks'[c] = chunks[c]
      /\ \A c \in DOMAIN chunks' \ DOMAIN chunks : c \in DOMAIN built /\ chunks'[c] = built[c]
  BY <1>1 DEF Over
<1>10. ASSUME NEW c \in DOMAIN chunks' \ DOMAIN chunks
       PROVE  /\ c \in ChunkIds /\ IsText(chunks'[c].text)
              /\ chunks'[c].kind \in Kinds /\ chunks'[c].ns \in Namespaces
              /\ \A k \in DOMAIN chunks'[c].text :
                     k \in DOMAIN messages'[c[1]] /\ chunks'[c].text[k] = messages'[c[1]][k]
  BY <1>5, <1>6, <1>9, BuiltChunks
<1>11. /\ DOMAIN candidates' = DOMAIN candidates \cup {c \in new : built[c].kind # "qa_pair"}
       /\ candidates' = [c \in DOMAIN candidates' |-> candidates'[c]]
       /\ \A c \in DOMAIN candidates : candidates'[c] = candidates[c]
       /\ \A c \in DOMAIN candidates' \ DOMAIN candidates : candidates'[c] = Pending(built[c])
  <2> HIDE DEF built, new
  <2> QED BY <1>1 DEF Nominated, Over
<1>12. \A c \in DOMAIN candidates' \ DOMAIN candidates :
           c \in DOMAIN chunks' \ DOMAIN chunks /\ candidates'[c] = Pending(chunks'[c])
  BY <1>9, <1>11
<1> QED BY <1>6, <1>7, <1>8, <1>9, <1>10, <1>11, <1>12

\* IngestMessages keeps the invariant: chunks are rewritten and candidates added,
\* and no memory is touched.
LEMMA IngestInv ==
  ASSUME CurationInv, NEW r \in Requests, Ingest(r)
  PROVE  CurationInv'
<1>1. UNCHANGED <<memories, promoted, edges, published>>
  BY DEF Ingest
<1>2. PrivateMemories' = PrivateMemories /\ SharedMemories' = SharedMemories
  BY <1>1 DEF PrivateMemories, SharedMemories
<1>3. TypeOK'
  <2>1. DOMAIN messages' = Sessions /\ \A s \in Sessions : IsText(messages'[s])
    BY IngestAdds
  <2>2. /\ DOMAIN chunks' \subseteq ChunkIds
        /\ \A c \in DOMAIN chunks' : /\ IsText(chunks'[c].text)
                                     /\ chunks'[c].kind \in Kinds /\ chunks'[c].ns \in Namespaces
    BY IngestAdds DEF CurationInv, TypeOK
  <2>3. /\ DOMAIN candidates' \subseteq DOMAIN chunks'
        /\ \A c \in DOMAIN candidates' :
               /\ candidates'[c].status \in {"pending", "approved", "rejected"}
               /\ candidates'[c].ns \in Namespaces /\ candidates'[c].type \in Kinds
               /\ candidates'[c].memory \in {0} \cup DOMAIN memories'
    BY <1>1, <2>2, IngestAdds DEF CurationInv, TypeOK, Pending
  <2>4. refs' \in [Artifacts -> Namespaces \cup {None}]
    BY ConstantsAssumption DEF Ingest, CurationInv, TypeOK
  <2>5. promoted' \subseteq (DOMAIN chunks') \X PrivateMemories'
    BY <1>1, <1>2, IngestAdds DEF CurationInv, TypeOK
  <2> QED BY <1>1, <1>2, <2>1, <2>2, <2>3, <2>4, <2>5 DEF CurationInv, TypeOK
<1>4. Shape'
  <2>1. \A c \in DOMAIN candidates' : IsCandidate(candidates'[c])
    BY IngestAdds DEF CurationInv, Shape, IsCandidate, Pending
  <2> QED BY <1>1, <2>1, IngestAdds DEF CurationInv, Shape
<1>5. Provenance'
  <2>1. \A e \in promoted : e[1] \in DOMAIN chunks /\ chunks'[e[1]] = chunks[e[1]]
    BY IngestAdds DEF CurationInv, TypeOK
  <2>2. \A m \in PrivateMemories' :
            {memories'[m].body[i] : i \in DOMAIN memories'[m].body} =
                {chunks'[e[1]].text : e \in {x \in promoted' : x[2] = m}}
    BY <1>1, <1>2, <2>1 DEF CurationInv, Provenance
  <2>3. /\ \A e \in published' : memories'[e[2]].body = memories'[e[1]].body
        /\ \A m \in SharedMemories' : \E e \in published' : e[2] = m
    BY <1>1, <1>2 DEF CurationInv, Provenance
  <2>4. ASSUME NEW c \in DOMAIN chunks', NEW i \in DOMAIN chunks'[c].text
        PROVE  /\ i \in DOMAIN messages'[c[1]]
               /\ chunks'[c].text[i].content = messages'[c[1]][i].content
    <3>1. CASE c \in DOMAIN chunks
      <4>1. c[1] \in Sessions /\ chunks'[c] = chunks[c]
        BY <3>1, IngestAdds DEF CurationInv, TypeOK, ChunkIds
      <4>2. i \in DOMAIN messages[c[1]] /\ chunks[c].text[i].content = messages[c[1]][i].content
        BY <3>1, <4>1 DEF CurationInv, Provenance
      <4> QED BY <4>1, <4>2, IngestAdds
    <3>2. CASE c \notin DOMAIN chunks
      BY <3>2, IngestAdds
    <3> QED BY <3>1, <3>2
  <2> QED BY <2>2, <2>3, <2>4 DEF Provenance
<1>6. ApprovedOnce'
  <2> SUFFICES ASSUME NEW c \in DOMAIN candidates'
               PROVE  {m \in PrivateMemories : memories[m].via = "review" /\ <<c, m>> \in promoted} =
                          IF candidates'[c].status = "approved" THEN {candidates'[c].memory} ELSE {}
    BY <1>1, <1>2 DEF ApprovedOnce
  <2>1. CASE c \in DOMAIN candidates
    BY <2>1, IngestAdds DEF CurationInv, ApprovedOnce
  <2>2. CASE c \notin DOMAIN candidates
    <3>1. c \notin DOMAIN chunks /\ candidates'[c].status = "pending"
      BY <2>2, IngestAdds DEF Pending
    <3>2. \A m : <<c, m>> \notin promoted
      BY <3>1 DEF CurationInv, TypeOK
    <3> QED BY <3>1, <3>2
  <2> QED BY <2>1, <2>2
<1>7. RelationsExplained'
  BY <1>1 DEF CurationInv, RelationsExplained
<1> QED BY <1>3, <1>4, <1>5, <1>6, <1>7 DEF CurationInv

(***************************************************************************)
(* Promotion.                                                              *)
(***************************************************************************)

\* What a memory says, and the texts it is linked to.
Says(m) == {m.body[i] : i \in DOMAIN m.body}
Linked(m) == {chunks[e[1]].text : e \in {x \in promoted : x[2] = m}}

\* Provenance is about messages, chunks and memories only.
LEMMA ProvenanceSame ==
  ASSUME Provenance, UNCHANGED <<messages, chunks, memories, promoted, published>>
  PROVE  Provenance'
<1>1. PrivateMemories' = PrivateMemories /\ SharedMemories' = SharedMemories
  BY DEF PrivateMemories, SharedMemories
<1>2. \A m \in PrivateMemories : Says(memories[m]) = Linked(m)
  BY DEF Provenance, Says, Linked
<1>3. \A m \in PrivateMemories : Says(memories'[m]) = Says(memories[m]) /\ Linked(m)' = Linked(m)
  BY DEF Linked
<1>4. \A m \in PrivateMemories' :
          {memories'[m].body[i] : i \in DOMAIN memories'[m].body} =
              {chunks'[e[1]].text : e \in {x \in promoted' : x[2] = m}}
  BY <1>1, <1>2, <1>3 DEF Says, Linked
<1>5. /\ \A e \in published' : memories'[e[2]].body = memories'[e[1]].body
      /\ \A m \in SharedMemories' : \E e \in published' : e[2] = m
      /\ \A c \in DOMAIN chunks' : \A i \in DOMAIN chunks'[c].text :
             /\ i \in DOMAIN messages'[c[1]]
             /\ chunks'[c].text[i].content = messages'[c[1]][i].content
  BY <1>1 DEF Provenance
<1> QED BY <1>4, <1>5 DEF Provenance

\* A memory is appended: those that were there are what they were.
LEMMA AppendMemory ==
  ASSUME CurationInv, NEW m, IsMemory(m), memories' = Append(memories, m)
  PROVE  /\ Len(memories) \in Nat /\ Len(memories') = Len(memories) + 1
         /\ DOMAIN memories = 1 .. Len(memories) /\ DOMAIN memories' = 1 .. Len(memories) + 1
         /\ \A i \in DOMAIN memories : memories'[i] = memories[i]
         /\ memories'[Len(memories) + 1] = m
         /\ IsSequence(memories') /\ \A i \in DOMAIN memories' : IsMemory(memories'[i])
         /\ m.space = "private" => /\ PrivateMemories' = PrivateMemories \cup {Len(memories) + 1}
                                   /\ SharedMemories' = SharedMemories
         /\ m.space = "shared" => /\ PrivateMemories' = PrivateMemories
                                  /\ SharedMemories' = SharedMemories \cup {Len(memories) + 1}
<1>1. IsSequence(memories) /\ \A i \in DOMAIN memories : IsMemory(memories[i])
  BY DEF CurationInv, Shape
<1>2. /\ Len(memories) \in Nat /\ Len(memories') = Len(memories) + 1
      /\ DOMAIN memories = 1 .. Len(memories) /\ DOMAIN memories' = 1 .. Len(memories) + 1
      /\ \A i \in DOMAIN memories : memories'[i] = memories[i]
      /\ memories'[Len(memories) + 1] = m
      /\ IsSequence(memories')
  BY <1>1, AppendSequence
<1>3. \A i \in DOMAIN memories' : IsMemory(memories'[i])
  BY <1>1, <1>2
<1>4. /\ m.space = "private" => /\ PrivateMemories' = PrivateMemories \cup {Len(memories) + 1}
                                /\ SharedMemories' = SharedMemories
      /\ m.space = "shared" => /\ PrivateMemories' = PrivateMemories
                               /\ SharedMemories' = SharedMemories \cup {Len(memories) + 1}
  BY <1>2 DEF PrivateMemories, SharedMemories
<1> QED BY <1>2, <1>3, <1>4

\* promoteTx adds one private memory, made of the texts of the chunks it is
\* linked to.
LEMMA PromoteAdds ==
  ASSUME CurationInv, NEW ids \in Seq(ChunkIds), NEW ns, NEW type, NEW via,
         PromoteTx(ids, ns, type, via)
  PROVE  \E m : /\ IsMemory(m) /\ memories' = Append(memories, m)
                /\ m.space = "private" /\ m.type = type /\ m.via = via
                /\ Says(m) = {chunks[ids[i]].text : i \in DOMAIN ids}
<1>1. PICK uri : memories' = Append(memories,
                   [space |-> "private", ns |-> ns, type |-> type, via |-> via,
                    body |-> [i \in DOMAIN ids |-> chunks[ids[i]].text],
                    redaction |-> "none", source |-> uri])
  BY DEF PromoteTx
<1> DEFINE m == [space |-> "private", ns |-> ns, type |-> type, via |-> via,
                 body |-> [i \in DOMAIN ids |-> chunks[ids[i]].text],
                 redaction |-> "none", source |-> uri]
<1>2. IsMemory(m) /\ m.space = "private" /\ m.type = type /\ m.via = via
  BY DEF IsMemory
<1>3. m.body = [i \in DOMAIN ids |-> chunks[ids[i]].text]
  OBVIOUS
<1>4. Says(m) = {chunks[ids[i]].text : i \in DOMAIN ids}
  BY <1>3 DEF Says
<1> HIDE DEF m
<1> QED BY <1>1, <1>2, <1>4 DEF m

\* What promoteTx keeps, whatever becomes of the candidates.
LEMMA PromoteKeeps ==
  ASSUME CurationInv, NEW ids \in Seq(ChunkIds), NEW ns, NEW type, NEW via,
         PromoteTx(ids, ns, type, via)
  PROVE  /\ Provenance' /\ RelationsExplained'
         /\ IsSequence(memories') /\ \A i \in DOMAIN memories' : IsMemory(memories'[i])
         /\ Len(memories) \in Nat /\ Len(memories') <= MaxMemories
         /\ DOMAIN memories \subseteq DOMAIN memories' /\ Len(memories) + 1 \in DOMAIN memories'
         /\ promoted' \subseteq (DOMAIN chunks) \X PrivateMemories'
         /\ edges' \subseteq PrivateMemories' \X PrivateMemories' \X {"supports", "contradicts"}
         /\ published' \subseteq PrivateMemories' \X SharedMemories'
         /\ \A c : {m \in PrivateMemories' : memories'[m].via = "review" /\ <<c, m>> \in promoted'} =
                       {m \in PrivateMemories : memories[m].via = "review" /\ <<c, m>> \in promoted}
                       \cup (IF via = "review" /\ \E i \in DOMAIN ids : ids[i] = c
                             THEN {Len(memories) + 1} ELSE {})
<1> DEFINE new == Len(memories) + 1
<1>1. PICK m : /\ IsMemory(m) /\ memories' = Append(memories, m)
               /\ m.space = "private" /\ m.type = type /\ m.via = via
               /\ Says(m) = {chunks[ids[i]].text : i \in DOMAIN ids}
  BY PromoteAdds
<1>2. /\ Len(memories) \in Nat /\ Len(memories') = new
      /\ DOMAIN memories = 1 .. Len(memories) /\ DOMAIN memories' = 1 .. new
      /\ \A i \in DOMAIN memories : memories'[i] = memories[i]
      /\ memories'[new] = m
      /\ IsSequence(memories') /\ \A i \in DOMAIN memories' : IsMemory(memories'[i])
      /\ PrivateMemories' = PrivateMemories \cup {new} /\ SharedMemories' = SharedMemories
  BY <1>1, AppendMemory
<1>3. new \notin DOMAIN memories /\ new \notin PrivateMemories /\ PrivateMemories \subseteq DOMAIN memories
  BY <1>2 DEF PrivateMemories
<1> HIDE DEF new
<1>4. /\ promoted' = promoted \cup {<<ids[i], new>> : i \in DOMAIN ids}
      /\ edges' = edges \cup {<<new, t, k>> : t \in RelationTargets(ids), k \in RelationTypes(ids)}
      /\ \A i \in DOMAIN ids : ids[i] \in DOMAIN chunks
      /\ ids # <<>> /\ Len(memories) < MaxMemories
      /\ UNCHANGED <<messages, chunks, refs, published>>
  BY DEF PromoteTx, new
<1>5. /\ promoted \subseteq (DOMAIN chunks) \X PrivateMemories
      /\ edges \subseteq PrivateMemories \X PrivateMemories \X {"supports", "contradicts"}
      /\ published \subseteq PrivateMemories \X SharedMemories
  BY DEF CurationInv, TypeOK
<1>6. promoted' \subseteq (DOMAIN chunks) \X PrivateMemories'
  BY <1>2, <1>4, <1>5
<1>7. \A t \in RelationTargets(ids) :
          /\ t \in PrivateMemories /\ memories[t].type = "decision"
          /\ \E e \in promoted : e[2] = t /\ \E i \in DOMAIN ids : e[1][1] = ids[i][1]
  BY <1>5 DEF RelationTargets, SessionsOf
<1>8. edges' \subseteq PrivateMemories' \X PrivateMemories' \X {"supports", "contradicts"}
  <2>1. RelationTypes(ids) \subseteq {"supports", "contradicts"}
    BY DEF RelationTypes
  <2> QED BY <1>2, <1>4, <1>5, <1>7, <2>1
<1>9. Provenance'
  <2>1. ASSUME NEW x \in PrivateMemories' PROVE Says(memories'[x]) = Linked(x)'
    <3>1. CASE x \in PrivateMemories
      <4>1. {y \in promoted' : y[2] = x} = {y \in promoted : y[2] = x}
        BY <1>3, <1>4, <3>1
      <4>2. Linked(x)' = Linked(x)
        BY <1>4, <4>1 DEF Linked
      <4>3. memories'[x] = memories[x]
        BY <1>2, <1>3, <3>1
      <4>4. Says(memories[x]) = Linked(x)
        BY <3>1 DEF CurationInv, Provenance, Says, Linked
      <4> QED BY <4>2, <4>3, <4>4
    <3>2. CASE x = new
      <4>1. {y \in promoted' : y[2] = x} = {<<ids[i], new>> : i \in DOMAIN ids}
        BY <1>3, <1>4, <1>5, <3>2
      <4>2. Linked(x)' = {chunks[e[1]].text : e \in {<<ids[i], new>> : i \in DOMAIN ids}}
        BY <1>4, <4>1 DEF Linked
      <4>3. {chunks[e[1]].text : e \in {<<ids[i], new>> : i \in DOMAIN ids}} =
                {chunks[ids[i]].text : i \in DOMAIN ids}
        <5>1. \A i \in DOMAIN ids : <<ids[i], new>>[1] = ids[i]
          OBVIOUS
        <5> QED BY <5>1, ZenonT(60)
      <4>4. Linked(x)' = Says(m)
        BY <1>1, <4>2, <4>3
      <4>5. memories'[x] = m
        BY <1>2, <3>2
      <4> QED BY <4>4, <4>5
    <3> QED BY <1>2, <3>1, <3>2
  <2>2. \A e \in published' : memories'[e[2]].body = memories'[e[1]].body
    <3>1. \A e \in published : e[1] \in DOMAIN memories /\ e[2] \in DOMAIN memories
      BY <1>5 DEF PrivateMemories, SharedMemories
    <3> QED BY <1>2, <1>4, <3>1 DEF CurationInv, Provenance
  <2>3. \A x \in SharedMemories' : \E e \in published' : e[2] = x
    BY <1>2, <1>4 DEF CurationInv, Provenance
  <2>4. \A x \in PrivateMemories' :
            {memories'[x].body[i] : i \in DOMAIN memories'[x].body} =
                {chunks'[e[1]].text : e \in {y \in promoted' : y[2] = x}}
    BY <2>1 DEF Says, Linked
  <2>5. \A c \in DOMAIN chunks' : \A i \in DOMAIN chunks'[c].text :
            /\ i \in DOMAIN messages'[c[1]]
            /\ chunks'[c].text[i].content = messages'[c[1]][i].content
    BY <1>4 DEF CurationInv, Provenance
  <2> QED BY <2>2, <2>3, <2>4, <2>5 DEF Provenance
<1>10. RelationsExplained'
  <2> SUFFICES ASSUME NEW e \in edges'
               PROVE  /\ e[1] > e[2] /\ memories'[e[2]].type = "decision"
                      /\ \E x, y \in promoted' : x[2] = e[1] /\ y[2] = e[2] /\ x[1][1] = y[1][1]
    BY DEF RelationsExplained
  <2>1. CASE e \in edges
    <3>1. e[2] \in DOMAIN memories
      BY <1>5, <2>1 DEF PrivateMemories
    <3> QED BY <1>2, <1>4, <2>1, <3>1 DEF CurationInv, RelationsExplained
  <2>2. CASE e \notin edges
    <3>1. PICK t \in RelationTargets(ids), k \in RelationTypes(ids) : e = <<new, t, k>>
      BY <1>4, <2>2
    <3>2. e[1] = new /\ e[2] = t
      BY <3>1
    <3>3. PICK y \in promoted, i \in DOMAIN ids : y[2] = t /\ y[1][1] = ids[i][1]
      BY <1>7
    <3>4. <<ids[i], new>> \in promoted' /\ y \in promoted'
      BY <1>4
    <3>5. new > t /\ memories'[t].type = "decision"
      BY <1>2, <1>3, <1>7 DEF new
    <3> QED BY <3>2, <3>3, <3>4, <3>5
  <2> QED BY <2>1, <2>2
<1>11. ASSUME NEW c
       PROVE  {x \in PrivateMemories' : memories'[x].via = "review" /\ <<c, x>> \in promoted'} =
                  {x \in PrivateMemories : memories[x].via = "review" /\ <<c, x>> \in promoted}
                  \cup (IF via = "review" /\ \E i \in DOMAIN ids : ids[i] = c
                        THEN {new} ELSE {})
  <2>1. \A x \in PrivateMemories :
            memories'[x] = memories[x] /\ (<<c, x>> \in promoted' <=> <<c, x>> \in promoted)
    BY <1>2, <1>3, <1>4
  <2>2. <<c, new>> \in promoted' <=> \E i \in DOMAIN ids : ids[i] = c
    BY <1>3, <1>4, <1>5
  <2>3. memories'[new].via = via
    BY <1>1, <1>2
  <2> QED BY <1>2, <1>3, <2>1, <2>2, <2>3
<1>12. Len(memories') <= MaxMemories
  BY <1>2, <1>4, ConstantsAssumption DEF new
<1>13. published' \subseteq PrivateMemories' \X SharedMemories'
  BY <1>2, <1>4, <1>5
<1>14. DOMAIN memories \subseteq DOMAIN memories' /\ Len(memories) + 1 \in DOMAIN memories'
  BY <1>2 DEF new
<1> QED
  BY <1>2, <1>6, <1>8, <1>9, <1>10, <1>11, <1>12, <1>13, <1>14 DEF new

\* PromoteTx keeps it: the memory and the row that leads to its chunks commit
\* together.
LEMMA PromoteInv ==
  ASSUME CurationInv, NEW r \in Promotions, NEW type, Promote(r, type)
  PROVE  CurationInv'
<1>1. r.chunks \in Seq(ChunkIds) /\ PromoteTx(r.chunks, r.ns, type, "promotion")
  BY ConstantsAssumption DEF Promote
<1>2. UNCHANGED <<messages, chunks, candidates, refs>>
  BY DEF Promote, PromoteTx
<1>3. TypeOK'
  BY <1>1, <1>2, PromoteKeeps DEF CurationInv, TypeOK
<1>4. Shape'
  BY <1>1, <1>2, PromoteKeeps DEF CurationInv, Shape
<1>5. ApprovedOnce'
  BY <1>1, <1>2, PromoteKeeps DEF CurationInv, ApprovedOnce
<1>6. Provenance' /\ RelationsExplained'
  BY <1>1, PromoteKeeps
<1> QED BY <1>3, <1>4, <1>5, <1>6 DEF CurationInv

\* A review changes one candidate.
LEMMA ReviewedCandidates ==
  ASSUME CurationInv, NEW c \in DOMAIN candidates, NEW status, NEW m
  PROVE  LET after == Reviewed(c, status, m)
         IN  /\ after = [d \in DOMAIN candidates |-> after[d]]
             /\ \A d \in DOMAIN candidates \ {c} : after[d] = candidates[d]
             /\ after[c].status = status /\ after[c].memory = m
             /\ after[c].ns = candidates[c].ns /\ after[c].type = candidates[c].type
             /\ IsCandidate(after[c])
<1>1. /\ candidates = [d \in DOMAIN candidates |-> candidates[d]]
      /\ candidates[c] = [status |-> candidates[c].status, ns |-> candidates[c].ns,
                          type |-> candidates[c].type, memory |-> candidates[c].memory]
  BY DEF CurationInv, Shape, IsCandidate
<1>2. PICK mid : mid = [candidates EXCEPT ![c].status = status]
  OBVIOUS
<1>3. /\ mid = [d \in DOMAIN candidates |-> mid[d]]
      /\ \A d \in DOMAIN candidates \ {c} : mid[d] = candidates[d]
      /\ mid[c] = [status |-> status, ns |-> candidates[c].ns,
                   type |-> candidates[c].type, memory |-> candidates[c].memory]
  BY <1>1, <1>2
<1>4. PICK after : after = [mid EXCEPT ![c].memory = m]
  OBVIOUS
<1>5. /\ after = [d \in DOMAIN candidates |-> after[d]]
      /\ \A d \in DOMAIN candidates \ {c} : after[d] = candidates[d]
      /\ after[c] = [status |-> status, ns |-> candidates[c].ns,
                     type |-> candidates[c].type, memory |-> m]
  BY <1>3, <1>4
<1>6. after = Reviewed(c, status, m)
  BY <1>2, <1>4 DEF Reviewed
<1> QED BY <1>5, <1>6 DEF IsCandidate

\* Approving a candidate keeps it: it is promoted and reviewed in one step.
LEMMA ApproveInv ==
  ASSUME CurationInv, NEW c \in DOMAIN candidates, NEW ns, NEW type, Approve(c, ns, type)
  PROVE  CurationInv'
<1> DEFINE new == Len(memories) + 1
<1>1. c \in ChunkIds /\ <<c>> \in Seq(ChunkIds)
  <2>1. c \in ChunkIds
    BY DEF CurationInv, TypeOK
  <2> QED BY <2>1
<1>2. PromoteTx(<<c>>, ns, type, "review")
  BY DEF Approve
<1>3. /\ candidates[c].status = "pending" /\ candidates' = Reviewed(c, "approved", new)
      /\ UNCHANGED <<messages, chunks, refs>>
  BY <1>2 DEF Approve, PromoteTx
<1>4. /\ candidates' = [d \in DOMAIN candidates |-> candidates'[d]]
      /\ \A d \in DOMAIN candidates \ {c} : candidates'[d] = candidates[d]
      /\ candidates'[c].status = "approved" /\ candidates'[c].memory = new
      /\ candidates'[c].ns = candidates[c].ns /\ candidates'[c].type = candidates[c].type
      /\ IsCandidate(candidates'[c])
  BY <1>3, ReviewedCandidates
<1>5. DOMAIN candidates' = DOMAIN candidates
  BY <1>4
<1>6. TypeOK'
  <2>1. \A d \in DOMAIN candidates' :
            /\ candidates'[d].status \in {"pending", "approved", "rejected"}
            /\ candidates'[d].ns \in Namespaces /\ candidates'[d].type \in Kinds
            /\ candidates'[d].memory \in {0} \cup DOMAIN memories'
    BY <1>1, <1>2, <1>4, <1>5, PromoteKeeps, ZenonT(60) DEF CurationInv, TypeOK
  <2>2. /\ Len(memories') <= MaxMemories
        /\ promoted' \subseteq (DOMAIN chunks) \X PrivateMemories'
        /\ edges' \subseteq PrivateMemories' \X PrivateMemories' \X {"supports", "contradicts"}
        /\ published' \subseteq PrivateMemories' \X SharedMemories'
    BY <1>1, <1>2, PromoteKeeps
  <2> QED BY <1>3, <1>5, <2>1, <2>2 DEF CurationInv, TypeOK
<1>7. Shape'
  <2>1. IsSequence(memories') /\ \A i \in DOMAIN memories' : IsMemory(memories'[i])
    BY <1>1, <1>2, PromoteKeeps
  <2> QED BY <1>3, <1>4, <1>5, <2>1 DEF CurationInv, Shape
<1>8. ApprovedOnce'
  <2>1. \A d : {m \in PrivateMemories' : memories'[m].via = "review" /\ <<d, m>> \in promoted'} =
                   {m \in PrivateMemories : memories[m].via = "review" /\ <<d, m>> \in promoted}
                   \cup (IF \E i \in DOMAIN <<c>> : <<c>>[i] = d THEN {new} ELSE {})
    BY <1>1, <1>2, PromoteKeeps
  <2>2. \A d : (\E i \in DOMAIN <<c>> : <<c>>[i] = d) <=> d = c
    OBVIOUS
  <2>3. \A d : {m \in PrivateMemories' : memories'[m].via = "review" /\ <<d, m>> \in promoted'} =
                   {m \in PrivateMemories : memories[m].via = "review" /\ <<d, m>> \in promoted}
                   \cup (IF d = c THEN {new} ELSE {})
    BY <2>1, <2>2
  <2> QED BY <1>3, <1>4, <1>5, <2>3 DEF CurationInv, ApprovedOnce
<1>9. Provenance' /\ RelationsExplained'
  BY <1>1, <1>2, PromoteKeeps
<1> QED BY <1>6, <1>7, <1>8, <1>9 DEF CurationInv

\* Rejecting one keeps it: only its review changes.
LEMMA RejectInv ==
  ASSUME CurationInv, NEW c \in DOMAIN candidates, Reject(c)
  PROVE  CurationInv'
<1>1. /\ candidates[c].status = "pending" /\ candidates' = Reviewed(c, "rejected", 0)
      /\ UNCHANGED <<messages, chunks, refs, memories, promoted, edges, published>>
  BY DEF Reject
<1>2. /\ candidates' = [d \in DOMAIN candidates |-> candidates'[d]]
      /\ \A d \in DOMAIN candidates \ {c} : candidates'[d] = candidates[d]
      /\ candidates'[c].status = "rejected" /\ candidates'[c].memory = 0
      /\ candidates'[c].ns = candidates[c].ns /\ candidates'[c].type = candidates[c].type
      /\ IsCandidate(candidates'[c])
  BY <1>1, ReviewedCandidates
<1>3. DOMAIN candidates' = DOMAIN candidates
  BY <1>2
<1>4. PrivateMemories' = PrivateMemories /\ SharedMemories' = SharedMemories
  BY <1>1 DEF PrivateMemories, SharedMemories
<1>5. TypeOK'
  BY <1>1, <1>2, <1>3, <1>4 DEF CurationInv, TypeOK
<1>6. Shape'
  BY <1>1, <1>2, <1>3 DEF CurationInv, Shape
<1>7. ApprovedOnce'
  BY <1>1, <1>2, <1>3, <1>4 DEF CurationInv, ApprovedOnce
<1>8. Provenance' /\ RelationsExplained'
  BY <1>1, ProvenanceSame DEF CurationInv, RelationsExplained
<1> QED BY <1>5, <1>6, <1>7, <1>8 DEF CurationInv

(***************************************************************************)
(* Publication.                                                            *)
(***************************************************************************)
LEMMA PublishInv ==
  ASSUME CurationInv, NEW p \in DOMAIN memories, NEW policy, Publish(p, policy)
  PROVE  CurationInv'
<1> DEFINE new == Len(memories) + 1
<1>1. PICK m : /\ m = [memories[p] EXCEPT !.space = "shared", !.redaction = policy,
                           !.source = RedactedSource(memories[p].source, policy)]
               /\ memories' = Append(memories, m)
  BY DEF Publish
<1>2. /\ memories[p].space = "private" /\ published' = published \cup {<<p, new>>}
      /\ Len(memories) < MaxMemories
      /\ UNCHANGED <<messages, chunks, candidates, refs, promoted, edges>>
  BY DEF Publish, Link
<1>3. IsMemory(m) /\ m.space = "shared" /\ m.body = memories[p].body
  <2>1. IsMemory(memories[p])
    BY DEF CurationInv, Shape
  <2> QED BY <1>1, <2>1 DEF IsMemory
<1>4. /\ Len(memories) \in Nat /\ Len(memories') = new
      /\ DOMAIN memories = 1 .. Len(memories) /\ DOMAIN memories' = 1 .. new
      /\ \A i \in DOMAIN memories : memories'[i] = memories[i]
      /\ memories'[new] = m
      /\ IsSequence(memories') /\ \A i \in DOMAIN memories' : IsMemory(memories'[i])
      /\ PrivateMemories' = PrivateMemories /\ SharedMemories' = SharedMemories \cup {new}
  BY <1>1, <1>3, AppendMemory
<1>5. /\ promoted \subseteq (DOMAIN chunks) \X PrivateMemories
      /\ edges \subseteq PrivateMemories \X PrivateMemories \X {"supports", "contradicts"}
      /\ published \subseteq PrivateMemories \X SharedMemories
      /\ p \in PrivateMemories /\ PrivateMemories \cup SharedMemories \subseteq DOMAIN memories
  BY <1>2 DEF CurationInv, TypeOK, PrivateMemories, SharedMemories
<1>6. DOMAIN memories \subseteq DOMAIN memories' /\ new \notin DOMAIN memories
  BY <1>4
<1> HIDE DEF new
<1>7. TypeOK'
  <2>1. published' \subseteq PrivateMemories' \X SharedMemories'
    BY <1>2, <1>4, <1>5
  <2>2. Len(memories') <= MaxMemories
    BY <1>2, <1>4, ConstantsAssumption DEF new
  <2>3. \A c \in DOMAIN candidates : candidates[c].memory \in {0} \cup DOMAIN memories'
    BY <1>6 DEF CurationInv, TypeOK
  <2> QED BY <1>2, <1>4, <2>1, <2>2, <2>3 DEF CurationInv, TypeOK
<1>8. Shape'
  BY <1>2, <1>4 DEF CurationInv, Shape
<1>9. Provenance'
  <2>1. \A x \in PrivateMemories' :
            {memories'[x].body[i] : i \in DOMAIN memories'[x].body} =
                {chunks'[e[1]].text : e \in {y \in promoted' : y[2] = x}}
    <3>1. \A x \in PrivateMemories : memories'[x] = memories[x]
      BY <1>4, <1>5
    <3>2. \A x \in PrivateMemories : Says(memories[x]) = Linked(x) /\ Linked(x)' = Linked(x)
      BY <1>2 DEF CurationInv, Provenance, Says, Linked
    <3>3. \A x \in PrivateMemories' : Says(memories'[x]) = Linked(x)'
      BY <1>4, <3>1, <3>2
    <3> QED BY <3>3 DEF Says, Linked
  <2>2. \A e \in published' : memories'[e[2]].body = memories'[e[1]].body
    <3>1. \A e \in published : memories'[e[2]].body = memories'[e[1]].body
      BY <1>4, <1>5 DEF CurationInv, Provenance
    <3>2. memories'[new].body = memories'[p].body
      BY <1>3, <1>4
    <3> QED BY <1>2, <3>1, <3>2
  <2>3. \A x \in SharedMemories' : \E e \in published' : e[2] = x
    <3>1. \A x \in SharedMemories : \E e \in published : e[2] = x
      BY DEF CurationInv, Provenance
    <3>2. <<p, new>> \in published' /\ <<p, new>>[2] = new
      BY <1>2
    <3> QED BY <1>2, <1>4, <3>1, <3>2
  <2>4. \A c \in DOMAIN chunks' : \A i \in DOMAIN chunks'[c].text :
            /\ i \in DOMAIN messages'[c[1]]
            /\ chunks'[c].text[i].content = messages'[c[1]][i].content
    BY <1>2 DEF CurationInv, Provenance
  <2> QED BY <2>1, <2>2, <2>3, <2>4 DEF Provenance
<1>10. ApprovedOnce'
  BY <1>2, <1>4, <1>5 DEF CurationInv, ApprovedOnce
<1>11. RelationsExplained'
  <2>1. \A e \in edges : e[2] \in DOMAIN memories
    BY <1>5
  <2> QED BY <1>2, <1>4, <2>1 DEF CurationInv, RelationsExplained
<1> QED BY <1>7, <1>8, <1>9, <1>10, <1>11 DEF CurationInv

\* Every operation keeps the invariant.
LEMMA CurationStep == CurationInv /\ [Next]_vars => CurationInv'
<1> SUFFICES ASSUME CurationInv, [Next]_vars PROVE CurationInv'
  OBVIOUS
<1>1. ASSUME NEW r \in Requests, Ingest(r) PROVE CurationInv'
  BY <1>1, IngestInv
<1>2. ASSUME NEW r \in Promotions, NEW type \in {"note", "decision"}, Promote(r, type)
      PROVE  CurationInv'
  BY <1>2, PromoteInv
<1>3. ASSUME NEW c \in DOMAIN candidates,
             (\E ns, type : Approve(c, ns, type)) \/ Reject(c)
      PROVE  CurationInv'
  BY <1>3, ApproveInv, RejectInv
<1>4. ASSUME NEW p \in DOMAIN memories, NEW policy \in {"default", "strict"}, Publish(p, policy)
      PROVE  CurationInv'
  BY <1>4, PublishInv
<1>5. CASE UNCHANGED vars
  <2>1. UNCHANGED <<messages, chunks, candidates, refs, memories, promoted, edges, published>>
    BY <1>5 DEF vars
  <2>2. PrivateMemories' = PrivateMemories /\ SharedMemories' = SharedMemories
    BY <2>1 DEF PrivateMemories, SharedMemories
  <2>3. TypeOK' /\ Shape'
    BY <2>1, <2>2 DEF CurationInv, TypeOK, Shape
  <2>4. Provenance' /\ ApprovedOnce' /\ RelationsExplained'
    BY <2>1, <2>2, ProvenanceSame DEF CurationInv, ApprovedOnce, RelationsExplained
  <2> QED BY <2>3, <2>4 DEF CurationInv
<1> QED BY <1>1, <1>2, <1>3, <1>4, <1>5 DEF Next

\* So it holds at any time.
LEMMA CurationAlways == Spec => []CurationInv
  BY CurationInitInv, CurationStep, PTL DEF Spec

(***************************************************************************)
(* Disjoint chunks.  A chunk is stored once, and is found again, under the *)
(* id of its position, only while the turns before it stay what they were: *)
(* that takes messages which arrive in the order of their seqs and keep    *)
(* their roles, and no more.                                               *)
(***************************************************************************)

\* new continues old: what is new comes behind, what is there keeps its role.
Continues(new, old) ==
    /\ DOMAIN old \subseteq DOMAIN new
    /\ \A j \in DOMAIN old : new[j].role = old[j].role
    /\ \A i \in DOMAIN new \ DOMAIN old : \A j \in DOMAIN old : j < i

MessagesInOrder == [][\A s \in Sessions : Continues(messages'[s], messages[s])]_vars

\* Every stored chunk is a part of the turn whose id it has.
ChunksAreTurns ==
    \A c \in DOMAIN chunks : \E i \in Starts(messages[c[1]]) :
        /\ c = ChunkId(c[1], messages[c[1]], i)
        /\ DOMAIN chunks[c].text \subseteq DOMAIN Turn(messages[c[1]], i)

\* A turn keeps its start and its position, and only grows, when the session
\* goes on.
LEMMA TurnsStay ==
  ASSUME NEW old, NEW new, IsText(old), IsText(new), Continues(new, old),
         NEW i \in Starts(old)
  PROVE  /\ i \in Starts(new)
         /\ Position(new, i) = Position(old, i)
         /\ DOMAIN Turn(old, i) \subseteq DOMAIN Turn(new, i)
<1>1. DOMAIN old \subseteq Nat /\ DOMAIN new \subseteq Nat /\ DOMAIN old \subseteq DOMAIN new
  BY DEF IsText, Continues
<1>2. \A k \in DOMAIN old, j \in DOMAIN new : j <= k => j \in DOMAIN old
  BY <1>1 DEF Continues
<1>3. \A k \in DOMAIN old : new[k].role = old[k].role
  BY DEF Continues
<1>4. ASSUME NEW k \in DOMAIN old PROVE k \in Starts(new) <=> k \in Starts(old)
  <2>1. (\A j \in DOMAIN new : j < k => new[j].role # "user") <=>
            \A j \in DOMAIN old : j < k => old[j].role # "user"
    BY <1>1, <1>2, <1>3
  <2> QED BY <1>1, <1>3, <2>1 DEF Starts
<1>5. \A k \in DOMAIN old, j \in Starts(new) : j <= k => j \in Starts(old)
  BY <1>2, <1>4 DEF Starts
<1>6. i \in DOMAIN old /\ Starts(old) \subseteq DOMAIN old
  BY DEF Starts
<1>7. {j \in Starts(new) : j <= i} = {j \in Starts(old) : j <= i}
  BY <1>4, <1>5, <1>6
<1>8. DOMAIN Turn(old, i) \subseteq DOMAIN Turn(new, i)
  <2> SUFFICES ASSUME NEW k \in DOMAIN Turn(old, i) PROVE k \in DOMAIN Turn(new, i)
    OBVIOUS
  <2>1. k \in DOMAIN old /\ k >= i /\ \A j \in Starts(old) : j <= k => j <= i
    BY DEF Turn
  <2>2. \A j \in Starts(new) : j <= k => j <= i
    BY <1>5, <2>1
  <2> QED BY <1>1, <2>1, <2>2 DEF Turn
<1> QED BY <1>4, <1>6, <1>7, <1>8 DEF Position

\* Two turns share no message.
LEMMA TurnsDisjoint ==
  ASSUME NEW msgs, IsText(msgs), NEW i \in Starts(msgs), NEW j \in Starts(msgs), i # j
  PROVE  DOMAIN Turn(msgs, i) \cap DOMAIN Turn(msgs, j) = {}
<1> SUFFICES ASSUME NEW k \in DOMAIN Turn(msgs, i), k \in DOMAIN Turn(msgs, j) PROVE FALSE
  OBVIOUS
<1>1. i \in Nat /\ j \in Nat /\ k \in Nat /\ i <= k /\ j <= k
  BY DEF Turn, Starts, IsText
<1>2. i <= j /\ j <= i
  BY <1>1 DEF Turn
<1> QED BY <1>1, <1>2

\* The chunks of a session that only goes on stay turns of it.
LEMMA IngestCutsTurns ==
  ASSUME CurationInv, ChunksAreTurns, NEW r \in Requests, Ingest(r),
         \A s \in Sessions : Continues(messages'[s], messages[s])
  PROVE  ChunksAreTurns'
<1> DEFINE msgs  == Over(r.msgs, messages[r.session])
           built == BuildChunks(r, msgs)
<1>1. /\ DOMAIN messages = Sessions /\ r.session \in Sessions
      /\ \A s \in Sessions : IsText(messages[s]) /\ IsText(messages'[s])
      /\ \A c \in DOMAIN chunks : c[1] \in Sessions
  BY IngestAdds, ConstantsAssumption DEF CurationInv, TypeOK, ChunkIds
<1>2. messages'[r.session] = msgs /\ chunks' = Over(chunks, built)
  BY <1>1 DEF Ingest, InsertChunks
<1>3. ASSUME NEW c \in DOMAIN chunks
      PROVE  \E i \in Starts(messages'[c[1]]) :
                 /\ c = ChunkId(c[1], messages'[c[1]], i)
                 /\ DOMAIN chunks'[c].text \subseteq DOMAIN Turn(messages'[c[1]], i)
  <2>1. PICK i \in Starts(messages[c[1]]) :
            /\ c = ChunkId(c[1], messages[c[1]], i)
            /\ DOMAIN chunks[c].text \subseteq DOMAIN Turn(messages[c[1]], i)
    BY DEF ChunksAreTurns
  <2>2. /\ i \in Starts(messages'[c[1]])
        /\ Position(messages'[c[1]], i) = Position(messages[c[1]], i)
        /\ DOMAIN Turn(messages[c[1]], i) \subseteq DOMAIN Turn(messages'[c[1]], i)
    BY <1>1, TurnsStay
  <2>3. chunks'[c] = chunks[c]
    BY IngestAdds
  <2> QED BY <2>1, <2>2, <2>3 DEF ChunkId
<1>4. ASSUME NEW c \in DOMAIN chunks' \ DOMAIN chunks
      PROVE  \E i \in Starts(messages'[c[1]]) :
                 /\ c = ChunkId(c[1], messages'[c[1]], i)
                 /\ DOMAIN chunks'[c].text \subseteq DOMAIN Turn(messages'[c[1]], i)
  <2>1. c \in DOMAIN built /\ chunks'[c] = built[c]
    BY <1>2 DEF Over
  <2> HIDE DEF msgs
  <2>2. PICK i \in Starts(msgs) : ChunkId(r.session, msgs, i) = c /\ built[c].text = Turn(msgs, i)
    BY <2>1, BuiltFrom
  <2>3. c[1] = r.session
    BY <2>2 DEF ChunkId
  <2> QED BY <1>2, <2>1, <2>2, <2>3
<1> QED BY <1>3, <1>4 DEF ChunksAreTurns

\* Nothing else writes messages or chunks.
LEMMA OnlyIngestWrites ==
  ASSUME [Next]_vars
  PROVE  (\E r \in Requests : Ingest(r)) \/ UNCHANGED <<messages, chunks>>
<1>1. ASSUME NEW r \in Promotions, NEW type \in {"note", "decision"}, Promote(r, type)
      PROVE  UNCHANGED <<messages, chunks>>
  BY <1>1 DEF Promote, PromoteTx
<1>2. ASSUME NEW c \in DOMAIN candidates, (\E ns, type : Approve(c, ns, type)) \/ Reject(c)
      PROVE  UNCHANGED <<messages, chunks>>
  BY <1>2 DEF Approve, PromoteTx, Reject
<1>3. ASSUME NEW p \in DOMAIN memories, NEW policy \in {"default", "strict"}, Publish(p, policy)
      PROVE  UNCHANGED <<messages, chunks>>
  BY <1>3 DEF Publish
<1>4. CASE UNCHANGED vars
  BY <1>4 DEF vars
<1> QED BY <1>1, <1>2, <1>3, <1>4 DEF Next

\* Chunks stay turns along every step that keeps the sessions in order.
LEMMA ChunksStayTurns ==
  ASSUME CurationInv, ChunksAreTurns, [Next]_vars,
         [\A s \in Sessions : Continues(messages'[s], messages[s])]_vars
  PROVE  ChunksAreTurns'
<1>1. ASSUME NEW r \in Requests, Ingest(r) PROVE ChunksAreTurns'
  <2>1. CASE UNCHANGED vars
    BY <2>1 DEF vars, ChunksAreTurns
  <2>2. CASE \A s \in Sessions : Continues(messages'[s], messages[s])
    BY <1>1, <2>2, IngestCutsTurns
  <2> QED BY <2>1, <2>2
<1>2. CASE UNCHANGED <<messages, chunks>>
  BY <1>2 DEF ChunksAreTurns
<1> QED BY <1>1, <1>2, OnlyIngestWrites

\* Chunks that are whole turns of their session do not overlap.
LEMMA TurnsAreDisjointChunks == CurationInv /\ ChunksAreTurns => ChunksDisjoint
<1> SUFFICES ASSUME CurationInv, ChunksAreTurns, NEW c \in DOMAIN chunks, NEW d \in DOMAIN chunks,
                    c # d, c[1] = d[1]
             PROVE  DOMAIN chunks[c].text \cap DOMAIN chunks[d].text = {}
  BY DEF ChunksDisjoint
<1>1. IsText(messages[c[1]])
  BY DEF CurationInv, TypeOK, ChunkIds
<1>2. PICK i \in Starts(messages[c[1]]) :
          /\ c = ChunkId(c[1], messages[c[1]], i)
          /\ DOMAIN chunks[c].text \subseteq DOMAIN Turn(messages[c[1]], i)
  BY DEF ChunksAreTurns
<1>3. PICK j \in Starts(messages[c[1]]) :
          /\ d = ChunkId(c[1], messages[c[1]], j)
          /\ DOMAIN chunks[d].text \subseteq DOMAIN Turn(messages[c[1]], j)
  BY DEF ChunksAreTurns
<1>4. i # j
  BY <1>2, <1>3
<1> QED BY <1>1, <1>2, <1>3, <1>4, TurnsDisjoint

(***************************************************************************)
(* The theorems.                                                           *)
(***************************************************************************)

\* Every variable has its type and every link has both its ends.
THEOREM CurationTypes == Spec => []TypeOK
<1>1. CurationInv => TypeOK
  BY DEF CurationInv
<1> QED BY <1>1, CurationAlways, PTL

\* What a memory says was said in the chunks it is linked to, and these are
\* made of messages of their session, in any order of requests.
THEOREM ProvenanceAlways == Spec => []Provenance
<1>1. CurationInv => Provenance
  BY DEF CurationInv
<1> QED BY <1>1, CurationAlways, PTL

\* An approved candidate has one memory, any other candidate none.
THEOREM ApprovedAtMostOnce == Spec => []ApprovedOnce
<1>1. CurationInv => ApprovedOnce
  BY DEF CurationInv
<1> QED BY <1>1, CurationAlways, PTL

\* Relations lead to earlier decisions of a session both memories are about.
THEOREM RelationsAlwaysExplained == Spec => []RelationsExplained
<1>1. CurationInv => RelationsExplained
  BY DEF CurationInv
<1> QED BY <1>1, CurationAlways, PTL

\* No request changes a candidate that was reviewed, or removes one.
THEOREM ReviewsAreFinal == Spec => ReviewIsFinal
<1>1. CurationInv /\ [Next]_vars =>
          [\A c \in DOMAIN candidates :
               /\ c \in DOMAIN candidates'
               /\ candidates[c].status # "pending" => candidates'[c] = candidates[c]]_vars
  <2> SUFFICES ASSUME CurationInv, [Next]_vars, NEW c \in DOMAIN candidates
               PROVE  /\ c \in DOMAIN candidates'
                      /\ candidates[c].status # "pending" => candidates'[c] = candidates[c]
    OBVIOUS
  <2>1. ASSUME NEW r \in Requests, Ingest(r)
        PROVE  c \in DOMAIN candidates' /\ candidates'[c] = candidates[c]
    BY <2>1, IngestAdds
  <2>2. ASSUME NEW d \in DOMAIN candidates, (\E ns, type : Approve(d, ns, type)) \/ Reject(d)
        PROVE  /\ c \in DOMAIN candidates'
               /\ candidates[c].status # "pending" => candidates'[c] = candidates[c]
    <3>1. candidates[d].status = "pending" /\ \E s, m : candidates' = Reviewed(d, s, m)
      BY <2>2 DEF Approve, Reject
    <3>2. candidates' = [e \in DOMAIN candidates |-> candidates'[e]]
          /\ \A e \in DOMAIN candidates \ {d} : candidates'[e] = candidates[e]
      BY <3>1, ReviewedCandidates
    <3> QED BY <3>1, <3>2
  <2>3. CASE UNCHANGED candidates
    BY <2>3
  <2> QED BY <2>1, <2>2, <2>3 DEF Next, Promote, Publish, vars
<1> QED BY <1>1, CurationAlways, PTL DEF Spec, ReviewIsFinal

\* A session whose messages arrive in the order of their seqs, and keep their
\* roles, is cut into disjoint chunks, in however many pieces it is sent.
THEOREM ChunksOfOrderedSessions == Spec /\ MessagesInOrder => []ChunksDisjoint
<1>1. Init => ChunksAreTurns
  BY DEF Init, ChunksAreTurns
<1>2. /\ CurationInv /\ ChunksAreTurns /\ [Next]_vars
      /\ [\A s \in Sessions : Continues(messages'[s], messages[s])]_vars
      => ChunksAreTurns'
  BY ChunksStayTurns
<1> QED BY <1>1, <1>2, CurationAlways, TurnsAreDisjointChunks, PTL DEF Spec, MessagesInOrder

\* Messages are those of requests, and a request is stored as a whole.
MessagesWereSent ==
    \A s \in Sessions : \A i \in DOMAIN messages[s] :
        \E r \in Requests : /\ r.session = s /\ DOMAIN r.msgs \subseteq DOMAIN messages[s]
                            /\ i \in DOMAIN r.msgs /\ messages[s][i] = r.msgs[i]

\* A request that sends the session from its start only makes it longer.
LEMMA SentIngest ==
  ASSUME SentFromTheStart, CurationInv, MessagesWereSent, NEW r \in Requests, Ingest(r)
  PROVE  MessagesWereSent' /\ \A s \in Sessions : Continues(messages'[s], messages[s])
<1> DEFINE old == messages[r.session]
           msgs == Over(r.msgs, old)
<1>1. /\ DOMAIN messages = Sessions /\ r.session \in Sessions
      /\ IsText(old) /\ IsText(r.msgs)
  BY ConstantsAssumption DEF CurationInv, TypeOK
<1>2. /\ messages'[r.session] = msgs
      /\ \A s \in Sessions \ {r.session} : messages'[s] = messages[s]
  BY <1>1 DEF Ingest
<1>3. /\ DOMAIN msgs = DOMAIN r.msgs \cup DOMAIN old
      /\ \A i \in DOMAIN r.msgs : msgs[i] = r.msgs[i]
      /\ \A i \in DOMAIN old \ DOMAIN r.msgs : msgs[i] = old[i]
  BY DEF Over
<1>4. \A i \in DOMAIN r.msgs \cap DOMAIN old : r.msgs[i].content = old[i].content
  BY DEF Ingest, Reused
<1>5. \A i \in DOMAIN old : \E q \in Requests :
          /\ q.session = r.session /\ DOMAIN q.msgs \subseteq DOMAIN old
          /\ i \in DOMAIN q.msgs /\ old[i] = q.msgs[i]
  BY <1>1 DEF MessagesWereSent
<1> HIDE DEF msgs, old
<1>6. Continues(msgs, old)
  <2>1. ASSUME NEW j \in DOMAIN old PROVE msgs[j].role = old[j].role
    <3>1. PICK q \in Requests : q.session = r.session /\ j \in DOMAIN q.msgs /\ old[j] = q.msgs[j]
      BY <1>5
    <3> QED BY <1>3, <1>4, <3>1 DEF SentFromTheStart
  <2>2. ASSUME NEW i \in DOMAIN msgs \ DOMAIN old, NEW j \in DOMAIN old PROVE j < i
    <3>1. i \in DOMAIN r.msgs /\ i \in Nat /\ j \in Nat
      BY <1>1, <1>3 DEF IsText
    <3>2. PICK q \in Requests : /\ q.session = r.session /\ DOMAIN q.msgs \subseteq DOMAIN old
                                /\ j \in DOMAIN q.msgs
      BY <1>5
    <3>3. ~(i <= j)
      BY <3>1, <3>2 DEF SentFromTheStart
    <3> QED BY <3>1, <3>3
  <2> QED BY <1>3, <2>1, <2>2 DEF Continues
<1>7. ASSUME NEW s \in Sessions, s # r.session PROVE Continues(messages'[s], messages[s])
  BY <1>2, <1>7 DEF Continues
<1>8. ASSUME NEW i \in DOMAIN msgs
      PROVE  \E q \in Requests : /\ q.session = r.session /\ DOMAIN q.msgs \subseteq DOMAIN msgs
                                 /\ i \in DOMAIN q.msgs /\ msgs[i] = q.msgs[i]
  <2>1. CASE i \in DOMAIN r.msgs
    BY <1>3, <2>1
  <2>2. CASE i \notin DOMAIN r.msgs
    BY <1>3, <1>5, <2>2
  <2> QED BY <2>1, <2>2
<1>9. MessagesWereSent'
  BY <1>2, <1>8 DEF MessagesWereSent
<1> QED BY <1>2, <1>6, <1>7, <1>9 DEF old

\* Clients that send a session from its start each time, as much of it as there
\* is, never get overlapping chunks, whatever they repeat and however their
\* requests overtake each other.
THEOREM ChunksOfWholeSessions == SentFromTheStart => (Spec => []ChunksDisjoint)
<1> SUFFICES ASSUME SentFromTheStart PROVE Spec => []ChunksDisjoint
  OBVIOUS
<1>1. Init => MessagesWereSent
  BY DEF Init, MessagesWereSent
<1>2. CurationInv /\ MessagesWereSent /\ [Next]_vars =>
          /\ MessagesWereSent'
          /\ [\A s \in Sessions : Continues(messages'[s], messages[s])]_vars
  <2> SUFFICES ASSUME CurationInv, MessagesWereSent, [Next]_vars
               PROVE  /\ MessagesWereSent'
                      /\ \A s \in Sessions : Continues(messages'[s], messages[s])
    OBVIOUS
  <2>1. CASE \E r \in Requests : Ingest(r)
    BY <2>1, SentIngest
  <2>2. CASE UNCHANGED messages
    BY <2>2 DEF MessagesWereSent, Continues
  <2> QED BY <2>1, <2>2, OnlyIngestWrites
<1>3. Spec => MessagesInOrder
  BY <1>1, <1>2, CurationAlways, PTL DEF Spec, MessagesInOrder
<1> QED BY <1>3, ChunksOfOrderedSessions, PTL
=============================================================================
