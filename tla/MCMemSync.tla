----------------------------- MODULE MCMemSync ------------------------------
(***************************************************************************)
(* Small instances of MemSync for TLC.                                     *)
(***************************************************************************)
EXTENDS MemSyncRefinement

CONSTANTS A, B, C, x, y, a1, a2, b1, b2, f, g

XRank == [n \in {x} |-> 1]
XYRank == [n \in {x, y} |-> IF n = x THEN 1 ELSE 2]

\* Two peers that both write one namespace and know both keys.
PairPeers == {A, B}
PairAllow == [p \in {A, B} |-> [q \in {A, B} |-> IF p = q THEN {} ELSE {x}]]
PairLocal == [p \in {A, B} |-> {x}]
PairKeyring == [p \in {A, B} |-> {A, B}]

Chain == {a1, a2, b1}
ChainNs == [m \in Chain |-> x]
ChainHome == [m \in Chain |-> IF m = b1 THEN B ELSE A]
\* a2 and b1 supersede a1, concurrently when the peers have not met since.
ChainReplaces == [m \in Chain |-> IF m = a1 THEN None ELSE a1]
ChainSignaller == [m \in Chain |-> IF m = a1 THEN B ELSE None]
ChainRelates == [m \in Chain |-> {}]
\* Both peers describe the artifact f.
ChainMentions == [m \in Chain |-> IF m = a2 THEN {} ELSE {f}]

\* Three peers in a line: A and B share both namespaces, B and C only x.
LinePeers == {A, B, C}
LineShared(p, q) ==
    IF {p, q} = {A, B} THEN {x, y} ELSE IF {p, q} = {B, C} THEN {x} ELSE {}
LineAllow == [p \in LinePeers |-> [q \in LinePeers |-> LineShared(p, q)]]
LineLocal == [p \in LinePeers |-> {x, y}]
FullKeyring == [p \in LinePeers |-> LinePeers]
Mixed == {a1, a2, b1}
MixedNs == [m \in Mixed |-> IF m = a2 THEN y ELSE x]
MixedHome == [m \in Mixed |-> IF m = b1 THEN B ELSE A]
\* b1 supersedes a1 and is stored without an origin_peer_id, so that it names
\* the default one, whose key nobody has.
MixedOrigin == [m \in Mixed |-> IF m = b1 THEN "peer/local" ELSE A]
MixedReplaces == [m \in Mixed |-> IF m = b1 THEN a1 ELSE None]
MixedSignaller == [m \in Mixed |-> None]
\* a1 relates to a2 of the other namespace, which whoever shares also shares x.
MixedRelates == [m \in Mixed |-> IF m = a1 THEN {a2} ELSE {}]
\* a1 and b1 describe one artifact, a2 another.
MixedMentions == [m \in Mixed |-> IF m = a2 THEN {g} ELSE {f}]

\* One writer; the second memory supersedes the first.
Solo == {a1, a2}
SoloNs == [m \in Solo |-> x]
SoloHome == [m \in Solo |-> A]
SoloReplaces == [m \in Solo |-> IF m = a2 THEN a1 ELSE None]
SoloSignaller == [m \in Solo |-> None]
SoloRelates == [m \in Solo |-> {}]
SoloMentions == [m \in Solo |-> {f}]

\* Two writers, one memory each.
Duo == {a1, b1}
DuoNs == [m \in Duo |-> x]
DuoHome == [m \in Duo |-> IF m = b1 THEN B ELSE A]
DuoReplaces == [m \in Duo |-> None]
DuoSignaller == [m \in Duo |-> None]
DuoRelates == [m \in Duo |-> {}]
DuoMentions == [m \in Duo |-> {}]

\* a1 is in x, a2 in y; nothing is superseded.
Crossing == {a1, a2}
CrossingNs == [m \in Crossing |-> IF m = a2 THEN y ELSE x]
CrossingHome == SoloHome
CrossingReplaces == [m \in Crossing |-> None]
CrossingSignaller == SoloSignaller
\* a2 relates to a1.
CrossingRelates == [m \in Crossing |-> IF m = a2 THEN {a1} ELSE {}]
CrossingMentions == [m \in Crossing |-> {}]

\* a1 describes an artifact in x, and a2, in y, has a span of it without a uri.
SpanningRelates == SoloRelates
SpanningMentions == SoloMentions
SpanningDescribes == [m \in Crossing |-> IF m = a1 THEN {f} ELSE {}]

\* a2, in the shared namespace x, supersedes a1 of the unshared y.
SupersedingNs == [m \in Crossing |-> IF m = a1 THEN y ELSE x]
=============================================================================
