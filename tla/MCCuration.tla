----------------------------- MODULE MCCuration -----------------------------
(***************************************************************************)
(* Small instances of Curation for TLC.  Session a, of namespace x, is a   *)
(* question, a decision about file f, and a rationale; session b, of       *)
(* namespace y, begins with a note of the assistant and goes on with a     *)
(* contradiction about f and an answer.  A client sends what a session has *)
(* so far, any number of times, and once a forgery of a's first message.   *)
(***************************************************************************)
EXTENDS Curation

CONSTANTS a, b, x, y, f

Said(role, kind, contradicts, artifact) ==
    [role |-> role, content |-> [kind |-> kind, contradicts |-> contradicts, artifact |-> artifact]]

Transcript(s) ==
    IF s = a
    THEN << Said("user", "qa_pair", FALSE, None), Said("assistant", "decision", FALSE, f),
            Said("user", "rationale", FALSE, None) >>
    ELSE << Said("assistant", "qa_pair", FALSE, None), Said("user", "decision", TRUE, f),
            Said("assistant", "qa_pair", FALSE, None) >>

SoFar(s, k) == [session |-> s, ns |-> IF s = a THEN x ELSE y, msgs |-> SubSeq(Transcript(s), 1, k)]

MCRequests ==
    {SoFar(a, 1), SoFar(a, 2), SoFar(a, 3), SoFar(b, 1), SoFar(b, 2), SoFar(b, 3)} \cup
    {[session |-> a, ns |-> x, msgs |-> <<Said("user", "debug_trace", FALSE, None)>>]}

\* The clients above are those of the theorem about disjoint chunks.
ASSUME WholeSessions == SentFromTheStart

MCPromotions ==
    {[chunks |-> <<<<a, 1>>, <<a, 2>>>>, ns |-> x], [chunks |-> <<<<b, 2>>>>, ns |-> y]}
=============================================================================
