------------------------------- MODULE Output -------------------------------
(***************************************************************************)
(* What NodeInspector keeps of a tool's output and what it makes of it     *)
(* (boundedWriter, parseVersion, nonBlankLines in inspect/node).           *)
(*                                                                         *)
(* An output is a sequence of pieces: "newline", "space", "v" and words,   *)
(* of which Printed knows the strict semantic versions.  The limit counts  *)
(* pieces.                                                                 *)
(***************************************************************************)
EXTENDS SemverRange

CONSTANTS
    Printed,        \* the words that are versions, as [parts, pre] records
    OutputLimit     \* the limit of boundedWriter

ASSUME OutputAssumption ==
    /\ OutputLimit \in Nat
    /\ \A word \in DOMAIN Printed : Printed[word] \in ExactVersions

Lesser(m, n) == IF m <= n THEN m ELSE n

\* Bugs the checks must find: the chunk that reaches the limit is kept whole,
\* or is dropped whole.
KeepWhileRoom(kept, chunk) == IF Len(kept) < OutputLimit THEN kept \o chunk ELSE kept

KeepWholeChunks(kept, chunk) ==
    IF Len(kept) + Len(chunk) < OutputLimit THEN kept \o chunk ELSE kept

\* boundedWriter.Write.
Keep(kept, chunk) == kept \o SubSeq(chunk, 1, Lesser(OutputLimit - Len(kept), Len(chunk)))

\* What strings.TrimSpace leaves of a line begins and ends with ink.
Ink(output) == {i \in DOMAIN output : output[i] \notin {"space", "newline"}}

Unbroken(output, i, j) == \A k \in i..j : output[k] # "newline"

\* nonBlankLines: strings.Split at the newlines, strings.TrimSpace of each
\* line; the positions of the first and of the last ink of those that have any.
NonBlankLines(output) ==
    {line \in Ink(output) \X Ink(output) :
        /\ line[1] <= line[2]
        /\ Unbroken(output, line[1], line[2])
        /\ ~\E i \in Ink(output) :
             \/ i < line[1] /\ Unbroken(output, i, line[1])
             \/ i > line[2] /\ Unbroken(output, line[2], i)}

\* Only node prints a "v" before its version.
Candidate(tool, line) ==
    IF tool = "node" /\ Head(line) = "v" THEN Tail(line) ELSE line

ParseVersion(tool, output) ==
    LET lines == NonBlankLines(output)
        line  == CHOOSE line \in lines : TRUE
        candidate == Candidate(tool, SubSeq(output, line[1], line[2]))
    IN IF Cardinality(lines) = 1 /\ Len(candidate) = 1 /\ candidate[1] \in DOMAIN Printed
       THEN VersionOf(Printed[candidate[1]])
       ELSE NoVersion
=============================================================================
