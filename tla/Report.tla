------------------------------- MODULE Report -------------------------------
(***************************************************************************)
(* internal/report: Summarize, Sort and Render.  A line of the report is   *)
(* the kind of line it is, the requirement it is about and the label or    *)
(* the counts on it.  Constraints and evidence come from a file that       *)
(* anybody may have written; reasons and observations are composed by the  *)
(* program and break no line.                                              *)
(***************************************************************************)
EXTENDS Schema

Match(requirement, present, version, status) ==
    [requirement |-> requirement, present |-> present, version |-> version, status |-> status]

Line(kind, name, label) == [kind |-> kind, name |-> name, label |-> label]

\* What a reader sees where a text broke a line: a line like any other.
Forged == Line("forged", Empty, Empty)

\* Summarize: the count of each status.
Summary(matches) ==
    [s \in Statuses |-> Cardinality({i \in DOMAIN matches : matches[i].status = s})]

\* Sort: the names of a valid file differ, so the further keys never decide.
Sorted(matches) ==
    ByName(matches, [i \in DOMAIN matches |-> matches[i].requirement.name])

\* A bug the checks must find: separators beyond ASCII are not looked for.
QuotesControls(breaks) == IF breaks = "control" THEN "none" ELSE breaks

\* printable: of the ways a text can break a line, none is left once
\* strconv.Quote has escaped it.
Printable(breaks) == IF breaks \in {"control", "separator"} THEN "none" ELSE breaks

\* How a string, or a constraint, breaks a line.
BreakOf(string) == IF string \in Breaking THEN "separator" ELSE "none"
BreakIn(text)   == IF text.ws = "spaces" THEN "none" ELSE "control"

\* One line with the given texts on it.
Shown(line, breaks) ==
    <<line>> \o (IF \E b \in breaks : Printable(b) # "none" THEN <<Forged>> ELSE <<>>)

\* The lines of one match.
Block(match) ==
    LET r == match.requirement
    IN Shown(Line("match", r.name, match.status), {BreakOf(r.name), BreakIn(r.constraint)})
       \o <<Line("reason", r.name, Empty)>>
       \o FlattenSeq([i \in DOMAIN r.evidence |->
                         Shown(Line("evidence", r.name, Empty),
                               {BreakOf(r.evidence[i].source), BreakOf(r.evidence[i].field)})])

Render(matches) ==
    LET sorted == Sorted(matches)
    IN [lines   |-> FlattenSeq([i \in DOMAIN sorted |-> Block(sorted[i])]),
        summary |-> Summary(matches)]
=============================================================================
