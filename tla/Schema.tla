------------------------------- MODULE Schema -------------------------------
(***************************************************************************)
(* internal/schema: womm.yaml as a document, Parse with its two decodings  *)
(* (the node tree for the version and the warnings, the struct for the     *)
(* contents), validate and Marshal.                                        *)
(*                                                                         *)
(* A mapping keeps the sequence of its keys, unknown and repeated ones     *)
(* included, and beside it the value at each known key.  The version has   *)
(* two values: the text its node carries and what YAML makes of it.  They  *)
(* differ for an alias, whose node carries the anchor's name.              *)
(***************************************************************************)
EXTENDS Declarations

CONSTANTS
    Breaking,       \* strings with a line or paragraph separator
    Hiding          \* strings with spaces or invisible format characters

NotAnInteger == -99
SchemaVersion == 1

\* Items of "requirements": a mapping, or null.
Item(keys, name, constraint, evidence) ==
    [mapping |-> TRUE, keys |-> keys, name |-> name, constraint |-> constraint,
     evidence |-> evidence]

\* An evidence entry, a service and the environment section.
Entry(keys, source, field) == [keys |-> keys, source |-> source, field |-> field]
Service(keys, hasVersion) == [keys |-> keys, hasVersion |-> hasVersion]

Scalar(text, value) == [text |-> text, value |-> value]

\* A stream: how many documents the decoder finds, whether their syntax and
\* the types of their values are right, and the first one; whether its
\* "version" and its "requirements" are aliases.
Stream(documents, syntax, root, keys, version, versionAliased, requirements, aliased, services, environment) ==
    [documents |-> documents, syntax |-> syntax, root |-> root, keys |-> keys,
     version |-> version, versionAliased |-> versionAliased,
     requirements |-> requirements, aliased |-> aliased,
     services |-> services, environment |-> environment]

\* Any key, those of the tables below among them.
Keys == STRING \cup {"version", "requirements", "services", "environment", "name", "constraint",
                     "evidence", "source", "field", "value", "port", "required", "optional"}

Entries  == [keys : Seq(Keys), source : Strings, field : Strings]
Items    == [mapping : BOOLEAN, keys : Seq(Keys), name : Strings, constraint : Written,
             evidence : Seq(Entries)]
Services == [keys : Seq(Keys), hasVersion : BOOLEAN]
Streams  == [documents : Nat, syntax : BOOLEAN,
             root : {"none", "mapping", "sequence", "scalar", "alias"}, keys : Seq(Keys),
             version : [text : Int, value : Int], versionAliased : BOOLEAN,
             requirements : Seq(Items), aliased : BOOLEAN,
             services : Seq(Services), environment : Seq(Keys)]

KeysOf(seq) == {seq[i] : i \in DOMAIN seq}
Repeated(seq, known) ==
    \E i, j \in DOMAIN seq : i # j /\ seq[i] = seq[j] /\ seq[i] \in known

\* A section whose key is not there has no contents; and what is spelled like
\* SchemaVersion, and is no alias, is that integer or, if a tag says so, none.
Readable(doc) ==
    /\ doc \in Streams
    /\ "requirements" \in KeysOf(doc.keys) \/ doc.requirements = <<>>
    /\ "services" \in KeysOf(doc.keys) \/ doc.services = <<>>
    /\ "environment" \in KeysOf(doc.keys) \/ doc.environment = <<>>
    /\ (doc.version.text = SchemaVersion /\ ~doc.versionAliased) =>
         doc.version.value \in {SchemaVersion, NotAnInteger}

\* The environment section counts when it names variables.
File(requirements, services, environment) ==
    [requirements |-> requirements, services |-> services, environment |-> environment]

NoFile == File(<<>>, <<>>, FALSE)
ParseError(err, warnings) == [file |-> NoFile, warnings |-> warnings, err |-> err]

-----------------------------------------------------------------------------
(* The first decoding.                                                     *)

\* Bugs the checks must find: the tables and the yaml tags drift apart.
NoEvidenceKey == {"name", "constraint"}
NoteIsAllowed == {"source", "field", "value", "note"}

TopLevelKeys    == {"version", "requirements", "services", "environment"}
RequirementKeys == {"name", "constraint", "evidence"}
EvidenceKeys    == {"source", "field", "value"}
ServiceKeys     == {"version", "port"}
EnvironmentKeys == {"required", "optional"}

Warn(where, keys, allowed) == {<<where, k>> : k \in KeysOf(keys) \ allowed}

WarnAll(where, records, allowed) == UNION {Warn(where, r.keys, allowed) : r \in records}

\* checkUnknownKeys; an alias node has no contents of its own.
CheckUnknownKeys(doc) ==
    LET has(section) == section \in KeysOf(doc.keys)
        items  == {item \in KeysOf(doc.requirements) :
                     has("requirements") /\ ~doc.aliased /\ item.mapping}
        proofs == UNION {KeysOf(item.evidence) :
                           item \in {i \in items : "evidence" \in KeysOf(i.keys)}}
    IN Warn("top level", doc.keys, TopLevelKeys)
       \cup WarnAll("requirement", items, RequirementKeys)
       \cup WarnAll("evidence", proofs, EvidenceKeys)
       \cup (IF has("services") THEN WarnAll("service", KeysOf(doc.services), ServiceKeys) ELSE {})
       \cup (IF has("environment") THEN Warn("environment", doc.environment, EnvironmentKeys) ELSE {})

\* extractVersion and the versionError family.
VersionPolicy(doc) ==
    CASE "version" \notin KeysOf(doc.keys)       -> "no version"
      [] "version" \in KeysOf(doc.keys) /\ doc.version.text = NotAnInteger -> "not an integer"
      [] OTHER -> CASE doc.version.text = SchemaVersion -> "none"
                    [] doc.version.text < SchemaVersion -> "obsolete"
                    [] doc.version.text > SchemaVersion -> "future"

-----------------------------------------------------------------------------
(* The second decoding, into the struct: by the yaml tags.                 *)

\* A key that is not there leaves the zero value.
Decoded(item) ==
    LET at(key, value, zero) == IF key \in KeysOf(item.keys) THEN value ELSE zero
    IN IF ~item.mapping THEN Requirement(Empty, Blank, <<>>)
       ELSE Requirement(at("name", item.name, Empty), at("constraint", item.constraint, Blank),
              at("evidence",
                 [i \in DOMAIN item.evidence |->
                    LET entry == item.evidence[i]
                    IN Evidence(IF "source" \in KeysOf(entry.keys) THEN entry.source ELSE Empty,
                                IF "field" \in KeysOf(entry.keys) THEN entry.field ELSE Empty)],
                 <<>>))

Decode(doc) ==
    File(IF "requirements" \in KeysOf(doc.keys)
         THEN [i \in DOMAIN doc.requirements |-> Decoded(doc.requirements[i])] ELSE <<>>,
         IF "services" \in KeysOf(doc.keys)
         THEN [i \in DOMAIN doc.services |->
                 "version" \in KeysOf(doc.services[i].keys) /\ doc.services[i].hasVersion]
         ELSE <<>>,
         "environment" \in KeysOf(doc.keys) /\ KeysOf(doc.environment) \cap EnvironmentKeys # {})

\* yaml.Unmarshal fails on a repeated field and on a value of another type.
Unmarshals(doc) ==
    /\ ~Repeated(doc.keys, TopLevelKeys)
    /\ doc.version.value # NotAnInteger
    /\ \A i \in DOMAIN doc.requirements :
         LET item == doc.requirements[i]
         IN /\ ~Repeated(item.keys, RequirementKeys)
            /\ \A j \in DOMAIN item.evidence : ~Repeated(item.evidence[j].keys, EvidenceKeys)
    /\ \A i \in DOMAIN doc.services : ~Repeated(doc.services[i].keys, ServiceKeys)
    /\ ~Repeated(doc.environment, EnvironmentKeys)

-----------------------------------------------------------------------------
(* validate.                                                               *)

ValidName(name) == name # Empty /\ name \notin Breaking \cup Hiding

\* A bug the checks must find: a name is compared with the one before only.
NeighboursDiffer(reqs) ==
    \A i \in DOMAIN reqs : i + 1 \in DOMAIN reqs => reqs[i + 1].name # reqs[i].name

UniqueNames(reqs) == \A i, j \in DOMAIN reqs : reqs[i].name = reqs[j].name => i = j

Valid(file) ==
    LET reqs == file.requirements
    IN /\ UniqueNames(reqs)
       /\ \A i \in DOMAIN reqs :
            /\ ValidName(reqs[i].name)
            /\ reqs[i].constraint # Blank
            /\ reqs[i].evidence # <<>>
            /\ \A j \in DOMAIN reqs[i].evidence :
                 reqs[i].evidence[j].source # Empty /\ reqs[i].evidence[j].field # Empty
       /\ \A i \in DOMAIN file.services : file.services[i]

-----------------------------------------------------------------------------
(* Parse and Marshal.                                                      *)

ParseFile(doc) ==
    LET warnings == CheckUnknownKeys(doc)
        policy   == VersionPolicy(doc)
    IN CASE doc.documents # 1 \/ ~doc.syntax \/ doc.root # "mapping" -> ParseError("malformed", {})
         [] OTHER ->
              IF policy # "none" THEN ParseError(policy, warnings)
              ELSE IF ~Unmarshals(doc) THEN ParseError("malformed", warnings)
              ELSE IF ~Valid(Decode(doc)) THEN ParseError("invalid", warnings)
              ELSE [file |-> Decode(doc), warnings |-> warnings, err |-> "none"]

\* "requirements" is always there; empty sections are not.
Marshal(file) ==
    Stream(1, TRUE, "mapping",
           <<"version", "requirements">> \o (IF file.services = <<>> THEN <<>> ELSE <<"services">>)
             \o (IF file.environment THEN <<"environment">> ELSE <<>>),
           Scalar(SchemaVersion, SchemaVersion), FALSE,
           [i \in DOMAIN file.requirements |->
              LET r == file.requirements[i]
              IN Item(<<"name", "constraint", "evidence">>, r.name, r.constraint,
                      [j \in DOMAIN r.evidence |->
                         Entry(<<"source", "field", "value">>,
                               r.evidence[j].source, r.evidence[j].field)])],
           FALSE,
           [i \in DOMAIN file.services |-> Service(<<"version">>, file.services[i])],
           IF file.environment THEN <<"required">> ELSE <<>>)
=============================================================================
