--------------------------- MODULE DocumentProofs ---------------------------
(* Lemmas about the operators that module EndToEnd is built from: the two   *)
(* decodings of a document, the sort by name, the detectors, what Marshal   *)
(* writes and Parse reads, the reading of an output and the lines of the    *)
(* report.  None is about a step; all hold for every value of the constants.*)
EXTENDS EndToEnd, RangeProofs, FiniteSetTheorems

(* The two decodings of a document.                                         *)

\* An empty constraint is a constraint as it can be written.
LEMMA BlankType == Blank \in Written
<1>1. <<>> \in Seq(Fields)
  OBVIOUS
<1>2. <<<<>>>> \in Seq(Seq(Fields))
  BY <1>1
<1> QED
  BY <1>2 DEF Blank, Text, Written, Whitespace

\* An evidence entry, as the reader has it.
EvidenceEntries == [source : Strings, field : Strings]

\* The decoding of one evidence entry.
DecodedEntry(entry) ==
    Evidence(IF "source" \in KeysOf(entry.keys) THEN entry.source ELSE Empty,
             IF "field" \in KeysOf(entry.keys) THEN entry.field ELSE Empty)

(* What is decoded of a list item, and which of its keys it was read        *)
(* from.                                                                    *)
LEMMA DecodedItem ==
    ASSUME NEW item \in Items
    PROVE  /\ Decoded(item) \in Requirements
           /\ Decoded(item).name # Empty =>
                item.mapping /\ "name" \in KeysOf(item.keys) /\ Decoded(item).name = item.name
           /\ Decoded(item).evidence # <<>> =>
                /\ item.mapping /\ "evidence" \in KeysOf(item.keys)
                /\ item.evidence # <<>>
                /\ Decoded(item).evidence = [i \in DOMAIN item.evidence |-> DecodedEntry(item.evidence[i])]
<1> DEFINE decoded == [i \in DOMAIN item.evidence |-> DecodedEntry(item.evidence[i])]
           has(key) == key \in KeysOf(item.keys)
<1>1. Empty \in Strings
  BY DEF Strings
<1>2. decoded \in Seq(EvidenceEntries) /\ (decoded # <<>> => item.evidence # <<>>)
  <2>1. item.evidence \in Seq(Entries)
    BY DEF Items
  <2>2. \A i \in DOMAIN item.evidence : DecodedEntry(item.evidence[i]) \in EvidenceEntries
    <3>1. ASSUME NEW entry \in Entries PROVE DecodedEntry(entry) \in EvidenceEntries
      <4> DEFINE a == IF "source" \in KeysOf(entry.keys) THEN entry.source ELSE Empty
                 b == IF "field" \in KeysOf(entry.keys) THEN entry.field ELSE Empty
      <4>1. a \in Strings /\ b \in Strings
        BY <1>1 DEF Entries
      <4>2. DecodedEntry(entry) = Evidence(a, b)
        BY DEF DecodedEntry
      <4> HIDE DEF a, b
      <4> QED
        BY <4>1, <4>2 DEF Evidence, EvidenceEntries
    <3>2. \A i \in DOMAIN item.evidence : item.evidence[i] \in Entries
      BY <2>1
    <3> QED
      BY <3>1, <3>2
  <2>3. Len(item.evidence) \in Nat /\ decoded \in [1..Len(item.evidence) -> EvidenceEntries]
    BY <2>1, <2>2
  <2>4. decoded \in Seq(EvidenceEntries) /\ Len(decoded) = Len(item.evidence)
    BY <2>3
  <2> QED
    BY <2>1, <2>4
<1>3. <<>> \in Seq(EvidenceEntries)
  OBVIOUS
<1>4. Requirement(Empty, Blank, <<>>) \in Requirements
  BY <1>1, <1>3, BlankType DEF Requirement, Requirements, EvidenceEntries
<1>5. ~item.mapping => Decoded(item) = Requirement(Empty, Blank, <<>>)
  BY Zenon DEF Decoded
<1>6. item.mapping => Decoded(item) =
        Requirement(IF has("name") THEN item.name ELSE Empty,
                    IF has("constraint") THEN item.constraint ELSE Blank,
                    IF has("evidence") THEN decoded ELSE <<>>)
  BY Zenon DEF Decoded, DecodedEntry
<1> HIDE DEF has, decoded
<1>7. item.mapping => Decoded(item) \in Requirements
  <2> DEFINE a == IF has("name") THEN item.name ELSE Empty
             b == IF has("constraint") THEN item.constraint ELSE Blank
             c == IF has("evidence") THEN decoded ELSE <<>>
  <2>1. item.name \in Strings /\ item.constraint \in Written
    BY DEF Items
  <2>2. a \in Strings /\ b \in Written /\ c \in Seq(EvidenceEntries)
    BY <1>1, <1>2, <1>3, <2>1, BlankType
  <2>3. item.mapping => Decoded(item) = Requirement(a, b, c)
    BY <1>6
  <2> HIDE DEF a, b, c
  <2> QED
    BY <2>2, <2>3 DEF Requirement, Requirements, EvidenceEntries
<1>8. item.mapping => /\ Decoded(item).name = IF has("name") THEN item.name ELSE Empty
                      /\ Decoded(item).evidence = IF has("evidence") THEN decoded ELSE <<>>
  BY <1>6 DEF Requirement
<1>9. ~item.mapping => Decoded(item).name = Empty /\ Decoded(item).evidence = <<>>
  BY <1>5 DEF Requirement
<1>10. Decoded(item) \in Requirements
  BY <1>4, <1>5, <1>7
<1>11. Decoded(item).name # Empty =>
                item.mapping /\ has("name") /\ Decoded(item).name = item.name
  BY <1>8, <1>9
<1>12. Decoded(item).evidence # <<>> =>
                item.mapping /\ has("evidence") /\ item.evidence # <<>> /\ Decoded(item).evidence = decoded
  BY <1>2, <1>8, <1>9
<1> QED
  BY <1>10, <1>11, <1>12 DEF has, decoded

\* A file, as Parse returns it.
Files == [requirements : Seq(Requirements), services : Seq(BOOLEAN), environment : BOOLEAN]

\* What is decoded of a document: an item for an item.
LEMMA DecodedFile ==
    ASSUME NEW d \in Streams
    PROVE  /\ Decode(d) \in Files
           /\ "requirements" \in KeysOf(d.keys) =>
                Decode(d).requirements = [i \in DOMAIN d.requirements |-> Decoded(d.requirements[i])]
           /\ "requirements" \notin KeysOf(d.keys) => Decode(d).requirements = <<>>
<1> DEFINE reqs == [i \in DOMAIN d.requirements |-> Decoded(d.requirements[i])]
           given == [i \in DOMAIN d.services |->
                       "version" \in KeysOf(d.services[i].keys) /\ d.services[i].hasVersion]
           has(key) == key \in KeysOf(d.keys)
           names == has("environment") /\ KeysOf(d.environment) \cap EnvironmentKeys # {}
<1>1. reqs \in Seq(Requirements)
  <2>1. d.requirements \in Seq(Items)
    BY DEF Streams
  <2>2. \A i \in DOMAIN d.requirements : Decoded(d.requirements[i]) \in Requirements
    <3>1. \A i \in DOMAIN d.requirements : d.requirements[i] \in Items
      BY <2>1
    <3> QED
      BY <3>1, DecodedItem
  <2>3. Len(d.requirements) \in Nat /\ reqs \in [1..Len(d.requirements) -> Requirements]
    BY <2>1, <2>2
  <2> QED
    BY <2>3
<1>2. given \in Seq(BOOLEAN)
  <2>1. d.services \in Seq(Services)
    BY DEF Streams
  <2>2. \A i \in DOMAIN d.services :
          ("version" \in KeysOf(d.services[i].keys) /\ d.services[i].hasVersion) \in BOOLEAN
    BY Zenon
  <2>3. Len(d.services) \in Nat /\ DOMAIN d.services = 1..Len(d.services)
    BY <2>1
  <2>4. given \in [1..Len(d.services) -> BOOLEAN]
    BY <2>2, <2>3, Zenon
  <2> HIDE DEF given
  <2> QED
    BY <2>3, <2>4
<1>3. Decode(d) = File(IF has("requirements") THEN reqs ELSE <<>>,
                       IF has("services") THEN given ELSE <<>>, names)
  BY Zenon DEF Decode
<1>4. <<>> \in Seq(Requirements) /\ <<>> \in Seq(BOOLEAN) /\ names \in BOOLEAN
  OBVIOUS
<1> HIDE DEF reqs, given, has, names
<1>5. Decode(d) \in Files
  <2> DEFINE a == IF has("requirements") THEN reqs ELSE <<>>
             b == IF has("services") THEN given ELSE <<>>
  <2>1. a \in Seq(Requirements) /\ b \in Seq(BOOLEAN)
    BY <1>1, <1>2, <1>4
  <2>2. Decode(d) = File(a, b, names)
    BY <1>3
  <2> HIDE DEF a, b
  <2> QED
    BY <2>1, <2>2, <1>4 DEF File, Files
<1>6. Decode(d).requirements = IF has("requirements") THEN reqs ELSE <<>>
  BY <1>3 DEF File
<1> QED
  BY <1>5, <1>6 DEF has, reqs

(* An accepted document passed every check of Parse.                        *)
LEMMA Accepted ==
    ASSUME NEW d, ParseFile(d).err = "none"
    PROVE  /\ d.documents = 1
           /\ VersionPolicy(d) = "none"
           /\ Unmarshals(d)
           /\ Valid(Decode(d))
           /\ ParseFile(d) = [file |-> Decode(d), warnings |-> CheckUnknownKeys(d), err |-> "none"]
<1> DEFINE broken == d.documents # 1 \/ ~d.syntax \/ d.root # "mapping"
           warnings == CheckUnknownKeys(d)
<1>1. \A err, w : ParseError(err, w).err = err
  BY DEF ParseError
<1>8. /\ ParseError("malformed", warnings).err # "none"
      /\ ParseError("invalid", warnings).err # "none"
  BY <1>1
<1>2. broken => ParseFile(d) = ParseError("malformed", {})
  BY Zenon DEF ParseFile
<1>3. ~broken
  BY <1>1, <1>2
<1>4. ParseFile(d) =
        IF VersionPolicy(d) # "none" THEN ParseError(VersionPolicy(d), warnings)
        ELSE IF ~Unmarshals(d) THEN ParseError("malformed", warnings)
        ELSE IF ~Valid(Decode(d)) THEN ParseError("invalid", warnings)
        ELSE [file |-> Decode(d), warnings |-> warnings, err |-> "none"]
  BY <1>3, Zenon DEF ParseFile
<1>5. VersionPolicy(d) = "none"
  <2>1. VersionPolicy(d) # "none" => ParseFile(d) = ParseError(VersionPolicy(d), warnings)
    BY <1>4, Zenon
  <2> QED
    BY <1>1, <2>1
<1>6. Unmarshals(d)
  <2>1. ~Unmarshals(d) => ParseFile(d) = ParseError("malformed", warnings)
    BY <1>4, <1>5, Zenon
  <2> QED
    BY <1>8, <2>1, Zenon
<1>7. Valid(Decode(d))
  <2>1. ~Valid(Decode(d)) => ParseFile(d) = ParseError("invalid", warnings)
    BY <1>4, <1>5, <1>6, Zenon
  <2> QED
    BY <1>8, <2>1, Zenon
<1> QED
  BY <1>3, <1>4, <1>5, <1>6, <1>7, Zenon

\* A document whose version is accepted says so under its own key.
LEMMA AcceptedVersion ==
    ASSUME NEW d, d.version.text \in Int, VersionPolicy(d) = "none"
    PROVE  d.version.text = SchemaVersion /\ "version" \in KeysOf(d.keys)
BY DEF VersionPolicy, SchemaVersion, NotAnInteger

(* A file has one name per requirement.                                     *)
LEMMA NamesAreCounted ==
    ASSUME NEW reqs \in Seq(Requirements), UniqueNames(reqs)
    PROVE  Cardinality({reqs[i].name : i \in DOMAIN reqs}) = Len(reqs)
<1> DEFINE names == {reqs[i].name : i \in DOMAIN reqs}
           name == [i \in 1..Len(reqs) |-> reqs[i].name]
<1>1. DOMAIN reqs = 1..Len(reqs) /\ Len(reqs) \in Nat
  OBVIOUS
<1>2. name \in Bijection(1..Len(reqs), names)
  <2>1. name \in [1..Len(reqs) -> names]
    BY <1>1
  <2>2. \A i, j \in 1..Len(reqs) : name[i] = name[j] => i = j
    BY <1>1 DEF UniqueNames
  <2>3. \A n \in names : \E i \in 1..Len(reqs) : name[i] = n
    BY <1>1
  <2> HIDE DEF name, names
  <2>4. name \in Injection(1..Len(reqs), names)
    BY <2>1, <2>2 DEF Injection, IsInjective
  <2>5. name \in Surjection(1..Len(reqs), names)
    BY <2>1, <2>3 DEF Surjection
  <2> QED
    BY <2>4, <2>5 DEF Bijection
<1>3. ExistsBijection(1..Len(reqs), names)
  BY <1>2 DEF ExistsBijection
<1> QED
  BY <1>1, <1>3, FS_CountingElements

(* The requirements of an accepted document are those it lists.             *)
AcceptedItem(item, r) ==
    /\ item \in Items /\ item.mapping
    /\ "evidence" \in KeysOf(item.keys)
    /\ r = Decoded(item) /\ r \in Requirements
    /\ r.name = item.name /\ ValidName(r.name)
    /\ r.constraint # Blank
    /\ r.evidence = [j \in DOMAIN item.evidence |-> DecodedEntry(item.evidence[j])]
    /\ 1 \in DOMAIN item.evidence
    /\ \A j \in DOMAIN r.evidence : r.evidence[j].source # Empty /\ r.evidence[j].field # Empty

\* What an accepted document holds, item by item.
LEMMA AcceptedRequirements ==
    ASSUME NEW d, Readable(d), ParseFile(d).err = "none"
    PROVE  /\ ParseFile(d).file \in Files
           /\ ParseFile(d).file.requirements = [i \in DOMAIN d.requirements |-> Decoded(d.requirements[i])]
           /\ d.requirements \in Seq(Items)
           /\ UniqueNames(ParseFile(d).file.requirements)
           /\ \A i \in DOMAIN d.requirements :
                AcceptedItem(d.requirements[i], ParseFile(d).file.requirements[i])
<1> DEFINE reqs == Decode(d).requirements
<1>1. d \in Streams /\ ("requirements" \in KeysOf(d.keys) \/ d.requirements = <<>>)
  BY DEF Readable
<1>2. ParseFile(d).file = Decode(d) /\ Valid(Decode(d))
  BY Accepted
<1>3. d.requirements \in Seq(Items)
  BY <1>1 DEF Streams
<1>4. reqs = [i \in DOMAIN d.requirements |-> Decoded(d.requirements[i])]
  <2>1. CASE "requirements" \in KeysOf(d.keys)
    BY <1>1, <2>1, DecodedFile
  <2>2. CASE "requirements" \notin KeysOf(d.keys)
    <3>1. reqs = <<>> /\ d.requirements = <<>>
      BY <1>1, <2>2, DecodedFile
    <3>2. DOMAIN d.requirements = {}
      BY <3>1
    <3>3. [i \in DOMAIN d.requirements |-> Decoded(d.requirements[i])] = <<>>
      BY <3>2
    <3> QED
      BY <3>1, <3>3
  <2> QED
    BY <2>1, <2>2
<1>5. Decode(d) \in Files
  BY <1>1, DecodedFile
<1>6. /\ UniqueNames(reqs)
      /\ \A i \in DOMAIN reqs :
            /\ ValidName(reqs[i].name)
            /\ reqs[i].constraint # Blank
            /\ reqs[i].evidence # <<>>
            /\ \A j \in DOMAIN reqs[i].evidence :
                 reqs[i].evidence[j].source # Empty /\ reqs[i].evidence[j].field # Empty
  BY <1>2 DEF Valid
<1> HIDE DEF reqs
<1>7. ASSUME NEW i \in DOMAIN d.requirements
      PROVE  AcceptedItem(d.requirements[i], reqs[i])
  <2> DEFINE item == d.requirements[i]
             r    == reqs[i]
  <2>1. item \in Items /\ i \in DOMAIN reqs /\ r = Decoded(item)
    BY <1>3, <1>4
  <2>2. r.evidence # <<>> /\ r.name # Empty /\ ValidName(r.name)
    BY <1>6, <2>1 DEF ValidName
  <2> HIDE DEF item, r
  <2>3. /\ item.mapping /\ "evidence" \in KeysOf(item.keys) /\ r \in Requirements /\ r.name = item.name
        /\ item.evidence # <<>>
        /\ r.evidence = [j \in DOMAIN item.evidence |-> DecodedEntry(item.evidence[j])]
    BY <2>1, <2>2, DecodedItem
  <2>4. 1 \in DOMAIN item.evidence
    <3>1. item.evidence \in Seq(Entries)
      BY <2>1 DEF Items
    <3> QED
      BY <2>3, <3>1
  <2>5. r.constraint # Blank /\ \A j \in DOMAIN r.evidence : r.evidence[j].source # Empty /\ r.evidence[j].field # Empty
    BY <1>6, <2>1 DEF r
  <2> QED
    BY <2>1, <2>2, <2>3, <2>4, <2>5, Zenon DEF item, r, AcceptedItem
<1>8. ParseFile(d).file.requirements = reqs
  BY <1>2 DEF reqs
<1> QED
  BY <1>2, <1>3, <1>4, <1>5, <1>6, <1>7, <1>8, Zenon

\* An accepted document can be read in one way only.
LEMMA AcceptedIsUnambiguous ==
    ASSUME NEW d, Readable(d), ParseFile(d).err = "none"
    PROVE  LET reqs == ParseFile(d).file.requirements
           IN /\ d.documents = 1
              /\ ~d.versionAliased => d.version.value = SchemaVersion
              /\ Cardinality({reqs[i].name : i \in DOMAIN reqs}) = Len(d.requirements)
              /\ \A i \in DOMAIN reqs :
                   /\ reqs[i].name \notin {Empty} \cup Breaking \cup Hiding
                   /\ \E j \in DOMAIN reqs[i].evidence :
                        reqs[i].evidence[j] = Evidence(d.requirements[i].evidence[j].source,
                                                       d.requirements[i].evidence[j].field)
<1> DEFINE reqs == ParseFile(d).file.requirements
<1>1. d.documents = 1
  BY Accepted
<1>2. ~d.versionAliased => d.version.value = SchemaVersion
  <2>1. d.version.text \in Int
    BY DEF Readable, Streams
  <2>2. d.version.text = SchemaVersion
    BY <2>1, Accepted, AcceptedVersion
  <2>3. d.version.value # NotAnInteger
    BY Accepted DEF Unmarshals
  <2> QED
    BY <2>2, <2>3 DEF Readable
<1>3. reqs \in Seq(Requirements) /\ Len(reqs) = Len(d.requirements) /\ UniqueNames(reqs)
  <2>1. reqs \in Seq(Requirements)
    BY AcceptedRequirements DEF Files
  <2>2. d.requirements \in Seq(Items) /\ DOMAIN reqs = DOMAIN d.requirements
    BY AcceptedRequirements
  <2>3. UniqueNames(reqs)
    BY AcceptedRequirements, Zenon
  <2> HIDE DEF reqs
  <2> QED
    BY <2>1, <2>2, <2>3
<1>4. Cardinality({reqs[i].name : i \in DOMAIN reqs}) = Len(d.requirements)
  <2> HIDE DEF reqs
  <2> QED
    BY <1>3, NamesAreCounted
<1>5. ASSUME NEW i \in DOMAIN reqs
      PROVE  /\ reqs[i].name \notin {Empty} \cup Breaking \cup Hiding
             /\ \E j \in DOMAIN reqs[i].evidence :
                  reqs[i].evidence[j] = Evidence(d.requirements[i].evidence[j].source,
                                                 d.requirements[i].evidence[j].field)
  <2> DEFINE item == d.requirements[i]
  <2>1. i \in DOMAIN d.requirements
    BY AcceptedRequirements
  <2>2. /\ ValidName(reqs[i].name) /\ 1 \in DOMAIN item.evidence
        /\ reqs[i].evidence = [j \in DOMAIN item.evidence |-> DecodedEntry(item.evidence[j])]
        /\ \A j \in DOMAIN reqs[i].evidence :
             reqs[i].evidence[j].source # Empty /\ reqs[i].evidence[j].field # Empty
    <3>1. AcceptedItem(item, reqs[i])
      BY <2>1, AcceptedRequirements
    <3> QED
      BY <3>1 DEF AcceptedItem
  <2> HIDE DEF reqs, item
  <2>3. /\ reqs[i].evidence[1] = DecodedEntry(item.evidence[1]) /\ 1 \in DOMAIN reqs[i].evidence
        /\ reqs[i].evidence[1].source # Empty /\ reqs[i].evidence[1].field # Empty
    BY <2>2
  <2>4. reqs[i].evidence[1] = Evidence(item.evidence[1].source, item.evidence[1].field)
    BY <2>3 DEF DecodedEntry, Evidence
  <2>5. reqs[i].name \notin {Empty} \cup Breaking \cup Hiding
    BY <2>2 DEF ValidName
  <2> QED
    BY <2>3, <2>4, <2>5 DEF item
<1> QED
  BY <1>1, <1>2, <1>4, <1>5

(* The warnings of one table are about the keys that it does not know.      *)
Told(warnings) == {w[2] : w \in warnings}
\* The keys of several mappings together.
AllKeys(records) == UNION {KeysOf(r.keys) : r \in records}

\* A warning for each is a warning for all.
LEMMA TellingAll ==
    ASSUME NEW a, NEW b
    PROVE  Told(a \cup b) = Told(a) \cup Told(b)
BY DEF Told

\* The warnings of one mapping name exactly its unknown keys.
LEMMA WarnedKeys ==
    ASSUME NEW where, NEW keys, NEW allowed
    PROVE  Told(Warn(where, keys, allowed)) = KeysOf(keys) \ allowed
<1>1. ASSUME NEW k \in KeysOf(keys) \ allowed PROVE k \in Told(Warn(where, keys, allowed))
  <2>1. <<where, k>> \in Warn(where, keys, allowed) /\ <<where, k>>[2] = k
    BY DEF Warn
  <2> QED
    BY <2>1 DEF Told
<1>2. ASSUME NEW w \in Warn(where, keys, allowed) PROVE w[2] \in KeysOf(keys) \ allowed
  BY DEF Warn
<1> QED
  BY <1>1, <1>2 DEF Told

\* And so do those of a list of mappings.
LEMMA WarnedKeysOfAll ==
    ASSUME NEW where, NEW records, NEW allowed
    PROVE  Told(WarnAll(where, records, allowed)) = AllKeys(records) \ allowed
<1> DEFINE all == WarnAll(where, records, allowed)
<1>1. \A w : w \in all <=> \E r \in records : w \in Warn(where, r.keys, allowed)
  BY Zenon DEF WarnAll
<1>2. \A k : k \in AllKeys(records) <=> \E r \in records : k \in KeysOf(r.keys)
  BY Zenon DEF AllKeys
<1> HIDE DEF all
<1>3. ASSUME NEW k \in AllKeys(records) \ allowed PROVE k \in Told(all)
  <2>1. PICK r \in records : k \in KeysOf(r.keys)
    BY <1>2
  <2>2. k \in Told(Warn(where, r.keys, allowed))
    BY <2>1, WarnedKeys
  <2>3. PICK w \in Warn(where, r.keys, allowed) : w[2] = k
    BY <2>2 DEF Told
  <2>4. w \in all
    BY <1>1, <2>3
  <2> QED
    BY <2>3, <2>4 DEF Told
<1>4. ASSUME NEW k \in Told(all) PROVE k \in AllKeys(records) \ allowed
  <2>1. PICK w \in all : w[2] = k
    BY DEF Told
  <2>2. PICK r \in records : w \in Warn(where, r.keys, allowed)
    BY <1>1
  <2>3. k \in Told(Warn(where, r.keys, allowed))
    BY <2>1, <2>2 DEF Told
  <2>4. k \in KeysOf(r.keys) \ allowed
    BY <2>3, WarnedKeys
  <2> QED
    BY <1>2, <2>4
<1> QED
  BY <1>3, <1>4 DEF all

\* Without aliases, exactly the keys the decoder ignores are warned of.
LEMMA IgnoredAreWarnedOf ==
    ASSUME Readable(doc), ParseFile(doc).err = "none", ~doc.aliased
    PROVE  Told(CheckUnknownKeys(doc)) = Ignored
<1> DEFINE has(section) == section \in KeysOf(doc.keys)
           items == {item \in KeysOf(doc.requirements) :
                       has("requirements") /\ ~doc.aliased /\ item.mapping}
           proofs == UNION {KeysOf(item.evidence) :
                              item \in {i \in items : "evidence" \in KeysOf(i.keys)}}
           services == KeysOf(doc.services)
           all == KeysOf(doc.requirements)
           a == Warn("top level", doc.keys, TopLevelKeys)
           b == WarnAll("requirement", items, RequirementKeys)
           c == WarnAll("evidence", proofs, EvidenceKeys)
           d == IF has("services") THEN WarnAll("service", services, ServiceKeys) ELSE {}
           e == IF has("environment") THEN Warn("environment", doc.environment, EnvironmentKeys) ELSE {}
<1>1. CheckUnknownKeys(doc) = a \cup b \cup c \cup d \cup e
  BY Zenon DEF CheckUnknownKeys
<1>2. \A i \in DOMAIN doc.requirements :
        doc.requirements[i].mapping /\ "evidence" \in KeysOf(doc.requirements[i].keys)
  BY AcceptedRequirements DEF AcceptedItem
<1>3. has("requirements") \/ doc.requirements = <<>>
  BY DEF Readable
<1>4. items = all
  <2>1. CASE has("requirements")
    <3> HIDE DEF has
    <3> QED
      BY <1>2, <2>1 DEF KeysOf
  <2>2. CASE ~has("requirements")
    BY <1>3, <2>2 DEF KeysOf
  <2> QED
    BY <2>1, <2>2
<1>5. proofs = UNION {KeysOf(doc.requirements[i].evidence) : i \in DOMAIN doc.requirements}
  <2>1. {i \in all : "evidence" \in KeysOf(i.keys)} = all
    BY <1>2 DEF KeysOf
  <2>2. proofs = UNION {KeysOf(item.evidence) : item \in all}
    BY <1>4, <2>1
  <2> HIDE DEF proofs
  <2> QED
    BY <2>2 DEF KeysOf
<1>6. d = WarnAll("service", services, ServiceKeys)
  <2>2. has("services") \/ services = {}
    <3>1. has("services") \/ doc.services = <<>>
      BY DEF Readable
    <3> QED
      BY <3>1 DEF KeysOf
  <2>3. WarnAll("service", {}, ServiceKeys) = {}
    BY DEF WarnAll
  <2> HIDE DEF has, services
  <2> QED
    BY <2>2, <2>3
<1>7. e = Warn("environment", doc.environment, EnvironmentKeys)
  <2>1. has("environment") \/ KeysOf(doc.environment) = {}
    <3>1. has("environment") \/ doc.environment = <<>>
      BY DEF Readable
    <3> QED
      BY <3>1 DEF KeysOf
  <2> HIDE DEF has
  <2> QED
    BY <2>1 DEF Warn
<1>8. b = WarnAll("requirement", all, RequirementKeys)
  BY <1>4
<1> HIDE DEF items, proofs, services, all, a, b, c, d, e
<1>9. Told(CheckUnknownKeys(doc)) = Told(a) \cup Told(b) \cup Told(c) \cup Told(d) \cup Told(e)
  <2>1. CheckUnknownKeys(doc) = (((a \cup b) \cup c) \cup d) \cup e
    BY <1>1
  <2>2. Told((((a \cup b) \cup c) \cup d) \cup e) = Told(((a \cup b) \cup c) \cup d) \cup Told(e)
    BY TellingAll
  <2>3. Told(((a \cup b) \cup c) \cup d) = Told((a \cup b) \cup c) \cup Told(d)
    BY TellingAll
  <2>4. Told((a \cup b) \cup c) = Told(a \cup b) \cup Told(c)
    BY TellingAll
  <2>5. Told(a \cup b) = Told(a) \cup Told(b)
    BY TellingAll
  <2> QED
    BY <2>1, <2>2, <2>3, <2>4, <2>5
<1>11. Told(a) = KeysOf(doc.keys) \ TopLevelKeys
  <2> DEFINE where == "top level"
  <2>1. a = Warn(where, doc.keys, TopLevelKeys)
    BY DEF a
  <2> HIDE DEF where
  <2> QED
    BY <2>1, WarnedKeys
<1>12. Told(b) = AllKeys(all) \ RequirementKeys
  BY <1>8, WarnedKeysOfAll
<1>13. Told(c) = AllKeys(proofs) \ EvidenceKeys
  BY WarnedKeysOfAll DEF c
<1>14. Told(d) = AllKeys(services) \ ServiceKeys
  BY <1>6, WarnedKeysOfAll
<1>15. Told(e) = KeysOf(doc.environment) \ EnvironmentKeys
  BY <1>7, WarnedKeys
<1>10. Ignored = (KeysOf(doc.keys) \ TopLevelKeys)
         \cup (AllKeys(all) \ RequirementKeys)
         \cup (AllKeys(proofs) \ EvidenceKeys)
         \cup (AllKeys(services) \ ServiceKeys)
         \cup (KeysOf(doc.environment) \ EnvironmentKeys)
  <2>1. /\ FileTags = TopLevelKeys /\ RequirementTags = RequirementKeys /\ EvidenceTags = EvidenceKeys
        /\ ServiceTags = ServiceKeys /\ EnvironmentTags = EnvironmentKeys
    BY DEF FileTags, TopLevelKeys, RequirementTags, RequirementKeys, EvidenceTags, EvidenceKeys,
           ServiceTags, ServiceKeys, EnvironmentTags, EnvironmentKeys
  <2> DEFINE listed == UNION {KeysOf(doc.requirements[i].evidence) : i \in DOMAIN doc.requirements}
  <2>2. Ignored = (KeysOf(doc.keys) \ FileTags)
         \cup (AllKeys(all) \ RequirementTags)
         \cup (AllKeys(listed) \ EvidenceTags)
         \cup (AllKeys(services) \ ServiceTags)
         \cup (KeysOf(doc.environment) \ EnvironmentTags)
    BY Zenon DEF Ignored, AllKeys, all, services
  <2>3. proofs = listed
    BY <1>5
  <2> HIDE DEF listed
  <2> QED
    BY <2>1, <2>2, <2>3
<1> QED
  BY <1>9, <1>10, <1>11, <1>12, <1>13, <1>14, <1>15

-----------------------------------------------------------------------------
(* Sorting by name.                                                         *)

(* Numbers can be put in order.                                             *)
InOrderOf(key, order, n) ==
    /\ order \in [1..n -> 1..n]
    /\ \A i, j \in 1..n : order[i] = order[j] => i = j
    /\ \A i, j \in 1..n : i < j => key[order[i]] <= key[order[j]]

\* By induction on how many there are.
LEMMA OrdersExist ==
    ASSUME NEW n \in Nat, NEW key \in [1..n -> Nat]
    PROVE  \E order : InOrderOf(key, order, n)
<1> DEFINE T == {k \in Nat : \A f \in [1..k -> Nat] : \E order : InOrderOf(f, order, k)}
<1>1. 0 \in T
  <2>1. ASSUME NEW f \in [1..0 -> Nat] PROVE InOrderOf(f, [i \in 1..0 |-> 1], 0)
    BY DEF InOrderOf
  <2> QED
    BY <2>1
<1>2. ASSUME NEW k \in T PROVE k + 1 \in T
  <2>1. k \in Nat /\ \A f \in [1..k -> Nat] : \E order : InOrderOf(f, order, k)
    OBVIOUS
  <2> HIDE DEF T
  <2>2. ASSUME NEW f \in [1..k + 1 -> Nat] PROVE \E order : InOrderOf(f, order, k + 1)
    <3> DEFINE values == {f[i] : i \in 1..k + 1}
    <3>1. values \subseteq Nat /\ f[1] \in values
      BY <2>1
    <3>2. PICK least \in values : \A v \in values : least <= v
      BY <3>1, LeastNatural
    <3>3. PICK m \in 1..k + 1 : least = f[m]
      OBVIOUS
    <3>4. \A i \in 1..k + 1 : f[m] <= f[i]
      BY <3>2, <3>3
    <3> HIDE DEF values
    <3> DEFINE other == [i \in 1..k |-> IF i < m THEN i ELSE i + 1]
               g == [i \in 1..k |-> f[other[i]]]
    <3>5. /\ \A i \in 1..k : other[i] \in 1..k + 1 /\ other[i] # m
          /\ \A i, j \in 1..k : other[i] = other[j] => i = j
      <4>1. \A i \in 1..k : other[i] = IF i < m THEN i ELSE i + 1
        OBVIOUS
      <4> HIDE DEF other
      <4>2. \A i \in 1..k : \/ i < m /\ other[i] = i
                            \/ i >= m /\ other[i] = i + 1
        BY <4>1
      <4>3. ASSUME NEW i \in 1..k PROVE other[i] \in 1..k + 1 /\ other[i] # m
        <5>1. CASE i < m /\ other[i] = i
          BY <2>1, <5>1
        <5>2. CASE i >= m /\ other[i] = i + 1
          BY <2>1, <5>2
        <5> QED
          BY <4>2, <5>1, <5>2
      <4>4. ASSUME NEW i \in 1..k, NEW j \in 1..k, other[i] = other[j] PROVE i = j
        <5>1. /\ (i < m /\ other[i] = i) \/ (i >= m /\ other[i] = i + 1)
              /\ (j < m /\ other[j] = j) \/ (j >= m /\ other[j] = j + 1)
          BY <4>2
        <5>2. i \in Nat /\ j \in Nat /\ m \in Nat
          BY <2>1
        <5> DEFINE a == other[i]
                   b == other[j]
        <5>3. /\ a = b
              /\ (i < m /\ a = i) \/ (i >= m /\ a = i + 1)
              /\ (j < m /\ b = j) \/ (j >= m /\ b = j + 1)
          BY <4>4, <5>1
        <5> HIDE DEF a, b
        <5> QED
          BY <5>2, <5>3
      <4> QED
        BY <4>3, <4>4
    <3> HIDE DEF other
    <3>6. g \in [1..k -> Nat]
      BY <3>5
    <3>7. PICK order : InOrderOf(g, order, k)
      BY <2>1, <3>6
    <3> DEFINE all == [i \in 1..k + 1 |-> IF i = 1 THEN m ELSE other[order[i - 1]]]
    <3>8. \A i \in 1..k + 1 : i # 1 => i - 1 \in 1..k /\ order[i - 1] \in 1..k /\ all[i] = other[order[i - 1]]
      <4>1. \A i \in 1..k + 1 : i # 1 => all[i] = other[order[i - 1]]
        OBVIOUS
      <4> HIDE DEF all
      <4>2. \A i \in 1..k + 1 : i # 1 => i - 1 \in 1..k
        BY <2>1
      <4>3. order \in [1..k -> 1..k]
        BY <3>7 DEF InOrderOf
      <4> QED
        BY <4>1, <4>2, <4>3
    <3>9. all \in [1..k + 1 -> 1..k + 1] /\ all[1] = m
      <4>1. 1 \in 1..k + 1 /\ all[1] = m
        BY <2>1
      <4>2. \A i \in 1..k + 1 : all[i] \in 1..k + 1
        <5>1. \A i \in 1..k + 1 : i # 1 => all[i] \in 1..k + 1
          BY <3>5, <3>8
        <5> QED
          BY <4>1, <5>1
      <4>3. all = [i \in 1..k + 1 |-> all[i]]
        OBVIOUS
      <4> HIDE DEF all
      <4> QED
        BY <4>1, <4>2, <4>3
    <3> HIDE DEF all
    <3>10. ASSUME NEW i \in 1..k + 1, NEW j \in 1..k + 1, all[i] = all[j] PROVE i = j
      <4>1. CASE i = 1 \/ j = 1
        <5>1. ASSUME NEW l \in 1..k + 1, l # 1 PROVE all[l] # m
          <6>1. order[l - 1] \in 1..k /\ all[l] = other[order[l - 1]]
            BY <5>1, <3>8
          <6> QED
            BY <6>1, <3>5, Zenon
        <5> QED
          BY <4>1, <5>1, <3>9, <3>10
      <4>2. CASE i # 1 /\ j # 1
        <5>1. order[i - 1] = order[j - 1]
          <6>1. /\ order[i - 1] \in 1..k /\ all[i] = other[order[i - 1]]
                /\ order[j - 1] \in 1..k /\ all[j] = other[order[j - 1]]
            BY <4>2, <3>8
          <6>2. other[order[i - 1]] = other[order[j - 1]]
            BY <6>1, <3>10
          <6> QED
            BY <6>1, <6>2, <3>5, Zenon
        <5>2. i - 1 = j - 1
          BY <4>2, <5>1, <3>7, <3>8 DEF InOrderOf
        <5> QED
          BY <5>2
      <4> QED
        BY <4>1, <4>2
    <3>11. ASSUME NEW i \in 1..k + 1, NEW j \in 1..k + 1, i < j PROVE f[all[i]] <= f[all[j]]
      <4>1. CASE i = 1
        BY <4>1, <3>4, <3>9
      <4>2. CASE i # 1
        <5>1. g[order[i - 1]] <= g[order[j - 1]]
          <6>1. i - 1 \in 1..k /\ j - 1 \in 1..k /\ i - 1 < j - 1
            BY <2>1, <4>2, <3>11
          <6> QED
            BY <6>1, <3>7 DEF InOrderOf
        <5>2. g[order[i - 1]] = f[all[i]] /\ g[order[j - 1]] = f[all[j]]
          BY <4>2, <3>8, <3>11
        <5> QED
          BY <5>1, <5>2
      <4> QED
        BY <4>1, <4>2
    <3> QED
      BY <3>9, <3>10, <3>11 DEF InOrderOf
  <2> QED
    BY <2>1, <2>2 DEF T
<1> HIDE DEF T
<1>3. T = Nat
  <2>1. T \subseteq Nat
    BY DEF T
  <2> QED
    BY <1>1, <1>2, <2>1, SetInduction
<1> QED
  BY <1>3 DEF T

(* The order of names is total.                                             *)
LEMMA NamesAreOrdered ==
    ASSUME NEW a \in Ordered, NEW b \in Ordered
    PROVE  /\ a = b \/ NameBefore(a, b) \/ NameBefore(b, a)
           /\ ~(NameBefore(a, b) /\ (a = b \/ NameBefore(b, a)))
<1>1. PICK i \in DOMAIN NameOrder : NameOrder[i] = a
  BY DEF Ordered
<1>2. PICK j \in DOMAIN NameOrder : NameOrder[j] = b
  BY DEF Ordered
<1>3. DOMAIN NameOrder \subseteq Nat
  BY NameOrderAssumption
<1>4. \A k, l \in DOMAIN NameOrder : NameOrder[k] = NameOrder[l] => k = l
  BY NameOrderAssumption
<1>5. NameBefore(a, b) <=> i < j
  BY <1>1, <1>2, <1>4 DEF NameBefore
<1>6. NameBefore(b, a) <=> j < i
  BY <1>1, <1>2, <1>4 DEF NameBefore
<1> QED
  BY <1>1, <1>2, <1>3, <1>4, <1>5, <1>6

(* What InOrder chooses exists, and is a permutation.                       *)
LEMMA SortingOrder ==
    ASSUME NEW n \in Nat, NEW names \in [1..n -> Ordered]
    PROVE  /\ InOrder(names) \in [1..n -> 1..n]
           /\ \A i, j \in 1..n : InOrder(names)[i] = InOrder(names)[j] => i = j
           /\ \A i, j \in 1..n :
                i < j => ~NameBefore(names[InOrder(names)[j]], names[InOrder(names)[i]])
           /\ \A k \in 1..n : \E i \in 1..n : InOrder(names)[i] = k
<1> DEFINE Right(order) ==
             /\ \A i, j \in DOMAIN names : order[i] = order[j] => i = j
             /\ \A i, j \in DOMAIN names : i < j => ~NameBefore(names[order[j]], names[order[i]])
           key == [i \in 1..n |-> CHOOSE k \in DOMAIN NameOrder : NameOrder[k] = names[i]]
<1>1. DOMAIN NameOrder \subseteq Nat
  BY NameOrderAssumption
<1>2. \A i \in 1..n : key[i] \in DOMAIN NameOrder /\ NameOrder[key[i]] = names[i]
  BY DEF Ordered
<1> HIDE DEF key
<1>3. \E order \in [DOMAIN names -> DOMAIN names] : Right(order)
  <2>1. key \in [1..n -> Nat]
    <3>1. \A i \in 1..n : key[i] \in Nat
      BY <1>1, <1>2
    <3> QED
      BY <3>1 DEF key
  <2>2. PICK order : InOrderOf(key, order, n)
    BY <2>1, OrdersExist
  <2>3. order \in [1..n -> 1..n] /\ \A i, j \in 1..n : order[i] = order[j] => i = j
    BY <2>2 DEF InOrderOf
  <2>4. ASSUME NEW i \in 1..n, NEW j \in 1..n, i < j PROVE ~NameBefore(names[order[j]], names[order[i]])
    <3>1. key[order[i]] <= key[order[j]]
      BY <2>2, <2>4 DEF InOrderOf
    <3>2. order[i] \in 1..n /\ order[j] \in 1..n
      BY <2>3
    <3>3. ASSUME NEW k \in DOMAIN NameOrder, NEW l \in DOMAIN NameOrder,
                 NameOrder[k] = names[order[j]], NameOrder[l] = names[order[i]]
          PROVE  ~(k < l)
      <4>1. k = key[order[j]] /\ l = key[order[i]]
        BY <1>2, <3>2, <3>3, NameOrderAssumption
      <4> QED
        BY <1>1, <1>2, <3>1, <3>2, <4>1
    <3> QED
      BY <3>3 DEF NameBefore
  <2> QED
    BY <2>3, <2>4
<1>4. InOrder(names) = CHOOSE order \in [DOMAIN names -> DOMAIN names] : Right(order)
  BY Zenon DEF InOrder
<1>5. InOrder(names) \in [DOMAIN names -> DOMAIN names] /\ Right(InOrder(names))
  <2> HIDE DEF Right
  <2> QED
    BY <1>3, <1>4
<1>6. InOrder(names) \in Injection(1..n, 1..n)
  BY <1>5 DEF Injection, IsInjective
<1>7. InOrder(names) \in Surjection(1..n, 1..n)
  <2>1. IsFiniteSet(1..n)
    BY FS_Interval
  <2> QED
    BY <1>6, <2>1, FS_Injection
<1> QED
  BY <1>5, <1>7 DEF Surjection

\* sort.Slice by name permutes, and puts different names in strict order.
LEMMA SortedByName ==
    ASSUME NEW S, NEW seq \in Seq(S), NEW names \in [1..Len(seq) -> Ordered]
    PROVE  /\ ByName(seq, names) \in Seq(S)
           /\ Len(ByName(seq, names)) = Len(seq)
           /\ KeysOf(ByName(seq, names)) = KeysOf(seq)
           /\ \A i \in 1..Len(seq) : ByName(seq, names)[i] = seq[InOrder(names)[i]]
           /\ (\A i, j \in 1..Len(seq) : names[i] = names[j] => i = j) =>
                \A i, j \in 1..Len(seq) :
                  i < j => NameBefore(names[InOrder(names)[i]], names[InOrder(names)[j]])
<1> DEFINE n == Len(seq)
           order == InOrder(names)
           t == ByName(seq, names)
<1>1. n \in Nat /\ DOMAIN seq = 1..n /\ \A i \in 1..n : seq[i] \in S
  OBVIOUS
<1>2. /\ order \in [1..n -> 1..n]
      /\ \A i, j \in 1..n : order[i] = order[j] => i = j
      /\ \A i, j \in 1..n : i < j => ~NameBefore(names[order[j]], names[order[i]])
      /\ \A k \in 1..n : \E i \in 1..n : order[i] = k
  BY <1>1, SortingOrder
<1>3. t = [i \in 1..n |-> seq[order[i]]]
  BY <1>1 DEF ByName
<1> HIDE DEF t, order, n
<1>4. t \in [1..n -> S]
  BY <1>1, <1>2, <1>3
<1>5. t \in Seq(S) /\ Len(t) = n
  BY <1>1, <1>4
<1>6. KeysOf(t) = KeysOf(seq)
  BY <1>1, <1>2, <1>3 DEF KeysOf
<1>7. ASSUME \A i, j \in 1..n : names[i] = names[j] => i = j, NEW i \in 1..n, NEW j \in 1..n, i < j
      PROVE  NameBefore(names[order[i]], names[order[j]])
  <2>1. order[i] \in 1..n /\ order[j] \in 1..n /\ order[i] # order[j]
    <3>1. i # j
      BY <1>1, <1>7
    <3> QED
      BY <1>2, <3>1
  <2>2. names[order[i]] \in Ordered /\ names[order[j]] \in Ordered /\ names[order[i]] # names[order[j]]
    BY <1>7, <2>1 DEF n
  <2> QED
    BY <1>2, <1>7, <2>2, NamesAreOrdered
<1> QED
  BY <1>3, <1>5, <1>6, <1>7 DEF t, order, n

-----------------------------------------------------------------------------
(* What the detectors find.                                                 *)

\* A function on 1..n is a sequence of n.
LEMMA FunctionIsSequence ==
    ASSUME NEW S, NEW n \in Nat, NEW f \in [1..n -> S]
    PROVE  f \in Seq(S) /\ Len(f) = n
<1>1. f \in Seq(S)
  BY Zenon, SeqDef
<1> QED
  BY <1>1, LenProperties

\* Two lists of one.
LEMMA OneAndOne ==
    ASSUME NEW S, NEW x \in S, NEW y \in S
    PROVE  <<x>> \o <<y>> = <<x, y>>
<1>1. <<x>> \in Seq(S) /\ <<y>> \in Seq(S) /\ <<x, y>> \in Seq(S)
  OBVIOUS
<1>2. /\ <<x>> \o <<y>> \in Seq(S) /\ Len(<<x>> \o <<y>>) = 2
      /\ (<<x>> \o <<y>>)[1] = x /\ (<<x>> \o <<y>>)[2] = y
  BY <1>1, ConcatProperties
<1> DEFINE s == <<x>> \o <<y>>
           t == <<x, y>>
<1>3. /\ s \in Seq(S) /\ t \in Seq(S) /\ Len(s) = 2 /\ Len(t) = 2
      /\ s[1] = x /\ s[2] = y /\ t[1] = x /\ t[2] = y
  BY <1>1, <1>2
<1> HIDE DEF s, t
<1>4. Len(s) = Len(t) /\ \A i \in 1..Len(s) : s[i] = t[i]
  BY <1>3
<1>5. s = t
  BY <1>3, <1>4, SeqEqual
<1> QED
  BY <1>5 DEF s, t

(* An exact version is written as a constraint that is neither empty nor    *)
(* a word.                                                                  *)
LEMMA ExactTextType ==
    ASSUME NEW w \in ExactVersions
    PROVE  ExactText(w) \in Written /\ ExactText(w) # Blank /\ ExactText(w) # Word
<1> DEFINE c == Comparator(Empty, w.parts, w.pre)
<1>1. w.parts \in [1..3 -> Nat] /\ w.pre \in Nat
  BY DEF ExactVersions
<1>2. w.parts \in PartialVersions
  <2>1. w.parts \in [1..3 -> Nat \cup {Wild}]
    BY <1>1
  <2>2. w.parts \in Seq(Nat \cup {Wild}) /\ Len(w.parts) = 3
    <3>1. 3 \in Nat
      OBVIOUS
    <3> QED
      BY <2>1, <3>1, FunctionIsSequence, Zenon
  <2> QED
    BY <2>2 DEF PartialVersions
<1>3. c \in Fields
  <2>1. Empty \in Ops
    BY DEF Ops
  <2> QED
    BY <1>1, <1>2, <2>1 DEF Fields, ComparatorFields, Comparator
<1> HIDE DEF c
<1>4. <<<<c>>>> \in Seq(Seq(Fields))
  BY <1>3
<1>5. ExactText(w) = Text(<<<<c>>>>, 2, "spaces")
  BY DEF ExactText, c
<1>6. ExactText(w) \in Written /\ ExactText(w).gap = 2
  BY <1>4, <1>5 DEF Text, Written, Whitespace
<1> QED
  BY <1>6 DEF Blank, Text, Word

\* Trimming leaves a constraint that can be written.
LEMMA TrimType ==
    ASSUME NEW text \in Written
    PROVE  Trim(text) \in Written
<1>1. text = Text(text.sets, text.gap, text.ws)
  BY DEF Written, Text
<1>2. CASE text.sets = <<<<>>>>
  BY <1>2, BlankType, Zenon DEF Trim
<1>3. CASE text.sets # <<<<>>>> /\ text.ws = "nel outside"
  <2>1. Trim(text) = [text EXCEPT !.ws = "spaces"]
    BY <1>3, Zenon DEF Trim
  <2> QED
    BY <2>1 DEF Written, Whitespace
<1>4. CASE text.sets # <<<<>>>> /\ text.ws # "nel outside"
  <2>1. Trim(text) = text
    BY <1>4, Zenon DEF Trim
  <2> QED
    BY <2>1
<1> QED
  BY <1>2, <1>3, <1>4

(* The words a project's .nvmrc selects, and its engines.node as capture    *)
(* writes it.                                                               *)
SelectorOf(p) == NvmrcSignificant(p.nvmrc)
RangeOf(p) == Normalize(Trim(p.range))

\* The node detector gives this one requirement.
NodeIs(p, constraint, evidence) ==
    /\ NodeDetect(p).requirements = <<Requirement("node", constraint, evidence)>>
    /\ constraint \in Written /\ constraint # Blank
    /\ evidence \in {<<FromNvmrc>>, <<FromEngines>>, <<FromEngines, FromNvmrc>>}

\* What the node detector can give, and what it then has found.
LEMMA NodeDetected ==
    ASSUME NEW p \in ProjectFiles, NodeDetect(p).ok
    PROVE  /\ HasPackage(p) => Decodable(p)
           /\ \/ /\ ~DeclaresEngines(p) /\ ~p.hasNvmrc
                 /\ NodeDetect(p).requirements = <<>>
              \/ /\ p.hasNvmrc /\ NvmrcSelects(SelectorOf(p))
                 /\ DeclaresEngines(p) =>
                      RangeOf(p) # Refused /\ Compatible(RangeOf(p), Exact[SelectorOf(p)[1]])
                 /\ \E evidence : NodeIs(p, ExactText(Exact[SelectorOf(p)[1]]), evidence)
              \/ /\ DeclaresEngines(p) /\ ~p.hasNvmrc
                 /\ RangeOf(p) # Refused
                 /\ NodeIs(p, RangeOf(p), <<FromEngines>>)
<1> DEFINE declares == DeclaresEngines(p)
           range    == RangeOf(p)
           selector == SelectorOf(p)
           exact    == Exact[selector[1]]
           broken   == \/ HasPackage(p) /\ ~Decodable(p)
                       \/ declares /\ range = Refused
                       \/ p.hasNvmrc /\ ~NvmrcSelects(selector)
                       \/ declares /\ p.hasNvmrc /\ ~Compatible(range, exact)
           Node(constraint, evidence) == Found(<<Requirement("node", constraint, evidence)>>)
<1>1. NodeDetect(p) =
        IF broken THEN DetectionError
        ELSE CASE ~declares /\ ~p.hasNvmrc -> Found(<<>>)
              [] ~declares /\ p.hasNvmrc  -> Node(ExactText(exact), <<FromNvmrc>>)
              [] declares /\ ~p.hasNvmrc  -> Node(range, <<FromEngines>>)
              [] declares /\ p.hasNvmrc   -> Node(ExactText(exact), <<FromEngines, FromNvmrc>>)
  BY Zenon DEF NodeDetect, RangeOf, SelectorOf
<1> HIDE DEF broken, declares, range, selector, exact
<1>2. ~broken
  <2>1. ~DetectionError.ok
    BY DEF DetectionError
  <2> QED
    BY <1>1, <2>1
<1>3. \A reqs : Found(reqs).requirements = reqs
  BY DEF Found
<1>4. p.hasNvmrc => exact \in ExactVersions
  BY <1>2, ExactAssumption DEF broken, exact, NvmrcSelects
<1>5. declares => range \in Written /\ range # Blank
  <2> SUFFICES ASSUME declares PROVE range \in Written /\ range # Blank
    OBVIOUS
  <2>1. Trim(p.range) \in Written
    BY TrimType DEF ProjectFiles
  <2>2. range # Refused
    BY <1>2 DEF broken
  <2>3. range \in Written
    BY <2>1, <2>2, NormalizeIsIdempotent DEF range, RangeOf
  <2>4. range = Text(NormalSets(Trim(p.range)), 2, "spaces")
    BY <2>1, <2>2, AcceptedText, Zenon DEF range, RangeOf
  <2>5. range.gap = 2
    BY <2>4 DEF Text
  <2> QED
    BY <2>3, <2>5 DEF Blank, Text
<1>6. CASE ~declares /\ ~p.hasNvmrc
  <2>1. NodeDetect(p) = Found(<<>>)
    BY <1>1, <1>2, <1>6, Zenon
  <2> QED
    BY <1>2, <1>3, <1>6, <2>1 DEF broken, declares
<1>7. CASE ~declares /\ p.hasNvmrc
  <2>1. NodeDetect(p) = Node(ExactText(exact), <<FromNvmrc>>)
    BY <1>1, <1>2, <1>7, Zenon
  <2>2. NodeIs(p, ExactText(exact), <<FromNvmrc>>)
    BY <1>3, <1>4, <1>7, <2>1, ExactTextType DEF NodeIs
  <2> QED
    BY <1>2, <1>7, <2>2 DEF broken, declares, exact, selector
<1>8. CASE declares /\ ~p.hasNvmrc
  <2>1. NodeDetect(p) = Node(range, <<FromEngines>>)
    BY <1>1, <1>2, <1>8, Zenon
  <2>2. NodeIs(p, range, <<FromEngines>>)
    BY <1>3, <1>5, <1>8, <2>1 DEF NodeIs
  <2> QED
    BY <1>2, <1>8, <2>2 DEF broken, declares, range
<1>9. CASE declares /\ p.hasNvmrc
  <2>1. NodeDetect(p) = Node(ExactText(exact), <<FromEngines, FromNvmrc>>)
    BY <1>1, <1>2, <1>9, Zenon
  <2>2. NodeIs(p, ExactText(exact), <<FromEngines, FromNvmrc>>)
    BY <1>3, <1>4, <1>9, <2>1, ExactTextType DEF NodeIs
  <2> QED
    BY <1>2, <1>9, <2>2 DEF broken, declares, exact, selector, range
<1> QED
  BY <1>6, <1>7, <1>8, <1>9

(* What the package manager detector can give, and what it then has         *)
(* found.                                                                   *)
LEMMA ManagerDetected ==
    ASSUME NEW p \in ProjectFiles, PackageManagerDetect(p).ok
    PROVE  \/ /\ ~HasPackage(p) \/ p.managerType # "string" \/ p.manager = NoManager
              /\ PackageManagerDetect(p).requirements = <<>>
           \/ /\ HasPackage(p) /\ p.managerType = "string" /\ p.manager # NoManager
              /\ Splits(p.manager)
              /\ PackageManagerDetect(p).requirements =
                   <<Requirement(p.manager.name, ExactText(Exact[p.manager.word]), <<FromManager>>)>>
<1> DEFINE manager == p.manager
           read == IF p.managerType # "string" \/ manager = NoManager THEN Found(<<>>)
                   ELSE IF ~Splits(manager) THEN DetectionError
                   ELSE Found(<<Requirement(manager.name, ExactText(Exact[manager.word]), <<FromManager>>)>>)
<1>1. \A reqs : Found(reqs).requirements = reqs
  BY DEF Found
<1>2. ~DetectionError.ok
  BY DEF DetectionError
<1>3. CASE ~HasPackage(p)
  <2>1. PackageManagerDetect(p) = Found(<<>>)
    BY <1>3, Zenon DEF PackageManagerDetect
  <2> QED
    BY <1>1, <1>3, <2>1
<1>4. CASE HasPackage(p)
  <2>1. ~Decodable(p) => PackageManagerDetect(p) = DetectionError
    BY <1>4, Zenon DEF PackageManagerDetect
  <2>2. Decodable(p)
    BY <1>2, <2>1
  <2>3. PackageManagerDetect(p) = read
    BY <1>4, <2>2, Zenon DEF PackageManagerDetect
  <2> HIDE DEF manager
  <2>4. CASE p.managerType # "string" \/ manager = NoManager
    <3>1. PackageManagerDetect(p) = Found(<<>>)
      BY <2>3, <2>4, Zenon
    <3> QED
      BY <1>1, <2>4, <3>1 DEF manager
  <2>5. CASE ~(p.managerType # "string" \/ manager = NoManager)
    <3>1. ~Splits(manager) => PackageManagerDetect(p) = DetectionError
      BY <2>3, <2>5, Zenon
    <3>2. Splits(manager)
      BY <1>2, <3>1
    <3>3. PackageManagerDetect(p) =
            Found(<<Requirement(manager.name, ExactText(Exact[manager.word]), <<FromManager>>)>>)
      BY <2>3, <2>5, <3>2, Zenon
    <3> QED
      BY <1>1, <1>4, <2>5, <3>2, <3>3 DEF manager
  <2> QED
    BY <2>4, <2>5
<1> QED
  BY <1>3, <1>4

\* The evidence that validateEvidence asks for.
EvidenceIsGiven(evidence) ==
    /\ evidence \in Seq(EvidenceEntries) /\ evidence # <<>>
    /\ \A i \in DOMAIN evidence : evidence[i].source # Empty /\ evidence[i].field # Empty

\* Whatever a detector has found, it says where.
LEMMA DetectorsGiveEvidence ==
    ASSUME NEW evidence \in {<<FromNvmrc>>, <<FromEngines>>, <<FromEngines, FromNvmrc>>, <<FromManager>>}
    PROVE  EvidenceIsGiven(evidence)
<1>1. \A e \in {FromNvmrc, FromEngines, FromManager} :
        e \in EvidenceEntries /\ e.source # Empty /\ e.field # Empty
  <2> DEFINE a == "package.json"
             b == "engines.node"
             c == ".nvmrc"
             d == "version"
             e == "packageManager"
  <2>1. a \in Strings /\ b \in Strings /\ c \in Strings /\ d \in Strings /\ e \in Strings
    BY Zenon DEF Strings
  <2>2. a # Empty /\ b # Empty /\ c # Empty /\ d # Empty /\ e # Empty
    BY Zenon DEF Empty
  <2>3. FromNvmrc = Evidence(c, d) /\ FromEngines = Evidence(a, b) /\ FromManager = Evidence(a, e)
    BY Zenon DEF FromNvmrc, FromEngines, FromManager
  <2> HIDE DEF a, b, c, d, e
  <2> QED
    BY <2>1, <2>2, <2>3 DEF Evidence, EvidenceEntries
<1>2. \A x \in EvidenceEntries, y \in EvidenceEntries :
        (x.source # Empty /\ x.field # Empty /\ y.source # Empty /\ y.field # Empty)
          => EvidenceIsGiven(<<x>>) /\ EvidenceIsGiven(<<x, y>>)
  <2> HIDE DEF EvidenceEntries
  <2> QED
    BY DEF EvidenceIsGiven
<1> QED
  BY <1>1, <1>2, Zenon

\* The names of the tools can be sorted and written.
LEMMA ToolNames == \A name \in SupportedTools : name \in Ordered /\ name \in Strings
<1>1. \A i \in DOMAIN NameOrder : NameOrder[i] \in STRING
  BY NameOrderAssumption
<1> QED
  BY <1>1, ToolsAssumption, Zenon DEF Ordered, Strings

\* Requirement makes a requirement.
LEMMA RequirementType ==
    ASSUME NEW name \in Strings, NEW constraint \in Written, NEW evidence \in Seq(EvidenceEntries)
    PROVE  /\ Requirement(name, constraint, evidence) \in Requirements
           /\ Requirement(name, constraint, evidence).name = name
<1> DEFINE given == Seq(EvidenceEntries)
<1>1. Requirements = [name : Strings, constraint : Written, evidence : given]
  BY Zenon DEF Requirements, EvidenceEntries
<1> HIDE DEF given
<1>2. evidence \in given
  BY DEF given
<1> QED
  BY <1>1, <1>2 DEF Requirement

(* The requirements of a capture are those of the two detectors.            *)
Found2(p) == NodeDetect(p).requirements \o PackageManagerDetect(p).requirements

\* The detectors give requirements, of different tools that verify knows.
LEMMA DetectedAreRequirements ==
    ASSUME NEW p \in ProjectFiles, NodeDetect(p).ok, PackageManagerDetect(p).ok
    PROVE  /\ Found2(p) \in Seq(Requirements)
           /\ UniqueNames(Found2(p))
           /\ KeysOf(Found2(p)) = KeysOf(NodeDetect(p).requirements) \cup KeysOf(PackageManagerDetect(p).requirements)
           /\ \A r \in KeysOf(Found2(p)) : r.name \in SupportedTools
<1> DEFINE a == NodeDetect(p).requirements
           b == PackageManagerDetect(p).requirements
           Node(r) == r \in Requirements /\ r.name = "node"
           Manager(r) == r \in Requirements /\ r.name \in {"npm", "pnpm", "yarn"}
<1>4. SupportedTools = {"node", "npm", "pnpm", "yarn"}
  BY DEF SupportedTools
<1>1. a = <<>> \/ \E r : a = <<r>> /\ Node(r)
  <2>1. a = <<>> \/ \E constraint, evidence : NodeIs(p, constraint, evidence)
    BY NodeDetected
  <2>2. ASSUME NEW constraint, NEW evidence, NodeIs(p, constraint, evidence)
        PROVE  \E r : a = <<r>> /\ Node(r)
    <3>1. evidence \in Seq(EvidenceEntries) /\ constraint \in Written
      BY <2>2, DetectorsGiveEvidence DEF NodeIs, EvidenceIsGiven
    <3>2. Node(Requirement("node", constraint, evidence))
      BY <3>1, <1>4, ToolNames, RequirementType
    <3> QED
      BY <2>2, <3>2 DEF NodeIs
  <2> QED
    BY <2>1, <2>2
<1>2. b = <<>> \/ \E r : b = <<r>> /\ Manager(r)
  <2>1. b = <<>> \/ /\ Splits(p.manager)
                    /\ b = <<Requirement(p.manager.name, ExactText(Exact[p.manager.word]), <<FromManager>>)>>
    BY ManagerDetected
  <2>2. ASSUME Splits(p.manager)
        PROVE  Manager(Requirement(p.manager.name, ExactText(Exact[p.manager.word]), <<FromManager>>))
    <3>1. <<FromManager>> \in Seq(EvidenceEntries)
      BY DetectorsGiveEvidence DEF EvidenceIsGiven
    <3>2. ExactText(Exact[p.manager.word]) \in Written
      BY <2>2, ExactAssumption, ExactTextType DEF Splits
    <3>3. p.manager.name \in {"npm", "pnpm", "yarn"}
      BY <2>2 DEF Splits
    <3>4. p.manager.name \in Strings
      BY <3>3, ToolNames DEF SupportedTools
    <3> QED
      BY <3>1, <3>2, <3>3, <3>4, RequirementType
  <2> QED
    BY <2>1, <2>2
<1> HIDE DEF a, b
<1>3. Found2(p) = a \o b
  BY DEF Found2, a, b
<1>5. /\ a \o b \in Seq(Requirements)
      /\ \A i, j \in DOMAIN (a \o b) : (a \o b)[i].name = (a \o b)[j].name => i = j
      /\ KeysOf(a \o b) = KeysOf(a) \cup KeysOf(b)
      /\ \A r \in KeysOf(a \o b) : r.name \in SupportedTools
  <2>1. CASE a = <<>> /\ b = <<>>
    BY <2>1 DEF KeysOf
  <2>2. ASSUME NEW r, a = <<r>>, Node(r), b = <<>> PROVE <1>5!:
    <3>1. a \o b = <<r>>
      BY <2>2
    <3> QED
      BY <1>4, <2>2, <3>1 DEF KeysOf
  <2>3. ASSUME a = <<>>, NEW s, b = <<s>>, Manager(s) PROVE <1>5!:
    <3>1. a \o b = <<s>>
      BY <2>3
    <3> QED
      BY <1>4, <2>3, <3>1 DEF KeysOf
  <2>4. ASSUME NEW r, a = <<r>>, Node(r), NEW s, b = <<s>>, Manager(s) PROVE <1>5!:
    <3>1. a \o b = <<r, s>>
      BY <2>4, OneAndOne
    <3>2. r.name # s.name
      BY <2>4
    <3> QED
      BY <1>4, <2>4, <3>1, <3>2 DEF KeysOf
  <2> QED
    BY <1>1, <1>2, <2>1, <2>2, <2>3, <2>4
<1> QED
  BY <1>3, <1>5 DEF UniqueNames, a, b

-----------------------------------------------------------------------------
(* What Marshal writes, Parse reads back.                                   *)

\* Known keys give no warning.
LEMMA NothingToWarnOf ==
    ASSUME NEW where, NEW keys, NEW allowed, KeysOf(keys) \subseteq allowed
    PROVE  Warn(where, keys, allowed) = {}
BY DEF Warn

\* Neither do the known keys of a list.
LEMMA NothingToWarnOfAll ==
    ASSUME NEW where, NEW records, NEW allowed, \A r \in records : KeysOf(r.keys) \subseteq allowed
    PROVE  WarnAll(where, records, allowed) = {}
<1>1. \A r \in records : Warn(where, r.keys, allowed) = {}
  BY NothingToWarnOf
<1> QED
  BY <1>1 DEF WarnAll

\* An evidence entry as Marshal writes it.
WrittenEntry(e) == Entry(<<"source", "field", "value">>, e.source, e.field)

\* A requirement as Marshal writes it.
WrittenItem(r) ==
    Item(<<"name", "constraint", "evidence">>, r.name, r.constraint,
         [j \in DOMAIN r.evidence |-> WrittenEntry(r.evidence[j])])

\* The keys that Marshal writes.
LEMMA WrittenKeys ==
    /\ <<"source", "field", "value">> \in Seq(Keys)
    /\ KeysOf(<<"source", "field", "value">>) = {"source", "field", "value"}
    /\ <<"name", "constraint", "evidence">> \in Seq(Keys)
    /\ KeysOf(<<"name", "constraint", "evidence">>) = {"name", "constraint", "evidence"}
    /\ <<"version", "requirements">> \in Seq(Keys)
    /\ KeysOf(<<"version", "requirements">>) = {"version", "requirements"}
<1>1. /\ "source" \in Keys /\ "field" \in Keys /\ "value" \in Keys /\ "name" \in Keys
      /\ "constraint" \in Keys /\ "evidence" \in Keys /\ "version" \in Keys /\ "requirements" \in Keys
  BY Zenon DEF Keys
<1>2. \A a, b, c : KeysOf(<<a, b, c>>) = {a, b, c}
  BY DEF KeysOf
<1>3. \A a, b : KeysOf(<<a, b>>) = {a, b}
  BY DEF KeysOf
<1> QED
  BY <1>1, <1>2, <1>3

\* An evidence entry is decoded as what was written.
LEMMA EntryReadsBack ==
    ASSUME NEW e \in EvidenceEntries
    PROVE  /\ WrittenEntry(e) \in Entries
           /\ DecodedEntry(WrittenEntry(e)) = e
           /\ WrittenEntry(e).keys = <<"source", "field", "value">>
<1> DEFINE keys == <<"source", "field", "value">>
<1>1. keys \in Seq(Keys) /\ "source" \in KeysOf(keys) /\ "field" \in KeysOf(keys)
  BY WrittenKeys
<1>2. WrittenEntry(e) = [keys |-> keys, source |-> e.source, field |-> e.field]
  BY Zenon DEF WrittenEntry, Entry
<1> HIDE DEF keys
<1>3. e.source \in Strings /\ e.field \in Strings /\ e = [source |-> e.source, field |-> e.field]
  BY DEF EvidenceEntries
<1>4. DecodedEntry(WrittenEntry(e)) = [source |-> e.source, field |-> e.field]
  BY <1>1, <1>2 DEF DecodedEntry, Evidence
<1> QED
  BY <1>1, <1>2, <1>3, <1>4 DEF Entries, keys

\* So is a requirement.
LEMMA ItemReadsBack ==
    ASSUME NEW r \in Requirements
    PROVE  /\ WrittenItem(r) \in Items
           /\ WrittenItem(r).keys = <<"name", "constraint", "evidence">>
           /\ WrittenItem(r).name = r.name
           /\ WrittenItem(r).evidence = [j \in DOMAIN r.evidence |-> WrittenEntry(r.evidence[j])]
           /\ Decoded(WrittenItem(r)) = r
<1> DEFINE keys == <<"name", "constraint", "evidence">>
           entries == [j \in DOMAIN r.evidence |-> WrittenEntry(r.evidence[j])]
           given == Seq(EvidenceEntries)
           item == WrittenItem(r)
           decoded == [i \in DOMAIN entries |-> DecodedEntry(entries[i])]
<1>1. keys \in Seq(Keys) /\ "name" \in KeysOf(keys) /\ "constraint" \in KeysOf(keys) /\ "evidence" \in KeysOf(keys)
  BY WrittenKeys
<1>2. r \in [name : Strings, constraint : Written, evidence : given]
  BY Zenon DEF Requirements, EvidenceEntries
<1>3. item = [mapping |-> TRUE, keys |-> keys, name |-> r.name, constraint |-> r.constraint, evidence |-> entries]
  BY Zenon DEF WrittenItem, Item
<1>4. r.evidence \in Seq(EvidenceEntries)
  <2> HIDE DEF given
  <2>1. r.evidence \in given
    BY <1>2
  <2> QED
    BY <2>1 DEF given
<1>5. \A j \in DOMAIN r.evidence :
        WrittenEntry(r.evidence[j]) \in Entries /\ DecodedEntry(WrittenEntry(r.evidence[j])) = r.evidence[j]
  <2>1. \A j \in DOMAIN r.evidence : r.evidence[j] \in EvidenceEntries
    BY <1>4
  <2> QED
    BY <2>1, EntryReadsBack
<1>6. entries \in Seq(Entries)
  <2>1. Len(r.evidence) \in Nat /\ entries \in [1..Len(r.evidence) -> Entries]
    BY <1>4, <1>5
  <2> QED
    BY <2>1, FunctionIsSequence
<1>7. decoded = r.evidence
  <2>1. DOMAIN entries = DOMAIN r.evidence /\ \A j \in DOMAIN r.evidence : entries[j] = WrittenEntry(r.evidence[j])
    OBVIOUS
  <2>2. r.evidence = [j \in DOMAIN r.evidence |-> r.evidence[j]]
    BY <1>4
  <2> HIDE DEF entries
  <2>3. decoded = [j \in DOMAIN r.evidence |-> r.evidence[j]]
    BY <1>5, <2>1
  <2> QED
    BY <2>2, <2>3
<1>8. item \in Items
  <2> DEFINE all == Seq(Entries)
             k == Seq(Keys)
  <2>1. Items = [mapping : BOOLEAN, keys : k, name : Strings, constraint : Written, evidence : all]
    BY Zenon DEF Items
  <2>2. entries \in all /\ keys \in k
    BY <1>1, <1>6
  <2> HIDE DEF all, k, keys, entries, item, given
  <2> QED
    BY <1>2, <1>3, <2>1, <2>2
<1>9. Decoded(item) = Requirement(r.name, r.constraint, r.evidence)
  <2>1. /\ item.mapping /\ item.keys = keys /\ item.name = r.name /\ item.constraint = r.constraint
        /\ item.evidence = entries
    <3> HIDE DEF keys, entries, item
    <3> QED
      BY <1>3
  <2>2. Decoded(item) =
        Requirement(IF "name" \in KeysOf(item.keys) THEN item.name ELSE Empty,
                    IF "constraint" \in KeysOf(item.keys) THEN item.constraint ELSE Blank,
                    IF "evidence" \in KeysOf(item.keys)
                    THEN [i \in DOMAIN item.evidence |-> DecodedEntry(item.evidence[i])] ELSE <<>>)
    BY <2>1, Zenon DEF Decoded, DecodedEntry
  <2> HIDE DEF keys, entries, item
  <2> QED
    BY <1>1, <1>7, <2>1, <2>2, Zenon
<1>10. Requirement(r.name, r.constraint, r.evidence) = r
  <2> HIDE DEF given
  <2> QED
    BY <1>2 DEF Requirement
<1>11. item.name = r.name /\ item.keys = keys /\ item.evidence = entries
  <2> HIDE DEF keys, entries, item
  <2> QED
    BY <1>3
<1> QED
  BY <1>8, <1>9, <1>10, <1>11

(* A file of requirements alone, whatever they are, is written as a         *)
(* document from which both decodings read it back, and no key of it is     *)
(* unknown (marshal.go against load.go and the yaml tags).                  *)
THEOREM MarshalReadsBack ==
    ASSUME NEW reqs \in Seq(Requirements)
    PROVE  LET d == Marshal(File(reqs, <<>>, FALSE))
           IN /\ Readable(d)
              /\ Decode(d) = File(reqs, <<>>, FALSE)
              /\ CheckUnknownKeys(d) = {}
              /\ d.requirements = [i \in DOMAIN reqs |-> WrittenItem(reqs[i])]
<1> DEFINE file == File(reqs, <<>>, FALSE)
           d == Marshal(file)
           items == [i \in DOMAIN reqs |-> WrittenItem(reqs[i])]
           keys == <<"version", "requirements">>
<1>1. file.requirements = reqs /\ file.services = <<>> /\ file.environment = FALSE
  BY DEF File
<1>2. d = Stream(1, TRUE, "mapping", keys, Scalar(SchemaVersion, SchemaVersion), FALSE, items, FALSE, <<>>, <<>>)
  <2>1. d = Stream(1, TRUE, "mapping", keys \o <<>> \o <<>>, Scalar(SchemaVersion, SchemaVersion), FALSE, items, FALSE,
                   [i \in DOMAIN <<>> |-> Service(<<"version">>, file.services[i])], <<>>)
    <3> HIDE DEF file, keys, items
    <3>1. d = Stream(1, TRUE, "mapping",
                keys \o (IF file.services = <<>> THEN <<>> ELSE <<"services">>)
                  \o (IF file.environment THEN <<"environment">> ELSE <<>>),
                Scalar(SchemaVersion, SchemaVersion), FALSE,
                [i \in DOMAIN file.requirements |-> WrittenItem(file.requirements[i])], FALSE,
                [i \in DOMAIN file.services |-> Service(<<"version">>, file.services[i])],
                IF file.environment THEN <<"required">> ELSE <<>>)
      BY Zenon DEF Marshal, WrittenItem, WrittenEntry, keys
    <3>2. items = [i \in DOMAIN file.requirements |-> WrittenItem(file.requirements[i])]
      BY <1>1 DEF items
    <3>3. /\ (IF file.services = <<>> THEN <<>> ELSE <<"services">>) = <<>>
          /\ (IF file.environment THEN <<"environment">> ELSE <<>>) = <<>>
          /\ (IF file.environment THEN <<"required">> ELSE <<>>) = <<>>
      BY <1>1
    <3> QED
      BY <1>1, <3>1, <3>2, <3>3, Zenon
  <2>2. keys \o <<>> \o <<>> = keys
    <3>1. keys \in Seq(Keys)
      BY WrittenKeys
    <3> HIDE DEF keys
    <3>2. keys \o <<>> = keys
      BY <3>1
    <3> QED
      BY <3>2
  <2>3. [i \in DOMAIN <<>> |-> Service(<<"version">>, file.services[i])] = <<>>
    OBVIOUS
  <2> HIDE DEF file, keys, items, d
  <2> QED
    BY <2>1, <2>2, <2>3
<1>3. /\ \A i \in DOMAIN reqs : items[i] \in Items
      /\ \A i \in DOMAIN reqs : items[i].keys = <<"name", "constraint", "evidence">>
      /\ \A i \in DOMAIN reqs : Decoded(items[i]) = reqs[i]
  <2>1. \A i \in DOMAIN reqs : reqs[i] \in Requirements
    OBVIOUS
  <2> QED
    BY <2>1, ItemReadsBack
<1>4. items \in Seq(Items) /\ DOMAIN items = DOMAIN reqs
  <2>1. Len(reqs) \in Nat /\ items \in [1..Len(reqs) -> Items]
    BY <1>3
  <2> HIDE DEF items
  <2> QED
    BY <2>1, FunctionIsSequence
<1>5. /\ d.documents = 1 /\ d.syntax = TRUE /\ d.root = "mapping" /\ d.keys = keys
      /\ d.version = Scalar(SchemaVersion, SchemaVersion) /\ d.versionAliased = FALSE
      /\ d.requirements = items /\ d.aliased = FALSE /\ d.services = <<>> /\ d.environment = <<>>
  <2> HIDE DEF keys, items, d
  <2> QED
    BY <1>2 DEF Stream
<1>6. KeysOf(d.keys) = {"version", "requirements"}
  BY <1>5, WrittenKeys
<1>7. Readable(d)
  <2> DEFINE version == [text : Int, value : Int]
             k == Seq(Keys)
             r == Seq(Items)
             s == Seq(Services)
             kinds == {"none", "mapping", "sequence", "scalar", "alias"}
  <2>1. Scalar(SchemaVersion, SchemaVersion) \in version
    BY DEF Scalar, SchemaVersion
  <2>2. keys \in k /\ items \in r /\ <<>> \in s /\ <<>> \in k /\ "mapping" \in kinds
    BY <1>4, WrittenKeys
  <2>3. Streams = [documents : Nat, syntax : BOOLEAN, root : kinds, keys : k,
                   version : version, versionAliased : BOOLEAN, requirements : r, aliased : BOOLEAN,
                   services : s, environment : k]
    BY Zenon DEF Streams
  <2>4. d \in Streams
    <3> HIDE DEF version, k, r, s, kinds, keys, items, d
    <3> QED
      BY <1>2, <2>1, <2>2, <2>3 DEF Stream
  <2>5. d.version.value = SchemaVersion
    <3>1. Scalar(SchemaVersion, SchemaVersion).value = SchemaVersion
      BY DEF Scalar
    <3> HIDE DEF d
    <3> QED
      BY <1>5, <3>1
  <2> HIDE DEF d
  <2> QED
    BY <1>5, <1>6, <2>4, <2>5 DEF Readable
<1>8. Decode(d) = file
  <2> DEFINE decoded == [i \in DOMAIN d.requirements |-> Decoded(d.requirements[i])]
             services == [i \in DOMAIN d.services |->
                            "version" \in KeysOf(d.services[i].keys) /\ d.services[i].hasVersion]
             environment == "environment" \in KeysOf(d.keys) /\ KeysOf(d.environment) \cap EnvironmentKeys # {}
  <2>1. Decode(d) = File(IF "requirements" \in KeysOf(d.keys) THEN decoded ELSE <<>>,
                         IF "services" \in KeysOf(d.keys) THEN services ELSE <<>>, environment)
    BY Zenon DEF Decode
  <2>2. decoded = reqs
    <3>1. reqs = [i \in DOMAIN reqs |-> reqs[i]]
      OBVIOUS
    <3> HIDE DEF items, d
    <3>2. decoded = [i \in DOMAIN reqs |-> reqs[i]]
      BY <1>3, <1>4, <1>5
    <3> QED
      BY <3>1, <3>2
  <2>3. "requirements" \in KeysOf(d.keys) /\ "services" \notin KeysOf(d.keys) /\ "environment" \notin KeysOf(d.keys)
    BY <1>6
  <2>4. environment = FALSE
    BY <2>3, Zenon
  <2> HIDE DEF decoded, services, environment, d
  <2> QED
    BY <2>1, <2>2, <2>3, <2>4, Zenon DEF file
<1>9. CheckUnknownKeys(d) = {}
  <2> DEFINE has(section) == section \in KeysOf(d.keys)
             mappings == {item \in KeysOf(d.requirements) : has("requirements") /\ ~d.aliased /\ item.mapping}
             proofs == UNION {KeysOf(item.evidence) : item \in {i \in mappings : "evidence" \in KeysOf(i.keys)}}
             top == Warn("top level", d.keys, TopLevelKeys)
             ofItems == WarnAll("requirement", mappings, RequirementKeys)
             ofProofs == WarnAll("evidence", proofs, EvidenceKeys)
             ofServices == IF has("services") THEN WarnAll("service", KeysOf(d.services), ServiceKeys) ELSE {}
             ofEnvironment == IF has("environment") THEN Warn("environment", d.environment, EnvironmentKeys) ELSE {}
  <2>1. CheckUnknownKeys(d) = top \cup ofItems \cup ofProofs \cup ofServices \cup ofEnvironment
    BY Zenon DEF CheckUnknownKeys
  <2>2. top = {}
    <3>1. KeysOf(d.keys) \subseteq TopLevelKeys
      BY <1>6 DEF TopLevelKeys
    <3> QED
      BY <3>1, NothingToWarnOf, Zenon
  <2>3. ofServices = {} /\ ofEnvironment = {}
    <3>1. ~has("services") /\ ~has("environment")
      BY <1>6
    <3> QED
      BY <3>1, Zenon
  <2>4. ofItems = {}
    <3>1. \A item \in mappings : KeysOf(item.keys) \subseteq RequirementKeys
      <4>1. \A i \in DOMAIN items : KeysOf(items[i].keys) = {"name", "constraint", "evidence"}
        BY <1>3, <1>4, WrittenKeys, Zenon
      <4> HIDE DEF items, d
      <4>2. \A item \in KeysOf(items) : KeysOf(item.keys) = {"name", "constraint", "evidence"}
        <5> SUFFICES ASSUME NEW item \in KeysOf(items)
                     PROVE  KeysOf(item.keys) = {"name", "constraint", "evidence"}
          OBVIOUS
        <5>1. PICK i \in DOMAIN items : item = items[i]
          BY DEF KeysOf
        <5> QED
          BY <4>1, <5>1, Zenon
      <4> QED
        BY <1>5, <4>2 DEF RequirementKeys
    <3> QED
      BY <3>1, NothingToWarnOfAll, Zenon
  <2>5. ofProofs = {}
    <3>1. \A i \in DOMAIN reqs : \A e \in KeysOf(items[i].evidence) : e.keys = <<"source", "field", "value">>
      <4> SUFFICES ASSUME NEW i \in DOMAIN reqs, NEW e \in KeysOf(items[i].evidence)
                   PROVE  e.keys = <<"source", "field", "value">>
        OBVIOUS
      <4>1. reqs[i] \in Requirements
        OBVIOUS
      <4>2. items[i].evidence = [j \in DOMAIN reqs[i].evidence |-> WrittenEntry(reqs[i].evidence[j])]
        BY <4>1, ItemReadsBack
      <4> QED
        BY <4>2 DEF KeysOf, WrittenEntry, Entry
    <3>2. \A e \in proofs : e.keys = <<"source", "field", "value">>
      <4> SUFFICES ASSUME NEW e \in proofs PROVE e.keys = <<"source", "field", "value">>
        OBVIOUS
      <4>1. PICK item \in KeysOf(items) : e \in KeysOf(item.evidence)
        BY <1>5
      <4>2. PICK i \in DOMAIN reqs : item = items[i]
        BY <1>4, <4>1 DEF KeysOf
      <4> QED
        BY <3>1, <4>1, <4>2
    <3>3. \A e \in proofs : KeysOf(e.keys) \subseteq EvidenceKeys
      BY <3>2, WrittenKeys DEF EvidenceKeys
    <3> QED
      BY <3>3, NothingToWarnOfAll, Zenon
  <2> HIDE DEF top, ofItems, ofProofs, ofServices, ofEnvironment
  <2> QED
    BY <2>1, <2>2, <2>3, <2>4, <2>5
<1> QED
  BY <1>5, <1>7, <1>8, <1>9, Zenon

-----------------------------------------------------------------------------
(* Parts of sequences, and the prefix that boundedWriter keeps.             *)

\* A part of a sequence, element by element.
LEMMA PartOf ==
    ASSUME NEW S, NEW s \in Seq(S), NEW a \in Nat \ {0}, NEW b \in Nat, b <= Len(s), a <= b + 1
    PROVE  /\ SubSeq(s, a, b) \in Seq(S)
           /\ Len(SubSeq(s, a, b)) = b - a + 1
           /\ \A i \in 1..b - a + 1 : SubSeq(s, a, b)[i] = s[a + i - 1]
<1>1. \A i \in a..b : s[i] \in S
  OBVIOUS
<1> QED
  BY <1>1, SubSeqProperties

\* A part of a part is a part.
LEMMA PartOfPart ==
    ASSUME NEW S, NEW s \in Seq(S), NEW a \in Nat \ {0}, NEW b \in Nat, b <= Len(s), a <= b + 1,
           NEW c \in Nat \ {0}, NEW d \in Nat, d <= b - a + 1, c <= d + 1
    PROVE  SubSeq(SubSeq(s, a, b), c, d) = SubSeq(s, a + c - 1, a + d - 1)
<1> DEFINE t == SubSeq(s, a, b)
           u == SubSeq(t, c, d)
           w == SubSeq(s, a + c - 1, a + d - 1)
<1>1. t \in Seq(S) /\ Len(t) = b - a + 1 /\ \A i \in 1..b - a + 1 : t[i] = s[a + i - 1]
  BY PartOf
<1> HIDE DEF t
<1>2. u \in Seq(S) /\ Len(u) = d - c + 1 /\ \A i \in 1..d - c + 1 : u[i] = t[c + i - 1]
  BY <1>1, PartOf
<1> HIDE DEF u
<1>3. w \in Seq(S) /\ Len(w) = d - c + 1 /\ \A i \in 1..d - c + 1 : w[i] = s[a + c - 1 + i - 1]
  <2> DEFINE e == a + c - 1
             f == a + d - 1
  <2>1. e \in Nat \ {0} /\ f \in Nat /\ f <= Len(s) /\ e <= f + 1 /\ f - e + 1 = d - c + 1
    OBVIOUS
  <2> HIDE DEF e, f
  <2>2. /\ SubSeq(s, e, f) \in Seq(S) /\ Len(SubSeq(s, e, f)) = f - e + 1
        /\ \A i \in 1..f - e + 1 : SubSeq(s, e, f)[i] = s[e + i - 1]
    BY <2>1, PartOf
  <2> QED
    BY <2>1, <2>2 DEF e, f
<1> HIDE DEF w
<1>4. ASSUME NEW i \in 1..Len(u) PROVE u[i] = w[i]
  <2>1. i \in 1..d - c + 1 /\ c + i - 1 \in 1..b - a + 1 /\ a + (c + i - 1) - 1 = a + c - 1 + i - 1
    BY <1>2
  <2>2. u[i] = s[a + (c + i - 1) - 1]
    BY <1>1, <1>2, <2>1
  <2>3. w[i] = s[a + c - 1 + i - 1]
    BY <1>3, <2>1
  <2> QED
    BY <2>1, <2>2, <2>3
<1>5. u = w
  BY <1>2, <1>3, <1>4, SeqEqual
<1> QED
  BY <1>5 DEF t, u, w

\* Two neighbouring parts are one.
LEMMA PartsInARow ==
    ASSUME NEW S, NEW s \in Seq(S), NEW a \in Nat, NEW b \in Nat, a <= b, b <= Len(s)
    PROVE  SubSeq(s, 1, a) \o SubSeq(s, a + 1, b) = SubSeq(s, 1, b)
<1> DEFINE t == SubSeq(s, 1, a)
           u == SubSeq(s, a + 1, b)
           w == SubSeq(s, 1, b)
<1>1. t \in Seq(S) /\ Len(t) = a /\ \A i \in 1..a : t[i] = s[i]
  BY PartOf
<1>2. u \in Seq(S) /\ Len(u) = b - a /\ \A i \in 1..b - a : u[i] = s[a + i]
  BY PartOf
<1>3. w \in Seq(S) /\ Len(w) = b /\ \A i \in 1..b : w[i] = s[i]
  BY PartOf
<1> HIDE DEF t, u, w
<1>4. /\ t \o u \in Seq(S) /\ Len(t \o u) = b
      /\ \A i \in 1..b : (t \o u)[i] = IF i <= a THEN t[i] ELSE u[i - a]
  <2>1. a + (b - a) = b
    OBVIOUS
  <2> QED
    BY <1>1, <1>2, <2>1, ConcatProperties
<1>5. ASSUME NEW i \in 1..b PROVE (t \o u)[i] = w[i]
  <2>1. i <= a => t[i] = s[i]
    BY <1>1
  <2>2. ~(i <= a) => u[i - a] = s[i]
    BY <1>2
  <2> QED
    BY <1>3, <1>4, <2>1, <2>2
<1>6. t \o u = w
  BY <1>3, <1>4, <1>5, SeqEqual
<1> QED
  BY <1>6 DEF t, u, w

(* What boundedWriter keeps of the next chunk: the prefix of the output     *)
(* that the limit allows of all that was read.                              *)
LEMMA KeptIsAPrefix ==
    ASSUME NEW S, NEW s \in Seq(S), NEW n \in 0..Len(s), NEW m \in 1..Len(s) - n
    PROVE  /\ Keep(SubSeq(s, 1, Lesser(OutputLimit, n)), SubSeq(SubSeq(s, n + 1, Len(s)), 1, m))
                = SubSeq(s, 1, Lesser(OutputLimit, n + m))
           /\ SubSeq(SubSeq(s, n + 1, Len(s)), m + 1, Len(SubSeq(s, n + 1, Len(s))))
                = SubSeq(s, n + m + 1, Len(s))
<1> DEFINE before == Lesser(OutputLimit, n)
           after  == Lesser(OutputLimit, n + m)
           left   == SubSeq(s, n + 1, Len(s))
           chunk  == SubSeq(left, 1, m)
           old    == SubSeq(s, 1, before)
           part   == Lesser(OutputLimit - before, m)
<1>1. Len(left) = Len(s) - n
  BY PartOf
<1>2. /\ before \in Nat /\ before <= n /\ after \in Nat /\ after <= n + m
      /\ before <= after /\ before <= Len(s) /\ after <= Len(s)
      /\ part \in Nat /\ part <= m /\ before + part = after /\ (part > 0 => before = n)
  BY OutputAssumption DEF Lesser
<1>3. chunk = SubSeq(s, n + 1, n + m)
  <2>1. SubSeq(left, 1, m) = SubSeq(s, (n + 1) + 1 - 1, (n + 1) + m - 1)
    BY PartOfPart
  <2> QED
    BY <2>1
<1>4. Len(chunk) = m /\ Len(old) = before
  <2>1. Len(SubSeq(s, n + 1, n + m)) = m
    BY PartOf
  <2> HIDE DEF before
  <2>2. Len(old) = before
    BY <1>2, PartOf
  <2> QED
    BY <1>3, <2>1, <2>2
<1>5. SubSeq(chunk, 1, part) = SubSeq(s, before + 1, after)
  <2> HIDE DEF before, after, part
  <2>1. SubSeq(SubSeq(s, n + 1, n + m), 1, part) = SubSeq(s, (n + 1) + 1 - 1, (n + 1) + part - 1)
    BY <1>2, PartOfPart
  <2>2. SubSeq(chunk, 1, part) = SubSeq(s, n + 1, n + part)
    BY <1>2, <1>3, <2>1
  <2>3. CASE part > 0
    BY <1>2, <2>2, <2>3
  <2>4. CASE ~(part > 0)
    <3>1. n + part < n + 1 /\ after < before + 1
      BY <1>2, <2>4
    <3>2. SubSeq(s, n + 1, n + part) = <<>>
      BY <1>2, <3>1, SubSeqEmpty
    <3>3. SubSeq(s, before + 1, after) = <<>>
      BY <1>2, <3>1, SubSeqEmpty
    <3> QED
      BY <2>2, <3>2, <3>3
  <2> QED
    BY <2>3, <2>4
<1>6. old \o SubSeq(chunk, 1, part) = SubSeq(s, 1, after)
  <2> HIDE DEF before, after, part, chunk
  <2> QED
    BY <1>2, <1>5, PartsInARow
<1>7. Keep(old, chunk) = SubSeq(s, 1, after)
  <2> HIDE DEF old, chunk, before, after
  <2> QED
    BY <1>4, <1>6 DEF Keep, part
<1>8. SubSeq(left, m + 1, Len(left)) = SubSeq(s, n + m + 1, Len(s))
  <2>1. SubSeq(left, m + 1, Len(s) - n) = SubSeq(s, (n + 1) + (m + 1) - 1, (n + 1) + (Len(s) - n) - 1)
    BY PartOfPart
  <2> QED
    BY <1>1, <2>1
<1> QED
  BY <1>7, <1>8

-----------------------------------------------------------------------------
(* What parseVersion tells of a whole output.                               *)

(* Every piece of ink is on a non-blank line.                               *)
LEMMA InkIsOnALine ==
    ASSUME NEW text \in Seq(STRING), NEW i \in Ink(text)
    PROVE  \E line \in NonBlankLines(text) : line[1] <= i /\ i <= line[2]
<1> DEFINE ink == Ink(text)
           n == Len(text)
           first == {j \in ink : j <= i /\ Unbroken(text, j, i)}
           last == {j \in ink : j >= i /\ Unbroken(text, i, j)}
<1>1. n \in Nat /\ ink \subseteq 1..n /\ i \in ink
  BY DEF Ink
<1>2. Unbroken(text, i, i)
  <2>1. text[i] # "newline" /\ \A k \in i..i : k = i
    BY <1>1 DEF Ink
  <2> QED
    BY <2>1 DEF Unbroken
<1> HIDE DEF ink, n
<1>3. PICK a \in first : \A j \in first : a <= j
  <2>1. first \subseteq Nat /\ i \in first
    <3>1. i \in Nat /\ i <= i
      BY <1>1
    <3>2. ink \subseteq Nat
      BY <1>1
    <3> QED
      BY <1>1, <1>2, <3>1, <3>2
  <2> HIDE DEF first
  <2> QED
    BY <2>1, LeastNatural
<1>4. PICK b \in last : \A j \in last : j <= b
  <2> DEFINE T == {n - j : j \in last}
  <2>1. T \subseteq Nat /\ n - i \in T
    <3>1. i \in last /\ \A j \in last : j \in 1..n
      BY <1>1, <1>2
    <3> HIDE DEF last
    <3> QED
      BY <1>1, <3>1
  <2> HIDE DEF T
  <2>2. PICK m \in T : \A k \in T : m <= k
    BY <2>1, LeastNatural
  <2>3. PICK b \in last : m = n - b
    BY <2>2 DEF T
  <2>4. ASSUME NEW j \in last PROVE j <= b
    <3>1. n - b <= n - j
      BY <2>2, <2>3 DEF T
    <3>2. j \in 1..n /\ b \in 1..n
      BY <1>1
    <3> QED
      BY <1>1, <3>1, <3>2
  <2> QED
    BY <2>4
<1>5. /\ a \in ink /\ a \in 1..n /\ a <= i /\ Unbroken(text, a, i)
      /\ b \in ink /\ b \in 1..n /\ i <= b /\ Unbroken(text, i, b) /\ i \in 1..n
  BY <1>1
<1>6. \A j, k \in 1..n : (j <= i /\ i <= k /\ Unbroken(text, j, i) /\ Unbroken(text, i, k)) => Unbroken(text, j, k)
  BY <1>5 DEF Unbroken
<1>7. \A j \in ink : j < a => ~Unbroken(text, j, a)
  <2> SUFFICES ASSUME NEW j \in ink, j < a, Unbroken(text, j, a) PROVE FALSE
    OBVIOUS
  <2>1. j \in 1..n /\ j <= i
    BY <1>1, <1>5
  <2>2. Unbroken(text, j, i)
    BY <1>1, <1>5, <2>1 DEF Unbroken
  <2>3. j \in first
    BY <2>1, <2>2
  <2> QED
    BY <1>3, <1>5, <2>1, <2>3
<1>8. \A j \in ink : j > b => ~Unbroken(text, b, j)
  <2> SUFFICES ASSUME NEW j \in ink, j > b, Unbroken(text, b, j) PROVE FALSE
    OBVIOUS
  <2>1. j \in 1..n /\ j >= i
    BY <1>1, <1>5
  <2>2. Unbroken(text, i, j)
    BY <1>1, <1>5, <2>1 DEF Unbroken
  <2>3. j \in last
    BY <2>1, <2>2
  <2> QED
    BY <1>4, <1>5, <2>1, <2>3
<1> HIDE DEF first, last
<1>9. <<a, b>> \in NonBlankLines(text)
  <2> DEFINE line == <<a, b>>
  <2>1. line \in ink \X ink /\ line[1] = a /\ line[2] = b
    BY <1>5
  <2>2. a <= b /\ Unbroken(text, a, b)
    BY <1>5, <1>6
  <2> HIDE DEF line
  <2>3. line \in NonBlankLines(text)
    BY <1>7, <1>8, <2>1, <2>2 DEF NonBlankLines, ink
  <2> QED
    BY <2>3 DEF line
<1> QED
  BY <1>5, <1>9

\* A version that is read off an output is all that the output says.
LEMMA VersionsAreWhole ==
    ASSUME NEW tool, NEW text \in Seq(STRING), ParseVersion(tool, text) # NoVersion
    PROVE  Says(tool, text, ParseVersion(tool, text))
<1> DEFINE lines == NonBlankLines(text)
           line == CHOOSE l \in lines : TRUE
           part == SubSeq(text, line[1], line[2])
           candidate == Candidate(tool, part)
<1>1. /\ Cardinality(lines) = 1 /\ Len(candidate) = 1 /\ candidate[1] \in DOMAIN Printed
      /\ ParseVersion(tool, text) = VersionOf(Printed[candidate[1]])
  BY Zenon DEF ParseVersion
<1>2. \A l \in lines : l = line
  <2>1. IsFiniteSet(lines)
    <3>1. Ink(text) \subseteq 1..Len(text)
      BY DEF Ink
    <3>2. IsFiniteSet(Ink(text))
      BY <3>1, FS_Interval, FS_Subset
    <3>3. IsFiniteSet(Ink(text) \X Ink(text)) /\ lines \subseteq Ink(text) \X Ink(text)
      BY <3>2, FS_Product DEF NonBlankLines
    <3> QED
      BY <3>3, FS_Subset
  <2>2. PICK x : lines = {x}
    BY <1>1, <2>1, FS_Singleton
  <2> QED
    BY <2>2
<1>3. line \in lines
  <2>1. lines # {}
    BY <1>1, FS_EmptySet
  <2> QED
    BY <2>1
<1> DEFINE a == line[1]
           b == line[2]
           n == Len(text)
<1>4. a \in 1..n /\ b \in 1..n /\ n \in Nat /\ a <= b /\ DOMAIN text = 1..n
  <2> HIDE DEF line
  <2> QED
    BY <1>3 DEF NonBlankLines, Ink
<1> HIDE DEF line
<1>5. \A i \in 1..n : text[i] \in {"space", "newline"} \/ (a <= i /\ i <= b)
  <2> SUFFICES ASSUME NEW i \in 1..n, text[i] \notin {"space", "newline"} PROVE a <= i /\ i <= b
    OBVIOUS
  <2>1. i \in Ink(text)
    BY <1>4 DEF Ink
  <2> QED
    BY <1>2, <2>1, InkIsOnALine
<1> HIDE DEF a, b, n, lines
<1>6. Len(part) = b - a + 1 /\ part \in Seq(STRING) /\ \A i \in 1..b - a + 1 : part[i] = text[a + i - 1]
  <2>1. part = SubSeq(text, a, b)
    BY DEF a, b
  <2>2. a \in Nat \ {0} /\ b \in Nat /\ b <= Len(text) /\ a <= b + 1
    BY <1>4 DEF n
  <2> HIDE DEF part
  <2> QED
    BY <2>1, <2>2, PartOf
<1> DEFINE size == Len(part)
<1> HIDE DEF part, size
<1>0. size = b - a + 1 /\ size \in Nat
  <2>1. size = b - a + 1
    BY <1>6 DEF size
  <2> QED
    BY <1>4, <2>1
<1>7. CASE tool = "node" /\ Head(part) = "v"
  <2>1. candidate = Tail(part)
    BY <1>7, Zenon DEF Candidate
  <2> HIDE DEF candidate
  <2>2. part # <<>> /\ Len(part) \in Nat
    BY <1>4, <1>6
  <2>3. Len(part) = 2 /\ candidate[1] = part[2] /\ Head(part) = part[1]
    <3>1. Len(Tail(part)) = Len(part) - 1 /\ Head(part) = part[1]
      BY <1>6, <2>2, HeadTailProperties
    <3>2. \A i \in 1..Len(Tail(part)) : Tail(part)[i] = part[i + 1]
      BY <1>6, <2>2, HeadTailProperties
    <3>3. size = 2
      <4> DEFINE tail == Len(Tail(part))
      <4>1. tail = 1 /\ tail = size - 1
        BY <1>1, <2>1, <3>1, Zenon DEF size
      <4> HIDE DEF tail
      <4> QED
        BY <1>0, <4>1
    <3>4. Tail(part)[1] = part[1 + 1]
      <4>1. Len(Tail(part)) = 1
        BY <1>1, <2>1, Zenon
      <4> QED
        BY <3>2, <4>1
    <3> QED
      <4>1. Len(part) = 2
        BY <3>3 DEF size
      <4>2. 1 + 1 = 2
        OBVIOUS
      <4> QED
        BY <2>1, <3>1, <3>4, <4>1, <4>2, Zenon
  <2>4. b = a + 1 /\ candidate[1] = text[b] /\ text[a] = "v"
    <3>1. b = a + 1
      <4>1. size = 2
        BY <2>3 DEF size
      <4> QED
        BY <1>4, <1>0, <4>1
    <3>2. 1 \in 1..b - a + 1 /\ 2 \in 1..b - a + 1 /\ a + 1 - 1 = a /\ a + 2 - 1 = b
      BY <1>4, <3>1
    <3>3. part[1] = text[a + 1 - 1] /\ part[2] = text[a + 2 - 1]
      BY <1>6, <3>2, Zenon
    <3> QED
      BY <1>7, <2>3, <3>1, <3>2, <3>3, Zenon
  <2>5. \A j \in (1..n) \ {b} : text[j] \in {"space", "newline"} \/ (tool = "node" /\ j = b - 1 /\ text[j] = "v")
    BY <1>4, <1>5, <1>7, <2>4
  <2> QED
    BY <1>1, <1>4, <2>4, <2>5 DEF Says
<1>8. CASE ~(tool = "node" /\ Head(part) = "v")
  <2>1. candidate = part
    BY <1>8, Zenon DEF Candidate
  <2> HIDE DEF candidate
  <2>2. b = a /\ candidate[1] = text[b]
    <3>1. b = a
      <4>1. size = 1
        BY <1>1, <2>1, Zenon DEF size
      <4> QED
        BY <1>4, <1>0, <4>1
    <3>2. 1 \in 1..b - a + 1 /\ a + 1 - 1 = b
      BY <1>4, <3>1
    <3>3. part[1] = text[a + 1 - 1]
      BY <1>6, <3>2, Zenon
    <3> QED
      BY <2>1, <3>1, <3>2, <3>3, Zenon
  <2>3. \A j \in (1..n) \ {b} : text[j] \in {"space", "newline"}
    BY <1>4, <1>5, <2>2
  <2> QED
    BY <1>1, <1>4, <2>2, <2>3 DEF Says
<1> QED
  BY <1>7, <1>8

-----------------------------------------------------------------------------
(* Sequences laid end to end.                                               *)

\* flat has the first k of the sequences, each from its start on.
Laid(seqs, k, start, flat) ==
    /\ start \in [1..k + 1 -> Nat]
    /\ start[1] = 0
    /\ start[k + 1] = Len(flat)
    /\ \A i \in 1..k : start[i + 1] = start[i] + Len(seqs[i])
    /\ \A i \in 1..k + 1 : start[i] <= Len(flat)
    /\ \A i, j \in 1..k : i < j => start[i] + Len(seqs[i]) <= start[j]
    /\ \A i \in 1..k : start[i] + Len(seqs[i]) <= Len(flat)
    /\ \A i \in 1..k : \A j \in 1..Len(seqs[i]) : flat[start[i] + j] = seqs[i][j]
    /\ \A p \in 1..Len(flat) : \E i \in 1..k : \E j \in 1..Len(seqs[i]) : p = start[i] + j

\* No sequences are laid out nowhere.
LEMMA NothingLaid ==
    ASSUME NEW seqs
    PROVE  \E start : Laid(seqs, 0, start, <<>>)
<1> DEFINE start == [i \in 1..1 |-> 0]
<1>1. /\ start \in [1..0 + 1 -> Nat] /\ start[1] = 0 /\ start[0 + 1] = Len(<<>>)
      /\ \A i \in 1..0 + 1 : start[i] <= Len(<<>>)
  OBVIOUS
<1>2. 1..0 = {} /\ 1..Len(<<>>) = {}
  OBVIOUS
<1> HIDE DEF start
<1>3. Laid(seqs, 0, start, <<>>)
  BY <1>1, <1>2 DEF Laid
<1> QED
  BY <1>3

\* One sequence more is laid out at the end.
LEMMA OneMoreLaid ==
    ASSUME NEW S, NEW seqs \in Seq(Seq(S)), NEW k \in Nat, k + 1 <= Len(seqs),
           NEW start, NEW flat \in Seq(S), Laid(seqs, k, start, flat)
    PROVE  \E more : Laid(seqs, k + 1, more, flat \o seqs[k + 1])
<1> DEFINE next == seqs[k + 1]
           both == flat \o next
           m == Len(flat)
           n == Len(next)
           more == [i \in 1..k + 2 |-> IF i = k + 2 THEN m + n ELSE start[i]]
<1>1. next \in Seq(S) /\ \A i \in 1..k + 1 : seqs[i] \in Seq(S)
  <2>1. \A i \in 1..k + 1 : i \in DOMAIN seqs
    OBVIOUS
  <2> QED
    BY <2>1
<1>2. /\ both \in Seq(S) /\ Len(both) = m + n /\ m \in Nat /\ n \in Nat
      /\ \A i \in 1..m : both[i] = flat[i]
      /\ \A i \in 1..n : both[m + i] = next[i]
  <2>1. both \in Seq(S) /\ Len(both) = m + n
        /\ \A i \in 1..m + n : both[i] = IF i <= m THEN flat[i] ELSE next[i - m]
    BY <1>1, ConcatProperties
  <2>2. m \in Nat /\ n \in Nat
    BY <1>1
  <2> HIDE DEF both, m, n, next
  <2>3. \A i \in 1..m : both[i] = flat[i]
    BY <2>1, <2>2
  <2>4. ASSUME NEW i \in 1..n PROVE both[m + i] = next[i]
    <3> DEFINE at == m + i
    <3>1. at \in 1..m + n /\ ~(at <= m) /\ at - m = i
      BY <2>2
    <3> HIDE DEF at
    <3>2. both[at] = next[at - m]
      <4>1. both[at] = IF at <= m THEN flat[at] ELSE next[at - m]
        BY <2>1, <3>1, Zenon
      <4> QED
        BY <3>1, <4>1, Zenon
    <3> QED
      BY <3>1, <3>2 DEF at
  <2> QED
    BY <2>1, <2>2, <2>3, <2>4
<1>3. \A i \in 1..k : Len(seqs[i]) \in Nat
  BY <1>1
<1>4. /\ start \in [1..k + 1 -> Nat] /\ start[1] = 0 /\ start[k + 1] = m
      /\ \A i \in 1..k : start[i + 1] = start[i] + Len(seqs[i])
      /\ \A i \in 1..k + 1 : start[i] <= m
      /\ \A i, j \in 1..k : i < j => start[i] + Len(seqs[i]) <= start[j]
      /\ \A i \in 1..k : start[i] + Len(seqs[i]) <= m
      /\ \A i \in 1..k : \A j \in 1..Len(seqs[i]) : flat[start[i] + j] = seqs[i][j]
      /\ \A p \in 1..m : \E i \in 1..k : \E j \in 1..Len(seqs[i]) : p = start[i] + j
  BY DEF Laid
<1> DEFINE size(i) == Len(seqs[i])
<1>5. size(k + 1) = n
  OBVIOUS
<1> HIDE DEF both, m, n, next, size
<1>6. /\ more \in [1..k + 2 -> Nat] /\ more[k + 2] = m + n
      /\ \A i \in 1..k + 1 : more[i] = start[i]
  <2>1. k + 2 \in 1..k + 2 /\ \A i \in 1..k + 1 : i \in 1..k + 2 /\ i # k + 2
    OBVIOUS
  <2>2. \A i \in 1..k + 2 : i = k + 2 \/ i \in 1..k + 1
    OBVIOUS
  <2>3. more[k + 2] = m + n /\ \A i \in 1..k + 1 : more[i] = start[i]
    BY <2>1
  <2>4. m + n \in Nat /\ \A i \in 1..k + 1 : start[i] \in Nat
    BY <1>2, <1>4
  <2>5. more = [i \in 1..k + 2 |-> more[i]]
    OBVIOUS
  <2> HIDE DEF more
  <2>6. \A i \in 1..k + 2 : more[i] \in Nat
    BY <2>2, <2>3, <2>4
  <2> QED
    BY <2>3, <2>5, <2>6
<1> HIDE DEF more
<1>7. more[1] = 0 /\ more[k + 1] = m /\ \A i \in 1..k + 2 : more[i] <= m + n
  <2>1. 1 \in 1..k + 1 /\ k + 1 \in 1..k + 1
    OBVIOUS
  <2>2. more[1] = 0 /\ more[k + 1] = m
    BY <1>4, <1>6, <2>1
  <2>3. ASSUME NEW i \in 1..k + 1 PROVE more[i] <= m + n
    <3>1. more[i] <= m /\ more[i] \in Nat
      BY <1>4, <1>6
    <3> QED
      BY <1>2, <3>1
  <2>4. more[k + 2] <= m + n
    BY <1>2, <1>6
  <2>5. \A i \in 1..k + 2 : i \in 1..k + 1 \/ i = k + 2
    OBVIOUS
  <2> QED
    BY <2>2, <2>3, <2>4, <2>5
<1>8. \A i \in 1..k + 1 : more[i + 1] = more[i] + size(i)
  <2>1. ASSUME NEW i \in 1..k PROVE more[i + 1] = more[i] + size(i)
    BY <1>4, <1>6 DEF size
  <2>2. more[(k + 1) + 1] = more[k + 1] + size(k + 1)
    <3>1. (k + 1) + 1 = k + 2
      OBVIOUS
    <3>2. more[k + 2] = m + n /\ more[k + 1] = m /\ size(k + 1) = n
      BY <1>5, <1>6, <1>7
    <3> QED
      BY <3>1, <3>2
  <2>3. \A i \in 1..k + 1 : i \in 1..k \/ i = k + 1
    OBVIOUS
  <2> QED
    BY <2>1, <2>2, <2>3
<1>9. \A i \in 1..k + 1 : more[i] + size(i) <= m + n
  <2>1. ASSUME NEW i \in 1..k PROVE more[i] + size(i) <= m + n
    <3>1. start[i] + size(i) <= m /\ start[i] \in Nat /\ size(i) \in Nat /\ more[i] = start[i]
      BY <1>3, <1>4, <1>6 DEF size
    <3> DEFINE end == start[i] + size(i)
    <3>2. end \in Nat /\ end <= m /\ more[i] + size(i) = end
      BY <3>1
    <3> HIDE DEF end
    <3>3. end <= m + n
      BY <1>2, <3>2
    <3> QED
      BY <3>2, <3>3
  <2>2. more[k + 1] + size(k + 1) <= m + n
    BY <1>2, <1>5, <1>7
  <2>3. \A i \in 1..k + 1 : i \in 1..k \/ i = k + 1
    OBVIOUS
  <2> QED
    BY <2>1, <2>2, <2>3
<1>10. ASSUME NEW i \in 1..k + 1, NEW j \in 1..k + 1, i < j
       PROVE  more[i] + size(i) <= more[j]
  <2>1. i \in 1..k /\ more[i] = start[i]
    BY <1>6, <1>10
  <2>2. start[i] + size(i) <= m /\ (j \in 1..k => start[i] + size(i) <= start[j])
    BY <1>4, <1>10, <2>1 DEF size
  <2>3. \/ j \in 1..k /\ more[j] = start[j]
        \/ j = k + 1 /\ more[j] = m
    <3>1. j \in 1..k \/ j = k + 1
      OBVIOUS
    <3> QED
      BY <1>6, <1>7, <3>1
  <2> QED
    BY <2>1, <2>2, <2>3
<1>11. ASSUME NEW i \in 1..k + 1, NEW j \in 1..size(i)
       PROVE  both[more[i] + j] = seqs[i][j]
  <2>1. CASE i = k + 1
    <3>1. j \in 1..n /\ more[i] = m
      BY <1>5, <1>7, <2>1
    <3>2. both[m + j] = next[j]
      BY <1>2, <3>1
    <3> QED
      BY <2>1, <3>1, <3>2 DEF next
  <2>2. CASE i \in 1..k
    <3>1. /\ more[i] = start[i] /\ start[i] \in Nat /\ size(i) \in Nat /\ start[i] + size(i) <= m
          /\ flat[start[i] + j] = seqs[i][j]
      BY <1>3, <1>4, <1>6, <2>2 DEF size
    <3>2. start[i] + j \in 1..m
      <4> DEFINE l == size(i)
                 at == start[i]
      <4>1. l \in Nat /\ at \in Nat /\ at + l <= m /\ j \in 1..l
        BY <3>1
      <4> HIDE DEF l, at
      <4>2. at + j \in 1..m
        BY <1>2, <4>1
      <4> QED
        BY <4>2 DEF at
    <3>3. both[start[i] + j] = flat[start[i] + j]
      BY <1>2, <3>2
    <3> QED
      BY <3>1, <3>3, Zenon
  <2>3. i \in 1..k \/ i = k + 1
    OBVIOUS
  <2> QED
    BY <2>1, <2>2, <2>3
<1>12. ASSUME NEW p \in 1..m + n
       PROVE  \E i \in 1..k + 1 : \E j \in 1..size(i) : p = more[i] + j
  <2>1. CASE p <= m
    <3>1. p \in 1..m
      BY <1>2, <2>1
    <3>2. PICK i \in 1..k : \E j \in 1..size(i) : p = start[i] + j
      BY <1>4, <3>1 DEF size
    <3>3. i \in 1..k + 1
      OBVIOUS
    <3>4. more[i] = start[i]
      BY <1>6, <3>3
    <3> QED
      BY <3>2, <3>3, <3>4
  <2>2. CASE p > m
    <3>1. p - m \in 1..n /\ p = m + (p - m) /\ k + 1 \in 1..k + 1
      BY <1>2, <2>2
    <3> QED
      BY <1>5, <1>7, <3>1
  <2> QED
    BY <1>2, <2>1, <2>2
<1>13. (k + 1) + 1 = k + 2
  OBVIOUS
<1>14. Laid(seqs, k + 1, more, both)
  BY <1>2, <1>6, <1>7, <1>8, <1>9, <1>10, <1>11, <1>12, <1>13 DEF Laid, size
<1> QED
  BY <1>14 DEF both, next

\* One step of FlattenSeq.
FlattenStep(seqs, f, i) == IF i = 1 THEN seqs[i] ELSE f[i - 1] \o seqs[i]

\* FlattenSeq is a recursive function; this function solves its equation.
LEMMA FlattenExists ==
    ASSUME NEW S, NEW seqs \in Seq(Seq(S)), Len(seqs) > 0
    PROVE  \E f \in [1..Len(seqs) -> Seq(S)] : \A i \in 1..Len(seqs) : f[i] = FlattenStep(seqs, f, i)
<1> DEFINE n == Len(seqs)
           Good(k, f) == f \in [1..k + 1 -> Seq(S)] /\ \A i \in 1..k + 1 : f[i] = FlattenStep(seqs, f, i)
           T == {k \in Nat : k + 1 <= n => \E f : Good(k, f)}
<1> HIDE DEF Good
<1>1. n \in Nat \ {0} /\ \A i \in 1..n : seqs[i] \in Seq(S)
  OBVIOUS
<1>2. 0 \in T
  <2> DEFINE f == [i \in 1..1 |-> seqs[1]]
  <2>1. f \in [1..0 + 1 -> Seq(S)] /\ f[1] = seqs[1]
    BY <1>1
  <2> HIDE DEF f
  <2>2. \A i \in 1..0 + 1 : i = 1
    OBVIOUS
  <2>3. Good(0, f)
    BY <2>1, <2>2 DEF FlattenStep, Good
  <2> QED
    BY <2>3
<1>3. ASSUME NEW k \in T PROVE k + 1 \in T
  <2> SUFFICES ASSUME k + 1 + 1 <= n PROVE \E f : Good(k + 1, f)
    OBVIOUS
  <2>1. k \in Nat /\ k + 1 <= n
    BY <1>1
  <2>2. PICK f : Good(k, f)
    BY <2>1
  <2>0. f \in [1..k + 1 -> Seq(S)] /\ \A i \in 1..k + 1 : f[i] = FlattenStep(seqs, f, i)
    BY <2>2 DEF Good
  <2> DEFINE next == f[k + 1] \o seqs[k + 2]
             g == [i \in 1..(k + 1) + 1 |-> IF i = k + 2 THEN next ELSE f[i]]
  <2>3. f[k + 1] \in Seq(S) /\ seqs[k + 2] \in Seq(S)
    BY <1>1, <2>1, <2>0
  <2>4. next \in Seq(S)
    BY <2>3, ConcatProperties
  <2> HIDE DEF next
  <2>5. /\ g \in [1..(k + 1) + 1 -> Seq(S)] /\ g[k + 2] = next
        /\ \A i \in 1..k + 1 : g[i] = f[i]
    BY <2>1, <2>0, <2>4
  <2> HIDE DEF g
  <2>6. ASSUME NEW i \in 1..(k + 1) + 1 PROVE g[i] = FlattenStep(seqs, g, i)
    <3>1. CASE i = k + 2
      <4>1. i # 1 /\ i - 1 = k + 1 /\ k + 1 \in 1..k + 1
        BY <2>1, <3>1
      <4>2. g[i - 1] = f[k + 1]
        BY <2>5, <4>1
      <4> QED
        BY <2>5, <3>1, <4>1, <4>2 DEF FlattenStep, next
    <3>2. CASE i = 1
      <4>1. 1 \in 1..k + 1
        BY <2>1
      <4>2. g[1] = f[1] /\ f[1] = FlattenStep(seqs, f, 1)
        BY <2>0, <2>5, <4>1
      <4> QED
        BY <3>2, <4>2 DEF FlattenStep
    <3>3. CASE i # 1 /\ i # k + 2
      <4>1. i \in 1..k + 1 /\ i - 1 \in 1..k + 1
        BY <2>1, <3>3
      <4>2. g[i] = f[i] /\ g[i - 1] = f[i - 1] /\ f[i] = FlattenStep(seqs, f, i)
        BY <2>0, <2>5, <4>1
      <4> QED
        BY <3>3, <4>2 DEF FlattenStep
    <3> QED
      BY <3>1, <3>2, <3>3
  <2>7. Good(k + 1, g)
    BY <2>5, <2>6 DEF Good
  <2> QED
    BY <2>7
<1>4. n - 1 \in T
  <2> HIDE DEF T
  <2>1. T \subseteq Nat
    BY DEF T
  <2>2. T = Nat
    BY <1>2, <1>3, <2>1, SetInduction
  <2> QED
    BY <1>1, <2>2
<1>5. (n - 1) + 1 = n
  BY <1>1
<1>6. PICK f : Good(n - 1, f)
  BY <1>1, <1>4, <1>5
<1> QED
  BY <1>5, <1>6 DEF Good

\* So the function it chooses solves it too.
LEMMA FlattenUnfolds ==
    ASSUME NEW S, NEW seqs \in Seq(Seq(S)), Len(seqs) > 0
    PROVE  \E f : /\ FlattenSeq(seqs) = f[Len(seqs)]
                  /\ \A i \in 1..Len(seqs) : f[i] = FlattenStep(seqs, f, i)
<1> DEFINE n == Len(seqs)
           Step(f) == [i \in 1..n |-> FlattenStep(seqs, f, i)]
           chosen == CHOOSE f : f = Step(f)
<1>1. PICK f \in [1..n -> Seq(S)] : \A i \in 1..n : f[i] = FlattenStep(seqs, f, i)
  BY FlattenExists
<1>2. f = Step(f)
  BY <1>1
<1>3. chosen = Step(chosen)
  BY <1>2, Zenon
<1>4. FlattenSeq(seqs) = chosen[n]
  <2>1. n # 0
    OBVIOUS
  <2> QED
    BY <2>1, Zenon DEF FlattenSeq, FlattenStep
<1>5. \A i \in 1..n : chosen[i] = FlattenStep(seqs, chosen, i)
  <2> HIDE DEF chosen
  <2> QED
    BY <1>3
<1> QED
  BY <1>4, <1>5

(* What FlattenSeq returns is its sequences, laid out one behind the        *)
(* other.                                                                   *)
LEMMA FlattenPlaces ==
    ASSUME NEW S, NEW seqs \in Seq(Seq(S))
    PROVE  /\ FlattenSeq(seqs) \in Seq(S)
           /\ \E start : Laid(seqs, Len(seqs), start, FlattenSeq(seqs))
<1> DEFINE n == Len(seqs)
<1>1. n \in Nat /\ \A i \in 1..n : seqs[i] \in Seq(S)
  OBVIOUS
<1>2. CASE n = 0
  <2>1. seqs = <<>>
    BY <1>2
  <2>2. FlattenSeq(seqs) = <<>>
    BY <1>2, <2>1, Zenon DEF FlattenSeq
  <2>3. <<>> \in Seq(S)
    OBVIOUS
  <2> QED
    BY <1>2, <2>2, <2>3, NothingLaid
<1>3. CASE n > 0
  <2>1. PICK f : FlattenSeq(seqs) = f[n] /\ \A i \in 1..n : f[i] = FlattenStep(seqs, f, i)
    BY <1>3, FlattenUnfolds
  <2> DEFINE flat(k) == IF k = 0 THEN <<>> ELSE f[k]
             T == {k \in Nat : k <= n => flat(k) \in Seq(S) /\ \E start : Laid(seqs, k, start, flat(k))}
  <2>2. 0 \in T
    <3>1. <<>> \in Seq(S) /\ flat(0) = <<>>
      OBVIOUS
    <3>2. \E start : Laid(seqs, 0, start, flat(0))
      BY <3>1, NothingLaid
    <3> HIDE DEF flat
    <3> QED
      BY <3>1, <3>2
  <2>3. ASSUME NEW k \in T PROVE k + 1 \in T
    <3> SUFFICES ASSUME k + 1 <= n
                 PROVE  flat(k + 1) \in Seq(S) /\ \E start : Laid(seqs, k + 1, start, flat(k + 1))
      OBVIOUS
    <3>1. k \in Nat /\ k + 1 \in 1..n /\ flat(k) \in Seq(S) /\ seqs[k + 1] \in Seq(S)
      BY <1>1
    <3>2. PICK start : Laid(seqs, k, start, flat(k))
      BY <3>1
    <3>3. flat(k + 1) = flat(k) \o seqs[k + 1]
      <4>1. f[k + 1] = FlattenStep(seqs, f, k + 1) /\ flat(k + 1) = f[k + 1]
        BY <2>1, <3>1
      <4>2. CASE k = 0
        <5>1. flat(k) = <<>> /\ f[k + 1] = seqs[k + 1]
          BY <4>1, <4>2 DEF FlattenStep
        <5> HIDE DEF flat
        <5> QED
          BY <3>1, <4>1, <5>1
      <4>3. CASE k # 0
        <5>1. k + 1 # 1 /\ (k + 1) - 1 = k
          BY <3>1, <4>3
        <5>2. f[k + 1] = f[(k + 1) - 1] \o seqs[k + 1]
          <6>1. \A i : i # 1 => FlattenStep(seqs, f, i) = f[i - 1] \o seqs[i]
            BY Zenon DEF FlattenStep
          <6> QED
            BY <4>1, <5>1, <6>1, Zenon
        <5>3. flat(k) = f[k]
          BY <4>3
        <5> HIDE DEF flat
        <5> QED
          BY <4>1, <5>1, <5>2, <5>3
      <4> QED
        BY <4>2, <4>3
    <3> HIDE DEF flat
    <3>4. flat(k) \o seqs[k + 1] \in Seq(S)
      BY <3>1, ConcatProperties
    <3>5. \E more : Laid(seqs, k + 1, more, flat(k) \o seqs[k + 1])
      BY <3>1, <3>2, OneMoreLaid
    <3> QED
      BY <3>3, <3>4, <3>5
  <2> HIDE DEF T
  <2>4. T \subseteq Nat
    BY DEF T
  <2>5. T = Nat
    BY <2>2, <2>3, <2>4, SetInduction
  <2>6. flat(n) = f[n]
    BY <1>3
  <2> HIDE DEF flat
  <2> QED
    BY <1>1, <2>1, <2>5, <2>6 DEF T
<1> QED
  BY <1>1, <1>2, <1>3

-----------------------------------------------------------------------------
(* Counting by numbering.                                                   *)

\* As many values as arguments, when no two arguments share one.
LEMMA Numbered ==
    ASSUME NEW I, IsFiniteSet(I), NEW f, \A i, j \in I : f[i] = f[j] => i = j
    PROVE  Cardinality({f[i] : i \in I}) = Cardinality(I)
<1> DEFINE J == {f[i] : i \in I}
           g == [i \in I |-> f[i]]
<1>1. g \in [I -> J] /\ (\A i, j \in I : g[i] = g[j] => i = j) /\ \A j \in J : \E i \in I : g[i] = j
  OBVIOUS
<1> HIDE DEF g, J
<1>2. g \in Injection(I, J)
  BY <1>1 DEF Injection, IsInjective
<1>3. g \in Surjection(I, J)
  BY <1>1 DEF Surjection
<1>4. ExistsBijection(I, J)
  BY <1>2, <1>3 DEF Bijection, ExistsBijection
<1>5. Cardinality(J) = Cardinality(I)
  BY <1>4, FS_Bijection
<1> QED
  BY <1>5 DEF J

(* Sequences of one element, end to end.                                    *)
LEMMA FlattenSingles ==
    ASSUME NEW S, NEW x \in S, NEW n \in Nat
    PROVE  LET flat == FlattenSeq([i \in 1..n |-> <<x>>])
           IN flat \in Seq(S) /\ Len(flat) = n /\ \A p \in 1..n : flat[p] = x
<1> DEFINE seqs == [i \in 1..n |-> <<x>>]
           flat == FlattenSeq(seqs)
<1>1. /\ seqs \in Seq(Seq(S)) /\ Len(seqs) = n
      /\ \A i \in 1..n : Len(seqs[i]) = 1 /\ seqs[i][1] = x
  <2>1. <<x>> \in Seq(S) /\ Len(<<x>>) = 1 /\ <<x>>[1] = x
    OBVIOUS
  <2> DEFINE y == <<x>>
  <2>2. seqs = [i \in 1..n |-> y]
    OBVIOUS
  <2> HIDE DEF y, seqs
  <2>3. seqs \in [1..n -> Seq(S)] /\ \A i \in 1..n : seqs[i] = y
    BY <2>1, <2>2 DEF y
  <2> QED
    BY <2>1, <2>3, FunctionIsSequence DEF y
<1> HIDE DEF seqs
<1>2. flat \in Seq(S) /\ \E start : Laid(seqs, n, start, flat)
  BY <1>1, FlattenPlaces
<1> HIDE DEF flat
<1>3. PICK start : Laid(seqs, n, start, flat)
  BY <1>2
<1> DEFINE T == {k \in Nat : k <= n => start[k + 1] = k}
<1>4. 0 \in T
  BY <1>3 DEF Laid
<1>5. ASSUME NEW k \in T PROVE k + 1 \in T
  <2> SUFFICES ASSUME k + 1 <= n PROVE start[(k + 1) + 1] = k + 1
    OBVIOUS
  <2>1. k + 1 \in 1..n /\ start[k + 1] = k
    OBVIOUS
  <2>2. start[(k + 1) + 1] = start[k + 1] + Len(seqs[k + 1])
    BY <1>3, <2>1, Zenon DEF Laid
  <2>3. Len(seqs[k + 1]) = 1
    BY <1>1, <2>1
  <2> QED
    BY <2>1, <2>2, <2>3
<1>6. n \in T
  <2> HIDE DEF T
  <2>1. T \subseteq Nat
    BY DEF T
  <2>2. T = Nat
    BY <1>4, <1>5, <2>1, SetInduction
  <2> QED
    BY <2>2
<1>7. Len(flat) = n
  BY <1>3, <1>6 DEF Laid
<1>8. ASSUME NEW p \in 1..n PROVE flat[p] = x
  <2>1. PICK i \in 1..n : \E j \in 1..Len(seqs[i]) : p = start[i] + j
    BY <1>3, <1>7 DEF Laid
  <2>2. p = start[i] + 1
    <3>1. Len(seqs[i]) = 1
      BY <1>1
    <3>2. PICK j \in 1..1 : p = start[i] + j
      BY <2>1, <3>1
    <3>3. j = 1
      OBVIOUS
    <3> QED
      BY <3>2, <3>3
  <2>3. flat[start[i] + 1] = seqs[i][1]
    <3>1. 1 \in 1..Len(seqs[i])
      BY <1>1
    <3> QED
      BY <1>3, <3>1, Zenon DEF Laid
  <2> QED
    BY <1>1, <2>2, <2>3
<1> QED
  BY <1>2, <1>7, <1>8 DEF flat, seqs

-----------------------------------------------------------------------------
(* The lines of the report.                                                 *)

\* A line of the report.
ReportLines == [kind : {"match", "reason", "evidence"}, name : Strings, label : Statuses \cup {Empty}]

\* Line makes a line.
LEMMA LineType ==
    ASSUME NEW kind \in {"match", "reason", "evidence"}, NEW name \in Strings,
           NEW label \in Statuses \cup {Empty}
    PROVE  /\ Line(kind, name, label) \in ReportLines
           /\ Line(kind, name, label).kind = kind
           /\ Line(kind, name, label).name = name
           /\ Line(kind, name, label).label = label
BY DEF Line, ReportLines

\* No name and no text can break a line: what is printed is quoted.
LEMMA BreaksAreQuoted ==
    /\ \A string : Printable(BreakOf(string)) = "none"
    /\ \A text : Printable(BreakIn(text)) = "none"
BY DEF Printable, BreakOf, BreakIn

\* So a field that is printed leaves its line alone.
LEMMA ShownAlone ==
    ASSUME NEW S, NEW line \in S, NEW a, NEW b, Printable(a) = "none", Printable(b) = "none"
    PROVE  Shown(line, {a, b}) = <<line>>
<1>1. ~\E c \in {a, b} : Printable(c) # "none"
  OBVIOUS
<1>2. Shown(line, {a, b}) = <<line>> \o <<>>
  BY <1>1, Zenon DEF Shown
<1>3. <<line>> \in Seq(S)
  OBVIOUS
<1> QED
  BY <1>2, <1>3, ConcatEmptySeq

\* What a probe can observe.
Observations == {VersionOf(Printed[word]) : word \in DOMAIN Printed} \cup {NoVersion}

\* A match, as the loop records it.
Matches == [requirement : Requirements, present : BOOLEAN, version : Observations, status : Statuses]

\* The block of a match is its line, its reason and its evidence.
LEMMA BlockOf ==
    ASSUME NEW m \in Matches
    PROVE  LET name == m.requirement.name
               size == Len(m.requirement.evidence)
           IN /\ size \in Nat
              /\ Block(m) \in Seq(ReportLines) /\ Len(Block(m)) = 2 + size
              /\ Block(m)[1] = Line("match", name, m.status)
              /\ Block(m)[2] = Line("reason", name, Empty)
              /\ \A j \in 1..size : Block(m)[2 + j] = Line("evidence", name, Empty)
<1> DEFINE r == m.requirement
           name == r.name
           size == Len(r.evidence)
           a == Line("match", name, m.status)
           b == Line("reason", name, Empty)
           c == Line("evidence", name, Empty)
           flat == FlattenSeq([i \in 1..size |-> <<c>>])
<1>1. /\ name \in Strings /\ size \in Nat /\ DOMAIN r.evidence = 1..size
      /\ m.status \in Statuses \cup {Empty} /\ Empty \in Statuses \cup {Empty}
  <2>1. r \in Requirements /\ m.status \in Statuses
    BY DEF Matches
  <2> DEFINE given == Seq([source : Strings, field : Strings])
  <2>2. Requirements = [name : Strings, constraint : Written, evidence : given]
    BY Zenon DEF Requirements
  <2>3. r.name \in Strings /\ r.evidence \in given
    <3> HIDE DEF given, r
    <3> QED
      BY <2>1, <2>2
  <2> QED
    BY <2>1, <2>3
<1>2. a \in ReportLines /\ b \in ReportLines /\ c \in ReportLines
  <2> HIDE DEF name
  <2> QED
    BY <1>1, LineType
<1>3. Block(m) = (<<a>> \o <<b>>) \o flat
  <2>1. Shown(a, {BreakOf(name), BreakIn(r.constraint)}) = <<a>>
    BY <1>2, BreaksAreQuoted, ShownAlone
  <2> DEFINE piece(i) == Shown(c, {BreakOf(r.evidence[i].source), BreakOf(r.evidence[i].field)})
  <2>2. \A i \in 1..size : piece(i) = <<c>>
    BY <1>2, BreaksAreQuoted, ShownAlone
  <2>3. Block(m) = (Shown(a, {BreakOf(name), BreakIn(r.constraint)}) \o <<b>>)
                     \o FlattenSeq([i \in DOMAIN r.evidence |-> piece(i)])
    BY Zenon DEF Block
  <2> HIDE DEF piece
  <2>4. [i \in DOMAIN r.evidence |-> piece(i)] = [i \in 1..size |-> <<c>>]
    BY <1>1, <2>2, Zenon
  <2> QED
    BY <2>1, <2>3, <2>4, Zenon
<1> HIDE DEF a, b, c
<1>4. flat \in Seq(ReportLines) /\ Len(flat) = size /\ \A j \in 1..size : flat[j] = c
  BY <1>1, <1>2, FlattenSingles
<1>5. <<a>> \o <<b>> = <<a, b>>
  BY <1>2, OneAndOne
<1> DEFINE ab == <<a, b>>
<1>6. ab \in Seq(ReportLines) /\ Len(ab) = 2 /\ ab[1] = a /\ ab[2] = b
  BY <1>2
<1> HIDE DEF flat, ab, r, size
<1>7. /\ ab \o flat \in Seq(ReportLines) /\ Len(ab \o flat) = 2 + size
      /\ \A i \in 1..2 + size : (ab \o flat)[i] = IF i <= 2 THEN ab[i] ELSE flat[i - 2]
  <2>1. /\ ab \o flat \in Seq(ReportLines) /\ Len(ab \o flat) = Len(ab) + Len(flat)
        /\ \A i \in 1..Len(ab) + Len(flat) :
             (ab \o flat)[i] = IF i <= Len(ab) THEN ab[i] ELSE flat[i - Len(ab)]
    BY <1>4, <1>6, ConcatProperties, Zenon
  <2>2. Len(ab) = 2 /\ Len(flat) = size
    BY <1>4, <1>6
  <2> QED
    BY <2>1, <2>2, Zenon
<1>8. (ab \o flat)[1] = a /\ (ab \o flat)[2] = b
  BY <1>1, <1>6, <1>7
<1>9. ASSUME NEW j \in 1..size PROVE (ab \o flat)[2 + j] = c
  <2>1. 2 + j \in 1..2 + size /\ ~(2 + j <= 2) /\ (2 + j) - 2 = j
    BY <1>1
  <2> QED
    BY <1>4, <1>7, <2>1
<1>10. Block(m) = ab \o flat
  BY <1>3, <1>5 DEF ab
<1>11. /\ size \in Nat
       /\ Block(m) \in Seq(ReportLines) /\ Len(Block(m)) = 2 + size
       /\ Block(m)[1] = a
       /\ Block(m)[2] = b
       /\ \A j \in 1..size : Block(m)[2 + j] = c
  BY <1>1, <1>7, <1>8, <1>9, <1>10
<1> QED
  BY <1>11, Zenon DEF r, size, a, b, c

\* The places of the lines of one kind.
PlacesIn(lines, kind) == {k \in DOMAIN lines : lines[k].kind = kind}

(* Where the lines of a report on these matches are: of each match one line *)
(* and one for its reason, then one per evidence.                           *)
Reports(lines, ms) ==
    \E start \in [1..Len(ms) + 1 -> Nat] :
        LET name(i) == ms[i].requirement.name
            size(i) == Len(ms[i].requirement.evidence)
        IN /\ PlacesIn(lines, "forged") = {}
           /\ PlacesIn(lines, "match") = {start[i] + 1 : i \in 1..Len(ms)}
           /\ \A i \in 1..Len(ms) : /\ size(i) \in Nat
                                    /\ lines[start[i] + 1] = Line("match", name(i), ms[i].status)
           /\ \A i, j \in 1..Len(ms) : i < j => start[i] + 2 + size(i) <= start[j]
           /\ \A k \in PlacesIn(lines, "evidence") :
                \E i \in 1..Len(ms) : \E j \in 1..size(i) : k = start[i] + (2 + j)
           /\ \A i \in 1..Len(ms) : \A j \in 1..size(i) :
                /\ start[i] + (2 + j) \in DOMAIN lines
                /\ lines[start[i] + (2 + j)] = Line("evidence", name(i), Empty)

\* The report is the blocks of the matches, in their order.
LEMMA LinesOfTheReport ==
    ASSUME NEW ms \in Seq(Matches)
    PROVE  Reports(FlattenSeq([i \in DOMAIN ms |-> Block(ms[i])]), ms)
<1> DEFINE n == Len(ms)
           seqs == [i \in DOMAIN ms |-> Block(ms[i])]
           lines == FlattenSeq(seqs)
           name(i) == ms[i].requirement.name
           size(i) == Len(ms[i].requirement.evidence)
<1>1. n \in Nat /\ DOMAIN ms = 1..n /\ \A i \in 1..n : ms[i] \in Matches
  OBVIOUS
<1>2. \A i \in 1..n : /\ size(i) \in Nat
                      /\ Block(ms[i]) \in Seq(ReportLines) /\ Len(Block(ms[i])) = 2 + size(i)
                      /\ Block(ms[i])[1] = Line("match", name(i), ms[i].status)
                      /\ Block(ms[i])[2] = Line("reason", name(i), Empty)
                      /\ \A j \in 1..size(i) : Block(ms[i])[2 + j] = Line("evidence", name(i), Empty)
  BY <1>1, BlockOf, Zenon
<1>3. /\ seqs \in Seq(Seq(ReportLines)) /\ Len(seqs) = n
      /\ \A i \in 1..n : seqs[i] = Block(ms[i])
  <2>1. seqs \in [1..n -> Seq(ReportLines)] /\ \A i \in 1..n : seqs[i] = Block(ms[i])
    BY <1>1, <1>2
  <2> HIDE DEF seqs
  <2> QED
    BY <1>1, <2>1, FunctionIsSequence
<1> HIDE DEF seqs, n
<1>4. lines \in Seq(ReportLines) /\ \E start : Laid(seqs, n, start, lines)
  BY <1>3, FlattenPlaces
<1> HIDE DEF lines
<1>5. PICK start : Laid(seqs, n, start, lines)
  BY <1>4
<1> HIDE DEF name, size
<1>6. \A i \in 1..n : /\ size(i) \in Nat /\ Len(seqs[i]) = 2 + size(i)
                      /\ seqs[i][1] = Line("match", name(i), ms[i].status)
                      /\ seqs[i][2] = Line("reason", name(i), Empty)
                      /\ \A j \in 1..size(i) : seqs[i][2 + j] = Line("evidence", name(i), Empty)
  BY <1>2, <1>3
<1>7. /\ start \in [1..n + 1 -> Nat] /\ DOMAIN lines = 1..Len(lines) /\ Len(lines) \in Nat
      /\ \A i, j \in 1..n : i < j => start[i] + (2 + size(i)) <= start[j]
      /\ \A i \in 1..n : start[i] + (2 + size(i)) <= Len(lines)
      /\ \A i \in 1..n : \A j \in 1..2 + size(i) : lines[start[i] + j] = seqs[i][j]
      /\ \A p \in 1..Len(lines) : \E i \in 1..n : \E j \in 1..2 + size(i) : p = start[i] + j
  <2>1. DOMAIN lines = 1..Len(lines) /\ Len(lines) \in Nat
    BY <1>4
  <2>2. \A i \in 1..n : Len(seqs[i]) = 2 + size(i)
    BY <1>6
  <2>3. start \in [1..n + 1 -> Nat]
    BY <1>5, Zenon DEF Laid
  <2>4. \A i, j \in 1..n : i < j => start[i] + (2 + size(i)) <= start[j]
    <3>1. \A i, j \in 1..n : i < j => start[i] + Len(seqs[i]) <= start[j]
      BY <1>5 DEF Laid
    <3> QED
      BY <2>2, <3>1
  <2>5. \A i \in 1..n : start[i] + (2 + size(i)) <= Len(lines)
    <3>1. \A i \in 1..n : start[i] + Len(seqs[i]) <= Len(lines)
      BY <1>5 DEF Laid
    <3> QED
      BY <2>2, <3>1
  <2>6. \A i \in 1..n : \A j \in 1..2 + size(i) : lines[start[i] + j] = seqs[i][j]
    <3>1. \A i \in 1..n : \A j \in 1..Len(seqs[i]) : lines[start[i] + j] = seqs[i][j]
      BY <1>5 DEF Laid
    <3> QED
      BY <2>2, <3>1, Zenon
  <2>7. \A p \in 1..Len(lines) : \E i \in 1..n : \E j \in 1..2 + size(i) : p = start[i] + j
    <3>1. \A p \in 1..Len(lines) : \E i \in 1..n : \E j \in 1..Len(seqs[i]) : p = start[i] + j
      BY <1>5 DEF Laid
    <3> QED
      BY <2>2, <3>1, Zenon
  <2> QED
    BY <2>1, <2>3, <2>4, <2>5, <2>6, <2>7
<1>8. \A i \in 1..n : start[i] \in Nat /\ size(i) \in Nat
  <2>1. start \in [1..n + 1 -> Nat]
    BY <1>7, Zenon
  <2>2. \A i \in 1..n : i \in 1..n + 1
    BY <1>1
  <2>3. \A i \in 1..n : size(i) \in Nat
    BY <1>6, Zenon
  <2> QED
    BY <2>1, <2>2, <2>3
<1>9. \A i \in 1..n : /\ start[i] + 1 \in DOMAIN lines
                      /\ lines[start[i] + 1] = Line("match", name(i), ms[i].status)
  <2> SUFFICES ASSUME NEW i \in 1..n
               PROVE  start[i] + 1 \in DOMAIN lines /\ lines[start[i] + 1] = Line("match", name(i), ms[i].status)
    OBVIOUS
  <2> DEFINE l == size(i)
             at == start[i]
  <2>1. l \in Nat /\ at \in Nat /\ at + (2 + l) <= Len(lines)
    BY <1>7, <1>8
  <2> HIDE DEF l, at
  <2>2. 1 \in 1..2 + l /\ at + 1 \in 1..Len(lines)
    BY <1>7, <2>1
  <2>3. lines[at + 1] = seqs[i][1]
    BY <1>7, <2>2, Zenon DEF at, l
  <2> QED
    BY <1>6, <1>7, <2>2, <2>3, Zenon DEF at, l
<1>10. \A i \in 1..n : /\ start[i] + 2 \in DOMAIN lines
                       /\ lines[start[i] + 2] = Line("reason", name(i), Empty)
  <2> SUFFICES ASSUME NEW i \in 1..n
               PROVE  start[i] + 2 \in DOMAIN lines /\ lines[start[i] + 2] = Line("reason", name(i), Empty)
    OBVIOUS
  <2> DEFINE l == size(i)
             at == start[i]
  <2>1. l \in Nat /\ at \in Nat /\ at + (2 + l) <= Len(lines)
    BY <1>7, <1>8
  <2> HIDE DEF l, at
  <2>2. 2 \in 1..2 + l /\ at + 2 \in 1..Len(lines)
    BY <1>7, <2>1
  <2>3. lines[at + 2] = seqs[i][2]
    BY <1>7, <2>2, Zenon DEF at, l
  <2> QED
    BY <1>6, <1>7, <2>2, <2>3, Zenon DEF at, l
<1>11. \A i \in 1..n : \A j \in 1..size(i) :
         /\ start[i] + (2 + j) \in DOMAIN lines
         /\ lines[start[i] + (2 + j)] = Line("evidence", name(i), Empty)
  <2> SUFFICES ASSUME NEW i \in 1..n, NEW j \in 1..size(i)
               PROVE  /\ start[i] + (2 + j) \in DOMAIN lines
                      /\ lines[start[i] + (2 + j)] = Line("evidence", name(i), Empty)
    OBVIOUS
  <2> DEFINE l == size(i)
             at == start[i]
  <2>1. l \in Nat /\ at \in Nat /\ at + (2 + l) <= Len(lines) /\ j \in 1..l
    BY <1>7, <1>8
  <2> HIDE DEF l, at
  <2>2. 2 + j \in 1..2 + l /\ at + (2 + j) \in 1..Len(lines)
    BY <1>7, <2>1
  <2>3. lines[at + (2 + j)] = seqs[i][2 + j]
    BY <1>7, <2>2, Zenon DEF at, l
  <2> QED
    BY <1>6, <1>7, <2>1, <2>2, <2>3, Zenon DEF at, l
<1>12. ASSUME NEW k \in DOMAIN lines
       PROVE  \/ \E i \in 1..n : k = start[i] + 1
              \/ \E i \in 1..n : k = start[i] + 2
              \/ \E i \in 1..n : \E j \in 1..size(i) : k = start[i] + (2 + j)
  <2>0. PICK i \in 1..n : \E p \in 1..2 + size(i) : k = start[i] + p
    BY <1>7
  <2>1. PICK p \in 1..2 + size(i) : k = start[i] + p
    BY <2>0
  <2> DEFINE l == size(i)
  <2>2. l \in Nat /\ p \in 1..2 + l
    BY <1>8
  <2> HIDE DEF l
  <2>3. p = 1 \/ p = 2 \/ (p - 2 \in 1..l /\ 2 + (p - 2) = p)
    BY <2>2
  <2>4. p = 1 \/ p = 2 \/ \E j \in 1..l : p = 2 + j
    BY <2>3
  <2> QED
    BY <2>1, <2>4 DEF l
<1> DEFINE lbl(i) == ms[i].status
           a(i) == Line("match", name(i), lbl(i))
           b(i) == Line("reason", name(i), Empty)
           c(i) == Line("evidence", name(i), Empty)
<1>13. \A i \in 1..n : a(i).kind = "match" /\ b(i).kind = "reason" /\ c(i).kind = "evidence"
  BY DEF Line
<1> HIDE DEF a, b, c, lbl
<1>14. ASSUME NEW k \in DOMAIN lines
       PROVE  /\ lines[k].kind # "forged"
              /\ lines[k].kind = "match" => \E i \in 1..n : k = start[i] + 1
              /\ lines[k].kind = "evidence" =>
                   \E i \in 1..n : \E j \in 1..size(i) : k = start[i] + (2 + j)
  <2>1. CASE \E i \in 1..n : k = start[i] + 1
    <3>1. lines[k].kind = "match"
      BY <1>9, <1>13, <2>1, Zenon DEF a, lbl
    <3> QED
      BY <2>1, <3>1
  <2>2. CASE \E i \in 1..n : k = start[i] + 2
    <3>1. lines[k].kind = "reason"
      BY <1>10, <1>13, <2>2, Zenon DEF b
    <3> QED
      BY <3>1
  <2>3. CASE \E i \in 1..n : \E j \in 1..size(i) : k = start[i] + (2 + j)
    <3>1. lines[k].kind = "evidence"
      BY <1>11, <1>13, <2>3, Zenon DEF c
    <3> QED
      BY <2>3, <3>1
  <2> QED
    BY <1>12, <2>1, <2>2, <2>3
<1>15. PlacesIn(lines, "forged") = {}
  BY <1>14 DEF PlacesIn
<1>16. PlacesIn(lines, "match") = {start[i] + 1 : i \in 1..n}
  <2>1. \A i \in 1..n : start[i] + 1 \in PlacesIn(lines, "match")
    <3>1. \A i \in 1..n : lines[start[i] + 1].kind = "match"
      BY <1>9, <1>13, Zenon DEF a, lbl
    <3> QED
      BY <1>9, <3>1 DEF PlacesIn
  <2>2. \A k \in PlacesIn(lines, "match") : \E i \in 1..n : k = start[i] + 1
    BY <1>14 DEF PlacesIn
  <2> QED
    BY <2>1, <2>2
<1>17. \A k \in PlacesIn(lines, "evidence") :
         \E i \in 1..n : \E j \in 1..size(i) : k = start[i] + (2 + j)
  BY <1>14 DEF PlacesIn
<1>18. \A i, j \in 1..n : i < j => start[i] + 2 + size(i) <= start[j]
  <2> SUFFICES ASSUME NEW i \in 1..n, NEW j \in 1..n, i < j PROVE start[i] + 2 + size(i) <= start[j]
    OBVIOUS
  <2> DEFINE l == size(i)
             at == start[i]
             to == start[j]
  <2>1. l \in Nat /\ at \in Nat /\ to \in Nat /\ at + (2 + l) <= to
    BY <1>7, <1>8
  <2> HIDE DEF l, at, to
  <2>2. at + 2 + l <= to
    BY <2>1
  <2> QED
    BY <2>2 DEF l, at, to
<1> QED
  BY <1>7, <1>8, <1>9, <1>11, <1>15, <1>16, <1>17, <1>18, Zenon DEF Reports, name, size, n, lines, seqs

-----------------------------------------------------------------------------
(* What the engine makes of what capture writes.                            *)

(* A strict version that Normalize accepts is judged as that one version.   *)
LEMMA PinnedVersion ==
    ASSUME NEW w \in ExactVersions, Normalize(ExactText(w)) # Refused
    PROVE  ConstraintOf(ExactText(w)) = Exactly(VersionOf(w))
<1> DEFINE c == Comparator(Empty, w.parts, w.pre)
           set == <<c>>
           s == ExactText(w)
<1>1. s = Text(<<set>>, 2, "spaces") /\ s \in Written
  BY ExactTextType DEF ExactText
<1>2. c.kind = "comparator" /\ c.op = Empty /\ c.parts = w.parts /\ c.pre = w.pre
  BY DEF Comparator
<1>3. w.parts \in [1..3 -> Nat]
  BY DEF ExactVersions
<1> HIDE DEF c
<1>4. Given(c) = 3
  <2>1. DOMAIN c.parts = 1..3 /\ \A i \in 1..3 : c.parts[i] # Wild
    BY <1>2, <1>3 DEF Wild
  <2>2. w.parts \in Seq(Nat) /\ Len(w.parts) = 3
    BY <1>3, FunctionIsSequence
  <2>3. {i \in DOMAIN c.parts : c.parts[i] = Wild} = {}
    BY <2>1
  <2> QED
    BY <1>2, <2>2, <2>3, Zenon DEF Given
<1> DEFINE sets == <<set>>
<1>5. sets = s.sets /\ s.gap = 2 /\ Len(sets) = 1 /\ DOMAIN sets = {1} /\ sets[1] = set
  BY <1>1 DEF Text
<1>6. Len(set) = 1 /\ set[1] = c /\ DOMAIN set = {1}
  OBVIOUS
<1>7. set \in Seq(Fields)
  BY <1>1, <1>5, TextType
<1> HIDE DEF set, sets, s
<1>8. Normalize(s) = s
  <2>1. NormalizeSet(sets[1]) # <<>>
    BY <1>1, <1>5, AcceptedText DEF s
  <2>2. ~IsHyphenRange(set)
    BY <1>6 DEF IsHyphenRange
  <2>3. NormalizeSet(set) = Comparing(set)
    BY <1>5, <1>7, <2>1, <2>2, AcceptedComparators
  <2>4. Comparing(set) = set
    <3>1. \A i \in DOMAIN set : set[i].kind # "operator"
      BY <1>2, <1>6
    <3> QED
      BY <1>7, <3>1, ComparingPlain
  <2>5. NormalSets(s) = [i \in DOMAIN sets |-> NormalizeSet(sets[i])]
    BY <1>5, Zenon DEF NormalSets
  <2>6. NormalSets(s) = <<set>>
    BY <1>5, <2>3, <2>4, <2>5
  <2>7. Normalize(s) = Text(NormalSets(s), 2, "spaces")
    BY <1>1, AcceptedText, Zenon DEF s
  <2> QED
    BY <1>1, <2>6, <2>7
<1>9. IsExact(s)
  BY <1>2, <1>4, <1>5, <1>6 DEF IsExact, IsFull
<1>10. s # Word
  <2>1. Word.gap = 0
    BY DEF Word, Text
  <2> QED
    BY <1>5, <2>1
<1>11. s.sets[1][1] = c
  BY <1>5, <1>6
<1>12. ConstraintOf(s) = Exactly(Low(c))
  <2>1. Normalize(Normalize(s)) # Refused
    BY <1>8 DEF s
  <2>2. ConstraintOf(s) = Exactly(Low(Normalize(s).sets[1][1]))
    BY <1>8, <1>9, <1>10, <2>1, Zenon DEF ConstraintOf
  <2> QED
    BY <1>8, <1>11, <2>2, Zenon
<1>13. Low(c) = VersionOf(w)
  <2>1. Zeroed(c, 3) = w.parts
    BY <1>2, <1>3 DEF Zeroed
  <2> QED
    BY <1>2, <1>4, <2>1, Zenon DEF Low, VersionOf
<1> QED
  BY <1>12, <1>13, Zenon DEF s

(* A normalized range that is not too long is judged as a range, or as its  *)
(* one version.                                                             *)
LEMMA NormalizedRange ==
    ASSUME NEW d \in Written, Normalize(d) # Refused, ~(Bytes(Normalize(d)) > MaxLen)
    PROVE  ConstraintOf(Normalize(d)).kind \in {"exact", "range"}
<1> DEFINE n == Normalize(d)
<1>1. Normalize(n) = n
  BY NormalizeIsIdempotent
<1>2. n # Word
  <2>1. n = Text(NormalSets(d), 2, "spaces")
    BY AcceptedText, Zenon
  <2>2. n.gap = 2 /\ Word.gap = 0
    BY <2>1 DEF Word, Text
  <2> QED
    BY <2>2
<1>3. n # Refused
  OBVIOUS
<1> HIDE DEF n
<1>4. CASE IsExact(n)
  <2>1. ConstraintOf(n) = Exactly(Low(n.sets[1][1]))
    BY <1>1, <1>2, <1>3, <1>4, Zenon DEF ConstraintOf
  <2> QED
    BY <2>1 DEF Exactly, n
<1>5. CASE ~IsExact(n)
  <2>1. ConstraintOf(n) = InRange(Parse(n))
    BY <1>1, <1>2, <1>3, <1>5, Zenon DEF ConstraintOf
  <2> QED
    BY <2>1 DEF InRange, n
<1> QED
  BY <1>4, <1>5

(* A release that npm can represent is decided.                             *)
LEMMA ReleaseVerdict ==
    ASSUME NEW r, NEW o, r.name = o.name, o.present, o.version # NoVersion,
           ComparableVersion(o.version), ~IsPrerelease(o.version)
    PROVE  /\ r.constraint.kind = "exact" =>
                Compare(r, o).status = IF o.version = r.constraint.version THEN "pass" ELSE "fail"
           /\ r.constraint.kind = "range" =>
                Compare(r, o).status = IF Check(r.constraint.range, o.version) THEN "pass" ELSE "fail"
BY DEF Compare, Verdict, Satisfied

(* And by a captured range the way npm would.                               *)
LEMMA RangeIsNpms ==
    ASSUME NEW d \in Written, Normalize(d) # Refused, ~(Bytes(Normalize(d)) > MaxLen),
           NEW r, NEW o, r.name = o.name, o.present, o.version # NoVersion,
           ComparableVersion(o.version), ~IsPrerelease(o.version),
           r.constraint = ConstraintOf(Normalize(d))
    PROVE  Compare(r, o).status = IF NpmAdmits(d, o.version) THEN "pass" ELSE "fail"
<1> DEFINE v == o.version
           range == NpmRange(d)
<1>1. r.constraint.kind \in {"exact", "range"}
  BY NormalizedRange
<1>2. \/ r.constraint = InRange(range)
      \/ \E w : r.constraint = Exactly(w) /\ range = {{[op |-> "=", version |-> w]}}
  BY <1>1, ConstraintIsTheDeclaration
<1>3. CASE r.constraint = InRange(range)
  <2>1. r.constraint.kind = "range" /\ r.constraint.range = range
    BY <1>3 DEF InRange
  <2>2. Check(range, v) <=> NpmAdmits(d, v)
    BY Zenon DEF Check, NpmAdmits
  <2>3. Compare(r, o).status = IF Check(range, v) THEN "pass" ELSE "fail"
    BY <2>1, ReleaseVerdict
  <2> QED
    BY <2>2, <2>3
<1>4. ASSUME NEW w, r.constraint = Exactly(w), range = {{[op |-> "=", version |-> w]}}
      PROVE  Compare(r, o).status = IF NpmAdmits(d, o.version) THEN "pass" ELSE "fail"
  <2> DEFINE c == [op |-> "=", version |-> w]
  <2>1. c.op = "=" /\ c.version = w
    OBVIOUS
  <2>2. range = {{c}}
    BY <1>4
  <2> HIDE DEF c, range
  <2>3. Holds(v, c) <=> v = w
    BY <2>1, Zenon DEF Holds
  <2>4. NpmAdmits(d, v) <=> v = w
    <3>1. NpmAdmits(d, v) <=> \E group \in range : \A e \in group : Holds(v, e)
      BY Zenon DEF NpmAdmits, range
    <3> QED
      BY <2>2, <2>3, <3>1
  <2>5. r.constraint.kind = "exact" /\ r.constraint.version = w
    BY <1>4 DEF Exactly
  <2>6. Compare(r, o).status = IF v = w THEN "pass" ELSE "fail"
    BY <2>5, ReleaseVerdict
  <2> QED
    BY <2>4, <2>6
<1> QED
  BY <1>2, <1>3, <1>4

-----------------------------------------------------------------------------
(* What nvm reads in .nvmrc.                                                *)

(* A line up to its comment.                                                *)
LEMMA UncommentedLine ==
    ASSUME NEW line \in Seq(STRING)
    PROVE  LET text == Uncommented(line)
           IN /\ text \in Seq(STRING) /\ Len(text) \in Nat /\ Len(text) <= Len(line)
              /\ \A i \in 1..Len(text) : text[i] = line[i] /\ line[i] # "#"
              /\ Len(text) < Len(line) => line[Len(text) + 1] = "#"
<1> DEFINE hashes == {i \in DOMAIN line : line[i] = "#"}
           least == CHOOSE i \in hashes : \A j \in hashes : i <= j
           text == Uncommented(line)
           n == Len(line)
<1>1. n \in Nat /\ DOMAIN line = 1..n
  OBVIOUS
<1>2. text = SubSeq(line, 1, IF hashes = {} THEN n ELSE least - 1)
  BY Zenon DEF Uncommented
<1>3. CASE hashes = {}
  <2>1. text = SubSeq(line, 1, n)
    BY <1>2, <1>3, Zenon
  <2>2. text = line
    BY <1>1, <2>1
  <2>3. \A i \in 1..n : line[i] # "#"
    BY <1>1, <1>3
  <2> HIDE DEF text, hashes, least
  <2> QED
    BY <1>1, <2>2, <2>3 DEF text
<1>4. CASE hashes # {}
  <2>1. hashes \subseteq Nat
    BY <1>1
  <2>2. \E i \in hashes : \A j \in hashes : i <= j
    BY <1>4, <2>1, LeastNatural, Zenon
  <2>3. least \in hashes /\ \A j \in hashes : least <= j
    BY <2>2, Zenon
  <2>4. least \in 1..n /\ line[least] = "#" /\ \A j \in 1..n : j < least => line[j] # "#"
    <3> HIDE DEF least
    <3> QED
      BY <1>1, <2>3
  <2>5. text = SubSeq(line, 1, least - 1)
    BY <1>2, <1>4, Zenon
  <2> HIDE DEF text, hashes, least, n
  <2>6. least - 1 \in Nat /\ least - 1 <= n /\ 1 <= (least - 1) + 1 /\ least = (least - 1) + 1
    BY <1>1, <2>4
  <2> DEFINE k == least - 1
  <2>7. /\ text \in Seq(STRING) /\ Len(text) = k /\ \A i \in 1..k : text[i] = line[i]
    <3> HIDE DEF k
    <3>1. k \in Nat /\ k <= n /\ n = Len(line) /\ 1 \in Nat \ {0} /\ 1 <= k + 1
      BY <2>6 DEF k, n
    <3>2. k - 1 + 1 = k /\ \A i \in 1..k : 1 + i - 1 = i
      BY <3>1
    <3> QED
      BY <2>5, <3>1, <3>2, PartOf DEF k
  <2>8. \A i \in 1..k : line[i] # "#"
    BY <1>1, <2>4, <2>6
  <2>9. line[k + 1] = "#"
    BY <2>4, <2>6
  <2> HIDE DEF k
  <2> QED
    BY <2>6, <2>7, <2>8, <2>9 DEF k, text, n
<1> QED
  BY <1>3, <1>4

(* A line that is no selector says nothing about a version.                 *)
LEMMA OtherLinesSayNothing ==
    ASSUME NEW line \in Seq(STRING), Uncommented(line) = <<>> \/ IsSetting(Uncommented(line))
    PROVE  SaysNothing(line)
<1> DEFINE text == Uncommented(line)
           n == Len(text)
<1>1. /\ text \in Seq(STRING) /\ n \in Nat /\ n <= Len(line)
      /\ \A i \in 1..n : text[i] = line[i] /\ line[i] # "#"
      /\ n < Len(line) => line[n + 1] = "#"
  BY UncommentedLine
<1>2. Len(line) \in Nat /\ DOMAIN line = 1..Len(line)
  OBVIOUS
<1>3. text = <<>> \/ IsSetting(text)
  OBVIOUS
<1> HIDE DEF text
<1>4. CASE text = <<>>
  <2>1. n = 0
    BY <1>4
  <2>2. line = <<>> \/ line[1] = "#"
    <3>1. CASE Len(line) = 0
      BY <3>1
    <3>2. CASE Len(line) # 0
      <4>1. n < Len(line) /\ n + 1 = 1
        BY <1>2, <2>1, <3>2
      <4> QED
        BY <1>1, <4>1
    <3> QED
      BY <3>1, <3>2
  <2> QED
    BY <2>2, Zenon DEF SaysNothing
<1>5. CASE IsSetting(text)
  <2>1. PICK i \in 2..n : text[i] = "="
    BY <1>5 DEF IsSetting
  <2> HIDE DEF n
  <2>2. i \in DOMAIN line /\ i > 1 /\ line[i] = "=" /\ \A j \in 1..i : line[j] # "#"
    BY <1>1, <1>2, <2>1
  <2> QED
    BY <2>2, Zenon DEF SaysNothing
<1> QED
  BY <1>3, <1>4, <1>5

(* A line that is one version before its comment says this version.         *)
LEMMA SelectorsSaySo ==
    ASSUME NEW line \in Seq(STRING), NEW word \in Words
    PROVE  SaysVersion(line, word) <=> Uncommented(line) = <<word>>
<1> DEFINE text == Uncommented(line)
           n == Len(text)
           l == Len(line)
<1>1. /\ text \in Seq(STRING) /\ n \in Nat /\ n <= l
      /\ \A i \in 1..n : text[i] = line[i] /\ line[i] # "#"
      /\ n < l => line[n + 1] = "#"
  BY UncommentedLine
<1>2. l \in Nat /\ (line = <<>> <=> l = 0)
  OBVIOUS
<1>3. word # "#"
  BY ExactAssumption
<1>4. text = <<word>> <=> (n = 1 /\ text[1] = word)
  <2> HIDE DEF text
  <2> QED
    BY <1>1
<1>5. SaysVersion(line, word) <=> (line # <<>> /\ line[1] = word /\ (l = 1 \/ line[2] = "#"))
  BY Zenon DEF SaysVersion
<1> HIDE DEF text, n, l
<1>6. ASSUME n = 1, text[1] = word PROVE line # <<>> /\ line[1] = word /\ (l = 1 \/ line[2] = "#")
  <2>1. l # 0 /\ text[1] = line[1]
    BY <1>1, <1>2, <1>6
  <2>2. l # 1 => n < l /\ n + 1 = 2
    BY <1>1, <1>2, <1>6, <2>1
  <2> QED
    BY <1>1, <1>2, <1>6, <2>1, <2>2
<1>7. ASSUME line # <<>>, line[1] = word, l = 1 \/ line[2] = "#" PROVE n = 1 /\ text[1] = word
  <2>1. l >= 1
    BY <1>2, <1>7
  <2>2. n # 0
    <3> SUFFICES ASSUME n = 0 PROVE FALSE
      OBVIOUS
    <3>1. n < l /\ n + 1 = 1
      BY <1>1, <1>2, <2>1
    <3> QED
      BY <1>1, <1>3, <1>7, <3>1
  <2>3. ~(n >= 2)
    <3> SUFFICES ASSUME n >= 2 PROVE FALSE
      OBVIOUS
    <3>1. 2 \in 1..n /\ l # 1
      BY <1>1, <1>2
    <3> QED
      BY <1>1, <1>7, <3>1
  <2>4. n = 1 /\ 1 \in 1..n
    BY <1>1, <2>2, <2>3
  <2> QED
    BY <1>1, <1>7, <2>4
<1> QED
  BY <1>4, <1>5, <1>6, <1>7 DEF text
=============================================================================
