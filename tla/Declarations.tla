---------------------------- MODULE Declarations ----------------------------
(***************************************************************************)
(* What the detectors read out of a project (internal/detectors/node) and  *)
(* what capture.Capture makes of it, when nobody edits the project in the  *)
(* meantime (module Detect has the edits): parsePackageJSON, the line      *)
(* rules of .nvmrc, the splitting of packageManager, the consolidation.    *)
(*                                                                         *)
(* A line of .nvmrc is a sequence of tokens, "#" and "=" among them; words *)
(* are strings, and Exact gives the version of those that are one.         *)
(***************************************************************************)
EXTENDS SemverRange

CONSTANTS
    Exact,          \* strict x.y.z words, as [parts, pre] records
    NameOrder       \* the names that occur, in byte order

Words == DOMAIN Exact

ASSUME ExactAssumption ==
    /\ \A word \in Words : Exact[word] \in ExactVersions
    /\ {"#", "="} \cap Words = {}

ASSUME NameOrderAssumption ==
    /\ NameOrder \in Seq(STRING)
    /\ \A i, j \in DOMAIN NameOrder : NameOrder[i] = NameOrder[j] => i = j

Ordered == {NameOrder[i] : i \in DOMAIN NameOrder}

\* Any string; what the detectors themselves write into a requirement is
\* named as well, because the provers know no member of STRING.
Strings ==
    STRING \cup {Empty, "package.json", "engines.node", ".nvmrc", "version", "packageManager"}

\* A project as the detectors see it.  The JSON types ("missing" when the key
\* is not there) of the top level of package.json, of its "engines", of
\* engines.node and of packageManager; the texts of the last two, in case they
\* are strings; and the lines of .nvmrc.
Project(package, engines, node, range, managerType, manager, hasNvmrc, nvmrc) ==
    [package |-> package, engines |-> engines, node |-> node, range |-> range,
     managerType |-> managerType, manager |-> manager,
     hasNvmrc |-> hasNvmrc, nvmrc |-> nvmrc]

Pins == [name : Strings, word : Strings,
         hash : [algorithm : Strings, digits : Nat, hex : BOOLEAN]]

ProjectFiles ==
    [package : STRING, engines : STRING, node : STRING, range : Written,
     managerType : STRING, manager : Pins, hasNvmrc : BOOLEAN, nvmrc : Seq(Seq(STRING))]

\* Requirements found, or an error.
Found(requirements) == [ok |-> TRUE, requirements |-> requirements]
DetectionError == [ok |-> FALSE, requirements |-> <<>>]

Evidence(source, field) == [source |-> source, field |-> field]

Requirement(name, constraint, evidence) ==
    [name |-> name, constraint |-> constraint, evidence |-> evidence]

Requirements ==
    [name : Strings, constraint : Written, evidence : Seq([source : Strings, field : Strings])]

-----------------------------------------------------------------------------
(* parsePackageJSON: every value it looks at has the type npm expects, or  *)
(* nothing is read; encoding/json takes null for nothing.  Both detectors   *)
(* decode all of it.                                                       *)

HasPackage(project) == project.package # "missing"

Decodable(project) ==
    /\ project.package = "object"
    /\ project.engines \in {"missing", "null", "object"}
    /\ project.engines = "object" => project.node \in {"missing", "null", "string"}
    /\ project.managerType \in {"missing", "null", "string"}

DeclaresEngines(project) ==
    /\ HasPackage(project)
    /\ project.engines = "object" /\ project.node = "string"
    /\ Trim(project.range) # Blank

-----------------------------------------------------------------------------
(* .nvmrc.                                                                 *)

\* What is left of a line before its comment.
Uncommented(line) ==
    LET hashes == {i \in DOMAIN line : line[i] = "#"}
    IN SubSeq(line, 1, IF hashes = {} THEN Len(line)
                       ELSE (CHOOSE i \in hashes : \A j \in hashes : i <= j) - 1)

\* nvmrcKey: text before the first "=" makes a line a setting.
IsSetting(line) == \E i \in 2..Len(line) : line[i] = "=" /\ line[1] # "="

Key(line) ==
    LET equals == {i \in DOMAIN line : line[i] = "="}
    IN SubSeq(line, 1, (CHOOSE i \in equals : \A j \in equals : i <= j) - 1)

\* A bug the checks must find: of several selectors the first is taken.
FirstSelector(lines) ==
    LET text == [i \in DOMAIN lines |-> Uncommented(lines[i])]
        selectors == {i \in DOMAIN lines : text[i] # <<>> /\ ~IsSetting(text[i])}
    IN IF selectors = {} THEN <<>> ELSE text[CHOOSE i \in selectors : \A j \in selectors : i <= j]

\* nvmrcSignificant: the one selector line; the empty line is its error.
NvmrcSignificant(lines) ==
    LET text == [i \in DOMAIN lines |-> Uncommented(lines[i])]
        significant == {i \in DOMAIN lines : text[i] # <<>>}
        settings    == {i \in significant : IsSetting(text[i])}
        selectors   == significant \ settings
    IN IF \/ \E i \in settings : Key(text[i]) = <<"node">>
          \/ \E i, j \in settings : i # j /\ Key(text[i]) = Key(text[j])
          \/ Cardinality(selectors) # 1
       THEN <<>> ELSE text[CHOOSE i \in selectors : TRUE]

\* nvmrcSelector: only x.y.z, strictly; the error says whether nvm knows it.
NvmrcSelects(line) == Len(line) = 1 /\ line[1] \in Words /\ Exact[line[1]].pre = 0

-----------------------------------------------------------------------------
(* packageManager: "<name>@<version>+<algorithm>.<digest>".                *)

DigestLength == [sha1 |-> 40, sha224 |-> 56, sha256 |-> 64, sha384 |-> 96, sha512 |-> 128]

NoHash == [algorithm |-> Empty, digits |-> 0, hex |-> FALSE]

ValidHash(hash) ==
    /\ hash.algorithm \in DOMAIN DigestLength
    /\ hash.hex
    /\ hash.digits = DigestLength[hash.algorithm]

\* splitPackageManager succeeds; ranges, tags and short versions are words
\* that are not Exact, a URL and a missing name or version have no name.
Splits(manager) ==
    /\ manager.name \in {"npm", "pnpm", "yarn"}
    /\ manager.hash # NoHash => ValidHash(manager.hash)
    /\ manager.word \in Words

NoManager == [name |-> Empty, word |-> Empty, hash |-> NoHash]

-----------------------------------------------------------------------------
(* The two detectors, and Capture.                                         *)

FromEngines == Evidence("package.json", "engines.node")
FromNvmrc   == Evidence(".nvmrc", "version")
FromManager == Evidence("package.json", "packageManager")

\* A bug the checks must find: with both sources, .nvmrc wins.
NvmrcIsTrusted(range, exact) == TRUE

\* The conjunction rule.
Compatible(range, exact) ==
    Normalize(range) # Refused /\ Check(Parse(range), VersionOf(exact))

NodeDetect(project) ==
    LET declares == DeclaresEngines(project)
        range    == Normalize(Trim(project.range))
        selector == NvmrcSignificant(project.nvmrc)
        exact    == Exact[selector[1]]
        Node(constraint, evidence) == Found(<<Requirement("node", constraint, evidence)>>)
    IN IF \/ HasPackage(project) /\ ~Decodable(project)
          \/ declares /\ range = Refused
          \/ project.hasNvmrc /\ ~NvmrcSelects(selector)
          \/ declares /\ project.hasNvmrc /\ ~Compatible(range, exact)
       THEN DetectionError
       ELSE CASE ~declares /\ ~project.hasNvmrc -> Found(<<>>)
              [] ~declares /\ project.hasNvmrc  -> Node(ExactText(exact), <<FromNvmrc>>)
              [] declares /\ ~project.hasNvmrc  -> Node(range, <<FromEngines>>)
              [] declares /\ project.hasNvmrc   -> Node(ExactText(exact), <<FromEngines, FromNvmrc>>)

PackageManagerDetect(project) ==
    LET manager == project.manager
    IN CASE ~HasPackage(project) -> Found(<<>>)
         [] HasPackage(project) /\ ~Decodable(project) -> DetectionError
         [] OTHER ->
              IF project.managerType # "string" \/ manager = NoManager THEN Found(<<>>)
              ELSE IF ~Splits(manager) THEN DetectionError
              ELSE Found(<<Requirement(manager.name, ExactText(Exact[manager.word]), <<FromManager>>)>>)

NameBefore(a, b) ==
    \E i, j \in DOMAIN NameOrder : i < j /\ NameOrder[i] = a /\ NameOrder[j] = b

\* sort.SliceStable by name: the elements of seq, names[i] being the name of
\* the i-th, in the order of their names.  No two of them have one name.
InOrder(names) ==
    CHOOSE order \in [DOMAIN names -> DOMAIN names] :
        /\ \A i, j \in DOMAIN names : order[i] = order[j] => i = j
        /\ \A i, j \in DOMAIN names : i < j => ~NameBefore(names[order[j]], names[order[i]])

ByName(seq, names) ==
    LET order == InOrder(names)
    IN [i \in DOMAIN seq |-> seq[order[i]]]

NamesOf(requirements) == [i \in DOMAIN requirements |-> requirements[i].name]

\* captureWith: the detectors in turn, no name twice, sorted by name.
CaptureRequirements(project) ==
    LET node    == NodeDetect(project)
        manager == PackageManagerDetect(project)
        all     == node.requirements \o manager.requirements
    IN IF node.ok /\ manager.ok
         THEN Found(ByName(all, NamesOf(all)))
         ELSE DetectionError
=============================================================================
