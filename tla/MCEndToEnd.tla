----------------------------- MODULE MCEndToEnd -----------------------------
(* Projects: every engines.node of a few with every .nvmrc of a few, every   *)
(* packageManager, every JSON type in every place.  Documents: one that is   *)
(* right, and each way of being wrong or ambiguous.  Outputs up to one piece *)
(* beyond the limit.                                                         *)
EXTENDS EndToEnd

v100 == [parts |-> <<1, 0, 0>>, pre |-> 0]
v110 == [parts |-> <<1, 1, 0>>, pre |-> 0]
v200 == [parts |-> <<2, 0, 0>>, pre |-> 0]
rc   == [parts |-> <<1, 1, 0>>, pre |-> 1]

MCExact   == ("1.0.0" :> v100) @@ ("1.1.0" :> v110) @@ ("1.1.0-rc" :> rc)
MCPrinted == MCExact @@ ("2.0.0" :> v200)

MCNameOrder == <<"deno", "node", "npm", "pnpm", "yarn">>

-----------------------------------------------------------------------------
One(op, parts) == Text(<<<<Comparator(op, parts, 0)>>>>, 0, "spaces")

Ranges == {
    One(">=", <<1, 1>>), One("^", <<1>>), One("", <<1, 0, 0>>), One("~", <<2>>),
    Text(<<<<Comparator("~", <<1, 0>>, 0)>>, <<Comparator("", <<2>>, 0)>>>>, 0, "spaces"),
    Text(<<<<Field("operator", ">="), Comparator("", <<1>>, 0), Comparator("<", <<2>>, 0)>>>>, 0, "newlines"),
    Text(<<<<Comparator(">=", <<1>>, 0), Comparator("<", <<2>>, 0)>>>>, 0, "nel"),
    Text(<<<<Garbage>>>>, 0, "spaces"), Text(<<<<>>>>, 0, "newlines")}

Nvmrcs == {
    <<>>, <<<<"1.0.0">>>>, <<<<"1.1.0", "#", "why">>, <<>>>>, <<<<"#", "1.0.0">>, <<"1.1.0">>>>,
    <<<<"1.0.0">>, <<"1.1.0">>>>, <<<<"1.0.0">>, <<"1.0.0">>>>, <<<<"lts/*">>>>, <<<<"1.1.0-rc">>>>,
    <<<<"a", "=", "1.1.0">>, <<"1.0.0">>>>, <<<<"node", "=", "1.0.0">>, <<"1.1.0">>>>,
    <<<<"a", "=">>, <<"1.0.0">>, <<"a", "=", "b">>>>, <<<<"=", "1.0.0">>>>, <<<<"a", "=", "1.0.0">>>>}

Manager(name, word, hash) == [name |-> name, word |-> word, hash |-> hash]
Hash(algorithm, digits, hex) == [algorithm |-> algorithm, digits |-> digits, hex |-> hex]

Managers == {
    NoManager, Manager("yarn", "1.1.0", NoHash), Manager("npm", "1.1.0-rc", NoHash),
    Manager("pnpm", "1.0.0", Hash("sha1", 40, TRUE)), Manager("pnpm", "1.0.0", Hash("sha1", 41, TRUE)),
    Manager("pnpm", "1.0.0", Hash("sha512", 128, FALSE)), Manager("pnpm", "1.0.0", Hash("md5", 32, TRUE)),
    Manager("pnpm", "1", NoHash), Manager("deno", "1.0.0", NoHash), Manager("", "1.0.0", NoHash)}

JSONTypes == {"missing", "null", "string", "object", "number"}

MCProjects ==
    {Project("object", "object", "string", r, "string", m, n # <<>>, n) :
        r \in Ranges, n \in Nvmrcs, m \in {NoManager, Manager("yarn", "1.1.0", NoHash)}}
      \cup {Project("object", "object", "string", One("^", <<1>>), "string", m, FALSE, <<>>) : m \in Managers}
      \cup {Project("missing", "missing", "missing", One("^", <<1>>), "missing", NoManager, n # <<>>, n) : n \in Nvmrcs}
      \cup {Project("object", "missing", "missing", One("^", <<1>>), "missing", NoManager, TRUE, <<>>)}
      \cup {Project(p, "object", "string", One("^", <<1>>), "string", NoManager, FALSE, <<>>) :
              p \in {"null", "string"}}
      \cup {Project("object", e, "string", One("^", <<1>>), "string", NoManager, FALSE, <<>>) : e \in JSONTypes}
      \cup {Project("object", "object", t, One("^", <<1>>), t2, Manager("npm", "1.0.0", NoHash), FALSE, <<>>) :
              t \in JSONTypes, t2 \in JSONTypes \ {"missing"}}

-----------------------------------------------------------------------------
EvidenceEntry(source, field) == Entry(<<"source", "field", "value">>, source, field)
Proof == <<EvidenceEntry("package.json", "engines.node")>>

Req(name, constraint, evidence) == Item(<<"name", "constraint", "evidence">>, name, constraint, evidence)
Plain(name) == Req(name, One("^", <<1>>), Proof)

Null == [mapping |-> FALSE, keys |-> <<>>, name |-> "", constraint |-> Blank, evidence |-> <<>>]

Valid1 == Stream(1, TRUE, "mapping", <<"version", "requirements">>, Scalar(1, 1), FALSE, <<Plain("node")>>, FALSE, <<>>, <<>>)

With(reqs) == [Valid1 EXCEPT !.requirements = reqs]
WithKeys(keys) == [Valid1 EXCEPT !.keys = keys]

Names == {"", "deno", "node", "new line", "hid den"}

MCDocuments ==
    {[Valid1 EXCEPT !.documents = n] : n \in {0, 2}}
      \cup {[Valid1 EXCEPT !.syntax = FALSE], [Valid1 EXCEPT !.root = "sequence"], Valid1}
      \cup {[Valid1 EXCEPT !.version = Scalar(t, v)] :
              t \in {1}, v \in {1, NotAnInteger}}
      \cup {[Valid1 EXCEPT !.version = Scalar(v, v)] : v \in {0, 2, NotAnInteger}}
      \cup {[Valid1 EXCEPT !.version = Scalar(NotAnInteger, 1)],
            [Valid1 EXCEPT !.version = Scalar(1, 5), !.versionAliased = TRUE],
            [Valid1 EXCEPT !.aliased = TRUE, !.requirements = <<[Plain("npm") EXCEPT !.keys = Append(@, "extra")]>>]}
      \cup {[WithKeys(k) EXCEPT !.requirements = <<>>] :
              k \in {<<"version">>, <<"requirements">>, <<"version", "version">>}}
      \cup {WithKeys(<<"version", "requirements", "requirements">>), WithKeys(<<"version", "requirements", "extra">>)}
      \cup {With(<<Plain(a), Plain(b)>>) : a \in Names, b \in Names}
      \cup {With(<<>>), With(<<Null>>), With(<<Plain("node"), Plain("npm"), Plain("node")>>)}
      \cup {With(<<Req("node", c, Proof)>>) :
              c \in {Blank, Word, Text(<<<<>>>>, 0, "newlines"), Text(<<<<Garbage>>>>, 0, "spaces"),
                     Text(<<<<Comparator("=", <<1, 0, 0>>, 0)>>>>, 0, "newlines"),
                     Text(<<<<Comparator(">=", <<1>>, 0), Comparator("<", <<2>>, 0)>>>>, 0, "nel")}}
      \cup {With(<<Req("node", One("^", <<1>>), e)>>) :
              e \in {<<>>, Append(Proof, EvidenceEntry(".nvmrc", "")), <<EvidenceEntry("", "version")>>,
                     <<EvidenceEntry("new line", "version")>>, Append(Proof, EvidenceEntry("README", "new line")),
                     <<Entry(<<"source", "field", "note">>, "README", "text")>>,
                     <<Entry(<<"source">>, "README", "text")>>, <<Entry(<<"source", "field", "field">>, "a", "b")>>}}
      \cup {With(<<[Plain("node") EXCEPT !.keys = k]>>) :
              k \in {<<"name", "evidence">>, <<"name", "constraint">>, <<"constraint", "evidence">>,
                     <<"name", "constraint", "evidence", "extra">>, <<"name", "name", "constraint", "evidence">>}}
      \cup {[WithKeys(<<"version", "requirements", "services">>) EXCEPT !.services = s] :
              s \in {<<>>, <<Service(<<"version">>, TRUE)>>, <<Service(<<"version", "port", "image">>, TRUE)>>,
                     <<Service(<<"version">>, FALSE)>>, <<Service(<<"port">>, TRUE)>>,
                     <<Service(<<"version", "version">>, TRUE)>>}}
      \cup {[WithKeys(<<"version", "requirements", "environment">>) EXCEPT !.environment = e] :
              e \in {<<>>, <<"required">>, <<"optional", "extra">>, <<"extra">>, <<"required", "required">>}}

MCOutputs == {
    <<>>, <<"1.0.0">>, <<"v", "1.0.0", "newline">>, <<"v", "1.1.0">>, <<"2.0.0", "newline">>, <<"1.1.0-rc">>,
    <<"newline", "space", "1.1.0", "space", "newline">>, <<"1.0.0", "newline", "2.0.0">>,
    <<"warning", "newline", "1.0.0">>, <<"1.0.0", "space", "warning">>, <<"v", "space", "1.0.0">>,
    <<"1.0.0", "newline", "space", "space", "warning">>,
    <<"newline", "1.0.0", "newline", "newline", "space", "warning">>}

(* The projects and outputs above stay within the limits, as the theorem    *)
(* about VerdictsMeanTheDeclarations supposes.                              *)
ASSUME MCWithinLimits ==
    /\ \A p \in Projects : DeclaresWithinLimits(p)
    /\ \A word \in DOMAIN Printed : VersionOf(Printed[word]).core <= MaxNumeric
=============================================================================
