------------------------------ MODULE MCDetect ------------------------------
(* Documents whose declarations agree, conflict, are absent, bad or a range *)
(* no version is in; and every kind of entry a source can have.             *)
EXTENDS Detect

Decl(form, admits) == [form |-> form, admits |-> admits]

Package(e, m) ==
    [malformed |-> FALSE, engines |-> e, manager |-> m, selector |-> None]

Packages == {Package(Decl("good", {1, 2}), Decl("good", {1})),
             Package(Decl("good", {2}), None),
             Package(Decl("good", {}), None),
             Package(None, Decl("good", {2})),
             Package(Decl("bad", {}), None),
             Package(None, Decl("bad", {})),
             [Package(None, None) EXCEPT !.malformed = TRUE]}

NvmrcOf(d) ==
    [malformed |-> FALSE, engines |-> None, manager |-> None, selector |-> d]

Nvmrcs == {NvmrcOf(Decl("good", {1})), NvmrcOf(Decl("good", {2})), NvmrcOf(Decl("bad", {}))}

Files(docs) == {[kind |-> "file", doc |-> d] : d \in docs}

\* An outside file's document is like none of the project's.
Foreign == [Package(Decl("good", {3}), Decl("good", {3}))
                EXCEPT !.selector = Decl("good", {3})]

Bare(kinds) == {[Nothing EXCEPT !.kind = k] : k \in kinds}

Outside == {[kind |-> "outside", doc |-> Foreign]}

\* The kinds a source may have at the start or after an edit.
MCEntries ==
    [p \in Places |->
       CASE p = "package.json" ->
                Files(Packages) \cup Outside \cup
                Bare({"absent", "broken", "abslink", "special", "large", "unreadable"})
         [] p = ".nvmrc" ->
                Files(Nvmrcs) \cup Outside \cup Bare({"absent", "broken", "abslink", "unreadable"})
         [] p = "package target" ->
                Files({Package(Decl("good", {1}), Decl("good", {1}))})
                \cup Bare({"absent", "unreadable"})
         [] OTHER ->
                Files({NvmrcOf(Decl("good", {1}))}) \cup Bare({"absent"})]

MCVersions == 1..3
=============================================================================
