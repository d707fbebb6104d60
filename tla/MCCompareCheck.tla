--------------------------- MODULE MCCompareCheck ---------------------------
(* Numeric components 0 to 3, where 3 is npm's limit; every partial version *)
(* with every operator; hyphen ranges, conjunctions and alternatives of     *)
(* some of them; fields that must be refused; and versions around every     *)
(* bound these can have, the limit and beyond it included.                  *)
EXTENDS CompareCheck

Component == {Wild, 0, 1, 3}

Partials ==
    {<<a>> : a \in Component} \cup {<<a, b>> : a \in Component, b \in Component}
      \cup {<<a, b, c>> : a \in Component, b \in Component, c \in Component}

Qualified == {<<1, 0, 0>>, <<0, 0, 0>>, <<1, Wild>>, <<1, 1>>}

Singles ==
    {Comparator(op, parts, 0) : op \in Ops, parts \in Partials}
      \cup {Comparator(op, parts, 1) : op \in Ops, parts \in Qualified}

Operator(op) == Field("operator", op)

Few == {Comparator(op, parts, 0) : op \in {"", ">=", "<", "~"},
                                   parts \in {<<0>>, <<1, 0>>, <<1, 1, 0>>, <<Wild>>}}
        \cup {Comparator("=", <<1, 0, 1>>, 0), Comparator("", <<1, 0, 0>>, 1)}

Ends == {Comparator("", parts, 0) : parts \in {<<0>>, <<1, 0>>, <<1, 1, 0>>, <<Wild>>, <<1, Wild, 3>>, <<3>>}}

Sets ==
    {<<c>> : c \in Singles} \cup {<<Garbage>>, <<>>, <<Hyphen>>}
      \cup {<<c, d>> : c \in Few, d \in Few}
      \cup {<<Operator(op), c>> : op \in Ops \ {""}, c \in Few \cup {Garbage}}
      \cup {<<Operator(">"), Operator("="), Comparator("", <<1>>, 0)>>, <<Operator("^")>>}
      \cup {<<c, Hyphen, d>> : c \in Ends \cup {Comparator("=", <<1>>, 0)}, d \in Ends}

MCTexts ==
    {Text(<<set>>, 0, "spaces") : set \in Sets} \cup {Word}
      \cup {Text(<<<<c>>, <<d>>>>, gap, "spaces") : c \in Few, d \in Few, gap \in {0, 3}}
      \cup {Text(<<<<c>>, <<Garbage>>>>, 2, "spaces") : c \in Few}
      \cup {Text(<<<<c, d>>>>, 2, ws) : c \in Few, d \in Ends, ws \in {"newlines", "nel"}}

\* A U+0085 before or after all fields.
NelTexts == {Text(<<<<c>>>>, 2, ws) : c \in Few, ws \in {"spaces", "nel", "nel outside"}}

Releases ==
    {[core |-> CoreOf(parts), pre |-> 0] :
        parts \in {<<a, b, c>> : a \in 0..2, b \in {0, 1, 2}, c \in {0, 1}}
                    \cup {<<3, 3, 3>>, <<4, 0, 0>>, <<0, 0, 2>>, <<0, 3, 3>>}}

MCObservations ==
    [name : {"node"}, present : BOOLEAN,
     version : {[core |-> CoreOf(<<1, 0, 0>>), pre |-> p] : p \in 1..2} \cup {NoVersion, NotStrict}]
      \cup [name : {"node"}, present : {TRUE}, version : Releases]
      \cup [name : {"npm"}, present : {TRUE}, version : {[core |-> CoreOf(<<1, 0, 0>>), pre |-> 0]}]
=============================================================================
