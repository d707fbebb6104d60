------------------------------ MODULE MCVerify ------------------------------
(* Two supported tools (1, 2) and one name no inspector supports (3); a     *)
(* release too old for the range, one that satisfies it, and a prerelease   *)
(* between them; a range (the other branches of the compare engine are      *)
(* MCCompareCheck's).                                                       *)
EXTENDS Verify

Old  == [core |-> 1, pre |-> 0]
Beta == [core |-> 2, pre |-> 1]
New  == [core |-> 2, pre |-> 0]

AtLeastNew == InRange({{[op |-> ">=", version |-> New]}})

OneConstraint  == {AtLeastNew}

FewPrintable == {Old, Beta, New}
TwoPrintable == {Old, New}
=============================================================================
