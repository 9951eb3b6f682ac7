------------------------------- MODULE MCBus -------------------------------
(* Small instances of the daemon for TLC. *)
EXTENDS BusProperties, TLC

CONSTANTS c1, c2, c3, n1, n2

MCConn2 == {c1, c2}
MCConn3 == {c1, c2, c3}
MCName1 == {n1}
MCName2 == {n1, n2}
Everybody == Conn \X Name
ButC2ForN2 == Everybody \ {<<c2, n2>>}
Nobody == {}
Startable == Name
C1ToC2 == {<<c1, c2>>}
SameCommand == [n \in Name |-> "command"]

Flag(a, q, r) == [allow |-> a, noqueue |-> q, replace |-> r]
FewFlags == {Flag(FALSE, FALSE, FALSE), Flag(TRUE, TRUE, TRUE)}
OneFlag == {Flag(TRUE, FALSE, TRUE)}

Symmetry3 == Permutations(MCConn3)
=============================================================================
