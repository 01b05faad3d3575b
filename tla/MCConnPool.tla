----------------------------- MODULE MCConnPool -----------------------------
(***************************************************************************)
(* ConnPool for TLC.  With Cap + |Caller| identities a socket can always   *)
(* be opened; with fewer, Podman refuses those beyond them.                *)
(***************************************************************************)
EXTENDS ConnPool, TLC

CONSTANTS p1, p2, p3, c1, c2, c3, c4

TwoCallers == {p1, p2}
ThreeCallers == {p1, p2, p3}
ThreeConns == {c1, c2, c3}
FourConns == {c1, c2, c3, c4}

Sym == Permutations(Conn) \cup Permutations(Caller)
=============================================================================
