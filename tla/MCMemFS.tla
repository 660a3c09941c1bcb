------------------------------ MODULE MCMemFS ------------------------------
(* Model-checking instances of MemFS: a root and two more entries, two  *)
(* names of which one is a prefix of the other, and the peer's paths.     *)
EXTENDS MemFS

CONSTANTS e0, e1, e2

MCEntries == {e0, e1, e2}
A == <<"a">>
AB == <<"a", "b">>
MCNames == {A, AB}
RWX == {"r", "w", "x"}
MCPerms == {RWX, {"w", "x"}}
P(abs, comps) == [abs |-> abs, comps |-> comps]
\* "/", "", "a", "/ab" and "a/a".
MCPaths == {P(TRUE, <<>>), P(FALSE, <<>>), P(FALSE, <<A>>), P(TRUE, <<AB>>),
            P(FALSE, <<A, A>>)}
AllOps == Ops
\* A peer that never sends REALPATH.
NoRealPath == Ops \ {"realpath"}
=============================================================================
