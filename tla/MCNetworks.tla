----------------------------- MODULE MCNetworks -----------------------------
(***************************************************************************)
(* A tiny IP version with addresses of Width bits: networks are a base     *)
(* address and a prefix length, exactly as in IpNet.                       *)
(***************************************************************************)
EXTENDS Integers
LOCAL INSTANCE TLC

Width == 2

NetOf(base, len) == [base |-> base, len |-> len]

Size(len) == 2 ^ (Width - len)

MembersIn(addrs, n) == {a \in addrs : a \div Size(n.len) = n.base \div Size(n.len)}

Truncated(n) == NetOf((n.base \div Size(n.len)) * Size(n.len), n.len)

\* f, written out: TLC looks its values up instead of computing them each time.
Table(f) == f @@ <<>>

=============================================================================
