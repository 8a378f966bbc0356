----------------------------- MODULE MCAovRegistry -----------------------------
(* Instances of AovRegistry for TLC. *)
EXTENDS AovRegistry, TLC

\* Two IPv4 hosts: their address fits in sa_data whole.
PrefixV4 == [ip \in Ip |-> ip]

\* Real port numbers, and an int that is cut to the first of them.
TruePorts == {26482, 26483}
WidePorts == {26482, 26482 + 65536}

AddrSymmetry == Permutations(Addr)
=============================================================================
