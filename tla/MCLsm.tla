------------------------------- MODULE MCLsm -------------------------------
(***************************************************************************)
(* Instances of Lsm for TLC.                                               *)
(***************************************************************************)
EXTENDS Lsm

\* Two one-byte keys, neither a prefix of the other.
MCKey == {<<0>>, <<1>>}

\* A transaction that puts both keys, and one that deletes one of them.
MCWrites == {[puts |-> {<<0>>, <<1>>}, deletes |-> {}],
             [puts |-> {}, deletes |-> {<<0>>}]}

\* A key and a longer one that begins with it.
MCPrefixKeys == {<<0>>, <<0, 1>>}
MCPrefixWrites == {[puts |-> {k}, deletes |-> {}] : k \in MCPrefixKeys}

Perms == Permutations(Txn)
=============================================================================
