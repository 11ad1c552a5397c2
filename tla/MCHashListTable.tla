-------------------------- MODULE MCHashListTable --------------------------
(* Keys as bytes, hashed by the generic hash into two buckets.             *)
EXTENDS HashListTable, GenericHash, TLC

CONSTANTS n1, n2, n3
MCNodes  == {n1, n2, n3}
Symmetry == Permutations(MCNodes)

MCKeys   == {<<1>>, <<3>>, <<1, 1>>, <<2>>}
MCSizeOf == [k \in Keys |-> Len(k)]
MCHashOf == [k \in Keys |-> HashListTableGenericHash(k, array_size)]
=============================================================================
