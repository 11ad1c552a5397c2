---------------------------- MODULE MCHashTable ----------------------------
(* Keys as bytes, hashed by the generic hash into two buckets; one key for *)
(* which a caller's own hash function leaves the array.                    *)
EXTENDS HashTable, GenericHash

CONSTANTS o1, o2, o3
MCObjs   == {o1, o2, o3}
Symmetry == Permutations(MCObjs)

MCKeys   == {<<1>>, <<3>>, <<2>>, <<1, 1>>, <<9>>}
MCSizeOf == [k \in Keys |-> Len(k)]
MCHashOf == [k \in Keys |-> IF k = <<9>> THEN array_size ELSE Hash(k, array_size)]
=============================================================================
