---------------------------- MODULE GenericHash ----------------------------
(***************************************************************************)
(* HashTableGenericHash of public/util_hash.c, the same function as        *)
(* HashListTableGenericHash of public/util_hashlist.c: a datum is the      *)
(* sequence of its bytes, the arithmetic is that of a uint32_t.            *)
(***************************************************************************)
EXTENDS Integers, Sequences

CONSTANT UINT32_RANGE   \* 2^32; smaller for TLC, whose integers have 32 bits

ASSUME UInt32Assumption == UINT32_RANGE \in Nat \ {0}

Hash(data, array_size) ==
  LET datalen == Len(data)
      sum[i \in 0..datalen] ==   \* `hash` after i bytes
        IF i = 0 THEN 0
        ELSE LET b == data[i] IN
             (IF i = 1 THEN b
              ELSE IF i = 2 THEN sum[i - 1] + b * datalen
              ELSE sum[i - 1] * (b * (i - 1) + datalen + (i - 1))) % UINT32_RANGE
  IN  ((sum[datalen] * datalen) % UINT32_RANGE) % array_size

HashListTableGenericHash(data, array_size) == Hash(data, array_size)
=============================================================================
