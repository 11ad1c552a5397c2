------------------------------ MODULE MCParts ------------------------------
(***************************************************************************)
(* The four parts of Parts for TLC.  Of four chain nodes two are in the    *)
(* middle.                                                                 *)
(***************************************************************************)
EXTENDS Parts, IpBits

CONSTANTS h1, h2, n1, n2, n3, n4
MCHeads  == {h1, h2}
MCNodes  == {n1, n2, n3, n4}
Symmetry == Permutations(MCHeads) \cup Permutations(MCNodes)

OfWords(w) == [k \in 1..16 |-> IF k % 2 = 1 THEN w[(k + 1) \div 2] \div 256
                                          ELSE w[k \div 2] % 256]
V4 == {<<255, 170, 85, 1>>, <<128, 1, 254, 127>>}
V6 == {a \o b \o a \o b : a, b \in V4}

\* Every mask for a few addresses, and many addresses for the text: words of one, two,
\* three and four digits with all patterns of zeros, bytes of one to three digits.
MCRules ==
  [is_ipv6 : {FALSE}, addr : V4, mask : 0..32]
    \cup [is_ipv6 : {TRUE}, addr : V6, mask : 0..128]
    \cup [is_ipv6 : {FALSE}, addr : [1..4 -> {0, 9, 10, 99, 100, 255}], mask : {32}]
    \cup [is_ipv6 : {TRUE}, mask : {128},
          addr : {OfWords(w) : w \in [1..8 -> {0, 1, 65535}] \cup [1..8 -> {0, 26, 300}]}]
MCSizes == {15, 16, 39, 40, 46, 64}

\* The bytes 0 to 3 are zero or an invalid character, '/', '-' and a letter; labels
\* have two bytes at most.  Bytes behind MAX_DNAME_LEN are only looked at as characters.
MCPackets ==
  {[k \in 0..11 |-> IF k < 6 THEN p[k] ELSE IF k < 8 THEN q[k] ELSE 0] :
     p \in [0..5 -> 0..3], q \in [6..7 -> {0, 3}]}
MCNames == UNION {[1..n -> {2, 3, DOT}] : n \in 1..4} \cup 
             {<<3, DOT, 1>>, <<3, 3, DOT, 3, 3>>, <<3, DOT, 3, DOT, 3>>,
              <<3, DOT, 3, DOT, 3, DOT, 3, DOT, 3>>}
=============================================================================
