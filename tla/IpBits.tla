------------------------------- MODULE IpBits -------------------------------
(***************************************************************************)
(* The bit operations of ipv6_addr_prefix and ipv4_addr_prefix.  They are  *)
(* in a module of their own because no prover knows them; the addresses of *)
(* IpAddr take them as parameters, and IpAddr says what they are to do.    *)
(***************************************************************************)
EXTENDS Integers, Bitwise

\* What ipv6_addr_prefix and ipv4_addr_prefix keep of the byte the prefix ends in.
KeptOf6(byte, b) == byte & (65280 \div 2^b)          \* 0xff00 >> b
KeptOf4(byte, b) == byte & (255 - (255 \div 2^b))    \* ~(0xff >> b)
=============================================================================
