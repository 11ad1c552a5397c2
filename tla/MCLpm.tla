------------------------------- MODULE MCLpm -------------------------------
(* Small tables for TLC: bytes of two bits, IPv4 addresses of one byte and *)
(* IPv6 addresses of two, so that a level holds masks of three lengths and *)
(* an IPv6 rule can end at either level.                                   *)
EXTENDS LpmPrint

R4(a, m)    == [fam |-> IS_IPV4, addr |-> <<a>>, mask |-> m]
R6(a, b, m) == [fam |-> IS_IPV6, addr |-> <<a, b>>, mask |-> m]
P4(a)       == [fam |-> IS_IPV4, addr |-> <<a>>]
P6(a, b)    == [fam |-> IS_IPV6, addr |-> <<a, b>>]

\* Both families' default rules, an IPv6 rule that ends on the byte boundary, and
\* two nested IPv6 rules at the second level.
RulesNested == {R4(0, 0), R6(1, 3, 0), R6(1, 3, 2), R6(1, 3, 3), R6(1, 2, 4)}
ProbesNested == {P4(3), P6(1, 2), P6(1, 3)}

\* Three masks in one list of one node.
RulesOneNode == {R6(2, 1, 0), R6(2, 1, 1), R6(2, 1, 2), R4(1, 0), R6(2, 1, 3)}
ProbesOneNode == {P6(2, 1), P6(3, 0), P4(1)}

RulesFail == {R6(1, 3, 1), R6(1, 3, 3), R6(1, 2, 4), R4(2, 1)}
ProbesFail == {P6(1, 3)}
=============================================================================
