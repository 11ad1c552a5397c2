----------------------------- MODULE LpmLookup -----------------------------
(***************************************************************************)
(* What lookups in the table of Lpm see: the refinement of LpmRules, the   *)
(* effect of each set call on every address, and what the comments and the *)
(* test say of the order and the reach of the results.                     *)
(***************************************************************************)
EXTENDS Lpm

\* Arithmetic: what the provers need to know of the powers of two.
ASSUME PowerLawAssumption ==
  \A i, j \in 0..(STRIDE * MAX_LEVEL_IPV6) :
    2^i \in Nat \ {0} /\ 2^(i + j) = 2^i * 2^j

\* An address, or the path of a node, as a number.
Num(a) ==
  LET num[i \in 0..Len(a)] == IF i = 0 THEN 0 ELSE num[i - 1] * (MAX_INDEX + 1) + a[i]
  IN  num[Len(a)]

Width == [f \in Family |-> STRIDE * MaxLevel(f)]

\* The address x has the prefix of the rule k, on whole numbers.
Covered(k, x) ==
  Num(x) \div 2^(Width[k.fam] - k.mask) = Num(k.addr) \div 2^(Width[k.fam] - k.mask)

\* The rules the nodes hold: the node p stands for Len(p) bytes of prefix, the
\* entry's mask says how many bits of them count.
RulesHeld ==
  UNION {UNION {{[fam |-> f,
                  len |-> cfg[f][p][i].mask,
                  net |-> Num(p) \div 2^(STRIDE * Len(p) - cfg[f][p][i].mask),
                  res |-> cfg[f][p][i].res] : i \in 1..Len(cfg[f][p])} : p \in Path} :
           f \in Family}

\* The last call, in terms of numbers.
Event ==
  CASE resp.call \in Calls ->
         [op |-> resp.op, fam |-> resp.rule.fam, x |-> Num(resp.rule.addr),
          len |-> resp.rule.mask, res |-> resp.res]
    [] resp.call = "match" ->
         [op |-> "match", fam |-> resp.probe.fam, x |-> Num(resp.probe.addr), out |-> resp.out]
    [] OTHER -> [op |-> resp.call]

Abstract == INSTANCE LpmRules
  WITH Width    <- Width,
       Tier     <- [m \in Mask(IS_IPV6) |-> CHOOSE n \in 1..MAX_LEVEL_IPV6 : IsTerminal(n, m)],
       MaxMatch <- UTIL_LPM_MAX_MATCH,
       rules    <- RulesHeld,
       event    <- Event

\* Without allocation failures and bad ops the trie implements the set of
\* prefix rules: expansion, levels and shared arrays never show in a lookup.
RefinesRules == Abstract!Spec

-----------------------------------------------------------------------------
Find(f, x, m) == {i \in 1..Len(Found(f, x)) : Found(f, x)[i].mask = m}

\* A rule is in force when every address it covers finds it, once, with its
\* result; it is gone when none does.
InForce(k, r) ==
  \A x \in Addr(k.fam) : Covered(k, x) =>
    \E i \in 1..Len(Found(k.fam, x)) :
      Find(k.fam, x, k.mask) = {i} /\ Found(k.fam, x)[i].res = r
Gone(k) == \A x \in Addr(k.fam) : Covered(k, x) => Find(k.fam, x, k.mask) = {}

\* A set call that is not cut short takes full effect, also on what an earlier
\* call, cut short, left behind: a retried add covers the whole prefix with the
\* new result, a delete leaves no trace.
CompletedCallTakesEffect ==
  [][resp'.call \in Calls => \A k \in {k \in Rules : k = resp'.rule} :
       /\ Add(resp'.call, k, resp'.res) => InForce(k, resp.res)'
       /\ Del(k) => Gone(k)']_vars

\* The entries of s under other masks than m, in their order.
Without(s, m) ==
  FlattenSeq([i \in 1..Len(s) |-> IF s[i].mask = m THEN <<>> ELSE <<s[i]>>])

\* No set call, cut short or not, changes what an address outside its prefix
\* finds, or what any address finds under another mask or in the other family.
OthersUntouched ==
  [][resp'.call \in Calls => \A k \in {k \in Rules : k = resp'.rule} :
       \A f \in Family : \A x \in Addr(f) :
         IF f = k.fam /\ Covered(k, x)
         THEN Without(Found(f, x)', k.mask) = Without(Found(f, x), k.mask)
         ELSE Found(f, x)' = Found(f, x)]_vars

-----------------------------------------------------------------------------
\* util_lpm.c:299, "larger masks behind, higher priority": what a lookup finds
\* comes in the order of the masks.
LargerMasksBehind ==
  \A q \in Probes : \A i, j \in 1..Len(Found(q.fam, q.addr)) :
    i < j => Found(q.fam, q.addr)[i].mask < Found(q.fam, q.addr)[j].mask

\* util_lpm.c:441, "the larger the mask, the higher the priority; a configuration
\* at a deeper level updates": the result of the longest match is returned.
LongestIsReturned ==
  resp.call = "match" =>
    LET s == Found(resp.probe.fam, resp.probe.addr) IN
    s # <<>> => Last(s).res \in ToSet(resp.out)

\* test_lpm.c:63, 84: an add that returned 0 has been done.
ZeroMeansInstalled ==
  (resp.call = "set_all" /\ resp.op = "OP_ADD" /\ resp.ret = 0)
     => InForce(resp.rule, resp.res)
=============================================================================
