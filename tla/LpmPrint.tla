------------------------------ MODULE LpmPrint ------------------------------
(***************************************************************************)
(* dns_lpm_print of public/util_lpm.c: the dump of a whole table, and the  *)
(* query for one rule.  Printing changes nothing, so what it prints is an  *)
(* operator on the states of Lpm.  A line is the node's path (ip_stack,    *)
(* zero behind it) and the entry.                                          *)
(***************************************************************************)
EXTENDS LpmLookup

Holds(f, p, m) == HasMask(cfg[f][p], m)

MutSharedFlag(f, q) ==
  \/ \E x \in 0..(Last(q) - 1), g \in Family : Holds(g, Append(Front(q), x), 0)
  \/ f = IS_IPV6 /\ Holds(IS_IPV4, q, 0)

\* is_default_ipv4_printed / is_default_ipv6_printed: an entry of mask 0 of this
\* family was met at an earlier index of the same array.
DefaultPrinted(f, q) ==
  \E x \in 0..(Last(q) - 1) : Holds(f, Append(Front(q), x), 0)

\* The lines of the dump, without a filter.
Dump(f) ==
  UNION {{[node |-> q, mask |-> cfg[f][q][i].mask, res |-> cfg[f][q][i].res] :
            i \in {i \in 1..Len(cfg[f][q]) : cfg[f][q][i].mask = 0 => ~DefaultPrinted(f, q)}} :
         q \in {q \in Path : Front(q) \in Linked /\ Len(q) <= MaxLevel(f)}}

MutStopsShort(k, n) ==
  {Append(SubSeq(k.addr, 1, n - 1), x) :
     x \in (k.addr[n]..(k.addr[n] + Extra(n, k.mask) - 1)) \cap Byte}

\* The nodes the query looks at: the filter's own bytes, not recalculated.
QueryNodes(k, n) ==
  {Append(SubSeq(k.addr, 1, n - 1), x) :
     x \in (k.addr[n]..(k.addr[n] + Extra(n, k.mask))) \cap Byte}

\* The lines of the query for the rule k.
Query(k) ==
  UNION {UNION {{[node |-> q, mask |-> k.mask, res |-> cfg[k.fam][q][i].res] :
                   i \in {i \in 1..Len(cfg[k.fam][q]) :
                            /\ cfg[k.fam][q][i].mask = k.mask
                            /\ k.mask = 0 => ~\E p \in QueryNodes(k, n) :
                                                Last(p) < Last(q) /\ Holds(k.fam, p, 0)}} :
                 q \in QueryNodes(k, n)} :
         n \in {n \in 1..MaxLevel(k.fam) :
                  /\ IsTerminal(n, k.mask)
                  /\ \A j \in 0..(n - 1) : SubSeq(k.addr, 1, j) \in arrays}}

-----------------------------------------------------------------------------
\* The dump and the lookups agree: an address finds exactly the lines printed for
\* the nodes on its way, and the one line the default rule of its family gets.
DumpAgreesWithLookups ==
  \A f \in Family : \A x \in Addr(f) :
    LET found == ToSet(Found(f, x))
        own   == {l \in Dump(f) : l.mask # 0 /\ l.node = SubSeq(x, 1, Len(l.node))}
        dflt  == {l \in Dump(f) : l.mask = 0}
    IN  /\ {[mask |-> l.mask, res |-> l.res] : l \in own \cup dflt} = found
        /\ Cardinality(dflt) <= 1

\* The query for a rule with its address recalculated prints that rule's lines of
\* the dump and no other's, and prints something exactly when the rule is there.
QueryPrintsTheRule ==
  \A k \in {[k EXCEPT !.addr = PrefixRecalc(k.addr, k.mask)] : k \in Rules} :
    LET net == {l \in Dump(k.fam) :
                  /\ l.mask = k.mask
                  /\ \A i \in 1..Len(l.node) : PrefixRecalc(l.node, k.mask)[i] = k.addr[i]}
    IN  /\ Query(k) = net
        /\ Query(k) # {} <=> \E r \in Results : InForce(k, r)
=============================================================================
