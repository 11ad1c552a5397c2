-------------------------------- MODULE Lpm --------------------------------
(***************************************************************************)
(* The longest-prefix-match table of public/util_lpm.c.                    *)
(*                                                                         *)
(* A table is a trie with one level per address byte.  A level is an array *)
(* of MAX_INDEX + 1 nodes; a node keeps one list of entries per address    *)
(* family and a pointer to the array of the next level.  A rule            *)
(* address/mask lives at the level its mask ends in, expanded to every     *)
(* node of that level's array it covers.  The program is single-threaded,  *)
(* so one call of the interface is one action; a call that an allocation   *)
(* failure or a bad op cuts short is an action of its own.                 *)
(*                                                                         *)
(* A node is named by its path, the bytes that lead to it from the root;   *)
(* the root pointer dns_lpm_hlist->head is the empty path.                 *)
(***************************************************************************)
EXTENDS Integers, SequencesExt

CONSTANTS STRIDE,              \* bits in one address byte (8)
          MAX_INDEX,           \* the largest byte, 2^STRIDE - 1 (255)
          MAX_LEVEL_IPV4,      \* bytes in an IPv4 address (4)
          MAX_LEVEL_IPV6,      \* bytes in an IPv6 address (16)
          UTIL_LPM_MAX_MATCH,  \* results one lookup can return (8)
          Results,             \* values of lpm_user_result_t
          Rules,               \* the ip_any_t a caller passes to a set call
          Probes,              \* the (is_ipv6, ip) a caller looks up
          Calls,               \* through dns_lpm_set_all ("set_all") or ("update")
          Ops,                 \* the LPM_OP_E values passed to dns_lpm_set_all
          MallocMayFail,       \* whether malloc can return NULL
          MaxLost              \* bound on the arrays a run may leak

IS_IPV4 == 0
IS_IPV6 == 1
Family  == {IS_IPV4, IS_IPV6}

MaxLevel(f) == IF f = IS_IPV4 THEN MAX_LEVEL_IPV4 ELSE MAX_LEVEL_IPV6

Byte      == 0..MAX_INDEX
Addr(f)   == [1..MaxLevel(f) -> Byte]
Mask(f)   == 0..(STRIDE * MaxLevel(f))
IpAny     == UNION {[fam : {f}, addr : Addr(f), mask : Mask(f)] : f \in Family}
Probe     == UNION {[fam : {f}, addr : Addr(f)] : f \in Family}
Path      == UNION {[1..n -> Byte] : n \in 1..MAX_LEVEL_IPV6}
ArrayPath == {<<>>} \cup UNION {[1..n -> Byte] : n \in 1..(MAX_LEVEL_IPV6 - 1)}
Entry     == [mask : Mask(IS_IPV6), res : Results]

ASSUME SizesAssumption ==
  /\ STRIDE \in Nat \ {0}
  /\ MAX_INDEX = 2^STRIDE - 1
  /\ MAX_LEVEL_IPV4 \in Nat \ {0}
  /\ MAX_LEVEL_IPV6 \in Nat
  /\ MAX_LEVEL_IPV4 <= MAX_LEVEL_IPV6
  /\ UTIL_LPM_MAX_MATCH \in Nat \ {0}

ASSUME PowersAssumption ==
  \A n \in 0..STRIDE : 2^n \in 1..(MAX_INDEX + 1)

ASSUME InputsAssumption ==
  /\ Rules \subseteq IpAny
  /\ Probes \subseteq Probe
  /\ Calls \subseteq {"set_all", "update"}
  /\ MallocMayFail \in BOOLEAN
  /\ MaxLost \in Nat

VARIABLES table,   \* the caller's dns_lpm_hlist_t *: "none", "live"; "crashed"
          arrays,  \* the paths whose dns_lpm_node pointer is not NULL
          cfg,     \* config_list_ipv4/6: family -> path -> list of entries
          heap,    \* the blocks malloc'ed and not yet freed
          lost,    \* level arrays that nothing points to any more
          resp     \* the last call and what it returned

vars == <<table, arrays, cfg, heap, lost, resp>>

EmptyLists == [f \in Family |-> [p \in Path |-> <<>>]]

NoResp == [call |-> "none"]

-----------------------------------------------------------------------------
(* The address arithmetic.                                                 *)

\* Here and below, a definition named Mut... is a faulty form of the one after it,
\* for the sensitivity runs of PROJECT.json; nothing else uses it.
MutNoRecalc(a, m) == a

\* ipaddr_prefix_recalc: clear every bit of the address behind the mask.
PrefixRecalc(a, m) ==
  [i \in DOMAIN a |-> IF i * STRIDE <= m THEN a[i]
                      ELSE IF (i - 1) * STRIDE >= m THEN 0
                      ELSE a[i] - (a[i] % 2^(i * STRIDE - m))]

MutStopsLate(n, m) == m < n * STRIDE /\ (n = 1 \/ (n - 1) * STRIDE <= m)

\* Level n (counted from 1) is where the recursion stops for mask m.
IsTerminal(n, m) == m <= n * STRIDE /\ (n = 1 \/ (n - 1) * STRIDE < m)

MutMissesLast(n, m) == 2^(n * STRIDE - m) - 2

\* `extra`: the nodes besides the first that the rule covers at level n.
Extra(n, m) == 2^(n * STRIDE - m) - 1

\* The nodes at level n the rule is expanded to.
Targets(n, a, m) ==
  {Append(SubSeq(a, 1, n - 1), x) : x \in (a[n]..(a[n] + Extra(n, m))) \cap Byte}

MutOneTooDeep(n, a)   == {SubSeq(a, 1, i) : i \in 0..n}
MutLastMissing(n, a)  == {SubSeq(a, 1, i) : i \in 0..(n - 2)}
MutNotChained(n, a)   == {SubSeq(a, 1, n - 1)}

\* The paths whose arrays the walk down to level n goes through.
ArraysTo(n, a) == {SubSeq(a, 1, i) : i \in 0..(n - 1)}

-----------------------------------------------------------------------------
(* The lists of entries.                                                   *)

HasMask(s, m) == \E i \in 1..Len(s) : s[i].mask = m
PosOf(s, m)   == SelectInSeq(s, LAMBDA x : x.mask = m)

\* list_add after the first entry with a smaller mask, else at the head.
InsertEntry(s, e) == InsertAt(s, SelectInSeq(s, LAMBDA x : e.mask > x.mask) + 1, e)

MutAlwaysInserts(s, e) == InsertEntry(s, e)
MutKeepsOld(s, e) == IF HasMask(s, e.mask) THEN s ELSE InsertEntry(s, e)

\* __dns_lpm_set_ip_policy with OP_ADD and with OP_DEL.
AddEntry(s, e) == IF HasMask(s, e.mask) THEN ReplaceAt(s, PosOf(s, e.mask), e)
                                        ELSE InsertEntry(s, e)
DelEntry(s, m) == IF HasMask(s, m) THEN RemoveAt(s, PosOf(s, m)) ELSE s

-----------------------------------------------------------------------------
(* The heap: the table, the level arrays by the path that points to them,  *)
(* the entries by family, node and mask.                                   *)

TableBlock          == <<"table">>
ArrayBlocks(ps)     == {<<"array", p>> : p \in ps}
EntryBlocks(f, ps, m) == {<<"entry", f, p, m>> : p \in ps}

MutFreesTopOnly == {p \in arrays : p = <<>>}

\* The arrays dns_lpm_free reaches from the root, and the entries in them.
Linked == {p \in arrays : \A i \in 0..Len(p) : SubSeq(p, 1, i) \in arrays}
Walked ==
  {TableBlock} \cup ArrayBlocks(Linked) \cup
  UNION {UNION {EntryBlocks(f, {p}, cfg[f][p][i].mask) : i \in 1..Len(cfg[f][p])} :
           f \in Family, p \in {q \in Path : Front(q) \in Linked}}

-----------------------------------------------------------------------------
Init ==
  /\ table = "none"
  /\ arrays = {}
  /\ cfg = EmptyLists
  /\ heap = {}
  /\ lost = 0
  /\ resp = NoResp

TableCreate ==
  /\ table = "none"
  /\ table' = "live"
  /\ heap' = heap \cup {TableBlock}
  /\ resp' = NoResp
  /\ UNCHANGED <<arrays, cfg, lost>>

\* The memset behind an unchecked malloc.
TableCreateCrashes ==
  /\ MallocMayFail
  /\ table = "none"
  /\ table' = "crashed"
  /\ resp' = NoResp
  /\ UNCHANGED <<arrays, cfg, heap, lost>>

\* dns_lpm_set_all's return value, and the bool dns_lpm_update makes of it.
Returned(call, v) == IF call = "update" THEN (IF v < 0 THEN 0 ELSE 1) ELSE v

Answered(call, op, k, r, v) ==
  [call |-> call, op |-> op, rule |-> k, res |-> r, ret |-> Returned(call, v)]

\* A set call whose allocations all succeed.
Add(call, k, r) ==
  /\ table = "live"
  /\ \E n \in 1..MaxLevel(k.fam) :
       /\ IsTerminal(n, k.mask)
       /\ LET a   == PrefixRecalc(k.addr, k.mask)
              tgt == Targets(n, a, k.mask)
              e   == [mask |-> k.mask, res |-> r]
          IN  /\ arrays' = arrays \cup ArraysTo(n, a)
              /\ cfg' = [cfg EXCEPT ![k.fam] = [p \in Path |->
                           IF p \in tgt THEN AddEntry(@[p], e) ELSE @[p]]]
              /\ heap' = heap \cup ArrayBlocks(ArraysTo(n, a))
                              \cup EntryBlocks(k.fam, tgt, k.mask)
  /\ resp' = Answered(call, "OP_ADD", k, r, 0)
  /\ UNCHANGED <<table, lost>>

\* OP_DEL walks, and allocates, the same arrays; a missing entry is no error.
Del(k) ==
  /\ table = "live"
  /\ \E n \in 1..MaxLevel(k.fam) :
       /\ IsTerminal(n, k.mask)
       /\ LET a   == PrefixRecalc(k.addr, k.mask)
              tgt == Targets(n, a, k.mask)
          IN  /\ arrays' = arrays \cup ArraysTo(n, a)
              /\ cfg' = [cfg EXCEPT ![k.fam] = [p \in Path |->
                           IF p \in tgt THEN DelEntry(@[p], k.mask) ELSE @[p]]]
              /\ heap' = (heap \cup ArrayBlocks(ArraysTo(n, a)))
                              \ {b \in EntryBlocks(k.fam, tgt, k.mask) :
                                   HasMask(cfg[k.fam][b[3]], k.mask)}
  /\ resp' = Answered("set_all", "OP_DEL", k, "none", 0)
  /\ UNCHANGED <<table, lost>>

\* __dns_lpm_set_ip_policy returns -1 at level n, after the entries of `done`
\* were set.  Level n's array is linked only when it was there before: a fresh
\* one is lost with its entries.  The levels above ignore the return value and
\* link theirs, so only a rule that ends at the first level reports the -1.
CutShort(call, op, k, r, n, a, done) ==
  LET last  == SubSeq(a, 1, n - 1)
      fresh == last \notin arrays
      above == ArraysTo(n, a) \ {last}
  IN  /\ fresh => lost < MaxLost
      /\ arrays' = arrays \cup above
      /\ cfg' = IF fresh THEN cfg
                ELSE [cfg EXCEPT ![k.fam] = [p \in Path |->
                        IF p \in done THEN AddEntry(@[p], [mask |-> k.mask, res |-> r])
                                      ELSE @[p]]]
      /\ heap' = heap \cup ArrayBlocks(above)
                      \cup IF fresh THEN {} ELSE EntryBlocks(k.fam, done, k.mask)
      /\ lost' = IF fresh THEN lost + 1 ELSE lost
      /\ resp' = Answered(call, op, k, r, IF n = 1 THEN -1 ELSE 0)
      /\ UNCHANGED table

\* The malloc of a new entry fails at one of the nodes that lack one.
AddEntryFails(call, k, r) ==
  /\ MallocMayFail
  /\ table = "live"
  /\ \E n \in 1..MaxLevel(k.fam) :
       /\ IsTerminal(n, k.mask)
       /\ LET a   == PrefixRecalc(k.addr, k.mask)
              tgt == Targets(n, a, k.mask)
          IN  \E q \in tgt :
                /\ ~HasMask(cfg[k.fam][q], k.mask)
                /\ CutShort(call, "OP_ADD", k, r, n, a, {p \in tgt : p[n] < q[n]})

\* dns_lpm_set_ip_policy_info refuses an op that is neither OP_ADD nor OP_DEL,
\* for an entry that exists and for a new one alike, at the first node.
BadOp(op, k) ==
  /\ op \notin {"OP_ADD", "OP_DEL"}
  /\ table = "live"
  /\ \E n \in 1..MaxLevel(k.fam) :
       /\ IsTerminal(n, k.mask)
       /\ CutShort("set_all", op, k, "none", n, PrefixRecalc(k.addr, k.mask), {})

\* alloc_single_hash_level returned NULL and the caller indexes it.
ArrayCrashes(k) ==
  /\ MallocMayFail
  /\ table = "live"
  /\ \E n \in 1..MaxLevel(k.fam) :
       /\ IsTerminal(n, k.mask)
       /\ ~(ArraysTo(n, PrefixRecalc(k.addr, k.mask)) \subseteq arrays)
  /\ table' = "crashed"
  /\ resp' = NoResp
  /\ UNCHANGED <<arrays, cfg, heap, lost>>

\* dns_lpm_update refuses any op but 0, and a NULL table.
UpdateRefused(op) ==
  /\ op # 0 \/ table = "none"
  /\ table # "crashed"
  /\ resp' = [call |-> "refused", op |-> op, ret |-> 0]
  /\ UNCHANGED <<table, arrays, cfg, heap, lost>>

\* What a lookup finds: the lists of the nodes on the address's path, top down,
\* as far as the arrays go.
Found(f, a) ==
  FlattenSeq([i \in 1..MaxLevel(f) |->
    IF \A j \in 0..(i - 1) : SubSeq(a, 1, j) \in arrays
    THEN cfg[f][SubSeq(a, 1, i)] ELSE <<>>])

\* dns_lpm_get_ip_policy_info drops what does not fit in the result array.
Delivered(s) == SubSeq(s, 1, IF Len(s) < UTIL_LPM_MAX_MATCH THEN Len(s)
                                                      ELSE UTIL_LPM_MAX_MATCH)

TableMatch(q) ==
  /\ table = "live"
  /\ resp' = [call |-> "match", probe |-> q,
              out  |-> LET s == Delivered(Found(q.fam, q.addr))
                       IN  [i \in 1..Len(s) |-> s[i].res]]
  /\ UNCHANGED <<table, arrays, cfg, heap, lost>>

TableFree ==
  /\ table = "live"
  /\ table' = "none"
  /\ arrays' = {}
  /\ cfg' = EmptyLists
  /\ heap' = heap \ Walked
  /\ resp' = [call |-> "free"]
  /\ UNCHANGED lost

SetCall ==
  \E k \in Rules :
    \/ \E r \in Results, call \in Calls :
         \/ "OP_ADD" \in Ops /\ Add(call, k, r)
         \/ AddEntryFails(call, k, r)
    \/ "OP_DEL" \in Ops /\ Del(k)
    \/ \E op \in Ops : BadOp(op, k)
    \/ ArrayCrashes(k)

Next ==
  \/ TableCreate
  \/ TableCreateCrashes
  \/ SetCall
  \/ \E op \in {0, 1} : UpdateRefused(op)
  \/ \E q \in Probes : TableMatch(q)
  \/ TableFree

Spec == Init /\ [][Next]_vars

-----------------------------------------------------------------------------
Block == {TableBlock} \cup ArrayBlocks(ArrayPath)
         \cup UNION {UNION {EntryBlocks(f, Path, m) : f \in Family} : m \in Mask(IS_IPV6)}

TypeOK ==
  /\ table \in {"none", "live", "crashed"}
  /\ arrays \subseteq ArrayPath
  /\ cfg \in [Family -> [Path -> Seq(Entry)]]
  /\ heap \subseteq Block
  /\ lost \in Nat

\* A node never holds two entries of one mask in one family: a second one would
\* shadow updates and survive the delete (list_for_each_entry, line 260, stops
\* at the first).
OneEntryPerMask ==
  \A f \in Family, p \in Path : \A i, j \in 1..Len(cfg[f][p]) :
    cfg[f][p][i].mask = cfg[f][p][j].mask => i = j

\* An entry sits at the level its mask ends in, so a rule's add, delete, print
\* and lookup all look for it in the same array.
EntriesAtTheirLevel ==
  \A f \in Family, p \in Path : \A i \in 1..Len(cfg[f][p]) :
    /\ Len(p) <= MaxLevel(f)
    /\ cfg[f][p][i].mask <= Len(p) * STRIDE
    /\ Len(p) = 1 \/ (Len(p) - 1) * STRIDE < cfg[f][p][i].mask

\* Entries live in arrays that are linked, and every linked array hangs from a
\* linked one: whatever calls failed on the way, a lookup and dns_lpm_free can
\* reach all that was kept.
EntriesReachable ==
  \A f \in Family, p \in Path : cfg[f][p] # <<>> => Front(p) \in arrays

ArraysLinked ==
  \A p \in arrays : \A i \in 0..Len(p) : SubSeq(p, 1, i) \in arrays

\* The blocks in use are those dns_lpm_free will reach from the root: nothing is
\* freed early or twice and, the arrays counted by `lost` apart, nothing leaks;
\* a freed table leaves none.
MemoryAccounted ==
  /\ table = "live" => heap = Walked
  /\ table = "none" => heap = {}
=============================================================================
