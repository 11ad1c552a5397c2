# TLA+ models and proofs for tc-test

The repository is a small collection of C data structures (a longest-prefix-match
table, two chained hash tables, kernel-style linked lists), a demo program that
uses them, and two Python scripts that talk to a device over MQTT. This directory
holds TLA+ models of it, TLC configurations that check them on small instances,
and proofs checked by TLAPS.

All C code is single-threaded and nothing is persisted, so what is hard about it
is not concurrency or crashes but *sequences*: long series of legal calls on
shared pointer structures, calls that fail half way (every `malloc` may), a loop
over a structure that other calls change between its steps, boundary arithmetic
of masks, text and labels, and fixed-size result arrays. The MQTT scripts are the
exception: beside the script runs a library thread that reconnects and sends again.

## 1. Inventory

| Part | Source | State | Operations | Correct when | Status |
|---|---|---|---|---|---|
| LPM table | `public/util_lpm.c/.h` | a trie of 256-node arrays, one per address byte; per node two lists of entries (mask, result) | create, set (add/delete), update, group add, match, print, free | it behaves as a set of prefix rules; memory is reclaimed; a failed call harms nothing else | modelled, proved |
| Hash table | `public/util_hash.c/.h` | array of chains of (pointer, size) | init, add, remove, lookup, free | it behaves as a keyed store; `Free` meets every object once | modelled, proved |
| Hash table with list | `public/util_hashlist.c/.h` | the same and one doubly linked list of all buckets | the same, loop over the list | chains and list hold the same buckets; a loop survives other calls | modelled, proved |
| `list_head` lists | `public/util_list.h`, older subset `list.h` | rings of next/prev | add, del, replace, move, rotate, cut, splice, whole move/append, loops of every kind | every list is a ring both ways; a loop misses nothing its body left alone; every call does to the sequence what its comment says | modelled, proved |
| `hlist` lists | `public/util_list.h` | chains of next/pprev | add head/before/behind/fake, del, move list, loops | pprev tells the truth; loops as above | modelled, proved |
| Addresses | `util_lpm.c:9-202`, `463-481` | the address of a rule | `ipaddr_prefix_recalc`, `inet_ntop4`, `inet_ntop6` | exactly the prefix is kept; the text denotes the address and fits | modelled, proved |
| Domain names | `test.c:33-200` | none | `get_dname_len`, `trans_to_dname_format`, `test_seg` | lengths, labels and suffixes agree, whatever lies behind the name | modelled, proved |
| List demo | `test.c:202-262`, `main.c` | a round-robin list | add, set first, walk | the walk meets every entry; what uninitialised fields can do | modelled, proved |
| MQTT scripts | `test_mqtt/*.py` | one client, a network loop | connect, subscribe, publish all, receive | messages arrive, in order; their answers are heard; nothing is sent after a disconnect | modelled, its safety proved |
| Logs, Makefiles, JSON data | `log.*`, `Makefile`s, `mqtt_json/` | none | | | not modelled: formatting and data |

How the parts meet: the LPM table keeps its entries in `list_head` lists (`list_add`
behind an entry or a head, `list_del`, `list_for_each_entry`,
`list_for_each_safe`), so `Lpm` treats an entry list as a sequence, which is what
`UtilList` shows a `list_head` ring to be. Both hash tables take the hash,
compare and free functions as callbacks of the caller, and both fall back to a
compare built on `UTIL_MEMCMP` of `util_public.h`. `util_public.h` also
supplies `UTIL_MALLOC`, so any allocation can fail.

The hazards, each at its line and with the properties that watch it, are in
`PROJECT.json`.

## 2. Modules

### LPM table

- **`Lpm`** is the table. A node is named by the bytes that lead to it, so the
  variables are `arrays` (the paths at which a `dns_lpm_node` pointer is not
  NULL) and `cfg` (family, path -> list of entries); `heap` is the set of blocks
  `malloc` gave out, `lost` counts level arrays nothing points to any more, `resp` is the
  last call and its answer (and what a lookup delivered). One call is one action:
  `TableCreate`, `Add`, `Del`, `TableMatch`, `TableFree`, `UpdateRefused`. The
  recursion of `_dns_lpm_set_ip_policy` becomes a level `n` (`IsTerminal`), the arrays on the
  way (`ArraysTo`) and the nodes the rule is expanded to (`Targets`,
  `Extra`). Calls cut short are separate actions over the same helpers: `AddEntryFails` (the
  `malloc` of an entry fails at some node, the nodes before it are set),
  `BadOp` (an op that is neither add nor delete), both through `CutShort`,
  which says what stays behind, and `ArrayCrashes` / `TableCreateCrashes` for the two
  unchecked allocations.
- **`LpmRules`** is the promise: a set of rules over addresses that are numbers. Every
  step carries the call and its answer (`event`) and must have the effect of that call;
  the two stores below are written the same way.
- **`LpmLookup`** relates the two: the refinement, and the properties about what
  every address finds. There an address is a number (`Num`), so that "has the prefix of" is
  an equality of quotients (`Covered`) that knows nothing of bytes and levels.
- **`LpmPrint`** has `dns_lpm_print` as an operator on the table's states, for the
  dump and for the query.
- **`LpmProofs`** has the theorems, on the trie, its memory, its lookups, the refinement and
  the printing.

**`SequenceLemmas`** is shared by the proof modules: what `InsertAt`, `RemoveAt`, `Append` and their
like return, for sequences of any length.

### Hash tables

- **`HashTable`**: chains as sequences of `[data, size]`, with the contents of the
  caller's objects as a variable, because the default compare writes to
  them; which compare a table has is chosen at init and kept in `ht`. `given` and
  `owner` are history: what an object held when it was added, who may release it.
- **`HashListTable`**: the pointers themselves (`bucknext`, `listnext`,
  `listprev`, `listhead`, `listtail`). `cursor` is a caller's loop, `pending`
  the buckets it still has to meet.
- **`KeyedStore`** and **`OrderedStore`** are the promises; `KeyedStore` names what it
  cannot promise (`Evict`: `HashTableRemove` of an absent key may take the one bucket of
  the chain, run `hash_remove`).
- **`GenericHash`** is
  the hash function with its `uint32_t` arithmetic (the range is a constant: TLC's
  own integers have 32 bits, so the runs use 2^16).
- **`HashTableProofs`** and **`HashListTableProofs`** have the theorems.

### Linked lists

- **`ListCells`** declares what both kinds have: heads, nodes, NULL, the two poisons and
  the value of a field nobody has set. `Way` is how the loop macros walk from a head.
- **`UtilList`**: each function of the header is an operator on a memory of next
  and prev fields that makes the same assignments in the same order; actions apply
  them where a caller who keeps the header's rules may. One loop can be under way
  (`loop`: the way it goes, whether it is a safe one, `pos` and the saved `n`); between
  two of its steps any other calls run, on condition that they leave alone the entry the
  macro relies on (`Pinned`: `n` of a safe loop, `pos` of a plain one). The thirteen
  macros differ in the way, in being safe and in where they start, so `LoopStart` takes
  all three. `LetGo` and `list_safe_reset_next` are the pattern of that macro's comment.
  `todo` is history: what the loop has to meet yet.
- **`UtilHlist`**: the same for `hlist`; `pprev`, a pointer to a pointer, is named by
  the struct that pointer is in. A loop here knows no head.
- **`OldList`**: the functions of `src/list.h`, the demo's copy, as operators.
- **`Lists`** is the promise of both kinds: heads stand for sequences. Its steps are labelled
  with the call and its arguments, so the refinement checks that each call has *its* effect,
  not just some effect.
- **`ListDemo`**: `main`'s list demo on `OldList`. Memory from `malloc` holds
  anything (`Junk`), so that the read of `fir`, which nobody sets, is a choice: not
  followed, followed to a struct, or a crash (`ForEachCrashes`).
- **`ListLemmas`** is about the sequences lists stand for, and how a walk reads them off the
  pointers; **`UtilListProofs`** has the theorems about the rings, **`PartsProofs`** those
  about the chains and the demo.
- **`MCLists`** runs the rings, **`MCParts`** (through `Parts`) the chains, the demo, the addresses and the names.

### Addresses and names

- **`IpAddr`**: what a mask keeps of an address, and the two functions that write one. What `&` and `>>` keep
  of the byte in which a prefix ends is a parameter (`Kept6`, `Kept4`), for which **`IpBits`** has the bit operations
  of the code; no prover knows those. `AddressAssumption` says what `IpAddr` needs of them, and TLC evaluates it for
  each of the 256 bytes and every number of bits. The scan for the longest run of zeros is a
  recursive function over the words, with the `best` and `cur` of the code; the text
  is a sequence in which a group of hex digits is one element that knows its length. What the
  properties compare with is not an algorithm: `SixTexts` are the texts that denote an address, `MaskKeepsThePrefix`
  goes bit by bit.
- **`Dname`**: the wire form of names. `get_dname_len` is an operator on the buffer, with
  its reads behind the packet; `trans_to_dname_format` is an action, for what it leaves of
  the buffer matters; `test_seg` an operator again. `Starts` is the reference: the
  set of offsets at which the labels of a name begin.
- **`PartsProofs`** has the theorems about both.
- **`Parts`** puts the parts that do not meet together, one of them in each behaviour (`part`): the chains, the
  demo, the names and the addresses; **`MCParts`** gives it constants.

### MQTT scripts

- **`MqttClient`**: `Script` is the main thread (`Connect`, `Subscribe`, `LoopStart`,
  `Publish`, `Slept`, `Paused`), `Interrupt` the `except` branch, which disconnects and goes
  on, `Dies` an exception anywhere else. The client library, the broker and the device are not in
  the repository; the model has of them what the scripts count on, marked external: the library
  keeps what was published with QoS 1 or 2 until it is acknowledged and sends it again, its loop
  reconnects until `disconnect()`, and a broker forgets a clean session's subscriptions with its
  connection. `Lose` cuts a connection with everything under way in both directions.
  The two scripts differ in what they publish and in QoS 1 or 2, which the model
  does not tell apart. Messages that are published are numbered, which is all the payload there
  is.
- **`MqttProofs`** has its theorems.

Where a type invariant is not checked by itself it is the first conjunct of a structural
property (`ListIsOneLine`, `RingsClosedBothWays`, `PprevPointsBack`, `ArriveInOrder`).

Definitions named `Mut...` are faulty variants of the definition below them. They
are used by nothing; `PROJECT.json` names them to show that each property
notices a plausible bug.

## 3. Runs

| Run | What is asked | Bounds |
|---|---|---|
| `lpm_rules` | does the trie implement `LpmRules`; no duplicates, entries at their level; do dump and query agree with the lookups? | bytes of 2 bits, IPv4 of 1 byte, IPv6 of 2; five rules: both default rules, an IPv6 rule ending on the byte boundary, two at the second level; two results, result array of 2 |
| `lpm_failures` | what failing calls leave behind | any allocation fails, a refused op, at most one lost array |
| `hash` | keyed store with a compare that compares; what the default compare spoils | 3 objects (symmetric), 2 buckets, keys that collide and one hashed outside |
| `hashlist` | pointer structure, loops, ordered store, with either compare | 3 buckets (symmetric), 2 chains, 4 keys |
| `lists` | rings both ways, loops of every kind, the effect of every call, the older header | 2 heads, 3 entries (symmetric) |
| `parts` | chains: back pointers, loops, effects; the demo's walk; are prefix, text and names what their reference definitions say? | 2 heads and 4 chain nodes (symmetric); the demo with 4 entries of 10, acting at the one with index 3; every IPv4 mask for 2 and every IPv6 mask for 4 addresses; texts of 1296 IPv4 and 13121 IPv6 addresses into 6 buffer sizes; packets of 6 free bytes, labels of at most 2; names of at most 9 bytes into cleared and used buffers |
| `mqtt` | order, loss, disconnect, arrival and answers | 2 files, 4 messages, 2 lost connections, one interrupt |

Five further runs show the code in disagreement with its own comments and tests
(section 5).

Why the bounds suffice. The trie: two bits a byte give a level three mask lengths
with their expansions to 1, 2 and 4 nodes, IPv4 and IPv6 share the first array and differ
at the second, and a rule can be terminal at either level; more levels repeat
the recursion, which the proofs cover for every depth. A result array of two is
overflowed by three rules that match one address. Chains and rings: every case of the pointer code
is distinguished by being first, last, only or middle, which three elements give; four where a
node has two middle neighbours. Addresses: each word is zero, or has one, two, three or four digits, and
all patterns of zero words occur, with 0xffff where an encapsulated address has it. Names: what
`get_dname_len` tells apart is a length, a character of each class and the two limits, which are scaled to
6 and 5 bytes (256 and 253 in `comm.h`; a label's 63 to 2) so that a label can end before, at and behind each.
MQTT: two losses let a message be lost, sent again and lost again; four messages are two
rounds of the files with a pause between; `MaxPublished` stops the endless script. `MaxLost` only stops the counter of lost
arrays.

Deadlock is checked except in runs with failing allocations: there
the program may have crashed on an unchecked NULL.

Fairness and liveness are in `MqttClient` only; the data structures are passive and every call
ends by itself. Weak fairness is assumed of the script and of the library's loop (two threads the
operating system schedules), of the broker and of the device (they answer at last).
There is none for `Lose`, `Interrupt` and `Dies`: nothing makes a connection go down or a user press
a key, and as lost connections are bounded one stays up at last. `PublishedArrives` excepts the runs
in which the script was stopped: after the disconnect the library keeps what is published
for ever. `AnswersAreHeard` also excepts those with a lost connection, and
`DeafAfterALoss` says why it must: the subscription is not renewed.

## 4. Proofs

Every theorem holds for every value of the constants. Each is named with the property of a run it
states, so the run shows on a small instance what the theorem says in general.

### LPM table (`LpmProofs`)

- `TypeCorrect`: `Spec => []TypeOK`.
- `TrieWellFormed`: `Spec => []` of `OneEntryPerMask`, `EntriesAtTheirLevel`,
  `EntriesReachable` and `ArraysLinked`; `LevelsAreKept`, `NothingIsOutOfReach` and
  `ArraysAreOneTree` state three of the parts by themselves.
- `NothingLeaks`: `Spec => []MemoryAccounted`.
- `OthersAreUntouched`: `Spec => OthersUntouched`; a set call, cut short or not, changes nothing of
  what an address outside its prefix finds, or any address under another mask.
- `CompletedCallsTakeEffect`: `Spec => CompletedCallTakesEffect`; a set call that runs to its end
  does all it should, also on what earlier calls, cut short, left behind.
- `TrieImplementsRules`: `NoFailures |- Spec => RefinesRules`; the trie implements the set of rules.
- `DumpAndLookupsAgree` (`DumpAgreesWithLookups`) and `QueryShowsTheRule` (`QueryPrintsTheRule`), under
  `NoFailures`.

They hold for every stride, depth, set of rules, results and ops. The first five hold with or without
allocation failures; the last three assume `NoFailures`: no `malloc` fails, which is what the
properties are about (an expansion that stopped half way is not a rule), sets go through `dns_lpm_set_all` at least,
and no op is called "match" or "free", so that an event says which call it was. Ops that are refused are allowed. The constants of the run `lpm_rules` satisfy it.
The assumptions are those of `Lpm`: `SizesAssumption` (a byte has
2^STRIDE values, IPv6 addresses are no shorter than IPv4 ones), `PowersAssumption`
(2^n lies within a byte's range for n up to STRIDE), `InputsAssumption` (callers' rules are addresses with
a mask no longer than the address), and `PowerLawAssumption` of `LpmLookup`: powers of two are positive and
2^(i+j) is 2^i * 2^j. The first and the third say what the code is given; the other two are
arithmetic, there because the provers know nothing of exponentials, and TLC evaluates them in every run of the table.

The four parts of `TrieWellFormed` are inductive together with `TypeOK`. The argument: a set
call changes lists only at its target nodes, which hang from the last array of its walk
(`TargetsAreNodes`), and `arrays` grows by a walk from the root, which leaves it
closed under prefixes (`WalkStaysClosed`). On a target list
the call replaces or inserts one entry whose mask belongs to that level
(`AddEntryEdits`) or removes one (`DelEntryEdits`); an edit of either kind keeps masks unique and at
their level (`EditKeepsLists`). One lemma per action (`AddIsGood`,
`DelIsGood`, `CutShortIsGood`, `FreeIsGood`, `OthersAreGood`) is put together in
`StepIsGood`. `EntriesReachable` needs `CutShort` to be right about *not* linking a fresh array: it
then leaves `cfg` alone.

`NothingLeaks` needs no strengthening beyond those: `MemoryAccounted` says that `heap` is the table,
the linked arrays and one block per entry, so each action has to give out or take back exactly
the blocks by which these change. `MemoryKept` is the step: the entry blocks of an edited list are the old
ones, with one more when `AddEntry` inserts (its key is then new, as masks are unique: `OneEntryPerMask` is
what makes a set of keys an account of the blocks) and one less when `DelEntry` finds its entry.

*Lookups.* What an address finds is a concatenation of one list per level (`Rows`, `FoundIn`), and
lemmas on `FlattenSeq` turn a change of one row into a change of the whole. An address finds at most one entry of each
mask (`FoundOnce`), since masks are unique in a list and belong to one level. The other half is arithmetic:
the number of a path (`Num`) and of the first bytes of an address (`High`), division by powers of two, and that an address
is covered by a rule (`Covered`, on whole numbers) exactly when its bytes in front of the rule's last level are the
rule's and its byte there has the same leading bits (`SharePrefix`), that is, when its node at that level is one of the
`Targets`. So a set call writes to nodes of covered addresses only, and to all of them; that gives the two
action properties.

*Refinement.* The invariant needs one more part, `NodesAlike`: all nodes of a level that have the same
prefix of m bits hold the same entry of mask m, or none of them does (`Uniform`). Without it, one rule of
`RulesHeld` could have nodes that lack it, and a lookup would miss it. It is false once an allocation failed. `Replaces` says
that a call has exchanged one prefix on all its nodes and nothing else, and `ReplacesRules` that the
set of rules then changes as `LpmRules` says. For a lookup the abstract specification wants an
order of the covering rules that respects their tiers; the rules of the entries found, in the order in which they are
found, are one (`SequencesOfSet`, `TierIsLevel`; each covering rule is found because of `Uniform`, and once because of
`FoundOnce`), and cutting the results at the array's size commutes with taking results.

*Printing.* The dump's line for a default rule is only ever that of node 0 (`DefaultLine`: by
`Uniform` every node of the root has the default rule when one has it, so the `is_default` flags suppress all but the first). The query
starts at the recalculated address: `QueryLooksAt` says that the nodes it looks at are those of the prefix,
for which recalculating twice is recalculating once.

### Hash tables

`HashTableProofs`, for every number of chains, hash function and set of objects (`HashTable`'s
assumption: a finite set of objects that does not hold NULL):

- `TypeCorrect`, `BucketsAreHome` (`BucketHome`), `EachIsHeldOnce` (`HeldOnce`).
- `RefinesStore`: `Spec => RefinesStoreWithEviction`, the specification implements `KeyedStore` under its
  refinement mapping.

`HeldOnce` counts; the invariant says instead that no object is at two places (`HeldAtOnePlace`) and that the
table owns an object exactly while it is at one (`OwnedWhileHeld`), and both follow. The default compare overwrites the
datum it is asked about, so the proof of `BucketHome` has to show that a datum is overwritten only by one
that hashes to the same chain. For the refinement the chain a call searches has to give the abstract store's answer:
the newest bucket of a key in its chain is the newest of the table.

`HashListTableProofs`, with any finite set of buckets and NULL outside it:

- `ListStaysOneLine` (`ListIsOneLine`), `ChainsStayAPartition` (`ChainsPartitionTheList`),
  `FreeLeavesNothing` (`FreeReleasesAll`), `LoopsMeetAll` (`LoopMeetsAll`).
- `RefinesStore`: `Spec => RefinesOrderedStore`.

The properties are about walks over pointers, on which no induction is to be had. The invariant therefore
says that *there are* sequences, one for the list and one for each chain, that the pointers stand for: the next
of the i-th is the (i+1)-th, its previous the (i-1)-th, the ends are NULL, and no bucket is in a chain twice (`Line`,
`Chain`). Each action changes these sequences at one position, and a lemma says that
the model's walks read them back. `StillAhead`: a loop's `pending` are behind its cursor in the list. `NewerFirst`: a chain
has its buckets in the opposite order of the list, so that the bucket a lookup meets first is the newest,
which is what the ordered store promises.

### Rings (`ListLemmas`, `UtilListProofs`)

- `RingsStayClosed` (`RingsClosedBothWays`) and `LoopsMeetAll` (`LoopMeetsAll`), for any finite sets of heads and
  entries.
- `RingsRefine`: `Spec => RefinesLists`; each of the header's functions does to the sequences what its comment says.
- `HeadersAgree` (`OlderHeaderAgrees`): the demo's copy of the header leaves the same memory. Unlike the others it needs
  of a state only that the fields have their types.

Assumed is `CellsAssumption` of `ListCells`: the structs are finitely many, no head is an entry, and NULL, the
poisons and the uninitialised value are no structs, NULL being none of the others.

The invariant `IInv` says that there are sequences `L`, one per head, that the memory stands for (`Rings`): no entry is in them
twice, a head spliced away has none, and of two neighbours (`Beside`, the head closing the ring) the first points to the
second with `next` and back with `prev`. Nothing is said of structs in no ring, so a stale head or a deleted entry may
hold what it likes. A call is right when the neighbours of its new sequences are old ones and the pairs it has
written (`Relinks`), and it has written nothing else that is in a ring (`Wrote`); that is `Relink`, and each function is one use
of it, with the pairs worked out on the sequences (`WithPairs`, `LessPairs`, `ReplacedPairs`, `JoinedPairs`, `PartedPairs`).
`list_whole_move`, a loop within a call, has an invariant of its own (`Carried`: what has gone from the front of the one list is
behind the other, in order), by induction on its rounds.

`LoopOK` is what a loop knows: all it has to meet lies, the way it walks, at or behind the struct its body
leaves alone, in the list of its head. A call keeps that when it keeps the order of what stays (`Keeps`) and takes neither that struct nor
the head (`Spares`); `CallGoes` puts the two together and there is one lemma per action. `EntriesRead` says that
`Way` reads the sequences back, forward and backward, which gives the properties and the refinement.

### Chains (`ListLemmas`, `PartsProofs`)

- `BackPointersAgree` (`PprevPointsBack`), `UnhashedTellsTheTruth` (`UnhashedIsOutside`), `LoopsMeetAll`
  (`ChainLoopMeetsAll`), for any finite sets of heads and nodes.
- `ChainsRefine`: `Spec => ChainsRefineLists`; each call does to the sequences what its comment says.

The assumption is that of the rings. The invariant `IInv` again says that there are sequences, one per head. `Chains` is what the fields
of the nodes are when they stand for the sequences `L`; nodes in no list hold one of the three pairs of
values a deletion, an initialisation or `hlist_add_fake` leaves (`Free`), without which
`hlist_unhashed` could lie. `LinkKeeps`, `UnlinkKeeps`, `OutsideKeeps` and `GivenKeeps` say
what a change of the fields means for the sequences; one lemma per function of the header shows that its assignments are such
a change. `LoopOK` is what a loop knows: everything it has to meet is at or behind the node the body leaves alone, in
the same list. That holds through `hlist_move_list` too, which moves the whole list under the loop.

### The list demo (`PartsProofs`)

- `SetFirstIsNeverSeen`: `PartsSpec => []SetFirstIsInvisible`, for any number of entries and any index at
  which `test_set_first` acts. Assumed (`DemoAssumption`) is that the wild address is none of the entries'.

`DemoInv` says that the structs made so far are the head and a list of the others, the newest first (`Built`),
that the lines printed are those of the entries passed (`Lines`), and that `test_set_first` has counted them. A call of
`list_add` extends `Built` by one (`NodeAdded`); what `test_set_first` writes is a field of the head, of which no
line depends (`LinesKept`).

### Names (`PartsProofs`)

For any size of the buffer, any limits with `MAX_DNS_PKT_LEN` no greater than `MAX_DNAME_LEN` and both with a label more inside the
buffer, any packets, and names of any length that fit (`NamesAssumption` of `Dname`, part of the `PartsAssumption` that the run `parts` evaluates), of every behaviour of `PartsSpec`:

- `NamesAreInFront` (`NameIsInFront`), `LengthsAreRight` (`MeasuresTheName`), `SuffixesAreFound` (`SegsAreSuffixes`).

The invariant `NamesInv` says that the buffer is the last name translated over bytes of whatever kind, over zeros when it was
fresh. `StartsUnique`: walking from the front, length by length, labels start at one set of places only, so that it is enough to
exhibit one; for a translated name it is the places of its dots (`LabelsWritten`). The loops of `get_dname_len` and
`test_seg` are recursive functions of the position in the buffer; that they are defined at all is by induction on
the distance to the limit, as they go forward (`MeasureExists`, `SegLoopExists`), and so is what they compute.
`LoopFindsNames`: where the loop ends without refusing, a name ends. `LoopMeasures`: begun at a label of a name within the packet, it ends where that
name does, having seen its characters from there on. As a buffer has one name in front at most (`OneName`), the two give the answer.
For `test_seg`, `StrlenIsEnd` says that no byte of a name is a zero, `SuffixIsName` that cutting a
name at a label leaves a name, and `SegsCount` that from the k-th segment on there are as many labels as segments.

### Addresses (`PartsProofs`)

For any callers' rules and buffer sizes (`AddressAssumption` of `IpAddr`), of every behaviour of `PartsSpec`:

- `PrefixIsKept` (`MaskKeepsThePrefix`), `TextsDenote` (`TextDenotesTheAddress`), `RefusedIsTooLong`
  (`RefusesOnlyTheTooLong`).

Assumed is that rules are addresses with a mask no longer than they are, and that what is kept of a byte in which a
prefix ends is its first bits; the latter is arithmetic of `&`, `~` and `>>` on 256 bytes, of which the run `parts` evaluates
every case.

The invariant `AddrInv` is short: from the recalculation on the address is the prefix of what came in, and once
printed the buffer is what the function of its family makes of it. The rest is what those functions return.

*Prefixes.* `KeptIsByte` and a few facts on division say which bit of a byte is which of the address
(`MaskKept`).

*The longest run of zeros.* The scan is a recursive function, shown to exist over the nine positions (`ScanExists`), and has an
invariant of its own, by induction on the words (`ScanGoes`): the current run is the zeros that end here and nothing less
(`Current`), and the best one is the first of the longest runs among the words before it (`Covers`). At the end, with the
current run taken into account, the best one is the first of the longest of all (`BestRunIs`).

*IPv6 text.* What the writing loop makes from a word on has a closed form (`Rest6`, `Whole`), which does
what a round of the loop does (`RoundsClosed`) and is therefore what the loop makes (`GroupsAre`). Of it one can read off that the text is
the groups in front of the run, `::`, and the groups behind it, which is what `Short` puts together (`LoopWritesShort`,
`TextReadsBack`), or all groups when there is no run (`LoopWritesPlain`). `strlen` is a recursive function too: it adds up (`CharsConcat`) and is at most four for each element
(`CharsBounded`), so that 46 bytes hold any text. `SixIs` says what is
refused: an address that embeds an IPv4 one (`MappedIs`), or a text longer than the buffer; as an address has one text only
(`SixTexts` is a singleton), that text did not fit.

*IPv4 text.* A byte is written as one to three digits without a zero in front that read as it (`ReadsAs`,
`DecimalIs`); a text of four such fields and three dots has its dots nowhere else (`Fields`), so that splitting it at the dots
gives back the bytes (`FieldsAreNumbers`).

### MQTT scripts (`MqttProofs`)

For any number of files, messages and lost connections:

- `DisconnectIsFinal`: `Spec => SilentAfterDisconnect`. From `LoopEndsWithConnection`: once
  `disconnect()` was called the script is past its only call
  that connects, and the library's loop does not outlive the connection; so without a
  connection nobody makes one, and the broker takes messages from a connection only.
- `NoAnswerAfterALoss`: `Spec => DeafAfterALoss`. Behind a loss the broker does not know the
  subscription, no SUBSCRIBE and no answer is under way, and the script is past the call that subscribes.
- `ArrivalIsInOrder`: `Spec => []ArriveInOrder`. In front of every message on the wire, and of the next one to be
  published, is each earlier one that has not arrived (`WireInOrder`); what the library no longer keeps has arrived
  (`KeptOrArrived`), because only what has arrived is acknowledged, so sending again all it keeps (`Resent`, a set in
  ascending order) misses none.

### Only model-checked

- The liveness of `MqttClient` (`PublishedArrives`, `AnswersAreHeard`): no backend here reasons about fairness.
- The five disagreements of section 5, which are counterexamples and need no proof.

## 5. Where code and documentation disagree

1. `lpm_order`: the comment at `util_lpm.c:299` promises larger masks behind;
   the loop stops at the first smaller mask, so 0, 1 and then 2 give 0, 2, 1.
2. `lpm_longest`: results are collected from the shortest mask on and cut at
   `UTIL_LPM_MAX_MATCH`, so the longest match is the first to be lost.
3. `lpm_returned`: a failure below the first level is not reported.
4. `hash_remove`: a bucket's only entry is removed without comparing.
5. `address_text`: the comment at `util_lpm.c:69-77` calls 46 bytes "always a safe value", for texts with an embedded
   IPv4 address too; `inet_ntop6` takes the 0 of `inet_ntop4`, which is its success, for a failure (line 160) and refuses
   those addresses whatever the buffer. `RefusesOnlyTheTooLong` says that this is the one exception.

One more needs no run to be seen: `UTIL_MEMCMP` is `memcpy` (`util_public.h:85`), so with the default compare a lookup never
finds what was added, which the test at `util_hash.c:375-377` expects, and overwrites what it is compared with. The models
have this compare; `BucketHome` and `ChainsPartitionTheList` say what it leaves intact.

Two more things the models show are stated as properties that hold, since nothing in the
repository says otherwise: what `test_set_first`
sets is never read (`SetFirstIsInvisible`: it is the head's field, and the walk reads the entries'),
and no answer is heard after the first lost connection (`DeafAfterALoss`).

## 6. Not modelled, and limits

- Masks longer than the address, hashes outside the array in calls that do not
  check (`HashTableRemove`, all of the list variant): undefined behaviour the
  callers must avoid; the hazard list names the lines.
- The node and the datum of a bucket are one in `HashListTable`; a loop at a
  bucket that is removed is the caller's error.
- Joining a list to itself, entries in two lists, use of a spliced head before
  it is initialised: against the header's comments.
- Domain names with empty labels or labels over the limit, given to `trans_to_dname_format`:
  it writes what it is given, and the properties about its result are of well-formed names.
- `hexdump`, the log's wording, reading JSON files, keep-alive and passwords: layout and I/O.
- A caller that adds an object to a hash table twice: an object is added again only once it was released.
- `dns_lpm_table_match` appends to the caller's `out`, which is taken as cleared, as the tests do (`test_lpm.c:82`).
- That the library sends again on a new connection, and that `disconnect()` ends a reconnection in progress, are taken from its
  contract, each as one step. Order is shown of first arrivals at the broker; what the device does with duplicates is not modelled.
- What the demo does after it has read an uninitialised pointer: the crash is an action, and no property speaks of it.
- A second interrupt, or one that comes while the handler of the first runs.
- Anything under fairness is outside the prover's reach and left to TLC. Induction over a recursive
  definition has no theorem of the library to rest on; where it is needed the proofs use
  `InductionOverPositions`, which has a set in the place of the predicate.

## 7. Plan

All the modules of section 2, the runs of section 3 and the theorems of section 4 are there. What is left open:

- the three hazards without a property: the unchecked allocations of the table's first arrays, masks longer than the
  address, and `HashTableRemove` with a hash outside the array. Each is undefined behaviour at once: the model ends
  there (`ArrayCrashes`, `TableCreateCrashes`) or leaves the input out;
- the liveness of the scripts, which is checked and not proved.
