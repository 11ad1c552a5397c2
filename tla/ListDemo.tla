------------------------------ MODULE ListDemo ------------------------------
(***************************************************************************)
(* The demo of src/main.c: test_list_add of src/test.c builds a list of    *)
(* rr_list_t structs, walks it, has test_set_first remember its first      *)
(* entry, and walks it again.  A struct is named by the order in which     *)
(* malloc gave it out: the head is 0.  malloc may fail at any call, and a  *)
(* field that nobody sets holds whatever was in the memory.                *)
(***************************************************************************)
EXTENDS OldList, Integers, Sequences

CONSTANTS Num,    \* how many entries test_list_add makes
          Index,  \* the entry at which test_set_first acts
          WILD    \* an address of no struct, and what is read there

Structs == 0..Num

\* Assumed where these constants get their values.
DemoAssumption == Num \in Nat /\ Index \in Nat /\ WILD \notin Structs

VARIABLES mem,      \* the fields of the structs
          made,     \* how many structs malloc has given out
          pc, pos,  \* where the program is, and the entry its loop is at
          count,    \* the i of test_set_first
          printed,  \* the lines of the walk
          earlier   \* history: the lines of the walk before

vars == <<mem, made, pc, pos, count, printed, earlier>>

Fields == {"next", "prev", "fir", "cur_weight"}

Init ==
  /\ mem = [f \in Fields |-> [c \in Structs |-> WILD]]
  /\ made = 0
  /\ pc = "head" /\ pos = 0 /\ count = 0
  /\ printed = <<>> /\ earlier = <<>>

\* The next struct, its `fir` being anything.
Malloc(junk) == [mem EXCEPT !.fir[made] = junk]
Junk         == {NULL, WILD, 0}   \* the head stands for any struct

AllocHead ==
  /\ pc = "head"
  /\ \E junk \in Junk : mem' = INIT_LIST_HEAD(Malloc(junk), 0)
  /\ made' = 1 /\ pc' = "add"
  /\ UNCHANGED <<pos, count, printed, earlier>>

AllocNode ==
  /\ pc = "add" /\ made <= Num
  /\ \E junk \in Junk :
       mem' = list_add([Malloc(junk) EXCEPT !.cur_weight[made] = made], made, 0)
  /\ made' = made + 1
  /\ UNCHANGED <<pc, pos, count, printed, earlier>>

\* test_list_add returns -1.
AllocFails ==
  /\ pc \in {"head", "add"} /\ made <= Num
  /\ pc' = "failed"
  /\ UNCHANGED <<mem, made, pos, count, printed, earlier>>

\* list_for_each_entry(rr_list, &rr_head->lnode, lnode)
Begin(from, to) ==
  /\ pc = from
  /\ pc' = to
  /\ pos' = mem.next[0]
  /\ count' = 0
  /\ printed' = <<>>

BeginWalk ==
  /\ made = Num + 1 /\ Begin("add", "walk")
  /\ UNCHANGED <<mem, made, earlier>>

BeginSetFirst ==
  /\ pos = 0 /\ Begin("walk", "set_first")
  /\ earlier' = printed
  /\ UNCHANGED <<mem, made>>

BeginWalkAgain ==
  /\ pos = 0 /\ Begin("set_first", "walk_again")
  /\ UNCHANGED <<mem, made, earlier>>

Line(c) == IF c = WILD THEN WILD ELSE mem.cur_weight[c]

\* test_list_for_each at an entry.
ForEach ==
  /\ pc \in {"walk", "walk_again"} /\ pos # 0
  /\ printed' = Append(printed, <<Line(pos)>> \o
                  IF mem.fir[pos] = NULL THEN <<>> ELSE <<Line(mem.fir[pos])>>)
  /\ pos' = mem.next[pos]
  /\ UNCHANGED <<mem, made, pc, count, earlier>>

\* There need not be any memory at the address in fir.
ForEachCrashes ==
  /\ pc \in {"walk", "walk_again"} /\ pos # 0
  /\ mem.fir[pos] = WILD
  /\ pc' = "crashed"
  /\ UNCHANGED <<mem, made, pos, count, printed, earlier>>

\* A definition named Mut... is a faulty form of one that follows it, for the
\* sensitivity runs of PROJECT.json; nothing else uses it.
MutMarksEntry == pos
Marked        == 0

\* test_set_first at an entry: &rr_head->fir is what it sets.
SetFirst ==
  /\ pc = "set_first" /\ pos # 0
  /\ mem' = IF count = Index THEN [mem EXCEPT !.fir[Marked] = list_first_entry(mem, 0)] ELSE mem
  /\ count' = count + 1
  /\ pos' = mem.next[pos]
  /\ UNCHANGED <<made, pc, printed, earlier>>

Ended == pc \in {"failed", "crashed"} \/ (pc = "walk_again" /\ pos = 0)
Exit  == Ended /\ UNCHANGED vars

Next ==
  \/ AllocHead \/ AllocNode \/ AllocFails
  \/ BeginWalk \/ BeginSetFirst \/ BeginWalkAgain
  \/ ForEach \/ ForEachCrashes \/ SetFirst
  \/ Exit

Spec == Init /\ [][Next]_vars

-----------------------------------------------------------------------------
\* test_set_first does set `first`, to the newest entry, and it is nowhere to be seen: the
\* second walk prints what the first one did, every entry, newest first, whatever the
\* unset fields hold, so no reader of the output can tell that it was set.
SetFirstIsInvisible ==
  pc = "walk_again" =>
    /\ Index < Num => mem.fir[0] = Num
    /\ \E n \in 0..Len(earlier) : printed = SubSeq(earlier, 1, n)
    /\ [n \in 1..Len(earlier) |-> earlier[n][1]] = [n \in 1..Num |-> Num + 1 - n]
=============================================================================
