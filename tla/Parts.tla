------------------------------- MODULE Parts -------------------------------
(***************************************************************************)
(* Four parts that do not meet, one of them in each behaviour: the chains  *)
(* (UtilHlist), the list demo of src/main.c (ListDemo), the wire form of   *)
(* domain names (Dname) and the text of addresses (IpAddr).                *)
(***************************************************************************)
EXTENDS UtilHlist

CONSTANTS Num, Index, WILD,                             \* ListDemo
          Dash, Slash, Letter, MaxLabel, MAX_DNAME_LEN,
          MAX_DNS_PKT_LEN, BufLen, Packets, DOT, Names, \* Dname
          Kept6(_, _), Kept4(_, _), Rules, Sizes        \* IpAddr

VARIABLES part,                                       \* which of the four runs
          mem, made, pc, pos, count, printed, earlier, \* ListDemo
          buf, name, fresh,                            \* Dname
          ip, given, stage, ret, size, dst             \* IpAddr

Demo  == INSTANCE ListDemo
Dname == INSTANCE Dname
Ip    == INSTANCE IpAddr

ASSUME PartsAssumption == Demo!DemoAssumption /\ Dname!NamesAssumption /\ Ip!AddressAssumption

demoVars == <<mem, made, pc, pos, count, printed, earlier>>
nameVars == <<buf, name, fresh>>
addrVars == <<ip, given, stage, ret, size, dst>>

\* What the parts that do not run are in.
NoRule    == [is_ipv6 |-> FALSE, addr |-> <<0, 0, 0, 0>>, mask |-> 0]
DemoRests == Demo!Init
NameRests == buf = Dname!Cleared /\ name = <<>> /\ fresh = TRUE
AddrRests == /\ ip = NoRule /\ given = NoRule.addr /\ stage = "none"
             /\ ret = 0 /\ size = 0 /\ dst = <<>>

PartsInit ==
  /\ Init
  /\ \/ part \in {"chains", "demo"} /\ DemoRests /\ NameRests /\ AddrRests
     \/ part = "names" /\ DemoRests /\ Dname!Init /\ AddrRests
     \/ part = "addresses" /\ DemoRests /\ NameRests /\ Ip!Init

PartsNext ==
  /\ UNCHANGED part
  /\ \/ part = "chains" /\ Next /\ UNCHANGED <<demoVars, nameVars, addrVars>>
     \/ part = "demo" /\ Demo!Next /\ UNCHANGED <<vars, nameVars, addrVars>>
     \/ part = "names" /\ Dname!Next /\ UNCHANGED <<vars, demoVars, addrVars>>
     \/ part = "addresses" /\ Ip!Next /\ UNCHANGED <<vars, demoVars, nameVars>>

PartsSpec == PartsInit /\ [][PartsNext]_<<part, vars, demoVars, nameVars, addrVars>>

-----------------------------------------------------------------------------
\* ListDemo: the list is complete and its head knows the first; nothing the demo prints tells that test_set_first has run.
SetFirstIsInvisible == part = "demo" => Demo!SetFirstIsInvisible

\* Dname: the parser answers the length of the name in front of the packet.
MeasuresTheName == part = "names" => Dname!MeasuresTheName

\* Dname: a translated name is in front of the buffer, whatever the buffer held.
NameIsInFront == part = "names" => Dname!NameIsInFront

\* Dname: the segments are the suffixes of the name that begin at its labels.
SegsAreSuffixes == part = "names" => Dname!SegsAreSuffixes

\* IpAddr: a recalculated address has its prefix, and zeros behind it.
MaskKeepsThePrefix == part = "addresses" => Ip!MaskKeepsThePrefix

\* IpAddr: a text denotes its address, in the form that the code promises.
TextDenotesTheAddress == part = "addresses" => Ip!TextDenotesTheAddress

\* IpAddr: an address is refused only when its text does not fit, embedded IPv4 ones apart.
RefusesOnlyTheTooLong == part = "addresses" => Ip!RefusesOnlyTheTooLong

\* IpAddr, util_lpm.c:69-77: a buffer of 46 bytes is enough for every address.
EveryAddressHasAText == part = "addresses" => Ip!EveryAddressHasAText
=============================================================================
