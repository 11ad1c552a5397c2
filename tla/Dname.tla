------------------------------- MODULE Dname -------------------------------
(***************************************************************************)
(* The domain-name functions of src/test.c.  A buffer holds bytes: the     *)
(* wire form of a name is labels, each behind its length, and a zero.      *)
(* trans_to_dname_format writes it, get_dname_len measures it in a packet, *)
(* test_seg takes it apart.  The first only changes the buffer; the others *)
(* are operators on its contents.                                          *)
(*                                                                         *)
(* A byte is a small number; the constants say which are characters.  A    *)
(* byte can be both a length and a character, as in the code.              *)
(***************************************************************************)
EXTENDS Integers, Sequences, FiniteSetsExt

CONSTANTS Dash, Slash, Letter,  \* '-', '/' or ':', any other valid character
          MaxLabel,             \* 63
          MAX_DNAME_LEN, MAX_DNS_PKT_LEN,
          BufLen,               \* the size of the buffer
          Packets,              \* buffers that come in from outside
          DOT, Names            \* dotted names, sequences of bytes and DOT

Valid == {Dash, Slash, Letter}

\* Assumed where these constants get their values: the buffer holds all that is read
\* and written, bytes are numbers, and no valid one is a zero or the dot.
NamesAssumption ==
  /\ MaxLabel \in Nat /\ BufLen \in Nat /\ MAX_DNAME_LEN \in Nat /\ MAX_DNS_PKT_LEN \in Nat
  /\ MAX_DNS_PKT_LEN <= MAX_DNAME_LEN /\ MAX_DNAME_LEN + MaxLabel <= BufLen
  /\ Valid \subseteq Nat \ {0} /\ DOT \notin Valid
  /\ Packets \subseteq [0..(BufLen - 1) -> Nat]
  /\ \A src \in Names : src \in Seq(Valid \cup {DOT}) /\ Len(src) + 1 < BufLen

VARIABLES buf,    \* the buffer
          name,   \* history: the name last translated, <<>> if none
          fresh   \* history: it was written to a cleared buffer

vars == <<buf, name, fresh>>

-----------------------------------------------------------------------------
\* A definition named Mut... is a faulty form of one that follows it, for the
\* sensitivity runs of PROJECT.json; nothing else uses it.
MutStaysInside(i, pkt_len) == i <= pkt_len
InPacket(i, pkt_len)       == i < pkt_len

\* The loop of get_dname_len: where it stops, whether it refuses, and whether it met a
\* character of a URL.  A label's bytes are looked at before it is known whether the
\* packet has them.
get_dname_len(dname, pkt_len, enable_url_dname_filter) ==
  LET Chars(i) == {dname[j] : j \in (i + 1)..(i + dname[i])}
      walk[i \in Nat] ==
        LET url_flag == Slash \in Chars(i)
            rest     == walk[i + dname[i] + 1]
        IN  IF i >= MAX_DNAME_LEN THEN [i |-> i, url |-> FALSE, bad |-> FALSE]
            ELSE IF ~InPacket(i, pkt_len) \/ dname[i] > MaxLabel
                 THEN [i |-> i, url |-> FALSE, bad |-> TRUE]
            ELSE IF dname[i] = 0 THEN [i |-> i, url |-> FALSE, bad |-> FALSE]
            ELSE IF ~(Chars(i) \subseteq Valid) \/ (url_flag /\ enable_url_dname_filter)
                    \/ dname[1] = Dash
                 THEN [i |-> i, url |-> FALSE, bad |-> TRUE]
            ELSE [rest EXCEPT !.url = @ \/ url_flag]
      end == walk[0]
  IN  IF end.bad \/ end.i >= MAX_DNS_PKT_LEN THEN -1
      ELSE IF end.url THEN -2 ELSE end.i

-----------------------------------------------------------------------------
Dots(src) == {k \in 1..Len(src) : src[k] = DOT}

\* Where the labels of a dotted name begin, and how long they are: a label's length
\* goes where the dot before it is, and none is written behind a last dot.
MutCountsDot(src, d)  == Min({e \in Dots(src) \cup {Len(src) + 1} : e > d}) - d
LabelLen(src, d)      == Min({e \in Dots(src) \cup {Len(src) + 1} : e > d}) - d - 1
LengthAt(src)         == {0} \cup (Dots(src) \ {Len(src)})

\* trans_to_dname_format; no terminating zero is written.
Translated(dst, src) ==
  [k \in DOMAIN dst |->
     IF k \in LengthAt(src) THEN LabelLen(src, k)
     ELSE IF k \in 1..Len(src) /\ src[k] # DOT THEN src[k]
     ELSE dst[k]]

-----------------------------------------------------------------------------
strlen(dname) == Min({k \in 0..BufLen : k = BufLen \/ dname[k] = 0})

MutForgetsLength(dname, i) == i + dname[i]
NextLabel(dname, i)        == i + dname[i] + 1

\* test_seg: the offset and the length of every suffix of the name.
Segs(dname) ==
  LET from[i \in Nat] ==
        IF i >= strlen(dname) THEN <<>>
        ELSE <<[offset |-> i, len |-> strlen(dname) - i]>> \o from[NextLabel(dname, i)]
  IN  from[0]

ZoneEntries == 4

\* The zone each suffix is looked up in.
Zones(dname) ==
  LET num == Len(Segs(dname))
  IN  IF num > MAX_DNAME_LEN THEN {}
      ELSE {[zoneid |-> ZoneEntries - i, segid |-> num - i] :
              i \in 1..(Min({ZoneEntries, num}) - 1)}

-----------------------------------------------------------------------------
Cleared == [k \in 0..(BufLen - 1) |-> 0]

\* A packet from outside, or `char d2[1000] = {}` of main.
Init ==
  /\ buf \in Packets \cup {Cleared}
  /\ name = <<>>
  /\ fresh = (buf = Cleared)

Clear == buf' = Cleared /\ name' = <<>> /\ fresh' = TRUE

trans_to_dname_format(src) ==
  /\ fresh   \* a buffer is reused once
  /\ buf' = Translated(buf, src)
  /\ name' = src
  /\ fresh' = (name = <<>>)

Next ==
  \/ Clear
  \/ \E src \in Names : trans_to_dname_format(src)

Spec == Init /\ [][Next]_vars

-----------------------------------------------------------------------------
\* The offsets at which the labels of the name begin that ends with the zero at n.
Starts(d, n) ==
  {s \in SUBSET (0..n) :
     /\ {0, n} \subseteq s
     /\ \A i \in s \ {n} :
          /\ d[i] \in 1..MaxLabel
          /\ i + d[i] + 1 \in s
          /\ \A j \in (i + 1)..(i + d[i]) : j \notin s /\ d[j] \in Valid}
IsName(d, n) == d[n] = 0 /\ Starts(d, n) # {}

Shown(d, n) == {d[j] : j \in (0..n) \ UNION Starts(d, n)}

\* get_dname_len answers the length of the name in front of the packet, whatever the
\* bytes behind the packet are, though it looks at them: with no name there that ends
\* within the packet and the limit it answers -1, with a URL in it -2 or -1.  A dash
\* is refused in front of the first label only.
MeasuresTheName ==
  LET names == {n \in 0..(MAX_DNS_PKT_LEN - 1) : IsName(buf, n)} IN
  \A pkt_len \in 0..BufLen, filter \in BOOLEAN :
    get_dname_len(buf, pkt_len, filter) =
      IF \/ \A n \in names : n >= pkt_len
         \/ buf[0] # 0 /\ buf[1] = Dash
      THEN -1
      ELSE LET n == CHOOSE n \in names : TRUE IN
           IF Slash \notin Shown(buf, n) THEN n ELSE IF filter THEN -1 ELSE -2

\* The name's labels as trans_to_dname_format has them: none empty, none too long.
WellFormed(src) ==
  /\ src # <<>>
  /\ \A d \in LengthAt(src) : \E k \in 1..MaxLabel :
       /\ d + k + 1 \in Dots(src) \cup {Len(src) + 1}
       /\ Dots(src) \cap (d + 1)..(d + k) = {}
WireLen(src)    == IF src[Len(src)] = DOT THEN Len(src) ELSE Len(src) + 1

\* Whatever the buffer held, a translated name has its labels in front of it, and on
\* a cleared buffer the zero that ends them, which nobody writes.
NameIsInFront ==
  WellFormed(name) =>
    LET n == WireLen(name) IN
    /\ IsName([buf EXCEPT ![n] = 0], n)
    /\ Starts(buf, n) = {LengthAt(name) \cup {n}}
    /\ fresh => buf[n] = 0

\* What test_seg finds in a translated name are its suffixes, one per label: each is
\* itself a name of the length test_seg says.
SegsAreSuffixes ==
  WellFormed(name) /\ fresh =>
    LET segs     == Segs(buf)
        behind(o) == [k \in 0..(BufLen - 1) |-> IF o + k < BufLen THEN buf[o + k] ELSE 0]
    IN  /\ {segs[k].offset : k \in 1..Len(segs)} = LengthAt(name)
        /\ \A k \in 1..Len(segs) : IsName(behind(segs[k].offset), segs[k].len)
        /\ \A z \in Zones(buf) :
             Cardinality({d \in LengthAt(name) : d >= segs[z.segid + 1].offset})
               = ZoneEntries - z.zoneid
=============================================================================
