------------------------------- MODULE IpAddr -------------------------------
(***************************************************************************)
(* The addresses of public/util_lpm.c, byte by byte: what a mask keeps of  *)
(* one (ipv4_addr_prefix, ipv6_addr_prefix), and how one is written for    *)
(* the log (inet_ntop4, inet_ntop6).  A text is a sequence of characters,  *)
(* where a group of hex digits is one element and knows how long it is.    *)
(* A rule's address is recalculated first and printed then.                *)
(***************************************************************************)
EXTENDS Integers, Sequences

CONSTANTS Kept6(_, _), Kept4(_, _),  \* what is kept of a byte: IpBits
          Rules,   \* the [is_ipv6, addr, mask] that come in
          Sizes    \* sizes of the buffers given for a text

Bytes    == 0..255
Worth    == <<128, 64, 32, 16, 8, 4, 2, 1>>  \* of the bits of a byte
Family   == [is_ipv6 : {FALSE}, addr : [1..4 -> Bytes], mask : 0..32]
              \cup [is_ipv6 : {TRUE}, addr : [1..16 -> Bytes], mask : 0..128]

\* Assumed where these constants get their values: the callers' rules are addresses, with
\* a mask no longer than they are.  Of a byte the first b bits are kept, the others are zeros.
AddressAssumption ==
  /\ Rules \subseteq Family /\ Sizes \subseteq Nat
  /\ \A byte \in Bytes, b \in 1..7 :
       Kept6(byte, b) = byte - (byte % Worth[b]) /\ Kept4(byte, b) = byte - (byte % Worth[b])

VARIABLES ip,      \* the rule
          given,   \* history: its address as it came
          stage,   \* "given", "recalculated", or "printed"
          ret,     \* what inet_ntop4 or inet_ntop6 returned
          size,    \* the size of the buffer it had
          dst      \* the text in the buffer, zeroed before

vars == <<ip, given, stage, ret, size, dst>>

-----------------------------------------------------------------------------
\* A definition named Mut... is a faulty form of one that follows it, for the
\* sensitivity runs of PROJECT.json; nothing else uses it.
MutWholeBytes(is_ipv6, addr, plen) ==
  [k \in DOMAIN addr |-> IF 8 * (k - 1) < plen THEN addr[k] ELSE 0]

addr_prefix(is_ipv6, addr, plen) ==
  LET o == plen \div 8
      b == plen % 8
  IN  [k \in DOMAIN addr |->
         IF k <= o THEN addr[k]
         ELSE IF k = o + 1 /\ b # 0
              THEN IF is_ipv6 THEN Kept6(addr[k], b) ELSE Kept4(addr[k], b)
         ELSE 0]

-----------------------------------------------------------------------------
Colon  == <<":", 0>>
Dot    == <<".", 0>>
Hex(w) == <<"%x", w>>
Dec(d) == <<"0-9", d>>

\* How many characters an element of a text is, and strlen.
Width(c) == IF c[1] # "%x" \/ c[2] < 16 THEN 1
            ELSE IF c[2] < 256 THEN 2 ELSE IF c[2] < 4096 THEN 3 ELSE 4
Chars(text) ==
  LET upto[k \in 0..Len(text)] == IF k = 0 THEN 0 ELSE upto[k - 1] + Width(text[k])
  IN  upto[Len(text)]

MIN_SIZE == 16

Decimal(u) ==
  (IF u > 99 THEN <<Dec(u \div 100)>> ELSE <<>>)
    \o (IF u > 9 THEN <<Dec((u % 100) \div 10)>> ELSE <<>>) \o <<Dec(u % 10)>>

Failed     == [ret |-> -1, dst |-> <<>>]
Done(text) == [ret |-> 0, dst |-> text]

\* The dot behind the last number is overwritten by the terminating zero.
inet_ntop4(src, n) ==
  IF n < MIN_SIZE THEN Failed
  ELSE Done(Append(Decimal(src[1]), Dot) \o Append(Decimal(src[2]), Dot)
              \o Append(Decimal(src[3]), Dot) \o Decimal(src[4]))

-----------------------------------------------------------------------------
WCOUNT  == 8
TmpSize == 46   \* tmp[sizeof "ffff:ffff:ffff:ffff:ffff:ffff:255.255.255.255"]

None == [base |-> -1, len |-> 0]

Words(src) == [i \in 0..(WCOUNT - 1) |-> src[2 * i + 1] * 256 + src[2 * i + 2]]

MutLastRun(best, cur) == IF cur.base # -1 /\ cur.len >= best.len THEN cur ELSE best
Longer(best, cur) ==
  IF cur.base # -1 /\ (best.base = -1 \/ cur.len > best.len) THEN cur ELSE best

\* The scan for the longest run of zero words: best and cur behind the word i.
BestRun(words) ==
  LET scan[i \in 0..WCOUNT] ==
        IF i = 0 THEN [best |-> None, cur |-> None]
        ELSE LET r == scan[i - 1] IN
             IF words[i - 1] = 0
             THEN [r EXCEPT !.cur = IF @.base = -1 THEN [base |-> i - 1, len |-> 1]
                                    ELSE [base |-> @.base, len |-> @.len + 1]]
             ELSE [best |-> Longer(r.best, r.cur), cur |-> [r.cur EXCEPT !.base = -1]]
      best == Longer(scan[WCOUNT].best, scan[WCOUNT].cur)
  IN  IF best.len < 2 THEN None ELSE best

MutAnyMapped(best, words) == best.base = 0 /\ best.len \in {5, 6}
\* The address is an encapsulated IPv4 one, which the loop finds at the word 6.
Encapsulated(best, words) ==
  /\ best.base = 0
  /\ best.len = 6 \/ (best.len = 5 /\ words[5] = 65535)

\* What the loop writes for the words before upto; from[i] is what it writes from i on.
Groups(best, words, upto) ==
  LET from[i \in 0..upto] ==
        IF i = upto THEN <<>>
        ELSE IF i = best.base THEN <<Colon>> \o from[i + best.len]
        ELSE (IF i # 0 THEN <<Colon>> ELSE <<>>) \o <<Hex(words[i])>> \o from[i + 1]
  IN  from[0]

\* An encapsulated address goes behind the text of the first six words and a colon,
\* with room for it always; that inet_ntop4 answers 0 is taken for its failure.
inet_ntop6(src, n) ==
  LET words == Words(src)
      best  == BestRun(words)
      room  == TmpSize - (Chars(Groups(best, words, 6)) + 1)
      text  == Groups(best, words, WCOUNT)
                 \o IF best.base # -1 /\ best.base + best.len = WCOUNT
                    THEN <<Colon>> ELSE <<>>
  IN  IF Encapsulated(best, words) /\ inet_ntop4(SubSeq(src, 13, 16), room).ret = 0
      THEN Failed
      ELSE IF Chars(text) + 1 > n THEN Failed ELSE Done(text)

-----------------------------------------------------------------------------
Init ==
  /\ ip \in Rules
  /\ given = ip.addr
  /\ stage = "given"
  /\ ret = 0 /\ size = 0 /\ dst = <<>>

ipaddr_prefix_recalc ==
  /\ stage = "given"
  /\ ip' = [ip EXCEPT !.addr = addr_prefix(ip.is_ipv6, @, ip.mask)]
  /\ stage' = "recalculated"
  /\ UNCHANGED <<given, ret, size, dst>>

\* dns_lpm_policy_print has a buffer of 64 bytes and logs it whatever the answer is.
inet_ntop(n) ==
  /\ stage # "given"
  /\ LET r == IF ip.is_ipv6 THEN inet_ntop6(ip.addr, n) ELSE inet_ntop4(ip.addr, n)
     IN  ret' = r.ret /\ dst' = r.dst
  /\ size' = n
  /\ stage' = "printed"
  /\ UNCHANGED <<ip, given>>

Next ==
  \/ ipaddr_prefix_recalc
  \/ \E n \in Sizes : inet_ntop(n)

Spec == Init /\ [][Next]_vars

-----------------------------------------------------------------------------
Bit(addr, k) == (addr[k \div 8 + 1] \div Worth[(k % 8) + 1]) % 2

\* Recalculated, an address has the bits it came with in front of its mask and no
\* bit behind it, on and off the byte boundaries, for the whole address and for none.
MaskKeepsThePrefix ==
  stage # "given" =>
    \A k \in 0..(8 * Len(given) - 1) :
      Bit(ip.addr, k) = IF k < ip.mask THEN Bit(given, k) ELSE 0

\* The text of the words s without any short form.
Plain(s) ==
  [k \in 1..(2 * Len(s) - 1) |-> IF k % 2 = 1 THEN Hex(s[(k + 1) \div 2]) ELSE Colon]

\* The readings of the text "a:..::b:..", where the colons stand for the zero words
\* a to b - 1.
Zeros(w, a, b) == a < b /\ \A k \in a..(b - 1) : w[k] = 0
Short(w, a, b) ==
  Plain([k \in 1..a |-> w[k - 1]]) \o <<Colon, Colon>>
    \o Plain([k \in 1..(WCOUNT - b) |-> w[b + k - 1]])

\* Of the runs of two zero words or more, first word and end, the first of the longest.
ZeroRuns(w) == {r \in (0..7) \X (0..8) : r[2] - r[1] >= 2 /\ Zeros(w, r[1], r[2])}
FirstLongest(w, r) ==
  \A q \in ZeroRuns(w) : \/ q[2] - q[1] < r[2] - r[1]
                         \/ (q[2] - q[1] = r[2] - r[1] /\ r[1] <= q[1])

\* The texts an address of the words w may have.
SixTexts(w) ==
  IF ZeroRuns(w) = {} THEN {Plain([k \in 1..WCOUNT |-> w[k - 1]])}
  ELSE {Short(w, r[1], r[2]) : r \in {q \in ZeroRuns(w) : FirstLongest(w, q)}}

\* The words are an IPv4 address, mapped or compatible.
EmbedsIPv4(w) == /\ \A k \in 0..4 : w[k] = 0
                 /\ w[5] = 65535 \/ (w[5] = 0 /\ w[6] # 0)

Number(digits) ==
  LET n[k \in 0..Len(digits)] == IF k = 0 THEN 0 ELSE 10 * n[k - 1] + digits[k][2]
  IN  n[Len(digits)]

\* What is printed denotes the address, and no other: an IPv6 text is its groups, with
\* "::" once at most, for the first of the longest runs of two zero words or more; an
\* IPv4 text is four numbers without leading zeros.  The text and its terminating
\* zero have room in the buffer.
TextDenotesTheAddress ==
  stage = "printed" /\ ret = 0 =>
    /\ Chars(dst) + 1 <= size
    /\ ip.is_ipv6 => dst \in SixTexts(Words(ip.addr))
    /\ ~ip.is_ipv6 =>
         LET dots == {k \in 1..Len(dst) : dst[k] = Dot}
         IN  \E a, b, c \in dots :
               LET cut  == <<0, a, b, c, Len(dst) + 1>>
                   f(k) == SubSeq(dst, cut[k] + 1, cut[k + 1] - 1)
               IN  /\ dots = {a, b, c} /\ a < b /\ b < c
                   /\ \A k \in 1..4 : /\ Len(f(k)) = 1 \/ f(k)[1] # Dec(0)
                                      /\ Number(f(k)) = ip.addr[k]

\* Only a buffer that is too small is refused: for an IPv4 address one of less than
\* MIN_SIZE bytes, for an IPv6 address one that its text and a zero do not fit in.  Of the
\* addresses that embed an IPv4 one EveryAddressHasAText speaks.
RefusesOnlyTheTooLong ==
  stage = "printed" /\ ret = -1 =>
    IF ip.is_ipv6
    THEN LET w == Words(ip.addr)
         IN  EmbedsIPv4(w) \/ \A text \in SixTexts(w) : Chars(text) + 1 > size
    ELSE size < MIN_SIZE

\* util_lpm.c:69-77: "the max dst size 46 is always a safe value", the largest text being
\* one with an embedded IPv4 address: no address is refused a buffer of 46 bytes.
EveryAddressHasAText == stage = "printed" /\ size >= TmpSize => ret = 0
=============================================================================
