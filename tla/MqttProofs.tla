----------------------------- MODULE MqttProofs -----------------------------
(***************************************************************************)
(* For any number of files, messages and lost connections: what an         *)
(* interrupt leaves of the connection, in which order messages arrive, and *)
(* what is heard of the answers.                                           *)
(***************************************************************************)
EXTENDS MqttClient, SequenceLemmas

\* The library's loop does not outlive the connection once disconnect() was called, and
\* the script that calls it is past the call that connects.
LoopEndsWithConnection ==
  /\ interrupted \in BOOLEAN /\ looping \in BOOLEAN
  /\ leaving \in BOOLEAN /\ up \in BOOLEAN
  /\ leaving = interrupted
  /\ interrupted => pc \in {"publish", "sleep", "pause", "ended"}
  /\ leaving /\ ~up => ~looping

LEMMA InitHolds == Init => LoopEndsWithConnection
  BY DEF Init, LoopEndsWithConnection

LEMMA StepHolds == LoopEndsWithConnection /\ [Next]_vars => LoopEndsWithConnection'
<1> SUFFICES ASSUME LoopEndsWithConnection, [Next]_vars
             PROVE  LoopEndsWithConnection'
  OBVIOUS
<1> USE DEF LoopEndsWithConnection, library, net, history, script
<1>1. CASE Script
  <2>1. interrupted' = interrupted /\ leaving' = leaving
    BY <1>1 DEF Script, Connect, Subscribe, LoopStart, Publish, Slept, Paused
  <2>2. (looping' = looping /\ up' = up) \/ pc = "connect" \/ pc = "loop_start"
    BY <1>1 DEF Script, Connect, Subscribe, LoopStart, Publish, Slept, Paused
  <2>3. up' \in BOOLEAN /\ looping' \in BOOLEAN
    BY <1>1 DEF Script, Connect, Subscribe, LoopStart, Publish, Slept, Paused, LoopRuns
  <2>4. interrupted => pc' \in {"publish", "sleep", "pause", "ended"}
    BY <1>1 DEF Script, Connect, Subscribe, LoopStart, Publish, Slept, Paused, NextFile
  <2> QED
    BY <2>1, <2>2, <2>3, <2>4
<1>2. CASE Interrupt
  <2>1. leaving' = TRUE /\ looping' = (looping /\ up) /\ up' = up
    BY <1>2 DEF Interrupt, Disconnect
  <2>2. interrupted' = TRUE /\ pc' \in {"publish", "pause"}
    BY <1>2 DEF Interrupt, NextFile
  <2> QED
    BY <2>1, <2>2
<1>3. CASE Dies
  BY <1>3 DEF Dies
<1>4. CASE Idle
  BY <1>4 DEF Idle, vars
<1>5. CASE Network
  <2>1. interrupted' = interrupted /\ pc' = pc /\ leaving' = leaving /\ looping' = looping
    BY <1>5 DEF Network, Reconnect, Receive
  <2>2. up' = up \/ (~up /\ looping /\ up' = TRUE)
    BY <1>5 DEF Network, Reconnect, Receive
  <2> QED
    BY <2>1, <2>2
<1>6. CASE Lose
  <2>1. looping' = (looping /\ ~leaving) /\ leaving' = leaving
    BY <1>6 DEF Lose
  <2>2. interrupted' = interrupted /\ pc' = pc /\ up' = FALSE
    BY <1>6 DEF Lose, Closed
  <2> QED
    BY <2>1, <2>2
<1>7. CASE Broker
  <2>1. interrupted' = interrupted /\ pc' = pc /\ leaving' = leaving
    BY <1>7 DEF Broker, TakesSubscribe, TakesMessage, TakesDisconnect
  <2>2. CASE TakesSubscribe \/ TakesMessage
    BY <2>1, <2>2 DEF TakesSubscribe, TakesMessage
  <2>3. CASE TakesDisconnect
    <3>1. looping' = FALSE /\ up' = FALSE
      BY <2>3 DEF TakesDisconnect, Closed
    <3> QED
      BY <2>1, <3>1
  <2> QED
    BY <1>7, <2>2, <2>3 DEF Broker
<1>8. CASE Device
  BY <1>8 DEF Device, DeviceAnswers
<1>9. CASE UNCHANGED vars
  BY <1>9 DEF vars
<1> QED
  BY <1>1, <1>2, <1>3, <1>4, <1>5, <1>6, <1>7, <1>8, <1>9 DEF Next

\* A step after the disconnect neither connects again nor brings a message to the
\* broker: only the script's connect and the library's loop connect, and the broker
\* takes messages from a connection only.
LEMMA StepIsSilent ==
  LoopEndsWithConnection /\ [Next]_vars
    => [interrupted /\ ~up => up' = up /\ arrived' = arrived]_vars
<1> SUFFICES ASSUME LoopEndsWithConnection, [Next]_vars, interrupted, ~up
             PROVE  up' = up /\ arrived' = arrived
  BY DEF vars
<1> USE DEF LoopEndsWithConnection, library, net, history, script
<1>1. CASE Script
  BY <1>1 DEF Script, Connect, Subscribe, LoopStart, Publish, Slept, Paused
<1>2. CASE Interrupt \/ Dies \/ Idle
  BY <1>2 DEF Interrupt, Dies, Idle, vars
<1>3. CASE Network
  BY <1>3 DEF Network, Reconnect, Receive
<1>4. CASE Lose \/ Broker
  BY <1>4 DEF Lose, Broker, TakesSubscribe, TakesMessage, TakesDisconnect
<1>5. CASE Device
  BY <1>5 DEF Device, DeviceAnswers
<1>6. CASE UNCHANGED vars
  BY <1>6 DEF vars
<1> QED
  BY <1>1, <1>2, <1>3, <1>4, <1>5, <1>6 DEF Next

\* After an interrupt has disconnected the client nothing arrives any more, whatever
\* the script goes on publishing.
THEOREM DisconnectIsFinal == Spec => SilentAfterDisconnect
<1>1. Init => LoopEndsWithConnection
  BY InitHolds
<1>2. LoopEndsWithConnection /\ [Next]_vars => LoopEndsWithConnection'
  BY StepHolds
<1>3. LoopEndsWithConnection /\ [Next]_vars
        => [interrupted /\ ~up => up' = up /\ arrived' = arrived]_vars
  BY StepIsSilent
<1> QED
  BY <1>1, <1>2, <1>3, PTL DEF Spec, SilentAfterDisconnect

-----------------------------------------------------------------------------
(***************************************************************************)
(* The order of arrival.                                                   *)
(***************************************************************************)

\* What can be under way when n messages are published.
ToBroker(n) == {SUBSCRIBE, DISCONNECT} \cup {PUBLISH(m) : m \in 1..n}
ToClient(n) == {PUBACK(m) : m \in 1..n} \cup {Answer(m) : m \in 1..n}

\* Where the script is bounds what the library can do; a packet is on a connection.
Phases ==
  /\ pc = "connect" => ~up /\ sent = 0
  /\ pc \in {"connect", "subscribe", "loop_start"} => ~looping
  /\ pc = "ended" => ~up /\ ~looping
  /\ ~up => wire = <<>>

\* What the library no longer keeps has arrived.
KeptOrArrived == pc # "ended" => 1..sent \subseteq out \cup arrived

\* In front of a message on the wire, and of the next one to be published, are all the
\* earlier ones that have not arrived yet.
WireInOrder ==
  /\ \A i \in 1..Len(wire), m \in 1..sent :
       wire[i] = PUBLISH(m) =>
         \A n \in 1..(m - 1) : n \in arrived \/ \E j \in 1..(i - 1) : wire[j] = PUBLISH(n)
  /\ up => \A n \in 1..sent : n \in arrived \/ \E j \in 1..Len(wire) : wire[j] = PUBLISH(n)

NothingOvertaken == \A m \in arrived : 1..m \subseteq arrived

\* Only what has arrived is acknowledged and answered.
AnsweredHasArrived ==
  /\ pending \cup heard \subseteq arrived
  /\ \A i \in 1..Len(back) : back[i][2] \in arrived

OrderInv ==
  TypeOK /\ Phases /\ KeptOrArrived /\ WireInOrder /\ NothingOvertaken /\ AnsweredHasArrived

\* More messages, more packets.
LEMMA PacketsGrow ==
  ASSUME NEW n \in Nat, NEW m \in Nat, n <= m
  PROVE  /\ \A s \in Seq(ToBroker(n)) : s \in Seq(ToBroker(m))
         /\ \A s \in Seq(ToClient(n)) : s \in Seq(ToClient(m))
<1>1. ToBroker(n) \subseteq ToBroker(m) /\ ToClient(n) \subseteq ToClient(m)
  BY DEF ToBroker, ToClient
<1> QED
  BY <1>1, SeqMonotonic

\* The packets differ as their names say.
LEMMA PacketKinds ==
  /\ SUBSCRIBE[1] = "SUBSCRIBE" /\ DISCONNECT[1] = "DISCONNECT"
  /\ \A m : PUBLISH(m)[1] = "PUBLISH" /\ PUBLISH(m)[2] = m
  /\ \A m : PUBACK(m)[1] = "PUBACK" /\ PUBACK(m)[2] = m
  /\ \A m : Answer(m)[1] = "answer" /\ Answer(m)[2] = m
BY DEF SUBSCRIBE, DISCONNECT, PUBLISH, PUBACK, Answer

\* What TypeOK says of the packets.
LEMMA Typed ==
  ASSUME TypeOK
  PROVE  /\ sent \in Nat /\ wire \in Seq(ToBroker(sent)) /\ back \in Seq(ToClient(sent))
         /\ Len(wire) \in Nat /\ Len(back) \in Nat
         /\ \A i \in 1..Len(wire) : wire[i] \in ToBroker(sent)
         /\ \A i \in 1..Len(back) : back[i] \in ToClient(sent)
<1>1. sent \in Nat /\ wire \in Seq(ToBroker(sent)) /\ back \in Seq(ToClient(sent))
  BY CountsAssumption DEF TypeOK, ToBroker, ToClient
<1> QED
  BY <1>1, LenProperties, ElementOfSeq

\* A packet that is no message may be written behind the messages,
LEMMA OtherPacketInOrder ==
  ASSUME OrderInv, NEW p \in {SUBSCRIBE, DISCONNECT}, wire' = Append(wire, p),
         sent' = sent, arrived' = arrived, up' = up
  PROVE  WireInOrder'
<1>1. /\ wire \in Seq(ToBroker(sent)) /\ Len(wire) \in Nat /\ p \in ToBroker(sent)
      /\ \A m : p # PUBLISH(m)
  BY Typed, PacketKinds DEF OrderInv, ToBroker
<1>2. /\ Len(wire') = Len(wire) + 1
      /\ \A i \in 1..Len(wire) : wire'[i] = wire[i]
      /\ wire'[Len(wire) + 1] = p
  BY <1>1, AppendProperties
<1>3. ASSUME NEW i \in 1..Len(wire'), NEW m \in 1..sent, wire'[i] = PUBLISH(m),
             NEW n \in 1..(m - 1), n \notin arrived
      PROVE  \E j \in 1..(i - 1) : wire'[j] = PUBLISH(n)
  <2>1. i \in 1..Len(wire) /\ wire[i] = PUBLISH(m)
    BY <1>1, <1>2, <1>3
  <2>2. PICK j \in 1..(i - 1) : wire[j] = PUBLISH(n)
    BY <1>3, <2>1 DEF OrderInv, WireInOrder
  <2>3. j \in 1..Len(wire)
    BY <1>1, <2>1
  <2> QED BY <1>2, <2>2, <2>3
<1>4. ASSUME up, NEW n \in 1..sent, n \notin arrived
      PROVE  \E j \in 1..Len(wire') : wire'[j] = PUBLISH(n)
  <2>1. PICK j \in 1..Len(wire) : wire[j] = PUBLISH(n)
    BY <1>4 DEF OrderInv, WireInOrder
  <2>2. j \in 1..Len(wire')
    BY <1>1, <1>2
  <2> QED BY <1>2, <2>1, <2>2
<1> QED
  BY <1>3, <1>4 DEF WireInOrder

\* and so may the next message.
LEMMA NextMessageInOrder ==
  ASSUME OrderInv, up, wire' = Append(wire, PUBLISH(sent')),
         sent' = sent + 1, arrived' = arrived, up' = up
  PROVE  WireInOrder'
<1>1. /\ wire \in Seq(ToBroker(sent')) /\ Len(wire) \in Nat /\ PUBLISH(sent') \in ToBroker(sent')
      /\ sent \in Nat /\ wire \in Seq(ToBroker(sent))
      /\ \A i \in 1..Len(wire) : wire[i] \in ToBroker(sent)
  <2>1. sent \in Nat /\ wire \in Seq(ToBroker(sent)) /\ Len(wire) \in Nat
        /\ \A i \in 1..Len(wire) : wire[i] \in ToBroker(sent)
    BY Typed DEF OrderInv
  <2>2. wire \in Seq(ToBroker(sent'))
    BY <2>1, PacketsGrow
  <2>3. sent' \in 1..sent'
    BY <2>1
  <2> QED BY <2>1, <2>2, <2>3 DEF ToBroker
<1> DEFINE p == PUBLISH(sent')
<1> HIDE DEF p
<1>2. /\ Len(wire') = Len(wire) + 1
      /\ \A i \in 1..Len(wire) : wire'[i] = wire[i]
      /\ wire'[Len(wire) + 1] = p
  BY <1>1, AppendProperties DEF p
<1>3. ASSUME NEW i \in 1..Len(wire'), NEW m \in 1..sent', wire'[i] = PUBLISH(m),
             NEW n \in 1..(m - 1), n \notin arrived
      PROVE  \E j \in 1..(i - 1) : wire'[j] = PUBLISH(n)
  <2>1. CASE i \in 1..Len(wire)
    <3>1. m \in 1..sent
      BY <1>1, <1>2, <1>3, <2>1, PacketKinds DEF ToBroker
    <3>2. wire[i] = PUBLISH(m)
      BY <1>2, <1>3, <2>1
    <3>3. PICK j \in 1..(i - 1) : wire[j] = PUBLISH(n)
      BY <1>3, <2>1, <3>1, <3>2 DEF OrderInv, WireInOrder
    <3>4. j \in 1..Len(wire)
      BY <1>1, <2>1
    <3> QED BY <1>2, <3>3, <3>4
  <2>2. CASE i = Len(wire) + 1
    <3>1. n \in 1..sent
      BY <1>1, <1>3
    <3>2. PICK j \in 1..Len(wire) : wire[j] = PUBLISH(n)
      BY <1>3, <3>1 DEF OrderInv, WireInOrder
    <3>3. j \in 1..(i - 1)
      BY <1>1, <2>2
    <3> QED BY <1>2, <3>2, <3>3
  <2> QED BY <1>1, <1>2, <2>1, <2>2
<1>4. ASSUME NEW n \in 1..sent', n \notin arrived
      PROVE  \E j \in 1..Len(wire') : wire'[j] = PUBLISH(n)
  <2>1. CASE n = sent'
    <3>1. Len(wire) + 1 \in 1..Len(wire')
      BY <1>1, <1>2
    <3> QED BY <1>2, <2>1, <3>1 DEF p
  <2>2. CASE n # sent'
    <3>1. n \in 1..sent
      BY <1>1, <2>2
    <3>2. PICK j \in 1..Len(wire) : wire[j] = PUBLISH(n)
      BY <1>4, <3>1 DEF OrderInv, WireInOrder
    <3>3. j \in 1..Len(wire')
      BY <1>1, <1>2
    <3> QED BY <1>2, <3>2, <3>3
  <2> QED BY <2>1, <2>2
<1> QED
  BY <1>3, <1>4 DEF WireInOrder

\* What the broker takes from the wire, it takes in order.
LEMMA TakenInOrder ==
  ASSUME OrderInv, wire # <<>>, wire' = Tail(wire), sent' = sent, up' = up,
         arrived \subseteq arrived',
         \A m \in 1..sent : Head(wire) = PUBLISH(m) => m \in arrived'
  PROVE  WireInOrder'
<1>1. /\ 1 \in 1..Len(wire) /\ Head(wire) = wire[1] /\ Len(wire) \in Nat
      /\ Len(wire') = Len(wire) - 1
      /\ \A i \in 1..(Len(wire) - 1) : wire'[i] = wire[i + 1]
  <2>1. wire \in Seq(ToBroker(sent)) /\ Len(wire) \in Nat
    BY Typed DEF OrderInv
  <2> QED BY <2>1, TailProperties
<1>2. ASSUME NEW i \in 1..Len(wire'), NEW m \in 1..sent, wire'[i] = PUBLISH(m),
             NEW n \in 1..(m - 1), n \notin arrived'
      PROVE  \E j \in 1..(i - 1) : wire'[j] = PUBLISH(n)
  <2>0. sent \in Nat
    BY Typed DEF OrderInv
  <2>1. i + 1 \in 1..Len(wire) /\ wire[i + 1] = PUBLISH(m) /\ n \notin arrived /\ n \in 1..sent
    BY <1>1, <1>2, <2>0
  <2>2. PICK j \in 1..((i + 1) - 1) : wire[j] = PUBLISH(n)
    BY <1>2, <2>1 DEF OrderInv, WireInOrder
  <2>3. j # 1
    BY <1>1, <1>2, <2>1, <2>2
  <2>4. j - 1 \in 1..(i - 1) /\ j - 1 \in 1..(Len(wire) - 1) /\ (j - 1) + 1 = j
    BY <1>1, <2>1, <2>3
  <2> QED BY <1>1, <2>2, <2>4
<1>3. ASSUME up, NEW n \in 1..sent, n \notin arrived'
      PROVE  \E j \in 1..Len(wire') : wire'[j] = PUBLISH(n)
  <2>1. PICK j \in 1..Len(wire) : wire[j] = PUBLISH(n)
    BY <1>3 DEF OrderInv, WireInOrder
  <2>2. j # 1
    BY <1>1, <1>3, <2>1
  <2>3. j - 1 \in 1..Len(wire') /\ j - 1 \in 1..(Len(wire) - 1) /\ (j - 1) + 1 = j
    BY <1>1, <2>2
  <2> QED BY <1>1, <2>1, <2>3
<1> QED
  BY <1>2, <1>3 DEF WireInOrder

\* Every message kept is sent again, each behind the smaller ones.
LEMMA ResentIsSorted ==
  ASSUME TypeOK, NEW ms \in Resent
  PROVE  LET w == OnConnect(ms)
         IN  /\ w \in Seq(ToBroker(sent)) /\ Len(w) \in Nat
             /\ ms \in [1..Len(w) -> out] /\ \A i \in 1..Len(w) : w[i] = PUBLISH(ms[i])
             /\ \A i, j \in 1..Len(w) : i < j => ms[i] < ms[j]
             /\ \A m \in out : \E i \in 1..Len(w) : ms[i] = m
<1> DEFINE c == Cardinality(out)
<1>1. sent \in Nat /\ out \subseteq 1..sent /\ \A m \in out : m \in Nat
  BY CountsAssumption DEF TypeOK
<1>2. IsFiniteSet(out) /\ c \in Nat
  <2>1. IsFiniteSet(1..sent)
    BY <1>1, FS_Interval
  <2> QED BY <1>1, <2>1, FS_Subset, FS_CardinalityType
<1>3. /\ ms \in [1..c -> out]
      /\ \A i, j \in 1..c : i < j => ms[i] < ms[j]
  BY DEF Resent
<1> HIDE DEF c
<1>4. ms \in Surjection(1..c, out)
  <2>1. \A i, j \in 1..c : i # j => ms[i] # ms[j]
    <3> SUFFICES ASSUME NEW i \in 1..c, NEW j \in 1..c, i # j PROVE ms[i] # ms[j]
      OBVIOUS
    <3>1. ms[i] \in out /\ ms[j] \in out
      BY <1>3
    <3>2. ms[i] \in Nat /\ ms[j] \in Nat
      BY <1>1, <3>1
    <3>3. i < j \/ j < i
      BY <1>2
    <3>4. ms[i] < ms[j] \/ ms[j] < ms[i]
      BY <1>3, <3>3
    <3> QED BY <3>2, <3>4
  <2>2. ms \in Injection(1..c, out)
    BY <1>3, <2>1 DEF Injection, IsInjective
  <2>3. Cardinality(1..c) = Cardinality(out)
    <3>1. \A n \in Nat : Cardinality(1..n) = n
      BY FS_Interval
    <3> QED BY <1>2, <3>1 DEF c
  <2> QED BY <1>2, <2>2, <2>3, FS_Injection
<1> DEFINE w == OnConnect(ms)
<1>5. w = [k \in 1..c |-> PUBLISH(ms[k])]
  BY <1>3 DEF OnConnect
<1>6. w \in Seq(ToBroker(sent)) /\ Len(w) = c
  <2>1. \A k \in 1..c : PUBLISH(ms[k]) \in ToBroker(sent)
    BY <1>1, <1>3 DEF ToBroker
  <2>2. w \in [1..c -> ToBroker(sent)]
    BY <1>5, <2>1
  <2> HIDE DEF w
  <2>3. w \in Seq(ToBroker(sent))
    BY <1>2, <2>2
  <2> QED BY <1>2, <2>2, <2>3, LenProperties
<1>7. \A m \in out : \E i \in 1..c : ms[i] = m
  BY <1>4 DEF Surjection
<1> HIDE DEF w
<1>8. \A i \in 1..c : w[i] = PUBLISH(ms[i])
  BY <1>5
<1> QED
  BY <1>2, <1>3, <1>6, <1>7, <1>8 DEF w

LEMMA ResentInOrder ==
  ASSUME OrderInv, NEW ms \in Resent, wire' = OnConnect(ms), looping,
         sent' = sent, arrived' = arrived
  PROVE  WireInOrder'
<1>1. /\ Len(wire') \in Nat
      /\ ms \in [1..Len(wire') -> out] /\ \A i \in 1..Len(wire') : wire'[i] = PUBLISH(ms[i])
      /\ \A i, j \in 1..Len(wire') : i < j => ms[i] < ms[j]
      /\ \A m \in out : \E i \in 1..Len(wire') : ms[i] = m
  BY ResentIsSorted DEF OrderInv
<1>2. sent \in Nat /\ out \subseteq 1..sent /\ 1..sent \subseteq out \cup arrived
  BY CountsAssumption DEF OrderInv, TypeOK, Phases, KeptOrArrived
<1>3. ASSUME NEW i \in 1..Len(wire'), NEW m \in 1..sent, wire'[i] = PUBLISH(m),
             NEW n \in 1..(m - 1), n \notin arrived
      PROVE  \E j \in 1..(i - 1) : wire'[j] = PUBLISH(n)
  <2>1. ms[i] = m /\ n \in out
    BY <1>1, <1>2, <1>3, PacketKinds
  <2>2. PICK j \in 1..Len(wire') : ms[j] = n
    BY <1>1, <2>1
  <2>3. ~ (i < j) /\ i # j
    BY <1>1, <1>2, <1>3, <2>1, <2>2
  <2>4. j \in 1..(i - 1)
    BY <1>1, <2>3
  <2> QED BY <1>1, <2>2, <2>4
<1>4. ASSUME NEW n \in 1..sent, n \notin arrived
      PROVE  \E j \in 1..Len(wire') : wire'[j] = PUBLISH(n)
  BY <1>1, <1>2, <1>4
<1> QED
  BY <1>3, <1>4 DEF WireInOrder

LEMMA EmptyInOrder ==
  ASSUME wire' = <<>>, up' = FALSE
  PROVE  WireInOrder'
BY DEF WireInOrder

\* Where messages, wire and arrivals stay as they are, so does their order.
LEMMA SameOrder ==
  ASSUME WireInOrder, UNCHANGED <<sent, arrived, wire, up>>
  PROVE  WireInOrder'
<1>1. sent' = sent /\ arrived' = arrived /\ wire' = wire /\ up' = up
  OBVIOUS
<1> QED
  BY <1>1 DEF WireInOrder

LEMMA WrittenInOrder ==
  ASSUME OrderInv, NEW p \in {SUBSCRIBE, DISCONNECT}, Written(p),
         UNCHANGED <<sent, arrived, up>>
  PROVE  WireInOrder' /\ wire' \in Seq(ToBroker(sent)) /\ (~up => wire' = wire)
<1>1. p \in ToBroker(sent) /\ wire \in Seq(ToBroker(sent))
  BY Typed DEF OrderInv, ToBroker
<1>2. CASE up
  <2>1. wire' = Append(wire, p)
    BY <1>2 DEF Written
  <2> QED BY <1>1, <1>2, <2>1, OtherPacketInOrder, AppendProperties
<1>3. CASE ~up
  <2>1. wire' = wire
    BY <1>3 DEF Written
  <2> QED BY <1>1, <1>3, <2>1, SameOrder DEF OrderInv
<1>4. up \in BOOLEAN
  BY DEF OrderInv, TypeOK
<1> QED
  BY <1>2, <1>3, <1>4

LEMMA ScriptKeepsOrder == OrderInv /\ Script => OrderInv'
<1> SUFFICES ASSUME OrderInv, Script PROVE OrderInv'
  OBVIOUS
<1> USE DEF script, library, net, history
<1>0. /\ pending' = pending /\ arrived' = arrived /\ heard' = heard /\ back' = back
      /\ session' = session /\ losses' = losses /\ interrupted' = interrupted
      /\ leaving' = leaving
  BY DEF Script, Connect, Subscribe, LoopStart, Publish, Slept, Paused
<1>1. CASE Connect
  <2>1. /\ sent' = sent /\ wire' = wire /\ file' = file /\ looping' = looping /\ out' = out
        /\ up' = TRUE /\ pc' = "subscribe" /\ pc = "connect"
    BY <1>1 DEF Connect
  <2>2. sent = 0 /\ ~up /\ wire = <<>>
    BY <2>1 DEF OrderInv, Phases
  <2>3. TypeOK'
    BY <1>0, <2>1 DEF OrderInv, TypeOK
  <2>4. WireInOrder'
    BY <1>0, <2>1, <2>2 DEF WireInOrder
  <2> QED BY <1>0, <2>1, <2>2, <2>3, <2>4
          DEF OrderInv, Phases, KeptOrArrived, NothingOvertaken, AnsweredHasArrived
<1>2. CASE Subscribe
  <2>1. /\ sent' = sent /\ file' = file /\ looping' = looping /\ out' = out /\ up' = up
        /\ pc = "subscribe" /\ pc' = "loop_start" /\ Written(SUBSCRIBE)
    BY <1>2 DEF Subscribe
  <2>2. WireInOrder' /\ wire' \in Seq(ToBroker(sent)) /\ (~up => wire' = wire)
    BY <1>0, <2>1, WrittenInOrder
  <2>3. TypeOK'
    BY <1>0, <2>1, <2>2 DEF OrderInv, TypeOK, ToBroker
  <2> QED BY <1>0, <2>1, <2>2, <2>3
          DEF OrderInv, Phases, KeptOrArrived, NothingOvertaken, AnsweredHasArrived
<1>3. CASE LoopStart \/ Slept \/ Paused
  <2>1. /\ sent' = sent /\ wire' = wire /\ out' = out /\ up' = up
        /\ pc \in {"loop_start", "sleep", "pause"} /\ pc' \in {"publish", "pause"}
        /\ looping' \in BOOLEAN /\ file' \in 1..Files
    <3>1. looping \in BOOLEAN /\ file \in 1..Files /\ 1 \in 1..Files
          /\ (file # Files => file + 1 \in 1..Files)
      BY CountsAssumption DEF OrderInv, TypeOK
    <3> QED BY <1>3, <3>1 DEF LoopStart, Slept, Paused, LoopRuns, NextFile
  <2>2. TypeOK'
    BY <1>0, <2>1 DEF OrderInv, TypeOK
  <2>3. WireInOrder'
    BY <1>0, <2>1, SameOrder DEF OrderInv
  <2> QED BY <1>0, <2>1, <2>2, <2>3
          DEF OrderInv, Phases, KeptOrArrived, NothingOvertaken, AnsweredHasArrived
<1>4. CASE Publish
  <2>1. /\ sent < MaxPublished /\ sent' = sent + 1 /\ out' = out \cup {sent'}
        /\ Written(PUBLISH(sent'))
        /\ file' = file /\ looping' = looping /\ up' = up /\ pc = "publish" /\ pc' = "sleep"
    BY <1>4 DEF Publish, Kept
  <2>2. /\ sent \in Nat /\ sent' \in Nat /\ sent' \in 0..MaxPublished /\ sent <= sent'
        /\ 1..sent' = (1..sent) \cup {sent'} /\ sent' \in 1..sent'
    BY <2>1, CountsAssumption DEF OrderInv, TypeOK
  <2>3. wire \in Seq(ToBroker(sent')) /\ back' \in Seq(ToClient(sent'))
    BY <1>0, <2>2, Typed, PacketsGrow DEF OrderInv
  <2>4. WireInOrder' /\ wire' \in Seq(ToBroker(sent')) /\ (~up => wire' = wire)
    <3>1. CASE up
      <4>1. wire' = Append(wire, PUBLISH(sent'))
        BY <2>1, <3>1 DEF Written
      <4>2. PUBLISH(sent') \in ToBroker(sent')
        BY <2>2 DEF ToBroker
      <4> DEFINE p == PUBLISH(sent')
      <4>3. Append(wire, p) \in Seq(ToBroker(sent'))
        <5> HIDE DEF p
        <5> QED BY <2>3, <4>2, AppendProperties DEF p
      <4> QED BY <1>0, <2>1, <3>1, <4>1, <4>3, NextMessageInOrder
    <3>2. CASE ~up
      <4>1. wire' = wire /\ wire = <<>>
        BY <2>1, <3>2 DEF Written, OrderInv, Phases
      <4>2. WireInOrder'
        BY <2>1, <3>2, <4>1 DEF WireInOrder
      <4> QED BY <2>3, <3>2, <4>1, <4>2
    <3> QED BY <3>1, <3>2
  <2>5. TypeOK'
    BY <1>0, <2>1, <2>2, <2>3, <2>4 DEF OrderInv, TypeOK, ToBroker, ToClient
  <2>6. KeptOrArrived'
    BY <1>0, <2>1, <2>2 DEF OrderInv, KeptOrArrived
  <2> QED BY <1>0, <2>1, <2>2, <2>4, <2>5, <2>6
          DEF OrderInv, Phases, NothingOvertaken, AnsweredHasArrived
<1> QED
  BY <1>1, <1>2, <1>3, <1>4 DEF Script

LEMMA InterruptKeepsOrder == OrderInv /\ Interrupt => OrderInv'
<1> SUFFICES ASSUME OrderInv, Interrupt PROVE OrderInv'
  OBVIOUS
<1> USE DEF script, library, net, history
<1>1. /\ sent' = sent /\ out' = out /\ up' = up /\ back' = back /\ session' = session
      /\ pending' = pending /\ arrived' = arrived /\ heard' = heard /\ losses' = losses
      /\ interrupted' = TRUE /\ leaving' = TRUE /\ looping' = (looping /\ up)
      /\ pc \in {"publish", "sleep"} /\ pc' \in {"publish", "pause"} /\ file' \in 1..Files
      /\ Written(DISCONNECT)
  BY CountsAssumption DEF Interrupt, Disconnect, NextFile, OrderInv, TypeOK
<1>2. WireInOrder' /\ wire' \in Seq(ToBroker(sent)) /\ (~up => wire' = wire)
  BY <1>1, WrittenInOrder
<1>3. TypeOK'
  BY <1>1, <1>2 DEF OrderInv, TypeOK, ToBroker
<1> QED
  BY <1>1, <1>2, <1>3
  DEF OrderInv, Phases, KeptOrArrived, NothingOvertaken, AnsweredHasArrived

\* The end of the script, and of a connection.
LEMMA EndsKeepOrder ==
  OrderInv /\ (Dies \/ Lose \/ TakesDisconnect) => OrderInv'
<1> SUFFICES ASSUME OrderInv, Dies \/ Lose \/ TakesDisconnect PROVE OrderInv'
  OBVIOUS
<1> USE DEF script, library, net, history
<1>1. /\ up' = FALSE /\ wire' = <<>> /\ back' = <<>> /\ session' = FALSE
      /\ sent' = sent /\ file' = file /\ interrupted' = interrupted /\ leaving' = leaving
      /\ pending' = pending /\ arrived' = arrived /\ heard' = heard
      /\ looping' \in BOOLEAN /\ (looping' => looping) /\ losses' \in 0..MaxLosses
  <2>1. /\ looping \in BOOLEAN /\ leaving \in BOOLEAN /\ losses \in 0..MaxLosses
        /\ (losses < MaxLosses => losses + 1 \in 0..MaxLosses)
    BY CountsAssumption DEF OrderInv, TypeOK
  <2>2. CASE Dies
    BY <2>1, <2>2 DEF Dies
  <2>3. CASE Lose
    BY <2>1, <2>3 DEF Lose, Closed
  <2>4. CASE TakesDisconnect
    BY <2>1, <2>4 DEF TakesDisconnect, Closed
  <2> QED BY <2>2, <2>3, <2>4
<1>2. (pc' = "ended" /\ out' = {} /\ looping' = FALSE) \/ (pc' = pc /\ out' = out)
  BY DEF Dies, Lose, TakesDisconnect
<1>3. TypeOK'
  <2>1. /\ wire' \in Seq({SUBSCRIBE, DISCONNECT} \cup {PUBLISH(m) : m \in 1..sent})
        /\ back' \in Seq({PUBACK(m) : m \in 1..sent} \cup {Answer(m) : m \in 1..sent})
    BY <1>1, EmptySeq
  <2> QED BY <1>1, <1>2, <2>1 DEF OrderInv, TypeOK
<1>4. WireInOrder'
  BY <1>1, EmptyInOrder
<1>5. Phases'
  <2>1. pc = "connect" => sent = 0
    BY DEF OrderInv, Phases
  <2> QED BY <1>1, <1>2, <2>1 DEF OrderInv, Phases
<1>6. AnsweredHasArrived'
  BY <1>1 DEF OrderInv, AnsweredHasArrived
<1> QED
  BY <1>1, <1>2, <1>3, <1>4, <1>5, <1>6 DEF OrderInv, KeptOrArrived, NothingOvertaken

LEMMA ReconnectKeepsOrder == OrderInv /\ Reconnect => OrderInv'
<1> SUFFICES ASSUME OrderInv, Reconnect PROVE OrderInv'
  OBVIOUS
<1> USE DEF script, library, net, history
<1>1. PICK ms \in Resent : wire' = OnConnect(ms)
  BY DEF Reconnect
<1>2. /\ UNCHANGED <<pc, file, sent, interrupted, looping, out, leaving, back, session,
                     pending, arrived, heard, losses>>
      /\ up' = TRUE /\ looping
  BY DEF Reconnect
<1>3. /\ pc' = pc /\ file' = file /\ sent' = sent /\ interrupted' = interrupted
      /\ looping' = looping /\ out' = out /\ leaving' = leaving /\ back' = back
      /\ session' = session /\ pending' = pending /\ arrived' = arrived /\ heard' = heard
      /\ losses' = losses
  BY <1>2
<1>4. WireInOrder'
  BY <1>1, <1>2, <1>3, ResentInOrder
<1>5. wire' \in Seq(ToBroker(sent))
  BY <1>1, ResentIsSorted DEF OrderInv
<1>6. TypeOK'
  BY <1>2, <1>3, <1>5 DEF OrderInv, TypeOK, ToBroker
<1>7. Phases'
  BY <1>2, <1>3 DEF OrderInv, Phases
<1> QED
  BY <1>3, <1>4, <1>6, <1>7 DEF OrderInv, KeptOrArrived, NothingOvertaken, AnsweredHasArrived

LEMMA ReceiveKeepsOrder == OrderInv /\ Receive => OrderInv'
<1> SUFFICES ASSUME OrderInv, Receive PROVE OrderInv'
  OBVIOUS
<1> USE DEF script, library, net, history
<1> DEFINE p == Head(back)
<1>1. /\ pc' = pc /\ file' = file /\ sent' = sent /\ interrupted' = interrupted
      /\ looping' = looping /\ leaving' = leaving /\ up' = up /\ wire' = wire
      /\ session' = session /\ pending' = pending /\ arrived' = arrived /\ losses' = losses
      /\ back # <<>> /\ back' = Tail(back)
  BY DEF Receive
<1>2. \/ out' = out \ {p[2]} /\ heard' = heard
      \/ out' = out /\ heard' = heard \cup {p[2]}
  BY DEF Receive
<1>3. /\ 1 \in 1..Len(back) /\ p = back[1] /\ Len(back) \in Nat
      /\ back' \in Seq(ToClient(sent)) /\ Len(back') = Len(back) - 1
      /\ \A i \in 1..(Len(back) - 1) : back'[i] = back[i + 1]
  <2>1. back \in Seq(ToClient(sent)) /\ Len(back) \in Nat
    BY Typed DEF OrderInv
  <2> QED BY <1>1, <2>1, TailProperties
<1> HIDE DEF p
<1>4. p[2] \in arrived
  BY <1>3 DEF OrderInv, AnsweredHasArrived
<1>5. TypeOK'
  <2>1. p[2] \in 1..sent
    BY <1>4 DEF OrderInv, TypeOK
  <2> QED BY <1>1, <1>2, <1>3, <2>1 DEF OrderInv, TypeOK, ToClient
<1>6. AnsweredHasArrived'
  <2>1. \A i \in 1..Len(back') : back'[i][2] \in arrived
    <3> SUFFICES ASSUME NEW i \in 1..Len(back') PROVE back'[i][2] \in arrived
      OBVIOUS
    <3>1. i + 1 \in 1..Len(back) /\ back'[i] = back[i + 1]
      BY <1>3
    <3> QED BY <3>1 DEF OrderInv, AnsweredHasArrived
  <2> QED BY <1>1, <1>2, <1>4, <2>1 DEF OrderInv, AnsweredHasArrived
<1>7. WireInOrder'
  BY <1>1, SameOrder DEF OrderInv
<1> QED
  BY <1>1, <1>2, <1>4, <1>5, <1>6, <1>7
  DEF OrderInv, Phases, KeptOrArrived, NothingOvertaken

LEMMA BrokerKeepsOrder == OrderInv /\ (TakesSubscribe \/ TakesMessage) => OrderInv'
<1> SUFFICES ASSUME OrderInv, TakesSubscribe \/ TakesMessage PROVE OrderInv'
  OBVIOUS
<1> USE DEF script, library, net, history
<1>1. /\ pc' = pc /\ file' = file /\ sent' = sent /\ interrupted' = interrupted
      /\ looping' = looping /\ leaving' = leaving /\ up' = up /\ out' = out
      /\ heard' = heard /\ losses' = losses
      /\ up /\ wire # <<>> /\ wire' = Tail(wire)
  BY DEF TakesSubscribe, TakesMessage
<1>2. /\ 1 \in 1..Len(wire) /\ Head(wire) = wire[1] /\ wire[1] \in ToBroker(sent)
      /\ wire' \in Seq(ToBroker(sent))
  <2>1. wire \in Seq(ToBroker(sent)) /\ \A i \in 1..Len(wire) : wire[i] \in ToBroker(sent)
    BY Typed DEF OrderInv
  <2> QED BY <1>1, <2>1, TailProperties
<1>3. Phases'
  BY <1>1 DEF OrderInv, Phases
<1>4. CASE TakesSubscribe
  <2>1. /\ session' = TRUE /\ back' = back /\ pending' = pending /\ arrived' = arrived
        /\ Head(wire) = SUBSCRIBE
    BY <1>4 DEF TakesSubscribe
  <2>2. WireInOrder'
    <3>1. \A m : Head(wire) # PUBLISH(m)
      BY <2>1, PacketKinds
    <3> QED BY <1>1, <2>1, <3>1, TakenInOrder
  <2>3. TypeOK'
    BY <1>1, <1>2, <2>1 DEF OrderInv, TypeOK, ToBroker
  <2> QED BY <1>1, <1>3, <2>1, <2>2, <2>3
          DEF OrderInv, KeptOrArrived, NothingOvertaken, AnsweredHasArrived
<1>5. CASE TakesMessage
  <2> DEFINE m == Head(wire)[2]
  <2>1. /\ arrived' = arrived \cup {m} /\ pending' = pending \cup {m}
        /\ back' = Append(back, PUBACK(m)) /\ session' = session
        /\ Head(wire)[1] = "PUBLISH"
    BY <1>5 DEF TakesMessage
  <2>2. m \in 1..sent /\ Head(wire) = PUBLISH(m)
    BY <1>2, <2>1, PacketKinds DEF ToBroker
  <2> HIDE DEF m
  <2>3. WireInOrder'
    <3>1. \A n \in 1..sent : Head(wire) = PUBLISH(n) => n \in arrived'
      BY <2>1, <2>2, PacketKinds
    <3> QED BY <1>1, <2>1, <3>1, TakenInOrder
  <2>4. NothingOvertaken'
    <3>1. sent \in Nat
      BY Typed DEF OrderInv
    <3>2. \A n \in 1..(m - 1) : n \in arrived
      <4>1. 1 - 1 = 0
        OBVIOUS
      <4>2. \A n \in 1..(m - 1) : n \in arrived \/ \E j \in 1..(1 - 1) : wire[j] = PUBLISH(n)
        BY <1>2, <2>2 DEF OrderInv, WireInOrder
      <4> QED BY <4>1, <4>2
    <3>3. \A n \in 1..m : n \in arrived'
      BY <2>1, <2>2, <3>2
    <3> QED BY <2>1, <3>3 DEF OrderInv, NothingOvertaken
  <2>5. /\ back' \in Seq(ToClient(sent)) /\ Len(back') = Len(back) + 1 /\ Len(back) \in Nat
        /\ \A i \in 1..Len(back) : back'[i] = back[i]
        /\ back'[Len(back) + 1] = PUBACK(m)
    <3> DEFINE p == PUBACK(m)
    <3>1. p \in ToClient(sent)
      BY <2>2 DEF ToClient
    <3>2. back \in Seq(ToClient(sent)) /\ Len(back) \in Nat
      BY Typed DEF OrderInv
    <3> HIDE DEF p
    <3> QED BY <2>1, <3>1, <3>2, AppendProperties DEF p
  <2>6. AnsweredHasArrived'
    <3>1. \A i \in 1..Len(back') : back'[i][2] \in arrived'
      <4> SUFFICES ASSUME NEW i \in 1..Len(back') PROVE back'[i][2] \in arrived'
        OBVIOUS
      <4>1. CASE i \in 1..Len(back)
        BY <2>1, <2>5, <4>1 DEF OrderInv, AnsweredHasArrived
      <4>2. CASE i = Len(back) + 1
        BY <2>1, <2>5, <4>2, PacketKinds
      <4> QED BY <2>5, <4>1, <4>2
    <3> QED BY <1>1, <2>1, <3>1 DEF OrderInv, AnsweredHasArrived
  <2>7. TypeOK'
    BY <1>1, <1>2, <2>1, <2>2, <2>5 DEF OrderInv, TypeOK, ToBroker, ToClient
  <2> QED BY <1>1, <1>3, <2>1, <2>3, <2>4, <2>6, <2>7 DEF OrderInv, KeptOrArrived
<1> QED
  BY <1>4, <1>5

LEMMA DeviceKeepsOrder == OrderInv /\ Device => OrderInv'
<1> SUFFICES ASSUME OrderInv, NEW m \in Messages, DeviceAnswers(m) PROVE OrderInv'
  BY DEF Device
<1> USE DEF script, library, net, history
<1>1. /\ pc' = pc /\ file' = file /\ sent' = sent /\ interrupted' = interrupted
      /\ looping' = looping /\ leaving' = leaving /\ up' = up /\ out' = out /\ wire' = wire
      /\ session' = session /\ arrived' = arrived /\ heard' = heard /\ losses' = losses
      /\ m \in pending /\ pending' = pending \ {m}
      /\ (back' = back \/ back' = Append(back, Answer(m)))
  BY DEF DeviceAnswers
<1>2. m \in arrived /\ m \in 1..sent
  BY <1>1 DEF OrderInv, TypeOK, AnsweredHasArrived
<1>3. /\ back' \in Seq(ToClient(sent))
      /\ \A i \in 1..Len(back') : back'[i][2] \in arrived
  <2>0. back \in Seq(ToClient(sent)) /\ Len(back) \in Nat
    BY Typed DEF OrderInv
  <2>1. CASE back' = back
    BY <2>0, <2>1 DEF OrderInv, AnsweredHasArrived
  <2>2. CASE back' = Append(back, Answer(m))
    <3> DEFINE p == Answer(m)
    <3>1. p \in ToClient(sent) /\ p[2] \in arrived
      BY <1>2, PacketKinds DEF ToClient
    <3> HIDE DEF p
    <3>2. /\ back' \in Seq(ToClient(sent)) /\ Len(back') = Len(back) + 1
          /\ \A i \in 1..Len(back) : back'[i] = back[i]
          /\ back'[Len(back) + 1] = p
      BY <2>0, <2>2, <3>1, AppendProperties DEF p
    <3>3. ASSUME NEW i \in 1..Len(back') PROVE back'[i][2] \in arrived
      <4>1. CASE i \in 1..Len(back)
        BY <3>2, <4>1 DEF OrderInv, AnsweredHasArrived
      <4>2. CASE i = Len(back) + 1
        BY <3>1, <3>2, <4>2
      <4> QED BY <2>0, <3>2, <4>1, <4>2
    <3> QED BY <3>2, <3>3
  <2> QED BY <1>1, <2>1, <2>2
<1>4. TypeOK'
  BY <1>1, <1>3 DEF OrderInv, TypeOK, ToClient
<1>5. WireInOrder'
  BY <1>1, SameOrder DEF OrderInv
<1> QED
  BY <1>1, <1>3, <1>4, <1>5
  DEF OrderInv, Phases, KeptOrArrived, NothingOvertaken, AnsweredHasArrived

LEMMA OrderInit == Init => OrderInv
<1> SUFFICES ASSUME Init PROVE OrderInv
  OBVIOUS
<1>1. 1..sent = {} /\ Len(wire) = 0 /\ Len(back) = 0
  BY EmptySeq DEF Init
<1>2. /\ wire \in Seq({SUBSCRIBE, DISCONNECT} \cup {PUBLISH(m) : m \in 1..sent})
      /\ back \in Seq({PUBACK(m) : m \in 1..sent} \cup {Answer(m) : m \in 1..sent})
  BY EmptySeq DEF Init
<1>3. TypeOK
  <2>1. file \in 1..Files /\ sent \in 0..MaxPublished /\ losses \in 0..MaxLosses
    BY CountsAssumption DEF Init
  <2>2. /\ pc \in {"connect", "subscribe", "loop_start", "publish", "sleep", "pause", "ended"}
        /\ {interrupted, looping, leaving, up, session} \subseteq BOOLEAN
        /\ {out, pending, arrived, heard} \subseteq SUBSET (1..sent)
    BY DEF Init
  <2> QED BY <1>2, <2>1, <2>2 DEF TypeOK
<1> QED
  BY <1>1, <1>3
  DEF Init, OrderInv, Phases, KeptOrArrived, WireInOrder, NothingOvertaken, AnsweredHasArrived

LEMMA OrderStep == OrderInv /\ [Next]_vars => OrderInv'
<1> SUFFICES ASSUME OrderInv, [Next]_vars PROVE OrderInv'
  OBVIOUS
<1>1. CASE Script
  BY <1>1, ScriptKeepsOrder
<1>2. CASE Interrupt
  BY <1>2, InterruptKeepsOrder
<1>3. CASE Dies \/ Lose \/ TakesDisconnect
  BY <1>3, EndsKeepOrder
<1>4. CASE Reconnect
  BY <1>4, ReconnectKeepsOrder
<1>5. CASE Receive
  BY <1>5, ReceiveKeepsOrder
<1>6. CASE TakesSubscribe \/ TakesMessage
  BY <1>6, BrokerKeepsOrder
<1>7. CASE Device
  BY <1>7, DeviceKeepsOrder
<1>8. CASE Idle \/ UNCHANGED vars
  <2>1. /\ pc' = pc /\ file' = file /\ sent' = sent /\ interrupted' = interrupted
        /\ looping' = looping /\ leaving' = leaving /\ up' = up /\ out' = out
        /\ wire' = wire /\ back' = back /\ session' = session /\ pending' = pending
        /\ arrived' = arrived /\ heard' = heard /\ losses' = losses
    BY <1>8 DEF Idle, vars, script, library, net, history
  <2>2. TypeOK'
    BY <2>1 DEF OrderInv, TypeOK
  <2>3. WireInOrder'
    BY <2>1, SameOrder DEF OrderInv
  <2> QED BY <2>1, <2>2, <2>3
          DEF OrderInv, Phases, KeptOrArrived, NothingOvertaken, AnsweredHasArrived
<1> QED
  BY <1>1, <1>2, <1>3, <1>4, <1>5, <1>6, <1>7, <1>8 DEF Next, Network, Broker

\* However often a connection is lost and what was kept is sent again: no message
\* arrives before one that was published earlier, and only arrived ones are answered.
THEOREM ArrivalIsInOrder == Spec => []ArriveInOrder
<1>1. Init => OrderInv
  BY OrderInit
<1>2. OrderInv /\ [Next]_vars => OrderInv'
  BY OrderStep
<1>3. OrderInv => ArriveInOrder
  <2> SUFFICES ASSUME OrderInv PROVE ArriveInOrder
    OBVIOUS
  <2>1. sent \in Nat /\ arrived \subseteq 1..sent /\ \A n \in arrived : 1..n \subseteq arrived
    BY CountsAssumption DEF OrderInv, TypeOK, NothingOvertaken
  <2>2. arrived = 1..Cardinality(arrived)
    BY <2>1, ClosedIsInterval
  <2> QED BY <2>2 DEF OrderInv, AnsweredHasArrived, ArriveInOrder
<1> QED
  BY <1>1, <1>2, <1>3, PTL DEF Spec

-----------------------------------------------------------------------------
(***************************************************************************)
(* The answers.                                                            *)
(***************************************************************************)

\* From the first lost connection on there is no subscription, none under way, and no
\* answer either.
Deaf ==
  losses > 0 =>
    /\ pc # "connect" /\ (pc = "subscribe" => ~up) /\ ~session
    /\ \A i \in 1..Len(wire) : wire[i] # SUBSCRIBE
    /\ \A i \in 1..Len(back) : back[i][1] = "PUBACK"

\* A packet more at the end, the first packet less.
LEMMA AppendedPackets ==
  ASSUME NEW S, NEW s \in Seq(S), NEW e \in S
  PROVE  \A i \in 1..Len(Append(s, e)) :
           Append(s, e)[i] = e \/ \E j \in 1..Len(s) : Append(s, e)[i] = s[j]
<1>1. /\ Len(s) \in Nat /\ Len(Append(s, e)) = Len(s) + 1
      /\ \A i \in 1..Len(s) : Append(s, e)[i] = s[i]
      /\ Append(s, e)[Len(s) + 1] = e
  BY AppendProperties, LenProperties
<1> SUFFICES ASSUME NEW i \in 1..Len(Append(s, e)), i # Len(s) + 1
             PROVE  \E j \in 1..Len(s) : Append(s, e)[i] = s[j]
  BY <1>1
<1>2. i \in 1..Len(s)
  BY <1>1
<1> QED
  BY <1>1, <1>2

LEMMA TailPackets ==
  ASSUME NEW S, NEW s \in Seq(S), s # <<>>
  PROVE  \A i \in 1..Len(Tail(s)) : \E j \in 1..Len(s) : Tail(s)[i] = s[j]
<1>1. /\ Len(s) \in Nat /\ Len(Tail(s)) = Len(s) - 1
      /\ \A i \in 1..(Len(s) - 1) : Tail(s)[i] = s[i + 1]
  BY TailProperties, LenProperties
<1> SUFFICES ASSUME NEW i \in 1..Len(Tail(s))
             PROVE  \E j \in 1..Len(s) : Tail(s)[i] = s[j]
  OBVIOUS
<1>2. i \in 1..(Len(s) - 1) /\ i + 1 \in 1..Len(s)
  BY <1>1
<1> QED
  BY <1>1, <1>2

\* No action but the script's one call subscribes, and that call is over.
LEMMA WireStaysDeaf ==
  ASSUME OrderInv, Deaf, losses > 0, [Next]_vars
  PROVE  \A i \in 1..Len(wire') : wire'[i] # SUBSCRIBE
<1> USE DEF script, library, net, history
<1>0. /\ wire \in Seq(ToBroker(sent)) /\ sent \in Nat
      /\ \A i \in 1..Len(wire) : wire[i] # SUBSCRIBE
      /\ \A m : PUBLISH(m) # SUBSCRIBE
      /\ DISCONNECT # SUBSCRIBE
  BY Typed, PacketKinds DEF OrderInv, Deaf
<1>1. CASE wire' = wire
  BY <1>0, <1>1
<1>2. CASE wire' = <<>>
  <2>1. Len(wire') = 0
    BY <1>2, EmptySeq
  <2> QED BY <2>1
<1>3. CASE wire # <<>> /\ wire' = Tail(wire)
  BY <1>0, <1>3, TailPackets
<1>4. CASE \E ms \in Resent : wire' = OnConnect(ms)
  <2>1. PICK ms \in Resent : wire' = OnConnect(ms)
    BY <1>4
  <2>2. \A i \in 1..Len(wire') : wire'[i] = PUBLISH(ms[i])
    BY <2>1, ResentIsSorted DEF OrderInv
  <2> QED BY <1>0, <2>2
<1>5. CASE wire' = Append(wire, DISCONNECT)
  <2>1. DISCONNECT \in ToBroker(sent)
    BY DEF ToBroker
  <2> QED BY <1>0, <1>5, <2>1, AppendedPackets
<1>6. CASE wire' = Append(wire, PUBLISH(sent'))
  <2> DEFINE p == PUBLISH(sent')
             S == ToBroker(sent) \cup {p}
  <2>1. wire \in Seq(S) /\ p \in S
    BY <1>0, SeqMonotonic
  <2>2. p # SUBSCRIBE
    BY <1>0
  <2> HIDE DEF p, S
  <2>3. wire' = Append(wire, p)
    BY <1>6 DEF p
  <2> QED BY <1>0, <2>1, <2>2, <2>3, AppendedPackets
<1>7. \/ wire' = wire \/ wire' = <<>> \/ (wire # <<>> /\ wire' = Tail(wire))
      \/ (\E ms \in Resent : wire' = OnConnect(ms))
      \/ wire' = Append(wire, DISCONNECT) \/ wire' = Append(wire, PUBLISH(sent'))
  <2>1. CASE Script
    <3>1. pc # "connect" /\ (pc = "subscribe" => ~up)
      BY DEF Deaf
    <3> QED BY <2>1, <3>1
            DEF Script, Connect, Subscribe, LoopStart, Publish, Slept, Paused, Written
  <2>2. CASE Interrupt
    BY <2>2 DEF Interrupt, Disconnect, Written
  <2>3. CASE Dies \/ Lose \/ TakesDisconnect
    BY <2>3 DEF Dies, Lose, TakesDisconnect, Closed
  <2>4. CASE Network
    BY <2>4 DEF Network, Reconnect, Receive
  <2>5. CASE TakesSubscribe \/ TakesMessage
    BY <2>5 DEF TakesSubscribe, TakesMessage
  <2>6. CASE Device \/ Idle \/ UNCHANGED vars
    BY <2>6 DEF Device, DeviceAnswers, Idle, vars
  <2> QED BY <2>1, <2>2, <2>3, <2>4, <2>5, <2>6 DEF Next, Broker
<1> QED
  BY <1>1, <1>2, <1>3, <1>4, <1>5, <1>6, <1>7

\* The broker that forgot the subscription sends acknowledgements only.
LEMMA BackStaysDeaf ==
  ASSUME OrderInv, Deaf, losses > 0, [Next]_vars
  PROVE  \A i \in 1..Len(back') : back'[i][1] = "PUBACK"
<1> USE DEF script, library, net, history
<1>0. /\ back \in Seq(ToClient(sent)) /\ ~session
      /\ \A i \in 1..Len(back) : back[i][1] = "PUBACK"
  BY Typed DEF OrderInv, Deaf
<1>1. CASE back' = back
  BY <1>0, <1>1
<1>2. CASE back' = <<>>
  <2>1. Len(back') = 0
    BY <1>2, EmptySeq
  <2> QED BY <2>1
<1>3. CASE back # <<>> /\ back' = Tail(back)
  BY <1>0, <1>3, TailPackets
<1>4. CASE \E m : back' = Append(back, PUBACK(m))
  <2>1. PICK m : back' = Append(back, PUBACK(m))
    BY <1>4
  <2> DEFINE p == PUBACK(m)
             S == ToClient(sent) \cup {p}
  <2>2. back \in Seq(S) /\ p \in S
    BY <1>0, SeqMonotonic
  <2>3. p[1] = "PUBACK"
    BY PacketKinds
  <2> HIDE DEF p, S
  <2>4. back' = Append(back, p)
    BY <2>1 DEF p
  <2> QED BY <1>0, <2>2, <2>3, <2>4, AppendedPackets
<1>5. \/ back' = back \/ back' = <<>> \/ (back # <<>> /\ back' = Tail(back))
      \/ \E m : back' = Append(back, PUBACK(m))
  <2>1. CASE Script \/ Interrupt
    BY <2>1 DEF Script, Connect, Subscribe, LoopStart, Publish, Slept, Paused, Interrupt
  <2>2. CASE Dies \/ Lose \/ TakesDisconnect
    BY <2>2 DEF Dies, Lose, TakesDisconnect, Closed
  <2>3. CASE Network
    BY <2>3 DEF Network, Reconnect, Receive
  <2>4. CASE TakesSubscribe \/ TakesMessage
    BY <2>4 DEF TakesSubscribe, TakesMessage
  <2>5. CASE Device
    BY <1>0, <2>5 DEF Device, DeviceAnswers
  <2>6. CASE Idle \/ UNCHANGED vars
    BY <2>6 DEF Idle, vars
  <2> QED BY <2>1, <2>2, <2>3, <2>4, <2>5, <2>6 DEF Next, Broker
<1> QED
  BY <1>1, <1>2, <1>3, <1>4, <1>5

\* A connection goes down.
LEMMA LossDeafens ==
  ASSUME OrderInv, Lose
  PROVE  Deaf'
<1> USE DEF script, library, net, history
<1>1. up /\ up' = FALSE /\ wire' = <<>> /\ back' = <<>> /\ session' = FALSE /\ pc' = pc
  BY DEF Lose, Closed
<1>2. Len(wire') = 0 /\ Len(back') = 0
  BY <1>1, EmptySeq
<1>3. pc # "connect"
  BY <1>1 DEF OrderInv, Phases
<1> QED
  BY <1>1, <1>2, <1>3 DEF Deaf

LEMMA DeafStep == OrderInv /\ Deaf /\ [Next]_vars => Deaf'
<1> SUFFICES ASSUME OrderInv, Deaf, [Next]_vars, losses' > 0, ~ Lose
             PROVE  Deaf'
  BY LossDeafens DEF Deaf
<1> USE DEF script, library, net, history
<1>1. losses' = losses
  BY DEF Next, Script, Connect, Subscribe, LoopStart, Publish, Slept, Paused, Interrupt,
         Dies, Idle, vars, Network, Reconnect, Receive, Broker, TakesSubscribe, TakesMessage,
         TakesDisconnect, Device, DeviceAnswers
<1>2. /\ pc # "connect" /\ (pc = "subscribe" => ~up) /\ ~session
      /\ \A i \in 1..Len(wire) : wire[i] # SUBSCRIBE
  BY <1>1 DEF Deaf
<1>3. /\ \A i \in 1..Len(wire') : wire'[i] # SUBSCRIBE
      /\ \A i \in 1..Len(back') : back'[i][1] = "PUBACK"
  BY <1>1, WireStaysDeaf, BackStaysDeaf
<1>4. pc' # "connect" /\ (pc' = "subscribe" => pc = "subscribe")
  BY <1>2 DEF Next, Script, Connect, Subscribe, LoopStart, Publish, Slept, Paused, NextFile,
         Interrupt, Dies, Idle, vars, Network, Reconnect, Receive, Broker, TakesSubscribe,
         TakesMessage, TakesDisconnect, Device, DeviceAnswers
<1>5. pc = "subscribe" /\ pc' = "subscribe" => (up' => up)
  <2>1. pc = "subscribe" => ~looping
    BY DEF OrderInv, Phases
  <2> QED
    BY <2>1 DEF Next, Script, Connect, Subscribe, LoopStart, Publish, Slept, Paused,
         Interrupt, Dies, Idle, vars, Network, Reconnect, Receive, Broker, TakesSubscribe,
         TakesMessage, TakesDisconnect, Closed, Device, DeviceAnswers
<1>6. ~session'
  <2>1. ~ TakesSubscribe
    <3> SUFFICES ASSUME wire # <<>>, Head(wire) = SUBSCRIBE PROVE FALSE
      BY DEF TakesSubscribe
    <3>1. 1 \in 1..Len(wire) /\ Head(wire) = wire[1]
      BY Typed, TailProperties DEF OrderInv
    <3> QED BY <1>2, <3>1
  <2> QED
    BY <1>2, <2>1 DEF Next, Script, Connect, Subscribe, LoopStart, Publish, Slept, Paused,
         Interrupt, Dies, Idle, vars, Network, Reconnect, Receive, Broker, TakesMessage,
         TakesDisconnect, Closed, Device, DeviceAnswers
<1> QED
  BY <1>2, <1>3, <1>4, <1>5, <1>6 DEF Deaf

LEMMA NothingIsHeard == OrderInv /\ Deaf /\ [Next]_vars => [losses > 0 => heard' = heard]_vars
<1> SUFFICES ASSUME OrderInv, Deaf, [Next]_vars, losses > 0
             PROVE  heard' = heard
  BY DEF vars
<1> USE DEF script, library, net, history
<1>1. CASE Receive
  <2>1. back # <<>> /\ back \in Seq(ToClient(sent))
    BY <1>1, Typed DEF Receive, OrderInv
  <2>2. Head(back)[1] = "PUBACK"
    BY <2>1, TailProperties DEF Deaf
  <2> QED BY <1>1, <2>2 DEF Receive
<1>2. CASE ~ Receive
  BY <1>2 DEF Next, Script, Connect, Subscribe, LoopStart, Publish, Slept, Paused,
     Interrupt, Dies, Idle, vars, Network, Reconnect, Lose, Broker, TakesSubscribe,
     TakesMessage, TakesDisconnect, Device, DeviceAnswers
<1> QED
  BY <1>1, <1>2

\* The script subscribes once and outside of on_connect: however often the connection
\* comes back after it was lost, no answer is heard any more.
THEOREM NoAnswerAfterALoss == Spec => DeafAfterALoss
<1>1. Init => OrderInv /\ Deaf
  BY OrderInit DEF Init, Deaf
<1>2. OrderInv /\ Deaf /\ [Next]_vars => OrderInv' /\ Deaf'
  BY OrderStep, DeafStep
<1>3. OrderInv /\ Deaf /\ [Next]_vars => [losses > 0 => heard' = heard]_vars
  BY NothingIsHeard
<1> QED
  BY <1>1, <1>2, <1>3, PTL DEF Spec, DeafAfterALoss
=============================================================================
