----------------------------- MODULE MqttClient -----------------------------
(***************************************************************************)
(* The scripts of src/test_mqtt: connect, subscribe to the device's        *)
(* answers, start the client library's network loop, then publish every    *)
(* file over and over, at most one interrupt from the keyboard in between. *)
(* mqtt_test_get.py and mqtt_test_set.py differ in the files and the QoS,  *)
(* 2 and 1; neither is 0.                                                  *)
(*                                                                         *)
(* Library, broker and device are not in the repository.  Of the library   *)
(* the model has what the scripts count on: its loop reconnects until      *)
(* disconnect() is called, and a message of QoS 1 or 2 is kept and sent    *)
(* again until it is acknowledged.  The scripts leave `clean_session` at   *)
(* its default, with which a broker forgets the subscriptions of a         *)
(* connection that is lost.  The device answers every message.             *)
(***************************************************************************)
EXTENDS Integers, SequencesExt, FiniteSetsExt

CONSTANTS Files,         \* how many files, or members of get_list.json, there are
          MaxPublished,  \* bound: messages published
          MaxLosses      \* bound: connections lost

ASSUME CountsAssumption == {Files, MaxPublished} \subseteq Nat \ {0} /\ MaxLosses \in Nat

VARIABLES pc, file,      \* where the script is, and at which file
          sent,          \* how many messages it has published: they are 1..sent
          interrupted,   \* a KeyboardInterrupt was caught
          looping,       \* the network loop runs
          out,           \* the messages the library keeps
          leaving,       \* disconnect() was called
          up,            \* there is a connection
          wire, back,    \* what is under way to the broker, and to the client
          session,       \* the broker knows the subscription
          pending,       \* the messages the device has to answer
          arrived,       \* history: the messages that have arrived
          heard,         \* history: the messages whose answer has come
          losses         \* history: how many connections were lost

script  == <<pc, file, sent, interrupted>>
library == <<looping, out, leaving>>
net     == <<up, wire, back>>
history == <<arrived, heard, losses>>
vars    == <<script, library, net, session, pending, history>>

Messages == 1..MaxPublished
SUBSCRIBE  == <<"SUBSCRIBE", 0>>
DISCONNECT == <<"DISCONNECT", 0>>
PUBLISH(m) == <<"PUBLISH", m>>
PUBACK(m)  == <<"PUBACK", m>>
Answer(m)  == <<"answer", m>>

\* A packet is lost where there is no connection.
Written(p) == wire' = IF up THEN Append(wire, p) ELSE wire

Init ==
  /\ pc = "connect" /\ file = 1 /\ sent = 0 /\ interrupted = FALSE
  /\ looping = FALSE /\ out = {} /\ leaving = FALSE
  /\ up = FALSE /\ wire = <<>> /\ back = <<>>
  /\ session = FALSE /\ pending = {}
  /\ arrived = {} /\ heard = {} /\ losses = 0

-----------------------------------------------------------------------------
(* The script. *)

Connect ==
  /\ pc = "connect"
  /\ up' = TRUE
  /\ pc' = "subscribe"
  /\ UNCHANGED <<file, sent, interrupted, library, wire, back, session, pending, history>>

Subscribe ==
  /\ pc = "subscribe"
  /\ Written(SUBSCRIBE)
  /\ pc' = "loop_start"
  /\ UNCHANGED <<file, sent, interrupted, library, up, back, session, pending, history>>

\* A definition named Mut... is a faulty form of one that follows it, for the
\* sensitivity runs of PROJECT.json; nothing else uses it.
MutNotStarted == FALSE
LoopRuns      == TRUE

LoopStart ==
  /\ pc = "loop_start"
  /\ looping' = LoopRuns
  /\ pc' = "publish"
  /\ UNCHANGED <<file, sent, interrupted, out, leaving, net, session, pending, history>>

\* Behind the last file the script pauses and begins again.
NextFile ==
  IF file = Files THEN pc' = "pause" /\ file' = 1 ELSE pc' = "publish" /\ file' = file + 1

MutQosZero(m) == IF up THEN out ELSE out \ {m}
Kept(m)       == out \cup {m}

Publish ==
  /\ pc = "publish" /\ sent < MaxPublished
  /\ sent' = sent + 1
  /\ out' = Kept(sent')
  /\ Written(PUBLISH(sent'))
  /\ pc' = "sleep"
  /\ UNCHANGED <<file, interrupted, looping, leaving, up, back, session, pending, history>>

Slept ==
  /\ pc = "sleep"
  /\ NextFile
  /\ UNCHANGED <<sent, interrupted, library, net, session, pending, history>>

Paused ==
  /\ pc = "pause"
  /\ pc' = "publish"
  /\ UNCHANGED <<file, sent, interrupted, library, net, session, pending, history>>

\* The library's loop ends at once, or when it has written the packet.
MutOnlyLogs == UNCHANGED <<leaving, looping, wire>>
Disconnect  == leaving' = TRUE /\ looping' = (looping /\ up) /\ Written(DISCONNECT)

\* An interrupt in the try block disconnects; the loop over the files goes on.
Interrupt ==
  /\ pc \in {"publish", "sleep"} /\ ~interrupted
  /\ interrupted' = TRUE
  /\ Disconnect
  /\ NextFile
  /\ UNCHANGED <<sent, out, up, back, session, pending, history>>

\* Outside of it, between two files too, an interrupt, a connection that is refused or
\* a file that cannot be read ends the script.
Dies ==
  /\ pc \notin {"sleep", "ended"}
  /\ pc' = "ended"
  /\ looping' = FALSE /\ out' = {}
  /\ up' = FALSE /\ wire' = <<>> /\ back' = <<>> /\ session' = FALSE
  /\ UNCHANGED <<file, sent, interrupted, leaving, pending, history>>

\* At the bound, or ended.
Idle ==
  /\ pc = "ended" \/ (pc = "publish" /\ sent = MaxPublished)
  /\ UNCHANGED vars

Script == Connect \/ Subscribe \/ LoopStart \/ Publish \/ Slept \/ Paused

-----------------------------------------------------------------------------
(* The library's network loop, the broker and the device. *)

MutSubscribesAgain(ms) == <<SUBSCRIBE>> \o [k \in DOMAIN ms |-> PUBLISH(ms[k])]
OnConnect(ms)          == [k \in DOMAIN ms |-> PUBLISH(ms[k])]

\* What the library has kept, the oldest first.
Resent == {ms \in [1..Cardinality(out) -> out] : \A i, j \in DOMAIN ms : i < j => ms[i] < ms[j]}

\* on_connect only logs; what goes out is what the library has kept.

Reconnect ==
  /\ ~up /\ looping
  /\ up' = TRUE
  /\ \E ms \in Resent : wire' = OnConnect(ms)
  /\ UNCHANGED <<script, library, back, session, pending, history>>

Receive ==
  /\ looping /\ back # <<>>
  /\ back' = Tail(back)
  /\ LET p == Head(back)
     IN  IF p[1] = "PUBACK" THEN out' = out \ {p[2]} /\ heard' = heard
                            ELSE out' = out /\ heard' = heard \cup {p[2]}
  /\ UNCHANGED <<script, looping, leaving, up, wire, session, pending, arrived, losses>>

Closed == up' = FALSE /\ wire' = <<>> /\ back' = <<>> /\ session' = FALSE

Lose ==
  /\ up /\ losses < MaxLosses
  /\ Closed
  /\ losses' = losses + 1
  /\ looping' = (looping /\ ~leaving)
  /\ UNCHANGED <<script, out, leaving, pending, arrived, heard>>

TakesSubscribe ==
  /\ up /\ wire # <<>> /\ Head(wire) = SUBSCRIBE
  /\ wire' = Tail(wire)
  /\ session' = TRUE
  /\ UNCHANGED <<script, library, up, back, pending, history>>

TakesMessage ==
  /\ up /\ wire # <<>> /\ Head(wire)[1] = "PUBLISH"
  /\ LET m == Head(wire)[2]
     IN  /\ arrived' = arrived \cup {m}
         /\ pending' = pending \cup {m}
         /\ back' = Append(back, PUBACK(m))
  /\ wire' = Tail(wire)
  /\ UNCHANGED <<script, library, up, session, heard, losses>>

TakesDisconnect ==
  /\ up /\ wire # <<>> /\ Head(wire) = DISCONNECT
  /\ Closed
  /\ looping' = FALSE
  /\ UNCHANGED <<script, out, leaving, pending, history>>

DeviceAnswers(m) ==
  /\ m \in pending
  /\ pending' = pending \ {m}
  /\ back' = IF session THEN Append(back, Answer(m)) ELSE back
  /\ UNCHANGED <<script, library, up, wire, session, history>>

Network == Reconnect \/ Receive
Broker  == TakesSubscribe \/ TakesMessage \/ TakesDisconnect
Device  == \E m \in Messages : DeviceAnswers(m)

Next == Script \/ Interrupt \/ Dies \/ Idle \/ Network \/ Lose \/ Broker \/ Device

\* The two threads are scheduled and a broker answers again at last; nothing makes
\* a connection go down, or a user press a key.
Fairness == WF_vars(Script) /\ WF_vars(Network) /\ WF_vars(Broker) /\ WF_vars(Device)

Spec == Init /\ [][Next]_vars /\ Fairness

-----------------------------------------------------------------------------
TypeOK ==
  /\ pc \in {"connect", "subscribe", "loop_start", "publish", "sleep", "pause", "ended"}
  /\ file \in 1..Files /\ sent \in 0..MaxPublished
  /\ {interrupted, looping, leaving, up, session} \subseteq BOOLEAN
  /\ {out, pending, arrived, heard} \subseteq SUBSET (1..sent)
  /\ wire \in Seq({SUBSCRIBE, DISCONNECT} \cup {PUBLISH(m) : m \in 1..sent})
  /\ back \in Seq({PUBACK(m) : m \in 1..sent} \cup {Answer(m) : m \in 1..sent})
  /\ losses \in 0..MaxLosses

\* Nothing arrives or is answered that was not published, and a message never overtakes
\* one that was published before it, whatever is lost and sent again in between:
\* settings first reach the broker in the order of the files.
ArriveInOrder ==
  /\ TypeOK
  /\ heard \subseteq arrived
  /\ arrived = 1..Cardinality(arrived)

\* Once the disconnect of an interrupt is done nothing arrives any more, although the
\* script goes on publishing.
SilentAfterDisconnect ==
  [][interrupted /\ ~up => up' = up /\ arrived' = arrived]_vars

\* The script subscribes once: from the first lost connection on no answer is heard,
\* however long the script goes on and however often the loop reconnects.
DeafAfterALoss == [][losses > 0 => heard' = heard]_vars

Stopped == interrupted \/ pc = "ended"

\* What is published arrives, through lost connections, unless the script is stopped.
PublishedArrives ==
  \A m \in Messages : sent >= m ~> (m \in arrived \/ Stopped)

\* As long as no connection is lost every message is answered, and the answer heard:
\* the subscription is in place before the first message.
AnswersAreHeard ==
  \A m \in Messages : sent >= m ~> (m \in heard \/ losses > 0 \/ Stopped)
=============================================================================
