-------------------------- MODULE MessageProtocol --------------------------
(***************************************************************************)
(* The numbering of messages on one websocket connection, as              *)
(* BaseWebsocketConsumer (base/base_consumer.py) keeps it, or the native   *)
(* service (native/src/connection.rs, protocol.rs): both sides count what *)
(* they sent and received, the server keeps the last few messages,        *)
(* rewinds its counter and sends them again when the client has missed    *)
(* some.  In Python a handler may be suspended after each message it      *)
(* sends, in the native service it holds the lock for one message, and    *)
(* the handlers of other connections, which send to this client too, run  *)
(* in between; its own frames wait.                                       *)
(*                                                                         *)
(* A server message is abstracted to the position in which it was first   *)
(* sent, 1, 2, 3, ...  The client is not part of the repository: it is    *)
(* modelled from what receive() expects of it.  It ignores a number it     *)
(* has, takes the next one, and asks for a resend when there is a gap.     *)
(***************************************************************************)
EXTENDS Integers, Sequences

CONSTANTS
    RingSize,   \* messages["last_ten"] keeps this many (10)
    MaxMade,    \* bound on the messages the server makes by itself
    MaxSent,    \* bound on the messages the client makes
    MaxQueue,   \* bound on the frames in flight when one is added
    MaxLost,    \* environment: bound on the frames lost on the way
    MaxRepeats  \* environment: bound on the messages the client sends again

ASSUME RingAssumption == RingSize \in Nat \ {0}
ASSUME ProtocolBoundAssumption ==
    {MaxMade, MaxSent, MaxQueue, MaxLost, MaxRepeats} \subseteq Nat

VARIABLES
    backend,    \* "python" or "native": what serves the connection
    server,     \* messages["server"]: number of the last message sent
    client,     \* messages["client"]: number of the last message received
    ring,       \* messages["last_ten"]
    alive,      \* has the consumer not been ended by an exception?
    made,       \* the server messages made so far
    answers,    \* history: what became of the client's messages, in turn
    gaveUp,     \* history: was the client asked to fetch the document again?
    pending,    \* what the handler at work has still to send
    overtaken,  \* history: did another handler's message slip in between?
    down, up,   \* the frames on their way to the client and to the server
    seen,       \* client: number of the last server message taken
    sent,       \* client: the types of its messages
    got,        \* client: the server messages taken, in order
    lost,       \* frames lost so far
    repeats     \* messages sent again so far

serverVars == <<backend, server, client, ring, alive, made, answers, gaveUp, pending, overtaken>>
clientVars == <<seen, sent, got>>
envVars == <<lost, repeats>>
protocolVars == <<serverVars, down, up, clientVars, envVars>>

Types == {"diff", "chat"}
Fresh == 0      \* to be sent: a message that does not exist yet
Request(from) == [type |-> "request_resend", c |-> 0, s |-> from]

ProtocolInit ==
    /\ backend \in {"python", "native"}
    /\ server = 0 /\ client = 0 /\ ring = <<>>
    /\ alive = TRUE /\ made = 0 /\ answers = <<>> /\ gaveUp = FALSE
    /\ pending = <<>> /\ overtaken = FALSE
    /\ down = <<>> /\ up = <<>>
    /\ seen = 0 /\ sent = <<>> /\ got = <<>>
    /\ lost = 0 /\ repeats = 0

\* Python's s[i:], whatever the sign of i.
From(s, i) ==
    LET first == IF i >= 0 THEN i ELSE IF -i > Len(s) THEN 0 ELSE Len(s) + i
    IN  SubSeq(s, first + 1, Len(s))

\* fault: the ring keeps one too many
LongRing(r) == From(r, -(RingSize + 1))

LastTen(r) == From(r, -RingSize)

-----------------------------------------------------------------------------
(* Sending.                                                                *)

\* send_message: stamp the message with the number after no, keep it, send it.
Stamp(m, no) ==
    LET body == IF m = Fresh THEN made + 1 ELSE m
    IN  /\ server' = no + 1
        /\ ring' = LastTen(Append(ring, body))
        /\ down' = Append(down, [s |-> no + 1, body |-> body])
        /\ made' = IF m = Fresh THEN made + 1 ELSE made

\* The messages a handler sends, beginning after number no: the first at once, the
\* others when the server has taken the one before.
Send(ms, no) ==
    IF ms = <<>> THEN /\ server' = no /\ pending' = <<>>
                      /\ UNCHANGED <<ring, down, made>>
                 ELSE Stamp(Head(ms), no) /\ pending' = Tail(ms)

\* The handler goes on after a message was sent.
SendOn ==
    /\ alive /\ pending # <<>>
    /\ Send(pending, server)
    /\ UNCHANGED <<backend, client, alive, answers, gaveUp, overtaken, up, clientVars, envVars>>

\* The handler of another connection sends this client an update.
Push ==
    /\ alive
    /\ made < MaxMade /\ Len(down) < MaxQueue
    /\ Stamp(Fresh, server)
    /\ overtaken' = (overtaken \/ pending # <<>>)
    /\ UNCHANGED <<backend, client, alive, answers, gaveUp, pending, up, clientVars, envVars>>

\* How many messages the client lacks; the native service counts in unsigned numbers.
Lacks(from) == IF backend = "native" /\ from > server THEN 0 ELSE server - from

\* The last n messages of the ring.  In Python 0 - n is an index: the whole ring for 0.
LastOfRing(n) == IF backend = "native" THEN SubSeq(ring, Len(ring) - n + 1, Len(ring))
                 ELSE From(ring, -n)

\* fault: the counter is not rewound, the messages get new numbers
ResendRenumbered(from, then) ==
    LET lacking == Lacks(from) > Len(ring)
    IN  /\ Send((IF lacking THEN <<Fresh>> ELSE LastOfRing(Lacks(from))) \o then, server)
        /\ gaveUp' = (gaveUp \/ lacking)

\* resend_messages: rewind the counter and send the end of the ring again, or give
\* up (unfixable) when the ring does not reach back far enough.
Resend(from, then) ==
    LET lacking == Lacks(from) > Len(ring)
    IN  /\ Send((IF lacking THEN <<Fresh>> ELSE LastOfRing(Lacks(from))) \o then,
                server - Lacks(from))
        /\ gaveUp' = (gaveUp \/ lacking)

-----------------------------------------------------------------------------
(* Receiving: the cases of receive(), for the oldest frame in flight.  The *)
(* bound on down keeps resends that answer resends from piling up.         *)

Ready == alive /\ pending = <<>> /\ up # <<>> /\ Len(down) <= MaxQueue

ReceiveRequest ==
    LET m == Head(up)
    IN  /\ Ready
        /\ m.type = "request_resend"
        /\ up' = Tail(up)
        /\ Resend(m.s, <<>>)
        /\ UNCHANGED <<backend, client, alive, answers, overtaken, clientVars, envVars>>

IsRepeated(m) == m.c < client + 1
IsAhead(m) == m.c > client + 1

\* fault: off by one
IsBehindByTwo(m) == m.s < server - 1

\* The client had not seen all our messages when it sent this one.
IsBehind(m) == m.s < server

\* A message already received.
ReceiveRepeated ==
    LET m == Head(up)
    IN  /\ Ready
        /\ m.type \in Types
        /\ IsRepeated(m)
        /\ up' = Tail(up)
        /\ UNCHANGED <<serverVars, down, clientVars, envVars>>

\* Messages of the client were lost.  The native service asks for them; the Python
\* consumer calls send_json, which its base class does not have: the exception ends it.
ReceiveAhead ==
    LET m == Head(up)
    IN  /\ Ready
        /\ m.type \in Types
        /\ ~IsRepeated(m) /\ IsAhead(m)
        /\ up' = Tail(up)
        /\ IF backend = "native" THEN Stamp(Fresh, server) /\ UNCHANGED alive
                                 ELSE alive' = FALSE /\ UNCHANGED <<server, ring, down, made>>
        /\ UNCHANGED <<backend, client, answers, gaveUp, pending, overtaken, clientVars, envVars>>

\* The client is behind: send it what it lacks; a diff is rejected, a chat message
\* is dropped.
ReceiveSimultaneous ==
    LET m == Head(up)
        rejection == IF m.type = "diff" THEN <<Fresh>> ELSE <<>>
    IN  /\ Ready
        /\ m.type \in Types
        /\ ~IsRepeated(m) /\ ~IsAhead(m)
        /\ IsBehind(m)
        /\ up' = Tail(up)
        /\ client' = client + 1
        /\ Resend(m.s, rejection)
        /\ answers' = Append(answers, [c |-> m.c, handled |-> FALSE, complete |-> FALSE])
        /\ UNCHANGED <<backend, alive, overtaken, clientVars, envVars>>

\* The order is right: the message goes to its handler.
ReceiveNext ==
    LET m == Head(up)
    IN  /\ Ready
        /\ m.type \in Types
        /\ ~IsRepeated(m) /\ ~IsAhead(m)
        /\ ~IsBehind(m)
        /\ up' = Tail(up)
        /\ client' = client + 1
        /\ answers' = Append(answers,
                [c |-> m.c, handled |-> TRUE, complete |-> m.s = made])
        /\ UNCHANGED <<backend, server, ring, alive, made, gaveUp, pending, overtaken, down,
                       clientVars, envVars>>

-----------------------------------------------------------------------------
(* The client and the network (external).                                  *)

ClientSend ==
    /\ Len(sent) < MaxSent /\ Len(up) < MaxQueue
    /\ \E t \in Types :
        /\ sent' = Append(sent, t)
        /\ up' = Append(up, [type |-> t, c |-> Len(sent'), s |-> seen])
    /\ UNCHANGED <<serverVars, down, seen, got, envVars>>

\* The client sends one of its messages again.
ClientRepeat ==
    /\ repeats < MaxRepeats /\ Len(up) < MaxQueue
    /\ \E k \in 1..Len(sent) : up' = Append(up, [type |-> sent[k], c |-> k, s |-> seen])
    /\ repeats' = repeats + 1
    /\ UNCHANGED <<serverVars, down, clientVars, lost>>

ClientTake ==
    LET m == Head(down)
    IN  /\ down # <<>>
        /\ m.s = seen + 1
        /\ down' = Tail(down)
        /\ seen' = seen + 1
        /\ got' = Append(got, m.body)
        /\ UNCHANGED <<serverVars, up, sent, envVars>>

ClientIgnore ==
    /\ down # <<>>
    /\ Head(down).s <= seen
    /\ down' = Tail(down)
    /\ UNCHANGED <<serverVars, up, clientVars, envVars>>

ClientGap ==
    /\ down # <<>>
    /\ Head(down).s > seen + 1
    /\ Len(up) < MaxQueue
    /\ down' = Tail(down)
    /\ up' = Append(up, Request(seen))
    /\ UNCHANGED <<serverVars, clientVars, envVars>>

LoseDown ==
    /\ lost < MaxLost /\ down # <<>>
    /\ down' = Tail(down)
    /\ lost' = lost + 1
    /\ UNCHANGED <<serverVars, up, clientVars, repeats>>

LoseUp ==
    /\ lost < MaxLost /\ up # <<>>
    /\ up' = Tail(up)
    /\ lost' = lost + 1
    /\ UNCHANGED <<serverVars, down, clientVars, repeats>>

ProtocolNext ==
    \/ Push \/ SendOn
    \/ ReceiveRequest \/ ReceiveRepeated \/ ReceiveAhead
    \/ ReceiveSimultaneous \/ ReceiveNext
    \/ ClientSend \/ ClientRepeat \/ ClientTake \/ ClientIgnore \/ ClientGap
    \/ LoseDown \/ LoseUp

ProtocolSpec == ProtocolInit /\ [][ProtocolNext]_protocolVars

-----------------------------------------------------------------------------
(* Properties.                                                             *)

\* Counters, ring and frames stay in their domains; the ring never outgrows its size.
ProtocolTypeOK ==
    /\ backend \in {"python", "native"}
    /\ {server, client, made, seen, lost, repeats} \subseteq Nat
    /\ ring \in Seq(1..made) /\ Len(ring) <= RingSize
    /\ {alive, gaveUp, overtaken} \subseteq BOOLEAN
    /\ pending \in Seq({Fresh} \cup (1..made))
    /\ answers \in Seq([c : Nat, handled : BOOLEAN, complete : BOOLEAN])
    /\ down \in Seq([s : Nat, body : 1..made])
    /\ up \in Seq([type : Types \cup {"request_resend"}, c : Nat, s : Nat])
    /\ sent \in Seq(Types)
    /\ got \in Seq(1..made)

\* Unless the server gave up, or another handler's message took a number in the middle
\* of a resend, the client takes the server's messages in the order they were made,
\* none twice and none skipped, and has them all when its count is the server's: a
\* rewound counter and a ring full of repeats still resend exactly what was missed.
NothingSkipped == ~gaveUp /\ ~overtaken =>
    /\ \A i \in 1..Len(got) : got[i] = i
    /\ seen = server /\ pending = <<>> => Len(got) = made

\* The server deals with every message of the client once and in order, though the
\* client repeats itself and frames are lost; and with the exceptions above, a message
\* reaches its handler only when its sender had seen all the server had made: the
\* handler never works on an edit made without knowledge of one that was announced.
HandledInFull ==
    /\ Len(answers) = client
    /\ \A i \in 1..Len(answers) : answers[i].c = i
    /\ ~gaveUp /\ ~overtaken =>
          \A i \in 1..Len(answers) : answers[i].handled => answers[i].complete

\* A gap in the client's numbers does not end the connection.
GapIsSurvived == alive
=============================================================================
