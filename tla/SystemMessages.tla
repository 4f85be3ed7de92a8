--------------------------- MODULE SystemMessages ---------------------------
(***************************************************************************)
(* The connections to /ws/base/ of every server process, the presence rows *)
(* they leave in the database, and the messages a request sends to all of  *)
(* them (src/fiduswriter/base/consumers.py, base/models.py, base/views.py, *)
(* notify_access_change in document/views.py).                             *)
(*                                                                         *)
(* A request looks up in the rows which servers have clients, opens a      *)
(* connection to each, and the consumer of that connection passes the      *)
(* message on along the server's list of clients, suspended after each     *)
(* one, while others are appended to and removed from the list.  Requests  *)
(* run at the same time, and their connections are in the lists as well:   *)
(* one that is sent another's message before its own has been heard no     *)
(* longer has the number its own was given, which is then rejected.        *)
(***************************************************************************)
EXTENDS Naturals, Sequences

CONSTANTS Servers,      \* server processes, each with its broadcast address
          Browsers,     \* connections that leave a presence row
          Services,     \* native services: relay connections, without a row
          Home,         \* the server each connects to
          Requests,     \* requests that send a message, each its own
          MaxConnects,  \* bound on the connections opened
          MaxStops      \* and on the servers stopped

Clients == Browsers \cup Services
Kinds == {"system", "relay"}

ASSUME HomeAssumption == Home \in [Clients -> Servers] /\ Requests \cap Clients = {}
ASSUME SystemBoundAssumption == {MaxConnects, MaxStops} \subseteq Nat

VARIABLES
    running,    \* servers
    clients,    \* SystemMessageConsumer.clients of each server, in order; a request
                \* stands for the relay connection it has opened to the server
    socket,     \* each client's connection: where it is, and its number
    rows,       \* presence rows: whose, of which connection, how old
    post,       \* each request: how far it is, and what it sends to whom
    fan,        \* its connection to each server, and the loop over clients there
    connects, stops  \* counters for the bounds

VARIABLES
    reached,    \* history: clients each message was sent to
    owed,       \* history: clients it has to reach, while they are connected
    missed,     \* history: those of them the code passes over
    pruned,     \* history: clients whose row was pruned since their last pong
    abandoned   \* history: connections whose server went down, leaving the row

history == <<reached, owed, missed, pruned, abandoned>>
systemCounters == <<connects, stops>>
systemVars == <<running, clients, socket, rows, post, fan, systemCounters, history>>

New == [at |-> "new", kind |-> "system", todo |-> {}]
Idle == [at |-> "idle", next |-> 1]
Presence(c, age) == [who |-> c, no |-> socket[c].no, age |-> age]
Ours(c) == {r \in rows : r.who = c /\ r.no = socket[c].no}

SystemInit ==
    /\ running = Servers
    /\ clients = [s \in Servers |-> <<>>]
    /\ socket = [c \in Clients |-> [at |-> "out", no |-> 0]]
    /\ rows = {}
    /\ post = [q \in Requests |-> New]
    /\ fan = [f \in Requests \X Servers |-> Idle]
    /\ connects = 0 /\ stops = 0
    /\ reached = [q \in Requests |-> {}] /\ owed = [q \in Requests |-> {}]
    /\ missed = [q \in Requests |-> {}] /\ pruned = {} /\ abandoned = {}

Moves(c, at) == socket' = [socket EXCEPT ![c].at = at]

-----------------------------------------------------------------------------
(* Connections.                                                            *)

\* connect: the consumer enters the list before its row is created.
Connect(c) ==
    /\ socket[c].at = "out" /\ Home[c] \in running
    /\ connects < MaxConnects /\ connects' = connects + 1
    /\ clients' = [clients EXCEPT ![Home[c]] = Append(@, c)]
    /\ socket' = [socket EXCEPT ![c] =
            [at |-> IF c \in Browsers THEN "opening" ELSE "in", no |-> @.no + 1]]
    /\ UNCHANGED <<running, rows, post, fan, stops, history>>

Created(c) ==
    /\ socket[c].at = "opening"
    /\ rows' = rows \cup {Presence(c, "fresh")}
    /\ Moves(c, "in")
    /\ UNCHANGED <<running, clients, post, fan, systemCounters, history>>

\* send_pong saves the row, which inserts it again when it was pruned.
Pong(c) ==
    /\ c \in Browsers /\ socket[c].at = "in"
    /\ rows' = (rows \ Ours(c)) \cup {Presence(c, "fresh")}
    /\ pruned' = pruned \ {c}
    /\ UNCHANGED <<running, clients, socket, post, fan, systemCounters, reached, owed, missed,
                   abandoned>>

\* Five minutes without a pong.
Age(r) ==
    /\ r.age = "fresh"
    /\ rows' = (rows \ {r}) \cup {[r EXCEPT !.age = "stale"]}
    /\ UNCHANGED <<running, clients, socket, post, fan, systemCounters, history>>

\* connection_info counts the rows when it has pruned them.
Prune ==
    /\ \E r \in rows : r.age = "stale"
    /\ rows' = {r \in rows : r.age = "fresh"}
    /\ pruned' = pruned \cup {c \in Browsers : socket[c].at = "in" /\ Ours(c) \cap rows' = {}}
    /\ UNCHANGED <<running, clients, socket, post, fan, systemCounters, reached, owed, missed,
                   abandoned>>

\* fault: the row stays.
ForgottenRow(c) == rows

\* The rows without that of a connection that ends.
WithoutRow(c) == rows \ Ours(c)

\* disconnect: the row goes first, ...
Leave(c) ==
    /\ socket[c].at = "in"
    /\ rows' = WithoutRow(c)
    /\ Moves(c, "leaving")
    /\ owed' = [q \in Requests |-> owed[q] \ {c}]
    /\ pruned' = pruned \ {c}
    /\ UNCHANGED <<running, clients, post, fan, systemCounters, reached, missed, abandoned>>

Position(s, c) == CHOOSE k \in 1..Len(clients[s]) : clients[s][k] = c
TakeOut(list, k) == SubSeq(list, 1, k - 1) \o SubSeq(list, k + 1, Len(list))

\* What comes after a position in a list that loses an earlier member is
\* passed over by a loop that had got there.
PassedOver(q, s, k) ==
    IF fan[<<q, s>>].at = "fan" /\ k < fan[<<q, s>>].next /\ fan[<<q, s>>].next <= Len(clients[s])
    THEN {clients[s][fan[<<q, s>>].next]} ELSE {}

\* A member is taken off a list.
LeavesList(s, k) ==
    /\ clients' = [clients EXCEPT ![s] = TakeOut(@, k)]
    /\ missed' = [q \in Requests |-> missed[q] \cup (owed[q] \cap PassedOver(q, s, k))]

\* ... then the consumer, from the list.
Remove(c) ==
    /\ socket[c].at = "leaving"
    /\ LeavesList(Home[c], Position(Home[c], c))
    /\ Moves(c, "out")
    /\ UNCHANGED <<running, rows, post, fan, systemCounters, reached, owed, pruned, abandoned>>

-----------------------------------------------------------------------------
(* Messages.                                                               *)

\* fault: system messages go to other servers only
AudienceOfRelays(kind, x) == x \in Services \cup Requests

\* handle_message: a system message is for everyone, a relay message for the
\* services and the other relay connections.
Audience(kind, x) == kind = "system" \/ x \in Services \cup Requests

\* The clients a server sends to in a loop that cannot be disturbed.
Listening(s, kind) == {c \in Clients : \E k \in 1..Len(clients[s]) :
                                          clients[s][k] = c /\ Audience(kind, c)}

\* A relay connection is welcomed with message 1, and has that number still when nothing
\* else is sent to it.
Messaged(state) == IF state.at = "open" THEN [state EXCEPT !.at = "told"] ELSE state

\* send_system_message; or notify_access_change, which first tells the services of its own
\* server and the relay connections it has, along a copy of the list: the late ones when
\* their own message has been heard.
Post(q, kind) == \E s \in running, late \in SUBSET Requests :
    /\ post[q].at = "new"
    /\ post' = [post EXCEPT ![q] = [at |-> "read", kind |-> kind, todo |-> {}]]
    /\ IF kind = "system" THEN UNCHANGED <<fan, reached>>
       ELSE /\ reached' = [reached EXCEPT ![q] = Listening(s, kind)]
            /\ fan' = [f \in Requests \X Servers |->
                          IF f[2] = s /\ f[1] \notin late THEN Messaged(fan[f]) ELSE fan[f]]
    /\ UNCHANGED <<running, clients, socket, rows, systemCounters, owed, missed, pruned, abandoned>>

\* The servers are those somebody is present at.
Addressed == {Home[r.who] : r \in rows}

ReadServers(q) ==
    /\ post[q].at = "read"
    /\ post' = [post EXCEPT ![q].at = "send", ![q].todo = Addressed]
    /\ owed' = [owed EXCEPT ![q] = {c \in Clients :
                    /\ socket[c].at = "in" /\ Home[c] \in Addressed
                    /\ post[q].kind = "system" \/ c \in Services}]
    /\ UNCHANGED <<running, clients, socket, rows, fan, systemCounters, reached, missed, pruned,
                   abandoned>>

\* send_to_server, send_relay_to_server: the connection enters the list of that server; the
\* message follows, and is numbered as the first after the welcome.
SendTo(q, s) ==
    /\ post[q].at = "send" /\ s \in post[q].todo /\ s \in running
    /\ post' = [post EXCEPT ![q].todo = @ \ {s}]
    /\ clients' = [clients EXCEPT ![s] = Append(@, q)]
    /\ fan' = [fan EXCEPT ![<<q, s>>] = [at |-> "open", next |-> 1]]
    /\ UNCHANGED <<running, socket, rows, systemCounters, history>>

\* A server that cannot be reached ends the loop over the servers.
SendFails(q, s) ==
    /\ post[q].at = "send" /\ s \in post[q].todo /\ s \notin running
    /\ post' = [post EXCEPT ![q].at = "done"]
    /\ missed' = [missed EXCEPT ![q] = @ \cup {c \in owed[q] : Home[c] \in post[q].todo}]
    /\ UNCHANGED <<running, clients, socket, rows, fan, systemCounters, reached, owed, pruned,
                   abandoned>>

Posted(q) ==
    /\ post[q].at = "send" /\ post[q].todo = {}
    /\ post' = [post EXCEPT ![q].at = "done"]
    /\ UNCHANGED <<running, clients, socket, rows, fan, systemCounters, history>>

\* receive: the message has the number that is due, and the consumer begins to pass it on.
Hear(q, s) ==
    /\ fan[<<q, s>>].at = "open"
    /\ fan' = [fan EXCEPT ![<<q, s>>].at = "fan"]
    /\ UNCHANGED <<running, clients, socket, rows, post, systemCounters, history>>

\* receive: something was sent to the connection before.  It is sent again and the message
\* rejected; the request has closed the connection, and the message is lost for this server.
Reject(q, s) ==
    /\ fan[<<q, s>>].at = "told"
    /\ fan' = [fan EXCEPT ![<<q, s>>] = Idle]
    /\ LET k == Position(s, q)
       IN  /\ clients' = [clients EXCEPT ![s] = TakeOut(@, k)]
           /\ missed' = [r \in Requests |-> missed[r] \cup
                            (IF r = q THEN {c \in owed[q] : Home[c] = s}
                             ELSE owed[r] \cap PassedOver(r, s, k))]
    /\ UNCHANGED <<running, socket, rows, post, systemCounters, reached, owed, pruned, abandoned>>

\* The places still ahead of a loop.
Ahead(q, s) == {k \in fan[<<q, s>>].next..Len(clients[s]) : Audience(post[q].kind, clients[s][k])}

\* The loop sends to the next client, or relay connection.
Pass(q, s) ==
    /\ fan[<<q, s>>].at = "fan"
    /\ \E k \in Ahead(q, s) :
          /\ \A j \in Ahead(q, s) : k <= j
          /\ fan' = [f \in Requests \X Servers |->
                        IF f = <<q, s>> THEN [at |-> "fan", next |-> k + 1]
                        ELSE IF f = <<clients[s][k], s>> THEN Messaged(fan[f]) ELSE fan[f]]
          /\ reached' = [reached EXCEPT ![q] = @ \cup ({clients[s][k]} \cap Clients)]
    /\ UNCHANGED <<running, clients, socket, rows, post, systemCounters, owed, missed, pruned,
                   abandoned>>

\* The loop is over and the relay connection closed.
Passed(q, s) ==
    /\ fan[<<q, s>>].at = "fan" /\ Ahead(q, s) = {}
    /\ fan' = [fan EXCEPT ![<<q, s>>] = Idle]
    /\ LeavesList(s, Position(s, q))
    /\ UNCHANGED <<running, socket, rows, post, systemCounters, reached, owed, pruned, abandoned>>

-----------------------------------------------------------------------------
(* Servers.                                                                *)

Tenants(s) == {c \in Clients : Home[c] = s /\ socket[c].at # "out"}

\* A server goes down, and the rows of these clients with it.
Down(s, removed) ==
    /\ s \in running
    /\ stops < MaxStops /\ stops' = stops + 1
    /\ running' = running \ {s}
    /\ clients' = [clients EXCEPT ![s] = <<>>]
    /\ fan' = [f \in Requests \X Servers |-> IF f[2] = s THEN Idle ELSE fan[f]]
    /\ socket' = [c \in Clients |->
            IF c \in Tenants(s) THEN [socket[c] EXCEPT !.at = "out"] ELSE socket[c]]
    /\ rows' = rows \ UNION {Ours(c) : c \in removed}
    /\ abandoned' = abandoned \cup {<<r.who, r.no>> : r \in
            {r \in rows' : r.who \in Tenants(s) /\ r.no = socket[r.who].no}}
    /\ owed' = [q \in Requests |-> owed[q] \ Tenants(s)]
    /\ pruned' = pruned \ Tenants(s)
    /\ UNCHANGED <<post, connects, reached, missed>>

\* remove_all_presences removes each client it comes to from the list it
\* loops over, and so comes to every second one.
Stop(s) == Down(s, {clients[s][k] : k \in {k \in 1..Len(clients[s]) : k % 2 = 1}} \cap Browsers)

Crash(s) == Down(s, {})

Restart(s) ==
    /\ s \notin running
    /\ running' = running \cup {s}
    /\ UNCHANGED <<clients, socket, rows, post, fan, systemCounters, history>>

-----------------------------------------------------------------------------
SystemNext ==
    \/ \E c \in Clients : Connect(c) \/ Created(c) \/ Pong(c) \/ Leave(c) \/ Remove(c)
    \/ (\E r \in rows : Age(r)) \/ Prune
    \/ \E q \in Requests :
          \/ (\E kind \in Kinds : Post(q, kind)) \/ ReadServers(q) \/ Posted(q)
          \/ \E s \in Servers : \/ SendTo(q, s) \/ SendFails(q, s) \/ Hear(q, s) \/ Reject(q, s)
                                 \/ Pass(q, s) \/ Passed(q, s)
    \/ \E s \in Servers : Stop(s) \/ Crash(s) \/ Restart(s)

SystemSpec == SystemInit /\ [][SystemNext]_systemVars

-----------------------------------------------------------------------------
\* Types; a client is in the list of its server, once, while it is connected.
SystemTypeOK ==
    /\ running \subseteq Servers
    /\ clients \in [Servers -> Seq(Clients \cup Requests)]
    /\ socket \in [Clients -> [at : {"out", "opening", "in", "leaving"}, no : Nat]]
    /\ rows \subseteq [who : Browsers, no : Nat, age : {"fresh", "stale"}]
    /\ post \in [Requests -> [at : {"new", "read", "send", "done"}, kind : Kinds,
                              todo : SUBSET Servers]]
    /\ fan \in [Requests \X Servers -> [at : {"idle", "open", "told", "fan"}, next : Nat \ {0}]]
    /\ \A c \in Clients : socket[c].at # "out" <=>
            \E k \in 1..Len(clients[Home[c]]) : clients[Home[c]][k] = c
    /\ reached \in [Requests -> SUBSET Clients] /\ owed \in [Requests -> SUBSET Clients]
    /\ missed \in [Requests -> SUBSET Clients] /\ pruned \subseteq Browsers
    /\ abandoned \subseteq Browsers \X Nat

\* A presence row stands for one live connection, or for one whose server
\* went down; a browser that is connected has one, unless it was silent for
\* five minutes and pruned (connect, disconnect, send_pong, prune).
PresenceFollows ==
    /\ \A r, q \in rows : r.who = q.who /\ r.no = q.no => r = q
    /\ \A r \in rows : <<r.who, r.no>> \notin abandoned =>
            socket[r.who].at = "in" /\ socket[r.who].no = r.no
    /\ \A c \in Browsers : socket[c].at = "in" /\ c \notin pruned => Ours(c) # {}

\* When a message has been passed on, everybody it was meant for who was
\* connected all along has been sent it, whatever other messages are on
\* their way, but for those the code passes over: the next in turn when an
\* earlier member of the list leaves, those of the servers left when one
\* cannot be reached, and those of a server whose relay connection was sent
\* another message first (send_system_message, notify_access_change,
\* receive, handle_message).
PostOver(q) == post[q].at = "done" /\ \A s \in Servers : fan[<<q, s>>] = Idle
MessageArrives == \A q \in Requests : PostOver(q) => owed[q] \ missed[q] \subseteq reached[q]
=============================================================================
