------------------------------ MODULE Routing ------------------------------
(***************************************************************************)
(* Which server process a document is edited at: the runserver command     *)
(* (src/fiduswriter/base/management/commands/runserver.py), which starts   *)
(* one worker for each port of its machine, and the way of a browser to    *)
(* the worker of a document (get_ws_base in document/views.py, connect     *)
(* and check_server in document/consumers.py).                             *)
(*                                                                         *)
(* Sessions live in the memory of one worker, so all who edit a document   *)
(* must come to the same.  Each document has its place in the list PORTS,  *)
(* which every process reads once, when it starts; the list may be changed *)
(* while processes of several ages run, on several machines, and processes *)
(* may outlive the command that started them.                              *)
(***************************************************************************)
EXTENDS Naturals, Sequences

CONSTANTS Hosts,        \* machines, each with a configuration and a runserver
          Sites,        \* the machine of each port (LOCAL_PORTS): the choices
          Layouts,      \* the lists PORTS that follow one another
          Visitors,     \* browsers, which edit the same document
          DocumentId,   \* its id
          MaxStarts     \* bound on how often runserver is started

Ports == UNION {{Layouts[v][i] : i \in 1..Len(Layouts[v])} : v \in 1..Len(Layouts)}
Nobody == "none"

ASSUME RoutingAssumption ==
    /\ Sites \subseteq [Ports -> Hosts]
    /\ Layouts \in Seq(Seq(Ports)) /\ Layouts # <<>>
    /\ \A v \in 1..Len(Layouts) : Layouts[v] # <<>>
    /\ Nobody \notin Ports /\ {DocumentId, MaxStarts} \subseteq Nat

VARIABLES
    site,       \* the machine of each port
    seesPort,   \* does the ASGI server tell a consumer the port it is at?
    settings,   \* the list PORTS in the configuration of each machine, by number
    runner,     \* the runserver of each machine
    listener,   \* who listens on each port, with the settings it has read
    starting,   \* the workers that are about to listen on each port
    visitor,    \* the browsers: the port they were given, by which settings
    starts,     \* counter for its bound
    dropped     \* history: did a machine lose a port?

processes == <<runner, listener, starting>>
routingVars == <<site, seesPort, settings, processes, visitor, starts, dropped>>

NoRunner == [at |-> "off"]
Closed == [by |-> Nobody]
Maintenance == [by |-> "maintenance"]
Worker(who, v) == [by |-> who, loaded |-> v]
\* A worker is its runserver's own, or one an earlier runserver left behind.
Whose == {"own", "orphan"}
IsWorker(p) == listener[p].by \in Whose
Away == [at |-> "away"]

\* The ports a machine is to serve.
LocalPorts(h, v) == {p \in Ports : site[p] = h /\ \E i \in 1..Len(Layouts[v]) : Layouts[v][i] = p}
\* Those its runserver has read.
ItsPorts(h) == LocalPorts(h, runner[h].loaded)

\* All servers were started with some settings and serve.
RoutingInit ==
    /\ site \in Sites /\ seesPort \in BOOLEAN
    /\ \E v \in 1..Len(Layouts) :
        /\ settings = [h \in Hosts |-> v]
        /\ runner = [h \in Hosts |->
              IF LocalPorts(h, v) # {} THEN [at |-> "up", loaded |-> v] ELSE NoRunner]
        /\ listener = [p \in Ports |->
              IF p \in LocalPorts(site[p], v) THEN Worker("own", v) ELSE Closed]
    /\ starting = [p \in Ports |-> {}]
    /\ visitor = [c \in Visitors |-> Away]
    /\ starts = 0 /\ dropped = FALSE

-----------------------------------------------------------------------------
(* The runserver command.                                                  *)

\* The administrator changes the list on a machine.
Reconfigure(h) ==
    /\ settings[h] < Len(Layouts)
    /\ settings' = [settings EXCEPT ![h] = @ + 1]
    /\ dropped' = (dropped \/ ~(LocalPorts(h, settings[h]) \subseteq LocalPorts(h, settings[h] + 1)))
    /\ UNCHANGED <<site, seesPort, processes, visitor, starts>>

\* Those who were connected to a worker on these ports are not any more.
CutOff(ps) == visitor' = [c \in Visitors |->
    IF visitor[c].at = "connected" /\ visitor[c].base \in ps
    THEN [visitor[c] EXCEPT !.at = "given"] ELSE visitor[c]]

Step(h, what) == runner' = [runner EXCEPT ![h] = what]
Vacate(ps) == listener' = [p \in Ports |-> IF p \in ps THEN Closed ELSE listener[p]]

\* Whoever listens on the ports is killed (_free_ports), if fuser is there; a worker that
\* does not listen yet is not found.
StartRunner(h) == \E found \in BOOLEAN :
    LET ps == LocalPorts(h, settings[h])
    IN  /\ runner[h] = NoRunner /\ ps # {}
        /\ starts < MaxStarts /\ starts' = starts + 1
        /\ Step(h, [at |-> "binding", loaded |-> settings[h], todo |-> ps])
        /\ IF found THEN Vacate(ps) /\ CutOff(ps) ELSE UNCHANGED <<listener, visitor>>
        /\ UNCHANGED <<site, seesPort, settings, starting, dropped>>

\* The command has raised; its maintenance pages are still served.
Stuck(h) == [at |-> "stuck", loaded |-> runner[h].loaded]

\* A maintenance page on every port; a port that is taken raises.
BindMaintenance(h) ==
    /\ runner[h].at = "binding"
    /\ \/ \E p \in runner[h].todo :
             /\ listener[p] = Closed
             /\ listener' = [listener EXCEPT ![p] = Maintenance]
             /\ Step(h, [runner[h] EXCEPT !.todo = @ \ {p}])
       \/ /\ \E p \in runner[h].todo : listener[p] # Closed
          /\ Step(h, Stuck(h)) /\ UNCHANGED listener
       \/ /\ runner[h].todo = {}
          /\ Step(h, [at |-> "preparing", loaded |-> runner[h].loaded]) /\ UNCHANGED listener
    /\ UNCHANGED <<site, seesPort, settings, starting, visitor, starts, dropped>>

\* Checks, migrations and setup, which may fail; then the maintenance pages end.
Prepare(h) ==
    /\ runner[h].at = "preparing"
    /\ \/ Step(h, Stuck(h)) /\ UNCHANGED listener
       \/ /\ Step(h, [at |-> "spawning", loaded |-> runner[h].loaded, todo |-> ItsPorts(h)])
          /\ Vacate(ItsPorts(h))
    /\ UNCHANGED <<site, seesPort, settings, starting, visitor, starts, dropped>>

\* One process for each port.
Spawn(h) ==
    /\ runner[h].at = "spawning"
    /\ \E p \in runner[h].todo :
          /\ starting' = [starting EXCEPT ![p] = @ \cup {"own"}]
          /\ Step(h, IF runner[h].todo = {p} THEN [at |-> "up", loaded |-> runner[h].loaded]
                     ELSE [runner[h] EXCEPT !.todo = @ \ {p}])
    /\ UNCHANGED <<site, seesPort, settings, listener, visitor, starts, dropped>>

\* A worker reads the configuration and listens, or ends if the port is taken.
Listen(p) == \E who \in starting[p] :
    /\ starting' = [starting EXCEPT ![p] = @ \ {who}]
    /\ listener' = IF listener[p] = Closed
                 THEN [listener EXCEPT ![p] = Worker(who, settings[site[p]])] ELSE listener
    /\ UNCHANGED <<site, seesPort, settings, runner, visitor, starts, dropped>>

\* A worker fails.
WorkerEnds(p) ==
    /\ IsWorker(p)
    /\ Vacate({p}) /\ CutOff({p})
    /\ UNCHANGED <<site, seesPort, settings, runner, starting, starts, dropped>>

HasWorker(p) == listener[p].by = "own" \/ "own" \in starting[p]

\* The command is interrupted, or finds that one of its workers has ended, ...
Notice(h) ==
    /\ runner[h].at = "up"
    /\ Step(h, [at |-> "stopping", loaded |-> runner[h].loaded])
    /\ UNCHANGED <<site, seesPort, settings, listener, starting, visitor, starts, dropped>>

\* ... and stops the others, in five seconds at most each, before it ends.
StopWorkers(h) ==
    /\ runner[h].at = "stopping"
    /\ \/ \E p \in ItsPorts(h) :
             /\ HasWorker(p)
             /\ starting' = [starting EXCEPT ![p] = @ \ {"own"}]
             /\ IF listener[p].by = "own" THEN Vacate({p}) /\ CutOff({p})
                ELSE UNCHANGED <<listener, visitor>>
             /\ UNCHANGED runner
       \/ /\ \A p \in ItsPorts(h) : ~HasWorker(p)
          /\ Step(h, NoRunner) /\ UNCHANGED <<listener, starting, visitor>>
    /\ UNCHANGED <<site, seesPort, settings, starts, dropped>>

\* The command ends without that: it is killed, replaced by the reloader, which runs it
\* in a thread of its own, or cannot start a process.  Its workers go on.
Abandon(h) ==
    LET left(who) == IF who = "own" THEN "orphan" ELSE who
    IN  /\ runner[h] # NoRunner
        /\ Step(h, NoRunner)
        /\ listener' = [p \in Ports |->
              IF site[p] # h THEN listener[p]
              ELSE IF listener[p] = Maintenance THEN Closed
              ELSE IF IsWorker(p) THEN Worker("orphan", listener[p].loaded) ELSE listener[p]]
        /\ starting' = [p \in Ports |->
              IF site[p] = h THEN {left(who) : who \in starting[p]} ELSE starting[p]]
        /\ UNCHANGED <<site, seesPort, settings, visitor, starts, dropped>>

-----------------------------------------------------------------------------
(* The way to the document.                                                *)

\* The document's place in a list.
PlaceIn(v) == Layouts[v][(DocumentId % Len(Layouts[v])) + 1]

Given(c, p, v) == visitor' = [visitor EXCEPT ![c] = [at |-> "given", base |-> p, by |-> v]]

\* fault: lists of two ports are taken for lists of one
BaseAmongMany(p, v) == IF Len(Layouts[v]) <= 2 THEN p ELSE PlaceIn(v)

\* What a worker gives as the document's: with one port the one the page came from.
Base(p, v) == IF Len(Layouts[v]) < 2 THEN p ELSE PlaceIn(v)

\* get_ws_base, or validate_share_token for guests, at any worker.
AskBase(c) == \E p \in Ports :
    LET v == listener[p].loaded
    IN  /\ visitor[c].at # "connected" /\ IsWorker(p)
        /\ Given(c, Base(p, v), v)
        /\ UNCHANGED <<site, seesPort, settings, processes, starts, dropped>>

\* The consumer tells whoever is at the wrong port to go to the right one, if it can tell.
Redirects(p, v) == seesPort /\ Len(Layouts[v]) >= 2 /\ PlaceIn(v) # p

\* The browser opens its connection, now or again after it was cut off.
OpenSocket(c) ==
    /\ visitor[c].at = "given" /\ IsWorker(visitor[c].base)
    /\ LET p == visitor[c].base
           v == listener[p].loaded
       IN  IF Redirects(p, v) THEN Given(c, PlaceIn(v), v)
           ELSE visitor' = [visitor EXCEPT ![c].at = "connected"]
    /\ UNCHANGED <<site, seesPort, settings, processes, starts, dropped>>

CloseSocket(c) ==
    /\ visitor[c].at = "connected"
    /\ visitor' = [visitor EXCEPT ![c] = Away]
    /\ UNCHANGED <<site, seesPort, settings, processes, starts, dropped>>

-----------------------------------------------------------------------------
RunnerStep(h) == StartRunner(h) \/ BindMaintenance(h) \/ Prepare(h) \/ Spawn(h)
                   \/ Notice(h) \/ StopWorkers(h) \/ Abandon(h)
RoutingNext ==
    \/ \E h \in Hosts : Reconfigure(h) \/ RunnerStep(h)
    \/ \E p \in Ports : Listen(p) \/ WorkerEnds(p)
    \/ \E c \in Visitors : AskBase(c) \/ OpenSocket(c) \/ CloseSocket(c)

RoutingSpec == RoutingInit /\ [][RoutingNext]_routingVars

-----------------------------------------------------------------------------
Lists == 1..Len(Layouts)

\* Types; a runserver that is up or on its way has maintenance pages or workers on no
\* ports but its own, and who is connected is connected to a worker.
RoutingTypeOK ==
    /\ site \in Sites /\ seesPort \in BOOLEAN /\ dropped \in BOOLEAN /\ starts \in Nat
    /\ settings \in [Hosts -> Lists]
    /\ runner \in [Hosts -> {NoRunner}
           \cup [at : {"binding", "spawning"}, loaded : Lists, todo : SUBSET Ports]
           \cup [at : {"preparing", "up", "stopping", "stuck"}, loaded : Lists]]
    /\ listener \in [Ports -> {Closed, Maintenance} \cup [by : Whose, loaded : Lists]]
    /\ starting \in [Ports -> SUBSET Whose]
    /\ visitor \in [Visitors -> {Away}
           \cup [at : {"given", "connected"}, base : Ports, by : Lists]]
    /\ \A p \in Ports : listener[p] = Maintenance \/ HasWorker(p) =>
          runner[site[p]] # NoRunner /\ p \in ItsPorts(site[p])
    /\ \A c \in Visitors : visitor[c].at = "connected" => IsWorker(visitor[c].base)

\* Every machine was started with the present settings and all its workers serve.
InPlace(v) == \A h \in Hosts :
    /\ settings[h] = v
    /\ IF LocalPorts(h, v) = {} THEN runner[h] = NoRunner
       ELSE /\ runner[h] = [at |-> "up", loaded |-> v]
            /\ \A p \in LocalPorts(h, v) : listener[p].by = "own"

\* When the servers run with the same settings, whatever was killed, abandoned, replaced
\* or left behind before, all who are connected to the document are connected to one
\* worker - unless a machine lost a port, since nobody ends an abandoned worker there, or
\* the ASGI server does not tell the port and somebody was given his by older settings
\* (_free_ports, get_ws_base, check_server).
OneServer == \A v \in Lists : InPlace(v) /\ ~dropped =>
    \A c, d \in Visitors :
        /\ visitor[c].at = "connected" /\ visitor[d].at = "connected"
        /\ seesPort \/ (visitor[c].by = v /\ visitor[d].by = v)
        => visitor[c].base = visitor[d].base
=============================================================================
