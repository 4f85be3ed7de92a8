---------------------------- MODULE NativeSession ----------------------------
(***************************************************************************)
(* A document and its sessions in the native websocket service.  Every     *)
(* connection is a task of a thread pool: whatever happens between two     *)
(* releases of a lock, or two answers of the database, is a step, and the  *)
(* steps of different tasks interleave.  Nothing orders the writes of      *)
(* different tasks in the database.                                        *)
(*                                                                         *)
(* The text is the sequence of the diffs applied to it.  Chat, selections, *)
(* titles, paths and the list of participants change nothing modelled here *)
(* and are left out, and so is what the client does with what it is sent.  *)
(***************************************************************************)
EXTENDS Integers, Sequences, FiniteSets

CONSTANTS
    Conns,          \* connections, each of its own user
    Owners,         \* those of the owner
    Writers,        \* those whose client sends diffs
    Tasks,          \* tasks that re-read the rights
    Scenarios,      \* environments: one author at a time or not, and the bounds on the
                    \* diffs sent, the connections made and the changes of rights
    HistoryLength,  \* HISTORY_LENGTH
    SaveInterval,   \* DOC_SAVE_INTERVAL
    MaxSessions     \* bound on the sessions made

ASSUME ConnAssumption == IsFiniteSet(Conns) /\ Owners \cup Writers \subseteq Conns
ASSUME ScenarioAssumption ==
    Scenarios \subseteq [solo : BOOLEAN, diffs : Nat, connects : Nat, changes : Nat]
ASSUME LengthAssumption == {HistoryLength, SaveInterval} \subseteq Nat \ {0}
ASSUME BoundAssumption == MaxSessions \in Nat

VARIABLES
    scenario,   \* solo: one author at a time, who pauses while a save is under way
    row,        \* the document's row
    right,      \* the rights in the database
    registry,   \* REGISTRY: the session of the document, or NoSession
    sessions,   \* DocumentSession objects, by number
    made,       \* how many of them were made
    at,         \* where each connection's task is
    ref,        \* Connection.session
    brief,      \* the row as it was read to subscribe
    ctx,        \* Participant.context.rights, in the session
    own,        \* Connection.context.rights, a copy of it
    kicked,     \* connections told to close
    leaving,    \* the last ones out, who save and remove the session
    msg,        \* the diff a task works on
    snap,       \* what a task is about to write
    refresh,    \* a re-read of the rights: its session and what it read
    poisoned,   \* sessions whose lock a task died with: every task that takes it dies
    watching,   \* the task that has the rights re-read every few seconds is alive
    confirmed,  \* the diffs confirmed to their authors
    used        \* counts: diffs sent, connections made, changes of rights

vars == <<scenario, row, right, registry, sessions, made, at, ref, brief, ctx, own,
          kicked, leaving, msg, snap, refresh, poisoned, watching, confirmed, used>>
locks == <<poisoned, watching>>

NoSession == 0
Rights == {"write", "read", "none"}
Places == {"out", "resolving", "initialising", "adding", "joined", "idle",
           "checked", "behind", "applied", "pushed", "due",
           "saving", "writing", "wrote", "removing", "closing"}

Diff == [v : Nat, id : Nat]
Doc == [text : Seq(Nat), version : Nat, diffs : Seq(Diff), blank : BOOLEAN]
EmptyDoc == [text |-> <<>>, version |-> 0, diffs |-> <<>>, blank |-> FALSE]
\* The task of a background save: none, waiting for the database, or answered.
Background == {"none", "writing", "wrote"}
Session == [text : Seq(Nat), version : Nat, diffs : Seq(Diff), saved : Nat,
            parts : SUBSET Conns, pending : Background, snap : Doc]
NoMsg == [v |-> 0, dv |-> 0, id |-> 0]
NoRefresh == [s |-> NoSession, rights |-> [c \in Conns |-> "none"]]

Newest(ds, n) == IF n < Len(ds) THEN SubSeq(ds, Len(ds) - n + 1, Len(ds)) ELSE ds
Trim(ds) == Newest(ds, HistoryLength)

\* What a save writes of a session.
Snapshot(s) == [text |-> sessions[s].text, version |-> sessions[s].version,
                diffs |-> sessions[s].diffs, blank |-> FALSE]

NewSession(b) == [text |-> b.text, version |-> b.version, diffs |-> Trim(b.diffs),
                  saved |-> b.version, parts |-> {}, pending |-> "none",
                  snap |-> EmptyDoc]

Init ==
    /\ scenario \in Scenarios
    /\ \E blank \in BOOLEAN : row = [EmptyDoc EXCEPT !.blank = blank]
    /\ right = [c \in Conns |-> "write"]
    /\ registry = NoSession
    /\ sessions = [s \in 1..MaxSessions |-> NewSession(EmptyDoc)]
    /\ made = 0
    /\ at = [c \in Conns |-> "out"]
    /\ ref = [c \in Conns |-> NoSession]
    /\ brief = [c \in Conns |-> EmptyDoc]
    /\ ctx = [c \in Conns |-> "none"] /\ own = [c \in Conns |-> "none"]
    /\ kicked = {} /\ leaving = {}
    /\ msg = [c \in Conns |-> NoMsg]
    /\ snap = [c \in Conns |-> EmptyDoc]
    /\ refresh = [t \in Tasks |-> NoRefresh]
    /\ poisoned = {} /\ watching = TRUE
    /\ confirmed = {}
    /\ used = [diffs |-> 0, connects |-> 0, changes |-> 0]

Solo == scenario.solo
InFlight == \E s \in 1..made : sessions[s].pending # "none"
\* The session a connection's task works on.
My(c) == sessions[ref[c]]
Goto(c, place) == at' = [at EXCEPT ![c] = place]
\* A task can go on only while the lock of its session can be taken.
Sound(c) == ref[c] \notin poisoned
\* A message is handled: the loop reads the next one unless it was told to close.
Done(c) == Goto(c, IF c \in kicked THEN "closing" ELSE "idle")

-----------------------------------------------------------------------------
(* Subscribing.                                                            *)

\* resolve_subscribe begins by reading the row.
LoadRow(c) ==
    /\ at[c] = "out"
    /\ used.connects < scenario.connects
    /\ Solo => ~InFlight /\ \A x \in Conns : at[x] = "out"
    /\ brief' = [brief EXCEPT ![c] = row]
    /\ used' = [used EXCEPT !.connects = @ + 1]
    /\ Goto(c, "resolving")
    /\ UNCHANGED <<scenario, row, right, registry, sessions, made, ref, ctx, own, kicked,
                   leaving, msg, snap, refresh, locks, confirmed>>

Deny(c) ==
    /\ at[c] = "resolving" /\ right[c] = "none"
    /\ brief' = [brief EXCEPT ![c] = EmptyDoc]
    /\ Goto(c, "out")
    /\ UNCHANGED <<scenario, row, right, registry, sessions, made, ref, ctx, own, kicked,
                   leaving, msg, snap, refresh, locks, confirmed, used>>

\* session_for_document: the creation lock makes this one step; the row was read before.
OpenOrJoin(c) ==
    /\ at[c] = "resolving" /\ right[c] # "none"
    /\ ctx' = [ctx EXCEPT ![c] = right[c]]
    /\ \/ /\ registry # NoSession
          /\ ref' = [ref EXCEPT ![c] = registry]
          /\ Goto(c, "adding")
          /\ UNCHANGED <<sessions, made, registry>>
       \/ /\ registry = NoSession /\ made < MaxSessions
          /\ made' = made + 1
          /\ sessions' = [sessions EXCEPT ![made + 1] = NewSession(brief[c])]
          /\ registry' = made + 1
          /\ ref' = [ref EXCEPT ![c] = made + 1]
          /\ Goto(c, IF brief[c].blank THEN "initialising" ELSE "adding")
    /\ brief' = [brief EXCEPT ![c] = EmptyDoc]
    /\ UNCHANGED <<scenario, row, right, own, kicked, leaving, msg, snap,
                   refresh, locks, confirmed, used>>

\* fault: a single diff is not worth a write
SaveNeededLate(s) == sessions[s].version > sessions[s].saved + 1
SaveNeeded(s) == sessions[s].version # sessions[s].saved

\* spawn_save: nothing if a save is queued or running, or nothing is new.
SpawnSave(s, force) ==
    sessions' = IF \/ sessions[s].pending # "none"
                   \/ ~force /\ ~SaveNeeded(s)
                THEN sessions
                ELSE [sessions EXCEPT ![s].pending = "writing", ![s].snap = Snapshot(s)]

\* A fresh document is saved as filled from its template.
Initialise(c) ==
    /\ at[c] = "initialising" /\ Sound(c)
    /\ SpawnSave(ref[c], TRUE)
    /\ Goto(c, "adding")
    /\ UNCHANGED <<scenario, row, right, registry, made, ref, brief, ctx, own, kicked, leaving,
                   msg, snap, refresh, locks, confirmed, used>>

AddParticipant(c) ==
    /\ at[c] = "adding" /\ Sound(c)
    /\ sessions' = [sessions EXCEPT ![ref[c]].parts = @ \cup {c}]
    /\ Goto(c, "joined")
    /\ UNCHANGED <<scenario, row, right, registry, made, ref, brief, ctx, own, kicked, leaving,
                   msg, snap, refresh, locks, confirmed, used>>

\* The lock is taken again to copy the context the participant was given.
CopyContext(c) ==
    /\ at[c] = "joined" /\ Sound(c) /\ c \in My(c).parts
    /\ own' = [own EXCEPT ![c] = ctx[c]]
    /\ Goto(c, "idle")
    /\ UNCHANGED <<scenario, row, right, registry, sessions, made, ref, brief, ctx, kicked,
                   leaving, msg, snap, refresh, locks, confirmed, used>>

-----------------------------------------------------------------------------
(* Catching up.                                                            *)

\* fault: one version too many
ReachesBackFurther(v, version, ds) == v + Len(ds) + 1 >= version
ReachesBack(v, version, ds) == v + Len(ds) >= version

\* A client at version v is behind: it is sent the newest version - v diffs if the list
\* reaches back far enough, or told to refetch after a save.
Fix(v, version, ds) == Newest(ds, version - v)
CatchUp(c, v, version, ds) ==
    IF ReachesBack(v, version, ds) THEN Done(c) ELSE Goto(c, "saving")

\* check_version; a client that is ahead is told to fetch the document, after a save.
CheckVersion(c) ==
    /\ at[c] = "idle" /\ Sound(c)
    /\ \/ \E v \in 0..(My(c).version - 1) : CatchUp(c, v, My(c).version, My(c).diffs)
       \/ Goto(c, "saving")
    /\ UNCHANGED <<scenario, row, right, registry, sessions, made, ref, brief, ctx, own, kicked,
                   leaving, msg, snap, refresh, locks, confirmed, used>>

-----------------------------------------------------------------------------
(* Diffs.                                                                  *)

\* handle_diff looks at the version (a client that is ahead shall refetch) ...
ReceiveDiff(c) ==
    /\ at[c] = "idle" /\ c \in Writers /\ Sound(c)
    /\ own[c] = "write"
    /\ used.diffs < scenario.diffs
    /\ Solo => ~InFlight
    /\ used' = [used EXCEPT !.diffs = @ + 1]
    /\ \/ \E v \in 0..My(c).version :
           /\ msg' = [msg EXCEPT ![c] = [v |-> v, dv |-> My(c).version, id |-> used'.diffs]]
           /\ Goto(c, IF v = My(c).version THEN "checked" ELSE "behind")
       \/ Goto(c, "saving") /\ UNCHANGED msg
    /\ UNCHANGED <<scenario, row, right, registry, sessions, made, ref, brief, ctx, own, kicked,
                   leaving, snap, refresh, locks, confirmed>>

\* ... and at the list of diffs in another scope of the lock.
FixBehind(c) ==
    /\ at[c] = "behind" /\ Sound(c)
    /\ CatchUp(c, msg[c].v, msg[c].dv, My(c).diffs)
    /\ msg' = [msg EXCEPT ![c] = NoMsg]
    /\ UNCHANGED <<scenario, row, right, registry, sessions, made, ref, brief, ctx, own, kicked,
                   leaving, snap, refresh, locks, confirmed, used>>

\* The steps do not apply: reset_collaboration.
\* fault: an error of the editor counts as success
RefusedUnseen(c) == Goto(c, "applied") /\ UNCHANGED msg
Refused(c) == Goto(c, "saving") /\ msg' = [msg EXCEPT ![c] = NoMsg]

ApplySteps(c) ==
    /\ at[c] = "checked" /\ Sound(c)
    /\ \/ /\ sessions' = [sessions EXCEPT ![ref[c]].text = Append(@, msg[c].id)]
          /\ Goto(c, "applied")
          /\ UNCHANGED msg
       \/ Refused(c) /\ UNCHANGED sessions
    /\ UNCHANGED <<scenario, row, right, registry, made, ref, brief, ctx, own, kicked, leaving,
                   snap, refresh, locks, confirmed, used>>

Logged(s, m) == [s EXCEPT !.diffs = Trim(Append(@, [v |-> m.v, id |-> m.id])),
                          !.version = @ + 1]
\* The list and the version change in one scope of the lock.
PushDiff(c) ==
    /\ at[c] = "applied" /\ Sound(c)
    /\ sessions' = [sessions EXCEPT ![ref[c]] = Logged(@, msg[c])]
    /\ Goto(c, "pushed")
    /\ UNCHANGED <<scenario, row, right, registry, made, ref, brief, ctx, own, kicked, leaving,
                   msg, snap, refresh, locks, confirmed, used>>

IsDue(version) == version % SaveInterval = 0

Confirm(c) ==
    /\ confirmed' = confirmed \cup {msg[c].id}
    /\ msg' = [msg EXCEPT ![c] = NoMsg]
    /\ Done(c)

\* Another look at the version decides whether a save is due.
LookIfDue(c) ==
    /\ at[c] = "pushed" /\ Sound(c)
    /\ \/ /\ IsDue(My(c).version)
          /\ Goto(c, "due")
          /\ UNCHANGED <<msg, confirmed>>
       \/ ~IsDue(My(c).version) /\ Confirm(c)
    /\ UNCHANGED <<scenario, row, right, registry, sessions, made, ref, brief, ctx, own, kicked,
                   leaving, snap, refresh, locks, used>>

SaveDue(c) ==
    /\ at[c] = "due" /\ Sound(c)
    /\ SpawnSave(ref[c], FALSE)
    /\ Confirm(c)
    /\ UNCHANGED <<scenario, row, right, registry, made, ref, brief, ctx, own, kicked, leaving,
                   snap, refresh, locks, used>>

-----------------------------------------------------------------------------
(* Saving and leaving.                                                     *)

\* Whoever went as the last one removes the session once it has saved.
AfterSave(c) == IF c \in leaving THEN Goto(c, "removing") ELSE Done(c)

\* save(), for a client that is told to refetch and for the last one out.
StartSave(c) ==
    /\ at[c] = "saving" /\ Sound(c)
    /\ \/ /\ SaveNeeded(ref[c])
          /\ snap' = [snap EXCEPT ![c] = Snapshot(ref[c])]
          /\ Goto(c, "writing")
       \/ /\ ~SaveNeeded(ref[c])
          /\ AfterSave(c)
          /\ UNCHANGED snap
    /\ UNCHANGED <<scenario, row, right, registry, sessions, made, ref, brief, ctx, own, kicked,
                   leaving, msg, refresh, locks, confirmed, used>>

WriteRow(c) ==
    /\ at[c] = "writing"
    /\ row' = snap[c]
    /\ snap' = [snap EXCEPT ![c] = EmptyDoc]
    /\ Goto(c, "wrote")
    /\ UNCHANGED <<scenario, right, registry, sessions, made, ref, brief, ctx, own, kicked,
                   leaving, msg, refresh, locks, confirmed, used>>

\* A failed write is logged and forgotten.
FailWrite(c) ==
    /\ at[c] = "writing" /\ ~Solo
    /\ snap' = [snap EXCEPT ![c] = EmptyDoc]
    /\ AfterSave(c)
    /\ UNCHANGED <<scenario, row, right, registry, sessions, made, ref, brief, ctx, own, kicked,
                   leaving, msg, refresh, locks, confirmed, used>>

\* What counts as saved is the version of now, not the one that was written.
Saved(s) == [sessions EXCEPT ![s].saved = sessions[s].version]
MarkSaved(c) ==
    /\ at[c] = "wrote" /\ Sound(c)
    /\ sessions' = Saved(ref[c])
    /\ AfterSave(c)
    /\ UNCHANGED <<scenario, row, right, registry, made, ref, brief, ctx, own, kicked, leaving,
                   msg, snap, refresh, locks, confirmed, used>>

\* The task of spawn_save: its write, its failure and what it counts as saved, if it still
\* gets the lock.
Background_Write(s) ==
    /\ sessions[s].pending = "writing"
    /\ row' = sessions[s].snap
    /\ sessions' = [sessions EXCEPT ![s].pending = "wrote", ![s].snap = EmptyDoc]
    /\ UNCHANGED <<scenario, right, registry, made, at, ref, brief, ctx, own, kicked, leaving,
                   msg, snap, refresh, locks, confirmed, used>>

Background_Fail(s) ==
    /\ \/ sessions[s].pending = "writing" /\ ~Solo
       \/ sessions[s].pending = "wrote" /\ s \in poisoned
    /\ sessions' = [sessions EXCEPT ![s].pending = "none", ![s].snap = EmptyDoc]
    /\ UNCHANGED <<scenario, row, right, registry, made, at, ref, brief, ctx, own, kicked,
                   leaving, msg, snap, refresh, locks, confirmed, used>>

Background_Done(s) ==
    /\ sessions[s].pending = "wrote" /\ s \notin poisoned
    /\ sessions' = [Saved(s) EXCEPT ![s].pending = "none"]
    /\ UNCHANGED <<scenario, row, right, registry, made, at, ref, brief, ctx, own, kicked,
                   leaving, msg, snap, refresh, locks, confirmed, used>>

\* What a task forgets when it ends.
Forget(c) ==
    /\ Goto(c, "out")
    /\ ref' = [ref EXCEPT ![c] = NoSession]
    /\ ctx' = [ctx EXCEPT ![c] = "none"] /\ own' = [own EXCEPT ![c] = "none"]
    /\ kicked' = kicked \ {c} /\ leaving' = leaving \ {c}

\* fault: who was told to close is not in the session any more and is not counted
LastOutSelf(c) == My(c).parts = {c}
LastOut(c) == My(c).parts \ {c} = {}

\* cleanup: the connection is lost, closed or told to close.
Leave(c) ==
    /\ at[c] \in {"idle", "closing"} /\ Sound(c)
    /\ sessions' = [sessions EXCEPT ![ref[c]].parts = @ \ {c}]
    /\ IF LastOut(c)
       THEN /\ Goto(c, "saving")
            /\ leaving' = leaving \cup {c}
            /\ UNCHANGED <<ref, ctx, own, kicked>>
       ELSE Forget(c)
    /\ UNCHANGED <<scenario, row, right, registry, made, brief, msg, snap, refresh, locks,
                   confirmed, used>>

\* Whichever session is registered is removed.
RemoveSession(c) ==
    /\ at[c] = "removing"
    /\ registry' = NoSession
    /\ Forget(c)
    /\ UNCHANGED <<scenario, row, right, sessions, made, brief, msg, snap, refresh, locks,
                   confirmed, used>>

\* A participant was put out before its context was copied: the task dies with the lock, and
\* with it every other that takes the lock, whose places and participants stay.
Panic(c) ==
    /\ at[c] \notin {"out", "resolving", "writing", "removing"}
    /\ ~Sound(c) \/ (at[c] = "joined" /\ c \notin My(c).parts)
    /\ poisoned' = poisoned \cup {ref[c]}
    /\ msg' = [msg EXCEPT ![c] = NoMsg]
    /\ Forget(c)
    /\ UNCHANGED <<scenario, row, right, registry, sessions, made, brief, snap, refresh,
                   watching, confirmed, used>>

-----------------------------------------------------------------------------
(* Rights.                                                                 *)

\* The owner or the Python views change a right in the database.
ChangeRight(c) ==
    /\ c \notin Owners
    /\ used.changes < scenario.changes
    /\ \E r \in Rights \ {right[c]} : right' = [right EXCEPT ![c] = r]
    /\ used' = [used EXCEPT !.changes = @ + 1]
    /\ UNCHANGED <<scenario, row, registry, sessions, made, at, ref, brief, ctx, own, kicked,
                   leaving, msg, snap, refresh, locks, confirmed>>

\* refresh_session_rights, on a relay event or periodically: the session that is
\* registered, and its rows of rights ...
StartRefresh(t) ==
    /\ refresh[t] = NoRefresh
    /\ registry # NoSession
    /\ refresh' = [refresh EXCEPT ![t] = [s |-> registry, rights |-> right]]
    /\ UNCHANGED <<scenario, row, right, registry, sessions, made, at, ref, brief, ctx, own,
                   kicked, leaving, msg, snap, locks, confirmed, used>>

\* ... are applied to whoever is in it by then, unless the lock is poisoned.
\* fault: whoever may write counts as the owner
ExpelledReaders(t) == {c \in sessions[refresh[t].s].parts \ Owners :
                           refresh[t].rights[c] = "none" /\ own[c] # "write"}
Expelled(t) == {c \in sessions[refresh[t].s].parts \ Owners : refresh[t].rights[c] = "none"}
Apply(t) ==
    LET s == refresh[t].s
    IN  /\ sessions' = [sessions EXCEPT ![s].parts = @ \ Expelled(t)]
        /\ kicked' = kicked \cup Expelled(t)
        /\ ctx' = [c \in Conns |-> IF c \in sessions[s].parts \ (Owners \cup Expelled(t))
                                   THEN refresh[t].rights[c] ELSE ctx[c]]
ApplyRefresh(t) ==
    /\ refresh[t] # NoRefresh
    /\ \/ refresh[t].s \notin poisoned /\ Apply(t)
       \/ refresh[t].s \in poisoned /\ UNCHANGED <<sessions, kicked, ctx>>
    /\ refresh' = [refresh EXCEPT ![t] = NoRefresh]
    /\ UNCHANGED <<scenario, row, right, registry, made, at, ref, brief, own, leaving,
                   msg, snap, locks, confirmed, used>>

\* rights_refresher takes the lock of every session that is registered.
RefresherPanics ==
    /\ watching /\ registry \in poisoned
    /\ watching' = FALSE
    /\ UNCHANGED <<scenario, row, right, registry, sessions, made, at, ref, brief, ctx, own,
                   kicked, leaving, msg, snap, refresh, poisoned, confirmed, used>>

-----------------------------------------------------------------------------
(* The server stops: flush, with every task between two messages.          *)

FlushedRow == IF registry \in {NoSession} \cup poisoned \/ ~SaveNeeded(registry)
              THEN row ELSE Snapshot(registry)
Flush ==
    /\ \A c \in Conns : at[c] \in {"out", "idle"}
    /\ (\E c \in Conns : at[c] = "idle") \/ poisoned # {}
    /\ ~InFlight
    /\ row' = FlushedRow
    /\ registry' = NoSession
    /\ sessions' = [s \in 1..MaxSessions |-> NewSession(EmptyDoc)]
    /\ at' = [c \in Conns |-> "out"] /\ ref' = [c \in Conns |-> NoSession]
    /\ ctx' = [c \in Conns |-> "none"] /\ own' = [c \in Conns |-> "none"]
    /\ kicked' = {}
    /\ refresh' = [t \in Tasks |-> NoRefresh]
    /\ poisoned' = {} /\ watching' = TRUE
    /\ UNCHANGED <<scenario, right, made, brief, leaving, msg, snap, confirmed, used>>

-----------------------------------------------------------------------------
\* The steps a task takes without waiting for its client.
Handler(c) ==
    \/ Deny(c) \/ OpenOrJoin(c) \/ Initialise(c) \/ AddParticipant(c) \/ CopyContext(c)
    \/ FixBehind(c) \/ ApplySteps(c) \/ PushDiff(c) \/ LookIfDue(c) \/ SaveDue(c)
    \/ StartSave(c) \/ WriteRow(c) \/ FailWrite(c) \/ MarkSaved(c) \/ RemoveSession(c)
    \/ at[c] # "idle" /\ Panic(c)
MustLeave(c) == (c \in kicked \/ at[c] = "closing") /\ (Leave(c) \/ Panic(c))
Refresh(t) == StartRefresh(t) \/ ApplyRefresh(t)

Next ==
    \/ \E c \in Conns : \/ LoadRow(c) \/ Handler(c) \/ CheckVersion(c) \/ ReceiveDiff(c)
                        \/ Leave(c) \/ Panic(c) \/ ChangeRight(c)
    \/ \E s \in 1..made : Background_Write(s) \/ Background_Fail(s) \/ Background_Done(s)
    \/ \E t \in Tasks : Refresh(t)
    \/ RefresherPanics
    \/ Flush

\* A task that is not waiting for its client goes on, and the rights are re-read while the
\* task is alive that has it done.
Recheck(t) == (watching /\ registry \notin poisoned /\ StartRefresh(t)) \/ ApplyRefresh(t)
Fairness ==
    /\ \A c \in Conns : WF_vars(Handler(c)) /\ WF_vars(MustLeave(c))
    /\ \A t \in Tasks : WF_vars(Recheck(t))

Spec == Init /\ [][Next]_vars /\ Fairness

-----------------------------------------------------------------------------
(* Properties.                                                             *)

\* Every variable keeps its type (the objects of native/src/session.rs and connection.rs).
TypeOK ==
    /\ scenario \in Scenarios
    /\ row \in Doc
    /\ right \in [Conns -> Rights] /\ ctx \in [Conns -> Rights] /\ own \in [Conns -> Rights]
    /\ registry \in 0..made /\ made \in 0..MaxSessions
    /\ sessions \in [1..MaxSessions -> Session]
    /\ at \in [Conns -> Places]
    /\ ref \in [Conns -> 0..made]
    /\ brief \in [Conns -> Doc] /\ snap \in [Conns -> Doc]
    /\ kicked \in SUBSET Conns /\ leaving \in SUBSET Conns
    /\ msg \in [Conns -> [v : Nat, dv : Nat, id : Nat]]
    /\ refresh \in [Tasks -> [s : 0..made, rights : [Conns -> Rights]]]
    /\ poisoned \subseteq 1..made /\ watching \in BOOLEAN
    /\ confirmed \in SUBSET Nat
    /\ used \in [diffs : Nat, connects : Nat, changes : Nat]

\* A session that is registered is in use: a task is in it, about to enter it or about to
\* remove it, unless a task died with its lock.  A session left behind would hide every
\* change of the row made outside it (cleanup, refresh_session_rights, remove_session).
RegisteredIsServed ==
    registry \notin {NoSession} \cup poisoned => \E c \in Conns : ref[c] = registry

\* Whoever is found behind and can be caught up is sent the versions it lacks, each once
\* and in order: with one writer the list of diffs never has a gap or a version twice,
\* whatever was trimmed, stored and loaded before (handle_diff, check_version).
Exact(v, version, ds) ==
    ReachesBack(v, version, ds) => /\ Len(Fix(v, version, ds)) = version - v
                                   /\ \A i \in 1..(version - v) : Fix(v, version, ds)[i].v = v + i - 1
CaughtUp ==
    \A c \in Conns :
        /\ at[c] = "behind" => Exact(msg[c].v, msg[c].dv, My(c).diffs)
        /\ at[c] = "idle" => \A v \in 0..(My(c).version - 1) : Exact(v, My(c).version, My(c).diffs)

\* The row never names a version its text has not reached, and with one client at a time it
\* is exactly that version (save, spawn_save, handle_diff's separate scopes of the lock).
RowReachesVersion ==
    /\ row.version <= Len(row.text)
    /\ Solo => row.version = Len(row.text)

\* With one client at a time, who pauses while a save is under way, at most
\* DOC_SAVE_INTERVAL confirmed diffs are not in the row: what a crash would cost.  None is
\* missing once everybody is gone, by cleanup, by a withdrawn right or because the server
\* was stopped.
Unstored == {i \in confirmed : \A n \in DOMAIN row.text : row.text[n] # i}
Durable == Solo =>
    /\ Cardinality(Unstored) <= SaveInterval
    /\ registry = NoSession /\ ~InFlight /\ (\A c \in Conns : at[c] = "out") => Unstored = {}

\* Whoever lost the right leaves the registered session, unless the right comes back, even
\* when a re-read of the rights that began earlier ends later, unless a task died with the
\* lock of the session, or the one that has the rights re-read (refresh_session_rights).
InRegistered(c) == registry # NoSession /\ c \in sessions[registry].parts
RevokedLeaves ==
    \A c \in Conns : (InRegistered(c) /\ right[c] = "none")
        ~> (~InRegistered(c) \/ right[c] # "none" \/ registry \in poisoned \/ ~watching)
=============================================================================
