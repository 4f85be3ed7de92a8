---------------------------- MODULE Participants ----------------------------
(***************************************************************************)
(* Who is at a document, as its participants are told: subscribe and       *)
(* disconnect with send_participant_list of                                *)
(* src/fiduswriter/document/consumers.py, and their counterparts in the    *)
(* native service, which make the list and send it under one lock.  In     *)
(* Python the pictures of the participants are fetched between the two.    *)
(***************************************************************************)
EXTENDS Integers, FiniteSets

CONSTANTS Guests,        \* connections to the document
          Speakers,      \* those that may communicate (CAN_COMMUNICATE)
          MaxLists       \* bound on the lists made

ASSUME ParticipantsAssumption == Speakers \subseteq Guests /\ MaxLists \in Nat

VARIABLES
    provider,    \* "python" or "native"
    present,     \* the participants of the session
    told,        \* the list each participant last received
    fetching,    \* lists made and not sent: each with its number
    lists,       \* how many lists were made
    newest,      \* history: the number of the newest list that was sent
    outrun       \* history: was the last list that was sent an older one?

participantVars == <<provider, present, told, fetching, lists, newest, outrun>>

ParticipantsInit ==
    /\ provider \in {"python", "native"}
    /\ present = {} /\ told = [p \in Guests |-> {}]
    /\ fetching = {} /\ lists = 0 /\ newest = 0 /\ outrun = FALSE

\* Those in the list are those it is sent to.
OnList(ps) == ps \cap Speakers

\* fault: the list is not sent to those who are in it
SentToOthers(ps, list) == [p \in Guests |-> IF p \in OnList(ps) \ list THEN list ELSE told[p]]

SentTo(ps, list) == [p \in Guests |-> IF p \in OnList(ps) THEN list ELSE told[p]]

\* broadcast_participant_list: made and sent at once.
Native_List(ps) ==
    /\ told' = SentTo(ps, OnList(ps))
    /\ lists' = lists + 1 /\ newest' = lists + 1
    /\ UNCHANGED <<fetching, outrun>>

\* send_participant_list: made now, sent when every picture is there.
List(ps) ==
    /\ fetching' = fetching \cup {[number |-> lists + 1, list |-> OnList(ps)]}
    /\ lists' = lists + 1
    /\ UNCHANGED <<told, newest, outrun>>

Announce(ps) == IF provider = "native" THEN Native_List(ps) ELSE List(ps)
Quiet == UNCHANGED <<told, fetching, lists, newest, outrun>>

\* A connection subscribes; one that may not communicate is announced to nobody.
Join(p) ==
    /\ p \notin present /\ lists < MaxLists
    /\ present' = present \cup {p}
    /\ IF p \in Speakers THEN Announce(present') ELSE Quiet
    /\ UNCHANGED provider

\* A connection ends; the session goes with the last one.
Part(p) ==
    /\ p \in present /\ lists < MaxLists
    /\ present' = present \ {p}
    /\ IF present' = {} THEN Quiet ELSE Announce(present')
    /\ UNCHANGED provider

\* A client asks for the list.
ParticipantUpdate(p) ==
    /\ p \in present \cap Speakers /\ lists < MaxLists
    /\ Announce(present)
    /\ UNCHANGED <<provider, present>>

\* The pictures of a list are there: whoever is in the session now receives it.
SendList ==
    /\ \E f \in fetching :
        /\ fetching' = fetching \ {f}
        /\ told' = SentTo(present, f.list)
        /\ outrun' = (IF present = {} THEN outrun ELSE f.number < newest)
        /\ newest' = IF f.number > newest /\ present # {} THEN f.number ELSE newest
    /\ UNCHANGED <<provider, present, lists>>

ParticipantsNext ==
    (\E p \in Guests : Join(p) \/ Part(p) \/ ParticipantUpdate(p)) \/ SendList

ParticipantsSpec == ParticipantsInit /\ [][ParticipantsNext]_participantVars

-----------------------------------------------------------------------------
ParticipantsTypeOK ==
    /\ provider \in {"python", "native"}
    /\ present \subseteq Guests
    /\ told \in [Guests -> SUBSET Speakers]
    /\ \A f \in fetching : f.number \in 1..lists /\ f.list \subseteq Speakers
    /\ newest \in 0..lists /\ outrun \in BOOLEAN

\* When no list is under way everybody who may know it has the list of those present; but
\* in Python a list whose pictures came late may have been sent after a newer one, and
\* stays until somebody comes or goes.  The native service never sends an older list.
ListsCurrent ==
    /\ fetching = {} /\ ~outrun => \A p \in present \cap Speakers : told[p] = OnList(present)
    /\ outrun => provider = "python"
=============================================================================
