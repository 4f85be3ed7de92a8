------------------------------ MODULE MCServer ------------------------------
(***************************************************************************)
(* The parts of the server that keep a state of their own and share none   *)
(* with the sessions: the numbering of messages on a connection, presence  *)
(* and system messages, the library of books, documents and images,        *)
(* editing without a websocket, the keys of an account, three views of an  *)
(* open document (its comments, the list of its participants, and the      *)
(* envelopes of its key), templates, revisions, accounts, bibliographies,  *)
(* what the holder of a right is shown and told, and the way to the server *)
(* process of a document.  They do not touch each other's rows, so each    *)
(* behaviour is one of one part, chosen at the start, while the others     *)
(* rest.                                                                   *)
(***************************************************************************)
EXTENDS MessageProtocol, SystemMessages, Library, DirectEditing, EncryptionKeys, Comments,
        Participants, Envelopes, Templates, Revisions, Accounts, Bibliography,
        Overview, Routing, TLC

CONSTANTS s1, s2, b1, b2, n1, q1, q2, d1, d2, i1, i2, c1, c2

\* Two servers, with a browser each; the native service is connected to the first.
ServerHome == (b1 :> s1) @@ (b2 :> s2) @@ (n1 :> s1)
\* Boss, whose book it is, owns one document, Mate the other.
OwnerOf == (d1 :> "boss") @@ (d2 :> "mate")
\* Three requests in turn, or two at the same time.
TurnsOrTogether == {[workers |-> 1, requests |-> 3], [workers |-> 2, requests |-> 2]}

\* One who writes, with one who writes, reviews, or reads without the comments.
Discussions == {[ann |-> "write", bob |-> r] : r \in {"write", "review", "read-without-comments"}}

\* A server that stops takes the place of a connection in the bound.
ConnectsAndStops == 3
\* A second message takes the place of two connections; it comes while the first is under
\* way, everybody is heard from and no server stops.
Under(q) == post[q].at \in {"read", "send"} \/ \E s \in Servers : fan[<<q, s>>] # Idle
FewConnects ==
    IF post'[q2].at = "new" THEN connects' + stops' <= ConnectsAndStops
    ELSE /\ post[q2].at = "new" => Under(q1)
         /\ socket' = socket /\ connects' + 2 <= ConnectsAndStops /\ stops' = 0
         /\ \A r \in rows' : r.age = "fresh"
\* So do frames lost and messages sent again.
Faults == 2

\* A list of ports that grows and shrinks, on one machine or over two.
PortLists == <<<<b1>>, <<b1, b2>>, <<b2>>>>
OneOrTwo == {(b1 :> s1) @@ (b2 :> s1), (b1 :> s1) @@ (b2 :> s2)}
OneMachine == site[b1] = site[b2]
OneSite == OneMachine /\ ~seesPort /\ settings[s1] = 1

VARIABLE part      \* the part that works

outsideVars == <<overviewVars, routingVars>>
openVars == <<commentVars, participantVars, envelopeVars>>
rowVars == <<templateVars, revisionVars, accountVars, bibliographyVars>>
serverParts == <<part, protocolVars, systemVars, libraryVars, directVars, keysVars, openVars, rowVars, outsideVars>>

\* The library has many initial states; when it rests, it rests in one of them.
\* Images are alike, and so are comments: i1 is there at the start, c1 may be.
OneLibrary == /\ load.workers = 2 /\ linked = {}
              /\ ~invited /\ shared["mate"] = "none"

OneDiscussion == engine = "python" /\ named = {} /\ readerRights["bob"] = "write"

Init ==
    /\ part \in {"protocol", "system", "library", "direct", "keys",
                "comments", "participants", "envelopes", "templates", "revisions",
                "accounts", "bibliography", "overview", "routing"}
    /\ SystemInit /\ DirectInit /\ KeysInit /\ TemplatesInit /\ RevisionsInit
    /\ BibliographyInit
    /\ AccountsInit /\ (part # "accounts" => ~guarded)
    /\ ProtocolInit /\ (part # "protocol" => backend = "python")
    /\ LibraryInit /\ images = {i1} /\ (part # "library" => OneLibrary)
    /\ CommentsInit /\ c2 \notin named /\ (part # "comments" => OneDiscussion)
    /\ ParticipantsInit /\ (part # "participants" => provider = "python")
    /\ EnvelopesInit /\ (part # "envelopes" => calm)
    /\ OverviewInit /\ (part # "overview" => thing = "book")
    /\ RoutingInit /\ (part # "routing" => OneSite)

ProtocolStep == part = "protocol" /\ ProtocolNext /\ lost' + repeats' <= Faults
    /\ UNCHANGED <<part, systemVars, libraryVars, directVars, keysVars, openVars, rowVars, outsideVars>>
SystemStep == part = "system" /\ SystemNext /\ FewConnects
    /\ UNCHANGED <<part, protocolVars, libraryVars, directVars, keysVars, openVars, rowVars, outsideVars>>
LibraryStep == part = "library" /\ LibraryNext
    /\ UNCHANGED <<part, protocolVars, systemVars, directVars, keysVars, openVars, rowVars, outsideVars>>
DirectStep == part = "direct" /\ DirectNext
    /\ UNCHANGED <<part, protocolVars, systemVars, libraryVars, keysVars, openVars, rowVars, outsideVars>>
KeysStep == part = "keys" /\ KeysNext
    /\ UNCHANGED <<part, protocolVars, systemVars, libraryVars, directVars, openVars, rowVars, outsideVars>>
CommentsStep == part = "comments" /\ CommentsNext
    /\ UNCHANGED <<part, protocolVars, systemVars, libraryVars, directVars, keysVars, participantVars, envelopeVars, rowVars, outsideVars>>
ParticipantsStep == part = "participants" /\ ParticipantsNext
    /\ UNCHANGED <<part, protocolVars, systemVars, libraryVars, directVars, keysVars, commentVars, envelopeVars, rowVars, outsideVars>>
EnvelopesStep == part = "envelopes" /\ EnvelopesNext
    /\ UNCHANGED <<part, protocolVars, systemVars, libraryVars, directVars, keysVars, commentVars, participantVars, rowVars, outsideVars>>
TemplatesStep == part = "templates" /\ TemplatesNext
    /\ UNCHANGED <<part, protocolVars, systemVars, libraryVars, directVars, keysVars, openVars, revisionVars, accountVars, bibliographyVars, outsideVars>>
RevisionsStep == part = "revisions" /\ RevisionsNext
    /\ UNCHANGED <<part, protocolVars, systemVars, libraryVars, directVars, keysVars, openVars, templateVars, accountVars, bibliographyVars, outsideVars>>
AccountsStep == part = "accounts" /\ AccountsNext
    /\ UNCHANGED <<part, protocolVars, systemVars, libraryVars, directVars, keysVars, openVars, templateVars, revisionVars, bibliographyVars, outsideVars>>
BibliographyStep == part = "bibliography" /\ BibliographyNext
    /\ UNCHANGED <<part, protocolVars, systemVars, libraryVars, directVars, keysVars, openVars, templateVars, revisionVars, accountVars, outsideVars>>
OverviewStep == part = "overview" /\ OverviewNext
    /\ UNCHANGED <<part, protocolVars, systemVars, libraryVars, directVars, keysVars, openVars, rowVars, routingVars>>
\* One machine is started again once, two twice in all, which do without the last list.
FewStarts == IF OneMachine THEN starts' < MaxStarts ELSE settings'[s1] < 3 /\ settings'[s2] < 3
RoutingStep == part = "routing" /\ RoutingNext /\ FewStarts
    /\ UNCHANGED <<part, protocolVars, systemVars, libraryVars, directVars, keysVars, openVars, rowVars, overviewVars>>

Next ==
    \/ ProtocolStep
    \/ SystemStep
    \/ LibraryStep
    \/ DirectStep
    \/ KeysStep
    \/ CommentsStep
    \/ ParticipantsStep
    \/ EnvelopesStep
    \/ TemplatesStep
    \/ RevisionsStep
    \/ AccountsStep
    \/ BibliographyStep
    \/ OverviewStep
    \/ RoutingStep

Spec == Init /\ [][Next]_serverParts

-----------------------------------------------------------------------------
\* Every part keeps its types; those of the parts that rest do not change.
TypesOK ==
    CASE part = "protocol" -> ProtocolTypeOK
      [] part = "system" -> SystemTypeOK
      [] part = "library" -> LibraryTypeOK
      [] part = "direct" -> DirectTypeOK
      [] part = "keys" -> KeysTypeOK
      [] part = "comments" -> CommentsTypeOK
      [] part = "participants" -> ParticipantsTypeOK
      [] part = "envelopes" -> EnvelopesTypeOK
      [] part = "templates" -> TemplatesTypeOK
      [] part = "revisions" -> RevisionsTypeOK
      [] part = "accounts" -> AccountsTypeOK
      [] part = "bibliography" -> BibliographyTypeOK
      [] part = "overview" -> OverviewTypeOK
      [] part = "routing" -> RoutingTypeOK
=============================================================================
