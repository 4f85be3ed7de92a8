-------------------------- MODULE MCServer_proofs ---------------------------
(***************************************************************************)
(* The parts of the server keep their types, whichever of them works: a    *)
(* behaviour of the server is one of every part, and the types of each are *)
(* proved in the modules about the parts.                                  *)
(***************************************************************************)
EXTENDS MCServer, Presence_proofs, Server_proofs, Users_proofs

\* Every part begins as it does alone, ...
LEMMA PartsBegin ==
    ASSUME Init
    PROVE  /\ ProtocolInit /\ SystemInit /\ LibraryInit /\ DirectInit
           /\ KeysInit /\ CommentsInit /\ ParticipantsInit /\ EnvelopesInit
           /\ TemplatesInit /\ RevisionsInit /\ AccountsInit /\ BibliographyInit
           /\ OverviewInit /\ RoutingInit
    BY DEF Init

\* ... and makes its own steps only: another's leave it as it is.
LEMMA PartsStep ==
    ASSUME [Next]_serverParts
    PROVE  /\ [ProtocolNext]_protocolVars
           /\ [SystemNext]_systemVars
           /\ [LibraryNext]_libraryVars
           /\ [DirectNext]_directVars
           /\ [KeysNext]_keysVars
           /\ [CommentsNext]_commentVars
           /\ [ParticipantsNext]_participantVars
           /\ [EnvelopesNext]_envelopeVars
           /\ [TemplatesNext]_templateVars
           /\ [RevisionsNext]_revisionVars
           /\ [AccountsNext]_accountVars
           /\ [BibliographyNext]_bibliographyVars
           /\ [OverviewNext]_overviewVars
           /\ [RoutingNext]_routingVars
<1> USE DEF serverParts, outsideVars, openVars, rowVars, Next,
            ProtocolStep, SystemStep, LibraryStep, DirectStep, KeysStep, CommentsStep,
            ParticipantsStep, EnvelopesStep, TemplatesStep, RevisionsStep, AccountsStep,
            BibliographyStep, OverviewStep, RoutingStep
<1>1. [ProtocolNext]_protocolVars
    OBVIOUS
<1>2. [SystemNext]_systemVars
    OBVIOUS
<1>3. [LibraryNext]_libraryVars
    OBVIOUS
<1>4. [DirectNext]_directVars
    OBVIOUS
<1>5. [KeysNext]_keysVars
    OBVIOUS
<1>6. [CommentsNext]_commentVars
    OBVIOUS
<1>7. [ParticipantsNext]_participantVars
    OBVIOUS
<1>8. [EnvelopesNext]_envelopeVars
    OBVIOUS
<1>9. [TemplatesNext]_templateVars
    OBVIOUS
<1>10. [RevisionsNext]_revisionVars
    OBVIOUS
<1>11. [AccountsNext]_accountVars
    OBVIOUS
<1>12. [BibliographyNext]_bibliographyVars
    OBVIOUS
<1>13. [OverviewNext]_overviewVars
    OBVIOUS
<1>14. [RoutingNext]_routingVars
    OBVIOUS
<1> QED
    BY <1>1, <1>2, <1>3, <1>4, <1>5, <1>6, <1>7, <1>8, <1>9, <1>10, <1>11, <1>12, <1>13,
       <1>14

\* Which part works is chosen at the start.
PartChosen ==
    part \in {"protocol", "system", "library", "direct", "keys", "comments",
             "participants", "envelopes", "templates", "revisions", "accounts",
             "bibliography", "overview", "routing"}

LEMMA PartStays == /\ Init => PartChosen
                   /\ PartChosen /\ [Next]_serverParts => PartChosen'
<1>1. Init => PartChosen
    BY DEF Init, PartChosen
<1>2. ASSUME [Next]_serverParts
      PROVE  part' = part
    BY <1>2 DEF serverParts, Next,
            ProtocolStep, SystemStep, LibraryStep, DirectStep, KeysStep, CommentsStep,
            ParticipantsStep, EnvelopesStep, TemplatesStep, RevisionsStep, AccountsStep,
            BibliographyStep, OverviewStep, RoutingStep
<1> QED
    BY <1>1, <1>2 DEF PartChosen

\* The part at work keeps its types: whatever its requests and messages do to one another,
\* no row, copy or message is left that refers to what never was.
THEOREM TypesOKCorrect == Spec => []TypesOK
<1>1. Spec => []ProtocolTypeOK
    BY PartsBegin, PartsStep, ProtocolTypeCorrect, PTL DEF Spec, ProtocolSpec
<1>2. Spec => []SystemTypeOK
    BY PartsBegin, PartsStep, SystemTypeCorrect, PTL DEF Spec, SystemSpec
<1>3. Spec => []LibraryTypeOK
    BY PartsBegin, PartsStep, LibraryTypeCorrect, PTL DEF Spec, LibrarySpec
<1>4. Spec => []DirectTypeOK
    BY PartsBegin, PartsStep, DirectTypeCorrect, PTL DEF Spec, DirectSpec
<1>5. Spec => []KeysTypeOK
    BY PartsBegin, PartsStep, KeysTypeCorrect, PTL DEF Spec, KeysSpec
<1>6. Spec => []CommentsTypeOK
    BY PartsBegin, PartsStep, CommentsTypeCorrect, PTL DEF Spec
<1>7. Spec => []ParticipantsTypeOK
    BY PartsBegin, PartsStep, ParticipantsTypeCorrect, PTL DEF Spec, ParticipantsSpec
<1>8. Spec => []EnvelopesTypeOK
    BY PartsBegin, PartsStep, EnvelopesTypeCorrect, PTL DEF Spec, EnvelopesSpec
<1>9. Spec => []TemplatesTypeOK
    BY PartsBegin, PartsStep, TemplatesTypeCorrect, PTL DEF Spec, TemplatesSpec
<1>10. Spec => []RevisionsTypeOK
    BY PartsBegin, PartsStep, RevisionsTypeCorrect, PTL DEF Spec, RevisionsSpec
<1>11. Spec => []AccountsTypeOK
    BY PartsBegin, PartsStep, AccountsTypeCorrect, PTL DEF Spec, AccountsSpec
<1>12. Spec => []BibliographyTypeOK
    BY PartsBegin, PartsStep, BibliographyTypeCorrect, PTL DEF Spec, BibliographySpec
<1>13. Spec => []OverviewTypeOK
    BY PartsBegin, PartsStep, OverviewTypeCorrect, PTL DEF Spec, OverviewSpec
<1>14. Spec => []RoutingTypeOK
    BY PartsBegin, PartsStep, RoutingTypeCorrect, PTL DEF Spec, RoutingSpec
<1>15. Spec => []PartChosen
    BY PartStays, PTL DEF Spec
<1>16. PartChosen /\ ProtocolTypeOK /\ SystemTypeOK /\ LibraryTypeOK /\ DirectTypeOK
       /\ KeysTypeOK /\ CommentsTypeOK /\ ParticipantsTypeOK /\ EnvelopesTypeOK
       /\ TemplatesTypeOK /\ RevisionsTypeOK /\ AccountsTypeOK /\ BibliographyTypeOK
       /\ OverviewTypeOK /\ RoutingTypeOK
       => TypesOK
    BY DEF PartChosen, TypesOK
<1> QED
    BY <1>1, <1>2, <1>3, <1>4, <1>5, <1>6, <1>7, <1>8, <1>9, <1>10, <1>11, <1>12, <1>13,
       <1>14, <1>15, <1>16, PTL
=============================================================================
