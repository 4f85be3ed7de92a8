--------------------------- MODULE Server_proofs ---------------------------
(***************************************************************************)
(* Theorems about parts of the server that keep a state of their own.      *)
(* Overview: whatever the holder of a right is shown and told goes with a  *)
(* right he had meanwhile, and rows that are stored whole stand as they    *)
(* were last changed, for any number of processes, requests and rights.    *)
(* Routing: those who edit a document come to one server process, for any  *)
(* machines, ports and lists of them, whatever happened to the commands.   *)
(* Revisions: the file a revision names is there, and requests that all    *)
(* succeed leave none behind, for any number of requests and revisions.    *)
(* DirectEditing: editors agree with the row and no saved edit is lost,    *)
(* for any number of editors, saves and diffs, unless requests crossed.    *)
(* Templates: documents go when their owners want it, templates with the   *)
(* last of their documents, and styled ones keep a style, for any number   *)
(* of workers and rows, unless requests crossed.                           *)
(* Library: who shares a book may read it, and images go when and only     *)
(* when they have no use, for any number of documents and images and two   *)
(* requests at a time.                                                     *)
(***************************************************************************)
EXTENDS Overview, Routing, Revisions, DirectEditing, Templates, Library,
        SequenceTheorems, FiniteSetTheorems, TLAPS

-----------------------------------------------------------------------------
(* What the holder of a right is shown and told.                           *)

\* A row of AccessRight or BookAccessRight.
AnyRow == [number : Nat, rights : OverviewRights, path : {"first", "moved", "changed"}]

\* A request that stores a whole row has read it, and changes the right only.
RowsFit(x) ==
    /\ x.at = "moving" => x.row \in AnyRow
    /\ x.at = "sharing" => x.row \in AnyRow \cup {NoRow} /\ x.right \in OverviewRights
    /\ x.at \in {"mail", "saving"} =>
          /\ x = [at |-> x.at, row |-> x.row, read |-> x.read]
          /\ x.row \in AnyRow /\ x.read \in AnyRow
          /\ x.row = [x.read EXCEPT !.rights = x.row.rights]

\* Domains, as far as the proof needs them.
Served ==
    /\ telling = [w \in Tellers |-> telling[w]] /\ held = [w \in Tellers |-> held[w]]
    /\ holding \in AnyRow \cup {NoRow} /\ rowsMade \in Nat
    /\ thing \in {"document", "book"} /\ exists \in BOOLEAN /\ (~exists => holding = NoRow)
    /\ \A w \in Tellers : RowsFit(telling[w])

\* What a request x has to go by are rights rs of Mate's.
Knows(x, rs) ==
    /\ x.at \in {"listed", "filling", "texts"} => \E r \in rs : r \in OverviewRights
    /\ x.at \in {"revisions", "rights"} => x.right \in rs /\ x.right \in OverviewRights
    /\ x.at = "told" => \A f \in x.facts : \/ \E right \in rs : f \in Entitles(right)
                                           \/ f = "comments" /\ Nothing \in rs

\* The right of now is among those a request under way may go by.
Seen ==
    /\ \A w \in Tellers : telling[w] # NoAnswer => holding.rights \in held[w]
    /\ \A w \in Tellers : Knows(telling[w], held[w])

\* Unless a row was overrun: a right that is about to be stored was told, ...
SavingWasMailed ==
    \A w \in Tellers : telling[w].at = "saving" /\ telling[w].row # telling[w].read
                          => mailed = telling[w].row.rights
\* ... and the right Mate has was told, or another will be.
MailFollows ==
    holding # NoRow =>
       \/ mailed = holding.rights
       \/ \E w \in Tellers : telling[w].at = "mail"
       \/ \E w \in Tellers : telling[w].at = "saving" /\ mailed = telling[w].row.rights
Stands == ~overran =>
    /\ holding = ordered /\ written = [there |-> exists, version |-> text]
    /\ thing = "document" => SavingWasMailed /\ MailFollows

OverviewInv == Served /\ Seen /\ Stands

LEMMA NothingIsNoRight == Nothing \notin OverviewRights /\ NoRow \notin AnyRow
<1>1. Nothing \notin OverviewRights
  BY OverviewAssumption DEF Nothing
<1>2. \A r \in AnyRow : r.rights # NoRow.rights
  BY <1>1 DEF AnyRow, NoRow
<1> QED
  BY <1>1, <1>2

LEMMA RowTyped == \A r \in AnyRow : r.number \in Nat /\ r.rights \in OverviewRights
BY DEF AnyRow

\* Changing a path or a right leaves a row a row.
LEMMA RowChanged ==
    ASSUME NEW r \in AnyRow
    PROVE  /\ \A path \in {"first", "moved", "changed"} :
                 LET new == [r EXCEPT !.path = path]
                 IN  new \in AnyRow /\ new.rights = r.rights /\ new.number = r.number
           /\ \A right \in OverviewRights :
                 LET new == [r EXCEPT !.rights = right]
                 IN  new \in AnyRow /\ new.rights = right /\ new.number = r.number
BY DEF AnyRow

LEMMA KnowsMore ==
    ASSUME NEW x, NEW rs, NEW qs, Knows(x, rs), rs \subseteq qs
    PROVE  Knows(x, qs)
BY DEF Knows

\* A fact that goes with one of the rights.
LEMMA KnowsFacts ==
    ASSUME NEW rs, NEW right \in rs, NEW facts \in SUBSET Entitles(right)
    PROVE  Knows(Answered(facts), rs)
<1>1. Answered(facts).at = "told" /\ Answered(facts).facts = facts
  BY DEF Answered
<1> HIDE DEF Answered
<1> QED
  BY <1>1 DEF Knows

LEMMA IdleKnows == \A rs : Knows(NoAnswer, rs)
BY DEF Knows, NoAnswer

LEMMA TellsOne ==
    ASSUME Served, NEW w \in Tellers, NEW x, telling' = [telling EXCEPT ![w] = x]
    PROVE  /\ telling'[w] = x
           /\ \A v \in Tellers \ {w} : telling'[v] = telling[v]
           /\ telling' = [v \in Tellers |-> telling'[v]]
BY DEF Served

LEMMA Remembers ==
    ASSUME Remember
    PROVE  /\ held' = [w \in Tellers |-> held'[w]]
           /\ \A w \in Tellers : held'[w] = IF telling'[w] = NoAnswer THEN {}
                                            ELSE held[w] \cup {holding'.rights}
BY DEF Remember

\* A step of one request keeps what all of them go by.
LEMMA SeenKept ==
    ASSUME Served, Seen, Remember, NEW w \in Tellers, NEW x,
           telling' = [telling EXCEPT ![w] = x],
           x # NoAnswer => Knows(x, held[w] \cup {holding'.rights})
    PROVE  Seen'
<1>1. \A v \in Tellers : telling'[v] # NoAnswer => held'[v] = held[v] \cup {holding'.rights}
  BY Remembers
<1>2. ASSUME NEW v \in Tellers PROVE Knows(telling'[v], held'[v])
  <2>1. CASE telling'[v] = NoAnswer
    BY <2>1, IdleKnows
  <2>2. CASE telling'[v] # NoAnswer /\ v = w
    BY <1>1, <2>2, TellsOne
  <2>3. CASE telling'[v] # NoAnswer /\ v # w
    <3>1. telling'[v] = telling[v] /\ Knows(telling[v], held[v])
      BY <2>3, TellsOne DEF Seen
    <3>2. held[v] \subseteq held'[v]
      BY <1>1, <2>3
    <3> QED
      BY <3>1, <3>2, KnowsMore
  <2> QED
    BY <2>1, <2>2, <2>3
<1>3. \A v \in Tellers : telling'[v] # NoAnswer => holding'.rights \in held'[v]
  BY <1>1
<1> QED
  BY <1>2, <1>3 DEF Seen

\* So does a step of nobody here.
LEMMA SeenRest ==
    ASSUME Served, Seen, Remember, telling' = telling
    PROVE  Seen'
<1>1. \A v \in Tellers : telling'[v] # NoAnswer => held'[v] = held[v] \cup {holding'.rights}
  BY Remembers
<1>2. ASSUME NEW v \in Tellers PROVE Knows(telling'[v], held'[v])
  <2>1. CASE telling'[v] = NoAnswer
    BY <2>1, IdleKnows
  <2>2. CASE telling'[v] # NoAnswer
    BY <1>1, <2>2, KnowsMore DEF Seen
  <2> QED
    BY <2>1, <2>2
<1> QED
  BY <1>1, <1>2 DEF Seen

Storing == {"mail", "saving"}

\* Steps that change no row.
LEMMA QuietInv ==
    ASSUME OverviewInv, Remember, NEW w \in Tellers, NEW x,
           telling' = [telling EXCEPT ![w] = x],
           UNCHANGED <<thing, rightVars, textVars, overran>>,
           RowsFit(x), x.at \notin Storing, telling[w].at \notin Storing,
           x # NoAnswer => Knows(x, held[w] \cup {holding.rights})
    PROVE  OverviewInv'
<1> USE DEF OverviewInv, rightVars, textVars
<1>1. Seen'
  BY SeenKept
<1>2. /\ telling'[w] = x
      /\ \A v \in Tellers \ {w} : telling'[v] = telling[v]
      /\ telling' = [v \in Tellers |-> telling'[v]]
  BY TellsOne
<1>3. Served'
  BY <1>2, Remembers DEF Served
<1>4. \A v \in Tellers : /\ telling'[v].at \in Storing => telling'[v] = telling[v]
                         /\ telling[v].at \in Storing => telling'[v] = telling[v]
  BY <1>2
<1>5. SavingWasMailed => SavingWasMailed'
  BY <1>4 DEF SavingWasMailed, Storing
<1>6. MailFollows => MailFollows'
  <2> SUFFICES ASSUME MailFollows, holding' # NoRow PROVE MailFollows'
    BY DEF MailFollows
  <2>1. CASE mailed = holding.rights
    BY <2>1 DEF MailFollows
  <2>2. ASSUME NEW v \in Tellers, telling[v].at = "mail" PROVE MailFollows'
    BY <1>4, <2>2 DEF MailFollows, Storing
  <2>3. ASSUME NEW v \in Tellers, telling[v].at = "saving", mailed = telling[v].row.rights
        PROVE  MailFollows'
    BY <1>4, <2>3 DEF MailFollows, Storing
  <2> QED
    BY <2>1, <2>2, <2>3 DEF MailFollows
<1>7. Stands'
  BY <1>5, <1>6 DEF Stands
<1> QED
  BY <1>1, <1>3, <1>7

\* An answer with facts that go with the right of now, or with one known from before.
LEMMA AnswerInv ==
    ASSUME OverviewInv, Remember, NEW w \in Tellers, NEW facts,
           telling' = [telling EXCEPT ![w] = Answered(facts)],
           UNCHANGED <<thing, rightVars, textVars, overran>>, telling[w].at \notin Storing,
           Knows(Answered(facts), held[w] \cup {holding.rights})
    PROVE  OverviewInv'
<1>1. RowsFit(Answered(facts)) /\ Answered(facts).at \notin Storing
  BY DEF RowsFit, Answered, Storing
<1> QED
  BY <1>1, QuietInv

\* A request ends, or has nothing to do.
LEMMA EndInv ==
    ASSUME OverviewInv, Remember, NEW w \in Tellers, telling' = [telling EXCEPT ![w] = NoAnswer],
           UNCHANGED <<thing, rightVars, textVars, overran>>, telling[w].at \notin Storing
    PROVE  OverviewInv'
<1>1. RowsFit(NoAnswer) /\ NoAnswer.at \notin Storing
  BY DEF RowsFit, NoAnswer, Storing
<1> QED
  BY <1>1, QuietInv

LEMMA HasRow ==
    ASSUME Served
    PROVE  /\ holding # NoRow => holding \in AnyRow /\ holding.rights \in OverviewRights
           /\ holding = NoRow => holding.rights = Nothing
BY RowTyped DEF Served, NoRow

\* Requests that only read begin ...
LEMMA BeginInv ==
    ASSUME OverviewInv, Remember, NEW w \in Tellers,
           \/ ListShared(w) \/ ReadTexts(w) \/ ListRights(w) \/ NotifyMate(w) \/ NotifyBoss(w)
           \/ RequestAccess(w) \/ Move(w) \/ ChangePath(w)
           \/ \E right \in OverviewRights : GiveRight(w, right)
    PROVE  OverviewInv'
<1> USE DEF TakeUp
<1>1. Served
  BY DEF OverviewInv
<1>2. telling[w] = NoAnswer /\ telling[w].at \notin Storing
  BY DEF ListShared, ReadTexts, ListRights, NotifyMate, NotifyBoss, RequestAccess, Move, ChangePath,
         GiveRight, NoAnswer, Storing
<1>3. UNCHANGED <<thing, rightVars, textVars, overran>>
  BY DEF ListShared, ReadTexts, ListRights, NotifyMate, NotifyBoss, RequestAccess, Move, ChangePath,
         GiveRight
<1>4. CASE ListShared(w)
  <2> DEFINE x == [at |-> "listed"]
  <2>1. telling' = [telling EXCEPT ![w] = x] /\ holding # NoRow
    BY <1>4 DEF ListShared
  <2>2. RowsFit(x) /\ x.at \notin Storing /\ Knows(x, held[w] \cup {holding.rights})
    BY <1>1, <2>1, HasRow DEF RowsFit, Storing, Knows
  <2> QED
    BY <1>2, <1>3, <2>1, <2>2, QuietInv
<1>5. CASE ReadTexts(w)
  <2>1. PICK x \in {[at |-> "filling"], [at |-> "texts"]} :
            telling' = [telling EXCEPT ![w] = x] /\ holding # NoRow
    BY <1>5 DEF ReadTexts
  <2>2. RowsFit(x) /\ x.at \notin Storing /\ Knows(x, held[w] \cup {holding.rights})
    BY <1>1, <2>1, HasRow DEF RowsFit, Storing, Knows
  <2> QED
    BY <1>2, <1>3, <2>1, <2>2, QuietInv
<1>6. CASE ListRights(w)
  <2> DEFINE x == [at |-> "rights", right |-> holding.rights]
  <2>1. telling' = [telling EXCEPT ![w] = x] /\ holding # NoRow
    BY <1>6 DEF ListRights
  <2>2. RowsFit(x) /\ x.at \notin Storing /\ Knows(x, held[w] \cup {holding.rights})
    BY <1>1, <2>1, HasRow DEF RowsFit, Storing, Knows
  <2> QED
    BY <1>2, <1>3, <2>1, <2>2, QuietInv
<1>7. CASE NotifyMate(w)
  <2>1. PICK facts \in {{}, {"tagged"}} :
           /\ telling' = [telling EXCEPT ![w] = Answered(facts)]
           /\ facts # {} => holding # NoRow
    BY <1>7 DEF NotifyMate, Unsent, CommentMail
  <2>2. facts \in SUBSET Entitles(holding.rights)
    BY <1>1, <2>1, HasRow, NothingIsNoRight DEF Entitles
  <2> QED
    BY <1>2, <1>3, <2>1, <2>2, KnowsFacts, AnswerInv
<1>8. CASE NotifyBoss(w) \/ RequestAccess(w) \/ ChangePath(w)
  <2>1. PICK x \in {[at |-> "notifying"], [at |-> "asking"],
                    [at |-> "changing", number |-> holding.number]} :
            telling' = [telling EXCEPT ![w] = x]
    BY <1>8 DEF NotifyBoss, RequestAccess, ChangePath
  <2>2. RowsFit(x) /\ x.at \notin Storing /\ Knows(x, held[w] \cup {holding.rights})
    BY DEF RowsFit, Storing, Knows
  <2> QED
    BY <1>2, <1>3, <2>1, <2>2, QuietInv
<1>9. CASE Move(w)
  <2> DEFINE x == [at |-> "moving", row |-> holding]
  <2>1. telling' = [telling EXCEPT ![w] = x] /\ holding # NoRow
    BY <1>9 DEF Move
  <2>2. RowsFit(x) /\ x.at \notin Storing /\ Knows(x, held[w] \cup {holding.rights})
    BY <1>1, <2>1, HasRow DEF RowsFit, Storing, Knows
  <2> QED
    BY <1>2, <1>3, <2>1, <2>2, QuietInv
<1>10. ASSUME NEW right \in OverviewRights, GiveRight(w, right) PROVE OverviewInv'
  <2> DEFINE x == [at |-> "sharing", row |-> holding, right |-> right]
  <2>1. telling' = [telling EXCEPT ![w] = x]
    BY <1>10 DEF GiveRight
  <2>2. RowsFit(x) /\ x.at \notin Storing /\ Knows(x, held[w] \cup {holding.rights})
    BY <1>1 DEF RowsFit, Storing, Knows, Served
  <2> QED
    BY <1>2, <1>3, <2>1, <2>2, QuietInv
<1> QED
  BY <1>4, <1>5, <1>6, <1>7, <1>8, <1>9, <1>10

\* ... and look the right up again, and answer.
LEMMA LookInv ==
    ASSUME OverviewInv, Remember, NEW w \in Tellers,
           \/ LookUpRight(w) \/ LookUpRevisions(w) \/ LookUpComments(w) \/ FollowRights(w)
           \/ LookUpNotifier(w) \/ LookUpAsker(w) \/ Answer(w)
    PROVE  OverviewInv'
<1> USE DEF GoOn
<1> DEFINE rs == held[w] \cup {holding.rights}
<1>1. Served /\ Knows(telling[w], held[w]) /\ Knows(telling[w], rs)
  BY KnowsMore DEF OverviewInv, Seen
<1>2. telling[w].at \notin Storing
  BY DEF LookUpRight, LookUpRevisions, LookUpComments, FollowRights, LookUpNotifier, LookUpAsker,
         Answer, Storing
<1>3. UNCHANGED <<thing, rightVars, textVars, overran>>
  BY DEF LookUpRight, LookUpRevisions, LookUpComments, FollowRights, LookUpNotifier, LookUpAsker,
         Answer
<1>4. /\ holding # NoRow => holding.rights \in OverviewRights
      /\ holding = NoRow => holding.rights = Nothing
      /\ Nothing \notin OverviewRights
  BY <1>1, HasRow, NothingIsNoRight
<1>5. OverviewRights \subseteq {"write", "write-tracked", "comment", "review-tracked", "review",
                                "read", "read-without-comments"}
  BY OverviewAssumption
<1>6. CASE LookUpRight(w)
  <2>1. CASE holding = NoRow
    BY <1>2, <1>3, <1>6, <2>1, EndInv DEF LookUpRight
  <2>2. CASE holding # NoRow /\ thing = "book"
    <3>1. {"entry", holding.rights} \in SUBSET Entitles(holding.rights)
      BY <1>4, <2>2 DEF Entitles
    <3>2. telling' = [telling EXCEPT ![w] = Answered({"entry", holding.rights})]
      BY <1>6, <2>2 DEF LookUpRight
    <3> QED
      BY <1>2, <1>3, <3>1, <3>2, KnowsFacts, AnswerInv
  <2>3. CASE holding # NoRow /\ thing # "book"
    <3> DEFINE x == [at |-> "revisions", right |-> holding.rights]
    <3>1. telling' = [telling EXCEPT ![w] = x]
      BY <1>6, <2>3 DEF LookUpRight
    <3>2. RowsFit(x) /\ x.at \notin Storing /\ Knows(x, rs)
      BY <1>4, <2>3 DEF RowsFit, Storing, Knows
    <3> QED
      BY <1>2, <1>3, <3>1, <3>2, QuietInv
  <2> QED
    BY <2>1, <2>2, <2>3
<1>7. CASE LookUpRevisions(w)
  <2> DEFINE shown == IF Communicates(holding.rights) THEN {"revisions"} ELSE {}
             facts == {"entry", telling[w].right} \cup shown
  <2>1. telling[w].right \in rs /\ telling[w].right \in OverviewRights
    BY <1>1, <1>7 DEF LookUpRevisions, Knows
  <2>2. {"entry", telling[w].right} \subseteq Entitles(telling[w].right)
    BY <1>4, <2>1 DEF Entitles
  <2>3. shown \subseteq Entitles(holding.rights)
    BY <1>4 DEF Entitles, Communicates, CanCommunicate, Nothing
  <2>4. \A f \in facts : f \in Entitles(telling[w].right) \/ f \in Entitles(holding.rights)
    BY <2>2, <2>3
  <2>5. telling' = [telling EXCEPT ![w] = Answered(facts)]
    BY <1>7 DEF LookUpRevisions
  <2> HIDE DEF facts
  <2>6. Knows(Answered(facts), rs)
    BY <2>1, <2>4 DEF Knows, Answered
  <2> QED
    BY <1>2, <1>3, <2>5, <2>6, AnswerInv
<1>8. CASE LookUpComments(w)
  <2> DEFINE all == IF holding.rights \in OwnCommentsOnly \cup {"read-without-comments"} THEN {}
                    ELSE {"comments"}
             facts == {"text"} \cup all
  <2>1. PICK right \in rs : right \in OverviewRights
    BY <1>1, <1>8 DEF LookUpComments, Knows
  <2>2. "text" \in Entitles(right)
    BY <1>4, <2>1 DEF Entitles
  <2>3. CASE holding = NoRow
    <3>1. \A f \in facts : f \in Entitles(right) \/ (f = "comments" /\ Nothing \in rs)
      BY <1>4, <2>2, <2>3
    <3>2. telling' = [telling EXCEPT ![w] = Answered(facts)]
      BY <1>8 DEF LookUpComments
    <3> HIDE DEF facts
    <3>3. Knows(Answered(facts), rs)
      BY <2>1, <3>1 DEF Knows, Answered
    <3> QED
      BY <1>2, <1>3, <3>2, <3>3, AnswerInv
  <2>4. CASE holding # NoRow
    <3>1. all \subseteq Entitles(holding.rights)
      BY <1>4, <2>4 DEF Entitles
    <3>2. \A f \in facts : f \in Entitles(right) \/ f \in Entitles(holding.rights)
      BY <2>2, <3>1
    <3>3. telling' = [telling EXCEPT ![w] = Answered(facts)]
      BY <1>8 DEF LookUpComments
    <3> HIDE DEF facts
    <3>4. Knows(Answered(facts), rs)
      BY <2>1, <3>2 DEF Knows, Answered
    <3> QED
      BY <1>2, <1>3, <3>3, <3>4, AnswerInv
  <2> QED
    BY <2>3, <2>4
<1>9. CASE FollowRights(w)
  <2>1. CASE ~exists
    BY <1>2, <1>3, <1>9, <2>1, EndInv DEF FollowRights
  <2>2. CASE exists
    <3>1. telling[w].right \in rs /\ telling[w].right \in OverviewRights
      BY <1>1, <1>9 DEF FollowRights, Knows
    <3>2. {telling[w].right} \in SUBSET Entitles(telling[w].right)
      BY <1>4, <3>1 DEF Entitles
    <3>3. telling' = [telling EXCEPT ![w] = Answered({telling[w].right})]
      BY <1>9, <2>2 DEF FollowRights
    <3> QED
      BY <1>2, <1>3, <3>1, <3>2, <3>3, KnowsFacts, AnswerInv
  <2> QED
    BY <2>1, <2>2
<1>10. CASE LookUpNotifier(w) \/ LookUpAsker(w)
  <2>1. PICK facts \in {{}, {"notifies"}, {"asks"}} :
           /\ telling' = [telling EXCEPT ![w] = Answered(facts)]
           /\ facts = {"notifies"} => MayNotify(holding.rights)
           /\ facts = {"asks"} => holding = NoRow
    BY <1>10 DEF LookUpNotifier, LookUpAsker, CommentMail, AccessMail, Unsent
  <2>2. facts \in SUBSET Entitles(holding.rights)
    BY <1>4, <2>1 DEF Entitles, MayNotify
  <2> QED
    BY <1>2, <1>3, <2>1, <2>2, KnowsFacts, AnswerInv
<1>11. CASE Answer(w)
  BY <1>2, <1>3, <1>11, EndInv DEF Answer
<1> QED
  BY <1>6, <1>7, <1>8, <1>9, <1>10, <1>11

\* A blank text is filled.
LEMMA FillInv ==
    ASSUME OverviewInv, Remember, NEW w \in Tellers, FillText(w)
    PROVE  OverviewInv'
<1> DEFINE x == [at |-> "texts"]
<1> USE DEF OverviewInv
<1>1. /\ telling' = [telling EXCEPT ![w] = x] /\ telling[w].at = "filling"
      /\ UNCHANGED <<thing, holding, rowsMade, mailed, ordered>> /\ exists' = TRUE
      /\ ~overran' => ~overran /\ exists = TRUE /\ written' = [written EXCEPT !.version = text']
  BY DEF FillText, GoOn, rightVars, Served
<1>2. Knows(x, held[w] \cup {holding'.rights})
  BY <1>1 DEF Knows, Seen
<1>3. Seen'
  BY <1>1, <1>2, SeenKept
<1>4. /\ telling'[w] = x
      /\ \A v \in Tellers \ {w} : telling'[v] = telling[v]
      /\ telling' = [v \in Tellers |-> telling'[v]]
  BY <1>1, TellsOne
<1>5. Served'
  BY <1>1, <1>4, Remembers DEF Served, RowsFit
<1>6. ASSUME ~overran' PROVE written' = [there |-> exists', version |-> text']
  <2>1. written = [there |-> exists, version |-> text]
    BY <1>1, <1>6 DEF Stands
  <2>2. written' = [written EXCEPT !.version = text'] /\ exists = TRUE
    BY <1>1, <1>6
  <2>3. written' = [there |-> exists, version |-> text']
    BY <2>1, <2>2
  <2> QED
    BY <1>1, <2>2, <2>3
<1>7. \A v \in Tellers : /\ telling'[v].at \in Storing => telling'[v] = telling[v]
                         /\ telling[v].at \in Storing => telling'[v] = telling[v]
  BY <1>1, <1>4 DEF Storing
<1>8. (SavingWasMailed => SavingWasMailed') /\ (MailFollows => MailFollows')
  BY <1>1, <1>7 DEF SavingWasMailed, MailFollows, Storing
<1>9. Stands'
  BY <1>1, <1>6, <1>8 DEF Stands
<1> QED
  BY <1>3, <1>5, <1>9

LEMMA ServedKept ==
    ASSUME Served, Remember, NEW w \in Tellers, NEW x, telling' = [telling EXCEPT ![w] = x],
           RowsFit(x), holding' \in AnyRow \cup {NoRow}, rowsMade' \in Nat,
           exists' \in BOOLEAN, ~exists' => holding' = NoRow, thing' = thing
    PROVE  Served'
<1>1. /\ telling'[w] = x
      /\ \A v \in Tellers \ {w} : telling'[v] = telling[v]
      /\ telling' = [v \in Tellers |-> telling'[v]]
  BY TellsOne
<1>2. \A v \in Tellers : RowsFit(telling'[v])
  BY <1>1 DEF Served
<1> QED
  BY <1>1, <1>2, Remembers DEF Served

\* Places where nothing is known yet.
LEMMA SeenSilent ==
    ASSUME Served, Seen, Remember, NEW w \in Tellers, NEW x, telling' = [telling EXCEPT ![w] = x],
           x.at \notin {"listed", "filling", "texts", "revisions", "rights", "told"}
    PROVE  Seen'
<1>1. Knows(x, held[w] \cup {holding'.rights})
  BY DEF Knows
<1> QED
  BY <1>1, SeenKept

\* The right Mate has is not another.
LEMMA StandsKept ==
    ASSUME Stands, thing' = thing, mailed' = mailed,
           \A v \in Tellers : /\ telling'[v].at \in Storing => telling'[v] = telling[v]
                              /\ telling[v].at \in Storing => telling'[v] = telling[v],
           ~overran' => /\ ~overran
                        /\ holding' = ordered' /\ written' = [there |-> exists', version |-> text']
                        /\ holding' # NoRow => holding # NoRow /\ holding'.rights = holding.rights
    PROVE  Stands'
<1>1. SavingWasMailed => SavingWasMailed'
  BY DEF SavingWasMailed, Storing
<1>2. ASSUME ~overran', MailFollows PROVE MailFollows'
  <2> SUFFICES ASSUME holding' # NoRow PROVE MailFollows'
    BY DEF MailFollows
  <2>0. holding # NoRow /\ holding'.rights = holding.rights
    BY <1>2
  <2>1. CASE mailed = holding.rights
    BY <2>0, <2>1 DEF MailFollows
  <2>2. ASSUME NEW v \in Tellers, telling[v].at = "mail" PROVE MailFollows'
    BY <2>2 DEF MailFollows, Storing
  <2>3. ASSUME NEW v \in Tellers, telling[v].at = "saving", mailed = telling[v].row.rights
        PROVE  MailFollows'
    BY <2>3 DEF MailFollows, Storing
  <2> QED
    BY <1>2, <2>0, <2>1, <2>2, <2>3 DEF MailFollows
<1> QED
  BY <1>1, <1>2 DEF Stands

\* A row that is stored whole is the one that stands, unless it changed meanwhile.
LEMMA RowStored ==
    ASSUME Served, NEW read, NEW new \in AnyRow, StoreRow(read, new), UNCHANGED exists
    PROVE  /\ holding' \in AnyRow \cup {NoRow} /\ (~exists' => holding' = NoRow)
           /\ ~overran' /\ read \in AnyRow /\ read.number = new.number
                => ~overran /\ holding = read /\ holding # NoRow /\ holding' = new
BY NothingIsNoRight DEF Served, StoreRow

LEMMA StorePathInv ==
    ASSUME OverviewInv, Remember, NEW w \in Tellers, StorePath(w)
    PROVE  OverviewInv'
<1> USE DEF OverviewInv
<1> DEFINE whole == telling[w].row
           new == [whole EXCEPT !.path = "moved"]
<1>1. /\ telling' = [telling EXCEPT ![w] = NoAnswer] /\ telling[w].at = "moving"
      /\ StoreRow(whole, Moved(whole, "moved")) /\ ordered' = Moved(ordered, "moved")
      /\ UNCHANGED <<thing, rowsMade, mailed, exists, text, written>>
  BY DEF StorePath, GoOn, textVars
<1>2. whole \in AnyRow
  BY <1>1 DEF Served, RowsFit
<1>3. Moved(whole, "moved") = new /\ new \in AnyRow /\ new.rights = whole.rights /\ new.number = whole.number
  BY <1>2, NothingIsNoRight, RowChanged DEF Moved
<1>4. /\ holding' \in AnyRow \cup {NoRow} /\ (~exists' => holding' = NoRow)
      /\ ~overran' => ~overran /\ holding = whole /\ holding # NoRow /\ holding' = new
  BY <1>1, <1>2, <1>3, RowStored
<1>5. NoAnswer.at = "none" /\ RowsFit(NoAnswer)
  BY DEF NoAnswer, RowsFit
<1>6. Served'
  BY <1>1, <1>4, <1>5, ServedKept DEF Served
<1>7. Seen'
  BY <1>1, <1>5, SeenSilent
<1>8. \A v \in Tellers : /\ telling'[v].at \in Storing => telling'[v] = telling[v]
                         /\ telling[v].at \in Storing => telling'[v] = telling[v]
  BY <1>1, <1>5, TellsOne DEF Storing
<1>9. ~overran' => /\ ~overran
                   /\ holding' = ordered' /\ written' = [there |-> exists', version |-> text']
                   /\ holding' # NoRow => holding # NoRow /\ holding'.rights = holding.rights
  BY <1>1, <1>3, <1>4 DEF Stands
<1>10. thing' = thing /\ mailed' = mailed
  BY <1>1
<1>11. Stands'
  BY <1>8, <1>9, <1>10, StandsKept
<1> QED
  BY <1>6, <1>7, <1>11

LEMMA SavePathInv ==
    ASSUME OverviewInv, Remember, NEW w \in Tellers, SavePathObject(w)
    PROVE  OverviewInv'
<1> USE DEF OverviewInv
<1>1. /\ telling' = [telling EXCEPT ![w] = NoAnswer] /\ telling[w].at = "changing"
      /\ UNCHANGED <<thing, rowsMade, mailed, exists, text, written, overran>>
      /\ \/ /\ holding # NoRow
            /\ holding' = Moved(holding, "changed") /\ ordered' = Moved(ordered, "changed")
         \/ UNCHANGED <<holding, ordered>>
  BY DEF SavePathObject, GoOn, textVars
<1>2. /\ holding' \in AnyRow \cup {NoRow} /\ (~exists' => holding' = NoRow)
      /\ holding' # NoRow => holding # NoRow /\ holding'.rights = holding.rights
  <2>1. CASE UNCHANGED <<holding, ordered>>
    BY <1>1, <2>1 DEF Served
  <2>2. CASE holding # NoRow /\ holding' = Moved(holding, "changed")
    <3>1. holding \in AnyRow /\ holding' = [holding EXCEPT !.path = "changed"]
      BY <2>2 DEF Served, Moved
    <3> QED
      BY <1>1, <2>2, <3>1, RowChanged DEF Served
  <2> QED
    BY <1>1, <2>1, <2>2
<1>3. NoAnswer.at = "none" /\ RowsFit(NoAnswer)
  BY DEF NoAnswer, RowsFit
<1>4. Served'
  BY <1>1, <1>2, <1>3, ServedKept DEF Served
<1>5. Seen'
  BY <1>1, <1>3, SeenSilent
<1>6. \A v \in Tellers : /\ telling'[v].at \in Storing => telling'[v] = telling[v]
                         /\ telling[v].at \in Storing => telling'[v] = telling[v]
  BY <1>1, <1>3, TellsOne DEF Storing
<1>7. ~overran' => /\ ~overran
                   /\ holding' = ordered' /\ written' = [there |-> exists', version |-> text']
                   /\ holding' # NoRow => holding # NoRow /\ holding'.rights = holding.rights
  BY <1>1, <1>2 DEF Stands
<1>8. thing' = thing /\ mailed' = mailed
  BY <1>1
<1>9. Stands'
  BY <1>6, <1>7, <1>8, StandsKept
<1> QED
  BY <1>4, <1>5, <1>9

LEMMA MakeRowInv ==
    ASSUME OverviewInv, Remember, NEW w \in Tellers, MakeRow(w)
    PROVE  OverviewInv'
<1> USE DEF OverviewInv
<1>1. telling[w].at = "sharing" /\ telling[w].at \notin Storing /\ telling[w].right \in OverviewRights
  BY DEF MakeRow, Served, RowsFit, Storing
<1>2. CASE ~(exists /\ holding = NoRow)
  <2>1. telling' = [telling EXCEPT ![w] = NoAnswer]
    BY <1>2 DEF MakeRow, GoOn
  <2>2. UNCHANGED <<thing, rightVars, textVars, overran>>
    BY <1>2 DEF MakeRow, GoOn, rightVars
  <2> QED
    BY <1>1, <2>1, <2>2, EndInv
<1>3. CASE exists /\ holding = NoRow
  <2> DEFINE new == NewRow(telling[w].right)
             mail == [at |-> "mail", row |-> new, read |-> new]
             next == IF thing = "book" THEN NoAnswer ELSE mail
  <2>1. /\ holding' = new /\ ordered' = new /\ rowsMade' = rowsMade + 1
        /\ UNCHANGED <<thing, mailed, exists, text, written, overran>>
    BY <1>3 DEF MakeRow, GoOn, textVars
  <2>2. telling' = [telling EXCEPT ![w] = next]
    <3>1. CASE thing = "book"
      BY <1>3, <3>1 DEF MakeRow, GoOn
    <3>2. CASE thing # "book"
      BY <1>3, <3>2 DEF MakeRow, GoOn, NewHolderIsTold, Served
    <3> QED
      BY <3>1, <3>2
  <2>3. new \in AnyRow
    BY <1>1 DEF NewRow, AnyRow, Served
  <2> HIDE DEF new
  <2>4. new = [new EXCEPT !.rights = new.rights]
    BY <2>3 DEF AnyRow
  <2>5. RowsFit(next) /\ next.at \in {"none", "mail"}
    BY <2>3, <2>4 DEF RowsFit, NoAnswer
  <2> HIDE DEF next
  <2>6. rowsMade' \in Nat /\ exists' \in BOOLEAN /\ exists'
    BY <1>3, <2>1 DEF Served
  <2>7. Served'
    BY <2>1, <2>2, <2>3, <2>5, <2>6, ServedKept
  <2>8. Seen'
    BY <2>2, <2>5, SeenSilent
  <2>9. ASSUME ~overran' PROVE holding' = ordered' /\ written' = [there |-> exists', version |-> text']
    BY <2>1, <2>9 DEF Stands
  <2>10. ASSUME ~overran', thing' = "document" PROVE SavingWasMailed' /\ MailFollows'
    <3>1. next = mail
      BY <2>1, <2>10 DEF next
    <3>2. telling'[w].at = "mail" /\ \A v \in Tellers \ {w} : telling'[v] = telling[v]
      BY <2>2, <3>1, TellsOne
    <3>3. SavingWasMailed
      BY <2>1, <2>10 DEF Stands
    <3> QED
      BY <2>1, <3>2, <3>3 DEF SavingWasMailed, MailFollows
  <2>11. Stands'
    BY <2>9, <2>10 DEF Stands
  <2> QED
    BY <2>7, <2>8, <2>11
<1> QED
  BY <1>2, <1>3

LEMMA ChangeRowInv ==
    ASSUME OverviewInv, Remember, NEW w \in Tellers, ChangeRow(w)
    PROVE  OverviewInv'
<1> USE DEF OverviewInv
<1> DEFINE read == telling[w].row
           new == [read EXCEPT !.rights = telling[w].right]
           next == [at |-> IF new = read THEN "saving" ELSE "mail", row |-> new, read |-> read]
<1>1. telling[w].at = "sharing" /\ telling[w].right \in OverviewRights /\ read \in AnyRow
  BY DEF ChangeRow, Served, RowsFit
<1>2. /\ telling' = [telling EXCEPT ![w] = next]
      /\ UNCHANGED <<thing, holding, rowsMade, mailed, ordered, exists, text, written, overran>>
  BY DEF ChangeRow, GoOn, rightVars, textVars
<1>3. new \in AnyRow /\ new = [read EXCEPT !.rights = new.rights]
  BY <1>1, RowChanged
<1> HIDE DEF read, new
<1>4. RowsFit(next) /\ next.at \in Storing
  BY <1>1, <1>3 DEF RowsFit, Storing
<1>5. next.at = "saving" => next.row = next.read
  OBVIOUS
<1> HIDE DEF next
<1>6. Served'
  BY <1>2, <1>4, ServedKept DEF Served
<1>7. Seen'
  BY <1>2, <1>4, SeenSilent DEF Storing
<1>8. /\ telling'[w] = next
      /\ \A v \in Tellers \ {w} : telling'[v] = telling[v]
  BY <1>2, TellsOne
<1>9. SavingWasMailed => SavingWasMailed'
  BY <1>2, <1>5, <1>8 DEF SavingWasMailed
<1>10. MailFollows => MailFollows'
  <2> SUFFICES ASSUME MailFollows, holding # NoRow PROVE MailFollows'
    BY <1>2 DEF MailFollows
  <2>1. CASE mailed = holding.rights
    BY <1>2, <2>1 DEF MailFollows
  <2>2. ASSUME NEW v \in Tellers, telling[v].at = "mail" PROVE MailFollows'
    BY <1>1, <1>8, <2>2 DEF MailFollows
  <2>3. ASSUME NEW v \in Tellers, telling[v].at = "saving", mailed = telling[v].row.rights
        PROVE  MailFollows'
    BY <1>1, <1>2, <1>8, <2>3 DEF MailFollows
  <2> QED
    BY <2>1, <2>2, <2>3 DEF MailFollows
<1>11. Stands'
  BY <1>2, <1>9, <1>10 DEF Stands
<1> QED
  BY <1>6, <1>7, <1>11

\* The mail is the last one about this row, as no other is about to be stored.
LEMMA MailInv ==
    ASSUME OverviewInv, Remember, NEW w \in Tellers, MailShare(w)
    PROVE  OverviewInv'
<1> USE DEF OverviewInv
<1> DEFINE next == [telling[w] EXCEPT !.at = "saving"]
<1>1. /\ telling' = [telling EXCEPT ![w] = next] /\ telling[w].at = "mail"
      /\ mailed' = telling[w].row.rights
      /\ UNCHANGED <<thing, holding, rowsMade, ordered, exists, text, written>>
      /\ ~overran' => ~overran /\ \A v \in Tellers \ {w} : telling[v].at # "saving"
  BY DEF MailShare, GoOn, textVars
<1>2. RowsFit(telling[w]) /\ telling[w].at \in Storing
  BY <1>1 DEF Served, Storing
<1>3. next = [at |-> "saving", row |-> telling[w].row, read |-> telling[w].read]
  BY <1>2 DEF RowsFit, Storing
<1>4. next.at = "saving" /\ next.row = telling[w].row /\ next.read = telling[w].read
  BY <1>3
<1>5. RowsFit(next)
  BY <1>2, <1>3, <1>4 DEF RowsFit, Storing
<1> HIDE DEF next
<1>6. Served'
  BY <1>1, <1>5, ServedKept DEF Served
<1>7. Seen'
  BY <1>1, <1>4, SeenSilent
<1>8. /\ telling'[w] = next
      /\ \A v \in Tellers \ {w} : telling'[v] = telling[v]
  BY <1>1, TellsOne
<1>9. ASSUME ~overran' PROVE SavingWasMailed' /\ MailFollows'
  <2>1. \A v \in Tellers : telling'[v].at = "saving" => v = w
    BY <1>1, <1>8, <1>9
  <2> QED
    BY <1>1, <1>4, <1>8, <2>1 DEF SavingWasMailed, MailFollows
<1>10. Stands'
  BY <1>1, <1>9 DEF Stands
<1> QED
  BY <1>6, <1>7, <1>10

LEMMA SaveRowInv ==
    ASSUME OverviewInv, Remember, NEW w \in Tellers, SaveRow(w)
    PROVE  OverviewInv'
<1> USE DEF OverviewInv
<1> DEFINE whole == telling[w].row
           read == telling[w].read
<1>1. /\ telling' = [telling EXCEPT ![w] = NoAnswer] /\ telling[w].at = "saving"
      /\ StoreRow(read, whole)
      /\ ordered' = IF ordered = NoRow THEN whole ELSE [ordered EXCEPT !.rights = whole.rights]
      /\ UNCHANGED <<thing, rowsMade, mailed, exists, text, written>>
  BY DEF SaveRow, GoOn, textVars
<1>2. whole \in AnyRow /\ read \in AnyRow /\ whole = [read EXCEPT !.rights = whole.rights]
  BY <1>1 DEF Served, RowsFit
<1>3. whole.rights \in OverviewRights /\ read.number = whole.number
  <2>1. whole.rights \in OverviewRights
    BY <1>2, RowTyped
  <2> HIDE DEF whole, read
  <2>2. [read EXCEPT !.rights = whole.rights].number = read.number
    BY <1>2, <2>1, RowChanged
  <2> QED
    BY <1>2, <2>1, <2>2
<1>4. /\ holding' \in AnyRow \cup {NoRow} /\ (~exists' => holding' = NoRow)
      /\ ~overran' => ~overran /\ holding = read /\ holding # NoRow /\ holding' = whole
  BY <1>1, <1>2, <1>3, RowStored
<1>5. NoAnswer.at = "none" /\ RowsFit(NoAnswer)
  BY DEF NoAnswer, RowsFit
<1>6. Served'
  BY <1>1, <1>4, <1>5, ServedKept DEF Served
<1>7. Seen'
  BY <1>1, <1>5, SeenSilent
<1>8. /\ telling'[w] = NoAnswer
      /\ \A v \in Tellers \ {w} : telling'[v] = telling[v]
  BY <1>1, TellsOne
<1>9. ASSUME ~overran' PROVE holding' = ordered' /\ written' = [there |-> exists', version |-> text']
  BY <1>1, <1>2, <1>4, <1>9 DEF Stands
<1>10. ASSUME ~overran', thing' = "document" PROVE SavingWasMailed' /\ MailFollows'
  <2>1. SavingWasMailed /\ MailFollows /\ holding # NoRow /\ holding = read /\ holding' = whole
    BY <1>1, <1>4, <1>10 DEF Stands
  <2>2. SavingWasMailed'
    BY <1>1, <1>5, <1>8, <2>1 DEF SavingWasMailed
  <2>3. CASE mailed = whole.rights
    <3>1. mailed' = holding'.rights
      BY <1>1, <2>1, <2>3
    <3> QED
      BY <2>2, <3>1 DEF MailFollows
  <2>4. CASE mailed # whole.rights
    <3>1. whole = read /\ holding'.rights = holding.rights
      BY <1>1, <2>1, <2>4 DEF SavingWasMailed
    <3>2. \/ mailed = holding.rights
          \/ \E v \in Tellers \ {w} : telling[v].at = "mail"
          \/ \E v \in Tellers \ {w} : telling[v].at = "saving" /\ mailed = telling[v].row.rights
      BY <1>1, <2>1, <2>4 DEF MailFollows
    <3> QED
      BY <1>1, <1>8, <2>2, <3>1, <3>2 DEF MailFollows
  <2> QED
    BY <2>2, <2>3, <2>4
<1>11. Stands'
  BY <1>9, <1>10 DEF Stands
<1> QED
  BY <1>6, <1>7, <1>11

\* A right that is taken away, a document or book that is deleted, a text that is stored.
LEMMA OthersInv ==
    ASSUME OverviewInv, Remember, TakeRight \/ Delete \/ Store
    PROVE  OverviewInv'
<1> USE DEF OverviewInv
<1>1. /\ telling' = telling /\ thing' = thing /\ mailed' = mailed /\ rowsMade' = rowsMade
      /\ overran' = overran /\ exists' \in {exists, FALSE}
      /\ \/ UNCHANGED <<holding, ordered, exists>>
         \/ holding' = NoRow /\ ordered' = NoRow
  BY DEF TakeRight, Delete, Store, rightVars, textVars
<1>2. ASSUME ~overran PROVE written' = [there |-> exists', version |-> text']
  <2>1. written = [there |-> exists, version |-> text]
    BY <1>2 DEF Stands
  <2>2. CASE TakeRight
    BY <2>1, <2>2 DEF TakeRight, textVars
  <2>3. CASE Delete
    BY <2>1, <2>3 DEF Delete
  <2>4. CASE Store
    <3>1. exists' = exists /\ written' = [written EXCEPT !.version = text']
      BY <2>4 DEF Store
    <3> QED
      BY <2>1, <3>1
  <2> QED
    BY <2>2, <2>3, <2>4
<1>3. Served'
  <2>1. /\ holding' \in AnyRow \cup {NoRow} /\ (~exists' => holding' = NoRow)
        /\ exists' \in BOOLEAN
    <3>1. CASE holding' = holding /\ exists' = exists
      BY <3>1 DEF Served
    <3>2. CASE holding' = NoRow
      BY <1>1, <3>2 DEF Served
    <3> QED
      BY <1>1, <3>1, <3>2
  <2> QED
    BY <1>1, <2>1, Remembers DEF Served
<1>4. Seen'
  BY <1>1, SeenRest
<1>5. ~overran' => /\ ~overran
                   /\ holding' = ordered' /\ written' = [there |-> exists', version |-> text']
                   /\ holding' # NoRow => holding # NoRow /\ holding'.rights = holding.rights
  BY <1>1, <1>2 DEF Stands
<1>6. \A v \in Tellers : /\ telling'[v].at \in Storing => telling'[v] = telling[v]
                         /\ telling[v].at \in Storing => telling'[v] = telling[v]
  BY <1>1
<1>7. Stands'
  BY <1>1, <1>5, <1>6, StandsKept
<1> QED
  BY <1>3, <1>4, <1>7

LEMMA OverviewInitInv == OverviewInit => OverviewInv
<1> SUFFICES ASSUME OverviewInit PROVE OverviewInv
  OBVIOUS
<1>1. \A w \in Tellers : telling[w] = NoAnswer
  BY DEF OverviewInit
<1>2. RowsFit(NoAnswer)
  BY DEF RowsFit, NoAnswer
<1>3. telling = [w \in Tellers |-> telling[w]] /\ held = [w \in Tellers |-> held[w]]
  BY DEF OverviewInit
<1>4. Served
  BY <1>1, <1>2, <1>3 DEF OverviewInit, Served
<1>5. Seen
  BY <1>1, IdleKnows DEF Seen
<1>6. Stands
  BY <1>1 DEF OverviewInit, Stands, SavingWasMailed, MailFollows, NoAnswer
<1> QED
  BY <1>4, <1>5, <1>6 DEF OverviewInv

LEMMA OverviewStepInv == OverviewInv /\ [OverviewNext]_overviewVars => OverviewInv'
<1> SUFFICES ASSUME OverviewInv, [OverviewNext]_overviewVars PROVE OverviewInv'
  OBVIOUS
<1>1. ASSUME Remember, NEW w \in Tellers,
             \/ ListShared(w) \/ ReadTexts(w) \/ ListRights(w) \/ NotifyMate(w) \/ NotifyBoss(w)
             \/ RequestAccess(w) \/ Move(w) \/ ChangePath(w)
             \/ \E right \in OverviewRights : GiveRight(w, right)
      PROVE  OverviewInv'
  BY <1>1, BeginInv
<1>2. ASSUME Remember, NEW w \in Tellers,
             \/ LookUpRight(w) \/ LookUpRevisions(w) \/ LookUpComments(w) \/ FollowRights(w)
             \/ LookUpNotifier(w) \/ LookUpAsker(w) \/ Answer(w)
      PROVE  OverviewInv'
  BY <1>2, LookInv
<1>3. ASSUME Remember, NEW w \in Tellers,
             \/ FillText(w) \/ StorePath(w) \/ SavePathObject(w)
             \/ MakeRow(w) \/ ChangeRow(w) \/ MailShare(w) \/ SaveRow(w)
      PROVE  OverviewInv'
  BY <1>3, FillInv, StorePathInv, SavePathInv, MakeRowInv, ChangeRowInv, MailInv, SaveRowInv
<1>4. ASSUME Remember, TakeRight \/ Delete \/ Store PROVE OverviewInv'
  BY <1>4, OthersInv
<1>5. CASE UNCHANGED overviewVars
  BY <1>5 DEF overviewVars, OverviewInv, Served, Seen, Stands, SavingWasMailed, MailFollows
<1> QED
  BY <1>1, <1>2, <1>3, <1>4, <1>5 DEF OverviewNext

\* Whatever Mate is shown, or is told or tells by mail, goes with a right he had meanwhile,
\* but for the comments of one whose right is taken away between two lookups
\* (documents_list, get_documentlist_extra, comment_notify, request_access), for any number of
\* requests at work and any levels of rights.
THEOREM ToldWasSoCorrect == OverviewSpec => []ToldWasSo
<1>1. OverviewInv => ToldWasSo
  <2> SUFFICES ASSUME OverviewInv PROVE ToldWasSo
    OBVIOUS
  <2>1. ASSUME NEW w \in Tellers, telling[w].at = "told"
        PROVE  telling[w].facts \subseteq (UNION {Entitles(right) : right \in held[w]})
                                     \cup {f \in {"comments"} : Nothing \in held[w]}
    <3>1. ASSUME NEW f \in telling[w].facts
          PROVE  \/ \E right \in held[w] : f \in Entitles(right)
                 \/ f = "comments" /\ Nothing \in held[w]
      BY <2>1 DEF OverviewInv, Seen, Knows
    <3> QED
      BY <3>1
  <2> QED
    BY <2>1, Zenon DEF ToldWasSo
<1> QED
  BY <1>1, OverviewInitInv, OverviewStepInv, PTL DEF OverviewSpec

\* Unless a whole row was stored over a change made since it was read, or two rights were
\* given at once: Mate's right is the one Boss last gave him, what was deleted stays away, the
\* text is the version last stored, and the last mail told him his right or another follows
\* (move, get_documentlist_extra, save_access_rights, handle_path_change).
THEOREM RowsStandCorrect == OverviewSpec => []RowsStand
<1>1. OverviewInv => RowsStand
  BY DEF OverviewInv, Stands, MailFollows, RowsStand
<1> QED
  BY <1>1, OverviewInitInv, OverviewStepInv, PTL DEF OverviewSpec

-----------------------------------------------------------------------------
(* The types of Overview.                                                  *)

\* A row that a request has in hand.
HasRowInHand == {"moving", "sharing", "mail", "saving"}

\* Rows have numbers that were given out, and counters keep their bounds.
OverviewBound ==
    /\ holding \in Rows \cup {NoRow} /\ ordered \in Rows \cup {NoRow}
    /\ \A w \in Tellers : telling[w].at \in HasRowInHand => telling[w].row \in Rows \cup {NoRow}
    /\ text \in 0..MaxTexts /\ written \in [there : BOOLEAN, version : 0..MaxTexts]
    /\ orders \in 0..MaxOrders /\ mailed \in OverviewRights \cup {Nothing} /\ overran \in BOOLEAN
    /\ held \in [Tellers -> SUBSET (OverviewRights \cup {Nothing})]
    /\ \A w \in Tellers : held[w] = {} <=> telling[w] = NoAnswer

LEMMA RowForms ==
    /\ \A r \in Rows : r.rights \in OverviewRights /\ r.number \in 1..rowsMade
    /\ \A r \in Rows : \A path \in {"first", "moved", "changed"} : [r EXCEPT !.path = path] \in Rows
    /\ \A r \in Rows : \A right \in OverviewRights : [r EXCEPT !.rights = right] \in Rows
    /\ \A r \in AnyRow : r \in Rows \cup {NoRow} => r \in Rows
BY NothingIsNoRight DEF Rows, AnyRow

\* A path, and a right, of a row or of none.
LEMMA MovedRow ==
    ASSUME NEW r \in Rows \cup {NoRow}, NEW path \in {"first", "moved", "changed"}
    PROVE  Moved(r, path) \in Rows \cup {NoRow}
BY RowForms DEF Moved

\* What is kept when request w goes on as x, or none does.
LEMMA BoundKept ==
    ASSUME OverviewInv, OverviewBound, Remember, rowsMade' \in {rowsMade, rowsMade + 1},
           \A w \in Tellers : \/ telling'[w] = telling[w]
                              \/ telling'[w].at \in HasRowInHand =>
                                      telling'[w].row \in Rows' \cup {NoRow},
           holding' \in Rows' \cup {NoRow}, ordered' \in Rows' \cup {NoRow},
           text' \in 0..MaxTexts, written' \in [there : BOOLEAN, version : 0..MaxTexts],
           orders' \in 0..MaxOrders, mailed' \in OverviewRights \cup {Nothing}, overran' \in BOOLEAN
    PROVE  OverviewBound'
<1>1. Rows \subseteq Rows' /\ \A r \in Rows' : r.rights \in OverviewRights
  BY DEF Rows, OverviewInv, Served
<1>2. \A w \in Tellers : telling'[w].at \in HasRowInHand => telling'[w].row \in Rows' \cup {NoRow}
  BY <1>1 DEF OverviewBound
<1>3. holding'.rights \in OverviewRights \cup {Nothing}
  BY <1>1 DEF NoRow
<1>4. held' \in [Tellers -> SUBSET (OverviewRights \cup {Nothing})]
  BY <1>3 DEF Remember, OverviewBound
<1>5. \A w \in Tellers : held'[w] = {} <=> telling'[w] = NoAnswer
  BY DEF Remember
<1> QED
  BY <1>2, <1>4, <1>5 DEF OverviewBound

LEMMA QuietBound ==
    ASSUME OverviewInv, OverviewBound, Remember, NEW w \in Tellers, NEW x,
           telling' = [telling EXCEPT ![w] = x], x.at \in HasRowInHand => x.row \in Rows \cup {NoRow},
           UNCHANGED <<rightVars, textVars>>, orders' \in 0..MaxOrders, overran' \in BOOLEAN
    PROVE  OverviewBound'
<1>1. \A v \in Tellers : \/ telling'[v] = telling[v]
                         \/ telling'[v].at \in HasRowInHand => telling'[v].row \in Rows' \cup {NoRow}
  BY TellsOne DEF OverviewInv, rightVars, Rows
<1> QED
  BY <1>1, BoundKept DEF rightVars, textVars, Rows, OverviewBound

LEMMA OrderedOne ==
    ASSUME OverviewBound, orders < MaxOrders, orders' = orders + 1
    PROVE  orders' \in 0..MaxOrders
BY OverviewAssumption DEF OverviewBound

LEMMA BeginBound ==
    ASSUME OverviewInv, OverviewBound, Remember, NEW w \in Tellers,
           \/ ListShared(w) \/ ReadTexts(w) \/ ListRights(w) \/ NotifyMate(w) \/ NotifyBoss(w)
           \/ RequestAccess(w) \/ Move(w) \/ ChangePath(w)
           \/ \E right \in OverviewRights : GiveRight(w, right)
    PROVE  OverviewBound'
<1>1. UNCHANGED <<rightVars, textVars, overran>>
  BY DEF ListShared, ReadTexts, ListRights, NotifyMate, NotifyBoss, RequestAccess, Move,
         ChangePath, GiveRight
<1>2. PICK x : TakeUp(w, x) /\ (x.at \in HasRowInHand => x.row = holding)
  <2> DEFINE Taken(x) == TakeUp(w, x) /\ (x.at \in HasRowInHand => x.row = holding)
  <2> USE DEF HasRowInHand
  <2>1. CASE ListShared(w)
    <3>1. Taken([at |-> "listed"])
      BY <2>1 DEF ListShared
    <3> QED
      BY <3>1
  <2>2. CASE ReadTexts(w)
    <3>1. \E x : Taken(x)
      BY <2>2 DEF ReadTexts
    <3> QED
      BY <3>1
  <2>3. CASE ListRights(w)
    <3>1. \E x : Taken(x)
      BY <2>3 DEF ListRights
    <3> QED
      BY <3>1
  <2>4. CASE NotifyBoss(w)
    <3>1. \E x : Taken(x)
      BY <2>4 DEF NotifyBoss
    <3> QED
      BY <3>1
  <2>5. CASE RequestAccess(w)
    <3>1. \E x : Taken(x)
      BY <2>5 DEF RequestAccess
    <3> QED
      BY <3>1
  <2>6. CASE ChangePath(w)
    <3>1. \E x : Taken(x)
      BY <2>6 DEF ChangePath
    <3> QED
      BY <3>1
  <2>7. CASE NotifyMate(w)
    <3>1. \E x : Taken(x)
      BY <2>7 DEF NotifyMate, Unsent, CommentMail, Answered
    <3> QED
      BY <3>1
  <2>8. CASE Move(w)
    <3>1. \E x : Taken(x)
      BY <2>8 DEF Move
    <3> QED
      BY <3>1
  <2>9. ASSUME NEW right \in OverviewRights, GiveRight(w, right) PROVE \E x : Taken(x)
    <3>1. Taken([at |-> "sharing", row |-> holding, right |-> right])
      BY <2>9 DEF GiveRight
    <3> QED
      BY <3>1
  <2> HIDE DEF Taken
  <2>10. \E x : Taken(x)
    BY <2>1, <2>2, <2>3, <2>4, <2>5, <2>6, <2>7, <2>8, <2>9 DEF Taken
  <2> QED
    BY <2>10 DEF Taken
<1>3. /\ telling' = [telling EXCEPT ![w] = x] /\ orders' \in 0..MaxOrders
      /\ x.at \in HasRowInHand => x.row \in Rows \cup {NoRow} /\ overran' \in BOOLEAN
  BY <1>1, <1>2, OrderedOne DEF TakeUp, OverviewBound
<1> QED
  BY <1>1, <1>2, <1>3, QuietBound DEF OverviewBound

LEMMA LookBound ==
    ASSUME OverviewInv, OverviewBound, Remember, NEW w \in Tellers,
           \/ LookUpRight(w) \/ LookUpRevisions(w) \/ LookUpComments(w) \/ FollowRights(w)
           \/ LookUpNotifier(w) \/ LookUpAsker(w) \/ Answer(w)
    PROVE  OverviewBound'
<1>1. UNCHANGED <<rightVars, textVars, overran>>
  BY DEF LookUpRight, LookUpRevisions, LookUpComments, FollowRights, LookUpNotifier, LookUpAsker, Answer
<1>2. PICK x : GoOn(w, x) /\ x.at \notin HasRowInHand
  BY DEF LookUpRight, LookUpRevisions, LookUpComments, FollowRights, LookUpNotifier, LookUpAsker,
         Answer, HasRowInHand, Answered, NoAnswer, Unsent, AccessMail, CommentMail
<1> QED
  BY <1>1, <1>2, QuietBound DEF GoOn, OverviewBound

LEMMA FillBound ==
    ASSUME OverviewInv, OverviewBound, Remember, NEW w \in Tellers, FillText(w)
    PROVE  OverviewBound'
<1> DEFINE x == [at |-> "texts"]
<1>1. /\ telling' = [telling EXCEPT ![w] = x] /\ UNCHANGED <<rightVars, orders>>
      /\ text' = FromTemplate /\ overran' = (overran \/ ~exists \/ text # Blank)
      /\ written' = (IF exists THEN [written EXCEPT !.version = FromTemplate] ELSE written)
  BY DEF FillText, GoOn
<1>2. x.at \notin HasRowInHand
  BY DEF HasRowInHand
<1>3. FromTemplate \in 0..MaxTexts
  BY OverviewAssumption DEF FromTemplate
<1>4. written' \in [there : BOOLEAN, version : 0..MaxTexts]
  BY <1>1, <1>3 DEF OverviewBound
<1> HIDE DEF x
<1>5. \A v \in Tellers : \/ telling'[v] = telling[v] \/ telling'[v].at \notin HasRowInHand
  BY <1>1, <1>2, TellsOne DEF OverviewInv
<1> QED
  BY <1>1, <1>3, <1>4, <1>5, BoundKept DEF rightVars, Rows, OverviewBound

LEMMA StoreBound ==
    ASSUME OverviewInv, OverviewBound, Remember, NEW w \in Tellers,
           StorePath(w) \/ SavePathObject(w) \/ SaveRow(w)
    PROVE  OverviewBound'
<1>1. /\ telling' = [telling EXCEPT ![w] = NoAnswer]
      /\ UNCHANGED <<orders, rowsMade, mailed, text, written>>
  BY DEF StorePath, SavePathObject, SaveRow, GoOn, textVars
<1>2. /\ \A v \in Tellers : telling'[v] = telling[v] \/ telling'[v].at \notin HasRowInHand
      /\ Rows' = Rows
  BY <1>1, TellsOne DEF OverviewInv, NoAnswer, HasRowInHand, Rows
<1>3. /\ holding' \in Rows \cup {NoRow} /\ ordered' \in Rows \cup {NoRow}
      /\ overran' \in BOOLEAN
  <2>1. CASE StorePath(w)
    <3>1. telling[w].row \in Rows \cup {NoRow}
      BY <2>1 DEF StorePath, OverviewBound, HasRowInHand
    <3>2. /\ Moved(telling[w].row, "moved") \in Rows \cup {NoRow}
          /\ Moved(ordered, "moved") \in Rows \cup {NoRow}
      BY <3>1, MovedRow DEF OverviewBound
    <3> QED
      BY <2>1, <3>2 DEF StorePath, StoreRow, OverviewBound
  <2>2. CASE SavePathObject(w)
    <3>1. Moved(holding, "changed") \in Rows \cup {NoRow} /\ Moved(ordered, "changed") \in Rows \cup {NoRow}
      BY MovedRow DEF OverviewBound
    <3> QED
      BY <2>2, <3>1 DEF SavePathObject, OverviewBound
  <2>3. CASE SaveRow(w)
    <3>1. telling[w].row \in Rows
      BY <2>3, RowForms DEF SaveRow, OverviewBound, HasRowInHand, OverviewInv, Served, RowsFit
    <3>2. telling[w].row.rights \in OverviewRights
      BY <3>1, RowForms
    <3>3. ordered' \in Rows \cup {NoRow}
      BY <2>3, <3>1, <3>2, RowForms DEF SaveRow, OverviewBound
    <3> QED
      BY <2>3, <3>1, <3>3 DEF SaveRow, StoreRow, OverviewBound
  <2> QED
    BY <2>1, <2>2, <2>3
<1> QED
  BY <1>1, <1>2, <1>3, BoundKept DEF OverviewBound

LEMMA MakeBound ==
    ASSUME OverviewInv, OverviewBound, Remember, NEW w \in Tellers, MakeRow(w)
    PROVE  OverviewBound'
<1> DEFINE new == NewRow(telling[w].right)
<1>1. CASE ~(exists /\ holding = NoRow)
  <2>1. /\ telling' = [telling EXCEPT ![w] = NoAnswer] /\ UNCHANGED <<rightVars, textVars, orders, overran>>
    BY <1>1 DEF MakeRow, GoOn, rightVars
  <2> QED
    BY <2>1, QuietBound DEF NoAnswer, HasRowInHand, OverviewBound
<1>2. CASE exists /\ holding = NoRow
  <2>1. /\ holding' = new /\ ordered' = new /\ rowsMade' = rowsMade + 1
        /\ UNCHANGED <<mailed, text, written, overran, orders>>
    BY <1>2 DEF MakeRow, GoOn, textVars
  <2>2. telling[w].right \in OverviewRights /\ rowsMade \in Nat
    BY DEF MakeRow, OverviewInv, Served, RowsFit
  <2>3. new \in Rows'
    BY <2>1, <2>2 DEF Rows, NewRow
  <2>4. PICK x : telling' = [telling EXCEPT ![w] = x] /\ (x.at \in HasRowInHand => x.row = new)
    BY <1>2 DEF MakeRow, GoOn, NoAnswer, HasRowInHand
  <2> HIDE DEF new
  <2>5. \A v \in Tellers : \/ telling'[v] = telling[v]
                           \/ telling'[v].at \in HasRowInHand => telling'[v].row \in Rows' \cup {NoRow}
    BY <2>3, <2>4, TellsOne DEF OverviewInv
  <2> QED
    BY <2>1, <2>3, <2>5, BoundKept DEF OverviewBound
<1> QED
  BY <1>1, <1>2

LEMMA ChangeBound ==
    ASSUME OverviewInv, OverviewBound, Remember, NEW w \in Tellers, ChangeRow(w)
    PROVE  OverviewBound'
<1> DEFINE read == telling[w].row
           new == [read EXCEPT !.rights = telling[w].right]
           next == [at |-> IF new = read THEN "saving" ELSE "mail", row |-> new, read |-> read]
<1>1. telling[w].right \in OverviewRights /\ read \in Rows
  BY DEF ChangeRow, OverviewInv, Served, RowsFit, OverviewBound, HasRowInHand
<1>2. telling' = [telling EXCEPT ![w] = next] /\ UNCHANGED <<rightVars, textVars, overran, orders>>
  BY DEF ChangeRow, GoOn
<1>3. next.row = new /\ new \in Rows
  BY <1>1, RowForms
<1> HIDE DEF next, new
<1> QED
  BY <1>2, <1>3, QuietBound DEF OverviewBound

LEMMA MailBound ==
    ASSUME OverviewInv, OverviewBound, Remember, NEW w \in Tellers, MailShare(w)
    PROVE  OverviewBound'
<1> DEFINE next == [telling[w] EXCEPT !.at = "saving"]
<1>1. /\ telling' = [telling EXCEPT ![w] = next] /\ mailed' = telling[w].row.rights
      /\ telling[w].at = "mail" /\ overran' \in BOOLEAN
      /\ UNCHANGED <<holding, rowsMade, ordered, text, written, orders>>
  BY DEF MailShare, GoOn, textVars, OverviewBound
<1>2. telling[w].row \in Rows
  BY <1>1, RowForms DEF OverviewBound, HasRowInHand, OverviewInv, Served, RowsFit
<1>3. next.row = telling[w].row
  BY <1>1 DEF OverviewInv, Served, RowsFit
<1> HIDE DEF next
<1>4. \A v \in Tellers : telling'[v] = telling[v] \/ telling'[v].row \in Rows
  BY <1>1, <1>2, <1>3, TellsOne DEF OverviewInv
<1>5. mailed' \in OverviewRights /\ Rows' = Rows
  BY <1>1, <1>2, RowForms DEF Rows
<1> QED
  BY <1>1, <1>4, <1>5, BoundKept DEF OverviewBound

LEMMA OthersBound ==
    ASSUME OverviewInv, OverviewBound, Remember, TakeRight \/ Delete \/ Store
    PROVE  OverviewBound'
<1>1. UNCHANGED <<telling, rowsMade, mailed, overran>> /\ Rows' = Rows
  BY DEF TakeRight, Delete, Store, rightVars, Rows
<1>2. orders' \in 0..MaxOrders
  BY OrderedOne DEF TakeRight, Delete, Store, OverviewBound
<1>3. holding' \in Rows \cup {NoRow} /\ ordered' \in Rows \cup {NoRow}
  BY DEF TakeRight, Delete, Store, OverviewBound, rightVars
<1>4. text' \in 0..MaxTexts /\ written' \in [there : BOOLEAN, version : 0..MaxTexts]
  <2>1. CASE TakeRight
    BY <2>1 DEF TakeRight, OverviewBound, textVars
  <2>2. CASE Delete
    BY <2>2 DEF Delete, OverviewBound
  <2>3. CASE Store
    <3>1. text + 1 \in 0..MaxTexts
      BY <2>3, OverviewAssumption DEF Store, OverviewBound
    <3> QED
      BY <2>3, <3>1 DEF Store, OverviewBound
  <2> QED
    BY <2>1, <2>2, <2>3
<1> QED
  BY <1>1, <1>2, <1>3, <1>4, BoundKept DEF OverviewBound

\* A right that is shown, told or stored is of a row that was made, and what was left unwritten is
\* nobody's, whatever requests cross (documents_list, save_access_rights, move, handle_path_change).
THEOREM OverviewTypeCorrect == OverviewSpec => []OverviewTypeOK
<1>1. OverviewInit => OverviewBound
  <2> SUFFICES ASSUME OverviewInit PROVE OverviewBound
    OBVIOUS
  <2>1. \A w \in Tellers : telling[w].at \notin HasRowInHand
    BY DEF OverviewInit, NoAnswer, HasRowInHand
  <2>2. /\ text \in 0..MaxTexts /\ orders \in 0..MaxOrders
        /\ written \in [there : BOOLEAN, version : 0..MaxTexts]
    BY OverviewAssumption DEF OverviewInit, Blank
  <2>3. held \in [Tellers -> SUBSET (OverviewRights \cup {Nothing})]
    BY DEF OverviewInit
  <2>4. \A w \in Tellers : held[w] = {} <=> telling[w] = NoAnswer
    BY DEF OverviewInit
  <2> QED
    BY <2>1, <2>2, <2>3, <2>4 DEF OverviewInit, OverviewBound
<1>2. OverviewInv /\ OverviewBound /\ [OverviewNext]_overviewVars => OverviewBound'
  <2> SUFFICES ASSUME OverviewInv, OverviewBound, [OverviewNext]_overviewVars PROVE OverviewBound'
    OBVIOUS
  <2>1. CASE OverviewNext
    BY <2>1, BeginBound, LookBound, FillBound, StoreBound, MakeBound, ChangeBound, MailBound,
       OthersBound DEF OverviewNext
  <2>2. CASE UNCHANGED overviewVars
    BY <2>2 DEF overviewVars, OverviewBound, Rows
  <2> QED
    BY <2>1, <2>2
<1>3. OverviewInv /\ OverviewBound => OverviewTypeOK
  BY DEF OverviewInv, Served, OverviewBound, OverviewTypeOK
<1> QED
  BY <1>1, <1>2, <1>3, OverviewInitInv, OverviewStepInv, PTL DEF OverviewSpec

-----------------------------------------------------------------------------
(* The way to the server process of a document.                            *)

\* Port p is in list v.
InList(p, v) == \E i \in 1..Len(Layouts[v]) : Layouts[v][i] = p

\* What the runserver r of machine h has read is no newer than the configuration s of the
\* machine, and it starts workers on ports it has read.
RunnerFits(r, h, s) ==
    \/ r = NoRunner
    \/ /\ r.at # "off" /\ r.loaded \in 1..s
       /\ r.at \in {"binding", "spawning"} => r = [at |-> r.at, loaded |-> r.loaded, todo |-> r.todo]
       /\ r.at = "spawning" => \A p \in r.todo : p \in Ports /\ site[p] = h /\ InList(p, r.loaded)

RunnersFit == \A h \in Hosts : RunnerFits(runner[h], h, settings[h])

\* Domains, as far as the proof needs them.
RoutingTyped ==
    /\ site \in [Ports -> Hosts] /\ settings \in [Hosts -> Lists]
    /\ runner = [h \in Hosts |-> runner[h]] /\ listener = [p \in Ports |-> listener[p]]
    /\ starting \in [Ports -> SUBSET Whose] /\ visitor = [c \in Visitors |-> visitor[c]]
    /\ RunnersFit

\* A worker has read what its machine has or had; a runserver's own, no less than that has.
WorkersRead == \A p \in Ports :
    /\ IsWorker(p) => listener[p].loaded \in 1..settings[site[p]]
    /\ HasWorker(p) => runner[site[p]] # NoRunner /\ InList(p, runner[site[p]].loaded)
    /\ listener[p].by = "own" => runner[site[p]].loaded <= listener[p].loaded

\* While no machine loses a port, nobody works on a port that is not in the list of now.
WithinList == ~dropped => \A p \in Ports :
    /\ runner[site[p]] # NoRunner /\ InList(p, runner[site[p]].loaded) => InList(p, settings[site[p]])
    /\ IsWorker(p) \/ starting[p] # {} => InList(p, settings[site[p]])

\* A runserver that has bound a port serves a maintenance page there, and no worker.
PagesServed == \A p \in Ports :
    /\ runner[site[p]].at \in {"binding", "preparing"} /\ InList(p, runner[site[p]].loaded)
    /\ runner[site[p]].at = "binding" => p \notin runner[site[p]].todo
    => listener[p] = Maintenance

\* Who was given a port was given the document's in some list, and who is connected is where
\* the worker there would not send him away, if it sees its port.
Stays(c) == /\ IsWorker(visitor[c].base)
            /\ ~Redirects(visitor[c].base, listener[visitor[c].base].loaded)
Guided == \A c \in Visitors :
    /\ visitor[c].at \in {"given", "connected"} =>
        /\ visitor[c] = [at |-> visitor[c].at, base |-> visitor[c].base, by |-> visitor[c].by]
        /\ visitor[c].base \in Ports
        /\ Len(Layouts[visitor[c].by]) >= 2 => visitor[c].base = PlaceIn(visitor[c].by)
    /\ visitor[c].at = "connected" => Stays(c)

RoutingInv == RoutingTyped /\ WorkersRead /\ WithinList /\ PagesServed /\ Guided

\* The document's place in a list is a port of it.
LEMMA PlaceListed ==
    ASSUME NEW v \in Lists
    PROVE  Len(Layouts[v]) \in Nat \ {0} /\ PlaceIn(v) \in Ports /\ InList(PlaceIn(v), v)
<1>1. Layouts[v] \in Seq(Ports) /\ Layouts[v] # <<>>
  BY RoutingAssumption, ElementOfSeq DEF Lists
<1>2. Len(Layouts[v]) \in Nat \ {0}
  BY <1>1, EmptySeq, LenProperties
<1>3. (DocumentId % Len(Layouts[v])) \in 0..(Len(Layouts[v]) - 1)
  BY <1>2, RoutingAssumption
<1>4. (DocumentId % Len(Layouts[v])) + 1 \in 1..Len(Layouts[v])
  BY <1>2, <1>3
<1> QED
  BY <1>1, <1>2, <1>4, ElementOfSeq DEF PlaceIn, InList

LEMMA ListsCount == Lists \subseteq Nat \ {0} /\ Len(Layouts) \in Nat
<1>1. Len(Layouts) \in Nat
  BY RoutingAssumption, LenProperties
<1> QED
  BY <1>1 DEF Lists

LEMMA NobodyIsNoWorker == Nobody \notin Whose
BY DEF Nobody, Whose

LEMMA LocalOnes == \A h, v : LocalPorts(h, v) = {p \in Ports : site[p] = h /\ InList(p, v)}
BY DEF LocalPorts, InList

\* Connections outlast whatever leaves the workers on their ports; those on others are cut.
LEMMA CutGuided ==
    ASSUME Guided, NEW ps, CutOff(ps), seesPort' = seesPort,
           \A p \in Ports : p \notin ps /\ IsWorker(p)
                => listener'[p].by \in Whose /\ listener'[p].loaded = listener[p].loaded
    PROVE  Guided' /\ visitor' = [c \in Visitors |-> visitor'[c]]
<1>1. visitor' = [c \in Visitors |-> visitor'[c]]
  BY DEF CutOff
<1>2. ASSUME NEW c \in Visitors, visitor[c].at = "connected", visitor[c].base \in ps
      PROVE  visitor'[c] = [visitor[c] EXCEPT !.at = "given"]
  BY <1>2 DEF CutOff
<1>3. ASSUME NEW c \in Visitors, ~(visitor[c].at = "connected" /\ visitor[c].base \in ps)
      PROVE  visitor'[c] = visitor[c]
  BY <1>3 DEF CutOff
<1>4. ASSUME NEW c \in Visitors, visitor'[c].at \in {"given", "connected"}
      PROVE  /\ visitor'[c] = [at |-> visitor'[c].at, base |-> visitor'[c].base, by |-> visitor'[c].by]
             /\ visitor'[c].base \in Ports
             /\ Len(Layouts[visitor'[c].by]) >= 2 => visitor'[c].base = PlaceIn(visitor'[c].by)
  <2>1. CASE visitor[c].at = "connected" /\ visitor[c].base \in ps
    <3>1. visitor[c] = [at |-> visitor[c].at, base |-> visitor[c].base, by |-> visitor[c].by]
      BY <2>1 DEF Guided
    <3>2. visitor'[c] = [at |-> "given", base |-> visitor[c].base, by |-> visitor[c].by]
      BY <1>2, <2>1, <3>1
    <3>3. /\ visitor'[c].at = "given" /\ visitor'[c].base = visitor[c].base
          /\ visitor'[c].by = visitor[c].by
      BY <3>2
    <3>4. /\ visitor[c].base \in Ports
          /\ Len(Layouts[visitor[c].by]) >= 2 => visitor[c].base = PlaceIn(visitor[c].by)
      BY <2>1 DEF Guided
    <3> QED
      BY <3>2, <3>3, <3>4
  <2>2. CASE ~(visitor[c].at = "connected" /\ visitor[c].base \in ps)
    BY <1>3, <1>4, <2>2 DEF Guided
  <2> QED
    BY <2>1, <2>2
<1>5. ASSUME NEW c \in Visitors, visitor'[c].at = "connected" PROVE Stays(c)'
  <2>1. visitor'[c] = visitor[c] /\ visitor[c].base \notin ps
    <3>1. CASE visitor[c].at = "connected" /\ visitor[c].base \in ps
      <4>1. visitor[c] = [at |-> visitor[c].at, base |-> visitor[c].base, by |-> visitor[c].by]
        BY <3>1 DEF Guided
      <4> QED
        BY <1>2, <1>5, <3>1, <4>1
    <3>2. CASE ~(visitor[c].at = "connected" /\ visitor[c].base \in ps)
      BY <1>3, <1>5, <3>2
    <3> QED
      BY <3>1, <3>2
  <2>2. visitor[c].base \in Ports /\ Stays(c)
    BY <1>5, <2>1 DEF Guided
  <2> QED
    BY <2>1, <2>2 DEF Stays, Redirects, IsWorker
<1> QED
  BY <1>1, <1>4, <1>5 DEF Guided

LEMMA StillGuided ==
    ASSUME Guided, visitor' = visitor, seesPort' = seesPort,
           \A p \in Ports : IsWorker(p)
                => listener'[p].by \in Whose /\ listener'[p].loaded = listener[p].loaded
    PROVE  Guided'
<1>1. ASSUME NEW c \in Visitors, visitor'[c].at = "connected" PROVE Stays(c)'
  <2>1. visitor[c].base \in Ports /\ Stays(c)
    BY <1>1 DEF Guided
  <2> QED
    BY <2>1 DEF Stays, Redirects, IsWorker
<1> QED
  BY <1>1 DEF Guided

\* A runserver goes on with what it has read.
LEMMA KeepsLoaded ==
    ASSUME RoutingTyped, NEW h \in Hosts, NEW r, Step(h, r), site' = site, settings' = settings,
           runner[h] # NoRunner, r # NoRunner, RunnerFits(r, h, settings[h]),
           r.loaded = runner[h].loaded
    PROVE  /\ runner' = [g \in Hosts |-> runner'[g]] /\ RunnersFit'
           /\ runner'[h] = r /\ \A g \in Hosts \ {h} : runner'[g] = runner[g]
           /\ \A g \in Hosts : /\ runner'[g] # NoRunner <=> runner[g] # NoRunner
                               /\ runner'[g].loaded = runner[g].loaded
<1>1. /\ runner' = [g \in Hosts |-> runner'[g]]
      /\ runner'[h] = r /\ \A g \in Hosts \ {h} : runner'[g] = runner[g]
  BY DEF Step, RoutingTyped
<1>2. RunnersFit'
  BY <1>1 DEF RoutingTyped, RunnersFit, RunnerFits
<1> QED
  BY <1>1, <1>2

LEMMA RunnerStops ==
    ASSUME RoutingTyped, NEW h \in Hosts, Step(h, NoRunner), site' = site, settings' = settings
    PROVE  /\ runner' = [g \in Hosts |-> runner'[g]] /\ RunnersFit'
           /\ runner'[h] = NoRunner /\ \A g \in Hosts \ {h} : runner'[g] = runner[g]
<1>1. /\ runner' = [g \in Hosts |-> runner'[g]]
      /\ runner'[h] = NoRunner /\ \A g \in Hosts \ {h} : runner'[g] = runner[g]
  BY DEF Step, RoutingTyped
<1>2. RunnersFit'
  BY <1>1 DEF RoutingTyped, RunnersFit, RunnerFits
<1> QED
  BY <1>1, <1>2

\* Workers end, are left behind, or are started by their runserver on its ports.
WorkerLives(p) ==
    /\ IsWorker(p)' => IsWorker(p) /\ listener'[p].loaded = listener[p].loaded
    /\ listener'[p].by = "own" => listener[p].by = "own"
    /\ "own" \in starting'[p] =>
          "own" \in starting[p] \/ (runner[site[p]] # NoRunner /\ InList(p, runner[site[p]].loaded))
    /\ starting'[p] # {} =>
          starting[p] # {} \/ (runner[site[p]] # NoRunner /\ InList(p, runner[site[p]].loaded))
    /\ HasWorker(p)' => runner'[site[p]] # NoRunner

LEMMA WorkersGoOn ==
    ASSUME RoutingInv, site' = site, settings' = settings, dropped' = dropped,
           \A h \in Hosts : runner'[h] # NoRunner =>
                runner[h] # NoRunner /\ runner'[h].loaded = runner[h].loaded,
           \A p \in Ports : WorkerLives(p)
    PROVE  WorkersRead' /\ WithinList'
<1>1. ASSUME NEW p \in Ports
      PROVE  /\ IsWorker(p)' => listener'[p].loaded \in 1..settings[site[p]]
             /\ HasWorker(p)' => runner'[site[p]] # NoRunner /\ InList(p, runner'[site[p]].loaded)
             /\ listener'[p].by = "own" => runner'[site[p]].loaded <= listener'[p].loaded
  <2>0. site[p] \in Hosts /\ WorkerLives(p)
    BY DEF RoutingInv, RoutingTyped
  <2>1. IsWorker(p)' => listener'[p].loaded \in 1..settings[site[p]]
    BY <2>0 DEF RoutingInv, WorkersRead, WorkerLives
  <2>2. HasWorker(p)' => runner'[site[p]] # NoRunner /\ InList(p, runner'[site[p]].loaded)
    BY <2>0 DEF RoutingInv, WorkersRead, WorkerLives, HasWorker
  <2>3. listener'[p].by = "own" => runner'[site[p]].loaded <= listener'[p].loaded
    <3>1. listener'[p].by = "own" => /\ listener'[p].loaded = listener[p].loaded
                                     /\ runner'[site[p]].loaded = runner[site[p]].loaded
                                     /\ runner[site[p]].loaded <= listener[p].loaded
      BY <2>0 DEF RoutingInv, WorkersRead, WorkerLives, HasWorker, IsWorker, Whose
    <3> QED
      BY <3>1
  <2> QED
    BY <2>1, <2>2, <2>3
<1>2. ASSUME NEW p \in Ports, ~dropped
      PROVE  /\ runner'[site[p]] # NoRunner /\ InList(p, runner'[site[p]].loaded)
                   => InList(p, settings[site[p]])
             /\ IsWorker(p)' \/ starting'[p] # {} => InList(p, settings[site[p]])
  <2>0. site[p] \in Hosts /\ WorkerLives(p)
    BY DEF RoutingInv, RoutingTyped
  <2> QED
    BY <1>2, <2>0 DEF RoutingInv, WithinList, WorkerLives
<1>3. WorkersRead'
  BY <1>1 DEF WorkersRead
<1>4. WithinList'
  BY <1>2 DEF WithinList
<1> QED
  BY <1>3, <1>4

-----------------------------------------------------------------------------
\* The list of a machine grows, or the machine loses a port.
LEMMA ReconfigureKeeps ==
    ASSUME RoutingInv, NEW h \in Hosts, Reconfigure(h)
    PROVE  RoutingInv'
<1>1. /\ site' = site /\ seesPort' = seesPort /\ runner' = runner /\ listener' = listener
      /\ starting' = starting /\ visitor' = visitor
  BY DEF Reconfigure, processes
<1>2. settings[h] \in Lists /\ settings[h] + 1 \in Lists
  BY RoutingAssumption, LenProperties DEF Reconfigure, RoutingInv, RoutingTyped, Lists
<1>3. /\ settings' \in [Hosts -> Lists]
      /\ settings'[h] = settings[h] + 1 /\ \A g \in Hosts \ {h} : settings'[g] = settings[g]
  BY <1>2 DEF Reconfigure, RoutingInv, RoutingTyped
<1>4. \A g \in Hosts : settings[g] \in Nat /\ settings[g] <= settings'[g] /\ settings'[g] \in Nat
  <2>1. \A g \in Hosts : settings[g] \in Nat
    BY ListsCount DEF RoutingInv, RoutingTyped
  <2> QED
    BY <1>3, <2>1
<1>5. RoutingTyped'
  <2>1. \A g \in Hosts : RunnerFits(runner[g], g, settings[g])
    BY DEF RoutingInv, RoutingTyped, RunnersFit
  <2>2. \A g \in Hosts : RunnerFits(runner[g], g, settings'[g])
    BY <1>4, <2>1 DEF RunnerFits
  <2>3. RunnersFit'
    BY <1>1, <2>2 DEF RunnersFit, RunnerFits
  <2> QED
    BY <1>1, <1>3, <2>3 DEF RoutingInv, RoutingTyped
<1>6. WorkersRead'
  <2>1. \A p \in Ports : site[p] \in Hosts
    BY DEF RoutingInv, RoutingTyped
  <2> QED
    BY <1>1, <1>4, <2>1 DEF RoutingInv, WorkersRead, IsWorker, HasWorker
<1>7. ASSUME ~dropped', NEW p \in Ports, InList(p, settings[site[p]])
      PROVE  InList(p, settings'[site[p]])
  <2>1. LocalPorts(h, settings[h]) \subseteq LocalPorts(h, settings[h] + 1)
    BY <1>7 DEF Reconfigure
  <2>2. CASE site[p] = h
    BY <1>3, <1>7, <2>1, <2>2, LocalOnes
  <2>3. CASE site[p] # h
    BY <1>3, <1>7, <2>3 DEF RoutingInv, RoutingTyped
  <2> QED
    BY <2>2, <2>3
<1>8. ~dropped' => ~dropped
  BY DEF Reconfigure
<1>9. WithinList'
  BY <1>1, <1>7, <1>8 DEF RoutingInv, WithinList, IsWorker
<1>10. PagesServed' /\ Guided'
  BY <1>1 DEF RoutingInv, PagesServed, Guided, Stays, IsWorker, Redirects
<1> QED
  BY <1>5, <1>6, <1>9, <1>10 DEF RoutingInv

LEMMA StartRunnerKeeps ==
    ASSUME RoutingInv, NEW h \in Hosts, StartRunner(h)
    PROVE  RoutingInv'
<1> DEFINE ps == LocalPorts(h, settings[h])
           r == [at |-> "binding", loaded |-> settings[h], todo |-> ps]
<1>1. /\ site' = site /\ seesPort' = seesPort /\ settings' = settings /\ dropped' = dropped
      /\ starting' = starting /\ runner[h] = NoRunner /\ Step(h, r)
      /\ (Vacate(ps) /\ CutOff(ps)) \/ (listener' = listener /\ visitor' = visitor)
  BY DEF StartRunner
<1>2. /\ runner' = [g \in Hosts |-> runner'[g]]
      /\ runner'[h] = r /\ \A g \in Hosts \ {h} : runner'[g] = runner[g]
  BY <1>1 DEF Step, RoutingInv, RoutingTyped
<1>3. r.at = "binding" /\ r.loaded = settings[h] /\ r.todo = ps
  OBVIOUS
<1> HIDE DEF r, ps
<1>4. /\ listener' = [p \in Ports |-> listener'[p]]
      /\ \A p \in Ports : listener'[p] = listener[p] \/ listener'[p] = Closed
      /\ \A p \in Ports : p \notin ps => listener'[p] = listener[p]
  BY <1>1 DEF Vacate, RoutingInv, RoutingTyped
<1>5. Guided' /\ visitor' = [c \in Visitors |-> visitor'[c]]
  <2>1. CASE Vacate(ps) /\ CutOff(ps)
    BY <1>1, <1>4, <2>1, CutGuided DEF RoutingInv, IsWorker
  <2>2. CASE listener' = listener /\ visitor' = visitor
    BY <1>1, <2>2, StillGuided DEF RoutingInv, RoutingTyped, IsWorker
  <2> QED
    BY <1>1, <2>1, <2>2
<1>6. RoutingTyped'
  <2>1. RunnerFits(r, h, settings[h])
    <3>1. settings[h] \in 1..settings[h]
      BY DEF RoutingInv, RoutingTyped, Lists
    <3>2. r = [at |-> r.at, loaded |-> r.loaded, todo |-> r.todo]
      BY DEF r
    <3> QED
      BY <1>3, <3>1, <3>2 DEF RunnerFits
  <2>2. RunnersFit'
    BY <1>1, <1>2, <2>1 DEF RoutingInv, RoutingTyped, RunnersFit, RunnerFits
  <2> QED
    BY <1>1, <1>2, <1>4, <1>5, <2>2 DEF RoutingInv, RoutingTyped
<1>7. \A p \in Ports : site[p] = h => ~HasWorker(p)
  BY <1>1 DEF RoutingInv, WorkersRead
<1>8. Closed.by \notin Whose
  BY NobodyIsNoWorker DEF Closed
<1>9. WorkersRead'
  <2>1. ASSUME NEW p \in Ports, site[p] = h
        PROVE  ~HasWorker(p)' /\ (IsWorker(p)' => listener'[p] = listener[p] /\ IsWorker(p))
    BY <1>1, <1>4, <1>7, <1>8, <2>1 DEF HasWorker, IsWorker, Whose
  <2>2. ASSUME NEW p \in Ports, site[p] # h
        PROVE  HasWorker(p)' => HasWorker(p) /\ runner'[site[p]] = runner[site[p]]
    BY <1>1, <1>2, <1>4, <1>8, <2>2 DEF HasWorker, Whose, RoutingInv, RoutingTyped
  <2>3. ASSUME NEW p \in Ports
        PROVE  IsWorker(p)' => listener'[p] = listener[p] /\ IsWorker(p)
    BY <1>4, <1>8 DEF IsWorker
  <2> QED
    BY <1>1, <2>1, <2>2, <2>3 DEF RoutingInv, WorkersRead, HasWorker, Whose, IsWorker
<1>10. WithinList'
  <2>1. \A p \in Ports : IsWorker(p)' => IsWorker(p)
    BY <1>4, <1>8 DEF IsWorker
  <2> QED
    BY <1>1, <1>2, <1>3, <2>1 DEF RoutingInv, RoutingTyped, WithinList
<1>11. PagesServed'
  <2>1. ASSUME NEW p \in Ports, site[p] = h, InList(p, r.loaded) PROVE p \in r.todo
    BY <1>3, <2>1, LocalOnes DEF ps
  <2>2. ASSUME NEW p \in Ports, site[p] # h PROVE listener'[p] = listener[p]
    BY <1>4, <2>2, LocalOnes DEF ps
  <2> QED
    BY <1>1, <1>2, <1>3, <2>1, <2>2 DEF RoutingInv, RoutingTyped, PagesServed
<1> QED
  BY <1>5, <1>6, <1>9, <1>10, <1>11 DEF RoutingInv

\* A maintenance page comes to a port where nobody listens.
LEMMA BindMaintenanceKeeps ==
    ASSUME RoutingInv, NEW h \in Hosts, BindMaintenance(h)
    PROVE  RoutingInv'
<1> DEFINE r == runner'[h]
<1>1. /\ site' = site /\ seesPort' = seesPort /\ settings' = settings /\ dropped' = dropped
      /\ starting' = starting /\ visitor' = visitor /\ runner[h].at = "binding"
  BY DEF BindMaintenance
<1>2. runner[h] # NoRunner /\ RunnerFits(runner[h], h, settings[h])
  BY <1>1 DEF NoRunner, RoutingInv, RoutingTyped, RunnersFit
<1>3. /\ runner[h] = [at |-> "binding", loaded |-> runner[h].loaded, todo |-> runner[h].todo]
      /\ runner[h].loaded \in 1..settings[h]
  BY <1>1, <1>2 DEF RunnerFits
<1>4. \E x : /\ Step(h, x) /\ x.at # "off" /\ x.loaded = runner[h].loaded
             /\ x.at # "spawning"
             /\ x.at = "binding" => x = [at |-> "binding", loaded |-> x.loaded, todo |-> x.todo]
             /\ \/ /\ x.at = "stuck" /\ listener' = listener
                \/ /\ x.at = "preparing" /\ runner[h].todo = {} /\ listener' = listener
                \/ /\ x.at = "binding"
                   /\ \E p \in runner[h].todo : /\ listener[p] = Closed
                                                /\ listener' = [listener EXCEPT ![p] = Maintenance]
                                                /\ x.todo = runner[h].todo \ {p}
  <2>1. CASE \E p \in runner[h].todo :
             /\ listener[p] = Closed
             /\ listener' = [listener EXCEPT ![p] = Maintenance]
             /\ Step(h, [runner[h] EXCEPT !.todo = @ \ {p}])
    <3>1. PICK p \in runner[h].todo :
             /\ listener[p] = Closed
             /\ listener' = [listener EXCEPT ![p] = Maintenance]
             /\ Step(h, [runner[h] EXCEPT !.todo = @ \ {p}])
      BY <2>1
    <3>2. [runner[h] EXCEPT !.todo = @ \ {p}]
             = [at |-> "binding", loaded |-> runner[h].loaded, todo |-> runner[h].todo \ {p}]
      BY <1>3
    <3> DEFINE x == [at |-> "binding", loaded |-> runner[h].loaded, todo |-> runner[h].todo \ {p}]
    <3>3. /\ x.at = "binding" /\ x.loaded = runner[h].loaded /\ x.todo = runner[h].todo \ {p}
          /\ x = [at |-> "binding", loaded |-> x.loaded, todo |-> x.todo]
      OBVIOUS
    <3>4. Step(h, x)
      BY <3>1, <3>2
    <3> HIDE DEF x
    <3> WITNESS x
    <3> QED
      BY <3>1, <3>3, <3>4
  <2>2. CASE Step(h, Stuck(h)) /\ listener' = listener
    <3>1. Stuck(h).at = "stuck" /\ Stuck(h).loaded = runner[h].loaded
      BY DEF Stuck
    <3> HIDE DEF Stuck
    <3> WITNESS Stuck(h)
    <3> QED
      BY <2>2, <3>1
  <2>3. CASE /\ runner[h].todo = {} /\ listener' = listener
             /\ Step(h, [at |-> "preparing", loaded |-> runner[h].loaded])
    <3> DEFINE x == [at |-> "preparing", loaded |-> runner[h].loaded]
    <3>1. x.at = "preparing" /\ x.loaded = runner[h].loaded
      OBVIOUS
    <3>2. Step(h, x)
      BY <2>3
    <3> HIDE DEF x
    <3> WITNESS x
    <3> QED
      BY <2>3, <3>1, <3>2
  <2> QED
    BY <2>1, <2>2, <2>3 DEF BindMaintenance
<1>5. PICK x : /\ Step(h, x) /\ x.at # "off" /\ x.loaded = runner[h].loaded
               /\ x.at # "spawning"
               /\ x.at = "binding" => x = [at |-> "binding", loaded |-> x.loaded, todo |-> x.todo]
               /\ \/ /\ x.at = "stuck" /\ listener' = listener
                  \/ /\ x.at = "preparing" /\ runner[h].todo = {} /\ listener' = listener
                  \/ /\ x.at = "binding"
                     /\ \E p \in runner[h].todo : /\ listener[p] = Closed
                                                  /\ listener' = [listener EXCEPT ![p] = Maintenance]
                                                  /\ x.todo = runner[h].todo \ {p}
  BY <1>4
<1>6. x # NoRunner /\ RunnerFits(x, h, settings[h])
  BY <1>3, <1>5 DEF NoRunner, RunnerFits
<1>7. /\ runner' = [g \in Hosts |-> runner'[g]] /\ RunnersFit'
      /\ runner'[h] = x /\ \A g \in Hosts \ {h} : runner'[g] = runner[g]
      /\ \A g \in Hosts : /\ runner'[g] # NoRunner <=> runner[g] # NoRunner
                          /\ runner'[g].loaded = runner[g].loaded
  BY <1>1, <1>2, <1>5, <1>6, KeepsLoaded DEF RoutingInv
<1>8. /\ listener' = [p \in Ports |-> listener'[p]]
      /\ \A p \in Ports : \/ listener'[p] = listener[p]
                          \/ /\ listener[p] = Closed /\ listener'[p] = Maintenance
                             /\ p \in runner[h].todo
      /\ x.at = "binding" => \A p \in runner[h].todo \ x.todo : p \in Ports => listener'[p] = Maintenance
  BY <1>5 DEF RoutingInv, RoutingTyped
<1>9. Closed.by \notin Whose /\ Maintenance.by \notin Whose
  BY NobodyIsNoWorker DEF Closed, Maintenance, Whose
<1>10. \A p \in Ports : IsWorker(p) \/ IsWorker(p)' => listener'[p] = listener[p]
  BY <1>8, <1>9 DEF IsWorker
<1>11. \A p \in Ports : listener'[p].by = "own" => listener[p].by = "own"
  BY <1>10 DEF IsWorker, Whose
<1>12. \A p \in Ports : site[p] \in Hosts
  BY DEF RoutingInv, RoutingTyped
<1>13. RoutingTyped'
  BY <1>1, <1>7, <1>8 DEF RoutingInv, RoutingTyped
<1>14. WorkersRead' /\ WithinList'
  <2>1. \A p \in Ports : WorkerLives(p)
    BY <1>1, <1>7, <1>10, <1>11, <1>12 DEF WorkerLives, IsWorker, HasWorker, RoutingInv, WorkersRead
  <2> QED
    BY <1>1, <1>7, <2>1, WorkersGoOn
<1>15. PagesServed'
  <2>1. ASSUME NEW p \in Ports, listener[p] = Maintenance PROVE listener'[p] = Maintenance
    <3>1. Closed # Maintenance
      BY DEF Closed, Maintenance, Nobody
    <3> QED
      BY <1>8, <2>1
  <2>2. ASSUME NEW p \in Ports, site[p] = h, x.at \in {"binding", "preparing"},
               InList(p, x.loaded), x.at = "binding" => p \notin x.todo
        PROVE  listener'[p] = Maintenance
    <3>1. CASE p \in runner[h].todo
      BY <1>5, <1>8, <2>2, <3>1
    <3>2. CASE p \notin runner[h].todo
      BY <1>1, <1>5, <2>1, <2>2, <3>2 DEF RoutingInv, PagesServed
    <3> QED
      BY <3>1, <3>2
  <2>3. ASSUME NEW p \in Ports, site[p] # h,
               runner'[site[p]].at \in {"binding", "preparing"},
               InList(p, runner'[site[p]].loaded),
               runner'[site[p]].at = "binding" => p \notin runner'[site[p]].todo
        PROVE  listener'[p] = Maintenance
    <3>1. runner'[site[p]] = runner[site[p]]
      BY <1>7, <1>12, <2>3
    <3> QED
      BY <2>1, <2>3, <3>1 DEF RoutingInv, PagesServed
  <2> QED
    BY <1>1, <1>7, <2>2, <2>3 DEF PagesServed
<1>16. Guided'
  BY <1>1, <1>10, StillGuided DEF RoutingInv, IsWorker
<1> QED
  BY <1>13, <1>14, <1>15, <1>16 DEF RoutingInv

LEMMA Vacated ==
    ASSUME RoutingTyped, NEW ps, Vacate(ps)
    PROVE  /\ listener' = [p \in Ports |-> listener'[p]]
           /\ \A p \in Ports : listener'[p] = IF p \in ps THEN Closed ELSE listener[p]
           /\ \A p \in Ports : IsWorker(p)' => IsWorker(p) /\ listener'[p] = listener[p]
           /\ \A p \in Ports : listener'[p].by = "own" => listener[p].by = "own"
<1>1. Closed.by \notin Whose
  BY NobodyIsNoWorker DEF Closed
<1> QED
  BY <1>1 DEF Vacate, RoutingTyped, IsWorker, Whose

\* The maintenance pages end before the workers are started.
LEMMA PrepareKeeps ==
    ASSUME RoutingInv, NEW h \in Hosts, Prepare(h)
    PROVE  RoutingInv'
<1> DEFINE ready == [at |-> "spawning", loaded |-> runner[h].loaded, todo |-> ItsPorts(h)]
<1>1. /\ site' = site /\ seesPort' = seesPort /\ settings' = settings /\ dropped' = dropped
      /\ starting' = starting /\ visitor' = visitor /\ runner[h].at = "preparing"
      /\ \/ Step(h, Stuck(h)) /\ listener' = listener
         \/ Step(h, ready) /\ Vacate(ItsPorts(h))
  BY DEF Prepare
<1>2. runner[h] # NoRunner /\ RunnerFits(runner[h], h, settings[h])
  BY <1>1 DEF NoRunner, RoutingInv, RoutingTyped, RunnersFit
<1>3. runner[h].loaded \in 1..settings[h]
  BY <1>2 DEF RunnerFits
<1>4. \A p \in ItsPorts(h) : p \in Ports /\ site[p] = h /\ InList(p, runner[h].loaded)
  BY LocalOnes DEF ItsPorts
<1>5. /\ ready.at = "spawning" /\ ready.loaded = runner[h].loaded /\ ready.todo = ItsPorts(h)
      /\ ready = [at |-> ready.at, loaded |-> ready.loaded, todo |-> ready.todo]
      /\ Stuck(h).at = "stuck" /\ Stuck(h).loaded = runner[h].loaded
  BY DEF Stuck
<1> HIDE DEF ready, Stuck
<1>6. PICK x : /\ Step(h, x) /\ x \in {Stuck(h), ready}
               /\ x.at \in {"stuck", "spawning"} /\ x.loaded = runner[h].loaded
               /\ \/ listener' = listener
                  \/ Vacate(ItsPorts(h))
  BY <1>1, <1>5
<1>7. x # NoRunner /\ RunnerFits(x, h, settings[h])
  BY <1>3, <1>4, <1>5, <1>6 DEF NoRunner, RunnerFits
<1>8. /\ runner' = [g \in Hosts |-> runner'[g]] /\ RunnersFit'
      /\ runner'[h] = x /\ \A g \in Hosts \ {h} : runner'[g] = runner[g]
      /\ \A g \in Hosts : /\ runner'[g] # NoRunner <=> runner[g] # NoRunner
                          /\ runner'[g].loaded = runner[g].loaded
  BY <1>1, <1>2, <1>6, <1>7, KeepsLoaded DEF RoutingInv
<1>9. \A p \in ItsPorts(h) : listener[p] = Maintenance
  BY <1>1, <1>4 DEF RoutingInv, PagesServed
<1>10. /\ listener' = [p \in Ports |-> listener'[p]]
       /\ \A p \in Ports : p \notin ItsPorts(h) => listener'[p] = listener[p]
       /\ \A p \in Ports : IsWorker(p)' => IsWorker(p) /\ listener'[p] = listener[p]
       /\ \A p \in Ports : listener'[p].by = "own" => listener[p].by = "own"
  BY <1>6, Vacated DEF RoutingInv, RoutingTyped, IsWorker
<1>11. \A p \in Ports : IsWorker(p) => listener'[p] = listener[p]
  <2>1. Maintenance.by \notin Whose
    BY DEF Maintenance, Whose
  <2> QED
    BY <1>9, <1>10, <2>1 DEF IsWorker
<1>12. \A p \in Ports : site[p] \in Hosts
  BY DEF RoutingInv, RoutingTyped
<1>13. RoutingTyped'
  BY <1>1, <1>8, <1>10 DEF RoutingInv, RoutingTyped
<1>14. WorkersRead' /\ WithinList'
  <2>1. \A p \in Ports : WorkerLives(p)
    BY <1>1, <1>8, <1>10, <1>12 DEF WorkerLives, HasWorker, RoutingInv, WorkersRead
  <2> QED
    BY <1>1, <1>8, <2>1, WorkersGoOn
<1>15. PagesServed'
  <2>1. ASSUME NEW p \in Ports, runner'[site[p]].at \in {"binding", "preparing"}
        PROVE  runner'[site[p]] = runner[site[p]] /\ listener'[p] = listener[p]
    BY <1>4, <1>6, <1>8, <1>10, <1>12, <2>1
  <2> QED
    BY <1>1, <2>1 DEF RoutingInv, PagesServed
<1>16. Guided'
  BY <1>1, <1>11, StillGuided DEF RoutingInv, IsWorker
<1> QED
  BY <1>13, <1>14, <1>15, <1>16 DEF RoutingInv

\* Workers are started on the ports the runserver has read.
LEMMA SpawnKeeps ==
    ASSUME RoutingInv, NEW h \in Hosts, Spawn(h)
    PROVE  RoutingInv'
<1>1. /\ site' = site /\ seesPort' = seesPort /\ settings' = settings /\ dropped' = dropped
      /\ listener' = listener /\ visitor' = visitor /\ runner[h].at = "spawning"
  BY DEF Spawn
<1>2. runner[h] # NoRunner /\ RunnerFits(runner[h], h, settings[h])
  BY <1>1 DEF NoRunner, RoutingInv, RoutingTyped, RunnersFit
<1>3. /\ runner[h].loaded \in 1..settings[h]
      /\ runner[h] = [at |-> "spawning", loaded |-> runner[h].loaded, todo |-> runner[h].todo]
      /\ \A p \in runner[h].todo : p \in Ports /\ site[p] = h /\ InList(p, runner[h].loaded)
  BY <1>1, <1>2 DEF RunnerFits
<1>4. PICK q \in runner[h].todo :
          /\ starting' = [starting EXCEPT ![q] = @ \cup {"own"}]
          /\ Step(h, IF runner[h].todo = {q} THEN [at |-> "up", loaded |-> runner[h].loaded]
                     ELSE [runner[h] EXCEPT !.todo = @ \ {q}])
  BY DEF Spawn
<1> DEFINE up == [at |-> "up", loaded |-> runner[h].loaded]
           more == [at |-> "spawning", loaded |-> runner[h].loaded, todo |-> runner[h].todo \ {q}]
<1>5. [runner[h] EXCEPT !.todo = @ \ {q}] = more
  BY <1>3
<1>6. /\ up.at = "up" /\ up.loaded = runner[h].loaded
      /\ more.at = "spawning" /\ more.loaded = runner[h].loaded /\ more.todo = runner[h].todo \ {q}
      /\ more = [at |-> more.at, loaded |-> more.loaded, todo |-> more.todo]
  OBVIOUS
<1>7. PICK x : Step(h, x) /\ x \in {up, more}
  BY <1>4, <1>5
<1> HIDE DEF up, more
<1>8. /\ x # NoRunner /\ RunnerFits(x, h, settings[h])
      /\ x.loaded = runner[h].loaded /\ x.at \in {"up", "spawning"}
  BY <1>3, <1>6, <1>7 DEF NoRunner, RunnerFits
<1>9. /\ runner' = [g \in Hosts |-> runner'[g]] /\ RunnersFit'
      /\ runner'[h] = x /\ \A g \in Hosts \ {h} : runner'[g] = runner[g]
      /\ \A g \in Hosts : /\ runner'[g] # NoRunner <=> runner[g] # NoRunner
                          /\ runner'[g].loaded = runner[g].loaded
  BY <1>1, <1>2, <1>7, <1>8, KeepsLoaded DEF RoutingInv
<1>10. /\ starting' \in [Ports -> SUBSET Whose]
       /\ \A p \in Ports : p # q => starting'[p] = starting[p]
       /\ site[q] = h /\ InList(q, runner[h].loaded)
  BY <1>3, <1>4 DEF RoutingInv, RoutingTyped, Whose
<1>11. \A p \in Ports : site[p] \in Hosts
  BY DEF RoutingInv, RoutingTyped
<1>12. RoutingTyped'
  BY <1>1, <1>9, <1>10 DEF RoutingInv, RoutingTyped
<1>13. WorkersRead' /\ WithinList'
  <2>1. ASSUME NEW p \in Ports PROVE WorkerLives(p)
    <3>1. CASE p = q
      BY <1>1, <1>2, <1>9, <1>10, <3>1 DEF WorkerLives, IsWorker
    <3>2. CASE p # q
      BY <1>1, <1>9, <1>10, <1>11, <3>2 DEF WorkerLives, IsWorker, HasWorker, RoutingInv, WorkersRead
    <3> QED
      BY <3>1, <3>2
  <2> QED
    BY <1>1, <1>9, <2>1, WorkersGoOn
<1>14. PagesServed'
  BY <1>1, <1>8, <1>9, <1>11 DEF RoutingInv, PagesServed
<1>15. Guided'
  BY <1>1, StillGuided DEF RoutingInv, IsWorker
<1> QED
  BY <1>12, <1>13, <1>14, <1>15 DEF RoutingInv

LEMMA NoticeKeeps ==
    ASSUME RoutingInv, NEW h \in Hosts, Notice(h)
    PROVE  RoutingInv'
<1> DEFINE x == [at |-> "stopping", loaded |-> runner[h].loaded]
<1>1. /\ site' = site /\ seesPort' = seesPort /\ settings' = settings /\ dropped' = dropped
      /\ listener' = listener /\ starting' = starting /\ visitor' = visitor
      /\ runner[h].at = "up" /\ Step(h, x)
  BY DEF Notice
<1>2. runner[h] # NoRunner /\ RunnerFits(runner[h], h, settings[h])
  BY <1>1 DEF NoRunner, RoutingInv, RoutingTyped, RunnersFit
<1>3. x.at = "stopping" /\ x.loaded = runner[h].loaded
  OBVIOUS
<1> HIDE DEF x
<1>4. x # NoRunner /\ RunnerFits(x, h, settings[h])
  BY <1>2, <1>3 DEF NoRunner, RunnerFits
<1>5. /\ runner' = [g \in Hosts |-> runner'[g]] /\ RunnersFit'
      /\ runner'[h] = x /\ \A g \in Hosts \ {h} : runner'[g] = runner[g]
      /\ \A g \in Hosts : /\ runner'[g] # NoRunner <=> runner[g] # NoRunner
                          /\ runner'[g].loaded = runner[g].loaded
  BY <1>1, <1>2, <1>3, <1>4, KeepsLoaded DEF RoutingInv
<1>6. \A p \in Ports : site[p] \in Hosts
  BY DEF RoutingInv, RoutingTyped
<1>7. RoutingTyped'
  BY <1>1, <1>5 DEF RoutingInv, RoutingTyped
<1>8. WorkersRead' /\ WithinList'
  <2>1. \A p \in Ports : WorkerLives(p)
    BY <1>1, <1>5, <1>6 DEF WorkerLives, IsWorker, HasWorker, RoutingInv, WorkersRead
  <2> QED
    BY <1>1, <1>5, <2>1, WorkersGoOn
<1>9. PagesServed'
  BY <1>1, <1>3, <1>5, <1>6 DEF RoutingInv, PagesServed
<1>10. Guided'
  BY <1>1, StillGuided DEF RoutingInv, IsWorker
<1> QED
  BY <1>7, <1>8, <1>9, <1>10 DEF RoutingInv

\* A worker and those who were connected to it are gone.
LEMMA WorkerGone ==
    ASSUME RoutingInv, NEW q \in Ports, IsWorker(q), Vacate({q}), CutOff({q}), runner' = runner,
           site' = site, seesPort' = seesPort, settings' = settings, dropped' = dropped,
           starting' \in [Ports -> SUBSET Whose], \A p \in Ports : starting'[p] \subseteq starting[p]
    PROVE  RoutingInv'
<1>1. /\ listener' = [p \in Ports |-> listener'[p]]
      /\ \A p \in Ports : p # q => listener'[p] = listener[p]
      /\ \A p \in Ports : IsWorker(p)' => IsWorker(p) /\ listener'[p] = listener[p]
      /\ \A p \in Ports : listener'[p].by = "own" => listener[p].by = "own"
  BY Vacated DEF RoutingInv
<1>2. Guided' /\ visitor' = [c \in Visitors |-> visitor'[c]]
  BY <1>1, CutGuided DEF RoutingInv, IsWorker
<1>3. RoutingTyped'
  BY <1>1, <1>2 DEF RoutingInv, RoutingTyped, RunnersFit, RunnerFits
<1>4. WorkersRead' /\ WithinList'
  <2>1. \A p \in Ports : WorkerLives(p)
    BY <1>1 DEF WorkerLives, HasWorker, RoutingInv, WorkersRead
  <2> QED
    BY <2>1, WorkersGoOn
<1>5. PagesServed'
  <2>1. listener[q] # Maintenance
    BY DEF IsWorker, Maintenance, Whose
  <2> QED
    BY <1>1, <2>1 DEF RoutingInv, PagesServed
<1> QED
  BY <1>2, <1>3, <1>4, <1>5 DEF RoutingInv

LEMMA WorkerEndsKeeps ==
    ASSUME RoutingInv, NEW p \in Ports, WorkerEnds(p)
    PROVE  RoutingInv'
BY WorkerGone DEF WorkerEnds, RoutingInv, RoutingTyped

\* A runserver is gone that has no worker of its own any more.
LEMMA RunnerGone ==
    ASSUME RoutingInv, NEW h \in Hosts, Step(h, NoRunner),
           site' = site, seesPort' = seesPort, settings' = settings, dropped' = dropped,
           visitor' = visitor, listener' = [p \in Ports |-> listener'[p]],
           starting' \in [Ports -> SUBSET Whose],
           \A p \in Ports : starting'[p] # {} => starting[p] # {},
           \A p \in Ports : site[p] # h => listener'[p] = listener[p] /\ starting'[p] = starting[p],
           \A p \in Ports : site[p] = h => ~HasWorker(p)',
           \A p \in Ports : IsWorker(p)' => IsWorker(p),
           \A p \in Ports : IsWorker(p) => IsWorker(p)' /\ listener'[p].loaded = listener[p].loaded
    PROVE  RoutingInv'
<1>1. /\ runner' = [g \in Hosts |-> runner'[g]] /\ RunnersFit'
      /\ runner'[h] = NoRunner /\ \A g \in Hosts \ {h} : runner'[g] = runner[g]
  BY RunnerStops DEF RoutingInv
<1>2. RoutingTyped'
  BY <1>1 DEF RoutingInv, RoutingTyped
<1>3. WorkersRead' /\ WithinList'
  <2>1. ASSUME NEW p \in Ports PROVE WorkerLives(p)
    <3>1. CASE site[p] = h
      BY <3>1 DEF WorkerLives, HasWorker
    <3>2. CASE site[p] # h
      BY <1>1, <3>2 DEF WorkerLives, HasWorker, RoutingInv, WorkersRead, RoutingTyped
    <3> QED
      BY <3>1, <3>2
  <2> QED
    BY <1>1, <2>1, WorkersGoOn
<1>4. PagesServed'
  <2>1. NoRunner.at \notin {"binding", "preparing"}
    BY DEF NoRunner
  <2>2. ASSUME NEW p \in Ports, runner'[site[p]].at \in {"binding", "preparing"}
        PROVE  runner'[site[p]] = runner[site[p]] /\ listener'[p] = listener[p]
    <3>1. site[p] \in Hosts
      BY DEF RoutingInv, RoutingTyped
    <3> QED
      BY <1>1, <2>1, <2>2, <3>1
  <2> QED
    BY <2>2 DEF RoutingInv, PagesServed
<1>5. Guided'
  BY StillGuided DEF RoutingInv, IsWorker
<1> QED
  BY <1>2, <1>3, <1>4, <1>5 DEF RoutingInv

LEMMA StopWorkersKeeps ==
    ASSUME RoutingInv, NEW h \in Hosts, StopWorkers(h)
    PROVE  RoutingInv'
<1>1. /\ site' = site /\ seesPort' = seesPort /\ settings' = settings /\ dropped' = dropped
      /\ runner[h].at = "stopping"
  BY DEF StopWorkers
<1>2. CASE /\ \A p \in ItsPorts(h) : ~HasWorker(p)
           /\ Step(h, NoRunner) /\ listener' = listener /\ starting' = starting
           /\ visitor' = visitor
  <2>1. runner[h] # NoRunner
    BY <1>1 DEF NoRunner
  <2>2. \A p \in Ports : site[p] = h => ~HasWorker(p)
    BY <1>2, <2>1, LocalOnes DEF ItsPorts, RoutingInv, WorkersRead
  <2> QED
    BY <1>1, <1>2, <2>2, RunnerGone DEF RoutingInv, RoutingTyped, IsWorker, HasWorker
<1>3. CASE \E p \in ItsPorts(h) :
             /\ HasWorker(p)
             /\ starting' = [starting EXCEPT ![p] = @ \ {"own"}]
             /\ IF listener[p].by = "own" THEN Vacate({p}) /\ CutOff({p})
                ELSE UNCHANGED <<listener, visitor>>
             /\ UNCHANGED runner
  <2>1. PICK q \in ItsPorts(h) :
             /\ HasWorker(q)
             /\ starting' = [starting EXCEPT ![q] = @ \ {"own"}]
             /\ IF listener[q].by = "own" THEN Vacate({q}) /\ CutOff({q})
                ELSE UNCHANGED <<listener, visitor>>
             /\ UNCHANGED runner
    BY <1>3
  <2>2. q \in Ports
    BY DEF ItsPorts, LocalPorts
  <2>3. /\ starting' \in [Ports -> SUBSET Whose]
        /\ \A p \in Ports : starting'[p] \subseteq starting[p]
    BY <2>1 DEF RoutingInv, RoutingTyped
  <2>4. CASE listener[q].by = "own"
    BY <1>1, <2>1, <2>2, <2>3, <2>4, WorkerGone DEF IsWorker, Whose
  <2>5. CASE listener[q].by # "own"
    <3>1. listener' = listener /\ visitor' = visitor /\ runner' = runner
      BY <2>1, <2>5
    <3>2. RoutingTyped'
      BY <1>1, <2>3, <3>1 DEF RoutingInv, RoutingTyped, RunnersFit, RunnerFits
    <3>3. WorkersRead' /\ WithinList'
      <4>1. \A p \in Ports : WorkerLives(p)
        BY <1>1, <2>3, <3>1 DEF WorkerLives, IsWorker, HasWorker, RoutingInv, WorkersRead
      <4> QED
        BY <1>1, <3>1, <4>1, WorkersGoOn
    <3>4. PagesServed' /\ Guided'
      BY <1>1, <3>1 DEF RoutingInv, PagesServed, Guided, Stays, IsWorker, Redirects
    <3> QED
      BY <3>2, <3>3, <3>4 DEF RoutingInv
  <2> QED
    BY <2>4, <2>5
<1> QED
  BY <1>2, <1>3 DEF StopWorkers

LEMMA AbandonKeeps ==
    ASSUME RoutingInv, NEW h \in Hosts, Abandon(h)
    PROVE  RoutingInv'
<1> DEFINE orphaned(who) == IF who = "own" THEN "orphan" ELSE who
<1>1. /\ site' = site /\ seesPort' = seesPort /\ settings' = settings /\ dropped' = dropped
      /\ visitor' = visitor /\ runner[h] # NoRunner /\ Step(h, NoRunner)
      /\ listener' = [p \in Ports |->
              IF site[p] # h THEN listener[p]
              ELSE IF listener[p] = Maintenance THEN Closed
              ELSE IF IsWorker(p) THEN Worker("orphan", listener[p].loaded) ELSE listener[p]]
      /\ starting' = [p \in Ports |->
              IF site[p] = h THEN {orphaned(who) : who \in starting[p]} ELSE starting[p]]
  BY DEF Abandon
<1>2. /\ listener' = [p \in Ports |-> listener'[p]]
      /\ \A p \in Ports : site[p] # h => listener'[p] = listener[p] /\ starting'[p] = starting[p]
  BY <1>1
<1>3. Closed.by \notin Whose /\ Maintenance.by \notin Whose
  BY NobodyIsNoWorker DEF Closed, Maintenance, Whose
<1>4. \A v : Worker("orphan", v).by = "orphan" /\ Worker("orphan", v).loaded = v
  BY DEF Worker
<1>5. ASSUME NEW p \in Ports, site[p] = h
      PROVE  \/ IsWorker(p) /\ listener'[p] = Worker("orphan", listener[p].loaded)
             \/ ~IsWorker(p) /\ listener'[p] \in {Closed, listener[p]}
  BY <1>1, <1>3, <1>5 DEF IsWorker
<1> HIDE DEF Worker
<1>6. ASSUME NEW p \in Ports
      PROVE  /\ IsWorker(p)' => IsWorker(p)
             /\ IsWorker(p) => IsWorker(p)' /\ listener'[p].loaded = listener[p].loaded
             /\ site[p] = h => listener'[p].by # "own"
  BY <1>2, <1>3, <1>4, <1>5 DEF IsWorker, Whose
<1>7. ASSUME NEW p \in Ports
      PROVE  /\ starting'[p] \in SUBSET Whose /\ (starting'[p] # {} => starting[p] # {})
             /\ site[p] = h => "own" \notin starting'[p]
  <2>1. starting[p] \in SUBSET Whose
    BY DEF RoutingInv, RoutingTyped
  <2>2. CASE site[p] = h
    <3>1. starting'[p] = {orphaned(who) : who \in starting[p]}
      BY <1>1, <2>2
    <3> QED
      BY <2>1, <3>1 DEF Whose
  <2>3. CASE site[p] # h
    BY <1>2, <2>1, <2>3
  <2> QED
    BY <2>2, <2>3
<1>8. starting' \in [Ports -> SUBSET Whose]
  BY <1>1, <1>7
<1>9. \A p \in Ports : site[p] = h => ~HasWorker(p)'
  BY <1>6, <1>7 DEF HasWorker
<1> QED
  BY <1>1, <1>2, <1>6, <1>7, <1>8, <1>9, RunnerGone

LEMMA ListenKeeps ==
    ASSUME RoutingInv, NEW q \in Ports, Listen(q)
    PROVE  RoutingInv'
<1>1. PICK who \in starting[q] :
          /\ starting' = [starting EXCEPT ![q] = @ \ {who}]
          /\ listener' = IF listener[q] = Closed
                 THEN [listener EXCEPT ![q] = Worker(who, settings[site[q]])] ELSE listener
  BY DEF Listen
<1>2. /\ site' = site /\ seesPort' = seesPort /\ settings' = settings /\ dropped' = dropped
      /\ runner' = runner /\ visitor' = visitor
  BY DEF Listen
<1> DEFINE new == Worker(who, settings[site[q]])
<1>3. /\ new.by = who /\ new.loaded = settings[site[q]] /\ who \in Whose
      /\ site[q] \in Hosts /\ settings[site[q]] \in 1..settings[site[q]]
  <2>1. new.by = who /\ new.loaded = settings[site[q]]
    BY DEF Worker
  <2>2. settings[site[q]] \in Nat \ {0} /\ site[q] \in Hosts /\ who \in Whose
    BY <1>1, ListsCount DEF RoutingInv, RoutingTyped
  <2> QED
    BY <2>1, <2>2
<1> HIDE DEF new
<1>4. /\ listener' = [p \in Ports |-> listener'[p]]
      /\ \A p \in Ports : \/ listener'[p] = listener[p]
                          \/ p = q /\ listener[p] = Closed /\ listener'[p] = new
  BY <1>1 DEF new, RoutingInv, RoutingTyped
<1>5. /\ starting' \in [Ports -> SUBSET Whose]
      /\ \A p \in Ports : starting'[p] \subseteq starting[p]
  BY <1>1 DEF RoutingInv, RoutingTyped
<1>6. Closed.by \notin Whose /\ Closed # Maintenance
  BY NobodyIsNoWorker DEF Closed, Maintenance, Nobody
<1>7. RoutingTyped'
  BY <1>2, <1>4, <1>5 DEF RoutingInv, RoutingTyped, RunnersFit, RunnerFits
<1>8. ASSUME NEW p \in Ports, HasWorker(p)' PROVE HasWorker(p)
  BY <1>1, <1>3, <1>4, <1>5, <1>8 DEF HasWorker
<1>9. WorkersRead'
  <2>1. ASSUME NEW p \in Ports, listener'[p] = new, p = q
        PROVE  /\ listener'[p].loaded \in 1..settings[site[p]]
               /\ listener'[p].by = "own" => runner[site[p]].loaded <= listener'[p].loaded
    <3>1. who = "own" => runner[site[q]] # NoRunner
      BY <1>1 DEF RoutingInv, WorkersRead, HasWorker
    <3>2. who = "own" => runner[site[q]].loaded \in 1..settings[site[q]]
      BY <1>3, <3>1 DEF RoutingInv, RoutingTyped, RunnersFit, RunnerFits
    <3>3. settings[site[q]] \in Nat
      BY <1>3, ListsCount DEF RoutingInv, RoutingTyped
    <3> QED
      BY <1>3, <2>1, <3>2, <3>3
  <2> QED
    BY <1>2, <1>4, <1>8, <2>1 DEF RoutingInv, WorkersRead, IsWorker, HasWorker
<1>10. WithinList'
  <2>1. ASSUME NEW p \in Ports, IsWorker(p)' PROVE IsWorker(p) \/ starting[p] # {}
    BY <1>1, <1>4, <2>1 DEF IsWorker
  <2> QED
    BY <1>2, <1>5, <2>1 DEF RoutingInv, WithinList
<1>11. PagesServed'
  BY <1>2, <1>4, <1>6 DEF RoutingInv, PagesServed
<1>12. Guided'
  BY <1>2, <1>4, <1>6, StillGuided DEF RoutingInv, IsWorker
<1> QED
  BY <1>7, <1>9, <1>10, <1>11, <1>12 DEF RoutingInv

-----------------------------------------------------------------------------
\* A browser moves; the servers do not.
LEMMA VisitorKeeps ==
    ASSUME RoutingInv, NEW c \in Visitors, NEW x, visitor' = [visitor EXCEPT ![c] = x],
           site' = site, seesPort' = seesPort, settings' = settings, dropped' = dropped,
           runner' = runner, listener' = listener, starting' = starting,
           x.at \in {"given", "connected"} =>
              /\ x = [at |-> x.at, base |-> x.base, by |-> x.by]
              /\ x.base \in Ports
              /\ Len(Layouts[x.by]) >= 2 => x.base = PlaceIn(x.by),
           x.at = "connected" => IsWorker(x.base) /\ ~Redirects(x.base, listener[x.base].loaded)
    PROVE  RoutingInv'
<1>1. /\ visitor' = [d \in Visitors |-> visitor'[d]]
      /\ visitor'[c] = x /\ \A d \in Visitors \ {c} : visitor'[d] = visitor[d]
  BY DEF RoutingInv, RoutingTyped
<1>2. RoutingTyped'
  BY <1>1 DEF RoutingInv, RoutingTyped, RunnersFit, RunnerFits
<1>3. WorkersRead' /\ WithinList' /\ PagesServed'
  BY DEF RoutingInv, WorkersRead, WithinList, PagesServed, IsWorker, HasWorker
<1>4. \A d \in Visitors : Stays(d)' <=>
          IsWorker(visitor'[d].base) /\ ~Redirects(visitor'[d].base, listener[visitor'[d].base].loaded)
  BY DEF Stays, IsWorker, Redirects
<1>5. ASSUME NEW d \in Visitors
      PROVE  /\ visitor'[d].at \in {"given", "connected"} =>
                  /\ visitor'[d] = [at |-> visitor'[d].at, base |-> visitor'[d].base,
                                    by |-> visitor'[d].by]
                  /\ visitor'[d].base \in Ports
                  /\ Len(Layouts[visitor'[d].by]) >= 2 => visitor'[d].base = PlaceIn(visitor'[d].by)
             /\ visitor'[d].at = "connected" => Stays(d)'
  <2>1. CASE d = c
    BY <1>1, <1>4, <2>1
  <2>2. CASE d # c
    <3>1. visitor'[d] = visitor[d]
      BY <1>1, <2>2
    <3> QED
      BY <1>4, <3>1 DEF RoutingInv, Guided, Stays
  <2> QED
    BY <2>1, <2>2
<1>6. Guided'
  BY <1>5 DEF Guided
<1> QED
  BY <1>2, <1>3, <1>6 DEF RoutingInv

LEMMA GivenKeeps ==
    ASSUME RoutingInv, NEW c \in Visitors, NEW p \in Ports, NEW v \in Lists, Given(c, p, v),
           Len(Layouts[v]) >= 2 => p = PlaceIn(v),
           UNCHANGED <<site, seesPort, settings, processes, dropped>>
    PROVE  RoutingInv'
<1> DEFINE x == [at |-> "given", base |-> p, by |-> v]
<1>1. x.at = "given" /\ x.base = p /\ x.by = v /\ visitor' = [visitor EXCEPT ![c] = x]
  BY DEF Given
<1>2. x = [at |-> x.at, base |-> x.base, by |-> x.by]
  OBVIOUS
<1> HIDE DEF x
<1> QED
  BY <1>1, <1>2, VisitorKeeps DEF processes

LEMMA LoadedListed ==
    ASSUME RoutingInv, NEW p \in Ports, IsWorker(p)
    PROVE  listener[p].loaded \in Lists
<1>1. settings[site[p]] \in Lists /\ listener[p].loaded \in 1..settings[site[p]]
  BY DEF RoutingInv, RoutingTyped, WorkersRead
<1> QED
  BY <1>1, ListsCount DEF Lists

LEMMA AskBaseKeeps ==
    ASSUME RoutingInv, NEW c \in Visitors, AskBase(c)
    PROVE  RoutingInv'
<1>1. PICK p \in Ports :
          /\ IsWorker(p) /\ Given(c, Base(p, listener[p].loaded), listener[p].loaded)
          /\ UNCHANGED <<site, seesPort, settings, processes, starts, dropped>>
  BY DEF AskBase
<1> DEFINE v == listener[p].loaded
<1>2. v \in Lists
  BY <1>1, LoadedListed
<1>3. /\ Base(p, v) \in Ports
      /\ Len(Layouts[v]) >= 2 => Base(p, v) = PlaceIn(v)
  <2>1. Len(Layouts[v]) \in Nat /\ PlaceIn(v) \in Ports
    BY <1>2, PlaceListed
  <2> QED
    BY <2>1 DEF Base
<1> QED
  BY <1>1, <1>2, <1>3, GivenKeeps

LEMMA OpenSocketKeeps ==
    ASSUME RoutingInv, NEW c \in Visitors, OpenSocket(c)
    PROVE  RoutingInv'
<1> DEFINE p == visitor[c].base
           v == listener[p].loaded
           x == [visitor[c] EXCEPT !.at = "connected"]
<1>1. /\ visitor[c].at = "given" /\ IsWorker(p)
      /\ IF Redirects(p, v) THEN Given(c, PlaceIn(v), v)
         ELSE visitor' = [visitor EXCEPT ![c].at = "connected"]
      /\ UNCHANGED <<site, seesPort, settings, processes, starts, dropped>>
  BY DEF OpenSocket
<1>2. /\ p \in Ports /\ visitor[c] = [at |-> visitor[c].at, base |-> p, by |-> visitor[c].by]
      /\ Len(Layouts[visitor[c].by]) >= 2 => p = PlaceIn(visitor[c].by)
  BY <1>1 DEF RoutingInv, Guided
<1>3. CASE Redirects(p, v)
  <2>1. v \in Lists
    BY <1>1, <1>2, LoadedListed
  <2>2. PlaceIn(v) \in Ports
    BY <2>1, PlaceListed
  <2> QED
    BY <1>1, <1>3, <2>1, <2>2, GivenKeeps
<1>4. CASE ~Redirects(p, v)
  <2>1. visitor' = [visitor EXCEPT ![c] = x]
    BY <1>1, <1>4
  <2>2. x = [at |-> "connected", base |-> p, by |-> visitor[c].by]
    BY <1>2
  <2>3. x.at = "connected" /\ x.base = p /\ x.by = visitor[c].by
    BY <2>2
  <2> HIDE DEF x
  <2> QED
    BY <1>1, <1>2, <1>4, <2>1, <2>2, <2>3, VisitorKeeps DEF processes
<1> QED
  BY <1>3, <1>4

LEMMA CloseSocketKeeps ==
    ASSUME RoutingInv, NEW c \in Visitors, CloseSocket(c)
    PROVE  RoutingInv'
<1>1. Away.at \notin {"given", "connected"}
  BY DEF Away
<1> QED
  BY <1>1, VisitorKeeps DEF CloseSocket, processes

LEMMA RoutingBegins == RoutingInit => RoutingInv
<1> SUFFICES ASSUME RoutingInit PROVE RoutingInv
  OBVIOUS
<1>1. PICK v \in Lists :
        /\ settings = [h \in Hosts |-> v]
        /\ runner = [h \in Hosts |->
              IF LocalPorts(h, v) # {} THEN [at |-> "up", loaded |-> v] ELSE NoRunner]
        /\ listener = [p \in Ports |->
              IF p \in LocalPorts(site[p], v) THEN Worker("own", v) ELSE Closed]
  BY DEF RoutingInit, Lists
<1>2. /\ site \in [Ports -> Hosts] /\ starting = [p \in Ports |-> {}]
      /\ visitor = [c \in Visitors |-> Away]
  BY RoutingAssumption DEF RoutingInit
<1>3. v \in Nat \ {0} /\ v \in 1..v
  BY ListsCount
<1> DEFINE up == [at |-> "up", loaded |-> v]
<1>4. up.at = "up" /\ up.loaded = v /\ up # NoRunner /\ NoRunner.at = "off"
  BY DEF NoRunner
<1>5. Worker("own", v).by = "own" /\ Worker("own", v).loaded = v
  BY DEF Worker
<1>6. \A h \in Hosts : runner[h] = up \/ (runner[h] = NoRunner /\ LocalPorts(h, v) = {})
  <2>1. ASSUME NEW h \in Hosts
        PROVE  runner[h] = IF LocalPorts(h, v) # {} THEN up ELSE NoRunner
    BY <1>1
  <2> QED
    BY <2>1
<1> HIDE DEF up, Worker, NoRunner
<1>7. Closed.by \notin Whose
  BY NobodyIsNoWorker DEF Closed
<1>8. \A p \in Ports : \/ listener[p] = Worker("own", v) /\ p \in LocalPorts(site[p], v)
                       \/ listener[p] = Closed
  BY <1>1
<1>9. RoutingTyped
  <2>1. \A h \in Hosts : RunnerFits(runner[h], h, settings[h])
    BY <1>1, <1>3, <1>4, <1>6 DEF RunnerFits
  <2>2. RunnersFit
    BY <2>1 DEF RunnersFit
  <2> QED
    BY <1>1, <1>2, <2>2 DEF RoutingTyped
<1>10. ASSUME NEW p \in Ports, IsWorker(p) \/ HasWorker(p)
       PROVE  /\ listener[p].by = "own" /\ listener[p].loaded = v /\ settings[site[p]] = v
              /\ runner[site[p]] = up /\ InList(p, v)
  <2>1. listener[p] = Worker("own", v) /\ p \in LocalPorts(site[p], v)
    BY <1>2, <1>7, <1>8, <1>10 DEF IsWorker, HasWorker, Whose
  <2> QED
    BY <1>1, <1>2, <1>5, <1>6, <2>1, LocalOnes
<1>11. WorkersRead
  BY <1>3, <1>4, <1>10 DEF WorkersRead, IsWorker, HasWorker, Whose
<1>12. WithinList
  BY <1>1, <1>2, <1>4, <1>6, <1>10 DEF WithinList
<1>13. PagesServed
  BY <1>2, <1>4, <1>6 DEF PagesServed
<1>14. Guided
  BY <1>2 DEF Guided, Away
<1> QED
  BY <1>9, <1>11, <1>12, <1>13, <1>14 DEF RoutingInv

LEMMA RoutingKeeps ==
    ASSUME RoutingInv, [RoutingNext]_routingVars
    PROVE  RoutingInv'
<1>1. ASSUME NEW h \in Hosts, Reconfigure(h) \/ RunnerStep(h) PROVE RoutingInv'
  BY <1>1, ReconfigureKeeps, StartRunnerKeeps, BindMaintenanceKeeps, PrepareKeeps, SpawnKeeps,
     NoticeKeeps, StopWorkersKeeps, AbandonKeeps DEF RunnerStep
<1>2. ASSUME NEW p \in Ports, Listen(p) \/ WorkerEnds(p) PROVE RoutingInv'
  BY <1>2, ListenKeeps, WorkerEndsKeeps
<1>3. ASSUME NEW c \in Visitors, AskBase(c) \/ OpenSocket(c) \/ CloseSocket(c) PROVE RoutingInv'
  BY <1>3, AskBaseKeeps, OpenSocketKeeps, CloseSocketKeeps
<1>4. CASE UNCHANGED routingVars
  <2>1. /\ site' = site /\ seesPort' = seesPort /\ settings' = settings /\ dropped' = dropped
        /\ runner' = runner /\ listener' = listener /\ starting' = starting /\ visitor' = visitor
    BY <1>4 DEF routingVars, processes
  <2>2. RoutingTyped'
    BY <2>1 DEF RoutingInv, RoutingTyped, RunnersFit, RunnerFits
  <2>3. WorkersRead' /\ WithinList'
    BY <2>1 DEF RoutingInv, WorkersRead, WithinList, IsWorker, HasWorker
  <2>4. PagesServed' /\ Guided'
    BY <2>1 DEF RoutingInv, PagesServed, Guided, Stays, IsWorker, Redirects
  <2> QED
    BY <2>2, <2>3, <2>4 DEF RoutingInv
<1> QED
  BY <1>1, <1>2, <1>3, <1>4 DEF RoutingNext

\* When all servers run with list v, who is connected is where v has the document.
LEMMA ConnectedInPlace ==
    ASSUME RoutingInv, NEW v \in Lists, InPlace(v), ~dropped,
           NEW c \in Visitors, visitor[c].at = "connected", seesPort \/ visitor[c].by = v
    PROVE  visitor[c].base = IF Len(Layouts[v]) >= 2 THEN PlaceIn(v) ELSE Layouts[v][1]
<1> DEFINE p == visitor[c].base
<1>1. /\ p \in Ports /\ IsWorker(p) /\ ~Redirects(p, listener[p].loaded)
      /\ Len(Layouts[visitor[c].by]) >= 2 => p = PlaceIn(visitor[c].by)
  BY DEF RoutingInv, Guided, Stays
<1>2. site[p] \in Hosts /\ settings[site[p]] = v
  BY <1>1 DEF InPlace, RoutingInv, RoutingTyped
<1>3. InList(p, v)
  BY <1>1, <1>2 DEF RoutingInv, WithinList
<1>4. listener[p].loaded = v
  <2>1. p \in LocalPorts(site[p], v)
    BY <1>1, <1>3, LocalOnes
  <2>2. listener[p].by = "own" /\ runner[site[p]] = [at |-> "up", loaded |-> v]
    BY <1>2, <2>1 DEF InPlace
  <2>3. runner[site[p]].loaded = v
    BY <2>2
  <2>4. v <= listener[p].loaded /\ listener[p].loaded \in 1..v
    BY <1>1, <1>2, <2>2, <2>3 DEF RoutingInv, WorkersRead
  <2> QED
    BY <2>4, ListsCount
<1>5. Len(Layouts[v]) \in Nat
  BY PlaceListed
<1>6. CASE Len(Layouts[v]) >= 2
  BY <1>1, <1>4, <1>6 DEF Redirects
<1>7. CASE ~(Len(Layouts[v]) >= 2)
  <2>1. PICK i \in 1..Len(Layouts[v]) : Layouts[v][i] = p
    BY <1>3 DEF InList
  <2>2. i = 1
    BY <1>5, <1>7, <2>1
  <2> QED
    BY <1>7, <2>1, <2>2
<1> QED
  BY <1>6, <1>7

\* Whatever was killed, abandoned, replaced or left behind before, and however many machines,
\* ports and lists there are: when all servers run with the same settings, those who edit a
\* document are connected to one worker - unless a machine lost a port, or nobody is told his
\* port and was given it by older settings (_free_ports, get_ws_base, check_server).
THEOREM OneServerCorrect == RoutingSpec => []OneServer
<1>1. RoutingInv => OneServer
  BY ConnectedInPlace DEF OneServer
<1> QED
  BY <1>1, RoutingBegins, RoutingKeeps, PTL DEF RoutingSpec

-----------------------------------------------------------------------------
(* The types of Routing.                                                   *)

Runners == {NoRunner}
    \cup [at : {"binding", "spawning"}, loaded : Lists, todo : SUBSET Ports]
    \cup [at : {"preparing", "up", "stopping", "stuck"}, loaded : Lists]
Listeners == {Closed, Maintenance} \cup [by : Whose, loaded : Lists]
BrowserStates == {Away} \cup [at : {"given", "connected"}, base : Ports, by : Lists]

\* What of the types the proofs above do not need; a maintenance page is that of a runserver
\* which has not come to its workers, on a port of its own.
RoutingSorted ==
    /\ site \in Sites /\ seesPort \in BOOLEAN /\ dropped \in BOOLEAN /\ starts \in Nat
    /\ \A h \in Hosts : runner[h] \in Runners
    /\ \A h \in Hosts : runner[h].at = "binding" => runner[h].todo \subseteq ItsPorts(h)
    /\ \A p \in Ports : listener[p] \in Listeners
    /\ \A p \in Ports : listener[p] = Maintenance =>
          /\ runner[site[p]].at \in {"binding", "preparing", "stuck"}
          /\ p \in ItsPorts(site[p])
    /\ \A c \in Visitors : visitor[c] \in BrowserStates

\* The forms of a runserver, and of who listens on a port.
LEMMA RunnerForms ==
    ASSUME NEW r \in Runners
    PROVE  /\ r = NoRunner <=> r.at = "off"
           /\ r # NoRunner => r.loaded \in Lists
           /\ r.at \in {"binding", "spawning"} =>
                 /\ r.todo \subseteq Ports
                 /\ \A todo \in SUBSET Ports : [r EXCEPT !.todo = todo] \in Runners
                 /\ \A todo : [r EXCEPT !.todo = todo].at = r.at
                 /\ \A todo : [r EXCEPT !.todo = todo].loaded = r.loaded
                 /\ \A todo : [r EXCEPT !.todo = todo].todo = todo
BY DEF Runners, NoRunner

LEMMA ListenerForms ==
    /\ Closed \in Listeners /\ Maintenance \in Listeners /\ Closed # Maintenance
    /\ \A who \in Whose, v \in Lists : Worker(who, v) \in Listeners /\ Worker(who, v) # Maintenance
    /\ \A l \in Listeners : l.by \in Whose => l.loaded \in Lists
BY NobodyIsNoWorker DEF Listeners, Closed, Maintenance, Worker, Whose, Nobody

\* A visitor who is cut off was given the port he was connected to.
LEMMA CutSorted ==
    ASSUME \A c \in Visitors : visitor[c] \in BrowserStates, NEW ps, CutOff(ps)
    PROVE  \A c \in Visitors : visitor'[c] \in BrowserStates
<1>1. \A x \in BrowserStates : x.at = "connected" => [x EXCEPT !.at = "given"] \in BrowserStates
  BY DEF BrowserStates, Away
<1> QED
  BY <1>1 DEF CutOff

\* The runserver of a machine goes on to r, and the pages that are on its ports then are
\* those of a list it has read.
LEMMA StepSorted ==
    ASSUME RoutingInv, RoutingSorted, NEW h \in Hosts, NEW r \in Runners, Step(h, r),
           UNCHANGED <<site, seesPort, dropped>>, starts' \in Nat,
           r.at = "binding" => r.todo \subseteq LocalPorts(h, r.loaded),
           \A p \in Ports : listener'[p] \in Listeners,
           \A p \in Ports : listener'[p] = Maintenance =>
              \/ site[p] # h /\ listener[p] = Maintenance
              \/ site[p] = h /\ r.at \in {"binding", "preparing", "stuck"} /\ InList(p, r.loaded),
           \A c \in Visitors : visitor'[c] \in BrowserStates
    PROVE  RoutingSorted'
<1>1. /\ runner'[h] = r /\ \A g \in Hosts : g # h => runner'[g] = runner[g]
      /\ \A p \in Ports : site[p] \in Hosts
  BY DEF Step, RoutingInv, RoutingTyped
<1>2. \A g \in Hosts : ItsPorts(g)' = LocalPorts(g, runner'[g].loaded)
  BY DEF ItsPorts, LocalPorts
<1>3. \A g \in Hosts : runner'[g] \in Runners
  BY <1>1 DEF RoutingSorted
<1>4. \A g \in Hosts : runner'[g].at = "binding" => runner'[g].todo \subseteq ItsPorts(g)'
  BY <1>1, <1>2 DEF RoutingSorted, ItsPorts
<1>5. ASSUME NEW p \in Ports, listener'[p] = Maintenance
      PROVE  runner'[site[p]].at \in {"binding", "preparing", "stuck"} /\ p \in ItsPorts(site[p])'
  <2>1. CASE site[p] # h
    BY <1>1, <1>2, <1>5, <2>1 DEF RoutingSorted, ItsPorts
  <2>2. CASE site[p] = h
    BY <1>1, <1>2, <1>5, <2>2, LocalOnes
  <2> QED
    BY <2>1, <2>2
<1>6. site' = site
  OBVIOUS
<1> QED
  BY <1>3, <1>4, <1>5, <1>6 DEF RoutingSorted

\* Pages on the ports of a machine are those of its runserver.
LEMMA PagesOf ==
    ASSUME RoutingInv, RoutingSorted, NEW p \in Ports, listener[p] = Maintenance
    PROVE  /\ site[p] \in Hosts /\ runner[site[p]].at \in {"binding", "preparing", "stuck"}
           /\ InList(p, runner[site[p]].loaded)
BY LocalOnes DEF RoutingInv, RoutingTyped, RoutingSorted, ItsPorts

LEMMA BindSorted ==
    ASSUME RoutingInv, RoutingSorted, NEW h \in Hosts, BindMaintenance(h)
    PROVE  RoutingSorted'
<1>1. /\ UNCHANGED <<site, seesPort, dropped, starts, visitor>> /\ runner[h] \in Runners
      /\ runner[h].at = "binding" /\ runner[h].loaded \in Lists
      /\ runner[h].todo \subseteq LocalPorts(h, runner[h].loaded)
      /\ DOMAIN listener = Ports
  BY RunnerForms DEF BindMaintenance, RoutingSorted, NoRunner, ItsPorts, RoutingInv, RoutingTyped
<1>2. CASE \E p \in runner[h].todo :
             /\ listener' = [listener EXCEPT ![p] = Maintenance]
             /\ Step(h, [runner[h] EXCEPT !.todo = @ \ {p}])
  <2>1. PICK p \in runner[h].todo :
             /\ listener' = [listener EXCEPT ![p] = Maintenance]
             /\ Step(h, [runner[h] EXCEPT !.todo = runner[h].todo \ {p}])
    BY <1>2
  <2> DEFINE next == [runner[h] EXCEPT !.todo = runner[h].todo \ {p}]
  <2>2. /\ next \in Runners /\ next.at = "binding" /\ next.loaded = runner[h].loaded
        /\ next.todo \subseteq runner[h].todo
    BY <1>1, RunnerForms
  <2>3. site[p] = h /\ p \in Ports /\ InList(p, runner[h].loaded)
    BY <1>1, LocalOnes
  <2>4. \A q \in Ports : listener'[q] \in Listeners
    BY <1>1, <2>1, ListenerForms DEF RoutingSorted
  <2>5. \A q \in Ports : listener'[q] = Maintenance =>
              \/ site[q] # h /\ listener[q] = Maintenance
              \/ site[q] = h /\ InList(q, next.loaded)
    BY <1>1, <2>1, <2>2, <2>3, PagesOf
  <2>6. Step(h, next) /\ next.todo \subseteq LocalPorts(h, next.loaded) /\ next.at = "binding"
    BY <1>1, <2>1, <2>2
  <2>7. UNCHANGED <<site, seesPort, dropped>> /\ starts' \in Nat /\ \A c \in Visitors : visitor'[c] \in BrowserStates
    BY <1>1 DEF RoutingSorted
  <2> HIDE DEF next
  <2> QED
    BY <2>2, <2>4, <2>5, <2>6, <2>7, StepSorted
<1>3. ASSUME NEW r \in Runners, r.at \in {"preparing", "stuck"}, r.loaded = runner[h].loaded,
             Step(h, r), UNCHANGED listener
      PROVE  RoutingSorted'
  BY <1>1, <1>3, PagesOf, StepSorted DEF RoutingSorted
<1>4. /\ Stuck(h) \in Runners /\ Stuck(h).at = "stuck" /\ Stuck(h).loaded = runner[h].loaded
      /\ [at |-> "preparing", loaded |-> runner[h].loaded] \in Runners
  BY <1>1 DEF Runners, Stuck
<1> QED
  BY <1>2, <1>3, <1>4 DEF BindMaintenance

LEMMA RunnerSorted ==
    ASSUME RoutingInv, RoutingSorted, NEW h \in Hosts, RunnerStep(h)
    PROVE  RoutingSorted'
<1>1. /\ runner[h] \in Runners /\ settings[h] \in Lists
      /\ DOMAIN listener = Ports
      /\ \A p \in Ports : listener[p] \in Listeners
      /\ \A c \in Visitors : visitor[c] \in BrowserStates
  BY DEF RoutingSorted, RoutingInv, RoutingTyped
<1>2. ASSUME NEW ps, Vacate(ps)
      PROVE  /\ \A p \in Ports : listener'[p] \in Listeners
             /\ \A p \in Ports : listener'[p] = Maintenance => p \notin ps /\ listener[p] = Maintenance
  BY <1>1, <1>2, ListenerForms DEF Vacate
<1>3. CASE StartRunner(h)
  <2> DEFINE r == [at |-> "binding", loaded |-> settings[h], todo |-> LocalPorts(h, settings[h])]
  <2>1. /\ r \in Runners /\ r.at = "binding" /\ r.todo \subseteq LocalPorts(h, r.loaded)
    BY <1>1, LocalOnes DEF Runners
  <2>2. /\ Step(h, r) /\ UNCHANGED <<site, seesPort, dropped>> /\ starts' \in Nat /\ runner[h] = NoRunner
    BY <1>3 DEF StartRunner, RoutingSorted
  <2>3. /\ \A p \in Ports : listener'[p] \in Listeners
        /\ \A p \in Ports : listener'[p] = Maintenance => listener[p] = Maintenance
        /\ \A c \in Visitors : visitor'[c] \in BrowserStates
    BY <1>1, <1>2, <1>3, CutSorted DEF StartRunner
  <2>4. \A p \in Ports : listener[p] = Maintenance => site[p] # h
    BY <2>2, PagesOf DEF NoRunner
  <2> HIDE DEF r
  <2> QED
    BY <2>1, <2>2, <2>3, <2>4, StepSorted
<1>4. CASE BindMaintenance(h)
  BY <1>4, BindSorted
<1>5. CASE Prepare(h)
  <2>1. /\ UNCHANGED <<site, seesPort, dropped, starts, visitor>> /\ runner[h].at = "preparing"
        /\ runner[h].loaded \in Lists /\ starts \in Nat
    BY <1>1, <1>5, RunnerForms DEF Prepare, NoRunner, RoutingSorted
  <2>2. CASE Step(h, Stuck(h)) /\ UNCHANGED listener
    <3>1. Stuck(h) \in Runners /\ Stuck(h).at = "stuck" /\ Stuck(h).loaded = runner[h].loaded
      BY <2>1 DEF Runners, Stuck
    <3> QED
      BY <1>1, <2>1, <2>2, <3>1, PagesOf, StepSorted
  <2> DEFINE r == [at |-> "spawning", loaded |-> runner[h].loaded, todo |-> ItsPorts(h)]
  <2>3. CASE Step(h, r) /\ Vacate(ItsPorts(h))
    <3>1. r \in Runners /\ r.at = "spawning"
      BY <2>1, LocalOnes DEF Runners, ItsPorts
    <3>2. \A p \in Ports : listener'[p] = Maintenance => site[p] # h /\ listener[p] = Maintenance
      BY <1>2, <2>3, PagesOf, LocalOnes DEF ItsPorts
    <3> HIDE DEF r
    <3> QED
      BY <1>1, <1>2, <2>1, <2>3, <3>1, <3>2, StepSorted
  <2> QED
    BY <1>5, <2>2, <2>3 DEF Prepare
<1>6. ASSUME NEW r \in Runners, r.at # "binding", Step(h, r),
             UNCHANGED <<site, seesPort, dropped, starts, visitor>>,
             runner[h].at \in {"spawning", "up", "stopping"},
             \A p \in Ports : listener'[p] \in Listeners,
             \A p \in Ports : listener'[p] = Maintenance => listener[p] = Maintenance
      PROVE  RoutingSorted'
  <2>1. \A p \in Ports : listener[p] = Maintenance => site[p] # h
    BY <1>6, PagesOf
  <2> QED
    BY <1>1, <1>6, <2>1, StepSorted DEF RoutingSorted
<1>7. CASE Spawn(h)
  <2>1. /\ runner[h].at = "spawning" /\ runner[h].loaded \in Lists
        /\ UNCHANGED <<site, seesPort, dropped, starts, visitor, listener>>
    BY <1>1, <1>7, RunnerForms DEF Spawn, NoRunner
  <2>2. PICK p \in runner[h].todo :
            Step(h, IF runner[h].todo = {p} THEN [at |-> "up", loaded |-> runner[h].loaded]
                    ELSE [runner[h] EXCEPT !.todo = runner[h].todo \ {p}])
    BY <1>7 DEF Spawn
  <2>3. [at |-> "up", loaded |-> runner[h].loaded] \in Runners
    BY <2>1 DEF Runners
  <2>4. /\ [runner[h] EXCEPT !.todo = runner[h].todo \ {p}] \in Runners
        /\ [runner[h] EXCEPT !.todo = runner[h].todo \ {p}].at = "spawning"
    BY <1>1, <2>1, RunnerForms
  <2> QED
    BY <1>1, <1>6, <2>1, <2>2, <2>3, <2>4
<1>8. CASE Notice(h)
  <2>1. [at |-> "stopping", loaded |-> runner[h].loaded] \in Runners
    BY <1>1, <1>8, RunnerForms DEF Runners, Notice, NoRunner
  <2> QED
    BY <1>1, <1>6, <1>8, <2>1 DEF Notice
<1>9. CASE StopWorkers(h)
  <2>1. CASE Step(h, NoRunner) /\ UNCHANGED <<listener, visitor>>
    BY <1>1, <1>6, <1>9, <2>1 DEF StopWorkers, Runners, NoRunner
  <2>2. CASE /\ UNCHANGED runner
             /\ \/ UNCHANGED <<listener, visitor>>
                \/ \E p \in Ports : Vacate({p}) /\ CutOff({p})
    <3>1. /\ \A p \in Ports : listener'[p] \in Listeners
          /\ \A p \in Ports : listener'[p] = Maintenance => listener[p] = Maintenance
          /\ \A c \in Visitors : visitor'[c] \in BrowserStates
      BY <1>1, <1>2, <2>2, CutSorted
    <3> QED
      BY <1>9, <2>2, <3>1 DEF StopWorkers, RoutingSorted, ItsPorts, LocalPorts
  <2>3. ItsPorts(h) \subseteq Ports
    BY DEF ItsPorts, LocalPorts
  <2> QED
    BY <1>9, <2>1, <2>2, <2>3 DEF StopWorkers
<1>10. CASE Abandon(h)
  <2>1. \A p \in Ports : /\ listener'[p] \in Listeners
                         /\ listener'[p] = Maintenance => site[p] # h /\ listener[p] = Maintenance
    BY <1>1, <1>10, ListenerForms DEF Abandon, Whose, IsWorker
  <2> QED
    BY <1>1, <1>10, <2>1, StepSorted DEF Abandon, RoutingSorted, Runners, NoRunner
<1> QED
  BY <1>3, <1>4, <1>5, <1>7, <1>8, <1>9, <1>10 DEF RunnerStep

LEMMA OthersSorted ==
    ASSUME RoutingInv, RoutingInv', RoutingSorted,
           \/ \E h \in Hosts : Reconfigure(h)
           \/ \E p \in Ports : Listen(p) \/ WorkerEnds(p)
           \/ \E c \in Visitors : AskBase(c) \/ OpenSocket(c) \/ CloseSocket(c)
    PROVE  RoutingSorted'
<1>1. UNCHANGED <<site, seesPort, runner, starts>> /\ dropped' \in BOOLEAN
  BY DEF Reconfigure, Listen, WorkerEnds, AskBase, OpenSocket, CloseSocket, processes, RoutingSorted
<1>2. \A h \in Hosts : ItsPorts(h)' = ItsPorts(h)
  BY <1>1 DEF ItsPorts, LocalPorts
<1>3. ASSUME \A p \in Ports : listener'[p] \in Listeners,
             \A p \in Ports : listener'[p] = Maintenance => listener[p] = Maintenance,
             \A c \in Visitors : visitor'[c] \in BrowserStates
      PROVE  RoutingSorted'
  <2>1. \A p \in Ports : site[p] \in Hosts
    BY DEF RoutingInv, RoutingTyped
  <2> QED
    BY <1>1, <1>2, <1>3, <2>1 DEF RoutingSorted
<1>4. /\ DOMAIN listener = Ports /\ DOMAIN visitor = Visitors
      /\ \A p \in Ports : listener[p] \in Listeners /\ settings[site[p]] \in Lists
      /\ \A p \in Ports : starting[p] \subseteq Whose
      /\ \A c \in Visitors : visitor[c] \in BrowserStates
  BY DEF RoutingSorted, RoutingInv, RoutingTyped
<1>5. ASSUME NEW p \in Ports, Listen(p) PROVE RoutingSorted'
  <2>1. visitor' = visitor /\ \E who \in Whose : listener' = listener \/
              listener' = [listener EXCEPT ![p] = Worker(who, settings[site[p]])]
    BY <1>4, <1>5 DEF Listen
  <2> QED
    BY <1>3, <1>4, <2>1, ListenerForms
<1>6. ASSUME NEW p \in Ports, WorkerEnds(p) PROVE RoutingSorted'
  BY <1>3, <1>4, <1>6, CutSorted, ListenerForms DEF WorkerEnds, Vacate
<1>7. ASSUME NEW c \in Visitors, AskBase(c) \/ OpenSocket(c) \/ CloseSocket(c)
      PROVE  RoutingSorted'
  <2>1. listener' = listener
    BY <1>7 DEF AskBase, OpenSocket, CloseSocket, processes
  <2>2. \A p \in Ports, v \in Lists : [at |-> "given", base |-> p, by |-> v] \in BrowserStates
    BY DEF BrowserStates
  <2>3. ASSUME NEW p \in Ports, NEW v \in Lists, Given(c, p, v)
        PROVE  RoutingSorted'
    BY <1>3, <1>4, <2>1, <2>2, <2>3 DEF Given
  <2>4. CASE AskBase(c)
    <3>1. PICK p \in Ports : IsWorker(p) /\ Given(c, Base(p, listener[p].loaded), listener[p].loaded)
      BY <2>4 DEF AskBase
    <3>2. listener[p].loaded \in Lists
      BY <1>4, <3>1, ListenerForms DEF IsWorker
    <3>3. Base(p, listener[p].loaded) \in Ports
      BY <3>2, PlaceListed DEF Base
    <3> QED
      BY <2>3, <3>1, <3>2, <3>3
  <2>5. CASE OpenSocket(c)
    <3> DEFINE p == visitor[c].base
    <3>1. p \in Ports /\ IsWorker(p) /\ visitor[c].at = "given"
      BY <2>5 DEF OpenSocket, RoutingInv, Guided
    <3>2. listener[p].loaded \in Lists
      BY <1>4, <3>1, ListenerForms DEF IsWorker
    <3>3. CASE Given(c, PlaceIn(listener[p].loaded), listener[p].loaded)
      BY <2>3, <3>2, <3>3, PlaceListed
    <3>4. CASE visitor' = [visitor EXCEPT ![c].at = "connected"]
      <4>1. [visitor[c] EXCEPT !.at = "connected"] \in BrowserStates
        BY <1>4, <3>1 DEF BrowserStates, Away
      <4> QED
        BY <1>3, <1>4, <2>1, <3>4, <4>1
    <3> QED
      BY <2>5, <3>3, <3>4 DEF OpenSocket
  <2>6. CASE CloseSocket(c)
    BY <1>3, <1>4, <2>1, <2>6 DEF CloseSocket, BrowserStates
  <2> QED
    BY <1>7, <2>4, <2>5, <2>6
<1>8. ASSUME NEW h \in Hosts, Reconfigure(h) PROVE RoutingSorted'
  BY <1>3, <1>4, <1>8 DEF Reconfigure, processes
<1> QED
  BY <1>5, <1>6, <1>7, <1>8

\* A maintenance page or a worker of a runserver is on a port of the list that its runserver
\* has read, and who is connected is connected to a worker (runserver's _free_ports and
\* _spawn_workers, get_ws_base, check_server).
THEOREM RoutingTypeCorrect == RoutingSpec => []RoutingTypeOK
<1>1. RoutingInit => RoutingSorted
  <2> SUFFICES ASSUME RoutingInit PROVE RoutingSorted
    OBVIOUS
  <2>1. PICK v \in Lists :
        /\ runner = [h \in Hosts |->
              IF LocalPorts(h, v) # {} THEN [at |-> "up", loaded |-> v] ELSE NoRunner]
        /\ listener = [p \in Ports |->
              IF p \in LocalPorts(site[p], v) THEN Worker("own", v) ELSE Closed]
    BY DEF RoutingInit, Lists
  <2>2. \A h \in Hosts : runner[h] \in Runners /\ runner[h].at # "binding"
    BY <2>1 DEF Runners, NoRunner
  <2>3. \A p \in Ports : listener[p] \in Listeners /\ listener[p] # Maintenance
    BY <2>1, ListenerForms DEF Whose
  <2>4. \A c \in Visitors : visitor[c] \in BrowserStates
    BY DEF RoutingInit, BrowserStates
  <2> QED
    BY <2>2, <2>3, <2>4 DEF RoutingInit, RoutingSorted
<1>2. RoutingInv /\ RoutingInv' /\ RoutingSorted /\ [RoutingNext]_routingVars => RoutingSorted'
  <2> SUFFICES ASSUME RoutingInv, RoutingInv', RoutingSorted, [RoutingNext]_routingVars
               PROVE  RoutingSorted'
    OBVIOUS
  <2>1. CASE RoutingNext
    BY <2>1, RunnerSorted, OthersSorted DEF RoutingNext
  <2>2. CASE UNCHANGED routingVars
    BY <2>2 DEF routingVars, processes, RoutingSorted, ItsPorts, LocalPorts
  <2> QED
    BY <2>1, <2>2
<1>3. RoutingInv /\ RoutingSorted => RoutingTypeOK
  <2> SUFFICES ASSUME RoutingInv, RoutingSorted PROVE RoutingTypeOK
    OBVIOUS
  <2>1. /\ runner \in [Hosts -> Runners] /\ listener \in [Ports -> Listeners]
        /\ visitor \in [Visitors -> BrowserStates]
    BY DEF RoutingInv, RoutingTyped, RoutingSorted
  <2>2. ASSUME NEW p \in Ports, listener[p] = Maintenance \/ HasWorker(p)
        PROVE  runner[site[p]] # NoRunner /\ p \in ItsPorts(site[p])
    <3>1. CASE listener[p] = Maintenance
      BY <3>1, PagesOf DEF RoutingSorted, NoRunner
    <3>2. CASE HasWorker(p)
      BY <3>2, LocalOnes DEF RoutingInv, WorkersRead, ItsPorts
    <3> QED
      BY <2>2, <3>1, <3>2
  <2>3. \A c \in Visitors : visitor[c].at = "connected" => IsWorker(visitor[c].base)
    BY DEF RoutingInv, Guided, Stays
  <2> QED
    BY <2>1, <2>2, <2>3
       DEF RoutingInv, RoutingTyped, RoutingSorted, RoutingTypeOK, Runners, Listeners, BrowserStates
<1> QED
  BY <1>1, <1>2, <1>3, RoutingBegins, RoutingKeeps, PTL DEF RoutingSpec

-----------------------------------------------------------------------------
(* Revisions of documents and their files.                               *)

\* What a request is at: it stores the file of one of the revisions made, or removes those of
\* some.
DutyFits(x, made) ==
    \/ x = NoDuty
    \/ \E r \in 1..made : x \in {[at |-> "blank", on |-> {r}], [at |-> "file", on |-> {r}]}
    \/ \E r \in 1..made, n \in Nat \ {NoFile} : x = [at |-> "name", on |-> {r}, file |-> n]
    \/ \E fs : x = [at |-> "remove", files |-> fs] /\ \A f \in fs : f[1] \in 1..made

\* Domains, as far as the proof needs them.
RevisionsTyped ==
    /\ revision = [r \in DOMAIN revision |-> revision[r]] /\ uploads \in Nat
    /\ DOMAIN revision \subseteq 1..uploads /\ kept \cup ruined \subseteq 1..uploads
    /\ hasDocument \/ DOMAIN revision = {}
    /\ \A f \in legacy : f[2] # NoFile
    /\ duty = [w \in Servants |-> duty[w]] /\ \A w \in Servants : DutyFits(duty[w], uploads)
    /\ cleaner.at = "listed" => cleaner = [at |-> "listed", files |-> cleaner.files]

Named(r, f) == r \in DOMAIN revision /\ revision[r] # NoFile /\ f = <<r, revision[r]>>

Replacing == {"blank", "file", "name"}

\* Requests that store a file for a revision are alone with it, and none will remove it; ...
Alone == \A v, w \in Servants : v # w /\ duty[v].at \in Replacing =>
    /\ duty[w].at \in Replacing => \A r \in duty[v].on : r \notin duty[w].on
    /\ duty[w].at = "remove" => \A f \in duty[w].files : f[1] \notin duty[v].on
\* ... they find its row as they left it, and its files; those that are to go no row names.
RowsLeft == \A w \in Servants :
    /\ duty[w].at = "blank" =>
          \A r \in duty[w].on \cap DOMAIN revision : <<r, revision[r]>> \notin storage
    /\ duty[w].at \in {"file", "name"} =>
          \A r \in duty[w].on \cap DOMAIN revision : revision[r] = NoFile
    /\ duty[w].at = "name" => \A r \in duty[w].on : <<r, duty[w].file>> \in storage
    /\ duty[w].at = "remove" => \A f \in duty[w].files : f[1] \notin DOMAIN revision

\* The command knows all that is named, as long as no file is being written.
CleanerKnows ==
    /\ Cleaning => \A w \in Servants : duty[w].at # "name"
    /\ cleaner.at = "read" => \A r, f : Named(r, f) => f \in cleaner.names
    /\ cleaner.at = "listed" => \A r, f : Named(r, f) => f \notin cleaner.files

\* The file a row names is there, or about to be replaced, or lost as that failed; ...
NamedThere == \A r \in kept \cap DOMAIN revision :
    \/ revision[r] = NoFile \/ Reachable(r)
    \/ \E w \in Servants : duty[w].at = "blank" /\ r \in duty[w].on
    \/ r \in ruined
\* ... a row that lost its file gets a new one, and a file in the storage is named, about to
\* be, or about to go, if no request fails.
NothingLeft == ~failed =>
    /\ \A r \in kept \cap DOMAIN revision :
          \/ revision[r] # NoFile
          \/ \E w \in Servants : duty[w].at \in {"file", "name"} /\ r \in duty[w].on
    /\ \A f \in storage :
          \/ \E r \in DOMAIN revision : Named(r, f)
          \/ \E w \in Servants : \/ /\ duty[w].at = "name"
                                    /\ \E r \in duty[w].on : f = <<r, duty[w].file>>
                                 \/ duty[w].at = "remove" /\ f \in duty[w].files

RevisionsInv ==
    /\ RevisionsTyped
    /\ ~tangled => Alone /\ RowsLeft /\ CleanerKnows /\ NamedThere /\ NothingLeft

LEMMA NoDutyForms == NoDuty.at = "none"
BY DEF NoDuty

LEMMA DutyForms ==
    ASSUME NEW x, DutyFits(x, uploads)
    PROVE  /\ x.at \in {"none", "blank", "file", "name", "remove"}
           /\ x = NoDuty <=> x.at = "none"
           /\ x.at \in Replacing => x.on \subseteq 1..uploads
           /\ x.at \in {"blank", "file"} => \E r \in 1..uploads : x = [at |-> x.at, on |-> {r}]
           /\ x.at = "name" => x.file \in Nat \ {NoFile} /\ \E r \in 1..uploads : x.on = {r}
           /\ x.at = "remove" => \A f \in x.files : f[1] \in 1..uploads
<1> USE DEF Replacing
<1>1. CASE x = NoDuty
  BY <1>1 DEF NoDuty
<1>2. ASSUME NEW r \in 1..uploads, x \in {[at |-> "blank", on |-> {r}], [at |-> "file", on |-> {r}]}
      PROVE  /\ x.at \in {"blank", "file"} /\ x.on = {r} /\ x = [at |-> x.at, on |-> {r}]
             /\ x # NoDuty
  BY <1>2 DEF NoDuty
<1>3. ASSUME NEW r \in 1..uploads, NEW n \in Nat \ {NoFile},
             x = [at |-> "name", on |-> {r}, file |-> n]
      PROVE  x.at = "name" /\ x.on = {r} /\ x.file = n /\ x # NoDuty
  BY <1>3 DEF NoDuty
<1>4. ASSUME NEW fs, x = [at |-> "remove", files |-> fs], \A f \in fs : f[1] \in 1..uploads
      PROVE  x.at = "remove" /\ x.files = fs /\ x # NoDuty
  BY <1>4 DEF NoDuty
<1> QED
  BY <1>1, <1>2, <1>3, <1>4 DEF DutyFits

LEMMA FitsStill ==
    ASSUME NEW m \in Nat, NEW n \in Nat, m <= n, NEW x, DutyFits(x, m)
    PROVE  DutyFits(x, n)
<1>1. \A r \in 1..m : r \in 1..n
  OBVIOUS
<1>2. CASE \E fs : x = [at |-> "remove", files |-> fs] /\ \A f \in fs : f[1] \in 1..m
  BY <1>1, <1>2 DEF DutyFits
<1>3. CASE \E r \in 1..m : x \in {[at |-> "blank", on |-> {r}], [at |-> "file", on |-> {r}]}
  BY <1>1, <1>3 DEF DutyFits
<1>4. CASE \E r \in 1..m, i \in Nat \ {NoFile} : x = [at |-> "name", on |-> {r}, file |-> i]
  BY <1>1, <1>4 DEF DutyFits
<1> QED
  BY <1>2, <1>3, <1>4 DEF DutyFits

\* One servant goes on, to what fits.
LEMMA GoesOne ==
    ASSUME RevisionsTyped, NEW w \in Servants, NEW x, Go(w, x), DutyFits(x, uploads'), uploads' \in Nat,
           uploads <= uploads'
    PROVE  /\ duty' = [v \in Servants |-> duty'[v]] /\ \A v \in Servants : DutyFits(duty'[v], uploads')
           /\ duty'[w] = x /\ \A v \in Servants \ {w} : duty'[v] = duty[v]
<1>1. /\ duty' = [v \in Servants |-> duty'[v]]
      /\ duty'[w] = x /\ \A v \in Servants \ {w} : duty'[v] = duty[v]
  BY DEF Go, RevisionsTyped
<1>2. \A v \in Servants \ {w} : DutyFits(duty'[v], uploads')
  BY <1>1, FitsStill DEF RevisionsTyped
<1> QED
  BY <1>1, <1>2

\* A new row has no file yet.
LEMMA UploadKept == ASSUME RevisionsInv, NEW w \in Servants, UploadRevision(w) PROVE RevisionsInv'
<1> DEFINE u == uploads'
           x == [at |-> "file", on |-> {u}]
<1>1. /\ duty[w] = NoDuty /\ hasDocument /\ u = uploads + 1 /\ Go(w, x)
      /\ revision' = [r \in DOMAIN revision \cup {u} |-> IF r = u THEN NoFile ELSE revision[r]]
      /\ UNCHANGED <<hasDocument, storage, legacy, cleaner, kept, ruined, failed, tangled>>
  BY DEF UploadRevision
<1>2. /\ uploads \in Nat /\ u \in Nat /\ u \notin 1..uploads /\ u \in 1..u
      /\ \A r \in 1..uploads : r \in 1..u
  BY <1>1 DEF RevisionsInv, RevisionsTyped
<1>3. x.at = "file" /\ x.on = {u} /\ DutyFits(x, uploads') /\ NoDuty.at = "none"
  BY <1>2, NoDutyForms DEF DutyFits
<1> HIDE DEF x
<1>4. /\ duty' = [v \in Servants |-> duty'[v]] /\ \A v \in Servants : DutyFits(duty'[v], uploads')
      /\ duty'[w] = x /\ \A v \in Servants \ {w} : duty'[v] = duty[v]
  BY <1>1, <1>2, <1>3, GoesOne DEF RevisionsInv
<1>5. /\ DOMAIN revision' = DOMAIN revision \cup {u} /\ revision'[u] = NoFile
      /\ \A r \in DOMAIN revision : r # u /\ revision'[r] = revision[r]
  BY <1>1, <1>2 DEF RevisionsInv, RevisionsTyped
<1>6. RevisionsTyped'
  BY <1>1, <1>2, <1>4, <1>5 DEF RevisionsInv, RevisionsTyped
<1> SUFFICES ASSUME ~tangled
             PROVE  (Alone /\ RowsLeft /\ CleanerKnows /\ NamedThere /\ NothingLeft)'
  BY <1>1, <1>6 DEF RevisionsInv
<1> HIDE DEF u
<1>7. ASSUME NEW v \in Servants \ {w}
      PROVE  /\ duty'[v] = duty[v]
             /\ duty[v].at \in Replacing => u \notin duty[v].on
             /\ duty[v].at = "remove" => \A f \in duty[v].files : f[1] # u
  <2>1. DutyFits(duty[v], uploads)
    BY DEF RevisionsInv, RevisionsTyped
  <2> QED
    BY <1>2, <1>4, <2>1, DutyForms
<1>8. \A v \in Servants : \/ v = w
                           \/ /\ duty'[v] = duty[v]
                              /\ duty[v].at \in Replacing => u \notin duty[v].on
                              /\ duty[v].at = "remove" => \A f \in duty[v].files : f[1] # u
  BY <1>7
<1>9. Alone'
  BY <1>3, <1>4, <1>8 DEF Alone, Replacing, RevisionsInv
<1>10. RowsLeft'
  BY <1>1, <1>3, <1>4, <1>5, <1>8 DEF RowsLeft, Replacing, RevisionsInv
<1>11. \A r, f : Named(r, f)' <=> Named(r, f)
  BY <1>5 DEF Named
<1>12. CleanerKnows'
  BY <1>1, <1>3, <1>4, <1>11 DEF CleanerKnows, Cleaning, RevisionsInv
<1>13. u \notin kept
  BY <1>2 DEF RevisionsInv, RevisionsTyped
<1>14. \A v \in Servants : duty[v].at \in {"blank", "file", "name", "remove"} => duty'[v] = duty[v]
  BY <1>1, <1>3, <1>4
<1>15. NamedThere'
  BY <1>1, <1>5, <1>13, <1>14 DEF NamedThere, Reachable, RevisionsInv
<1>16. NothingLeft'
  BY <1>1, <1>5, <1>11, <1>13, <1>14 DEF NothingLeft, RevisionsInv
<1> QED
  BY <1>9, <1>10, <1>12, <1>15, <1>16

\* The file is stored under a name of its own ...
LEMMA StoreKept == ASSUME RevisionsInv, NEW w \in Servants, StoreFile(w) PROVE RevisionsInv'
<1>1. PICK r \in duty[w].on, n \in 1..(Cardinality(storage) + 1) :
          storage' = storage \cup {<<r, n>>} /\ Go(w, [at |-> "name", on |-> {r}, file |-> n])
  BY DEF StoreFile
<1> DEFINE x == [at |-> "name", on |-> {r}, file |-> n]
<1>2. /\ duty[w].at = "file" /\ tangled' = (tangled \/ Cleaning)
      /\ UNCHANGED <<revision, uploads, hasDocument, legacy, cleaner, kept, ruined, failed>>
  BY DEF StoreFile
<1>3. DutyFits(duty[w], uploads) /\ \A v \in Servants : DutyFits(duty[v], uploads)
  BY DEF RevisionsInv, RevisionsTyped
<1>4. r \in 1..uploads /\ duty[w].on = {r} /\ duty[w] # NoDuty
  BY <1>1, <1>2, <1>3, DutyForms
<1>5. n \in Nat \ {NoFile}
  BY <1>1 DEF NoFile
<1>6. x.at = "name" /\ x.on = {r} /\ x.file = n /\ x # NoDuty /\ DutyFits(x, uploads')
  BY <1>2, <1>4, <1>5 DEF DutyFits, NoDuty
<1> HIDE DEF x
<1>7. /\ duty' = [v \in Servants |-> duty'[v]] /\ \A v \in Servants : DutyFits(duty'[v], uploads')
      /\ duty'[w] = x /\ \A v \in Servants \ {w} : duty'[v] = duty[v]
  BY <1>1, <1>2, <1>6, GoesOne DEF RevisionsInv, RevisionsTyped, x
<1>8. RevisionsTyped'
  BY <1>2, <1>7 DEF RevisionsInv, RevisionsTyped
<1> SUFFICES ASSUME ~tangled, ~Cleaning
             PROVE  (Alone /\ RowsLeft /\ CleanerKnows /\ NamedThere /\ NothingLeft)'
  BY <1>2, <1>8 DEF RevisionsInv
<1>9. Alone'
  BY <1>2, <1>4, <1>6, <1>7 DEF Alone, Replacing, RevisionsInv
<1>10. \A v \in Servants \ {w} : duty[v].at \in Replacing => r \notin duty[v].on
  BY <1>2, <1>4 DEF Alone, Replacing, RevisionsInv
<1>11. RowsLeft'
  BY <1>1, <1>2, <1>4, <1>6, <1>7, <1>10 DEF RowsLeft, Replacing, RevisionsInv
<1>12. CleanerKnows'
  BY <1>2 DEF CleanerKnows, Cleaning
<1>13. \A v \in Servants : duty[v].at \in {"blank", "name", "remove"} => duty'[v] = duty[v]
  BY <1>2, <1>7
<1>14. NamedThere'
  BY <1>1, <1>2, <1>13 DEF NamedThere, Reachable, RevisionsInv
<1>15. NothingLeft'
  <2>1. ASSUME ~failed, NEW q \in kept \cap DOMAIN revision, revision[q] = NoFile
        PROVE  \E v \in Servants : duty'[v].at \in {"file", "name"} /\ q \in duty'[v].on
    BY <1>4, <1>6, <1>7, <2>1 DEF NothingLeft, RevisionsInv
  <2>2. ASSUME ~failed, NEW f \in storage'
        PROVE  \/ \E q \in DOMAIN revision : Named(q, f)
               \/ \E v \in Servants : \/ /\ duty'[v].at = "name"
                                         /\ \E q \in duty'[v].on : f = <<q, duty'[v].file>>
                                      \/ duty'[v].at = "remove" /\ f \in duty'[v].files
    <3>1. CASE f = <<r, n>>
      BY <1>6, <1>7, <3>1
    <3>2. CASE f \in storage
      BY <1>13, <2>2, <3>2 DEF NothingLeft, RevisionsInv
    <3> QED
      BY <1>1, <2>2, <3>1, <3>2
  <2> QED
    BY <1>2, <2>1, <2>2 DEF NothingLeft, Named
<1> QED
  BY <1>9, <1>11, <1>12, <1>14, <1>15

\* A request is done, or goes on to removing files: nothing changes but its duty.
LEMMA NameKept == ASSUME RevisionsInv, NEW w \in Servants, NameFile(w) PROVE RevisionsInv'
<1>1. /\ duty[w].at = "name" /\ Go(w, NoDuty)
      /\ UNCHANGED <<uploads, hasDocument, storage, legacy, cleaner, tangled>>
  BY DEF NameFile
<1>2. \A v \in Servants : DutyFits(duty[v], uploads)
  BY DEF RevisionsInv, RevisionsTyped
<1>3. PICK r \in 1..uploads : duty[w].on = {r}
  BY <1>1, <1>2, DutyForms
<1>4. duty[w].file \in Nat \ {NoFile} /\ duty[w] # NoDuty
  BY <1>1, <1>2, DutyForms
<1>5. /\ duty' = [v \in Servants |-> duty'[v]] /\ \A v \in Servants : DutyFits(duty'[v], uploads')
      /\ duty'[w] = NoDuty /\ \A v \in Servants \ {w} : duty'[v] = duty[v]
  <2>1. uploads \in Nat /\ uploads' = uploads
    BY <1>1 DEF RevisionsInv, RevisionsTyped
  <2>2. DutyFits(NoDuty, uploads')
    BY DEF DutyFits
  <2> QED
    BY <1>1, <2>1, <2>2, GoesOne DEF RevisionsInv
<1>6. CASE ~hasDocument
  <2>1. failed' /\ revision' = revision /\ kept' = kept /\ ruined' = ruined
    BY <1>6 DEF NameFile
  <2>2. RevisionsTyped'
    BY <1>1, <1>5, <2>1 DEF RevisionsInv, RevisionsTyped
  <2>3. DOMAIN revision = {}
    BY <1>6 DEF RevisionsInv, RevisionsTyped
  <2> SUFFICES ASSUME ~tangled
               PROVE  (Alone /\ RowsLeft /\ CleanerKnows /\ NamedThere /\ NothingLeft)'
    BY <1>1, <2>2 DEF RevisionsInv
  <2>4. NoDuty.at = "none"
    BY NoDutyForms
  <2>5. Alone'
    BY <1>5, <2>4 DEF Alone, Replacing, RevisionsInv
  <2>6. RowsLeft'
    BY <1>1, <1>5, <2>1, <2>4 DEF RowsLeft, RevisionsInv
  <2>7. CleanerKnows'
    BY <1>1, <1>5, <2>1, <2>4 DEF CleanerKnows, Cleaning, Named, RevisionsInv
  <2>8. NamedThere' /\ NothingLeft'
    BY <2>1, <2>3 DEF NamedThere, NothingLeft
  <2> QED
    BY <2>5, <2>6, <2>7, <2>8
<1>7. CASE hasDocument
  <2>1. /\ failed' = failed /\ kept' = kept \cup {r} /\ ruined' = ruined \ {r}
        /\ revision' = [q \in DOMAIN revision \cup {r} |->
                           IF q \in {r} THEN duty[w].file ELSE revision[q]]
    BY <1>3, <1>7 DEF NameFile
  <2>2. /\ DOMAIN revision' = DOMAIN revision \cup {r} /\ revision'[r] = duty[w].file
        /\ \A q \in DOMAIN revision \ {r} : revision'[q] = revision[q]
        /\ revision' = [q \in DOMAIN revision' |-> revision'[q]]
    BY <2>1
  <2>3. RevisionsTyped'
    BY <1>1, <1>5, <1>7, <2>1, <2>2 DEF RevisionsInv, RevisionsTyped
  <2> SUFFICES ASSUME ~tangled
               PROVE  (Alone /\ RowsLeft /\ CleanerKnows /\ NamedThere /\ NothingLeft)'
    BY <1>1, <2>3 DEF RevisionsInv
  <2>4. NoDuty.at = "none"
    BY NoDutyForms
  <2>5. Alone'
    BY <1>5, <2>4 DEF Alone, Replacing, RevisionsInv
  <2>6. \A v \in Servants \ {w} :
            /\ duty[v].at \in Replacing => r \notin duty[v].on
            /\ duty[v].at = "remove" => \A f \in duty[v].files : f[1] # r
    BY <1>1, <1>3 DEF Alone, Replacing, RevisionsInv
  <2>7. RowsLeft'
    BY <1>1, <1>5, <2>2, <2>4, <2>6 DEF RowsLeft, Replacing, RevisionsInv
  <2>8. ~Cleaning
    BY <1>1 DEF CleanerKnows, RevisionsInv
  <2>9. CleanerKnows'
    BY <1>1, <2>8 DEF CleanerKnows, Cleaning
  <2>10. <<r, duty[w].file>> \in storage
    BY <1>1, <1>3 DEF RowsLeft, RevisionsInv
  <2>11. NamedThere'
    <3>1. ASSUME NEW q \in kept' \cap DOMAIN revision'
          PROVE  \/ revision'[q] = NoFile \/ <<q, revision'[q]>> \in storage \cup legacy
                 \/ \E v \in Servants : duty'[v].at = "blank" /\ q \in duty'[v].on
                 \/ q \in ruined'
      <4>1. CASE q = r
        BY <2>2, <2>10, <4>1
      <4>2. CASE q # r
        BY <1>1, <1>5, <2>1, <2>2, <4>2 DEF NamedThere, Reachable, RevisionsInv
      <4> QED
        BY <4>1, <4>2
    <3> QED
      BY <1>1, <3>1 DEF NamedThere, Reachable
  <2>12. NothingLeft'
    <3>1. ASSUME ~failed, NEW q \in kept' \cap DOMAIN revision', revision'[q] = NoFile
          PROVE  \E v \in Servants : duty'[v].at \in {"file", "name"} /\ q \in duty'[v].on
      <4>1. q # r /\ q \in kept \cap DOMAIN revision /\ revision[q] = NoFile
        BY <1>4, <2>1, <2>2, <3>1
      <4>2. PICK v \in Servants : duty[v].at \in {"file", "name"} /\ q \in duty[v].on
        BY <3>1, <4>1 DEF NothingLeft, RevisionsInv
      <4> QED
        BY <1>3, <1>5, <4>1, <4>2
    <3>2. ASSUME ~failed, NEW f \in storage
          PROVE  \/ \E q \in DOMAIN revision' : Named(q, f)'
                 \/ \E v \in Servants : \/ /\ duty'[v].at = "name"
                                           /\ \E q \in duty'[v].on : f = <<q, duty'[v].file>>
                                        \/ duty'[v].at = "remove" /\ f \in duty'[v].files
      <4>1. CASE \E q \in DOMAIN revision : Named(q, f)
        <5>1. PICK q \in DOMAIN revision : Named(q, f)
          BY <4>1
        <5>2. q # r
          BY <1>1, <1>3, <5>1 DEF Named, RowsLeft, RevisionsInv
        <5> QED
          BY <2>2, <5>1, <5>2 DEF Named
      <4>2. CASE f = <<r, duty[w].file>>
        BY <1>4, <2>2, <4>2 DEF Named
      <4>3. CASE \E v \in Servants \ {w} :
                    \/ /\ duty[v].at = "name"
                       /\ \E q \in duty[v].on : f = <<q, duty[v].file>>
                    \/ duty[v].at = "remove" /\ f \in duty[v].files
        BY <1>5, <4>3
      <4> QED
        BY <1>1, <1>3, <3>2, <4>1, <4>2, <4>3 DEF NothingLeft, RevisionsInv
    <3> QED
      BY <1>1, <2>1, <3>1, <3>2 DEF NothingLeft
  <2> QED
    BY <2>5, <2>7, <2>9, <2>11, <2>12
<1> QED
  BY <1>6, <1>7

LEMMA FailKept == ASSUME RevisionsInv, NEW w \in Servants, FailRequest(w) PROVE RevisionsInv'
<1>1. /\ duty[w] # NoDuty /\ Go(w, NoDuty) /\ failed' = TRUE
      /\ ruined' = IF duty[w].at = "blank" THEN ruined \cup duty[w].on ELSE ruined
      /\ UNCHANGED <<revision, uploads, hasDocument, storage, legacy, cleaner, kept, tangled>>
  BY DEF FailRequest
<1>2. /\ duty' = [v \in Servants |-> duty'[v]] /\ \A v \in Servants : DutyFits(duty'[v], uploads')
      /\ duty'[w] = NoDuty /\ \A v \in Servants \ {w} : duty'[v] = duty[v]
  <2>1. uploads \in Nat /\ uploads' = uploads
    BY <1>1 DEF RevisionsInv, RevisionsTyped
  <2>2. DutyFits(NoDuty, uploads')
    BY DEF DutyFits
  <2> QED
    BY <1>1, <2>1, <2>2, GoesOne DEF RevisionsInv
<1>3. /\ ruined' \subseteq 1..uploads /\ ruined \subseteq ruined'
      /\ duty[w].at = "blank" => duty[w].on \subseteq ruined'
  <2>1. DutyFits(duty[w], uploads)
    BY DEF RevisionsInv, RevisionsTyped
  <2>2. duty[w].at = "blank" => duty[w].on \subseteq 1..uploads
    BY <2>1, DutyForms DEF Replacing
  <2> QED
    BY <1>1, <2>2 DEF RevisionsInv, RevisionsTyped
<1>4. RevisionsTyped'
  BY <1>1, <1>2, <1>3 DEF RevisionsInv, RevisionsTyped
<1> SUFFICES ASSUME ~tangled
             PROVE  (Alone /\ RowsLeft /\ CleanerKnows /\ NamedThere /\ NothingLeft)'
  BY <1>1, <1>4 DEF RevisionsInv
<1>5. NoDuty.at = "none"
  BY NoDutyForms
<1>6. Alone'
  BY <1>2, <1>5 DEF Alone, Replacing, RevisionsInv
<1>7. RowsLeft'
  BY <1>1, <1>2, <1>5 DEF RowsLeft, RevisionsInv
<1>8. CleanerKnows'
  BY <1>1, <1>2, <1>5 DEF CleanerKnows, Cleaning, Named, RevisionsInv
<1>9. NamedThere'
  BY <1>1, <1>2, <1>3 DEF NamedThere, Reachable, RevisionsInv
<1>10. NothingLeft'
  BY <1>1 DEF NothingLeft
<1> QED
  BY <1>6, <1>7, <1>8, <1>9, <1>10

LEMMA UpdateKept == ASSUME RevisionsInv, NEW w \in Servants, UpdateRevision(w) PROVE RevisionsInv'
<1>1. PICK r \in DOMAIN revision :
        /\ revision[r] # NoFile
        /\ storage' = storage \ {<<r, revision[r]>>}
        /\ Go(w, [at |-> "blank", on |-> {r}])
        /\ tangled' = (tangled \/ Replaced({r}))
  BY DEF UpdateRevision
<1> DEFINE x == [at |-> "blank", on |-> {r}]
<1>2. /\ duty[w] = NoDuty
      /\ UNCHANGED <<revision, uploads, hasDocument, legacy, cleaner, kept, ruined, failed>>
  BY DEF UpdateRevision
<1>3. \A v \in Servants : DutyFits(duty[v], uploads)
  BY DEF RevisionsInv, RevisionsTyped
<1>4. r \in 1..uploads /\ uploads \in Nat
  BY DEF RevisionsInv, RevisionsTyped
<1>5. x.at = "blank" /\ x.on = {r} /\ x # NoDuty /\ DutyFits(x, uploads') /\ NoDuty.at = "none"
  BY <1>2, <1>4 DEF DutyFits, NoDuty
<1> HIDE DEF x
<1>6. /\ duty' = [v \in Servants |-> duty'[v]] /\ \A v \in Servants : DutyFits(duty'[v], uploads')
      /\ duty'[w] = x /\ \A v \in Servants \ {w} : duty'[v] = duty[v]
  BY <1>1, <1>2, <1>4, <1>5, GoesOne DEF RevisionsInv, x
<1>7. RevisionsTyped'
  BY <1>2, <1>6 DEF RevisionsInv, RevisionsTyped
<1> SUFFICES ASSUME ~tangled, ~Replaced({r})
             PROVE  (Alone /\ RowsLeft /\ CleanerKnows /\ NamedThere /\ NothingLeft)'
  BY <1>1, <1>7 DEF RevisionsInv
<1>8. \A v \in Servants \ {w} :
          /\ duty[v].at \in Replacing => r \notin duty[v].on
          /\ duty[v].at = "remove" => \A f \in duty[v].files : f[1] # r
  BY <1>1 DEF Replaced, RowsLeft, Replacing, RevisionsInv
<1>9. Alone'
  BY <1>5, <1>6, <1>8 DEF Alone, Replacing, RevisionsInv
<1>10. storage' \subseteq storage
  BY <1>1
<1>11. RowsLeft'
  <2>1. ASSUME NEW v \in Servants \ {w}, duty[v].at = "name"
        PROVE  \A q \in duty[v].on : <<q, duty[v].file>> \in storage'
    <3>2. \A q \in duty[v].on : q # r
      BY <1>8, <2>1 DEF Replacing
    <3> QED
      BY <1>1, <2>1, <3>2 DEF RowsLeft, RevisionsInv
  <2>2. <<r, revision[r]>> \notin storage'
    BY <1>1
  <2> QED
    BY <1>2, <1>5, <1>6, <1>10, <2>1, <2>2 DEF RowsLeft, RevisionsInv
<1>12. CleanerKnows'
  BY <1>2, <1>5, <1>6 DEF CleanerKnows, Cleaning, Named, RevisionsInv
<1>13. \A v \in Servants : duty[v].at \in {"blank", "file", "name", "remove"} => duty'[v] = duty[v]
  BY <1>2, <1>5, <1>6
<1>14. NamedThere'
  <2>1. ASSUME NEW q \in kept \cap DOMAIN revision
        PROVE  \/ revision[q] = NoFile \/ <<q, revision[q]>> \in storage' \cup legacy
               \/ \E v \in Servants : duty'[v].at = "blank" /\ q \in duty'[v].on
               \/ q \in ruined'
    <3>1. CASE q = r
      BY <1>5, <1>6, <3>1
    <3>2. CASE q # r
      BY <1>1, <1>2, <1>13, <3>2 DEF NamedThere, Reachable, RevisionsInv
    <3> QED
      BY <3>1, <3>2
  <2> QED
    BY <1>2, <2>1 DEF NamedThere, Reachable
<1>15. NothingLeft'
  BY <1>2, <1>10, <1>13 DEF NothingLeft, Named, RevisionsInv
<1> QED
  BY <1>9, <1>11, <1>12, <1>14, <1>15

LEMMA BlankKept == ASSUME RevisionsInv, NEW w \in Servants, BlankRow(w) PROVE RevisionsInv'
<1>1. /\ duty[w].at = "blank"
      /\ UNCHANGED <<uploads, hasDocument, storage, legacy, cleaner, kept, ruined, tangled>>
  BY DEF BlankRow
<1>2. \A v \in Servants : DutyFits(duty[v], uploads)
  BY DEF RevisionsInv, RevisionsTyped
<1>3. PICK r \in 1..uploads : duty[w] = [at |-> "blank", on |-> {r}]
  <2>1. PICK r \in 1..uploads : duty[w] = [at |-> duty[w].at, on |-> {r}]
    BY <1>1, <1>2, DutyForms
  <2> QED
    BY <1>1, <2>1
<1>4. duty[w].on = {r} /\ duty[w] # NoDuty /\ NoDuty.at = "none" /\ uploads \in Nat
  BY <1>3 DEF NoDuty, RevisionsInv, RevisionsTyped
<1> DEFINE file == [at |-> "file", on |-> {r}]
<1>5. PICK x : /\ Go(w, x) /\ x \in {NoDuty, file}
               /\ \/ /\ x = NoDuty /\ ~hasDocument /\ failed' /\ revision' = revision
                  \/ /\ x = file /\ hasDocument /\ failed' = failed
                     /\ revision' = [q \in DOMAIN revision \cup {r} |->
                                        IF q \in {r} THEN NoFile ELSE revision[q]]
  <2>1. [duty[w] EXCEPT !.at = "file"] = file
    BY <1>3
  <2> QED
    BY <1>4, <2>1 DEF BlankRow
<1>6. /\ file.at = "file" /\ file.on = {r} /\ file # NoDuty
      /\ DutyFits(x, uploads')
  BY <1>1, <1>5 DEF DutyFits, NoDuty
<1> HIDE DEF file
<1>7. /\ duty' = [v \in Servants |-> duty'[v]] /\ \A v \in Servants : DutyFits(duty'[v], uploads')
      /\ duty'[w] = x /\ \A v \in Servants \ {w} : duty'[v] = duty[v]
  BY <1>1, <1>4, <1>5, <1>6, GoesOne DEF RevisionsInv
<1>8. CASE x = NoDuty
  <2>1. failed' /\ revision' = revision /\ DOMAIN revision = {}
    BY <1>5, <1>6, <1>8 DEF RevisionsInv, RevisionsTyped
  <2>2. RevisionsTyped'
    BY <1>1, <1>7, <2>1 DEF RevisionsInv, RevisionsTyped
  <2> SUFFICES ASSUME ~tangled
               PROVE  (Alone /\ RowsLeft /\ CleanerKnows /\ NamedThere /\ NothingLeft)'
    BY <1>1, <2>2 DEF RevisionsInv
  <2>3. Alone'
    BY <1>4, <1>7, <1>8 DEF Alone, Replacing, RevisionsInv
  <2>4. RowsLeft'
    BY <1>1, <1>4, <1>7, <1>8, <2>1 DEF RowsLeft, RevisionsInv
  <2>5. CleanerKnows'
    BY <1>1, <1>4, <1>7, <1>8, <2>1 DEF CleanerKnows, Cleaning, Named, RevisionsInv
  <2>6. NamedThere' /\ NothingLeft'
    BY <2>1 DEF NamedThere, NothingLeft
  <2> QED
    BY <2>3, <2>4, <2>5, <2>6
<1>9. CASE x = file
  <2>1. /\ hasDocument /\ failed' = failed
        /\ revision' = [q \in DOMAIN revision \cup {r} |->
                           IF q \in {r} THEN NoFile ELSE revision[q]]
    BY <1>5, <1>6, <1>9
  <2>2. /\ DOMAIN revision' = DOMAIN revision \cup {r} /\ revision'[r] = NoFile
        /\ \A q \in DOMAIN revision \ {r} : revision'[q] = revision[q]
        /\ revision' = [q \in DOMAIN revision' |-> revision'[q]]
    BY <2>1
  <2>3. RevisionsTyped'
    BY <1>1, <1>7, <2>1, <2>2 DEF RevisionsInv, RevisionsTyped
  <2> SUFFICES ASSUME ~tangled
               PROVE  (Alone /\ RowsLeft /\ CleanerKnows /\ NamedThere /\ NothingLeft)'
    BY <1>1, <2>3 DEF RevisionsInv
  <2>4. \A v \in Servants \ {w} :
            /\ duty[v].at \in Replacing => r \notin duty[v].on
            /\ duty[v].at = "remove" => \A f \in duty[v].files : f[1] # r
    BY <1>1, <1>4 DEF Alone, Replacing, RevisionsInv
  <2>5. Alone'
    BY <1>6, <1>7, <1>9, <2>4 DEF Alone, Replacing, RevisionsInv
  <2>6. RowsLeft'
    BY <1>1, <1>6, <1>7, <1>9, <2>2, <2>4 DEF RowsLeft, Replacing, RevisionsInv
  <2>7. \A q, f : Named(q, f)' => Named(q, f)
    BY <2>2 DEF Named
  <2>8. CleanerKnows'
    BY <1>1, <1>6, <1>7, <1>9, <2>7 DEF CleanerKnows, Cleaning, RevisionsInv
  <2>9. \A v \in Servants : duty[v].at \in {"file", "name", "remove"} => duty'[v] = duty[v]
    BY <1>1, <1>7
  <2>10. NamedThere'
    <3>1. ASSUME NEW q \in kept \cap DOMAIN revision', q # r
          PROVE  \/ revision'[q] = NoFile \/ <<q, revision'[q]>> \in storage \cup legacy
                 \/ \E v \in Servants : duty'[v].at = "blank" /\ q \in duty'[v].on
                 \/ q \in ruined
      <4>1. q \in kept \cap DOMAIN revision /\ revision'[q] = revision[q]
        BY <2>2, <3>1
      <4>2. ASSUME NEW v \in Servants, duty[v].at = "blank", q \in duty[v].on
            PROVE  duty'[v] = duty[v]
        BY <1>4, <1>7, <3>1, <4>2
      <4> QED
        BY <4>1, <4>2 DEF NamedThere, Reachable, RevisionsInv
    <3> QED
      BY <1>1, <2>2, <3>1 DEF NamedThere, Reachable
  <2>11. NothingLeft'
    <3>1. ASSUME ~failed, NEW q \in kept \cap DOMAIN revision', revision'[q] = NoFile
          PROVE  \E v \in Servants : duty'[v].at \in {"file", "name"} /\ q \in duty'[v].on
      <4>1. CASE q = r
        BY <1>6, <1>7, <1>9, <4>1
      <4>2. CASE q # r
        BY <2>2, <2>9, <3>1, <4>2 DEF NothingLeft, RevisionsInv
      <4> QED
        BY <4>1, <4>2
    <3>2. ASSUME ~failed, NEW f \in storage
          PROVE  \/ \E q \in DOMAIN revision' : Named(q, f)'
                 \/ \E v \in Servants : \/ /\ duty'[v].at = "name"
                                           /\ \E q \in duty'[v].on : f = <<q, duty'[v].file>>
                                        \/ duty'[v].at = "remove" /\ f \in duty'[v].files
      <4>1. CASE \E q \in DOMAIN revision : Named(q, f)
        <5>1. PICK q \in DOMAIN revision : Named(q, f)
          BY <4>1
        <5>2. q # r
          BY <1>1, <1>4, <5>1 DEF Named, RowsLeft, RevisionsInv
        <5> QED
          BY <2>2, <5>1, <5>2 DEF Named
      <4>2. CASE ~(\E q \in DOMAIN revision : Named(q, f))
        <5>1. PICK v \in Servants : \/ /\ duty[v].at = "name"
                                       /\ \E q \in duty[v].on : f = <<q, duty[v].file>>
                                    \/ duty[v].at = "remove" /\ f \in duty[v].files
          BY <3>2, <4>2 DEF NothingLeft, RevisionsInv
        <5> QED
          BY <2>9, <5>1
      <4> QED
        BY <4>1, <4>2
    <3> QED
      BY <1>1, <2>1, <3>1, <3>2 DEF NothingLeft
  <2> QED
    BY <2>5, <2>6, <2>8, <2>10, <2>11
<1> QED
  BY <1>5, <1>8, <1>9

\* A file of before moves to the storage.
LEMMA GetKept == ASSUME RevisionsInv, GetRevision PROVE RevisionsInv'
<1>1. PICK r \in DOMAIN revision :
        /\ Reachable(r) /\ <<r, revision[r]>> \notin storage
        /\ storage' = storage \cup {<<r, revision[r]>>} /\ legacy' = legacy \ {<<r, revision[r]>>}
        /\ tangled' = (tangled \/ Replaced({r}))
  BY DEF GetRevision
<1>2. UNCHANGED <<revision, uploads, hasDocument, duty, cleaner, kept, ruined, failed>>
  BY DEF GetRevision
<1>3. RevisionsTyped'
  BY <1>1, <1>2 DEF RevisionsInv, RevisionsTyped
<1> SUFFICES ASSUME ~tangled, \A w \in Servants : duty[w].at = "blank" => r \notin duty[w].on
             PROVE  (Alone /\ RowsLeft /\ CleanerKnows /\ NamedThere /\ NothingLeft)'
  BY <1>1, <1>3 DEF RevisionsInv, Replaced
<1>4. Alone'
  BY <1>2 DEF Alone, Replacing, RevisionsInv
<1>5. NoDuty.at = "none"
  BY NoDutyForms
<1>6. RowsLeft'
  BY <1>1, <1>2, <1>5 DEF RowsLeft, RevisionsInv
<1>7. CleanerKnows'
  BY <1>2 DEF CleanerKnows, Cleaning, Named, RevisionsInv
<1>8. NamedThere'
  BY <1>1, <1>2 DEF NamedThere, Reachable, RevisionsInv
<1>9. revision[r] # NoFile
  <2>1. <<r, revision[r]>> \in legacy
    BY <1>1 DEF Reachable
  <2>2. <<r, revision[r]>>[2] # NoFile
    BY <2>1 DEF RevisionsInv, RevisionsTyped
  <2> QED
    BY <2>2
<1>10. Named(r, <<r, revision[r]>>)
  BY <1>9 DEF Named
<1>11. NothingLeft'
  BY <1>1, <1>2, <1>10 DEF NothingLeft, Named, RevisionsInv
<1> QED
  BY <1>4, <1>6, <1>7, <1>8, <1>11

LEMMA FilesNamed ==
    ASSUME NEW rs \in SUBSET DOMAIN revision
    PROVE  \A f : f \in FilesOf(rs) <=> \E r \in rs : Named(r, f)
BY DEF FilesOf, Named

\* Rows go, and their files are to go.
LEMMA DeleteKept == ASSUME RevisionsInv, NEW w \in Servants, DeleteRevisions(w) PROVE RevisionsInv'
<1>1. PICK rs \in {{r} : r \in DOMAIN revision} \cup {DOMAIN revision} :
        /\ revision' = [r \in DOMAIN revision \ rs |-> revision[r]]
        /\ \/ hasDocument' = hasDocument /\ Cardinality(rs) = 1
           \/ hasDocument /\ hasDocument' = FALSE /\ rs = DOMAIN revision
        /\ Go(w, [at |-> "remove", files |-> FilesOf(rs)])
        /\ tangled' = (tangled \/ Replaced(rs))
  BY DEF DeleteRevisions
<1>2. duty[w] = NoDuty /\ UNCHANGED <<uploads, storage, legacy, cleaner, kept, ruined, failed>>
  BY DEF DeleteRevisions
<1> DEFINE x == [at |-> "remove", files |-> FilesOf(rs)]
<1>3. /\ rs \in SUBSET DOMAIN revision /\ DOMAIN revision \subseteq 1..uploads /\ uploads \in Nat
      /\ rs \in SUBSET (1..uploads)
  BY <1>1 DEF RevisionsInv, RevisionsTyped
<1>4. \A f \in FilesOf(rs) : f[1] \in rs /\ f[1] \in 1..uploads /\ revision[f[1]] # NoFile
  BY <1>3, FilesNamed DEF Named
<1>5. /\ x.at = "remove" /\ x.files = FilesOf(rs) /\ x # NoDuty
      /\ DutyFits(x, uploads') /\ NoDuty.at = "none"
  BY <1>2, <1>3, <1>4 DEF DutyFits, NoDuty
<1> HIDE DEF x
<1>6. /\ duty' = [v \in Servants |-> duty'[v]] /\ \A v \in Servants : DutyFits(duty'[v], uploads')
      /\ duty'[w] = x /\ \A v \in Servants \ {w} : duty'[v] = duty[v]
  BY <1>1, <1>2, <1>3, <1>5, GoesOne DEF RevisionsInv, x
<1>7. /\ DOMAIN revision' = DOMAIN revision \ rs
      /\ \A r \in DOMAIN revision' : revision'[r] = revision[r]
      /\ revision' = [r \in DOMAIN revision' |-> revision'[r]]
  BY <1>1
<1>8. RevisionsTyped'
  <2>1. hasDocument' \/ DOMAIN revision' = {}
    BY <1>1, <1>7 DEF RevisionsInv, RevisionsTyped
  <2> QED
    BY <1>2, <1>6, <1>7, <2>1 DEF RevisionsInv, RevisionsTyped
<1> SUFFICES ASSUME ~tangled, ~Replaced(rs)
             PROVE  (Alone /\ RowsLeft /\ CleanerKnows /\ NamedThere /\ NothingLeft)'
  BY <1>1, <1>8 DEF RevisionsInv
<1>9. ASSUME NEW v \in Servants \ {w}, duty[v].at \in Replacing, NEW f \in FilesOf(rs)
      PROVE  f[1] \notin duty[v].on
  <2>1. CASE duty[v].at = "blank"
    BY <1>4, <2>1 DEF Replaced
  <2>2. CASE duty[v].at \in {"file", "name"}
    BY <1>3, <1>4, <2>2 DEF RowsLeft, RevisionsInv
  <2> QED
    BY <1>9, <2>1, <2>2 DEF Replacing
<1>10. Alone'
  BY <1>5, <1>6, <1>9 DEF Alone, Replacing, RevisionsInv
<1>11. RowsLeft'
  BY <1>2, <1>4, <1>5, <1>6, <1>7 DEF RowsLeft, RevisionsInv
<1>12. \A r, f : Named(r, f)' => Named(r, f)
  BY <1>7 DEF Named
<1>13. CleanerKnows'
  BY <1>2, <1>5, <1>6, <1>12 DEF CleanerKnows, Cleaning, RevisionsInv
<1>14. \A v \in Servants : duty[v].at \in {"blank", "file", "name", "remove"} => duty'[v] = duty[v]
  BY <1>2, <1>5, <1>6
<1>15. NamedThere'
  BY <1>2, <1>7, <1>14 DEF NamedThere, Reachable, RevisionsInv
<1>16. NothingLeft'
  <2>1. ASSUME ~failed, NEW q \in kept \cap DOMAIN revision'
        PROVE  \/ revision'[q] # NoFile
               \/ \E v \in Servants : duty'[v].at \in {"file", "name"} /\ q \in duty'[v].on
    BY <1>7, <1>14, <2>1 DEF NothingLeft, RevisionsInv
  <2>2. ASSUME ~failed, NEW f \in storage
        PROVE  \/ \E q \in DOMAIN revision' : Named(q, f)'
               \/ \E v \in Servants : \/ /\ duty'[v].at = "name"
                                         /\ \E q \in duty'[v].on : f = <<q, duty'[v].file>>
                                      \/ duty'[v].at = "remove" /\ f \in duty'[v].files
    <3>1. CASE \E q \in DOMAIN revision : Named(q, f)
      <4>1. PICK q \in DOMAIN revision : Named(q, f)
        BY <3>1
      <4>2. CASE q \in rs
        <5>1. f \in x.files
          BY <1>3, <1>5, <4>1, <4>2, FilesNamed
        <5> QED
          BY <1>5, <1>6, <5>1
      <4>3. CASE q \notin rs
        BY <1>7, <4>1, <4>3 DEF Named
      <4> QED
        BY <4>2, <4>3
    <3>2. CASE ~(\E q \in DOMAIN revision : Named(q, f))
      <4>1. PICK v \in Servants : \/ /\ duty[v].at = "name"
                                     /\ \E q \in duty[v].on : f = <<q, duty[v].file>>
                                  \/ duty[v].at = "remove" /\ f \in duty[v].files
        BY <2>2, <3>2 DEF NothingLeft, RevisionsInv
      <4> QED
        BY <1>14, <4>1
    <3> QED
      BY <3>1, <3>2
  <2> QED
    BY <1>2, <2>1, <2>2 DEF NothingLeft
<1> QED
  BY <1>10, <1>11, <1>13, <1>15, <1>16

LEMMA RemoveKept == ASSUME RevisionsInv, NEW w \in Servants, RemoveFiles(w) PROVE RevisionsInv'
<1>1. /\ duty[w].at = "remove" /\ storage' = storage \ duty[w].files /\ Go(w, NoDuty)
      /\ UNCHANGED <<revision, uploads, hasDocument, legacy, cleaner, kept, ruined, failed, tangled>>
  BY DEF RemoveFiles
<1>2. \A v \in Servants : DutyFits(duty[v], uploads)
  BY DEF RevisionsInv, RevisionsTyped
<1>4. /\ duty' = [v \in Servants |-> duty'[v]] /\ \A v \in Servants : DutyFits(duty'[v], uploads')
      /\ duty'[w] = NoDuty /\ \A v \in Servants \ {w} : duty'[v] = duty[v]
  <2>1. uploads \in Nat /\ uploads' = uploads
    BY <1>1 DEF RevisionsInv, RevisionsTyped
  <2>2. DutyFits(NoDuty, uploads')
    BY DEF DutyFits
  <2> QED
    BY <1>1, <2>1, <2>2, GoesOne DEF RevisionsInv
<1>5. RevisionsTyped'
  BY <1>1, <1>4 DEF RevisionsInv, RevisionsTyped
<1> SUFFICES ASSUME ~tangled
             PROVE  (Alone /\ RowsLeft /\ CleanerKnows /\ NamedThere /\ NothingLeft)'
  BY <1>1, <1>5 DEF RevisionsInv
<1>6. NoDuty.at = "none"
  BY NoDutyForms
<1>7. Alone'
  BY <1>4, <1>6 DEF Alone, Replacing, RevisionsInv
<1>8. RowsLeft'
  <2>1. ASSUME NEW v \in Servants \ {w}, duty[v].at = "name", NEW q \in duty[v].on
        PROVE  <<q, duty[v].file>> \in storage'
    <3>1. \A f \in duty[w].files : f[1] # q
      BY <1>1, <2>1 DEF Alone, Replacing, RevisionsInv
    <3>2. <<q, duty[v].file>>[1] = q
      OBVIOUS
    <3>3. <<q, duty[v].file>> \notin duty[w].files
      BY <3>1, <3>2
    <3> QED
      BY <1>1, <2>1, <3>3 DEF RowsLeft, RevisionsInv
  <2> QED
    BY <1>1, <1>4, <1>6, <2>1 DEF RowsLeft, RevisionsInv
<1>9. CleanerKnows'
  BY <1>1, <1>4, <1>6 DEF CleanerKnows, Cleaning, Named, RevisionsInv
<1>10. \A v \in Servants : duty[v].at \in {"blank", "file", "name"} => duty'[v] = duty[v]
  BY <1>1, <1>4
<1>11. \A r \in DOMAIN revision : <<r, revision[r]>> \notin duty[w].files
  <2>1. ASSUME NEW r \in DOMAIN revision PROVE <<r, revision[r]>> \notin duty[w].files
    <3>1. \A f \in duty[w].files : f[1] # r
      BY <1>1 DEF RowsLeft, RevisionsInv
    <3>2. <<r, revision[r]>>[1] = r
      OBVIOUS
    <3> QED
      BY <3>1, <3>2
  <2> QED
    BY <2>1
<1>12. NamedThere'
  BY <1>1, <1>10, <1>11 DEF NamedThere, Reachable, RevisionsInv
<1>13. NothingLeft'
  <2>1. ASSUME ~failed, NEW f \in storage'
        PROVE  \/ \E q \in DOMAIN revision : Named(q, f)
               \/ \E v \in Servants : \/ /\ duty'[v].at = "name"
                                         /\ \E q \in duty'[v].on : f = <<q, duty'[v].file>>
                                      \/ duty'[v].at = "remove" /\ f \in duty'[v].files
    <3>1. f \in storage /\ f \notin duty[w].files
      BY <1>1, <2>1
    <3>2. CASE \E q \in DOMAIN revision : Named(q, f)
      BY <3>2
    <3>3. CASE ~(\E q \in DOMAIN revision : Named(q, f))
      <4>1. PICK v \in Servants : \/ /\ duty[v].at = "name"
                                     /\ \E q \in duty[v].on : f = <<q, duty[v].file>>
                                  \/ duty[v].at = "remove" /\ f \in duty[v].files
        BY <2>1, <3>1, <3>3 DEF NothingLeft, RevisionsInv
      <4>2. v # w
        BY <1>1, <3>1, <4>1
      <4> QED
        BY <1>4, <4>1, <4>2
    <3> QED
      BY <3>2, <3>3
  <2> QED
    BY <1>1, <1>10, <2>1 DEF NothingLeft, Named, RevisionsInv
<1> QED
  BY <1>7, <1>8, <1>9, <1>12, <1>13

-----------------------------------------------------------------------------
\* The command goes on; what it may take from the storage no row names.
LEMMA CleanerKept ==
    ASSUME RevisionsInv, UNCHANGED <<revision, uploads, hasDocument, duty, kept, ruined, failed>>,
           tangled => tangled', storage' \subseteq storage, legacy' \subseteq legacy,
           \A f : f \in storage /\ f \notin storage' => cleaner.at = "listed" /\ f \in cleaner.files,
           \A f : f \in legacy /\ f \notin legacy' => cleaner.at = "listed" /\ f \in cleaner.files,
           cleaner'.at = "listed" => cleaner' = [at |-> "listed", files |-> cleaner'.files],
           ~tangled' => CleanerKnows'
    PROVE  RevisionsInv'
<1>1. RevisionsTyped'
  BY DEF RevisionsInv, RevisionsTyped
<1> SUFFICES ASSUME ~tangled, ~tangled'
             PROVE  (Alone /\ RowsLeft /\ CleanerKnows /\ NamedThere /\ NothingLeft)'
  BY <1>1 DEF RevisionsInv
<1>2. Alone'
  BY DEF Alone, RevisionsInv
<1>3. RowsLeft'
  <2>1. ASSUME NEW v \in Servants, duty[v].at = "name" PROVE storage' = storage
    BY <2>1 DEF CleanerKnows, Cleaning, RevisionsInv
  <2> QED
    BY <2>1 DEF RowsLeft, RevisionsInv
<1>4. ASSUME NEW r \in DOMAIN revision, revision[r] # NoFile, <<r, revision[r]>> \in storage \cup legacy
      PROVE  <<r, revision[r]>> \in storage' \cup legacy'
  <2>1. Named(r, <<r, revision[r]>>)
    BY <1>4 DEF Named
  <2> QED
    BY <1>4, <2>1 DEF CleanerKnows, RevisionsInv
<1>5. NamedThere'
  BY <1>4 DEF NamedThere, Reachable, RevisionsInv
<1>6. NothingLeft'
  BY DEF NothingLeft, Named, RevisionsInv
<1> QED
  BY <1>2, <1>3, <1>5, <1>6

LEMMA ReadNamesKept == ASSUME RevisionsInv, NEW then \in {"read", "quarantine"}, ReadNames(then) PROVE RevisionsInv'
<1> DEFINE x == [at |-> then, names |-> FilesOf(DOMAIN revision)]
<1>1. /\ UNCHANGED <<revision, uploads, hasDocument, storage, legacy, duty, kept, ruined, failed>>
      /\ cleaner' = x
      /\ tangled' = (tangled \/ (then = "read" /\ \E w \in Servants : Writes(duty[w])))
  BY DEF ReadNames
<1>2. x.at = then /\ x.names = FilesOf(DOMAIN revision)
  OBVIOUS
<1> HIDE DEF x
<1>3. \A r, f : Named(r, f) => f \in x.names
  BY <1>2, FilesNamed DEF Named
<1>4. ~tangled' => CleanerKnows'
  BY <1>1, <1>2, <1>3 DEF CleanerKnows, Cleaning, Writes, Named
<1> QED
  BY <1>1, <1>2, <1>4, CleanerKept

LEMMA ScanKept == ASSUME RevisionsInv, Scan PROVE RevisionsInv'
<1> DEFINE x == [at |-> "listed", files |-> Orphans(cleaner.names)]
<1>1. /\ UNCHANGED <<revision, uploads, hasDocument, storage, legacy, duty, kept, ruined, failed, tangled>>
      /\ cleaner' = x /\ cleaner.at = "read"
  BY DEF Scan
<1>2. /\ x.at = "listed" /\ x.files = Orphans(cleaner.names)
      /\ x = [at |-> "listed", files |-> x.files]
  OBVIOUS
<1> HIDE DEF x
<1>3. ~tangled' => CleanerKnows'
  BY <1>1, <1>2 DEF CleanerKnows, Cleaning, Orphans, Named, RevisionsInv
<1> QED
  BY <1>1, <1>2, <1>3, CleanerKept

LEMMA MoveAsideKept == ASSUME RevisionsInv, MoveAside PROVE RevisionsInv'
<1>1. /\ cleaner.at = "listed"
      /\ UNCHANGED <<revision, uploads, hasDocument, duty, kept, ruined, failed, tangled>>
  BY DEF MoveAside
<1>2. NoDuty.at = "none"
  BY NoDutyForms
<1>3. CASE cleaner' = NoDuty /\ UNCHANGED <<storage, legacy>>
  <2>1. ~tangled' => CleanerKnows'
    BY <1>2, <1>3 DEF CleanerKnows, Cleaning
  <2> QED
    BY <1>1, <1>2, <1>3, <2>1, CleanerKept
<1>4. ASSUME NEW f \in cleaner.files, storage' = storage \ {f},
             legacy' = (IF f \in storage THEN legacy ELSE legacy \ {f}),
             cleaner' = [cleaner EXCEPT !.files = @ \ {f}]
      PROVE  RevisionsInv'
  <2> DEFINE x == [at |-> "listed", files |-> cleaner.files \ {f}]
  <2>1. cleaner = [at |-> "listed", files |-> cleaner.files]
    BY <1>1 DEF RevisionsInv, RevisionsTyped
  <2>2. cleaner' = x
    BY <1>4, <2>1
  <2>3. /\ x.at = "listed" /\ x.files = cleaner.files \ {f}
        /\ x = [at |-> "listed", files |-> x.files]
    OBVIOUS
  <2> HIDE DEF x
  <2>4. ~tangled' => CleanerKnows'
    BY <1>1, <2>2, <2>3 DEF CleanerKnows, Cleaning, Named, RevisionsInv
  <2>5. /\ storage' \subseteq storage /\ legacy' \subseteq legacy
        /\ \A g : g \in storage /\ g \notin storage' => g \in cleaner.files
        /\ \A g : g \in legacy /\ g \notin legacy' => g \in cleaner.files
    BY <1>4
  <2> QED
    BY <1>1, <2>2, <2>3, <2>4, <2>5, CleanerKept
<1> QED
  BY <1>3, <1>4 DEF MoveAside

LEMMA QuarantineKept ==
    ASSUME RevisionsInv, ListQuarantine \/ DeleteQuarantine
    PROVE  RevisionsInv'
<1>1. /\ UNCHANGED <<revision, uploads, hasDocument, storage, legacy, duty, kept, ruined, failed, tangled>>
      /\ cleaner'.at \in {"confirm", "none"}
  BY NoDutyForms DEF ListQuarantine, DeleteQuarantine
<1>2. ~tangled' => CleanerKnows'
  BY <1>1 DEF CleanerKnows, Cleaning
<1> QED
  BY <1>1, <1>2, CleanerKept

LEMMA RevisionsBegin == RevisionsInit => RevisionsInv
<1> SUFFICES ASSUME RevisionsInit PROVE RevisionsInv
  OBVIOUS
<1>1. /\ revision = [r \in 1..OldRevisions |-> 1] /\ DOMAIN revision = 1..OldRevisions
      /\ uploads = OldRevisions /\ OldRevisions \in Nat /\ hasDocument
      /\ storage = {} /\ legacy = {<<r, 1>> : r \in 1..OldRevisions}
      /\ duty = [w \in Servants |-> NoDuty] /\ cleaner = NoDuty /\ kept = 1..OldRevisions /\ ruined = {}
  BY RevisionsAssumption DEF RevisionsInit
<1>2. NoDuty.at = "none" /\ \A w \in Servants : duty[w] = NoDuty
  BY <1>1, NoDutyForms
<1>3. \A r \in DOMAIN revision : revision[r] = 1 /\ revision[r] # NoFile
  BY <1>1 DEF NoFile
<1> HIDE DEF NoDuty
<1>4. RevisionsTyped
  BY <1>1, <1>2 DEF RevisionsTyped, DutyFits, NoFile
<1>5. Alone /\ RowsLeft /\ CleanerKnows
  BY <1>1, <1>2 DEF Alone, Replacing, RowsLeft, CleanerKnows, Cleaning
<1>6. NamedThere /\ NothingLeft
  BY <1>1, <1>3 DEF NamedThere, NothingLeft, Reachable
<1> QED
  BY <1>4, <1>5, <1>6 DEF RevisionsInv

LEMMA RevisionsStepInv ==
    ASSUME RevisionsInv, [RevisionsNext]_revisionVars
    PROVE  RevisionsInv'
<1>1. ASSUME NEW w \in Servants,
             \/ UploadRevision(w) \/ StoreFile(w) \/ NameFile(w) \/ FailRequest(w)
             \/ UpdateRevision(w) \/ BlankRow(w) \/ DeleteRevisions(w) \/ RemoveFiles(w)
      PROVE  RevisionsInv'
  BY <1>1, UploadKept, StoreKept, NameKept, FailKept, UpdateKept, BlankKept, DeleteKept, RemoveKept
<1>2. ASSUME NEW then \in {"read", "quarantine"}, ReadNames(then) PROVE RevisionsInv'
  BY <1>2, ReadNamesKept
<1>3. CASE GetRevision \/ Scan \/ MoveAside
  BY <1>3, GetKept, ScanKept, MoveAsideKept
<1>4. CASE ListQuarantine \/ DeleteQuarantine
  BY <1>4, QuarantineKept
<1>5. CASE UNCHANGED revisionVars
  <2>1. UNCHANGED <<revision, uploads, hasDocument, storage, legacy, duty, cleaner, kept, ruined, failed,
                    tangled>>
    BY <1>5 DEF revisionVars
  <2>2. RevisionsTyped'
    BY <2>1 DEF RevisionsInv, RevisionsTyped
  <2>3. ~tangled => (Alone /\ RowsLeft /\ CleanerKnows /\ NamedThere /\ NothingLeft)'
    BY <2>1 DEF RevisionsInv, Alone, RowsLeft, CleanerKnows, Cleaning, Named, NamedThere, Reachable,
       NothingLeft
  <2> QED
    BY <2>1, <2>2, <2>3 DEF RevisionsInv
<1> QED
  BY <1>1, <1>2, <1>3, <1>4, <1>5 DEF RevisionsNext

LEMMA RuinedOrNamed ==
    ASSUME NamedThere, NEW r \in kept \cap DOMAIN revision
    PROVE  revision[r] = NoFile \/ Reachable(r) \/ Replaced({r}) \/ r \in ruined
BY DEF NamedThere, Replaced

\* Whatever revisions are made, replaced, moved, deleted and put aside, and in however many
\* requests: unless a file was being written next to the command, or a revision was deleted,
\* moved or replaced again while its row named a file already deleted for its replacement, the
\* file a row names is there but while it is replaced, or for good if that failed in between;
\* and, with no request failed or at work, each revision stored once names its file and no file
\* is left unnamed (upload_revision, update_revision, ensure_revision_file,
\* delete_revision_file, _scan).
THEOREM RevisionsKeptCorrect == RevisionsSpec => []RevisionsKept
<1>1. RevisionsInv => RevisionsKept
  <2> SUFFICES ASSUME RevisionsInv, ~tangled PROVE RevisionsKept
    BY DEF RevisionsKept
  <2>1. NamedThere /\ NothingLeft
    BY DEF RevisionsInv
  <2>2. ASSUME Calm, ~failed
        PROVE  /\ \A r \in kept \cap DOMAIN revision : revision[r] # NoFile
               /\ \A f \in storage : \E r \in DOMAIN revision : Named(r, f)
    <3>1. \A w \in Servants : duty[w].at = "none"
      BY <2>2, NoDutyForms DEF Calm
    <3> QED
      BY <2>1, <2>2, <3>1 DEF NothingLeft
  <2>3. Calm /\ ~failed => storage \subseteq FilesOf(DOMAIN revision)
    BY <2>2, FilesNamed
  <2> QED
    BY <2>1, <2>2, <2>3, RuinedOrNamed DEF RevisionsKept
<1> QED
  BY <1>1, RevisionsBegin, RevisionsStepInv, PTL DEF RevisionsSpec

-----------------------------------------------------------------------------
(* The types of Revisions.                                                 *)

\* The files of the revisions made so far.
FilesMade == (1..uploads) \X (Nat \ {NoFile})

\* What of the types the proofs above do not need.
RevisionsCounted ==
    /\ uploads \in OldRevisions..MaxRevisions /\ changes \in 0..MaxChanges
    /\ hasDocument \in BOOLEAN /\ failed \in BOOLEAN /\ tangled \in BOOLEAN
    /\ \A r \in DOMAIN revision : revision[r] \in Nat
    /\ storage \subseteq FilesMade /\ legacy \subseteq FilesMade
    /\ \A q \in quarantine : q.file \in FilesMade

LEMMA OneMoreChange == ASSUME RevisionsCounted, Changing PROVE changes' \in 0..MaxChanges
BY RevisionsAssumption DEF RevisionsCounted, Changing

LEMMA CountedUploads ==
    ASSUME RevisionsInv, RevisionsCounted, NEW w \in Servants, UploadRevision(w)
    PROVE  RevisionsCounted'
<1>1. uploads' \in OldRevisions..MaxRevisions /\ changes' \in 0..MaxChanges
  BY OneMoreChange, RevisionsAssumption DEF UploadRevision, RevisionsCounted
<1>2. FilesMade \subseteq FilesMade'
  BY RevisionsAssumption DEF FilesMade, UploadRevision, RevisionsCounted
<1>3. \A r \in DOMAIN revision' : revision'[r] \in Nat
  BY DEF UploadRevision, RevisionsCounted, NoFile
<1> QED
  BY <1>1, <1>2, <1>3 DEF UploadRevision, RevisionsCounted

LEMMA CountedRows ==
    ASSUME RevisionsInv, RevisionsInv', RevisionsCounted, NEW w \in Servants,
           \/ StoreFile(w) \/ NameFile(w) \/ FailRequest(w) \/ UpdateRevision(w) \/ BlankRow(w)
           \/ DeleteRevisions(w) \/ RemoveFiles(w)
    PROVE  RevisionsCounted'
<1> USE DEF RevisionsCounted
<1>1. uploads' = uploads /\ FilesMade' = FilesMade /\ DutyFits(duty[w], uploads)
      /\ DutyFits(duty'[w], uploads) /\ DOMAIN duty = Servants
  BY DEF StoreFile, NameFile, FailRequest, UpdateRevision, BlankRow, DeleteRevisions, RemoveFiles,
         FilesMade, RevisionsInv, RevisionsTyped
<1>2. CASE StoreFile(w)
  <2>1. PICK r \in duty[w].on, n \in 1..(Cardinality(storage) + 1) :
            storage' = storage \cup {<<r, n>>} /\ Go(w, [at |-> "name", on |-> {r}, file |-> n])
    BY <1>2 DEF StoreFile
  <2>2. duty'[w] = [at |-> "name", on |-> {r}, file |-> n]
    BY <1>1, <2>1 DEF Go
  <2>3. <<r, n>> \in FilesMade
    BY <1>1, <2>2, DutyForms DEF FilesMade, StoreFile, NoFile
  <2> QED
    BY <1>1, <1>2, <2>1, <2>3 DEF StoreFile
<1>3. CASE NameFile(w)
  <2>1. duty[w].file \in Nat
    BY <1>1, <1>3, DutyForms DEF NameFile
  <2> QED
    BY <1>1, <1>3, <2>1 DEF NameFile
<1>4. CASE FailRequest(w)
  BY <1>1, <1>4 DEF FailRequest
<1>5. CASE UpdateRevision(w)
  BY <1>1, <1>5, OneMoreChange DEF UpdateRevision
<1>6. CASE BlankRow(w)
  <2>1. CASE hasDocument
    <3>1. revision' = [r \in DOMAIN revision \cup duty[w].on |->
                          IF r \in duty[w].on THEN NoFile ELSE revision[r]]
      BY <1>6, <2>1 DEF BlankRow
    <3>2. \A r \in DOMAIN revision' : revision'[r] \in Nat
      BY <3>1 DEF NoFile
    <3> QED
      BY <1>1, <1>6, <2>1, <3>2 DEF BlankRow
  <2>2. CASE ~hasDocument
    BY <1>1, <1>6, <2>2 DEF BlankRow
  <2> QED
    BY <2>1, <2>2
<1>7. CASE DeleteRevisions(w)
  BY <1>1, <1>7, OneMoreChange DEF DeleteRevisions
<1>8. CASE RemoveFiles(w)
  BY <1>1, <1>8 DEF RemoveFiles
<1> QED
  BY <1>2, <1>3, <1>4, <1>5, <1>6, <1>7, <1>8
  
LEMMA CountedFiles ==
    ASSUME RevisionsCounted,
           \/ GetRevision \/ Scan \/ MoveAside \/ ListQuarantine \/ DeleteQuarantine
           \/ \E then \in {"read", "quarantine"} : ReadNames(then)
    PROVE  RevisionsCounted'
<1> USE DEF RevisionsCounted
<1>1. uploads' = uploads /\ FilesMade' = FilesMade /\ revision' = revision
  BY DEF GetRevision, Scan, MoveAside, ListQuarantine, DeleteQuarantine, ReadNames, FilesMade
<1>2. CASE GetRevision
  BY <1>1, <1>2 DEF GetRevision, Reachable
<1>3. CASE Scan \/ ListQuarantine \/ DeleteQuarantine
  BY <1>1, <1>3 DEF Scan, ListQuarantine, DeleteQuarantine
<1>4. CASE MoveAside
  <2>1. storage' \subseteq FilesMade /\ legacy' \subseteq FilesMade
    BY <1>4 DEF MoveAside
  <2>2. \A q \in quarantine' : q.file \in FilesMade
    <3>1. \/ quarantine' = quarantine
          \/ \E f \in storage \cup legacy : \E n : quarantine' = quarantine \cup {[file |-> f, renamed |-> n]}
      BY <1>4 DEF MoveAside
    <3> QED
      BY <3>1
  <2> QED
    BY <1>1, <1>4, <2>1, <2>2 DEF MoveAside
<1>5. ASSUME NEW then \in {"read", "quarantine"}, ReadNames(then) PROVE RevisionsCounted'
  BY <1>1, <1>5, OneMoreChange DEF ReadNames
<1> QED
  BY <1>2, <1>3, <1>4, <1>5

\* Rows and files are of revisions that were made, and none has the number that stands for no
\* file (upload_revision, ensure_revision_file, media_cleaner's _scan).
THEOREM RevisionsTypeCorrect == RevisionsSpec => []RevisionsTypeOK
<1>1. RevisionsInit => RevisionsCounted
  <2> SUFFICES ASSUME RevisionsInit PROVE RevisionsCounted
    OBVIOUS
  <2>1. legacy \subseteq FilesMade /\ storage \subseteq FilesMade
    BY RevisionsAssumption DEF RevisionsInit, FilesMade, NoFile
  <2>2. uploads \in OldRevisions..MaxRevisions /\ changes \in 0..MaxChanges
    BY RevisionsAssumption DEF RevisionsInit
  <2>3. \A r \in DOMAIN revision : revision[r] \in Nat
    BY DEF RevisionsInit
  <2> QED
    BY <2>1, <2>2, <2>3 DEF RevisionsInit, RevisionsCounted
<1>2. RevisionsInv /\ RevisionsInv' /\ RevisionsCounted /\ [RevisionsNext]_revisionVars
          => RevisionsCounted'
  <2> SUFFICES ASSUME RevisionsInv, RevisionsInv', RevisionsCounted, [RevisionsNext]_revisionVars
               PROVE  RevisionsCounted'
    OBVIOUS
  <2>1. CASE RevisionsNext
    BY <2>1, CountedUploads, CountedRows, CountedFiles DEF RevisionsNext
  <2>2. CASE UNCHANGED revisionVars
    BY <2>2 DEF revisionVars, RevisionsCounted, FilesMade
  <2> QED
    BY <2>1, <2>2
<1>3. RevisionsInv /\ RevisionsCounted => RevisionsTypeOK
  BY DEF RevisionsInv, RevisionsTyped, RevisionsCounted, FilesMade, RevisionsTypeOK
<1> QED
  BY <1>1, <1>2, <1>3, RevisionsBegin, RevisionsStepInv, PTL DEF RevisionsSpec

-----------------------------------------------------------------------------
(* Editing without a websocket.                                            *)

WholeRow == [init : BOOLEAN, text : SUBSET Nat, version : Nat, diffs : Seq(Nat)]
OpenText == [open : BOOLEAN, text : SUBSET Nat, version : Nat, own : Nat]
EditorWork == {NotAtWork} \cup [at : {"load", "save", "upgrade"}, read : WholeRow]
            \cup [at : {"import"}, read : WholeRow, edit : Nat]

DirectTyped ==
    /\ row \in WholeRow /\ saves \in Nat
    /\ editor \in [Editors -> OpenText] /\ busy \in [Editors -> EditorWork]
    /\ stored \subseteq Nat /\ crossed \in BOOLEAN

\* A save is based on the version of the row that it has read.
SavesBased == \A e \in Editors :
    busy[e].at = "save" => editor[e].open /\ busy[e].read.version = editor[e].version

\* The last n of the diffs kept.
Recent(diffs, n) == {diffs[k] : k \in {i \in 1..Len(diffs) : i > Len(diffs) - n}}

\* An editor has the text of the row but for the last diffs, one for each version it lacks
\* at most, if so many are kept.
InReach(x, r) ==
    /\ x.version <= r.version
    /\ x.version + Len(r.diffs) >= r.version =>
          x.text \cup Recent(r.diffs, r.version - x.version) = r.text

\* A document without a text has no edits and nobody has it open.
NotMadeYet == ~row.init =>
    row.text = {} /\ row.diffs = <<>> /\ stored = {} /\ \A e \in Editors : ~editor[e].open

EditorsInv ==
    /\ DirectTyped /\ SavesBased
    /\ ~crossed =>
        /\ NotMadeYet
        /\ stored \subseteq row.text /\ \A k \in 1..Len(row.diffs) : row.diffs[k] \in row.text
        /\ \A e \in Editors : editor[e].open => InReach(editor[e], row)

\* What the last diffs are.
LEMMA LastOf ==
    ASSUME NEW s \in Seq(Nat), NEW n \in Nat
    PROVE  /\ Last(s, n) \in Seq(Nat)
           /\ n <= Len(s) => /\ Len(Last(s, n)) = n
                             /\ \A i \in 1..n : Last(s, n)[i] = s[Len(s) - n + i]
           /\ n >= Len(s) => Last(s, n) = s
<1>1. Len(s) \in Nat
  OBVIOUS
<1>2. CASE n < Len(s)
  <2> DEFINE m == Len(s) - n + 1
  <2>1. Last(s, n) = SubSeq(s, m, Len(s))
    BY <1>1, <1>2 DEF Last
  <2>2. m \in Int /\ m - 1 \in Nat /\ Len(s) \in Int /\ n = Len(s) - m + 1
    BY <1>1, <1>2
  <2>3. \A i \in m..Len(s) : s[i] \in Nat
    BY <1>1, <2>2
  <2> HIDE DEF m
  <2>4. /\ SubSeq(s, m, Len(s)) \in Seq(Nat)
        /\ Len(SubSeq(s, m, Len(s))) = IF m <= Len(s) THEN Len(s) - m + 1 ELSE 0
        /\ \A i \in 1..Len(s) - m + 1 : SubSeq(s, m, Len(s))[i] = s[m + i - 1]
    BY <2>2, <2>3, SubSeqProperties
  <2>5. Len(Last(s, n)) = n
    BY <1>1, <2>1, <2>2, <2>4
  <2>6. ASSUME NEW i \in 1..n PROVE Last(s, n)[i] = s[Len(s) - n + i]
    <3>1. i \in 1..Len(s) - m + 1 /\ m + i - 1 = Len(s) - n + i
      BY <1>1, <2>2
    <3> QED
      BY <2>1, <2>4, <3>1
  <2>7. Last(s, n) \in Seq(Nat) /\ ~(n >= Len(s))
    BY <1>1, <1>2, <2>1, <2>4
  <2> QED
    BY <2>5, <2>6, <2>7
<1>3. CASE n >= Len(s)
  <2>1. (IF Len(s) > n THEN Len(s) - n + 1 ELSE 1) = 1
    BY <1>1, <1>3
  <2>2. Last(s, n) = SubSeq(s, 1, Len(s))
    BY <2>1 DEF Last
  <2>3. SubSeq(s, 1, Len(s)) = s
    BY <1>1
  <2>4. Last(s, n) = s
    BY <2>2, <2>3
  <2>5. ASSUME n <= Len(s)
        PROVE  Len(Last(s, n)) = n /\ \A i \in 1..n : Last(s, n)[i] = s[Len(s) - n + i]
    <3>1. Len(s) = n
      BY <1>1, <1>3, <2>5
    <3>2. \A i \in 1..n : i = Len(s) - n + i
      BY <3>1
    <3> QED
      BY <2>4, <3>1, <3>2
  <2> QED
    BY <2>4, <2>5
<1> QED
  BY <1>1, <1>2, <1>3

LEMMA RecentOnes ==
    ASSUME NEW s \in Seq(Nat), NEW n \in Nat
    PROVE  /\ \A x : x \in Recent(s, n) <=> \E i \in 1..Len(s) : i > Len(s) - n /\ x = s[i]
           /\ Recent(s, 0) = {}
           /\ n <= Len(s) => Recent(s, n) = {Last(s, n)[i] : i \in 1..Len(Last(s, n))}
<1>1. Len(s) \in Nat
  OBVIOUS
<1>2. \A x : x \in Recent(s, n) <=> \E i \in 1..Len(s) : i > Len(s) - n /\ x = s[i]
  BY DEF Recent
<1>3. Recent(s, 0) = {}
  BY <1>1 DEF Recent
<1>4. ASSUME n <= Len(s) PROVE Recent(s, n) = {Last(s, n)[i] : i \in 1..Len(Last(s, n))}
  <2>1. Len(Last(s, n)) = n /\ \A i \in 1..n : Last(s, n)[i] = s[Len(s) - n + i]
    BY <1>4, LastOf
  <2>2. ASSUME NEW i \in 1..Len(s), i > Len(s) - n PROVE \E j \in 1..n : s[i] = Last(s, n)[j]
    <3>1. i - (Len(s) - n) \in 1..n /\ Len(s) - n + (i - (Len(s) - n)) = i
      BY <1>1, <1>4, <2>2
    <3> QED
      BY <2>1, <3>1
  <2>3. ASSUME NEW j \in 1..n PROVE Last(s, n)[j] \in Recent(s, n)
    <3>1. Len(s) - n + j \in 1..Len(s) /\ Len(s) - n + j > Len(s) - n
      BY <1>1, <1>4
    <3> QED
      BY <1>2, <2>1, <3>1
  <2>4. ASSUME NEW x \in Recent(s, n) PROVE \E j \in 1..n : x = Last(s, n)[j]
    <3>1. PICK i \in 1..Len(s) : i > Len(s) - n /\ x = s[i]
      BY <1>2
    <3> QED
      BY <2>2, <3>1
  <2>5. \A x : x \in Recent(s, n) <=> x \in {Last(s, n)[i] : i \in 1..n}
    BY <2>3, <2>4
  <2> QED
    BY <2>1, <2>5
<1> QED
  BY <1>2, <1>3, <1>4

\* One diff more, and the oldest may go.
Longer(s, x, h) == Last(Append(s, x), h)

\* The list and the diff, without the first d.
LongerFrom(d, s, x, h) ==
    /\ Len(Longer(s, x, h)) + d = Len(s) + 1 /\ Len(Longer(s, x, h)) >= 1
    /\ \A i \in 1..Len(Longer(s, x, h)) : Longer(s, x, h)[i] = Append(s, x)[d + i]

LEMMA LongerIs ==
    ASSUME NEW s, s \in Seq(Nat), NEW x, x \in Nat, NEW h, h \in Nat \ {0}
    PROVE  /\ Longer(s, x, h) \in Seq(Nat) /\ Len(Longer(s, x, h)) \in Nat
           /\ \E d \in Nat : LongerFrom(d, s, x, h)
<1> DEFINE more == Append(s, x)
           new == Longer(s, x, h)
<1>1. /\ more \in Seq(Nat) /\ Len(more) = Len(s) + 1 /\ Len(s) \in Nat
      /\ more[Len(s) + 1] = x /\ \A i \in 1..Len(s) : more[i] = s[i]
  OBVIOUS
<1>0. new = Last(more, h)
  BY DEF Longer
<1>9. h \in Nat /\ h >= 1
  OBVIOUS
<1> HIDE DEF more, new
<1>2. /\ new \in Seq(Nat)
      /\ h <= Len(more) => Len(new) = h /\ \A i \in 1..h : new[i] = more[Len(more) - h + i]
      /\ h >= Len(more) => new = more
  <2>1. /\ Last(more, h) \in Seq(Nat)
        /\ h <= Len(more) => /\ Len(Last(more, h)) = h
                             /\ \A i \in 1..h : Last(more, h)[i] = more[Len(more) - h + i]
        /\ h >= Len(more) => Last(more, h) = more
    BY <1>1, <1>9, LastOf
  <2> QED
    BY <1>0, <2>1
<1>3. PICK d \in Nat : /\ Len(new) + d = Len(more) /\ Len(new) >= 1
                       /\ \A i \in 1..Len(new) : new[i] = more[d + i]
  <2>1. CASE h <= Len(more)
    <3> DEFINE e == Len(more) - h
    <3>1. e \in Nat /\ h + e = Len(more) /\ h >= 1
      BY <1>1, <2>1
    <3>2. Len(new) = h /\ \A i \in 1..h : new[i] = more[e + i]
      BY <1>2, <2>1
    <3> HIDE DEF e
    <3> QED
      BY <3>1, <3>2
  <2>2. CASE h >= Len(more)
    <3>1. Len(more) \in Nat /\ Len(more) >= 1 /\ Len(more) + 0 = Len(more) /\ new = more
      BY <1>1, <1>2, <2>2
    <3>2. \A i \in 1..Len(more) : more[i] = more[0 + i]
      BY <3>1
    <3> QED
      BY <3>1, <3>2
  <2> QED
    BY <1>1, <2>1, <2>2
<1>7. Len(new) \in Nat /\ Len(s) \in Nat /\ Len(new) + d = Len(s) + 1 /\ Len(new) >= 1
  BY <1>1, <1>2, <1>3
<1> QED
  BY <1>1, <1>2, <1>3, <1>7 DEF new, more, LongerFrom

\* Every entry of new is x or an entry of s.
EntriesOf(new, s, x) ==
    \A i \in 1..Len(new) : new[i] = x \/ \E j \in 1..Len(s) : new[i] = s[j]

LEMMA LongerEntries ==
    ASSUME NEW s, s \in Seq(Nat), NEW x, x \in Nat, NEW h, h \in Nat \ {0}
    PROVE  EntriesOf(Longer(s, x, h), s, x)
<1> SUFFICES ASSUME NEW i \in 1..Len(Longer(s, x, h))
             PROVE  Longer(s, x, h)[i] = x \/ \E j \in 1..Len(s) : Longer(s, x, h)[i] = s[j]
    BY DEF EntriesOf
<1>0. PICK d \in Nat : LongerFrom(d, s, x, h)
  BY LongerIs
<1>1. /\ Len(Longer(s, x, h)) + d = Len(s) + 1 /\ Len(Longer(s, x, h)) >= 1
      /\ \A j \in 1..Len(Longer(s, x, h)) : Longer(s, x, h)[j] = Append(s, x)[d + j]
  BY <1>0 DEF LongerFrom
<1>2. Len(s) \in Nat /\ Append(s, x)[Len(s) + 1] = x /\ \A j \in 1..Len(s) : Append(s, x)[j] = s[j]
  OBVIOUS
<1>3. Len(Longer(s, x, h)) \in Nat
  BY LongerIs
<1>4. d + i = Len(s) + 1 \/ d + i \in 1..Len(s)
  <2>1. PICK m, n : m = Len(Longer(s, x, h)) /\ n = Len(s)
    OBVIOUS
  <2>2. m \in Nat /\ n \in Nat /\ m + d = n + 1 /\ i \in 1..m
    BY <1>1, <1>2, <1>3, <2>1
  <2>3. d + i = n + 1 \/ d + i \in 1..n
    BY <2>2
  <2> QED
    BY <2>1, <2>3
<1> QED
  BY <1>1, <1>2, <1>4

LEMMA LongerRecent ==
    ASSUME NEW s, s \in Seq(Nat), NEW x, x \in Nat, NEW h, h \in Nat \ {0},
           NEW n \in Nat, n + 1 <= Len(Longer(s, x, h))
    PROVE  /\ n <= Len(s)
           /\ \A y : y \in Recent(Longer(s, x, h), n + 1) <=> y \in Recent(s, n) \/ y = x
<1> DEFINE new == Longer(s, x, h)
           more == Append(s, x)
<1>0. PICK d \in Nat : LongerFrom(d, s, x, h)
  BY LongerIs
<1>1. /\ Len(new) + d = Len(s) + 1 /\ Len(new) >= 1
      /\ \A j \in 1..Len(new) : new[j] = more[d + j]
  BY <1>0 DEF LongerFrom
<1>2. Len(s) \in Nat /\ more[Len(s) + 1] = x /\ \A j \in 1..Len(s) : more[j] = s[j]
  OBVIOUS
<1>3. new \in Seq(Nat) /\ Len(new) \in Nat /\ n + 1 <= Len(new)
  BY LongerIs
<1> HIDE DEF new, more
<1>4. n <= Len(s) /\ n + 1 \in Nat
  BY <1>1, <1>2, <1>3
<1>5. \A y : y \in Recent(new, n + 1)
             <=> \E i \in 1..Len(new) : i > Len(new) - (n + 1) /\ y = new[i]
  BY <1>3, <1>4, RecentOnes
<1>6. \A y : y \in Recent(s, n) <=> \E i \in 1..Len(s) : i > Len(s) - n /\ y = s[i]
  BY RecentOnes
<1>7. ASSUME NEW i \in 1..Len(new), i > Len(new) - (n + 1)
      PROVE  new[i] = x \/ new[i] \in Recent(s, n)
  <2>1. d + i = Len(s) + 1 \/ (d + i \in 1..Len(s) /\ d + i > Len(s) - n)
    <3>1. PICK k, m : k = Len(new) /\ m = Len(s)
      OBVIOUS
    <3>2. k \in Nat /\ m \in Nat /\ k + d = m + 1 /\ i \in 1..k /\ i > k - (n + 1)
      BY <1>1, <1>2, <1>3, <1>7, <3>1
    <3>3. d + i = m + 1 \/ (d + i \in 1..m /\ d + i > m - n)
      BY <3>2
    <3> QED
      BY <3>1, <3>3
  <2>2. CASE d + i = Len(s) + 1
    BY <1>1, <1>2, <2>2
  <2>3. CASE d + i \in 1..Len(s) /\ d + i > Len(s) - n
    <3>1. new[i] = s[d + i]
      BY <1>1, <1>2, <2>3
    <3> QED
      BY <1>6, <2>3, <3>1
  <2> QED
    BY <2>1, <2>2, <2>3
<1>8. ASSUME NEW j \in 1..Len(s), j > Len(s) - n
      PROVE  s[j] \in Recent(new, n + 1)
  <2>1. j - d \in 1..Len(new) /\ j - d > Len(new) - (n + 1) /\ d + (j - d) = j
    <3>1. PICK k, m : k = Len(new) /\ m = Len(s)
      OBVIOUS
    <3>2. /\ k \in Nat /\ m \in Nat /\ k + d = m + 1 /\ j \in 1..m /\ j > m - n
          /\ n + 1 <= k
      BY <1>1, <1>2, <1>3, <1>8, <3>1
    <3>3. j - d \in 1..k /\ j - d > k - (n + 1) /\ d + (j - d) = j
      BY <3>2
    <3> QED
      BY <3>1, <3>3
  <2>2. new[j - d] = s[j]
    BY <1>1, <1>2, <2>1
  <2> QED
    BY <1>5, <2>1, <2>2
<1>9. x \in Recent(new, n + 1)
  <2>1. Len(new) \in 1..Len(new) /\ Len(new) > Len(new) - (n + 1) /\ d + Len(new) = Len(s) + 1
    BY <1>1, <1>2, <1>3
  <2>2. new[Len(new)] = x
    BY <1>1, <1>2, <2>1
  <2> QED
    BY <1>5, <2>1, <2>2
<1>10. \A y : y \in Recent(new, n + 1) <=> y \in Recent(s, n) \/ y = x
  BY <1>5, <1>6, <1>7, <1>8, <1>9
<1> QED
  BY <1>4, <1>10 DEF new

-----------------------------------------------------------------------------
LEMMA ReachFacts ==
    ASSUME NEW r \in WholeRow, NEW x \in OpenText
    PROVE  /\ x.version = r.version /\ InReach(x, r) => x.text = r.text
           /\ x.version = r.version /\ x.text = r.text => InReach(x, r)
<1>1. r.version \in Nat /\ x.version \in Nat /\ r.diffs \in Seq(Nat) /\ Len(r.diffs) \in Nat
  BY DEF WholeRow, OpenText
<1>2. Recent(r.diffs, 0) = {} /\ r.version - r.version = 0
  BY <1>1, RecentOnes
<1>3. ASSUME x.version = r.version, InReach(x, r) PROVE x.text = r.text
  <2>1. x.version + Len(r.diffs) >= r.version
    BY <1>1, <1>3
  <2>2. x.text \cup Recent(r.diffs, r.version - x.version) = r.text
    BY <1>3, <2>1 DEF InReach
  <2> QED
    BY <1>2, <1>3, <2>2
<1>4. ASSUME x.version = r.version, x.text = r.text PROVE InReach(x, r)
  <2>1. x.version <= r.version /\ r.version - x.version = 0
    BY <1>1, <1>4
  <2> QED
    BY <1>2, <1>4, <2>1 DEF InReach
<1> QED
  BY <1>3, <1>4

\* save_doc: the next version, and no diff more.
LEMMA ReachNextVersion ==
    ASSUME NEW r \in WholeRow, NEW x \in OpenText, InReach(x, r),
           \A k \in 1..Len(r.diffs) : r.diffs[k] \in r.text
    PROVE  InReach(x, [r EXCEPT !.version = @ + 1])
<1> DEFINE new == [r EXCEPT !.version = @ + 1]
<1>1. r.version \in Nat /\ x.version \in Nat /\ r.diffs \in Seq(Nat) /\ Len(r.diffs) \in Nat
  BY DEF WholeRow, OpenText
<1>2. new.version = r.version + 1 /\ new.diffs = r.diffs /\ new.text = r.text
  BY DEF WholeRow
<1>3. x.version <= r.version
  BY DEF InReach
<1>4. r.version - x.version \in Nat /\ (r.version + 1) - x.version = (r.version - x.version) + 1
  BY <1>1, <1>3
<1> DEFINE n == r.version - x.version
<1>5. ASSUME x.version + Len(r.diffs) >= r.version + 1
      PROVE  x.text \cup Recent(r.diffs, n + 1) = r.text
  <2>1. x.text \cup Recent(r.diffs, n) = r.text
    BY <1>1, <1>5 DEF InReach
  <2>2. n \in Nat /\ n + 1 \in Nat
    BY <1>4
  <2> HIDE DEF n
  <2>3. /\ \A y : y \in Recent(r.diffs, n)
                  <=> \E i \in 1..Len(r.diffs) : i > Len(r.diffs) - n /\ y = r.diffs[i]
        /\ \A y : y \in Recent(r.diffs, n + 1)
                  <=> \E i \in 1..Len(r.diffs) : i > Len(r.diffs) - (n + 1) /\ y = r.diffs[i]
    BY <1>1, <2>2, RecentOnes
  <2>4. \A i \in 1..Len(r.diffs) : i > Len(r.diffs) - n => i > Len(r.diffs) - (n + 1)
    BY <1>1, <2>2
  <2>5. \A y : y \in Recent(r.diffs, n) => y \in Recent(r.diffs, n + 1)
    BY <2>3, <2>4
  <2>6. \A y : y \in Recent(r.diffs, n + 1) => y \in r.text
    BY <2>3
  <2> QED
    BY <2>1, <2>5, <2>6
<1>6. new.version - x.version = n + 1
  BY <1>2, <1>4
<1> HIDE DEF n, new
<1>7. x.version <= new.version
  BY <1>1, <1>2, <1>3
<1>8. x.version + Len(new.diffs) >= new.version
      => x.text \cup Recent(new.diffs, new.version - x.version) = new.text
  BY <1>2, <1>5, <1>6
<1>9. InReach(x, new)
  BY <1>7, <1>8 DEF InReach
<1> QED
  BY <1>9 DEF new

\* A save: the next version, and one diff more.
LEMMA ReachNextDiff ==
    ASSUME NEW r \in WholeRow, NEW new \in WholeRow, NEW x \in OpenText, InReach(x, r),
           NEW edit, edit \in Nat, NEW h, h \in Nat \ {0},
           new.text = r.text \cup {edit}, new.version = r.version + 1,
           new.diffs = Last(Append(r.diffs, edit), h)
    PROVE  InReach(x, new)
<1>1. r.version \in Nat /\ x.version \in Nat /\ r.diffs \in Seq(Nat) /\ Len(r.diffs) \in Nat
  BY DEF WholeRow, OpenText
<1>2. x.version <= r.version
  BY DEF InReach
<1> DEFINE n == r.version - x.version
<1>3. n \in Nat /\ new.version - x.version = n + 1 /\ x.version + n = r.version
  BY <1>1, <1>2
<1>4. Len(new.diffs) \in Nat
  BY DEF WholeRow
<1> HIDE DEF n
<1>5. n + 1 <= Len(new.diffs)
      => /\ n <= Len(r.diffs)
         /\ \A y : y \in Recent(new.diffs, n + 1) <=> y \in Recent(r.diffs, n) \/ y = edit
  <2>1. new.diffs = Longer(r.diffs, edit, h)
    BY DEF Longer
  <2>2. ASSUME n + 1 <= Len(Longer(r.diffs, edit, h))
        PROVE  /\ n <= Len(r.diffs)
               /\ \A y : y \in Recent(Longer(r.diffs, edit, h), n + 1)
                         <=> y \in Recent(r.diffs, n) \/ y = edit
    BY <1>1, <1>3, <2>2, LongerRecent
  <2> QED
    BY <2>1, <2>2
<1>6. n <= Len(r.diffs) => x.text \cup Recent(r.diffs, n) = r.text
  <2>1. n <= Len(r.diffs) => x.version + Len(r.diffs) >= r.version
    BY <1>1, <1>3
  <2> QED
    BY <2>1 DEF InReach, n
<1>7. x.version + Len(new.diffs) >= new.version => n + 1 <= Len(new.diffs)
  BY <1>1, <1>3, <1>4
<1>8. x.version <= new.version
  BY <1>1, <1>2
<1> QED
  BY <1>3, <1>5, <1>6, <1>7, <1>8 DEF InReach

-----------------------------------------------------------------------------
LEMMA RowFacts ==
    \A r \in WholeRow : /\ r.init \in BOOLEAN /\ r.text \in SUBSET Nat /\ r.version \in Nat
                        /\ r.diffs \in Seq(Nat) /\ Len(r.diffs) \in Nat
  BY DEF WholeRow

LEMMA RowMade ==
    \A i \in BOOLEAN, t \in SUBSET Nat, v \in Nat, d \in Seq(Nat) :
        [init |-> i, text |-> t, version |-> v, diffs |-> d] \in WholeRow
  BY DEF WholeRow

LEMMA OpenTextFacts ==
    \A x \in OpenText : /\ x.open \in BOOLEAN /\ x.text \in SUBSET Nat
                        /\ x.version \in Nat /\ x.own \in Nat
  BY DEF OpenText

LEMMA WorkFacts ==
    ASSUME NEW x \in EditorWork
    PROVE  /\ x.at \in {"load", "save", "upgrade", "import"} => x.read \in WholeRow
           /\ x.at = "import" => x.edit \in Nat
  BY DEF EditorWork, NotAtWork

LEMMA WorkMade ==
    /\ NotAtWork \in EditorWork /\ NotAtWork.at = "no"
    /\ \A r \in WholeRow, a \in {"load", "save", "upgrade"} : [at |-> a, read |-> r] \in EditorWork
    /\ \A r \in WholeRow, i \in Nat : [at |-> "import", read |-> r, edit |-> i] \in EditorWork
  BY DEF EditorWork, NotAtWork

\* One editor and its request go on: what is left to show of the invariant.
LEMMA EditorsStep ==
    ASSUME EditorsInv, NEW e \in Editors,
           editor' \in [Editors -> OpenText], busy' \in [Editors -> EditorWork],
           \A d \in Editors \ {e} : editor'[d] = editor[d] /\ busy'[d] = busy[d],
           row' \in WholeRow, saves' \in Nat, stored' \subseteq Nat, crossed' \in BOOLEAN,
           busy'[e].at = "save" =>
              editor'[e].open /\ busy'[e].read.version = editor'[e].version,
           ~crossed' =>
              /\ ~row'.init => /\ row'.text = {} /\ row'.diffs = <<>> /\ stored' = {}
                               /\ \A d \in Editors : ~editor'[d].open
              /\ stored' \subseteq row'.text
              /\ \A k \in 1..Len(row'.diffs) : row'.diffs[k] \in row'.text
              /\ \A d \in Editors : editor'[d].open => InReach(editor'[d], row')
    PROVE  EditorsInv'
<1>1. DirectTyped'
  BY DEF DirectTyped
<1>2. SavesBased'
  <2>1. ASSUME NEW d \in Editors, busy'[d].at = "save"
        PROVE  editor'[d].open /\ busy'[d].read.version = editor'[d].version
    <3>1. CASE d = e
      BY <2>1, <3>1
    <3>2. CASE d # e
      BY <2>1, <3>2 DEF EditorsInv, SavesBased
    <3> QED
      BY <3>1, <3>2
  <2> QED
    BY <2>1 DEF SavesBased
<1>3. ASSUME ~crossed' PROVE NotMadeYet'
  BY <1>3 DEF NotMadeYet
<1>4. ASSUME ~crossed', NEW d \in Editors, editor'[d].open PROVE InReach(editor[d], row)'
  BY <1>4
<1> QED
  BY <1>1, <1>2, <1>3, <1>4 DEF EditorsInv

\* What the invariant says of a document that nobody crossed at.
LEMMA Untouched ==
    ASSUME EditorsInv, ~crossed
    PROVE  /\ ~row.init => /\ row.text = {} /\ row.diffs = <<>> /\ stored = {}
                           /\ \A d \in Editors : ~editor[d].open
           /\ stored \subseteq row.text
           /\ \A k \in 1..Len(row.diffs) : row.diffs[k] \in row.text
           /\ \A d \in Editors : editor[d].open => InReach(editor[d], row)
  BY DEF EditorsInv, NotMadeYet

LEMMA EditorFacts ==
    ASSUME EditorsInv, NEW e \in Editors
    PROVE  /\ row \in WholeRow /\ saves \in Nat /\ stored \subseteq Nat /\ crossed \in BOOLEAN
           /\ editor \in [Editors -> OpenText] /\ busy \in [Editors -> EditorWork]
           /\ editor[e] \in OpenText /\ busy[e] \in EditorWork
           /\ editor[e].text \in SUBSET Nat /\ editor[e].version \in Nat /\ editor[e].own \in Nat
           /\ busy[e].at \in {"load", "save", "upgrade", "import"} => busy[e].read \in WholeRow
           /\ busy[e].at = "import" => busy[e].edit \in Nat
           /\ busy[e].at = "save" =>
                 editor[e].open /\ busy[e].read.version = editor[e].version
<1>1. DirectTyped /\ SavesBased
  BY DEF EditorsInv
<1>2. editor[e] \in OpenText /\ busy[e] \in EditorWork
  BY <1>1 DEF DirectTyped
<1> QED
  BY <1>1, <1>2, WorkFacts, OpenTextFacts DEF DirectTyped, SavesBased

\* The row is written back as it was but for its init: everybody has what he had.
LEMMA SameRow ==
    \A r, s, x : r.text = s.text /\ r.version = s.version /\ r.diffs = s.diffs
                 => (InReach(x, r) <=> InReach(x, s))
  BY DEF InReach

LEMMA LoadKeeps == ASSUME EditorsInv, NEW e \in Editors, Load(e) PROVE EditorsInv'
<1> USE EditorFacts
<1>1. row' = row /\ saves' = saves /\ stored' = stored /\ crossed' = crossed
  BY DEF Load
<1>2. CASE row.init
  <2>1. editor' = [editor EXCEPT ![e] =
            [@ EXCEPT !.open = TRUE, !.text = row.text, !.version = row.version]] /\ busy' = busy
    BY <1>2 DEF Load, Takes
  <2> DEFINE y == [editor[e] EXCEPT !.open = TRUE, !.text = row.text, !.version = row.version]
  <2>2. y \in OpenText /\ y.text = row.text /\ y.version = row.version
    BY RowFacts DEF OpenText
  <2>3. editor' = [editor EXCEPT ![e] = y]
    BY <2>1
  <2> HIDE DEF y
  <2>4. InReach(y, row)
    BY <2>2, ReachFacts
  <2>5. /\ editor' \in [Editors -> OpenText] /\ editor'[e] = y
        /\ \A d \in Editors \ {e} : editor'[d] = editor[d]
    BY <2>2, <2>3
  <2>6. busy[e].at # "save"
    BY WorkMade DEF Load
  <2>7. ASSUME ~crossed'
        PROVE  /\ stored' \subseteq row'.text
               /\ \A k \in 1..Len(row'.diffs) : row'.diffs[k] \in row'.text
               /\ \A d \in Editors : editor'[d].open => InReach(editor'[d], row')
    BY <1>1, <2>4, <2>5, <2>7, Untouched
  <2> QED
    BY <1>1, <1>2, <2>1, <2>5, <2>6, <2>7, EditorsStep
<1>3. CASE ~row.init
  <2> DEFINE z == [at |-> "load", read |-> row]
  <2>1. editor' = editor /\ busy' = [busy EXCEPT ![e] = z]
    BY <1>3 DEF Load
  <2>2. z \in EditorWork /\ z.at = "load"
    BY WorkMade
  <2> HIDE DEF z
  <2>3. /\ busy' \in [Editors -> EditorWork] /\ busy'[e].at # "save"
        /\ \A d \in Editors \ {e} : busy'[d] = busy[d]
    BY <2>1, <2>2
  <2> QED
    BY <1>1, <2>1, <2>3, Untouched, EditorsStep
<1> QED
  BY <1>2, <1>3

LEMMA LoadWritesKeeps == ASSUME EditorsInv, NEW e \in Editors, LoadWrites(e) PROVE EditorsInv'
<1> USE EditorFacts
<1> DEFINE was == busy[e].read
           new == [was EXCEPT !.init = TRUE]
           y == [editor[e] EXCEPT !.open = TRUE, !.text = new.text, !.version = new.version]
<1>1. /\ row' = new /\ crossed' = (crossed \/ row # was) /\ saves' = saves /\ stored' = stored
      /\ editor' = [editor EXCEPT ![e] = y] /\ busy' = [busy EXCEPT ![e] = NotAtWork]
  BY DEF LoadWrites, Overwrite, Takes
<1>2. was \in WholeRow
  BY DEF LoadWrites
<1>3. /\ new \in WholeRow /\ new.init
      /\ new.text = was.text /\ new.version = was.version /\ new.diffs = was.diffs
  BY <1>2 DEF WholeRow
<1>4. y \in OpenText /\ y.text = new.text /\ y.version = new.version
  BY <1>3, RowFacts DEF OpenText
<1> HIDE DEF was, new, y
<1>5. /\ editor' \in [Editors -> OpenText] /\ editor'[e] = y
      /\ \A d \in Editors \ {e} : editor'[d] = editor[d] /\ busy'[d] = busy[d]
      /\ busy' \in [Editors -> EditorWork] /\ busy'[e].at # "save"
  BY <1>1, <1>4, WorkMade
<1>6. InReach(y, new)
  BY <1>3, <1>4, ReachFacts
<1>7. ASSUME ~crossed'
      PROVE  /\ stored' \subseteq row'.text
             /\ \A k \in 1..Len(row'.diffs) : row'.diffs[k] \in row'.text
             /\ \A d \in Editors : editor'[d].open => InReach(editor'[d], row')
  <2>1. ~crossed /\ row = was
    BY <1>1, <1>7
  <2>2. \A x : InReach(x, row) <=> InReach(x, row')
    BY <1>1, <1>3, <2>1, SameRow
  <2> QED
    BY <1>1, <1>3, <1>5, <1>6, <2>1, <2>2, Untouched
<1> QED
  BY <1>1, <1>3, <1>5, <1>7, EditorsStep

LEMMA CatchUpKeeps == ASSUME EditorsInv, NEW e \in Editors, CatchUp(e) PROVE EditorsInv'
<1> USE EditorFacts
<1> DEFINE v == editor[e].version
           merged == IF ReachesBackTo(v) THEN Merged(e) ELSE row.text
           y == [editor[e] EXCEPT !.version = row.version, !.text = merged]
<1>1. /\ row' = row /\ crossed' = crossed /\ saves' = saves /\ stored' = stored /\ busy' = busy
      /\ editor' = [editor EXCEPT ![e] = y] /\ editor[e].open /\ busy[e] = NotAtWork
      /\ row.version > v
  BY DEF CatchUp, Behind
<1>2. row.version - v \in Nat /\ row.version \in Nat /\ row.diffs \in Seq(Nat)
      /\ Len(row.diffs) \in Nat
  BY <1>1, RowFacts
<1>3. DiffsSince(v) \in Seq(Nat)
  BY <1>2, LastOf DEF DiffsSince
<1>4. Merged(e) = editor[e].text \cup {DiffsSince(v)[k] : k \in 1..Len(DiffsSince(v))}
  BY DEF Merged
<1>5. merged \in SUBSET Nat
  <2>1. Merged(e) \in SUBSET Nat
    BY <1>3, <1>4
  <2> QED
    BY <2>1, RowFacts
<1> HIDE DEF merged
<1>6. y \in OpenText /\ y.text = merged /\ y.version = row.version
  BY <1>2, <1>5 DEF OpenText
<1>7. ASSUME ~crossed PROVE merged = row.text
  <2>1. InReach(editor[e], row)
    BY <1>1, <1>7, Untouched
  <2>2. ASSUME ReachesBackTo(v) PROVE Merged(e) = row.text
    <3>1. row.version - v <= Len(row.diffs) /\ v + Len(row.diffs) >= row.version
      BY <1>2, <2>2 DEF ReachesBackTo
    <3>2. Merged(e) = editor[e].text \cup Recent(row.diffs, row.version - v)
      BY <1>2, <1>4, <3>1, RecentOnes DEF DiffsSince
    <3> QED
      BY <2>1, <3>1, <3>2 DEF InReach
  <2> QED
    BY <2>2 DEF merged
<1> HIDE DEF v, y
<1>8. /\ editor' \in [Editors -> OpenText] /\ editor'[e] = y
      /\ \A d \in Editors \ {e} : editor'[d] = editor[d] /\ busy'[d] = busy[d]
      /\ busy' \in [Editors -> EditorWork] /\ busy'[e].at # "save"
  BY <1>1, <1>6, WorkMade
<1>9. ASSUME ~crossed'
      PROVE  /\ ~row'.init => /\ row'.text = {} /\ row'.diffs = <<>> /\ stored' = {}
                              /\ \A d \in Editors : ~editor'[d].open
             /\ stored' \subseteq row'.text
             /\ \A k \in 1..Len(row'.diffs) : row'.diffs[k] \in row'.text
             /\ \A d \in Editors : editor'[d].open => InReach(editor'[d], row')
  <2>1. ~crossed /\ row.init
    BY <1>1, <1>9, Untouched
  <2>2. InReach(y, row)
    BY <1>6, <1>7, <2>1, ReachFacts
  <2> QED
    BY <1>1, <1>8, <2>1, <2>2, Untouched
<1> QED
  BY <1>1, <1>8, <1>9, EditorsStep

LEMMA BeginDirectSaveKeeps ==
    ASSUME EditorsInv, NEW e \in Editors, BeginDirectSave(e) PROVE EditorsInv'
<1> USE EditorFacts
<1> DEFINE edit == IF editor[e].own = 0 THEN saves + 1 ELSE editor[e].own
           y == [editor[e] EXCEPT !.own = edit]
           z == IF SameVersion(e) THEN [at |-> "save", read |-> row] ELSE NotAtWork
<1>1. /\ row' = row /\ crossed' = crossed /\ saves' = saves + 1 /\ stored' = stored
      /\ editor' = [editor EXCEPT ![e] = y] /\ busy' = [busy EXCEPT ![e] = z]
      /\ editor[e].open
  BY DEF BeginDirectSave
<1>2. edit \in Nat
  OBVIOUS
<1> HIDE DEF edit
<1>3. /\ y \in OpenText /\ y.open
      /\ y.text = editor[e].text /\ y.version = editor[e].version
  BY <1>1, <1>2 DEF OpenText
<1>4. z \in EditorWork /\ (z.at = "save" => z.read.version = y.version)
  <2>1. CASE SameVersion(e)
    <3>1. z = [at |-> "save", read |-> row] /\ row.version = editor[e].version
      BY <2>1 DEF SameVersion
    <3> QED
      BY <1>3, <3>1, WorkMade
  <2>2. CASE ~SameVersion(e)
    BY <2>2, WorkMade
  <2> QED
    BY <2>1, <2>2
<1> HIDE DEF y, z
<1>5. /\ editor' \in [Editors -> OpenText] /\ editor'[e] = y
      /\ busy' \in [Editors -> EditorWork] /\ busy'[e] = z
      /\ \A d \in Editors \ {e} : editor'[d] = editor[d] /\ busy'[d] = busy[d]
  BY <1>1, <1>3, <1>4
<1>6. ASSUME ~crossed'
      PROVE  /\ ~row'.init => /\ row'.text = {} /\ row'.diffs = <<>> /\ stored' = {}
                              /\ \A d \in Editors : ~editor'[d].open
             /\ stored' \subseteq row'.text
             /\ \A k \in 1..Len(row'.diffs) : row'.diffs[k] \in row'.text
             /\ \A d \in Editors : editor'[d].open => InReach(editor'[d], row')
  <2>1. ~crossed /\ row.init
    BY <1>1, <1>6, Untouched
  <2>2. InReach(y, row)
    BY <1>1, <1>3, <2>1, Untouched DEF InReach
  <2> QED
    BY <1>1, <1>5, <2>1, <2>2, Untouched
<1>7. saves' \in Nat
  BY <1>1
<1> QED
  BY <1>1, <1>3, <1>4, <1>5, <1>6, <1>7, EditorsStep

\* What a save leaves in the history: its own change and what was there before.
LEMMA SavedDiffs ==
    ASSUME EditorsInv, NEW e \in Editors, SaveWrites(e)
    PROVE  /\ Longer(busy[e].read.diffs, editor[e].own, DirectHistory) \in Seq(Nat)
           /\ EntriesOf(Longer(busy[e].read.diffs, editor[e].own, DirectHistory),
                      busy[e].read.diffs, editor[e].own)
<1>1. busy[e].read \in WholeRow /\ editor[e].own \in Nat
  BY EditorFacts DEF SaveWrites
<1>2. busy[e].read.diffs \in Seq(Nat)
  BY <1>1, RowFacts
<1>3. DirectHistory \in Nat \ {0}
  BY DirectAssumption
<1>4. Longer(busy[e].read.diffs, editor[e].own, DirectHistory) \in Seq(Nat)
  BY <1>1, <1>2, <1>3, LongerIs
<1>5. EntriesOf(Longer(busy[e].read.diffs, editor[e].own, DirectHistory),
               busy[e].read.diffs, editor[e].own)
  BY <1>1, <1>2, <1>3, LongerEntries, Zenon
<1> QED
  BY <1>4, <1>5

LEMMA SaveWritesKeeps == ASSUME EditorsInv, NEW e \in Editors, SaveWrites(e) PROVE EditorsInv'
<1> USE EditorFacts
<1> DEFINE was == busy[e].read
           edit == editor[e].own
           diffs == Longer(was.diffs, edit, DirectHistory)
           made == [init |-> TRUE, text |-> editor[e].text \cup {edit},
                    version |-> was.version + 1, diffs |-> diffs]
           y == [editor[e] EXCEPT !.text = made.text, !.version = made.version, !.own = 0]
<1>1. /\ row' = made /\ crossed' = (crossed \/ row # was) /\ saves' = saves
      /\ stored' = stored \cup {edit}
      /\ editor' = [editor EXCEPT ![e] = y] /\ busy' = [busy EXCEPT ![e] = NotAtWork]
  BY DEF SaveWrites, Overwrite, Longer
<1>2. was \in WholeRow /\ editor[e].open /\ was.version = editor[e].version /\ edit \in Nat
  BY DEF SaveWrites
<1>3. was.diffs \in Seq(Nat) /\ was.version \in Nat
  BY <1>2, RowFacts
<1>4. /\ diffs \in Seq(Nat)
      /\ \A i \in 1..Len(diffs) :
            diffs[i] = edit \/ \E j \in 1..Len(was.diffs) : diffs[i] = was.diffs[j]
  <2>1. diffs \in Seq(Nat) /\ EntriesOf(diffs, was.diffs, edit)
    BY SavedDiffs, Zenon
  <2> QED
    BY <2>1, Zenon DEF EntriesOf
<1>5. /\ made \in WholeRow /\ made.init /\ made.version = was.version + 1
      /\ made.text = editor[e].text \cup {edit} /\ made.diffs = diffs
  <2>1. editor[e].text \cup {edit} \in SUBSET Nat /\ was.version + 1 \in Nat
    BY <1>2, <1>3
  <2> HIDE DEF diffs, edit, was
  <2> QED
    BY <1>4, <2>1, RowMade
<1>6. /\ y \in OpenText /\ y.text = made.text /\ y.version = made.version
  <2> HIDE DEF made
  <2>1. made.text \in SUBSET Nat /\ made.version \in Nat
    BY <1>5, RowFacts
  <2> QED
    BY <2>1 DEF OpenText
<1>7. made.diffs = Longer(was.diffs, edit, DirectHistory)
  BY <1>5
<1> HIDE DEF was, edit, diffs, made, y
<1>8. /\ editor' \in [Editors -> OpenText] /\ editor'[e] = y
      /\ \A d \in Editors \ {e} : editor'[d] = editor[d] /\ busy'[d] = busy[d]
      /\ busy' \in [Editors -> EditorWork] /\ busy'[e].at # "save"
  BY <1>1, <1>6, WorkMade
<1>9. ASSUME ~crossed'
      PROVE  /\ stored' \subseteq row'.text
             /\ \A k \in 1..Len(row'.diffs) : row'.diffs[k] \in row'.text
             /\ \A d \in Editors : editor'[d].open => InReach(editor'[d], row')
  <2>1. ~crossed /\ row = was
    BY <1>1, <1>9
  <2>2. made.text = was.text \cup {edit}
    BY <1>2, <1>5, <2>1, Untouched, ReachFacts
  <2>3. ASSUME NEW k \in 1..Len(made.diffs) PROVE made.diffs[k] \in made.text
    BY <1>4, <1>5, <2>1, <2>2, Untouched
  <2>4. ASSUME NEW d \in Editors, d # e, editor[d].open PROVE InReach(editor[d], made)
    <3>1. editor[d] \in OpenText /\ InReach(editor[d], was)
      BY <2>1, <2>4, Untouched
    <3> QED
      BY <1>2, <1>5, <1>7, <2>2, <3>1, DirectAssumption, ReachNextDiff DEF Longer
  <2>5. InReach(y, made)
    BY <1>5, <1>6, ReachFacts
  <2>6. stored' \subseteq made.text
    BY <1>1, <2>1, <2>2, Untouched
  <2> QED
    BY <1>1, <1>8, <2>3, <2>4, <2>5, <2>6
<1>10. stored' \subseteq Nat /\ crossed' \in BOOLEAN
  BY <1>1, <1>2
<1> QED
  BY <1>1, <1>5, <1>8, <1>9, <1>10, EditorsStep

\* A request that starts with the row as it is, and changes nothing yet.
LEMMA EditorReads ==
    ASSUME EditorsInv, NEW e \in Editors, NEW z \in EditorWork, z.at # "save",
           busy' = [busy EXCEPT ![e] = z], saves' = saves + 1,
           UNCHANGED <<row, editor, stored, crossed>>
    PROVE  EditorsInv'
<1> USE EditorFacts
<1>1. /\ busy' \in [Editors -> EditorWork] /\ busy'[e].at # "save"
      /\ \A d \in Editors \ {e} : busy'[d] = busy[d]
  OBVIOUS
<1>2. saves' \in Nat
  OBVIOUS
<1> QED
  BY <1>1, <1>2, Untouched, EditorsStep

LEMMA ImportDocKeeps == ASSUME EditorsInv, NEW e \in Editors, ImportDoc(e) PROVE EditorsInv'
<1>1. saves + 1 \in Nat /\ row \in WholeRow
  BY EditorFacts
<1>2. [at |-> "import", read |-> row, edit |-> saves + 1] \in EditorWork
  BY <1>1, WorkMade
<1> QED
  BY <1>2, EditorReads DEF ImportDoc

LEMMA ListOldDocsKeeps == ASSUME EditorsInv, NEW e \in Editors, ListOldDocs(e) PROVE EditorsInv'
<1>1. [at |-> "upgrade", read |-> row] \in EditorWork
  BY EditorFacts, WorkMade
<1> QED
  BY <1>1, EditorReads DEF ListOldDocs

\* The rest of a request writes the row, and leaves the editors alone.
LEMMA EditorWrites ==
    ASSUME EditorsInv, NEW e \in Editors, row' \in WholeRow,
           busy' = [busy EXCEPT ![e] = NotAtWork], UNCHANGED <<editor, saves>>,
           stored' \subseteq Nat, crossed' \in BOOLEAN,
           ~crossed' => /\ ~row'.init => /\ row'.text = {} /\ row'.diffs = <<>> /\ stored' = {}
                                      /\ \A d \in Editors : ~editor[d].open
                        /\ stored' \subseteq row'.text
                        /\ \A k \in 1..Len(row'.diffs) : row'.diffs[k] \in row'.text
                        /\ \A d \in Editors : editor[d].open => InReach(editor[d], row')
    PROVE  EditorsInv'
<1> USE EditorFacts
<1>1. /\ busy' \in [Editors -> EditorWork] /\ busy'[e].at # "save"
      /\ \A d \in Editors \ {e} : busy'[d] = busy[d]
  BY WorkMade
<1> QED
  BY <1>1, EditorsStep

LEMMA ImportWritesKeeps == ASSUME EditorsInv, NEW e \in Editors, ImportWrites(e) PROVE EditorsInv'
<1> USE EditorFacts
<1> DEFINE was == busy[e].read
           edit == busy[e].edit
           new == [was EXCEPT !.init = TRUE, !.text = {edit}]
<1>1. /\ row' = new /\ crossed' = (crossed \/ row # was \/ was.init)
      /\ busy' = [busy EXCEPT ![e] = NotAtWork]
      /\ stored' = stored \cup {edit} /\ UNCHANGED <<editor, saves>>
  BY DEF ImportWrites
<1>2. was \in WholeRow /\ edit \in Nat
  BY DEF ImportWrites
<1>3. new \in WholeRow /\ new.init /\ new.text = {edit} /\ new.diffs = was.diffs
  BY <1>2 DEF WholeRow
<1> HIDE DEF was, edit, new
<1>4. ASSUME ~crossed'
      PROVE  /\ stored' \subseteq row'.text
             /\ \A k \in 1..Len(row'.diffs) : row'.diffs[k] \in row'.text
             /\ \A d \in Editors : editor[d].open => InReach(editor[d], row')
  <2>1. ~crossed /\ row = was /\ ~row.init
    BY <1>1, <1>4
  <2>2. stored = {} /\ row.diffs = <<>> /\ \A d \in Editors : ~editor[d].open
    BY <2>1, Untouched
  <2> QED
    BY <1>1, <1>3, <2>1, <2>2
<1>5. stored' \subseteq Nat /\ crossed' \in BOOLEAN
  BY <1>1, <1>2
<1> QED
  BY <1>1, <1>3, <1>4, <1>5, EditorWrites

LEMMA SaveDocKeeps == ASSUME EditorsInv, NEW e \in Editors, SaveDoc(e) PROVE EditorsInv'
<1> USE EditorFacts
<1> DEFINE was == busy[e].read
<1>1. was \in WholeRow /\ busy[e].at = "upgrade"
  BY DEF SaveDoc
<1>2. PICK diffs \in {was.diffs, row.diffs} :
         /\ row' = [row EXCEPT !.text = was.text, !.diffs = diffs, !.version = @ + 1]
         /\ crossed' = (crossed \/ row # was)
  BY DEF SaveDoc, Overwrite
<1>3. busy' = [busy EXCEPT ![e] = NotAtWork] /\ UNCHANGED <<editor, saves, stored>>
  BY DEF SaveDoc
<1> HIDE DEF was
<1>4. row' \in WholeRow /\ row'.init = row.init
  <2>1. was.text \in SUBSET Nat /\ diffs \in Seq(Nat) /\ row.version + 1 \in Nat
    BY <1>1, RowFacts
  <2> QED
    BY <1>2, <2>1 DEF WholeRow
<1>5. ASSUME ~crossed'
      PROVE  /\ ~row'.init => /\ row'.text = {} /\ row'.diffs = <<>> /\ stored' = {}
                              /\ \A d \in Editors : ~editor[d].open
             /\ stored' \subseteq row'.text
             /\ \A k \in 1..Len(row'.diffs) : row'.diffs[k] \in row'.text
             /\ \A d \in Editors : editor[d].open => InReach(editor[d], row')
  <2>1. ~crossed /\ row = was
    BY <1>2, <1>5
  <2>2. row' = [row EXCEPT !.version = @ + 1]
    BY <1>2, <2>1 DEF WholeRow
  <2>3. row'.text = row.text /\ row'.diffs = row.diffs
    BY <2>2 DEF WholeRow
  <2>4. ASSUME NEW d \in Editors, editor[d].open PROVE InReach(editor[d], row')
    <3>1. editor[d] \in OpenText /\ InReach(editor[d], row)
      BY <2>1, <2>4, Untouched
    <3> QED
      BY <2>1, <2>2, <3>1, Untouched, ReachNextVersion
  <2> QED
    BY <1>3, <1>4, <2>1, <2>3, <2>4, Untouched
<1> QED
  BY <1>2, <1>3, <1>4, <1>5, EditorWrites

LEMMA CloseEditorKeeps == ASSUME EditorsInv, NEW e \in Editors, CloseEditor(e) PROVE EditorsInv'
<1> USE EditorFacts
<1> DEFINE y == [open |-> FALSE, text |-> {}, version |-> 0, own |-> 0]
<1>1. /\ row' = row /\ crossed' = crossed /\ saves' = saves /\ stored' = stored /\ busy' = busy
      /\ editor' = [editor EXCEPT ![e] = y] /\ busy[e] = NotAtWork
  BY DEF CloseEditor
<1>2. y \in OpenText /\ ~y.open
  BY DEF OpenText
<1> HIDE DEF y
<1>3. /\ editor' \in [Editors -> OpenText] /\ ~editor'[e].open /\ busy'[e].at # "save"
      /\ \A d \in Editors \ {e} : editor'[d] = editor[d]
  BY <1>1, <1>2, WorkMade
<1>4. ASSUME ~crossed'
      PROVE  /\ ~row'.init => /\ row'.text = {} /\ row'.diffs = <<>> /\ stored' = {}
                              /\ \A d \in Editors : ~editor'[d].open
             /\ stored' \subseteq row'.text
             /\ \A k \in 1..Len(row'.diffs) : row'.diffs[k] \in row'.text
             /\ \A d \in Editors : editor'[d].open => InReach(editor'[d], row')
  BY <1>1, <1>3, <1>4, Untouched
<1> QED
  BY <1>1, <1>3, <1>4, EditorsStep

LEMMA EditorsInitInv == DirectInit => EditorsInv
<1> SUFFICES ASSUME DirectInit PROVE EditorsInv
  OBVIOUS
<1> DEFINE closed == [open |-> FALSE, text |-> {}, version |-> 0, own |-> 0]
<1>1. closed \in OpenText /\ ~closed.open
  BY DEF OpenText
<1>2. /\ row \in WholeRow /\ ~row.init /\ row.text = {} /\ row.diffs = <<>> /\ stored = {}
      /\ saves = 0 /\ crossed = FALSE
  BY DEF DirectInit, WholeRow
<1>3. editor = [e \in Editors |-> closed] /\ busy = [e \in Editors |-> NotAtWork]
  BY DEF DirectInit
<1> HIDE DEF closed
<1>4. /\ editor \in [Editors -> OpenText] /\ \A e \in Editors : ~editor[e].open
      /\ busy \in [Editors -> EditorWork] /\ \A e \in Editors : busy[e].at # "save"
  BY <1>1, <1>3, WorkMade
<1>5. Len(row.diffs) = 0
  BY <1>2
<1>6. DirectTyped
  BY <1>2, <1>4 DEF DirectTyped
<1>7. SavesBased /\ NotMadeYet
  BY <1>2, <1>4 DEF SavesBased, NotMadeYet
<1> QED
  BY <1>2, <1>4, <1>5, <1>6, <1>7 DEF EditorsInv

LEMMA EditorsNextInv == EditorsInv /\ [DirectNext]_directVars => EditorsInv'
<1> SUFFICES ASSUME EditorsInv, [DirectNext]_directVars PROVE EditorsInv'
  OBVIOUS
<1>1. CASE UNCHANGED directVars
  BY <1>1 DEF directVars, EditorsInv, DirectTyped, SavesBased, NotMadeYet, InReach
<1>2. CASE DirectNext
  <2>1. PICK e \in Editors :
           \/ Load(e) \/ LoadWrites(e) \/ CatchUp(e)
           \/ BeginDirectSave(e) \/ SaveWrites(e) \/ CloseEditor(e)
           \/ ImportDoc(e) \/ ImportWrites(e) \/ ListOldDocs(e) \/ SaveDoc(e)
    BY <1>2 DEF DirectNext
  <2> QED
    BY <2>1, LoadKeeps, LoadWritesKeeps, CatchUpKeeps, BeginDirectSaveKeeps, SaveWritesKeeps,
       CloseEditorKeeps, ImportDocKeeps, ImportWritesKeeps, ListOldDocsKeeps, SaveDocKeeps
<1> QED
  BY <1>1, <1>2

\* Unless two requests crossed or an import replaced a text: for any number of editors and
\* saves, and with diffs kept for any number of versions, no edit that was saved is lost, and an
\* editor that has the version of the row has its edits (save_document, get_doc_data,
\* get_doc_version, import_doc, save_doc).
THEOREM EditorsAgreeCorrect == DirectSpec => []EditorsAgree
<1>1. EditorsInv => EditorsAgree
  <2>1. ASSUME EditorsInv, ~crossed, NEW e \in Editors, editor[e].open,
               editor[e].version = row.version
        PROVE  editor[e].text = row.text
    BY <2>1, EditorFacts, Untouched, ReachFacts
  <2> QED
    BY <2>1, Untouched DEF EditorsAgree
<1> QED
  BY <1>1, EditorsInitInv, EditorsNextInv, PTL DEF DirectSpec

-----------------------------------------------------------------------------
(* The types of DirectEditing.                                             *)

\* Editors whose request will write the row under the next version.
Writing == {e \in Editors : busy[e].at \in {"save", "upgrade"}}

\* A row has edits that were made, and its version leaves room for those that n requests will
\* write, one each, after s of them were begun.
RowCounted(r, s, n) ==
    /\ r.text \subseteq 1..s /\ r.version + n <= s /\ Len(r.diffs) <= DirectHistory
    /\ \A k \in 1..Len(r.diffs) : r.diffs[k] \in 1..s
EditorCounted(x, s) == x.text \subseteq 1..s /\ x.version <= s /\ x.own <= s
WorkCounted(b, x, s, n) ==
    /\ b.at \in {"load", "save", "upgrade", "import"} => RowCounted(b.read, s, n)
    /\ b.at = "save" => x.own >= 1
    /\ b.at = "import" => b.edit \in 1..s

DirectCounted ==
    /\ saves \in 0..MaxDirectSaves /\ stored \subseteq 1..saves
    /\ IsFiniteSet(Writing) /\ RowCounted(row, saves, Cardinality(Writing))
    /\ \A e \in Editors : /\ EditorCounted(editor[e], saves)
                          /\ WorkCounted(busy[e], editor[e], saves, Cardinality(Writing))

\* More calls begun, or fewer requests that will write, leave as much room.
LEMMA RowsStayCounted ==
    ASSUME NEW r \in WholeRow, NEW s \in Nat, NEW n \in Nat, NEW t \in Nat, NEW m \in Nat,
           s <= t, t - m >= s - n, RowCounted(r, s, n)
    PROVE  RowCounted(r, t, m)
<1>1. 1..s \subseteq 1..t
  OBVIOUS
<1>2. r.version \in Nat
  BY RowFacts
<1>3. r.version + m <= t
  BY <1>2 DEF RowCounted
<1> QED
  BY <1>1, <1>3 DEF RowCounted

\* One editor and its request go on.
LEMMA CountedStep ==
    ASSUME EditorsInv, DirectCounted, NEW e \in Editors, NEW m \in Nat,
           \A d \in Editors \ {e} : editor'[d] = editor[d] /\ busy'[d] = busy[d],
           saves' \in saves..MaxDirectSaves, saves' - m >= saves - Cardinality(Writing),
           IsFiniteSet(Writing'), Cardinality(Writing') = m, stored' \subseteq 1..saves',
           RowCounted(row', saves', m), EditorCounted(editor'[e], saves'),
           WorkCounted(busy'[e], editor'[e], saves', m)
    PROVE  DirectCounted'
<1>1. saves \in Nat /\ Cardinality(Writing) \in Nat /\ saves' \in Nat /\ saves <= saves'
  BY FS_CardinalityType, EditorFacts DEF DirectCounted
<1>2. saves' \in 0..MaxDirectSaves
  BY <1>1
<1>3. ASSUME NEW d \in Editors, d # e
      PROVE  EditorCounted(editor'[d], saves') /\ WorkCounted(busy'[d], editor'[d], saves', m)
  <2>1. editor'[d] = editor[d] /\ busy'[d] = busy[d]
    BY <1>3
  <2>2. 1..saves \subseteq 1..saves'
    BY <1>1
  <2>3. EditorCounted(editor[d], saves')
    BY <1>1, <2>2, EditorFacts DEF DirectCounted, EditorCounted
  <2>4. WorkCounted(busy[d], editor[d], saves, Cardinality(Writing))
    BY DEF DirectCounted
  <2>5. busy[d].at \in {"load", "save", "upgrade", "import"} => RowCounted(busy[d].read, saves', m)
    BY <1>1, <2>4, EditorFacts, RowsStayCounted DEF WorkCounted
  <2> QED
    BY <2>1, <2>2, <2>3, <2>4, <2>5 DEF WorkCounted
<1>4. \A d \in Editors : /\ EditorCounted(editor'[d], saves')
                         /\ WorkCounted(busy'[d], editor'[d], saves', m)
  BY <1>3
<1> QED
  BY <1>2, <1>4 DEF DirectCounted

\* The requests that will write the row, when one editor's request goes on.
LEMMA WritingNow ==
    ASSUME EditorsInv, DirectCounted, NEW e \in Editors, NEW b, busy' = [busy EXCEPT ![e] = b]
    PROVE  /\ IsFiniteSet(Writing')
           /\ Cardinality(Writing) \in Nat /\ Cardinality(Writing') \in Nat
           /\ b.at \in {"save", "upgrade"} /\ busy[e].at \notin {"save", "upgrade"} =>
                  Cardinality(Writing') = Cardinality(Writing) + 1
           /\ b.at \notin {"save", "upgrade"} /\ busy[e].at \notin {"save", "upgrade"} =>
                  Cardinality(Writing') = Cardinality(Writing)
           /\ b.at \notin {"save", "upgrade"} /\ busy[e].at \in {"save", "upgrade"} =>
                  Cardinality(Writing') = Cardinality(Writing) - 1
           /\ Cardinality(Writing') <= Cardinality(Writing) + 1
<1>1. IsFiniteSet(Writing) /\ Cardinality(Writing) \in Nat
  BY FS_CardinalityType DEF DirectCounted
<1>2. busy'[e] = b /\ \A d \in Editors \ {e} : busy'[d] = busy[d]
  BY EditorFacts
<1>3. Writing' = IF b.at \in {"save", "upgrade"} THEN Writing \cup {e} ELSE Writing \ {e}
  BY <1>2 DEF Writing
<1>4. e \in Writing <=> busy[e].at \in {"save", "upgrade"}
  BY DEF Writing
<1>5. CASE b.at \in {"save", "upgrade"}
  <2>1. /\ IsFiniteSet(Writing \cup {e})
        /\ Cardinality(Writing \cup {e}) = IF e \in Writing THEN Cardinality(Writing)
                                                            ELSE Cardinality(Writing) + 1
    BY <1>1, FS_AddElement
  <2>2. Writing' = Writing \cup {e}
    BY <1>3, <1>5
  <2>3. Cardinality(Writing') \in Nat
    BY <2>1, <2>2, FS_CardinalityType
  <2> QED
    BY <1>1, <1>4, <1>5, <2>1, <2>2, <2>3
<1>6. CASE b.at \notin {"save", "upgrade"}
  <2>1. /\ IsFiniteSet(Writing \ {e})
        /\ Cardinality(Writing \ {e}) = IF e \in Writing THEN Cardinality(Writing) - 1
                                                          ELSE Cardinality(Writing)
    BY <1>1, FS_RemoveElement
  <2>2. Writing' = Writing \ {e}
    BY <1>3, <1>6
  <2>3. Cardinality(Writing') \in Nat
    BY <2>1, <2>2, FS_CardinalityType
  <2> QED
    BY <1>1, <1>4, <1>6, <2>1, <2>2, <2>3
<1> QED
  BY <1>5, <1>6

\* What there is before a call of editor e.
LEMMA CountedFacts ==
    ASSUME EditorsInv, DirectCounted, NEW e \in Editors
    PROVE  /\ saves \in Nat /\ saves <= MaxDirectSaves /\ MaxDirectSaves \in Nat
           /\ saves \in saves..MaxDirectSaves
           /\ EditorCounted(editor[e], saves)
           /\ WorkCounted(busy[e], editor[e], saves, Cardinality(Writing))
           /\ RowCounted(row, saves, Cardinality(Writing)) /\ stored \subseteq 1..saves
           /\ Cardinality(Writing) \in Nat
BY EditorFacts, DirectAssumption, FS_CardinalityType DEF DirectCounted

\* An editor opens the document, catches up or closes it.
LEMMA ReadingCounted ==
    ASSUME EditorsInv, EditorsInv', DirectCounted, NEW e \in Editors,
           Load(e) \/ CatchUp(e) \/ CloseEditor(e)
    PROVE  DirectCounted'
<1>1. UNCHANGED <<row, saves, stored>>
  BY DEF Load, CatchUp, CloseEditor
<1>2. \E b : busy' = [busy EXCEPT ![e] = b] /\ (b = busy[e] \/ b = [at |-> "load", read |-> row])
             /\ busy[e].at \notin {"save", "upgrade"}
  <2>1. busy' = busy => busy' = [busy EXCEPT ![e] = busy[e]]
    BY EditorFacts
  <2> QED
    BY <2>1, WorkMade DEF Load, CatchUp, CloseEditor
<1>3. PICK b : /\ busy' = [busy EXCEPT ![e] = b] /\ (b = busy[e] \/ b = [at |-> "load", read |-> row])
               /\ busy[e].at \notin {"save", "upgrade"}
  BY <1>2
<1>4. IsFiniteSet(Writing') /\ Cardinality(Writing') = Cardinality(Writing)
  <2>1. b.at \notin {"save", "upgrade"}
    BY <1>3
  <2> QED
    BY <1>3, <2>1, WritingNow
<1>5. busy'[e] = b /\ \A d \in Editors \ {e} : editor'[d] = editor[d] /\ busy'[d] = busy[d]
  BY <1>3, EditorFacts DEF Load, Takes, CatchUp, CloseEditor
<1>6. WorkCounted(b, editor'[e], saves, Cardinality(Writing))
  BY <1>3, CountedFacts DEF WorkCounted
<1>7. EditorCounted(editor'[e], saves)
  <2>1. row.text \subseteq 1..saves /\ row.version <= saves
    BY CountedFacts, EditorFacts, RowFacts DEF RowCounted
  <2>2. editor[e].text \subseteq 1..saves /\ editor[e].version <= saves /\ editor[e].own <= saves
    BY CountedFacts DEF EditorCounted
  <2>3. CASE Load(e)
    <3>1. editor' = editor \/ editor'[e] = [editor[e] EXCEPT !.open = TRUE, !.text = row.text,
                                                             !.version = row.version]
      BY <2>3, EditorFacts DEF Load, Takes
    <3>2. /\ [editor[e] EXCEPT !.open = TRUE, !.text = row.text, !.version = row.version].text
                = row.text
          /\ [editor[e] EXCEPT !.open = TRUE, !.text = row.text, !.version = row.version].version
                = row.version
          /\ [editor[e] EXCEPT !.open = TRUE, !.text = row.text, !.version = row.version].own
                = editor[e].own
      BY EditorFacts DEF OpenText
    <3> QED
      BY <2>1, <2>2, <3>1, <3>2 DEF EditorCounted
  <2>4. CASE CatchUp(e)
    <3> DEFINE n == row.version - editor[e].version
               new == IF ReachesBackTo(editor[e].version) THEN Merged(e) ELSE row.text
    <3>0. /\ row.diffs \in Seq(Nat) /\ row.version \in Nat /\ editor[e].version \in Nat
          /\ row.version > editor[e].version
      BY <2>4, EditorFacts, RowFacts DEF CatchUp, Behind
    <3>1. /\ row.diffs \in Seq(Nat) /\ n \in Nat
          /\ editor'[e] = [editor[e] EXCEPT !.version = row.version, !.text = new]
      <4>1. n \in Nat
        BY <3>0
      <4> HIDE DEF n
      <4> QED
        BY <2>4, <3>0, <4>1, EditorFacts DEF CatchUp
    <3>2. \A k \in 1..Len(row.diffs) : row.diffs[k] \in 1..saves
      BY CountedFacts DEF RowCounted
    <3>3. \A k \in 1..Len(Last(row.diffs, n)) : Last(row.diffs, n)[k] \in 1..saves
      <4>1. CASE n >= Len(row.diffs)
        BY <3>1, <3>2, <4>1, LastOf
      <4>2. CASE n <= Len(row.diffs)
        <5>1. /\ Len(Last(row.diffs, n)) = n
              /\ \A i \in 1..n : Last(row.diffs, n)[i] = row.diffs[Len(row.diffs) - n + i]
          BY <3>1, <4>2, LastOf
        <5>2. \A i \in 1..n : Len(row.diffs) - n + i \in 1..Len(row.diffs)
          BY <3>1, <4>2
        <5> QED
          BY <3>2, <5>1, <5>2
      <4> QED
        BY <3>1, <4>1, <4>2
    <3>4. new \subseteq 1..saves
      BY <2>1, <2>2, <3>3 DEF Merged, DiffsSince
    <3> HIDE DEF new, n
    <3>5. /\ editor'[e].text = new /\ editor'[e].version = row.version
          /\ editor'[e].own = editor[e].own
      BY <3>1, EditorFacts DEF OpenText
    <3> QED
      BY <2>1, <2>2, <3>4, <3>5 DEF EditorCounted
  <2>5. CASE CloseEditor(e)
    <3>1. editor'[e] = [open |-> FALSE, text |-> {}, version |-> 0, own |-> 0]
      BY <2>5, EditorFacts DEF CloseEditor
    <3> QED
      BY <3>1, CountedFacts DEF EditorCounted
  <2> QED
    BY <2>3, <2>4, <2>5
<1> QED
  BY <1>1, <1>4, <1>5, <1>6, <1>7, CountedFacts, CountedStep

\* A call that will save, or would be refused, is begun.
LEMMA BegunCounted ==
    ASSUME EditorsInv, EditorsInv', DirectCounted, NEW e \in Editors,
           BeginDirectSave(e) \/ ImportDoc(e) \/ ListOldDocs(e)
    PROVE  DirectCounted'
<1>1. /\ saves' = saves + 1 /\ saves' \in saves..MaxDirectSaves /\ UNCHANGED <<row, stored>>
      /\ busy[e] = NotAtWork
  BY CountedFacts DEF BeginDirectSave, ImportDoc, ListOldDocs
<1>2. /\ 1..saves \subseteq 1..saves' /\ saves' \in 1..saves' /\ saves' \in Nat
  BY <1>1, CountedFacts
<1>3. PICK b \in {NotAtWork, [at |-> "save", read |-> row], [at |-> "upgrade", read |-> row],
                  [at |-> "import", read |-> row, edit |-> saves']} :
          /\ busy' = [busy EXCEPT ![e] = b]
          /\ b.at = "save" => BeginDirectSave(e)
  BY DEF BeginDirectSave, ImportDoc, ListOldDocs
<1>4. /\ IsFiniteSet(Writing') /\ Cardinality(Writing') \in Nat
      /\ Cardinality(Writing') <= Cardinality(Writing) + 1
  BY <1>3, WritingNow
<1>5. saves' - Cardinality(Writing') >= saves - Cardinality(Writing)
  BY <1>1, <1>4, CountedFacts
<1>6. RowCounted(row, saves', Cardinality(Writing'))
  BY <1>1, <1>2, <1>4, <1>5, CountedFacts, EditorFacts, RowsStayCounted
<1>7. EditorCounted(editor'[e], saves') /\ (b.at = "save" => editor'[e].own >= 1)
  <2>1. /\ editor[e].text \subseteq 1..saves /\ editor[e].version <= saves /\ editor[e].own <= saves
        /\ editor[e].version \in Nat /\ editor[e].own \in Nat
    BY CountedFacts, EditorFacts DEF EditorCounted
  <2>2. CASE BeginDirectSave(e)
    <3> DEFINE edit == IF editor[e].own = 0 THEN saves + 1 ELSE editor[e].own
    <3>1. editor'[e] = [editor[e] EXCEPT !.own = edit]
      BY <2>2, EditorFacts DEF BeginDirectSave
    <3>2. edit <= saves' /\ edit >= 1
      BY <1>1, <2>1, CountedFacts
    <3> HIDE DEF edit
    <3>3. /\ editor'[e].text = editor[e].text /\ editor'[e].version = editor[e].version
          /\ editor'[e].own = edit
      BY <3>1, EditorFacts DEF OpenText
    <3> QED
      BY <1>1, <1>2, <2>1, <3>2, <3>3, CountedFacts DEF EditorCounted
  <2>3. CASE ImportDoc(e) \/ ListOldDocs(e)
    <3>1. editor' = editor
      BY <2>3 DEF ImportDoc, ListOldDocs
    <3>2. b.at = "save" => FALSE
      BY <1>1, <1>3, <2>3, EditorFacts, WorkMade DEF ImportDoc, ListOldDocs, BeginDirectSave
    <3> QED
      BY <1>1, <1>2, <2>1, <3>1, <3>2, CountedFacts DEF EditorCounted
  <2> QED
    BY <2>2, <2>3
<1>8. WorkCounted(b, editor'[e], saves', Cardinality(Writing'))
  BY <1>2, <1>3, <1>6, <1>7, WorkMade DEF WorkCounted
<1>9. /\ busy'[e] = b /\ \A d \in Editors \ {e} : editor'[d] = editor[d] /\ busy'[d] = busy[d]
      /\ stored' \subseteq 1..saves'
  BY <1>1, <1>2, <1>3, EditorFacts, CountedFacts DEF BeginDirectSave, ImportDoc, ListOldDocs
<1> QED
  BY <1>1, <1>4, <1>5, <1>6, <1>7, <1>8, <1>9, CountedStep

\* A row is written back.
LEMMA WrittenCounted ==
    ASSUME EditorsInv, EditorsInv', DirectCounted, NEW e \in Editors,
           LoadWrites(e) \/ SaveWrites(e) \/ ImportWrites(e) \/ SaveDoc(e)
    PROVE  DirectCounted'
<1> DEFINE n == Cardinality(Writing)
           m == Cardinality(Writing')
           was == busy[e].read
<1>1. /\ saves' = saves /\ busy' = [busy EXCEPT ![e] = NotAtWork]
      /\ busy[e].at \in {"load", "save", "upgrade", "import"}
  BY DEF LoadWrites, SaveWrites, ImportWrites, SaveDoc
<1>2. /\ IsFiniteSet(Writing') /\ m \in Nat /\ n \in Nat
      /\ m = (IF busy[e].at \in {"save", "upgrade"} THEN n - 1 ELSE n)
  BY <1>1, WritingNow, WorkMade
<1>3. /\ RowCounted(was, saves, n) /\ RowCounted(row, saves, n)
      /\ was \in WholeRow /\ row \in WholeRow /\ row' \in WholeRow
  <2>1. row' \in WholeRow
    BY DEF EditorsInv, DirectTyped
  <2> QED
    BY <1>1, <2>1, CountedFacts, EditorFacts DEF WorkCounted
<1>4. /\ was.text \subseteq 1..saves /\ was.version + n <= saves /\ Len(was.diffs) <= DirectHistory
      /\ \A k \in 1..Len(was.diffs) : was.diffs[k] \in 1..saves
      /\ was.version \in Nat /\ was.diffs \in Seq(Nat) /\ Len(was.diffs) \in Nat
      /\ row.text \subseteq 1..saves /\ row.version + n <= saves /\ Len(row.diffs) <= DirectHistory
      /\ \A k \in 1..Len(row.diffs) : row.diffs[k] \in 1..saves
      /\ row.version \in Nat
  BY <1>3, RowFacts DEF RowCounted
<1>5. /\ editor[e].text \subseteq 1..saves /\ editor[e].version <= saves /\ editor[e].own <= saves
      /\ editor[e] \in OpenText /\ editor[e].own \in Nat
      /\ stored \subseteq 1..saves /\ saves \in Nat
      /\ busy[e].at = "save" => editor[e].own \in 1..saves
      /\ busy[e].at = "import" => busy[e].edit \in 1..saves
  BY CountedFacts, EditorFacts DEF EditorCounted, WorkCounted
<1> HIDE DEF n, m, was
<1>6. CASE LoadWrites(e)
  <2>1. /\ row' = [was EXCEPT !.init = TRUE] /\ stored' = stored /\ busy[e].at = "load"
        /\ editor'[e] = [editor[e] EXCEPT !.open = TRUE, !.text = row'.text, !.version = row'.version]
        /\ \A d \in Editors \ {e} : editor'[d] = editor[d]
    BY <1>6, EditorFacts DEF LoadWrites, Overwrite, Takes, was
  <2>2. row'.text = was.text /\ row'.version = was.version /\ row'.diffs = was.diffs
    BY <1>3, <2>1 DEF WholeRow
  <2>3. m = n /\ stored' \subseteq 1..saves'
    BY <1>1, <1>2, <1>5, <2>1
  <2>4. RowCounted(row', saves', m)
    BY <1>1, <1>4, <2>2, <2>3 DEF RowCounted
  <2>5. /\ editor'[e].text = was.text /\ editor'[e].version = was.version
        /\ editor'[e].own = editor[e].own
    BY <1>5, <2>1, <2>2 DEF OpenText
  <2>6. EditorCounted(editor'[e], saves')
    BY <1>1, <1>2, <1>4, <1>5, <2>5 DEF EditorCounted
  <2>7. WorkCounted(busy'[e], editor'[e], saves', m)
    BY <1>1, EditorFacts, WorkMade DEF WorkCounted
  <2>8. saves' \in saves..MaxDirectSaves /\ saves' - m >= saves - n
    BY <1>1, <1>2, <1>5, <2>3, CountedFacts
  <2>9. \A d \in Editors \ {e} : busy'[d] = busy[d]
    BY <1>1, EditorFacts
  <2> QED
    BY <1>2, <2>1, <2>3, <2>4, <2>6, <2>7, <2>8, <2>9, CountedStep DEF m, n
<1>7. CASE SaveWrites(e)
  <2> DEFINE edit == editor[e].own
             edited == editor[e].text \cup {edit}
             diffs == Longer(was.diffs, edit, DirectHistory)
  <2>1. /\ row' = [init |-> TRUE, text |-> edited, version |-> was.version + 1, diffs |-> diffs]
        /\ stored' = stored \cup {edit} /\ busy[e].at = "save"
        /\ editor'[e] = [editor[e] EXCEPT !.text = edited, !.version = was.version + 1, !.own = 0]
        /\ \A d \in Editors \ {e} : editor'[d] = editor[d]
    BY <1>7, EditorFacts DEF SaveWrites, Overwrite, was, Longer
  <2>2. edit \in 1..saves /\ edited \subseteq 1..saves /\ edit \in Nat
    BY <1>5, <2>1
  <2>3. m = n - 1 /\ was.version + 1 + m <= saves
    BY <1>2, <1>4, <2>1, <1>5
  <2>4. Len(diffs) <= DirectHistory
    <3>1. /\ Append(was.diffs, edit) \in Seq(Nat) /\ DirectHistory \in Nat
          /\ Len(Append(was.diffs, edit)) \in Nat
      BY <1>4, <2>2, DirectAssumption
    <3>2. CASE DirectHistory <= Len(Append(was.diffs, edit))
      <4>1. Len(Last(Append(was.diffs, edit), DirectHistory)) = DirectHistory
        BY <3>1, <3>2, LastOf
      <4> QED
        BY <3>1, <4>1 DEF Longer
    <3>3. CASE DirectHistory >= Len(Append(was.diffs, edit))
      <4>1. Last(Append(was.diffs, edit), DirectHistory) = Append(was.diffs, edit)
        BY <3>1, <3>3, LastOf
      <4> QED
        BY <3>3, <4>1 DEF Longer
    <3> QED
      BY <3>1, <3>2, <3>3
  <2>5. \A k \in 1..Len(diffs) : diffs[k] \in 1..saves
    <3>1. \A k \in 1..Len(diffs) :
              diffs[k] = edit \/ \E j \in 1..Len(was.diffs) : diffs[k] = was.diffs[j]
      <4>1. EntriesOf(diffs, was.diffs, edit)
        BY <1>7, SavedDiffs, Zenon DEF was
      <4> QED
        BY <4>1, Zenon DEF EntriesOf
    <3> QED
      BY <1>4, <2>2, <3>1
  <2> HIDE DEF edit, edited, diffs
  <2>6. RowCounted(row', saves', m)
    BY <1>1, <2>1, <2>2, <2>3, <2>4, <2>5 DEF RowCounted
  <2>7. /\ editor'[e].text = edited /\ editor'[e].version = was.version + 1 /\ editor'[e].own = 0
    BY <1>5, <2>1 DEF OpenText
  <2>8. EditorCounted(editor'[e], saves')
    BY <1>1, <1>2, <1>4, <1>5, <2>2, <2>3, <2>7 DEF EditorCounted
  <2>9. saves' - m >= saves - n /\ stored' \subseteq 1..saves'
    BY <1>1, <1>2, <1>5, <2>1, <2>2, <2>3
  <2> QED
    BY <1>1, <1>2, <1>5, <2>1, <2>6, <2>8, <2>9, CountedStep, CountedFacts, EditorFacts, WorkMade
       DEF WorkCounted, m, n
<1>8. CASE ImportWrites(e)
  <2>1. /\ row' = [was EXCEPT !.init = TRUE, !.text = {busy[e].edit}] /\ busy[e].at = "import"
        /\ stored' = stored \cup {busy[e].edit} /\ editor' = editor
    BY <1>8 DEF ImportWrites, was
  <2>2. row'.text = {busy[e].edit} /\ row'.version = was.version /\ row'.diffs = was.diffs
    BY <1>3, <2>1 DEF WholeRow
  <2>3. m = n /\ stored' \subseteq 1..saves'
    BY <1>1, <1>2, <1>5, <2>1
  <2>4. RowCounted(row', saves', m)
    BY <1>1, <1>4, <1>5, <2>1, <2>2, <2>3 DEF RowCounted
  <2> QED
    BY <1>1, <1>2, <1>5, <2>1, <2>3, <2>4, CountedStep, CountedFacts, EditorFacts, WorkMade
       DEF WorkCounted, m, n
<1>9. CASE SaveDoc(e)
  <2>1. PICK diffs \in {was.diffs, row.diffs} :
            row' = [row EXCEPT !.text = was.text, !.diffs = diffs, !.version = row.version + 1]
    BY <1>9 DEF SaveDoc, Overwrite, was
  <2>2. row'.text = was.text /\ row'.version = row.version + 1 /\ row'.diffs = diffs
    BY <1>3, <2>1 DEF WholeRow
  <2>3. busy[e].at = "upgrade" /\ editor' = editor /\ stored' = stored
    BY <1>9 DEF SaveDoc
  <2>4. m = n - 1 /\ row.version + 1 + m <= saves /\ saves' - m >= saves - n
    BY <1>1, <1>2, <1>4, <1>5, <2>3
  <2>5. RowCounted(row', saves', m)
    BY <1>1, <1>4, <2>1, <2>2, <2>4 DEF RowCounted
  <2> QED
    BY <1>1, <1>2, <1>5, <2>3, <2>4, <2>5, CountedStep, CountedFacts, EditorFacts, WorkMade
       DEF WorkCounted, m, n
<1> QED
  BY <1>6, <1>7, <1>8, <1>9

\* A row that is counted is one of the type invariant.
LEMMA CountedIsRow ==
    ASSUME NEW r \in WholeRow, NEW n \in Nat, saves \in Nat, RowCounted(r, saves, n)
    PROVE  r \in Row
<1>1. /\ r.diffs \in Seq(Nat) /\ r.version \in Nat /\ Len(r.diffs) \in Nat
      /\ r.text \subseteq 1..saves /\ r.version + n <= saves
      /\ \A k \in 1..Len(r.diffs) : r.diffs[k] \in 1..saves
  BY RowFacts DEF RowCounted
<1>2. r.diffs \in Seq(1..saves)
  BY <1>1, IsASeq
<1>3. r.version \in 0..saves
  BY <1>1
<1> QED
  BY <1>1, <1>2, <1>3 DEF Row, WholeRow

\* Types; no version is ever beyond the number of calls that save, and no more diffs are kept
\* than the limit allows, whatever is written over whatever (get_doc_data, save_document,
\* import_doc, save_doc).
THEOREM DirectTypeCorrect == DirectSpec => []DirectTypeOK
<1>1. DirectInit => DirectCounted
  <2> SUFFICES ASSUME DirectInit PROVE DirectCounted
    OBVIOUS
  <2>1. Writing = {}
    BY DEF DirectInit, Writing, NotAtWork
  <2>2. IsFiniteSet(Writing) /\ Cardinality(Writing) = 0
    BY <2>1, FS_EmptySet
  <2>3. saves = 0 /\ saves \in 0..MaxDirectSaves /\ stored = {}
    BY DirectAssumption DEF DirectInit
  <2>4. RowCounted(row, saves, 0)
    <3>1. row.text = {} /\ row.version = 0 /\ row.diffs = <<>> /\ Len(<<>>) = 0
      BY DEF DirectInit
    <3> QED
      BY <2>3, <3>1, DirectAssumption DEF RowCounted
  <2>5. ASSUME NEW e \in Editors
        PROVE  EditorCounted(editor[e], saves) /\ WorkCounted(busy[e], editor[e], saves, 0)
    BY <2>3 DEF DirectInit, EditorCounted, WorkCounted, NotAtWork
  <2> QED
    BY <2>2, <2>3, <2>4, <2>5 DEF DirectCounted
<1>2. EditorsInv /\ EditorsInv' /\ DirectCounted /\ [DirectNext]_directVars => DirectCounted'
  <2> SUFFICES ASSUME EditorsInv, EditorsInv', DirectCounted, [DirectNext]_directVars
               PROVE  DirectCounted'
    OBVIOUS
  <2>1. CASE UNCHANGED directVars
    BY <2>1 DEF directVars, DirectCounted, Writing
  <2>2. CASE DirectNext
    BY <2>2, ReadingCounted, BegunCounted, WrittenCounted DEF DirectNext
  <2> QED
    BY <2>1, <2>2
<1>3. EditorsInv /\ DirectCounted => DirectTypeOK
  <2> SUFFICES ASSUME EditorsInv, DirectCounted PROVE DirectTypeOK
    OBVIOUS
  <2>1. DirectTyped /\ saves \in Nat /\ Cardinality(Writing) \in Nat
    BY FS_CardinalityType DEF EditorsInv, DirectTyped, DirectCounted
  <2>2. row \in Row /\ Len(row.diffs) <= DirectHistory
    BY <2>1, CountedIsRow DEF DirectTyped, DirectCounted, RowCounted
  <2>3. ASSUME NEW e \in Editors
        PROVE  editor[e] \in [open : BOOLEAN, text : SUBSET (1..saves), version : 0..saves,
                               own : 0..saves]
    <3>1. /\ editor[e] \in OpenText /\ editor[e].text \subseteq 1..saves
          /\ editor[e].version \in 0..saves /\ editor[e].own \in 0..saves
      BY <2>1, CountedFacts, EditorFacts DEF EditorCounted
    <3> QED
      BY <3>1 DEF OpenText
  <2>4. ASSUME NEW e \in Editors
        PROVE  busy[e] \in {NotAtWork} \cup [at : {"load", "save", "upgrade"}, read : Row]
                              \cup [at : {"import"}, read : Row, edit : 1..saves]
    <3>1. busy[e] \in EditorWork /\ WorkCounted(busy[e], editor[e], saves, Cardinality(Writing))
      BY CountedFacts, EditorFacts
    <3>2. busy[e].at \in {"load", "save", "upgrade", "import"} => busy[e].read \in Row
      BY <2>1, <3>1, CountedIsRow, WorkFacts DEF WorkCounted
    <3>3. busy[e].at = "import" => busy[e].edit \in 1..saves
      BY <3>1 DEF WorkCounted
    <3> QED
      BY <3>1, <3>2, <3>3 DEF EditorWork
  <2>5. /\ DOMAIN editor = Editors /\ editor = [e \in Editors |-> editor[e]]
        /\ busy = [e \in Editors |-> busy[e]]
    BY <2>1 DEF DirectTyped
  <2> QED
    BY <2>1, <2>2, <2>3, <2>4, <2>5 DEF DirectTyped, DirectCounted, DirectTypeOK
<1> QED
  BY <1>1, <1>2, <1>3, EditorsInitInv, EditorsNextInv, PTL DEF DirectSpec

-----------------------------------------------------------------------------
(* Templates, the documents made with them, and their styles.              *)

LEMMA IntervalsFinite == \A k \in Nat : IsFiniteSet(1..k)
<1>1. ASSUME NEW k \in Int PROVE IsFiniteSet(1..k)
  <2>1. 1 \in Int
    OBVIOUS
  <2> QED
    BY <2>1, FS_Interval, Zenon
<1> QED
  BY <1>1

TemplateRow(owner, import) == [owner |-> owner, import |-> import]

\* Numbers were given out; rows and tasks refer to them.
TemplatesTyped ==
    /\ last = [template |-> last.template, style |-> last.style, document |-> last.document]
    /\ last.template \in Nat /\ last.style \in Nat /\ last.document \in Nat
    /\ DOMAIN template \subseteq 1..last.template
    /\ DOMAIN style \subseteq 1..last.style
    /\ DOMAIN document \subseteq 1..last.document
    /\ \A t \in DOMAIN template : template[t] = TemplateRow(template[t].owner, template[t].import)
    /\ \A s \in DOMAIN style : style[s] \in styled
    /\ \A d \in DOMAIN document : TemplateOf(d) \in DOMAIN template
    /\ used \subseteq DOMAIN template /\ styled \subseteq DOMAIN template
    /\ ended \subseteq 1..last.document

TaskTyped(w) ==
    /\ task[w].at \in {"row", "styles"} => task[w].styles \in Nat
    /\ task[w].at = "row" => task[w].user \in Authors \cup {"all"}
    /\ task[w].at = "save" => task[w].row = TemplateRow(task[w].row.owner, task[w].row.import)
    /\ task[w].at \in {"save", "delete"} => task[w].template \in 1..last.template
    /\ task[w].at = "delete" =>
        /\ task[w].document \in 1..last.document /\ task[w].last \in BOOLEAN
        /\ task[w].document \in DOMAIN document => TemplateOf(task[w].document) = task[w].template
    /\ task[w].at = "style" => task[w].style \in 0..last.style
    /\ task[w].at = "unstyle" => task[w].style \in 1..last.style

\* A template has one owner ever, and a style one template: those of a row that may yet come
\* back, too.
Owned(O) ==
    /\ \A t \in DOMAIN template : template[t].owner = O[t]
    /\ \A w \in Workers : task[w].at = "save" => task[w].row.owner = O[task[w].template]

Placed(P) ==
    /\ \A s \in DOMAIN style : style[s] = P[s]
    /\ \A w \in Workers :
        \/ task[w].at \notin {"style", "unstyle"} \/ task[w].style = 0
        \/ task[w].template = P[task[w].style]

\* What a request that was begun relies on.
OneAt(w, place) ==
    \A v \in Workers :
        task[v].at = place /\ task[v].template = task[w].template => v = w

Removes(w) == task[w].at = "remove" => \A d \in DOMAIN document : TemplateOf(d) # task[w].template

Deletes(w, O) ==
    task[w].at = "delete" =>
        /\ OneAt(w, "delete")
        /\ task[w].last =>
              \A d \in DOMAIN document : TemplateOf(d) = task[w].template => d = task[w].document
        /\ ~task[w].last =>
              \/ O[task[w].template] = "all"
              \/ \E d \in DOMAIN document : TemplateOf(d) = task[w].template /\ d # task[w].document

Unstyles(w) ==
    task[w].at = "unstyle" =>
        /\ OneAt(w, "unstyle")
        /\ task[w].template \in styled
        /\ \E s \in DOMAIN style : style[s] = task[w].template /\ s # task[w].style

Uncrossed(O) ==
    /\ \A d \in 1..last.document : d \in DOMAIN document \/ d \in ended
    /\ \A t \in used : O[t] = "all" \/ \E d \in DOMAIN document : TemplateOf(d) = t
    /\ \A t \in styled : \E s \in DOMAIN style : style[s] = t
    /\ \A w \in Workers : Removes(w) /\ Deletes(w, O) /\ Unstyles(w)

TemplatesInv ==
    /\ TemplatesTyped
    /\ task = [w \in Workers |-> task[w]] /\ \A w \in Workers : TaskTyped(w)
    /\ \E O \in [1..last.template -> Authors \cup {"all"}], P \in [1..last.style -> 1..last.template] :
        Owned(O) /\ Placed(P) /\ (~collided => Uncrossed(O))

\* The tables as the proofs need them, after a whole was added or removed.
LEMMA RowsWith == ASSUME NEW table, NEW i, NEW whole
    PROVE  /\ \A x : x \in DOMAIN With(table, i, whole) <=> x \in DOMAIN table \/ x = i
           /\ \A x \in DOMAIN With(table, i, whole) :
                 With(table, i, whole)[x] = IF x = i THEN whole ELSE table[x]
  BY DEF With

LEMMA RowsWithout == ASSUME NEW table, NEW is
    PROVE  /\ \A x : x \in DOMAIN Without(table, is) <=> x \in DOMAIN table /\ x \notin is
           /\ \A x \in DOMAIN Without(table, is) : Without(table, is)[x] = table[x]
  BY DEF Without

LEMMA TemplatesInitial == ASSUME TemplatesInit PROVE TemplatesInv
<1> DEFINE O == [t \in 1..last.template |-> "all"]
           P == [s \in 1..last.style |-> 1]
<1>1. /\ last.template = 1 /\ last.style = 1 /\ last.document = 0
      /\ last = [template |-> last.template, style |-> last.style, document |-> last.document]
  BY DEF TemplatesInit
<1>2. /\ DOMAIN template = {1} /\ template[1].owner = "all" /\ DOMAIN style = {1} /\ style[1] = 1
      /\ DOMAIN document = {}
  BY DEF TemplatesInit
<1>3. TemplatesTyped
  BY <1>1, <1>2 DEF TemplatesTyped, TemplatesInit, TemplateRow
<1>4. task = [w \in Workers |-> task[w]] /\ \A w \in Workers : task[w].at = "none"
  BY DEF TemplatesInit, NoTask
<1>5. \A w \in Workers : TaskTyped(w)
  BY <1>4 DEF TaskTyped
<1>6. O \in [1..last.template -> Authors \cup {"all"}] /\ P \in [1..last.style -> 1..last.template]
  BY <1>1
<1>7. Owned(O) /\ Placed(P)
  BY <1>1, <1>2, <1>4 DEF Owned, Placed
<1>8. Uncrossed(O)
  BY <1>1, <1>2, <1>4 DEF Uncrossed, Removes, Deletes, Unstyles, TemplatesInit
<1> QED
  BY <1>3, <1>4, <1>5, <1>6, <1>7, <1>8 DEF TemplatesInv

\* Only the rest of a request changes.
LEMMA TaskChanges ==
    ASSUME TemplatesInv, NEW w \in Workers, NEW next, task' = [task EXCEPT ![w] = next],
           UNCHANGED <<template, style, document, last, ended, used, styled>>,
           collided => collided',
           TaskTyped(w)',
           \A O : Owned(O) => (next.at = "save" => next.row.owner = O[next.template]),
           \A P : Placed(P) => (next.at \in {"style", "unstyle"} =>
                                   next.style = 0 \/ next.template = P[next.style]),
           \A O : Owned(O) /\ Uncrossed(O) /\ ~collided' =>
                     Removes(w)' /\ Deletes(w, O)' /\ Unstyles(w)'
    PROVE  TemplatesInv'
<1>1. \A v \in Workers : task'[v] = IF v = w THEN next ELSE task[v]
  BY DEF TemplatesInv
<1>2. task' = [v \in Workers |-> task'[v]]
  BY DEF TemplatesInv
<1>3. TemplatesTyped'
  BY DEF TemplatesInv, TemplatesTyped, TemplateOf
<1>4. ASSUME NEW v \in Workers PROVE TaskTyped(v)'
  BY <1>1 DEF TemplatesInv, TaskTyped, TemplateOf
<1>5. PICK O \in [1..last.template -> Authors \cup {"all"}],
           P \in [1..last.style -> 1..last.template] :
         Owned(O) /\ Placed(P) /\ (~collided => Uncrossed(O))
  BY DEF TemplatesInv
<1>6. Owned(O)'
  <2>1. next.at = "save" => next.row.owner = O[next.template]
    BY <1>5
  <2>2. \A t \in DOMAIN template' : template'[t].owner = O[t]
    BY <1>5 DEF Owned
  <2>3. \A v \in Workers : task[v].at = "save" => task[v].row.owner = O[task[v].template]
    BY <1>5 DEF Owned
  <2> QED
    BY <1>1, <2>1, <2>2, <2>3 DEF Owned
<1>7. Placed(P)'
  <2>1. next.at \in {"style", "unstyle"} => next.style = 0 \/ next.template = P[next.style]
    BY <1>5
  <2> QED
    BY <1>1, <1>5, <2>1 DEF Placed
<1>8. ASSUME ~collided' PROVE Uncrossed(O)'
  <2>1. Uncrossed(O) /\ Removes(w)' /\ Deletes(w, O)' /\ Unstyles(w)'
    BY <1>5, <1>8
  <2>2. ASSUME NEW v \in Workers, v # w PROVE Removes(v)' /\ Deletes(v, O)' /\ Unstyles(v)'
    <3>1. Removes(v)'
      BY <1>1, <2>1, <2>2 DEF Uncrossed, Removes, TemplateOf
    <3>2. Deletes(v, O)'
      BY <1>1, <2>1, <2>2 DEF Uncrossed, Deletes, TemplateOf, OneAt
    <3>3. Unstyles(v)'
      BY <1>1, <2>1, <2>2 DEF Uncrossed, Unstyles, OneAt
    <3> QED
      BY <3>1, <3>2, <3>3
  <2> QED
    BY <2>1, <2>2 DEF Uncrossed, TemplateOf
<1> QED
  BY <1>2, <1>3, <1>4, <1>5, <1>6, <1>7, <1>8 DEF TemplatesInv

\* What of it concerns the other requests, while the request of w has nothing more to remove.
IdleTaskNext(next) == next.at \in {"none", "insert", "styles"} /\ (next.at = "styles" => next.styles \in Nat)

LEMMA IdleTask == ASSUME TemplatesInv, NEW w \in Workers, NEW next, IdleTaskNext(next),
                         task' = [task EXCEPT ![w] = next]
    PROVE  /\ task' = [v \in Workers |-> task'[v]]
           /\ \A v \in Workers : task'[v] = IF v = w THEN next ELSE task[v]
           /\ \A v \in Workers : OneAt(v, "delete") => v = w \/ OneAt(v, "delete")'
           /\ \A v \in Workers : OneAt(v, "unstyle") => v = w \/ OneAt(v, "unstyle")'
<1>1. task' = [v \in Workers |-> task'[v]] /\ \A v \in Workers : task'[v] = IF v = w THEN next ELSE task[v]
  BY DEF TemplatesInv
<1> QED
  BY <1>1 DEF OneAt, IdleTaskNext

\* A whole of a template is made, with a new number.
LEMMA TemplateMade ==
    ASSUME TemplatesInv, NEW w \in Workers, NEW next, IdleTaskNext(next), task' = [task EXCEPT ![w] = next],
           NEW u \in Authors \cup {"all"}, NEW whole, whole.owner = u, whole = TemplateRow(whole.owner, whole.import),
           Count("template", 1), template' = With(template, NextRow("template"), whole),
           UNCHANGED <<style, document, ended, used, styled, collided>>
    PROVE  TemplatesInv'
<1> DEFINE n == last.template + 1
<1>1. /\ task' = [v \in Workers |-> task'[v]]
      /\ \A v \in Workers : task'[v] = IF v = w THEN next ELSE task[v]
      /\ \A v \in Workers : OneAt(v, "delete") => v = w \/ OneAt(v, "delete")'
      /\ \A v \in Workers : OneAt(v, "unstyle") => v = w \/ OneAt(v, "unstyle")'
  BY IdleTask
<1>2. /\ last.template \in Nat /\ n \in Nat /\ last.style \in Nat /\ last.document \in Nat
      /\ DOMAIN template \subseteq 1..last.template
  BY DEF TemplatesInv, TemplatesTyped
<1>3. /\ last'.template = n /\ last'.style = last.style /\ last'.document = last.document
      /\ last' = [template |-> last'.template, style |-> last'.style, document |-> last'.document]
  BY DEF TemplatesInv, TemplatesTyped, Count
<1>4. /\ \A x : x \in DOMAIN template' <=> x \in DOMAIN template \/ x = n
      /\ \A x \in DOMAIN template' : template'[x] = IF x = n THEN whole ELSE template[x]
  BY RowsWith DEF NextRow
<1>5. TemplatesTyped'
  <2>1. \A x \in DOMAIN template' : x \in 1..n
    BY <1>2, <1>4
  <2>2. DOMAIN template' \subseteq 1..last'.template
    BY <1>3, <2>1
  <2>3. \A x \in DOMAIN template : x \in DOMAIN template'
    BY <1>4
  <2>4. /\ \A d \in DOMAIN document : TemplateOf(d) \in DOMAIN template'
        /\ \A s \in DOMAIN style : style[s] \in styled
        /\ used \subseteq DOMAIN template' /\ styled \subseteq DOMAIN template'
    BY <2>3 DEF TemplatesInv, TemplatesTyped
  <2>5. /\ DOMAIN style \subseteq 1..last.style /\ DOMAIN document \subseteq 1..last.document
        /\ ended \subseteq 1..last.document
    BY DEF TemplatesInv, TemplatesTyped
  <2>6. last'.template \in Nat /\ last'.style \in Nat /\ last'.document \in Nat
    BY <1>2, <1>3
  <2>7. \A x \in DOMAIN template' : template'[x] = TemplateRow(template'[x].owner, template'[x].import)
    <3>1. \A x \in DOMAIN template : template[x] = TemplateRow(template[x].owner, template[x].import)
      BY DEF TemplatesInv, TemplatesTyped
    <3> QED
      BY <1>4, <3>1
  <2> QED
    BY <1>3, <2>2, <2>4, <2>5, <2>6, <2>7 DEF TemplatesTyped, TemplateOf
<1>6. ASSUME NEW v \in Workers PROVE TaskTyped(v)'
  BY <1>1, <1>2, <1>3 DEF TemplatesInv, TaskTyped, TemplateOf, IdleTaskNext
<1>7. PICK O \in [1..last.template -> Authors \cup {"all"}],
           P \in [1..last.style -> 1..last.template] :
         Owned(O) /\ Placed(P) /\ (~collided => Uncrossed(O))
  BY DEF TemplatesInv
<1>8. PICK Q \in [1..n -> Authors \cup {"all"}] :
         Q[n] = u /\ \A t \in 1..last.template : Q[t] = O[t]
  <2> DEFINE F == [t \in 1..n |-> IF t = n THEN u ELSE O[t]]
  <2>1. F \in [1..n -> Authors \cup {"all"}] /\ F[n] = u /\ \A t \in 1..last.template : F[t] = O[t]
    BY <1>2
  <2> QED
    BY <2>1
<1>9. P \in [1..last'.style -> 1..last'.template]
  BY <1>2, <1>3
<1>10. Owned(Q)'
  <2>1. \A t \in DOMAIN template' : template'[t].owner = Q[t]
    BY <1>2, <1>4, <1>7, <1>8 DEF Owned
  <2>2. ASSUME NEW v \in Workers, task'[v].at = "save" PROVE task'[v].row.owner = Q[task'[v].template]
    <3>1. task'[v] = task[v] /\ task[v].at = "save" /\ task[v].template \in 1..last.template
      BY <1>1, <2>2 DEF IdleTaskNext, TemplatesInv, TaskTyped
    <3> QED
      BY <1>7, <1>8, <3>1 DEF Owned
  <2> QED
    BY <2>1, <2>2 DEF Owned
<1>11. Placed(P)'
  BY <1>1, <1>7 DEF Placed, IdleTaskNext
<1>12. ASSUME ~collided' PROVE Uncrossed(Q)'
  <2>1. Uncrossed(O)
    BY <1>7, <1>12
  <2>2. ASSUME NEW v \in Workers PROVE (Removes(v) /\ Unstyles(v))'
    BY <1>1, <2>1 DEF Uncrossed, Removes, TemplateOf, Unstyles, IdleTaskNext
  <2>3. ASSUME NEW v \in Workers PROVE Deletes(v, Q)'
    <3>1. CASE task'[v].at # "delete"
      BY <3>1 DEF Deletes
    <3>2. CASE task'[v].at = "delete"
      <4>1. v # w /\ task'[v] = task[v] /\ task[v].at = "delete" /\ task[v].template \in 1..last.template
        BY <1>1, <3>2 DEF IdleTaskNext, TemplatesInv, TaskTyped
      <4>2. Q[task[v].template] = O[task[v].template]
        BY <1>8, <4>1
      <4>3. Deletes(v, O)
        BY <2>1 DEF Uncrossed
      <4> QED
        BY <1>1, <4>1, <4>2, <4>3 DEF Deletes, TemplateOf
    <3> QED
      BY <3>1, <3>2
  <2>4. \A t \in used : t \in 1..last.template
    BY <1>2 DEF TemplatesInv, TemplatesTyped
  <2>5. \A t \in used' : Q[t] = "all" \/ \E d \in DOMAIN document' : TemplateOf(d)' = t
    BY <1>8, <2>1, <2>4 DEF Uncrossed, TemplateOf
  <2> QED
    BY <1>3, <2>1, <2>2, <2>3, <2>5 DEF Uncrossed, TemplateOf
<1> QED
  BY <1>1, <1>3, <1>5, <1>6, <1>8, <1>9, <1>10, <1>11, <1>12 DEF TemplatesInv

\* The whole of a template is written, again if it is gone, with the owner it had.
LEMMA TemplateWritten ==
    ASSUME TemplatesInv, NEW w \in Workers, task' = [task EXCEPT ![w] = NoTask],
           task[w].at = "save", NEW whole, whole.owner = task[w].row.owner,
           whole = TemplateRow(whole.owner, whole.import),
           template' = With(template, task[w].template, whole),
           UNCHANGED <<style, document, last, ended, used, styled, collided>>
    PROVE  TemplatesInv'
<1> DEFINE n == task[w].template
<1>0. IdleTaskNext(NoTask)
  BY DEF IdleTaskNext, NoTask
<1>1. /\ task' = [v \in Workers |-> task'[v]]
      /\ \A v \in Workers : task'[v] = IF v = w THEN NoTask ELSE task[v]
      /\ \A v \in Workers : OneAt(v, "delete") => v = w \/ OneAt(v, "delete")'
      /\ \A v \in Workers : OneAt(v, "unstyle") => v = w \/ OneAt(v, "unstyle")'
  BY <1>0, IdleTask
<1>2. n \in 1..last.template
  BY DEF TemplatesInv, TaskTyped
<1>4. /\ \A x : x \in DOMAIN template' <=> x \in DOMAIN template \/ x = n
      /\ \A x \in DOMAIN template' : template'[x] = IF x = n THEN whole ELSE template[x]
  BY RowsWith
<1> HIDE DEF n
<1>5. TemplatesTyped'
  <2>1. \A x \in DOMAIN template' : x \in 1..last.template
    BY <1>2, <1>4 DEF TemplatesInv, TemplatesTyped
  <2>2. DOMAIN template' \subseteq 1..last.template
    BY <2>1
  <2>3. \A x \in DOMAIN template : x \in DOMAIN template'
    BY <1>4
  <2>4. /\ \A d \in DOMAIN document : TemplateOf(d) \in DOMAIN template'
        /\ used \subseteq DOMAIN template' /\ styled \subseteq DOMAIN template'
    BY <2>3 DEF TemplatesInv, TemplatesTyped
  <2>7. \A x \in DOMAIN template' : template'[x] = TemplateRow(template'[x].owner, template'[x].import)
    <3>1. \A x \in DOMAIN template : template[x] = TemplateRow(template[x].owner, template[x].import)
      BY DEF TemplatesInv, TemplatesTyped
    <3> QED
      BY <1>4, <3>1
  <2> QED
    BY <2>2, <2>4, <2>7 DEF TemplatesInv, TemplatesTyped, TemplateOf
<1>6. ASSUME NEW v \in Workers PROVE TaskTyped(v)'
  BY <1>0, <1>1 DEF TemplatesInv, TaskTyped, TemplateOf, IdleTaskNext
<1>7. PICK O \in [1..last.template -> Authors \cup {"all"}],
           P \in [1..last.style -> 1..last.template] :
         Owned(O) /\ Placed(P) /\ (~collided => Uncrossed(O))
  BY DEF TemplatesInv
<1>8. Owned(O)'
  BY <1>0, <1>1, <1>4, <1>7 DEF Owned, IdleTaskNext, n
<1>9. Placed(P)'
  BY <1>0, <1>1, <1>7 DEF Placed, IdleTaskNext
<1>10. ASSUME ~collided' PROVE Uncrossed(O)'
  <2>1. Uncrossed(O)
    BY <1>7, <1>10
  <2>2. ASSUME NEW v \in Workers PROVE (Removes(v) /\ Deletes(v, O) /\ Unstyles(v))'
    BY <1>0, <1>1, <2>1 DEF Uncrossed, Removes, Deletes, TemplateOf, Unstyles, IdleTaskNext
  <2> QED
    BY <2>1, <2>2 DEF Uncrossed, TemplateOf
<1> QED
  BY <1>1, <1>5, <1>6, <1>7, <1>8, <1>9, <1>10 DEF TemplatesInv

\* Styles of t are written: they are new, or were of t before.
LEMMA StylesWritten ==
    ASSUME TemplatesInv, NEW w \in Workers, NEW next, IdleTaskNext(next), task' = [task EXCEPT ![w] = next],
           NEW t, NEW new, new # {} => t \in DOMAIN template,
           NEW k \in Nat, Count("style", k), new = {} => k = 0,
           \A s \in new : \/ s \in (last.style + 1)..(last.style + k)
                          \/ s \in 1..last.style /\ \A P : Placed(P) => P[s] = t,
           \A s : s \in DOMAIN style' <=> s \in DOMAIN style \/ s \in new,
           \A s \in DOMAIN style' : style'[s] = IF s \in new THEN t ELSE style[s],
           \A x : x \in styled' <=> x \in styled \/ (new # {} /\ x = t),
           UNCHANGED <<template, document, ended, used, collided>>
    PROVE  TemplatesInv'
<1> DEFINE n == last.style + k
<1>1. /\ task' = [v \in Workers |-> task'[v]]
      /\ \A v \in Workers : task'[v] = IF v = w THEN next ELSE task[v]
      /\ \A v \in Workers : OneAt(v, "delete") => v = w \/ OneAt(v, "delete")'
      /\ \A v \in Workers : OneAt(v, "unstyle") => v = w \/ OneAt(v, "unstyle")'
  BY IdleTask
<1>2. /\ last.template \in Nat /\ n \in Nat /\ last.style \in Nat /\ last.document \in Nat
      /\ DOMAIN style \subseteq 1..last.style /\ n >= last.style
  BY DEF TemplatesInv, TemplatesTyped
<1>3. /\ last'.template = last.template /\ last'.style = n /\ last'.document = last.document
      /\ last' = [template |-> last'.template, style |-> last'.style, document |-> last'.document]
  BY DEF TemplatesInv, TemplatesTyped, Count
<1>4. \A s \in new : s \in 1..n
  BY <1>2
<1> HIDE DEF n
<1>5. TemplatesTyped'
  <2>1. \A s \in DOMAIN style' : s \in 1..last'.style
    BY <1>2, <1>3, <1>4
  <2>2. \A s \in DOMAIN style' : style'[s] \in styled'
    BY DEF TemplatesInv, TemplatesTyped
  <2>3. \A x \in styled' : x \in DOMAIN template'
    BY DEF TemplatesInv, TemplatesTyped
  <2> QED
    BY <1>2, <1>3, <2>1, <2>2, <2>3 DEF TemplatesInv, TemplatesTyped, TemplateOf
<1>6. ASSUME NEW v \in Workers PROVE TaskTyped(v)'
  BY <1>1, <1>2, <1>3 DEF TemplatesInv, TaskTyped, TemplateOf, IdleTaskNext
<1>7. PICK O \in [1..last.template -> Authors \cup {"all"}],
           P \in [1..last.style -> 1..last.template] :
         Owned(O) /\ Placed(P) /\ (~collided => Uncrossed(O))
  BY DEF TemplatesInv
<1>7a. \A s \in new : s \in 1..last.style => P[s] = t
  BY <1>2, <1>7
<1>8. PICK Q \in [1..n -> 1..last.template] :
         /\ \A s \in 1..last.style : Q[s] = P[s]
         /\ \A s \in new : Q[s] = t
  <2>0. new = {} => last.style = n
    BY <1>2 DEF n
  <2>1. new # {} => t \in 1..last.template
    BY DEF TemplatesInv, TemplatesTyped
  <2>2. CASE new = {} /\ last.style = n
    BY <2>2
  <2>3. CASE new # {}
    <3> DEFINE F == [s \in 1..n |-> IF s \in 1..last.style THEN P[s] ELSE t]
    <3>1. F \in [1..n -> 1..last.template] /\ \A s \in 1..last.style : F[s] = P[s]
      <4>1. ASSUME NEW s \in 1..n
            PROVE  (IF s \in 1..last.style THEN P[s] ELSE t) \in 1..last.template
        BY <2>1, <2>3
      <4>2. \A s \in 1..last.style : s \in 1..n
        BY <1>2
      <4> QED
        BY <4>1, <4>2
    <3>2. \A s \in new : F[s] = t
      BY <1>4, <1>7a
    <3> QED
      BY <3>1, <3>2
  <2> QED
    BY <2>0, <2>2, <2>3
<1>9. Placed(Q)'
  <2>1. \A s \in DOMAIN style' : style'[s] = Q[s]
    BY <1>2, <1>7, <1>8 DEF Placed
  <2>2. ASSUME NEW v \in Workers, task'[v].at \in {"style", "unstyle"}, task'[v].style # 0
        PROVE  task'[v].template = Q[task'[v].style]
    <3>1. task'[v] = task[v] /\ task[v].at \in {"style", "unstyle"} /\ task[v].style \in 1..last.style
      BY <1>1, <1>2, <2>2 DEF IdleTaskNext, TemplatesInv, TaskTyped
    <3> QED
      BY <1>7, <1>8, <2>2, <3>1 DEF Placed
  <2> QED
    BY <2>1, <2>2 DEF Placed
<1>10. Owned(O)'
  BY <1>1, <1>7 DEF Owned, IdleTaskNext
<1>11. ASSUME ~collided' PROVE Uncrossed(O)'
  <2>1. Uncrossed(O)
    BY <1>7, <1>11
  <2>2. \A s \in DOMAIN style : s \in DOMAIN style' /\ style'[s] = style[s]
    BY <1>2, <1>7, <1>7a DEF Placed
  <2>3. ASSUME NEW v \in Workers PROVE (Removes(v) /\ Deletes(v, O))'
    BY <1>1, <2>1 DEF Uncrossed, Removes, Deletes, TemplateOf, IdleTaskNext
  <2>4. ASSUME NEW v \in Workers PROVE Unstyles(v)'
    BY <1>1, <2>1, <2>2 DEF Uncrossed, Unstyles, IdleTaskNext
  <2>5. \A x \in styled' : \E s \in DOMAIN style' : style'[s] = x
    BY <2>1, <2>2 DEF Uncrossed
  <2> QED
    BY <1>3, <2>1, <2>3, <2>4, <2>5 DEF Uncrossed, TemplateOf
<1> QED
  BY <1>1, <1>3, <1>5, <1>6, <1>7, <1>8, <1>9, <1>10, <1>11 DEF TemplatesInv

\* A style is removed by a request that counted another one.
LEMMA StyleRemoved == ASSUME TemplatesInv, NEW w \in Workers, RemoveStyle(w) PROVE TemplatesInv'
<1> DEFINE i == task[w].style
           t == task[w].template
<1>0. IdleTaskNext(NoTask)
  BY DEF IdleTaskNext, NoTask
<1>1. /\ task[w].at = "unstyle" /\ task' = [task EXCEPT ![w] = NoTask]
      /\ style' = Without(style, {i})
      /\ UNCHANGED <<template, document, last, ended, used, styled, collided>>
  BY DEF RemoveStyle, End, Continue, past
<1>2. /\ task' = [v \in Workers |-> task'[v]]
      /\ \A v \in Workers : task'[v] = IF v = w THEN NoTask ELSE task[v]
      /\ \A v \in Workers : OneAt(v, "delete") => v = w \/ OneAt(v, "delete")'
      /\ \A v \in Workers : OneAt(v, "unstyle") => v = w \/ OneAt(v, "unstyle")'
  BY <1>0, <1>1, IdleTask
<1>3. /\ \A s : s \in DOMAIN style' <=> s \in DOMAIN style /\ s # i
      /\ \A s \in DOMAIN style' : style'[s] = style[s]
  BY <1>1, RowsWithout
<1>4. i # 0
  BY <1>1 DEF TemplatesInv, TaskTyped, TemplatesTyped
<1> HIDE DEF i, t
<1>5. TemplatesTyped'
  BY <1>1, <1>3 DEF TemplatesInv, TemplatesTyped, TemplateOf
<1>6. ASSUME NEW v \in Workers PROVE TaskTyped(v)'
  BY <1>0, <1>1, <1>2 DEF TemplatesInv, TaskTyped, TemplateOf, IdleTaskNext
<1>7. PICK O \in [1..last.template -> Authors \cup {"all"}],
           P \in [1..last.style -> 1..last.template] :
         Owned(O) /\ Placed(P) /\ (~collided => Uncrossed(O))
  BY DEF TemplatesInv
<1>8. Owned(O)'
  BY <1>0, <1>1, <1>2, <1>7 DEF Owned, IdleTaskNext
<1>9. Placed(P)'
  BY <1>0, <1>2, <1>3, <1>7 DEF Placed, IdleTaskNext
<1>10. ASSUME ~collided' PROVE Uncrossed(O)'
  <2>1. Uncrossed(O)
    BY <1>1, <1>7, <1>10
  <2>2. i \in DOMAIN style => style[i] = t
    BY <1>1, <1>4, <1>7 DEF Placed, i, t
  <2>3. OneAt(w, "unstyle") /\ \E s \in DOMAIN style : style[s] = t /\ s # i
    BY <1>1, <2>1 DEF Uncrossed, Unstyles, i, t
  <2>4. \A x \in styled' : \E s \in DOMAIN style' : style'[s] = x
    <3>1. ASSUME NEW x \in styled PROVE \E s \in DOMAIN style : style[s] = x /\ s # i
      BY <2>1, <2>2, <2>3 DEF Uncrossed
    <3> QED
      BY <1>1, <1>3, <3>1
  <2>5. ASSUME NEW v \in Workers PROVE (Removes(v) /\ Deletes(v, O))'
    BY <1>0, <1>1, <1>2, <2>1 DEF Uncrossed, Removes, Deletes, TemplateOf, IdleTaskNext
  <2>6. ASSUME NEW v \in Workers PROVE Unstyles(v)'
    <3>1. CASE task'[v].at # "unstyle"
      BY <3>1 DEF Unstyles
    <3>2. CASE task'[v].at = "unstyle"
      <4>1. v # w /\ task'[v] = task[v] /\ task[v].at = "unstyle" /\ task[v].template # t
        BY <1>0, <1>1, <1>2, <2>3, <3>2 DEF IdleTaskNext, OneAt, t
      <4>2. Unstyles(v)
        BY <2>1 DEF Uncrossed
      <4>3. PICK s \in DOMAIN style : style[s] = task[v].template /\ s # task[v].style
        BY <4>1, <4>2 DEF Unstyles
      <4>4. s # i
        BY <2>2, <4>1, <4>3
      <4>5. s \in DOMAIN style' /\ style'[s] = task'[v].template /\ s # task'[v].style
        BY <1>3, <4>1, <4>3, <4>4
      <4>6. OneAt(v, "unstyle")' /\ task'[v].template \in styled'
        BY <1>1, <1>2, <4>1, <4>2 DEF Unstyles
      <4> QED
        BY <4>5, <4>6 DEF Unstyles
    <3> QED
      BY <3>1, <3>2
  <2> QED
    BY <1>1, <2>1, <2>4, <2>5, <2>6 DEF Uncrossed, TemplateOf
<1> QED
  BY <1>1, <1>2, <1>5, <1>6, <1>7, <1>8, <1>9, <1>10 DEF TemplatesInv

\* A document is made.
LEMMA DocumentInserted == ASSUME TemplatesInv, NEW w \in Workers, InsertDocument(w)
                          PROVE  TemplatesInv'
<1> DEFINE n == last.document + 1
           t == task[w].template
           whole == [owner |-> task[w].user, template |-> t]
<1>0. IdleTaskNext(NoTask)
  BY DEF IdleTaskNext, NoTask
<1>1. /\ task[w].at = "insert" /\ task' = [task EXCEPT ![w] = NoTask]
      /\ UNCHANGED <<template, style, ended, styled>>
  BY DEF InsertDocument, End, Continue
<1>2. /\ task' = [v \in Workers |-> task'[v]]
      /\ \A v \in Workers : task'[v] = IF v = w THEN NoTask ELSE task[v]
      /\ \A v \in Workers : OneAt(v, "delete") => v = w \/ OneAt(v, "delete")'
      /\ \A v \in Workers : OneAt(v, "unstyle") => v = w \/ OneAt(v, "unstyle")'
  BY <1>0, <1>1, IdleTask
<1>3. CASE t \notin DOMAIN template
  <2>1. UNCHANGED <<template, style, document, last, ended, used, styled, collided>>
    BY <1>1, <1>3 DEF InsertDocument
  <2>2. TaskTyped(w)' /\ Removes(w)' /\ Unstyles(w)' /\ \A O : Deletes(w, O)'
    BY <1>0, <1>2 DEF TaskTyped, Removes, Unstyles, Deletes, IdleTaskNext
  <2> QED
    BY <1>0, <1>1, <2>1, <2>2, TaskChanges DEF IdleTaskNext
<1>4. CASE t \in DOMAIN template
  <2>1. /\ Count("document", 1) /\ document' = With(document, n, whole) /\ used' = used \cup {t}
        /\ collided' = (collided \/ OthersAt(w, {"remove", "delete"}, t))
    BY <1>4 DEF InsertDocument, NextRow
  <2>2. /\ last.template \in Nat /\ last.style \in Nat /\ last.document \in Nat /\ n \in Nat
        /\ DOMAIN document \subseteq 1..last.document
    BY DEF TemplatesInv, TemplatesTyped
  <2>3. /\ last'.template = last.template /\ last'.style = last.style /\ last'.document = n
        /\ last' = [template |-> last'.template, style |-> last'.style, document |-> last'.document]
    BY <2>1 DEF TemplatesInv, TemplatesTyped, Count
  <2>4. whole.template = t
    OBVIOUS
  <2> HIDE DEF whole
  <2>5. /\ \A d : d \in DOMAIN document' <=> d \in DOMAIN document \/ d = n
        /\ \A d \in DOMAIN document' : document'[d] = IF d = n THEN whole ELSE document[d]
    BY <2>1, RowsWith
  <2>6. n \notin DOMAIN document /\ \A d \in 1..last.document : d # n /\ d \in 1..n
    BY <2>2
  <2> HIDE DEF n, t
  <2>7. \A d \in DOMAIN document' : TemplateOf(d)' = IF d = n THEN t ELSE TemplateOf(d)
    BY <2>4, <2>5 DEF TemplateOf
  <2>8. TemplatesTyped'
    <3>1. \A d \in DOMAIN document' : d \in 1..last'.document
      BY <2>2, <2>3, <2>5, <2>6 DEF n
    <3>2. \A d \in DOMAIN document' : TemplateOf(d)' \in DOMAIN template'
      BY <1>1, <1>4, <2>5, <2>7 DEF TemplatesInv, TemplatesTyped
    <3>3. ended' \subseteq 1..last'.document /\ used' \subseteq DOMAIN template'
      BY <1>1, <1>4, <2>1, <2>3, <2>6 DEF TemplatesInv, TemplatesTyped
    <3> QED
      BY <1>1, <2>2, <2>3, <3>1, <3>2, <3>3 DEF TemplatesInv, TemplatesTyped
  <2>9. ASSUME NEW v \in Workers PROVE TaskTyped(v)'
    <3>1. CASE v = w
      BY <1>0, <1>2, <3>1 DEF TaskTyped, IdleTaskNext
    <3>2. CASE v # w
      <4>1. task'[v] = task[v] /\ TaskTyped(v)
        BY <1>2, <3>2 DEF TemplatesInv
      <4>2. task[v].at = "delete" => task[v].document # n /\ task[v].document \in 1..last'.document
        BY <2>3, <2>6, <4>1 DEF TaskTyped
      <4> QED
        BY <2>3, <2>5, <2>7, <4>1, <4>2 DEF TaskTyped
    <3> QED
      BY <3>1, <3>2
  <2>10. PICK O \in [1..last.template -> Authors \cup {"all"}],
             P \in [1..last.style -> 1..last.template] :
           Owned(O) /\ Placed(P) /\ (~collided => Uncrossed(O))
    BY DEF TemplatesInv
  <2>11. Owned(O)'
    BY <1>0, <1>1, <1>2, <2>10 DEF Owned, IdleTaskNext
  <2>12. Placed(P)'
    BY <1>0, <1>1, <1>2, <2>10 DEF Placed, IdleTaskNext
  <2>13. ASSUME ~collided' PROVE Uncrossed(O)'
    <3>1. Uncrossed(O)
      BY <2>1, <2>10, <2>13
    <3>2. \A v \in Workers \ {w} : task[v].at \in {"remove", "delete"} => task[v].template # t
      BY <2>1, <2>13 DEF OthersAt
    <3>3. ASSUME NEW v \in Workers PROVE Removes(v)'
      BY <1>0, <1>2, <2>7, <3>1, <3>2, <2>5 DEF Uncrossed, Removes, IdleTaskNext
    <3>4. ASSUME NEW v \in Workers PROVE Deletes(v, O)'
      <4>1. CASE task'[v].at # "delete"
        BY <4>1 DEF Deletes
      <4>2. CASE task'[v].at = "delete"
        <5>1. /\ v # w /\ task'[v] = task[v] /\ task[v].at = "delete" /\ task[v].template # t
              /\ Deletes(v, O)
          BY <1>0, <1>2, <3>1, <3>2, <4>2 DEF IdleTaskNext, Uncrossed
        <5>2. task[v].document \in 1..last.document
          BY <5>1 DEF TemplatesInv, TaskTyped
        <5> QED
          BY <1>2, <2>5, <2>6, <2>7, <5>1, <5>2 DEF Deletes
      <4> QED
        BY <4>1, <4>2
    <3>5. ASSUME NEW v \in Workers PROVE Unstyles(v)'
      BY <1>0, <1>1, <1>2, <3>1 DEF Uncrossed, Unstyles, IdleTaskNext
    <3>6. \A d \in 1..last'.document : d \in DOMAIN document' \/ d \in ended'
      <4>1. \A d \in 1..last'.document : d \in 1..last.document \/ d = n
        BY <2>2, <2>3 DEF n
      <4> QED
        BY <1>1, <2>5, <3>1, <4>1 DEF Uncrossed
    <3>7. \A x \in used' : O[x] = "all" \/ \E d \in DOMAIN document' : TemplateOf(d)' = x
      BY <2>1, <2>5, <2>6, <2>7, <3>1 DEF Uncrossed
    <3>8. \A x \in styled' : \E s \in DOMAIN style' : style'[s] = x
      BY <1>1, <3>1 DEF Uncrossed
    <3> QED
      BY <3>3, <3>4, <3>5, <3>6, <3>7, <3>8 DEF Uncrossed
  <2> QED
    BY <1>1, <1>2, <2>3, <2>8, <2>9, <2>10, <2>11, <2>12, <2>13 DEF TemplatesInv
<1> QED
  BY <1>3, <1>4

\* A template goes with all that belongs to it: no document but one that its owner deletes,
\* unless requests crossed.
LEMMA TemplateRemoved ==
    ASSUME TemplatesInv, NEW w \in Workers, task' = [task EXCEPT ![w] = NoTask],
           NEW t, RemoveRow(w, t), NEW goes, document' = Without(document, goes),
           \A d \in DOMAIN document : d \in goes <=> TemplateOf(d) = t,
           \A x : x \in ended' => x \in 1..last.document,
           \A x \in ended : x \in ended',
           UNCHANGED last,
           \A O : Uncrossed(O) =>
              /\ \A d \in DOMAIN document : TemplateOf(d) = t => d \in ended'
              /\ \A v \in Workers \ {w} : task[v].at = "delete" /\ task[v].template = t =>
                    \A d \in DOMAIN document : TemplateOf(d) # t
    PROVE  TemplatesInv'
<1>0. IdleTaskNext(NoTask)
  BY DEF IdleTaskNext, NoTask
<1>1. /\ template' = Without(template, {t}) /\ style' = Without(style, StylesOf(t))
      /\ used' = used \ {t} /\ styled' = styled \ {t}
      /\ collided' = (collided \/ OthersAt(w, {"unstyle"}, t))
  BY DEF RemoveRow
<1>2. /\ task' = [v \in Workers |-> task'[v]]
      /\ \A v \in Workers : task'[v] = IF v = w THEN NoTask ELSE task[v]
      /\ \A v \in Workers : OneAt(v, "delete") => v = w \/ OneAt(v, "delete")'
      /\ \A v \in Workers : OneAt(v, "unstyle") => v = w \/ OneAt(v, "unstyle")'
  BY <1>0, IdleTask
<1>3. /\ \A x : x \in DOMAIN template' <=> x \in DOMAIN template /\ x # t
      /\ \A x \in DOMAIN template' : template'[x] = template[x]
  BY <1>1, RowsWithout
<1>4. /\ \A s : s \in DOMAIN style' <=> s \in DOMAIN style /\ style[s] # t
      /\ \A s \in DOMAIN style' : style'[s] = style[s]
  <2>1. \A s \in DOMAIN style : s \in StylesOf(t) <=> style[s] = t
    BY DEF StylesOf
  <2> QED
    BY <1>1, <2>1, RowsWithout
<1>5. /\ \A d : d \in DOMAIN document' <=> d \in DOMAIN document /\ TemplateOf(d) # t
      /\ \A d \in DOMAIN document' : TemplateOf(d)' = TemplateOf(d)
  <2>1. /\ \A d : d \in DOMAIN document' <=> d \in DOMAIN document /\ d \notin goes
        /\ \A d \in DOMAIN document' : document'[d] = document[d]
    BY RowsWithout
  <2> QED
    BY <2>1 DEF TemplateOf
<1>6. TemplatesTyped'
  <2>1. \A x \in DOMAIN template' : template'[x] = TemplateRow(template'[x].owner, template'[x].import)
    BY <1>3 DEF TemplatesInv, TemplatesTyped
  <2>2. \A s \in DOMAIN style' : style'[s] \in styled'
    BY <1>1, <1>4 DEF TemplatesInv, TemplatesTyped
  <2>3. \A d \in DOMAIN document' : TemplateOf(d)' \in DOMAIN template'
    BY <1>3, <1>5 DEF TemplatesInv, TemplatesTyped
  <2>4. used' \subseteq DOMAIN template' /\ styled' \subseteq DOMAIN template'
    BY <1>1, <1>3 DEF TemplatesInv, TemplatesTyped
  <2>5. /\ DOMAIN template' \subseteq 1..last.template /\ DOMAIN style' \subseteq 1..last.style
        /\ DOMAIN document' \subseteq 1..last.document /\ ended' \subseteq 1..last.document
    BY <1>3, <1>4, <1>5 DEF TemplatesInv, TemplatesTyped
  <2> QED
    BY <2>1, <2>2, <2>3, <2>4, <2>5 DEF TemplatesInv, TemplatesTyped
<1>7. ASSUME NEW v \in Workers PROVE TaskTyped(v)'
  BY <1>0, <1>2, <1>5 DEF TemplatesInv, TaskTyped, IdleTaskNext
<1>8. PICK O \in [1..last.template -> Authors \cup {"all"}],
           P \in [1..last.style -> 1..last.template] :
         Owned(O) /\ Placed(P) /\ (~collided => Uncrossed(O))
  BY DEF TemplatesInv
<1>9. Owned(O)'
  BY <1>0, <1>2, <1>3, <1>8 DEF Owned, IdleTaskNext
<1>10. Placed(P)'
  BY <1>0, <1>2, <1>4, <1>8 DEF Placed, IdleTaskNext
<1>11. ASSUME ~collided' PROVE Uncrossed(O)'
  <2>1. Uncrossed(O) /\ \A v \in Workers \ {w} : task[v].at = "unstyle" => task[v].template # t
    BY <1>1, <1>8, <1>11 DEF OthersAt
  <2>2. \A d \in 1..last'.document : d \in DOMAIN document' \/ d \in ended'
    BY <1>5, <2>1 DEF Uncrossed
  <2>3. \A x \in used' : O[x] = "all" \/ \E d \in DOMAIN document' : TemplateOf(d)' = x
    BY <1>1, <1>5, <2>1 DEF Uncrossed
  <2>4. \A x \in styled' : \E s \in DOMAIN style' : style'[s] = x
    BY <1>1, <1>4, <2>1 DEF Uncrossed
  <2>5. ASSUME NEW v \in Workers PROVE Removes(v)'
    BY <1>0, <1>2, <1>5, <2>1 DEF Uncrossed, Removes, IdleTaskNext
  <2>6. ASSUME NEW v \in Workers PROVE Deletes(v, O)'
    <3>1. CASE task'[v].at # "delete"
      BY <3>1 DEF Deletes
    <3>2. CASE task'[v].at = "delete"
      <4>1. v # w /\ task'[v] = task[v] /\ task[v].at = "delete" /\ Deletes(v, O)
        BY <1>0, <1>2, <2>1, <3>2 DEF IdleTaskNext, Uncrossed
      <4>2. task[v].template = t => \A d \in DOMAIN document : TemplateOf(d) # t
        BY <2>1, <4>1
      <4>3. OneAt(v, "delete")'
        BY <1>2, <4>1 DEF Deletes
      <4> QED
        BY <1>5, <4>1, <4>2, <4>3 DEF Deletes
    <3> QED
      BY <3>1, <3>2
  <2>7. ASSUME NEW v \in Workers PROVE Unstyles(v)'
    <3>1. CASE task'[v].at # "unstyle"
      BY <3>1 DEF Unstyles
    <3>2. CASE task'[v].at = "unstyle"
      <4>1. /\ v # w /\ task'[v] = task[v] /\ task[v].at = "unstyle" /\ Unstyles(v)
            /\ task[v].template # t
        BY <1>0, <1>2, <2>1, <3>2 DEF IdleTaskNext, Uncrossed
      <4>2. OneAt(v, "unstyle")' /\ task'[v].template \in styled'
        BY <1>1, <1>2, <4>1 DEF Unstyles
      <4> QED
        BY <1>4, <4>1, <4>2 DEF Unstyles
    <3> QED
      BY <3>1, <3>2
  <2> QED
    BY <2>2, <2>3, <2>4, <2>5, <2>6, <2>7 DEF Uncrossed
<1> QED
  BY <1>2, <1>6, <1>7, <1>8, <1>9, <1>10, <1>11 DEF TemplatesInv

\* A document is deleted, and others are left of its template, or it is everybody's.
LEMMA DocumentRemoved ==
    ASSUME TemplatesInv, NEW w \in Workers, task[w].at = "delete", ~task[w].last,
           task' = [task EXCEPT ![w] = NoTask],
           document' = Without(document, {task[w].document}), ended' = ended \cup {task[w].document},
           UNCHANGED <<template, style, last, used, styled, collided>>
    PROVE  TemplatesInv'
<1> DEFINE n == task[w].document
           t == task[w].template
<1>0. IdleTaskNext(NoTask)
  BY DEF IdleTaskNext, NoTask
<1>1. n \in 1..last.document /\ (n \in DOMAIN document => TemplateOf(n) = t)
  BY DEF TemplatesInv, TaskTyped
<1>2. /\ task' = [v \in Workers |-> task'[v]]
      /\ \A v \in Workers : task'[v] = IF v = w THEN NoTask ELSE task[v]
      /\ \A v \in Workers : OneAt(v, "delete") => v = w \/ OneAt(v, "delete")'
      /\ \A v \in Workers : OneAt(v, "unstyle") => v = w \/ OneAt(v, "unstyle")'
  BY <1>0, IdleTask
<1>5. /\ \A d : d \in DOMAIN document' <=> d \in DOMAIN document /\ d # n
      /\ \A d \in DOMAIN document' : TemplateOf(d)' = TemplateOf(d)
  <2>1. /\ \A d : d \in DOMAIN document' <=> d \in DOMAIN document /\ d # n
        /\ \A d \in DOMAIN document' : document'[d] = document[d]
    BY RowsWithout
  <2> QED
    BY <2>1 DEF TemplateOf
<1>6. TemplatesTyped'
  <2>3. \A d \in DOMAIN document' : TemplateOf(d)' \in DOMAIN template'
    BY <1>5 DEF TemplatesInv, TemplatesTyped
  <2>5. DOMAIN document' \subseteq 1..last.document /\ ended' \subseteq 1..last.document
    BY <1>1, <1>5 DEF TemplatesInv, TemplatesTyped
  <2> QED
    BY <2>3, <2>5 DEF TemplatesInv, TemplatesTyped
<1>7. ASSUME NEW v \in Workers PROVE TaskTyped(v)'
  BY <1>0, <1>2, <1>5 DEF TemplatesInv, TaskTyped, IdleTaskNext
<1>8. PICK O \in [1..last.template -> Authors \cup {"all"}],
           P \in [1..last.style -> 1..last.template] :
         Owned(O) /\ Placed(P) /\ (~collided => Uncrossed(O))
  BY DEF TemplatesInv
<1>9. Owned(O)'
  BY <1>0, <1>2, <1>8 DEF Owned, IdleTaskNext
<1>10. Placed(P)'
  BY <1>0, <1>2, <1>8 DEF Placed, IdleTaskNext
<1>11. ASSUME ~collided' PROVE Uncrossed(O)'
  <2>1. Uncrossed(O)
    BY <1>8, <1>11
  <2>2. /\ OneAt(w, "delete")
        /\ O[t] = "all" \/ \E d \in DOMAIN document : TemplateOf(d) = t /\ d # n
    BY <2>1 DEF Uncrossed, Deletes
  <2> HIDE DEF n, t
  <2>3. \A d \in 1..last'.document : d \in DOMAIN document' \/ d \in ended'
    BY <1>5, <2>1 DEF Uncrossed, n
  <2>4. \A x \in used' : O[x] = "all" \/ \E d \in DOMAIN document' : TemplateOf(d)' = x
    BY <1>1, <1>5, <2>1, <2>2 DEF Uncrossed
  <2>5. ASSUME NEW v \in Workers PROVE Removes(v)'
    <3>1. Removes(v) /\ (task'[v] = task[v] \/ task'[v].at # "remove")
      BY <1>0, <1>2, <2>1 DEF Uncrossed, IdleTaskNext
    <3> QED
      BY <1>5, <3>1 DEF Removes
  <2>6. ASSUME NEW v \in Workers PROVE Deletes(v, O)'
    <3>1. CASE task'[v].at # "delete"
      BY <3>1 DEF Deletes
    <3>2. CASE task'[v].at = "delete"
      <4>1. /\ v # w /\ task'[v] = task[v] /\ task[v].at = "delete" /\ Deletes(v, O)
            /\ task[v].template # t
        BY <1>0, <1>2, <2>1, <2>2, <3>2 DEF IdleTaskNext, Uncrossed, OneAt, t
      <4>3. OneAt(v, "delete")'
        BY <1>2, <4>1 DEF Deletes
      <4> QED
        BY <1>1, <1>5, <4>1, <4>3 DEF Deletes
    <3> QED
      BY <3>1, <3>2
  <2>7. ASSUME NEW v \in Workers PROVE Unstyles(v)'
    BY <1>0, <1>2, <2>1 DEF Uncrossed, Unstyles, IdleTaskNext
  <2> QED
    BY <2>1, <2>3, <2>4, <2>5, <2>6, <2>7 DEF Uncrossed
<1> QED
  BY <1>2, <1>6, <1>7, <1>8, <1>9, <1>10, <1>11 DEF TemplatesInv

LEMMA DeletionCommitted == ASSUME TemplatesInv, NEW w \in Workers, CommitDelete(w)
                           PROVE  TemplatesInv'
<1> DEFINE n == task[w].document
           t == task[w].template
           goes == {n} \cup DocumentsOf(t)
<1>1. /\ task[w].at = "delete" /\ task' = [task EXCEPT ![w] = NoTask]
      /\ ended' = ended \cup {n} /\ UNCHANGED last
  BY DEF CommitDelete, End, Continue
<1>2. /\ n \in 1..last.document /\ (n \in DOMAIN document => TemplateOf(n) = t)
      /\ ended \subseteq 1..last.document
  BY <1>1 DEF TemplatesInv, TaskTyped, TemplatesTyped
<1>3. CASE ~task[w].last
  <2>1. /\ document' = Without(document, {n})
        /\ UNCHANGED <<template, style, used, styled, collided>>
    BY <1>3 DEF CommitDelete
  <2> QED
    BY <1>1, <1>3, <2>1, DocumentRemoved
<1>4. CASE task[w].last
  <2>1. RemoveRow(w, t) /\ document' = Without(document, goes)
    BY <1>4 DEF CommitDelete
  <2>2. \A d \in DOMAIN document : d \in goes <=> TemplateOf(d) = t
    BY <1>2 DEF DocumentsOf
  <2>3. ASSUME NEW O, Uncrossed(O)
        PROVE  /\ \A d \in DOMAIN document : TemplateOf(d) = t => d \in ended'
               /\ \A v \in Workers \ {w} : task[v].at = "delete" /\ task[v].template = t =>
                     \A d \in DOMAIN document : TemplateOf(d) # t
    <3>1. OneAt(w, "delete") /\ \A d \in DOMAIN document : TemplateOf(d) = t => d = n
      BY <1>1, <1>4, <2>3 DEF Uncrossed, Deletes
    <3> QED
      BY <1>1, <3>1 DEF OneAt
  <2>4. (\A x : x \in ended' => x \in 1..last.document) /\ \A x \in ended : x \in ended'
    BY <1>1, <1>2
  <2> HIDE DEF n, t, goes
  <2> QED
    BY <1>1, <2>1, <2>2, <2>3, <2>4, TemplateRemoved
<1> QED
  BY <1>3, <1>4

LEMMA RemovalDone == ASSUME TemplatesInv, NEW w \in Workers, RemoveTemplate(w) PROVE TemplatesInv'
<1> DEFINE t == task[w].template
           goes == DocumentsOf(t)
<1>1. /\ task[w].at = "remove" /\ task' = [task EXCEPT ![w] = NoTask]
      /\ RemoveRow(w, t) /\ document' = Without(document, goes) /\ UNCHANGED <<last, ended>>
  BY DEF RemoveTemplate, End, Continue
<1>2. \A d \in DOMAIN document : d \in goes <=> TemplateOf(d) = t
  BY DEF DocumentsOf
<1>3. ASSUME NEW O, Uncrossed(O)
      PROVE  /\ \A d \in DOMAIN document : TemplateOf(d) = t => d \in ended'
             /\ \A v \in Workers \ {w} : task[v].at = "delete" /\ task[v].template = t =>
                   \A d \in DOMAIN document : TemplateOf(d) # t
  BY <1>1, <1>3 DEF Uncrossed, Removes
<1>4. (\A x : x \in ended' => x \in 1..last.document) /\ \A x \in ended : x \in ended'
  BY <1>1 DEF TemplatesInv, TemplatesTyped
<1> HIDE DEF t, goes
<1> QED
  BY <1>1, <1>2, <1>3, <1>4, TemplateRemoved

\* The number of a template's styles.
LEMMA StylesCounted == ASSUME TemplatesInv, NEW t
    PROVE  Cardinality(StylesOf(t)) \in Nat
<1>1. StylesOf(t) \subseteq 1..last.style /\ last.style \in Nat
  BY DEF StylesOf, TemplatesInv, TemplatesTyped
<1>3. IsFiniteSet(1..last.style)
  BY <1>1, IntervalsFinite, Zenon
<1>4. IsFiniteSet(StylesOf(t))
  BY <1>1, <1>3, FS_Subset
<1> QED
  BY <1>4, FS_CardinalityType

LEMMA AnotherStyle == ASSUME NEW t, NEW s, Cardinality(StylesOf(t)) >= 2
    PROVE  \E x \in StylesOf(t) : x # s
<1>1. SUFFICES ASSUME \A x \in StylesOf(t) : x = s PROVE FALSE
  OBVIOUS
<1>2. StylesOf(t) = {} \/ StylesOf(t) = {s}
  BY <1>1
<1>3. Cardinality({}) = 0 /\ Cardinality({s}) = 1
  BY FS_EmptySet, FS_Singleton
<1> QED
  BY <1>2, <1>3

\* Begun requests that rely on nothing yet.
LEMMA TaskBegun ==
    ASSUME TemplatesInv, NEW w \in Workers, NEW next, Begin(w, next),
           UNCHANGED <<tables, past>>, next.at \notin {"delete", "unstyle", "save", "style", "remove"},
           next.at # "styles",
           next.at = "row" => next.styles \in Nat /\ next.user \in Authors \cup {"all"}
    PROVE  TemplatesInv'
<1>1. /\ task' = [task EXCEPT ![w] = next]
      /\ UNCHANGED <<template, style, document, last, ended, used, styled, collided>>
  BY DEF Begin, tables, past
<1>2. task'[w] = next
  BY <1>1 DEF TemplatesInv
<1>3. TaskTyped(w)'
  BY <1>2 DEF TaskTyped
<1>4. \A O : Removes(w)' /\ Deletes(w, O)' /\ Unstyles(w)'
  BY <1>2 DEF Removes, Deletes, Unstyles
<1> QED
  BY <1>1, <1>3, <1>4, TaskChanges

LEMMA RequestBegun == ASSUME TemplatesInv, NEW w \in Workers, NEW u \in Authors \cup {"all"},
                             \/ CreateDoc(w, u) \/ CreateTemplate(w, u) \/ CopyTemplate(w, u)
                             \/ \E k \in ImportIds : ImportCreate(w, u, k)
                      PROVE  TemplatesInv'
<1>1. CASE CreateDoc(w, u)
  <2>1. PICK t : Begin(w, [at |-> "insert", user |-> u, template |-> t])
    BY <1>1 DEF CreateDoc
  <2> DEFINE next == [at |-> "insert", user |-> u, template |-> t]
  <2>2. next.at = "insert" /\ Begin(w, next) /\ UNCHANGED <<tables, past>>
    BY <1>1, <2>1 DEF CreateDoc
  <2> HIDE DEF next
  <2> QED
    BY <2>2, TaskBegun
<1>2. ASSUME NEW k, NEW n \in Nat, NEW then,
             Begin(w, [at |-> "row", user |-> u, import |-> k, then |-> then, styles |-> n]),
             UNCHANGED <<tables, past>>
      PROVE  TemplatesInv'
  <2> DEFINE next == [at |-> "row", user |-> u, import |-> k, then |-> then, styles |-> n]
  <2>2. next.at = "row" /\ next.styles \in Nat /\ next.user = u /\ Begin(w, next)
    BY <1>2
  <2> HIDE DEF next
  <2> QED
    BY <1>2, <2>2, TaskBegun
<1>3. CASE CreateTemplate(w, u)
  <2>1. PICK k \in ImportIds \cup {OtherId}, n \in 0..1 :
          Begin(w, [at |-> "row", user |-> u, import |-> k, then |-> "none", styles |-> n])
    BY <1>3 DEF CreateTemplate
  <2>2. n \in Nat /\ UNCHANGED <<tables, past>>
    BY <1>3 DEF CreateTemplate
  <2> QED
    BY <1>2, <2>1, <2>2
<1>4. CASE CopyTemplate(w, u)
  <2>1. PICK t : Begin(w, [at |-> "row", user |-> u, import |-> OtherId, then |-> "none",
                           styles |-> Cardinality(StylesOf(t))])
    BY <1>4 DEF CopyTemplate
  <2>2. Cardinality(StylesOf(t)) \in Nat /\ UNCHANGED <<tables, past>>
    BY <1>4, StylesCounted DEF CopyTemplate
  <2> QED
    BY <1>2, <2>1, <2>2
<1>5. ASSUME NEW k \in ImportIds, ImportCreate(w, u, k) PROVE TemplatesInv'
  <2>1. UNCHANGED <<tables, past>>
    BY <1>5 DEF ImportCreate
  <2>2. CASE \E t : Begin(w, [at |-> "insert", user |-> u, template |-> t])
    <3>1. PICK t : Begin(w, [at |-> "insert", user |-> u, template |-> t])
      BY <2>2
    <3> DEFINE next == [at |-> "insert", user |-> u, template |-> t]
    <3>2. next.at = "insert" /\ Begin(w, next)
      BY <3>1
    <3> HIDE DEF next
    <3> QED
      BY <2>1, <3>2, TaskBegun
  <2>3. CASE \E n \in Nat : Begin(w, [at |-> "row", user |-> u, import |-> k, then |-> "insert",
                                       styles |-> n])
    BY <1>2, <2>1, <2>3
  <2>4. \A t : Cardinality(StylesOf(t)) \in Nat
    BY StylesCounted
  <2>5. 0..1 \subseteq Nat
    OBVIOUS
  <2> QED
    BY <1>5, <2>2, <2>3, <2>4, <2>5 DEF ImportCreate
<1> QED
  BY <1>1, <1>3, <1>4, <1>5

LEMMA TemplateAsked == ASSUME TemplatesInv, NEW w \in Workers, NEW u \in Authors \cup {"all"},
                              NewTemplate(w, u) \/ InsertTemplate(w)
                       PROVE  TemplatesInv'
<1>1. CASE NewTemplate(w, u)
  <2> DEFINE whole == [owner |-> u, import |-> OtherId]
  <2>1. whole.owner = u /\ whole = TemplateRow(whole.owner, whole.import) /\ IdleTaskNext(NoTask)
    BY DEF TemplateRow, IdleTaskNext, NoTask
  <2>2. /\ Count("template", 1) /\ task' = [task EXCEPT ![w] = NoTask]
        /\ template' = With(template, NextRow("template"), whole)
        /\ UNCHANGED <<style, document, ended, used, styled, collided>>
    BY <1>1 DEF NewTemplate, Begin, past
  <2> HIDE DEF whole
  <2> QED
    BY <2>1, <2>2, TemplateMade
<1>2. CASE InsertTemplate(w)
  <2> DEFINE whole == [owner |-> task[w].user, import |-> task[w].import]
             next == [at |-> "styles", user |-> task[w].user, template |-> NextRow("template"),
                      styles |-> task[w].styles, then |-> task[w].then]
  <2>1. /\ Count("template", 1) /\ task[w].at = "row" /\ task' = [task EXCEPT ![w] = next]
        /\ template' = With(template, NextRow("template"), whole)
        /\ UNCHANGED <<style, document, ended, used, styled, collided>>
    BY <1>2 DEF InsertTemplate, Continue, past
  <2>2. task[w].styles \in Nat /\ task[w].user \in Authors \cup {"all"}
    BY <2>1 DEF TemplatesInv, TaskTyped
  <2>3. whole.owner = task[w].user /\ whole = TemplateRow(whole.owner, whole.import)
    BY DEF TemplateRow
  <2>4. IdleTaskNext(next)
    BY <2>2 DEF IdleTaskNext
  <2> HIDE DEF whole, next
  <2> QED
    BY <2>1, <2>2, <2>3, <2>4, TemplateMade
<1> QED
  BY <1>1, <1>2

LEMMA StylesAsked == ASSUME TemplatesInv, NEW w \in Workers, InsertStyles(w) \/ WriteStyle(w)
                     PROVE  TemplatesInv'
<1> DEFINE t == task[w].template
<1>0. IdleTaskNext(NoTask) /\ NoTask.at = "none" /\ last.style \in Nat
  BY DEF IdleTaskNext, NoTask, TemplatesInv, TemplatesTyped
<1>1. ASSUME task' = [task EXCEPT ![w] = NoTask],
             UNCHANGED <<template, style, document, last, ended, used, styled, collided>>
      PROVE  TemplatesInv'
  <2>1. task'[w] = NoTask
    BY <1>1 DEF TemplatesInv
  <2>2. TaskTyped(w)' /\ Removes(w)' /\ Unstyles(w)' /\ \A O : Deletes(w, O)'
    BY <1>0, <2>1 DEF TaskTyped, Removes, Unstyles, Deletes
  <2> QED
    BY <1>0, <1>1, <2>2, TaskChanges
<1>2. CASE InsertStyles(w)
  <2> DEFINE k == task[w].styles
             new == (last.style + 1)..(last.style + k)
             next == IF task[w].then = "insert"
                     THEN [at |-> "insert", user |-> task[w].user, template |-> t] ELSE NoTask
  <2>1. task[w].at = "styles" /\ k \in Nat /\ UNCHANGED <<template, document, ended, used, collided>>
    BY <1>2 DEF TemplatesInv, TaskTyped, InsertStyles
  <2>2. CASE ~(t \in DOMAIN template \/ k = 0)
    BY <1>1, <1>2, <2>2 DEF InsertStyles, End, Continue
  <2>3. CASE t \in DOMAIN template \/ k = 0
    <3>1. /\ Count("style", k) /\ task' = [task EXCEPT ![w] = next]
          /\ style' = [s \in DOMAIN style \cup new |-> IF s \in new THEN t ELSE style[s]]
          /\ styled' = IF k > 0 THEN styled \cup {t} ELSE styled
      BY <1>2, <2>3 DEF InsertStyles, Continue, NextRow
    <3>2. IdleTaskNext(next)
      BY <1>0 DEF IdleTaskNext
    <3>3. (new = {} => k = 0) /\ (k = 0 => new = {})
      <4>1. \A n, m \in Nat : (n + 1)..(n + m) = {} <=> m = 0
        <5>1. \A n, m \in Nat : m # 0 => n + 1 \in (n + 1)..(n + m)
          OBVIOUS
        <5> QED
          BY <5>1
      <4> QED
        BY <1>0, <2>1, <4>1
    <3>4. \A s : s \in DOMAIN style' <=> s \in DOMAIN style \/ s \in new
      BY <3>1
    <3>5. \A s \in DOMAIN style' : style'[s] = IF s \in new THEN t ELSE style[s]
      BY <3>1
    <3>6. \A x : x \in styled' <=> x \in styled \/ (new # {} /\ x = t)
      BY <2>1, <3>1, <3>3
    <3>7. \A s \in new : s \in (last.style + 1)..(last.style + k)
      OBVIOUS
    <3>8. new # {} => t \in DOMAIN template
      BY <2>3, <3>3
    <3> HIDE DEF next, k, new, t
    <3> QED
      BY <2>1, <3>1, <3>2, <3>3, <3>4, <3>5, <3>6, <3>7, <3>8, StylesWritten
  <2> QED
    BY <2>2, <2>3
<1>3. CASE WriteStyle(w)
  <2> DEFINE i == IF task[w].style = 0 THEN last.style + 1 ELSE task[w].style
             k == IF task[w].style = 0 THEN 1 ELSE 0
  <2>1. /\ task[w].at = "style" /\ task[w].style \in 0..last.style
        /\ UNCHANGED <<template, document, ended, used, collided>> /\ task' = [task EXCEPT ![w] = NoTask]
    BY <1>3 DEF TemplatesInv, TaskTyped, WriteStyle, End, Continue
  <2>2. CASE t \notin DOMAIN template
    BY <1>1, <1>3, <2>1, <2>2 DEF WriteStyle
  <2>3. CASE t \in DOMAIN template
    <3>1. /\ Count("style", k) /\ style' = With(style, i, t) /\ styled' = styled \cup {t}
      BY <1>3, <2>3 DEF WriteStyle, NextRow
    <3>2. /\ \A s : s \in DOMAIN style' <=> s \in DOMAIN style \/ s \in {i}
          /\ \A s \in DOMAIN style' : style'[s] = IF s \in {i} THEN t ELSE style[s]
      BY <3>1, RowsWith
    <3>3. \/ i \in (last.style + 1)..(last.style + k)
          \/ i \in 1..last.style /\ i = task[w].style /\ i # 0
      BY <1>0, <2>1
    <3>4. \A P : Placed(P) => task[w].style = 0 \/ t = P[task[w].style]
      BY <2>1 DEF Placed
    <3>5. \A s \in {i} : \/ s \in (last.style + 1)..(last.style + k)
                         \/ s \in 1..last.style /\ \A P : Placed(P) => P[s] = t
      BY <3>3, <3>4
    <3>6. \A x : x \in styled' <=> x \in styled \/ ({i} # {} /\ x = t)
      BY <3>1
    <3>7. k \in Nat /\ {i} # {}
      OBVIOUS
    <3> HIDE DEF i, k, t
    <3> QED
      BY <1>0, <2>1, <2>3, <3>1, <3>2, <3>5, <3>6, <3>7, StylesWritten
  <2> QED
    BY <2>2, <2>3
<1> QED
  BY <1>2, <1>3

LEMMA SaveAsked == ASSUME TemplatesInv, NEW w \in Workers, NEW u, SaveTemplate(w, u) PROVE TemplatesInv'
<1>1. PICK t \in DOMAIN template : Begin(w, [at |-> "save", template |-> t, row |-> template[t]])
  BY DEF SaveTemplate
<1> DEFINE next == [at |-> "save", template |-> t, row |-> template[t]]
<1>2. /\ task' = [task EXCEPT ![w] = next]
      /\ UNCHANGED <<template, style, document, last, ended, used, styled, collided>>
  BY <1>1 DEF SaveTemplate, Begin, tables, past
<1>3. next.at = "save" /\ next.template = t /\ next.row = template[t]
  OBVIOUS
<1> HIDE DEF next
<1>4. task'[w] = next
  BY <1>2 DEF TemplatesInv
<1>5. t \in 1..last.template /\ template[t] = TemplateRow(template[t].owner, template[t].import)
  BY DEF TemplatesInv, TemplatesTyped
<1>6. TaskTyped(w)'
  BY <1>2, <1>3, <1>4, <1>5 DEF TaskTyped
<1>7. \A O : Removes(w)' /\ Deletes(w, O)' /\ Unstyles(w)'
  BY <1>3, <1>4 DEF Removes, Deletes, Unstyles
<1>8. \A O : Owned(O) => template[t].owner = O[t]
  BY DEF Owned
<1> QED
  BY <1>2, <1>3, <1>6, <1>7, <1>8, TaskChanges

LEMMA SaveDone == ASSUME TemplatesInv, NEW w \in Workers, WriteTemplate(w) PROVE TemplatesInv'
<1>1. PICK k : template' = With(template, task[w].template, [task[w].row EXCEPT !.import = k])
  BY DEF WriteTemplate
<1> DEFINE whole == [task[w].row EXCEPT !.import = k]
<1>2. /\ task[w].at = "save" /\ task' = [task EXCEPT ![w] = NoTask]
      /\ UNCHANGED <<style, document, last, ended, used, styled, collided>>
  BY DEF WriteTemplate, End, Continue, past
<1>3. task[w].row = TemplateRow(task[w].row.owner, task[w].row.import)
  BY <1>2 DEF TemplatesInv, TaskTyped
<1>4. whole = TemplateRow(task[w].row.owner, k)
  BY <1>3 DEF TemplateRow
<1>5. whole.owner = task[w].row.owner /\ whole.import = k
  BY <1>4 DEF TemplateRow
<1>6. template' = With(template, task[w].template, whole) /\ whole = TemplateRow(whole.owner, whole.import)
  BY <1>1, <1>4, <1>5
<1> HIDE DEF whole
<1> QED
  BY <1>2, <1>5, <1>6, TemplateWritten

LEMMA RemovalAsked == ASSUME TemplatesInv, NEW w \in Workers, NEW u, DeleteTemplate(w, u)
                      PROVE  TemplatesInv'
<1>1. PICK t \in DOMAIN template : IsUnused(t) /\ Begin(w, [at |-> "remove", template |-> t])
  BY DEF DeleteTemplate
<1> DEFINE next == [at |-> "remove", template |-> t]
<1>2. /\ task' = [task EXCEPT ![w] = next]
      /\ UNCHANGED <<template, style, document, last, ended, used, styled, collided>>
  BY <1>1 DEF DeleteTemplate, Begin, tables, past
<1>3. next.at = "remove" /\ next.template = t
  OBVIOUS
<1> HIDE DEF next
<1>4. task'[w] = next
  BY <1>2 DEF TemplatesInv
<1>5. TaskTyped(w)'
  BY <1>3, <1>4 DEF TaskTyped
<1>6. \A d \in DOMAIN document : TemplateOf(d) # t
  BY <1>1 DEF IsUnused, DocumentsOf
<1>7. \A O : Removes(w)' /\ Deletes(w, O)' /\ Unstyles(w)'
  BY <1>2, <1>3, <1>4, <1>6 DEF Removes, Deletes, Unstyles, TemplateOf
<1> QED
  BY <1>2, <1>3, <1>5, <1>7, TaskChanges

LEMMA StyleAsked == ASSUME TemplatesInv, NEW w \in Workers, NEW u, SaveStyle(w, u) PROVE TemplatesInv'
<1>0. PICK t \in DOMAIN template : \E s \in StylesOf(t) \cup {0} :
         Begin(w, [at |-> "style", style |-> s, template |-> t])
  BY DEF SaveStyle
<1>1. PICK s \in StylesOf(t) \cup {0} : Begin(w, [at |-> "style", style |-> s, template |-> t])
  BY <1>0
<1> DEFINE next == [at |-> "style", style |-> s, template |-> t]
<1>2. /\ task' = [task EXCEPT ![w] = next]
      /\ UNCHANGED <<template, style, document, last, ended, used, styled, collided>>
  BY <1>1 DEF SaveStyle, Begin, tables, past
<1>3. next.at = "style" /\ next.template = t /\ next.style = s
  OBVIOUS
<1> HIDE DEF next
<1>4. task'[w] = next
  BY <1>2 DEF TemplatesInv
<1>5. s = 0 \/ (s \in DOMAIN style /\ style[s] = t /\ s \in 1..last.style)
  BY DEF StylesOf, TemplatesInv, TemplatesTyped
<1>6. s \in 0..last.style
  BY <1>5 DEF TemplatesInv, TemplatesTyped
<1>7. TaskTyped(w)'
  BY <1>2, <1>3, <1>4, <1>6 DEF TaskTyped
<1>8. \A O : Removes(w)' /\ Deletes(w, O)' /\ Unstyles(w)'
  BY <1>3, <1>4 DEF Removes, Deletes, Unstyles
<1>9. \A P : Placed(P) => s = 0 \/ t = P[s]
  BY <1>5 DEF Placed
<1> QED
  BY <1>2, <1>3, <1>7, <1>8, <1>9, TaskChanges

LEMMA StyleRemovalAsked == ASSUME TemplatesInv, NEW w \in Workers, NEW u, DeleteStyle(w, u)
                           PROVE  TemplatesInv'
<1>1. PICK s \in DOMAIN style :
         /\ Cardinality(StylesOf(style[s])) >= 2
         /\ Begin(w, [at |-> "unstyle", style |-> s, template |-> style[s]])
         /\ collided' = (collided \/ OthersAt(w, {"unstyle"}, style[s]))
  BY DEF DeleteStyle
<1> DEFINE t == style[s]
           next == [at |-> "unstyle", style |-> s, template |-> t]
<1>2. /\ task' = [task EXCEPT ![w] = next]
      /\ UNCHANGED <<template, style, document, last, ended, used, styled>>
  BY <1>1 DEF DeleteStyle, Begin, tables
<1>3. next.at = "unstyle" /\ next.template = t /\ next.style = s
  OBVIOUS
<1> HIDE DEF next
<1>4. \A v \in Workers : task'[v] = IF v = w THEN next ELSE task[v]
  BY <1>2 DEF TemplatesInv
<1>5. s \in 1..last.style /\ t \in styled /\ s # 0
  BY DEF TemplatesInv, TemplatesTyped
<1>6. TaskTyped(w)'
  BY <1>2, <1>3, <1>4, <1>5 DEF TaskTyped
<1>7. \E x \in DOMAIN style : style[x] = t /\ x # s
  <2>1. PICK x \in StylesOf(t) : x # s
    BY <1>1, AnotherStyle
  <2> QED
    BY <2>1 DEF StylesOf
<1>8. ASSUME ~collided' PROVE Unstyles(w)'
  <2>1. \A v \in Workers \ {w} : task[v].at = "unstyle" => task[v].template # t
    BY <1>1, <1>8 DEF OthersAt
  <2>2. OneAt(w, "unstyle")'
    BY <1>3, <1>4, <2>1 DEF OneAt
  <2> QED
    BY <1>2, <1>3, <1>4, <1>5, <1>7, <2>2 DEF Unstyles
<1>9. \A O : Removes(w)' /\ Deletes(w, O)'
  BY <1>3, <1>4 DEF Removes, Deletes
<1>10. \A P : Placed(P) => t = P[s]
  BY DEF Placed
<1>11. collided => collided'
  BY <1>1
<1> HIDE DEF t
<1> QED
  BY <1>2, <1>3, <1>6, <1>8, <1>9, <1>10, <1>11, TaskChanges

LEMMA DeletionAsked == ASSUME TemplatesInv, NEW w \in Workers, NEW u, DeleteDocument(w, u)
                       PROVE  TemplatesInv'
<1>1. PICK n \in DOMAIN document :
         /\ Begin(w, [at |-> "delete", document |-> n, template |-> TemplateOf(n), last |-> IsLast(n)])
         /\ collided' = (collided \/ OthersAt(w, {"delete"}, TemplateOf(n)))
  BY DEF DeleteDocument
<1> DEFINE t == TemplateOf(n)
           next == [at |-> "delete", document |-> n, template |-> t, last |-> IsLast(n)]
<1>2. /\ task' = [task EXCEPT ![w] = next]
      /\ UNCHANGED <<template, style, document, last, ended, used, styled>>
  BY <1>1 DEF DeleteDocument, Begin, tables
<1>3. next.at = "delete" /\ next.template = t /\ next.document = n /\ next.last = IsLast(n)
  OBVIOUS
<1> HIDE DEF next
<1>4. \A v \in Workers : task'[v] = IF v = w THEN next ELSE task[v]
  BY <1>2 DEF TemplatesInv
<1>5. n \in 1..last.document /\ t \in DOMAIN template /\ t \in 1..last.template
  BY DEF TemplatesInv, TemplatesTyped
<1>6. IsLast(n) \in BOOLEAN
  BY DEF IsLast
<1>7. TaskTyped(w)'
  BY <1>2, <1>3, <1>4, <1>5, <1>6 DEF TaskTyped, TemplateOf
<1>8. ASSUME NEW O, Owned(O), ~collided' PROVE Deletes(w, O)'
  <2>1. \A v \in Workers \ {w} : task[v].at = "delete" => task[v].template # t
    BY <1>1, <1>8 DEF OthersAt
  <2>2. OneAt(w, "delete")'
    BY <1>3, <1>4, <2>1 DEF OneAt
  <2>3. IsLast(n) => \A d \in DOMAIN document : TemplateOf(d) = t => d = n
    BY DEF IsLast, DocumentsOf
  <2>4. ~IsLast(n) => O[t] = "all" \/ \E d \in DOMAIN document : TemplateOf(d) = t /\ d # n
    BY <1>5, <1>8 DEF IsLast, DocumentsOf, Owned
  <2> QED
    BY <1>2, <1>3, <1>4, <2>2, <2>3, <2>4 DEF Deletes, TemplateOf
<1>9. \A O : Removes(w)' /\ Unstyles(w)'
  BY <1>3, <1>4 DEF Removes, Unstyles
<1>10. collided => collided'
  BY <1>1
<1> HIDE DEF t
<1> QED
  BY <1>2, <1>3, <1>7, <1>8, <1>9, <1>10, TaskChanges

LEMMA TemplatesStepInv == ASSUME TemplatesInv, [TemplatesNext]_templateVars PROVE TemplatesInv'
<1>1. ASSUME NEW w \in Workers, NEW u \in Authors,
             \/ CreateDoc(w, u) \/ DeleteDocument(w, u)
             \/ \E k \in ImportIds : ImportCreate(w, u, k)
             \/ NewTemplate(w, u) \/ CopyTemplate(w, u) \/ DeleteTemplate(w, u)
             \/ SaveStyle(w, u) \/ DeleteStyle(w, u)
      PROVE  TemplatesInv'
  BY <1>1, RequestBegun, DeletionAsked, TemplateAsked, RemovalAsked, StyleAsked, StyleRemovalAsked
<1>2. ASSUME NEW w \in Workers, NEW u \in Authors \cup {"all"}, CreateTemplate(w, u) \/ SaveTemplate(w, u)
      PROVE  TemplatesInv'
  BY <1>2, RequestBegun, SaveAsked
<1>3. ASSUME NEW w \in Workers,
             \/ InsertDocument(w) \/ CommitDelete(w) \/ InsertTemplate(w) \/ InsertStyles(w)
             \/ WriteTemplate(w) \/ RemoveTemplate(w) \/ WriteStyle(w) \/ RemoveStyle(w)
      PROVE  TemplatesInv'
  BY <1>3, DocumentInserted, DeletionCommitted, TemplateAsked, StylesAsked, SaveDone, RemovalDone,
     StyleRemoved
<1>4. ASSUME UNCHANGED <<template, style, document, last, task, ended, used, styled, collided>>
      PROVE  TemplatesInv'
  <2>1. TemplatesTyped' /\ \A w \in Workers : TaskTyped(w)'
    BY <1>4 DEF TemplatesInv, TemplatesTyped, TaskTyped, TemplateOf
  <2>2. PICK O \in [1..last.template -> Authors \cup {"all"}],
             P \in [1..last.style -> 1..last.template] :
           Owned(O) /\ Placed(P) /\ (~collided => Uncrossed(O))
    BY DEF TemplatesInv
  <2>3. Owned(O)' /\ Placed(P)'
    BY <1>4, <2>2 DEF Owned, Placed
  <2>4. ASSUME ~collided' PROVE Uncrossed(O)'
    <3>1. Uncrossed(O)
      BY <1>4, <2>2, <2>4
    <3>2. ASSUME NEW w \in Workers PROVE (Removes(w) /\ Deletes(w, O) /\ Unstyles(w))'
      BY <1>4, <3>1 DEF Uncrossed, Removes, Deletes, Unstyles, OneAt, TemplateOf
    <3> QED
      BY <1>4, <3>1, <3>2 DEF Uncrossed, TemplateOf
  <2> QED
    BY <1>4, <2>1, <2>2, <2>3, <2>4 DEF TemplatesInv
<1>5. CASE ShareDocument
  BY <1>4, <1>5 DEF ShareDocument, past
<1>6. CASE UNCHANGED templateVars
  BY <1>4, <1>6 DEF templateVars
<1> QED
  BY <1>1, <1>2, <1>3, <1>5, <1>6 DEF TemplatesNext

\* For any number of workers, requests, templates, documents and styles: every document has its
\* template; and unless two requests crossed at a template, a document is only removed by its
\* owner, a template that had documents goes with the last of them, unless it is everybody's,
\* and one that had a style keeps one.
THEOREM TemplatesServeCorrect == TemplatesSpec => []TemplatesServe
<1>1. TemplatesInit => TemplatesInv
  BY TemplatesInitial
<1>2. TemplatesInv /\ [TemplatesNext]_templateVars => TemplatesInv'
  BY TemplatesStepInv
<1>3. ASSUME TemplatesInv PROVE TemplatesServe
  <2>1. PICK O : Owned(O) /\ (~collided => Uncrossed(O))
    BY <1>3 DEF TemplatesInv
  <2>2. \A d \in DOMAIN document : TemplateOf(d) \in DOMAIN template
    BY <1>3 DEF TemplatesInv, TemplatesTyped
  <2>3. ASSUME ~collided PROVE 1..last.document = DOMAIN document \cup ended
    BY <1>3, <2>1, <2>3 DEF TemplatesInv, TemplatesTyped, Uncrossed
  <2>4. ASSUME ~collided, NEW t \in used PROVE template[t].owner = "all" \/ DocumentsOf(t) # {}
    <3>1. t \in DOMAIN template
      BY <1>3, <2>4 DEF TemplatesInv, TemplatesTyped
    <3> QED
      BY <2>1, <2>4, <3>1 DEF Owned, Uncrossed, DocumentsOf
  <2>5. ASSUME ~collided, NEW t \in styled PROVE StylesOf(t) # {}
    BY <2>1, <2>5 DEF Uncrossed, StylesOf
  <2> QED
    BY <2>2, <2>3, <2>4, <2>5 DEF TemplatesServe
<1> QED
  BY <1>1, <1>2, <1>3, PTL DEF TemplatesSpec

-----------------------------------------------------------------------------
(* The types of Templates.                                                 *)

\* What of the types the proofs above do not need.
TemplatesBound ==
    /\ last.template <= MaxTemplates /\ last.style <= MaxStyles /\ last.document <= MaxDocuments
    /\ readers \subseteq 1..last.document
    /\ begun \in 0..MaxRequests /\ collided \in BOOLEAN

LEMMA TemplateLimits ==
    /\ MaxTemplates \in Nat /\ MaxTemplates >= 1 /\ MaxStyles \in Nat /\ MaxStyles >= 1
    /\ MaxDocuments \in Nat /\ MaxRequests \in Nat
<1>1. MaxTemplates \in Nat \ {0} /\ MaxStyles \in Nat \ {0} /\ MaxDocuments \in Nat /\ MaxRequests \in Nat
  BY TemplatesAssumption
<1> QED
  BY <1>1

\* Rows are counted; whoever may read a document may read one that was made.
LEMMA BoundCounted ==
    ASSUME TemplatesInv, TemplatesBound,
           \/ last' = last
           \/ \E k \in {"template", "style", "document"}, n \in Nat : Count(k, n),
           last'.template <= MaxTemplates, last'.style <= MaxStyles, last'.document <= MaxDocuments,
           readers' \subseteq readers \cup DOMAIN document,
           begun' \in 0..MaxRequests, collided' \in BOOLEAN
    PROVE  TemplatesBound'
<1>1. /\ last = [template |-> last.template, style |-> last.style, document |-> last.document]
      /\ last.document \in Nat /\ DOMAIN document \subseteq 1..last.document
  BY DEF TemplatesInv, TemplatesTyped
<1>2. last'.document \in Nat /\ last.document <= last'.document
  BY <1>1 DEF Count
<1>3. 1..last.document \subseteq 1..last'.document
  BY <1>1, <1>2
<1> QED
  BY <1>1, <1>3 DEF TemplatesBound

\* Some rows more.
LEMMA CountedWithin ==
    ASSUME TemplatesInv, TemplatesBound, NEW n \in Nat, NEW k \in {"template", "style", "document"},
           Count(k, n),
           k = "template" => last.template + n <= MaxTemplates,
           k = "style" => last.style + n <= MaxStyles,
           k = "document" => last.document + n <= MaxDocuments
    PROVE  /\ last'.template <= MaxTemplates /\ last'.style <= MaxStyles
           /\ last'.document <= MaxDocuments
<1>1. last = [template |-> last.template, style |-> last.style, document |-> last.document]
  BY DEF TemplatesInv, TemplatesTyped
<1> QED
  BY <1>1 DEF Count, TemplatesBound

LEMMA BoundRequests ==
    ASSUME TemplatesInv, TemplatesBound, NEW w \in Workers, NEW u,
           \/ CreateDoc(w, u) \/ DeleteDocument(w, u)
           \/ \E k \in ImportIds : ImportCreate(w, u, k)
           \/ CopyTemplate(w, u) \/ DeleteTemplate(w, u)
           \/ SaveStyle(w, u) \/ DeleteStyle(w, u) \/ CreateTemplate(w, u) \/ SaveTemplate(w, u)
    PROVE  TemplatesBound'
<1> USE DEF CreateDoc, DeleteDocument, ImportCreate, CopyTemplate, DeleteTemplate, SaveStyle,
            DeleteStyle, CreateTemplate, SaveTemplate
<1>1. UNCHANGED <<last, readers>>
  BY DEF tables
<1>2. begun < MaxRequests /\ begun' = begun + 1
  BY DEF Begin
<1>3. collided' \in BOOLEAN
  BY DEF past, TemplatesBound
<1>4. begun' \in 0..MaxRequests
  BY <1>2, TemplateLimits DEF TemplatesBound
<1> QED
  BY <1>1, <1>3, <1>4 DEF TemplatesBound

LEMMA BoundRows ==
    ASSUME TemplatesInv, TemplatesBound, NEW w \in Workers,
           \/ \E u \in Authors : NewTemplate(w, u)
           \/ InsertDocument(w) \/ InsertTemplate(w) \/ InsertStyles(w) \/ WriteStyle(w)
    PROVE  TemplatesBound'
<1>1. /\ last.template \in Nat /\ last.style \in Nat /\ last.document \in Nat
      /\ task[w].at \in {"row", "styles"} => task[w].styles \in Nat
  BY DEF TemplatesInv, TemplatesTyped, TaskTyped
<1>2. readers' = readers
  BY DEF NewTemplate, InsertDocument, InsertTemplate, InsertStyles, WriteStyle
<1>3. /\ begun' \in 0..MaxRequests /\ collided' \in BOOLEAN
  <2>1. begun' = begun \/ (begun < MaxRequests /\ begun' = begun + 1)
    BY DEF NewTemplate, InsertDocument, InsertTemplate, InsertStyles, WriteStyle,
           Begin, End, Continue
  <2>2. \/ collided' = collided
        \/ \E places \in {{"remove", "delete"}} : \E t : collided' = (collided \/ OthersAt(w, places, t))
    BY DEF NewTemplate, InsertDocument, InsertTemplate, InsertStyles, WriteStyle, past
  <2>3. collided \in BOOLEAN /\ begun \in 0..MaxRequests
    BY DEF TemplatesBound
  <2>4. collided' \in BOOLEAN
    BY <2>2, <2>3, Zenon
  <2> QED
    BY <2>1, <2>3, <2>4, TemplateLimits
<1>4. ASSUME NEW k \in {"template", "style", "document"}, NEW n \in Nat, Count(k, n),
             k = "template" => last.template + n <= MaxTemplates,
             k = "style" => last.style + n <= MaxStyles,
             k = "document" => last.document + n <= MaxDocuments
      PROVE  TemplatesBound'
  <2>1. /\ last'.template <= MaxTemplates /\ last'.style <= MaxStyles
        /\ last'.document <= MaxDocuments
    BY <1>4, CountedWithin
  <2> QED
    BY <1>2, <1>3, <1>4, <2>1, BoundCounted
<1>5. CASE last' = last
  BY <1>2, <1>3, <1>5 DEF TemplatesBound
<1>6. CASE InsertTemplate(w) \/ \E u \in Authors : NewTemplate(w, u)
  <2>1. Count("template", 1) /\ last.template < MaxTemplates
    BY <1>6 DEF InsertTemplate, NewTemplate
  <2>2. last.template + 1 <= MaxTemplates
    BY <1>1, <2>1, TemplateLimits
  <2> QED
    BY <1>4, <2>1, <2>2
<1>7. CASE InsertDocument(w)
  <2>1. last' = last \/ (Count("document", 1) /\ last.document + 1 <= MaxDocuments)
    BY <1>1, <1>7, TemplateLimits DEF InsertDocument
  <2> QED
    BY <1>4, <1>5, <2>1
<1>8. CASE InsertStyles(w)
  <2>1. \/ last' = last
        \/ Count("style", task[w].styles) /\ last.style + task[w].styles <= MaxStyles
    BY <1>8 DEF InsertStyles
  <2>2. task[w].styles \in Nat
    BY <1>1, <1>8 DEF InsertStyles
  <2> QED
    BY <1>4, <1>5, <2>1, <2>2
<1>9. CASE WriteStyle(w)
  <2> DEFINE n == IF task[w].style = 0 THEN 1 ELSE 0
  <2>1. last' = last \/ (Count("style", n) /\ (n = 1 => last.style < MaxStyles))
    BY <1>9 DEF WriteStyle
  <2>2. n \in Nat /\ (n = 1 \/ n = 0)
    OBVIOUS
  <2> HIDE DEF n
  <2>3. last' = last \/ (Count("style", n) /\ last.style + n <= MaxStyles)
    BY <1>1, <2>1, <2>2, TemplateLimits DEF TemplatesBound
  <2> QED
    BY <1>4, <1>5, <2>2, <2>3
<1> QED
  BY <1>6, <1>7, <1>8, <1>9

LEMMA BoundOthers ==
    ASSUME TemplatesInv, TemplatesBound,
           \/ ShareDocument
           \/ \E w \in Workers : CommitDelete(w) \/ WriteTemplate(w) \/ RemoveTemplate(w) \/ RemoveStyle(w)
    PROVE  TemplatesBound'
<1> USE DEF ShareDocument, CommitDelete, WriteTemplate, RemoveTemplate, RemoveStyle
<1>1. UNCHANGED <<last, begun>>
  BY DEF End, Continue
<1>2. collided' \in BOOLEAN
  BY DEF past, RemoveRow, TemplatesBound
<1>3. readers' \subseteq readers \cup DOMAIN document
  OBVIOUS
<1> QED
  BY <1>1, <1>2, <1>3, BoundCounted DEF TemplatesBound

\* Rows refer to rows that were made, and histories to such rows (create_doc, import_create,
\* save_document_style, delete_unused_template).
THEOREM TemplatesTypeCorrect == TemplatesSpec => []TemplatesTypeOK
<1>1. TemplatesInit => TemplatesBound
  <2> SUFFICES ASSUME TemplatesInit PROVE TemplatesBound
    OBVIOUS
  <2>1. last.template = 1 /\ last.style = 1 /\ last.document = 0
    BY DEF TemplatesInit
  <2>2. begun \in 0..MaxRequests /\ collided \in BOOLEAN /\ readers = {}
    <3>1. begun = 0 /\ readers = {}
      BY DEF TemplatesInit
    <3>2. collided \in BOOLEAN
      BY Zenon DEF TemplatesInit
    <3> QED
      BY <3>1, <3>2, TemplateLimits
  <2>3. /\ last.template <= MaxTemplates /\ last.style <= MaxStyles /\ last.document <= MaxDocuments
        /\ readers \subseteq 1..last.document
    BY <2>1, <2>2, TemplateLimits
  <2> QED
    BY <2>2, <2>3 DEF TemplatesBound
<1>2. TemplatesInv /\ TemplatesBound /\ [TemplatesNext]_templateVars => TemplatesBound'
  <2> SUFFICES ASSUME TemplatesInv, TemplatesBound, [TemplatesNext]_templateVars PROVE TemplatesBound'
    OBVIOUS
  <2>1. CASE TemplatesNext
    BY <2>1, BoundRequests, BoundRows, BoundOthers DEF TemplatesNext
  <2>2. CASE UNCHANGED templateVars
    BY <2>2 DEF templateVars, TemplatesBound
  <2> QED
    BY <2>1, <2>2
<1>3. TemplatesInv /\ TemplatesBound => TemplatesTypeOK
  <2> SUFFICES ASSUME TemplatesInv, TemplatesBound PROVE TemplatesTypeOK
    OBVIOUS
  <2>1. \A s \in DOMAIN style : style[s] \in DOMAIN template
    BY DEF TemplatesInv, TemplatesTyped
  <2>2. last \in [{"template", "style", "document"} -> Nat]
    BY DEF TemplatesInv, TemplatesTyped
  <2> QED
    BY <2>1, <2>2 DEF TemplatesInv, TemplatesTyped, TemplatesBound, TemplatesTypeOK
<1>4. TemplatesInv /\ [TemplatesNext]_templateVars => TemplatesInv'
  BY TemplatesStepInv
<1> QED
  BY <1>1, <1>2, <1>3, <1>4, TemplatesInitial, PTL DEF TemplatesSpec

-----------------------------------------------------------------------------
(* Books, documents and their images.                                      *)

\* What a request has still to do refers to images.
JobRight(j) ==
    /\ j.at \in SaveSteps =>
          j = [at |-> j.at, who |-> j.who, list |-> j.list, cover |-> j.cover]
    /\ j.at \in {"collect", "delete book", "delete document", "remove"} =>
          j.todo \subseteq Images
    /\ j.at = "remove" => j.image \in Images

\* The images it has on its list.
TodoOf(j) ==
    CASE j.at \in {"collect", "delete book", "delete document"} -> j.todo
      [] j.at = "remove" -> j.todo \cup {j.image}
      [] OTHER -> {}

\* Rows refer to documents and images, and requests to images.
RowsRight ==
    /\ docs \subseteq Docs /\ chapters \subseteq docs /\ images \subseteq Images
    /\ book = [is |-> book.is, cover |-> book.cover]
    /\ book.cover \in Images \cup {None}
    /\ linked \subseteq Docs \X Images /\ owned \subseteq People \X Images
    /\ shared = [h \in {"mate", Invitation} |-> shared[h]]

JobsRight == job = [t \in Tasks |-> job[t]] /\ \A t \in Tasks : JobRight(job[t])

\* An image without a use is on the list of some request, or left behind.
EveryImage == \A i \in images : IsDeletable(i) => i \in left \/ \E t \in Tasks : i \in Todo(t)

\* Who deletes a document has listed its images, and who deletes the book its cover.
ListComplete ==
    \A t \in Tasks :
        /\ job[t].at = "delete document" =>
              \A i \in Images : <<job[t].doc, i>> \in linked => i \in job[t].todo \/ i \in left
        /\ job[t].at = "delete book" =>
              book.cover = None \/ book.cover \in job[t].todo \/ book.cover \in left

\* What is about to be removed has no use, or got one late.
RemovedRightly ==
    \A t \in Tasks :
        job[t].at = "remove" => IsDeletable(job[t].image) \/ job[t].image \in late

\* Those who share the book may read it, whatever the requests in progress.
ReadersKept ==
    \A h \in Sharing, d \in chapters :
        DocOwner[d] = "boss" /\ (h = Invitation => invited) => <<d, h>> \in access \cup withheld

LibraryInv ==
    /\ RowsRight /\ JobsRight
    /\ EveryImage /\ ListComplete /\ RemovedRightly /\ ~robbed
    /\ ReadersKept

LEMMA LoneNone == None \notin Images
BY LibraryAssumption DEF LibraryAssumption

LEMMA TodoIs == ASSUME NEW t PROVE Todo(t) = TodoOf(job[t])
BY DEF Todo, TodoOf

LEMMA TodoForms ==
    /\ TodoOf(Rest) = {} /\ Rest.at = "rest"
    /\ \A x : TodoOf(Collect(x)) = x
    /\ \A p, l, c : TodoOf([at |-> "store", who |-> p, list |-> l, cover |-> c]) = {}
    /\ \A j : j.at \in {"rest"} \cup SaveSteps => TodoOf(j) = {}
    /\ \A i, x : TodoOf([at |-> "remove", image |-> i, todo |-> x]) = x \cup {i}
    /\ \A d, x : TodoOf([at |-> "delete document", doc |-> d, todo |-> x]) = x
    /\ \A x : TodoOf([at |-> "delete book", todo |-> x]) = x
BY DEF TodoOf, Rest, Collect, SaveSteps

\* A request that saves the book goes on to another step.
LEMMA SaveForms ==
    ASSUME NEW t, NEW s \in SaveSteps, NEW l
    PROVE  Saving(t, s, l).at = s /\ JobRight(Saving(t, s, l))
BY DEF Saving, JobRight, SaveSteps

LEMMA CollectForms ==
    ASSUME NEW x
    PROVE  Collect(x).at \in {"rest", "collect"} /\ (x \subseteq Images => JobRight(Collect(x)))
BY DEF Collect, Rest, JobRight, SaveSteps

\* A request goes on, and the others stay where they are.
LEMMA GoesOn ==
    ASSUME JobsRight, NEW t \in Tasks, NEW w, Goes(t, w)
    PROVE  /\ job' = [u \in Tasks |-> job'[u]]
           /\ job'[t] = w /\ Todo(t)' = TodoOf(w)
           /\ \A u \in Tasks : u # t => job'[u] = job[u] /\ Todo(u)' = Todo(u)
<1>1. /\ job' = [u \in Tasks |-> job'[u]]
      /\ job'[t] = w
      /\ \A u \in Tasks : u # t => job'[u] = job[u]
  BY DEF JobsRight, Goes
<1>2. \A u \in Tasks : Todo(u) = TodoOf(job[u]) /\ Todo(u)' = TodoOf(job'[u])
  BY DEF Todo, TodoOf
<1> QED BY <1>1, <1>2

LEMMA JobsStayRight ==
    ASSUME JobsRight, NEW t \in Tasks, NEW w, Goes(t, w), JobRight(w)
    PROVE  JobsRight'
<1>1. /\ job' = [u \in Tasks |-> job'[u]]
      /\ job'[t] = w
      /\ \A u \in Tasks : u # t => job'[u] = job[u]
  BY GoesOn
<1>2. \A u \in Tasks : JobRight(job[u])
  BY DEF JobsRight
<1>3. \A u \in Tasks : JobRight(job'[u])
  BY <1>1, <1>2
<1> QED BY <1>1, <1>3 DEF JobsRight, JobRight

LEMMA LoneStays ==
    ASSUME UNCHANGED job
    PROVE  (JobsRight => JobsRight') /\ \A u \in Tasks : Todo(u)' = Todo(u)
BY DEF JobsRight, JobRight, Todo

\* The right to be where it is gives a request's list and image.
LEMMA TodoRight ==
    ASSUME JobsRight, NEW t \in Tasks
    PROVE  TodoOf(job[t]) \subseteq Images /\ Todo(t) \subseteq Images
<1>1. JobRight(job[t])
  BY DEF JobsRight
<1>2. TodoOf(job[t]) \subseteq Images
  BY <1>1 DEF JobRight, TodoOf
<1> QED BY <1>2, TodoIs

-----------------------------------------------------------------------------
(* Rows and requests stay right.                                           *)

LEMMA JobsKept ==
    ASSUME JobsRight, RowsRight, NEW t \in Tasks,
           BeginSave(t) \/ SaveStep(t) \/ RightsRequest(t) \/ ImageRequest(t) \/ ImageStep(t)
             \/ BeginDeleteDoc(t) \/ DeleteDoc(t) \/ BeginDeleteBook(t) \/ DeleteBook(t)
    PROVE  JobsRight'
<1>0. JobRight(job[t]) /\ JobRight(Rest)
  BY DEF JobsRight, JobRight, Rest, SaveSteps
<1>a. \A x : x \subseteq Images => JobRight(Collect(x))
  BY CollectForms
<1>1. CASE BeginSave(t)
  <2>1. PICK p \in People, list \in SUBSET docs, cover \in {book.cover, None} \cup images :
            Goes(t, [at |-> "store", who |-> p, list |-> list, cover |-> cover])
    BY <1>1 DEF BeginSave
  <2>2. JobRight([at |-> "store", who |-> p, list |-> list, cover |-> cover])
    BY DEF JobRight
  <2> QED BY <2>1, <2>2, JobsStayRight
<1>b. ASSUME NEW s \in SaveSteps, Goes(t, Rest) \/ \E l : Goes(t, Saving(t, s, l))
      PROVE  JobsRight'
  BY <1>b, <1>0, SaveForms, JobsStayRight
<1>2. CASE StoreBook(t)
  <2>1. Goes(t, Rest) \/ \E l : Goes(t, Saving(t, "chapters", l))
    BY <1>2 DEF StoreBook, WriteBook
  <2> QED BY <1>b, <2>1 DEF SaveSteps
<1>3. CASE ClearChapters(t)
  <2>1. Goes(t, Rest) \/ \E l : Goes(t, Saving(t, "add", l))
    BY <1>3 DEF ClearChapters
  <2> QED BY <1>b, <2>1 DEF SaveSteps
<1>4. CASE job[t].at = "add" /\ AddChapter(t)
  <2>1. Goes(t, Rest) \/ \E l : Goes(t, Saving(t, "again", l))
    BY <1>4 DEF AddChapter
  <2> QED BY <1>b, <2>1 DEF SaveSteps
<1>16. CASE StoreAgain(t)
  <2>1. Goes(t, Rest) \/ \E l : Goes(t, Saving(t, "add", l))
    BY <1>16 DEF StoreAgain, WriteBook
  <2> QED BY <1>b, <2>1 DEF SaveSteps
<1>5. CASE ChapterRefused(t)
  BY <1>5, <1>0, JobsStayRight DEF ChapterRefused
<1>6. CASE RightsRequest(t)
  BY <1>6, LoneStays DEF RightsRequest, ShareBook, UnshareBook, ShareDoc, UnshareDoc,
                         AcceptInvitation, DeclineInvitation, AtOnce
<1>7. CASE Upload(t) \/ Insert(t)
  BY <1>7, LoneStays DEF Upload, Insert, AtOnce
<1>8. CASE Drop(t) \/ Forget(t)
  <2>1. PICK i \in Images : Goes(t, Collect({i}))
    BY <1>8 DEF Drop, Forget, RowsRight
  <2>2. JobRight(Collect({i}))
    BY <1>a
  <2> QED BY <2>1, <2>2, JobsStayRight
<1>9. CASE job[t].at = "collect" /\ CheckImage(t)
  <2>0. job[t].todo \subseteq Images
    BY <1>0, <1>9 DEF JobRight
  <2>1. PICK i \in job[t].todo : \/ Goes(t, [at |-> "remove", image |-> i, todo |-> job[t].todo \ {i}])
                                 \/ Goes(t, Collect(job[t].todo \ {i}))
    BY <1>9 DEF CheckImage
  <2>2. JobRight([at |-> "remove", image |-> i, todo |-> job[t].todo \ {i}])
    BY <2>0 DEF JobRight, SaveSteps
  <2>3. JobRight(Collect(job[t].todo \ {i}))
    BY <2>0, <1>a
  <2> QED BY <2>1, <2>2, <2>3, JobsStayRight
<1>10. CASE RemoveImage(t) \/ DeleteDoc(t) \/ DeleteBook(t)
  <2>1. job[t].at \in {"remove", "delete document", "delete book"} /\ Goes(t, Collect(job[t].todo))
    BY <1>10 DEF RemoveImage, DeleteDoc, DeleteRows, DeleteBook
  <2>2. JobRight(Collect(job[t].todo))
    BY <2>1, <1>0, <1>a DEF JobRight
  <2> QED BY <2>1, <2>2, JobsStayRight
<1>11. CASE BeginDeleteDoc(t)
  <2>1. PICK d \in docs : Goes(t, [at |-> "delete document", doc |-> d, todo |-> ImagesOf(d)])
    BY <1>11 DEF BeginDeleteDoc
  <2>2. JobRight([at |-> "delete document", doc |-> d, todo |-> ImagesOf(d)])
    BY DEF JobRight, ImagesOf, SaveSteps
  <2> QED BY <2>1, <2>2, JobsStayRight
<1>12. CASE BeginDeleteBook(t)
  <2>1. Goes(t, [at |-> "delete book", todo |-> {book.cover} \ {None}])
    BY <1>12 DEF BeginDeleteBook
  <2>2. JobRight([at |-> "delete book", todo |-> {book.cover} \ {None}])
    BY DEF JobRight, RowsRight, SaveSteps
  <2> QED BY <2>1, <2>2, JobsStayRight
<1> QED BY <1>1, <1>2, <1>3, <1>4, <1>5, <1>6, <1>7, <1>8, <1>9, <1>10, <1>11, <1>12, <1>16
        DEF SaveStep, ImageRequest, ImageStep

LEMMA RowsStayRight ==
    ASSUME JobsRight, RowsRight, NEW t \in Tasks,
           BeginSave(t) \/ SaveStep(t) \/ RightsRequest(t) \/ ImageRequest(t) \/ ImageStep(t)
             \/ BeginDeleteDoc(t) \/ DeleteDoc(t) \/ BeginDeleteBook(t) \/ DeleteBook(t)
    PROVE  RowsRight'
<1>1. CASE BeginSave(t) \/ ChapterRefused(t) \/ (job[t].at = "collect" /\ CheckImage(t))
             \/ BeginDeleteDoc(t) \/ BeginDeleteBook(t)
  BY <1>1 DEF BeginSave, ChapterRefused, CheckImage, BeginDeleteDoc, BeginDeleteBook, rights, RowsRight
<1>2. CASE StoreBook(t) \/ StoreAgain(t)
  BY <1>2 DEF StoreBook, StoreAgain, WriteBook, rights, RowsRight
<1>3. CASE ClearChapters(t)
  BY <1>3 DEF ClearChapters, rights, RowsRight
<1>4. CASE job[t].at = "add" /\ AddChapter(t)
  BY <1>4 DEF AddChapter, RowsRight
<1>5. CASE ShareBook(t) \/ UnshareBook(t)
  BY <1>5 DEF ShareBook, UnshareBook, RowsRight
<1>6. CASE ShareDoc(t) \/ UnshareDoc(t) \/ DeclineInvitation(t)
  BY <1>6 DEF ShareDoc, UnshareDoc, DeclineInvitation, RowsRight
<1>7. CASE AcceptInvitation(t)
  <2>1. shared' = [h \in {"mate", Invitation} |-> shared'[h]]
    BY <1>7 DEF AcceptInvitation, RowsRight
  <2> QED BY <1>7, <2>1 DEF AcceptInvitation, RowsRight
<1>8. CASE Upload(t)
  BY <1>8 DEF Upload, rights, RowsRight
<1>9. CASE Insert(t)
  BY <1>9 DEF Insert, rights, RowsRight
<1>10. CASE Drop(t) \/ Forget(t)
  BY <1>10 DEF Drop, Forget, rights, RowsRight
<1>11. CASE RemoveImage(t)
  BY <1>11 DEF RemoveImage, NoBook, RowsRight
<1>12. CASE DeleteDoc(t)
  BY <1>12 DEF DeleteDoc, DeleteRows, RowsRight
<1>13. CASE DeleteBook(t)
  BY <1>13 DEF DeleteBook, NoBook, RowsRight
<1> QED BY <1>1, <1>2, <1>3, <1>4, <1>5, <1>6, <1>7, <1>8, <1>9, <1>10, <1>11, <1>12, <1>13
        DEF SaveStep, RightsRequest, ImageRequest, ImageStep

-----------------------------------------------------------------------------
(* Readers.                                                                *)

LEMMA ReadersStay ==
    ASSUME ReadersKept, RowsRight, NEW t \in Tasks,
           BeginSave(t) \/ SaveStep(t) \/ RightsRequest(t) \/ ImageRequest(t) \/ ImageStep(t)
             \/ BeginDeleteDoc(t) \/ DeleteDoc(t) \/ BeginDeleteBook(t) \/ DeleteBook(t)
    PROVE  ReadersKept'
<1> DEFINE MayRead(h, d) ==
      DocOwner[d] = "boss" /\ (h = Invitation => invited) => <<d, h>> \in access \/ <<d, h>> \in withheld
<1>0. \A h \in {"mate", Invitation}, d \in chapters : shared[h] # None => MayRead(h, d)
  BY DEF ReadersKept, Sharing
<1> SUFFICES ASSUME NEW h \in {"mate", Invitation}, NEW d \in chapters', shared'[h] # None
             PROVE  MayRead(h, d)'
  BY DEF ReadersKept, Sharing
<1>1. CASE BeginSave(t) \/ StoreBook(t) \/ StoreAgain(t) \/ ChapterRefused(t) \/ ImageRequest(t)
             \/ (job[t].at = "collect" /\ CheckImage(t)) \/ BeginDeleteDoc(t) \/ BeginDeleteBook(t)
  <2>1. UNCHANGED <<shared, chapters, access, withheld, invited>>
    BY <1>1 DEF BeginSave, StoreBook, StoreAgain, WriteBook, ChapterRefused, ImageRequest, Upload, Insert, Drop, Forget,
               CheckImage, BeginDeleteDoc, BeginDeleteBook, rights, libraryHistory
  <2> QED BY <2>1, <1>0
<1>3. CASE ClearChapters(t)
  BY <1>3, <1>0 DEF ClearChapters, rights, libraryHistory
<1>4. CASE job[t].at = "add" /\ AddChapter(t)
  <2>1. shared' = shared /\ invited' = invited
    BY <1>4 DEF AddChapter
  <2>2. PICK c : /\ chapters' = chapters \cup {c}
                 /\ \/ /\ access' = access \cup {<<c, g>> : g \in Sharing}
                       /\ withheld' = withheld \ access'
                    \/ /\ withheld' = withheld \cup {<<c, g>> : g \in Sharing}
                       /\ access' = access
    BY <1>4 DEF AddChapter, BookSharers
  <2>3. h \in Sharing
    BY <2>1 DEF Sharing
  <2>4. CASE d = c
    BY <2>2, <2>3, <2>4
  <2>5. CASE d # c
    BY <2>1, <2>2, <2>5, <1>0
  <2> QED BY <2>4, <2>5
<1>5. CASE ShareBook(t)
  <2>1. PICK g \in {"mate", Invitation}, r \in {"read", "write"} :
                 /\ shared' = [shared EXCEPT ![g] = r]
                 /\ \A c \in chapters : DocOwner[c] = "boss" => <<c, g>> \in access'
                 /\ access \subseteq access'
                 /\ withheld' = withheld \ access'
                 /\ invited' = invited /\ chapters' = chapters
    BY <1>5 DEF ShareBook
  <2>2. CASE h = g
    BY <2>1, <2>2
  <2>3. CASE h # g
    <3>1. shared[h] # None
      BY <2>1, <2>3 DEF RowsRight
    <3> QED BY <2>1, <3>1, <1>0
  <2> QED BY <2>2, <2>3
<1>6. CASE UnshareBook(t)
  <2>1. UNCHANGED <<chapters, access, withheld, invited>> /\ shared[h] # None
    BY <1>6 DEF UnshareBook, libraryHistory, RowsRight
  <2> QED BY <2>1, <1>0
<1>7. CASE ShareDoc(t) \/ UnshareDoc(t)
  <2>1. UNCHANGED <<chapters, shared, invited>>
    BY <1>7 DEF ShareDoc, UnshareDoc
  <2>2. <<d, h>> \in access \/ <<d, h>> \in withheld => <<d, h>> \in access' \/ <<d, h>> \in withheld'
    BY <1>7 DEF ShareDoc, UnshareDoc
  <2> QED BY <2>1, <2>2, <1>0
<1>8. CASE AcceptInvitation(t)
  <2>1. invited /\ ~invited' /\ chapters' = chapters /\ h \in {"mate", Invitation}
    BY <1>8 DEF AcceptInvitation
  <2> SUFFICES ASSUME h = "mate", DocOwner[d] = "boss"
               PROVE  <<d, h>> \in access' \/ <<d, h>> \in withheld'
    BY <2>1
  <2>2. d \in Docs /\ d \in chapters
    BY <2>1 DEF RowsRight
  <2>3. shared["mate"] # None \/ shared[Invitation] # None
    BY <1>8 DEF AcceptInvitation, RowsRight
  <2>4. CASE shared["mate"] # None
    <3>1. <<d, "mate">> \in access \/ <<d, "mate">> \in withheld
      BY <2>4, <2>2, <1>0 DEF Invitation
    <3> QED BY <3>1, <1>8 DEF AcceptInvitation, Invitation
  <2>5. CASE shared[Invitation] # None
    <3>1. <<d, Invitation>> \in access \/ <<d, Invitation>> \in withheld
      BY <2>5, <2>1, <2>2, <1>0
    <3>2. CASE <<d, Invitation>> \in access
      <4>1. d \in {c \in {e \in Docs : <<e, Invitation>> \in access} : DocOwner[c] # "mate"}
        BY <3>2, <2>2
      <4>2. <<d, "mate">> \in access'
        BY <4>1, <1>8 DEF AcceptInvitation
      <4> QED BY <4>2
    <3>3. CASE <<d, Invitation>> \in withheld
      BY <3>3, <2>2, <1>8 DEF AcceptInvitation
    <3> QED BY <3>1, <3>2, <3>3
  <2> QED BY <2>3, <2>4, <2>5
<1>9. CASE DeclineInvitation(t)
  <2>1. /\ ~invited' /\ UNCHANGED <<chapters, shared, withheld>>
        /\ access' = {r \in access : r[2] # Invitation}
    BY <1>9 DEF DeclineInvitation, libraryHistory
  <2>2. CASE h = Invitation
    BY <2>1, <2>2
  <2>3. CASE h # Invitation
    BY <2>1, <2>3, <1>0
  <2> QED BY <2>2, <2>3
<1>10. CASE RemoveImage(t) \/ DeleteBook(t)
  <2>1. UNCHANGED <<access, withheld, invited>>
    BY <1>10 DEF RemoveImage, DeleteBook, libraryHistory
  <2>0. DOMAIN shared = {"mate", Invitation}
    BY DEF RowsRight
  <2>2. shared[h] # None /\ d \in chapters
    BY <1>10, <2>0 DEF RemoveImage, DeleteBook
  <2> QED BY <2>1, <2>2, <1>0
<1>11. CASE DeleteDoc(t)
  <2>1. UNCHANGED <<shared, invited, withheld>>
    BY <1>11 DEF DeleteDoc, libraryHistory
  <2>2. /\ access' = {r \in access : r[1] # job[t].doc}
        /\ chapters' = chapters \ {job[t].doc}
    BY <1>11 DEF DeleteDoc, DeleteRows
  <2> QED BY <2>1, <2>2, <1>0
<1> QED BY <1>1, <1>3, <1>4, <1>5, <1>6, <1>7, <1>8, <1>9, <1>10, <1>11
        DEF SaveStep, RightsRequest, ImageStep

-----------------------------------------------------------------------------
(* Images and their uses.                                                  *)

UsesRight == EveryImage /\ ListComplete /\ RemovedRightly /\ ~robbed

\* No image gains or loses a use, and no list is done with.
LEMMA UsesAside ==
    ASSUME UsesRight, JobsRight, NEW t \in Tasks,
           UNCHANGED <<linked, owned, book, images, left, late, robbed>>,
           NEW w, Goes(t, w), Todo(t) = {},
           w.at \notin {"delete document", "delete book", "remove"}
    PROVE  UsesRight'
<1>1. /\ job'[t] = w /\ \A u \in Tasks : u # t => job'[u] = job[u] /\ Todo(u)' = Todo(u)
  BY GoesOn
<1>2. \A i : IsDeletable(i)' <=> IsDeletable(i)
  BY DEF IsDeletable
<1>3. EveryImage'
  BY <1>1, <1>2 DEF UsesRight, EveryImage
<1>4. ListComplete'
  BY <1>1 DEF UsesRight, ListComplete
<1>5. RemovedRightly'
  BY <1>1, <1>2 DEF UsesRight, RemovedRightly
<1> QED BY <1>3, <1>4, <1>5 DEF UsesRight

LEMMA UsesUntouched ==
    ASSUME UsesRight, UNCHANGED <<job, linked, owned, book, images, left, late, robbed>>
    PROVE  UsesRight'
<1>1. \A i : IsDeletable(i)' <=> IsDeletable(i)
  BY DEF IsDeletable
<1>2. \A u \in Tasks : Todo(u)' = Todo(u)
  BY LoneStays
<1> QED BY <1>1, <1>2 DEF UsesRight, EveryImage, ListComplete, RemovedRightly

\* A book is saved, or not.
LEMMA UsesSave ==
    ASSUME UsesRight, JobsRight, RowsRight, NEW t \in Tasks, BeginSave(t) \/ SaveStep(t)
    PROVE  UsesRight'
<1>0. \A j : j.at \in {"rest"} \cup SaveSteps => TodoOf(j) = {}
  BY TodoForms
<1>b. {"rest"} \cup SaveSteps = {"rest", "store", "chapters", "add", "again"}
  BY DEF SaveSteps
<1>a. Todo(t) = TodoOf(job[t]) /\ Rest.at = "rest" /\ JobRight(job[t])
  BY TodoIs DEF Rest, JobsRight
<1>1. CASE BeginSave(t)
  <2>1. PICK p \in People, list \in SUBSET docs, cover \in {book.cover, None} \cup images :
          Goes(t, [at |-> "store", who |-> p, list |-> list, cover |-> cover])
    BY <1>1 DEF BeginSave
  <2>2. job[t] = Rest /\ UNCHANGED <<linked, owned, book, images, left, late, robbed>>
    BY <1>1 DEF BeginSave, Accept, libraryHistory
  <2>3. Todo(t) = {}
    BY <2>2, <1>0, <1>a, <1>b
  <2>4. [at |-> "store", who |-> p, list |-> list, cover |-> cover].at = "store"
    OBVIOUS
  <2> QED BY <2>1, <2>2, <2>3, <2>4, UsesAside
<1>2. ASSUME NEW then, WriteBook(t, then), job[t].at \in SaveSteps,
             then.at \in {"rest", "chapters", "add"}
      PROVE  UsesRight'
  <2> DEFINE cover == job[t].cover
  <2>0. Todo(t) = {}
    BY <1>2, <1>0, <1>a
  <2>1. CASE cover \notin images \cup {None}
    <3>1. Goes(t, Rest) /\ UNCHANGED <<linked, owned, book, images, left, late, robbed>>
      BY <1>2, <2>1 DEF WriteBook
    <3> QED BY <3>1, <2>0, <1>a, UsesAside
  <2>2. CASE cover \in images \cup {None}
    <3>1. /\ book' = [is |-> TRUE, cover |-> cover]
          /\ Goes(t, then)
          /\ left' = (left \cup LeftBehind(cover)) \ {None}
          /\ Used(cover)
          /\ UNCHANGED <<linked, owned, images, robbed>>
      BY <1>2, <2>2 DEF WriteBook
    <3>2. book'.cover = cover
      BY <3>1
    <3>3. /\ job'[t].at \in {"rest", "chapters", "add"}
          /\ \A u \in Tasks : u # t => job'[u] = job[u] /\ Todo(u)' = Todo(u)
      BY <3>1, <1>2, GoesOn
    <3>4. None \notin Images /\ images \subseteq Images
      BY LoneNone DEF RowsRight
    <3> HIDE DEF cover
    <3>5. \A i : IsDeletable(i)' <=> /\ \A d \in Docs : <<d, i>> \notin linked
                                     /\ \A p \in People : <<p, i>> \notin owned
                                     /\ cover # i
      BY <3>1, <3>2 DEF IsDeletable
    <3>6. \A i \in Images : (i \in left => i \in left') /\ (i = book.cover /\ i # cover => i \in left')
      BY <3>1, <3>4 DEF LeftBehind
    <3>7. EveryImage'
      <4> SUFFICES ASSUME NEW i \in images, IsDeletable(i)'
                   PROVE  i \in left' \/ \E u \in Tasks : i \in Todo(u)'
        BY <3>1 DEF EveryImage
      <4>1. CASE i = book.cover
        BY <4>1, <3>4, <3>5, <3>6
      <4>2. CASE i # book.cover
        <5>1. IsDeletable(i)
          BY <4>2, <3>5 DEF IsDeletable
        <5>2. i \in left \/ \E u \in Tasks : u # t /\ i \in Todo(u)
          BY <5>1, <2>0 DEF UsesRight, EveryImage
        <5> QED BY <5>2, <3>3, <3>4, <3>6
      <4> QED BY <4>1, <4>2
    <3>8. ListComplete'
      <4> SUFFICES ASSUME NEW u \in Tasks
                   PROVE  /\ job'[u].at = "delete document" =>
                               \A i \in Images : <<job'[u].doc, i>> \in linked' =>
                                   i \in job'[u].todo \/ i \in left'
                          /\ job'[u].at = "delete book" =>
                               book'.cover = None \/ book'.cover \in job'[u].todo \/ book'.cover \in left'
        BY DEF ListComplete
      <4>1. CASE job'[u].at = "delete document"
        BY <4>1, <3>1, <3>3, <3>6 DEF UsesRight, ListComplete
      <4>2. CASE job'[u].at = "delete book"
        <5>1. job[u].at = "delete book"
          BY <4>2, <3>3
        <5>2. cover \in LeftBehind(cover)
          BY <5>1 DEF LeftBehind
        <5> QED BY <5>2, <4>2, <3>1, <3>2
      <4> QED BY <4>1, <4>2
    <3>9. RemovedRightly'
      <4> SUFFICES ASSUME NEW u \in Tasks, NEW k, job'[u].at = "remove", k = job'[u].image
                   PROVE  IsDeletable(k)' \/ k \in late'
        BY DEF RemovedRightly, IsDeletable
      <4>1. job'[u] = job[u] /\ job[u].at = "remove"
        BY <3>3
      <4>2. late \subseteq late' /\ (k = cover => cover \in late')
        BY <3>1, <4>1 DEF Used
      <4>3. IsDeletable(k) /\ k # cover => IsDeletable(k)'
        BY <3>5 DEF IsDeletable
      <4>4. IsDeletable(k) \/ k \in late
        BY <4>1 DEF UsesRight, RemovedRightly
      <4> QED BY <4>1, <4>2, <4>3, <4>4
    <3> QED BY <3>1, <3>7, <3>8, <3>9 DEF UsesRight
  <2> QED BY <2>1, <2>2
<1>3. CASE ClearChapters(t)
  <2>0. job[t].at = "chapters" /\ Todo(t) = {} /\ UNCHANGED <<linked, owned, book, images, left, late, robbed>>
    BY <1>3, <1>0, <1>a, <1>b DEF ClearChapters, libraryHistory
  <2>1. PICK w : Goes(t, w) /\ w.at \in {"rest", "add"}
    <3>2. \A l : Saving(t, "add", l).at = "add"
      BY SaveForms DEF SaveSteps
    <3> QED BY <1>3, <1>a, <3>2 DEF ClearChapters
  <2> QED BY <2>0, <2>1, UsesAside
<1>4. CASE job[t].at = "add" /\ AddChapter(t)
  <2>0. job[t].at = "add" /\ Todo(t) = {} /\ UNCHANGED <<linked, owned, book, images, left, late, robbed>>
    BY <1>4, <1>0, <1>a, <1>b DEF AddChapter
  <2>1. PICK w : Goes(t, w) /\ w.at \in {"rest", "again"}
    <3>2. \A l : Saving(t, "again", l).at = "again"
      BY SaveForms DEF SaveSteps
    <3> QED BY <1>4, <1>a, <3>2 DEF AddChapter
  <2> QED BY <2>0, <2>1, UsesAside
<1>5. CASE ChapterRefused(t)
  <2>0. /\ Todo(t) = {} /\ Goes(t, Rest)
        /\ UNCHANGED <<linked, owned, book, images, left, late, robbed>>
    BY <1>5, <1>0, <1>a, <1>b DEF ChapterRefused, libraryHistory
  <2> QED BY <2>0, <1>a, UsesAside
<1>6. CASE StoreBook(t)
  <2>1. PICK w : w = Saving(t, "chapters", job[t].list)
    OBVIOUS
  <2>2. job[t].at = "store" /\ WriteBook(t, w)
    BY <1>6, <2>1 DEF StoreBook
  <2>3. w.at = "chapters"
    BY <2>1, SaveForms DEF SaveSteps
  <2> QED BY <1>2, <2>2, <2>3 DEF SaveSteps
<1>7. CASE StoreAgain(t)
  <2>1. PICK w : w = IF job[t].list = {} THEN Rest ELSE Saving(t, "add", job[t].list)
    OBVIOUS
  <2>2. job[t].at = "again" /\ WriteBook(t, w)
    BY <1>7, <2>1 DEF StoreAgain
  <2>3. Saving(t, "add", job[t].list).at = "add"
    BY SaveForms DEF SaveSteps
  <2>4. w.at \in {"rest", "add"}
    BY <2>1, <2>3, <1>a
  <2> QED BY <1>2, <2>2, <2>4 DEF SaveSteps
<1> QED BY <1>1, <1>3, <1>4, <1>5, <1>6, <1>7 DEF SaveStep

\* An image gets a use, with its upload or without.
LEMMA UsesGained ==
    ASSUME UsesRight, JobsRight, RowsRight, NEW t \in Tasks, Upload(t) \/ Insert(t)
    PROVE  UsesRight'
<1>0. job' = job /\ \A u \in Tasks : Todo(u)' = Todo(u) /\ Todo(u) = TodoOf(job[u])
  BY LoneStays, TodoIs DEF Upload, Insert, AtOnce
<1>1. CASE Upload(t)
  <2>1. PICK p \in People, i \in Images :
          /\ IsNew(i) /\ images' = images \cup {i} /\ owned' = owned \cup {<<p, i>>}
          /\ UNCHANGED <<linked, book, left, late, robbed>>
    BY <1>1 DEF Upload, libraryHistory
  <2>2. /\ ~IsDeletable(i)'
        /\ \A k : k # i => (IsDeletable(k)' <=> IsDeletable(k))
    BY <2>1 DEF IsDeletable
  <2>3. EveryImage'
    BY <2>1, <2>2, <1>0 DEF UsesRight, EveryImage
  <2>4. ListComplete'
    BY <2>1, <1>0 DEF UsesRight, ListComplete
  <2>5. RemovedRightly'
    <3>1. \A u \in Tasks : job[u].at = "remove" => job[u].image # i
      BY <2>1 DEF IsNew, Todo
    <3> QED BY <3>1, <2>1, <2>2, <1>0 DEF UsesRight, RemovedRightly
  <2> QED BY <2>1, <2>3, <2>4, <2>5 DEF UsesRight
<1>2. CASE Insert(t)
  <2>1. PICK d \in docs, i \in Images :
          /\ images' = images \cup {i} /\ linked' = linked \cup {<<d, i>>}
          /\ left' = (IF Listed(d) THEN left \cup {i} ELSE left) /\ Used(i)
          /\ UNCHANGED <<owned, book, robbed>>
    BY <1>2 DEF Insert
  <2>2. /\ ~IsDeletable(i)' /\ left \subseteq left' /\ late \subseteq late'
        /\ \A k : k # i => (IsDeletable(k)' <=> IsDeletable(k))
    BY <2>1 DEF IsDeletable, RowsRight, Used
  <2>3. EveryImage'
    BY <2>1, <2>2, <1>0 DEF UsesRight, EveryImage
  <2>4. ListComplete'
    <3> SUFFICES ASSUME NEW u \in Tasks
                 PROVE  /\ job[u].at = "delete document" =>
                             \A k \in Images : <<job[u].doc, k>> \in linked' =>
                                 k \in job[u].todo \/ k \in left'
                        /\ job[u].at = "delete book" =>
                             book.cover = None \/ book.cover \in job[u].todo \/ book.cover \in left'
      BY <1>0, <2>1 DEF ListComplete
    <3>1. job[u].at = "delete book" =>
              book.cover = None \/ book.cover \in job[u].todo \/ book.cover \in left'
      BY <2>2 DEF UsesRight, ListComplete
    <3>2. ASSUME job[u].at = "delete document", NEW k \in Images, <<job[u].doc, k>> \in linked'
          PROVE  k \in job[u].todo \/ k \in left'
      <4>1. CASE <<job[u].doc, k>> \in linked
        BY <4>1, <3>2, <2>2 DEF UsesRight, ListComplete
      <4>2. CASE job[u].doc = d /\ k = i
        BY <4>2, <3>2, <2>1 DEF Listed
      <4> QED BY <4>1, <4>2, <3>2, <2>1
    <3> QED BY <3>1, <3>2
  <2>5. RemovedRightly'
    <3>1. \A u \in Tasks : job[u].at = "remove" /\ job[u].image = i => i \in late'
      BY <2>1 DEF Used
    <3> QED BY <3>1, <2>2, <1>0 DEF UsesRight, RemovedRightly
  <2> QED BY <2>1, <2>3, <2>4, <2>5 DEF UsesRight
<1> QED BY <1>1, <1>2

\* A use goes, and the image is looked at.
LEMMA UsesLost ==
    ASSUME UsesRight, JobsRight, RowsRight, NEW t \in Tasks, Drop(t) \/ Forget(t)
    PROVE  UsesRight'
<1>1. PICK i \in Images :
        /\ Goes(t, Collect({i})) /\ UNCHANGED <<book, images, left, late, robbed>>
        /\ linked' \subseteq linked /\ owned' \subseteq owned
        /\ \A k : k # i => /\ \A d \in Docs : <<d, k>> \in linked' <=> <<d, k>> \in linked
                           /\ \A p \in People : <<p, k>> \in owned' <=> <<p, k>> \in owned
  <2>1. CASE Drop(t)
    <3>1. PICK r \in linked : linked' = linked \ {r} /\ Goes(t, Collect({r[2]}))
                              /\ UNCHANGED <<owned, book, images, left, late, robbed>>
      BY <2>1 DEF Drop, libraryHistory
    <3>2. r[2] \in Images
      BY DEF RowsRight
    <3>3. \A d, k : k # r[2] => <<d, k>> # r
      OBVIOUS
    <3> QED BY <3>1, <3>2, <3>3
  <2>2. CASE Forget(t)
    <3>1. PICK r \in owned : owned' = owned \ {r} /\ Goes(t, Collect({r[2]}))
                             /\ UNCHANGED <<linked, book, images, left, late, robbed>>
      BY <2>2 DEF Forget, libraryHistory
    <3>2. r[2] \in Images
      BY DEF RowsRight
    <3>3. \A p, k : k # r[2] => <<p, k>> # r
      OBVIOUS
    <3> QED BY <3>1, <3>2, <3>3
  <2> QED BY <2>1, <2>2
<1>2. Todo(t) = {}
  BY TodoIs, TodoForms DEF Drop, Forget, Accept
<1>3. /\ job'[t].at \in {"rest", "collect"} /\ Todo(t)' = {i}
      /\ \A u \in Tasks : u # t => job'[u] = job[u] /\ Todo(u)' = Todo(u)
  BY <1>1, GoesOn, TodoForms, CollectForms
<1>4. /\ \A k : k # i => (IsDeletable(k)' <=> IsDeletable(k))
      /\ \A k : IsDeletable(k) => IsDeletable(k)'
  BY <1>1 DEF IsDeletable
<1>5. EveryImage'
  BY <1>1, <1>2, <1>3, <1>4 DEF UsesRight, EveryImage
<1>6. ListComplete'
  BY <1>1, <1>3 DEF UsesRight, ListComplete
<1>7. RemovedRightly'
  BY <1>1, <1>3, <1>4 DEF UsesRight, RemovedRightly
<1> QED BY <1>1, <1>5, <1>6, <1>7 DEF UsesRight

\* The images of a request are looked at, and those without a use are removed.
LEMMA UsesChecked ==
    ASSUME UsesRight, JobsRight, RowsRight, NEW t \in Tasks,
           job[t].at = "collect", CheckImage(t)
    PROVE  UsesRight'
<1>1. PICK i \in job[t].todo :
        LET goes == i \in images /\ IsDeletable(i)
            others == job[t].todo \ {i}
        IN  /\ Goes(t, IF goes THEN [at |-> "remove", image |-> i, todo |-> others]
                               ELSE Collect(others))
            /\ late' = IF goes THEN late \ {i} ELSE late
            /\ UNCHANGED <<book, images, linked, owned, left, robbed>>
  BY DEF CheckImage
<1>2. \A k : IsDeletable(k)' <=> IsDeletable(k)
  BY <1>1 DEF IsDeletable
<1>3. Todo(t) = job[t].todo
  BY DEF Todo
<1>4. CASE i \in images /\ IsDeletable(i)
  <2>1. /\ Goes(t, [at |-> "remove", image |-> i, todo |-> job[t].todo \ {i}])
        /\ late' = late \ {i}
    BY <1>1, <1>4
  <2>a. /\ job'[t] = [at |-> "remove", image |-> i, todo |-> job[t].todo \ {i}]
        /\ Todo(t)' = TodoOf([at |-> "remove", image |-> i, todo |-> job[t].todo \ {i}])
        /\ \A u \in Tasks : u # t => job'[u] = job[u] /\ Todo(u)' = Todo(u)
    BY <2>1, GoesOn
  <2>b. Todo(t)' = (job[t].todo \ {i}) \cup {i}
    BY <2>a, TodoForms
  <2>2. /\ job'[t].at = "remove" /\ job'[t].image = i /\ Todo(t)' = Todo(t)
        /\ \A u \in Tasks : u # t => job'[u] = job[u] /\ Todo(u)' = Todo(u)
    BY <2>a, <2>b, <1>3
  <2>3. EveryImage'
    BY <1>1, <1>2, <2>2 DEF UsesRight, EveryImage
  <2>4. ListComplete'
    BY <1>1, <2>2 DEF UsesRight, ListComplete
  <2>5. RemovedRightly'
    BY <1>2, <1>4, <2>1, <2>2 DEF UsesRight, RemovedRightly
  <2> QED BY <1>1, <2>3, <2>4, <2>5 DEF UsesRight
<1>5. CASE ~(i \in images /\ IsDeletable(i))
  <2>1. Goes(t, Collect(job[t].todo \ {i})) /\ late' = late
    BY <1>1, <1>5
  <2>2. /\ job'[t].at \in {"rest", "collect"} /\ Todo(t)' = Todo(t) \ {i}
        /\ \A u \in Tasks : u # t => job'[u] = job[u] /\ Todo(u)' = Todo(u)
    <3>1. /\ job'[t] = Collect(job[t].todo \ {i}) /\ Todo(t)' = TodoOf(Collect(job[t].todo \ {i}))
          /\ \A u \in Tasks : u # t => job'[u] = job[u] /\ Todo(u)' = Todo(u)
      BY <2>1, GoesOn
    <3>2. TodoOf(Collect(job[t].todo \ {i})) = job[t].todo \ {i}
      BY TodoForms
    <3> QED BY <3>1, <3>2, <1>3, CollectForms
  <2>3. EveryImage'
    BY <1>1, <1>2, <1>5, <2>2 DEF UsesRight, EveryImage
  <2>4. ListComplete'
    BY <1>1, <2>2 DEF UsesRight, ListComplete
  <2>5. RemovedRightly'
    BY <1>2, <2>1, <2>2 DEF UsesRight, RemovedRightly
  <2> QED BY <1>1, <2>3, <2>4, <2>5 DEF UsesRight
<1> QED BY <1>4, <1>5

LEMMA UsesRemoved ==
    ASSUME UsesRight, JobsRight, RowsRight, NEW t \in Tasks, RemoveImage(t)
    PROVE  UsesRight'
<1>0. PICK i : i = job[t].image
  OBVIOUS
<1>1. /\ job[t].at = "remove" /\ images' = images \ {i}
      /\ linked' = {r \in linked : r[2] # i} /\ owned' = {r \in owned : r[2] # i}
      /\ book' = (IF book.cover = i THEN NoBook ELSE book)
      /\ Goes(t, Collect(job[t].todo))
      /\ robbed' = (robbed \/ (~IsDeletable(i) /\ i \notin late))
      /\ left' = left \ {i} /\ late' = late \ {i}
  BY <1>0 DEF RemoveImage
<1>2. /\ job'[t].at \in {"rest", "collect"} /\ Todo(t)' = job[t].todo
      /\ \A u \in Tasks : u # t => job'[u] = job[u] /\ Todo(u)' = Todo(u)
  <2>1. TodoOf(Collect(job[t].todo)) = job[t].todo
    BY TodoForms
  <2>2. Collect(job[t].todo).at \in {"rest", "collect"}
    BY CollectForms
  <2> QED BY <1>1, GoesOn, <2>1, <2>2
<1>3. Todo(t) = job[t].todo \cup {i}
  BY <1>0, <1>1 DEF Todo
<1>4. \A u \in Tasks : job[u].at = "remove" => job[u].image \in Images
  BY DEF JobsRight, JobRight
<1>5. None \notin Images /\ i \in Images
  BY <1>0, <1>1, <1>4, LoneNone
<1>6. book'.cover = (IF book.cover = i THEN None ELSE book.cover)
  BY <1>1 DEF NoBook
<1>7. /\ \A d, k : <<d, k>> \in linked' <=> <<d, k>> \in linked /\ k # i
      /\ \A p, k : <<p, k>> \in owned' <=> <<p, k>> \in owned /\ k # i
  BY <1>1
<1>8. \A k \in Images : k # i => (IsDeletable(k)' <=> IsDeletable(k))
  <2> SUFFICES ASSUME NEW k \in Images, k # i PROVE IsDeletable(k)' <=> IsDeletable(k)
    OBVIOUS
  <2>1. book'.cover # k <=> book.cover # k
    BY <1>5, <1>6
  <2>2. /\ \A d : <<d, k>> \in linked' <=> <<d, k>> \in linked
        /\ \A p : <<p, k>> \in owned' <=> <<p, k>> \in owned
    BY <1>7
  <2> QED BY <2>1, <2>2 DEF IsDeletable
<1>9. IsDeletable(i)'
  BY <1>5, <1>6, <1>7 DEF IsDeletable
<1>10. EveryImage'
  <2> SUFFICES ASSUME NEW k \in images', IsDeletable(k)'
               PROVE  k \in left' \/ \E u \in Tasks : k \in Todo(u)'
    BY DEF EveryImage
  <2>1. k \in images /\ k # i /\ IsDeletable(k)
    BY <1>1, <1>8 DEF RowsRight
  <2>2. k \in left \/ \E u \in Tasks : k \in Todo(u)
    BY <2>1 DEF UsesRight, EveryImage
  <2> QED BY <1>1, <1>2, <1>3, <2>1, <2>2
<1>11. ListComplete'
  <2> SUFFICES ASSUME NEW u \in Tasks
               PROVE  /\ job'[u].at = "delete document" =>
                           \A k \in Images : <<job'[u].doc, k>> \in linked' =>
                               k \in job'[u].todo \/ k \in left'
                      /\ job'[u].at = "delete book" =>
                           book'.cover = None \/ book'.cover \in job'[u].todo \/ book'.cover \in left'
    BY DEF ListComplete
  <2>1. CASE u = t
    BY <2>1, <1>2
  <2>2. CASE u # t
    <3>1. job'[u] = job[u]
      BY <2>2, <1>2
    <3>2. job[u].at = "delete document" => \A k \in Images : <<job[u].doc, k>> \in linked' =>
                                              k \in job[u].todo \/ k \in left'
      BY <1>1, <1>7 DEF UsesRight, ListComplete
    <3>3. job[u].at = "delete book" =>
              book'.cover = None \/ book'.cover \in job[u].todo \/ book'.cover \in left'
      BY <1>1, <1>6 DEF UsesRight, ListComplete
    <3> QED BY <3>1, <3>2, <3>3
  <2> QED BY <2>1, <2>2
<1>12. RemovedRightly'
  <2> SUFFICES ASSUME NEW u \in Tasks, NEW k, job'[u].at = "remove", k = job'[u].image
               PROVE  IsDeletable(k)' \/ k \in late'
    BY DEF RemovedRightly, IsDeletable
  <2>1. job'[u] = job[u] /\ k \in Images
    BY <1>2, <1>4
  <2>2. IsDeletable(k) \/ k \in late
    BY <2>1 DEF UsesRight, RemovedRightly
  <2>3. CASE k = i
    BY <1>9, <2>3 DEF IsDeletable
  <2>4. CASE k # i
    BY <1>1, <1>8, <2>1, <2>2, <2>4
  <2> QED BY <2>3, <2>4
<1>13. ~robbed'
  BY <1>0, <1>1 DEF UsesRight, RemovedRightly
<1> QED BY <1>10, <1>11, <1>12, <1>13 DEF UsesRight

\* Documents and the book are deleted, with the lists made before.
LEMMA UsesDeleting ==
    ASSUME UsesRight, JobsRight, RowsRight, NEW t \in Tasks,
           BeginDeleteDoc(t) \/ BeginDeleteBook(t)
    PROVE  UsesRight'
<1>1. job[t] = Rest /\ UNCHANGED <<book, images, linked, owned, left, late, robbed>>
  BY DEF BeginDeleteDoc, BeginDeleteBook, Accept, libraryHistory
<1>2. Todo(t) = {}
  BY <1>1, TodoIs, TodoForms
<1>3. \A k : IsDeletable(k)' <=> IsDeletable(k)
  BY <1>1 DEF IsDeletable
<1>4. PICK w : /\ Goes(t, w)
               /\ \/ /\ w.at = "delete document"
                     /\ \A i \in Images : <<w.doc, i>> \in linked => i \in w.todo
                  \/ /\ w.at = "delete book"
                     /\ book.cover = None \/ book.cover \in w.todo
  <2>1. CASE BeginDeleteDoc(t)
    <3>1. PICK d : Goes(t, [at |-> "delete document", doc |-> d, todo |-> ImagesOf(d)])
      BY <2>1 DEF BeginDeleteDoc
    <3> WITNESS [at |-> "delete document", doc |-> d, todo |-> ImagesOf(d)]
    <3> QED BY <3>1 DEF ImagesOf
  <2>2. CASE BeginDeleteBook(t)
    <3>1. Goes(t, [at |-> "delete book", todo |-> {book.cover} \ {None}])
      BY <2>2 DEF BeginDeleteBook
    <3> WITNESS [at |-> "delete book", todo |-> {book.cover} \ {None}]
    <3> QED BY <3>1
  <2> QED BY <2>1, <2>2
<1>5. job'[t] = w /\ \A u \in Tasks : u # t => job'[u] = job[u] /\ Todo(u)' = Todo(u)
  BY <1>4, GoesOn
<1>6. EveryImage'
  BY <1>1, <1>2, <1>3, <1>5 DEF UsesRight, EveryImage
<1>7. ListComplete'
  BY <1>1, <1>4, <1>5 DEF UsesRight, ListComplete
<1>8. RemovedRightly'
  BY <1>1, <1>3, <1>4, <1>5 DEF UsesRight, RemovedRightly
<1> QED BY <1>1, <1>6, <1>7, <1>8 DEF UsesRight

LEMMA UsesDeleted ==
    ASSUME UsesRight, JobsRight, RowsRight, NEW t \in Tasks, DeleteDoc(t) \/ DeleteBook(t)
    PROVE  UsesRight'
<1>1. /\ job[t].at \in {"delete document", "delete book"} /\ Goes(t, Collect(job[t].todo))
      /\ UNCHANGED <<images, owned, left, late, robbed>>
  BY DEF DeleteDoc, DeleteRows, DeleteBook, libraryHistory
<1>2. /\ job'[t].at \in {"rest", "collect"} /\ Todo(t)' = job[t].todo /\ Todo(t) = job[t].todo
      /\ \A u \in Tasks : u # t => job'[u] = job[u] /\ Todo(u)' = Todo(u)
  <2>1. Todo(t) = job[t].todo
    BY <1>1 DEF Todo
  <2> QED BY <1>1, <2>1, GoesOn, TodoForms, CollectForms
<1>3. /\ \A d, i : <<d, i>> \in linked' => <<d, i>> \in linked
      /\ book'.cover = book.cover \/ book'.cover = None
      /\ \A k \in Images : /\ IsDeletable(k) => IsDeletable(k)'
                           /\ IsDeletable(k)' => IsDeletable(k) \/ k \in job[t].todo \/ k \in left
  <2>1. CASE DeleteDoc(t)
    <3>1. /\ linked' = {r \in linked : r[1] # job[t].doc} /\ book' = book
          /\ job[t].at = "delete document"
      BY <2>1 DEF DeleteDoc, DeleteRows
    <3>2. \A d, i : <<d, i>> \in linked' <=> <<d, i>> \in linked /\ d # job[t].doc
      BY <3>1
    <3>3. \A i \in Images : <<job[t].doc, i>> \in linked => i \in job[t].todo \/ i \in left
      BY <3>1 DEF UsesRight, ListComplete
    <3>4. \A k \in Images : IsDeletable(k) => IsDeletable(k)'
      BY <1>1, <3>1, <3>2 DEF IsDeletable
    <3>5. \A k \in Images : IsDeletable(k)' => IsDeletable(k) \/ k \in job[t].todo \/ k \in left
      BY <1>1, <3>1, <3>2, <3>3 DEF IsDeletable
    <3> QED BY <3>1, <3>2, <3>4, <3>5
  <2>2. CASE DeleteBook(t)
    <3>1. book'.cover = None /\ linked' = linked /\ job[t].at = "delete book"
      BY <2>2 DEF DeleteBook, NoBook
    <3>2. book.cover = None \/ book.cover \in job[t].todo \/ book.cover \in left
      BY <3>1 DEF UsesRight, ListComplete
    <3>3. \A k \in Images : IsDeletable(k)' <=> /\ \A d \in Docs : <<d, k>> \notin linked
                                                /\ \A p \in People : <<p, k>> \notin owned
      BY <1>1, <3>1, LoneNone DEF IsDeletable
    <3> QED BY <3>1, <3>2, <3>3 DEF IsDeletable
  <2> QED BY <2>1, <2>2
<1>4. EveryImage'
  BY <1>1, <1>2, <1>3 DEF UsesRight, EveryImage, RowsRight
<1>5. ListComplete'
  BY <1>1, <1>2, <1>3 DEF UsesRight, ListComplete
<1>6. RemovedRightly'
  <2>1. \A u \in Tasks : job[u].at = "remove" => job[u].image \in Images
    BY DEF JobsRight, JobRight
  <2> QED BY <1>1, <1>2, <1>3, <2>1 DEF UsesRight, RemovedRightly
<1> QED BY <1>1, <1>4, <1>5, <1>6 DEF UsesRight

-----------------------------------------------------------------------------
LEMMA LibraryInvInit == LibraryInit => LibraryInv
<1> SUFFICES ASSUME LibraryInit PROVE LibraryInv
  OBVIOUS
<1>1. job = [t \in Tasks |-> Rest] /\ Rest.at = "rest" /\ JobRight(Rest)
  BY DEF LibraryInit, Rest, JobRight, SaveSteps
<1>2. JobsRight
  BY <1>1 DEF JobsRight
<1>3. PICK i \in Images : images = {i} /\ owned = {<<"boss", i>>} /\ linked \in SUBSET (Docs \X {i})
  BY DEF LibraryInit
<1>4. RowsRight
  <2>1. book.cover = None /\ book = [is |-> book.is, cover |-> book.cover]
    BY DEF LibraryInit
  <2>2. docs \subseteq Docs /\ chapters \subseteq docs
    BY DEF LibraryInit
  <2>3. linked \subseteq Docs \X Images /\ owned \subseteq People \X Images /\ images \subseteq Images
    BY <1>3 DEF People
  <2>4. shared = [h \in {"mate", Invitation} |-> shared[h]]
    BY DEF LibraryInit
  <2> QED BY <2>1, <2>2, <2>3, <2>4 DEF RowsRight
<1>5. EveryImage
  BY <1>3 DEF EveryImage, IsDeletable, People
<1>6. ListComplete /\ RemovedRightly
  BY <1>1 DEF ListComplete, RemovedRightly
<1>7. ~robbed /\ ReadersKept
  BY DEF LibraryInit, ReadersKept
<1> QED BY <1>2, <1>4, <1>5, <1>6, <1>7 DEF LibraryInv

LEMMA LibraryInvNext == LibraryInv /\ [LibraryNext]_libraryVars => LibraryInv'
<1> SUFFICES ASSUME LibraryInv, [LibraryNext]_libraryVars PROVE LibraryInv'
  OBVIOUS
<1>0. RowsRight /\ JobsRight /\ UsesRight /\ ReadersKept
  BY DEF LibraryInv, UsesRight
<1>1. ASSUME NEW t \in Tasks,
             BeginSave(t) \/ SaveStep(t) \/ RightsRequest(t) \/ ImageRequest(t) \/ ImageStep(t)
               \/ BeginDeleteDoc(t) \/ DeleteDoc(t) \/ BeginDeleteBook(t) \/ DeleteBook(t)
      PROVE  LibraryInv'
  <2>1. RowsRight' /\ JobsRight' /\ ReadersKept'
    BY <1>0, <1>1, RowsStayRight, JobsKept, ReadersStay
  <2>2. CASE RightsRequest(t)
    <3>1. UNCHANGED <<job, linked, owned, book, images, left, late, robbed>>
      BY <2>2 DEF RightsRequest, ShareBook, UnshareBook, ShareDoc, UnshareDoc, AcceptInvitation,
                  DeclineInvitation, AtOnce, libraryHistory
    <3>2. UsesRight'
      BY <3>1, <1>0, UsesUntouched
    <3> QED BY <2>1, <3>2 DEF LibraryInv, UsesRight
  <2>3. CASE ~RightsRequest(t)
    <3>1. UsesRight'
      BY <1>0, <1>1, <2>3, UsesSave, UsesGained, UsesLost, UsesChecked, UsesRemoved, UsesDeleting, UsesDeleted
         DEF ImageRequest, ImageStep
    <3> QED BY <2>1, <3>1 DEF LibraryInv, UsesRight
  <2> QED BY <2>2, <2>3
<1>2. CASE UNCHANGED libraryVars
  <2>1. UNCHANGED <<docs, book, access, shared, invited, chapters, images, linked, owned, job,
                    withheld, left, late, robbed>>
    BY <1>2 DEF libraryVars, rights, libraryHistory
  <2>2. UsesRight' /\ JobsRight'
    BY <1>0, <2>1, UsesUntouched, LoneStays
  <2>3. RowsRight'
    BY <1>0, <2>1 DEF RowsRight
  <2>4. ReadersKept'
    BY <1>0, <2>1 DEF ReadersKept, Sharing
  <2> QED BY <2>2, <2>3, <2>4 DEF LibraryInv, UsesRight
<1> QED BY <1>1, <1>2 DEF LibraryNext

LEMMA LibraryInvHolds == LibrarySpec => []LibraryInv
BY LibraryInvInit, LibraryInvNext, PTL DEF LibrarySpec

\* While requests come one at a time, whoever shares the book may read those of its
\* chapters that are its owner's, unless he took that right away himself or the chapter
\* was put in by somebody else (set_chapters, save_access_rights, UserInvite.apply).
THEOREM BookReadersCorrect == LibrarySpec => []BookReaders
<1>1. LibraryInv => BookReaders
  BY DEF LibraryInv, ReadersKept, BookReaders
<1> QED BY <1>1, LibraryInvHolds, PTL

\* When no request is at work every image has a use, but for those the code leaves behind,
\* and no use goes with an image but one made between the look and the removal (delete,
\* is_deletable).
THEOREM ImagesFollowUseCorrect == LibrarySpec => []ImagesFollowUse
<1>1. LibraryInv => ImagesFollowUse
  <2> SUFFICES ASSUME LibraryInv PROVE ImagesFollowUse
    OBVIOUS
  <2>1. ASSUME \A t \in Tasks : job[t] = Rest, NEW i \in images, IsDeletable(i)
        PROVE  i \in left
    <3>1. \A t \in Tasks : Todo(t) = {}
      BY <2>1, TodoIs, TodoForms
    <3> QED BY <2>1, <3>1 DEF LibraryInv, EveryImage
  <2> QED BY <2>1 DEF LibraryInv, ImagesFollowUse
<1> QED BY <1>1, LibraryInvHolds, PTL

-----------------------------------------------------------------------------
(* The types of Library.                                                   *)

\* Requests are of their forms.
JobsTyped == \A t \in Tasks : job[t] \in Job

\* Rows refer to what is there, and histories to what there may be.
RowsThere ==
    /\ access \subseteq docs \X Holders /\ linked \subseteq docs \X images
    /\ owned \subseteq People \X images
    /\ book \in [is : BOOLEAN, cover : images \cup {None}]
    /\ shared \in [{"mate", Invitation} -> {None, "read", "write"}]
    /\ ~book.is => book = NoBook /\ chapters = {} /\ Sharing = {}
    /\ withheld \subseteq Docs \X Holders /\ left \subseteq Images /\ late \subseteq Images
    /\ invited \in BOOLEAN /\ robbed \in BOOLEAN

LEMMA JobForms ==
    /\ Rest \in Job
    /\ \A x \in SUBSET Images : Collect(x) \in Job
    /\ \A p \in People, l \in SUBSET Docs, c \in Images \cup {None} :
          [at |-> "store", who |-> p, list |-> l, cover |-> c] \in Job
    /\ \A i \in Images, x \in SUBSET Images : [at |-> "remove", image |-> i, todo |-> x] \in Job
    /\ \A d \in Docs, x \in SUBSET Images :
          [at |-> "delete document", doc |-> d, todo |-> x] \in Job
    /\ \A x \in SUBSET Images : [at |-> "delete book", todo |-> x] \in Job
BY DEF Job, Rest, Collect, SaveSteps

LEMMA JobFields ==
    \A j \in Job :
        /\ j.at \in SaveSteps =>
              j.who \in People /\ j.list \subseteq Docs /\ j.cover \in Images \cup {None}
        /\ j.at \in {"collect", "delete book", "delete document", "remove"} =>
              j.todo \subseteq Images
        /\ j.at = "remove" => j.image \in Images
        /\ j.at = "delete document" => j.doc \in Docs
BY DEF Job, SaveSteps

LEMMA JobGoes ==
    ASSUME JobsRight, JobsTyped, NEW t \in Tasks, NEW w \in Job, Goes(t, w)
    PROVE  JobsTyped'
<1>1. job'[t] = w /\ \A u \in Tasks : u # t => job'[u] = job[u]
  BY GoesOn
<1> QED
  BY <1>1 DEF JobsTyped

LEMMA JobsStep ==
    ASSUME JobsRight, RowsRight, JobsTyped, RowsThere, NEW t \in Tasks,
           BeginSave(t) \/ SaveStep(t) \/ RightsRequest(t) \/ ImageRequest(t) \/ ImageStep(t)
             \/ BeginDeleteDoc(t) \/ DeleteDoc(t) \/ BeginDeleteBook(t) \/ DeleteBook(t)
    PROVE  JobsTyped'
<1>1. ASSUME NEW w \in Job, Goes(t, w) PROVE JobsTyped'
  BY <1>1, JobGoes
<1>2. job[t] \in Job /\ docs \subseteq Docs /\ images \subseteq Images
  BY DEF JobsTyped, RowsRight
<1>3. ASSUME job' = job PROVE JobsTyped'
  BY <1>3 DEF JobsTyped
<1>4. CASE BeginSave(t)
  <2>1. PICK p \in People, list \in SUBSET docs, cover \in {book.cover, None} \cup images :
                Goes(t, [at |-> "store", who |-> p, list |-> list, cover |-> cover])
    BY <1>4 DEF BeginSave
  <2>2. list \in SUBSET Docs /\ cover \in Images \cup {None}
    BY <1>2 DEF RowsRight
  <2>3. [at |-> "store", who |-> p, list |-> list, cover |-> cover] \in Job
    BY <2>2, JobForms
  <2> QED
    BY <1>1, <2>1, <2>3
<1>a. ASSUME NEW s \in SaveSteps, NEW l, l \subseteq job[t].list, job[t].at \in SaveSteps,
             Goes(t, Rest) \/ Goes(t, Saving(t, s, l))
      PROVE  JobsTyped'
  <2>1. job[t].who \in People /\ l \subseteq Docs /\ job[t].cover \in Images \cup {None}
    BY <1>a, <1>2, JobFields
  <2>2. Saving(t, s, l) \in Job
    BY <2>1 DEF Saving, Job
  <2> QED
    BY <1>a, <1>1, <2>2, JobForms
<1>5. CASE StoreBook(t)
  <2>1. job[t].at = "store" /\ (Goes(t, Rest) \/ Goes(t, Saving(t, "chapters", job[t].list)))
    BY <1>5 DEF StoreBook, WriteBook
  <2> QED
    BY <1>a, <2>1 DEF SaveSteps
<1>6. CASE ClearChapters(t)
  <2>1. job[t].at = "chapters" /\ (Goes(t, Rest) \/ Goes(t, Saving(t, "add", job[t].list)))
    BY <1>6 DEF ClearChapters
  <2> QED
    BY <1>a, <2>1 DEF SaveSteps
<1>7. CASE job[t].at = "add" /\ AddChapter(t)
  <2>1. PICK d : Goes(t, Rest) \/ Goes(t, Saving(t, "again", job[t].list \ {d}))
    BY <1>7 DEF AddChapter
  <2>2. job[t].list \ {d} \subseteq job[t].list
    OBVIOUS
  <2> QED
    BY <1>7, <1>a, <2>1, <2>2 DEF SaveSteps
<1>16. CASE StoreAgain(t)
  <2>1. job[t].at = "again" /\ (Goes(t, Rest) \/ Goes(t, Saving(t, "add", job[t].list)))
    BY <1>16 DEF StoreAgain, WriteBook
  <2> QED
    BY <1>a, <2>1 DEF SaveSteps
<1>8. CASE ChapterRefused(t)
  BY <1>1, <1>8, JobForms DEF ChapterRefused
<1>9. CASE RightsRequest(t)
  BY <1>3, <1>9 DEF RightsRequest, ShareBook, UnshareBook, ShareDoc, UnshareDoc, AcceptInvitation,
                    DeclineInvitation, AtOnce
<1>10. CASE Upload(t) \/ Insert(t)
  BY <1>3, <1>10 DEF Upload, Insert, AtOnce
<1>11. CASE Drop(t) \/ Forget(t)
  <2>1. \E r \in linked \cup owned : Goes(t, Collect({r[2]}))
    BY <1>11 DEF Drop, Forget
  <2>2. PICK r \in linked \cup owned : Goes(t, Collect({r[2]}))
    BY <2>1
  <2>3. {r[2]} \in SUBSET Images
    BY DEF RowsRight
  <2> QED
    BY <1>1, <2>2, <2>3, JobForms
<1>12. CASE job[t].at = "collect" /\ CheckImage(t)
  <2>1. job[t].todo \subseteq Images
    BY <1>2, <1>12, JobFields
  <2>2. PICK i \in job[t].todo : \/ Goes(t, [at |-> "remove", image |-> i, todo |-> job[t].todo \ {i}])
                                 \/ Goes(t, Collect(job[t].todo \ {i}))
    BY <1>12 DEF CheckImage
  <2>3. i \in Images /\ job[t].todo \ {i} \in SUBSET Images
    BY <2>1
  <2>4. /\ [at |-> "remove", image |-> i, todo |-> job[t].todo \ {i}] \in Job
        /\ Collect(job[t].todo \ {i}) \in Job
    BY <2>3, JobForms
  <2> QED
    BY <1>1, <2>2, <2>4
<1>13. CASE RemoveImage(t) \/ DeleteBook(t) \/ DeleteDoc(t)
  <2>1. Goes(t, Collect(job[t].todo))
    BY <1>13 DEF RemoveImage, DeleteBook, DeleteDoc, DeleteRows
  <2>2. job[t].todo \in SUBSET Images
    BY <1>2, <1>13, JobFields DEF RemoveImage, DeleteBook, DeleteDoc
  <2>3. Collect(job[t].todo) \in Job
    BY <2>2, JobForms
  <2> QED
    BY <1>1, <2>1, <2>3
<1>14. CASE BeginDeleteDoc(t)
  <2>1. PICK d \in docs : Goes(t, [at |-> "delete document", doc |-> d, todo |-> ImagesOf(d)])
    BY <1>14 DEF BeginDeleteDoc
  <2>2. [at |-> "delete document", doc |-> d, todo |-> ImagesOf(d)] \in Job
    BY <1>2, JobForms DEF ImagesOf
  <2> QED
    BY <1>1, <2>1, <2>2
<1>15. CASE BeginDeleteBook(t)
  <2>1. {book.cover} \ {None} \in SUBSET Images
    BY DEF RowsRight
  <2>2. [at |-> "delete book", todo |-> {book.cover} \ {None}] \in Job
    BY <2>1, JobForms
  <2> QED
    BY <1>1, <1>15, <2>2 DEF BeginDeleteBook
<1> QED
  BY <1>4, <1>5, <1>6, <1>7, <1>8, <1>9, <1>10, <1>11, <1>12, <1>13, <1>14, <1>15, <1>16
     DEF SaveStep, ImageStep, ImageRequest

\* Saving the book.
LEMMA SavingThere ==
    ASSUME JobsRight, RowsRight, JobsTyped, RowsThere, NEW t \in Tasks, BeginSave(t) \/ SaveStep(t)
    PROVE  RowsThere'
<1> USE DEF RowsThere
<1>1. CASE BeginSave(t)
  BY <1>1 DEF BeginSave, libraryHistory, rights, Sharing
<1>2. CASE StoreBook(t) \/ StoreAgain(t)
  <2> DEFINE cover == job[t].cover
  <2>0. \E then : WriteBook(t, then)
    BY <1>2 DEF StoreBook, StoreAgain
  <2>1. CASE cover \notin images \cup {None}
    BY <2>0, <2>1 DEF WriteBook, rights, Sharing
  <2>2. CASE cover \in images \cup {None}
    <3>1. /\ book' = [is |-> TRUE, cover |-> cover]
          /\ left' = (left \cup LeftBehind(cover)) \ {None} /\ Used(cover)
          /\ UNCHANGED <<docs, rights, chapters, images, linked, owned, withheld, robbed>>
      BY <2>0, <2>2 DEF WriteBook
    <3>2. left' \subseteq Images
      BY <2>2, <3>1 DEF LeftBehind, RowsRight
    <3>3. late' \subseteq Images
      <4>1. \A u \in Tasks : job[u].at = "remove" => job[u].image \in Images
        BY JobFields DEF JobsTyped
      <4>2. late' = late \/ (late' = late \cup {cover} /\ \E u \in Tasks :
                                job[u].at = "remove" /\ job[u].image = cover)
        BY <3>1 DEF Used
      <4>3. late' = late \/ (late' = late \cup {cover} /\ cover \in Images)
        BY <4>1, <4>2
      <4> QED
        BY <4>3
    <3>4. book' \in [is : BOOLEAN, cover : images \cup {None}] /\ book'.is
      BY <2>2, <3>1
    <3> QED
      BY <3>1, <3>2, <3>3, <3>4 DEF rights, Sharing
  <2> QED
    BY <2>1, <2>2
<1>3. CASE ClearChapters(t)
  BY <1>3 DEF ClearChapters, libraryHistory, rights, Sharing
<1>4. CASE job[t].at = "add" /\ AddChapter(t)
  <2>1. PICK d \in docs :
            /\ book.is
            /\ access' = access \/ access' = access \cup {<<d, h>> : h \in BookSharers}
            /\ withheld' = withheld \ access' \/ withheld' = withheld \cup {<<d, h>> : h \in Sharing}
            /\ UNCHANGED <<docs, book, shared, invited, images, linked, owned, left, late, robbed>>
    BY <1>4 DEF AddChapter
  <2>2. Sharing \subseteq Holders /\ BookSharers \subseteq Holders
    BY DEF Sharing, BookSharers, Holders, People
  <2>3. access' \subseteq docs \X Holders /\ withheld' \subseteq Docs \X Holders
    BY <2>1, <2>2 DEF RowsRight
  <2> QED
    BY <2>1, <2>3
<1>5. CASE ChapterRefused(t)
  BY <1>5 DEF ChapterRefused, libraryHistory, rights, Sharing
<1> QED
  BY <1>1, <1>2, <1>3, <1>4, <1>5 DEF SaveStep

\* Rights.
LEMMA RightsThere ==
    ASSUME JobsRight, RowsRight, JobsTyped, RowsThere, NEW t \in Tasks, RightsRequest(t)
    PROVE  RowsThere'
<1>1. UNCHANGED <<docs, book, chapters, images, linked, owned, left, late, robbed>>
  BY DEF RightsRequest, ShareBook, UnshareBook, ShareDoc, UnshareDoc, AcceptInvitation,
         DeclineInvitation, libraryHistory
<1>2. /\ docs \subseteq Docs /\ chapters \subseteq docs
      /\ {"mate", Invitation} \subseteq Holders /\ DOMAIN shared = {"mate", Invitation}
  BY DEF RowsRight, Holders, People, RowsThere
<1>3. ASSUME access' \subseteq docs \X Holders, withheld' \subseteq Docs \X Holders,
             shared' \in [{"mate", Invitation} -> {None, "read", "write"}], invited' \in BOOLEAN,
             book.is \/ shared' = shared
      PROVE  RowsThere'
  BY <1>1, <1>3 DEF RowsThere, Sharing
<1>4. CASE ShareBook(t)
  <2>1. PICK h \in {"mate", Invitation}, r \in {"read", "write"} :
            /\ book.is /\ shared' = [shared EXCEPT ![h] = r]
            /\ access' = access \cup {<<d, h>> : d \in {d \in chapters : DocOwner[d] = "boss"}}
            /\ withheld' = withheld \ access' /\ invited' = invited
    BY <1>4 DEF ShareBook
  <2>2. h \in Holders /\ {d \in chapters : DocOwner[d] = "boss"} \subseteq docs
    BY <1>2
  <2>3. access' \subseteq docs \X Holders
    BY <2>1, <2>2 DEF RowsThere
  <2> QED
    BY <1>3, <2>1, <2>3 DEF RowsThere
<1>5. CASE UnshareBook(t)
  BY <1>3, <1>5 DEF UnshareBook, RowsThere, libraryHistory
<1>6. CASE ShareDoc(t)
  <2>1. PICK d \in docs, h \in Holders : access' = access \cup {<<d, h>>} /\ withheld' = withheld \ {<<d, h>>}
    BY <1>6 DEF ShareDoc
  <2> QED
    BY <1>3, <1>6, <2>1 DEF ShareDoc, RowsThere
<1>7. CASE UnshareDoc(t)
  BY <1>2, <1>3, <1>7 DEF UnshareDoc, RowsThere
<1>8. CASE AcceptInvitation(t)
  <2> DEFINE theirs == {d \in Docs : <<d, Invitation>> \in access}
             lost == {<<d, "mate">> : d \in {d \in Docs : <<d, Invitation>> \in withheld}}
             stay == {r \in access : r[2] # Invitation}
             given == {<<d, "mate">> : d \in {d \in theirs : DocOwner[d] # "mate"}}
  <2>0. access' = stay \cup given /\ withheld' = (withheld \cup lost) \ access'
    BY <1>8 DEF AcceptInvitation
  <2>1. access' \subseteq docs \X Holders
    <3>1. theirs \subseteq docs /\ stay \subseteq docs \X Holders
      BY DEF RowsThere
    <3>2. ASSUME NEW r \in given PROVE r \in docs \X Holders
      <4>1. PICK d \in theirs : r = <<d, "mate">>
        OBVIOUS
      <4>2. d \in docs /\ "mate" \in Holders
        BY <1>2, <3>1
      <4> QED
        BY <4>1, <4>2
    <3> QED
      BY <2>0, <3>1, <3>2
  <2>2. withheld' \subseteq Docs \X Holders
    <3>1. ASSUME NEW r \in lost PROVE r \in Docs \X Holders
      <4>1. PICK d \in Docs : r = <<d, "mate">>
        OBVIOUS
      <4>2. "mate" \in Holders
        BY <1>2
      <4> QED
        BY <4>1, <4>2
    <3> QED
      BY <2>0, <3>1 DEF RowsThere
  <2>3. shared' \in [{"mate", Invitation} -> {None, "read", "write"}]
    <3>1. shared' \in {shared, [shared EXCEPT !["mate"] = shared[Invitation], ![Invitation] = None],
                       [shared EXCEPT !["mate"] = "write"]}
      BY <1>8 DEF AcceptInvitation
    <3> QED
      BY <3>1 DEF RowsThere
  <2>4. book.is \/ shared' = shared
    <3> DEFINE taken == [shared EXCEPT !["mate"] = shared[Invitation], ![Invitation] = None]
    <3>1. ASSUME ~book.is PROVE shared[Invitation] = None /\ shared["mate"] = None
      BY <3>1 DEF RowsThere, Sharing
    <3>2. \/ shared[Invitation] = None /\ shared' = shared
          \/ shared["mate"] = None /\ shared' = taken
          \/ shared[Invitation] # None
      BY <1>8 DEF AcceptInvitation
    <3>3. shared["mate"] = None /\ shared[Invitation] = None => taken = shared
      BY DEF RowsThere
    <3> HIDE DEF taken
    <3> QED
      BY <3>1, <3>2, <3>3
  <2> QED
    BY <1>3, <1>8, <2>1, <2>2, <2>3, <2>4 DEF AcceptInvitation
<1>9. CASE DeclineInvitation(t)
  BY <1>3, <1>9 DEF DeclineInvitation, RowsThere, libraryHistory
<1> QED
  BY <1>4, <1>5, <1>6, <1>7, <1>8, <1>9 DEF RightsRequest

\* Images.
LEMMA ImagesThere ==
    ASSUME JobsRight, RowsRight, JobsTyped, RowsThere, NEW t \in Tasks, ImageRequest(t) \/ ImageStep(t)
    PROVE  RowsThere'
<1> USE DEF RowsThere
<1>1. CASE Upload(t)
  <2>1. PICK p \in People, i \in Images :
            images' = images \cup {i} /\ owned' = owned \cup {<<p, i>>}
    BY <1>1 DEF Upload
  <2> QED
    BY <1>1, <2>1 DEF Upload, rights, libraryHistory, Sharing
<1>2. CASE Insert(t)
  <2>1. PICK d \in docs, i \in Images :
            /\ images' = images \cup {i} /\ linked' = linked \cup {<<d, i>>}
            /\ left' \subseteq left \cup {i} /\ Used(i)
    BY <1>2 DEF Insert
  <2>2. late' \subseteq Images
    BY <2>1 DEF Used
  <2> QED
    BY <1>2, <2>1, <2>2 DEF Insert, rights, Sharing
<1>3. CASE Drop(t) \/ Forget(t)
  BY <1>3 DEF Drop, Forget, rights, libraryHistory, Sharing
<1>4. CASE job[t].at = "collect" /\ CheckImage(t)
  <2>1. late' \subseteq late
    BY <1>4 DEF CheckImage
  <2> QED
    BY <1>4, <2>1 DEF CheckImage, rights, Sharing
<1>5. CASE RemoveImage(t)
  <2> DEFINE i == job[t].image
  <2>1. /\ images' = images \ {i} /\ linked' \subseteq docs \X (images \ {i})
        /\ owned' \subseteq People \X (images \ {i})
        /\ left' \subseteq left /\ late' \subseteq late
        /\ UNCHANGED <<docs, access, invited, withheld>>
    BY <1>5 DEF RemoveImage
  <2>2. robbed' \in BOOLEAN
    BY <1>5 DEF RemoveImage
  <2>3. CASE book.cover = i
    <3>1. book' = NoBook /\ chapters' = {} /\ shared' = [h \in DOMAIN shared |-> None]
      BY <1>5, <2>3 DEF RemoveImage
    <3>2. NoBook \in [is : BOOLEAN, cover : images' \cup {None}]
      BY DEF NoBook
    <3>3. shared' \in [{"mate", Invitation} -> {None, "read", "write"}] /\ Sharing' = {}
      BY <3>1 DEF Sharing
    <3> QED
      BY <2>1, <2>2, <3>1, <3>2, <3>3
  <2>4. CASE book.cover # i
    <3>1. UNCHANGED <<book, chapters, shared>>
      BY <1>5, <2>4 DEF RemoveImage
    <3>2. book \in [is : BOOLEAN, cover : images' \cup {None}]
      BY <2>1, <2>4
    <3> QED
      BY <2>1, <2>2, <3>1, <3>2 DEF Sharing
  <2> QED
    BY <2>3, <2>4
<1> QED
  BY <1>1, <1>2, <1>3, <1>4, <1>5 DEF ImageRequest, ImageStep

\* Documents and the book go.
LEMMA DeletingThere ==
    ASSUME JobsRight, RowsRight, JobsTyped, RowsThere, NEW t \in Tasks,
           BeginDeleteDoc(t) \/ DeleteDoc(t) \/ BeginDeleteBook(t) \/ DeleteBook(t)
    PROVE  RowsThere'
<1> USE DEF RowsThere
<1>1. CASE BeginDeleteDoc(t) \/ BeginDeleteBook(t)
  BY <1>1 DEF BeginDeleteDoc, BeginDeleteBook, rights, libraryHistory, Sharing
<1>2. CASE DeleteDoc(t)
  <2>1. /\ docs' = docs \ {job[t].doc} /\ access' = {r \in access : r[1] # job[t].doc}
        /\ linked' = {r \in linked : r[1] # job[t].doc} /\ chapters' = chapters \ {job[t].doc}
        /\ UNCHANGED <<book, shared, invited, images, owned, libraryHistory>>
    BY <1>2 DEF DeleteDoc, DeleteRows
  <2> QED
    BY <2>1 DEF libraryHistory, Sharing
<1>3. CASE DeleteBook(t)
  <2>1. /\ book' = NoBook /\ chapters' = {} /\ shared' = [h \in DOMAIN shared |-> None]
        /\ UNCHANGED <<docs, access, invited, images, linked, owned, libraryHistory>>
    BY <1>3 DEF DeleteBook
  <2>2. NoBook \in [is : BOOLEAN, cover : images \cup {None}]
    BY DEF NoBook
  <2>3. shared' \in [{"mate", Invitation} -> {None, "read", "write"}] /\ Sharing' = {}
    BY <2>1 DEF Sharing
  <2> QED
    BY <2>1, <2>2, <2>3 DEF libraryHistory
<1> QED
  BY <1>1, <1>2, <1>3

\* Types; no row refers to a document, a book or an image that is gone (access rights, chapters,
\* images in documents and collections, and the covers of books).
THEOREM LibraryTypeCorrect == LibrarySpec => []LibraryTypeOK
<1>1. LibraryInit => JobsTyped /\ RowsThere
  <2> SUFFICES ASSUME LibraryInit PROVE JobsTyped /\ RowsThere
    OBVIOUS
  <2>1. JobsTyped
    BY JobForms DEF LibraryInit, JobsTyped
  <2>2. PICK i \in Images : images = {i} /\ owned = {<<"boss", i>>} /\ linked \in SUBSET (Docs \X {i})
    BY DEF LibraryInit
  <2>3. /\ access = {} /\ docs = Docs /\ book = [is |-> TRUE, cover |-> None]
        /\ shared \in [{"mate", Invitation} -> {None, "write"}]
        /\ withheld = {} /\ left = {} /\ late = {} /\ invited \in BOOLEAN /\ robbed \in BOOLEAN
    BY DEF LibraryInit
  <2> QED
    BY <2>1, <2>2, <2>3 DEF RowsThere, People
<1>2. LibraryInv /\ JobsTyped /\ RowsThere /\ [LibraryNext]_libraryVars => (JobsTyped /\ RowsThere)'
  <2> SUFFICES ASSUME LibraryInv, JobsTyped, RowsThere, [LibraryNext]_libraryVars
               PROVE  (JobsTyped /\ RowsThere)'
    OBVIOUS
  <2>1. CASE LibraryNext
    BY <2>1, JobsStep, SavingThere, RightsThere, ImagesThere, DeletingThere DEF LibraryNext, LibraryInv
  <2>2. CASE UNCHANGED libraryVars
    BY <2>2 DEF libraryVars, rights, libraryHistory, JobsTyped, RowsThere, Sharing
  <2> QED
    BY <2>1, <2>2
<1>3. LibraryInv /\ JobsTyped /\ RowsThere => LibraryTypeOK
  BY DEF LibraryInv, RowsRight, JobsRight, JobsTyped, RowsThere, LibraryTypeOK
<1> QED
  BY <1>1, <1>2, <1>3, LibraryInvInit, LibraryInvNext, PTL DEF LibrarySpec
=============================================================================
