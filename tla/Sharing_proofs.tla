---------------------------- MODULE Sharing_proofs ----------------------------
(***************************************************************************)
(* Theorems about Sharing, for any people, guests, links, set-ups and      *)
(* lists of items:                                                         *)
(*   - a connection's copy of its rights is the truth, or it will hear     *)
(*     that it is not, or nobody was ever to be told (UpToDate), and no    *)
(*     change is handled on a right that was gone before it arrived        *)
(*     (ChangesAuthorized): by Settled, which relates every joined         *)
(*     connection to the requests that still owe an announcement;          *)
(*   - one request at a time loses nothing that was granted (GrantKept):   *)
(*     by Serial, which says what the one request under way still knows    *)
(*     of the rows.                                                        *)
(***************************************************************************)
EXTENDS Sharing, SequenceTheorems, TLAPS

\* An item that is written does not delete.
Writable == {s \in Seq(Item) : s # <<>> /\ Head(s).rights \in Rights}

\* What a request under way may be.
Request ==
    {Idle, [at |-> "tell"]}
        \cup [at : {"item"}, items : Seq(Item), changed : BOOLEAN, usable : BOOLEAN]
        \cup [at : {"write"}, items : Writable, changed : BOOLEAN, held : Levels,
              gone : BOOLEAN, usable : BOOLEAN]
        \cup [at : {"unlink"}, who : People, affected : BOOLEAN]
        \cup [at : {"apply"}, who : People, brought : Levels]
        \cup [at : {"merge"}, who : People, brought : Rights, held : Rights]
        \cup [at : {"drop", "leave", "give"}, who : People, give : Levels, tell : BOOLEAN]

Connection ==
    {Out}
        \cup [at : {"reading", "in"}, right : Rights, token : Rights \cup {None},
              checked : BOOLEAN]
        \cup [at : {"checking", "noticed"}, right : Rights, token : Rights \cup {None},
              checked : BOOLEAN, fresh : Levels]

Types ==
    /\ right \in [People -> Levels] /\ invited \in [People -> Levels]
    /\ invite \in [People -> {"none", "sent", "linked"}]
    /\ token \in [Links -> {"none", "active", "revoked", "expired"}]
    /\ request \in [Tasks -> Request]
    /\ conn \in [Conns -> Connection]
    /\ notice \subseteq Joined /\ unheard \subseteq Joined
    /\ setting \in Settings
    /\ {requests, connects, frames} \subseteq Nat
    /\ granted \subseteq People
    /\ since \in [Conns -> SUBSET Levels]

\* A guest holds a link that was made, a person none.
Linked == \A c \in Conns : conn[c].at # "out" =>
    IF c \in People THEN conn[c].token = None
    ELSE conn[c].token \in Links /\ token[conn[c].token] # "none"

\* A request that has changed rows and still has to announce it.
Owes(r) == \/ r.at = "tell"
           \/ r.at \in {"item", "write"} /\ r.changed
           \/ r.at \in {"drop", "leave", "give"} /\ r.tell /\ r.give = None
Owed == \E t \in Tasks : Owes(request[t])
\* A request that is to give a right will announce it.
Tells(r) == r.at \in {"drop", "leave", "give"} /\ r.give # None => r.tell
Gives == \A t \in Tasks : Tells(request[t])

Hears(c) == c \in notice \/ c \in unheard \/ Owed
\* A connection is right about its right, or will hear that it is not; a frame is
\* checked against a right that was in force while it waited.
ToldOf(c) == c \in Joined =>
    /\ Hears(c) \/ Believes(c) = Now(c)
    /\ Now(c) \in since[c]
    /\ conn[c].at = "checking" =>
          conn[c].fresh \in since[c] \/ (setting.lazy /\ Hears(c))
Told == \A c \in Conns : ToldOf(c)

\* One request at a time: only the first worker has one, ...
Apart == \A t \in Tasks \ {1} : request[t] = Idle
\* ... what that one has read of the rows is still so, ...
RowOf(i, rt, iv) == IF i.as = "user" THEN rt[i.who] ELSE iv[i.who]
Fits(q, rt, iv) ==
    /\ q.at = "write" => (~q.gone /\ q.held = RowOf(Head(q.items), rt, iv))
    /\ q.at = "apply" => q.brought = iv[q.who]
    /\ q.at = "merge" => q.held = rt[q.who]
    /\ q.at = "drop" => (q.give # None \/ rt[q.who] # None)
    /\ q.at \in {"leave", "give"} => iv[q.who] = None
\* ... invitations hold the rows that are theirs, ...
Backed == \A p \in People : invited[p] # None => invite[p] # "none"
\* ... and what was granted is in a row or about to be.
Carried(q, p) == q.at \in {"leave", "give"} /\ q.who = p /\ q.give # None
Kept(q, gr, rt, iv) == \A p \in gr : rt[p] # None \/ iv[p] # None \/ Carried(q, p)
Serial == /\ Apart /\ Backed
          /\ Fits(request[1], right, invited) /\ Kept(request[1], granted, right, invited)
Lasting == setting.workers = 1 => Serial

LEMMA Fields ==
    ASSUME NEW q \in Request
    PROVE  /\ q.at = "item" => /\ q.items \in Seq(Item) /\ q.changed \in BOOLEAN
                               /\ q.usable \in BOOLEAN
           /\ q.at = "write" => /\ q.items \in Writable /\ q.items \in Seq(Item) /\ q.items # <<>>
                                /\ Head(q.items).rights \in Rights
                                /\ q.changed \in BOOLEAN /\ q.held \in Levels
                                /\ q.gone \in BOOLEAN /\ q.usable \in BOOLEAN
           /\ q.at = "unlink" => q.who \in People /\ q.affected \in BOOLEAN
           /\ q.at = "apply" => q.who \in People /\ q.brought \in Levels
           /\ q.at = "merge" => q.who \in People /\ q.brought \in Rights /\ q.held \in Rights
           /\ q.at \in {"drop", "leave", "give"} =>
                q.who \in People /\ q.give \in Levels /\ q.tell \in BOOLEAN
           /\ q.at \in {"idle", "tell", "item", "write", "unlink", "apply", "merge", "drop",
                        "leave", "give"}
BY DEF Request, Idle, Writable

LEMMA Parts ==
    ASSUME NEW q \in Connection
    PROVE  /\ q.at \in {"reading", "in", "checking", "noticed"} =>
                q.right \in Rights /\ q.token \in Rights \cup {None} /\ q.checked \in BOOLEAN
           /\ q.at \in {"checking", "noticed"} => q.fresh \in Levels
           /\ q.at \in {"out", "reading", "in", "checking", "noticed"}
BY DEF Connection, Out

LEMMA HeadItem ==
    ASSUME NEW s \in Seq(Item), s # <<>>
    PROVE  /\ Head(s) \in Item /\ Tail(s) \in Seq(Item)
           /\ Head(s).who \in People /\ Head(s).as \in {"user", "invite"}
           /\ Head(s).rights \in Rights \cup {"delete"}
<1>1. Head(s) \in Item /\ Tail(s) \in Seq(Item)
  BY HeadTailProperties
<1> QED
  BY <1>1 DEF Item

\* Withholding a row changes nothing of a request but whether its row is gone.
LEMMA WithheldElse ==
    ASSUME NEW who, NEW as, NEW now \in [Tasks -> Request], NEW t \in Tasks,
           now[t].at # "write"
    PROVE  Withhold(who, as, now)[t] = now[t]
BY DEF Withhold

\* What may become of a request about to write.
Same(n) == [at : {"write"}, items : {n.items}, changed : {n.changed}, held : {n.held}, gone : BOOLEAN,
            usable : {n.usable}]

LEMMA WithheldWrite ==
    ASSUME NEW who, NEW as, NEW now \in [Tasks -> Request], NEW t \in Tasks,
           now[t].at = "write"
    PROVE  Withhold(who, as, now)[t] \in Same(now[t])
<1> DEFINE n == now[t]
           q == Withhold(who, as, now)[t]
           e == [n EXCEPT !.gone = TRUE]
<1>1. n \in Request /\ n.at = "write"
  OBVIOUS
<1>2. q \in {n, e}
  BY DEF Withhold
<1> HIDE DEF n, q
<1>3. n \in [at : {"write"}, items : Writable, changed : BOOLEAN, held : Levels,
             gone : BOOLEAN, usable : BOOLEAN]
  BY <1>1 DEF Request, Idle
<1>4. n \in Same(n) /\ e \in Same(n)
  BY <1>3 DEF Same
<1> QED
  BY <1>2, <1>4 DEF n, q

LEMMA SameFields ==
    ASSUME NEW n \in Request, n.at = "write", NEW q \in Same(n)
    PROVE  q \in Request /\ q.at = "write" /\ q.items = n.items /\ q.changed = n.changed /\ q.held = n.held
<1>1. /\ n.items \in Writable /\ n.changed \in BOOLEAN /\ n.held \in Levels /\ n.usable \in BOOLEAN
  BY Fields
<1> QED
  BY <1>1 DEF Same, Request

LEMMA Withheld ==
    ASSUME NEW who, NEW as, NEW now \in [Tasks -> Request]
    PROVE  Withhold(who, as, now) \in [Tasks -> Request]
<1>1. ASSUME NEW t \in Tasks PROVE Withhold(who, as, now)[t] \in Request
  <2>1. CASE now[t].at = "write"
    BY <2>1, WithheldWrite, SameFields
  <2>2. CASE now[t].at # "write"
    <3>1. Withhold(who, as, now)[t] = now[t]
      BY <2>2, WithheldElse
    <3> QED
      BY <3>1
  <2> QED
    BY <2>1, <2>2
<1> QED
  BY <1>1 DEF Withhold

\* A request after another one may have taken its row.
Slack(n, q) == IF n.at = "write" THEN q \in Same(n) ELSE q = n
Requests == [Tasks -> Request]

LEMMA WithheldEach ==
    ASSUME NEW who, NEW as, NEW now \in Requests, NEW t \in Tasks
    PROVE  Slack(now[t], Withhold(who, as, now)[t])
<1>0. now \in [Tasks -> Request]
  BY DEF Requests
<1>1. CASE now[t].at = "write"
  BY <1>0, <1>1, WithheldWrite DEF Slack
<1>2. CASE now[t].at # "write"
  BY <1>0, <1>2, WithheldElse DEF Slack
<1> QED
  BY <1>1, <1>2

-----------------------------------------------------------------------------
(* Types.                                                                  *)

LEMMA NowLevels ==
    ASSUME Types, NEW c \in Conns
    PROVE  Now(c) \in Levels /\ (right' \in [People -> Levels] => Then(c) \in Levels)
<1>1. conn[c] \in Connection
  BY DEF Types
<1> QED
  BY <1>1, Parts DEF Types, Now, Then, ByToken, Levels

LEMMA RememberType ==
    ASSUME Types, right' \in [People -> Levels], Remember
    PROVE  since' \in [Conns -> SUBSET Levels]
<1>1. \A c \in Conns : Then(c) \in Levels /\ since[c] \subseteq Levels
  BY NowLevels DEF Types
<1> QED
  BY <1>1 DEF Remember

\* What a request's step changes is well typed when each part is.
Ongoing ==
    /\ UNCHANGED <<conn, notice, setting, connects, frames>> /\ requests' \in Nat
    /\ right' \in [People -> Levels] /\ invited' \in [People -> Levels]
    /\ invite' \in [People -> {"none", "sent", "linked"}]
    /\ token' \in [Links -> {"none", "active", "revoked", "expired"}]
    /\ request' \in [Tasks -> Request]
    /\ granted' \subseteq People
    /\ unheard \subseteq unheard' /\ unheard' \subseteq Joined
    /\ (Remember \/ UNCHANGED since)

LEMMA TypesByRequest == ASSUME Types, Ongoing PROVE Types'
<1>1. since' \in [Conns -> SUBSET Levels]
  BY RememberType DEF Types, Ongoing
<1>2. Joined' = Joined
  BY DEF Ongoing, Joined
<1> QED
  BY <1>1, <1>2 DEF Types, Ongoing

LEMMA SetRowTypes ==
    ASSUME Types, NEW i \in Item, NEW r \in Levels, SetRow(i, r)
    PROVE  right' \in [People -> Levels] /\ invited' \in [People -> Levels]
BY DEF SetRow, Types, Item

LEMMA Announced == ASSUME NEW b PROVE Announcing(b) \in Request
BY DEF Announcing, Request, Idle

LEMMA ReplacedIsRight ==
    ASSUME NEW h \in Rights, NEW b \in Rights
    PROVE  Replaced(h, b) \in Rights
BY DEF Replaced

LEMMA RaiseTypes == ASSUME NEW t, Raise(t), unheard \subseteq Joined
                    PROVE unheard \subseteq unheard' /\ unheard' \subseteq Joined
BY DEF Raise, Overlooked

LEMMA OngoingSave == ASSUME Types, NEW t \in Tasks, SaveStep(t) PROVE Ongoing
<1> DEFINE q == request[t]
           i == Head(q.items)
<1>1. /\ q \in Request /\ request \in [Tasks -> Request] /\ unheard \subseteq Joined
      /\ requests \in Nat
  BY DEF Types
<1>2. CASE DeleteItem(t)
  <2>1. /\ q.at = "item" /\ q.items # <<>> /\ SetRow(i, None) /\ granted' = granted \ {i.who}
        /\ request' = Withhold(i.who, i.as, [request EXCEPT ![t] = Idle])
        /\ UNCHANGED <<invite, token, conn, notice, setting, counters>>
        /\ Raise(t) /\ Remember
    BY <1>2 DEF DeleteItem
  <2>2. i \in Item
    BY <1>1, <2>1, Fields, HeadItem
  <2>3. [request EXCEPT ![t] = Idle] \in [Tasks -> Request]
    BY <1>1 DEF Request
  <2>4. request' \in [Tasks -> Request]
    BY <2>1, <2>3, Withheld
  <2>5. right' \in [People -> Levels] /\ invited' \in [People -> Levels]
    BY <2>1, <2>2, SetRowTypes DEF Levels
  <2> QED
    BY <1>1, <2>1, <2>4, <2>5, RaiseTypes DEF Ongoing, Types, counters
<1>3. CASE ReadItem(t)
  <2>1. /\ q.at = "item" /\ q.items # <<>>
        /\ request' = [request EXCEPT ![t] =
                [at |-> "write", items |-> q.items, changed |-> q.changed, held |-> Row(i),
                 gone |-> FALSE, usable |-> q.usable]]
        /\ UNCHANGED <<rows, conn, notice, setting, counters, granted, unheard, since>>
        /\ i.rights # "delete"
    BY <1>3 DEF ReadItem
  <2>2. q.items \in Writable /\ q.changed \in BOOLEAN /\ q.usable \in BOOLEAN /\ i \in Item
    BY <1>1, <2>1, Fields, HeadItem DEF Writable
  <2>3. Row(i) \in Levels
    BY <2>2 DEF Row, Types, Item
  <2>4. request' \in [Tasks -> Request]
    BY <1>1, <2>1, <2>2, <2>3 DEF Request
  <2> QED
    BY <1>1, <2>1, <2>4 DEF Ongoing, Types, counters, rows
<1>4. ASSUME NEW b \in BOOLEAN, NEW u \in BOOLEAN, q.items \in Seq(Item), q.items # <<>>,
             NextItem(t, b, u)
      PROVE  request' \in [Tasks -> Request]
  <2>1. Tail(q.items) \in Seq(Item)
    BY <1>4, HeadItem
  <2> QED
    BY <1>1, <1>4, <2>1 DEF NextItem, Request
<1>5. CASE SkipItem(t) \/ PassItem(t)
  <2>1. PICK u \in {TRUE, q.usable} :
        /\ q.at \in {"item", "write"} /\ (q.at = "item" => q.items # <<>>) /\ NextItem(t, q.changed, u)
        /\ UNCHANGED <<rows, conn, notice, setting, counters, granted, unheard, since>>
    BY <1>5 DEF SkipItem, PassItem
  <2>2. q.changed \in BOOLEAN /\ u \in BOOLEAN /\ q.items \in Seq(Item) /\ q.items # <<>>
    BY <1>1, <2>1, Fields
  <2>3. request' \in [Tasks -> Request]
    BY <1>4, <2>1, <2>2
  <2> QED
    BY <1>1, <2>1, <2>3 DEF Ongoing, Types, counters, rows
<1>6. CASE WriteItem(t) \/ BreakOff(t)
  <2>1. /\ q.at = "write" /\ SetRow(i, i.rights) /\ Remember
        /\ granted' = granted \cup {i.who}
        /\ UNCHANGED <<invite, token, conn, notice, setting, counters>>
    BY <1>6 DEF WriteItem, BreakOff, SaveItem
  <2>2. i \in Item /\ i.who \in People
    BY <1>1, <2>1, Fields, HeadItem
  <2>3. request' \in [Tasks -> Request]
    <3>1. CASE BreakOff(t)
      BY <1>1, <3>1 DEF BreakOff, Finish, Request
    <3>2. CASE WriteItem(t)
      <4>1. Usable(t) \in BOOLEAN /\ q.items \in Seq(Item) /\ q.items # <<>>
        BY <1>1, <2>1, Fields DEF Usable
      <4>2. NextItem(t, TRUE, Usable(t))
        BY <3>2 DEF WriteItem
      <4> QED
        BY <1>4, <4>1, <4>2
    <3> QED
      BY <1>6, <3>1, <3>2
  <2>6. unheard \subseteq unheard' /\ unheard' \subseteq Joined
    BY <1>1, <1>6, RaiseTypes DEF WriteItem, BreakOff
  <2>4. i.rights \in Rights
    BY <1>1, <2>1, Fields
  <2>5. right' \in [People -> Levels] /\ invited' \in [People -> Levels]
    BY <2>1, <2>2, <2>4, SetRowTypes DEF Levels
  <2> QED
    BY <1>1, <2>1, <2>2, <2>3, <2>5, <2>6 DEF Ongoing, Types, counters
<1>7. CASE RefuseItem(t)
  <2>1. /\ request' = [request EXCEPT ![t] = Idle] /\ Raise(t)
        /\ UNCHANGED <<rows, conn, notice, setting, counters, granted, since>>
    BY <1>7 DEF RefuseItem, Finish
  <2>2. request' \in [Tasks -> Request]
    BY <1>1, <2>1 DEF Request
  <2> QED
    BY <1>1, <2>1, <2>2, RaiseTypes DEF Ongoing, Types, counters, rows
<1>8. CASE EndSave(t)
  <2>1. /\ request' = [request EXCEPT ![t] = Announcing(q.changed)]
        /\ UNCHANGED <<rows, conn, notice, setting, counters, granted, unheard, since>>
    BY <1>8 DEF EndSave
  <2>2. request' \in [Tasks -> Request]
    BY <1>1, <2>1, Announced
  <2> QED
    BY <1>1, <2>1, <2>2 DEF Ongoing, Types, counters, rows
<1> QED
  BY <1>2, <1>3, <1>5, <1>6, <1>7, <1>8 DEF SaveStep

LEMMA OngoingAccept ==
    ASSUME Types, NEW t \in Tasks, Unlink(t) \/ AcceptStep(t) PROVE Ongoing
<1> DEFINE q == request[t]
           p == q.who
<1>1. /\ q \in Request /\ request \in [Tasks -> Request] /\ unheard \subseteq Joined
      /\ requests \in Nat
  BY DEF Types
<1>2. CASE Unlink(t)
  <2>1. /\ q.at = "unlink" /\ right' = [right EXCEPT ![p] = None] /\ granted' = granted \ {p}
        /\ request' = Withhold(p, "user", [request EXCEPT ![t] = Announcing(q.affected)])
        /\ UNCHANGED <<invite, invited, token, conn, notice, setting, counters>>
        /\ unheard' \in {unheard, unheard \cup Overlooked} /\ Remember
    BY <1>2 DEF Unlink
  <2>2. [request EXCEPT ![t] = Announcing(q.affected)] \in [Tasks -> Request]
    BY <1>1, Announced
  <2>3. request' \in [Tasks -> Request]
    BY <2>1, <2>2, Withheld
  <2>4. p \in People
    BY <1>1, <2>1, Fields
  <2>5. unheard \subseteq unheard' /\ unheard' \subseteq Joined
    BY <1>1, <2>1 DEF Overlooked
  <2> QED
    BY <1>1, <2>1, <2>3, <2>4, <2>5 DEF Ongoing, Types, counters, Levels
<1>3. CASE Compare(t)
  <2>1. /\ q.at = "apply" /\ UNCHANGED <<rows, conn, notice, setting, counters, granted, unheard, since>>
        /\ request' = [request EXCEPT ![t] =
              IF q.brought = None THEN [at |-> "leave", who |-> p, give |-> None, tell |-> FALSE]
              ELSE IF right[p] = None
                   THEN [at |-> "drop", who |-> p, give |-> q.brought, tell |-> TRUE]
                   ELSE [at |-> "merge", who |-> p, brought |-> q.brought, held |-> right[p]]]
    BY <1>3 DEF Compare
  <2>2. p \in People /\ q.brought \in Levels /\ right[p] \in Levels
    BY <1>1, <2>1, Fields DEF Types
  <2>3. CASE q.brought = None
    <3>1. request' = [request EXCEPT ![t] =
                [at |-> "leave", who |-> p, give |-> None, tell |-> FALSE]]
      BY <2>1, <2>3
    <3>2. request' \in [Tasks -> Request]
      BY <1>1, <2>2, <3>1 DEF Request, Levels
    <3> QED
      BY <1>1, <2>1, <3>2 DEF Ongoing, Types, counters, rows
  <2>4. CASE q.brought # None /\ right[p] = None
    <3>1. request' = [request EXCEPT ![t] =
                [at |-> "drop", who |-> p, give |-> q.brought, tell |-> TRUE]]
      BY <2>1, <2>4
    <3>2. request' \in [Tasks -> Request]
      BY <1>1, <2>2, <3>1 DEF Request
    <3> QED
      BY <1>1, <2>1, <3>2 DEF Ongoing, Types, counters, rows
  <2>5. CASE q.brought # None /\ right[p] # None
    <3>1. request' = [request EXCEPT ![t] =
                [at |-> "merge", who |-> p, brought |-> q.brought, held |-> right[p]]]
      BY <2>1, <2>5
    <3>2. q.brought \in Rights /\ right[p] \in Rights
      BY <2>2, <2>5 DEF Levels
    <3>3. request' \in [Tasks -> Request]
      BY <1>1, <2>2, <3>1, <3>2 DEF Request
    <3> QED
      BY <1>1, <2>1, <3>3 DEF Ongoing, Types, counters, rows
  <2> QED
    BY <2>3, <2>4, <2>5
<1>4. CASE Merge(t)
  <2> DEFINE r == Replaced(q.held, q.brought)
  <2>1. /\ q.at = "merge" /\ right' \in {right, [right EXCEPT ![p] = r]}
        /\ granted' \in {granted, granted \cup {p}}
        /\ request' = [request EXCEPT ![t] = [at |-> "drop", who |-> p, give |-> None, tell |-> TRUE]]
        /\ UNCHANGED <<invite, invited, token, conn, notice, setting, counters, unheard>>
        /\ Remember
    BY <1>4 DEF Merge
  <2>2. p \in People /\ r \in Rights
    BY <1>1, <2>1, Fields, ReplacedIsRight
  <2> HIDE DEF r
  <2>3. request' \in [Tasks -> Request]
    BY <1>1, <2>1, <2>2 DEF Request, Levels
  <2>4. right' \in [People -> Levels]
    BY <2>1, <2>2 DEF Types, Levels
  <2> QED
    BY <1>1, <2>1, <2>2, <2>3, <2>4 DEF Ongoing, Types, counters
<1>5. ASSUME NEW at \in {"drop", "leave"}, q.at = at, NEW next \in {"leave", "give"}
      PROVE  [request EXCEPT ![t].at = next] \in [Tasks -> Request]
  <2> DEFINE e == [q EXCEPT !.at = next]
  <2>1. q \in [at : {"drop", "leave", "give"}, who : People, give : Levels, tell : BOOLEAN]
    BY <1>1, <1>5 DEF Request, Idle
  <2>2. e \in Request
    BY <2>1 DEF Request
  <2> HIDE DEF e
  <2>3. [request EXCEPT ![t] = e] \in [Tasks -> Request]
    BY <1>1, <2>2
  <2> QED
    BY <2>3 DEF e
<1>6. CASE DropRight(t)
  <2>1. /\ q.at = "drop" /\ invited' = [invited EXCEPT ![p] = None]
        /\ request' = Withhold(p, "invite", [request EXCEPT ![t].at = "leave"])
        /\ UNCHANGED <<right, invite, token, conn, notice, setting, counters, granted, unheard, since>>
    BY <1>6 DEF DropRight
  <2>2. request' \in [Tasks -> Request]
    BY <1>5, <2>1, Withheld
  <2> QED
    BY <1>1, <2>1, <2>2 DEF Ongoing, Types, counters, Levels
<1>7. CASE DropInvite(t)
  <2>1. /\ q.at = "leave" /\ invited' = [invited EXCEPT ![p] = None]
        /\ invite' = [invite EXCEPT ![p] = "none"]
        /\ request' = Withhold(p, "invite", [request EXCEPT ![t].at = "give"])
        /\ UNCHANGED <<right, token, conn, notice, setting, counters, granted, unheard, since>>
    BY <1>7 DEF DropInvite
  <2>2. request' \in [Tasks -> Request]
    BY <1>5, <2>1, Withheld
  <2> QED
    BY <1>1, <2>1, <2>2 DEF Ongoing, Types, counters, Levels
<1>8. CASE Give(t)
  <2> DEFINE g == q.give
             b == q.tell /\ (g = None \/ right[p] = None)
  <2>1. /\ q.at = "give" /\ right' \in {right, [right EXCEPT ![p] = g]}
        /\ request' = [request EXCEPT ![t] = Announcing(b)]
        /\ UNCHANGED <<invite, invited, token, conn, notice, setting, counters, granted, unheard>>
        /\ Remember
    BY <1>8 DEF Give
  <2>2. p \in People /\ g \in Levels
    BY <1>1, <2>1, Fields
  <2> HIDE DEF b, g
  <2>3. request' \in [Tasks -> Request]
    BY <1>1, <2>1, Announced
  <2> QED
    BY <1>1, <2>1, <2>2, <2>3 DEF Ongoing, Types, counters
<1> QED
  BY <1>2, <1>3, <1>4, <1>6, <1>7, <1>8 DEF AcceptStep

LEMMA OngoingNew ==
    ASSUME Types, NEW t \in Tasks, NewRequest(t) PROVE Ongoing
<1>1. /\ request \in [Tasks -> Request] /\ unheard \subseteq Joined
      /\ requests \in Nat
  BY DEF Types
<1>2. requests' \in Nat
  <2>1. Start(t)
    BY DEF NewRequest, BeginSave, BeginUnlink, Invite, Decline, BeginAccept, CreateToken,
           RevokeToken
  <2> QED
    BY <1>1, <2>1 DEF Start
<1>3. CASE BeginSave(t)
  <2>1. PICK order \in Orders, u \in {FALSE, setting.encrypted} :
            request' = [request EXCEPT ![t] =
                [at |-> "item", items |-> order, changed |-> FALSE, usable |-> u]]
    BY <1>3 DEF BeginSave
  <2>4. u \in BOOLEAN
    BY <2>1, SharingAssumption DEF Types
  <2>2. order \in Seq(Item)
    BY SharingAssumption
  <2>3. request' \in [Tasks -> Request]
    BY <1>1, <2>1, <2>2, <2>4 DEF Request
  <2> QED
    BY <1>1, <1>2, <1>3, <2>3 DEF BeginSave, Ongoing, Types, rows
<1>4. CASE BeginUnlink(t)
  <2>1. request' \in [Tasks -> Request]
    BY <1>1, <1>4 DEF BeginUnlink, Request
  <2> QED
    BY <1>1, <1>2, <1>4, <2>1 DEF BeginUnlink, Ongoing, Types, rows
<1>5. CASE Invite(t)
  BY <1>1, <1>2, <1>5 DEF Invite, Ongoing, Types
<1>6. CASE Decline(t)
  <2>1. request' \in [Tasks -> Request]
    BY <1>1, <1>6, Withheld DEF Decline
  <2> QED
    BY <1>1, <1>2, <1>6, <2>1 DEF Decline, Ongoing, Types, Levels
<1>7. CASE BeginAccept(t)
  <2>1. PICK p \in People : request' = [request EXCEPT ![t] =
            [at |-> "apply", who |-> p, brought |-> invited[p]]]
    BY <1>7 DEF BeginAccept
  <2>2. invited[p] \in Levels
    BY DEF Types
  <2>3. request' \in [Tasks -> Request]
    BY <1>1, <2>1, <2>2 DEF Request
  <2> QED
    BY <1>1, <1>2, <1>7, <2>3 DEF BeginAccept, Ongoing, Types, rows
<1>8. CASE CreateToken(t)
  BY <1>1, <1>2, <1>8 DEF CreateToken, Ongoing, Types
<1>9. CASE RevokeToken(t)
  <2>1. request' = [request EXCEPT ![t] = Announcing(TRUE)]
    BY <1>9 DEF RevokeToken
  <2>2. request' \in [Tasks -> Request]
    BY <1>1, <2>1, Announced
  <2> QED
    BY <1>1, <1>2, <1>9, <2>2 DEF RevokeToken, Ongoing, Types
<1> QED
  BY <1>3, <1>4, <1>5, <1>6, <1>7, <1>8, <1>9 DEF NewRequest

LEMMA OngoingAlone ==
    ASSUME Types, (\E p \in People : Connect(p)) \/ (\E r \in Links : ExpireToken(r))
    PROVE  Ongoing
<1>1. unheard \subseteq Joined /\ requests \in Nat
  BY DEF Types
<1> QED
  BY <1>1 DEF Connect, ExpireToken, Overlooked, Ongoing, Types, counters

\* A step of one connection.
Moves(c) ==
    /\ UNCHANGED <<rows, request, setting, requests, granted>>
    /\ connects' \in Nat /\ frames' \in Nat
    /\ conn' \in [Conns -> Connection]
    /\ \A d \in Conns \ {c} : conn'[d] = conn[d] /\ since'[d] = since[d]
    /\ \A d \in Conns \ {c} : (d \in notice' <=> d \in notice) /\ (d \in unheard' <=> d \in unheard)
    /\ notice' \subseteq Conns /\ unheard' \subseteq Conns
    /\ since' \in [Conns -> SUBSET Levels]
    /\ conn'[c].at \in {"out", "reading"} => c \notin notice' \cup unheard'

LEMMA TypesByConn == ASSUME Types, NEW c \in Conns, Moves(c) PROVE Types'
<1>1. \A d \in Conns : conn'[d] \in Connection
  BY DEF Moves
<1>2. \A d \in Conns : conn'[d].at \in {"out", "reading", "in", "checking", "noticed"}
  BY <1>1, Parts
<1>3. notice' \subseteq Joined' /\ unheard' \subseteq Joined'
  BY <1>2 DEF Types, Moves, Joined
<1> QED
  BY <1>3 DEF Types, Moves, rows

ConnStep(c) ==
    \/ OpenGuest(c) \/ OpenPerson(c) \/ Enter(c) \/ Frame(c) \/ FrameOnCachedRights(c)
    \/ Notice(c) \/ Answer(c) \/ Leave(c)

LEMMA ClosedMoves ==
    ASSUME Types, NEW c \in Conns, Close(c), UNCHANGED <<rows, request, setting, counters, granted>>
    PROVE  Moves(c) /\ conn'[c] = Out
<1>1. conn' = [conn EXCEPT ![c] = Out] /\ since' = [since EXCEPT ![c] = {}]
      /\ notice' = notice \ {c} /\ unheard' = unheard \ {c}
  BY DEF Close, Set
<1>2. conn \in [Conns -> Connection] /\ since \in [Conns -> SUBSET Levels] /\ Out \in Connection
      /\ notice \subseteq Conns /\ unheard \subseteq Conns /\ connects \in Nat /\ frames \in Nat
  BY DEF Types, Connection, Joined
<1>3. /\ conn' \in [Conns -> Connection] /\ since' \in [Conns -> SUBSET Levels] /\ conn'[c] = Out
      /\ \A d \in Conns \ {c} : conn'[d] = conn[d] /\ since'[d] = since[d]
  BY <1>1, <1>2
<1> QED
  BY <1>1, <1>2, <1>3 DEF Moves, counters

\* The right that was read arrives.
LEMMA ReturnedMoves ==
    ASSUME Types, NEW c \in Conns, conn[c].at \in {"checking", "noticed"}, conn[c].fresh \in Rights,
           Return(c)
    PROVE  /\ Moves(c) /\ conn'[c].at = "in" /\ conn'[c].right = conn[c].fresh
           /\ conn'[c].token = conn[c].token /\ UNCHANGED <<notice, unheard, since>>
<1> DEFINE e == [at |-> "in", right |-> conn[c].fresh, token |-> conn[c].token, checked |-> TRUE]
<1>1. conn' = [conn EXCEPT ![c] = e]
      /\ UNCHANGED <<rows, request, notice, setting, counters, granted, unheard, since>>
  BY DEF Return, Set
<1>2. conn \in [Conns -> Connection] /\ since \in [Conns -> SUBSET Levels]
      /\ notice \subseteq Conns /\ unheard \subseteq Conns /\ connects \in Nat /\ frames \in Nat
  BY DEF Types, Joined
<1>3. conn[c].token \in Rights \cup {None}
  BY <1>2, Parts
<1>4. e \in Connection
  BY <1>3 DEF Connection
<1>5. conn' \in [Conns -> Connection] /\ conn'[c] = e /\ \A d \in Conns \ {c} : conn'[d] = conn[d]
  BY <1>1, <1>2, <1>4
<1> QED
  BY <1>1, <1>2, <1>5 DEF Moves, counters

\* A connection goes and asks, or takes the right it has.
LEMMA AskingMoves ==
    ASSUME Types, NEW c \in Conns, conn[c].at = "in", NEW to \in {"checking", "noticed"},
           NEW fresh \in Levels, conn' = [conn EXCEPT ![c] = Asking(c, to, fresh)],
           UNCHANGED <<rows, request, setting, requests, connects, granted>>, frames' \in Nat,
           notice' \in {notice, notice \ {c}}, unheard' \in {unheard, unheard \ {c}},
           since' \in {since, [since EXCEPT ![c] = {Now(c)}]}
    PROVE  /\ Moves(c) /\ conn'[c].at = to /\ conn'[c].fresh = fresh
           /\ conn'[c].token = conn[c].token
<1> DEFINE e == Asking(c, to, fresh)
<1>2. conn \in [Conns -> Connection] /\ since \in [Conns -> SUBSET Levels]
      /\ notice \subseteq Conns /\ unheard \subseteq Conns /\ connects \in Nat
  BY DEF Types, Joined
<1>3. /\ conn[c].right \in Rights /\ conn[c].token \in Rights \cup {None}
      /\ conn[c].checked \in BOOLEAN
  BY <1>2, Parts
<1>4. e \in Connection /\ e.at = to /\ e.fresh = fresh /\ e.token = conn[c].token
  BY <1>3 DEF Connection, Asking
<1>5. conn' \in [Conns -> Connection] /\ conn'[c] = e /\ \A d \in Conns \ {c} : conn'[d] = conn[d]
  BY <1>2, <1>4
<1>6. Now(c) \in Levels
  BY NowLevels
<1>7. since' \in [Conns -> SUBSET Levels] /\ \A d \in Conns \ {c} : since'[d] = since[d]
  BY <1>2, <1>6
<1> HIDE DEF e
<1> QED
  BY <1>2, <1>4, <1>5, <1>7 DEF Moves

LEMMA OpenedMoves ==
    ASSUME Types, NEW c \in Conns, OpenGuest(c) \/ OpenPerson(c)
    PROVE  /\ Moves(c) /\ conn'[c].at = "reading"
           /\ IF c \in People THEN conn'[c].token = None
              ELSE conn'[c].token \in Links /\ token[conn'[c].token] # "none"
<1>0. c \in People <=> c \notin Guests
  BY SharingAssumption DEF Conns
<1>1. PICK r \in Rights, l \in Rights \cup {None} :
        /\ conn' = [conn EXCEPT ![c] = [at |-> "reading", right |-> r, token |-> l, checked |-> FALSE]]
        /\ IF c \in People THEN l = None ELSE l \in Links /\ token[l] # "none"
  <2>1. CASE OpenGuest(c)
    BY <1>0, <2>1, SharingAssumption DEF OpenGuest, Set
  <2>2. CASE OpenPerson(c)
    <3>1. right[c] \in Rights
      BY <2>2 DEF OpenPerson, Types, Levels
    <3> QED
      BY <2>2, <3>1 DEF OpenPerson, Set
  <2> QED
    BY <2>1, <2>2
<1> DEFINE e == [at |-> "reading", right |-> r, token |-> l, checked |-> FALSE]
<1>2. conn \in [Conns -> Connection] /\ since \in [Conns -> SUBSET Levels]
      /\ notice \subseteq Joined /\ unheard \subseteq Joined /\ frames \in Nat /\ connects \in Nat
  BY DEF Types
<1>3. /\ UNCHANGED <<rows, request, notice, setting, requests, frames, granted, unheard, since>>
      /\ conn[c].at = "out" /\ connects' = connects + 1
  BY DEF OpenGuest, OpenPerson
<1>4. e \in Connection
  BY DEF Connection
<1>5. conn' \in [Conns -> Connection] /\ conn'[c] = e /\ \A d \in Conns \ {c} : conn'[d] = conn[d]
  BY <1>1, <1>2, <1>4
<1>6. c \notin notice \cup unheard /\ notice \subseteq Conns /\ unheard \subseteq Conns
  BY <1>2, <1>3 DEF Joined
<1>7. Moves(c)
  BY <1>2, <1>3, <1>5, <1>6 DEF Moves
<1> QED
  BY <1>1, <1>5, <1>7

LEMMA EnteredMoves ==
    ASSUME Types, NEW c \in Conns, Enter(c)
    PROVE  /\ Moves(c) /\ conn'[c].at = "in" /\ conn'[c].right = conn[c].right
           /\ conn'[c].token = conn[c].token
           /\ since'[c] = {Now(c)} /\ (c \in unheard' \/ Now(c) = conn[c].right)
<1>1. conn \in [Conns -> Connection] /\ since \in [Conns -> SUBSET Levels]
      /\ notice \subseteq Conns /\ unheard \subseteq Conns /\ frames \in Nat /\ connects \in Nat
  BY DEF Types, Joined
<1> DEFINE n == conn[c]
           e == [n EXCEPT !.at = "in"]
<1>2. /\ conn' = [conn EXCEPT ![c] = e] /\ n.at = "reading"
      /\ unheard' = IF Now(c) = n.right THEN unheard ELSE unheard \cup {c}
      /\ since' = [since EXCEPT ![c] = {Now(c)}]
      /\ UNCHANGED <<rows, request, notice, setting, counters, granted>>
  BY DEF Enter, Set
<1>3. n \in [at : {"reading", "in"}, right : Rights, token : Rights \cup {None}, checked : BOOLEAN]
  BY <1>1, <1>2 DEF Connection, Out
<1> HIDE DEF n
<1>4. e \in Connection /\ e.at = "in" /\ e.right = n.right /\ e.token = n.token
  BY <1>3 DEF Connection
<1> HIDE DEF e
<1>5. conn' \in [Conns -> Connection] /\ conn'[c] = e /\ \A d \in Conns \ {c} : conn'[d] = conn[d]
  BY <1>1, <1>2, <1>4
<1>6. Now(c) \in Levels
  BY NowLevels
<1>7. since' \in [Conns -> SUBSET Levels] /\ since'[c] = {Now(c)}
      /\ \A d \in Conns \ {c} : since'[d] = since[d]
  BY <1>1, <1>2, <1>6
<1>8. Moves(c)
  BY <1>1, <1>2, <1>4, <1>5, <1>7 DEF Moves, counters
<1> QED
  BY <1>2, <1>4, <1>5, <1>7, <1>8 DEF n

-----------------------------------------------------------------------------
(* What a connection takes for its right, step by step of the connections. *)

LEMMA SameNow ==
    ASSUME NEW c \in Conns, UNCHANGED rows, conn[c].at # "out", conn'[c].at # "out",
           conn'[c].token = conn[c].token
    PROVE  Now(c)' = Now(c)
BY DEF Now, ByToken, rows

LEMMA ToldByConn ==
    ASSUME Types, Told, NEW c \in Conns, Moves(c), ToldOf(c)'
    PROVE  Told'
<1>1. Owed' = Owed /\ setting' = setting
  BY DEF Moves, Owed
<1>2. ASSUME NEW d \in Conns \ {c} PROVE ToldOf(d)'
  <2>1. conn'[d] = conn[d] /\ since'[d] = since[d] /\ UNCHANGED rows
    BY DEF Moves
  <2>2. Now(d)' = Now(d) /\ Believes(d)' = Believes(d) /\ (d \in Joined' <=> d \in Joined)
    BY <2>1 DEF Now, ByToken, rows, Believes, Joined
  <2>3. Hears(d)' <=> Hears(d)
    BY <1>1 DEF Moves, Hears
  <2>4. ToldOf(d)
    BY DEF Told
  <2> QED
    BY <1>1, <2>1, <2>2, <2>3, <2>4 DEF ToldOf
<1> QED
  BY <1>2 DEF Told

LEMMA ToldConnStep ==
    ASSUME Types, Told, NEW c \in Conns, ConnStep(c)
    PROVE  Moves(c) /\ Told'
<1>1. ToldOf(c) /\ c \in Conns /\ Now(c) \in Levels
  BY NowLevels DEF Told
<1>2. CASE OpenGuest(c) \/ OpenPerson(c)
  <2>1. Moves(c) /\ ToldOf(c)'
    BY <1>2, OpenedMoves DEF ToldOf, Joined
  <2> QED
    BY <2>1, ToldByConn
<1>3. CASE Enter(c)
  <2>1. Moves(c) /\ conn[c].at = "reading" /\ conn'[c].at = "in" /\ UNCHANGED rows
    BY <1>3, EnteredMoves DEF Enter
  <2>2. Now(c)' = Now(c)
    BY <1>3, <2>1, EnteredMoves, SameNow
  <2>3. ToldOf(c)'
    BY <1>3, <2>1, <2>2, EnteredMoves DEF ToldOf, Hears, Believes
  <2> QED
    BY <2>1, <2>3, ToldByConn
<1>4. ASSUME conn[c].at = "in", NEW to \in {"checking", "noticed"}, NEW fresh \in Levels,
             Moves(c), conn'[c].at = to, conn'[c].fresh = fresh, conn'[c].token = conn[c].token,
             fresh = Now(c) \/ Hears(c)',
             Now(c) \in since'[c],
             to = "checking" => fresh \in since'[c] \/ (setting'.lazy /\ Hears(c)')
      PROVE  Told'
  <2>1. Now(c)' = Now(c)
    BY <1>4, SameNow DEF Moves
  <2>2. ToldOf(c)'
    BY <1>4, <2>1 DEF ToldOf, Believes
  <2> QED
    BY <1>4, <2>2, ToldByConn
<1>5. CASE Frame(c)
  <2>1. /\ conn[c].at = "in" /\ conn' = [conn EXCEPT ![c] = Asking(c, "checking", Now(c))]
        /\ unheard' = unheard \ {c} /\ since' = [since EXCEPT ![c] = {Now(c)}] /\ frames' = frames + 1
        /\ UNCHANGED <<rows, request, notice, setting, requests, connects, granted>>
    BY <1>5 DEF Frame, Refresh
  <2>2. frames' \in Nat /\ since'[c] = {Now(c)}
    BY <2>1 DEF Types
  <2>3. /\ Moves(c) /\ conn'[c].at = "checking" /\ conn'[c].fresh = Now(c)
        /\ conn'[c].token = conn[c].token
    BY <1>1, <2>1, <2>2, AskingMoves
  <2> QED
    BY <1>1, <1>4, <2>1, <2>2, <2>3
<1>6. CASE FrameOnCachedRights(c)
  <2>1. /\ conn[c].at = "in" /\ conn' = [conn EXCEPT ![c] = Asking(c, "checking", conn[c].right)]
        /\ since' = [since EXCEPT ![c] = {Now(c)}] /\ frames' = frames + 1 /\ setting.lazy
        /\ UNCHANGED <<rows, request, notice, setting, requests, connects, granted, unheard>>
    BY <1>6 DEF FrameOnCachedRights
  <2>2. frames' \in Nat /\ since'[c] = {Now(c)} /\ conn[c] \in Connection
    BY <2>1 DEF Types
  <2>3. conn[c].right \in Levels
    BY <2>1, <2>2, Parts DEF Levels
  <2>4. /\ Moves(c) /\ conn'[c].at = "checking" /\ conn'[c].fresh = conn[c].right
        /\ conn'[c].token = conn[c].token
    BY <2>1, <2>2, <2>3, AskingMoves
  <2>5. conn[c].right = Now(c) \/ Hears(c)'
    <3>1. Hears(c)' <=> Hears(c)
      BY <2>1 DEF Hears, Owed
    <3> QED
      BY <1>1, <2>1, <3>1 DEF ToldOf, Believes, Joined
  <2> QED
    BY <1>1, <1>4, <2>1, <2>2, <2>3, <2>4, <2>5
<1>7. CASE Notice(c)
  <2>1. /\ conn[c].at = "in" /\ conn' = [conn EXCEPT ![c] = Asking(c, "noticed", Now(c))]
        /\ unheard' = unheard \ {c} /\ notice' = notice \ {c}
        /\ UNCHANGED <<rows, request, setting, counters, granted, since>>
    BY <1>7 DEF Notice, Refresh
  <2>2. frames' \in Nat /\ Now(c) \in since'[c]
    BY <1>1, <2>1 DEF Types, counters, ToldOf, Joined
  <2>3. /\ Moves(c) /\ conn'[c].at = "noticed" /\ conn'[c].fresh = Now(c)
        /\ conn'[c].token = conn[c].token
    BY <1>1, <2>1, <2>2, AskingMoves DEF counters
  <2> QED
    BY <1>1, <1>4, <2>1, <2>2, <2>3
<1>8. CASE Deny(c) \/ Leave(c)
  <2>1. Moves(c) /\ conn'[c] = Out
    BY <1>8, ClosedMoves DEF Deny, Leave
  <2>2. ToldOf(c)'
    BY <2>1 DEF ToldOf, Joined, Out
  <2> QED
    BY <2>1, <2>2, ToldByConn
<1>9. CASE Permit(c) \/ Handle(c) \/ Ignore(c)
  <2>1. conn[c].at \in {"checking", "noticed"} /\ Return(c) /\ conn[c].fresh # None
    BY <1>9 DEF Permit, Handle, Ignore, Updating, None, Rights
  <2>2. conn[c] \in Connection
    BY DEF Types
  <2>3. conn[c].fresh \in Rights
    BY <2>1, <2>2, Parts DEF Levels
  <2>4. /\ Moves(c) /\ conn'[c].at = "in" /\ conn'[c].right = conn[c].fresh
        /\ conn'[c].token = conn[c].token /\ UNCHANGED <<notice, unheard, since>>
    BY <2>1, <2>3, ReturnedMoves
  <2>5. Now(c)' = Now(c) /\ (Hears(c)' <=> Hears(c))
    BY <2>1, <2>4, SameNow DEF Moves, Hears, Owed
  <2>6. ToldOf(c)'
    BY <1>1, <2>1, <2>4, <2>5 DEF ToldOf, Believes, Joined
  <2> QED
    BY <2>4, <2>6, ToldByConn
<1> QED
  BY <1>2, <1>3, <1>5, <1>6, <1>7, <1>8, <1>9, OpenedMoves, EnteredMoves, ClosedMoves DEF ConnStep, Answer

-----------------------------------------------------------------------------
(* ... and of the requests.                                                *)

LEMMA ToldByRequest ==
    ASSUME Types, Told, Ongoing,
           \A c \in Joined : Then(c) # Now(c) => Remember /\ (Owed' \/ c \in unheard'),
           Owed => Owed' \/ \A c \in Joined : c \in unheard' \/ Believes(c) = Now(c)
    PROVE  Told'
<1> SUFFICES ASSUME NEW c \in Conns, c \in Joined'
             PROVE  ToldOf(c)'
  BY DEF Told, ToldOf
<1>1. /\ UNCHANGED <<conn, notice, setting>> /\ unheard \subseteq unheard'
      /\ (Remember \/ UNCHANGED since)
  BY DEF Ongoing
<1>2. c \in Joined /\ Believes(c)' = Believes(c) /\ Now(c)' = Then(c)
  BY <1>1 DEF Joined, Believes, Now, Then, ByToken
<1>3. ToldOf(c)
  BY DEF Told
<1>4. since[c] \subseteq since'[c] /\ Then(c) \in since'[c]
  <2>1. CASE Remember
    BY <1>2, <2>1 DEF Remember, Joined
  <2>2. CASE UNCHANGED since /\ Then(c) = Now(c)
    BY <1>2, <1>3, <2>2 DEF ToldOf
  <2> QED
    BY <1>1, <1>2, <2>1, <2>2
<1>5. Hears(c)' \/ (Believes(c) = Now(c) /\ Then(c) = Now(c))
  <2>1. CASE ~Owed' /\ c \notin unheard' /\ c \notin notice
    <3>1. Then(c) = Now(c)
      BY <1>2, <2>1
    <3>2. Believes(c) = Now(c)
      BY <1>1, <1>2, <1>3, <2>1 DEF ToldOf, Hears
    <3> QED
      BY <3>1, <3>2
  <2> QED
    BY <1>1, <2>1 DEF Hears
<1>6. conn[c].at = "checking" => conn[c].fresh \in since'[c] \/ (setting.lazy /\ Hears(c)')
  <2>1. ASSUME conn[c].at = "checking", ~Hears(c)'
        PROVE  conn[c].fresh \in since'[c]
    BY <1>4, <1>5, <2>1 DEF Believes
  <2>2. ASSUME conn[c].at = "checking", Hears(c)'
        PROVE  conn[c].fresh \in since'[c] \/ setting.lazy
    BY <1>2, <1>3, <1>4, <2>2 DEF ToldOf
  <2> QED
    BY <2>1, <2>2
<1> QED
  BY <1>1, <1>2, <1>4, <1>5, <1>6 DEF ToldOf

\* The tasks other than t owe what they owed.
Others(t) == \A u \in Tasks \ {t} : Owes(request[u]) => Owes(request'[u])

LEMMA OthersSame ==
    ASSUME Types, NEW t \in Tasks, NEW q, request' = [request EXCEPT ![t] = q]
    PROVE  Others(t) /\ request'[t] = q
BY DEF Types, Others

LEMMA OwesSlack ==
    ASSUME NEW n \in Request, NEW q, Slack(n, q)
    PROVE  (Owes(n) => Owes(q)) /\ (n.at # "write" => q = n)
<1>3. CASE n.at = "write"
  BY <1>3, SameFields DEF Owes, Slack
<1>4. CASE n.at # "write"
  BY <1>4 DEF Slack
<1> QED
  BY <1>3, <1>4

LEMMA OthersWithheld ==
    ASSUME Types, NEW t \in Tasks, NEW q \in Request, NEW who, NEW as,
           request' = Withhold(who, as, [request EXCEPT ![t] = q])
    PROVE  Others(t) /\ (q.at # "write" => request'[t] = q)
<1> DEFINE mid == [request EXCEPT ![t] = q]
<1>1. mid \in [Tasks -> Request] /\ mid[t] = q /\ \A u \in Tasks \ {t} : mid[u] = request[u]
  BY DEF Types
<1>2. request' = Withhold(who, as, mid)
  OBVIOUS
<1> HIDE DEF mid
<1>3. ASSUME NEW u \in Tasks
      PROVE  (Owes(mid[u]) => Owes(request'[u])) /\ (mid[u].at # "write" => request'[u] = mid[u])
  <2>1. mid \in Requests
    BY <1>1 DEF Requests
  <2>2. Slack(mid[u], Withhold(who, as, mid)[u])
    BY <2>1, WithheldEach
  <2>3. Slack(mid[u], request'[u])
    BY <1>2, <2>2
  <2>4. mid[u] \in Request
    BY <1>1
  <2> QED
    BY <2>3, <2>4, OwesSlack
<1> QED
  BY <1>1, <1>3 DEF Others

LEMMA StillOwed ==
    ASSUME NEW t \in Tasks, Others(t), Owed, Owes(request[t]) => Owes(request'[t])
    PROVE  Owed'
BY DEF Owed, Others

\* The rows that say who may do what stay, and so does everybody's right.
LEMMA SameThen ==
    ASSUME UNCHANGED <<right, token>>, NEW c \in Conns
    PROVE  Then(c) = Now(c)
BY DEF Then, Now

LEMMA ToldSave ==
    ASSUME Types, Told, NEW t \in Tasks, SaveStep(t)
    PROVE  Told'
<1> DEFINE q == request[t]
           i == Head(q.items)
<1>0. Ongoing /\ q \in Request
  BY OngoingSave DEF Types
<1>1. ASSUME UNCHANGED <<right, token>>,
             Owed => Owed' \/ \A c \in Joined : c \in unheard' \/ Believes(c) = Now(c)
      PROVE  Told'
  BY <1>0, <1>1, SameThen, ToldByRequest DEF Joined
<1>2. CASE DeleteItem(t)
  <2>1. /\ q.at = "item" /\ Raise(t) /\ Remember
        /\ request' = Withhold(i.who, i.as, [request EXCEPT ![t] = Idle])
    BY <1>2 DEF DeleteItem
  <2>2. Others(t)
    BY <2>1, OthersWithheld DEF Request
  <2>3. \A c \in Joined : Then(c) # Now(c) => c \in unheard'
    BY <2>1 DEF Raise, Overlooked
  <2>4. q.changed => \A c \in Joined : c \in unheard' \/ Believes(c) = Now(c)
    BY <2>1 DEF Raise
  <2>5. Owed => Owed' \/ q.changed
    BY <2>1, <2>2, StillOwed DEF Owes
  <2> QED
    BY <1>0, <2>1, <2>3, <2>4, <2>5, ToldByRequest
<1>3. CASE ReadItem(t)
  <2>1. /\ q.at = "item" /\ UNCHANGED <<right, token>>
        /\ request' = [request EXCEPT ![t] =
                [at |-> "write", items |-> q.items, changed |-> q.changed, held |-> Row(i),
                 gone |-> FALSE, usable |-> q.usable]]
    BY <1>3 DEF ReadItem, rows
  <2>2. Owes(q) => Owes(request'[t])
    <3> DEFINE r == Row(i)
    <3> HIDE DEF r
    <3>1. request'[t] = [at |-> "write", items |-> q.items, changed |-> q.changed, held |-> r,
                         gone |-> FALSE, usable |-> q.usable]
      BY <2>1, OthersSame DEF r
    <3> QED
      BY <2>1, <3>1 DEF Owes
  <2> QED
    BY <1>1, <2>1, <2>2, OthersSame, StillOwed
<1>4. CASE SkipItem(t) \/ PassItem(t)
  <2>1. PICK u \in {TRUE, q.usable} :
        /\ q.at \in {"item", "write"} /\ UNCHANGED <<right, token>>
        /\ request' = [request EXCEPT ![t] =
                [at |-> "item", items |-> Tail(q.items), changed |-> q.changed, usable |-> u]]
    BY <1>4 DEF SkipItem, PassItem, rows, NextItem
  <2>2. Owes(q) => Owes(request'[t])
    <3> DEFINE rest == Tail(q.items)
    <3> HIDE DEF rest
    <3>1. request'[t] = [at |-> "item", items |-> rest, changed |-> q.changed, usable |-> u]
      BY <2>1, OthersSame DEF rest
    <3> QED
      BY <2>1, <3>1 DEF Owes
  <2> QED
    BY <1>1, <2>1, <2>2, OthersSame, StillOwed
<1>5. CASE WriteItem(t)
  <2>1. /\ request' = [request EXCEPT ![t] =
                [at |-> "item", items |-> Tail(q.items), changed |-> TRUE, usable |-> Usable(t)]]
        /\ Remember
    BY <1>5 DEF WriteItem, SaveItem, NextItem
  <2>2. Owes(request'[t])
    <3> DEFINE rest == Tail(q.items)
               u == Usable(t)
    <3> HIDE DEF rest, u
    <3>1. request'[t] = [at |-> "item", items |-> rest, changed |-> TRUE, usable |-> u]
      BY <2>1, OthersSame DEF rest, u
    <3> QED
      BY <3>1 DEF Owes
  <2>3. Owed'
    BY <2>2 DEF Owed
  <2> QED
    BY <1>0, <2>1, <2>3, ToldByRequest
<1>8. CASE BreakOff(t)
  <2>1. q.at = "write" /\ Raise(t) /\ Remember /\ request' = [request EXCEPT ![t] = Idle]
    BY <1>8 DEF BreakOff, SaveItem, Finish
  <2>2. \A c \in Joined : Then(c) # Now(c) => c \in unheard'
    BY <2>1 DEF Raise, Overlooked
  <2>3. q.changed => \A c \in Joined : c \in unheard' \/ Believes(c) = Now(c)
    BY <2>1 DEF Raise
  <2>4. Owed => Owed' \/ q.changed
    BY <2>1, OthersSame, StillOwed DEF Owes
  <2> QED
    BY <1>0, <2>1, <2>2, <2>3, <2>4, ToldByRequest
<1>6. CASE RefuseItem(t)
  <2>1. /\ q.at = "write" /\ Raise(t) /\ UNCHANGED <<right, token>>
        /\ request' = [request EXCEPT ![t] = Idle]
    BY <1>6 DEF RefuseItem, rows, Finish
  <2>2. q.changed => \A c \in Joined : c \in unheard' \/ Believes(c) = Now(c)
    BY <2>1 DEF Raise
  <2>3. Owed => Owed' \/ q.changed
    BY <2>1, OthersSame, StillOwed DEF Owes
  <2> QED
    BY <1>1, <2>1, <2>2, <2>3
<1>7. CASE EndSave(t)
  <2>1. /\ q.at = "item" /\ UNCHANGED <<right, token>>
        /\ request' = [request EXCEPT ![t] = Announcing(q.changed)]
    BY <1>7 DEF EndSave, rows
  <2>2. Owes(q) => Owes(request'[t])
    BY <2>1, OthersSame DEF Owes, Announcing
  <2> QED
    BY <1>1, <2>1, <2>2, OthersSame, StillOwed
<1> QED
  BY <1>2, <1>3, <1>4, <1>5, <1>6, <1>7, <1>8 DEF SaveStep

LEMMA ToldUnlink == ASSUME Types, Told, NEW t \in Tasks, Unlink(t) PROVE Told'
<1> DEFINE q == request[t]
<1>1. /\ q.at = "unlink" /\ Remember
      /\ request' = Withhold(q.who, "user", [request EXCEPT ![t] = Announcing(q.affected)])
      /\ unheard' = IF q.affected THEN unheard ELSE unheard \cup Overlooked
  BY DEF Unlink
<1>2. Ongoing /\ q \in Request /\ Announcing(q.affected) \in Request
  BY OngoingAccept, Announced DEF Types
<1>3. Announcing(q.affected).at # "write"
  BY DEF Announcing, Idle
<1>4. Others(t) /\ request'[t] = Announcing(q.affected)
  BY <1>1, <1>2, <1>3, OthersWithheld
<1>5. q.affected => Owed'
  BY <1>4 DEF Announcing, Owed, Owes
<1>6. \A c \in Joined : Then(c) # Now(c) => Owed' \/ c \in unheard'
  BY <1>1, <1>5 DEF Overlooked
<1>7. Owed => Owed'
  BY <1>1, <1>4, StillOwed DEF Owes
<1> QED
  BY <1>1, <1>2, <1>6, <1>7, ToldByRequest

LEMMA ToldAccept ==
    ASSUME Types, Told, Gives, NEW t \in Tasks, AcceptStep(t)
    PROVE  Told'
<1> DEFINE q == request[t]
           p == q.who
<1>0. Ongoing /\ q \in Request
  BY OngoingAccept DEF Types
<1>1. ASSUME UNCHANGED <<right, token>>, Owed => Owed'
      PROVE  Told'
  BY <1>0, <1>1, SameThen, ToldByRequest DEF Joined
<1>2. CASE Compare(t)
  <2>1. /\ q.at = "apply" /\ UNCHANGED <<right, token>>
        /\ \E next : request' = [request EXCEPT ![t] = next]
    BY <1>2 DEF Compare, rows
  <2>2. Others(t)
    BY <2>1, OthersSame
  <2> QED
    BY <1>1, <2>1, <2>2, StillOwed DEF Owes
<1>3. CASE Merge(t)
  <2>1. /\ Remember
        /\ request' = [request EXCEPT ![t] = [at |-> "drop", who |-> p, give |-> None, tell |-> TRUE]]
    BY <1>3 DEF Merge
  <2>2. request'[t] = [at |-> "drop", who |-> p, give |-> None, tell |-> TRUE]
    BY <2>1, OthersSame
  <2>3. Owed'
    BY <2>2 DEF Owed, Owes
  <2> QED
    BY <1>0, <2>1, <2>3, ToldByRequest
<1>4. ASSUME NEW at \in {"drop", "leave"}, q.at = at, NEW next \in {"leave", "give"},
             UNCHANGED <<right, token>>,
             request' = Withhold(p, "invite", [request EXCEPT ![t].at = next])
      PROVE  Told'
  <2> DEFINE e == [q EXCEPT !.at = next]
  <2>1. q \in [at : {"drop", "leave", "give"}, who : People, give : Levels, tell : BOOLEAN]
    BY <1>0, <1>4 DEF Request, Idle
  <2>2. e \in Request /\ e.at = next /\ e.give = q.give /\ e.tell = q.tell
    BY <2>1 DEF Request
  <2>3. request' = Withhold(p, "invite", [request EXCEPT ![t] = e])
    BY <1>4
  <2> HIDE DEF e
  <2>4. Others(t) /\ request'[t] = e
    BY <1>4, <2>2, <2>3, OthersWithheld, ZenonT(40)
  <2>5. Owes(q) => Owes(request'[t])
    BY <1>4, <2>2, <2>4 DEF Owes
  <2> QED
    BY <1>1, <1>4, <2>4, <2>5, StillOwed
<1>5. CASE DropRight(t)
  BY <1>4, <1>5 DEF DropRight
<1>6. CASE DropInvite(t)
  BY <1>4, <1>6 DEF DropInvite
<1>7. CASE Give(t)
  <2> DEFINE g == q.give
             b == q.tell /\ (g = None \/ right[p] = None)
  <2>1. /\ q.at = "give" /\ Remember /\ UNCHANGED token
        /\ right' = IF g # None /\ right[p] = None THEN [right EXCEPT ![p] = g] ELSE right
        /\ request' = [request EXCEPT ![t] = Announcing(b)]
    BY <1>7 DEF Give
  <2>2. Others(t) /\ request'[t] = Announcing(b)
    BY <2>1, OthersSame
  <2>3. b => Owed'
    BY <2>2 DEF Announcing, Owed, Owes
  <2>4. g # None => q.tell
    BY <2>1 DEF Gives, Tells
  <2>5. Owes(q) => Owes(request'[t])
    BY <2>1, <2>2 DEF Owes, Announcing
  <2>6. Owed => Owed'
    BY <2>2, <2>5, StillOwed
  <2>7. right' # right => Owed'
    BY <2>1, <2>3, <2>4
  <2>8. \A c \in Joined : Then(c) # Now(c) => Owed'
    BY <2>1, <2>7, SameThen DEF Joined
  <2> QED
    BY <1>0, <2>1, <2>6, <2>8, ToldByRequest
<1> QED
  BY <1>2, <1>3, <1>5, <1>6, <1>7 DEF AcceptStep

LEMMA ToldNew ==
    ASSUME Types, Told, Linked, NEW t \in Tasks, NewRequest(t)
    PROVE  Told'
<1>0. Ongoing /\ request[t] = Idle
  BY OngoingNew DEF NewRequest, BeginSave, BeginUnlink, Invite, Decline, BeginAccept, CreateToken,
           RevokeToken, Start
<1>1. Others(t) => (Owed => Owed')
  BY <1>0, StillOwed DEF Idle, Owes
<1>2. ASSUME Others(t), \A c \in Joined : Then(c) = Now(c)
      PROVE  Told'
  BY <1>0, <1>1, <1>2, ToldByRequest
<1>3. CASE BeginSave(t) \/ BeginUnlink(t) \/ BeginAccept(t)
  <2>1. (\E q : request' = [request EXCEPT ![t] = q]) /\ UNCHANGED <<right, token>>
    BY <1>3 DEF BeginSave, BeginUnlink, BeginAccept, rows
  <2>2. Others(t)
    BY <2>1, OthersSame
  <2> QED
    BY <1>2, <2>1, <2>2, SameThen DEF Joined
<1>4. CASE Invite(t)
  <2>1. Others(t) /\ UNCHANGED <<right, token>>
    BY <1>4 DEF Invite, Others
  <2> QED
    BY <1>2, <2>1, SameThen DEF Joined
<1>5. CASE Decline(t)
  <2>1. PICK p : request' = Withhold(p, "invite", request)
    BY <1>5 DEF Decline
  <2>2. request = [request EXCEPT ![t] = Idle] /\ Idle \in Request
    BY <1>0 DEF Types, Request
  <2>3. Others(t)
    BY <2>1, <2>2, OthersWithheld
  <2> QED
    BY <1>2, <1>5, <2>3, SameThen DEF Joined, Decline
<1>6. CASE CreateToken(t)
  <2>1. PICK r \in Links : token[r] = "none" /\ token' = [token EXCEPT ![r] = "active"]
    BY <1>6 DEF CreateToken
  <2>2. UNCHANGED <<right, request>>
    BY <1>6 DEF CreateToken
  <2>3. ASSUME NEW c \in Joined PROVE Then(c) = Now(c)
    <3>1. c \notin People => conn[c].token \in Links /\ conn[c].token # r
      BY <2>1 DEF Linked, Joined
    <3> QED
      BY <2>1, <2>2, <3>1 DEF Then, Now, ByToken, Types
  <2> QED
    BY <1>2, <2>2, <2>3 DEF Others
<1>7. CASE RevokeToken(t)
  <2>1. Remember /\ request' = [request EXCEPT ![t] = Announcing(TRUE)]
    BY <1>7 DEF RevokeToken
  <2>2. request'[t] = Announcing(TRUE)
    BY <2>1, OthersSame
  <2>3. Owed'
    BY <2>2 DEF Owed, Owes, Announcing
  <2> QED
    BY <1>0, <2>1, <2>3, ToldByRequest
<1> QED
  BY <1>3, <1>4, <1>5, <1>6, <1>7 DEF NewRequest

LEMMA ToldAlone ==
    ASSUME Types, Told, (\E p \in People : Connect(p)) \/ (\E r \in Links : ExpireToken(r))
    PROVE  Told'
<1>1. Ongoing /\ UNCHANGED request
  BY OngoingAlone DEF Connect, ExpireToken
<1>2. Owed' = Owed
  BY <1>1 DEF Owed
<1>3. CASE \E p \in People : Connect(p)
  <2>1. UNCHANGED <<right, token>>
    BY <1>3 DEF Connect
  <2> QED
    BY <1>1, <1>2, <2>1, SameThen, ToldByRequest DEF Joined
<1>4. CASE \E r \in Links : ExpireToken(r)
  BY <1>1, <1>2, <1>4, ToldByRequest DEF ExpireToken, Overlooked
<1> QED
  BY <1>3, <1>4

LEMMA ToldTell == ASSUME Types, Told, NEW t \in Tasks, Tell(t) PROVE Types' /\ Told'
<1>1. /\ notice' = notice \cup Joined /\ request' = [request EXCEPT ![t] = Idle]
      /\ UNCHANGED <<rows, conn, setting, counters, granted, unheard, since>>
  BY DEF Tell, Finish
<1>2. request' \in [Tasks -> Request] /\ Joined' = Joined
  BY <1>1 DEF Types, Request, Joined
<1>3. Types'
  BY <1>1, <1>2 DEF Types, rows, counters
<1>4. ASSUME NEW c \in Conns, c \in Joined'
      PROVE  ToldOf(c)'
  <2>1. c \in Joined /\ c \in notice' /\ ToldOf(c)
    BY <1>1, <1>2, <1>4 DEF Told
  <2>2. Now(c)' = Now(c)
    BY <1>1 DEF Now, ByToken, rows
  <2> QED
    BY <1>1, <2>1, <2>2 DEF ToldOf, Hears
<1> QED
  BY <1>3, <1>4 DEF Told, ToldOf

-----------------------------------------------------------------------------
(* Links, and what accepting an invitation announces.                      *)

LEMMA LinkedByRequest ==
    ASSUME Linked, UNCHANGED conn, \A l \in Links : token[l] # "none" => token'[l] # "none"
    PROVE  Linked'
BY DEF Linked

LEMMA LinkedStep ==
    ASSUME Types, Linked, Told, Next PROVE Linked'
<1>1. ASSUME NEW t \in Tasks, NewRequest(t) \/ RequestStep(t) PROVE Linked'
  <2>1. UNCHANGED conn /\ \A l \in Links : token[l] # "none" => token'[l] # "none"
    <3>1. CASE CreateToken(t) \/ RevokeToken(t)
      BY <3>1 DEF CreateToken, RevokeToken, Types
    <3>2. CASE UNCHANGED <<conn, token>>
      BY <3>2
    <3>3. RequestStep(t) => UNCHANGED <<conn, token>>
      BY DEF RequestStep, SaveStep, AcceptStep, DeleteItem, ReadItem, PassItem, SkipItem, SaveItem,
             WriteItem, BreakOff, RefuseItem,
             EndSave, Unlink, Compare, Merge, DropRight, DropInvite, Give, Tell, rows
    <3>4. NewRequest(t) => CreateToken(t) \/ RevokeToken(t) \/ UNCHANGED <<conn, token>>
      BY DEF NewRequest, BeginSave, BeginUnlink, Invite, Decline, BeginAccept, rows
    <3> QED
      BY <1>1, <3>1, <3>2, <3>3, <3>4
  <2> QED
    BY <2>1, LinkedByRequest
<1>2. CASE (\E p \in People : Connect(p)) \/ (\E r \in Links : ExpireToken(r))
  BY <1>2, LinkedByRequest DEF Connect, ExpireToken, Types
<1>3. ASSUME NEW c \in Conns, ConnStep(c) PROVE Linked'
  <2>0. Moves(c)
    BY <1>3, ToldConnStep
  <2>1. \/ OpenGuest(c) \/ OpenPerson(c)
        \/ conn'[c].at = "out"
        \/ conn[c].at # "out" /\ conn'[c].token = conn[c].token
    <3>1. CASE OpenGuest(c) \/ OpenPerson(c)
      BY <3>1, OpenedMoves
    <3>2. CASE Enter(c)
      BY <3>2, EnteredMoves DEF Enter
    <3>3. CASE Deny(c) \/ Leave(c)
      BY <3>3, ClosedMoves DEF Deny, Leave, Out
    <3>4. ASSUME NEW to, NEW fresh, conn[c].at = "in", conn' = [conn EXCEPT ![c] = Asking(c, to, fresh)]
          PROVE  conn[c].at # "out" /\ conn'[c].token = conn[c].token
      BY <3>4 DEF Asking, Types
    <3>5. CASE Frame(c) \/ FrameOnCachedRights(c) \/ Notice(c)
      BY <3>4, <3>5 DEF Frame, FrameOnCachedRights, Notice, Refresh
    <3>6. CASE Permit(c) \/ Handle(c) \/ Ignore(c)
      BY <3>6 DEF Permit, Handle, Ignore, Return, Set, Types
    <3> QED
      BY <1>3, <3>1, <3>2, <3>3, <3>5, <3>6 DEF ConnStep, Answer
  <2>2. UNCHANGED token /\ \A d \in Conns \ {c} : conn'[d] = conn[d]
    BY <2>0 DEF Moves, rows
  <2> QED
    BY <2>1, <2>2, OpenedMoves DEF Linked
<1> QED
  BY <1>1, <1>2, <1>3 DEF Next, ConnStep

LEMMA TellsSlack == ASSUME NEW n \in Request, NEW q, Slack(n, q), Tells(n) PROVE Tells(q)
<1>1. CASE n.at = "write"
  BY <1>1, SameFields DEF Tells, Slack
<1>2. CASE n.at # "write"
  BY <1>2 DEF Slack
<1> QED
  BY <1>1, <1>2

LEMMA GivesByOne ==
    ASSUME Types, Gives, NEW t \in Tasks, NEW q \in Request, Tells(q),
           NEW who, NEW as, LET then == [request EXCEPT ![t] = q]
                            IN  request' = then \/ request' = Withhold(who, as, then)
    PROVE  Gives'
<1> DEFINE mid == [request EXCEPT ![t] = q]
<1>1. mid \in [Tasks -> Request] /\ mid[t] = q /\ \A u \in Tasks \ {t} : mid[u] = request[u]
  BY DEF Types
<1>2. request' = mid \/ request' = Withhold(who, as, mid)
  OBVIOUS
<1> HIDE DEF mid
<1>3. ASSUME NEW u \in Tasks PROVE Tells(request'[u])
  <2>1. mid \in Requests /\ mid[u] \in Request
    BY <1>1 DEF Requests
  <2>2. Slack(mid[u], Withhold(who, as, mid)[u])
    BY <2>1, WithheldEach
  <2>3. Tells(mid[u])
    BY <1>1 DEF Gives
  <2>4. CASE request' = mid
    BY <2>3, <2>4
  <2>5. CASE request' = Withhold(who, as, mid)
    <3>1. Slack(mid[u], request'[u])
      BY <2>2, <2>5
    <3> QED
      BY <2>1, <2>3, <3>1, TellsSlack
  <2> QED
    BY <1>2, <2>4, <2>5
<1> QED
  BY <1>3 DEF Gives

LEMMA GivesSame ==
    ASSUME Types, Gives, NEW t \in Tasks, NEW q, Tells(q), request' = [request EXCEPT ![t] = q]
    PROVE  Gives'
BY DEF Types, Gives

LEMMA TellsPlain ==
    ASSUME NEW q, q.at \in {"idle", "tell", "item", "write", "unlink", "apply", "merge"}
    PROVE  Tells(q)
BY DEF Tells

LEMMA TellsAnnouncing == ASSUME NEW b PROVE Tells(Announcing(b)) /\ Tells(Idle)
BY TellsPlain DEF Announcing, Idle

LEMMA GivesSave ==
    ASSUME Types, Gives, NEW t \in Tasks, SaveStep(t) PROVE Gives'
<1> DEFINE q == request[t]
           i == Head(q.items)
<1>1. CASE DeleteItem(t)
  <2>1. request' = Withhold(i.who, i.as, [request EXCEPT ![t] = Idle]) /\ Idle \in Request
    BY <1>1 DEF DeleteItem, Request
  <2> QED
    BY <2>1, GivesByOne, TellsAnnouncing
<1>2. CASE ReadItem(t)
  <2> DEFINE r == Row(i)
             n == [at |-> "write", items |-> q.items, changed |-> q.changed, held |-> r, gone |-> FALSE,
                   usable |-> q.usable]
  <2>1. request' = [request EXCEPT ![t] = n]
    BY <1>2 DEF ReadItem
  <2>2. Tells(n)
    <3> HIDE DEF r
    <3> QED
      BY TellsPlain
  <2> HIDE DEF n
  <2> QED
    BY <2>1, <2>2, GivesSame
<1>3. ASSUME NEW b, NEW u, NextItem(t, b, u)
      PROVE  Gives'
  <2> DEFINE rest == Tail(q.items)
             n == [at |-> "item", items |-> rest, changed |-> b, usable |-> u]
  <2>1. request' = [request EXCEPT ![t] = n]
    BY <1>3 DEF NextItem
  <2>2. Tells(n)
    <3> HIDE DEF rest
    <3> QED
      BY TellsPlain
  <2> HIDE DEF n
  <2> QED
    BY <2>1, <2>2, GivesSame
<1>4. CASE RefuseItem(t) \/ BreakOff(t) \/ EndSave(t)
  BY <1>4, GivesSame, TellsAnnouncing DEF RefuseItem, BreakOff, Finish, EndSave
<1>5. CASE WriteItem(t)
  <2> DEFINE u == Usable(t)
  <2>1. NextItem(t, TRUE, u)
    BY <1>5 DEF WriteItem
  <2> HIDE DEF u
  <2> QED
    BY <1>3, <2>1
<1> QED
  BY <1>1, <1>2, <1>3, <1>4, <1>5 DEF SaveStep, SkipItem, PassItem

LEMMA GivesAccept ==
    ASSUME Types, Gives, NEW t \in Tasks, Unlink(t) \/ AcceptStep(t) PROVE Gives'
<1> DEFINE q == request[t]
           p == q.who
<1>0. q \in Request /\ Tells(q)
  BY DEF Types, Gives
<1>1. CASE Unlink(t)
  BY <1>1, GivesByOne, Announced, TellsAnnouncing DEF Unlink
<1>2. CASE Compare(t)
  <2> DEFINE next == IF q.brought = None THEN [at |-> "leave", who |-> p, give |-> None, tell |-> FALSE]
              ELSE IF right[p] = None
                   THEN [at |-> "drop", who |-> p, give |-> q.brought, tell |-> TRUE]
                   ELSE [at |-> "merge", who |-> p, brought |-> q.brought, held |-> right[p]]
  <2>1. request' = [request EXCEPT ![t] = next]
    BY <1>2 DEF Compare
  <2>2. CASE q.brought = None
    <3>1. Tells([at |-> "leave", who |-> p, give |-> None, tell |-> FALSE])
      BY DEF Tells
    <3> QED
      BY <2>1, <2>2, <3>1, GivesSame
  <2>3. CASE q.brought # None /\ right[p] = None
    <3>1. Tells([at |-> "drop", who |-> p, give |-> q.brought, tell |-> TRUE])
      BY DEF Tells
    <3> QED
      BY <2>1, <2>3, <3>1, GivesSame
  <2>4. CASE q.brought # None /\ right[p] # None
    <3>1. Tells([at |-> "merge", who |-> p, brought |-> q.brought, held |-> right[p]])
      BY TellsPlain
    <3> QED
      BY <2>1, <2>4, <3>1, GivesSame
  <2> QED
    BY <2>2, <2>3, <2>4
<1>3. CASE Merge(t)
  <2>1. Tells([at |-> "drop", who |-> p, give |-> None, tell |-> TRUE])
    BY DEF Tells
  <2> QED
    BY <1>3, <2>1, GivesSame DEF Merge
<1>4. ASSUME NEW at \in {"drop", "leave"}, q.at = at, NEW next \in {"leave", "give"},
             request' = Withhold(p, "invite", [request EXCEPT ![t].at = next])
      PROVE  Gives'
  <2> DEFINE e == [q EXCEPT !.at = next]
  <2>1. q \in [at : {"drop", "leave", "give"}, who : People, give : Levels, tell : BOOLEAN]
    BY <1>0, <1>4 DEF Request, Idle
  <2>2. e \in Request /\ e.at = next /\ e.give = q.give /\ e.tell = q.tell
    BY <2>1 DEF Request
  <2>3. request' = Withhold(p, "invite", [request EXCEPT ![t] = e])
    BY <1>4
  <2> HIDE DEF e
  <2>4. Tells(e)
    BY <1>0, <1>4, <2>2 DEF Tells
  <2> QED
    BY <2>2, <2>3, <2>4, GivesByOne
<1>5. CASE DropRight(t)
  BY <1>4, <1>5 DEF DropRight
<1>6. CASE DropInvite(t)
  BY <1>4, <1>6 DEF DropInvite
<1>7. CASE Give(t)
  BY <1>7, GivesSame, TellsAnnouncing DEF Give
<1> QED
  BY <1>1, <1>2, <1>3, <1>5, <1>6, <1>7 DEF AcceptStep

LEMMA GivesNew == ASSUME Types, Gives, NEW t \in Tasks, NewRequest(t) PROVE Gives'
<1>1. CASE BeginSave(t)
  <2>1. PICK order, u : request' = [request EXCEPT ![t] =
            [at |-> "item", items |-> order, changed |-> FALSE, usable |-> u]]
    BY <1>1 DEF BeginSave
  <2>2. Tells([at |-> "item", items |-> order, changed |-> FALSE, usable |-> u])
    BY TellsPlain
  <2> QED
    BY <2>1, <2>2, GivesSame
<1>2. CASE BeginUnlink(t)
  <2>1. PICK p : request' = [request EXCEPT ![t] = [at |-> "unlink", who |-> p, affected |-> right[p] # None]]
    BY <1>2 DEF BeginUnlink
  <2>2. Tells([at |-> "unlink", who |-> p, affected |-> right[p] # None])
    BY TellsPlain
  <2> QED
    BY <2>1, <2>2, GivesSame
<1>3. CASE BeginAccept(t)
  <2>1. PICK p : request' = [request EXCEPT ![t] = [at |-> "apply", who |-> p, brought |-> invited[p]]]
    BY <1>3 DEF BeginAccept
  <2>2. Tells([at |-> "apply", who |-> p, brought |-> invited[p]])
    BY TellsPlain
  <2> QED
    BY <2>1, <2>2, GivesSame
<1>4. CASE Decline(t)
  <2>1. PICK p : request' = Withhold(p, "invite", request)
    BY <1>4 DEF Decline
  <2>2. request = [request EXCEPT ![t] = request[t]] /\ request[t] \in Request /\ Tells(request[t])
    BY DEF Types, Gives
  <2> QED
    BY <2>1, <2>2, GivesByOne
<1>5. CASE Invite(t) \/ CreateToken(t)
  BY <1>5 DEF Invite, CreateToken, Gives
<1>6. CASE RevokeToken(t)
  BY <1>6, GivesSame, TellsAnnouncing DEF RevokeToken
<1> QED
  BY <1>1, <1>2, <1>3, <1>4, <1>5, <1>6 DEF NewRequest

LEMMA GivesTell == ASSUME Types, Gives, NEW t \in Tasks, Tell(t) PROVE Gives'
BY GivesSame, TellsAnnouncing DEF Tell, Finish

-----------------------------------------------------------------------------
Settled == Types /\ Linked /\ Gives /\ Told

LEMMA SettledInit == Init => Settled
<1> SUFFICES ASSUME Init PROVE Settled
  OBVIOUS
<1>1. Types
  <2>1. conn \in [Conns -> Connection] /\ request \in [Tasks -> Request] /\ Joined = {}
    BY DEF Init, Connection, Request, Out, Joined
  <2> QED
    BY <2>1 DEF Init, Types, Levels, Rights
<1>2. Linked /\ Gives /\ Told
  BY TellsAnnouncing DEF Init, Linked, Gives, Told, ToldOf, Joined, Out
<1> QED
  BY <1>1, <1>2 DEF Settled

LEMMA SettledNext == Settled /\ [Next]_vars => Settled'
<1> SUFFICES ASSUME Settled, [Next]_vars PROVE Settled'
  OBVIOUS
<1>0. Types /\ Linked /\ Gives /\ Told
  BY DEF Settled
<1>1. CASE UNCHANGED vars
  <2>1. Types' /\ Linked' /\ Gives' /\ Told'
    BY <1>0, <1>1 DEF vars, rows, counters, Types, Linked, Gives, Tells, Told, ToldOf, Hears, Owed, Owes,
        Joined, Believes, Now, ByToken
  <2> QED
    BY <2>1 DEF Settled
<1>2. ASSUME Next PROVE Settled'
  <2>1. Linked'
    BY <1>0, <1>2, LinkedStep
  <2>2. ASSUME NEW t \in Tasks, NewRequest(t) \/ RequestStep(t)
        PROVE  Types' /\ Gives' /\ Told'
    <3>1. CASE NewRequest(t)
      BY <1>0, <3>1, OngoingNew, TypesByRequest, GivesNew, ToldNew
    <3>2. CASE SaveStep(t)
      BY <1>0, <3>2, OngoingSave, TypesByRequest, GivesSave, ToldSave
    <3>3. CASE Unlink(t) \/ AcceptStep(t)
      BY <1>0, <3>3, OngoingAccept, TypesByRequest, GivesAccept, ToldUnlink, ToldAccept
    <3>4. CASE Tell(t)
      BY <1>0, <3>4, GivesTell, ToldTell
    <3> QED
      BY <2>2, <3>1, <3>2, <3>3, <3>4 DEF RequestStep
  <2>3. CASE (\E p \in People : Connect(p)) \/ (\E r \in Links : ExpireToken(r))
    <3>1. UNCHANGED request
      BY <2>3 DEF Connect, ExpireToken
    <3> QED
      BY <1>0, <2>1, <2>3, <3>1, OngoingAlone, TypesByRequest, ToldAlone DEF Settled, Gives
  <2>4. ASSUME NEW c \in Conns, ConnStep(c)
        PROVE  Types' /\ Gives' /\ Told'
    BY <1>0, <2>4, ToldConnStep, TypesByConn DEF Moves, Gives
  <2> QED
    BY <1>2, <2>1, <2>2, <2>3, <2>4 DEF Next, ConnStep, Settled
<1> QED
  BY <1>1, <1>2

\* The state is always well formed.
THEOREM SharingTypesCorrect == Spec => []Types
<1>1. Settled => Types
  BY DEF Settled
<1> QED
  BY <1>1, SettledInit, SettledNext, PTL DEF Spec

\* The copy a connection keeps of its rights is the truth, unless a notice is
\* on its way or nobody was ever to be told (notify_access_change,
\* access_changed, refresh_authorization).
THEOREM UpToDateCorrect == Spec => []UpToDate
<1>1. Settled => UpToDate
  <2> SUFFICES ASSUME Settled, NEW c \in Conns, conn[c].at = "in", c \notin notice,
                      c \notin unheard, ~Dirty
               PROVE  conn[c].right = Now(c)
    BY DEF UpToDate
  <2>1. ~Owed
    BY DEF Owed, Owes, Dirty, Untold
  <2> QED
    BY <2>1 DEF Settled, Told, ToldOf, Joined, Hears, Believes
<1> QED
  BY <1>1, SettledInit, SettledNext, PTL DEF Spec

\* Nobody changes the document on a right that was taken away before the
\* change arrived; with a refresh interval, unless the news of it is still on
\* its way or was never sent (handle_message, refresh_authorization).
THEOREM ChangesAuthorizedCorrect == Spec => ChangesAuthorized
<1> DEFINE Authorized == \A c \in Conns : Handle(c) =>
               \/ since[c] \cap Updating # {}
               \/ setting.lazy /\ (c \in unheard \/ c \in notice \/ Dirty)
<1>1. Settled => Authorized
  <2> SUFFICES ASSUME Settled, NEW c \in Conns, Handle(c)
               PROVE  \/ since[c] \cap Updating # {}
                      \/ setting.lazy /\ (c \in unheard \/ c \in notice \/ Dirty)
    OBVIOUS
  <2>1. conn[c].at = "checking" /\ conn[c].fresh \in Updating
    BY DEF Handle
  <2>2. conn[c].fresh \in since[c] \/ (setting.lazy /\ Hears(c))
    BY <2>1 DEF Settled, Told, ToldOf, Joined
  <2>3. Owed => Dirty
    BY DEF Owed, Owes, Dirty, Untold
  <2> QED
    BY <2>1, <2>2, <2>3 DEF Hears
<1>2. Settled /\ [Next]_vars => [Authorized]_vars
  BY <1>1
<1> QED
  BY <1>2, SettledInit, SettledNext, PTL DEF Spec, ChangesAuthorized

-----------------------------------------------------------------------------
(* One request at a time: nothing that was granted is lost.                *)

Single == setting.workers = 1 /\ Settled /\ Serial

LEMMA First == ASSUME Single PROVE 1 \in Tasks
<1>1. setting.workers \in 1..Workers /\ Workers \in Nat
  BY SharingAssumption DEF Single, Settled, Types
<1> QED
  BY <1>1 DEF Single, Tasks

\* The first worker's request becomes q.
LEMMA SerialByOne ==
    ASSUME NEW q, request'[1] = q, \A u \in Tasks \ {1} : request'[u] = Idle, Backed',
           Fits(q, right', invited'), Kept(q, granted', right', invited')
    PROVE  Serial'
BY DEF Serial, Apart

LEMMA AloneSame ==
    ASSUME Single, NEW q, request' = [request EXCEPT ![1] = q]
    PROVE  request'[1] = q /\ \A u \in Tasks \ {1} : request'[u] = Idle
BY First DEF Single, Settled, Types, Serial, Apart

LEMMA AloneWithheld ==
    ASSUME Single, NEW q \in Request, NEW who, NEW as, q.at # "write",
           request' = Withhold(who, as, [request EXCEPT ![1] = q])
    PROVE  request'[1] = q /\ \A u \in Tasks \ {1} : request'[u] = Idle
<1> DEFINE mid == [request EXCEPT ![1] = q]
<1>1. mid \in Requests /\ mid[1] = q /\ \A u \in Tasks \ {1} : mid[u] = Idle
  BY First DEF Single, Settled, Types, Serial, Apart, Requests
<1>2. request' = Withhold(who, as, mid)
  OBVIOUS
<1> HIDE DEF mid
<1>3. ASSUME NEW u \in Tasks, mid[u].at # "write" PROVE request'[u] = mid[u]
  <2>1. Slack(mid[u], Withhold(who, as, mid)[u])
    BY <1>1, WithheldEach
  <2>2. Slack(mid[u], request'[u])
    BY <1>2, <2>1
  <2> QED
    BY <1>3, <2>2 DEF Slack
<1>4. request'[1] = q
  BY <1>1, <1>3, First
<1>5. ASSUME NEW u \in Tasks \ {1} PROVE request'[u] = Idle
  <2>1. mid[u] = Idle
    BY <1>1
  <2>2. mid[u].at # "write"
    BY <2>1 DEF Idle
  <2> QED
    BY <1>3, <2>1, <2>2
<1> QED
  BY <1>4, <1>5

\* A request that carries nothing is fitting, and leaves everything in rows.
LEMMA Plain ==
    ASSUME NEW q, q.at \in {"idle", "tell", "item", "unlink"}
    PROVE  (\A rt, iv : Fits(q, rt, iv)) /\ (\A p : ~Carried(q, p))
BY DEF Fits, Carried

LEMMA PlainAnnouncing ==
    ASSUME NEW b PROVE Announcing(b).at \in {"idle", "tell"} /\ Idle.at = "idle"
BY DEF Announcing, Idle

LEMMA SerialSave == ASSUME Single, SaveStep(1) PROVE Serial'
<1> DEFINE q == request[1]
           i == Head(q.items)
<1>0. /\ q \in Request /\ Types /\ Backed /\ Fits(q, right, invited) /\ Kept(q, granted, right, invited)
      /\ 1 \in Tasks /\ granted \subseteq People
      /\ right \in [People -> Levels] /\ invited \in [People -> Levels]
  BY First DEF Single, Settled, Types, Serial
<1>1. ASSUME request'[1].at \in {"idle", "tell", "item"}, \A u \in Tasks \ {1} : request'[u] = Idle,
             UNCHANGED <<right, invited, invite, granted>>, q.at \in {"item", "write"}
      PROVE  Serial'
  <2>1. Fits(request'[1], right', invited') /\ Kept(request'[1], granted', right', invited')
    BY <1>0, <1>1, Plain DEF Kept, Carried
  <2> QED
    BY <1>0, <1>1, <2>1, SerialByOne DEF Backed
<1>2. CASE DeleteItem(1)
  <2>1. /\ q.at = "item" /\ q.items # <<>> /\ SetRow(i, None) /\ granted' = granted \ {i.who}
        /\ request' = Withhold(i.who, i.as, [request EXCEPT ![1] = Idle]) /\ UNCHANGED invite
    BY <1>2 DEF DeleteItem
  <2>2. i.who \in People /\ i.as \in {"user", "invite"}
    BY <1>0, <2>1, Fields, HeadItem
  <2>3. Idle \in Request /\ Idle.at # "write"
    BY DEF Request, Idle
  <2>4. request'[1] = Idle /\ \A u \in Tasks \ {1} : request'[u] = Idle
    BY <2>1, <2>3, AloneWithheld
  <2>5. Kept(Idle, granted', right', invited')
    BY <1>0, <2>1, <2>2 DEF Kept, Carried, SetRow
  <2>6. Backed'
    BY <1>0, <2>1, <2>2 DEF Backed, SetRow
  <2> QED
    BY <2>4, <2>5, <2>6, Plain, PlainAnnouncing, SerialByOne
<1>3. CASE ReadItem(1)
  <2> DEFINE r == Row(i)
             n == [at |-> "write", items |-> q.items, changed |-> q.changed, held |-> r, gone |-> FALSE,
                   usable |-> q.usable]
  <2>1. request' = [request EXCEPT ![1] = n] /\ q.at = "item" /\ UNCHANGED <<right, invited, invite, granted>>
    BY <1>3 DEF ReadItem, rows
  <2>2. r = RowOf(Head(q.items), right, invited)
    BY DEF Row, RowOf
  <2> HIDE DEF r
  <2>3. n.at = "write" /\ n.items = q.items /\ n.held = r /\ n.gone = FALSE
    OBVIOUS
  <2> HIDE DEF n
  <2>4. Fits(n, right', invited')
    BY <2>1, <2>2, <2>3 DEF Fits
  <2>5. Kept(n, granted', right', invited')
    BY <1>0, <2>1 DEF Kept, Carried
  <2> QED
    BY <1>0, <2>1, <2>4, <2>5, AloneSame, SerialByOne DEF Backed
<1>4. ASSUME NEW b, NEW v, NextItem(1, b, v), Backed', Kept(Idle, granted', right', invited')
      PROVE  Serial'
  <2> DEFINE rest == Tail(q.items)
             n == [at |-> "item", items |-> rest, changed |-> b, usable |-> v]
  <2>1. request' = [request EXCEPT ![1] = n]
    BY <1>4 DEF NextItem
  <2> HIDE DEF rest
  <2>2. n.at = "item"
    OBVIOUS
  <2> HIDE DEF n
  <2>3. Kept(n, granted', right', invited')
    BY <1>4, <2>2, PlainAnnouncing DEF Kept, Carried
  <2>4. Fits(n, right', invited')
    BY <2>2, Plain
  <2>5. request'[1] = n /\ \A u \in Tasks \ {1} : request'[u] = Idle
    BY <2>1, AloneSame
  <2> QED
    BY <1>4, <2>3, <2>4, <2>5, SerialByOne
<1>5. CASE SkipItem(1) \/ PassItem(1)
  <2>1. PICK u : /\ q.at \in {"item", "write"} /\ NextItem(1, q.changed, u)
                 /\ UNCHANGED <<right, invited, invite, granted>>
    BY <1>5 DEF SkipItem, PassItem, rows
  <2>2. Kept(Idle, granted', right', invited')
    BY <1>0, <2>1 DEF Kept, Carried
  <2> QED
    BY <1>0, <1>4, <2>1, <2>2 DEF Backed
<1>6. CASE WriteItem(1) \/ BreakOff(1)
  <2>1. /\ q.at = "write" /\ SetRow(i, i.rights) /\ UNCHANGED invite
        /\ granted' = granted \cup {i.who}
        /\ q.held = None => i.as = "user" \/ invite[i.who] # "none"
    BY <1>6 DEF WriteItem, BreakOff, SaveItem
  <2>2. i.who \in People /\ i.as \in {"user", "invite"} /\ i.rights # None
    BY <1>0, <2>1, Fields, HeadItem DEF Rights, None
  <2>3. i.as = "invite" => invite[i.who] # "none"
    <3>1. i.as = "invite" => q.held = invited[i.who]
      BY <1>0, <2>1 DEF Fits, RowOf
    <3> QED
      BY <1>0, <2>1, <2>2, <3>1 DEF Backed
  <2>4. Backed'
    BY <1>0, <2>1, <2>2, <2>3 DEF Backed, SetRow
  <2>5. Kept(Idle, granted', right', invited')
    BY <1>0, <2>1, <2>2 DEF Kept, Carried, SetRow
  <2>6. CASE BreakOff(1)
    <3>1. request'[1] = Idle /\ \A u \in Tasks \ {1} : request'[u] = Idle
      BY <2>6, AloneSame DEF BreakOff, Finish
    <3> QED
      BY <2>4, <2>5, <3>1, Plain, PlainAnnouncing, SerialByOne
  <2>7. CASE WriteItem(1)
    <3> DEFINE u == Usable(1)
    <3>1. NextItem(1, TRUE, u)
      BY <2>7 DEF WriteItem
    <3> HIDE DEF u
    <3> QED
      BY <1>4, <2>4, <2>5, <3>1
  <2> QED
    BY <1>6, <2>6, <2>7
<1>7. CASE RefuseItem(1)
  <2>1. request' = [request EXCEPT ![1] = Idle] /\ q.at = "write"
        /\ UNCHANGED <<right, invited, invite, granted>>
    BY <1>7 DEF RefuseItem, Finish, rows
  <2>2. request'[1] = Idle /\ \A u \in Tasks \ {1} : request'[u] = Idle
    BY <2>1, AloneSame
  <2> QED
    BY <1>1, <2>1, <2>2, PlainAnnouncing
<1>8. CASE EndSave(1)
  <2>1. request' = [request EXCEPT ![1] = Announcing(q.changed)] /\ q.at = "item"
        /\ UNCHANGED <<right, invited, invite, granted>>
    BY <1>8 DEF EndSave, rows
  <2>2. /\ request'[1] = Announcing(q.changed)
        /\ \A u \in Tasks \ {1} : request'[u] = Idle
    BY <2>1, AloneSame
  <2> QED
    BY <1>1, <2>1, <2>2, PlainAnnouncing
<1> QED
  BY <1>2, <1>3, <1>5, <1>6, <1>7, <1>8 DEF SaveStep

LEMMA SerialAccept == ASSUME Single, Unlink(1) \/ AcceptStep(1) \/ Tell(1) PROVE Serial'
<1> DEFINE q == request[1]
           p == q.who
<1>0. /\ q \in Request /\ Types /\ Backed /\ Fits(q, right, invited) /\ Kept(q, granted, right, invited)
      /\ 1 \in Tasks /\ granted \subseteq People
      /\ right \in [People -> Levels] /\ invited \in [People -> Levels]
  BY First DEF Single, Settled, Types, Serial
<1>1. CASE Unlink(1)
  <2>1. /\ q.at = "unlink" /\ UNCHANGED <<invite, invited>> /\ granted' = granted \ {p}
        /\ right' = [right EXCEPT ![p] = None]
        /\ request' = Withhold(p, "user", [request EXCEPT ![1] = Announcing(q.affected)])
    BY <1>1 DEF Unlink
  <2>2. Announcing(q.affected) \in Request /\ Announcing(q.affected).at \in {"idle", "tell"}
    BY Announced, PlainAnnouncing
  <2>3. /\ request'[1] = Announcing(q.affected)
        /\ \A u \in Tasks \ {1} : request'[u] = Idle
    BY <2>1, <2>2, AloneWithheld
  <2>4. Fits(request'[1], right', invited')
    BY <2>2, <2>3, Plain
  <2>5. Kept(request'[1], granted', right', invited')
    BY <1>0, <2>1 DEF Kept, Carried
  <2> QED
    BY <1>0, <2>1, <2>3, <2>4, <2>5, SerialByOne DEF Backed
<1>2. CASE Compare(1)
  <2>1. /\ q.at = "apply" /\ UNCHANGED <<right, invited, invite, granted>>
        /\ request' = [request EXCEPT ![1] =
              IF q.brought = None THEN [at |-> "leave", who |-> p, give |-> None, tell |-> FALSE]
              ELSE IF right[p] = None
                   THEN [at |-> "drop", who |-> p, give |-> q.brought, tell |-> TRUE]
                   ELSE [at |-> "merge", who |-> p, brought |-> q.brought, held |-> right[p]]]
    BY <1>2 DEF Compare, rows
  <2>2. /\ request'[1] =
              IF q.brought = None THEN [at |-> "leave", who |-> p, give |-> None, tell |-> FALSE]
              ELSE IF right[p] = None
                   THEN [at |-> "drop", who |-> p, give |-> q.brought, tell |-> TRUE]
                   ELSE [at |-> "merge", who |-> p, brought |-> q.brought, held |-> right[p]]
        /\ \A u \in Tasks \ {1} : request'[u] = Idle
    BY <2>1, AloneSame
  <2>3. q.brought = invited[p]
    BY <1>0, <2>1 DEF Fits
  <2>4. Fits(request'[1], right', invited')
    BY <2>1, <2>2, <2>3 DEF Fits
  <2>5. Kept(request'[1], granted', right', invited')
    BY <1>0, <2>1 DEF Kept, Carried
  <2> QED
    BY <1>0, <2>1, <2>2, <2>4, <2>5, SerialByOne DEF Backed
<1>3. CASE Merge(1)
  <2> DEFINE r == Replaced(q.held, q.brought)
             n == [at |-> "drop", who |-> p, give |-> None, tell |-> TRUE]
  <2>1. /\ q.at = "merge" /\ UNCHANGED <<invited, invite>>
        /\ right' = IF r = q.held THEN right ELSE [right EXCEPT ![p] = r]
        /\ granted' = IF r = q.held THEN granted ELSE granted \cup {p}
        /\ request' = [request EXCEPT ![1] = n]
    BY <1>3 DEF Merge
  <2>2. q.held = right[p] /\ q.held \in Rights /\ r \in Rights /\ p \in People
    BY <1>0, <2>1, Fields, ReplacedIsRight DEF Fits
  <2> HIDE DEF r
  <2>3. right'[p] # None
    BY <1>0, <2>1, <2>2 DEF Rights, None
  <2>4. Fits(n, right', invited')
    BY <2>3 DEF Fits
  <2>5. Kept(n, granted', right', invited')
    BY <1>0, <2>1, <2>2, <2>3 DEF Kept, Carried
  <2>6. request'[1] = n /\ \A u \in Tasks \ {1} : request'[u] = Idle
    BY <2>1, AloneSame
  <2> QED
    BY <1>0, <2>1, <2>4, <2>5, <2>6, SerialByOne DEF Backed
<1>4. ASSUME NEW at \in {"drop", "leave"}, q.at = at, NEW next \in {"leave", "give"},
             request' = Withhold(p, "invite", [request EXCEPT ![1].at = next]),
             UNCHANGED <<right, granted>>, invited' = [invited EXCEPT ![p] = None],
             invite' \in {invite, [invite EXCEPT ![p] = "none"]},
             q.give # None \/ right[p] # None \/ invited[p] = None
      PROVE  Serial'
  <2> DEFINE e == [q EXCEPT !.at = next]
  <2>1. q \in [at : {"drop", "leave", "give"}, who : People, give : Levels, tell : BOOLEAN]
    BY <1>0, <1>4 DEF Request, Idle
  <2>2. e \in Request /\ e.at = next /\ e.give = q.give /\ e.who = p
    BY <2>1 DEF Request
  <2>3. request' = Withhold(p, "invite", [request EXCEPT ![1] = e])
    BY <1>4
  <2> HIDE DEF e
  <2>4. request'[1] = e /\ \A u \in Tasks \ {1} : request'[u] = Idle
    BY <2>2, <2>3, AloneWithheld
  <2>5. p \in People
    BY <2>1
  <2>6. Fits(e, right', invited')
    BY <1>0, <1>4, <2>2, <2>5 DEF Fits
  <2>7. Kept(e, granted', right', invited')
    BY <1>0, <1>4, <2>2, <2>5 DEF Kept, Carried
  <2>8. Backed'
    BY <1>0, <1>4, <2>5 DEF Backed, Types
  <2> QED
    BY <2>4, <2>6, <2>7, <2>8, SerialByOne
<1>5. CASE DropRight(1)
  <2>1. /\ q.at = "drop" /\ invited' = [invited EXCEPT ![p] = None]
        /\ request' = Withhold(p, "invite", [request EXCEPT ![1].at = "leave"])
        /\ UNCHANGED <<right, invite, granted>>
    BY <1>5 DEF DropRight
  <2>2. q.give # None \/ right[p] # None
    BY <1>0, <2>1 DEF Fits
  <2> QED
    BY <1>4, <2>1, <2>2
<1>6. CASE DropInvite(1)
  <2>1. /\ q.at = "leave" /\ invited' = [invited EXCEPT ![p] = None]
        /\ request' = Withhold(p, "invite", [request EXCEPT ![1].at = "give"])
        /\ UNCHANGED <<right, granted>> /\ invite' = [invite EXCEPT ![p] = "none"]
    BY <1>6 DEF DropInvite
  <2>2. invited[p] = None
    BY <1>0, <2>1 DEF Fits
  <2> QED
    BY <1>4, <2>1, <2>2
<1>7. CASE Give(1)
  <2> DEFINE b == q.tell /\ (q.give = None \/ right[p] = None)
  <2>1. /\ q.at = "give" /\ UNCHANGED <<invite, invited, granted>>
        /\ right' = IF q.give # None /\ right[p] = None THEN [right EXCEPT ![p] = q.give] ELSE right
        /\ request' = [request EXCEPT ![1] = Announcing(b)]
    BY <1>7 DEF Give
  <2> HIDE DEF b
  <2>2. /\ request'[1] = Announcing(b)
        /\ \A u \in Tasks \ {1} : request'[u] = Idle
    BY <2>1, AloneSame
  <2>3. Fits(request'[1], right', invited')
    BY <2>2, Plain, PlainAnnouncing
  <2>4. Kept(request'[1], granted', right', invited')
    BY <1>0, <2>1 DEF Kept, Carried
  <2> QED
    BY <1>0, <2>1, <2>2, <2>3, <2>4, SerialByOne DEF Backed
<1>8. CASE Tell(1)
  <2>1. /\ q.at = "tell" /\ UNCHANGED <<right, invite, invited, granted>>
        /\ request' = [request EXCEPT ![1] = Idle]
    BY <1>8 DEF Tell, Finish, rows
  <2>2. /\ request'[1] = Idle
        /\ \A u \in Tasks \ {1} : request'[u] = Idle
    BY <2>1, AloneSame
  <2>3. Fits(request'[1], right', invited') /\ Kept(request'[1], granted', right', invited')
    BY <1>0, <2>1, <2>2, Plain, PlainAnnouncing DEF Kept, Carried
  <2> QED
    BY <1>0, <2>1, <2>2, <2>3, SerialByOne DEF Backed
<1> QED
  BY <1>1, <1>2, <1>3, <1>5, <1>6, <1>7, <1>8 DEF AcceptStep

LEMMA SerialNew == ASSUME Single, NewRequest(1) PROVE Serial'
<1>0. /\ Types /\ Backed /\ Kept(Idle, granted, right, invited) /\ request[1] = Idle
      /\ 1 \in Tasks /\ granted \subseteq People /\ request \in [Tasks -> Request]
      /\ right \in [People -> Levels] /\ invited \in [People -> Levels]
  <2>1. request[1] = Idle
    BY DEF NewRequest, BeginSave, BeginUnlink, Invite, Decline, BeginAccept, CreateToken,
           RevokeToken, Start
  <2> QED
    BY <2>1, First DEF Single, Settled, Types, Serial
<1>1. ASSUME NEW n, request' = [request EXCEPT ![1] = n], Fits(n, right', invited'),
             UNCHANGED <<right, invited, invite, granted>>
      PROVE  Serial'
  <2>1. Kept(n, granted', right', invited')
    BY <1>0, <1>1 DEF Kept, Carried, Idle
  <2> QED
    BY <1>0, <1>1, <2>1, AloneSame, SerialByOne DEF Backed
<1>2. CASE BeginSave(1)
  <2>1. PICK order, u : /\ request' = [request EXCEPT ![1] =
                            [at |-> "item", items |-> order, changed |-> FALSE, usable |-> u]]
                        /\ UNCHANGED rows /\ UNCHANGED granted
    BY <1>2 DEF BeginSave
  <2>2. Fits([at |-> "item", items |-> order, changed |-> FALSE, usable |-> u], right', invited')
    BY Plain
  <2> QED
    BY <1>1, <2>1, <2>2 DEF rows
<1>3. CASE BeginUnlink(1)
  <2>1. PICK p : /\ request' = [request EXCEPT ![1] = [at |-> "unlink", who |-> p, affected |-> right[p] # None]]
                 /\ UNCHANGED rows /\ UNCHANGED granted
    BY <1>3 DEF BeginUnlink
  <2>2. Fits([at |-> "unlink", who |-> p, affected |-> right[p] # None], right', invited')
    BY Plain
  <2> QED
    BY <1>1, <2>1, <2>2 DEF rows
<1>4. CASE BeginAccept(1)
  <2>1. PICK p : /\ request' = [request EXCEPT ![1] = [at |-> "apply", who |-> p, brought |-> invited[p]]]
                 /\ UNCHANGED rows /\ UNCHANGED granted
    BY <1>4 DEF BeginAccept
  <2>2. Fits([at |-> "apply", who |-> p, brought |-> invited[p]], right', invited')
    BY <2>1 DEF Fits, rows
  <2> QED
    BY <1>1, <2>1, <2>2 DEF rows
<1>5. CASE Invite(1)
  <2>1. request'[1] = Idle /\ \A u \in Tasks \ {1} : request'[u] = Idle
    BY <1>0, <1>5 DEF Invite, Single, Serial, Apart
  <2>2. Backed'
    BY <1>0, <1>5 DEF Invite, Backed, Types
  <2>3. Kept(Idle, granted', right', invited')
    BY <1>0, <1>5 DEF Invite
  <2> QED
    BY <2>1, <2>2, <2>3, SerialByOne, Plain, PlainAnnouncing
<1>6. CASE Decline(1)
  <2>1. PICK p \in People : /\ invite' = [invite EXCEPT ![p] = "none"]
                            /\ invited' = [invited EXCEPT ![p] = None] /\ UNCHANGED right
                            /\ granted' = IF right[p] = None THEN granted \ {p} ELSE granted
                            /\ request' = Withhold(p, "invite", request)
    BY <1>6 DEF Decline
  <2>2. request' = Withhold(p, "invite", [request EXCEPT ![1] = Idle]) /\ Idle \in Request
    BY <1>0, <2>1 DEF Request
  <2>3. request'[1] = Idle /\ \A u \in Tasks \ {1} : request'[u] = Idle
    BY <2>2, AloneWithheld DEF Idle
  <2>4. Kept(Idle, granted', right', invited')
    BY <1>0, <2>1 DEF Kept, Carried, Idle
  <2>5. Backed'
    BY <1>0, <2>1 DEF Backed, Types
  <2> QED
    BY <2>3, <2>4, <2>5, SerialByOne, Plain, PlainAnnouncing
<1>7. CASE CreateToken(1)
  <2>1. request'[1] = Idle /\ \A u \in Tasks \ {1} : request'[u] = Idle
    BY <1>0, <1>7 DEF CreateToken, Single, Serial, Apart
  <2>2. Fits(request'[1], right', invited')
    BY <2>1, Plain, PlainAnnouncing
  <2>3. Kept(request'[1], granted', right', invited') /\ Backed'
    BY <1>0, <1>7, <2>1 DEF CreateToken, Backed
  <2> QED
    BY <2>1, <2>2, <2>3, SerialByOne
<1>8. CASE RevokeToken(1)
  <2>1. request' = [request EXCEPT ![1] = Announcing(TRUE)] /\ UNCHANGED <<right, invited, invite, granted>>
    BY <1>8 DEF RevokeToken
  <2>2. request'[1] = Announcing(TRUE) /\ \A u \in Tasks \ {1} : request'[u] = Idle
    BY <2>1, AloneSame
  <2>3. Fits(request'[1], right', invited')
    <3> DEFINE n == Announcing(TRUE)
    <3>1. n.at \in {"idle", "tell", "item", "unlink"}
      BY DEF Announcing
    <3> HIDE DEF n
    <3>2. Fits(n, right', invited')
      BY <3>1, Plain
    <3> QED
      BY <2>2, <3>2 DEF n
  <2>4. Kept(request'[1], granted', right', invited') /\ Backed'
    BY <1>0, <2>1 DEF Kept, Carried, Backed, Idle
  <2> QED
    BY <2>2, <2>3, <2>4, SerialByOne
<1> QED
  BY <1>2, <1>3, <1>4, <1>5, <1>6, <1>7, <1>8 DEF NewRequest

LEMMA SerialNext == ASSUME Single, Next PROVE Serial'
<1>1. \A u \in Tasks \ {1} : request[u] = Idle
  BY DEF Single, Serial, Apart
<1>2. ASSUME NEW t \in Tasks, NewRequest(t) PROVE t = 1
  <2>1. Start(t)
    BY <1>2 DEF NewRequest, BeginSave, BeginUnlink, Invite, Decline, BeginAccept, CreateToken,
           RevokeToken
  <2> QED
    BY <2>1, SharingAssumption DEF Start, Single, Tasks
<1>3. ASSUME NEW t \in Tasks, RequestStep(t) PROVE t = 1
  <2>1. request[t].at # "idle"
    BY <1>3 DEF RequestStep, SaveStep, AcceptStep, DeleteItem, ReadItem, PassItem, SkipItem, SaveItem,
             WriteItem, BreakOff, RefuseItem,
             EndSave, Unlink, Compare, Merge, DropRight, DropInvite, Give, Tell
  <2> QED
    BY <1>1, <2>1 DEF Idle
<1>4. ASSUME UNCHANGED <<right, invited, request, granted>>, invite' = invite \/ \E p \in People : Connect(p)
      PROVE  Serial'
  BY <1>4 DEF Single, Serial, Apart, Backed, Connect, Settled, Types
<1>5. ASSUME NEW c \in Conns, ConnStep(c) PROVE UNCHANGED <<right, invited, request, granted, invite>>
  <2>1. Moves(c)
    BY <1>5, ToldConnStep DEF Single, Settled
  <2> QED
    BY <2>1 DEF Moves, rows
<1>6. CASE (\E p \in People : Connect(p)) \/ (\E r \in Links : ExpireToken(r))
  BY <1>4, <1>6 DEF Connect, ExpireToken
<1> QED
  BY <1>2, <1>3, <1>4, <1>5, <1>6, SerialNew, SerialSave, SerialAccept DEF Next, ConnStep, RequestStep

IInv == Settled /\ Lasting

LEMMA LastingInit == Init => Lasting
<1> SUFFICES ASSUME Init, setting.workers = 1 PROVE Serial
  BY DEF Lasting
<1>1. request[1] = Idle /\ Apart
  <2>1. setting.workers \in 1..Workers /\ Workers \in Nat
    BY SharingAssumption DEF Init
  <2> QED
    BY <2>1 DEF Init, Apart, Tasks
<1>2. Backed /\ Kept(Idle, granted, right, invited)
  BY DEF Init, Backed, Kept
<1> QED
  BY <1>1, <1>2, Plain, PlainAnnouncing DEF Serial

LEMMA LastingNext == IInv /\ [Next]_vars => Lasting'
<1> SUFFICES ASSUME IInv, [Next]_vars, setting'.workers = 1 PROVE Serial'
  BY DEF Lasting
<1>1. setting' = setting
  <2>1. ASSUME NEW c \in Conns, ConnStep(c) PROVE setting' = setting
    BY <2>1, ToldConnStep DEF IInv, Settled, Moves
  <2>2. ASSUME NEW t \in Tasks, NewRequest(t) \/ RequestStep(t) PROVE setting' = setting
    BY <2>2 DEF NewRequest, BeginSave, BeginUnlink, Invite, Decline, BeginAccept, CreateToken,
           RevokeToken, RequestStep, SaveStep, AcceptStep, DeleteItem, ReadItem, PassItem, SkipItem, SaveItem,
             WriteItem, BreakOff, RefuseItem,
             EndSave, Unlink, Compare, Merge, DropRight, DropInvite, Give, Tell
  <2>3. CASE (\E p \in People : Connect(p)) \/ (\E r \in Links : ExpireToken(r))
    BY <2>3 DEF Connect, ExpireToken
  <2>4. CASE UNCHANGED vars
    BY <2>4 DEF vars
  <2> QED
    BY <2>1, <2>2, <2>3, <2>4 DEF Next, ConnStep
<1>2. Single
  BY <1>1 DEF IInv, Lasting, Single
<1>3. CASE UNCHANGED vars
  BY <1>2, <1>3 DEF vars, rows, Single, Serial, Apart, Backed
<1> QED
  BY <1>2, <1>3, SerialNext

\* While requests come one at a time, a right that was granted is never lost
\* on the way from an invitation to the account that accepts it
\* (UserInvite.apply, save_access_rights).
THEOREM GrantKeptCorrect == Spec => []GrantKept
<1>1. IInv => GrantKept
  <2> SUFFICES ASSUME IInv, setting.workers = 1, NEW p \in granted,
                      right[p] = None, ~(invited[p] # None /\ invite[p] # "none")
               PROVE  \E t \in Tasks : request[t].at \in {"leave", "give"}
                          /\ request[t].who = p /\ request[t].give # None
    BY DEF GrantKept
  <2>1. Single
    BY DEF IInv, Lasting, Single
  <2>2. invited[p] = None
    BY DEF IInv, Lasting, Serial, Backed, Settled, Types
  <2> QED
    BY <2>1, <2>2, First DEF Single, Serial, Kept, Carried
<1>2. Init => IInv
  BY SettledInit, LastingInit DEF IInv
<1>3. IInv /\ [Next]_vars => IInv'
  BY SettledNext, LastingNext DEF IInv
<1> QED
  BY <1>1, <1>2, <1>3, PTL DEF Spec
=============================================================================
