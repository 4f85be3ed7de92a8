----------------------- MODULE DocumentSession_proofs -----------------------
(***************************************************************************)
(* What holds of DocumentSession for every number of connections, every   *)
(* history length and save interval, both engines and all environments.   *)
(* Three invariants are established one after the other: TypeInv, then    *)
(* Served and HistoryKept, which need nothing but TypeInv.                *)
(*                                                                         *)
(* Two more groups hold in an environment that the theorems name.  Team,  *)
(* and on it Grows and Due: the last participant stays (LastStays) and    *)
(* the document needs no template (~BlankRow).  Solo: one author at a     *)
(* time (MaxLive = 1); from it the refinement of DurableLog follows.      *)
(***************************************************************************)
EXTENDS DocumentSession, SequenceTheorems, FiniteSetTheorems, TLAPS

TypeInv == TypeOK /\ HandlersPlaced
Served == LiveRegistry /\ RegisteredIsServed

Reasons == {"announce", "refetch", "cleanup"}

\* Two states of a session that differ in what was saved at most.
SameParts(s, t) ==
    /\ s.opened = t.opened
    /\ s.parts = t.parts
    /\ s.doc.version = t.doc.version
    /\ s.doc.diffs = t.doc.diffs

\* What the invariants need to know of the end of a handler that saves: the save was
\* submitted, the handler is over, or the session was removed.
Started(c, ss, then) ==
    /\ at' = [at EXCEPT ![c] = "saving"]
    /\ registry \in 1..Len(ss) /\ registry' = registry
    /\ saving'[c].session = registry /\ saving'[c].then = then
    /\ \A n \in 1..Len(ss) : sessions'[n].dead = ss[n].dead

Over(c, ss) ==
    /\ at' = [at EXCEPT ![c] = "idle"]
    /\ registry' = registry
    /\ \A n \in 1..Len(ss) : sessions'[n].dead = ss[n].dead

Left(c) ==
    /\ \E p \in {"closed", "failed"} : at' = [at EXCEPT ![c] = p]
    /\ registry' = None

SavingEnd(c, ss, sv, then) ==
    /\ sessions' \in Seq(Session) /\ Len(sessions') = Len(ss)
    /\ \A n \in 1..Len(ss) : SameParts(sessions'[n], ss[n])
    /\ saving' \in [Conns -> Save]
    /\ \A x \in Conns \ {c} : saving'[x] = sv[x]
    /\ queue' \in Seq(Conns)
    /\ confirmed' \subseteq Ids
    /\ msg' \in [Conns -> Nat]
    /\ \/ Started(c, ss, then)
       \/ then # "cleanup" /\ Over(c, ss)
       \/ then = "cleanup" /\ Left(c)

-----------------------------------------------------------------------------
(* Lemmas about the operators.                                             *)

\* Replacing one session.
LEMMA Replace ==
    ASSUME NEW ss \in Seq(Session), NEW n \in 1..Len(ss), NEW e \in Session
    PROVE  /\ [ss EXCEPT ![n] = e] \in Seq(Session)
           /\ Len([ss EXCEPT ![n] = e]) = Len(ss)
           /\ \A j \in 1..Len(ss) :
                [ss EXCEPT ![n] = e][j] = IF j = n THEN e ELSE ss[j]
BY ExceptSeq

\* The save is the registered session's, and leaves its participants and history alone.
LEMMA StartSaveEnds ==
    ASSUME TypeOK, NEW c \in Conns, NEW ss \in Seq(Session), registry \in 1..Len(ss),
           NEW sv \in [Conns -> Save], NEW then \in Reasons,
           StartSave(c, ss, sv, then)
    PROVE  /\ sessions' \in Seq(Session) /\ Len(sessions') = Len(ss)
           /\ \A n \in 1..Len(ss) : SameParts(sessions'[n], ss[n])
           /\ \A n \in 1..Len(ss) : sessions'[n].dead = ss[n].dead
           /\ saving' \in [Conns -> Save]
           /\ \A x \in Conns \ {c} : saving'[x] = sv[x]
           /\ saving'[c].session = registry /\ saving'[c].then = then
           /\ queue' \in Seq(Conns)
           /\ at' = [at EXCEPT ![c] = "saving"]
<1> DEFINE s == ss[registry]
           d == IF s.dirty THEN [s.doc EXCEPT !.content = s.node] ELSE s.doc
           e == [s EXCEPT !.doc = d]
           save == [session |-> registry, doc |-> d, node |-> s.dirty, then |-> then]
<1>1. s \in Session /\ registry \in Nat
  BY ElementOfSeq, LenProperties
<1>2. d \in Doc /\ d.version = s.doc.version /\ d.diffs = s.doc.diffs
  BY <1>1 DEF Session, Doc
<1>3. e \in Session /\ SameParts(e, s) /\ e.dead = s.dead
  BY <1>1, <1>2 DEF Session, SameParts
<1>4. save \in Save
  BY <1>1, <1>2 DEF Save, Session, Reasons
<1>5. sessions' = ss \/ sessions' = [ss EXCEPT ![registry] = e]
  BY DEF StartSave
<1> HIDE DEF e
<1>6. /\ sessions' \in Seq(Session) /\ Len(sessions') = Len(ss)
      /\ \A n \in 1..Len(ss) : SameParts(sessions'[n], ss[n])
      /\ \A n \in 1..Len(ss) : sessions'[n].dead = ss[n].dead
  <2>1. CASE sessions' = ss
    BY <2>1 DEF SameParts
  <2>2. CASE sessions' = [ss EXCEPT ![registry] = e]
    <3>1. /\ sessions' \in Seq(Session) /\ Len(sessions') = Len(ss)
          /\ \A j \in 1..Len(ss) : sessions'[j] = IF j = registry THEN e ELSE ss[j]
      BY <1>3, <2>2, Replace
    <3> QED
      BY <1>3, <3>1 DEF SameParts
  <2> QED
    BY <1>5, <2>1, <2>2
<1>7. saving' = [sv EXCEPT ![c] = save]
  BY DEF StartSave
<1>8. queue' \in Seq(Conns)
  BY AppendProperties DEF StartSave, TypeOK
<1> HIDE DEF save
<1>9. /\ saving' \in [Conns -> Save]
      /\ \A x \in Conns \ {c} : saving'[x] = sv[x]
      /\ saving'[c] = save
  BY <1>4, <1>7
<1>10. saving'[c].session = registry /\ saving'[c].then = then
  BY <1>9 DEF save
<1> QED
  BY <1>6, <1>8, <1>9, <1>10 DEF StartSave

\* Confirming adds at most the identity of an accepted diff.
LEMMA ConfirmType ==
    ASSUME TypeOK, NEW m \in Nat, Confirm(m)
    PROVE  confirmed' \subseteq Ids
BY DEF TypeOK, Confirm, Ids, None

\* The end of disconnect removes the registered session or raises.
LEMMA CleanupEnds ==
    ASSUME NEW c, NEW ss \in Seq(Session), registry \in 0..Len(ss), Cleanup(c, ss)
    PROVE  /\ sessions' \in Seq(Session) /\ Len(sessions') = Len(ss)
           /\ \A n \in 1..Len(ss) : SameParts(sessions'[n], ss[n])
           /\ Left(c)
<1>1. CASE registry = None
  BY <1>1 DEF Cleanup, Left, SameParts
<1>2. CASE registry # None
  <2> DEFINE e == [ss[registry] EXCEPT !.dead = TRUE]
  <2>1. registry \in 1..Len(ss)
    BY <1>2, LenProperties DEF None
  <2>2. e \in Session /\ SameParts(e, ss[registry])
    <3>1. ss[registry] \in Session
      BY <2>1, ElementOfSeq
    <3> QED
      BY <3>1 DEF Session, SameParts
  <2>3. sessions' = [ss EXCEPT ![registry] = e]
    BY <1>2 DEF Cleanup
  <2> HIDE DEF e
  <2>4. /\ sessions' \in Seq(Session) /\ Len(sessions') = Len(ss)
        /\ \A j \in 1..Len(ss) : sessions'[j] = IF j = registry THEN e ELSE ss[j]
    BY <2>1, <2>2, <2>3, Replace
  <2>5. Left(c)
    BY <1>2 DEF Cleanup, Left
  <2> QED
    BY <2>2, <2>4, <2>5 DEF SameParts
<1> QED
  BY <1>1, <1>2

\* A handler resumes after a save: it is over, or it has removed the session.
LEMMA ResumeEnds ==
    ASSUME TypeOK, NEW c \in Conns, NEW ss \in Seq(Session), registry \in 0..Len(ss),
           NEW then \in Reasons, Resume(c, ss, then)
    PROVE  /\ sessions' \in Seq(Session) /\ Len(sessions') = Len(ss)
           /\ \A n \in 1..Len(ss) : SameParts(sessions'[n], ss[n])
           /\ confirmed' \subseteq Ids
           /\ msg' \in [Conns -> Nat]
           /\ \/ then # "cleanup" /\ Over(c, ss)
              \/ then = "cleanup" /\ Left(c)
<1>1. confirmed' \subseteq Ids /\ msg' \in [Conns -> Nat]
  <2>1. CASE then = "announce"
    <3>1. msg[c] \in Nat
      BY DEF TypeOK
    <3>2. Confirm(msg[c]) /\ msg' = [msg EXCEPT ![c] = None]
      BY <2>1 DEF Resume
    <3> QED
      BY <3>1, <3>2, ConfirmType DEF TypeOK, None
  <2>2. CASE then # "announce"
    BY <2>2 DEF Resume, TypeOK
  <2> QED
    BY <2>1, <2>2
<1>2. CASE then = "cleanup"
  BY <1>1, <1>2, CleanupEnds DEF Resume
<1>3. CASE then # "cleanup"
  BY <1>1, <1>3 DEF Resume, Over, SameParts
<1> QED
  BY <1>2, <1>3

\* Calling save_document_async and going on: every way it can end.
LEMMA SaveThenEnds ==
    ASSUME TypeOK, NEW c \in Conns, NEW ss \in Seq(Session), registry \in 0..Len(ss),
           NEW then \in Reasons, SaveThen(c, ss, then)
    PROVE  SavingEnd(c, ss, saving, then)
<1>1. CASE SaveNeeded(ss)
  <2>1. registry \in 1..Len(ss)
    BY <1>1, LenProperties DEF SaveNeeded, None
  <2>2. /\ StartSave(c, ss, saving, then)
        /\ UNCHANGED <<registry, confirmed, msg>>
    BY <1>1 DEF SaveThen
  <2>3. saving \in [Conns -> Save] /\ confirmed \subseteq Ids /\ msg \in [Conns -> Nat]
    BY DEF TypeOK
  <2> QED
    BY <2>1, <2>2, <2>3, StartSaveEnds DEF SavingEnd, Started
<1>2. CASE ~SaveNeeded(ss)
  <2>1. Resume(c, ss, then) /\ UNCHANGED <<saving, queue>>
    BY <1>2 DEF SaveThen
  <2> QED
    BY <2>1, ResumeEnds DEF SavingEnd, TypeOK
<1> QED
  BY <1>1, <1>2

\* The same for the interval save of handle_diff.
LEMMA SaveIfDueEnds ==
    ASSUME TypeOK, NEW c \in Conns, NEW ss \in Seq(Session), registry \in 0..Len(ss),
           NEW sv \in [Conns -> Save], NEW m \in Nat, SaveIfDue(c, ss, sv, m)
    PROVE  SavingEnd(c, ss, sv, "announce")
<1> DEFINE due == IsDue(ss[ref[c]].doc.version) /\ SaveNeeded(ss)
<1>1. CASE due
  <2>1. registry \in 1..Len(ss)
    BY <1>1, LenProperties DEF SaveNeeded, None
  <2>2. /\ StartSave(c, ss, sv, "announce")
        /\ msg' = [msg EXCEPT ![c] = m]
        /\ UNCHANGED <<registry, confirmed>>
    BY <1>1 DEF SaveIfDue
  <2>3. confirmed \subseteq Ids /\ msg' \in [Conns -> Nat] /\ "announce" \in Reasons
    BY <2>2 DEF TypeOK, Reasons
  <2> QED
    BY <2>1, <2>2, <2>3, StartSaveEnds DEF SavingEnd, Started
<1>2. CASE ~due
  <2>1. /\ sessions' = ss /\ saving' = sv
        /\ at' = [at EXCEPT ![c] = "idle"]
        /\ Confirm(m) /\ msg' = [msg EXCEPT ![c] = None]
        /\ UNCHANGED <<registry, queue>>
    BY <1>2 DEF SaveIfDue
  <2>2. msg' \in [Conns -> Nat] /\ queue' \in Seq(Conns)
    BY <2>1 DEF TypeOK, None
  <2>3. confirmed' \subseteq Ids
    BY <2>1, ConfirmType
  <2>4. Over(c, ss) /\ \A n \in 1..Len(ss) : SameParts(sessions'[n], ss[n])
    BY <2>1 DEF Over, SameParts
  <2> QED
    BY <2>1, <2>2, <2>3, <2>4 DEF SavingEnd
<1> QED
  BY <1>1, <1>2

\* The list of stored diffs, trimmed to the history length, is the end of the list.
LEMMA TrimmedEnd ==
    ASSUME NEW ds \in Seq(Diff)
    PROVE  /\ Trim(ds) \in Seq(Diff)
           /\ Len(Trim(ds)) \in 0..Len(ds)
           /\ \A k \in 1..Len(Trim(ds)) : Trim(ds)[k] = ds[Len(ds) - Len(Trim(ds)) + k]
<1>1. Len(ds) \in Nat /\ \A k \in 1..Len(ds) : ds[k] \in Diff
  BY ElementOfSeq, LenProperties
<1>2. HistoryLength \in Nat \ {0}
  BY LengthAssumption
<1>3. CASE Len(ds) > HistoryLength
  <2> DEFINE first == Len(ds) - HistoryLength + 1
  <2>1. first \in 1..Len(ds) /\ \A i \in first..Len(ds) : ds[i] \in Diff
    BY <1>1, <1>2, <1>3
  <2>2. Trim(ds) = SubSeq(ds, first, Len(ds))
    BY <1>3 DEF Trim, LastN
  <2> HIDE DEF first
  <2>3. /\ Trim(ds) \in Seq(Diff)
        /\ Len(Trim(ds)) = Len(ds) - first + 1
        /\ \A i \in 1..(Len(ds) - first + 1) : Trim(ds)[i] = ds[first + i - 1]
    BY <1>1, <2>1, <2>2, SubSeqProperties
  <2> QED
    BY <1>1, <2>1, <2>3
<1>4. CASE ~(Len(ds) > HistoryLength)
  BY <1>1, <1>4 DEF Trim
<1> QED
  BY <1>3, <1>4

\* Accepting a diff: the session stays well-formed, counts one version more and keeps
\* the end of the diffs it had, with the new one last.
LEMMA AcceptedSession ==
    ASSUME NEW s \in Session, NEW diff \in Diff
    PROVE  /\ Accepted(s, diff) \in Session
           /\ Accepted(s, diff).parts = s.parts
           /\ Accepted(s, diff).dead = s.dead
           /\ Accepted(s, diff).opened = s.opened
           /\ Accepted(s, diff).doc.version = s.doc.version + 1
           /\ Accepted(s, diff).doc.diffs = Trim(Append(s.doc.diffs, diff))
<1>1. s.doc \in Doc /\ s.node \in Seq(Ids) /\ diff.id \in Ids /\ diff.steps \in BOOLEAN
  BY DEF Session, Diff
<1>2. Append(s.doc.diffs, diff) \in Seq(Diff)
  BY <1>1, AppendProperties DEF Doc
<1> DEFINE ds == Trim(Append(s.doc.diffs, diff))
           nd == IF diff.steps THEN Append(s.node, diff.id) ELSE s.node
           dt == s.dirty \/ diff.steps
<1>3. ds \in Seq(Diff)
  BY <1>2, TrimmedEnd
<1>4. nd \in Seq(Ids)
  BY <1>1, AppendProperties
<1>5. dt \in BOOLEAN
  BY <1>1 DEF Session
<1>6. Accepted(s, diff) = [s EXCEPT !.node = nd, !.dirty = dt,
                              !.doc = [[s.doc EXCEPT !.diffs = ds]
                                            EXCEPT !.version = s.doc.version + 1]]
  BY <1>1 DEF Accepted, Session, Doc
<1> HIDE DEF ds, nd, dt
<1>7. [[s.doc EXCEPT !.diffs = ds] EXCEPT !.version = s.doc.version + 1] \in Doc
  <2> DEFINE d == [s.doc EXCEPT !.diffs = ds]
  <2>1. d \in Doc
    BY <1>1, <1>3 DEF Doc
  <2>2. s.doc.version + 1 \in Nat
    BY <1>1 DEF Doc
  <2> HIDE DEF d
  <2>3. [d EXCEPT !.version = s.doc.version + 1] \in Doc
    BY <2>1, <2>2 DEF Doc
  <2> QED
    BY <2>3 DEF d
<1>8. Accepted(s, diff) \in Session
  BY <1>4, <1>5, <1>6, <1>7 DEF Session
<1>9. /\ Accepted(s, diff).parts = s.parts
      /\ Accepted(s, diff).dead = s.dead
      /\ Accepted(s, diff).opened = s.opened
  BY <1>6 DEF Session
<1>10. /\ Accepted(s, diff).doc.version = s.doc.version + 1
       /\ Accepted(s, diff).doc.diffs = ds
  BY <1>1, <1>6, ZenonT(40) DEF Session, Doc
<1> QED
  BY <1>8, <1>9, <1>10 DEF ds

\* The diff that an update in flight shares with its session changes nothing else of
\* the save.
LEMMA AliasedSaves ==
    ASSUME TypeOK, NEW n, NEW diff \in Diff
    PROVE  /\ Aliased(n, diff) \in [Conns -> Save]
           /\ \A x \in Conns : /\ Aliased(n, diff)[x].session = saving[x].session
                               /\ Aliased(n, diff)[x].then = saving[x].then
<1> SUFFICES ASSUME NEW x \in Conns
             PROVE  /\ Aliased(n, diff)[x] \in Save
                    /\ Aliased(n, diff)[x].session = saving[x].session
                    /\ Aliased(n, diff)[x].then = saving[x].then
  BY DEF Aliased
<1> DEFINE more == [saving[x].doc EXCEPT !.diffs = Append(saving[x].doc.diffs, diff)]
<1>1. saving[x] \in Save /\ saving[x].doc \in Doc
  BY DEF TypeOK, Save
<1>2. Append(saving[x].doc.diffs, diff) \in Seq(Diff)
  BY <1>1, AppendProperties DEF Doc
<1>3. more \in Doc
  BY <1>1, <1>2 DEF Doc
<1>4. Aliased(n, diff)[x] = saving[x] \/ Aliased(n, diff)[x] = [saving[x] EXCEPT !.doc = more]
  BY DEF Aliased
<1> HIDE DEF more
<1> QED
  BY <1>1, <1>3, <1>4 DEF Save

-----------------------------------------------------------------------------
(* Every variable stays in its domain.                                     *)

LEMMA TypeInit == Init => TypeInv
<1>1. BlankRow \in BOOLEAN
  BY FlagAssumption
<1>2. EmptyDoc \in Doc /\ NoSave \in Save /\ [EmptyDoc EXCEPT !.blank = BlankRow] \in Doc
  BY <1>1, EmptySeq DEF EmptyDoc, NoSave, Doc, Save, None
<1>3. <<>> \in Seq(Session) /\ <<>> \in Seq(Conns) /\ Len(<<>>) = 0
  BY EmptySeq
<1> QED
  BY <1>2, <1>3 DEF Init, TypeInv, TypeOK, HandlersPlaced, None, Places, Waiting,
                    InSession, Ids

\* A handler that ends in a save, or without one.
LEMMA TypeAtSavingEnd ==
    ASSUME TypeInv, NEW c \in Conns, at[c] \in InSession,
           NEW ss \in Seq(Session), Len(ss) = Len(sessions),
           NEW sv \in [Conns -> Save], NEW then \in Reasons,
           \A x \in Conns : sv[x].session = saving[x].session,
           SavingEnd(c, ss, sv, then),
           row' \in Doc, nextId' \in Ids, crashes' \in Nat, UNCHANGED <<ref, loaded>>
    PROVE  TypeInv'
<1>1. Len(ss) \in Nat /\ Len(sessions') = Len(sessions)
  BY LenProperties DEF SavingEnd
<1>2. \E p \in {"saving", "idle", "closed", "failed"} :
        /\ at' = [at EXCEPT ![c] = p]
        /\ p = "saving" => registry \in 1..Len(ss) /\ saving'[c].session = registry
        /\ registry' = registry \/ registry' = None
  BY DEF SavingEnd, Started, Over, Left
<1>3. PICK p \in {"saving", "idle", "closed", "failed"} :
        /\ at' = [at EXCEPT ![c] = p]
        /\ p = "saving" => registry \in 1..Len(ss) /\ saving'[c].session = registry
        /\ registry' = registry \/ registry' = None
  BY <1>2
<1>4. at' \in [Conns -> Places]
  BY <1>3 DEF TypeInv, TypeOK, Places, Waiting
<1>5. registry' \in 0..Len(sessions')
  BY <1>1, <1>3 DEF TypeInv, TypeOK, None
<1>6. TypeOK'
  BY <1>1, <1>4, <1>5 DEF TypeInv, TypeOK, SavingEnd
<1>7. HandlersPlaced'
  <2> SUFFICES ASSUME NEW x \in Conns
               PROVE  /\ at'[x] \in InSession => ref'[x] \in 1..Len(sessions')
                      /\ at'[x] \in {"saving", "wrote"} =>
                            saving'[x].session \in 1..Len(sessions')
    BY DEF HandlersPlaced
  <2>1. CASE x = c
    BY <1>1, <1>3, <2>1 DEF TypeInv, TypeOK, HandlersPlaced, InSession
  <2>2. CASE x # c
    <3>1. at'[x] = at[x]
      BY <1>3, <2>2 DEF TypeInv, TypeOK
    <3>2. saving'[x].session = saving[x].session
      BY <2>2 DEF SavingEnd
    <3> QED
      BY <1>1, <3>1, <3>2 DEF TypeInv, HandlersPlaced
  <2> QED
    BY <2>1, <2>2
<1> QED
  BY <1>6, <1>7 DEF TypeInv

LEMMA TypeWriteRow == ASSUME TypeInv, NEW c \in Conns, WriteRow(c) PROVE TypeInv'
<1> DEFINE s == sessions[saving[c].session]
           d == saving[c].doc
           k == Oldest(queue)
<1>1. s \in Session /\ d \in Doc /\ row \in Doc
  <2>1. saving[c].session \in 1..Len(sessions) /\ sessions \in Seq(Session)
    BY DEF TypeInv, TypeOK, HandlersPlaced, WriteRow
  <2> QED
    BY <2>1, ElementOfSeq DEF TypeInv, TypeOK, Save
<1>2. row' \in Doc
  <2> HIDE DEF s, d
  <2>1. \/ row' = row
        \/ row' = [d EXCEPT !.blank = FALSE]
        \/ row' = [s.doc EXCEPT
                      !.content = IF RustEngine THEN row.content ELSE s.doc.content,
                      !.blank = IF RustEngine THEN row.blank ELSE FALSE]
    BY DEF WriteRow, KeptContent, s, d
  <2> QED
    BY <1>1, <2>1 DEF Doc, Session
<1>3. queue' \in Seq(Conns)
  <2>1. queue \in Seq(Conns) /\ queue # <<>> /\ k = 1
    BY DEF TypeInv, TypeOK, WriteRow, Oldest
  <2>2. queue' = SubSeq(queue, 1, k - 1) \o SubSeq(queue, k + 1, Len(queue))
    BY DEF WriteRow
  <2>3. Len(queue) \in Nat /\ \A i \in 1..Len(queue) : queue[i] \in Conns
    BY <2>1, ElementOfSeq, LenProperties
  <2>4. SubSeq(queue, 1, 0) \in Seq(Conns) /\ SubSeq(queue, 2, Len(queue)) \in Seq(Conns)
    BY <2>3, SubSeqProperties
  <2> QED
    BY <2>1, <2>2, <2>4, ConcatProperties
<1>4. \E p \in {"wrote", "failed"} : at' = [at EXCEPT ![c] = p]
  BY DEF WriteRow
<1>5. at' \in [Conns -> Places] /\ \A x \in Conns : at'[x] \in InSession => at[x] \in InSession
  BY <1>4 DEF TypeInv, TypeOK, Places, Waiting, WriteRow, InSession
<1>6. UNCHANGED <<registry, sessions, ref, loaded, saving, msg, confirmed, nextId, crashes>>
  BY DEF WriteRow
<1>7. at[c] = "saving"
  BY DEF WriteRow
<1>8. HandlersPlaced'
  BY <1>4, <1>5, <1>6, <1>7 DEF TypeInv, TypeOK, HandlersPlaced
<1> QED
  BY <1>2, <1>3, <1>5, <1>6, <1>8 DEF TypeInv, TypeOK

\* The sessions as FinishSave leaves them.
Noted(n) == [sessions EXCEPT ![n].saved = sessions[n].doc.version, ![n].dirty = FALSE]

LEMMA NotedSessions ==
    ASSUME TypeInv, NEW n \in 1..Len(sessions)
    PROVE  /\ Noted(n) \in Seq(Session) /\ Len(Noted(n)) = Len(sessions)
           /\ \A j \in 1..Len(sessions) : /\ SameParts(Noted(n)[j], sessions[j])
                                         /\ Noted(n)[j].dead = sessions[j].dead
<1>1. sessions \in Seq(Session) /\ sessions[n] \in Session
  BY ElementOfSeq DEF TypeInv, TypeOK
<1> DEFINE e == [[sessions[n] EXCEPT !.saved = sessions[n].doc.version]
                    EXCEPT !.dirty = FALSE]
<1>2. e \in Session /\ SameParts(e, sessions[n]) /\ e.dead = sessions[n].dead
  BY <1>1 DEF Session, Doc, SameParts
<1>3. Noted(n) = [sessions EXCEPT ![n] = e]
  BY <1>1 DEF Noted
<1> HIDE DEF e
<1> QED
  BY <1>1, <1>2, <1>3, Replace DEF SameParts

\* A save that returns: its handler is over, or it has removed the session.
LEMMA FinishSaveEnds ==
    ASSUME TypeInv, NEW c \in Conns, FinishSave(c)
    PROVE  /\ at[c] = "wrote" /\ saving[c].then \in Reasons
           /\ saving[c].session \in 1..Len(sessions)
           /\ SavingEnd(c, Noted(saving[c].session), saving, saving[c].then)
<1> DEFINE n == saving[c].session
<1>1. at[c] = "wrote" /\ n \in 1..Len(sessions) /\ saving[c].then \in Reasons
  BY DEF TypeInv, TypeOK, HandlersPlaced, FinishSave, Save, Reasons
<1>2. Resume(c, Noted(n), saving[c].then)
  BY DEF FinishSave, Noted
<1>3. /\ Noted(n) \in Seq(Session) /\ Len(Noted(n)) = Len(sessions)
      /\ registry \in 0..Len(Noted(n))
  BY <1>1, NotedSessions DEF TypeInv, TypeOK
<1>4. NoSave \in Save
  BY EmptySeq DEF NoSave, EmptyDoc, Save, Doc, None
<1>5. /\ saving' \in [Conns -> Save] /\ queue' \in Seq(Conns)
      /\ \A x \in Conns \ {c} : saving'[x] = saving[x]
  BY <1>4 DEF FinishSave, TypeInv, TypeOK
<1> QED
  BY <1>1, <1>2, <1>3, <1>5, ResumeEnds DEF SavingEnd, TypeInv

LEMMA TypeFinishSave == ASSUME TypeInv, NEW c \in Conns, FinishSave(c) PROVE TypeInv'
<1> DEFINE n == saving[c].session
<1>1. /\ at[c] = "wrote" /\ n \in 1..Len(sessions) /\ saving[c].then \in Reasons
      /\ SavingEnd(c, Noted(n), saving, saving[c].then)
  BY FinishSaveEnds
<1>2. Noted(n) \in Seq(Session) /\ Len(Noted(n)) = Len(sessions)
  BY <1>1, NotedSessions
<1> QED
  BY <1>1, <1>2, TypeAtSavingEnd DEF FinishSave, TypeInv, TypeOK, InSession

LEMMA TypeOpening ==
    ASSUME TypeInv, NEW c \in Conns,
           ReadDoc(c) \/ StartInit(c) \/ WriteInit(c) \/ OpenSession(c) \/ JoinSession(c)
    PROVE  TypeInv'
<1>1. CASE ReadDoc(c)
  BY <1>1 DEF ReadDoc, TypeInv, TypeOK, HandlersPlaced, InSession, Places, Waiting
<1>2. CASE StartInit(c)
  <2>1. [loaded[c] EXCEPT !.blank = FALSE, !.content = <<>>] \in Doc
    BY EmptySeq DEF TypeInv, TypeOK, Doc
  <2>2. loaded' \in [Conns -> Doc]
    BY <1>2, <2>1 DEF StartInit, TypeInv, TypeOK
  <2> QED
    BY <1>2, <2>2 DEF StartInit, TypeInv, TypeOK, HandlersPlaced, InSession, Places, Waiting
<1>3. CASE WriteInit(c)
  <2>1. row' \in Doc
    BY <1>3 DEF WriteInit, TypeInv, TypeOK, Doc
  <2> QED
    BY <1>3, <2>1 DEF WriteInit, TypeInv, TypeOK, HandlersPlaced, InSession, Places, Waiting
<1>4. CASE OpenSession(c)
  <2> DEFINE e == [doc |-> loaded[c], node |-> loaded[c].content, dirty |-> FALSE,
                   saved |-> loaded[c].version, parts |-> {c}, dead |-> FALSE,
                   opened |-> loaded[c].version]
  <2>1. e \in Session
    BY DEF TypeInv, TypeOK, Session, Doc
  <2>2. sessions' = Append(sessions, e)
    BY <1>4 DEF OpenSession
  <2> HIDE DEF e
  <2>3. /\ sessions' \in Seq(Session) /\ Len(sessions') = Len(sessions) + 1
        /\ Len(sessions) \in Nat
    BY <2>1, <2>2, AppendProperties, LenProperties DEF TypeInv, TypeOK
  <2>4. /\ registry' = Len(sessions') /\ ref' = [ref EXCEPT ![c] = Len(sessions')]
        /\ at' = [at EXCEPT ![c] = "joined"]
        /\ UNCHANGED <<row, loaded, saving, queue, msg, confirmed, nextId, crashes>>
    BY <1>4 DEF OpenSession
  <2>5. TypeOK'
    BY <2>3, <2>4 DEF TypeInv, TypeOK, Places, Waiting
  <2>6. HandlersPlaced'
    BY <2>3, <2>4 DEF TypeInv, TypeOK, HandlersPlaced
  <2> QED
    BY <2>5, <2>6 DEF TypeInv
<1>5. CASE JoinSession(c)
  <2> DEFINE e == [sessions[registry] EXCEPT !.parts = @ \cup {c}]
  <2>1. registry \in 1..Len(sessions) /\ sessions \in Seq(Session)
    BY <1>5 DEF TypeInv, TypeOK, JoinSession, ServedAlready, None
  <2>2. sessions[registry] \in Session
    BY <2>1, ElementOfSeq
  <2>3. e \in Session
    BY <2>2 DEF Session
  <2>4. sessions' = [sessions EXCEPT ![registry] = e]
    BY <1>5 DEF JoinSession
  <2> HIDE DEF e
  <2>5. sessions' \in Seq(Session) /\ Len(sessions') = Len(sessions)
    BY <2>1, <2>3, <2>4, Replace
  <2>6. TypeOK'
    BY <1>5, <2>1, <2>5 DEF TypeInv, TypeOK, JoinSession, Places, Waiting
  <2>7. HandlersPlaced'
    BY <1>5, <2>1, <2>5 DEF TypeInv, TypeOK, HandlersPlaced, JoinSession
  <2> QED
    BY <2>6, <2>7 DEF TypeInv
<1> QED
  BY <1>1, <1>2, <1>3, <1>4, <1>5

LEMMA TypeMessage ==
    ASSUME TypeInv, NEW c \in Conns,
           \/ Reconcile(c) \/ ReceiveDiff(c) \/ DropDiff(c) \/ Fail(c)
           \/ Unfixable(c) \/ RefuseDiff(c) \/ AfterSidecar(c)
    PROVE  TypeInv'
<1>1. CASE Reconcile(c)
  BY <1>1 DEF Reconcile, TypeInv, TypeOK, HandlersPlaced, InSession, Places, Waiting
<1>2. CASE ReceiveDiff(c)
  BY <1>2 DEF ReceiveDiff, TypeInv, TypeOK, HandlersPlaced, InSession, Places, Waiting
<1>3. CASE DropDiff(c)
  BY <1>3 DEF DropDiff, TypeInv, TypeOK, HandlersPlaced, InSession, Places, Waiting
<1>4. CASE Fail(c)
  BY <1>4 DEF Fail, TypeInv, TypeOK, HandlersPlaced, InSession, Places, Waiting
<1>5. /\ sessions \in Seq(Session) /\ registry \in 0..Len(sessions)
      /\ saving \in [Conns -> Save]
      /\ "refetch" \in Reasons /\ "announce" \in Reasons
  BY DEF TypeInv, TypeOK, Reasons
<1>6. CASE Unfixable(c) \/ RefuseDiff(c)
  <2>1. SavingEnd(c, sessions, saving, "refetch")
    BY <1>5, <1>6, SaveThenEnds DEF Unfixable, RefuseDiff, TypeInv
  <2>2. at[c] \in InSession /\ UNCHANGED <<row, ref, loaded, nextId, crashes>>
    BY <1>6 DEF Unfixable, RefuseDiff, InSession
  <2> QED
    BY <1>5, <2>1, <2>2, TypeAtSavingEnd DEF TypeInv, TypeOK
<1>7. CASE AfterSidecar(c)
  <2>1. msg[c] \in Nat
    BY DEF TypeInv, TypeOK
  <2>2. SavingEnd(c, sessions, saving, "announce")
    BY <1>5, <1>7, <2>1, SaveIfDueEnds DEF AfterSidecar, TypeInv
  <2>3. at[c] \in InSession /\ UNCHANGED <<row, ref, loaded, nextId, crashes>>
    BY <1>7 DEF AfterSidecar, InSession
  <2> QED
    BY <1>5, <2>2, <2>3, TypeAtSavingEnd DEF TypeInv, TypeOK
<1> QED
  BY <1>1, <1>2, <1>3, <1>4, <1>6, <1>7

\* A diff is accepted: the sender's session takes it, and then a sidecar is awaited or
\* the interval save follows.
Taking(c, diff) ==
    LET ss == [sessions EXCEPT ![ref[c]] = Accepted(@, diff)]
        sv == Aliased(ref[c], diff)
        m == IF diff.steps THEN nextId ELSE None
    IN  \/ /\ sessions' = ss
           /\ saving' = sv
           /\ at' = [at EXCEPT ![c] = "sidecar"]
           /\ msg' = [msg EXCEPT ![c] = m]
           /\ UNCHANGED <<registry, queue, confirmed>>
        \/ SaveIfDue(c, ss, sv, m)

LEMMA AcceptTakes ==
    ASSUME TypeInv, NEW c \in Conns, AcceptDiff(c)
    PROVE  /\ at[c] = "authorizing" /\ ref[c] \in 1..Len(sessions)
           /\ ~sessions[ref[c]].dead
           /\ nextId' = nextId + 1 /\ UNCHANGED <<row, ref, loaded, crashes>>
           /\ \E diff \in Diff : /\ diff.v = sessions[ref[c]].doc.version /\ diff.id = nextId
                               /\ nextId \in 1..MaxDiffs /\ Taking(c, diff)
<1>1. PICK pv \in 0..MaxDiffs, steps \in BOOLEAN, sidecar \in {FALSE, Sidecars} :
        LET n == ref[c]
            diff == [v |-> pv, id |-> nextId, steps |-> steps]
            ss == [sessions EXCEPT ![n] = Accepted(@, diff)]
            sv == Aliased(n, diff)
            m == IF steps THEN nextId ELSE None
        IN  /\ IsCurrent(pv, sessions[n].doc)
            /\ IF sidecar
               THEN /\ sessions' = ss
                    /\ saving' = sv
                    /\ at' = [at EXCEPT ![c] = "sidecar"]
                    /\ msg' = [msg EXCEPT ![c] = m]
                    /\ UNCHANGED <<registry, queue, confirmed>>
               ELSE SaveIfDue(c, ss, sv, m)
  BY DEF AcceptDiff
<1> DEFINE diff == [v |-> pv, id |-> nextId, steps |-> steps]
<1>2. diff \in Diff /\ diff.steps = steps /\ diff.v = pv /\ diff.id = nextId
  BY BoundAssumption DEF Diff, TypeInv, TypeOK
<1>3. Taking(c, diff) /\ pv = sessions[ref[c]].doc.version
  BY <1>1 DEF Taking, IsCurrent
<1>4. at[c] = "authorizing" /\ ~sessions[ref[c]].dead
  BY DEF AcceptDiff
<1>5. nextId' = nextId + 1 /\ UNCHANGED <<row, ref, loaded, crashes>>
  BY DEF AcceptDiff
<1>6. ref[c] \in 1..Len(sessions)
  BY <1>4 DEF TypeInv, HandlersPlaced, InSession
<1>7. nextId \in 1..MaxDiffs
  BY BoundAssumption DEF AcceptDiff, Ids, TypeInv, TypeOK
<1> QED
  BY <1>2, <1>3, <1>4, <1>5, <1>6, <1>7

\* The sessions once the diff is taken.
Taken(n, diff) == [sessions EXCEPT ![n] = Accepted(@, diff)]

LEMMA TakenSessions ==
    ASSUME TypeInv, NEW n \in 1..Len(sessions), NEW diff \in Diff
    PROVE  /\ Taken(n, diff) \in Seq(Session) /\ Len(Taken(n, diff)) = Len(sessions)
           /\ \A j \in 1..Len(sessions) :
                Taken(n, diff)[j] = IF j = n THEN Accepted(sessions[n], diff)
                                    ELSE sessions[j]
<1>1. sessions \in Seq(Session) /\ sessions[n] \in Session
  BY ElementOfSeq DEF TypeInv, TypeOK
<1>2. Accepted(sessions[n], diff) \in Session
  BY <1>1, AcceptedSession
<1> QED
  BY <1>1, <1>2, Replace DEF Taken

LEMMA TypeAcceptDiff == ASSUME TypeInv, NEW c \in Conns, AcceptDiff(c) PROVE TypeInv'
<1>1. PICK diff \in Diff : Taking(c, diff)
  BY AcceptTakes
<1> DEFINE n == ref[c]
           m == IF diff.steps THEN nextId ELSE None
<1>2. n \in 1..Len(sessions) /\ at[c] \in InSession
  BY AcceptTakes DEF InSession
<1>3. /\ row' \in Doc /\ nextId' \in Ids /\ crashes' \in Nat
      /\ UNCHANGED <<row, ref, loaded, crashes>>
  BY AcceptTakes DEF TypeInv, TypeOK, Ids
<1>4. /\ Taken(n, diff) \in Seq(Session) /\ Len(Taken(n, diff)) = Len(sessions)
  BY <1>2, TakenSessions
<1>5. /\ Aliased(n, diff) \in [Conns -> Save]
      /\ \A x \in Conns : Aliased(n, diff)[x].session = saving[x].session
  BY AliasedSaves DEF TypeInv
<1>6. m \in Nat /\ registry \in 0..Len(sessions) /\ "announce" \in Reasons
  BY DEF TypeInv, TypeOK, Ids, None, Reasons
<1>7. CASE SaveIfDue(c, Taken(n, diff), Aliased(n, diff), m)
  <2> HIDE DEF m
  <2>1. SavingEnd(c, Taken(n, diff), Aliased(n, diff), "announce")
    BY <1>4, <1>5, <1>6, <1>7, SaveIfDueEnds DEF TypeInv
  <2> QED
    BY <1>2, <1>3, <1>4, <1>5, <1>6, <2>1, TypeAtSavingEnd
<1>8. CASE /\ sessions' = Taken(n, diff)
           /\ saving' = Aliased(n, diff)
           /\ at' = [at EXCEPT ![c] = "sidecar"]
           /\ msg' = [msg EXCEPT ![c] = m]
           /\ UNCHANGED <<registry, queue, confirmed>>
  <2> HIDE DEF m
  <2>1. TypeOK'
    BY <1>3, <1>4, <1>5, <1>6, <1>8 DEF TypeInv, TypeOK, Places, Waiting
  <2>2. HandlersPlaced'
    BY <1>2, <1>3, <1>4, <1>5, <1>8 DEF TypeInv, TypeOK, HandlersPlaced
  <2> QED
    BY <2>1, <2>2 DEF TypeInv
<1> QED
  BY <1>1, <1>7, <1>8 DEF Taking, Taken

\* The sessions as the leaving connection leaves them.
Without(c) == [sessions EXCEPT ![ref[c]].parts = @ \ {c}]

LEMMA WithoutSessions ==
    ASSUME TypeInv, NEW c \in Conns, at[c] = "idle"
    PROVE  /\ ref[c] \in 1..Len(sessions)
           /\ Without(c) \in Seq(Session) /\ Len(Without(c)) = Len(sessions)
           /\ \A j \in 1..Len(sessions) :
                /\ Without(c)[j].opened = sessions[j].opened
                /\ Without(c)[j].dead = sessions[j].dead
                /\ Without(c)[j].doc = sessions[j].doc
                /\ j # ref[c] => Without(c)[j].parts = sessions[j].parts
<1>1. ref[c] \in 1..Len(sessions) /\ sessions \in Seq(Session)
  BY DEF TypeInv, TypeOK, HandlersPlaced, InSession
<1>2. sessions[ref[c]] \in Session
  BY <1>1, ElementOfSeq
<1> DEFINE e == [sessions[ref[c]] EXCEPT !.parts = @ \ {c}]
<1>3. /\ e \in Session /\ e.opened = sessions[ref[c]].opened
      /\ e.dead = sessions[ref[c]].dead /\ e.doc = sessions[ref[c]].doc
  BY <1>2 DEF Session
<1>4. Without(c) = [sessions EXCEPT ![ref[c]] = e]
  BY DEF Without
<1> HIDE DEF e
<1> QED
  BY <1>1, <1>3, <1>4, Replace

LEMMA TypeDisconnect == ASSUME TypeInv, NEW c \in Conns, Disconnect(c) PROVE TypeInv'
<1>1. at[c] = "idle" /\ at[c] \in InSession /\ UNCHANGED <<row, ref, loaded, nextId, crashes>>
  BY DEF Disconnect, InSession
<1>2. /\ Without(c) \in Seq(Session) /\ Len(Without(c)) = Len(sessions)
  BY <1>1, WithoutSessions
<1>3. /\ registry \in 0..Len(sessions) /\ "cleanup" \in Reasons
      /\ saving \in [Conns -> Save] /\ row \in Doc /\ nextId \in Ids /\ crashes \in Nat
  BY DEF TypeInv, TypeOK, Reasons
<1>4. CASE SaveThen(c, Without(c), "cleanup")
  <2>1. SavingEnd(c, Without(c), saving, "cleanup")
    BY <1>2, <1>3, <1>4, SaveThenEnds DEF TypeInv
  <2> QED
    BY <1>1, <1>2, <1>3, <2>1, TypeAtSavingEnd
<1>5. CASE /\ sessions' = sessions \/ sessions' = Without(c)
           /\ at' = [at EXCEPT ![c] = "closed"]
           /\ UNCHANGED <<registry, saving, queue, msg, confirmed>>
  <2>1. sessions' \in Seq(Session) /\ Len(sessions') = Len(sessions)
    BY <1>2, <1>5 DEF TypeInv, TypeOK
  <2> QED
    BY <1>1, <1>5, <2>1 DEF TypeInv, TypeOK, HandlersPlaced, InSession, Places, Waiting
<1> QED
  BY <1>4, <1>5 DEF Disconnect, Without

LEMMA TypeStop ==
    ASSUME TypeInv, Stop, row' \in Doc, confirmed' \subseteq Ids, crashes' \in Nat
    PROVE  TypeInv'
<1>1. NoSave \in Save /\ <<>> \in Seq(Conns)
  BY EmptySeq DEF NoSave, EmptyDoc, Save, Doc, None
<1>2. Len(sessions) \in Nat
  BY LenProperties DEF TypeInv, TypeOK
<1>3. TypeOK'
  BY <1>1, <1>2 DEF Stop, TypeInv, TypeOK, None, Places, Waiting
<1>4. HandlersPlaced'
  BY DEF Stop, HandlersPlaced, InSession
<1> QED
  BY <1>3, <1>4 DEF TypeInv

LEMMA TypeCrash == ASSUME TypeInv, Crash \/ Shutdown PROVE TypeInv'
<1>1. row \in Doc /\ confirmed \subseteq Ids /\ crashes \in Nat
  BY DEF TypeInv, TypeOK
<1>2. CASE Crash
  <2>1. confirmed' \subseteq Ids /\ crashes' \in Nat /\ row' = row /\ Stop
    BY <1>1, <1>2 DEF Crash
  <2> QED
    BY <1>1, <2>1, TypeStop
<1>3. CASE Shutdown
  <2>1. Stop /\ UNCHANGED <<confirmed, crashes>>
    BY <1>3 DEF Shutdown, Flushed
  <2>2. row' \in Doc
    <3>1. CASE SaveNeeded(sessions)
      <4> DEFINE s == sessions[registry]
      <4>1. registry \in 1..Len(sessions) /\ sessions \in Seq(Session)
        BY <3>1, LenProperties DEF SaveNeeded, TypeInv, TypeOK, None
      <4>2. s \in Session
        BY <4>1, ElementOfSeq
      <4>3. row' = [s.doc EXCEPT !.content = IF s.dirty THEN s.node
                                             ELSE IF RustEngine THEN row.content
                                             ELSE s.doc.content]
        BY <1>3, <3>1 DEF Shutdown, Flushed, KeptContent
      <4> HIDE DEF s
      <4> QED
        BY <1>1, <4>2, <4>3 DEF Session, Doc
    <3>2. CASE ~SaveNeeded(sessions)
      BY <1>1, <1>3, <3>2 DEF Shutdown, Flushed, KeptContent
    <3> QED
      BY <3>1, <3>2
  <2> QED
    BY <1>1, <2>1, <2>2, TypeStop
<1> QED
  BY <1>2, <1>3

LEMMA TypeStep == ASSUME TypeInv, [Next]_vars PROVE TypeInv'
<1>1. CASE UNCHANGED vars
  BY <1>1 DEF vars, TypeInv, TypeOK, HandlersPlaced
<1>2. CASE Crash \/ Shutdown
  BY <1>2, TypeCrash
<1>3. ASSUME NEW c \in Conns,
             \/ Progress(c) \/ ReadDoc(c) \/ Unfixable(c) \/ ReceiveDiff(c)
             \/ Disconnect(c) \/ Fail(c)
      PROVE  TypeInv'
  BY <1>3, TypeOpening, TypeMessage, TypeAcceptDiff, TypeWriteRow, TypeFinishSave,
     TypeDisconnect DEF Progress
<1> QED
  BY <1>1, <1>2, <1>3 DEF Next

LEMMA TypeInvariant == Spec => []TypeInv
<1>1. Init => TypeInv
  BY TypeInit
<1>2. TypeInv /\ [Next]_vars => TypeInv'
  BY TypeStep
<1> QED
  BY <1>1, <1>2, PTL DEF Spec

\* Whatever the constants, every variable stays in its domain: no handler works on a
\* session that was never made, and what is stored is always a document.
THEOREM TypeCorrect == Spec => []TypeOK
BY TypeInvariant, PTL DEF TypeInv

-----------------------------------------------------------------------------
(* The registered session is alive, and served.                            *)

\* A handler that ends in a save, or without one, having taken no participant out
\* unless it cleans up.
LEMMA ServedAtSavingEnd ==
    ASSUME TypeInv, Served, NEW c \in Conns, NEW then \in Reasons,
           at[c] \in {"saving", "wrote"} => saving[c].then = then,
           NEW ss \in Seq(Session), Len(ss) = Len(sessions),
           NEW sv \in [Conns -> Save],
           \A x \in Conns : sv[x].session = saving[x].session /\ sv[x].then = saving[x].then,
           \A n \in 1..Len(ss) : ss[n].dead = sessions[n].dead,
           then # "cleanup" => \A n \in 1..Len(ss) : ss[n].parts = sessions[n].parts,
           SavingEnd(c, ss, sv, then)
    PROVE  Served'
<1>1. CASE Left(c)
  BY <1>1 DEF Left, Served, LiveRegistry, RegisteredIsServed
<1>2. CASE then = "cleanup" /\ Started(c, ss, then)
  <2>1. registry' # None /\ ~sessions'[registry'].dead
    BY <1>2 DEF Started, Served, LiveRegistry, None
  <2>2. at'[c] = "saving" /\ saving'[c].then = "cleanup" /\ saving'[c].session = registry'
    BY <1>2 DEF Started, TypeInv, TypeOK
  <2> QED
    BY <2>1, <2>2 DEF Served, LiveRegistry, RegisteredIsServed
<1>3. CASE then # "cleanup" /\ (Started(c, ss, then) \/ Over(c, ss))
  <2>1. /\ registry' = registry
        /\ \A n \in 1..Len(ss) : sessions'[n].dead = ss[n].dead
        /\ \A x \in Conns \ {c} : at'[x] = at[x]
    BY <1>3 DEF Started, Over, TypeInv, TypeOK
  <2>2. SUFFICES ASSUME registry # None
                 PROVE  Served'
    BY <2>1 DEF Served, LiveRegistry, RegisteredIsServed
  <2>3. registry \in 1..Len(ss)
    BY <2>2, LenProperties DEF TypeInv, TypeOK, None
  <2>4. LiveRegistry'
    BY <2>1, <2>2, <2>3 DEF Served, LiveRegistry
  <2>5. ASSUME sessions'[registry].parts = {}
        PROVE  RegisteredIsServed'
    <3>1. sessions[registry].parts = {}
      BY <1>3, <2>3, <2>5 DEF SavingEnd, SameParts
    <3>2. PICK w \in Conns : /\ at[w] \in {"saving", "wrote"}
                            /\ saving[w].then = "cleanup" /\ saving[w].session = registry
      BY <2>2, <3>1 DEF Served, RegisteredIsServed
    <3>3. w # c
      BY <1>3, <3>2
    <3>4. at'[w] = at[w] /\ saving'[w] = sv[w]
      BY <2>1, <3>3 DEF SavingEnd
    <3> QED
      BY <2>1, <3>2, <3>4 DEF RegisteredIsServed
  <2> QED
    BY <2>1, <2>4, <2>5 DEF Served, RegisteredIsServed
<1> QED
  BY <1>1, <1>2, <1>3 DEF SavingEnd

\* Steps that touch neither the registry nor a save, and take no participant out.
LEMMA ServedUndisturbed ==
    ASSUME TypeInv, Served, NEW c \in Conns, registry' = registry,
           \A x \in Conns : /\ saving'[x].session = saving[x].session
                            /\ saving'[x].then = saving[x].then,
           at[c] \notin {"saving", "wrote"},
           \A x \in Conns \ {c} : at'[x] = at[x],
           registry # None => /\ sessions'[registry].dead = sessions[registry].dead
                              /\ sessions'[registry].parts = {} =>
                                    sessions[registry].parts = {}
    PROVE  Served'
<1>1. LiveRegistry'
  BY DEF Served, LiveRegistry
<1>2. RegisteredIsServed'
  <2> SUFFICES ASSUME registry # None, sessions'[registry].parts = {}
               PROVE  \E w \in Conns :
                        /\ at'[w] \in {"saving", "wrote"}
                        /\ saving'[w].then = "cleanup" /\ saving'[w].session = registry
    BY DEF RegisteredIsServed
  <2>1. PICK w \in Conns : /\ at[w] \in {"saving", "wrote"}
                          /\ saving[w].then = "cleanup" /\ saving[w].session = registry
    BY DEF Served, RegisteredIsServed
  <2> QED
    BY <2>1
<1> QED
  BY <1>1, <1>2 DEF Served

LEMMA ServedOpening ==
    ASSUME TypeInv, Served, NEW c \in Conns,
           ReadDoc(c) \/ StartInit(c) \/ WriteInit(c) \/ OpenSession(c) \/ JoinSession(c)
    PROVE  Served'
<1>1. CASE ReadDoc(c) \/ StartInit(c) \/ WriteInit(c)
  <2>1. /\ UNCHANGED <<registry, sessions, saving>>
        /\ at[c] \in {"new", "read", "init"} /\ \A x \in Conns \ {c} : at'[x] = at[x]
    BY <1>1 DEF ReadDoc, StartInit, WriteInit, TypeInv, TypeOK
  <2> QED
    BY <2>1, ServedUndisturbed
<1>2. CASE OpenSession(c)
  <2> DEFINE e == [doc |-> loaded[c], node |-> loaded[c].content, dirty |-> FALSE,
                   saved |-> loaded[c].version, parts |-> {c}, dead |-> FALSE,
                   opened |-> loaded[c].version]
  <2>1. sessions' = Append(sessions, e) /\ registry' = Len(sessions')
    BY <1>2 DEF OpenSession
  <2>2. e \in Session /\ e.parts # {} /\ ~e.dead
    BY DEF Session, TypeInv, TypeOK, Doc
  <2> HIDE DEF e
  <2>3. sessions'[registry'] = e
    BY <2>1, <2>2, AppendProperties DEF TypeInv, TypeOK
  <2> QED
    BY <2>2, <2>3 DEF Served, LiveRegistry, RegisteredIsServed
<1>3. CASE JoinSession(c)
  <2> DEFINE e == [sessions[registry] EXCEPT !.parts = @ \cup {c}]
  <2>1. registry \in 1..Len(sessions) /\ sessions \in Seq(Session)
    BY <1>3 DEF TypeInv, TypeOK, JoinSession, ServedAlready, None
  <2>2. sessions[registry] \in Session
    BY <2>1, ElementOfSeq
  <2>3. e \in Session /\ e.parts # {} /\ e.dead = sessions[registry].dead
    BY <2>2 DEF Session
  <2>4. sessions' = [sessions EXCEPT ![registry] = e] /\ registry' = registry
    BY <1>3 DEF JoinSession
  <2> HIDE DEF e
  <2>5. sessions'[registry] = e
    BY <2>1, <2>3, <2>4, Replace
  <2> QED
    BY <2>3, <2>4, <2>5 DEF Served, LiveRegistry, RegisteredIsServed
<1> QED
  BY <1>1, <1>2, <1>3

LEMMA ServedMessage ==
    ASSUME TypeInv, Served, NEW c \in Conns,
           \/ Reconcile(c) \/ ReceiveDiff(c) \/ DropDiff(c) \/ Fail(c)
           \/ Unfixable(c) \/ RefuseDiff(c) \/ AfterSidecar(c)
    PROVE  Served'
<1>1. CASE Reconcile(c) \/ ReceiveDiff(c) \/ DropDiff(c) \/ Fail(c)
  <2>1. /\ UNCHANGED <<registry, sessions, saving>>
        /\ at[c] \in {"joined", "idle", "authorizing"}
        /\ \A x \in Conns \ {c} : at'[x] = at[x]
    BY <1>1 DEF Reconcile, ReceiveDiff, DropDiff, Fail, TypeInv, TypeOK
  <2> QED
    BY <2>1, ServedUndisturbed
<1>2. /\ sessions \in Seq(Session) /\ registry \in 0..Len(sessions)
      /\ saving \in [Conns -> Save]
      /\ "refetch" \in Reasons /\ "announce" \in Reasons
  BY DEF TypeInv, TypeOK, Reasons
<1>3. CASE Unfixable(c) \/ RefuseDiff(c)
  <2>1. SavingEnd(c, sessions, saving, "refetch")
    BY <1>2, <1>3, SaveThenEnds DEF Unfixable, RefuseDiff, TypeInv
  <2>2. at[c] \notin {"saving", "wrote"}
    BY <1>3 DEF Unfixable, RefuseDiff
  <2> QED
    BY <1>2, <2>1, <2>2, ServedAtSavingEnd
<1>4. CASE AfterSidecar(c)
  <2>1. msg[c] \in Nat
    BY DEF TypeInv, TypeOK
  <2>2. SavingEnd(c, sessions, saving, "announce")
    BY <1>2, <1>4, <2>1, SaveIfDueEnds DEF AfterSidecar, TypeInv
  <2>3. at[c] \notin {"saving", "wrote"}
    BY <1>4 DEF AfterSidecar
  <2> QED
    BY <1>2, <2>2, <2>3, ServedAtSavingEnd
<1> QED
  BY <1>1, <1>3, <1>4

LEMMA ServedAcceptDiff ==
    ASSUME TypeInv, Served, NEW c \in Conns, AcceptDiff(c) PROVE Served'
<1>1. PICK diff \in Diff : Taking(c, diff)
  BY AcceptTakes
<1> DEFINE n == ref[c]
           m == IF diff.steps THEN nextId ELSE None
<1>2. n \in 1..Len(sessions) /\ at[c] \notin {"saving", "wrote"}
  BY AcceptTakes
<1>3. /\ Taken(n, diff) \in Seq(Session) /\ Len(Taken(n, diff)) = Len(sessions)
      /\ \A j \in 1..Len(sessions) : /\ Taken(n, diff)[j].parts = sessions[j].parts
                                    /\ Taken(n, diff)[j].dead = sessions[j].dead
  <2>1. sessions[n] \in Session
    BY <1>2, ElementOfSeq DEF TypeInv, TypeOK
  <2> QED
    BY <1>2, <2>1, TakenSessions, AcceptedSession
<1>4. /\ Aliased(n, diff) \in [Conns -> Save]
      /\ \A x \in Conns : /\ Aliased(n, diff)[x].session = saving[x].session
                          /\ Aliased(n, diff)[x].then = saving[x].then
  BY AliasedSaves DEF TypeInv
<1>5. m \in Nat /\ registry \in 0..Len(sessions) /\ "announce" \in Reasons
  BY DEF TypeInv, TypeOK, Ids, None, Reasons
<1>6. CASE SaveIfDue(c, Taken(n, diff), Aliased(n, diff), m)
  <2> HIDE DEF m
  <2>1. SavingEnd(c, Taken(n, diff), Aliased(n, diff), "announce")
    BY <1>3, <1>4, <1>5, <1>6, SaveIfDueEnds DEF TypeInv
  <2> QED
    BY <1>2, <1>3, <1>4, <1>5, <2>1, ServedAtSavingEnd
<1>7. CASE /\ sessions' = Taken(n, diff)
           /\ saving' = Aliased(n, diff)
           /\ at' = [at EXCEPT ![c] = "sidecar"]
           /\ UNCHANGED registry
  <2>1. registry # None => registry \in 1..Len(sessions)
    BY <1>5, LenProperties DEF TypeInv, TypeOK, None
  <2>2. \A x \in Conns \ {c} : at'[x] = at[x]
    BY <1>7 DEF TypeInv, TypeOK
  <2> QED
    BY <1>2, <1>3, <1>4, <1>7, <2>1, <2>2, ServedUndisturbed
<1> QED
  BY <1>1, <1>6, <1>7 DEF Taking, Taken

LEMMA ServedWriteRow ==
    ASSUME TypeInv, Served, NEW c \in Conns, WriteRow(c) PROVE Served'
<1>1. UNCHANGED <<registry, sessions, saving>> /\ at[c] = "saving"
  BY DEF WriteRow
<1>2. \A x \in Conns \ {c} : at'[x] = at[x]
  BY DEF WriteRow, TypeInv, TypeOK
<1>3. at'[c] = "wrote" \/ (at'[c] = "failed" /\ sessions[saving[c].session].dead)
  BY DEF WriteRow, TypeInv, TypeOK
<1>4. LiveRegistry'
  BY <1>1 DEF Served, LiveRegistry
<1>5. RegisteredIsServed'
  <2> SUFFICES ASSUME registry # None, sessions[registry].parts = {}
               PROVE  \E w \in Conns :
                        /\ at'[w] \in {"saving", "wrote"}
                        /\ saving[w].then = "cleanup" /\ saving[w].session = registry
    BY <1>1 DEF RegisteredIsServed
  <2>1. PICK w \in Conns : /\ at[w] \in {"saving", "wrote"}
                          /\ saving[w].then = "cleanup" /\ saving[w].session = registry
    BY DEF Served, RegisteredIsServed
  <2>2. at'[w] \in {"saving", "wrote"}
    BY <1>2, <1>3, <2>1 DEF Served, LiveRegistry
  <2> QED
    BY <2>1, <2>2
<1> QED
  BY <1>4, <1>5 DEF Served

LEMMA ServedFinishSave ==
    ASSUME TypeInv, Served, NEW c \in Conns, FinishSave(c) PROVE Served'
<1> DEFINE n == saving[c].session
<1>1. /\ n \in 1..Len(sessions) /\ saving[c].then \in Reasons
      /\ SavingEnd(c, Noted(n), saving, saving[c].then)
  BY FinishSaveEnds
<1>2. /\ Noted(n) \in Seq(Session) /\ Len(Noted(n)) = Len(sessions)
      /\ \A j \in 1..Len(sessions) : /\ Noted(n)[j].parts = sessions[j].parts
                                    /\ Noted(n)[j].dead = sessions[j].dead
  BY <1>1, NotedSessions DEF SameParts
<1>3. saving \in [Conns -> Save]
  BY DEF TypeInv, TypeOK
<1> QED
  BY <1>1, <1>2, <1>3, ServedAtSavingEnd

LEMMA ServedDisconnect ==
    ASSUME TypeInv, Served, NEW c \in Conns, Disconnect(c) PROVE Served'
<1>1. at[c] = "idle"
  BY DEF Disconnect
<1>2. /\ Without(c) \in Seq(Session) /\ Len(Without(c)) = Len(sessions)
      /\ \A j \in 1..Len(sessions) :
            /\ Without(c)[j].dead = sessions[j].dead
            /\ j # ref[c] => Without(c)[j].parts = sessions[j].parts
  BY <1>1, WithoutSessions
<1>3. registry \in 0..Len(sessions) /\ saving \in [Conns -> Save] /\ "cleanup" \in Reasons
  BY DEF TypeInv, TypeOK, Reasons
<1>4. CASE SaveThen(c, Without(c), "cleanup")
  <2>1. SavingEnd(c, Without(c), saving, "cleanup")
    BY <1>2, <1>3, <1>4, SaveThenEnds DEF TypeInv
  <2> QED
    BY <1>1, <1>2, <1>3, <2>1, ServedAtSavingEnd
<1>5. CASE /\ ~(registry # None /\ NobodyLeft(Without(c)[ref[c]].parts))
           /\ sessions' = IF registry = None THEN sessions ELSE Without(c)
           /\ at' = [at EXCEPT ![c] = "closed"]
           /\ UNCHANGED <<registry, saving, queue, msg, confirmed>>
  <2>1. registry # None => registry \in 1..Len(sessions)
    BY <1>3, LenProperties DEF TypeInv, TypeOK, None
  <2>2. registry # None => /\ sessions'[registry].dead = sessions[registry].dead
                           /\ sessions'[registry].parts = {} =>
                                    sessions[registry].parts = {}
    BY <1>2, <1>5, <2>1 DEF NobodyLeft
  <2>3. \A x \in Conns \ {c} : at'[x] = at[x]
    BY <1>5 DEF TypeInv, TypeOK
  <2> QED
    BY <1>1, <1>5, <2>2, <2>3, ServedUndisturbed
<1> QED
  BY <1>4, <1>5 DEF Disconnect, Without

LEMMA ServedStep == ASSUME TypeInv, Served, [Next]_vars PROVE Served'
<1>1. CASE UNCHANGED vars
  BY <1>1 DEF vars, Served, LiveRegistry, RegisteredIsServed
<1>2. CASE Crash \/ Shutdown
  BY <1>2 DEF Crash, Shutdown, Flushed, Stop, Served, LiveRegistry, RegisteredIsServed
<1>3. ASSUME NEW c \in Conns,
             \/ Progress(c) \/ ReadDoc(c) \/ Unfixable(c) \/ ReceiveDiff(c)
             \/ Disconnect(c) \/ Fail(c)
      PROVE  Served'
  BY <1>3, ServedOpening, ServedMessage, ServedAcceptDiff, ServedWriteRow,
     ServedFinishSave, ServedDisconnect DEF Progress
<1> QED
  BY <1>1, <1>2, <1>3 DEF Next

LEMMA ServedInvariant == Spec => []Served
<1>1. Init => Served
  BY DEF Init, Served, LiveRegistry, RegisteredIsServed
<1>2. TypeInv /\ Served /\ [Next]_vars => Served'
  BY ServedStep
<1> QED
  BY <1>1, <1>2, TypeInvariant, PTL DEF Spec

\* A registered session always has participants or a handler that saves it in order to
\* remove it: whatever the interleaving of opening, leaving, failing and saving, the
\* registry keeps no abandoned session that nobody will take down.
THEOREM RegisteredIsServedCorrect == Spec => []RegisteredIsServed
BY ServedInvariant, PTL DEF Served

-----------------------------------------------------------------------------
(* The stored diffs are those for the versions they stand for.             *)

LEMMA ExactIfSame ==
    ASSUME NEW s, NEW t, SameParts(s, t), ExactHistory(t)
    PROVE  ExactHistory(s)
BY DEF SameParts, ExactHistory

\* Appending the diff for the session's version and counting on keeps the history
\* exact; so does forgetting the oldest diffs.
LEMMA ExactWhenAccepted ==
    ASSUME NEW s \in Session, ExactHistory(s), NEW diff \in Diff, diff.v = s.doc.version
    PROVE  ExactHistory(Accepted(s, diff))
<1> DEFINE ds == s.doc.diffs
           all == Append(ds, diff)
           kept == Trim(all)
           t == Accepted(s, diff)
<1>1. /\ t.opened = s.opened /\ t.doc.version = s.doc.version + 1
      /\ t.doc.diffs = kept
  BY AcceptedSession
<1>2. s.doc.version \in Nat /\ s.opened \in Nat /\ ds \in Seq(Diff) /\ Len(ds) \in Nat
  BY LenProperties DEF Session, Doc
<1>3. /\ all \in Seq(Diff) /\ Len(all) = Len(ds) + 1 /\ all[Len(ds) + 1] = diff
      /\ \A k \in 1..Len(ds) : all[k] = ds[k]
  BY <1>2, AppendProperties
<1>4. /\ Len(kept) \in 0..Len(all)
      /\ \A k \in 1..Len(kept) : kept[k] = all[Len(all) - Len(kept) + k]
  BY <1>3, TrimmedEnd
<1> HIDE DEF t, kept, all, ds
<1>5. s.opened <= s.doc.version
  BY DEF ExactHistory
<1>6. ASSUME NEW k \in 1..Len(kept),
             s.doc.version - (Len(kept) - k) >= s.opened
      PROVE  kept[k].v = s.doc.version - (Len(kept) - k)
  <2> DEFINE i == Len(all) - Len(kept) + k
  <2>1. i \in 1..Len(all) /\ kept[k] = all[i] /\ Len(kept) - k = Len(all) - i
    BY <1>2, <1>3, <1>4, SMTT(20)
  <2> HIDE DEF i
  <2>2. CASE i = Len(ds) + 1
    BY <1>2, <1>3, <2>1, <2>2
  <2>3. CASE i \in 1..Len(ds)
    <3>1. kept[k] = ds[i]
      BY <1>3, <2>1, <2>3
    <3>2. s.doc.version - (Len(kept) - k) = s.doc.version - 1 - (Len(ds) - i)
      <4>1. Len(kept) - k = Len(ds) + 1 - i
        BY <1>3, <2>1
      <4> QED
        BY <1>2, <2>3, <4>1, SMTT(20)
    <3>3. \A j \in 1..Len(ds) : s.doc.version - 1 - (Len(ds) - j) >= s.opened =>
                                    ds[j].v = s.doc.version - 1 - (Len(ds) - j)
      BY DEF ExactHistory, ds
    <3> QED
      BY <1>6, <2>3, <3>1, <3>2, <3>3
  <2> QED
    BY <1>2, <1>3, <2>1, <2>2, <2>3
<1>7. t.opened <= t.doc.version
  BY <1>1, <1>2, <1>5
<1>8. ASSUME NEW k \in 1..Len(t.doc.diffs),
             t.doc.version - 1 - (Len(t.doc.diffs) - k) >= t.opened
      PROVE  t.doc.diffs[k].v = t.doc.version - 1 - (Len(t.doc.diffs) - k)
  BY <1>1, <1>2, <1>4, <1>6, <1>8
<1> QED
  BY <1>7, <1>8 DEF ExactHistory, t

\* Sessions that changed nothing of their history.
LEMMA HistoryUndisturbed ==
    ASSUME HistoryKept, Len(sessions') = Len(sessions),
           \A n \in 1..Len(sessions) :
                /\ sessions'[n].opened = sessions[n].opened
                /\ sessions'[n].doc.version = sessions[n].doc.version
                /\ sessions'[n].doc.diffs = sessions[n].doc.diffs
    PROVE  HistoryKept'
<1> SUFFICES ASSUME NEW n \in 1..Len(sessions)
             PROVE  ExactHistory(sessions'[n])
  BY DEF HistoryKept
<1>1. ExactHistory(sessions[n])
  BY DEF HistoryKept
<1> QED
  BY <1>1 DEF ExactHistory

LEMMA HistoryOpening ==
    ASSUME TypeInv, HistoryKept, NEW c \in Conns,
           ReadDoc(c) \/ StartInit(c) \/ WriteInit(c) \/ OpenSession(c) \/ JoinSession(c)
    PROVE  HistoryKept'
<1>1. CASE ReadDoc(c) \/ StartInit(c) \/ WriteInit(c)
  BY <1>1 DEF ReadDoc, StartInit, WriteInit, HistoryKept
<1>2. CASE OpenSession(c)
  <2> DEFINE e == [doc |-> loaded[c], node |-> loaded[c].content, dirty |-> FALSE,
                   saved |-> loaded[c].version, parts |-> {c}, dead |-> FALSE,
                   opened |-> loaded[c].version]
  <2>1. e \in Session /\ e.opened = e.doc.version
    BY DEF Session, TypeInv, TypeOK, Doc
  <2>2. sessions' = Append(sessions, e)
    BY <1>2 DEF OpenSession
  <2> HIDE DEF e
  <2>3. ExactHistory(e)
    <3>1. e.doc.version \in Nat /\ Len(e.doc.diffs) \in Nat
      BY <2>1, LenProperties DEF Session, Doc
    <3> QED
      BY <2>1, <3>1 DEF ExactHistory
  <2>4. /\ Len(sessions') = Len(sessions) + 1 /\ Len(sessions) \in Nat
        /\ \A n \in 1..Len(sessions) : sessions'[n] = sessions[n]
        /\ sessions'[Len(sessions) + 1] = e
    BY <2>1, <2>2, AppendProperties, LenProperties DEF TypeInv, TypeOK
  <2> QED
    BY <2>3, <2>4 DEF HistoryKept
<1>3. CASE JoinSession(c)
  <2> DEFINE e == [sessions[registry] EXCEPT !.parts = @ \cup {c}]
  <2>1. registry \in 1..Len(sessions) /\ sessions \in Seq(Session)
    BY <1>3 DEF TypeInv, TypeOK, JoinSession, ServedAlready, None
  <2>2. sessions[registry] \in Session
    BY <2>1, ElementOfSeq
  <2>3. e \in Session /\ e.opened = sessions[registry].opened /\ e.doc = sessions[registry].doc
    BY <2>2 DEF Session
  <2>4. sessions' = [sessions EXCEPT ![registry] = e]
    BY <1>3 DEF JoinSession
  <2> HIDE DEF e
  <2>5. /\ Len(sessions') = Len(sessions)
        /\ \A j \in 1..Len(sessions) : sessions'[j] = IF j = registry THEN e ELSE sessions[j]
    BY <2>1, <2>3, <2>4, Replace
  <2> QED
    BY <2>3, <2>5, HistoryUndisturbed
<1> QED
  BY <1>1, <1>2, <1>3

LEMMA HistoryMessage ==
    ASSUME TypeInv, HistoryKept, NEW c \in Conns,
           \/ Reconcile(c) \/ ReceiveDiff(c) \/ DropDiff(c) \/ Fail(c)
           \/ Unfixable(c) \/ RefuseDiff(c) \/ AfterSidecar(c)
    PROVE  HistoryKept'
<1>1. CASE Reconcile(c) \/ ReceiveDiff(c) \/ DropDiff(c) \/ Fail(c)
  BY <1>1 DEF Reconcile, ReceiveDiff, DropDiff, Fail, HistoryKept
<1>2. /\ sessions \in Seq(Session) /\ registry \in 0..Len(sessions)
      /\ saving \in [Conns -> Save] /\ msg[c] \in Nat /\ "refetch" \in Reasons
  BY DEF TypeInv, TypeOK, Reasons
<1>3. CASE Unfixable(c) \/ RefuseDiff(c)
  <2>1. SavingEnd(c, sessions, saving, "refetch")
    BY <1>2, <1>3, SaveThenEnds DEF Unfixable, RefuseDiff, TypeInv
  <2> QED
    BY <2>1, HistoryUndisturbed DEF SavingEnd, SameParts
<1>4. CASE AfterSidecar(c)
  <2>1. SavingEnd(c, sessions, saving, "announce")
    BY <1>2, <1>4, SaveIfDueEnds DEF AfterSidecar, TypeInv
  <2> QED
    BY <2>1, HistoryUndisturbed DEF SavingEnd, SameParts
<1> QED
  BY <1>1, <1>3, <1>4

LEMMA HistoryAcceptDiff ==
    ASSUME TypeInv, HistoryKept, NEW c \in Conns, AcceptDiff(c) PROVE HistoryKept'
<1>1. PICK diff \in Diff : diff.v = sessions[ref[c]].doc.version /\ Taking(c, diff)
  BY AcceptTakes
<1> DEFINE n == ref[c]
           m == IF diff.steps THEN nextId ELSE None
<1>2. n \in 1..Len(sessions) /\ sessions[n] \in Session /\ ExactHistory(sessions[n])
  <2>1. n \in 1..Len(sessions)
    BY AcceptTakes
  <2> QED
    BY <2>1, ElementOfSeq DEF TypeInv, TypeOK, HistoryKept
<1>3. ExactHistory(Accepted(sessions[n], diff))
  BY <1>1, <1>2, ExactWhenAccepted
<1>4. /\ Taken(n, diff) \in Seq(Session) /\ Len(Taken(n, diff)) = Len(sessions)
      /\ \A j \in 1..Len(sessions) : ExactHistory(Taken(n, diff)[j])
  BY <1>2, <1>3, TakenSessions DEF HistoryKept
<1>5. /\ Aliased(n, diff) \in [Conns -> Save]
      /\ m \in Nat /\ registry \in 0..Len(sessions)
  BY AliasedSaves DEF TypeInv, TypeOK, Ids, None
<1>6. CASE SaveIfDue(c, Taken(n, diff), Aliased(n, diff), m)
  <2> HIDE DEF m
  <2>1. SavingEnd(c, Taken(n, diff), Aliased(n, diff), "announce")
    BY <1>4, <1>5, <1>6, SaveIfDueEnds DEF TypeInv
  <2> QED
    BY <1>4, <2>1, ExactIfSame DEF SavingEnd, HistoryKept
<1>7. CASE sessions' = Taken(n, diff)
  BY <1>4, <1>7 DEF HistoryKept
<1> QED
  BY <1>1, <1>6, <1>7 DEF Taking, Taken

LEMMA HistoryDisconnect ==
    ASSUME TypeInv, HistoryKept, NEW c \in Conns, Disconnect(c) PROVE HistoryKept'
<1>1. at[c] = "idle"
  BY DEF Disconnect
<1>2. /\ Without(c) \in Seq(Session) /\ Len(Without(c)) = Len(sessions)
      /\ \A j \in 1..Len(sessions) : /\ Without(c)[j].opened = sessions[j].opened
                                    /\ Without(c)[j].doc = sessions[j].doc
  BY <1>1, WithoutSessions
<1>3. registry \in 0..Len(sessions) /\ "cleanup" \in Reasons
  BY DEF TypeInv, TypeOK, Reasons
<1>4. CASE SaveThen(c, Without(c), "cleanup")
  <2>1. SavingEnd(c, Without(c), saving, "cleanup")
    BY <1>2, <1>3, <1>4, SaveThenEnds DEF TypeInv
  <2> QED
    BY <1>2, <2>1, HistoryUndisturbed DEF SavingEnd, SameParts
<1>5. CASE sessions' = sessions \/ sessions' = Without(c)
  BY <1>2, <1>5, HistoryUndisturbed
<1> QED
  BY <1>4, <1>5 DEF Disconnect, Without

LEMMA HistoryStep == ASSUME TypeInv, HistoryKept, [Next]_vars PROVE HistoryKept'
<1>1. CASE UNCHANGED vars
  BY <1>1 DEF vars, HistoryKept
<1>2. CASE Crash \/ Shutdown
  BY <1>2 DEF Crash, Shutdown, Flushed, Stop, HistoryKept
<1>3. ASSUME NEW c \in Conns, WriteRow(c)
      PROVE  HistoryKept'
  BY <1>3 DEF WriteRow, HistoryKept
<1>4. ASSUME NEW c \in Conns, FinishSave(c)
      PROVE  HistoryKept'
  <2> DEFINE n == saving[c].session
  <2>1. /\ n \in 1..Len(sessions)
        /\ SavingEnd(c, Noted(n), saving, saving[c].then)
    BY <1>4, FinishSaveEnds
  <2>2. /\ Len(Noted(n)) = Len(sessions)
        /\ \A j \in 1..Len(sessions) : SameParts(Noted(n)[j], sessions[j])
    BY <2>1, NotedSessions
  <2> HIDE DEF n
  <2>3. /\ Len(sessions') = Len(sessions)
        /\ \A j \in 1..Len(sessions) : SameParts(sessions'[j], sessions[j])
    BY <2>1, <2>2 DEF SavingEnd, SameParts
  <2> QED
    BY <2>3, HistoryUndisturbed DEF SameParts
<1>5. ASSUME NEW c \in Conns,
             \/ Progress(c) \/ ReadDoc(c) \/ Unfixable(c) \/ ReceiveDiff(c)
             \/ Disconnect(c) \/ Fail(c)
      PROVE  HistoryKept'
  BY <1>3, <1>4, <1>5, HistoryOpening, HistoryMessage, HistoryAcceptDiff,
     HistoryDisconnect DEF Progress
<1> QED
  BY <1>1, <1>2, <1>5 DEF Next

LEMMA HistoryInvariant == Spec => []HistoryKept
<1>1. Init => HistoryKept
  BY EmptySeq DEF Init, HistoryKept
<1>2. TypeInv /\ HistoryKept /\ [Next]_vars => HistoryKept'
  BY HistoryStep
<1> QED
  BY <1>1, <1>2, TypeInvariant, PTL DEF Spec

\* An exact history yields exact tails.
LEMMA ExactTails ==
    ASSUME NEW s \in Session, ExactHistory(s), NEW v \in s.opened..s.doc.version,
           ReachesBack(s.doc, v), NEW k \in 1..(s.doc.version - v)
    PROVE  Missing(s.doc, v)[k].v = v + k - 1
<1> DEFINE ds == s.doc.diffs
           len == Len(ds)
           ver == s.doc.version
           first == len - (ver - v) + 1
<1>1. ver \in Nat /\ s.opened \in Nat /\ ds \in Seq(Diff) /\ len \in Nat
  BY LenProperties DEF Session, Doc
<1>2. v + len >= ver
  BY DEF ReachesBack
<1>3. Missing(s.doc, v) = SubSeq(ds, first, len)
  BY DEF Missing, LastN
<1>4. \A i \in 1..len : (ver - 1 - (len - i) >= s.opened) => ds[i].v = ver - 1 - (len - i)
  BY DEF ExactHistory
<1>5. \A i \in 1..len : ds[i] \in Diff
  BY <1>1, ElementOfSeq
<1>6. v \in s.opened..ver /\ k \in 1..(ver - v)
  OBVIOUS
<1> HIDE DEF ds, len, ver
<1>7. /\ first \in 1..(len + 1) /\ k \in 1..(len - first + 1)
      /\ first + k - 1 \in 1..len
      /\ ver - 1 - (len - (first + k - 1)) = v + k - 1 /\ v + k - 1 >= s.opened
  BY <1>1, <1>2, <1>6
<1> HIDE DEF first
<1>8. \A i \in 1..(len - first + 1) : SubSeq(ds, first, len)[i] = ds[first + i - 1]
  BY <1>1, <1>5, <1>7, SubSeqProperties
<1>9. ds[first + k - 1].v = v + k - 1
  BY <1>4, <1>7
<1> QED
  BY <1>3, <1>7, <1>8, <1>9

\* A client that is behind by no more than the stored diffs reach back is sent exactly
\* the diffs it lacks, in order, for every history length: trimming, saving, joining
\* and taking sessions apart never shift the list against the version count.
THEOREM CatchUpExactCorrect == Spec => []CatchUpExact
<1>1. TypeInv /\ HistoryKept => CatchUpExact
  <2> SUFFICES ASSUME TypeInv, HistoryKept, NEW n \in 1..Len(sessions),
                      NEW v \in sessions[n].opened..sessions[n].doc.version,
                      ReachesBack(sessions[n].doc, v),
                      NEW k \in 1..(sessions[n].doc.version - v)
               PROVE  Missing(sessions[n].doc, v)[k].v = v + k - 1
    BY DEF CatchUpExact
  <2>1. sessions[n] \in Session /\ ExactHistory(sessions[n])
    BY ElementOfSeq DEF TypeInv, TypeOK, HistoryKept
  <2> QED
    BY <2>1, ExactTails
<1> QED
  BY <1>1, TypeInvariant, HistoryInvariant, PTL

-----------------------------------------------------------------------------
(* The session of a team whose last member stays: everybody edits the      *)
(* registered session, whose saves wait in the queue of the database       *)
(* thread.                                                                 *)

\* Nothing is left to be initialised, and who reads the row while there is no session
\* has the row as it is.
Initialised ==
    /\ ~row.blank /\ \A n \in 1..Len(sessions) : ~sessions[n].doc.blank
    /\ \A c \in Conns : ~loaded[c].blank /\ at[c] \notin {"init", "inited"}
    /\ registry = None => \A c \in Conns : at[c] = "read" => loaded[c] = row

\* The registered session is never left, and so no save is the last one.
Attended ==
    /\ registry # None => sessions[registry].parts # {}
    /\ \A c \in Conns : at[c] \in {"saving", "wrote"} =>
            saving[c].session = registry /\ saving[c].then # "cleanup"

\* Those in the queue wait for the database thread, each once.
QueueWaits ==
    /\ \A k \in 1..Len(queue) : at[queue[k]] = "saving"
    /\ \A j, k \in 1..Len(queue) : queue[j] = queue[k] => j = k

Team == OneSharedSession /\ Attended /\ QueueWaits /\ Initialised

LEMMA Registered ==
    ASSUME TypeInv, registry # None
    PROVE  /\ registry \in 1..Len(sessions) /\ sessions \in Seq(Session)
           /\ sessions[registry] \in Session
<1>1. registry \in 1..Len(sessions) /\ sessions \in Seq(Session)
  BY LenProperties DEF TypeInv, TypeOK, None
<1> QED
  BY <1>1, ElementOfSeq

\* Who is in the session has it registered.
LEMMA InRegistered ==
    ASSUME TypeInv, Team, NEW c \in Conns, at[c] \in InSession
    PROVE  registry # None /\ ref[c] = registry
BY LenProperties DEF TypeInv, TypeOK, HandlersPlaced, Team, OneSharedSession, None

\* A handler that does not remove the session ends in a save, or without one.
Ended(c, ss, sv, then) ==
    /\ registry' = registry
    /\ \/ StartSave(c, ss, sv, then)
       \/ /\ sessions' = ss /\ saving' = sv /\ queue' = queue
          /\ at' = [at EXCEPT ![c] = "idle"]

LEMMA ThenEnded ==
    ASSUME NEW c, NEW ss, NEW then, then # "cleanup", SaveThen(c, ss, then)
    PROVE  Ended(c, ss, saving, then)
BY DEF SaveThen, Resume, Ended

LEMMA DueEnded ==
    ASSUME NEW c, NEW ss, NEW sv, NEW m, SaveIfDue(c, ss, sv, m)
    PROVE  /\ Ended(c, ss, sv, "announce")
           /\ IsDue(ss[ref[c]].doc.version) /\ SaveNeeded(ss) => StartSave(c, ss, sv, "announce")
BY DEF SaveIfDue, Ended

\* A submitted save has the text of the moment, if the node has changed.
LEMMA Submitted ==
    ASSUME TypeInv, NEW c \in Conns, NEW ss \in Seq(Session), registry \in 1..Len(ss),
           NEW sv \in [Conns -> Save], NEW then \in Reasons, StartSave(c, ss, sv, then)
    PROVE  /\ Len(sessions') = Len(ss)
           /\ \A n \in 1..Len(ss) :
                /\ sessions'[n].node = ss[n].node /\ sessions'[n].dirty = ss[n].dirty
                /\ sessions'[n].saved = ss[n].saved /\ sessions'[n].parts = ss[n].parts
                /\ sessions'[n].doc.version = ss[n].doc.version
                /\ sessions'[n].doc.blank = ss[n].doc.blank
                /\ sessions'[n].doc.diffs = ss[n].doc.diffs
                /\ sessions'[n].doc.content =
                        IF ~RustEngine /\ n = registry /\ ss[n].dirty THEN ss[n].node
                                                                     ELSE ss[n].doc.content
           /\ \A x \in Conns \ {c} : saving'[x] = sv[x]
           /\ LET s == ss[registry]
              IN  /\ saving'[c].session = registry /\ saving'[c].then = then
                  /\ saving'[c].node = s.dirty
                  /\ saving'[c].doc.version = s.doc.version
                  /\ saving'[c].doc.diffs = s.doc.diffs
                  /\ saving'[c].doc.content = IF s.dirty THEN s.node ELSE s.doc.content
           /\ queue \in Seq(Conns) /\ queue' = Append(queue, c)
           /\ at' = [at EXCEPT ![c] = "saving"]
<1> DEFINE s == ss[registry]
           d == IF s.dirty THEN [s.doc EXCEPT !.content = s.node] ELSE s.doc
           e == [s EXCEPT !.doc = d]
           save == [session |-> registry, doc |-> d, node |-> s.dirty, then |-> then]
<1>1. s \in Session
  BY ElementOfSeq
<1>2. /\ d \in Doc /\ d.version = s.doc.version /\ d.blank = s.doc.blank
      /\ d.diffs = s.doc.diffs
      /\ d.content = IF s.dirty THEN s.node ELSE s.doc.content
  BY <1>1 DEF Session, Doc
<1>3. /\ e \in Session /\ e.doc = d /\ e.node = s.node /\ e.dirty = s.dirty
      /\ e.saved = s.saved /\ e.parts = s.parts
  BY <1>1, <1>2 DEF Session
<1>4. sessions' = IF RustEngine THEN ss ELSE [ss EXCEPT ![registry] = e]
  BY DEF StartSave
<1>5. save.session = registry /\ save.then = then /\ save.node = s.dirty /\ save.doc = d
  OBVIOUS
<1>6. saving' = [sv EXCEPT ![c] = save]
  BY DEF StartSave
<1> HIDE DEF e, d, save
<1>7. Len(sessions') = Len(ss) /\ \A n \in 1..Len(ss) :
            sessions'[n] = IF ~RustEngine /\ n = registry THEN e ELSE ss[n]
  <2>1. CASE RustEngine
    BY <1>4, <2>1
  <2>2. CASE ~RustEngine
    BY <1>3, <1>4, <2>2, Replace
  <2> QED
    BY <2>1, <2>2
<1>8. saving'[c] = save /\ \A x \in Conns \ {c} : saving'[x] = sv[x]
  BY <1>6
<1>9. /\ queue \in Seq(Conns) /\ queue' = Append(queue, c)
      /\ at' = [at EXCEPT ![c] = "saving"]
  BY DEF StartSave, TypeInv, TypeOK
<1>10. \A n \in 1..Len(ss) :
         /\ sessions'[n].node = ss[n].node /\ sessions'[n].dirty = ss[n].dirty
         /\ sessions'[n].saved = ss[n].saved /\ sessions'[n].parts = ss[n].parts
         /\ sessions'[n].doc.version = ss[n].doc.version
         /\ sessions'[n].doc.blank = ss[n].doc.blank
         /\ sessions'[n].doc.diffs = ss[n].doc.diffs
         /\ sessions'[n].doc.content =
                 IF ~RustEngine /\ n = registry /\ ss[n].dirty THEN ss[n].node
                                                              ELSE ss[n].doc.content
  BY <1>2, <1>3, <1>7
<1> QED
  BY <1>2, <1>5, <1>7, <1>8, <1>9, <1>10

LEMMA QueueGrown ==
    ASSUME TypeInv, QueueWaits, NEW c \in Conns, at[c] # "saving",
           queue' = Append(queue, c), at' = [at EXCEPT ![c] = "saving"]
    PROVE  QueueWaits'
<1>1. queue \in Seq(Conns) /\ Len(queue) \in Nat
  BY LenProperties DEF TypeInv, TypeOK
<1>2. /\ Len(queue') = Len(queue) + 1 /\ queue'[Len(queue) + 1] = c
      /\ \A k \in 1..Len(queue) : queue'[k] = queue[k]
  BY <1>1, AppendProperties
<1>3. \A k \in 1..Len(queue) : queue[k] # c /\ queue[k] \in Conns
  BY <1>1, ElementOfSeq DEF QueueWaits
<1>4. \A k \in 1..Len(queue') : k \in 1..Len(queue) \/ k = Len(queue) + 1
  BY <1>1, <1>2
<1>5. at'[c] = "saving" /\ \A x \in Conns \ {c} : at'[x] = at[x]
  BY DEF TypeInv, TypeOK
<1>6. \A k \in 1..Len(queue') : at'[queue'[k]] = "saving"
  BY <1>2, <1>3, <1>4, <1>5 DEF QueueWaits
<1>7. \A j, k \in 1..Len(queue') : queue'[j] = queue'[k] => j = k
  BY <1>2, <1>3, <1>4 DEF QueueWaits
<1> QED
  BY <1>6, <1>7 DEF QueueWaits

\* Steps of one handler that leave the queue alone, outside the database thread.
LEMMA QueueUndisturbed ==
    ASSUME TypeInv, QueueWaits, NEW c \in Conns, at[c] # "saving", queue' = queue,
           \A x \in Conns \ {c} : at'[x] = at[x]
    PROVE  QueueWaits'
<1>1. \A k \in 1..Len(queue) : queue[k] \in Conns
  BY ElementOfSeq DEF TypeInv, TypeOK
<1> QED
  BY <1>1 DEF QueueWaits

\* A handler ends in a save, or without one.
LEMMA TeamEnded ==
    ASSUME TypeInv, Team, NEW c \in Conns, at[c] \in InSession \ {"saving"},
           NEW ss \in Seq(Session), Len(ss) = Len(sessions),
           \A n \in 1..Len(ss) : /\ ss[n].parts = sessions[n].parts
                                 /\ ss[n].doc.blank = sessions[n].doc.blank,
           NEW sv \in [Conns -> Save],
           \A x \in Conns \ {c} : /\ sv[x].session = saving[x].session
                                  /\ sv[x].then = saving[x].then,
           NEW then \in Reasons \ {"cleanup"}, Ended(c, ss, sv, then),
           UNCHANGED <<row, ref, loaded>>
    PROVE  Team'
<1>1. registry # None /\ registry \in 1..Len(ss) /\ registry' = registry
  BY InRegistered, Registered DEF Ended
<1>2. /\ Len(sessions') = Len(sessions)
      /\ \A n \in 1..Len(sessions) : /\ sessions'[n].parts = sessions[n].parts
                                     /\ sessions'[n].doc.blank = sessions[n].doc.blank
      /\ \A x \in Conns \ {c} : /\ saving'[x].session = saving[x].session
                                /\ saving'[x].then = saving[x].then
      /\ \A x \in Conns \ {c} : at'[x] = at[x]
      /\ at'[c] \in {"saving", "idle"}
      /\ at'[c] = "saving" => saving'[c].session = registry /\ saving'[c].then # "cleanup"
      /\ QueueWaits'
  <2>1. CASE StartSave(c, ss, sv, then)
    <3>1. /\ queue' = Append(queue, c) /\ at' = [at EXCEPT ![c] = "saving"]
          /\ Len(sessions') = Len(ss)
          /\ \A n \in 1..Len(ss) : /\ sessions'[n].parts = ss[n].parts
                                   /\ sessions'[n].doc.blank = ss[n].doc.blank
          /\ \A x \in Conns \ {c} : saving'[x] = sv[x]
          /\ saving'[c].session = registry /\ saving'[c].then = then
      BY <1>1, <2>1, Submitted
    <3>2. QueueWaits'
      BY <3>1, QueueGrown DEF Team
    <3> QED
      BY <3>1, <3>2 DEF TypeInv, TypeOK
  <2>2. CASE /\ sessions' = ss /\ saving' = sv /\ queue' = queue
             /\ at' = [at EXCEPT ![c] = "idle"]
    <3>1. at'[c] = "idle" /\ \A x \in Conns \ {c} : at'[x] = at[x]
      BY <2>2 DEF TypeInv, TypeOK
    <3>2. QueueWaits'
      BY <2>2, <3>1, QueueUndisturbed DEF Team
    <3> QED
      BY <2>2, <3>1, <3>2
  <2> QED
    BY <2>1, <2>2 DEF Ended
<1>3. OneSharedSession'
  <2>1. \A x \in Conns : at'[x] \in InSession => at[x] \in InSession
    BY <1>2
  <2> QED
    BY <1>1, <1>2, <2>1 DEF Team, OneSharedSession
<1>4. Attended'
  BY <1>1, <1>2 DEF Team, Attended
<1>5. Initialised'
  BY <1>1, <1>2 DEF Team, Initialised
<1> QED
  BY <1>2, <1>3, <1>4, <1>5 DEF Team

\* Steps of a handler that leave the sessions, the saves and the row alone.
LEMMA TeamUndisturbed ==
    ASSUME TypeInv, Team, NEW c \in Conns, at[c] \in {"joined", "idle", "authorizing"},
           NEW p \in {"idle", "authorizing", "failed"}, at' = [at EXCEPT ![c] = p],
           UNCHANGED <<row, registry, sessions, ref, loaded, saving, queue>>
    PROVE  Team'
<1>1. at'[c] = p /\ \A x \in Conns \ {c} : at'[x] = at[x]
  BY DEF TypeInv, TypeOK
<1>2. QueueWaits'
  BY <1>1, QueueUndisturbed DEF Team
<1>3. \A x \in Conns : at'[x] \in InSession => at[x] \in InSession
  BY <1>1 DEF InSession
<1>4. OneSharedSession'
  BY <1>3 DEF Team, OneSharedSession
<1>5. Attended' /\ Initialised'
  BY <1>1 DEF Team, Attended, Initialised
<1> QED
  BY <1>2, <1>4, <1>5 DEF Team

LEMMA TeamOpening ==
    ASSUME TypeInv, Team, NEW c \in Conns,
           ReadDoc(c) \/ StartInit(c) \/ WriteInit(c) \/ OpenSession(c) \/ JoinSession(c)
    PROVE  Team'
<1>0. \A x \in Conns \ {c} : at'[x] = at[x]
  BY DEF ReadDoc, StartInit, WriteInit, OpenSession, JoinSession, TypeInv, TypeOK
<1>1. CASE ReadDoc(c)
  <2>1. /\ at[c] = "new" /\ at'[c] = "read" /\ loaded' = [loaded EXCEPT ![c] = row]
        /\ UNCHANGED <<row, registry, sessions, ref, saving, queue>>
    BY <1>1 DEF ReadDoc, TypeInv, TypeOK
  <2>2. QueueWaits'
    BY <1>0, <2>1, QueueUndisturbed DEF Team
  <2>3. OneSharedSession'
    BY <1>0, <2>1 DEF Team, OneSharedSession, InSession
  <2>4. Attended'
    BY <1>0, <2>1 DEF Team, Attended
  <2>5. loaded'[c] = row /\ \A x \in Conns \ {c} : loaded'[x] = loaded[x]
    BY <2>1 DEF TypeInv, TypeOK
  <2>6. Initialised'
    BY <1>0, <2>1, <2>5 DEF Team, Initialised
  <2> QED
    BY <2>2, <2>3, <2>4, <2>6 DEF Team
<1>2. CASE StartInit(c) \/ WriteInit(c)
  BY <1>2 DEF StartInit, WriteInit, Team, Initialised
<1>3. CASE OpenSession(c)
  <2> DEFINE e == [doc |-> loaded[c], node |-> loaded[c].content, dirty |-> FALSE,
                   saved |-> loaded[c].version, parts |-> {c}, dead |-> FALSE,
                   opened |-> loaded[c].version]
  <2>1. /\ at[c] = "read" /\ ~ServedAlready /\ ~loaded[c].blank
        /\ sessions' = Append(sessions, e) /\ registry' = Len(sessions')
        /\ ref' = [ref EXCEPT ![c] = Len(sessions')] /\ at' = [at EXCEPT ![c] = "joined"]
        /\ UNCHANGED <<row, loaded, saving, queue>>
    BY <1>3 DEF OpenSession, Team, Initialised
  <2>2. registry = None
    BY <2>1 DEF ServedAlready, Team, Attended
  <2>3. \A x \in Conns : at[x] \notin InSession
    BY <2>2, InRegistered
  <2>4. e \in Session /\ e.parts = {c} /\ e.doc = loaded[c]
    BY DEF Session, TypeInv, TypeOK, Doc
  <2> HIDE DEF e
  <2>5. /\ Len(sessions') = Len(sessions) + 1 /\ Len(sessions) \in Nat
        /\ sessions'[Len(sessions) + 1] = e
        /\ \A n \in 1..Len(sessions) : sessions'[n] = sessions[n]
    BY <2>1, <2>4, AppendProperties, LenProperties DEF TypeInv, TypeOK
  <2>6. \A n \in 1..Len(sessions') : n \in 1..Len(sessions) \/ n = Len(sessions) + 1
    BY <2>5
  <2>7. registry' = Len(sessions) + 1 /\ registry' # None /\ sessions'[registry'] = e
    BY <2>1, <2>5 DEF None
  <2>8. at'[c] = "joined" /\ ref'[c] = registry'
    BY <2>1 DEF TypeInv, TypeOK
  <2>9. QueueWaits'
    BY <1>0, <2>1, QueueUndisturbed DEF Team
  <2>10. OneSharedSession'
    BY <1>0, <2>3, <2>4, <2>7, <2>8 DEF OneSharedSession
  <2>11. Attended'
    <3>1. sessions'[registry'].parts # {}
      BY <2>4, <2>7
    <3>2. \A x \in Conns : at'[x] \notin {"saving", "wrote"}
      BY <1>0, <2>3, <2>8 DEF InSession
    <3> QED
      BY <3>1, <3>2 DEF Attended
  <2>12. Initialised'
    <3>1. \A n \in 1..Len(sessions') : ~sessions'[n].doc.blank
      BY <2>1, <2>4, <2>5, <2>6 DEF Team, Initialised
    <3> QED
      BY <1>0, <2>1, <2>7, <2>8, <3>1 DEF Team, Initialised
  <2> QED
    BY <2>9, <2>10, <2>11, <2>12 DEF Team
<1>4. CASE JoinSession(c)
  <2> DEFINE e == [sessions[registry] EXCEPT !.parts = @ \cup {c}]
  <2>1. /\ at[c] = "read" /\ registry # None /\ sessions' = [sessions EXCEPT ![registry] = e]
        /\ ref' = [ref EXCEPT ![c] = registry] /\ at' = [at EXCEPT ![c] = "joined"]
        /\ UNCHANGED <<row, registry, loaded, saving, queue>>
    BY <1>4 DEF JoinSession, ServedAlready
  <2>2. registry \in 1..Len(sessions) /\ sessions \in Seq(Session)
        /\ sessions[registry] \in Session
    BY <2>1, Registered
  <2>3. /\ e \in Session /\ e.parts = sessions[registry].parts \cup {c}
        /\ e.doc = sessions[registry].doc
    BY <2>2 DEF Session
  <2> HIDE DEF e
  <2>4. /\ Len(sessions') = Len(sessions)
        /\ \A n \in 1..Len(sessions) : sessions'[n] = IF n = registry THEN e ELSE sessions[n]
    BY <2>1, <2>2, <2>3, Replace
  <2>5. at'[c] = "joined" /\ ref'[c] = registry /\ \A x \in Conns \ {c} : ref'[x] = ref[x]
    BY <2>1 DEF TypeInv, TypeOK
  <2>6. QueueWaits'
    BY <1>0, <2>1, QueueUndisturbed DEF Team
  <2>7. OneSharedSession'
    BY <1>0, <2>1, <2>2, <2>3, <2>4, <2>5 DEF Team, OneSharedSession
  <2>8. Attended'
    BY <1>0, <2>1, <2>2, <2>3, <2>4, <2>5 DEF Team, Attended
  <2>9. Initialised'
    BY <1>0, <2>1, <2>2, <2>3, <2>4, <2>5 DEF Team, Initialised
  <2> QED
    BY <2>6, <2>7, <2>8, <2>9 DEF Team
<1> QED
  BY <1>1, <1>2, <1>3, <1>4

\* The database thread takes the first in the queue.
LEMMA QueueShorter ==
    ASSUME TypeInv, QueueWaits, NEW c \in Conns, WriteRow(c)
    PROVE  /\ queue \in Seq(Conns) /\ Len(queue) \in Nat \ {0} /\ queue[1] = c
           /\ queue' \in Seq(Conns) /\ Len(queue') = Len(queue) - 1
           /\ \A k \in 1..Len(queue') : queue'[k] = queue[k + 1]
           /\ \A k \in 1..Len(queue') : k + 1 \in 1..Len(queue) /\ queue'[k] \in Conns \ {c}
<1>1. /\ queue # <<>> /\ queue[1] = c
      /\ queue' = SubSeq(queue, 1, 0) \o SubSeq(queue, 2, Len(queue))
  BY DEF WriteRow, Oldest
<1>2. queue \in Seq(Conns) /\ Len(queue) \in Nat /\ Len(queue) >= 1
  <2>1. queue \in Seq(Conns) /\ Len(queue) \in Nat /\ Len(queue) # 0
    BY <1>1, EmptySeq, LenProperties DEF TypeInv, TypeOK
  <2> QED
    BY <2>1
<1>3. \A k \in 1..Len(queue) : queue[k] \in Conns
  BY <1>2, ElementOfSeq
<1>4. /\ SubSeq(queue, 2, Len(queue)) \in Seq(Conns)
      /\ Len(SubSeq(queue, 2, Len(queue))) = Len(queue) - 1
      /\ \A k \in 1..(Len(queue) - 1) : SubSeq(queue, 2, Len(queue))[k] = queue[k + 1]
  <2>1. \A k \in 2..Len(queue) : queue[k] \in Conns
    BY <1>2, <1>3
  <2>2. /\ SubSeq(queue, 2, Len(queue)) \in Seq(Conns)
        /\ Len(SubSeq(queue, 2, Len(queue))) =
                IF 2 <= Len(queue) THEN Len(queue) - 2 + 1 ELSE 0
        /\ \A k \in 1..(Len(queue) - 2 + 1) :
                SubSeq(queue, 2, Len(queue))[k] = queue[2 + k - 1]
    BY <1>2, <2>1, SubSeqProperties
  <2>3. Len(SubSeq(queue, 2, Len(queue))) = Len(queue) - 1
    <3>1. CASE 2 <= Len(queue)
      BY <1>2, <2>2, <3>1
    <3>2. CASE Len(queue) = 1
      BY <2>2, <3>2
    <3> QED
      BY <1>2, <3>1, <3>2, SMTT(20)
  <2>4. \A k \in 1..(Len(queue) - 1) : k \in 1..(Len(queue) - 2 + 1) /\ 2 + k - 1 = k + 1
    BY <1>2
  <2> QED
    BY <2>2, <2>3, <2>4
<1>5. SubSeq(queue, 1, 0) = <<>>
  BY <1>2
<1>6. queue' = SubSeq(queue, 2, Len(queue))
  BY <1>1, <1>4, <1>5
<1>7. \A k \in 1..Len(queue') : k + 1 \in 1..Len(queue) /\ queue'[k] \in Conns \ {c}
  <2>1. ASSUME NEW k \in 1..Len(queue') PROVE k + 1 \in 1..Len(queue) /\ queue'[k] \in Conns \ {c}
    <3>1. k + 1 \in 1..Len(queue) /\ 1 \in 1..Len(queue) /\ k + 1 # 1
      BY <1>2, <1>4, <1>6
    <3>2. queue[k + 1] # queue[1]
      BY <3>1 DEF QueueWaits
    <3> QED
      BY <1>1, <1>3, <1>4, <1>6, <3>1, <3>2
  <2> QED
    BY <2>1
<1> QED
  BY <1>1, <1>2, <1>4, <1>6, <1>7

LEMMA TeamWriteRow ==
    ASSUME TypeInv, Served, Team, NEW c \in Conns, WriteRow(c)
    PROVE  Team' /\ at'[c] = "wrote" /\ ~sessions[registry].dead
<1>1. /\ at[c] = "saving" /\ UNCHANGED <<registry, sessions, ref, loaded, saving>>
      /\ \A x \in Conns \ {c} : at'[x] = at[x]
  BY DEF WriteRow, TypeInv, TypeOK
<1>2. registry # None /\ saving[c].session = registry
  BY <1>1, InRegistered DEF InSession, Team, Attended
<1>3. ~sessions[registry].dead
  BY <1>2 DEF Served, LiveRegistry
<1>4. at'[c] = "wrote"
  BY <1>2, <1>3 DEF WriteRow, TypeInv, TypeOK
<1>5. QueueWaits'
  <2>1. \A k \in 1..Len(queue') : at'[queue'[k]] = "saving"
    BY <1>1, QueueShorter DEF Team, QueueWaits
  <2>2. ASSUME NEW j \in 1..Len(queue'), NEW k \in 1..Len(queue'), queue'[j] = queue'[k]
        PROVE  j = k
    <3>1. queue[j + 1] = queue[k + 1] /\ j + 1 \in 1..Len(queue) /\ k + 1 \in 1..Len(queue)
      BY <2>2, QueueShorter DEF Team
    <3>2. j + 1 = k + 1
      BY <3>1 DEF Team, QueueWaits
    <3> QED
      BY <3>2
  <2> QED
    BY <2>1, <2>2 DEF QueueWaits
<1>6. \A x \in Conns : at'[x] \in InSession => at[x] \in InSession
  BY <1>1, <1>4 DEF InSession
<1>7. OneSharedSession' /\ Attended'
  BY <1>1, <1>4, <1>6 DEF Team, OneSharedSession, Attended
<1>8. ~row'.blank
  <2> DEFINE d == saving[c].doc
             s == sessions[saving[c].session]
  <2>1. \/ row' = [d EXCEPT !.blank = FALSE]
        \/ row' = [s.doc EXCEPT !.content = KeptContent(s),
                                !.blank = IF RustEngine THEN row.blank ELSE FALSE]
    BY <1>2, <1>3 DEF WriteRow
  <2>2. d \in Doc /\ s.doc \in Doc
    BY <1>2, Registered DEF TypeInv, TypeOK, Save, Session
  <2> HIDE DEF d, s
  <2> QED
    BY <2>1, <2>2 DEF Team, Initialised, Doc
<1>9. Initialised'
  BY <1>1, <1>2, <1>4, <1>8 DEF Team, Initialised
<1> QED
  BY <1>3, <1>4, <1>5, <1>7, <1>9 DEF Team

\* Somebody else stays.
LEMMA TeamDisconnect ==
    ASSUME TypeInv, Team, LastStays, NEW c \in Conns, Disconnect(c)
    PROVE  /\ Team' /\ registry' = registry /\ registry # None /\ ref[c] = registry
           /\ sessions' = Without(c) /\ at' = [at EXCEPT ![c] = "closed"]
           /\ UNCHANGED <<row, saving, queue>>
<1>1. at[c] = "idle" /\ UNCHANGED <<row, ref, loaded>>
  BY DEF Disconnect
<1>2. registry # None /\ ref[c] = registry
  BY <1>1, InRegistered DEF InSession
<1>3. Without(c)[registry].parts # {}
  BY <1>2 DEF Disconnect, Without
<1>4. /\ sessions' = Without(c) /\ at' = [at EXCEPT ![c] = "closed"]
      /\ UNCHANGED <<registry, saving, queue>>
  BY <1>2, <1>3 DEF Disconnect, Without, NobodyLeft
<1>5. at'[c] = "closed" /\ \A x \in Conns \ {c} : at'[x] = at[x]
  BY <1>4 DEF TypeInv, TypeOK
<1>6. QueueWaits'
  BY <1>1, <1>4, <1>5, QueueUndisturbed DEF Team
<1>7. /\ registry \in 1..Len(sessions) /\ Len(Without(c)) = Len(sessions)
      /\ Without(c)[registry].parts = sessions[registry].parts \ {c}
      /\ \A n \in 1..Len(sessions) : Without(c)[n].doc = sessions[n].doc
  <2>1. sessions[registry] \in Session /\ registry \in 1..Len(sessions) /\ sessions \in Seq(Session)
    BY <1>2, Registered
  <2>2. Without(c) = [sessions EXCEPT ![registry].parts = @ \ {c}]
    BY <1>2 DEF Without
  <2>3. Without(c)[registry].parts = sessions[registry].parts \ {c}
    BY <2>1, <2>2 DEF Session
  <2> QED
    BY <1>1, <2>1, <2>3, WithoutSessions
<1>8. OneSharedSession'
  BY <1>1, <1>2, <1>4, <1>5, <1>7 DEF Team, OneSharedSession, InSession
<1>9. Attended'
  BY <1>3, <1>4, <1>5 DEF Team, Attended
<1>10. Initialised'
  BY <1>1, <1>2, <1>4, <1>5, <1>7 DEF Team, Initialised
<1> QED
  BY <1>1, <1>2, <1>4, <1>6, <1>8, <1>9, <1>10 DEF Team

LEMMA TeamStop == ASSUME TypeInv, Team, Crash \/ Shutdown PROVE Team'
<1>1. Stop
  BY DEF Crash, Shutdown, Flushed
<1>2. \A x \in Conns : at'[x] \in {"new", "closed"}
  BY <1>1 DEF Stop, TypeInv, TypeOK
<1>3. OneSharedSession' /\ Attended' /\ QueueWaits'
  BY <1>1, <1>2 DEF Stop, OneSharedSession, Attended, QueueWaits, InSession
<1>4. ~row'.blank
  <2>1. CASE row' = row
    BY <2>1 DEF Team, Initialised
  <2>2. CASE Shutdown /\ SaveNeeded(sessions)
    <3> DEFINE s == sessions[registry]
    <3>1. s.doc \in Doc /\ ~s.doc.blank
      BY <2>2, Registered DEF SaveNeeded, Session, Team, Initialised
    <3>2. row' = [s.doc EXCEPT !.content = IF s.dirty THEN s.node ELSE KeptContent(s)]
      BY <2>2 DEF Shutdown, Flushed
    <3> HIDE DEF s
    <3> QED
      BY <3>1, <3>2 DEF Doc
  <2> QED
    BY <2>1, <2>2 DEF Crash, Shutdown, Flushed
<1>5. Initialised'
  BY <1>1, <1>2, <1>4 DEF Stop, Team, Initialised
<1> QED
  BY <1>3, <1>5 DEF Team

\* The session once the save is noted, and the saves without it.
Forgotten(c) == [saving EXCEPT ![c] = NoSave]

LEMMA TeamFinishSave ==
    ASSUME TypeInv, Team, NEW c \in Conns, FinishSave(c)
    PROVE  /\ Team' /\ at[c] = "wrote"
           /\ saving[c].session = registry /\ saving[c].then \in Reasons \ {"cleanup"}
           /\ Forgotten(c) \in [Conns -> Save]
           /\ Ended(c, Noted(registry), Forgotten(c), saving[c].then)
           /\ sessions' = Noted(registry) /\ saving' = Forgotten(c)
           /\ UNCHANGED <<row, queue, registry>>
<1>1. /\ at[c] = "wrote" /\ saving[c].then \in Reasons
      /\ UNCHANGED <<row, ref, loaded, queue>>
  BY FinishSaveEnds DEF FinishSave
<1>2. /\ saving[c].session = registry /\ saving[c].then # "cleanup" /\ registry # None
  BY <1>1, InRegistered DEF InSession, Team, Attended
<1>3. /\ Resume(c, Noted(registry), saving[c].then) /\ saving' = Forgotten(c)
  BY <1>2 DEF FinishSave, Noted, Forgotten
<1>4. /\ sessions' = Noted(registry) /\ at' = [at EXCEPT ![c] = "idle"] /\ registry' = registry
  BY <1>2, <1>3 DEF Resume
<1>5. NoSave \in Save
  BY EmptySeq DEF NoSave, EmptyDoc, Save, Doc, None
<1>6. /\ Forgotten(c) \in [Conns -> Save]
      /\ \A x \in Conns \ {c} : Forgotten(c)[x] = saving[x]
  BY <1>5 DEF Forgotten, TypeInv, TypeOK
<1>7. /\ Noted(registry) \in Seq(Session) /\ Len(Noted(registry)) = Len(sessions)
      /\ \A n \in 1..Len(sessions) : /\ Noted(registry)[n].parts = sessions[n].parts
                                     /\ Noted(registry)[n].doc.blank = sessions[n].doc.blank
  <2>1. registry \in 1..Len(sessions) /\ sessions[registry] \in Session /\ sessions \in Seq(Session)
    BY <1>2, Registered
  <2>2. /\ Noted(registry) \in Seq(Session) /\ Len(Noted(registry)) = Len(sessions)
        /\ \A n \in 1..Len(sessions) : Noted(registry)[n].parts = sessions[n].parts
    BY <2>1, NotedSessions DEF SameParts
  <2>3. \A n \in 1..Len(sessions) : Noted(registry)[n].doc = sessions[n].doc
    BY <2>1, SMTT(20) DEF Noted, Session
  <2> QED
    BY <2>2, <2>3
<1>8. Ended(c, Noted(registry), Forgotten(c), saving[c].then)
  BY <1>1, <1>3, <1>4 DEF Ended
<1>9. at[c] \in InSession \ {"saving"}
  BY <1>1 DEF InSession
<1>10. Team'
  BY <1>1, <1>2, <1>6, <1>7, <1>8, <1>9, TeamEnded
<1> QED
  BY <1>1, <1>2, <1>3, <1>4, <1>6, <1>8, <1>10

LEMMA TeamMessage ==
    ASSUME TypeInv, Team, NEW c \in Conns,
           Unfixable(c) \/ RefuseDiff(c) \/ AfterSidecar(c)
    PROVE  /\ Team' /\ at[c] # "wrote" /\ UNCHANGED row
           /\ \E then \in Reasons \ {"cleanup"} : Ended(c, sessions, saving, then)
<1>1. at[c] \in InSession \ {"saving", "wrote"} /\ UNCHANGED <<row, ref, loaded>>
  BY DEF Unfixable, RefuseDiff, AfterSidecar, InSession
<1>2. \E then \in Reasons \ {"cleanup"} : Ended(c, sessions, saving, then)
  <2>1. CASE Unfixable(c) \/ RefuseDiff(c)
    BY <2>1, ThenEnded DEF Unfixable, RefuseDiff, Reasons
  <2>2. CASE AfterSidecar(c)
    BY <2>2, DueEnded DEF AfterSidecar, Reasons
  <2> QED
    BY <2>1, <2>2
<1>3. sessions \in Seq(Session) /\ saving \in [Conns -> Save]
  BY DEF TypeInv, TypeOK
<1> QED
  BY <1>1, <1>2, <1>3, TeamEnded

\* A diff is accepted into the registered session.
LEMMA TeamAcceptDiff ==
    ASSUME TypeInv, Team, NEW c \in Conns, AcceptDiff(c)
    PROVE  /\ Team' /\ registry \in 1..Len(sessions) /\ ref[c] = registry
           /\ UNCHANGED <<row, registry>> /\ at[c] = "authorizing"
           /\ \E diff \in Diff : Taking(c, diff)
<1>1. /\ at[c] = "authorizing" /\ UNCHANGED <<row, ref, loaded>>
      /\ \E diff \in Diff : Taking(c, diff)
  BY AcceptTakes
<1>2. registry # None /\ ref[c] = registry
  BY <1>1, InRegistered DEF InSession
<1>3. registry \in 1..Len(sessions) /\ sessions \in Seq(Session) /\ sessions[registry] \in Session
  BY <1>2, Registered
<1>4. PICK diff \in Diff : Taking(c, diff)
  BY <1>1
<1> DEFINE ss == Taken(registry, diff)
           sv == Aliased(registry, diff)
           m == IF diff.steps THEN nextId ELSE None
<1>5. /\ ss \in Seq(Session) /\ Len(ss) = Len(sessions)
      /\ \A n \in 1..Len(ss) : /\ ss[n].parts = sessions[n].parts
                               /\ ss[n].doc.blank = sessions[n].doc.blank
  <2>1. /\ Accepted(sessions[registry], diff).parts = sessions[registry].parts
        /\ Accepted(sessions[registry], diff).doc.blank = sessions[registry].doc.blank
    BY <1>3 DEF Accepted, Session, Doc
  <2> QED
    BY <1>3, <2>1, TakenSessions
<1>6. /\ sv \in [Conns -> Save]
      /\ \A x \in Conns : sv[x].session = saving[x].session /\ sv[x].then = saving[x].then
  BY AliasedSaves DEF TypeInv
<1>7. \/ /\ sessions' = ss /\ saving' = sv /\ at' = [at EXCEPT ![c] = "sidecar"]
         /\ UNCHANGED <<registry, queue>>
      \/ SaveIfDue(c, ss, sv, m)
  BY <1>2, <1>4 DEF Taking, Taken
<1> HIDE DEF ss, sv, m
<1>8. CASE SaveIfDue(c, ss, sv, m)
  <2>1. Ended(c, ss, sv, "announce")
    BY <1>8, DueEnded
  <2>2. "announce" \in Reasons \ {"cleanup"} /\ at[c] \in InSession \ {"saving"}
    BY <1>1 DEF Reasons, InSession
  <2>3. Team'
    BY <1>1, <1>5, <1>6, <2>1, <2>2, TeamEnded
  <2> QED
    BY <1>1, <1>2, <1>3, <2>1, <2>3 DEF Ended
<1>9. CASE /\ sessions' = ss /\ saving' = sv /\ at' = [at EXCEPT ![c] = "sidecar"]
           /\ UNCHANGED <<registry, queue>>
  <2>1. at'[c] = "sidecar" /\ \A x \in Conns \ {c} : at'[x] = at[x]
    BY <1>9 DEF TypeInv, TypeOK
  <2>2. QueueWaits'
    BY <1>1, <1>9, <2>1, QueueUndisturbed DEF Team
  <2>3. OneSharedSession'
    <3>1. \A x \in Conns : at'[x] \in InSession => at[x] \in InSession
      BY <1>1, <2>1 DEF InSession
    <3> QED
      BY <1>1, <1>3, <1>5, <1>9, <3>1 DEF Team, OneSharedSession
  <2>4. Attended' /\ Initialised'
    BY <1>1, <1>2, <1>3, <1>5, <1>6, <1>9, <2>1 DEF Team, Attended, Initialised
  <2> QED
    BY <1>1, <1>2, <1>3, <1>9, <2>2, <2>3, <2>4 DEF Team
<1> QED
  BY <1>7, <1>8, <1>9

LEMMA TeamStep ==
    ASSUME LastStays, TypeInv, Served, Team, [Next]_vars
    PROVE  Team'
<1>1. CASE UNCHANGED vars
  BY <1>1 DEF vars, Team, OneSharedSession, Attended, QueueWaits, Initialised
<1>2. CASE Crash \/ Shutdown
  BY <1>2, TeamStop
<1>3. ASSUME NEW c \in Conns, Reconcile(c) \/ ReceiveDiff(c) \/ DropDiff(c) \/ Fail(c)
      PROVE  Team'
  <2>1. /\ at[c] \in {"joined", "idle", "authorizing"}
        /\ \E p \in {"idle", "authorizing", "failed"} : at' = [at EXCEPT ![c] = p]
        /\ UNCHANGED <<row, registry, sessions, ref, loaded, saving, queue>>
    BY <1>3 DEF Reconcile, ReceiveDiff, DropDiff, Fail
  <2> QED
    BY <2>1, TeamUndisturbed
<1>4. ASSUME NEW c \in Conns,
             \/ ReadDoc(c) \/ StartInit(c) \/ WriteInit(c) \/ OpenSession(c) \/ JoinSession(c)
             \/ Unfixable(c) \/ RefuseDiff(c) \/ AfterSidecar(c)
             \/ WriteRow(c) \/ FinishSave(c) \/ AcceptDiff(c) \/ Disconnect(c)
      PROVE  Team'
  BY <1>4, TeamOpening, TeamMessage, TeamWriteRow, TeamFinishSave, TeamAcceptDiff, TeamDisconnect
<1> QED
  BY <1>1, <1>2, <1>3, <1>4 DEF Next, Progress

LEMMA TeamInit == ASSUME ~BlankRow, Init PROVE Team
<1>1. OneSharedSession /\ Attended /\ QueueWaits
  BY DEF Init, OneSharedSession, Attended, QueueWaits, InSession
<1>2. Initialised
  BY DEF Init, Initialised, EmptyDoc
<1> QED
  BY <1>1, <1>2 DEF Team

LEMMA TeamInvariant == ASSUME LastStays, ~BlankRow PROVE Spec => []Team
<1>1. Init => Team
  BY TeamInit
<1>2. TypeInv /\ Served /\ Team /\ [Next]_vars => Team'
  BY TeamStep
<1> QED
  BY <1>1, <1>2, TypeInvariant, ServedInvariant, PTL DEF Spec

\* While the last participant stays, and the document needs no template, everyone
\* connected is a participant of the one registered session, whatever interleaving of
\* opening, joining, editing, saving, failing and killing led there.
THEOREM OneSharedSessionCorrect ==
    ASSUME LastStays, ~BlankRow
    PROVE  Spec => []OneSharedSession
BY TeamInvariant, PTL DEF Team

-----------------------------------------------------------------------------
(* The text and the version that are stored.                               *)

\* One text is the beginning of another.
Begins(s, t) == Len(s) <= Len(t) /\ \A k \in 1..Len(s) : s[k] = t[k]

LEMMA BeginsItself == ASSUME NEW s \in Seq(Ids) PROVE Begins(s, s)
BY LenProperties DEF Begins

LEMMA BeginsOn ==
    ASSUME NEW s \in Seq(Ids), NEW t \in Seq(Ids), NEW u \in Seq(Ids), Begins(s, t), Begins(t, u)
    PROVE  Begins(s, u)
<1>1. Len(s) \in Nat /\ Len(t) \in Nat /\ Len(u) \in Nat
  BY LenProperties
<1>2. Len(s) <= Len(u) /\ 1..Len(s) \subseteq 1..Len(t)
  BY <1>1 DEF Begins
<1> QED
  BY <1>2 DEF Begins

LEMMA BeginsMore ==
    ASSUME NEW s \in Seq(Ids), NEW i \in Ids
    PROVE  Append(s, i) \in Seq(Ids) /\ Begins(s, Append(s, i))
<1>1. /\ Append(s, i) \in Seq(Ids) /\ Len(Append(s, i)) = Len(s) + 1
      /\ \A k \in 1..Len(s) : Append(s, i)[k] = s[k]
  BY AppendProperties
<1>2. Len(s) \in Nat
  BY LenProperties
<1> QED
  BY <1>1, <1>2 DEF Begins

\* So that it is the front of the other, of its own length.
LEMMA BeginsTo ==
    ASSUME NEW s \in Seq(Ids), NEW t \in Seq(Ids), Begins(s, t)
    PROVE  SubSeq(t, 1, Len(s)) = s
<1>1. Len(s) \in Nat /\ Len(t) \in Nat
  BY LenProperties
<1>2. Len(s) <= Len(t) /\ \A k \in 1..Len(s) : s[k] = t[k]
  BY DEF Begins
<1>3. \A k \in 1..Len(s) : t[k] \in Ids
  BY <1>1, <1>2, ElementOfSeq
<1>4. /\ SubSeq(t, 1, Len(s)) \in Seq(Ids)
      /\ Len(SubSeq(t, 1, Len(s))) = IF 1 <= Len(s) THEN Len(s) - 1 + 1 ELSE 0
      /\ \A k \in 1..(Len(s) - 1 + 1) : SubSeq(t, 1, Len(s))[k] = t[1 + k - 1]
  BY <1>1, <1>3, SubSeqProperties
<1>5. Len(SubSeq(t, 1, Len(s))) = Len(s)
  BY <1>1, <1>4
<1>6. \A k \in 1..Len(s) : SubSeq(t, 1, Len(s))[k] = s[k]
  BY <1>1, <1>2, <1>4
<1> QED
  BY <1>1, <1>4, <1>5, <1>6, SeqEqual

\* The places in the queue whose update carries the text itself.
Carries(sv, q) == {k \in 1..Len(q) : RustEngine /\ sv[q[k]].node}
Carried(sv, q, k) == sv[q[k]].doc.content

\* The stored text, the texts that wait to be stored, in their turn, and the live text
\* begin one another.
TextGrows(s, sv, q, r) ==
    /\ Begins(r.content, s.node)
    /\ ~RustEngine => Begins(r.content, s.doc.content) /\ Begins(s.doc.content, s.node)
    /\ \A k \in Carries(sv, q) :
        /\ Begins(r.content, Carried(sv, q, k)) /\ Begins(Carried(sv, q, k), s.node)
        /\ \A j \in Carries(sv, q) : k <= j => Begins(Carried(sv, q, k), Carried(sv, q, j))

\* What a save in the queue will write as the version, and what will be the stored one
\* when the queue has been worked off.
Writes(s, sv, c) == IF RustEngine /\ sv[c].node THEN sv[c].doc.version ELSE s.doc.version
WillStore(s, sv, q, r) == IF q = <<>> THEN r.version ELSE Writes(s, sv, q[Len(q)])

\* No version is due that will not be stored.
NoneDue(from, to) == \A v \in 1..to : from < v => ~IsDue(v)
DueSaved(s, sv, q, r) ==
    /\ s.saved <= s.doc.version
    /\ NoneDue(WillStore(s, sv, q, r), s.doc.version)

Grows == registry # None => TextGrows(sessions[registry], saving, queue, row)
Due == registry # None => DueSaved(sessions[registry], saving, queue, row)
NoSidecar == \A c \in Conns : at[c] # "sidecar"

\* What the queue carries, of the right types.
LEMMA SaveTypes ==
    ASSUME TypeInv, registry # None
    PROVE  /\ row.content \in Seq(Ids) /\ row.version \in Nat
           /\ sessions[registry].node \in Seq(Ids) /\ sessions[registry].doc.content \in Seq(Ids)
           /\ sessions[registry].doc.version \in Nat /\ sessions[registry].saved \in Nat
           /\ queue \in Seq(Conns) /\ Len(queue) \in Nat
           /\ \A x \in Conns : /\ saving[x].doc.version \in Nat
                               /\ saving[x].doc.content \in Seq(Ids)
           /\ \A k \in 1..Len(queue) : queue[k] \in Conns
<1>1. sessions[registry] \in Session
  BY Registered
<1>2. queue \in Seq(Conns)
  BY DEF TypeInv, TypeOK
<1>3. \A k \in 1..Len(queue) : queue[k] \in Conns
  BY <1>2, ElementOfSeq
<1>4. \A x \in Conns : saving[x] \in Save /\ saving[x].doc \in Doc
  BY DEF TypeInv, TypeOK, Save
<1> QED
  BY <1>1, <1>2, <1>3, <1>4, LenProperties DEF TypeInv, TypeOK, Session, Doc

\* A save is submitted: it carries the live text and version.
LEMMA GrowsStarted ==
    ASSUME TypeInv, NEW c \in Conns, NEW ss \in Seq(Session), registry \in 1..Len(ss),
           NEW sv \in [Conns -> Save], NEW then \in Reasons, StartSave(c, ss, sv, then),
           row' = row, registry' = registry,
           \A k \in 1..Len(queue) : queue[k] # c,
           TextGrows(ss[registry], sv, queue, row)
    PROVE  TextGrows(sessions'[registry], saving', queue', row')
<1> DEFINE s == ss[registry]
           t == sessions'[registry]
<1>1. s.node \in Seq(Ids) /\ s.doc.content \in Seq(Ids) /\ row.content \in Seq(Ids)
  <2>1. s \in Session
    BY ElementOfSeq
  <2> QED
    BY <2>1 DEF Session, Doc, TypeInv, TypeOK
<1>2. /\ t.node = s.node
      /\ t.doc.content = IF ~RustEngine /\ s.dirty THEN s.node ELSE s.doc.content
      /\ \A x \in Conns \ {c} : saving'[x] = sv[x]
      /\ saving'[c].node = s.dirty
      /\ s.dirty => saving'[c].doc.content = s.node
      /\ queue \in Seq(Conns) /\ queue' = Append(queue, c)
  BY Submitted
<1> HIDE DEF s, t
<1>3. /\ Len(queue') = Len(queue) + 1 /\ Len(queue) \in Nat /\ queue'[Len(queue) + 1] = c
      /\ \A k \in 1..Len(queue) : queue'[k] = queue[k] /\ queue[k] \in Conns \ {c}
  BY <1>2, AppendProperties, LenProperties, ElementOfSeq
<1>4. TextGrows(s, sv, queue, row)
  BY DEF s
<1>5. ASSUME NEW k \in Carries(saving', queue')
      PROVE  \/ k \in Carries(sv, queue) /\ Carried(saving', queue', k) = Carried(sv, queue, k)
                /\ k # Len(queue) + 1
             \/ k = Len(queue) + 1 /\ Carried(saving', queue', k) = s.node
  <2>1. CASE k \in 1..Len(queue)
    BY <1>2, <1>3, <2>1 DEF Carries, Carried
  <2>2. CASE k = Len(queue) + 1
    BY <1>2, <1>3, <2>2 DEF Carries, Carried
  <2> QED
    BY <1>3, <2>1, <2>2 DEF Carries
<1>6. ASSUME NEW k \in Carries(saving', queue')
      PROVE  /\ Begins(row.content, Carried(saving', queue', k))
             /\ Begins(Carried(saving', queue', k), s.node)
  BY <1>1, <1>4, <1>5, BeginsItself DEF TextGrows
<1>7. ASSUME NEW k \in Carries(saving', queue'), NEW j \in Carries(saving', queue'), k <= j
      PROVE  Begins(Carried(saving', queue', k), Carried(saving', queue', j))
  <2>1. CASE j = Len(queue) + 1
    BY <1>5, <1>6, <2>1
  <2>2. CASE j # Len(queue) + 1
    <3>1. j \in 1..Len(queue) /\ k # Len(queue) + 1
      BY <1>3, <1>5, <1>7, <2>2 DEF Carries
    <3> QED
      BY <1>4, <1>5, <1>7, <2>2, <3>1 DEF TextGrows
  <2> QED
    BY <2>1, <2>2
<1>8. ~RustEngine => Begins(row.content, t.doc.content) /\ Begins(t.doc.content, s.node)
  BY <1>1, <1>2, <1>4, BeginsItself DEF TextGrows
<1>9. TextGrows(t, saving', queue', row')
  BY <1>2, <1>4, <1>6, <1>7, <1>8 DEF TextGrows
<1> QED
  BY <1>9 DEF t

LEMMA DueStarted ==
    ASSUME TypeInv, NEW c \in Conns, NEW ss \in Seq(Session), registry \in 1..Len(ss),
           NEW sv \in [Conns -> Save], NEW then \in Reasons, StartSave(c, ss, sv, then),
           ss[registry].saved <= ss[registry].doc.version
    PROVE  DueSaved(sessions'[registry], saving', queue', row')
<1> DEFINE s == ss[registry]
           t == sessions'[registry]
<1>1. s.doc.version \in Nat
  <2>1. s \in Session
    BY ElementOfSeq
  <2> QED
    BY <2>1 DEF Session, Doc
<1>2. /\ t.saved = s.saved /\ t.doc.version = s.doc.version
      /\ saving'[c].doc.version = s.doc.version
      /\ queue \in Seq(Conns) /\ queue' = Append(queue, c)
  BY Submitted
<1>3. queue' # <<>> /\ queue'[Len(queue')] = c
  <2>1. Len(queue') = Len(queue) + 1 /\ Len(queue) \in Nat /\ queue'[Len(queue) + 1] = c
    BY <1>2, AppendProperties, LenProperties
  <2>2. Len(queue') # 0
    BY <2>1
  <2> QED
    BY <2>1, <2>2
<1> HIDE DEF s, t
<1>4. WillStore(t, saving', queue', row') = t.doc.version
  BY <1>2, <1>3 DEF WillStore, Writes
<1>5. NoneDue(t.doc.version, t.doc.version)
  BY <1>1, <1>2 DEF NoneDue
<1>6. DueSaved(t, saving', queue', row')
  BY <1>2, <1>4, <1>5 DEF DueSaved, s
<1> QED
  BY <1>6 DEF t

\* Nobody is in the queue who is not waiting.
LEMMA NotQueued ==
    ASSUME QueueWaits, NEW c, at[c] # "saving"
    PROVE  \A k \in 1..Len(queue) : queue[k] # c
BY DEF QueueWaits

LEMMA GrowsEnded ==
    ASSUME TypeInv, Team, NEW c \in Conns, at[c] # "saving",
           NEW ss \in Seq(Session), registry \in 1..Len(ss),
           NEW sv \in [Conns -> Save], NEW then \in Reasons, Ended(c, ss, sv, then),
           row' = row, TextGrows(ss[registry], sv, queue, row)
    PROVE  Grows'
<1>1. CASE StartSave(c, ss, sv, then)
  <2>1. \A k \in 1..Len(queue) : queue[k] # c
    BY NotQueued DEF Team
  <2> QED
    BY <1>1, <2>1, GrowsStarted DEF Ended, Grows
<1>2. CASE sessions' = ss /\ saving' = sv /\ queue' = queue
  BY <1>2 DEF Ended, Grows
<1> QED
  BY <1>1, <1>2 DEF Ended

\* The session and the saves once a diff is taken: the live text may be longer.
LEMMA GrowsTaken ==
    ASSUME TypeInv, Grows, registry # None, NEW diff \in Diff
    PROVE  TextGrows(Taken(registry, diff)[registry], Aliased(registry, diff), queue, row)
<1> DEFINE s == sessions[registry]
           t == Taken(registry, diff)[registry]
           sv == Aliased(registry, diff)
<1>1. /\ row.content \in Seq(Ids) /\ s.node \in Seq(Ids) /\ s.doc.content \in Seq(Ids)
      /\ \A k \in 1..Len(queue) : queue[k] \in Conns
      /\ \A x \in Conns : saving[x].doc.content \in Seq(Ids)
  BY SaveTypes
<1>2. t.doc.content = s.doc.content /\ (t.node = s.node \/ t.node = Append(s.node, diff.id))
  <2>1. s \in Session /\ registry \in 1..Len(sessions)
    BY Registered
  <2>2. t = Accepted(s, diff)
    BY <2>1, TakenSessions
  <2> HIDE DEF s, t
  <2> QED
    BY <2>1, <2>2 DEF Accepted, Session, Doc
<1>3. \A x \in Conns : sv[x].node = saving[x].node /\ sv[x].doc.content = saving[x].doc.content
  BY DEF Aliased, TypeInv, TypeOK, Save, Doc
<1>4. TextGrows(s, saving, queue, row)
  BY DEF Grows
<1>5. diff.id \in Ids
  BY DEF Diff
<1> HIDE DEF s, t, sv
<1>6. t.node \in Seq(Ids) /\ Begins(s.node, t.node)
  BY <1>1, <1>2, <1>5, BeginsMore, BeginsItself
<1>7. /\ Carries(sv, queue) = Carries(saving, queue)
      /\ \A k \in Carries(saving, queue) :
            /\ Carried(sv, queue, k) = Carried(saving, queue, k)
            /\ Carried(saving, queue, k) \in Seq(Ids)
  BY <1>1, <1>3 DEF Carries, Carried
<1>8. Begins(row.content, t.node)
  BY <1>1, <1>4, <1>6, BeginsOn DEF TextGrows
<1>9. ~RustEngine => Begins(row.content, t.doc.content) /\ Begins(t.doc.content, t.node)
  BY <1>1, <1>2, <1>4, <1>6, BeginsOn DEF TextGrows
<1>10. \A k \in Carries(saving, queue) : Begins(Carried(saving, queue, k), t.node)
  BY <1>1, <1>4, <1>6, <1>7, BeginsOn DEF TextGrows
<1>11. TextGrows(t, sv, queue, row)
  BY <1>4, <1>7, <1>8, <1>9, <1>10 DEF TextGrows
<1> QED
  BY <1>11 DEF t, sv

\* Writing the row makes the stored text no shorter, and the queue goes on from there.
LEMMA GrowsWriteRow ==
    ASSUME TypeInv, Served, Team, Grows, NEW c \in Conns, WriteRow(c)
    PROVE  Grows' /\ Begins(row.content, row'.content)
<1> DEFINE s == sessions[registry]
<1>1. /\ UNCHANGED <<registry, sessions, saving>> /\ registry # None
      /\ saving[c].session = registry /\ ~s.dead
  BY TeamWriteRow, InRegistered DEF WriteRow, InSession, Team, Attended
<1>2. /\ row.content \in Seq(Ids) /\ s.node \in Seq(Ids) /\ s.doc.content \in Seq(Ids)
      /\ \A k \in 1..Len(queue) : queue[k] \in Conns
      /\ \A x \in Conns : saving[x].doc.content \in Seq(Ids)
  BY <1>1, SaveTypes
<1>3. /\ Len(queue) \in Nat \ {0} /\ queue[1] = c /\ Len(queue') = Len(queue) - 1
      /\ \A k \in 1..Len(queue') : queue'[k] = queue[k + 1] /\ k + 1 \in 1..Len(queue)
  BY QueueShorter DEF Team
<1>4. TextGrows(s, saving, queue, row)
  BY <1>1 DEF Grows
<1>5. \/ /\ RustEngine /\ saving[c].node
         /\ row'.content = saving[c].doc.content
      \/ /\ ~(RustEngine /\ saving[c].node)
         /\ row'.content = IF RustEngine THEN row.content ELSE s.doc.content
  <2>1. saving[c].doc \in Doc /\ s.doc \in Doc
    BY <1>1, Registered DEF TypeInv, TypeOK, Save, Session
  <2>2. \/ /\ RustEngine /\ saving[c].node
           /\ row' = [saving[c].doc EXCEPT !.blank = FALSE]
        \/ /\ ~(RustEngine /\ saving[c].node)
           /\ row' = [s.doc EXCEPT !.content = KeptContent(s),
                                   !.blank = IF RustEngine THEN row.blank ELSE FALSE]
    BY <1>1 DEF WriteRow
  <2> HIDE DEF s
  <2> QED
    BY <2>1, <2>2 DEF Doc, KeptContent
<1> HIDE DEF s
<1>6. ASSUME NEW k \in Carries(saving, queue')
      PROVE  /\ k + 1 \in Carries(saving, queue)
             /\ Carried(saving, queue', k) = Carried(saving, queue, k + 1)
             /\ Carried(saving, queue, k + 1) \in Seq(Ids)
             /\ k \in Nat /\ 1 <= k + 1
  <2>1. k \in 1..Len(queue')
    BY DEF Carries
  <2> QED
    BY <1>2, <1>3, <2>1 DEF Carries, Carried
<1>7. CASE RustEngine /\ saving[c].node
  <2>1. 1 \in Carries(saving, queue) /\ Carried(saving, queue, 1) = row'.content
    BY <1>3, <1>5, <1>7 DEF Carries, Carried
  <2>2. \A k \in Carries(saving, queue') : Begins(row'.content, Carried(saving, queue', k))
    BY <1>4, <1>6, <2>1 DEF TextGrows
  <2>3. ASSUME NEW k \in Carries(saving, queue'), NEW j \in Carries(saving, queue'), k <= j
        PROVE  Begins(Carried(saving, queue', k), Carried(saving, queue', j))
    <3>1. k + 1 <= j + 1
      BY <1>6, <2>3
    <3> QED
      BY <1>4, <1>6, <3>1 DEF TextGrows
  <2>4. TextGrows(s, saving, queue', row')
    BY <1>4, <1>6, <1>7, <2>1, <2>2, <2>3 DEF TextGrows
  <2> QED
    BY <1>1, <1>4, <2>1, <2>4 DEF Grows, TextGrows, s
<1>8. CASE RustEngine /\ ~saving[c].node
  <2>1. row'.content = row.content
    BY <1>5, <1>8
  <2>2. ASSUME NEW k \in Carries(saving, queue'), NEW j \in Carries(saving, queue'), k <= j
        PROVE  Begins(Carried(saving, queue', k), Carried(saving, queue', j))
    <3>1. k + 1 <= j + 1
      BY <1>6, <2>2
    <3> QED
      BY <1>4, <1>6, <3>1 DEF TextGrows
  <2>3. TextGrows(s, saving, queue', row')
    BY <1>4, <1>6, <1>8, <2>1, <2>2 DEF TextGrows
  <2> QED
    BY <1>1, <1>2, <2>1, <2>3, BeginsItself DEF Grows, s
<1>9. CASE ~RustEngine
  <2>1. row'.content = s.doc.content
    BY <1>5, <1>9
  <2>2. Carries(saving, queue') = {}
    BY <1>9 DEF Carries
  <2>3. TextGrows(s, saving, queue', row')
    BY <1>2, <1>4, <1>9, <2>1, <2>2, BeginsItself DEF TextGrows
  <2> QED
    BY <1>1, <1>4, <1>9, <2>1, <2>3 DEF Grows, TextGrows, s
<1> QED
  BY <1>7, <1>8, <1>9

\* Opening the session: nothing waits, and the session has the row as it is.
LEMMA TeamOpened ==
    ASSUME TypeInv, Team, NEW c \in Conns, OpenSession(c)
    PROVE  /\ registry' # None /\ UNCHANGED <<row, saving, queue>> /\ queue = <<>>
           /\ sessions'[registry'].doc = row /\ sessions'[registry'].node = row.content
           /\ sessions'[registry'].saved = row.version
           /\ sessions'[registry'].dirty = FALSE /\ at[c] = "read"
<1> DEFINE e == [doc |-> loaded[c], node |-> loaded[c].content, dirty |-> FALSE,
                 saved |-> loaded[c].version, parts |-> {c}, dead |-> FALSE,
                 opened |-> loaded[c].version]
<1>1. /\ at[c] = "read" /\ ~ServedAlready
      /\ sessions' = Append(sessions, e) /\ registry' = Len(sessions')
      /\ UNCHANGED <<row, saving, queue>>
  BY DEF OpenSession, Team, Initialised
<1>2. registry = None
  BY <1>1 DEF ServedAlready, Team, Attended
<1>3. loaded[c] = row
  BY <1>1, <1>2 DEF Team, Initialised
<1>4. e \in Session
  BY DEF Session, TypeInv, TypeOK, Doc
<1>5. e.doc = row /\ e.node = row.content /\ e.saved = row.version /\ e.dirty = FALSE
  BY <1>3
<1> HIDE DEF e
<1>6. sessions'[registry'] = e /\ registry' # None
  <2>1. /\ Len(sessions') = Len(sessions) + 1 /\ Len(sessions) \in Nat
        /\ sessions'[Len(sessions) + 1] = e
    BY <1>1, <1>4, AppendProperties, LenProperties DEF TypeInv, TypeOK
  <2> QED
    BY <1>1, <2>1 DEF None
<1>7. queue = <<>>
  <2>1. queue \in Seq(Conns)
    BY DEF TypeInv, TypeOK
  <2>2. ASSUME queue # <<>> PROVE FALSE
    <3>1. 1 \in 1..Len(queue) /\ queue[1] \in Conns
      BY <2>1, <2>2, EmptySeq, LenProperties, ElementOfSeq
    <3>2. at[queue[1]] \in InSession
      BY <3>1 DEF Team, QueueWaits, InSession
    <3> QED
      BY <1>2, <3>1, <3>2, InRegistered
  <2> QED
    BY <2>2
<1> QED
  BY <1>1, <1>5, <1>6, <1>7

\* Joining and leaving: only the participants change.
LEMMA TeamJoinedOrLeft ==
    ASSUME LastStays, TypeInv, Team, NEW c \in Conns, JoinSession(c) \/ Disconnect(c)
    PROVE  /\ registry # None /\ UNCHANGED <<row, registry, saving, queue>>
           /\ sessions'[registry].doc = sessions[registry].doc
           /\ sessions'[registry].node = sessions[registry].node
           /\ sessions'[registry].saved = sessions[registry].saved
           /\ sessions'[registry].dirty = sessions[registry].dirty
           /\ at'[c] \in {"joined", "closed"} /\ \A x \in Conns \ {c} : at'[x] = at[x]
<1>1. CASE JoinSession(c)
  <2>1. /\ registry # None /\ UNCHANGED <<row, registry, saving, queue>>
        /\ sessions' = [sessions EXCEPT ![registry].parts = @ \cup {c}]
        /\ at' = [at EXCEPT ![c] = "joined"]
    BY <1>1 DEF JoinSession, ServedAlready
  <2>2. /\ registry \in 1..Len(sessions) /\ sessions \in Seq(Session)
        /\ sessions[registry] \in Session
    BY <2>1, Registered
  <2> QED
    BY <2>1, <2>2 DEF Session, TypeInv, TypeOK
<1>2. CASE Disconnect(c)
  <2>1. /\ registry # None /\ ref[c] = registry /\ UNCHANGED <<row, registry, saving, queue>>
        /\ sessions' = Without(c) /\ at' = [at EXCEPT ![c] = "closed"]
    BY <1>2, TeamDisconnect
  <2>2. /\ registry \in 1..Len(sessions) /\ sessions \in Seq(Session)
        /\ sessions[registry] \in Session
    BY <2>1, Registered
  <2> QED
    BY <2>1, <2>2 DEF Without, Session, TypeInv, TypeOK
<1> QED
  BY <1>1, <1>2

\* Handlers that leave the sessions and the saves alone.
Aside(c) ==
    \/ ReadDoc(c) \/ Reconcile(c) \/ ReceiveDiff(c) \/ DropDiff(c) \/ Fail(c)

LEMMA TeamAside ==
    ASSUME TypeInv, NEW c \in Conns, Aside(c)
    PROVE  /\ UNCHANGED <<row, registry, sessions, saving, queue>>
           /\ at'[c] # "sidecar" /\ \A x \in Conns \ {c} : at'[x] = at[x]
BY DEF Aside, ReadDoc, Reconcile, ReceiveDiff, DropDiff, Fail, TypeInv, TypeOK

\* The registered session once a save is noted.
LEMMA TeamNoted ==
    ASSUME TypeInv, registry # None
    PROVE  /\ Noted(registry)[registry].doc = sessions[registry].doc
           /\ Noted(registry)[registry].node = sessions[registry].node
           /\ Noted(registry)[registry].saved = sessions[registry].doc.version
           /\ Noted(registry)[registry].dirty = FALSE
<1>1. /\ registry \in 1..Len(sessions) /\ sessions \in Seq(Session)
      /\ sessions[registry] \in Session
  BY Registered
<1> QED
  BY <1>1 DEF Noted, Session

LEMMA GrowsStep ==
    ASSUME LastStays, TypeInv, Served, Team, Grows, [Next]_vars
    PROVE  Grows' /\ Begins(row.content, row'.content)
<1>0. row.content \in Seq(Ids)
  BY DEF TypeInv, TypeOK, Doc
<1>1. CASE UNCHANGED vars
  BY <1>0, <1>1, BeginsItself DEF vars, Grows
<1>2. CASE Crash \/ Shutdown
  <2>1. Grows'
    BY <1>2 DEF Crash, Shutdown, Flushed, Stop, Grows
  <2>2. CASE row' = row
    BY <1>0, <2>1, <2>2, BeginsItself
  <2>3. CASE Shutdown /\ SaveNeeded(sessions)
    <3> DEFINE s == sessions[registry]
    <3>1. registry # None /\ s.doc \in Doc
      BY <2>3, Registered DEF SaveNeeded, Session
    <3>2. row' = [s.doc EXCEPT !.content = IF s.dirty THEN s.node ELSE KeptContent(s)]
      BY <2>3 DEF Shutdown, Flushed
    <3>3. TextGrows(s, saving, queue, row)
      BY <3>1 DEF Grows
    <3> HIDE DEF s
    <3>4. row'.content = IF s.dirty THEN s.node
                         ELSE IF RustEngine THEN row.content ELSE s.doc.content
      BY <3>1, <3>2 DEF Doc, KeptContent
    <3>5. CASE s.dirty
      BY <2>1, <3>3, <3>4, <3>5 DEF TextGrows
    <3>6. CASE ~s.dirty /\ RustEngine
      BY <1>0, <2>1, <3>4, <3>6, BeginsItself
    <3>7. CASE ~s.dirty /\ ~RustEngine
      BY <2>1, <3>3, <3>4, <3>7 DEF TextGrows
    <3> QED
      BY <3>5, <3>6, <3>7
  <2> QED
    BY <1>2, <2>2, <2>3 DEF Crash, Shutdown, Flushed
<1>3. ASSUME NEW c \in Conns, Aside(c)
      PROVE  Grows' /\ row' = row
  BY <1>3, TeamAside DEF Grows
<1>4. ASSUME NEW c \in Conns, OpenSession(c)
      PROVE  Grows' /\ row' = row
  <2>1. Carries(saving', queue') = {}
    <3>1. queue' = <<>>
      BY <1>4, TeamOpened
    <3>2. 1..Len(queue') = {}
      BY <3>1
    <3> QED
      BY <3>2 DEF Carries
  <2> QED
    BY <1>0, <1>4, <2>1, TeamOpened, BeginsItself DEF Grows, TextGrows
<1>5. ASSUME NEW c \in Conns, JoinSession(c) \/ Disconnect(c)
      PROVE  Grows' /\ row' = row
  BY <1>5, TeamJoinedOrLeft DEF Grows, TextGrows
<1>6. ASSUME NEW c \in Conns, Unfixable(c) \/ RefuseDiff(c) \/ AfterSidecar(c)
      PROVE  Grows' /\ row' = row
  <2>1. at[c] \in InSession \ {"saving"}
    BY <1>6 DEF Unfixable, RefuseDiff, AfterSidecar, InSession
  <2>2. registry # None /\ registry \in 1..Len(sessions) /\ sessions \in Seq(Session)
    BY <2>1, InRegistered, Registered
  <2>3. saving \in [Conns -> Save]
    BY DEF TypeInv, TypeOK
  <2>4. row' = row /\ \E then \in Reasons \ {"cleanup"} : Ended(c, sessions, saving, then)
    BY <1>6, TeamMessage
  <2> QED
    BY <2>1, <2>2, <2>3, <2>4, GrowsEnded DEF Grows
<1>7. ASSUME NEW c \in Conns, FinishSave(c)
      PROVE  Grows' /\ row' = row
  <2>1. /\ at[c] = "wrote" /\ sessions' = Noted(registry) /\ saving' = Forgotten(c)
        /\ UNCHANGED <<row, queue, registry>>
    BY <1>7, TeamFinishSave
  <2>2. registry # None
    BY <2>1, InRegistered DEF InSession
  <2>3. \A k \in 1..Len(queue) : queue[k] \in Conns /\ saving'[queue[k]] = saving[queue[k]]
    <3>1. \A k \in 1..Len(queue) : queue[k] # c /\ queue[k] \in Conns
      BY <2>1, <2>2, NotQueued, SaveTypes DEF Team
    <3> QED
      BY <2>1, <3>1 DEF Forgotten
  <2>4. /\ Carries(saving', queue') = Carries(saving, queue)
        /\ \A k \in Carries(saving, queue) : Carried(saving', queue', k) = Carried(saving, queue, k)
    BY <2>1, <2>3 DEF Carries, Carried
  <2> QED
    BY <2>1, <2>2, <2>4, TeamNoted DEF Grows, TextGrows
<1>8. ASSUME NEW c \in Conns, AcceptDiff(c)
      PROVE  Grows' /\ row' = row
  <2>1. /\ registry \in 1..Len(sessions) /\ ref[c] = registry /\ at[c] = "authorizing"
        /\ UNCHANGED <<row, registry>>
    BY <1>8, TeamAcceptDiff
  <2>2. PICK diff \in Diff : Taking(c, diff)
    BY <1>8, TeamAcceptDiff
  <2> DEFINE ss == Taken(registry, diff)
             sv == Aliased(registry, diff)
             m == IF diff.steps THEN nextId ELSE None
  <2>3. registry # None
    BY <2>1 DEF None
  <2>4. TextGrows(ss[registry], sv, queue, row)
    BY <2>3, GrowsTaken
  <2>5. \/ sessions' = ss /\ saving' = sv /\ UNCHANGED queue
        \/ SaveIfDue(c, ss, sv, m)
    BY <2>1, <2>2 DEF Taking, Taken
  <2>6. ss \in Seq(Session) /\ registry \in 1..Len(ss) /\ sv \in [Conns -> Save]
    BY <2>1, TakenSessions, AliasedSaves DEF TypeInv
  <2> HIDE DEF ss, sv, m
  <2>7. CASE sessions' = ss /\ saving' = sv /\ UNCHANGED queue
    BY <2>1, <2>4, <2>7 DEF Grows
  <2>8. CASE SaveIfDue(c, ss, sv, m)
    <3>1. Ended(c, ss, sv, "announce") /\ "announce" \in Reasons
      BY <2>8, DueEnded DEF Reasons
    <3> QED
      BY <2>1, <2>4, <2>6, <3>1, GrowsEnded
  <2> QED
    BY <2>5, <2>7, <2>8
<1>9. ASSUME NEW c \in Conns, StartInit(c) \/ WriteInit(c)
      PROVE  FALSE
  BY <1>9 DEF StartInit, WriteInit, Team, Initialised
<1>10. ASSUME NEW c \in Conns, WriteRow(c)
       PROVE  Grows' /\ Begins(row.content, row'.content)
  BY <1>10, GrowsWriteRow
<1>11. row' = row => Begins(row.content, row'.content)
  BY <1>0, BeginsItself
<1> QED
  BY <1>1, <1>2, <1>3, <1>4, <1>5, <1>6, <1>7, <1>8, <1>9, <1>10, <1>11 DEF Next, Progress, Aside

\* While the last participant stays, several saves may wait for the database thread and
\* be overtaken by edits, by failures and by the end of the process: the stored text is
\* only ever replaced by one that it begins.
THEOREM TextNeverRegressesCorrect ==
    ASSUME LastStays, ~BlankRow
    PROVE  Spec => TextNeverRegresses
<1>1. Init => Grows
  BY DEF Init, Grows
<1>2. TypeInv /\ Served /\ Team /\ Grows /\ [Next]_vars => Grows'
  BY GrowsStep
<1>3. TypeInv /\ TypeInv' /\ Served /\ Team /\ Grows /\ [Next]_vars =>
        [/\ Len(row'.content) >= Len(row.content)
         /\ SubSeq(row'.content, 1, Len(row.content)) = row.content]_row
  <2> SUFFICES ASSUME TypeInv, TypeInv', Served, Team, Grows, [Next]_vars
               PROVE  /\ Len(row'.content) >= Len(row.content)
                      /\ SubSeq(row'.content, 1, Len(row.content)) = row.content
    OBVIOUS
  <2> DEFINE s == row.content
             t == row'.content
  <2>1. s \in Seq(Ids) /\ t \in Seq(Ids) /\ Len(s) \in Nat /\ Len(t) \in Nat
    BY LenProperties DEF TypeInv, TypeOK, Doc
  <2>2. Begins(s, t)
    BY GrowsStep
  <2> HIDE DEF s, t
  <2>3. Len(s) <= Len(t) /\ \A k \in 1..Len(s) : s[k] = t[k]
    BY <2>2 DEF Begins
  <2>4. SubSeq(t, 1, Len(s)) = s
    BY <2>1, <2>2, BeginsTo
  <2> QED
    BY <2>1, <2>3, <2>4 DEF s, t
<1> QED
  BY <1>1, <1>2, <1>3, TypeInvariant, ServedInvariant, TeamInvariant, PTL
     DEF Spec, TextNeverRegresses

LEMMA DueEndedInv ==
    ASSUME TypeInv, NEW c \in Conns,
           NEW ss \in Seq(Session), registry \in 1..Len(ss),
           NEW sv \in [Conns -> Save], NEW then \in Reasons, Ended(c, ss, sv, then),
           row' = row, ss[registry].saved <= ss[registry].doc.version,
           StartSave(c, ss, sv, then) \/ DueSaved(ss[registry], sv, queue, row)
    PROVE  Due'
<1>1. CASE StartSave(c, ss, sv, then)
  BY <1>1, DueStarted DEF Ended, Due
<1>2. CASE sessions' = ss /\ saving' = sv /\ queue' = queue /\ ~StartSave(c, ss, sv, then)
  BY <1>2 DEF Ended, Due
<1> QED
  BY <1>1, <1>2 DEF Ended

\* A diff that makes the version a due one has it saved.
LEMMA DueAcceptDiff ==
    ASSUME TypeInv, Team, Due, ~Sidecars, NEW c \in Conns, AcceptDiff(c)
    PROVE  Due' /\ at'[c] # "sidecar"
<1>1. PICK pv \in 0..MaxDiffs, steps \in BOOLEAN, sidecar \in {FALSE, Sidecars} :
        LET n == ref[c]
            diff == [v |-> pv, id |-> nextId, steps |-> steps]
            ss == [sessions EXCEPT ![n] = Accepted(@, diff)]
            sv == Aliased(n, diff)
            m == IF steps THEN nextId ELSE None
        IN  /\ IsCurrent(pv, sessions[n].doc)
            /\ IF sidecar
               THEN /\ sessions' = ss
                    /\ saving' = sv
                    /\ at' = [at EXCEPT ![c] = "sidecar"]
                    /\ msg' = [msg EXCEPT ![c] = m]
                    /\ UNCHANGED <<registry, queue, confirmed>>
               ELSE SaveIfDue(c, ss, sv, m)
  BY DEF AcceptDiff
<1>2. /\ registry \in 1..Len(sessions) /\ ref[c] = registry /\ at[c] = "authorizing"
      /\ UNCHANGED <<row, registry>> /\ registry # None
  BY TeamAcceptDiff, LenProperties DEF None
<1> DEFINE diff == [v |-> pv, id |-> nextId, steps |-> steps]
           ss == Taken(registry, diff)
           sv == Aliased(registry, diff)
           m == IF steps THEN nextId ELSE None
           s == sessions[registry]
           t == ss[registry]
<1>3. diff \in Diff
  BY BoundAssumption DEF Diff, TypeInv, TypeOK
<1>4. ~sidecar
  OBVIOUS
<1>5. SaveIfDue(c, ss, sv, m)
  BY <1>1, <1>2, <1>4 DEF Taken
<1>6. ss \in Seq(Session) /\ registry \in 1..Len(ss) /\ sv \in [Conns -> Save]
  BY <1>2, <1>3, TakenSessions, AliasedSaves DEF TypeInv
<1>7. t.saved = s.saved /\ t.doc.version = s.doc.version + 1
  <2>1. s \in Session /\ t = Accepted(s, diff)
    BY <1>2, <1>3, Registered, TakenSessions
  <2> HIDE DEF s, t, diff
  <2> QED
    BY <2>1 DEF Accepted, Session, Doc
<1>8. \A x \in Conns : sv[x].node = saving[x].node /\ sv[x].doc.version = saving[x].doc.version
  BY DEF Aliased, TypeInv, TypeOK, Save, Doc
<1>9. /\ s.saved \in Nat /\ s.doc.version \in Nat /\ row.version \in Nat /\ Len(queue) \in Nat
      /\ queue \in Seq(Conns)
      /\ \A k \in 1..Len(queue) : queue[k] \in Conns
      /\ \A x \in Conns : saving[x].doc.version \in Nat
  BY <1>2, SaveTypes
<1>10. DueSaved(s, saving, queue, row)
  BY <1>2 DEF Due
<1> HIDE DEF diff, ss, sv, m, s, t
<1>11. t.saved < t.doc.version /\ t.saved <= t.doc.version /\ t.doc.version \in Nat
  BY <1>7, <1>9, <1>10 DEF DueSaved
<1>12. Ended(c, ss, sv, "announce") /\ "announce" \in Reasons
  BY <1>5, DueEnded DEF Reasons
<1>13. at'[c] # "sidecar"
  BY <1>2, <1>12 DEF Ended, StartSave, TypeInv, TypeOK
<1>14. CASE IsDue(t.doc.version)
  <2>1. SaveNeeded(ss)
    BY <1>2, <1>7, <1>9, <1>11 DEF SaveNeeded, t
  <2>2. StartSave(c, ss, sv, "announce")
    BY <1>2, <1>5, <1>14, <2>1, DueEnded DEF t
  <2>3. ss[registry].saved <= ss[registry].doc.version /\ row' = row
    BY <1>2, <1>11 DEF t
  <2> QED
    BY <1>6, <1>12, <1>13, <2>2, <2>3, DueEndedInv
<1>15. CASE ~IsDue(t.doc.version)
  <2> DEFINE w == WillStore(s, saving, queue, row)
             u == WillStore(t, sv, queue, row)
  <2>1. w \in Nat /\ u \in Nat /\ (u = w \/ u = t.doc.version)
    <3>1. CASE queue = <<>>
      BY <1>9, <3>1 DEF WillStore
    <3>2. CASE queue # <<>>
      <4>1. Len(queue) \in 1..Len(queue)
        BY <1>9, <3>2, EmptySeq
      <4>2. queue[Len(queue)] \in Conns
        BY <1>9, <4>1
      <4> QED
        BY <1>7, <1>8, <1>9, <3>2, <4>2 DEF WillStore, Writes
    <3> QED
      BY <3>1, <3>2
  <2>2. NoneDue(w, s.doc.version)
    BY <1>10 DEF DueSaved
  <2> HIDE DEF w, u
  <2>3. NoneDue(u, t.doc.version)
    <3>1. ASSUME NEW v \in 1..t.doc.version, u < v PROVE ~IsDue(v)
      <4>1. CASE v = t.doc.version
        BY <1>15, <4>1
      <4>2. CASE v # t.doc.version
        <5>1. v \in 1..s.doc.version /\ w < v
          <6>1. s.doc.version \in Nat /\ t.doc.version = s.doc.version + 1 /\ v \in Nat
            BY <1>7, <1>9
          <6>2. v \in 1..s.doc.version /\ u # t.doc.version
            BY <2>1, <3>1, <4>2, <6>1
          <6> QED
            BY <2>1, <3>1, <6>2
        <5> QED
          BY <2>2, <5>1 DEF NoneDue
      <4> QED
        BY <4>1, <4>2
    <3> QED
      BY <3>1 DEF NoneDue
  <2>4. DueSaved(t, sv, queue, row)
    BY <1>7, <1>9, <1>11, <2>3 DEF DueSaved, u
  <2>5. /\ ss[registry].saved <= ss[registry].doc.version /\ row' = row
        /\ DueSaved(ss[registry], sv, queue, row)
    BY <1>2, <1>11, <2>4 DEF t
  <2> QED
    BY <1>6, <1>12, <1>13, <2>5, DueEndedInv
<1> QED
  BY <1>14, <1>15

LEMMA DueWriteRow ==
    ASSUME TypeInv, Served, Team, Due, NEW c \in Conns, WriteRow(c)
    PROVE  Due'
<1> DEFINE s == sessions[registry]
<1>1. /\ UNCHANGED <<registry, sessions, saving>> /\ registry # None
      /\ saving[c].session = registry /\ ~s.dead
  BY TeamWriteRow, InRegistered DEF WriteRow, InSession, Team, Attended
<1>2. /\ Len(queue) \in Nat /\ Len(queue) \in Nat \ {0} /\ queue[1] = c
      /\ Len(queue') = Len(queue) - 1 /\ queue' \in Seq(Conns)
      /\ \A k \in 1..Len(queue') : queue'[k] = queue[k + 1] /\ k + 1 \in 1..Len(queue)
  BY QueueShorter DEF Team
<1>3. DueSaved(s, saving, queue, row)
  BY <1>1 DEF Due
<1>4. row'.version = Writes(s, saving, c)
  <2>1. saving[c].doc \in Doc /\ s.doc \in Doc
    BY <1>1, Registered DEF TypeInv, TypeOK, Save, Session
  <2>2. \/ /\ RustEngine /\ saving[c].node
           /\ row' = [saving[c].doc EXCEPT !.blank = FALSE]
        \/ /\ ~(RustEngine /\ saving[c].node)
           /\ row' = [s.doc EXCEPT !.content = KeptContent(s),
                                   !.blank = IF RustEngine THEN row.blank ELSE FALSE]
    BY <1>1 DEF WriteRow
  <2> HIDE DEF s
  <2> QED
    BY <2>1, <2>2 DEF Doc, Writes
<1> HIDE DEF s
<1>5. WillStore(s, saving, queue', row') = WillStore(s, saving, queue, row)
  <2>1. queue # <<>>
    BY <1>2
  <2>2. CASE Len(queue) = 1
    <3>1. queue' = <<>>
      BY <1>2, <2>2, EmptySeq
    <3> QED
      BY <1>2, <1>4, <2>1, <2>2, <3>1 DEF WillStore
  <2>3. CASE Len(queue) # 1
    <3>1. Len(queue') \in 1..Len(queue') /\ Len(queue') + 1 = Len(queue)
      BY <1>2, <2>3
    <3>2. queue' # <<>>
      BY <3>1
    <3>3. queue'[Len(queue')] = queue[Len(queue)]
      BY <1>2, <3>1
    <3> QED
      BY <2>1, <3>2, <3>3 DEF WillStore
  <2> QED
    BY <2>2, <2>3
<1>6. DueSaved(s, saving, queue', row')
  BY <1>3, <1>5 DEF DueSaved
<1> QED
  BY <1>1, <1>6 DEF Due, s

LEMMA DueStep ==
    ASSUME LastStays, ~Sidecars, TypeInv, Served, Team, Due, NoSidecar, [Next]_vars
    PROVE  Due' /\ NoSidecar'
<1>1. CASE UNCHANGED vars
  BY <1>1 DEF vars, Due, NoSidecar
<1>2. CASE Crash \/ Shutdown
  BY <1>2 DEF Crash, Shutdown, Flushed, Stop, Due, NoSidecar, TypeInv, TypeOK
<1>3. ASSUME NEW c \in Conns, Aside(c)
      PROVE  Due' /\ NoSidecar'
  BY <1>3, TeamAside DEF Due, NoSidecar
<1>4. ASSUME NEW c \in Conns, OpenSession(c)
      PROVE  Due' /\ NoSidecar'
  <2>1. NoSidecar'
    BY <1>4 DEF OpenSession, NoSidecar, TypeInv, TypeOK
  <2>2. row.version \in Nat
    BY DEF TypeInv, TypeOK, Doc
  <2> DEFINE s == sessions'[registry']
  <2>3. /\ s.saved = row.version /\ s.doc.version = row.version
        /\ WillStore(s, saving', queue', row') = row.version /\ registry' # None
    BY <1>4, TeamOpened DEF WillStore
  <2> HIDE DEF s
  <2>4. DueSaved(s, saving', queue', row')
    BY <2>2, <2>3 DEF DueSaved, NoneDue
  <2> QED
    BY <2>1, <2>4 DEF Due, s
<1>5. ASSUME NEW c \in Conns, JoinSession(c) \/ Disconnect(c)
      PROVE  Due' /\ NoSidecar'
  BY <1>5, TeamJoinedOrLeft DEF Due, DueSaved, WillStore, Writes, NoSidecar
<1>6. ASSUME NEW c \in Conns, Unfixable(c) \/ RefuseDiff(c) \/ AfterSidecar(c)
      PROVE  Due' /\ NoSidecar'
  <2>1. at[c] \in InSession \ {"saving"}
    BY <1>6 DEF Unfixable, RefuseDiff, AfterSidecar, InSession
  <2>2. registry # None /\ registry \in 1..Len(sessions) /\ sessions \in Seq(Session)
    BY <2>1, InRegistered, Registered
  <2>3. saving \in [Conns -> Save]
    BY DEF TypeInv, TypeOK
  <2>4. PICK then \in Reasons \ {"cleanup"} : Ended(c, sessions, saving, then)
    BY <1>6, TeamMessage
  <2>5. row' = row
    BY <1>6, TeamMessage
  <2>6. Due'
    BY <2>2, <2>3, <2>4, <2>5, DueEndedInv DEF Due, DueSaved
  <2>7. NoSidecar'
    BY <2>4 DEF Ended, StartSave, NoSidecar, TypeInv, TypeOK
  <2> QED
    BY <2>6, <2>7
<1>7. ASSUME NEW c \in Conns, FinishSave(c)
      PROVE  Due' /\ NoSidecar'
  <2>1. /\ at[c] = "wrote" /\ sessions' = Noted(registry) /\ saving' = Forgotten(c)
        /\ UNCHANGED <<row, queue, registry>>
        /\ Ended(c, Noted(registry), Forgotten(c), saving[c].then)
    BY <1>7, TeamFinishSave
  <2>2. registry # None
    BY <2>1, InRegistered DEF InSession
  <2>3. \A k \in 1..Len(queue) : queue[k] \in Conns /\ saving'[queue[k]] = saving[queue[k]]
    <3>1. \A k \in 1..Len(queue) : queue[k] # c /\ queue[k] \in Conns
      BY <2>1, <2>2, NotQueued, SaveTypes DEF Team
    <3> QED
      BY <2>1, <3>1 DEF Forgotten
  <2> DEFINE s == sessions[registry]
             t == sessions'[registry]
  <2>4. t.doc = s.doc /\ t.saved = s.doc.version /\ DueSaved(s, saving, queue, row)
    BY <2>1, <2>2, TeamNoted DEF Due
  <2>5. s.doc.version \in Nat /\ Len(queue) \in Nat /\ queue \in Seq(Conns)
    BY <2>2, SaveTypes
  <2> HIDE DEF s, t
  <2>6. WillStore(t, saving', queue', row') = WillStore(s, saving, queue, row)
    <3>1. CASE queue = <<>>
      BY <2>1, <3>1 DEF WillStore
    <3>2. CASE queue # <<>>
      <4>1. Len(queue) \in 1..Len(queue)
        BY <2>5, <3>2, EmptySeq
      <4> QED
        BY <2>1, <2>3, <2>4, <3>2, <4>1 DEF WillStore, Writes
    <3> QED
      BY <3>1, <3>2
  <2>7. DueSaved(t, saving', queue', row')
    BY <2>4, <2>5, <2>6 DEF DueSaved
  <2>8. NoSidecar'
    BY <2>1 DEF Ended, StartSave, NoSidecar, TypeInv, TypeOK
  <2> QED
    BY <2>1, <2>7, <2>8 DEF Due, t
<1>8. ASSUME NEW c \in Conns, AcceptDiff(c)
      PROVE  Due' /\ NoSidecar'
  <2>1. \A x \in Conns \ {c} : at'[x] = at[x]
    BY <1>8 DEF AcceptDiff, SaveIfDue, StartSave, TypeInv, TypeOK
  <2> QED
    BY <1>8, <2>1, DueAcceptDiff DEF NoSidecar
<1>9. ASSUME NEW c \in Conns, StartInit(c) \/ WriteInit(c)
      PROVE  FALSE
  BY <1>9 DEF StartInit, WriteInit, Team, Initialised
<1>10. ASSUME NEW c \in Conns, WriteRow(c)
       PROVE  Due' /\ NoSidecar'
  <2>1. NoSidecar'
    BY <1>10 DEF WriteRow, NoSidecar, TypeInv, TypeOK
  <2> QED
    BY <1>10, <2>1, DueWriteRow
<1> QED
  BY <1>1, <1>2, <1>3, <1>4, <1>5, <1>6, <1>7, <1>8, <1>9, <1>10 DEF Next, Progress, Aside

\* Among any SaveInterval versions one is due.
LEMMA OneIsDue ==
    ASSUME NEW v \in Nat
    PROVE  \E u \in (v + 1)..(v + SaveInterval) : IsDue(u)
<1> DEFINE r == v % SaveInterval
           u == v + (SaveInterval - r)
<1>1. SaveInterval \in Nat \ {0}
  BY LengthAssumption
<1>2. r \in 0..(SaveInterval - 1)
  BY <1>1
<1>3. u % SaveInterval = 0
  BY <1>1
<1> HIDE DEF r
<1>4. u \in (v + 1)..(v + SaveInterval)
  BY <1>1, <1>2
<1> HIDE DEF u
<1> QED
  BY <1>3, <1>4 DEF IsDue

\* While the last participant stays, and no diff suspends its handler for a title or an
\* image: when no save is in flight, a crash costs fewer than SaveInterval diffs, with
\* either engine and however many saves waited for one another.
THEOREM LossBoundedCorrect ==
    ASSUME LastStays, ~BlankRow, ~Sidecars
    PROVE  Spec => []LossBounded
<1>1. Init => Due /\ NoSidecar
  BY DEF Init, Due, NoSidecar
<1>2. TypeInv /\ Served /\ Team /\ (Due /\ NoSidecar) /\ [Next]_vars => (Due /\ NoSidecar)'
  BY DueStep
<1>3. TypeInv /\ Team /\ Due => LossBounded
  <2> SUFFICES ASSUME TypeInv, Team, Due, registry # None,
                      \A c \in Conns : at[c] \notin {"sidecar", "saving", "wrote"}
               PROVE  sessions[registry].doc.version - row.version < SaveInterval
    BY DEF LossBounded
  <2> DEFINE to == sessions[registry].doc.version
             from == row.version
  <2>1. to \in Nat /\ from \in Nat /\ queue \in Seq(Conns)
        /\ \A k \in 1..Len(queue) : queue[k] \in Conns
    BY SaveTypes
  <2>2. queue = <<>>
    <3>1. ASSUME queue # <<>> PROVE FALSE
      <4>1. 1 \in 1..Len(queue)
        BY <2>1, <3>1, EmptySeq, LenProperties
      <4> QED
        BY <2>1, <4>1 DEF Team, QueueWaits
    <3> QED
      BY <3>1
  <2>3. NoneDue(from, to)
    BY <2>2 DEF Due, DueSaved, WillStore
  <2> HIDE DEF to, from
  <2>4. SaveInterval \in Nat
    BY LengthAssumption
  <2>5. to - from < SaveInterval
    <3>1. ASSUME ~(to - from < SaveInterval) PROVE FALSE
      <4>1. PICK u \in (from + 1)..(from + SaveInterval) : IsDue(u)
        BY <2>1, OneIsDue
      <4>2. u \in 1..to /\ from < u
        BY <2>1, <2>4, <3>1
      <4> QED
        BY <2>3, <4>1, <4>2 DEF NoneDue
    <3> QED
      BY <3>1
  <2> QED
    BY <2>5 DEF to, from
<1> QED
  BY <1>1, <1>2, <1>3, TypeInvariant, ServedInvariant, TeamInvariant, PTL DEF Spec

-----------------------------------------------------------------------------
(* The session of one author at a time: nothing confirmed is lost.         *)

Elems(s) == {s[k] : k \in 1..Len(s)}

\* The diffs are for versions before v, and those that change the text are in it.
Fits(ds, v, text) ==
    \A k \in 1..Len(ds) : ds[k].v < v /\ (ds[k].steps => ds[k].id \in Elems(text))

\* Where a connection without a handler is, and where one without a session yet.
Resting == {"new", "closed", "failed"}
Before == {"new", "read", "init", "inited"}

\* At most one connection is at work.
Alone == \A c, d \in Connected : c = d

\* Who is in the session has it registered, and has announced what is not in the text
\* of this session.
Placed(c) ==
    /\ at[c] \in InSession =>
          /\ registry # None /\ ref[c] = registry
          /\ msg[c] # None => msg[c] \in Elems(sessions[registry].node)
    /\ at[c] \in Before => msg[c] = None
    /\ at[c] \in {"saving", "wrote"} => saving[c].session = registry

\* Who subscribes holds the row as it is.
RowRead(c) ==
    at[c] \in {"read", "init", "inited"} =>
        /\ loaded[c].content = row.content /\ loaded[c].version = row.version
        /\ loaded[c].diffs = row.diffs
        /\ at[c] # "read" => registry = None /\ ~loaded[c].blank
        /\ loaded[c].blank => loaded[c].content = <<>>

\* The text is stored, and the Python engine has it in the instance too.
AsStored(s, r) == s.node = r.content /\ (~RustEngine => s.doc.content = s.node)

\* A save in flight carries the session as it is; the text written is the live one.
Carrying(c) ==
    /\ at[c] = "saving" =>
          LET s == sessions[registry]
          IN  /\ saving[c].node = s.dirty
              /\ s.dirty => saving[c].doc.content = s.node
              /\ saving[c].doc.version = s.doc.version
              /\ saving[c].doc.diffs = s.doc.diffs
              /\ ~RustEngine => s.doc.content = s.node
    /\ at[c] = "wrote" => AsStored(sessions[registry], row)

\* The live text begins with the stored one and is stored unless it is marked as
\* changed, which it is only in a version that is not noted as saved.
LiveText(s, r, conf) ==
    /\ Begins(r.content, s.node)
    /\ s.saved <= s.doc.version /\ (s.dirty => s.saved < s.doc.version)
    /\ ~s.dirty => AsStored(s, r)
    /\ conf \subseteq Elems(s.node)
    /\ Fits(s.doc.diffs, s.doc.version, s.node)
    /\ ~s.doc.blank

StoredText ==
    /\ registry = None => confirmed \subseteq Elems(row.content)
    /\ Fits(row.diffs, row.version, row.content)
    /\ row.blank => row.content = <<>>

Solo ==
    /\ Alone /\ QueueWaits /\ StoredText
    /\ registry # None => LiveText(sessions[registry], row, confirmed)
    /\ \A c \in Conns : Placed(c) /\ RowRead(c) /\ Carrying(c)

\* Next to one connection at work the others rest.
LEMMA OthersRest ==
    ASSUME TypeInv, Solo, NEW c \in Conns, at[c] \notin Resting
    PROVE  \A x \in Conns \ {c} : at[x] \in Resting
BY DEF Solo, Alone, Connected, Resting, Waiting, Places, TypeInv, TypeOK

\* It is enough to look at the connection that moves.
LEMMA SoloByOne ==
    ASSUME TypeInv, Solo, NEW c \in Conns, \A x \in Conns \ {c} : at[x] \in Resting,
           \A x \in Conns \ {c} : at'[x] = at[x] /\ msg'[x] = msg[x],
           Placed(c)', RowRead(c)', Carrying(c)', QueueWaits', StoredText',
           (registry # None => LiveText(sessions[registry], row, confirmed))'
    PROVE  Solo'
<1>1. Alone'
  BY DEF Alone, Connected, Resting, Waiting
<1>2. \A x \in Conns \ {c} : /\ at'[x] \in Resting /\ at'[x] \notin InSession
                             /\ at'[x] \notin {"read", "init", "inited", "saving", "wrote"}
                             /\ at'[x] \in Before => msg'[x] = None
  BY DEF Resting, InSession, Before, Solo, Placed
<1>3. \A x \in Conns : Placed(x)' /\ RowRead(x)' /\ Carrying(x)'
  BY <1>2 DEF Placed, RowRead, Carrying
<1> QED
  BY <1>1, <1>3 DEF Solo

\* Who is at work saves alone: nobody else's save waits.
LEMMA NothingQueued ==
    ASSUME TypeInv, Solo, NEW c \in Conns, at[c] \notin Resting \cup {"saving"}
    PROVE  queue = <<>>
<1>1. queue \in Seq(Conns)
  BY DEF TypeInv, TypeOK
<1>2. \A k \in 1..Len(queue) : queue[k] \in Conns /\ at[queue[k]] = "saving"
  BY <1>1, ElementOfSeq DEF Solo, QueueWaits
<1>3. ~(1 \in 1..Len(queue))
  BY <1>2, OthersRest DEF Resting
<1> QED
  BY <1>1, <1>3, EmptySeq, LenProperties

\* Who subscribes where nobody takes part finds no session registered.
LEMMA NotServed ==
    ASSUME TypeInv, Served, Solo, NEW c \in Conns, at[c] = "read", ~ServedAlready
    PROVE  registry = None
<1>1. \A x \in Conns : at[x] \notin {"saving", "wrote"}
  BY OthersRest DEF Resting
<1> QED
  BY <1>1 DEF Served, RegisteredIsServed, ServedAlready

LEMMA NobodyConnected ==
    ASSUME MaxLive = 1, TypeInv, NEW c \in Conns, ReadDoc(c)
    PROVE  \A x \in Conns : at[x] \in Resting
<1>1. IsFiniteSet(Connected)
  BY ConnsAssumption, FS_Subset DEF Connected
<1>2. Cardinality(Connected) \in Nat /\ Cardinality(Connected) < 1
  BY <1>1, FS_CardinalityType DEF ReadDoc
<1>3. Connected = {}
  BY <1>1, <1>2, FS_EmptySet
<1> QED
  BY <1>3 DEF Connected, Resting, Waiting, Places, TypeInv, TypeOK

\* Two sessions alike in what an author's session is about have the same live text.
Alike(s, t) ==
    /\ s.node = t.node /\ s.dirty = t.dirty /\ s.saved = t.saved
    /\ s.doc.version = t.doc.version /\ s.doc.diffs = t.doc.diffs
    /\ s.doc.blank = t.doc.blank

LEMMA LiveIfAlike ==
    ASSUME NEW s, NEW t, NEW r, NEW conf, Alike(t, s), LiveText(s, r, conf),
           s.doc.content = t.doc.content \/ t.doc.content = t.node
    PROVE  LiveText(t, r, conf)
BY DEF Alike, LiveText, AsStored

\* The handler ends in a save.
LEMMA SoloSaving ==
    ASSUME TypeInv, Solo, NEW c \in Conns, at[c] \in InSession \ {"saving"},
           NEW ss \in Seq(Session), Len(ss) = Len(sessions),
           NEW sv \in [Conns -> Save], NEW then \in Reasons, StartSave(c, ss, sv, then),
           registry' = registry, UNCHANGED <<row, ref, loaded, confirmed>>,
           LiveText(ss[registry], row, confirmed),
           \A x \in Conns \ {c} : msg'[x] = msg[x],
           msg'[c] # None => msg'[c] \in Elems(ss[registry].node)
    PROVE  Solo'
<1>1. registry # None /\ ref[c] = registry /\ at[c] \notin Resting
  BY DEF Solo, Placed, InSession, Resting
<1>2. registry \in 1..Len(ss)
  BY <1>1, Registered
<1> DEFINE s == ss[registry]
           t == sessions'[registry]
<1>3. /\ Alike(t, s)
      /\ t.doc.content = IF ~RustEngine /\ s.dirty THEN s.node ELSE s.doc.content
      /\ saving'[c].session = registry /\ saving'[c].node = s.dirty
      /\ saving'[c].doc.version = s.doc.version /\ saving'[c].doc.diffs = s.doc.diffs
      /\ saving'[c].doc.content = IF s.dirty THEN s.node ELSE s.doc.content
      /\ queue' = Append(queue, c) /\ at' = [at EXCEPT ![c] = "saving"]
  BY <1>2, Submitted, SMTT(20) DEF Alike
<1>4. at'[c] = "saving" /\ \A x \in Conns \ {c} : at'[x] = at[x]
  BY <1>3 DEF TypeInv, TypeOK
<1>5. LiveText(s, row, confirmed)
  OBVIOUS
<1> HIDE DEF s, t
<1>7. LiveText(t, row, confirmed)
  <2>1. s.doc.content = t.doc.content \/ t.doc.content = t.node
    BY <1>3 DEF Alike
  <2> QED
    BY <1>3, <1>5, <2>1, LiveIfAlike
<1>8. QueueWaits'
  BY <1>3, QueueGrown DEF Solo
<1>9. (registry # None => LiveText(sessions[registry], row, confirmed))'
  BY <1>7 DEF t
<1>10. StoredText'
  BY <1>1 DEF Solo, StoredText
<1>11. Placed(c)'
  <2>1. t.node = s.node
    BY <1>3 DEF Alike
  <2> QED
    BY <1>1, <1>3, <1>4, <2>1 DEF Placed, Before, s, t
<1>12. RowRead(c)'
  BY <1>4 DEF RowRead
<1>13. Carrying(c)'
  <2>1. ~RustEngine => t.doc.content = t.node
    <3>1. CASE s.dirty
      BY <1>3, <3>1 DEF Alike
    <3>2. CASE ~s.dirty
      BY <1>3, <1>5, <3>2 DEF Alike, LiveText, AsStored
    <3> QED
      BY <3>1, <3>2
  <2>2. /\ saving'[c].node = t.dirty /\ (t.dirty => saving'[c].doc.content = t.node)
        /\ saving'[c].doc.version = t.doc.version /\ saving'[c].doc.diffs = t.doc.diffs
    BY <1>3 DEF Alike
  <2> QED
    BY <1>4, <2>1, <2>2 DEF Carrying, t
<1>14. \A x \in Conns \ {c} : at[x] \in Resting
  BY <1>1, OthersRest
<1> QED
  BY <1>4, <1>8, <1>9, <1>10, <1>11, <1>12, <1>13, <1>14, SoloByOne

\* The handler ends in the session, without a save.
LEMMA SoloIdle ==
    ASSUME TypeInv, Solo, NEW c \in Conns, at[c] \in InSession \ {"saving"},
           NEW p \in {"idle", "authorizing", "sidecar", "closed", "failed"},
           at' = [at EXCEPT ![c] = p],
           UNCHANGED <<row, registry, ref, loaded, queue>>,
           LiveText(sessions'[registry], row, confirmed'),
           \A x \in Conns \ {c} : msg'[x] = msg[x],
           msg'[c] # None => msg'[c] \in Elems(sessions'[registry].node)
    PROVE  Solo'
<1>1. registry # None /\ ref[c] = registry /\ at[c] \notin Resting
  BY DEF Solo, Placed, InSession, Resting
<1>2. at'[c] = p /\ \A x \in Conns \ {c} : at'[x] = at[x]
  BY DEF TypeInv, TypeOK
<1>3. QueueWaits'
  BY <1>2, QueueUndisturbed DEF Solo
<1>4. (registry # None => LiveText(sessions[registry], row, confirmed))'
  OBVIOUS
<1>5. StoredText'
  BY <1>1 DEF Solo, StoredText
<1>6. Placed(c)' /\ RowRead(c)' /\ Carrying(c)'
  BY <1>1, <1>2 DEF Placed, RowRead, Carrying, Before
<1>7. \A x \in Conns \ {c} : at[x] \in Resting
  BY <1>1, OthersRest
<1> QED
  BY <1>2, <1>3, <1>4, <1>5, <1>6, <1>7, SoloByOne

\* The session is taken apart by its last participant: its text is the stored one.
LEMMA SoloLeft ==
    ASSUME TypeInv, Solo, NEW c \in Conns, at[c] \in InSession \ {"saving"}, Left(c),
           UNCHANGED <<row, queue, confirmed, msg>>,
           sessions[registry].node = row.content
    PROVE  Solo'
<1>1. registry # None /\ at[c] \notin Resting
  BY DEF Solo, Placed, InSession, Resting
<1>2. registry' = None /\ at'[c] \in {"closed", "failed"} /\ \A x \in Conns \ {c} : at'[x] = at[x]
  BY DEF Left, TypeInv, TypeOK
<1>3. QueueWaits'
  BY <1>2, QueueUndisturbed DEF Solo
<1>4. StoredText'
  BY <1>1, <1>2 DEF Solo, StoredText, LiveText
<1>5. Placed(c)' /\ RowRead(c)' /\ Carrying(c)'
  BY <1>2 DEF Placed, RowRead, Carrying, Before, InSession
<1>6. \A x \in Conns \ {c} : at[x] \in Resting
  BY <1>1, OthersRest
<1> QED
  BY <1>2, <1>3, <1>4, <1>5, <1>6, SoloByOne

\* An author's message changes the session only by a save.
LEMMA SoloMessage ==
    ASSUME TypeInv, Solo, NEW c \in Conns,
           \/ Reconcile(c) \/ ReceiveDiff(c) \/ DropDiff(c) \/ Fail(c)
           \/ Unfixable(c) \/ RefuseDiff(c) \/ AfterSidecar(c)
    PROVE  Solo' /\ row' = row /\ registry' = registry /\ registry # None
           /\ sessions'[registry].node = sessions[registry].node
<1>1. at[c] \in InSession \ {"saving"}
  BY DEF Reconcile, ReceiveDiff, DropDiff, Fail, Unfixable, RefuseDiff, AfterSidecar, InSession
<1> DEFINE s == sessions[registry]
<1>2. /\ registry # None /\ ref[c] = registry /\ LiveText(s, row, confirmed)
      /\ msg[c] # None => msg[c] \in Elems(s.node)
  BY <1>1 DEF Solo, Placed
<1>3. /\ sessions \in Seq(Session) /\ saving \in [Conns -> Save] /\ registry \in 1..Len(sessions)
  BY <1>2, Registered DEF TypeInv, TypeOK
<1>4. CASE Reconcile(c) \/ ReceiveDiff(c) \/ DropDiff(c) \/ Fail(c)
  <2>1. /\ UNCHANGED <<row, registry, sessions, ref, loaded, saving, queue, msg, confirmed>>
        /\ \E p \in {"idle", "authorizing", "failed"} : at' = [at EXCEPT ![c] = p]
    BY <1>4 DEF Reconcile, ReceiveDiff, DropDiff, Fail
  <2> QED
    BY <1>1, <1>2, <2>1, SoloIdle
<1>5. CASE Unfixable(c) \/ RefuseDiff(c)
  <2>1. /\ SaveThen(c, sessions, "refetch") /\ UNCHANGED <<row, ref, loaded>>
    BY <1>5 DEF Unfixable, RefuseDiff
  <2>2. UNCHANGED <<registry, confirmed, msg>>
    BY <2>1 DEF SaveThen, Resume
  <2>3. CASE StartSave(c, sessions, saving, "refetch")
    <3>1. Solo'
      BY <1>1, <1>2, <1>3, <2>1, <2>2, <2>3, SoloSaving DEF Reasons
    <3> QED
      BY <1>2, <1>3, <2>1, <2>2, <2>3, <3>1, Submitted DEF Reasons
  <2>4. CASE sessions' = sessions /\ queue' = queue /\ at' = [at EXCEPT ![c] = "idle"]
    BY <1>1, <1>2, <2>1, <2>2, <2>4, SoloIdle
  <2> QED
    BY <2>1, <2>3, <2>4, ThenEnded DEF Ended
<1>6. CASE AfterSidecar(c)
  <2>1. SaveIfDue(c, sessions, saving, msg[c]) /\ UNCHANGED <<row, ref, loaded>>
    BY <1>6 DEF AfterSidecar
  <2>2. CASE StartSave(c, sessions, saving, "announce") /\ msg' = [msg EXCEPT ![c] = msg[c]]
             /\ UNCHANGED <<registry, confirmed>>
    <3>1. msg' = msg
      BY <2>2 DEF TypeInv, TypeOK
    <3>2. Solo'
      BY <1>1, <1>2, <1>3, <2>1, <2>2, <3>1, SoloSaving DEF Reasons
    <3> QED
      BY <1>2, <1>3, <2>1, <2>2, <3>2, Submitted DEF Reasons
  <2>3. CASE sessions' = sessions /\ at' = [at EXCEPT ![c] = "idle"] /\ Confirm(msg[c])
             /\ msg' = [msg EXCEPT ![c] = None] /\ UNCHANGED <<registry, queue>>
    <3>1. msg'[c] = None /\ \A x \in Conns \ {c} : msg'[x] = msg[x]
      BY <2>3 DEF TypeInv, TypeOK
    <3>2. LiveText(s, row, confirmed')
      BY <1>2, <2>3 DEF LiveText, Confirm
    <3> QED
      BY <1>1, <1>2, <2>1, <2>3, <3>1, <3>2, SoloIdle
  <2> QED
    BY <2>1, <2>2, <2>3 DEF SaveIfDue
<1> QED
  BY <1>4, <1>5, <1>6

\* The diffs that are kept fit the text that has the new one.
LEMMA FitsTaken ==
    ASSUME NEW ds \in Seq(Diff), NEW v \in Nat, NEW text \in Seq(Ids), Fits(ds, v, text),
           NEW diff \in Diff, diff.v = v, NEW more \in Seq(Ids),
           Elems(text) \subseteq Elems(more), diff.steps => diff.id \in Elems(more)
    PROVE  Fits(Trim(Append(ds, diff)), v + 1, more)
<1> DEFINE ad == Append(ds, diff)
<1>1. /\ ad \in Seq(Diff) /\ Len(ad) = Len(ds) + 1 /\ Len(ds) \in Nat
      /\ ad[Len(ds) + 1] = diff /\ \A k \in 1..Len(ds) : ad[k] = ds[k]
  BY AppendProperties, LenProperties
<1> HIDE DEF ad
<1>2. ASSUME NEW j \in 1..Len(ad)
      PROVE  ad[j].v < v + 1 /\ (ad[j].steps => ad[j].id \in Elems(more))
  <2>1. CASE j \in 1..Len(ds)
    <3>1. ds[j] \in Diff
      BY <2>1, ElementOfSeq
    <3>2. ds[j].v < v /\ (ds[j].steps => ds[j].id \in Elems(text)) /\ ds[j].v \in Nat
      BY <2>1, <3>1 DEF Fits, Diff
    <3> QED
      BY <1>1, <2>1, <3>2
  <2>2. CASE j = Len(ds) + 1
    BY <1>1, <2>2
  <2> QED
    BY <1>1, <2>1, <2>2
<1>3. /\ Len(Trim(ad)) \in 0..Len(ad)
      /\ \A k \in 1..Len(Trim(ad)) : Trim(ad)[k] = ad[Len(ad) - Len(Trim(ad)) + k]
  BY <1>1, TrimmedEnd
<1>4. \A k \in 1..Len(Trim(ad)) : Len(ad) - Len(Trim(ad)) + k \in 1..Len(ad)
  BY <1>1, <1>3
<1> QED
  BY <1>2, <1>3, <1>4 DEF Fits, ad

LEMMA ElemsMore ==
    ASSUME NEW s \in Seq(Ids), NEW i \in Ids
    PROVE  /\ Elems(s) \subseteq Elems(Append(s, i))
           /\ i \in Elems(Append(s, i))
<1> DEFINE t == Append(s, i)
<1>1. /\ Len(t) = Len(s) + 1 /\ Len(s) \in Nat /\ t[Len(s) + 1] = i
      /\ \A k \in 1..Len(s) : t[k] = s[k]
  BY AppendProperties, LenProperties
<1> HIDE DEF t
<1>2. \A k \in 1..Len(s) : k \in 1..Len(t)
  BY <1>1
<1>3. Len(s) + 1 \in 1..Len(t)
  BY <1>1
<1>4. Elems(s) \subseteq Elems(t) /\ i \in Elems(t)
  BY <1>1, <1>2, <1>3 DEF Elems
<1> QED
  BY <1>4 DEF t

\* The live text goes on by the diff that is accepted.
LEMMA LiveTaken ==
    ASSUME NEW s \in Session, NEW r \in Doc, NEW conf, LiveText(s, r, conf),
           NEW diff \in Diff, diff.v = s.doc.version
    PROVE  /\ LiveText(Accepted(s, diff), r, conf)
           /\ Accepted(s, diff).node = IF diff.steps THEN Append(s.node, diff.id) ELSE s.node
           /\ (diff.steps => diff.id \in Elems(Accepted(s, diff).node))
<1> DEFINE t == Accepted(s, diff)
<1>1. /\ s.node \in Seq(Ids) /\ s.doc.diffs \in Seq(Diff) /\ s.doc.version \in Nat
      /\ s.saved \in Nat /\ r.content \in Seq(Ids) /\ diff.id \in Ids
  BY DEF Session, Doc, Diff
<1>2. /\ t.node = IF diff.steps THEN Append(s.node, diff.id) ELSE s.node
      /\ t.saved = s.saved /\ t.doc.content = s.doc.content /\ t.doc.blank = s.doc.blank
  BY DEF Accepted, Session, Doc
<1>3. t.dirty = (s.dirty \/ diff.steps)
  BY DEF Accepted, Session
<1>4. t.doc.version = s.doc.version + 1 /\ t.doc.diffs = Trim(Append(s.doc.diffs, diff))
  BY AcceptedSession
<1> HIDE DEF t
<1>5. /\ t.node \in Seq(Ids) /\ Begins(s.node, t.node)
      /\ Elems(s.node) \subseteq Elems(t.node)
      /\ (diff.steps => diff.id \in Elems(t.node))
  BY <1>1, <1>2, BeginsMore, BeginsItself, ElemsMore
<1>6. Begins(r.content, t.node) /\ conf \subseteq Elems(t.node)
  BY <1>1, <1>5, BeginsOn DEF LiveText
<1>7. Fits(t.doc.diffs, t.doc.version, t.node)
  BY <1>1, <1>4, <1>5, FitsTaken DEF LiveText
<1>8. t.saved <= t.doc.version /\ t.saved < t.doc.version
  BY <1>1, <1>2, <1>4 DEF LiveText
<1>9. ~t.dirty => AsStored(t, r)
  BY <1>2, <1>3 DEF LiveText, AsStored
<1>10. LiveText(t, r, conf)
  BY <1>2, <1>6, <1>7, <1>8, <1>9 DEF LiveText
<1> QED
  BY <1>2, <1>5, <1>10 DEF t

\* A diff is accepted: it joins the live text, and is announced when it is in it.
LEMMA SoloAcceptDiff ==
    ASSUME TypeInv, Solo, NEW c \in Conns, AcceptDiff(c)
    PROVE  /\ Solo' /\ row' = row /\ registry' = registry /\ registry # None
           /\ \/ sessions'[registry].node = sessions[registry].node
              \/ \E i \in 1..MaxDiffs :
                    sessions'[registry].node = Append(sessions[registry].node, i)
<1>1. PICK diff \in Diff : /\ diff.v = sessions[ref[c]].doc.version /\ diff.id = nextId
                           /\ nextId \in 1..MaxDiffs /\ Taking(c, diff)
  BY AcceptTakes
<1>2. at[c] = "authorizing" /\ UNCHANGED <<row, ref, loaded>>
  BY AcceptTakes
<1>3. /\ at[c] \in InSession \ {"saving"} /\ registry # None /\ ref[c] = registry
      /\ LiveText(sessions[registry], row, confirmed)
  BY <1>2 DEF InSession, Solo, Placed
<1>4. registry \in 1..Len(sessions) /\ sessions[registry] \in Session
  BY <1>3, Registered
<1> DEFINE s == sessions[registry]
           t == Accepted(s, diff)
           ss == Taken(registry, diff)
           sv == Aliased(registry, diff)
           m == IF diff.steps THEN nextId ELSE None
<1>5. ss \in Seq(Session) /\ Len(ss) = Len(sessions) /\ ss[registry] = t
  BY <1>4, TakenSessions
<1>6. sv \in [Conns -> Save]
  BY AliasedSaves DEF TypeInv
<1>7. /\ LiveText(t, row, confirmed)
      /\ (diff.steps => diff.id \in Elems(t.node))
      /\ t.node = IF diff.steps THEN Append(s.node, diff.id) ELSE s.node
  <2>1. row \in Doc /\ diff.v = s.doc.version
    BY <1>1, <1>3 DEF TypeInv, TypeOK
  <2> QED
    BY <1>3, <1>4, <2>1, LiveTaken
<1>8. m # None => m \in Elems(t.node)
  BY <1>1, <1>7
<1>9. \/ /\ sessions' = ss /\ at' = [at EXCEPT ![c] = "sidecar"]
         /\ msg' = [msg EXCEPT ![c] = m] /\ UNCHANGED <<registry, queue, confirmed>>
      \/ SaveIfDue(c, ss, sv, m)
  BY <1>1, <1>3 DEF Taking, Taken
<1>10. t.node = s.node \/ t.node = Append(s.node, diff.id)
  BY <1>7
<1> HIDE DEF s, t, ss, sv, m
<1>11. \E i \in {m, None} : msg' = [msg EXCEPT ![c] = i]
  BY <1>9 DEF SaveIfDue
<1>12. msg'[c] \in {m, None} /\ \A x \in Conns \ {c} : msg'[x] = msg[x]
  BY <1>11 DEF TypeInv, TypeOK
<1>13. CASE sessions' = ss /\ UNCHANGED <<registry, queue>> /\ confirmed' \subseteq confirmed \cup ({m} \ {None})
            /\ \E p \in {"idle", "sidecar"} : at' = [at EXCEPT ![c] = p]
  <2>1. LiveText(t, row, confirmed')
    BY <1>7, <1>8, <1>13 DEF LiveText
  <2>2. Solo'
    BY <1>2, <1>3, <1>5, <1>8, <1>12, <1>13, <2>1, SoloIdle
  <2> QED
    BY <1>1, <1>2, <1>3, <1>5, <1>10, <1>13, <2>2 DEF s
<1>14. CASE StartSave(c, ss, sv, "announce") /\ UNCHANGED <<registry, confirmed>>
  <2>1. Solo'
    BY <1>2, <1>3, <1>5, <1>6, <1>7, <1>8, <1>12, <1>14, SoloSaving DEF Reasons
  <2>2. sessions'[registry].node = t.node
    BY <1>4, <1>5, <1>6, <1>14, Submitted DEF Reasons
  <2> QED
    BY <1>1, <1>2, <1>3, <1>10, <1>14, <2>1, <2>2 DEF s
<1> QED
  BY <1>9, <1>13, <1>14 DEF SaveIfDue, Confirm

\* A subscriber reads the row, fills it from the template, opens or joins a session.
LEMMA SoloReading ==
    ASSUME MaxLive = 1, TypeInv, Served, Solo, NEW c \in Conns,
           ReadDoc(c) \/ StartInit(c) \/ WriteInit(c)
    PROVE  Solo' /\ row'.content = row.content /\ UNCHANGED <<registry, sessions>>
<1>0. \A x \in Conns \ {c} : at'[x] = at[x] /\ loaded'[x] = loaded[x]
  BY DEF ReadDoc, StartInit, WriteInit, TypeInv, TypeOK
<1>1. /\ UNCHANGED <<registry, sessions, saving, queue, msg, confirmed>>
      /\ at[c] \in Before /\ at'[c] \in {"read", "init", "inited"}
  BY DEF ReadDoc, StartInit, WriteInit, TypeInv, TypeOK, Before
<1>2. \A x \in Conns \ {c} : at[x] \in Resting
  <2>1. CASE ReadDoc(c)
    BY <2>1, NobodyConnected
  <2>2. CASE StartInit(c) \/ WriteInit(c)
    BY <2>2, OthersRest DEF StartInit, WriteInit, Resting
  <2> QED
    BY <2>1, <2>2
<1>3. /\ row'.content = row.content /\ row'.version = row.version /\ row'.diffs = row.diffs
      /\ row'.blank => row.blank
      /\ RowRead(c)'
  <2>1. CASE ReadDoc(c)
    <3>1. row' = row /\ loaded'[c] = row /\ at'[c] = "read"
      BY <2>1 DEF ReadDoc, TypeInv, TypeOK
    <3>2. row.blank => row.content = <<>>
      BY DEF Solo, StoredText
    <3> QED
      BY <3>1, <3>2 DEF RowRead
  <2>2. CASE StartInit(c)
    <3>1. row' = row /\ at[c] = "read" /\ registry = None /\ loaded[c].blank
      BY <2>2, NotServed DEF StartInit
    <3>2. RowRead(c)
      BY DEF Solo
    <3>3. /\ loaded'[c].version = loaded[c].version /\ loaded'[c].diffs = loaded[c].diffs
          /\ loaded'[c].content = <<>> /\ loaded'[c].blank = FALSE
      <4>1. loaded[c] \in Doc /\ loaded' = [loaded EXCEPT ![c] = [@ EXCEPT !.blank = FALSE, !.content = <<>>]]
        BY <2>2 DEF StartInit, TypeInv, TypeOK
      <4>2. loaded'[c] = [loaded[c] EXCEPT !.blank = FALSE, !.content = <<>>]
        BY <4>1 DEF TypeInv, TypeOK
      <4> QED
        BY <4>1, <4>2, ZenonT(40) DEF Doc
    <3> QED
      BY <1>1, <3>1, <3>2, <3>3 DEF RowRead
  <2>3. CASE WriteInit(c)
    <3>1. /\ at[c] = "init" /\ loaded' = loaded
          /\ row' = [row EXCEPT !.content = loaded[c].content, !.blank = FALSE]
      BY <2>3 DEF WriteInit
    <3>2. RowRead(c)
      BY DEF Solo
    <3>3. loaded[c].content = row.content /\ registry = None
      BY <3>1, <3>2 DEF RowRead
    <3>4. /\ row'.content = row.content /\ row'.version = row.version
          /\ row'.diffs = row.diffs /\ row'.blank = FALSE
      BY <3>1, <3>3 DEF TypeInv, TypeOK, Doc
    <3> QED
      BY <1>1, <3>1, <3>2, <3>3, <3>4 DEF RowRead
  <2> QED
    BY <2>1, <2>2, <2>3
<1>4. QueueWaits'
  BY <1>0, <1>1, QueueUndisturbed DEF Solo, Before
<1>5. StoredText'
  <2>1. StoredText
    BY DEF Solo
  <2> QED
    BY <1>1, <1>3, <2>1 DEF StoredText
<1>6. Placed(c)' /\ Carrying(c)'
  BY <1>1 DEF Solo, Placed, Carrying, InSession, Before
<1>7. (registry # None => LiveText(sessions[registry], row, confirmed))'
  BY <1>1, <1>3 DEF Solo, LiveText, AsStored
<1> QED
  BY <1>0, <1>1, <1>2, <1>3, <1>4, <1>5, <1>6, <1>7, SoloByOne

LEMMA SoloOpenSession ==
    ASSUME TypeInv, Served, Solo, NEW c \in Conns, OpenSession(c)
    PROVE  /\ Solo' /\ row' = row /\ registry = None /\ registry' # None
           /\ sessions'[registry'].node = row.content
<1> DEFINE e == [doc |-> loaded[c], node |-> loaded[c].content, dirty |-> FALSE,
                 saved |-> loaded[c].version, parts |-> {c}, dead |-> FALSE,
                 opened |-> loaded[c].version]
<1>1. /\ at[c] \in {"read", "inited"} /\ (at[c] = "read" => ~ServedAlready /\ ~loaded[c].blank)
      /\ sessions' = Append(sessions, e) /\ registry' = Len(sessions')
      /\ ref' = [ref EXCEPT ![c] = Len(sessions')] /\ at' = [at EXCEPT ![c] = "joined"]
      /\ UNCHANGED <<row, loaded, saving, queue, msg, confirmed>>
  BY DEF OpenSession
<1>2. RowRead(c) /\ Placed(c) /\ StoredText
  BY DEF Solo
<1>3. registry = None
  BY <1>1, <1>2, NotServed DEF RowRead
<1>4. /\ e \in Session /\ e.doc = loaded[c] /\ e.node = loaded[c].content
      /\ e.saved = loaded[c].version /\ e.dirty = FALSE /\ loaded[c] \in Doc
  BY DEF Session, TypeInv, TypeOK, Doc
<1> HIDE DEF e
<1>5. /\ Len(sessions') = Len(sessions) + 1 /\ Len(sessions) \in Nat
      /\ sessions'[Len(sessions) + 1] = e
  BY <1>1, <1>4, AppendProperties, LenProperties DEF TypeInv, TypeOK
<1>6. registry' # None /\ sessions'[registry'] = e
  BY <1>1, <1>5 DEF None
<1>7. at'[c] = "joined" /\ ref'[c] = registry' /\ \A x \in Conns \ {c} : at'[x] = at[x]
  BY <1>1 DEF TypeInv, TypeOK
<1>8. /\ e.doc.content = row.content /\ e.doc.version = row.version /\ e.doc.diffs = row.diffs
      /\ e.node = row.content /\ e.saved = row.version /\ ~e.doc.blank /\ row.version \in Nat
  BY <1>1, <1>2, <1>4 DEF RowRead, TypeInv, TypeOK, Doc
<1>9. LiveText(e, row, confirmed)
  <2>1. Begins(row.content, e.node)
    BY <1>8, BeginsItself DEF TypeInv, TypeOK, Doc
  <2>2. confirmed \subseteq Elems(e.node) /\ Fits(e.doc.diffs, e.doc.version, e.node)
    BY <1>2, <1>3, <1>8 DEF StoredText
  <2>3. AsStored(e, row)
    BY <1>8 DEF AsStored
  <2> QED
    BY <1>4, <1>8, <2>1, <2>2, <2>3 DEF LiveText
<1>10. msg[c] = None
  BY <1>1, <1>2 DEF Placed, Before
<1>11. Placed(c)' /\ RowRead(c)' /\ Carrying(c)'
  BY <1>1, <1>6, <1>7, <1>10 DEF Placed, RowRead, Carrying, Before
<1>12. QueueWaits'
  BY <1>1, <1>7, QueueUndisturbed DEF Solo
<1>13. StoredText'
  BY <1>1, <1>2, <1>6 DEF StoredText
<1>14. \A x \in Conns \ {c} : at[x] \in Resting
  BY <1>1, OthersRest DEF Resting
<1>15. Solo'
  BY <1>1, <1>6, <1>7, <1>9, <1>11, <1>12, <1>13, <1>14, SoloByOne
<1> QED
  BY <1>1, <1>3, <1>6, <1>8, <1>15

LEMMA SoloJoinSession ==
    ASSUME TypeInv, Solo, NEW c \in Conns, JoinSession(c)
    PROVE  /\ Solo' /\ row' = row /\ registry' = registry /\ registry # None
           /\ sessions'[registry].node = sessions[registry].node
<1> DEFINE s == sessions[registry]
           e == [s EXCEPT !.parts = @ \cup {c}]
<1>1. /\ at[c] = "read" /\ registry # None /\ sessions' = [sessions EXCEPT ![registry] = e]
      /\ ref' = [ref EXCEPT ![c] = registry] /\ at' = [at EXCEPT ![c] = "joined"]
      /\ UNCHANGED <<row, registry, loaded, saving, queue, msg, confirmed>>
  BY DEF JoinSession, ServedAlready
<1>2. registry \in 1..Len(sessions) /\ s \in Session
  BY <1>1, Registered
<1>3. e \in Session /\ Alike(e, s) /\ e.doc = s.doc /\ e.node = s.node
  BY <1>2 DEF Session, Alike
<1>4. LiveText(s, row, confirmed) /\ msg[c] = None
  BY <1>1 DEF Solo, Placed, Before
<1> HIDE DEF s, e
<1>5. sessions'[registry] = e
  BY <1>1, <1>2, <1>3, Replace DEF TypeInv, TypeOK
<1>6. LiveText(e, row, confirmed)
  BY <1>3, <1>4, LiveIfAlike
<1>7. at'[c] = "joined" /\ ref'[c] = registry /\ \A x \in Conns \ {c} : at'[x] = at[x]
  BY <1>1 DEF TypeInv, TypeOK
<1>8. Placed(c)' /\ RowRead(c)' /\ Carrying(c)'
  BY <1>1, <1>4, <1>7 DEF Placed, RowRead, Carrying, Before
<1>9. QueueWaits'
  BY <1>1, <1>7, QueueUndisturbed DEF Solo
<1>10. StoredText'
  BY <1>1 DEF Solo, StoredText
<1>11. \A x \in Conns \ {c} : at[x] \in Resting
  BY <1>1, OthersRest DEF Resting
<1>12. Solo'
  BY <1>1, <1>5, <1>6, <1>7, <1>8, <1>9, <1>10, <1>11, SoloByOne
<1> QED
  BY <1>1, <1>3, <1>5, <1>12 DEF s

\* What is written is the live text, with the version and the diffs it has now.
LEMMA SoloWriteRow ==
    ASSUME TypeInv, Served, Solo, NEW c \in Conns, WriteRow(c)
    PROVE  /\ Solo' /\ UNCHANGED <<registry, sessions>> /\ registry # None
           /\ row'.content = sessions[registry].node
<1> DEFINE s == sessions[registry]
           d == saving[c].doc
<1>1. /\ at[c] = "saving" /\ UNCHANGED <<registry, sessions, ref, loaded, saving, msg, confirmed>>
      /\ \A x \in Conns \ {c} : at'[x] = at[x]
  BY DEF WriteRow, TypeInv, TypeOK
<1>2. /\ registry # None /\ ref[c] = registry /\ saving[c].session = registry
      /\ LiveText(s, row, confirmed) /\ Carrying(c) /\ Placed(c)
  BY <1>1 DEF Solo, Placed, InSession
<1>3. ~s.dead
  BY <1>2 DEF Served, LiveRegistry
<1>4. at'[c] = "wrote"
  BY <1>2, <1>3 DEF WriteRow, TypeInv, TypeOK
<1>5. s \in Session /\ d \in Doc /\ row \in Doc /\ saving[c].node \in BOOLEAN
  BY <1>2, Registered DEF TypeInv, TypeOK, Save
<1>6. /\ saving[c].node = s.dirty /\ (s.dirty => d.content = s.node)
      /\ d.version = s.doc.version /\ d.diffs = s.doc.diffs
      /\ (~RustEngine => s.doc.content = s.node)
  BY <1>1, <1>2 DEF Carrying
<1>7. \/ RustEngine /\ saving[c].node /\ row' = [d EXCEPT !.blank = FALSE]
      \/ /\ ~(RustEngine /\ saving[c].node)
         /\ row' = [s.doc EXCEPT !.content = KeptContent(s),
                                 !.blank = IF RustEngine THEN row.blank ELSE FALSE]
  BY <1>2, <1>3 DEF WriteRow
<1> HIDE DEF s, d
<1>8. /\ row'.content = s.node /\ row'.version = s.doc.version /\ row'.diffs = s.doc.diffs
      /\ (row'.blank => row.blank /\ row.content = s.node)
  <2>1. CASE RustEngine /\ saving[c].node /\ row' = [d EXCEPT !.blank = FALSE]
    BY <1>5, <1>6, <2>1 DEF Doc
  <2>2. CASE /\ ~(RustEngine /\ saving[c].node)
             /\ row' = [s.doc EXCEPT !.content = KeptContent(s),
                                     !.blank = IF RustEngine THEN row.blank ELSE FALSE]
    <3>1. /\ row'.content = KeptContent(s) /\ row'.version = s.doc.version
          /\ row'.diffs = s.doc.diffs /\ row'.blank = IF RustEngine THEN row.blank ELSE FALSE
      BY <1>5, <2>2 DEF Session, Doc
    <3>2. RustEngine => row.content = s.node
      BY <1>2, <1>6, <2>2 DEF LiveText, AsStored
    <3> QED
      BY <1>6, <3>1, <3>2 DEF KeptContent
  <2> QED
    BY <1>7, <2>1, <2>2
<1>9. LiveText(s, row', confirmed)
  <2>1. Begins(row'.content, s.node)
    BY <1>5, <1>8, BeginsItself DEF Session
  <2>2. AsStored(s, row')
    BY <1>6, <1>8 DEF AsStored
  <2> QED
    BY <1>2, <2>1, <2>2 DEF LiveText
<1>10. StoredText'
  <2>1. Fits(row'.diffs, row'.version, row'.content)
    BY <1>2, <1>8 DEF LiveText
  <2>2. row'.blank => row'.content = <<>>
    BY <1>8 DEF Solo, StoredText
  <2> QED
    BY <1>1, <1>2, <2>1, <2>2 DEF StoredText
<1>11. QueueWaits'
  <2>1. \A k \in 1..Len(queue') : at'[queue'[k]] = "saving"
    BY <1>1, QueueShorter, SMTT(20) DEF Solo, QueueWaits
  <2>2. ASSUME NEW j \in 1..Len(queue'), NEW k \in 1..Len(queue'), queue'[j] = queue'[k]
        PROVE  j = k
    <3>1. queue[j + 1] = queue[k + 1] /\ j + 1 \in 1..Len(queue) /\ k + 1 \in 1..Len(queue)
      BY <2>2, QueueShorter DEF Solo
    <3>2. j + 1 = k + 1
      BY <3>1 DEF Solo, QueueWaits
    <3> QED
      BY <3>2
  <2> QED
    BY <2>1, <2>2 DEF QueueWaits
<1>12. Placed(c)' /\ RowRead(c)'
  BY <1>1, <1>2, <1>4 DEF Placed, RowRead, Before, InSession
<1>13. Carrying(c)'
  BY <1>1, <1>4, <1>6, <1>8 DEF Carrying, AsStored, s
<1>14. \A x \in Conns \ {c} : at[x] \in Resting
  BY <1>1, OthersRest DEF Resting
<1>15. Solo'
  BY <1>1, <1>9, <1>10, <1>11, <1>12, <1>13, <1>14, SoloByOne DEF s
<1> QED
  BY <1>1, <1>2, <1>8, <1>15 DEF s

\* The save is over: the text that is live is the one that was stored.
LEMMA SoloFinishSave ==
    ASSUME TypeInv, Solo, NEW c \in Conns, FinishSave(c)
    PROVE  Solo' /\ row' = row /\ Text' = Text
<1> DEFINE s == sessions[registry]
           t == Noted(registry)[registry]
           then == saving[c].then
<1>1. /\ at[c] = "wrote" /\ then \in Reasons /\ UNCHANGED <<row, ref, loaded, queue>>
  BY FinishSaveEnds DEF FinishSave
<1>2. /\ registry # None /\ ref[c] = registry /\ saving[c].session = registry
      /\ LiveText(s, row, confirmed) /\ AsStored(s, row)
      /\ (msg[c] # None => msg[c] \in Elems(s.node))
  BY <1>1 DEF Solo, Placed, InSession, Carrying
<1>3. Resume(c, Noted(registry), then)
  BY <1>2 DEF FinishSave, Noted
<1>4. t.doc = s.doc /\ t.node = s.node /\ t.saved = s.doc.version /\ t.dirty = FALSE
  BY <1>2, TeamNoted
<1>5. registry \in 1..Len(sessions) /\ s \in Session
  BY <1>2, Registered
<1>6. Noted(registry) \in Seq(Session)
  BY <1>5, NotedSessions
<1>7. at[c] \in InSession \ {"saving"}
  BY <1>1 DEF InSession
<1>8. s.doc.version \in Nat
  BY <1>5 DEF Session, Doc
<1> HIDE DEF s, t, then
<1>9. LiveText(t, row, confirmed)
  BY <1>2, <1>4, <1>8 DEF LiveText, AsStored
<1>10. CASE then = "cleanup"
  <2>1. Cleanup(c, Noted(registry)) /\ UNCHANGED <<confirmed, msg>>
    BY <1>3, <1>10 DEF Resume
  <2>2. Left(c)
    BY <1>2, <2>1 DEF Cleanup, Left
  <2>3. s.node = row.content
    BY <1>2 DEF AsStored
  <2> QED
    BY <1>1, <1>2, <1>7, <2>1, <2>2, <2>3, SoloLeft DEF Left, Text, s
<1>11. CASE then # "cleanup"
  <2>1. sessions' = Noted(registry) /\ at' = [at EXCEPT ![c] = "idle"] /\ registry' = registry
    BY <1>3, <1>11 DEF Resume
  <2>2. /\ confirmed' \subseteq confirmed \cup ({msg[c]} \ {None})
        /\ \E i \in {msg[c], None} : msg' = [msg EXCEPT ![c] = i]
    BY <1>3 DEF Resume, Confirm, TypeInv, TypeOK
  <2>3. msg'[c] \in {msg[c], None} /\ \A x \in Conns \ {c} : msg'[x] = msg[x]
    BY <2>2 DEF TypeInv, TypeOK
  <2>4. LiveText(t, row, confirmed')
    BY <1>2, <1>4, <1>9, <2>2 DEF LiveText
  <2>5. sessions'[registry] = t
    BY <2>1 DEF t
  <2>6. Solo'
    BY <1>1, <1>2, <1>4, <1>7, <2>1, <2>3, <2>4, <2>5, SoloIdle
  <2> QED
    BY <1>1, <1>2, <1>4, <2>1, <2>5, <2>6 DEF Text, s
<1> QED
  BY <1>10, <1>11

\* Who leaves saves what is not stored yet; without a save everything is stored.
LEMMA SoloDisconnect ==
    ASSUME TypeInv, Solo, NEW c \in Conns, Disconnect(c)
    PROVE  Solo' /\ row' = row /\ Text' = Text
<1> DEFINE s == sessions[registry]
           t == Without(c)[registry]
<1>1. at[c] = "idle" /\ UNCHANGED <<row, ref, loaded>>
  BY DEF Disconnect
<1>2. /\ registry # None /\ ref[c] = registry /\ at[c] \in InSession \ {"saving"}
      /\ LiveText(s, row, confirmed) /\ (msg[c] # None => msg[c] \in Elems(s.node))
  BY <1>1 DEF Solo, Placed, InSession
<1>3. registry \in 1..Len(sessions) /\ s \in Session
  BY <1>2, Registered
<1>4. Without(c) \in Seq(Session) /\ Len(Without(c)) = Len(sessions)
  BY <1>1, WithoutSessions
<1>5. Alike(t, s) /\ t.doc = s.doc /\ t.node = s.node
  BY <1>2, <1>3 DEF Without, Alike, Session, TypeInv, TypeOK
<1>6. \/ SaveThen(c, Without(c), "cleanup")
      \/ /\ sessions' = Without(c) /\ at' = [at EXCEPT ![c] = "closed"]
         /\ UNCHANGED <<registry, queue, msg, confirmed>>
  BY <1>2 DEF Disconnect, Without
<1>7. LiveText(t, row, confirmed)
  BY <1>2, <1>5, LiveIfAlike
<1>8. CASE /\ sessions' = Without(c) /\ at' = [at EXCEPT ![c] = "closed"]
           /\ UNCHANGED <<registry, queue, msg, confirmed>>
  <2>1. Solo'
    BY <1>1, <1>2, <1>5, <1>7, <1>8, SoloIdle
  <2> QED
    BY <1>1, <1>2, <1>5, <1>8, <2>1 DEF Text
<1>9. CASE /\ StartSave(c, Without(c), saving, "cleanup") /\ UNCHANGED <<registry, confirmed, msg>>
  <2>1. saving \in [Conns -> Save] /\ "cleanup" \in Reasons
    BY DEF TypeInv, TypeOK, Reasons
  <2>2. Solo'
    BY <1>1, <1>2, <1>4, <1>5, <1>7, <1>9, <2>1, SoloSaving
  <2>3. sessions'[registry].node = t.node
    BY <1>3, <1>4, <1>9, <2>1, Submitted
  <2> QED
    BY <1>1, <1>2, <1>5, <1>9, <2>2, <2>3 DEF Text
<1>10. CASE ~SaveNeeded(Without(c)) /\ Resume(c, Without(c), "cleanup") /\ queue' = queue
  <2>1. Cleanup(c, Without(c)) /\ UNCHANGED <<confirmed, msg>>
    BY <1>10 DEF Resume
  <2>2. Left(c)
    BY <1>2, <2>1 DEF Cleanup, Left
  <2>3. s.doc.version = s.saved /\ s.doc.version \in Nat
    BY <1>2, <1>3, <1>5, <1>10 DEF SaveNeeded, Alike, Session, Doc
  <2>4. s.node = row.content
    BY <1>2, <2>3 DEF LiveText, AsStored
  <2> QED
    BY <1>1, <1>2, <1>10, <2>1, <2>2, <2>4, SoloLeft DEF Left, Text
<1> QED
  BY <1>6, <1>8, <1>9, <1>10 DEF SaveThen

\* The process ends, saving what is not stored yet, or is killed, losing it.
LEMMA SoloStop ==
    ASSUME TypeInv, Solo, Crash \/ Shutdown
    PROVE  /\ Solo' /\ Text' = row'.content
           /\ Crash => row' = row
           /\ Shutdown => row'.content = Text
<1> DEFINE s == sessions[registry]
<1>1. Stop
  BY DEF Crash, Shutdown, Flushed
<1>2. \A x \in Conns : at'[x] \in {"new", "closed"} /\ msg'[x] = None
  BY <1>1 DEF Stop, TypeInv, TypeOK
<1>3. registry' = None /\ queue' = <<>>
  BY <1>1 DEF Stop
<1>4. StoredText /\ (registry # None => LiveText(s, row, confirmed))
  BY DEF Solo
<1>5. /\ Crash => row' = row
      /\ Shutdown => row'.content = Text
      /\ StoredText'
  <2>1. CASE Crash
    <3>1. row' = row /\ confirmed' \subseteq Elems(row.content)
      BY <2>1 DEF Crash, Elems
    <3>2. ~Shutdown
      <4>1. crashes' = crashes + 1 /\ crashes \in Nat
        BY <2>1 DEF Crash, TypeInv, TypeOK
      <4> QED
        BY <4>1 DEF Shutdown, Flushed
    <3> QED
      BY <1>4, <3>1, <3>2 DEF StoredText
  <2>2. CASE Shutdown /\ SaveNeeded(sessions)
    <3>1. /\ row' = [s.doc EXCEPT !.content = IF s.dirty THEN s.node ELSE KeptContent(s)]
          /\ confirmed' = confirmed /\ registry # None
      BY <2>2 DEF Shutdown, Flushed, SaveNeeded
    <3>2. s \in Session /\ LiveText(s, row, confirmed)
      BY <1>4, <3>1, Registered
    <3>3. ~s.dirty => KeptContent(s) = s.node
      BY <3>2 DEF KeptContent, LiveText, AsStored
    <3> HIDE DEF s
    <3>4. /\ row'.content = s.node /\ row'.version = s.doc.version /\ row'.diffs = s.doc.diffs
          /\ row'.blank = s.doc.blank
      <4>1. s.doc \in Doc
        BY <3>2 DEF Session
      <4>2. row' = [s.doc EXCEPT !.content = s.node]
        BY <3>1, <3>3
      <4> QED
        BY <4>1, <4>2 DEF Doc
    <3>5. StoredText'
      BY <3>1, <3>2, <3>4 DEF StoredText, LiveText
    <3>6. Text = s.node
      BY <3>1 DEF Text, s
    <3>7. ~Crash
      <4>1. crashes' = crashes /\ crashes \in Nat
        BY <2>2 DEF Shutdown, Flushed, TypeInv, TypeOK
      <4> QED
        BY <4>1 DEF Crash
    <3> QED
      BY <3>4, <3>5, <3>6, <3>7
  <2>3. CASE Shutdown /\ ~SaveNeeded(sessions)
    <3>1. row' = row /\ confirmed' = confirmed
      BY <2>3 DEF Shutdown, Flushed
    <3>2. Text = row.content
      <4>1. CASE registry # None
        <5>1. s.doc.version = s.saved /\ s.doc.version \in Nat /\ LiveText(s, row, confirmed)
          BY <1>4, <2>3, <4>1, Registered DEF SaveNeeded, Session, Doc
        <5>2. AsStored(s, row)
          BY <5>1 DEF LiveText
        <5> QED
          BY <4>1, <5>2 DEF Text, AsStored
      <4> QED
        BY <4>1 DEF Text
    <3>3. confirmed \subseteq Elems(row.content)
      BY <1>4, <3>2 DEF StoredText, LiveText, Text
    <3> QED
      BY <1>4, <3>1, <3>2, <3>3 DEF StoredText
  <2> QED
    BY <2>1, <2>2, <2>3
<1>6. Alone' /\ QueueWaits'
  BY <1>2, <1>3 DEF Alone, Connected, Waiting, QueueWaits
<1>7. \A x \in Conns : Placed(x)' /\ RowRead(x)' /\ Carrying(x)'
  BY <1>2 DEF Placed, RowRead, Carrying, InSession
<1>8. Text' = row'.content
  BY <1>3 DEF Text
<1> QED
  BY <1>3, <1>5, <1>6, <1>7, <1>8 DEF Solo

LEMMA SoloStep ==
    ASSUME MaxLive = 1, TypeInv, Served, Solo, [Next]_vars
    PROVE  Solo'
<1>1. CASE UNCHANGED vars
  BY <1>1 DEF vars, Solo, Alone, Connected, QueueWaits, StoredText, Placed, RowRead, Carrying,
              LiveText, AsStored
<1>2. CASE Crash \/ Shutdown
  BY <1>2, SoloStop
<1>3. ASSUME NEW c \in Conns,
             \/ ReadDoc(c) \/ StartInit(c) \/ WriteInit(c) \/ OpenSession(c) \/ JoinSession(c)
             \/ Reconcile(c) \/ ReceiveDiff(c) \/ DropDiff(c) \/ Fail(c)
             \/ Unfixable(c) \/ RefuseDiff(c) \/ AfterSidecar(c)
             \/ WriteRow(c) \/ FinishSave(c) \/ AcceptDiff(c) \/ Disconnect(c)
      PROVE  Solo'
  BY <1>3, SoloReading, SoloOpenSession, SoloJoinSession, SoloMessage, SoloWriteRow,
     SoloFinishSave, SoloAcceptDiff, SoloDisconnect
<1> QED
  BY <1>1, <1>2, <1>3 DEF Next, Progress

LEMMA SoloInit == Init => Solo
<1> SUFFICES ASSUME Init PROVE Solo
  OBVIOUS
<1>1. Alone /\ QueueWaits
  BY DEF Init, Alone, Connected, Waiting, QueueWaits
<1>2. StoredText
  BY DEF Init, StoredText, Fits, EmptyDoc
<1>3. \A c \in Conns : Placed(c) /\ RowRead(c) /\ Carrying(c)
  BY DEF Init, Placed, RowRead, Carrying, InSession
<1> QED
  BY <1>1, <1>2, <1>3 DEF Init, Solo

LEMMA SoloInvariant == ASSUME MaxLive = 1 PROVE Spec => []Solo
<1>1. Init => Solo
  BY SoloInit
<1>2. TypeInv /\ Served /\ Solo /\ [Next]_vars => Solo'
  BY SoloStep
<1> QED
  BY <1>1, <1>2, TypeInvariant, ServedInvariant, PTL DEF Spec

\* With one author at a time, once nobody is connected and nothing runs every diff
\* that was confirmed to its sender is in the stored text: whatever was left half done,
\* by a failed handler, a crash or a save that was skipped.
THEOREM DurableCorrect ==
    ASSUME MaxLive = 1
    PROVE  Spec => []Durable
<1>1. Solo => Durable
  BY DEF Solo, StoredText, Durable, Elems
<1> QED
  BY <1>1, SoloInvariant, PTL

\* With one author at a time the row is always the document as it was at the stored
\* version: the diffs in it are older, and those that change the text are in its text.
THEOREM RowIsAVersionCorrect ==
    ASSUME MaxLive = 1
    PROVE  Spec => []RowIsAVersion
<1>1. Solo => RowIsAVersion
  BY DEF Solo, StoredText, Fits, RowIsAVersion, Elems
<1> QED
  BY <1>1, SoloInvariant, PTL

LEMMA TextType ==
    ASSUME TypeInv
    PROVE  Text \in Seq(Ids) /\ row.content \in Seq(Ids) /\ crashes \in Nat
BY SaveTypes DEF Text, TypeInv, TypeOK, Doc

LEMMA PrefixIfBegins ==
    ASSUME NEW s \in Seq(Ids), NEW t \in Seq(Ids), Begins(s, t)
    PROVE  Log!IsPrefix(s, t)
BY BeginsTo DEF Begins, Log!IsPrefix

\* The stored text is an earlier state of the live one.
LEMMA StoredBegins ==
    ASSUME TypeInv, Solo
    PROVE  Begins(row.content, Text)
BY TextType, BeginsItself DEF Solo, LiveText, Text

\* Every step extends the text by one diff, stores a later state of it, takes it back to
\* the stored one in a crash, or leaves both as they are.
LEMMA LogStep ==
    ASSUME MaxLive = 1, TypeInv, TypeInv', Served, Solo, [Next]_vars
    PROVE  [Log!Next]_<<Text, row.content, crashes>>
<1> DEFINE Same == Text' = Text /\ row'.content = row.content /\ crashes' = crashes
<1>1. CASE UNCHANGED vars
  BY <1>1 DEF vars, Text
<1>2. ASSUME row'.content = Text, Text' = Text, crashes' = crashes PROVE Log!Persist
  <2>1. Log!IsPrefix(row.content, Text)
    BY TextType, StoredBegins, PrefixIfBegins
  <2>2. Log!IsPrefix(Text, Text)
    BY TextType, BeginsItself, PrefixIfBegins
  <2> QED
    BY <1>2, <2>1, <2>2 DEF Log!Persist
<1>3. CASE Crash
  BY <1>3, SoloStop DEF Log!Next, Log!Crash, Crash
<1>4. CASE Shutdown
  BY <1>2, <1>4, SoloStop DEF Log!Next, Shutdown, Flushed
<1>5. ASSUME NEW c \in Conns,
             ReadDoc(c) \/ StartInit(c) \/ WriteInit(c) \/ OpenSession(c) \/ JoinSession(c)
      PROVE  Same
  <2>1. crashes' = crashes
    BY <1>5 DEF ReadDoc, StartInit, WriteInit, OpenSession, JoinSession
  <2> QED
    BY <1>5, <2>1, SoloReading, SoloOpenSession, SoloJoinSession DEF Text
<1>6. ASSUME NEW c \in Conns,
             \/ Reconcile(c) \/ ReceiveDiff(c) \/ DropDiff(c) \/ Fail(c)
             \/ Unfixable(c) \/ RefuseDiff(c) \/ AfterSidecar(c)
      PROVE  Same
  <2>1. crashes' = crashes
    BY <1>6 DEF Reconcile, ReceiveDiff, DropDiff, Fail, Unfixable, RefuseDiff, AfterSidecar
  <2> QED
    BY <1>6, <2>1, SoloMessage DEF Text
<1>7. ASSUME NEW c \in Conns, FinishSave(c) \/ Disconnect(c)
      PROVE  Same
  <2>1. crashes' = crashes
    BY <1>7 DEF FinishSave, Disconnect
  <2> QED
    BY <1>7, <2>1, SoloFinishSave, SoloDisconnect
<1>8. ASSUME NEW c \in Conns, WriteRow(c)
      PROVE  Log!Persist
  <2>1. crashes' = crashes
    BY <1>8 DEF WriteRow
  <2> QED
    BY <1>2, <1>8, <2>1, SoloWriteRow DEF Text
<1>9. ASSUME NEW c \in Conns, AcceptDiff(c)
      PROVE  Same \/ Log!Extend
  <2>1. crashes' = crashes
    BY <1>9, AcceptTakes
  <2> QED
    BY <1>9, <2>1, SoloAcceptDiff DEF Text, Log!Extend
<1> QED
  BY <1>1, <1>3, <1>4, <1>5, <1>6, <1>7, <1>8, <1>9 DEF Next, Progress, Log!Next

\* With one author at a time the session, its saves and the row together keep what the
\* abstract log promises: the text only grows, what is stored is always an earlier
\* state of it that never goes back, and only a crash takes the text back, to that.
THEOREM LogCorrect ==
    ASSUME MaxLive = 1
    PROVE  Spec => LogSpec
<1>1. Init => Log!Init
  BY DEF Init, Log!Init, Text, EmptyDoc
<1>2. TypeInv /\ TypeInv' /\ Served /\ Solo /\ [Next]_vars =>
        [Log!Next]_<<Text, row.content, crashes>>
  BY LogStep
<1> QED
  BY <1>1, <1>2, TypeInvariant, ServedInvariant, SoloInvariant, PTL DEF Spec, LogSpec, Log!Spec
=============================================================================
