------------------------ MODULE NativeSession_proofs ------------------------
(***************************************************************************)
(* Proofs about NativeSession, for any connections, lengths of the history *)
(* and intervals of the saves.                                             *)
(*                                                                         *)
(* TypeInv says who works on which session; from it follow the types and   *)
(* that a session that is registered is served.  LogsKept is about the     *)
(* lists of diffs, TextsReach about the texts and versions of every copy   *)
(* of the document, and SoloKept about one author at a time, whose texts   *)
(* and row are compared diff by diff.                                      *)
(***************************************************************************)
EXTENDS NativeSession, FiniteSetTheorems, SequenceTheorems, TLAPS

-----------------------------------------------------------------------------
(* The invariants.                                                         *)

\* A connection works on a session from the moment it found it until it forgets it.
Placed == \A c \in Conns :
    /\ at[c] \in {"out", "resolving"} <=> ref[c] = NoSession
    /\ c \in leaving => at[c] \in {"saving", "writing", "wrote", "removing"}
    /\ at[c] = "removing" => c \in leaving
\* Whoever is in a session works on it and is not about to go, unless its lock is poisoned.
Members == \A s \in 1..MaxSessions : \A c \in sessions[s].parts :
    s \notin poisoned => ref[c] = s /\ c \notin leaving /\ at[c] \notin {"initialising", "adding"}
Unmade == \A s \in 1..MaxSessions : s > made => sessions[s].pending = "none"
Rereads == \A t \in Tasks : refresh[t] # NoRefresh => refresh[t].s # NoSession
TypeInv == TypeOK /\ Placed /\ Members /\ Unmade /\ Rereads

\* The diffs are for version - 1, version - 2 and so on, counted from the newest.
Consecutive(d) == \A i \in 1..Len(d.diffs) : d.diffs[i].v = d.version - Len(d.diffs) + i - 1
\* Whoever has a diff to deal with has looked at the version of now.
Current(c) ==
    /\ at[c] \in {"behind", "checked", "applied"} => c \in Writers
    /\ at[c] \in {"checked", "applied"} => msg[c].v = My(c).version
    /\ at[c] = "behind" => msg[c].dv = My(c).version /\ msg[c].v <= msg[c].dv
LogsKept ==
    /\ Consecutive(row)
    /\ \A c \in Conns : Consecutive(brief[c]) /\ Consecutive(snap[c]) /\ Current(c)
    /\ \A s \in 1..MaxSessions : Consecutive(sessions[s]) /\ Consecutive(sessions[s].snap)

\* Those whose diff is in the text and not yet in the version.
Ahead(s) == {c \in Conns : ref[c] = s /\ at[c] = "applied"}
Reaches(d) == d.version <= Len(d.text)
TextsReach ==
    /\ Reaches(row)
    /\ \A c \in Conns : Reaches(brief[c]) /\ Reaches(snap[c])
    /\ \A s \in 1..MaxSessions :
          /\ sessions[s].version + Cardinality(Ahead(s)) <= Len(sessions[s].text)
          /\ Reaches(sessions[s].snap)
\* Two who write race for the next version between two scopes of the lock.
OneWriter == \A a, b \in Writers : a = b

-----------------------------------------------------------------------------
(* What a step makes of a session.                                         *)

Numbers == 1..MaxSessions
Sessions == [Numbers -> Session]
Same(s, r) == /\ r.text = s.text /\ r.version = s.version /\ r.diffs = s.diffs
              /\ r.saved = s.saved
Others(s) == \A r \in Numbers : r # s => sessions'[r] = sessions[r]

LEMMA SessionFields ==
    ASSUME NEW s \in Session
    PROVE  /\ s.text \in Seq(Nat) /\ s.version \in Nat /\ s.diffs \in Seq(Diff) /\ s.saved \in Nat
           /\ s.parts \subseteq Conns /\ s.pending \in Background /\ s.snap \in Doc
BY DEF Session

LEMMA DocFields ==
    ASSUME NEW d \in Doc
    PROVE  /\ d.text \in Seq(Nat) /\ d.version \in Nat /\ d.diffs \in Seq(Diff)
           /\ d.blank \in BOOLEAN
BY DEF Doc

LEMMA EmptyIsDoc ==
    /\ EmptyDoc \in Doc /\ EmptyDoc.text = <<>> /\ EmptyDoc.version = 0 /\ EmptyDoc.diffs = <<>>
BY EmptySeq DEF EmptyDoc, Doc

LEMMA NewestIsSeq ==
    ASSUME NEW S, NEW ds \in Seq(S), NEW n \in Nat
    PROVE  /\ Newest(ds, n) \in Seq(S)
           /\ Len(Newest(ds, n)) = IF n < Len(ds) THEN n ELSE Len(ds)
           /\ \A i \in 1..Len(Newest(ds, n)) :
                 Newest(ds, n)[i] = ds[Len(ds) - Len(Newest(ds, n)) + i]
<1>1. Len(ds) \in Nat
  OBVIOUS
<1>2. CASE n < Len(ds)
  <2> DEFINE r == SubSeq(ds, Len(ds) - n + 1, Len(ds))
  <2>1. Newest(ds, n) = r
    BY <1>2 DEF Newest
  <2>2. r \in Seq(S) /\ Len(r) = n /\ \A i \in 1..n : r[i] = ds[Len(ds) - n + i]
    <3>1. Len(ds) - n + 1 \in 1..(Len(ds) + 1) /\ Len(ds) \in 0..Len(ds)
      BY <1>1, <1>2
    <3>2. /\ r \in Seq(S)
          /\ Len(r) = IF Len(ds) - n + 1 <= Len(ds) THEN Len(ds) - (Len(ds) - n + 1) + 1 ELSE 0
          /\ \A i \in 1..Len(r) : r[i] = ds[Len(ds) - n + 1 + i - 1]
      <4>1. \A i \in Len(ds) - n + 1..Len(ds) : ds[i] \in S
        BY <1>1, <1>2
      <4> QED
        BY <1>1, <1>2, <4>1, SubSeqProperties
    <3>3. Len(r) = n
      BY <1>1, <1>2, <3>2
    <3>4. \A i \in 1..n : Len(ds) - n + 1 + i - 1 = Len(ds) - n + i
      BY <1>1
    <3> QED
      BY <3>2, <3>3, <3>4
  <2> HIDE DEF r
  <2> QED
    BY <1>2, <2>1, <2>2
<1>3. CASE ~(n < Len(ds))
  BY <1>1, <1>3 DEF Newest
<1> QED
  BY <1>2, <1>3

LEMMA NewSessionFields ==
    ASSUME NEW b \in Doc
    PROVE  /\ NewSession(b) \in Session
           /\ NewSession(b).text = b.text /\ NewSession(b).version = b.version
           /\ NewSession(b).diffs = Trim(b.diffs) /\ NewSession(b).saved = b.version
           /\ NewSession(b).parts = {} /\ NewSession(b).pending = "none"
           /\ NewSession(b).snap = EmptyDoc
<1>1. Trim(b.diffs) \in Seq(Diff)
  BY DocFields, NewestIsSeq, LengthAssumption DEF Trim
<1> DEFINE l == Trim(b.diffs)
<1> HIDE DEF l
<1>2. NewSession(b) = [text |-> b.text, version |-> b.version, diffs |-> l,
                  saved |-> b.version, parts |-> {}, pending |-> "none", snap |-> EmptyDoc]
  BY DEF l, NewSession
<1> QED
  BY <1>1, <1>2, DocFields, EmptyIsDoc DEF Session, Background, l

LEMMA Changed ==
    ASSUME sessions \in Sessions, NEW s \in Numbers, NEW e \in Session,
           sessions' = [sessions EXCEPT ![s] = e]
    PROVE  sessions' \in Sessions /\ sessions'[s] = e /\ Others(s)
BY DEF Sessions, Others

LEMMA SnapshotIsDoc ==
    ASSUME sessions \in Sessions, NEW s \in Numbers
    PROVE  /\ Snapshot(s) \in Doc
           /\ Snapshot(s).text = sessions[s].text /\ Snapshot(s).version = sessions[s].version
           /\ Snapshot(s).diffs = sessions[s].diffs
<1>1. sessions[s] \in Session
  BY DEF Sessions
<1> QED
  BY <1>1, SessionFields DEF Snapshot, Doc

\* The background task goes from one state to the next.
Paused(s, to, doc) ==
    /\ sessions' \in Sessions /\ Others(s) /\ Same(sessions[s], sessions'[s])
    /\ sessions'[s].parts = sessions[s].parts
    /\ sessions'[s].pending = to /\ sessions'[s].snap = doc

LEMMA Pauses ==
    ASSUME sessions \in Sessions, NEW s \in Numbers, NEW to \in Background, NEW doc \in Doc,
           sessions' = [sessions EXCEPT ![s].pending = to, ![s].snap = doc]
    PROVE  Paused(s, to, doc)
<1> DEFINE n == sessions[s]
           e == [n EXCEPT !.pending = to, !.snap = doc]
<1>1. n \in Session
  BY DEF Sessions
<1>2. sessions' = [sessions EXCEPT ![s] = e]
  BY DEF Sessions
<1> HIDE DEF n
<1>3. e \in Session /\ Same(n, e) /\ e.parts = n.parts /\ e.pending = to /\ e.snap = doc
  BY <1>1 DEF Session, Same
<1> HIDE DEF e
<1> QED
  BY <1>2, <1>3, Changed DEF Paused, n

LEMMA Spawns ==
    ASSUME sessions \in Sessions, NEW s \in Numbers, NEW f \in BOOLEAN, SpawnSave(s, f)
    PROVE  \/ sessions' = sessions /\ (sessions[s].pending # "none" \/ (~f /\ ~SaveNeeded(s)))
           \/ sessions[s].pending = "none" /\ Paused(s, "writing", Snapshot(s))
<1>1. CASE sessions[s].pending # "none" \/ (~f /\ ~SaveNeeded(s))
  BY <1>1 DEF SpawnSave
<1>2. CASE ~(sessions[s].pending # "none" \/ (~f /\ ~SaveNeeded(s)))
  <2>1. sessions' = [sessions EXCEPT ![s].pending = "writing", ![s].snap = Snapshot(s)]
    BY <1>2 DEF SpawnSave
  <2>2. "writing" \in Background
    BY DEF Background
  <2> QED
    BY <1>2, <2>1, <2>2, SnapshotIsDoc, Pauses
<1> QED
  BY <1>1, <1>2

\* Participants come and go.
Moved(s, parts) ==
    /\ sessions' \in Sessions /\ Others(s) /\ Same(sessions[s], sessions'[s])
    /\ sessions'[s].parts = parts
    /\ sessions'[s].pending = sessions[s].pending /\ sessions'[s].snap = sessions[s].snap

LEMMA Moves ==
    ASSUME sessions \in Sessions, NEW s \in Numbers, NEW parts \in SUBSET Conns,
           sessions' = [sessions EXCEPT ![s].parts = parts]
    PROVE  Moved(s, parts)
<1> DEFINE n == sessions[s]
           e == [n EXCEPT !.parts = parts]
<1>1. n \in Session
  BY DEF Sessions
<1>2. sessions' = [sessions EXCEPT ![s] = e]
  BY DEF Sessions
<1> HIDE DEF n
<1>3. e \in Session /\ Same(n, e) /\ e.parts = parts /\ e.pending = n.pending /\ e.snap = n.snap
  BY <1>1 DEF Session, Same
<1> HIDE DEF e
<1> QED
  BY <1>2, <1>3, Changed DEF Moved, n

\* A diff comes into the text, ...
Grown(s, id) ==
    /\ sessions' \in Sessions /\ Others(s)
    /\ sessions'[s].text = Append(sessions[s].text, id)
    /\ sessions'[s].version = sessions[s].version /\ sessions'[s].diffs = sessions[s].diffs
    /\ sessions'[s].saved = sessions[s].saved /\ sessions'[s].parts = sessions[s].parts
    /\ sessions'[s].pending = sessions[s].pending /\ sessions'[s].snap = sessions[s].snap

LEMMA Grows ==
    ASSUME sessions \in Sessions, NEW s \in Numbers, NEW id \in Nat,
           sessions' = [sessions EXCEPT ![s].text = Append(@, id)]
    PROVE  Grown(s, id)
<1> DEFINE n == sessions[s]
           longer == Append(n.text, id)
           e == [n EXCEPT !.text = longer]
<1>1. n \in Session
  BY DEF Sessions
<1>2. sessions' = [sessions EXCEPT ![s] = e]
  BY DEF Sessions
<1> HIDE DEF n
<1>3. longer \in Seq(Nat)
  BY <1>1, SessionFields, AppendProperties
<1> HIDE DEF longer
<1>4. /\ e \in Session /\ e.text = longer /\ e.version = n.version /\ e.diffs = n.diffs
      /\ e.saved = n.saved /\ e.parts = n.parts /\ e.pending = n.pending /\ e.snap = n.snap
  BY <1>1, <1>3 DEF Session
<1> HIDE DEF e
<1> QED
  BY <1>2, <1>4, Changed DEF Grown, n, longer

\* ... and into the list of diffs.
Counted(s, m) ==
    /\ sessions' \in Sessions /\ Others(s)
    /\ sessions'[s].text = sessions[s].text /\ sessions'[s].version = sessions[s].version + 1
    /\ sessions'[s].diffs = Trim(Append(sessions[s].diffs, [v |-> m.v, id |-> m.id]))
    /\ sessions'[s].saved = sessions[s].saved /\ sessions'[s].parts = sessions[s].parts
    /\ sessions'[s].pending = sessions[s].pending /\ sessions'[s].snap = sessions[s].snap

LEMMA Counts ==
    ASSUME sessions \in Sessions, NEW s \in Numbers, NEW m \in [v : Nat, dv : Nat, id : Nat],
           sessions' = [sessions EXCEPT ![s] = Logged(@, m)]
    PROVE  Counted(s, m)
<1> DEFINE n == sessions[s]
           d == [v |-> m.v, id |-> m.id]
           list == Trim(Append(n.diffs, d))
           next == n.version + 1
           e == [n EXCEPT !.diffs = list, !.version = next]
<1>1. n \in Session
  BY DEF Sessions
<1>2. sessions' = [sessions EXCEPT ![s] = e]
  BY DEF Sessions, Logged
<1> HIDE DEF n
<1>3. list \in Seq(Diff)
  <2>1. d \in Diff
    BY DEF Diff
  <2> HIDE DEF d
  <2>2. Append(n.diffs, d) \in Seq(Diff)
    BY <1>1, <2>1, SessionFields, AppendProperties
  <2> QED
    BY <2>2, NewestIsSeq, LengthAssumption DEF Trim
<1> HIDE DEF list
<1>4. next \in Nat
  BY <1>1, SessionFields
<1> HIDE DEF next
<1>5. /\ e \in Session /\ e.text = n.text /\ e.version = next /\ e.diffs = list
      /\ e.saved = n.saved /\ e.parts = n.parts /\ e.pending = n.pending /\ e.snap = n.snap
  BY <1>1, <1>3, <1>4 DEF Session
<1> HIDE DEF e
<1> QED
  BY <1>2, <1>5, Changed DEF Counted, n, list, next

\* What counts as saved is the version of now.
Stored(s, to) ==
    /\ sessions' \in Sessions /\ Others(s)
    /\ sessions'[s].text = sessions[s].text /\ sessions'[s].version = sessions[s].version
    /\ sessions'[s].diffs = sessions[s].diffs /\ sessions'[s].saved = sessions[s].version
    /\ sessions'[s].parts = sessions[s].parts
    /\ sessions'[s].pending = to /\ sessions'[s].snap = sessions[s].snap

LEMMA Stores ==
    ASSUME sessions \in Sessions, NEW s \in Numbers, NEW to \in Background,
           \/ sessions' = Saved(s) /\ to = sessions[s].pending
           \/ sessions' = [Saved(s) EXCEPT ![s].pending = to]
    PROVE  Stored(s, to)
<1> DEFINE n == sessions[s]
           f == [n EXCEPT !.saved = n.version]
           e == [n EXCEPT !.saved = n.version, !.pending = to]
<1>1. n \in Session
  BY DEF Sessions
<1>2. \/ sessions' = [sessions EXCEPT ![s] = f] /\ to = n.pending
      \/ sessions' = [sessions EXCEPT ![s] = e]
  BY DEF Sessions, Saved
<1> HIDE DEF n
<1>3. /\ e \in Session /\ e.text = n.text /\ e.version = n.version /\ e.diffs = n.diffs
      /\ e.saved = n.version /\ e.parts = n.parts /\ e.pending = to /\ e.snap = n.snap
  BY <1>1 DEF Session
<1>4. to = n.pending =>
      /\ f \in Session /\ f.text = n.text /\ f.version = n.version /\ f.diffs = n.diffs
      /\ f.saved = n.version /\ f.parts = n.parts /\ f.pending = to /\ f.snap = n.snap
  BY <1>1 DEF Session
<1> HIDE DEF e, f
<1> QED
  BY <1>2, <1>3, <1>4, Changed DEF Stored, n

-----------------------------------------------------------------------------
(* Types, and who works on which session.                                  *)

SavePlaces == {"saving", "writing", "wrote", "removing"}

LEMMA Facts ==
    ASSUME TypeInv, NEW c \in Conns
    PROVE  /\ sessions \in Sessions /\ at[c] \in Places /\ ref[c] \in 0..made
           /\ MaxSessions \in Nat /\ made \in 0..MaxSessions /\ 1..made \subseteq Numbers
           /\ msg[c] \in [v : Nat, dv : Nat, id : Nat]
           /\ msg[c].v \in Nat /\ msg[c].dv \in Nat /\ msg[c].id \in Nat
           /\ brief[c] \in Doc /\ snap[c] \in Doc /\ own[c] \in Rights /\ ctx[c] \in Rights
           /\ at[c] \notin {"out", "resolving"} => ref[c] # NoSession
           /\ ref[c] # NoSession => /\ at[c] \notin {"out", "resolving"}
                                    /\ ref[c] \in 1..made /\ ref[c] \in Numbers
                                    /\ My(c) \in Session
<1>1. /\ sessions \in Sessions /\ at[c] \in Places /\ ref[c] \in 0..made
      /\ MaxSessions \in Nat /\ made \in 0..MaxSessions
      /\ msg[c] \in [v : Nat, dv : Nat, id : Nat]
      /\ brief[c] \in Doc /\ snap[c] \in Doc /\ own[c] \in Rights /\ ctx[c] \in Rights
  BY BoundAssumption DEF TypeInv, TypeOK, Sessions, Numbers
<1>2. at[c] \in {"out", "resolving"} <=> ref[c] = NoSession
  BY DEF TypeInv, Placed
<1>3. 1..made \subseteq Numbers
  BY <1>1 DEF Numbers
<1>4. ref[c] # NoSession => ref[c] \in 1..made
  BY <1>1 DEF NoSession
<1>5. \A s \in Numbers : sessions[s] \in Session
  BY <1>1 DEF Sessions
<1> QED
  BY <1>1, <1>2, <1>3, <1>4, <1>5 DEF My

\* A connection goes on working on its session.
Stays(c, p) ==
    /\ at' = [at EXCEPT ![c] = p] /\ p \in Places \ {"out", "resolving"}
    /\ UNCHANGED <<ref, leaving, made, refresh, locks>>
    /\ c \in leaving => p \in SavePlaces
    /\ p = "removing" => c \in leaving

\* Nothing but the parts that this is not about changes in sessions.
Quiet == /\ sessions' \in Sessions
         /\ \A s \in Numbers : sessions'[s].parts = sessions[s].parts
         /\ \A s \in Numbers : s > made => sessions'[s].pending = sessions[s].pending

LEMMA StaysOK ==
    ASSUME TypeInv, NEW c \in Conns, NEW p, Stays(c, p), ref[c] # NoSession, Quiet,
           p \in {"initialising", "adding"} => at[c] \in {"initialising", "adding"}
    PROVE  /\ at' \in [Conns -> Places] /\ Placed' /\ Members' /\ Unmade' /\ Rereads'
           /\ at'[c] = p /\ \A d \in Conns \ {c} : at'[d] = at[d]
<1>1. at \in [Conns -> Places] /\ Placed /\ Members /\ Unmade /\ Rereads
  BY DEF TypeInv, TypeOK
<1>2. /\ at' \in [Conns -> Places] /\ at'[c] = p /\ \A d \in Conns \ {c} : at'[d] = at[d]
      /\ UNCHANGED <<ref, leaving, made, refresh, locks>>
  BY <1>1 DEF Stays
<1>3. Placed'
  BY <1>1, <1>2 DEF Placed, Stays, SavePlaces
<1>4. Members'
  <2>1. sessions \in [1..MaxSessions -> Session]
    BY DEF TypeInv, TypeOK
  <2>2. ASSUME NEW s \in 1..MaxSessions, s \notin poisoned, NEW d \in sessions'[s].parts
        PROVE  ref'[d] = s /\ d \notin leaving' /\ at'[d] \notin {"initialising", "adding"}
    <3>1. d \in sessions[s].parts
      BY <2>2 DEF Quiet, Numbers
    <3>2. d \in Conns /\ ref[d] = s /\ d \notin leaving /\ at[d] \notin {"initialising", "adding"}
      BY <1>1, <2>1, <2>2, <3>1, SessionFields DEF Members
    <3> QED
      BY <1>2, <3>2
  <2> QED
    BY <1>2, <2>2 DEF Members, locks
<1>5. Unmade' /\ Rereads'
  BY <1>1, <1>2 DEF Unmade, Rereads, Quiet, Numbers
<1> QED
  BY <1>2, <1>3, <1>4, <1>5

LEMMA QuietOne ==
    ASSUME TypeInv, NEW s \in 1..made, sessions' \in Sessions, Others(s),
           sessions'[s].parts = sessions[s].parts
    PROVE  Quiet
<1>1. made \in 0..MaxSessions /\ MaxSessions \in Nat
  BY BoundAssumption DEF TypeInv, TypeOK
<1> QED
  BY <1>1 DEF Quiet, Others, Numbers

\* The next place of a task that is done with a message, or with a save.
DonePlace(c) == IF c \in kicked THEN "closing" ELSE "idle"
SavedPlace(c) == IF c \in leaving THEN "removing" ELSE DonePlace(c)

LEMMA DoneStays ==
    ASSUME NEW c \in Conns, Done(c), c \notin leaving, UNCHANGED <<ref, leaving, made, refresh, locks>>
    PROVE  Stays(c, DonePlace(c))
BY DEF Done, Goto, Stays, DonePlace, Places

LEMMA SavedStays ==
    ASSUME NEW c \in Conns, AfterSave(c), UNCHANGED <<ref, leaving, made, refresh, locks>>
    PROVE  Stays(c, SavedPlace(c))
BY DEF AfterSave, Done, Goto, Stays, DonePlace, SavedPlace, Places, SavePlaces

LEMMA NotLeaving ==
    ASSUME TypeInv, NEW c \in Conns, at[c] \notin SavePlaces
    PROVE  c \notin leaving
BY DEF TypeInv, Placed, SavePlaces

LEMMA TypesStay ==
    ASSUME TypeInv, NEW c \in Conns, NEW p, Stays(c, p), ref[c] # NoSession, Quiet,
           p \in {"initialising", "adding"} => at[c] \in {"initialising", "adding"},
           UNCHANGED <<scenario, right, registry, ctx, kicked>>, row' \in Doc,
           brief' \in [Conns -> Doc], snap' \in [Conns -> Doc], own' \in [Conns -> Rights],
           msg' \in [Conns -> [v : Nat, dv : Nat, id : Nat]], confirmed' \subseteq Nat,
           used' \in [diffs : Nat, connects : Nat, changes : Nat]
    PROVE  TypeInv'
<1>1. /\ at' \in [Conns -> Places] /\ Placed' /\ Members' /\ Unmade' /\ Rereads'
  BY StaysOK
<1>2. UNCHANGED <<ref, leaving, made, refresh, locks>> /\ sessions' \in [1..MaxSessions -> Session]
  BY DEF Stays, Quiet, Sessions, Numbers
<1>3. TypeOK'
  BY <1>1, <1>2 DEF TypeInv, TypeOK, locks
<1> QED
  BY <1>1, <1>3 DEF TypeInv

LEMMA TypeParts ==
    ASSUME TypeInv
    PROVE  /\ row \in Doc /\ brief \in [Conns -> Doc] /\ snap \in [Conns -> Doc]
           /\ own \in [Conns -> Rights] /\ ctx \in [Conns -> Rights]
           /\ msg \in [Conns -> [v : Nat, dv : Nat, id : Nat]] /\ confirmed \subseteq Nat
           /\ used \in [diffs : Nat, connects : Nat, changes : Nat]
           /\ at \in [Conns -> Places] /\ ref \in [Conns -> 0..made]
           /\ sessions \in Sessions
           /\ made \in Nat /\ made <= MaxSessions /\ MaxSessions \in Nat
           /\ registry \in 0..made /\ right \in [Conns -> Rights]
           /\ NoMsg \in [v : Nat, dv : Nat, id : Nat] /\ EmptyDoc \in Doc
BY EmptyIsDoc, BoundAssumption DEF TypeInv, TypeOK, NoMsg, Sessions, Numbers

LEMMA SameQuiet == ASSUME TypeInv, sessions' = sessions PROVE Quiet
BY TypeParts DEF Quiet

\* The steps of a task that works on a session and stays in it.
WorkStep(c) ==
    \/ Initialise(c) \/ CopyContext(c) \/ CheckVersion(c) \/ ReceiveDiff(c) \/ FixBehind(c)
    \/ ApplySteps(c) \/ PushDiff(c) \/ LookIfDue(c) \/ SaveDue(c) \/ StartSave(c) \/ WriteRow(c)
    \/ FailWrite(c) \/ MarkSaved(c)

LEMMA SpawnQuiet ==
    ASSUME TypeInv, NEW s \in 1..made, NEW f \in BOOLEAN, SpawnSave(s, f)
    PROVE  Quiet
<1>1. sessions \in Sessions /\ s \in Numbers
  BY TypeParts DEF Numbers
<1>2. sessions' = sessions \/ Paused(s, "writing", Snapshot(s))
  BY <1>1, Spawns
<1> QED
  BY <1>2, SameQuiet, QuietOne DEF Paused

LEMMA TypeWork ==
    ASSUME TypeInv, NEW c \in Conns, WorkStep(c)
    PROVE  TypeInv' /\ ref[c] # NoSession
<1>0. /\ sessions \in Sessions /\ at[c] \in Places
      /\ at[c] \notin {"out", "resolving"} => ref[c] # NoSession
      /\ ref[c] # NoSession => ref[c] \in 1..made /\ ref[c] \in Numbers /\ My(c) \in Session
      /\ msg[c] \in [v : Nat, dv : Nat, id : Nat] /\ msg[c].id \in Nat
      /\ own[c] \in Rights /\ ctx[c] \in Rights /\ snap[c] \in Doc
  BY Facts
<1> USE TypeParts
<1>1. at[c] \notin {"out", "resolving"}
  BY DEF WorkStep, Initialise, CopyContext, CheckVersion, ReceiveDiff, FixBehind, ApplySteps,
         PushDiff, LookIfDue, SaveDue, StartSave, WriteRow, FailWrite, MarkSaved
<1>2. ref[c] # NoSession /\ ref[c] \in 1..made /\ ref[c] \in Numbers /\ My(c) \in Session
  BY <1>0, <1>1
<1>3. at[c] \notin SavePlaces => c \notin leaving
  BY NotLeaving
<1>4. CASE Initialise(c)
  <2>1. Stays(c, "adding") /\ Quiet /\ at[c] = "initialising"
    BY <1>2, <1>3, <1>4, SpawnQuiet DEF Initialise, Goto, Stays, Places, SavePlaces
  <2> QED
    BY <1>2, <1>4, <2>1, TypesStay DEF Initialise
<1>5. CASE CopyContext(c)
  <2>1. Stays(c, "idle") /\ Quiet
    BY <1>3, <1>5, SameQuiet DEF CopyContext, Goto, Stays, Places, SavePlaces
  <2>2. own' \in [Conns -> Rights]
    BY <1>0, <1>5 DEF CopyContext
  <2> QED
    BY <1>2, <1>5, <2>1, <2>2, TypesStay DEF CopyContext
<1>6. ASSUME c \notin leaving, UNCHANGED <<ref, leaving, made, refresh, locks>>,
             \E v, version, ds : CatchUp(c, v, version, ds)
      PROVE  \E p \in {"idle", "closing", "saving"} : Stays(c, p)
  <2>1. Done(c) \/ Goto(c, "saving")
    BY <1>6 DEF CatchUp
  <2>2. Stays(c, DonePlace(c)) \/ Stays(c, "saving")
    BY <1>6, <2>1, DoneStays DEF Goto, Stays, Places, SavePlaces
  <2> QED
    BY <2>2 DEF DonePlace
<1>7. CASE CheckVersion(c)
  <2>1. c \notin leaving
    BY <1>3, <1>7 DEF CheckVersion, SavePlaces
  <2>2. \E p \in {"idle", "closing", "saving"} : Stays(c, p)
    <3>1. CASE Goto(c, "saving")
      BY <1>7, <2>1, <3>1 DEF CheckVersion, Goto, Stays, Places, SavePlaces
    <3>2. CASE \E v \in 0..(My(c).version - 1) : CatchUp(c, v, My(c).version, My(c).diffs)
      BY <1>6, <1>7, <2>1, <3>2 DEF CheckVersion
    <3> QED
      BY <1>7, <3>1, <3>2 DEF CheckVersion
  <2>3. UNCHANGED sessions
    BY <1>7 DEF CheckVersion
  <2> QED
    BY <1>2, <1>7, <2>2, <2>3, SameQuiet, TypesStay DEF CheckVersion
<1>8. CASE ReceiveDiff(c)
  <2>1. c \notin leaving
    BY <1>3, <1>8 DEF ReceiveDiff, SavePlaces
  <2>2. \E p \in {"checked", "behind", "saving"} : Stays(c, p)
    BY <1>8, <2>1 DEF ReceiveDiff, Goto, Stays, Places, SavePlaces
  <2>3. used' \in [diffs : Nat, connects : Nat, changes : Nat] /\ used'.diffs \in Nat
    <3>1. used' = [used EXCEPT !.diffs = @ + 1]
      BY <1>8 DEF ReceiveDiff
    <3> QED
      BY <3>1
  <2>4. msg' \in [Conns -> [v : Nat, dv : Nat, id : Nat]]
    <3>1. CASE UNCHANGED msg
      BY <3>1
    <3>2. CASE \E v \in 0..My(c).version :
                 msg' = [msg EXCEPT ![c] = [v |-> v, dv |-> My(c).version, id |-> used'.diffs]]
      BY <1>2, <2>3, <3>2, SessionFields
    <3> QED
      BY <1>8, <3>1, <3>2 DEF ReceiveDiff
  <2>5. UNCHANGED sessions
    BY <1>8 DEF ReceiveDiff
  <2> QED
    BY <1>2, <1>8, <2>2, <2>3, <2>4, <2>5, SameQuiet, TypesStay DEF ReceiveDiff
<1>9. ASSUME UNCHANGED msg \/ msg' = [msg EXCEPT ![c] = NoMsg]
      PROVE  msg' \in [Conns -> [v : Nat, dv : Nat, id : Nat]]
  BY <1>9
<1>10. CASE FixBehind(c)
  <2>1. c \notin leaving
    BY <1>3, <1>10 DEF FixBehind, SavePlaces
  <2>2. \E p \in {"idle", "closing", "saving"} : Stays(c, p)
    BY <1>6, <1>10, <2>1 DEF FixBehind
  <2>3. UNCHANGED sessions /\ msg' = [msg EXCEPT ![c] = NoMsg]
    BY <1>10 DEF FixBehind
  <2> QED
    BY <1>2, <1>9, <1>10, <2>2, <2>3, SameQuiet, TypesStay DEF FixBehind
<1>11. CASE ApplySteps(c)
  <2>1. c \notin leaving
    BY <1>3, <1>11 DEF ApplySteps, SavePlaces
  <2>2. \E p \in {"applied", "saving"} : Stays(c, p)
    BY <1>11, <2>1 DEF ApplySteps, Refused, Goto, Stays, Places, SavePlaces
  <2>3. Quiet
    <3>1. CASE UNCHANGED sessions
      BY <3>1, SameQuiet
    <3>2. CASE sessions' = [sessions EXCEPT ![ref[c]].text = Append(@, msg[c].id)]
      BY <1>0, <1>2, <3>2, Grows, QuietOne DEF Grown
    <3> QED
      BY <1>11, <3>1, <3>2 DEF ApplySteps
  <2>4. msg' \in [Conns -> [v : Nat, dv : Nat, id : Nat]]
    BY <1>9, <1>11 DEF ApplySteps, Refused
  <2> QED
    BY <1>2, <1>11, <2>2, <2>3, <2>4, TypesStay DEF ApplySteps
<1>12. CASE PushDiff(c)
  <2>1. Stays(c, "pushed")
    BY <1>3, <1>12 DEF PushDiff, Goto, Stays, Places, SavePlaces
  <2>2. sessions' = [sessions EXCEPT ![ref[c]] = Logged(@, msg[c])]
    BY <1>12 DEF PushDiff
  <2>3. Quiet
    BY <1>0, <1>2, <2>2, Counts, QuietOne DEF Counted
  <2> QED
    BY <1>2, <1>12, <2>1, <2>3, TypesStay DEF PushDiff
<1>13. ASSUME Confirm(c), c \notin leaving, UNCHANGED <<ref, leaving, made, refresh, locks>>
       PROVE  /\ \E p \in {"idle", "closing"} : Stays(c, p)
              /\ msg' \in [Conns -> [v : Nat, dv : Nat, id : Nat]] /\ confirmed' \subseteq Nat
  <2>1. Stays(c, DonePlace(c))
    BY <1>13, DoneStays DEF Confirm
  <2> QED
    BY <1>0, <1>9, <1>13, <2>1 DEF Confirm, DonePlace
<1>14. CASE LookIfDue(c)
  <2>1. c \notin leaving
    BY <1>3, <1>14 DEF LookIfDue, SavePlaces
  <2>2. UNCHANGED <<ref, leaving, made, refresh, locks, sessions>>
    BY <1>14 DEF LookIfDue
  <2>3. /\ \E p \in {"idle", "closing", "due"} : Stays(c, p)
        /\ msg' \in [Conns -> [v : Nat, dv : Nat, id : Nat]] /\ confirmed' \subseteq Nat
    <3>1. CASE Goto(c, "due") /\ UNCHANGED <<msg, confirmed>>
      BY <2>1, <2>2, <3>1 DEF Goto, Stays, Places, SavePlaces
    <3>2. CASE Confirm(c)
      BY <1>13, <2>1, <2>2, <3>2
    <3> QED
      BY <1>14, <3>1, <3>2 DEF LookIfDue
  <2> QED
    BY <1>2, <1>14, <2>2, <2>3, SameQuiet, TypesStay DEF LookIfDue
<1>15. CASE SaveDue(c)
  <2>1. c \notin leaving /\ Quiet /\ UNCHANGED <<ref, leaving, made, refresh, locks>> /\ Confirm(c)
    BY <1>2, <1>3, <1>15, SpawnQuiet DEF SaveDue, SavePlaces
  <2>2. /\ \E p \in {"idle", "closing"} : Stays(c, p)
        /\ msg' \in [Conns -> [v : Nat, dv : Nat, id : Nat]] /\ confirmed' \subseteq Nat
    BY <1>13, <2>1
  <2> QED
    BY <1>2, <1>15, <2>1, <2>2, TypesStay DEF SaveDue
<1>16. ASSUME AfterSave(c), UNCHANGED <<ref, leaving, made, refresh, locks>>
       PROVE  \E p \in {"idle", "closing", "removing"} : Stays(c, p)
  <2>1. Stays(c, SavedPlace(c))
    BY <1>16, SavedStays
  <2> QED
    BY <2>1 DEF SavedPlace, DonePlace
<1>17. CASE StartSave(c)
  <2>1. UNCHANGED <<ref, leaving, made, refresh, locks, sessions>>
    BY <1>17 DEF StartSave
  <2>2. snap' \in [Conns -> Doc] /\ \E p \in {"writing", "idle", "closing", "removing"} : Stays(c, p)
    <3>1. CASE snap' = [snap EXCEPT ![c] = Snapshot(ref[c])] /\ Goto(c, "writing")
      BY <1>2, <2>1, <3>1, SnapshotIsDoc DEF Goto, Stays, Places, SavePlaces
    <3>2. CASE AfterSave(c) /\ UNCHANGED snap
      BY <1>16, <2>1, <3>2
    <3> QED
      BY <1>17, <3>1, <3>2 DEF StartSave
  <2> QED
    BY <1>2, <1>17, <2>1, <2>2, SameQuiet, TypesStay DEF StartSave
<1>18. CASE WriteRow(c)
  <2>1. Stays(c, "wrote") /\ UNCHANGED sessions /\ row' \in Doc /\ snap' \in [Conns -> Doc]
    BY <1>0, <1>18 DEF WriteRow, Goto, Stays, Places, SavePlaces
  <2> QED
    BY <1>2, <1>18, <2>1, SameQuiet, TypesStay DEF WriteRow
<1>19. CASE FailWrite(c)
  <2>1. /\ AfterSave(c) /\ UNCHANGED <<ref, leaving, made, refresh, locks>> /\ UNCHANGED sessions
        /\ snap' \in [Conns -> Doc]
    BY <1>19 DEF FailWrite
  <2> QED
    BY <1>2, <1>16, <1>19, <2>1, SameQuiet, TypesStay DEF FailWrite
<1>20. CASE MarkSaved(c)
  <2>1. AfterSave(c) /\ UNCHANGED <<ref, leaving, made, refresh, locks>> /\ sessions' = Saved(ref[c])
    BY <1>20 DEF MarkSaved
  <2>2. My(c).pending \in Background
    BY <1>2, SessionFields
  <2>3. Stored(ref[c], My(c).pending)
    BY <1>0, <1>2, <2>1, <2>2, Stores DEF My
  <2>4. Quiet
    BY <1>2, <2>3, QuietOne DEF Stored
  <2> QED
    BY <1>2, <1>16, <1>20, <2>1, <2>4, TypesStay DEF MarkSaved
<1> QED
  BY <1>2, <1>4, <1>5, <1>7, <1>8, <1>10, <1>11, <1>12, <1>14, <1>15, <1>17, <1>18, <1>19, <1>20
  DEF WorkStep

\* Somebody who is in no session is nobody's participant.
LEMMA Outside ==
    ASSUME TypeInv, NEW c \in Conns, ref[c] = NoSession, NEW s \in Numbers
    PROVE  (s \notin poisoned => c \notin sessions[s].parts) /\ c \notin leaving
<1>1. s # NoSession /\ s \notin poisoned /\ c \in sessions[s].parts => ref[c] = s
  BY DEF TypeInv, Members, Numbers
<1>2. s # NoSession
  BY TypeParts DEF Numbers, NoSession
<1>3. c \in leaving => at[c] \notin {"out", "resolving"}
  BY DEF TypeInv, Placed
<1>4. at[c] \in {"out", "resolving"}
  BY DEF TypeInv, Placed
<1> QED
  BY <1>1, <1>2, <1>3, <1>4

LEMMA TypeArrive ==
    ASSUME TypeInv, NEW c \in Conns, LoadRow(c) \/ Deny(c)
    PROVE  TypeInv'
<1>1. /\ at \in [Conns -> Places] /\ brief \in [Conns -> Doc] /\ row \in Doc /\ EmptyDoc \in Doc
      /\ used \in [diffs : Nat, connects : Nat, changes : Nat]
  BY TypeParts
<1>2. \E p \in {"out", "resolving"} : at' = [at EXCEPT ![c] = p]
  BY DEF LoadRow, Deny, Goto
<1>3. at[c] \in {"out", "resolving"} /\ ref[c] = NoSession
  BY DEF LoadRow, Deny, TypeInv, Placed
<1>4. UNCHANGED <<scenario, row, right, registry, sessions, made, ref, ctx, own, kicked, leaving,
                   msg, snap, refresh, locks, confirmed>>
  BY DEF LoadRow, Deny
<1>5. brief' \in [Conns -> Doc]
  BY <1>1 DEF LoadRow, Deny
<1>6. used' \in [diffs : Nat, connects : Nat, changes : Nat]
  <2>1. CASE used' = used
    BY <1>1, <2>1
  <2>2. CASE used' = [used EXCEPT !.connects = @ + 1]
    BY <1>1, <2>2
  <2> QED
    BY <2>1, <2>2 DEF LoadRow, Deny
<1>7. at' \in [Conns -> Places] /\ \A d \in Conns \ {c} : at'[d] = at[d]
  BY <1>1, <1>2 DEF Places
<1>8. at'[c] \in {"out", "resolving"}
  BY <1>1, <1>2
<1>9. TypeOK'
  BY <1>4, <1>5, <1>6, <1>7 DEF TypeInv, TypeOK, locks
<1>10. Placed' /\ Unmade' /\ Rereads'
  BY <1>3, <1>4, <1>7, <1>8 DEF TypeInv, Placed, Unmade, Rereads
<1>11. Members'
  <2>1. \A s \in Numbers : s \notin poisoned => c \notin sessions[s].parts
    BY <1>3, Outside
  <2>2. \A s \in Numbers : sessions[s].parts \subseteq Conns
    BY TypeParts, SessionFields DEF Sessions
  <2> QED
    BY <1>4, <1>7, <2>1, <2>2 DEF TypeInv, Members, Numbers, locks
<1> QED
  BY <1>9, <1>10, <1>11 DEF TypeInv

LEMMA TypeOpen ==
    ASSUME TypeInv, NEW c \in Conns, OpenOrJoin(c)
    PROVE  TypeInv' /\ ref[c] = NoSession /\ ref'[c] # NoSession /\ ref'[c] = registry'
<1>1. /\ at \in [Conns -> Places] /\ brief \in [Conns -> Doc] /\ EmptyDoc \in Doc
      /\ ctx \in [Conns -> Rights] /\ right \in [Conns -> Rights] /\ brief[c] \in Doc
      /\ ref \in [Conns -> 0..made] /\ sessions \in Sessions /\ registry \in 0..made
      /\ made \in Nat /\ made <= MaxSessions /\ MaxSessions \in Nat
  BY TypeParts
<1>2. at[c] = "resolving" /\ ref[c] = NoSession
  BY DEF OpenOrJoin, TypeInv, Placed
<1>3. UNCHANGED <<scenario, row, right, own, kicked, leaving, msg, snap, refresh, locks, confirmed, used>>
  BY DEF OpenOrJoin
<1>4. /\ brief' \in [Conns -> Doc] /\ ctx' \in [Conns -> Rights]
  BY <1>1 DEF OpenOrJoin
<1>5. \E n \in 1..MaxSessions :
        /\ ref' = [ref EXCEPT ![c] = n] /\ registry' = n /\ n <= made'
        /\ made' \in Nat /\ made' <= MaxSessions /\ made <= made'
  <2>1. CASE registry # NoSession /\ ref' = [ref EXCEPT ![c] = registry] /\ UNCHANGED <<made, registry>>
    <3>1. registry \in 1..MaxSessions /\ registry <= made' /\ made' \in Nat /\ made' <= MaxSessions
      BY <1>1, <2>1 DEF NoSession
    <3>2. made <= made' /\ registry' = registry
      BY <1>1, <2>1
    <3> QED
      BY <2>1, <3>1, <3>2
  <2>2. CASE /\ registry = NoSession /\ made < MaxSessions /\ made' = made + 1
             /\ registry' = made + 1 /\ ref' = [ref EXCEPT ![c] = made + 1]
    <3>1. made + 1 \in 1..MaxSessions /\ made + 1 <= made' /\ made <= made'
      BY <1>1, <2>2
    <3>2. made' \in Nat /\ made' <= MaxSessions
      BY <1>1, <2>2
    <3> QED
      BY <2>2, <3>1, <3>2
  <2> QED
    BY <2>1, <2>2 DEF OpenOrJoin
<1>6. /\ sessions' \in Sessions
      /\ \A s \in Numbers : sessions'[s].parts = sessions[s].parts \/ sessions'[s].parts = {}
      /\ \A s \in Numbers : s > made' => sessions'[s].pending = sessions[s].pending
  <2>1. CASE UNCHANGED <<sessions, made>>
    BY <1>1, <2>1
  <2>2. CASE /\ made < MaxSessions /\ made' = made + 1
             /\ sessions' = [sessions EXCEPT ![made + 1] = NewSession(brief[c])]
    <3>1. made + 1 \in Numbers
      BY <1>1, <2>2 DEF Numbers
    <3>2. sessions' \in Sessions /\ sessions'[made + 1] = NewSession(brief[c]) /\ Others(made + 1)
      BY <1>1, <2>2, <3>1, NewSessionFields, Changed
    <3>3. NewSession(brief[c]).parts = {}
      BY <1>1, NewSessionFields
    <3> QED
      BY <1>1, <2>2, <3>1, <3>2, <3>3 DEF Others, Numbers
  <2> QED
    BY <2>1, <2>2 DEF OpenOrJoin
<1>7. \E p \in {"initialising", "adding"} : at' = [at EXCEPT ![c] = p]
  BY DEF OpenOrJoin, Goto
<1>8. /\ at' \in [Conns -> Places] /\ \A d \in Conns \ {c} : at'[d] = at[d]
      /\ at'[c] \in {"initialising", "adding"}
  BY <1>1, <1>7 DEF Places
<1>9. /\ ref'[c] # NoSession /\ ref'[c] = registry' /\ \A d \in Conns \ {c} : ref'[d] = ref[d]
      /\ ref' \in [Conns -> 0..made'] /\ registry' \in 0..made' /\ made' \in 0..MaxSessions
  BY <1>1, <1>5 DEF NoSession
<1>10. refresh' \in [Tasks -> [s : 0..made', rights : [Conns -> Rights]]]
  <2>1. refresh \in [Tasks -> [s : 0..made, rights : [Conns -> Rights]]]
    BY DEF TypeInv, TypeOK
  <2>2. 0..made \subseteq 0..made'
    BY <1>1, <1>5
  <2> QED
    BY <1>3, <2>1, <2>2
<1>17. poisoned' \subseteq 1..made' /\ UNCHANGED <<poisoned, watching>>
  <2>1. poisoned \subseteq 1..made
    BY DEF TypeInv, TypeOK
  <2>2. 1..made \subseteq 1..made'
    BY <1>1, <1>5
  <2> QED
    BY <1>3, <2>1, <2>2 DEF locks
<1>11. TypeOK'
  BY <1>3, <1>4, <1>6, <1>8, <1>9, <1>10, <1>17 DEF TypeInv, TypeOK, Sessions, Numbers
<1>12. \A s \in Numbers : /\ s \notin poisoned => c \notin sessions[s].parts
                          /\ sessions[s].parts \subseteq Conns
  BY <1>1, <1>2, Outside, SessionFields DEF Sessions
<1>13. c \notin leaving
  BY <1>2 DEF TypeInv, Placed
<1>14. Placed' /\ Rereads'
  BY <1>3, <1>8, <1>9, <1>13 DEF TypeInv, Placed, Rereads
<1>15. Unmade'
  BY <1>1, <1>5, <1>6 DEF TypeInv, Unmade, Numbers
<1>16. Members'
  BY <1>3, <1>6, <1>8, <1>9, <1>12, <1>17 DEF TypeInv, Members, Numbers
<1> QED
  BY <1>2, <1>9, <1>11, <1>14, <1>15, <1>16 DEF TypeInv

LEMMA TypeAdd ==
    ASSUME TypeInv, NEW c \in Conns, AddParticipant(c)
    PROVE  /\ TypeInv' /\ ref[c] \in 1..made /\ ref[c] \in Numbers
           /\ Moved(ref[c], My(c).parts \cup {c})
<1>1. /\ at \in [Conns -> Places] /\ sessions \in Sessions
      /\ ref[c] \in 1..made /\ ref[c] \in Numbers /\ My(c) \in Session /\ made \in 0..MaxSessions
  BY Facts, TypeParts DEF AddParticipant
<1>2. Moved(ref[c], My(c).parts \cup {c})
  <2>1. My(c).parts \cup {c} \in SUBSET Conns
    BY <1>1, SessionFields
  <2>2. sessions' = [sessions EXCEPT ![ref[c]].parts = My(c).parts \cup {c}]
    BY DEF AddParticipant, My
  <2> QED
    BY <1>1, <2>1, <2>2, Moves
<1>3. /\ at' = [at EXCEPT ![c] = "joined"] /\ at[c] = "adding"
      /\ UNCHANGED <<scenario, row, right, registry, made, ref, brief, ctx, own, kicked, leaving,
                     msg, snap, refresh, locks, confirmed, used>>
  BY DEF AddParticipant, Goto
<1>4. /\ at' \in [Conns -> Places] /\ at'[c] = "joined" /\ \A d \in Conns \ {c} : at'[d] = at[d]
  BY <1>1, <1>3 DEF Places
<1>5. TypeOK'
  BY <1>2, <1>3, <1>4 DEF TypeInv, TypeOK, Moved, Sessions, Numbers, locks
<1>6. c \notin leaving
  BY <1>3 DEF TypeInv, Placed
<1>7. Placed' /\ Rereads'
  BY <1>3, <1>4, <1>6 DEF TypeInv, Placed, Rereads
<1>8. Unmade'
  BY <1>1, <1>2, <1>3 DEF TypeInv, Unmade, Moved, Others, Numbers
<1>9. Members'
  <2>1. ASSUME NEW s \in Numbers, s \notin poisoned, NEW d \in sessions'[s].parts
        PROVE  ref'[d] = s /\ d \notin leaving' /\ at'[d] \notin {"initialising", "adding"}
    <3>1. CASE d = c /\ s = ref[c]
      BY <1>3, <1>4, <1>6, <3>1
    <3>2. CASE ~(d = c /\ s = ref[c])
      <4>1. d \in sessions[s].parts
        BY <1>2, <2>1, <3>2 DEF Moved, Others, My
      <4>2. d \in Conns /\ ref[d] = s /\ d \notin leaving /\ at[d] \notin {"initialising", "adding"}
        BY <1>1, <2>1, <4>1, SessionFields DEF TypeInv, Members, Sessions, Numbers
      <4> QED
        BY <1>3, <1>4, <4>2
    <3> QED
      BY <3>1, <3>2
  <2> QED
    BY <1>3, <2>1 DEF Members, Numbers, locks
<1> QED
  BY <1>1, <1>2, <1>5, <1>7, <1>8, <1>9 DEF TypeInv

LEMMA TypeLeave ==
    ASSUME TypeInv, NEW c \in Conns, Leave(c)
    PROVE  /\ TypeInv' /\ ref[c] \in 1..made /\ ref[c] \in Numbers
           /\ Moved(ref[c], My(c).parts \ {c})
<1>1. /\ at \in [Conns -> Places] /\ ref \in [Conns -> 0..made] /\ sessions \in Sessions
      /\ ref[c] \in 1..made /\ ref[c] \in Numbers /\ My(c) \in Session /\ made \in 0..MaxSessions
      /\ own \in [Conns -> Rights] /\ ctx \in [Conns -> Rights] /\ c \notin leaving
  BY Facts, TypeParts, NotLeaving DEF Leave, SavePlaces
<1>2. Moved(ref[c], My(c).parts \ {c})
  <2>1. My(c).parts \ {c} \in SUBSET Conns
    BY <1>1, SessionFields
  <2>2. sessions' = [sessions EXCEPT ![ref[c]].parts = My(c).parts \ {c}]
    BY DEF Leave, My
  <2> QED
    BY <1>1, <2>1, <2>2, Moves
<1>3. UNCHANGED <<scenario, row, right, registry, made, brief, msg, snap, refresh, locks, confirmed, used>>
  BY DEF Leave
<1>4. Rereads' /\ Unmade'
  BY <1>1, <1>2, <1>3 DEF TypeInv, Rereads, Unmade, Moved, Others, Numbers
<1>5. /\ at' \in [Conns -> Places] /\ ref' \in [Conns -> 0..made]
      /\ \A d \in Conns \ {c} : at'[d] = at[d] /\ ref'[d] = ref[d]
      /\ leaving' \ {c} = leaving \ {c} /\ leaving' \subseteq Conns
      /\ kicked' \subseteq Conns /\ own' \in [Conns -> Rights] /\ ctx' \in [Conns -> Rights]
      /\ \/ at'[c] = "saving" /\ c \in leaving' /\ ref'[c] = ref[c]
         \/ at'[c] = "out" /\ c \notin leaving' /\ ref'[c] = NoSession
  <2>1. kicked \subseteq Conns /\ leaving \subseteq Conns
    BY DEF TypeInv, TypeOK
  <2>2. CASE /\ Goto(c, "saving") /\ leaving' = leaving \cup {c}
             /\ UNCHANGED <<ref, ctx, own, kicked>>
    BY <1>1, <2>1, <2>2 DEF Goto, Places
  <2>3. CASE Forget(c)
    <3>1. NoSession \in 0..made /\ "none" \in Rights
      BY <1>1 DEF NoSession, Rights
    <3> QED
      BY <1>1, <2>1, <2>3, <3>1 DEF Forget, Goto, Places
  <2> QED
    BY <2>2, <2>3 DEF Leave
<1>6. TypeOK'
  BY <1>2, <1>3, <1>5 DEF TypeInv, TypeOK, Moved, Sessions, Numbers, locks
<1>7. Placed'
  <2>1. /\ at'[c] \in {"out", "resolving"} <=> ref'[c] = NoSession
        /\ c \in leaving' => at'[c] \in {"saving", "writing", "wrote", "removing"}
        /\ at'[c] = "removing" => c \in leaving'
    BY <1>1, <1>5 DEF NoSession
  <2>2. ASSUME NEW d \in Conns \ {c}
        PROVE  /\ at'[d] \in {"out", "resolving"} <=> ref'[d] = NoSession
               /\ d \in leaving' => at'[d] \in {"saving", "writing", "wrote", "removing"}
               /\ at'[d] = "removing" => d \in leaving'
    BY <1>5 DEF TypeInv, Placed
  <2> QED
    BY <2>1, <2>2 DEF Placed
<1>8. Members'
  <2>1. ASSUME NEW s \in Numbers, s \notin poisoned, NEW d \in sessions'[s].parts
        PROVE  ref'[d] = s /\ d \notin leaving' /\ at'[d] \notin {"initialising", "adding"}
    <3>1. d \in sessions[s].parts /\ (s = ref[c] => d # c)
      BY <1>2, <2>1 DEF Moved, Others, My
    <3>2. d \in Conns /\ ref[d] = s /\ d \notin leaving /\ at[d] \notin {"initialising", "adding"}
      BY <1>1, <2>1, <3>1, SessionFields DEF TypeInv, Members, Sessions, Numbers
    <3>3. d # c
      BY <3>1, <3>2
    <3> QED
      BY <1>5, <3>2, <3>3
  <2> QED
    BY <1>3, <2>1 DEF Members, Numbers, locks
<1> QED
  BY <1>1, <1>2, <1>4, <1>6, <1>7, <1>8 DEF TypeInv

LEMMA TypeRemove ==
    ASSUME TypeInv, NEW c \in Conns, RemoveSession(c)
    PROVE  TypeInv'
<1>1. /\ at \in [Conns -> Places] /\ ref \in [Conns -> 0..made] /\ sessions \in Sessions
      /\ own \in [Conns -> Rights] /\ ctx \in [Conns -> Rights] /\ c \in leaving /\ made \in Nat
      /\ kicked \subseteq Conns /\ leaving \subseteq Conns
  BY TypeParts DEF RemoveSession, TypeInv, Placed, TypeOK
<1>2. /\ UNCHANGED <<scenario, row, right, sessions, made, brief, msg, snap, refresh, locks, confirmed, used>>
      /\ registry' = NoSession /\ Forget(c)
  BY DEF RemoveSession
<1>3. NoSession \in 0..made /\ "none" \in Rights
  BY <1>1 DEF NoSession, Rights
<1>4. /\ at' \in [Conns -> Places] /\ ref' \in [Conns -> 0..made]
      /\ \A d \in Conns \ {c} : at'[d] = at[d] /\ ref'[d] = ref[d]
      /\ leaving' = leaving \ {c} /\ kicked' \subseteq Conns
      /\ own' \in [Conns -> Rights] /\ ctx' \in [Conns -> Rights]
      /\ at'[c] = "out" /\ ref'[c] = NoSession
  BY <1>1, <1>2, <1>3 DEF Forget, Goto, Places
<1>5. TypeOK'
  BY <1>1, <1>2, <1>3, <1>4 DEF TypeInv, TypeOK, locks
<1>6. Placed' /\ Unmade' /\ Rereads'
  BY <1>2, <1>4 DEF TypeInv, Placed, Unmade, Rereads
<1>7. Members'
  <2>1. \A s \in Numbers : /\ sessions[s].parts \subseteq Conns
                           /\ s \notin poisoned => c \notin sessions[s].parts
    BY <1>1, SessionFields DEF TypeInv, Members, Sessions, Numbers
  <2> QED
    BY <1>2, <1>4, <2>1 DEF TypeInv, Members, Numbers, locks
<1> QED
  BY <1>5, <1>6, <1>7 DEF TypeInv

\* Whoever dies forgets its session, whose participants nobody looks at any more.
LEMMA TypePanic ==
    ASSUME TypeInv, NEW c \in Conns, Panic(c)
    PROVE  /\ TypeInv' /\ ref[c] \in 1..made /\ ref[c] \in Numbers /\ poisoned' = poisoned \cup {ref[c]}
           /\ at'[c] = "out" /\ ref'[c] = NoSession
           /\ \A d \in Conns \ {c} : at'[d] = at[d] /\ ref'[d] = ref[d]
<1>1. /\ at \in [Conns -> Places] /\ ref \in [Conns -> 0..made] /\ sessions \in Sessions
      /\ own \in [Conns -> Rights] /\ ctx \in [Conns -> Rights] /\ made \in Nat
      /\ msg \in [Conns -> [v : Nat, dv : Nat, id : Nat]] /\ NoMsg \in [v : Nat, dv : Nat, id : Nat]
  BY TypeParts
<1>2. /\ UNCHANGED <<scenario, row, right, registry, sessions, made, brief, snap, refresh, watching,
                     confirmed, used>>
      /\ poisoned' = poisoned \cup {ref[c]} /\ Forget(c) /\ msg' = [msg EXCEPT ![c] = NoMsg]
      /\ at[c] \notin {"out", "resolving"}
  BY DEF Panic
<1>3. ref[c] \in 1..made /\ ref[c] \in Numbers
  BY <1>2, Facts
<1>4. NoSession \in 0..made /\ "none" \in Rights
  BY <1>1 DEF NoSession, Rights
<1>5. kicked \subseteq Conns /\ leaving \subseteq Conns /\ poisoned \subseteq 1..made
  BY DEF TypeInv, TypeOK
<1>6. /\ at' \in [Conns -> Places] /\ ref' \in [Conns -> 0..made]
      /\ \A d \in Conns \ {c} : at'[d] = at[d] /\ ref'[d] = ref[d]
      /\ leaving' = leaving \ {c} /\ kicked' \subseteq Conns
      /\ own' \in [Conns -> Rights] /\ ctx' \in [Conns -> Rights]
      /\ at'[c] = "out" /\ ref'[c] = NoSession
  BY <1>1, <1>2, <1>4, <1>5 DEF Forget, Goto, Places
<1>7. msg' \in [Conns -> [v : Nat, dv : Nat, id : Nat]] /\ poisoned' \subseteq 1..made
  BY <1>1, <1>2, <1>3, <1>5
<1>8. TypeOK'
  BY <1>1, <1>2, <1>4, <1>5, <1>6, <1>7 DEF TypeInv, TypeOK
<1>9. Placed' /\ Unmade' /\ Rereads'
  BY <1>2, <1>6 DEF TypeInv, Placed, Unmade, Rereads
<1>10. Members'
  <2>1. ASSUME NEW s \in Numbers, s \notin poisoned', NEW d \in sessions'[s].parts
        PROVE  ref'[d] = s /\ d \notin leaving' /\ at'[d] \notin {"initialising", "adding"}
    <3>1. s \notin poisoned /\ s # ref[c] /\ d \in sessions[s].parts
      BY <1>2, <2>1
    <3>2. d \in Conns /\ ref[d] = s /\ d \notin leaving /\ at[d] \notin {"initialising", "adding"}
      BY <1>1, <3>1, SessionFields DEF TypeInv, Members, Sessions, Numbers
    <3>3. d # c
      BY <3>1, <3>2
    <3> QED
      BY <1>6, <3>2, <3>3
  <2> QED
    BY <1>2, <2>1 DEF Members, Numbers
<1> QED
  BY <1>2, <1>3, <1>6, <1>8, <1>9, <1>10 DEF TypeInv

LEMMA TypeRefresher == ASSUME TypeInv, RefresherPanics PROVE TypeInv'
BY DEF RefresherPanics, TypeInv, TypeOK, Placed, Members, Unmade, Rereads

\* The task of a background save moves on, and nobody else does.
LEMMA TypeBackground ==
    ASSUME TypeInv, NEW s \in 1..made,
           Background_Write(s) \/ Background_Fail(s) \/ Background_Done(s)
    PROVE  TypeInv' /\ s \in Numbers
<1>1. s \in Numbers /\ sessions \in Sessions /\ sessions[s] \in Session
  <2>1. made \in Nat /\ made <= MaxSessions /\ MaxSessions \in Nat /\ sessions \in Sessions
    BY TypeParts
  <2>2. s \in Numbers
    BY <2>1 DEF Numbers
  <2> QED
    BY <2>1, <2>2 DEF Sessions
<1>2. UNCHANGED <<scenario, right, registry, made, at, ref, brief, ctx, own, kicked, leaving,
                  msg, snap, refresh, locks, confirmed, used>>
  BY DEF Background_Write, Background_Fail, Background_Done
<1>3. Quiet
  <2>1. CASE Background_Write(s)
    <3>1. sessions' = [sessions EXCEPT ![s].pending = "wrote", ![s].snap = EmptyDoc]
      BY <2>1 DEF Background_Write
    <3>2. Paused(s, "wrote", EmptyDoc)
      BY <1>1, <3>1, EmptyIsDoc, Pauses DEF Background
    <3> QED
      BY <3>2, QuietOne DEF Paused
  <2>2. CASE Background_Fail(s)
    <3>1. sessions' = [sessions EXCEPT ![s].pending = "none", ![s].snap = EmptyDoc]
      BY <2>2 DEF Background_Fail
    <3>2. Paused(s, "none", EmptyDoc)
      BY <1>1, <3>1, EmptyIsDoc, Pauses DEF Background
    <3> QED
      BY <3>2, QuietOne DEF Paused
  <2>3. CASE Background_Done(s)
    <3>1. sessions' = [Saved(s) EXCEPT ![s].pending = "none"] /\ "none" \in Background
      BY <2>3 DEF Background_Done, Background
    <3>2. Stored(s, "none")
      BY <1>1, <3>1, Stores
    <3> QED
      BY <3>2, QuietOne DEF Stored
  <2> QED
    BY <2>1, <2>2, <2>3
<1>4. row' \in Doc
  <2>1. sessions[s].snap \in Doc /\ row \in Doc
    BY <1>1, SessionFields, TypeParts
  <2> QED
    BY <2>1 DEF Background_Write, Background_Fail, Background_Done
<1>5. TypeOK'
  BY <1>2, <1>3, <1>4 DEF TypeInv, TypeOK, Quiet, Sessions, Numbers, locks
<1>6. Placed' /\ Members' /\ Unmade' /\ Rereads'
  BY <1>2, <1>3 DEF TypeInv, Placed, Members, Unmade, Rereads, Quiet, Numbers, locks
<1> QED
  BY <1>1, <1>5, <1>6 DEF TypeInv

LEMMA TypeRight ==
    ASSUME TypeInv, NEW c \in Conns, ChangeRight(c)
    PROVE  TypeInv'
<1>1. UNCHANGED <<scenario, row, registry, sessions, made, at, ref, brief, ctx, own, kicked, leaving,
                  msg, snap, refresh, locks, confirmed>>
  BY DEF ChangeRight
<1>2. right' \in [Conns -> Rights]
  BY TypeParts DEF ChangeRight
<1>3. used' \in [diffs : Nat, connects : Nat, changes : Nat]
  <2>1. used' = [used EXCEPT !.changes = @ + 1]
    BY DEF ChangeRight
  <2> QED
    BY <2>1, TypeParts
<1> QED
  BY <1>1, <1>2, <1>3 DEF TypeInv, TypeOK, Placed, Members, Unmade, Rereads, locks

LEMMA TypeStart ==
    ASSUME TypeInv, NEW t \in Tasks, StartRefresh(t)
    PROVE  TypeInv'
<1>1. UNCHANGED <<scenario, row, right, registry, sessions, made, at, ref, brief, ctx, own, kicked,
                  leaving, msg, snap, locks, confirmed, used>>
  BY DEF StartRefresh
<1>2. refresh \in [Tasks -> [s : 0..made, rights : [Conns -> Rights]]]
  BY DEF TypeInv, TypeOK
<1>3. /\ refresh' = [refresh EXCEPT ![t] = [s |-> registry, rights |-> right]]
      /\ registry # NoSession /\ registry \in 0..made /\ right \in [Conns -> Rights]
  BY TypeParts DEF StartRefresh
<1>4. /\ refresh' \in [Tasks -> [s : 0..made, rights : [Conns -> Rights]]]
      /\ refresh'[t].s = registry /\ \A u \in Tasks \ {t} : refresh'[u] = refresh[u]
  BY <1>2, <1>3
<1>5. Rereads'
  BY <1>1, <1>3, <1>4 DEF TypeInv, Rereads
<1> QED
  BY <1>1, <1>4, <1>5 DEF TypeInv, TypeOK, Placed, Members, Unmade, locks

LEMMA TypeApply ==
    ASSUME TypeInv, NEW t \in Tasks, ApplyRefresh(t)
    PROVE  /\ TypeInv' /\ refresh[t].s \in Numbers
           /\ \/ Moved(refresh[t].s, sessions[refresh[t].s].parts \ Expelled(t))
              \/ UNCHANGED sessions
<1> DEFINE s == refresh[t].s
           gone == Expelled(t)
<1>1. refresh \in [Tasks -> [s : 0..made, rights : [Conns -> Rights]]] /\ made \in 0..MaxSessions
  BY DEF TypeInv, TypeOK
<1>2. /\ s \in 1..made /\ s \in Numbers /\ sessions \in Sessions /\ sessions[s] \in Session
  BY <1>1, TypeParts, SMTT(20) DEF ApplyRefresh, TypeInv, Rereads, NoSession, Sessions, Numbers
<1>3. sessions[s].parts \subseteq Conns /\ gone \subseteq sessions[s].parts
  BY <1>2, SessionFields DEF Expelled
<1>14. Apply(t) \/ UNCHANGED <<sessions, kicked, ctx>>
  BY DEF ApplyRefresh
<1>4. Moved(s, sessions[s].parts \ gone) \/ UNCHANGED sessions
  <2>1. CASE Apply(t)
    <3>1. sessions' = [sessions EXCEPT ![s].parts = sessions[s].parts \ gone]
      BY <2>1 DEF Apply
    <3>2. sessions[s].parts \ gone \in SUBSET Conns
      BY <1>3
    <3> HIDE DEF s, gone
    <3> QED
      BY <1>2, <3>1, <3>2, Moves
  <2> QED
    BY <1>14, <2>1
<1>5. UNCHANGED <<scenario, row, right, registry, made, at, ref, brief, own, leaving,
                  msg, snap, locks, confirmed, used>>
  BY DEF ApplyRefresh
<1>6. kicked' \subseteq Conns
  <2>1. kicked \subseteq Conns
    BY DEF TypeInv, TypeOK
  <2> QED
    BY <1>3, <1>14, <2>1 DEF Apply
<1>7. ctx' \in [Conns -> Rights]
  <2>1. \A c \in Conns : refresh[t].rights[c] \in Rights /\ ctx[c] \in Rights
    BY <1>1, TypeParts
  <2>2. ctx \in [Conns -> Rights]
    BY TypeParts
  <2> QED
    BY <1>14, <2>1, <2>2 DEF Apply
<1>8. NoRefresh \in [s : 0..made, rights : [Conns -> Rights]]
  BY <1>1 DEF NoRefresh, NoSession, Rights
<1>9. /\ refresh' \in [Tasks -> [s : 0..made, rights : [Conns -> Rights]]]
      /\ refresh'[t] = NoRefresh /\ \A u \in Tasks \ {t} : refresh'[u] = refresh[u]
  <2>1. refresh' = [refresh EXCEPT ![t] = NoRefresh]
    BY DEF ApplyRefresh
  <2> HIDE DEF s, gone
  <2> QED
    BY <1>1, <1>8, <2>1
<1> HIDE DEF s, gone
<1>10. TypeOK'
  BY <1>4, <1>5, <1>6, <1>7, <1>9 DEF TypeInv, TypeOK, Moved, Sessions, Numbers, locks
<1>11. Placed' /\ Rereads'
  BY <1>5, <1>9 DEF TypeInv, Placed, Rereads
<1>12. Members'
  BY <1>4, <1>5 DEF TypeInv, Members, Moved, Others, Numbers, locks
<1>13. Unmade'
  BY <1>2, <1>4, <1>5 DEF TypeInv, Unmade, Moved, Others, Numbers
<1> QED
  BY <1>2, <1>4, <1>10, <1>11, <1>12, <1>13 DEF TypeInv, s, gone

LEMMA TypeFlush ==
    ASSUME TypeInv, Flush
    PROVE  /\ TypeInv' /\ leaving = {} /\ sessions' = [s \in Numbers |-> NewSession(EmptyDoc)]
           /\ NewSession(EmptyDoc) \in Session
<1>1. UNCHANGED <<scenario, right, made, brief, leaving, msg, snap, confirmed, used>>
  BY DEF Flush
<1>2. leaving = {}
  BY DEF TypeInv, TypeOK, Placed, Flush
<1>3. row' \in Doc
  <2>1. registry # NoSession => registry \in Numbers
    BY TypeParts DEF Numbers, NoSession
  <2>2. registry # NoSession => Snapshot(registry) \in Doc
    BY <2>1, TypeParts, SnapshotIsDoc
  <2> QED
    BY <2>2, TypeParts DEF Flush, FlushedRow
<1>4. NewSession(EmptyDoc) \in Session /\ NewSession(EmptyDoc).parts = {}
      /\ NewSession(EmptyDoc).pending = "none"
  BY EmptyIsDoc, NewSessionFields
<1>5. sessions' = [s \in Numbers |-> NewSession(EmptyDoc)]
  BY DEF Flush, Numbers
<1>6. sessions' \in [1..MaxSessions -> Session]
  BY <1>4, <1>5 DEF Numbers
<1>7. \A s \in Numbers : sessions'[s].parts = {} /\ sessions'[s].pending = "none"
  BY <1>4, <1>5
<1>8. /\ at' = [c \in Conns |-> "out"] /\ ref' = [c \in Conns |-> NoSession]
      /\ ctx' = [c \in Conns |-> "none"] /\ own' = [c \in Conns |-> "none"]
      /\ kicked' = {} /\ refresh' = [t \in Tasks |-> NoRefresh] /\ registry' = NoSession
      /\ poisoned' = {} /\ watching' = TRUE
  BY DEF Flush
<1>9. NoSession \in 0..made /\ NoRefresh \in [s : 0..made, rights : [Conns -> Rights]]
      /\ "none" \in Rights
  BY TypeParts DEF NoRefresh, NoSession, Rights
<1>10. TypeOK'
  BY <1>1, <1>2, <1>3, <1>6, <1>8, <1>9 DEF TypeInv, TypeOK, Places
<1>11. Placed' /\ Members' /\ Unmade' /\ Rereads'
  BY <1>1, <1>2, <1>7, <1>8 DEF Placed, Members, Unmade, Rereads, Numbers
<1> QED
  BY <1>2, <1>4, <1>5, <1>10, <1>11 DEF TypeInv

LEMMA TypeInit == ASSUME Init PROVE TypeInv
<1>1. EmptyDoc \in Doc /\ \A blank \in BOOLEAN : [EmptyDoc EXCEPT !.blank = blank] \in Doc
  BY EmptyIsDoc DEF EmptyDoc, Doc
<1>2. /\ NewSession(EmptyDoc) \in Session /\ NewSession(EmptyDoc).parts = {}
      /\ NewSession(EmptyDoc).pending = "none"
  BY EmptyIsDoc, NewSessionFields
<1>3. sessions = [s \in 1..MaxSessions |-> NewSession(EmptyDoc)]
  BY DEF Init
<1>4. sessions \in [1..MaxSessions -> Session]
  BY <1>2, <1>3
<1>5. \A s \in 1..MaxSessions : sessions[s].parts = {} /\ sessions[s].pending = "none"
  BY <1>2, <1>3
<1>6. /\ "none" \in Rights /\ "write" \in Rights /\ "out" \in Places
      /\ NoMsg \in [v : Nat, dv : Nat, id : Nat]
      /\ NoRefresh \in [s : 0..0, rights : [Conns -> Rights]]
  BY DEF Rights, Places, NoMsg, NoRefresh, NoSession
<1>7. TypeOK
  BY <1>1, <1>4, <1>6, BoundAssumption DEF Init, TypeOK, NoSession
<1>8. Placed /\ Members /\ Unmade /\ Rereads
  BY <1>5 DEF Init, Placed, Members, Unmade, Rereads
<1> QED
  BY <1>7, <1>8 DEF TypeInv

LEMMA TypeNext == ASSUME TypeInv, [Next]_vars PROVE TypeInv'
<1>1. CASE UNCHANGED vars
  BY <1>1 DEF vars, locks, TypeInv, TypeOK, Placed, Members, Unmade, Rereads
<1>2. ASSUME NEW c \in Conns,
             \/ LoadRow(c) \/ Handler(c) \/ CheckVersion(c) \/ ReceiveDiff(c)
             \/ Leave(c) \/ Panic(c) \/ ChangeRight(c)
      PROVE  TypeInv'
  BY <1>2, TypeArrive, TypeOpen, TypeAdd, TypeWork, TypeLeave, TypeRemove, TypePanic, TypeRight
  DEF Handler, WorkStep
<1>3. ASSUME NEW s \in 1..made, Background_Write(s) \/ Background_Fail(s) \/ Background_Done(s)
      PROVE  TypeInv'
  BY <1>3, TypeBackground
<1>4. ASSUME NEW t \in Tasks, Refresh(t) PROVE TypeInv'
  BY <1>4, TypeStart, TypeApply DEF Refresh
<1>5. CASE Flush
  BY <1>5, TypeFlush
<1>6. CASE RefresherPanics
  BY <1>6, TypeRefresher
<1> QED
  BY <1>1, <1>2, <1>3, <1>4, <1>5, <1>6 DEF Next

\* Every variable keeps its type, and so do the objects of the registry: whoever is in a
\* session works on that session, unless its lock is poisoned (connection.rs, session.rs).
THEOREM TypeCorrect == Spec => []TypeOK
<1>1. Init => TypeInv
  BY TypeInit
<1>2. TypeInv /\ [Next]_vars => TypeInv'
  BY TypeNext
<1>3. TypeInv => TypeOK
  BY DEF TypeInv
<1> QED
  BY <1>1, <1>2, <1>3, PTL DEF Spec

-----------------------------------------------------------------------------
(* A session in the registry.                                              *)

\* Somebody's task works on the session that is registered, unless its lock is poisoned.
Served == RegisteredIsServed

LEMMA ServedNext == ASSUME TypeInv, Served, [Next]_vars PROVE Served'
<1> USE DEF RegisteredIsServed
<1>1. CASE UNCHANGED vars
  BY <1>1 DEF vars, Served
<1>2. ASSUME UNCHANGED <<registry, ref, locks>> PROVE Served'
  BY <1>2 DEF Served, locks
<1>3. ASSUME NEW c \in Conns,
             \/ LoadRow(c) \/ Handler(c) \/ CheckVersion(c) \/ ReceiveDiff(c)
             \/ Leave(c) \/ Panic(c) \/ ChangeRight(c)
      PROVE  Served'
  <2>1. CASE OpenOrJoin(c)
    <3>1. ref'[c] = registry'
      BY <2>1, TypeOpen
    <3> QED
      BY <3>1 DEF Served
  <2>2. CASE Leave(c)
    <3>1. CASE UNCHANGED ref
      BY <1>2, <2>2, <3>1 DEF Leave
    <3>2. CASE ~LastOut(c) /\ Forget(c)
      <4>1. PICK d \in My(c).parts \ {c} : TRUE
        BY <3>2 DEF LastOut
      <4>6. ref[c] \notin poisoned /\ UNCHANGED poisoned
        BY <2>2 DEF Leave, Sound, locks
      <4>2. ref[c] \in 1..MaxSessions /\ My(c) \in Session
        BY <2>2, TypeLeave, TypeParts DEF Sessions, My, Numbers
      <4>3. d \in Conns /\ ref[d] = ref[c]
        BY <4>1, <4>2, <4>6, SessionFields DEF TypeInv, Members, My
      <4>4. /\ registry' = registry /\ ref \in [Conns -> 0..made] /\ ref' = [ref EXCEPT ![c] = NoSession]
        BY <2>2, <3>2, TypeParts DEF Leave, Forget
      <4>5. \A x \in Conns \ {c} : ref'[x] = ref[x]
        BY <4>4
      <4> QED
        BY <4>1, <4>3, <4>4, <4>5, <4>6 DEF Served
    <3> QED
      BY <2>2, <3>1, <3>2 DEF Leave
  <2>3. CASE RemoveSession(c)
    BY <2>3 DEF RemoveSession, Served
  <2>4. CASE Panic(c)
    <3>1. /\ poisoned' = poisoned \cup {ref[c]} /\ ref[c] # NoSession
          /\ \A d \in Conns \ {c} : ref'[d] = ref[d]
      BY <2>4, TypePanic DEF NoSession
    <3>2. UNCHANGED registry
      BY <2>4 DEF Panic
    <3> QED
      BY <3>1, <3>2 DEF Served
  <2> QED
    BY <1>2, <1>3, <2>1, <2>2, <2>3, <2>4
    DEF LoadRow, Handler, CheckVersion, ReceiveDiff, ChangeRight, Deny, Initialise, AddParticipant,
        CopyContext, FixBehind, ApplySteps, PushDiff, LookIfDue, SaveDue, StartSave, WriteRow,
        FailWrite, MarkSaved
<1>4. ASSUME NEW s \in 1..made, Background_Write(s) \/ Background_Fail(s) \/ Background_Done(s)
      PROVE  Served'
  BY <1>2, <1>4 DEF Background_Write, Background_Fail, Background_Done
<1>5. ASSUME NEW t \in Tasks, Refresh(t) PROVE Served'
  BY <1>2, <1>5 DEF Refresh, StartRefresh, ApplyRefresh
<1>6. CASE Flush
  BY <1>6 DEF Flush, Served
<1>7. CASE RefresherPanics
  BY <1>7 DEF RefresherPanics, Served
<1> QED
  BY <1>1, <1>3, <1>4, <1>5, <1>6, <1>7 DEF Next

\* A session stays registered no longer than somebody works on it, unless a task died with
\* its lock: the last one out is still working on it, a task that found it has its place in
\* it before it enters, and whoever a re-read of the rights puts out is still to leave
\* (cleanup, session_for_document, refresh_session_rights, remove_session).
THEOREM RegisteredIsServedCorrect == Spec => []RegisteredIsServed
<1>1. Init => TypeInv /\ Served
  BY TypeInit DEF Init, Served, RegisteredIsServed
<1>2. TypeInv /\ Served /\ [Next]_vars => TypeInv' /\ Served'
  BY TypeNext, ServedNext
<1>3. Served => RegisteredIsServed
  BY DEF Served
<1> QED
  BY <1>1, <1>2, <1>3, PTL DEF Spec

-----------------------------------------------------------------------------
(* What a step may write.                                                  *)

\* The documents that are in the row, or that a task has in its hands, or could write.
Known == {EmptyDoc, row} \cup {brief[c] : c \in Conns} \cup {snap[c] : c \in Conns}
            \cup {sessions[s].snap : s \in Numbers} \cup {Snapshot(s) : s \in Numbers}
DocsFrom(docs) == /\ row' \in docs
                  /\ \A c \in Conns : brief'[c] \in docs /\ snap'[c] \in docs
                  /\ \A s \in Numbers : sessions'[s].snap \in docs
Kept(s) == /\ sessions'[s].text = sessions[s].text /\ sessions'[s].version = sessions[s].version
           /\ sessions'[s].diffs = sessions[s].diffs
Fresh(s, docs) ==
    /\ \E b \in docs : sessions'[s] = NewSession(b)
    /\ \A c \in Conns : ref'[c] = s => at'[c] \in {"initialising", "adding"}
SessionsFrom(docs) == \A s \in Numbers :
    \/ Kept(s)
    \/ Fresh(s, docs)
    \/ \E c \in Conns : ApplySteps(c) /\ s = ref[c] /\ Grown(s, msg[c].id)
    \/ \E c \in Conns : PushDiff(c) /\ s = ref[c] /\ Counted(s, msg[c])

LEMMA KnownParts ==
    ASSUME TypeInv
    PROVE  /\ EmptyDoc \in Known /\ row \in Known
           /\ \A c \in Conns : brief[c] \in Known /\ snap[c] \in Known
           /\ \A s \in Numbers : sessions[s].snap \in Known /\ Snapshot(s) \in Known
BY DEF Known

LEMMA NothingWritten ==
    ASSUME TypeInv, UNCHANGED <<row, brief, snap, sessions>>
    PROVE  DocsFrom(Known) /\ SessionsFrom(Known)
BY KnownParts DEF DocsFrom, SessionsFrom, Kept

\* One session changes, and neither its text nor its version.
LEMMA OneKept ==
    ASSUME TypeInv, NEW s \in Numbers, Others(s), Same(sessions[s], sessions'[s]),
           sessions'[s].snap \in Known, UNCHANGED <<brief, snap>>, row' \in Known
    PROVE  DocsFrom(Known) /\ SessionsFrom(Known)
BY KnownParts DEF DocsFrom, SessionsFrom, Kept, Others, Same

LEMMA SpawnKept ==
    ASSUME TypeInv, NEW s \in Numbers, NEW f \in BOOLEAN, SpawnSave(s, f),
           UNCHANGED <<row, brief, snap>>
    PROVE  DocsFrom(Known) /\ SessionsFrom(Known)
<1>1. sessions \in Sessions
  BY TypeParts
<1>2. CASE sessions' = sessions
  BY <1>2, NothingWritten
<1>3. CASE Paused(s, "writing", Snapshot(s))
  BY <1>3, OneKept, KnownParts DEF Paused
<1> QED
  BY <1>1, <1>2, <1>3, Spawns

LEMMA WorkData ==
    ASSUME TypeInv, NEW c \in Conns, WorkStep(c)
    PROVE  DocsFrom(Known) /\ SessionsFrom(Known)
<1>1. ref[c] \in Numbers /\ sessions \in Sessions /\ msg[c] \in [v : Nat, dv : Nat, id : Nat]
      /\ msg[c].id \in Nat /\ snap \in [Conns -> Doc] /\ ref[c] \in 1..made
  BY TypeWork, Facts, TypeParts
<1>2. CASE UNCHANGED <<row, brief, snap, sessions>>
  BY <1>2, NothingWritten
<1>3. CASE Initialise(c) \/ SaveDue(c)
  BY <1>1, <1>3, SpawnKept DEF Initialise, SaveDue
<1>4. ASSUME UNCHANGED <<row, brief, snap>>, Others(ref[c]),
             sessions'[ref[c]].snap = sessions[ref[c]].snap
      PROVE  DocsFrom(Known)
  BY <1>1, <1>4, KnownParts DEF DocsFrom, Others
<1>5. CASE ApplySteps(c) /\ sessions' # sessions
  <2>1. sessions' = [sessions EXCEPT ![ref[c]].text = Append(@, msg[c].id)]
    BY <1>5 DEF ApplySteps
  <2>2. Grown(ref[c], msg[c].id)
    BY <1>1, <2>1, Grows
  <2>3. UNCHANGED <<row, brief, snap>>
    BY <1>5 DEF ApplySteps
  <2>4. DocsFrom(Known)
    BY <1>4, <2>2, <2>3 DEF Grown
  <2> QED
    BY <1>5, <2>2, <2>4 DEF SessionsFrom, Kept, Grown, Others
<1>6. CASE PushDiff(c)
  <2>1. sessions' = [sessions EXCEPT ![ref[c]] = Logged(@, msg[c])]
    BY <1>6 DEF PushDiff
  <2>2. Counted(ref[c], msg[c])
    BY <1>1, <2>1, Counts
  <2>3. UNCHANGED <<row, brief, snap>>
    BY <1>6 DEF PushDiff
  <2>4. DocsFrom(Known)
    BY <1>4, <2>2, <2>3 DEF Counted
  <2> QED
    BY <1>6, <2>2, <2>4 DEF SessionsFrom, Kept, Counted, Others
<1>7. ASSUME UNCHANGED <<sessions, brief>>, row' \in Known,
             \E d \in Known : snap' = [snap EXCEPT ![c] = d]
      PROVE  DocsFrom(Known) /\ SessionsFrom(Known)
  BY <1>1, <1>7, KnownParts DEF DocsFrom, SessionsFrom, Kept
<1>8. CASE StartSave(c)
  <2>1. CASE snap' = [snap EXCEPT ![c] = Snapshot(ref[c])]
    BY <1>1, <1>7, <1>8, <2>1, KnownParts DEF StartSave
  <2> QED
    BY <1>2, <1>8, <2>1 DEF StartSave
<1>9. CASE WriteRow(c) \/ FailWrite(c)
  BY <1>7, <1>9, KnownParts DEF WriteRow, FailWrite
<1>10. CASE MarkSaved(c)
  <2>1. sessions' = Saved(ref[c]) /\ UNCHANGED <<row, brief, snap>>
    BY <1>10 DEF MarkSaved
  <2>2. My(c).pending \in Background
    BY <1>1, SessionFields DEF My, Sessions
  <2>3. Stored(ref[c], My(c).pending)
    BY <1>1, <2>1, <2>2, Stores DEF My
  <2>4. DocsFrom(Known)
    BY <1>4, <2>1, <2>3 DEF Stored
  <2> QED
    BY <2>3, <2>4 DEF SessionsFrom, Kept, Stored, Others
<1> QED
  BY <1>2, <1>3, <1>5, <1>6, <1>8, <1>9, <1>10
  DEF WorkStep, CopyContext, CheckVersion, ReceiveDiff, FixBehind, ApplySteps, LookIfDue

LEMMA ArriveData ==
    ASSUME TypeInv, NEW c \in Conns, LoadRow(c) \/ Deny(c)
    PROVE  DocsFrom(Known) /\ SessionsFrom(Known)
<1>1. brief \in [Conns -> Doc]
  BY TypeParts
<1>2. \E d \in Known : brief' = [brief EXCEPT ![c] = d]
  BY KnownParts DEF LoadRow, Deny
<1>3. UNCHANGED <<row, snap, sessions>>
  BY DEF LoadRow, Deny
<1> QED
  BY <1>1, <1>2, <1>3, KnownParts DEF DocsFrom, SessionsFrom, Kept

LEMMA OpenData ==
    ASSUME TypeInv, NEW c \in Conns, OpenOrJoin(c)
    PROVE  DocsFrom(Known) /\ SessionsFrom(Known)
<1>1. brief \in [Conns -> Doc] /\ brief[c] \in Doc /\ sessions \in Sessions /\ made \in Nat
      /\ made <= MaxSessions /\ MaxSessions \in Nat /\ ref \in [Conns -> 0..made]
      /\ at \in [Conns -> Places]
  BY TypeParts
<1>2. brief' = [brief EXCEPT ![c] = EmptyDoc] /\ UNCHANGED <<row, snap>>
  BY DEF OpenOrJoin
<1>3. CASE UNCHANGED sessions
  BY <1>1, <1>2, <1>3, KnownParts DEF DocsFrom, SessionsFrom, Kept
<1>4. CASE /\ made < MaxSessions /\ sessions' = [sessions EXCEPT ![made + 1] = NewSession(brief[c])]
           /\ ref' = [ref EXCEPT ![c] = made + 1]
           /\ Goto(c, IF brief[c].blank THEN "initialising" ELSE "adding")
  <2>1. made + 1 \in Numbers
    BY <1>1, <1>4 DEF Numbers
  <2>2. sessions'[made + 1] = NewSession(brief[c]) /\ Others(made + 1)
    BY <1>1, <1>4, <2>1, NewSessionFields, Changed
  <2>3. sessions'[made + 1].snap = EmptyDoc
    BY <1>1, <2>2, NewSessionFields
  <2>4. DocsFrom(Known)
    BY <1>1, <1>2, <2>1, <2>2, <2>3, KnownParts DEF DocsFrom, Others
  <2>5. \A d \in Conns : ref'[d] = made + 1 => at'[d] \in {"initialising", "adding"}
    BY <1>1, <1>4 DEF Goto
  <2>6. Fresh(made + 1, Known)
    BY <2>2, <2>5, KnownParts DEF Fresh
  <2> QED
    BY <2>2, <2>4, <2>6 DEF SessionsFrom, Others, Kept
<1> QED
  BY <1>3, <1>4 DEF OpenOrJoin

LEMMA BackgroundData ==
    ASSUME TypeInv, NEW s \in 1..made,
           Background_Write(s) \/ Background_Fail(s) \/ Background_Done(s)
    PROVE  DocsFrom(Known) /\ SessionsFrom(Known)
<1>1. s \in Numbers /\ sessions \in Sessions
  BY TypeBackground, TypeParts
<1>2. UNCHANGED <<brief, snap>> /\ row' \in Known
  BY <1>1, KnownParts DEF Background_Write, Background_Fail, Background_Done
<1>3. CASE Background_Write(s) \/ Background_Fail(s)
  <2>1. \E to \in Background : sessions' = [sessions EXCEPT ![s].pending = to, ![s].snap = EmptyDoc]
    BY <1>3 DEF Background_Write, Background_Fail, Background
  <2>2. \E to \in Background : Paused(s, to, EmptyDoc)
    BY <1>1, <2>1, EmptyIsDoc, Pauses
  <2> QED
    BY <1>1, <1>2, <2>2, OneKept, KnownParts DEF Paused
<1>4. CASE Background_Done(s)
  <2>1. sessions' = [Saved(s) EXCEPT ![s].pending = "none"] /\ "none" \in Background
    BY <1>4 DEF Background_Done, Background
  <2>2. Stored(s, "none")
    BY <1>1, <2>1, Stores
  <2>3. DocsFrom(Known)
    BY <1>1, <1>2, <2>2, KnownParts DEF DocsFrom, Stored, Others
  <2> QED
    BY <2>2, <2>3 DEF SessionsFrom, Kept, Stored, Others
<1> QED
  BY <1>3, <1>4

LEMMA NextData ==
    ASSUME TypeInv, [Next]_vars
    PROVE  DocsFrom(Known) /\ SessionsFrom(Known)
<1>1. CASE UNCHANGED vars
  BY <1>1, NothingWritten DEF vars
<1>2. ASSUME NEW s \in Numbers, NEW parts, Moved(s, parts), UNCHANGED <<row, brief, snap>>
      PROVE  DocsFrom(Known) /\ SessionsFrom(Known)
  BY <1>2, OneKept, KnownParts DEF Moved
<1>3. ASSUME NEW c \in Conns,
             \/ LoadRow(c) \/ Handler(c) \/ CheckVersion(c) \/ ReceiveDiff(c)
             \/ Leave(c) \/ Panic(c) \/ ChangeRight(c)
      PROVE  DocsFrom(Known) /\ SessionsFrom(Known)
  <2>1. CASE AddParticipant(c)
    BY <1>2, <2>1, TypeAdd DEF AddParticipant
  <2>2. CASE Leave(c)
    BY <1>2, <2>2, TypeLeave DEF Leave
  <2>3. CASE RemoveSession(c) \/ Panic(c) \/ ChangeRight(c)
    BY <2>3, NothingWritten DEF RemoveSession, Panic, ChangeRight
  <2> QED
    BY <1>3, <2>1, <2>2, <2>3, ArriveData, OpenData, WorkData DEF Handler, WorkStep
<1>4. ASSUME NEW s \in 1..made, Background_Write(s) \/ Background_Fail(s) \/ Background_Done(s)
      PROVE  DocsFrom(Known) /\ SessionsFrom(Known)
  BY <1>4, BackgroundData
<1>5. ASSUME NEW t \in Tasks, Refresh(t) PROVE DocsFrom(Known) /\ SessionsFrom(Known)
  <2>1. CASE StartRefresh(t)
    BY <2>1, NothingWritten DEF StartRefresh
  <2>2. CASE ApplyRefresh(t)
    <3>1. UNCHANGED <<row, brief, snap>>
      BY <2>2 DEF ApplyRefresh
    <3> QED
      BY <1>2, <2>2, <3>1, TypeApply, NothingWritten
  <2> QED
    BY <1>5, <2>1, <2>2 DEF Refresh
<1>6. CASE Flush
  <2>1. /\ sessions' = [s \in Numbers |-> NewSession(EmptyDoc)]
        /\ NewSession(EmptyDoc).snap = EmptyDoc
    BY <1>6, TypeFlush, EmptyIsDoc, NewSessionFields
  <2>2. registry # NoSession => registry \in Numbers
    BY TypeParts DEF Numbers, NoSession
  <2>3. row' \in Known
    BY <1>6, <2>2, KnownParts DEF Flush, FlushedRow
  <2>4. UNCHANGED <<brief, snap>> /\ \A c \in Conns : ref'[c] = NoSession
    BY <1>6 DEF Flush
  <2>5. DocsFrom(Known)
    BY <2>1, <2>3, <2>4, KnownParts DEF DocsFrom
  <2>6. \A s \in Numbers : s # NoSession
    BY TypeParts DEF Numbers, NoSession
  <2>7. SessionsFrom(Known)
    BY <2>1, <2>4, <2>6, KnownParts DEF SessionsFrom, Fresh
  <2> QED
    BY <2>5, <2>7
<1>7. CASE RefresherPanics
  BY <1>7, NothingWritten DEF RefresherPanics
<1> QED
  BY <1>1, <1>3, <1>4, <1>5, <1>6, <1>7 DEF Next

-----------------------------------------------------------------------------
(* The list of diffs.                                                      *)

\* A list that is counted back from a version, for lists and versions of any origin.
CountsBack(ds, version) == \A i \in 1..Len(ds) : ds[i].v = version - Len(ds) + i - 1

LEMMA TrimCounts ==
    ASSUME NEW ds \in Seq(Diff), NEW version \in Nat, CountsBack(ds, version)
    PROVE  CountsBack(Trim(ds), version)
<1> DEFINE l == Newest(ds, HistoryLength)
<1>1. /\ Len(l) \in Nat /\ Len(l) <= Len(ds) /\ Len(ds) \in Nat
      /\ \A i \in 1..Len(l) : l[i] = ds[Len(ds) - Len(l) + i]
  BY NewestIsSeq, LengthAssumption
<1> HIDE DEF l
<1>2. ASSUME NEW i \in 1..Len(l) PROVE l[i].v = version - Len(l) + i - 1
  <2>1. Len(ds) - Len(l) + i \in 1..Len(ds)
    BY <1>1
  <2>2. ds[Len(ds) - Len(l) + i].v = version - Len(ds) + (Len(ds) - Len(l) + i) - 1
    BY <2>1 DEF CountsBack
  <2> QED
    BY <1>1, <2>2
<1> QED
  BY <1>2 DEF CountsBack, Trim, l

LEMMA AppendCounts ==
    ASSUME NEW ds \in Seq(Diff), NEW version \in Nat, CountsBack(ds, version),
           NEW d \in Diff, d.v = version
    PROVE  CountsBack(Append(ds, d), version + 1) /\ Append(ds, d) \in Seq(Diff)
<1> DEFINE l == Append(ds, d)
<1>1. /\ l \in Seq(Diff) /\ Len(l) = Len(ds) + 1 /\ Len(ds) \in Nat
      /\ \A i \in 1..Len(ds) : l[i] = ds[i]
      /\ l[Len(ds) + 1] = d
  BY AppendProperties
<1> HIDE DEF l
<1>2. ASSUME NEW i \in 1..Len(l) PROVE l[i].v = version + 1 - Len(l) + i - 1
  <2>1. CASE i \in 1..Len(ds)
    <3>1. l[i].v = version - Len(ds) + i - 1
      BY <1>1, <2>1 DEF CountsBack
    <3> QED
      BY <1>1, <3>1
  <2>2. CASE i = Len(ds) + 1
    BY <1>1, <2>2
  <2> QED
    BY <1>1, <2>1, <2>2
<1> QED
  BY <1>1, <1>2 DEF CountsBack, l

\* Whoever is given the newest diffs is given exactly what it lacks.
LEMMA CountedIsExact ==
    ASSUME NEW ds \in Seq(Diff), NEW version \in Nat, CountsBack(ds, version),
           NEW v \in Nat, v <= version
    PROVE  Exact(v, version, ds)
<1> DEFINE n == version - v
           l == Newest(ds, n)
<1>1. n \in Nat /\ Len(ds) \in Nat
  OBVIOUS
<1>2. /\ Len(l) = IF n < Len(ds) THEN n ELSE Len(ds)
      /\ \A i \in 1..Len(l) : l[i] = ds[Len(ds) - Len(l) + i]
  BY <1>1, NewestIsSeq
<1> HIDE DEF l
<1>3. ASSUME ReachesBack(v, version, ds)
      PROVE  Len(l) = n /\ \A i \in 1..n : l[i].v = v + i - 1
  <2>1. Len(l) = n /\ n <= Len(ds)
    BY <1>1, <1>2, <1>3 DEF ReachesBack
  <2>2. ASSUME NEW i \in 1..n PROVE l[i].v = v + i - 1
    <3>1. Len(ds) - n + i \in 1..Len(ds)
      BY <1>1, <2>1
    <3>2. ds[Len(ds) - n + i].v = version - Len(ds) + (Len(ds) - n + i) - 1
      BY <3>1 DEF CountsBack
    <3>3. l[i] = ds[Len(ds) - n + i]
      BY <1>2, <2>1
    <3>4. version - Len(ds) + (Len(ds) - n + i) - 1 = v + i - 1
      BY <1>1
    <3> QED
      BY <3>2, <3>3, <3>4
  <2> QED
    BY <2>1, <2>2
<1> QED
  BY <1>3 DEF Exact, Fix, l

LEMMA ConsecutiveIsCounted == ASSUME NEW d PROVE Consecutive(d) <=> CountsBack(d.diffs, d.version)
BY DEF Consecutive, CountsBack

LEMMA KnownDocs ==
    ASSUME TypeInv
    PROVE  Known \subseteq Doc
<1>1. \A s \in Numbers : sessions[s].snap \in Doc /\ Snapshot(s) \in Doc
  BY TypeParts, SessionFields, SnapshotIsDoc DEF Sessions
<1>2. \A c \in Conns : brief[c] \in Doc /\ snap[c] \in Doc
  BY TypeParts
<1> QED
  BY <1>1, <1>2, TypeParts DEF Known

LEMMA KnownConsecutive ==
    ASSUME TypeInv, LogsKept
    PROVE  \A d \in Known : Consecutive(d)
<1>1. Consecutive(EmptyDoc)
  BY EmptyIsDoc DEF Consecutive
<1>2. ASSUME NEW s \in Numbers PROVE Consecutive(sessions[s].snap) /\ Consecutive(Snapshot(s))
  <2>1. Consecutive(sessions[s].snap) /\ Consecutive(sessions[s])
    BY DEF LogsKept, Numbers
  <2>2. Snapshot(s).diffs = sessions[s].diffs /\ Snapshot(s).version = sessions[s].version
    BY TypeParts, SnapshotIsDoc
  <2> QED
    BY <2>1, <2>2 DEF Consecutive
<1> QED
  BY <1>1, <1>2 DEF Known, LogsKept

\* The lists stay in order whatever is written, ...
LEMMA ListsNext ==
    ASSUME TypeInv, LogsKept, DocsFrom(Known), SessionsFrom(Known)
    PROVE  /\ Consecutive(row')
           /\ \A c \in Conns : Consecutive(brief'[c]) /\ Consecutive(snap'[c])
           /\ \A s \in Numbers : Consecutive(sessions'[s]) /\ Consecutive(sessions'[s].snap)
<1>1. /\ Consecutive(row')
      /\ \A c \in Conns : Consecutive(brief'[c]) /\ Consecutive(snap'[c])
      /\ \A s \in Numbers : Consecutive(sessions'[s].snap)
  BY KnownConsecutive DEF DocsFrom
<1>2. ASSUME NEW s \in Numbers PROVE Consecutive(sessions'[s])
  <2>0. Consecutive(sessions[s]) /\ sessions[s] \in Session
    BY TypeParts DEF LogsKept, Sessions, Numbers
  <2>1. CASE Kept(s)
    BY <2>0, <2>1 DEF Kept, Consecutive
  <2>2. CASE Fresh(s, Known)
    <3>1. PICK b \in Known : sessions'[s] = NewSession(b)
      BY <2>2 DEF Fresh
    <3>2. b \in Doc /\ Consecutive(b)
      BY KnownDocs, KnownConsecutive
    <3>3. CountsBack(Trim(b.diffs), b.version)
      BY <3>2, DocFields, ConsecutiveIsCounted, TrimCounts
    <3>4. sessions'[s].diffs = Trim(b.diffs) /\ sessions'[s].version = b.version
      BY <3>1, <3>2, NewSessionFields
    <3> QED
      BY <3>3, <3>4, ConsecutiveIsCounted
  <2>3. CASE \E c \in Conns : ApplySteps(c) /\ s = ref[c] /\ Grown(s, msg[c].id)
    BY <2>0, <2>3 DEF Grown, Consecutive
  <2>4. ASSUME NEW c \in Conns, PushDiff(c), s = ref[c], Counted(s, msg[c])
        PROVE  Consecutive(sessions'[s])
    <3>1. msg[c].v = sessions[s].version
      BY <2>4 DEF PushDiff, LogsKept, Current, My
    <3> DEFINE d == [v |-> msg[c].v, id |-> msg[c].id]
    <3>2. d \in Diff /\ d.v = sessions[s].version
      <4>1. msg[c].v \in Nat /\ msg[c].id \in Nat
        BY Facts
      <4> QED
        BY <3>1, <4>1 DEF Diff
    <3>3. sessions'[s].diffs = Trim(Append(sessions[s].diffs, d)) /\ sessions'[s].version = sessions[s].version + 1
      BY <2>4 DEF Counted
    <3> HIDE DEF d
    <3>4. sessions[s].version \in Nat /\ sessions[s].diffs \in Seq(Diff)
      BY <2>0, SessionFields
    <3>5. CountsBack(Append(sessions[s].diffs, d), sessions[s].version + 1)
          /\ Append(sessions[s].diffs, d) \in Seq(Diff)
      BY <2>0, <3>2, <3>4, ConsecutiveIsCounted, AppendCounts
    <3>6. CountsBack(Trim(Append(sessions[s].diffs, d)), sessions[s].version + 1)
      <4>1. sessions[s].version + 1 \in Nat
        BY <3>4
      <4> QED
        BY <3>5, <4>1, TrimCounts
    <3> QED
      BY <3>3, <3>6, ConsecutiveIsCounted
  <2> QED
    BY <2>1, <2>2, <2>3, <2>4 DEF SessionsFrom
<1> QED
  BY <1>1, <1>2

\* ... and whoever has looked at the version has seen the one of now: only the writer
\* changes it.
Busy == {"behind", "checked", "applied"}
LEMMA OthersCurrent ==
    ASSUME OneWriter, TypeInv, LogsKept, SessionsFrom(Known),
           NEW d \in Conns, at'[d] = at[d] /\ msg'[d] = msg[d] /\ ref'[d] = ref[d],
           ~PushDiff(d)
    PROVE  Current(d)'
<1>1. CASE at[d] \notin Busy
  BY <1>1 DEF Current, Busy
<1>2. CASE at[d] \in Busy
  <2>1. /\ at[d] \in Places \ {"out", "resolving"} /\ d \in Writers
    BY <1>2 DEF Busy, LogsKept, Current, Places
  <2>2. ref[d] \in Numbers
    BY <2>1, Facts
  <2>3. sessions'[ref[d]].version = sessions[ref[d]].version
    <3>1. CASE Kept(ref[d])
      BY <3>1 DEF Kept
    <3>2. ~Fresh(ref[d], Known)
      BY <1>2 DEF Fresh, Busy
    <3>3. CASE \E c \in Conns : ApplySteps(c) /\ Grown(ref[d], msg[c].id)
      BY <3>3 DEF Grown
    <3>4. ASSUME NEW c \in Conns, PushDiff(c) PROVE FALSE
      <4>1. c \in Writers
        BY <3>4 DEF PushDiff, LogsKept, Current
      <4> QED
        BY <2>1, <3>4, <4>1 DEF OneWriter
    <3> QED
      BY <2>2, <3>1, <3>2, <3>3, <3>4 DEF SessionsFrom
  <2> QED
    BY <2>3 DEF LogsKept, Current, My
<1> QED
  BY <1>1, <1>2

LEMMA OneLooks ==
    ASSUME OneWriter, TypeInv, LogsKept, SessionsFrom(Known), NEW c \in Conns,
           \A d \in Conns \ {c} : at'[d] = at[d] /\ msg'[d] = msg[d] /\ ref'[d] = ref[d],
           Current(c)', \A d \in Conns \ {c} : ~PushDiff(d)
    PROVE  \A d \in Conns : Current(d)'
BY OthersCurrent

LEMMA LooksNext ==
    ASSUME OneWriter, TypeInv, LogsKept, [Next]_vars
    PROVE  \A d \in Conns : Current(d)'
<1> USE NextData
<1>0. /\ at \in [Conns -> Places] /\ ref \in [Conns -> 0..made] /\ sessions \in Sessions
      /\ msg \in [Conns -> [v : Nat, dv : Nat, id : Nat]]
  BY TypeParts
<1>1. ASSUME UNCHANGED <<at, msg, ref>> PROVE \A d \in Conns : Current(d)'
  <2>1. \A d \in Conns : ~PushDiff(d)
    BY <1>0, <1>1 DEF PushDiff, Goto
  <2> QED
    BY <1>1, <2>1, OthersCurrent
<1>2. ASSUME NEW c \in Conns, NEW p \in Places \ Busy, at' = [at EXCEPT ![c] = p],
             UNCHANGED ref \/ \E r : ref' = [ref EXCEPT ![c] = r],
             UNCHANGED msg \/ \E m : msg' = [msg EXCEPT ![c] = m]
      PROVE  \A d \in Conns : Current(d)'
  <2>1. at'[c] = p /\ \A d \in Conns \ {c} : at'[d] = at[d] /\ msg'[d] = msg[d] /\ ref'[d] = ref[d]
    BY <1>0, <1>2
  <2>2. Current(c)'
    BY <2>1 DEF Current, Busy
  <2>3. \A d \in Conns \ {c} : ~PushDiff(d)
    <3>1. ASSUME NEW d \in Conns \ {c}, PushDiff(d) PROVE FALSE
      <4>1. at'[d] = "pushed" /\ at[d] = "applied"
        BY <1>0, <3>1 DEF PushDiff, Goto
      <4> QED
        BY <2>1, <4>1
    <3> QED
      BY <3>1
  <2> QED
    BY <2>1, <2>2, <2>3, OneLooks
<1>3. ASSUME NEW c \in Conns, Done(c) PROVE \E p \in Places \ Busy : at' = [at EXCEPT ![c] = p]
  <2>1. DonePlace(c) \in Places \ Busy
    BY DEF DonePlace, Places, Busy
  <2> QED
    BY <1>3, <2>1 DEF Done, Goto, DonePlace
<1>4. ASSUME NEW c \in Conns, AfterSave(c) PROVE \E p \in Places \ Busy : at' = [at EXCEPT ![c] = p]
  BY <1>3, <1>4 DEF AfterSave, Goto, Places, Busy
<1>5. ASSUME NEW c \in Conns, NEW p \in Places \ Busy, Goto(c, p)
      PROVE  \E q \in Places \ Busy : at' = [at EXCEPT ![c] = q]
  BY <1>5 DEF Goto
<1>6. {"out", "resolving", "initialising", "adding", "joined", "idle", "pushed", "due",
       "saving", "writing", "wrote", "removing", "closing"} \subseteq Places \ Busy
  BY DEF Places, Busy
<1>7. ASSUME NEW c \in Conns,
             \/ LoadRow(c) \/ Handler(c) \/ CheckVersion(c) \/ ReceiveDiff(c)
             \/ Leave(c) \/ Panic(c) \/ ChangeRight(c)
      PROVE  \A d \in Conns : Current(d)'
  <2>1. CASE LoadRow(c) \/ Deny(c)
    BY <1>2, <1>5, <1>6, <2>1 DEF LoadRow, Deny
  <2>2. CASE OpenOrJoin(c)
    <3>1. \E p \in Places \ Busy : at' = [at EXCEPT ![c] = p]
      BY <1>5, <1>6, <2>2 DEF OpenOrJoin
    <3> QED
      BY <1>2, <2>2, <3>1 DEF OpenOrJoin
  <2>3. CASE Initialise(c) \/ AddParticipant(c) \/ CopyContext(c)
    BY <1>2, <1>5, <1>6, <2>3 DEF Initialise, AddParticipant, CopyContext
  <2>4. CASE CheckVersion(c)
    <3>1. \E p \in Places \ Busy : at' = [at EXCEPT ![c] = p]
      BY <1>3, <1>5, <1>6, <2>4 DEF CheckVersion, CatchUp
    <3> QED
      BY <1>2, <2>4, <3>1 DEF CheckVersion
  <2>5. CASE ReceiveDiff(c)
    <3>1. /\ at[c] = "idle" /\ c \in Writers /\ UNCHANGED <<ref, sessions>>
          /\ ref[c] # NoSession
      <4>1. ref[c] # NoSession
        BY <2>5, Facts DEF ReceiveDiff
      <4> QED
        BY <2>5, <4>1 DEF ReceiveDiff
    <3>2. CASE Goto(c, "saving") /\ UNCHANGED msg
      BY <1>2, <1>5, <1>6, <3>1, <3>2
    <3>3. ASSUME NEW v \in 0..My(c).version,
                 msg' = [msg EXCEPT ![c] = [v |-> v, dv |-> My(c).version, id |-> used'.diffs]],
                 Goto(c, IF v = My(c).version THEN "checked" ELSE "behind")
          PROVE  \A d \in Conns : Current(d)'
      <4>1. /\ msg'[c] = [v |-> v, dv |-> My(c).version, id |-> used'.diffs]
            /\ at'[c] = IF v = My(c).version THEN "checked" ELSE "behind"
            /\ \A d \in Conns \ {c} : at'[d] = at[d] /\ msg'[d] = msg[d] /\ ref'[d] = ref[d]
        BY <1>0, <3>1, <3>3 DEF Goto
      <4>2. My(c).version \in Nat
        BY <3>1, Facts, SessionFields
      <4>3. Current(c)'
        BY <3>1, <4>1, <4>2 DEF Current, My
      <4>4. \A d \in Conns \ {c} : ~PushDiff(d)
        <5>1. ASSUME NEW d \in Conns \ {c}, PushDiff(d) PROVE FALSE
          <6>1. at'[d] = "pushed" /\ at[d] = "applied"
            BY <1>0, <5>1 DEF PushDiff, Goto
          <6> QED
            BY <4>1, <6>1
        <5> QED
          BY <5>1
      <4> QED
        BY <4>1, <4>3, <4>4, OneLooks
    <3> QED
      BY <2>5, <3>2, <3>3 DEF ReceiveDiff
  <2>6. CASE FixBehind(c)
    <3>1. \E p \in Places \ Busy : at' = [at EXCEPT ![c] = p]
      BY <1>3, <1>5, <1>6, <2>6 DEF FixBehind, CatchUp
    <3> QED
      BY <1>2, <2>6, <3>1 DEF FixBehind
  <2>7. CASE ApplySteps(c)
    <3>1. CASE Refused(c)
      BY <1>2, <1>5, <1>6, <2>7, <3>1 DEF Refused, ApplySteps
    <3>2. CASE /\ sessions' = [sessions EXCEPT ![ref[c]].text = Append(@, msg[c].id)]
               /\ Goto(c, "applied") /\ UNCHANGED msg
      <4>1. /\ at[c] = "checked" /\ UNCHANGED ref /\ ref[c] \in Numbers /\ msg[c].id \in Nat
        BY <2>7, Facts DEF ApplySteps
      <4>2. sessions'[ref[c]].version = sessions[ref[c]].version
        BY <1>0, <3>2, <4>1, Grows DEF Grown
      <4>3. /\ at'[c] = "applied" /\ \A d \in Conns \ {c} : at'[d] = at[d]
        BY <1>0, <3>2 DEF Goto
      <4>4. Current(c)'
        BY <3>2, <4>1, <4>2, <4>3 DEF LogsKept, Current, My
      <4>5. \A d \in Conns \ {c} : ~PushDiff(d)
        <5>1. ASSUME NEW d \in Conns \ {c}, PushDiff(d) PROVE FALSE
          <6>1. at'[d] = "pushed" /\ at[d] = "applied"
            BY <1>0, <5>1 DEF PushDiff, Goto
          <6> QED
            BY <4>3, <6>1
        <5> QED
          BY <5>1
      <4> QED
        BY <3>2, <4>1, <4>3, <4>4, <4>5, OneLooks
    <3> QED
      BY <2>7, <3>1, <3>2 DEF ApplySteps
  <2>8. CASE PushDiff(c)
    BY <1>2, <1>5, <1>6, <2>8 DEF PushDiff
  <2>9. ASSUME NEW x \in Conns, Confirm(x), UNCHANGED ref PROVE \A d \in Conns : Current(d)'
    BY <1>2, <1>3, <2>9 DEF Confirm
  <2>10. CASE LookIfDue(c)
    <3>1. CASE Goto(c, "due") /\ UNCHANGED msg
      BY <1>2, <1>5, <1>6, <2>10, <3>1 DEF LookIfDue
    <3> QED
      BY <2>9, <2>10, <3>1 DEF LookIfDue
  <2>11. CASE SaveDue(c)
    BY <2>9, <2>11 DEF SaveDue
  <2>12. CASE StartSave(c)
    <3>1. CASE Goto(c, "writing")
      BY <1>2, <1>5, <1>6, <2>12, <3>1 DEF StartSave
    <3> QED
      BY <1>2, <1>4, <2>12, <3>1 DEF StartSave
  <2>13. CASE WriteRow(c)
    BY <1>2, <1>5, <1>6, <2>13 DEF WriteRow
  <2>14. CASE FailWrite(c) \/ MarkSaved(c)
    BY <1>2, <1>4, <2>14 DEF FailWrite, MarkSaved
  <2>15. CASE RemoveSession(c)
    BY <1>2, <1>5, <1>6, <2>15 DEF RemoveSession, Forget
  <2>16. CASE Leave(c)
    <3>1. CASE Goto(c, "saving") /\ UNCHANGED ref
      BY <1>2, <1>5, <1>6, <2>16, <3>1 DEF Leave
    <3>2. CASE Forget(c)
      BY <1>2, <1>5, <1>6, <2>16, <3>2 DEF Leave, Forget
    <3> QED
      BY <2>16, <3>1, <3>2 DEF Leave
  <2>17. CASE ChangeRight(c)
    BY <1>1, <2>17 DEF ChangeRight
  <2>18. CASE Panic(c)
    BY <1>2, <1>5, <1>6, <2>18 DEF Panic, Forget
  <2> QED
    BY <1>7, <2>1, <2>2, <2>3, <2>4, <2>5, <2>6, <2>7, <2>8, <2>10, <2>11, <2>12, <2>13, <2>14,
       <2>15, <2>16, <2>17, <2>18 DEF Handler
<1>8. CASE UNCHANGED vars
  BY <1>1, <1>8 DEF vars
<1>9. ASSUME NEW s \in 1..made, Background_Write(s) \/ Background_Fail(s) \/ Background_Done(s)
      PROVE  \A d \in Conns : Current(d)'
  BY <1>1, <1>9 DEF Background_Write, Background_Fail, Background_Done
<1>10. ASSUME NEW t \in Tasks, Refresh(t) PROVE \A d \in Conns : Current(d)'
  BY <1>1, <1>10 DEF Refresh, StartRefresh, ApplyRefresh
<1>11. CASE Flush
  BY <1>11 DEF Flush, Current
<1>12. CASE RefresherPanics
  BY <1>1, <1>12 DEF RefresherPanics
<1> QED
  BY <1>7, <1>8, <1>9, <1>10, <1>11, <1>12 DEF Next

\* With one writer, whoever is found behind and can be caught up is sent the versions it
\* lacks, each once and in order, whatever was trimmed, stored and loaded before
\* (handle_diff, check_version).
THEOREM CaughtUpCorrect == OneWriter /\ Spec => []CaughtUp
<1>1. OneWriter /\ Init => TypeInv /\ LogsKept
  <2> SUFFICES ASSUME Init PROVE TypeInv /\ LogsKept
    OBVIOUS
  <2>1. Consecutive(EmptyDoc) /\ Consecutive(NewSession(EmptyDoc)) /\ NewSession(EmptyDoc).snap = EmptyDoc
    <3>1. /\ NewSession(EmptyDoc).diffs = Trim(<<>>) /\ NewSession(EmptyDoc).version = 0
          /\ NewSession(EmptyDoc).snap = EmptyDoc
      BY EmptyIsDoc, NewSessionFields
    <3>2. CountsBack(<<>>, 0) /\ <<>> \in Seq(Diff)
      BY EmptySeq DEF CountsBack
    <3>3. CountsBack(Trim(<<>>), 0)
      BY <3>2, TrimCounts
    <3> QED
      BY <3>1, <3>2, <3>3, EmptyIsDoc, ConsecutiveIsCounted
  <2>2. Consecutive(row)
    <3>1. \E blank \in BOOLEAN : row = [EmptyDoc EXCEPT !.blank = blank]
      BY DEF Init
    <3>2. row.diffs = <<>> /\ row.version = 0
      BY <3>1 DEF EmptyDoc
    <3> QED
      BY <3>2 DEF Consecutive
  <2>3. \A c \in Conns : Current(c)
    BY DEF Init, Current
  <2> QED
    BY <2>1, <2>2, <2>3, TypeInit DEF Init, LogsKept
<1>2. OneWriter /\ TypeInv /\ LogsKept /\ [Next]_vars => TypeInv' /\ LogsKept'
  <2> SUFFICES ASSUME OneWriter, TypeInv, LogsKept, [Next]_vars PROVE TypeInv' /\ LogsKept'
    OBVIOUS
  <2>1. TypeInv'
    BY TypeNext
  <2>2. DocsFrom(Known) /\ SessionsFrom(Known)
    BY NextData
  <2>3. LogsKept'
    BY <2>2, ListsNext, LooksNext DEF LogsKept, Consecutive, Numbers
  <2> QED
    BY <2>1, <2>3
<1>3. TypeInv /\ LogsKept => CaughtUp
  <2> SUFFICES ASSUME TypeInv, LogsKept, NEW c \in Conns
               PROVE  /\ at[c] = "behind" => Exact(msg[c].v, msg[c].dv, My(c).diffs)
                      /\ at[c] = "idle" => \A v \in 0..(My(c).version - 1) :
                                               Exact(v, My(c).version, My(c).diffs)
    BY DEF CaughtUp
  <2>1. SUFFICES ASSUME at[c] \in {"behind", "idle"}
                 PROVE  /\ at[c] = "behind" => Exact(msg[c].v, msg[c].dv, My(c).diffs)
                        /\ at[c] = "idle" => \A v \in 0..(My(c).version - 1) :
                                                 Exact(v, My(c).version, My(c).diffs)
    OBVIOUS
  <2>2. ref[c] \in Numbers /\ My(c) \in Session /\ msg[c].v \in Nat /\ msg[c].dv \in Nat
    BY <2>1, Facts
  <2>3. My(c).diffs \in Seq(Diff) /\ My(c).version \in Nat
    BY <2>2, SessionFields
  <2>4. CountsBack(My(c).diffs, My(c).version)
    BY <2>2, ConsecutiveIsCounted DEF LogsKept, My, Numbers
  <2>5. at[c] = "behind" => msg[c].dv = My(c).version /\ msg[c].v <= msg[c].dv
    BY DEF LogsKept, Current
  <2>6. ASSUME NEW v \in 0..(My(c).version - 1) PROVE Exact(v, My(c).version, My(c).diffs)
    BY <2>3, <2>4, CountedIsExact
  <2>7. at[c] = "behind" => Exact(msg[c].v, msg[c].dv, My(c).diffs)
    BY <2>2, <2>3, <2>4, <2>5, CountedIsExact
  <2> QED
    BY <2>6, <2>7
<1>4. OneWriter /\ TypeInv /\ LogsKept /\ [Next]_vars => OneWriter'
  BY DEF OneWriter
<1> QED
  BY <1>1, <1>2, <1>3, <1>4, PTL DEF Spec

-----------------------------------------------------------------------------
(* The text reaches the version.                                           *)

\* Only ApplySteps puts a diff into a text before the version counts it.
LEMMA OneAhead ==
    ASSUME TypeInv, [Next]_vars, NEW d \in Conns, at'[d] = "applied"
    PROVE  /\ ref'[d] = ref[d] /\ ref[d] \in Numbers
           /\ at[d] = "applied" \/ (ApplySteps(d) /\ Grown(ref[d], msg[d].id))
<1>0. /\ at \in [Conns -> Places] /\ ref \in [Conns -> 0..made] /\ sessions \in Sessions
  BY TypeParts
<1>1. ASSUME UNCHANGED <<at, ref>>
      PROVE  ref'[d] = ref[d] /\ at[d] = "applied"
  BY <1>1
<1>2. ASSUME NEW c \in Conns, NEW p, p # "applied", at' = [at EXCEPT ![c] = p],
             UNCHANGED ref \/ \E r : ref' = [ref EXCEPT ![c] = r]
      PROVE  ref'[d] = ref[d] /\ at[d] = "applied"
  BY <1>0, <1>2
<1>3. ASSUME NEW c \in Conns, AfterSave(c) \/ Done(c)
      PROVE \E p : p # "applied" /\ at' = [at EXCEPT ![c] = p]
  BY <1>3 DEF AfterSave, Done, Goto
<1>4. ASSUME NEW c \in Conns, NEW p, p # "applied", Goto(c, p)
      PROVE  \E q : q # "applied" /\ at' = [at EXCEPT ![c] = q]
  BY <1>4 DEF Goto
<1>5. ASSUME ref'[d] = ref[d] /\ at[d] = "applied"
      PROVE  /\ ref'[d] = ref[d] /\ ref[d] \in Numbers /\ at[d] = "applied"
  BY <1>5, Facts
<1>6. ASSUME NEW c \in Conns,
             \/ LoadRow(c) \/ Handler(c) \/ CheckVersion(c) \/ ReceiveDiff(c)
             \/ Leave(c) \/ Panic(c) \/ ChangeRight(c)
      PROVE  \/ ref'[d] = ref[d] /\ at[d] = "applied"
             \/ /\ ref'[d] = ref[d] /\ ref[d] \in Numbers
                /\ ApplySteps(d) /\ Grown(ref[d], msg[d].id)
  <2>1. CASE LoadRow(c) \/ Deny(c)
    BY <1>2, <1>4, <2>1 DEF LoadRow, Deny
  <2>2. CASE OpenOrJoin(c)
    <3>1. \E p : p # "applied" /\ at' = [at EXCEPT ![c] = p]
      BY <1>4, <2>2 DEF OpenOrJoin
    <3> QED
      BY <1>2, <2>2, <3>1 DEF OpenOrJoin
  <2>3. CASE Initialise(c) \/ AddParticipant(c) \/ CopyContext(c)
    BY <1>2, <1>4, <2>3 DEF Initialise, AddParticipant, CopyContext
  <2>4. CASE CheckVersion(c)
    BY <1>2, <1>3, <1>4, <2>4 DEF CheckVersion, CatchUp
  <2>5. CASE ReceiveDiff(c)
    <3>1. \E p : p # "applied" /\ at' = [at EXCEPT ![c] = p]
      BY <1>4, <2>5 DEF ReceiveDiff
    <3> QED
      BY <1>2, <2>5, <3>1 DEF ReceiveDiff
  <2>6. CASE FixBehind(c)
    BY <1>2, <1>3, <1>4, <2>6 DEF FixBehind, CatchUp
  <2>7. CASE ApplySteps(c)
    <3>1. CASE Refused(c)
      BY <1>2, <1>4, <2>7, <3>1 DEF Refused, ApplySteps
    <3>2. CASE /\ sessions' = [sessions EXCEPT ![ref[c]].text = Append(@, msg[c].id)]
               /\ Goto(c, "applied")
      <4>1. ref[c] \in Numbers /\ msg[c].id \in Nat /\ UNCHANGED ref
        BY <2>7, Facts DEF ApplySteps
      <4>2. Grown(ref[c], msg[c].id)
        BY <1>0, <3>2, <4>1, Grows
      <4>3. d # c => at[d] = "applied"
        BY <1>0, <3>2 DEF Goto
      <4> QED
        BY <2>7, <4>1, <4>2, <4>3
    <3> QED
      BY <2>7, <3>1, <3>2 DEF ApplySteps
  <2>8. CASE PushDiff(c)
    BY <1>2, <1>4, <2>8 DEF PushDiff
  <2>9. CASE LookIfDue(c)
    BY <1>2, <1>3, <1>4, <2>9 DEF LookIfDue, Confirm
  <2>10. CASE SaveDue(c)
    BY <1>2, <1>3, <2>10 DEF SaveDue, Confirm
  <2>11. CASE StartSave(c)
    BY <1>2, <1>3, <1>4, <2>11 DEF StartSave
  <2>12. CASE WriteRow(c)
    BY <1>2, <1>4, <2>12 DEF WriteRow
  <2>13. CASE FailWrite(c) \/ MarkSaved(c)
    BY <1>2, <1>3, <2>13 DEF FailWrite, MarkSaved
  <2>14. CASE RemoveSession(c)
    BY <1>2, <1>4, <2>14 DEF RemoveSession, Forget
  <2>15. CASE Leave(c)
    BY <1>2, <1>4, <2>15 DEF Leave, Forget
  <2>16. CASE ChangeRight(c)
    BY <1>1, <2>16 DEF ChangeRight
  <2>17. CASE Panic(c)
    BY <1>2, <1>4, <2>17 DEF Panic, Forget
  <2> QED
    BY <1>6, <2>1, <2>2, <2>3, <2>4, <2>5, <2>6, <2>7, <2>8, <2>9, <2>10, <2>11, <2>12, <2>13,
       <2>14, <2>15, <2>16, <2>17 DEF Handler
<1>7. CASE UNCHANGED vars
  BY <1>1, <1>5, <1>7 DEF vars
<1>8. ASSUME NEW s \in 1..made, Background_Write(s) \/ Background_Fail(s) \/ Background_Done(s)
      PROVE  ref'[d] = ref[d] /\ at[d] = "applied"
  BY <1>1, <1>8 DEF Background_Write, Background_Fail, Background_Done
<1>9. ASSUME NEW t \in Tasks, Refresh(t) PROVE ref'[d] = ref[d] /\ at[d] = "applied"
  BY <1>1, <1>9 DEF Refresh, StartRefresh, ApplyRefresh
<1>10. ~Flush
  BY DEF Flush
<1>11. ASSUME RefresherPanics PROVE ref'[d] = ref[d] /\ at[d] = "applied"
  BY <1>1, <1>11 DEF RefresherPanics
<1> QED
  BY <1>5, <1>6, <1>7, <1>8, <1>9, <1>10, <1>11 DEF Next

LEMMA AheadFinite ==
    ASSUME NEW s
    PROVE  IsFiniteSet(Ahead(s)) /\ Cardinality(Ahead(s)) \in Nat
<1>1. Ahead(s) \subseteq Conns
  BY DEF Ahead
<1> QED
  BY <1>1, ConnAssumption, FS_Subset, FS_CardinalityType

LEMMA FewerAhead ==
    ASSUME NEW s, NEW S, S \subseteq Ahead(s)
    PROVE  Cardinality(S) <= Cardinality(Ahead(s)) /\ Cardinality(S) \in Nat
BY AheadFinite, FS_Subset, FS_CardinalityType

LEMMA KnownReaches ==
    ASSUME TypeInv, TextsReach
    PROVE  \A d \in Known : Reaches(d)
<1>1. Reaches(EmptyDoc)
  BY EmptyIsDoc DEF Reaches
<1>2. ASSUME NEW s \in Numbers PROVE Reaches(sessions[s].snap) /\ Reaches(Snapshot(s))
  <2>1. Reaches(sessions[s].snap) /\ sessions[s].version + Cardinality(Ahead(s)) <= Len(sessions[s].text)
    BY DEF TextsReach, Numbers
  <2>2. sessions[s] \in Session
    BY TypeParts DEF Sessions
  <2>3. sessions[s].version \in Nat /\ Len(sessions[s].text) \in Nat
    BY <2>2, SessionFields
  <2>4. sessions[s].version <= Len(sessions[s].text)
    BY <2>1, <2>3, AheadFinite
  <2>5. Snapshot(s).text = sessions[s].text /\ Snapshot(s).version = sessions[s].version
    BY TypeParts, SnapshotIsDoc
  <2> QED
    BY <2>1, <2>4, <2>5 DEF Reaches
<1> QED
  BY <1>1, <1>2 DEF Known, TextsReach

Room(s) == sessions[s].version + Cardinality(Ahead(s)) <= Len(sessions[s].text)

LEMMA RoomNext ==
    ASSUME TypeInv, TextsReach, [Next]_vars, NEW s \in Numbers
    PROVE  Room(s)'
<1> DEFINE n == sessions[s]
           m == sessions'[s]
           A == Ahead(s)
           B == Ahead(s)'
<1>1. /\ n \in Session /\ n.version \in Nat /\ n.text \in Seq(Nat) /\ Len(n.text) \in Nat
      /\ n.version + Cardinality(A) <= Len(n.text)
  <2>1. n \in Session
    BY TypeParts DEF Sessions
  <2>2. n.version + Cardinality(A) <= Len(n.text)
    BY DEF TextsReach, Numbers
  <2> QED
    BY <2>1, <2>2, SessionFields
<1>2. B = {d \in Conns : ref'[d] = s /\ at'[d] = "applied"}
  BY DEF Ahead
<1>3. A = {d \in Conns : ref[d] = s /\ at[d] = "applied"}
  BY DEF Ahead
<1>4. IsFiniteSet(A) /\ Cardinality(A) \in Nat
  BY AheadFinite
<1>5. \A S \in SUBSET A : Cardinality(S) <= Cardinality(A) /\ Cardinality(S) \in Nat
  BY FewerAhead
<1>6. \A d \in B : d \in A \/ (ApplySteps(d) /\ Grown(s, msg[d].id) /\ ref[d] = s)
  BY <1>2, <1>3, OneAhead
<1>7. SUFFICES m.version + Cardinality(B) <= Len(m.text)
  BY DEF Room
<1> HIDE DEF A, B
<1>8. CASE Kept(s)
  <2>1. B \subseteq A
    <3>1. ASSUME NEW d \in B, ApplySteps(d), Grown(s, msg[d].id), ref[d] = s PROVE FALSE
      <4>1. msg[d].id \in Nat
        BY <1>2, <3>1, Facts
      <4>2. Len(m.text) = Len(n.text) + 1
        BY <1>1, <3>1, <4>1, AppendProperties DEF Grown
      <4> QED
        BY <1>1, <1>8, <4>2 DEF Kept
    <3> QED
      BY <1>6, <3>1
  <2>2. Cardinality(B) <= Cardinality(A) /\ Cardinality(B) \in Nat
    BY <1>5, <2>1
  <2> QED
    BY <1>1, <1>4, <1>8, <2>2 DEF Kept
<1>9. CASE Fresh(s, Known)
  <2>1. PICK b \in Known : m = NewSession(b)
    BY <1>9 DEF Fresh
  <2>2. b \in Doc /\ Reaches(b)
    BY KnownDocs, KnownReaches
  <2>3. m.version = b.version /\ m.text = b.text
    BY <2>1, <2>2, NewSessionFields
  <2>4. B = {}
    BY <1>2, <1>9 DEF Fresh
  <2> QED
    BY <2>2, <2>3, <2>4, DocFields, FS_EmptySet DEF Reaches
<1>10. ASSUME NEW c \in Conns, ApplySteps(c), s = ref[c], Grown(s, msg[c].id)
       PROVE  m.version + Cardinality(B) <= Len(m.text)
  <2>1. B \subseteq A \cup {c}
    <3>1. ASSUME NEW d \in B, d # c, ApplySteps(d) PROVE FALSE
      <4>1. d \in Conns /\ at'[d] = "applied" /\ at[d] = "checked"
        BY <1>2, <3>1 DEF ApplySteps
      <4>2. at \in [Conns -> Places] /\ \E p : at' = [at EXCEPT ![c] = p]
        BY <1>10, TypeParts DEF ApplySteps, Refused, Goto
      <4> QED
        BY <3>1, <4>1, <4>2
    <3> QED
      BY <1>6, <3>1
  <2>2. c \notin A
    BY <1>3, <1>10 DEF ApplySteps
  <2>3. IsFiniteSet(A \cup {c}) /\ Cardinality(A \cup {c}) = Cardinality(A) + 1
    BY <1>4, <2>2, FS_AddElement
  <2>4. Cardinality(B) <= Cardinality(A) + 1 /\ Cardinality(B) \in Nat
    BY <2>1, <2>3, FS_Subset, FS_CardinalityType
  <2>5. msg[c].id \in Nat
    BY Facts
  <2>6. Len(m.text) = Len(n.text) + 1 /\ m.version = n.version
    BY <1>1, <1>10, <2>5, AppendProperties DEF Grown
  <2> QED
    BY <1>1, <1>4, <2>4, <2>6
<1>11. ASSUME NEW c \in Conns, PushDiff(c), s = ref[c], Counted(s, msg[c])
       PROVE  m.version + Cardinality(B) <= Len(m.text)
  <2>1. at[c] = "applied" /\ at' = [at EXCEPT ![c] = "pushed"] /\ at \in [Conns -> Places]
    BY <1>11, TypeParts DEF PushDiff, Goto
  <2>2. c \in A
    BY <1>3, <1>11, <2>1
  <2>3. B \subseteq A \ {c}
    <3>1. ASSUME NEW d \in B PROVE d \in A /\ d # c
      <4>1. d \in Conns /\ at'[d] = "applied"
        BY <1>2
      <4>2. d # c /\ at[d] = "applied"
        BY <2>1, <4>1
      <4> QED
        BY <1>6, <4>2 DEF ApplySteps
    <3> QED
      BY <3>1
  <2>4. IsFiniteSet(A \ {c}) /\ Cardinality(A \ {c}) = Cardinality(A) - 1
    BY <1>4, <2>2, FS_RemoveElement
  <2>5. Cardinality(B) <= Cardinality(A) - 1 /\ Cardinality(B) \in Nat
    BY <2>3, <2>4, FS_Subset, FS_CardinalityType
  <2>6. m.text = n.text /\ m.version = n.version + 1
    BY <1>11 DEF Counted
  <2> QED
    BY <1>1, <1>4, <2>5, <2>6
<1> QED
  BY <1>8, <1>9, <1>10, <1>11, NextData DEF SessionsFrom

LEMMA ReachNext ==
    ASSUME TypeInv, TextsReach, [Next]_vars
    PROVE  TextsReach'
<1>1. /\ Reaches(row') /\ \A c \in Conns : Reaches(brief'[c]) /\ Reaches(snap'[c])
      /\ \A s \in Numbers : Reaches(sessions'[s].snap)
  BY NextData, KnownReaches DEF DocsFrom
<1>2. \A s \in Numbers : Room(s)'
  BY RoomNext
<1> QED
  BY <1>1, <1>2 DEF TextsReach, Reaches, Room, Numbers

LEMMA ReachInit == ASSUME Init PROVE TextsReach
<1>1. /\ NewSession(EmptyDoc).text = <<>> /\ NewSession(EmptyDoc).version = 0
      /\ NewSession(EmptyDoc).snap = EmptyDoc /\ Len(<<>>) = 0
  BY EmptyIsDoc, NewSessionFields, EmptySeq
<1>2. Reaches(EmptyDoc)
  BY EmptyIsDoc DEF Reaches
<1>3. Reaches(row)
  BY <1>1 DEF Init, Reaches, EmptyDoc
<1>4. \A s : Ahead(s) = {}
  BY DEF Init, Ahead
<1>5. \A s \in 1..MaxSessions : sessions[s] = NewSession(EmptyDoc)
  BY DEF Init
<1>6. Cardinality({}) = 0
  BY FS_EmptySet
<1>7. ASSUME NEW s \in 1..MaxSessions
      PROVE  /\ sessions[s].version + Cardinality(Ahead(s)) <= Len(sessions[s].text)
             /\ Reaches(sessions[s].snap)
  <2>1. sessions[s] = NewSession(EmptyDoc) /\ Cardinality(Ahead(s)) = 0
    BY <1>4, <1>5, <1>6
  <2> QED
    BY <1>1, <1>2, <2>1
<1>8. \A c \in Conns : brief[c] = EmptyDoc /\ snap[c] = EmptyDoc
  BY DEF Init
<1> QED
  BY <1>2, <1>3, <1>7, <1>8 DEF TextsReach

-----------------------------------------------------------------------------
(* One author at a time.                                                   *)

Here(c) == at[c] # "out"
Exactly(d) == d.version = Len(d.text)
Within(id, text) == \E n \in 1..Len(text) : text[n] = id
Covers(text, ids) == \A i \in ids : Within(i, text)
Begins(a, b) == Len(a) <= Len(b) /\ \A n \in 1..Len(a) : a[n] = b[n]
Active == {"initialising", "behind", "checked", "applied", "pushed", "due"}
Entering == {"initialising", "adding", "joined"}

\* A background save that is under way writes what the session has.
Steady(s, text, ids) ==
    /\ Covers(s.text, ids)
    /\ Exactly(s)
    /\ s.pending = "writing" => s.snap.text = s.text /\ s.snap.version = s.version
    /\ s.pending = "wrote" => text = s.text
\* How many versions the row may be behind: those since the last one for which a save is
\* due, and all of them when that save is under way.
Lag(p, s) == IF p \in {"pushed", "due"} \/ s.pending = "writing"
             THEN SaveInterval ELSE s.version % SaveInterval
\* A session s and the row's text, when the task is at p with the diff id.
Fine(p, id, s, text, ids) ==
    /\ Begins(text, s.text)
    /\ Covers(s.text, ids)
    /\ Len(s.text) = IF p = "applied" THEN s.version + 1 ELSE s.version
    /\ s.saved <= s.version
    /\ p \in Entering => s.saved = s.version
    /\ p \in {"pushed", "due"} => s.saved < s.version
    /\ p \in {"applied", "pushed", "due"} => Within(id, s.text)
    /\ s.saved = s.version /\ p # "applied" => text = s.text
    /\ p \in {"wrote", "removing"} => text = s.text
    /\ s.version - Len(text) <= Lag(p, s)
    /\ p = "pushed" /\ ~IsDue(s.version) => s.version - Len(text) <= s.version % SaveInterval
Alone == \A c, d \in Conns : Here(c) /\ Here(d) => c = d
\* A session whose only task died while it entered is registered with nobody in it, and has
\* nothing that the row has not.
Resting ==
    /\ Exactly(row)
    /\ (\A c \in Conns : ref[c] = NoSession) /\ registry # NoSession =>
           Fine("adding", 0, sessions[registry], row.text, confirmed)
    /\ (\A c \in Conns : ref[c] = NoSession) => Covers(row.text, confirmed)
    /\ \A c \in Conns : at[c] = "resolving" =>
           brief[c].text = row.text /\ brief[c].version = row.version
Pausing(s) == sessions[s].pending # "none" =>
    /\ \A c \in Conns : Here(c) => ref[c] = s /\ at[c] \notin Active
    /\ \A r \in Numbers : sessions[r].pending # "none" => r = s
    /\ registry \in {NoSession, s}
    /\ Steady(sessions[s], row.text, confirmed)
Working(c) == ref[c] # NoSession =>
    /\ registry = ref[c]
    /\ ref[c] \in poisoned => at[c] = "adding"
    /\ Fine(at[c], msg[c].id, My(c), row.text, confirmed)
    /\ at[c] = "writing" => snap[c].text = My(c).text /\ snap[c].version = My(c).version
\* Who is alone pauses while a save is under way, and nothing confirmed is missing from the
\* session, nor from the row once everybody has gone.
SoloKept == /\ Alone /\ Resting
            /\ \A s \in Numbers : Pausing(s)
            /\ \A c \in Conns : Working(c)


LEMMA OneHere ==
    ASSUME TypeInv, SoloKept, NEW c \in Conns, Here(c), NEW d \in Conns \ {c}
    PROVE  at[d] = "out" /\ ref[d] = NoSession
BY DEF SoloKept, Alone, Here, TypeInv, Placed

LEMMA Numeric ==
    ASSUME TypeInv, NEW s \in Numbers
    PROVE  /\ sessions[s] \in Session /\ sessions[s].version \in Nat /\ sessions[s].saved \in Nat
           /\ sessions[s].text \in Seq(Nat) /\ Len(sessions[s].text) \in Nat
           /\ row.text \in Seq(Nat) /\ Len(row.text) \in Nat /\ row.version \in Nat
<1>1. sessions[s] \in Session /\ row \in Doc
  BY TypeParts DEF Sessions
<1> QED
  BY <1>1, SessionFields, DocFields

LEMMA Modulo ==
    ASSUME NEW v \in Nat
    PROVE  v % SaveInterval \in 0..(SaveInterval - 1) /\ SaveInterval \in Nat \ {0}
<1>1. SaveInterval \in Nat \ {0}
  BY LengthAssumption
<1> QED
  BY <1>1

LEMMA Remainder ==
    ASSUME NEW n \in Nat \ {0}, NEW q \in Int, NEW r \in 0..(n - 1)
    PROVE  (n * q + r) % n = r
OBVIOUS

LEMMA ModuloNext ==
    ASSUME NEW v \in Nat, ~IsDue(v + 1)
    PROVE  (v + 1) % SaveInterval = (v % SaveInterval) + 1
<1> DEFINE S == SaveInterval
           q == v \div S
           r == v % S
<1>1. S \in Nat \ {0} /\ (v + 1) % S # 0
  BY Modulo DEF IsDue
<1> HIDE DEF S
<1>2. v = S * q + r /\ q \in Int /\ r \in 0..(S - 1)
  BY <1>1
<1> HIDE DEF q, r
<1>3. S * q \in Int /\ v + 1 = S * q + (r + 1)
  BY <1>1, <1>2
<1>4. CASE r + 1 < S
  <2>1. r + 1 \in 0..(S - 1)
    BY <1>1, <1>2, <1>4
  <2>2. (S * q + (r + 1)) % S = r + 1
    BY <1>1, <1>2, <2>1, Remainder
  <2> QED
    BY <1>3, <2>2 DEF r, S
<1>5. CASE r + 1 = S
  <2>1. q + 1 \in Int /\ v + 1 = S * (q + 1) + 0 /\ 0 \in 0..(S - 1)
    BY <1>1, <1>2, <1>3, <1>5
  <2>2. (S * (q + 1) + 0) % S = 0
    BY <1>1, <2>1, Remainder
  <2> QED
    BY <1>1, <2>1, <2>2
<1> QED
  BY <1>1, <1>2, <1>4, <1>5

LEMMA LagIsNatural ==
    ASSUME NEW p, NEW s \in Session
    PROVE  Lag(p, s) \in 0..SaveInterval
<1>1. s.version \in Nat
  BY SessionFields
<1>2. s.version % SaveInterval \in 0..SaveInterval /\ SaveInterval \in 0..SaveInterval
  BY <1>1, Modulo
<1> QED
  BY <1>2 DEF Lag

\* A text that is stored is as fine as it gets.
LEMMA StoredIsFine ==
    ASSUME NEW s \in Session, NEW p, p \notin {"applied", "pushed", "due"}, NEW id, NEW ids,
           Covers(s.text, ids), Exactly(s), s.saved <= s.version,
           p \in Entering => s.saved = s.version
    PROVE  Fine(p, id, s, s.text, ids)
<1>1. s.text \in Seq(Nat) /\ s.version \in Nat /\ Len(s.text) \in Nat
  BY SessionFields
<1>2. Lag(p, s) >= 0 /\ Lag(p, s) \in Int
  BY LagIsNatural, LengthAssumption
<1> QED
  BY <1>1, <1>2 DEF Fine, Begins, Exactly

\* The task moves on and its session stays the same.
LEMMA MovesOnFine ==
    ASSUME NEW s \in Session, NEW t \in Session, Same(s, t), t.pending = s.pending,
           NEW text, NEW ids, NEW id, NEW new, NEW p, NEW q, Fine(p, id, s, text, ids),
           {p, q} \cap {"applied", "pushed", "due"} = {}, q \in Entering => p \in Entering,
           q \in {"wrote", "removing"} => text = s.text
    PROVE  Fine(q, new, t, text, ids)
<1>1. Lag(q, t) = Lag(p, s)
  BY DEF Lag, Same
<1> QED
  BY <1>1 DEF Fine, Same

\* A step of the only task, which has a session before and afterwards.
LEMMA SoloStep ==
    ASSUME TypeInv, SoloKept, NEW c \in Conns, ref[c] # NoSession, NEW q,
           q \notin {"out", "resolving"}, at' = [at EXCEPT ![c] = q],
           UNCHANGED <<ref, registry, brief, locks>>, ref[c] \in poisoned => q = "adding",
           Others(ref[c]), Exactly(row'),
           sessions'[ref[c]].pending # "none" =>
               q \notin Active /\ Steady(sessions'[ref[c]], row'.text, confirmed'),
           Fine(q, msg'[c].id, sessions'[ref[c]], row'.text, confirmed'),
           q = "writing" => /\ snap'[c].text = sessions'[ref[c]].text
                            /\ snap'[c].version = sessions'[ref[c]].version
    PROVE  SoloKept'
<1>1. /\ at \in [Conns -> Places] /\ at[c] \notin {"out", "resolving"} /\ ref[c] \in Numbers
      /\ registry = ref[c]
  BY TypeParts, Facts DEF SoloKept, Working
<1>2. Here(c)
  BY <1>1 DEF Here
<1>3. at'[c] = q /\ \A d \in Conns \ {c} : at'[d] = "out" /\ ref[d] = NoSession
  BY <1>1, <1>2, OneHere
<1>4. Alone'
  BY <1>3 DEF Alone, Here
<1>5. Resting'
  BY <1>3 DEF Resting
<1>9. UNCHANGED <<ref, registry, poisoned>>
  BY DEF locks
<1>6. ASSUME NEW s \in Numbers PROVE Pausing(s)'
  <2>1. CASE s # ref[c]
    <3>1. sessions'[s].pending = "none"
      BY <1>2, <2>1 DEF SoloKept, Pausing, Others
    <3> QED
      BY <3>1 DEF Pausing
  <2>2. CASE s = ref[c]
    <3>1. \A r \in Numbers : r # s => sessions'[r].pending = "none"
      BY <1>2, <2>2 DEF SoloKept, Pausing, Others
    <3> QED
      BY <1>1, <1>3, <1>9, <2>2, <3>1 DEF Pausing, Here
  <2> QED
    BY <2>1, <2>2
<1>7. ASSUME NEW d \in Conns PROVE Working(d)'
  BY <1>1, <1>3, <1>9 DEF Working, My
<1>8. Numbers' = Numbers
  BY DEF Numbers
<1> QED
  BY <1>4, <1>5, <1>6, <1>7, <1>8 DEF SoloKept

\* A step that moves the only task on and leaves everything else.
LEMMA SoloMoves ==
    ASSUME TypeInv, SoloKept, NEW c \in Conns, ref[c] # NoSession, NEW q,
           q \notin {"out", "resolving"} \cup Active \cup {"writing", "wrote"},
           at' = [at EXCEPT ![c] = q],
           at[c] \notin {"applied", "pushed", "due"}, q \in Entering => at[c] \in Entering,
           q = "removing" => row.text = My(c).text, ref[c] \notin poisoned,
           UNCHANGED <<row, ref, registry, brief, locks, confirmed>>, sessions' \in Sessions,
           Others(ref[c]),
           Same(My(c), sessions'[ref[c]]), sessions'[ref[c]].pending = My(c).pending,
           sessions'[ref[c]].snap = My(c).snap
    PROVE  SoloKept'
<1>1. ref[c] \in Numbers /\ My(c) \in Session /\ sessions'[ref[c]] \in Session
  BY Facts DEF Sessions
<1>2. Fine(at[c], msg[c].id, My(c), row.text, confirmed)
  BY DEF SoloKept, Working
<1>3. Fine(q, msg'[c].id, sessions'[ref[c]], row.text, confirmed)
  BY <1>1, <1>2, MovesOnFine DEF Active
<1>4. ASSUME sessions'[ref[c]].pending # "none"
      PROVE  q \notin Active /\ Steady(sessions'[ref[c]], row.text, confirmed)
  <2>1. Steady(My(c), row.text, confirmed)
    BY <1>1, <1>4 DEF SoloKept, Pausing, My
  <2> QED
    BY <2>1 DEF Steady, Same, Exactly
<1>5. Exactly(row')
  BY DEF SoloKept, Resting, Exactly
<1> QED
  BY <1>3, <1>4, <1>5, SoloStep


\* Whoever is about to change the session is not waited for by a background save.
LEMMA NonePending ==
    ASSUME TypeInv, SoloKept, NEW c \in Conns, ref[c] # NoSession, at[c] \in Active
    PROVE  My(c).pending = "none"
<1>1. ref[c] \in Numbers /\ Here(c)
  BY Facts DEF Here, Active
<1> QED
  BY <1>1 DEF SoloKept, Pausing, My

\* The save of a text that is as new as its version is queued, and diffs are confirmed.
LEMMA SpawnedFine ==
    ASSUME NEW s \in Session, NEW t \in Session, Same(s, t), t.pending = "writing",
           t.snap.text = s.text, t.snap.version = s.version,
           NEW text, Len(text) \in Nat, NEW ids, NEW more, NEW id, NEW new, NEW p, NEW q,
           Fine(p, id, s, text, ids),
           p # "applied", q \notin {"applied", "pushed", "due", "wrote", "removing"},
           q \in Entering => p \in Entering, Covers(s.text, more)
    PROVE  Fine(q, new, t, text, more)
<1>1. s.version \in Nat /\ Len(s.text) \in Nat /\ SaveInterval \in Nat \ {0}
  BY SessionFields, LengthAssumption
<1>2. Lag(p, s) \in 0..SaveInterval
  BY LagIsNatural
<1>3. Lag(q, t) = SaveInterval
  BY DEF Lag
<1>4. s.version - Len(text) <= SaveInterval
  BY <1>1, <1>2 DEF Fine
<1> QED
  BY <1>3, <1>4 DEF Fine, Same

LEMMA SpawnedSteady ==
    ASSUME NEW s \in Session, NEW t \in Session, Same(s, t), t.pending = "writing",
           t.snap.text = s.text, t.snap.version = s.version,
           NEW text, NEW ids, NEW more, NEW id, NEW p, Fine(p, id, s, text, ids),
           p # "applied", Covers(s.text, more)
    PROVE  Steady(t, text, more)
BY DEF Fine, Steady, Same, Exactly

LEMMA CoversOne ==
    ASSUME NEW text, NEW ids, NEW id, Covers(text, ids), Within(id, text)
    PROVE  Covers(text, ids \cup {id})
BY DEF Covers

LEMMA AppendCovers ==
    ASSUME NEW text \in Seq(Nat), NEW id \in Nat
    PROVE  /\ Len(Append(text, id)) = Len(text) + 1
           /\ Within(id, Append(text, id))
           /\ \A i : Within(i, text) => Within(i, Append(text, id))
           /\ \A a : Begins(a, text) /\ Len(a) \in Nat => Begins(a, Append(text, id))
<1> DEFINE l == Append(text, id)
<1>1. /\ Len(l) = Len(text) + 1 /\ Len(text) \in Nat /\ l[Len(text) + 1] = id
      /\ \A n \in 1..Len(text) : l[n] = text[n]
  BY AppendProperties
<1> HIDE DEF l
<1>2. Within(id, l)
  BY <1>1 DEF Within
<1>3. \A i : Within(i, text) => Within(i, l)
  <2>1. \A n \in 1..Len(text) : n \in 1..Len(l)
    BY <1>1
  <2> QED
    BY <1>1, <2>1 DEF Within
<1>4. ASSUME NEW a, Begins(a, text), Len(a) \in Nat PROVE Begins(a, l)
  <2>1. \A n \in 1..Len(a) : n \in 1..Len(text)
    BY <1>1, <1>4 DEF Begins
  <2> QED
    BY <1>1, <1>4, <2>1 DEF Begins
<1> QED
  BY <1>1, <1>2, <1>3, <1>4 DEF l

LEMMA SoloWork ==
    ASSUME Solo, TypeInv, SoloKept, NEW c \in Conns, WorkStep(c)
    PROVE  SoloKept'
<1>1. /\ ref[c] # NoSession /\ ref[c] \in Numbers /\ ref[c] \in 1..made /\ My(c) \in Session
      /\ My(c) = sessions[ref[c]] /\ msg[c] \in [v : Nat, dv : Nat, id : Nat] /\ msg[c].id \in Nat
      /\ at[c] \in Places
  BY TypeWork, Facts DEF My
<1>2. /\ My(c).version \in Nat /\ My(c).saved \in Nat /\ My(c).text \in Seq(Nat)
      /\ Len(My(c).text) \in Nat /\ row.text \in Seq(Nat) /\ Len(row.text) \in Nat
  BY <1>1, Numeric
<1>3. /\ Fine(at[c], msg[c].id, My(c), row.text, confirmed) /\ Exactly(row)
      /\ registry = ref[c]
      /\ at[c] = "writing" => snap[c].text = My(c).text /\ snap[c].version = My(c).version
  BY <1>1 DEF SoloKept, Working, Resting
<1>4. /\ sessions \in Sessions /\ at \in [Conns -> Places] /\ snap \in [Conns -> Doc]
      /\ msg \in [Conns -> [v : Nat, dv : Nat, id : Nat]]
  BY TypeParts
<1>5. My(c).pending # "none" => at[c] \notin Active /\ Steady(My(c), row.text, confirmed)
  BY <1>1, NonePending DEF SoloKept, Pausing
<1>0. ref[c] \notin poisoned
  <2>1. ref[c] \in poisoned => at[c] = "adding"
    BY <1>1 DEF SoloKept, Working
  <2> QED
    BY <2>1 DEF WorkStep, Initialise, CopyContext, CheckVersion, ReceiveDiff, FixBehind, ApplySteps,
                PushDiff, LookIfDue, SaveDue, StartSave, WriteRow, FailWrite, MarkSaved
\* Steps that only move the task on.
<1>6. ASSUME NEW q \in {"idle", "closing", "saving", "removing"}, at' = [at EXCEPT ![c] = q],
             at[c] \notin {"applied", "pushed", "due"}, q = "removing" => row.text = My(c).text,
             UNCHANGED <<row, ref, registry, brief, locks, confirmed, sessions>>
      PROVE  SoloKept'
  <2>1. /\ Same(My(c), sessions'[ref[c]]) /\ Others(ref[c]) /\ sessions' \in Sessions
        /\ sessions'[ref[c]].pending = My(c).pending /\ sessions'[ref[c]].snap = My(c).snap
    BY <1>1, <1>4, <1>6 DEF Same, Others
  <2>2. q \notin {"out", "resolving"} \cup Active \cup {"writing", "wrote"}
    BY DEF Active
  <2>3. q \notin Entering
    BY DEF Entering
  <2> QED
    BY <1>0, <1>1, <1>6, <2>1, <2>2, <2>3, SoloMoves
<1>7. ASSUME Done(c) \/ Goto(c, "saving"), at[c] \notin {"applied", "pushed", "due"},
             UNCHANGED <<row, ref, registry, brief, locks, confirmed, sessions>>
      PROVE  SoloKept'
  <2>1. \E q \in {"idle", "closing", "saving"} : at' = [at EXCEPT ![c] = q]
    BY <1>7 DEF Done, Goto
  <2> QED
    BY <1>6, <1>7, <2>1
<1>8. CASE CheckVersion(c) \/ FixBehind(c)
  BY <1>7, <1>8 DEF CheckVersion, FixBehind, CatchUp
<1>9. CASE CopyContext(c)
  BY <1>6, <1>9 DEF CopyContext, Goto
\* The next place of a task that has a diff, or what it shall write.
<1>10. ASSUME NEW q \in {"checked", "behind", "writing"}, at' = [at EXCEPT ![c] = q],
              at[c] \notin {"applied", "pushed", "due"},
              UNCHANGED <<row, ref, registry, brief, locks, confirmed, sessions>>,
              q # "writing" => My(c).pending = "none",
              q = "writing" => snap' = [snap EXCEPT ![c] = Snapshot(ref[c])]
       PROVE  SoloKept'
  <2>1. Same(My(c), My(c)) /\ Others(ref[c])
    BY <1>10 DEF Same, Others
  <2>2. Fine(q, msg'[c].id, sessions'[ref[c]], row'.text, confirmed')
    BY <1>1, <1>3, <1>10, <2>1, MovesOnFine DEF Entering
  <2>3. sessions'[ref[c]].pending # "none" =>
            q \notin Active /\ Steady(sessions'[ref[c]], row'.text, confirmed')
    BY <1>1, <1>5, <1>10 DEF Active
  <2>4. q = "writing" => /\ snap'[c].text = sessions'[ref[c]].text
                         /\ snap'[c].version = sessions'[ref[c]].version
    BY <1>1, <1>4, <1>10, SnapshotIsDoc
  <2>5. Exactly(row')
    BY <1>3, <1>10
  <2> QED
    BY <1>0, <1>1, <1>10, <2>1, <2>2, <2>3, <2>4, <2>5, SoloStep
<1>11. CASE ReceiveDiff(c)
  <2>1. /\ at[c] = "idle" /\ ~InFlight
        /\ UNCHANGED <<row, ref, registry, brief, locks, confirmed, sessions>>
    BY <1>11 DEF ReceiveDiff
  <2>2. My(c).pending = "none"
    BY <1>1, <2>1 DEF InFlight
  <2>3. \E q \in {"saving", "checked", "behind"} : at' = [at EXCEPT ![c] = q]
    BY <1>11 DEF ReceiveDiff, Goto
  <2> QED
    BY <1>6, <1>10, <2>1, <2>2, <2>3
<1>12. CASE StartSave(c)
  <2>1. /\ at[c] = "saving"
        /\ UNCHANGED <<row, ref, registry, brief, locks, confirmed, sessions>>
    BY <1>12 DEF StartSave
  <2>2. CASE Goto(c, "writing") /\ snap' = [snap EXCEPT ![c] = Snapshot(ref[c])]
    BY <1>10, <2>1, <2>2 DEF Goto
  <2>3. CASE ~SaveNeeded(ref[c]) /\ AfterSave(c)
    <3>1. row.text = My(c).text
      BY <1>1, <1>3, <2>1, <2>3 DEF SaveNeeded, Fine
    <3>2. \E q \in {"idle", "closing", "removing"} : at' = [at EXCEPT ![c] = q]
      BY <2>3 DEF AfterSave, Done, Goto
    <3> QED
      BY <1>6, <2>1, <3>1, <3>2
  <2> QED
    BY <1>12, <2>2, <2>3 DEF StartSave
\* Steps that queue a save.
<1>13. ASSUME NEW q \in {"adding", "idle", "closing"}, at' = [at EXCEPT ![c] = q],
              at[c] # "applied", q = "adding" => at[c] = "initialising",
              UNCHANGED <<row, ref, registry, brief, locks>>,
              Paused(ref[c], "writing", Snapshot(ref[c])), Covers(My(c).text, confirmed')
       PROVE  SoloKept'
  <2> DEFINE t == sessions'[ref[c]]
  <2>1. /\ t \in Session /\ Same(My(c), t) /\ t.pending = "writing" /\ t.snap = Snapshot(ref[c])
        /\ Others(ref[c])
    BY <1>1, <1>13 DEF Paused, Sessions
  <2>2. t.snap.text = My(c).text /\ t.snap.version = My(c).version
    BY <1>1, <1>4, <2>1, SnapshotIsDoc
  <2> HIDE DEF t
  <2>3. Fine(q, msg'[c].id, t, row.text, confirmed') /\ Steady(t, row.text, confirmed')
    <3>1. q \notin {"applied", "pushed", "due", "wrote", "removing"}
      OBVIOUS
    <3>2. Fine(at[c], msg[c].id, My(c), row.text, confirmed) /\ at[c] # "applied"
      BY <1>3, <1>13
    <3>3. /\ My(c) \in Session /\ t \in Session /\ Same(My(c), t) /\ t.pending = "writing"
          /\ Len(row.text) \in Nat /\ Covers(My(c).text, confirmed')
          /\ q \in Entering => at[c] \in Entering
      BY <1>1, <1>2, <1>13, <2>1 DEF Entering
    <3>4. Fine(q, msg'[c].id, t, row.text, confirmed')
      BY <2>2, <3>1, <3>2, <3>3, SpawnedFine
    <3>5. Steady(t, row.text, confirmed')
      BY <2>2, <3>2, <3>3, SpawnedSteady
    <3> QED
      BY <3>4, <3>5
  <2>4. q \notin Active /\ Exactly(row')
    BY <1>3, <1>13 DEF Active
  <2> QED
    BY <1>0, <1>1, <1>13, <2>1, <2>3, <2>4, SoloStep DEF t
<1>14. CASE Initialise(c)
  <2>1. My(c).pending = "none" /\ at[c] = "initialising"
    BY <1>1, <1>14, NonePending DEF Initialise, Active
  <2>2. Paused(ref[c], "writing", Snapshot(ref[c]))
    BY <1>1, <1>4, <1>14, <2>1, Spawns DEF Initialise
  <2>3. Covers(My(c).text, confirmed)
    BY <1>3 DEF Fine
  <2> QED
    BY <1>13, <1>14, <2>1, <2>2, <2>3 DEF Initialise, Goto
<1>15. CASE SaveDue(c)
  <2>1. My(c).pending = "none" /\ at[c] = "due"
    BY <1>1, <1>15, NonePending DEF SaveDue, Active
  <2>2. SaveNeeded(ref[c])
    BY <1>1, <1>2, <1>3, <2>1 DEF SaveNeeded, Fine
  <2>3. Paused(ref[c], "writing", Snapshot(ref[c]))
    BY <1>1, <1>4, <1>15, <2>1, <2>2, Spawns DEF SaveDue
  <2>4. Covers(My(c).text, confirmed')
    <3>1. Covers(My(c).text, confirmed) /\ Within(msg[c].id, My(c).text)
      BY <1>3, <2>1 DEF Fine
    <3>2. confirmed' = confirmed \cup {msg[c].id}
      BY <1>15 DEF SaveDue, Confirm
    <3> QED
      BY <3>1, <3>2, CoversOne
  <2>5. \E q \in {"idle", "closing"} : at' = [at EXCEPT ![c] = q]
    BY <1>15 DEF SaveDue, Confirm, Done, Goto
  <2> QED
    BY <1>13, <1>15, <2>1, <2>3, <2>4, <2>5 DEF SaveDue
<1>16. CASE ApplySteps(c)
  <2>1. at[c] = "checked" /\ UNCHANGED <<row, ref, registry, brief, locks, confirmed>>
    BY <1>16 DEF ApplySteps
  <2>2. CASE Refused(c) /\ UNCHANGED sessions
    BY <1>7, <2>1, <2>2 DEF Refused
  <2>3. CASE /\ sessions' = [sessions EXCEPT ![ref[c]].text = Append(@, msg[c].id)]
             /\ Goto(c, "applied") /\ UNCHANGED msg
    <3> DEFINE t == sessions'[ref[c]]
    <3>1. Grown(ref[c], msg[c].id)
      BY <1>1, <1>4, <2>3, Grows
    <3>2. /\ Others(ref[c]) /\ t.text = Append(My(c).text, msg[c].id) /\ t.version = My(c).version
          /\ t.saved = My(c).saved /\ t.pending = My(c).pending
      BY <1>1, <3>1 DEF Grown
    <3> HIDE DEF t
    <3>3. My(c).pending = "none"
      BY <1>1, <2>1, NonePending DEF Active
    <3>4. Lag("applied", t) = Lag("checked", My(c))
      BY <3>2, <3>3 DEF Lag
    <3>5. /\ Len(t.text) = Len(My(c).text) + 1 /\ Within(msg[c].id, t.text)
          /\ \A i : Within(i, My(c).text) => Within(i, t.text)
          /\ Begins(row.text, My(c).text) => Begins(row.text, t.text)
      BY <1>1, <1>2, <3>2, AppendCovers
    <3>6. Fine("checked", msg[c].id, My(c), row.text, confirmed)
      BY <1>3, <2>1
    <3>7. Fine("applied", msg[c].id, t, row.text, confirmed)
      BY <3>2, <3>4, <3>5, <3>6 DEF Fine, Covers, Entering
    <3> QED
      BY <1>0, <1>1, <1>3, <2>1, <2>3, <3>2, <3>3, <3>7, SoloStep DEF Goto, t
  <2> QED
    BY <1>16, <2>2, <2>3 DEF ApplySteps
<1>17. CASE PushDiff(c)
  <2> DEFINE t == sessions'[ref[c]]
  <2>1. /\ at[c] = "applied" /\ UNCHANGED <<row, ref, registry, brief, locks, confirmed, msg>>
        /\ at' = [at EXCEPT ![c] = "pushed"]
    BY <1>17 DEF PushDiff, Goto
  <2>2. sessions' = [sessions EXCEPT ![ref[c]] = Logged(@, msg[c])]
    BY <1>17 DEF PushDiff
  <2>3. Counted(ref[c], msg[c])
    BY <1>1, <1>4, <2>2, Counts
  <2>4. /\ Others(ref[c]) /\ t.text = My(c).text /\ t.version = My(c).version + 1
        /\ t.saved = My(c).saved /\ t.pending = My(c).pending
    BY <1>1, <2>3 DEF Counted
  <2> HIDE DEF t
  <2>5. My(c).pending = "none"
    BY <1>1, <2>1, NonePending DEF Active
  <2>6. Fine("applied", msg[c].id, My(c), row.text, confirmed)
    BY <1>3, <2>1
  <2>7. /\ My(c).version % SaveInterval \in 0..(SaveInterval - 1) /\ SaveInterval \in Nat \ {0}
        /\ My(c).version - Len(row.text) <= My(c).version % SaveInterval
    BY <1>2, <2>5, <2>6, Modulo DEF Fine, Lag
  <2>8. t.version - Len(row.text) <= SaveInterval /\ Lag("pushed", t) = SaveInterval
    BY <1>2, <2>4, <2>7 DEF Lag
  <2>9. ~IsDue(t.version) => t.version - Len(row.text) <= t.version % SaveInterval
    <3>1. ASSUME ~IsDue(t.version)
          PROVE  t.version % SaveInterval = (My(c).version % SaveInterval) + 1
      BY <1>2, <2>4, <3>1, ModuloNext
    <3> DEFINE r == t.version % SaveInterval
               l == My(c).version % SaveInterval
    <3>2. ~IsDue(t.version) => r = l + 1
      BY <3>1
    <3>3. l \in Int /\ My(c).version - Len(row.text) <= l
      BY <2>7
    <3> HIDE DEF r, l
    <3>4. ~IsDue(t.version) => t.version - Len(row.text) <= r
      BY <1>2, <2>4, <3>2, <3>3
    <3> QED
      BY <3>4 DEF r
  <2>10. t.saved <= t.version /\ t.saved < t.version
    BY <1>2, <2>4, <2>6 DEF Fine
  <2>11. Fine("pushed", msg[c].id, t, row.text, confirmed)
    BY <1>2, <2>4, <2>6, <2>8, <2>9, <2>10 DEF Fine, Entering
  <2> QED
    BY <1>0, <1>1, <1>3, <2>1, <2>4, <2>5, <2>11, SoloStep DEF t
<1>18. CASE LookIfDue(c)
  <2>1. at[c] = "pushed" /\ UNCHANGED <<row, ref, registry, brief, locks, sessions>>
    BY <1>18 DEF LookIfDue
  <2>2. My(c).pending = "none" /\ Others(ref[c])
    BY <1>1, <2>1, NonePending DEF Active, Others
  <2>3. Fine("pushed", msg[c].id, My(c), row.text, confirmed)
    BY <1>3, <2>1
  <2>4. CASE Goto(c, "due") /\ UNCHANGED <<msg, confirmed>>
    <3>1. Fine("due", msg[c].id, My(c), row.text, confirmed)
      BY <2>3 DEF Fine, Lag, Entering
    <3> QED
      BY <1>0, <1>1, <1>3, <2>1, <2>2, <2>4, <3>1, SoloStep DEF Goto
  <2>5. CASE ~IsDue(My(c).version) /\ Confirm(c)
    <3>1. PICK q \in {"idle", "closing"} : at' = [at EXCEPT ![c] = q]
      BY <2>5 DEF Confirm, Done, Goto
    <3>2. Covers(My(c).text, confirmed')
      <4>1. Covers(My(c).text, confirmed) /\ Within(msg[c].id, My(c).text)
        BY <2>3 DEF Fine
      <4>2. confirmed' = confirmed \cup {msg[c].id}
        BY <2>5 DEF Confirm
      <4> QED
        BY <4>1, <4>2, CoversOne
    <3>3. /\ Lag(q, My(c)) = My(c).version % SaveInterval
          /\ My(c).version - Len(row.text) <= My(c).version % SaveInterval
      BY <2>2, <2>3, <2>5 DEF Fine, Lag
    <3>4. Fine(q, msg'[c].id, My(c), row.text, confirmed')
      BY <2>3, <3>2, <3>3 DEF Fine, Entering
    <3> QED
      BY <1>0, <1>1, <1>3, <2>1, <2>2, <3>1, <3>4, SoloStep
  <2> QED
    BY <1>18, <2>4, <2>5 DEF LookIfDue
<1>19. CASE WriteRow(c)
  <2>1. /\ at[c] = "writing" /\ row' = snap[c] /\ at' = [at EXCEPT ![c] = "wrote"]
        /\ UNCHANGED <<ref, registry, brief, locks, sessions, confirmed, msg>>
    BY <1>19 DEF WriteRow, Goto
  <2>2. row'.text = My(c).text /\ row'.version = My(c).version
    BY <1>3, <2>1
  <2>3. Covers(My(c).text, confirmed) /\ Exactly(My(c)) /\ My(c).saved <= My(c).version
    BY <1>3, <2>1 DEF Fine, Exactly
  <2>4. Fine("wrote", msg[c].id, My(c), My(c).text, confirmed)
    BY <1>1, <2>3, StoredIsFine DEF Entering
  <2>5. My(c).pending # "none" => Steady(My(c), row'.text, confirmed)
    BY <1>5, <2>2 DEF Steady
  <2>6. Exactly(row') /\ Others(ref[c]) /\ "wrote" \notin Active
    BY <2>1, <2>2, <2>3 DEF Exactly, Others, Active
  <2> QED
    BY <1>0, <1>1, <2>1, <2>2, <2>4, <2>5, <2>6, SoloStep
<1>20. CASE FailWrite(c)
  BY <1>20 DEF FailWrite
<1>21. CASE MarkSaved(c)
  <2> DEFINE t == sessions'[ref[c]]
  <2>1. /\ at[c] = "wrote" /\ UNCHANGED <<row, ref, registry, brief, locks, confirmed, msg>>
        /\ sessions' = Saved(ref[c]) /\ AfterSave(c)
    BY <1>21 DEF MarkSaved
  <2>2. Stored(ref[c], My(c).pending)
    <3>1. My(c).pending \in Background
      BY <1>1, SessionFields
    <3> QED
      BY <1>1, <1>4, <2>1, <3>1, Stores
  <2>3. /\ Others(ref[c]) /\ t.text = My(c).text /\ t.version = My(c).version
        /\ t.saved = My(c).version /\ t.pending = My(c).pending /\ t.snap = My(c).snap
        /\ t \in Session
    BY <1>1, <2>2 DEF Stored, Sessions
  <2> HIDE DEF t
  <2>4. row.text = My(c).text /\ Covers(My(c).text, confirmed) /\ Exactly(My(c))
    BY <1>3, <2>1 DEF Fine, Exactly
  <2>5. PICK q \in {"idle", "closing", "removing"} : at' = [at EXCEPT ![c] = q]
    BY <2>1 DEF AfterSave, Done, Goto
  <2>6. Fine(q, msg[c].id, t, row.text, confirmed)
    <3>1. Covers(t.text, confirmed) /\ Exactly(t) /\ t.saved <= t.version /\ row.text = t.text
      BY <1>2, <2>3, <2>4 DEF Exactly
    <3> QED
      BY <2>3, <3>1, StoredIsFine DEF Entering
  <2>7. t.pending # "none" => Steady(t, row.text, confirmed) /\ q \notin Active
    BY <1>5, <2>3 DEF Steady, Exactly, Active
  <2> QED
    BY <1>0, <1>1, <1>3, <2>1, <2>3, <2>5, <2>6, <2>7, SoloStep DEF t
<1> QED
  BY <1>8, <1>9, <1>11, <1>12, <1>14, <1>15, <1>16, <1>17, <1>18, <1>19, <1>20, <1>21 DEF WorkStep


LEMMA SameFine ==
    ASSUME NEW s, NEW t, Same(s, t), t.pending = s.pending, NEW p, NEW id, NEW text, NEW ids,
           Fine(p, id, s, text, ids)
    PROVE  Fine(p, id, t, text, ids)
<1>1. Lag(p, t) = Lag(p, s)
  BY DEF Lag, Same
<1> QED
  BY <1>1 DEF Fine, Same

LEMMA SameSteady ==
    ASSUME NEW s, NEW t, Same(s, t), t.pending = s.pending, t.snap = s.snap, NEW text, NEW ids,
           Steady(s, text, ids)
    PROVE  Steady(t, text, ids)
BY DEF Steady, Same, Exactly

\* A step that changes nobody's place, no text and no version.
LEMMA SoloRests ==
    ASSUME TypeInv, SoloKept,
           UNCHANGED <<row, registry, at, ref, brief, msg, snap, poisoned, confirmed>>,
           \A s \in Numbers : /\ Same(sessions[s], sessions'[s])
                              /\ sessions'[s].pending = sessions[s].pending
                              /\ sessions'[s].snap = sessions[s].snap
    PROVE  SoloKept'
<1>5. registry # NoSession => registry \in Numbers
  BY TypeParts DEF Numbers, NoSession
<1>6. Alone' /\ Exactly(row)'
  BY DEF SoloKept, Alone, Here, Resting, Exactly
<1>1. Resting'
  <2>1. (\A c \in Conns : ref[c] = NoSession) /\ registry # NoSession =>
            Fine("adding", 0, sessions'[registry], row.text, confirmed)
    BY <1>5, SameFine DEF SoloKept, Resting
  <2> QED
    BY <1>6, <2>1 DEF SoloKept, Resting
<1>2. ASSUME NEW s \in Numbers PROVE Pausing(s)'
  <2>1. SUFFICES ASSUME sessions'[s].pending # "none" PROVE Pausing(s)'
    BY DEF Pausing
  <2>2. Steady(sessions[s], row.text, confirmed)
    BY <2>1 DEF SoloKept, Pausing
  <2>3. Steady(sessions'[s], row.text, confirmed)
    BY <2>2, SameSteady
  <2>4. /\ \A c \in Conns : Here(c) => ref[c] = s /\ at[c] \notin Active
        /\ \A r \in Numbers : sessions[r].pending # "none" => r = s
        /\ registry \in {NoSession, s}
    BY <2>1 DEF SoloKept, Pausing
  <2> QED
    BY <2>3, <2>4 DEF Pausing, Here, Numbers
<1>3. ASSUME NEW c \in Conns, ref[c] # NoSession PROVE Working(c)'
  <2>1. ref[c] \in Numbers /\ Working(c)
    BY <1>3, Facts DEF SoloKept
  <2>2. Fine(at[c], msg[c].id, sessions'[ref[c]], row.text, confirmed)
    BY <1>3, <2>1, SameFine DEF Working, My
  <2> QED
    BY <1>3, <2>1, <2>2 DEF Working, My, Same
<1>4. Numbers' = Numbers /\ \A c \in Conns : ref[c] = NoSession => Working(c)'
  BY DEF Numbers, Working
<1> QED
  BY <1>1, <1>2, <1>3, <1>4, <1>6 DEF SoloKept

\* Whoever is here without a session waits for no save.
LEMMA NothingPending ==
    ASSUME TypeInv, SoloKept, NEW c \in Conns, Here(c), ref[c] = NoSession
    PROVE  \A s \in Numbers : sessions[s].pending = "none"
<1>1. \A s \in Numbers : s # NoSession
  BY TypeParts DEF Numbers, NoSession
<1> QED
  BY <1>1 DEF SoloKept, Pausing

LEMMA SoloArrive ==
    ASSUME Solo, TypeInv, SoloKept, NEW c \in Conns, LoadRow(c) \/ Deny(c)
    PROVE  SoloKept'
<1>1. /\ at \in [Conns -> Places] /\ brief \in [Conns -> Doc] /\ ref[c] = NoSession
      /\ made \in Nat
  BY TypeParts DEF LoadRow, Deny, TypeInv, Placed
<1>2. /\ \A d \in Conns \ {c} : at[d] = "out" /\ ref[d] = NoSession
      /\ \A s \in Numbers : sessions[s].pending = "none"
  <2>1. CASE LoadRow(c)
    <3>1. ~InFlight /\ \A d \in Conns : at[d] = "out"
      BY <2>1 DEF LoadRow
    <3>2. \A s \in Numbers : sessions[s].pending = "none"
      BY <1>1, <3>1 DEF InFlight, TypeInv, Unmade, Numbers
    <3> QED
      BY <3>1, <3>2 DEF TypeInv, Placed
  <2>2. CASE Deny(c)
    <3>1. Here(c)
      BY <2>2 DEF Deny, Here
    <3> QED
      BY <1>1, <3>1, OneHere, NothingPending
  <2> QED
    BY <2>1, <2>2
<1>3. UNCHANGED <<row, registry, sessions, ref, snap, msg, confirmed>>
  BY DEF LoadRow, Deny
<1>4. \A d \in Conns \ {c} : at'[d] = at[d]
  BY <1>1 DEF LoadRow, Deny, Goto
<1>5. at'[c] = "resolving" => brief'[c].text = row.text /\ brief'[c].version = row.version
  BY <1>1 DEF LoadRow, Deny, Goto
<1>6. Alone' /\ Resting'
  BY <1>2, <1>3, <1>4, <1>5 DEF SoloKept, Alone, Here, Resting, Exactly
<1>7. (\A s \in Numbers : Pausing(s)') /\ (\A d \in Conns : Working(d)')
  BY <1>1, <1>2, <1>3 DEF Pausing, Working
<1> QED
  BY <1>6, <1>7 DEF SoloKept, Numbers

LEMMA SoloOpen ==
    ASSUME Solo, TypeInv, Served, SoloKept, NEW c \in Conns, OpenOrJoin(c)
    PROVE  SoloKept'
<1>1. /\ at \in [Conns -> Places] /\ brief[c] \in Doc /\ ref \in [Conns -> 0..made]
      /\ sessions \in Sessions /\ made \in Nat /\ made <= MaxSessions /\ MaxSessions \in Nat
      /\ registry \in 0..made
  BY TypeParts
<1>2. at[c] = "resolving" /\ ref[c] = NoSession /\ Here(c)
  BY DEF OpenOrJoin, TypeInv, Placed, Here
<1>3. \A d \in Conns : ref[d] = NoSession
  BY <1>2, OneHere
<1>4. UNCHANGED <<row, msg, snap, poisoned, confirmed>>
  BY DEF OpenOrJoin, locks
<1>20. \A r \in Numbers : sessions[r].pending = "none"
  BY <1>2, NothingPending
\* Whoever comes to a session that a task left behind dies in it.
<1>21. CASE registry # NoSession
  <2>1. /\ ref' = [ref EXCEPT ![c] = registry] /\ at' = [at EXCEPT ![c] = "adding"]
        /\ UNCHANGED <<sessions, made, registry>>
    BY <1>21 DEF OpenOrJoin, Goto
  <2>2. /\ ref'[c] = registry /\ at'[c] = "adding"
        /\ \A d \in Conns \ {c} : ref'[d] = NoSession /\ at'[d] = "out"
    BY <1>1, <1>2, <1>3, <2>1, OneHere
  <2>3. registry \in Numbers /\ sessions[registry] \in Session
    BY <1>1, <1>21 DEF Numbers, NoSession, Sessions
  <2>4. Fine("adding", 0, sessions[registry], row.text, confirmed)
    BY <1>3, <1>21 DEF SoloKept, Resting
  <2>5. Same(sessions[registry], sessions[registry])
    BY DEF Same
  <2>6. Fine("adding", msg[c].id, sessions[registry], row.text, confirmed)
    BY <2>3, <2>4, <2>5, MovesOnFine
  <2>7. Alone' /\ Resting'
    <3>1. Exactly(row)'
      BY <1>4 DEF SoloKept, Resting, Exactly
    <3> QED
      BY <1>21, <2>1, <2>2, <3>1 DEF Alone, Here, Resting
  <2>8. \A r \in Numbers : Pausing(r)'
    BY <1>20, <2>1 DEF Pausing
  <2>9. \A d \in Conns : Working(d)'
    BY <1>4, <2>1, <2>2, <2>6 DEF Working, My
  <2> QED
    BY <2>7, <2>8, <2>9 DEF SoloKept, Numbers
<1>22. SUFFICES ASSUME registry = NoSession PROVE SoloKept'
  BY <1>21
<1>5. /\ made < MaxSessions /\ registry' = made + 1 /\ ref' = [ref EXCEPT ![c] = made + 1]
      /\ sessions' = [sessions EXCEPT ![made + 1] = NewSession(brief[c])]
      /\ Goto(c, IF brief[c].blank THEN "initialising" ELSE "adding")
      /\ UNCHANGED <<row, msg, snap, poisoned, confirmed>>
  BY <1>22 DEF OpenOrJoin, locks
<1> DEFINE s == made + 1
           t == NewSession(brief[c])
<1>6. s \in Numbers /\ s # NoSession /\ s \notin poisoned
  BY <1>1, <1>5 DEF Numbers, NoSession, TypeInv, TypeOK
<1>7. /\ t \in Session /\ t.text = brief[c].text /\ t.version = brief[c].version
      /\ t.saved = brief[c].version /\ t.pending = "none"
  BY <1>1, NewSessionFields
<1>8. sessions'[s] = t /\ Others(s)
  BY <1>1, <1>5, <1>6, <1>7, Changed
<1>9. ref'[c] = s /\ \A d \in Conns \ {c} : ref'[d] = NoSession /\ at'[d] = "out"
  BY <1>1, <1>2, <1>3, <1>5, OneHere DEF Goto
<1> HIDE DEF s, t
<1>10. at'[c] \in {"initialising", "adding"}
  BY <1>1, <1>5 DEF Goto
<1>11. /\ brief[c].text = row.text /\ brief[c].version = row.version /\ Exactly(row)
       /\ Covers(row.text, confirmed)
  BY <1>2, <1>3 DEF SoloKept, Resting
<1>12. \A r \in Numbers : sessions'[r].pending = "none"
  BY <1>7, <1>8, <1>20 DEF Others
<1>13. Fine(at'[c], msg[c].id, t, row.text, confirmed)
  <2>1. Covers(t.text, confirmed) /\ Exactly(t) /\ t.text = row.text
    BY <1>7, <1>11 DEF Exactly
  <2>2. t.saved = t.version /\ t.saved <= t.version
    BY <1>1, <1>7, DocFields
  <2>3. Fine(at'[c], msg[c].id, t, t.text, confirmed)
    BY <1>7, <1>10, <2>1, <2>2, StoredIsFine
  <2> QED
    BY <2>1, <2>3
<1>14. Alone' /\ Resting'
  BY <1>5, <1>6, <1>9, <1>10, <1>11 DEF Alone, Here, Resting, Exactly
<1>15. \A r \in Numbers : Pausing(r)'
  BY <1>12 DEF Pausing
<1>16. \A d \in Conns : Working(d)'
  BY <1>5, <1>6, <1>8, <1>9, <1>10, <1>13 DEF Working, My, s
<1> QED
  BY <1>14, <1>15, <1>16 DEF SoloKept, Numbers

LEMMA SoloAdd ==
    ASSUME Solo, TypeInv, SoloKept, NEW c \in Conns, AddParticipant(c)
    PROVE  SoloKept'
<1>1. /\ at[c] = "adding" /\ at' = [at EXCEPT ![c] = "joined"]
      /\ UNCHANGED <<row, ref, registry, brief, locks, confirmed>> /\ ref[c] \notin poisoned
  BY DEF AddParticipant, Goto, Sound
<1>2. Moved(ref[c], My(c).parts \cup {c}) /\ ref[c] # NoSession
  BY <1>1, TypeAdd, Facts
<1> QED
  BY <1>1, <1>2, SoloMoves DEF Moved, My, Active, Entering

\* Nobody else is there: whoever leaves is the last one.
LEMMA SoloLeave ==
    ASSUME Solo, TypeInv, SoloKept, NEW c \in Conns, Leave(c)
    PROVE  SoloKept'
<1>1. /\ at[c] \in {"idle", "closing"} /\ ref[c] \notin poisoned
      /\ UNCHANGED <<row, registry, brief, locks, confirmed>>
  BY DEF Leave, Sound
<1>2. /\ Moved(ref[c], My(c).parts \ {c}) /\ ref[c] # NoSession /\ ref[c] \in Numbers
      /\ My(c) \in Session /\ Here(c)
  BY <1>1, TypeLeave, Facts DEF Here
<1>3. LastOut(c)
  <2>1. ASSUME NEW d \in My(c).parts \ {c} PROVE FALSE
    <3>1. d \in Conns /\ ref[d] = ref[c]
      BY <1>1, <1>2, <2>1, SessionFields DEF TypeInv, Members, My, Numbers
    <3> QED
      BY <1>2, <2>1, <3>1, OneHere
  <2> QED
    BY <2>1 DEF LastOut
<1>4. at' = [at EXCEPT ![c] = "saving"] /\ UNCHANGED ref
  BY <1>3 DEF Leave, Goto
<1> QED
  BY <1>1, <1>2, <1>4, SoloMoves DEF Moved, My, Active, Entering

LEMMA SoloRemove ==
    ASSUME Solo, TypeInv, SoloKept, NEW c \in Conns, RemoveSession(c)
    PROVE  SoloKept'
<1>1. /\ at[c] = "removing" /\ registry' = NoSession
      /\ UNCHANGED <<row, sessions, brief, msg, snap, confirmed>>
      /\ at' = [at EXCEPT ![c] = "out"] /\ ref' = [ref EXCEPT ![c] = NoSession]
  BY DEF RemoveSession, Forget, Goto
<1>2. /\ at \in [Conns -> Places] /\ ref \in [Conns -> 0..made] /\ ref[c] # NoSession /\ Here(c)
  BY <1>1, TypeParts, Facts DEF Here
<1>3. \A d \in Conns : at'[d] = "out" /\ ref'[d] = NoSession
  BY <1>1, <1>2, OneHere
<1>4. row.text = My(c).text /\ Covers(My(c).text, confirmed) /\ Exactly(row)
  BY <1>1, <1>2 DEF SoloKept, Working, Resting, Fine
<1>5. Alone' /\ Resting'
  BY <1>1, <1>3, <1>4 DEF Alone, Here, Resting
<1>6. \A d \in Conns : Working(d)'
  BY <1>3 DEF Working
<1>7. ASSUME NEW s \in Numbers PROVE Pausing(s)'
  BY <1>1, <1>3 DEF SoloKept, Pausing, Here, Numbers
<1> QED
  BY <1>5, <1>6, <1>7 DEF SoloKept, Numbers

LEMMA SoloBackground ==
    ASSUME Solo, TypeInv, SoloKept, NEW s \in 1..made,
           Background_Write(s) \/ Background_Fail(s) \/ Background_Done(s)
    PROVE  SoloKept'
<1> DEFINE n == sessions[s]
           t == sessions'[s]
<1>1. s \in Numbers /\ sessions \in Sessions /\ at \in [Conns -> Places] /\ n \in Session
  BY TypeBackground, TypeParts DEF Sessions
<1>2. UNCHANGED <<registry, at, ref, brief, msg, snap, locks, confirmed>>
  BY DEF Background_Write, Background_Fail, Background_Done
<1>3. n.pending # "none" /\ (Background_Fail(s) => n.pending = "wrote")
  BY DEF Background_Write, Background_Done, Background_Fail
<1>4. /\ \A c \in Conns : Here(c) => ref[c] = s /\ at[c] \notin Active
      /\ \A r \in Numbers : sessions[r].pending # "none" => r = s
      /\ registry \in {NoSession, s}
      /\ Steady(n, row.text, confirmed)
  BY <1>1, <1>3 DEF SoloKept, Pausing
<1>5. /\ row'.text = n.text /\ Exactly(row') /\ t \in Session /\ Others(s)
      /\ t.text = n.text /\ t.version = n.version /\ t.pending \in {"none", "wrote"}
      /\ t.saved \in {n.saved, n.version}
  <2>1. CASE Background_Write(s)
    <3>1. /\ sessions' = [sessions EXCEPT ![s].pending = "wrote", ![s].snap = EmptyDoc]
          /\ row' = n.snap /\ n.pending = "writing" /\ "wrote" \in Background
      BY <2>1 DEF Background_Write, Background
    <3>2. Paused(s, "wrote", EmptyDoc)
      BY <1>1, <3>1, EmptyIsDoc, Pauses
    <3>3. row'.text = n.text /\ Exactly(row')
      BY <1>4, <3>1 DEF Steady, Exactly
    <3> QED
      BY <1>1, <3>2, <3>3 DEF Paused, Same, Sessions
  <2>2. CASE Background_Done(s)
    <3>1. /\ sessions' = [Saved(s) EXCEPT ![s].pending = "none"] /\ "none" \in Background
          /\ row' = row /\ n.pending = "wrote"
      BY <2>2 DEF Background_Done, Background
    <3>2. Stored(s, "none")
      BY <1>1, <3>1, Stores
    <3>3. row'.text = n.text /\ Exactly(row')
      BY <1>4, <3>1 DEF Steady, SoloKept, Resting
    <3> QED
      BY <1>1, <3>2, <3>3 DEF Stored, Sessions
  <2>3. CASE Background_Fail(s)
    <3>1. /\ sessions' = [sessions EXCEPT ![s].pending = "none", ![s].snap = EmptyDoc]
          /\ row' = row /\ n.pending = "wrote" /\ "none" \in Background
      BY <1>3, <2>3 DEF Background_Fail, Background
    <3>2. Paused(s, "none", EmptyDoc)
      BY <1>1, <3>1, EmptyIsDoc, Pauses
    <3>3. row'.text = n.text /\ Exactly(row')
      BY <1>4, <3>1 DEF Steady, SoloKept, Resting
    <3> QED
      BY <1>1, <3>2, <3>3 DEF Paused, Same, Sessions
  <2> QED
    BY <2>1, <2>2, <2>3
<1>6. Covers(n.text, confirmed) /\ Exactly(n)
  BY <1>4 DEF Steady
<1> HIDE DEF n, t
<1>7. Steady(t, row'.text, confirmed)
  BY <1>5, <1>6 DEF Steady, Exactly
<1>8. \A r \in Numbers : sessions'[r].pending # "none" => r = s
  BY <1>4, <1>5 DEF Others
<1>9. ASSUME NEW c \in Conns, Here(c) PROVE SoloKept'
  <2>1. ref[c] = s /\ ref[c] # NoSession /\ at[c] \notin Active /\ at[c] \notin {"out", "resolving"}
    <3>1. ref[c] = s /\ at[c] \notin Active /\ s # NoSession
      BY <1>1, <1>4, <1>9, TypeParts DEF NoSession, Numbers
    <3> QED
      BY <3>1, Facts
  <2>2. at' = [at EXCEPT ![c] = at[c]]
    BY <1>1, <1>2
  <2>3. Working(c)
    BY DEF SoloKept
  <2>4. t.saved <= t.version /\ (at[c] \in Entering => t.saved = t.version)
    <3>1. /\ n.saved <= n.version /\ n.version \in Nat
          /\ at[c] \in Entering => n.saved = n.version
      BY <1>1, <2>1, <2>3, SessionFields DEF Working, Fine, My, n
    <3> QED
      BY <1>5, <3>1
  <2>5. Fine(at[c], msg[c].id, t, row'.text, confirmed)
    <3>1. Covers(t.text, confirmed) /\ Exactly(t)
      BY <1>5, <1>6 DEF Exactly
    <3>2. Fine(at[c], msg[c].id, t, t.text, confirmed)
      BY <1>5, <2>1, <2>4, <3>1, StoredIsFine DEF Active
    <3> QED
      BY <1>5, <3>2
  <2>6. /\ at[c] = "writing" => snap'[c].text = t.text /\ snap'[c].version = t.version
        /\ ref[c] \in poisoned => at[c] = "adding"
    BY <1>2, <1>5, <2>1, <2>3 DEF Working, My, n
  <2> QED
    BY <1>2, <1>5, <1>7, <2>1, <2>2, <2>5, <2>6, SoloStep DEF t
<1>10. CASE \A c \in Conns : ~Here(c)
  <2>1. \A c \in Conns : at[c] = "out" /\ ref[c] = NoSession
    BY <1>10 DEF Here, TypeInv, Placed
  <2>5. ASSUME registry # NoSession
        PROVE  Fine("adding", 0, sessions'[registry], row'.text, confirmed)
    <3>1. registry = s
      BY <1>4, <2>5
    <3>2. Fine("adding", 0, n, row.text, confirmed)
      BY <2>1, <2>5, <3>1 DEF SoloKept, Resting, n
    <3>3. n.saved = n.version
      BY <3>2 DEF Fine, Entering
    <3>4. Covers(t.text, confirmed) /\ Exactly(t) /\ t.saved = t.version /\ t.text = row'.text
      BY <1>5, <1>6, <3>3 DEF Exactly
    <3>5. t \in Session /\ t.version \in Nat /\ t.saved <= t.version
      <4>1. t \in Session /\ t.version \in Nat
        BY <1>5, SessionFields
      <4> QED
        BY <3>4, <4>1
    <3>6. Fine("adding", 0, t, t.text, confirmed)
      BY <3>4, <3>5, StoredIsFine
    <3> QED
      BY <3>1, <3>4, <3>6 DEF t
  <2>2. Alone' /\ Resting'
    BY <1>2, <1>5, <1>6, <2>1, <2>5 DEF Alone, Here, Resting
  <2>3. \A c \in Conns : Working(c)'
    BY <1>2, <2>1 DEF Working
  <2>4. ASSUME NEW r \in Numbers PROVE Pausing(r)'
    BY <1>2, <1>4, <1>7, <1>8, <2>1 DEF Pausing, Here, Numbers, t
  <2> QED
    BY <2>2, <2>3, <2>4 DEF SoloKept, Numbers
<1> QED
  BY <1>9, <1>10

LEMMA SoloFlush ==
    ASSUME Solo, TypeInv, Served, SoloKept, Flush
    PROVE  SoloKept'
<1>1. ASSUME \E c \in Conns : at[c] = "idle" PROVE Covers(row'.text, confirmed') /\ Exactly(row')
  <2>1. PICK c \in Conns : at[c] = "idle"
    BY <1>1
  <2>2. /\ ref[c] # NoSession /\ ref[c] \in Numbers /\ registry = ref[c]
        /\ Fine("idle", msg[c].id, My(c), row.text, confirmed) /\ Exactly(row)
        /\ registry \notin {NoSession} \cup poisoned
    BY <2>1, Facts DEF SoloKept, Working, Resting
  <2>3. row'.text = My(c).text /\ Exactly(row')
    <3>1. CASE SaveNeeded(registry)
      <4>1. row' = Snapshot(ref[c])
        BY <2>2, <3>1 DEF Flush, FlushedRow
      <4> QED
        BY <2>2, <4>1, TypeParts, SnapshotIsDoc DEF Fine, Exactly, My
    <3>2. CASE ~SaveNeeded(registry)
      <4>1. row' = row
        BY <3>2 DEF Flush, FlushedRow
      <4> QED
        BY <2>2, <3>2, <4>1 DEF Fine, SaveNeeded, My
    <3> QED
      BY <3>1, <3>2
  <2> QED
    BY <2>2, <2>3 DEF Fine, Flush
<1>2. ASSUME \A c \in Conns : at[c] # "idle" PROVE Covers(row'.text, confirmed') /\ Exactly(row')
  <2>1. \A c \in Conns : ref[c] = NoSession
    BY <1>2 DEF Flush, TypeInv, Placed
  <2>2. registry \in {NoSession} \cup poisoned
    BY <2>1 DEF Served, RegisteredIsServed
  <2>3. row' = row
    BY <2>2 DEF Flush, FlushedRow
  <2> QED
    BY <2>1, <2>3 DEF SoloKept, Resting, Flush
<1>3. Covers(row'.text, confirmed') /\ Exactly(row')
  BY <1>1, <1>2
<1>5. \A d \in Conns : at'[d] = "out" /\ ref'[d] = NoSession
  BY DEF Flush
<1>9. registry' = NoSession
  BY DEF Flush
<1>6. \A s \in Numbers : sessions'[s].pending = "none"
  <2>1. sessions' = [s \in Numbers |-> NewSession(EmptyDoc)]
    BY TypeFlush
  <2>2. NewSession(EmptyDoc).pending = "none"
    BY EmptyIsDoc, NewSessionFields
  <2> QED
    BY <2>1, <2>2
<1>7. Alone' /\ Resting'
  BY <1>3, <1>5, <1>9 DEF Alone, Here, Resting
<1>8. (\A d \in Conns : Working(d)') /\ (\A s \in Numbers : Pausing(s)')
  BY <1>5, <1>6 DEF Working, Pausing
<1> QED
  BY <1>7, <1>8 DEF SoloKept, Numbers

\* Only a task that enters a session dies with its lock: nothing is lost, and the next one
\* that comes dies in the session, too.
LEMMA SoloPanic ==
    ASSUME Solo, TypeInv, SoloKept, NEW c \in Conns, Panic(c)
    PROVE  SoloKept'
<1>1. /\ poisoned' = poisoned \cup {ref[c]} /\ UNCHANGED <<row, registry, sessions, brief, snap, confirmed>>
      /\ at' = [at EXCEPT ![c] = "out"] /\ ref' = [ref EXCEPT ![c] = NoSession]
      /\ at[c] \notin {"out", "resolving", "writing", "removing"}
      /\ ref[c] \in poisoned \/ at[c] = "joined"
  BY DEF Panic, Forget, Goto, Sound
<1>2. /\ at \in [Conns -> Places] /\ ref \in [Conns -> 0..made] /\ ref[c] # NoSession
      /\ Here(c) /\ ref[c] \in Numbers /\ My(c) \in Session
  BY <1>1, TypeParts, Facts DEF Here
<1>3. \A d \in Conns : at'[d] = "out" /\ ref'[d] = NoSession
  BY <1>1, <1>2, OneHere
<1>4. /\ at[c] \in {"adding", "joined"} /\ registry = ref[c] /\ Exactly(row)
      /\ Fine(at[c], msg[c].id, My(c), row.text, confirmed)
  BY <1>1, <1>2 DEF SoloKept, Working, Resting
<1>5. Fine("adding", 0, sessions[registry], row.text, confirmed)
  <2>1. Same(My(c), My(c))
    BY DEF Same
  <2> QED
    BY <1>2, <1>4, <2>1, MovesOnFine DEF My, Entering
<1>6. Covers(row.text, confirmed)
  <2>1. My(c).saved = My(c).version
    BY <1>4 DEF Fine, Entering
  <2> QED
    BY <1>4, <2>1 DEF Fine
<1>7. Alone' /\ Resting'
  BY <1>1, <1>3, <1>4, <1>5, <1>6 DEF Alone, Here, Resting
<1>8. \A d \in Conns : Working(d)'
  BY <1>3 DEF Working
<1>9. ASSUME NEW s \in Numbers PROVE Pausing(s)'
  BY <1>1, <1>3 DEF SoloKept, Pausing, Here, Numbers
<1> QED
  BY <1>7, <1>8, <1>9 DEF SoloKept, Numbers

LEMMA SoloNext ==
    ASSUME Solo, TypeInv, Served, SoloKept, [Next]_vars
    PROVE  SoloKept'
<1>0. \A s : Same(s, s)
  BY DEF Same
<1>1. ASSUME UNCHANGED <<row, registry, sessions, at, ref, brief, msg, snap, poisoned, confirmed>>
      PROVE  SoloKept'
  BY <1>0, <1>1, SoloRests
<1>2. CASE UNCHANGED vars
  BY <1>1, <1>2 DEF vars
<1>7. CASE RefresherPanics
  BY <1>1, <1>7 DEF RefresherPanics
<1>3. ASSUME NEW c \in Conns,
             \/ LoadRow(c) \/ Handler(c) \/ CheckVersion(c) \/ ReceiveDiff(c)
             \/ Leave(c) \/ Panic(c) \/ ChangeRight(c)
      PROVE  SoloKept'
  <2>1. CASE ChangeRight(c)
    BY <1>1, <2>1 DEF ChangeRight, locks
  <2> QED
    BY <1>3, <2>1, SoloArrive, SoloOpen, SoloAdd, SoloWork, SoloLeave, SoloRemove, SoloPanic
    DEF Handler, WorkStep
<1>4. ASSUME NEW s \in 1..made, Background_Write(s) \/ Background_Fail(s) \/ Background_Done(s)
      PROVE  SoloKept'
  BY <1>4, SoloBackground
<1>5. ASSUME NEW t \in Tasks, Refresh(t) PROVE SoloKept'
  <2>1. CASE StartRefresh(t)
    BY <1>1, <2>1 DEF StartRefresh, locks
  <2>2. CASE ApplyRefresh(t)
    <3>1. UNCHANGED <<row, registry, at, ref, brief, msg, snap, poisoned, confirmed>>
      BY <2>2 DEF ApplyRefresh, locks
    <3>2. \/ \E s \in Numbers : Moved(s, sessions[s].parts \ Expelled(t))
          \/ UNCHANGED sessions
      BY <2>2, TypeApply
    <3>3. \A r \in Numbers : /\ Same(sessions[r], sessions'[r])
                             /\ sessions'[r].pending = sessions[r].pending
                             /\ sessions'[r].snap = sessions[r].snap
      BY <1>0, <3>2 DEF Moved, Others
    <3> QED
      BY <3>1, <3>3, SoloRests
  <2> QED
    BY <1>5, <2>1, <2>2 DEF Refresh
<1>6. CASE Flush
  BY <1>6, SoloFlush
<1> QED
  BY <1>2, <1>3, <1>4, <1>5, <1>6, <1>7 DEF Next

LEMMA SoloInit == ASSUME Init PROVE SoloKept
<1>1. /\ \A c \in Conns : at[c] = "out" /\ ref[c] = NoSession
      /\ confirmed = {}
  BY DEF Init
<1>4. registry = NoSession
  BY DEF Init
<1>2. Exactly(row) /\ Covers(row.text, {})
  BY EmptySeq DEF Init, Exactly, EmptyDoc, Covers
<1>3. \A s \in Numbers : sessions[s].pending = "none"
  <2>1. NewSession(EmptyDoc).pending = "none"
    BY EmptyIsDoc, NewSessionFields
  <2> QED
    BY <2>1 DEF Init, Numbers
<1> QED
  BY <1>1, <1>2, <1>3, <1>4 DEF SoloKept, Alone, Here, Resting, Pausing, Working


\* Whatever of a text is not in the row is a diff behind the row's.
LEMMA MissingAreFew ==
    ASSUME NEW text \in Seq(Nat), NEW short \in Seq(Nat), Begins(short, text),
           NEW ids, Covers(text, ids)
    PROVE  LET S == {i \in ids : \A n \in DOMAIN short : short[n] # i}
           IN  Cardinality(S) \in Nat /\ Cardinality(S) <= Len(text) - Len(short)
<1> DEFINE S == {i \in ids : \A n \in DOMAIN short : short[n] # i}
           T == (Len(short) + 1)..Len(text)
           f == [i \in S |-> CHOOSE n \in 1..Len(text) : text[n] = i]
<1>1. Len(text) \in Nat /\ Len(short) \in Nat /\ Len(short) <= Len(text) /\ DOMAIN short = 1..Len(short)
  BY DEF Begins
<1>2. ASSUME NEW i \in S PROVE f[i] \in T /\ text[f[i]] = i
  <2>1. \E n \in 1..Len(text) : text[n] = i
    BY DEF Covers, Within
  <2>2. f[i] \in 1..Len(text) /\ text[f[i]] = i
    BY <2>1
  <2>3. f[i] \notin 1..Len(short)
    BY <1>1, <2>2 DEF Begins
  <2> HIDE DEF f
  <2> QED
    BY <1>1, <2>2, <2>3
<1>3. f \in [S -> T]
  BY <1>2
<1> HIDE DEF f, S
<1>4. \A i, j \in S : f[i] = f[j] => i = j
  BY <1>2
<1>5. f \in Injection(S, T)
  BY <1>3, <1>4 DEF Injection, IsInjective
<1>6. IsFiniteSet(T) /\ Cardinality(T) = Len(text) - Len(short)
  <2>1. Len(short) + 1 \in Int /\ Len(text) \in Int
    BY <1>1
  <2>2. /\ IsFiniteSet(T)
        /\ Cardinality(T) = IF Len(short) + 1 > Len(text) THEN 0 ELSE Len(text) - (Len(short) + 1) + 1
    BY <2>1, FS_Interval
  <2> QED
    BY <1>1, <2>2
<1> HIDE DEF T
<1>7. IsFiniteSet(S) /\ Cardinality(S) <= Cardinality(T)
  BY <1>5, <1>6, FS_Injection
<1> QED
  BY <1>6, <1>7, FS_CardinalityType DEF S

LEMMA KeptIsDurable ==
    ASSUME Solo, TypeInv, SoloKept
    PROVE  /\ Cardinality(Unstored) <= SaveInterval
           /\ registry = NoSession /\ ~InFlight /\ (\A c \in Conns : at[c] = "out") => Unstored = {}
<1>1. /\ row.text \in Seq(Nat) /\ DOMAIN row.text = 1..Len(row.text) /\ SaveInterval \in Nat \ {0}
      /\ Len(row.text) \in Nat
  BY TypeParts, DocFields, LengthAssumption
<1>2. (\A c \in Conns : ref[c] = NoSession) => Unstored = {}
  BY <1>1 DEF SoloKept, Resting, Covers, Within, Unstored
<1>3. ASSUME NEW c \in Conns, ref[c] # NoSession PROVE Cardinality(Unstored) <= SaveInterval
  <2> DEFINE s == My(c)
             k == Len(row.text)
  <2>1. /\ ref[c] \in Numbers /\ s \in Session /\ s.text \in Seq(Nat) /\ Len(s.text) \in Nat
        /\ s.version \in Nat
    BY <1>3, Facts, SessionFields
  <2>2. Fine(at[c], msg[c].id, s, row.text, confirmed)
    BY <1>3 DEF SoloKept, Working
  <2>3. Cardinality(Unstored) \in Nat /\ Cardinality(Unstored) <= Len(s.text) - k
    <3>1. Begins(row.text, s.text) /\ Covers(s.text, confirmed)
      BY <2>2 DEF Fine
    <3> HIDE DEF s
    <3> QED
      BY <1>1, <2>1, <3>1, MissingAreFew DEF Unstored
  <2>4. CASE at[c] = "applied"
    <3>1. s.pending = "none"
      BY <1>3, <2>4, NonePending DEF Active
    <3> HIDE DEF s
    <3>2. Len(s.text) = s.version + 1 /\ s.version - k <= s.version % SaveInterval
      BY <2>2, <2>4, <3>1 DEF Fine, Lag
    <3>3. s.version % SaveInterval \in 0..(SaveInterval - 1)
      BY <2>1, Modulo
    <3> DEFINE r == s.version % SaveInterval
    <3>4. s.version - k <= r /\ r \in 0..(SaveInterval - 1)
      BY <3>2, <3>3
    <3>5. k \in Nat
      BY <1>1
    <3> HIDE DEF r, k
    <3> QED
      BY <1>1, <2>1, <2>3, <3>2, <3>4, <3>5
  <2>5. CASE at[c] # "applied"
    <3> HIDE DEF s
    <3>1. Lag(at[c], s) \in 0..SaveInterval
      BY <2>1, LagIsNatural
    <3>2. Len(s.text) = s.version /\ s.version - k <= Lag(at[c], s)
      BY <2>2, <2>5 DEF Fine
    <3> QED
      BY <1>1, <2>1, <2>3, <3>1, <3>2
  <2> QED
    BY <2>4, <2>5
<1>4. (\A c \in Conns : at[c] = "out") => \A c \in Conns : ref[c] = NoSession
  BY DEF TypeInv, Placed
<1>5. Unstored = {} => Cardinality(Unstored) <= SaveInterval
  BY <1>1, FS_EmptySet
<1> QED
  BY <1>2, <1>3, <1>4, <1>5

LEMMA SoloInvariant == Spec => [](TypeInv /\ Served /\ (Solo => SoloKept))
<1>1. Init => TypeInv /\ Served /\ (Solo => SoloKept)
  BY TypeInit, SoloInit DEF Init, Served, RegisteredIsServed
<1>2. TypeInv /\ Served /\ (Solo => SoloKept) /\ [Next]_vars => (TypeInv /\ Served /\ (Solo => SoloKept))'
  <2> SUFFICES ASSUME TypeInv, Served, Solo => SoloKept, [Next]_vars
               PROVE  TypeInv' /\ Served' /\ (Solo' => SoloKept')
    OBVIOUS
  <2>1. UNCHANGED scenario
    BY ZenonT(40) DEF Next, vars, Handler, Refresh, LoadRow, Deny, OpenOrJoin, Initialise, AddParticipant,
           CopyContext, CheckVersion, ReceiveDiff, FixBehind, ApplySteps, PushDiff, LookIfDue,
           SaveDue, StartSave, WriteRow, FailWrite, MarkSaved, Background_Write, Background_Fail,
           Background_Done, Leave, RemoveSession, Panic, ChangeRight, StartRefresh, ApplyRefresh,
           RefresherPanics, Flush
  <2>2. Solo' => Solo
    BY <2>1 DEF Solo
  <2> QED
    BY <2>2, TypeNext, ServedNext, SoloNext
<1> QED
  BY <1>1, <1>2, PTL DEF Spec

\* The row never names a version that its text has not reached, with any number of authors,
\* saves and failures, and with one author at a time it is exactly that version (save,
\* spawn_save, handle_diff's separate scopes of the lock).
THEOREM RowReachesVersionCorrect == Spec => []RowReachesVersion
<1>1. Init => TypeInv /\ TextsReach
  BY TypeInit, ReachInit
<1>2. TypeInv /\ TextsReach /\ [Next]_vars => TypeInv' /\ TextsReach'
  BY TypeNext, ReachNext
<1>3. TypeInv /\ TextsReach /\ (Solo => SoloKept) => RowReachesVersion
  BY DEF TextsReach, Reaches, SoloKept, Resting, Exactly, RowReachesVersion
<1> QED
  BY <1>1, <1>2, <1>3, SoloInvariant, PTL DEF Spec

\* One author at a time, who pauses while a save is under way and whose saves do not fail:
\* at most DOC_SAVE_INTERVAL confirmed diffs are not in the row, and none once everybody is
\* gone, by cleanup, by a withdrawn right or because the server was stopped.
THEOREM DurableCorrect == Spec => []Durable
<1>1. TypeInv /\ (Solo => SoloKept) => Durable
  BY KeptIsDurable DEF Durable
<1> QED
  BY <1>1, SoloInvariant, PTL
=============================================================================
