-------------------------- MODULE Presence_proofs ---------------------------
(***************************************************************************)
(* Theorems about what those who are present have of each other: that      *)
(* presence rows follow the connections, for any servers and clients and   *)
(* any number of connections, messages, stops and crashes; that messages   *)
(* reach all they have to; that everybody present has the current list of  *)
(* participants when no list is under way and the last that was sent was   *)
(* not an older one, for any number of connections and of lists; that the  *)
(* readers' comments follow the session's, for any number of readers,      *)
(* comments and diffs and however many diffs are kept; and that the        *)
(* numbering of messages skips nothing and handles nothing too early, for  *)
(* any size of the ring and any number of messages, repeats and losses.    *)
(***************************************************************************)
EXTENDS MessageProtocol, Comments, SystemMessages, Participants, SequenceTheorems, TLAPS

-----------------------------------------------------------------------------
(* Presence rows.                                                          *)

Entries == Clients \cup Requests
Holds(list, x) == \E k \in 1..Len(list) : list[k] = x

PresenceRows == [who : Browsers, no : Nat, age : {"fresh", "stale"}]
Sockets == [Clients -> [at : {"out", "opening", "in", "leaving"}, no : Nat]]
Loop == [at : {"idle", "open", "told", "fan"}, next : Nat \ {0}]
Loops == [Requests \X Servers -> Loop]

\* Domains, as far as the proof needs them.
SystemDomains ==
    /\ clients \in [Servers -> Seq(Entries)]
    /\ socket \in Sockets
    /\ \A c \in Clients : socket[c].at = "opening" => c \in Browsers
    /\ rows \subseteq PresenceRows
    /\ fan \in Loops
    /\ \A q \in Requests, s \in Servers : fan[<<q, s>>].at # "idle" => Holds(clients[s], q)

\* A server's list has its own clients in it, all that are connected.
ListsHold ==
    /\ \A s \in Servers, c \in Clients : Holds(clients[s], c) => Home[c] = s
    /\ \A c \in Clients : socket[c].at # "out" => Holds(clients[Home[c]], c)

\* Connections have numbers of their own: an abandoned one is over.
Abandoned(c, n) == <<c, n>> \in abandoned
RowsNumbered ==
    /\ \A r \in rows : r.no <= socket[r.who].no
    /\ \A c \in Clients, n \in Nat : Abandoned(c, n) =>
            n < socket[c].no \/ (n = socket[c].no /\ socket[c].at = "out")

PresenceInv == SystemDomains /\ ListsHold /\ RowsNumbered /\ PresenceFollows

\* An entry more at the end of a list.
LEMMA Appended ==
    ASSUME NEW list \in Seq(Entries), NEW x \in Entries
    PROVE  /\ Append(list, x) \in Seq(Entries)
           /\ \A y : Holds(Append(list, x), y) <=> Holds(list, y) \/ y = x
<1>1. /\ Append(list, x) \in Seq(Entries) /\ Len(Append(list, x)) = Len(list) + 1
      /\ \A j \in 1..Len(list) : Append(list, x)[j] = list[j]
      /\ Append(list, x)[Len(list) + 1] = x
    BY AppendProperties
<1>2. Len(list) \in Nat
    BY LenProperties
<1> QED
    BY <1>1, <1>2 DEF Holds

\* The places in a list with one entry less.
LEMMA CutPlaces ==
    ASSUME NEW list \in Seq(Entries), NEW k \in 1..Len(list)
    PROVE  /\ TakeOut(list, k) \in Seq(Entries) /\ Len(TakeOut(list, k)) = Len(list) - 1
           /\ \A j \in 1..(k - 1) : TakeOut(list, k)[j] = list[j]
           /\ \A j \in k..(Len(list) - 1) : TakeOut(list, k)[j] = list[j + 1]
<1> DEFINE cut == TakeOut(list, k)
<1> DEFINE left == SubSeq(list, 1, k - 1)
           right == SubSeq(list, k + 1, Len(list))
<1>1. Len(list) \in Nat /\ \A j \in 1..Len(list) : list[j] \in Entries
    BY ElementOfSeq, LenProperties
<1>2. /\ left \in Seq(Entries) /\ Len(left) = k - 1
      /\ \A j \in 1..(k - 1) : left[j] = list[j]
  <2>1. \A j \in 1..(k - 1) : list[j] \in Entries
      BY <1>1
  <2> HIDE DEF left
  <2>2. /\ left \in Seq(Entries) /\ Len(left) = IF 1 <= k - 1 THEN k - 1 - 1 + 1 ELSE 0
        /\ \A j \in 1..(k - 1 - 1 + 1) : left[j] = list[1 + j - 1]
      BY <1>1, <2>1, SubSeqProperties DEF left
  <2> QED
      BY <1>1, <2>2
<1>3. /\ right \in Seq(Entries) /\ Len(right) = Len(list) - k
      /\ \A j \in 1..(Len(list) - k) : right[j] = list[k + j]
  <2>1. \A j \in (k + 1)..Len(list) : list[j] \in Entries
      BY <1>1
  <2> HIDE DEF right
  <2>2. /\ right \in Seq(Entries)
        /\ Len(right) = IF k + 1 <= Len(list) THEN Len(list) - (k + 1) + 1 ELSE 0
        /\ \A j \in 1..(Len(list) - (k + 1) + 1) : right[j] = list[(k + 1) + j - 1]
      BY <1>1, <2>1, SubSeqProperties DEF right
  <2> QED
      BY <1>1, <2>2
<1> HIDE DEF left, right
<1>4. cut = left \o right
    BY DEF TakeOut, left, right
<1> HIDE DEF cut
<1>5. /\ cut \in Seq(Entries) /\ Len(cut) = Len(left) + Len(right)
      /\ \A i \in 1..(Len(left) + Len(right)) : cut[i] =
              IF i <= Len(left) THEN left[i] ELSE right[i - Len(left)]
    BY <1>2, <1>3, <1>4, ConcatProperties
<1>6. Len(cut) = Len(list) - 1
    BY <1>1, <1>2, <1>3, <1>5
<1>7. ASSUME NEW j \in 1..(k - 1) PROVE cut[j] = list[j]
  <2>1. j \in 1..(Len(left) + Len(right)) /\ j <= Len(left)
      BY <1>1, <1>2, <1>3
  <2> QED
      BY <1>2, <1>5, <2>1
<1>8. ASSUME NEW j \in k..(Len(list) - 1) PROVE cut[j] = list[j + 1]
  <2>1. j \in 1..(Len(left) + Len(right)) /\ ~(j <= Len(left)) /\ j - Len(left) = j - k + 1
      BY <1>1, <1>2, <1>3
  <2>2. cut[j] = right[j - k + 1]
      BY <1>5, <2>1
  <2>3. j - k + 1 \in 1..(Len(list) - k) /\ k + (j - k + 1) = j + 1
      BY <1>1
  <2> QED
      BY <1>3, <2>2, <2>3
<1> QED
    BY <1>5, <1>6, <1>7, <1>8 DEF cut

\* One entry of a list less.
LEMMA CutOut ==
    ASSUME NEW list \in Seq(Entries), NEW k \in 1..Len(list)
    PROVE  /\ TakeOut(list, k) \in Seq(Entries)
           /\ \A y : Holds(TakeOut(list, k), y) => Holds(list, y)
           /\ \A y : Holds(list, y) /\ y # list[k] => Holds(TakeOut(list, k), y)
<1> DEFINE cut == TakeOut(list, k)
<1>1. /\ cut \in Seq(Entries) /\ Len(cut) = Len(list) - 1
      /\ \A j \in 1..(k - 1) : cut[j] = list[j]
      /\ \A j \in k..(Len(list) - 1) : cut[j] = list[j + 1]
    BY CutPlaces
<1> HIDE DEF cut
<1>0. Len(list) \in Nat
    BY LenProperties
<1>2. ASSUME NEW y, Holds(cut, y) PROVE Holds(list, y)
  <2>1. PICK j \in 1..Len(cut) : cut[j] = y
      BY <1>2 DEF Holds
  <2>2. j \in 1..(k - 1) \/ j \in k..(Len(list) - 1)
      BY <1>0, <1>1
  <2>3. list[j] = y \/ list[j + 1] = y
      BY <1>1, <2>1, <2>2
  <2>4. j \in 1..Len(list) /\ j + 1 \in 1..Len(list)
      BY <1>0, <1>1, <2>2
  <2> QED
      BY <2>3, <2>4 DEF Holds
<1>3. ASSUME NEW y, Holds(list, y), y # list[k] PROVE Holds(cut, y)
  <2>1. PICK j \in 1..Len(list) : list[j] = y
      BY <1>3 DEF Holds
  <2>2. CASE j < k
    <3>1. j \in 1..(k - 1) /\ j \in 1..Len(cut)
        BY <1>0, <1>1, <2>2
    <3>2. cut[j] = y
        BY <1>1, <2>1, <3>1
    <3> QED
        BY <3>1, <3>2 DEF Holds
  <2>3. CASE j > k
    <3>1. j - 1 \in k..(Len(list) - 1) /\ j - 1 \in 1..Len(cut)
        BY <1>0, <1>1, <2>3
    <3>2. (j - 1) + 1 = j
        BY <2>1
    <3>3. cut[j - 1] = y
        BY <1>1, <2>1, <3>1, <3>2
    <3> QED
        BY <3>1, <3>3 DEF Holds
  <2> QED
      BY <1>3, <2>1, <2>2, <2>3
<1> QED
    BY <1>1, <1>2, <1>3 DEF cut

\* At the start there is nobody.
LEMMA PresenceInitInv == SystemInit => PresenceInv
<1> SUFFICES ASSUME SystemInit PROVE PresenceInv
    OBVIOUS
<1> USE DEF SystemInit
<1>1. SystemDomains
    BY DEF SystemDomains, Idle, PresenceRows, Sockets, Loops, Loop
<1>2. ListsHold
    BY DEF ListsHold, Holds
<1>3. RowsNumbered
    BY DEF RowsNumbered, Abandoned
<1>4. PresenceFollows
    BY DEF PresenceFollows, Clients
<1> QED
    BY <1>1, <1>2, <1>3, <1>4 DEF PresenceInv

\* A step of one connection that is there already: what may become of its row.
OneRow(c) ==
    /\ \A r \in rows' : r.who = c => (r \in rows /\ r.no # socket[c].no)
                                   \/ (r.no = socket[c].no /\ socket'[c].at = "in")
    /\ \A r, q \in rows' : r.who = c /\ q.who = c /\ r.no = q.no => r = q
    /\ socket'[c].at = "in" /\ c \in Browsers =>
            \E r \in rows' : r.who = c /\ r.no = socket[c].no

\* The others' rows and sockets stay as they are.
OthersKept(c) ==
    /\ \A d \in Clients \ {c} : socket'[d] = socket[d] /\ (d \in pruned => d \in pruned')
    /\ \A r \in rows \cup rows' : r.who # c => (r \in rows <=> r \in rows')
    /\ rows' \subseteq PresenceRows /\ socket' \in Sockets
    /\ socket'[c].no = socket[c].no /\ socket[c].at # "out"
    /\ abandoned' = abandoned

LEMMA OneClient ==
    ASSUME PresenceInv, NEW c \in Clients, OneRow(c), OthersKept(c)
    PROVE  RowsNumbered' /\ PresenceFollows'
<1> USE DEF OneRow, OthersKept, PresenceRows, Sockets
<1> USE DEF PresenceInv
<1>1. RowsNumbered'
  <2>1. ASSUME NEW r \in rows' PROVE r.no <= socket'[r.who].no
    <3>1. r.who \in Clients /\ r.no \in Nat /\ socket[c].no \in Nat /\ socket'[c].no \in Nat
        BY DEF SystemDomains, Clients
    <3>2. CASE r.who = c
      <4>1. r.no <= socket[c].no
          BY <3>1, <3>2 DEF RowsNumbered
      <4> QED
          BY <3>1, <3>2, <4>1
    <3>3. CASE r.who # c
        BY <3>1, <3>3 DEF RowsNumbered
    <3> QED
        BY <3>2, <3>3
  <2>2. ASSUME NEW d \in Clients, NEW n \in Nat, <<d, n>> \in abandoned
        PROVE  n < socket'[d].no \/ (n = socket'[d].no /\ socket'[d].at = "out")
    <3>1. n < socket[d].no \/ (n = socket[d].no /\ socket[d].at = "out")
        BY <2>2 DEF RowsNumbered, Abandoned
    <3>2. socket[d].no \in Nat /\ socket'[d].no \in Nat
        BY DEF SystemDomains
    <3>3. CASE d = c
        BY <3>1, <3>2, <3>3
    <3>4. CASE d # c
        BY <3>1, <3>4
    <3> QED
        BY <3>3, <3>4
  <2> QED
      BY <2>1, <2>2 DEF RowsNumbered, Abandoned
<1>2. ASSUME NEW r \in rows', NEW q \in rows', r.who = q.who, r.no = q.no PROVE r = q
    BY <1>2 DEF PresenceFollows
<1>3. ASSUME NEW r \in rows', <<r.who, r.no>> \notin abandoned
      PROVE  socket'[r.who].at = "in" /\ socket'[r.who].no = r.no
  <2>1. r.who \in Clients
      BY DEF Clients
  <2>2. r \in rows => socket[r.who].at = "in" /\ socket[r.who].no = r.no
      BY <1>3 DEF PresenceFollows
  <2>3. CASE r.who = c
      BY <2>2, <2>3
  <2>4. CASE r.who # c
      BY <2>1, <2>2, <2>4
  <2> QED
      BY <2>3, <2>4
<1>4. ASSUME NEW b \in Browsers, socket'[b].at = "in", b \notin pruned'
      PROVE  Ours(b)' # {}
  <2>1. CASE b = c
      BY <1>4, <2>1 DEF Ours
  <2>2. CASE b # c
    <3>1. socket'[b] = socket[b] /\ b \notin pruned
        BY <1>4, <2>2 DEF Clients
    <3>2. PICK r \in rows : r.who = b /\ r.no = socket[b].no
        BY <1>4, <3>1 DEF PresenceFollows, Ours
    <3> QED
        BY <2>2, <3>1, <3>2 DEF Ours
  <2> QED
      BY <2>1, <2>2
<1> QED
    BY <1>1, <1>2, <1>3, <1>4 DEF PresenceFollows

\* What looks at neither connections nor rows.
LEMMA Elsewhere ==
    ASSUME PresenceInv, UNCHANGED <<socket, rows, pruned, abandoned>>
    PROVE  RowsNumbered' /\ PresenceFollows'
BY DEF PresenceInv, RowsNumbered, Abandoned, PresenceFollows, Ours

\* A list gets an entry, or loses one that is not connected.
LEMMA ListChanged ==
    ASSUME PresenceInv, NEW s \in Servers, NEW list \in Seq(Entries),
           clients' = [clients EXCEPT ![s] = list],
           socket' \in Sockets,
           \A c \in Clients : Holds(list, c) => Home[c] = s,
           \A c \in Clients : socket'[c].at # "out" =>
               IF Home[c] = s THEN Holds(list, c) ELSE socket[c].at # "out"
    PROVE  ListsHold' /\ clients' \in [Servers -> Seq(Entries)]
<1>1. /\ clients' \in [Servers -> Seq(Entries)] /\ clients'[s] = list
      /\ \A t \in Servers \ {s} : clients'[t] = clients[t]
    BY DEF PresenceInv, SystemDomains
<1>2. ASSUME NEW t \in Servers, NEW c \in Clients, Holds(clients'[t], c) PROVE Home[c] = t
    BY <1>1, <1>2 DEF PresenceInv, ListsHold
<1>3. ASSUME NEW c \in Clients, socket'[c].at # "out" PROVE Holds(clients'[Home[c]], c)
    BY <1>1, <1>3, HomeAssumption DEF PresenceInv, ListsHold
<1> QED
    BY <1>1, <1>2, <1>3 DEF ListsHold

\* connect.
LEMMA ConnectInv == ASSUME PresenceInv, NEW c \in Clients, Connect(c) PROVE PresenceInv'
<1> USE DEF Connect, history
<1> DEFINE s == Home[c]
<1>1. s \in Servers /\ clients[s] \in Seq(Entries) /\ c \in Entries
    BY HomeAssumption DEF PresenceInv, SystemDomains, Entries
<1>2. /\ socket'[c].no = socket[c].no + 1 /\ socket[c].no \in Nat
      /\ socket'[c].at \in {"opening", "in"} /\ (c \in Browsers => socket'[c].at = "opening")
      /\ \A d \in Clients \ {c} : socket'[d] = socket[d]
      /\ socket' \in Sockets
    BY DEF PresenceInv, SystemDomains, Sockets
<1> DEFINE list == Append(clients[s], c)
<1>3. list \in Seq(Entries) /\ \A y : Holds(list, y) <=> Holds(clients[s], y) \/ y = c
    BY <1>1, Appended
<1>4. clients' = [clients EXCEPT ![s] = list]
    OBVIOUS
<1> HIDE DEF list
<1>5. ListsHold' /\ clients' \in [Servers -> Seq(Entries)]
  <2>1. \A d \in Clients : Holds(list, d) => Home[d] = s
      BY <1>1, <1>3 DEF PresenceInv, ListsHold
  <2>2. ASSUME NEW d \in Clients, socket'[d].at # "out"
        PROVE  IF Home[d] = s THEN Holds(list, d) ELSE socket[d].at # "out"
      BY <1>2, <1>3, <2>2 DEF PresenceInv, ListsHold
  <2> QED
      BY <1>1, <1>2, <1>3, <1>4, <2>1, <2>2, ListChanged, ZenonT(40)
<1>6. SystemDomains'
  <2>1. ASSUME NEW q \in Requests, NEW t \in Servers, fan'[<<q, t>>].at # "idle"
        PROVE  Holds(clients'[t], q)
      BY <1>1, <1>3, <1>4, <2>1 DEF PresenceInv, SystemDomains
  <2> QED
      BY <1>2, <1>5, <2>1 DEF PresenceInv, SystemDomains
<1>7. \A r \in rows : r.who = c => r.no # socket[c].no + 1
    BY <1>2 DEF PresenceInv, RowsNumbered, SystemDomains
<1>8. \A r \in rows : r.who = c => <<r.who, r.no>> \in abandoned
    BY DEF PresenceInv, PresenceFollows
<1>9. RowsNumbered'
  <2>1. ASSUME NEW r \in rows' PROVE r.no <= socket'[r.who].no
    <3>1. r.no <= socket[r.who].no /\ r.no \in Nat /\ r.who \in Clients
        BY DEF PresenceInv, RowsNumbered, SystemDomains, Clients, PresenceRows
    <3> QED
        BY <1>2, <3>1
  <2>2. ASSUME NEW d \in Clients, NEW n \in Nat, <<d, n>> \in abandoned
        PROVE  n < socket'[d].no \/ (n = socket'[d].no /\ socket'[d].at = "out")
    <3>1. n < socket[d].no \/ (n = socket[d].no /\ socket[d].at = "out")
        BY <2>2 DEF PresenceInv, RowsNumbered, Abandoned
    <3> QED
        BY <1>2, <3>1
  <2> QED
      BY <2>1, <2>2 DEF RowsNumbered, Abandoned
<1>10. PresenceFollows'
  <2>1. ASSUME NEW r \in rows', <<r.who, r.no>> \notin abandoned
        PROVE  socket'[r.who].at = "in" /\ socket'[r.who].no = r.no
      BY <1>2, <1>8, <2>1 DEF PresenceInv, PresenceFollows, SystemDomains, Clients
  <2>2. ASSUME NEW b \in Browsers, socket'[b].at = "in", b \notin pruned'
        PROVE  Ours(b)' # {}
      BY <1>2, <2>2 DEF PresenceInv, PresenceFollows, Ours, Clients
  <2> QED
      BY <2>1, <2>2 DEF PresenceInv, PresenceFollows
<1> QED
    BY <1>5, <1>6, <1>9, <1>10 DEF PresenceInv

\* The row of a connection that is being opened or is over is only found abandoned.
LEMMA RowsOf ==
    ASSUME PresenceInv, NEW r \in rows
    PROVE  /\ r.who \in Clients /\ r.no \in Nat
           /\ socket[r.who].at # "in" => r.no < socket[r.who].no \/ socket[r.who].at = "out"
BY DEF PresenceInv, PresenceFollows, RowsNumbered, Abandoned, SystemDomains, Clients, PresenceRows, Sockets

\* What a step that leaves the lists alone keeps of the invariant.
LEMMA ListsKept ==
    ASSUME PresenceInv, UNCHANGED <<clients, fan>>,
           rows' \subseteq PresenceRows,
           socket' \in Sockets,
           \A c \in Clients : socket'[c].at # "out" => socket[c].at # "out",
           \A c \in Clients : socket'[c].at = "opening" => c \in Browsers
    PROVE  SystemDomains' /\ ListsHold'
BY DEF PresenceInv, SystemDomains, ListsHold

\* The row of a new connection is created.
LEMMA CreatedInv == ASSUME PresenceInv, NEW c \in Clients, Created(c) PROVE PresenceInv'
<1> DEFINE row == [who |-> c, no |-> socket[c].no, age |-> "fresh"]
<1>1. c \in Browsers /\ socket[c].no \in Nat /\ socket[c].at = "opening"
    BY DEF PresenceInv, SystemDomains, Sockets, Created
<1>2. rows' = rows \cup {row} /\ row \in PresenceRows /\ row.who = c /\ row.no = socket[c].no
    BY <1>1 DEF Presence, Created, PresenceRows
<1> HIDE DEF row
<1>3. /\ socket'[c] = [at |-> "in", no |-> socket[c].no]
      /\ \A d \in Clients \ {c} : socket'[d] = socket[d]
      /\ socket' \in Sockets /\ rows' \subseteq PresenceRows
    BY <1>2 DEF PresenceInv, SystemDomains, Sockets, Created, Moves
<1>4. \A r \in rows : r.who = c => r.no < socket[c].no
    BY <1>1, RowsOf
<1>5. OneRow(c)
  <2>1. \A r \in rows' : r.who = c => (r \in rows /\ r.no # socket[c].no) \/ r = row
      BY <1>1, <1>2, <1>4 DEF PresenceInv, SystemDomains, PresenceRows
  <2>2. \A r, q \in rows' : r.who = c /\ q.who = c /\ r.no = q.no => r = q
      BY <1>2, <2>1 DEF PresenceInv, PresenceFollows
  <2> QED
      BY <1>2, <1>3, <2>1, <2>2 DEF OneRow
<1>6. OthersKept(c)
    BY <1>1, <1>2, <1>3 DEF OthersKept, Created, history
<1>7. SystemDomains' /\ ListsHold'
    BY <1>1, <1>3, ListsKept DEF PresenceInv, SystemDomains, Created
<1> QED
    BY <1>5, <1>6, <1>7, OneClient DEF PresenceInv

\* A pong saves the row again.
LEMMA PongInv == ASSUME PresenceInv, NEW c \in Clients, Pong(c) PROVE PresenceInv'
<1> DEFINE row == [who |-> c, no |-> socket[c].no, age |-> "fresh"]
<1>1. c \in Browsers /\ socket[c].no \in Nat /\ socket[c].at = "in" /\ socket' = socket
    BY DEF PresenceInv, SystemDomains, Sockets, Pong
<1>2. /\ rows' = (rows \ Ours(c)) \cup {row}
      /\ row \in PresenceRows /\ row.who = c /\ row.no = socket[c].no
    BY <1>1 DEF Presence, Pong, PresenceRows
<1> HIDE DEF row
<1>3. OneRow(c)
  <2>1. \A r \in rows' : r.who = c => (r \in rows /\ r.no # socket[c].no) \/ r = row
      BY <1>2 DEF Ours
  <2>2. \A r, q \in rows' : r.who = c /\ q.who = c /\ r.no = q.no => r = q
      BY <1>2, <2>1 DEF PresenceInv, PresenceFollows
  <2> QED
      BY <1>1, <1>2, <2>1, <2>2 DEF OneRow
<1>4. rows' \subseteq PresenceRows /\ socket' \in Sockets
    BY <1>1, <1>2 DEF PresenceInv, SystemDomains
<1>5. OthersKept(c)
    BY <1>1, <1>2, <1>4 DEF OthersKept, Ours, Pong
<1>6. SystemDomains' /\ ListsHold'
    BY <1>1, <1>4, ListsKept DEF PresenceInv, SystemDomains, Pong
<1> QED
    BY <1>3, <1>5, <1>6, OneClient DEF PresenceInv

\* disconnect deletes the row.
LEMMA LeaveInv == ASSUME PresenceInv, NEW c \in Clients, Leave(c) PROVE PresenceInv'
<1>1. socket[c].at = "in" /\ socket[c].no \in Nat
    BY DEF PresenceInv, SystemDomains, Sockets, Leave
<1>2. /\ socket'[c].at = "leaving" /\ socket'[c].no = socket[c].no
      /\ \A d \in Clients \ {c} : socket'[d] = socket[d]
      /\ socket' \in Sockets
    BY DEF PresenceInv, SystemDomains, Sockets, Leave, Moves
<1>3. /\ rows' \subseteq rows /\ rows \subseteq PresenceRows
      /\ \A r \in rows' : r.who = c => r.no # socket[c].no
      /\ \A r \in rows : r.who # c => r \in rows'
    BY DEF Ours, Leave, WithoutRow, PresenceInv, SystemDomains
<1>4. OneRow(c)
    BY <1>2, <1>3 DEF OneRow, PresenceInv, PresenceFollows
<1>5. OthersKept(c)
    BY <1>1, <1>2, <1>3 DEF OthersKept, Leave
<1>6. SystemDomains' /\ ListsHold'
    BY <1>1, <1>2, <1>3, ListsKept DEF PresenceInv, SystemDomains, Leave
<1> QED
    BY <1>4, <1>5, <1>6, OneClient DEF PresenceInv

\* Where an entry is that is there.
LEMMA PositionFound ==
    ASSUME PresenceInv, NEW s \in Servers, NEW c, Holds(clients[s], c)
    PROVE  Position(s, c) \in 1..Len(clients[s]) /\ clients[s][Position(s, c)] = c
<1>1. PICK k \in 1..Len(clients[s]) : clients[s][k] = c
    BY DEF Holds
<1> QED
    BY <1>1 DEF Position

\* A loop that is under way keeps its relay connection in the list.
LEMMA RelaysKept ==
    ASSUME PresenceInv, NEW s \in Servers, NEW list \in Seq(Entries),
           clients' = [clients EXCEPT ![s] = list],
           \A q \in Requests, t \in Servers \ {s} : fan'[<<q, t>>].at # "idle" => fan[<<q, t>>].at # "idle",
           \A q \in Requests : fan'[<<q, s>>].at # "idle" => Holds(list, q)
    PROVE  \A q \in Requests, t \in Servers : fan'[<<q, t>>].at # "idle" => Holds(clients'[t], q)
<1>1. clients'[s] = list /\ \A t \in Servers \ {s} : clients'[t] = clients[t]
    BY DEF PresenceInv, SystemDomains
<1>2. \A q \in Requests, t \in Servers : fan[<<q, t>>].at # "idle" => Holds(clients[t], q)
    BY DEF PresenceInv, SystemDomains
<1> QED
    BY <1>1, <1>2

\* disconnect takes the consumer off the list.
LEMMA RemoveInv == ASSUME PresenceInv, NEW c \in Clients, Remove(c) PROVE PresenceInv'
<1> DEFINE s == Home[c]
           k == Position(s, c)
           list == TakeOut(clients[s], k)
<1>1. s \in Servers /\ clients[s] \in Seq(Entries) /\ socket[c].at = "leaving"
    BY HomeAssumption DEF PresenceInv, SystemDomains, Remove
<1>2. k \in 1..Len(clients[s]) /\ clients[s][k] = c
  <2>1. Holds(clients[s], c)
      BY <1>1 DEF PresenceInv, ListsHold
  <2> QED
      BY <1>1, <2>1, PositionFound
<1>3. /\ list \in Seq(Entries)
      /\ \A y : Holds(list, y) => Holds(clients[s], y)
      /\ \A y : Holds(clients[s], y) /\ y # c => Holds(list, y)
  <2> HIDE DEF s, k
  <2> QED
      BY <1>1, <1>2, CutOut
<1>4. clients' = [clients EXCEPT ![s] = list]
    BY DEF Remove, LeavesList
<1>5. /\ socket'[c].at = "out" /\ socket'[c].no = socket[c].no
      /\ \A d \in Clients \ {c} : socket'[d] = socket[d]
      /\ socket' \in Sockets
    BY DEF PresenceInv, SystemDomains, Sockets, Remove, Moves
<1> HIDE DEF list, k
<1>6. ListsHold' /\ clients' \in [Servers -> Seq(Entries)]
  <2>1. \A d \in Clients : Holds(list, d) => Home[d] = s
      BY <1>1, <1>3 DEF PresenceInv, ListsHold
  <2>2. ASSUME NEW d \in Clients, socket'[d].at # "out"
        PROVE  IF Home[d] = s THEN Holds(list, d) ELSE socket[d].at # "out"
      BY <1>3, <1>5, <2>2 DEF PresenceInv, ListsHold
  <2> QED
      BY <1>1, <1>3, <1>4, <1>5, <2>1, <2>2, ListChanged
<1>7. fan' = fan /\ rows' = rows /\ pruned' = pruned /\ abandoned' = abandoned
    BY DEF Remove
<1>8. SystemDomains'
  <2>1. c \notin Requests
      BY HomeAssumption
  <2>2. \A q \in Requests : fan[<<q, s>>].at # "idle" => Holds(list, q)
      BY <1>1, <1>3, <2>1 DEF PresenceInv, SystemDomains
  <2>3. \A q \in Requests, t \in Servers : fan'[<<q, t>>].at # "idle" => Holds(clients'[t], q)
      BY <1>1, <1>3, <1>4, <1>7, <2>2, RelaysKept
  <2> QED
      BY <1>5, <1>6, <1>7, <2>3 DEF PresenceInv, SystemDomains
<1>9. OneRow(c)
  <2>1. \A r \in rows : r.who = c => r.no < socket[c].no /\ r.no \in Nat
      BY <1>1, RowsOf
  <2>2. socket[c].no \in Nat
      BY DEF PresenceInv, SystemDomains, Sockets
  <2> QED
      BY <1>5, <1>7, <2>1, <2>2 DEF OneRow, PresenceInv, PresenceFollows
<1>10. OthersKept(c)
    BY <1>1, <1>5, <1>7 DEF OthersKept, PresenceInv, SystemDomains
<1> QED
    BY <1>6, <1>8, <1>9, <1>10, OneClient DEF PresenceInv

\* A row grows old.
LEMMA AgeInv == ASSUME PresenceInv, NEW r \in rows, Age(r) PROVE PresenceInv'
<1> DEFINE old == [r EXCEPT !.age = "stale"]
<1>1. old \in PresenceRows /\ old.who = r.who /\ old.no = r.no
    BY DEF PresenceInv, SystemDomains, PresenceRows
<1>2. rows' = (rows \ {r}) \cup {old} /\ UNCHANGED <<clients, fan, socket, pruned, abandoned>>
    BY DEF Age, history
<1> HIDE DEF old
<1>3. SystemDomains' /\ ListsHold'
    BY <1>1, <1>2, ListsKept DEF PresenceInv, SystemDomains
<1>4. \A q \in rows' : \E p \in rows : p.who = q.who /\ p.no = q.no /\ (q = old => p = r)
                                      /\ (q # old => p = q /\ p # r)
    BY <1>1, <1>2
<1>5. RowsNumbered'
    BY <1>2, <1>4 DEF PresenceInv, RowsNumbered, Abandoned
<1>6. PresenceFollows'
  <2>1. ASSUME NEW p \in rows', NEW q \in rows', p.who = q.who, p.no = q.no PROVE p = q
      BY <1>4, <2>1 DEF PresenceInv, PresenceFollows
  <2>2. ASSUME NEW q \in rows', <<q.who, q.no>> \notin abandoned
        PROVE  socket[q.who].at = "in" /\ socket[q.who].no = q.no
      BY <1>4, <2>2 DEF PresenceInv, PresenceFollows
  <2>3. ASSUME NEW b \in Browsers, socket[b].at = "in", b \notin pruned
        PROVE  \E q \in rows' : q.who = b /\ q.no = socket[b].no
    <3>1. PICK q \in rows : q.who = b /\ q.no = socket[b].no
        BY <2>3 DEF PresenceInv, PresenceFollows, Ours
    <3> QED
        BY <1>1, <1>2, <3>1
  <2> QED
      BY <1>2, <2>1, <2>2, <2>3 DEF PresenceFollows, Ours
<1> QED
    BY <1>3, <1>5, <1>6 DEF PresenceInv

\* Old rows are pruned.
LEMMA PruneInv == ASSUME PresenceInv, Prune PROVE PresenceInv'
<1>1. rows' \subseteq rows /\ UNCHANGED <<clients, fan, socket, abandoned>> /\ pruned \subseteq pruned'
    BY DEF Prune
<1>2. \A b \in Browsers : socket[b].at = "in" /\ Ours(b) \cap rows' = {} => b \in pruned'
    BY DEF Prune
<1>3. SystemDomains' /\ ListsHold'
    BY <1>1, ListsKept DEF PresenceInv, SystemDomains
<1>4. RowsNumbered'
    BY <1>1 DEF PresenceInv, RowsNumbered, Abandoned
<1>5. PresenceFollows'
    BY <1>1, <1>2 DEF PresenceInv, PresenceFollows, Ours
<1> QED
    BY <1>3, <1>4, <1>5 DEF PresenceInv

\* A request, or a server that starts again, touches no connection.
LEMMA RequestInv ==
    ASSUME PresenceInv, UNCHANGED <<clients, socket, rows, fan, pruned, abandoned>>
    PROVE  PresenceInv'
<1>1. SystemDomains' /\ ListsHold'
    BY ListsKept DEF PresenceInv, SystemDomains
<1> QED
    BY <1>1, Elsewhere DEF PresenceInv

\* One loop changes, ...
LEMMA LoopChanged ==
    ASSUME NEW q \in Requests, NEW s \in Servers, NEW x \in Loop,
           fan' = [fan EXCEPT ![<<q, s>>] = x], fan \in Loops
    PROVE  /\ fan' \in Loops /\ fan'[<<q, s>>] = x
           /\ \A r \in Requests, t \in Servers : r # q \/ t # s => fan'[<<r, t>>] = fan[<<r, t>>]
<1>1. <<q, s>> \in Requests \X Servers
    OBVIOUS
<1>2. fan' \in Loops /\ fan'[<<q, s>>] = x
    BY <1>1 DEF Loops
<1>3. ASSUME NEW r \in Requests, NEW t \in Servers, r # q \/ t # s PROVE fan'[<<r, t>>] = fan[<<r, t>>]
  <2>1. <<r, t>> # <<q, s>>
      BY <1>3
  <2>2. <<r, t>> \in Requests \X Servers
      OBVIOUS
  <2> QED
      BY <2>1, <2>2 DEF Loops
<1> QED
    BY <1>2, <1>3

\* ... or its state alone, ...
LEMMA StateChanged ==
    ASSUME NEW q \in Requests, NEW s \in Servers, NEW a \in {"open", "told", "fan"},
           fan' = [fan EXCEPT ![<<q, s>>].at = a], fan \in Loops
    PROVE  /\ fan' \in Loops
           /\ fan'[<<q, s>>].at = a /\ fan'[<<q, s>>].next = fan[<<q, s>>].next
           /\ \A r \in Requests, t \in Servers : r # q \/ t # s => fan'[<<r, t>>] = fan[<<r, t>>]
<1> DEFINE x == [fan[<<q, s>>] EXCEPT !.at = a]
<1>1. fan[<<q, s>>] \in Loop /\ <<q, s>> \in Requests \X Servers
    BY DEF Loops
<1>2. x \in Loop /\ x.at = a /\ x.next = fan[<<q, s>>].next
    BY <1>1 DEF Loop
<1>3. fan' = [fan EXCEPT ![<<q, s>>] = x]
    OBVIOUS
<1> HIDE DEF x
<1>4. fan' \in Loops /\ fan'[<<q, s>>] = x
    BY <1>1, <1>2, <1>3 DEF Loops
<1>5. ASSUME NEW r \in Requests, NEW t \in Servers, r # q \/ t # s
      PROVE  fan'[<<r, t>>] = fan[<<r, t>>]
  <2>1. <<r, t>> # <<q, s>> /\ <<r, t>> \in Requests \X Servers
      BY <1>5
  <2> QED
      BY <1>3, <2>1 DEF Loops
<1> QED
    BY <1>2, <1>4, <1>5

\* ... or connections are sent something, which ends none.
LEMMA MessagedLoop ==
    ASSUME NEW x \in Loop
    PROVE  /\ Messaged(x) \in Loop /\ Messaged(x).next = x.next
           /\ Messaged(x).at = "idle" <=> x.at = "idle"
           /\ Messaged(x).at = "fan" <=> x.at = "fan"
           /\ Messaged(x).at \in {"open", "told"} <=> x.at \in {"open", "told"}
BY DEF Messaged, Loop

\* A step that leaves the lists alone and opens no relay connection.
LEMMA LoopsInv ==
    ASSUME PresenceInv, UNCHANGED <<clients, socket, rows, pruned, abandoned>>, fan' \in Loops,
           \A q \in Requests, s \in Servers : fan'[<<q, s>>].at # "idle" => fan[<<q, s>>].at # "idle"
    PROVE  PresenceInv'
<1>1. SystemDomains' /\ ListsHold'
    BY DEF PresenceInv, SystemDomains, ListsHold
<1> QED
    BY <1>1, Elsewhere DEF PresenceInv

LEMMA PlaceAhead ==
    ASSUME PresenceInv, NEW q \in Requests, NEW s \in Servers, NEW k \in Ahead(q, s)
    PROVE  k \in Nat \ {0} /\ k \in 1..Len(clients[s]) /\ fan[<<q, s>>].next <= k
<1>1. fan[<<q, s>>].next \in Nat \ {0} /\ Len(clients[s]) \in Nat
    BY LenProperties DEF PresenceInv, SystemDomains, Loops, Loop
<1> QED
    BY <1>1 DEF Ahead

\* The loop over a list goes on.
LEMMA PassLoops ==
    ASSUME PresenceInv, NEW q \in Requests, NEW s \in Servers, Pass(q, s)
    PROVE  \E k \in Ahead(q, s) :
              /\ \A j \in Ahead(q, s) : k <= j
              /\ fan' \in Loops /\ fan'[<<q, s>>].at = "fan" /\ fan'[<<q, s>>].next = k + 1
              /\ \A r \in Requests, t \in Servers : r # q \/ t # s =>
                    fan'[<<r, t>>] = fan[<<r, t>>] \/ fan'[<<r, t>>] = Messaged(fan[<<r, t>>])
              /\ reached' = [reached EXCEPT ![q] = @ \cup ({clients[s][k]} \cap Clients)]
<1>1. PICK k \in Ahead(q, s) :
          /\ \A j \in Ahead(q, s) : k <= j
          /\ fan' = [f \in Requests \X Servers |->
                        IF f = <<q, s>> THEN [at |-> "fan", next |-> k + 1]
                        ELSE IF f = <<clients[s][k], s>> THEN Messaged(fan[f]) ELSE fan[f]]
          /\ reached' = [reached EXCEPT ![q] = @ \cup ({clients[s][k]} \cap Clients)]
    BY DEF Pass
<1> DEFINE x == clients[s][k]
           y == [at |-> "fan", next |-> k + 1]
<1>2. fan' = [f \in Requests \X Servers |->
                 IF f = <<q, s>> THEN y ELSE IF f = <<x, s>> THEN Messaged(fan[f]) ELSE fan[f]]
    BY <1>1
<1>3. <<q, s>> \in Requests \X Servers /\ y \in Loop /\ y.at = "fan" /\ y.next = k + 1
  <2>1. k \in Nat \ {0}
      BY PlaceAhead
  <2> QED
      BY <2>1 DEF Loop
<1> HIDE DEF x, y
<1>4. \A f \in Requests \X Servers : fan[f] \in Loop /\ Messaged(fan[f]) \in Loop
  <2>1. fan \in Loops
      BY DEF PresenceInv, SystemDomains
  <2> QED
      BY <2>1, MessagedLoop DEF Loops
<1>5. fan' \in Loops
    BY <1>2, <1>3, <1>4 DEF Loops
<1>6. fan'[<<q, s>>] = y
    BY <1>2, <1>3
<1>7. ASSUME NEW r \in Requests, NEW t \in Servers, r # q \/ t # s
      PROVE  fan'[<<r, t>>] = fan[<<r, t>>] \/ fan'[<<r, t>>] = Messaged(fan[<<r, t>>])
  <2>1. <<r, t>> # <<q, s>> /\ <<r, t>> \in Requests \X Servers
      BY <1>7
  <2> QED
      BY <1>2, <2>1
<1>8. fan'[<<q, s>>].at = "fan" /\ fan'[<<q, s>>].next = k + 1
    BY <1>3, <1>6
<1>9. \A r \in Requests, t \in Servers : r # q \/ t # s =>
          fan'[<<r, t>>] = fan[<<r, t>>] \/ fan'[<<r, t>>] = Messaged(fan[<<r, t>>])
    BY <1>7
<1> QED
    BY <1>1, <1>5, <1>8, <1>9

LEMMA PassInv ==
    ASSUME PresenceInv, NEW q \in Requests, NEW s \in Servers, Pass(q, s)
    PROVE  PresenceInv'
<1>0. fan \in Loops
    BY DEF PresenceInv, SystemDomains
<1>1. UNCHANGED <<clients, socket, rows, pruned, abandoned>> /\ fan[<<q, s>>].at = "fan"
    BY DEF Pass
<1>2. /\ fan' \in Loops /\ fan'[<<q, s>>].at = "fan"
      /\ \A r \in Requests, t \in Servers : r # q \/ t # s =>
                  fan'[<<r, t>>] = fan[<<r, t>>] \/ fan'[<<r, t>>] = Messaged(fan[<<r, t>>])
    BY PassLoops
<1>3. ASSUME NEW r \in Requests, NEW t \in Servers, fan'[<<r, t>>].at # "idle"
      PROVE  fan[<<r, t>>].at # "idle"
  <2>1. fan[<<r, t>>] \in Loop
      BY <1>0 DEF Loops
  <2>2. Messaged(fan[<<r, t>>]).at = "idle" <=> fan[<<r, t>>].at = "idle"
      BY <2>1, MessagedLoop
  <2> QED
      BY <1>1, <1>2, <1>3, <2>2
<1> QED
    BY <1>1, <1>2, <1>3, LoopsInv

\* A message is heard, ...
LEMMA HearInv ==
    ASSUME PresenceInv, NEW q \in Requests, NEW s \in Servers, Hear(q, s)
    PROVE  PresenceInv'
<1>0. fan \in Loops
    BY DEF PresenceInv, SystemDomains
<1>1. UNCHANGED <<clients, socket, rows, pruned, abandoned>> /\ fan[<<q, s>>].at = "open"
      /\ fan' = [fan EXCEPT ![<<q, s>>].at = "fan"]
    BY DEF Hear, history
<1>2. /\ fan' \in Loops
      /\ \A r \in Requests, t \in Servers : r # q \/ t # s => fan'[<<r, t>>] = fan[<<r, t>>]
    BY <1>0, <1>1, StateChanged
<1>3. \A r \in Requests, t \in Servers : fan'[<<r, t>>].at # "idle" => fan[<<r, t>>].at # "idle"
    BY <1>1, <1>2
<1> QED
    BY <1>1, <1>2, <1>3, LoopsInv

\* ... or a request begins, whose notice is sent to relay connections of its server.
LEMMA PostLoops ==
    ASSUME NEW q \in Requests, NEW kind \in Kinds, Post(q, kind), fan \in Loops
    PROVE  /\ fan' \in Loops
           /\ \A r \in Requests, t \in Servers :
                  fan'[<<r, t>>] = fan[<<r, t>>] \/ fan'[<<r, t>>] = Messaged(fan[<<r, t>>])
<1>1. CASE kind = "system"
    BY <1>1 DEF Post
<1>2. CASE kind # "system"
  <2>1. PICK s \in running, late \in SUBSET Requests :
            fan' = [f \in Requests \X Servers |->
                       IF f[2] = s /\ f[1] \notin late THEN Messaged(fan[f]) ELSE fan[f]]
      BY <1>2 DEF Post
  <2>2. \A f \in Requests \X Servers : fan[f] \in Loop /\ Messaged(fan[f]) \in Loop
      BY MessagedLoop DEF Loops
  <2>3. \A f \in Requests \X Servers : fan'[f] = fan[f] \/ fan'[f] = Messaged(fan[f])
      BY <2>1
  <2>4. fan' \in Loops
      BY <2>1, <2>2 DEF Loops
  <2>5. ASSUME NEW r \in Requests, NEW t \in Servers
        PROVE  fan'[<<r, t>>] = fan[<<r, t>>] \/ fan'[<<r, t>>] = Messaged(fan[<<r, t>>])
    <3>1. <<r, t>> \in Requests \X Servers
        OBVIOUS
    <3> QED
        BY <2>3, <3>1
  <2> QED
      BY <2>4, <2>5
<1> QED
    BY <1>1, <1>2

LEMMA PostInv ==
    ASSUME PresenceInv, NEW q \in Requests, NEW kind \in Kinds, Post(q, kind)
    PROVE  PresenceInv'
<1>1. UNCHANGED <<clients, socket, rows, pruned, abandoned>> /\ fan \in Loops
    BY DEF Post, PresenceInv, SystemDomains
<1>2. fan' \in Loops
      /\ \A r \in Requests, t \in Servers : fan'[<<r, t>>] = fan[<<r, t>>] \/ fan'[<<r, t>>] = Messaged(fan[<<r, t>>])
    BY <1>1, PostLoops
<1>3. ASSUME NEW r \in Requests, NEW t \in Servers, fan'[<<r, t>>].at # "idle" PROVE fan[<<r, t>>].at # "idle"
  <2>1. fan[<<r, t>>] \in Loop
      BY <1>1 DEF Loops
  <2> QED
      BY <1>2, <1>3, <2>1, MessagedLoop
<1> QED
    BY <1>1, <1>2, <1>3, LoopsInv

\* A relay connection enters the list of a server, ...
LEMMA SendToInv ==
    ASSUME PresenceInv, NEW q \in Requests, NEW s \in Servers, SendTo(q, s)
    PROVE  PresenceInv'
<1> DEFINE list == Append(clients[s], q)
           x == [at |-> "open", next |-> 1]
<1>0. fan \in Loops
    BY DEF PresenceInv, SystemDomains
<1>1. UNCHANGED <<socket, rows, pruned, abandoned>>
    BY DEF SendTo, history
<1>2. clients[s] \in Seq(Entries) /\ q \in Entries /\ q \notin Clients
    BY HomeAssumption DEF PresenceInv, SystemDomains, Entries
<1>3. list \in Seq(Entries) /\ \A y : Holds(list, y) <=> Holds(clients[s], y) \/ y = q
    BY <1>2, Appended
<1>4. clients' = [clients EXCEPT ![s] = list] /\ fan' = [fan EXCEPT ![<<q, s>>] = x]
    BY DEF SendTo
<1>5. /\ fan' \in Loops
      /\ \A r \in Requests, t \in Servers : r # q \/ t # s => fan'[<<r, t>>] = fan[<<r, t>>]
  <2>1. x \in Loop
      BY DEF Loop
  <2> HIDE DEF x
  <2> QED
      BY <1>0, <1>4, <2>1, LoopChanged
<1> HIDE DEF list, x
<1>6. ListsHold' /\ clients' \in [Servers -> Seq(Entries)]
  <2>1. \A c \in Clients : Holds(list, c) => Home[c] = s
      BY <1>2, <1>3 DEF PresenceInv, ListsHold
  <2>2. ASSUME NEW c \in Clients, socket'[c].at # "out"
        PROVE  IF Home[c] = s THEN Holds(list, c) ELSE socket[c].at # "out"
      BY <1>1, <1>3, <2>2 DEF PresenceInv, ListsHold
  <2>3. socket' \in Sockets
      BY <1>1 DEF PresenceInv, SystemDomains
  <2> QED
      BY <1>3, <1>4, <2>1, <2>2, <2>3, ListChanged
<1>7. \A r \in Requests, t \in Servers : fan'[<<r, t>>].at # "idle" => Holds(clients'[t], r)
  <2>1. \A r \in Requests : fan'[<<r, s>>].at # "idle" => Holds(list, r)
      BY <1>3, <1>5 DEF PresenceInv, SystemDomains
  <2>2. \A r \in Requests, t \in Servers \ {s} : fan'[<<r, t>>].at # "idle" => fan[<<r, t>>].at # "idle"
      BY <1>5
  <2> QED
      BY <1>3, <1>4, <2>1, <2>2, RelaysKept
<1>8. SystemDomains'
    BY <1>1, <1>5, <1>6, <1>7 DEF PresenceInv, SystemDomains
<1> QED
    BY <1>1, <1>6, <1>8, Elsewhere DEF PresenceInv

\* ... and leaves it when the message is passed on, or rejected.
LEMMA RelayGone ==
    ASSUME PresenceInv, NEW q \in Requests, NEW s \in Servers, fan[<<q, s>>].at # "idle",
           UNCHANGED <<socket, rows, pruned, abandoned>>,
           clients' = [clients EXCEPT ![s] = TakeOut(clients[s], Position(s, q))],
           fan' = [fan EXCEPT ![<<q, s>>] = Idle]
    PROVE  PresenceInv'
<1> DEFINE k == Position(s, q)
           list == TakeOut(clients[s], k)
<1>0. fan \in Loops
    BY DEF PresenceInv, SystemDomains
<1>2. clients[s] \in Seq(Entries) /\ q \notin Clients /\ Holds(clients[s], q)
    BY HomeAssumption DEF PresenceInv, SystemDomains
<1>3. k \in 1..Len(clients[s]) /\ clients[s][k] = q
    BY <1>2, PositionFound
<1>4. clients' = [clients EXCEPT ![s] = list]
    OBVIOUS
<1> HIDE DEF k
<1>5. /\ list \in Seq(Entries)
      /\ \A y : Holds(list, y) => Holds(clients[s], y)
      /\ \A y : Holds(clients[s], y) /\ y # q => Holds(list, y)
    BY <1>2, <1>3, CutOut
<1> HIDE DEF list
<1>6. /\ fan' \in Loops /\ fan'[<<q, s>>] = Idle
      /\ \A r \in Requests, t \in Servers : r # q \/ t # s => fan'[<<r, t>>] = fan[<<r, t>>]
  <2>1. Idle \in Loop
      BY DEF Loop, Idle
  <2> QED
      BY <1>0, <2>1, LoopChanged
<1>7. ListsHold' /\ clients' \in [Servers -> Seq(Entries)]
  <2>1. \A c \in Clients : Holds(list, c) => Home[c] = s
      BY <1>5 DEF PresenceInv, ListsHold
  <2>2. ASSUME NEW c \in Clients, socket'[c].at # "out"
        PROVE  IF Home[c] = s THEN Holds(list, c) ELSE socket[c].at # "out"
      BY <1>2, <1>5, <2>2 DEF PresenceInv, ListsHold
  <2>3. socket' \in Sockets
      BY DEF PresenceInv, SystemDomains
  <2> QED
      BY <1>4, <1>5, <2>1, <2>2, <2>3, ListChanged
<1>8. \A r \in Requests, t \in Servers : fan'[<<r, t>>].at # "idle" => Holds(clients'[t], r)
  <2>1. \A r \in Requests, t \in Servers \ {s} : fan'[<<r, t>>].at # "idle" => fan[<<r, t>>].at # "idle"
      BY <1>6
  <2>2. ASSUME NEW r \in Requests, fan'[<<r, s>>].at # "idle" PROVE Holds(list, r)
    <3>1. r # q /\ fan[<<r, s>>].at # "idle"
        BY <1>6, <2>2 DEF Idle
    <3> QED
        BY <1>5, <3>1 DEF PresenceInv, SystemDomains
  <2> QED
      BY <1>4, <1>5, <2>1, <2>2, RelaysKept
<1>9. SystemDomains'
    BY <1>6, <1>7, <1>8 DEF PresenceInv, SystemDomains
<1> QED
    BY <1>7, <1>9, Elsewhere DEF PresenceInv

LEMMA PassedInv ==
    ASSUME PresenceInv, NEW q \in Requests, NEW s \in Servers, Passed(q, s) \/ Reject(q, s)
    PROVE  PresenceInv'
<1>1. /\ fan[<<q, s>>].at # "idle" /\ UNCHANGED <<socket, rows, pruned, abandoned>>
      /\ clients' = [clients EXCEPT ![s] = TakeOut(clients[s], Position(s, q))]
      /\ fan' = [fan EXCEPT ![<<q, s>>] = Idle]
    BY DEF Passed, Reject, LeavesList
<1> QED
    BY <1>1, RelayGone

\* All loops of a server end.
LEMMA LoopsDown ==
    ASSUME NEW s \in Servers,
           fan' = [f \in Requests \X Servers |-> IF f[2] = s THEN Idle ELSE fan[f]], fan \in Loops
    PROVE  /\ fan' \in Loops /\ \A q \in Requests : fan'[<<q, s>>] = Idle
           /\ \A q \in Requests, t \in Servers \ {s} : fan'[<<q, t>>] = fan[<<q, t>>]
<1>1. Idle \in Loop
    BY DEF Idle, Loop
<1>2. fan' \in Loops
    BY <1>1 DEF Loops
<1>3. ASSUME NEW q \in Requests, NEW t \in Servers
      PROVE  fan'[<<q, t>>] = (IF t = s THEN Idle ELSE fan[<<q, t>>])
  <2>1. <<q, t>> \in Requests \X Servers
      OBVIOUS
  <2> QED
      BY <2>1
<1> QED
    BY <1>2, <1>3

\* A server goes down with its connections and some of their rows.
LEMMA DownInv ==
    ASSUME PresenceInv, NEW s \in Servers, NEW removed \in SUBSET Clients,
           \A c \in removed : Home[c] = s,
           Down(s, removed)
    PROVE  PresenceInv'
<1> USE DEF Down
<1> DEFINE gone == {c \in Clients : Home[c] = s /\ socket[c].at # "out"}
<1>1. Tenants(s) = gone
    BY DEF Tenants
<1>2. /\ \A c \in gone : socket'[c].at = "out" /\ socket'[c].no = socket[c].no
      /\ \A c \in Clients \ gone : socket'[c] = socket[c]
      /\ socket' \in Sockets
  <2>1. socket' = [c \in Clients |->
            IF c \in gone THEN [socket[c] EXCEPT !.at = "out"] ELSE socket[c]]
      BY <1>1
  <2>2. socket \in Sockets /\ gone \subseteq Clients
      BY DEF PresenceInv, SystemDomains
  <2> HIDE DEF gone
  <2> QED
      BY <2>1, <2>2 DEF Sockets
<1>3. /\ rows' \subseteq rows
      /\ \A r \in rows : r \notin rows' => Home[r.who] = s /\ r.no = socket[r.who].no
    BY DEF Ours
<1>4. /\ \A r \in rows' : r.who \in gone /\ r.no = socket[r.who].no => <<r.who, r.no>> \in abandoned'
      /\ \A c \in Clients, n \in Nat : <<c, n>> \in abandoned' =>
            <<c, n>> \in abandoned \/ (c \in gone /\ n = socket[c].no)
      /\ abandoned \subseteq abandoned'
    BY <1>1
<1>5. /\ clients' = [clients EXCEPT ![s] = <<>>] /\ pruned' = pruned \ gone
      /\ fan' = [f \in Requests \X Servers |-> IF f[2] = s THEN Idle ELSE fan[f]]
    BY <1>1
<1>6. <<>> \in Seq(Entries) /\ \A y : ~Holds(<<>>, y)
    BY DEF Holds
<1>7. /\ fan' \in Loops /\ \A q \in Requests : fan'[<<q, s>>] = Idle
      /\ \A q \in Requests, t \in Servers \ {s} : fan'[<<q, t>>] = fan[<<q, t>>]
    BY <1>5, LoopsDown DEF PresenceInv, SystemDomains
<1> HIDE DEF Down
<1>8. ListsHold' /\ clients' \in [Servers -> Seq(Entries)]
  <2>1. ASSUME NEW c \in Clients, socket'[c].at # "out"
        PROVE  IF Home[c] = s THEN Holds(<<>>, c) ELSE socket[c].at # "out"
      BY <1>2, <2>1
  <2> QED
      BY <1>2, <1>5, <1>6, <2>1, ListChanged
<1>9. SystemDomains'
  <2>1. \A q \in Requests, t \in Servers : fan'[<<q, t>>].at # "idle" => Holds(clients'[t], q)
    <3>1. \A q \in Requests : fan'[<<q, s>>].at = "idle"
        BY <1>7 DEF Idle
    <3>2. \A q \in Requests, t \in Servers \ {s} : fan'[<<q, t>>].at # "idle" => fan[<<q, t>>].at # "idle"
        BY <1>7
    <3> QED
        BY <1>5, <1>6, <3>1, <3>2, RelaysKept
  <2>2. ASSUME NEW c \in Clients, socket'[c].at = "opening" PROVE c \in Browsers
      BY <1>2, <2>2 DEF PresenceInv, SystemDomains
  <2> QED
      BY <1>2, <1>3, <1>7, <1>8, <2>1, <2>2 DEF PresenceInv, SystemDomains
<1>10. RowsNumbered'
  <2>1. \A c \in Clients : socket'[c].no = socket[c].no
      BY <1>2
  <2>2. ASSUME NEW r \in rows' PROVE r.no <= socket'[r.who].no
      BY <1>3, <2>1, RowsOf DEF PresenceInv, RowsNumbered
  <2>3. ASSUME NEW c \in Clients, NEW n \in Nat, <<c, n>> \in abandoned'
        PROVE  n < socket'[c].no \/ (n = socket'[c].no /\ socket'[c].at = "out")
    <3>1. CASE c \in gone /\ n = socket[c].no
        BY <1>2, <3>1
    <3>2. CASE <<c, n>> \in abandoned
      <4>1. n < socket[c].no \/ (n = socket[c].no /\ socket[c].at = "out")
          BY <3>2 DEF PresenceInv, RowsNumbered, Abandoned
      <4> QED
          BY <1>2, <4>1
    <3> QED
        BY <1>4, <2>3, <3>1, <3>2
  <2> QED
      BY <2>2, <2>3 DEF RowsNumbered, Abandoned
<1>11. PresenceFollows'
  <2>1. \A r, q \in rows' : r.who = q.who /\ r.no = q.no => r = q
      BY <1>3 DEF PresenceInv, PresenceFollows
  <2>2. ASSUME NEW r \in rows', <<r.who, r.no>> \notin abandoned'
        PROVE  socket'[r.who].at = "in" /\ socket'[r.who].no = r.no
    <3>1. r \in rows /\ r.who \in Clients /\ <<r.who, r.no>> \notin abandoned
        BY <1>3, <1>4, <2>2, RowsOf
    <3>2. socket[r.who].at = "in" /\ socket[r.who].no = r.no
        BY <3>1 DEF PresenceInv, PresenceFollows
    <3> QED
        BY <1>2, <1>4, <2>2, <3>1, <3>2
  <2>3. ASSUME NEW b \in Browsers, socket'[b].at = "in", b \notin pruned'
        PROVE  \E q \in rows' : q.who = b /\ q.no = socket'[b].no
    <3>1. b \in Clients /\ b \notin gone
        BY <1>2, <2>3 DEF Clients
    <3>2. socket'[b] = socket[b] /\ b \notin pruned /\ Home[b] # s
        BY <1>2, <1>5, <2>3, <3>1
    <3>3. PICK q \in rows : q.who = b /\ q.no = socket[b].no
        BY <2>3, <3>2 DEF PresenceInv, PresenceFollows, Ours
    <3> QED
        BY <1>3, <3>2, <3>3
  <2> QED
      BY <2>1, <2>2, <2>3 DEF PresenceFollows, Ours
<1> QED
    BY <1>8, <1>9, <1>10, <1>11 DEF PresenceInv

LEMMA StopInv == ASSUME PresenceInv, NEW s \in Servers, Stop(s) PROVE PresenceInv'
<1> DEFINE removed == {clients[s][k] : k \in {k \in 1..Len(clients[s]) : k % 2 = 1}} \cap Browsers
<1>1. Down(s, removed)
    BY DEF Stop
<1>2. removed \in SUBSET Clients /\ \A c \in removed : Home[c] = s
    BY DEF PresenceInv, ListsHold, Holds, Clients
<1> HIDE DEF removed
<1> QED
    BY <1>1, <1>2, DownInv

\* Every step keeps the invariant.
LEMMA PresenceStepInv == PresenceInv /\ [SystemNext]_systemVars => PresenceInv'
<1> SUFFICES ASSUME PresenceInv, [SystemNext]_systemVars PROVE PresenceInv'
    OBVIOUS
<1> USE DEF history
<1>1. ASSUME NEW c \in Clients, Connect(c) \/ Created(c) \/ Pong(c) \/ Leave(c) \/ Remove(c)
      PROVE  PresenceInv'
    BY <1>1, ConnectInv, CreatedInv, PongInv, LeaveInv, RemoveInv
<1>2. ASSUME NEW r \in rows, Age(r) PROVE PresenceInv'
    BY <1>2, AgeInv
<1>3. CASE Prune
    BY <1>3, PruneInv
<1>4. ASSUME NEW q \in Requests, NEW kind \in Kinds, Post(q, kind) PROVE PresenceInv'
    BY <1>4, PostInv
<1>5. ASSUME NEW q \in Requests, ReadServers(q) \/ Posted(q) PROVE PresenceInv'
  <2>1. UNCHANGED <<clients, socket, rows, fan, pruned, abandoned>>
      BY <1>5 DEF ReadServers, Posted
  <2> QED
      BY <2>1, RequestInv
<1>6. ASSUME NEW q \in Requests, NEW s \in Servers,
             SendTo(q, s) \/ Hear(q, s) \/ Reject(q, s) \/ Pass(q, s) \/ Passed(q, s)
      PROVE  PresenceInv'
    BY <1>6, SendToInv, HearInv, PassInv, PassedInv
<1>7. ASSUME NEW s \in Servers, Stop(s) PROVE PresenceInv'
    BY <1>7, StopInv
<1>8. ASSUME NEW s \in Servers, Crash(s) PROVE PresenceInv'
  <2>1. Down(s, {})
      BY <1>8 DEF Crash
  <2> QED
      BY <2>1, DownInv
<1>9. ASSUME NEW q \in Requests, NEW s \in Servers, SendFails(q, s) PROVE PresenceInv'
  <2>1. UNCHANGED <<clients, socket, rows, fan, pruned, abandoned>>
      BY <1>9 DEF SendFails
  <2> QED
      BY <2>1, RequestInv
<1>11. ASSUME NEW s \in Servers, Restart(s) PROVE PresenceInv'
  <2>1. UNCHANGED <<clients, socket, rows, fan, pruned, abandoned>>
      BY <1>11 DEF Restart
  <2> QED
      BY <2>1, RequestInv
<1>10. CASE UNCHANGED systemVars
    BY <1>10, RequestInv DEF systemVars
<1> QED
    BY <1>1, <1>2, <1>3, <1>4, <1>5, <1>6, <1>7, <1>8, <1>9, <1>10, <1>11 DEF SystemNext

\* Presence rows follow the connections (connect, disconnect, send_pong,
\* prune, remove_all_presences), whatever the servers and the clients are and
\* however often they connect, are pruned or go down.
THEOREM PresenceFollowsCorrect == SystemSpec => []PresenceFollows
<1>1. PresenceInv => PresenceFollows
    BY DEF PresenceInv
<1> QED
    BY <1>1, PresenceInitInv, PresenceStepInv, PTL DEF SystemSpec

-----------------------------------------------------------------------------
(* Messages.                                                               *)

Posting == [at : {"new", "read", "send", "done"}, kind : Kinds, todo : SUBSET Servers]

\* Requests and what is told of them; a loop that has not begun starts at the first place.
MessageDomains ==
    /\ post \in [Requests -> Posting]
    /\ reached \in [Requests -> SUBSET Clients]
    /\ owed \in [Requests -> SUBSET Clients]
    /\ missed \in [Requests -> SUBSET Clients]
    /\ \A q \in Requests, s \in Servers : fan[<<q, s>>].at # "fan" => fan[<<q, s>>].next = 1

\* The message is yet to be sent to the client's server, ...
Expected(q, c) == post[q].at = "send" /\ Home[c] \in post[q].todo
\* ... or its loop is yet to come to the client.
Coming(q, c) ==
    LET s == Home[c]
    IN  /\ fan[<<q, s>>].at # "idle"
        /\ \E k \in 1..Len(clients[s]) : clients[s][k] = c /\ fan[<<q, s>>].next <= k

\* Whom a message is owed to is connected, and has it or will, or is passed over.
OnItsWay(q) ==
    /\ post[q].at \in {"new", "read"} => owed[q] = {}
    /\ \A c \in owed[q] :
          /\ socket[c].at = "in" /\ Audience(post[q].kind, c)
          /\ c \in reached[q] \/ c \in missed[q] \/ Expected(q, c) \/ Coming(q, c)

MessageInv == PresenceInv /\ MessageDomains /\ \A q \in Requests : OnItsWay(q)

\* What is under way goes on for all who are still owed the message.
LEMMA Onward ==
    ASSUME NEW q \in Requests, OnItsWay(q), owed'[q] \subseteq owed[q],
           post'[q].kind = post[q].kind,
           post'[q].at \in {"new", "read"} => post[q].at \in {"new", "read"},
           \A c \in owed'[q] :
              /\ socket[c].at = "in" => socket'[c].at = "in"
              /\ c \in reached[q] => c \in reached'[q]
              /\ c \in missed[q] => c \in missed'[q]
              /\ Expected(q, c) => Expected(q, c)' \/ Coming(q, c)' \/ c \in missed'[q]
              /\ Coming(q, c) => Coming(q, c)' \/ c \in reached'[q] \/ c \in missed'[q]
    PROVE  OnItsWay(q)'
<1>1. post'[q].at \in {"new", "read"} => owed'[q] = {}
    BY DEF OnItsWay
<1>2. ASSUME NEW c \in owed'[q]
      PROVE  /\ socket'[c].at = "in" /\ Audience(post'[q].kind, c)
             /\ c \in reached'[q] \/ c \in missed'[q] \/ Expected(q, c)' \/ Coming(q, c)'
    BY <1>2 DEF OnItsWay
<1> QED
    BY <1>1, <1>2 DEF OnItsWay, Audience

\* A loop that is under way goes on to a client that keeps its place.
LEMMA ComingKept ==
    ASSUME NEW q \in Requests, NEW c \in Clients, NEW s, s = Home[c], Coming(q, c),
           fan'[<<q, s>>].next = fan[<<q, s>>].next,
           fan[<<q, s>>].at # "idle" => fan'[<<q, s>>].at # "idle",
           \A k \in 1..Len(clients[s]) : k \in 1..Len(clients'[s]) /\ clients'[s][k] = clients[s][k]
    PROVE  Coming(q, c)'
<1>1. PICK k \in 1..Len(clients[s]) : clients[s][k] = c /\ fan[<<q, s>>].next <= k
    BY DEF Coming
<1>2. k \in 1..Len(clients'[s]) /\ clients'[s][k] = c /\ fan'[<<q, s>>].next <= k
    BY <1>1
<1>3. fan'[<<q, s>>].at # "idle"
    BY DEF Coming
<1> QED
    BY <1>2, <1>3 DEF Coming

\* A loop goes on to a client of a list that loses another entry, or passes over it.
LEMMA ComingCut ==
    ASSUME MessageInv, NEW q \in Requests, NEW c \in Clients, Coming(q, c),
           NEW s \in Servers, NEW k \in 1..Len(clients[s]),
           c # clients[s][k],
           clients' = [clients EXCEPT ![s] = TakeOut(clients[s], k)],
           fan'[<<q, Home[c]>>] = fan[<<q, Home[c]>>]
    PROVE  Coming(q, c)' \/ (Home[c] = s /\ c \in PassedOver(q, s, k))
<1> DEFINE list == TakeOut(clients[s], k)
<1>1. /\ clients \in [Servers -> Seq(Entries)] /\ clients[s] \in Seq(Entries)
      /\ fan \in Loops /\ Home[c] \in Servers
    BY HomeAssumption DEF MessageInv, PresenceInv, SystemDomains
<1>2. /\ Len(list) = Len(clients[s]) - 1 /\ Len(clients[s]) \in Nat
      /\ \A j \in 1..(k - 1) : list[j] = clients[s][j]
      /\ \A j \in k..(Len(clients[s]) - 1) : list[j] = clients[s][j + 1]
    BY <1>1, CutPlaces, LenProperties
<1>3. clients'[s] = list /\ \A t \in Servers \ {s} : clients'[t] = clients[t]
    BY <1>1
<1> HIDE DEF list
<1>4. CASE Home[c] # s
  <2>1. clients'[Home[c]] = clients[Home[c]]
      BY <1>1, <1>3, <1>4
  <2> QED
      BY <2>1, ComingKept
<1>5. CASE Home[c] = s
  <2> DEFINE next == fan[<<q, s>>].next
  <2>1. /\ next \in Nat \ {0} /\ fan[<<q, s>>].at \in {"idle", "open", "told", "fan"}
        /\ fan'[<<q, s>>] = fan[<<q, s>>] /\ fan[<<q, s>>].at # "idle"
        /\ fan[<<q, s>>].at # "fan" => next = 1
    <3>1. fan[<<q, s>>] \in Loop
        BY <1>1 DEF Loops
    <3> QED
        BY <1>5, <3>1 DEF Loop, Coming, MessageInv, MessageDomains
  <2>2. PICK j \in 1..Len(clients[s]) : clients[s][j] = c /\ next <= j
      BY <1>5 DEF Coming
  <2>3. j # k
      BY <2>2
  <2>4. CASE j < k
    <3>1. j \in 1..(k - 1) /\ j \in 1..Len(list)
        BY <1>2, <2>2, <2>4
    <3>2. list[j] = c
        BY <1>2, <2>2, <3>1
    <3> QED
        BY <1>3, <1>5, <2>1, <2>2, <3>1, <3>2 DEF Coming
  <2>5. CASE j > k
    <3>1. j - 1 \in k..(Len(clients[s]) - 1) /\ (j - 1) + 1 = j /\ j - 1 \in 1..Len(list)
        BY <1>2, <2>2, <2>5
    <3>2. list[j - 1] = c
        BY <1>2, <2>2, <3>1
    <3>3. CASE next <= j - 1
        BY <1>3, <1>5, <2>1, <3>1, <3>2, <3>3 DEF Coming
    <3>4. CASE ~(next <= j - 1)
      <4>1. next = j
          BY <2>1, <2>2, <3>4
      <4>2. fan[<<q, s>>].at = "fan"
        <5>1. next # 1
            BY <1>2, <2>5, <4>1
        <5> QED
            BY <2>1, <5>1
      <4>3. k < fan[<<q, s>>].next /\ fan[<<q, s>>].next <= Len(clients[s])
            /\ clients[s][fan[<<q, s>>].next] = c
          BY <1>2, <2>2, <2>5, <4>1
      <4> QED
          BY <1>5, <4>2, <4>3 DEF PassedOver
    <3> QED
        BY <3>3, <3>4
  <2> QED
      BY <1>2, <2>2, <2>3, <2>4, <2>5
<1> QED
    BY <1>4, <1>5

\* A step that leaves lists, loops and requests alone, and nobody owed a message.
LEMMA ListsLeft ==
    ASSUME MessageInv, UNCHANGED <<clients, fan, post, reached, missed>>,
           NEW q \in Requests, owed'[q] \subseteq owed[q],
           \A c \in owed'[q] : socket[c].at = "in" => socket'[c].at = "in"
    PROVE  OnItsWay(q)'
<1>1. \A c : (Expected(q, c) => Expected(q, c)') /\ (Coming(q, c) => Coming(q, c)')
    BY DEF Expected, Coming
<1>2. OnItsWay(q)
    BY DEF MessageInv
<1> QED
    BY <1>1, <1>2, Onward

LEMMA ConnectSent ==
    ASSUME MessageInv, NEW d \in Clients, Connect(d), NEW q \in Requests
    PROVE  OnItsWay(q)'
<1> DEFINE s == Home[d]
<1>1. s \in Servers /\ clients[s] \in Seq(Entries) /\ d \in Entries /\ socket[d].at = "out"
      /\ clients \in [Servers -> Seq(Entries)] /\ OnItsWay(q) /\ owed[q] \subseteq Clients
    BY HomeAssumption DEF MessageInv, MessageDomains, PresenceInv, SystemDomains, Entries, Connect
<1>2. /\ UNCHANGED <<fan, post, reached, owed, missed>>
      /\ clients' = [clients EXCEPT ![s] = Append(clients[s], d)]
      /\ \A c \in Clients \ {d} : socket'[c] = socket[c]
    BY DEF Connect, history, MessageInv, PresenceInv, SystemDomains, Sockets
<1>3. /\ Len(Append(clients[s], d)) = Len(clients[s]) + 1 /\ Len(clients[s]) \in Nat
      /\ \A j \in 1..Len(clients[s]) : Append(clients[s], d)[j] = clients[s][j]
    BY <1>1, AppendProperties, LenProperties
<1>4. ASSUME NEW c \in Clients, Coming(q, c) PROVE Coming(q, c)'
  <2>1. Home[c] \in Servers
      BY HomeAssumption
  <2>2. \A k \in 1..Len(clients[Home[c]]) :
            k \in 1..Len(clients'[Home[c]]) /\ clients'[Home[c]][k] = clients[Home[c]][k]
    <3>1. CASE Home[c] = s
        BY <1>1, <1>2, <1>3, <3>1
    <3>2. CASE Home[c] # s
        BY <1>1, <1>2, <2>1, <3>2
    <3> QED
        BY <3>1, <3>2
  <2> QED
      BY <1>2, <1>4, <2>2, ComingKept
<1>5. \A c \in owed[q] : socket[c].at = "in" => socket'[c].at = "in"
    BY <1>1, <1>2
<1>6. \A c \in owed[q] : Expected(q, c) => Expected(q, c)'
    BY <1>2 DEF Expected
<1> QED
    BY <1>1, <1>2, <1>4, <1>5, <1>6, Onward

LEMMA ClientSent ==
    ASSUME MessageInv, NEW d \in Clients, Created(d) \/ Pong(d) \/ Leave(d), NEW q \in Requests
    PROVE  OnItsWay(q)'
<1>1. UNCHANGED <<clients, fan, post, reached, missed>> /\ owed'[q] \subseteq owed[q]
    BY DEF Created, Pong, Leave, history
<1>2. ASSUME NEW c \in owed'[q], socket[c].at = "in" PROVE socket'[c].at = "in"
  <2>1. c \in Clients /\ socket \in Sockets
      BY <1>1 DEF MessageInv, MessageDomains, PresenceInv, SystemDomains
  <2>2. CASE Created(d) \/ Pong(d)
      BY <1>2, <2>1, <2>2 DEF Created, Pong, Moves, Sockets
  <2>3. CASE Leave(d)
    <3>1. c # d
        BY <2>3 DEF Leave
    <3> QED
        BY <1>2, <2>1, <2>3, <3>1 DEF Leave, Moves, Sockets
  <2> QED
      BY <2>2, <2>3
<1> QED
    BY <1>1, <1>2, ListsLeft

LEMMA RemoveSent ==
    ASSUME MessageInv, NEW d \in Clients, Remove(d), NEW q \in Requests
    PROVE  OnItsWay(q)'
<1> DEFINE s == Home[d]
           k == Position(s, d)
<1>1. s \in Servers /\ socket[d].at = "leaving" /\ OnItsWay(q) /\ owed[q] \subseteq Clients
    BY HomeAssumption DEF MessageInv, MessageDomains, Remove
<1>2. k \in 1..Len(clients[s]) /\ clients[s][k] = d
  <2>1. Holds(clients[s], d)
      BY <1>1 DEF MessageInv, PresenceInv, ListsHold
  <2> QED
      BY <1>1, <2>1, PositionFound DEF MessageInv
<1>3. /\ UNCHANGED <<fan, post, reached, owed>>
      /\ missed'[q] = missed[q] \cup (owed[q] \cap PassedOver(q, s, k))
      /\ clients' = [clients EXCEPT ![s] = TakeOut(clients[s], k)]
      /\ \A c \in Clients \ {d} : socket'[c] = socket[c]
    BY DEF Remove, LeavesList, Moves, MessageInv, PresenceInv, SystemDomains, Sockets
<1> HIDE DEF k
<1>4. \A c \in owed[q] : c # d
    BY <1>1 DEF OnItsWay
<1>5. ASSUME NEW c \in owed[q], Coming(q, c) PROVE Coming(q, c)' \/ c \in missed'[q]
  <2>1. c \in Clients /\ c # clients[s][k]
      BY <1>1, <1>2, <1>4
  <2>2. Coming(q, c)' \/ c \in PassedOver(q, s, k)
      BY <1>1, <1>2, <1>3, <1>5, <2>1, ComingCut
  <2> QED
      BY <1>3, <2>2
<1>6. \A c \in owed[q] : socket'[c] = socket[c] /\ (Expected(q, c) => Expected(q, c)')
    BY <1>1, <1>3, <1>4 DEF Expected
<1> QED
    BY <1>1, <1>3, <1>5, <1>6, Onward

\* A request begins: its notice is sent to relay connections of its server.
LEMMA PostSent ==
    ASSUME MessageInv, NEW p \in Requests, NEW kind \in Kinds, Post(p, kind), NEW q \in Requests
    PROVE  OnItsWay(q)'
<1>1. /\ fan \in Loops /\ post \in [Requests -> Posting] /\ reached \in [Requests -> SUBSET Clients]
      /\ OnItsWay(q) /\ owed[q] \subseteq Clients
    BY DEF MessageInv, MessageDomains, PresenceInv, SystemDomains
<1>2. /\ UNCHANGED <<clients, socket, owed, missed>> /\ post[p].at = "new"
      /\ post' = [post EXCEPT ![p] = [at |-> "read", kind |-> kind, todo |-> {}]]
      /\ q # p => reached'[q] = reached[q]
    BY <1>1 DEF Post
<1>3. \A r \in Requests, t \in Servers :
          fan'[<<r, t>>] = fan[<<r, t>>] \/ fan'[<<r, t>>] = Messaged(fan[<<r, t>>])
    BY <1>1, PostLoops
<1>4. CASE q = p
  <2>1. owed'[q] = {}
      BY <1>1, <1>2, <1>4 DEF OnItsWay
  <2> QED
      BY <2>1 DEF OnItsWay
<1>5. CASE q # p
  <2>1. post'[q] = post[q]
      BY <1>1, <1>2, <1>5
  <2>2. ASSUME NEW c \in owed[q], Coming(q, c) PROVE Coming(q, c)'
    <3>1. c \in Clients /\ Home[c] \in Servers
        BY <1>1, HomeAssumption
    <3>2. /\ fan'[<<q, Home[c]>>].next = fan[<<q, Home[c]>>].next
          /\ fan[<<q, Home[c]>>].at # "idle" => fan'[<<q, Home[c]>>].at # "idle"
      <4>1. fan[<<q, Home[c]>>] \in Loop
          BY <1>1, <3>1 DEF Loops
      <4> QED
          BY <1>3, <3>1, <4>1, MessagedLoop
    <3> QED
        BY <1>2, <2>2, <3>1, <3>2, ComingKept
  <2>3. \A c \in owed[q] : Expected(q, c) => Expected(q, c)'
      BY <2>1 DEF Expected
  <2> QED
      BY <1>1, <1>2, <1>5, <2>1, <2>2, <2>3, Onward
<1> QED
    BY <1>4, <1>5

\* It reads the servers, ...
LEMMA ReadServersSent ==
    ASSUME MessageInv, NEW p \in Requests, ReadServers(p), NEW q \in Requests
    PROVE  OnItsWay(q)'
<1>1. /\ post \in [Requests -> Posting] /\ owed \in [Requests -> SUBSET Clients]
      /\ OnItsWay(q)
    BY DEF MessageInv, MessageDomains
<1>2. UNCHANGED <<clients, socket, fan, reached, missed>>
    BY DEF ReadServers
<1>3. CASE q = p
  <2>1. /\ post'[q].at = "send" /\ post'[q].kind = post[q].kind /\ post'[q].todo = Addressed
        /\ owed'[q] = {c \in Clients : /\ socket[c].at = "in" /\ Home[c] \in Addressed
                                       /\ post[q].kind = "system" \/ c \in Services}
      BY <1>1, <1>3 DEF ReadServers, Posting
  <2>2. ASSUME NEW c \in owed'[q]
        PROVE  socket'[c].at = "in" /\ Audience(post'[q].kind, c) /\ Expected(q, c)'
      BY <1>2, <2>1, <2>2 DEF Audience, Expected
  <2> QED
      BY <2>1, <2>2 DEF OnItsWay, Audience
<1>4. CASE q # p
  <2>1. post'[q] = post[q] /\ owed'[q] = owed[q]
      BY <1>1, <1>4 DEF ReadServers
  <2>2. \A c : (Expected(q, c) => Expected(q, c)') /\ (Coming(q, c) => Coming(q, c)')
      BY <1>2, <2>1 DEF Expected, Coming
  <2> QED
      BY <1>1, <1>2, <2>1, <2>2, Onward
<1> QED
    BY <1>3, <1>4

\* ... and has sent to them all, or cannot go on.
LEMMA EndSent ==
    ASSUME MessageInv, NEW p \in Requests, NEW s, Posted(p) \/ SendFails(p, s), NEW q \in Requests
    PROVE  OnItsWay(q)'
<1>1. /\ post \in [Requests -> Posting] /\ missed \in [Requests -> SUBSET Clients]
      /\ OnItsWay(q)
    BY DEF MessageInv, MessageDomains
<1>2. UNCHANGED <<clients, socket, fan, owed, reached>> /\ post[p].at = "send"
      /\ post' = [post EXCEPT ![p].at = "done"]
    BY DEF Posted, SendFails, history
<1>3. /\ missed[q] \subseteq missed'[q]
      /\ q = p => \A c \in owed[q] : Expected(q, c) => c \in missed'[q]
  <2>1. CASE Posted(p)
      BY <2>1 DEF Posted, history, Expected
  <2>2. CASE SendFails(p, s)
      BY <1>1, <2>2 DEF SendFails, Expected
  <2> QED
      BY <2>1, <2>2
<1>4. /\ post'[q].kind = post[q].kind /\ (q # p => post'[q] = post[q])
      /\ q = p => post'[q].at = "done"
    BY <1>1, <1>2 DEF Posting
<1>5. \A c \in owed[q] : Coming(q, c) => Coming(q, c)'
    BY <1>2 DEF Coming
<1>6. \A c \in owed[q] : Expected(q, c) => Expected(q, c)' \/ c \in missed'[q]
    BY <1>3, <1>4 DEF Expected
<1> QED
    BY <1>1, <1>2, <1>3, <1>4, <1>5, <1>6, Onward

\* The connection of a message comes to a server, ...
LEMMA SendToSent ==
    ASSUME MessageInv, NEW p \in Requests, NEW s \in Servers, SendTo(p, s), NEW q \in Requests
    PROVE  OnItsWay(q)'
<1> DEFINE list == Append(clients[s], p)
           x == [at |-> "open", next |-> 1]
<1>1. /\ post \in [Requests -> Posting] /\ fan \in Loops /\ OnItsWay(q) /\ owed[q] \subseteq Clients
      /\ clients \in [Servers -> Seq(Entries)] /\ clients[s] \in Seq(Entries) /\ p \in Entries
    BY DEF MessageInv, MessageDomains, PresenceInv, SystemDomains, Entries
<1>2. UNCHANGED <<socket, reached, owed, missed>>
    BY DEF SendTo, history
<1>3. /\ clients' = [clients EXCEPT ![s] = list] /\ fan' = [fan EXCEPT ![<<p, s>>] = x]
      /\ post' = [post EXCEPT ![p].todo = @ \ {s}]
    BY DEF SendTo
<1>4. /\ Len(list) = Len(clients[s]) + 1 /\ Len(clients[s]) \in Nat
      /\ \A j \in 1..Len(clients[s]) : list[j] = clients[s][j]
    BY <1>1, AppendProperties, LenProperties
<1> HIDE DEF list
<1>5. /\ fan'[<<p, s>>] = x
      /\ \A r \in Requests, t \in Servers : r # p \/ t # s => fan'[<<r, t>>] = fan[<<r, t>>]
  <2>1. fan' = [fan EXCEPT ![<<p, s>>] = x] /\ fan \in Loops
      BY <1>1, <1>3
  <2> HIDE DEF x
  <2>2. fan'[<<p, s>>] = x
      BY <2>1 DEF Loops
  <2>3. ASSUME NEW r \in Requests, NEW t \in Servers, r # p \/ t # s
        PROVE  fan'[<<r, t>>] = fan[<<r, t>>]
    <3>1. <<r, t>> # <<p, s>> /\ <<r, t>> \in Requests \X Servers
        BY <2>3
    <3> QED
        BY <2>1, <3>1 DEF Loops
  <2> QED
      BY <2>2, <2>3
<1>6. \A t \in Servers : \A k \in 1..Len(clients[t]) :
          k \in 1..Len(clients'[t]) /\ clients'[t][k] = clients[t][k]
  <2> TAKE t \in Servers
  <2>1. CASE t = s
      BY <1>1, <1>3, <1>4, <2>1
  <2>2. CASE t # s
      BY <1>1, <1>3, <2>2
  <2> QED
      BY <2>1, <2>2
<1>7. /\ post'[q].kind = post[q].kind /\ post'[q].at = post[q].at
      /\ q # p => post'[q] = post[q]
      /\ q = p => post'[q].todo = post[q].todo \ {s}
    BY <1>1, <1>3 DEF Posting
<1>8. ASSUME NEW c \in owed[q], q = p, Home[c] = s PROVE Coming(q, c)'
  <2>1. c \in Clients /\ socket[c].at = "in"
      BY <1>1, <1>8 DEF OnItsWay
  <2>2. PICK k \in 1..Len(clients[s]) : clients[s][k] = c
      BY <1>8, <2>1 DEF MessageInv, PresenceInv, ListsHold, Holds
  <2>3. k \in 1..Len(clients'[s]) /\ clients'[s][k] = c /\ 1 <= k
      BY <1>4, <1>6, <2>2
  <2> QED
      BY <1>5, <1>8, <2>3 DEF Coming
<1>9. ASSUME NEW c \in owed[q], Coming(q, c), q # p \/ Home[c] # s PROVE Coming(q, c)'
  <2>1. c \in Clients /\ Home[c] \in Servers
      BY <1>1, HomeAssumption
  <2>2. fan'[<<q, Home[c]>>] = fan[<<q, Home[c]>>]
      BY <1>5, <1>9, <2>1
  <2> QED
      BY <1>6, <1>9, <2>1, <2>2, ComingKept
<1>10. ASSUME NEW c \in owed[q], Expected(q, c), q # p \/ Home[c] # s PROVE Expected(q, c)'
    BY <1>7, <1>10 DEF Expected
<1> QED
    BY <1>1, <1>2, <1>7, <1>8, <1>9, <1>10, Onward

\* ... and the message is heard, ...
LEMMA HearSent ==
    ASSUME MessageInv, NEW p \in Requests, NEW s \in Servers, Hear(p, s), NEW q \in Requests
    PROVE  OnItsWay(q)'
<1>1. fan \in Loops /\ OnItsWay(q) /\ owed[q] \subseteq Clients
    BY DEF MessageInv, MessageDomains, PresenceInv, SystemDomains
<1>2. UNCHANGED <<clients, socket, post, reached, owed, missed>>
      /\ fan' = [fan EXCEPT ![<<p, s>>].at = "fan"]
    BY DEF Hear, history
<1>3. \A r \in Requests, t \in Servers :
          /\ fan'[<<r, t>>].next = fan[<<r, t>>].next
          /\ fan[<<r, t>>].at # "idle" => fan'[<<r, t>>].at # "idle"
  <2>1. /\ fan'[<<p, s>>].at = "fan" /\ fan'[<<p, s>>].next = fan[<<p, s>>].next
        /\ \A r \in Requests, t \in Servers : r # p \/ t # s => fan'[<<r, t>>] = fan[<<r, t>>]
      BY <1>1, <1>2, StateChanged
  <2> QED
      BY <2>1
<1>4. ASSUME NEW c \in owed[q], Coming(q, c) PROVE Coming(q, c)'
  <2>1. c \in Clients /\ Home[c] \in Servers
      BY <1>1, HomeAssumption
  <2> QED
      BY <1>2, <1>3, <1>4, <2>1, ComingKept
<1>5. \A c \in owed[q] : Expected(q, c) => Expected(q, c)'
    BY <1>2 DEF Expected
<1> QED
    BY <1>1, <1>2, <1>4, <1>5, Onward

\* ... or rejected: it is lost for the clients of the server.
LEMMA RejectSent ==
    ASSUME MessageInv, NEW p \in Requests, NEW s \in Servers, Reject(p, s), NEW q \in Requests
    PROVE  OnItsWay(q)'
<1> DEFINE k == Position(s, p)
<1>1. /\ fan \in Loops /\ OnItsWay(q) /\ owed[q] \subseteq Clients
      /\ p \notin Clients /\ missed \in [Requests -> SUBSET Clients]
    BY HomeAssumption DEF MessageInv, MessageDomains, PresenceInv, SystemDomains
<1>2. /\ UNCHANGED <<socket, post, reached, owed>> /\ fan[<<p, s>>].at = "told"
      /\ fan' = [fan EXCEPT ![<<p, s>>] = Idle]
      /\ clients' = [clients EXCEPT ![s] = TakeOut(clients[s], k)]
      /\ missed'[q] = missed[q] \cup
             (IF q = p THEN {c \in owed[q] : Home[c] = s} ELSE owed[q] \cap PassedOver(q, s, k))
    BY DEF Reject
<1>3. \A r \in Requests, t \in Servers : r # p \/ t # s => fan'[<<r, t>>] = fan[<<r, t>>]
  <2>1. Idle \in Loop
      BY DEF Loop, Idle
  <2>2. fan \in Loops /\ fan' = [fan EXCEPT ![<<p, s>>] = Idle]
      BY <1>1, <1>2
  <2> QED
      BY <2>1, <2>2, LoopChanged
<1>4. k \in 1..Len(clients[s]) /\ clients[s][k] = p
    BY <1>2, PositionFound DEF MessageInv, PresenceInv, SystemDomains
<1> HIDE DEF k
<1>5. ASSUME NEW c \in owed[q], Coming(q, c) PROVE Coming(q, c)' \/ c \in missed'[q]
  <2>1. c \in Clients /\ c # clients[s][k] /\ Home[c] \in Servers
      BY <1>1, <1>4, HomeAssumption
  <2>2. CASE q = p /\ Home[c] = s
      BY <1>2, <2>2
  <2>3. CASE q # p \/ Home[c] # s
    <3>1. fan'[<<q, Home[c]>>] = fan[<<q, Home[c]>>]
        BY <1>3, <2>1, <2>3
    <3>2. Coming(q, c)' \/ (Home[c] = s /\ c \in PassedOver(q, s, k))
        BY <1>2, <1>4, <1>5, <2>1, <3>1, ComingCut
    <3> QED
        BY <1>2, <2>3, <3>2
  <2> QED
      BY <2>2, <2>3
<1>6. \A c \in owed[q] : Expected(q, c) => Expected(q, c)'
    BY <1>2 DEF Expected
<1> QED
    BY <1>1, <1>2, <1>5, <1>6, Onward

\* One client after the other.
LEMMA PassSent ==
    ASSUME MessageInv, NEW p \in Requests, NEW s \in Servers, Pass(p, s), NEW q \in Requests
    PROVE  OnItsWay(q)'
<1>1. PICK k \in Ahead(p, s) :
          /\ \A j \in Ahead(p, s) : k <= j
          /\ fan' \in Loops /\ fan'[<<p, s>>].at = "fan" /\ fan'[<<p, s>>].next = k + 1
          /\ \A r \in Requests, t \in Servers : r # p \/ t # s =>
                fan'[<<r, t>>] = fan[<<r, t>>] \/ fan'[<<r, t>>] = Messaged(fan[<<r, t>>])
          /\ reached' = [reached EXCEPT ![p] = @ \cup ({clients[s][k]} \cap Clients)]
    BY PassLoops DEF MessageInv
<1>2. UNCHANGED <<clients, socket, post, owed, missed>> /\ fan[<<p, s>>].at = "fan"
    BY DEF Pass
<1>3. /\ fan \in Loops /\ OnItsWay(q) /\ owed[q] \subseteq Clients
      /\ reached \in [Requests -> SUBSET Clients]
    BY DEF MessageInv, MessageDomains, PresenceInv, SystemDomains
<1>4. /\ reached[q] \subseteq reached'[q]
      /\ q = p => reached'[q] = reached[q] \cup ({clients[s][k]} \cap Clients)
    BY <1>1, <1>3
<1>5. /\ k \in Nat \ {0} /\ k \in 1..Len(clients[s]) /\ Len(clients[s]) \in Nat
      /\ fan[<<p, s>>].next \in Nat \ {0}
  <2>1. clients[s] \in Seq(Entries) /\ fan[<<p, s>>] \in Loop
      BY <1>3 DEF Loops, MessageInv, PresenceInv, SystemDomains
  <2> QED
      BY <2>1, PlaceAhead, LenProperties DEF MessageInv, Loop
<1>6. ASSUME NEW c \in owed[q], Coming(q, c) PROVE Coming(q, c)' \/ c \in reached'[q]
  <2>1. c \in Clients /\ Home[c] \in Servers /\ Audience(post[q].kind, c)
      BY <1>3, HomeAssumption DEF OnItsWay
  <2>2. PICK j \in 1..Len(clients[Home[c]]) :
            clients[Home[c]][j] = c /\ fan[<<q, Home[c]>>].next <= j
      BY <1>6 DEF Coming
  <2>3. CASE q # p \/ Home[c] # s
    <3>1. /\ fan'[<<q, Home[c]>>].next = fan[<<q, Home[c]>>].next
          /\ fan[<<q, Home[c]>>].at # "idle" => fan'[<<q, Home[c]>>].at # "idle"
      <4>1. fan[<<q, Home[c]>>] \in Loop
          BY <1>3, <2>1 DEF Loops
      <4>2. fan'[<<q, Home[c]>>] = fan[<<q, Home[c]>>]
            \/ fan'[<<q, Home[c]>>] = Messaged(fan[<<q, Home[c]>>])
          BY <1>1, <2>1, <2>3
      <4> QED
          BY <4>1, <4>2, MessagedLoop
    <3> QED
        BY <1>2, <1>6, <2>1, <3>1, ComingKept
  <2>4. CASE q = p /\ Home[c] = s
    <3>1. j \in Ahead(p, s)
        BY <1>5, <2>1, <2>2, <2>4 DEF Ahead
    <3>2. k = j \/ k + 1 <= j
        BY <1>1, <1>5, <2>2, <3>1
    <3>3. CASE k = j
        BY <1>4, <2>1, <2>2, <2>4, <3>3
    <3>4. CASE k + 1 <= j
        BY <1>1, <1>2, <2>2, <2>4, <3>4 DEF Coming
    <3> QED
        BY <3>2, <3>3, <3>4
  <2> QED
      BY <2>3, <2>4
<1>7. \A c \in owed[q] : Expected(q, c) => Expected(q, c)'
    BY <1>2 DEF Expected
<1> QED
    BY <1>2, <1>3, <1>4, <1>6, <1>7, Onward

\* No one is left when the loop is over.
LEMMA PassedSent ==
    ASSUME MessageInv, NEW p \in Requests, NEW s \in Servers, Passed(p, s), NEW q \in Requests
    PROVE  OnItsWay(q)'
<1> DEFINE k == Position(s, p)
<1>1. fan \in Loops /\ OnItsWay(q) /\ owed[q] \subseteq Clients /\ p \notin Clients
    BY HomeAssumption DEF MessageInv, MessageDomains, PresenceInv, SystemDomains
<1>2. /\ UNCHANGED <<socket, post, reached, owed>> /\ Ahead(p, s) = {} /\ fan[<<p, s>>].at = "fan"
      /\ fan' = [fan EXCEPT ![<<p, s>>] = Idle]
      /\ clients' = [clients EXCEPT ![s] = TakeOut(clients[s], k)]
      /\ missed'[q] = missed[q] \cup (owed[q] \cap PassedOver(q, s, k))
    BY DEF Passed, LeavesList
<1>3. \A r \in Requests, t \in Servers : r # p \/ t # s => fan'[<<r, t>>] = fan[<<r, t>>]
  <2>1. Idle \in Loop
      BY DEF Loop, Idle
  <2>2. fan \in Loops /\ fan' = [fan EXCEPT ![<<p, s>>] = Idle]
      BY <1>1, <1>2
  <2> QED
      BY <2>1, <2>2, LoopChanged
<1>4. k \in 1..Len(clients[s]) /\ clients[s][k] = p
    BY <1>2, PositionFound DEF MessageInv, PresenceInv, SystemDomains
<1> HIDE DEF k
<1>5. ASSUME NEW c \in owed[q], Coming(q, c) PROVE Coming(q, c)' \/ c \in missed'[q]
  <2>1. /\ c \in Clients /\ c # clients[s][k] /\ Home[c] \in Servers
        /\ Audience(post[q].kind, c)
      BY <1>1, <1>4, HomeAssumption DEF OnItsWay
  <2>2. ~(q = p /\ Home[c] = s)
    <3>1. SUFFICES ASSUME q = p, Home[c] = s PROVE FALSE
        OBVIOUS
    <3>2. PICK j \in 1..Len(clients[s]) : clients[s][j] = c /\ fan[<<p, s>>].next <= j
        BY <1>5, <3>1 DEF Coming
    <3>3. fan[<<p, s>>].next \in Nat \ {0} /\ Len(clients[s]) \in Nat
      <4>1. clients[s] \in Seq(Entries) /\ fan[<<p, s>>] \in Loop
          BY <1>1 DEF Loops, MessageInv, PresenceInv, SystemDomains
      <4> QED
          BY <4>1, LenProperties DEF Loop
    <3>4. j \in Ahead(p, s)
        BY <2>1, <3>1, <3>2, <3>3 DEF Ahead
    <3> QED
        BY <1>2, <3>4
  <2>3. fan'[<<q, Home[c]>>] = fan[<<q, Home[c]>>]
      BY <1>3, <2>1, <2>2
  <2>4. Coming(q, c)' \/ (Home[c] = s /\ c \in PassedOver(q, s, k))
      BY <1>2, <1>4, <1>5, <2>1, <2>3, ComingCut
  <2> QED
      BY <1>2, <2>4
<1>6. \A c \in owed[q] : Expected(q, c) => Expected(q, c)'
    BY <1>2 DEF Expected
<1> QED
    BY <1>1, <1>2, <1>5, <1>6, Onward

\* The clients of a server that goes down are owed nothing any more.
LEMMA DownSent ==
    ASSUME MessageInv, NEW s \in Servers, NEW removed, Down(s, removed), NEW q \in Requests
    PROVE  OnItsWay(q)'
<1>1. /\ fan \in Loops /\ clients \in [Servers -> Seq(Entries)] /\ OnItsWay(q)
      /\ owed[q] \subseteq Clients /\ socket \in Sockets
    BY DEF MessageInv, MessageDomains, PresenceInv, SystemDomains
<1>2. /\ UNCHANGED <<post, reached, missed>> /\ owed'[q] = owed[q] \ Tenants(s)
      /\ clients' = [clients EXCEPT ![s] = <<>>]
      /\ fan' = [f \in Requests \X Servers |-> IF f[2] = s THEN Idle ELSE fan[f]]
      /\ \A c \in Clients : Home[c] # s => socket'[c] = socket[c]
    BY DEF Down, Tenants
<1>3. /\ \A r \in Requests, t \in Servers \ {s} : fan'[<<r, t>>] = fan[<<r, t>>]
      /\ \A t \in Servers \ {s} : clients'[t] = clients[t]
    BY <1>1, <1>2, LoopsDown
<1>4. \A c \in owed'[q] : c \in owed[q] /\ c \in Clients /\ Home[c] \in Servers \ {s}
    BY <1>1, <1>2, HomeAssumption DEF OnItsWay, Tenants
<1>5. ASSUME NEW c \in owed'[q], Coming(q, c) PROVE Coming(q, c)'
    BY <1>3, <1>4, <1>5, ComingKept
<1>6. \A c \in owed'[q] : socket'[c] = socket[c] /\ (Expected(q, c) => Expected(q, c)')
    BY <1>2, <1>4 DEF Expected
<1> QED
    BY <1>1, <1>2, <1>4, <1>5, <1>6, Onward

\* Requests and histories keep their types.
LEMMA DomainsStep == ASSUME MessageInv, SystemNext PROVE MessageDomains'
<1>1. /\ post \in [Requests -> Posting] /\ reached \in [Requests -> SUBSET Clients]
      /\ owed \in [Requests -> SUBSET Clients] /\ missed \in [Requests -> SUBSET Clients]
      /\ \A q \in Requests, s \in Servers : fan[<<q, s>>].at # "fan" => fan[<<q, s>>].next = 1
      /\ fan \in Loops /\ rows \subseteq PresenceRows
    BY DEF MessageInv, MessageDomains, PresenceInv, SystemDomains
<1>2. Addressed \subseteq Servers
    BY <1>1, HomeAssumption DEF Addressed, PresenceRows, Clients
<1>3. ASSUME NEW c \in Clients, Connect(c) \/ Created(c) \/ Pong(c) \/ Leave(c) \/ Remove(c)
      PROVE  MessageDomains'
  <2>1. UNCHANGED <<fan, post, reached>>
      BY <1>3 DEF Connect, Created, Pong, Leave, Remove, history
  <2>2. owed' \in [Requests -> SUBSET Clients] /\ missed' \in [Requests -> SUBSET Clients]
    <3>1. CASE Connect(c) \/ Created(c) \/ Pong(c)
        BY <1>1, <3>1 DEF Connect, Created, Pong, history
    <3>2. CASE Leave(c)
        BY <1>1, <3>2 DEF Leave
    <3>3. CASE Remove(c)
        BY <1>1, <3>3 DEF Remove, LeavesList
    <3> QED
        BY <1>3, <3>1, <3>2, <3>3
  <2> QED
      BY <1>1, <2>1, <2>2 DEF MessageDomains
<1>4. ASSUME (\E r \in rows : Age(r)) \/ Prune PROVE MessageDomains'
  <2>1. UNCHANGED <<fan, post, reached, owed, missed>>
      BY <1>4 DEF Age, Prune, history
  <2> QED
      BY <1>1, <2>1 DEF MessageDomains
<1>5. ASSUME NEW q \in Requests, NEW kind \in Kinds, Post(q, kind) PROVE MessageDomains'
  <2>1. post' \in [Requests -> Posting]
      BY <1>1, <1>5 DEF Post, Posting
  <2>2. reached' \in [Requests -> SUBSET Clients]
    <3>1. \A s : Listening(s, kind) \in SUBSET Clients
        BY DEF Listening
    <3> QED
        BY <1>1, <1>5, <3>1 DEF Post
  <2>3. \A r \in Requests, t \in Servers :
            fan'[<<r, t>>] = fan[<<r, t>>] \/ fan'[<<r, t>>] = Messaged(fan[<<r, t>>])
      BY <1>1, <1>5, PostLoops
  <2>4. ASSUME NEW r \in Requests, NEW t \in Servers, fan'[<<r, t>>].at # "fan"
        PROVE  fan'[<<r, t>>].next = 1
    <3>1. fan[<<r, t>>] \in Loop
        BY <1>1 DEF Loops
    <3>2. fan[<<r, t>>].at # "fan" /\ fan'[<<r, t>>].next = fan[<<r, t>>].next
        BY <2>3, <2>4, <3>1, MessagedLoop
    <3> QED
        BY <1>1, <3>2
  <2>5. UNCHANGED <<owed, missed>>
      BY <1>5 DEF Post
  <2> QED
      BY <1>1, <2>1, <2>2, <2>4, <2>5 DEF MessageDomains
<1>6. ASSUME NEW q \in Requests, ReadServers(q) PROVE MessageDomains'
  <2>1. post' \in [Requests -> Posting]
      BY <1>1, <1>2, <1>6 DEF ReadServers, Posting
  <2>2. owed' \in [Requests -> SUBSET Clients]
      BY <1>1, <1>6 DEF ReadServers
  <2> QED
      BY <1>1, <1>6, <2>1, <2>2 DEF ReadServers, MessageDomains
<1>7. ASSUME NEW q \in Requests, NEW s, Posted(q) \/ SendFails(q, s) PROVE MessageDomains'
  <2>1. post' = [post EXCEPT ![q].at = "done"] /\ UNCHANGED <<fan, reached, owed>>
      BY <1>7 DEF Posted, SendFails, history
  <2>2. post' \in [Requests -> Posting]
      BY <1>1, <2>1 DEF Posting
  <2>3. missed' \in [Requests -> SUBSET Clients]
      BY <1>1, <1>7 DEF Posted, SendFails, history
  <2> QED
      BY <1>1, <2>1, <2>2, <2>3 DEF MessageDomains
<1>8. ASSUME NEW q \in Requests, NEW s \in Servers, SendTo(q, s) PROVE MessageDomains'
  <2> DEFINE x == [at |-> "open", next |-> 1]
  <2>1. /\ post' = [post EXCEPT ![q].todo = @ \ {s}] /\ fan' = [fan EXCEPT ![<<q, s>>] = x]
        /\ UNCHANGED <<reached, owed, missed>>
      BY <1>8 DEF SendTo, history
  <2>2. post' \in [Requests -> Posting]
      BY <1>1, <2>1 DEF Posting
  <2>3. x \in Loop /\ x.next = 1
      BY DEF Loop
  <2> HIDE DEF x
  <2>4. fan' = [fan EXCEPT ![<<q, s>>] = x] /\ fan \in Loops
      BY <1>1, <2>1
  <2>5. /\ fan'[<<q, s>>] = x
        /\ \A r \in Requests, t \in Servers : r # q \/ t # s => fan'[<<r, t>>] = fan[<<r, t>>]
      BY <2>3, <2>4, LoopChanged
  <2>6. \A r \in Requests, t \in Servers : fan'[<<r, t>>].at # "fan" => fan'[<<r, t>>].next = 1
      BY <1>1, <2>3, <2>5
  <2> QED
      BY <1>1, <2>1, <2>2, <2>6 DEF MessageDomains
<1>9. ASSUME NEW q \in Requests, NEW s \in Servers, Hear(q, s) PROVE MessageDomains'
  <2>1. fan' = [fan EXCEPT ![<<q, s>>].at = "fan"] /\ UNCHANGED <<post, reached, owed, missed>>
      BY <1>9 DEF Hear, history
  <2>2. /\ fan'[<<q, s>>].at = "fan"
        /\ \A r \in Requests, t \in Servers : r # q \/ t # s => fan'[<<r, t>>] = fan[<<r, t>>]
      BY <1>1, <2>1, StateChanged
  <2>3. \A r \in Requests, t \in Servers : fan'[<<r, t>>].at # "fan" => fan'[<<r, t>>].next = 1
      BY <1>1, <2>2
  <2> QED
      BY <1>1, <2>1, <2>3 DEF MessageDomains
<1>10. ASSUME NEW q \in Requests, NEW s \in Servers, Reject(q, s) \/ Passed(q, s)
       PROVE  MessageDomains'
  <2>1. fan' = [fan EXCEPT ![<<q, s>>] = Idle] /\ UNCHANGED <<post, reached, owed>>
      BY <1>10 DEF Reject, Passed
  <2>2. Idle \in Loop /\ Idle.next = 1
      BY DEF Loop, Idle
  <2>3. fan'[<<q, s>>] = Idle
      BY <1>1, <2>1 DEF Loops
  <2>4. ASSUME NEW r \in Requests, NEW t \in Servers, fan'[<<r, t>>].at # "fan"
        PROVE  fan'[<<r, t>>].next = 1
    <3>1. CASE r = q /\ t = s
        BY <2>2, <2>3, <3>1
    <3>2. CASE r # q \/ t # s
      <4>1. <<r, t>> # <<q, s>> /\ <<r, t>> \in Requests \X Servers
          BY <3>2
      <4>2. fan'[<<r, t>>] = fan[<<r, t>>]
          BY <1>1, <2>1, <4>1 DEF Loops
      <4> QED
          BY <1>1, <2>4, <4>2
    <3> QED
        BY <3>1, <3>2
  <2>5. missed' \in [Requests -> SUBSET Clients]
    <3>1. CASE Reject(q, s)
      <4> DEFINE k == Position(s, q)
                 more(r) == IF r = q THEN {c \in owed[q] : Home[c] = s}
                            ELSE owed[r] \cap PassedOver(r, s, k)
      <4>1. missed' = [r \in Requests |-> missed[r] \cup more(r)]
          BY <3>1 DEF Reject
      <4>2. \A r \in Requests : more(r) \subseteq Clients
          BY <1>1
      <4> HIDE DEF more
      <4> QED
          BY <1>1, <4>1, <4>2
    <3>2. CASE Passed(q, s)
        BY <1>1, <3>2 DEF Passed, LeavesList
    <3> QED
        BY <1>10, <3>1, <3>2
  <2> QED
      BY <1>1, <2>1, <2>4, <2>5 DEF MessageDomains
<1>11. ASSUME NEW q \in Requests, NEW s \in Servers, Pass(q, s) PROVE MessageDomains'
  <2>1. PICK k \in Ahead(q, s) :
            /\ fan'[<<q, s>>].at = "fan"
            /\ \A r \in Requests, t \in Servers : r # q \/ t # s =>
                  fan'[<<r, t>>] = fan[<<r, t>>] \/ fan'[<<r, t>>] = Messaged(fan[<<r, t>>])
            /\ reached' = [reached EXCEPT ![q] = @ \cup ({clients[s][k]} \cap Clients)]
      BY <1>11, PassLoops DEF MessageInv
  <2>2. ASSUME NEW r \in Requests, NEW t \in Servers, fan'[<<r, t>>].at # "fan"
        PROVE  fan'[<<r, t>>].next = 1
    <3>1. fan[<<r, t>>] \in Loop
        BY <1>1 DEF Loops
    <3>2. fan[<<r, t>>].at # "fan" /\ fan'[<<r, t>>].next = fan[<<r, t>>].next
        BY <2>1, <2>2, <3>1, MessagedLoop
    <3> QED
        BY <1>1, <3>2
  <2>3. reached' \in [Requests -> SUBSET Clients] /\ UNCHANGED <<post, owed, missed>>
      BY <1>1, <1>11, <2>1 DEF Pass
  <2> QED
      BY <1>1, <2>2, <2>3 DEF MessageDomains
<1>12. ASSUME NEW s \in Servers, NEW removed, Down(s, removed) PROVE MessageDomains'
  <2>1. /\ UNCHANGED <<post, reached, missed>>
        /\ owed' = [q \in Requests |-> owed[q] \ Tenants(s)]
        /\ fan' = [f \in Requests \X Servers |-> IF f[2] = s THEN Idle ELSE fan[f]]
      BY <1>12 DEF Down
  <2>2. /\ \A q \in Requests : fan'[<<q, s>>] = Idle
        /\ \A q \in Requests, t \in Servers \ {s} : fan'[<<q, t>>] = fan[<<q, t>>]
      BY <1>1, <2>1, LoopsDown
  <2>3. \A q \in Requests, t \in Servers : fan'[<<q, t>>].at # "fan" => fan'[<<q, t>>].next = 1
      BY <1>1, <2>2 DEF Idle
  <2> QED
      BY <1>1, <2>1, <2>3 DEF MessageDomains
<1>13. ASSUME NEW s \in Servers, Stop(s) \/ Crash(s) PROVE MessageDomains'
    BY <1>12, <1>13 DEF Stop, Crash
<1>14. ASSUME NEW s \in Servers, Restart(s) PROVE MessageDomains'
    BY <1>1, <1>14 DEF Restart, history, MessageDomains
<1> QED
    BY <1>3, <1>4, <1>5, <1>6, <1>7, <1>8, <1>9, <1>10, <1>11, <1>13, <1>14 DEF SystemNext

\* Every step keeps the invariant.
LEMMA MessageStepInv == MessageInv /\ [SystemNext]_systemVars => MessageInv'
<1> SUFFICES ASSUME MessageInv, [SystemNext]_systemVars PROVE MessageInv'
    OBVIOUS
<1>1. PresenceInv'
    BY PresenceStepInv DEF MessageInv
<1>2. CASE UNCHANGED systemVars
  <2>1. UNCHANGED <<clients, socket, post, fan, reached, owed, missed>>
      BY <1>2 DEF systemVars, history
  <2>2. MessageDomains'
      BY <2>1 DEF MessageInv, MessageDomains
  <2>3. \A q \in Requests : OnItsWay(q)'
      BY <2>1, ListsLeft
  <2> QED
      BY <1>1, <2>2, <2>3 DEF MessageInv
<1>3. CASE SystemNext
  <2>1. MessageDomains'
      BY <1>3, DomainsStep
  <2>2. ASSUME NEW q \in Requests PROVE OnItsWay(q)'
    <3>1. ASSUME NEW c \in Clients, Connect(c) \/ Created(c) \/ Pong(c) \/ Leave(c) \/ Remove(c)
          PROVE  OnItsWay(q)'
        BY <3>1, ConnectSent, ClientSent, RemoveSent
    <3>2. ASSUME (\E r \in rows : Age(r)) \/ Prune PROVE OnItsWay(q)'
      <4>1. UNCHANGED <<clients, socket, post, fan, reached, owed, missed>>
          BY <3>2 DEF Age, Prune, history
      <4> QED
          BY <4>1, ListsLeft
    <3>3. ASSUME NEW p \in Requests, NEW kind \in Kinds, Post(p, kind) PROVE OnItsWay(q)'
        BY <3>3, PostSent
    <3>4. ASSUME NEW p \in Requests, ReadServers(p) \/ Posted(p) PROVE OnItsWay(q)'
        BY <3>4, ReadServersSent, EndSent
    <3>5. ASSUME NEW p \in Requests, NEW s \in Servers,
                 SendTo(p, s) \/ SendFails(p, s) \/ Hear(p, s) \/ Reject(p, s)
          PROVE  OnItsWay(q)'
        BY <3>5, SendToSent, EndSent, HearSent, RejectSent
    <3>6. ASSUME NEW p \in Requests, NEW s \in Servers, Pass(p, s) \/ Passed(p, s)
          PROVE  OnItsWay(q)'
        BY <3>6, PassSent, PassedSent
    <3>7. ASSUME NEW s \in Servers, Stop(s) \/ Crash(s) PROVE OnItsWay(q)'
        BY <3>7, DownSent DEF Stop, Crash
    <3>8. ASSUME NEW s \in Servers, Restart(s) PROVE OnItsWay(q)'
      <4>1. UNCHANGED <<clients, socket, post, fan, reached, owed, missed>>
          BY <3>8 DEF Restart, history
      <4> QED
          BY <4>1, ListsLeft
    <3> QED
        BY <1>3, <3>1, <3>2, <3>3, <3>4, <3>5, <3>6, <3>7, <3>8 DEF SystemNext
  <2> QED
      BY <1>1, <2>1, <2>2 DEF MessageInv
<1> QED
    BY <1>2, <1>3

LEMMA MessageInitInv == SystemInit => MessageInv
<1> SUFFICES ASSUME SystemInit PROVE MessageInv
    OBVIOUS
<1>1. MessageDomains
    BY DEF SystemInit, MessageDomains, Posting, Kinds, New, Idle
<1>2. \A q \in Requests : OnItsWay(q)
    BY DEF SystemInit, OnItsWay
<1> QED
    BY <1>1, <1>2, PresenceInitInv DEF MessageInv

\* A system message reaches everybody who was connected when the servers were read and still is,
\* and a notice of changed rights every native service (send_system_message,
\* notify_access_change, receive, handle_message), for any number of servers, clients and
\* messages on their way at once, but for the clients the code passes over: those of servers
\* left when one cannot be reached, the one next in turn when an earlier member leaves the list
\* and those of a server whose relay connection was sent another message first.
THEOREM MessageArrivesCorrect == SystemSpec => []MessageArrives
<1>1. MessageInv => MessageArrives
  <2> SUFFICES ASSUME MessageInv, NEW q \in Requests, PostOver(q), NEW c \in owed[q]
               PROVE  c \in reached[q] \/ c \in missed[q]
      BY DEF MessageArrives
  <2>1. c \in Clients /\ Home[c] \in Servers /\ OnItsWay(q)
      BY HomeAssumption DEF MessageInv, MessageDomains
  <2>2. ~Expected(q, c) /\ ~Coming(q, c)
      BY <2>1 DEF PostOver, Expected, Coming, Idle
  <2> QED
      BY <2>1, <2>2 DEF OnItsWay
<1> QED
    BY <1>1, MessageInitInv, MessageStepInv, PTL DEF SystemSpec

-----------------------------------------------------------------------------
(* The types of SystemMessages.                                            *)

\* Domains of what the proofs above do not need them of.
RestTyped ==
    /\ running \subseteq Servers /\ pruned \subseteq Browsers
    /\ abandoned \subseteq Browsers \X Nat

\* A client is in a list once, ...
Single(list) == \A j, k \in 1..Len(list) : list[j] = list[k] /\ list[j] \in Clients => j = k
\* ... and only while it is connected.
ListedConnected ==
    \A s \in Servers :
        /\ Single(clients[s])
        /\ \A c \in Clients : Holds(clients[s], c) => socket[c].at # "out"

TenancyInv == MessageInv /\ RestTyped /\ ListedConnected

\* A list that gets a client it does not have, or a relay connection, has each client once;
LEMMA SingleAppended ==
    ASSUME NEW list \in Seq(Entries), Single(list), NEW x \in Entries,
           x \in Clients => ~Holds(list, x)
    PROVE  Single(Append(list, x))
<1>1. /\ Append(list, x) \in Seq(Entries) /\ Len(Append(list, x)) = Len(list) + 1
      /\ \A j \in 1..Len(list) : Append(list, x)[j] = list[j]
      /\ Append(list, x)[Len(list) + 1] = x
    BY AppendProperties
<1>2. Len(list) \in Nat
    BY LenProperties
<1>3. ASSUME NEW j \in 1..(Len(list) + 1), NEW k \in 1..(Len(list) + 1),
             Append(list, x)[j] = Append(list, x)[k], Append(list, x)[j] \in Clients
      PROVE  j = k
  <2>1. CASE j \in 1..Len(list) /\ k \in 1..Len(list)
      BY <1>1, <1>3, <2>1 DEF Single
  <2>2. CASE j \in 1..Len(list) /\ k = Len(list) + 1
    <3>1. list[j] = x /\ x \in Clients
        BY <1>1, <1>3, <2>2
    <3> QED
        BY <2>2, <3>1 DEF Holds
  <2>3. CASE k \in 1..Len(list) /\ j = Len(list) + 1
    <3>1. list[k] = x /\ x \in Clients
        BY <1>1, <1>3, <2>3
    <3> QED
        BY <2>3, <3>1 DEF Holds
  <2>4. CASE j = Len(list) + 1 /\ k = Len(list) + 1
      BY <2>4
  <2>5. ASSUME NEW i \in 1..(Len(list) + 1) PROVE i \in 1..Len(list) \/ i = Len(list) + 1
      BY <1>2, <2>5
  <2> QED
      BY <2>1, <2>2, <2>3, <2>4, <2>5
<1> QED
    BY <1>1, <1>3 DEF Single

\* ... and so has one that loses an entry: it does not have it any more.
LEMMA SingleCut ==
    ASSUME NEW list \in Seq(Entries), Single(list), NEW k \in 1..Len(list)
    PROVE  /\ Single(TakeOut(list, k))
           /\ list[k] \in Clients => ~Holds(TakeOut(list, k), list[k])
<1> DEFINE cut == TakeOut(list, k)
<1>1. /\ cut \in Seq(Entries) /\ Len(cut) = Len(list) - 1
      /\ \A j \in 1..(k - 1) : cut[j] = list[j]
      /\ \A j \in k..(Len(list) - 1) : cut[j] = list[j + 1]
    BY CutPlaces
<1> HIDE DEF cut
<1>2. Len(list) \in Nat
    BY LenProperties
<1> DEFINE place(j) == IF j < k THEN j ELSE j + 1
<1>3. ASSUME NEW j \in 1..Len(cut)
      PROVE  place(j) \in 1..Len(list) /\ place(j) # k /\ cut[j] = list[place(j)]
  <2>1. CASE j < k
    <3>1. j \in 1..(k - 1)
        BY <2>1
    <3> QED
        BY <1>1, <1>2, <2>1, <3>1
  <2>2. CASE ~(j < k)
    <3>1. j \in k..(Len(list) - 1)
        BY <1>1, <1>2, <2>2
    <3> QED
        BY <1>1, <1>2, <2>2, <3>1
  <2> QED
      BY <2>1, <2>2
<1>4. ASSUME NEW i \in 1..Len(cut), NEW j \in 1..Len(cut), cut[i] = cut[j], cut[i] \in Clients
      PROVE  i = j
  <2>1. place(i) = place(j)
    <3>1. /\ place(i) \in 1..Len(list) /\ place(j) \in 1..Len(list)
          /\ list[place(i)] = list[place(j)] /\ list[place(i)] \in Clients
        BY <1>3, <1>4
    <3> HIDE DEF place
    <3> QED
        BY <3>1 DEF Single
  <2>2. Len(cut) \in Int
      BY <1>1, <1>2
  <2> QED
      BY <2>1, <2>2
<1>5. ASSUME list[k] \in Clients, NEW j \in 1..Len(cut), cut[j] = list[k] PROVE FALSE
  <2>1. place(j) \in 1..Len(list) /\ place(j) # k /\ list[place(j)] = list[k]
      BY <1>3, <1>5
  <2> HIDE DEF place
  <2> QED
      BY <1>5, <2>1 DEF Single
<1> QED
    BY <1>4, <1>5 DEF Single, Holds, cut

LEMMA TenancyInitInv == SystemInit => TenancyInv
<1> SUFFICES ASSUME SystemInit PROVE TenancyInv
    OBVIOUS
<1>1. RestTyped
    BY DEF SystemInit, RestTyped
<1>2. ListedConnected
    BY DEF SystemInit, ListedConnected, Single, Holds
<1> QED
    BY <1>1, <1>2, MessageInitInv DEF TenancyInv

\* The steps of a connection.
LEMMA OneListChanged ==
    ASSUME TenancyInv, NEW s \in Servers, NEW list, Single(list),
           clients' = [clients EXCEPT ![s] = list],
           \A c \in Clients : Holds(list, c) => socket'[c].at # "out",
           \A c \in Clients : Home[c] # s /\ socket[c].at # "out" => socket'[c].at # "out"
    PROVE  ListedConnected'
<1>1. clients'[s] = list /\ \A t \in Servers \ {s} : clients'[t] = clients[t]
    BY DEF TenancyInv, MessageInv, PresenceInv, SystemDomains
<1>2. ASSUME NEW t \in Servers \ {s}, NEW c \in Clients, Holds(clients[t], c)
      PROVE  socket'[c].at # "out"
    BY <1>2 DEF TenancyInv, MessageInv, PresenceInv, ListsHold, ListedConnected
<1> QED
    BY <1>1, <1>2 DEF TenancyInv, ListedConnected

LEMMA ConnectedKept ==
    ASSUME TenancyInv, UNCHANGED clients,
           \A c \in Clients : socket[c].at # "out" => socket'[c].at # "out"
    PROVE  ListedConnected'
BY DEF TenancyInv, ListedConnected

LEMMA ListedStep == ASSUME TenancyInv, SystemNext PROVE ListedConnected'
<1> USE HomeAssumption
<1>0. /\ clients \in [Servers -> Seq(Entries)] /\ socket \in Sockets
      /\ Requests \cap Clients = {} /\ Clients \subseteq Entries /\ Requests \subseteq Entries
    BY DEF TenancyInv, MessageInv, PresenceInv, SystemDomains, Entries
<1>1. ASSUME NEW c \in Clients, Connect(c) PROVE ListedConnected'
  <2> DEFINE s == Home[c]
  <2>1. s \in Servers /\ clients[s] \in Seq(Entries)
      BY <1>0
  <2>2. socket[c].at = "out" /\ ~Holds(clients[s], c) /\ Single(clients[s])
      BY <1>1, <2>1 DEF Connect, TenancyInv, ListedConnected
  <2>3. Single(Append(clients[s], c))
      BY <1>0, <2>1, <2>2, SingleAppended
  <2>4. \A d \in Clients : socket[d].at # "out" \/ d = c => socket'[d].at # "out"
      BY <1>0, <1>1 DEF Connect, Sockets
  <2>5. \A d \in Clients : Holds(Append(clients[s], c), d) => socket'[d].at # "out"
    <3>1. \A d : Holds(Append(clients[s], c), d) <=> Holds(clients[s], d) \/ d = c
        BY <1>0, <2>1, Appended
    <3> QED
        BY <2>1, <2>4, <3>1 DEF TenancyInv, ListedConnected
  <2>6. clients' = [clients EXCEPT ![s] = Append(clients[s], c)]
      BY <1>1 DEF Connect
  <2> QED
      BY <2>1, <2>3, <2>4, <2>5, <2>6, OneListChanged
<1>2. ASSUME NEW c \in Clients, Created(c) \/ Pong(c) \/ Leave(c) PROVE ListedConnected'
  <2>1. UNCHANGED clients
      BY <1>2 DEF Created, Pong, Leave
  <2>2. \A d \in Clients : socket[d].at # "out" => socket'[d].at # "out"
      BY <1>0, <1>2 DEF Created, Pong, Leave, Moves, Sockets
  <2> QED
      BY <2>1, <2>2, ConnectedKept
<1>3. ASSUME NEW c \in Clients, Remove(c) PROVE ListedConnected'
  <2> DEFINE s == Home[c]
             k == Position(s, c)
             list == TakeOut(clients[s], k)
  <2>1. s \in Servers /\ clients[s] \in Seq(Entries) /\ Single(clients[s])
      BY <1>0 DEF TenancyInv, ListedConnected
  <2>2. socket[c].at = "leaving" /\ clients' = [clients EXCEPT ![s] = list]
        /\ \A d \in Clients \ {c} : socket'[d] = socket[d]
      BY <1>0, <1>3 DEF Remove, LeavesList, Moves, Sockets
  <2>3. Holds(clients[s], c)
      BY <2>2 DEF TenancyInv, MessageInv, PresenceInv, ListsHold
  <2>4. k \in 1..Len(clients[s]) /\ clients[s][k] = c
      BY <2>1, <2>3, PositionFound DEF TenancyInv, MessageInv
  <2> HIDE DEF k
  <2>5. Single(list) /\ ~Holds(list, c) /\ \A y : Holds(list, y) => Holds(clients[s], y)
      BY <2>1, <2>4, SingleCut, CutOut
  <2> HIDE DEF list
  <2>6. \A d \in Clients : Holds(list, d) => socket'[d].at # "out"
      BY <2>1, <2>2, <2>5 DEF TenancyInv, ListedConnected
  <2> QED
      BY <2>1, <2>2, <2>5, <2>6, OneListChanged
<1>4. ASSUME NEW q \in Requests, NEW s \in Servers, SendTo(q, s) PROVE ListedConnected'
  <2>1. clients[s] \in Seq(Entries) /\ Single(clients[s]) /\ UNCHANGED socket
        /\ q \in Entries /\ q \notin Clients
      BY <1>0, <1>4 DEF SendTo, TenancyInv, ListedConnected
  <2>2. Single(Append(clients[s], q))
        /\ \A d : Holds(Append(clients[s], q), d) <=> Holds(clients[s], d) \/ d = q
      BY <2>1, SingleAppended, Appended
  <2>3. clients' = [clients EXCEPT ![s] = Append(clients[s], q)]
      BY <1>4 DEF SendTo
  <2>4. \A d \in Clients : Holds(Append(clients[s], q), d) => socket'[d].at # "out"
      BY <2>1, <2>2 DEF TenancyInv, ListedConnected
  <2> QED
      BY <2>1, <2>2, <2>3, <2>4, OneListChanged
<1>5. ASSUME NEW q \in Requests, NEW s \in Servers, Passed(q, s) \/ Reject(q, s)
      PROVE  ListedConnected'
  <2> DEFINE k == Position(s, q)
             list == TakeOut(clients[s], k)
  <2>1. clients[s] \in Seq(Entries) /\ Single(clients[s]) /\ UNCHANGED socket
      BY <1>0, <1>5 DEF Passed, Reject, TenancyInv, ListedConnected
  <2>2. Holds(clients[s], q)
      BY <1>5 DEF Passed, Reject, TenancyInv, MessageInv, PresenceInv, SystemDomains
  <2>3. k \in 1..Len(clients[s])
      BY <2>2, PositionFound DEF TenancyInv, MessageInv
  <2>4. clients' = [clients EXCEPT ![s] = list]
      BY <1>5 DEF Passed, Reject, LeavesList
  <2> HIDE DEF k
  <2>5. Single(list) /\ \A y : Holds(list, y) => Holds(clients[s], y)
      BY <2>1, <2>3, SingleCut, CutOut
  <2> HIDE DEF list
  <2>6. \A d \in Clients : Holds(list, d) => socket'[d].at # "out"
      BY <2>1, <2>5 DEF TenancyInv, ListedConnected
  <2> QED
      BY <2>1, <2>4, <2>5, <2>6, OneListChanged
<1>6. ASSUME NEW s \in Servers, NEW removed, Down(s, removed) PROVE ListedConnected'
  <2>1. clients' = [clients EXCEPT ![s] = <<>>]
      BY <1>6 DEF Down
  <2>2. Single(<<>>) /\ \A y : ~Holds(<<>>, y)
      BY DEF Single, Holds
  <2>3. \A d \in Clients : Home[d] # s => socket'[d] = socket[d]
      BY <1>6 DEF Down, Tenants
  <2> QED
      BY <2>1, <2>2, <2>3, OneListChanged
<1>7. ASSUME UNCHANGED <<clients, socket>> PROVE ListedConnected'
    BY <1>7, ConnectedKept
<1>8. ASSUME (\E r \in rows : Age(r)) \/ Prune
             \/ \E q \in Requests : (\E kind \in Kinds : Post(q, kind)) \/ ReadServers(q) \/ Posted(q)
      PROVE  ListedConnected'
    BY <1>7, <1>8 DEF Age, Prune, Post, ReadServers, Posted
<1>9. ASSUME NEW q \in Requests, NEW s \in Servers,
             SendFails(q, s) \/ Hear(q, s) \/ Pass(q, s)
      PROVE  ListedConnected'
    BY <1>7, <1>9 DEF SendFails, Hear, Pass
<1>11. ASSUME NEW s \in Servers, Restart(s) PROVE ListedConnected'
    BY <1>7, <1>11 DEF Restart
<1>10. ASSUME NEW s \in Servers, Stop(s) \/ Crash(s) PROVE ListedConnected'
    BY <1>6, <1>10 DEF Stop, Crash
<1> QED
    BY <1>1, <1>2, <1>3, <1>4, <1>5, <1>8, <1>9, <1>10, <1>11 DEF SystemNext

LEMMA RestStep == ASSUME TenancyInv, SystemNext PROVE RestTyped'
<1>0. /\ running \subseteq Servers /\ pruned \subseteq Browsers /\ abandoned \subseteq Browsers \X Nat
      /\ rows' \subseteq PresenceRows
  <2>1. PresenceInv'
      BY PresenceStepInv DEF TenancyInv, MessageInv
  <2> QED
      BY <2>1 DEF TenancyInv, RestTyped, PresenceInv, SystemDomains
<1>1. ASSUME NEW c \in Clients, Connect(c) \/ Created(c) \/ Pong(c) \/ Leave(c) \/ Remove(c)
      PROVE  RestTyped'
    BY <1>0, <1>1 DEF RestTyped, Connect, Created, Pong, Leave, Remove, history
<1>2. ASSUME (\E r \in rows : Age(r)) \/ Prune PROVE RestTyped'
    BY <1>0, <1>2 DEF RestTyped, Age, Prune, history
<1>3. ASSUME NEW q \in Requests, (\E kind \in Kinds : Post(q, kind)) \/ ReadServers(q) \/ Posted(q)
      PROVE  RestTyped'
    BY <1>0, <1>3 DEF RestTyped, Post, ReadServers, Posted, history
<1>4. ASSUME NEW q \in Requests, NEW s \in Servers,
             SendTo(q, s) \/ SendFails(q, s) \/ Hear(q, s) \/ Reject(q, s) \/ Pass(q, s) \/ Passed(q, s)
      PROVE  RestTyped'
    BY <1>0, <1>4 DEF RestTyped, SendTo, SendFails, Hear, Reject, Pass, Passed, history
<1>5. ASSUME NEW s \in Servers, NEW removed, Down(s, removed) PROVE RestTyped'
  <2>1. abandoned' \subseteq Browsers \X Nat
    <3>1. \A r \in rows' : r.who \in Browsers /\ r.no \in Nat
        BY <1>0 DEF PresenceRows
    <3> QED
        BY <1>0, <1>5, <3>1 DEF Down
  <2> QED
      BY <1>0, <1>5, <2>1 DEF RestTyped, Down
<1>6. ASSUME NEW s \in Servers, Stop(s) \/ Crash(s) \/ Restart(s) PROVE RestTyped'
    BY <1>0, <1>5, <1>6 DEF Stop, Crash, Restart, RestTyped, history
<1> QED
    BY <1>1, <1>2, <1>3, <1>4, <1>6 DEF SystemNext

\* A row of Presence and a message on its way are of the forms that connect, handle_message and
\* remove_all_presences give them, and a loop over a server's clients stays within its list.
THEOREM SystemTypeCorrect == SystemSpec => []SystemTypeOK
<1>1. TenancyInv => SystemTypeOK
  <2> SUFFICES ASSUME TenancyInv PROVE SystemTypeOK
      OBVIOUS
  <2>1. \A c \in Clients : socket[c].at # "out" <=>
            \E k \in 1..Len(clients[Home[c]]) : clients[Home[c]][k] = c
      BY HomeAssumption DEF TenancyInv, ListedConnected, MessageInv, PresenceInv, ListsHold, Holds
  <2> QED
      BY <2>1 DEF TenancyInv, RestTyped, MessageInv, MessageDomains, Posting, PresenceInv,
                  SystemDomains, Entries, Sockets, PresenceRows, Loops, Loop, SystemTypeOK
<1>2. TenancyInv /\ [SystemNext]_systemVars => TenancyInv'
  <2>1. ASSUME TenancyInv, SystemNext PROVE TenancyInv'
      BY <2>1, MessageStepInv, ListedStep, RestStep DEF TenancyInv
  <2>2. ASSUME TenancyInv, UNCHANGED systemVars PROVE TenancyInv'
    <3>1. MessageInv'
        BY <2>2, MessageStepInv DEF TenancyInv
    <3> QED
        BY <2>2, <3>1 DEF TenancyInv, RestTyped, ListedConnected, systemVars, history
  <2> QED
      BY <2>1, <2>2
<1> QED
    BY <1>1, <1>2, TenancyInitInv, PTL DEF SystemSpec

-----------------------------------------------------------------------------
(* Lists of participants.                                                  *)

\* Domains, as far as the proof needs them.
ListsTypes ==
    /\ provider \in {"python", "native"}
    /\ present \subseteq Guests /\ told \in [Guests -> SUBSET Speakers]
    /\ lists \in Nat /\ newest \in 0..lists /\ outrun \in BOOLEAN
    /\ fetching \subseteq [number : 1..lists, list : SUBSET Speakers]

\* Lists under way have numbers of their own; the newest that was sent is not among them.
\* The native service has none under way.
NumbersDiffer ==
    /\ \A f, g \in fetching : f.number = g.number => f = g
    /\ \A f \in fetching : f.number # newest
    /\ provider = "native" => fetching = {} /\ ~outrun

Heard == OnList(present) # {}       \* somebody is there to be told

\* While somebody is there to be told, the last list that was made names those present, and
\* it is under way or was sent; once it was sent, they have it, unless an older one followed.
LastListIsTrue ==
    Heard =>
        /\ \A f \in fetching : f.number = lists => f.list = OnList(present)
        /\ newest = lists \/ \E f \in fetching : f.number = lists
        /\ newest = lists /\ ~outrun => \A p \in OnList(present) : told[p] = OnList(present)

ListsInv == ListsTypes /\ NumbersDiffer /\ LastListIsTrue

\* At the start nobody is there.
LEMMA ListsInitInv == ParticipantsInit => ListsInv
<1> SUFFICES ASSUME ParticipantsInit PROVE ListsInv
    OBVIOUS
<1>1. ListsTypes /\ NumbersDiffer
  <2>1. told \in [Guests -> SUBSET Speakers]
      BY DEF ParticipantsInit
  <2>2. newest \in 0..lists /\ lists \in Nat
      BY DEF ParticipantsInit
  <2>3. fetching \subseteq [number : 1..lists, list : SUBSET Speakers] /\ outrun \in BOOLEAN
      BY Zenon DEF ParticipantsInit
  <2> QED
      BY <2>1, <2>2, <2>3 DEF ParticipantsInit, ListsTypes, NumbersDiffer
<1>2. ~Heard
    BY DEF ParticipantsInit, Heard, OnList
<1> QED
    BY <1>1, <1>2 DEF ListsInv, LastListIsTrue

\* An announcement, to those who are there afterwards.
LEMMA AnnounceInv ==
    ASSUME ListsInv, provider' = provider, present' \subseteq Guests, Announce(present')
    PROVE  ListsInv'
<1> USE DEF ListsInv
<1>0. OnList(present') \subseteq Speakers /\ Speakers \subseteq Guests
    BY ParticipantsAssumption DEF OnList
<1>1. CASE provider = "native"
  <2> USE <1>1 DEF Announce, Native_List
  <2>1. ListsTypes'
      BY <1>0 DEF ListsTypes, SentTo
  <2>2. NumbersDiffer'
      BY DEF ListsTypes, NumbersDiffer
  <2>3. LastListIsTrue'
      BY <1>0 DEF ListsTypes, NumbersDiffer, LastListIsTrue, SentTo, OnList
  <2> QED
      BY <2>1, <2>2, <2>3
<1>2. CASE provider # "native"
  <2> DEFINE new == [number |-> lists + 1, list |-> OnList(present')]
  <2> USE <1>2 DEF Announce, List
  <2>1. fetching' = fetching \cup {new}
      OBVIOUS
  <2>2. ListsTypes'
      BY <1>0 DEF ListsTypes
  <2>3. NumbersDiffer'
      BY <2>1, <2>2 DEF ListsTypes, NumbersDiffer
  <2>4. \A f \in fetching : f.number # lists'
      BY DEF ListsTypes
  <2>5. new \in fetching' /\ new.number = lists'
      BY <2>1
  <2>6. newest' # lists'
      BY DEF ListsTypes
  <2>7. LastListIsTrue'
    <3>1. \A f \in fetching' : f.number = lists' => f = new
        BY <2>1, <2>4
    <3> QED
        BY <2>5, <2>6, <3>1 DEF LastListIsTrue, OnList
  <2> QED
      BY <2>2, <2>3, <2>7
<1> QED
    BY <1>1, <1>2

\* Comings, goings and lists that are sent keep it.
LEMMA ListsStepInv == ListsInv /\ [ParticipantsNext]_participantVars => ListsInv'
<1> SUFFICES ASSUME ListsInv, [ParticipantsNext]_participantVars
             PROVE  ListsInv'
    OBVIOUS
<1> USE DEF ListsInv
<1>1. ASSUME NEW p \in Guests, Join(p) PROVE ListsInv'
  <2>1. present' \subseteq Guests /\ provider' = provider
      BY <1>1 DEF Join, ListsTypes
  <2>2. CASE p \in Speakers
      BY <1>1, <2>1, <2>2, AnnounceInv DEF Join
  <2>3. CASE p \notin Speakers
    <3>1. OnList(present') = OnList(present)
        BY <1>1, <2>3 DEF Join, OnList
    <3> QED
        BY <1>1, <2>1, <2>3, <3>1
           DEF Join, Quiet, ListsTypes, NumbersDiffer, LastListIsTrue, Heard
  <2> QED
      BY <2>2, <2>3
<1>2. ASSUME NEW p \in Guests, Part(p) PROVE ListsInv'
  <2>1. present' \subseteq Guests /\ provider' = provider
      BY <1>2 DEF Part, ListsTypes
  <2>2. CASE present' = {}
    <3>1. ~Heard'
        BY <2>2 DEF Heard, OnList
    <3> QED
        BY <1>2, <2>1, <2>2, <3>1 DEF Part, Quiet, ListsTypes, NumbersDiffer, LastListIsTrue
  <2>3. CASE present' # {}
      BY <1>2, <2>1, <2>3, AnnounceInv DEF Part
  <2> QED
      BY <2>2, <2>3
<1>3. ASSUME NEW p \in Guests, ParticipantUpdate(p) PROVE ListsInv'
    BY <1>3, AnnounceInv DEF ParticipantUpdate, ListsTypes
<1>4. ASSUME SendList PROVE ListsInv'
  <2>1. PICK f \in fetching :
            /\ fetching' = fetching \ {f}
            /\ told' = SentTo(present, f.list)
            /\ outrun' = (IF present = {} THEN outrun ELSE f.number < newest)
            /\ newest' = IF f.number > newest /\ present # {} THEN f.number ELSE newest
      BY <1>4 DEF SendList
  <2>2. UNCHANGED <<provider, present, lists>>
      BY <1>4 DEF SendList
  <2>3. f.number \in 1..lists /\ f.list \subseteq Speakers
      BY DEF ListsTypes
  <2>4. ListsTypes'
    <3>1. newest' \in 0..lists
        BY <2>1, <2>3 DEF ListsTypes
    <3>4. outrun' \in BOOLEAN
      <4>1. (f.number < newest) \in BOOLEAN
          BY <2>3 DEF ListsTypes
      <4>2. outrun \in BOOLEAN
          BY DEF ListsTypes
      <4> QED
          BY Zenon, <2>1, <4>1, <4>2
    <3>2. told' \in [Guests -> SUBSET Speakers]
        BY <2>1, <2>3 DEF ListsTypes, SentTo
    <3>3. fetching' \subseteq fetching
        BY <2>1
    <3> QED
        BY <2>2, <3>1, <3>2, <3>3, <3>4 DEF ListsTypes
  <2>5. NumbersDiffer'
      BY <2>1, <2>2, <2>3 DEF ListsTypes, NumbersDiffer
  <2>6. ASSUME Heard PROVE LastListIsTrue'
    <3>1. present # {}
        BY <2>6 DEF Heard, OnList
    <3>2. CASE f.number = lists
      <4>1. f.list = OnList(present)
          BY <2>6, <3>2 DEF LastListIsTrue
      <4>2. newest' = lists
          BY <2>1, <3>1, <3>2 DEF ListsTypes, NumbersDiffer
      <4>3. \A p \in OnList(present) : told'[p] = OnList(present)
          BY <2>1, <4>1, ParticipantsAssumption DEF SentTo, OnList
      <4>4. \A g \in fetching' : g.number # lists
          BY <2>1, <3>2 DEF NumbersDiffer
      <4>5. OnList(present)' = OnList(present) /\ lists' = lists
          BY <2>2 DEF OnList
      <4> QED
          BY <4>2, <4>3, <4>4, <4>5 DEF LastListIsTrue
    <3>3. CASE f.number # lists /\ newest = lists
      <4>0. f.number < newest /\ ~(f.number > newest)
          BY <2>3, <3>3 DEF ListsTypes
      <4>1. outrun' /\ newest' = newest
          BY Zenon, <2>1, <3>1, <4>0
      <4> QED
          BY <2>1, <2>2, <2>6, <3>3, <4>1 DEF LastListIsTrue
    <3>4. CASE f.number # lists /\ newest # lists
      <4>1. newest' # lists
          BY <2>1, <3>4
      <4> QED
          BY <2>1, <2>2, <2>6, <3>4, <4>1 DEF LastListIsTrue
    <3> QED
        BY <3>2, <3>3, <3>4
  <2>7. ~Heard => LastListIsTrue'
      BY <2>2 DEF Heard, LastListIsTrue
  <2> QED
      BY <2>4, <2>5, <2>6, <2>7
<1>5. CASE UNCHANGED participantVars
    BY <1>5 DEF participantVars, ListsTypes, NumbersDiffer, LastListIsTrue, Heard
<1> QED
    BY <1>1, <1>2, <1>3, <1>4, <1>5 DEF ParticipantsNext

\* When no list is under way everybody who may know it has the list of those present, unless
\* Python sent an older one last (send_participant_list, broadcast_participant_list).
THEOREM ListsCurrentCorrect == ParticipantsSpec => []ListsCurrent
<1>1. ListsInv => ListsCurrent
  <2> SUFFICES ASSUME ListsInv PROVE ListsCurrent
      OBVIOUS
  <2>1. ASSUME fetching = {}, ~outrun, NEW p \in present \cap Speakers
        PROVE  told[p] = OnList(present)
      BY <2>1 DEF ListsInv, LastListIsTrue, Heard, OnList
  <2>2. outrun => provider = "python"
      BY DEF ListsInv, ListsTypes, NumbersDiffer
  <2> QED
      BY <2>1, <2>2 DEF ListsCurrent
<1> QED
    BY ListsInitInv, ListsStepInv, <1>1, PTL DEF ParticipantsSpec

\* Every list on its way names connections, and is sent to connections, that there have been
\* (send_participant_list, and the native service's broadcast_participants).
THEOREM ParticipantsTypeCorrect == ParticipantsSpec => []ParticipantsTypeOK
<1>1. ListsInv => ParticipantsTypeOK
    BY DEF ListsInv, ListsTypes, ParticipantsTypeOK
<1> QED
    BY ListsInitInv, ListsStepInv, <1>1, PTL DEF ParticipantsSpec

-----------------------------------------------------------------------------
(* Comments.  The theorem is proved along a history that the model does    *)
(* not keep: which diff was accepted at each version, by whom, and what    *)
(* the comments were then.                                                 *)

Reviews(p) == readerRights[p] \in ReviewRights
Blind(p) == readerRights[p] = "read-without-comments"

States == [CommentIds -> CommentEntries]

\* The comments there are, are of their authors.  Nobody made those that never were.
Fits(cs, author) ==
    /\ cs \in States
    /\ \A c \in CommentIds : cs[c].user \in {author[c], "nobody"}

\* Updates as editors send them: at most two.
Good(cu, author) ==
    /\ cu \in Seq(CommentUpdates) /\ Len(cu) \in {0, 1, 2}
    /\ \A k \in 1..Len(cu) :
        /\ cu[k].type \in {"create", "add_answer"} => cu[k].user \in Readers
        /\ cu[k].type = "create" => cu[k].user = author[cu[k].id]

\* Two copies have the same comments of p.
OwnAlike(cs, ct, p) == \A c \in CommentIds : cs[c].user = p <=> ct[c].user = p

\* What p sees is what its rights let it see of the comments.
Agree(p, sight, cs) ==
    IF Blind(p) THEN sight = [c \in CommentIds |-> NoComment]
    ELSE IF Reviews(p) THEN OwnAlike(sight, cs, p)
    ELSE sight = cs

\* What no, one or two updates make of the comments.
LEMMA Runs ==
    ASSUME NEW cs, NEW cu, Len(cu) \in {0, 1, 2}
    PROVE  Native_Updated(cs, cu) =
               IF Len(cu) = 0 THEN cs
               ELSE IF Len(cu) = 1 THEN Passing(cs, cu[1])
               ELSE Passing(Passing(cs, cu[1]), cu[2])
<1>1. PICK n \in {0, 1, 2} : n = Len(cu)
    OBVIOUS
<1> DEFINE Step(f) == [k \in 0..n |-> IF k = 0 THEN cs ELSE Passing(f[k - 1], cu[k])]
           run == [k \in 0..n |->
                      IF k = 0 THEN cs
                      ELSE IF k = 1 THEN Passing(cs, cu[1])
                      ELSE Passing(Passing(cs, cu[1]), cu[2])]
           after == CHOOSE f : f = Step(f)
<1>2. run = Step(run)
  <2>1. ASSUME NEW k \in 0..n
        PROVE  run[k] = IF k = 0 THEN cs ELSE Passing(run[k - 1], cu[k])
    <3>1. CASE k = 0
        BY <3>1
    <3>2. CASE k = 1
      <4>1. 0 \in 0..n /\ 1 \in 0..n
        BY <3>2
      <4>2. run[0] = cs /\ run[1] = Passing(cs, cu[1])
        BY <4>1
      <4> HIDE DEF run
      <4> QED
        BY <3>2, <4>2
    <3>3. CASE k = 2
      <4>1. 1 \in 0..n /\ 2 \in 0..n
        BY <3>3
      <4>2. run[1] = Passing(cs, cu[1]) /\ run[2] = Passing(Passing(cs, cu[1]), cu[2])
        BY <4>1
      <4> HIDE DEF run
      <4> QED
        BY <3>3, <4>2
    <3> QED
        BY <3>1, <3>2, <3>3
  <2> QED
    BY <2>1
<1>3. after = Step(after)
  <2>1. \E f : f = Step(f)
    BY <1>2
  <2> QED
    BY <2>1
<1>4. Native_Updated(cs, cu) = after[n]
    BY <1>1 DEF Native_Updated
<1> HIDE DEF after
<1>5. after[0] = cs
    BY <1>3
<1>6. n # 0 => after[1] = Passing(after[0], cu[1])
    BY <1>3
<1>7. n = 2 => after[2] = Passing(after[1], cu[2])
    BY <1>3
<1>8. CASE n = 0
    BY <1>1, <1>4, <1>5, <1>8
<1>9. CASE n = 1
    BY <1>1, <1>4, <1>5, <1>6, <1>9
<1>10. CASE n = 2
    BY <1>1, <1>4, <1>5, <1>6, <1>7, <1>10
<1> QED
    BY <1>8, <1>9, <1>10

\* Which of no, one or two updates are visible.
FirstVisible(cu, p, cs) == IF EntryVisible(cu[1], p, cs) THEN <<cu[1]>> ELSE <<>>
BothVisible(cu, p, cs) ==
    IF EntryVisible(cu[2], p, cs) THEN Append(FirstVisible(cu, p, cs), cu[2])
    ELSE FirstVisible(cu, p, cs)
LEMMA Visible ==
    ASSUME NEW cu, NEW p, NEW cs, Len(cu) \in {0, 1, 2}
    PROVE  VisibleUpdates(cu, p, cs) =
               IF Len(cu) = 0 THEN <<>>
               ELSE IF Len(cu) = 1 THEN FirstVisible(cu, p, cs)
               ELSE BothVisible(cu, p, cs)
<1>1. PICK n \in {0, 1, 2} : n = Len(cu)
    OBVIOUS
<1> DEFINE Step(f) == [k \in 0..n |->
                          IF k = 0 THEN <<>>
                          ELSE IF EntryVisible(cu[k], p, cs) THEN Append(f[k - 1], cu[k])
                          ELSE f[k - 1]]
           one == FirstVisible(cu, p, cs)
           two == BothVisible(cu, p, cs)
           run == [k \in 0..n |-> IF k = 0 THEN <<>> ELSE IF k = 1 THEN one ELSE two]
           kept == CHOOSE f : f = Step(f)
<1>2. /\ one = IF EntryVisible(cu[1], p, cs) THEN Append(<<>>, cu[1]) ELSE <<>>
      /\ two = IF EntryVisible(cu[2], p, cs) THEN Append(one, cu[2]) ELSE one
    BY DEF FirstVisible, BothVisible
<1> HIDE DEF one, two
<1>3. run = Step(run)
  <2>1. ASSUME NEW k \in 0..n
        PROVE  run[k] = IF k = 0 THEN <<>>
                        ELSE IF EntryVisible(cu[k], p, cs) THEN Append(run[k - 1], cu[k])
                        ELSE run[k - 1]
    <3>1. CASE k = 0
        BY <3>1
    <3>2. CASE k = 1
      <4>1. 0 \in 0..n /\ 1 \in 0..n
        BY <3>2
      <4>2. run[0] = <<>> /\ run[1] = one
        BY <4>1
      <4> HIDE DEF run
      <4>3. run[1] = IF EntryVisible(cu[1], p, cs) THEN Append(run[0], cu[1]) ELSE run[0]
        BY <4>2, <1>2
      <4>4. k - 1 = 0
        BY <3>2
      <4> QED
        BY <3>2, <4>3, <4>4
    <3>3. CASE k = 2
      <4>1. 1 \in 0..n /\ 2 \in 0..n
        BY <3>3
      <4>2. \A i \in 0..n : run[i] = IF i = 0 THEN <<>> ELSE IF i = 1 THEN one ELSE two
        OBVIOUS
      <4> HIDE DEF run
      <4>3. run[1] = one /\ run[2] = two
        BY <4>1, <4>2
      <4> QED
        BY <3>3, <4>3, <1>2
    <3> QED
        BY <3>1, <3>2, <3>3
  <2> QED
    BY <2>1
<1>4. kept = Step(kept)
  <2>1. \E f : f = Step(f)
    BY <1>3
  <2> HIDE DEF run
  <2> QED
    BY <2>1, Zenon
<1>5. VisibleUpdates(cu, p, cs) = kept[n]
    BY <1>1 DEF VisibleUpdates
<1> HIDE DEF kept
<1>6. kept[0] = <<>>
    BY <1>4
<1>7. \A k \in 0..n : k # 0 => kept[k] =
          IF EntryVisible(cu[k], p, cs) THEN Append(kept[k - 1], cu[k]) ELSE kept[k - 1]
  <2>1. ASSUME NEW k \in 0..n, k # 0
        PROVE  kept[k] = Step(kept)[k]
    BY <1>4, Zenon
  <2> QED
    BY <2>1
<1>8. /\ n # 0 => kept[1] = IF EntryVisible(cu[1], p, cs) THEN Append(kept[0], cu[1]) ELSE kept[0]
      /\ n = 2 => kept[2] = IF EntryVisible(cu[2], p, cs) THEN Append(kept[1], cu[2]) ELSE kept[1]
  <2> HIDE DEF Step
  <2>1. 1 - 1 = 0 /\ 2 - 1 = 1 /\ 1 # 0 /\ 2 # 0
    OBVIOUS
  <2>2. n # 0 => 1 \in 0..n
    OBVIOUS
  <2>3. n = 2 => 2 \in 0..n
    OBVIOUS
  <2> QED
    BY <1>7, <2>1, <2>2, <2>3
<1>9. (n # 0 => kept[1] = one) /\ (n = 2 => kept[2] = two)
    BY <1>6, <1>8, <1>2
<1> QED
    BY <1>1, <1>5, <1>6, <1>9 DEF one, two

\* Who has made each comment after one update.
LEMMA PassingUser ==
    ASSUME NEW cs \in States, NEW u \in CommentUpdates,
           u.type \in {"create", "add_answer"} => u.user \in Readers
    PROVE  /\ Passing(cs, u) \in States
           /\ \A c \in CommentIds : Passing(cs, u)[c].user =
                  IF c # u.id THEN cs[c].user
                  ELSE IF u.type = "create" THEN u.user
                  ELSE IF u.type = "delete" THEN "nobody"
                  ELSE cs[c].user
<1>0. /\ u.type \in UpdateTypes /\ u.id \in CommentIds /\ u.user \in Users /\ u.assigned \in Users
    BY DEF CommentUpdates
<1>1. /\ cs[u.id] \in CommentEntries /\ cs[u.id].user \in Users /\ cs[u.id].assigned \in Users
      /\ cs[u.id].answers \subseteq Readers /\ cs[u.id].answered \in BOOLEAN
    BY <1>0 DEF States, CommentEntries
<1>2. ASSUME NEW e \in CommentEntries
      PROVE  /\ [cs EXCEPT ![u.id] = e] \in States
             /\ [cs EXCEPT ![u.id] = e][u.id] = e
             /\ \A c \in CommentIds : c # u.id => [cs EXCEPT ![u.id] = e][c] = cs[c]
    BY <1>0, <1>2 DEF States
<1>3. CASE MissingFor(cs, u)
    BY <1>0, <1>3 DEF Passing, MissingFor, IsThere
<1>4. CASE ~MissingFor(cs, u)
  <2>0. Passing(cs, u) = Changed(cs, u)
    BY <1>4 DEF Passing
  <2>1. CASE u.type = "create"
    <3> DEFINE e == [NoComment EXCEPT !.user = u.user, !.assigned = u.assigned]
    <3>1. e \in CommentEntries /\ e.user = u.user
        BY <1>0 DEF NoComment, CommentEntries, Users
    <3>2. Passing(cs, u) = [cs EXCEPT ![u.id] = e]
        BY <2>0, <2>1 DEF Changed
    <3>3. /\ [cs EXCEPT ![u.id] = e] \in States
          /\ [cs EXCEPT ![u.id] = e][u.id] = e
          /\ \A c \in CommentIds : c # u.id => [cs EXCEPT ![u.id] = e][c] = cs[c]
        BY <3>1, <1>2
    <3> HIDE DEF e
    <3> QED
        BY <3>1, <3>2, <3>3, <2>1
  <2>2. CASE u.type = "delete"
    <3>1. NoComment \in CommentEntries /\ NoComment.user = "nobody"
        BY DEF NoComment, CommentEntries, Users
    <3>2. Passing(cs, u) = [cs EXCEPT ![u.id] = NoComment]
        BY <2>0, <2>2 DEF Changed
    <3>3. /\ [cs EXCEPT ![u.id] = NoComment] \in States
          /\ [cs EXCEPT ![u.id] = NoComment][u.id] = NoComment
          /\ \A c \in CommentIds : c # u.id => [cs EXCEPT ![u.id] = NoComment][c] = cs[c]
        BY <3>1, <1>2
    <3> QED
        BY <3>1, <3>2, <3>3, <2>2
  <2>3. CASE u.type = "update"
    <3> DEFINE e == [cs[u.id] EXCEPT !.assigned = u.assigned]
    <3>1. e \in CommentEntries /\ e.user = cs[u.id].user
        BY <1>0, <1>1 DEF CommentEntries
    <3>2. Passing(cs, u) = [cs EXCEPT ![u.id] = e]
        BY <2>0, <2>3 DEF Changed
    <3>3. /\ [cs EXCEPT ![u.id] = e] \in States
          /\ [cs EXCEPT ![u.id] = e][u.id] = e
          /\ \A c \in CommentIds : c # u.id => [cs EXCEPT ![u.id] = e][c] = cs[c]
        BY <3>1, <1>2
    <3> HIDE DEF e
    <3> QED
        BY <3>1, <3>2, <3>3, <2>3
  <2>4. CASE u.type = "add_answer"
    <3> DEFINE e == [cs[u.id] EXCEPT !.answers = @ \cup {u.user}, !.answered = TRUE]
    <3>1. e \in CommentEntries /\ e.user = cs[u.id].user
        BY <1>0, <1>1, <2>4 DEF CommentEntries
    <3>2. Passing(cs, u) = [cs EXCEPT ![u.id] = e]
        BY <2>0, <2>4, <1>0 DEF Changed, States
    <3>3. /\ [cs EXCEPT ![u.id] = e] \in States
          /\ [cs EXCEPT ![u.id] = e][u.id] = e
          /\ \A c \in CommentIds : c # u.id => [cs EXCEPT ![u.id] = e][c] = cs[c]
        BY <3>1, <1>2
    <3> HIDE DEF e
    <3> QED
        BY <3>1, <3>2, <3>3, <2>4
  <2>5. CASE u.type = "delete_answer"
    <3> DEFINE e == [cs[u.id] EXCEPT !.answers = {}]
    <3>1. e \in CommentEntries /\ e.user = cs[u.id].user
        BY <1>0, <1>1 DEF CommentEntries
    <3>2. Passing(cs, u) = [cs EXCEPT ![u.id] = e]
        BY <2>0, <2>5 DEF Changed
    <3>3. /\ [cs EXCEPT ![u.id] = e] \in States
          /\ [cs EXCEPT ![u.id] = e][u.id] = e
          /\ \A c \in CommentIds : c # u.id => [cs EXCEPT ![u.id] = e][c] = cs[c]
        BY <3>1, <1>2
    <3> HIDE DEF e
    <3> QED
        BY <3>1, <3>2, <3>3, <2>5
  <2>6. CASE u.type = "update_answer"
    BY <2>0, <2>6 DEF Changed
  <2> QED
    BY <1>0, <2>1, <2>2, <2>3, <2>4, <2>5, <2>6 DEF UpdateTypes
<1> QED
    BY <1>3, <1>4

\* An update that may be told from a state that fits its author.
Sound(u, author) ==
    /\ u \in CommentUpdates
    /\ u.type \in {"create", "add_answer"} => u.user \in Readers
    /\ u.type = "create" => u.user = author[u.id]

LEMMA GoodEntries ==
    ASSUME NEW author, NEW cu, Good(cu, author)
    PROVE  /\ Len(cu) \in {0, 1, 2}
           /\ Len(cu) # 0 => Sound(cu[1], author)
           /\ Len(cu) = 2 => Sound(cu[2], author)
<1>1. /\ cu \in Seq(CommentUpdates) /\ Len(cu) \in {0, 1, 2}
      /\ \A k \in 1..Len(cu) :
           /\ cu[k].type \in {"create", "add_answer"} => cu[k].user \in Readers
           /\ cu[k].type = "create" => cu[k].user = author[cu[k].id]
    BY DEF Good
<1>2. \A k \in 1..Len(cu) : Sound(cu[k], author)
    BY <1>1 DEF Sound
<1>3. Len(cu) # 0 => 1 \in 1..Len(cu)
    BY <1>1
<1>4. Len(cu) = 2 => 2 \in 1..Len(cu)
    BY <1>1
<1> QED
    BY <1>1, <1>2, <1>3, <1>4

LEMMA GoodOne ==
    ASSUME NEW author, NEW u, Sound(u, author)
    PROVE  Good(<<u>>, author) /\ Len(<<u>>) = 1 /\ <<u>>[1] = u
<1>1. u \in CommentUpdates
    BY DEF Sound
<1>2. <<u>> \in Seq(CommentUpdates) /\ Len(<<u>>) = 1 /\ <<u>>[1] = u
    BY <1>1
<1>3. \A k \in 1..Len(<<u>>) : k = 1
    BY <1>2
<1> QED
    BY <1>2, <1>3 DEF Good, Sound

LEMMA GoodTwo ==
    ASSUME NEW author, NEW u, NEW w, Sound(u, author), Sound(w, author)
    PROVE  LET s == Append(<<u>>, w) IN
           Good(s, author) /\ Len(s) = 2 /\ s[1] = u /\ s[2] = w
<1> DEFINE s == Append(<<u>>, w)
<1>1. <<u>> \in Seq(CommentUpdates) /\ Len(<<u>>) = 1 /\ <<u>>[1] = u /\ w \in CommentUpdates
    BY DEF Sound
<1>2. /\ s \in Seq(CommentUpdates) /\ Len(s) = 2 /\ s[1] = u /\ s[2] = w
    BY <1>1, AppendProperties
<1> HIDE DEF s
<1>3. \A k \in 1..Len(s) : k = 1 \/ k = 2
    BY <1>2
<1>4. Good(s, author)
    BY <1>2, <1>3 DEF Good, Sound
<1> QED
    BY <1>2, <1>4 DEF s

LEMMA GoodNone ==
    ASSUME NEW author
    PROVE  Good(<<>>, author) /\ Len(<<>>) = 0
<1>1. <<>> \in Seq(CommentUpdates) /\ Len(<<>>) = 0
    OBVIOUS
<1>2. \A k \in 1..Len(<<>>) : FALSE
    BY <1>1
<1> QED
    BY <1>1, <1>2 DEF Good

\* One update more fits.
LEMMA PassingFits ==
    ASSUME NEW author, NEW cs, Fits(cs, author), NEW u, Sound(u, author)
    PROVE  Fits(Passing(cs, u), author)
<1>1. /\ cs \in States /\ u \in CommentUpdates
      /\ u.type \in {"create", "add_answer"} => u.user \in Readers
      /\ u.type = "create" => u.user = author[u.id]
      /\ \A c \in CommentIds : cs[c].user \in {author[c], "nobody"}
    BY DEF Fits, Sound
<1>2. /\ Passing(cs, u) \in States
      /\ \A c \in CommentIds : Passing(cs, u)[c].user =
             IF c # u.id THEN cs[c].user
             ELSE IF u.type = "create" THEN u.user
             ELSE IF u.type = "delete" THEN "nobody"
             ELSE cs[c].user
    BY <1>1, PassingUser
<1> QED
    BY <1>1, <1>2 DEF Fits

\* One update leaves two copies alike.
LEMMA PassingAlike ==
    ASSUME NEW author, NEW p \in Readers, NEW cs, NEW ct, Fits(cs, author), Fits(ct, author),
           OwnAlike(cs, ct, p), NEW u, Sound(u, author)
    PROVE  OwnAlike(Passing(cs, u), Passing(ct, u), p)
<1>1. /\ cs \in States /\ ct \in States /\ u \in CommentUpdates
      /\ u.type \in {"create", "add_answer"} => u.user \in Readers
    BY DEF Fits, Sound
<1>2. \A c \in CommentIds : Passing(cs, u)[c].user =
             IF c # u.id THEN cs[c].user
             ELSE IF u.type = "create" THEN u.user
             ELSE IF u.type = "delete" THEN "nobody"
             ELSE cs[c].user
    BY <1>1, PassingUser
<1>3. \A c \in CommentIds : Passing(ct, u)[c].user =
             IF c # u.id THEN ct[c].user
             ELSE IF u.type = "create" THEN u.user
             ELSE IF u.type = "delete" THEN "nobody"
             ELSE ct[c].user
    BY <1>1, PassingUser
<1>4. ASSUME NEW c \in CommentIds
      PROVE  Passing(cs, u)[c].user = p <=> Passing(ct, u)[c].user = p
  <2>1. cs[c].user = p <=> ct[c].user = p
    BY DEF OwnAlike
  <2>2. /\ Passing(cs, u)[c].user =
             IF c # u.id THEN cs[c].user
             ELSE IF u.type = "create" THEN u.user
             ELSE IF u.type = "delete" THEN "nobody"
             ELSE cs[c].user
        /\ Passing(ct, u)[c].user =
             IF c # u.id THEN ct[c].user
             ELSE IF u.type = "create" THEN u.user
             ELSE IF u.type = "delete" THEN "nobody"
             ELSE ct[c].user
    BY <1>2, <1>3
  <2> QED
    BY <2>1, <2>2
<1> QED
    BY <1>4 DEF OwnAlike

\* An update that p is not shown changes nothing in its own comments.
LEMMA HiddenAlike ==
    ASSUME NEW author, NEW p \in Readers, NEW cs, Fits(cs, author), NEW u, Sound(u, author),
           ~EntryVisible(u, p, cs), NEW ct, Fits(ct, author)
    PROVE  OwnAlike(ct, Passing(ct, u), p)
<1>1. /\ ct \in States /\ u \in CommentUpdates
      /\ u.type \in {"create", "add_answer"} => u.user \in Readers
      /\ u.type = "create" => u.user = author[u.id]
      /\ \A c \in CommentIds : ct[c].user \in {author[c], "nobody"}
      /\ \A c \in CommentIds : cs[c].user \in {author[c], "nobody"}
    BY DEF Fits, Sound
<1>2. \A c \in CommentIds : Passing(ct, u)[c].user =
             IF c # u.id THEN ct[c].user
             ELSE IF u.type = "create" THEN u.user
             ELSE IF u.type = "delete" THEN "nobody"
             ELSE ct[c].user
    BY <1>1, PassingUser
<1>3. u.user # p
    BY DEF EntryVisible, OfUser
<1>4. u.id \in CommentIds /\ p # "nobody"
    BY <1>1, CommentsAssumption DEF CommentUpdates
<1>5. u.type = "delete" => author[u.id] # p
    BY <1>1, <1>4 DEF EntryVisible, IsThere
<1>6. u.type = "create" => author[u.id] # p
    BY <1>1, <1>3
<1>7. ASSUME NEW c \in CommentIds
      PROVE  ct[c].user = p <=> Passing(ct, u)[c].user = p
  <2>1. CASE c # u.id
    BY <1>2, <2>1
  <2>2. CASE c = u.id
    BY <1>1, <1>2, <1>3, <1>4, <1>5, <1>6, <2>2
  <2> QED
    BY <2>1, <2>2
<1> QED
    BY <1>7 DEF OwnAlike

LEMMA AlikeOver ==
    ASSUME NEW p, NEW cs, NEW ct, NEW cu, OwnAlike(cs, ct, p), OwnAlike(ct, cu, p)
    PROVE  OwnAlike(cs, cu, p)
  BY DEF OwnAlike

\* A step for a copy that is told the update only when p may see it.
LEMMA ShownAlike ==
    ASSUME NEW author, NEW p \in Readers, NEW cs, Fits(cs, author), NEW u, Sound(u, author),
           NEW sight, NEW ct, Fits(sight, author), Fits(ct, author), OwnAlike(sight, ct, p)
    PROVE  /\ EntryVisible(u, p, cs) => OwnAlike(Passing(sight, u), Passing(ct, u), p)
           /\ ~EntryVisible(u, p, cs) => OwnAlike(sight, Passing(ct, u), p)
<1>1. OwnAlike(Passing(sight, u), Passing(ct, u), p)
    BY PassingAlike
<1>2. ASSUME ~EntryVisible(u, p, cs)
      PROVE  OwnAlike(sight, Passing(ct, u), p)
  <2>1. OwnAlike(ct, Passing(ct, u), p)
    BY <1>2, HiddenAlike
  <2> QED
    BY <2>1, AlikeOver
<1> QED
    BY <1>1, <1>2

\* Updates leave what fits fitting, and two copies alike.
LEMMA UpdatedFits ==
    ASSUME NEW author, NEW cs, Fits(cs, author), NEW cu, Good(cu, author)
    PROVE  Fits(Native_Updated(cs, cu), author)
<1>1. /\ Len(cu) \in {0, 1, 2}
      /\ Len(cu) # 0 => Sound(cu[1], author)
      /\ Len(cu) = 2 => Sound(cu[2], author)
    BY GoodEntries
<1>2. Len(cu) # 0 => Fits(Passing(cs, cu[1]), author)
    BY <1>1, PassingFits
<1>3. Len(cu) = 2 => Fits(Passing(Passing(cs, cu[1]), cu[2]), author)
    BY <1>1, <1>2, PassingFits
<1> QED
    BY <1>1, <1>2, <1>3, Runs

LEMMA UpdatedAlike ==
    ASSUME NEW author, NEW p \in Readers, NEW cs, NEW ct, Fits(cs, author), Fits(ct, author),
           OwnAlike(cs, ct, p), NEW cu, Good(cu, author)
    PROVE  OwnAlike(Native_Updated(cs, cu), Native_Updated(ct, cu), p)
<1>1. /\ Len(cu) \in {0, 1, 2}
      /\ Len(cu) # 0 => Sound(cu[1], author)
      /\ Len(cu) = 2 => Sound(cu[2], author)
    BY GoodEntries
<1>2. Len(cu) # 0 => /\ Fits(Passing(cs, cu[1]), author)
                     /\ Fits(Passing(ct, cu[1]), author)
                     /\ OwnAlike(Passing(cs, cu[1]), Passing(ct, cu[1]), p)
    BY <1>1, PassingFits, PassingAlike
<1>3. Len(cu) = 2 => OwnAlike(Passing(Passing(cs, cu[1]), cu[2]),
                              Passing(Passing(ct, cu[1]), cu[2]), p)
    BY <1>1, <1>2, PassingAlike
<1>4. /\ Len(cu) = 0 => Native_Updated(cs, cu) = cs /\ Native_Updated(ct, cu) = ct
      /\ Len(cu) = 1 => /\ Native_Updated(cs, cu) = Passing(cs, cu[1])
                        /\ Native_Updated(ct, cu) = Passing(ct, cu[1])
      /\ Len(cu) = 2 => /\ Native_Updated(cs, cu) = Passing(Passing(cs, cu[1]), cu[2])
                        /\ Native_Updated(ct, cu) = Passing(Passing(ct, cu[1]), cu[2])
    BY <1>1, Runs
<1> QED
    BY <1>1, <1>2, <1>3, <1>4

\* What p is shown of a diff is a diff.
LEMMA VisibleGood ==
    ASSUME NEW author, NEW p, NEW cs, NEW cu, Good(cu, author)
    PROVE  Good(VisibleUpdates(cu, p, cs), author)
<1>1. /\ Len(cu) \in {0, 1, 2}
      /\ Len(cu) # 0 => Sound(cu[1], author)
      /\ Len(cu) = 2 => Sound(cu[2], author)
    BY GoodEntries
<1>2. VisibleUpdates(cu, p, cs) =
          IF Len(cu) = 0 THEN <<>>
          ELSE IF Len(cu) = 1 THEN FirstVisible(cu, p, cs)
          ELSE BothVisible(cu, p, cs)
    BY <1>1, Visible
<1>3. Good(<<>>, author)
    BY GoodNone
<1>4. Len(cu) # 0 => Good(FirstVisible(cu, p, cs), author)
    BY <1>1, <1>3, GoodOne DEF FirstVisible
<1>5. Len(cu) = 2 => Good(BothVisible(cu, p, cs), author)
  <2>1. ASSUME Len(cu) = 2, EntryVisible(cu[2], p, cs), EntryVisible(cu[1], p, cs)
        PROVE  Good(BothVisible(cu, p, cs), author)
    <3>1. BothVisible(cu, p, cs) = Append(<<cu[1]>>, cu[2])
        BY <2>1 DEF BothVisible, FirstVisible
    <3> QED
        BY <3>1, <1>1, <2>1, GoodTwo
  <2>2. ASSUME Len(cu) = 2, EntryVisible(cu[2], p, cs), ~EntryVisible(cu[1], p, cs)
        PROVE  Good(BothVisible(cu, p, cs), author)
    <3>1. BothVisible(cu, p, cs) = Append(<<>>, cu[2])
        BY <2>2 DEF BothVisible, FirstVisible
    <3>2. Append(<<>>, cu[2]) = <<cu[2]>>
        OBVIOUS
    <3> QED
        BY <3>1, <3>2, <1>1, <2>2, GoodOne
  <2>3. ASSUME Len(cu) = 2, ~EntryVisible(cu[2], p, cs)
        PROVE  Good(BothVisible(cu, p, cs), author)
    BY <2>3, <1>4 DEF BothVisible
  <2> QED
    BY <2>1, <2>2, <2>3
<1> QED
    BY <1>1, <1>2, <1>3, <1>4, <1>5

\* A copy that is told what p may see stays like the one that is told all.
LEMMA VisibleAlike ==
    ASSUME NEW author, NEW p \in Readers, NEW cs, Fits(cs, author), NEW cu, Good(cu, author),
           NEW sight, NEW ct, Fits(sight, author), Fits(ct, author), OwnAlike(sight, ct, p)
    PROVE  OwnAlike(Native_Updated(sight, VisibleUpdates(cu, p, cs)), Native_Updated(ct, cu), p)
<1> DEFINE u == cu[1]
           w == cu[2]
           shown == VisibleUpdates(cu, p, cs)
<1>1. /\ Len(cu) \in {0, 1, 2}
      /\ Len(cu) # 0 => Sound(u, author)
      /\ Len(cu) = 2 => Sound(w, author)
    BY GoodEntries
<1>2. /\ Len(cu) = 0 => shown = <<>>
      /\ Len(cu) = 1 => shown = FirstVisible(cu, p, cs)
      /\ Len(cu) = 2 => shown = BothVisible(cu, p, cs)
    BY <1>1, Visible
<1>3. /\ Len(cu) = 0 => Native_Updated(ct, cu) = ct
      /\ Len(cu) = 1 => Native_Updated(ct, cu) = Passing(ct, u)
      /\ Len(cu) = 2 => Native_Updated(ct, cu) = Passing(Passing(ct, u), w)
    BY <1>1, Runs
<1>4. Native_Updated(sight, <<>>) = sight
    BY GoodNone, Runs
<1>5. ASSUME NEW x, Sound(x, author)
      PROVE  Native_Updated(sight, <<x>>) = Passing(sight, x)
  <2>1. Len(<<x>>) = 1 /\ <<x>>[1] = x
    BY <1>5, GoodOne
  <2> QED
    BY <2>1, Runs
<1>6. ASSUME Len(cu) # 0, EntryVisible(u, p, cs)
      PROVE  OwnAlike(Passing(sight, u), Passing(ct, u), p)
    BY <1>1, <1>6, ShownAlike
<1>7. ASSUME Len(cu) # 0, ~EntryVisible(u, p, cs)
      PROVE  OwnAlike(sight, Passing(ct, u), p)
    BY <1>1, <1>7, ShownAlike
<1>8. Len(cu) # 0 => Fits(Passing(sight, u), author) /\ Fits(Passing(ct, u), author)
    BY <1>1, PassingFits
<1>9. CASE Len(cu) = 0
    BY <1>2, <1>3, <1>4, <1>9
<1>10. CASE Len(cu) = 1
  <2>1. CASE EntryVisible(u, p, cs)
    <3>1. shown = <<u>>
        BY <1>2, <1>10, <2>1 DEF FirstVisible
    <3> QED
        BY <3>1, <1>1, <1>3, <1>5, <1>6, <1>10, <2>1
  <2>2. CASE ~EntryVisible(u, p, cs)
    <3>1. shown = <<>>
        BY <1>2, <1>10, <2>2 DEF FirstVisible
    <3> QED
        BY <3>1, <1>3, <1>4, <1>7, <1>10, <2>2
  <2> QED
    BY <2>1, <2>2
<1>11. CASE Len(cu) = 2
  <2>0. Native_Updated(ct, cu) = Passing(Passing(ct, u), w)
    BY <1>3, <1>11
  <2>1. CASE EntryVisible(u, p, cs) /\ EntryVisible(w, p, cs)
    <3>1. shown = Append(<<u>>, w)
        BY <1>2, <1>11, <2>1 DEF FirstVisible, BothVisible
    <3>2. LET s == Append(<<u>>, w) IN Len(s) = 2 /\ s[1] = u /\ s[2] = w
        BY <1>1, <1>11, GoodTwo
    <3>3. Native_Updated(sight, shown) = Passing(Passing(sight, u), w)
      <4> HIDE DEF u, w, shown
      <4>1. Len(shown) = 2 /\ shown[1] = u /\ shown[2] = w
        BY <3>1, <3>2
      <4> QED
        BY <4>1, Runs
    <3>4. OwnAlike(Passing(Passing(sight, u), w), Passing(Passing(ct, u), w), p)
        BY <1>1, <1>6, <1>8, <1>11, <2>1, ShownAlike
    <3> QED
        BY <2>0, <3>3, <3>4
  <2>2. CASE EntryVisible(u, p, cs) /\ ~EntryVisible(w, p, cs)
    <3>1. shown = <<u>>
        BY <1>2, <1>11, <2>2 DEF FirstVisible, BothVisible
    <3>2. OwnAlike(Passing(sight, u), Passing(Passing(ct, u), w), p)
        BY <1>1, <1>6, <1>8, <1>11, <2>2, ShownAlike
    <3> QED
        BY <2>0, <3>1, <3>2, <1>1, <1>5, <1>11
  <2>3. CASE ~EntryVisible(u, p, cs) /\ EntryVisible(w, p, cs)
    <3>1. shown = Append(<<>>, w)
        BY <1>2, <1>11, <2>3 DEF FirstVisible, BothVisible
    <3>2. Append(<<>>, w) = <<w>>
        OBVIOUS
    <3>3. OwnAlike(Passing(sight, w), Passing(Passing(ct, u), w), p)
        BY <1>1, <1>7, <1>8, <1>11, <2>3, ShownAlike
    <3> QED
        BY <2>0, <3>1, <3>2, <3>3, <1>1, <1>5, <1>11
  <2>4. CASE ~EntryVisible(u, p, cs) /\ ~EntryVisible(w, p, cs)
    <3>1. shown = <<>>
        BY <1>2, <1>11, <2>4 DEF FirstVisible, BothVisible
    <3>2. OwnAlike(sight, Passing(Passing(ct, u), w), p)
        BY <1>1, <1>7, <1>8, <1>11, <2>4, ShownAlike
    <3> QED
        BY <2>0, <3>1, <3>2, <1>4
  <2> QED
    BY <2>1, <2>2, <2>3, <2>4
<1> QED
    BY <1>1, <1>9, <1>10, <1>11

\* The updates of a diff, taken by a reader who sees what it may of the comments, let it
\* see what it may of them afterwards: as they are sent to it ...
LEMMA FilteredGood ==
    ASSUME NEW author, NEW p, NEW cs, NEW cu, Good(cu, author)
    PROVE  Good(FilterUpdates(cu, p, cs), author)
<1>1. Good(VisibleUpdates(cu, p, cs), author) /\ Good(<<>>, author)
    BY VisibleGood, GoodNone
<1> QED
    BY <1>1 DEF FilterUpdates, Good

LEMMA ServedUpdates ==
    ASSUME NEW author, NEW p \in Readers, NEW cs, Fits(cs, author), NEW cu, Good(cu, author),
           NEW sight, NEW ct, Fits(sight, author), Fits(ct, author), Agree(p, sight, ct)
    PROVE  LET now == Native_Updated(sight, FilterUpdates(cu, p, cs)) IN
           Fits(now, author) /\ Agree(p, now, Native_Updated(ct, cu))
<1> DEFINE now == Native_Updated(sight, FilterUpdates(cu, p, cs))
<1>1. Fits(now, author)
    BY FilteredGood, UpdatedFits
<1>2. CASE Blind(p)
  <2>1. FilterUpdates(cu, p, cs) = <<>>
    BY <1>2 DEF Blind, FilterUpdates, ReviewRights
  <2>2. Native_Updated(sight, <<>>) = sight
    BY GoodNone, Runs
  <2> QED
    BY <1>1, <1>2, <2>1, <2>2 DEF Agree
<1>3. CASE ~Blind(p) /\ Reviews(p)
  <2>1. FilterUpdates(cu, p, cs) = VisibleUpdates(cu, p, cs)
    BY <1>3 DEF Blind, Reviews, FilterUpdates
  <2>2. OwnAlike(now, Native_Updated(ct, cu), p)
    BY <1>3, <2>1, VisibleAlike DEF Agree
  <2> QED
    BY <1>1, <1>3, <2>2 DEF Agree
<1>4. CASE ~Blind(p) /\ ~Reviews(p)
  <2>1. FilterUpdates(cu, p, cs) = cu
    BY <1>4 DEF Blind, Reviews, FilterUpdates
  <2> QED
    BY <1>1, <1>4, <2>1 DEF Agree
<1> QED
    BY <1>2, <1>3, <1>4

\* ... and all of them, when they are its own.
LEMMA Confirming ==
    ASSUME NEW author, NEW p \in Readers, ~Blind(p), NEW cu, Good(cu, author),
           NEW sight, NEW ct, Fits(sight, author), Fits(ct, author), Agree(p, sight, ct)
    PROVE  LET now == Native_Updated(sight, cu) IN
           Fits(now, author) /\ Agree(p, now, Native_Updated(ct, cu))
<1>1. Fits(Native_Updated(sight, cu), author)
    BY UpdatedFits
<1>2. CASE Reviews(p)
    BY <1>1, <1>2, UpdatedAlike DEF Agree
<1>3. CASE ~Reviews(p)
    BY <1>1, <1>3 DEF Agree
<1> QED
    BY <1>2, <1>3

\* A document that is loaded has what its reader may see.
LEMMA ShownAgree ==
    ASSUME NEW author, NEW p \in Readers, NEW cs, Fits(cs, author)
    PROVE  Fits(Shown(cs, p), author) /\ Agree(p, Shown(cs, p), cs)
<1>1. /\ cs \in States
      /\ \A c \in CommentIds : cs[c].user \in {author[c], "nobody"}
    BY DEF Fits
<1>2. NoComment \in CommentEntries /\ NoComment.user = "nobody"
    BY DEF NoComment, CommentEntries, Users
<1>3. CASE Blind(p)
  <2>1. Shown(cs, p) = [c \in CommentIds |-> NoComment]
    BY <1>3 DEF Blind, Shown, ReviewRights
  <2> QED
    BY <1>2, <1>3, <2>1 DEF Fits, Agree, States
<1>4. CASE ~Blind(p) /\ Reviews(p)
  <2>1. Shown(cs, p) = [c \in CommentIds |-> IF OfUser(cs[c], p) THEN cs[c] ELSE NoComment]
    BY <1>4 DEF Blind, Reviews, Shown
  <2>2. p # "nobody"
    BY CommentsAssumption
  <2>3. OwnAlike(Shown(cs, p), cs, p)
    BY <1>2, <2>1, <2>2 DEF OwnAlike, OfUser
  <2>4. Fits(Shown(cs, p), author)
    BY <1>1, <1>2, <2>1 DEF Fits, States
  <2> QED
    BY <1>4, <2>3, <2>4 DEF Agree
<1>5. CASE ~Blind(p) /\ ~Reviews(p)
  <2>1. Shown(cs, p) = cs
    BY <1>5 DEF Blind, Reviews, Shown
  <2> QED
    BY <1>5, <2>1 DEF Agree
<1> QED
    BY <1>3, <1>4, <1>5

\* What is on its way.
Diffs == [v : Nat, updates : Seq(CommentUpdates), has : {"none", "marks", "text", "title"},
          saves : BOOLEAN]
Messages ==
    {Refetch} \cup [type : {"confirm_diff"}, v : Nat, updates : Seq(CommentUpdates)]
              \cup [type : {"diff"}, v : Nat, updates : Seq(CommentUpdates), fix : BOOLEAN]
Copies == [at : Nat, sees : States, updates : Seq(CommentUpdates), waits : BOOLEAN, up : BOOLEAN]

\* A diff of p's own: who only reviews changes its own comments only.
Mine(p, cu, author) ==
    /\ Good(cu, author) /\ ~Blind(p)
    /\ Reviews(p) => \A k \in 1..Len(cu) :
          IF cu[k].type = "delete" THEN author[cu[k].id] = p ELSE cu[k].user = p

\* The history: the diffs by version, and the comments before and after each.
History(author, hist, st) ==
    /\ author \in [CommentIds -> Users]
    /\ \A c \in CommentIds : author[c] # "nobody" => c \in named
    /\ docVersion \in Nat
    /\ \A v \in Nat : v < docVersion => Good(hist[v].updates, author)
    /\ \A v \in Nat : v <= docVersion => Fits(st[v], author)
    /\ \A v \in Nat : v < docVersion => st[v + 1] = Native_Updated(st[v], hist[v].updates)

\* The session keeps the last diffs, and has the comments of its version; while a title is
\* saved, those of the one before.
Kept(hist) ==
    /\ docDiffs \in Seq(Diffs) /\ Len(docDiffs) <= docVersion
    /\ \A k \in 1..Len(docDiffs) :
        /\ docDiffs[k].v = docVersion - Len(docDiffs) + k - 1
        /\ docDiffs[k].updates = hist[docDiffs[k].v].updates

Current(st) == comments = st[IF MidTurn THEN docVersion - 1 ELSE docVersion]

\* The reader's copy is of some version that there was.
CopyFits(p, author, st) ==
    /\ reader[p] \in Copies
    /\ reader[p].at <= docVersion
    /\ Fits(reader[p].sees, author) /\ Agree(p, reader[p].sees, st[reader[p].at])
    /\ reader[p].updates # <<>> => Mine(p, reader[p].updates, author)

SentFits(p, author) ==
    upstream[p] # NoDiff =>
        /\ upstream[p] \in Diffs /\ upstream[p].v <= docVersion
        /\ Mine(p, upstream[p].updates, author)

\* A diff that was accepted is in the history.
Accepted(p, d, hist) ==
    d.v < docVersion /\ hist[d.v].by = p /\ hist[d.v].updates = d.updates /\ ~Blind(p)

TurnFits(p, author, hist) ==
    /\ turn[p] # Resting => turn[p].diff \in Diffs /\ turn[p].step \in {"title", "push", "tell"}
    /\ turn[p].step = "title" =>
          engine = "python" /\ Accepted(p, turn[p].diff, hist) /\ turn[p].diff.v = docVersion - 1
    /\ turn[p].step = "tell" => Accepted(p, turn[p].diff, hist)
    /\ turn[p].step = "push" =>
          /\ engine = "native" /\ turn[p] = [step |-> "push", diff |-> turn[p].diff]
          /\ turn[p].diff.v <= docVersion /\ Mine(p, turn[p].diff.updates, author)

\* A message tells of the history; nobody is told of its own diff as of another's.
MessageFits(p, m, author, hist) ==
    m.type # "refetch_doc" =>
        /\ m.v < docVersion
        /\ m.type = "confirm_diff" => Accepted(p, m, hist)
        /\ m.type = "diff" =>
              /\ ~m.fix => hist[m.v].by # p
              /\ \E cs \in States : Fits(cs, author) /\
                    m.updates = FilterUpdates(hist[m.v].updates, p, cs)
Truths(p, author, hist) == {m \in Messages : MessageFits(p, m, author, hist)}

\* Who waits for the answer to a diff will have it, or is not heard.
Unheard(p) == p \in unheard /\ readerRights[p] \in CommentOnly
Ends(m) == m.type = "refetch_doc" \/ (m.type = "diff" /\ m.fix)
Confirms(p, m) == m.type = "confirm_diff" /\ m.v = reader[p].at /\ m.updates = reader[p].updates
AnswerComes(p) ==
    reader[p].up /\ reader[p].waits =>
        \/ Unheard(p)
        \/ /\ upstream[p] # NoDiff
           /\ upstream[p].v <= reader[p].at /\ upstream[p].updates = reader[p].updates
        \/ /\ turn[p] # Resting /\ turn[p].diff.updates = reader[p].updates
           /\ turn[p].diff.v <= reader[p].at
           /\ turn[p].step # "push" => turn[p].diff.v = reader[p].at
        \/ \E j \in 1..Len(wire[p]) : Ends(wire[p][j]) \/ Confirms(p, wire[p][j])

OneTitle == \A p, q \in Readers : turn[p].step = "title" /\ turn[q].step = "title" => p = q

Shaped(f) == f = [p \in Readers |-> f[p]]
Shapes == Shaped(reader) /\ Shaped(upstream) /\ Shaped(wire) /\ Shaped(turn)

ReaderInv(p, author, hist, st) ==
    /\ CopyFits(p, author, st) /\ SentFits(p, author) /\ TurnFits(p, author, hist)
    /\ wire[p] \in Seq(Truths(p, author, hist))
    /\ AnswerComes(p)

FollowsHistory(author, hist, st) ==
    /\ engine \in {"python", "native"} /\ readerRights \in [Readers -> AllRights] /\ Shapes
    /\ History(author, hist, st) /\ Kept(hist) /\ Current(st) /\ OneTitle
    /\ \A p \in Readers : ReaderInv(p, author, hist, st)

CommentsInv == ~disturbed => \E author, hist, st : FollowsHistory(author, hist, st)

\* What the invariant is for.
LEMMA CommentsInvFollow == CommentsInv => CommentsFollow
<1> SUFFICES ASSUME CommentsInv, ~disturbed, \A q \in Readers : turn[q] = Resting
             PROVE  CopiesAgree /\ EveryDiffAnswered
    BY DEF CommentsFollow
<1>1. PICK author, hist, st : FollowsHistory(author, hist, st)
    BY DEF CommentsInv
<1>2. ~MidTurn
    BY DEF MidTurn, Resting
<1>3. comments = st[docVersion]
    BY <1>1, <1>2 DEF FollowsHistory, Current
<1>4. ASSUME NEW p \in Readers
      PROVE  ReaderInv(p, author, hist, st)
    BY <1>1 DEF FollowsHistory
<1>5. docVersion \in Nat /\ Fits(comments, author)
    BY <1>1, <1>3 DEF FollowsHistory, History
<1>6. CopiesAgree
  <2> SUFFICES ASSUME NEW p \in Readers, HasVersion(p)
               PROVE  IF readerRights[p] \in ReviewRights
                      THEN \A c \in CommentIds :
                               comments[c].user = p <=> reader[p].sees[c].user = p
                      ELSE reader[p].sees = Shown(comments, p)
    BY DEF CopiesAgree
  <2>1. Agree(p, reader[p].sees, comments)
    BY <1>3, <1>4 DEF ReaderInv, CopyFits, HasVersion
  <2>2. CASE readerRights[p] \in ReviewRights
    <3>1. Reviews(p) /\ ~Blind(p)
        BY <2>2 DEF Reviews, Blind, ReviewRights
    <3> QED
        BY <2>1, <2>2, <3>1 DEF Agree, OwnAlike
  <2>3. CASE readerRights[p] \notin ReviewRights
    <3>1. ~Reviews(p)
        BY <2>3 DEF Reviews
    <3> QED
        BY <2>1, <2>3, <3>1 DEF Agree, Shown, Blind
  <2> QED
    BY <2>2, <2>3
<1>7. EveryDiffAnswered
  <2> SUFFICES ASSUME NEW p \in Readers, reader[p].up, reader[p].waits, wire[p] = <<>>,
                      upstream[p] = NoDiff, turn[p] = Resting
               PROVE  Unheard(p)
    BY DEF EveryDiffAnswered, Unheard
  <2>1. AnswerComes(p)
    BY <1>4 DEF ReaderInv
  <2>2. ~ \E j \in 1..Len(wire[p]) : TRUE
    OBVIOUS
  <2> QED
    BY <2>1, <2>2 DEF AnswerComes
<1> QED
    BY <1>6, <1>7

\* At first there is one version.
LEMMA CommentsInitInv == ASSUME CommentsInit PROVE CommentsInv
<1>1. PICK a \in Readers : comments =
          [c \in CommentIds |-> IF c \in named THEN [NoComment EXCEPT !.user = a] ELSE NoComment]
    BY DEF CommentsInit
<1> DEFINE author == [c \in CommentIds |-> IF c \in named THEN a ELSE "nobody"]
           hist == [v \in Nat |-> 0]
           st == [v \in Nat |-> comments]
<1>2. [NoComment EXCEPT !.user = a] \in CommentEntries /\ NoComment \in CommentEntries
    BY DEF NoComment, CommentEntries, Users
<1>3. Fits(comments, author)
    BY <1>1, <1>2 DEF Fits, States, NoComment
<1> HIDE DEF author
<1>4. /\ docVersion = 0 /\ docDiffs = <<>> /\ engine \in {"python", "native"}
      /\ readerRights \in RightsChoices
      /\ reader = [p \in Readers |-> [at |-> 0, sees |-> Shown(comments, p), updates |-> <<>>,
                                      waits |-> FALSE, up |-> TRUE]]
      /\ upstream = [p \in Readers |-> NoDiff]
      /\ wire = [p \in Readers |-> <<>>]
      /\ turn = [p \in Readers |-> Resting]
    BY DEF CommentsInit
<1>5. readerRights \in [Readers -> AllRights]
    BY <1>4, CommentsAssumption
<1>6. History(author, hist, st)
  <2>1. author \in [CommentIds -> Users] /\ \A c \in CommentIds : author[c] # "nobody" => c \in named
    BY DEF author, Users
  <2> QED
    BY <2>1, <1>3, <1>4 DEF History
<1>7. Kept(hist)
    BY <1>4 DEF Kept
<1>8. ~MidTurn /\ OneTitle
    BY <1>4 DEF MidTurn, OneTitle, Resting
<1>9. Current(st)
    BY <1>4, <1>8 DEF Current
<1>10. ASSUME NEW p \in Readers
       PROVE  ReaderInv(p, author, hist, st)
  <2>1. Fits(Shown(comments, p), author) /\ Agree(p, Shown(comments, p), comments)
    BY <1>3, ShownAgree
  <2>2. /\ reader[p].at = 0 /\ reader[p].sees = Shown(comments, p) /\ reader[p].updates = <<>>
        /\ reader[p].waits = FALSE /\ reader[p].up = TRUE
        /\ reader[p] = [at |-> 0, sees |-> Shown(comments, p), updates |-> <<>>,
                        waits |-> FALSE, up |-> TRUE]
    BY <1>4
  <2>3. Shown(comments, p) \in States
    BY <2>1 DEF Fits
  <2>4. reader[p] \in Copies
    BY <2>2, <2>3 DEF Copies
  <2>5. CopyFits(p, author, st)
    BY <2>1, <2>2, <2>4, <1>4 DEF CopyFits
  <2>6. upstream[p] = NoDiff /\ turn[p] = Resting /\ wire[p] = <<>>
    BY <1>4
  <2>7. SentFits(p, author) /\ TurnFits(p, author, hist)
    BY <2>6 DEF SentFits, TurnFits, Resting
  <2>8. AnswerComes(p)
    BY <2>2 DEF AnswerComes
  <2> QED
    BY <2>5, <2>6, <2>7, <2>8 DEF ReaderInv
<1>11. Shapes
    BY <1>4 DEF Shapes, Shaped
<1> QED
    BY <1>4, <1>5, <1>6, <1>7, <1>8, <1>9, <1>10, <1>11 DEF FollowsHistory, CommentsInv

\* The history goes on: a step to a later one.
Later(a, b, h, k, s, t) ==
    /\ docVersion \in Nat /\ docVersion' \in Nat /\ docVersion <= docVersion'
    /\ \A v \in Nat : v < docVersion => k[v] = h[v]
    /\ \A v \in Nat : v <= docVersion => t[v] = s[v]
    /\ \A c \in CommentIds : a[c] \in {b[c], "nobody"}
    /\ engine' = engine
    /\ \A q \in Readers :
        /\ Blind(q)' <=> Blind(q)
        /\ Reviews(q)' <=> Reviews(q)
        /\ readerRights[q] = "comment" => readerRights'[q] = "comment"

LEMMA FitsLater ==
    ASSUME NEW a, NEW b, \A c \in CommentIds : a[c] \in {b[c], "nobody"}, NEW cs, Fits(cs, a)
    PROVE  Fits(cs, b)
  BY DEF Fits

LEMMA GoodLater ==
    ASSUME NEW a, NEW b, \A c \in CommentIds : a[c] \in {b[c], "nobody"}, NEW cu, Good(cu, a)
    PROVE  Good(cu, b)
<1>1. /\ cu \in Seq(CommentUpdates) /\ Len(cu) \in {0, 1, 2}
      /\ \A j \in 1..Len(cu) :
           /\ cu[j].type \in {"create", "add_answer"} => cu[j].user \in Readers
           /\ cu[j].type = "create" => cu[j].user = a[cu[j].id]
    BY DEF Good
<1>2. ASSUME NEW j \in 1..Len(cu), cu[j].type = "create"
      PROVE  cu[j].user = b[cu[j].id]
  <2>1. cu[j] \in CommentUpdates
    BY <1>1, ElementOfSeq
  <2>2. cu[j].id \in CommentIds
    BY <2>1 DEF CommentUpdates
  <2>3. cu[j].user # "nobody" /\ cu[j].user = a[cu[j].id]
    BY <1>1, <1>2, CommentsAssumption
  <2> QED
    BY <2>2, <2>3
<1> QED
    BY <1>1, <1>2 DEF Good

LEMMA MineLater ==
    ASSUME NEW a, NEW b, \A c \in CommentIds : a[c] \in {b[c], "nobody"},
           NEW p \in Readers, Blind(p)' <=> Blind(p), Reviews(p)' <=> Reviews(p),
           NEW cu, Mine(p, cu, a)
    PROVE  Mine(p, cu, b)'
<1>1. Good(cu, a) /\ ~Blind(p)
    BY DEF Mine
<1>2. Good(cu, b) /\ cu \in Seq(CommentUpdates)
    BY <1>1, GoodLater DEF Good
<1>3. ASSUME Reviews(p), NEW j \in 1..Len(cu)
      PROVE  IF cu[j].type = "delete" THEN b[cu[j].id] = p ELSE cu[j].user = p
  <2>1. cu[j] \in CommentUpdates
    BY <1>2, ElementOfSeq
  <2>2. cu[j].id \in CommentIds
    BY <2>1 DEF CommentUpdates
  <2>3. IF cu[j].type = "delete" THEN a[cu[j].id] = p ELSE cu[j].user = p
    BY <1>3 DEF Mine
  <2>4. p # "nobody"
    BY CommentsAssumption
  <2> QED
    BY <2>2, <2>3, <2>4
<1>4. Reviews(p)' => Reviews(p)
    OBVIOUS
<1> QED
    BY <1>1, <1>2, <1>3, <1>4 DEF Mine

LEMMA FilterLater ==
    ASSUME NEW p \in Readers, Blind(p)' <=> Blind(p), Reviews(p)' <=> Reviews(p), NEW cu, NEW cs
    PROVE  FilterUpdates(cu, p, cs)' = FilterUpdates(cu, p, cs)
<1>1. FilterUpdates(cu, p, cs) =
          IF Blind(p) THEN <<>> ELSE IF Reviews(p) THEN VisibleUpdates(cu, p, cs) ELSE cu
    BY DEF FilterUpdates, Blind, Reviews, ReviewRights
<1>2. FilterUpdates(cu, p, cs)' =
          IF Blind(p)' THEN <<>> ELSE IF Reviews(p)' THEN VisibleUpdates(cu, p, cs) ELSE cu
    BY DEF FilterUpdates, Blind, Reviews, ReviewRights
<1> QED
    BY <1>1, <1>2

LEMMA TruthsLater ==
    ASSUME NEW a, NEW b, NEW h, NEW k, NEW s, NEW t, Later(a, b, h, k, s, t), NEW p \in Readers
    PROVE  Truths(p, a, h) \subseteq Truths(p, b, k)'
<1>1. /\ docVersion \in Nat /\ docVersion' \in Nat /\ docVersion <= docVersion'
      /\ \A v \in Nat : v < docVersion => k[v] = h[v]
      /\ \A c \in CommentIds : a[c] \in {b[c], "nobody"}
      /\ Blind(p)' <=> Blind(p)
      /\ Reviews(p)' <=> Reviews(p)
    BY DEF Later
<1> SUFFICES ASSUME NEW m \in Messages, MessageFits(p, m, a, h)
             PROVE  MessageFits(p, m, b, k)'
    BY DEF Truths
<1>3. CASE m.type = "refetch_doc"
    BY <1>3 DEF MessageFits
<1>4. CASE m.type # "refetch_doc"
  <2>1. /\ m.v < docVersion
        /\ m.type = "confirm_diff" => Accepted(p, m, h)
        /\ m.type = "diff" => (~m.fix => h[m.v].by # p)
    BY <1>4 DEF MessageFits
  <2>2. m.v \in Nat
    BY <1>4 DEF Messages, Refetch
  <2>3. m.v < docVersion' /\ k[m.v] = h[m.v]
    BY <1>1, <2>1, <2>2
  <2>4. m.type = "confirm_diff" => Accepted(p, m, k)'
    BY <1>1, <2>1, <2>3 DEF Accepted
  <2>5. ASSUME m.type = "diff"
        PROVE  \E cs \in States : Fits(cs, b) /\ m.updates = FilterUpdates(k[m.v].updates, p, cs)'
    <3>1. PICK cs \in States : Fits(cs, a) /\ m.updates = FilterUpdates(h[m.v].updates, p, cs)
        BY <1>4, <2>5 DEF MessageFits
    <3>2. Fits(cs, b)
        BY <1>1, <3>1, FitsLater
    <3>3. FilterUpdates(k[m.v].updates, p, cs)' = FilterUpdates(k[m.v].updates, p, cs)
        BY <1>1, FilterLater
    <3> QED
        BY <2>3, <3>1, <3>2, <3>3
  <2> QED
    BY <2>1, <2>3, <2>4, <2>5 DEF MessageFits
<1> QED
    BY <1>3, <1>4

LEMMA CopyLater ==
    ASSUME NEW a, NEW b, NEW h, NEW k, NEW s, NEW t, Later(a, b, h, k, s, t), NEW p \in Readers,
           CopyFits(p, a, s), reader'[p] = reader[p]
    PROVE  CopyFits(p, b, t)'
<1> DEFINE r == reader[p]
<1>1. /\ r \in Copies /\ r.at <= docVersion /\ Fits(r.sees, a) /\ Agree(p, r.sees, s[r.at])
      /\ r.updates # <<>> => Mine(p, r.updates, a)
    BY DEF CopyFits
<1>2. /\ docVersion \in Nat /\ docVersion' \in Nat /\ docVersion <= docVersion' /\ r.at \in Nat
      /\ t[r.at] = s[r.at]
      /\ \A c \in CommentIds : a[c] \in {b[c], "nobody"}
      /\ Blind(p)' <=> Blind(p)
      /\ Reviews(p)' <=> Reviews(p)
    BY <1>1 DEF Later, Copies
<1>3. PICK x : x = r
    OBVIOUS
<1>4. Fits(x.sees, b)
    BY <1>1, <1>2, <1>3, FitsLater
<1>5. Agree(p, x.sees, t[x.at])'
  <2>1. Agree(p, x.sees, t[x.at])
    BY <1>1, <1>2, <1>3
  <2> QED
    BY <1>2, <2>1 DEF Agree
<1>6. x.updates # <<>> => Mine(p, x.updates, b)'
    BY <1>1, <1>2, <1>3, MineLater
<1>7. x \in Copies /\ x.at <= docVersion'
    BY <1>1, <1>2, <1>3
<1>8. reader'[p] = x
    BY <1>3
<1> HIDE DEF r
<1> QED
    BY <1>4, <1>5, <1>6, <1>7, <1>8 DEF CopyFits

LEMMA DiffVersion == ASSUME NEW d \in Diffs PROVE d.v \in Nat
  BY DEF Diffs

LEMMA SentLater ==
    ASSUME NEW a, NEW b, NEW h, NEW k, NEW s, NEW t, Later(a, b, h, k, s, t), NEW p \in Readers,
           SentFits(p, a), upstream'[p] = upstream[p]
    PROVE  SentFits(p, b)'
<1>1. PICK x : x = upstream[p]
    OBVIOUS
<1>2. CASE x = NoDiff
    BY <1>1, <1>2 DEF SentFits
<1>3. CASE x # NoDiff
  <2>1. x \in Diffs /\ x.v <= docVersion /\ Mine(p, x.updates, a)
    BY <1>1, <1>3 DEF SentFits
  <2>2. Mine(p, x.updates, b)'
    BY <2>1, MineLater DEF Later
  <2>3. x.v \in Nat
    BY <2>1, DiffVersion
  <2>4. x.v <= docVersion'
    BY <2>1, <2>3 DEF Later
  <2> QED
    BY <1>1, <2>1, <2>2, <2>4 DEF SentFits
<1> QED
    BY <1>2, <1>3

LEMMA TurnLater ==
    ASSUME NEW a, NEW b, NEW h, NEW k, NEW s, NEW t, Later(a, b, h, k, s, t), NEW p \in Readers,
           TurnFits(p, a, h), turn'[p] = turn[p],
           turn[p].step = "title" => docVersion' = docVersion
    PROVE  TurnFits(p, b, k)'
<1>1. PICK x : x = turn[p]
    OBVIOUS
<1>2. CASE x = Resting
    BY <1>1, <1>2 DEF TurnFits, Resting
<1>3. CASE x # Resting
  <2>1. x.diff \in Diffs /\ x.step \in {"title", "push", "tell"} /\ x.diff.v \in Nat
    BY <1>1, <1>3 DEF TurnFits, Diffs
  <2>2. /\ docVersion \in Nat /\ docVersion' \in Nat /\ docVersion <= docVersion'
        /\ engine' = engine /\ (Blind(p)' <=> Blind(p))
        /\ x.diff.v < docVersion => k[x.diff.v] = h[x.diff.v]
    BY <2>1 DEF Later
  <2>3. Accepted(p, x.diff, h) => Accepted(p, x.diff, k)'
    BY <2>1, <2>2 DEF Accepted
  <2>4. Mine(p, x.diff.updates, a) => Mine(p, x.diff.updates, b)'
    BY MineLater DEF Later
  <2> QED
    BY <1>1, <1>3, <2>1, <2>2, <2>3, <2>4 DEF TurnFits
<1> QED
    BY <1>2, <1>3

\* A queue that grows, or stays.
Grown(s, t) == Len(s) <= Len(t) /\ \A j \in 1..Len(s) : t[j] = s[j]

LEMMA AnsweredLater ==
    ASSUME NEW a, NEW b, NEW h, NEW k, NEW s, NEW t, Later(a, b, h, k, s, t), NEW p \in Readers,
           AnswerComes(p), reader'[p] = reader[p], upstream'[p] = upstream[p], turn'[p] = turn[p],
           p \in unheard => p \in unheard',
           Len(wire[p]) \in Nat, Len(wire'[p]) \in Nat, Grown(wire[p], wire'[p])
    PROVE  AnswerComes(p)'
<1> SUFFICES ASSUME reader'[p].up, reader'[p].waits
             PROVE  \/ Unheard(p)'
                    \/ /\ upstream'[p] # NoDiff
                       /\ upstream'[p].v <= reader'[p].at
                       /\ upstream'[p].updates = reader'[p].updates
                    \/ /\ turn'[p] # Resting /\ turn'[p].diff.updates = reader'[p].updates
                       /\ turn'[p].diff.v <= reader'[p].at
                       /\ turn'[p].step # "push" => turn'[p].diff.v = reader'[p].at
                    \/ \E j \in 1..Len(wire'[p]) :
                           Ends(wire'[p][j]) \/ Confirms(p, wire[p][j])'
    BY DEF AnswerComes
<1>1. Unheard(p) => Unheard(p)'
    BY DEF Later, Unheard, CommentOnly, Reviews, ReviewRights
<1>2. ASSUME NEW j \in 1..Len(wire[p]), Ends(wire[p][j]) \/ Confirms(p, wire[p][j])
      PROVE  /\ j \in 1..Len(wire'[p])
             /\ Ends(wire'[p][j]) \/ Confirms(p, wire[p][j])'
  <2>1. j \in 1..Len(wire'[p]) /\ wire'[p][j] = wire[p][j]
    BY DEF Grown
  <2> QED
    BY <1>2, <2>1 DEF Confirms
<1> QED
    BY <1>1, <1>2 DEF AnswerComes

LEMMA SeqWider ==
    ASSUME NEW S, NEW T, S \subseteq T, NEW s \in Seq(S)
    PROVE  s \in Seq(T)
  OBVIOUS

LEMMA AppendGrown ==
    ASSUME NEW S, NEW s \in Seq(S), NEW x \in S
    PROVE  Append(s, x) \in Seq(S) /\ Grown(s, Append(s, x)) /\ Append(s, x)[Len(Append(s, x))] = x
<1>1. Len(s) \in Nat
    BY LenProperties
<1> QED
    BY <1>1, AppendProperties DEF Grown

LEMMA ConcatGrown ==
    ASSUME NEW S, NEW s \in Seq(S), NEW t \in Seq(S)
    PROVE  s \o t \in Seq(S) /\ Grown(s, s \o t)
<1>1. Len(s) \in Nat /\ Len(t) \in Nat
    BY LenProperties
<1> QED
    BY <1>1, ConcatProperties DEF Grown

LEMMA ReaderLater ==
    ASSUME NEW a, NEW b, NEW h, NEW k, NEW s, NEW t, Later(a, b, h, k, s, t), NEW p \in Readers,
           ReaderInv(p, a, h, s), reader'[p] = reader[p], upstream'[p] = upstream[p],
           turn'[p] = turn[p], turn[p].step = "title" => docVersion' = docVersion,
           p \in unheard => p \in unheard', wire'[p] \in Seq(Truths(p, b, k)'), Grown(wire[p], wire'[p])
    PROVE  ReaderInv(p, b, k, t)'
<1>1. /\ CopyFits(p, a, s) /\ SentFits(p, a) /\ TurnFits(p, a, h) /\ AnswerComes(p)
      /\ wire[p] \in Seq(Truths(p, a, h))
    BY DEF ReaderInv
<1>2. Len(wire[p]) \in Nat /\ Len(wire'[p]) \in Nat
    BY <1>1, LenProperties
<1>3. CopyFits(p, b, t)'
    BY <1>1, CopyLater
<1>4. SentFits(p, b)'
    BY <1>1, SentLater
<1>5. TurnFits(p, b, k)'
    BY <1>1, TurnLater
<1>6. AnswerComes(p)'
    BY <1>1, <1>2, AnsweredLater
<1> QED
    BY <1>3, <1>4, <1>5, <1>6 DEF ReaderInv

\* The session's comments fit.
LEMMA CommentsFit ==
    ASSUME NEW a, NEW h, NEW s, FollowsHistory(a, h, s)
    PROVE  /\ Fits(comments, a) /\ comments \in States
           /\ MidTurn => docVersion - 1 \in Nat
<1>1. comments = s[IF MidTurn THEN docVersion - 1 ELSE docVersion] /\ docVersion \in Nat
    BY DEF FollowsHistory, Current, History
<1>2. MidTurn => docVersion - 1 \in Nat
  <2> SUFFICES ASSUME NEW q \in Readers, turn[q].step = "title"
               PROVE  docVersion - 1 \in Nat
    BY DEF MidTurn
  <2>1. turn[q].diff.v = docVersion - 1 /\ turn[q].diff \in Diffs
    <3>1. TurnFits(q, a, h) /\ turn[q] # Resting
        BY DEF FollowsHistory, ReaderInv, Resting
    <3> QED
        BY <3>1 DEF TurnFits
  <2> QED
    BY <2>1 DEF Diffs
<1>3. \A w \in Nat : w <= docVersion => Fits(s[w], a)
    BY DEF FollowsHistory, History
<1>4. Fits(comments, a)
    BY <1>1, <1>2, <1>3
<1> QED
    BY <1>2, <1>4 DEF Fits

\* What the server sends a reader to catch up is true, and something, if it is not up to date.
LEMMA CaughtUp ==
    ASSUME NEW a, NEW h, NEW s, FollowsHistory(a, h, s), NEW p \in Readers,
           NEW v \in Nat, v <= docVersion
    PROVE  /\ CaughtUpFrom(p, v) \in Seq(Truths(p, a, h))
           /\ v < docVersion => Len(CaughtUpFrom(p, v)) > 0 /\ Ends(CaughtUpFrom(p, v)[1])
<1> DEFINE T == Truths(p, a, h)
<1>1. /\ docVersion \in Nat /\ docDiffs \in Seq(Diffs) /\ Len(docDiffs) <= docVersion
      /\ \A j \in 1..Len(docDiffs) :
            /\ docDiffs[j].v = docVersion - Len(docDiffs) + j - 1
            /\ docDiffs[j].updates = h[docDiffs[j].v].updates
    BY DEF FollowsHistory, History, Kept
<1>2. Len(docDiffs) \in Nat
    BY <1>1, LenProperties
<1>3. Fits(comments, a) /\ comments \in States
    BY CommentsFit
<1>4. CASE ~KeptSince(v)
  <2>1. CaughtUpFrom(p, v) = <<Refetch>>
    BY <1>4 DEF CaughtUpFrom
  <2>2. Refetch \in T /\ Ends(Refetch)
    BY DEF Refetch, Truths, Messages, MessageFits, Ends
  <2> HIDE DEF T
  <2>3. <<Refetch>> \in Seq(T) /\ Len(<<Refetch>>) = 1 /\ <<Refetch>>[1] = Refetch
    BY <2>2
  <2> QED
    BY <2>1, <2>2, <2>3 DEF T
<1>5. CASE KeptSince(v)
  <2> DEFINE n == docVersion - v
             at(j) == Len(docDiffs) - n + j
             e(j) == Sanitized(DiffsAfter(v)[j], p, comments, TRUE)
  <2>1. v + Len(docDiffs) >= docVersion /\ n \in Nat /\ n <= Len(docDiffs)
    BY <1>1, <1>2, <1>5 DEF KeptSince
  <2>2. CaughtUpFrom(p, v) = [j \in 1..n |-> e(j)]
    BY <1>5 DEF CaughtUpFrom
  <2>3. ASSUME NEW j \in 1..n
        PROVE  e(j) \in T /\ Ends(e(j))
    <3>1. at(j) \in 1..Len(docDiffs)
        BY <1>2, <2>1
    <3>2. DiffsAfter(v)[j] = docDiffs[at(j)]
      <4>1. \A i \in (Len(docDiffs) - n + 1)..Len(docDiffs) : docDiffs[i] \in Diffs
        BY <1>1, <1>2, <2>1, ElementOfSeq
      <4>2. PICK lo \in Int, hi \in Int : lo = Len(docDiffs) - n + 1 /\ hi = Len(docDiffs)
        BY <1>2, <2>1
      <4>3. \A i \in lo..hi : docDiffs[i] \in Diffs
        BY <4>1, <4>2
      <4>4. \A i \in 1..(hi - lo + 1) : SubSeq(docDiffs, lo, hi)[i] = docDiffs[lo + i - 1]
        BY <4>3, SubSeqProperties
      <4>5. j \in 1..(hi - lo + 1) /\ lo + j - 1 = at(j)
        BY <4>2, <1>2, <2>1
      <4>6. DiffsAfter(v)[j] = SubSeq(docDiffs, lo, hi)[j]
        BY <4>2 DEF DiffsAfter
      <4> QED
        BY <4>4, <4>5, <4>6
    <3>3. PICK d \in Diffs : d = docDiffs[at(j)]
        BY <1>1, <3>1, ElementOfSeq
    <3>4. d.v = v + j - 1 /\ d.v < docVersion /\ d.v \in Nat
      <4>1. d.v = docVersion - Len(docDiffs) + at(j) - 1
        BY <1>1, <3>1, <3>3
      <4>2. docVersion - Len(docDiffs) + at(j) - 1 = v + j - 1 /\ v + j - 1 < docVersion
        BY <1>1, <1>2, <2>1
      <4>3. d.v \in Nat
        BY <3>3 DEF Diffs
      <4> QED
        BY <4>1, <4>2, <4>3
    <3>5. d.updates = h[d.v].updates /\ Good(d.updates, a)
        BY <1>1, <3>1, <3>3, <3>4 DEF FollowsHistory, History
    <3>6. e(j) = [type |-> "diff", v |-> d.v, updates |-> FilterUpdates(d.updates, p, comments),
                  fix |-> TRUE]
        BY <3>2, <3>3 DEF Sanitized
    <3>7. FilterUpdates(d.updates, p, comments) \in Seq(CommentUpdates)
      <4>1. Good(FilterUpdates(d.updates, p, comments), a)
        BY <3>5, FilteredGood
      <4> QED
        BY <4>1 DEF Good
    <3> DEFINE m == [type |-> "diff", v |-> d.v,
                     updates |-> FilterUpdates(d.updates, p, comments), fix |-> TRUE]
    <3>8. m \in Messages
        BY <3>4, <3>7 DEF Messages
    <3>9. m.type = "diff" /\ m.v = d.v /\ m.fix = TRUE
          /\ m.updates = FilterUpdates(h[d.v].updates, p, comments)
        BY <3>5
    <3> HIDE DEF m
    <3>10. m \in T /\ Ends(m)
        BY <3>4, <3>8, <3>9, <1>3 DEF Truths, MessageFits, Ends
    <3> QED
        BY <3>6, <3>10 DEF m
  <2>4. [j \in 1..n |-> e(j)] \in Seq(T) /\ Len([j \in 1..n |-> e(j)]) = n
    <3> HIDE DEF e, T, n
    <3> QED
        BY <2>1, <2>3
  <2>5. ASSUME v < docVersion
        PROVE  n > 0 /\ 1 \in 1..n
    BY <1>1, <2>5
  <2>6. v < docVersion => Ends([j \in 1..n |-> e(j)][1])
    <3> HIDE DEF e, T, n
    <3> QED
        BY <2>3, <2>5
  <2> HIDE DEF e, n
  <2> QED
    BY <2>2, <2>4, <2>5, <2>6
<1> QED
    BY <1>4, <1>5

\* A step that leaves the session as it is.
LEMMA SessionKept ==
    ASSUME NEW a, NEW b, NEW h, NEW s, FollowsHistory(a, h, s), UNCHANGED threadVars,
           readerRights' \in [Readers -> AllRights], Shapes',
           named \subseteq named', b \in [CommentIds -> Users],
           \A c \in CommentIds : b[c] # "nobody" => c \in named',
           \A c \in CommentIds : a[c] \in {b[c], "nobody"},
           \A q \in Readers : turn'[q].step = "title" <=> turn[q].step = "title",
           \A q \in Readers : ReaderInv(q, b, h, s)'
    PROVE  FollowsHistory(b, h, s)'
<1>1. engine' = engine /\ comments' = comments /\ docVersion' = docVersion /\ docDiffs' = docDiffs
    BY DEF threadVars
<1>2. History(b, h, s)'
  <2>1. /\ docVersion \in Nat
        /\ \A v \in Nat : v < docVersion => Good(h[v].updates, a)
        /\ \A v \in Nat : v <= docVersion => Fits(s[v], a)
        /\ \A v \in Nat : v < docVersion => s[v + 1] = Native_Updated(s[v], h[v].updates)
    BY DEF FollowsHistory, History
  <2>2. \A v \in Nat : v < docVersion => Good(h[v].updates, b)
    BY <2>1, GoodLater
  <2>3. \A v \in Nat : v <= docVersion => Fits(s[v], b)
    BY <2>1, FitsLater
  <2> QED
    BY <1>1, <2>1, <2>2, <2>3 DEF History
<1>3. Kept(h)'
    BY <1>1 DEF FollowsHistory, Kept
<1>4. MidTurn' <=> MidTurn
    BY DEF MidTurn
<1>5. Current(s)'
  <2>1. comments = s[IF MidTurn THEN docVersion - 1 ELSE docVersion]
    BY DEF FollowsHistory, Current
  <2> QED
    BY <1>1, <1>4, <2>1 DEF Current
<1>6. OneTitle'
    BY DEF FollowsHistory, OneTitle
<1> QED
    BY <1>1, <1>2, <1>3, <1>5, <1>6 DEF FollowsHistory

\* ... and as it was known: what was true, is true.
LEMMA SameLater ==
    ASSUME NEW a, NEW h, NEW s, FollowsHistory(a, h, s), UNCHANGED threadVars, UNCHANGED readerRights
    PROVE  /\ Later(a, a, h, h, s, s)
           /\ \A p \in Readers : Truths(p, a, h)' = Truths(p, a, h)
<1>1. Later(a, a, h, h, s, s)
    BY DEF Later, threadVars, FollowsHistory, History, Blind, Reviews
<1>2. ASSUME NEW p \in Readers
      PROVE  Truths(p, a, h)' = Truths(p, a, h)
  <2>1. docVersion' = docVersion /\ readerRights' = readerRights
    BY DEF threadVars
  <2> QED
    BY <2>1 DEF Truths, MessageFits, Accepted, Blind, FilterUpdates
<1> QED
    BY <1>1, <1>2

\* A step of one reader.
LEMMA OneReader ==
    ASSUME NEW a, NEW h, NEW s, FollowsHistory(a, h, s), UNCHANGED <<threadVars, readerRights>>,
           named' = named, Shapes', NEW p \in Readers,
           \A q \in Readers : q # p => /\ reader'[q] = reader[q] /\ upstream'[q] = upstream[q]
                                       /\ turn'[q] = turn[q] /\ wire'[q] = wire[q]
                                       /\ q \in unheard => q \in unheard',
           turn'[p].step = "title" <=> turn[p].step = "title",
           ReaderInv(p, a, h, s)'
    PROVE  FollowsHistory(a, h, s)'
<1>1. Later(a, a, h, h, s, s) /\ \A q \in Readers : Truths(q, a, h)' = Truths(q, a, h)
    BY SameLater
<1>2. ASSUME NEW q \in Readers, q # p
      PROVE  ReaderInv(q, a, h, s)'
  <2>1. ReaderInv(q, a, h, s)
    BY DEF FollowsHistory
  <2>2. wire[q] \in Seq(Truths(q, a, h))
    BY <2>1 DEF ReaderInv
  <2>3. Len(wire[q]) \in Nat
    BY <2>2, LenProperties
  <2>4. Grown(wire[q], wire'[q])
    BY <1>2, <2>3 DEF Grown
  <2>5. wire'[q] \in Seq(Truths(q, a, h)')
    BY <1>1, <1>2, <2>2
  <2>6. docVersion' = docVersion
    BY DEF threadVars
  <2> QED
    BY <1>1, <1>2, <2>1, <2>4, <2>5, <2>6, ReaderLater
<1>3. /\ readerRights' \in [Readers -> AllRights] /\ a \in [CommentIds -> Users]
      /\ \A c \in CommentIds : a[c] # "nobody" => c \in named'
      /\ \A c \in CommentIds : a[c] \in {a[c], "nobody"}
    BY DEF FollowsHistory, History
<1>4. \A q \in Readers : turn'[q].step = "title" <=> turn[q].step = "title"
    OBVIOUS
<1>5. \A q \in Readers : ReaderInv(q, a, h, s)'
    BY <1>2
<1> QED
    BY <1>3, <1>4, <1>5, SessionKept

LEMMA PutShaped ==
    ASSUME NEW f, Shaped(f), NEW p \in Readers, NEW x
    PROVE  /\ Shaped([f EXCEPT ![p] = x]) /\ [f EXCEPT ![p] = x][p] = x
           /\ \A q \in Readers : q # p => [f EXCEPT ![p] = x][q] = f[q]
<1>1. f = [q \in Readers |-> f[q]]
    BY DEF Shaped
<1> DEFINE g == [q \in Readers |-> IF q = p THEN x ELSE f[q]]
<1>2. [f EXCEPT ![p] = x] = g
    BY <1>1
<1>3. g = [q \in Readers |-> g[q]]
    OBVIOUS
<1> QED
    BY <1>2, <1>3 DEF Shaped

\* A copy that is changed.
LEMMA EditedCopy ==
    ASSUME NEW r \in Copies, NEW cu \in Seq(CommentUpdates), NEW w \in BOOLEAN
    PROVE  \E e \in Copies :
              /\ e = [r EXCEPT !.updates = cu, !.waits = w]
              /\ e.at = r.at /\ e.sees = r.sees /\ e.up = r.up
              /\ e.updates = cu /\ e.waits = w
<1> DEFINE e == [r EXCEPT !.updates = cu, !.waits = w]
<1>1. e \in Copies
    BY DEF Copies
<1>2. e.at = r.at /\ e.sees = r.sees /\ e.up = r.up /\ e.updates = cu /\ e.waits = w
    BY DEF Copies
<1>3. PICK x : x = e
    OBVIOUS
<1> QED
    BY <1>1, <1>2, <1>3

LEMMA RevivedCopy ==
    ASSUME NEW r \in Copies, NEW cu \in Seq(CommentUpdates)
    PROVE  \E e \in Copies :
              /\ e = [r EXCEPT !.up = TRUE, !.waits = FALSE, !.updates = cu]
              /\ e.at = r.at /\ e.sees = r.sees /\ e.updates = cu /\ e.waits = FALSE
<1> DEFINE e == [r EXCEPT !.up = TRUE, !.waits = FALSE, !.updates = cu]
<1>1. e \in Copies
    BY DEF Copies
<1>2. e.at = r.at /\ e.sees = r.sees /\ e.updates = cu /\ e.waits = FALSE
    BY DEF Copies
<1>3. PICK x : x = e
    OBVIOUS
<1> QED
    BY <1>1, <1>2, <1>3

LEMMA RestingFits ==
    ASSUME NEW p, NEW b, NEW h, turn'[p] = Resting
    PROVE  TurnFits(p, b, h)'
  BY DEF TurnFits, Resting

\* A diff that is sent.
LEMMA SentInv ==
    ASSUME NEW a, NEW b, NEW h, NEW s, FollowsHistory(a, h, s), Later(a, b, h, h, s, s),
           docVersion' = docVersion, NEW p \in Readers, NEW cu, Sent(p, cu), Mine(p, cu, b),
           readerRights' = readerRights, turn' = turn, wire' = wire, turn[p] = Resting
    PROVE  /\ Shapes' /\ ReaderInv(p, b, h, s)'
           /\ \A q \in Readers : q # p => reader'[q] = reader[q] /\ upstream'[q] = upstream[q]
           /\ unheard' = unheard \ {p}
<1>1. /\ Shapes /\ ReaderInv(p, a, h, s)
      /\ CopyFits(p, a, s) /\ TurnFits(p, a, h) /\ wire[p] \in Seq(Truths(p, a, h))
    BY DEF FollowsHistory, ReaderInv
<1>2. PICK r \in Copies : r = reader[p]
    BY <1>1 DEF CopyFits
<1>3. cu \in Seq(CommentUpdates)
    BY DEF Mine, Good
<1>4. PICK e \in Copies : /\ e = [r EXCEPT !.updates = cu, !.waits = TRUE]
                          /\ e.at = r.at /\ e.sees = r.sees /\ e.up = r.up
                          /\ e.updates = cu /\ e.waits = TRUE
    BY <1>2, <1>3, EditedCopy
<1>5. \E d : /\ upstream' = [upstream EXCEPT ![p] = d]
            /\ d \in Diffs /\ d.v = r.at /\ d.updates = cu /\ d # NoDiff
  <2>1. PICK has \in {"none", "marks", "text", "title"}, saves \in BOOLEAN :
            upstream' = [upstream EXCEPT ![p] =
                  [v |-> reader[p].at, updates |-> cu, has |-> has, saves |-> saves]]
    BY DEF Sent
  <2>2. PICK d : d = [v |-> reader[p].at, updates |-> cu, has |-> has, saves |-> saves]
    OBVIOUS
  <2>3. d \in Diffs /\ d.v = r.at /\ d.updates = cu /\ d # NoDiff
    BY <1>2, <1>3, <2>2 DEF Diffs, Copies, NoDiff
  <2> QED
    BY <2>1, <2>2, <2>3
<1>6. PICK d : upstream' = [upstream EXCEPT ![p] = d] /\ d \in Diffs /\ d.v = r.at
               /\ d.updates = cu /\ d # NoDiff
    BY <1>5
<1>7. d \in Diffs /\ d.v = r.at /\ d.updates = cu /\ d # NoDiff
    BY <1>6
<1>8. reader' = [reader EXCEPT ![p] = e]
  <2>1. reader' = [reader EXCEPT ![p].updates = cu, ![p].waits = TRUE]
    BY DEF Sent
  <2>2. reader' = [reader EXCEPT ![p] = [reader[p] EXCEPT !.updates = cu, !.waits = TRUE]]
    BY <2>1, <1>1 DEF Shapes, Shaped
  <2> QED
    BY <2>2, <1>2, <1>4
<1>9. /\ Shaped(reader)' /\ reader'[p] = e /\ \A q \in Readers : q # p => reader'[q] = reader[q]
  <2>1. Shaped(reader)
    BY <1>1 DEF Shapes
  <2> QED
    BY <2>1, <1>8, PutShaped DEF Shaped
<1>10. /\ Shaped(upstream)' /\ upstream'[p] = d
       /\ \A q \in Readers : q # p => upstream'[q] = upstream[q]
  <2>1. Shaped(upstream)
    BY <1>1 DEF Shapes
  <2> QED
    BY <2>1, <1>6, PutShaped DEF Shaped
<1>11. Shapes'
    BY <1>1, <1>9, <1>10 DEF Shapes, Shaped
<1>12. Mine(p, cu, b)'
    BY DEF Mine, Blind, Reviews
<1>13. CopyFits(p, b, s)'
  <2>1. r.at <= docVersion /\ Fits(r.sees, a) /\ Agree(p, r.sees, s[r.at])
    BY <1>1, <1>2 DEF CopyFits
  <2>2. Fits(e.sees, b)
    BY <1>4, <2>1, FitsLater DEF Later
  <2>3. Agree(p, e.sees, s[e.at])'
    BY <1>4, <2>1 DEF Agree, Blind, Reviews
  <2> QED
    BY <1>4, <1>9, <1>12, <2>1, <2>2, <2>3 DEF CopyFits
<1>14. SentFits(p, b)'
  <2>1. d.v <= docVersion'
    BY <1>1, <1>2, <1>7 DEF CopyFits
  <2> QED
    BY <1>7, <1>10, <1>12, <2>1 DEF SentFits
<1>15. TurnFits(p, b, h)'
    BY RestingFits
<1>16. wire'[p] \in Seq(Truths(p, b, h)')
    BY <1>1, TruthsLater, SeqWider
<1>17. AnswerComes(p)'
  <2>1. upstream'[p].v <= reader'[p].at
    <3>1. r.at \in Nat
        BY DEF Copies
    <3> QED
        BY <1>4, <1>7, <1>9, <1>10, <3>1
  <2> QED
    BY <1>4, <1>7, <1>9, <1>10, <2>1 DEF AnswerComes
<1> QED
    BY <1>9, <1>10, <1>11, <1>13, <1>14, <1>15, <1>16, <1>17 DEF ReaderInv, Sent

LEMMA ResubmitInv ==
    ASSUME NEW a, NEW h, NEW s, FollowsHistory(a, h, s), NEW p \in Readers, Resubmit(p)
    PROVE  FollowsHistory(a, h, s)'
<1>1. /\ Sent(p, reader[p].updates) /\ reader[p].updates # <<>> /\ turn[p] = Resting
      /\ UNCHANGED <<threadVars, readerRights, wire, turn, named>>
    BY DEF Resubmit, AtRest
<1>2. Mine(p, reader[p].updates, a)
    BY <1>1 DEF FollowsHistory, ReaderInv, CopyFits
<1>3. Later(a, a, h, h, s, s) /\ docVersion' = docVersion /\ named' = named
    BY <1>1, SameLater DEF threadVars
<1>4. /\ Shapes' /\ ReaderInv(p, a, h, s)'
      /\ \A q \in Readers : q # p => reader'[q] = reader[q] /\ upstream'[q] = upstream[q]
      /\ unheard' = unheard \ {p}
    BY <1>1, <1>2, <1>3, SentInv
<1>5. \A q \in Readers : q # p => /\ reader'[q] = reader[q] /\ upstream'[q] = upstream[q]
                                  /\ turn'[q] = turn[q] /\ wire'[q] = wire[q]
                                  /\ q \in unheard => q \in unheard'
    BY <1>1, <1>4
<1>6. turn'[p].step = "title" <=> turn[p].step = "title"
    BY <1>1
<1>7. UNCHANGED <<threadVars, readerRights>>
    BY <1>1
<1> QED
    BY <1>3, <1>4, <1>5, <1>6, <1>7, OneReader

\* A new comment has the author that makes it.
LEMMA ComposeInv ==
    ASSUME NEW a, NEW h, NEW s, FollowsHistory(a, h, s), NEW p \in Readers, Compose(p)
    PROVE  \E b : FollowsHistory(b, h, s)'
<1>1. /\ turn[p] = Resting /\ readerRights[p] # "read-without-comments"
      /\ UNCHANGED <<threadVars, readerRights, wire, turn, disturbed>>
    BY DEF Compose, AtRest
<1>2. PICK u \in UpdatesOf(p), w \in UpdatesOf(p) :
          /\ w = u \/ (u.type = "delete" /\ w.type = "create" /\ w.assigned = "nobody")
          /\ Sent(p, IF w = u THEN <<u>> ELSE <<u, w>>)
          /\ named' = named \cup {x.id : x \in {y \in {u, w} : y.type = "create"}}
    BY DEF Compose
<1>3. /\ u \in CommentUpdates /\ w \in CommentUpdates /\ OneUpdate(p, u) /\ OneUpdate(p, w)
      /\ u.id \in CommentIds /\ w.id \in CommentIds
    BY <1>2 DEF UpdatesOf, CommentUpdates
<1> DEFINE fresh == {x.id : x \in {y \in {u, w} : y.type = "create"}}
           b == [c \in CommentIds |-> IF c \in fresh THEN p ELSE a[c]]
<1>4. ASSUME NEW c \in fresh
      PROVE  c \notin named
    BY <1>3 DEF OneUpdate
<1>5. /\ a \in [CommentIds -> Users] /\ \A c \in CommentIds : a[c] # "nobody" => c \in named
      /\ docVersion \in Nat
    BY DEF FollowsHistory, History
<1>6. /\ b \in [CommentIds -> Users] /\ named \subseteq named'
      /\ \A c \in CommentIds : b[c] # "nobody" => c \in named'
      /\ \A c \in CommentIds : a[c] \in {b[c], "nobody"}
      /\ named' = named \cup fresh
    BY <1>2, <1>4, <1>5 DEF Users
<1>7. /\ u.type = "create" => b[u.id] = p
      /\ w.type = "create" => b[w.id] = p
      /\ \A c \in CommentIds : a[c] # "nobody" => b[c] = a[c]
    BY <1>3, <1>4, <1>5
<1> HIDE DEF b, fresh
<1>8. docVersion' = docVersion /\ engine' = engine
    BY <1>1 DEF threadVars
<1>9. Later(a, b, h, h, s, s)
    BY <1>1, <1>5, <1>6, <1>8 DEF Later, Blind, Reviews
<1>10. ASSUME NEW x \in {u, w}
       PROVE  /\ Sound(x, b)
              /\ Reviews(p) => IF x.type = "delete" THEN b[x.id] = p ELSE x.user = p
  <2>1. x \in CommentUpdates /\ OneUpdate(p, x) /\ x.id \in CommentIds /\ x.type \in UpdateTypes
        /\ (x.type = "create" => b[x.id] = p)
    BY <1>3, <1>7 DEF CommentUpdates
  <2>2. Sound(x, b)
    BY <2>1 DEF Sound, OneUpdate
  <2>3. ASSUME Reviews(p)
        PROVE  IF x.type = "delete" THEN b[x.id] = p ELSE x.user = p
    <3>1. Fits(reader[p].sees, a)
        BY DEF FollowsHistory, ReaderInv, CopyFits
    <3>2. reader[p].sees[x.id].user \in {a[x.id], "nobody"}
        BY <2>1, <3>1 DEF Fits
    <3>3. x.type \in {"delete", "update"} => reader[p].sees[x.id].user = p
        BY <2>1, <2>3 DEF OneUpdate, Own, Reviews
    <3>4. x.type \notin {"delete_answer", "update_answer"}
        BY <2>1, <2>3 DEF OneUpdate, Reviews
    <3>5. p # "nobody"
        BY CommentsAssumption
    <3>6. x.type = "delete" => b[x.id] = p
        BY <2>1, <3>2, <3>3, <3>5, <1>7
    <3>7. x.type \in {"update", "create", "add_answer"} => x.user = p
        BY <2>1, <3>3 DEF OneUpdate
    <3> QED
        BY <2>1, <3>4, <3>6, <3>7 DEF UpdateTypes
  <2> QED
    BY <2>2, <2>3
<1>11. PICK cu : cu = IF w = u THEN <<u>> ELSE <<u, w>>
    OBVIOUS
<1>12. /\ Good(cu, b) /\ \A j \in 1..Len(cu) : cu[j] \in {u, w}
  <2>1. CASE w = u
    <3>1. cu = <<u>> /\ Good(<<u>>, b) /\ Len(<<u>>) = 1 /\ <<u>>[1] = u
        BY <1>10, <1>11, <2>1, GoodOne
    <3> QED
        BY <3>1
  <2>2. CASE w # u
    <3>1. /\ cu \in Seq(CommentUpdates) /\ Len(cu) = 2 /\ cu[1] = u /\ cu[2] = w
        BY <1>3, <1>11, <2>2
    <3>2. \A j \in 1..Len(cu) : cu[j] = u \/ cu[j] = w
      <4>1. \A j \in 1..2 : j = 1 \/ j = 2
        OBVIOUS
      <4> QED
        BY <3>1, <4>1
    <3> QED
        BY <3>1, <3>2, <1>10 DEF Good, Sound
  <2> QED
    BY <2>1, <2>2
<1>13. Mine(p, cu, b)
    BY <1>1, <1>10, <1>12 DEF Mine, Blind
<1>14. Sent(p, cu)
    BY <1>2, <1>11
<1>15. /\ Shapes' /\ ReaderInv(p, b, h, s)'
       /\ \A q \in Readers : q # p => reader'[q] = reader[q] /\ upstream'[q] = upstream[q]
       /\ unheard' = unheard \ {p}
    BY <1>1, <1>8, <1>9, <1>13, <1>14, SentInv
<1>16. ASSUME NEW q \in Readers, q # p
       PROVE  ReaderInv(q, b, h, s)'
  <2>1. ReaderInv(q, a, h, s) /\ wire'[q] = wire[q] /\ turn'[q] = turn[q]
    BY <1>1 DEF FollowsHistory
  <2>2. wire[q] \in Seq(Truths(q, a, h)) /\ Truths(q, a, h) \subseteq Truths(q, b, h)'
    BY <2>1, <1>9, TruthsLater DEF ReaderInv
  <2>3. wire'[q] \in Seq(Truths(q, b, h)')
    BY <2>1, <2>2, SeqWider
  <2>4. Len(wire[q]) \in Nat
    BY <2>2, LenProperties
  <2>5. Grown(wire[q], wire'[q])
    BY <2>1, <2>4 DEF Grown
  <2>6. /\ reader'[q] = reader[q] /\ upstream'[q] = upstream[q]
        /\ q \in unheard => q \in unheard'
    BY <1>15, <1>16
  <2> QED
    BY <1>8, <1>9, <2>1, <2>3, <2>5, <2>6, ReaderLater
<1>17. \A q \in Readers : ReaderInv(q, b, h, s)'
    BY <1>15, <1>16
<1>18. readerRights' \in [Readers -> AllRights] /\ turn' = turn
    BY <1>1 DEF FollowsHistory
<1>19. UNCHANGED threadVars
    BY <1>1
<1>20. FollowsHistory(b, h, s)'
    BY <1>6, <1>15, <1>17, <1>18, <1>19, SessionKept
<1> QED
    BY <1>20

\* A diff that is dropped, of one who only comments or reviews.
LEMMA DiscardInv ==
    ASSUME NEW a, NEW h, NEW s, FollowsHistory(a, h, s), NEW p \in Readers, Discard(p)
    PROVE  FollowsHistory(a, h, s)'
<1>1. /\ upstream' = [upstream EXCEPT ![p] = NoDiff] /\ unheard' = unheard \cup {p}
      /\ readerRights[p] \in CommentOnly
      /\ UNCHANGED <<threadVars, readerRights, reader, wire, turn, named>>
    BY DEF Discard, MayHandle, CommentOnly, ReviewRights
<1>2. Shapes /\ ReaderInv(p, a, h, s)
    BY DEF FollowsHistory
<1>3. /\ Shaped(upstream)' /\ upstream'[p] = NoDiff
      /\ \A q \in Readers : q # p => upstream'[q] = upstream[q]
    BY <1>1, <1>2, PutShaped DEF Shapes, Shaped
<1>4. Shapes' /\ named' = named /\ docVersion' = docVersion /\ engine' = engine
    BY <1>1, <1>2, <1>3 DEF Shapes, Shaped, threadVars
<1>5. Later(a, a, h, h, s, s) /\ Truths(p, a, h)' = Truths(p, a, h)
    BY <1>1, SameLater
<1>6. CopyFits(p, a, s)' /\ TurnFits(p, a, h)'
    BY <1>1, <1>2, <1>4, <1>5, CopyLater, TurnLater DEF ReaderInv
<1>7. SentFits(p, a)'
    BY <1>3 DEF SentFits
<1>8. AnswerComes(p)'
    BY <1>1 DEF AnswerComes, Unheard
<1>9. ReaderInv(p, a, h, s)'
    BY <1>1, <1>2, <1>5, <1>6, <1>7, <1>8 DEF ReaderInv
<1> QED
    BY <1>1, <1>3, <1>4, <1>9, OneReader

LEMMA CopyNow ==
    ASSUME NEW a, NEW h, NEW s, FollowsHistory(a, h, s), UNCHANGED <<threadVars, readerRights>>,
           NEW p \in Readers, NEW x \in Copies, reader'[p] = x, x.at <= docVersion,
           Fits(x.sees, a), Agree(p, x.sees, s[x.at]),
           x.updates # <<>> => Mine(p, x.updates, a)
    PROVE  CopyFits(p, a, s)'
<1>1. docVersion' = docVersion
    BY DEF threadVars
<1>2. Agree(p, x.sees, s[x.at])' /\ (x.updates # <<>> => Mine(p, x.updates, a)')
    BY DEF Agree, Mine, Blind, Reviews
<1> QED
    BY <1>1, <1>2 DEF CopyFits

\* A step that gives a reader another copy and another queue.
LEMMA ReaderStep ==
    ASSUME NEW a, NEW h, NEW s, FollowsHistory(a, h, s),
           UNCHANGED <<threadVars, readerRights, upstream, turn, named, unheard>>,
           NEW p \in Readers, NEW x, NEW y, reader' = [reader EXCEPT ![p] = x],
           wire' = [wire EXCEPT ![p] = y], y \in Seq(Truths(p, a, h)),
           reader'[p] = x /\ wire'[p] = y => CopyFits(p, a, s)',
           reader'[p] = x /\ wire'[p] = y => AnswerComes(p)'
    PROVE  FollowsHistory(a, h, s)'
<1>1. Shapes /\ ReaderInv(p, a, h, s)
    BY DEF FollowsHistory
<1>2. /\ Shaped(reader)' /\ reader'[p] = x
      /\ \A q \in Readers : q # p => reader'[q] = reader[q]
    BY <1>1, PutShaped DEF Shapes, Shaped
<1>3. /\ Shaped(wire)' /\ wire'[p] = y
      /\ \A q \in Readers : q # p => wire'[q] = wire[q]
    BY <1>1, PutShaped DEF Shapes, Shaped
<1>4. Shapes' /\ named' = named /\ docVersion' = docVersion
    BY <1>1, <1>2, <1>3 DEF Shapes, Shaped, threadVars
<1>5. UNCHANGED threadVars /\ UNCHANGED readerRights /\ upstream' = upstream /\ turn' = turn
    OBVIOUS
<1>6. Later(a, a, h, h, s, s) /\ Truths(p, a, h)' = Truths(p, a, h)
    BY <1>5, SameLater
<1>7. SentFits(p, a)' /\ TurnFits(p, a, h)'
    BY <1>1, <1>4, <1>5, <1>6, SentLater, TurnLater DEF ReaderInv
<1>8. ReaderInv(p, a, h, s)'
    BY <1>2, <1>3, <1>6, <1>7 DEF ReaderInv
<1> QED
    BY <1>2, <1>3, <1>4, <1>5, <1>8, OneReader

LEMMA TailFits ==
    ASSUME NEW T, NEW w \in Seq(T), w # <<>>
    PROVE  /\ Head(w) \in T /\ Head(w) = w[1] /\ Tail(w) \in Seq(T)
           /\ Len(w) \in Nat /\ Len(w) > 0 /\ Len(Tail(w)) = Len(w) - 1
           /\ \A j \in 1..Len(w) : j # 1 => j - 1 \in 1..Len(Tail(w)) /\ Tail(w)[j - 1] = w[j]
<1>1. /\ Head(w) \in T /\ Tail(w) \in Seq(T) /\ Len(Tail(w)) = Len(w) - 1
      /\ \A i \in 1..Len(Tail(w)) : Tail(w)[i] = w[i + 1]
    BY HeadTailProperties
<1>2. Len(w) \in Nat /\ Len(w) # 0
    BY EmptySeq, LenProperties
<1>3. Head(w) = w[1]
    OBVIOUS
<1>4. ASSUME NEW j \in 1..Len(w), j # 1
      PROVE  j - 1 \in 1..Len(Tail(w)) /\ Tail(w)[j - 1] = w[j]
  <2>1. j - 1 \in 1..Len(Tail(w)) /\ (j - 1) + 1 = j
    BY <1>1, <1>2, <1>4
  <2> QED
    BY <1>1, <2>1
<1> QED
    BY <1>1, <1>2, <1>3, <1>4

\* A message that ends no waiting is taken from the queue.
LEMMA TailAnswered ==
    ASSUME NEW p \in Readers, AnswerComes(p), NEW T, wire[p] \in Seq(T), wire[p] # <<>>,
           UNCHANGED <<engine, readerRights, upstream, turn, unheard>>, wire'[p] = Tail(wire[p]),
           reader'[p].up => reader[p].up, reader'[p].waits => reader[p].waits,
           reader'[p].at = reader[p].at, reader'[p].updates = reader[p].updates,
           reader'[p].waits => ~Ends(Head(wire[p])) /\ ~Confirms(p, Head(wire[p]))
    PROVE  AnswerComes(p)'
<1> SUFFICES ASSUME reader'[p].up, reader'[p].waits
             PROVE  \/ Unheard(p)'
                    \/ /\ upstream'[p] # NoDiff
                       /\ upstream'[p].v <= reader'[p].at
                       /\ upstream'[p].updates = reader'[p].updates
                    \/ /\ turn'[p] # Resting /\ turn'[p].diff.updates = reader'[p].updates
                       /\ turn'[p].diff.v <= reader'[p].at
                       /\ turn'[p].step # "push" => turn'[p].diff.v = reader'[p].at
                    \/ \E j \in 1..Len(wire'[p]) :
                           Ends(wire'[p][j]) \/ Confirms(p, wire[p][j])'
    BY DEF AnswerComes
<1>1. ASSUME NEW j \in 1..Len(wire[p]), Ends(wire[p][j]) \/ Confirms(p, wire[p][j])
      PROVE  \E i \in 1..Len(wire'[p]) : Ends(wire'[p][i]) \/ Confirms(p, wire[p][i])'
  <2>1. /\ Head(wire[p]) = wire[p][1]
        /\ \A i \in 1..Len(wire[p]) : i # 1 =>
              i - 1 \in 1..Len(Tail(wire[p])) /\ Tail(wire[p])[i - 1] = wire[p][i]
    BY TailFits
  <2>2. j # 1
    BY <1>1, <2>1
  <2>3. PICK i : i = j - 1
    OBVIOUS
  <2>4. i \in 1..Len(wire'[p]) /\ wire'[p][i] = wire[p][j]
    BY <2>1, <2>2, <2>3
  <2>5. Ends(wire'[p][i]) \/ Confirms(p, wire[p][i])'
    BY <1>1, <2>4 DEF Confirms
  <2> QED
    BY <2>4, <2>5
<1>2. Unheard(p)' <=> Unheard(p)
    BY DEF Unheard
<1> QED
    BY <1>1, <1>2 DEF AnswerComes

\* What is added to a queue ends the waiting.
LEMMA EndAdded ==
    ASSUME NEW p \in Readers, NEW T, NEW w \in Seq(T), NEW more \in Seq(T),
           Len(more) > 0, Ends(more[1]), wire'[p] = w \o more
    PROVE  AnswerComes(p)'
<1>1. /\ Len(w) \in Nat /\ Len(more) \in Nat /\ Len(w \o more) = Len(w) + Len(more)
      /\ \A i \in 1..Len(w) + Len(more) :
            (w \o more)[i] = IF i <= Len(w) THEN w[i] ELSE more[i - Len(w)]
    BY ConcatProperties, LenProperties
<1>2. PICK j : j = Len(w) + 1
    OBVIOUS
<1>3. /\ j \in 1..Len(w) + Len(more) /\ ~(j <= Len(w)) /\ j - Len(w) = 1
    BY <1>1, <1>2
<1>4. j \in 1..Len(wire'[p]) /\ wire'[p][j] = more[1]
    BY <1>1, <1>3
<1> QED
    BY <1>4 DEF AnswerComes

\* A document that is loaded while no title is saved.
LEMMA LoadedFits ==
    ASSUME NEW a, NEW h, NEW s, FollowsHistory(a, h, s), UNCHANGED <<threadVars, readerRights>>,
           ~MidTurn, NEW p \in Readers, reader'[p] = Loaded(p)
    PROVE  CopyFits(p, a, s)' /\ AnswerComes(p)'
<1>1. comments = s[docVersion] /\ docVersion \in Nat /\ Fits(comments, a)
    BY CommentsFit DEF FollowsHistory, Current, History
<1>2. Fits(Shown(comments, p), a) /\ Agree(p, Shown(comments, p), comments)
    BY <1>1, ShownAgree
<1>3. Shown(comments, p) \in States
    BY <1>2 DEF Fits
<1>4. PICK x : x = Loaded(p)
    OBVIOUS
<1>5. /\ x \in Copies /\ x.at = docVersion /\ x.sees = Shown(comments, p) /\ x.updates = <<>>
      /\ x.waits = FALSE
    BY <1>1, <1>3, <1>4 DEF Loaded, Copies
<1>6. CopyFits(p, a, s)'
    BY <1>1, <1>2, <1>4, <1>5, CopyNow
<1>7. AnswerComes(p)'
    BY <1>4, <1>5 DEF AnswerComes
<1> QED
    BY <1>6, <1>7

LEMMA ReconnectInv ==
    ASSUME NEW a, NEW h, NEW s, FollowsHistory(a, h, s), NEW p \in Readers, Reconnect(p)
    PROVE  FollowsHistory(a, h, s)'
<1>1. PICK kept \in {reader[p].updates, <<>>} :
          reader' = [reader EXCEPT ![p] = [@ EXCEPT !.up = TRUE, !.waits = FALSE, !.updates = kept]]
    BY DEF Reconnect
<1>2. /\ wire' = [wire EXCEPT ![p] = CaughtUpFrom(p, reader[p].at)]
      /\ UNCHANGED <<threadVars, readerRights, upstream, turn, named, unheard>>
    BY DEF Reconnect, noteVars
<1>3. CopyFits(p, a, s) /\ Shaped(reader)
    BY DEF FollowsHistory, ReaderInv, Shapes
<1>4. PICK r \in Copies : r = reader[p]
    BY <1>3 DEF CopyFits
<1>5. r.at \in Nat /\ r.sees \in States /\ r.updates \in Seq(CommentUpdates)
    BY DEF Copies
<1>6. kept \in Seq(CommentUpdates) /\ (kept # <<>> => kept = r.updates)
  <2>1. <<>> \in Seq(CommentUpdates)
    BY EmptySeq
  <2>2. kept = r.updates \/ kept = <<>>
    BY <1>1, <1>4
  <2> QED
    BY <1>5, <2>1, <2>2
<1>7. PICK cu \in Seq(CommentUpdates) : cu = kept
    BY <1>6
<1>8. PICK e \in Copies : /\ e = [r EXCEPT !.up = TRUE, !.waits = FALSE, !.updates = cu]
                          /\ e.at = r.at /\ e.sees = r.sees /\ e.updates = cu /\ e.waits = FALSE
    BY RevivedCopy
<1>9. reader' = [reader EXCEPT ![p] = e]
    BY <1>1, <1>3, <1>4, <1>7, <1>8 DEF Shaped
<1>10. /\ r.at <= docVersion /\ Fits(r.sees, a) /\ Agree(p, r.sees, s[r.at])
       /\ r.updates # <<>> => Mine(p, r.updates, a)
    BY <1>3, <1>4 DEF CopyFits
<1>11. ASSUME reader'[p] = e
       PROVE  CopyFits(p, a, s)' /\ AnswerComes(p)'
  <2>1. CopyFits(p, a, s)'
    BY <1>2, <1>6, <1>7, <1>8, <1>10, <1>11, CopyNow
  <2>2. AnswerComes(p)'
    BY <1>7, <1>8, <1>11 DEF AnswerComes
  <2> QED
    BY <2>1, <2>2
<1>12. CaughtUpFrom(p, reader[p].at) \in Seq(Truths(p, a, h))
    BY <1>4, <1>5, <1>10, CaughtUp
<1> QED
    BY <1>2, <1>9, <1>11, <1>12, ReaderStep

LEMMA ReloadInv ==
    ASSUME NEW a, NEW h, NEW s, FollowsHistory(a, h, s), NEW p \in Readers, Reload(p), ~MidTurn
    PROVE  FollowsHistory(a, h, s)'
<1>1. /\ reader' = [reader EXCEPT ![p] = Loaded(p)]
      /\ wire' = [wire EXCEPT ![p] = <<>>]
      /\ upstream' = [upstream EXCEPT ![p] = NoDiff]
      /\ UNCHANGED <<threadVars, readerRights, turn, named, unheard>>
    BY DEF Reload, noteVars
<1>2. Shapes /\ ReaderInv(p, a, h, s)
    BY DEF FollowsHistory
<1>3. /\ Shaped(reader)' /\ reader'[p] = Loaded(p)
      /\ \A q \in Readers : q # p => reader'[q] = reader[q]
    BY <1>1, <1>2, PutShaped DEF Shapes, Shaped
<1>4. /\ Shaped(wire)' /\ wire'[p] = <<>>
      /\ \A q \in Readers : q # p => wire'[q] = wire[q]
    BY <1>1, <1>2, PutShaped DEF Shapes, Shaped
<1>5. /\ Shaped(upstream)' /\ upstream'[p] = NoDiff
      /\ \A q \in Readers : q # p => upstream'[q] = upstream[q]
    BY <1>1, <1>2, PutShaped DEF Shapes, Shaped
<1>6. Shapes' /\ named' = named /\ docVersion' = docVersion
    BY <1>1, <1>2, <1>3, <1>4, <1>5 DEF Shapes, Shaped, threadVars
<1>7. CopyFits(p, a, s)' /\ AnswerComes(p)'
    BY <1>1, <1>3, LoadedFits
<1>8. Later(a, a, h, h, s, s)
    BY <1>1, SameLater
<1>9. SentFits(p, a)' /\ TurnFits(p, a, h)'
    BY <1>1, <1>2, <1>5, <1>6, <1>8, TurnLater DEF ReaderInv, SentFits
<1>10. wire'[p] \in Seq(Truths(p, a, h)')
    BY <1>4
<1>11. ReaderInv(p, a, h, s)'
    BY <1>7, <1>9, <1>10 DEF ReaderInv
<1> QED
    BY <1>1, <1>3, <1>4, <1>5, <1>6, <1>11, OneReader

LEMMA AnswerOtherInv ==
    ASSUME NEW a, NEW h, NEW s, FollowsHistory(a, h, s), NEW p \in Readers, AnswerOther(p)
    PROVE  FollowsHistory(a, h, s)'
<1>1. /\ upstream[p] # NoDiff /\ upstream[p].v # docVersion
      /\ wire' = [wire EXCEPT ![p] = @ \o CaughtUpFrom(p, upstream[p].v)]
      /\ upstream' = [upstream EXCEPT ![p] = NoDiff]
      /\ UNCHANGED <<threadVars, readerRights, reader, turn, named, unheard>>
    BY DEF AnswerOther, noteVars
<1>2. /\ Shapes /\ ReaderInv(p, a, h, s) /\ docVersion \in Nat
      /\ wire[p] \in Seq(Truths(p, a, h))
    BY DEF FollowsHistory, ReaderInv, History
<1>3. PICK v \in Nat : v = upstream[p].v /\ v < docVersion
  <2>1. upstream[p] \in Diffs /\ upstream[p].v <= docVersion
    BY <1>1, <1>2 DEF ReaderInv, SentFits
  <2>2. upstream[p].v \in Nat
    BY <2>1, DiffVersion
  <2> QED
    BY <1>1, <1>2, <2>1, <2>2
<1>4. PICK more \in Seq(Truths(p, a, h)) :
          more = CaughtUpFrom(p, v) /\ Len(more) > 0 /\ Ends(more[1])
    BY <1>2, <1>3, CaughtUp
<1>5. wire' = [wire EXCEPT ![p] = wire[p] \o more]
    BY <1>1, <1>3, <1>4
<1>6. /\ Shaped(wire)' /\ wire'[p] = wire[p] \o more
      /\ \A q \in Readers : q # p => wire'[q] = wire[q]
    BY <1>2, <1>5, PutShaped DEF Shapes, Shaped
<1>7. /\ Shaped(upstream)' /\ upstream'[p] = NoDiff
      /\ \A q \in Readers : q # p => upstream'[q] = upstream[q]
    BY <1>1, <1>2, PutShaped DEF Shapes, Shaped
<1>8. Shapes' /\ named' = named /\ docVersion' = docVersion
    BY <1>1, <1>2, <1>6, <1>7 DEF Shapes, Shaped, threadVars
<1>9. Later(a, a, h, h, s, s) /\ Truths(p, a, h)' = Truths(p, a, h)
    BY <1>1, SameLater
<1>10. CopyFits(p, a, s)' /\ TurnFits(p, a, h)'
    BY <1>1, <1>2, <1>8, <1>9, CopyLater, TurnLater DEF ReaderInv
<1>11. SentFits(p, a)'
    BY <1>7 DEF SentFits
<1>12. wire'[p] \in Seq(Truths(p, a, h)')
    BY <1>2, <1>6, <1>9, ConcatProperties
<1>13. AnswerComes(p)'
    BY <1>2, <1>4, <1>6, EndAdded
<1>14. ReaderInv(p, a, h, s)'
    BY <1>10, <1>11, <1>12, <1>13 DEF ReaderInv
<1> QED
    BY <1>1, <1>6, <1>7, <1>8, <1>14, OneReader

LEMMA NativeCompareInv ==
    ASSUME NEW a, NEW h, NEW s, FollowsHistory(a, h, s), NEW p \in Readers, Native_Compare(p)
    PROVE  FollowsHistory(a, h, s)'
<1>1. /\ upstream[p] # NoDiff /\ turn[p] = Resting /\ engine = "native"
      /\ turn' = [turn EXCEPT ![p] = [step |-> "push", diff |-> upstream[p]]]
      /\ upstream' = [upstream EXCEPT ![p] = NoDiff]
      /\ UNCHANGED <<threadVars, readerRights, reader, wire, named, unheard>>
    BY DEF Native_Compare, noteVars
<1>2. /\ Shapes /\ ReaderInv(p, a, h, s)
      /\ wire[p] \in Seq(Truths(p, a, h))
    BY DEF FollowsHistory, ReaderInv
<1>3. PICK d \in Diffs : d = upstream[p] /\ d.v <= docVersion /\ Mine(p, d.updates, a)
    BY <1>1, <1>2 DEF ReaderInv, SentFits
<1>4. PICK x : x = [step |-> "push", diff |-> d]
    OBVIOUS
<1>5. x.step = "push" /\ x.diff = d /\ x # Resting
    BY <1>4 DEF Resting
<1>6. turn' = [turn EXCEPT ![p] = x]
    BY <1>1, <1>3, <1>4
<1>7. /\ Shaped(turn)' /\ turn'[p] = x
      /\ \A q \in Readers : q # p => turn'[q] = turn[q]
    BY <1>2, <1>6, PutShaped DEF Shapes, Shaped
<1>8. /\ Shaped(upstream)' /\ upstream'[p] = NoDiff
      /\ \A q \in Readers : q # p => upstream'[q] = upstream[q]
    BY <1>1, <1>2, PutShaped DEF Shapes, Shaped
<1>9. Shapes' /\ named' = named /\ docVersion' = docVersion /\ engine' = engine
    BY <1>1, <1>2, <1>7, <1>8 DEF Shapes, Shaped, threadVars
<1>10. Later(a, a, h, h, s, s) /\ Truths(p, a, h)' = Truths(p, a, h)
    BY <1>1, SameLater
<1>11. CopyFits(p, a, s)'
    BY <1>1, <1>2, <1>10, CopyLater DEF ReaderInv
<1>12. TurnFits(p, a, h)'
  <2>1. Mine(p, d.updates, a)'
    BY <1>1, <1>3 DEF Mine, Blind, Reviews
  <2> QED
    BY <1>1, <1>3, <1>4, <1>5, <1>7, <1>9, <2>1 DEF TurnFits
<1>13. SentFits(p, a)'
    BY <1>8 DEF SentFits
<1>14. wire'[p] \in Seq(Truths(p, a, h)')
    BY <1>1, <1>2, <1>10
<1>15. AnswerComes(p)'
  <2> SUFFICES ASSUME reader'[p].up, reader'[p].waits
               PROVE  AnswerComes(p)'
    BY DEF AnswerComes
  <2>1. reader[p].up /\ reader[p].waits /\ AnswerComes(p)
    BY <1>1, <1>2 DEF ReaderInv
  <2>2. CASE d.v <= reader[p].at /\ d.updates = reader[p].updates
    BY <1>1, <1>5, <1>7, <2>2 DEF AnswerComes
  <2>3. CASE ~(d.v <= reader[p].at /\ d.updates = reader[p].updates)
    <3>1. CASE Unheard(p)
        BY <3>1, <1>1 DEF AnswerComes, Unheard
    <3>2. CASE \E j \in 1..Len(wire[p]) : Ends(wire[p][j]) \/ Confirms(p, wire[p][j])
      <4>1. \E j \in 1..Len(wire[p]) : Ends(wire[p][j]) \/ Confirms(p, wire[p][j])'
        BY <3>2, <1>1 DEF Confirms
      <4> QED
        BY <4>1, <1>1 DEF AnswerComes
    <3> QED
        BY <3>1, <3>2, <2>1, <2>3, <1>1, <1>3 DEF AnswerComes
  <2> QED
    BY <2>2, <2>3
<1>16. ReaderInv(p, a, h, s)'
    BY <1>11, <1>12, <1>13, <1>14, <1>15 DEF ReaderInv
<1>17. turn'[p].step = "title" <=> turn[p].step = "title"
    BY <1>1, <1>5, <1>7 DEF Resting
<1> QED
    BY <1>1, <1>7, <1>8, <1>9, <1>16, <1>17, OneReader

LEMMA DowngradeInv ==
    ASSUME NEW a, NEW h, NEW s, FollowsHistory(a, h, s), NEW p \in Readers, Downgrade(p)
    PROVE  FollowsHistory(a, h, s)'
<1>1. /\ readerRights[p] = "write"
      /\ readerRights' = [readerRights EXCEPT ![p] = "comment"]
      /\ UNCHANGED <<threadVars, reader, upstream, wire, turn, named, unheard>>
    BY DEF Downgrade, noteVars
<1>2. /\ readerRights \in [Readers -> AllRights] /\ Shapes
      /\ a \in [CommentIds -> Users] /\ \A c \in CommentIds : a[c] # "nobody" => c \in named
      /\ docVersion \in Nat
    BY DEF FollowsHistory, History
<1>3. /\ readerRights' \in [Readers -> AllRights] /\ readerRights'[p] = "comment"
      /\ \A q \in Readers : q # p => readerRights'[q] = readerRights[q]
    BY <1>1, <1>2 DEF AllRights
<1>4. docVersion' = docVersion /\ engine' = engine /\ named' = named
    BY <1>1 DEF threadVars
<1>5. ASSUME NEW q \in Readers
      PROVE  /\ Blind(q)' <=> Blind(q)
             /\ Reviews(q)' <=> Reviews(q)
             /\ readerRights[q] = "comment" => readerRights'[q] = "comment"
  <2>1. CASE q = p
    BY <1>1, <1>3, <2>1 DEF Blind, Reviews, ReviewRights
  <2>2. CASE q # p
    BY <1>3, <2>2 DEF Blind, Reviews
  <2> QED
    BY <2>1, <2>2
<1>6. Later(a, a, h, h, s, s)
    BY <1>2, <1>4, <1>5 DEF Later
<1>7. ASSUME NEW q \in Readers
      PROVE  ReaderInv(q, a, h, s)'
  <2>1. ReaderInv(q, a, h, s) /\ wire'[q] = wire[q]
    BY <1>1 DEF FollowsHistory
  <2>2. wire[q] \in Seq(Truths(q, a, h)) /\ Truths(q, a, h) \subseteq Truths(q, a, h)'
    BY <2>1, <1>6, TruthsLater DEF ReaderInv
  <2>3. wire'[q] \in Seq(Truths(q, a, h)')
    BY <2>1, <2>2, SeqWider
  <2>4. Len(wire[q]) \in Nat
    BY <2>2, LenProperties
  <2>5. Grown(wire[q], wire'[q])
    BY <2>1, <2>4 DEF Grown
  <2> QED
    BY <1>1, <1>4, <1>6, <2>1, <2>3, <2>5, ReaderLater
<1>8. Shapes' /\ turn' = turn
    BY <1>1, <1>2 DEF Shapes, Shaped
<1>9. UNCHANGED threadVars /\ (\A c \in CommentIds : a[c] # "nobody" => c \in named')
      /\ named \subseteq named'
    BY <1>1, <1>2, <1>4
<1>10. \A q \in Readers : ReaderInv(q, a, h, s)'
    BY <1>7
<1>11. \A c \in CommentIds : a[c] \in {a[c], "nobody"}
    OBVIOUS
<1>12. \A q \in Readers : turn'[q].step = "title" <=> turn[q].step = "title"
    BY <1>8
<1> QED
    BY <1>2, <1>3, <1>8, <1>9, <1>10, <1>11, <1>12, SessionKept

\* A message arrives.
LEMMA ReceiveInv ==
    ASSUME NEW a, NEW h, NEW s, FollowsHistory(a, h, s), NEW p \in Readers, Receive(p), ~disturbed'
    PROVE  FollowsHistory(a, h, s)'
<1> DEFINE T == Truths(p, a, h)
<1>1. /\ wire[p] # <<>>
      /\ UNCHANGED <<threadVars, readerRights, upstream, turn, named, unheard>>
    BY DEF Receive, noteVars
<1>2. /\ ReaderInv(p, a, h, s) /\ CopyFits(p, a, s) /\ TurnFits(p, a, h) /\ AnswerComes(p)
      /\ wire[p] \in Seq(T) /\ Shaped(reader) /\ Shaped(wire) /\ docVersion \in Nat
    BY DEF FollowsHistory, ReaderInv, Shapes, History
<1>3. PICK r \in Copies : r = reader[p]
    BY <1>2 DEF CopyFits
<1>4. PICK m \in T : m = Head(wire[p])
    BY <1>1, <1>2, HeadTailProperties
<1>5. PICK y \in Seq(T) : y = Tail(wire[p])
    BY <1>1, <1>2, HeadTailProperties
<1>6. m \in Messages /\ MessageFits(p, m, a, h)
    BY DEF Truths
<1>7. /\ r.at \in Nat /\ r.at <= docVersion /\ r.sees \in States
      /\ r.updates \in Seq(CommentUpdates) /\ r.waits \in BOOLEAN /\ Fits(r.sees, a)
      /\ Agree(p, r.sees, s[r.at]) /\ (r.updates # <<>> => Mine(p, r.updates, a))
    BY <1>2, <1>3 DEF CopyFits, Copies
<1>8. /\ m.v \in Nat => m.v < docVersion \/ m.type = "refetch_doc"
      /\ m.type \in {"confirm_diff", "diff"} => m.v \in Nat /\ m.v < docVersion
      /\ m.type = "diff" => m.fix \in BOOLEAN
    BY <1>6 DEF Messages, MessageFits, Refetch
<1>9. \A v \in Nat : v < docVersion => /\ Good(h[v].updates, a) /\ Fits(s[v], a)
                                        /\ s[v + 1] = Native_Updated(s[v], h[v].updates)
    BY DEF FollowsHistory, History
<1> HIDE DEF T
\* The reader's copy when its message leaves it as it is.
<1>10. ASSUME reader'[p] = r
       PROVE  CopyFits(p, a, s)'
    BY <1>1, <1>7, <1>10, CopyNow
<1>11. CASE /\ m.type = "confirm_diff"
            /\ reader' = [reader EXCEPT ![p] =
                   IF m.v # r.at \/ m.updates # r.updates THEN r
                   ELSE [r EXCEPT !.at = m.v + 1, !.sees = Native_Updated(@, r.updates),
                                  !.updates = <<>>, !.waits = FALSE]]
            /\ wire' = [wire EXCEPT ![p] = y]
  <2>1. CASE m.v # r.at \/ m.updates # r.updates
    <3>1. reader' = [reader EXCEPT ![p] = r]
        BY <1>11, <2>1
    <3>2. ASSUME reader'[p] = r, wire'[p] = y
          PROVE  AnswerComes(p)'
      <4>1. ~Ends(m) /\ ~Confirms(p, m)
        BY <1>3, <1>11, <2>1 DEF Ends, Confirms
      <4>2. engine' = engine
        BY <1>1 DEF threadVars
      <4> QED
        BY <1>1, <1>2, <1>3, <1>4, <1>5, <3>2, <4>1, <4>2, TailAnswered
    <3> QED
        BY <1>1, <1>5, <1>10, <1>11, <3>1, <3>2, ReaderStep DEF T
  <2>2. CASE m.v = r.at /\ m.updates = r.updates
    <3>1. Accepted(p, m, h) /\ m.v < docVersion
        BY <1>6, <1>8, <1>11 DEF MessageFits
    <3>2. /\ ~Blind(p) /\ h[r.at].updates = r.updates /\ Good(r.updates, a) /\ Fits(s[r.at], a)
          /\ s[r.at + 1] = Native_Updated(s[r.at], r.updates)
        BY <1>7, <1>9, <2>2, <3>1 DEF Accepted
    <3>3. PICK cs : cs = Native_Updated(r.sees, r.updates)
        OBVIOUS
    <3>4. Fits(cs, a) /\ Agree(p, cs, s[r.at + 1])
        BY <1>7, <3>2, <3>3, Confirming
    <3>5. cs \in States /\ r.at + 1 \in Nat /\ r.at + 1 <= docVersion
        BY <1>2, <1>7, <2>2, <3>1, <3>4 DEF Fits
    <3>6. PICK n \in Nat, none \in Seq(CommentUpdates), off \in BOOLEAN :
              n = r.at + 1 /\ none = <<>> /\ off = FALSE
        BY <3>5, EmptySeq
    <3>10. PICK e : e = [r EXCEPT !.at = n, !.sees = cs, !.updates = none, !.waits = off]
        OBVIOUS
    <3>7. /\ e \in Copies
          /\ e.at = n /\ e.sees = cs /\ e.up = r.up /\ e.updates = none /\ e.waits = off
      <4>1. e \in Copies
        BY <3>5, <3>10 DEF Copies
      <4> QED
        BY <3>10, <4>1 DEF Copies
    <3>8. reader' = [reader EXCEPT ![p] = e]
      <4>1. reader' = [reader EXCEPT ![p] =
                [r EXCEPT !.at = m.v + 1, !.sees = Native_Updated(r.sees, r.updates),
                          !.updates = <<>>, !.waits = FALSE]]
        BY <1>11, <2>2
      <4> QED
        BY <2>2, <3>3, <3>6, <3>10, <4>1
    <3>9. ASSUME reader'[p] = e
          PROVE  CopyFits(p, a, s)' /\ AnswerComes(p)'
      <4>1. CopyFits(p, a, s)'
        <5>1. Fits(e.sees, a) /\ Agree(p, e.sees, s[e.at]) /\ e.at <= docVersion
            BY <3>4, <3>5, <3>6, <3>7
        <5>2. e.updates = <<>>
            BY <3>6, <3>7
        <5> QED
            BY <1>1, <3>7, <3>9, <5>1, <5>2, CopyNow
      <4>2. AnswerComes(p)'
        BY <3>6, <3>7, <3>9 DEF AnswerComes
      <4> QED
        BY <4>1, <4>2
    <3> QED
        BY <1>1, <1>11, <3>8, <3>9, ReaderStep DEF T
  <2> QED
    BY <2>1, <2>2
<1>12. CASE /\ m.type = "diff" /\ m.v < r.at
            /\ wire' = [wire EXCEPT ![p] = y]
            /\ reader' = [reader EXCEPT ![p].waits = @ /\ ~m.fix]
  <2>1. PICK w \in BOOLEAN : w = (r.waits /\ ~m.fix)
    BY <1>7
  <2>0. PICK cu \in Seq(CommentUpdates) : cu = r.updates
    BY <1>7
  <2>5. PICK e : e = [r EXCEPT !.updates = cu, !.waits = w]
    OBVIOUS
  <2>2. /\ e \in Copies
        /\ e.at = r.at /\ e.sees = r.sees /\ e.up = r.up /\ e.updates = cu /\ e.waits = w
    <3>1. e \in Copies
        BY <2>5 DEF Copies
    <3> QED
        BY <2>5, <3>1 DEF Copies
  <2>3. reader' = [reader EXCEPT ![p] = e]
    <3>1. reader' = [reader EXCEPT ![p] = [r EXCEPT !.waits = w]]
        BY <1>2, <1>3, <1>12, <2>1 DEF Shaped
    <3>2. [r EXCEPT !.waits = w] = e
      <4>1. [r EXCEPT !.waits = w] \in Copies
        BY DEF Copies
      <4> QED
        BY <2>0, <2>5, <2>2, <4>1 DEF Copies
    <3> QED
        BY <3>1, <3>2
  <2>4. ASSUME reader'[p] = e, wire'[p] = y
        PROVE  CopyFits(p, a, s)' /\ AnswerComes(p)'
    <3>1. CopyFits(p, a, s)'
        BY <1>1, <1>7, <2>0, <2>2, <2>4, CopyNow
    <3>2. reader'[p].waits => ~Ends(m) /\ ~Confirms(p, m)
        BY <1>8, <1>12, <2>1, <2>2, <2>4 DEF Ends, Confirms
    <3>3. engine' = engine
        BY <1>1 DEF threadVars
    <3>4. reader'[p].waits => reader[p].waits
        BY <1>3, <2>1, <2>2, <2>4
    <3>5. AnswerComes(p)'
        BY <1>1, <1>2, <1>3, <1>4, <1>5, <2>0, <2>2, <2>4, <3>2, <3>3, <3>4, TailAnswered
    <3> QED
        BY <3>1, <3>5
  <2> QED
    BY <1>1, <1>12, <2>3, <2>4, ReaderStep DEF T
<1>13. CASE /\ m.type = "diff" /\ m.v = r.at
            /\ \E kept \in {r.updates, <<>>} :
                  reader' = [reader EXCEPT ![p] =
                      [r EXCEPT !.at = m.v + 1, !.sees = Native_Updated(@, m.updates),
                                !.updates = IF m.fix THEN kept ELSE r.updates,
                                !.waits = r.waits /\ ~m.fix]]
            /\ wire' = [wire EXCEPT ![p] = y]
  <2>1. PICK kept \in {r.updates, <<>>} :
            reader' = [reader EXCEPT ![p] =
                [r EXCEPT !.at = m.v + 1, !.sees = Native_Updated(@, m.updates),
                          !.updates = IF m.fix THEN kept ELSE r.updates,
                          !.waits = r.waits /\ ~m.fix]]
    BY <1>13
  <2>2. PICK w \in BOOLEAN : w = (r.waits /\ ~m.fix)
    BY <1>7
  <2>3. PICK cu \in Seq(CommentUpdates) :
            /\ cu = IF m.fix THEN kept ELSE r.updates
            /\ cu # <<>> => cu = r.updates
    <3>1. <<>> \in Seq(CommentUpdates)
        BY EmptySeq
    <3>2. kept = r.updates \/ kept = <<>>
        BY <2>1
    <3> QED
        BY <1>7, <3>1, <3>2
  <2>4. PICK ct \in States : Fits(ct, a) /\ m.updates = FilterUpdates(h[r.at].updates, p, ct)
    BY <1>6, <1>13 DEF MessageFits
  <2>5. PICK cs : cs = Native_Updated(r.sees, m.updates)
    OBVIOUS
  <2>6. m.v < docVersion /\ r.at + 1 \in Nat /\ r.at + 1 <= docVersion
    BY <1>2, <1>7, <1>8, <1>13
  <2>7. Fits(cs, a) /\ Agree(p, cs, s[r.at + 1])
    <3>1. /\ Good(h[r.at].updates, a) /\ Fits(s[r.at], a)
          /\ s[r.at + 1] = Native_Updated(s[r.at], h[r.at].updates)
        BY <1>7, <1>9, <1>13, <2>6
    <3> QED
        BY <1>7, <2>4, <2>5, <3>1, ServedUpdates
  <2>8. cs \in States
    BY <2>7 DEF Fits
  <2>0. PICK n \in Nat : n = r.at + 1
    BY <2>6
  <2>13. PICK e : e = [r EXCEPT !.at = n, !.sees = cs, !.updates = cu, !.waits = w]
    OBVIOUS
  <2>9. /\ e \in Copies
        /\ e.at = n /\ e.sees = cs /\ e.up = r.up /\ e.updates = cu /\ e.waits = w
    <3>1. e \in Copies
        BY <2>8, <2>13 DEF Copies
    <3> QED
        BY <2>13, <3>1 DEF Copies
  <2>10. reader' = [reader EXCEPT ![p] = e]
    <3>1. reader' = [reader EXCEPT ![p] =
                [r EXCEPT !.at = m.v + 1, !.sees = Native_Updated(r.sees, m.updates),
                          !.updates = cu, !.waits = w]]
        BY <2>1, <2>2, <2>3
    <3> QED
        BY <1>13, <2>0, <2>5, <2>13, <3>1
  <2>11. ASSUME reader'[p] = e, wire'[p] = y
         PROVE  CopyFits(p, a, s)'
    <3>1. e.updates # <<>> => Mine(p, e.updates, a)
        BY <1>7, <2>3, <2>9
    <3> QED
        BY <1>1, <2>0, <2>6, <2>7, <2>9, <2>11, <3>1, CopyNow
  <2>12. ASSUME reader'[p] = e, wire'[p] = y
         PROVE  AnswerComes(p)'
    <3> SUFFICES ASSUME reader'[p].up, reader'[p].waits
                 PROVE  AnswerComes(p)'
        BY DEF AnswerComes
    <3>1. ~m.fix /\ r.waits /\ r.up /\ cu = r.updates
        BY <2>2, <2>3, <2>9, <2>12
    <3>2. h[r.at].by # p
        BY <1>6, <1>13, <3>1 DEF MessageFits
    <3>3. CASE Unheard(p)
      <4>1. Unheard(p)'
        BY <3>3, <1>1 DEF Unheard
      <4> QED
        BY <4>1 DEF AnswerComes
    <3>4. CASE /\ upstream[p] # NoDiff
               /\ upstream[p].v <= r.at /\ upstream[p].updates = r.updates
      <4>1. upstream[p].v \in Nat
        BY <3>4, <1>2 DEF ReaderInv, SentFits, Diffs
      <4>2. upstream[p].v <= r.at + 1
        BY <1>7, <3>4, <4>1
      <4> QED
        BY <1>1, <2>0, <2>9, <2>12, <3>1, <3>4, <4>2 DEF AnswerComes
    <3>5. CASE /\ turn[p] # Resting /\ turn[p].diff.updates = r.updates
               /\ turn[p].diff.v <= r.at
               /\ turn[p].step # "push" => turn[p].diff.v = r.at
      <4>1. turn[p].diff.v \in Nat /\ turn[p].step \in {"title", "push", "tell"}
        BY <1>2, <3>5 DEF TurnFits, Diffs
      <4>2. turn[p].step = "push"
        BY <1>2, <3>2, <3>5, <4>1 DEF TurnFits, Accepted
      <4>3. turn[p].diff.v <= r.at + 1
        BY <1>7, <3>5, <4>1
      <4> QED
        BY <1>1, <2>0, <2>9, <2>12, <3>1, <3>5, <4>2, <4>3 DEF AnswerComes
    <3>6. CASE \E j \in 1..Len(wire[p]) : Ends(wire[p][j]) \/ Confirms(p, wire[p][j])
      <4>1. PICK j \in 1..Len(wire[p]) : Ends(wire[p][j]) \/ Confirms(p, wire[p][j])
        BY <3>6
      <4>2. /\ Head(wire[p]) = wire[p][1]
            /\ \A i \in 1..Len(wire[p]) : i # 1 =>
                  i - 1 \in 1..Len(Tail(wire[p])) /\ Tail(wire[p])[i - 1] = wire[p][i]
        BY <1>1, <1>2, TailFits
      <4>3. wire[p][j] \in T
        BY <1>2, ElementOfSeq
      <4>4. ~Confirms(p, wire[p][j])
        BY <1>3, <3>2, <4>3 DEF Confirms, T, Truths, MessageFits, Accepted
      <4>5. j # 1
        BY <1>4, <1>13, <3>1, <4>1, <4>2, <4>4 DEF Ends
      <4>6. PICK i : i = j - 1
        OBVIOUS
      <4>7. i \in 1..Len(wire'[p]) /\ Ends(wire'[p][i])
        BY <1>5, <2>12, <4>1, <4>2, <4>4, <4>5, <4>6
      <4> QED
        BY <4>7 DEF AnswerComes
    <3> QED
        BY <1>2, <1>3, <3>1, <3>3, <3>4, <3>5, <3>6 DEF AnswerComes
  <2> QED
    BY <1>1, <1>13, <2>10, <2>11, <2>12, ReaderStep DEF T
<1>14. CASE /\ m.type = "diff" /\ m.v > r.at
            /\ wire' = [wire EXCEPT ![p] = y \o CaughtUpFrom(p, r.at)]
            /\ reader' = reader
  <2>1. r.at < docVersion
    BY <1>2, <1>7, <1>8, <1>14
  <2>2. PICK more \in Seq(T) :
            more = CaughtUpFrom(p, r.at) /\ Len(more) > 0 /\ Ends(more[1])
    BY <1>7, <2>1, CaughtUp DEF T
  <2>3. y \o more \in Seq(T)
    BY ConcatProperties
  <2>4. PICK z \in Seq(T) : z = y \o more
    BY <2>3
  <2>5. wire' = [wire EXCEPT ![p] = z]
    BY <1>14, <2>2, <2>4
  <2>6. reader' = [reader EXCEPT ![p] = r]
    BY <1>2, <1>3, <1>14 DEF Shaped
  <2>7. ASSUME wire'[p] = z
        PROVE  AnswerComes(p)'
    BY <2>2, <2>4, <2>7, EndAdded
  <2> QED
    BY <1>1, <1>10, <2>5, <2>6, <2>7, ReaderStep DEF T
<1>15. CASE /\ m.type = "refetch_doc"
            /\ reader' = [reader EXCEPT ![p] = Loaded(p)]
            /\ wire' = [wire EXCEPT ![p] = y]
            /\ ~MidTurn
  <2>1. ASSUME reader'[p] = Loaded(p)
        PROVE  CopyFits(p, a, s)' /\ AnswerComes(p)'
    BY <1>1, <1>15, <2>1, LoadedFits
  <2> QED
    BY <1>1, <1>15, <2>1, ReaderStep DEF T
<1>16. wire' = [wire EXCEPT ![p] = y] <=> wire' = [wire EXCEPT ![p] = Tail(@)]
    BY <1>2, <1>5 DEF Shaped
<1> QED
  <2>1. \/ /\ m.type = "confirm_diff"
           /\ reader' = [reader EXCEPT ![p] =
                 IF m.v # r.at \/ m.updates # r.updates THEN r
                 ELSE [r EXCEPT !.at = m.v + 1, !.sees = Native_Updated(@, r.updates),
                                !.updates = <<>>, !.waits = FALSE]]
           /\ wire' = [wire EXCEPT ![p] = Tail(@)]
        \/ /\ m.type = "diff" /\ m.v < r.at
           /\ wire' = [wire EXCEPT ![p] = Tail(@)]
           /\ reader' = [reader EXCEPT ![p].waits = @ /\ ~m.fix]
        \/ /\ m.type = "diff" /\ m.v = r.at
           /\ \E kept \in {r.updates, <<>>} :
                 reader' = [reader EXCEPT ![p] =
                    [r EXCEPT !.at = m.v + 1, !.sees = Native_Updated(@, m.updates),
                              !.updates = IF m.fix THEN kept ELSE r.updates,
                              !.waits = r.waits /\ ~m.fix]]
           /\ wire' = [wire EXCEPT ![p] = Tail(@)]
        \/ /\ m.type = "diff" /\ m.v > r.at
           /\ wire' = [wire EXCEPT ![p] = Tail(@) \o CaughtUpFrom(p, r.at)]
           /\ reader' = reader
        \/ /\ m.type = "refetch_doc"
           /\ reader' = [reader EXCEPT ![p] = Loaded(p)]
           /\ wire' = [wire EXCEPT ![p] = Tail(@)]
           /\ ~MidTurn
    BY <1>3, <1>4 DEF Receive
  <2>2. wire' = [wire EXCEPT ![p] = Tail(@) \o CaughtUpFrom(p, r.at)] =>
            wire' = [wire EXCEPT ![p] = y \o CaughtUpFrom(p, r.at)]
    BY <1>2, <1>5 DEF Shaped
  <2> QED
    BY <2>1, <2>2, <1>11, <1>12, <1>13, <1>14, <1>15, <1>16

\* The sender and the others are told of a diff that was accepted.
LEMMA ToldTruths ==
    ASSUME NEW a, NEW h, NEW s, FollowsHistory(a, h, s), NEW k, NEW t, Later(a, a, h, k, s, t),
           UNCHANGED readerRights, NEW p \in Readers, NEW d \in Diffs, Accepted(p, d, k)',
           Good(d.updates, a), NEW cs, Fits(cs, a), wire' = Told(p, d, cs)
    PROVE  /\ Shaped(wire)' /\ wire'[p] = Append(wire[p], Confirmed(d))
           /\ \A q \in Readers : wire'[q] \in Seq(Truths(q, a, k)') /\ Grown(wire[q], wire'[q])
<1>1. /\ d.v \in Nat /\ d.v < docVersion' /\ k[d.v].by = p /\ k[d.v].updates = d.updates
      /\ d.updates \in Seq(CommentUpdates) /\ cs \in States
    BY DEF Accepted, Diffs, Fits
<1>2. wire' = [q \in Readers |->
          IF q = p THEN Append(wire[q], Confirmed(d))
          ELSE IF reader[q].up THEN Append(wire[q], Sanitized(d, q, cs, FALSE)) ELSE wire[q]]
    BY DEF Told
<1>3. Confirmed(d) \in Truths(p, a, k)'
  <2>1. PICK m : m = [type |-> "confirm_diff", v |-> d.v, updates |-> d.updates]
    OBVIOUS
  <2>2. m.type = "confirm_diff" /\ m.v = d.v /\ m.updates = d.updates /\ m \in Messages
    BY <1>1, <2>1 DEF Messages
  <2>3. Accepted(p, m, k)'
    BY <2>2 DEF Accepted
  <2>4. MessageFits(p, m, a, k)'
    BY <1>1, <2>2, <2>3 DEF MessageFits
  <2> QED
    BY <2>1, <2>2, <2>4 DEF Confirmed, Truths
<1>4. ASSUME NEW q \in Readers, q # p
      PROVE  Sanitized(d, q, cs, FALSE) \in Truths(q, a, k)'
  <2>1. PICK cu : cu = FilterUpdates(d.updates, q, cs)
    OBVIOUS
  <2>2. cu \in Seq(CommentUpdates)
    <3>1. Good(cu, a)
        BY <2>1, FilteredGood
    <3> QED
        BY <3>1 DEF Good
  <2> DEFINE m == [type |-> "diff", v |-> d.v, updates |-> cu, fix |-> FALSE]
  <2>3. m \in Messages
    BY <1>1, <2>2 DEF Messages
  <2>4. m.type = "diff" /\ m.v = d.v /\ m.updates = cu /\ ~m.fix
    OBVIOUS
  <2>5. Sanitized(d, q, cs, FALSE) = m
    BY <2>1 DEF Sanitized
  <2> HIDE DEF m
  <2>6. FilterUpdates(k[d.v].updates, q, cs)' = cu
    BY <1>1, <2>1 DEF FilterUpdates
  <2>7. MessageFits(q, m, a, k)'
    BY <1>1, <1>4, <2>4, <2>6 DEF MessageFits
  <2> QED
    BY <2>3, <2>5, <2>7 DEF Truths
<1>5. ASSUME NEW q \in Readers
      PROVE  wire'[q] \in Seq(Truths(q, a, k)') /\ Grown(wire[q], wire'[q])
  <2>1. PICK T : T = Truths(q, a, k)'
    OBVIOUS
  <2>2. wire[q] \in Seq(T)
    <3>1. wire[q] \in Seq(Truths(q, a, h)) /\ Truths(q, a, h) \subseteq T
        BY <2>1, TruthsLater DEF FollowsHistory, ReaderInv
    <3> QED
        BY <3>1, SeqWider
  <2>3. wire'[q] = wire[q] => wire'[q] \in Seq(T) /\ Grown(wire[q], wire'[q])
    BY <2>2, LenProperties DEF Grown
  <2>4. \A x \in T : wire'[q] = Append(wire[q], x) =>
            wire'[q] \in Seq(T) /\ Grown(wire[q], wire'[q])
    BY <2>2, AppendGrown
  <2>5. CASE q = p
    BY <1>2, <1>3, <2>1, <2>4, <2>5
  <2>6. CASE q # p /\ reader[q].up
    BY <1>2, <1>4, <2>1, <2>4, <2>6
  <2>7. CASE q # p /\ ~reader[q].up
    BY <1>2, <2>1, <2>3, <2>7
  <2> QED
    BY <2>5, <2>6, <2>7
<1>6. Shaped(wire)' /\ wire'[p] = Append(wire[p], Confirmed(d))
    BY <1>2 DEF Shaped
<1> QED
    BY <1>5, <1>6

\* Who waited for it is told.
LEMMA ToldAnswered ==
    ASSUME NEW p \in Readers, AnswerComes(p), UNCHANGED <<engine, readerRights, unheard>>,
           reader'[p] = reader[p], NEW d, NEW T, wire[p] \in Seq(T), Confirmed(d) \in T,
           wire'[p] = Append(wire[p], Confirmed(d)),
           \/ upstream'[p] = upstream[p]
           \/ upstream[p] = d /\ (d.v <= reader[p].at => d.v = reader[p].at),
           turn[p] # Resting => turn[p].diff = d /\ turn[p].step # "push"
    PROVE  AnswerComes(p)'
<1> SUFFICES ASSUME reader[p].up, reader[p].waits
             PROVE  \/ Unheard(p)'
                    \/ /\ upstream'[p] # NoDiff
                       /\ upstream'[p].v <= reader'[p].at
                       /\ upstream'[p].updates = reader'[p].updates
                    \/ \E j \in 1..Len(wire'[p]) :
                           Ends(wire'[p][j]) \/ Confirms(p, wire[p][j])'
    BY DEF AnswerComes
<1>1. PICK w \in Seq(T) : w = wire[p]
    OBVIOUS
<1>2. /\ Len(w) \in Nat /\ Len(wire'[p]) = Len(w) + 1
      /\ wire'[p][Len(w) + 1] = Confirmed(d)
      /\ \A j \in 1..Len(w) : wire'[p][j] = w[j]
    BY <1>1, LenProperties, AppendProperties
<1>3. ASSUME d.v = reader[p].at, d.updates = reader[p].updates
      PROVE  \E j \in 1..Len(wire'[p]) : Confirms(p, wire[p][j])'
  <2>1. PICK j : j = Len(w) + 1
    OBVIOUS
  <2>2. j \in 1..Len(wire'[p]) /\ wire'[p][j] = Confirmed(d)
    BY <1>2, <2>1
  <2>3. PICK m : m = wire'[p][j] /\ m = Confirmed(d)
    BY <2>2
  <2>4. m.type = "confirm_diff" /\ m.v = reader'[p].at /\ m.updates = reader'[p].updates
    <3>1. /\ Confirmed(d).type = "confirm_diff" /\ Confirmed(d).v = d.v
          /\ Confirmed(d).updates = d.updates
        BY DEF Confirmed
    <3>2. d.v = reader'[p].at /\ d.updates = reader'[p].updates
        BY <1>3
    <3> QED
        BY <2>3, <3>1, <3>2
  <2>5. Confirms(p, wire[p][j])'
    BY <2>3, <2>4 DEF Confirms
  <2> QED
    BY <2>2, <2>5
<1>4. ASSUME NEW j \in 1..Len(wire[p]), Ends(wire[p][j]) \/ Confirms(p, wire[p][j])
      PROVE  /\ j \in 1..Len(wire'[p])
             /\ Ends(wire'[p][j]) \/ Confirms(p, wire[p][j])'
  <2>1. j \in 1..Len(wire'[p]) /\ wire'[p][j] = wire[p][j]
    BY <1>1, <1>2
  <2> QED
    BY <1>4, <2>1 DEF Confirms
<1>5. Unheard(p)' <=> Unheard(p)
    BY DEF Unheard
<1> QED
    BY <1>3, <1>4, <1>5 DEF AnswerComes

LEMMA TellInv ==
    ASSUME NEW a, NEW h, NEW s, FollowsHistory(a, h, s), NEW p \in Readers, Tell(p)
    PROVE  FollowsHistory(a, h, s)'
<1>1. /\ turn[p].step = "tell" /\ wire' = Told(p, turn[p].diff, comments)
      /\ turn' = [turn EXCEPT ![p] = Resting]
      /\ UNCHANGED <<threadVars, readerRights, reader, upstream, named, unheard>>
    BY DEF Tell, noteVars
<1>2. /\ Shapes /\ ReaderInv(p, a, h, s) /\ wire[p] \in Seq(Truths(p, a, h))
      /\ a \in [CommentIds -> Users] /\ \A c \in CommentIds : a[c] # "nobody" => c \in named
      /\ readerRights \in [Readers -> AllRights]
    BY DEF FollowsHistory, ReaderInv, History
<1>3. PICK d \in Diffs : d = turn[p].diff /\ Accepted(p, d, h)
    BY <1>1, <1>2 DEF ReaderInv, TurnFits, Resting
<1>4. d.v \in Nat /\ Good(d.updates, a)
    BY <1>3 DEF Accepted, Diffs, FollowsHistory, History
<1>5. Later(a, a, h, h, s, s) /\ \A q \in Readers : Truths(q, a, h)' = Truths(q, a, h)
    BY <1>1, SameLater
<1>6. docVersion' = docVersion /\ engine' = engine /\ named' = named /\ readerRights' = readerRights
    BY <1>1 DEF threadVars
<1>7. Accepted(p, d, h)'
    BY <1>3, <1>6 DEF Accepted, Blind
<1>8. Fits(comments, a)
    BY CommentsFit
<1>9. /\ Shaped(wire)' /\ wire'[p] = Append(wire[p], Confirmed(d))
      /\ \A q \in Readers : wire'[q] \in Seq(Truths(q, a, h)') /\ Grown(wire[q], wire'[q])
    BY <1>1, <1>3, <1>4, <1>5, <1>6, <1>7, <1>8, ToldTruths
<1>10. /\ Shaped(turn)' /\ turn'[p] = Resting
       /\ \A q \in Readers : q # p => turn'[q] = turn[q]
    BY <1>1, <1>2, PutShaped DEF Shapes, Shaped
<1>11. Shapes'
    BY <1>1, <1>2, <1>9, <1>10 DEF Shapes, Shaped
<1>12. ASSUME NEW q \in Readers, q # p
       PROVE  ReaderInv(q, a, h, s)'
  <2>1. ReaderInv(q, a, h, s)
    BY DEF FollowsHistory
  <2> QED
    BY <1>1, <1>5, <1>6, <1>9, <1>10, <1>12, <2>1, ReaderLater
<1>13. ReaderInv(p, a, h, s)'
  <2>1. CopyFits(p, a, s)' /\ SentFits(p, a)'
    BY <1>1, <1>2, <1>5, CopyLater, SentLater DEF ReaderInv
  <2>2. TurnFits(p, a, h)'
    BY <1>10 DEF TurnFits, Resting
  <2>3. AnswerComes(p)'
    <3>1. Confirmed(d) \in Truths(p, a, h)
      <4>1. Append(wire[p], Confirmed(d)) \in Seq(Truths(p, a, h))
        BY <1>5, <1>9
      <4>2. /\ Len(wire[p]) + 1 \in 1..Len(Append(wire[p], Confirmed(d)))
            /\ Append(wire[p], Confirmed(d))[Len(wire[p]) + 1] = Confirmed(d)
        BY <1>2, LenProperties, AppendProperties
      <4> QED
        BY <4>1, <4>2, ElementOfSeq
    <3>2. AnswerComes(p)
        BY <1>2 DEF ReaderInv
    <3>3. turn[p] # Resting => turn[p].diff = d /\ turn[p].step # "push"
        BY <1>1, <1>3
    <3> QED
        BY <1>1, <1>2, <1>3, <1>6, <1>9, <3>1, <3>2, <3>3, ToldAnswered
  <2> QED
    BY <1>9, <2>1, <2>2, <2>3 DEF ReaderInv
<1>14. \A q \in Readers : turn'[q].step = "title" <=> turn[q].step = "title"
    BY <1>1, <1>10 DEF Resting
<1>15. \A q \in Readers : ReaderInv(q, a, h, s)'
    BY <1>12, <1>13
<1>16. /\ readerRights' \in [Readers -> AllRights] /\ named \subseteq named'
       /\ \A c \in CommentIds : a[c] # "nobody" => c \in named'
       /\ \A c \in CommentIds : a[c] \in {a[c], "nobody"}
       /\ UNCHANGED threadVars
    BY <1>1, <1>2, <1>6
<1> QED
    BY <1>2, <1>11, <1>14, <1>15, <1>16, SessionKept

\* A diff that is kept: the history goes on with it.
LEMMA PushHistory ==
    ASSUME NEW a, NEW h, NEW s, FollowsHistory(a, h, s), NEW p \in Readers, NEW d \in Diffs,
           d.v = docVersion, Mine(p, d.updates, a), Pushed(d),
           UNCHANGED <<engine, readerRights, named, unheard>>
    PROVE  \E k, t :
              /\ Later(a, a, h, k, s, t) /\ History(a, k, t)' /\ Kept(k)' /\ Accepted(p, d, k)'
              /\ t[docVersion] = s[docVersion]
              /\ t[docVersion'] = Native_Updated(s[docVersion], d.updates)
<1>1. /\ docVersion \in Nat /\ a \in [CommentIds -> Users]
      /\ \A c \in CommentIds : a[c] # "nobody" => c \in named
      /\ \A v \in Nat : v < docVersion => Good(h[v].updates, a)
      /\ \A v \in Nat : v <= docVersion => Fits(s[v], a)
      /\ \A v \in Nat : v < docVersion => s[v + 1] = Native_Updated(s[v], h[v].updates)
    BY DEF FollowsHistory, History
<1>2. /\ docVersion' = docVersion + 1 /\ docDiffs' = Taken(Append(docDiffs, d), CommentHistory)
      /\ engine' = engine /\ named' = named /\ readerRights' = readerRights
    BY DEF Pushed
<1>3. PICK n \in Nat : n = docVersion
    BY <1>1
<1>4. PICK end : end = Native_Updated(s[docVersion], d.updates)
    OBVIOUS
<1>5. Good(d.updates, a) /\ ~Blind(p) /\ Fits(s[n], a) /\ Fits(end, a)
    BY <1>1, <1>3, <1>4, UpdatedFits DEF Mine
<1>6. PICK g : g = [by |-> p, updates |-> d.updates]
    OBVIOUS
<1>7. g.by = p /\ g.updates = d.updates
    BY <1>6
<1>8. PICK k : k = [v \in Nat |-> IF v = n THEN g ELSE h[v]]
    OBVIOUS
<1>9. PICK t : t = [v \in Nat |-> IF v <= n THEN s[v] ELSE end]
    OBVIOUS
<1>10. /\ k[n] = g /\ \A v \in Nat : v # n => k[v] = h[v]
       /\ t[n + 1] = end /\ \A v \in Nat : v <= n => t[v] = s[v]
    BY <1>8, <1>9
<1>11. Later(a, a, h, k, s, t)
    BY <1>1, <1>2, <1>3, <1>10 DEF Later, Blind, Reviews
<1>12. History(a, k, t)'
  <2>1. \A v \in Nat : v < n + 1 => Good(k[v].updates, a)
    BY <1>1, <1>3, <1>5, <1>7, <1>10
  <2>2. \A v \in Nat : v <= n + 1 => Fits(t[v], a)
    <3> SUFFICES ASSUME NEW v \in Nat, v <= n + 1
                 PROVE  Fits(t[v], a)
        OBVIOUS
    <3>1. v <= n \/ v = n + 1
        OBVIOUS
    <3> QED
        BY <3>1, <1>1, <1>3, <1>5, <1>10
  <2>3. \A v \in Nat : v < n + 1 => t[v + 1] = Native_Updated(t[v], k[v].updates)
    <3> SUFFICES ASSUME NEW v \in Nat, v < n + 1
                 PROVE  t[v + 1] = Native_Updated(t[v], k[v].updates)
        OBVIOUS
    <3>1. CASE v = n
        BY <3>1, <1>3, <1>4, <1>7, <1>10
    <3>2. CASE v < n
      <4>1. v # n /\ v <= n /\ v + 1 <= n /\ v + 1 \in Nat
        BY <3>2
      <4>2. k[v] = h[v] /\ t[v] = s[v] /\ t[v + 1] = s[v + 1]
        BY <4>1, <1>10
      <4>3. s[v + 1] = Native_Updated(s[v], h[v].updates)
        BY <3>2, <1>1, <1>3
      <4> QED
        BY <4>2, <4>3
    <3> QED
        BY <3>1, <3>2
  <2>4. docVersion' = n + 1 /\ docVersion' \in Nat
    BY <1>2, <1>3
  <2> QED
    BY <1>1, <1>2, <2>1, <2>2, <2>3, <2>4 DEF History
<1>13. Kept(k)'
  <2>1. /\ docDiffs \in Seq(Diffs) /\ Len(docDiffs) <= n
        /\ \A j \in 1..Len(docDiffs) : /\ docDiffs[j].v = n - Len(docDiffs) + j - 1
                                       /\ docDiffs[j].updates = h[docDiffs[j].v].updates
    BY <1>3 DEF FollowsHistory, Kept
  <2>2. PICK x \in Seq(Diffs) : x = Append(docDiffs, d)
    BY <2>1, AppendProperties
  <2>3. PICK len \in Nat : len = Len(x) /\ len = Len(docDiffs) + 1 /\ len <= n + 1
    BY <2>1, <2>2, LenProperties, AppendProperties
  <2>4. ASSUME NEW i \in 1..len
        PROVE  /\ x[i] \in Diffs /\ x[i].v = n - len + i
               /\ x[i].updates = k[x[i].v].updates
    <3>1. x[i] \in Diffs
        BY <2>3, ElementOfSeq
    <3>2. CASE i = len
      <4>1. x[i] = d
        BY <2>1, <2>2, <2>3, <3>2, AppendProperties
      <4> QED
        BY <1>3, <1>7, <1>10, <3>1, <3>2, <4>1
    <3>3. CASE i # len
      <4>1. i \in 1..Len(docDiffs)
        BY <2>1, <2>3, <3>3
      <4>2. x[i] = docDiffs[i]
        BY <2>1, <2>2, <4>1, AppendProperties
      <4>3. x[i].v = n - len + i /\ x[i].updates = h[x[i].v].updates
        BY <2>1, <2>3, <4>1, <4>2
      <4>4. x[i].v \in Nat /\ x[i].v # n
        <5>1. x[i].v \in Nat
            BY <3>1 DEF Diffs
        <5>2. n - len + i # n
            BY <2>3, <3>3
        <5> QED
            BY <4>3, <5>1, <5>2
      <4> QED
        BY <1>10, <3>1, <4>3, <4>4
    <3> QED
        BY <3>2, <3>3
  <2>5. PICK lo \in Nat : /\ lo = IF len > CommentHistory THEN len - CommentHistory + 1 ELSE 1
                          /\ lo > 0 /\ lo <= len
    <3>1. CommentHistory \in Nat /\ CommentHistory > 0 /\ len > 0
        BY <2>1, <2>3, CommentsAssumption, LenProperties
    <3>2. PICK lo : lo = IF len > CommentHistory THEN len - CommentHistory + 1 ELSE 1
        OBVIOUS
    <3>3. lo \in Nat /\ lo > 0 /\ lo <= len
      <4>1. CASE len > CommentHistory
        BY <3>1, <3>2, <4>1
      <4>2. CASE ~(len > CommentHistory)
        BY <3>1, <3>2, <4>2
      <4> QED
        BY <4>1, <4>2
    <3> QED
        BY <3>2, <3>3
  <2>6. docDiffs' = SubSeq(x, lo, len)
    BY <1>2, <2>2, <2>3, <2>5 DEF Taken
  <2>7. PICK y : y = SubSeq(x, lo, len)
    OBVIOUS
  <2>8. /\ y \in Seq(Diffs) /\ Len(y) = len - lo + 1
        /\ \A j \in 1..(len - lo + 1) : y[j] = x[lo + j - 1]
    <3>1. \A i \in lo..len : x[i] \in Diffs
        BY <2>4, <2>5
    <3>2. lo \in Int /\ len \in Int /\ lo <= len + 1
        BY <2>5
    <3> QED
        BY <2>7, <3>1, <3>2, <2>5, SubSeqProperties
  <2>9. ASSUME NEW j \in 1..Len(y)
        PROVE  y[j].v = n + 1 - Len(y) + j - 1 /\ y[j].updates = k[y[j].v].updates
    <3>1. PICK i \in 1..len : i = lo + j - 1
        BY <2>5, <2>8
    <3>2. y[j] = x[i]
        BY <2>8, <3>1
    <3> QED
        <4>1. y[j].v = n - len + i /\ y[j].updates = k[y[j].v].updates
            BY <2>4, <3>1, <3>2
        <4>2. n - len + i = n + 1 - Len(y) + j - 1
          <5>1. PICK ly \in Int : ly = Len(y) /\ ly = len - lo + 1
            BY <2>8
          <5>2. j \in Int /\ i = lo + j - 1
            BY <3>1, <5>1
          <5>3. n - len + i = n + 1 - ly + j - 1
            BY <5>1, <5>2
          <5> QED
            BY <5>1, <5>3
        <4> QED
            BY <4>1, <4>2
  <2>10. docDiffs' = y /\ docVersion' = n + 1 /\ Len(y) <= n + 1
    BY <1>2, <1>3, <2>3, <2>5, <2>6, <2>7, <2>8
  <2> QED
    <3>1. /\ docDiffs' \in Seq(Diffs) /\ Len(docDiffs') <= docVersion'
          /\ \A j \in 1..Len(docDiffs') :
                /\ docDiffs'[j].v = docVersion' - Len(docDiffs') + j - 1
                /\ docDiffs'[j].updates = k[docDiffs'[j].v].updates
      <4>1. docDiffs' = y /\ docVersion' = n + 1 /\ Len(y) <= n + 1 /\ y \in Seq(Diffs)
        BY <2>8, <2>10
      <4> QED
        BY <2>9, <4>1
    <3> QED
        BY <3>1 DEF Kept
<1>14. Accepted(p, d, k)'
    BY <1>2, <1>3, <1>5, <1>7, <1>10 DEF Accepted, Blind
<1>15. t[docVersion] = s[docVersion] /\ t[docVersion'] = end
    BY <1>2, <1>3, <1>10
<1> QED
    BY <1>4, <1>11, <1>12, <1>13, <1>14, <1>15

\* A connection that ends leaves the copy as it is.
LEMMA EndedCopy ==
    ASSUME NEW a, NEW b, NEW h, NEW k, NEW s, NEW t, Later(a, b, h, k, s, t), NEW p \in Readers,
           CopyFits(p, a, s), reader'[p] = [reader[p] EXCEPT !.up = FALSE]
    PROVE  CopyFits(p, b, t)' /\ ~reader'[p].up
<1>1. PICK r \in Copies : r = reader[p]
    BY DEF CopyFits
<1>2. PICK e : e = [r EXCEPT !.up = FALSE]
    OBVIOUS
<1>3. /\ e \in Copies /\ e.at = r.at /\ e.sees = r.sees /\ e.updates = r.updates /\ ~e.up
  <2>1. e \in Copies
    BY <1>2 DEF Copies
  <2> QED
    BY <1>2, <2>1 DEF Copies
<1>4. /\ r.at \in Nat /\ r.at <= docVersion /\ Fits(r.sees, a) /\ Agree(p, r.sees, s[r.at])
      /\ r.updates # <<>> => Mine(p, r.updates, a)
    BY <1>1 DEF CopyFits, Copies
<1>5. /\ docVersion \in Nat /\ docVersion' \in Nat /\ docVersion <= docVersion'
      /\ t[r.at] = s[r.at]
      /\ \A c \in CommentIds : a[c] \in {b[c], "nobody"}
      /\ Blind(p)' <=> Blind(p)
      /\ Reviews(p)' <=> Reviews(p)
    BY <1>4 DEF Later
<1>6. Fits(e.sees, b) /\ e.at <= docVersion'
    BY <1>3, <1>4, <1>5, FitsLater
<1>7. Agree(p, e.sees, t[e.at])'
  <2>1. Agree(p, e.sees, t[e.at])
    BY <1>3, <1>4, <1>5
  <2> QED
    BY <1>5, <2>1 DEF Agree
<1>8. e.updates # <<>> => Mine(p, e.updates, b)'
    BY <1>3, <1>4, <1>5, MineLater
<1>9. reader'[p] = e
    BY <1>1, <1>2
<1> QED
    BY <1>3, <1>6, <1>7, <1>8, <1>9 DEF CopyFits

\* Whatever becomes of a diff that was accepted, its sender and the others have the truth.
LEMMA Concluded ==
    ASSUME NEW a, NEW h, NEW s, FollowsHistory(a, h, s), NEW k, NEW t, Later(a, a, h, k, s, t),
           UNCHANGED <<engine, readerRights, unheard>>, NEW p \in Readers, NEW d \in Diffs,
           Accepted(p, d, k)', Good(d.updates, a), Fits(comments', a), Conclude(p, d),
           Shaped(upstream)', SentFits(p, a)',
           \A q \in Readers : q # p => /\ upstream'[q] = upstream[q]
                                       /\ turn[q].step = "title" => docVersion' = docVersion,
           \/ upstream'[p] = upstream[p]
           \/ upstream[p] = d /\ (d.v <= reader[p].at => d.v = reader[p].at),
           turn[p] # Resting => turn[p].diff = d /\ turn[p].step # "push"
    PROVE  /\ Shapes' /\ turn'[p].step # "title"
           /\ \A q \in Readers : q # p => turn'[q] = turn[q]
           /\ \A q \in Readers : ReaderInv(q, a, k, t)'
<1>1. Shapes /\ ReaderInv(p, a, h, s) /\ wire[p] \in Seq(Truths(p, a, h))
    BY DEF FollowsHistory, ReaderInv
<1>2. ASSUME NEW q \in Readers
      PROVE  wire[q] \in Seq(Truths(q, a, k)') /\ Grown(wire[q], wire[q])
  <2>1. wire[q] \in Seq(Truths(q, a, h)) /\ Truths(q, a, h) \subseteq Truths(q, a, k)'
    BY TruthsLater DEF FollowsHistory, ReaderInv
  <2>2. Len(wire[q]) \in Nat
    BY <2>1, LenProperties
  <2> QED
    BY <2>1, <2>2, SeqWider DEF Grown
\* What is left to show, when the others have only been sent something.
<1>3. ASSUME Shaped(reader)', Shaped(wire)', Shaped(turn)', turn'[p].step # "title",
             \A q \in Readers : q # p => reader'[q] = reader[q] /\ turn'[q] = turn[q],
             \A q \in Readers : wire'[q] \in Seq(Truths(q, a, k)'),
             \A q \in Readers : q # p => Grown(wire[q], wire'[q]),
             CopyFits(p, a, t)', TurnFits(p, a, k)', AnswerComes(p)'
      PROVE  /\ Shapes' /\ turn'[p].step # "title"
             /\ \A q \in Readers : q # p => turn'[q] = turn[q]
             /\ \A q \in Readers : ReaderInv(q, a, k, t)'
  <2>1. ASSUME NEW q \in Readers, q # p
        PROVE  ReaderInv(q, a, k, t)'
    <3>1. ReaderInv(q, a, h, s)
        BY DEF FollowsHistory
    <3>2. /\ reader'[q] = reader[q] /\ turn'[q] = turn[q] /\ upstream'[q] = upstream[q]
          /\ wire'[q] \in Seq(Truths(q, a, k)') /\ Grown(wire[q], wire'[q])
          /\ turn[q].step = "title" => docVersion' = docVersion
        BY <1>3, <2>1
    <3> QED
        BY <3>1, <3>2, ReaderLater
  <2>2. ReaderInv(p, a, k, t)'
    BY <1>3 DEF ReaderInv
  <2> QED
    BY <1>3, <2>1, <2>2 DEF Shapes
<1>4. PICK r : r = UpdatedBy(comments, d.updates) /\ comments' = r.cs
    BY DEF Conclude
<1>5. CASE /\ wire' = [wire EXCEPT ![p] = <<>>]
           /\ reader' = [reader EXCEPT ![p].up = FALSE]
           /\ turn' = [turn EXCEPT ![p] = Resting]
  <2>1. /\ Shaped(wire)' /\ wire'[p] = <<>>
        /\ \A q \in Readers : q # p => wire'[q] = wire[q]
    BY <1>1, <1>5, PutShaped DEF Shapes, Shaped
  <2>2. reader' = [reader EXCEPT ![p] = [reader[p] EXCEPT !.up = FALSE]]
    BY <1>5
  <2>3. /\ Shaped(reader)' /\ reader'[p] = [reader[p] EXCEPT !.up = FALSE]
        /\ \A q \in Readers : q # p => reader'[q] = reader[q]
    BY <1>1, <2>2, PutShaped DEF Shapes, Shaped
  <2>4. /\ Shaped(turn)' /\ turn'[p] = Resting
        /\ \A q \in Readers : q # p => turn'[q] = turn[q]
    BY <1>1, <1>5, PutShaped DEF Shapes, Shaped
  <2>5. CopyFits(p, a, t)' /\ ~reader'[p].up
    BY <1>1, <2>3, EndedCopy DEF ReaderInv
  <2>6. AnswerComes(p)' /\ TurnFits(p, a, k)' /\ turn'[p].step # "title"
    BY <2>4, <2>5 DEF AnswerComes, TurnFits, Resting
  <2>7. ASSUME NEW q \in Readers
        PROVE  wire'[q] \in Seq(Truths(q, a, k)') /\ (q # p => Grown(wire[q], wire'[q]))
    BY <1>2, <2>1, EmptySeq
  <2> QED
    BY <1>3, <2>1, <2>3, <2>4, <2>5, <2>6, <2>7
<1>6. CASE /\ turn' = [turn EXCEPT ![p] = [step |-> "tell", diff |-> d]]
           /\ UNCHANGED <<wire, reader>>
  <2>1. PICK x : x = [step |-> "tell", diff |-> d]
    OBVIOUS
  <2>2. x.step = "tell" /\ x.diff = d /\ x # Resting
    BY <2>1 DEF Resting
  <2>3. /\ Shaped(turn)' /\ turn'[p] = x
        /\ \A q \in Readers : q # p => turn'[q] = turn[q]
    <3>1. turn' = [turn EXCEPT ![p] = x]
        BY <1>6, <2>1
    <3> QED
        BY <1>1, <3>1, PutShaped DEF Shapes, Shaped
  <2>4. Shaped(reader)' /\ Shaped(wire)'
    BY <1>1, <1>6 DEF Shapes, Shaped
  <2>5. CopyFits(p, a, t)'
    BY <1>1, <1>6, CopyLater DEF ReaderInv
  <2>6. TurnFits(p, a, k)'
    BY <2>2, <2>3 DEF TurnFits
  <2>7. AnswerComes(p)'
    <3> SUFFICES ASSUME reader[p].up, reader[p].waits
                 PROVE  \/ Unheard(p)'
                        \/ /\ upstream'[p] # NoDiff
                           /\ upstream'[p].v <= reader'[p].at
                           /\ upstream'[p].updates = reader'[p].updates
                        \/ x.diff.updates = reader'[p].updates /\ x.diff.v = reader'[p].at
                        \/ \E j \in 1..Len(wire'[p]) :
                               Ends(wire'[p][j]) \/ Confirms(p, wire[p][j])'
      <4>1. reader[p].at \in Nat
        BY <1>1 DEF ReaderInv, CopyFits, Copies
      <4> QED
        BY <1>6, <2>2, <2>3, <4>1 DEF AnswerComes
    <3>1. AnswerComes(p)
        BY <1>1 DEF ReaderInv
    <3>2. (\E j \in 1..Len(wire[p]) : Ends(wire[p][j]) \/ Confirms(p, wire[p][j])) =>
              \E j \in 1..Len(wire'[p]) : Ends(wire'[p][j]) \/ Confirms(p, wire[p][j])'
        BY <1>6 DEF Confirms
    <3>3. Unheard(p)' <=> Unheard(p)
        BY DEF Unheard
    <3> QED
        BY <1>6, <2>2, <3>1, <3>2, <3>3 DEF AnswerComes
  <2>8. \A q \in Readers : wire'[q] \in Seq(Truths(q, a, k)') /\ Grown(wire[q], wire'[q])
    BY <1>2, <1>6
  <2> QED
    BY <1>3, <1>6, <2>2, <2>3, <2>4, <2>5, <2>6, <2>7, <2>8
<1>7. CASE /\ wire' = Told(p, d, r.cs)
           /\ turn' = [turn EXCEPT ![p] = Resting]
           /\ UNCHANGED reader
  <2>1. /\ Shaped(wire)' /\ wire'[p] = Append(wire[p], Confirmed(d))
        /\ \A q \in Readers : wire'[q] \in Seq(Truths(q, a, k)') /\ Grown(wire[q], wire'[q])
    BY <1>4, <1>7, ToldTruths
  <2>2. /\ Shaped(turn)' /\ turn'[p] = Resting
        /\ \A q \in Readers : q # p => turn'[q] = turn[q]
    BY <1>1, <1>7, PutShaped DEF Shapes, Shaped
  <2>3. Shaped(reader)' /\ TurnFits(p, a, k)' /\ turn'[p].step # "title"
    BY <1>1, <1>7, <2>2 DEF Shapes, Shaped, TurnFits, Resting
  <2>4. CopyFits(p, a, t)'
    BY <1>1, <1>7, CopyLater DEF ReaderInv
  <2>5. AnswerComes(p)'
    <3>1. PICK T : T = Truths(p, a, k)'
        OBVIOUS
    <3>2. wire[p] \in Seq(T) /\ Append(wire[p], Confirmed(d)) \in Seq(T)
        BY <1>2, <2>1, <3>1
    <3>3. Confirmed(d) \in T
      <4>1. PICK w \in Seq(T) : w = wire[p]
        BY <3>2
      <4>2. PICK c : c = Confirmed(d)
        OBVIOUS
      <4>3. Len(w) \in Nat /\ Append(w, c) \in Seq(T)
        BY <3>2, <4>1, <4>2, LenProperties
      <4>4. Len(w) + 1 \in 1..Len(Append(w, c)) /\ Append(w, c)[Len(w) + 1] = c
        BY <4>3
      <4> QED
        BY <4>2, <4>3, <4>4, ElementOfSeq
    <3>4. AnswerComes(p)
        BY <1>1 DEF ReaderInv
    <3> QED
        BY <1>7, <2>1, <3>2, <3>3, <3>4, ToldAnswered
  <2> QED
    BY <1>3, <1>7, <2>1, <2>2, <2>3, <2>4, <2>5
<1> QED
    BY <1>4, <1>5, <1>6, <1>7 DEF Conclude

LEMMA TitleSavedInv ==
    ASSUME NEW a, NEW h, NEW s, FollowsHistory(a, h, s), NEW p \in Readers, TitleSaved(p), ~disturbed'
    PROVE  FollowsHistory(a, h, s)'
<1>1. /\ turn[p].step = "title" /\ Conclude(p, turn[p].diff) /\ ~FailsMidway(turn[p].diff)
      /\ UNCHANGED <<engine, docVersion, docDiffs, readerRights, upstream, named, unheard>>
    BY DEF TitleSaved, noteVars
<1>2. /\ Shapes /\ ReaderInv(p, a, h, s) /\ OneTitle /\ docVersion \in Nat
      /\ readerRights \in [Readers -> AllRights] /\ engine \in {"python", "native"}
      /\ \A v \in Nat : v < docVersion => Good(h[v].updates, a)
      /\ \A v \in Nat : v <= docVersion => Fits(s[v], a)
      /\ \A v \in Nat : v < docVersion => s[v + 1] = Native_Updated(s[v], h[v].updates)
    BY DEF FollowsHistory, History
<1>3. PICK d \in Diffs : d = turn[p].diff /\ Accepted(p, d, h) /\ d.v = docVersion - 1
    BY <1>1, <1>2 DEF ReaderInv, TurnFits, Resting
<1>4. PICK n \in Nat : n = d.v /\ n + 1 = docVersion
    BY <1>2, <1>3, DiffVersion
<1>5. comments = s[n]
    BY <1>1, <1>2, <1>4 DEF MidTurn, FollowsHistory, Current
<1>6. comments' = s[docVersion] /\ Good(d.updates, a)
  <2>1. comments' = UpdatedBy(comments, d.updates).cs
    BY <1>1, <1>3 DEF Conclude
  <2>2. UpdatedBy(comments, d.updates).cs = Native_Updated(comments, d.updates)
    BY <1>1, <1>3 DEF FailsMidway
  <2>3. h[n].updates = d.updates /\ n < docVersion
    BY <1>3, <1>4 DEF Accepted
  <2>4. s[n + 1] = Native_Updated(s[n], d.updates) /\ Good(d.updates, a)
    BY <1>2, <2>3
  <2> QED
    BY <1>4, <1>5, <2>1, <2>2, <2>4
<1>7. engine' = engine /\ docVersion' = docVersion /\ docDiffs' = docDiffs
      /\ readerRights' = readerRights /\ named' = named /\ upstream' = upstream
    BY <1>1
<1>8. Later(a, a, h, h, s, s)
    BY <1>2, <1>7 DEF Later, Blind, Reviews
<1>9. Accepted(p, d, h)' /\ Fits(comments', a)
    BY <1>2, <1>3, <1>6, <1>7 DEF Accepted, Blind
<1>10. Shaped(upstream)' /\ SentFits(p, a)'
    BY <1>2, <1>7, <1>8, SentLater DEF Shapes, Shaped, ReaderInv
<1>11. /\ Shapes' /\ turn'[p].step # "title"
       /\ \A q \in Readers : q # p => turn'[q] = turn[q]
       /\ \A q \in Readers : ReaderInv(q, a, h, s)'
    BY <1>1, <1>3, <1>6, <1>7, <1>8, <1>9, <1>10, Concluded
<1>12. \A q \in Readers : turn'[q].step # "title"
    BY <1>1, <1>2, <1>11 DEF OneTitle
<1>13. Current(s)' /\ OneTitle'
    BY <1>6, <1>7, <1>12 DEF Current, OneTitle, MidTurn
<1>14. History(a, h, s)' /\ Kept(h)'
    BY <1>7 DEF FollowsHistory, History, Kept
<1> QED
    BY <1>2, <1>7, <1>11, <1>13, <1>14 DEF FollowsHistory

\* A diff that was its sender's, for the version at hand.
LEMMA AcceptDiffInv ==
    ASSUME NEW a, NEW h, NEW s, FollowsHistory(a, h, s), NEW p \in Readers, AcceptDiff(p), ~disturbed'
    PROVE  \E k, t : FollowsHistory(a, k, t)'
<1>1. /\ upstream[p] # NoDiff /\ turn[p] = Resting /\ engine = "python"
      /\ upstream[p].v = docVersion /\ Pushed(upstream[p])
      /\ upstream' = [upstream EXCEPT ![p] = NoDiff]
      /\ UNCHANGED <<engine, readerRights, named, unheard>> /\ ~MidTurn
    BY DEF AcceptDiff, noteVars
<1>2. /\ Shapes /\ ReaderInv(p, a, h, s) /\ docVersion \in Nat
      /\ readerRights \in [Readers -> AllRights]
    BY DEF FollowsHistory, History
<1>3. PICK d \in Diffs : d = upstream[p] /\ Mine(p, d.updates, a)
    BY <1>1, <1>2 DEF ReaderInv, SentFits
<1>4. PICK k, t :
          /\ Later(a, a, h, k, s, t) /\ History(a, k, t)' /\ Kept(k)' /\ Accepted(p, d, k)'
          /\ t[docVersion] = s[docVersion]
          /\ t[docVersion'] = Native_Updated(s[docVersion], d.updates)
    BY <1>1, <1>3, PushHistory
<1>5. comments = s[docVersion] /\ docVersion' = docVersion + 1 /\ docVersion' - 1 = docVersion
    BY <1>1, <1>2, <1>3 DEF FollowsHistory, Current, Pushed
<1>6. /\ Shaped(upstream)' /\ upstream'[p] = NoDiff
      /\ \A q \in Readers : q # p => upstream'[q] = upstream[q]
    BY <1>1, <1>2, PutShaped DEF Shapes, Shaped
<1>7. SentFits(p, a)' /\ \A q \in Readers : turn[q].step # "title"
    BY <1>1, <1>6 DEF SentFits, MidTurn
<1>8. d.v <= reader[p].at => d.v = reader[p].at
  <2>1. reader[p].at \in Nat /\ reader[p].at <= docVersion
    BY <1>2 DEF ReaderInv, CopyFits, Copies
  <2> QED
    BY <1>1, <1>2, <1>3, <2>1
<1>9. Good(d.updates, a)
    BY <1>3 DEF Mine
<1>10. engine' = "python" /\ readerRights' \in [Readers -> AllRights]
    BY <1>1, <1>2
<1>11. CASE d.has = "title"
  <2>1. /\ turn' = [turn EXCEPT ![p] = [step |-> "title", diff |-> d]]
        /\ UNCHANGED <<comments, wire, reader>>
    BY <1>3, <1>11 DEF AcceptDiff
  <2>2. PICK x : x = [step |-> "title", diff |-> d]
    OBVIOUS
  <2>3. x.step = "title" /\ x.diff = d /\ x # Resting
    BY <2>2 DEF Resting
  <2>4. /\ Shaped(turn)' /\ turn'[p] = x
        /\ \A q \in Readers : q # p => turn'[q] = turn[q]
    <3>1. turn' = [turn EXCEPT ![p] = x]
        BY <2>1, <2>2
    <3> QED
        BY <1>2, <3>1, PutShaped DEF Shapes, Shaped
  <2>5. Shapes'
    BY <1>2, <1>6, <2>1, <2>4 DEF Shapes, Shaped
  <2>6. ASSUME NEW q \in Readers
        PROVE  wire'[q] \in Seq(Truths(q, a, k)') /\ Grown(wire[q], wire'[q])
    <3>1. wire[q] \in Seq(Truths(q, a, h)) /\ Truths(q, a, h) \subseteq Truths(q, a, k)'
        BY <1>4, TruthsLater DEF FollowsHistory, ReaderInv
    <3>2. Len(wire[q]) \in Nat
        BY <3>1, LenProperties
    <3> QED
        BY <2>1, <3>1, <3>2, SeqWider DEF Grown
  <2>7. ASSUME NEW q \in Readers, q # p
        PROVE  ReaderInv(q, a, k, t)'
    <3>1. ReaderInv(q, a, h, s)
        BY DEF FollowsHistory
    <3>2. /\ reader'[q] = reader[q] /\ turn'[q] = turn[q] /\ upstream'[q] = upstream[q]
          /\ wire'[q] \in Seq(Truths(q, a, k)') /\ Grown(wire[q], wire'[q])
          /\ turn[q].step # "title" /\ unheard' = unheard
        BY <1>1, <1>6, <1>7, <2>1, <2>4, <2>6, <2>7
    <3> QED
        BY <1>4, <3>1, <3>2, ReaderLater
  <2>8. ReaderInv(p, a, k, t)'
    <3>1. CopyFits(p, a, t)'
        BY <1>2, <1>4, <2>1, CopyLater DEF ReaderInv
    <3>2. TurnFits(p, a, k)'
        BY <1>1, <1>3, <1>4, <1>5, <1>10, <2>3, <2>4 DEF TurnFits
    <3>3. AnswerComes(p)'
      <4> SUFFICES ASSUME reader[p].up, reader[p].waits
                   PROVE  \/ Unheard(p)'
                          \/ x.diff.updates = reader'[p].updates /\ x.diff.v = reader'[p].at
                          \/ \E j \in 1..Len(wire'[p]) :
                                 Ends(wire'[p][j]) \/ Confirms(p, wire[p][j])'
        <5>1. reader[p].at \in Nat
            BY <1>2 DEF ReaderInv, CopyFits, Copies
        <5> QED
            BY <2>1, <2>3, <2>4, <5>1 DEF AnswerComes
      <4>1. AnswerComes(p)
        BY <1>2 DEF ReaderInv
      <4>2. (\E j \in 1..Len(wire[p]) : Ends(wire[p][j]) \/ Confirms(p, wire[p][j])) =>
                \E j \in 1..Len(wire'[p]) : Ends(wire'[p][j]) \/ Confirms(p, wire[p][j])'
        BY <2>1 DEF Confirms
      <4>3. Unheard(p)' <=> Unheard(p)
        BY <1>1 DEF Unheard
      <4> QED
        BY <1>1, <1>3, <1>8, <2>1, <2>3, <4>1, <4>2, <4>3 DEF AnswerComes
    <3> QED
        BY <1>7, <2>6, <3>1, <3>2, <3>3 DEF ReaderInv
  <2>9. MidTurn' /\ OneTitle'
    BY <1>7, <2>3, <2>4 DEF MidTurn, OneTitle
  <2>10. Current(t)'
    BY <1>4, <1>5, <2>1, <2>9 DEF Current
  <2> QED
    BY <1>4, <1>10, <2>5, <2>7, <2>8, <2>9, <2>10 DEF FollowsHistory
<1>12. CASE d.has # "title"
  <2>1. Conclude(p, d) /\ ~FailsMidway(d)
    BY <1>3, <1>12 DEF AcceptDiff
  <2>2. comments' = t[docVersion']
    <3>1. comments' = UpdatedBy(comments, d.updates).cs
        BY <2>1 DEF Conclude
    <3> QED
        BY <1>4, <1>5, <2>1, <3>1 DEF FailsMidway
  <2>3. Fits(comments', a)
    BY <1>4, <1>5, <2>2 DEF History
  <2>4. /\ Shapes' /\ turn'[p].step # "title"
        /\ \A q \in Readers : q # p => turn'[q] = turn[q]
        /\ \A q \in Readers : ReaderInv(q, a, k, t)'
    BY <1>1, <1>3, <1>4, <1>6, <1>7, <1>8, <1>9, <2>1, <2>3, Concluded, ZenonT(40)
  <2>5. \A q \in Readers : turn'[q].step # "title"
    BY <1>7, <2>4
  <2>6. Current(t)' /\ OneTitle'
    BY <2>2, <2>5 DEF Current, OneTitle, MidTurn
  <2> QED
    BY <1>4, <1>10, <2>4, <2>6 DEF FollowsHistory
<1> QED
    BY <1>11, <1>12

\* ... and in the native service, which has compared the versions before.
LEMMA NativePushInv ==
    ASSUME NEW a, NEW h, NEW s, FollowsHistory(a, h, s), NEW p \in Readers, Native_Push(p), ~disturbed'
    PROVE  \E k, t : FollowsHistory(a, k, t)'
<1>1. /\ turn[p].step = "push" /\ Pushed(turn[p].diff)
      /\ comments' = Native_Updated(comments, turn[p].diff.updates)
      /\ turn' = [turn EXCEPT ![p].step = "tell"]
      /\ turn[p].diff.v = docVersion
      /\ UNCHANGED <<engine, readerRights, reader, upstream, wire, named, unheard>>
    BY DEF Native_Push, noteVars
<1>2. /\ Shapes /\ ReaderInv(p, a, h, s) /\ docVersion \in Nat
      /\ readerRights \in [Readers -> AllRights]
    BY DEF FollowsHistory, History
<1>3. PICK d \in Diffs : d = turn[p].diff /\ Mine(p, d.updates, a) /\ engine = "native"
    BY <1>1, <1>2 DEF ReaderInv, TurnFits, Resting
<1>4. PICK k, t :
          /\ Later(a, a, h, k, s, t) /\ History(a, k, t)' /\ Kept(k)' /\ Accepted(p, d, k)'
          /\ t[docVersion] = s[docVersion]
          /\ t[docVersion'] = Native_Updated(s[docVersion], d.updates)
    BY <1>1, <1>3, PushHistory
<1>5. \A q \in Readers : turn[q].step # "title"
    BY <1>3 DEF FollowsHistory, ReaderInv, TurnFits
<1>6. comments = s[docVersion]
    BY <1>5 DEF FollowsHistory, Current, MidTurn
<1>7. PICK x : x = [turn[p] EXCEPT !.step = "tell"]
    OBVIOUS
<1>8. turn' = [turn EXCEPT ![p] = x]
    BY <1>1, <1>7
<1>9. /\ Shaped(turn)' /\ turn'[p] = x
      /\ \A q \in Readers : q # p => turn'[q] = turn[q]
    BY <1>2, <1>8, PutShaped DEF Shapes, Shaped
<1>10. x.step = "tell" /\ x.diff = d /\ x # Resting
  <2>1. turn[p] = [step |-> "push", diff |-> d]
    BY <1>1, <1>2, <1>3 DEF ReaderInv, TurnFits
  <2>2. x = [step |-> "tell", diff |-> d]
    BY <1>7, <2>1
  <2> QED
    BY <2>2 DEF Resting
<1>11. Shapes'
    BY <1>1, <1>2, <1>9 DEF Shapes, Shaped
<1>12. ASSUME NEW q \in Readers
       PROVE  wire'[q] \in Seq(Truths(q, a, k)') /\ Grown(wire[q], wire'[q])
  <2>1. wire[q] \in Seq(Truths(q, a, h)) /\ Truths(q, a, h) \subseteq Truths(q, a, k)'
    BY <1>4, TruthsLater DEF FollowsHistory, ReaderInv
  <2>2. Len(wire[q]) \in Nat
    BY <2>1, LenProperties
  <2> QED
    BY <1>1, <2>1, <2>2, SeqWider DEF Grown
<1>13. ASSUME NEW q \in Readers, q # p
       PROVE  ReaderInv(q, a, k, t)'
  <2>1. ReaderInv(q, a, h, s)
    BY DEF FollowsHistory
  <2> QED
    BY <1>1, <1>4, <1>5, <1>9, <1>12, <1>13, <2>1, ReaderLater
<1>14. ReaderInv(p, a, k, t)'
  <2>1. CopyFits(p, a, t)' /\ SentFits(p, a)'
    BY <1>1, <1>2, <1>4, CopyLater, SentLater DEF ReaderInv
  <2>2. TurnFits(p, a, k)'
    BY <1>4, <1>9, <1>10 DEF TurnFits
  <2>3. AnswerComes(p)'
    <3> SUFFICES ASSUME reader[p].up, reader[p].waits
                 PROVE  \/ Unheard(p)'
                        \/ /\ upstream'[p] # NoDiff
                           /\ upstream'[p].v <= reader'[p].at
                           /\ upstream'[p].updates = reader'[p].updates
                        \/ x.diff.updates = reader'[p].updates /\ x.diff.v = reader'[p].at
                        \/ \E j \in 1..Len(wire'[p]) :
                               Ends(wire'[p][j]) \/ Confirms(p, wire[p][j])'
      <4>1. reader[p].at \in Nat
        BY <1>2 DEF ReaderInv, CopyFits, Copies
      <4>2. reader' = reader
        BY <1>1
      <4> QED
        BY <1>9, <1>10, <4>1, <4>2 DEF AnswerComes
    <3>1. AnswerComes(p)
        BY <1>2 DEF ReaderInv
    <3>2. (\E j \in 1..Len(wire[p]) : Ends(wire[p][j]) \/ Confirms(p, wire[p][j])) =>
              \E j \in 1..Len(wire'[p]) : Ends(wire'[p][j]) \/ Confirms(p, wire[p][j])'
        BY <1>1 DEF Confirms
    <3>3. reader[p].at \in Nat /\ reader[p].at <= docVersion
        BY <1>2 DEF ReaderInv, CopyFits, Copies
    <3>4. d.v <= reader[p].at => d.v = reader[p].at
        BY <1>1, <1>2, <1>3, <3>3
    <3>5. Unheard(p)' <=> Unheard(p)
        BY <1>1 DEF Unheard
    <3> QED
        BY <1>1, <1>3, <1>10, <3>1, <3>2, <3>4, <3>5 DEF AnswerComes
  <2> QED
    BY <1>12, <2>1, <2>2, <2>3 DEF ReaderInv
<1>15. \A q \in Readers : turn'[q].step # "title"
    BY <1>5, <1>9, <1>10
<1>16. Current(t)' /\ OneTitle'
    BY <1>1, <1>3, <1>4, <1>6, <1>15 DEF Current, OneTitle, MidTurn
<1>17. engine' \in {"python", "native"} /\ readerRights' \in [Readers -> AllRights]
    BY <1>1, <1>2, <1>3
<1> QED
    BY <1>4, <1>11, <1>13, <1>14, <1>16, <1>17 DEF FollowsHistory

LEMMA CommentsStepInv == CommentsInv /\ [CommentsNext]_commentVars => CommentsInv'
<1> SUFFICES ASSUME CommentsInv, [CommentsNext]_commentVars, ~disturbed'
             PROVE  \E b, k, t : FollowsHistory(b, k, t)'
    BY DEF CommentsInv
<1>1. CASE UNCHANGED commentVars
  <2>1. /\ UNCHANGED <<engine, comments, docVersion, docDiffs>>
        /\ UNCHANGED <<readerRights, reader, upstream, wire, turn, named, unheard, disturbed>>
    BY <1>1 DEF commentVars, threadVars, noteVars
  <2>2. PICK a, h, s : FollowsHistory(a, h, s)
    BY <2>1 DEF CommentsInv
  <2>3. UNCHANGED threadVars /\ UNCHANGED readerRights
    BY <2>1 DEF threadVars
  <2>4. Later(a, a, h, h, s, s) /\ \A q \in Readers : Truths(q, a, h)' = Truths(q, a, h)
    BY <2>2, <2>3, SameLater
  <2>5. ASSUME NEW q \in Readers
        PROVE  ReaderInv(q, a, h, s)'
    <3>1. ReaderInv(q, a, h, s) /\ wire[q] \in Seq(Truths(q, a, h))
        BY <2>2 DEF FollowsHistory, ReaderInv
    <3>2. Len(wire[q]) \in Nat
        BY <3>1, LenProperties
    <3> QED
        BY <2>1, <2>4, <3>1, <3>2, ReaderLater DEF Grown
  <2>6. FollowsHistory(a, h, s)'
    BY <2>1, <2>2, <2>5
       DEF FollowsHistory, Shapes, Shaped, History, Kept, Current, MidTurn, OneTitle
  <2> QED
    BY <2>6
<1>2. CASE CommentsNext
  <2>1. PICK p \in Readers :
            \/ Compose(p) \/ Resubmit(p) \/ Receive(p) \/ Reconnect(p) \/ Reload(p) \/ Downgrade(p)
            \/ Discard(p) \/ AcceptDiff(p) \/ TitleSaved(p) \/ AnswerOther(p)
            \/ Native_Compare(p) \/ Native_Push(p) \/ Tell(p)
    BY <1>2 DEF CommentsNext
  <2>2. PICK a, h, s : FollowsHistory(a, h, s)
    BY <1>2 DEF CommentsNext, CommentsInv
  <2>3. CASE Compose(p)
    BY <2>2, <2>3, ComposeInv
  <2>4. CASE Resubmit(p)
    BY <2>2, <2>4, ResubmitInv
  <2>5. CASE Receive(p)
    BY <2>2, <2>5, ReceiveInv
  <2>6. CASE Reconnect(p)
    BY <2>2, <2>6, ReconnectInv
  <2>7. CASE Reload(p)
    <3>1. ~MidTurn
        BY <2>7 DEF Reload
    <3> QED
        BY <2>2, <2>7, <3>1, ReloadInv
  <2>8. CASE Downgrade(p)
    BY <2>2, <2>8, DowngradeInv
  <2>9. CASE Discard(p)
    <3> QED
        BY <2>2, <2>9, DiscardInv
  <2>10. CASE AcceptDiff(p)
    BY <2>2, <2>10, AcceptDiffInv
  <2>11. CASE TitleSaved(p)
    BY <2>2, <2>11, TitleSavedInv
  <2>12. CASE AnswerOther(p)
    BY <2>2, <2>12, AnswerOtherInv
  <2>13. CASE Native_Compare(p)
    BY <2>2, <2>13, NativeCompareInv
  <2>14. CASE Native_Push(p)
    BY <2>2, <2>14, NativePushInv
  <2>15. CASE Tell(p)
    BY <2>2, <2>15, TellInv
  <2> QED
    BY <2>1, <2>3, <2>4, <2>5, <2>6, <2>7, <2>8, <2>9, <2>10, <2>11, <2>12, <2>13, <2>14, <2>15
<1> QED
    BY <1>1, <1>2

(* The copies of the comments follow the session's: whoever has its version has its         *)
(* comments, as far as it may see them, and nobody waits for an answer that will not come,  *)
(* however diffs cross, come late or are lost (update_comments, send_updates and            *)
(* check_version of consumers.py, and the native service's handle_diff), as long as no      *)
(* update fails half-way and no request comes between the steps of a handler.  Who only     *)
(* comments or reviews and whose last diff had no step was not answered (only_comments).    *)
THEOREM CommentsFollowCorrect == CommentsInit /\ [][CommentsNext]_commentVars => []CommentsFollow
<1> QED
    BY CommentsInitInv, CommentsStepInv, CommentsInvFollow, PTL

-----------------------------------------------------------------------------
(* The types of Comments.                                                  *)

\* What no, one or two updates make of the comments, if one that raises ends it.
AtFirst(cs) == [cs |-> cs, raised |-> FALSE]
LEMMA RunsRaising ==
    ASSUME NEW cs, NEW cu, Len(cu) \in {0, 1, 2}
    PROVE  Updated(cs, cu) =
               IF Len(cu) = 0 THEN AtFirst(cs)
               ELSE IF Len(cu) = 1 THEN Raising(AtFirst(cs), cu[1])
               ELSE Raising(Raising(AtFirst(cs), cu[1]), cu[2])
<1>1. PICK n \in {0, 1, 2} : n = Len(cu)
    OBVIOUS
<1>2. PICK x : x = AtFirst(cs)
    OBVIOUS
<1> DEFINE Step(f) == [k \in 0..n |-> IF k = 0 THEN x ELSE Raising(f[k - 1], cu[k])]
           run == [k \in 0..n |->
                      IF k = 0 THEN x
                      ELSE IF k = 1 THEN Raising(x, cu[1])
                      ELSE Raising(Raising(x, cu[1]), cu[2])]
           after == CHOOSE f : f = Step(f)
<1>3. run = Step(run)
  <2>1. ASSUME NEW k \in 0..n
        PROVE  run[k] = IF k = 0 THEN x ELSE Raising(run[k - 1], cu[k])
    <3>1. CASE k = 0
        BY <3>1
    <3>2. CASE k = 1
      <4>1. 0 \in 0..n /\ 1 \in 0..n
        BY <3>2
      <4>2. run[0] = x /\ run[1] = Raising(x, cu[1])
        BY <4>1
      <4> HIDE DEF run
      <4> QED
        BY <3>2, <4>2
    <3>3. CASE k = 2
      <4>1. 1 \in 0..n /\ 2 \in 0..n
        BY <3>3
      <4>2. run[1] = Raising(x, cu[1]) /\ run[2] = Raising(Raising(x, cu[1]), cu[2])
        BY <4>1
      <4> HIDE DEF run
      <4> QED
        BY <3>3, <4>2
    <3> QED
        BY <3>1, <3>2, <3>3
  <2> QED
    BY <2>1
<1>4. after = Step(after)
  <2>1. \E f : f = Step(f)
    BY <1>3
  <2> QED
    BY <2>1
<1>5. Updated(cs, cu) = after[n]
    BY <1>1, <1>2 DEF Updated, AtFirst
<1> HIDE DEF after
<1>6. after[0] = x
    BY <1>4
<1>7. n # 0 => after[1] = Raising(after[0], cu[1])
    BY <1>4
<1>8. n = 2 => after[2] = Raising(after[1], cu[2])
    BY <1>4
<1>9. CASE n = 0
    BY <1>1, <1>2, <1>5, <1>6, <1>9
<1>10. CASE n = 1
    BY <1>1, <1>2, <1>5, <1>6, <1>7, <1>10
<1>11. CASE n = 2
    BY <1>1, <1>2, <1>5, <1>6, <1>7, <1>8, <1>11
<1> QED
    BY <1>9, <1>10, <1>11

\* An update that raises leaves what fits fitting, as any other does.
Attempts == [cs : States, raised : BOOLEAN]
LEMMA RaisingFits ==
    ASSUME NEW author, NEW r \in Attempts, Fits(r.cs, author), NEW u, Sound(u, author)
    PROVE  Raising(r, u) \in Attempts /\ Fits(Raising(r, u).cs, author)
<1>1. CASE r.raised
    BY <1>1 DEF Raising
<1>2. CASE ~r.raised /\ MissingFor(r.cs, u)
  <2>1. Raising(r, u) = [r EXCEPT !.raised = TRUE]
    BY <1>2 DEF Raising
  <2>2. [r EXCEPT !.raised = TRUE] \in Attempts /\ [r EXCEPT !.raised = TRUE].cs = r.cs
    BY DEF Attempts
  <2> QED
    BY <2>1, <2>2
<1>3. CASE ~r.raised /\ ~MissingFor(r.cs, u)
  <2>1. PICK now : now = Changed(r.cs, u)
    OBVIOUS
  <2>2. Passing(r.cs, u) = now
    BY <1>3, <2>1 DEF Passing
  <2>3. Fits(now, author) /\ now \in States
    BY <2>2, PassingFits DEF Fits
  <2>4. Raising(r, u) = [r EXCEPT !.cs = now]
    BY <1>3, <2>1 DEF Raising
  <2>5. [r EXCEPT !.cs = now] \in Attempts /\ [r EXCEPT !.cs = now].cs = now
    BY <2>3 DEF Attempts
  <2> QED
    BY <2>3, <2>4, <2>5
<1> QED
    BY <1>1, <1>2, <1>3

LEMMA UpdatedByFits ==
    ASSUME NEW author, NEW cs, Fits(cs, author), NEW cu, Good(cu, author)
    PROVE  UpdatedBy(cs, cu).cs \in States
<1>1. /\ Len(cu) \in {0, 1, 2}
      /\ Len(cu) # 0 => Sound(cu[1], author)
      /\ Len(cu) = 2 => Sound(cu[2], author)
    BY GoodEntries
<1>2. PICK x \in Attempts : x = AtFirst(cs) /\ Fits(x.cs, author)
  <2>1. cs \in States
    BY DEF Fits
  <2>2. AtFirst(cs) \in Attempts /\ AtFirst(cs).cs = cs
    BY <2>1 DEF AtFirst, Attempts
  <2> QED
    BY <2>2
<1>3. Len(cu) # 0 => Raising(x, cu[1]) \in Attempts /\ Fits(Raising(x, cu[1]).cs, author)
    BY <1>1, <1>2, RaisingFits
<1>4. Len(cu) = 2 => Raising(Raising(x, cu[1]), cu[2]) \in Attempts
    BY <1>1, <1>3, RaisingFits
<1>5. Updated(cs, cu) \in Attempts
    BY <1>1, <1>2, <1>3, <1>4, RunsRaising
<1>6. Native_Updated(cs, cu) \in States
    BY UpdatedFits DEF Fits
<1> QED
    BY <1>5, <1>6 DEF UpdatedBy, Attempts

\* The invariant above is about more than the types, but for the number of diffs that are kept.
WithinHistory == Len(docDiffs) <= CommentHistory
Disturbed == disturbed
LEMMA InvTypes == CommentsInv /\ WithinHistory => Disturbed \/ CommentsTypeOK
<1> SUFFICES ASSUME CommentsInv, ~disturbed, WithinHistory
             PROVE  CommentsTypeOK
    BY DEF Disturbed
<1>1. PICK a, h, s : FollowsHistory(a, h, s)
    BY DEF CommentsInv
<1>2. comments \in States
    BY <1>1, CommentsFit
<1>3. /\ engine \in {"python", "native"} /\ readerRights \in [Readers -> AllRights]
      /\ docVersion \in Nat /\ \A p \in Readers : CopyFits(p, a, s)
    BY <1>1 DEF FollowsHistory, History, ReaderInv
<1>4. \A p \in Readers : reader[p].sees \in States
    BY <1>3 DEF CopyFits, Fits
<1> QED
    BY <1>2, <1>3, <1>4 DEF CommentsTypeOK, States, WithinHistory

LEMMA PushedKept ==
    ASSUME docDiffs \in Seq(Diffs), NEW d \in Diffs, Pushed(d)
    PROVE  Len(docDiffs') <= CommentHistory
<1>1. PICK x \in Seq(Diffs) : x = Append(docDiffs, d)
    BY AppendProperties
<1>2. PICK len \in Nat : len = Len(x)
    BY <1>1, LenProperties
<1>3. CommentHistory \in Nat /\ CommentHistory > 0
    BY CommentsAssumption
<1>4. CASE len > CommentHistory
  <2>1. PICK lo \in Nat : lo = len - CommentHistory + 1 /\ lo > 0 /\ lo <= len
    BY <1>3, <1>4
  <2>2. docDiffs' = SubSeq(x, lo, len)
    BY <1>1, <1>2, <1>4, <2>1 DEF Pushed, Taken
  <2>3. \A i \in lo..len : x[i] \in Diffs
    BY <1>2, <2>1, ElementOfSeq
  <2>4. Len(SubSeq(x, lo, len)) = len - lo + 1
    BY <2>1, <2>3, SubSeqProperties
  <2> QED
    BY <1>3, <2>1, <2>2, <2>4
<1>5. CASE ~(len > CommentHistory)
  <2>1. docDiffs' = SubSeq(x, 1, len)
    BY <1>1, <1>2, <1>5 DEF Pushed, Taken
  <2>2. \A i \in 1..len : x[i] \in Diffs
    BY <1>2, ElementOfSeq
  <2>3. Len(SubSeq(x, 1, len)) = len
    BY <2>2, SubSeqProperties
  <2> QED
    BY <1>3, <1>5, <2>1, <2>3
<1> QED
    BY <1>4, <1>5

\* A copy that is loaded is one of the comments, whenever it is loaded.
LEMMA LoadedTyped ==
    ASSUME NEW a, NEW h, NEW s, FollowsHistory(a, h, s), CommentsTypeOK, NEW p \in Readers,
           UNCHANGED threadVars, UNCHANGED readerRights,
           reader' = [reader EXCEPT ![p] = Loaded(p)]
    PROVE  CommentsTypeOK'
<1>1. Shown(comments, p) \in States
    BY CommentsFit, ShownAgree DEF Fits
<1>2. \A q \in Readers : reader'[q].sees = IF q = p THEN Shown(comments, p) ELSE reader[q].sees
  <2>1. Shaped(reader) /\ Loaded(p).sees = Shown(comments, p)
    BY DEF FollowsHistory, Shapes, Loaded
  <2>2. reader'[p] = Loaded(p) /\ \A q \in Readers : q # p => reader'[q] = reader[q]
    BY <2>1, PutShaped DEF Shaped
  <2> QED
    BY <2>1, <2>2
<1> QED
    BY <1>1, <1>2 DEF CommentsTypeOK, States, threadVars

\* The end of a handler that fails half-way leaves the types.
LEMMA ConcludeTyped ==
    ASSUME NEW a, NEW h, NEW s, FollowsHistory(a, h, s), CommentsTypeOK, NEW p \in Readers,
           NEW d, Good(d.updates, a), Conclude(p, d)
    PROVE  comments' \in States /\ \A q \in Readers : reader'[q].sees \in States
<1>1. comments' \in States
    BY CommentsFit, UpdatedByFits DEF Conclude
<1>2. reader' = reader \/ reader' = [reader EXCEPT ![p].up = FALSE]
    BY DEF Conclude
<1>3. \A q \in Readers : reader[q] \in Copies /\ reader[q].sees \in States
    BY DEF FollowsHistory, ReaderInv, CopyFits, Fits
<1>4. CASE reader' = [reader EXCEPT ![p].up = FALSE]
  <2>1. PICK e : e = [reader[p] EXCEPT !.up = FALSE]
    OBVIOUS
  <2>2. e.sees = reader[p].sees
    BY <1>3, <2>1 DEF Copies
  <2>3. Shaped(reader) /\ reader' = [reader EXCEPT ![p] = e]
    BY <1>4, <2>1 DEF FollowsHistory, Shapes
  <2>4. reader'[p] = e /\ \A q \in Readers : q # p => reader'[q] = reader[q]
    BY <2>3, PutShaped DEF Shaped
  <2> QED
    BY <1>1, <1>3, <2>2, <2>4
<1> QED
    BY <1>1, <1>2, <1>3, <1>4

LEMMA CommentsTypeStep ==
    ASSUME CommentsInv, CommentsTypeOK, [CommentsNext]_commentVars
    PROVE  WithinHistory' /\ (~Disturbed \/ CommentsTypeOK)'
<1> USE DEF WithinHistory, Disturbed
<1>1. CASE UNCHANGED commentVars
    BY <1>1 DEF CommentsTypeOK, commentVars, threadVars
<1>2. CASE CommentsNext
  <2>1. PICK a, h, s : FollowsHistory(a, h, s)
    BY <1>2 DEF CommentsNext, CommentsInv
  <2>2. /\ docDiffs \in Seq(Diffs) /\ docVersion \in Nat
        /\ \A p \in Readers : ReaderInv(p, a, h, s)
        /\ \A v \in Nat : v < docVersion => Good(h[v].updates, a)
    BY <2>1 DEF FollowsHistory, Kept, History
  <2>3. CommentsTypeOK' => WithinHistory'
    BY DEF CommentsTypeOK
  <2>4. ASSUME NEW p \in Readers, AcceptDiff(p)
        PROVE  CommentsTypeOK'
    <3>1. /\ upstream[p] # NoDiff /\ Pushed(upstream[p])
          /\ UNCHANGED <<engine, readerRights>>
        BY <2>4 DEF AcceptDiff
    <3>2. PICK d \in Diffs : d = upstream[p] /\ Good(d.updates, a)
        BY <2>2, <2>4, <3>1 DEF ReaderInv, SentFits, Mine
    <3>3. Len(docDiffs') <= CommentHistory /\ docVersion' \in Nat
        BY <2>2, <3>1, <3>2, PushedKept DEF Pushed
    <3>4. comments' \in States /\ \A q \in Readers : reader'[q].sees \in States
      <4>1. CASE UNCHANGED <<comments, wire, reader>>
        BY <4>1 DEF CommentsTypeOK, States
      <4>2. CASE Conclude(p, d)
        BY <2>1, <2>4, <3>2, <4>2, ConcludeTyped
      <4> QED
        BY <2>4, <3>2, <4>1, <4>2 DEF AcceptDiff
    <3> QED
        BY <3>1, <3>3, <3>4 DEF CommentsTypeOK, States
  <2>5. ASSUME NEW p \in Readers, TitleSaved(p)
        PROVE  CommentsTypeOK'
    <3>1. /\ turn[p].step = "title" /\ Conclude(p, turn[p].diff)
          /\ UNCHANGED <<engine, docVersion, docDiffs, readerRights>>
        BY <2>5 DEF TitleSaved
    <3>2. PICK d \in Diffs : d = turn[p].diff /\ Accepted(p, d, h)
      <4>1. TurnFits(p, a, h) /\ turn[p] # Resting
        BY <2>2, <2>5, <3>1 DEF ReaderInv, Resting
      <4> QED
        BY <3>1, <4>1 DEF TurnFits
    <3>3. Good(d.updates, a)
        BY <2>2, <3>2 DEF Accepted, Diffs
    <3>4. comments' \in States /\ \A q \in Readers : reader'[q].sees \in States
        BY <2>1, <2>5, <3>1, <3>2, <3>3, ConcludeTyped
    <3> QED
        BY <3>1, <3>4 DEF CommentsTypeOK, States
  <2>6. ASSUME NEW p \in Readers, Native_Push(p)
        PROVE  CommentsTypeOK'
    <3>1. /\ turn[p].step = "push" /\ Pushed(turn[p].diff)
          /\ comments' = Native_Updated(comments, turn[p].diff.updates)
          /\ UNCHANGED <<engine, readerRights, reader>>
        BY <2>6 DEF Native_Push
    <3>2. PICK d \in Diffs : d = turn[p].diff /\ Good(d.updates, a)
      <4>1. TurnFits(p, a, h) /\ turn[p] # Resting
        BY <2>2, <2>6, <3>1 DEF ReaderInv, Resting
      <4>2. turn[p].diff \in Diffs /\ Mine(p, turn[p].diff.updates, a)
        BY <3>1, <4>1 DEF TurnFits
      <4> QED
        BY <4>2 DEF Mine
    <3>3. Len(docDiffs') <= CommentHistory /\ docVersion' \in Nat
        BY <2>2, <3>1, <3>2, PushedKept DEF Pushed
    <3>4. comments' \in States
        BY <2>1, <3>1, <3>2, CommentsFit, UpdatedFits DEF Fits
    <3> QED
        BY <3>1, <3>3, <3>4 DEF CommentsTypeOK, States
  <2>7. ASSUME NEW p \in Readers, Receive(p)
        PROVE  WithinHistory' /\ (disturbed' => CommentsTypeOK')
    <3>1. UNCHANGED threadVars /\ UNCHANGED readerRights /\ docDiffs' = docDiffs
        BY <2>7 DEF Receive, threadVars
    <3>2. CASE UNCHANGED disturbed
        BY <1>2, <3>1, <3>2 DEF CommentsNext, CommentsTypeOK
    <3>3. CASE reader' = [reader EXCEPT ![p] = Loaded(p)]
        BY <2>1, <2>3, <2>7, <3>1, <3>3, LoadedTyped
    <3> QED
        BY <2>7, <3>2, <3>3 DEF Receive
  <2>8. ASSUME NEW p \in Readers, Reload(p)
        PROVE  CommentsTypeOK'
    <3>1. /\ UNCHANGED threadVars /\ UNCHANGED readerRights
          /\ reader' = [reader EXCEPT ![p] = Loaded(p)]
        BY <2>8 DEF Reload
    <3> QED
        BY <2>1, <2>8, <3>1, LoadedTyped
  <2>9. ASSUME UNCHANGED threadVars, UNCHANGED disturbed
        PROVE  WithinHistory' /\ ~disturbed'
    BY <1>2, <2>9 DEF CommentsNext, threadVars, CommentsTypeOK
  <2> QED
    BY <1>2, <2>3, <2>4, <2>5, <2>6, <2>7, <2>8, <2>9
       DEF CommentsNext, Compose, Resubmit, Reconnect, Downgrade, Discard, AnswerOther,
           Native_Compare, Tell
<1> QED
    BY <1>1, <1>2

\* Comments are whole, the session's and each reader's, even where an update raised or a reader
\* came between the steps of a handler; and no more diffs are kept than the limit allows
\* (update_comments, handle_diff, filter_comments_by_role).
THEOREM CommentsTypeCorrect == CommentsInit /\ [][CommentsNext]_commentVars => []CommentsTypeOK
<1>1. CommentsInit => WithinHistory /\ ~Disturbed
    BY CommentsAssumption, EmptySeq DEF CommentsInit, WithinHistory, Disturbed
<1>2. CommentsInv /\ CommentsTypeOK /\ [CommentsNext]_commentVars
          => WithinHistory' /\ (~Disturbed \/ CommentsTypeOK)'
    BY CommentsTypeStep
<1> QED
    BY <1>1, <1>2, InvTypes, CommentsInitInv, CommentsStepInv, PTL

-----------------------------------------------------------------------------
(* Messages on a connection.                                               *)

\* The frames of the client name what it had seen, ever more of it.
Frames ==
    /\ \A i \in 1..Len(up) : up[i].s <= seen
    /\ \A i, j \in 1..Len(up) : i <= j => up[i].s <= up[j].s

\* The client's messages are dealt with one number after the other.
ClientAnswered ==
    /\ Len(answers) = client
    /\ \A i \in 1..Len(answers) : answers[i].c = i

\* A frame carries the message of its number, ...
BodyIsNumber == \A i \in 1..Len(down) : down[i].body = down[i].s
\* ... and so the client has the first of them.
GotFirst == Len(got) = seen /\ seen <= made /\ \A i \in 1..Len(got) : got[i] = i

\* What is still to be sent goes on after a number, up to the last message made,
\* and a new one after it.
EndsFresh(ms) == ms # <<>> /\ ms[Len(ms)] = Fresh
Consecutive(ms, no, last) ==
    /\ \A i \in 1..Len(ms) : ms[i] = no + i \/ (i = Len(ms) /\ ms[i] = Fresh)
    /\ no + Len(ms) = IF EndsFresh(ms) THEN last + 1 ELSE last
PendingFollows == Consecutive(pending, server, made)

\* As far back as it can be asked for, the ring ends with the messages last numbered.
Asked == {seen} \cup {up[i].s : i \in 1..Len(up)}
EndsWith(r, no, from) ==
    \A f \in from, j \in 0..(Len(r) - 1) : f < no - j => r[Len(r) - j] = no - j
RingFollows == EndsWith(ring, server, Asked)

\* A client that asks lacks something.
RequestsLack == \A i \in 1..Len(up) : up[i].type = "request_resend" => up[i].s < made

\* What is handled was sent by one who had seen all.
AnswersComplete == \A i \in 1..Len(answers) : answers[i].handled => answers[i].complete

InOrder ==
    ~gaveUp /\ ~overtaken =>
        /\ BodyIsNumber /\ GotFirst /\ PendingFollows
        /\ RingFollows /\ RequestsLack /\ AnswersComplete

ProtocolInv == ProtocolTypeOK /\ Frames /\ ClientAnswered /\ InOrder

FramesDown(last) == [s : Nat, body : 1..last]
Up == [type : Types \cup {"request_resend"}, c : Nat, s : Nat]
Answers == [c : Nat, handled : BOOLEAN, complete : BOOLEAN]
ToSend(last) == {Fresh} \cup (1..last)

-----------------------------------------------------------------------------
(* The operators.                                                          *)

\* The ring after one more message.
LEMMA RingGrown ==
    ASSUME NEW last \in Nat, NEW r \in Seq(1..last), NEW b \in 1..last
    PROVE  LET q == LastTen(Append(r, b))
           IN  /\ q \in Seq(1..last) /\ Len(q) <= RingSize
               /\ Len(q) <= Len(r) + 1
               /\ \A j \in 0..(Len(q) - 1) :
                    q[Len(q) - j] = IF j = 0 THEN b ELSE r[Len(r) - (j - 1)]
<1> DEFINE p == Append(r, b)
           n == Len(r) + 1
           first == IF RingSize > n THEN 0 ELSE n - RingSize
           q == LastTen(p)
<1>1. /\ p \in Seq(1..last) /\ Len(p) = n /\ Len(r) \in Nat /\ p[n] = b
      /\ \A i \in 1..Len(r) : p[i] = r[i]
    BY AppendProperties, LenProperties
<1>2. RingSize \in Nat /\ RingSize > 0
    BY RingAssumption
<1>3. q = SubSeq(p, first + 1, n)
  <2> DEFINE i == -RingSize
  <2>1. i \in Int /\ ~(i >= 0) /\ -i = RingSize
      BY <1>2
  <2> HIDE DEF i, p
  <2>2. From(p, i) = SubSeq(p, (IF -i > Len(p) THEN 0 ELSE Len(p) + i) + 1, Len(p))
      BY <2>1, Zenon DEF From
  <2>3. (IF -i > Len(p) THEN 0 ELSE Len(p) + i) = first
      BY <1>1, <1>2, <2>1
  <2>4. From(p, i) = SubSeq(p, first + 1, n)
      BY <1>1, <2>2, <2>3
  <2> QED
      BY <2>4 DEF LastTen, i, p
<1>4. first \in Nat /\ first + 1 <= n /\ n - first <= RingSize
    BY <1>1, <1>2
<1>5. \A i \in (first + 1)..n : p[i] \in 1..last
    BY <1>1, <1>4, ElementOfSeq
<1> HIDE DEF p, q, first
<1>6. /\ q \in Seq(1..last) /\ Len(q) = n - first
      /\ \A i \in 1..(n - first) : q[i] = p[first + i]
  <2>1. /\ q \in Seq(1..last) /\ Len(q) = (IF first + 1 <= n THEN n - (first + 1) + 1 ELSE 0)
        /\ \A i \in 1..(n - (first + 1) + 1) : q[i] = p[(first + 1) + i - 1]
      BY <1>1, <1>3, <1>4, <1>5, SubSeqProperties
  <2> QED
      BY <1>1, <1>4, <2>1
<1>7. ASSUME NEW j \in 0..(Len(q) - 1)
      PROVE  q[Len(q) - j] = IF j = 0 THEN b ELSE r[Len(r) - (j - 1)]
  <2>1. Len(q) - j \in 1..(n - first) /\ first + (Len(q) - j) = n - j
      BY <1>1, <1>4, <1>6
  <2>2. q[Len(q) - j] = p[n - j]
      BY <1>6, <2>1
  <2>3. j # 0 => n - j \in 1..Len(r) /\ n - j = Len(r) - (j - 1)
      BY <1>1, <1>4, <1>6
  <2>4. CASE j = 0
      BY <1>1, <2>2, <2>4
  <2>5. CASE j # 0
      BY <1>1, <2>2, <2>3, <2>5
  <2> QED
      BY <2>4, <2>5
<1> QED
    BY <1>1, <1>4, <1>6, <1>7 DEF q, p

\* A message is stamped: everything stays in its domain, and is where it belongs.
Body(m) == IF m = Fresh THEN made + 1 ELSE m
LEMMA Stamped ==
    ASSUME ProtocolTypeOK, NEW m \in ToSend(made), NEW no \in Nat, Stamp(m, no)
    PROVE  /\ server' = no + 1 /\ made' \in Nat /\ made <= made'
           /\ made' = IF m = Fresh THEN made + 1 ELSE made
           /\ Body(m) \in 1..made'
           /\ ring' \in Seq(1..made') /\ Len(ring') <= RingSize /\ Len(ring') <= Len(ring) + 1
           /\ \A j \in 0..(Len(ring') - 1) :
                ring'[Len(ring') - j] = IF j = 0 THEN Body(m) ELSE ring[Len(ring) - (j - 1)]
           /\ down' \in Seq(FramesDown(made')) /\ Len(down') = Len(down) + 1
           /\ \A i \in 1..Len(down) : down'[i] = down[i]
           /\ down'[Len(down) + 1] = [s |-> no + 1, body |-> Body(m)]
<1>1. made \in Nat /\ ring \in Seq(1..made) /\ down \in Seq(FramesDown(made))
    BY DEF ProtocolTypeOK, FramesDown
<1>2. made' \in Nat /\ made <= made' /\ made' = IF m = Fresh THEN made + 1 ELSE made
    BY <1>1 DEF Stamp
<1>3. Body(m) \in 1..made'
    BY <1>1, <1>2 DEF Body, ToSend, Fresh
<1>4. ring \in Seq(1..made') /\ down \in Seq(FramesDown(made'))
  <2>1. 1..made \subseteq 1..made' /\ FramesDown(made) \subseteq FramesDown(made')
      BY <1>1, <1>2 DEF FramesDown
  <2> QED
      BY <1>1, <2>1, SeqMonotonic
<1>5. ring' = LastTen(Append(ring, Body(m)))
    BY DEF Stamp, Body
<1>6. down' = Append(down, [s |-> no + 1, body |-> Body(m)])
    BY DEF Stamp, Body
<1>7. [s |-> no + 1, body |-> Body(m)] \in FramesDown(made')
    BY <1>3 DEF FramesDown
<1>8. /\ down' \in Seq(FramesDown(made')) /\ Len(down') = Len(down) + 1
      /\ \A i \in 1..Len(down) : down'[i] = down[i]
      /\ down'[Len(down) + 1] = [s |-> no + 1, body |-> Body(m)]
    BY <1>4, <1>6, <1>7, AppendProperties
<1>9. server' = no + 1
    BY DEF Stamp
<1> QED
    BY <1>2, <1>3, <1>4, <1>5, <1>8, <1>9, RingGrown, SMTT(20)

\* What a handler sends, and keeps to send later.
LEMMA SentTypes ==
    ASSUME ProtocolTypeOK, NEW ms \in Seq(ToSend(made)), NEW no \in Nat, Send(ms, no)
    PROVE  /\ server' \in Nat /\ made' \in Nat /\ made <= made'
           /\ ring' \in Seq(1..made') /\ Len(ring') <= RingSize
           /\ pending' \in Seq(ToSend(made'))
           /\ down' \in Seq(FramesDown(made'))
<1>1. CASE ms = <<>>
    BY <1>1, EmptySeq DEF Send, ProtocolTypeOK, FramesDown
<1>2. CASE ms # <<>>
  <2>1. /\ Head(ms) \in ToSend(made) /\ Tail(ms) \in Seq(ToSend(made))
        /\ Stamp(Head(ms), no) /\ pending' = Tail(ms)
      BY <1>2, HeadTailProperties DEF Send
  <2>2. /\ server' = no + 1 /\ made' \in Nat /\ made <= made'
        /\ ring' \in Seq(1..made') /\ Len(ring') <= RingSize
        /\ down' \in Seq(FramesDown(made'))
      BY <2>1, Stamped
  <2>3. ToSend(made) \subseteq ToSend(made')
    <3>1. made \in Nat /\ made' \in Nat /\ made <= made'
        BY <2>2 DEF ProtocolTypeOK
    <3> QED
        BY <3>1 DEF ToSend
  <2>4. pending' \in Seq(ToSend(made'))
      BY <2>1, <2>3, SeqMonotonic
  <2> QED
      BY <2>2, <2>4
<1> QED
    BY <1>1, <1>2

\* Messages that follow the counter are sent under their own numbers.
LEMMA SentInOrder ==
    ASSUME ProtocolTypeOK, NEW ms \in Seq(ToSend(made)), NEW no \in Nat, Send(ms, no),
           BodyIsNumber, Consecutive(ms, no, made),
           NEW from \in SUBSET Nat, EndsWith(ring, no, from)
    PROVE  BodyIsNumber' /\ PendingFollows' /\ EndsWith(ring', server', from)
<1>1. CASE ms = <<>>
    BY <1>1 DEF Send, BodyIsNumber, PendingFollows, Consecutive, EndsWith, EndsFresh
<1>2. CASE ms # <<>>
  <2> DEFINE m == Head(ms)
             rest == Tail(ms)
  <2>1. /\ m \in ToSend(made) /\ rest \in Seq(ToSend(made))
        /\ Len(rest) = Len(ms) - 1 /\ Len(ms) \in Nat \ {0} /\ m = ms[1]
        /\ \A i \in 1..Len(rest) : rest[i] = ms[i + 1]
      BY <1>2, HeadTailProperties, EmptySeq
  <2>2. Stamp(m, no) /\ pending' = rest
      BY <1>2 DEF Send
  <2> HIDE DEF m, rest
  <2>3. /\ server' = no + 1 /\ made \in Nat /\ made' = IF m = Fresh THEN made + 1 ELSE made
        /\ Len(ring') <= Len(ring) + 1 /\ Len(ring) \in Nat /\ Len(ring') \in Nat
        /\ \A j \in 0..(Len(ring') - 1) :
             ring'[Len(ring') - j] = IF j = 0 THEN Body(m) ELSE ring[Len(ring) - (j - 1)]
        /\ Len(down') = Len(down) + 1 /\ Len(down) \in Nat
        /\ \A i \in 1..Len(down) : down'[i] = down[i]
        /\ down'[Len(down) + 1] = [s |-> no + 1, body |-> Body(m)]
    <3>1. made \in Nat /\ ring \in Seq(1..made) /\ down \in Seq(FramesDown(made))
        BY DEF ProtocolTypeOK, FramesDown
    <3>2. Len(ring) \in Nat /\ Len(down) \in Nat
        BY <3>1, LenProperties
    <3>3. ring' \in Seq(1..made')
        BY <2>1, <2>2, Stamped
    <3>4. Len(ring') \in Nat
        BY <3>3, LenProperties
    <3> QED
        BY <2>1, <2>2, <3>1, <3>2, <3>4, Stamped
  <2>4. Body(m) = no + 1
    <3>1. CASE m = Fresh
      <4>0. 1 \in 1..Len(ms) /\ no + 1 # Fresh
          BY <2>1 DEF Fresh
      <4>1. Len(ms) = 1
          BY <2>1, <3>1, <4>0 DEF Consecutive
      <4>2. EndsFresh(ms)
          BY <1>2, <2>1, <3>1, <4>1 DEF EndsFresh
      <4> QED
          BY <2>3, <3>1, <4>1, <4>2 DEF Consecutive, Body
    <3>2. CASE m # Fresh
        BY <2>1, <3>2 DEF Consecutive, Body
    <3> QED
        BY <3>1, <3>2
  <2>5. BodyIsNumber'
    <3>1. ASSUME NEW i \in 1..Len(down')
          PROVE  down'[i].body = down'[i].s
      <4>1. i = Len(down) + 1 \/ i \in 1..Len(down)
          BY <2>3, <3>1
      <4>2. CASE i = Len(down) + 1
          BY <2>3, <2>4, <4>2
      <4>3. CASE i \in 1..Len(down)
        <5>1. down'[i] = down[i]
            BY <2>3, <4>3
        <5> QED
            BY <4>3, <5>1 DEF BodyIsNumber
      <4> QED
          BY <4>1, <4>2, <4>3
    <3> QED
        BY <3>1 DEF BodyIsNumber
  <2>6. EndsWith(ring', server', from)
    <3>1. ASSUME NEW f \in from, NEW j \in 0..(Len(ring') - 1), f < server' - j
          PROVE  ring'[Len(ring') - j] = server' - j
      <4>1. CASE j = 0
        <5>1. server' - j = no + 1
            BY <2>3, <4>1
        <5> QED
            BY <2>3, <2>4, <4>1, <5>1
      <4>2. CASE j # 0
        <5>1. j - 1 \in 0..(Len(ring) - 1) /\ f < no - (j - 1) /\ no - (j - 1) = server' - j
            BY <2>3, <3>1, <4>2
        <5>2. ring[Len(ring) - (j - 1)] = no - (j - 1)
            BY <5>1 DEF EndsWith
        <5> QED
            BY <2>3, <4>2, <5>1, <5>2
      <4> QED
          BY <4>1, <4>2
    <3> QED
        BY <3>1 DEF EndsWith
  <2>7. PendingFollows'
    <3>1. CASE rest = <<>>
      <4>1. Len(ms) = 1 /\ Len(rest) = 0
          BY <2>1, <3>1, EmptySeq
      <4>2. server' = made'
        <5>1. CASE m = Fresh
          <6>1. EndsFresh(ms)
              BY <1>2, <2>1, <4>1, <5>1 DEF EndsFresh
          <6> QED
              BY <2>3, <4>1, <5>1, <6>1 DEF Consecutive
        <5>2. CASE m # Fresh
          <6>1. ~EndsFresh(ms)
              BY <2>1, <4>1, <5>2 DEF EndsFresh
          <6> QED
              BY <2>3, <4>1, <5>2, <6>1 DEF Consecutive
        <5> QED
            BY <5>1, <5>2
      <4> QED
          BY <2>2, <2>3, <3>1, <4>1, <4>2 DEF PendingFollows, Consecutive, EndsFresh
    <3>2. CASE rest # <<>>
      <4>1. Len(rest) \in Nat \ {0}
          BY <2>1, <3>2, EmptySeq
      <4>2. m # Fresh
          BY <2>1, <4>1 DEF Consecutive, Fresh
      <4>3. EndsFresh(rest) <=> EndsFresh(ms)
          BY <1>2, <2>1, <3>2, <4>1 DEF EndsFresh
      <4>4. \A i \in 1..Len(rest) :
                rest[i] = server' + i \/ (i = Len(rest) /\ rest[i] = Fresh)
        <5>1. ASSUME NEW i \in 1..Len(rest)
              PROVE  rest[i] = server' + i \/ (i = Len(rest) /\ rest[i] = Fresh)
          <6>1. i + 1 \in 1..Len(ms) /\ rest[i] = ms[i + 1]
              BY <2>1
          <6>2. ms[i + 1] = no + (i + 1) \/ (i + 1 = Len(ms) /\ ms[i + 1] = Fresh)
              BY <6>1 DEF Consecutive
          <6> QED
              BY <2>1, <2>3, <6>1, <6>2
        <5> QED
            BY <5>1
      <4>5. server' + Len(rest) = IF EndsFresh(rest) THEN made' + 1 ELSE made'
        <5>1. no + Len(ms) = IF EndsFresh(ms) THEN made + 1 ELSE made
            BY DEF Consecutive
        <5>2. made' = made /\ server' + Len(rest) = no + Len(ms)
            BY <2>1, <2>3, <4>2
        <5> QED
            BY <4>3, <5>1, <5>2
      <4> QED
          BY <2>2, <4>4, <4>5 DEF PendingFollows, Consecutive, EndsFresh
    <3> QED
        BY <3>1, <3>2
  <2> QED
      BY <2>5, <2>6, <2>7
<1> QED
    BY <1>1, <1>2

LEMMA OneFresh == ASSUME NEW last PROVE <<>> \in Seq(ToSend(last)) /\ <<Fresh>> \in Seq(ToSend(last))
<1>1. Fresh \in ToSend(last)
    BY DEF ToSend
<1> QED
    BY <1>1

\* The end of the ring that is sent again.
LEMMA EndOfRing ==
    ASSUME ProtocolTypeOK, NEW from \in Nat, ~(Lacks(from) > Len(ring))
    PROVE  /\ LastOfRing(Lacks(from)) \in Seq(1..made)
           /\ server - Lacks(from) \in Nat
           /\ from < server =>
                /\ Lacks(from) = server - from /\ Len(LastOfRing(Lacks(from))) = server - from
                /\ \A i \in 1..(server - from) :
                    LastOfRing(Lacks(from))[i] = ring[Len(ring) - (server - from) + i]
<1> DEFINE n == Lacks(from)
           l == Len(ring)
<1>1. server \in Nat /\ made \in Nat /\ ring \in Seq(1..made) /\ l \in Nat
      /\ backend \in {"python", "native"}
    BY LenProperties DEF ProtocolTypeOK
<1>2. /\ n \in Int /\ n <= l /\ server - n \in Nat /\ (from < server => n = server - from)
      /\ backend = "native" => n >= 0
    BY <1>1 DEF Lacks
<1> HIDE DEF n
<1>3. \A k \in Nat : \A i \in (k + 1)..l : ring[i] \in 1..made
  <2>1. ASSUME NEW k \in Nat, NEW i \in (k + 1)..l PROVE ring[i] \in 1..made
    <3>1. i \in 1..l
        BY <1>1, <2>1
    <3> QED
        BY <1>1, <3>1, ElementOfSeq
  <2> QED
      BY <2>1
<1>4. \E k \in Nat : LastOfRing(n) = SubSeq(ring, k + 1, l) /\ (from < server => k = l - n)
  <2>1. CASE backend = "native"
    <3>1. LastOfRing(n) = SubSeq(ring, l - n + 1, l) /\ l - n \in Nat
        BY <1>1, <1>2, <2>1 DEF LastOfRing
    <3> QED
        BY <3>1
  <2>2. CASE backend = "python"
    <3> DEFINE i == -n
    <3>1. LastOfRing(n) = From(ring, i) /\ i \in Int
        BY <1>2, <2>2 DEF LastOfRing
    <3>2. CASE i >= 0
      <4>1. From(ring, i) = SubSeq(ring, i + 1, l)
          BY <3>2 DEF From
      <4>2. ~(from < server)
          BY <1>1, <1>2, <3>2
      <4>3. i \in Nat /\ LastOfRing(n) = SubSeq(ring, i + 1, l)
          BY <3>1, <3>2, <4>1
      <4> HIDE DEF i
      <4> QED
          BY <4>2, <4>3
    <3>3. CASE ~(i >= 0)
      <4>0. ~(-i > l) /\ l + i = l - n /\ l - n \in Nat
          BY <1>1, <1>2
      <4> HIDE DEF i
      <4>1. From(ring, i) = SubSeq(ring, (IF -i > l THEN 0 ELSE l + i) + 1, l)
          BY <3>3, Zenon DEF From
      <4>2. (IF -i > l THEN 0 ELSE l + i) = l - n
          BY <4>0
      <4>3. LastOfRing(n) = SubSeq(ring, (l - n) + 1, l)
          BY <3>1, <4>1, <4>2
      <4> QED
          BY <4>0, <4>3
    <3> QED
        BY <3>2, <3>3
  <2> QED
      BY <1>1, <2>1, <2>2
<1>5. PICK k \in Nat : LastOfRing(n) = SubSeq(ring, k + 1, l) /\ (from < server => k = l - n)
    BY <1>4
<1>6. /\ LastOfRing(n) \in Seq(1..made)
      /\ Len(LastOfRing(n)) = IF k + 1 <= l THEN l - (k + 1) + 1 ELSE 0
      /\ \A i \in 1..(l - (k + 1) + 1) : LastOfRing(n)[i] = ring[(k + 1) + i - 1]
  <2>1. \A i \in (k + 1)..l : ring[i] \in 1..made
      BY <1>3
  <2> HIDE DEF l
  <2> QED
      BY <1>1, <1>5, <2>1, SubSeqProperties
<1>7. ASSUME from < server
      PROVE  /\ Len(LastOfRing(n)) = server - from
             /\ \A i \in 1..(server - from) : LastOfRing(n)[i] = ring[l - (server - from) + i]
  <2>1. k = l - (server - from) /\ n = server - from /\ k + 1 <= l /\ l - (k + 1) + 1 = server - from
    <3>1. k = l - n /\ n = server - from
        BY <1>2, <1>5, <1>7
    <3> HIDE DEF l
    <3> QED
        BY <1>1, <1>2, <1>7, <3>1
  <2>2. ASSUME NEW i \in 1..(server - from)
        PROVE  LastOfRing(n)[i] = ring[l - (server - from) + i]
    <3>1. (k + 1) + i - 1 = l - (server - from) + i
        BY <1>1, <2>1
    <3>2. LastOfRing(n)[i] = ring[(k + 1) + i - 1]
        BY <1>6, <2>1
    <3> QED
        BY <3>1, <3>2
  <2> QED
      BY <1>6, <2>1, <2>2
<1> QED
    BY <1>2, <1>6, <1>7 DEF n

\* What resend_messages sends, in full.
ToResend(from, then) ==
    (IF Lacks(from) > Len(ring) THEN <<Fresh>> ELSE LastOfRing(Lacks(from))) \o then

LEMMA ResendTypes ==
    ASSUME ProtocolTypeOK, NEW from \in Nat, NEW then \in {<<>>, <<Fresh>>}, Resend(from, then)
    PROVE  /\ ToResend(from, then) \in Seq(ToSend(made))
           /\ server - Lacks(from) \in Nat
           /\ Send(ToResend(from, then), server - Lacks(from))
           /\ gaveUp' \in BOOLEAN /\ (gaveUp' <=> gaveUp \/ Lacks(from) > Len(ring))
<1> DEFINE first == IF Lacks(from) > Len(ring) THEN <<Fresh>> ELSE LastOfRing(Lacks(from))
<1>1. made \in Nat /\ server \in Nat /\ gaveUp \in BOOLEAN
    BY DEF ProtocolTypeOK
<1>2. <<Fresh>> \in Seq(ToSend(made)) /\ then \in Seq(ToSend(made))
    BY OneFresh
<1>3. first \in Seq(ToSend(made))
  <2>1. CASE Lacks(from) > Len(ring)
      BY <1>2, <2>1
  <2>2. CASE ~(Lacks(from) > Len(ring))
    <3>1. LastOfRing(Lacks(from)) \in Seq(1..made)
        BY <2>2, EndOfRing
    <3>2. 1..made \subseteq ToSend(made)
        BY DEF ToSend
    <3> QED
        BY <2>2, <3>1, <3>2, SeqMonotonic
  <2> QED
      BY <2>1, <2>2
<1>4. server - Lacks(from) \in Nat
    BY <1>1 DEF Lacks
<1>5. /\ Send(ToResend(from, then), server - Lacks(from))
      /\ gaveUp' = (gaveUp \/ Lacks(from) > Len(ring))
    BY DEF Resend, ToResend
<1> QED
    BY <1>1, <1>2, <1>3, <1>4, <1>5, ConcatProperties DEF ToResend

\* Unless the server gives up, it sends what was missed, under the old numbers.
LEMMA ResendInOrder ==
    ASSUME ProtocolTypeOK, NEW from \in Nat, from < server, from \in Asked,
           NEW then \in {<<>>, <<Fresh>>}, Resend(from, then), ~gaveUp',
           server = made, BodyIsNumber, RingFollows,
           NEW later \in SUBSET Nat, \A f \in later : from <= f
    PROVE  BodyIsNumber' /\ PendingFollows' /\ EndsWith(ring', server', later)
<1> DEFINE last == LastOfRing(Lacks(from))
           ms == ToResend(from, then)
<1>1. ~(Lacks(from) > Len(ring)) /\ ms \in Seq(ToSend(made)) /\ Send(ms, server - Lacks(from))
    BY ResendTypes
<1>2. /\ last \in Seq(1..made) /\ Lacks(from) = server - from /\ Len(last) = server - from
      /\ \A i \in 1..(server - from) : last[i] = ring[Len(ring) - (server - from) + i]
    BY <1>1, EndOfRing
<1>3. server \in Nat /\ made \in Nat /\ Len(ring) \in Nat
  <2>1. ring \in Seq(1..made)
      BY DEF ProtocolTypeOK
  <2> QED
      BY <2>1, LenProperties DEF ProtocolTypeOK
<1>4. server - Lacks(from) = from
    BY <1>2, <1>3
<1>5. \A i \in 1..(server - from) : last[i] = from + i
  <2>1. ASSUME NEW i \in 1..(server - from) PROVE last[i] = from + i
    <3> DEFINE j == (server - from) - i
    <3>1. /\ j \in 0..(Len(ring) - 1) /\ from < server - j /\ server - j = from + i
          /\ Len(ring) - j = Len(ring) - (server - from) + i
        BY <1>1, <1>2, <1>3
    <3> HIDE DEF j
    <3>2. ring[Len(ring) - j] = server - j
        BY <3>1 DEF RingFollows, EndsWith
    <3> QED
        BY <1>2, <3>1, <3>2
  <2> QED
      BY <2>1
<1> HIDE DEF last
<1>6. Consecutive(ms, from, made)
  <2>1. ms = last \o then
      BY <1>1 DEF ToResend, last
  <2>2. last \in Seq(ToSend(made)) /\ then \in Seq(ToSend(made))
    <3>1. 1..made \subseteq ToSend(made)
        BY DEF ToSend
    <3>2. last \in Seq(ToSend(made))
        BY <1>2, <3>1, SeqMonotonic
    <3> QED
        BY <3>2, OneFresh
  <2>3. /\ Len(ms) = Len(last) + Len(then)
        /\ \A i \in 1..(Len(last) + Len(then)) :
             ms[i] = IF i <= Len(last) THEN last[i] ELSE then[i - Len(last)]
      BY <2>1, <2>2, ConcatProperties
  <2>4. CASE then = <<>>
    <3>1. Len(ms) = server - from
        BY <1>2, <1>3, <2>3, <2>4
    <3>2. \A i \in 1..Len(ms) : ms[i] = from + i
        BY <1>2, <1>3, <1>5, <2>3, <2>4, <3>1
    <3>3. ~EndsFresh(ms)
      <4>1. Len(ms) \in 1..Len(ms) /\ from + Len(ms) # Fresh
          BY <1>3, <3>1 DEF Fresh
      <4> QED
          BY <3>2, <4>1 DEF EndsFresh
    <3> QED
        BY <1>3, <3>1, <3>2, <3>3 DEF Consecutive
  <2>5. CASE then = <<Fresh>>
    <3>1. Len(then) = 1 /\ then[1] = Fresh
        BY <2>5
    <3>2. Len(ms) = server - from + 1
        BY <1>2, <1>3, <2>3, <3>1
    <3>3. \A i \in 1..(server - from) : ms[i] = from + i
        BY <1>2, <1>3, <1>5, <2>3, <3>1
    <3>4. ms[Len(ms)] = Fresh
      <4>1. Len(ms) \in 1..(Len(last) + Len(then)) /\ ~(Len(ms) <= Len(last)) /\ Len(ms) - Len(last) = 1
          BY <1>2, <1>3, <3>1, <3>2
      <4> QED
          BY <2>3, <3>1, <4>1
    <3>5. EndsFresh(ms)
      <4>1. Len(ms) # 0
          BY <1>3, <3>2
      <4> QED
          BY <3>4, <4>1 DEF EndsFresh
    <3>6. \A i \in 1..Len(ms) : i \in 1..(server - from) \/ i = Len(ms)
        BY <1>3, <3>2
    <3>7. \A i \in 1..Len(ms) : ms[i] = from + i \/ (i = Len(ms) /\ ms[i] = Fresh)
        BY <3>3, <3>4, <3>6
    <3>8. from + Len(ms) = made + 1
        BY <1>3, <3>2
    <3> QED
        BY <3>5, <3>7, <3>8 DEF Consecutive
  <2> QED
      BY <2>4, <2>5
<1>7. EndsWith(ring, from, later)
  <2>1. ASSUME NEW f \in later, NEW j \in 0..(Len(ring) - 1), f < from - j PROVE FALSE
    <3>1. f \in Nat /\ from <= f
        OBVIOUS
    <3> QED
        BY <2>1, <3>1
  <2> QED
      BY <2>1 DEF EndsWith
<1> HIDE DEF ms
<1> QED
    BY <1>1, <1>4, <1>6, <1>7, SentInOrder

-----------------------------------------------------------------------------
(* The parts of the invariant that several actions keep alike.             *)

\* The sets in which the type invariant puts the variables.
LEMMA ProtocolDomains ==
    ASSUME ProtocolTypeOK
    PROVE  /\ {server, client, made, seen, lost, repeats} \subseteq Nat
           /\ ring \in Seq(1..made) /\ pending \in Seq(ToSend(made)) /\ down \in Seq(FramesDown(made))
           /\ up \in Seq(Up) /\ answers \in Seq(Answers) /\ got \in Seq(1..made)
           /\ Len(ring) \in Nat /\ Len(down) \in Nat /\ Len(up) \in Nat /\ Len(got) \in Nat
           /\ Len(pending) \in Nat /\ Len(answers) \in Nat
           /\ Asked \subseteq Nat
<1>1. /\ {server, client, made, seen, lost, repeats} \subseteq Nat
      /\ ring \in Seq(1..made) /\ pending \in Seq(ToSend(made)) /\ down \in Seq(FramesDown(made))
      /\ up \in Seq(Up) /\ answers \in Seq(Answers) /\ got \in Seq(1..made)
    BY DEF ProtocolTypeOK, ToSend, FramesDown, Up, Answers
<1>2. \A i \in 1..Len(up) : up[i].s \in Nat
  <2>1. \A i \in 1..Len(up) : up[i] \in Up
      BY <1>1, ElementOfSeq
  <2> QED
      BY <2>1 DEF Up
<1>3. Asked \subseteq Nat
    BY <1>1, <1>2 DEF Asked
<1> QED
    BY <1>1, <1>3, LenProperties

\* The server takes the oldest frame.
LEMMA FrameTaken ==
    ASSUME ProtocolTypeOK, Frames, up # <<>>, up' = Tail(up), seen' = seen
    PROVE  /\ up' \in Seq(Up) /\ Frames' /\ Head(up) \in Up
           /\ Asked' \in SUBSET Nat /\ Head(up).s \in Asked
           /\ \A f \in Asked' : f \in Asked /\ Head(up).s <= f
           /\ \A i \in 1..Len(up') : \E j \in 1..Len(up) : up'[i] = up[j]
           /\ Head(up) = up[1] /\ 1 \in 1..Len(up)
<1>1. up \in Seq(Up) /\ Len(up) \in Nat /\ seen \in Nat /\ Asked \subseteq Nat
    BY ProtocolDomains
<1>2. /\ up' \in Seq(Up) /\ Len(up') = Len(up) - 1 /\ Head(up) \in Up
      /\ \A i \in 1..Len(up') : up'[i] = up[i + 1]
    BY <1>1, HeadTailProperties
<1>3. Head(up) = up[1] /\ 1 \in 1..Len(up)
    BY <1>1, EmptySeq
<1>4. \A i \in 1..Len(up') : i + 1 \in 1..Len(up) /\ up'[i] = up[i + 1]
    BY <1>1, <1>2
<1>5. Frames'
  <2>1. \A i \in 1..Len(up') : up'[i].s <= seen
      BY <1>4 DEF Frames
  <2>2. ASSUME NEW i \in 1..Len(up'), NEW j \in 1..Len(up'), i <= j PROVE up'[i].s <= up'[j].s
    <3>1. i + 1 <= j + 1
        BY <1>2, <2>2
    <3> QED
        BY <1>4, <3>1 DEF Frames
  <2> QED
      BY <2>1, <2>2 DEF Frames
<1>6. \A f \in Asked' : f \in Asked /\ Head(up).s <= f
  <2>1. Head(up).s <= seen
      BY <1>3 DEF Frames
  <2>2. ASSUME NEW i \in 1..Len(up') PROVE up'[i].s \in Asked /\ Head(up).s <= up'[i].s
    <3>1. i + 1 \in 1..Len(up) /\ up'[i] = up[i + 1] /\ 1 <= i + 1
        BY <1>1, <1>2, <1>4
    <3> QED
        BY <1>3, <3>1 DEF Frames, Asked
  <2>3. Asked' = {seen} \cup {up'[i].s : i \in 1..Len(up')}
      BY DEF Asked
  <2> QED
      BY <2>1, <2>2, <2>3 DEF Asked
<1> QED
    BY <1>1, <1>2, <1>3, <1>4, <1>5, <1>6 DEF Asked

\* What the client has stays right while more messages are made.
LEMMA GotKept ==
    ASSUME ProtocolTypeOK, made' \in Nat, made <= made', got' = got, seen' = seen
    PROVE  got' \in Seq(1..made') /\ (GotFirst => GotFirst')
<1>1. made \in Nat /\ seen \in Nat /\ got \in Seq(1..made)
    BY ProtocolDomains
<1>2. got' \in Seq(1..made')
  <2>1. 1..made \subseteq 1..made'
      BY <1>1
  <2> QED
      BY <1>1, <2>1, SeqMonotonic
<1> QED
    BY <1>1, <1>2 DEF GotFirst

LEMMA RequestsKept ==
    ASSUME ProtocolTypeOK, made' \in Nat, made <= made', RequestsLack,
           \A i \in 1..Len(up') : \E j \in 1..Len(up) : up'[i] = up[j]
    PROVE  RequestsLack'
<1>1. \A j \in 1..Len(up) : up[j].s \in Nat
    BY ProtocolDomains DEF Asked
<1>2. made \in Nat
    BY ProtocolDomains
<1> QED
    BY <1>1, <1>2 DEF RequestsLack

\* One more message of the client is dealt with.
LEMMA AnswerAdded ==
    ASSUME ProtocolTypeOK, ClientAnswered, NEW a \in Answers, a.c = client + 1,
           client' = client + 1, answers' = Append(answers, a)
    PROVE  /\ client' \in Nat /\ answers' \in Seq(Answers) /\ ClientAnswered'
           /\ AnswersComplete /\ (a.handled => a.complete) => AnswersComplete'
<1>1. client \in Nat /\ answers \in Seq(Answers) /\ Len(answers) = client
    BY ProtocolDomains DEF ClientAnswered
<1>2. /\ answers' \in Seq(Answers) /\ Len(answers') = client + 1
      /\ \A i \in 1..Len(answers) : answers'[i] = answers[i]
      /\ answers'[client + 1] = a
    BY <1>1, AppendProperties
<1>3. \A i \in 1..Len(answers') : i \in 1..Len(answers) \/ i = client + 1
    BY <1>1, <1>2
<1> QED
    BY <1>1, <1>2, <1>3 DEF ClientAnswered, AnswersComplete

-----------------------------------------------------------------------------
(* The actions.                                                            *)

LEMMA InitInv == ProtocolInit => ProtocolInv
<1> SUFFICES ASSUME ProtocolInit PROVE ProtocolInv
    OBVIOUS
<1> USE DEF ProtocolInit
<1>1. ProtocolTypeOK
  <2>1. Len(ring) <= RingSize
      BY RingAssumption
  <2>2. /\ ring \in Seq(1..made) /\ pending \in Seq({Fresh} \cup (1..made))
        /\ answers \in Seq([c : Nat, handled : BOOLEAN, complete : BOOLEAN])
        /\ down \in Seq([s : Nat, body : 1..made])
        /\ up \in Seq([type : Types \cup {"request_resend"}, c : Nat, s : Nat])
        /\ sent \in Seq(Types) /\ got \in Seq(1..made)
      BY EmptySeq
  <2>3. /\ server \in Nat /\ client \in Nat /\ made \in Nat
        /\ seen \in Nat /\ lost \in Nat /\ repeats \in Nat
      OBVIOUS
  <2>4. alive \in BOOLEAN /\ gaveUp \in BOOLEAN /\ overtaken \in BOOLEAN
      BY Zenon
  <2> QED
      BY <2>1, <2>2, <2>3, <2>4 DEF ProtocolTypeOK
<1>2. Frames /\ ClientAnswered
    BY DEF Frames, ClientAnswered
<1>3. InOrder
    BY DEF InOrder, BodyIsNumber, GotFirst, PendingFollows, Consecutive, EndsFresh, RingFollows,
           EndsWith, RequestsLack, AnswersComplete
<1> QED
    BY <1>1, <1>2, <1>3 DEF ProtocolInv

\* The handler goes on sending.
LEMMA SendOnInv == ASSUME ProtocolInv, SendOn PROVE ProtocolInv'
<1> USE DEF ProtocolInv, SendOn, clientVars, envVars
<1>1. pending \in Seq(ToSend(made)) /\ server \in Nat /\ Asked \in SUBSET Nat
    BY ProtocolDomains
<1>2. Send(pending, server)
    OBVIOUS
<1>3. /\ server' \in Nat /\ made' \in Nat /\ made <= made'
      /\ ring' \in Seq(1..made') /\ Len(ring') <= RingSize
      /\ pending' \in Seq(ToSend(made')) /\ down' \in Seq(FramesDown(made'))
    BY <1>1, <1>2, SentTypes
<1>4. got' \in Seq(1..made') /\ (GotFirst => GotFirst')
    BY <1>3, GotKept
<1>5. ProtocolTypeOK'
    BY <1>3, <1>4 DEF ProtocolTypeOK, ToSend, FramesDown
<1>6. Frames' /\ ClientAnswered' /\ Asked' = Asked
    BY DEF Frames, ClientAnswered, Asked
<1>7. InOrder'
  <2>1. ASSUME ~gaveUp, ~overtaken
        PROVE  /\ BodyIsNumber' /\ GotFirst' /\ PendingFollows'
               /\ RingFollows' /\ RequestsLack' /\ AnswersComplete'
    <3>1. BodyIsNumber' /\ PendingFollows' /\ EndsWith(ring', server', Asked)
        BY <1>1, <1>2, <2>1, SentInOrder DEF InOrder, PendingFollows, RingFollows
    <3>2. RequestsLack' /\ AnswersComplete'
        BY <1>3, <2>1, RequestsKept DEF InOrder, AnswersComplete
    <3> QED
        BY <1>4, <1>6, <2>1, <3>1, <3>2 DEF InOrder, RingFollows
  <2> QED
      BY <2>1 DEF InOrder
<1> QED
    BY <1>5, <1>6, <1>7

\* A new message, which follows the counter when nothing waits.
LEMMA OneMore ==
    ASSUME ProtocolTypeOK, Stamp(Fresh, server)
    PROVE  /\ server' \in Nat /\ made' \in Nat /\ made <= made'
           /\ ring' \in Seq(1..made') /\ Len(ring') <= RingSize
           /\ down' \in Seq(FramesDown(made'))
<1>1. server \in Nat /\ Fresh \in ToSend(made)
    BY ProtocolDomains DEF ToSend
<1>2. /\ server' = server + 1 /\ made' \in Nat /\ made <= made'
      /\ ring' \in Seq(1..made') /\ Len(ring') <= RingSize
      /\ down' \in Seq(FramesDown(made'))
    BY <1>1, Stamped
<1> QED
    BY <1>1, <1>2

LEMMA OneMoreInOrder ==
    ASSUME ProtocolTypeOK, Stamp(Fresh, server), pending = <<>>, pending' = <<>>,
           BodyIsNumber, PendingFollows, NEW from \in SUBSET Nat, EndsWith(ring, server, from)
    PROVE  BodyIsNumber' /\ PendingFollows' /\ EndsWith(ring', server', from)
<1>1. server \in Nat /\ made \in Nat
    BY ProtocolDomains
<1>2. Send(<<Fresh>>, server)
  <2>1. <<Fresh>> # <<>> /\ Head(<<Fresh>>) = Fresh /\ Tail(<<Fresh>>) = <<>>
      OBVIOUS
  <2> QED
      BY <2>1 DEF Send
<1>3. server = made
    BY <1>1 DEF PendingFollows, Consecutive, EndsFresh
<1>4. Consecutive(<<Fresh>>, server, made)
    BY <1>1, <1>3 DEF Consecutive, EndsFresh
<1>5. <<Fresh>> \in Seq(ToSend(made))
    BY OneFresh
<1> QED
    BY <1>1, <1>2, <1>4, <1>5, SentInOrder

\* Another handler sends an update.
LEMMA PushInv == ASSUME ProtocolInv, Push PROVE ProtocolInv'
<1> USE DEF ProtocolInv, Push, clientVars, envVars
<1>1. /\ server' \in Nat /\ made' \in Nat /\ made <= made'
      /\ ring' \in Seq(1..made') /\ Len(ring') <= RingSize
      /\ down' \in Seq(FramesDown(made'))
    BY OneMore
<1>2. pending' \in Seq(ToSend(made'))
  <2>1. pending \in Seq(ToSend(made)) /\ ToSend(made) \subseteq ToSend(made')
      BY <1>1, ProtocolDomains DEF ToSend
  <2> QED
      BY <2>1, SeqMonotonic
<1>3. got' \in Seq(1..made') /\ (GotFirst => GotFirst')
    BY <1>1, GotKept
<1>4. ProtocolTypeOK'
    BY <1>1, <1>2, <1>3 DEF ProtocolTypeOK, ToSend, FramesDown
<1>5. Frames' /\ ClientAnswered' /\ Asked' = Asked
    BY DEF Frames, ClientAnswered, Asked
<1>6. InOrder'
  <2>1. ASSUME ~gaveUp', ~overtaken'
        PROVE  /\ BodyIsNumber' /\ GotFirst' /\ PendingFollows'
               /\ RingFollows' /\ RequestsLack' /\ AnswersComplete'
    <3>1. ~gaveUp /\ ~overtaken /\ pending = <<>> /\ pending' = <<>>
        BY <2>1
    <3>2. BodyIsNumber' /\ PendingFollows' /\ EndsWith(ring', server', Asked)
      <4>1. Asked \in SUBSET Nat
          BY ProtocolDomains
      <4> QED
          BY <3>1, <4>1, OneMoreInOrder DEF InOrder, RingFollows
    <3>3. RequestsLack' /\ AnswersComplete'
        BY <1>1, <3>1, RequestsKept DEF InOrder, AnswersComplete
    <3> QED
        BY <1>3, <1>5, <3>1, <3>2, <3>3 DEF InOrder, RingFollows
  <2> QED
      BY <2>1 DEF InOrder
<1> QED
    BY <1>4, <1>5, <1>6

\* The client asks for what it lacks.
LEMMA ReceiveRequestInv == ASSUME ProtocolInv, ReceiveRequest PROVE ProtocolInv'
<1> USE DEF ProtocolInv, ReceiveRequest, Ready, clientVars, envVars
<1> DEFINE m == Head(up)
<1>1. /\ up' \in Seq(Up) /\ Frames' /\ m \in Up /\ Asked' \in SUBSET Nat /\ m.s \in Asked
      /\ \A f \in Asked' : f \in Asked /\ m.s <= f
      /\ \A i \in 1..Len(up') : \E j \in 1..Len(up) : up'[i] = up[j]
      /\ m = up[1] /\ 1 \in 1..Len(up)
    BY FrameTaken
<1>2. m.s \in Nat /\ m.type = "request_resend" /\ Resend(m.s, <<>>)
    BY <1>1 DEF Up
<1> HIDE DEF m
<1>3. /\ ToResend(m.s, <<>>) \in Seq(ToSend(made)) /\ server - Lacks(m.s) \in Nat
      /\ Send(ToResend(m.s, <<>>), server - Lacks(m.s))
      /\ gaveUp' \in BOOLEAN /\ (gaveUp => gaveUp')
    BY <1>2, ResendTypes
<1>4. /\ server' \in Nat /\ made' \in Nat /\ made <= made'
      /\ ring' \in Seq(1..made') /\ Len(ring') <= RingSize
      /\ pending' \in Seq(ToSend(made')) /\ down' \in Seq(FramesDown(made'))
    BY <1>3, SentTypes
<1>5. got' \in Seq(1..made') /\ (GotFirst => GotFirst')
    BY <1>4, GotKept
<1>6. ProtocolTypeOK'
    BY <1>1, <1>3, <1>4, <1>5 DEF ProtocolTypeOK, ToSend, FramesDown, Up
<1>7. ClientAnswered'
    BY DEF ClientAnswered
<1>8. InOrder'
  <2>1. ASSUME ~gaveUp', ~overtaken'
        PROVE  /\ BodyIsNumber' /\ GotFirst' /\ PendingFollows'
               /\ RingFollows' /\ RequestsLack' /\ AnswersComplete'
    <3>1. ~gaveUp /\ ~overtaken
        BY <1>3, <2>1
    <3>2. server = made
        BY <3>1, ProtocolDomains DEF InOrder, PendingFollows, Consecutive, EndsFresh
    <3>3. m.s < server
        BY <1>1, <1>2, <3>1, <3>2 DEF InOrder, RequestsLack
    <3>4. BodyIsNumber' /\ PendingFollows' /\ EndsWith(ring', server', Asked')
        BY <1>1, <1>2, <2>1, <3>1, <3>2, <3>3, ResendInOrder DEF InOrder
    <3>5. RequestsLack' /\ AnswersComplete'
        BY <1>1, <1>4, <3>1, RequestsKept DEF InOrder, AnswersComplete
    <3> QED
        BY <1>5, <3>1, <3>4, <3>5 DEF InOrder, RingFollows
  <2> QED
      BY <2>1 DEF InOrder
<1> QED
    BY <1>1, <1>6, <1>7, <1>8

\* The frame is dropped; the server is as it was.
LEMMA FrameDropped ==
    ASSUME ProtocolInv, up # <<>>, up' = Tail(up),
           UNCHANGED <<server, client, ring, answers, pending, overtaken, gaveUp, made, down,
                       backend, clientVars, repeats>>,
           lost' \in Nat, alive' \in BOOLEAN
    PROVE  ProtocolInv'
<1> USE DEF ProtocolInv, clientVars
<1>1. /\ up' \in Seq(Up) /\ Frames' /\ Asked' \in SUBSET Nat
      /\ \A f \in Asked' : f \in Asked
      /\ \A i \in 1..Len(up') : \E j \in 1..Len(up) : up'[i] = up[j]
    BY FrameTaken
<1>2. ProtocolTypeOK'
    BY <1>1 DEF ProtocolTypeOK, Up
<1>3. ClientAnswered'
    BY DEF ClientAnswered
<1>4. InOrder'
  <2>1. ASSUME ~gaveUp, ~overtaken
        PROVE  RingFollows' /\ RequestsLack'
    <3>1. RingFollows'
        BY <1>1, <2>1 DEF InOrder, RingFollows, EndsWith
    <3>2. made \in Nat /\ made' = made
        BY ProtocolDomains
    <3>3. RequestsLack'
        BY <1>1, <2>1, <3>2, RequestsKept DEF InOrder
    <3> QED
        BY <3>1, <3>3
  <2> QED
      BY <2>1 DEF InOrder, BodyIsNumber, GotFirst, PendingFollows, AnswersComplete
<1> QED
    BY <1>1, <1>2, <1>3, <1>4

\* A repeated message, or one lost on the way, changes nothing.
LEMMA ReceiveRepeatedInv == ASSUME ProtocolInv, ReceiveRepeated PROVE ProtocolInv'
<1>1. lost \in Nat /\ alive \in BOOLEAN
    BY DEF ProtocolInv, ProtocolTypeOK
<1> QED
    BY <1>1, FrameDropped DEF ReceiveRepeated, Ready, serverVars, clientVars, envVars

LEMMA LoseUpInv == ASSUME ProtocolInv, LoseUp PROVE ProtocolInv'
<1>1. lost \in Nat /\ alive \in BOOLEAN
    BY DEF ProtocolInv, ProtocolTypeOK
<1>2. lost' \in Nat /\ alive' \in BOOLEAN
    BY <1>1 DEF LoseUp, serverVars
<1> QED
    BY <1>2, FrameDropped DEF LoseUp, serverVars, clientVars

\* Messages of the client are missing: the consumer ends, or asks for them.
LEMMA ReceiveAheadInv == ASSUME ProtocolInv, ReceiveAhead PROVE ProtocolInv'
<1> USE DEF ReceiveAhead, Ready, clientVars, envVars
<1>1. CASE backend # "native"
  <2>1. lost' \in Nat /\ alive' \in BOOLEAN
      BY <1>1 DEF ProtocolInv, ProtocolTypeOK
  <2> QED
      BY <1>1, <2>1, FrameDropped
<1>2. CASE backend = "native"
  <2> USE DEF ProtocolInv
  <2>1. Stamp(Fresh, server) /\ alive' = alive /\ pending = <<>> /\ pending' = <<>>
      BY <1>2
  <2>2. /\ up' \in Seq(Up) /\ Frames' /\ Asked' \in SUBSET Nat
        /\ \A f \in Asked' : f \in Asked
        /\ \A i \in 1..Len(up') : \E j \in 1..Len(up) : up'[i] = up[j]
      BY FrameTaken
  <2>3. /\ server' \in Nat /\ made' \in Nat /\ made <= made'
        /\ ring' \in Seq(1..made') /\ Len(ring') <= RingSize
        /\ down' \in Seq(FramesDown(made'))
      BY <2>1, OneMore
  <2>4. got' \in Seq(1..made') /\ (GotFirst => GotFirst')
      BY <2>3, GotKept
  <2>5. pending' \in Seq(ToSend(made'))
      BY <2>1, EmptySeq
  <2>6. ProtocolTypeOK'
      BY <2>1, <2>2, <2>3, <2>4, <2>5 DEF ProtocolTypeOK, ToSend, FramesDown, Up
  <2>7. ClientAnswered'
      BY DEF ClientAnswered
  <2>8. InOrder'
    <3>1. ASSUME ~gaveUp, ~overtaken
          PROVE  /\ BodyIsNumber' /\ GotFirst' /\ PendingFollows'
                 /\ RingFollows' /\ RequestsLack' /\ AnswersComplete'
      <4>1. EndsWith(ring, server, Asked')
          BY <2>2, <3>1 DEF InOrder, RingFollows, EndsWith
      <4>2. BodyIsNumber' /\ PendingFollows' /\ EndsWith(ring', server', Asked')
          BY <2>1, <2>2, <3>1, <4>1, OneMoreInOrder DEF InOrder
      <4>3. RequestsLack' /\ AnswersComplete'
          BY <2>2, <2>3, <3>1, RequestsKept DEF InOrder, AnswersComplete
      <4> QED
          BY <2>4, <3>1, <4>2, <4>3 DEF InOrder, RingFollows
    <3> QED
        BY <3>1 DEF InOrder
  <2> QED
      BY <2>2, <2>6, <2>7, <2>8
<1> QED
    BY <1>1, <1>2

\* The client is behind: it gets what it lacks, its message is refused.
LEMMA ReceiveSimultaneousInv == ASSUME ProtocolInv, ReceiveSimultaneous PROVE ProtocolInv'
<1> USE DEF ProtocolInv, clientVars, envVars
<1> DEFINE m == Head(up)
           then == IF m.type = "diff" THEN <<Fresh>> ELSE <<>>
           a == [c |-> m.c, handled |-> FALSE, complete |-> FALSE]
<1>1. /\ up # <<>> /\ up' = Tail(up) /\ pending = <<>>
      /\ ~IsRepeated(m) /\ ~IsAhead(m) /\ IsBehind(m)
      /\ client' = client + 1 /\ answers' = Append(answers, a)
      /\ Resend(m.s, then)
      /\ UNCHANGED <<backend, alive, overtaken, seen, sent, got, lost, repeats>>
    BY DEF ReceiveSimultaneous, Ready
<1>2. /\ up' \in Seq(Up) /\ Frames' /\ m \in Up /\ Asked' \in SUBSET Nat /\ m.s \in Asked
      /\ \A f \in Asked' : f \in Asked /\ m.s <= f
      /\ \A i \in 1..Len(up') : \E j \in 1..Len(up) : up'[i] = up[j]
    BY <1>1, FrameTaken
<1>3. then \in {<<>>, <<Fresh>>}
    OBVIOUS
<1>4. m.s \in Nat /\ m.c \in Nat /\ m.s < server /\ m.c = client + 1
  <2>1. m.s \in Nat /\ m.c \in Nat /\ client \in Nat
      BY <1>2, ProtocolDomains DEF Up
  <2> HIDE DEF m
  <2> QED
      BY <1>1, <2>1 DEF IsRepeated, IsAhead, IsBehind
<1>5. a \in Answers /\ a.c = client + 1 /\ ~a.handled
    BY <1>4 DEF Answers
<1> HIDE DEF m, then, a
<1>6. /\ ToResend(m.s, then) \in Seq(ToSend(made)) /\ server - Lacks(m.s) \in Nat
      /\ Send(ToResend(m.s, then), server - Lacks(m.s))
      /\ gaveUp' \in BOOLEAN /\ (gaveUp => gaveUp')
    BY <1>1, <1>3, <1>4, ResendTypes
<1>7. /\ server' \in Nat /\ made' \in Nat /\ made <= made'
      /\ ring' \in Seq(1..made') /\ Len(ring') <= RingSize
      /\ pending' \in Seq(ToSend(made')) /\ down' \in Seq(FramesDown(made'))
    BY <1>6, SentTypes
<1>8. got' \in Seq(1..made') /\ (GotFirst => GotFirst')
    BY <1>1, <1>7, GotKept
<1>9. /\ client' \in Nat /\ answers' \in Seq(Answers) /\ ClientAnswered'
      /\ AnswersComplete => AnswersComplete'
    BY <1>1, <1>5, AnswerAdded
<1>10. ProtocolTypeOK'
    BY <1>1, <1>2, <1>6, <1>7, <1>8, <1>9 DEF ProtocolTypeOK, ToSend, FramesDown, Up, Answers
<1>11. InOrder'
  <2>1. ASSUME ~gaveUp', ~overtaken'
        PROVE  /\ BodyIsNumber' /\ GotFirst' /\ PendingFollows'
               /\ RingFollows' /\ RequestsLack' /\ AnswersComplete'
    <3>1. ~gaveUp /\ ~overtaken
        BY <1>1, <1>6, <2>1
    <3>2. server = made
        BY <1>1, <3>1, ProtocolDomains DEF InOrder, PendingFollows, Consecutive, EndsFresh
    <3>3. BodyIsNumber' /\ PendingFollows' /\ EndsWith(ring', server', Asked')
        BY <1>1, <1>2, <1>3, <1>4, <2>1, <3>1, <3>2, ResendInOrder DEF InOrder
    <3>4. RequestsLack'
        BY <1>2, <1>7, <3>1, RequestsKept DEF InOrder
    <3> QED
        BY <1>8, <1>9, <3>1, <3>3, <3>4 DEF InOrder, RingFollows
  <2> QED
      BY <2>1 DEF InOrder
<1> QED
    BY <1>2, <1>9, <1>10, <1>11

\* The message goes to its handler; its sender had seen all.
LEMMA ReceiveNextInv == ASSUME ProtocolInv, ReceiveNext PROVE ProtocolInv'
<1> USE DEF ProtocolInv, clientVars, envVars
<1> DEFINE m == Head(up)
           a == [c |-> m.c, handled |-> TRUE, complete |-> m.s = made]
<1>1. /\ up # <<>> /\ up' = Tail(up) /\ pending = <<>>
      /\ ~IsRepeated(m) /\ ~IsAhead(m) /\ ~IsBehind(m)
      /\ client' = client + 1 /\ answers' = Append(answers, a)
      /\ UNCHANGED <<backend, server, ring, alive, made, gaveUp, pending, overtaken, down,
                     seen, sent, got, lost, repeats>>
    BY DEF ReceiveNext, Ready
<1>2. /\ up' \in Seq(Up) /\ Frames' /\ m \in Up /\ Asked' \in SUBSET Nat /\ m.s \in Asked
      /\ \A f \in Asked' : f \in Asked
      /\ \A i \in 1..Len(up') : \E j \in 1..Len(up) : up'[i] = up[j]
      /\ m = up[1] /\ 1 \in 1..Len(up)
    BY <1>1, FrameTaken
<1>3. m.s \in Nat /\ m.c \in Nat /\ ~(m.s < server) /\ m.c = client + 1 /\ m.s <= seen
  <2>1. m.s \in Nat /\ m.c \in Nat /\ client \in Nat
      BY <1>2, ProtocolDomains DEF Up
  <2>2. m.s <= seen
      BY <1>2 DEF Frames
  <2> HIDE DEF m
  <2> QED
      BY <1>1, <2>1, <2>2 DEF IsRepeated, IsAhead, IsBehind
<1>4. a \in Answers /\ a.c = client + 1 /\ (a.complete <=> m.s = made)
    BY <1>3 DEF Answers
<1> HIDE DEF m, a
<1>5. /\ client' \in Nat /\ answers' \in Seq(Answers) /\ ClientAnswered'
      /\ AnswersComplete /\ (a.handled => a.complete) => AnswersComplete'
    BY <1>1, <1>4, AnswerAdded
<1>6. ProtocolTypeOK'
    BY <1>1, <1>2, <1>5 DEF ProtocolTypeOK, Up, Answers
<1>7. InOrder'
  <2>1. ASSUME ~gaveUp, ~overtaken
        PROVE  RingFollows' /\ RequestsLack' /\ AnswersComplete'
    <3>1. server = made
        BY <1>1, <2>1, ProtocolDomains DEF InOrder, PendingFollows, Consecutive, EndsFresh
    <3>2. m.s = made
        BY <1>3, <2>1, <3>1, ProtocolDomains DEF InOrder, GotFirst
    <3>3. RingFollows'
        BY <1>1, <1>2, <2>1 DEF InOrder, RingFollows, EndsWith
    <3>4. made \in Nat /\ made' = made
        BY <1>1, ProtocolDomains
    <3>5. RequestsLack'
        BY <1>2, <2>1, <3>4, RequestsKept DEF InOrder
    <3> QED
        BY <1>4, <1>5, <2>1, <3>2, <3>3, <3>5 DEF InOrder
  <2> QED
      BY <1>1, <2>1 DEF InOrder, BodyIsNumber, GotFirst, PendingFollows
<1> QED
    BY <1>2, <1>5, <1>6, <1>7

\* The client sends a frame, naming what it has seen.
LEMMA FrameSent ==
    ASSUME ProtocolTypeOK, Frames, NEW f \in Up, f.s = seen, up' = Append(up, f), seen' = seen
    PROVE  /\ up' \in Seq(Up) /\ Frames' /\ Asked' = Asked
           /\ Len(up') = Len(up) + 1 /\ Len(up) \in Nat
           /\ up'[Len(up) + 1] = f /\ \A i \in 1..Len(up) : up'[i] = up[i]
<1>1. up \in Seq(Up) /\ Len(up) \in Nat /\ seen \in Nat
    BY ProtocolDomains
<1>2. /\ up' \in Seq(Up) /\ Len(up') = Len(up) + 1
      /\ up'[Len(up) + 1] = f /\ \A i \in 1..Len(up) : up'[i] = up[i]
    BY <1>1, AppendProperties
<1>3. \A i \in 1..Len(up') : i \in 1..Len(up) \/ i = Len(up) + 1
    BY <1>1, <1>2
<1>4. 1..Len(up) \subseteq 1..Len(up') /\ Len(up) + 1 \in 1..Len(up')
    BY <1>1, <1>2
<1>5. Frames'
  <2>1. \A i \in 1..Len(up') : up'[i].s <= seen
      BY <1>1, <1>2, <1>3 DEF Frames
  <2>2. ASSUME NEW i \in 1..Len(up'), NEW j \in 1..Len(up'), i <= j PROVE up'[i].s <= up'[j].s
    <3>1. CASE j = Len(up) + 1
        BY <1>2, <2>1, <3>1
    <3>2. CASE j \in 1..Len(up)
      <4>1. i \in 1..Len(up)
          BY <1>1, <1>3, <2>2, <3>2
      <4> QED
          BY <1>2, <2>2, <3>2, <4>1 DEF Frames
    <3> QED
        BY <1>3, <3>1, <3>2
  <2> QED
      BY <2>1, <2>2 DEF Frames
<1>6. Asked' = Asked
  <2>1. Asked' = {seen} \cup {up'[i].s : i \in 1..Len(up')}
      BY DEF Asked
  <2>2. \A i \in 1..Len(up') : up'[i].s \in Asked
      BY <1>2, <1>3 DEF Asked
  <2>3. \A i \in 1..Len(up) : up[i].s = up'[i].s /\ i \in 1..Len(up')
      BY <1>2, <1>4
  <2> QED
      BY <2>1, <2>2, <2>3 DEF Asked
<1> QED
    BY <1>1, <1>2, <1>5, <1>6

LEMMA FrameSentInv ==
    ASSUME ProtocolInv, NEW f \in Up, f.s = seen, up' = Append(up, f),
           f.type \in Types \/ (~gaveUp /\ ~overtaken => f.s < made),
           UNCHANGED <<serverVars, down, seen, got, lost>>,
           sent' \in Seq(Types), repeats' \in Nat
    PROVE  ProtocolInv'
<1> USE DEF ProtocolInv, serverVars
<1>1. /\ up' \in Seq(Up) /\ Frames' /\ Asked' = Asked
      /\ Len(up') = Len(up) + 1 /\ Len(up) \in Nat
      /\ up'[Len(up) + 1] = f /\ \A i \in 1..Len(up) : up'[i] = up[i]
    BY FrameSent
<1>2. ProtocolTypeOK'
    BY <1>1 DEF ProtocolTypeOK, Up
<1>3. ClientAnswered'
    BY DEF ClientAnswered
<1>4. InOrder'
  <2>1. ASSUME ~gaveUp, ~overtaken
        PROVE  RingFollows' /\ RequestsLack'
    <3>1. RingFollows'
        BY <1>1, <2>1 DEF InOrder, RingFollows
    <3>2. "request_resend" \notin Types
        BY DEF Types
    <3>3. \A i \in 1..Len(up') : i \in 1..Len(up) \/ i = Len(up) + 1
        BY <1>1
    <3>4. RequestsLack'
        BY <1>1, <2>1, <3>2, <3>3 DEF InOrder, RequestsLack
    <3> QED
        BY <3>1, <3>4
  <2> QED
      BY <2>1 DEF InOrder, BodyIsNumber, GotFirst, PendingFollows, AnswersComplete
<1> QED
    BY <1>1, <1>2, <1>3, <1>4

LEMMA ClientSendInv == ASSUME ProtocolInv, ClientSend PROVE ProtocolInv'
<1>1. PICK t \in Types :
        /\ sent' = Append(sent, t)
        /\ up' = Append(up, [type |-> t, c |-> Len(sent'), s |-> seen])
    BY DEF ClientSend
<1>2. sent \in Seq(Types) /\ seen \in Nat /\ repeats \in Nat
    BY DEF ProtocolInv, ProtocolTypeOK
<1>3. sent' \in Seq(Types)
    BY <1>1, <1>2, AppendProperties
<1>4. Len(sent') \in Nat
    BY <1>3, LenProperties
<1> DEFINE f == [type |-> t, c |-> Len(sent'), s |-> seen]
<1>5. f \in Up /\ f.s = seen /\ f.type \in Types
    BY <1>2, <1>4 DEF Up
<1> HIDE DEF f
<1>6. /\ UNCHANGED <<serverVars, down, seen, got, lost>>
      /\ repeats' \in Nat /\ up' = Append(up, f)
    BY <1>1, <1>2 DEF ClientSend, envVars, f
<1> QED
    BY <1>3, <1>5, <1>6, FrameSentInv

LEMMA ClientRepeatInv == ASSUME ProtocolInv, ClientRepeat PROVE ProtocolInv'
<1>1. PICK k \in 1..Len(sent) : up' = Append(up, [type |-> sent[k], c |-> k, s |-> seen])
    BY DEF ClientRepeat
<1>2. sent \in Seq(Types) /\ seen \in Nat /\ repeats \in Nat
    BY DEF ProtocolInv, ProtocolTypeOK
<1>3. sent[k] \in Types /\ k \in Nat
    BY <1>2, ElementOfSeq, LenProperties
<1> DEFINE f == [type |-> sent[k], c |-> k, s |-> seen]
<1>4. f \in Up /\ f.s = seen /\ f.type \in Types
    BY <1>2, <1>3 DEF Up
<1> HIDE DEF f
<1>5. /\ UNCHANGED <<serverVars, down, seen, got, lost>> /\ sent' = sent
      /\ repeats' \in Nat /\ up' = Append(up, f)
    BY <1>1, <1>2 DEF ClientRepeat, clientVars, f
<1> QED
    BY <1>2, <1>4, <1>5, FrameSentInv

\* A frame has reached the client, or was lost on the way.
LEMMA FrameArrived ==
    ASSUME ProtocolTypeOK, down # <<>>, down' = Tail(down)
    PROVE  /\ down' \in Seq(FramesDown(made)) /\ Head(down) \in FramesDown(made)
           /\ (BodyIsNumber => BodyIsNumber' /\ Head(down).body = Head(down).s)
<1>1. down \in Seq(FramesDown(made)) /\ Len(down) \in Nat
    BY ProtocolDomains
<1>2. /\ down' \in Seq(FramesDown(made)) /\ Len(down') = Len(down) - 1 /\ Head(down) \in FramesDown(made)
      /\ Head(down) = down[1] /\ 1 \in 1..Len(down)
      /\ \A i \in 1..Len(down') : down'[i] = down[i + 1]
    BY <1>1, HeadTailProperties, EmptySeq
<1>3. \A i \in 1..Len(down') : i + 1 \in 1..Len(down)
    BY <1>1, <1>2
<1> QED
    BY <1>2, <1>3 DEF BodyIsNumber

\* It is of no use to the client.
LEMMA FrameUnused ==
    ASSUME ProtocolInv, down # <<>>, down' = Tail(down),
           UNCHANGED <<serverVars, up, clientVars, repeats>>, lost' \in Nat
    PROVE  ProtocolInv'
<1> USE DEF ProtocolInv, serverVars, clientVars
<1>1. down' \in Seq(FramesDown(made)) /\ (BodyIsNumber => BodyIsNumber')
    BY FrameArrived
<1>2. ProtocolTypeOK'
    BY <1>1 DEF ProtocolTypeOK, FramesDown
<1>3. Frames' /\ ClientAnswered' /\ Asked' = Asked
    BY DEF Frames, ClientAnswered, Asked
<1>4. InOrder'
    BY <1>1, <1>3 DEF InOrder, GotFirst, PendingFollows, RingFollows, RequestsLack,
           AnswersComplete
<1> QED
    BY <1>2, <1>3, <1>4

LEMMA ClientIgnoreInv == ASSUME ProtocolInv, ClientIgnore PROVE ProtocolInv'
<1>1. lost \in Nat
    BY DEF ProtocolInv, ProtocolTypeOK
<1> QED
    BY <1>1, FrameUnused DEF ClientIgnore, envVars

LEMMA LoseDownInv == ASSUME ProtocolInv, LoseDown PROVE ProtocolInv'
<1>1. lost \in Nat
    BY DEF ProtocolInv, ProtocolTypeOK
<1> QED
    BY <1>1, FrameUnused DEF LoseDown

\* It is the next one: the client has one more of the first messages.
LEMMA ClientTakeInv == ASSUME ProtocolInv, ClientTake PROVE ProtocolInv'
<1> USE DEF ProtocolInv
<1> DEFINE m == Head(down)
<1>1. /\ down # <<>> /\ down' = Tail(down) /\ m.s = seen + 1
      /\ seen' = seen + 1 /\ got' = Append(got, m.body)
      /\ UNCHANGED <<backend, server, client, ring, alive, made, answers, gaveUp, pending,
                     overtaken, up, sent, lost, repeats>>
    BY DEF ClientTake, serverVars, envVars
<1>2. /\ down' \in Seq(FramesDown(made)) /\ m \in FramesDown(made)
      /\ (BodyIsNumber => BodyIsNumber' /\ m.body = m.s)
    BY <1>1, FrameArrived
<1> HIDE DEF m
<1>3. /\ made \in Nat /\ seen \in Nat /\ got \in Seq(1..made) /\ Len(got) \in Nat
      /\ m.body \in 1..made
    BY <1>2, ProtocolDomains DEF FramesDown
<1>4. /\ got' \in Seq(1..made) /\ Len(got') = Len(got) + 1
      /\ got'[Len(got) + 1] = m.body /\ \A i \in 1..Len(got) : got'[i] = got[i]
    BY <1>1, <1>3, AppendProperties
<1>5. ProtocolTypeOK'
    BY <1>1, <1>2, <1>3, <1>4 DEF ProtocolTypeOK, FramesDown
<1>6. Frames' /\ ClientAnswered'
  <2>1. \A i \in 1..Len(up) : up[i].s \in Nat
      BY ProtocolDomains DEF Asked
  <2>2. \A i \in 1..Len(up) : up[i].s <= seen + 1
    <3>1. \A x \in Nat : x <= seen => x <= seen + 1
        BY <1>3
    <3> QED
        BY <2>1, <3>1 DEF Frames
  <2>3. up' = up /\ seen' = seen + 1 /\ answers' = answers /\ client' = client
      BY <1>1
  <2> QED
      BY <2>2, <2>3 DEF Frames, ClientAnswered
<1>7. InOrder'
  <2>1. ASSUME ~gaveUp, ~overtaken
        PROVE  BodyIsNumber' /\ GotFirst' /\ RingFollows'
    <3>1. BodyIsNumber' /\ m.body = seen + 1
        BY <1>1, <1>2, <2>1 DEF InOrder
    <3>2. \A i \in 1..Len(got') : i \in 1..Len(got) \/ i = Len(got) + 1
        BY <1>3, <1>4
    <3>3. GotFirst'
        BY <1>1, <1>3, <1>4, <2>1, <3>1, <3>2 DEF InOrder, GotFirst
    <3>4. RingFollows'
      <4>1. Asked' = {seen + 1} \cup {up[i].s : i \in 1..Len(up)}
          BY <1>1 DEF Asked
      <4>2. server \in Nat /\ Len(ring) \in Nat
          BY ProtocolDomains
      <4>3. ASSUME NEW f \in Asked', NEW j \in 0..(Len(ring) - 1), f < server - j
            PROVE  ring[Len(ring) - j] = server - j
        <5>1. \E g \in Asked : g < server - j
          <6>1. CASE f = seen + 1
            <7>1. seen \in Asked /\ seen < server - j
                BY <1>3, <4>2, <4>3, <6>1 DEF Asked
            <7> QED
                BY <7>1
          <6>2. CASE f # seen + 1
              BY <4>1, <4>3, <6>2 DEF Asked
          <6> QED
              BY <6>1, <6>2
        <5> QED
            BY <2>1, <5>1 DEF InOrder, RingFollows, EndsWith
      <4> QED
          BY <1>1, <4>3 DEF RingFollows, EndsWith
    <3> QED
        BY <3>1, <3>3, <3>4
  <2> QED
      BY <1>1, <2>1 DEF InOrder, PendingFollows, RequestsLack, AnswersComplete
<1> QED
    BY <1>5, <1>6, <1>7

\* Some are missing: the client asks for them, and drops the frame.
LEMMA ClientGapInv == ASSUME ProtocolInv, ClientGap PROVE ProtocolInv'
<1> USE DEF ProtocolInv, serverVars, clientVars, envVars
<1> DEFINE m == Head(down)
<1>1. /\ down # <<>> /\ down' = Tail(down) /\ m.s > seen + 1
      /\ up' = Append(up, Request(seen)) /\ UNCHANGED <<serverVars, clientVars, envVars>>
    BY DEF ClientGap
<1>2. /\ down' \in Seq(FramesDown(made)) /\ m \in FramesDown(made)
      /\ (BodyIsNumber => BodyIsNumber' /\ m.body = m.s)
    BY <1>1, FrameArrived
<1> HIDE DEF m
<1>3. made \in Nat /\ seen \in Nat /\ m.body \in 1..made /\ m.s \in Nat
    BY <1>2, ProtocolDomains DEF FramesDown
<1>4. Request(seen) \in Up /\ Request(seen).s = seen
    BY <1>3 DEF Up, Request
<1>5. /\ up' \in Seq(Up) /\ Frames' /\ Asked' = Asked
      /\ Len(up') = Len(up) + 1 /\ Len(up) \in Nat
      /\ up'[Len(up) + 1] = Request(seen) /\ \A i \in 1..Len(up) : up'[i] = up[i]
    BY <1>1, <1>4, FrameSent
<1>6. ProtocolTypeOK'
    BY <1>1, <1>2, <1>5 DEF ProtocolTypeOK, FramesDown, Up
<1>7. ClientAnswered'
    BY <1>1 DEF ClientAnswered
<1>8. InOrder'
  <2>1. ASSUME ~gaveUp, ~overtaken
        PROVE  BodyIsNumber' /\ RingFollows' /\ RequestsLack'
    <3>1. BodyIsNumber' /\ seen < made
        BY <1>1, <1>2, <1>3, <2>1 DEF InOrder
    <3>2. RingFollows'
        BY <1>1, <1>5, <2>1 DEF InOrder, RingFollows
    <3>3. \A i \in 1..Len(up') : i \in 1..Len(up) \/ i = Len(up) + 1
        BY <1>5
    <3>4. RequestsLack'
        BY <1>1, <1>4, <1>5, <2>1, <3>1, <3>3 DEF InOrder, RequestsLack
    <3> QED
        BY <3>1, <3>2, <3>4
  <2> QED
      BY <1>1, <2>1 DEF InOrder, GotFirst, PendingFollows, AnswersComplete
<1> QED
    BY <1>5, <1>6, <1>7, <1>8

-----------------------------------------------------------------------------
(* The theorems.                                                           *)

LEMMA ProtocolStepInv == ProtocolInv /\ [ProtocolNext]_protocolVars => ProtocolInv'
<1> SUFFICES ASSUME ProtocolInv, [ProtocolNext]_protocolVars PROVE ProtocolInv'
    OBVIOUS
<1>1. CASE ProtocolNext
    BY <1>1, PushInv, SendOnInv, ReceiveRequestInv, ReceiveRepeatedInv, ReceiveAheadInv,
       ReceiveSimultaneousInv, ReceiveNextInv, ClientSendInv, ClientRepeatInv, ClientTakeInv,
       ClientIgnoreInv, ClientGapInv, LoseDownInv, LoseUpInv DEF ProtocolNext
<1>2. CASE UNCHANGED protocolVars
    BY <1>2 DEF protocolVars, serverVars, clientVars, envVars, ProtocolInv, ProtocolTypeOK,
           Frames, ClientAnswered, InOrder, BodyIsNumber, GotFirst, PendingFollows, RingFollows,
           Asked, RequestsLack, AnswersComplete
<1> QED
    BY <1>1, <1>2

LEMMA ProtocolInvariant == ProtocolSpec => []ProtocolInv
<1> QED
    BY InitInv, ProtocolStepInv, PTL DEF ProtocolSpec

\* Counters, ring and frames stay in their domains, however many messages are made,
\* lost, repeated and sent again.
THEOREM ProtocolTypeCorrect == ProtocolSpec => []ProtocolTypeOK
<1>1. ProtocolInv => ProtocolTypeOK
    BY DEF ProtocolInv
<1> QED
    BY <1>1, ProtocolInvariant, PTL

\* The client takes the server's messages in the order they were made and misses none,
\* for every size of the ring, unless the server gave up or a handler was overtaken.
THEOREM NothingSkippedCorrect == ProtocolSpec => []NothingSkipped
<1>1. ProtocolInv => NothingSkipped
  <2> SUFFICES ASSUME ProtocolInv, ~gaveUp, ~overtaken
               PROVE  /\ \A i \in 1..Len(got) : got[i] = i
                      /\ seen = server /\ pending = <<>> => Len(got) = made
      BY DEF NothingSkipped
  <2>1. server \in Nat /\ made \in Nat
      BY ProtocolDomains DEF ProtocolInv
  <2> QED
      BY <2>1 DEF ProtocolInv, InOrder, GotFirst, PendingFollows, Consecutive, EndsFresh
<1> QED
    BY <1>1, ProtocolInvariant, PTL

\* The server deals with every message of the client once and in order, and no handler
\* works on a message whose sender had not seen all, with the same exceptions.
THEOREM HandledInFullCorrect == ProtocolSpec => []HandledInFull
<1>1. ProtocolInv => HandledInFull
    BY DEF ProtocolInv, ClientAnswered, InOrder, AnswersComplete, HandledInFull
<1> QED
    BY <1>1, ProtocolInvariant, PTL
=============================================================================
