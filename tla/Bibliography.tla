---------------------------- MODULE Bibliography ----------------------------
(***************************************************************************)
(* The bibliography of a user (src/fiduswriter/bibliography/views.py):     *)
(* entries and categories, and the copies of them that the user's devices  *)
(* keep.  biblist sends the entries only to a device that seems to be      *)
(* behind: it compares the second of the last change, and the number of    *)
(* entries, with what it told the device when it last sent them.  The two  *)
(* are read in one statement and the entries in another, and what saves    *)
(* and deletes is in between as it comes.                                  *)
(***************************************************************************)
EXTENDS Integers, FiniteSets

CONSTANTS Machines,        \* devices of the user
          Bodies,          \* what an entry says
          MaxEntries,      \* bound on the entries made
          MaxCategories,   \* bound on the categories made
          MaxSeconds,      \* bound on the seconds that pass
          MaxChores        \* bound on the requests that change something

ASSUME BibliographyAssumption ==
    {MaxEntries, MaxCategories, MaxChores} \subseteq Nat /\ MaxSeconds \in Nat \ {0}

VARIABLES
    entry,       \* the entries: what each says and when it was last modified
    category,    \* the categories
    numbers,     \* the number of the last entry and category made
    second,      \* the time
    copy,        \* the entries each device has, and what it was told of them
    shelf,       \* the categories each device knows
    chore,       \* the rest of the request of each device
    chores,      \* number of requests that change something
    loose,       \* history: devices whose copy was read while something changed, or in the
                 \* second of a change that came after
    given,       \* history: categories that devices were told of
    leftOut      \* history: categories that a request deleted or left out

bibliographyVars == <<entry, category, numbers, second, copy, shelf, chore, chores, loose, given,
                      leftOut>>

NoChore == [at |-> "none"]

BibliographyInit ==
    /\ entry = <<>> /\ category = {} /\ numbers = [entry |-> 0, category |-> 0]
    /\ second = 1
    /\ copy = [m \in Machines |-> [entries |-> <<>>, modified |-> 0, count |-> 0]]
    /\ shelf = [m \in Machines |-> {}] /\ chore = [m \in Machines |-> NoChore]
    /\ chores = 0 /\ loose = {} /\ given = {} /\ leftOut = {}

Said == [i \in DOMAIN entry |-> entry[i].body]

\* The second of the last change, 0 without entries.
LastModified ==
    CHOOSE t \in 0..second :
        /\ \A i \in DOMAIN entry : entry[i].at <= t
        /\ t = 0 \/ \E i \in DOMAIN entry : entry[i].at = t

\* fault: only a device that has more entries is behind
HasMore(m) == copy[m].count > Cardinality(DOMAIN entry)

SeemsBehind(m) ==
    copy[m].modified < LastModified \/ copy[m].count > Cardinality(DOMAIN entry)

Rests(m) == chore[m] = NoChore
Start(m, next) ==
    /\ Rests(m) /\ chores < MaxChores
    /\ chores' = chores + 1 /\ chore' = [chore EXCEPT ![m] = next]
Then(m, next) == chore' = [chore EXCEPT ![m] = next] /\ UNCHANGED chores
Done(m) == Then(m, NoChore)

\* Entries are saved, or one is deleted: a device that is being sent the entries gets some that
\* do not fit what it is told of them, as does one that was told of this second already.
EntriesChange(is) ==
    loose' = loose \cup {m \in Machines :
        chore[m].at = "list" \/ (is # {} /\ copy[m].modified = second)}

categories == <<category, shelf, given, leftOut>>

-----------------------------------------------------------------------------
Tick ==
    /\ second < MaxSeconds /\ second' = second + 1
    /\ UNCHANGED <<entry, category, numbers, copy, shelf, chore, chores, loose, given, leftOut>>

\* biblist: what the device has is compared ...
BibList(m) ==
    /\ Rests(m)
    /\ SeemsBehind(m)
    /\ Then(m, [at |-> "list", modified |-> LastModified, count |-> Cardinality(DOMAIN entry)])
    /\ loose' = loose \ {m}
    /\ UNCHANGED <<entry, category, numbers, second, copy, shelf, given, leftOut>>

\* ... and the entries are read, and sent with the categories.
SendEntries(m) ==
    /\ chore[m].at = "list"
    /\ copy' = [copy EXCEPT ![m] = [entries |-> Said, modified |-> chore[m].modified,
                                    count |-> chore[m].count]]
    /\ shelf' = [shelf EXCEPT ![m] = category]
    /\ given' = given \cup category
    /\ Done(m)
    /\ UNCHANGED <<entry, category, numbers, second, loose, leftOut>>

\* A device that seems to be up to date gets the categories only.
SendCategories(m) ==
    /\ Rests(m) /\ ~SeemsBehind(m) /\ shelf[m] # category
    /\ shelf' = [shelf EXCEPT ![m] = category] /\ given' = given \cup category
    /\ UNCHANGED <<entry, category, numbers, second, copy, chore, chores, loose, leftOut>>

\* save: the entry is looked up (one that is gone is saved as a new one) ...
SaveEntry(m) ==
    /\ \E i \in DOMAIN entry, b \in Bodies : Start(m, [at |-> "write", entry |-> i, body |-> b])
    /\ UNCHANGED <<entry, numbers, second, copy, loose, categories>>

\* ... and written, though it may be gone.
WriteEntry(m) ==
    LET i == chore[m].entry
    IN  /\ chore[m].at = "write"
        /\ entry' = [j \in DOMAIN entry \cup {i} |->
                        IF j = i THEN [body |-> chore[m].body, at |-> second] ELSE entry[j]]
        /\ EntriesChange({i}) /\ Done(m)
        /\ UNCHANGED <<numbers, second, copy, categories>>

\* A new one that says what another says is that one; ...
NewEntry(m) ==
    /\ \E b \in Bodies :
          Start(m, IF \E i \in DOMAIN entry : entry[i].body = b THEN NoChore
                   ELSE [at |-> "insert", body |-> b])
    /\ UNCHANGED <<entry, numbers, second, copy, loose, categories>>

\* ... else it is made.
InsertEntry(m) ==
    LET i == numbers.entry + 1
    IN  /\ chore[m].at = "insert"
        /\ i <= MaxEntries /\ numbers' = [numbers EXCEPT !.entry = i]
        /\ entry' = [j \in DOMAIN entry \cup {i} |->
                        IF j = i THEN [body |-> chore[m].body, at |-> second] ELSE entry[j]]
        /\ EntriesChange({i}) /\ Done(m)
        /\ UNCHANGED <<second, copy, categories>>

DeleteEntry(m) ==
    /\ \E i \in DOMAIN entry : entry' = [j \in DOMAIN entry \ {i} |-> entry[j]]
    /\ Start(m, NoChore) /\ EntriesChange({})
    /\ UNCHANGED <<numbers, second, copy, categories>>

\* save_category: those the device does not list are deleted, ...
SaveCategories(m) ==
    /\ \E keep \in SUBSET shelf[m], new \in 0..1 :
        /\ Start(m, [at |-> "titles", keep |-> keep, new |-> new])
        /\ category' = category \cap keep
        /\ leftOut' = leftOut \cup (category \ keep)
    /\ UNCHANGED <<entry, numbers, second, copy, shelf, loose, given>>

\* ... and the others saved, with a new number those that are gone.
SaveTitles(m) ==
    LET gone == Cardinality(chore[m].keep \ category) + chore[m].new
        fresh == (numbers.category + 1)..(numbers.category + gone)
    IN  /\ chore[m].at = "titles"
        /\ numbers.category + gone <= MaxCategories
        /\ numbers' = [numbers EXCEPT !.category = @ + gone]
        /\ category' = category \cup fresh
        /\ shelf' = [shelf EXCEPT ![m] = (chore[m].keep \cap category) \cup fresh]
        /\ given' = given \cup fresh
        /\ Done(m)
        /\ UNCHANGED <<entry, second, copy, loose, leftOut>>

DeleteCategories(m) ==
    /\ \E cs \in (SUBSET shelf[m]) \ {{}} :
        category' = category \ cs /\ leftOut' = leftOut \cup cs
    /\ Start(m, NoChore)
    /\ UNCHANGED <<entry, numbers, second, copy, shelf, loose, given>>

BibliographyNext ==
    \/ \E m \in Machines :
        \/ BibList(m) \/ SendEntries(m) \/ SendCategories(m)
        \/ SaveEntry(m) \/ WriteEntry(m) \/ NewEntry(m) \/ InsertEntry(m) \/ DeleteEntry(m)
        \/ SaveCategories(m) \/ SaveTitles(m) \/ DeleteCategories(m)
    \/ Tick

BibliographySpec == BibliographyInit /\ [][BibliographyNext]_bibliographyVars

-----------------------------------------------------------------------------
\* Rows have numbers that were given out; copies are of entries.
BibliographyTypeOK ==
    /\ DOMAIN entry \subseteq 1..numbers.entry /\ numbers.entry <= MaxEntries
    /\ \A i \in DOMAIN entry : entry[i].body \in Bodies /\ entry[i].at \in 1..second
    /\ category \cup given \cup leftOut \subseteq 1..numbers.category
    /\ second \in 1..MaxSeconds /\ chores \in 0..MaxChores /\ loose \subseteq Machines

\* A device that does not seem to be behind has what its user saved, unless an entry changed
\* in the second it was told of, after its copy was read, or while it was read; and a
\* category that a device was told of goes only if a request leaves it out.
BibliographyFollows ==
    /\ \A m \in Machines : SeemsBehind(m) \/ m \in loose \/ copy[m].entries = Said
    /\ given \ leftOut \subseteq category
=============================================================================
