--------------------------- MODULE Custody_proofs ---------------------------
(***************************************************************************)
(* What holds of every run of Custody, whatever its constants are: how     *)
(* rows of notifications can repeat, and that the rows of collateral never *)
(* hold more than was credited and record no release that was not paid.    *)
(***************************************************************************)
EXTENDS Custody, FiniteSetTheorems, TLAPS

-----------------------------------------------------------------------------
(* Notifications *)

\* Two notes that findDuplicate takes for one: wallet, type and key agree.
Same(note, other) ==
    note.wallet = other.wallet /\ note.type = other.type /\ note.key = other.key

\* The rows of the wallet and type of row i that are newer, among the first n
\* rows of a table.
NewerAmong(table, n, i) ==
    {k \in DOMAIN table \cap (1 .. n) :
        /\ table[k].note.wallet = table[i].note.wallet
        /\ table[k].note.type = table[i].note.type
        /\ table[k].created > table[i].created}

\* Why row i was not found by a search in the first n rows on some day.
Missed(table, i, n, searchedOn) ==
    \/ n < i
    \/ searchedOn # table[i].day
    \/ Cardinality(NewerAmong(table, n, i)) >= Recent

\* What create knows of the table between its search and its insert.
SearchedBefore(table, c) ==
    /\ c.searched \in 0 .. Len(table)
    /\ \A i \in DOMAIN table :
          Same(table[i].note, c.note) => Missed(table, i, c.searched, c.day)

\* What the table says of itself: no row was searched for in rows after it.
TableExplained(table) ==
    /\ Len(table) \in Nat /\ DOMAIN table = 1 .. Len(table)
    /\ \A j \in DOMAIN table : table[j].searched \in 0 .. j - 1
    /\ \A i, j \in DOMAIN table :
          i < j /\ Same(table[i].note, table[j].note)
          => Missed(table, i, table[j].searched, table[j].searchedOn)

\* DuplicatesExplained is inductive with what the calls under way know.
NotesInv ==
    /\ TableExplained(notes)
    /\ \A c \in outbox : c.at \in {"insert", "commit"} => SearchedBefore(notes, c)

\* The steps of the services write no row and read no page: they only ask for
\* new searches.
OnlyAsks ==
    /\ notes' = notes
    /\ UNCHANGED <<clock, feedVars>>
    /\ day' \in {day, day + 1}
    /\ \A c \in outbox' : c \in outbox \/ c.at = "search"

LEMMA NotifyAsks == ASSUME NEW wanted, Notify(wanted) PROVE OnlyAsks
BY DEF Notify, OnlyAsks

LEMMA CustodyAsks ==
    ASSUME [Next]_vars
    PROVE  \/ OnlyAsks
           \/ \E c \in outbox : CreateStep(c)
           \/ \E w \in Clients : FindForWalletIncremental(w)
<1> USE DEF noteVars
<1>1. UNCHANGED noteVars => OnlyAsks
  BY DEF OnlyAsks
<1>2. \A w, amount : ReleaseFailed(w, amount) => OnlyAsks
  BY NotifyAsks DEF ReleaseFailed
<1> HIDE DEF noteVars
<1>3. ASSUME NEW w \in Clients, NEW amount \in Amounts, Ask(w, amount) PROVE OnlyAsks
  <2>1. CASE DepositToken(w, amount)
    BY <1>1, <2>1 DEF DepositToken
  <2>2. ASSUME NEW r \in Requests, Release(r, w, amount) PROVE OnlyAsks
    BY <1>1, <1>2, <2>2 DEF Release
  <2>3. ASSUME NEW r \in Requests, NEW p \in Pools \cup {None},
               Lock(r, w, p, amount) \/ Slash(r, w, p, amount)
        PROVE  OnlyAsks
    BY <1>1, <2>3 DEF Lock, ReadToAdd, Slash
  <2>4. ASSUME NEW ok \in BOOLEAN, NEW withdraw \in BOOLEAN,
               BuildTransfer(w, amount, ok, withdraw)
        PROVE  OnlyAsks
    BY <2>4, NotifyAsks DEF BuildTransfer
  <2>5. ASSUME NEW mined \in BOOLEAN, NEW seen \in BOOLEAN,
               MintFaucetTokens(w, amount, mined, seen)
        PROVE  OnlyAsks
    BY <2>5, NotifyAsks DEF MintFaucetTokens
  <2>6. QED BY <1>3, <2>1, <2>2, <2>3, <2>4, <2>5 DEF Ask
<1>4. ASSUME NEW r \in Requests, NEW d \in deposits, ConfirmTokenDeposit(r, d)
      PROVE  OnlyAsks
  BY <1>1, <1>4 DEF ConfirmTokenDeposit, ReadToAdd
<1>5. ASSUME NEW r \in Requests, Step(r) PROVE OnlyAsks
  <2>1. CASE SaveAdded(r)
    BY <1>1, <2>1, NotifyAsks DEF SaveAdded
  <2>2. CASE SaveSlashed(r)
    BY <1>1, <2>2 DEF SaveSlashed
  <2>3. CASE TransferMined(r)
    BY <1>1, <1>2, <2>3 DEF TransferMined
  <2>4. CASE TransferFails(r)
    BY <1>2, <2>4 DEF TransferFails
  <2>5. CASE SaveReleased(r)
    BY <1>2, <2>5, NotifyAsks DEF SaveReleased
  <2>6. QED BY <1>5, <2>1, <2>2, <2>3, <2>4, <2>5 DEF Step
<1>6. ASSUME Background
      PROVE  \/ OnlyAsks
             \/ \E c \in outbox : CreateStep(c)
             \/ \E w \in Clients : FindForWalletIncremental(w)
  BY <1>6 DEF Background, PassWindow, OnlyAsks
<1>7. CASE UNCHANGED vars
  BY <1>1, <1>7 DEF vars
<1>8. QED BY <1>3, <1>4, <1>5, <1>6, <1>7 DEF Next

\* A search in the whole table that finds no row of the key leaves each of them
\* on another day or behind enough newer ones.
LEMMA SearchMisses ==
    ASSUME NotesInv, NEW note, NEW i \in DOMAIN notes, Same(notes[i].note, note),
           i \notin SearchedRows(note)
    PROVE  Missed(notes, i, Len(notes), day)
<1>1. i \in OfType(note) /\ Newer(OfType(note), i) = NewerAmong(notes, Len(notes), i)
  BY DEF OfType, Newer, NewerAmong, NotesInv, TableExplained, Same
<1>2. IsFiniteSet(NewerAmong(notes, Len(notes), i))
  <2>1. Len(notes) \in Nat
    BY DEF NotesInv, TableExplained
  <2>2. IsFiniteSet(1 .. Len(notes))
    BY <2>1, FS_Interval
  <2>3. QED BY <2>2, FS_Subset DEF NewerAmong
<1>3. Cardinality(NewerAmong(notes, Len(notes), i)) \in Nat
  BY <1>2, FS_CardinalityType
<1>4. notes[i].day # day \/ ~(Cardinality(Newer(OfType(note), i)) < Recent)
  BY <1>1 DEF SearchedRows
<1>5. QED BY <1>1, <1>3, <1>4, RecentAssumption DEF Missed

\* A new row at the end of a table takes no explanation away.
LEMMA MissedStays ==
    ASSUME NEW table, Len(table) \in Nat, DOMAIN table = 1 .. Len(table), NEW row,
           NEW i \in DOMAIN table, NEW n \in 0 .. Len(table), NEW searchedOn,
           Missed(table, i, n, searchedOn)
    PROVE  Missed(Append(table, row), i, n, searchedOn)
<1> DEFINE longer == Append(table, row)
<1>1. \A k \in DOMAIN table : k \in DOMAIN longer /\ longer[k] = table[k]
  OBVIOUS
<1>2. \A k \in 1 .. n : k \in DOMAIN table
  OBVIOUS
<1> HIDE DEF longer
<1>3. NewerAmong(longer, n, i) = NewerAmong(table, n, i)
  BY <1>1, <1>2 DEF NewerAmong
<1>4. Missed(longer, i, n, searchedOn)
  BY <1>1, <1>3 DEF Missed
<1>5. QED BY <1>4 DEF longer

\* The row of a call whose search missed all its duplicates can be added.
LEMMA CommitExplained ==
    ASSUME NEW table, TableExplained(table), NEW c, SearchedBefore(table, c), NEW row,
           row.note = c.note, row.searched = c.searched, row.searchedOn = c.day
    PROVE  TableExplained(Append(table, row))
<1> DEFINE longer == Append(table, row)
           n == Len(table)
<1>1. /\ n \in Nat /\ Len(longer) = n + 1 /\ DOMAIN longer = 1 .. n + 1
      /\ DOMAIN table = 1 .. n
      /\ \A i \in 1 .. n : longer[i] = table[i]
      /\ longer[n + 1] = row
  BY DEF TableExplained
<1>2. row.searched \in 0 .. n
  BY DEF SearchedBefore
<1>3. ASSUME NEW i \in 1 .. n, NEW searched \in 0 .. n, NEW searchedOn,
             Missed(table, i, searched, searchedOn)
      PROVE  Missed(longer, i, searched, searchedOn)
  BY <1>1, <1>3, MissedStays
<1> HIDE DEF longer
<1>4. \A j \in DOMAIN longer : longer[j].searched \in 0 .. j - 1
  BY <1>1, <1>2 DEF TableExplained
<1>5. ASSUME NEW i \in DOMAIN longer, NEW j \in DOMAIN longer, i < j,
             Same(longer[i].note, longer[j].note)
      PROVE  Missed(longer, i, longer[j].searched, longer[j].searchedOn)
  <2>1. i \in 1 .. n /\ longer[i] = table[i]
    BY <1>1, <1>5
  <2>2. CASE j = n + 1
    <3>1. Same(table[i].note, c.note)
      BY <1>1, <1>5, <2>1, <2>2
    <3>2. Missed(table, i, c.searched, c.day)
      BY <1>1, <2>1, <3>1 DEF SearchedBefore
    <3>3. QED BY <1>1, <1>2, <1>3, <2>1, <2>2, <3>2
  <2>3. CASE j \in 1 .. n
    <3>1. longer[j] = table[j]
      BY <1>1, <2>3
    <3>2. Missed(table, i, table[j].searched, table[j].searchedOn)
      BY <1>1, <1>5, <2>1, <2>3, <3>1 DEF TableExplained
    <3>3. table[j].searched \in 0 .. n
      BY <1>1, <2>3 DEF TableExplained
    <3>4. QED BY <1>3, <2>1, <3>1, <3>2, <3>3
  <2>4. QED BY <1>1, <2>2, <2>3
<1>6. QED BY <1>1, <1>4, <1>5 DEF TableExplained, longer

LEMMA NextNotesInv == NotesInv /\ [Next]_vars => NotesInv'
<1> SUFFICES ASSUME NotesInv, [Next]_vars PROVE NotesInv'
  OBVIOUS
<1>1. CASE OnlyAsks
  BY <1>1 DEF OnlyAsks, NotesInv
<1>2. ASSUME NEW c \in outbox, Search(c) PROVE NotesInv'
  <2> DEFINE d == [c EXCEPT !.at = "insert", !.searched = Len(notes), !.day = day]
             found == \E i \in SearchedRows(c.note) : notes[i].note.key = c.note.key
  <2>1. notes' = notes /\ outbox' = IF found THEN outbox \ {c} ELSE (outbox \ {c}) \cup {d}
    BY <1>2 DEF Search
  <2>2. ASSUME ~found PROVE SearchedBefore(notes, d)
    <3>1. d.note = c.note /\ d.searched = Len(notes) /\ d.day = day
      OBVIOUS
    <3>2. \A i \in DOMAIN notes :
             Same(notes[i].note, c.note) => Missed(notes, i, Len(notes), day)
      BY <2>2, SearchMisses DEF Same
    <3>3. QED BY <3>1, <3>2 DEF SearchedBefore, NotesInv, TableExplained
  <2> HIDE DEF d, found
  <2>3. QED BY <2>1, <2>2 DEF NotesInv
<1>3. ASSUME NEW c \in outbox, Stamp(c) PROVE NotesInv'
  <2> DEFINE d == [c EXCEPT !.at = "commit", !.created = clock + 1]
  <2>1. notes' = notes /\ outbox' = (outbox \ {c}) \cup {d} /\ c.at = "insert"
    BY <1>3 DEF Stamp
  <2>2. d.note = c.note /\ d.searched = c.searched /\ d.day = c.day
    OBVIOUS
  <2> HIDE DEF d
  <2>3. SearchedBefore(notes, d)
    BY <2>1, <2>2 DEF NotesInv, SearchedBefore
  <2>4. QED BY <2>1, <2>3 DEF NotesInv
<1>4. ASSUME NEW c \in outbox, FailCreate(c) PROVE NotesInv'
  BY <1>1, <1>4 DEF FailCreate, OnlyAsks
<1>5. ASSUME NEW c \in outbox, Commit(c) PROVE NotesInv'
  <2> DEFINE row == [note |-> c.note, created |-> c.created, day |-> day,
                     searched |-> c.searched, searchedOn |-> c.day]
  <2>1. /\ notes' = Append(notes, row) /\ outbox' = outbox \ {c}
        /\ SearchedBefore(notes, c) /\ TableExplained(notes)
    BY <1>5 DEF Commit, NotesInv
  <2>2. row.note = c.note /\ row.searched = c.searched /\ row.searchedOn = c.day
    OBVIOUS
  <2> HIDE DEF row
  <2>3. TableExplained(Append(notes, row))
    BY <2>1, <2>2, CommitExplained
  <2>4. ASSUME NEW d \in outbox', d.at \in {"insert", "commit"}
        PROVE  SearchedBefore(Append(notes, row), d)
    <3>1. SearchedBefore(notes, d)
      BY <2>1, <2>4 DEF NotesInv
    <3>2. /\ Len(notes) \in Nat /\ DOMAIN notes = 1 .. Len(notes)
          /\ d.searched \in 0 .. Len(notes)
      BY <2>1, <3>1 DEF TableExplained, SearchedBefore
    <3> DEFINE longer == Append(notes, row)
    <3>3. /\ Len(longer) = Len(notes) + 1 /\ DOMAIN longer = 1 .. Len(notes) + 1
          /\ \A i \in 1 .. Len(notes) : longer[i] = notes[i]
      BY <3>2
    <3>4. ASSUME NEW i \in 1 .. Len(notes), Same(longer[i].note, d.note)
          PROVE  Missed(longer, i, d.searched, d.day)
      <4>1. Missed(notes, i, d.searched, d.day)
        BY <3>1, <3>2, <3>3, <3>4 DEF SearchedBefore
      <4>2. QED BY <3>2, <4>1, MissedStays
    <3> HIDE DEF longer
    <3>5. Missed(longer, Len(notes) + 1, d.searched, d.day)
      BY <3>2 DEF Missed
    <3>6. SearchedBefore(longer, d)
      BY <3>2, <3>3, <3>4, <3>5 DEF SearchedBefore
    <3>7. QED BY <3>6 DEF longer
  <2>5. QED BY <2>1, <2>3, <2>4 DEF NotesInv
<1>6. ASSUME NEW w \in Clients, FindForWalletIncremental(w) PROVE NotesInv'
  BY <1>6 DEF FindForWalletIncremental, NotesInv
<1>7. QED BY <1>1, <1>2, <1>3, <1>4, <1>5, <1>6, CustodyAsks DEF CreateStep

\* Two rows of one key are explained by when the second was searched for, by
\* the window or by the newer rows (findDuplicate and the insert), whatever the
\* services ask for and however the calls of create overlap.
THEOREM DuplicatesHaveReasons == Spec => []DuplicatesExplained
<1>1. Init => NotesInv
  BY DEF Init, NotesInit, NotesInv, TableExplained
<1>2. NotesInv => DuplicatesExplained
  <2> SUFFICES ASSUME NotesInv, NEW i \in DOMAIN notes, NEW j \in DOMAIN notes, i < j,
                      i \in OfType(notes[j].note), notes[i].note.key = notes[j].note.key
               PROVE  \/ notes[j].searched < i
                      \/ notes[j].searchedOn # notes[i].day
                      \/ Cardinality(Newer(OfType(notes[i].note)
                                              \cap (1..notes[j].searched), i)) >= Recent
    BY DEF DuplicatesExplained
  <2>1. Missed(notes, i, notes[j].searched, notes[j].searchedOn)
    BY DEF NotesInv, TableExplained, Same, OfType
  <2>2. Newer(OfType(notes[i].note) \cap (1..notes[j].searched), i)
           = NewerAmong(notes, notes[j].searched, i)
    BY DEF Newer, OfType, NewerAmong
  <2>3. QED BY <2>1, <2>2 DEF Missed
<1>3. QED BY <1>1, <1>2, NextNotesInv, PTL DEF Spec

-----------------------------------------------------------------------------
(* The feed *)

\* Stamps and days are of the past, and each client has a cursor and a record
\* of what it was given.
FeedInv ==
    /\ clock \in Nat /\ day \in Nat
    /\ \A i \in DOMAIN notes : notes[i].created \in 1 .. clock /\ notes[i].day \in 0 .. day
    /\ \A c \in outbox : c.at = "commit" => c.created \in 1 .. clock
    /\ DOMAIN cursor = Clients /\ DOMAIN fetched = Clients

LEMMA NextFeedInv == NotesInv /\ FeedInv /\ [Next]_vars => FeedInv'
<1> SUFFICES ASSUME NotesInv, FeedInv, [Next]_vars PROVE FeedInv'
  OBVIOUS
<1>1. CASE OnlyAsks
  BY <1>1 DEF OnlyAsks, FeedInv, feedVars
<1>2. ASSUME NEW c \in outbox, Search(c) PROVE FeedInv'
  <2> DEFINE d == [c EXCEPT !.at = "insert", !.searched = Len(notes), !.day = day]
  <2>1. /\ UNCHANGED <<notes, clock, day, cursor, fetched>>
        /\ outbox' \subseteq (outbox \ {c}) \cup {d}
    BY <1>2 DEF Search, feedVars
  <2>2. c.at = "search" /\ d.at = "insert"
    BY <1>2 DEF Search
  <2> HIDE DEF d
  <2>3. QED BY <2>1, <2>2 DEF FeedInv
<1>3. ASSUME NEW c \in outbox, Stamp(c) PROVE FeedInv'
  <2> DEFINE d == [c EXCEPT !.at = "commit", !.created = clock + 1]
  <2>1. /\ UNCHANGED <<notes, day, cursor, fetched>> /\ clock' = clock + 1
        /\ outbox' = (outbox \ {c}) \cup {d}
    BY <1>3 DEF Stamp, feedVars
  <2>2. d.created = clock + 1
    OBVIOUS
  <2> HIDE DEF d
  <2>3. QED BY <2>1, <2>2 DEF FeedInv
<1>4. ASSUME NEW c \in outbox, FailCreate(c) PROVE FeedInv'
  BY <1>4 DEF FailCreate, FeedInv, feedVars
<1>5. ASSUME NEW c \in outbox, Commit(c) PROVE FeedInv'
  <2> DEFINE row == [note |-> c.note, created |-> c.created, day |-> day,
                     searched |-> c.searched, searchedOn |-> c.day]
             n == Len(notes)
             longer == Append(notes, row)
  <2>1. /\ UNCHANGED <<clock, day, cursor, fetched>> /\ notes' = longer
        /\ outbox' = outbox \ {c}
    BY <1>5 DEF Commit, feedVars
  <2>2. row.created \in 1 .. clock /\ row.day \in 0 .. day
    BY <1>5 DEF Commit, FeedInv
  <2>3. n \in Nat /\ DOMAIN notes = 1 .. n
    BY DEF NotesInv, TableExplained
  <2>4. /\ DOMAIN longer = 1 .. n + 1 /\ longer[n + 1] = row
        /\ \A i \in 1 .. n : longer[i] = notes[i]
    BY <2>3
  <2> HIDE DEF row, n, longer
  <2>5. \A i \in DOMAIN longer :
           longer[i].created \in 1 .. clock /\ longer[i].day \in 0 .. day
    BY <2>2, <2>3, <2>4 DEF FeedInv
  <2>6. QED BY <2>1, <2>5 DEF FeedInv
<1>6. ASSUME NEW w \in Clients, FindForWalletIncremental(w) PROVE FeedInv'
  BY <1>6 DEF FindForWalletIncremental, FeedInv
<1>7. QED BY <1>1, <1>2, <1>3, <1>4, <1>5, <1>6, CustodyAsks DEF CreateStep

\* There is a last row among finitely many.
LEMMA LastIsLast ==
    ASSUME FeedInv, NotesInv, NEW rows \in SUBSET (DOMAIN notes), rows # {}
    PROVE  LastOf(rows) \in rows /\ \A j \in rows : ~InFeedOrder(LastOf(rows), j)
<1> DEFINE N == DOMAIN notes
           Beyond(i) == {j \in rows : InFeedOrder(i, j)}
           Family == {Beyond(i) : i \in rows}
<1>1. IsFiniteSet(N) /\ N \subseteq Nat
  BY FS_Interval DEF NotesInv, TableExplained
<1>2. Family \subseteq SUBSET N /\ Family # {}
  OBVIOUS
<1>3. PICK s \in Family : \A t \in Family : ~ (<<t, s>> \in StrictSubsetOrdering(N))
  <2>1. IsWellFoundedOn(StrictSubsetOrdering(N), FiniteSubsetsOf(N))
    BY <1>1, FS_StrictSubsetOrderingWellFounded
  <2>2. Family \subseteq FiniteSubsetsOf(N)
    BY <1>1, <1>2, FS_FiniteSubsetsOfFinite
  <2> HIDE DEF Family, N
  <2>3. QED BY <1>2, <2>1, <2>2, WFMin
<1>4. PICK i \in rows : s = Beyond(i)
  BY <1>3
<1>5. ASSUME NEW j \in rows, InFeedOrder(i, j) PROVE FALSE
  <2>1. /\ i \in Nat /\ j \in Nat /\ notes[i].created \in Nat /\ notes[j].created \in Nat
        /\ \A k \in rows : k \in Nat /\ notes[k].created \in Nat
    BY <1>1 DEF FeedInv
  <2>2. Beyond(j) \subseteq Beyond(i) /\ j \in Beyond(i) /\ j \notin Beyond(j)
    BY <1>5, <2>1 DEF InFeedOrder
  <2>3. <<Beyond(j), s>> \in StrictSubsetOrdering(N)
    BY <1>4, <2>2 DEF StrictSubsetOrdering
  <2>4. QED BY <1>3, <2>3
<1>6. QED BY <1>5 DEF LastOf

\* A row the new cursor has behind it is no later than the last row of the page,
\* so there are less than PageLimit rows before it: it is in the page.
LEMMA PageCoversCursor ==
    ASSUME FeedInv, NotesInv, NEW w \in Clients, NEW i \in RowsFor(w),
           After(i, cursor[w]), ~After(i, NextCursor(w))
    PROVE  i \in Page(w)
<1> DEFINE last == LastOf(Page(w))
           Before(j) == {k \in Unread(w) : InFeedOrder(k, j)}
<1>1. i \in Unread(w) /\ Unread(w) \in SUBSET (DOMAIN notes) /\ Page(w) \in SUBSET Unread(w)
  BY DEF Unread, RowsFor, Page, FirstUnread
<1>2. Page(w) # {}
  BY DEF NextCursor
<1>3. last \in Page(w)
  BY <1>1, <1>2, LastIsLast
<1>4. IsFiniteSet(DOMAIN notes) /\ DOMAIN notes \subseteq Nat
  BY FS_Interval DEF NotesInv, TableExplained
<1>5. /\ last \in Nat /\ i \in Nat
      /\ notes[last].created \in Nat /\ notes[i].created \in Nat
  BY <1>1, <1>3, <1>4 DEF FeedInv
<1>6. /\ (notes[last].created \div Tick) * Tick <= notes[last].created
      /\ (notes[last].created \div Tick) * Tick \in Nat
  <2> DEFINE created == notes[last].created
  <2>1. created \in Nat
    BY <1>5
  <2> HIDE DEF created
  <2>2. (created \div Tick) * Tick <= created /\ (created \div Tick) * Tick \in Nat
    BY <2>1, TickAssumption, Z3
  <2>3. QED BY <2>2 DEF created
<1>7. NextCursor(w) = [created |-> (notes[last].created \div Tick) * Tick, id |-> last]
  BY <1>2 DEF NextCursor
<1>8. ~(notes[i].created > (notes[last].created \div Tick) * Tick)
      /\ ~(notes[i].created = (notes[last].created \div Tick) * Tick /\ i > last)
  BY <1>7 DEF After
<1>9. \/ notes[i].created < notes[last].created
      \/ notes[i].created = notes[last].created /\ i <= last
  BY <1>5, <1>6, <1>8
<1>10. Before(i) \subseteq Before(last)
  <2>1. \A k \in Unread(w) : k \in Nat /\ notes[k].created \in Nat
    BY <1>1, <1>4 DEF FeedInv
  <2>2. QED BY <1>5, <1>9, <2>1 DEF InFeedOrder
<1>11. Cardinality(Before(i)) <= Cardinality(Before(last))
      /\ Cardinality(Before(i)) \in Nat /\ Cardinality(Before(last)) \in Nat
  <2>1. Before(last) \subseteq DOMAIN notes
    BY <1>1
  <2> HIDE DEF Before
  <2>2. IsFiniteSet(Before(last)) /\ IsFiniteSet(Before(i))
    BY <1>4, <1>10, <2>1, FS_Subset
  <2>3. QED BY <1>10, <2>2, FS_Subset, FS_CardinalityType
<1>12. Cardinality(Before(last)) < PageLimit
  BY <1>3 DEF Page, FirstUnread
<1>13. QED BY <1>1, <1>11, <1>12, PageAssumption DEF Page, FirstUnread

\* A page takes no row away from a client: what its cursor passes, it was given
\* (findForWalletIncremental, with its cut of the stamp to milliseconds).
THEOREM CursorMissesNone == Spec => CursorSkipsNone
<1>1. Init => NotesInv /\ FeedInv
  BY DEF Init, NotesInit, NotesInv, FeedInv, TableExplained
<1>2. ASSUME NotesInv, FeedInv, [Next]_vars, NEW w \in Clients, NEW i \in RowsFor(w),
             After(i, cursor[w]), ~After(i, cursor'[w])
      PROVE  notes[i].created \in fetched'[w]
  <2>1. CASE OnlyAsks
    BY <1>2, <2>1 DEF OnlyAsks, feedVars
  <2>2. ASSUME NEW c \in outbox, CreateStep(c) PROVE cursor' = cursor
    BY <2>2 DEF CreateStep, Search, Stamp, Commit, FailCreate, feedVars
  <2>3. ASSUME NEW u \in Clients, FindForWalletIncremental(u)
        PROVE  notes[i].created \in fetched'[w]
    <3>1. w = u /\ cursor'[w] = NextCursor(w)
      BY <1>2, <2>3 DEF FindForWalletIncremental, FeedInv, After
    <3>2. i \in Page(w)
      BY <1>2, <3>1, PageCoversCursor
    <3>3. fetched'[w] = fetched[w] \cup {notes[k].created : k \in Page(w)}
      BY <1>2, <2>3, <3>1 DEF FindForWalletIncremental, FeedInv
    <3>4. QED BY <3>2, <3>3
  <2>4. QED BY <1>2, <2>1, <2>2, <2>3, CustodyAsks DEF After
<1> DEFINE Skips == \A w \in Clients : \A i \in RowsFor(w) :
                        /\ After(i, cursor[w]) /\ ~After(i, cursor'[w])
                        => notes[i].created \in fetched'[w]
<1>3. NotesInv /\ FeedInv /\ [Next]_vars => [Skips]_feedVars
  BY <1>2
<1>4. QED BY <1>1, <1>3, NextNotesInv, NextFeedInv, PTL DEF Spec, CursorSkipsNone

-----------------------------------------------------------------------------
(* Sums over finite sets, as in EqubPool_proofs *)

\* MapThenSumSet picks one element after the other.  What it computes for
\* naturals is the number of units below the graph of the function, and sets
\* of units can be compared, split and counted.
Units(f, S) == {unit \in S \X Nat : unit[2] \in 1 .. f[unit[1]]}
Sum(f, S) == Cardinality(Units(f, S))

\* The units of one element.
LEMMA ColumnSize ==
    ASSUME NEW a, NEW n \in Nat
    PROVE  IsFiniteSet({a} \X (1 .. n)) /\ Cardinality({a} \X (1 .. n)) = n
<1> DEFINE One == {a}
           Many == 1 .. n
<1>1. IsFiniteSet(Many) /\ Cardinality(Many) = n
  BY FS_Interval
<1>2. IsFiniteSet(One) /\ Cardinality(One) = 1
  BY FS_Singleton
<1>3. IsFiniteSet(One \X Many) /\ Cardinality(One \X Many) = 1 * n
  <2> HIDE DEF One, Many
  <2> QED BY <1>1, <1>2, FS_Product
<1>4. QED BY <1>3

LEMMA UnitsFinite ==
    ASSUME NEW S, IsFiniteSet(S), NEW f, \A x \in S : f[x] \in Nat
    PROVE  IsFiniteSet(Units(f, S))
<1> DEFINE Column(x) == {x} \X (1 .. f[x])
           column == [x \in S |-> Column(x)]
           Columns == {Column(x) : x \in S}
<1>1. column \in Surjection(S, Columns)
  BY DEF Surjection
<1>2. IsFiniteSet(Columns)
  BY <1>1, FS_Surjection
<1>3. \A C \in Columns : IsFiniteSet(C)
  <2>1. \A x \in S : IsFiniteSet(Column(x))
    BY ColumnSize
  <2>2. QED BY <2>1
<1>4. IsFiniteSet(UNION Columns)
  BY <1>2, <1>3, FS_UNION
<1>5. Units(f, S) \subseteq UNION Columns
  BY DEF Units
<1>6. QED
  BY <1>4, <1>5, FS_Subset

LEMMA SumNat ==
    ASSUME NEW S, IsFiniteSet(S), NEW f, \A x \in S : f[x] \in Nat
    PROVE  Sum(f, S) \in Nat
BY UnitsFinite, FS_CardinalityType DEF Sum

LEMMA SumEmpty == ASSUME NEW f PROVE Sum(f, {}) = 0
<1>1. Units(f, {}) = {}
  BY DEF Units
<1>2. QED BY <1>1, FS_EmptySet DEF Sum

\* The terms can be added in any order.
LEMMA SumRemove ==
    ASSUME NEW S, IsFiniteSet(S), NEW f, \A x \in S : f[x] \in Nat, NEW a \in S
    PROVE  Sum(f, S) = f[a] + Sum(f, S \ {a})
<1> DEFINE Others == Units(f, S \ {a})
           Own == {a} \X (1 .. f[a])
<1>1. Units(f, S) = Others \cup Own /\ Others \cap Own = {}
  BY DEF Units
<1>2. IsFiniteSet(S \ {a})
  BY FS_RemoveElement
<1>3. IsFiniteSet(Others)
  BY <1>2, UnitsFinite
<1>4. IsFiniteSet(Own) /\ Cardinality(Own) = f[a]
  BY ColumnSize
<1>5. Cardinality(Units(f, S)) = Cardinality(Others) + Cardinality(Own) - Cardinality({})
  <2> HIDE DEF Others, Own
  <2> QED BY <1>1, <1>3, <1>4, FS_Union
<1>6. Cardinality(Others) \in Nat
  BY <1>3, FS_CardinalityType
<1>7. QED BY <1>4, <1>5, <1>6, FS_EmptySet DEF Sum

\* Sums are monotone, and depend on the values of the function alone.
LEMMA SumAtMost ==
    ASSUME NEW S, IsFiniteSet(S), NEW f, NEW g,
           \A x \in S : f[x] \in Nat /\ g[x] \in Nat /\ f[x] <= g[x]
    PROVE  Sum(f, S) <= Sum(g, S)
<1>1. Units(f, S) \subseteq Units(g, S)
  BY DEF Units
<1>2. QED BY <1>1, UnitsFinite, FS_Subset DEF Sum

LEMMA SumSame ==
    ASSUME NEW S, NEW f, NEW g, \A x \in S : f[x] = g[x]
    PROVE  Sum(f, S) = Sum(g, S)
<1>1. Units(f, S) = Units(g, S)
  BY DEF Units
<1>2. QED BY <1>1 DEF Sum

\* A change of one term changes the sum by as much.
LEMMA SumChange ==
    ASSUME NEW S, IsFiniteSet(S), NEW f, NEW g, NEW a \in S, NEW amount \in Int,
           \A x \in S : f[x] \in Nat /\ g[x] \in Nat,
           \A x \in S : x # a => f[x] = g[x],
           g[a] = f[a] + amount
    PROVE  Sum(g, S) = Sum(f, S) + amount
<1>1. Sum(f, S) = f[a] + Sum(f, S \ {a})
  BY SumRemove
<1>2. Sum(g, S) = g[a] + Sum(g, S \ {a})
  BY SumRemove
<1>3. Sum(f, S \ {a}) = Sum(g, S \ {a})
  BY SumSame
<1>4. Sum(f, S \ {a}) \in Nat
  BY SumNat, FS_RemoveElement
<1>5. QED BY <1>1, <1>2, <1>3, <1>4

\* A family of subsets of a finite set has a member none of whose elements can
\* be removed within the family.
LEMMA SmallestSet ==
    ASSUME NEW S, IsFiniteSet(S), NEW Family, Family \subseteq SUBSET S, Family # {}
    PROVE  \E s \in Family : \A a \in s : s \ {a} \notin Family
<1>1. IsWellFoundedOn(StrictSubsetOrdering(S), FiniteSubsetsOf(S))
  BY FS_StrictSubsetOrderingWellFounded
<1>2. Family \subseteq FiniteSubsetsOf(S)
  BY FS_FiniteSubsetsOfFinite
<1>3. PICK s \in Family : \A t \in Family : ~ (<<t, s>> \in StrictSubsetOrdering(S))
  BY <1>1, <1>2, WFMin
<1>4. \A a \in s : <<s \ {a}, s>> \in StrictSubsetOrdering(S)
  BY <1>3 DEF StrictSubsetOrdering
<1>5. QED BY <1>3, <1>4

\* The function MapThenFoldSet defines by recursion on the subsets of S.
Recursion(f, S, g) ==
    g = [s \in SUBSET S |->
            IF s = {} THEN 0
            ELSE f[CHOOSE x \in s : TRUE] + g[s \ {CHOOSE x \in s : TRUE}]]

\* There is such a function: the sums are one.
LEMMA RecursionExists ==
    ASSUME NEW S, IsFiniteSet(S), NEW f, \A x \in S : f[x] \in Nat
    PROVE  \E g : Recursion(f, S, g)
<1> DEFINE g == [s \in SUBSET S |-> Sum(f, s)]
<1>1. ASSUME NEW s \in SUBSET S, s # {}
      PROVE  Sum(f, s) = f[CHOOSE x \in s : TRUE] + g[s \ {CHOOSE x \in s : TRUE}]
  <2>1. IsFiniteSet(s)
    BY FS_Subset
  <2>2. PICK a \in s : a = CHOOSE x \in s : TRUE
    BY <1>1
  <2>3. Sum(f, s) = f[a] + Sum(f, s \ {a})
    BY <2>1, SumRemove
  <2>4. QED BY <2>2, <2>3
<1>2. Sum(f, {}) = 0
  BY SumEmpty
<1>3. Recursion(f, S, g)
  BY <1>1, <1>2 DEF Recursion
<1>4. QED BY <1>3

\* Every such function computes the sums: a smallest set where it does not is
\* neither empty nor a set with one element more than a good one.
LEMMA RecursionIsSum ==
    ASSUME NEW S, IsFiniteSet(S), NEW f, \A x \in S : f[x] \in Nat,
           NEW g, Recursion(f, S, g)
    PROVE  g[S] = Sum(f, S)
<1> DEFINE Wrong == {s \in SUBSET S : g[s] # Sum(f, s)}
<1> SUFFICES ASSUME Wrong # {} PROVE FALSE
  OBVIOUS
<1>1. PICK s \in Wrong : \A a \in s : s \ {a} \notin Wrong
  <2> HIDE DEF Wrong
  <2>1. Wrong \subseteq SUBSET S
    BY DEF Wrong
  <2>2. QED BY <2>1, SmallestSet
<1>2. s # {}
  BY SumEmpty DEF Recursion
<1>3. PICK a \in s : a = CHOOSE x \in s : TRUE
  BY <1>2
<1>4. g[s \ {a}] = Sum(f, s \ {a})
  BY <1>1, <1>3
<1>5. g[s] = f[a] + g[s \ {a}]
  BY <1>2, <1>3 DEF Recursion
<1>6. Sum(f, s) = f[a] + Sum(f, s \ {a})
  BY SumRemove, FS_Subset
<1>7. QED BY <1>4, <1>5, <1>6

\* The sum of the sums of two functions is the sum of their sums: a smallest
\* set where it is not cannot be.
LEMMA SumPlus ==
    ASSUME NEW S, IsFiniteSet(S), NEW f, NEW g, NEW h,
           \A x \in S : f[x] \in Nat /\ g[x] \in Nat /\ h[x] = f[x] + g[x]
    PROVE  Sum(h, S) = Sum(f, S) + Sum(g, S)
<1> DEFINE Wrong == {s \in SUBSET S : Sum(h, s) # Sum(f, s) + Sum(g, s)}
<1> SUFFICES ASSUME Wrong # {} PROVE FALSE
  OBVIOUS
<1>1. PICK s \in Wrong : \A a \in s : s \ {a} \notin Wrong
  <2> HIDE DEF Wrong
  <2>1. Wrong \subseteq SUBSET S
    BY DEF Wrong
  <2>2. QED BY <2>1, SmallestSet
<1>2. s # {}
  <2>1. Sum(f, {}) = 0 /\ Sum(g, {}) = 0 /\ Sum(h, {}) = 0
    BY SumEmpty
  <2>2. QED BY <1>1, <2>1
<1>3. PICK a \in s : TRUE
  BY <1>2
<1>4. Sum(h, s \ {a}) = Sum(f, s \ {a}) + Sum(g, s \ {a})
  BY <1>1, <1>3
<1>5. IsFiniteSet(s) /\ IsFiniteSet(s \ {a}) /\ \A x \in s : h[x] \in Nat
  BY FS_Subset
<1>6. /\ Sum(f, s) = f[a] + Sum(f, s \ {a}) /\ Sum(g, s) = g[a] + Sum(g, s \ {a})
      /\ Sum(h, s) = h[a] + Sum(h, s \ {a})
  BY <1>5, SumRemove
<1>7. Sum(f, s \ {a}) \in Nat /\ Sum(g, s \ {a}) \in Nat
  BY <1>5, SumNat
<1>8. QED BY <1>4, <1>6, <1>7

\* A factor common to all the terms can be taken out.
LEMMA SumTimes ==
    ASSUME NEW S, IsFiniteSet(S), NEW f, NEW h, NEW factor \in Nat,
           \A x \in S : f[x] \in Nat /\ h[x] = f[x] * factor
    PROVE  Sum(h, S) = Sum(f, S) * factor
<1> DEFINE Wrong == {s \in SUBSET S : Sum(h, s) # Sum(f, s) * factor}
<1> SUFFICES ASSUME Wrong # {} PROVE FALSE
  OBVIOUS
<1>1. PICK s \in Wrong : \A a \in s : s \ {a} \notin Wrong
  <2> HIDE DEF Wrong
  <2>1. Wrong \subseteq SUBSET S
    BY DEF Wrong
  <2>2. QED BY <2>1, SmallestSet
<1>2. s # {}
  <2>1. Sum(f, {}) = 0 /\ Sum(h, {}) = 0 /\ 0 * factor = 0
    BY SumEmpty
  <2>2. QED BY <1>1, <2>1
<1>3. PICK a \in s : TRUE
  BY <1>2
<1>4. Sum(h, s \ {a}) = Sum(f, s \ {a}) * factor
  BY <1>1, <1>3
<1>5. IsFiniteSet(s) /\ IsFiniteSet(s \ {a}) /\ \A x \in s : h[x] \in Nat
  <2>1. \A n \in Nat : n * factor \in Nat
    OBVIOUS
  <2>2. QED BY <2>1, FS_Subset
<1>6. Sum(f, s) = f[a] + Sum(f, s \ {a}) /\ Sum(h, s) = h[a] + Sum(h, s \ {a})
  BY <1>5, SumRemove
<1>7. Sum(f, s \ {a}) \in Nat /\ f[a] \in Nat
  BY <1>5, SumNat
<1>8. \A m, n \in Nat : (m + n) * factor = m * factor + n * factor
  BY Z3
<1>9. Sum(h, s) = Sum(f, s) * factor
  BY <1>4, <1>6, <1>7, <1>8
<1>10. QED BY <1>9

-----------------------------------------------------------------------------
(* Balances *)

\* The books as values: a table of rows, and what each row can account for.
Row ==
    [id : Nat, wallet : Clients, pool : Pools \cup {None},
     locked : Nat, slashed : Nat, available : Nat]

RowsOf(table, w) == {i \in DOMAIN table : table[i].wallet = w}

Held(row) == row.locked + row.slashed + row.available

\* due[i] and repaid[i] are the shares of row i in what its wallet was credited
\* and paid.  The code keeps no such shares; it is enough that there are some.
Backed(table, credit, refund, due, repaid) ==
    /\ table \in Seq(Row)
    /\ credit \in [Clients -> Nat] /\ refund \in [Clients -> Nat]
    /\ due \in [DOMAIN table -> Nat] /\ repaid \in [DOMAIN table -> Nat]
    /\ \A i \in DOMAIN table :
          Held(table[i]) <= due[i] /\ table[i].available * Whole <= repaid[i]
    /\ \A w \in Clients :
          /\ Sum(due, RowsOf(table, w)) <= credit[w]
          /\ Sum(repaid, RowsOf(table, w)) <= refund[w]

\* What the save of a request is going to add to the credited and to the
\* available tokens.
Gain(t) == IF t.op \in {"confirm", "lock"} THEN ParseAmount(t.amount) ELSE 0
Yield(t) == IF t.op = "release" /\ t.at = "save" THEN ParseAmount(t.amount) ELSE 0

\* The row a request has read, however long ago, fits in the shares of today.
Fits(t, table, due, repaid) ==
    /\ t.row \in Row
    /\ t.op \in {"confirm", "lock", "slash", "release"}
    /\ t.op # "slash" => t.amount \in Nat
    /\ t.op = "release" => ParseAmount(t.amount) <= t.row.locked
    /\ t.row.id = 0 =>
          /\ t.op \in {"confirm", "lock"}
          /\ Held(t.row) <= Gain(t) /\ t.row.available = 0
    /\ t.row.id # 0 =>
          /\ t.row.id \in DOMAIN table /\ table[t.row.id].wallet = t.row.wallet
          /\ Held(t.row) <= due[t.row.id] + Gain(t)
          /\ (t.row.available + Yield(t)) * Whole <= repaid[t.row.id]

BooksInv ==
    /\ requests = [r \in Requests |-> requests[r]]
    /\ \A d \in deposits : d.wallet \in Clients /\ d.amount \in Amounts
    /\ \E due, repaid :
          /\ Backed(collaterals, credited, paid, due, repaid)
          /\ \A r \in Requests :
                requests[r] # None => Fits(requests[r], collaterals, due, repaid)

LEMMA ParseNat ==
    ASSUME NEW amount \in Nat
    PROVE  ParseAmount(amount) \in Nat /\ ParseAmount(amount) * Whole <= amount
<1>1. \A n \in Nat, k \in Nat \ {0} : n \div k \in Nat /\ (n \div k) * k <= n
  BY Z3
<1>2. QED BY <1>1, WholeAssumption DEF ParseAmount

\* Shares only grow, rows stay and keep their wallet: what fitted still fits.
LEMMA FitsStays ==
    ASSUME NEW table, NEW due \in [DOMAIN table -> Nat], NEW repaid \in [DOMAIN table -> Nat],
           NEW later, NEW dueLater \in [DOMAIN later -> Nat],
           NEW repaidLater \in [DOMAIN later -> Nat],
           \A i \in DOMAIN table :
              /\ i \in DOMAIN later /\ later[i].wallet = table[i].wallet
              /\ due[i] <= dueLater[i] /\ repaid[i] <= repaidLater[i],
           NEW t, Fits(t, table, due, repaid)
    PROVE  Fits(t, later, dueLater, repaidLater)
<1>1. t.op # "slash" => ParseAmount(t.amount) \in Nat
  BY ParseNat DEF Fits
<1>2. Gain(t) \in Nat /\ Yield(t) \in Nat
  BY <1>1 DEF Fits, Gain, Yield
<1>3. Held(t.row) \in Nat /\ t.row.available \in Nat
  BY DEF Fits, Row, Held
<1> DEFINE used == (t.row.available + Yield(t)) * Whole
<1>4. used \in Nat
  <2>1. \A m, n \in Nat : m * n \in Nat
    OBVIOUS
  <2>2. t.row.available + Yield(t) \in Nat
    BY <1>2, <1>3
  <2>3. QED BY <2>1, <2>2, WholeAssumption
<1>5. t.row.id # 0 => used <= repaid[t.row.id] /\ t.row.id \in DOMAIN table
  BY DEF Fits
<1> HIDE DEF used
<1>6. t.row.id # 0 => used <= repaidLater[t.row.id]
  BY <1>4, <1>5
<1>7. t.row.id # 0 => Held(t.row) <= dueLater[t.row.id] + Gain(t)
  <2>1. t.row.id # 0 => Held(t.row) <= due[t.row.id] + Gain(t)
    BY DEF Fits
  <2>2. QED BY <1>2, <1>3, <1>5, <2>1
<1>8. t.row.id # 0 => t.row.id \in DOMAIN later /\ later[t.row.id].wallet = t.row.wallet
  BY DEF Fits
<1>9. QED BY <1>6, <1>7, <1>8 DEF Fits, used

LEMMA RowsFinite ==
    ASSUME NEW table \in Seq(Row), NEW w
    PROVE  IsFiniteSet(RowsOf(table, w))
<1>1. IsFiniteSet(1 .. Len(table))
  BY FS_Interval
<1>2. RowsOf(table, w) \subseteq 1 .. Len(table)
  BY DEF RowsOf
<1>3. QED BY <1>1, <1>2, FS_Subset

\* One share grows with what its wallet has got.
LEMMA ShareGrows ==
    ASSUME NEW table \in Seq(Row), NEW share \in [DOMAIN table -> Nat],
           NEW total \in [Clients -> Nat],
           \A w \in Clients : Sum(share, RowsOf(table, w)) <= total[w],
           NEW k \in DOMAIN table, NEW amount \in Nat
    PROVE  \A w \in Clients :
              Sum([share EXCEPT ![k] = @ + amount], RowsOf(table, w))
                 <= [total EXCEPT ![table[k].wallet] = @ + amount][w]
<1> DEFINE more == [share EXCEPT ![k] = @ + amount]
<1>1. /\ more \in [DOMAIN table -> Nat] /\ more[k] = share[k] + amount
      /\ \A i \in DOMAIN table : i # k => more[i] = share[i]
  OBVIOUS
<1> HIDE DEF more
<1> SUFFICES ASSUME NEW w \in Clients
             PROVE  Sum(more, RowsOf(table, w))
                       <= [total EXCEPT ![table[k].wallet] = @ + amount][w]
  BY DEF more
<1>2. RowsOf(table, w) \subseteq DOMAIN table /\ IsFiniteSet(RowsOf(table, w))
  BY RowsFinite DEF RowsOf
<1>3. Sum(share, RowsOf(table, w)) \in Nat /\ Sum(share, RowsOf(table, w)) <= total[w]
  BY <1>2, SumNat
<1>4. CASE w = table[k].wallet
  <2>1. k \in RowsOf(table, w)
    BY <1>4 DEF RowsOf
  <2>2. Sum(more, RowsOf(table, w)) = Sum(share, RowsOf(table, w)) + amount
    BY <1>1, <1>2, <2>1, SumChange
  <2>3. QED BY <1>3, <1>4, <2>2
<1>5. CASE w # table[k].wallet
  <2>1. \A i \in RowsOf(table, w) : more[i] = share[i]
    BY <1>1, <1>5 DEF RowsOf
  <2>2. Sum(more, RowsOf(table, w)) = Sum(share, RowsOf(table, w))
    BY <2>1, SumSame
  <2>3. QED BY <1>3, <1>5, <2>2
<1>6. QED BY <1>4, <1>5

\* A row is written over one of the same wallet, and the wallet gets as much as
\* the new row needs.
LEMMA RowReplaced ==
    ASSUME NEW table, NEW credit, NEW refund, NEW due, NEW repaid,
           Backed(table, credit, refund, due, repaid),
           NEW row \in Row, NEW k \in DOMAIN table, row.wallet = table[k].wallet,
           NEW gain \in Nat, NEW pay \in Nat,
           Held(row) <= due[k] + gain, row.available * Whole <= repaid[k] + pay
    PROVE  Backed([table EXCEPT ![k] = row],
                  [credit EXCEPT ![row.wallet] = @ + gain],
                  [refund EXCEPT ![row.wallet] = @ + pay],
                  [due EXCEPT ![k] = @ + gain], [repaid EXCEPT ![k] = @ + pay])
<1> DEFINE next == [table EXCEPT ![k] = row]
           creditNext == [credit EXCEPT ![row.wallet] = @ + gain]
           refundNext == [refund EXCEPT ![row.wallet] = @ + pay]
           dueNext == [due EXCEPT ![k] = @ + gain]
           repaidNext == [repaid EXCEPT ![k] = @ + pay]
<1>1. /\ table \in Seq(Row) /\ credit \in [Clients -> Nat] /\ refund \in [Clients -> Nat]
      /\ due \in [DOMAIN table -> Nat] /\ repaid \in [DOMAIN table -> Nat]
  BY DEF Backed
<1>2. /\ next \in Seq(Row) /\ DOMAIN next = DOMAIN table
      /\ next[k] = row /\ \A i \in DOMAIN table : i # k => next[i] = table[i]
  BY <1>1
<1>3. row.wallet \in Clients
  BY DEF Row
<1>4. creditNext \in [Clients -> Nat] /\ refundNext \in [Clients -> Nat]
  <2>1. creditNext \in [Clients -> Nat]
    BY <1>1, <1>3
  <2>2. refundNext \in [Clients -> Nat]
    BY <1>1, <1>3
  <2>3. QED BY <2>1, <2>2, Zenon
<1>5. /\ dueNext \in [DOMAIN table -> Nat] /\ repaidNext \in [DOMAIN table -> Nat]
      /\ dueNext[k] = due[k] + gain /\ repaidNext[k] = repaid[k] + pay
      /\ \A i \in DOMAIN table : i # k => dueNext[i] = due[i] /\ repaidNext[i] = repaid[i]
  <2>1. /\ dueNext \in [DOMAIN table -> Nat] /\ dueNext[k] = due[k] + gain
        /\ \A i \in DOMAIN table : i # k => dueNext[i] = due[i]
    BY <1>1
  <2>2. /\ repaidNext \in [DOMAIN table -> Nat] /\ repaidNext[k] = repaid[k] + pay
        /\ \A i \in DOMAIN table : i # k => repaidNext[i] = repaid[i]
    BY <1>1
  <2> HIDE DEF dueNext, repaidNext
  <2>3. QED BY <2>1, <2>2
<1>6. \A w \in Clients :
         /\ Sum(dueNext, RowsOf(table, w)) <= creditNext[w]
         /\ Sum(repaidNext, RowsOf(table, w)) <= refundNext[w]
  BY <1>1, ShareGrows DEF Backed
<1> HIDE DEF next, creditNext, refundNext, dueNext, repaidNext
<1>7. \A w : RowsOf(next, w) = RowsOf(table, w)
  BY <1>2 DEF RowsOf
<1>8. \A i \in DOMAIN next :
         Held(next[i]) <= dueNext[i] /\ next[i].available * Whole <= repaidNext[i]
  <2> SUFFICES ASSUME NEW i \in DOMAIN table
               PROVE  /\ Held(next[i]) <= dueNext[i]
                      /\ next[i].available * Whole <= repaidNext[i]
    BY <1>2
  <2>1. CASE i = k
    BY <1>2, <1>5, <2>1
  <2>2. CASE i # k
    BY <1>2, <1>5, <2>2 DEF Backed
  <2>3. QED BY <2>1, <2>2
<1>9. Backed(next, creditNext, refundNext, dueNext, repaidNext)
  BY <1>2, <1>4, <1>5, <1>6, <1>7, <1>8 DEF Backed
<1>10. QED
  BY <1>9 DEF next, creditNext, refundNext, dueNext, repaidNext

\* A new row begins with a share of what was credited for it, and no other.
LEMMA RowAppended ==
    ASSUME NEW table, NEW credit, NEW refund, NEW due, NEW repaid,
           Backed(table, credit, refund, due, repaid),
           NEW row \in Row, NEW gain \in Nat, Held(row) <= gain, row.available = 0
    PROVE  \E dueNext, repaidNext :
              /\ Backed(Append(table, row), [credit EXCEPT ![row.wallet] = @ + gain],
                        refund, dueNext, repaidNext)
              /\ \A i \in DOMAIN table : dueNext[i] = due[i] /\ repaidNext[i] = repaid[i]
<1> DEFINE next == Append(table, row)
           new == Len(table) + 1
           creditNext == [credit EXCEPT ![row.wallet] = @ + gain]
           dueNext == [i \in DOMAIN next |-> IF i = new THEN gain ELSE due[i]]
           repaidNext == [i \in DOMAIN next |-> IF i = new THEN 0 ELSE repaid[i]]
<1>1. /\ table \in Seq(Row) /\ credit \in [Clients -> Nat] /\ refund \in [Clients -> Nat]
      /\ due \in [DOMAIN table -> Nat] /\ repaid \in [DOMAIN table -> Nat]
  BY DEF Backed
<1>2. /\ next \in Seq(Row) /\ DOMAIN next = DOMAIN table \cup {new} /\ new \notin DOMAIN table
      /\ next[new] = row /\ \A i \in DOMAIN table : next[i] = table[i]
  BY <1>1
<1>3. row.wallet \in Clients
  BY DEF Row
<1>4. creditNext \in [Clients -> Nat]
  BY <1>1, <1>3
<1> HIDE DEF next, new
<1>5. /\ dueNext \in [DOMAIN next -> Nat] /\ repaidNext \in [DOMAIN next -> Nat]
      /\ dueNext[new] = gain /\ repaidNext[new] = 0
      /\ \A i \in DOMAIN table : dueNext[i] = due[i] /\ repaidNext[i] = repaid[i]
  BY <1>1, <1>2
<1>6. /\ creditNext[row.wallet] = credit[row.wallet] + gain
      /\ \A w \in Clients : w # row.wallet => creditNext[w] = credit[w]
  BY <1>1, <1>3
<1> HIDE DEF creditNext, dueNext, repaidNext
<1>7. \A i \in DOMAIN next :
         Held(next[i]) <= dueNext[i] /\ next[i].available * Whole <= repaidNext[i]
  <2> SUFFICES ASSUME NEW i \in DOMAIN next
               PROVE  /\ Held(next[i]) <= dueNext[i]
                      /\ next[i].available * Whole <= repaidNext[i]
    OBVIOUS
  <2>1. CASE i = new
    <3>1. 0 * Whole <= 0
      BY WholeAssumption
    <3>2. QED BY <1>2, <1>5, <2>1, <3>1
  <2>2. CASE i \in DOMAIN table
    BY <1>2, <1>5, <2>2 DEF Backed
  <2>3. QED BY <1>2, <2>1, <2>2
<1>8. ASSUME NEW w \in Clients
      PROVE  /\ Sum(dueNext, RowsOf(next, w)) <= creditNext[w]
             /\ Sum(repaidNext, RowsOf(next, w)) <= refund[w]
  <2> DEFINE old == RowsOf(table, w)
  <2>1. old \subseteq DOMAIN table /\ IsFiniteSet(old)
    BY <1>1, RowsFinite DEF RowsOf
  <2>2. Sum(dueNext, old) = Sum(due, old) /\ Sum(repaidNext, old) = Sum(repaid, old)
    BY <1>5, <2>1, SumSame
  <2>3. /\ Sum(due, old) \in Nat /\ Sum(repaid, old) \in Nat
        /\ Sum(due, old) <= credit[w] /\ Sum(repaid, old) <= refund[w]
    BY <1>1, <2>1, SumNat DEF Backed
  <2>4. CASE w = row.wallet
    <3>1. new \in RowsOf(next, w) /\ RowsOf(next, w) \ {new} = old
      BY <1>2, <2>4 DEF RowsOf
    <3>2. IsFiniteSet(RowsOf(next, w)) /\ RowsOf(next, w) \subseteq DOMAIN next
      BY <1>2, RowsFinite DEF RowsOf
    <3> HIDE DEF old
    <3>3. /\ Sum(dueNext, RowsOf(next, w)) = gain + Sum(dueNext, old)
          /\ Sum(repaidNext, RowsOf(next, w)) = 0 + Sum(repaidNext, old)
      <4>1. \A i \in RowsOf(next, w) : dueNext[i] \in Nat /\ repaidNext[i] \in Nat
        BY <1>5, <3>2
      <4>2. QED BY <1>5, <3>1, <3>2, <4>1, SumRemove
    <3>4. QED BY <1>1, <1>6, <2>2, <2>3, <2>4, <3>3
  <2>5. CASE w # row.wallet
    <3>1. RowsOf(next, w) = old
      BY <1>2, <2>5 DEF RowsOf
    <3>2. QED BY <1>6, <2>2, <2>3, <2>5, <3>1
  <2>6. QED BY <2>4, <2>5
<1>9. Backed(next, creditNext, refund, dueNext, repaidNext)
  BY <1>1, <1>2, <1>4, <1>5, <1>7, <1>8 DEF Backed
<1>10. QED
  BY <1>5, <1>9 DEF next, creditNext

\* The step of one request, seen from the shares before and after it.
LEMMA SharesFollow ==
    ASSUME BooksInv, deposits' = deposits, NEW due, NEW repaid,
           \A r \in Requests :
              requests[r] # None => Fits(requests[r], collaterals, due, repaid),
           NEW r \in Requests, NEW t, requests' = [requests EXCEPT ![r] = t],
           NEW dueNext, NEW repaidNext,
           Backed(collaterals', credited', paid', dueNext, repaidNext),
           \A s : Fits(s, collaterals, due, repaid)
                     => Fits(s, collaterals', dueNext, repaidNext),
           t # None => Fits(t, collaterals', dueNext, repaidNext)
    PROVE  BooksInv'
<1>1. /\ requests' = [q \in Requests |-> requests'[q]]
      /\ \A q \in Requests : requests'[q] = IF q = r THEN t ELSE requests[q]
  BY DEF BooksInv
<1>2. \A q \in Requests :
         requests'[q] # None => Fits(requests'[q], collaterals', dueNext, repaidNext)
  BY <1>1
<1>3. \A d \in deposits' : d.wallet \in Clients /\ d.amount \in Amounts
  BY DEF BooksInv
<1>4. QED BY <1>1, <1>2, <1>3 DEF BooksInv

\* A request that begins with a row it has read: whatever it is going to add,
\* the row fits.
LEMMA BeginKeepsBooks ==
    ASSUME BooksInv, UNCHANGED <<collaterals, moneyVars>>, NEW r \in Requests, NEW t,
           requests' = [requests EXCEPT ![r] = t],
           \A due, repaid :
              Backed(collaterals, credited, paid, due, repaid)
                 => Fits(t, collaterals, due, repaid)
    PROVE  BooksInv'
<1>1. PICK due, repaid :
         /\ Backed(collaterals, credited, paid, due, repaid)
         /\ \A q \in Requests :
               requests[q] # None => Fits(requests[q], collaterals, due, repaid)
  BY DEF BooksInv
<1>2. Fits(t, collaterals, due, repaid)
  BY <1>1
<1>3. QED BY <1>1, <1>2, SharesFollow DEF moneyVars

LEMMA EndKeepsBooks ==
    ASSUME BooksInv, UNCHANGED <<collaterals, deposits, credited, paid>>,
           NEW r \in Requests, End(r)
    PROVE  BooksInv'
<1>1. PICK due, repaid :
         /\ Backed(collaterals, credited, paid, due, repaid)
         /\ \A q \in Requests :
               requests[q] # None => Fits(requests[q], collaterals, due, repaid)
  BY DEF BooksInv
<1>2. QED BY <1>1, SharesFollow DEF End, Continue

\* A row in the table, and a row that is not yet there, as a request reads them.
LEMMA FoundFits ==
    ASSUME NEW due, NEW repaid, Backed(collaterals, credited, paid, due, repaid),
           NEW i \in DOMAIN collaterals, NEW row, row = [collaterals[i] EXCEPT !.id = i]
    PROVE  /\ row \in Row /\ row.id = i /\ row.id # 0
           /\ row.wallet = collaterals[i].wallet
           /\ row.locked = collaterals[i].locked
           /\ Held(row) \in Nat /\ Held(row) <= due[i] /\ due[i] \in Nat
           /\ row.available * Whole <= repaid[i] /\ repaid[i] \in Nat
<1>1. collaterals \in Seq(Row) /\ collaterals[i] \in Row /\ i \in Nat /\ i # 0
  BY DEF Backed
<1>2. /\ row \in Row /\ row.id = i /\ row.wallet = collaterals[i].wallet
      /\ row.locked = collaterals[i].locked /\ row.slashed = collaterals[i].slashed
      /\ row.available = collaterals[i].available
  BY <1>1 DEF Row
<1>3. Held(row) \in Nat /\ Held(row) = Held(collaterals[i])
  BY <1>2 DEF Held, Row
<1>4. QED BY <1>1, <1>2, <1>3 DEF Backed

LEMMA ReadToAddKeepsBooks ==
    ASSUME BooksInv, NEW r \in Requests, NEW op \in {"confirm", "lock"},
           NEW w \in Clients, NEW p \in Pools \cup {None}, NEW amount \in Nat, NEW tx,
           ReadToAdd(r, op, w, p, amount, tx)
    PROVE  BooksInv'
<1>1. PICK read \in Loaded(w, p) :
         Begin(r, [op |-> op, at |-> "save", amount |-> amount, tx |-> tx,
                   row |-> [read EXCEPT !.locked = @ + ParseAmount(amount)]])
  BY DEF ReadToAdd
<1> DEFINE row == [read EXCEPT !.locked = @ + ParseAmount(amount)]
           t == [op |-> op, at |-> "save", amount |-> amount, tx |-> tx, row |-> row]
<1>2. /\ t.op = op /\ t.amount = amount /\ t.row = row
      /\ Gain(t) = ParseAmount(amount) /\ Yield(t) = 0
  BY DEF Gain, Yield
<1>3. ParseAmount(amount) \in Nat
  BY ParseNat
<1>4. ASSUME read \in Row
      PROVE  /\ row \in Row /\ row.id = read.id /\ row.wallet = read.wallet
             /\ row.available = read.available
             /\ Held(row) = Held(read) + ParseAmount(amount)
  BY <1>3, <1>4 DEF Row, Held
<1>5. ASSUME NEW due, NEW repaid, Backed(collaterals, credited, paid, due, repaid)
      PROVE  Fits(t, collaterals, due, repaid)
  <2>1. CASE read = Fresh(w, p)
    <3>1. read \in Row /\ read.id = 0 /\ read.available = 0 /\ Held(read) = 0
      BY <2>1 DEF Fresh, Row, Held
    <3> HIDE DEF row, t
    <3>2. /\ t.row \in Row /\ t.row.id = 0 /\ t.row.available = 0
          /\ Held(t.row) <= Gain(t)
      BY <1>2, <1>3, <1>4, <3>1
    <3>3. QED BY <1>2, <3>2 DEF Fits
  <2>2. CASE \E i \in Found(w, p) : read = [collaterals[i] EXCEPT !.id = i]
    <3>1. PICK i \in DOMAIN collaterals : read = [collaterals[i] EXCEPT !.id = i]
      BY <2>2 DEF Found
    <3> HIDE DEF row, t
    <3>2. /\ read \in Row /\ read.id = i /\ read.id # 0
          /\ read.wallet = collaterals[i].wallet
          /\ Held(read) \in Nat /\ Held(read) <= due[i] /\ due[i] \in Nat
          /\ read.available * Whole <= repaid[i]
      BY <1>5, <3>1, FoundFits
    <3>3. Held(row) <= due[i] + Gain(t)
      BY <1>2, <1>3, <1>4, <3>2
    <3>4. (row.available + Yield(t)) * Whole <= repaid[i]
      <4>1. row.available + Yield(t) = read.available
        BY <1>2, <1>4, <3>2 DEF Row
      <4>2. QED BY <3>2, <4>1
    <3>5. QED BY <1>2, <1>4, <3>1, <3>2, <3>3, <3>4 DEF Fits
  <2>3. QED BY <1>1, <2>1, <2>2 DEF Loaded
<1>6. requests' = [requests EXCEPT ![r] = t]
  BY <1>1 DEF Begin
<1> HIDE DEF t
<1>7. UNCHANGED <<collaterals, moneyVars>>
  BY DEF ReadToAdd
<1>8. QED BY <1>5, <1>6, <1>7, BeginKeepsBooks

LEMMA SlashKeepsBooks ==
    ASSUME BooksInv, NEW r \in Requests, NEW w \in Clients, NEW p, NEW amount \in Nat,
           Slash(r, w, p, amount)
    PROVE  BooksInv'
<1>1. PICK i \in Found(w, p) :
         Begin(r, [op |-> "slash", at |-> "save",
                   row |-> Slashed([collaterals[i] EXCEPT !.id = i], amount)])
  BY DEF Slash
<1> DEFINE read == [collaterals[i] EXCEPT !.id = i]
           row == Slashed(read, amount)
           t == [op |-> "slash", at |-> "save", row |-> row]
<1>2. t.op = "slash" /\ t.row = row /\ Gain(t) = 0 /\ Yield(t) = 0
  BY DEF Gain, Yield
<1>3. ParseAmount(amount) \in Nat
  BY ParseNat
<1>4. ASSUME read \in Row
      PROVE  /\ row \in Row /\ row.id = read.id /\ row.wallet = read.wallet
             /\ row.available = read.available /\ Held(row) = Held(read)
  <2> DEFINE actual == Lesser(ParseAmount(amount), read.locked)
  <2> HIDE DEF read
  <2>1. read.locked \in Nat /\ read.slashed \in Nat
    BY <1>4 DEF Row
  <2>2. actual \in Nat /\ read.locked - actual \in Nat
    BY <1>3, <2>1 DEF Lesser
  <2>3. row = [read EXCEPT !.locked = @ - actual, !.slashed = @ + actual]
    BY DEF Slashed
  <2> HIDE DEF actual, row
  <2>4. /\ row \in Row /\ row.id = read.id /\ row.wallet = read.wallet
        /\ row.available = read.available
        /\ row.locked = read.locked - actual /\ row.slashed = read.slashed + actual
    <3>1. /\ row.locked = read.locked - actual /\ row.slashed = read.slashed + actual
          /\ row.id = read.id /\ row.wallet = read.wallet /\ row.pool = read.pool
          /\ row.available = read.available
      BY <1>4, <2>3 DEF Row
    <3>2. read.locked - actual \in Nat /\ read.slashed + actual \in Nat
      BY <2>1, <2>2
    <3>3. row \in Row
      BY <1>4, <2>3, <3>2 DEF Row
    <3>4. QED BY <3>1, <3>3
  <2>5. QED BY <1>4, <2>1, <2>2, <2>4 DEF Held, Row
<1>5. ASSUME NEW due, NEW repaid, Backed(collaterals, credited, paid, due, repaid)
      PROVE  Fits(t, collaterals, due, repaid)
  <2>1. i \in DOMAIN collaterals
    BY DEF Found
  <2>2. /\ read \in Row /\ read.id = i /\ read.id # 0
        /\ read.wallet = collaterals[i].wallet
        /\ Held(read) \in Nat /\ Held(read) <= due[i] /\ due[i] \in Nat
        /\ read.available * Whole <= repaid[i]
    <3> HIDE DEF t, row
    <3>1. QED BY <1>5, <2>1, FoundFits
  <2> HIDE DEF read, row, t
  <2>3. Held(row) <= due[i] + Gain(t)
    BY <1>2, <1>4, <2>2
  <2>4. (row.available + Yield(t)) * Whole <= repaid[i]
    <3>1. row.available + Yield(t) = read.available
      BY <1>2, <1>4, <2>2 DEF Row
    <3>2. QED BY <2>2, <3>1
  <2>5. QED BY <1>2, <1>4, <2>1, <2>2, <2>3, <2>4 DEF Fits
<1>6. requests' = [requests EXCEPT ![r] = t]
  BY <1>1 DEF Begin
<1>7. UNCHANGED <<collaterals, moneyVars>>
  BY DEF Slash
<1> HIDE DEF t
<1>8. QED BY <1>5, <1>6, <1>7, BeginKeepsBooks

\* What fitted in the old shares fits in the new ones.
LEMMA AllFit ==
    ASSUME NEW table, NEW credit, NEW refund, NEW due, NEW repaid,
           Backed(table, credit, refund, due, repaid),
           NEW later, NEW creditLater, NEW refundLater, NEW dueLater, NEW repaidLater,
           Backed(later, creditLater, refundLater, dueLater, repaidLater),
           \A i \in DOMAIN table :
              /\ i \in DOMAIN later /\ later[i].wallet = table[i].wallet
              /\ due[i] <= dueLater[i] /\ repaid[i] <= repaidLater[i]
    PROVE  \A s : Fits(s, table, due, repaid) => Fits(s, later, dueLater, repaidLater)
BY FitsStays DEF Backed

\* A save over row k of the table, which adds gain to what the wallet is
\* credited and needs no payment besides those made.
LEMMA SaveKeepsBooks ==
    ASSUME BooksInv, deposits' = deposits, paid' = paid,
           NEW due, NEW repaid, Backed(collaterals, credited, paid, due, repaid),
           \A r \in Requests :
              requests[r] # None => Fits(requests[r], collaterals, due, repaid),
           NEW r \in Requests, End(r),
           NEW row \in Row, row.id # 0, row.id \in DOMAIN collaterals,
           row.wallet = collaterals[row.id].wallet, NEW gain \in Nat,
           Held(row) <= due[row.id] + gain, row.available * Whole <= repaid[row.id],
           collaterals' = Saved(row), credited' = [credited EXCEPT ![row.wallet] = @ + gain]
    PROVE  BooksInv'
<1> DEFINE k == row.id
           dueNext == [due EXCEPT ![k] = @ + gain]
           repaidNext == [repaid EXCEPT ![k] = @ + 0]
           paidNext == [paid EXCEPT ![row.wallet] = @ + 0]
<1>1. collaterals' = [collaterals EXCEPT ![k] = row]
  BY DEF Saved
<1>2. /\ collaterals \in Seq(Row) /\ paid \in [Clients -> Nat]
      /\ due \in [DOMAIN collaterals -> Nat] /\ repaid \in [DOMAIN collaterals -> Nat]
  BY DEF Backed
<1>3. row.wallet \in Clients /\ repaid[k] \in Nat /\ row.available \in Nat
  BY <1>2 DEF Row
<1>4. paidNext = paid /\ repaidNext = repaid
  BY <1>2, <1>3
<1>5. row.available * Whole <= repaid[k] + 0
  BY <1>3
<1>6. Backed([collaterals EXCEPT ![k] = row], [credited EXCEPT ![row.wallet] = @ + gain],
             paidNext, dueNext, repaidNext)
  <2> HIDE DEF k
  <2>1. QED BY <1>5, RowReplaced DEF k
<1> HIDE DEF paidNext, repaidNext
<1>7. Backed(collaterals', credited', paid', dueNext, repaid)
  BY <1>1, <1>4, <1>6
<1>8. \A i \in DOMAIN collaterals :
         /\ i \in DOMAIN collaterals' /\ collaterals'[i].wallet = collaterals[i].wallet
         /\ due[i] <= dueNext[i] /\ repaid[i] <= repaid[i]
  BY <1>1, <1>2
<1> HIDE DEF dueNext
<1>9. \A s : Fits(s, collaterals, due, repaid) => Fits(s, collaterals', dueNext, repaid)
  BY <1>7, <1>8, AllFit
<1>10. requests' = [requests EXCEPT ![r] = None]
  BY DEF End, Continue
<1>11. QED BY <1>7, <1>9, <1>10, SharesFollow

LEMMA SaveAddedKeepsBooks ==
    ASSUME BooksInv, NEW r \in Requests, SaveAdded(r)
    PROVE  BooksInv'
<1> DEFINE t == requests[r]
           row == t.row
<1>1. PICK due, repaid :
         /\ Backed(collaterals, credited, paid, due, repaid)
         /\ \A q \in Requests :
               requests[q] # None => Fits(requests[q], collaterals, due, repaid)
  BY DEF BooksInv
<1>2. /\ t # None /\ t.op \in {"confirm", "lock"}
      /\ IF t.row.id = 0 => Insertable(t.row)
         THEN /\ collaterals' = Saved(t.row)
              /\ credited' = [credited EXCEPT ![t.row.wallet] = @ + ParseAmount(t.amount)]
         ELSE UNCHANGED <<noteVars, collaterals, credited>>
      /\ End(r)
      /\ UNCHANGED <<deposits, paid, minted>>
  BY DEF SaveAdded
<1>3. Fits(t, collaterals, due, repaid)
  BY <1>1, <1>2
<1> HIDE DEF t
<1>4. /\ Gain(t) = ParseAmount(t.amount) /\ Gain(t) \in Nat /\ Yield(t) = 0
      /\ row \in Row
  BY <1>2, <1>3, ParseNat DEF Fits, Gain, Yield
<1>5. CASE ~ (row.id = 0 => Insertable(row))
  BY <1>2, <1>5, EndKeepsBooks
<1>6. CASE row.id # 0
  <2>1. /\ row.id \in DOMAIN collaterals /\ row.wallet = collaterals[row.id].wallet
        /\ Held(row) <= due[row.id] + Gain(t)
        /\ (row.available + Yield(t)) * Whole <= repaid[row.id]
    BY <1>3, <1>6 DEF Fits
  <2>2. row.available + Yield(t) = row.available
    BY <1>4 DEF Row
  <2>3. /\ collaterals' = Saved(row)
        /\ credited' = [credited EXCEPT ![row.wallet] = @ + Gain(t)]
    BY <1>2, <1>4, <1>6
  <2> HIDE DEF row
  <2>4. QED BY <1>1, <1>2, <1>4, <1>6, <2>1, <2>2, <2>3, SaveKeepsBooks
<1>7. CASE row.id = 0 /\ Insertable(row)
  <2> DEFINE new == [row EXCEPT !.id = Len(collaterals) + 1]
  <2>1. /\ collaterals' = Append(collaterals, new)
        /\ credited' = [credited EXCEPT ![row.wallet] = @ + Gain(t)]
    BY <1>2, <1>4, <1>7 DEF Saved
  <2>2. Held(row) <= Gain(t) /\ row.available = 0
    BY <1>3, <1>7 DEF Fits
  <2> HIDE DEF row
  <2>3. /\ new \in Row /\ new.wallet = row.wallet /\ new.available = row.available
        /\ Held(new) = Held(row)
    <3>1. Len(collaterals) + 1 \in Nat
      BY <1>1 DEF Backed
    <3>2. QED BY <1>4, <3>1 DEF Row, Held
  <2> HIDE DEF new
  <2>4. Held(new) <= Gain(t) /\ new.available = 0
    BY <2>2, <2>3
  <2>5. PICK dueNext, repaidNext :
           /\ Backed(Append(collaterals, new), [credited EXCEPT ![new.wallet] = @ + Gain(t)],
                     paid, dueNext, repaidNext)
           /\ \A i \in DOMAIN collaterals : dueNext[i] = due[i] /\ repaidNext[i] = repaid[i]
    BY <1>1, <1>4, <2>3, <2>4, RowAppended
  <2>6. Backed(collaterals', credited', paid', dueNext, repaidNext)
    BY <1>2, <2>1, <2>3, <2>5
  <2>7. \A i \in DOMAIN collaterals :
           /\ i \in DOMAIN collaterals' /\ collaterals'[i].wallet = collaterals[i].wallet
           /\ due[i] <= dueNext[i] /\ repaid[i] <= repaidNext[i]
    BY <1>1, <2>1, <2>5 DEF Backed
  <2>8. \A s : Fits(s, collaterals, due, repaid)
                  => Fits(s, collaterals', dueNext, repaidNext)
    BY <1>1, <2>6, <2>7, AllFit
  <2>9. requests' = [requests EXCEPT ![r] = None]
    BY <1>2 DEF End, Continue
  <2>10. QED BY <1>1, <1>2, <2>6, <2>8, <2>9, SharesFollow
<1>8. QED BY <1>5, <1>6, <1>7

LEMMA SaveSlashedKeepsBooks ==
    ASSUME BooksInv, NEW r \in Requests, SaveSlashed(r)
    PROVE  BooksInv'
<1> DEFINE t == requests[r]
           row == t.row
           nothing == 0
<1>1. PICK due, repaid :
         /\ Backed(collaterals, credited, paid, due, repaid)
         /\ \A q \in Requests :
               requests[q] # None => Fits(requests[q], collaterals, due, repaid)
  BY DEF BooksInv
<1>2. /\ t # None /\ t.op = "slash" /\ collaterals' = Saved(row) /\ End(r)
      /\ UNCHANGED moneyVars
  BY DEF SaveSlashed, Doing
<1>3. Fits(t, collaterals, due, repaid)
  BY <1>1, <1>2
<1> HIDE DEF t
<1>4. /\ row \in Row /\ row.id # 0 /\ Gain(t) = 0 /\ Yield(t) = 0
      /\ row.id \in DOMAIN collaterals /\ row.wallet = collaterals[row.id].wallet
      /\ Held(row) <= due[row.id] + Gain(t)
      /\ (row.available + Yield(t)) * Whole <= repaid[row.id]
  BY <1>2, <1>3 DEF Fits, Gain, Yield
<1>5. row.available + Yield(t) = row.available
  BY <1>4 DEF Row
<1>6. credited' = [credited EXCEPT ![row.wallet] = @ + nothing]
  <2> HIDE DEF row
  <2>1. row.wallet \in Clients /\ credited \in [Clients -> Nat]
    BY <1>1, <1>4 DEF Backed, Row
  <2>2. credited' = credited
    BY <1>2 DEF moneyVars
  <2>3. QED BY <2>1, <2>2
<1>7. nothing \in Nat /\ Held(row) <= due[row.id] + nothing
  BY <1>4
<1> HIDE DEF row, nothing
<1>8. deposits' = deposits /\ paid' = paid
  BY <1>2 DEF moneyVars
<1>9. QED BY <1>1, <1>2, <1>4, <1>5, <1>6, <1>7, <1>8, SaveKeepsBooks

LEMMA SaveReleasedKeepsBooks ==
    ASSUME BooksInv, NEW r \in Requests, SaveReleased(r)
    PROVE  BooksInv'
<1> DEFINE t == requests[r]
           read == t.row
           row == Released(t)
           nothing == 0
<1>1. PICK due, repaid :
         /\ Backed(collaterals, credited, paid, due, repaid)
         /\ \A q \in Requests :
               requests[q] # None => Fits(requests[q], collaterals, due, repaid)
  BY DEF BooksInv
<1>2. /\ t # None /\ t.op = "release" /\ t.at = "save"
      /\ collaterals' = Saved(row) \/ collaterals' = collaterals
      /\ End(r) /\ UNCHANGED moneyVars
  BY DEF SaveReleased, Doing
<1>3. Fits(t, collaterals, due, repaid)
  BY <1>1, <1>2
<1>4. row = [read EXCEPT !.locked = @ - ParseAmount(t.amount),
                         !.available = @ + ParseAmount(t.amount)]
  BY DEF Released
<1> HIDE DEF t
<1>5. /\ read \in Row /\ read.id # 0 /\ Gain(t) = 0 /\ Yield(t) = ParseAmount(t.amount)
      /\ ParseAmount(t.amount) \in Nat /\ ParseAmount(t.amount) <= read.locked
      /\ read.id \in DOMAIN collaterals /\ read.wallet = collaterals[read.id].wallet
      /\ Held(read) <= due[read.id] + Gain(t)
      /\ (read.available + Yield(t)) * Whole <= repaid[read.id]
  BY <1>2, <1>3, ParseNat DEF Fits, Gain, Yield
<1> HIDE DEF read, row
<1>6. /\ row \in Row /\ row.id = read.id /\ row.wallet = read.wallet
      /\ row.available = read.available + Yield(t) /\ Held(row) = Held(read)
  <2> DEFINE amount == ParseAmount(t.amount)
  <2>1. row = [read EXCEPT !.locked = @ - amount, !.available = @ + amount]
    BY <1>4
  <2> HIDE DEF amount
  <2>2. /\ row.locked = read.locked - amount /\ row.available = read.available + amount
        /\ row.slashed = read.slashed /\ row.id = read.id /\ row.wallet = read.wallet
    BY <1>5, <2>1 DEF Row
  <2>3. read.locked - amount \in Nat /\ read.available + amount \in Nat
    BY <1>5 DEF Row, amount
  <2>4. row \in Row
    BY <1>5, <2>1, <2>3 DEF Row
  <2>5. Held(row) = Held(read)
    BY <1>5, <2>2 DEF Held, Row, amount
  <2>6. QED BY <1>5, <2>2, <2>4, <2>5 DEF amount
<1>7. credited' = [credited EXCEPT ![row.wallet] = @ + nothing]
  <2>1. row.wallet \in Clients /\ credited \in [Clients -> Nat]
    BY <1>1, <1>6 DEF Backed, Row
  <2>2. credited' = credited
    BY <1>2 DEF moneyVars
  <2>3. QED BY <2>1, <2>2
<1>8. nothing \in Nat /\ Held(row) <= due[row.id] + nothing
  BY <1>5, <1>6
<1>9. row.available * Whole <= repaid[row.id]
  BY <1>5, <1>6
<1> HIDE DEF nothing
<1>10. UNCHANGED <<deposits, credited, paid>>
  BY <1>2 DEF moneyVars
<1>11. CASE collaterals' = collaterals
  BY <1>2, <1>10, <1>11, EndKeepsBooks
<1>12. CASE collaterals' = Saved(row)
  BY <1>1, <1>2, <1>5, <1>6, <1>7, <1>8, <1>9, <1>10, <1>12, SaveKeepsBooks
<1>13. QED BY <1>2, <1>11, <1>12

\* A release begins with a row that holds as much as is asked for.
LEMMA ReleaseKeepsBooks ==
    ASSUME BooksInv, NEW r \in Requests, NEW w \in Clients, NEW amount \in Nat,
           NEW i \in DOMAIN collaterals, ParseAmount(amount) <= collaterals[i].locked,
           Begin(r, [op |-> "release", at |-> "transfer", amount |-> amount,
                     tx |-> calls + 1, row |-> [collaterals[i] EXCEPT !.id = i]]),
           UNCHANGED <<collaterals, moneyVars>>
    PROVE  BooksInv'
<1> DEFINE row == [collaterals[i] EXCEPT !.id = i]
           t == [op |-> "release", at |-> "transfer", amount |-> amount,
                 tx |-> calls + 1, row |-> row]
<1>1. /\ t.op = "release" /\ t.amount = amount /\ t.row = row
      /\ Gain(t) = 0 /\ Yield(t) = 0
  BY DEF Gain, Yield
<1>2. ASSUME NEW due, NEW repaid, Backed(collaterals, credited, paid, due, repaid)
      PROVE  Fits(t, collaterals, due, repaid)
  <2>1. /\ row \in Row /\ row.id = i /\ row.id # 0
        /\ row.wallet = collaterals[i].wallet /\ row.locked = collaterals[i].locked
        /\ Held(row) \in Nat /\ Held(row) <= due[i] /\ due[i] \in Nat
        /\ row.available * Whole <= repaid[i]
    <3> HIDE DEF t
    <3>1. QED BY <1>2, FoundFits
  <2> HIDE DEF row, t
  <2>2. Held(row) <= due[i] + Gain(t)
    BY <1>1, <2>1
  <2>3. (row.available + Yield(t)) * Whole <= repaid[i]
    <3>1. row.available + Yield(t) = row.available
      BY <1>1, <2>1 DEF Row
    <3>2. QED BY <2>1, <3>1
  <2>4. QED BY <1>1, <2>1, <2>2, <2>3 DEF Fits
<1>3. requests' = [requests EXCEPT ![r] = t]
  BY DEF Begin
<1> HIDE DEF t
<1>4. QED BY <1>2, <1>3, BeginKeepsBooks

\* The payment comes first: it makes the row's share large enough for the save.
LEMMA TransferMinedKeepsBooks ==
    ASSUME BooksInv, NEW r \in Requests, TransferMined(r)
    PROVE  BooksInv'
<1> DEFINE t == requests[r]
           row == t.row
           k == row.id
           amount == t.amount
           later == [t EXCEPT !.at = "save"]
<1>1. PICK due, repaid :
         /\ Backed(collaterals, credited, paid, due, repaid)
         /\ \A q \in Requests :
               requests[q] # None => Fits(requests[q], collaterals, due, repaid)
  BY DEF BooksInv
<1>2. /\ t # None /\ t.op = "release" /\ t.at = "transfer"
      /\ paid' = [paid EXCEPT ![row.wallet] = @ + amount]
      /\ \/ requests' = [requests EXCEPT ![r] = later]
         \/ requests' = [requests EXCEPT ![r] = None]
      /\ UNCHANGED <<collaterals, deposits, credited>>
  BY DEF TransferMined, Doing, Continue, End
<1>3. Fits(t, collaterals, due, repaid)
  BY <1>1, <1>2
<1> HIDE DEF t
<1>4. /\ row \in Row /\ k # 0 /\ amount \in Nat /\ Gain(t) = 0 /\ Yield(t) = 0
      /\ ParseAmount(amount) \in Nat /\ ParseAmount(amount) * Whole <= amount
      /\ ParseAmount(amount) <= row.locked
      /\ k \in DOMAIN collaterals /\ row.wallet = collaterals[k].wallet
      /\ Held(row) <= due[k] + Gain(t)
      /\ (row.available + Yield(t)) * Whole <= repaid[k]
  BY <1>2, <1>3, ParseNat DEF Fits, Gain, Yield
<1> HIDE DEF amount
<1> DEFINE nothing == 0
           old == collaterals[k]
           dueNext == [due EXCEPT ![k] = @ + nothing]
           repaidNext == [repaid EXCEPT ![k] = @ + amount]
<1>5. /\ collaterals \in Seq(Row) /\ credited \in [Clients -> Nat] /\ old \in Row
      /\ due \in [DOMAIN collaterals -> Nat] /\ repaid \in [DOMAIN collaterals -> Nat]
      /\ Held(old) <= due[k] /\ old.available * Whole <= repaid[k]
  BY <1>1, <1>4 DEF Backed
<1>6. row.wallet \in Clients /\ row.available \in Nat
  BY <1>4 DEF Row
<1> HIDE DEF row, k
<1>7. /\ collaterals' = [collaterals EXCEPT ![k] = old]
      /\ credited' = [credited EXCEPT ![old.wallet] = @ + nothing]
      /\ paid' = [paid EXCEPT ![old.wallet] = @ + amount]
  BY <1>2, <1>4, <1>5, <1>6
<1>8. /\ nothing \in Nat /\ Held(old) <= due[k] + nothing
      /\ old.available * Whole <= repaid[k] + amount
  <2> DEFINE used == old.available * Whole
  <2>1. used \in Nat
    <3>1. \A m, n \in Nat : m * n \in Nat
      OBVIOUS
    <3>2. QED BY <1>5, <3>1, WholeAssumption DEF Row
  <2>2. Held(old) \in Nat
    <3> HIDE DEF old
    <3>1. old.locked \in Nat /\ old.slashed \in Nat /\ old.available \in Nat
      BY <1>5 DEF Row
    <3>2. QED BY <3>1 DEF Held
  <2>3. repaid[k] \in Nat /\ due[k] \in Nat
    BY <1>4, <1>5
  <2>4. used <= repaid[k]
    BY <1>5
  <2> HIDE DEF used
  <2>5. used <= repaid[k] + amount
    BY <1>4, <2>1, <2>3, <2>4
  <2>6. QED BY <1>5, <2>2, <2>3, <2>5 DEF used
<1> HIDE DEF old
<1>9. Backed(collaterals', credited', paid', dueNext, repaidNext)
  <2> HIDE DEF nothing
  <2>1. QED BY <1>1, <1>4, <1>5, <1>7, <1>8, RowReplaced DEF old
<1>10. \A i \in DOMAIN collaterals :
          /\ i \in DOMAIN collaterals' /\ collaterals'[i].wallet = collaterals[i].wallet
          /\ due[i] <= dueNext[i] /\ repaid[i] <= repaidNext[i]
  BY <1>2, <1>4, <1>5
<1>11. dueNext[k] = due[k] /\ repaidNext[k] = repaid[k] + amount
  BY <1>4, <1>5
<1> HIDE DEF dueNext, repaidNext
<1>12. \A s : Fits(s, collaterals, due, repaid)
                 => Fits(s, collaterals', dueNext, repaidNext)
  BY <1>1, <1>9, <1>10, AllFit
<1>13. Fits(later, collaterals', dueNext, repaidNext)
  <2>1. /\ later.op = "release" /\ later.at = "save" /\ later.row = row
        /\ later.amount = amount
    BY <1>2, <1>3 DEF Fits, row, amount
  <2>2. Gain(later) = 0 /\ Yield(later) = ParseAmount(amount)
    BY <2>1 DEF Gain, Yield
  <2>3. (row.available + Yield(later)) * Whole <= repaidNext[k]
    <3>1. \A m, n \in Nat : (m + n) * Whole = m * Whole + n * Whole
      BY WholeAssumption, Z3
    <3>2. (row.available + Yield(later)) * Whole
             = row.available * Whole + ParseAmount(amount) * Whole
      BY <1>4, <1>6, <2>2, <3>1
    <3>3. row.available * Whole <= repaid[k]
      BY <1>4, <1>6
    <3>4. \A m, n \in Nat : m * n \in Nat
      OBVIOUS
    <3>5. row.available * Whole \in Nat /\ ParseAmount(amount) * Whole \in Nat
      BY <1>4, <1>6, <3>4, WholeAssumption
    <3>6. repaid[k] \in Nat
      BY <1>4, <1>5
    <3>7. QED BY <1>4, <1>11, <3>2, <3>3, <3>5, <3>6
  <2>4. Held(row) <= dueNext[k] + Gain(later)
    BY <1>4, <1>11, <2>2
  <2> HIDE DEF later
  <2>5. k \in DOMAIN collaterals' /\ collaterals'[k].wallet = row.wallet
    BY <1>2, <1>4
  <2>6. QED BY <1>4, <2>1, <2>2, <2>3, <2>4, <2>5 DEF Fits, k
<1> HIDE DEF later
<1>14. QED BY <1>1, <1>2, <1>9, <1>12, <1>13, SharesFollow

LEMMA NextBooksInv == BooksInv /\ [Next]_vars => BooksInv'
<1> SUFFICES ASSUME BooksInv, [Next]_vars PROVE BooksInv'
  OBVIOUS
<1> DEFINE Still == UNCHANGED <<collaterals, requests, moneyVars>>
<1>1. ASSUME UNCHANGED <<collaterals, requests, deposits, credited, paid>>
      PROVE  BooksInv'
  BY <1>1 DEF BooksInv
<1>2. CASE Still
  BY <1>1, <1>2 DEF moneyVars
<1>3. ASSUME NEW w \in Clients, NEW amount \in Amounts, Ask(w, amount) PROVE BooksInv'
  <2>1. amount \in Nat
    BY AmountsAssumption
  <2>2. CASE DepositToken(w, amount)
    <3>1. \A d \in deposits' : d.wallet \in Clients /\ d.amount \in Amounts
      BY <2>2 DEF DepositToken, BooksInv
    <3>2. UNCHANGED <<collaterals, requests, credited, paid>>
      BY <2>2 DEF DepositToken
    <3>3. QED BY <3>1, <3>2 DEF BooksInv
  <2>3. ASSUME NEW r \in Requests, Release(r, w, amount) PROVE BooksInv'
    <3>1. CASE Still
      BY <1>2, <3>1
    <3>2. CASE ~Still
      <4>1. PICK i \in Found(w, None) :
               /\ ParseAmount(amount) <= collaterals[i].locked
               /\ Begin(r, [op |-> "release", at |-> "transfer", amount |-> amount,
                            tx |-> calls + 1, row |-> [collaterals[i] EXCEPT !.id = i]])
               /\ UNCHANGED <<noteVars, collaterals, moneyVars>>
        BY <2>3, <3>2 DEF Release
      <4>2. i \in DOMAIN collaterals
        BY DEF Found
      <4>3. QED BY <2>1, <4>1, <4>2, ReleaseKeepsBooks
    <3>3. QED BY <3>1, <3>2
  <2>4. ASSUME NEW r \in Requests, NEW p \in Pools \cup {None}, Lock(r, w, p, amount)
        PROVE  BooksInv'
    BY <2>1, <2>4, ReadToAddKeepsBooks DEF Lock
  <2>5. ASSUME NEW r \in Requests, NEW p \in Pools \cup {None}, Slash(r, w, p, amount)
        PROVE  BooksInv'
    BY <2>1, <2>5, SlashKeepsBooks
  <2>6. ASSUME NEW ok \in BOOLEAN, NEW withdraw \in BOOLEAN,
               BuildTransfer(w, amount, ok, withdraw)
        PROVE  BooksInv'
    BY <1>2, <2>6 DEF BuildTransfer
  <2>7. ASSUME NEW mined \in BOOLEAN, NEW seen \in BOOLEAN,
               MintFaucetTokens(w, amount, mined, seen)
        PROVE  BooksInv'
    BY <1>1, <2>7 DEF MintFaucetTokens
  <2>8. QED BY <1>3, <2>2, <2>3, <2>4, <2>5, <2>6, <2>7 DEF Ask
<1>4. ASSUME NEW r \in Requests, NEW d \in deposits, ConfirmTokenDeposit(r, d)
      PROVE  BooksInv'
  <2>1. d.wallet \in Clients /\ d.amount \in Nat
    BY AmountsAssumption DEF BooksInv
  <2>2. QED BY <1>4, <2>1, ReadToAddKeepsBooks DEF ConfirmTokenDeposit
<1>5. ASSUME NEW r \in Requests, Step(r) PROVE BooksInv'
  <2>1. CASE TransferFails(r)
    BY <2>1, EndKeepsBooks DEF TransferFails, moneyVars
  <2>2. QED
    BY <1>5, <2>1, SaveAddedKeepsBooks, SaveSlashedKeepsBooks, TransferMinedKeepsBooks,
       SaveReleasedKeepsBooks DEF Step
<1>6. CASE Background
  BY <1>2, <1>6 DEF Background
<1>7. CASE UNCHANGED vars
  BY <1>2, <1>7 DEF vars
<1>8. QED BY <1>3, <1>4, <1>5, <1>6, <1>7 DEF Next

\* A column of the table adds up to the sum of its values.
Column(table, column) == [i \in DOMAIN table |-> table[i][column]]

LEMMA TotalIsSum ==
    ASSUME collaterals \in Seq(Row), NEW w, NEW column,
           \A i \in DOMAIN collaterals : collaterals[i][column] \in Nat
    PROVE  Total(w, column) = Sum(Column(collaterals, column), RowsOf(collaterals, w))
<1> DEFINE S == RowsOf(collaterals, w)
           f == Column(collaterals, column)
           Follows(g) ==
             g = [s \in SUBSET S |->
                   IF s = {} THEN 0
                   ELSE collaterals[CHOOSE x \in s : TRUE][column]
                           + g[s \ {CHOOSE x \in s : TRUE}]]
<1>1. Found(w, None) = S
  BY DEF Found, RowsOf
<1>2. Total(w, column) = (CHOOSE g : Follows(g))[S]
  <2>1. Total(w, column) = MapThenSumSet(LAMBDA i : collaterals[i][column], S)
    BY <1>1 DEF Total
  <2> HIDE DEF S
  <2>2. QED BY <2>1 DEF MapThenSumSet, MapThenFoldSet
<1>3. IsFiniteSet(S)
  BY RowsFinite
<1>4. S \subseteq DOMAIN collaterals
  BY DEF RowsOf
<1> HIDE DEF S
<1>5. \A i \in S : f[i] = collaterals[i][column] /\ f[i] \in Nat
  BY <1>4 DEF Column
<1>6. \A g : Follows(g) <=> Recursion(f, S, g)
  <2> SUFFICES ASSUME NEW g PROVE Follows(g) <=> Recursion(f, S, g)
    OBVIOUS
  <2> DEFINE row(s) == IF s = {} THEN 0
                       ELSE collaterals[CHOOSE x \in s : TRUE][column] + g[s \ {CHOOSE x \in s : TRUE}]
             value(s) == IF s = {} THEN 0
                         ELSE f[CHOOSE x \in s : TRUE] + g[s \ {CHOOSE x \in s : TRUE}]
  <2>1. ASSUME NEW s \in SUBSET S PROVE row(s) = value(s)
    <3>1. CASE s = {}
      BY <3>1
    <3>2. CASE s # {}
      <4>1. (CHOOSE x \in s : TRUE) \in S
        BY <3>2
      <4>2. f[CHOOSE x \in s : TRUE] = collaterals[CHOOSE x \in s : TRUE][column]
        BY <1>5, <4>1
      <4> HIDE DEF f
      <4>3. QED BY <3>2, <4>2
    <3>3. QED BY <3>1, <3>2
  <2>2. Follows(g) <=> g = [s \in SUBSET S |-> row(s)]
    OBVIOUS
  <2>3. Recursion(f, S, g) <=> g = [s \in SUBSET S |-> value(s)]
    BY DEF Recursion
  <2> HIDE DEF row, value, Follows
  <2>4. [s \in SUBSET S |-> row(s)] = [s \in SUBSET S |-> value(s)]
    BY <2>1
  <2>5. QED BY <2>2, <2>3, <2>4
<1>7. \E g : Follows(g)
  <2>1. \E g : Recursion(f, S, g)
    <3> HIDE DEF f
    <3>1. QED BY <1>3, <1>5, RecursionExists
  <2> HIDE DEF f, Follows
  <2>2. QED BY <1>6, <2>1
<1>8. Recursion(f, S, CHOOSE g : Follows(g))
  BY <1>6, <1>7
<1> HIDE DEF f, Follows
<1>9. Total(w, column) = Sum(f, S)
  BY <1>2, <1>3, <1>5, <1>8, RecursionIsSum
<1>10. QED BY <1>9 DEF f, S

LEMMA InitBooksInv == Init => BooksInv
<1> SUFFICES ASSUME Init PROVE BooksInv
  OBVIOUS
<1> DEFINE none == [i \in {} |-> 0]
<1>1. /\ requests = [r \in Requests |-> None] /\ collaterals = <<>> /\ deposits = {}
      /\ credited = [w \in Clients |-> 0] /\ paid = [w \in Clients |-> 0]
  BY DEF Init
<1>2. \A w : RowsOf(collaterals, w) = {}
  BY <1>1 DEF RowsOf
<1>3. none \in [DOMAIN collaterals -> Nat] /\ DOMAIN collaterals = {}
  BY <1>1
<1> HIDE DEF none
<1>4. Sum(none, {}) = 0
  BY SumEmpty
<1>5. Backed(collaterals, credited, paid, none, none)
  <2>1. collaterals \in Seq(Row) /\ credited \in [Clients -> Nat] /\ paid \in [Clients -> Nat]
    BY <1>1
  <2>2. \A w \in Clients : /\ Sum(none, RowsOf(collaterals, w)) <= credited[w]
                          /\ Sum(none, RowsOf(collaterals, w)) <= paid[w]
    <3>1. \A w : Sum(none, RowsOf(collaterals, w)) = 0
      BY <1>2, <1>4
    <3>2. \A w \in Clients : credited[w] = 0 /\ paid[w] = 0
      BY <1>1
    <3>3. QED BY <3>1, <3>2
  <2>3. QED BY <1>3, <2>1, <2>2 DEF Backed
<1>6. QED BY <1>1, <1>5 DEF BooksInv

\* The rows of a wallet never hold more than was credited to it, and none is
\* recorded as released that was not paid, however requests overlap, fail or
\* save rows they read long ago (lock, slash, confirmTokenDeposit,
\* releaseTokenCollateral).
THEOREM BalancesBacked == Spec => []BalancesExplained
<1>1. Init => BooksInv
  BY InitBooksInv
<1>2. BooksInv => BalancesExplained
  <2> SUFFICES ASSUME BooksInv, NEW w \in Clients
               PROVE  /\ \A i \in Found(w, None) : collaterals[i].locked \in Nat
                      /\ Total(w, "locked") + Total(w, "slashed") + Total(w, "available")
                            <= credited[w]
                      /\ Total(w, "available") * Whole <= paid[w]
    BY DEF BalancesExplained
  <2>1. PICK due, repaid : Backed(collaterals, credited, paid, due, repaid)
    BY DEF BooksInv
  <2> DEFINE S == RowsOf(collaterals, w)
             locked == Column(collaterals, "locked")
             slashed == Column(collaterals, "slashed")
             available == Column(collaterals, "available")
             unlocked == [i \in DOMAIN collaterals |-> slashed[i] + available[i]]
             held == [i \in DOMAIN collaterals |-> locked[i] + unlocked[i]]
             fractions == [i \in DOMAIN collaterals |-> available[i] * Whole]
  <2>2. /\ collaterals \in Seq(Row)
        /\ credited[w] \in Nat /\ paid[w] \in Nat
        /\ due \in [DOMAIN collaterals -> Nat] /\ repaid \in [DOMAIN collaterals -> Nat]
        /\ Sum(due, S) <= credited[w] /\ Sum(repaid, S) <= paid[w]
    BY <2>1 DEF Backed
  <2>3. IsFiniteSet(S) /\ S \subseteq DOMAIN collaterals
    BY <2>2, RowsFinite DEF RowsOf
  <2>4. \A i \in DOMAIN collaterals :
           /\ locked[i] = collaterals[i].locked /\ locked[i] \in Nat
           /\ slashed[i] = collaterals[i].slashed /\ slashed[i] \in Nat
           /\ available[i] = collaterals[i].available /\ available[i] \in Nat
    <3>1. \A i \in DOMAIN collaterals : collaterals[i] \in Row
      BY <2>2
    <3>2. \A row \in Row : /\ row["locked"] = row.locked /\ row.locked \in Nat
                          /\ row["slashed"] = row.slashed /\ row.slashed \in Nat
                          /\ row["available"] = row.available /\ row.available \in Nat
      BY DEF Row
    <3>3. QED BY <3>1, <3>2 DEF Column
  <2>5. /\ Total(w, "locked") = Sum(locked, S) /\ Total(w, "slashed") = Sum(slashed, S)
        /\ Total(w, "available") = Sum(available, S)
    <3>1. \A i \in DOMAIN collaterals : /\ collaterals[i]["locked"] \in Nat
                                        /\ collaterals[i]["slashed"] \in Nat
                                        /\ collaterals[i]["available"] \in Nat
      BY <2>4 DEF Column
    <3>2. QED BY <2>2, <3>1, TotalIsSum
  <2>6. \A i \in DOMAIN collaterals :
           collaterals[i].locked + collaterals[i].slashed + collaterals[i].available <= due[i]
    BY <2>1 DEF Backed, Held
  <2>7. \A i \in DOMAIN collaterals : collaterals[i].available * Whole <= repaid[i]
    BY <2>1 DEF Backed
  <2> HIDE DEF locked, slashed, available
  <2>8. \A i \in S :
           /\ locked[i] \in Nat /\ slashed[i] \in Nat /\ available[i] \in Nat
           /\ unlocked[i] = slashed[i] + available[i] /\ unlocked[i] \in Nat
           /\ held[i] = locked[i] + unlocked[i] /\ held[i] \in Nat
           /\ due[i] \in Nat /\ held[i] <= due[i]
    BY <2>2, <2>3, <2>4, <2>6
  <2>9. \A i \in S : /\ fractions[i] = available[i] * Whole /\ fractions[i] \in Nat
                     /\ repaid[i] \in Nat /\ fractions[i] <= repaid[i]
    <3>1. \A m, n \in Nat : m * n \in Nat
      BY Z3
    <3>2. QED BY <2>2, <2>3, <2>4, <2>7, <3>1, WholeAssumption
  <2> HIDE DEF S, unlocked, held, fractions
  <2>10. /\ Sum(unlocked, S) = Sum(slashed, S) + Sum(available, S)
         /\ Sum(held, S) = Sum(locked, S) + Sum(unlocked, S)
    BY <2>3, <2>8, SumPlus
  <2>11. Sum(held, S) <= Sum(due, S)
    BY <2>3, <2>8, SumAtMost
  <2>12. Sum(fractions, S) = Sum(available, S) * Whole
    BY <2>3, <2>8, <2>9, WholeAssumption, SumTimes
  <2>13. Sum(fractions, S) <= Sum(repaid, S)
    BY <2>3, <2>9, SumAtMost
  <2>14. /\ Sum(locked, S) \in Nat /\ Sum(slashed, S) \in Nat /\ Sum(available, S) \in Nat
         /\ Sum(held, S) \in Nat /\ Sum(due, S) \in Nat
         /\ Sum(fractions, S) \in Nat /\ Sum(repaid, S) \in Nat
    BY <2>3, <2>8, <2>9, SumNat
  <2>15. \A i \in Found(w, None) : collaterals[i].locked \in Nat
    BY <2>4 DEF Found
  <2>16. Sum(locked, S) + Sum(slashed, S) + Sum(available, S) <= credited[w]
    BY <2>2, <2>10, <2>11, <2>14
  <2>17. Sum(available, S) * Whole <= paid[w]
    <3>1. Sum(fractions, S) <= paid[w]
      BY <2>2, <2>13, <2>14
    <3>2. QED BY <2>12, <3>1
  <2>18. QED BY <2>5, <2>15, <2>16, <2>17
<1>3. QED BY <1>1, <1>2, NextBooksInv, PTL DEF Spec

-----------------------------------------------------------------------------
(* The shape of the tables *)

\* Rows are where their id says, and the unique index on wallet and pool holds.
Indexed(table) ==
    /\ \A i \in DOMAIN table : table[i].id = i
    /\ \A i, j \in DOMAIN table :
          i # j /\ table[i].pool # None /\ table[i].wallet = table[j].wallet
          => table[i].pool # table[j].pool

\* A row that is going to be saved is new, or has the wallet and pool of the row
\* it replaces.
Placed(row, table) ==
    row.id # 0 => /\ row.id \in DOMAIN table
                  /\ row.wallet = table[row.id].wallet /\ row.pool = table[row.id].pool

ShapeInv ==
    /\ Indexed(collaterals)
    /\ \A r \in Requests : requests[r] # None => Placed(requests[r].row, collaterals)
    /\ minted \in [Clients -> Nat]

\* What BooksInv says of the table and of a request.
LEMMA BooksShape ==
    ASSUME BooksInv
    PROVE  /\ collaterals \in Seq(Row) /\ DOMAIN requests = Requests
           /\ credited \in [Clients -> Nat] /\ paid \in [Clients -> Nat]
           /\ \A r \in Requests : requests[r] # None =>
                /\ requests[r].row \in Row
                /\ requests[r].op \in {"slash", "release"} => requests[r].row.id # 0
                /\ requests[r].op = "release" =>
                     /\ ParseAmount(requests[r].amount) \in Nat
                     /\ ParseAmount(requests[r].amount) <= requests[r].row.locked
<1>1. PICK due, repaid :
         /\ Backed(collaterals, credited, paid, due, repaid)
         /\ \A r \in Requests :
               requests[r] # None => Fits(requests[r], collaterals, due, repaid)
  BY DEF BooksInv
<1>2. DOMAIN requests = Requests
  BY DEF BooksInv
<1>3. ASSUME NEW t, Fits(t, collaterals, due, repaid)
      PROVE  /\ t.row \in Row
             /\ t.op \in {"slash", "release"} => t.row.id # 0
             /\ t.op = "release" => /\ ParseAmount(t.amount) \in Nat
                                    /\ ParseAmount(t.amount) <= t.row.locked
  BY <1>3, ParseNat DEF Fits
<1>4. QED BY <1>1, <1>2, <1>3 DEF Backed

\* Saving a row that is placed keeps the index and what other requests hold.
LEMMA SavedKeepsIndex ==
    ASSUME collaterals \in Seq(Row), Indexed(collaterals), NEW row \in Row,
           Placed(row, collaterals), row.id = 0 => Insertable(row)
    PROVE  /\ Indexed(Saved(row))
           /\ \A other : Placed(other, collaterals) => Placed(other, Saved(row))
<1> DEFINE n == Len(collaterals)
<1>1. n \in Nat /\ DOMAIN collaterals = 1 .. n
  OBVIOUS
<1>2. CASE row.id = 0
  <2> DEFINE new == [row EXCEPT !.id = n + 1]
             longer == Append(collaterals, new)
  <2>1. Saved(row) = longer
    BY <1>2 DEF Saved
  <2>2. new.id = n + 1 /\ new.wallet = row.wallet /\ new.pool = row.pool
    BY DEF Row
  <2> HIDE DEF new
  <2>3. /\ DOMAIN longer = 1 .. n + 1 /\ longer[n + 1] = new
        /\ \A i \in 1 .. n : longer[i] = collaterals[i]
    BY <1>1
  <2>4. \A i \in 1 .. n : new.pool # None /\ collaterals[i].wallet = new.wallet
                          => collaterals[i].pool # new.pool
    BY <1>1, <1>2, <2>2 DEF Insertable, Found
  <2> HIDE DEF longer, n
  <2>5. \A i \in DOMAIN longer : longer[i].id = i
    BY <1>1, <2>2, <2>3 DEF Indexed
  <2>6. ASSUME NEW i \in DOMAIN longer, NEW j \in DOMAIN longer, i # j,
               longer[i].pool # None, longer[i].wallet = longer[j].wallet
        PROVE  longer[i].pool # longer[j].pool
    BY <1>1, <2>3, <2>4, <2>6 DEF Indexed
  <2>7. \A other : Placed(other, collaterals) => Placed(other, longer)
    BY <1>1, <2>3 DEF Placed
  <2>8. QED BY <2>1, <2>5, <2>6, <2>7 DEF Indexed
<1>3. CASE row.id # 0
  <2> DEFINE table == [collaterals EXCEPT ![row.id] = row]
  <2>1. Saved(row) = table
    BY <1>3 DEF Saved
  <2>2. DOMAIN table = DOMAIN collaterals /\ table[row.id] = row
        /\ \A i \in DOMAIN table : i # row.id => table[i] = collaterals[i]
    BY <1>3 DEF Placed
  <2> HIDE DEF table
  <2>3. \A i \in DOMAIN table : /\ table[i].id = i
                                /\ table[i].wallet = collaterals[i].wallet
                                /\ table[i].pool = collaterals[i].pool
    BY <1>3, <2>2 DEF Placed, Indexed
  <2>4. QED BY <2>1, <2>2, <2>3 DEF Placed, Indexed
<1>4. QED BY <1>2, <1>3

\* A request that begins, goes on or ends and leaves the table alone.
LEMMA HeldKeepsShape ==
    ASSUME BooksInv, ShapeInv, UNCHANGED <<collaterals, minted>>, NEW r \in Requests,
           NEW t, requests' = [requests EXCEPT ![r] = t],
           t # None => Placed(t.row, collaterals)
    PROVE  ShapeInv'
<1>1. \A q \in Requests : requests'[q] = IF q = r THEN t ELSE requests[q]
  BY BooksShape
<1>2. QED BY <1>1 DEF ShapeInv

\* A request that saves its row, or a later form of it, and ends.
LEMMA SaveKeepsShape ==
    ASSUME BooksInv, ShapeInv, minted' = minted, NEW r \in Requests, End(r),
           NEW row \in Row, Placed(row, collaterals), row.id = 0 => Insertable(row),
           collaterals' = Saved(row)
    PROVE  ShapeInv'
<1>1. \A q \in Requests : requests'[q] = IF q = r THEN None ELSE requests[q]
  BY BooksShape DEF End, Continue
<1>2. /\ Indexed(Saved(row))
      /\ \A other : Placed(other, collaterals) => Placed(other, Saved(row))
  BY BooksShape, SavedKeepsIndex DEF ShapeInv
<1>3. QED BY <1>1, <1>2 DEF ShapeInv

\* A row that was read is placed, and so is any later form of it.
LEMMA FoundPlaced ==
    ASSUME collaterals \in Seq(Row), NEW i \in DOMAIN collaterals, NEW row,
           row = [collaterals[i] EXCEPT !.id = i]
    PROVE  row \in Row /\ Placed(row, collaterals)
<1>1. collaterals[i] \in Row /\ i \in Nat
  OBVIOUS
<1>2. /\ row \in Row /\ row.id = i /\ row.wallet = collaterals[i].wallet
      /\ row.pool = collaterals[i].pool
  BY <1>1 DEF Row
<1>3. QED BY <1>2 DEF Placed

LEMMA ReadToAddKeepsShape ==
    ASSUME BooksInv, ShapeInv, NEW r \in Requests, NEW op, NEW w \in Clients,
           NEW p \in Pools \cup {None}, NEW amount \in Nat, NEW tx,
           ReadToAdd(r, op, w, p, amount, tx)
    PROVE  ShapeInv'
<1>1. PICK read \in Loaded(w, p) :
         Begin(r, [op |-> op, at |-> "save", amount |-> amount, tx |-> tx,
                   row |-> [read EXCEPT !.locked = @ + ParseAmount(amount)]])
  BY DEF ReadToAdd
<1> DEFINE row == [read EXCEPT !.locked = @ + ParseAmount(amount)]
           t == [op |-> op, at |-> "save", amount |-> amount, tx |-> tx, row |-> row]
<1>2. read \in Row /\ Placed(read, collaterals)
  <2>1. CASE read = Fresh(w, p)
    BY <2>1 DEF Fresh, Row, Placed
  <2>2. CASE \E i \in Found(w, p) : read = [collaterals[i] EXCEPT !.id = i]
    BY <2>2, BooksShape, FoundPlaced DEF Found
  <2>3. QED BY <1>1, <2>1, <2>2 DEF Loaded
<1>3. row.id = read.id /\ row.wallet = read.wallet /\ row.pool = read.pool
  BY <1>2 DEF Row
<1>4. Placed(t.row, collaterals)
  <2> HIDE DEF row
  <2>1. Placed(row, collaterals)
    BY <1>2, <1>3 DEF Placed
  <2>2. QED BY <2>1
<1>5. requests' = [requests EXCEPT ![r] = t] /\ UNCHANGED <<collaterals, minted>>
  BY <1>1 DEF Begin, ReadToAdd, moneyVars
<1> HIDE DEF t
<1>6. QED BY <1>4, <1>5, HeldKeepsShape

LEMMA SlashKeepsShape ==
    ASSUME BooksInv, ShapeInv, NEW r \in Requests, NEW w \in Clients,
           NEW p \in Pools \cup {None}, NEW amount \in Nat, Slash(r, w, p, amount)
    PROVE  ShapeInv'
<1>1. PICK i \in Found(w, p) :
         Begin(r, [op |-> "slash", at |-> "save",
                   row |-> Slashed([collaterals[i] EXCEPT !.id = i], amount)])
  BY DEF Slash
<1> DEFINE read == [collaterals[i] EXCEPT !.id = i]
           row == Slashed(read, amount)
           t == [op |-> "slash", at |-> "save", row |-> row]
<1>2. read \in Row /\ Placed(read, collaterals)
  BY <1>1, BooksShape, FoundPlaced DEF Found
<1> HIDE DEF read
<1>3. row.id = read.id /\ row.wallet = read.wallet /\ row.pool = read.pool
  BY <1>2 DEF Slashed, Row
<1>4. Placed(t.row, collaterals)
  <2> HIDE DEF row
  <2>1. Placed(row, collaterals)
    BY <1>2, <1>3 DEF Placed
  <2>2. QED BY <2>1
<1>5. requests' = [requests EXCEPT ![r] = t] /\ UNCHANGED <<collaterals, minted>>
  BY <1>1 DEF Begin, Slash, moneyVars, read
<1> HIDE DEF t
<1>6. QED BY <1>4, <1>5, HeldKeepsShape

LEMMA ReleaseKeepsShape ==
    ASSUME BooksInv, ShapeInv, NEW r \in Requests, NEW w \in Clients, NEW amount \in Nat,
           Release(r, w, amount)
    PROVE  ShapeInv'
<1>1. CASE UNCHANGED <<requests, collaterals, moneyVars>>
  BY <1>1 DEF ShapeInv, moneyVars
<1>2. CASE \E i \in Found(w, None) :
              /\ Begin(r, [op |-> "release", at |-> "transfer", amount |-> amount,
                           tx |-> calls + 1, row |-> [collaterals[i] EXCEPT !.id = i]])
              /\ UNCHANGED <<noteVars, collaterals, moneyVars>>
  <2>1. PICK i \in Found(w, None) :
              /\ Begin(r, [op |-> "release", at |-> "transfer", amount |-> amount,
                           tx |-> calls + 1, row |-> [collaterals[i] EXCEPT !.id = i]])
              /\ UNCHANGED <<noteVars, collaterals, moneyVars>>
    BY <1>2
  <2> DEFINE row == [collaterals[i] EXCEPT !.id = i]
             t == [op |-> "release", at |-> "transfer", amount |-> amount,
                   tx |-> calls + 1, row |-> row]
  <2>2. Placed(row, collaterals)
    BY BooksShape, FoundPlaced DEF Found
  <2>3. requests' = [requests EXCEPT ![r] = t] /\ UNCHANGED <<collaterals, minted>>
    BY <2>1 DEF Begin, moneyVars
  <2>4. Placed(t.row, collaterals)
    <3> HIDE DEF row
    <3>1. QED BY <2>2
  <2> HIDE DEF t
  <2>5. QED BY <2>3, <2>4, HeldKeepsShape
<1>3. QED BY <1>1, <1>2 DEF Release

LEMMA StepKeepsShape ==
    ASSUME BooksInv, ShapeInv, NEW r \in Requests, Step(r)
    PROVE  ShapeInv'
<1> DEFINE t == requests[r]
<1>1. ASSUME t # None PROVE t.row \in Row /\ Placed(t.row, collaterals)
  BY <1>1, BooksShape DEF ShapeInv
<1>2. ASSUME End(r), UNCHANGED <<collaterals, minted>> PROVE ShapeInv'
  BY <1>2, HeldKeepsShape DEF End, Continue
<1>3. CASE SaveAdded(r)
  <2>1. CASE t.row.id = 0 => Insertable(t.row)
    <3>1. t # None /\ collaterals' = Saved(t.row) /\ End(r) /\ minted' = minted
      BY <1>3, <2>1 DEF SaveAdded
    <3> HIDE DEF t
    <3>2. QED BY <1>1, <2>1, <3>1, SaveKeepsShape
  <2>2. CASE ~ (t.row.id = 0 => Insertable(t.row))
    BY <1>2, <1>3, <2>2 DEF SaveAdded
  <2>3. QED BY <2>1, <2>2
<1>4. CASE SaveSlashed(r)
  <2>1. t # None /\ t.op = "slash" /\ collaterals' = Saved(t.row) /\ End(r) /\ minted' = minted
    BY <1>4 DEF SaveSlashed, Doing, moneyVars
  <2>2. t.row.id # 0
    BY <2>1, BooksShape
  <2> HIDE DEF t
  <2>3. QED BY <1>1, <2>1, <2>2, SaveKeepsShape
<1>5. CASE TransferMined(r)
  <2>1. UNCHANGED <<collaterals, minted>> /\ t # None
    BY <1>5 DEF TransferMined, Doing
  <2>2. CASE End(r)
    BY <1>2, <2>1, <2>2
  <2>3. CASE Continue(r, [t EXCEPT !.at = "save"])
    <3> DEFINE later == [t EXCEPT !.at = "save"]
    <3>1. later.row = t.row
      OBVIOUS
    <3>2. requests' = [requests EXCEPT ![r] = later]
      BY <2>3 DEF Continue
    <3> HIDE DEF later, t
    <3>3. QED BY <1>1, <2>1, <3>1, <3>2, HeldKeepsShape
  <2>4. QED BY <1>5, <2>2, <2>3 DEF TransferMined
<1>6. CASE TransferFails(r)
  BY <1>2, <1>6 DEF TransferFails, moneyVars
<1>7. CASE SaveReleased(r)
  <2>1. t # None /\ t.op = "release" /\ End(r) /\ minted' = minted
    BY <1>7 DEF SaveReleased, Doing, moneyVars
  <2>2. CASE collaterals' = collaterals
    BY <1>2, <2>1, <2>2
  <2>3. CASE collaterals' = Saved(Released(t))
    <3> DEFINE row == Released(t)
               read == t.row
               amount == ParseAmount(t.amount)
    <3>1. read.id # 0 /\ amount \in Nat /\ amount <= read.locked
      BY <2>1, BooksShape
    <3>2. read \in Row /\ Placed(read, collaterals)
      BY <1>1, <2>1
    <3>3. row = [read EXCEPT !.locked = read.locked - amount,
                             !.available = read.available + amount]
      BY DEF Released
    <3> HIDE DEF t, read, amount, row
    <3>4. /\ row \in Row /\ row.id = read.id /\ row.wallet = read.wallet
          /\ row.pool = read.pool
      <4>1. /\ read.locked \in Nat /\ read.available \in Nat
            /\ read.locked - amount \in Nat /\ read.available + amount \in Nat
        BY <3>1, <3>2 DEF Row
      <4>2. QED BY <3>2, <3>3, <4>1 DEF Row
    <3>5. Placed(row, collaterals)
      BY <3>2, <3>4 DEF Placed
    <3>6. collaterals' = Saved(row)
      BY <2>3 DEF row
    <3>7. QED BY <2>1, <3>1, <3>4, <3>5, <3>6, SaveKeepsShape
  <2>4. QED BY <1>7, <2>2, <2>3 DEF SaveReleased
<1>8. QED BY <1>3, <1>4, <1>5, <1>6, <1>7 DEF Step

LEMMA NextShapeInv == BooksInv /\ ShapeInv /\ [Next]_vars => ShapeInv'
<1> SUFFICES ASSUME BooksInv, ShapeInv, [Next]_vars PROVE ShapeInv'
  OBVIOUS
<1>1. ASSUME UNCHANGED <<collaterals, requests, minted>> PROVE ShapeInv'
  BY <1>1 DEF ShapeInv
<1>2. ASSUME NEW w \in Clients, NEW amount \in Amounts, Ask(w, amount) PROVE ShapeInv'
  <2>1. amount \in Nat
    BY AmountsAssumption
  <2>2. CASE DepositToken(w, amount)
    BY <1>1, <2>2 DEF DepositToken
  <2>3. ASSUME NEW r \in Requests, Release(r, w, amount) PROVE ShapeInv'
    BY <2>1, <2>3, ReleaseKeepsShape
  <2>4. ASSUME NEW r \in Requests, NEW p \in Pools \cup {None},
               Lock(r, w, p, amount) \/ Slash(r, w, p, amount)
        PROVE  ShapeInv'
    BY <2>1, <2>4, ReadToAddKeepsShape, SlashKeepsShape DEF Lock
  <2>5. ASSUME NEW ok \in BOOLEAN, NEW withdraw \in BOOLEAN,
               BuildTransfer(w, amount, ok, withdraw)
        PROVE  ShapeInv'
    BY <1>1, <2>5 DEF BuildTransfer, moneyVars
  <2>6. ASSUME NEW mined \in BOOLEAN, NEW seen \in BOOLEAN,
               MintFaucetTokens(w, amount, mined, seen)
        PROVE  ShapeInv'
    <3>1. minted' \in [Clients -> Nat]
      BY <2>1, <2>6 DEF MintFaucetTokens, ShapeInv
    <3>2. UNCHANGED <<collaterals, requests>>
      BY <2>6 DEF MintFaucetTokens
    <3>3. QED BY <3>1, <3>2 DEF ShapeInv
  <2>7. QED BY <1>2, <2>2, <2>3, <2>4, <2>5, <2>6 DEF Ask
<1>3. ASSUME NEW r \in Requests, NEW d \in deposits, ConfirmTokenDeposit(r, d)
      PROVE  ShapeInv'
  <2>1. d.wallet \in Clients /\ d.amount \in Nat
    BY AmountsAssumption DEF BooksInv
  <2>2. QED BY <1>3, <2>1, ReadToAddKeepsShape DEF ConfirmTokenDeposit
<1>4. ASSUME NEW r \in Requests, Step(r) PROVE ShapeInv'
  BY <1>4, StepKeepsShape
<1>5. CASE Background
  BY <1>1, <1>5 DEF Background, moneyVars
<1>6. CASE UNCHANGED vars
  BY <1>1, <1>6 DEF vars, moneyVars
<1>7. QED BY <1>2, <1>3, <1>4, <1>5, <1>6 DEF Next

\* However requests overlap, a row keeps its id, wallet and pool and a wallet has
\* one row a pool, although requests save rows they read long before; no stamp
\* or day is of the future (the Collateral and Notification entities).
THEOREM TypeCorrect == Spec => []TypeOK
<1>1. Init => NotesInv /\ FeedInv /\ BooksInv /\ ShapeInv
  <2>1. Init => NotesInv /\ FeedInv
    BY DEF Init, NotesInit, NotesInv, FeedInv, TableExplained
  <2>2. Init => ShapeInv
    BY DEF Init, ShapeInv, Indexed
  <2>3. QED BY <2>1, <2>2, InitBooksInv
<1>2. FeedInv /\ BooksInv /\ ShapeInv => TypeOK
  <2> SUFFICES ASSUME FeedInv, BooksInv, ShapeInv PROVE TypeOK
    OBVIOUS
  <2>1. ASSUME NEW i \in DOMAIN collaterals
        PROVE  collaterals[i] \in [id : {i}, wallet : Clients, pool : Pools \cup {None},
                                   locked : Nat, slashed : Nat, available : Nat]
    <3>1. collaterals[i] \in Row /\ collaterals[i].id = i
      BY BooksShape DEF ShapeInv, Indexed
    <3>2. QED BY <3>1 DEF Row
  <2>2. \A i, j \in DOMAIN collaterals :
           /\ i # j /\ collaterals[i].pool # None
           /\ collaterals[i].wallet = collaterals[j].wallet
           => collaterals[i].pool # collaterals[j].pool
    BY DEF ShapeInv, Indexed
  <2>3. \A i \in DOMAIN notes : notes[i].created \in 1..clock /\ notes[i].day \in 0..day
    BY DEF FeedInv
  <2>4. QED BY <2>1, <2>2, <2>3, BooksShape DEF TypeOK, ShapeInv
<1>3. QED
  BY <1>1, <1>2, NextNotesInv, NextFeedInv, NextBooksInv, NextShapeInv, PTL DEF Spec
=============================================================================
