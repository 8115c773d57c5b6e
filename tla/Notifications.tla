--------------------------- MODULE Notifications ---------------------------
(***************************************************************************)
(* NotificationsService: every service of the backend calls create and     *)
(* does not wait for it.  create looks for a duplicate, then inserts; the  *)
(* database stamps a row when the insert starts and shows it when it       *)
(* commits.  Clients read the feed page by page behind a cursor.           *)
(***************************************************************************)
EXTENDS Naturals, Sequences, FiniteSets, FiniteSetsExt

CONSTANTS
    Clients,    \* wallets, in lower case
    Recent,     \* how many rows the search for a duplicate reads (100)
    PageLimit,  \* rows of a page (50)
    Tick        \* database ticks in one unit of the cursor's clock

ASSUME RecentAssumption == Recent \in Nat \ {0}
ASSUME PageAssumption == PageLimit \in Nat \ {0}
ASSUME TickAssumption == Tick \in Nat \ {0}

VARIABLES
    notes,      \* table notifications, in the order of the commits
    outbox,     \* calls of create that are not over
    sent,       \* calls of create so far
    clock,      \* the database's clock
    day,        \* periods of IDEMPOTENCY_WINDOW_MS
    cursor,     \* cursor[w]: where the client of w has read to
    fetched     \* fetched[w]: stamps of the rows it has been given

feedVars == <<cursor, fetched>>
noteVars == <<notes, outbox, sent, clock, day, feedVars>>

Start == [created |-> 0, id |-> 0]

NotesInit ==
    /\ notes = <<>>
    /\ outbox = {}
    /\ sent = 0
    /\ clock = 0
    /\ day = 0
    /\ cursor = [w \in Clients |-> Start]
    /\ fetched = [w \in Clients |-> {}]

-----------------------------------------------------------------------------
(* create *)

ResolveStatus(type, explicit) ==
    IF explicit # "" THEN explicit
    ELSE IF type \in {"transfer_built", "withdraw_built"} THEN "pending" ELSE "confirmed"

ResolveKind(type) ==
    CASE type \in {"default_triggered", "collateral_slashed", "stream_frozen"} -> "risk"
      [] type = "system" -> "system"
      [] OTHER -> "transaction"

\* What a caller asks for.  The key names the event, its amount and its
\* transaction; status and kind are "" where the caller gives none.
Note(w, type, key, status, kind) ==
    [wallet |-> w, type |-> type, key |-> key,
     status |-> ResolveStatus(type, status),
     kind |-> IF kind # "" THEN kind ELSE ResolveKind(type)]

\* The calls of create a request makes, one after the other.
Notify(wanted) ==
    /\ outbox' = outbox \cup
           {[call |-> sent + i, at |-> "search", note |-> wanted[i], searched |-> 0,
             day |-> 0, created |-> 0] : i \in DOMAIN wanted}
    /\ sent' = sent + Len(wanted)
    /\ UNCHANGED <<notes, clock, day, feedVars>>

\* Rows of the same wallet and type, in the order of their stamps.
OfType(note) ==
    {i \in DOMAIN notes : notes[i].note.wallet = note.wallet /\ notes[i].note.type = note.type}

Newer(rows, i) == {j \in rows : notes[j].created > notes[i].created}

\* Mutant: the oldest rows are searched, not the newest.
SearchedOldest(note) ==
    {i \in OfType(note) :
        /\ Cardinality({j \in OfType(note) : notes[j].created < notes[i].created}) < Recent
        /\ notes[i].day = day}

\* What findDuplicate compares: the Recent newest, up to the first too old.
SearchedRows(note) ==
    {i \in OfType(note) :
        /\ Cardinality(Newer(OfType(note), i)) < Recent
        /\ notes[i].day = day}

Search(c) ==
    /\ c \in outbox /\ c.at = "search"
    /\ LET rest == outbox \ {c}
       IN  outbox' = IF \E i \in SearchedRows(c.note) : notes[i].note.key = c.note.key
                     THEN rest
                     ELSE rest \cup {[c EXCEPT !.at = "insert", !.searched = Len(notes),
                                               !.day = day]}
    /\ UNCHANGED <<notes, sent, clock, day, feedVars>>

Stamp(c) ==
    /\ c \in outbox /\ c.at = "insert"
    /\ clock' = clock + 1
    /\ outbox' = (outbox \ {c}) \cup {[c EXCEPT !.at = "commit", !.created = clock + 1]}
    /\ UNCHANGED <<notes, sent, day, feedVars>>

\* The row is there, and the event is out to the streams that are open.
Commit(c) ==
    /\ c \in outbox /\ c.at = "commit"
    /\ notes' = Append(notes, [note |-> c.note, created |-> c.created, day |-> day,
                               searched |-> c.searched, searchedOn |-> c.day])
    /\ outbox' = outbox \ {c}
    /\ UNCHANGED <<sent, clock, day, feedVars>>

\* A failing query: the caller logs it and the notification is lost.
FailCreate(c) ==
    /\ c \in outbox /\ c.at \in {"search", "commit"}
    /\ outbox' = outbox \ {c}
    /\ UNCHANGED <<notes, sent, clock, day, feedVars>>

\* A whole window passes, with nothing half done in it.
PassWindow ==
    /\ outbox = {}
    /\ day' = day + 1
    /\ UNCHANGED <<notes, outbox, sent, clock, feedVars>>

-----------------------------------------------------------------------------
(* The feed *)

\* The identifiers are random; the order of the commits stands for one choice.
RowsFor(w) == {i \in DOMAIN notes : notes[i].note.wallet = w}

After(i, at) ==
    \/ notes[i].created > at.created
    \/ notes[i].created = at.created /\ i > at.id

InFeedOrder(i, j) ==
    \/ notes[i].created < notes[j].created
    \/ notes[i].created = notes[j].created /\ i < j

Unread(w) == {i \in RowsFor(w) : After(i, cursor[w])}

FirstUnread(w, limit) ==
    {i \in Unread(w) : Cardinality({j \in Unread(w) : InFeedOrder(j, i)}) < limit}

LastOf(rows) == CHOOSE i \in rows : \A j \in rows : ~InFeedOrder(i, j)

\* Mutant: the cursor is that of the extra row read to see if there is more.
NextCursorPastPage(w) ==
    LET read == FirstUnread(w, PageLimit + 1)
    IN  IF read = {} THEN cursor[w]
        ELSE [created |-> notes[LastOf(read)].created, id |-> LastOf(read)]

Page(w) == FirstUnread(w, PageLimit)

\* The cursor goes out in milliseconds: what is finer is cut off.
NextCursor(w) ==
    IF Page(w) = {} THEN cursor[w]
    ELSE [created |-> (notes[LastOf(Page(w))].created \div Tick) * Tick, id |-> LastOf(Page(w))]

FindForWalletIncremental(w) ==
    /\ cursor' = [cursor EXCEPT ![w] = NextCursor(w)]
    /\ fetched' = [fetched EXCEPT ![w] = @ \cup {notes[i].created : i \in Page(w)}]
    /\ UNCHANGED <<notes, outbox, sent, clock, day>>

CreateStep(c) == Search(c) \/ Stamp(c) \/ Commit(c) \/ FailCreate(c)

-----------------------------------------------------------------------------
(* Properties *)

\* Two rows of one key are there only when the second was looked for before
\* the first was committed, in another window, or behind Recent newer rows of
\* the type (findDuplicate and the insert are two steps, and the table has no
\* unique index).
DuplicatesExplained ==
    \A i, j \in DOMAIN notes :
        /\ i < j
        /\ i \in OfType(notes[j].note)
        /\ notes[i].note.key = notes[j].note.key
        => \/ notes[j].searched < i
           \/ notes[j].searchedOn # notes[i].day
           \/ Cardinality(Newer(OfType(notes[i].note) \cap (1..notes[j].searched), i)) >= Recent

\* The cursor of a client never passes a row that was there when the page was
\* read and is not in it or in an earlier one: what it misses was committed
\* after a row with a later stamp (findForWalletIncremental).
CursorSkipsNone ==
    [][\A w \in Clients : \A i \in RowsFor(w) :
          /\ After(i, cursor[w]) /\ ~After(i, cursor'[w])
          => notes[i].created \in fetched'[w]]_feedVars
=============================================================================
