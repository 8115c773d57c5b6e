-------------------------------- MODULE Indexer -------------------------------
(***************************************************************************)
(* backend/src/indexer/indexer.service.ts: the copy of the contracts'      *)
(* events into the database.                                               *)
(*                                                                         *)
(* A poll (catchUp) reads the block number and then, for every contract at *)
(* once, the checkpoint, the events chunk by chunk, and at the end writes  *)
(* the checkpoint.  Each await is a point where the other contracts, other *)
(* polls and the API run.  setInterval starts a poll whether or not the    *)
(* last one has ended.  A handler reads its rows, then writes one.  Errors *)
(* of a query or of a handler are logged and skipped.                      *)
(*                                                                         *)
(* The script is what the chain will emit, one event a block; all events   *)
(* concern one pool, wallet and proposal, so that a table has one row per  *)
(* key unless it gets a duplicate.                                         *)
(***************************************************************************)
EXTENDS Integers, Sequences, FiniteSets

CONSTANTS
    MaxPolls,     \* bound: polls under way together
    Scripts,      \* the event logs the chain may produce
    ChunkSize,    \* blocks per query (CHUNK_SIZE)
    MaxFaults     \* bound: failures, restarts, re-indexings and overlapping polls

Pollers == 1 .. MaxPolls
Contracts == {"EqubPool", "PayoutStream", "CreditRegistry", "CollateralVault", "EqubGovernor"}
Names == [EqubPool |-> {"PoolCreated", "JoinedPool", "ContributionReceived", "RoundClosed", "DefaultTriggered"},
          PayoutStream |-> {"StreamCreated", "RoundReleased", "StreamFrozen"},
          CreditRegistry |-> {"ScoreUpdated"},
          CollateralVault |-> {"CollateralDeposited", "CollateralLocked", "CollateralSlashed"},
          EqubGovernor |-> {"ProposalCreated", "VoteCast", "ProposalExecuted", "ProposalCancelled"}]

ASSUME IndexerAssumption ==
    /\ MaxPolls \in Nat \ {0}
    /\ ChunkSize \in Nat \ {0} /\ MaxFaults \in Nat
    /\ \A s \in Scripts : /\ s \in Seq([contract : Contracts, name : STRING, arg : Nat])
                           /\ \A i \in DOMAIN s : s[i].name \in Names[s[i].contract]
\* EqubGovernor executes a proposal or cancels it, never both; a vote is for or
\* against.
ASSUME ScriptsAssumption ==
    \A s \in Scripts : \A i \in DOMAIN s :
        /\ s[i].name = "VoteCast" => s[i].arg \in {0, 1}
        /\ s[i].name = "ProposalExecuted" => \A j \in DOMAIN s : s[j].name # "ProposalCancelled"

VARIABLES
    script,      \* the events of the chain, by block
    head,        \* the last block of the chain
    checkpoint,  \* indexed_blocks: the last block indexed of each contract
    db,          \* the rows of each key, in the order of their insertion
    thread,      \* the progress of each poll in each contract, up to the block it read
    fate,        \* what became of each event the last time it was met
    upset,       \* what has disturbed the indexer so far
    faults       \* the number of disturbances so far

vars == <<script, head, checkpoint, db, thread, fate, upset, faults>>

Blocks == DOMAIN script
Watched == {script[i].contract : i \in Blocks}

\* The row an event is about; contributions have one row per round.
Table(name) ==
    CASE name \in {"PoolCreated", "RoundClosed"} -> "pool"
      [] name = "JoinedPool" -> "member"
      [] name \in {"ContributionReceived", "DefaultTriggered"} -> "contribution"
      [] name \in Names["PayoutStream"] -> "stream"
      [] name \in Names["CreditRegistry"] -> "score"
      [] name \in Names["CollateralVault"] -> "collateral"
      [] name \in Names["EqubGovernor"] -> "proposal"
Key(e) == <<Table(e.name), IF Table(e.name) = "contribution" THEN e.arg ELSE 0>>
PoolKey == <<"pool", 0>>
Keys == {PoolKey} \cup {Key(script[i]) : i \in Blocks}

\* Tables with a unique index; collaterals has one over a NULL column, which
\* keeps nothing unique.
UniqueTables == {"member", "contribution", "stream", "score"}
NeedsPool(e) == Table(e.name) \in {"member", "contribution", "stream"}

NoImage == [none |-> TRUE]
At(pc, to, next, queue) ==
    [pc |-> pc, to |-> to, next |-> next, queue |-> queue, at |-> 0, image |-> NoImage, poolAt |-> 0, poolImage |-> NoImage]
Done == At("done", 0, 0, {})

Init ==
    /\ script \in Scripts
    /\ head = 0
    /\ checkpoint = [c \in Watched |-> 0]
    /\ db = [k \in Keys |-> <<>>]
    /\ thread = [p \in Pollers |-> [c \in Watched |-> Done]]
    /\ fate = [i \in Blocks |-> "waiting"]
    /\ upset = {}
    /\ faults = 0

-----------------------------------------------------------------------------
(* The handlers: what they insert, what they update, where they return *)

Inserts(e) == e.name \in {"PoolCreated", "JoinedPool", "ContributionReceived", "DefaultTriggered",
                          "StreamCreated", "ScoreUpdated", "CollateralDeposited", "ProposalCreated"}

Fresh(e) ==
    CASE e.name = "PoolCreated" -> [currentRound |-> 1, status |-> "active"]
      [] e.name = "JoinedPool" -> [joined |-> TRUE]
      [] e.name = "ContributionReceived" -> [status |-> "confirmed"]
      [] e.name = "DefaultTriggered" -> [status |-> "defaulted"]
      [] e.name = "StreamCreated" -> [released |-> e.arg, frozen |-> FALSE]
      [] e.name = "ScoreUpdated" -> [score |-> e.arg]
      [] e.name = "CollateralDeposited" -> [available |-> e.arg]
      [] e.name = "ProposalCreated" -> [yes |-> 0, no |-> 0, status |-> "active"]

\* A stored row these events leave alone.
Keeps(e, row) ==
    \/ e.name \in {"PoolCreated", "JoinedPool", "StreamCreated", "ProposalCreated"}
    \/ e.name = "ContributionReceived" /\ row.status # "pending-onchain"

\* Handlers that compute with a stored amount throw: BigInt() refuses the text
\* of a decimal(36,18) column, which has a fraction even when it is zero.
Throws(e) == e.name \in {"RoundReleased"} \cup Names["CollateralVault"]

Updated(e, row) ==
    CASE e.name = "RoundClosed" -> [currentRound |-> e.arg + 1, status |-> "round-closed"]
      [] e.name = "ContributionReceived" -> [status |-> "confirmed"]
      [] e.name = "DefaultTriggered" -> [status |-> "defaulted"]
      [] e.name = "StreamFrozen" -> [row EXCEPT !.frozen = TRUE]
      [] e.name = "ScoreUpdated" -> [score |-> e.arg]
      [] e.name = "VoteCast" -> IF e.arg = 1 THEN [row EXCEPT !.yes = @ + 1] ELSE [row EXCEPT !.no = @ + 1]
      [] e.name = "ProposalExecuted" -> [row EXCEPT !.status = "executed"]
      [] e.name = "ProposalCancelled" -> [row EXCEPT !.status = "cancelled"]

\* handleContributionReceived goes on to the pool it read first.
Reopens(e, pool) == e.name = "ContributionReceived" /\ pool.status = "round-closed"

-----------------------------------------------------------------------------
(* The poll *)

Active(p) == \E c \in Watched : thread[p][c].pc # "done"
Idle == \A p \in Pollers : ~Active(p)

ChunkEnd(p, c) ==
    IF thread[p][c].next + ChunkSize - 1 < thread[p][c].to THEN thread[p][c].next + ChunkSize - 1 ELSE thread[p][c].to

\* The chain emits its next event.
Mine ==
    /\ head < Len(script)
    /\ head' = head + 1
    /\ UNCHANGED <<script, checkpoint, db, thread, fate, upset, faults>>

\* startIndexing and its interval: a poll reads the block number, whether or not
\* another one is under way.
StartPoll(p) ==
    /\ ~Active(p) /\ \A q \in 1 .. p - 1 : Active(q)
    /\ thread' = [thread EXCEPT ![p] = [c \in Watched |-> At("begin", head, 0, {})]]
    /\ \/ Idle /\ UNCHANGED <<upset, faults>>
       \/ ~Idle /\ faults < MaxFaults /\ faults' = faults + 1 /\ upset' = upset \cup {"overlap"}
    /\ UNCHANGED <<script, head, checkpoint, db, fate>>

\* Mutant: the block of the checkpoint is indexed again.
ReadCheckpointAgain(p, c) ==
    /\ thread[p][c].pc = "begin"
    /\ thread' = [thread EXCEPT ![p][c] = IF checkpoint[c] > thread[p][c].to THEN Done
                                          ELSE [@ EXCEPT !.pc = "load", !.next = IF checkpoint[c] = 0 THEN 1 ELSE checkpoint[c]]]
    /\ UNCHANGED <<script, head, checkpoint, db, fate, upset, faults>>

\* getLastIndexedBlock: a contract that is up to date is left alone.
ReadCheckpoint(p, c) ==
    /\ thread[p][c].pc = "begin"
    /\ thread' = [thread EXCEPT ![p][c] = IF checkpoint[c] >= thread[p][c].to THEN Done
                                          ELSE [@ EXCEPT !.pc = "load", !.next = checkpoint[c] + 1]]
    /\ UNCHANGED <<script, head, checkpoint, db, fate, upset, faults>>

\* The blocks of a chunk with events of a contract under some names.
Collected(c, names, first, last) ==
    {i \in first .. last : script[i].contract = c /\ script[i].name \in names}

\* Mutant: the next chunk starts one block late.
QueryLate(p, c) ==
    LET t == thread[p][c]  last == ChunkEnd(p, c)
    IN  /\ t.pc = "load" /\ t.queue = {} /\ t.next <= thread[p][c].to
        /\ thread' = [thread EXCEPT ![p][c].queue = Collected(c, Names[c], t.next, last), ![p][c].next = last + 2]
        /\ UNCHANGED <<script, head, checkpoint, db, fate, upset, faults>>

\* One query per event name; the events of a name whose query fails are missed.
Query(p, c) ==
    LET t == thread[p][c]  last == ChunkEnd(p, c)
    IN  /\ t.pc = "load" /\ t.queue = {} /\ t.next <= thread[p][c].to
        /\ \E failing \in SUBSET {script[i].name : i \in t.next .. last} :
             /\ failing \subseteq Names[c]
             /\ failing # {} => faults < MaxFaults
             /\ faults' = IF failing = {} THEN faults ELSE faults + 1
             /\ thread' = [thread EXCEPT ![p][c].queue = Collected(c, Names[c] \ failing, t.next, last),
                                         ![p][c].next = last + 1]
             /\ fate' = [i \in Blocks |-> IF i \in t.next .. last /\ script[i].contract = c /\ script[i].name \in failing
                                          THEN "failed" ELSE fate[i]]
        /\ UNCHANGED <<script, head, checkpoint, db, upset>>

\* Mutant: the checkpoint is the next block to query.
FinishAtNext(p, c) ==
    /\ thread[p][c].pc = "load" /\ thread[p][c].queue = {} /\ thread[p][c].next > thread[p][c].to
    /\ checkpoint' = [checkpoint EXCEPT ![c] = thread[p][c].next]
    /\ thread' = [thread EXCEPT ![p][c] = Done]
    /\ UNCHANGED <<script, head, db, fate, upset, faults>>

\* setLastIndexedBlock, after the last chunk.
Finish(p, c) ==
    /\ thread[p][c].pc = "load" /\ thread[p][c].queue = {} /\ thread[p][c].next > thread[p][c].to
    /\ checkpoint' = [checkpoint EXCEPT ![c] = thread[p][c].to]
    /\ thread' = [thread EXCEPT ![p][c] = Done]
    /\ UNCHANGED <<script, head, db, fate, upset, faults>>

-----------------------------------------------------------------------------
(* One event in its handler *)

\* Mutant: without the sort the events come name by name.
CurrentByName(p, c) ==
    LET closing(i) == script[i].name \in {"RoundClosed", "ScoreUpdated", "ProposalExecuted"}
        queue == thread[p][c].queue
    IN  CHOOSE i \in queue : \A j \in queue : IF closing(i) = closing(j) THEN i <= j ELSE closing(j)

\* The events collected are handled in the order of the chain.
Current(p, c) == CHOOSE i \in thread[p][c].queue : \A j \in thread[p][c].queue : i <= j

\* The handler has returned.
Handled(p, c, outcome) ==
    /\ fate' = [fate EXCEPT ![Current(p, c)] = outcome]
    /\ thread' = [thread EXCEPT ![p][c] = At("load", thread[p][c].to, thread[p][c].next, thread[p][c].queue \ {Current(p, c)})]

\* findOne returns any of the rows of a key, 0 when there is none.
Rows(k) == IF db[k] = <<>> THEN {0} ELSE DOMAIN db[k]
Image(k, at) == IF at = 0 THEN NoImage ELSE db[k][at]

\* The reads of a handler: the rows it may find, and the early returns.
Missing(e, at, poolAt) == (NeedsPool(e) /\ poolAt = 0) \/ (at = 0 /\ ~Inserts(e))
Kept(e, at) == at # 0 /\ Keeps(e, db[Key(e)][at])
Return(e, at, poolAt) ==
    IF Missing(e, at, poolAt) THEN "dropped"
    ELSE IF at # 0 /\ Throws(e) THEN "failed"
    ELSE IF Kept(e, at) /\ ~Reopens(e, Image(PoolKey, poolAt)) THEN "applied"
    ELSE "goes on"

Load(p, c) ==
    /\ thread[p][c].pc = "load" /\ thread[p][c].queue # {}
    /\ LET e == script[Current(p, c)]
       IN  \E at \in Rows(Key(e)), poolAt \in IF NeedsPool(e) THEN Rows(PoolKey) ELSE {0} :
             \/ /\ Return(e, at, poolAt) # "goes on"
                /\ Handled(p, c, Return(e, at, poolAt))
             \/ /\ Return(e, at, poolAt) = "goes on"
                /\ thread' = [thread EXCEPT ![p][c] = [@ EXCEPT
                         !.pc = IF Kept(e, at) THEN "reopen" ELSE "save",
                         !.at = at, !.image = Image(Key(e), at),
                         !.poolAt = poolAt, !.poolImage = Image(PoolKey, poolAt)]]
                /\ UNCHANGED fate
    /\ UNCHANGED <<script, head, checkpoint, db, upset, faults>>

\* The save: a row of the image read before, or a new row, which a unique index
\* refuses when another has been inserted meanwhile.
Save(p, c) ==
    /\ thread[p][c].pc = "save"
    /\ LET t == thread[p][c]  e == script[Current(p, c)]  k == Key(e)
           refused == t.at = 0 /\ k[1] \in UniqueTables /\ db[k] # <<>>
       IN  /\ db' = IF refused THEN db
                    ELSE IF t.at = 0 THEN [db EXCEPT ![k] = Append(@, Fresh(e))]
                    ELSE [db EXCEPT ![k][t.at] = Updated(e, t.image)]
           /\ IF refused THEN Handled(p, c, "failed")
              ELSE IF NeedsPool(e) /\ Reopens(e, t.poolImage)
                   THEN thread' = [thread EXCEPT ![p][c].pc = "reopen"] /\ UNCHANGED fate
                   ELSE Handled(p, c, "applied")
    /\ UNCHANGED <<script, head, checkpoint, upset, faults>>

\* A contribution makes a pool that was marked round-closed active again.
ReopenPool(p, c) ==
    /\ thread[p][c].pc = "reopen"
    /\ db' = [db EXCEPT ![PoolKey][thread[p][c].poolAt] = [thread[p][c].poolImage EXCEPT !.status = "active"]]
    /\ Handled(p, c, "applied")
    /\ UNCHANGED <<script, head, checkpoint, upset, faults>>

\* The database refuses a save; the error is logged, or swallowed where a pool
\* is reopened, and the next event is handled.
FailSave(p, c) ==
    /\ thread[p][c].pc \in {"save", "reopen"} /\ faults < MaxFaults
    /\ Handled(p, c, "failed")
    /\ faults' = faults + 1
    /\ UNCHANGED <<script, head, checkpoint, db, upset>>

\* recordContribution of the API stores a contribution before the chain has it.
RecordContribution(k) ==
    /\ k[1] = "contribution" /\ db[k] = <<>> /\ db[PoolKey] # <<>>
    /\ db' = [db EXCEPT ![k] = <<[status |-> "pending-onchain"]>>]
    /\ UNCHANGED <<script, head, checkpoint, thread, fate, upset, faults>>

-----------------------------------------------------------------------------
(* Disturbances *)

\* The process dies in a poll; the database keeps what was saved.
Restart ==
    /\ ~Idle /\ faults < MaxFaults
    /\ thread' = [p \in Pollers |-> [c \in Watched |-> Done]]
    /\ upset' = upset \cup {"interrupted"}
    /\ faults' = faults + 1
    /\ UNCHANGED <<script, head, checkpoint, db, fate>>

\* reindex(deploymentBlock): the checkpoints go back; polls under way go on.
Reindex ==
    /\ faults < MaxFaults
    /\ checkpoint' = [c \in Watched |-> 0]
    /\ upset' = upset \cup {"reindex"}
    /\ faults' = faults + 1
    /\ UNCHANGED <<script, head, db, thread, fate>>

\* The checkpoint cannot be read or written: the contract's catch-up rejects,
\* the other contracts go on.
FailCheckpoint(p, c) ==
    /\ \/ thread[p][c].pc = "begin"
       \/ thread[p][c].pc = "load" /\ thread[p][c].queue = {} /\ thread[p][c].next > thread[p][c].to
    /\ faults < MaxFaults
    /\ thread' = [thread EXCEPT ![p][c] = Done]
    /\ upset' = upset \cup {"interrupted"}
    /\ faults' = faults + 1
    /\ UNCHANGED <<script, head, checkpoint, db, fate>>

Step(p, c) == ReadCheckpoint(p, c) \/ Query(p, c) \/ Finish(p, c) \/ Load(p, c) \/ Save(p, c) \/ ReopenPool(p, c)

Next ==
    \/ Mine \/ Restart \/ Reindex
    \/ \E k \in Keys : RecordContribution(k)
    \/ \E p \in Pollers : StartPoll(p)
    \/ \E p \in Pollers, c \in Watched : Step(p, c) \/ FailSave(p, c) \/ FailCheckpoint(p, c)

Spec == Init /\ [][Next]_vars

\* The interval keeps firing and a poll under way makes progress.
FairSpec ==
    /\ Spec
    /\ WF_vars(\E p \in Pollers : StartPoll(p))
    /\ \A p \in Pollers : WF_vars(\E c \in Watched : Step(p, c))

-----------------------------------------------------------------------------
(* Properties *)

Outcomes == {"waiting", "applied", "dropped", "failed"}

\* Every table keeps its shape; a unique index leaves at most one row; no
\* checkpoint is beyond the chain.
TypeOK ==
    /\ head \in 0 .. Len(script)
    /\ checkpoint \in [Watched -> 0 .. head]
    /\ DOMAIN db = Keys
    /\ \A k \in Keys : k[1] \in UniqueTables => Len(db[k]) <= 1
    /\ \A n \in DOMAIN db[PoolKey] : /\ db[PoolKey][n].currentRound \in Nat \ {0}
                                     /\ db[PoolKey][n].status \in {"active", "round-closed"}
    /\ \A p \in Pollers, c \in Watched :
         thread[p][c].pc \in {"done", "begin", "load", "save", "reopen"} /\ thread[p][c].next \in 0 .. thread[p][c].to + 1
    /\ fate \in [Blocks -> Outcomes]
    /\ upset \subseteq {"overlap", "interrupted", "reindex"} /\ faults \in 0 .. MaxFaults

\* The checkpoint never passes an event no handler or failing query has met,
\* however polls overlap, die and start over (catchUpContract).
NothingSkipped == \A i \in Blocks : i <= checkpoint[script[i].contract] => fate[i] # "waiting"

\* A row is settled when no poll runs, the checkpoints are at the head, polls
\* never overlapped, and the last time each of its events was met it was applied.
Concerns(e, k) == Key(e) = k \/ (k = PoolKey /\ e.name = "ContributionReceived")
Visible(k) == {i \in 1 .. head : Concerns(script[i], k)}
Settled(k) ==
    /\ Idle /\ "overlap" \notin upset
    /\ \A c \in Watched : checkpoint[c] = head
    /\ Visible(k) # {}
    /\ \A i \in Visible(k) : fate[i] = "applied"

Emitted(name) == {i \in 1 .. head : script[i].name = name}
LastOf(set) == CHOOSE i \in set : \A j \in set : j <= i
Row(k) == db[k][1]

\* What the rows of a key must say, read off the chain alone.
RoundOnChain == IF Emitted("RoundClosed") = {} THEN 1 ELSE script[LastOf(Emitted("RoundClosed"))].arg + 1
Reopened == \A i \in Emitted("RoundClosed") : \E j \in Emitted("ContributionReceived") : i < j
StatusOnChain ==
    IF Emitted("ProposalExecuted") # {} THEN "executed"
    ELSE IF Emitted("ProposalCancelled") # {} THEN "cancelled" ELSE "active"
Defaulted(k) == \E i \in Emitted("DefaultTriggered") : Key(script[i]) = k
Agrees(k) ==
    CASE k[1] = "pool" -> Row(k) = [currentRound |-> RoundOnChain, status |-> IF Reopened THEN "active" ELSE "round-closed"]
      [] k[1] = "contribution" -> Row(k).status = IF Defaulted(k) THEN "defaulted" ELSE "confirmed"
      [] k[1] = "stream" -> Row(k).frozen = (Emitted("StreamFrozen") # {})
      [] k[1] = "score" -> Row(k).score = script[LastOf(Emitted("ScoreUpdated"))].arg
      [] k[1] = "proposal" -> Row(k).status = StatusOnChain
      [] OTHER -> TRUE

\* A settled row is the only one of its key and says what the chain says, also
\* after restarts and re-indexings in the middle of anything: replays of the
\* handlers that set a column end where the chain is.
SettledRowsAgree == \A k \in Keys : Settled(k) => Len(db[k]) = 1 /\ Agrees(k)

\* The votes of a settled proposal are the votes of the chain.
VotesAgree ==
    LET votes(support) == Cardinality({i \in Emitted("VoteCast") : script[i].arg = support})
        k == <<"proposal", 0>>
    IN  (k \in Keys /\ Settled(k)) => Row(k).yes = votes(1) /\ Row(k).no = votes(0)

\* Votes are counted once as long as nothing starts over (handleVoteCast adds).
VotesCountedOnce == upset = {} => VotesAgree

\* Whatever fails on the way, the indexer keeps catching up: at some time every
\* event on the chain has been met.
CatchesUp == []<>(\A i \in 1 .. head : fate[i] # "waiting")
=============================================================================
