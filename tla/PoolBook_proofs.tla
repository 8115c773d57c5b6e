--------------------------- MODULE PoolBook_proofs --------------------------
(***************************************************************************)
(* For any number of pools, rows, requests and failures: two rows of one   *)
(* pool of the chain are due to writers that overlapped; the type in a     *)
(* pool row is the one of its rules unless two writers overlapped or one   *)
(* was cut off; and what a wallet is given to sign is what the contract    *)
(* accepts for as long as what it was built of has not changed.  For any   *)
(* number of members and any page size, who pages through a ranking gets   *)
(* the pools in the order of their scores.                                 *)
(***************************************************************************)
EXTENDS Insights, FiniteSetTheorems, TLAPS

Fields == {"onChainPoolId", "createdBy", "txHash", "equbType", "after"}
IsRow(p) == p = [f \in Fields |-> p[f]] /\ p.after \in Nat

Shape ==
    /\ \E S : pools \in Seq(S)
    /\ \A r \in Rows : IsRow(pools[r])
    /\ requests = [q \in Requests |-> requests[q]]

\* Who is about to insert a row saw none of its pool among those there then.
Looked(rows, m) ==
    m.pc = "insert" =>
        /\ m.after \in 0 .. Len(rows)
        /\ \A r \in 1 .. m.after : rows[r].onChainPoolId # m.onChainPoolId

\* Who is about to save a row holds the identity of the row it saves.
Holds(rows, m) ==
    m.pc \in {"loaded", "save"} =>
        /\ m = [f \in {"pc", "row", "pool"} |-> m[f]]
        /\ m.row \in 1 .. Len(rows)
        /\ IsRow(m.pool)
        /\ m.pool.onChainPoolId = rows[m.row].onChainPoolId
        /\ m.pool.after = rows[m.row].after

Knows(rows, m) == Looked(rows, m) /\ Holds(rows, m)

IInv ==
    /\ Shape
    /\ \A q \in Requests : Knows(pools, requests[q])
    /\ RowsExplained

LEMMA InitIInv == Init => IInv
<1> SUFFICES ASSUME Init PROVE IInv
  OBVIOUS
<1>1. pools = <<>> /\ Len(pools) = 0 /\ pools \in Seq({}) /\ Rows = {}
  BY DEF Init, Rows
<1>2. \A q \in Requests : requests[q].pc = "idle"
  BY DEF Init, Idle
<1>3. requests = [q \in Requests |-> requests[q]]
  BY DEF Init
<1> QED BY <1>1, <1>2, <1>3 DEF IInv, Shape, Knows, Looked, Holds, RowsExplained

-----------------------------------------------------------------------------
(* What steps do to rows *)

\* Rows stay the rows of their pools.
Kept ==
    /\ \E S : pools' \in Seq(S)
    /\ Len(pools') = Len(pools)
    /\ \A r \in Rows : /\ IsRow(pools'[r])
                       /\ pools'[r].onChainPoolId = pools[r].onChainPoolId
                       /\ pools'[r].after = pools[r].after

\* A row is added for a pool that had none when it was looked for.
Added ==
    \E p : /\ pools' = Append(pools, p)
           /\ IsRow(p)
           /\ p.onChainPoolId # 0 =>
                 /\ p.after \in 0 .. Len(pools)
                 /\ \A r \in 1 .. p.after : pools[r].onChainPoolId # p.onChainPoolId

LEMMA RowsFacts == ASSUME Shape PROVE Len(pools) \in Nat /\ Rows = 1 .. Len(pools)
BY DEF Shape, Rows

LEMMA UnchangedKept == ASSUME Shape, UNCHANGED pools PROVE Kept
BY DEF Shape, Kept

\* Replacing a row by one of the same identity keeps the rows.
LEMMA ReplacedKept ==
    ASSUME Shape, NEW r \in Rows, NEW p, IsRow(p),
           p.onChainPoolId = pools[r].onChainPoolId, p.after = pools[r].after,
           pools' = [pools EXCEPT ![r] = p]
    PROVE  Kept
<1>1. PICK S : pools \in Seq(S)
  BY DEF Shape
<1>2. pools' \in Seq(S \cup {p}) /\ Len(pools') = Len(pools)
  BY <1>1 DEF Rows
<1>3. \A i \in Rows : pools'[i] = IF i = r THEN p ELSE pools[i]
  BY <1>1 DEF Rows
<1> QED BY <1>2, <1>3 DEF Kept, Shape

\* Whatever is added or kept, what the requests know stays true and later rows
\* stay explained.
LEMMA KnowledgeKept ==
    ASSUME Shape, Kept \/ Added, NEW m, Knows(pools, m)
    PROVE  Knows(pools', m)
<1>1. PICK S : pools \in Seq(S)
  BY DEF Shape
<1>2. /\ Len(pools') \in Nat /\ Len(pools') >= Len(pools)
      /\ \A r \in Rows : /\ pools'[r].onChainPoolId = pools[r].onChainPoolId
                         /\ pools'[r].after = pools[r].after
  <2>1. CASE Kept
    BY <1>1, <2>1 DEF Kept, Rows
  <2>2. CASE Added
    <3>1. PICK p : pools' = Append(pools, p)
      BY <2>2 DEF Added
    <3> QED BY <1>1, <3>1 DEF Rows
  <2> QED BY <2>1, <2>2
<1>3. Len(pools) \in Nat /\ Rows = 1 .. Len(pools) /\ Rows' = 1 .. Len(pools')
  BY <1>1 DEF Rows
<1>4. Looked(pools', m)
  BY <1>2, <1>3 DEF Knows, Looked
<1>5. Holds(pools', m)
  BY <1>2, <1>3 DEF Knows, Holds
<1> QED BY <1>4, <1>5 DEF Knows

LEMMA RowsStayExplained ==
    ASSUME Shape, RowsExplained, Kept \/ Added
    PROVE  RowsExplained' /\ (\E S : pools' \in Seq(S)) /\ (\A r \in Rows' : IsRow(pools'[r]))
<1>1. PICK S : pools \in Seq(S)
  BY DEF Shape
<1>2. CASE Kept
  <2>1. Rows' = Rows
    BY <1>2 DEF Kept, Rows
  <2> QED BY <1>2, <2>1 DEF Kept, RowsExplained
<1>3. CASE Added
  <2>1. PICK p : /\ pools' = Append(pools, p)
                 /\ IsRow(p)
                 /\ p.onChainPoolId # 0 =>
                       /\ p.after \in 0 .. Len(pools)
                       /\ \A r \in 1 .. p.after : pools[r].onChainPoolId # p.onChainPoolId
    BY <1>3 DEF Added
  <2> DEFINE n == Len(pools) + 1
  <2>2. /\ Rows = 1 .. Len(pools) /\ Len(pools) \in Nat
        /\ Rows' = 1 .. n
        /\ pools'[n] = p
        /\ \A r \in Rows : pools'[r] = pools[r]
        /\ pools' \in Seq(S \cup {p})
    BY <1>1, <2>1 DEF Rows
  <2>3. \A r \in Rows' : IsRow(pools'[r])
    BY <2>1, <2>2 DEF Shape
  <2>4. ASSUME NEW later \in Rows', NEW earlier \in Rows', earlier < later,
               pools'[earlier].onChainPoolId = pools'[later].onChainPoolId,
               pools'[later].onChainPoolId # 0
        PROVE  pools'[later].after < earlier
    <3>1. CASE later = n
      BY <2>1, <2>2, <2>4, <3>1
    <3>2. CASE later # n
      BY <2>2, <2>4, <3>2 DEF RowsExplained
    <3> QED BY <3>1, <3>2
  <2> QED BY <2>2, <2>3, <2>4 DEF RowsExplained
<1> QED BY <1>2, <1>3

\* The invariant survives a step that keeps or adds rows and leaves requests
\* that know what they have to.
LEMMA Preserved ==
    ASSUME IInv, Kept \/ Added,
           requests' = [q \in Requests |-> requests'[q]],
           \A q \in Requests : requests'[q] = requests[q] \/ Knows(pools', requests'[q])
    PROVE  IInv'
<1>1. RowsExplained' /\ (\E S : pools' \in Seq(S)) /\ (\A r \in Rows' : IsRow(pools'[r]))
  BY RowsStayExplained DEF IInv
<1>2. ASSUME NEW q \in Requests PROVE Knows(pools', requests'[q])
  BY KnowledgeKept DEF IInv
<1> QED BY <1>1, <1>2 DEF IInv, Shape
-----------------------------------------------------------------------------
(* Steps *)

LEMMA OthersKnow ==
    ASSUME NEW rows, NEW m, m.pc \notin {"insert", "loaded", "save"} PROVE Knows(rows, m)
BY DEF Knows, Looked, Holds

\* What a request does to itself; the rows are kept.
LEMMA OneRequest ==
    ASSUME IInv, Kept \/ Added, NEW q \in Requests, NEW m,
           requests' = [requests EXCEPT ![q] = m], Knows(pools', m)
    PROVE  IInv'
<1>1. requests = [a \in Requests |-> requests[a]]
  BY DEF IInv, Shape
<1>2. requests' = [a \in Requests |-> requests'[a]]
  BY <1>1
<1>3. \A a \in Requests : requests'[a] = requests[a] \/ Knows(pools', requests'[a])
  BY <1>1
<1> QED BY <1>2, <1>3, Preserved

LEMMA NoRequest ==
    ASSUME IInv, Kept \/ Added, UNCHANGED requests PROVE IInv'
<1>1. requests' = [a \in Requests |-> requests'[a]]
  BY DEF IInv, Shape
<1> QED BY <1>1, Preserved

LEMMA ChainSteps ==
    ASSUME IInv, UNCHANGED <<pools, requests>> PROVE IInv'
BY UnchangedKept, NoRequest DEF IInv

\* Requests that select a winner or write rules do not hold rows.
LEMMA OtherRequest ==
    ASSUME IInv, Kept, NEW q \in Requests, NEW m,
           requests' = [requests EXCEPT ![q] = m], m.pc \notin {"insert", "loaded", "save"}
    PROVE  IInv'
BY OneRequest, OthersKnow

LEMMA CreatePoolAdds == ASSUME IInv, CreatePool PROVE Added
<1> DEFINE p == [onChainPoolId |-> 0, createdBy |-> NoWallet, txHash |-> FALSE,
                 equbType |-> NoType, after |-> Len(pools)]
<1>1. pools' = Append(pools, p)
  BY DEF CreatePool
<1>2. IsRow(p)
  BY RowsFacts DEF IsRow, Fields, IInv
<1> QED BY <1>1, <1>2 DEF Added

LEMMA CreatePoolStep == ASSUME IInv, CreatePool PROVE IInv'
<1>1. UNCHANGED requests
  BY DEF CreatePool
<1> QED BY <1>1, CreatePoolAdds, NoRequest

LEMMA RestartStep == ASSUME IInv, Restart PROVE IInv'
<1>1. Kept
  BY UnchangedKept DEF Restart, IInv
<1>2. requests' = [q \in Requests |-> requests'[q]] /\ \A q \in Requests : requests'[q].pc = "idle"
  BY DEF Restart, Idle
<1>3. \A q \in Requests : Knows(pools', requests'[q])
  BY <1>2, OthersKnow
<1> QED BY <1>1, <1>2, <1>3, Preserved

\* Both writers look for a row before they go on.
LEMMA LookStep ==
    ASSUME IInv, NEW q \in Requests, CreatePoolFromCreationTx(q) \/ HandlePoolCreated(q)
    PROVE  IInv'
<1>1. PICK i, creator : Unknown(i) /\ requests' = [requests EXCEPT ![q] = ToInsert(i, creator)]
  BY DEF CreatePoolFromCreationTx, HandlePoolCreated, Answering
<1>2. UNCHANGED pools
  BY DEF CreatePoolFromCreationTx, HandlePoolCreated, db
<1>3. Knows(pools', ToInsert(i, creator))
  BY <1>1, <1>2, RowsFacts DEF Knows, Looked, Holds, ToInsert, Unknown, RowsOf, IInv
<1> QED BY <1>1, <1>2, <1>3, UnchangedKept, OneRequest DEF IInv

LEMMA InsertAdds == ASSUME IInv, NEW q \in Requests, InsertPool(q) PROVE Added
<1> DEFINE m == requests[q]
           p == [onChainPoolId |-> m.onChainPoolId, createdBy |-> m.createdBy,
                 txHash |-> TRUE, equbType |-> NoType, after |-> m.after]
<1>1. m.pc = "insert" /\ pools' = Append(pools, p)
  BY DEF InsertPool
<1>2. Looked(pools, m)
  BY DEF IInv, Knows
<1>3. IsRow(p)
  BY <1>1, <1>2, RowsFacts DEF IsRow, Fields, Looked, IInv
<1> QED BY <1>1, <1>2, <1>3 DEF Added, Looked

LEMMA InsertStep == ASSUME IInv, NEW q \in Requests, InsertPool(q) PROVE IInv'
<1> DEFINE n == [pc |-> "fetch", row |-> Len(pools'), times |-> 1]
<1>1. requests' = [requests EXCEPT ![q] = n]
  BY DEF InsertPool, Going
<1>2. Knows(pools', n)
  BY OthersKnow
<1> QED BY <1>1, <1>2, InsertAdds, OneRequest

LEMMA LoadStep == ASSUME IInv, NEW q \in Requests, LoadPool(q) PROVE IInv'
<1>1. PICK r \in Rows : requests' = [requests EXCEPT ![q] =
                                        [pc |-> "loaded", row |-> r, pool |-> pools[r]]]
  BY DEF LoadPool, Answering
<1>2. UNCHANGED pools
  BY DEF LoadPool
<1>3. Knows(pools', [pc |-> "loaded", row |-> r, pool |-> pools[r]])
  BY <1>2, RowsFacts DEF Knows, Looked, Holds, IInv, Shape
<1> QED BY <1>1, <1>2, <1>3, UnchangedKept, OneRequest DEF IInv

LEMMA BackfillStep ==
    ASSUME IInv, NEW q \in Requests, BackfillPoolFromCreationTx(q) PROVE IInv' /\ Kept
<1> DEFINE m == requests[q]
           found == [m.pool EXCEPT !.createdBy = chain[m.pool.onChainPoolId].creator]
           n == [m EXCEPT !.pc = "save", !.pool = found]
<1>1. /\ m.pc = "loaded"
      /\ pools' = [pools EXCEPT ![m.row] = found]
      /\ requests' = [requests EXCEPT ![q] = n]
  BY DEF BackfillPoolFromCreationTx, Going
<1>2. Holds(pools, m)
  BY DEF IInv, Knows
<1>3. IsRow(found) /\ found.onChainPoolId = m.pool.onChainPoolId /\ found.after = m.pool.after
  BY <1>1, <1>2 DEF Holds, IsRow, Fields
<1>4. m.row \in Rows
  BY <1>1, <1>2 DEF Holds, Rows
<1>5. Kept
  BY <1>1, <1>2, <1>3, <1>4, ReplacedKept DEF Holds, IInv
<1>6. n.pc = "save" /\ n.row = m.row /\ n.pool = found
      /\ n = [f \in {"pc", "row", "pool"} |-> n[f]]
  BY <1>1, <1>2 DEF Holds
<1>7. Knows(pools', n)
  <2>1. Len(pools') = Len(pools) /\ pools'[m.row].onChainPoolId = pools[m.row].onChainPoolId
        /\ pools'[m.row].after = pools[m.row].after
    BY <1>4, <1>5 DEF Kept
  <2> QED BY <1>1, <1>2, <1>3, <1>6, <2>1 DEF Knows, Looked, Holds
<1> QED BY <1>1, <1>5, <1>7, OneRequest

LEMMA SaveStep == ASSUME IInv, NEW q \in Requests, SavePool(q) PROVE IInv' /\ Kept
<1> DEFINE m == requests[q]
<1>1. /\ m.pc \in {"loaded", "save"}
      /\ pools' = [pools EXCEPT ![m.row] = m.pool]
      /\ requests' = [requests EXCEPT ![q] = Idle]
  BY DEF SavePool, Going
<1>2. Holds(pools, m)
  BY DEF IInv, Knows
<1>3. Kept
  BY <1>1, <1>2, ReplacedKept DEF Holds, IInv, Rows
<1> QED BY <1>1, <1>3, OtherRequest DEF Idle

\* Rows named by a request that is not there would leave the rows as they are.
LEMMA CopyStep == ASSUME IInv, NEW q \in Requests, CopyType(q) PROVE IInv' /\ Kept
<1> DEFINE m == requests[q]
           n == CopyTimes(m, m.times - 1)
<1>1. /\ pools' = [pools EXCEPT ![m.row].equbType = m.type]
      /\ requests' = [requests EXCEPT ![q] = n]
  BY DEF CopyType, Going
<1>2. PICK S : pools \in Seq(S)
  BY DEF IInv, Shape
<1>3. Kept
  <2>1. CASE m.row \in Rows
    <3> DEFINE p == [pools[m.row] EXCEPT !.equbType = m.type]
    <3>1. IsRow(pools[m.row])
      BY <2>1 DEF IInv, Shape
    <3>2. IsRow(p) /\ p.onChainPoolId = pools[m.row].onChainPoolId /\ p.after = pools[m.row].after
      BY <3>1 DEF IsRow, Fields
    <3> QED BY <1>1, <2>1, <3>2, ReplacedKept DEF IInv
  <2>2. CASE m.row \notin Rows
    <3>1. pools' = pools
      BY <1>1, <1>2, <2>2 DEF Rows
    <3> QED BY <3>1, UnchangedKept DEF IInv
  <2> QED BY <2>1, <2>2
<1>4. n.pc \in {"idle", "pool"}
  BY DEF CopyTimes, Idle
<1> QED BY <1>1, <1>3, <1>4, OtherRequest

\* The other writers of rules leave the pool rows to CopyType.
LEMMA RulesStep ==
    ASSUME IInv, NEW q \in Requests,
           \/ GetRules(q) \/ SetRules(q) \/ UpdateRules(q) \/ HandleRulesUpdated(q)
           \/ FetchRulesFromChain(q) \/ FindRules(q) \/ SaveRules(q) \/ Fail(q)
    PROVE  IInv'
<1>1. UNCHANGED pools
  BY DEF GetRules, SetRules, UpdateRules, HandleRulesUpdated, FetchRulesFromChain,
         FindRules, SaveRules, Fail, db
<1>2. Kept
  BY <1>1, UnchangedKept DEF IInv
<1>3. CASE GetRules(q)
  <2>1. PICK r \in Rows : requests' = [requests EXCEPT ![q] =
            [pc |-> "fetch", row |-> r, times |-> IF pools[r].equbType = NoType THEN 2 ELSE 1]]
    BY <1>3 DEF GetRules, Writer, Answering
  <2> DEFINE n == IF pools[r].equbType = NoType THEN 2 ELSE 1
  <2> HIDE DEF n
  <2>2. requests' = [requests EXCEPT ![q] = [pc |-> "fetch", row |-> r, times |-> n]]
    BY <2>1 DEF n
  <2> QED BY <1>2, <2>2, OtherRequest
<1>4. CASE SetRules(q)
  <2>1. PICK r \in Rows, type \in Types : requests' = [requests EXCEPT ![q] =
            [pc |-> "find", row |-> r, type |-> type, times |-> 1]]
    BY <1>4 DEF SetRules, Writer, Answering
  <2> QED BY <1>2, <2>1, OtherRequest
<1>5. CASE UpdateRules(q)
  <2>1. PICK r \in Rows, type \in Types \cup {NoType} : requests' = [requests EXCEPT ![q] =
            [pc |-> "find", row |-> r, type |-> type, times |-> CopiesOfPatch(type)]]
    BY <1>5 DEF UpdateRules, Writer, Answering
  <2> QED BY <1>2, <2>1, OtherRequest
<1>6. CASE HandleRulesUpdated(q)
  <2>1. PICK r \in Rows : requests' = [requests EXCEPT ![q] =
            [pc |-> "fetch", row |-> r, times |-> 1]]
    BY <1>6 DEF HandleRulesUpdated, Writer, Answering
  <2> QED BY <1>2, <2>1, OtherRequest
<1>7. CASE FetchRulesFromChain(q)
  <2> DEFINE m == [pc |-> "find", row |-> requests[q].row, times |-> requests[q].times,
                   type |-> chain[pools[requests[q].row].onChainPoolId].type]
  <2>1. requests' = [requests EXCEPT ![q] = m] /\ m.pc = "find"
    BY <1>7 DEF FetchRulesFromChain, Going
  <2> QED BY <1>2, <2>1, OtherRequest
<1>8. CASE FindRules(q)
  <2> DEFINE found == rules[requests[q].row]
             m == [pc |-> "rules", row |-> requests[q].row, times |-> requests[q].times,
                   found |-> found # NoType,
                   type |-> CASE requests[q].type # NoType -> requests[q].type
                              [] requests[q].type = NoType /\ found # NoType -> found
                              [] OTHER -> 0]
  <2>1. requests' = [requests EXCEPT ![q] = m] /\ m.pc = "rules"
    BY <1>8 DEF FindRules, Going
  <2> HIDE DEF m
  <2> QED BY <1>2, <2>1, OtherRequest
<1>9. CASE SaveRules(q)
  <2> DEFINE m == CopyTimes(requests[q], requests[q].times)
  <2>1. m.pc \in {"idle", "pool"} /\ Idle.pc = "idle"
    BY DEF CopyTimes, Idle
  <2>2. requests' = [requests EXCEPT ![q] = m] \/ requests' = [requests EXCEPT ![q] = Idle]
    BY <1>9 DEF SaveRules, Going
  <2> QED BY <1>2, <2>1, <2>2, OtherRequest
<1>10. CASE Fail(q)
  BY <1>2, <1>10, OtherRequest DEF Fail, Going, Idle
<1> QED BY <1>3, <1>4, <1>5, <1>6, <1>7, <1>8, <1>9, <1>10

LEMMA WinnerStep ==
    ASSUME IInv, NEW q \in Requests,
           \/ \E phase \in {"auto", "close", "schedule"} : BuildSelectWinner(q, phase)
           \/ ReadWinner(q) \/ ReadScheduled(q)
    PROVE  IInv'
<1>1. Kept
  BY UnchangedKept DEF IInv, BuildSelectWinner, ReadWinner, ReadScheduled, db
<1>2. CASE \E phase \in {"auto", "close", "schedule"} : BuildSelectWinner(q, phase)
  <2>1. PICK r \in Rows : \/ UNCHANGED requests
                          \/ requests' = [requests EXCEPT ![q] =
                                 [pc |-> "winner", row |-> r, caller |-> pools[r].createdBy]]
    BY <1>2 DEF BuildSelectWinner
  <2>2. CASE UNCHANGED requests
    BY <1>1, <2>2, NoRequest
  <2>3. CASE requests' = [requests EXCEPT ![q] =
                 [pc |-> "winner", row |-> r, caller |-> pools[r].createdBy]]
    BY <1>1, <2>3, OtherRequest
  <2> QED BY <2>1, <2>2, <2>3
<1>3. CASE ReadWinner(q) \/ ReadScheduled(q)
  <2> DEFINE i == pools[requests[q].row].onChainPoolId
             m == IF ReadScheduled(q) \/ LastClosed(i) = 0 THEN Idle
                  ELSE [pc |-> "scheduled", row |-> requests[q].row, caller |-> requests[q].caller,
                        round |-> LastClosed(i), winner |-> chain[i].winners[LastClosed(i)]]
  <2>1. m.pc \in {"idle", "scheduled"}
    BY DEF Idle
  <2>2. requests = [a \in Requests |-> requests[a]]
    BY DEF IInv, Shape
  <2>3. requests' = [requests EXCEPT ![q] = m]
    BY <1>3, <2>2 DEF ReadWinner, ReadScheduled
  <2> QED BY <1>1, <2>1, <2>3, OtherRequest
<1> QED BY <1>2, <1>3

LEMMA NextIInv == IInv /\ [Next]_vars => IInv'
<1> SUFFICES ASSUME IInv, [Next]_vars PROVE IInv'
  OBVIOUS
<1>1. CASE UNCHANGED vars
  BY <1>1, ChainSteps DEF vars
<1>2. CASE \/ Mine \/ UpdateRulesOnChain \/ TriggerDefault \/ ConfigureTier
           \/ ConfigureTiersOnChain \/ BuildCreatePool \/ BuildContribute
           \/ BuildCloseRound \/ CoolDown
  <2>1. UNCHANGED <<pools, requests>>
    BY <1>2 DEF Mine, UpdateRulesOnChain, TriggerDefault, ConfigureTier, ConfigureTiersOnChain,
                BuildCreatePool, BuildContribute, BuildCloseRound, CoolDown, db
  <2> QED BY <2>1, ChainSteps
<1>3. ASSUME NEW q \in Requests, Ask(q) PROVE IInv'
  BY <1>3, LookStep, LoadStep, RulesStep, WinnerStep DEF Ask
<1>4. ASSUME NEW q \in Requests, Step(q) PROVE IInv'
  BY <1>4, WinnerStep, InsertStep, BackfillStep, SaveStep, RulesStep, CopyStep DEF Step
<1> QED BY <1>1, <1>2, <1>3, <1>4, CreatePoolStep, RestartStep DEF Next

-----------------------------------------------------------------------------
(* Rules *)

\* The type in a pool row is the one of its rules, or there is none yet.
Settled(pool, rule) == pool.equbType \in {rule, NoType}

\* What the one request that writes a row knows, however far it is, of the pool
\* row and of the type in the rules row.
Agrees(m, pool, rule) ==
    /\ m.pc # "pool" => Settled(pool, rule)
    /\ m.pc \in {"loaded", "save"} => m.pool = pool
    /\ m.pc = "fetch" => m.times \in Nat \ {0}
    /\ m.pc = "find" => m.times \in Nat /\ (m.times = 0 => m.type = NoType)
    /\ m.pc = "rules" => m.times \in Nat /\ (m.times = 0 => rule \in {m.type, NoType})
    /\ m.pc = "pool" => m.times \in Nat \ {0} /\ m.type = rule

Writes(q, r) == WritesRow(requests[q], r)

\* A row that is not torn has one writer at most; with none it is settled.
RowInOrder(r) ==
    /\ \A a, b \in Requests : Writes(a, r) /\ Writes(b, r) => a = b
    /\ \A q \in Requests : Writes(q, r) => Agrees(requests[q], pools[r], rules[r])
    /\ (\A q \in Requests : ~Writes(q, r)) => Settled(pools[r], rules[r])

RulesInv ==
    /\ \E S : pools \in Seq(S)
    /\ Len(pools) <= MaxRows
    /\ rules = [r \in 1 .. MaxRows |-> rules[r]]
    /\ requests = [q \in Requests |-> requests[q]]
    /\ \A q \in Requests : \A r : Writes(q, r) => r \in Rows
    /\ \A r \in Rows \ torn : RowInOrder(r)

LEMMA RowFacts ==
    ASSUME RulesInv
    PROVE  Len(pools) \in Nat /\ Rows = 1 .. Len(pools) /\ Rows \subseteq 1 .. MaxRows
BY MaxRowsAssumption DEF RulesInv, Rows

\* A request goes on to m, and nothing changes but row k and what is torn.
OnlyRow(q, m, k) ==
    /\ requests' = [requests EXCEPT ![q] = m]
    /\ \E S : pools' \in Seq(S)
    /\ Len(pools') <= MaxRows
    /\ rules' = [r \in 1 .. MaxRows |-> rules'[r]]
    /\ Rows \subseteq Rows' /\ Rows' \subseteq Rows \cup {k}
    /\ \A r \in Rows \ {k} : pools'[r] = pools[r] /\ rules'[r] = rules[r]
    /\ \A r : r # k => ~Writes(q, r) /\ ~WritesRow(m, r)
    /\ WritesRow(m, k) => k \in Rows'
    /\ torn \subseteq torn'

LEMMA RowStep ==
    ASSUME RulesInv, NEW q \in Requests, NEW m, NEW k, OnlyRow(q, m, k),
           k \in Rows' \ torn' =>
              /\ \A a \in Requests \ {q} : ~Writes(a, k)
              /\ IF WritesRow(m, k) THEN Agrees(m, pools'[k], rules'[k])
                 ELSE Settled(pools'[k], rules'[k])
    PROVE  RulesInv'
<1>1. /\ requests' = [a \in Requests |-> requests'[a]]
      /\ requests'[q] = m /\ \A a \in Requests \ {q} : requests'[a] = requests[a]
  BY DEF RulesInv, OnlyRow
<1>2. \A a \in Requests : \A r : Writes(a, r)' => r \in Rows'
  <2> SUFFICES ASSUME NEW a \in Requests, NEW r, WritesRow(requests'[a], r)
               PROVE  r \in Rows'
    BY DEF Writes
  <2>1. CASE a = q
    BY <1>1, <2>1 DEF OnlyRow
  <2>2. CASE a # q
    BY <1>1, <2>2 DEF OnlyRow, RulesInv, Writes
  <2>3. QED BY <2>1, <2>2
<1>3. ASSUME NEW r \in Rows' \ torn' PROVE RowInOrder(r)'
  <2>1. CASE r = k
    BY <1>1, <2>1, <1>3 DEF RowInOrder, Writes
  <2>2. CASE r # k
    <3>1. /\ r \in Rows \ torn /\ pools'[r] = pools[r] /\ rules'[r] = rules[r]
          /\ ~Writes(q, r) /\ ~WritesRow(m, r)
      BY <1>3, <2>2 DEF OnlyRow
    <3>2. RowInOrder(r)
      BY <3>1 DEF RulesInv
    <3>3. \A a \in Requests : /\ WritesRow(requests'[a], r) <=> WritesRow(requests[a], r)
                              /\ WritesRow(requests[a], r) => requests'[a] = requests[a]
      BY <1>1, <3>1 DEF Writes
    <3>4. QED BY <3>1, <3>2, <3>3 DEF RowInOrder, Writes
  <2>3. QED BY <2>1, <2>2
<1>4. QED BY <1>1, <1>2, <1>3 DEF RulesInv, OnlyRow

\* A request begins to write a row: others that write it leave it torn.
LEMMA WriterBegins ==
    ASSUME RulesInv, NEW q \in Requests, NEW r \in Rows, NEW m,
           Answering(q, m), torn' = Overlapped(r), UNCHANGED <<pools, rules>>,
           \A other : other # r => ~WritesRow(m, other),
           Settled(pools[r], rules[r]) => Agrees(m, pools[r], rules[r])
    PROVE  RulesInv'
<1>1. requests[q] = Idle /\ requests' = [requests EXCEPT ![q] = m]
  BY DEF Answering
<1>2. \A other : ~Writes(q, other)
  BY <1>1 DEF Writes, WritesRow, Idle
<1>3. torn \subseteq torn'
  BY DEF Overlapped
<1>4. OnlyRow(q, m, r)
  BY <1>1, <1>2, <1>3, RowFacts DEF OnlyRow, RulesInv, Rows
<1>5. ASSUME r \in Rows' \ torn'
      PROVE  /\ \A a \in Requests \ {q} : ~Writes(a, r)
             /\ IF WritesRow(m, r) THEN Agrees(m, pools'[r], rules'[r])
                ELSE Settled(pools'[r], rules'[r])
  <2>1. \A a \in Requests : ~Writes(a, r)
    BY <1>5 DEF Overlapped, Writes
  <2>2. r \notin torn
    BY <1>3, <1>5
  <2>3. Settled(pools[r], rules[r])
    BY <2>1, <2>2 DEF RulesInv, RowInOrder
  <2>4. QED BY <2>1, <2>3
<1>6. QED BY <1>4, <1>5, RowStep

\* The request that writes row r goes on, and may change the row.
LEMMA WriterGoesOn ==
    ASSUME RulesInv, NEW q \in Requests, NEW r, Writes(q, r), NEW m,
           requests' = [requests EXCEPT ![q] = m], torn \subseteq torn',
           \A other : other # r => ~WritesRow(m, other),
           Len(pools') = Len(pools), \E S : pools' \in Seq(S),
           rules' = [i \in 1 .. MaxRows |-> rules'[i]],
           \A i \in Rows \ {r} : pools'[i] = pools[i] /\ rules'[i] = rules[i],
           r \notin torn' /\ Agrees(requests[q], pools[r], rules[r]) =>
              IF WritesRow(m, r) THEN Agrees(m, pools'[r], rules'[r])
              ELSE Settled(pools'[r], rules'[r])
    PROVE  RulesInv'
<1>1. r \in Rows /\ Rows' = Rows
  BY DEF RulesInv, Rows
<1>2. \A other : Writes(q, other) => other = r
  BY DEF Writes, WritesRow
<1>3. OnlyRow(q, m, r)
  BY <1>1, <1>2 DEF OnlyRow, RulesInv
<1>4. ASSUME r \in Rows' \ torn'
      PROVE  /\ \A a \in Requests \ {q} : ~Writes(a, r)
             /\ IF WritesRow(m, r) THEN Agrees(m, pools'[r], rules'[r])
                ELSE Settled(pools'[r], rules'[r])
  <2>1. RowInOrder(r)
    BY <1>1, <1>4 DEF RulesInv
  <2>2. QED BY <1>4, <2>1 DEF RowInOrder
<1>5. QED BY <1>3, <1>4, RowStep

\* A request that writes no row, before and after.
LEMMA WritesNone ==
    ASSUME RulesInv, NEW q \in Requests, NEW m, requests' = [requests EXCEPT ![q] = m],
           \A r : ~Writes(q, r) /\ ~WritesRow(m, r), UNCHANGED <<pools, rules, torn>>
    PROVE  RulesInv'
<1>1. Rows' = Rows /\ 0 \notin Rows
  BY RowFacts DEF Rows
<1>2. OnlyRow(q, m, 0)
  BY <1>1 DEF OnlyRow, RulesInv
<1>3. QED BY <1>1, <1>2, RowStep

LEMMA RulesStay ==
    ASSUME RulesInv, UNCHANGED <<pools, rules, torn, requests>> PROVE RulesInv'
<1>1. Rows' = Rows
  BY DEF Rows
<1>2. QED BY <1>1 DEF RulesInv, RowInOrder, Writes

LEMMA RowCreated == ASSUME RulesInv, CreatePool PROVE RulesInv'
<1> DEFINE p == [onChainPoolId |-> 0, createdBy |-> NoWallet, txHash |-> FALSE,
                 equbType |-> NoType, after |-> Len(pools)]
           n == Len(pools) + 1
<1>1. /\ pools' = Append(pools, p) /\ Len(pools) < MaxRows
      /\ UNCHANGED <<rules, requests, torn>>
  BY DEF CreatePool
<1>2. p.equbType = NoType
  OBVIOUS
<1> HIDE DEF p
<1>3. PICK S : pools \in Seq(S)
  BY DEF RulesInv
<1>4. /\ pools' \in Seq(S \cup {p}) /\ Len(pools') = n /\ pools'[n] = p
      /\ \A r \in Rows : pools'[r] = pools[r]
      /\ Rows' = Rows \cup {n} /\ n \notin Rows
  BY <1>1, <1>3 DEF Rows
<1>5. Len(pools') <= MaxRows
  BY <1>1, <1>4, RowFacts, MaxRowsAssumption
<1>6. \A q \in Requests : ~Writes(q, n)
  BY <1>4 DEF RulesInv
<1>7. ASSUME NEW r \in Rows' \ torn' PROVE RowInOrder(r)'
  <2>1. CASE r = n
    BY <1>1, <1>2, <1>4, <1>6, <2>1 DEF RowInOrder, Writes, Settled
  <2>2. CASE r # n
    BY <1>1, <1>4, <1>7, <2>2 DEF RulesInv, RowInOrder, Writes
  <2>3. QED BY <2>1, <2>2
<1>8. \A q \in Requests : \A r : Writes(q, r)' => r \in Rows'
  BY <1>1, <1>4 DEF RulesInv, Writes
<1>9. QED BY <1>1, <1>4, <1>5, <1>7, <1>8 DEF RulesInv

\* The new row and the request for its rules come together.
LEMMA RowInserted == ASSUME RulesInv, NEW q \in Requests, InsertPool(q) PROVE RulesInv'
<1> DEFINE m == requests[q]
           p == [onChainPoolId |-> m.onChainPoolId, createdBy |-> m.createdBy,
                 txHash |-> TRUE, equbType |-> NoType, after |-> m.after]
           n == Len(pools) + 1
           next == [pc |-> "fetch", row |-> Len(pools'), times |-> 1]
<1>1. /\ m.pc = "insert" /\ pools' = Append(pools, p) /\ Len(pools) < MaxRows
      /\ requests' = [requests EXCEPT ![q] = next] /\ UNCHANGED <<rules, torn>>
  BY DEF InsertPool, Going
<1>2. p.equbType = NoType /\ next.pc = "fetch" /\ next.row = Len(pools') /\ next.times = 1
  OBVIOUS
<1> HIDE DEF p, next
<1>3. PICK S : pools \in Seq(S)
  BY DEF RulesInv
<1>4. /\ pools' \in Seq(S \cup {p}) /\ Len(pools') = n /\ pools'[n] = p
      /\ \A r \in Rows : pools'[r] = pools[r]
      /\ Rows' = Rows \cup {n} /\ n \notin Rows
  BY <1>1, <1>3 DEF Rows
<1>5. Len(pools') <= MaxRows
  BY <1>1, <1>4, RowFacts, MaxRowsAssumption
<1>6. \A a \in Requests : ~Writes(a, n)
  BY <1>4 DEF RulesInv
<1>7. /\ \A r : ~Writes(q, r)
      /\ \A r : r # n => ~WritesRow(next, r)
      /\ WritesRow(next, n)
  BY <1>1, <1>2, <1>4 DEF Writes, WritesRow
<1>8. OnlyRow(q, next, n)
  BY <1>1, <1>4, <1>5, <1>7 DEF OnlyRow, RulesInv
<1>9. Agrees(next, pools'[n], rules'[n])
  BY <1>2, <1>4 DEF Agrees, Settled
<1>10. QED BY <1>6, <1>7, <1>8, <1>9, RowStep

LEMMA RowLoaded == ASSUME RulesInv, NEW q \in Requests, LoadPool(q) PROVE RulesInv'
<1>1. PICK r \in Rows :
         /\ Answering(q, [pc |-> "loaded", row |-> r, pool |-> pools[r]])
         /\ torn' = Overlapped(r)
  BY DEF LoadPool
<1> DEFINE m == [pc |-> "loaded", row |-> r, pool |-> pools[r]]
<1>2. m.pc = "loaded" /\ m.row = r /\ m.pool = pools[r] /\ Answering(q, m)
  BY <1>1
<1> HIDE DEF m
<1>3. UNCHANGED <<pools, rules>>
  BY DEF LoadPool
<1>4. QED BY <1>1, <1>2, <1>3, WriterBegins DEF WritesRow, Agrees

\* The backfill writes the row as it was loaded but for the creator.
LEMMA RowBackfilled ==
    ASSUME RulesInv, NEW q \in Requests, BackfillPoolFromCreationTx(q),
           Holds(pools, requests[q])
    PROVE  RulesInv'
<1> DEFINE m == requests[q]
           found == [m.pool EXCEPT !.createdBy = chain[m.pool.onChainPoolId].creator]
           next == [m EXCEPT !.pc = "save", !.pool = found]
           k == m.row
<1>1. /\ m.pc = "loaded" /\ pools' = [pools EXCEPT ![k] = found]
      /\ requests' = [requests EXCEPT ![q] = next] /\ UNCHANGED <<rules, torn>>
  BY DEF BackfillPoolFromCreationTx, Going
<1>2. /\ next.pc = "save" /\ next.row = k /\ next.pool = found
      /\ found.equbType = m.pool.equbType
  BY <1>1 DEF Holds, IsRow, Fields
<1> HIDE DEF found, next
<1>3. PICK S : pools \in Seq(S)
  BY DEF RulesInv
<1>4. Writes(q, k)
  BY <1>1 DEF Writes, WritesRow
<1>5. k \in Rows
  BY <1>4 DEF RulesInv
<1>6. /\ pools' \in Seq(S \cup {found}) /\ Len(pools') = Len(pools) /\ pools'[k] = found
      /\ \A i \in Rows \ {k} : pools'[i] = pools[i]
  BY <1>1, <1>3, <1>5 DEF Rows
<1>7. WritesRow(next, k) /\ \A other : other # k => ~WritesRow(next, other)
  BY <1>2 DEF WritesRow
<1>8. Agrees(m, pools[k], rules[k]) => Agrees(next, pools'[k], rules'[k])
  BY <1>1, <1>2, <1>6 DEF Agrees, Settled
<1>9. QED
  BY <1>1, <1>4, <1>6, <1>7, <1>8, WriterGoesOn DEF RulesInv

LEMMA RowSaved == ASSUME RulesInv, NEW q \in Requests, SavePool(q) PROVE RulesInv'
<1> DEFINE m == requests[q]
           k == m.row
<1>1. /\ m.pc \in {"loaded", "save"} /\ pools' = [pools EXCEPT ![k] = m.pool]
      /\ requests' = [requests EXCEPT ![q] = Idle] /\ UNCHANGED <<rules, torn>>
  BY DEF SavePool, Going
<1>2. PICK S : pools \in Seq(S)
  BY DEF RulesInv
<1>3. Writes(q, k)
  BY <1>1 DEF Writes, WritesRow
<1>4. k \in Rows
  BY <1>3 DEF RulesInv
<1>5. /\ pools' \in Seq(S \cup {m.pool}) /\ Len(pools') = Len(pools) /\ pools'[k] = m.pool
      /\ \A i \in Rows \ {k} : pools'[i] = pools[i]
  BY <1>1, <1>2, <1>4 DEF Rows
<1>6. \A r : ~WritesRow(Idle, r)
  BY DEF WritesRow, Idle
<1>7. Agrees(m, pools[k], rules[k]) => Settled(pools'[k], rules'[k])
  BY <1>1, <1>5 DEF Agrees
<1>8. QED BY <1>1, <1>3, <1>5, <1>6, <1>7, WriterGoesOn DEF RulesInv

\* Those that ask for rules, each with the copies it is going to make.
LEMMA RulesAsked ==
    ASSUME RulesInv, NEW q \in Requests,
           GetRules(q) \/ SetRules(q) \/ UpdateRules(q) \/ HandleRulesUpdated(q)
    PROVE  RulesInv'
<1>1. UNCHANGED <<pools, rules>>
  BY DEF GetRules, SetRules, UpdateRules, HandleRulesUpdated
<1>2. ASSUME NEW r \in Rows, NEW times \in Nat \ {0},
             Writer(q, r, [pc |-> "fetch", row |-> r, times |-> times])
      PROVE  RulesInv'
  <2> DEFINE m == [pc |-> "fetch", row |-> r, times |-> times]
  <2>1. m.pc = "fetch" /\ m.row = r /\ m.times = times /\ Writer(q, r, m)
    BY <1>2
  <2> HIDE DEF m
  <2>2. QED BY <1>1, <2>1, WriterBegins DEF Writer, WritesRow, Agrees
<1>3. ASSUME NEW r \in Rows, NEW type, NEW times \in Nat, times = 0 => type = NoType,
             Writer(q, r, [pc |-> "find", row |-> r, type |-> type, times |-> times])
      PROVE  RulesInv'
  <2> DEFINE m == [pc |-> "find", row |-> r, type |-> type, times |-> times]
  <2>1. m.pc = "find" /\ m.row = r /\ m.type = type /\ m.times = times /\ Writer(q, r, m)
    BY <1>3
  <2> HIDE DEF m
  <2>2. QED BY <1>1, <1>3, <2>1, WriterBegins DEF Writer, WritesRow, Agrees
<1>4. CASE GetRules(q)
  <2>1. PICK r \in Rows : Writer(q, r, [pc |-> "fetch", row |-> r,
                                        times |-> IF pools[r].equbType = NoType THEN 2 ELSE 1])
    BY <1>4 DEF GetRules
  <2> DEFINE times == IF pools[r].equbType = NoType THEN 2 ELSE 1
  <2>2. times \in Nat \ {0} /\ Writer(q, r, [pc |-> "fetch", row |-> r, times |-> times])
    BY <2>1
  <2> HIDE DEF times
  <2>3. QED BY <1>2, <2>2
<1>5. CASE SetRules(q)
  <2>1. PICK r \in Rows, type \in Types :
           Writer(q, r, [pc |-> "find", row |-> r, type |-> type, times |-> 1])
    BY <1>5 DEF SetRules
  <2>2. QED BY <1>3, <2>1
<1>6. CASE UpdateRules(q)
  <2>1. PICK r \in Rows, type \in Types \cup {NoType} :
           Writer(q, r, [pc |-> "find", row |-> r, type |-> type, times |-> CopiesOfPatch(type)])
    BY <1>6 DEF UpdateRules
  <2>2. CopiesOfPatch(type) \in Nat /\ (CopiesOfPatch(type) = 0 => type = NoType)
    BY DEF CopiesOfPatch
  <2>3. QED BY <1>3, <2>1, <2>2
<1>7. CASE HandleRulesUpdated(q)
  <2>1. PICK r \in Rows : Writer(q, r, [pc |-> "fetch", row |-> r, times |-> 1])
    BY <1>7 DEF HandleRulesUpdated
  <2>2. QED BY <1>2, <2>1
<1>8. QED BY <1>4, <1>5, <1>6, <1>7

\* The reads before the rules are saved.
LEMMA RulesFound ==
    ASSUME RulesInv, NEW q \in Requests, FetchRulesFromChain(q) \/ FindRules(q)
    PROVE  RulesInv'
<1> DEFINE m == requests[q]
           k == m.row
<1>1. UNCHANGED <<pools, rules, torn>> /\ m.pc \in {"fetch", "find"}
  BY DEF FetchRulesFromChain, FindRules, db
<1>2. Writes(q, k)
  BY <1>1 DEF Writes, WritesRow
<1>3. ASSUME NEW next, requests' = [requests EXCEPT ![q] = next], next.row = k,
             next.pc \in {"find", "rules"},
             Agrees(m, pools[k], rules[k]) => Agrees(next, pools[k], rules[k])
      PROVE  RulesInv'
  <2>1. WritesRow(next, k) /\ \A other : other # k => ~WritesRow(next, other)
    BY <1>3 DEF WritesRow
  <2> HIDE DEF m, k
  <2>2. QED BY <1>1, <1>2, <1>3, <2>1, WriterGoesOn DEF RulesInv, m, k
<1>4. CASE FetchRulesFromChain(q)
  <2> DEFINE next == [pc |-> "find", row |-> m.row, times |-> m.times,
                      type |-> chain[pools[m.row].onChainPoolId].type]
  <2>1. /\ next.pc = "find" /\ next.row = k /\ next.times = m.times /\ m.pc = "fetch"
        /\ requests' = [requests EXCEPT ![q] = next]
    BY <1>4 DEF FetchRulesFromChain, Going
  <2> HIDE DEF next
  <2>2. Agrees(m, pools[k], rules[k]) => Agrees(next, pools[k], rules[k])
    BY <2>1 DEF Agrees
  <2>3. QED BY <1>3, <2>1, <2>2
<1>5. CASE FindRules(q)
  <2> DEFINE found == rules[k]
             type == CASE m.type # NoType -> m.type
                       [] m.type = NoType /\ found # NoType -> found
                       [] OTHER -> 0
             next == [pc |-> "rules", row |-> m.row, times |-> m.times,
                      found |-> found # NoType, type |-> type]
  <2>1. /\ next.pc = "rules" /\ next.row = k /\ next.times = m.times /\ next.type = type
        /\ m.pc = "find" /\ requests' = [requests EXCEPT ![q] = next]
    BY <1>5 DEF FindRules, Going
  <2>2. m.type = NoType /\ found # NoType => type = found
    OBVIOUS
  <2> HIDE DEF next, type
  <2>3. Agrees(m, pools[k], rules[k]) => Agrees(next, pools[k], rules[k])
    BY <2>1, <2>2 DEF Agrees
  <2>4. QED BY <1>3, <2>1, <2>3
<1>6. QED BY <1>4, <1>5

LEMMA RulesSaved == ASSUME RulesInv, NEW q \in Requests, SaveRules(q) PROVE RulesInv'
<1> DEFINE m == requests[q]
           k == m.row
           next == CopyTimes(m, m.times)
<1>1. /\ m.pc = "rules" /\ UNCHANGED <<pools, torn>>
      /\ \/ /\ rules' = [rules EXCEPT ![k] = m.type]
            /\ requests' = [requests EXCEPT ![q] = next]
         \/ rules' = rules /\ requests' = [requests EXCEPT ![q] = Idle]
  BY DEF SaveRules, Going
<1>2. Writes(q, k)
  BY <1>1 DEF Writes, WritesRow
<1>3. k \in 1 .. MaxRows /\ rules = [r \in 1 .. MaxRows |-> rules[r]]
  BY <1>2, RowFacts DEF RulesInv
<1>4. /\ next.pc \in {"idle", "pool"}
      /\ next.pc = "idle" => m.times = 0
      /\ next.pc = "pool" => next.row = k /\ next.type = m.type /\ next.times = m.times
                             /\ m.times # 0
  BY DEF CopyTimes, Idle
<1> HIDE DEF next
<1>5. CASE rules' = [rules EXCEPT ![k] = m.type] /\ requests' = [requests EXCEPT ![q] = next]
  <2>1. /\ rules' = [r \in 1 .. MaxRows |-> rules'[r]] /\ rules'[k] = m.type
        /\ \A i \in Rows \ {k} : rules'[i] = rules[i]
    BY <1>3, <1>5, RowFacts
  <2>2. /\ \A other : other # k => ~WritesRow(next, other)
        /\ WritesRow(next, k) <=> next.pc = "pool"
    BY <1>4 DEF WritesRow
  <2>3. Agrees(m, pools[k], rules[k]) =>
           IF WritesRow(next, k) THEN Agrees(next, pools'[k], rules'[k])
           ELSE Settled(pools'[k], rules'[k])
    BY <1>1, <1>4, <2>1, <2>2 DEF Agrees, Settled
  <2>4. QED BY <1>1, <1>2, <1>5, <2>1, <2>2, <2>3, WriterGoesOn DEF RulesInv
<1>6. CASE rules' = rules /\ requests' = [requests EXCEPT ![q] = Idle]
  <2>1. \A r : ~WritesRow(Idle, r)
    BY DEF WritesRow, Idle
  <2>2. Agrees(m, pools[k], rules[k]) => Settled(pools'[k], rules'[k])
    BY <1>1, <1>6 DEF Agrees
  <2>3. QED BY <1>1, <1>2, <1>3, <1>6, <2>1, <2>2, WriterGoesOn DEF RulesInv
<1>7. QED BY <1>1, <1>5, <1>6

LEMMA TypeCopied == ASSUME RulesInv, Shape, NEW q \in Requests, CopyType(q) PROVE RulesInv'
<1> DEFINE m == requests[q]
           k == m.row
           next == CopyTimes(m, m.times - 1)
           p == [pools[k] EXCEPT !.equbType = m.type]
<1>1. /\ m.pc = "pool" /\ pools' = [pools EXCEPT ![k] = p]
      /\ requests' = [requests EXCEPT ![q] = next] /\ UNCHANGED <<rules, torn>>
  BY DEF CopyType, Going
<1>2. Writes(q, k)
  BY <1>1 DEF Writes, WritesRow
<1>3. k \in Rows
  BY <1>2 DEF RulesInv
<1>4. p.equbType = m.type
  <2>1. IsRow(pools[k])
    BY <1>3 DEF Shape
  <2>2. QED BY <2>1 DEF IsRow, Fields
<1>5. /\ next.pc \in {"idle", "pool"}
      /\ next.pc = "pool" => next.row = k /\ next.type = m.type /\ next.times = m.times - 1
                             /\ m.times - 1 # 0
  BY DEF CopyTimes, Idle
<1> HIDE DEF next, p
<1>6. PICK S : pools \in Seq(S)
  BY DEF RulesInv
<1>7. /\ pools' \in Seq(S \cup {p}) /\ Len(pools') = Len(pools) /\ pools'[k] = p
      /\ \A i \in Rows \ {k} : pools'[i] = pools[i]
  BY <1>1, <1>3, <1>6 DEF Rows
<1>8. /\ \A other : other # k => ~WritesRow(next, other)
      /\ WritesRow(next, k) <=> next.pc = "pool"
  BY <1>5 DEF WritesRow
<1>9. Agrees(m, pools[k], rules[k]) =>
         IF WritesRow(next, k) THEN Agrees(next, pools'[k], rules'[k])
         ELSE Settled(pools'[k], rules'[k])
  <2>1. \A n \in Nat \ {0} : n - 1 # 0 => n - 1 \in Nat \ {0}
    OBVIOUS
  <2>2. QED BY <1>1, <1>4, <1>5, <1>7, <1>8, <2>1 DEF Agrees, Settled
<1>10. QED BY <1>1, <1>2, <1>7, <1>8, <1>9, WriterGoesOn DEF RulesInv

LEMMA RequestFailed == ASSUME RulesInv, NEW q \in Requests, Fail(q) PROVE RulesInv'
<1> DEFINE m == requests[q]
           k == m.row
<1>1. /\ requests' = [requests EXCEPT ![q] = Idle] /\ torn' = torn \cup HalfWritten(q)
      /\ UNCHANGED <<pools, rules>>
  BY DEF Fail, Going
<1>2. \A r : ~WritesRow(Idle, r)
  BY DEF WritesRow, Idle
<1>3. CASE Writes(q, k)
  <2>1. k \notin torn' => m.pc # "pool"
    BY <1>1 DEF HalfWritten
  <2>2. k \notin torn' /\ Agrees(m, pools[k], rules[k]) => Settled(pools'[k], rules'[k])
    BY <1>1, <2>1 DEF Agrees
  <2>3. QED BY <1>1, <1>2, <1>3, <2>2, WriterGoesOn DEF RulesInv
<1>4. CASE ~Writes(q, k)
  <2>1. \A r : ~Writes(q, r)
    BY <1>4 DEF Writes, WritesRow
  <2>2. torn' = torn
    BY <1>1, <1>4 DEF HalfWritten, Writes, WritesRow
  <2>3. QED BY <1>1, <1>2, <2>1, <2>2, WritesNone
<1>5. QED BY <1>3, <1>4

LEMMA BackendDied == ASSUME RulesInv, Restart PROVE RulesInv'
<1>1. /\ requests' = [q \in Requests |-> Idle] /\ UNCHANGED <<pools, rules>>
      /\ torn' = torn \cup UNION {HalfWritten(q) : q \in Requests}
  BY DEF Restart
<1>2. /\ requests' = [q \in Requests |-> requests'[q]] /\ Rows' = Rows
      /\ \A q \in Requests : \A r : ~WritesRow(requests'[q], r)
  BY <1>1 DEF WritesRow, Idle, Rows
<1>3. ASSUME NEW r \in Rows' \ torn' PROVE RowInOrder(r)'
  <2>1. RowInOrder(r)
    BY <1>1, <1>2, <1>3 DEF RulesInv
  <2>2. ASSUME NEW q \in Requests, Writes(q, r) PROVE requests[q].pc # "pool"
    <3>1. r \notin HalfWritten(q)
      BY <1>1, <1>3
    <3>2. QED BY <2>2, <3>1 DEF HalfWritten, Writes, WritesRow
  <2>3. Settled(pools[r], rules[r])
    BY <2>1, <2>2 DEF RowInOrder, Agrees
  <2>4. QED BY <1>1, <1>2, <2>3 DEF RowInOrder, Writes
<1>4. QED BY <1>1, <1>2, <1>3 DEF RulesInv, Writes

\* What selects winners and inserts rows writes no row meanwhile.
Bystander(m) == m.pc \in {"idle", "winner", "scheduled", "insert"}

LEMMA OthersWriteNone ==
    ASSUME RulesInv, NEW q \in Requests,
           \/ \E phase \in {"auto", "close", "schedule"} : BuildSelectWinner(q, phase)
           \/ ReadWinner(q) \/ ReadScheduled(q)
           \/ CreatePoolFromCreationTx(q) \/ HandlePoolCreated(q)
    PROVE  RulesInv'
<1>1. UNCHANGED <<pools, rules, torn>>
  BY DEF BuildSelectWinner, ReadWinner, ReadScheduled, CreatePoolFromCreationTx,
         HandlePoolCreated, db
<1>2. ASSUME NEW m, Bystander(requests[q]), Bystander(m),
             requests' = [requests EXCEPT ![q] = m]
      PROVE  RulesInv'
  <2>1. \A r : ~Writes(q, r) /\ ~WritesRow(m, r)
    BY <1>2 DEF Writes, WritesRow, Bystander
  <2>2. QED BY <1>1, <1>2, <2>1, WritesNone
<1>3. Bystander(Idle)
  BY DEF Bystander, Idle
<1>4. CASE \E phase \in {"auto", "close", "schedule"} : BuildSelectWinner(q, phase)
  <2>1. PICK r \in Rows : /\ requests[q] = Idle
                          /\ \/ UNCHANGED requests
                             \/ requests' = [requests EXCEPT ![q] =
                                   [pc |-> "winner", row |-> r, caller |-> pools[r].createdBy]]
    BY <1>4 DEF BuildSelectWinner
  <2>2. CASE UNCHANGED requests
    BY <1>1, <2>2, RulesStay
  <2>3. CASE requests' = [requests EXCEPT ![q] =
                [pc |-> "winner", row |-> r, caller |-> pools[r].createdBy]]
    <3> DEFINE m == [pc |-> "winner", row |-> r, caller |-> pools[r].createdBy]
    <3>1. Bystander(m)
      BY DEF Bystander
    <3> HIDE DEF m
    <3>2. QED BY <1>2, <1>3, <2>1, <2>3, <3>1 DEF m
  <2>4. QED BY <2>1, <2>2, <2>3
<1>5. CASE ReadWinner(q) \/ ReadScheduled(q)
  <2> DEFINE i == pools[requests[q].row].onChainPoolId
             m == IF ReadScheduled(q) \/ LastClosed(i) = 0 THEN Idle
                  ELSE [pc |-> "scheduled", row |-> requests[q].row, caller |-> requests[q].caller,
                        round |-> LastClosed(i), winner |-> chain[i].winners[LastClosed(i)]]
  <2>1. Bystander(m)
    BY DEF Bystander, Idle
  <2>2. requests = [a \in Requests |-> requests[a]]
    BY DEF RulesInv
  <2>3. requests' = [requests EXCEPT ![q] = m] /\ Bystander(requests[q])
    BY <1>5, <2>2 DEF ReadWinner, ReadScheduled, Bystander
  <2> HIDE DEF m
  <2>4. QED BY <1>2, <2>1, <2>3
<1>6. CASE CreatePoolFromCreationTx(q) \/ HandlePoolCreated(q)
  <2>1. PICK i, creator : requests[q] = Idle /\ requests' = [requests EXCEPT ![q] = ToInsert(i, creator)]
    BY <1>6 DEF CreatePoolFromCreationTx, HandlePoolCreated, Answering
  <2>2. Bystander(ToInsert(i, creator))
    BY DEF Bystander, ToInsert
  <2>3. QED BY <1>2, <1>3, <2>1, <2>2
<1>7. QED BY <1>4, <1>5, <1>6

LEMMA NextRulesInv == IInv /\ RulesInv /\ [Next]_vars => RulesInv'
<1> SUFFICES ASSUME IInv, RulesInv, [Next]_vars PROVE RulesInv'
  OBVIOUS
<1>1. CASE UNCHANGED vars
  BY <1>1, RulesStay DEF vars, db
<1>2. CASE \/ Mine \/ UpdateRulesOnChain \/ TriggerDefault \/ ConfigureTier
           \/ ConfigureTiersOnChain \/ BuildCreatePool \/ BuildContribute
           \/ BuildCloseRound \/ CoolDown
  <2>1. UNCHANGED <<pools, rules, torn, requests>>
    BY <1>2 DEF Mine, UpdateRulesOnChain, TriggerDefault, ConfigureTier, ConfigureTiersOnChain,
                BuildCreatePool, BuildContribute, BuildCloseRound, CoolDown, db
  <2>2. QED BY <2>1, RulesStay
<1>3. ASSUME NEW q \in Requests, Ask(q) PROVE RulesInv'
  BY <1>3, OthersWriteNone, RowLoaded, RulesAsked DEF Ask
<1>4. ASSUME NEW q \in Requests, Step(q) PROVE RulesInv'
  <2>1. Holds(pools, requests[q]) /\ Shape
    BY DEF IInv, Knows
  <2>2. QED
    BY <1>4, <2>1, OthersWriteNone, RowInserted, RowBackfilled, RowSaved, RulesFound,
       RulesSaved, TypeCopied, RequestFailed DEF Step
<1>5. QED BY <1>1, <1>2, <1>3, <1>4, RowCreated, BackendDied DEF Next

LEMMA InitRulesInv == Init => RulesInv
<1> SUFFICES ASSUME Init PROVE RulesInv
  OBVIOUS
<1>1. pools = <<>> /\ Len(pools) = 0 /\ pools \in Seq({}) /\ Rows = {}
  BY DEF Init, Rows
<1>2. \A q \in Requests : \A r : ~Writes(q, r)
  BY DEF Init, Idle, Writes, WritesRow
<1>3. requests = [q \in Requests |-> requests[q]] /\ rules = [r \in 1 .. MaxRows |-> rules[r]]
  BY DEF Init
<1>4. Len(pools) <= MaxRows
  BY <1>1, MaxRowsAssumption
<1>5. QED BY <1>1, <1>2, <1>3, <1>4 DEF RulesInv

LEMMA RulesInvAgrees == RulesInv => RulesAgree
BY DEF RulesInv, RulesAgree, RowInOrder, Writes, Settled

-----------------------------------------------------------------------------
(* Transactions *)

PoolFields == {"creator", "amount", "maxMembers", "type", "winners", "scheduled", "frozen"}
IsPool(p) == p = [f \in PoolFields |-> p[f]] /\ p.winners \in Seq(Wallets)

\* Pools are added to the chain and winners to pools; who created a pool and
\* what its members pay stays.
SamePool(p, old) ==
    /\ IsPool(p)
    /\ p.creator = old.creator /\ p.amount = old.amount
    /\ Len(old.winners) <= Len(p.winners)
    /\ \A n \in 1 .. Len(old.winners) : p.winners[n] = old.winners[n]

Grown ==
    /\ \E S : chain' \in Seq(S)
    /\ \A i \in DOMAIN chain' : IsPool(chain'[i])
    /\ \A i \in DOMAIN chain : i \in DOMAIN chain' /\ SamePool(chain'[i], chain[i])

\* A row of a pool of the chain names its creator, or nobody.
Identified(p, c) ==
    p.onChainPoolId # 0 =>
        p.onChainPoolId \in DOMAIN c /\ p.createdBy \in {NoWallet, c[p.onChainPoolId].creator}

\* What requests know of the chain: the creator of a pool and, once it is read,
\* the winner of a round that is closed.
Informed(m, rows, c) ==
    /\ m.pc = "insert" => Identified(m, c)
    /\ m.pc \in {"loaded", "save"} => Identified(m.pool, c)
    /\ m.pc \in {"winner", "scheduled"} =>
          /\ m.row \in 1 .. Len(rows)
          /\ rows[m.row].onChainPoolId \in DOMAIN c
          /\ m.caller = c[rows[m.row].onChainPoolId].creator
    /\ m.pc = "scheduled" =>
          LET winners == c[rows[m.row].onChainPoolId].winners
          IN  m.round \in 1 .. Len(winners) /\ m.winner = winners[m.round]

\* What is true of a transaction from the moment it is built.
Fits(tx, c) ==
    \/ /\ tx.kind = "create" /\ tx.amount > 0 /\ tx.members > 1 /\ tx.treasury
       /\ tx.seen.enabled /\ tx.amount <= tx.seen.max
    \/ /\ tx.kind = "contribute" /\ tx.pool \in DOMAIN c
       /\ tx.seen => tx.value = c[tx.pool].amount
    \/ tx.kind = "close" /\ tx.pool \in DOMAIN c
    \/ /\ tx.kind = "schedule" /\ tx.pool \in DOMAIN c /\ tx.from = c[tx.pool].creator
       /\ tx.seen \in 1 .. Len(c[tx.pool].winners)
       /\ tx.beneficiary = c[tx.pool].winners[tx.seen]

TxInv ==
    /\ \E S : chain \in Seq(S)
    /\ \A i \in DOMAIN chain : IsPool(chain[i])
    /\ \A r \in Rows : Identified(pools[r], chain)
    /\ \A q \in Requests : Informed(requests[q], pools, chain)
    /\ \A tx \in signed : Fits(tx, chain)

LEMMA ChainStays == ASSUME TxInv, UNCHANGED chain PROVE Grown
BY DEF TxInv, Grown, SamePool, IsPool

LEMMA IdentityStays ==
    ASSUME Grown, NEW p, Identified(p, chain) PROVE Identified(p, chain')
BY DEF Grown, SamePool, Identified

LEMMA TxStays ==
    ASSUME TxInv, Grown, NEW tx, Fits(tx, chain) PROVE Fits(tx, chain')
<1>1. \A i \in DOMAIN chain : Len(chain[i].winners) \in Nat /\ Len(chain'[i].winners) \in Nat
  BY DEF TxInv, Grown, SamePool, IsPool
<1>2. CASE tx.kind = "create"
  BY <1>2 DEF Fits
<1>3. CASE tx.kind \in {"contribute", "close"}
  BY <1>3 DEF Fits, Grown, SamePool
<1>4. CASE tx.kind = "schedule"
  <2>1. /\ tx.pool \in DOMAIN chain /\ tx.from = chain[tx.pool].creator
        /\ tx.seen \in 1 .. Len(chain[tx.pool].winners)
        /\ tx.beneficiary = chain[tx.pool].winners[tx.seen]
    BY <1>4 DEF Fits
  <2>2. tx.pool \in DOMAIN chain' /\ SamePool(chain'[tx.pool], chain[tx.pool])
    BY <2>1 DEF Grown
  <2>3. tx.seen \in 1 .. Len(chain'[tx.pool].winners)
    BY <1>1, <2>1, <2>2 DEF SamePool
  <2>4. QED BY <1>4, <2>1, <2>2, <2>3 DEF Fits, SamePool
<1>5. QED BY <1>2, <1>3, <1>4 DEF Fits

LEMMA InformationStays ==
    ASSUME IInv, TxInv, Grown, Kept \/ Added, NEW m, Informed(m, pools, chain)
    PROVE  Informed(m, pools', chain')
<1>1. PICK S : pools \in Seq(S)
  BY DEF IInv, Shape
<1>2. /\ Len(pools) \in Nat /\ Len(pools') \in Nat /\ Len(pools) <= Len(pools')
      /\ \A r \in 1 .. Len(pools) : pools'[r].onChainPoolId = pools[r].onChainPoolId
  <2>1. CASE Kept
    BY <1>1, <2>1 DEF Kept, Rows
  <2>2. CASE Added
    <3>1. PICK p : pools' = Append(pools, p)
      BY <2>2 DEF Added
    <3>2. QED BY <1>1, <3>1 DEF Rows
  <2>3. QED BY <2>1, <2>2
<1>3. m.pc \in {"insert", "loaded", "save"} => Informed(m, pools', chain')
  BY IdentityStays DEF Informed
<1>4. CASE m.pc \in {"winner", "scheduled"}
  <2> DEFINE i == pools[m.row].onChainPoolId
  <2>1. /\ m.row \in 1 .. Len(pools') /\ pools'[m.row].onChainPoolId = i
        /\ i \in DOMAIN chain /\ m.caller = chain[i].creator
    BY <1>2, <1>4 DEF Informed
  <2>2. i \in DOMAIN chain' /\ SamePool(chain'[i], chain[i])
    BY <2>1 DEF Grown
  <2>3. Len(chain[i].winners) \in Nat /\ Len(chain'[i].winners) \in Nat
    <3>1. chain[i].winners \in Seq(Wallets)
      BY <2>1 DEF TxInv, IsPool
    <3>2. chain'[i].winners \in Seq(Wallets)
      BY <2>2 DEF SamePool, IsPool
    <3> DEFINE before == chain[i].winners
               after == chain'[i].winners
    <3>3. before \in Seq(Wallets) /\ after \in Seq(Wallets)
      BY <3>1, <3>2
    <3> HIDE DEF before, after
    <3>4. Len(before) \in Nat /\ Len(after) \in Nat
      BY <3>3
    <3>5. QED BY <3>4 DEF before, after
  <2>4. m.pc = "scheduled" => m.round \in 1 .. Len(chain[i].winners)
                              /\ m.winner = chain[i].winners[m.round]
    BY DEF Informed
  <2>5. m.pc = "scheduled" => m.round \in 1 .. Len(chain'[i].winners)
                              /\ m.winner = chain'[i].winners[m.round]
    <3> DEFINE before == chain[i].winners
               after == chain'[i].winners
    <3>1. Len(before) <= Len(after) /\ \A n \in 1 .. Len(before) : after[n] = before[n]
      BY <2>2 DEF SamePool
    <3>2. m.pc = "scheduled" => m.round \in 1 .. Len(before) /\ m.winner = before[m.round]
      BY <2>4
    <3>3. Len(before) \in Nat /\ Len(after) \in Nat
      BY <2>3
    <3> HIDE DEF before, after
    <3>4. m.pc = "scheduled" => m.round \in 1 .. Len(after) /\ m.winner = after[m.round]
      BY <3>1, <3>2, <3>3
    <3>5. QED BY <3>4 DEF after
  <2>6. QED BY <1>4, <2>1, <2>2, <2>5 DEF Informed, SamePool
<1>5. QED BY <1>3, <1>4 DEF Informed

\* The invariant survives a step whose rows, requests and transactions are new
\* ones that are right, or as they were.
LEMMA TxPreserved ==
    ASSUME IInv, TxInv, Grown, Kept \/ Added,
           \A r \in Rows' :
              \/ r \in Rows /\ pools'[r].createdBy = pools[r].createdBy
              \/ Identified(pools'[r], chain'),
           \A q \in Requests :
              requests'[q] = requests[q] \/ Informed(requests'[q], pools', chain'),
           \A tx \in signed' : tx \in signed \/ Fits(tx, chain')
    PROVE  TxInv'
<1>1. ASSUME NEW r \in Rows, pools'[r].createdBy = pools[r].createdBy
      PROVE  Identified(pools'[r], chain')
  <2>1. pools'[r].onChainPoolId = pools[r].onChainPoolId
    <3>1. CASE Kept
      BY <3>1 DEF Kept
    <3>2. CASE Added
      BY <3>2, RowsFacts DEF Added, IInv, Shape, Rows
    <3>3. QED BY <3>1, <3>2
  <2>2. Identified(pools[r], chain')
    BY IdentityStays DEF TxInv
  <2>3. QED BY <1>1, <2>1, <2>2 DEF Identified
<1>2. \A q \in Requests : Informed(requests'[q], pools', chain')
  BY InformationStays DEF TxInv
<1>3. \A tx \in signed' : Fits(tx, chain')
  BY TxStays DEF TxInv
<1>4. QED BY <1>1, <1>2, <1>3 DEF TxInv, Grown

\* A step that leaves the rows alone, and one request of it goes on.
LEMMA OneInformed ==
    ASSUME IInv, TxInv, UNCHANGED <<chain, pools>>, NEW q \in Requests, NEW m,
           requests' = [requests EXCEPT ![q] = m], Informed(m, pools, chain),
           \A tx \in signed' : tx \in signed \/ Fits(tx, chain)
    PROVE  TxInv'
<1>1. Grown /\ (Kept \/ Added)
  BY ChainStays, UnchangedKept DEF IInv
<1>2. \A r \in Rows' : r \in Rows /\ pools'[r].createdBy = pools[r].createdBy
  BY DEF Rows
<1>3. \A a \in Requests : requests'[a] = requests[a] \/ Informed(requests'[a], pools', chain')
  BY DEF IInv, Shape
<1>4. QED BY <1>1, <1>2, <1>3, TxPreserved

LEMMA NoneInformed ==
    ASSUME IInv, TxInv, Grown, UNCHANGED <<pools, requests>>,
           \A tx \in signed' : tx \in signed \/ Fits(tx, chain')
    PROVE  TxInv'
<1>1. Kept \/ Added
  BY UnchangedKept DEF IInv
<1>2. \A r \in Rows' : r \in Rows /\ pools'[r].createdBy = pools[r].createdBy
  BY DEF Rows
<1>3. QED BY <1>1, <1>2, TxPreserved

LEMMA NothingToKnow ==
    ASSUME NEW m, NEW rows, NEW c,
           m.pc \notin {"insert", "loaded", "save", "winner", "scheduled"}
    PROVE  Informed(m, rows, c)
BY DEF Informed

\* A writer of rows goes on with a message that holds no row.
LEMMA RowWritten ==
    ASSUME IInv, TxInv, UNCHANGED <<chain, signed>>, Kept \/ Added, NEW q \in Requests, NEW m,
           requests' = [requests EXCEPT ![q] = m], Informed(m, pools', chain),
           \A r \in Rows' :
              \/ r \in Rows /\ pools'[r].createdBy = pools[r].createdBy
              \/ Identified(pools'[r], chain)
    PROVE  TxInv'
<1>1. Grown
  BY ChainStays
<1>2. \A a \in Requests : requests'[a] = requests[a] \/ Informed(requests'[a], pools', chain')
  BY DEF IInv, Shape
<1>3. QED BY <1>1, <1>2, TxPreserved

LEMMA PoolReplaced ==
    ASSUME TxInv, NEW i \in DOMAIN chain, NEW p, SamePool(p, chain[i]),
           chain' = [chain EXCEPT ![i] = p]
    PROVE  Grown
<1>1. PICK S : chain \in Seq(S)
  BY DEF TxInv
<1>2. /\ chain' \in Seq(S \cup {p}) /\ DOMAIN chain' = DOMAIN chain /\ chain'[i] = p
      /\ \A j \in DOMAIN chain \ {i} : chain'[j] = chain[j]
  BY <1>1
<1>3. \A j \in DOMAIN chain : SamePool(chain[j], chain[j])
  BY DEF TxInv, SamePool, IsPool
<1>4. \A j \in DOMAIN chain : SamePool(chain'[j], chain[j])
  BY <1>2, <1>3
<1>5. QED BY <1>2, <1>4 DEF Grown, SamePool

\* A pool is what its fields say.
LEMMA SameFields ==
    ASSUME NEW old, IsPool(old), NEW p, p = [f \in PoolFields |-> p[f]],
           p.creator = old.creator, p.amount = old.amount, p.winners = old.winners
    PROVE  SamePool(p, old)
<1>1. Len(old.winners) \in Nat /\ old.winners \in Seq(Wallets)
  BY DEF IsPool
<1>2. IsPool(p)
  BY <1>1 DEF IsPool
<1>3. QED BY <1>1, <1>2 DEF SamePool

\* The fields that change besides the winners are no part of what is known.
LEMMA FieldsChange ==
    ASSUME TxInv, NEW i \in DOMAIN chain, NEW value
    PROVE  /\ SamePool([chain[i] EXCEPT !.type = value], chain[i])
           /\ SamePool([chain[i] EXCEPT !.scheduled = value], chain[i])
           /\ SamePool([chain[i] EXCEPT !.frozen = value], chain[i])
<1> DEFINE old == chain[i]
           typed == [old EXCEPT !.type = value]
           scheduled == [old EXCEPT !.scheduled = value]
           frozen == [old EXCEPT !.frozen = value]
<1>1. IsPool(old)
  BY DEF TxInv
<1> HIDE DEF old
<1>2. old = [f \in PoolFields |-> old[f]]
  BY <1>1 DEF IsPool
<1>3. /\ typed = [f \in PoolFields |-> typed[f]] /\ typed.creator = old.creator
      /\ typed.amount = old.amount /\ typed.winners = old.winners
  BY <1>2 DEF PoolFields
<1>4. /\ scheduled = [f \in PoolFields |-> scheduled[f]] /\ scheduled.creator = old.creator
      /\ scheduled.amount = old.amount /\ scheduled.winners = old.winners
  BY <1>2 DEF PoolFields
<1>5. /\ frozen = [f \in PoolFields |-> frozen[f]] /\ frozen.creator = old.creator
      /\ frozen.amount = old.amount /\ frozen.winners = old.winners
  BY <1>2 DEF PoolFields
<1> HIDE DEF typed, scheduled, frozen
<1>6. SamePool(typed, old) /\ SamePool(scheduled, old) /\ SamePool(frozen, old)
  BY <1>1, <1>3, <1>4, <1>5, SameFields
<1>7. QED BY <1>6 DEF typed, scheduled, frozen, old

LEMMA WinnerAdded ==
    ASSUME TxInv, NEW i \in DOMAIN chain, NEW p \in Closed(chain[i])
    PROVE  SamePool(p, chain[i])
<1> DEFINE old == chain[i]
<1>1. IsPool(old)
  BY DEF TxInv
<1>2. p \in Closed(old)
  OBVIOUS
<1> HIDE DEF old
<1>3. /\ old = [f \in PoolFields |-> old[f]] /\ old.winners \in Seq(Wallets)
      /\ Len(old.winners) \in Nat
  BY <1>1 DEF IsPool
<1>4. SamePool(old, old)
  BY <1>1, <1>3, SameFields
<1>5. ASSUME NEW w \in Wallets
      PROVE  SamePool([old EXCEPT !.winners = Append(@, w)], old)
  <2> DEFINE winners == Append(old.winners, w)
             new == [old EXCEPT !.winners = winners]
  <2>1. /\ winners \in Seq(Wallets) /\ Len(old.winners) <= Len(winners)
        /\ \A n \in 1 .. Len(old.winners) : winners[n] = old.winners[n]
    BY <1>3
  <2>2. new = [old EXCEPT !.winners = Append(@, w)]
    OBVIOUS
  <2> HIDE DEF winners
  <2>3. /\ new = [f \in PoolFields |-> new[f]] /\ new.winners = winners
        /\ new.creator = old.creator /\ new.amount = old.amount
    BY <1>3 DEF PoolFields
  <2> HIDE DEF new
  <2>4. SamePool(new, old)
    BY <2>1, <2>3 DEF SamePool, IsPool
  <2>5. QED BY <2>2, <2>4
<1>6. SamePool(p, old)
  BY <1>2, <1>4, <1>5 DEF Closed
<1>7. QED BY <1>6 DEF old

LEMMA MineGrows == ASSUME TxInv, Mine PROVE Grown
<1>1. PICK tx \in signed : chain' \in IF Accepts(tx) THEN Effects(tx) ELSE {chain}
  BY DEF Mine
<1>2. Fits(tx, chain)
  BY DEF TxInv
<1>3. CASE chain' = chain
  BY <1>3, ChainStays
<1>4. CASE tx.kind = "create" /\ chain' # chain
  <2> DEFINE p == Created(tx.from, tx.amount, tx.members)
  <2>1. chain' = Append(chain, p)
    BY <1>1, <1>4 DEF Effects
  <2>2. IsPool(p)
    <3>1. p = [f \in PoolFields |-> p[f]]
      BY DEF PoolFields, Created
    <3>2. p.winners = <<>> /\ <<>> \in Seq(Wallets)
      BY DEF Created
    <3>3. QED BY <3>1, <3>2 DEF IsPool
  <2> HIDE DEF p
  <2>3. PICK S : chain \in Seq(S)
    BY DEF TxInv
  <2>4. /\ chain' \in Seq(S \cup {p}) /\ DOMAIN chain' = DOMAIN chain \cup {Len(chain) + 1}
        /\ chain'[Len(chain) + 1] = p
        /\ \A i \in DOMAIN chain : chain'[i] = chain[i]
    BY <2>1, <2>3
  <2>5. \A i \in DOMAIN chain : SamePool(chain[i], chain[i])
    BY DEF TxInv, SamePool, IsPool
  <2>6. QED BY <2>2, <2>4, <2>5 DEF Grown, SamePool
<1>5. CASE tx.kind = "contribute"
  BY <1>1, <1>3, <1>5 DEF Effects
<1>6. CASE tx.kind = "close" /\ chain' # chain
  <2>1. tx.pool \in DOMAIN chain
    BY <1>2, <1>6 DEF Fits
  <2>2. chain' \in {[chain EXCEPT ![tx.pool] = p] : p \in Closed(chain[tx.pool])}
    BY <1>1, <1>6 DEF Effects
  <2>3. QED BY <2>1, <2>2, WinnerAdded, PoolReplaced
<1>7. CASE tx.kind = "schedule" /\ chain' # chain
  <2> DEFINE value == chain[tx.pool].scheduled \cup {Len(chain[tx.pool].winners)}
             p == [chain[tx.pool] EXCEPT !.scheduled = value]
  <2>1. tx.pool \in DOMAIN chain
    BY <1>2, <1>7 DEF Fits
  <2>2. chain' = [chain EXCEPT ![tx.pool] = p]
    BY <1>1, <1>7 DEF Effects
  <2> HIDE DEF value
  <2>3. SamePool(p, chain[tx.pool])
    BY <2>1, FieldsChange
  <2> HIDE DEF p
  <2>4. QED BY <2>1, <2>2, <2>3, PoolReplaced
<1>8. QED BY <1>2, <1>3, <1>4, <1>5, <1>6, <1>7 DEF Fits

LEMMA ChainStepInformed ==
    ASSUME IInv, TxInv, Mine \/ UpdateRulesOnChain \/ TriggerDefault \/ ConfigureTier
                        \/ ConfigureTiersOnChain \/ CoolDown
    PROVE  TxInv'
<1>1. UNCHANGED <<pools, requests>> /\ signed' \subseteq signed
  BY DEF Mine, UpdateRulesOnChain, TriggerDefault, ConfigureTier, ConfigureTiersOnChain,
         CoolDown, db
<1>2. CASE Mine
  BY <1>1, <1>2, MineGrows, NoneInformed
<1>3. CASE UpdateRulesOnChain
  <2>1. PICK i \in DOMAIN chain, type \in Types : chain' = [chain EXCEPT ![i].type = type]
    BY <1>3 DEF UpdateRulesOnChain
  <2> DEFINE p == [chain[i] EXCEPT !.type = type]
  <2>2. SamePool(p, chain[i]) /\ chain' = [chain EXCEPT ![i] = p]
    BY <2>1, FieldsChange
  <2> HIDE DEF p
  <2>3. QED BY <1>1, <2>2, PoolReplaced, NoneInformed
<1>4. CASE TriggerDefault
  <2>1. PICK i \in DOMAIN chain, w \in Wallets :
           chain' = [chain EXCEPT ![i].frozen = @ \cup {w}]
    BY <1>4 DEF TriggerDefault
  <2> DEFINE value == chain[i].frozen \cup {w}
             p == [chain[i] EXCEPT !.frozen = value]
  <2>2. chain' = [chain EXCEPT ![i] = p]
    BY <2>1
  <2> HIDE DEF value
  <2>3. SamePool(p, chain[i])
    BY FieldsChange
  <2> HIDE DEF p
  <2>4. QED BY <1>1, <2>2, <2>3, PoolReplaced, NoneInformed
<1>5. CASE ConfigureTier \/ ConfigureTiersOnChain \/ CoolDown
  <2>1. UNCHANGED chain
    BY <1>5 DEF ConfigureTier, ConfigureTiersOnChain, CoolDown
  <2>2. QED BY <1>1, <2>1, ChainStays, NoneInformed
<1>6. QED BY <1>2, <1>3, <1>4, <1>5

\* Transactions are built of what the chain says at the time.
LEMMA BuiltFits ==
    ASSUME IInv, TxInv, BuildCreatePool \/ BuildContribute \/ BuildCloseRound
    PROVE  TxInv'
<1>1. UNCHANGED <<chain, pools, requests>>
  BY DEF BuildCreatePool, BuildContribute, BuildCloseRound, db
<1>2. ASSUME NEW tx, signed' = signed \cup {tx}, Fits(tx, chain) PROVE TxInv'
  BY <1>1, <1>2, ChainStays, NoneInformed
<1>3. CASE BuildCreatePool
  <2>1. PICK t \in Tiers, amount \in Amounts, size \in 1 .. 2, treasury \in BOOLEAN,
             w \in Wallets :
           /\ Creatable(t, amount, size, treasury)
           /\ Offer([kind |-> "create", tier |-> t, amount |-> amount, members |-> size,
                     treasury |-> treasury, from |-> w, seen |-> tiers[t]])
    BY <1>3 DEF BuildCreatePool
  <2>2. QED BY <1>2, <2>1 DEF Offer, Creatable, Fits
<1>4. CASE BuildContribute
  <2>1. PICK i \in DOMAIN chain, fallback \in Amounts :
           \E v \in ResolveNativeContributionValue(i, fallback) :
              Offer([kind |-> "contribute", pool |-> i, value |-> v.value, seen |-> v.sure])
    BY <1>4 DEF BuildContribute
  <2>2. PICK v \in ResolveNativeContributionValue(i, fallback) :
           Offer([kind |-> "contribute", pool |-> i, value |-> v.value, seen |-> v.sure])
    BY <2>1
  <2>3. v.sure => v.value = chain[i].amount
    BY DEF ResolveNativeContributionValue
  <2>4. QED BY <1>2, <2>2, <2>3 DEF Offer, Fits
<1>5. CASE BuildCloseRound
  <2>1. PICK i \in DOMAIN chain : Offer(CloseTx(i))
    BY <1>5 DEF BuildCloseRound
  <2>2. Fits(CloseTx(i), chain)
    BY DEF Fits, CloseTx
  <2>3. QED BY <1>2, <2>1, <2>2 DEF Offer
<1>6. QED BY <1>3, <1>4, <1>5

\* selectWinner: who asks is the creator, whom the row names.
LEMMA WinnerInformed ==
    ASSUME IInv, TxInv, NEW q \in Requests,
           \/ \E phase \in {"auto", "close", "schedule"} : BuildSelectWinner(q, phase)
           \/ ReadWinner(q) \/ ReadScheduled(q)
    PROVE  TxInv'
<1>1. UNCHANGED <<chain, pools>>
  BY DEF BuildSelectWinner, ReadWinner, ReadScheduled, db
<1>2. Informed(Idle, pools, chain)
  BY NothingToKnow DEF Idle
<1>3. requests = [a \in Requests |-> requests[a]]
  BY DEF IInv, Shape
<1>4. ASSUME NEW phase, BuildSelectWinner(q, phase) PROVE TxInv'
  <2>1. PICK r \in Rows :
           /\ pools[r].createdBy # NoWallet /\ pools[r].onChainPoolId # 0
           /\ \/ UNCHANGED signed
              \/ signed' = signed \cup {CloseTx(pools[r].onChainPoolId)}
           /\ \/ UNCHANGED requests
              \/ requests' = [requests EXCEPT ![q] =
                    [pc |-> "winner", row |-> r, caller |-> pools[r].createdBy]]
    BY <1>4 DEF BuildSelectWinner, Offer
  <2> DEFINE m == [pc |-> "winner", row |-> r, caller |-> pools[r].createdBy]
             i == pools[r].onChainPoolId
  <2>2. i \in DOMAIN chain /\ pools[r].createdBy = chain[i].creator
    BY <2>1 DEF TxInv, Identified
  <2>3. Fits(CloseTx(i), chain)
    BY <2>2 DEF Fits, CloseTx
  <2>4. \A tx \in signed' : tx \in signed \/ Fits(tx, chain)
    BY <2>1, <2>3
  <2>5. Informed(m, pools, chain)
    BY <2>2 DEF Informed, Rows
  <2> HIDE DEF m
  <2>6. CASE UNCHANGED requests
    BY <1>1, <2>4, <2>6, ChainStays, NoneInformed
  <2>7. CASE requests' = [requests EXCEPT ![q] = m]
    BY <1>1, <2>4, <2>5, <2>7, OneInformed
  <2>8. QED BY <2>1, <2>6, <2>7 DEF m
<1> DEFINE old == requests[q]
           i == pools[old.row].onChainPoolId
<1>5. Informed(old, pools, chain)
  BY DEF TxInv
<1>6. CASE ReadWinner(q)
  <2> DEFINE m == [pc |-> "scheduled", row |-> old.row, caller |-> old.caller,
                   round |-> LastClosed(i), winner |-> chain[i].winners[LastClosed(i)]]
  <2>1. /\ old.pc = "winner" /\ UNCHANGED signed
        /\ requests' = [requests EXCEPT ![q] = IF LastClosed(i) = 0 THEN Idle ELSE m]
    BY <1>3, <1>6 DEF ReadWinner
  <2>2. /\ old.row \in 1 .. Len(pools) /\ i \in DOMAIN chain
        /\ old.caller = chain[i].creator
    BY <1>5, <2>1 DEF Informed
  <2>3. LastClosed(i) # 0 => LastClosed(i) \in 1 .. Len(chain[i].winners)
    BY <2>2 DEF TxInv, IsPool, LastClosed
  <2>4. LastClosed(i) # 0 => Informed(m, pools, chain)
    BY <2>2, <2>3 DEF Informed
  <2> HIDE DEF m
  <2> DEFINE next == IF LastClosed(i) = 0 THEN Idle ELSE m
  <2>5. Informed(next, pools, chain) /\ requests' = [requests EXCEPT ![q] = next]
    BY <1>2, <2>1, <2>4
  <2> HIDE DEF next
  <2>6. QED BY <1>1, <2>1, <2>5, OneInformed
<1>7. CASE ReadScheduled(q)
  <2> DEFINE tx == [kind |-> "schedule", pool |-> i, beneficiary |-> old.winner,
                    from |-> old.caller, seen |-> old.round]
  <2>1. /\ old.pc = "scheduled" /\ (UNCHANGED signed \/ signed' = signed \cup {tx})
        /\ requests' = [requests EXCEPT ![q] = Idle]
    BY <1>7 DEF ReadScheduled, Offer
  <2>2. Fits(tx, chain)
    BY <1>5, <2>1 DEF Informed, Fits
  <2> HIDE DEF tx
  <2>3. QED BY <1>1, <1>2, <2>1, <2>2, OneInformed
<1>8. QED BY <1>4, <1>6, <1>7

\* Rows without a pool on the chain have nothing to name.
LEMMA RowCreatedIdentified == ASSUME IInv, TxInv, CreatePool PROVE TxInv'
<1> DEFINE p == [onChainPoolId |-> 0, createdBy |-> NoWallet, txHash |-> FALSE,
                 equbType |-> NoType, after |-> Len(pools)]
<1>1. pools' = Append(pools, p) /\ UNCHANGED <<chain, signed, requests>>
  BY DEF CreatePool
<1>2. Identified(p, chain)
  BY DEF Identified
<1> HIDE DEF p
<1>3. \A r \in Rows' : (r \in Rows /\ pools'[r] = pools[r]) \/ pools'[r] = p
  BY <1>1, RowsFacts DEF IInv, Shape, Rows
<1>4. Grown /\ Added
  BY <1>1, ChainStays, CreatePoolAdds
<1>5. \A r \in Rows' : \/ r \in Rows /\ pools'[r].createdBy = pools[r].createdBy
                       \/ Identified(pools'[r], chain')
  BY <1>1, <1>2, <1>3
<1>6. QED BY <1>1, <1>4, <1>5, TxPreserved

LEMMA NothingAsked == ASSUME IInv, TxInv, Restart PROVE TxInv'
<1>1. UNCHANGED <<chain, signed, pools>> /\ requests' = [q \in Requests |-> Idle]
  BY DEF Restart
<1>2. Informed(Idle, pools', chain')
  BY NothingToKnow DEF Idle
<1>3. \A q \in Requests : requests'[q] = Idle
  BY <1>1
<1>4. \A q \in Requests : Informed(requests'[q], pools', chain')
  BY <1>2, <1>3
<1>5. Grown /\ (Kept \/ Added)
  BY <1>1, ChainStays, UnchangedKept DEF IInv
<1>6. \A r \in Rows' : r \in Rows /\ pools'[r].createdBy = pools[r].createdBy
  BY <1>1 DEF Rows
<1>7. QED BY <1>1, <1>4, <1>5, <1>6, TxPreserved

\* createPoolFromCreationTx and handlePoolCreated: of a pool of the chain, and
\* the creator is left out or is the one of the transaction.
LEMMA InsertInformed ==
    ASSUME IInv, TxInv, NEW q \in Requests,
           CreatePoolFromCreationTx(q) \/ HandlePoolCreated(q)
    PROVE  TxInv'
<1>1. PICK i, creator :
         /\ i \in DOMAIN chain /\ creator \in {chain[i].creator, NoWallet}
         /\ requests' = [requests EXCEPT ![q] = ToInsert(i, creator)]
  BY DEF CreatePoolFromCreationTx, HandlePoolCreated, Answering
<1>2. UNCHANGED <<chain, pools, signed>>
  BY DEF CreatePoolFromCreationTx, HandlePoolCreated, db
<1> DEFINE m == ToInsert(i, creator)
<1>3. Informed(m, pools, chain)
  BY <1>1 DEF Informed, Identified, ToInsert
<1> HIDE DEF m
<1>4. requests' = [requests EXCEPT ![q] = m]
  BY <1>1 DEF m
<1>5. QED BY <1>2, <1>3, <1>4, OneInformed

LEMMA RowInsertedIdentified ==
    ASSUME IInv, TxInv, NEW q \in Requests, InsertPool(q) PROVE TxInv'
<1> DEFINE m == requests[q]
           p == [onChainPoolId |-> m.onChainPoolId, createdBy |-> m.createdBy,
                 txHash |-> TRUE, equbType |-> NoType, after |-> m.after]
           n == [pc |-> "fetch", row |-> Len(pools'), times |-> 1]
<1>1. /\ m.pc = "insert" /\ pools' = Append(pools, p) /\ UNCHANGED <<chain, signed>>
      /\ requests' = [requests EXCEPT ![q] = n]
  BY DEF InsertPool, Going
<1>2. Informed(m, pools, chain)
  BY DEF TxInv
<1>3. Identified(p, chain)
  BY <1>1, <1>2 DEF Informed, Identified
<1>4. Informed(n, pools', chain)
  BY NothingToKnow
<1> HIDE DEF p, n
<1>5. \A r \in Rows' : (r \in Rows /\ pools'[r] = pools[r]) \/ pools'[r] = p
  BY <1>1, RowsFacts DEF IInv, Shape, Rows
<1>6. \A r \in Rows' : \/ r \in Rows /\ pools'[r].createdBy = pools[r].createdBy
                       \/ Identified(pools'[r], chain)
  BY <1>3, <1>5
<1>7. QED BY <1>1, <1>4, <1>6, InsertAdds, RowWritten

LEMMA LoadInformed == ASSUME IInv, TxInv, NEW q \in Requests, LoadPool(q) PROVE TxInv'
<1>1. PICK r \in Rows : requests' = [requests EXCEPT ![q] =
                                        [pc |-> "loaded", row |-> r, pool |-> pools[r]]]
  BY DEF LoadPool, Answering
<1> DEFINE m == [pc |-> "loaded", row |-> r, pool |-> pools[r]]
<1>2. UNCHANGED <<chain, pools, signed>> /\ requests' = [requests EXCEPT ![q] = m]
  BY <1>1 DEF LoadPool
<1>3. Informed(m, pools, chain)
  BY DEF Informed, TxInv
<1> HIDE DEF m
<1>4. QED BY <1>2, <1>3, OneInformed

\* The creator that is filled in is the one of the transaction.
LEMMA BackfillIdentified ==
    ASSUME IInv, TxInv, NEW q \in Requests, BackfillPoolFromCreationTx(q) PROVE TxInv'
<1> DEFINE m == requests[q]
           found == [m.pool EXCEPT !.createdBy = chain[m.pool.onChainPoolId].creator]
           n == [m EXCEPT !.pc = "save", !.pool = found]
<1>1. /\ m.pc = "loaded" /\ UNCHANGED <<chain, signed>>
      /\ pools' = [pools EXCEPT ![m.row] = found]
      /\ requests' = [requests EXCEPT ![q] = n]
  BY DEF BackfillPoolFromCreationTx, Going
<1>2. Holds(pools, m) /\ Informed(m, pools, chain)
  BY DEF IInv, Knows, TxInv
<1>3. /\ found.onChainPoolId = m.pool.onChainPoolId
      /\ found.createdBy = chain[m.pool.onChainPoolId].creator
  BY <1>1, <1>2 DEF Holds, IsRow, Fields
<1>4. n.pc = "save" /\ n.pool = found
  BY <1>1, <1>2 DEF Holds
<1>5. Identified(found, chain)
  BY <1>1, <1>2, <1>3 DEF Informed, Identified
<1> HIDE DEF found, n
<1>6. Informed(n, pools', chain)
  BY <1>4, <1>5 DEF Informed
<1>7. \A r \in Rows' : r \in Rows /\ (pools'[r] = pools[r] \/ pools'[r] = found)
  BY <1>1 DEF IInv, Shape, Rows
<1>8. \A r \in Rows' : \/ r \in Rows /\ pools'[r].createdBy = pools[r].createdBy
                       \/ Identified(pools'[r], chain)
  BY <1>5, <1>7
<1>9. QED BY <1>1, <1>6, <1>8, BackfillStep, RowWritten

LEMMA SaveIdentified == ASSUME IInv, TxInv, NEW q \in Requests, SavePool(q) PROVE TxInv'
<1> DEFINE m == requests[q]
           row == m.pool
<1>1. /\ m.pc \in {"loaded", "save"} /\ UNCHANGED <<chain, signed>>
      /\ pools' = [pools EXCEPT ![m.row] = row]
      /\ requests' = [requests EXCEPT ![q] = Idle]
  BY DEF SavePool, Going
<1>2. Informed(m, pools, chain)
  BY DEF TxInv
<1>3. Identified(row, chain)
  BY <1>1, <1>2 DEF Informed
<1> HIDE DEF row
<1>4. \A r \in Rows' : r \in Rows /\ (pools'[r] = pools[r] \/ pools'[r] = row)
  BY <1>1 DEF IInv, Shape, Rows
<1>5. \A r \in Rows' : \/ r \in Rows /\ pools'[r].createdBy = pools[r].createdBy
                       \/ Identified(pools'[r], chain)
  BY <1>3, <1>4
<1>6. Informed(Idle, pools', chain)
  BY NothingToKnow DEF Idle
<1>7. QED BY <1>1, <1>5, <1>6, SaveStep, RowWritten

LEMMA CopyLeavesCreators == ASSUME IInv, TxInv, NEW q \in Requests, CopyType(q) PROVE TxInv'
<1> DEFINE m == requests[q]
           n == CopyTimes(m, m.times - 1)
<1>1. /\ pools' = [pools EXCEPT ![m.row].equbType = m.type] /\ UNCHANGED <<chain, signed>>
      /\ requests' = [requests EXCEPT ![q] = n]
  BY DEF CopyType, Going
<1>2. Informed(n, pools', chain)
  BY NothingToKnow DEF CopyTimes, Idle
<1> HIDE DEF n
<1>3. ASSUME NEW r \in Rows' PROVE r \in Rows /\ pools'[r].createdBy = pools[r].createdBy
  <2>0. PICK S : pools \in Seq(S)
    BY DEF IInv, Shape
  <2>1. r \in Rows
    BY <1>1, <1>3, <2>0 DEF Rows
  <2>2. IsRow(pools[r])
    BY <2>1 DEF IInv, Shape
  <2>3. pools'[r] = pools[r] \/ pools'[r] = [pools[r] EXCEPT !.equbType = m.type]
    <3>1. r \in DOMAIN pools
      BY <2>0, <2>1 DEF Rows
    <3> HIDE DEF m
    <3>2. QED BY <1>1, <3>1
  <2>4. QED BY <2>1, <2>2, <2>3 DEF IsRow, Fields
<1>4. QED BY <1>1, <1>2, <1>3, CopyStep, RowWritten

\* Whoever writes rules holds no row and reads no winner.
LEMMA RulesInformed ==
    ASSUME IInv, TxInv, NEW q \in Requests,
           \/ GetRules(q) \/ SetRules(q) \/ UpdateRules(q) \/ HandleRulesUpdated(q)
           \/ FetchRulesFromChain(q) \/ FindRules(q) \/ SaveRules(q) \/ Fail(q)
    PROVE  TxInv'
<1>1. UNCHANGED <<chain, pools, signed>>
  BY DEF GetRules, SetRules, UpdateRules, HandleRulesUpdated, FetchRulesFromChain,
         FindRules, SaveRules, Fail, db
<1>2. ASSUME NEW m, requests' = [requests EXCEPT ![q] = m],
             m.pc \in {"idle", "fetch", "find", "rules", "pool"}
      PROVE  TxInv'
  <2>1. Informed(m, pools, chain)
    BY <1>2, NothingToKnow
  <2>2. QED BY <1>1, <1>2, <2>1, OneInformed
<1>3. CASE GetRules(q) \/ HandleRulesUpdated(q)
  <2>1. PICK r, times : requests' =
           [requests EXCEPT ![q] = [pc |-> "fetch", row |-> r, times |-> times]]
    BY <1>3 DEF GetRules, HandleRulesUpdated, Writer, Answering
  <2> DEFINE m == [pc |-> "fetch", row |-> r, times |-> times]
  <2>2. m.pc = "fetch" /\ requests' = [requests EXCEPT ![q] = m]
    BY <2>1
  <2> HIDE DEF m
  <2>3. QED BY <1>2, <2>2
<1>4. CASE SetRules(q) \/ UpdateRules(q)
  <2>1. PICK r, type, times : requests' =
           [requests EXCEPT ![q] = [pc |-> "find", row |-> r, type |-> type, times |-> times]]
    BY <1>4 DEF SetRules, UpdateRules, Writer, Answering
  <2> DEFINE m == [pc |-> "find", row |-> r, type |-> type, times |-> times]
  <2>2. m.pc = "find" /\ requests' = [requests EXCEPT ![q] = m]
    BY <2>1
  <2> HIDE DEF m
  <2>3. QED BY <1>2, <2>2
<1>5. CASE FetchRulesFromChain(q)
  <2> DEFINE old == requests[q]
             m == [pc |-> "find", row |-> old.row, times |-> old.times,
                   type |-> chain[pools[old.row].onChainPoolId].type]
  <2>1. m.pc = "find" /\ requests' = [requests EXCEPT ![q] = m]
    BY <1>5 DEF FetchRulesFromChain, Going
  <2> HIDE DEF m
  <2>2. QED BY <1>2, <2>1
<1>6. CASE FindRules(q)
  <2> DEFINE old == requests[q]
             found == rules[old.row]
             type == CASE old.type # NoType -> old.type
                       [] old.type = NoType /\ found # NoType -> found
                       [] OTHER -> 0
             m == [pc |-> "rules", row |-> old.row, times |-> old.times,
                   found |-> found # NoType, type |-> type]
  <2>1. requests' = [requests EXCEPT ![q] = m]
    BY <1>6 DEF FindRules, Going
  <2> HIDE DEF type
  <2>2. m.pc = "rules"
    OBVIOUS
  <2> HIDE DEF m
  <2>3. QED BY <1>2, <2>1, <2>2
<1>7. CASE SaveRules(q) \/ Fail(q)
  <2>1. PICK m : m.pc \in {"idle", "pool"} /\ requests' = [requests EXCEPT ![q] = m]
    BY <1>7 DEF SaveRules, Fail, Going, CopyTimes, Idle
  <2>2. QED BY <1>2, <2>1
<1>8. QED BY <1>3, <1>4, <1>5, <1>6, <1>7

LEMMA NextTxInv == IInv /\ TxInv /\ [Next]_vars => TxInv'
<1> SUFFICES ASSUME IInv, TxInv, [Next]_vars PROVE TxInv'
  OBVIOUS
<1>1. CASE UNCHANGED vars
  BY <1>1, ChainStays, NoneInformed DEF vars, db
<1>2. ASSUME NEW q \in Requests, Ask(q) PROVE TxInv'
  BY <1>2, WinnerInformed, InsertInformed, LoadInformed, RulesInformed DEF Ask
<1>3. ASSUME NEW q \in Requests, Step(q) PROVE TxInv'
  BY <1>3, WinnerInformed, RowInsertedIdentified, BackfillIdentified, SaveIdentified,
     RulesInformed, CopyLeavesCreators DEF Step
<1>4. QED
  BY <1>1, <1>2, <1>3, ChainStepInformed, BuiltFits, RowCreatedIdentified, NothingAsked DEF Next

LEMMA InitTxInv == Init => TxInv
<1> SUFFICES ASSUME Init PROVE TxInv
  OBVIOUS
<1>1. PICK w \in Wallets : chain = <<Created(w, 1, 2)>>
  BY DEF Init
<1> DEFINE p == Created(w, 1, 2)
<1>2. IsPool(p)
  <2>1. p = [f \in PoolFields |-> p[f]]
    BY DEF PoolFields, Created
  <2>2. p.winners = <<>> /\ <<>> \in Seq(Wallets)
    BY DEF Created
  <2>3. QED BY <2>1, <2>2 DEF IsPool
<1>3. chain = <<p>>
  BY <1>1
<1> HIDE DEF p
<1>4. chain \in Seq({p}) /\ \A i \in DOMAIN chain : chain[i] = p
  BY <1>3
<1>5. Rows = {} /\ signed = {}
  BY DEF Init, Rows
<1>6. \A q \in Requests : requests[q] = Idle
  BY DEF Init
<1>7. Informed(Idle, pools, chain)
  BY NothingToKnow DEF Idle
<1>8. QED BY <1>2, <1>4, <1>5, <1>6, <1>7 DEF TxInv

LEMMA TxInvFits == TxInv => BuiltTransactionsFit
<1> SUFFICES ASSUME TxInv, NEW tx \in signed, StillValid(tx) PROVE Accepts(tx)
  BY DEF BuiltTransactionsFit
<1>1. Fits(tx, chain)
  BY DEF TxInv
<1>2. CASE tx.kind = "create"
  BY <1>1, <1>2 DEF Fits, StillValid, Accepts
<1>3. CASE tx.kind = "contribute"
  BY <1>1, <1>3 DEF Fits, StillValid, Accepts
<1>4. CASE tx.kind = "close"
  BY <1>4 DEF Accepts
<1>5. CASE tx.kind = "schedule"
  <2> DEFINE winners == chain[tx.pool].winners
  <2>1. /\ tx.pool \in DOMAIN chain /\ tx.from = chain[tx.pool].creator
        /\ tx.seen \in 1 .. Len(winners) /\ tx.beneficiary = winners[tx.seen]
    BY <1>1, <1>5 DEF Fits
  <2>2. /\ Len(winners) = tx.seen /\ tx.seen \notin chain[tx.pool].scheduled
        /\ tx.beneficiary \notin chain[tx.pool].frozen
    BY <1>5 DEF StillValid, LastClosed
  <2>3. winners \in Seq(Wallets)
    BY <2>1 DEF TxInv, IsPool
  <2>4. winners # <<>>
    BY <2>1, <2>2, <2>3
  <2>5. QED BY <1>5, <2>1, <2>2, <2>4 DEF Accepts
<1>6. QED BY <1>1, <1>2, <1>3, <1>4, <1>5 DEF Fits

-----------------------------------------------------------------------------
(* Rankings *)

\* Orders without the tables: rows from the highest score to the lowest.
Ranked(rows, score) ==
    {o \in [1 .. Cardinality(rows) -> rows] :
        \A i, j \in DOMAIN o : i < j => o[i] # o[j] /\ score[o[i]] >= score[o[j]]}

\* An order of a set has every element.
LEMMA OrderHasAll ==
    ASSUME NEW rows, IsFiniteSet(rows), NEW score, NEW o \in Ranked(rows, score)
    PROVE  \A r \in rows : \E k \in 1 .. Cardinality(rows) : o[k] = r
<1> DEFINE n == Cardinality(rows)
<1>1. n \in Nat
  BY FS_CardinalityType
<1>2. o \in [1 .. n -> rows]
  BY DEF Ranked
<1>3. \A i, j \in 1 .. n : o[i] = o[j] => i = j
  <2> SUFFICES ASSUME NEW i \in 1 .. n, NEW j \in 1 .. n, o[i] = o[j], i # j PROVE FALSE
    OBVIOUS
  <2>1. i < j \/ j < i
    BY <1>1
  <2>2. QED BY <1>2, <2>1 DEF Ranked
<1>4. o \in Injection(1 .. n, rows)
  BY <1>2, <1>3 DEF Injection, IsInjective
<1>5. Cardinality(1 .. n) = n
  BY <1>1, FS_Interval
<1>6. o \in Surjection(1 .. n, rows)
  BY <1>4, <1>5, FS_Injection
<1>7. QED BY <1>6 DEF Surjection

\* Where one order of a set is, another has no lower score: the rows that score
\* as high as the one at a place are at least as many as the place says.
LEMMA NoLowerThere ==
    ASSUME NEW rows, IsFiniteSet(rows), NEW score, \A r \in rows : score[r] \in Int,
           NEW o \in Ranked(rows, score), NEW p \in Ranked(rows, score),
           NEW i \in 1 .. Cardinality(rows)
    PROVE  score[p[i]] >= score[o[i]]
<1> DEFINE n == Cardinality(rows)
           high == {r \in rows : score[r] >= score[o[i]]}
           before == {p[k] : k \in 1 .. i - 1}
<1>1. n \in Nat /\ i \in Nat
  BY FS_CardinalityType
<1>2. o \in [1 .. n -> rows] /\ p \in [1 .. n -> rows]
  BY DEF Ranked
<1>3. \A k \in 1 .. n : score[o[k]] \in Int /\ score[p[k]] \in Int
  BY <1>2
<1>4. \A k, l \in 1 .. n : k < l => /\ o[k] # o[l] /\ score[o[k]] >= score[o[l]]
                                    /\ score[p[k]] >= score[p[l]]
  BY <1>2 DEF Ranked
<1>5. IsFiniteSet(high)
  <2>1. high \in SUBSET rows
    OBVIOUS
  <2>2. QED BY <2>1, FS_Subset
<1>6. i <= Cardinality(high)
  <2> DEFINE f == [k \in 1 .. i |-> o[k]]
  <2>1. \A k \in 1 .. i : o[k] \in high
    <3> SUFFICES ASSUME NEW k \in 1 .. i PROVE o[k] \in high
      OBVIOUS
    <3>1. k \in 1 .. n /\ (k = i \/ k < i)
      BY <1>1
    <3>2. score[o[k]] >= score[o[i]]
      BY <1>3, <1>4, <3>1
    <3>3. QED BY <1>2, <3>1, <3>2
  <2>2. \A k, l \in 1 .. i : o[k] = o[l] => k = l
    <3> SUFFICES ASSUME NEW k \in 1 .. i, NEW l \in 1 .. i, o[k] = o[l], k # l PROVE FALSE
      OBVIOUS
    <3>1. /\ k \in 1 .. n /\ l \in 1 .. n
          /\ k < l \/ l < k
      BY <1>1
    <3>2. QED BY <1>4, <3>1
  <2> HIDE DEF high
  <2>3. f \in Injection(1 .. i, high)
    BY <2>1, <2>2 DEF Injection, IsInjective
  <2>4. Cardinality(1 .. i) <= Cardinality(high)
    BY <1>5, <2>3, FS_Injection
  <2>5. Cardinality(1 .. i) = i
    BY <1>1, FS_Interval
  <2>6. QED BY <2>4, <2>5
<1>7. IsFiniteSet(before) /\ Cardinality(before) <= i - 1
  <2> DEFINE f == [k \in 1 .. i - 1 |-> p[k]]
  <2>1. f \in Surjection(1 .. i - 1, before)
    BY DEF Surjection
  <2>2. IsFiniteSet(1 .. i - 1) /\ Cardinality(1 .. i - 1) = i - 1
    <3> DEFINE j == i - 1
    <3>1. j \in Nat
      BY <1>1
    <3> HIDE DEF j
    <3>2. IsFiniteSet(1 .. j) /\ Cardinality(1 .. j) = j
      BY <3>1, FS_Interval
    <3>3. QED BY <3>2 DEF j
  <2> HIDE DEF f, before
  <2>3. QED BY <2>1, <2>2, FS_Surjection
<1>8. SUFFICES ASSUME ~ (score[p[i]] >= score[o[i]]) PROVE FALSE
  OBVIOUS
<1>9. high \in SUBSET before
  <2> SUFFICES ASSUME NEW r \in high PROVE r \in before
    OBVIOUS
  <2>1. PICK k \in 1 .. n : p[k] = r
    BY OrderHasAll
  <2>2. k < i
    <3> SUFFICES ASSUME i <= k PROVE FALSE
      BY <1>1
    <3>1. score[p[i]] >= score[p[k]]
      BY <1>1, <1>3, <1>4
    <3>2. score[p[k]] >= score[o[i]]
      BY <2>1
    <3>3. QED BY <1>3, <1>8, <3>1, <3>2
  <2>3. k \in 1 .. i - 1
    BY <1>1, <2>2
  <2>4. QED BY <2>1, <2>3
<1>10. Cardinality(high) <= Cardinality(before)
  <2> HIDE DEF high, before
  <2> QED BY <1>7, <1>9, FS_Subset
<1>11. Cardinality(high) \in Nat /\ Cardinality(before) \in Nat
  BY <1>5, <1>7, FS_CardinalityType
<1> HIDE DEF high, before
<1>12. QED BY <1>1, <1>6, <1>7, <1>10, <1>11

\* Two orders of a set have the same score at every place.
LEMMA OrdersAgree ==
    ASSUME NEW rows, IsFiniteSet(rows), NEW score, \A r \in rows : score[r] \in Int,
           NEW o \in Ranked(rows, score), NEW p \in Ranked(rows, score),
           NEW i \in 1 .. Cardinality(rows)
    PROVE  score[p[i]] = score[o[i]]
<1>1. score[p[i]] >= score[o[i]] /\ score[o[i]] >= score[p[i]]
  BY NoLowerThere
<1>2. p[i] \in rows /\ o[i] \in rows
  BY DEF Ranked
<1>3. QED BY <1>1, <1>2

Scores(metric) == [r \in Rows |-> Score(metric, r)]

\* What a client that saw no table change has got so far: as many of the asked
\* rows as it has places, with the scores any order has there.
Follows(w, rows, score) ==
    /\ w.seen \in Seq(rows)
    /\ Len(w.seen) <= Cardinality(rows)
    /\ \A o \in Ranked(rows, score) : \A i \in 1 .. Len(w.seen) : score[w.seen[i]] = score[o[i]]
    /\ w.pc = "done" => Len(w.seen) = Cardinality(rows) /\ Ranked(rows, score) # {}

FiniteSetsOfRows == {S \in SUBSET Nat : IsFiniteSet(S)}
Walks == [pc : {"page", "count", "done"}, ranking : Rankings, metric : Metrics,
          type : Types \cup {NoType}, listed : FiniteSetsOfRows, seen : Seq(Nat), moved : BOOLEAN]

\* The pools of a popular series are of any type and those there are.
Listing(w, rows) ==
    /\ w.ranking = "popular" => w.type = NoType
    /\ w.pc = "count" => w.ranking = "popular" /\ w.listed = rows

WalkInv ==
    /\ IsFiniteSet(members) /\ IsFiniteSet(contributions)
    /\ walk \in [pc : {"none"}, moved : BOOLEAN] \cup Walks
    /\ walk.pc # "none" /\ ~walk.moved =>
          /\ Listing(walk, Rows)
          /\ Follows(walk, Matching(walk.type), Scores(walk.metric))

LEMMA InitWalkInv == InsightsInit => WalkInv
BY FS_EmptySet DEF InsightsInit, WalkInv, NoWalk

LEMMA ScoresAreNumbers ==
    ASSUME IInv, WalkInv, NEW metric, NEW type
    PROVE  /\ IsFiniteSet(Matching(type)) /\ Matching(type) \subseteq Rows
           /\ Rows \subseteq Nat
           /\ \A r \in Rows : Score(metric, r) \in Int /\ Scores(metric)[r] \in Int
<1>1. Len(pools) \in Nat /\ Rows = 1 .. Len(pools)
  BY RowsFacts DEF IInv
<1>2. IsFiniteSet(Rows)
  BY <1>1, FS_Interval
<1>3. Matching(type) \in SUBSET Rows
  BY DEF Matching
<1>4. IsFiniteSet(Matching(type))
  BY <1>2, <1>3, FS_Subset
<1>5. ASSUME NEW r \in Rows PROVE Score(metric, r) \in Int
  <2> DEFINE M == {m \in members : m[1] = r}
             C == {c \in contributions : c[1] = r}
  <2>1. M \in SUBSET members /\ C \in SUBSET contributions
    OBVIOUS
  <2>2. IsFiniteSet(M) /\ IsFiniteSet(C)
    BY <2>1, FS_Subset DEF WalkInv
  <2>3. Cardinality(M) \in Nat /\ Cardinality(C) \in Nat
    BY <2>2, FS_CardinalityType
  <2>4. QED BY <2>3 DEF Score
<1>6. QED BY <1>1, <1>3, <1>4, <1>5 DEF Scores

LEMMA OrdersAreRanked ==
    ASSUME NEW metric, NEW rows \in SUBSET Rows
    PROVE  Orders(rows, metric) \subseteq Ranked(rows, Scores(metric))
<1> SUFFICES ASSUME NEW o \in Orders(rows, metric) PROVE o \in Ranked(rows, Scores(metric))
  OBVIOUS
<1>1. o \in [1 .. Cardinality(rows) -> rows]
  BY DEF Orders
<1>2. ASSUME NEW i \in DOMAIN o, NEW j \in DOMAIN o, i < j
      PROVE  o[i] # o[j] /\ Scores(metric)[o[i]] >= Scores(metric)[o[j]]
  <2>1. o[i] # o[j] /\ Score(metric, o[i]) >= Score(metric, o[j])
    BY <1>2 DEF Orders
  <2>2. o[i] \in Rows /\ o[j] \in Rows
    BY <1>1, <1>2
  <2>3. QED BY <2>1, <2>2 DEF Scores
<1>3. QED BY <1>1, <1>2 DEF Ranked

\* Nothing is said of a client whose tables changed.
LEMMA MovedStays ==
    ASSUME WalkInv, IsFiniteSet(members'), IsFiniteSet(contributions'),
           walk' = [walk EXCEPT !.moved = TRUE]
    PROVE  WalkInv'
<1>1. walk'.moved
  BY DEF WalkInv, Walks
<1>2. walk' \in [pc : {"none"}, moved : BOOLEAN] \cup Walks
  <2>1. CASE walk \in [pc : {"none"}, moved : BOOLEAN]
    BY <2>1
  <2>2. CASE walk \in Walks
    BY <2>2 DEF Walks
  <2>3. QED BY <2>1, <2>2 DEF WalkInv
<1>3. QED BY <1>1, <1>2 DEF WalkInv

\* The tables are what a client goes by.
LEMMA TablesStay ==
    ASSUME UNCHANGED Tables, NEW metric, NEW type
    PROVE  /\ Rows' = Rows
           /\ Matching(type)' = Matching(type)
           /\ Scores(metric)' = Scores(metric)
<1> DEFINE types == [r \in Rows |-> pools[r].equbType]
<1>1. types' = types /\ UNCHANGED <<members, contributions>>
  BY DEF Tables
<1>2. Rows' = Rows
  <2>1. DOMAIN types = Rows /\ DOMAIN types' = Rows'
    OBVIOUS
  <2>2. QED BY <1>1, <2>1
<1>3. \A r \in Rows : pools'[r].equbType = pools[r].equbType
  BY <1>1, <1>2
<1>4. QED BY <1>1, <1>2, <1>3 DEF Matching, Scores, Score

\* A step of a client over tables that stay.
LEMMA WalkGoesOn ==
    ASSUME WalkInv, UNCHANGED Tables, walk' \in [pc : {"none"}, moved : BOOLEAN] \cup Walks,
           walk'.pc # "none" /\ ~walk'.moved =>
              /\ Listing(walk', Rows)
              /\ Follows(walk', Matching(walk'.type), Scores(walk'.metric))
    PROVE  WalkInv'
<1>1. PICK w : w = walk'
  OBVIOUS
<1>2. UNCHANGED <<members, contributions>>
  BY DEF Tables
<1>3. /\ Rows' = Rows
      /\ Matching(w.type)' = Matching(w.type)
      /\ Scores(w.metric)' = Scores(w.metric)
  BY TablesStay
<1>4. Matching(walk.type)' = Matching(w.type)
  BY <1>1, <1>3 DEF Matching
<1>5. Scores(walk.metric)' = Scores(w.metric)
  BY <1>1, <1>3 DEF Scores
<1>6. QED BY <1>1, <1>2, <1>3, <1>4, <1>5 DEF WalkInv

LEMMA LesserFacts ==
    ASSUME NEW a \in Int, NEW b \in Int
    PROVE  Lesser(a, b) \in {a, b} /\ Lesser(a, b) <= a /\ Lesser(a, b) <= b
BY DEF Lesser

\* The page of an order that comes after what a client has got.
LEMMA PageFacts ==
    ASSUME NEW rows, NEW n \in Nat, NEW order \in [1 .. n -> rows],
           NEW seen \in Seq(rows), Len(seen) <= n
    PROVE  LET page == Page(order, Len(seen))
               all == seen \o page
           IN  /\ page \in Seq(rows) /\ all \in Seq(rows)
               /\ Len(page) = Lesser(Len(seen) + Limit, n) - Len(seen)
               /\ Len(all) = Lesser(Len(seen) + Limit, n)
               /\ \A i \in 1 .. Len(all) :
                     all[i] = IF i <= Len(seen) THEN seen[i] ELSE order[i]
<1> DEFINE start == Len(seen)
           end == Lesser(start + Limit, n)
           page == Page(order, start)
           all == seen \o page
<1>1. start \in Nat /\ start <= n /\ Limit \in Nat
  BY InsightsAssumption
<1>2. end \in Nat /\ start <= end /\ end <= n
  <2>1. start + Limit \in Int /\ n \in Int /\ start <= start + Limit
    BY <1>1
  <2>2. end \in {start + Limit, n} /\ end <= n
    BY <2>1, LesserFacts
  <2> HIDE DEF end, start
  <2>3. QED BY <1>1, <2>1, <2>2
<1>3. order \in Seq(rows) /\ Len(order) = n
  OBVIOUS
<1>4. page = SubSeq(order, start + 1, end)
  BY <1>3 DEF Page
<1> HIDE DEF start, end
<1>5. page \in Seq(rows) /\ Len(page) = end - start
  <2>1. SubSeq(order, start + 1, end) = [k \in 1 .. end - start |-> order[start + k]]
    BY <1>1, <1>2, <1>3
  <2>2. page = [k \in 1 .. end - start |-> order[start + k]]
    BY <1>4, <2>1
  <2>3. \A k \in 1 .. end - start : order[start + k] \in rows
    BY <1>1, <1>2
  <2>4. end - start \in Nat
    BY <1>1, <1>2
  <2> HIDE DEF page
  <2>5. page \in [1 .. end - start -> rows]
    BY <2>2, <2>3
  <2>6. QED BY <2>4, <2>5
<1>6. \A k \in 1 .. end - start : page[k] = order[start + k]
  BY <1>1, <1>2, <1>3, <1>4
<1> HIDE DEF page
<1>7. all \in Seq(rows) /\ Len(all) = end
  BY <1>1, <1>2, <1>5 DEF start
<1>8. ASSUME NEW i \in 1 .. end
      PROVE  all[i] = IF i <= start THEN seen[i] ELSE order[i]
  <2>1. CASE i <= start
    BY <1>1, <1>2, <1>5, <2>1 DEF start
  <2>2. CASE i > start
    <3>1. all[i] = page[i - start]
      BY <1>1, <1>2, <1>5, <2>2 DEF start
    <3>2. i - start \in 1 .. end - start /\ start + (i - start) = i
      BY <1>1, <1>2, <2>2
    <3>3. QED BY <1>1, <1>6, <2>2, <3>1, <3>2
  <2> HIDE DEF all
  <2>3. i <= start \/ i > start
    BY <1>1, <1>2
  <2>4. QED BY <2>1, <2>2, <2>3
<1> HIDE DEF all
<1>9. QED BY <1>5, <1>7, <1>8 DEF page, all, start, end

\* A client that got the next page follows the rows as before.
LEMMA GotFollows ==
    ASSUME walk \in Walks, NEW rows, IsFiniteSet(rows), NEW score,
           \A r \in rows : score[r] \in Int,
           Follows(walk, rows, score), NEW order \in Ranked(rows, score)
    PROVE  Follows(Got(order), rows, score)
<1> DEFINE n == Cardinality(rows)
           seen == walk.seen
           page == Page(order, Len(seen))
           all == seen \o page
           got == Got(order)
<1>1. n \in Nat /\ order \in [1 .. n -> rows] /\ Len(order) = n
  BY FS_CardinalityType DEF Ranked
<1>2. seen \in Seq(rows) /\ Len(seen) <= n /\ Len(seen) \in Nat
  BY DEF Follows
<1> HIDE DEF n, seen
<1>3. /\ all \in Seq(rows)
      /\ Len(page) = Lesser(Len(seen) + Limit, n) - Len(seen)
      /\ Len(all) = Lesser(Len(seen) + Limit, n)
      /\ \A i \in 1 .. Len(all) : all[i] = IF i <= Len(seen) THEN seen[i] ELSE order[i]
  BY <1>1, <1>2, PageFacts
<1>4. /\ got.seen = all
      /\ got.pc = IF Len(page) < Limit \/ Len(all) = Len(order) THEN "done" ELSE "page"
  <2> DEFINE pc == IF Len(page) < Limit \/ Len(all) = Len(order) THEN "done" ELSE "page"
  <2>1. got = [walk EXCEPT !.seen = all, !.listed = {}, !.pc = pc]
    BY DEF Got, seen
  <2> HIDE DEF got, all, pc
  <2>2. got.seen = all /\ got.pc = pc
    BY <2>1 DEF Walks
  <2>3. QED BY <2>2 DEF pc
<1> HIDE DEF all, page
<1>5. Len(all) \in Nat /\ Len(all) <= n
  <2> DEFINE end == Lesser(Len(seen) + Limit, n)
  <2>1. Len(seen) + Limit \in Nat /\ n \in Nat
    BY <1>1, <1>2, InsightsAssumption
  <2>2. end \in {Len(seen) + Limit, n} /\ end <= n
    BY <2>1, LesserFacts
  <2> HIDE DEF end
  <2>3. end \in Nat
    BY <2>1, <2>2
  <2>4. Len(all) = end
    BY <1>3 DEF end
  <2>5. QED BY <2>2, <2>3, <2>4
<1>6. ASSUME NEW o \in Ranked(rows, score), NEW i \in 1 .. Len(all)
      PROVE  score[all[i]] = score[o[i]]
  <2>1. CASE i <= Len(seen)
    <3>1. i \in 1 .. Len(seen) /\ all[i] = seen[i]
      BY <1>2, <1>3, <1>5, <2>1
    <3>2. QED BY <3>1 DEF Follows, seen
  <2>2. CASE ~ (i <= Len(seen))
    <3>1. all[i] = order[i] /\ i \in 1 .. Cardinality(rows)
      BY <1>1, <1>3, <1>5, <2>2 DEF n
    <3>2. score[order[i]] = score[o[i]]
      BY <3>1, OrdersAgree
    <3>3. QED BY <3>1, <3>2
  <2>3. QED BY <2>1, <2>2
<1>7. ASSUME got.pc = "done" PROVE Len(all) = n
  <2>1. CASE Len(page) < Limit
    <3>1. Lesser(Len(seen) + Limit, n) # Len(seen) + Limit
      BY <1>2, <1>3, <2>1, InsightsAssumption
    <3>2. Lesser(Len(seen) + Limit, n) = n
      BY <1>1, <1>2, <3>1, InsightsAssumption, LesserFacts
    <3>3. QED BY <1>3, <3>2
  <2>2. CASE Len(all) = Len(order)
    BY <1>1, <2>2
  <2>3. QED BY <1>4, <1>7, <2>1, <2>2
<1> HIDE DEF got
<1>8. got.seen \in Seq(rows) /\ Len(got.seen) <= n
  BY <1>3, <1>4, <1>5
<1>9. \A o \in Ranked(rows, score) : \A i \in 1 .. Len(got.seen) : score[got.seen[i]] = score[o[i]]
  BY <1>4, <1>6
<1>10. got.pc = "done" => Len(got.seen) = n /\ Ranked(rows, score) # {}
  BY <1>4, <1>7
<1>11. QED BY <1>8, <1>9, <1>10 DEF Follows, got, n

\* ... and has a list of rows whatever moved.
LEMMA GotIsWalk ==
    ASSUME walk \in Walks, NEW rows \in FiniteSetsOfRows,
           NEW order \in [1 .. Cardinality(rows) -> rows]
    PROVE  Got(order) \in Walks
<1> DEFINE seen == walk.seen
           page == Page(order, Len(seen))
           all == seen \o page
           pc == IF Len(page) < Limit \/ Len(all) = Len(order) THEN "done" ELSE "page"
           got == Got(order)
<1>1. got = [walk EXCEPT !.seen = all, !.listed = {}, !.pc = pc]
  BY DEF Got
<1>2. pc \in {"page", "count", "done"}
  OBVIOUS
<1>3. page \in Seq(Nat)
  <2>1. /\ order \in Seq(Nat) /\ Len(order) \in Nat
        /\ \A k \in 1 .. Len(order) : order[k] \in Nat
    <3>1. Cardinality(rows) \in Nat /\ rows \subseteq Nat
      BY FS_CardinalityType DEF FiniteSetsOfRows
    <3>2. order \in [1 .. Cardinality(rows) -> Nat]
      BY <3>1
    <3>3. order \in Seq(Nat) /\ Len(order) = Cardinality(rows)
      BY <3>1, <3>2
    <3>4. QED BY <3>1, <3>2, <3>3
  <2>2. Len(seen) \in Nat /\ Limit \in Nat
    BY InsightsAssumption DEF Walks
  <2> DEFINE start == Len(seen)
             end == Lesser(start + Limit, Len(order))
  <2>3. end \in Nat /\ end <= Len(order)
    <3>1. start + Limit \in Nat
      BY <2>2
    <3> HIDE DEF start
    <3>2. QED BY <2>1, <3>1, LesserFacts
  <2>4. page = SubSeq(order, start + 1, end)
    BY DEF Page
  <2> HIDE DEF start, end, page
  <2>5. start \in Nat
    BY <2>2 DEF start
  <2>6. \A k \in start + 1 .. end : order[k] \in Nat
    BY <2>1, <2>3, <2>5
  <2>7. SubSeq(order, start + 1, end) \in Seq(Nat)
    BY <2>1, <2>3, <2>5, <2>6
  <2>8. QED BY <2>4, <2>7
<1>4. all \in Seq(Nat)
  <2> HIDE DEF page
  <2>1. QED BY <1>3 DEF Walks
<1>5. {} \in FiniteSetsOfRows
  BY FS_EmptySet DEF FiniteSetsOfRows
<1> HIDE DEF got, all, pc
<1>6. got \in Walks
  BY <1>1, <1>2, <1>4, <1>5 DEF Walks
<1>7. QED BY <1>6 DEF got

\* Getting a page from an order of the rows asked for, over tables that stay.
LEMMA PageGot ==
    ASSUME IInv, WalkInv, UNCHANGED <<vars, members, contributions>>, walk \in Walks,
           NEW rows \in FiniteSetsOfRows, NEW order \in Orders(rows, walk.metric),
           ~walk.moved => rows = Matching(walk.type),
           walk' = Got(order)
    PROVE  WalkInv'
<1>1. UNCHANGED Tables
  BY DEF Tables, Rows, vars, db
<1>2. order \in [1 .. Cardinality(rows) -> rows]
  BY DEF Orders
<1>3. walk' \in Walks
  BY <1>2, GotIsWalk
<1>4. /\ walk'.metric = walk.metric /\ walk'.type = walk.type /\ walk'.moved = walk.moved
      /\ walk'.ranking = walk.ranking /\ walk'.pc \in {"page", "done"}
  BY DEF Got, Walks
<1>5. ASSUME ~walk.moved
      PROVE  /\ Listing(walk', Rows)
             /\ Follows(walk', Matching(walk'.type), Scores(walk'.metric))
  <2> DEFINE asked == Matching(walk.type)
             score == Scores(walk.metric)
  <2>1. walk.pc # "none"
    BY DEF Walks
  <2>2. Listing(walk, Rows) /\ Follows(walk, asked, score)
    BY <1>5, <2>1 DEF WalkInv
  <2>3. Listing(walk', Rows)
    BY <1>4, <2>2 DEF Listing
  <2>4. /\ IsFiniteSet(asked) /\ asked \in SUBSET Rows
        /\ \A r \in asked : score[r] \in Int
    BY ScoresAreNumbers
  <2>5. order \in Ranked(asked, score)
    BY <1>5, <2>4, OrdersAreRanked
  <2> HIDE DEF asked, score
  <2>6. Follows(Got(order), asked, score)
    BY <2>2, <2>4, <2>5, GotFollows
  <2>7. QED BY <1>4, <2>3, <2>6 DEF asked, score
<1>6. QED BY <1>1, <1>3, <1>4, <1>5, WalkGoesOn

LEMMA NextWalkInv == IInv /\ WalkInv /\ [InsightsNext]_insightsVars => WalkInv'
<1> SUFFICES ASSUME IInv, WalkInv, [InsightsNext]_insightsVars PROVE WalkInv'
  OBVIOUS
<1>1. CASE BookNext
  <2>1. UNCHANGED <<members, contributions>>
    BY <1>1 DEF BookNext
  <2>2. CASE Tables' = Tables
    <3>1. walk' = walk
      BY <1>1, <2>2 DEF BookNext
    <3>2. QED BY <2>2, <3>1, WalkGoesOn DEF WalkInv
  <2>3. CASE Tables' # Tables
    <3>1. walk' = [walk EXCEPT !.moved = TRUE]
      BY <1>1, <2>3 DEF BookNext
    <3>2. QED BY <2>1, <3>1, MovedStays DEF WalkInv
  <2>4. QED BY <2>2, <2>3
<1>2. CASE JoinPool
  <2>1. PICK m : members' = members \cup {m}
    BY <1>2 DEF JoinPool
  <2>2. IsFiniteSet(members') /\ IsFiniteSet(contributions')
    BY <1>2, <2>1, FS_AddElement DEF WalkInv, JoinPool
  <2>3. QED BY <1>2, <2>2, MovedStays DEF JoinPool
<1>3. CASE RecordContribution
  <2>1. PICK m : members' = members \cup {m} /\ contributions' = contributions \cup {m}
    BY <1>3 DEF RecordContribution
  <2>2. IsFiniteSet(members') /\ IsFiniteSet(contributions')
    BY <2>1, FS_AddElement DEF WalkInv
  <2>3. QED BY <1>3, <2>2, MovedStays DEF RecordContribution
<1>4. CASE Rank
  <2>1. PICK metric \in Metrics, ranking \in Rankings, type \in Types \cup {NoType} :
           /\ walk' = Asked(ranking, metric, type)
           /\ ranking = "popular" => type = NoType
    BY <1>4 DEF Rank, Rankings
  <2>2. UNCHANGED Tables
    BY <1>4 DEF Rank, Tables, Rows, db
  <2>3. {} \in FiniteSetsOfRows
    BY FS_EmptySet DEF FiniteSetsOfRows
  <2>4. walk' \in Walks
    BY <2>1, <2>3 DEF Walks, Asked
  <2>5. Listing(walk', Rows)
    BY <2>1 DEF Listing, Asked
  <2>6. Cardinality(Matching(type)) \in Nat
    BY ScoresAreNumbers, FS_CardinalityType
  <2>7. Follows(walk', Matching(walk'.type), Scores(walk'.metric))
    BY <2>1, <2>6 DEF Follows, Asked
  <2>8. QED BY <2>2, <2>4, <2>5, <2>7, WalkGoesOn
<1>5. CASE ListPools
  <2>1. walk \in Walks /\ walk.pc = "page" /\ walk.ranking = "popular"
    BY <1>5 DEF ListPools, WalkInv
  <2>2. UNCHANGED Tables
    BY <1>5 DEF ListPools, Tables, Rows, vars, db
  <2>3. Rows \in FiniteSetsOfRows
    <3>1. Len(pools) \in Nat /\ Rows = 1 .. Len(pools)
      BY RowsFacts DEF IInv
    <3>2. QED BY <3>1, FS_Interval DEF FiniteSetsOfRows
  <2>4. walk' = [walk EXCEPT !.pc = "count", !.listed = Rows]
    BY <1>5 DEF ListPools
  <2>5. walk' \in Walks
    BY <2>1, <2>3, <2>4 DEF Walks
  <2>6. /\ walk'.pc = "count" /\ walk'.listed = Rows /\ walk'.seen = walk.seen
        /\ walk'.metric = walk.metric /\ walk'.type = walk.type /\ walk'.moved = walk.moved
        /\ walk'.ranking = walk.ranking
    BY <2>1, <2>4 DEF Walks
  <2>7. ASSUME ~walk'.moved
        PROVE  /\ Listing(walk', Rows)
               /\ Follows(walk', Matching(walk'.type), Scores(walk'.metric))
    <3>1. Listing(walk, Rows) /\ Follows(walk, Matching(walk.type), Scores(walk.metric))
      BY <2>1, <2>6, <2>7 DEF WalkInv
    <3>2. Follows(walk', Matching(walk.type), Scores(walk.metric))
      BY <2>6, <3>1 DEF Follows
    <3>3. QED BY <2>1, <2>6, <3>1, <3>2 DEF Listing
  <2>8. QED BY <2>2, <2>5, <2>7, WalkGoesOn
<1>6. CASE GetPopularSeries
  <2>1. walk \in Walks /\ walk.pc = "count"
    BY <1>6 DEF GetPopularSeries, WalkInv
  <2>2. PICK order \in Orders(walk.listed, walk.metric) : walk' = Got(order)
    BY <1>6 DEF GetPopularSeries
  <2>3. walk.listed \in FiniteSetsOfRows
    BY <2>1 DEF Walks
  <2>4. ~walk.moved => walk.listed = Matching(walk.type)
    BY <2>1 DEF WalkInv, Listing, Matching
  <2>5. QED BY <1>6, <2>1, <2>2, <2>3, <2>4, PageGot DEF GetPopularSeries
<1>7. CASE GetLeaderboard
  <2>1. walk \in Walks
    BY <1>7 DEF GetLeaderboard, WalkInv
  <2>2. PICK order \in Orders(Matching(walk.type), walk.metric) : walk' = Got(order)
    BY <1>7 DEF GetLeaderboard
  <2>3. Matching(walk.type) \in FiniteSetsOfRows
    BY ScoresAreNumbers DEF FiniteSetsOfRows
  <2>4. QED BY <1>7, <2>1, <2>2, <2>3, PageGot DEF GetLeaderboard
<1>8. CASE UNCHANGED insightsVars
  <2>1. UNCHANGED Tables /\ walk' = walk
    BY <1>8 DEF insightsVars, Tables, Rows, vars, db
  <2>2. QED BY <2>1, WalkGoesOn DEF WalkInv
<1>9. QED BY <1>1, <1>2, <1>3, <1>4, <1>5, <1>6, <1>7, <1>8 DEF InsightsNext

\* The rows go on as without the rankings.
LEMMA NextInsightsIInv == IInv /\ [InsightsNext]_insightsVars => IInv'
<1> SUFFICES ASSUME IInv, [InsightsNext]_insightsVars PROVE IInv'
  OBVIOUS
<1>1. CASE BookNext
  BY <1>1, NextIInv DEF BookNext
<1>2. CASE JoinPool \/ RecordContribution \/ Rank
  BY <1>2, ChainSteps DEF JoinPool, RecordContribution, Rank, db
<1>3. CASE ListPools \/ GetPopularSeries \/ GetLeaderboard \/ UNCHANGED insightsVars
  BY <1>3, ChainSteps DEF ListPools, GetPopularSeries, GetLeaderboard, insightsVars, vars, db
<1>4. QED BY <1>1, <1>2, <1>3 DEF InsightsNext

\* Where nobody else has the score of a row, the row is seen at its one place.
LEMMA WalkExplained == IInv /\ WalkInv => PagesExplained
<1> SUFFICES ASSUME IInv, WalkInv, walk.pc = "done", ~walk.moved PROVE PagesExplained
  BY DEF PagesExplained
<1> DEFINE asked == Matching(walk.type)
           score == Scores(walk.metric)
           seen == walk.seen
           n == Cardinality(asked)
<1>1. Follows(walk, asked, score)
  BY DEF WalkInv
<1>2. /\ IsFiniteSet(asked) /\ asked \subseteq Rows
      /\ \A r \in Rows : score[r] = Score(walk.metric, r)
      /\ \A r \in asked : score[r] \in Int
  BY ScoresAreNumbers DEF Scores
<1> HIDE DEF asked, score, seen
<1>3. /\ seen \in Seq(asked) /\ Len(seen) = n /\ n \in Nat
      /\ \A o \in Ranked(asked, score) : \A i \in 1 .. n : score[seen[i]] = score[o[i]]
  BY <1>1, <1>2, FS_CardinalityType DEF Follows, seen
<1>4. PICK o : o \in Ranked(asked, score)
  BY <1>1 DEF Follows
<1>5. /\ o \in [1 .. n -> asked]
      /\ \A i, j \in 1 .. n : i < j => o[i] # o[j] /\ score[o[i]] >= score[o[j]]
  BY <1>4 DEF Ranked
<1>6. \A i \in 1 .. n : seen[i] \in asked /\ score[seen[i]] = score[o[i]]
  BY <1>3, <1>4
<1>7. \A i, j \in DOMAIN seen : i < j =>
          Score(walk.metric, seen[i]) >= Score(walk.metric, seen[j])
  <2> SUFFICES ASSUME NEW i \in 1 .. n, NEW j \in 1 .. n, i < j
               PROVE  Score(walk.metric, seen[i]) >= Score(walk.metric, seen[j])
    BY <1>3
  <2>1. score[seen[i]] >= score[seen[j]]
    BY <1>5, <1>6
  <2>2. seen[i] \in Rows /\ seen[j] \in Rows
    BY <1>2, <1>6
  <2>3. QED BY <1>2, <2>1, <2>2
<1>8. ASSUME NEW r \in asked,
             \A other \in asked \ {r} : Score(walk.metric, other) # Score(walk.metric, r)
      PROVE  Cardinality({i \in DOMAIN seen : seen[i] = r}) = 1
  <2>1. PICK k \in 1 .. n : o[k] = r
    BY <1>2, <1>4, OrderHasAll
  <2>2. \A other \in asked : score[other] = score[r] => other = r
    BY <1>2, <1>8
  <2>3. seen[k] = r
    BY <1>6, <2>1, <2>2
  <2>4. ASSUME NEW i \in 1 .. n, seen[i] = r PROVE i = k
    <3>1. o[i] = r
      <4>1. score[o[i]] = score[r] /\ o[i] \in asked
        BY <1>5, <1>6, <2>4
      <4>2. QED BY <2>2, <4>1
    <3>2. ~ (i < k) /\ ~ (k < i)
      BY <1>5, <2>1, <3>1
    <3>3. QED BY <1>3, <3>2
  <2>5. {i \in DOMAIN seen : seen[i] = r} = {k}
    <3>1. DOMAIN seen = 1 .. n
      BY <1>3
    <3>2. QED BY <2>3, <2>4, <3>1
  <2>6. QED BY <2>5, FS_Singleton
<1>9. QED BY <1>3, <1>7, <1>8 DEF PagesExplained, asked, seen

-----------------------------------------------------------------------------
(* The theorems *)

\* A pool of the chain has two rows only if the writer of the later one looked
\* before the earlier one was there (createPoolFromCreationTx, handlePoolCreated).
THEOREM RowsAreExplained == Spec => []RowsExplained
<1>1. IInv => RowsExplained
  BY DEF IInv
<1> QED BY <1>1, InitIInv, NextIInv, PTL DEF Spec

\* The type RulesService copies into the pool row is the one of the rules row
\* unless two requests wrote the row at a time, getPool saved an old copy of it
\* over a new one, or one of the two saves failed or was cut off by a restart.
THEOREM RulesStayInStep == Spec => []RulesAgree
<1>1. RulesInv => RulesAgree
  BY RulesInvAgrees
<1>2. QED BY <1>1, InitIInv, NextIInv, InitRulesInv, NextRulesInv, PTL DEF Spec

\* What buildCreatePool, buildContribute, buildCloseRound and buildSelectWinner
\* give a wallet to sign is accepted by the contract for as long as the state
\* they read has not changed: the creator a row names is the one of the pool,
\* whoever wrote the row, and a winner that was read stays the winner.
THEOREM BuiltTransactionsAreAccepted == Spec => []BuiltTransactionsFit
<1>1. TxInv => BuiltTransactionsFit
  BY TxInvFits
<1>2. QED BY <1>1, InitIInv, NextIInv, InitTxInv, NextTxInv, PTL DEF Spec

\* getPopularSeries and getLeaderboard: a client that pages to the end while no
\* table changes gets the pools from the highest score to the lowest, and every
\* pool whose score no other has exactly once, though the queries break no ties
\* and ask anew for every page; for any number of pools and any page size.
THEOREM PagesAreExplained == InsightsSpec => []PagesExplained
<1>1. InsightsInit => IInv
  BY InitIInv DEF InsightsInit
<1>2. QED
  BY <1>1, NextInsightsIInv, InitWalkInv, NextWalkInv, WalkExplained, PTL DEF InsightsSpec
=============================================================================
