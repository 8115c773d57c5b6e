------------------------------- MODULE Tokens -------------------------------
(***************************************************************************)
(* TokenService and SwapService over the market: quotes made of two reads, *)
(* swaps signed on such a quote and mined later, and transaction histories *)
(* taken from an explorer or scanned chunk by chunk, while the chain goes  *)
(* on.                                                                     *)
(***************************************************************************)
EXTENDS SwapRouter, FiniteSets, FiniteSetsExt

CONSTANTS
    Requests,   \* requests in flight
    None,       \* no request
    Amounts,    \* amounts of transactions
    Lookback,   \* TX_HISTORY_LOOKBACK_BLOCKS
    Chunk,      \* blocks of a query (10 000)
    Limit,      \* entries asked for
    Wealth,     \* coins of a user to begin with
    MaxCoins,   \* bound on the coins the router is sent up to
    MaxBlocks,  \* bound on the blocks
    MaxQuotes,  \* bound on the quotes
    MaxScans    \* bound on the histories

ASSUME ServiceAssumption ==
    /\ IsFiniteSet(Users) /\ IsFiniteSet(Tokens)
    /\ Amounts \subseteq Nat /\ Wealth \in Nat
    /\ Lookback \in Nat /\ Chunk \in Nat \ {0} /\ Limit \in Nat \ {0}

VARIABLES
    requests,   \* requests[r]: what request r has read
    quotes,     \* quotes answered
    signed,     \* swaps signed on a quote and not mined yet
    answers,    \* histories answered
    asked       \* asked.quotes, asked.scans: bounds

serviceVars == <<requests, quotes, signed, answers, asked>>
vars == <<routerVars, serviceVars>>

Height == Len(events)

Init ==
    /\ RouterInit
    /\ coins = [a \in Accounts |-> IF a = Router THEN 0 ELSE Wealth]
    /\ requests = [r \in Requests |-> None]
    /\ quotes = {}
    /\ signed = {}
    /\ answers = {}
    /\ asked = [quotes |-> 0, scans |-> 0]

Set(r, t) == requests' = [requests EXCEPT ![r] = t]

Doing(r, op) == requests[r] # None /\ requests[r].op = op

-----------------------------------------------------------------------------
(* Quotes *)

\* The reserves are read first: none, no quote.
ReadReserves(r, t, in, ctcToToken) ==
    /\ requests[r] = None /\ asked.quotes < MaxQuotes
    /\ Liquid(t)
    /\ Set(r, [op |-> "quote", token |-> t, in |-> in, ctcToToken |-> ctcToToken,
               reserves |-> pools[t]])
    /\ asked' = [asked EXCEPT !.quotes = @ + 1]
    /\ UNCHANGED <<routerVars, quotes, signed, answers>>

\* Mutant: the reserve of the other side divides.
IdealOfOtherSide(in, reserves, ctcToToken) ==
    IF ctcToToken THEN (in * reserves.token) \div reserves.token
    ELSE (in * reserves.ctc) \div reserves.ctc

\* The output without fee and without moving the price.
IdealOutput(in, reserves, ctcToToken) ==
    IF ctcToToken THEN (in * reserves.token) \div reserves.ctc
    ELSE (in * reserves.ctc) \div reserves.token

\* In hundredths of a percent; BigInt division cuts towards zero.
PriceImpact(ideal, out) ==
    IF ideal = 0 THEN 0
    ELSE IF out <= ideal THEN ((ideal - out) * 10000) \div ideal
    ELSE -(((out - ideal) * 10000) \div ideal)

\* The quote is a second call, answered from the chain as it is by then.
ReadQuote(r) ==
    /\ Doing(r, "quote")
    /\ LET q == requests[r]
           out == Quote(q.token, q.in, q.ctcToToken)
           ideal == IdealOutput(q.in, q.reserves, q.ctcToToken)
       IN  quotes' = IF Liquid(q.token)
                     THEN quotes \cup
                          {[token |-> q.token, in |-> q.in, ctcToToken |-> q.ctcToToken,
                            out |-> out, impact |-> PriceImpact(ideal, out),
                            steady |-> pools[q.token] = q.reserves]}
                     ELSE quotes
    /\ Set(r, None)
    /\ UNCHANGED <<routerVars, signed, answers, asked>>

\* getAllowance with the amount to be swapped.
HasSufficientAllowance(t, u, required) == allowance[t][u] >= required

\* buildSwapTx and the wallet: at least minOut, which is not zero.
SignSwap(u, q, minOut) ==
    /\ minOut > 0 /\ minOut <= q.out
    /\ q.ctcToToken \/ HasSufficientAllowance(q.token, u, q.in)
    /\ signed' = signed \cup {[user |-> u, token |-> q.token, in |-> q.in,
                               ctcToToken |-> q.ctcToToken, minOut |-> minOut]}
    /\ quotes' = quotes \ {q}
    /\ UNCHANGED <<routerVars, requests, answers, asked>>

MineSwap(s) ==
    /\ IF s.ctcToToken THEN SwapCTCForToken(s.token, s.user, s.in, s.minOut)
       ELSE SwapTokenForCTC(s.token, s.user, s.in, s.minOut)
    /\ signed' = signed \ {s}
    /\ UNCHANGED <<requests, quotes, answers, asked>>

-----------------------------------------------------------------------------
(* Histories *)

Lesser(x, y) == IF x < y THEN x ELSE y
Greater(x, y) == IF x > y THEN x ELSE y

\* The blocks that hold a transfer of t by u, and to u.
Sent(t, u, blocks) == {b \in blocks : events[b].token = t /\ events[b].from = u}
Received(t, u, blocks) == {b \in blocks : events[b].token = t /\ events[b].to = u}

\* The newest n blocks of a set.
Newest(blocks, n) ==
    {b \in blocks : Cardinality({c \in blocks : c > b}) < n}

\* eth tokentx and txlist of the explorer: what it has of u, newest first.
TokenTransfers(u, upto) ==
    Newest({b \in 1..upto : events[b].from = u \/ events[b].to = u}, 2 * Limit)
SignedByUser(u, upto) == Newest({b \in 1..upto : events[b].from = u}, Limit)

\* Lists hold <<block, side>>.  A block whose time could not be read has time
\* null, which compares as 0; a sent entry precedes the received one of a
\* transfer to oneself.
Before(x, y, undated) ==
    LET Time(e) == IF e[1] \in undated THEN 0 ELSE e[1]
    IN  \/ Time(x) > Time(y)
        \/ Time(x) = Time(y) /\ x[1] > y[1]
        \/ x[1] = y[1] /\ x[2] = "sent" /\ y[2] = "received"

\* Mutant: ascending.
FilteredOldest(entries, undated) ==
    {x \in entries : Cardinality({y \in entries : Before(x, y, undated)}) < Limit}

\* applyTransactionFilters: sorted by time, then block, and cut.
Filtered(entries, undated) ==
    {x \in entries : Cardinality({y \in entries : Before(y, x, undated)}) < Limit}

\* One entry per transaction, those of t.
Explored(t, u, upto) ==
    {<<b, IF events[b].from = u THEN "sent" ELSE "received">> :
        b \in {c \in TokenTransfers(u, upto) \cup SignedByUser(u, upto) : events[c].token = t}}

Scan(t, u) ==
    [op |-> "scan", token |-> t, user |-> u, first |-> Greater(1, Height - Lookback),
     next |-> Greater(1, Height - Lookback), last |-> Height,
     sent |-> {}, received |-> {}, lost |-> {}]

Answered(t, u, entries, known) ==
    answers' = answers \cup {[token |-> t, user |-> u, entries |-> entries, known |-> known]}

\* The explorer's answer if there is any entry in it, else the scan; the
\* explorer may be down or behind.
GetTransactions(r, t, u) ==
    /\ requests[r] = None /\ asked.scans < MaxScans
    /\ asked' = [asked EXCEPT !.scans = @ + 1]
    /\ \/ \E upto \in 1..Height :
              /\ Explored(t, u, upto) # {}
              /\ Answered(t, u, Filtered(Explored(t, u, upto), {}), {})
              /\ UNCHANGED requests
       \/ Set(r, Scan(t, u)) /\ UNCHANGED answers
    /\ UNCHANGED <<routerVars, quotes, signed>>

\* What queries of the given blocks add to the lists.
Queried(s, blocks) ==
    [s EXCEPT !.sent = @ \cup Sent(s.token, s.user, blocks),
              !.received = @ \cup Received(s.token, s.user, blocks)]

ChunkEnd(s) == Lesser(s.next + Chunk - 1, s.last)

\* The two halves of a chunk; the second is empty when the chunk is a block.
Halves(s) ==
    LET mid == s.next + (ChunkEnd(s) - s.next) \div 2
    IN  <<s.next..mid, (mid + 1)..ChunkEnd(s)>>

\* A chunk is queried up to three times; when all fail, its halves are, once,
\* and a half that fails is logged and left out.
ScanChunk(r) ==
    /\ Doing(r, "scan") /\ requests[r].next <= requests[r].last
    /\ LET s == requests[r]
           chunk == s.next..ChunkEnd(s)
           on == [s EXCEPT !.next = ChunkEnd(s) + 1]
       IN  \/ Set(r, Queried(on, chunk))
           \/ \E failed \in SUBSET {1, 2} :
                  LET lost == UNION {Halves(s)[i] : i \in failed}
                  IN  Set(r, [Queried(on, chunk \ lost) EXCEPT !.lost = @ \cup lost])
    /\ UNCHANGED <<routerVars, quotes, signed, answers, asked>>

\* The time of every block listed is asked for; a failure is ignored.
Answer(r) ==
    /\ Doing(r, "scan") /\ requests[r].next > requests[r].last
    /\ LET s == requests[r]
           entries == {<<b, "sent">> : b \in s.sent}
                      \cup {<<b, "received">> : b \in s.received}
       IN  \E undated \in SUBSET {x[1] : x \in entries} :
               Answered(s.token, s.user, Filtered(entries, undated),
                        (s.first..s.last) \ (s.lost \cup undated))
    /\ Set(r, None)
    /\ UNCHANGED <<routerVars, quotes, signed, asked>>

-----------------------------------------------------------------------------
\* Transactions of the users that need no quote.
Transact(t, u, n) ==
    /\ Height < MaxBlocks
    /\ \/ \E x \in Accounts : /\ Mint(t, x, n) \/ Transfer(t, u, x, n)
                             /\ UNCHANGED <<marketVars, coins>>
       \/ Approve(t, u, n) /\ UNCHANGED <<marketVars, coins>>
       \/ coins[Router] + n <= MaxCoins /\ Receive(u, n)
       \/ AddLiquidity(t, u, n)
       \/ RemoveLiquidity(t, u, n)
       \/ SwapCTCForToken(t, u, n, 0)
       \/ SwapTokenForCTC(t, u, n, 0)
    /\ UNCHANGED serviceVars

Serve(r) ==
    \/ \E t \in Tokens, in \in Amounts, way \in BOOLEAN : ReadReserves(r, t, in, way)
    \/ ReadQuote(r)
    \/ \E t \in Tokens, u \in Users : GetTransactions(r, t, u)
    \/ ScanChunk(r)
    \/ Answer(r)

Next ==
    \/ \E t \in Tokens, u \in Users, n \in Amounts : Transact(t, u, n)
    \/ \E r \in Requests : Serve(r)
    \/ \E u \in Users, q \in quotes : \E minOut \in {1, q.out} : SignSwap(u, q, minOut)
    \/ Height < MaxBlocks /\ \E s \in signed : MineSwap(s)

Spec == Init /\ [][Next]_vars

-----------------------------------------------------------------------------
(* Properties *)

SharesOf(t) == MapThenSumSet(LAMBDA u : shares[t][u], Users)

\* The router can always pay what its pools say it has, also when it was sent
\* more, the shares of a pool are those of its providers, and both sides of a
\* pool are there or none is.
MarketBacked ==
    /\ pools \in [Tokens -> Pool]
    /\ ReservesAgree
    /\ \A t \in Tokens : balanceOf[t][Router] >= pools[t].token /\ SharesOf(t) = pools[t].total
    /\ coins[Router] >= MapThenSumSet(LAMBDA t : pools[t].ctc, Tokens)

\* No transaction of anybody takes value from the providers: a swap never
\* lowers the product of the reserves, and adding or removing liquidity never
\* lowers what a share is worth in coins.
ProvidersKeepValue ==
    [][\A t \in Tokens : pools[t].total > 0 /\ pools'[t].total > 0 =>
          IF pools'[t].total = pools[t].total /\ shares' = shares
          THEN pools'[t].ctc * pools'[t].token >= pools[t].ctc * pools[t].token
          ELSE pools'[t].ctc * pools[t].total >= pools[t].ctc * pools'[t].total]_marketVars

\* All of it, in hundredths of a percent.
Portions == 0 .. 10000

\* Between two reads of an unchanged pool a quote promises no more than the
\* ideal output, and its price impact is a share of it; an impact below zero
\* says that the pool moved between the reads of getQuote.
QuoteExplained ==
    \A q \in quotes : q.impact \notin Portions => ~q.steady

\* A history leaves out a transfer that is newer than one it lists only when
\* its half-chunk failed or the time of its block could not be read: the
\* chunks, the two sides and the cut agree on what is newest.
NewestListed ==
    \A a \in answers : \A x \in a.entries :
        /\ x[1] \in Sent(a.token, a.user, 1..Height) \cup Received(a.token, a.user, 1..Height)
        /\ \A b \in a.known :
              b > x[1] /\ events[b].token = a.token /\ a.user \in {events[b].from, events[b].to}
              => \E y \in a.entries : y[1] = b
\* The market and its tokens as their users see them.
Promise == INSTANCE Exchange WITH
    pool <- pools,
    stake <- shares,
    purse <- [u \in Users |-> coins[u]],
    wallet <- [t \in Tokens |-> [u \in Users |-> balanceOf[t][u]]]

\* Whoever adds, removes, swaps, sends or signs, on whatever quote: nobody pays
\* for the transaction of another, and the providers keep what is theirs.
ImplementsExchange == Promise!Spec
=============================================================================
