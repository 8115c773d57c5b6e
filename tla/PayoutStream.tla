---------------------------- MODULE PayoutStream ----------------------------
(***************************************************************************)
(* contracts/src/PayoutStream.sol: the payout stream of a round winner.    *)
(* A stream pays an upfront share when it is created and a fixed amount    *)
(* for each released round; a defaulting member's stream is frozen.  Every *)
(* operation but setEqubPool is reserved to the one contract registered by *)
(* setEqubPool.  A reverted transaction changes nothing, so a failing      *)
(* require is a guard.                                                     *)
(***************************************************************************)
EXTENDS Integers

CONSTANTS
    PoolIds,      \* pool identifiers
    Beneficiaries,\* beneficiary addresses
    Callers,      \* contracts the owner may register as the pool contract
    NoCaller,     \* address(0): nothing is registered yet
    Totals,       \* amounts a stream may be asked to pay
    Percents,     \* upfront percentages a caller may ask for
    RoundCounts   \* numbers of rounds a caller may ask for

ASSUME StreamAssumption ==
    /\ NoCaller \notin Callers
    /\ Totals \subseteq Nat
    /\ Percents \subseteq Nat
    /\ RoundCounts \subseteq Nat

VARIABLES
    equbPool,     \* the registered caller
    streams       \* streams[p][u]: the stream of member u of pool p

streamVars == <<equbPool, streams>>

MaxUpfrontPercent == 30

Stream == [total : Nat, upfrontPercent : 0 .. MaxUpfrontPercent,
           roundAmount : Nat, totalRounds : Nat, releasedRounds : Nat,
           released : Nat, frozen : BOOLEAN]

\* The zero value of a mapping entry that was never written.
NoStream == [total |-> 0, upfrontPercent |-> 0, roundAmount |-> 0,
             totalRounds |-> 0, releasedRounds |-> 0, released |-> 0,
             frozen |-> FALSE]

Upfront(total, percent) == (total * percent) \div 100

OpenedStream(total, percent, rounds) ==
    LET upfront == Upfront(total, percent)
    IN  [total |-> total, upfrontPercent |-> percent,
         roundAmount |-> (total - upfront) \div rounds,
         totalRounds |-> rounds, releasedRounds |-> 0,
         released |-> upfront, frozen |-> FALSE]

StreamInit ==
    /\ equbPool = NoCaller
    /\ streams = [p \in PoolIds |-> [u \in Beneficiaries |-> NoStream]]

SetEqubPool(address) ==
    /\ address # NoCaller
    /\ equbPool = NoCaller
    /\ equbPool' = address
    /\ UNCHANGED streams

\* Replaces whatever stream the beneficiary had.
CreateStream(caller, p, u, total, percent, rounds) ==
    /\ caller = equbPool
    /\ percent <= MaxUpfrontPercent
    /\ rounds > 0
    /\ streams' = [streams EXCEPT ![p][u] = OpenedStream(total, percent, rounds)]
    /\ UNCHANGED equbPool

ReleasedOnce(s) == [s EXCEPT !.released = @ + s.roundAmount,
                             !.releasedRounds = @ + 1]

\* Mutant: the count of rounds is off by one.
ReleaseRoundOnceMore(caller, p, u) ==
    LET s == streams[p][u]
    IN  /\ caller = equbPool
        /\ ~s.frozen
        /\ s.releasedRounds <= s.totalRounds
        /\ s.released + s.roundAmount <= s.total
        /\ streams' = [streams EXCEPT ![p][u] = ReleasedOnce(s)]
        /\ UNCHANGED equbPool

\* Mutant: a frozen stream is released like another.
ReleaseRoundFrozen(caller, p, u) ==
    LET s == streams[p][u]
    IN  /\ caller = equbPool
        /\ s.releasedRounds < s.totalRounds
        /\ s.released + s.roundAmount <= s.total
        /\ streams' = [streams EXCEPT ![p][u] = ReleasedOnce(s)]
        /\ UNCHANGED equbPool

ReleaseRound(caller, p, u) ==
    LET s == streams[p][u]
    IN  /\ caller = equbPool
        /\ ~s.frozen
        /\ s.releasedRounds < s.totalRounds
        /\ s.released + s.roundAmount <= s.total
        /\ streams' = [streams EXCEPT ![p][u] = ReleasedOnce(s)]
        /\ UNCHANGED equbPool

FrozenStream(s) == [s EXCEPT !.frozen = TRUE]

FreezeRemaining(caller, p, u) ==
    /\ caller = equbPool
    /\ streams' = [streams EXCEPT ![p][u] = FrozenStream(@)]
    /\ UNCHANGED equbPool

StreamNext ==
    \/ \E address \in Callers : SetEqubPool(address)
    \/ \E caller \in Callers, p \in PoolIds, u \in Beneficiaries :
          \/ \E total \in Totals, percent \in Percents, rounds \in RoundCounts :
                CreateStream(caller, p, u, total, percent, rounds)
          \/ ReleaseRound(caller, p, u)
          \/ FreezeRemaining(caller, p, u)

StreamSpec == StreamInit /\ [][StreamNext]_streamVars

-----------------------------------------------------------------------------
(* Properties *)

\* Every entry of the mapping is a stream and the registered caller is known.
StreamTypeOK ==
    /\ equbPool \in Callers \cup {NoCaller}
    /\ streams \in [PoolIds -> [Beneficiaries -> Stream]]

\* What a stream has released is its upfront share and the rounds released so
\* far, whatever was created, released, frozen or replaced before.
FollowsPlan(s) ==
    /\ s.releasedRounds <= s.totalRounds
    /\ s.released = Upfront(s.total, s.upfrontPercent)
                       + s.releasedRounds * s.roundAmount

\* The rounds that are left fit in what is left: the "over release" check of
\* releaseRound never rejects a stream that still has rounds.
NeverStuck(s) ==
    s.released + (s.totalRounds - s.releasedRounds) * s.roundAmount <= s.total

\* What the rounds that are left will not release is less than one unit per
\* round: what the integer division of createStream drops.
BoundedDust(s) ==
    s.totalRounds > 0 =>
        s.total - s.released - (s.totalRounds - s.releasedRounds) * s.roundAmount
            < s.totalRounds

\* Every stream follows its payment plan, is able to complete it, and loses
\* only the rounding of its round amount (createStream and releaseRound).
StreamsPayAsPlanned ==
    \A p \in PoolIds, u \in Beneficiaries :
        /\ FollowsPlan(streams[p][u])
        /\ NeverStuck(streams[p][u])
        /\ BoundedDust(streams[p][u])

\* A frozen stream releases nothing more: it keeps its amount until a new
\* stream replaces it (freezeRemaining against releaseRound).
FrozenReleasesNothing ==
    [][\A p \in PoolIds, u \in Beneficiaries :
          streams[p][u].frozen =>
              \/ streams'[p][u] = streams[p][u]
              \/ streams'[p][u].releasedRounds = 0 /\ ~streams'[p][u].frozen]_streamVars
=============================================================================
