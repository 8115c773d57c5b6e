--------------------------- MODULE Payments_proofs --------------------------
(***************************************************************************)
(* Theorems about the code that pays: PayoutStream for any number of       *)
(* pools, beneficiaries, callers, amounts and round counts, and the swap   *)
(* market with the token and swap services (Tokens) for any number of      *)
(* accounts, tokens, requests, amounts and blocks.                         *)
(***************************************************************************)
EXTENDS PayoutStream, Tokens, FiniteSetTheorems, TLAPS

-----------------------------------------------------------------------------
(* Payout streams *)

\* The amounts createStream computes are natural numbers, the upfront share is
\* at most the total, and the round amounts fit in the rest.
LEMMA OpenedStreamFacts ==
    ASSUME NEW total \in Nat, NEW percent \in 0 .. MaxUpfrontPercent,
           NEW rounds \in Nat, rounds > 0
    PROVE  LET s == OpenedStream(total, percent, rounds)
           IN  /\ s \in Stream
               /\ FollowsPlan(s) /\ NeverStuck(s) /\ BoundedDust(s)
<1> DEFINE upfront == (total * percent) \div 100
           rest == total - upfront
           amount == rest \div rounds
<1>1. total * percent \in Nat /\ total * percent <= total * 100
  BY Z3 DEF MaxUpfrontPercent
<1>2. upfront \in Nat /\ upfront <= total
  BY <1>1, Z3
<1>3. rest \in Nat
  BY <1>2
<1>4. /\ amount \in Nat
      /\ rounds * amount <= rest
      /\ rest < rounds * amount + rounds
  BY <1>3, Z3
<1>5. OpenedStream(total, percent, rounds) =
        [total |-> total, upfrontPercent |-> percent, roundAmount |-> amount,
         totalRounds |-> rounds, releasedRounds |-> 0, released |-> upfront,
         frozen |-> FALSE]
  BY DEF OpenedStream, Upfront
<1>6. OpenedStream(total, percent, rounds) \in Stream
  BY <1>2, <1>4, <1>5 DEF Stream
<1>7. FollowsPlan(OpenedStream(total, percent, rounds))
  BY <1>2, <1>4, <1>5 DEF FollowsPlan, Upfront
<1>8. NeverStuck(OpenedStream(total, percent, rounds))
  BY <1>2, <1>4, <1>5 DEF NeverStuck
<1>9. BoundedDust(OpenedStream(total, percent, rounds))
  BY <1>2, <1>4, <1>5 DEF BoundedDust
<1>10. QED BY <1>6, <1>7, <1>8, <1>9

\* One more factor is one more summand.
LEMMA OneMore ==
    ASSUME NEW a \in Int, NEW b \in Int
    PROVE  (a + 1) * b = a * b + b /\ (a - 1) * b = a * b - b
OBVIOUS

\* Releasing a round of a stream with rounds left keeps it on its plan.
LEMMA ReleasedOnceFacts ==
    ASSUME NEW s \in Stream, s.releasedRounds < s.totalRounds,
           FollowsPlan(s), NeverStuck(s), BoundedDust(s)
    PROVE  /\ ReleasedOnce(s) \in Stream
           /\ FollowsPlan(ReleasedOnce(s)) /\ NeverStuck(ReleasedOnce(s))
           /\ BoundedDust(ReleasedOnce(s))
<1> DEFINE t == ReleasedOnce(s)
<1>1. /\ s.total \in Nat /\ s.roundAmount \in Nat /\ s.totalRounds \in Nat
      /\ s.releasedRounds \in Nat /\ s.released \in Nat
      /\ s.upfrontPercent \in 0 .. MaxUpfrontPercent
  BY DEF Stream
<1>2. /\ t.released = s.released + s.roundAmount
      /\ t.releasedRounds = s.releasedRounds + 1
      /\ t.total = s.total /\ t.upfrontPercent = s.upfrontPercent
      /\ t.roundAmount = s.roundAmount /\ t.totalRounds = s.totalRounds
  BY DEF Stream, ReleasedOnce
<1>10. t \in Stream
  <2>1. s.released + s.roundAmount \in Nat /\ s.releasedRounds + 1 \in Nat
    BY <1>1
  <2> DEFINE x == s.released + s.roundAmount
             y == s.releasedRounds + 1
  <2>2. t = [s EXCEPT !.released = x, !.releasedRounds = y]
    BY DEF ReleasedOnce
  <2> HIDE DEF x, y, t
  <2>3. QED BY <2>1, <2>2 DEF Stream, x, y
<1>3. (s.releasedRounds + 1) * s.roundAmount
         = s.releasedRounds * s.roundAmount + s.roundAmount
  BY <1>1, OneMore
<1>4. (s.totalRounds - (s.releasedRounds + 1)) * s.roundAmount
         = (s.totalRounds - s.releasedRounds) * s.roundAmount - s.roundAmount
  <2>1. s.totalRounds - (s.releasedRounds + 1) = (s.totalRounds - s.releasedRounds) - 1
    BY <1>1
  <2>2. s.totalRounds - s.releasedRounds \in Int
    BY <1>1
  <2>3. QED BY <1>1, <2>1, <2>2, OneMore
<1>5. /\ s.releasedRounds * s.roundAmount \in Nat
      /\ (s.totalRounds - s.releasedRounds) * s.roundAmount \in Nat
  BY <1>1, Z3
<1>6. Upfront(s.total, s.upfrontPercent) \in Nat
  BY <1>1, Z3 DEF Upfront, MaxUpfrontPercent
<1>7. FollowsPlan(t)
  BY <1>1, <1>2, <1>3, <1>5, <1>6 DEF FollowsPlan
<1>8. NeverStuck(t)
  BY <1>1, <1>2, <1>4, <1>5 DEF NeverStuck
<1>9. BoundedDust(t)
  BY <1>1, <1>2, <1>4, <1>5 DEF BoundedDust
<1>11. QED BY <1>7, <1>8, <1>9, <1>10

\* Freezing changes no amount.
LEMMA FrozenStreamFacts ==
    ASSUME NEW s \in Stream, FollowsPlan(s), NeverStuck(s), BoundedDust(s)
    PROVE  /\ FrozenStream(s) \in Stream
           /\ FollowsPlan(FrozenStream(s)) /\ NeverStuck(FrozenStream(s))
           /\ BoundedDust(FrozenStream(s))
BY DEF Stream, FrozenStream, FollowsPlan, NeverStuck, BoundedDust

\* The zero value is a stream that follows its (empty) plan.
LEMMA NoStreamFacts ==
    /\ NoStream \in Stream
    /\ FollowsPlan(NoStream) /\ NeverStuck(NoStream) /\ BoundedDust(NoStream)
<1>1. Upfront(0, 0) = 0
  BY Z3 DEF Upfront
<1>2. QED BY <1>1 DEF NoStream, Stream, FollowsPlan, NeverStuck, BoundedDust, MaxUpfrontPercent

\* StreamTypeOK and StreamsPayAsPlanned are inductive together: a stream can only be
\* released within its plan if it is a stream, and it stays one.
StreamInv == StreamTypeOK /\ StreamsPayAsPlanned

LEMMA StreamInitInv == StreamInit => StreamInv
<1> SUFFICES ASSUME StreamInit PROVE StreamInv
  OBVIOUS
<1>1. StreamTypeOK
  BY NoStreamFacts DEF StreamInit, StreamTypeOK
<1>2. StreamsPayAsPlanned
  BY NoStreamFacts DEF StreamInit, StreamsPayAsPlanned
<1>3. QED BY <1>1, <1>2 DEF StreamInv

\* Writing one well-formed entry of streams preserves the invariant.
LEMMA WriteKeepsStreams ==
    ASSUME StreamInv, NEW p \in PoolIds, NEW u \in Beneficiaries, NEW s \in Stream,
           FollowsPlan(s), NeverStuck(s), BoundedDust(s),
           streams' = [streams EXCEPT ![p][u] = s],
           UNCHANGED equbPool
    PROVE  StreamInv'
<1>1. StreamTypeOK'
  BY DEF StreamInv, StreamTypeOK
<1>2. ASSUME NEW q \in PoolIds, NEW v \in Beneficiaries
      PROVE  streams'[q][v] = s \/ streams'[q][v] = streams[q][v]
  BY <1>2 DEF StreamInv, StreamTypeOK
<1>3. StreamsPayAsPlanned'
  BY <1>2 DEF StreamInv, StreamsPayAsPlanned
<1>4. QED BY <1>1, <1>3 DEF StreamInv

LEMMA StreamNextInv == StreamInv /\ [StreamNext]_streamVars => StreamInv'
<1> SUFFICES ASSUME StreamInv, [StreamNext]_streamVars PROVE StreamInv'
  OBVIOUS
<1>1. ASSUME NEW address \in Callers, SetEqubPool(address) PROVE StreamInv'
  BY <1>1 DEF SetEqubPool, StreamInv, StreamTypeOK, StreamsPayAsPlanned
<1>2. ASSUME NEW caller \in Callers, NEW p \in PoolIds, NEW u \in Beneficiaries,
             NEW total \in Totals, NEW percent \in Percents, NEW rounds \in RoundCounts,
             CreateStream(caller, p, u, total, percent, rounds)
      PROVE  StreamInv'
  <2>1. /\ total \in Nat /\ rounds \in Nat /\ rounds > 0
        /\ percent \in 0 .. MaxUpfrontPercent
    BY <1>2, StreamAssumption DEF CreateStream, MaxUpfrontPercent
  <2>2. /\ OpenedStream(total, percent, rounds) \in Stream
        /\ FollowsPlan(OpenedStream(total, percent, rounds))
        /\ NeverStuck(OpenedStream(total, percent, rounds))
        /\ BoundedDust(OpenedStream(total, percent, rounds))
    BY <2>1, OpenedStreamFacts
  <2>3. QED BY <1>2, <2>2, WriteKeepsStreams DEF CreateStream
<1>3. ASSUME NEW caller \in Callers, NEW p \in PoolIds, NEW u \in Beneficiaries,
             ReleaseRound(caller, p, u)
      PROVE  StreamInv'
  <2>1. /\ streams[p][u] \in Stream
        /\ streams[p][u].releasedRounds < streams[p][u].totalRounds
        /\ FollowsPlan(streams[p][u]) /\ NeverStuck(streams[p][u])
        /\ BoundedDust(streams[p][u])
    BY <1>3 DEF ReleaseRound, StreamInv, StreamTypeOK, StreamsPayAsPlanned
  <2>2. /\ ReleasedOnce(streams[p][u]) \in Stream
        /\ FollowsPlan(ReleasedOnce(streams[p][u]))
        /\ NeverStuck(ReleasedOnce(streams[p][u]))
        /\ BoundedDust(ReleasedOnce(streams[p][u]))
    BY <2>1, ReleasedOnceFacts
  <2>3. QED BY <1>3, <2>2, WriteKeepsStreams DEF ReleaseRound
<1>4. ASSUME NEW caller \in Callers, NEW p \in PoolIds, NEW u \in Beneficiaries,
             FreezeRemaining(caller, p, u)
      PROVE  StreamInv'
  <2>1. /\ streams[p][u] \in Stream
        /\ FollowsPlan(streams[p][u]) /\ NeverStuck(streams[p][u])
        /\ BoundedDust(streams[p][u])
    BY DEF StreamInv, StreamTypeOK, StreamsPayAsPlanned
  <2>2. /\ FrozenStream(streams[p][u]) \in Stream
        /\ FollowsPlan(FrozenStream(streams[p][u]))
        /\ NeverStuck(FrozenStream(streams[p][u]))
        /\ BoundedDust(FrozenStream(streams[p][u]))
    BY <2>1, FrozenStreamFacts
  <2>3. streams' = [streams EXCEPT ![p][u] = FrozenStream(streams[p][u])]
    BY <1>4 DEF FreezeRemaining
  <2>4. QED BY <1>4, <2>2, <2>3, WriteKeepsStreams DEF FreezeRemaining
<1>5. CASE UNCHANGED streamVars
  BY <1>5 DEF streamVars, StreamInv, StreamTypeOK, StreamsPayAsPlanned
<1>6. QED BY <1>1, <1>2, <1>3, <1>4, <1>5 DEF StreamNext

\* PayoutStream.sol, all functions: the storage is well formed, and every stream
\* follows its payment plan, can complete it (the "over release" check never
\* fires) and loses only rounding dust.
THEOREM StreamSafety == StreamSpec => [](StreamTypeOK /\ StreamsPayAsPlanned)
<1>1. StreamSpec => []StreamInv
  BY StreamInitInv, StreamNextInv, PTL DEF StreamSpec
<1>2. StreamInv => StreamTypeOK /\ StreamsPayAsPlanned
  BY DEF StreamInv
<1>3. QED BY <1>1, <1>2, PTL

\* releaseRound against freezeRemaining: a frozen stream releases nothing until a
\* new stream replaces it.
THEOREM FrozenStreamsRest == StreamSpec => FrozenReleasesNothing
<1> DEFINE Rests ==
      \A p \in PoolIds, u \in Beneficiaries :
          streams[p][u].frozen =>
              \/ streams'[p][u] = streams[p][u]
              \/ streams'[p][u].releasedRounds = 0 /\ ~streams'[p][u].frozen
<1>1. StreamInv /\ [StreamNext]_streamVars => [Rests]_streamVars
  <2> SUFFICES ASSUME StreamInv, StreamNext, NEW q \in PoolIds, NEW v \in Beneficiaries,
                      streams[q][v].frozen
               PROVE  \/ streams'[q][v] = streams[q][v]
                      \/ streams'[q][v].releasedRounds = 0 /\ ~streams'[q][v].frozen
    OBVIOUS
  <2> USE DEF StreamInv, StreamTypeOK
  <2>1. ASSUME NEW address \in Callers, SetEqubPool(address)
        PROVE  streams'[q][v] = streams[q][v]
    BY <2>1 DEF SetEqubPool
  <2>2. ASSUME NEW caller \in Callers, NEW p \in PoolIds, NEW u \in Beneficiaries,
               NEW total \in Totals, NEW percent \in Percents, NEW rounds \in RoundCounts,
               CreateStream(caller, p, u, total, percent, rounds)
        PROVE  \/ streams'[q][v] = streams[q][v]
               \/ streams'[q][v].releasedRounds = 0 /\ ~streams'[q][v].frozen
    BY <2>2 DEF CreateStream, OpenedStream
  <2>3. ASSUME NEW caller \in Callers, NEW p \in PoolIds, NEW u \in Beneficiaries,
               ReleaseRound(caller, p, u)
        PROVE  streams'[q][v] = streams[q][v]
    BY <2>3 DEF ReleaseRound
  <2>4. ASSUME NEW caller \in Callers, NEW p \in PoolIds, NEW u \in Beneficiaries,
               FreezeRemaining(caller, p, u)
        PROVE  streams'[q][v] = streams[q][v]
    BY <2>4 DEF FreezeRemaining, FrozenStream, Stream
  <2>5. QED BY <2>1, <2>2, <2>3, <2>4 DEF StreamNext
<1>2. StreamSpec => []StreamInv
  BY StreamInitInv, StreamNextInv, PTL DEF StreamSpec
<1>3. QED BY <1>1, <1>2, PTL DEF StreamSpec, FrozenReleasesNothing

-----------------------------------------------------------------------------
(* What the market pays *)

\* Division by a positive number rounds down.
LEMMA DivFacts ==
    ASSUME NEW a \in Nat, NEW b \in Nat \ {0}
    PROVE  /\ a \div b \in Nat
           /\ (a \div b) * b <= a
           /\ a < (a \div b) * b + b
BY Z3

LEMMA TimesMonotone ==
    ASSUME NEW a \in Int, NEW b \in Int, NEW c \in Nat, a <= b
    PROVE  a * c <= b * c
BY Z3

LEMMA TimesNat ==
    ASSUME NEW a \in Nat, NEW b \in Nat
    PROVE  a * b \in Nat
BY Z3

LEMMA TimesCancels ==
    ASSUME NEW a \in Int, NEW b \in Int, NEW c \in Nat \ {0}, a * c < b * c + c
    PROVE  a <= b
<1>1. (b + 1) * c = b * c + c
  BY Z3
<1>2. SUFFICES ASSUME a >= b + 1 PROVE FALSE
  BY Z3
<1>3. (b + 1) * c <= a * c
  BY <1>2, TimesMonotone
<1>4. a * c \in Int /\ b * c \in Int
  BY Z3
<1>5. QED BY <1>1, <1>3, <1>4

LEMMA OutFacts ==
    ASSUME NEW in \in Nat, NEW inReserve \in Nat \ {0}, NEW outReserve \in Nat
    PROVE  LET out == Out(in, inReserve, outReserve)
           IN  /\ out \in Nat
               /\ out <= outReserve
               /\ outReserve > 0 => out < outReserve
               /\ (inReserve + in) * (outReserve - out) >= inReserve * outReserve
               /\ out <= (in * outReserve) \div inReserve
<1> DEFINE out == Out(in, inReserve, outReserve)
           charged == in * 997
           divisor == inReserve * 1000 + charged
<1>1. charged \in Nat /\ divisor \in Nat \ {0} /\ charged < divisor
  BY Z3
<1>2. /\ out \in Nat
      /\ out * divisor <= charged * outReserve
  <2>1. charged * outReserve \in Nat
    BY <1>1, TimesNat
  <2>2. out = (charged * outReserve) \div divisor
    BY DEF Out
  <2> HIDE DEF charged, divisor, out
  <2>3. QED BY <1>1, <2>1, <2>2, DivFacts
<1>3. charged * outReserve <= divisor * outReserve
  <2> HIDE DEF charged, divisor
  <2> QED BY <1>1, TimesMonotone
<1>4. outReserve > 0 => charged * outReserve < divisor * outReserve
  <2> HIDE DEF charged, divisor
  <2> QED BY <1>1, Z3
<1>5. out <= outReserve /\ (outReserve > 0 => out < outReserve)
  <2> HIDE DEF charged, divisor, out
  <2>1. ASSUME outReserve < out PROVE FALSE
    <3>1. (outReserve + 1) * divisor <= out * divisor
      BY <1>1, <1>2, <2>1, TimesMonotone
    <3>2. (outReserve + 1) * divisor = divisor * outReserve + divisor
      BY <1>1, Z3
    <3>3. out * divisor \in Nat /\ charged * outReserve \in Nat /\ divisor * outReserve \in Nat
      BY <1>1, <1>2, TimesNat
    <3>4. QED BY <1>1, <1>2, <1>3, <3>1, <3>2, <3>3
  <2>2. ASSUME outReserve > 0, outReserve = out PROVE FALSE
    <3>1. out * divisor = divisor * outReserve
      BY <1>1, <1>2, <2>2, Z3
    <3>3. charged * outReserve \in Nat /\ divisor * outReserve \in Nat
      BY <1>1, TimesNat
    <3>4. QED BY <1>1, <1>2, <1>4, <2>2, <3>1, <3>3
  <2>3. QED BY <1>2, <2>1, <2>2
\* Without the fee it is less still: out * (inReserve + in) <= in * outReserve.
<1>6. out * (inReserve + in) <= in * outReserve
  <2>1. out * (inReserve + in) * 1000 = out * divisor + 3 * (out * in)
    BY <1>2, Z3
  <2>2. in * outReserve * 1000 = charged * outReserve + 3 * (outReserve * in)
    BY Z3
  <2>3. out * in <= outReserve * in
    <3> HIDE DEF out
    <3> QED BY <1>2, <1>5, TimesMonotone
  <2>4. out * in \in Nat /\ outReserve * in \in Nat /\ out * (inReserve + in) \in Nat /\ in * outReserve \in Nat
    BY <1>2, TimesNat
  <2>5. out * divisor \in Nat /\ charged * outReserve \in Nat
    BY <1>1, <1>2, TimesNat
  <2> HIDE DEF charged, divisor, out
  <2>6. QED BY <1>2, <2>1, <2>2, <2>3, <2>4, <2>5
<1>7. (inReserve + in) * (outReserve - out) >= inReserve * outReserve
  <2> HIDE DEF charged, divisor, out
  <2>1. (inReserve + in) * (outReserve - out) = inReserve * outReserve + in * outReserve - out * (inReserve + in)
    BY <1>2, Z3
  <2>2. out * (inReserve + in) \in Nat /\ in * outReserve \in Nat /\ inReserve * outReserve \in Nat
    BY <1>2, TimesNat
  <2>3. QED BY <1>6, <2>1, <2>2
<1>8. out <= (in * outReserve) \div inReserve
  <2> DEFINE ideal == (in * outReserve) \div inReserve
  <2>1. in * outReserve \in Nat
    BY TimesNat
  <2>2. ideal \in Nat /\ in * outReserve < ideal * inReserve + inReserve
    BY <2>1, DivFacts
  <2> HIDE DEF charged, divisor, out, ideal
  <2>3. out * inReserve <= out * (inReserve + in)
    <3>1. out * (inReserve + in) = out * inReserve + out * in
      BY <1>2, Z3
    <3>2. out * in \in Nat /\ out * inReserve \in Nat
      BY <1>2, TimesNat
    <3>3. QED BY <3>1, <3>2
  <2>4. out * inReserve \in Nat /\ out * (inReserve + in) \in Nat /\ ideal * inReserve \in Nat
    BY <1>2, <2>2, TimesNat
  <2>5. out * inReserve < ideal * inReserve + inReserve
    BY <1>6, <2>1, <2>2, <2>3, <2>4
  <2>6. out <= ideal
    BY <1>2, <2>2, <2>5, TimesCancels
  <2>7. QED BY <2>6 DEF ideal
<1>9. QED BY <1>2, <1>5, <1>7, <1>8

-----------------------------------------------------------------------------
(* Sums over finite sets *)

\* MapThenSumSet picks one element after the other.  What it computes for
\* naturals is the number of units below the graph of the function, and sets
\* of units can be compared, split and counted.
Units(f, S) == {unit \in S \X Nat : unit[2] \in 1 .. f[unit[1]]}
Sum(f, S) == Cardinality(Units(f, S))

\* The units of one element.
LEMMA ColumnSize ==
    ASSUME NEW a, NEW n \in Nat
    PROVE  IsFiniteSet({a} \X (1 .. n)) /\ Cardinality({a} \X (1 .. n)) = n
<1> DEFINE One == {a}
           Many == 1 .. n
<1>1. IsFiniteSet(Many) /\ Cardinality(Many) = n
  BY FS_Interval
<1>2. IsFiniteSet(One) /\ Cardinality(One) = 1
  BY FS_Singleton
<1>3. IsFiniteSet(One \X Many) /\ Cardinality(One \X Many) = 1 * n
  <2> HIDE DEF One, Many
  <2> QED BY <1>1, <1>2, FS_Product
<1>4. QED BY <1>3

LEMMA UnitsFinite ==
    ASSUME NEW S, IsFiniteSet(S), NEW f, \A x \in S : f[x] \in Nat
    PROVE  IsFiniteSet(Units(f, S))
<1> DEFINE Column(x) == {x} \X (1 .. f[x])
           column == [x \in S |-> Column(x)]
           Columns == {Column(x) : x \in S}
<1>1. column \in Surjection(S, Columns)
  BY DEF Surjection
<1>2. IsFiniteSet(Columns)
  BY <1>1, FS_Surjection
<1>3. \A C \in Columns : IsFiniteSet(C)
  <2>1. \A x \in S : IsFiniteSet(Column(x))
    BY ColumnSize
  <2>2. QED BY <2>1
<1>4. IsFiniteSet(UNION Columns)
  BY <1>2, <1>3, FS_UNION
<1>5. Units(f, S) \subseteq UNION Columns
  BY DEF Units
<1>6. QED
  BY <1>4, <1>5, FS_Subset

LEMMA SumNat ==
    ASSUME NEW S, IsFiniteSet(S), NEW f, \A x \in S : f[x] \in Nat
    PROVE  Sum(f, S) \in Nat
BY UnitsFinite, FS_CardinalityType DEF Sum

LEMMA SumEmpty == ASSUME NEW f PROVE Sum(f, {}) = 0
<1>1. Units(f, {}) = {}
  BY DEF Units
<1>2. QED BY <1>1, FS_EmptySet DEF Sum

\* The terms can be added in any order.
LEMMA SumRemove ==
    ASSUME NEW S, IsFiniteSet(S), NEW f, \A x \in S : f[x] \in Nat, NEW a \in S
    PROVE  Sum(f, S) = f[a] + Sum(f, S \ {a})
<1> DEFINE Others == Units(f, S \ {a})
           Own == {a} \X (1 .. f[a])
<1>1. Units(f, S) = Others \cup Own /\ Others \cap Own = {}
  BY DEF Units
<1>2. IsFiniteSet(S \ {a})
  BY FS_RemoveElement
<1>3. IsFiniteSet(Others)
  BY <1>2, UnitsFinite
<1>4. IsFiniteSet(Own) /\ Cardinality(Own) = f[a]
  BY ColumnSize
<1>5. Cardinality(Units(f, S)) = Cardinality(Others) + Cardinality(Own) - Cardinality({})
  <2> HIDE DEF Others, Own
  <2> QED BY <1>1, <1>3, <1>4, FS_Union
<1>6. Cardinality(Others) \in Nat
  BY <1>3, FS_CardinalityType
<1>7. QED BY <1>4, <1>5, <1>6, FS_EmptySet DEF Sum

\* Sums are monotone, and depend on the values of the function alone.
LEMMA SumAtMost ==
    ASSUME NEW S, IsFiniteSet(S), NEW f, NEW g,
           \A x \in S : f[x] \in Nat /\ g[x] \in Nat /\ f[x] <= g[x]
    PROVE  Sum(f, S) <= Sum(g, S)
<1>1. Units(f, S) \subseteq Units(g, S)
  BY DEF Units
<1>2. QED BY <1>1, UnitsFinite, FS_Subset DEF Sum

LEMMA SumSame ==
    ASSUME NEW S, NEW f, NEW g, \A x \in S : f[x] = g[x]
    PROVE  Sum(f, S) = Sum(g, S)
<1>1. Units(f, S) = Units(g, S)
  BY DEF Units
<1>2. QED BY <1>1 DEF Sum

\* A change of one term changes the sum by as much.
LEMMA SumChange ==
    ASSUME NEW S, IsFiniteSet(S), NEW f, NEW g, NEW a \in S, NEW amount \in Int,
           \A x \in S : f[x] \in Nat /\ g[x] \in Nat,
           \A x \in S : x # a => f[x] = g[x],
           g[a] = f[a] + amount
    PROVE  Sum(g, S) = Sum(f, S) + amount
<1>1. Sum(f, S) = f[a] + Sum(f, S \ {a})
  BY SumRemove
<1>2. Sum(g, S) = g[a] + Sum(g, S \ {a})
  BY SumRemove
<1>3. Sum(f, S \ {a}) = Sum(g, S \ {a})
  BY SumSame
<1>4. Sum(f, S \ {a}) \in Nat
  BY SumNat, FS_RemoveElement
<1>5. QED BY <1>1, <1>2, <1>3, <1>4

\* The function MapThenFoldSet defines by recursion on the subsets of S.
Recursion(f, S, g) ==
    g = [s \in SUBSET S |->
            IF s = {} THEN 0
            ELSE f[CHOOSE x \in s : TRUE] + g[s \ {CHOOSE x \in s : TRUE}]]

\* There is such a function: the sums are one.
LEMMA RecursionExists ==
    ASSUME NEW S, IsFiniteSet(S), NEW f, \A x \in S : f[x] \in Nat
    PROVE  \E g : Recursion(f, S, g)
<1> DEFINE g == [s \in SUBSET S |-> Sum(f, s)]
<1>1. ASSUME NEW s \in SUBSET S, s # {}
      PROVE  Sum(f, s) = f[CHOOSE x \in s : TRUE] + g[s \ {CHOOSE x \in s : TRUE}]
  <2>1. IsFiniteSet(s)
    BY FS_Subset
  <2>2. PICK a \in s : a = CHOOSE x \in s : TRUE
    BY <1>1
  <2>3. Sum(f, s) = f[a] + Sum(f, s \ {a})
    BY <2>1, SumRemove
  <2>4. QED BY <2>2, <2>3
<1>2. Sum(f, {}) = 0
  BY SumEmpty
<1>3. Recursion(f, S, g)
  BY <1>1, <1>2 DEF Recursion
<1>4. QED BY <1>3

\* Every such function computes the sums: a smallest set where it does not is
\* neither empty nor a set with one element more than a good one.
LEMMA RecursionIsSum ==
    ASSUME NEW S, IsFiniteSet(S), NEW f, \A x \in S : f[x] \in Nat,
           NEW g, Recursion(f, S, g)
    PROVE  g[S] = Sum(f, S)
<1> DEFINE Wrong == {s \in SUBSET S : g[s] # Sum(f, s)}
<1> SUFFICES ASSUME Wrong # {} PROVE FALSE
  OBVIOUS
<1>1. IsWellFoundedOn(StrictSubsetOrdering(S), FiniteSubsetsOf(S))
  BY FS_StrictSubsetOrderingWellFounded
<1>2. Wrong \subseteq FiniteSubsetsOf(S)
  BY FS_FiniteSubsetsOfFinite
<1>3. PICK s \in Wrong : \A t \in Wrong : ~ (<<t, s>> \in StrictSubsetOrdering(S))
  <2> HIDE DEF Wrong
  <2> QED BY <1>1, <1>2, WFMin
<1>4. s # {}
  BY SumEmpty DEF Recursion
<1>5. PICK a \in s : a = CHOOSE x \in s : TRUE
  BY <1>4
<1>6. s \ {a} \notin Wrong
  <2>1. <<s \ {a}, s>> \in StrictSubsetOrdering(S)
    BY <1>3, <1>5 DEF StrictSubsetOrdering
  <2>2. QED BY <2>1, <1>3
<1>7. g[s \ {a}] = Sum(f, s \ {a})
  BY <1>6
<1>8. g[s] = f[a] + g[s \ {a}]
  BY <1>4, <1>5 DEF Recursion
<1>9. Sum(f, s) = f[a] + Sum(f, s \ {a})
  BY SumRemove, FS_Subset
<1>10. QED BY <1>7, <1>8, <1>9

-----------------------------------------------------------------------------
(* The market *)

LEMMA AccountFacts ==
    /\ Router \in Accounts
    /\ \A u \in Users : u \in Accounts /\ u # Router
BY TokenAccounts DEF Accounts

\* What an event tells of a transfer.
Transfers == [token : Tokens, from : Accounts \cup {Nobody}, to : Accounts]

Coins == [t \in Tokens |-> pools[t].ctc]

Books ==
    /\ balanceOf \in [Tokens -> [Accounts -> Nat]]
    /\ allowance \in [Tokens -> [Users -> Nat]]
    /\ pools \in [Tokens -> Pool]
    /\ shares \in [Tokens -> [Users -> Nat]]
    /\ coins \in [Accounts -> Nat]

\* MarketBacked, with its sums as functions of tokens and users.
Backed ==
    /\ ReservesAgree
    /\ \A t \in Tokens : balanceOf[t][Router] >= pools[t].token
    /\ \A t \in Tokens : Sum(shares[t], Users) = pools[t].total
    /\ coins[Router] >= Sum(Coins, Tokens)

\* A pool with both sides, or with none and no shares.
Whole(pool) ==
    /\ pool.total > 0 <=> pool.ctc > 0
    /\ pool.total > 0 <=> pool.token > 0

\* Tokens and coins that u gives the router, or takes from it when the amount
\* is negative; nobody else is touched.
TokensGo(t, u, amount) ==
    /\ balanceOf' \in [Tokens -> [Accounts -> Nat]]
    /\ \A s \in Tokens : balanceOf'[s][Router] = balanceOf[s][Router] + (IF s = t THEN amount ELSE 0)
    /\ \A s \in Tokens, v \in Users :
          balanceOf'[s][v] = balanceOf[s][v] - (IF s = t /\ v = u THEN amount ELSE 0)
CoinsGo(u, amount) ==
    /\ coins' \in [Accounts -> Nat]
    /\ coins'[Router] = coins[Router] + amount
    /\ \A v \in Users : coins'[v] = coins[v] - (IF v = u THEN amount ELSE 0)

\* A trade takes no value from the providers: none of a swap, and what is
\* behind a share stays when n shares are made or, n below 0, given back, the
\* tokens but for the rounding of one deposit.
Fair(old, new, n) ==
    /\ n = 0 => new.ctc * new.token >= old.ctc * old.token
    /\ n # 0 => /\ new.ctc * old.total >= old.ctc * new.total
                /\ (new.token + 1) * old.total >= old.token * new.total

\* A transaction of u that turns the pool of t into new and gives u n shares.
Trades(t, u, new, n) ==
    /\ new \in Pool /\ n \in Int
    /\ Whole(new)
    /\ new.total = pools[t].total + n
    /\ pools' = [pools EXCEPT ![t] = new]
    /\ shares' \in [Tokens -> [Users -> Nat]]
    /\ \A s \in Tokens, v \in Users :
          shares'[s][v] = IF s = t /\ v = u THEN shares[t][u] + n ELSE shares[s][v]
    /\ TokensGo(t, u, new.token - pools[t].token)
    /\ CoinsGo(u, new.ctc - pools[t].ctc)
    /\ allowance' \in [Tokens -> [Users -> Nat]]

LEMMA TradesKeepBooks ==
    ASSUME Books, Backed, NEW t \in Tokens, NEW u \in Users, NEW new, NEW n, Trades(t, u, new, n)
    PROVE  Books' /\ Backed'
<1>1. new \in Pool /\ n \in Int /\ pools \in [Tokens -> Pool] /\ pools' = [pools EXCEPT ![t] = new]
  BY DEF Trades, Books
<1>2. /\ \A s \in Tokens : pools'[s] = IF s = t THEN new ELSE pools[s]
      /\ pools' \in [Tokens -> Pool]
  BY <1>1
<1>3. Books'
  BY <1>2 DEF Books, Trades, TokensGo, CoinsGo
<1>4. ReservesAgree'
  BY <1>2 DEF ReservesAgree, Backed, Trades, Whole
<1>5. ASSUME NEW s \in Tokens PROVE balanceOf'[s][Router] >= pools'[s].token
  <2>1. /\ balanceOf[s][Router] \in Nat /\ balanceOf[s][Router] >= pools[s].token
        /\ pools[s].token \in Nat /\ new.token \in Nat
    BY <1>1, AccountFacts DEF Books, Backed, Pool
  <2>2. balanceOf'[s][Router] = balanceOf[s][Router] + (IF s = t THEN new.token - pools[t].token ELSE 0)
    BY DEF Trades, TokensGo
  <2>3. QED BY <1>2, <2>1, <2>2
<1>6. ASSUME NEW s \in Tokens PROVE Sum(shares'[s], Users) = pools'[s].total
  <2>1. /\ \A v \in Users : shares[s][v] \in Nat /\ shares'[s][v] \in Nat
        /\ Sum(shares[s], Users) = pools[s].total
        /\ \A v \in Users : shares'[s][v] = IF s = t /\ v = u THEN shares[t][u] + n ELSE shares[s][v]
    BY DEF Books, Backed, Trades
  <2>2. CASE s # t
    <3>1. Sum(shares'[s], Users) = Sum(shares[s], Users)
      BY <2>1, <2>2, SumSame
    <3>2. QED BY <1>2, <2>1, <2>2, <3>1
  <2>3. CASE s = t
    <3>1. /\ \A v \in Users : v # u => shares[s][v] = shares'[s][v]
          /\ shares'[s][u] = shares[s][u] + n
      BY <2>1, <2>3
    <3> DEFINE f == shares[s]
               g == shares'[s]
    <3>3. Sum(g, Users) = Sum(f, Users) + n
      <4>1. /\ \A v \in Users : f[v] \in Nat /\ g[v] \in Nat
            /\ \A v \in Users : v # u => f[v] = g[v]
            /\ g[u] = f[u] + n
        BY <2>1, <3>1
      <4> HIDE DEF f, g
      <4>2. QED BY <1>1, <4>1, SumChange, ServiceAssumption
    <3>4. QED BY <1>2, <2>1, <2>3, <3>3 DEF Trades
  <2>4. QED BY <2>2, <2>3
<1>7. coins'[Router] >= Sum(Coins', Tokens)
  <2> DEFINE f == Coins
             g == [s \in Tokens |-> pools'[s].ctc]
             amount == new.ctc - pools[t].ctc
  <2>1. Coins' = g
    BY DEF Coins
  <2>2. /\ \A s \in Tokens : f[s] \in Nat /\ g[s] \in Nat
        /\ \A s \in Tokens : s # t => f[s] = g[s]
        /\ g[t] = f[t] + amount
        /\ amount \in Int
    BY <1>1, <1>2 DEF Coins, Pool
  <2>3. /\ coins'[Router] = coins[Router] + amount /\ coins[Router] >= Sum(f, Tokens)
        /\ coins[Router] \in Nat /\ Sum(f, Tokens) \in Nat
    BY <2>2, SumNat, AccountFacts, ServiceAssumption DEF Trades, CoinsGo, Backed, Books
  <2> HIDE DEF f, g, amount
  <2>4. Sum(g, Tokens) = Sum(f, Tokens) + amount
    BY <2>2, SumChange, ServiceAssumption
  <2>5. QED BY <2>1, <2>2, <2>3, <2>4
<1>8. (coins[Router] >= Sum(Coins, Tokens))'
  BY <1>7 DEF Sum, Units
<1>9. (\A s \in Tokens : Sum(shares[s], Users) = pools[s].total)'
  BY <1>6 DEF Sum, Units
<1>10. QED BY <1>3, <1>4, <1>5, <1>8, <1>9 DEF Backed

\* What goes from one account to another.
LEMMA MovedFacts ==
    ASSUME Books, NEW t \in Tokens, NEW from \in Accounts, NEW to \in Accounts,
           NEW amount \in Nat, Moved(t, from, to, amount)
    PROVE  /\ balanceOf' \in [Tokens -> [Accounts -> Nat]]
           /\ amount <= balanceOf[t][from]
           /\ \A s \in Tokens, a \in Accounts :
                 balanceOf'[s][a] =
                     IF s = t THEN balanceOf[t][a] - (IF a = from THEN amount ELSE 0)
                                                   + (IF a = to THEN amount ELSE 0)
                     ELSE balanceOf[s][a]
<1> DEFINE row == [a \in Accounts |-> balanceOf[t][a] - (IF a = from THEN amount ELSE 0)
                                                      + (IF a = to THEN amount ELSE 0)]
<1>1. balanceOf \in [Tokens -> [Accounts -> Nat]] /\ amount <= balanceOf[t][from]
  BY DEF Books, Moved
<1>2. balanceOf' = [balanceOf EXCEPT ![t] = row]
  BY DEF Moved
<1>3. row \in [Accounts -> Nat]
  BY <1>1
<1>4. \A a \in Accounts : row[a] = balanceOf[t][a] - (IF a = from THEN amount ELSE 0)
                                                 + (IF a = to THEN amount ELSE 0)
  OBVIOUS
<1> HIDE DEF row
<1>5. QED BY <1>1, <1>2, <1>3, <1>4

\* What the router gets and gives of a token.
LEMMA RouterGets ==
    ASSUME Books, NEW t \in Tokens, NEW u \in Users, NEW amount \in Nat, Moved(t, u, Router, amount)
    PROVE  TokensGo(t, u, amount)
<1>1. Router \in Accounts /\ u \in Accounts /\ u # Router
  BY AccountFacts
<1>2. /\ balanceOf' \in [Tokens -> [Accounts -> Nat]]
      /\ \A s \in Tokens, a \in Accounts :
            balanceOf'[s][a] =
                IF s = t THEN balanceOf[t][a] - (IF a = u THEN amount ELSE 0)
                                              + (IF a = Router THEN amount ELSE 0)
                ELSE balanceOf[s][a]
  BY <1>1, MovedFacts
<1>3. \A s \in Tokens, a \in Accounts : balanceOf[s][a] \in Nat
  BY DEF Books
<1>4. \A s \in Tokens : balanceOf'[s][Router] = balanceOf[s][Router] + (IF s = t THEN amount ELSE 0)
  BY <1>1, <1>2, <1>3
<1>5. ASSUME NEW s \in Tokens, NEW v \in Users
      PROVE  balanceOf'[s][v] = balanceOf[s][v] - (IF s = t /\ v = u THEN amount ELSE 0)
  BY <1>2, <1>3, AccountFacts
<1>6. QED BY <1>2, <1>4, <1>5 DEF TokensGo

LEMMA RouterGives ==
    ASSUME Books, NEW t \in Tokens, NEW u \in Users, NEW amount \in Nat, Moved(t, Router, u, amount)
    PROVE  TokensGo(t, u, 0 - amount)
<1>1. Router \in Accounts /\ u \in Accounts /\ u # Router
  BY AccountFacts
<1>2. /\ balanceOf' \in [Tokens -> [Accounts -> Nat]]
      /\ \A s \in Tokens, a \in Accounts :
            balanceOf'[s][a] =
                IF s = t THEN balanceOf[t][a] - (IF a = Router THEN amount ELSE 0)
                                              + (IF a = u THEN amount ELSE 0)
                ELSE balanceOf[s][a]
  BY <1>1, MovedFacts
<1>3. \A s \in Tokens, a \in Accounts : balanceOf[s][a] \in Nat
  BY DEF Books
<1>4. \A s \in Tokens : balanceOf'[s][Router] = balanceOf[s][Router] + (IF s = t THEN 0 - amount ELSE 0)
  BY <1>1, <1>2, <1>3
<1>5. ASSUME NEW s \in Tokens, NEW v \in Users
      PROVE  balanceOf'[s][v] = balanceOf[s][v] - (IF s = t /\ v = u THEN 0 - amount ELSE 0)
  BY <1>2, <1>3, AccountFacts
<1>6. QED BY <1>2, <1>4, <1>5 DEF TokensGo

\* Coins that change hands.
LEMMA PaidFacts ==
    ASSUME coins \in [Accounts -> Nat], NEW u \in Users, NEW v \in Nat, coins[u] >= v,
           coins' = [coins EXCEPT ![u] = @ - v, ![Router] = @ + v]
    PROVE  CoinsGo(u, v)
<1> DEFINE less == coins[u] - v
           more == coins[Router] + v
<1>1. Router \in Accounts /\ u \in Accounts /\ u # Router
  BY AccountFacts
<1>2. less \in Nat /\ more \in Nat /\ coins[u] \in Nat
  BY <1>1
<1>3. coins' = [coins EXCEPT ![u] = less, ![Router] = more]
  BY <1>1
<1>4. /\ coins' \in [Accounts -> Nat] /\ coins'[Router] = more /\ coins'[u] = less
      /\ \A x \in Users : x # u => coins'[x] = coins[x]
  <2> HIDE DEF less, more
  <2>1. QED BY <1>1, <1>2, <1>3, AccountFacts
<1>5. /\ \A x \in Users : coins[x] \in Nat
      /\ less = coins[u] - v /\ more = coins[Router] + v
  BY <1>2, AccountFacts
<1> HIDE DEF less, more
<1>6. ASSUME NEW x \in Users PROVE coins'[x] = coins[x] - (IF x = u THEN v ELSE 0)
  <2>1. CASE x = u
    BY <1>4, <1>5, <2>1
  <2>2. CASE x # u
    <3>1. coins'[x] = coins[x] /\ coins[x] \in Nat
      BY <1>4, <1>5, <2>2
    <3>2. QED BY <2>2, <3>1
  <2>3. QED BY <2>1, <2>2
<1>7. coins' \in [Accounts -> Nat] /\ coins'[Router] = coins[Router] + v
  BY <1>4, <1>5
<1>8. QED BY <1>6, <1>7, Zenon DEF CoinsGo

LEMMA PaidOutFacts ==
    ASSUME coins \in [Accounts -> Nat], NEW u \in Users, NEW v \in Nat, coins[Router] >= v,
           coins' = [coins EXCEPT ![u] = @ + v, ![Router] = @ - v]
    PROVE  CoinsGo(u, 0 - v)
<1> DEFINE more == coins[u] + v
           less == coins[Router] - v
<1>1. Router \in Accounts /\ u \in Accounts /\ u # Router
  BY AccountFacts
<1>2. less \in Nat /\ more \in Nat /\ coins[Router] \in Nat /\ coins[u] \in Nat
  BY <1>1
<1>3. coins' = [coins EXCEPT ![u] = more, ![Router] = less]
  BY <1>1
<1>4. /\ coins' \in [Accounts -> Nat] /\ coins'[Router] = less /\ coins'[u] = more
      /\ \A x \in Users : x # u => coins'[x] = coins[x]
  <2> HIDE DEF less, more
  <2>1. QED BY <1>1, <1>2, <1>3, AccountFacts
<1>5. /\ \A x \in Users : coins[x] \in Nat
      /\ less = coins[Router] + (0 - v) /\ more = coins[u] - (0 - v)
  BY <1>2, AccountFacts
<1> HIDE DEF less, more
<1>6. ASSUME NEW x \in Users PROVE coins'[x] = coins[x] - (IF x = u THEN 0 - v ELSE 0)
  <2>1. CASE x = u
    BY <1>4, <1>5, <2>1
  <2>2. CASE x # u
    <3>1. coins'[x] = coins[x] /\ coins[x] \in Nat
      BY <1>4, <1>5, <2>2
    <3>2. QED BY <2>2, <3>1
  <2>3. QED BY <2>1, <2>2
<1>7. coins' \in [Accounts -> Nat] /\ coins'[Router] = coins[Router] + (0 - v)
  BY <1>4, <1>5
<1>8. QED BY <1>6, <1>7, Zenon DEF CoinsGo

\* A part of a reserve, rounded down, is all of it only for all the shares.
IsPart(part, s, reserve, total) ==
    /\ part \in Nat /\ part <= reserve
    /\ part = reserve <=> s = total
    /\ part * total <= s * reserve

LEMMA PartFacts ==
    ASSUME NEW s \in Nat, NEW reserve \in Nat, NEW total \in Nat, s > 0, s <= total, reserve > 0
    PROVE  IsPart((s * reserve) \div total, s, reserve, total)
<1> DEFINE part == (s * reserve) \div total
<1>1. /\ s * reserve \in Nat /\ part \in Nat
      /\ part * total <= s * reserve /\ s * reserve < part * total + total
  BY TimesNat, DivFacts
<1> HIDE DEF part
<1>2. part * total \in Nat /\ reserve * total \in Nat /\ reserve * total = total * reserve
  BY <1>1, TimesNat, Z3
<1>3. s * reserve <= reserve * total
  BY <1>2, TimesMonotone
<1>4. part <= reserve
  <2>1. part * total < reserve * total + total
    BY <1>1, <1>2, <1>3
  <2>2. QED BY <1>1, <2>1, TimesCancels
<1>5. ASSUME s = total PROVE reserve <= part
  <2>1. reserve * total < part * total + total
    BY <1>1, <1>2, <1>5
  <2>2. QED BY <1>1, <2>1, TimesCancels
<1>6. ASSUME part = reserve PROVE s = total
  <2>1. total * reserve < s * reserve + reserve
    BY <1>1, <1>2, <1>6
  <2>2. total <= s
    BY <2>1, TimesCancels
  <2>3. QED BY <2>2
<1>7. IsPart(part, s, reserve, total)
  BY <1>1, <1>4, <1>5, <1>6 DEF IsPart
<1>8. QED BY <1>7 DEF part

\* Tokens rounded down and shares rounded down, at one rate each: the tokens
\* that come with n shares are those that go with them, but for one.
LEMMA RatesKept ==
    ASSUME NEW v \in Nat, NEW ctc \in Nat \ {0}, NEW token \in Nat, NEW total \in Nat,
           NEW brought \in Nat, NEW n \in Nat,
           n * ctc <= v * total, v * token <= (brought + 1) * ctc
    PROVE  token * n <= (brought + 1) * total
<1>1. /\ n * ctc \in Nat /\ v * total \in Nat /\ v * token \in Nat
      /\ (brought + 1) * ctc \in Nat /\ (brought + 1) * total \in Nat /\ token * n \in Nat
  BY TimesNat
<1>2. (n * ctc) * token <= (v * total) * token
  BY <1>1, TimesMonotone
<1>3. (v * token) * total <= ((brought + 1) * ctc) * total
  BY <1>1, TimesMonotone
<1>4. /\ (n * ctc) * token = (token * n) * ctc
      /\ (v * total) * token = (v * token) * total
      /\ ((brought + 1) * ctc) * total = ((brought + 1) * total) * ctc
  BY Z3
<1>5. /\ (token * n) * ctc \in Nat /\ (v * token) * total \in Nat
      /\ ((brought + 1) * total) * ctc \in Nat
  BY <1>1, TimesNat
<1>6. (token * n) * ctc < ((brought + 1) * total) * ctc + ctc
  BY <1>2, <1>3, <1>4, <1>5
<1>7. QED BY <1>1, <1>6, TimesCancels

\* addLiquidity takes coins and as many tokens.
LEMMA AddTrades ==
    ASSUME Books, Backed, NEW t \in Tokens, NEW u \in Users, NEW v \in Nat,
           AddLiquidity(t, u, v)
    PROVE  \E new, n : Trades(t, u, new, n) /\ Fair(pools[t], new, n)
<1> DEFINE old == pools[t]
           n == Minted(t, v)
           brought == Brought(t, u, v)
           new == [ctc |-> old.ctc + v, token |-> old.token + brought, total |-> old.total + n]
<1>1. /\ old.ctc \in Nat /\ old.token \in Nat /\ old.total \in Nat
      /\ old.total > 0 <=> old.ctc > 0
      /\ old.total > 0 <=> old.token > 0
      /\ balanceOf[t][Router] >= old.token
  BY DEF Books, Backed, ReservesAgree, Pool
<1>2. /\ n \in Nat /\ n * old.ctc <= v * old.total
      /\ old.total = 0 => n = v
  <2>1. CASE old.total = 0
    BY <1>1, <2>1, Z3 DEF Minted
  <2>2. CASE old.total # 0
    <3>1. n = (v * old.total) \div old.ctc
      BY <2>2 DEF Minted
    <3>2. old.ctc \in Nat \ {0} /\ v * old.total \in Nat
      BY <1>1, <2>2, TimesNat
    <3> HIDE DEF old, n
    <3>3. QED BY <2>2, <3>1, <3>2, DivFacts
  <2>3. QED BY <2>1, <2>2
<1>3. brought \in Nat /\ v * old.token <= (brought + 1) * old.ctc
  <2>1. CASE old.total = 0
    <3>1. brought \in Nat
      BY <2>1 DEF Brought, Books
    <3>2. old.token = 0 /\ old.ctc = 0
      BY <1>1, <2>1
    <3> HIDE DEF old, brought
    <3>3. QED BY <3>1, <3>2, Z3
  <2>2. CASE old.total # 0
    <3>1. brought = (v * old.token) \div old.ctc
      BY <2>2 DEF Brought
    <3> HIDE DEF old, brought
    <3>7. old.ctc \in Nat \ {0}
      BY <1>1, <2>2
    <3>2. old.ctc \in Nat \ {0} /\ v * old.token \in Nat
      BY <1>1, <3>7, TimesNat
    <3>3. brought \in Nat /\ v * old.token < brought * old.ctc + old.ctc
      BY <3>1, <3>2, DivFacts
    <3>4. (brought + 1) * old.ctc = brought * old.ctc + old.ctc
      BY <1>1, <3>3, Z3
    <3>5. brought * old.ctc \in Nat
      BY <1>1, <3>3, TimesNat
    <3>6. QED BY <1>1, <3>2, <3>3, <3>4, <3>5
  <2>3. QED BY <2>1, <2>2
<1>4. v > 0 /\ coins[u] >= v /\ brought > 0 /\ allowance[t][u] >= brought
  BY DEF AddLiquidity, Pay, TransferFrom
<1>5. /\ new \in Pool /\ new.ctc = old.ctc + v /\ new.token = old.token + brought
      /\ new.total = old.total + n
  <2> HIDE DEF old, n, brought
  <2>1. QED BY <1>1, <1>2, <1>3 DEF Pool
<1>6. pools' = [pools EXCEPT ![t] = new]
  BY DEF AddLiquidity
<1>7. Whole(new)
  <2>1. n \in Nat /\ (old.total = 0 => n = v)
    BY <1>2
  <2> HIDE DEF old, n, brought, new
  <2>2. new.ctc > 0 /\ new.token > 0
    BY <1>1, <1>3, <1>4, <1>5
  <2>3. new.total > 0
    BY <1>1, <1>4, <1>5, <2>1
  <2>4. QED BY <2>2, <2>3 DEF Whole
<1>8. TokensGo(t, u, new.token - old.token)
  <2>1. Moved(t, u, Router, brought)
    BY DEF AddLiquidity, TransferFrom
  <2> HIDE DEF old, n, brought, new
  <2>2. new.token - old.token = brought
    BY <1>1, <1>3, <1>5
  <2>3. QED BY <1>3, <2>1, <2>2, RouterGets
<1>9. CoinsGo(u, new.ctc - old.ctc)
  <2>1. coins' = [coins EXCEPT ![u] = @ - v, ![Router] = @ + v]
    BY DEF AddLiquidity, Pay
  <2>2. CoinsGo(u, v)
    BY <1>4, <2>1, PaidFacts DEF Books
  <2> HIDE DEF old, n, brought, new
  <2>3. new.ctc - old.ctc = v
    BY <1>1, <1>5
  <2>4. QED BY <2>2, <2>3
<1>10. allowance' \in [Tokens -> [Users -> Nat]]
  <2>1. allowance' = [allowance EXCEPT ![t][u] = @ - brought]
    BY DEF AddLiquidity, TransferFrom
  <2> HIDE DEF brought
  <2>2. QED BY <1>3, <1>4, <2>1 DEF Books
<1>11. /\ shares' \in [Tokens -> [Users -> Nat]]
       /\ \A s \in Tokens, w \in Users :
             shares'[s][w] = IF s = t /\ w = u THEN shares[t][u] + n ELSE shares[s][w]
  <2>1. shares' = [shares EXCEPT ![t][u] = @ + n]
    BY DEF AddLiquidity
  <2> HIDE DEF n
  <2>2. QED BY <1>2, <2>1 DEF Books
<1> HIDE DEF n, brought, new
<1>14. Trades(t, u, new, n)
  BY <1>2, <1>5, <1>6, <1>7, <1>8, <1>9, <1>10, <1>11 DEF Trades
<1>12. new.ctc * new.token >= old.ctc * old.token
  <2>1. old.ctc * old.token <= new.ctc * old.token
    BY <1>1, <1>5, TimesMonotone
  <2>2. old.token * new.ctc <= new.token * new.ctc
    BY <1>1, <1>3, <1>5, TimesMonotone
  <2>3. new.ctc * old.token = old.token * new.ctc /\ new.token * new.ctc = new.ctc * new.token
    BY <1>1, <1>3, <1>5, Z3
  <2>4. old.ctc * old.token \in Nat /\ new.ctc * old.token \in Nat /\ new.ctc * new.token \in Nat
    BY <1>1, <1>3, <1>5, TimesNat DEF Pool
  <2> HIDE DEF old
  <2>5. QED BY <2>1, <2>2, <2>3, <2>4
<1>13. new.ctc * old.total >= old.ctc * new.total
  <2>1. new.ctc * old.total = old.ctc * old.total + v * old.total
    BY <1>1, <1>5, Z3
  <2>2. old.ctc * new.total = old.ctc * old.total + n * old.ctc
    BY <1>1, <1>2, <1>5, Z3
  <2>3. old.ctc * old.total \in Nat /\ v * old.total \in Nat /\ n * old.ctc \in Nat
    BY <1>1, <1>2, TimesNat
  <2> HIDE DEF old
  <2>4. QED BY <1>2, <2>1, <2>2, <2>3
<1>15. (new.token + 1) * old.total >= old.token * new.total
  <2> HIDE DEF old
  <2>1. CASE old.total = 0
    <3>1. old.token = 0
      BY <1>1, <2>1
    <3>2. (new.token + 1) * old.total = 0 /\ old.token * new.total = 0
      BY <1>2, <1>3, <1>5, <2>1, <3>1, Z3
    <3>3. QED BY <3>2
  <2>2. CASE old.total # 0
    <3>1. old.token * n <= (brought + 1) * old.total
      BY <1>1, <1>2, <1>3, <2>2, RatesKept
    <3>2. (new.token + 1) * old.total = old.token * old.total + (brought + 1) * old.total
      <4>1. /\ new.token + 1 = old.token + (brought + 1)
            /\ old.token \in Nat /\ brought + 1 \in Nat /\ old.total \in Nat
        BY <1>1, <1>3, <1>5
      <4>2. \A a, b, c \in Nat : (a + b) * c = a * c + b * c
        BY Z3
      <4>3. QED BY <4>1, <4>2
    <3>3. old.token * new.total = old.token * old.total + old.token * n
      BY <1>1, <1>2, <1>5, Z3
    <3>4. old.token * old.total \in Nat /\ old.token * n \in Nat /\ (brought + 1) * old.total \in Nat
      BY <1>1, <1>2, <1>3, TimesNat
    <3>5. QED BY <3>1, <3>2, <3>3, <3>4
  <2>3. QED BY <2>1, <2>2
<1>16. QED BY <1>12, <1>13, <1>14, <1>15 DEF Fair

\* removeLiquidity pays out the part of both sides that goes with the shares.
LEMMA RemoveTrades ==
    ASSUME Books, Backed, NEW t \in Tokens, NEW u \in Users, NEW s \in Nat,
           RemoveLiquidity(t, u, s)
    PROVE  \E new, n : Trades(t, u, new, n) /\ Fair(pools[t], new, n)
<1> DEFINE old == pools[t]
           ctc == Part(t, s, old.ctc)
           token == Part(t, s, old.token)
           new == [ctc |-> old.ctc - ctc, token |-> old.token - token, total |-> old.total - s]
           n == 0 - s
<1>1. /\ old.ctc \in Nat /\ old.token \in Nat /\ old.total \in Nat
      /\ old.total > 0 <=> old.ctc > 0
      /\ old.total > 0 <=> old.token > 0
      /\ balanceOf[t][Router] >= old.token
      /\ shares[t][u] \in Nat
  BY DEF Books, Backed, ReservesAgree, Pool
<1>2. s > 0 /\ shares[t][u] >= s /\ old.total > 0
  BY DEF RemoveLiquidity
<1>3. s <= old.total
  <2>1. /\ \A v \in Users : shares[t][v] \in Nat
        /\ Sum(shares[t], Users) = old.total
    BY DEF Books, Backed
  <2>2. Sum(shares[t], Users) = shares[t][u] + Sum(shares[t], Users \ {u})
    BY <2>1, SumRemove, ServiceAssumption
  <2>3. Sum(shares[t], Users \ {u}) \in Nat
    BY <2>1, SumNat, FS_RemoveElement, ServiceAssumption
  <2> HIDE DEF old
  <2>4. QED BY <1>1, <1>2, <2>1, <2>2, <2>3
<1>4. ctc \in Nat /\ ctc <= old.ctc /\ (ctc = old.ctc <=> s = old.total) /\ ctc * old.total <= s * old.ctc
  <2>1. ctc = (s * old.ctc) \div old.total
    BY DEF Part
  <2>2. /\ old.ctc \in Nat /\ old.ctc > 0
        /\ old.total \in Nat /\ old.total > 0 /\ s <= old.total
    BY <1>1, <1>2, <1>3
  <2> HIDE DEF old, ctc
  <2>3. IsPart(ctc, s, old.ctc, old.total)
    BY <1>2, <2>1, <2>2, PartFacts
  <2>4. QED BY <2>3 DEF IsPart
<1>5. /\ token \in Nat /\ token <= old.token /\ (token = old.token <=> s = old.total)
      /\ token * old.total <= s * old.token
  <2>1. token = (s * old.token) \div old.total
    BY DEF Part
  <2>2. /\ old.token \in Nat /\ old.token > 0
        /\ old.total \in Nat /\ old.total > 0 /\ s <= old.total
    BY <1>1, <1>2, <1>3
  <2> HIDE DEF old, token
  <2>3. IsPart(token, s, old.token, old.total)
    BY <1>2, <2>1, <2>2, PartFacts
  <2>4. QED BY <2>3 DEF IsPart
<1>6. /\ new \in Pool /\ new.ctc = old.ctc - ctc /\ new.token = old.token - token
      /\ new.total = old.total + n
  <2>1. old.ctc - ctc \in Nat /\ old.token - token \in Nat /\ old.total - s \in Nat
        /\ old.total - s = old.total + n
    <3> HIDE DEF old, ctc, token
    <3>1. QED BY <1>1, <1>3, <1>4, <1>5
  <2> HIDE DEF old, ctc, token, n
  <2>2. QED BY <2>1 DEF Pool
<1>7. pools' = [pools EXCEPT ![t] = new]
  BY DEF RemoveLiquidity
<1>8. Whole(new)
  <2>1. n = 0 - s
    OBVIOUS
  <2> HIDE DEF old, n, ctc, token, new
  <2>2. new.total > 0 <=> s # old.total
    BY <1>1, <1>3, <1>6, <2>1
  <2>3. new.ctc > 0 <=> s # old.total
    BY <1>1, <1>4, <1>6
  <2>4. new.token > 0 <=> s # old.total
    BY <1>1, <1>5, <1>6
  <2>5. QED BY <2>2, <2>3, <2>4 DEF Whole
<1>9. TokensGo(t, u, new.token - old.token)
  <2>1. Moved(t, Router, u, token)
    BY DEF RemoveLiquidity, Transfer
  <2> HIDE DEF old, n, ctc, token, new
  <2>2. new.token - old.token = 0 - token
    BY <1>1, <1>5, <1>6
  <2>3. QED BY <1>5, <2>1, <2>2, RouterGives
<1>10. CoinsGo(u, new.ctc - old.ctc)
  <2>1. coins' = [coins EXCEPT ![u] = @ + ctc, ![Router] = @ - ctc] /\ coins[Router] >= ctc
    BY DEF RemoveLiquidity, PayOut
  <2> HIDE DEF old, n, ctc, token, new
  <2>2. CoinsGo(u, 0 - ctc)
    BY <1>4, <2>1, PaidOutFacts DEF Books
  <2>3. new.ctc - old.ctc = 0 - ctc
    BY <1>1, <1>4, <1>6
  <2>4. QED BY <2>2, <2>3
<1>11. allowance' \in [Tokens -> [Users -> Nat]]
  BY DEF RemoveLiquidity, Transfer, Books
<1>12. /\ shares' \in [Tokens -> [Users -> Nat]]
       /\ \A q \in Tokens, w \in Users :
             shares'[q][w] = IF q = t /\ w = u THEN shares[t][u] + n ELSE shares[q][w]
  <2>1. shares' = [shares EXCEPT ![t][u] = @ - s]
    BY DEF RemoveLiquidity
  <2>2. n = 0 - s
    OBVIOUS
  <2> HIDE DEF n, old, new
  <2>3. QED BY <1>1, <1>2, <2>1, <2>2 DEF Books
<1>13. n \in Int /\ n # 0
  BY <1>2
<1>14. Trades(t, u, new, n)
  <2> HIDE DEF n, ctc, token, new
  <2>1. QED BY <1>6, <1>7, <1>8, <1>9, <1>10, <1>11, <1>12, <1>13 DEF Trades
<1>15. new.ctc * old.total >= old.ctc * new.total
  <2>1. n = 0 - s
    OBVIOUS
  <2> HIDE DEF old, n, ctc, token, new
  <2>2. new.ctc * old.total = old.ctc * old.total - ctc * old.total
    BY <1>1, <1>4, <1>6, Z3
  <2>3. old.ctc * new.total = old.ctc * old.total - s * old.ctc
    BY <1>1, <1>6, <2>1, Z3
  <2>4. old.ctc * old.total \in Nat /\ ctc * old.total \in Nat /\ s * old.ctc \in Nat
    BY <1>1, <1>4, TimesNat
  <2>5. QED BY <1>4, <2>2, <2>3, <2>4
<1>16. (new.token + 1) * old.total >= old.token * new.total
  <2>1. n = 0 - s
    OBVIOUS
  <2> HIDE DEF old, n, ctc, token, new
  <2>2. (new.token + 1) * old.total = old.token * old.total - token * old.total + old.total
    BY <1>1, <1>5, <1>6, Z3
  <2>3. old.token * new.total = old.token * old.total - s * old.token
    BY <1>1, <1>6, <2>1, Z3
  <2>4. old.token * old.total \in Nat /\ token * old.total \in Nat /\ s * old.token \in Nat
    BY <1>1, <1>5, TimesNat
  <2>5. QED BY <1>1, <1>5, <2>2, <2>3, <2>4
<1> HIDE DEF n, new
<1>17. QED BY <1>13, <1>14, <1>15, <1>16 DEF Fair

\* The two swaps: coins for tokens, and tokens for coins.
LEMMA CoinSwapTrades ==
    ASSUME Books, Backed, NEW t \in Tokens, NEW u \in Users, NEW v \in Nat, NEW minOut,
           SwapCTCForToken(t, u, v, minOut)
    PROVE  \E new : Trades(t, u, new, 0) /\ Fair(pools[t], new, 0)
<1> DEFINE old == pools[t]
           out == Out(v, old.ctc, old.token)
           new == [old EXCEPT !.ctc = @ + v, !.token = @ - out]
<1>1. /\ old \in Pool
      /\ old.ctc \in Nat /\ old.token \in Nat /\ old.total \in Nat
      /\ old.ctc > 0 /\ old.token > 0 /\ old.total > 0
      /\ balanceOf[t][Router] >= old.token
  BY DEF Books, Backed, ReservesAgree, Pool, SwapCTCForToken, Liquid
<1>2. v > 0 /\ coins[u] >= v
  BY DEF SwapCTCForToken, Pay
<1>3. /\ out \in Nat /\ out < old.token
      /\ (old.ctc + v) * (old.token - out) >= old.ctc * old.token
  <2>1. old.ctc \in Nat \ {0}
    BY <1>1
  <2> HIDE DEF old
  <2>2. QED BY <1>1, <2>1, OutFacts
<1>4. /\ new \in Pool /\ new.ctc = old.ctc + v /\ new.token = old.token - out
      /\ new.total = old.total
  <2> DEFINE ctc == old.ctc + v
             token == old.token - out
  <2>1. ctc \in Nat /\ token \in Nat
    <3> HIDE DEF old, out
    <3>1. QED BY <1>1, <1>3
  <2>2. new = [old EXCEPT !.ctc = ctc, !.token = token]
    OBVIOUS
  <2> HIDE DEF old, out, new
  <2>3. new \in Pool /\ new.ctc = ctc /\ new.token = token /\ new.total = old.total
    <3> HIDE DEF ctc, token
    <3>1. QED BY <1>1, <2>1, <2>2 DEF Pool
  <2>4. QED BY <2>3
<1>5. pools' = [pools EXCEPT ![t] = new]
  BY DEF SwapCTCForToken, Books
<1>6. Whole(new)
  <2> HIDE DEF old, out, new
  <2>1. new.ctc > 0 /\ new.token > 0 /\ new.total > 0
    BY <1>1, <1>2, <1>3, <1>4
  <2>2. QED BY <2>1 DEF Whole
<1>7. TokensGo(t, u, new.token - old.token)
  <2>1. Moved(t, Router, u, out)
    BY DEF SwapCTCForToken, Transfer
  <2> HIDE DEF old, out, new
  <2>2. new.token - old.token = 0 - out
    BY <1>1, <1>3, <1>4
  <2>3. QED BY <1>3, <2>1, <2>2, RouterGives
<1>8. CoinsGo(u, new.ctc - old.ctc)
  <2>1. coins' = [coins EXCEPT ![u] = @ - v, ![Router] = @ + v]
    BY DEF SwapCTCForToken, Pay
  <2> HIDE DEF old, out, new
  <2>2. CoinsGo(u, v)
    BY <1>2, <2>1, PaidFacts DEF Books
  <2>3. new.ctc - old.ctc = v
    BY <1>1, <1>4
  <2>4. QED BY <2>2, <2>3
<1>9. allowance' \in [Tokens -> [Users -> Nat]] /\ shares' = shares
  BY DEF SwapCTCForToken, Transfer, Books
<1>10. Trades(t, u, new, 0)
  <2>1. /\ shares' \in [Tokens -> [Users -> Nat]]
        /\ \A q \in Tokens, w \in Users :
              shares'[q][w] = IF q = t /\ w = u THEN shares[t][u] + 0 ELSE shares[q][w]
    BY <1>9 DEF Books
  <2>2. new.total = pools[t].total + 0
    BY <1>1, <1>4
  <2> HIDE DEF out, new
  <2>3. QED BY <1>4, <1>5, <1>6, <1>7, <1>8, <1>9, <2>1, <2>2 DEF Trades
<1>11. new.ctc * new.token >= old.ctc * old.token
  <2> HIDE DEF old, out, new
  <2>1. QED BY <1>3, <1>4
<1>12. QED BY <1>10, <1>11 DEF Fair

LEMMA TokenSwapTrades ==
    ASSUME Books, Backed, NEW t \in Tokens, NEW u \in Users, NEW in \in Nat, NEW minOut,
           SwapTokenForCTC(t, u, in, minOut)
    PROVE  \E new : Trades(t, u, new, 0) /\ Fair(pools[t], new, 0)
<1> DEFINE old == pools[t]
           out == Out(in, old.token, old.ctc)
           new == [old EXCEPT !.token = @ + in, !.ctc = @ - out]
<1>1. /\ old \in Pool
      /\ old.ctc \in Nat /\ old.token \in Nat /\ old.total \in Nat
      /\ old.ctc > 0 /\ old.token > 0 /\ old.total > 0
      /\ balanceOf[t][Router] >= old.token
  BY DEF Books, Backed, ReservesAgree, Pool, SwapTokenForCTC, Liquid
<1>2. in > 0 /\ allowance[t][u] >= in
  BY DEF SwapTokenForCTC, TransferFrom
<1>3. /\ out \in Nat /\ out < old.ctc
      /\ (old.token + in) * (old.ctc - out) >= old.token * old.ctc
  <2>1. old.token \in Nat \ {0}
    BY <1>1
  <2> HIDE DEF old
  <2>2. QED BY <1>1, <2>1, OutFacts
<1>4. /\ new \in Pool /\ new.ctc = old.ctc - out /\ new.token = old.token + in
      /\ new.total = old.total
  <2> DEFINE ctc == old.ctc - out
             token == old.token + in
  <2>1. ctc \in Nat /\ token \in Nat
    <3> HIDE DEF old, out
    <3>1. QED BY <1>1, <1>3
  <2>2. new = [old EXCEPT !.token = token, !.ctc = ctc]
    OBVIOUS
  <2> HIDE DEF old, out, new
  <2>3. new \in Pool /\ new.ctc = ctc /\ new.token = token /\ new.total = old.total
    <3> HIDE DEF ctc, token
    <3>1. QED BY <1>1, <2>1, <2>2 DEF Pool
  <2>4. QED BY <2>3
<1>5. pools' = [pools EXCEPT ![t] = new]
  BY DEF SwapTokenForCTC, Books
<1>6. Whole(new)
  <2> HIDE DEF old, out, new
  <2>1. new.ctc > 0 /\ new.token > 0 /\ new.total > 0
    BY <1>1, <1>2, <1>3, <1>4
  <2>2. QED BY <2>1 DEF Whole
<1>7. TokensGo(t, u, new.token - old.token)
  <2>1. Moved(t, u, Router, in)
    BY DEF SwapTokenForCTC, TransferFrom
  <2> HIDE DEF old, out, new
  <2>2. new.token - old.token = in
    BY <1>1, <1>4
  <2>3. QED BY <2>1, <2>2, RouterGets
<1>8. CoinsGo(u, new.ctc - old.ctc)
  <2>1. coins' = [coins EXCEPT ![u] = @ + out, ![Router] = @ - out] /\ coins[Router] >= out
    BY DEF SwapTokenForCTC, PayOut
  <2> HIDE DEF old, out, new
  <2>2. CoinsGo(u, 0 - out)
    BY <1>3, <2>1, PaidOutFacts DEF Books
  <2>3. new.ctc - old.ctc = 0 - out
    BY <1>1, <1>3, <1>4
  <2>4. QED BY <2>2, <2>3
<1>9. allowance' \in [Tokens -> [Users -> Nat]] /\ shares' = shares
  <2>1. allowance' = [allowance EXCEPT ![t][u] = @ - in] /\ shares' = shares
    BY DEF SwapTokenForCTC, TransferFrom
  <2>2. QED BY <1>2, <2>1 DEF Books
<1>10. Trades(t, u, new, 0)
  <2>1. /\ shares' \in [Tokens -> [Users -> Nat]]
        /\ \A q \in Tokens, w \in Users :
              shares'[q][w] = IF q = t /\ w = u THEN shares[t][u] + 0 ELSE shares[q][w]
    BY <1>9 DEF Books
  <2>2. new.total = pools[t].total + 0
    BY <1>1, <1>4
  <2> HIDE DEF out, new
  <2>3. QED BY <1>4, <1>5, <1>6, <1>7, <1>8, <1>9, <2>1, <2>2 DEF Trades
<1>11. new.ctc * new.token >= old.ctc * old.token
  <2> HIDE DEF old, out, new
  <2>1. new.ctc * new.token = (old.token + in) * (old.ctc - out)
    BY <1>1, <1>3, <1>4, Z3
  <2>2. old.ctc * old.token = old.token * old.ctc
    BY <1>1, Z3
  <2>3. QED BY <1>3, <2>1, <2>2
<1>12. QED BY <1>10, <1>11 DEF Fair

-----------------------------------------------------------------------------
(* Steps *)

\* What services hold on to between their steps: reserves of two sides, swaps
\* of accounts, and a scan that has every transfer of the blocks behind it.
QuoteBegun(q) ==
    /\ q.token \in Tokens /\ q.in \in Nat
    /\ q.reserves \in Pool /\ q.reserves.ctc > 0 /\ q.reserves.token > 0
Passed(s) == (s.first .. s.next - 1) \ s.lost
Scanned(s) ==
    /\ s = [op |-> "scan", token |-> s.token, user |-> s.user, first |-> s.first, next |-> s.next,
            last |-> s.last, sent |-> s.sent, received |-> s.received, lost |-> s.lost]
    /\ s.first \in Nat \ {0} /\ s.next \in Nat /\ s.last \in Nat
    /\ s.first <= s.next /\ s.next <= s.last + 1 /\ s.last <= Len(events)
    /\ s.lost \subseteq s.first .. s.next - 1
    /\ s.sent = Sent(s.token, s.user, Passed(s))
    /\ s.received = Received(s.token, s.user, Passed(s))
Begun(x) ==
    x # None => /\ x.op = "quote" => QuoteBegun(x)
                /\ x.op = "scan" => Scanned(x)
Inputs ==
    /\ events \in Seq(Transfers)
    /\ \A r \in Requests : Begun(requests[r])
    /\ \A q \in quotes : q.token \in Tokens /\ q.in \in Nat
    /\ \A s \in signed : s.user \in Users /\ s.token \in Tokens /\ s.in \in Nat

MarketInv == Books /\ Backed

\* Beside the market users give coins away, or tokens, or nothing.
Harmless ==
    \/ /\ balanceOf' = balanceOf
       /\ \E u \in Users : /\ coins'[u] <= coins[u]
                           /\ \A v \in Users : v # u => coins'[v] = coins[v]
    \/ /\ coins' = coins
       /\ \E t \in Tokens, u \in Users : \A s \in Tokens, v \in Users :
              balanceOf'[s][v] >= balanceOf[s][v] \/ (s = t /\ v = u)
    \/ coins' = coins /\ balanceOf' = balanceOf

\* Who does not trade leaves the market alone and takes nothing from the router.
Idle ==
    /\ Harmless
    /\ balanceOf' \in [Tokens -> [Accounts -> Nat]]
    /\ \A t \in Tokens : balanceOf'[t][Router] >= balanceOf[t][Router]
    /\ allowance' \in [Tokens -> [Users -> Nat]]
    /\ coins' \in [Accounts -> Nat] /\ coins'[Router] >= coins[Router]
    /\ UNCHANGED marketVars

LEMMA IdleKeepsBooks == MarketInv /\ Idle => MarketInv'
<1> SUFFICES ASSUME MarketInv, Idle PROVE MarketInv'
  OBVIOUS
<1>1. pools' = pools /\ shares' = shares
  BY DEF Idle, marketVars
<1>2. Books'
  BY <1>1 DEF MarketInv, Books, Idle
<1>3. ReservesAgree'
  BY <1>1 DEF MarketInv, Backed, ReservesAgree
<1>4. ASSUME NEW t \in Tokens PROVE balanceOf'[t][Router] >= pools'[t].token
  <2>1. /\ balanceOf[t][Router] \in Nat /\ balanceOf'[t][Router] \in Nat /\ pools[t].token \in Nat
        /\ balanceOf[t][Router] >= pools[t].token /\ balanceOf'[t][Router] >= balanceOf[t][Router]
    BY AccountFacts DEF MarketInv, Books, Backed, Idle, Pool
  <2>2. QED BY <1>1, <2>1
<1>5. (\A t \in Tokens : Sum(shares[t], Users) = pools[t].total)'
  BY <1>1 DEF MarketInv, Backed, Sum, Units
<1>6. coins'[Router] >= Sum(Coins, Tokens)
  <2>1. /\ coins[Router] \in Nat /\ coins'[Router] \in Nat
        /\ coins[Router] >= Sum(Coins, Tokens) /\ coins'[Router] >= coins[Router]
    BY AccountFacts DEF MarketInv, Books, Backed, Idle
  <2>2. Sum(Coins, Tokens) \in Nat
    BY SumNat, ServiceAssumption DEF MarketInv, Books, Coins, Pool
  <2>3. QED BY <2>1, <2>2
<1>7. (coins[Router] >= Sum(Coins, Tokens))'
  BY <1>1, <1>6 DEF Sum, Units, Coins
<1>8. QED BY <1>2, <1>3, <1>4, <1>5, <1>7 DEF MarketInv, Backed

FairTrade ==
    \E t \in Tokens, u \in Users : \E new, n : Trades(t, u, new, n) /\ Fair(pools[t], new, n)

LEMMA TransactTrades ==
    ASSUME MarketInv, NEW t \in Tokens, NEW u \in Users, NEW n \in Nat, Transact(t, u, n)
    PROVE  Idle \/ FairTrade
<1> USE DEF MarketInv
<1>0. /\ coins[Router] \in Nat /\ \A q \in Tokens : balanceOf[q][Router] \in Nat
      /\ \A v \in Users : coins[v] \in Nat
      /\ \A q \in Tokens, v \in Users : balanceOf[q][v] \in Nat
  BY AccountFacts DEF Books
<1>1. ASSUME NEW x \in Accounts, Mint(t, x, n), UNCHANGED <<marketVars, coins>> PROVE Idle
  <2>1. balanceOf' = [balanceOf EXCEPT ![t][x] = @ + n] /\ allowance' = allowance
    BY <1>1 DEF Mint
  <2>2. balanceOf' \in [Tokens -> [Accounts -> Nat]]
    BY <2>1 DEF Books
  <2>3. \A q \in Tokens, a \in Accounts : balanceOf'[q][a] >= balanceOf[q][a]
    BY <2>1 DEF Books
  <2>4. Harmless
    BY <1>1, <2>3, AccountFacts DEF Harmless
  <2>5. QED BY <1>0, <1>1, <2>1, <2>2, <2>3, <2>4, AccountFacts DEF Idle, Books
<1>2. ASSUME NEW x \in Accounts, Transfer(t, u, x, n), UNCHANGED <<marketVars, coins>> PROVE Idle
  <2>1. Moved(t, u, x, n) /\ allowance' = allowance
    BY <1>2 DEF Transfer
  <2>2. /\ balanceOf' \in [Tokens -> [Accounts -> Nat]]
        /\ \A s \in Tokens : balanceOf'[s][Router] >= balanceOf[s][Router]
    BY <1>0, <2>1, MovedFacts, AccountFacts
  <2>3. \A s \in Tokens, v \in Users : balanceOf'[s][v] >= balanceOf[s][v] \/ (s = t /\ v = u)
    BY <1>0, <2>1, MovedFacts, AccountFacts
  <2>4. Harmless
    BY <1>2, <2>3 DEF Harmless
  <2>5. QED BY <1>0, <1>2, <2>1, <2>2, <2>4 DEF Idle, Books
<1>3. CASE Approve(t, u, n) /\ UNCHANGED <<marketVars, coins>>
  <2>1. Harmless
    BY <1>3 DEF Approve, Harmless
  <2>2. QED BY <1>0, <1>3, <2>1 DEF Approve, Idle, Books
<1>9. CASE Receive(u, n)
  <2>1. /\ coins' = [coins EXCEPT ![u] = @ - n, ![Router] = @ + n] /\ coins[u] >= n
        /\ UNCHANGED <<balanceOf, allowance, marketVars>>
    BY <1>9 DEF Receive, Pay, tokenVars
  <2>2. CoinsGo(u, n)
    BY <2>1, PaidFacts DEF Books
  <2>3. Harmless
    <3>1. coins'[u] <= coins[u] /\ \A v \in Users : v # u => coins'[v] = coins[v]
      BY <1>0, <2>2 DEF CoinsGo
    <3>2. QED BY <2>1, <3>1 DEF Harmless
  <2>4. QED BY <1>0, <2>1, <2>2, <2>3 DEF CoinsGo, Idle, Books
<1>4. CASE AddLiquidity(t, u, n)
  BY <1>4, AddTrades DEF FairTrade
<1>5. CASE RemoveLiquidity(t, u, n)
  BY <1>5, RemoveTrades DEF FairTrade
<1>6. CASE SwapCTCForToken(t, u, n, 0)
  BY <1>6, CoinSwapTrades DEF FairTrade
<1>7. CASE SwapTokenForCTC(t, u, n, 0)
  BY <1>7, TokenSwapTrades DEF FairTrade
<1>8. QED BY <1>1, <1>2, <1>3, <1>4, <1>5, <1>6, <1>7, <1>9 DEF Transact

LEMMA MineTrades ==
    ASSUME MarketInv, Inputs, NEW s \in signed, MineSwap(s)
    PROVE  FairTrade
<1>1. s.user \in Users /\ s.token \in Tokens /\ s.in \in Nat
  BY DEF Inputs
<1>2. CASE s.ctcToToken
  <2>1. SwapCTCForToken(s.token, s.user, s.in, s.minOut)
    BY <1>2 DEF MineSwap
  <2>2. QED BY <1>1, <2>1, CoinSwapTrades DEF FairTrade, MarketInv
<1>3. CASE ~s.ctcToToken
  <2>1. SwapTokenForCTC(s.token, s.user, s.in, s.minOut)
    BY <1>3 DEF MineSwap
  <2>2. QED BY <1>1, <2>1, TokenSwapTrades DEF FairTrade, MarketInv
<1>4. QED BY <1>2, <1>3

LEMMA StepTrades == MarketInv /\ Inputs /\ [Next]_vars => Idle \/ FairTrade
<1> SUFFICES ASSUME MarketInv, Inputs, [Next]_vars PROVE Idle \/ FairTrade
  OBVIOUS
<1>1. ASSUME UNCHANGED routerVars PROVE Idle
  <2>1. coins[Router] \in Nat /\ \A q \in Tokens : balanceOf[q][Router] \in Nat
    BY AccountFacts DEF MarketInv, Books
  <2>2. Harmless
    BY <1>1 DEF routerVars, tokenVars, Harmless
  <2>3. QED BY <1>1, <2>1, <2>2 DEF routerVars, tokenVars, Idle, MarketInv, Books
<1>2. ASSUME NEW t \in Tokens, NEW u \in Users, NEW n \in Amounts, Transact(t, u, n)
      PROVE  Idle \/ FairTrade
  BY <1>2, TransactTrades, ServiceAssumption
<1>3. ASSUME NEW r \in Requests, Serve(r) PROVE Idle
  BY <1>1, <1>3 DEF Serve, ReadReserves, ReadQuote, GetTransactions, ScanChunk, Answer
<1>4. ASSUME NEW u \in Users, NEW q \in quotes, NEW minOut, SignSwap(u, q, minOut) PROVE Idle
  BY <1>1, <1>4 DEF SignSwap
<1>5. ASSUME NEW s \in signed, MineSwap(s) PROVE FairTrade
  BY <1>5, MineTrades
<1>6. CASE UNCHANGED vars
  BY <1>1, <1>6 DEF vars
<1>7. QED BY <1>2, <1>3, <1>4, <1>5, <1>6 DEF Next

LEMMA NextMarketInv == MarketInv /\ Inputs /\ [Next]_vars => MarketInv'
<1> SUFFICES ASSUME MarketInv, Inputs, [Next]_vars PROVE MarketInv'
  OBVIOUS
<1>1. ASSUME FairTrade PROVE MarketInv'
  BY <1>1, TradesKeepBooks DEF FairTrade, MarketInv
<1>2. QED BY <1>1, StepTrades, IdleKeepsBooks

LEMMA InitMarketInv == Init => MarketInv
<1> SUFFICES ASSUME Init PROVE MarketInv
  OBVIOUS
<1>1. Books
  BY AccountFacts, ServiceAssumption DEF Init, RouterInit, TokenInit, Books, Pool
<1>2. ReservesAgree /\ \A t \in Tokens : balanceOf[t][Router] >= pools[t].token
  BY AccountFacts DEF Init, RouterInit, TokenInit, ReservesAgree
<1>3. ASSUME NEW S, NEW f, \A x \in S : f[x] = 0 PROVE Sum(f, S) = 0
  <2>1. Units(f, S) = {}
    BY <1>3 DEF Units
  <2>2. QED BY <2>1, FS_EmptySet DEF Sum
<1>4. ASSUME NEW t \in Tokens PROVE Sum(shares[t], Users) = pools[t].total
  <2>1. \A u \in Users : shares[t][u] = 0
    BY DEF Init, RouterInit
  <2>2. QED BY <1>3, <2>1 DEF Init, RouterInit
<1>5. coins[Router] >= Sum(Coins, Tokens)
  <2>1. \A t \in Tokens : Coins[t] = 0
    BY DEF Init, RouterInit, Coins
  <2>2. coins[Router] = 0
    BY AccountFacts DEF Init
  <2>3. QED BY <1>3, <2>1, <2>2
<1>6. QED BY <1>1, <1>2, <1>4, <1>5 DEF MarketInv, Backed

\* Events are only added, one a transaction.
Appends == events' = events \/ \E e \in Transfers : events' = Append(events, e)

LEMMA EventsAppended ==
    ASSUME Inputs, [Next]_vars
    PROVE  Appends
<1>1. ASSUME NEW t \in Tokens, NEW from \in Accounts \cup {Nobody}, NEW to \in Accounts, Emit(t, from, to)
      PROVE  Appends
  BY <1>1 DEF Emit, Transfers, Appends
<1>2. ASSUME NEW t \in Tokens, NEW u \in Users, NEW n \in Nat, Transact(t, u, n)
      PROVE  Appends
  <2>1. u \in Accounts /\ Router \in Accounts /\ \A x \in Users : x \in Accounts
    BY AccountFacts
  <2>2. ASSUME NEW x \in Accounts, Mint(t, x, n) PROVE Appends
    BY <1>1, <2>1, <2>2 DEF Mint
  <2>3. ASSUME NEW x \in Accounts, Transfer(t, u, x, n) PROVE Appends
    BY <1>1, <2>1, <2>3 DEF Transfer, Moved
  <2>4. CASE Approve(t, u, n)
    BY <2>4 DEF Approve, Appends
  <2>5. CASE AddLiquidity(t, u, n)
    BY <1>1, <2>1, <2>5 DEF AddLiquidity, TransferFrom, Moved
  <2>6. CASE RemoveLiquidity(t, u, n)
    BY <1>1, <2>1, <2>6 DEF RemoveLiquidity, Transfer, Moved
  <2>7. CASE SwapCTCForToken(t, u, n, 0)
    BY <1>1, <2>1, <2>7 DEF SwapCTCForToken, Transfer, Moved
  <2>8. CASE SwapTokenForCTC(t, u, n, 0)
    BY <1>1, <2>1, <2>8 DEF SwapTokenForCTC, TransferFrom, Moved
  <2>9. CASE Receive(u, n)
    BY <2>9 DEF Receive, tokenVars, Appends
  <2>10. QED BY <1>2, <2>2, <2>3, <2>4, <2>5, <2>6, <2>7, <2>8, <2>9 DEF Transact
<1>3. ASSUME NEW s \in signed, MineSwap(s) PROVE Appends
  <2>1. s.user \in Users /\ s.token \in Tokens /\ s.user \in Accounts /\ Router \in Accounts
    BY AccountFacts DEF Inputs
  <2>2. CASE s.ctcToToken
    BY <1>1, <1>3, <2>1, <2>2 DEF MineSwap, SwapCTCForToken, Transfer, Moved
  <2>3. CASE ~s.ctcToToken
    BY <1>1, <1>3, <2>1, <2>3 DEF MineSwap, SwapTokenForCTC, TransferFrom, Moved
  <2>4. QED BY <2>2, <2>3
<1>4. ASSUME UNCHANGED routerVars PROVE Appends
  BY <1>4 DEF routerVars, tokenVars, Appends
<1>5. ASSUME NEW r \in Requests, Serve(r) PROVE Appends
  BY <1>4, <1>5 DEF Serve, ReadReserves, ReadQuote, GetTransactions, ScanChunk, Answer
<1>6. ASSUME NEW u \in Users, NEW q \in quotes, NEW minOut, SignSwap(u, q, minOut) PROVE Appends
  BY <1>4, <1>6 DEF SignSwap
<1>7. CASE UNCHANGED vars
  BY <1>4, <1>7 DEF vars
<1>8. QED BY <1>2, <1>3, <1>5, <1>6, <1>7, ServiceAssumption DEF Next

\* What was on the chain stays there.
LEMMA AppendsKeep ==
    ASSUME events \in Seq(Transfers), Appends
    PROVE  /\ events' \in Seq(Transfers)
           /\ Len(events') \in Nat /\ Len(events) \in Nat /\ Len(events) <= Len(events')
           /\ \A b \in 1 .. Len(events) : events'[b] = events[b]
<1>1. CASE events' = events
  BY <1>1
<1>2. ASSUME NEW e \in Transfers, events' = Append(events, e)
      PROVE  /\ events' \in Seq(Transfers)
             /\ Len(events') = Len(events) + 1
             /\ \A b \in 1 .. Len(events) : events'[b] = events[b]
  BY <1>2
<1>3. Len(events) \in Nat
  OBVIOUS
<1>4. QED BY <1>1, <1>2, <1>3 DEF Appends

LEMMA BegunStays ==
    ASSUME events \in Seq(Transfers), Appends, NEW x, Begun(x)
    PROVE  Begun(x)'
<1>1. ASSUME x # None, x.op = "scan" PROVE Scanned(x)'
  <2>1. Scanned(x)
    BY <1>1 DEF Begun
  <2>2. \A b \in Passed(x) : b \in 1 .. Len(events)
    <3>1. Len(events) \in Nat
      OBVIOUS
    <3>2. QED BY <2>1, <3>1 DEF Passed, Scanned
  <2>3. /\ Sent(x.token, x.user, Passed(x))' = Sent(x.token, x.user, Passed(x))
        /\ Received(x.token, x.user, Passed(x))' = Received(x.token, x.user, Passed(x))
    BY <2>2, AppendsKeep DEF Sent, Received, Passed
  <2>4. x.last <= Len(events')
    BY <2>1, AppendsKeep DEF Scanned
  <2>5. QED BY <2>1, <2>3, <2>4 DEF Scanned
<1>2. QED BY <1>1 DEF Begun, QuoteBegun

\* A chunk whose lost blocks are left out, and are noted.
LEMMA ScanGoesOn ==
    ASSUME events \in Seq(Transfers), NEW s, s # None, s.op = "scan", Scanned(s), s.next <= s.last,
           NEW on, on.op = "scan", on.token = s.token, on.user = s.user,
           on.first = s.first, on.last = s.last, on.next = ChunkEnd(s) + 1,
           NEW lost, lost \subseteq s.next .. ChunkEnd(s), on.lost = s.lost \cup lost,
           on.sent = s.sent \cup Sent(s.token, s.user, (s.next .. ChunkEnd(s)) \ lost),
           on.received = s.received \cup Received(s.token, s.user, (s.next .. ChunkEnd(s)) \ lost),
           on = [op |-> "scan", token |-> on.token, user |-> on.user, first |-> on.first, next |-> on.next,
                 last |-> on.last, sent |-> on.sent, received |-> on.received, lost |-> on.lost]
    PROVE  Scanned(on)
<1>1. /\ ChunkEnd(s) \in Nat /\ s.next <= ChunkEnd(s) /\ ChunkEnd(s) <= s.last
  BY ServiceAssumption DEF ChunkEnd, Lesser, Scanned
<1>2. Passed(on) = Passed(s) \cup ((s.next .. ChunkEnd(s)) \ lost)
  BY <1>1 DEF Passed, Scanned
<1>3. /\ on.sent = Sent(on.token, on.user, Passed(on))
      /\ on.received = Received(on.token, on.user, Passed(on))
  BY <1>2 DEF Sent, Received, Scanned
<1>4. /\ s.first \in Nat \ {0} /\ s.next \in Nat /\ s.last \in Nat /\ s.first <= s.next
      /\ s.last <= Len(events) /\ s.lost \subseteq s.first .. s.next - 1
  BY DEF Scanned
<1>5. /\ on.first \in Nat \ {0} /\ on.next \in Nat /\ on.last \in Nat
      /\ on.first <= on.next /\ on.next <= on.last + 1 /\ on.last <= Len(events)
  BY <1>1, <1>4
<1>6. on.lost \subseteq on.first .. on.next - 1
  <2>1. \A b \in s.lost \cup lost : b \in s.first .. ChunkEnd(s)
    BY <1>1, <1>4
  <2>2. on.next - 1 = ChunkEnd(s)
    BY <1>1
  <2>3. QED BY <2>1, <2>2
<1>7. QED BY <1>3, <1>5, <1>6 DEF Scanned

\* The blocks a chunk and its halves are made of.
LEMMA HalvesInChunk ==
    ASSUME NEW s, Scanned(s), s.next <= s.last
    PROVE  \A i \in {1, 2} : Halves(s)[i] \subseteq s.next .. ChunkEnd(s)
<1> DEFINE mid == s.next + (ChunkEnd(s) - s.next) \div 2
<1>1. /\ s.next \in Nat /\ ChunkEnd(s) \in Nat /\ s.next <= ChunkEnd(s)
  BY ServiceAssumption DEF ChunkEnd, Lesser, Scanned
<1>2. mid \in Nat /\ s.next <= mid /\ mid <= ChunkEnd(s)
  BY <1>1
<1>3. Halves(s) = <<s.next .. mid, (mid + 1) .. ChunkEnd(s)>>
  BY DEF Halves
<1> HIDE DEF mid
<1>4. QED BY <1>1, <1>2, <1>3

LEMMA ScanStep ==
    ASSUME Inputs, NEW r \in Requests, ScanChunk(r)
    PROVE  \E on : Set(r, on) /\ on.op = "scan" /\ Scanned(on)
<1> DEFINE s == requests[r]
           chunk == s.next .. ChunkEnd(s)
           next == ChunkEnd(s) + 1
           before == [s EXCEPT !.next = next]
<1>1. s # None /\ s.op = "scan" /\ s.next <= s.last
  BY DEF ScanChunk, Doing
<1>2. Scanned(s) /\ events \in Seq(Transfers)
  BY <1>1 DEF Inputs, Begun
<1>3. Begun(s)
  BY DEF Inputs
<1>4. s = [op |-> "scan", token |-> s.token, user |-> s.user, first |-> s.first, next |-> s.next,
            last |-> s.last, sent |-> s.sent, received |-> s.received, lost |-> s.lost]
  BY <1>2 DEF Scanned
<1>5. ASSUME NEW lost, lost \subseteq chunk
      PROVE  LET on == [Queried(before, chunk \ lost) EXCEPT !.lost = @ \cup lost]
             IN  on.op = "scan" /\ Scanned(on)
  <2> DEFINE sent == s.sent \cup Sent(s.token, s.user, chunk \ lost)
             received == s.received \cup Received(s.token, s.user, chunk \ lost)
             all == s.lost \cup lost
             on == [op |-> "scan", token |-> s.token, user |-> s.user, first |-> s.first, next |-> next,
                    last |-> s.last, sent |-> sent, received |-> received, lost |-> all]
  <2>1. before = [op |-> "scan", token |-> s.token, user |-> s.user, first |-> s.first, next |-> next,
                  last |-> s.last, sent |-> s.sent, received |-> s.received, lost |-> s.lost]
    <3> HIDE DEF s, next
    <3>1. QED BY <1>4
  <2>2. Queried(before, chunk \ lost) =
            [op |-> "scan", token |-> s.token, user |-> s.user, first |-> s.first, next |-> next,
             last |-> s.last, sent |-> sent, received |-> received, lost |-> s.lost]
    <3> HIDE DEF s, next, before, chunk
    <3>1. /\ before.token = s.token /\ before.user = s.user
          /\ before.sent = s.sent /\ before.received = s.received
      BY <2>1
    <3>2. Queried(before, chunk \ lost) = [before EXCEPT !.sent = sent, !.received = received]
      BY <3>1 DEF Queried
    <3> HIDE DEF sent, received
    <3>3. QED BY <2>1, <3>2
  <2>3. [Queried(before, chunk \ lost) EXCEPT !.lost = @ \cup lost] = on
    <3> HIDE DEF s, next, before, chunk, sent, received
    <3>1. QED BY <2>2
  <2>4. /\ on = [op |-> "scan", token |-> on.token, user |-> on.user, first |-> on.first, next |-> on.next,
                 last |-> on.last, sent |-> on.sent, received |-> on.received, lost |-> on.lost]
        /\ on.op = "scan" /\ on.token = s.token /\ on.user = s.user
        /\ on.first = s.first /\ on.last = s.last /\ on.next = ChunkEnd(s) + 1
        /\ on.lost = s.lost \cup lost
        /\ on.sent = s.sent \cup Sent(s.token, s.user, (s.next .. ChunkEnd(s)) \ lost)
        /\ on.received = s.received \cup Received(s.token, s.user, (s.next .. ChunkEnd(s)) \ lost)
    OBVIOUS
  <2>5. Scanned(on)
    <3>1. lost \subseteq s.next .. ChunkEnd(s)
      BY <1>5
    <3> HIDE DEF s, on
    <3>2. QED BY <1>1, <1>2, <2>4, <3>1, ScanGoesOn
  <2>6. QED BY <2>3, <2>4, <2>5
<1>6. CASE Set(r, Queried(before, chunk))
  <2>1. Queried(before, chunk) = [Queried(before, chunk \ {}) EXCEPT !.lost = @ \cup {}]
    <3>1. before = [op |-> "scan", token |-> s.token, user |-> s.user, first |-> s.first, next |-> next,
                    last |-> s.last, sent |-> s.sent, received |-> s.received, lost |-> s.lost]
      <4> HIDE DEF s, next
      <4>1. QED BY <1>4
    <3>2. chunk \ {} = chunk
      OBVIOUS
    <3> DEFINE on == Queried(before, chunk)
               sent == before.sent \cup Sent(before.token, before.user, chunk)
               received == before.received \cup Received(before.token, before.user, chunk)
    <3> HIDE DEF s, next, before, chunk
    <3>3. on = [before EXCEPT !.sent = sent, !.received = received]
      BY DEF Queried
    <3> HIDE DEF sent, received, on
    <3>4. /\ on.lost = before.lost
          /\ on = [op |-> on.op, token |-> on.token, user |-> on.user, first |-> on.first, next |-> on.next,
                   last |-> on.last, sent |-> on.sent, received |-> on.received, lost |-> on.lost]
      BY <3>1, <3>3
    <3>5. on = [on EXCEPT !.lost = @ \cup {}]
      BY <3>4
    <3>6. QED BY <3>2, <3>5 DEF on
  <2>2. LET on == [Queried(before, chunk \ {}) EXCEPT !.lost = @ \cup {}]
        IN  on.op = "scan" /\ Scanned(on)
    <3> HIDE DEF s, next, before
    <3>1. QED BY <1>5
  <2> HIDE DEF before, chunk, s
  <2>3. QED BY <1>6, <2>1, <2>2
<1>7. ASSUME NEW failed \in SUBSET {1, 2},
             Set(r, [Queried(before, chunk \ UNION {Halves(s)[i] : i \in failed})
                        EXCEPT !.lost = @ \cup UNION {Halves(s)[i] : i \in failed}])
      PROVE  \E on : Set(r, on) /\ on.op = "scan" /\ Scanned(on)
  <2> DEFINE lost == UNION {Halves(s)[i] : i \in failed}
  <2>1. lost \subseteq chunk
    BY <1>1, <1>2, HalvesInChunk
  <2> HIDE DEF lost, before, chunk, s
  <2>2. QED BY <1>5, <1>7, <2>1 DEF lost
<1>8. QED BY <1>6, <1>7 DEF ScanChunk

\* A scan begins with nothing behind it.
LEMMA ScanStarts ==
    ASSUME events \in Seq(Transfers), NEW t, NEW u
    PROVE  Scan(t, u).op = "scan" /\ Scanned(Scan(t, u))
<1> DEFINE s == Scan(t, u)
           start == Greater(1, Height - Lookback)
<1>1. s = [op |-> "scan", token |-> t, user |-> u, first |-> start, next |-> start,
           last |-> Len(events), sent |-> {}, received |-> {}, lost |-> {}]
  BY DEF Scan, Height
<1>2. /\ Len(events) \in Nat
      /\ start \in Nat \ {0} /\ start <= Len(events) + 1
  BY ServiceAssumption DEF Greater, Height
<1> HIDE DEF s, start
<1>3. Passed(s) = {}
  BY <1>1, <1>2 DEF Passed
<1>4. Sent(s.token, s.user, Passed(s)) = {} /\ Received(s.token, s.user, Passed(s)) = {}
  BY <1>3 DEF Sent, Received
<1>5. s.op = "scan" /\ Scanned(s)
  <2>1. /\ s.op = "scan" /\ s.token = t /\ s.user = u /\ s.first = start /\ s.next = start
        /\ s.last = Len(events) /\ s.sent = {} /\ s.received = {} /\ s.lost = {}
    BY <1>1
  <2>2. s = [op |-> "scan", token |-> s.token, user |-> s.user, first |-> s.first, next |-> s.next,
             last |-> s.last, sent |-> s.sent, received |-> s.received, lost |-> s.lost]
    BY <1>1, <2>1
  <2>3. QED BY <1>2, <1>4, <2>1, <2>2 DEF Scanned
<1>6. QED BY <1>5 DEF s

\* A request that turns to something a service may hold on to.
Turns(r, x) ==
    /\ Set(r, x) /\ Begun(x)
    /\ events' = events /\ signed' = signed
    /\ \A q \in quotes' : q \in quotes \/ (q.token \in Tokens /\ q.in \in Nat)

LEMMA TurnsKeep ==
    ASSUME Inputs, NEW r \in Requests, NEW x, Turns(r, x)
    PROVE  Inputs'
<1>1. ASSUME NEW q \in Requests PROVE Begun(requests[q])'
  <2>1. requests'[q] = x \/ requests'[q] = requests[q]
    BY DEF Turns, Set
  <2>2. Begun(requests[q]) /\ Begun(x)
    BY DEF Inputs, Turns
  <2>3. events' = events
    BY DEF Turns
  <2>4. QED BY <2>1, <2>2, <2>3 DEF Begun, QuoteBegun, Scanned, Sent, Received, Passed
<1>2. QED BY <1>1 DEF Inputs, Turns

\* Steps of the users and of the chain.
Waits ==
    /\ requests' = requests
    /\ quotes' \subseteq quotes
    /\ \A s \in signed' : s \in signed \/ (s.user \in Users /\ s.token \in Tokens /\ s.in \in Nat)

LEMMA WaitsKeep ==
    ASSUME Inputs, [Next]_vars, Waits
    PROVE  Inputs'
<1>0. events \in Seq(Transfers)
  BY DEF Inputs
<1>1. Appends
  BY EventsAppended
<1>2. ASSUME NEW q \in Requests PROVE Begun(requests[q])'
  <2>1. Begun(requests[q]) /\ requests'[q] = requests[q]
    BY DEF Inputs, Waits
  <2>2. ASSUME NEW x, Begun(x) PROVE Begun(x)'
    BY <1>0, <1>1, <2>2, BegunStays
  <2>3. PICK x : x = requests[q]
    OBVIOUS
  <2>4. Begun(x) /\ requests'[q] = x
    BY <2>1, <2>3
  <2>5. Begun(x)'
    BY <2>2, <2>4
  <2>6. QED BY <2>4, <2>5 DEF Begun, QuoteBegun, Scanned, Sent, Received, Passed
<1>3. events' \in Seq(Transfers)
  BY <1>0, <1>1, AppendsKeep
<1>4. QED BY <1>2, <1>3 DEF Inputs, Waits

LEMMA NextInputs == MarketInv /\ Inputs /\ [Next]_vars => Inputs'
<1> SUFFICES ASSUME MarketInv, Inputs, [Next]_vars PROVE Inputs'
  OBVIOUS
<1>0. events \in Seq(Transfers)
  BY DEF Inputs
<1>2. ASSUME NEW t \in Tokens, NEW u \in Users, NEW n \in Amounts, Transact(t, u, n)
      PROVE  Inputs'
  <2>1. Waits
    BY <1>2 DEF Transact, serviceVars, Waits
  <2>2. QED BY <2>1, WaitsKeep
<1>3. ASSUME NEW r \in Requests, NEW t \in Tokens, NEW in \in Amounts, NEW way \in BOOLEAN,
             ReadReserves(r, t, in, way)
      PROVE  Inputs'
  <2> DEFINE x == [op |-> "quote", token |-> t, in |-> in, ctcToToken |-> way, reserves |-> pools[t]]
  <2>1. Set(r, x) /\ UNCHANGED <<events, signed, quotes>>
    BY <1>3 DEF ReadReserves, routerVars, tokenVars
  <2>2. Begun(x)
    BY <1>3, ServiceAssumption DEF ReadReserves, Liquid, MarketInv, Books, Begun, QuoteBegun
  <2> HIDE DEF x
  <2>3. Turns(r, x)
    BY <2>1, <2>2 DEF Turns
  <2>4. QED BY <2>3, TurnsKeep
<1>4. ASSUME NEW r \in Requests, ReadQuote(r) PROVE Inputs'
  <2>1. Set(r, None) /\ UNCHANGED <<events, signed>> /\ Begun(None)
    BY <1>4 DEF ReadQuote, routerVars, tokenVars, Begun
  <2>2. requests[r].token \in Tokens /\ requests[r].in \in Nat
    BY <1>4 DEF ReadQuote, Doing, Inputs, Begun, QuoteBegun
  <2>3. \A q \in quotes' : q \in quotes \/ (q.token \in Tokens /\ q.in \in Nat)
    BY <1>4, <2>2 DEF ReadQuote
  <2>4. Turns(r, None)
    BY <2>1, <2>3 DEF Turns
  <2>5. QED BY <2>4, TurnsKeep
<1>5. ASSUME NEW r \in Requests, NEW t \in Tokens, NEW u \in Users, GetTransactions(r, t, u)
      PROVE  Inputs'
  <2>1. UNCHANGED <<events, signed, quotes>>
    BY <1>5 DEF GetTransactions, routerVars, tokenVars
  <2>2. CASE UNCHANGED requests
    <3>1. Waits
      BY <2>1, <2>2 DEF Waits
    <3>2. QED BY <3>1, WaitsKeep
  <2>3. CASE Set(r, Scan(t, u))
    <3>1. Begun(Scan(t, u))
      BY <1>0, ScanStarts DEF Begun
    <3>2. Turns(r, Scan(t, u))
      BY <2>1, <2>3, <3>1 DEF Turns
    <3>3. QED BY <3>2, TurnsKeep
  <2>4. QED BY <1>5, <2>2, <2>3 DEF GetTransactions
<1>6. ASSUME NEW r \in Requests, ScanChunk(r) PROVE Inputs'
  <2>1. UNCHANGED <<events, signed, quotes>>
    BY <1>6 DEF ScanChunk, routerVars, tokenVars
  <2>2. PICK x : Set(r, x) /\ x.op = "scan" /\ Scanned(x)
    BY <1>6, ScanStep
  <2>3. Begun(x)
    BY <2>2 DEF Begun
  <2>4. Turns(r, x)
    BY <2>1, <2>2, <2>3 DEF Turns
  <2>5. QED BY <2>4, TurnsKeep
<1>7. ASSUME NEW r \in Requests, Answer(r) PROVE Inputs'
  <2>1. Set(r, None) /\ UNCHANGED <<events, signed, quotes>> /\ Begun(None)
    BY <1>7 DEF Answer, routerVars, tokenVars, Begun
  <2>2. Turns(r, None)
    BY <2>1 DEF Turns
  <2>3. QED BY <2>2, TurnsKeep
<1>8. ASSUME NEW u \in Users, NEW q \in quotes, NEW minOut, SignSwap(u, q, minOut) PROVE Inputs'
  <2>1. q.token \in Tokens /\ q.in \in Nat
    BY DEF Inputs
  <2>2. \A s \in signed' : s \in signed \/ (s.user \in Users /\ s.token \in Tokens /\ s.in \in Nat)
    BY <1>8, <2>1 DEF SignSwap
  <2>3. UNCHANGED requests /\ quotes' \subseteq quotes
    BY <1>8 DEF SignSwap
  <2>4. Waits
    BY <2>2, <2>3 DEF Waits
  <2>5. QED BY <2>4, WaitsKeep
<1>9. ASSUME NEW s \in signed, MineSwap(s) PROVE Inputs'
  <2>1. Waits
    BY <1>9 DEF MineSwap, Waits
  <2>2. QED BY <2>1, WaitsKeep
<1>10. CASE UNCHANGED vars
  <2>1. Waits
    BY <1>10 DEF vars, serviceVars, Waits
  <2>2. QED BY <2>1, WaitsKeep
<1>11. ASSUME NEW r \in Requests, Serve(r) PROVE Inputs'
  BY <1>3, <1>4, <1>5, <1>6, <1>7, <1>11 DEF Serve
<1>12. QED BY <1>2, <1>8, <1>9, <1>10, <1>11 DEF Next

LEMMA InitInputs == Init => Inputs
BY DEF Init, RouterInit, TokenInit, Inputs, Begun, QuoteBegun

-----------------------------------------------------------------------------
(* Theorems about the market *)

\* The sums of MarketBacked.
LEMMA SharesIsSum ==
    ASSUME Books, NEW t \in Tokens
    PROVE  SharesOf(t) = Sum(shares[t], Users)
<1> DEFINE f == shares[t]
           Follows(g) ==
               g = [s \in SUBSET Users |->
                       IF s = {} THEN 0
                       ELSE shares[t][CHOOSE x \in s : TRUE] + g[s \ {CHOOSE x \in s : TRUE}]]
<1>1. SharesOf(t) = (CHOOSE g : Follows(g))[Users]
  BY DEF SharesOf, MapThenSumSet, MapThenFoldSet
<1>2. \A x \in Users : f[x] \in Nat
  BY DEF Books
<1>3. \A g : Follows(g) <=> Recursion(f, Users, g)
  BY DEF Recursion
<1>4. \E g : Recursion(f, Users, g)
  <2> HIDE DEF f
  <2> QED BY <1>2, RecursionExists, ServiceAssumption
<1>5. Recursion(f, Users, CHOOSE g : Follows(g))
  <2> HIDE DEF f, Follows
  <2> QED BY <1>3, <1>4
<1>6. SharesOf(t) = Sum(f, Users)
  <2> HIDE DEF f, Follows
  <2> QED BY <1>1, <1>2, <1>5, RecursionIsSum, ServiceAssumption
<1>7. QED BY <1>6

LEMMA CoinsIsSum ==
    ASSUME Books
    PROVE  MapThenSumSet(LAMBDA t : pools[t].ctc, Tokens) = Sum(Coins, Tokens)
<1> DEFINE total == MapThenSumSet(LAMBDA t : pools[t].ctc, Tokens)
           f == Coins
           Follows(g) ==
               g = [s \in SUBSET Tokens |->
                       IF s = {} THEN 0
                       ELSE pools[CHOOSE x \in s : TRUE].ctc + g[s \ {CHOOSE x \in s : TRUE}]]
<1>1. total = (CHOOSE g : Follows(g))[Tokens]
  BY DEF MapThenSumSet, MapThenFoldSet
<1>2. \A x \in Tokens : f[x] \in Nat
  BY DEF Books, Coins, Pool
<1>3. \A g : Follows(g) <=> Recursion(f, Tokens, g)
  BY DEF Recursion, Coins
<1>4. \E g : Recursion(f, Tokens, g)
  <2> HIDE DEF f
  <2> QED BY <1>2, RecursionExists, ServiceAssumption
<1>5. Recursion(f, Tokens, CHOOSE g : Follows(g))
  <2> HIDE DEF f, Follows
  <2> QED BY <1>3, <1>4
<1>6. total = Sum(f, Tokens)
  <2> HIDE DEF f, Follows, total
  <2> QED BY <1>1, <1>2, <1>5, RecursionIsSum, ServiceAssumption
<1>7. QED BY <1>6

IInv == MarketInv /\ Inputs

LEMMA InvariantIInv == Spec => []IInv
<1>1. Init => IInv
  BY InitMarketInv, InitInputs DEF IInv
<1>2. IInv /\ [Next]_vars => IInv'
  BY NextMarketInv, NextInputs DEF IInv
<1>3. QED BY <1>1, <1>2, PTL DEF Spec

\* The router holds of every token and of coins what its pools say, or more that
\* it was sent, the shares of a pool are those of its providers, and no pool is left with one side only,
\* for any users, tokens and amounts (addLiquidity, removeLiquidity, the swaps).
THEOREM MarketAlwaysBacked == Spec => []MarketBacked
<1>1. IInv => MarketBacked
  <2> SUFFICES ASSUME Books, Backed PROVE MarketBacked
    BY DEF IInv, MarketInv
  <2>1. pools \in [Tokens -> Pool] /\ ReservesAgree
    BY DEF Books, Backed
  <2>2. ASSUME NEW t \in Tokens
        PROVE  balanceOf[t][Router] >= pools[t].token /\ SharesOf(t) = pools[t].total
    BY SharesIsSum DEF Backed
  <2>3. coins[Router] >= MapThenSumSet(LAMBDA t : pools[t].ctc, Tokens)
    BY CoinsIsSum DEF Backed
  <2>4. QED BY <2>1, <2>2, <2>3 DEF MarketBacked
<1>2. QED BY <1>1, InvariantIInv, PTL

\* No transaction of anybody takes value from the providers, whatever the
\* reserves: the fee and the rounding of every division go to the pool.
THEOREM ValueStays == Spec => ProvidersKeepValue
<1> DEFINE Kept(t) ==
        IF pools'[t].total = pools[t].total /\ shares' = shares
        THEN pools'[t].ctc * pools'[t].token >= pools[t].ctc * pools[t].token
        ELSE pools'[t].ctc * pools[t].total >= pools[t].ctc * pools'[t].total
<1>1. ASSUME MarketInv, NEW t \in Tokens, pools'[t] = pools[t] PROVE Kept(t)
  <2>1. pools[t].ctc \in Nat /\ pools[t].token \in Nat /\ pools[t].total \in Nat
    BY <1>1 DEF MarketInv, Books, Pool
  <2>2. pools[t].ctc * pools[t].token \in Nat /\ pools[t].ctc * pools[t].total \in Nat
    BY <2>1, TimesNat
  <2>3. QED BY <1>1, <2>2
<1>2. ASSUME MarketInv, FairTrade, NEW t \in Tokens PROVE Kept(t)
  <2>10. PICK s \in Tokens, u \in Users :
            \E new, n : Trades(s, u, new, n) /\ Fair(pools[s], new, n)
    BY <1>2 DEF FairTrade
  <2>11. \A new, n : Trades(s, u, new, n) => new \in Pool /\ n \in Int
    BY DEF Trades
  <2>1. PICK new \in Pool, n \in Int : Trades(s, u, new, n) /\ Fair(pools[s], new, n)
    BY <2>10, <2>11
  <2>2. pools' = [pools EXCEPT ![s] = new] /\ pools \in [Tokens -> Pool]
    BY <1>2, <2>1 DEF Trades, MarketInv, Books
  <2>3. CASE t # s
    <3>1. pools'[t] = pools[t]
      BY <2>2, <2>3
    <3>2. QED BY <1>1, <1>2, <3>1
  <2>4. CASE t = s /\ n = 0
    <3>1. pools'[t] = new
      BY <2>2, <2>4
    <3>2. new.total = pools[t].total
      <4>1. pools[t].total \in Nat
        BY <2>2 DEF Pool
      <4>2. QED BY <2>1, <2>4, <4>1 DEF Trades
    <3>3. shares' = shares
      <4>1. \A q \in Tokens, w \in Users : shares'[q][w] = shares[q][w]
        BY <1>2, <2>1, <2>4 DEF Trades, MarketInv, Books
      <4>2. shares \in [Tokens -> [Users -> Nat]] /\ shares' \in [Tokens -> [Users -> Nat]]
        BY <1>2, <2>1 DEF Trades, MarketInv, Books
      <4>3. \A q \in Tokens : shares'[q] = shares[q]
        BY <4>1, <4>2
      <4>4. QED BY <4>2, <4>3
    <3>4. QED BY <2>1, <2>4, <3>1, <3>2, <3>3 DEF Fair
  <2>5. CASE t = s /\ n # 0
    <3>1. pools'[t] = new
      BY <2>2, <2>5
    <3>2. new.total # pools[t].total
      <4>1. pools[t].total \in Nat
        BY <2>2 DEF Pool
      <4>2. n \in Int /\ n # 0 /\ new.total = pools[t].total + n
        BY <2>1, <2>5 DEF Trades
      <4>3. QED BY <4>1, <4>2
    <3>3. QED BY <2>1, <2>5, <3>1, <3>2 DEF Fair
  <2>6. QED BY <2>3, <2>4, <2>5
<1>3. ASSUME MarketInv, Idle, NEW t \in Tokens PROVE Kept(t)
  BY <1>1, <1>3 DEF Idle, marketVars
<1>4. IInv /\ [Next]_vars => \A t \in Tokens : Kept(t)
  BY <1>2, <1>3, StepTrades DEF IInv
<1>5. (\A t \in Tokens : Kept(t)) =>
          (\A t \in Tokens : pools[t].total > 0 /\ pools'[t].total > 0 => Kept(t))
  OBVIOUS
<1> DEFINE KeptByAll == \A t \in Tokens : pools[t].total > 0 /\ pools'[t].total > 0 => Kept(t)
<1>6. IInv /\ [Next]_vars => [KeptByAll]_marketVars
  BY <1>4, <1>5
<1>7. QED BY <1>6, InvariantIInv, PTL DEF Spec, ProvidersKeepValue

-----------------------------------------------------------------------------
(* The market implements the exchange *)

Purse == [u \in Users |-> coins[u]]
Wallet == [t \in Tokens |-> [u \in Users |-> balanceOf[t][u]]]

\* What goes into a pool leaves the account of the sender.
LEMMA TradesDeal ==
    ASSUME Books, NEW t \in Tokens, NEW u \in Users, NEW new, NEW n, Trades(t, u, new, n)
    PROVE  Promise!Deal(t, u) /\ pools'[t] = new
<1>1. /\ pools' = [pools EXCEPT ![t] = new] /\ pools \in [Tokens -> Pool]
      /\ TokensGo(t, u, new.token - pools[t].token) /\ CoinsGo(u, new.ctc - pools[t].ctc)
  BY DEF Trades, Books
<1>2. pools'[t] = new /\ pools' = [pools EXCEPT ![t] = pools'[t]]
  BY <1>1
<1>3. Purse' = [Purse EXCEPT ![u] = @ - (pools'[t].ctc - pools[t].ctc)]
  <2>1. \A v \in Users : coins[v] \in Int
    BY AccountFacts DEF Books
  <2>2. new.ctc - pools[t].ctc \in Int
    BY <1>1 DEF Trades, Pool
  <2>3. \A v \in Users : coins'[v] = IF v = u THEN coins[u] - (pools'[t].ctc - pools[t].ctc)
                                     ELSE coins[v]
    BY <1>1, <1>2, <2>1, <2>2 DEF CoinsGo
  <2>4. QED BY <2>3 DEF Purse
<1>4. Wallet' = [Wallet EXCEPT ![t][u] = @ - (pools'[t].token - pools[t].token)]
  <2>1. \A s \in Tokens, v \in Users : balanceOf[s][v] \in Int
    BY AccountFacts DEF Books
  <2>2. new.token - pools[t].token \in Int
    BY <1>1 DEF Trades, Pool
  <2>3. \A s \in Tokens, v \in Users :
            balanceOf'[s][v] = IF s = t /\ v = u THEN balanceOf[t][u] - (pools'[t].token - pools[t].token)
                               ELSE balanceOf[s][v]
    BY <1>1, <1>2, <2>1, <2>2 DEF TokensGo
  <2> DEFINE left == balanceOf[t][u] - (pools'[t].token - pools[t].token)
             row == [Wallet[t] EXCEPT ![u] = left]
  <2>4. Wallet[t][u] = balanceOf[t][u]
    BY DEF Wallet
  <2>5. row = [v \in Users |-> balanceOf'[t][v]]
    <3>1. \A v \in Users : balanceOf'[t][v] = IF v = u THEN left ELSE balanceOf[t][v]
      BY <2>3
    <3>2. Wallet[t] = [v \in Users |-> balanceOf[t][v]]
      BY DEF Wallet
    <3> HIDE DEF left
    <3>3. QED BY <3>1, <3>2
  <2>6. \A s \in Tokens : s # t => [v \in Users |-> balanceOf'[s][v]] = Wallet[s]
    BY <2>3 DEF Wallet
  <2>7. Wallet' = [Wallet EXCEPT ![t] = row]
    <3> HIDE DEF row
    <3>1. QED BY <2>5, <2>6 DEF Wallet
  <2>8. QED BY <2>4, <2>7
<1>5. QED BY <1>2, <1>3, <1>4 DEF Promise!Deal, Purse, Wallet

\* A transaction that makes and redeems no shares is a swap, another a change
\* of stakes.
LEMMA TradesPromised ==
    ASSUME Books, FairTrade
    PROVE  Promise!Next
<1>1. PICK t \in Tokens, u \in Users :
          \E new, n : Trades(t, u, new, n) /\ Fair(pools[t], new, n)
  BY DEF FairTrade
<1>2. PICK new, n : Trades(t, u, new, n) /\ Fair(pools[t], new, n)
  BY <1>1
<1>3. Promise!Deal(t, u) /\ pools'[t] = new
  BY <1>2, TradesDeal
<1>4. /\ pools[t].total \in Nat /\ n \in Int /\ new.total = pools[t].total + n
      /\ new.total - pools[t].total = n
  BY <1>2 DEF Books, Trades, Pool
<1>5. /\ shares \in [Tokens -> [Users -> Nat]] /\ shares' \in [Tokens -> [Users -> Nat]]
      /\ \A s \in Tokens, v \in Users :
            shares'[s][v] = IF s = t /\ v = u THEN shares[t][u] + n ELSE shares[s][v]
  BY <1>2 DEF Books, Trades
<1>6. CASE n = 0
  <2>1. shares' = shares
    <3>1. \A s \in Tokens, v \in Users : shares'[s][v] = shares[s][v]
      BY <1>5, <1>6
    <3>2. \A s \in Tokens : shares'[s] = shares[s]
      BY <1>5, <3>1
    <3>3. QED BY <1>5, <3>2
  <2>2. new.total = pools[t].total
    BY <1>4, <1>6
  <2>3. new.ctc * new.token >= pools[t].ctc * pools[t].token
    BY <1>2, <1>6 DEF Fair
  <2>4. Promise!Swap(t, u)
    BY <1>3, <2>1, <2>2, <2>3 DEF Promise!Swap
  <2>5. QED BY <2>4 DEF Promise!Next
<1>7. CASE n # 0
  <2>1. shares' = [shares EXCEPT ![t][u] = @ + (pools'[t].total - pools[t].total)]
    <3>1. shares' = [shares EXCEPT ![t][u] = @ + n]
      BY <1>4, <1>5
    <3>2. QED BY <1>3, <1>4, <3>1
  <2>2. /\ new.ctc * pools[t].total >= pools[t].ctc * new.total
        /\ (new.token + 1) * pools[t].total >= pools[t].token * new.total
    BY <1>2, <1>7 DEF Fair
  <2>3. Promise!Restake(t, u)
    BY <1>3, <2>1, <2>2 DEF Promise!Restake
  <2>4. QED BY <2>3 DEF Promise!Next
<1>8. QED BY <1>6, <1>7

\* Minting, sending and approving tokens, coins sent to the router, and the
\* services' own steps.
LEMMA IdlePromised ==
    ASSUME Idle
    PROVE  Promise!Next \/ UNCHANGED Promise!vars
<1>1. pools' = pools /\ shares' = shares
  BY DEF Idle, marketVars
<1>2. ASSUME balanceOf' = balanceOf, NEW u \in Users, coins'[u] <= coins[u],
             \A v \in Users : v # u => coins'[v] = coins[v]
      PROVE  Promise!Next \/ UNCHANGED Promise!vars
  <2>1. Purse' = [Purse EXCEPT ![u] = Purse'[u]] /\ Purse'[u] <= Purse[u]
    BY <1>2 DEF Purse
  <2>2. Wallet' = Wallet
    BY <1>2 DEF Wallet
  <2>3. Promise!Donate(u)
    BY <1>1, <2>1, <2>2 DEF Promise!Donate, Purse, Wallet
  <2>4. QED BY <2>3 DEF Promise!Next
<1>3. ASSUME coins' = coins, NEW t \in Tokens, NEW u \in Users,
             \A s \in Tokens, v \in Users :
                 balanceOf'[s][v] >= balanceOf[s][v] \/ (s = t /\ v = u)
      PROVE  Promise!Next \/ UNCHANGED Promise!vars
  <2>1. Purse' = Purse
    BY <1>3 DEF Purse
  <2>2. \A s \in Tokens, v \in Users :
            Wallet'[s][v] >= Wallet[s][v] \/ (s = t /\ v = u)
    BY <1>3 DEF Wallet
  <2>3. Promise!Send(t, u)
    BY <1>1, <2>1, <2>2 DEF Promise!Send, Purse, Wallet
  <2>4. QED BY <2>3 DEF Promise!Next
<1>4. ASSUME coins' = coins, balanceOf' = balanceOf PROVE UNCHANGED Promise!vars
  <2>1. Purse' = Purse /\ Wallet' = Wallet
    BY <1>4 DEF Purse, Wallet
  <2>2. QED BY <1>1, <2>1 DEF Promise!vars, Purse, Wallet
<1>5. QED BY <1>2, <1>3, <1>4 DEF Idle, Harmless

LEMMA BooksCovered == Books => Promise!Covered
<1> SUFFICES ASSUME Books PROVE Promise!Covered
  OBVIOUS
<1>1. ASSUME NEW u \in Users
      PROVE  /\ Purse[u] >= 0
             /\ \A t \in Tokens : Wallet[t][u] >= 0 /\ shares[t][u] >= 0
  BY AccountFacts DEF Books, Purse, Wallet
<1>2. QED BY <1>1 DEF Promise!Covered, Purse, Wallet

LEMMA BooksCoveredNext == (Books => Promise!Covered)'
BY BooksCovered, PTL

LEMMA InitPromised == Init => Promise!Init
<1> SUFFICES ASSUME Init PROVE Promise!Init
  OBVIOUS
<1>1. \A u \in Users : Purse[u] >= 0
  BY AccountFacts, ServiceAssumption DEF Init, Purse
<1>2. Wallet = [t \in Tokens |-> [u \in Users |-> 0]]
  BY AccountFacts DEF Init, RouterInit, TokenInit, Wallet
<1>3. QED BY <1>1, <1>2 DEF Promise!Init, Init, RouterInit, Purse, Wallet

\* Whoever trades, sends or signs, and whatever a quote said: a transaction
\* moves value between its sender and one pool only, no swap lowers the product
\* of the reserves, no change of shares takes what is behind the others, but
\* for one unit of the tokens that addLiquidity rounds down, and no account is
\* overdrawn.
THEOREM MarketRefinement == Spec => ImplementsExchange
<1>1. Init => Promise!Init
  BY InitPromised
<1>2. IInv /\ IInv' /\ [Next]_vars => [Promise!Next /\ Promise!Covered']_Promise!vars
  <2> SUFFICES ASSUME IInv, IInv', [Next]_vars
               PROVE  Promise!Covered' /\ (Promise!Next \/ UNCHANGED Promise!vars)
    OBVIOUS
  <2>1. Books /\ Books'
    BY DEF IInv, MarketInv
  <2>2. Promise!Covered'
    BY <2>1, BooksCoveredNext
  <2>3. Idle \/ FairTrade
    BY StepTrades DEF IInv
  <2>4. QED BY <2>1, <2>2, <2>3, TradesPromised, IdlePromised
<1>3. QED BY <1>1, <1>2, InvariantIInv, PTL DEF Spec, ImplementsExchange, Promise!Spec

-----------------------------------------------------------------------------
(* Theorems about quotes and histories *)

LEMMA PortionsAre ==
    ASSUME NEW n \in Int, 0 <= n, n <= 10000
    PROVE  n \in Portions
BY SMTT(30) DEF Portions

\* An output that is at most the ideal one has an impact that is a share of it.
LEMMA ImpactInRange ==
    ASSUME NEW ideal \in Nat, NEW out \in Nat, out <= ideal
    PROVE  PriceImpact(ideal, out) \in Portions
<1>1. CASE ideal = 0
  BY <1>1, PortionsAre DEF PriceImpact
<1>2. CASE ideal # 0
  <2> DEFINE lost == (ideal - out) * 10000
             impact == lost \div ideal
  <2>1. PriceImpact(ideal, out) = impact
    BY <1>2 DEF PriceImpact
  <2>2. lost \in Nat /\ lost <= ideal * 10000
    OBVIOUS
  <2>3. impact \in Nat /\ impact * ideal <= lost
    <3> HIDE DEF lost
    <3>1. QED BY <1>2, <2>2, DivFacts
  <2> HIDE DEF lost, impact
  <2>4. impact * ideal < 10000 * ideal + ideal
    <3>1. ideal * 10000 = 10000 * ideal /\ 10000 * ideal \in Nat /\ impact * ideal \in Nat
      BY <2>3, TimesNat, Z3
    <3>2. QED BY <1>2, <2>2, <2>3, <3>1
  <2>5. impact <= 10000
    <3>1. ideal \in Nat \ {0} /\ impact \in Int /\ 10000 \in Int
      BY <1>2, <2>3
    <3>2. QED BY <2>4, <3>1, TimesCancels
  <2>6. impact \in Int /\ 0 <= impact
    BY <2>3
  <2>7. impact \in Portions
    BY <2>5, <2>6, PortionsAre
  <2>8. QED BY <2>1, <2>7, Zenon
<1>3. QED BY <1>1, <1>2

\* Between two reads of an unchanged pool a quote is at most the ideal output.
LEMMA QuoteAtMostIdeal ==
    ASSUME MarketInv, NEW x, QuoteBegun(x), pools[x.token] = x.reserves
    PROVE  LET out == Quote(x.token, x.in, x.ctcToToken)
               ideal == IdealOutput(x.in, x.reserves, x.ctcToToken)
           IN  out \in Nat /\ ideal \in Nat /\ out <= ideal
<1> DEFINE out == Quote(x.token, x.in, x.ctcToToken)
           ideal == IdealOutput(x.in, x.reserves, x.ctcToToken)
           ctc == x.reserves.ctc
           token == x.reserves.token
<1>1. x.in \in Nat /\ ctc \in Nat \ {0} /\ token \in Nat \ {0}
  BY DEF QuoteBegun, Pool
<1>2. CASE x.ctcToToken
  <2>1. out = Out(x.in, ctc, token) /\ ideal = (x.in * token) \div ctc
    BY <1>2 DEF Quote, IdealOutput
  <2> HIDE DEF out, ideal, ctc, token
  <2>2. x.in * token \in Nat
    BY <1>1, TimesNat
  <2>3. ideal \in Nat
    BY <1>1, <2>1, <2>2, DivFacts
  <2>4. out \in Nat /\ out <= ideal
    BY <1>1, <2>1, OutFacts
  <2>5. QED BY <2>3, <2>4 DEF out, ideal
<1>3. CASE ~x.ctcToToken
  <2>1. out = Out(x.in, token, ctc) /\ ideal = (x.in * ctc) \div token
    BY <1>3 DEF Quote, IdealOutput
  <2> HIDE DEF out, ideal, ctc, token
  <2>2. x.in * ctc \in Nat
    BY <1>1, TimesNat
  <2>3. ideal \in Nat
    BY <1>1, <2>1, <2>2, DivFacts
  <2>4. out \in Nat /\ out <= ideal
    BY <1>1, <2>1, OutFacts
  <2>5. QED BY <2>3, <2>4 DEF out, ideal
<1>4. QED BY <1>2, <1>3

\* What the invariant says of one quote.
Explained(q) == q.impact \notin Portions => ~q.steady

LEMMA EachExplained == QuoteExplained <=> \A q \in quotes : Explained(q)
BY DEF QuoteExplained, Explained

LEMMA EachExplainedNext == (QuoteExplained <=> \A q \in quotes : Explained(q))'
BY EachExplained, PTL

LEMMA NextQuoteExplained == IInv /\ QuoteExplained /\ [Next]_vars => QuoteExplained'
<1> SUFFICES ASSUME IInv, QuoteExplained, [Next]_vars PROVE QuoteExplained'
  OBVIOUS
<1>0. \A q \in quotes : Explained(q)
  BY EachExplained
<1>1. ASSUME quotes' \subseteq quotes PROVE QuoteExplained'
  <2>1. \A q \in quotes' : Explained(q)
    BY <1>0, <1>1
  <2>2. QED BY <2>1, EachExplainedNext
<1>2. ASSUME NEW r \in Requests, ReadQuote(r) PROVE QuoteExplained'
  <2> DEFINE x == requests[r]
             now == Quote(x.token, x.in, x.ctcToToken)
             best == IdealOutput(x.in, x.reserves, x.ctcToToken)
             impact == PriceImpact(best, now)
             steady == (pools[x.token] = x.reserves)
             new == [token |-> x.token, in |-> x.in, ctcToToken |-> x.ctcToToken,
                     out |-> now, impact |-> impact, steady |-> steady]
  <2>1. QuoteBegun(x)
    BY <1>2 DEF ReadQuote, Doing, IInv, Inputs, Begun
  <2>2. \A q \in quotes' : q \in quotes \/ q = new
    BY <1>2 DEF ReadQuote
  <2>3. ASSUME steady PROVE impact \in Portions
    <3>1. pools[x.token] = x.reserves
      BY <2>3
    <3>2. now \in Nat /\ best \in Nat /\ now <= best
      <4> HIDE DEF x
      <4>1. QED BY <2>1, <3>1, QuoteAtMostIdeal DEF IInv
    <3> HIDE DEF x, now, best
    <3>3. PriceImpact(best, now) \in Portions
      BY <3>2, ImpactInRange
    <3>4. QED BY <3>3
  <2>4. new.impact = impact /\ new.steady = steady
    OBVIOUS
  <2>5. steady => impact \in Portions
    BY <2>3
  <2> HIDE DEF new, impact, steady
  <2>6. Explained(new)
    BY <2>4, <2>5 DEF Explained
  <2>7. \A q \in quotes' : Explained(q)
    BY <1>0, <2>2, <2>6
  <2>8. QED BY <2>7, EachExplainedNext
<1>3. ASSUME NEW r \in Requests, Serve(r) PROVE QuoteExplained'
  BY <1>1, <1>2, <1>3 DEF Serve, ReadReserves, GetTransactions, ScanChunk, Answer
<1>4. QED BY <1>1, <1>3 DEF Next, Transact, SignSwap, MineSwap, vars, serviceVars

\* Unless the pool moved between the two reads of getQuote, the impact shown
\* is between nothing and all of the ideal output, for any reserves and amounts.
THEOREM QuotesAreFair == Spec => []QuoteExplained
<1>1. Init => QuoteExplained
  <2>1. Init => quotes = {}
    BY DEF Init
  <2>2. QED BY <2>1, EachExplained
<1>2. QED BY <1>1, NextQuoteExplained, InvariantIInv, PTL DEF Spec

\* What a service answered of a history.
Listed(a) ==
    \A x \in a.entries :
        /\ x[1] \in Sent(a.token, a.user, 1 .. Len(events)) \cup Received(a.token, a.user, 1 .. Len(events))
        /\ \A b \in a.known :
              b > x[1] /\ events[b].token = a.token /\ a.user \in {events[b].from, events[b].to}
              => \E y \in a.entries : y[1] = b

\* What the explorer has is on the chain.
LEMMA ExploredListed ==
    ASSUME NEW t, NEW u, NEW upto \in 1 .. Len(events), Len(events) \in Nat,
           NEW x \in Explored(t, u, upto)
    PROVE  x[1] \in Sent(t, u, 1 .. Len(events)) \cup Received(t, u, 1 .. Len(events))
<1>1. PICK b \in TokenTransfers(u, upto) \cup SignedByUser(u, upto) :
          events[b].token = t /\ x = <<b, IF events[b].from = u THEN "sent" ELSE "received">>
  BY DEF Explored
<1>2. b \in 1 .. upto /\ (events[b].from = u \/ events[b].to = u)
  BY <1>1 DEF TokenTransfers, SignedByUser, Newest
<1>3. x[1] = b /\ b \in 1 .. Len(events)
  BY <1>1, <1>2
<1>4. QED BY <1>1, <1>2, <1>3 DEF Sent, Received

\* The entries of a scan that is through.
Entries(s) == {<<b, "sent">> : b \in s.sent} \cup {<<b, "received">> : b \in s.received}

LEMMA EntryFacts ==
    ASSUME events \in Seq(Transfers), NEW s, Scanned(s), s.next > s.last
    PROVE  /\ IsFiniteSet(Entries(s))
           /\ \A x \in Entries(s) :
                 /\ x = <<x[1], x[2]>> /\ x[1] \in Nat \ {0}
                 /\ x[1] \in Sent(s.token, s.user, 1 .. Len(events))
                              \cup Received(s.token, s.user, 1 .. Len(events))
           /\ \A b \in (s.first .. s.last) \ s.lost :
                 events[b].token = s.token /\ s.user \in {events[b].from, events[b].to}
                 => \E y \in Entries(s) : y[1] = b
<1>1. /\ s.first \in Nat \ {0} /\ s.next \in Nat /\ s.last \in Nat /\ s.next = s.last + 1
      /\ s.last <= Len(events) /\ Len(events) \in Nat
  BY DEF Scanned
<1>2. Passed(s) = (s.first .. s.last) \ s.lost
  BY <1>1 DEF Passed
<1>3. /\ s.sent = Sent(s.token, s.user, Passed(s))
      /\ s.received = Received(s.token, s.user, Passed(s))
  BY DEF Scanned
<1>4. \A b \in Passed(s) : b \in 1 .. Len(events) /\ b \in Nat \ {0}
  BY <1>1, <1>2
<1>5. IsFiniteSet(Entries(s))
  <2> DEFINE Blocks == 1 .. Len(events)
             Sides == {"sent", "received"}
  <2>1. IsFiniteSet(Blocks)
    BY <1>1, FS_Interval
  <2>2. IsFiniteSet(Sides)
    <3>1. IsFiniteSet({"sent"})
      BY FS_Singleton
    <3>2. IsFiniteSet({"sent"} \cup {"received"})
      BY <3>1, FS_AddElement
    <3>3. QED BY <3>2
  <2>3. IsFiniteSet(Blocks \X Sides)
    <3> HIDE DEF Blocks, Sides
    <3>1. QED BY <2>1, <2>2, FS_Product
  <2>4. Entries(s) \subseteq Blocks \X Sides
    BY <1>3, <1>4 DEF Entries, Sent, Received
  <2>5. QED BY <2>3, <2>4, FS_Subset
<1>6. ASSUME NEW x \in Entries(s)
      PROVE  /\ x = <<x[1], x[2]>> /\ x[1] \in Nat \ {0}
             /\ x[1] \in Sent(s.token, s.user, 1 .. Len(events))
                          \cup Received(s.token, s.user, 1 .. Len(events))
  BY <1>3, <1>4 DEF Entries, Sent, Received
<1>7. ASSUME NEW b \in (s.first .. s.last) \ s.lost,
             events[b].token = s.token, s.user \in {events[b].from, events[b].to}
      PROVE  \E y \in Entries(s) : y[1] = b
  <2>1. b \in s.sent \/ b \in s.received
    BY <1>2, <1>3, <1>7 DEF Sent, Received
  <2>2. b \in s.sent => <<b, "sent">> \in Entries(s)
    BY DEF Entries
  <2>3. b \in s.received => <<b, "received">> \in Entries(s)
    BY DEF Entries
  <2>4. PICK side : <<b, side>> \in Entries(s)
    BY <2>1, <2>2, <2>3
  <2>5. <<b, side>>[1] = b
    OBVIOUS
  <2>6. QED BY <2>4, <2>5
<1>8. QED BY <1>5, <1>6, <1>7

\* An entry that is newer than one of the listed is listed: what comes before
\* it comes before the other too.
LEMMA NewerIsListed ==
    ASSUME NEW entries, IsFiniteSet(entries), NEW undated,
           \A x \in entries : x[1] \in Nat \ {0},
           NEW x \in Filtered(entries, undated), NEW y \in entries,
           y[1] > x[1], y[1] \notin undated
    PROVE  y \in Filtered(entries, undated)
<1> DEFINE Time(e) == IF e[1] \in undated THEN 0 ELSE e[1]
           Above(e) == {z \in entries : Before(z, e, undated)}
<1>1. x \in entries /\ Cardinality(Above(x)) < Limit
  BY DEF Filtered
<1>2. Time(y) > Time(x) /\ \A z \in entries : Time(z) \in Nat
  BY <1>1
<1>3. ASSUME NEW z \in entries, Before(z, y, undated) PROVE Before(z, x, undated)
  <2>1. Time(z) >= Time(y)
    <3>1. \/ Time(z) > Time(y)
          \/ Time(z) = Time(y)
          \/ z[1] = y[1]
      BY <1>3 DEF Before
    <3>2. QED BY <1>2, <3>1
  <2>2. Time(z) > Time(x)
    BY <1>1, <1>2, <2>1
  <2>3. QED BY <2>2 DEF Before
<1>4. Above(y) \subseteq Above(x)
  BY <1>3
<1>5. IsFiniteSet(Above(x)) /\ IsFiniteSet(Above(y))
  BY FS_Subset
<1>6. Cardinality(Above(y)) <= Cardinality(Above(x)) /\ Cardinality(Above(y)) \in Nat /\ Cardinality(Above(x)) \in Nat
  <2> HIDE DEF Above
  <2>1. QED BY <1>4, <1>5, FS_Subset, FS_CardinalityType
<1>7. Cardinality(Above(y)) < Limit
  <2> HIDE DEF Above
  <2>1. QED BY <1>1, <1>6, ServiceAssumption
<1>8. QED BY <1>7 DEF Filtered

\* What a scan answers: the entries of its blocks, sorted and cut.
LEMMA ScanListed ==
    ASSUME events \in Seq(Transfers), NEW s, Scanned(s), s.next > s.last, NEW undated, NEW a,
           a.token = s.token, a.user = s.user,
           a.entries = Filtered(Entries(s), undated),
           a.known = (s.first .. s.last) \ (s.lost \cup undated)
    PROVE  Listed(a)
<1>1. /\ IsFiniteSet(Entries(s))
      /\ \A x \in Entries(s) :
            /\ x = <<x[1], x[2]>> /\ x[1] \in Nat \ {0}
            /\ x[1] \in Sent(s.token, s.user, 1 .. Len(events))
                         \cup Received(s.token, s.user, 1 .. Len(events))
      /\ \A b \in (s.first .. s.last) \ s.lost :
            events[b].token = s.token /\ s.user \in {events[b].from, events[b].to}
            => \E y \in Entries(s) : y[1] = b
  BY EntryFacts
<1>2. \A x \in a.entries : x \in Entries(s)
  BY DEF Filtered
<1>3. ASSUME NEW x \in a.entries, NEW b \in a.known,
             b > x[1], events[b].token = a.token, a.user \in {events[b].from, events[b].to}
      PROVE  \E y \in a.entries : y[1] = b
  <2>1. b \in (s.first .. s.last) \ s.lost /\ b \notin undated
    BY <1>3
  <2>2. PICK y \in Entries(s) : y[1] = b
    BY <1>1, <1>3, <2>1
  <2>3. y \in Filtered(Entries(s), undated)
    <3> DEFINE entries == Entries(s)
    <3>1. IsFiniteSet(entries) /\ y \in entries /\ \A z \in entries : z[1] \in Nat \ {0}
      BY <1>1, <2>2
    <3>2. x \in Filtered(entries, undated) /\ y[1] > x[1] /\ y[1] \notin undated
      BY <1>3, <2>1, <2>2
    <3> HIDE DEF entries
    <3>3. y \in Filtered(entries, undated)
      BY <3>1, <3>2, NewerIsListed
    <3>4. QED BY <3>3 DEF entries
  <2>4. QED BY <2>2, <2>3
<1>4. \A x \in a.entries :
          x[1] \in Sent(a.token, a.user, 1 .. Len(events)) \cup Received(a.token, a.user, 1 .. Len(events))
  BY <1>1, <1>2
<1>5. QED BY <1>3, <1>4 DEF Listed

\* What was answered of the blocks there were stays right.
AnswersListed == \A a \in answers : a.known \subseteq 1 .. Len(events) /\ Listed(a)

LEMMA ListedStays ==
    ASSUME events \in Seq(Transfers), Appends, NEW a, a.known \subseteq 1 .. Len(events), Listed(a)
    PROVE  (a.known \subseteq 1 .. Len(events) /\ Listed(a))'
<1>1. /\ Len(events') \in Nat /\ Len(events) \in Nat /\ Len(events) <= Len(events')
      /\ \A b \in 1 .. Len(events) : events'[b] = events[b]
  BY AppendsKeep
<1>2. a.known \subseteq 1 .. Len(events')
  BY <1>1
<1>3. ASSUME NEW x \in a.entries
      PROVE  x[1] \in Sent(a.token, a.user, 1 .. Len(events))' \cup Received(a.token, a.user, 1 .. Len(events))'
  <2>1. x[1] \in 1 .. Len(events)
        /\ events[x[1]].token = a.token /\ (events[x[1]].from = a.user \/ events[x[1]].to = a.user)
    BY <1>3 DEF Listed, Sent, Received
  <2>2. x[1] \in 1 .. Len(events') /\ events'[x[1]] = events[x[1]]
    BY <1>1, <2>1
  <2>3. QED BY <2>1, <2>2 DEF Sent, Received
<1>4. ASSUME NEW x \in a.entries, NEW b \in a.known,
             b > x[1], events'[b].token = a.token, a.user \in {events'[b].from, events'[b].to}
      PROVE  \E y \in a.entries : y[1] = b
  <2>1. events'[b] = events[b]
    BY <1>1
  <2>2. QED BY <1>4, <2>1 DEF Listed
<1>5. QED BY <1>2, <1>3, <1>4 DEF Listed

\* An answer of a step, by itself.
LEMMA AnswerIsListed ==
    ASSUME IInv, AnswersListed, UNCHANGED events, NEW t, NEW u, NEW entries, NEW known,
           Answered(t, u, entries, known),
           LET a == [token |-> t, user |-> u, entries |-> entries, known |-> known]
           IN  a.known \subseteq 1 .. Len(events) /\ Listed(a)
    PROVE  AnswersListed'
<1>1. \A a \in answers' :
          a \in answers \/ a = [token |-> t, user |-> u, entries |-> entries, known |-> known]
  BY DEF Answered
<1>2. \A a \in answers' : a.known \subseteq 1 .. Len(events) /\ Listed(a)
  BY <1>1 DEF AnswersListed
<1>3. QED BY <1>2 DEF AnswersListed, Listed, Sent, Received

LEMMA NextAnswersListed == IInv /\ AnswersListed /\ [Next]_vars => AnswersListed'
<1> SUFFICES ASSUME IInv, AnswersListed, [Next]_vars PROVE AnswersListed'
  OBVIOUS
<1>0. events \in Seq(Transfers) /\ Len(events) \in Nat
  BY DEF IInv, Inputs
<1>1. ASSUME answers' = answers PROVE AnswersListed'
  <2>1. Appends
    BY EventsAppended DEF IInv
  <2>2. ASSUME NEW a \in answers'
        PROVE  (a.known \subseteq 1 .. Len(events) /\ Listed(a))'
    <3>1. a.known \subseteq 1 .. Len(events) /\ Listed(a)
      BY <1>1 DEF AnswersListed
    <3>2. QED BY <1>0, <2>1, <3>1, ListedStays
  <2>3. QED BY <2>2 DEF AnswersListed
<1>2. ASSUME NEW r \in Requests, NEW t \in Tokens, NEW u \in Users, GetTransactions(r, t, u)
      PROVE  AnswersListed'
  <2>1. ASSUME NEW upto \in 1 .. Height,
               Answered(t, u, Filtered(Explored(t, u, upto), {}), {})
        PROVE  AnswersListed'
    <3> DEFINE entries == Filtered(Explored(t, u, upto), {})
               a == [token |-> t, user |-> u, entries |-> entries, known |-> {}]
    <3>1. \A x \in entries : x \in Explored(t, u, upto)
      BY DEF Filtered
    <3>2. \A x \in Explored(t, u, upto) :
              x[1] \in Sent(t, u, 1 .. Len(events)) \cup Received(t, u, 1 .. Len(events))
      BY <1>0, ExploredListed DEF Height
    <3>3. Answered(t, u, entries, {}) /\ UNCHANGED events
      BY <1>2, <2>1 DEF GetTransactions, routerVars, tokenVars
    <3> HIDE DEF entries
    <3>4. a.known = {} /\ a.entries = entries /\ a.token = t /\ a.user = u
      OBVIOUS
    <3>5. a.known \subseteq 1 .. Len(events) /\ Listed(a)
      <4> HIDE DEF a
      <4>1. QED BY <3>1, <3>2, <3>4 DEF Listed
    <3>6. QED BY <3>3, <3>5, AnswerIsListed
  <2>2. QED BY <1>1, <1>2, <2>1 DEF GetTransactions
<1>3. ASSUME NEW r \in Requests, Answer(r) PROVE AnswersListed'
  <2> DEFINE s == requests[r]
  <2>1. Scanned(s) /\ s.next > s.last /\ UNCHANGED events
    BY <1>3 DEF Answer, Doing, IInv, Inputs, Begun, routerVars, tokenVars
  <2>2. PICK undated : Answered(s.token, s.user, Filtered(Entries(s), undated),
                                (s.first .. s.last) \ (s.lost \cup undated))
    BY <1>3 DEF Answer, Entries
  <2> DEFINE entries == Filtered(Entries(s), undated)
             known == (s.first .. s.last) \ (s.lost \cup undated)
             a == [token |-> s.token, user |-> s.user, entries |-> entries, known |-> known]
  <2>3. a.token = s.token /\ a.user = s.user /\ a.entries = entries /\ a.known = known
    OBVIOUS
  <2>4. known \subseteq 1 .. Len(events)
    BY <1>0, <2>1 DEF Scanned
  <2>5. Listed(a)
    <3> HIDE DEF s, a
    <3>1. QED BY <1>0, <2>1, <2>3, ScanListed
  <2>6. Answered(s.token, s.user, entries, known)
    BY <2>2
  <2> HIDE DEF s, entries, known
  <2>7. QED BY <2>1, <2>3, <2>4, <2>5, <2>6, AnswerIsListed
<1>4. ASSUME NEW r \in Requests, Serve(r) PROVE AnswersListed'
  BY <1>1, <1>2, <1>3, <1>4 DEF Serve, ReadReserves, ReadQuote, ScanChunk
<1>5. QED BY <1>1, <1>4 DEF Next, Transact, SignSwap, MineSwap, vars, serviceVars

\* A history leaves out a transfer that is newer than one it lists only when
\* its half-chunk failed or the time of its block is unknown, for any lookback,
\* chunk, limit and any transfers meanwhile (getTransactions).
THEOREM HistoriesListNewest == Spec => []NewestListed
<1>1. AnswersListed => NewestListed
  BY DEF AnswersListed, Listed, NewestListed, Height
<1>2. Init => AnswersListed
  BY DEF Init, AnswersListed
<1>3. QED BY <1>1, <1>2, NextAnswersListed, InvariantIInv, PTL DEF Spec
=============================================================================
