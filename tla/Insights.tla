------------------------------ MODULE Insights ------------------------------
(***************************************************************************)
(* The rankings of AnalyticsService over the pool rows of PoolBook, as a   *)
(* client pages through them while rows are written, members join and      *)
(* contributions are recorded: the popular series, whose pools and counts  *)
(* are read one after the other, and the leaderboard, one query a page.    *)
(***************************************************************************)
EXTENDS PoolBook

CONSTANT Limit      \* the size of a page

ASSUME InsightsAssumption == Limit \in Nat \ {0}

VARIABLES
    members,        \* <<row, wallet>> of pool_members
    contributions,  \* <<row, wallet>> of the contributions of a round
    walk            \* the pages a client has got

insightsVars == <<vars, members, contributions, walk>>

Rankings == {"popular", "leaderboard"}
Metrics == {"members", "contributions"}

\* moved: whether a table changed since the client asked for the first page.
NoWalk == [pc |-> "none", moved |-> FALSE]
Asked(ranking, metric, type) ==
    [pc |-> "page", ranking |-> ranking, metric |-> metric, type |-> type,
     listed |-> {}, seen |-> <<>>, moved |-> FALSE]

\* Leaderboards may be of one type; pools without one are in the others only.
Matching(type) == {r \in Rows : type = NoType \/ pools[r].equbType = type}

Score(metric, r) ==
    IF metric = "members" THEN Cardinality({m \in members : m[1] = r})
    ELSE Cardinality({c \in contributions : c[1] = r})

\* Neither query orders rows of the same score.
Orders(rows, metric) ==
    {o \in [1 .. Cardinality(rows) -> rows] :
        \A i, j \in DOMAIN o : i < j => o[i] # o[j] /\ Score(metric, o[i]) >= Score(metric, o[j])}

Lesser(a, b) == IF a < b THEN a ELSE b
\* Mutant: the limit is taken for the end of the slice.
PageEndingAtLimit(order, offset) == SubSeq(order, offset + 1, Lesser(Limit, Len(order)))

Page(order, offset) == SubSeq(order, offset + 1, Lesser(offset + Limit, Len(order)))

\* The client goes on where it is until a page ends the list.
Got(order) ==
    LET page == Page(order, Len(walk.seen))
        seen == walk.seen \o page
    IN  [walk EXCEPT !.seen = seen, !.listed = {},
                     !.pc = IF Len(page) < Limit \/ Len(seen) = Len(order) THEN "done" ELSE "page"]

-----------------------------------------------------------------------------

InsightsInit ==
    /\ Init
    /\ members = {} /\ contributions = {}
    /\ walk = NoWalk

Tables == <<[r \in Rows |-> pools[r].equbType], members, contributions>>

BookNext ==
    /\ Next
    /\ UNCHANGED <<members, contributions>>
    /\ walk' = IF Tables' = Tables THEN walk ELSE [walk EXCEPT !.moved = TRUE]

JoinPool ==
    /\ Call
    /\ \E r \in Rows, w \in Wallets :
          /\ <<r, w>> \notin members
          /\ members' = members \cup {<<r, w>>}
    /\ walk' = [walk EXCEPT !.moved = TRUE]
    /\ UNCHANGED <<tiers, chain, signed, db, requests, cooling, contributions>>

\* Who contributes becomes a member.
RecordContribution ==
    /\ Call
    /\ \E r \in Rows, w \in Wallets :
          /\ <<r, w>> \notin contributions
          /\ members' = members \cup {<<r, w>>}
          /\ contributions' = contributions \cup {<<r, w>>}
    /\ walk' = [walk EXCEPT !.moved = TRUE]
    /\ UNCHANGED <<tiers, chain, signed, db, requests, cooling>>

Rank ==
    /\ walk.pc = "none"
    /\ Call
    /\ \E metric \in Metrics :
          \/ walk' = Asked("popular", metric, NoType)
          \/ \E type \in Types \cup {NoType} : walk' = Asked("leaderboard", metric, type)
    /\ UNCHANGED <<tiers, chain, signed, db, requests, cooling, members, contributions>>

\* getPopularSeries lists the pools and then counts their rows.
ListPools ==
    /\ walk.pc = "page" /\ walk.ranking = "popular"
    /\ walk' = [walk EXCEPT !.pc = "count", !.listed = Rows]
    /\ UNCHANGED <<vars, members, contributions>>

GetPopularSeries ==
    /\ walk.pc = "count"
    /\ \E order \in Orders(walk.listed, walk.metric) : walk' = Got(order)
    /\ UNCHANGED <<vars, members, contributions>>

GetLeaderboard ==
    /\ walk.pc = "page" /\ walk.ranking = "leaderboard"
    /\ \E order \in Orders(Matching(walk.type), walk.metric) : walk' = Got(order)
    /\ UNCHANGED <<vars, members, contributions>>

InsightsNext ==
    BookNext \/ JoinPool \/ RecordContribution \/ Rank
        \/ ListPools \/ GetPopularSeries \/ GetLeaderboard

InsightsSpec == InsightsInit /\ [][InsightsNext]_insightsVars

-----------------------------------------------------------------------------
(* Properties *)

\* A client that has got every page, with nothing written in between, has the
\* pools from the highest score to the lowest; when no two have the same score
\* it has each of them once.  Pools of one score may be missed or come twice.
PagesExplained ==
    (walk.pc = "done" /\ ~walk.moved) =>
        LET asked == Matching(walk.type)
            score(r) == Score(walk.metric, r)
            seen == walk.seen
        IN  /\ Len(seen) = Cardinality(asked)
            /\ \A i, j \in DOMAIN seen : i < j => score(seen[i]) >= score(seen[j])
            /\ \A r \in asked :
                  (\A other \in asked \ {r} : score(other) # score(r))
                      => Cardinality({i \in DOMAIN seen : seen[i] = r}) = 1
=============================================================================
