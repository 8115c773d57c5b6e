--------------------------- MODULE Accounts_proofs --------------------------
(***************************************************************************)
(* One signature opens one session, for the wallet that had to give it;    *)
(* the second factor is on for proven secrets only; a bound identity stays *)
(* bound: for any number of wallets, users and requests in flight.         *)
(***************************************************************************)
EXTENDS Accounts, TLAPS

\* Where a request is that got past its signature, or needs none.
Past == {"byWallet", "byHash", "insert", "update"}
Fields == {"op", "at", "hash", "wallet", "message", "row", "call"}

Storing(t) == t # None /\ t.op = "challenge" /\ t.at = "save"
Carries(t) == t # None /\ t.at \in Past /\ t.message # None
Live(row) == row # None /\ ~row.consumed

\* A task or session x is for the wallet and identity its message names.
For(wallet, hash, m) ==
    /\ wallet.who = m.key.wallet
    /\ m.key.identity # None => hash = m.key.identity

IsTask(t) == t = [f \in DOMAIN t |-> t[f]] /\ Fields \subseteq DOMAIN t

TaskOK(t, n) ==
    t # None =>
        /\ Storing(t) => t.message.key \in Keys /\ t.message.nonce \in 1..n
        /\ t.at = "consume" =>
              /\ IsTask(t) /\ t.op \in {"login", "bind"}
              /\ t.row.message = t.message /\ t.message.key \in Keys
              /\ For(t.wallet, t.hash, t.message)
              /\ t.message.nonce \in 1..n
        /\ t.at \in Past =>
              /\ IsTask(t)
              /\ t.message # None =>
                    /\ t.op \in {"login", "bind"}
                    /\ For(t.wallet, t.hash, t.message)
                    /\ t.message.nonce \in 1..n

Columns == {"message", "consumed", "expired"}
RowOK(row, k, n) ==
    row # None =>
        /\ row = [f \in Columns |-> row[f]]
        /\ row.message.key = k
        /\ row.message.nonce \in 1..n

Shape ==
    /\ calls \in Nat
    /\ requests = [r \in Requests |-> requests[r]]
    /\ challenges = [k \in Keys |-> challenges[k]]
    /\ \A r \in Requests : TaskOK(requests[r], calls)
    /\ \A k \in Keys : RowOK(challenges[k], k, calls)
    /\ \A s \in sessions : s.message # None =>
           For(s.wallet, s.sub, s.message) /\ s.message.nonce \in 1..calls

\* A message about to be stored is nowhere else.
StoredOnce ==
    \A r \in Requests : Storing(requests[r]) =>
        /\ \A k \in Keys : challenges[k] # None => challenges[k].message # requests[r].message
        /\ \A q \in Requests \ {r} : Storing(requests[q]) => requests[q].message # requests[r].message
        /\ \A q \in Requests : Carries(requests[q]) => requests[q].message # requests[r].message
        /\ \A s \in sessions : s.message # None => s.message # requests[r].message

\* A message that let a request pass lets nobody else pass.
CarriedOnce ==
    \A r \in Requests : Carries(requests[r]) =>
        /\ \A k \in Keys : Live(challenges[k]) => challenges[k].message # requests[r].message
        /\ \A q \in Requests \ {r} : Carries(requests[q]) => requests[q].message # requests[r].message
        /\ \A s \in sessions : s.message # requests[r].message

\* Nor does one that opened a session.
SpentOnce ==
    \A s \in sessions : s.message # None =>
        /\ \A k \in Keys : Live(challenges[k]) => challenges[k].message # s.message
        /\ \A t \in sessions : t.message = s.message => t = s

IInv == Shape /\ StoredOnce /\ CarriedOnce /\ SpentOnce

LEMMA InitIInv == Init => IInv
BY DEF Init, IInv, Shape, StoredOnce, CarriedOnce, SpentOnce, TaskOK, RowOK, Storing, Carries, Live

-----------------------------------------------------------------------------
(* What steps do to messages *)

\* The row of a challenge is as it was, gone, or no longer of use.
Dimmed ==
    /\ challenges' = [k \in Keys |-> challenges'[k]]
    /\ \A k \in Keys :
        /\ RowOK(challenges'[k], k, calls)
        /\ challenges'[k] # None => challenges[k] # None /\ challenges'[k].message = challenges[k].message
        /\ Live(challenges'[k]) => Live(challenges[k])

Later == calls' \in {calls, calls + 1}

LEMMA LaterOK ==
    ASSUME Shape, Later
    PROVE  /\ calls' \in Nat /\ calls <= calls'
           /\ \A t : TaskOK(t, calls) => TaskOK(t, calls')
           /\ \A row, k : RowOK(row, k, calls) => RowOK(row, k, calls')
<1>1. calls' \in Nat /\ calls \in Nat /\ calls <= calls' /\ \A i : i \in 1..calls => i \in 1..calls'
  BY DEF Shape, Later
<1>2. ASSUME NEW t, TaskOK(t, calls) PROVE TaskOK(t, calls')
  BY <1>1, <1>2 DEF TaskOK
<1>3. ASSUME NEW row, NEW k, RowOK(row, k, calls) PROVE RowOK(row, k, calls')
  BY <1>1, <1>3 DEF RowOK
<1> QED BY <1>1, <1>2, <1>3

\* A step that lets no request pass and opens no session by signature.
LEMMA QuietStep ==
    ASSUME IInv, Later, Dimmed,
           requests' = [r \in Requests |-> requests'[r]],
           \A r \in Requests : requests'[r] # requests[r] =>
               /\ TaskOK(requests'[r], calls')
               /\ ~Storing(requests'[r]) /\ ~Carries(requests'[r]),
           \A s \in sessions' : s \in sessions \/ s.message = None,
           sessions \subseteq sessions'
    PROVE  IInv'
<1>1. Shape'
  BY LaterOK DEF IInv, Shape, Dimmed
<1>2. StoredOnce'
  BY DEF IInv, StoredOnce, Dimmed
<1>3. CarriedOnce'
  <2> SUFFICES ASSUME NEW r \in Requests, Carries(requests'[r])
               PROVE  /\ \A k \in Keys : Live(challenges'[k]) => challenges'[k].message # requests'[r].message
                      /\ \A q \in Requests \ {r} : Carries(requests'[q]) => requests'[q].message # requests'[r].message
                      /\ \A s \in sessions' : s.message # requests'[r].message
    BY DEF CarriedOnce
  <2>1. requests'[r] = requests[r] /\ requests[r].message # None
    BY DEF Carries
  <2>2. \A k \in Keys : Live(challenges'[k]) => challenges'[k].message # requests'[r].message
    BY <2>1 DEF IInv, CarriedOnce, Dimmed, Live
  <2>3. \A q \in Requests \ {r} : Carries(requests'[q]) => requests'[q].message # requests'[r].message
    BY <2>1 DEF IInv, CarriedOnce
  <2>4. \A s \in sessions' : s.message # requests'[r].message
    BY <2>1 DEF IInv, CarriedOnce
  <2> QED BY <2>2, <2>3, <2>4
<1>4. SpentOnce'
  BY DEF IInv, SpentOnce, Dimmed, Live
<1> QED BY <1>1, <1>2, <1>3, <1>4 DEF IInv

LEMMA UnchangedDimmed == ASSUME Shape, UNCHANGED challenges PROVE Dimmed
BY DEF Shape, Dimmed

\* The same for a step of one request, which goes on with t.
LEMMA QuietRequest ==
    ASSUME IInv, Later, Dimmed, NEW r \in Requests, NEW t,
           requests' = [requests EXCEPT ![r] = t],
           TaskOK(t, calls'), ~Storing(t), ~Carries(t),
           \A s \in sessions' : s \in sessions \/ s.message = None,
           sessions \subseteq sessions'
    PROVE  IInv'
<1>1. requests' = [q \in Requests |-> requests'[q]]
  BY DEF IInv, Shape
<1>2. \A q \in Requests : requests'[q] # requests[q] => requests'[q] = t
  BY DEF IInv, Shape
<1> QED BY QuietStep, <1>1, <1>2

\* A request that passed goes on with its message.
LEMMA CarryOn ==
    ASSUME IInv, NEW r \in Requests, NEW t, Carries(requests[r]),
           UNCHANGED <<challenges, sessions, calls>>,
           requests' = [requests EXCEPT ![r] = t],
           TaskOK(t, calls), t.at \in Past, t.message = requests[r].message
    PROVE  IInv'
<1>1. /\ requests' = [q \in Requests |-> requests'[q]]
      /\ \A q \in Requests : requests'[q] = IF q = r THEN t ELSE requests[q]
  BY DEF IInv, Shape
<1>2. ~Storing(t)
  BY DEF Storing, Past
<1>3. Shape'
  BY <1>1 DEF IInv, Shape
<1>4. StoredOnce'
  BY <1>1, <1>2 DEF IInv, StoredOnce, Carries
<1>5. CarriedOnce'
  BY <1>1 DEF IInv, CarriedOnce, Carries
<1>6. SpentOnce'
  BY DEF IInv, SpentOnce
<1> QED BY <1>3, <1>4, <1>5, <1>6 DEF IInv

\* A request that passed ends in a session of its own.
LEMMA OpenSession ==
    ASSUME IInv, NEW r \in Requests, NEW n, NEW a, NEW h, Carries(requests[r]),
           UNCHANGED <<challenges, calls>>, requests' = [requests EXCEPT ![r] = None],
           sessions' = sessions \cup {[sub |-> h, wallet |-> a, message |-> requests[r].message, call |-> n]},
           a = requests[r].wallet, h = requests[r].hash
    PROVE  IInv'
<1> DEFINE m == requests[r].message
           new == [sub |-> h, wallet |-> a, message |-> m, call |-> n]
<1>1. /\ requests' = [q \in Requests |-> requests'[q]]
      /\ \A q \in Requests : requests'[q] = IF q = r THEN None ELSE requests[q]
  BY DEF IInv, Shape
<1>2. new.message = m /\ new.wallet = a /\ new.sub = h /\ m # None
  BY DEF Carries
<1>3. For(a, h, m) /\ m.nonce \in 1..calls
  BY DEF IInv, Shape, TaskOK, Carries
<1>4. \A s \in sessions' : s \in sessions \/ s = new
  OBVIOUS
<1> HIDE DEF m, new
<1>5. Shape'
  <2>1. \A q \in Requests : TaskOK(requests'[q], calls)
    BY <1>1 DEF IInv, Shape, TaskOK
  <2>2. \A s \in sessions' : s.message # None =>
            For(s.wallet, s.sub, s.message) /\ s.message.nonce \in 1..calls
    BY <1>2, <1>3, <1>4 DEF IInv, Shape
  <2> QED BY <1>1, <2>1, <2>2 DEF IInv, Shape
<1>6. StoredOnce'
  <2> SUFFICES ASSUME NEW q \in Requests, Storing(requests'[q])
               PROVE  /\ \A k \in Keys : challenges'[k] # None => challenges'[k].message # requests'[q].message
                      /\ \A p \in Requests \ {q} : Storing(requests'[p]) => requests'[p].message # requests'[q].message
                      /\ \A p \in Requests : Carries(requests'[p]) => requests'[p].message # requests'[q].message
                      /\ \A s \in sessions' : s.message # None => s.message # requests'[q].message
    BY DEF StoredOnce
  <2> QED BY <1>1, <1>2, <1>4 DEF IInv, StoredOnce, Carries, Storing, m
<1>7. CarriedOnce'
  <2>1. \A q \in Requests : Carries(requests'[q]) => q # r /\ requests'[q] = requests[q]
    BY <1>1 DEF Carries
  <2>2. \A q \in Requests : Carries(requests'[q]) => requests[q].message # m
    BY <2>1 DEF IInv, CarriedOnce, m
  <2> QED BY <1>2, <1>4, <2>1, <2>2 DEF IInv, CarriedOnce
<1>8. SpentOnce'
  <2>1. \A s \in sessions : s.message # m
    BY DEF IInv, CarriedOnce, m
  <2>2. \A k \in Keys : Live(challenges[k]) => challenges[k].message # m
    BY DEF IInv, CarriedOnce, m
  <2> QED BY <1>2, <1>4, <2>1, <2>2 DEF IInv, SpentOnce
<1> QED BY <1>5, <1>6, <1>7, <1>8 DEF IInv
-----------------------------------------------------------------------------
(* Challenges *)

LEMMA AskStep ==
    ASSUME IInv, NEW r \in Requests, NEW key \in Keys, AskChallenge(r, key) PROVE IInv'
<1> DEFINE m == [key |-> key, nonce |-> calls + 1]
           t == [op |-> "challenge", at |-> "save", message |-> m]
<1>1. /\ requests' = [requests EXCEPT ![r] = t] /\ calls' = calls + 1
      /\ challenges' = [challenges EXCEPT ![key] = None] /\ UNCHANGED sessions
  BY DEF AskChallenge, Begin
<1>2. /\ requests' = [q \in Requests |-> requests'[q]]
      /\ \A q \in Requests : requests'[q] = IF q = r THEN t ELSE requests[q]
      /\ challenges' = [k \in Keys |-> challenges'[k]]
      /\ \A k \in Keys : challenges'[k] = IF k = key THEN None ELSE challenges[k]
  BY <1>1 DEF IInv, Shape
<1>3. /\ t.message = m /\ m.key = key /\ m.nonce = calls + 1 /\ ~Carries(t) /\ t.at = "save"
  BY DEF Carries, Past
<1>4. calls \in Nat /\ Later
  BY <1>1 DEF IInv, Shape, Later
<1>5. TaskOK(t, calls')
  BY <1>1, <1>3, <1>4 DEF TaskOK, Storing, Past
<1> HIDE DEF m, t
<1>6. Shape'
  BY <1>1, <1>2, <1>4, <1>5, LaterOK DEF IInv, Shape, RowOK
<1>7. /\ \A k \in Keys : challenges[k] # None => challenges[k].message # m
      /\ \A q \in Requests : Storing(requests[q]) \/ Carries(requests[q]) => requests[q].message # m
      /\ \A s \in sessions : s.message # None => s.message # m
  <2>1. \A x : x.nonce \in 1..calls => x # m
    BY <1>3, <1>4
  <2>2. \A k \in Keys : challenges[k] # None => challenges[k].message.nonce \in 1..calls
    BY DEF IInv, Shape, RowOK
  <2>3. \A q \in Requests : Storing(requests[q]) \/ Carries(requests[q]) =>
            requests[q].message.nonce \in 1..calls
    BY DEF IInv, Shape, TaskOK, Carries, Storing
  <2>4. \A s \in sessions : s.message # None => s.message.nonce \in 1..calls
    BY DEF IInv, Shape
  <2> QED BY <2>1, <2>2, <2>3, <2>4
<1>8. StoredOnce'
  BY <1>1, <1>2, <1>3, <1>7 DEF IInv, StoredOnce
<1>9. CarriedOnce'
  BY <1>1, <1>2, <1>3 DEF IInv, CarriedOnce, Live
<1>10. SpentOnce'
  BY <1>1, <1>2 DEF IInv, SpentOnce, Live
<1> QED BY <1>6, <1>8, <1>9, <1>10 DEF IInv

LEMMA StoreStep ==
    ASSUME IInv, NEW r \in Requests, StoreChallenge(r) PROVE IInv'
<1> DEFINE m == requests[r].message
           row == [message |-> m, consumed |-> FALSE, expired |-> FALSE]
<1>1. /\ Storing(requests[r]) /\ requests' = [requests EXCEPT ![r] = None]
      /\ UNCHANGED <<sessions, calls>>
      /\ UNCHANGED challenges \/ challenges' = [challenges EXCEPT ![m.key] = row]
  BY DEF StoreChallenge, Doing, End, Continue, Storing
<1>2. CASE UNCHANGED challenges
  <2>1. Dimmed /\ Later /\ TaskOK(None, calls') /\ ~Storing(None) /\ ~Carries(None)
    BY <1>1, <1>2, UnchangedDimmed DEF IInv, Later, TaskOK, Storing, Carries
  <2> QED BY <1>1, <2>1, QuietRequest
<1>3. CASE challenges' = [challenges EXCEPT ![m.key] = row]
  <2>1. m.key \in Keys /\ m.nonce \in 1..calls
    BY <1>1 DEF IInv, Shape, TaskOK, Storing
  <2>2. /\ requests' = [q \in Requests |-> requests'[q]]
        /\ \A q \in Requests : requests'[q] = IF q = r THEN None ELSE requests[q]
        /\ challenges' = [k \in Keys |-> challenges'[k]]
        /\ \A k \in Keys : challenges'[k] = IF k = m.key THEN row ELSE challenges[k]
    BY <1>1, <1>3 DEF IInv, Shape
  <2>3. row.message = m /\ RowOK(row, m.key, calls)
    BY <2>1 DEF RowOK, Columns
  <2>4. ~Storing(None) /\ ~Carries(None) /\ TaskOK(None, calls)
    BY DEF Storing, Carries, TaskOK
  <2>5. /\ \A q \in Requests \ {r} : Storing(requests[q]) \/ Carries(requests[q]) => requests[q].message # m
        /\ \A s \in sessions : s.message # None => s.message # m
    BY <1>1 DEF IInv, StoredOnce
  <2> HIDE DEF m, row
  <2>6. Shape'
    BY <1>1, <2>2, <2>3, <2>4 DEF IInv, Shape
  <2>7. StoredOnce'
    BY <1>1, <2>2, <2>3, <2>4, <2>5 DEF IInv, StoredOnce
  <2>8. CarriedOnce'
    BY <1>1, <2>2, <2>3, <2>4, <2>5 DEF IInv, CarriedOnce
  <2>9. SpentOnce'
    BY <1>1, <2>2, <2>3, <2>5 DEF IInv, SpentOnce
  <2> QED BY <2>6, <2>7, <2>8, <2>9 DEF IInv
<1> QED BY <1>1, <1>2, <1>3

LEMMA Expired ==
    ASSUME NEW c, c = [f \in Columns |-> c[f]]
    PROVE  LET d == [c EXCEPT !.expired = TRUE]
           IN  /\ d = [f \in Columns |-> d[f]]
               /\ d.expired = TRUE /\ d.message = c.message /\ d.consumed = c.consumed
BY DEF Columns

LEMMA ExpireStep == ASSUME IInv, NEW k \in Keys, Expire(k) PROVE IInv'
<1>1. /\ challenges' = [challenges EXCEPT ![k].expired = TRUE]
      /\ UNCHANGED <<sessions, requests, calls>> /\ challenges[k] # None
  BY DEF Expire
<1> DEFINE row == [challenges[k] EXCEPT !.expired = TRUE]
<1>2. challenges[k] = [f \in Columns |-> challenges[k][f]]
  BY <1>1 DEF IInv, Shape, RowOK
<1>3. /\ row.message = challenges[k].message /\ row.consumed = challenges[k].consumed
      /\ row = [f \in Columns |-> row[f]]
  BY <1>2, Expired
<1> HIDE DEF row
<1>4. /\ challenges' = [j \in Keys |-> challenges'[j]]
      /\ \A j \in Keys : challenges'[j] = IF j = k THEN row ELSE challenges[j]
  BY <1>1 DEF IInv, Shape, row
<1>5. RowOK(row, k, calls)
  BY <1>1, <1>3 DEF IInv, Shape, RowOK
<1>6. Dimmed
  <2>1. ASSUME NEW j \in Keys
        PROVE  /\ RowOK(challenges'[j], j, calls)
               /\ challenges'[j] # None => challenges[j] # None /\ challenges'[j].message = challenges[j].message
               /\ Live(challenges'[j]) => Live(challenges[j])
    <3>1. CASE j = k
      BY <1>1, <1>3, <1>4, <1>5, <3>1 DEF Live
    <3>2. CASE j # k
      BY <1>4, <3>2 DEF IInv, Shape
    <3>3. QED BY <3>1, <3>2
  <2>2. QED BY <1>4, <2>1 DEF Dimmed
<1>7. Later /\ requests' = [q \in Requests |-> requests'[q]]
  BY <1>1 DEF Later, IInv, Shape
<1> QED BY <1>1, <1>6, <1>7, QuietStep

LEMMA Consumed ==
    ASSUME NEW c, c = [f \in Columns |-> c[f]]
    PROVE  LET d == [c EXCEPT !.consumed = TRUE]
           IN  /\ d = [f \in Columns |-> d[f]]
               /\ d.consumed = TRUE /\ d.message = c.message /\ d.expired = c.expired
BY DEF Columns

\* A task that goes on is the same task elsewhere.
LEMMA Moved ==
    ASSUME NEW t, IsTask(t), NEW place, NEW row
    PROVE  LET u == [t EXCEPT !.at = place, !.row = row]
           IN  /\ IsTask(u) /\ u.at = place /\ u.row = row /\ u.op = t.op
               /\ u.message = t.message /\ u.wallet = t.wallet /\ u.hash = t.hash /\ u.call = t.call
BY DEF IsTask, Fields

LEMMA MovedOnly ==
    ASSUME NEW t, IsTask(t), NEW place
    PROVE  LET u == [t EXCEPT !.at = place]
           IN  /\ IsTask(u) /\ u.at = place /\ u.row = t.row /\ u.op = t.op
               /\ u.message = t.message /\ u.wallet = t.wallet /\ u.hash = t.hash /\ u.call = t.call
BY DEF IsTask, Fields

\* Of all requests that read a challenge one finds it unconsumed.
LEMMA ConsumeStep == ASSUME IInv, NEW r \in Requests, Consume(r) PROVE IInv'
<1> DEFINE t == requests[r]
           m == t.message
           k == m.key
           u == [t EXCEPT !.at = "byWallet", !.row = None]
<1>1. /\ t # None /\ t.at = "consume" /\ UNCHANGED <<sessions, calls>> /\ Later
  BY DEF Consume, Continue, End, Later
<1>2. /\ IsTask(t) /\ t.op \in {"login", "bind"} /\ t.row.message = m
      /\ For(t.wallet, t.hash, m) /\ m.nonce \in 1..calls
  BY <1>1 DEF IInv, Shape, TaskOK
<1>3. ~Storing(None) /\ ~Carries(None) /\ TaskOK(None, calls) /\ TaskOK(None, calls')
  BY DEF Storing, Carries, TaskOK
<1>4. CASE ~Takes(t.row)
  <2>1. requests' = [requests EXCEPT ![r] = None] /\ UNCHANGED challenges
    BY <1>4 DEF Consume, Continue, End
  <2>2. Dimmed
    BY <2>1, UnchangedDimmed DEF IInv
  <2> QED BY <1>1, <1>3, <2>1, <2>2, QuietRequest
<1>5. CASE Takes(t.row)
  <2>1. /\ challenges' = [challenges EXCEPT ![k].consumed = TRUE]
        /\ challenges[k] # None /\ challenges[k].message = m /\ Live(challenges[k])
    BY <1>2, <1>5 DEF Consume, Takes, Live
  <2>2. k \in Keys
    BY <1>1 DEF IInv, Shape, TaskOK
  <2> DEFINE row == [challenges[k] EXCEPT !.consumed = TRUE]
  <2>3. RowOK(challenges[k], k, calls)
    BY <2>2 DEF IInv, Shape
  <2>4. row.message = m /\ row.consumed = TRUE /\ row = [f \in Columns |-> row[f]]
    BY <2>1, <2>3, Consumed DEF RowOK
  <2>5. RowOK(row, k, calls)
    BY <2>1, <2>3, <2>4 DEF RowOK
  <2> HIDE DEF row
  <2>6. /\ challenges' = [j \in Keys |-> challenges'[j]]
        /\ \A j \in Keys : challenges'[j] = IF j = k THEN row ELSE challenges[j]
    BY <2>1 DEF IInv, Shape, row
  <2>7. Dimmed
    BY <1>1, <2>1, <2>4, <2>5, <2>6 DEF Dimmed, IInv, Shape, Live
  <2>8. CASE t.signer # t.wallet.who
    <3>1. requests' = [requests EXCEPT ![r] = None]
      BY <1>5, <2>8 DEF Consume, End, Continue
    <3> QED BY <1>1, <1>3, <2>7, <3>1, QuietRequest
  <2>9. CASE t.signer = t.wallet.who
    <3>1. requests' = [requests EXCEPT ![r] = u]
      BY <1>5, <2>9 DEF Consume, Continue
    <3>2. /\ IsTask(u) /\ u.at = "byWallet" /\ u.op = t.op /\ u.message = m
          /\ u.wallet = t.wallet /\ u.hash = t.hash
      BY <1>2 DEF IsTask, Fields
    <3> HIDE DEF u
    <3>3. TaskOK(u, calls) /\ ~Storing(u)
      BY <1>2, <3>2 DEF TaskOK, Past, Storing
    <3>4. /\ requests' = [q \in Requests |-> requests'[q]]
          /\ \A q \in Requests : requests'[q] = IF q = r THEN u ELSE requests[q]
      BY <3>1 DEF IInv, Shape
    <3>5. /\ \A q \in Requests : Storing(requests[q]) => requests[q].message # m
          /\ \A q \in Requests : Carries(requests[q]) => requests[q].message # m
          /\ \A s \in sessions : s.message # None => s.message # m
      BY <2>1, <2>2 DEF IInv, StoredOnce, CarriedOnce, SpentOnce
    <3>6. ASSUME NEW j \in Keys, Live(challenges'[j]) PROVE challenges'[j].message # m
      <4>1. j # k
        BY <2>2, <2>4, <2>6, <3>6 DEF Live
      <4>2. challenges'[j] = challenges[j] /\ challenges[j] # None
        BY <2>6, <3>6, <4>1 DEF Live
      <4>3. RowOK(challenges[j], j, calls)
        BY DEF IInv, Shape
      <4>4. challenges[j].message.key = j /\ m.key = k
        BY <2>1, <2>3, <4>2, <4>3 DEF RowOK
      <4>5. QED BY <4>1, <4>2, <4>4
    <3>7. Shape'
      BY <1>1, <2>6, <2>5, <3>3, <3>4 DEF IInv, Shape
    <3> HIDE DEF m, t, k
    <3>8. StoredOnce'
      BY <1>1, <2>7, <3>2, <3>3, <3>4, <3>5 DEF IInv, StoredOnce, Dimmed
    <3>9. CarriedOnce'
      BY <1>1, <2>7, <3>2, <3>4, <3>5, <3>6 DEF IInv, CarriedOnce, Dimmed, Carries, Live
    <3>10. SpentOnce'
      BY <1>1, <2>7 DEF IInv, SpentOnce, Dimmed, Live
    <3> QED BY <3>7, <3>8, <3>9, <3>10 DEF IInv
  <2> QED BY <2>8, <2>9
<1> QED BY <1>4, <1>5
-----------------------------------------------------------------------------
(* The other requests *)

\* A message is loaded only from the row of the key that it was asked for.
LEMMA LoadedStep ==
    ASSUME IInv, NEW r \in Requests, NEW a \in Addresses, NEW m, NEW signer,
           NEW op \in {"login", "bind"}, NEW h, NEW w, NEW identity \in Hashes \cup {None},
           Accepts([identity |-> identity, wallet |-> a.who], m),
           Begin(r, [op |-> op, at |-> "consume", hash |-> h, wallet |-> w, message |-> m,
                     signer |-> signer, call |-> calls + 1,
                     row |-> challenges[[identity |-> identity, wallet |-> a.who]]]),
           UNCHANGED <<challenges, sessions>>,
           w.who = a.who, identity # None => h = identity
    PROVE  IInv'
<1> DEFINE key == [identity |-> identity, wallet |-> a.who]
           t == [op |-> op, at |-> "consume", hash |-> h, wallet |-> w, message |-> m,
                 signer |-> signer, call |-> calls + 1, row |-> challenges[key]]
<1>2. key \in Keys /\ key.identity = identity /\ key.wallet = a.who
  BY DEF Keys, Addresses
<1>3. challenges[key].message = m /\ m.key = key /\ m.nonce \in 1..calls
  BY <1>2 DEF Accepts, IInv, Shape, RowOK
<1>4. /\ IsTask(t) /\ t.at = "consume" /\ t.op = op /\ t.message = m /\ t.hash = h
      /\ t.wallet = w /\ t.row.message = m
  BY <1>3 DEF IsTask, Fields
<1>5. requests' = [requests EXCEPT ![r] = t] /\ UNCHANGED <<challenges, sessions>> /\ Later
  BY DEF Begin, Later
<1>6. For(w, h, m)
  BY <1>2, <1>3 DEF For
<1> HIDE DEF t, key
<1>7. TaskOK(t, calls) /\ ~Storing(t) /\ ~Carries(t)
  BY <1>2, <1>3, <1>4, <1>6 DEF TaskOK, Storing, Carries, Past
<1>8. TaskOK(t, calls') /\ Dimmed
  BY <1>5, <1>7, LaterOK, UnchangedDimmed DEF IInv
<1> QED BY <1>5, <1>7, <1>8, QuietRequest

LEMMA SignStep == ASSUME IInv, Sign PROVE IInv'
<1>1. ASSUME NEW r \in Requests, NEW m, NEW signer, NEW a \in Addresses, LoadLogin(r, a, m, signer)
      PROVE  IInv'
  BY <1>1, LoadedStep DEF LoadLogin
<1>2. ASSUME NEW r \in Requests, NEW m, NEW signer, NEW a \in Addresses, NEW h \in Hashes,
             LoadBind(r, h, a, m, signer)
      PROVE  IInv'
  <2>1. Lower(a.who).who = a.who
    BY DEF Lower
  <2> QED BY <1>2, <2>1, LoadedStep DEF LoadBind
<1> QED BY <1>1, <1>2 DEF Sign

\* What begins without a signature carries no message.
LEMMA PlainTask ==
    ASSUME IInv, NEW t, NEW op, NEW place, NEW h, NEW a, NEW row,
           place \in Past, t = Task(op, place, h, a, None, row)
    PROVE  IsTask(t) /\ ~Storing(t) /\ ~Carries(t) /\ \A n : TaskOK(t, n)
<1>1. /\ IsTask(t) /\ t.at = place /\ t.message = None
  BY DEF Task, IsTask, Fields
<1> QED BY <1>1 DEF TaskOK, Storing, Carries, Past

\* Nor do the tasks of the security service.
LEMMA SecurityTask ==
    ASSUME NEW t, t.at \in {"totp", "device"}
    PROVE  ~Storing(t) /\ ~Carries(t) /\ \A n : TaskOK(t, n)
BY DEF TaskOK, Storing, Carries, Past

LEMMA QuietBegin ==
    ASSUME IInv, NEW r \in Requests, NEW t, Begin(r, t), UNCHANGED <<challenges, sessions>>,
           ~Storing(t), ~Carries(t), \A n : TaskOK(t, n)
    PROVE  IInv'
<1>1. Later /\ requests' = [requests EXCEPT ![r] = t]
  BY DEF Begin, Later
<1> QED BY <1>1, UnchangedDimmed, QuietRequest DEF IInv

LEMMA QuietAtomic ==
    ASSUME IInv, Atomic, UNCHANGED challenges,
           \A s \in sessions' : s \in sessions \/ s.message = None,
           sessions \subseteq sessions'
    PROVE  IInv'
<1>1. Later /\ UNCHANGED requests /\ requests' = [q \in Requests |-> requests'[q]]
  BY DEF Atomic, Later, IInv, Shape
<1> QED BY <1>1, UnchangedDimmed, QuietStep DEF IInv

LEMMA QuietEnd ==
    ASSUME IInv, NEW r \in Requests, End(r), UNCHANGED challenges,
           \A s \in sessions' : s \in sessions \/ s.message = None,
           sessions \subseteq sessions'
    PROVE  IInv'
<1>1. Later /\ requests' = [requests EXCEPT ![r] = None]
  BY DEF End, Continue, Later
<1>2. TaskOK(None, calls') /\ ~Storing(None) /\ ~Carries(None)
  BY DEF TaskOK, Storing, Carries
<1> QED BY <1>1, <1>2, UnchangedDimmed, QuietRequest DEF IInv

\* A token that no signature paid for.
LEMMA PlainToken ==
    ASSUME NEW h, NEW a, NEW n, Token(h, a, None, n)
    PROVE  (\A s \in sessions' : s \in sessions \/ s.message = None) /\ sessions \subseteq sessions'
BY DEF Token

LEMMA SignInStep ==
    ASSUME IInv, SignIn PROVE IInv'
<1>1. ASSUME NEW r \in Requests, NEW h \in Subjects, Enter(r, h) PROVE IInv'
  <2>1. CASE identities[h] # None
    BY <1>1, <2>1, PlainToken, QuietAtomic DEF Enter
  <2>2. CASE identities[h] = None
    <3> DEFINE t == Task("enter", "insert", h, None, None, Row(h, None, "unbound"))
    <3>1. Begin(r, t) /\ UNCHANGED <<challenges, sessions>>
      BY <1>1, <2>2 DEF Enter
    <3>2. ~Storing(t) /\ ~Carries(t) /\ \A n : TaskOK(t, n)
      BY PlainTask DEF Past
    <3> QED BY <3>1, <3>2, QuietBegin
  <2> QED BY <2>1, <2>2
<1>2. ASSUME NEW r \in Requests, NEW w \in Wallets, DevLogin(r, w) PROVE IInv'
  <2>1. CASE \E row : Atomic /\ Token(row.hash, row.wallet, None, calls + 1)
    BY <1>2, <2>1, PlainToken, QuietAtomic DEF DevLogin
  <2>2. CASE Begin(r, Task("dev", "byHash", DevHash, Lower(w), None, None)) /\ UNCHANGED sessions
    <3> DEFINE t == Task("dev", "byHash", DevHash, Lower(w), None, None)
    <3>1. ~Storing(t) /\ ~Carries(t) /\ \A n : TaskOK(t, n)
      BY PlainTask DEF Past
    <3>2. Begin(r, t) /\ UNCHANGED <<challenges, sessions>>
      BY <1>2, <2>2 DEF DevLogin
    <3> QED BY <3>1, <3>2, QuietBegin
  <2> QED BY <1>2, <2>1, <2>2 DEF DevLogin
<1> QED BY <1>1, <1>2 DEF SignIn

LEMMA BindOnChainStep ==
    ASSUME IInv, BindOnChain PROVE IInv'
<1>1. ASSUME NEW w \in Wallets, NEW h \in Hashes, BindIdentity(w, h) PROVE IInv'
  <2>1. Later /\ UNCHANGED <<requests, challenges, sessions>> /\ requests' = [q \in Requests |-> requests'[q]]
    BY <1>1 DEF BindIdentity, Later, IInv, Shape
  <2> QED BY <2>1, UnchangedDimmed, QuietStep DEF IInv
<1>2. ASSUME NEW r \in Requests, NEW w \in Wallets, HandleIdentityBound(r, w) PROVE IInv'
  <2>1. PICK place, h, row :
            place \in Past /\ Begin(r, Task("chain", place, h, Checksummed(w), None, row))
    BY <1>2 DEF HandleIdentityBound, Past
  <2>2. UNCHANGED <<challenges, sessions>>
    BY <1>2 DEF HandleIdentityBound
  <2> DEFINE t == Task("chain", place, h, Checksummed(w), None, row)
  <2>3. place \in Past /\ Begin(r, t)
    BY <2>1
  <2>4. ~Storing(t) /\ ~Carries(t) /\ \A n : TaskOK(t, n)
    BY <2>3, PlainTask
  <2> QED BY <2>2, <2>3, <2>4, QuietBegin
<1>3. ASSUME NEW r \in Requests, NEW h \in Hashes, NEW w \in Wallets, StoreOnChain(r, h, w) PROVE IInv'
  <2> DEFINE t == Task("queue", "update", h, Lower(w), None,
                       Row(h, identities[h].wallet, "queued-for-onchain"))
  <2>1. Begin(r, t) /\ UNCHANGED <<challenges, sessions>>
    BY <1>3 DEF StoreOnChain
  <2>2. ~Storing(t) /\ ~Carries(t) /\ \A n : TaskOK(t, n)
    BY PlainTask DEF Past
  <2> QED BY <2>1, <2>2, QuietBegin
<1> QED BY <1>1, <1>2, <1>3 DEF BindOnChain

LEMMA SecureStep ==
    ASSUME IInv, Secure PROVE IInv'
<1>1. ASSUME NEW a \in Addresses, NEW r \in Requests, Setup2FA(r, a) \/ Verify2FA(r, a) \/ RegisterDevice(r, a)
      PROVE  IInv'
  <2>1. PICK t : Begin(r, t) /\ t.at \in {"totp", "device"}
    BY <1>1 DEF Setup2FA, Verify2FA, RegisterDevice
  <2>2. UNCHANGED <<challenges, sessions>>
    BY <1>1 DEF Setup2FA, Verify2FA, RegisterDevice
  <2> QED BY <2>1, <2>2, SecurityTask, QuietBegin
<1>2. ASSUME NEW a \in Addresses,
             Disable2FA(a) \/ RevokeDevice(a) \/ AddToWhitelist(a) \/ RemoveFromWhitelist(a)
      PROVE  IInv'
  <2>1. Atomic /\ UNCHANGED <<challenges, sessions>>
    BY <1>2 DEF Disable2FA, RevokeDevice, AddToWhitelist, RemoveFromWhitelist
  <2> QED BY <2>1, QuietAtomic
<1> QED BY <1>1, <1>2 DEF Secure

\* A token for a request that passed with its message, or with none.
LEMMA TokenStep ==
    ASSUME IInv, NEW r \in Requests, NEW a, requests[r] # None, requests[r].at \in Past,
           End(r), UNCHANGED challenges,
           Token(requests[r].hash, a, requests[r].message, requests[r].call),
           requests[r].message # None => a = requests[r].wallet
    PROVE  IInv'
<1>1. CASE requests[r].message = None
  BY <1>1, PlainToken, QuietEnd
<1>2. CASE requests[r].message # None
  <2>1. /\ Carries(requests[r])
        /\ UNCHANGED <<challenges, calls>> /\ requests' = [requests EXCEPT ![r] = None]
        /\ sessions' = sessions \cup {[sub |-> requests[r].hash, wallet |-> a,
                                       message |-> requests[r].message, call |-> requests[r].call]}
    BY <1>2 DEF Carries, End, Continue, Token
  <2> QED BY <1>2, <2>1, OpenSession
<1> QED BY <1>1, <1>2

\* A request that passed, with a message or none, goes on as the same task.
LEMMA GoOn ==
    ASSUME IInv, NEW r \in Requests, NEW t, requests[r] # None, requests[r].at \in Past,
           Continue(r, t), UNCHANGED <<challenges, sessions>>,
           IsTask(t), t.at \in Past, t.message = requests[r].message,
           t.op = requests[r].op, t.wallet = requests[r].wallet, t.hash = requests[r].hash
    PROVE  IInv'
<1>1. requests' = [requests EXCEPT ![r] = t] /\ UNCHANGED calls /\ Later
  BY DEF Continue, Later
<1>2. TaskOK(requests[r], calls)
  BY DEF IInv, Shape
<1>3. TaskOK(t, calls) /\ ~Storing(t)
  BY <1>2 DEF TaskOK, Past, Storing
<1>4. CASE Carries(requests[r])
  BY <1>1, <1>3, <1>4, CarryOn
<1>5. CASE ~Carries(requests[r])
  <2>1. ~Carries(t)
    BY <1>5 DEF Carries
  <2> QED BY <1>1, <1>3, <2>1, UnchangedDimmed, QuietRequest DEF IInv
<1> QED BY <1>4, <1>5

LEMMA FindByWalletStep ==
    ASSUME IInv, NEW r \in Requests, FindByWallet(r) PROVE IInv'
<1> DEFINE t == requests[r]
           u == [t EXCEPT !.at = "byHash"]
<1>1. t # None /\ t.at = "byWallet" /\ t.at \in Past /\ UNCHANGED challenges
  BY DEF FindByWallet, Past
<1>2. CASE End(r) /\ Token(t.hash, t.wallet, t.message, t.call)
  BY <1>1, <1>2, TokenStep
<1>3. CASE End(r) /\ UNCHANGED sessions
  BY <1>1, <1>3, QuietEnd
<1>4. CASE Continue(r, u) /\ UNCHANGED sessions
  <2>1. IsTask(t)
    BY <1>1 DEF IInv, Shape, TaskOK
  <2>2. /\ IsTask(u) /\ u.at \in Past /\ u.message = t.message /\ u.op = t.op
        /\ u.wallet = t.wallet /\ u.hash = t.hash
    BY <2>1 DEF IsTask, Fields, Past
  <2> HIDE DEF u
  <2> QED BY <1>1, <1>4, <2>2, GoOn
<1> QED BY <1>2, <1>3, <1>4 DEF FindByWallet

LEMMA FindByHashStep ==
    ASSUME IInv, NEW r \in Requests, FindByHash(r) PROVE IInv'
<1> DEFINE t == requests[r]
           row == identities[t.hash]
           u(place) == [t EXCEPT !.at = place, !.row = Bound(t, row)]
<1>1. t # None /\ t.at = "byHash" /\ t.at \in Past /\ UNCHANGED challenges
  BY DEF FindByHash, Past
<1>2. TaskOK(t, calls) /\ IsTask(t)
  BY <1>1 DEF IInv, Shape, TaskOK
<1>3. CASE End(r) /\ UNCHANGED sessions
  BY <1>1, <1>3, QuietEnd
<1>4. CASE End(r) /\ Token(t.hash, IF t.op = "dev" THEN row.wallet ELSE t.wallet, t.message, t.call)
  <2>1. t.message # None => t.op # "dev"
    BY <1>1, <1>2 DEF TaskOK
  <2> QED BY <1>1, <1>4, <2>1, TokenStep
<1>5. CASE Continue(r, u(IF row = None THEN "insert" ELSE "update")) /\ UNCHANGED sessions
  <2> DEFINE v == u(IF row = None THEN "insert" ELSE "update")
  <2>1. /\ IsTask(v) /\ v.at \in Past /\ v.message = t.message /\ v.op = t.op
        /\ v.wallet = t.wallet /\ v.hash = t.hash
    BY <1>2 DEF IsTask, Fields, Past
  <2> HIDE DEF u
  <2> QED BY <1>1, <1>5, <2>1, GoOn
<1> QED BY <1>3, <1>4, <1>5 DEF FindByHash

LEMMA SaveIdentityStep ==
    ASSUME IInv, NEW r \in Requests, SaveIdentity(r) PROVE IInv'
<1> DEFINE t == requests[r]
<1>1. t # None /\ t.at \in Past /\ UNCHANGED challenges /\ End(r)
  BY DEF SaveIdentity, Past
<1>2. CASE UNCHANGED sessions
  BY <1>1, <1>2, QuietEnd
<1>3. CASE Token(t.hash, t.wallet, t.message, t.call)
  BY <1>1, <1>3, TokenStep
<1> QED BY <1>2, <1>3 DEF SaveIdentity

LEMMA StepIInv == IInv /\ [Next]_vars => IInv'
<1> SUFFICES ASSUME IInv, [Next]_vars PROVE IInv'
  OBVIOUS
<1>1. CASE Ask
  BY <1>1, AskStep DEF Ask
<1>2. CASE Sign \/ SignIn \/ BindOnChain \/ Secure
  BY <1>2, SignStep, SignInStep, BindOnChainStep, SecureStep
<1>3. CASE \E k \in Keys : Expire(k)
  BY <1>3, ExpireStep
<1>4. CASE \E r \in Requests : Step(r)
  <2>1. ASSUME NEW r \in Requests, SaveTotp(r) \/ SaveDevice(r) PROVE IInv'
    <3>1. End(r) /\ UNCHANGED <<challenges, sessions>>
      BY <2>1 DEF SaveTotp, SaveDevice
    <3> QED BY <3>1, QuietEnd
  <2> QED BY <1>4, <2>1, StoreStep, ConsumeStep, FindByWalletStep, FindByHashStep, SaveIdentityStep DEF Step
<1>5. CASE UNCHANGED vars
  <2>1. Later /\ UNCHANGED <<requests, challenges, sessions>> /\ requests' = [q \in Requests |-> requests'[q]]
    BY <1>5 DEF vars, Later, IInv, Shape
  <2> QED BY <2>1, UnchangedDimmed, QuietStep DEF IInv
<1> QED BY <1>1, <1>2, <1>3, <1>4, <1>5 DEF Next

\* One signed message opens at most one session, and only one for the wallet
\* that had to sign it: loadAndConsumeChallenge consumes the row it compared.
THEOREM OneSessionPerSignature == Spec => []SignatureUsedOnce
<1>1. IInv => SignatureUsedOnce
  BY DEF IInv, Shape, SpentOnce, SignatureUsedOnce, For
<1> QED BY <1>1, InitIInv, StepIInv, PTL DEF Spec

-----------------------------------------------------------------------------
(* What requests carry to the rows they save *)

SecretColumns == {"id", "secret", "enabled"}
IsSecret(row) == row = [f \in SecretColumns |-> row[f]]

Safe(t, known) ==
    t # None =>
        /\ t.at \in {"consume", "byWallet", "byHash"} => t.hash \in Hashes /\ t.wallet \in Addresses
        /\ t.at \in {"insert", "update"} => t.row \in Identity
        /\ t.at = "update" => t.row.wallet \in Addresses
        /\ t.at = "totp" =>
              IsSecret(t.row) /\ (t.row.enabled => <<t.wallet, t.row.secret>> \in known)

RowsOK ==
    /\ identities \in [Hashes -> Identity \cup {None}]
    /\ registry \in [Wallets -> Hashes \cup {None}]
    /\ totp = [a \in Addresses |-> totp[a]]
    /\ \A a \in Addresses : totp[a] # None =>
           IsSecret(totp[a]) /\ (totp[a].enabled => <<a, totp[a].secret>> \in proved)

SaveInv == RowsOK /\ \A r \in Requests : Safe(requests[r], proved)

LEMMA InitSaveInv == Init => SaveInv
BY DEF Init, SaveInv, RowsOK, Safe

LEMMA AddressFacts ==
    /\ \A w \in Wallets : w \in Hashes /\ Lower(w) \in Addresses /\ Checksummed(w) \in Addresses
                          /\ Lower(w).who = w /\ Checksummed(w).who = w
    /\ \A a \in Addresses : a.who \in Wallets /\ a # None
    /\ Subjects \subseteq Hashes /\ DevHash \in Hashes
    /\ None \notin Identity
BY NoneAssumption, RowAssumption DEF Hashes, Addresses, Lower, Checksummed

\* A step that saves no row.
LEMMA NoSave ==
    ASSUME IInv, SaveInv, NEW r \in Requests, NEW t, requests' = [requests EXCEPT ![r] = t],
           Safe(t, proved'), UNCHANGED <<identities, registry, totp>>, proved \subseteq proved'
    PROVE  SaveInv'
<1>1. \A q \in Requests : requests'[q] = IF q = r THEN t ELSE requests[q]
  BY DEF IInv, Shape
<1>2. RowsOK'
  BY DEF SaveInv, RowsOK
<1>3. \A q \in Requests : Safe(requests'[q], proved')
  BY <1>1 DEF SaveInv, Safe
<1> QED BY <1>2, <1>3 DEF SaveInv

LEMMA SafeBegin ==
    ASSUME IInv, SaveInv, NEW r \in Requests, NEW t, Begin(r, t) \/ Continue(r, t), Safe(t, proved),
           UNCHANGED <<accountVars, totp, proved>>
    PROVE  SaveInv'
BY NoSave DEF Begin, Continue, accountVars

LEMMA SafeEnd ==
    ASSUME IInv, SaveInv, NEW r \in Requests, End(r), UNCHANGED <<accountVars, totp, proved>>
    PROVE  SaveInv'
<1>1. Safe(None, proved)
  BY DEF Safe
<1> QED BY <1>1, SafeBegin DEF End

LEMMA SafeStutter ==
    ASSUME SaveInv, UNCHANGED <<accountVars, totp, proved, requests>> PROVE SaveInv'
BY DEF SaveInv, RowsOK, accountVars

LEMMA SafeTask ==
    ASSUME NEW t, NEW op, NEW place, NEW h, NEW a, NEW row, NEW m,
           t = Task(op, place, h, a, m, row),
           \/ place = "byHash" /\ h \in Hashes /\ a \in Addresses
           \/ place = "insert" /\ row \in Identity
           \/ place = "update" /\ row \in Identity /\ row.wallet \in Addresses
    PROVE  Safe(t, proved)
BY DEF Task, Safe

LEMMA ChallengeSave ==
    ASSUME IInv, SaveInv, NEW r \in Requests,
           \/ \E key \in Keys : AskChallenge(r, key)
           \/ StoreChallenge(r)
    PROVE  SaveInv'
<1>1. CASE StoreChallenge(r)
  BY <1>1, SafeEnd DEF StoreChallenge, securityVars
<1>2. ASSUME NEW key \in Keys, AskChallenge(r, key) PROVE SaveInv'
  <2> DEFINE t == [op |-> "challenge", at |-> "save", message |-> [key |-> key, nonce |-> calls + 1]]
  <2>1. Safe(t, proved)
    BY DEF Safe
  <2> QED BY <1>2, <2>1, SafeBegin DEF AskChallenge, securityVars
<1> QED BY <1>1, <1>2

LEMMA SignSave == ASSUME IInv, SaveInv, Sign PROVE SaveInv'
<1>1. PICK r \in Requests, m \in issued, signer \in Wallets, a \in Addresses :
        LoadLogin(r, a, m, signer) \/ \E h \in Hashes : LoadBind(r, h, a, m, signer)
  BY DEF Sign
<1>2. PICK h, w, t : h \in Hashes /\ w \in Addresses /\ t.hash = h /\ t.wallet = w /\ t.at = "consume" /\ Begin(r, t)
  BY <1>1, AddressFacts DEF LoadLogin, LoadBind
<1>3. Safe(t, proved)
  BY <1>2 DEF Safe
<1> QED BY <1>1, <1>2, <1>3, SafeBegin DEF LoadLogin, LoadBind, securityVars

LEMMA ConsumeSave == ASSUME IInv, SaveInv, NEW r \in Requests, Consume(r) PROVE SaveInv'
<1> DEFINE t == requests[r]
           u == [t EXCEPT !.at = "byWallet", !.row = None]
<1>1. t # None /\ t.at = "consume" /\ UNCHANGED <<accountVars, totp, proved>>
  BY DEF Consume, securityVars
<1>2. CASE End(r)
  BY <1>1, <1>2, SafeEnd
<1>3. CASE Continue(r, u)
  <2>1. IsTask(t) /\ t.hash \in Hashes /\ t.wallet \in Addresses
    BY <1>1 DEF IInv, Shape, TaskOK, SaveInv, Safe
  <2>2. u.at = "byWallet" /\ u.hash = t.hash /\ u.wallet = t.wallet
    BY <2>1 DEF IsTask, Fields
  <2>3. Safe(u, proved)
    BY <2>1, <2>2 DEF Safe
  <2> QED BY <1>1, <1>3, <2>3, SafeBegin
<1> QED BY <1>2, <1>3 DEF Consume

LEMMA SignInSave == ASSUME IInv, SaveInv, SignIn PROVE SaveInv'
<1>1. ASSUME NEW r \in Requests, NEW h \in Subjects, Enter(r, h) PROVE SaveInv'
  <2> DEFINE t == Task("enter", "insert", h, None, None, Row(h, None, "unbound"))
  <2>1. Row(h, None, "unbound") \in Identity
    BY AddressFacts DEF Row, Identity, Status
  <2>2. Safe(t, proved)
    BY <2>1, SafeTask
  <2>3. Atomic \/ Begin(r, t)
    BY <1>1 DEF Enter
  <2>4. UNCHANGED <<accountVars, totp, proved>>
    BY <1>1 DEF Enter, securityVars
  <2> QED BY <2>2, <2>3, <2>4, SafeBegin, SafeStutter DEF Atomic
<1>2. ASSUME NEW r \in Requests, NEW w \in Wallets, DevLogin(r, w) PROVE SaveInv'
  <2> DEFINE t == Task("dev", "byHash", DevHash, Lower(w), None, None)
  <2>1. Safe(t, proved)
    BY AddressFacts, SafeTask
  <2>2. Atomic \/ Begin(r, t)
    BY <1>2 DEF DevLogin
  <2>3. UNCHANGED <<accountVars, totp, proved>>
    BY <1>2 DEF DevLogin, securityVars
  <2> QED BY <2>1, <2>2, <2>3, SafeBegin, SafeStutter DEF Atomic
<1> QED BY <1>1, <1>2 DEF SignIn

LEMMA BindOnChainSave == ASSUME IInv, SaveInv, BindOnChain PROVE SaveInv'
<1>1. ASSUME NEW w \in Wallets, NEW h \in Hashes, BindIdentity(w, h) PROVE SaveInv'
  <2>1. registry' \in [Wallets -> Hashes \cup {None}]
    BY <1>1 DEF BindIdentity, SaveInv, RowsOK
  <2> QED BY <1>1, <2>1 DEF BindIdentity, SaveInv, RowsOK, securityVars
<1>2. ASSUME NEW r \in Requests, NEW w \in Wallets, HandleIdentityBound(r, w) PROVE SaveInv'
  <2> DEFINE found == RowsOf(Checksummed(w))
             row == IF found = {} THEN None ELSE CHOOSE x \in found : TRUE
             new == Row(row.hash, Checksummed(w), "onchain")
             t1 == Task("chain", "byHash", registry[w], Checksummed(w), None, None)
             t2 == Task("chain", "update", row.hash, Checksummed(w), None, new)
  <2>1. UNCHANGED <<accountVars, totp, proved>>
    BY <1>2 DEF HandleIdentityBound, securityVars
  <2>2. CASE row = None
    <3>1. Begin(r, t1) /\ registry[w] \in Hashes
      BY <1>2, <2>2 DEF HandleIdentityBound, SaveInv, RowsOK
    <3>2. Safe(t1, proved)
      BY <3>1, AddressFacts, SafeTask
    <3> QED BY <2>1, <3>1, <3>2, SafeBegin
  <2>3. CASE row # None
    <3>1. row \in found /\ row \in Identity
      BY <2>3 DEF RowsOf, SaveInv, RowsOK
    <3>2. new \in Identity /\ new.wallet \in Addresses
      BY <3>1, AddressFacts DEF Row, Identity, Status
    <3>3. Begin(r, t2)
      BY <1>2, <2>3 DEF HandleIdentityBound
    <3>4. Safe(t2, proved)
      BY <3>2, SafeTask
    <3> QED BY <2>1, <3>3, <3>4, SafeBegin
  <2> QED BY <2>2, <2>3
<1>3. ASSUME NEW r \in Requests, NEW h \in Hashes, NEW w \in Wallets, StoreOnChain(r, h, w) PROVE SaveInv'
  <2> DEFINE new == Row(h, identities[h].wallet, "queued-for-onchain")
             t == Task("queue", "update", h, Lower(w), None, new)
  <2>1. UNCHANGED <<accountVars, totp, proved>> /\ Begin(r, t)
    BY <1>3 DEF StoreOnChain, securityVars
  <2>2. identities[h] \in Identity /\ identities[h].wallet \in Addresses
    BY <1>3 DEF StoreOnChain, SaveInv, RowsOK, Identity
  <2>3. new \in Identity /\ new.wallet \in Addresses
    BY <2>2 DEF Row, Identity, Status
  <2>4. Safe(t, proved)
    BY <2>3, SafeTask
  <2> QED BY <2>1, <2>4, SafeBegin
<1> QED BY <1>1, <1>2, <1>3 DEF BindOnChain

LEMMA FindSave ==
    ASSUME IInv, SaveInv, NEW r \in Requests, FindByWallet(r) \/ FindByHash(r) PROVE SaveInv'
<1> DEFINE t == requests[r]
           row == identities[t.hash]
           place == IF row = None THEN "insert" ELSE "update"
           u == [t EXCEPT !.at = "byHash"]
           v == [t EXCEPT !.at = place, !.row = Bound(t, row)]
<1>1. /\ t # None /\ t.at \in {"byWallet", "byHash"} /\ UNCHANGED <<accountVars, totp, proved>>
      /\ End(r) \/ Continue(r, u) \/ Continue(r, v)
  BY DEF FindByWallet, FindByHash, securityVars
<1>2. IsTask(t) /\ t.hash \in Hashes /\ t.wallet \in Addresses
  BY <1>1 DEF IInv, Shape, TaskOK, SaveInv, Safe, Past
<1>3. CASE End(r)
  BY <1>1, <1>3, SafeEnd
<1>4. CASE Continue(r, u)
  <2>1. u.at = "byHash" /\ u.hash = t.hash /\ u.wallet = t.wallet
    BY <1>2 DEF IsTask, Fields
  <2>2. Safe(u, proved)
    BY <1>2, <2>1 DEF Safe
  <2> QED BY <1>1, <1>4, <2>2, SafeBegin
<1>5. CASE Continue(r, v)
  <2>1. Bound(t, row) \in Identity /\ Bound(t, row).wallet \in Addresses
    BY <1>2 DEF Bound, Row, Identity, Status
  <2>2. v.at = place /\ v.row = Bound(t, row)
    BY <1>2 DEF IsTask, Fields
  <2>3. Safe(v, proved)
    BY <2>1, <2>2 DEF Safe
  <2> QED BY <1>1, <1>5, <2>3, SafeBegin
<1> QED BY <1>1, <1>3, <1>4, <1>5

\* The one step that writes identities.
LEMMA SaveIdentitySave ==
    ASSUME IInv, SaveInv, NEW r \in Requests, SaveIdentity(r)
    PROVE  /\ SaveInv'
           /\ \A h \in Hashes : identities[h] # None =>
                  /\ identities'[h] # None
                  /\ identities[h].wallet # None => identities'[h].wallet # None
<1> DEFINE t == requests[r]
<1>1. /\ t # None /\ t.at \in {"insert", "update"} /\ UNCHANGED <<registry, totp, proved>>
      /\ requests' = [requests EXCEPT ![r] = None]
  BY DEF SaveIdentity, securityVars, End, Continue
<1>2. t.row \in Identity /\ t.row.hash \in Hashes /\ t.row # None
      /\ (t.at = "update" => t.row.wallet # None)
  BY <1>1, AddressFacts DEF SaveInv, Safe, Identity
<1>3. Safe(None, proved)
  BY DEF Safe
<1>4. CASE UNCHANGED identities
  BY <1>1, <1>3, <1>4, NoSave
<1>5. CASE Storable(t.row, t.at = "insert") /\ identities' = [identities EXCEPT ![t.row.hash] = t.row]
  <2>1. identities' \in [Hashes -> Identity \cup {None}]
        /\ \A h \in Hashes : identities'[h] = IF h = t.row.hash THEN t.row ELSE identities[h]
    BY <1>2, <1>5 DEF SaveInv, RowsOK
  <2>2. \A q \in Requests : requests'[q] = IF q = r THEN None ELSE requests[q]
    BY <1>1 DEF IInv, Shape
  <2>3. SaveInv'
    BY <1>1, <1>3, <2>1, <2>2 DEF SaveInv, RowsOK
  <2>4. t.at = "insert" => identities[t.row.hash] = None
    BY <1>5 DEF Storable
  <2> QED BY <1>1, <1>2, <2>1, <2>3, <2>4
<1> QED BY <1>1, <1>4, <1>5 DEF SaveIdentity

\* Only SaveTotp and Disable2FA write secrets; a request that switches the
\* second factor on has shown a code of the secret it holds.
LEMMA SecretSaved ==
    ASSUME IInv, SaveInv, NEW r \in Requests, SaveTotp(r) PROVE SaveInv'
<1> DEFINE t == requests[r]
<1>1. /\ t # None /\ t.at = "totp" /\ UNCHANGED <<identities, registry, proved>> /\ End(r)
      /\ totp' = totp \/ totp' = [totp EXCEPT ![t.wallet] = t.row]
  BY DEF SaveTotp, accountVars, Written
<1>2. IsSecret(t.row) /\ (t.row.enabled => <<t.wallet, t.row.secret>> \in proved)
  BY <1>1 DEF SaveInv, Safe
<1>3. /\ totp' = [a \in Addresses |-> totp'[a]]
      /\ \A a \in Addresses : totp'[a] = totp[a] \/ (a = t.wallet /\ totp'[a] = t.row)
  BY <1>1 DEF SaveInv, RowsOK
<1>4. RowsOK'
  BY <1>1, <1>2, <1>3 DEF SaveInv, RowsOK
<1>5. \A q \in Requests : requests'[q] = IF q = r THEN None ELSE requests[q]
  BY <1>1 DEF End, Continue, IInv, Shape
<1>6. \A q \in Requests : Safe(requests'[q], proved')
  BY <1>1, <1>5 DEF SaveInv, Safe
<1> QED BY <1>4, <1>6 DEF SaveInv

LEMMA SecureSave == ASSUME IInv, SaveInv, Secure PROVE SaveInv'
<1>1. ASSUME NEW a \in Addresses, NEW r \in Requests, Setup2FA(r, a) PROVE SaveInv'
  <2> DEFINE row == Renewed(totp[a], calls + 1)
             t == [op |-> "setup2FA", at |-> "totp", wallet |-> a, row |-> row]
  <2>1. UNCHANGED <<accountVars, totp, proved>> /\ Begin(r, t)
    BY <1>1 DEF Setup2FA, securityVars
  <2>2. IsSecret(row) /\ row.enabled = FALSE
    BY DEF Renewed, IsSecret, SecretColumns
  <2>3. Safe(t, proved)
    BY <2>2 DEF Safe
  <2> QED BY <2>1, <2>3, SafeBegin
<1>2. ASSUME NEW a \in Addresses, NEW r \in Requests, Verify2FA(r, a) PROVE SaveInv'
  <2> DEFINE row == [totp[a] EXCEPT !.enabled = TRUE]
             t == [op |-> "verify2FA", at |-> "totp", wallet |-> a, row |-> row]
  <2>1. /\ UNCHANGED <<identities, registry, totp>> /\ totp[a] # None
        /\ requests' = [requests EXCEPT ![r] = t]
        /\ proved' = proved \cup {<<a, totp[a].secret>>}
    BY <1>2 DEF Verify2FA, accountVars, Begin
  <2>2. IsSecret(row) /\ row.secret = totp[a].secret
    BY <2>1 DEF SaveInv, RowsOK, IsSecret, SecretColumns
  <2> HIDE DEF row
  <2>3. t.row = row /\ t.wallet = a /\ t.at = "totp"
    OBVIOUS
  <2>4. <<a, row.secret>> \in proved'
    BY <2>1, <2>2
  <2> HIDE DEF t
  <2>5. Safe(t, proved')
    BY <2>2, <2>3, <2>4 DEF Safe
  <2> QED BY <2>1, <2>5, NoSave
<1>3. ASSUME NEW a \in Addresses, NEW r \in Requests, RegisterDevice(r, a) PROVE SaveInv'
  <2>1. PICK t : Begin(r, t) /\ t.at = "device"
    BY <1>3 DEF RegisterDevice
  <2>2. Safe(t, proved)
    BY <2>1 DEF Safe
  <2> QED BY <1>3, <2>1, <2>2, SafeBegin DEF RegisterDevice, securityVars
<1>4. ASSUME NEW a \in Addresses, Disable2FA(a) PROVE SaveInv'
  <2>1. UNCHANGED <<identities, registry, proved, requests>> /\ totp' = [totp EXCEPT ![a] = None]
    BY <1>4 DEF Disable2FA, accountVars, Atomic
  <2>2. RowsOK'
    BY <2>1 DEF SaveInv, RowsOK
  <2> QED BY <2>1, <2>2 DEF SaveInv
<1>5. ASSUME NEW a \in Addresses, RevokeDevice(a) \/ AddToWhitelist(a) \/ RemoveFromWhitelist(a)
      PROVE  SaveInv'
  BY <1>5, SafeStutter DEF RevokeDevice, AddToWhitelist, RemoveFromWhitelist, Atomic
<1> QED BY <1>1, <1>2, <1>3, <1>4, <1>5 DEF Secure

LEMMA StepSaveInv == IInv /\ SaveInv /\ [Next]_vars => SaveInv'
<1> SUFFICES ASSUME IInv, SaveInv, [Next]_vars PROVE SaveInv'
  OBVIOUS
<1>1. CASE Ask
  BY <1>1, ChallengeSave DEF Ask
<1>2. CASE Sign \/ SignIn \/ BindOnChain \/ Secure
  BY <1>2, SignSave, SignInSave, BindOnChainSave, SecureSave
<1>3. CASE \E k \in Keys : Expire(k)
  BY <1>3, SafeStutter DEF Expire, securityVars
<1>4. CASE \E r \in Requests : Step(r)
  <2>1. ASSUME NEW r \in Requests, SaveDevice(r) PROVE SaveInv'
    BY <2>1, SafeEnd DEF SaveDevice
  <2> QED BY <1>4, <2>1, ChallengeSave, ConsumeSave, FindSave, SaveIdentitySave, SecretSaved DEF Step
<1>5. CASE UNCHANGED vars
  BY <1>5, SafeStutter DEF vars, accountVars, securityVars
<1> QED BY <1>1, <1>2, <1>3, <1>4, <1>5 DEF Next

LEMMA Invariants == Spec => [](IInv /\ SaveInv)
<1>1. Init => IInv /\ SaveInv
  BY InitIInv, InitSaveInv
<1>2. IInv /\ SaveInv /\ [Next]_vars => (IInv /\ SaveInv)'
  BY StepIInv, StepSaveInv
<1> QED BY <1>1, <1>2, PTL DEF Spec

\* The second factor of an address is on only for a secret the user has shown a
\* code of, though setup2FA and verify2FA read the row and save it apart.
THEOREM SecondFactorProven == Spec => []TwoFactorProven
<1>1. SaveInv => TwoFactorProven
  BY DEF SaveInv, RowsOK, TwoFactorProven
<1> QED BY <1>1, Invariants, PTL

\* Whoever writes an identity writes one with a wallet over one with a wallet:
\* bindWallet, storeOnChain, walletVerify, handleIdentityBound.
THEOREM BoundStaysBound == Spec => NeverUnbound
<1> DEFINE Kept == \A h \in Hashes : identities[h] # None =>
                      /\ identities'[h] # None
                      /\ identities[h].wallet # None => identities'[h].wallet # None
<1>1. ASSUME IInv, SaveInv, [Next]_vars PROVE Kept
  <2>1. CASE UNCHANGED identities
    BY <2>1
  <2>2. ASSUME NEW r \in Requests, SaveIdentity(r) PROVE Kept
    BY <1>1, <2>2, SaveIdentitySave
  <2>3. UNCHANGED identities \/ \E r \in Requests : SaveIdentity(r)
    <3>1. Ask \/ Sign \/ SignIn \/ (\E k \in Keys : Expire(k)) => UNCHANGED identities
      BY DEF Ask, AskChallenge, Sign, LoadLogin, LoadBind, SignIn, Enter, DevLogin, Expire, accountVars
    <3>2. BindOnChain => UNCHANGED identities
      BY DEF BindOnChain, BindIdentity, HandleIdentityBound, StoreOnChain, accountVars
    <3>3. Secure => UNCHANGED identities
      BY DEF Secure, Setup2FA, Verify2FA, RegisterDevice, Disable2FA, RevokeDevice, AddToWhitelist,
             RemoveFromWhitelist, accountVars
    <3>4. \A r \in Requests : Step(r) => UNCHANGED identities \/ SaveIdentity(r)
      BY DEF Step, StoreChallenge, Consume, FindByWallet, FindByHash, SaveTotp, SaveDevice, accountVars
    <3>5. UNCHANGED vars => UNCHANGED identities
      BY DEF vars, accountVars
    <3> QED BY <1>1, <3>1, <3>2, <3>3, <3>4, <3>5 DEF Next
  <2> QED BY <2>1, <2>2, <2>3
<1>2. IInv /\ SaveInv /\ [Next]_vars => [Kept]_vars
  BY <1>1
<1> QED BY <1>2, Invariants, PTL DEF Spec, NeverUnbound
=============================================================================
