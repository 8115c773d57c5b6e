------------------------------ MODULE Accounts ------------------------------
(***************************************************************************)
(* Sign-in, wallet binding and account security: AuthService,              *)
(* IdentityService, SecurityService and the indexer's IdentityBound        *)
(* handler, over the tables identities, wallet_challenges, totp_secrets,   *)
(* devices and withdrawal_whitelist.  A request runs from one awaited      *)
(* query to the next; between two queries other requests run.              *)
(*                                                                         *)
(* A hash is named by what it is the hash of: a Fayda or Firebase subject, *)
(* a wallet in lower case, or the text of the development login.           *)
(***************************************************************************)
EXTENDS Naturals, FiniteSets

CONSTANTS
    Wallets,    \* key pairs
    Subjects,   \* verified Fayda or Firebase users
    DevHash,    \* the identity of devLogin
    Requests,   \* requests in flight
    DevMode,    \* NODE_ENV is not production
    None,       \* null
    MaxCalls    \* bound on the requests of a behaviour

ASSUME DevModeAssumption == DevMode \in BOOLEAN
ASSUME NoneAssumption ==
    None \notin Wallets \cup Subjects \cup Requests \cup [who : Wallets, form : {"lower", "mixed"}]

VARIABLES
    identities,     \* identities[h]: the row of identity hash h
    challenges,     \* challenges[k]: the row of challenge key k
    totp,           \* totp[a]: the one-time secret of address a
    devices,        \* devices[a]: the trusted device of address a
    whitelist,      \* rows of the withdrawal whitelist
    registry,       \* IdentityRegistry: the hash of each wallet, on the chain
    requests,       \* requests[r]: what request r does and has read
    issued,         \* messages handed out for signing
    sessions,       \* tokens signed
    proved,         \* secrets a right code was given for, by address
    calls           \* requests so far; also names new rows, nonces, secrets

accountVars == <<identities, registry>>
securityVars == <<totp, devices, whitelist, proved>>
vars == <<identities, challenges, totp, devices, whitelist, registry,
          requests, issued, sessions, proved, calls>>

\* An address as text: its case matters to the database.
Addresses == [who : Wallets, form : {"lower", "mixed"}]
Lower(w) == [who |-> w, form |-> "lower"]
Checksummed(w) == [who |-> w, form |-> "mixed"]

Hashes == Subjects \cup Wallets \cup {DevHash}
Status == {"unbound", "bound", "queued-for-onchain", "onchain"}
Identity == [hash : Hashes, wallet : Addresses \cup {None}, status : Status]
ASSUME RowAssumption == None \notin Identity

\* The key, hence the text, of a message names its purpose: to log in with a
\* wallet (identity None) or to bind it to an identity.
Keys == [identity : Hashes \cup {None}, wallet : Wallets]
Messages == [key : Keys, nonce : 1..MaxCalls]
Challenge == [message : Messages, consumed : BOOLEAN, expired : BOOLEAN]

TotpSecret == [id : 1..MaxCalls, secret : 1..MaxCalls, enabled : BOOLEAN]
Session == [sub : Hashes, wallet : Addresses \cup {None},
            message : Messages \cup {None}, call : 0..MaxCalls]

Init ==
    /\ identities = [h \in Hashes |-> None]
    /\ challenges = [k \in Keys |-> None]
    /\ totp = [a \in Addresses |-> None]
    /\ devices = [a \in Addresses |-> None]
    /\ whitelist = {}
    /\ registry = [w \in Wallets |-> None]
    /\ requests = [r \in Requests |-> None]
    /\ issued = {}
    /\ sessions = {}
    /\ proved = {}
    /\ calls = 0

-----------------------------------------------------------------------------
(* Requests *)

\* Request r begins: t is what it does and has read at its first query.
Begin(r, t) ==
    /\ requests[r] = None
    /\ calls < MaxCalls
    /\ calls' = calls + 1
    /\ requests' = [requests EXCEPT ![r] = t]

Continue(r, t) ==
    /\ requests' = [requests EXCEPT ![r] = t]
    /\ UNCHANGED calls

End(r) == Continue(r, None)

Doing(r, op, at) == requests[r] # None /\ requests[r].op = op /\ requests[r].at = at

\* A request that is over the moment its only query is.
Atomic == calls < MaxCalls /\ calls' = calls + 1 /\ UNCHANGED requests

SignedIn(h) == \E s \in sessions : s.sub = h
Authenticated(a) == \E s \in sessions : s.wallet = a

\* Tokens of one content are told apart only when a signature paid for them.
Token(sub, a, message, call) ==
    sessions' = sessions \cup
        {[sub |-> sub, wallet |-> a, message |-> message,
          call |-> IF message = None THEN 0 ELSE call]}

Row(h, a, status) == [hash |-> h, wallet |-> a, status |-> status]

Task(op, at, h, a, message, row) ==
    [op |-> op, at |-> at, hash |-> h, wallet |-> a, message |-> message,
     row |-> row, call |-> calls + 1]

-----------------------------------------------------------------------------
(* Challenges *)

\* issueChallenge deletes the row of the key, then inserts the new one.
AskChallenge(r, key) ==
    /\ key.identity # None => SignedIn(key.identity)
    /\ Begin(r, [op |-> "challenge", at |-> "save",
                 message |-> [key |-> key, nonce |-> calls + 1]])
    /\ challenges' = [challenges EXCEPT ![key] = None]
    /\ UNCHANGED <<accountVars, securityVars, issued, sessions>>

\* The unique index on the key refuses a second row.
StoreChallenge(r) ==
    /\ Doing(r, "challenge", "save")
    /\ LET m == requests[r].message
       IN  IF challenges[m.key] = None
           THEN /\ challenges' = [challenges EXCEPT ![m.key] =
                       [message |-> m, consumed |-> FALSE, expired |-> FALSE]]
                /\ issued' = issued \cup {m}
           ELSE UNCHANGED <<challenges, issued>>
    /\ End(r)
    /\ UNCHANGED <<accountVars, securityVars, sessions>>

Expire(key) ==
    /\ challenges[key] # None
    /\ ~challenges[key].expired
    /\ challenges' = [challenges EXCEPT ![key].expired = TRUE]
    /\ UNCHANGED <<accountVars, securityVars, issued, sessions, requests, calls>>

\* What loadAndConsumeChallenge checks on the row it has read.
Accepts(key, message) ==
    /\ challenges[key] # None
    /\ ~challenges[key].consumed
    /\ ~challenges[key].expired
    /\ challenges[key].message = message

\* A message signed by some wallet comes in to log in with address a.
LoadLogin(r, a, message, signer) ==
    LET key == [identity |-> None, wallet |-> a.who]
    IN  /\ Accepts(key, message)
        /\ Begin(r, [op |-> "login", at |-> "consume", hash |-> a.who, wallet |-> a,
                     message |-> message, signer |-> signer, call |-> calls + 1,
                     row |-> challenges[key]])
        /\ UNCHANGED <<accountVars, challenges, securityVars, issued, sessions>>

\* The same to bind the wallet of a to identity h, by who is signed in as h.
LoadBind(r, h, a, message, signer) ==
    LET key == [identity |-> h, wallet |-> a.who]
    IN  /\ SignedIn(h)
        /\ Accepts(key, message)
        /\ Begin(r, [op |-> "bind", at |-> "consume", hash |-> h, wallet |-> Lower(a.who),
                     message |-> message, signer |-> signer, call |-> calls + 1,
                     row |-> challenges[key]])
        /\ UNCHANGED <<accountVars, challenges, securityVars, issued, sessions>>

\* Mutant: the row is consumed whether or not another request did so.
TakesConsumed(row) ==
    /\ challenges[row.message.key] # None
    /\ challenges[row.message.key].message = row.message

\* UPDATE ... WHERE id = :id AND "consumedAt" IS NULL affects the row read.
Takes(row) ==
    /\ challenges[row.message.key] # None
    /\ challenges[row.message.key].message = row.message
    /\ ~challenges[row.message.key].consumed

\* Consumes the challenge, then checks who signed: a wrong signature costs the
\* challenge.
Consume(r) ==
    LET t == requests[r]
    IN  /\ t # None /\ t.at = "consume"
        /\ IF Takes(t.row)
           THEN /\ challenges' = [challenges EXCEPT ![t.row.message.key].consumed = TRUE]
                /\ IF t.signer = t.wallet.who
                   THEN Continue(r, [t EXCEPT !.at = "byWallet", !.row = None])
                   ELSE End(r)
           ELSE End(r) /\ UNCHANGED challenges
        /\ UNCHANGED <<accountVars, securityVars, issued, sessions>>

-----------------------------------------------------------------------------
(* Identities *)

RowsOf(a) == {identities[h] : h \in {g \in Hashes : identities[g] # None /\ identities[g].wallet = a}}

\* The unique indexes let this row be written.  fresh: it is inserted.
Storable(row, fresh) ==
    /\ fresh => identities[row.hash] = None
    /\ row.wallet # None =>
           \A h \in Hashes \ {row.hash} :
               identities[h] # None => identities[h].wallet # row.wallet

\* verifyFayda and exchangeFirebaseSession: the subject is verified elsewhere.
Enter(r, h) ==
    /\ IF identities[h] # None
       THEN Atomic /\ Token(h, identities[h].wallet, None, calls + 1)
       ELSE /\ Begin(r, Task("enter", "insert", h, None, None, Row(h, None, "unbound")))
            /\ UNCHANGED sessions
    /\ UNCHANGED <<accountVars, challenges, securityVars, issued>>

\* devLogin looks for the wallet whatever its case.
DevLogin(r, w) ==
    LET found == {identities[h] : h \in {g \in Hashes : /\ identities[g] # None
                                                        /\ identities[g].wallet # None
                                                        /\ identities[g].wallet.who = w}}
    IN  /\ DevMode
        /\ IF found # {}
           THEN \E row \in found : Atomic /\ Token(row.hash, row.wallet, None, calls + 1)
           ELSE /\ Begin(r, Task("dev", "byHash", DevHash, Lower(w), None, None))
                /\ UNCHANGED sessions
        /\ UNCHANGED <<accountVars, challenges, securityVars, issued>>

\* The event of a binding on the chain, with the address in its checksummed
\* form; a poll may meet it more than once.
HandleIdentityBound(r, w) ==
    /\ registry[w] # None
    /\ LET found == RowsOf(Checksummed(w))
           row == IF found = {} THEN None ELSE CHOOSE x \in found : TRUE
       IN  Begin(r, IF row = None
                    THEN Task("chain", "byHash", registry[w], Checksummed(w), None, None)
                    ELSE Task("chain", "update", row.hash, Checksummed(w), None,
                              Row(row.hash, Checksummed(w), "onchain")))
    /\ UNCHANGED <<accountVars, challenges, securityVars, issued, sessions>>

\* walletVerify and bindWallet look for the lower-case address.
FindByWallet(r) ==
    LET t == requests[r]
        found == RowsOf(Lower(t.wallet.who))
    IN  /\ t # None /\ t.at = "byWallet"
        /\ CASE t.op = "login" /\ found # {} ->
                  End(r) /\ Token(t.hash, t.wallet, t.message, t.call)
             [] t.op = "bind" /\ \E row \in found : row.hash # t.hash ->
                  End(r) /\ UNCHANGED sessions
             [] OTHER -> Continue(r, [t EXCEPT !.at = "byHash"]) /\ UNCHANGED sessions
        /\ UNCHANGED <<accountVars, challenges, securityVars, issued>>

\* What is written over the row found by hash, or for want of one.
Bound(t, row) ==
    Row(t.hash, t.wallet, IF t.op = "chain" THEN "onchain" ELSE "bound")

FindByHash(r) ==
    LET t == requests[r]
        row == identities[t.hash]
        same == row # None /\ row.wallet # None /\ row.wallet.who = t.wallet.who
        other == row # None /\ row.wallet # None /\ row.wallet.who # t.wallet.who
    IN  /\ t # None /\ t.at = "byHash"
        /\ CASE t.op = "bind" /\ (row = None \/ other) ->
                  End(r) /\ UNCHANGED sessions
             [] t.op \in {"login", "dev"} /\ same ->
                  End(r) /\ Token(t.hash, IF t.op = "dev" THEN row.wallet ELSE t.wallet,
                                  t.message, t.call)
             [] OTHER ->
                  /\ Continue(r, [t EXCEPT !.at = IF row = None THEN "insert" ELSE "update",
                                           !.row = Bound(t, row)])
                  /\ UNCHANGED sessions
        /\ UNCHANGED <<accountVars, challenges, securityVars, issued>>

\* Mutant: storeOnChain does not compare the wallets.
StoreOnChainUnbound(r, h, w) ==
    /\ SignedIn(h)
    /\ identities[h] # None
    /\ Begin(r, Task("queue", "update", h, Lower(w), None,
                     Row(h, identities[h].wallet, "queued-for-onchain")))
    /\ UNCHANGED <<accountVars, challenges, securityVars, issued, sessions>>

\* The legacy queue: only for the wallet the identity has.
StoreOnChain(r, h, w) ==
    /\ SignedIn(h)
    /\ identities[h] # None /\ identities[h].wallet # None
    /\ identities[h].wallet.who = w
    /\ Begin(r, Task("queue", "update", h, Lower(w), None,
                     Row(h, identities[h].wallet, "queued-for-onchain")))
    /\ UNCHANGED <<accountVars, challenges, securityVars, issued, sessions>>

\* The row is saved whole, as it was read and changed, or an index refuses it;
\* then the token is signed, if the request is to give one.
SaveIdentity(r) ==
    LET t == requests[r]
    IN  /\ t # None /\ t.at \in {"insert", "update"}
        /\ IF Storable(t.row, t.at = "insert")
           THEN /\ identities' = [identities EXCEPT ![t.row.hash] = t.row]
                /\ IF t.op \in {"chain", "queue"}
                   THEN UNCHANGED sessions
                   ELSE Token(t.hash, t.wallet, t.message, t.call)
           ELSE UNCHANGED <<identities, sessions>>
        /\ End(r)
        /\ UNCHANGED <<registry, challenges, securityVars, issued>>

\* IdentityRegistry.bindIdentity, through the transaction of buildStoreOnChain
\* or without the backend.
BindIdentity(w, h) ==
    /\ registry[w] = None
    /\ \A x \in Wallets : registry[x] # h
    /\ registry' = [registry EXCEPT ![w] = h]
    /\ UNCHANGED <<identities, challenges, securityVars, issued, sessions, requests, calls>>

-----------------------------------------------------------------------------
(* Security: one-time codes, devices and the whitelist of an address.  The *)
(* repository saves a row read earlier as a whole, and inserts it again if *)
(* it was deleted meanwhile; the address is unique.                        *)

Written(table, a, row) ==
    IF table[a] = None \/ table[a].id = row.id THEN [table EXCEPT ![a] = row] ELSE table

\* setup2FA puts a fresh secret in the row, not enabled.
Renewed(existing, id) ==
    [id |-> IF existing = None THEN id ELSE existing.id, secret |-> id, enabled |-> FALSE]

Setup2FA(r, a) ==
    /\ Authenticated(a)
    /\ totp[a] # None => ~totp[a].enabled
    /\ Begin(r, [op |-> "setup2FA", at |-> "totp", wallet |-> a,
                 row |-> Renewed(totp[a], calls + 1)])
    /\ UNCHANGED <<accountVars, securityVars, challenges, issued, sessions>>

\* The code is checked against the secret just read.
Verify2FA(r, a) ==
    /\ Authenticated(a)
    /\ totp[a] # None
    /\ Begin(r, [op |-> "verify2FA", at |-> "totp", wallet |-> a,
                 row |-> [totp[a] EXCEPT !.enabled = TRUE]])
    /\ proved' = proved \cup {<<a, totp[a].secret>>}
    /\ UNCHANGED <<accountVars, totp, devices, whitelist, challenges, issued, sessions>>

\* Mutant: only the flag and the date of the verification are written.
SaveFlagOnly(r) ==
    LET t == requests[r]
    IN  /\ t # None /\ t.at = "totp"
        /\ totp' = IF t.op = "verify2FA" /\ totp[t.wallet] # None
                   THEN [totp EXCEPT ![t.wallet].enabled = TRUE]
                   ELSE Written(totp, t.wallet, t.row)
        /\ End(r)
        /\ UNCHANGED <<accountVars, devices, whitelist, proved, challenges, issued, sessions>>

SaveTotp(r) ==
    LET t == requests[r]
    IN  /\ t # None /\ t.at = "totp"
        /\ totp' = Written(totp, t.wallet, t.row)
        /\ End(r)
        /\ UNCHANGED <<accountVars, devices, whitelist, proved, challenges, issued, sessions>>

Disable2FA(a) ==
    /\ Authenticated(a) /\ totp[a] # None
    /\ totp' = [totp EXCEPT ![a] = None]
    /\ Atomic
    /\ UNCHANGED <<accountVars, devices, whitelist, proved, challenges, issued, sessions>>

RegisterDevice(r, a) ==
    /\ Authenticated(a)
    /\ Begin(r, [op |-> "device", at |-> "device", wallet |-> a,
                 row |-> IF devices[a] = None THEN [id |-> calls + 1] ELSE devices[a]])
    /\ UNCHANGED <<accountVars, securityVars, challenges, issued, sessions>>

SaveDevice(r) ==
    LET t == requests[r]
    IN  /\ t # None /\ t.at = "device"
        /\ devices' = Written(devices, t.wallet, t.row)
        /\ End(r)
        /\ UNCHANGED <<accountVars, totp, whitelist, proved, challenges, issued, sessions>>

RevokeDevice(a) ==
    /\ Authenticated(a) /\ devices[a] # None
    /\ devices' = [devices EXCEPT ![a] = None]
    /\ Atomic
    /\ UNCHANGED <<accountVars, totp, whitelist, proved, challenges, issued, sessions>>

AddToWhitelist(a) ==
    /\ Authenticated(a)
    /\ whitelist' = whitelist \cup {[id |-> calls + 1, wallet |-> a]}
    /\ Atomic
    /\ UNCHANGED <<accountVars, totp, devices, proved, challenges, issued, sessions>>

RemoveFromWhitelist(a) ==
    /\ Authenticated(a)
    /\ \E row \in whitelist : row.wallet = a /\ whitelist' = whitelist \ {row}
    /\ Atomic
    /\ UNCHANGED <<accountVars, totp, devices, proved, challenges, issued, sessions>>

-----------------------------------------------------------------------------
Ask == \E r \in Requests, k \in Keys : AskChallenge(r, k)

Sign == \E r \in Requests, m \in issued, signer \in Wallets :
    \/ \E a \in Addresses : LoadLogin(r, a, m, signer)
    \/ \E h \in Hashes, a \in Addresses : LoadBind(r, h, a, m, signer)

SignIn ==
    \/ \E r \in Requests, h \in Subjects : Enter(r, h)
    \/ \E r \in Requests, w \in Wallets : DevLogin(r, w)

BindOnChain ==
    \/ \E w \in Wallets, h \in Hashes : BindIdentity(w, h)
    \/ \E r \in Requests, w \in Wallets : HandleIdentityBound(r, w)
    \/ \E r \in Requests, h \in Hashes, w \in Wallets : StoreOnChain(r, h, w)

Secure == \E a \in Addresses :
    \/ \E r \in Requests : Setup2FA(r, a) \/ Verify2FA(r, a) \/ RegisterDevice(r, a)
    \/ Disable2FA(a) \/ RevokeDevice(a) \/ AddToWhitelist(a) \/ RemoveFromWhitelist(a)

Step(r) ==
    \/ StoreChallenge(r) \/ Consume(r)
    \/ FindByWallet(r) \/ FindByHash(r) \/ SaveIdentity(r)
    \/ SaveTotp(r) \/ SaveDevice(r)

Next ==
    \/ Ask \/ Sign \/ SignIn \/ BindOnChain \/ Secure
    \/ \E k \in Keys : Expire(k)
    \/ \E r \in Requests : Step(r)

Spec == Init /\ [][Next]_vars

-----------------------------------------------------------------------------
(* Properties *)

\* A row of identities has the hash it is stored under, a wallet from the
\* moment it is more than unbound, and an address no other row has
\* (Identity, whose walletAddress is unique as text).
IdentitiesOK ==
    /\ identities \in [Hashes -> Identity \cup {None}]
    /\ \A h \in Hashes : identities[h] # None =>
           /\ identities[h].hash = h
           /\ identities[h].wallet = None <=> identities[h].status = "unbound"
    /\ \A g, h \in Hashes :
           /\ g # h /\ identities[g] # None /\ identities[h] # None
           /\ identities[g].wallet # None
           => identities[g].wallet # identities[h].wallet

\* Types, and the shape of the identity rows whichever of the six writers
\* saved them last.
TypeOK ==
    /\ IdentitiesOK
    /\ challenges \in [Keys -> Challenge \cup {None}]
    /\ totp \in [Addresses -> TotpSecret \cup {None}]
    /\ devices \in [Addresses -> [id : 1..MaxCalls] \cup {None}]
    /\ whitelist \subseteq [id : 1..MaxCalls, wallet : Addresses]
    /\ registry \in [Wallets -> Hashes \cup {None}]
    /\ issued \subseteq Messages
    /\ sessions \subseteq Session
    /\ proved \subseteq Addresses \X (1..MaxCalls)
    /\ calls \in 0..MaxCalls

\* One signed message opens at most one session, and only one for the wallet
\* that had to sign it, however many copies of it are checked at once and
\* whatever challenges are asked for meanwhile (loadAndConsumeChallenge).
SignatureUsedOnce ==
    \A s \in sessions : s.message # None =>
        /\ s.wallet.who = s.message.key.wallet
        /\ s.message.key.identity # None => s.sub = s.message.key.identity
        /\ \A t \in sessions : t.message = s.message => t = s

\* An identity that has a wallet keeps having one: no row read before a
\* binding is saved over it (bindWallet, storeOnChain, walletVerify,
\* handleIdentityBound save the row they read earlier).
NeverUnbound ==
    [][\A h \in Hashes : identities[h] # None =>
          /\ identities'[h] # None
          /\ identities[h].wallet # None => identities'[h].wallet # None]_vars

\* Two-factor authentication is on only for a secret the user has shown a code
\* of, though setup2FA and verify2FA read and save the row apart.
TwoFactorProven ==
    \A a \in Addresses :
        totp[a] # None /\ totp[a].enabled => <<a, totp[a].secret>> \in proved
=============================================================================
