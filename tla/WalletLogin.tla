----------------------------- MODULE WalletLogin -----------------------------
(***************************************************************************)
(* Wallet login (apps/web/lib/server/wallet-auth.ts): a signed one-time    *)
(* challenge mints an API key; a key authorises requests (lib/auth.ts)     *)
(* until it is revoked.  Each database call is a step.  One of the clients *)
(* is a founder on the /connect page (components/auth/connect-flow.tsx),   *)
(* to whom the key is shown once.                                          *)
(***************************************************************************)
EXTENDS Integers, Sequences, FiniteSets

CONSTANTS
    Owner,                \* wallets that sign in
    Login,                \* verify and revoke calls that may be running at once
    Nonce,                \* challenges that can be created (bound)
    MaxActiveKeys         \* MAX_ACTIVE_KEYS_PER_WALLET

ASSUME LoginAssumption ==
    MaxActiveKeys \in Nat \ {0} /\ IsFiniteSet(Login) /\ 0 \notin Login \cup Nonce \cup Owner

VARIABLES
    challenges,           \* AuthChallenge rows
    apiKeys,              \* ApiKey rows, in the order they were created
    login,                \* the handlers' control points and locals
    page                  \* the /connect page

databaseVars == <<challenges, apiKeys, login>>
loginVars == <<databaseVars, page>>

NoCall == 0
NoOwner == 0
NoNonce == 0
NoPage == [at |-> "ready", wallet |-> NoOwner, nonce |-> NoNonce, call |-> NoCall, key |-> 0]
NoLogin == [pc |-> "idle", nonce |-> NoNonce, key |-> 0]

(* The age of a challenge: valid, past expiresAt, an hour past it.         *)
LoginTypeOK ==
    /\ challenges \in [Nonce -> [age : {"none", "valid", "expired", "old", "deleted"},
                                 wallet : Owner \cup {NoOwner}, signed : BOOLEAN, used : BOOLEAN]]
    /\ apiKeys \in Seq([wallet : Owner, nonce : Nonce, revoked : BOOLEAN])
    /\ login \in [Login -> [pc : {"idle", "consume", "count", "create", "revoke"},
                            nonce : Nonce \cup {NoNonce}, key : 0..Len(apiKeys)]]
    /\ page \in [at : {"ready", "challenge", "sign", "cancelled", "verify", "failed", "minted"},
                 wallet : Owner \cup {NoOwner}, nonce : Nonce \cup {NoNonce}, call : Login \cup {NoCall}, key : 0..Len(apiKeys)]

LoginInit ==
    /\ challenges = [n \in Nonce |->
           [age |-> "none", wallet |-> NoOwner, signed |-> FALSE, used |-> FALSE]]
    /\ apiKeys = <<>>
    /\ login = [q \in Login |-> NoLogin] /\ page = NoPage

ActiveKeys(o) == {k \in DOMAIN apiKeys : apiKeys[k].wallet = o /\ ~apiKeys[k].revoked}

LeaveLogin(q) == login' = [login EXCEPT ![q] = NoLogin]
StepLogin(q, label) == login' = [login EXCEPT ![q].pc = label]

-----------------------------------------------------------------------------
(* createChallenge: long expired challenges are deleted on the way. *)
createChallenge(n, o, signed) ==
    /\ challenges[n].age = "none"
    /\ challenges' = [m \in Nonce |->
           IF m = n THEN [age |-> "valid", wallet |-> o, signed |-> signed, used |-> FALSE]
           ELSE IF challenges[m].age = "old" THEN [challenges[m] EXCEPT !.age = "deleted"]
           ELSE challenges[m]]
    /\ UNCHANGED <<apiKeys, login>>

(* Another page asks, and its founder signs.                               *)
CreateChallenge(n, o) == createChallenge(n, o, TRUE) /\ UNCHANGED page

AgeChallenge(n) ==
    /\ \E step \in {<<"valid", "expired">>, <<"expired", "old">>} :
          /\ challenges[n].age = step[1]
          /\ challenges' = [challenges EXCEPT ![n].age = step[2]]
    /\ UNCHANGED <<apiKeys, login, page>>

(* Only the wallet that a challenge is for can have signed its message.    *)
verifyAcceptanceSignature(n) == challenges[n].signed

(* verifyChallenge loads the challenge and checks the signature. *)
Verifiable(n) == challenges[n].age = "valid" /\ ~challenges[n].used /\ verifyAcceptanceSignature(n)

LoadChallenge(q, n) ==
    /\ login[q].pc = "idle"
    /\ login' = [login EXCEPT ![q] = [NoLogin EXCEPT !.pc = "consume", !.nonce = n]]

(* A request of another page, or one that is delivered again.              *)
StartVerify(q, n) ==
    /\ Verifiable(n) /\ LoadChallenge(q, n)
    /\ UNCHANGED <<challenges, apiKeys, page>>

(* The page is told, or its answer is lost, that its call ended this way.  *)
Answered(q, outcome) ==
    IF page.call = q THEN page' \in {outcome, [page EXCEPT !.at = "failed", !.call = NoCall]}
    ELSE UNCHANGED page

Refused(q) == LeaveLogin(q) /\ Answered(q, [page EXCEPT !.at = "failed", !.call = NoCall])

(* Mutant: marks the challenge used whatever it was. *)
Consumable_Loaded(n) == challenges[n].age # "deleted"

Consumable(n) == challenges[n].age # "deleted" /\ ~challenges[n].used

Consume(q) ==
    /\ login[q].pc = "consume"
    /\ IF Consumable(login[q].nonce)
       THEN /\ challenges' = [challenges EXCEPT ![login[q].nonce].used = TRUE]
            /\ StepLogin(q, "count") /\ UNCHANGED page
       ELSE UNCHANGED challenges /\ Refused(q)
    /\ UNCHANGED apiKeys

(* Mutant: one key too many passes. *)
CountKeys_OffByOne(q) ==
    /\ login[q].pc = "count"
    /\ IF Cardinality(ActiveKeys(challenges[login[q].nonce].wallet)) <= MaxActiveKeys
       THEN StepLogin(q, "create") /\ UNCHANGED page ELSE Refused(q)
    /\ UNCHANGED <<challenges, apiKeys>>

(* The challenge is spent also where the wallet has too many keys. *)
CountKeys(q) ==
    /\ login[q].pc = "count"
    /\ IF Cardinality(ActiveKeys(challenges[login[q].nonce].wallet)) < MaxActiveKeys
       THEN StepLogin(q, "create") /\ UNCHANGED page ELSE Refused(q)
    /\ UNCHANGED <<challenges, apiKeys>>

CreateKey(q) ==
    /\ login[q].pc = "create"
    /\ apiKeys' = Append(apiKeys,
           [wallet |-> challenges[login[q].nonce].wallet, nonce |-> login[q].nonce, revoked |-> FALSE])
    /\ LeaveLogin(q)
    /\ Answered(q, [page EXCEPT !.at = "minted", !.call = NoCall, !.key = Len(apiKeys) + 1])
    /\ UNCHANGED challenges

-----------------------------------------------------------------------------
(* getPrincipal: the key of the bearer token, if it is not revoked. *)
Authorised(k) == k \in DOMAIN apiKeys /\ ~apiKeys[k].revoked

(* DELETE /api/auth/me: authorised by one key, revokes a key of its wallet. *)
StartRevoke(q, k, other) ==
    /\ login[q].pc = "idle" /\ Authorised(k)
    /\ other \in ActiveKeys(apiKeys[k].wallet)
    /\ login' = [login EXCEPT ![q] = [NoLogin EXCEPT !.pc = "revoke", !.key = other]]
    /\ UNCHANGED <<challenges, apiKeys, page>>

RevokeKey(q) ==
    /\ login[q].pc = "revoke"
    /\ apiKeys' = [apiKeys EXCEPT ![login[q].key].revoked = TRUE]
    /\ LeaveLogin(q)
    /\ UNCHANGED <<challenges, page>>

(* The handler fails or is killed: nothing is given back. *)
LoginFails(q) ==
    /\ login[q].pc # "idle"
    /\ Refused(q)
    /\ UNCHANGED <<challenges, apiKeys>>

-----------------------------------------------------------------------------
(* The /connect page: run.  One button, disabled while it runs; the wallet *)
(* is the one connected when it was pressed.                               *)

Press(o) ==
    /\ page.at \in {"ready", "cancelled", "failed"}
    /\ page' = [NoPage EXCEPT !.at = "challenge", !.wallet = o]
    /\ UNCHANGED databaseVars

Challenged(n) ==
    /\ page.at = "challenge"
    /\ createChallenge(n, page.wallet, FALSE)
    /\ page' \in {[page EXCEPT !.at = "sign", !.nonce = n], [page EXCEPT !.at = "failed"]}

CancelSign ==
    /\ page.at = "sign"
    /\ page' = [page EXCEPT !.at = "cancelled"]
    /\ UNCHANGED databaseVars

(* The wallet signs and the answer is awaited; a challenge that has run    *)
(* out is refused at once.                                                 *)
SignIn(q) ==
    /\ page.at = "sign"
    /\ challenges' = [challenges EXCEPT ![page.nonce].signed = TRUE]
    /\ IF challenges[page.nonce].age = "valid"
       THEN LoadChallenge(q, page.nonce) /\ page' = [page EXCEPT !.at = "verify", !.call = q]
       ELSE page' = [page EXCEPT !.at = "failed"] /\ UNCHANGED login
    /\ UNCHANGED apiKeys

(* Between calls; challenges are bounded.                                  *)
LoginRest == (\A q \in Login : login[q].pc = "idle") /\ UNCHANGED loginVars

LoginNext ==
    \/ LoginRest
    \/ \E n \in Nonce, o \in Owner : CreateChallenge(n, o)
    \/ \E n \in Nonce : AgeChallenge(n) \/ Challenged(n)
    \/ (\E o \in Owner : Press(o)) \/ CancelSign
    \/ \E q \in Login :
          \/ \E n \in Nonce : StartVerify(q, n)
          \/ Consume(q) \/ CountKeys(q) \/ CreateKey(q) \/ RevokeKey(q) \/ LoginFails(q) \/ SignIn(q)
          \/ \E k, other \in DOMAIN apiKeys : StartRevoke(q, k, other)

LoginSpec == LoginInit /\ [][LoginNext]_loginVars

-----------------------------------------------------------------------------
(* Properties.                                                             *)

(* The key that the page shows, once, is one of the wallet that signed in, *)
(* from the challenge the page asked for; and where it says "No key was    *)
(* created", none was, nor will be.                                        *)
PageShowsItsKey ==
    /\ page.at = "minted" =>
          /\ apiKeys[page.key].wallet = page.wallet
          /\ apiKeys[page.key].nonce = page.nonce
    /\ page.at = "cancelled" =>
          /\ \A k \in DOMAIN apiKeys : apiKeys[k].nonce # page.nonce
          /\ \A q \in Login : login[q].pc \in {"consume", "count", "create"} =>
                                  login[q].nonce # page.nonce

(* One signature mints at most one key, although several calls may present *)
(* it at once and each has loaded the challenge unused; and what the page  *)
(* says of that key is true.                                               *)
OneKeyPerChallenge ==
    /\ \A i, j \in DOMAIN apiKeys : apiKeys[i].nonce = apiKeys[j].nonce => i = j
    /\ PageShowsItsKey

(* The keys are counted before one is created, so calls that run together  *)
(* pass the limit, but by no more than the other calls running.            *)
KeysNearLimit ==
    \A o \in Owner : Cardinality(ActiveKeys(o)) < MaxActiveKeys + Cardinality(Login)

=============================================================================
