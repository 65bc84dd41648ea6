----------------------------- MODULE AppProofs -----------------------------
(***************************************************************************)
(* Proofs about the parts of the app around the payouts: WalletLogin,      *)
(* which says who is calling, ReportingPeriods, the rows of an issuance's  *)
(* reporting calendar, and TradePanel, the investor's page.  They share    *)
(* nothing.                                                                *)
(***************************************************************************)
EXTENDS WalletLogin, ReportingPeriods, TradePanel, SequenceTheorems, FiniteSetTheorems, TLAPS

-----------------------------------------------------------------------------
(* WalletLogin, for every set of wallets, calls and challenges.            *)
(*                                                                         *)
(* A signature mints one key, and the page tells the truth about it.  The  *)
(* argument: whoever is past Consume marked a challenge used that was not, *)
(* so he is the only one to hold it, until its key bears its nonce; and a  *)
(* page that has not signed has a challenge nobody can present.            *)

Spent == {"count", "create"}
Verifying == Spent \cup {"consume"}

(* A challenge that was handed out is for a wallet. *)
ChallengeInv == \A n \in Nonce : challenges[n].age # "none" => challenges[n].wallet \in Owner

(* A key's challenge is spent, and was for the key's wallet. *)
KeyInv ==
    /\ \A k \in DOMAIN apiKeys :
          LET c == challenges[apiKeys[k].nonce]
          IN c.age # "none" /\ c.used /\ c.signed /\ c.wallet = apiKeys[k].wallet
    /\ \A i, j \in DOMAIN apiKeys : apiKeys[i].nonce = apiKeys[j].nonce => i = j

(* A call works on a signed challenge; past Consume it is its own.         *)
CallInv ==
    /\ \A q \in Login : login[q].pc \in Verifying =>
          /\ login[q].nonce \in Nonce
          /\ challenges[login[q].nonce].age # "none" /\ challenges[login[q].nonce].signed
    /\ \A q \in Login : login[q].pc \in Spent =>
          /\ challenges[login[q].nonce].used
          /\ \A k \in DOMAIN apiKeys : apiKeys[k].nonce # login[q].nonce
          /\ \A r \in Login : login[r].pc \in Spent /\ login[r].nonce = login[q].nonce => r = q

(* The page waits for one call; before it signs nobody can present its     *)
(* challenge. *)
PageInv ==
    /\ page.at \in {"sign", "cancelled", "verify", "minted"} =>
          /\ page.nonce \in Nonce /\ challenges[page.nonce].age # "none"
          /\ challenges[page.nonce].wallet = page.wallet
    /\ page.at \in {"challenge", "sign", "verify"} => page.wallet \in Owner
    /\ page.at \in {"sign", "cancelled"} => ~challenges[page.nonce].signed
    /\ page.at = "verify" =>
          /\ page.call \in Login
          /\ login[page.call].pc \in Verifying /\ login[page.call].nonce = page.nonce
    /\ page.at # "verify" => page.call = NoCall
    /\ page.at = "minted" =>
          /\ page.key \in DOMAIN apiKeys
          /\ apiKeys[page.key].nonce = page.nonce

LoginInv == LoginTypeOK /\ ChallengeInv /\ KeyInv /\ CallInv /\ PageInv

-----------------------------------------------------------------------------
(* What most steps leave alone.                                            *)

(* Of a challenge that was handed out only its age and its use change. *)
ChallengesKept ==
    \A n \in Nonce : challenges[n].age # "none" =>
        /\ challenges'[n].age # "none"
        /\ challenges'[n].wallet = challenges[n].wallet
        /\ challenges'[n].signed = challenges[n].signed
        /\ challenges[n].used => challenges'[n].used

KeysKept ==
    /\ DOMAIN apiKeys \subseteq DOMAIN apiKeys'
    /\ \A k \in DOMAIN apiKeys :
          apiKeys'[k].nonce = apiKeys[k].nonce /\ apiKeys'[k].wallet = apiKeys[k].wallet

(* A page that is not told anything keeps its truth, as long as the call   *)
(* it waits for is still verifying.                                        *)
LEMMA PageKept ==
  ASSUME LoginInv, ChallengesKept, KeysKept, page' = page,
         page.at = "verify" =>
             login'[page.call].pc \in Verifying /\ login'[page.call].nonce = login[page.call].nonce
  PROVE  PageInv'
BY DEF LoginInv, PageInv, ChallengesKept, KeysKept

LEMMA PageFailed ==
  ASSUME page'.at = "failed", page'.call = NoCall
  PROVE  PageInv'
BY DEF PageInv

LEMMA KeyRows ==
  ASSUME LoginTypeOK
  PROVE  /\ DOMAIN apiKeys = 1..Len(apiKeys) /\ Len(apiKeys) \in Nat
         /\ \A k \in DOMAIN apiKeys :
               apiKeys[k] \in [wallet : Owner, nonce : Nonce, revoked : BOOLEAN]
<1> DEFINE Row == [wallet : Owner, nonce : Nonce, revoked : BOOLEAN]
<1>1. apiKeys \in Seq(Row)
  BY DEF LoginTypeOK
<1> HIDE DEF Row
<1>2. /\ DOMAIN apiKeys = 1..Len(apiKeys) /\ Len(apiKeys) \in Nat
      /\ \A k \in 1..Len(apiKeys) : apiKeys[k] \in Row
  BY <1>1, LenProperties, ElementOfSeq
<1> QED
  BY <1>2 DEF Row

(* Nobody presents a challenge anew, and no key is made. *)
LEMMA KeysStay ==
  ASSUME LoginInv, ChallengesKept, DOMAIN apiKeys' = DOMAIN apiKeys, KeysKept
  PROVE  KeyInv'
<1>1. \A k \in DOMAIN apiKeys : apiKeys[k].nonce \in Nonce
  BY KeyRows DEF LoginInv
<1>2. \A k \in DOMAIN apiKeys' : k \in DOMAIN apiKeys /\ apiKeys'[k].nonce = apiKeys[k].nonce
                                  /\ apiKeys'[k].wallet = apiKeys[k].wallet
  BY DEF KeysKept
<1> QED
  BY <1>1, <1>2 DEF LoginInv, KeyInv, ChallengesKept

(* Calls go on as they were, or stop. *)
LEMMA CallsKept ==
  ASSUME LoginInv, ChallengesKept, DOMAIN apiKeys' = DOMAIN apiKeys, KeysKept,
         \A r \in Login : login'[r].pc \in Verifying => login'[r] = login[r]
  PROVE  CallInv'
<1>1. \A k \in DOMAIN apiKeys' : k \in DOMAIN apiKeys /\ apiKeys'[k].nonce = apiKeys[k].nonce
  BY DEF KeysKept
<1>2. \A r \in Login : login'[r].pc \in Verifying \cup Spent => login'[r] = login[r]
  BY DEF Spent, Verifying
<1> QED
  BY <1>1, <1>2 DEF LoginInv, CallInv, ChallengesKept, Spent, Verifying

LEMMA RefusedInv ==
  ASSUME LoginInv, NEW q \in Login, login[q].pc # "idle", Refused(q), UNCHANGED <<challenges, apiKeys>>
  PROVE  LoginInv'
<1>1. login' = [login EXCEPT ![q] = NoLogin] /\ login'[q].pc = "idle"
  BY DEF Refused, LeaveLogin, LoginInv, LoginTypeOK, NoLogin
<1>2. ChallengesKept /\ KeysKept
  BY DEF ChallengesKept, KeysKept
<1>3. \/ page' = page /\ page.call # q
      \/ page' = [page EXCEPT !.at = "failed", !.call = NoCall]
  BY DEF Refused, Answered
<1>4. LoginTypeOK'
  <2>1. login' \in [Login -> [pc : {"idle", "consume", "count", "create", "revoke"},
                              nonce : Nonce \cup {NoNonce}, key : 0..Len(apiKeys)]]
    BY <1>1, KeyRows DEF LoginInv, LoginTypeOK, NoLogin
  <2>2. CASE page' = page
    BY <2>1, <2>2 DEF LoginInv, LoginTypeOK
  <2>3. CASE page' = [page EXCEPT !.at = "failed", !.call = NoCall]
    BY <2>1, <2>3 DEF LoginInv, LoginTypeOK
  <2> QED
    BY <1>3, <2>2, <2>3
<1>5. PageInv'
  <2>1. CASE page' = page /\ page.call # q
    <3> page.at = "verify" => login'[page.call] = login[page.call] /\ page.call \in Login
      BY <1>1, <2>1 DEF LoginInv, PageInv, LoginTypeOK
    <3> QED
      BY <1>2, <2>1, PageKept DEF LoginInv, PageInv
  <2>2. CASE page' = [page EXCEPT !.at = "failed", !.call = NoCall]
    BY <2>2, PageFailed DEF LoginInv, LoginTypeOK
  <2> QED
    BY <1>3, <2>1, <2>2
<1>6. CallInv'
  BY <1>1, <1>2, CallsKept DEF LoginInv, LoginTypeOK, Verifying, Spent
<1>7. KeyInv'
  BY <1>2, KeysStay
<1> QED
  BY <1>4, <1>5, <1>6, <1>7 DEF LoginInv, ChallengeInv

-----------------------------------------------------------------------------
(* One lemma per action.                                                   *)

LEMMA Created ==
  ASSUME LoginInv, NEW n \in Nonce, NEW o \in Owner, NEW bySigner \in BOOLEAN,
         createChallenge(n, o, bySigner)
  PROVE  /\ challenges' \in [Nonce -> [age : {"none", "valid", "expired", "old", "deleted"},
                                 wallet : Owner \cup {NoOwner}, signed : BOOLEAN, used : BOOLEAN]]
         /\ challenges'[n].age = "valid" /\ challenges'[n].wallet = o /\ challenges'[n].signed = bySigner
         /\ ChallengesKept /\ KeysKept /\ ChallengeInv' /\ KeyInv' /\ CallInv'
<1>1. /\ challenges' \in [Nonce -> [age : {"none", "valid", "expired", "old", "deleted"},
                                 wallet : Owner \cup {NoOwner}, signed : BOOLEAN, used : BOOLEAN]]
      /\ challenges'[n].age = "valid" /\ challenges'[n].wallet = o /\ challenges'[n].signed = bySigner
  BY ZenonT(40) DEF createChallenge, LoginInv, LoginTypeOK
<1>2. ChallengesKept
  BY DEF createChallenge, LoginInv, LoginTypeOK, ChallengesKept
<1>3. KeysKept /\ DOMAIN apiKeys' = DOMAIN apiKeys /\ login' = login
  BY DEF createChallenge, KeysKept
<1>4. ChallengeInv'
  BY DEF createChallenge, LoginInv, LoginTypeOK, ChallengeInv
<1> QED
  BY <1>1, <1>2, <1>3, <1>4, KeysStay, CallsKept

LEMMA InvCreateChallenge ==
  ASSUME LoginInv, NEW n \in Nonce, NEW o \in Owner, CreateChallenge(n, o)
  PROVE  LoginInv'
<1>1. createChallenge(n, o, TRUE) /\ UNCHANGED <<apiKeys, login, page>>
  BY DEF CreateChallenge, createChallenge
<1>2. LoginTypeOK' /\ ChallengesKept /\ KeysKept /\ ChallengeInv' /\ KeyInv' /\ CallInv'
  BY <1>1, Created DEF LoginInv, LoginTypeOK
<1>3. PageInv'
  BY <1>1, <1>2, PageKept DEF LoginInv, PageInv
<1> QED
  BY <1>2, <1>3 DEF LoginInv

LEMMA InvAge ==
  ASSUME LoginInv, NEW n \in Nonce, AgeChallenge(n)
  PROVE  LoginInv'
<1> PICK age \in {"expired", "old"} :
        challenges[n].age # "none" /\ challenges' = [challenges EXCEPT ![n].age = age]
  <2>1. \/ challenges[n].age = "valid" /\ challenges' = [challenges EXCEPT ![n].age = "expired"]
        \/ challenges[n].age = "expired" /\ challenges' = [challenges EXCEPT ![n].age = "old"]
    <3>1. PICK step \in {<<"valid", "expired">>, <<"expired", "old">>} :
            challenges[n].age = step[1] /\ challenges' = [challenges EXCEPT ![n].age = step[2]]
      BY Zenon DEF AgeChallenge
    <3>2. CASE step = <<"valid", "expired">>
      BY <3>1, <3>2
    <3>3. CASE step = <<"expired", "old">>
      BY <3>1, <3>3
    <3> QED
      BY <3>2, <3>3
  <2> QED
    BY <2>1
<1>0. UNCHANGED <<apiKeys, login, page>>
  BY DEF AgeChallenge
<1>1. LoginTypeOK' /\ ChallengeInv' /\ ChallengesKept
  <2>1. LoginTypeOK'
    BY <1>0, ZenonT(40) DEF LoginInv, LoginTypeOK
  <2>2. ChallengeInv' /\ ChallengesKept
    BY DEF LoginInv, LoginTypeOK, ChallengeInv, ChallengesKept
  <2> QED
    BY <2>1, <2>2
<1>2. KeysKept /\ UNCHANGED <<apiKeys, login, page>>
  BY DEF AgeChallenge, KeysKept
<1>3. KeyInv' /\ CallInv'
  BY <1>1, <1>2, KeysStay, CallsKept
<1>4. PageInv'
  BY <1>1, <1>2, PageKept DEF LoginInv, PageInv
<1> QED
  BY <1>1, <1>3, <1>4 DEF LoginInv

LEMMA FreshCall ==
  ASSUME NEW n
  PROVE  [NoLogin EXCEPT !.pc = "consume", !.nonce = n] = [pc |-> "consume", nonce |-> n, key |-> 0]
<1> DEFINE a == [NoLogin EXCEPT !.pc = "consume", !.nonce = n]
           b == [pc |-> "consume", nonce |-> n, key |-> 0]
<1>1. DOMAIN a = {"pc", "nonce", "key"} /\ a = [f \in {"pc", "nonce", "key"} |-> a[f]]
  BY DEF NoLogin
<1>2. DOMAIN b = {"pc", "nonce", "key"} /\ b = [f \in {"pc", "nonce", "key"} |-> b[f]]
  OBVIOUS
<1>3. a["pc"] = b["pc"] /\ a["nonce"] = b["nonce"] /\ a["key"] = b["key"]
  BY DEF NoLogin
<1> HIDE DEF a, b
<1>4. a = b
  BY <1>1, <1>2, <1>3
<1> QED
  BY <1>4 DEF a, b

(* A signed challenge that was handed out is taken up by an idle call.     *)
LEMMA Loaded ==
  ASSUME LoginInv, NEW q \in Login, NEW n \in Nonce, LoadChallenge(q, n), UNCHANGED apiKeys, ChallengesKept,
         challenges'[n].signed, challenges[n].age # "none"
  PROVE  /\ CallInv'
         /\ login'[q].pc \in Verifying /\ login'[q].nonce = n
         /\ \A r \in Login : login[r].pc \in Verifying => login'[r] = login[r]
         /\ login' \in [Login -> [pc : {"idle", "consume", "count", "create", "revoke"},
                                  nonce : Nonce \cup {NoNonce}, key : 0..Len(apiKeys')]]
<1>1. /\ login[q].pc = "idle"
      /\ login'[q] = [pc |-> "consume", nonce |-> n, key |-> 0]
      /\ \A r \in Login : r # q => login'[r] = login[r]
  BY DEF LoadChallenge, LoginInv, LoginTypeOK, NoLogin
<1>2. login' \in [Login -> [pc : {"idle", "consume", "count", "create", "revoke"},
                                  nonce : Nonce \cup {NoNonce}, key : 0..Len(apiKeys')]]
  <2>1. 0 \in 0..Len(apiKeys)
    BY KeyRows DEF LoginInv
  <2> QED
    BY <2>1 DEF LoadChallenge, LoginInv, LoginTypeOK, NoLogin
<1>3. CallInv'
  BY <1>1 DEF LoginInv, CallInv, ChallengesKept, Spent, Verifying
<1> QED
  BY <1>1, <1>2, <1>3 DEF Verifying, Spent

LEMMA InvStartVerify ==
  ASSUME LoginInv, NEW q \in Login, NEW n \in Nonce, StartVerify(q, n)
  PROVE  LoginInv'
<1>1. /\ challenges[n].age # "none" /\ challenges'[n].signed
      /\ LoadChallenge(q, n) /\ UNCHANGED <<challenges, apiKeys, page>>
  BY DEF StartVerify, Verifiable, verifyAcceptanceSignature
<1>2. ChallengesKept /\ KeysKept
  BY <1>1 DEF ChallengesKept, KeysKept
<1>3. /\ CallInv' /\ \A r \in Login : login[r].pc \in Verifying => login'[r] = login[r]
      /\ LoginTypeOK'
  BY <1>1, <1>2, Loaded DEF LoginInv, LoginTypeOK
<1>4. PageInv'
  BY <1>1, <1>2, <1>3, PageKept DEF LoginInv, PageInv
<1> QED
  BY <1>1, <1>2, <1>3, <1>4, KeysStay DEF LoginInv, ChallengeInv

LEMMA InvConsume ==
  ASSUME LoginInv, NEW q \in Login, Consume(q)
  PROVE  LoginInv'
<1> DEFINE n == login[q].nonce
<1>1. CASE ~Consumable(n)
  BY <1>1, RefusedInv DEF Consume
<1>2. CASE Consumable(n)
  <2>1. /\ login[q].pc = "consume" /\ n \in Nonce
        /\ challenges' = [challenges EXCEPT ![n].used = TRUE] /\ ~challenges[n].used
        /\ login' = [login EXCEPT ![q].pc = "count"]
        /\ UNCHANGED <<apiKeys, page>>
    BY <1>2 DEF Consume, Consumable, StepLogin, LoginInv, CallInv, Verifying
  <2>2. LoginTypeOK' /\ ChallengeInv' /\ ChallengesKept /\ KeysKept
    <3>1. LoginTypeOK'
      <4>1. challenges' \in [Nonce -> [age : {"none", "valid", "expired", "old", "deleted"},
                                 wallet : Owner \cup {NoOwner}, signed : BOOLEAN, used : BOOLEAN]]
        <5> HIDE DEF n
        <5> QED
          BY <2>1, ZenonT(40) DEF LoginInv, LoginTypeOK
      <4>2. login' \in [Login -> [pc : {"idle", "consume", "count", "create", "revoke"},
                                 nonce : Nonce \cup {NoNonce}, key : 0..Len(apiKeys)]]
        BY <2>1 DEF LoginInv, LoginTypeOK
      <4> QED
        BY <2>1, <4>1, <4>2 DEF LoginInv, LoginTypeOK
    <3>2. ChallengeInv' /\ ChallengesKept /\ KeysKept
      BY <2>1 DEF LoginInv, LoginTypeOK, ChallengeInv, ChallengesKept, KeysKept
    <3> QED
      BY <3>1, <3>2
  <2>3. /\ login'[q].pc = "count" /\ login'[q].nonce = n
        /\ \A r \in Login : r # q => login'[r] = login[r]
        /\ \A r \in Login : login'[r].nonce = login[r].nonce
        /\ challenges'[n].used
    BY <2>1 DEF LoginInv, LoginTypeOK
  <2>4. \A k \in DOMAIN apiKeys : apiKeys[k].nonce # n
    BY <2>1 DEF LoginInv, KeyInv
  <2>5. \A r \in Login : r # q /\ login[r].pc \in Spent => login[r].nonce # n
    BY <2>1 DEF LoginInv, CallInv
  <2>6. CallInv'
    BY <2>1, <2>2, <2>3, <2>4, <2>5 DEF LoginInv, CallInv, ChallengesKept, Spent, Verifying
  <2>7. PageInv'
    BY <2>1, <2>2, <2>3, PageKept DEF LoginInv, PageInv, Verifying, Spent
  <2> QED
    BY <2>1, <2>2, <2>6, <2>7, KeysStay DEF LoginInv
<1> QED
  BY <1>1, <1>2

LEMMA InvCountKeys ==
  ASSUME LoginInv, NEW q \in Login, CountKeys(q)
  PROVE  LoginInv'
<1>1. CASE Refused(q)
  BY <1>1, RefusedInv DEF CountKeys
<1>2. CASE StepLogin(q, "create") /\ UNCHANGED page
  <2>1. /\ login[q].pc = "count" /\ login' = [login EXCEPT ![q].pc = "create"]
        /\ UNCHANGED <<challenges, apiKeys, page>>
    BY <1>2 DEF CountKeys, StepLogin
  <2>2. LoginTypeOK' /\ ChallengeInv' /\ ChallengesKept /\ KeysKept
    BY <2>1, ZenonT(40) DEF LoginInv, LoginTypeOK, ChallengeInv, ChallengesKept, KeysKept
  <2>3. /\ login'[q].pc = "create"
        /\ \A r \in Login : r # q => login'[r] = login[r]
        /\ \A r \in Login : login'[r].nonce = login[r].nonce
    BY <2>1 DEF LoginInv, LoginTypeOK
  <2>4. CallInv'
    BY <2>1, <2>3 DEF LoginInv, CallInv, Spent, Verifying
  <2>5. PageInv'
    BY <2>1, <2>2, <2>3, PageKept DEF LoginInv, PageInv, Verifying, Spent
  <2> QED
    BY <2>1, <2>2, <2>4, <2>5, KeysStay DEF LoginInv
<1> QED
  BY <1>1, <1>2 DEF CountKeys

LEMMA InvCreateKey ==
  ASSUME LoginInv, NEW q \in Login, CreateKey(q)
  PROVE  LoginInv'
<1> DEFINE n == login[q].nonce
           newKey == [wallet |-> challenges[n].wallet, nonce |-> n, revoked |-> FALSE]
<1>1. /\ login[q].pc = "create" /\ n \in Nonce
      /\ challenges[n].age # "none" /\ challenges[n].signed /\ challenges[n].used
      /\ newKey \in [wallet : Owner, nonce : Nonce, revoked : BOOLEAN]
      /\ \A k \in DOMAIN apiKeys : apiKeys[k].nonce # n
      /\ apiKeys' = Append(apiKeys, newKey)
      /\ login' = [login EXCEPT ![q] = NoLogin]
      /\ UNCHANGED challenges
  BY DEF CreateKey, LeaveLogin, LoginInv, CallInv, ChallengeInv, Verifying, Spent
<1>2. /\ apiKeys' \in Seq([wallet : Owner, nonce : Nonce, revoked : BOOLEAN])
      /\ Len(apiKeys') = Len(apiKeys) + 1 /\ Len(apiKeys) \in Nat
      /\ DOMAIN apiKeys' = 1..(Len(apiKeys) + 1) /\ DOMAIN apiKeys = 1..Len(apiKeys)
      /\ \A k \in DOMAIN apiKeys : apiKeys'[k] = apiKeys[k]
      /\ apiKeys'[Len(apiKeys) + 1] = newKey
  <2>1. apiKeys \in Seq([wallet : Owner, nonce : Nonce, revoked : BOOLEAN])
    BY DEF LoginInv, LoginTypeOK
  <2> HIDE DEF newKey
  <2> QED
    BY <1>1, <2>1, KeyRows DEF LoginInv
<1> HIDE DEF newKey, n
<1>3. /\ login'[q] = NoLogin /\ login'[q].pc = "idle"
      /\ \A r \in Login : r # q => login'[r] = login[r]
      /\ login' \in [Login -> [pc : {"idle", "consume", "count", "create", "revoke"},
                               nonce : Nonce \cup {NoNonce}, key : 0..Len(apiKeys')]]
  <2>1. 0..Len(apiKeys) \subseteq 0..Len(apiKeys') /\ 0 \in 0..Len(apiKeys')
    BY <1>2
  <2> QED
    BY <1>1, <2>1 DEF LoginInv, LoginTypeOK, NoLogin
<1>4. \/ page' = page /\ page.call # q
      \/ page' = [page EXCEPT !.at = "minted", !.call = NoCall, !.key = Len(apiKeys) + 1] /\ page.call = q
      \/ page' = [page EXCEPT !.at = "failed", !.call = NoCall]
  BY DEF CreateKey, Answered
<1>5. LoginTypeOK'
  <2>1. Len(apiKeys) + 1 \in 0..Len(apiKeys') /\ 0..Len(apiKeys) \subseteq 0..Len(apiKeys')
    BY <1>2
  <2>2. page' \in [at : {"ready", "challenge", "sign", "cancelled", "verify", "failed", "minted"},
                   wallet : Owner \cup {NoOwner}, nonce : Nonce \cup {NoNonce},
                   call : Login \cup {NoCall}, key : 0..Len(apiKeys')]
    <3>1. page \in [at : {"ready", "challenge", "sign", "cancelled", "verify", "failed", "minted"},
                    wallet : Owner \cup {NoOwner}, nonce : Nonce \cup {NoNonce},
                    call : Login \cup {NoCall}, key : 0..Len(apiKeys')]
      BY <2>1 DEF LoginInv, LoginTypeOK
    <3> QED
      BY <1>4, <2>1, <3>1
  <2> QED
    BY <1>1, <1>2, <1>3, <2>2 DEF LoginInv, LoginTypeOK
<1>6. KeysKept /\ ChallengesKept /\ ChallengeInv'
  BY <1>1, <1>2 DEF KeysKept, ChallengesKept, LoginInv, ChallengeInv
<1>7. KeyInv'
  <2>1. \A k \in DOMAIN apiKeys' : k \in DOMAIN apiKeys \/ k = Len(apiKeys) + 1
    BY <1>2
  <2>2. newKey.nonce = n /\ newKey.wallet = challenges[n].wallet
    BY DEF newKey
  <2> QED
    BY <1>1, <1>2, <2>1, <2>2 DEF LoginInv, KeyInv
<1>8. CallInv'
  <2>1. \A r \in Login : login'[r].pc \in Verifying \cup Spent => r # q /\ login'[r] = login[r]
    BY <1>3 DEF Verifying, Spent
  <2>2. \A r \in Login : r # q /\ login[r].pc \in Spent => login[r].nonce # n
    BY <1>1 DEF LoginInv, CallInv, Spent, n
  <2>3. \A k \in DOMAIN apiKeys' : (k \in DOMAIN apiKeys /\ apiKeys'[k] = apiKeys[k]) \/ apiKeys'[k].nonce = n
    BY <1>2 DEF newKey
  <2> QED
    BY <1>1, <2>1, <2>2, <2>3 DEF LoginInv, CallInv, Spent, Verifying
<1>9. PageInv'
  <2>1. CASE page' = page /\ page.call # q
    <3> page.at = "verify" => login'[page.call] = login[page.call]
      BY <1>3, <2>1 DEF LoginInv, PageInv
    <3> QED
      BY <1>6, <2>1, PageKept DEF LoginInv, PageInv
  <2>2. CASE /\ page' = [page EXCEPT !.at = "minted", !.call = NoCall, !.key = Len(apiKeys) + 1]
             /\ page.call = q
    <3>1. q # NoCall /\ page.at = "verify" /\ page.nonce = n
      BY <2>2, LoginAssumption DEF LoginInv, PageInv, NoCall, n
    <3>2. /\ page'.at = "minted" /\ page'.call = NoCall /\ page'.key = Len(apiKeys) + 1
          /\ page'.nonce = n /\ page'.wallet = page.wallet
      BY <2>2, <3>1 DEF LoginInv, LoginTypeOK
    <3>3. challenges[n].wallet = page.wallet
      BY <3>1 DEF LoginInv, PageInv
    <3> QED
      BY <1>1, <1>2, <3>2, <3>3 DEF PageInv, newKey
  <2>3. CASE page' = [page EXCEPT !.at = "failed", !.call = NoCall]
    BY <2>3, PageFailed DEF LoginInv, LoginTypeOK
  <2> QED
    BY <1>4, <2>1, <2>2, <2>3
<1> QED
  BY <1>5, <1>6, <1>7, <1>8, <1>9 DEF LoginInv

LEMMA InvStartRevoke ==
  ASSUME LoginInv, NEW q \in Login, NEW k \in DOMAIN apiKeys, NEW other \in DOMAIN apiKeys,
         StartRevoke(q, k, other)
  PROVE  LoginInv'
<1>1. /\ login[q].pc = "idle" /\ UNCHANGED <<challenges, apiKeys, page>>
      /\ login' = [login EXCEPT ![q] = [NoLogin EXCEPT !.pc = "revoke", !.key = other]]
  BY DEF StartRevoke
<1>2. other \in 0..Len(apiKeys)
  BY KeyRows DEF LoginInv
<1>3. /\ login'[q].pc = "revoke" /\ LoginTypeOK'
      /\ \A r \in Login : r # q => login'[r] = login[r]
  BY <1>1, <1>2 DEF LoginInv, LoginTypeOK, NoLogin
<1>4. ChallengesKept /\ KeysKept /\ ChallengeInv'
  BY <1>1 DEF ChallengesKept, KeysKept, LoginInv, ChallengeInv
<1>5. KeyInv' /\ CallInv'
  BY <1>1, <1>3, <1>4, KeysStay, CallsKept DEF Verifying, Spent
<1>6. PageInv'
  BY <1>1, <1>3, <1>4, PageKept DEF LoginInv, PageInv, Verifying, Spent
<1> QED
  BY <1>3, <1>4, <1>5, <1>6 DEF LoginInv

LEMMA InvRevokeKey ==
  ASSUME LoginInv, NEW q \in Login, RevokeKey(q)
  PROVE  LoginInv'
<1> DEFINE Row == [wallet : Owner, nonce : Nonce, revoked : BOOLEAN]
<1>1. /\ login[q].pc = "revoke" /\ UNCHANGED <<challenges, page>>
      /\ login' = [login EXCEPT ![q] = NoLogin]
      /\ apiKeys' = [apiKeys EXCEPT ![login[q].key].revoked = TRUE]
  BY DEF RevokeKey, LeaveLogin
<1>2. /\ DOMAIN apiKeys' = DOMAIN apiKeys
      /\ \A k \in DOMAIN apiKeys :
            apiKeys'[k] \in Row /\ apiKeys'[k].nonce = apiKeys[k].nonce /\ apiKeys'[k].wallet = apiKeys[k].wallet
  BY <1>1, KeyRows DEF LoginInv
<1>3. apiKeys' \in Seq(Row) /\ Len(apiKeys') = Len(apiKeys)
  <2>1. DOMAIN apiKeys' = 1..Len(apiKeys) /\ Len(apiKeys) \in Nat
    BY <1>2, KeyRows DEF LoginInv
  <2>2. apiKeys' = [k \in 1..Len(apiKeys) |-> apiKeys'[k]]
    BY <1>1, <2>1
  <2>3. apiKeys' \in [1..Len(apiKeys) -> Row]
    BY <1>2, <2>1, <2>2
  <2> HIDE DEF Row
  <2>4. apiKeys' \in Seq(Row)
    BY <2>1, <2>3, SeqDef
  <2> QED
    BY <2>1, <2>4, LenProperties
<1>4. /\ login'[q].pc = "idle" /\ LoginTypeOK'
      /\ \A r \in Login : r # q => login'[r] = login[r]
  <2>1. 0 \in 0..Len(apiKeys')
    BY <1>3, KeyRows DEF LoginInv
  <2> QED
    BY <1>1, <1>3, <2>1 DEF LoginInv, LoginTypeOK, NoLogin
<1>5. ChallengesKept /\ KeysKept /\ ChallengeInv'
  BY <1>1, <1>2 DEF ChallengesKept, KeysKept, LoginInv, ChallengeInv
<1>6. KeyInv' /\ CallInv'
  BY <1>2, <1>4, <1>5, KeysStay, CallsKept DEF Verifying, Spent
<1>7. PageInv'
  BY <1>1, <1>4, <1>5, PageKept DEF LoginInv, PageInv, Verifying, Spent
<1> QED
  BY <1>4, <1>5, <1>6, <1>7 DEF LoginInv

(* The page's own steps: between calls nothing of the server changes. *)
LEMMA InvPress ==
  ASSUME LoginInv, NEW o \in Owner, Press(o)
  PROVE  LoginInv'
<1>1. /\ UNCHANGED databaseVars
      /\ page' = [at |-> "challenge", wallet |-> o, nonce |-> NoNonce, call |-> NoCall, key |-> 0]
  BY DEF Press, NoPage
<1>2. LoginTypeOK'
  BY <1>1, KeyRows DEF LoginInv, LoginTypeOK, databaseVars
<1>3. PageInv'
  BY <1>1 DEF PageInv
<1> QED
  BY <1>1, <1>2, <1>3 DEF LoginInv, ChallengeInv, KeyInv, CallInv, databaseVars

LEMMA InvChallenged ==
  ASSUME LoginInv, NEW n \in Nonce, Challenged(n)
  PROVE  LoginInv'
<1>1. /\ page.at = "challenge" /\ page.wallet \in Owner /\ page.call = NoCall
      /\ createChallenge(n, page.wallet, FALSE) /\ UNCHANGED <<apiKeys, login>>
      /\ \/ page' = [page EXCEPT !.at = "sign", !.nonce = n]
         \/ page' = [page EXCEPT !.at = "failed"]
  BY DEF Challenged, createChallenge, LoginInv, PageInv
<1>2. /\ challenges' \in [Nonce -> [age : {"none", "valid", "expired", "old", "deleted"},
                                 wallet : Owner \cup {NoOwner}, signed : BOOLEAN, used : BOOLEAN]]
      /\ challenges'[n].age = "valid" /\ challenges'[n].wallet = page.wallet /\ challenges'[n].signed = FALSE
      /\ ChallengeInv' /\ KeyInv' /\ CallInv'
  BY <1>1, Created
<1>3. LoginTypeOK'
  BY <1>1, <1>2 DEF LoginInv, LoginTypeOK
<1>4. PageInv'
  BY <1>1, <1>2 DEF LoginInv, LoginTypeOK, PageInv
<1> QED
  BY <1>2, <1>3, <1>4 DEF LoginInv

LEMMA InvCancelSign ==
  ASSUME LoginInv, CancelSign
  PROVE  LoginInv'
<1>1. page.at = "sign" /\ page' = [page EXCEPT !.at = "cancelled"] /\ UNCHANGED databaseVars
  BY DEF CancelSign
<1>2. LoginTypeOK'
  BY <1>1 DEF LoginInv, LoginTypeOK, databaseVars
<1>3. PageInv'
  BY <1>1 DEF LoginInv, LoginTypeOK, PageInv, databaseVars
<1> QED
  BY <1>1, <1>2, <1>3 DEF LoginInv, ChallengeInv, KeyInv, CallInv, databaseVars

LEMMA InvSign ==
  ASSUME LoginInv, NEW q \in Login, SignIn(q)
  PROVE  LoginInv'
<1> DEFINE n == page.nonce
<1>1. /\ page.at = "sign" /\ n \in Nonce /\ challenges[n].age # "none"
      /\ challenges[n].wallet = page.wallet /\ page.wallet \in Owner /\ page.call = NoCall
      /\ ~challenges[n].signed
      /\ challenges' = [challenges EXCEPT ![n].signed = TRUE] /\ UNCHANGED apiKeys
      /\ \/ LoadChallenge(q, n) /\ page' = [page EXCEPT !.at = "verify", !.call = q]
         \/ page' = [page EXCEPT !.at = "failed"] /\ UNCHANGED login
  BY DEF SignIn, LoginInv, PageInv
<1> HIDE DEF n
<1>2. challenges' \in [Nonce -> [age : {"none", "valid", "expired", "old", "deleted"},
                                 wallet : Owner \cup {NoOwner}, signed : BOOLEAN, used : BOOLEAN]]
  <2>1. n \in Nonce /\ challenges' = [challenges EXCEPT ![n].signed = TRUE]
    BY <1>1
  <2> QED
    BY <2>1, ZenonT(40) DEF LoginInv, LoginTypeOK
<1>3. /\ challenges'[n].signed
      /\ \A m \in Nonce : /\ challenges'[m].age = challenges[m].age /\ challenges'[m].used = challenges[m].used
                          /\ challenges'[m].wallet = challenges[m].wallet
                          /\ challenges[m].signed => challenges'[m].signed
  BY <1>1 DEF LoginInv, LoginTypeOK
<1>4. ChallengeInv'
  BY <1>3 DEF LoginInv, ChallengeInv
<1>5. KeyInv'
  <2>1. \A k \in DOMAIN apiKeys : apiKeys[k].nonce \in Nonce
    BY KeyRows DEF LoginInv
  <2> QED
    BY <1>1, <1>3, <2>1 DEF LoginInv, KeyInv
<1>6. CASE page' = [page EXCEPT !.at = "failed"] /\ UNCHANGED login
  <2>1. LoginTypeOK'
    BY <1>1, <1>2, <1>6 DEF LoginInv, LoginTypeOK
  <2>2. CallInv'
    BY <1>1, <1>3, <1>6 DEF LoginInv, CallInv, Spent, Verifying
  <2>3. PageInv'
    BY <1>1, <1>6, PageFailed DEF LoginInv, LoginTypeOK
  <2> QED
    BY <1>4, <1>5, <2>1, <2>2, <2>3 DEF LoginInv
<1>7. CASE LoadChallenge(q, n) /\ page' = [page EXCEPT !.at = "verify", !.call = q]
  <2>1. /\ login[q].pc = "idle"
        /\ login' = [login EXCEPT ![q] = [pc |-> "consume", nonce |-> n, key |-> 0]]
        /\ login'[q] = [pc |-> "consume", nonce |-> n, key |-> 0]
        /\ \A r \in Login : r # q => login'[r] = login[r]
    <3>1. /\ login[q].pc = "idle"
          /\ login' = [login EXCEPT ![q] = [pc |-> "consume", nonce |-> n, key |-> 0]]
      BY <1>7, FreshCall DEF LoadChallenge
    <3>2. DOMAIN login = Login
      BY DEF LoginInv, LoginTypeOK
    <3> QED
      BY <3>1, <3>2
  <2>2. LoginTypeOK'
    <3>1. login' \in [Login -> [pc : {"idle", "consume", "count", "create", "revoke"},
                                nonce : Nonce \cup {NoNonce}, key : 0..Len(apiKeys)]]
      BY <1>1, <2>1, KeyRows DEF LoginInv, LoginTypeOK
    <3>2. page' \in [at : {"ready", "challenge", "sign", "cancelled", "verify", "failed", "minted"},
                     wallet : Owner \cup {NoOwner}, nonce : Nonce \cup {NoNonce},
                     call : Login \cup {NoCall}, key : 0..Len(apiKeys)]
      BY <1>7 DEF LoginInv, LoginTypeOK
    <3> QED
      BY <1>1, <1>2, <3>1, <3>2 DEF LoginInv, LoginTypeOK
  <2>3. CallInv'
    BY <1>1, <1>3, <2>1 DEF LoginInv, CallInv, Spent, Verifying
  <2>4. page'.at = "verify" /\ page'.call = q /\ page'.nonce = n /\ page'.wallet = page.wallet
    BY <1>7 DEF LoginInv, LoginTypeOK, n
  <2>5. PageInv'
    BY <1>1, <1>3, <2>1, <2>4 DEF PageInv, Verifying, Spent
  <2> QED
    BY <1>4, <1>5, <2>2, <2>3, <2>5 DEF LoginInv
<1> QED
  BY <1>1, <1>6, <1>7

LEMMA InvInit == LoginInit => LoginInv
<1> SUFFICES ASSUME LoginInit PROVE LoginInv
  OBVIOUS
<1>1. apiKeys = <<>> /\ Len(apiKeys) = 0 /\ DOMAIN apiKeys = {} /\ 0 \in 0..Len(apiKeys)
  BY DEF LoginInit
<1>2. LoginTypeOK
  <2>1. apiKeys \in Seq([wallet : Owner, nonce : Nonce, revoked : BOOLEAN])
    BY <1>1
  <2>2. login \in [Login -> [pc : {"idle", "consume", "count", "create", "revoke"},
                            nonce : Nonce \cup {NoNonce}, key : 0..Len(apiKeys)]]
    BY <1>1 DEF LoginInit, NoLogin
  <2> QED
    BY <1>1, <2>1, <2>2 DEF LoginInit, LoginTypeOK, NoPage
<1> QED
  BY <1>1, <1>2 DEF LoginInit, LoginInv, ChallengeInv, KeyInv, CallInv, PageInv, NoLogin, NoPage, Spent, Verifying

LEMMA InvStep ==
  ASSUME LoginInv, [LoginNext]_loginVars
  PROVE  LoginInv'
<1>1. CASE UNCHANGED loginVars
  BY <1>1 DEF loginVars, databaseVars, LoginInv, LoginTypeOK, ChallengeInv, KeyInv, CallInv, PageInv
<1>2. CASE LoginNext
  <2>1. CASE LoginRest
    BY <1>1, <2>1 DEF LoginRest
  <2>2. CASE \E n \in Nonce, o \in Owner : CreateChallenge(n, o)
    BY <2>2, InvCreateChallenge
  <2>3. CASE \E n \in Nonce : AgeChallenge(n) \/ Challenged(n)
    BY <2>3, InvAge, InvChallenged
  <2>4. CASE (\E o \in Owner : Press(o)) \/ CancelSign
    BY <2>4, InvPress, InvCancelSign
  <2>5. CASE \E q \in Login : \E n \in Nonce : StartVerify(q, n)
    BY <2>5, InvStartVerify
  <2>6. CASE \E q \in Login : \/ Consume(q) \/ CountKeys(q) \/ CreateKey(q)
                              \/ RevokeKey(q) \/ LoginFails(q) \/ SignIn(q)
    <3>1. \A q \in Login : LoginFails(q) => LoginInv'
      BY RefusedInv DEF LoginFails
    <3> QED
      BY <2>6, <3>1, InvConsume, InvCountKeys, InvCreateKey, InvRevokeKey, InvSign
  <2>7. CASE \E q \in Login : \E k, other \in DOMAIN apiKeys : StartRevoke(q, k, other)
    BY <2>7, InvStartRevoke
  <2> QED
    BY <1>2, <2>1, <2>2, <2>3, <2>4, <2>5, <2>6, <2>7 DEF LoginNext
<1> QED
  BY <1>1, <1>2

LEMMA Inductive == LoginSpec => []LoginInv
<1> QED
  BY InvInit, InvStep, PTL DEF LoginSpec

-----------------------------------------------------------------------------

(* One signature mints at most one key, for any number of calls that       *)
(* present it; and the /connect page shows a key of the wallet that signed *)
(* in, and says that no key was created only where none was nor will be.   *)
THEOREM OneKey == LoginSpec => []OneKeyPerChallenge
<1>1. LoginInv => OneKeyPerChallenge
  <2> SUFFICES ASSUME LoginInv PROVE PageShowsItsKey
    BY DEF LoginInv, KeyInv, OneKeyPerChallenge
  <2>1. ASSUME page.at = "minted"
        PROVE  apiKeys[page.key].wallet = page.wallet /\ apiKeys[page.key].nonce = page.nonce
    BY <2>1 DEF LoginInv, KeyInv, PageInv
  <2>2. ASSUME page.at = "cancelled"
        PROVE  /\ \A k \in DOMAIN apiKeys : apiKeys[k].nonce # page.nonce
               /\ \A q \in Login : login[q].pc \in {"consume", "count", "create"} =>
                                       login[q].nonce # page.nonce
    BY <2>2 DEF LoginInv, KeyInv, CallInv, PageInv, Verifying, Spent
  <2> QED
    BY <2>1, <2>2 DEF PageShowsItsKey
<1> QED
  BY Inductive, <1>1, PTL

-----------------------------------------------------------------------------
(* The limit.  A call about to create a key is counted with the keys: it   *)
(* joined when there were fewer than the limit, and at most all calls can. *)

Creators(o) ==
    {q \in Login : login[q].pc = "create" /\ challenges[login[q].nonce].wallet = o}

LimitInv ==
    \A o \in Owner :
        Cardinality(ActiveKeys(o)) + Cardinality(Creators(o)) < MaxActiveKeys + Cardinality(Login)

LEMMA CountsAreFinite ==
  ASSUME LoginTypeOK, NEW o \in Owner
  PROVE  /\ IsFiniteSet(ActiveKeys(o)) /\ Cardinality(ActiveKeys(o)) \in Nat
         /\ IsFiniteSet(Creators(o)) /\ Cardinality(Creators(o)) \in Nat
         /\ Cardinality(Creators(o)) <= Cardinality(Login)
         /\ IsFiniteSet(Login) /\ Cardinality(Login) \in Nat
<1>1. IsFiniteSet(1..Len(apiKeys)) /\ ActiveKeys(o) \subseteq 1..Len(apiKeys)
  BY KeyRows, FS_Interval DEF ActiveKeys
<1>2. Creators(o) \subseteq Login /\ IsFiniteSet(Login)
  BY LoginAssumption DEF Creators
<1>3. IsFiniteSet(ActiveKeys(o)) /\ IsFiniteSet(Creators(o))
  BY <1>1, <1>2, FS_Subset
<1>4. Cardinality(Creators(o)) <= Cardinality(Login)
  BY <1>2, FS_Subset
<1> QED
  BY <1>2, <1>3, <1>4, FS_CardinalityType

(* Most steps add neither a key nor a call that will create one. *)
LEMMA LimitKept ==
  ASSUME LoginInv, LimitInv,
         \A o \in Owner : ActiveKeys(o)' \subseteq ActiveKeys(o) /\ Creators(o)' \subseteq Creators(o)
  PROVE  LimitInv'
<1> SUFFICES ASSUME NEW o \in Owner
             PROVE  Cardinality(ActiveKeys(o)') + Cardinality(Creators(o)')
                       < MaxActiveKeys + Cardinality(Login)
  BY DEF LimitInv
<1> DEFINE A == ActiveKeys(o)  B == Creators(o)  C == ActiveKeys(o)'  D == Creators(o)'
<1>1. IsFiniteSet(A) /\ IsFiniteSet(B) /\ C \subseteq A /\ D \subseteq B
  BY CountsAreFinite DEF LoginInv
<1>2. Cardinality(A) + Cardinality(B) < MaxActiveKeys + Cardinality(Login)
  BY DEF LimitInv
<1>3. Cardinality(Login) \in Nat /\ MaxActiveKeys \in Nat
  BY CountsAreFinite, LoginAssumption DEF LoginInv
<1> HIDE DEF A, B, C, D
<1>4. /\ Cardinality(C) <= Cardinality(A) /\ Cardinality(D) <= Cardinality(B)
      /\ IsFiniteSet(C) /\ IsFiniteSet(D)
  BY <1>1, FS_Subset
<1>5. Cardinality(A) \in Nat /\ Cardinality(B) \in Nat /\ Cardinality(C) \in Nat /\ Cardinality(D) \in Nat
  BY <1>1, <1>4, FS_CardinalityType
<1>6. Cardinality(C) + Cardinality(D) < MaxActiveKeys + Cardinality(Login)
  BY <1>2, <1>3, <1>4, <1>5
<1> QED
  BY <1>6 DEF C, D

LEMMA LimitQuiet ==
  ASSUME LoginInv, LimitInv,
         \A q \in Login : login'[q].pc = "create" => login'[q] = login[q],
         \A n \in Nonce : challenges[n].age # "none" => challenges'[n].wallet = challenges[n].wallet,
         DOMAIN apiKeys' = DOMAIN apiKeys,
         \A k \in DOMAIN apiKeys : /\ apiKeys'[k].wallet = apiKeys[k].wallet
                                   /\ apiKeys[k].revoked => apiKeys'[k].revoked
  PROVE  LimitInv'
<1>1. \A q \in Login : login[q].pc = "create" =>
          login[q].nonce \in Nonce /\ challenges[login[q].nonce].age # "none"
  BY DEF LoginInv, CallInv, Verifying, Spent
<1>2. \A o \in Owner : Creators(o)' \subseteq Creators(o)
  BY <1>1 DEF Creators
<1>3. \A o \in Owner : ActiveKeys(o)' \subseteq ActiveKeys(o)
  BY DEF ActiveKeys
<1> QED
  BY <1>2, <1>3, LimitKept

LEMMA LimitCount ==
  ASSUME LoginInv, LimitInv, NEW q \in Login, CountKeys(q)
  PROVE  LimitInv'
<1> DEFINE w == challenges[login[q].nonce].wallet
<1>1. CASE Refused(q)
  <2>1. login' = [login EXCEPT ![q] = NoLogin] /\ UNCHANGED <<challenges, apiKeys>>
    BY <1>1 DEF CountKeys, Refused, LeaveLogin
  <2>2. \A r \in Login : login'[r].pc = "create" => login'[r] = login[r]
    BY <2>1 DEF LoginInv, LoginTypeOK, NoLogin
  <2> QED
    BY <2>1, <2>2, LimitQuiet
<1>2. CASE Cardinality(ActiveKeys(w)) < MaxActiveKeys /\ StepLogin(q, "create")
  <2>1. /\ UNCHANGED <<challenges, apiKeys>> /\ login' = [login EXCEPT ![q].pc = "create"]
        /\ \A o \in Owner : ActiveKeys(o)' = ActiveKeys(o)
    BY <1>2 DEF CountKeys, StepLogin, ActiveKeys
  <2>2. LoginTypeOK'
    BY InvCountKeys DEF LoginInv
  <2> SUFFICES ASSUME NEW o \in Owner
               PROVE  Cardinality(ActiveKeys(o)') + Cardinality(Creators(o)')
                         < MaxActiveKeys + Cardinality(Login)
    BY DEF LimitInv
  <2>3. CASE o = w
    <3>1. Creators(o)' \subseteq Login
      BY DEF Creators
    <3>2. /\ IsFiniteSet(Creators(o)') /\ Cardinality(Creators(o)') \in Nat
          /\ Cardinality(Creators(o)') <= Cardinality(Login)
      BY <3>1, LoginAssumption, FS_Subset, FS_CardinalityType
    <3>3. Cardinality(ActiveKeys(o)) \in Nat /\ Cardinality(Login) \in Nat /\ MaxActiveKeys \in Nat
      BY CountsAreFinite, LoginAssumption DEF LoginInv
    <3>4. Cardinality(ActiveKeys(o)') < MaxActiveKeys
      BY <1>2, <2>1, <2>3
    <3> QED
      BY <2>1, <3>2, <3>3, <3>4
  <2>4. CASE o # w
    <3>1. Creators(o)' = Creators(o)
      BY <2>1, <2>4 DEF Creators, LoginInv, LoginTypeOK, CountKeys
    <3> QED
      BY <2>1, <3>1 DEF LimitInv
  <2> QED
    BY <2>3, <2>4
<1> QED
  BY <1>1, <1>2 DEF CountKeys

LEMMA LimitCreate ==
  ASSUME LoginInv, LimitInv, NEW q \in Login, CreateKey(q)
  PROVE  LimitInv'
<1> DEFINE w == challenges[login[q].nonce].wallet
           newKey == [wallet |-> w, nonce |-> login[q].nonce, revoked |-> FALSE]
           new == Len(apiKeys) + 1
<1>1. /\ login[q].pc = "create" /\ login' = [login EXCEPT ![q] = NoLogin]
      /\ apiKeys' = Append(apiKeys, newKey) /\ UNCHANGED challenges
  BY DEF CreateKey, LeaveLogin
<1>2. /\ DOMAIN apiKeys' = 1..new /\ DOMAIN apiKeys = 1..Len(apiKeys) /\ Len(apiKeys) \in Nat
      /\ \A k \in DOMAIN apiKeys : apiKeys'[k] = apiKeys[k]
      /\ apiKeys'[new] = newKey
  <2>1. apiKeys \in Seq([wallet : Owner, nonce : Nonce, revoked : BOOLEAN])
    BY DEF LoginInv, LoginTypeOK
  <2> HIDE DEF newKey
  <2> QED
    BY <1>1, <2>1, KeyRows DEF LoginInv
<1>3. \A r \in Login : r # q => login'[r] = login[r]
  BY <1>1 DEF LoginInv, LoginTypeOK
<1>4. login'[q].pc = "idle"
  BY <1>1 DEF LoginInv, LoginTypeOK, NoLogin
<1> SUFFICES ASSUME NEW o \in Owner
             PROVE  Cardinality(ActiveKeys(o)') + Cardinality(Creators(o)')
                       < MaxActiveKeys + Cardinality(Login)
  BY DEF LimitInv
<1>5. /\ IsFiniteSet(ActiveKeys(o)) /\ Cardinality(ActiveKeys(o)) \in Nat
      /\ IsFiniteSet(Creators(o)) /\ Cardinality(Creators(o)) \in Nat
  BY CountsAreFinite DEF LoginInv
<1>6. Cardinality(ActiveKeys(o)) + Cardinality(Creators(o)) < MaxActiveKeys + Cardinality(Login)
  BY DEF LimitInv
<1>7. CASE o # w
  <2>1. ActiveKeys(o)' = ActiveKeys(o)
    <3>1. newKey.wallet = w
      OBVIOUS
    <3> HIDE DEF newKey, w
    <3>2. \A k \in 1..new : k \in DOMAIN apiKeys \/ k = new
      BY <1>2
    <3>3. new \notin DOMAIN apiKeys /\ DOMAIN apiKeys \subseteq 1..new
      BY <1>2
    <3> QED
      BY <1>2, <1>7, <3>1, <3>2, <3>3 DEF ActiveKeys
  <2>2. Creators(o)' = Creators(o)
    BY <1>1, <1>3, <1>4, <1>7 DEF Creators
  <2> QED
    BY <1>6, <2>1, <2>2
<1>8. CASE o = w
  <2>1. ActiveKeys(o)' = ActiveKeys(o) \cup {new} /\ new \notin ActiveKeys(o)
    <3>1. newKey.wallet = w /\ ~newKey.revoked
      OBVIOUS
    <3> HIDE DEF newKey, w
    <3>2. \A k \in 1..new : k \in DOMAIN apiKeys \/ k = new
      BY <1>2
    <3>3. new \notin DOMAIN apiKeys /\ DOMAIN apiKeys \subseteq 1..new /\ new \in 1..new
      BY <1>2
    <3> QED
      BY <1>2, <1>8, <3>1, <3>2, <3>3 DEF ActiveKeys
  <2>2. Creators(o)' = Creators(o) \ {q} /\ q \in Creators(o)
    BY <1>1, <1>3, <1>4, <1>8 DEF Creators
  <2>3. Cardinality(ActiveKeys(o)') = Cardinality(ActiveKeys(o)) + 1
    BY <1>5, <2>1, FS_AddElement
  <2>4. Cardinality(Creators(o)') = Cardinality(Creators(o)) - 1
    BY <1>5, <2>2, FS_RemoveElement
  <2>5. Cardinality(Login) \in Nat /\ MaxActiveKeys \in Nat
    BY CountsAreFinite, LoginAssumption DEF LoginInv
  <2> QED
    BY <1>5, <1>6, <2>3, <2>4, <2>5
<1> QED
  BY <1>7, <1>8

LEMMA LimitStep ==
  ASSUME LoginInv, LimitInv, [LoginNext]_loginVars
  PROVE  LimitInv'
<1> DEFINE CallsSame == \A q \in Login : login'[q].pc = "create" => login'[q] = login[q]
           WalletsSame == \A n \in Nonce : challenges[n].age # "none" => challenges'[n].wallet = challenges[n].wallet
           Quiet == CallsSame /\ WalletsSame /\ UNCHANGED apiKeys
<1>1. Quiet => LimitInv'
  BY LimitQuiet
<1>2. CASE UNCHANGED loginVars \/ LoginRest \/ (\E o \in Owner : Press(o)) \/ CancelSign
  BY <1>1, <1>2 DEF LoginRest, loginVars, databaseVars, Press, CancelSign
<1>3. ASSUME NEW n \in Nonce, NEW o, NEW bySigner, createChallenge(n, o, bySigner)
      PROVE  LimitInv'
  BY <1>1, <1>3 DEF createChallenge
<1>4. CASE \E n \in Nonce : Challenged(n) \/ \E o \in Owner : CreateChallenge(n, o)
  BY <1>3, <1>4 DEF CreateChallenge, Challenged
<1>5. CASE \E n \in Nonce : AgeChallenge(n)
  <2> PICK n \in Nonce, step \in {<<"valid", "expired">>, <<"expired", "old">>} :
         /\ challenges' = [challenges EXCEPT ![n].age = step[2]]
         /\ UNCHANGED <<apiKeys, login>>
    BY <1>5, Zenon DEF AgeChallenge
  <2> DEFINE age == step[2]
  <2>1. challenges' = [challenges EXCEPT ![n].age = age]
    OBVIOUS
  <2> HIDE DEF age
  <2>2. WalletsSame
    BY <2>1 DEF LoginInv, LoginTypeOK
  <2> QED
    BY <1>1, <2>2
<1>6. ASSUME NEW q \in Login, LoginFails(q) \/ Consume(q)
      PROVE  LimitInv'
  <2>1. /\ UNCHANGED apiKeys
        /\ login' = [login EXCEPT ![q] = NoLogin] \/ login' = [login EXCEPT ![q].pc = "count"]
        /\ UNCHANGED challenges \/ challenges' = [challenges EXCEPT ![login[q].nonce].used = TRUE]
    BY <1>6 DEF LoginFails, Consume, Refused, LeaveLogin, StepLogin
  <2>2. CallsSame
    BY <2>1 DEF LoginInv, LoginTypeOK, NoLogin
  <2>3. WalletsSame
    <3>1. CASE UNCHANGED challenges
      BY <3>1
    <3>2. CASE challenges' = [challenges EXCEPT ![login[q].nonce].used = TRUE]
      <4> DEFINE m == login[q].nonce
      <4>1. challenges' = [challenges EXCEPT ![m].used = TRUE]
        BY <3>2
      <4> HIDE DEF m
      <4> QED
        BY <4>1 DEF LoginInv, LoginTypeOK
    <3> QED
      BY <2>1, <3>1, <3>2
  <2> QED
    BY <1>1, <2>1, <2>2, <2>3
<1>7. ASSUME NEW q \in Login, NEW n, LoadChallenge(q, n) \/ UNCHANGED login, UNCHANGED apiKeys, WalletsSame
      PROVE  LimitInv'
  <2>1. CASE LoadChallenge(q, n)
    <3>1. login' = [login EXCEPT ![q] = [NoLogin EXCEPT !.pc = "consume", !.nonce = n]]
      BY <2>1 DEF LoadChallenge
    <3>2. CallsSame
      BY <3>1, FreshCall, ZenonT(40) DEF LoginInv, LoginTypeOK
    <3> QED
      BY <1>1, <1>7, <3>2
  <2>2. CASE UNCHANGED login
    BY <1>1, <1>7, <2>2
  <2> QED
    BY <1>7, <2>1, <2>2
<1>8. ASSUME NEW q \in Login, SignIn(q) \/ \E n \in Nonce : StartVerify(q, n)
      PROVE  LimitInv'
  <2>1. CASE SignIn(q)
    <3>1. /\ challenges' = [challenges EXCEPT ![page.nonce].signed = TRUE] /\ UNCHANGED apiKeys
          /\ LoadChallenge(q, page.nonce) \/ UNCHANGED login
      BY <2>1 DEF SignIn
    <3>2. WalletsSame
      BY <3>1 DEF LoginInv, LoginTypeOK
    <3> QED
      BY <1>7, <3>1, <3>2
  <2>2. CASE \E n \in Nonce : StartVerify(q, n)
    BY <1>7, <2>2 DEF StartVerify
  <2> QED
    BY <1>8, <2>1, <2>2
<1>9. ASSUME NEW q \in Login, NEW k \in DOMAIN apiKeys, NEW other \in DOMAIN apiKeys, StartRevoke(q, k, other)
      PROVE  LimitInv'
  <2>1. login' = [login EXCEPT ![q] = [NoLogin EXCEPT !.pc = "revoke", !.key = other]]
        /\ UNCHANGED <<challenges, apiKeys>>
    BY <1>9 DEF StartRevoke
  <2>2. CallsSame
    BY <2>1 DEF LoginInv, LoginTypeOK, NoLogin
  <2> QED
    BY <1>1, <2>1, <2>2
<1>10. ASSUME NEW q \in Login, RevokeKey(q)
       PROVE  LimitInv'
  <2>1. /\ login' = [login EXCEPT ![q] = NoLogin] /\ UNCHANGED challenges
        /\ apiKeys' = [apiKeys EXCEPT ![login[q].key].revoked = TRUE]
    BY <1>10 DEF RevokeKey, LeaveLogin
  <2>2. CallsSame
    BY <2>1 DEF LoginInv, LoginTypeOK, NoLogin
  <2>3. /\ DOMAIN apiKeys' = DOMAIN apiKeys
        /\ \A k \in DOMAIN apiKeys : /\ apiKeys'[k].wallet = apiKeys[k].wallet
                                     /\ apiKeys[k].revoked => apiKeys'[k].revoked
    BY <2>1, KeyRows DEF LoginInv
  <2> QED
    BY <2>1, <2>2, <2>3, LimitQuiet
<1> QED
  BY <1>2, <1>4, <1>5, <1>6, <1>8, <1>9, <1>10, LimitCount, LimitCreate DEF LoginNext

(* The active keys of a wallet exceed the limit by less than the number of *)
(* calls that can run at once, for every limit and every number of calls.  *)
THEOREM KeysLimited == LoginSpec => []KeysNearLimit
<1>1. LoginInit => LimitInv
  <2> SUFFICES ASSUME LoginInit, NEW o \in Owner
               PROVE  Cardinality(ActiveKeys(o)) + Cardinality(Creators(o)) < MaxActiveKeys + Cardinality(Login)
    BY DEF LimitInv
  <2>1. ActiveKeys(o) = {} /\ Creators(o) = {}
    BY DEF LoginInit, ActiveKeys, Creators, NoLogin
  <2>2. Cardinality(Login) \in Nat /\ MaxActiveKeys \in Nat \ {0}
    BY LoginAssumption, FS_CardinalityType
  <2> QED
    BY <2>1, <2>2, FS_EmptySet
<1>2. LoginInv /\ LimitInv => KeysNearLimit
  <2> SUFFICES ASSUME LoginInv, LimitInv, NEW o \in Owner
               PROVE  Cardinality(ActiveKeys(o)) < MaxActiveKeys + Cardinality(Login)
    BY DEF KeysNearLimit
  <2>1. Cardinality(ActiveKeys(o)) \in Nat /\ Cardinality(Creators(o)) \in Nat /\ Cardinality(Login) \in Nat
    BY CountsAreFinite DEF LoginInv
  <2> QED
    BY <2>1, LoginAssumption DEF LimitInv
<1> QED
  BY Inductive, LimitStep, <1>1, <1>2, PTL DEF LoginSpec

-----------------------------------------------------------------------------
(* ReportingPeriods, for every number of requests, rows and months.        *)
(*                                                                         *)
(* The argument: while no two reports ran at once, who is about to create  *)
(* a row has seen that none is open; while no two rows are open, one payer *)
(* at most writes the next record date, and it writes over the date it     *)
(* loaded.                                                                 *)

Row == [label : Nat \cup {Legacy}, status : {"open", "EXECUTED"}]
Job == [label : Nat, row : Nat, next : Nat \cup {NoDate}]

Typed ==
    /\ frequency \in {"QUARTERLY", "MONTHLY"}
    /\ next \in Nat \cup {NoDate} /\ now \in Nat
    /\ rows \in Seq(Row)
    /\ rpc \in [Request -> RPCs] /\ rjob \in [Request -> Job]
    /\ overlapped \in BOOLEAN /\ raced \in BOOLEAN
    /\ \A r \in Request : rpc[r] = "mark" => rjob[r].row \in DOMAIN rows

ReportInv ==
    ~raced =>
        /\ \A r, o \in Request : Reporting(r) /\ Reporting(o) => r = o
        /\ \A r \in Request : rpc[r] = "create" => OpenRows = {}

PayInv ==
    ~overlapped =>
        /\ \A i, j \in OpenRows : i = j
        /\ \A r \in Request : rpc[r] = "mark" => rjob[r].row \in OpenRows /\ rjob[r].next = next
        /\ \A r, o \in Request : rpc[r] = "mark" /\ rpc[o] = "mark" => r = o
        /\ \A i \in DOMAIN rows :
              rows[i].status = "EXECUTED" /\ rows[i].label # Legacy =>
                  next # NoDate /\ rows[i].label < periodContaining(next)

PeriodsInv == Typed /\ ReportInv /\ PayInv /\ OneRowPerPeriod /\ OneOpenUnlessRaced

-----------------------------------------------------------------------------
(* The calendar.                                                           *)

LEMMA Contains ==
  ASSUME frequency \in {"QUARTERLY", "MONTHLY"}, NEW m \in Nat
  PROVE  /\ monthsPerPeriod \in {1, 3} /\ periodContaining(m) \in Nat
         /\ periodContaining(m) <= m /\ m < periodContaining(m) + monthsPerPeriod
<1>1. CASE monthsPerPeriod = 1
  BY <1>1 DEF periodContaining, periodAt
<1>2. CASE monthsPerPeriod = 3
  BY <1>2 DEF periodContaining, periodAt
<1> QED
  BY <1>1, <1>2 DEF monthsPerPeriod

LEMMA ContainsMonotonic ==
  ASSUME frequency \in {"QUARTERLY", "MONTHLY"}, NEW m \in Nat, NEW n \in Nat, m <= n
  PROVE  periodContaining(m) <= periodContaining(n)
<1>1. CASE monthsPerPeriod = 1
  BY <1>1 DEF periodContaining, periodAt
<1>2. CASE monthsPerPeriod = 3
  BY <1>2 DEF periodContaining, periodAt
<1> QED
  BY <1>1, <1>2 DEF monthsPerPeriod

(* The date written after paying p is in a later period, and never before  *)
(* the date it replaces.                                                   *)
LEMMA DateAfter ==
  ASSUME frequency \in {"QUARTERLY", "MONTHLY"}, NEW p \in Nat, NEW current \in Nat \cup {NoDate}
  PROVE  /\ recordDateAfter(p, current) \in Nat
         /\ current # NoDate => recordDateAfter(p, current) >= current
         /\ p < periodContaining(recordDateAfter(p, current))
<1> DEFINE q == periodContaining(recordDate(p) + 1)
           after == recordDate(q)
<1>1. monthsPerPeriod \in {1, 3} /\ recordDate(p) + 1 = p + monthsPerPeriod
  BY DEF monthsPerPeriod, recordDate
<1>2. q \in Nat /\ p < q
  BY <1>1, Contains
<1>3. after \in Nat /\ after = q + monthsPerPeriod - 1
  BY <1>1, <1>2 DEF recordDate
<1>4. q <= periodContaining(after)
  <2>1. periodContaining(after) \in Nat /\ after < periodContaining(after) + monthsPerPeriod
    BY <1>3, Contains
  <2> QED
    BY <1>1, <1>2, <1>3, <2>1
<1>5. recordDateAfter(p, current) = IF current # NoDate /\ current > after THEN current ELSE after
  BY DEF recordDateAfter, nextPeriod
<1> HIDE DEF after, q
<1>6. current # NoDate /\ current > after => periodContaining(after) <= periodContaining(current)
  BY <1>3, ContainsMonotonic DEF NoDate
<1>7. periodContaining(after) \in Nat /\ (current # NoDate => current \in Nat /\ periodContaining(current) \in Nat)
  BY <1>3, Contains
<1> QED
  BY <1>2, <1>3, <1>4, <1>5, <1>6, <1>7

-----------------------------------------------------------------------------
LEMMA RowFacts ==
  ASSUME rows \in Seq(Row)
  PROVE  /\ DOMAIN rows = 1..Len(rows) /\ Len(rows) \in Nat
         /\ \A i \in DOMAIN rows : rows[i].label \in Nat \cup {Legacy} /\ rows[i].status \in {"open", "EXECUTED"}
<1>1. \A i \in 1..Len(rows) : rows[i] \in Row
  BY ElementOfSeq
<1> QED
  BY <1>1, LenProperties DEF Row

LEMMA PInit == PeriodsInit => PeriodsInv
<1> SUFFICES ASSUME PeriodsInit
             PROVE  PeriodsInv
  OBVIOUS
<1>1. frequency \in {"QUARTERLY", "MONTHLY"}
  BY PeriodsAssumption DEF PeriodsInit
<1>2. next \in Nat \cup {NoDate} /\ (rows = <<>> \/ rows = <<[label |-> Legacy, status |-> "open"]>>)
  <2>1. recordDate(periodContaining(0)) \in Nat
    BY <1>1, Contains DEF recordDate
  <2> QED
    BY <2>1 DEF PeriodsInit
<1>3. rows \in Seq(Row) /\ DOMAIN rows \subseteq {1} /\ \A i \in DOMAIN rows : rows[i].status = "open"
  <2> DEFINE legacy == [label |-> Legacy, status |-> "open"]
  <2>1. legacy \in Row /\ legacy.status = "open" /\ (rows = <<>> \/ rows = <<legacy>>)
    BY <1>2 DEF Row
  <2> HIDE DEF legacy
  <2>2. CASE rows = <<>>
    BY <2>2
  <2>3. CASE rows = <<legacy>>
    BY <2>1, <2>3
  <2> QED
    BY <2>1, <2>2, <2>3
<1>4. Typed
  BY <1>1, <1>2, <1>3 DEF PeriodsInit, Typed, RPCs, NoReport, Job
<1> QED
  BY <1>3, <1>4 DEF PeriodsInit, PeriodsInv, ReportInv, PayInv, OneRowPerPeriod, OneOpenUnlessRaced,
     Reporting, OpenRows

(* A handler's move; the rows and the date stay.                           *)
LEMMA Moves ==
  ASSUME PeriodsInv, NEW r \in Request, NEW label \in RPCs, NEW j \in Job,
         rpc' = [rpc EXCEPT ![r] = label], rjob' = [rjob EXCEPT ![r] = j],
         UNCHANGED <<frequency, next, rows, now, overlapped>>,
         raced' \in BOOLEAN, raced => raced',
         label \in {"dup", "open", "create"} /\ ~raced' => \A o \in Request \ {r} : ~Reporting(o),
         label = "create" => OpenRows = {},
         label = "mark" =>
             /\ j.row \in OpenRows /\ j.next = next
             /\ \A o \in Request : rpc[o] = "mark" => rjob[o].row # j.row
  PROVE  PeriodsInv'
<1>1. /\ rpc'[r] = label /\ rjob'[r] = j
      /\ \A o \in Request \ {r} : rpc'[o] = rpc[o] /\ rjob'[o] = rjob[o]
      /\ rpc' \in [Request -> RPCs] /\ rjob' \in [Request -> Job]
  BY DEF PeriodsInv, Typed
<1>2. OpenRows' = OpenRows /\ OpenRows \subseteq DOMAIN rows
  BY DEF OpenRows
<1>3. Typed'
  BY <1>1, <1>2 DEF PeriodsInv, Typed
<1>4. ReportInv'
  BY <1>1, <1>2 DEF PeriodsInv, ReportInv, Reporting
<1>5. PayInv'
  <2> SUFFICES ASSUME ~overlapped
               PROVE  /\ \A i, j1 \in OpenRows : i = j1
                      /\ \A q \in Request : rpc'[q] = "mark" => rjob'[q].row \in OpenRows /\ rjob'[q].next = next
                      /\ \A q, o \in Request : rpc'[q] = "mark" /\ rpc'[o] = "mark" => q = o
                      /\ \A i \in DOMAIN rows :
                            rows[i].status = "EXECUTED" /\ rows[i].label # Legacy =>
                                next # NoDate /\ rows[i].label < periodContaining(next)
    BY <1>2 DEF PayInv, periodContaining, periodAt, monthsPerPeriod
  <2>1. PayInv
    BY DEF PeriodsInv
  <2>2. label = "mark" => \A o \in Request \ {r} : rpc[o] # "mark"
    BY <2>1 DEF PayInv
  <2> QED
    BY <1>1, <2>1, <2>2 DEF PayInv
<1> QED
  BY <1>3, <1>4, <1>5 DEF PeriodsInv, OneRowPerPeriod, OneOpenUnlessRaced

LEMMA ReportStep ==
  ASSUME PeriodsInv, NEW r \in Request, StartReport(r) \/ CheckDuplicate(r) \/ CheckOpen(r) \/ RequestFails(r)
  PROVE  PeriodsInv'
<1>1. UNCHANGED <<frequency, next, rows, now, overlapped>> /\ rjob[r] \in Job /\ rpc[r] \in RPCs
      /\ raced \in BOOLEAN
  BY DEF StartReport, CheckDuplicate, CheckOpen, RequestFails, PeriodsInv, Typed
<1>2. CASE StartReport(r)
  <2>1. PICK p \in Labels : rjob' = [rjob EXCEPT ![r].label = p]
    BY <1>2 DEF StartReport
  <2> DEFINE j == [rjob[r] EXCEPT !.label = p]
  <2>2. p \in Nat
    BY PeriodsAssumption DEF Labels
  <2>3. j \in Job /\ rjob' = [rjob EXCEPT ![r] = j]
    BY <1>1, <2>1, <2>2 DEF Job
  <2>4. /\ rpc' = [rpc EXCEPT ![r] = "dup"] /\ "dup" \in RPCs
        /\ raced' = (raced \/ \E o \in Request : Reporting(o))
    BY <1>2 DEF StartReport, RGoto, RPCs
  <2> HIDE DEF j
  <2> QED
    BY <1>1, <2>3, <2>4, Moves
<1>3. CASE CheckDuplicate(r) \/ CheckOpen(r)
  <2>1. /\ raced' = raced /\ Reporting(r)
        /\ \/ rpc' = [rpc EXCEPT ![r] = "idle"] /\ rjob' = [rjob EXCEPT ![r] = NoReport]
           \/ /\ rjob' = rjob
              /\ \/ rpc' = [rpc EXCEPT ![r] = "open"]
                 \/ rpc' = [rpc EXCEPT ![r] = "create"] /\ OpenRows = {}
    BY <1>3 DEF CheckDuplicate, CheckOpen, RReturn, RGoto, Reporting
  <2>2. {"idle", "open", "create"} \subseteq RPCs /\ NoReport \in Job
    BY DEF RPCs, NoReport, Job
  <2>3. rjob' = rjob => rjob' = [rjob EXCEPT ![r] = rjob[r]]
    BY DEF PeriodsInv, Typed
  <2>4. ~raced => \A o \in Request \ {r} : ~Reporting(o)
    BY <2>1 DEF PeriodsInv, ReportInv
  <2>5. CASE rpc' = [rpc EXCEPT ![r] = "idle"] /\ rjob' = [rjob EXCEPT ![r] = NoReport]
    BY <1>1, <2>1, <2>2, <2>5, Moves
  <2>6. CASE rpc' = [rpc EXCEPT ![r] = "open"] /\ rjob' = rjob
    BY <1>1, <2>1, <2>2, <2>3, <2>4, <2>6, Moves
  <2>7. CASE rpc' = [rpc EXCEPT ![r] = "create"] /\ OpenRows = {} /\ rjob' = rjob
    BY <1>1, <2>1, <2>2, <2>3, <2>4, <2>7, Moves
  <2> QED
    BY <2>1, <2>5, <2>6, <2>7
<1>4. CASE RequestFails(r)
  <2>1. /\ rpc' = [rpc EXCEPT ![r] = "idle"] /\ rjob' = [rjob EXCEPT ![r] = NoReport]
        /\ raced' = raced /\ "idle" \in RPCs /\ NoReport \in Job
    BY <1>4 DEF RequestFails, RReturn, RGoto, RPCs, NoReport, Job
  <2> QED
    BY <1>1, <2>1, Moves
<1> QED
  BY <1>2, <1>3, <1>4

LEMMA PayingStep ==
  ASSUME PeriodsInv, NEW r \in Request, NEW i \in DOMAIN rows, StartPaying(r, i)
  PROVE  PeriodsInv'
<1> DEFINE j == [NoReport EXCEPT !.row = i, !.next = next]
<1>1. rows \in Seq(Row) /\ next \in Nat \cup {NoDate} /\ raced \in BOOLEAN
  BY DEF PeriodsInv, Typed
<1>2. j \in Job /\ j.row = i /\ j.next = next
  <2>1. i \in Nat
    BY <1>1, RowFacts
  <2> QED
    BY <1>1, <2>1 DEF NoReport, Job
<1>3. rjob' = [rjob EXCEPT ![r] = j] /\ rpc' = [rpc EXCEPT ![r] = "mark"] /\ "mark" \in RPCs
  BY DEF StartPaying, RGoto, RPCs
<1>4. UNCHANGED <<frequency, next, rows, now, overlapped, raced>> /\ i \in OpenRows
      /\ \A o \in Request : ~(rpc[o] = "mark" /\ rjob[o].row = i)
  BY DEF StartPaying
<1> HIDE DEF j
<1> QED
  BY <1>1, <1>2, <1>3, <1>4, Moves

LEMMA CreateStep ==
  ASSUME PeriodsInv, NEW r \in Request, CreateRow(r)
  PROVE  PeriodsInv'
<1>1. /\ Typed /\ rjob[r].label \in Nat /\ rows \in Seq(Row) /\ raced \in BOOLEAN /\ overlapped \in BOOLEAN
      /\ rpc[r] = "create"
  BY DEF PeriodsInv, Typed, Job, CreateRow
<1>2. /\ rpc' = [rpc EXCEPT ![r] = "idle"] /\ rjob' = [rjob EXCEPT ![r] = NoReport]
      /\ UNCHANGED <<frequency, next, now, raced>>
      /\ "idle" \in RPCs /\ NoReport \in Job
  BY DEF CreateRow, RReturn, RGoto, RPCs, NoReport, Job
<1>3. CASE ~Insertable(rjob[r].label)
  <2>1. rows' = rows /\ overlapped' = overlapped
    BY <1>1, <1>3 DEF CreateRow
  <2> QED
    BY <1>1, <1>2, <2>1, Moves
<1>4. CASE Insertable(rjob[r].label)
  <2> DEFINE new == [label |-> rjob[r].label, status |-> "open"]
             n == Len(rows) + 1
  <2>1. /\ rows' = Append(rows, new) /\ overlapped' = (overlapped \/ OpenRows # {})
        /\ \A i \in DOMAIN rows : rows[i].label # new.label
    BY <1>4 DEF CreateRow, Insertable
  <2>2. new \in Row /\ new.status = "open"
    BY <1>1 DEF Row
  <2> HIDE DEF new
  <2>3. /\ rows' \in Seq(Row) /\ DOMAIN rows = 1..Len(rows) /\ DOMAIN rows' = 1..n /\ Len(rows) \in Nat
        /\ rows'[n] = new /\ \A i \in DOMAIN rows : rows'[i] = rows[i]
    BY <1>1, <2>1, <2>2, AppendProperties, LenProperties
  <2>4. OpenRows' = OpenRows \cup {n} /\ n \notin DOMAIN rows /\ DOMAIN rows' = DOMAIN rows \cup {n}
    <3>1. DOMAIN rows' = DOMAIN rows \cup {n} /\ n \notin DOMAIN rows
      BY <2>3
    <3> HIDE DEF n
    <3> QED
      BY <2>2, <2>3, <3>1 DEF OpenRows
  <2> HIDE DEF n
  <2>5. /\ rpc'[r] = "idle" /\ \A o \in Request \ {r} : rpc'[o] = rpc[o] /\ rjob'[o] = rjob[o]
        /\ rpc' \in [Request -> RPCs] /\ rjob' \in [Request -> Job]
    BY <1>1, <1>2 DEF Typed
  <2>6. Typed'
    BY <1>1, <1>2, <2>1, <2>3, <2>4, <2>5 DEF Typed
  <2>7. ReportInv'
    BY <1>1, <1>2, <2>5 DEF PeriodsInv, ReportInv, Reporting
  <2>8. OneRowPerPeriod'
    BY <2>1, <2>3, <2>4 DEF PeriodsInv, OneRowPerPeriod
  <2>9. OneOpenUnlessRaced'
    BY <1>1, <1>2, <2>1 DEF PeriodsInv, OneOpenUnlessRaced, ReportInv
  <2>10. PayInv'
    <3> SUFFICES ASSUME ~overlapped, OpenRows = {}
                 PROVE  PayInv'
      BY <2>1 DEF PayInv
    <3>1. PayInv
      BY DEF PeriodsInv
    <3>2. \A q \in Request : rpc'[q] # "mark"
      BY <2>5, <3>1 DEF PayInv
    <3>3. \A i \in DOMAIN rows' :
             rows'[i].status = "EXECUTED" /\ rows'[i].label # Legacy =>
                 next # NoDate /\ rows'[i].label < periodContaining(next)
      BY <2>2, <2>3, <2>4, <3>1 DEF PayInv
    <3> QED
      BY <1>2, <2>4, <3>2, <3>3 DEF PayInv, periodContaining, periodAt, monthsPerPeriod
  <2> QED
    BY <2>6, <2>7, <2>8, <2>9, <2>10 DEF PeriodsInv
<1> QED
  BY <1>3, <1>4

LEMMA MarkStep ==
  ASSUME PeriodsInv, NEW r \in Request, MarkPaid(r)
  PROVE  PeriodsInv'
<1>1. /\ Typed /\ rjob[r] \in Job /\ rjob[r].row \in DOMAIN rows /\ rows \in Seq(Row)
      /\ frequency \in {"QUARTERLY", "MONTHLY"} /\ now \in Nat /\ rpc[r] = "mark"
  BY DEF PeriodsInv, Typed, MarkPaid
<1> DEFINE i == rjob[r].row
           label == rows[i].label
           current == rjob[r].next
           paid == IF label # Legacy THEN label
                   ELSE periodContaining(IF current = NoDate THEN now ELSE current)
<1>2. i \in DOMAIN rows /\ current \in Nat \cup {NoDate} /\ label \in Nat \cup {Legacy}
  BY <1>1, RowFacts DEF Job
<1>3. /\ next' = recordDateAfter(paid, current)
      /\ rows' = [rows EXCEPT ![i].status = "EXECUTED"]
  BY DEF MarkPaid
<1>4. /\ rpc' = [rpc EXCEPT ![r] = "idle"] /\ rjob' = [rjob EXCEPT ![r] = NoReport]
      /\ UNCHANGED <<frequency, now, overlapped, raced>>
      /\ "idle" \in RPCs /\ NoReport \in Job
  BY DEF MarkPaid, RReturn, RGoto, RPCs, NoReport, Job
<1>5. paid \in Nat /\ (label # Legacy => paid = label)
  BY <1>1, <1>2, Contains
<1>6. label = rows[i].label /\ current = rjob[r].next
  OBVIOUS
<1>7. i = rjob[r].row
  OBVIOUS
<1> HIDE DEF i, label, current, paid
<1>8. /\ next' \in Nat /\ (current # NoDate => next' >= current)
      /\ paid < periodContaining(next')
  BY <1>1, <1>2, <1>3, <1>5, DateAfter
<1>9. /\ DOMAIN rows' = DOMAIN rows /\ rows' \in Seq(Row)
      /\ \A k \in DOMAIN rows : rows'[k].label = rows[k].label
      /\ \A k \in DOMAIN rows : k # i => rows'[k] = rows[k]
      /\ rows'[i].status = "EXECUTED"
  <2>1. /\ DOMAIN rows = 1..Len(rows) /\ Len(rows) \in Nat /\ rows \in [1..Len(rows) -> Row]
    BY <1>1, LenProperties
  <2>2. rows' \in [1..Len(rows) -> Row]
    BY <1>2, <1>3, <2>1 DEF Row
  <2>3. rows' \in Seq(Row)
    BY <2>1, <2>2
  <2> QED
    BY <1>2, <1>3, <2>1, <2>3 DEF Row
<1>10. /\ rpc'[r] = "idle" /\ \A o \in Request \ {r} : rpc'[o] = rpc[o] /\ rjob'[o] = rjob[o]
       /\ rpc' \in [Request -> RPCs] /\ rjob' \in [Request -> Job]
  BY <1>1, <1>4 DEF Typed
<1>11. OpenRows' = OpenRows \ {i}
  BY <1>2, <1>9 DEF OpenRows
<1>12. Typed'
  BY <1>1, <1>4, <1>8, <1>9, <1>10 DEF Typed
<1>13. ReportInv'
  BY <1>4, <1>10, <1>11 DEF PeriodsInv, ReportInv, Reporting
<1>14. OneRowPerPeriod'
  BY <1>9 DEF PeriodsInv, OneRowPerPeriod
<1>15. OneOpenUnlessRaced'
  BY <1>4 DEF PeriodsInv, OneOpenUnlessRaced
<1>16. PayInv'
  <2> SUFFICES ASSUME ~overlapped
               PROVE  PayInv'
    BY <1>4 DEF PayInv
  <2>1. PayInv
    BY DEF PeriodsInv
  <2>2. current = next /\ \A o \in Request \ {r} : rpc'[o] # "mark"
    BY <1>1, <1>6, <1>10, <2>1 DEF PayInv
  <2>3. next # NoDate => periodContaining(next) <= periodContaining(next') /\ periodContaining(next) \in Nat
    BY <1>1, <1>2, <1>8, <2>2, Contains, ContainsMonotonic
  <2>4. periodContaining(next') \in Nat
    BY <1>1, <1>8, Contains
  <2>5. ASSUME NEW k \in DOMAIN rows', rows'[k].status = "EXECUTED", rows'[k].label # Legacy
        PROVE  rows'[k].label < periodContaining(next')
    <3>1. CASE k = i
      BY <1>5, <1>6, <1>8, <1>9, <2>5, <3>1
    <3>2. CASE k # i
      <4>1. next # NoDate /\ rows[k].label < periodContaining(next) /\ rows[k].label \in Nat
        BY <1>1, <1>9, <2>1, <2>5, <3>2, RowFacts DEF PayInv
      <4> QED
        BY <1>9, <2>3, <2>4, <3>2, <2>5, <4>1
    <3> QED
      BY <3>1, <3>2
  <2>6. periodContaining(next') = periodContaining(next)'
    BY <1>4 DEF periodContaining, periodAt, monthsPerPeriod
  <2>7. next' # NoDate
    BY <1>8 DEF NoDate
  <2> QED
    BY <1>4, <1>10, <1>11, <2>1, <2>2, <2>5, <2>6, <2>7 DEF PayInv
<1> QED
  BY <1>12, <1>13, <1>14, <1>15, <1>16 DEF PeriodsInv

LEMMA PStep == PeriodsInv /\ [PeriodsNext]_periodVars => PeriodsInv'
<1> SUFFICES ASSUME PeriodsInv, [PeriodsNext]_periodVars
             PROVE  PeriodsInv'
  OBVIOUS
<1>1. CASE UNCHANGED periodVars
  BY <1>1 DEF periodVars, PeriodsInv, Typed, ReportInv, PayInv, OneRowPerPeriod, OneOpenUnlessRaced,
     Reporting, OpenRows, periodContaining, periodAt, monthsPerPeriod
<1>2. CASE MonthPasses
  BY <1>2 DEF MonthPasses, PeriodsInv, Typed, ReportInv, PayInv, OneRowPerPeriod, OneOpenUnlessRaced,
     Reporting, OpenRows, periodContaining, periodAt, monthsPerPeriod
<1>3. ASSUME NEW r \in Request, StartReport(r) \/ Report(r) \/ Pay(r)
      PROVE  PeriodsInv'
  BY <1>3, ReportStep, CreateStep, MarkStep DEF Report, Pay
<1> QED
  BY <1>1, <1>2, <1>3, PayingStep DEF PeriodsNext, PeriodsRest

LEMMA PInductive == PeriodsSpec => []PeriodsInv
BY PInit, PStep, PTL DEF PeriodsSpec

(* A period has one distribution, however many reports of it race.         *)
THEOREM OnePerPeriod == PeriodsSpec => []OneRowPerPeriod
<1>1. PeriodsInv => OneRowPerPeriod
  BY DEF PeriodsInv
<1> QED
  BY <1>1, PInductive, PTL

(* Two distributions are open at once only where two reports raced.        *)
THEOREM OneOpen == PeriodsSpec => []OneOpenUnlessRaced
<1>1. PeriodsInv => OneOpenUnlessRaced
  BY DEF PeriodsInv
<1> QED
  BY <1>1, PInductive, PTL

(* What is announced as the next period is later than all that were paid,  *)
(* unless two distributions were open at once.                             *)
THEOREM AnnouncesUnpaid == PeriodsSpec => []NextAfterPaid
<1>1. PeriodsInv => NextAfterPaid
  BY DEF PeriodsInv, PayInv, NextAfterPaid, periodToReport
<1> QED
  BY <1>1, PInductive, PTL

-----------------------------------------------------------------------------
(* TradePanel, for every number of wallets, switches, edits, price moves,  *)
(* swaps and amounts, and every price level.                               *)
(*                                                                         *)
(* The argument: a row is never taken back, so what a hook once learned of *)
(* a wallet stays true of that wallet, and only a status of the connected  *)
(* wallet is looked at (LearnedInv).  A quote on the page, or asked for,   *)
(* is for the amount and the side in the form, so the one a swap carries   *)
(* is for the amount and the side the swap was submitted with (SwapInv).   *)

AnyWallet   == Wallet \union {NoWallet}
QuoteRecord == [side : {"BUY", "SELL"}, amount : Nat, receive : Int]
SwapRecord  == [pc : {"idle", "apply", "build", "sign", "confirm"}, wallet : AnyWallet, amount : Nat,
                quote : QuoteRecord, anyway : BOOLEAN]
AcceptRecord == [pc : {"idle", "sign", "register", "answer"}, wallet : AnyWallet, kyc : BOOLEAN, live : BOOLEAN]

PanelTyped ==
  /\ wallet \in AnyWallet /\ accepting \in AcceptRecord
  /\ side \in {"BUY", "SELL"} /\ input \in Nat /\ quote \in QuoteRecord
  /\ swap \in SwapRecord /\ level \in DOMAIN BuyRate /\ kycMarket \in BOOLEAN

(* A status that says registered is about a wallet whose row is complete.  *)
Learned(s) == (s.registered => s.wallet \in row) /\ s.kyc \in BOOLEAN

LearnedInv ==
  /\ Learned(panelStatus) /\ Learned(gateStatus)
  /\ \A f \in fetches : Learned(f.asked)
  /\ enabledFor # NoWallet => enabledFor \in row
  /\ accepting.pc = "answer" => accepting.wallet \in row
  /\ justEnabled => wallet \in row

FormInv ==
  /\ \A q \in quoting : q = [side |-> side, amount |-> input]
  /\ quote # NoQuote => quote.side = side /\ quote.amount = input

SwapInv ==
  /\ swap.pc # "idle" => swap.amount = swap.quote.amount
  /\ swap.pc = "apply" => chainMode = "fake"
  /\ swap.pc # "idle" /\ swap.quote.side = "BUY" /\ ~swap.anyway => swap.wallet \in row

PInv == PanelTyped /\ LearnedInv /\ FormInv /\ SwapInv /\ DoneAsShown

-----------------------------------------------------------------------------
(* What the widgets know of wallets.                                       *)

LearnedVars == <<kycMarket, wallet, row, panelStatus, gateStatus, fetches, enabledFor, accepting, justEnabled>>

LEMMA RefreshLearns ==
  ASSUME kycMarket \in BOOLEAN, NEW hook, NEW w, NEW f \in Refresh(hook, w)
  PROVE  Learned(f.asked)
<1>1. f.asked = WalletView(w) \/ f.asked = WithoutKyc(WalletView(w))
  BY DEF Refresh
<1>2. /\ WalletView(w).wallet = w /\ (WalletView(w).registered <=> w \in row)
      /\ WalletView(w).kyc = kycMarket
  BY Zenon DEF WalletView
<1>3. /\ WithoutKyc(WalletView(w)).wallet = WalletView(w).wallet
      /\ WithoutKyc(WalletView(w)).registered = WalletView(w).registered
      /\ WithoutKyc(WalletView(w)).kyc = FALSE
  BY DEF WithoutKyc, WalletView
<1> QED
  BY <1>1, <1>2, <1>3 DEF Learned

LEMMA AnnouncedLearns ==
  ASSUME kycMarket \in BOOLEAN, NEW f \in Announced
  PROVE  Learned(f.asked)
BY RefreshLearns DEF Announced

LEMMA AnswerLearns ==
  ASSUME LearnedInv, NEW f \in fetches, NEW s \in Answers(f)
  PROVE  Learned(s)
<1> DEFINE current == WalletView(f.asked.wallet)
           read == [wallet : {current.wallet}, registered : {f.asked.registered, current.registered},
                    kyc : {f.asked.kyc}, allowlisted : {f.asked.allowlisted, f.asked.kyc /\ current.allowlisted}]
<1>1. PICK r \in read : s = r \/ s = WithoutKyc(r)
  BY DEF Answers
<1>2. current.wallet = f.asked.wallet /\ (current.registered <=> f.asked.wallet \in row)
  BY Zenon DEF WalletView
<1>3. r.wallet = current.wallet /\ r.registered \in {f.asked.registered, current.registered} /\ r.kyc = f.asked.kyc
  OBVIOUS
<1>4. WithoutKyc(r).wallet = r.wallet /\ WithoutKyc(r).registered = r.registered /\ WithoutKyc(r).kyc = FALSE
  BY DEF WithoutKyc
<1> HIDE DEF current, read
<1>5. Learned(f.asked)
  BY DEF LearnedInv
<1> QED
  BY <1>1, <1>2, <1>3, <1>4, <1>5 DEF Learned

LEMMA NothingLearned == Learned(NoStatus)
BY DEF Learned, NoStatus

(* A gate is mounted, unmounted or left alone.                             *)
LEMMA RenderLearns ==
  ASSUME PInv, NEW shown, NEW fs, Render(shown, fs), UNCHANGED <<row, kycMarket>>, \A f \in fs : Learned(f.asked)
  PROVE  /\ Learned(gateStatus)'
         /\ \A f \in fetches' : Learned(f.asked)'
         /\ enabledFor' # NoWallet => enabledFor' \in row'
         /\ accepting' \in AcceptRecord
         /\ accepting'.pc = "answer" => accepting'.wallet \in row'
<1>1. CASE fetches' = fs /\ UNCHANGED <<gateStatus, gateVars, jobVars>>
  BY <1>1 DEF PInv, PanelTyped, LearnedInv, Learned, gateVars, jobVars
<1>2. CASE MountGate(fs, wallet)
  <2>1. \A f \in fetches' : Learned(f.asked)
    BY <1>2, RefreshLearns DEF MountGate, PInv, PanelTyped
  <2> QED
    BY <1>2, <2>1, NothingLearned DEF MountGate, PInv, PanelTyped, LearnedInv, Learned, jobVars
<1>3. CASE UnmountGate(fs)
  <2>1. /\ fetches' \subseteq fs /\ gateStatus' = NoStatus /\ enabledFor' = NoWallet
        /\ accepting' = [accepting EXCEPT !.live = FALSE]
    BY <1>3 DEF UnmountGate
  <2>2. accepting' \in AcceptRecord /\ accepting'.pc = accepting.pc /\ accepting'.wallet = accepting.wallet
    BY <2>1 DEF PInv, PanelTyped, AcceptRecord
  <2> QED
    BY <2>1, <2>2, NothingLearned DEF PInv, LearnedInv, Learned
<1> QED
  BY <1>1, <1>2, <1>3 DEF Render

LEMMA SameLearned ==
  ASSUME PInv, UNCHANGED LearnedVars
  PROVE  LearnedInv' /\ wallet' \in AnyWallet /\ accepting' \in AcceptRecord /\ kycMarket' \in BOOLEAN
BY DEF PInv, PanelTyped, LearnedInv, Learned, LearnedVars

(* Rendering is all that happens to them.                                  *)
LEMMA OnlyRender ==
  ASSUME PInv, NEW shown, NEW fs, Render(shown, fs), \A f \in fs : Learned(f.asked),
         UNCHANGED <<kycMarket, wallet, row, panelStatus, justEnabled>>
  PROVE  LearnedInv' /\ wallet' \in AnyWallet /\ accepting' \in AcceptRecord
BY RenderLearns DEF PInv, PanelTyped, LearnedInv, Learned

FormVars == <<kycMarket, side, input, quote, quoting, chainMode, level, swap, outcome>>

LEMMA SameForm ==
  ASSUME PInv, UNCHANGED FormVars, row \subseteq row'
  PROVE  /\ FormInv' /\ SwapInv' /\ DoneAsShown'
         /\ side' \in {"BUY", "SELL"} /\ input' \in Nat /\ quote' \in QuoteRecord
         /\ swap' \in SwapRecord /\ level' \in DOMAIN BuyRate /\ kycMarket' \in BOOLEAN
BY DEF PInv, PanelTyped, FormInv, SwapInv, DoneAsShown, FormVars

LEMMA FormStays ==
  ASSUME PInv, UNCHANGED FormVars, row \subseteq row', LearnedInv', wallet' \in AnyWallet, accepting' \in AcceptRecord
  PROVE  PInv'
BY SameForm DEF PInv, PanelTyped

-----------------------------------------------------------------------------
(* The gate and its jobs.                                                  *)

(* The gate learns something; rows are only added.                         *)
LEMMA GateStep ==
  ASSUME PInv, Gate, UNCHANGED <<chainVars, panelVars>>
  PROVE  PInv'
<1>0. kycMarket' = kycMarket
  BY DEF Gate, GateArrives, Accept, SignMessage, ServerRegisters, RegisterFails, ZkStart, ZkPoll, ZkConfirm, ZkFails,
         clientVars, serverVars
<1>1. UNCHANGED FormVars /\ justEnabled' = justEnabled
  BY <1>0 DEF FormVars, chainVars, panelVars, formVars, noticeVars, submitVars
<1>2. ASSUME NEW f \in fetches, GateArrives(f)
      PROVE  LearnedInv' /\ wallet' = wallet /\ accepting' = accepting /\ row' = row
  <2>1. PICK s \in Answers(f) : gateStatus' = s
    BY <1>2 DEF GateArrives
  <2>2. UNCHANGED <<wallet, row, panelStatus, enabledFor, accepting>> /\ fetches' \subseteq fetches
    BY <1>2 DEF GateArrives, serverVars, sessionVars
  <2>3. Learned(s)
    BY <2>1, AnswerLearns DEF PInv
  <2> QED
    BY <1>1, <2>1, <2>2, <2>3 DEF PInv, LearnedInv, Learned
<1>3. ASSUME Accept \/ SignMessage \/ RegisterFails
      PROVE  LearnedInv' /\ wallet' = wallet /\ accepting' \in AcceptRecord /\ row' = row
  <2>1. UNCHANGED <<wallet, row, panelStatus, gateStatus, fetches, enabledFor>>
    BY <1>3 DEF Accept, SignMessage, RegisterFails, clientVars, serverVars, sessionVars, gateVars
  <2>2. accepting' \in AcceptRecord /\ accepting'.pc # "answer"
    <3>1. CASE Accept
      <4>1. GateStatus.kyc \in BOOLEAN
        BY NothingLearned DEF GateStatus, Shown, PInv, LearnedInv, Learned
      <4>2. accepting' = [pc |-> "sign", wallet |-> wallet, kyc |-> GateStatus.kyc, live |-> TRUE]
        BY <3>1 DEF Accept
      <4> QED
        BY <4>1, <4>2 DEF AcceptRecord, PInv, PanelTyped
    <3>2. CASE accepting' = [accepting EXCEPT !.pc = "register"]
      BY <3>2 DEF AcceptRecord, PInv, PanelTyped
    <3>3. CASE accepting' = NotAccepting
      BY <3>3 DEF NotAccepting, AcceptRecord, AnyWallet
    <3> QED
      BY <1>3, <3>1, <3>2, <3>3 DEF SignMessage, RegisterFails
  <2> QED
    BY <1>1, <2>1, <2>2 DEF PInv, LearnedInv, Learned
<1>4. ASSUME ServerRegisters
      PROVE  LearnedInv' /\ wallet' = wallet /\ accepting' \in AcceptRecord /\ row \subseteq row'
  <2>1. /\ UNCHANGED <<wallet, panelStatus, gateStatus, fetches, enabledFor>>
        /\ row' = row \union {accepting.wallet} /\ accepting' = [accepting EXCEPT !.pc = "answer"]
    BY <1>4 DEF ServerRegisters, sessionVars, gateVars
  <2>2. accepting' \in AcceptRecord /\ accepting'.wallet = accepting.wallet
    BY <2>1 DEF AcceptRecord, PInv, PanelTyped
  <2> QED
    BY <1>1, <2>1, <2>2 DEF PInv, LearnedInv, Learned
<1>5. ASSUME ZkStart \/ ZkPoll \/ ZkConfirm \/ ZkFails
      PROVE  UNCHANGED LearnedVars
  BY <1>1, <1>5 DEF ZkStart, ZkPoll, ZkConfirm, ZkFails, LearnedVars, clientVars, serverVars, sessionVars, gateVars
<1>6. CASE \E f \in fetches : GateArrives(f)
  BY <1>1, <1>2, <1>6, FormStays DEF PInv, PanelTyped
<1>7. CASE Accept \/ SignMessage \/ RegisterFails
  BY <1>1, <1>3, <1>7, FormStays DEF PInv, PanelTyped
<1>8. CASE ServerRegisters
  BY <1>1, <1>4, <1>8, FormStays DEF PInv, PanelTyped
<1>9. CASE ZkStart \/ ZkPoll \/ ZkConfirm \/ ZkFails
  BY <1>1, <1>5, <1>9, SameLearned, FormStays DEF LearnedVars
<1> QED
  BY <1>6, <1>7, <1>8, <1>9 DEF Gate

LEMMA AnswersStep ==
  ASSUME PInv, UNCHANGED <<chainVars, panelVars>>,
         RegisterAnswered(Announced) \/ \E f \in fetches : FetchFails(f) /\ UNCHANGED <<gateVars, jobVars>>
  PROVE  PInv'
<1>2. UNCHANGED <<kycMarket, wallet, row, panelStatus, gateStatus>>
  BY DEF RegisterAnswered, FetchFails, serverVars, sessionVars
<1>1. UNCHANGED FormVars /\ justEnabled' = justEnabled
  BY <1>2 DEF FormVars, chainVars, panelVars, formVars, noticeVars, submitVars
<1>3. CASE RegisterAnswered(Announced)
  <2>1. \A f \in fetches' : Learned(f.asked)
    BY <1>3, AnnouncedLearns, RefreshLearns DEF RegisterAnswered, PInv, PanelTyped, LearnedInv
  <2>2. accepting' = NotAccepting /\ enabledFor' \in {enabledFor, accepting.wallet} /\ accepting.pc = "answer"
    BY <1>3 DEF RegisterAnswered
  <2>3. accepting' \in AcceptRecord /\ accepting'.pc # "answer"
    BY <2>2 DEF NotAccepting, AcceptRecord, AnyWallet
  <2>4. LearnedInv'
    BY <1>1, <1>2, <2>1, <2>2, <2>3 DEF PInv, LearnedInv, Learned
  <2> QED
    BY <1>1, <1>2, <2>3, <2>4, FormStays DEF PInv, PanelTyped
<1>4. CASE \E f \in fetches : FetchFails(f) /\ UNCHANGED <<gateVars, jobVars>>
  <2>1. UNCHANGED <<enabledFor, accepting>> /\ fetches' \subseteq fetches
    BY <1>4 DEF FetchFails, gateVars, jobVars
  <2>2. LearnedInv'
    BY <1>1, <1>2, <2>1 DEF PInv, LearnedInv, Learned
  <2> QED
    BY <1>1, <1>2, <2>1, <2>2, FormStays DEF PInv, PanelTyped
<1> QED
  BY <1>3, <1>4

-----------------------------------------------------------------------------
(* The panel.                                                              *)

LEMMA PanelArrivesStep ==
  ASSUME PInv, NEW f \in fetches, PanelArrives(f)
  PROVE  PInv'
<1>1. UNCHANGED FormVars /\ UNCHANGED <<wallet, row>>
  BY DEF PanelArrives, FormVars, serverVars, sessionVars, chainVars, formVars, submitVars
<1>2. PICK s \in Answers(f) :
          /\ panelStatus' = s
          /\ justEnabled' = (justEnabled \/ (was = "no" /\ Shown(s, wallet).registered))
          /\ Render(GateShown(gateOpen', s, wallet), fetches \ {f})
  BY DEF PanelArrives
<1>3. Learned(s)
  BY AnswerLearns DEF PInv
<1>4. Shown(s, wallet).registered => wallet \in row
  BY <1>3 DEF Shown, Learned, NoStatus
<1>0. kycMarket' = kycMarket
  BY <1>1 DEF FormVars
<1>5. \A g \in fetches \ {f} : Learned(g.asked)
  BY DEF PInv, LearnedInv
<1>6. /\ Learned(gateStatus)'
      /\ \A g \in fetches' : Learned(g.asked)'
      /\ enabledFor' # NoWallet => enabledFor' \in row'
      /\ accepting' \in AcceptRecord
      /\ accepting'.pc = "answer" => accepting'.wallet \in row'
  BY <1>0, <1>1, <1>2, <1>5, RenderLearns
<1>7. Learned(panelStatus)'
  BY <1>1, <1>2, <1>3 DEF Learned
<1>8. justEnabled' => wallet' \in row'
  BY <1>1, <1>2, <1>4 DEF PInv, LearnedInv
<1>9. LearnedInv'
  BY <1>6, <1>7, <1>8 DEF LearnedInv
<1> QED
  BY <1>1, <1>6, <1>9, FormStays DEF PInv, PanelTyped

(* The gate is opened or closed and nothing else happens.                  *)
LEMMA GateOpensStep ==
  ASSUME PInv, OpenGate \/ OnboardThisWallet \/ Cancel
  PROVE  PInv'
<1>1. UNCHANGED FormVars /\ UNCHANGED <<kycMarket, wallet, row, panelStatus, justEnabled>>
  BY DEF OpenGate, OnboardThisWallet, Cancel, FormVars, serverVars, sessionVars, chainVars, formVars, submitVars
<1>2. PICK shown : Render(shown, fetches)
  BY DEF OpenGate, OnboardThisWallet, Cancel
<1>3. \A f \in fetches : Learned(f.asked)
  BY DEF PInv, LearnedInv
<1> QED
  BY <1>1, <1>2, <1>3, OnlyRender, FormStays

LEMMA EditStep ==
  ASSUME PInv, NEW s \in {"BUY", "SELL"}, NEW a \in Amount \union {0}, EditInput(s, a)
  PROVE  PInv'
<1>1. UNCHANGED LearnedVars /\ UNCHANGED <<row, chainMode, level, swap>>
  BY DEF EditInput, LearnedVars, clientVars, serverVars, sessionVars, gateVars, jobVars, chainVars, submitVars
<1>2. side' = s /\ input' = a /\ quote' = NoQuote /\ quoting' = AskQuote(s, a) /\ outcome' \in {NoOutcome, outcome}
  BY DEF EditInput, Enter
<1>3. FormInv' /\ DoneAsShown'
  BY <1>1, <1>2 DEF FormInv, AskQuote, DoneAsShown, NoOutcome, PInv
<1>4. a \in Nat /\ NoQuote \in QuoteRecord
  BY PanelConstants DEF NoQuote, QuoteRecord
<1> QED
  BY <1>1, <1>2, <1>3, <1>4, SameLearned DEF PInv, PanelTyped, SwapInv

LEMMA QuoteTyped ==
  ASSUME PInv, NEW s \in {"BUY", "SELL"}, NEW a \in Nat
  PROVE  QuoteSwap(s, a) \in Int /\ QuoteView(s, a) \in QuoteRecord
<1>1. PICK rate \in Nat : rate = (IF s = "BUY" THEN BuyRate ELSE SellRate)[level]
  BY PanelConstants DEF PInv, PanelTyped
<1>2. (a * rate) \div 1000 \in Int
  BY SMT
<1> QED
  BY <1>1, <1>2 DEF QuoteSwap, QuoteView, QuoteRecord

LEMMA QuoteStep ==
  ASSUME PInv, NEW q \in quoting, QuoteArrives(q)
  PROVE  PInv'
<1>1. /\ UNCHANGED LearnedVars
      /\ UNCHANGED <<row, chainMode, level, swap, outcome, side, input>>
      /\ quoting' \subseteq quoting /\ quote' \in {quote, QuoteView(q.side, q.amount)}
  BY DEF QuoteArrives, LearnedVars, clientVars, serverVars, sessionVars, gateVars, jobVars, chainVars, noticeVars, submitVars
<1>2. q.side = side /\ q.amount = input
  BY DEF PInv, FormInv
<1>3. QuoteView(side, input) \in QuoteRecord /\ QuoteView(side, input).side = side /\ QuoteView(side, input).amount = input
  BY QuoteTyped DEF PInv, PanelTyped, QuoteView
<1>4. FormInv' /\ quote' \in QuoteRecord
  BY <1>1, <1>2, <1>3 DEF PInv, PanelTyped, FormInv
<1> QED
  BY <1>1, <1>4, SameLearned DEF PInv, PanelTyped, SwapInv, DoneAsShown

(* Rendering failed: nothing is known and nothing is asked.                *)
LEMMA DownStep ==
  ASSUME PInv, PageDown, swap' \in {swap, NoSwap}
  PROVE  PInv'
<1>1. /\ UNCHANGED <<kycMarket, wallet, row, chainMode, level>>
      /\ panelStatus' = NoStatus /\ justEnabled' = FALSE /\ outcome' = NoOutcome
      /\ side' = "BUY" /\ input' = 0 /\ quote' = NoQuote /\ quoting' = {}
  BY DEF PageDown, serverVars, sessionVars, chainVars
<1>2. /\ fetches' = {} /\ gateStatus' = NoStatus /\ enabledFor' = NoWallet
      /\ accepting' = [accepting EXCEPT !.live = FALSE]
  BY DEF PageDown, UnmountGate
<1>3. accepting' \in AcceptRecord /\ accepting'.pc = accepting.pc /\ accepting'.wallet = accepting.wallet
  BY <1>2 DEF PInv, PanelTyped, AcceptRecord
<1>4. LearnedInv'
  BY <1>1, <1>2, <1>3, NothingLearned DEF PInv, LearnedInv, Learned
<1>5. NoQuote \in QuoteRecord /\ NoSwap \in SwapRecord /\ NoSwap.pc = "idle"
  BY DEF NoQuote, QuoteRecord, NoSwap, SwapRecord, AnyWallet
<1>6. FormInv' /\ SwapInv' /\ DoneAsShown'
  BY <1>1, <1>5 DEF PInv, FormInv, SwapInv, DoneAsShown, NoOutcome
<1> QED
  BY <1>1, <1>3, <1>4, <1>5, <1>6 DEF PInv, PanelTyped

LEMMA SubmitStep ==
  ASSUME PInv, NEW anyway \in BOOLEAN, Submit(anyway)
  PROVE  PInv'
<1>1. /\ UNCHANGED <<kycMarket, wallet, row, panelStatus, justEnabled, chainMode, level, side, input, quote, quoting>>
      /\ outcome' = NoOutcome /\ Render(FALSE, fetches)
  BY DEF Submit, serverVars, sessionVars, chainVars, formVars
<1>2. LearnedInv' /\ wallet' \in AnyWallet /\ accepting' \in AcceptRecord
  BY <1>1, OnlyRender DEF PInv, LearnedInv
<1>3. PICK label \in {"apply", "build"} :
          /\ swap' = [pc |-> label, wallet |-> wallet, amount |-> input, quote |-> quote, anyway |-> anyway]
          /\ label = "apply" => chainMode = "fake"
  BY DEF Submit
<1>4. /\ swap' \in SwapRecord /\ swap'.amount = input /\ swap'.quote = quote /\ swap'.wallet = wallet
      /\ swap'.anyway = anyway /\ swap'.pc = label
  BY <1>3 DEF PInv, PanelTyped, SwapRecord
<1>5. quote.side = side /\ quote.amount = input
  BY DEF Submit, CanSubmit, PInv, FormInv
<1>6. ~anyway /\ side = "BUY" => wallet \in row
  <2>1. ~anyway /\ side = "BUY" => PanelStatus.registered
    BY DEF Submit, Registered
  <2>2. PanelStatus.registered => wallet \in row
    BY DEF PanelStatus, Shown, NoStatus, PInv, LearnedInv, Learned
  <2> QED
    BY <2>1, <2>2
<1>7. SwapInv'
  BY <1>1, <1>3, <1>4, <1>5, <1>6 DEF SwapInv
<1>8. FormInv' /\ DoneAsShown'
  BY <1>1 DEF PInv, FormInv, DoneAsShown, NoOutcome
<1> QED
  BY <1>1, <1>2, <1>4, <1>7, <1>8 DEF PInv, PanelTyped

-----------------------------------------------------------------------------
(* The swap.                                                               *)

LEMMA SwapGoes ==
  ASSUME PInv, NEW from, NEW to \in {"sign", "confirm"}, from # "idle", SwapStep(from, to)
  PROVE  PInv'
<1>1. /\ UNCHANGED LearnedVars
      /\ UNCHANGED <<row, chainMode, level, outcome, side, input, quote, quoting>>
      /\ swap.pc = from /\ swap' = [swap EXCEPT !.pc = to]
  BY DEF SwapStep, LearnedVars, clientVars, serverVars, sessionVars, gateVars, jobVars, chainVars, formVars, noticeVars
<1>2. /\ swap' \in SwapRecord /\ swap'.pc = to /\ swap'.amount = swap.amount /\ swap'.quote = swap.quote
      /\ swap'.wallet = swap.wallet /\ swap'.anyway = swap.anyway
  BY <1>1 DEF PInv, PanelTyped, SwapRecord
<1>3. SwapInv'
  BY <1>1, <1>2 DEF PInv, SwapInv
<1> QED
  BY <1>1, <1>2, <1>3, SameLearned DEF PInv, PanelTyped, FormInv, DoneAsShown

(* The form is emptied or left as it is; the page asks again.              *)
LEMMA SwapEnds ==
  ASSUME PInv, NEW kind, NEW paid, NEW got, EndSwap(kind, paid, got),
         \/ UNCHANGED <<fetches, formVars>>
         \/ Enter(side, 0) /\ fetches' = fetches \union Announced \union Refresh("panel", swap.wallet),
         kind = "done" /\ chainMode = "devnet" =>
            /\ paid = swap.quote.amount
            /\ 10000 * got >= (10000 - SLIPPAGE_BPS) * swap.quote.receive - 9999
  PROVE  PInv'
<1>1. /\ UNCHANGED <<kycMarket, wallet, row, panelStatus, gateStatus, enabledFor, accepting, justEnabled, chainMode, level>>
      /\ swap' = NoSwap
      /\ outcome' = [kind |-> kind, paid |-> paid, got |-> got, quote |-> IF kind = "done" THEN swap.quote ELSE NoQuote]
  BY DEF EndSwap, chainVars, serverVars, sessionVars, gateVars, jobVars
<1>2. \A f \in fetches' : Learned(f.asked)
  BY AnnouncedLearns, RefreshLearns DEF PInv, PanelTyped, LearnedInv
<1>3. LearnedInv'
  BY <1>1, <1>2 DEF PInv, LearnedInv, Learned
<1>4. NoQuote \in QuoteRecord /\ NoSwap \in SwapRecord /\ NoSwap.pc = "idle"
  BY DEF NoQuote, QuoteRecord, NoSwap, SwapRecord, AnyWallet
<1>5. /\ FormInv' /\ quote' \in QuoteRecord /\ side' \in {"BUY", "SELL"} /\ input' \in Nat
  <2>1. CASE UNCHANGED formVars
    BY <2>1 DEF PInv, PanelTyped, FormInv, formVars
  <2>2. CASE Enter(side, 0)
    <3>1. side' = side /\ input' = 0
      BY <2>2 DEF Enter
    <3>2. CASE UNCHANGED <<quote, quoting>> /\ input = 0
      BY <3>1, <3>2 DEF PInv, PanelTyped, FormInv
    <3>3. CASE quote' = NoQuote /\ quoting' = AskQuote(side, 0)
      BY <1>4, <3>1, <3>3 DEF PInv, PanelTyped, FormInv, AskQuote
    <3> QED
      BY <2>2, <3>2, <3>3 DEF Enter
  <2> QED
    BY <2>1, <2>2
<1>6. SwapInv' /\ swap' \in SwapRecord
  BY <1>1, <1>4 DEF SwapInv
<1>7. DoneAsShown'
  BY <1>1 DEF DoneAsShown
<1> QED
  BY <1>1, <1>3, <1>5, <1>6, <1>7 DEF PInv, PanelTyped

(* The minimum the pool was told is 99% of the quote, rounded down.        *)
LEMMA AtLeastMinimum ==
  ASSUME NEW q \in QuoteRecord, NEW got \in Int, got >= MinOut(q)
  PROVE  10000 * got >= (10000 - SLIPPAGE_BPS) * q.receive - 9999
<1>1. PICK r \in Int : r = q.receive
  BY DEF QuoteRecord
<1>2. got >= (r * 9900) \div 10000
  BY <1>1 DEF MinOut, SLIPPAGE_BPS
<1>3. 10000 * got >= 9900 * r - 9999
  BY SMT, <1>2
<1> QED
  BY <1>1, <1>3 DEF SLIPPAGE_BPS

LEMMA SwapsStep ==
  ASSUME PInv, Swap
  PROVE  PInv'
<1>1. CASE FakeSwap
  <2>1. chainMode # "devnet"
    BY <1>1 DEF FakeSwap, PInv, SwapInv
  <2> QED
    BY <1>1, <2>1, SwapEnds DEF FakeSwap, SwapDone, SwapError
<1>2. CASE SwapLands
  <2>1. swap.amount = swap.quote.amount /\ swap.quote \in QuoteRecord /\ swap.amount \in Nat
    BY <1>2 DEF SwapLands, PInv, SwapInv, PanelTyped, SwapRecord
  <2>2. PICK got \in Int : got = QuoteSwap(swap.quote.side, swap.amount)
    BY <2>1, QuoteTyped DEF QuoteRecord
  <2>3. CASE got >= MinOut(swap.quote) /\ SwapDone(swap.amount, got)
    <3>1. 10000 * got >= (10000 - SLIPPAGE_BPS) * swap.quote.receive - 9999
      BY <2>1, <2>3, AtLeastMinimum
    <3> QED
      BY <2>1, <2>3, <3>1, SwapEnds DEF SwapDone
  <2>4. CASE \E kind \in {"not-eligible", "error"} : SwapError(kind)
    BY <2>4, SwapEnds DEF SwapError
  <2> QED
    BY <1>2, <2>2, <2>3, <2>4 DEF SwapLands
<1>3. CASE SwapFails
  BY <1>3, SwapEnds DEF SwapFails, SwapError
<1>4. CASE DoneBreaks
  BY <1>4, DownStep DEF DoneBreaks
<1>5. CASE EndsUnseen
  <2>1. /\ UNCHANGED LearnedVars
        /\ UNCHANGED <<chainMode, level, outcome, side, input, quote, quoting>> /\ swap' = NoSwap
    BY <1>5 DEF EndsUnseen, LearnedVars, clientVars, serverVars, sessionVars, gateVars, jobVars, chainVars, formVars, noticeVars
  <2>2. NoSwap \in SwapRecord /\ NoSwap.pc = "idle"
    BY DEF NoQuote, QuoteRecord, NoSwap, SwapRecord, AnyWallet
  <2> QED
    BY <2>1, <2>2, SameLearned DEF LearnedVars, PInv, PanelTyped, FormInv, SwapInv, DoneAsShown
<1> QED
  BY <1>1, <1>2, <1>3, <1>4, <1>5, SwapGoes DEF Swap, BuildSwap, SignSwap

-----------------------------------------------------------------------------
(* Another wallet, another page, another price.                            *)

LEMMA SwitchStep ==
  ASSUME PInv, NEW w \in AnyWallet, SwitchWallet(w)
  PROVE  PInv'
<1>1. /\ wallet' = w /\ panelStatus' = NoStatus /\ justEnabled' = FALSE /\ outcome' = NoOutcome
      /\ UNCHANGED <<kycMarket, row, chainMode, level, side, input, quote, quoting, swap>>
  BY DEF SwitchWallet, serverVars, chainVars, formVars, submitVars
<1>2. /\ Learned(gateStatus)'
      /\ \A f \in fetches' : Learned(f.asked)'
      /\ enabledFor' # NoWallet => enabledFor' \in row'
      /\ accepting' \in AcceptRecord
      /\ accepting'.pc = "answer" => accepting'.wallet \in row'
  <2>1. CASE onMarket
    <3>1. Render(FALSE, fetches \union Refresh("panel", w))
      BY <2>1 DEF SwitchWallet
    <3>2. \A f \in fetches \union Refresh("panel", w) : Learned(f.asked)
      BY RefreshLearns DEF PInv, PanelTyped, LearnedInv
    <3> QED
      BY <1>1, <3>1, <3>2, RenderLearns
  <2>2. CASE ~onMarket
    <3>1. /\ gateStatus' = NoStatus /\ fetches' \subseteq fetches \union Refresh("gate", w)
          /\ UNCHANGED <<enabledFor, accepting>>
      BY <2>2 DEF SwitchWallet, gateVars
    <3>2. \A f \in fetches' : Learned(f.asked)
      BY <3>1, RefreshLearns DEF PInv, PanelTyped, LearnedInv
    <3> QED
      BY <1>1, <3>1, <3>2, NothingLearned DEF PInv, PanelTyped, LearnedInv, Learned
  <2> QED
    BY <2>1, <2>2
<1>3. Learned(panelStatus)'
  BY <1>1, NothingLearned DEF Learned
<1>4. LearnedInv'
  BY <1>1, <1>2, <1>3 DEF LearnedInv
<1>5. FormInv' /\ SwapInv' /\ DoneAsShown'
  BY <1>1 DEF PInv, FormInv, SwapInv, DoneAsShown, NoOutcome
<1> QED
  BY <1>1, <1>2, <1>4, <1>5 DEF PInv, PanelTyped

LEMMA GoStep ==
  ASSUME PInv, GoToMarket
  PROVE  PInv'
<1>1. UNCHANGED FormVars /\ UNCHANGED <<kycMarket, wallet, row, panelStatus, justEnabled>>
  BY DEF GoToMarket, FormVars, serverVars, sessionVars, chainVars, formVars, noticeVars, submitVars
<1>2. /\ \A f \in fetches' : Learned(f.asked)
      /\ gateStatus' = NoStatus /\ enabledFor' = NoWallet
      /\ accepting' = [accepting EXCEPT !.live = FALSE]
  BY RefreshLearns DEF GoToMarket, UnmountGate, PInv, PanelTyped, LearnedInv
<1>3. accepting' \in AcceptRecord /\ accepting'.pc = accepting.pc /\ accepting'.wallet = accepting.wallet
  BY <1>2 DEF PInv, PanelTyped, AcceptRecord
<1>4. LearnedInv'
  BY <1>1, <1>2, <1>3, NothingLearned DEF PInv, LearnedInv, Learned
<1> QED
  BY <1>1, <1>3, <1>4, FormStays DEF PInv, PanelTyped

LEMMA MoveStep ==
  ASSUME PInv, NEW l \in DOMAIN BuyRate, MarketMoves(l)
  PROVE  PInv'
<1>1. /\ UNCHANGED LearnedVars /\ level' = l
      /\ UNCHANGED <<row, chainMode, side, input, quote, quoting, swap, outcome>>
  BY DEF MarketMoves, LearnedVars, clientVars, serverVars, sessionVars, gateVars, jobVars, panelVars, formVars,
         noticeVars, submitVars
<1> QED
  BY <1>1, SameLearned DEF PInv, PanelTyped, FormInv, SwapInv, DoneAsShown

-----------------------------------------------------------------------------
LEMMA PanelInit == Init => PInv
<1> SUFFICES ASSUME Init
             PROVE  PInv
  OBVIOUS
<1>1. PanelTyped
  BY PanelConstants DEF Init, ClientInit, GateInit, PanelTyped, AnyWallet, NotAccepting, AcceptRecord, NoQuote,
                        QuoteRecord, NoSwap, SwapRecord
<1>2. LearnedInv
  BY <1>1, NothingLearned, AnnouncedLearns DEF PanelTyped, Init, ClientInit, GateInit, LearnedInv, NotAccepting
<1>3. FormInv /\ SwapInv /\ DoneAsShown
  BY DEF Init, FormInv, SwapInv, DoneAsShown, NoSwap, NoOutcome
<1> QED
  BY <1>1, <1>2, <1>3 DEF PInv

LEMMA PanelStep == PInv /\ [Next]_vars => PInv'
<1> SUFFICES ASSUME PInv, [Next]_vars
             PROVE  PInv'
  OBVIOUS
<1>1. CASE UNCHANGED vars
  <2>1. UNCHANGED LearnedVars /\ UNCHANGED FormVars /\ row' = row
    BY <1>1 DEF vars, LearnedVars, FormVars, clientVars, serverVars, sessionVars, gateVars, jobVars, chainVars,
                panelVars, formVars, noticeVars, submitVars
  <2> QED
    BY <2>1, SameLearned, FormStays
<1>2. CASE Panel
  <2>1. EditBreaks => swap' = swap /\ PageDown
    BY DEF EditBreaks, submitVars
  <2> QED
    BY <1>2, <2>1, PanelArrivesStep, GateOpensStep, EditStep, DownStep, QuoteStep, SubmitStep DEF Panel
<1>3. CASE Next
  BY <1>2, <1>3, SwapsStep, GateStep, AnswersStep, SwitchStep, GoStep, MoveStep DEF Next, AnyWallet
<1> QED
  BY <1>1, <1>3

LEMMA PanelInvariant == Spec => []PInv
BY PanelInit, PanelStep, PTL DEF Spec

(* A swap reported as done on chain paid the amount its quote was for, and *)
(* brought at least 99% of what the page had shown for it, whatever was    *)
(* typed, whichever quote arrived late and however the price moved.        *)
THEOREM AsShown == Spec => []DoneAsShown
<1>1. PInv => DoneAsShown
  BY DEF PInv
<1> QED
  BY <1>1, PanelInvariant, PTL

(* Nothing the page says or does on behalf of a wallet rests on what it    *)
(* learned about another one, however answers are delayed and wallets      *)
(* switched under the jobs.                                                *)
THEOREM OnlyOwnStatus == Spec => []EnabledIsListed
<1>1. ASSUME PInv
      PROVE  EnabledIsListed
  <2>1. swap.pc # "idle" /\ swap.quote.side = "BUY" /\ ~swap.anyway => swap.wallet \in row
    BY <1>1 DEF PInv, SwapInv
  <2>2. GateStatus # NoStatus /\ GateRegistered => wallet \in row
    BY <1>1 DEF PInv, LearnedInv, Learned, GateStatus, GateRegistered, Enabled, Shown, NoStatus
  <2>3. justEnabled => wallet \in row
    BY <1>1 DEF PInv, LearnedInv
  <2> QED
    BY <2>1, <2>2, <2>3 DEF EnabledIsListed
<1> QED
  BY <1>1, PanelInvariant, PTL

=============================================================================
