----------------------------- MODULE Onboarding -----------------------------
(***************************************************************************)
(* Onboarding of investors: the API's registerParticipant (an invite, or a *)
(* passport) and the Rarimo passport flow of lib/server/kyc.ts, over the   *)
(* accounts of Allowlist.  A mint stands for its issuance.                 *)
(*                                                                         *)
(* A request handler yields at every database and chain call, so every     *)
(* account may change between two of its steps; a transaction the page     *)
(* holds unsigned may be signed much later, or never.                      *)
(***************************************************************************)
EXTENDS Allowlist

CONSTANTS
    Request,               \* register requests being served
    Pool,                  \* owner of the market's vault
    Invited,               \* wallets an issuer gave the invite link to
    NoProof, NoTx,
    RootLife,              \* how many superseded roots Rarimo still accepts
    MaxPages               \* bound on pages holding an unsigned transaction

ASSUME OnboardingAssumption ==
    /\ Pool \in Wallet /\ Invited \subseteq Wallet \ {Pool}
    /\ Root \subseteq Nat \ {0} /\ RootLife \in Nat /\ MaxPages \in Nat
    /\ NoProof \notin Proof /\ NoTx \notin [proof : Proof \cup {NoProof}]

VARIABLES
    participant,   \* participant[m][w] : the Participant row
    reg,           \* reg[q] : a registerParticipant handler
    rarimo,        \* rarimo[w] : the proof request of a wallet at Rarimo
    latest,        \* Rarimo's newest identity-state root
    unsigned       \* unsigned[w] : transaction the page asks the wallet to sign

serverVars == <<participant, reg>>
proofVars  == <<rarimo, latest, unsigned>>
onboardVars == <<allowVars, serverVars, proofVars>>

RegRecord == [pc : {"upsert", "allow", "send", "record"}, mint : Mint, wallet : Wallet, kyc : BOOLEAN]
NoRow  == [accepted |-> FALSE, tx |-> "none"]
NoReg  == [pc |-> "idle"]
NoRequest == [status |-> "none", upper |-> 0, proof |-> NoProof]

OnboardTypeOK ==
    /\ AllowTypeOK
    /\ participant \in [Mint -> [Wallet -> [accepted : BOOLEAN, tx : {"none", "listed"}]]]
    /\ reg \in [Request -> RegRecord \cup {NoReg}]
    /\ rarimo \in [Wallet -> [status : {"none", "open", "verified"}, upper : Nat,
                              proof : Proof \cup {NoProof}]]
    /\ latest \in Root
    /\ unsigned \in [Wallet -> [proof : Proof \cup {NoProof}] \cup {NoTx}]

OnboardInit ==
    /\ AllowInit
    /\ participant = [m \in Mint |-> [w \in Wallet |-> NoRow]]
    /\ reg = [q \in Request |-> NoReg]
    /\ rarimo = [w \in Wallet |-> NoRequest]
    /\ latest \in Root /\ \A r \in Root : latest <= r
    /\ unsigned = [w \in Wallet |-> NoTx]

-----------------------------------------------------------------------------
(* registerParticipant.                                                    *)

(* kycWalletView: attested is what the program would accept now. *)
ViewAttested(w) ==
    /\ attestation[w] # NoAttestation
    /\ attestation[w].expires > now
    /\ CitizenshipOf(attestation[w].identity) \notin kyc.blocked

KycAllowed(m, w) == KycOn /\ m \in policy /\ entry[m][w] = "active" /\ ViewAttested(w)

RegGoto(q, label) == reg' = [reg EXCEPT ![q].pc = label]
Return(q) == reg' = [reg EXCEPT ![q] = NoReg]

(* Mutant: adds the wallet before the participant is recorded. *)
StartRegister_AllowFirst(q, m, w, viaKyc) ==
    /\ reg[q] = NoReg /\ config[m] # NoKey /\ w # Pool
    /\ IF viaKyc THEN KycAllowed(m, w) ELSE w \in Invited
    /\ reg' = [reg EXCEPT ![q] = [pc |-> "allow", mint |-> m, wallet |-> w, kyc |-> viaKyc]]
    /\ UNCHANGED <<allowVars, participant, proofVars>>

StartRegister(q, m, w, viaKyc) ==
    /\ reg[q] = NoReg /\ config[m] # NoKey /\ w # Pool
    /\ IF viaKyc THEN KycAllowed(m, w) ELSE w \in Invited
    /\ reg' = [reg EXCEPT ![q] = [pc |-> "upsert", mint |-> m, wallet |-> w, kyc |-> viaKyc]]
    /\ UNCHANGED <<allowVars, participant, proofVars>>

Upsert(q) ==
    LET m == reg[q].mint  w == reg[q].wallet IN
    /\ reg[q].pc = "upsert"
    /\ participant' = [participant EXCEPT ![m][w].accepted = TRUE]
    /\ IF participant[m][w].tx # "none" THEN Return(q)
       ELSE RegGoto(q, IF reg[q].kyc THEN "record" ELSE "allow")
    /\ UNCHANGED <<allowVars, proofVars>>

(* Mutant: records the wallet as listed without adding it. *)
LookAllowed_Assumed(q) ==
    /\ reg[q].pc = "allow"
    /\ RegGoto(q, "record")
    /\ UNCHANGED <<allowVars, participant, proofVars>>

(* allowWallet looks first: an active entry needs no transaction. *)
LookAllowed(q) ==
    /\ reg[q].pc = "allow"
    /\ RegGoto(q, IF entry[reg[q].mint][reg[q].wallet] = "active" THEN "record" ELSE "send")
    /\ UNCHANGED <<allowVars, participant, proofVars>>

(* `known' is FALSE when the outcome of a landed transaction is not learnt. *)
SendAllow(q, known) ==
    /\ reg[q].pc = "send"
    /\ AddAllow(FsAuthority, reg[q].mint, reg[q].wallet)
    /\ IF known THEN RegGoto(q, "record") ELSE Return(q)
    /\ UNCHANGED <<participant, proofVars>>

AllowFails(q) ==
    /\ reg[q].pc = "send"
    /\ Return(q)
    /\ UNCHANGED <<allowVars, participant, proofVars>>

RecordAllow(q) ==
    /\ reg[q].pc = "record"
    /\ participant' = [participant EXCEPT ![reg[q].mint][reg[q].wallet].tx = "listed"]
    /\ Return(q)
    /\ UNCHANGED <<allowVars, proofVars>>

RegisterCrash(q) ==
    /\ reg[q] # NoReg
    /\ Return(q)
    /\ UNCHANGED <<allowVars, participant, proofVars>>

Register(q) ==
    \/ \E m \in Mint, w \in Wallet, viaKyc \in BOOLEAN : StartRegister(q, m, w, viaKyc)
    \/ Upsert(q) \/ LookAllowed(q) \/ AllowFails(q) \/ RecordAllow(q) \/ RegisterCrash(q)
    \/ \E known \in BOOLEAN : SendAllow(q, known)

-----------------------------------------------------------------------------
(* The passport flow.                                                      *)

RequestKycProof(w) ==
    /\ KycOn /\ w # Pool
    /\ rarimo' = [rarimo EXCEPT ![w] = [status |-> "open", proof |-> NoProof,
          upper |-> ageUpperBoundYymmdd(now, kyc.minAge)]]
    /\ UNCHANGED <<allowVars, serverVars, latest, unsigned>>

(* The owner of a passport answers the request in the RariMe app, with any *)
(* of its identities.                                                      *)
ProvePassport(w, i) ==
    /\ rarimo[w].status = "open"
    /\ CircuitAccepts(encoded_date(BirthOf(i)), rarimo[w].upper, encoded_date(now))
    /\ rarimo' = [rarimo EXCEPT ![w] =
          [status |-> "verified", upper |-> rarimo[w].upper,
           proof |-> [wallet |-> w, identity |-> i, root |-> latest,
                      date |-> encoded_date(now), upper |-> rarimo[w].upper]]]
    /\ UNCHANGED <<allowVars, serverVars, latest, unsigned>>

NewRoot ==
    /\ \E r \in Root : r > latest /\ latest' = r
    /\ UNCHANGED <<allowVars, serverVars, rarimo, unsigned>>

RarimoRootValid(r) == latest - RootLife <= r /\ r <= latest

(* The page keeps the transaction it was given until it is signed. *)
Offer(w, p) ==
    /\ Cardinality({v \in Wallet \ {w} : unsigned[v] # NoTx}) < MaxPages
    /\ unsigned' = [unsigned EXCEPT ![w] = [proof |-> p]]

(* kycTransaction: an attested wallet only needs add_allow_kyc. *)
PollAttested(m, w) ==
    /\ KycOn /\ m \in policy /\ ViewAttested(w)
    /\ Offer(w, NoProof)
    /\ UNCHANGED <<allowVars, serverVars, rarimo, latest>>

(* A verified proof: ensureRoot relays its root if the program lacks it and *)
(* Rarimo still accepts it, and the transaction carries the proof.          *)
PollVerified(m, w) ==
    LET p == rarimo[w].proof IN
    /\ KycOn /\ m \in policy /\ ~ViewAttested(w)
    /\ rarimo[w].status = "verified"
    /\ CitizenshipOf(p.identity) \notin kyc.blocked
    /\ p.root \in Accepted \/ RarimoRootValid(p.root)
    /\ PushKycRoot(kyc.admin, p.root)
    /\ Offer(w, p)
    /\ UNCHANGED <<serverVars, rarimo, latest>>

(* kyc-admin.mjs `root watch'. *)
WatchRoots ==
    /\ latest \notin Accepted
    /\ PushKycRoot(kyc.admin, latest)
    /\ UNCHANGED <<serverVars, proofVars>>

(* The wallet signs; a transaction the program refuses changes nothing. *)
SignKycTx(m, w) ==
    /\ unsigned[w] # NoTx
    /\ \/ unsigned[w].proof = NoProof /\ AddAllowKyc(m, w)
       \/ unsigned[w].proof # NoProof /\ SubmitAndAdd(m, unsigned[w].proof)
    /\ unsigned' = [unsigned EXCEPT ![w] = NoTx]
    /\ UNCHANGED <<serverVars, rarimo, latest>>

DropKycTx(w) ==
    /\ unsigned[w] # NoTx
    /\ unsigned' = [unsigned EXCEPT ![w] = NoTx]
    /\ UNCHANGED <<allowVars, serverVars, rarimo, latest>>

Passports ==
    \/ \E w \in Wallet :
          \/ RequestKycProof(w) \/ DropKycTx(w)
          \/ \E i \in Identity : ProvePassport(w, i)
          \/ \E m \in Mint : PollAttested(m, w) \/ PollVerified(m, w) \/ SignKycTx(m, w)
    \/ NewRoot \/ WatchRoots

-----------------------------------------------------------------------------
(* What Founder Stack, admins and anybody else send to the program.        *)

Administer ==
    \/ \E m \in Mint : InitializeAndAdd(m, FsAuthority, Pool)
    \/ \E m \in Mint, k \in Key :
          \/ EnableKyc(k, m)
          \/ \E w \in Wallet \ {Pool} : RemoveAllow(k, m, w)
          \/ \E new \in Key : SetAdmin(k, m, new)
    \/ \E k \in Key, p \in Policies : InitKycConfig(k, p) \/ SetKycPolicy(k, p)

Public ==
    \/ \E m \in Mint, w \in Wallet : AddAllowKyc(m, w) \/ RevokeKycAllow(m, w)
    \/ \E w \in Wallet : rarimo[w].status = "verified" /\ SubmitKycProof(rarimo[w].proof)

OnboardNext ==
    \/ \E q \in Request : Register(q)
    \/ Passports
    \/ (Administer \/ Public \/ Tick) /\ UNCHANGED <<serverVars, proofVars>>

OnboardSpec == OnboardInit /\ [][OnboardNext]_onboardVars

-----------------------------------------------------------------------------
(* Properties.                                                             *)

(* "One wallet per passport identity" (submit_kyc_proof): however many     *)
(* proofs of it are made, relayed and submitted, two wallets never hold    *)
(* attestations of the same identity.  It is not one wallet per passport,  *)
(* as docs/zk-kyc.md says: its owner may make another identity.            *)
OneIdentityOneWallet ==
    \A v, w \in Wallet :
        /\ attestation[v] # NoAttestation /\ attestation[w] # NoAttestation
        /\ attestation[v].identity = attestation[w].identity
        => v = w

(* A wallet the hook lets in is the market's vault, one whose agreement the *)
(* API recorded before it asked the program to add it (market.ts), or one   *)
(* that proved a passport for a mint that opted in.                         *)
Cause(m, w) ==
    \/ w = Pool
    \/ <<m, w>> \in added /\ participant[m][w].accepted
    \/ m \in policy /\ attestation[w] # NoAttestation

AdmittedForCause ==
    \A m \in Mint, w \in Wallet :
        Execute(m, w) => Cause(m, w)

(* A row that names an allowlist transaction (allowlistTx, shown as        *)
(* "registered") has its AllowEntry on chain: no order of look, send,      *)
(* record, kill and passport steps records one that never happened.        *)
ListedOnChain ==
    \A m \in Mint, w \in Wallet :
        participant[m][w].tx # "none" => entry[m][w] # "none"

(* A new attestation goes to someone who has the age and none of the       *)
(* blocked citizenships of the policy in force when it is written, however *)
(* old the request, the proof or the unsigned transaction it comes from,   *)
(* and whatever the two-digit years and February 29 do to the dates        *)
(* (kyc.rs birth_bound_ok).                                                *)
AttestedMeetPolicy ==
    [][\A w \in Wallet : attestation'[w] # attestation[w] =>
          /\ OfAge(BirthOf(attestation'[w].identity), now, kyc.minAge)
          /\ CitizenshipOf(attestation'[w].identity) \notin kyc.blocked]_onboardVars

=============================================================================
