----------------------------- MODULE Allowlist -----------------------------
(***************************************************************************)
(* The transfer-hook program programs/fs_allowlist: who may receive a      *)
(* mint's tokens, and how a passport proof lets a wallet admit itself.     *)
(* One action per instruction; an instruction whose checks fail changes    *)
(* nothing and is left out.                                                *)
(***************************************************************************)
EXTENDS PassportDates, Sequences, FiniteSets

CONSTANTS
    Mint, Wallet, Key,
    FsAuthority,           \* the key compiled into the program
    NoKey, NoWallet, NoAttestation,
    Passport, Country, Citizenship,   \* Citizenship[p] : country of a passport
    Birth,                            \* Birth[p] : the day its owner was born
    Identity, PassportOf,             \* Rarimo identities, and the passport each is of
    Policies,                         \* [minAge, ttl, blocked] an admin chooses from
    Root, MaxRoots,                   \* identity-state roots; KycConfig keeps MaxRoots
    DateSkew,                         \* days a proof's date may be off
    FirstDay, LastDay                 \* bounds of the clock

ASSUME AllowlistAssumption ==
    /\ FsAuthority \in Key /\ NoKey \notin Key
    /\ NoWallet \notin Wallet
    /\ Citizenship \in [Passport -> Country] /\ Birth \in [Passport -> Nat]
    /\ PassportOf \in [Identity -> Passport]
    /\ Policies \subseteq [minAge : Nat, ttl : Nat \ {0}, blocked : SUBSET Country]
    /\ MaxRoots \in Nat \ {0} /\ DateSkew \in Nat /\ FirstDay \in Nat /\ LastDay \in Nat
    /\ \A p \in Passport :   \* a passport is older than the skew, its owner under 100
          /\ Birth[p] + DateSkew < FirstDay
          /\ LastDay < Birth[p] + 36500
    /\ NoAttestation \notin [identity : Identity, expires : Nat]

VARIABLES
    config,        \* config[m] : admin of the mint's allowlist, NoKey before initialize
    entry,         \* entry[m][w] : the AllowEntry account
    policy,        \* mints that admit by passport (MintKycPolicy accounts)
    kyc,           \* the KycConfig account, without its roots
    roots,         \* KycConfig.roots, newest last
    attestation,   \* attestation[w] : the KycAttestation account
    nullifier,     \* nullifier[i] : wallet the identity is bound to
    added,         \* <<mint, wallet>> an admin ever added (history)
    now            \* the cluster clock, in days

configVars == <<config, policy, added>>
kycVars    == <<kyc, roots>>
bindVars   == <<attestation, nullifier>>
allowVars  == <<configVars, entry, kycVars, bindVars, now>>

(* A proof's public signals, its date and birth bound as passport digits:  *)
(* the circuit ties them to an identity, and event_data ties them to the   *)
(* wallet.  The nullifier is the identity's.  A passport may have several  *)
(* identities: the bounds that would single one out (timestamp_upper,      *)
(* identity_counter_upper) are the caller's and are compared with nothing. *)
Proof == [wallet : Wallet, identity : Identity, root : Root, date : Nat, upper : Nat]

CitizenshipOf(i) == Citizenship[PassportOf[i]]
BirthOf(i) == Birth[PassportOf[i]]

Attestation == [identity : Identity, expires : Nat]

AllowTypeOK ==
    /\ config \in [Mint -> Key \cup {NoKey}]
    /\ entry \in [Mint -> [Wallet -> {"none", "inactive", "active"}]]
    /\ policy \subseteq Mint
    /\ kyc \in [admin : Key \cup {NoKey}, minAge : Nat, ttl : Nat, blocked : SUBSET Country]
    /\ roots \in Seq(Root)
    /\ attestation \in [Wallet -> Attestation \cup {NoAttestation}]
    /\ nullifier \in [Identity -> Wallet \cup {NoWallet}]
    /\ added \subseteq Mint \X Wallet
    /\ now \in Nat

AllowInit ==
    /\ config = [m \in Mint |-> NoKey]
    /\ entry = [m \in Mint |-> [w \in Wallet |-> "none"]]
    /\ policy = {} /\ added = {}
    /\ kyc = [admin |-> NoKey, minAge |-> 0, ttl |-> 0, blocked |-> {}]
    /\ roots = <<>>
    /\ attestation = [w \in Wallet |-> NoAttestation]
    /\ nullifier = [i \in Identity |-> NoWallet]
    /\ now = FirstDay

-----------------------------------------------------------------------------
(* The allowlist of a mint.                                                *)

Initialize(m, admin) ==
    /\ config[m] = NoKey
    /\ config' = [config EXCEPT ![m] = admin]

(* createHookPool and initHookAllowlist send both in one transaction. *)
InitializeAndAdd(m, admin, w) ==
    /\ Initialize(m, admin)
    /\ entry' = [entry EXCEPT ![m][w] = "active"]
    /\ added' = added \cup {<<m, w>>}
    /\ UNCHANGED <<policy, kycVars, bindVars, now>>

AddAllow(k, m, w) ==
    /\ config[m] = k
    /\ entry' = [entry EXCEPT ![m][w] = "active"]
    /\ added' = added \cup {<<m, w>>}
    /\ UNCHANGED <<config, policy, kycVars, bindVars, now>>

RemoveAllow(k, m, w) ==
    /\ config[m] = k /\ entry[m][w] # "none"
    /\ entry' = [entry EXCEPT ![m][w] = "inactive"]
    /\ UNCHANGED <<configVars, kycVars, bindVars, now>>

SetAdmin(k, m, newAdmin) ==
    /\ config[m] = k
    /\ config' = [config EXCEPT ![m] = newAdmin]
    /\ UNCHANGED <<policy, added, entry, kycVars, bindVars, now>>

EnableKyc(k, m) ==
    /\ config[m] = k
    /\ policy' = policy \cup {m}
    /\ UNCHANGED <<config, added, entry, kycVars, bindVars, now>>

(* The hook: Token-2022 calls it for every transfer. *)
Execute(m, to) == config[m] # NoKey /\ entry[m][to] = "active"

-----------------------------------------------------------------------------
(* The passport policy.                                                    *)

KycOn == kyc.admin # NoKey

Policy(admin, p) ==
    [admin |-> admin, minAge |-> p.minAge, ttl |-> p.ttl, blocked |-> p.blocked]

InitKycConfig(admin, p) ==
    /\ ~KycOn
    /\ kyc' = Policy(admin, p)
    /\ roots' = <<>>
    /\ UNCHANGED <<configVars, entry, bindVars, now>>

SetKycPolicy(k, p) ==
    /\ KycOn /\ kyc.admin = k
    /\ kyc' = Policy(k, p)
    /\ UNCHANGED <<roots, configVars, entry, bindVars, now>>

Accepted == {roots[i] : i \in DOMAIN roots}

WithRoot(r) ==
    IF r \in Accepted THEN roots
    ELSE IF Len(roots) = MaxRoots THEN Append(Tail(roots), r)
    ELSE Append(roots, r)

PushKycRoot(k, r) ==
    /\ KycOn /\ kyc.admin = k
    /\ roots' = WithRoot(r)
    /\ UNCHANGED <<kyc, configVars, entry, bindVars, now>>

(* Mutant: the nullifier record is overwritten. *)
Provable_AnyWallet(p) ==
    /\ KycOn
    /\ p.root \in Accepted
    /\ CitizenshipOf(p.identity) \notin kyc.blocked
    /\ p.date \in {encoded_date(now + s) : s \in -DateSkew..DateSkew}
    /\ birth_bound_ok(p.upper, p.date, now, kyc.minAge)

(* What submit_kyc_proof requires of a proof signed for by its wallet. *)
Provable(p) ==
    /\ KycOn
    /\ p.root \in Accepted
    /\ CitizenshipOf(p.identity) \notin kyc.blocked
    /\ p.date \in {encoded_date(now + s) : s \in -DateSkew..DateSkew}
    /\ birth_bound_ok(p.upper, p.date, now, kyc.minAge)
    /\ nullifier[p.identity] \in {NoWallet, p.wallet}

Attested(p) == [identity |-> p.identity, expires |-> now + kyc.ttl]

Bind(p) ==
    /\ Provable(p)
    /\ nullifier' = [nullifier EXCEPT ![p.identity] = p.wallet]
    /\ attestation' = [attestation EXCEPT ![p.wallet] = Attested(p)]

SubmitKycProof(p) ==
    /\ Bind(p)
    /\ UNCHANGED <<configVars, entry, kycVars, now>>

(* What add_allow_kyc requires of an attestation. *)
Admissible(m, a) ==
    /\ KycOn /\ m \in policy
    /\ a # NoAttestation
    /\ a.expires > now
    /\ CitizenshipOf(a.identity) \notin kyc.blocked

AddAllowKyc(m, w) ==
    /\ Admissible(m, attestation[w])
    /\ entry' = [entry EXCEPT ![m][w] = "active"]
    /\ UNCHANGED <<configVars, kycVars, bindVars, now>>

(* Both instructions in one transaction, as the onboarding page signs it. *)
SubmitAndAdd(m, p) ==
    /\ Bind(p)
    /\ Admissible(m, Attested(p))
    /\ entry' = [entry EXCEPT ![m][p.wallet] = "active"]
    /\ UNCHANGED <<configVars, kycVars, now>>

Revocable(w) ==
    /\ attestation[w] # NoAttestation
    /\ \/ attestation[w].expires <= now
       \/ CitizenshipOf(attestation[w].identity) \in kyc.blocked

RevokeKycAllow(m, w) ==
    /\ KycOn /\ m \in policy /\ entry[m][w] # "none"
    /\ Revocable(w)
    /\ entry' = [entry EXCEPT ![m][w] = "inactive"]
    /\ UNCHANGED <<configVars, kycVars, bindVars, now>>

Tick ==
    /\ now < LastDay
    /\ now' = now + 1
    /\ UNCHANGED <<configVars, entry, kycVars, bindVars>>

=============================================================================
