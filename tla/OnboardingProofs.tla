-------------------------- MODULE OnboardingProofs --------------------------
(***************************************************************************)
(* Proofs about Onboarding, for every set of mints, wallets, passports,    *)
(* identities, policies and requests; the last one as long as the clock    *)
(* stays before the year 2100.                                             *)
(*                                                                         *)
(* The argument: an attestation is written together with the nullifier of  *)
(* its identity, which then keeps its wallet; an entry is only ever put on *)
(* the list by the vault's listing, by a handler that has recorded the     *)
(* agreement, or with an attestation; and none of these causes is ever     *)
(* taken back.  Every proof under way was accepted by the circuit on the   *)
(* date it carries, and dates grow with the days they are made from, so    *)
(* who precedes the bound precedes the cutoff of the day it is submitted.  *)
(***************************************************************************)
EXTENDS Onboarding, TLAPS

EntryTable == [Mint -> [Wallet -> {"none", "inactive", "active"}]]
RowTable   == [Mint -> [Wallet -> [accepted : BOOLEAN, tx : {"none", "listed"}]]]

(* A proof names a wallet and an identity there are. *)
Known(p) == p.wallet \in Wallet /\ p.identity \in Identity

ProofsInv ==
    /\ DOMAIN rarimo = Wallet /\ DOMAIN unsigned = Wallet
    /\ \A w \in Wallet :
          /\ rarimo[w] = [status |-> rarimo[w].status, upper |-> rarimo[w].upper, proof |-> rarimo[w].proof]
          /\ rarimo[w].status = "verified" => Known(rarimo[w].proof)
          /\ unsigned[w] # NoTx /\ unsigned[w].proof # NoProof => Known(unsigned[w].proof)

Typed ==
    /\ entry \in EntryTable
    /\ participant \in RowTable
    /\ reg \in [Request -> RegRecord \cup {NoReg}]
    /\ attestation \in [Wallet -> Attestation \cup {NoAttestation}]
    /\ nullifier \in [Identity -> Wallet \cup {NoWallet}]
    /\ kyc.ttl \in Nat /\ now \in Nat

(* An attestation's identity is bound to its wallet. *)
Bound ==
    \A w \in Wallet : attestation[w] # NoAttestation => nullifier[attestation[w].identity] = w

(* What a register handler has seen to. *)
Handler(q) ==
    /\ reg[q].pc \in {"allow", "send", "record"} => participant[reg[q].mint][reg[q].wallet].accepted
    /\ reg[q].pc = "record" \/ (reg[q].pc = "upsert" /\ reg[q].kyc) =>
          entry[reg[q].mint][reg[q].wallet] # "none"

Admitted == \A m \in Mint, w \in Wallet : entry[m][w] = "active" => Cause(m, w)

OInv ==
    /\ Typed /\ ProofsInv /\ Bound
    /\ \A q \in Request : Handler(q)
    /\ Admitted /\ ListedOnChain

-----------------------------------------------------------------------------
(* Steps that leave the API's rows and handlers alone.                     *)

(* Entries only move between active and inactive, and become active for a  *)
(* cause; causes stay.                                                     *)
LEMMA ChainStep ==
  ASSUME OInv, UNCHANGED <<participant, reg>>,
         policy \subseteq policy', added \subseteq added',
         \A w \in Wallet : attestation[w] # NoAttestation => attestation'[w] # NoAttestation,
         \A m \in Mint, w \in Wallet : entry[m][w] # "none" => entry'[m][w] # "none",
         \A m \in Mint, w \in Wallet : entry'[m][w] = "active" => entry[m][w] = "active" \/ Cause(m, w)'
  PROVE  (\A q \in Request : Handler(q)') /\ Admitted' /\ ListedOnChain'
<1>1. ASSUME NEW m \in Mint, NEW w \in Wallet, Cause(m, w)
      PROVE  Cause(m, w)'
  BY <1>1 DEF Cause
<1>2. Admitted'
  BY <1>1 DEF OInv, Admitted
<1>3. ListedOnChain'
  BY DEF OInv, ListedOnChain
<1>4. ASSUME NEW q \in Request
      PROVE  Handler(q)'
  <2>1. reg[q] \in RegRecord \/ reg[q] = NoReg
    BY DEF OInv, Typed
  <2>2. CASE reg[q] = NoReg
    BY <2>2 DEF Handler, NoReg
  <2>3. CASE reg[q] \in RegRecord
    BY <2>3 DEF OInv, Handler, RegRecord
  <2> QED
    BY <2>1, <2>2, <2>3
<1> QED
  BY <1>2, <1>3, <1>4

LEMMA QuietStep ==
  ASSUME OInv, UNCHANGED <<participant, reg, entry, attestation, nullifier>>,
         policy \subseteq policy', added \subseteq added', kyc'.ttl \in Nat, now' \in Nat, ProofsInv'
  PROVE  OInv'
<1>1. (\A q \in Request : Handler(q)') /\ Admitted' /\ ListedOnChain'
  BY ChainStep
<1> QED
  BY <1>1 DEF OInv, Typed, Bound

Written(m, w, v) == entry' = [entry EXCEPT ![m][w] = v]

LEMMA EntrySet ==
  ASSUME OInv, NEW m \in Mint, NEW w \in Wallet, NEW v \in {"inactive", "active"}, Written(m, w, v)
  PROVE  /\ entry' \in EntryTable
         /\ \A n \in Mint, x \in Wallet : entry'[n][x] = IF n = m /\ x = w THEN v ELSE entry[n][x]
<1>1. entry \in EntryTable
  BY DEF OInv, Typed
<1>2. entry[m] \in [Wallet -> {"none", "inactive", "active"}]
  BY <1>1 DEF EntryTable
<1>3. entry' = [entry EXCEPT ![m] = [entry[m] EXCEPT ![w] = v]]
  BY DEF Written
<1> DEFINE row == [entry[m] EXCEPT ![w] = v]
<1>4. row \in [Wallet -> {"none", "inactive", "active"}] /\ \A x \in Wallet : row[x] = IF x = w THEN v ELSE entry[m][x]
  BY <1>2
<1>5. entry' = [entry EXCEPT ![m] = row]
  BY <1>3
<1> HIDE DEF row
<1>6. entry' \in EntryTable /\ \A n \in Mint : entry'[n] = IF n = m THEN row ELSE entry[n]
  BY <1>1, <1>4, <1>5 DEF EntryTable
<1> QED
  BY <1>4, <1>6

(* One entry is written, for a cause if it becomes active. *)
LEMMA ListStep ==
  ASSUME OInv, NEW m \in Mint, NEW w \in Wallet, NEW v \in {"inactive", "active"}, Written(m, w, v),
         UNCHANGED <<participant, reg, attestation, nullifier, kyc, now>>,
         policy \subseteq policy', added \subseteq added',
         v = "active" => Cause(m, w)', ProofsInv'
  PROVE  OInv'
<1>1. /\ entry' \in EntryTable
      /\ \A n \in Mint, x \in Wallet : entry'[n][x] = IF n = m /\ x = w THEN v ELSE entry[n][x]
  BY EntrySet
<1>2. (\A q \in Request : Handler(q)') /\ Admitted' /\ ListedOnChain'
  <2>1. \A n \in Mint, x \in Wallet : entry[n][x] # "none" => entry'[n][x] # "none"
    BY <1>1
  <2>2. \A n \in Mint, x \in Wallet : entry'[n][x] = "active" => entry[n][x] = "active" \/ Cause(n, x)'
    BY <1>1
  <2> QED
    BY <2>1, <2>2, ChainStep
<1> QED
  BY <1>1, <1>2 DEF OInv, Typed, Bound

(* An attestation is written together with its nullifier. *)
LEMMA BindStep ==
  ASSUME OInv, NEW p, Known(p), Bind(p), kyc' = kyc, now' = now
  PROVE  /\ attestation' \in [Wallet -> Attestation \cup {NoAttestation}]
         /\ nullifier' \in [Identity -> Wallet \cup {NoWallet}]
         /\ attestation'[p.wallet] # NoAttestation
         /\ \A w \in Wallet : attestation[w] # NoAttestation => attestation'[w] # NoAttestation
         /\ Bound'
<1> DEFINE a == Attested(p)
<1>0. PICK x \in Wallet, n \in Identity : x = p.wallet /\ n = p.identity
  BY DEF Known
<1>1. a \in Attestation /\ a.identity = n
  BY <1>0 DEF Attested, Attestation, Known, OInv, Typed
<1>2. a # NoAttestation
  BY <1>1, AllowlistAssumption DEF Attestation
<1>3. /\ nullifier' = [nullifier EXCEPT ![n] = x] /\ attestation' = [attestation EXCEPT ![x] = a]
      /\ nullifier[n] \in {NoWallet, x}
  BY <1>0 DEF Bind, Provable
<1> HIDE DEF a
<1>4. /\ attestation' \in [Wallet -> Attestation \cup {NoAttestation}] /\ attestation'[x] = a
      /\ \A w \in Wallet : w # x => attestation'[w] = attestation[w]
      /\ nullifier' \in [Identity -> Wallet \cup {NoWallet}] /\ nullifier'[n] = x
      /\ \A k \in Identity : k # n => nullifier'[k] = nullifier[k]
  BY <1>1, <1>3 DEF OInv, Typed
<1>5. ASSUME NEW w \in Wallet, attestation'[w] # NoAttestation
      PROVE  nullifier'[attestation'[w].identity] = w
  <2>1. CASE w = x
    BY <1>1, <1>4, <2>1
  <2>2. CASE w # x
    <3>1. attestation'[w] = attestation[w] /\ attestation[w] \in Attestation
      BY <1>4, <1>5, <2>2 DEF OInv, Typed
    <3>2. nullifier[attestation[w].identity] = w /\ attestation[w].identity \in Identity
      BY <1>5, <3>1 DEF OInv, Bound, Attestation
    <3>3. attestation[w].identity # n
      BY <1>3, <2>2, <3>2, AllowlistAssumption
    <3> QED
      BY <1>4, <3>1, <3>2, <3>3
  <2> QED
    BY <2>1, <2>2
<1>6. Bound'
  BY <1>5 DEF Bound
<1> QED
  BY <1>0, <1>2, <1>4, <1>6

LEMMA SubmitStep ==
  ASSUME OInv, NEW p, Known(p), SubmitKycProof(p), UNCHANGED <<serverVars, proofVars>>
  PROVE  OInv'
<1>1. UNCHANGED <<participant, reg, entry, kyc, now, policy, added>> /\ Bind(p) /\ ProofsInv'
  BY DEF SubmitKycProof, configVars, kycVars, serverVars, proofVars, OInv, ProofsInv
<1>2. /\ attestation' \in [Wallet -> Attestation \cup {NoAttestation}]
      /\ nullifier' \in [Identity -> Wallet \cup {NoWallet}]
      /\ \A w \in Wallet : attestation[w] # NoAttestation => attestation'[w] # NoAttestation
      /\ Bound'
  BY <1>1, BindStep
<1>3. (\A q \in Request : Handler(q)') /\ Admitted' /\ ListedOnChain'
  BY <1>1, <1>2, ChainStep
<1> QED
  BY <1>1, <1>2, <1>3 DEF OInv, Typed

LEMMA SubmitAndAddStep ==
  ASSUME OInv, NEW m \in Mint, NEW p, Known(p), SubmitAndAdd(m, p), UNCHANGED serverVars, ProofsInv'
  PROVE  OInv'
<1>0. PICK x \in Wallet : x = p.wallet
  BY DEF Known
<1>1. /\ UNCHANGED <<participant, reg, kyc, now, policy, added>> /\ Bind(p) /\ m \in policy
      /\ Written(m, x, "active")
  BY <1>0 DEF SubmitAndAdd, Written, Admissible, configVars, kycVars, serverVars
<1>2. /\ attestation' \in [Wallet -> Attestation \cup {NoAttestation}]
      /\ nullifier' \in [Identity -> Wallet \cup {NoWallet}]
      /\ attestation'[x] # NoAttestation
      /\ \A w \in Wallet : attestation[w] # NoAttestation => attestation'[w] # NoAttestation
      /\ Bound'
  BY <1>0, <1>1, BindStep
<1>3. /\ entry' \in EntryTable
      /\ \A n \in Mint, w \in Wallet : entry'[n][w] = IF n = m /\ w = x THEN "active" ELSE entry[n][w]
  BY <1>1, EntrySet
<1>4. Cause(m, x)'
  BY <1>1, <1>2 DEF Cause
<1>5. (\A q \in Request : Handler(q)') /\ Admitted' /\ ListedOnChain'
  <2>1. \A n \in Mint, w \in Wallet : entry[n][w] # "none" => entry'[n][w] # "none"
    BY <1>3
  <2>2. \A n \in Mint, w \in Wallet : entry'[n][w] = "active" => entry[n][w] = "active" \/ Cause(n, w)'
    BY <1>3, <1>4
  <2> QED
    BY <1>1, <1>2, <2>1, <2>2, ChainStep
<1> QED
  BY <1>1, <1>2, <1>3, <1>5 DEF OInv, Typed

LEMMA AddKycStep ==
  ASSUME OInv, NEW m \in Mint, NEW w \in Wallet, AddAllowKyc(m, w), UNCHANGED serverVars, ProofsInv'
  PROVE  OInv'
<1>1. /\ UNCHANGED <<participant, reg, attestation, nullifier, kyc, now, policy, added>>
      /\ m \in policy /\ attestation[w] # NoAttestation /\ Written(m, w, "active")
  BY DEF AddAllowKyc, Written, Admissible, configVars, kycVars, bindVars, serverVars
<1>2. Cause(m, w)'
  BY <1>1 DEF Cause
<1> QED
  BY <1>1, <1>2, ListStep

-----------------------------------------------------------------------------
(* Register handlers.                                                      *)

LEMMA RegRow ==
  ASSUME OInv, NEW q \in Request, reg[q].pc # "idle"
  PROVE  /\ reg[q] \in RegRecord /\ reg[q].mint \in Mint /\ reg[q].wallet \in Wallet
         /\ Handler(q)
<1>1. reg[q] \in RegRecord \/ reg[q] = NoReg
  BY DEF OInv, Typed
<1>2. reg[q] \in RegRecord
  BY <1>1 DEF NoReg
<1> QED
  BY <1>2 DEF RegRecord, OInv

(* One handler moves and nothing else does. *)
LEMMA RegMove ==
  ASSUME OInv, NEW q \in Request, NEW row \in RegRecord \cup {NoReg}, reg' = [reg EXCEPT ![q] = row],
         UNCHANGED <<allowVars, participant, proofVars>>, Handler(q)'
  PROVE  OInv'
<1>1. UNCHANGED <<entry, attestation, nullifier, kyc, now, policy, added, rarimo, unsigned>>
  BY DEF allowVars, configVars, kycVars, bindVars, proofVars
<1>2. reg' \in [Request -> RegRecord \cup {NoReg}] /\ \A r \in Request : r # q => reg'[r] = reg[r]
  BY DEF OInv, Typed
<1>3. \A r \in Request : Handler(r)'
  BY <1>1, <1>2 DEF OInv, Handler
<1> QED
  BY <1>1, <1>2, <1>3 DEF OInv, Typed, ProofsInv, Bound, Admitted, ListedOnChain, Cause

LEMMA Answers ==
  ASSUME OInv, NEW q \in Request, Return(q), UNCHANGED <<allowVars, participant, proofVars>>
  PROVE  OInv'
<1>1. reg' = [reg EXCEPT ![q] = NoReg] /\ reg'[q] = NoReg
  BY DEF Return, OInv, Typed
<1>2. Handler(q)'
  BY <1>1 DEF Handler, NoReg
<1> QED
  BY <1>1, <1>2, RegMove

LEMMA Goes ==
  ASSUME OInv, NEW q \in Request, reg[q].pc # "idle", NEW label \in {"allow", "send", "record"}, RegGoto(q, label)
  PROVE  /\ [reg[q] EXCEPT !.pc = label] \in RegRecord
         /\ reg' = [reg EXCEPT ![q] = [reg[q] EXCEPT !.pc = label]]
         /\ reg'[q].pc = label /\ reg'[q].mint = reg[q].mint /\ reg'[q].wallet = reg[q].wallet
         /\ reg'[q].kyc = reg[q].kyc
         /\ reg' \in [Request -> RegRecord \cup {NoReg}] /\ \A r \in Request : r # q => reg'[r] = reg[r]
<1>1. reg[q] \in RegRecord
  BY RegRow
<1> DEFINE row == [reg[q] EXCEPT !.pc = label]
<1>2. /\ row \in RegRecord /\ row.pc = label /\ row.mint = reg[q].mint /\ row.wallet = reg[q].wallet
      /\ row.kyc = reg[q].kyc
  BY <1>1 DEF RegRecord
<1>3. reg' = [reg EXCEPT ![q] = row]
  BY DEF RegGoto
<1> HIDE DEF row
<1>4. reg'[q] = row /\ reg' \in [Request -> RegRecord \cup {NoReg}] /\ \A r \in Request : r # q => reg'[r] = reg[r]
  BY <1>2, <1>3 DEF OInv, Typed
<1> QED
  BY <1>2, <1>3, <1>4 DEF row

LEMMA StartStep ==
  ASSUME OInv, NEW q \in Request, NEW m \in Mint, NEW w \in Wallet, NEW viaKyc \in BOOLEAN,
         StartRegister(q, m, w, viaKyc)
  PROVE  OInv'
<1> DEFINE row == [pc |-> "upsert", mint |-> m, wallet |-> w, kyc |-> viaKyc]
<1>1. /\ reg' = [reg EXCEPT ![q] = row] /\ UNCHANGED <<allowVars, participant, proofVars>>
      /\ viaKyc => entry[m][w] = "active"
  BY DEF StartRegister, KycAllowed
<1>2. row \in RegRecord
  BY DEF RegRecord
<1>3. reg'[q] = row /\ entry' = entry
  BY <1>1 DEF OInv, Typed, allowVars
<1>4. Handler(q)'
  BY <1>1, <1>3 DEF Handler
<1> QED
  BY <1>1, <1>2, <1>4, RegMove

LEMMA LookStep ==
  ASSUME OInv, NEW q \in Request, LookAllowed(q)
  PROVE  OInv'
<1>1. reg[q].pc = "allow" /\ UNCHANGED <<allowVars, participant, proofVars>> /\ entry' = entry
  BY DEF LookAllowed, allowVars
<1>2. PICK label \in {"send", "record"} :
          RegGoto(q, label) /\ (label = "record" => entry[reg[q].mint][reg[q].wallet] = "active")
  BY DEF LookAllowed
<1>3. /\ [reg[q] EXCEPT !.pc = label] \in RegRecord /\ reg' = [reg EXCEPT ![q] = [reg[q] EXCEPT !.pc = label]]
      /\ reg'[q].pc = label /\ reg'[q].mint = reg[q].mint /\ reg'[q].wallet = reg[q].wallet
  BY <1>1, <1>2, Goes
<1>4. Handler(q)'
  BY <1>1, <1>2, <1>3, RegRow DEF Handler
<1> QED
  BY <1>1, <1>3, <1>4, RegMove

(* A participant row is written. *)
ParticipantRow == [accepted : BOOLEAN, tx : {"none", "listed"}]

RowWritten(m, w, new) == participant' = [participant EXCEPT ![m] = [participant[m] EXCEPT ![w] = new]]

LEMMA RowSet ==
  ASSUME OInv, NEW m \in Mint, NEW w \in Wallet, NEW new \in ParticipantRow, RowWritten(m, w, new)
  PROVE  /\ participant' \in RowTable /\ participant'[m][w] = new
         /\ \A n \in Mint, x \in Wallet : n # m \/ x # w => participant'[n][x] = participant[n][x]
<1>1. participant \in [Mint -> [Wallet -> ParticipantRow]]
  BY DEF OInv, Typed, RowTable, ParticipantRow
<1>2. participant[m] \in [Wallet -> ParticipantRow]
  BY <1>1
<1> DEFINE row == [participant[m] EXCEPT ![w] = new]
<1>3. row \in [Wallet -> ParticipantRow] /\ row[w] = new /\ \A x \in Wallet : x # w => row[x] = participant[m][x]
  BY <1>2
<1>4. participant' = [participant EXCEPT ![m] = row]
  BY DEF RowWritten
<1> HIDE DEF row
<1>5. /\ participant' \in [Mint -> [Wallet -> ParticipantRow]] /\ participant'[m] = row
      /\ \A n \in Mint : n # m => participant'[n] = participant[n]
  BY <1>1, <1>3, <1>4
<1> QED
  BY <1>3, <1>5 DEF RowTable, ParticipantRow

LEMMA OldRow ==
  ASSUME OInv, NEW m \in Mint, NEW w \in Wallet
  PROVE  participant[m][w] \in ParticipantRow
BY DEF OInv, Typed, RowTable, ParticipantRow

(* A handler writes its row, and the acceptance in it stays.               *)
LEMMA RowStep ==
  ASSUME OInv, NEW q \in Request, reg[q].pc # "idle", NEW m, m = reg[q].mint, NEW w, w = reg[q].wallet,
         NEW new \in ParticipantRow, RowWritten(m, w, new), participant[m][w].accepted => new.accepted,
         new.tx # "none" => entry[m][w] # "none",
         UNCHANGED <<allowVars, proofVars>>,
         reg' \in [Request -> RegRecord \cup {NoReg}], \A r \in Request : r # q => reg'[r] = reg[r],
         Handler(q)'
  PROVE  OInv'
<1>1. m \in Mint /\ w \in Wallet
  BY RegRow
<1>2. /\ participant' \in RowTable /\ participant'[m][w] = new
      /\ \A n \in Mint, x \in Wallet : n # m \/ x # w => participant'[n][x] = participant[n][x]
  BY <1>1, RowSet
<1>3. UNCHANGED <<entry, attestation, nullifier, kyc, now, policy, added, rarimo, unsigned>>
  BY DEF allowVars, configVars, kycVars, bindVars, proofVars
<1>4. \A n \in Mint, x \in Wallet : participant[n][x].accepted => participant'[n][x].accepted
  BY <1>2
<1>5. ASSUME NEW r \in Request, r # q
      PROVE  Handler(r)'
  <2>1. reg'[r] = reg[r]
    BY <1>5
  <2>2. CASE reg[r].pc = "idle"
    BY <2>1, <2>2 DEF Handler
  <2>3. CASE reg[r].pc # "idle"
    <3>1. Handler(r) /\ reg[r].mint \in Mint /\ reg[r].wallet \in Wallet
      BY <2>3, RegRow
    <3> QED
      BY <1>3, <1>4, <2>1, <3>1 DEF Handler
  <2> QED
    BY <2>2, <2>3
<1>6. Admitted'
  BY <1>3, <1>4 DEF OInv, Admitted, Cause
<1>7. ListedOnChain'
  BY <1>2, <1>3 DEF OInv, ListedOnChain
<1> QED
  BY <1>2, <1>3, <1>5, <1>6, <1>7 DEF OInv, Typed, ProofsInv, Bound

LEMMA UpsertStep ==
  ASSUME OInv, NEW q \in Request, Upsert(q)
  PROVE  OInv'
<1>0. PICK m, w : m = reg[q].mint /\ w = reg[q].wallet
  OBVIOUS
<1> DEFINE new == [participant[m][w] EXCEPT !.accepted = TRUE]
<1>1. /\ reg[q].pc = "upsert" /\ UNCHANGED <<allowVars, proofVars>>
      /\ RowWritten(m, w, new)
      /\ Return(q) \/ RegGoto(q, IF reg[q].kyc THEN "record" ELSE "allow")
  BY <1>0 DEF Upsert, RowWritten
<1>2. m \in Mint /\ w \in Wallet /\ Handler(q)
  BY <1>0, <1>1, RegRow
<1>3. new \in ParticipantRow /\ new.accepted /\ new.tx = participant[m][w].tx
  BY <1>2, OldRow DEF ParticipantRow
<1>4. new.tx # "none" => entry[m][w] # "none"
  BY <1>2, <1>3 DEF OInv, ListedOnChain
<1> HIDE DEF new
<1>5. participant'[m][w] = new /\ entry' = entry
  BY <1>1, <1>2, <1>3, RowSet DEF allowVars
<1>6. CASE Return(q)
  <2>1. /\ reg'[q] = NoReg /\ reg' \in [Request -> RegRecord \cup {NoReg}]
        /\ \A r \in Request : r # q => reg'[r] = reg[r]
    BY <1>6 DEF Return, OInv, Typed
  <2>2. Handler(q)'
    BY <2>1 DEF Handler, NoReg
  <2> QED
    BY <1>0, <1>1, <1>3, <1>4, <2>1, <2>2, RowStep
<1>7. ASSUME NEW label \in {"record", "allow"}, RegGoto(q, label), label = "record" => reg[q].kyc
      PROVE  OInv'
  <2>1. /\ reg' \in [Request -> RegRecord \cup {NoReg}] /\ \A r \in Request : r # q => reg'[r] = reg[r]
        /\ reg'[q].pc = label /\ reg'[q].mint = m /\ reg'[q].wallet = w
    BY <1>0, <1>1, <1>7, Goes
  <2>2. Handler(q)'
    BY <1>0, <1>1, <1>2, <1>3, <1>5, <1>7, <2>1 DEF Handler
  <2> QED
    BY <1>0, <1>1, <1>3, <1>4, <2>1, <2>2, RowStep
<1> QED
  BY <1>1, <1>6, <1>7

LEMMA RecordStep ==
  ASSUME OInv, NEW q \in Request, RecordAllow(q)
  PROVE  OInv'
<1>0. PICK m, w : m = reg[q].mint /\ w = reg[q].wallet
  OBVIOUS
<1> DEFINE new == [participant[m][w] EXCEPT !.tx = "listed"]
<1>1. /\ reg[q].pc = "record" /\ UNCHANGED <<allowVars, proofVars>>
      /\ RowWritten(m, w, new) /\ Return(q)
  BY <1>0 DEF RecordAllow, RowWritten
<1>2. m \in Mint /\ w \in Wallet /\ Handler(q)
  BY <1>0, <1>1, RegRow
<1>3. new \in ParticipantRow /\ new.accepted = participant[m][w].accepted
  BY <1>2, OldRow DEF ParticipantRow
<1>4. entry[m][w] # "none"
  BY <1>0, <1>1, <1>2 DEF Handler
<1> HIDE DEF new
<1>5. /\ reg'[q] = NoReg /\ reg' \in [Request -> RegRecord \cup {NoReg}]
      /\ \A r \in Request : r # q => reg'[r] = reg[r]
  BY <1>1 DEF Return, OInv, Typed
<1>6. Handler(q)'
  BY <1>5 DEF Handler, NoReg
<1> QED
  BY <1>0, <1>1, <1>3, <1>4, <1>5, <1>6, RowStep

(* The handler adds a wallet whose agreement it has recorded.              *)
LEMMA SendStep ==
  ASSUME OInv, NEW q \in Request, NEW known \in BOOLEAN, SendAllow(q, known)
  PROVE  OInv'
<1>0. PICK m, w : m = reg[q].mint /\ w = reg[q].wallet
  OBVIOUS
<1>1. /\ reg[q].pc = "send" /\ Written(m, w, "active") /\ added' = added \cup {<<m, w>>}
      /\ UNCHANGED <<policy, kyc, now, attestation, nullifier, participant, rarimo, unsigned>>
      /\ RegGoto(q, "record") \/ Return(q)
  BY <1>0 DEF SendAllow, AddAllow, Written, kycVars, bindVars, proofVars
<1>2. m \in Mint /\ w \in Wallet /\ participant[m][w].accepted
  BY <1>0, <1>1, RegRow DEF Handler
<1>3. /\ entry' \in EntryTable
      /\ \A n \in Mint, x \in Wallet : entry'[n][x] = IF n = m /\ x = w THEN "active" ELSE entry[n][x]
  BY <1>1, <1>2, EntrySet
<1>4. /\ reg' \in [Request -> RegRecord \cup {NoReg}] /\ \A r \in Request : r # q => reg'[r] = reg[r]
      /\ Handler(q)'
  <2>1. CASE RegGoto(q, "record")
    BY <1>0, <1>1, <1>2, <1>3, <2>1, Goes DEF Handler
  <2>2. CASE Return(q)
    BY <2>2 DEF Return, OInv, Typed, Handler, NoReg
  <2> QED
    BY <1>1, <2>1, <2>2
<1>5. ASSUME NEW r \in Request, r # q
      PROVE  Handler(r)'
  <2>1. reg'[r] = reg[r]
    BY <1>4, <1>5
  <2>2. CASE reg[r].pc = "idle"
    BY <2>1, <2>2 DEF Handler
  <2>3. CASE reg[r].pc # "idle"
    <3>1. Handler(r) /\ reg[r].mint \in Mint /\ reg[r].wallet \in Wallet
      BY <2>3, RegRow
    <3> QED
      BY <1>1, <1>3, <2>1, <3>1 DEF Handler
  <2> QED
    BY <2>2, <2>3
<1>6. Admitted'
  <2>1. ASSUME NEW n \in Mint, NEW x \in Wallet, Cause(n, x)
        PROVE  Cause(n, x)'
    BY <1>1, <2>1 DEF Cause
  <2>2. Cause(m, w)'
    BY <1>1, <1>2 DEF Cause
  <2> QED
    BY <1>3, <2>1, <2>2 DEF OInv, Admitted
<1>7. ListedOnChain'
  BY <1>1, <1>3 DEF OInv, ListedOnChain
<1> QED
  BY <1>1, <1>3, <1>4, <1>5, <1>6, <1>7 DEF OInv, Typed, ProofsInv, Bound

LEMMA RegisterStep ==
  ASSUME OInv, NEW q \in Request, Register(q)
  PROVE  OInv'
<1>1. CASE AllowFails(q) \/ RegisterCrash(q)
  BY <1>1, Answers DEF AllowFails, RegisterCrash
<1> QED
  BY <1>1, StartStep, UpsertStep, LookStep, RecordStep, SendStep DEF Register

-----------------------------------------------------------------------------
(* The passport flow.                                                      *)

(* Every step of it changes at most these; roots do not matter here.       *)
OnlyProofs == UNCHANGED <<participant, reg, entry, attestation, nullifier, policy, added, kyc, now>>

LEMMA ProofStep ==
  ASSUME OInv, OnlyProofs, ProofsInv'
  PROVE  OInv'
BY QuietStep DEF OnlyProofs, OInv, Typed

LEMMA OfferStep ==
  ASSUME OInv, NEW w \in Wallet, NEW t, unsigned' = [unsigned EXCEPT ![w] = t], rarimo' = rarimo,
         t # NoTx /\ t.proof # NoProof => Known(t.proof)
  PROVE  ProofsInv'
BY DEF OInv, ProofsInv

LEMMA RequestStep ==
  ASSUME OInv, NEW w \in Wallet, RequestKycProof(w)
  PROVE  OInv'
<1> DEFINE new == [status |-> "open", proof |-> NoProof, upper |-> ageUpperBoundYymmdd(now, kyc.minAge)]
<1>1. rarimo' = [rarimo EXCEPT ![w] = new] /\ unsigned' = unsigned /\ OnlyProofs
  BY DEF RequestKycProof, OnlyProofs, allowVars, configVars, kycVars, bindVars, serverVars
<1>2. new = [status |-> new.status, upper |-> new.upper, proof |-> new.proof] /\ new.status = "open"
  OBVIOUS
<1> HIDE DEF new
<1>3. ProofsInv'
  BY <1>1, <1>2 DEF OInv, ProofsInv
<1> QED
  BY <1>1, <1>3, ProofStep

LEMMA ProveStep ==
  ASSUME OInv, NEW w \in Wallet, NEW i \in Identity, ProvePassport(w, i)
  PROVE  OInv'
<1> DEFINE proof == [wallet |-> w, identity |-> i, root |-> latest, date |-> encoded_date(now),
                     upper |-> rarimo[w].upper]
           new == [status |-> "verified", upper |-> rarimo[w].upper, proof |-> proof]
<1>1. rarimo' = [rarimo EXCEPT ![w] = new] /\ unsigned' = unsigned /\ OnlyProofs
  BY DEF ProvePassport, OnlyProofs, allowVars, configVars, kycVars, bindVars, serverVars
<1>2. Known(proof)
  BY DEF Known
<1> HIDE DEF proof
<1>3. new = [status |-> new.status, upper |-> new.upper, proof |-> new.proof] /\ new.proof = proof
  OBVIOUS
<1> HIDE DEF new
<1>4. ProofsInv'
  BY <1>1, <1>2, <1>3 DEF OInv, ProofsInv
<1> QED
  BY <1>1, <1>4, ProofStep

LEMMA PollStep ==
  ASSUME OInv, NEW m \in Mint, NEW w \in Wallet, PollAttested(m, w) \/ PollVerified(m, w)
  PROVE  OInv'
<1>1. OnlyProofs /\ rarimo' = rarimo
  BY DEF PollAttested, PollVerified, PushKycRoot, OnlyProofs, allowVars, configVars, kycVars, bindVars, serverVars
<1>2. PICK p : unsigned' = [unsigned EXCEPT ![w] = [proof |-> p]] /\ (p # NoProof => Known(p))
  BY DEF PollAttested, PollVerified, Offer, OInv, ProofsInv
<1>3. ProofsInv'
  BY <1>1, <1>2, OfferStep
<1> QED
  BY <1>1, <1>3, ProofStep

LEMMA SignStep ==
  ASSUME OInv, NEW m \in Mint, NEW w \in Wallet, SignKycTx(m, w)
  PROVE  OInv'
<1>1. /\ unsigned[w] # NoTx /\ unsigned' = [unsigned EXCEPT ![w] = NoTx]
      /\ UNCHANGED serverVars /\ rarimo' = rarimo
      /\ AddAllowKyc(m, w) \/ (unsigned[w].proof # NoProof /\ SubmitAndAdd(m, unsigned[w].proof))
  BY DEF SignKycTx
<1>2. ProofsInv'
  BY <1>1, OfferStep
<1>3. PICK p : p = unsigned[w].proof
  OBVIOUS
<1>4. p # NoProof => Known(p)
  BY <1>1, <1>3 DEF OInv, ProofsInv
<1> QED
  BY <1>1, <1>2, <1>3, <1>4, AddKycStep, SubmitAndAddStep

LEMMA PassportStep ==
  ASSUME OInv, Passports
  PROVE  OInv'
<1>1. ASSUME NEW w \in Wallet, DropKycTx(w)
      PROVE  OInv'
  <2>1. OnlyProofs /\ rarimo' = rarimo /\ unsigned' = [unsigned EXCEPT ![w] = NoTx]
    BY <1>1 DEF DropKycTx, OnlyProofs, allowVars, configVars, kycVars, bindVars, serverVars
  <2> QED
    BY <2>1, OfferStep, ProofStep
<1>2. CASE NewRoot \/ WatchRoots
  <2>1. OnlyProofs /\ UNCHANGED <<rarimo, unsigned>>
    BY <1>2 DEF NewRoot, WatchRoots, PushKycRoot, OnlyProofs, allowVars, configVars, kycVars, bindVars,
                serverVars, proofVars
  <2> QED
    BY <2>1, ProofStep DEF OInv, ProofsInv
<1> QED
  BY <1>1, <1>2, RequestStep, ProveStep, PollStep, SignStep DEF Passports

-----------------------------------------------------------------------------
(* Admins and anybody else.                                                *)

LEMMA AdministerStep ==
  ASSUME OInv, Administer, UNCHANGED <<serverVars, proofVars>>
  PROVE  OInv'
<1>1. UNCHANGED <<participant, reg>> /\ ProofsInv'
  BY DEF serverVars, proofVars, OInv, ProofsInv
<1>2. ASSUME NEW m \in Mint, InitializeAndAdd(m, FsAuthority, Pool)
      PROVE  OInv'
  <2>1. /\ Written(m, Pool, "active") /\ added \subseteq added'
        /\ UNCHANGED <<policy, kyc, now, attestation, nullifier>> /\ Pool \in Wallet
    BY <1>2, OnboardingAssumption DEF InitializeAndAdd, Written, kycVars, bindVars
  <2>2. Cause(m, Pool)'
    BY DEF Cause
  <2> QED
    BY <1>1, <2>1, <2>2, ListStep
<1>3. ASSUME NEW m \in Mint, NEW k \in Key, NEW w \in Wallet, RemoveAllow(k, m, w)
      PROVE  OInv'
  <2>1. Written(m, w, "inactive") /\ UNCHANGED <<policy, added, kyc, now, attestation, nullifier>>
    BY <1>3 DEF RemoveAllow, Written, configVars, kycVars, bindVars
  <2> QED
    BY <1>1, <2>1, ListStep
<1>4. ASSUME NEW m \in Mint, NEW k \in Key, NEW new \in Key, EnableKyc(k, m) \/ SetAdmin(k, m, new)
      PROVE  OInv'
  <2>1. policy \subseteq policy' /\ UNCHANGED <<added, entry, kyc, now, attestation, nullifier>>
    BY <1>4 DEF EnableKyc, SetAdmin, kycVars, bindVars
  <2> QED
    BY <1>1, <2>1, QuietStep DEF OInv, Typed
<1>5. ASSUME NEW k \in Key, NEW p \in Policies, InitKycConfig(k, p) \/ SetKycPolicy(k, p)
      PROVE  OInv'
  <2>1. UNCHANGED <<policy, added, entry, now, attestation, nullifier>> /\ kyc' = Policy(k, p)
    BY <1>5 DEF InitKycConfig, SetKycPolicy, configVars, bindVars
  <2>2. kyc'.ttl \in Nat
    BY <2>1, AllowlistAssumption DEF Policy
  <2> QED
    BY <1>1, <2>1, <2>2, QuietStep DEF OInv, Typed
<1> QED
  BY <1>2, <1>3, <1>4, <1>5 DEF Administer

LEMMA PublicStep ==
  ASSUME OInv, Public \/ Tick, UNCHANGED <<serverVars, proofVars>>
  PROVE  OInv'
<1>1. UNCHANGED <<participant, reg>> /\ UNCHANGED serverVars /\ ProofsInv'
  BY DEF serverVars, proofVars, OInv, ProofsInv
<1>2. ASSUME NEW m \in Mint, NEW w \in Wallet, RevokeKycAllow(m, w)
      PROVE  OInv'
  <2>1. Written(m, w, "inactive") /\ UNCHANGED <<policy, added, kyc, now, attestation, nullifier>>
    BY <1>2 DEF RevokeKycAllow, Written, configVars, kycVars, bindVars
  <2> QED
    BY <1>1, <2>1, ListStep
<1>3. ASSUME NEW w \in Wallet, rarimo[w].status = "verified", SubmitKycProof(rarimo[w].proof)
      PROVE  OInv'
  <2>1. PICK p : p = rarimo[w].proof
    OBVIOUS
  <2>2. Known(p)
    BY <1>3, <2>1 DEF OInv, ProofsInv
  <2> QED
    BY <1>3, <2>1, <2>2, SubmitStep
<1>4. CASE Tick
  <2>1. UNCHANGED <<policy, added, entry, kyc, attestation, nullifier>> /\ now' \in Nat
    BY <1>4 DEF Tick, configVars, kycVars, bindVars, OInv, Typed
  <2> QED
    BY <1>1, <2>1, QuietStep DEF OInv, Typed
<1> QED
  BY <1>1, <1>2, <1>3, <1>4, AddKycStep DEF Public

-----------------------------------------------------------------------------
LEMMA InitInv == OnboardInit => OInv
<1> SUFFICES ASSUME OnboardInit
             PROVE  OInv
  OBVIOUS
<1>1. ProofsInv
  BY DEF OnboardInit, ProofsInv, NoRequest
<1>2. Typed
  BY AllowlistAssumption DEF OnboardInit, AllowInit, Typed, EntryTable, RowTable, NoRow
<1> QED
  BY <1>1, <1>2 DEF OnboardInit, AllowInit, OInv, Bound, Handler, NoReg, Admitted, ListedOnChain, NoRow

LEMMA StepInv == OInv /\ [OnboardNext]_onboardVars => OInv'
<1> SUFFICES ASSUME OInv, [OnboardNext]_onboardVars
             PROVE  OInv'
  OBVIOUS
<1>1. CASE UNCHANGED onboardVars
  BY <1>1 DEF onboardVars, allowVars, configVars, kycVars, bindVars, serverVars, proofVars, OInv, Typed,
              ProofsInv, Bound, Handler, Admitted, Cause, ListedOnChain
<1> QED
  BY <1>1, RegisterStep, PassportStep, AdministerStep, PublicStep DEF OnboardNext

LEMMA Invariant == OnboardSpec => []OInv
BY InitInv, StepInv, PTL DEF OnboardSpec

(* Two wallets never hold attestations of one identity, however many       *)
(* proofs of it are made, relayed and submitted, and however many          *)
(* identities a passport has.                                              *)
THEOREM OneIdentity == OnboardSpec => []OneIdentityOneWallet
<1>1. OInv => OneIdentityOneWallet
  BY DEF OInv, Bound, OneIdentityOneWallet
<1> QED
  BY <1>1, Invariant, PTL

(* The hook lets in the vault, wallets whose agreement was recorded first, *)
(* and wallets that proved a passport for a mint that opted in.            *)
THEOREM ForCause == OnboardSpec => []AdmittedForCause
<1>1. OInv => AdmittedForCause
  BY DEF OInv, Admitted, AdmittedForCause, Execute
<1> QED
  BY <1>1, Invariant, PTL

(* A row that names an allowlist transaction has its entry on chain.       *)
THEOREM Listed == OnboardSpec => []ListedOnChain
<1>1. OInv => ListedOnChain
  BY DEF OInv
<1> QED
  BY <1>1, Invariant, PTL

-----------------------------------------------------------------------------
(* Dates with two digits for the year.                                     *)

(* The parts of civil_from_unix: the year in an era of 400 years, which    *)
(* begins on a March 1, the day of that year, its month and day.           *)
EraYear(e)   == (e - e \div 1460 + e \div 36524 - e \div 146096) \div 365
YearDay(e)   == e - (365 * EraYear(e) + EraYear(e) \div 4 - EraYear(e) \div 100)
YearMonth(n) == (5 * n + 2) \div 153
MonthDay(n)  == n - (153 * YearMonth(n) + 2) \div 5 + 1

(* A year has 365 or 366 days, an era 400 years. *)
LEMMA YearParts ==
  ASSUME NEW e \in Int, 0 <= e, e <= 146096
  PROVE  /\ EraYear(e) \in Int /\ 0 <= EraYear(e) /\ EraYear(e) <= 399
         /\ YearDay(e) \in Int /\ 0 <= YearDay(e) /\ YearDay(e) <= 365
<1>1. PICK k \in Int : k = e \div 1460 /\ 1460 * k <= e /\ e < 1460 * k + 1460
  BY SMT
<1>2. PICK c \in Int : c = e \div 36524 /\ 36524 * c <= e /\ e < 36524 * c + 36524
  BY SMT
<1>3. PICK q \in Int : q = e \div 146096 /\ 146096 * q <= e /\ e < 146096 * q + 146096
  BY SMT
<1>4. PICK y \in Int : /\ y = (e - k + c - q) \div 365
                      /\ 365 * y <= e - k + c - q /\ e - k + c - q < 365 * y + 365
  BY SMT
<1>5. PICK f \in Int : f = y \div 4 /\ 4 * f <= y /\ y < 4 * f + 4
  BY SMT
<1>6. PICK h \in Int : h = y \div 100 /\ 100 * h <= y /\ y < 100 * h + 100
  BY SMT
<1>7. EraYear(e) = y
  BY SMT, <1>1, <1>2, <1>3, <1>4 DEF EraYear
<1>8. YearDay(e) = e - (365 * y + f - h)
  BY SMT, <1>5, <1>6, <1>7 DEF YearDay
<1>9. 0 <= y
  BY SMT, <1>1, <1>2, <1>3, <1>4
<1>10. y <= 399
  BY SMT, <1>1, <1>2, <1>3, <1>4
<1>11. 365 * y + f - h <= e
  BY SMT, <1>1, <1>2, <1>3, <1>4, <1>5, <1>6
<1>12. e <= 365 * y + f - h + 365
  BY SMT, <1>1, <1>2, <1>3, <1>4, <1>5, <1>6
<1> QED
  BY SMT, <1>7, <1>8, <1>9, <1>10, <1>11, <1>12

LEMMA YearGrows ==
  ASSUME NEW a \in Int, 0 <= a, NEW b \in Int, a < b, b <= 146096
  PROVE  EraYear(a) <= EraYear(b)
<1>1. PICK ka \in Int : ka = a \div 1460 /\ 1460 * ka <= a /\ a < 1460 * ka + 1460
  BY SMT
<1>2. PICK kb \in Int : kb = b \div 1460 /\ 1460 * kb <= b /\ b < 1460 * kb + 1460
  BY SMT
<1>3. PICK ca \in Int : ca = a \div 36524 /\ 36524 * ca <= a /\ a < 36524 * ca + 36524
  BY SMT
<1>4. PICK cb \in Int : cb = b \div 36524 /\ 36524 * cb <= b /\ b < 36524 * cb + 36524
  BY SMT
<1>5. PICK qa \in Int : qa = a \div 146096 /\ 146096 * qa <= a /\ a < 146096 * qa + 146096
  BY SMT
<1>6. PICK qb \in Int : qb = b \div 146096 /\ 146096 * qb <= b /\ b < 146096 * qb + 146096
  BY SMT
<1>7. EraYear(a) = (a - ka + ca - qa) \div 365 /\ EraYear(b) = (b - kb + cb - qb) \div 365
  BY SMT, <1>1, <1>2, <1>3, <1>4, <1>5, <1>6 DEF EraYear
<1>8. kb - ka <= b - a
  BY SMT, <1>1, <1>2
<1>9. cb >= ca
  BY SMT, <1>3, <1>4
<1>10. qb - qa <= cb - ca
  BY SMT, <1>3, <1>4, <1>5, <1>6
<1>11. a - ka + ca - qa <= b - kb + cb - qb
  BY SMT, <1>8, <1>9, <1>10
<1>12. ASSUME NEW m \in Int, NEW n \in Int, m <= n PROVE m \div 365 <= n \div 365
  BY SMT, <1>12
<1> QED
  BY SMT, <1>7, <1>11, <1>12

LEMMA MonthParts ==
  ASSUME NEW n \in Int, 0 <= n, n <= 365
  PROVE  /\ YearMonth(n) \in Int /\ 0 <= YearMonth(n) /\ YearMonth(n) <= 11
         /\ MonthDay(n) \in Int /\ 1 <= MonthDay(n) /\ MonthDay(n) <= 31
BY SMT DEF YearMonth, MonthDay

LEMMA MonthGrows ==
  ASSUME NEW a \in Int, 0 <= a, NEW b \in Int, a < b, b <= 365
  PROVE  YearMonth(a) <= YearMonth(b)
BY SMT DEF YearMonth

(* The parts of a day, as numbers. *)
DayIs(day, era, e, y, n, m) ==
    /\ 0 <= e /\ e <= 146096 /\ day + 719468 = 146097 * era + e
    /\ y = EraYear(e) /\ 0 <= y /\ y <= 399
    /\ n = YearDay(e) /\ 0 <= n /\ n <= 365
    /\ m = YearMonth(n) /\ 0 <= m /\ m <= 11

DateIs(t, year, month, day) ==
    /\ t.y = year /\ t.m = month /\ t.d = day
    /\ 1 <= month /\ month <= 12 /\ 1 <= day /\ day <= 31

LEMMA DayParts ==
  ASSUME NEW day \in Int, 0 <= day
  PROVE  \E era \in Int, e \in Int, y \in Int, n \in Int, m \in Int, Y \in Int, M \in Int, D \in Int :
            /\ DayIs(day, era, e, y, n, m)
            /\ DateIs(civil_from_unix(day), Y, M, D)
            /\ 12 * Y + M = 12 * (y + era * 400) + m + 3 /\ D = MonthDay(n)
<1>1. PICK era \in Int : era = (day + 719468) \div 146097
  BY SMT
<1>2. PICK e \in Int : e = (day + 719468) % 146097 /\ 0 <= e /\ e <= 146096 /\ day + 719468 = 146097 * era + e
  BY SMT, <1>1
<1>3. PICK y \in Int : y = EraYear(e) /\ 0 <= y /\ y <= 399
  BY SMT, <1>2, YearParts
<1>4. PICK n \in Int : n = YearDay(e) /\ 0 <= n /\ n <= 365
  BY SMT, <1>2, YearParts
<1>5. PICK m \in Int : m = YearMonth(n) /\ 0 <= m /\ m <= 11
  BY SMT, <1>4, MonthParts
<1> DEFINE month == IF m < 10 THEN m + 3 ELSE m - 9
           year == IF month <= 2 THEN y + era * 400 + 1 ELSE y + era * 400
<1>6. civil_from_unix(day) = [y |-> year, m |-> month, d |-> MonthDay(n)]
  BY <1>1, <1>2, <1>3, <1>4, <1>5
     DEF civil_from_unix, EraYear, YearDay, YearMonth, MonthDay
<1>7. year \in Int /\ month \in Int /\ 1 <= month /\ month <= 12 /\ 12 * year + month = 12 * (y + era * 400) + m + 3
  BY SMT, <1>5
<1>8. MonthDay(n) \in Int /\ 1 <= MonthDay(n) /\ MonthDay(n) <= 31
  BY SMT, <1>4, MonthParts
<1> HIDE DEF month, year
<1>9. DateIs(civil_from_unix(day), year, month, MonthDay(n))
  BY SMT, <1>6, <1>7, <1>8 DEF DateIs
<1>10. DayIs(day, era, e, y, n, m)
  BY SMT, <1>2, <1>3, <1>4, <1>5 DEF DayIs
<1> QED
  BY ZenonT(20), <1>7, <1>8, <1>9, <1>10

LEMMA CivilParts ==
  ASSUME NEW day \in Int, 0 <= day
  PROVE  \E Y \in Int, M \in Int, D \in Int : DateIs(civil_from_unix(day), Y, M, D)
BY SMT, DayParts

(* A later day has a later date. *)
LEMMA DatesGrow ==
  ASSUME NEW a \in Int, 0 <= a, NEW b \in Int, a < b
  PROVE  DateNumber(civil_from_unix(a)) < DateNumber(civil_from_unix(b))
<1>1. PICK Ra \in Int, ea \in Int, ya \in Int, na \in Int, ma \in Int, Ya \in Int, Ma \in Int, Da \in Int :
          /\ DayIs(a, Ra, ea, ya, na, ma)
          /\ DateIs(civil_from_unix(a), Ya, Ma, Da)
          /\ 12 * Ya + Ma = 12 * (ya + Ra * 400) + ma + 3 /\ Da = MonthDay(na)
  BY SMT, DayParts
<1>2. PICK Rb \in Int, eb \in Int, yb \in Int, nb \in Int, mb \in Int, Yb \in Int, Mb \in Int, Db \in Int :
          /\ DayIs(b, Rb, eb, yb, nb, mb)
          /\ DateIs(civil_from_unix(b), Yb, Mb, Db)
          /\ 12 * Yb + Mb = 12 * (yb + Rb * 400) + mb + 3 /\ Db = MonthDay(nb)
  BY SMT, DayParts
<1>3. 12 * Ya + Ma < 12 * Yb + Mb \/ (12 * Ya + Ma = 12 * Yb + Mb /\ Da < Db)
  <2>1. Ra <= Rb
    BY SMT, <1>1, <1>2 DEF DayIs, DateIs
  <2>2. CASE Ra < Rb
    BY SMT, <1>1, <1>2, <2>2 DEF DayIs, DateIs
  <2>3. CASE Ra = Rb
    <3>1. ea < eb
      BY SMT, <1>1, <1>2, <2>3 DEF DayIs, DateIs
    <3>2. ya <= yb
      BY SMT, <1>1, <1>2, <3>1, YearGrows DEF DayIs, DateIs
    <3>3. CASE ya < yb
      BY SMT, <1>1, <1>2, <2>3, <3>3 DEF DayIs, DateIs
    <3>4. CASE ya = yb
      <4>1. /\ na = ea - (365 * ya + ya \div 4 - ya \div 100)
            /\ nb = eb - (365 * yb + yb \div 4 - yb \div 100)
        BY SMT, <1>1, <1>2 DEF YearDay, DayIs, DateIs
      <4>2. na < nb
        BY SMT, <3>1, <3>4, <4>1
      <4>3. ma <= mb
        BY SMT, <1>1, <1>2, <4>2, MonthGrows DEF DayIs, DateIs
      <4>4. CASE ma < mb
        BY SMT, <1>1, <1>2, <2>3, <3>4, <4>4 DEF DayIs, DateIs
      <4>5. CASE ma = mb
        <5>1. Da = na - (153 * ma + 2) \div 5 + 1 /\ Db = nb - (153 * mb + 2) \div 5 + 1
          BY SMT, <1>1, <1>2 DEF MonthDay, DayIs, DateIs
        <5>2. Da < Db
          BY SMT, <4>2, <4>5, <5>1
        <5> QED
          BY SMT, <1>1, <1>2, <2>3, <3>4, <4>5, <5>2 DEF DayIs, DateIs
      <4> QED
        BY SMT, <4>3, <4>4, <4>5
    <3> QED
      BY SMT, <3>2, <3>3, <3>4
  <2> QED
    BY SMT, <2>1, <2>2, <2>3
<1>4. Ya * 10000 + Ma * 100 + Da < Yb * 10000 + Mb * 100 + Db
  <2>1. Ya < Yb \/ (Ya = Yb /\ Ma < Mb) \/ (Ya = Yb /\ Ma = Mb /\ Da < Db)
    BY SMT, <1>1, <1>2, <1>3 DEF DayIs, DateIs
  <2> QED
    BY SMT, <1>1, <1>2, <2>1 DEF DayIs, DateIs
<1> QED
  BY SMT, <1>1, <1>2, <1>4 DEF DateNumber, DayIs, DateIs

(* The first day of the year 2100, whose two digits are those of 2000. *)
Day2100 == 47482

LEMMA TwoDigits ==
  ASSUME NEW day \in Int, 0 <= day, day < Day2100
  PROVE  \E n \in Int :
            /\ n = DateNumber(civil_from_unix(day)) /\ 19700101 <= n /\ n < 21000101
            /\ encoded_date(day) = IF n < 20000000 THEN n - 19000000 ELSE n - 20000000
<1>1. PICK Y \in Int, M \in Int, D \in Int : DateIs(civil_from_unix(day), Y, M, D)
  BY SMT, CivilParts
<1>2. DateNumber(civil_from_unix(0)) = 19700101 /\ DateNumber(civil_from_unix(Day2100)) = 21000101
  BY SMT DEF DateNumber, civil_from_unix, Day2100
<1>3. PICK n \in Int : n = Y * 10000 + M * 100 + D
  BY SMT
<1>4. n = DateNumber(civil_from_unix(day))
  BY SMT, <1>1, <1>3 DEF DateIs, DateNumber
<1>5. 19700101 <= n /\ n < 21000101
  <2>1. day = 0 => n = DateNumber(civil_from_unix(0))
    BY Zenon, <1>4
  <2>2. 0 < day => DateNumber(civil_from_unix(0)) < DateNumber(civil_from_unix(day))
    BY SMT, DatesGrow
  <2>3. day \in Int /\ Day2100 \in Int
    BY SMT DEF Day2100
  <2>4. DateNumber(civil_from_unix(day)) < DateNumber(civil_from_unix(Day2100))
    BY SMT, <2>3, DatesGrow
  <2>5. 0 < day => 19700101 < n
    BY SMT, <1>2, <1>4, <2>2
  <2>6. n < 21000101
    BY SMT, <1>2, <1>4, <2>4
  <2>7. day = 0 => n = 19700101
    BY SMT, <1>2, <2>1
  <2> QED
    BY SMT, <2>5, <2>6, <2>7
<1>6. 1970 <= Y /\ Y <= 2099
  BY SMT, <1>1, <1>3, <1>5 DEF DateIs
<1>7. Y % 100 = IF Y < 2000 THEN Y - 1900 ELSE Y - 2000
  BY SMT, <1>6
<1>8. encoded_date(day) = (Y % 100) * 10000 + M * 100 + D
  BY SMT, <1>1 DEF encoded_date, encode_yymmdd, DateIs
<1>9. Y < 2000 <=> n < 20000000
  BY SMT, <1>1, <1>3 DEF DateIs
<1> QED
  BY SMT, <1>3, <1>4, <1>5, <1>7, <1>8, <1>9

(* The century guessed for a birth is never too early, as long as the      *)
(* birth precedes the day of the proof and the proof the year 2100.        *)
LEMMA CenturyHolds ==
  ASSUME NEW birth \in Int, 0 <= birth, NEW day \in Int, birth < day, day < Day2100
  PROVE  \E n \in Int, seen \in Int :
            /\ n = DateNumber(civil_from_unix(birth))
            /\ seen = normalize_yymmdd(encoded_date(birth), encoded_date(day))
            /\ n <= seen
<1>1. PICK n \in Int :
         /\ n = DateNumber(civil_from_unix(birth)) /\ 19700101 <= n /\ n < 21000101
         /\ encoded_date(birth) = IF n < 20000000 THEN n - 19000000 ELSE n - 20000000
  BY SMT, TwoDigits DEF Day2100
<1>2. PICK d \in Int :
         /\ d = DateNumber(civil_from_unix(day)) /\ 19700101 <= d /\ d < 21000101
         /\ encoded_date(day) = IF d < 20000000 THEN d - 19000000 ELSE d - 20000000
  BY SMT, TwoDigits
<1>3. n < d
  BY SMT, <1>1, <1>2, DatesGrow
<1>4. PICK b \in Int : b = encoded_date(birth) /\ b = IF n < 20000000 THEN n - 19000000 ELSE n - 20000000
  BY SMT, <1>1
<1>5. PICK c \in Int : c = encoded_date(day) /\ c = IF d < 20000000 THEN d - 19000000 ELSE d - 20000000
  BY SMT, <1>2
<1>6. n <= IF b < c THEN 20000000 + b ELSE 19000000 + b
  BY SMT, <1>1, <1>2, <1>3, <1>4, <1>5
<1>7. normalize_yymmdd(b, c) = IF b < c THEN 20000000 + b ELSE 19000000 + b
  BY SMT DEF normalize_yymmdd
<1> QED
  BY SMT, <1>1, <1>4, <1>5, <1>6, <1>7

(* Who precedes the cutoff of a day is of age on it. *)
LEMMA CutoffMeansAge ==
  ASSUME NEW birth \in Int, 0 <= birth, NEW day \in Int, 0 <= day, NEW years \in Int
  PROVE  \E cut \in Int :
            /\ cut = DateNumber(age_cutoff(day, years))
            /\ DateNumber(civil_from_unix(birth)) < cut => OfAge(birth, day, years)
<1>1. PICK Y \in Int, M \in Int, D \in Int : DateIs(civil_from_unix(day), Y, M, D)
  BY SMT, CivilParts
<1>2. PICK V \in Int, N \in Int, E \in Int : DateIs(civil_from_unix(birth), V, N, E)
  BY SMT, CivilParts
<1>3. PICK d \in Int : /\ d <= D /\ age_cutoff(day, years).y = Y - years
                       /\ age_cutoff(day, years).m = M /\ age_cutoff(day, years).d = d
  <2>1. CASE M = 2 /\ D = 29 /\ ~is_leap(Y - years)
    BY SMT, <1>1, <2>1 DEF age_cutoff, DateIs
  <2>2. CASE ~(M = 2 /\ D = 29 /\ ~is_leap(Y - years))
    BY SMT, <1>1, <2>2 DEF age_cutoff, DateIs
  <2> QED
    BY SMT, <2>1, <2>2
<1>4. PICK cut \in Int : cut = DateNumber(age_cutoff(day, years)) /\ cut = (Y - years) * 10000 + M * 100 + d
  BY SMT, <1>3 DEF DateNumber
<1>5. /\ DateNumber(civil_from_unix(day)) = Y * 10000 + M * 100 + D
      /\ DateNumber(civil_from_unix(birth)) = V * 10000 + N * 100 + E
  BY SMT, <1>1, <1>2 DEF DateNumber, DateIs
<1>6. V * 10000 + N * 100 + E < cut => V * 10000 + N * 100 + E + years * 10000 <= Y * 10000 + M * 100 + D
  BY SMT, <1>3, <1>4
<1> QED
  BY SMT, <1>4, <1>5, <1>6 DEF OfAge

(* A proof that the circuit accepts and whose bound the program accepts,   *)
(* made on a day after the birth, is one of someone of age.                *)
LEMMA ProvenAge ==
  ASSUME NEW birth \in Int, 0 <= birth, NEW made \in Int, birth < made, made < Day2100,
         NEW day \in Int, 0 <= day, NEW years \in Int, NEW upper \in Int,
         CircuitAccepts(encoded_date(birth), upper, encoded_date(made)),
         birth_bound_ok(upper, encoded_date(made), day, years)
  PROVE  OfAge(birth, day, years)
<1>1. PICK n \in Int, seen \in Int :
         /\ n = DateNumber(civil_from_unix(birth))
         /\ seen = normalize_yymmdd(encoded_date(birth), encoded_date(made))
         /\ n <= seen
  BY SMT, CenturyHolds
<1>2. PICK cut \in Int :
         /\ cut = DateNumber(age_cutoff(day, years))
         /\ n < cut => OfAge(birth, day, years)
  BY SMT, <1>1, CutoffMeansAge
<1>3. PICK bound \in Int : bound = normalize_yymmdd(upper, encoded_date(made))
  BY SMT DEF normalize_yymmdd
<1>4. seen < bound /\ bound <= cut
  BY SMT, <1>1, <1>2, <1>3 DEF CircuitAccepts, birth_bound_ok
<1> QED
  BY SMT, <1>1, <1>2, <1>4

-----------------------------------------------------------------------------
(* The age an attestation asks for.  The date of a proof is the clock's    *)
(* when the circuit accepted it, and only the digits of both remain.       *)

Dated(p) ==
    /\ p.identity \in Identity /\ p.upper \in Int
    /\ CircuitAccepts(encoded_date(BirthOf(p.identity)), p.upper, p.date)

DatesInv ==
    \A w \in Wallet :
        /\ rarimo[w].upper \in Int
        /\ rarimo[w].status = "verified" => Dated(rarimo[w].proof)
        /\ unsigned[w] # NoTx /\ unsigned[w].proof # NoProof => Dated(unsigned[w].proof)

ClockInv ==
    /\ kyc.minAge \in Nat
    /\ FirstDay <= now /\ (now <= LastDay \/ now = FirstDay)

DInv == OInv /\ DatesInv /\ ClockInv

LEMMA BoundIsInt ==
  ASSUME NEW day \in Int, 0 <= day, NEW years \in Int
  PROVE  ageUpperBoundYymmdd(day, years) \in Int
<1>1. PICK Y \in Int, M \in Int, D \in Int : DateIs(civil_from_unix(day), Y, M, D)
  BY SMT, CivilParts
<1>2. PICK d \in Int : /\ age_cutoff(day, years).y = Y - years
                       /\ age_cutoff(day, years).m = M /\ age_cutoff(day, years).d = d
  BY SMT, <1>1 DEF age_cutoff, DateIs
<1> QED
  BY SMT, <1>2 DEF ageUpperBoundYymmdd, encode_yymmdd

LEMMA DatesStay ==
  ASSUME DInv, UNCHANGED <<rarimo, unsigned>>
  PROVE  DatesInv'
BY DEF DInv, DatesInv

LEMMA DatesPoll ==
  ASSUME DInv, NEW w \in Wallet, NEW t, unsigned' = [unsigned EXCEPT ![w] = t], rarimo' = rarimo,
         t # NoTx /\ t.proof # NoProof => Dated(t.proof)
  PROVE  DatesInv'
BY DEF DInv, OInv, ProofsInv, DatesInv

LEMMA DatesRequest ==
  ASSUME DInv, NEW w \in Wallet, RequestKycProof(w)
  PROVE  DatesInv'
<1> DEFINE new == [status |-> "open", proof |-> NoProof, upper |-> ageUpperBoundYymmdd(now, kyc.minAge)]
<1>1. rarimo' = [rarimo EXCEPT ![w] = new] /\ unsigned' = unsigned
  BY DEF RequestKycProof
<1>2. now \in Int /\ 0 <= now /\ kyc.minAge \in Int
  BY SMT DEF DInv, ClockInv, OInv, Typed
<1>3. new.status = "open" /\ new.upper \in Int
  BY <1>2, BoundIsInt
<1> HIDE DEF new
<1> QED
  BY <1>1, <1>3 DEF DInv, OInv, ProofsInv, DatesInv

LEMMA DatesProve ==
  ASSUME DInv, NEW w \in Wallet, NEW i \in Identity, ProvePassport(w, i)
  PROVE  DatesInv'
<1> DEFINE proof == [wallet |-> w, identity |-> i, root |-> latest, date |-> encoded_date(now),
                     upper |-> rarimo[w].upper]
           new == [status |-> "verified", upper |-> rarimo[w].upper, proof |-> proof]
<1>1. /\ rarimo' = [rarimo EXCEPT ![w] = new] /\ unsigned' = unsigned
      /\ CircuitAccepts(encoded_date(BirthOf(i)), rarimo[w].upper, encoded_date(now))
  BY DEF ProvePassport
<1>2. rarimo[w].upper \in Int
  BY DEF DInv, DatesInv
<1>3. Dated(proof)
  BY <1>1, <1>2 DEF Dated
<1> HIDE DEF proof
<1>4. new.upper \in Int /\ new.proof = proof
  BY <1>2
<1> HIDE DEF new
<1> QED
  BY <1>1, <1>3, <1>4 DEF DInv, OInv, ProofsInv, DatesInv

LEMMA DatesStep ==
  ASSUME DInv, OnboardNext
  PROVE  DatesInv'
<1>1. ASSUME NEW q \in Request, Register(q)
      PROVE  DatesInv'
  BY <1>1, DatesStay DEF Register, StartRegister, Upsert, LookAllowed, SendAllow, AllowFails, RecordAllow,
                         RegisterCrash, proofVars
<1>2. ASSUME NEW w \in Wallet, DropKycTx(w)
      PROVE  DatesInv'
  BY <1>2, DatesPoll DEF DropKycTx
<1>3. ASSUME NEW w \in Wallet, NEW m \in Mint, SignKycTx(m, w)
      PROVE  DatesInv'
  BY <1>3, DatesPoll DEF SignKycTx
<1>4. ASSUME NEW w \in Wallet, NEW m \in Mint, PollAttested(m, w) \/ PollVerified(m, w)
      PROVE  DatesInv'
  <2>1. PICK p : unsigned' = [unsigned EXCEPT ![w] = [proof |-> p]] /\ (p # NoProof => Dated(p))
    BY <1>4 DEF PollAttested, PollVerified, Offer, DInv, DatesInv
  <2>2. rarimo' = rarimo
    BY <1>4 DEF PollAttested, PollVerified
  <2> QED
    BY <2>1, <2>2, DatesPoll
<1>5. CASE NewRoot \/ WatchRoots
  BY <1>5, DatesStay DEF NewRoot, WatchRoots, proofVars
<1>6. CASE UNCHANGED <<serverVars, proofVars>>
  BY <1>6, DatesStay DEF proofVars
<1> QED
  BY <1>1, <1>2, <1>3, <1>4, <1>5, <1>6, DatesRequest, DatesProve DEF OnboardNext, Passports

LEMMA ClockStep ==
  ASSUME DInv, OnboardNext
  PROVE  ClockInv'
<1>1. CASE UNCHANGED <<kyc, now>>
  BY <1>1 DEF DInv, ClockInv
<1>2. CASE Tick
  <2>1. kyc' = kyc /\ now < LastDay /\ now' = now + 1
    BY <1>2 DEF Tick, kycVars
  <2> QED
    BY SMT, <2>1, AllowlistAssumption DEF DInv, ClockInv, OInv, Typed
<1>3. ASSUME NEW k \in Key, NEW p \in Policies, InitKycConfig(k, p) \/ SetKycPolicy(k, p)
      PROVE  ClockInv'
  <2>1. kyc'.minAge = p.minAge /\ now' = now
    BY <1>3 DEF InitKycConfig, SetKycPolicy, Policy
  <2>2. p.minAge \in Nat
    BY AllowlistAssumption
  <2> QED
    BY <2>1, <2>2 DEF DInv, ClockInv
<1>4. ASSUME NEW q \in Request, Register(q)
      PROVE  UNCHANGED <<kyc, now>>
  BY <1>4 DEF Register, StartRegister, Upsert, LookAllowed, SendAllow, AllowFails, RecordAllow, RegisterCrash,
              AddAllow, allowVars, kycVars
<1>5. ASSUME Passports
      PROVE  UNCHANGED <<kyc, now>>
  BY <1>5 DEF Passports, RequestKycProof, ProvePassport, PollAttested, PollVerified, SignKycTx, DropKycTx, NewRoot,
              WatchRoots, PushKycRoot, AddAllowKyc, SubmitAndAdd, allowVars, kycVars
<1>6. ASSUME Public
      PROVE  UNCHANGED <<kyc, now>>
  BY <1>6 DEF Public, AddAllowKyc, RevokeKycAllow, SubmitKycProof, kycVars
<1>7. ASSUME Administer
      PROVE  ClockInv'
  BY <1>1, <1>3, <1>7 DEF Administer, InitializeAndAdd, EnableKyc, RemoveAllow, SetAdmin, kycVars
<1> QED
  BY <1>1, <1>2, <1>4, <1>5, <1>6, <1>7 DEF OnboardNext

LEMMA DatedInvariant == OnboardSpec => []DInv
<1>1. OnboardInit => DInv
  <2> SUFFICES ASSUME OnboardInit
               PROVE  DInv
    OBVIOUS
  <2>1. DatesInv
    BY DEF OnboardInit, DatesInv, NoRequest
  <2>2. ClockInv
    BY AllowlistAssumption DEF OnboardInit, AllowInit, ClockInv
  <2> QED
    BY <2>1, <2>2, InitInv DEF DInv
<1>2. DInv /\ [OnboardNext]_onboardVars => DInv'
  <2> SUFFICES ASSUME DInv, [OnboardNext]_onboardVars
               PROVE  DInv'
    OBVIOUS
  <2>1. OInv'
    BY StepInv DEF DInv
  <2>2. CASE OnboardNext
    BY <2>1, <2>2, DatesStep, ClockStep DEF DInv
  <2>3. CASE UNCHANGED onboardVars
    BY <2>1, <2>3, DatesStay DEF DInv, ClockInv, onboardVars, allowVars, kycVars, proofVars
  <2> QED
    BY <2>2, <2>3
<1> QED
  BY <1>1, <1>2, PTL DEF OnboardSpec

(* The clock stays before the year 2100, a proof's date included. *)
BeforeYear2100 == FirstDay + DateSkew < Day2100 /\ LastDay + DateSkew < Day2100

LEMMA BoundIsOfAge ==
  ASSUME BeforeYear2100, DInv, NEW p, Dated(p), Provable(p)
  PROVE  OfAge(BirthOf(p.identity), now, kyc.minAge)
<1>1. PICK s \in Int : -DateSkew <= s /\ s <= DateSkew /\ p.date = encoded_date(now + s)
  BY SMT, AllowlistAssumption DEF Provable
<1>2. PICK birth \in Int : birth = BirthOf(p.identity) /\ 0 <= birth /\ birth + DateSkew < FirstDay
  <2>1. PICK passport \in Passport : passport = PassportOf[p.identity]
    BY AllowlistAssumption DEF Dated
  <2>2. Birth[passport] \in Nat /\ Birth[passport] + DateSkew < FirstDay
    BY AllowlistAssumption
  <2> QED
    BY <2>1, <2>2 DEF BirthOf
<1>3. PICK made \in Int : made = now + s /\ p.date = encoded_date(made)
  BY <1>1 DEF DInv, OInv, Typed
<1>4. birth < made /\ made < Day2100
  BY SMT, <1>1, <1>2, <1>3, AllowlistAssumption DEF BeforeYear2100, Day2100, DInv, ClockInv, OInv, Typed
<1>5. now \in Int /\ 0 <= now /\ kyc.minAge \in Int /\ p.upper \in Int
  BY SMT DEF DInv, ClockInv, OInv, Typed, Dated
<1>6. /\ CircuitAccepts(encoded_date(birth), p.upper, encoded_date(made))
      /\ birth_bound_ok(p.upper, encoded_date(made), now, kyc.minAge)
  BY Zenon, <1>2, <1>3 DEF Dated, Provable
<1> QED
  BY Zenon, <1>2, <1>4, <1>5, <1>6, ProvenAge

Welcome(p) ==
    /\ OfAge(BirthOf(p.identity), now, kyc.minAge)
    /\ CitizenshipOf(p.identity) \notin kyc.blocked

LEMMA BindIsWelcome ==
  ASSUME BeforeYear2100, DInv, NEW p, Known(p), Dated(p), Bind(p), NEW w \in Wallet, attestation'[w] # attestation[w]
  PROVE  /\ attestation'[w].identity = p.identity
         /\ Welcome(p)
<1>1. attestation' = [attestation EXCEPT ![p.wallet] = Attested(p)] /\ Provable(p)
  BY DEF Bind
<1>2. attestation'[w] = Attested(p)
  BY <1>1 DEF DInv, OInv, Typed
<1>3. attestation'[w].identity = p.identity
  BY <1>2 DEF Attested
<1>4. CitizenshipOf(p.identity) \notin kyc.blocked
  BY <1>1 DEF Provable
<1> QED
  BY <1>1, <1>3, <1>4, BoundIsOfAge DEF Welcome

(* Attestations change by binding a proof that the circuit accepted. *)
LEMMA OnlyBound ==
  ASSUME DInv, OnboardNext, attestation' # attestation
  PROVE  \E p : Known(p) /\ Dated(p) /\ Bind(p)
<1>1. ASSUME NEW q \in Request, Register(q)
      PROVE  FALSE
  BY <1>1 DEF Register, StartRegister, Upsert, LookAllowed, SendAllow, AllowFails, RecordAllow, RegisterCrash,
              AddAllow, allowVars, bindVars
<1>2. ASSUME NEW m \in Mint, NEW w \in Wallet, SignKycTx(m, w)
      PROVE  \E p : Known(p) /\ Dated(p) /\ Bind(p)
  <2>1. PICK p : p = unsigned[w].proof
    OBVIOUS
  <2>2. CASE p = NoProof
    BY <1>2, <2>1, <2>2 DEF SignKycTx, AddAllowKyc, bindVars
  <2>3. CASE p # NoProof
    <3>1. Known(p) /\ Dated(p)
      BY <1>2, <2>1, <2>3 DEF SignKycTx, DInv, OInv, ProofsInv, DatesInv
    <3>2. Bind(p)
      BY <1>2, <2>1, <2>3 DEF SignKycTx, SubmitAndAdd
    <3> QED
      BY <3>1, <3>2
  <2> QED
    BY <2>2, <2>3
<1>3. ASSUME NEW w \in Wallet, rarimo[w].status = "verified", SubmitKycProof(rarimo[w].proof)
      PROVE  \E p : Known(p) /\ Dated(p) /\ Bind(p)
  BY <1>3 DEF SubmitKycProof, DInv, OInv, ProofsInv, DatesInv
<1>4. CASE Tick \/ Administer
  BY <1>4 DEF Tick, Administer, InitializeAndAdd, EnableKyc, RemoveAllow, SetAdmin, InitKycConfig, SetKycPolicy,
              bindVars
<1>5. ASSUME NEW m \in Mint, NEW w \in Wallet, AddAllowKyc(m, w) \/ RevokeKycAllow(m, w)
      PROVE  FALSE
  BY <1>5 DEF AddAllowKyc, RevokeKycAllow, bindVars
<1>6. ASSUME NEW w \in Wallet,
             \/ RequestKycProof(w) \/ DropKycTx(w) \/ NewRoot \/ WatchRoots
             \/ \E i \in Identity : ProvePassport(w, i)
             \/ \E m \in Mint : PollAttested(m, w) \/ PollVerified(m, w)
      PROVE  FALSE
  BY <1>6 DEF RequestKycProof, DropKycTx, NewRoot, WatchRoots, ProvePassport, PollAttested, PollVerified, PushKycRoot,
              allowVars, bindVars
<1>7. CASE NewRoot \/ WatchRoots
  BY <1>7 DEF NewRoot, WatchRoots, PushKycRoot, allowVars, bindVars
<1> QED
  BY <1>1, <1>2, <1>3, <1>4, <1>5, <1>6, <1>7 DEF OnboardNext, Passports, Public

(* A new attestation goes to someone who has the age and none of the       *)
(* blocked citizenships of the policy in force when it is written, however *)
(* old the request, the proof or the unsigned transaction, and whatever    *)
(* the two-digit years and February 29 do to the dates.  From 2100 on the  *)
(* digits of today are those of 2000, and the century of a birth would be  *)
(* guessed a hundred years early.                                          *)
THEOREM OfAgeAndWelcome ==
  ASSUME BeforeYear2100
  PROVE  OnboardSpec => AttestedMeetPolicy
<1>1. DInv /\ [OnboardNext]_onboardVars =>
        [\A w \in Wallet : attestation'[w] # attestation[w] =>
          /\ OfAge(BirthOf(attestation'[w].identity), now, kyc.minAge)
          /\ CitizenshipOf(attestation'[w].identity) \notin kyc.blocked]_onboardVars
  <2> SUFFICES ASSUME DInv, OnboardNext, NEW w \in Wallet, attestation'[w] # attestation[w]
               PROVE  /\ OfAge(BirthOf(attestation'[w].identity), now, kyc.minAge)
                      /\ CitizenshipOf(attestation'[w].identity) \notin kyc.blocked
    OBVIOUS
  <2>1. PICK p : Known(p) /\ Dated(p) /\ Bind(p)
    BY OnlyBound
  <2>2. attestation'[w].identity = p.identity /\ Welcome(p)
    BY <2>1, BindIsWelcome
  <2> QED
    BY <2>2 DEF Welcome
<1> QED
  BY <1>1, DatedInvariant, PTL DEF OnboardSpec, AttestedMeetPolicy

=============================================================================
