------------------------- MODULE EscrowClaimsProofs -------------------------
(***************************************************************************)
(* Proofs about EscrowClaims, for every number of claims, requests, claim  *)
(* faults and unknown outcomes, and every set of tables.                   *)
(*                                                                         *)
(* One claim at a time works on a row (CInv): whatever the issuer's        *)
(* requests do, a row keeps its lock or is replaced by one of a later      *)
(* generation.                                                             *)
(*                                                                         *)
(* Until a request of the issuer is killed or meets a database error, all  *)
(* that landed is on the rows or in the hands of who is about to record it *)
(* (EInv).  From it: nobody is paid twice, the escrow covers what it owes  *)
(* (CoverInv adds up its books), and payments implement PayoutPromise,     *)
(* both as they leave the issuer and as they reach the holders.            *)
(***************************************************************************)
EXTENDS EscrowClaims, DistributionProofs

ClaimPCs == {"idle", "lock", "balance", "send", "save", "unlock"}
ClaimRecord == [wallet : Wallet, gen : Nat, amount : Nat, sig : Nat]

(* A claim works on a row that exists or existed, for its payout; what it  *)
(* is about to save has landed.                                            *)
ClaimLocals ==
    \A c \in Claimant :
        /\ cpc[c] # "idle" => claim[c].gen <= gen
        /\ \E t \in AllocationTables : claim[c].amount = t[claim[c].wallet]
        /\ cpc[c] = "save" => claim[c].sig \in DOMAIN ledger

CTypeInv == ClaimTypeOK /\ InFlightInv /\ ClaimLocals

CInv == CTypeInv /\ OneClaimPerRow

-----------------------------------------------------------------------------
(* What a step leaves to the other claims. *)

ClaimsGoOn(c) ==
    /\ \A d \in Claimant \ {c} : cpc'[d] = cpc[d] /\ claim'[d] = claim[d]
    /\ DOMAIN ledger \subseteq DOMAIN ledger'
    /\ gen' = gen

LEMMA OneMoves ==
  ASSUME CTypeInv, NEW c \in Claimant, NEW label \in ClaimPCs, NEW j \in ClaimRecord,
         cpc' = [cpc EXCEPT ![c] = label], claim' = [claim EXCEPT ![c] = j],
         label # "idle" => j.gen <= gen,
         \E t \in AllocationTables : j.amount = t[j.wallet],
         label = "save" => j.sig \in DOMAIN ledger',
         DOMAIN ledger \subseteq DOMAIN ledger', gen' = gen
  PROVE  /\ ClaimLocals'
         /\ cpc' \in [Claimant -> ClaimPCs] /\ claim' \in [Claimant -> ClaimRecord]
         /\ cpc'[c] = label /\ claim'[c] = j
         /\ ClaimsGoOn(c)
<1>1. cpc \in [Claimant -> ClaimPCs] /\ claim \in [Claimant -> ClaimRecord]
  BY DEF CTypeInv, ClaimTypeOK, ClaimPCs, ClaimRecord
<1>2. cpc' \in [Claimant -> ClaimPCs] /\ claim' \in [Claimant -> ClaimRecord]
  BY <1>1
<1>3. /\ cpc'[c] = label /\ claim'[c] = j
      /\ \A d \in Claimant \ {c} : cpc'[d] = cpc[d] /\ claim'[d] = claim[d]
  BY <1>1
<1>4. ClaimLocals'
  BY <1>3 DEF CTypeInv, ClaimLocals, AllocationTables, NoTable
<1> QED
  BY <1>2, <1>3, <1>4 DEF ClaimsGoOn

LEMMA NoClaimTyped ==
  NoClaim \in ClaimRecord /\ \E t \in AllocationTables : NoClaim.amount = t[NoClaim.wallet]
<1>1. (CHOOSE w \in Wallet : TRUE) \in Wallet
  BY ClaimAssumption
<1>2. NoTable \in AllocationTables /\ \A w \in Wallet : NoTable[w] = 0
  BY DEF AllocationTables, NoTable
<1> QED
  BY <1>1, <1>2 DEF NoClaim, ClaimRecord, NoSig

LEMMA Returned ==
  ASSUME CTypeInv, NEW c \in Claimant, ClaimReturn(c),
         DOMAIN ledger \subseteq DOMAIN ledger', gen' = gen
  PROVE  /\ ClaimLocals'
         /\ cpc' \in [Claimant -> ClaimPCs] /\ claim' \in [Claimant -> ClaimRecord]
         /\ cpc'[c] = "idle" /\ ClaimsGoOn(c)
<1>1. cpc' = [cpc EXCEPT ![c] = "idle"] /\ claim' = [claim EXCEPT ![c] = NoClaim] /\ "idle" \in ClaimPCs
  BY DEF ClaimReturn, ClaimGoto, ClaimPCs
<1> QED
  BY <1>1, NoClaimTyped, OneMoves

LEMMA Went ==
  ASSUME CTypeInv, NEW c \in Claimant, NEW label \in ClaimPCs, ClaimGoto(c, label), claim' = claim,
         cpc[c] # "idle", label # "save",
         DOMAIN ledger \subseteq DOMAIN ledger', gen' = gen
  PROVE  /\ ClaimLocals'
         /\ cpc' \in [Claimant -> ClaimPCs] /\ claim' \in [Claimant -> ClaimRecord]
         /\ cpc'[c] = label /\ ClaimsGoOn(c)
<1>1. claim[c] \in ClaimRecord /\ claim' = [claim EXCEPT ![c] = claim[c]]
  BY DEF CTypeInv, ClaimTypeOK, ClaimRecord
<1>2. claim[c].gen <= gen /\ \E t \in AllocationTables : claim[c].amount = t[claim[c].wallet]
  BY DEF CTypeInv, ClaimLocals
<1> QED
  BY <1>1, <1>2, OneMoves DEF ClaimGoto

(* The claim is not past its lock, or holds it, or has no row to hold. *)
HeldBy(c) ==
    \/ ~Claiming(c)
    \/ claim[c].gen # gen
    \/ paidSig[Row(c)] # NoSig
    \/ lock[Row(c)] = c /\ lockLive[Row(c)]

(* Locks of the other claims stay unless their row is signed. *)
LEMMA OthersHold ==
  ASSUME CInv, NEW c \in Claimant, ClaimsGoOn(c),
         NEW w \in Wallet,
         \A v \in Wallet \ {w} : lock'[v] = lock[v] /\ lockLive'[v] = lockLive[v] /\ paidSig'[v] = paidSig[v],
         \/ lock'[w] = lock[w] /\ lockLive'[w] = lockLive[w] /\ paidSig'[w] = paidSig[w]
         \/ paidSig'[w] # NoSig
         \/ paidSig'[w] = paidSig[w] /\ (lock[w] = c \/ lock[w] = NoLock \/ ~lockLive[w]),
         HeldBy(c)'
  PROVE  OneClaimPerRow'
<1> SUFFICES ASSUME NEW d \in Claimant, Claiming(d)', claim'[d].gen = gen', paidSig'[Row(d)'] = NoSig
             PROVE  lock'[Row(d)'] = d /\ lockLive'[Row(d)']
  BY DEF OneClaimPerRow, Holds, Row, Claiming
<1>1. CASE d = c
  BY <1>1 DEF HeldBy, Claiming, Row
<1>2. CASE d # c
  <2>1. Row(d)' = Row(d) /\ Claiming(d) /\ claim[d].gen = gen /\ Row(d) \in Wallet
    BY <1>2 DEF ClaimsGoOn, Row, Claiming, CInv, CTypeInv, ClaimTypeOK
  <2>2. paidSig[Row(d)] = NoSig => lock[Row(d)] = d /\ lockLive[Row(d)]
    BY <2>1 DEF CInv, OneClaimPerRow, Holds
  <2>3. d # NoLock
    BY ClaimAssumption DEF NoLock
  <2> QED
    BY <1>2, <2>1, <2>2, <2>3
<1> QED
  BY <1>1, <1>2

(* A release is a transfer of one payout of a table. *)
LEMMA ReleaseTyped ==
  ASSUME CTypeInv, NEW c \in Claimant, Payout(c)
  PROVE  /\ ledger' \in Seq(Transfers)
         /\ DOMAIN ledger' = DOMAIN ledger \cup {Len(ledger) + 1}
         /\ Len(ledger) + 1 \in Nat
<1>1. claim[c].wallet \in Wallet /\ ledger \in Seq(Transfers)
  BY DEF CTypeInv, ClaimTypeOK, TypeOK
<1>2. PICK t \in AllocationTables : claim[c].amount = t[claim[c].wallet]
  BY DEF CTypeInv, ClaimLocals
<1>3. [w \in {Row(c)} |-> claim[c].amount] = [w \in {Row(c)} |-> t[w]]
  BY <1>2 DEF Row
<1>4. [kind |-> "claim", pays |-> [w \in {Row(c)} |-> claim[c].amount]] \in Transfers
  <2>1. {Row(c)} \in SUBSET Wallet
    BY <1>1 DEF Row
  <2>2. [w \in {Row(c)} |-> t[w]] \in Payments
    BY <2>1, TransferTyped DEF Transfer, Transfers
  <2> QED
    BY <1>3, <2>2 DEF Transfers
<1> QED
  BY <1>1, <1>4, LedgerAppend DEF Payout

(* The issuer's rows are typed as before where a claim leaves them alone.  *)
LEMMA IssuerTypes ==
  ASSUME CTypeInv, UNCHANGED <<status, total, alloc, gen, fundVars, leaseVars, pc, job, faults>>,
         paidSig' \in [Wallet -> Nat], ledger' \in Seq(Transfers), orphans' \subseteq DOMAIN ledger',
         DOMAIN ledger \subseteq DOMAIN ledger'
  PROVE  TypeOK' /\ InFlightInv'
<1>1. TypeOK'
  BY DEF CTypeInv, ClaimTypeOK, TypeOK, fundVars, leaseVars
<1>2. InFlightInv'
  BY DEF CTypeInv, InFlightInv
<1> QED
  BY <1>1, <1>2

-----------------------------------------------------------------------------
(* The claim's steps. *)

LEMMA CInvInit == ClaimInit => CInv
<1> SUFFICES ASSUME ClaimInit
             PROVE  CInv
  OBVIOUS
<1>1. TypeInv
  BY TypeInit DEF ClaimInit
<1>2. ClaimTypeOK
  <2>1. claim \in [Claimant -> ClaimRecord]
    BY NoClaimTyped DEF ClaimInit
  <2> QED
    BY <1>1, <2>1, ClaimAssumption DEF ClaimInit, ClaimTypeOK, ClaimRecord, TypeInv, NoLock
<1>3. ClaimLocals
  BY NoClaimTyped DEF ClaimInit, ClaimLocals
<1>4. OneClaimPerRow
  BY DEF ClaimInit, OneClaimPerRow, Claiming
<1> QED
  BY <1>1, <1>2, <1>3, <1>4 DEF CInv, CTypeInv, TypeInv

(* A claim's steps that change neither the rows nor the chain. *)
LEMMA CInvQuiet ==
  ASSUME CInv, NEW c \in Claimant,
         StartClaim(c) \/ LockRow(c) \/ RefuseLock(c) \/ CheckBalance(c) \/ ClaimFails(c) \/ Unlock(c)
  PROVE  CInv'
<1>1. UNCHANGED vars
  BY DEF StartClaim, LockRow, RefuseLock, CheckBalance, ClaimFails, Unlock
<1>2. gen' = gen /\ ledger' = ledger /\ paidSig' = paidSig /\ TypeOK' /\ InFlightInv'
  BY <1>1 DEF vars, rowVars, fundVars, leaseVars, chainVars, CInv, CTypeInv, ClaimTypeOK, TypeOK, InFlightInv
<1>3. CTypeInv
  BY DEF CInv
<1>4. claim[c].wallet \in Wallet /\ lock \in [Wallet -> Claimant \cup {NoLock}] /\ lockLive \in [Wallet -> BOOLEAN]
  BY <1>3 DEF CTypeInv, ClaimTypeOK
<1>5. claimFaults' = claimFaults
  BY DEF StartClaim, LockRow, RefuseLock, CheckBalance, ClaimFails, Unlock
<1>6. ASSUME ClaimLocals', cpc' \in [Claimant -> ClaimPCs], claim' \in [Claimant -> ClaimRecord],
             lock' \in [Wallet -> Claimant \cup {NoLock}], lockLive' \in [Wallet -> BOOLEAN]
      PROVE  CTypeInv'
  BY <1>2, <1>3, <1>5, <1>6 DEF CTypeInv, ClaimTypeOK, ClaimPCs, ClaimRecord
<1>7. CASE StartClaim(c)
  <2>1. PICK w \in Unpaid :
           claim' = [claim EXCEPT ![c] = [wallet |-> w, gen |-> gen, amount |-> alloc[w], sig |-> NoSig]]
    BY <1>7 DEF StartClaim
  <2> DEFINE j == [wallet |-> w, gen |-> gen, amount |-> alloc[w], sig |-> NoSig]
  <2>2. alloc \in AllocationTables /\ alloc[w] \in Nat /\ gen \in Nat /\ w \in Wallet
    BY <1>3, ConstantsAssumption DEF CTypeInv, ClaimTypeOK, TypeOK, AllocationTables, NoTable, Unpaid
  <2>3. j \in ClaimRecord /\ j.gen <= gen /\ j.amount = alloc[j.wallet]
    BY <2>2 DEF ClaimRecord, NoSig
  <2>4. cpc' = [cpc EXCEPT ![c] = "lock"] /\ claim' = [claim EXCEPT ![c] = j] /\ "lock" \in ClaimPCs
    BY <1>7, <2>1 DEF StartClaim, ClaimGoto, ClaimPCs
  <2> HIDE DEF j
  <2>5. /\ ClaimLocals' /\ cpc' \in [Claimant -> ClaimPCs] /\ claim' \in [Claimant -> ClaimRecord]
        /\ cpc'[c] = "lock" /\ ClaimsGoOn(c)
    BY <1>2, <1>3, <2>2, <2>3, <2>4, OneMoves
  <2>6. UNCHANGED lockVars
    BY <1>7 DEF StartClaim
  <2> QED
    BY <1>2, <1>4, <1>6, <2>5, <2>6, OthersHold DEF lockVars, CInv, HeldBy, Claiming
<1>8. CASE LockRow(c)
  <2>1. ClaimGoto(c, "balance") /\ claim' = claim /\ cpc[c] # "idle" /\ "balance" \in ClaimPCs
    BY <1>8 DEF LockRow, ClaimPCs
  <2>2. /\ ClaimLocals' /\ cpc' \in [Claimant -> ClaimPCs] /\ claim' \in [Claimant -> ClaimRecord]
        /\ cpc'[c] = "balance" /\ ClaimsGoOn(c)
    BY <1>2, <1>3, <2>1, Went
  <2> DEFINE w == claim[c].wallet
  <2>3. /\ lock' = [lock EXCEPT ![w] = c] /\ lockLive' = [lockLive EXCEPT ![w] = TRUE]
        /\ lock[w] = NoLock \/ ~lockLive[w]
    BY <1>8 DEF LockRow, Row, Lockable
  <2>4. w \in Wallet /\ Row(c)' = w
    BY <1>4, <2>1 DEF Row
  <2> HIDE DEF w
  <2>5. /\ lock'[w] = c /\ lockLive'[w]
        /\ \A v \in Wallet \ {w} : lock'[v] = lock[v] /\ lockLive'[v] = lockLive[v]
        /\ lock' \in [Wallet -> Claimant \cup {NoLock}] /\ lockLive' \in [Wallet -> BOOLEAN]
    BY <1>4, <2>3, <2>4
  <2> QED
    BY <1>2, <1>6, <2>2, <2>3, <2>4, <2>5, OthersHold DEF CInv, HeldBy
<1>9. CASE RefuseLock(c)
  <2>1. /\ ClaimLocals' /\ cpc' \in [Claimant -> ClaimPCs] /\ claim' \in [Claimant -> ClaimRecord]
        /\ cpc'[c] = "idle" /\ ClaimsGoOn(c)
    BY <1>2, <1>3, <1>9, Returned DEF RefuseLock
  <2>2. UNCHANGED lockVars
    BY <1>9 DEF RefuseLock
  <2> QED
    BY <1>2, <1>4, <1>6, <2>1, <2>2, OthersHold DEF lockVars, CInv, HeldBy, Claiming
<1>10. CASE CheckBalance(c) \/ ClaimFails(c)
  <2>1. PICK label \in {"send", "unlock"} : ClaimGoto(c, label)
    BY <1>10 DEF CheckBalance, ClaimFails
  <2>2. claim' = claim /\ cpc[c] \in {"balance", "send"} /\ label \in ClaimPCs /\ UNCHANGED lockVars
    BY <1>10 DEF CheckBalance, ClaimFails, ClaimPCs
  <2>3. /\ ClaimLocals' /\ cpc' \in [Claimant -> ClaimPCs] /\ claim' \in [Claimant -> ClaimRecord]
        /\ cpc'[c] = label /\ ClaimsGoOn(c)
    BY <1>2, <1>3, <2>1, <2>2, Went
  <2>4. Claiming(c) /\ Row(c)' = Row(c)
    BY <2>2 DEF Claiming, Row
  <2>5. HeldBy(c)
    BY <2>4 DEF CInv, OneClaimPerRow, Holds, HeldBy
  <2>6. HeldBy(c)'
    BY <1>2, <2>2, <2>3, <2>4, <2>5 DEF HeldBy, lockVars, Row, Claiming
  <2> QED
    BY <1>2, <1>4, <1>6, <2>2, <2>3, <2>6, OthersHold DEF lockVars, CInv
<1>11. CASE Unlock(c)
  <2>1. /\ ClaimLocals' /\ cpc' \in [Claimant -> ClaimPCs] /\ claim' \in [Claimant -> ClaimRecord]
        /\ cpc'[c] = "idle" /\ ClaimsGoOn(c)
    BY <1>2, <1>3, <1>11, Returned DEF Unlock
  <2>2. CASE Holds(c)
    <3> DEFINE w == claim[c].wallet
    <3>1. /\ lock' = [lock EXCEPT ![w] = NoLock] /\ lockLive' = [lockLive EXCEPT ![w] = FALSE]
          /\ lock[w] = c
      BY <1>11, <2>2 DEF Unlock, FreeRow, Row, Holds
    <3>2. w \in Wallet
      BY <1>4
    <3> HIDE DEF w
    <3>3. /\ \A v \in Wallet \ {w} : lock'[v] = lock[v] /\ lockLive'[v] = lockLive[v]
          /\ lock' \in [Wallet -> Claimant \cup {NoLock}] /\ lockLive' \in [Wallet -> BOOLEAN]
      BY <1>4, <3>1, <3>2
    <3> QED
      BY <1>2, <1>6, <2>1, <3>1, <3>2, <3>3, OthersHold DEF CInv, HeldBy, Claiming
  <2>3. CASE ~Holds(c)
    <3>1. UNCHANGED lockVars
      BY <1>11, <2>3 DEF Unlock
    <3> QED
      BY <1>2, <1>4, <1>6, <2>1, <3>1, OthersHold DEF lockVars, CInv, HeldBy, Claiming
  <2> QED
    BY <2>2, <2>3
<1> QED
  BY <1>7, <1>8, <1>9, <1>10, <1>11

(* A release that lands, whether the claim learns of it or not. *)
LEMMA CInvLands ==
  ASSUME CInv, NEW c \in Claimant, ClaimLands(c) \/ ClaimUnknown(c)
  PROVE  CInv'
<1>1. CTypeInv /\ cpc[c] = "send" /\ Payout(c) /\ claim[c] \in ClaimRecord /\ ledger \in Seq(Transfers)
  BY DEF CInv, CTypeInv, ClaimTypeOK, TypeOK, ClaimRecord, ClaimLands, ClaimUnknown
<1>2. /\ UNCHANGED <<rowVars, fundVars, leaseVars, pc, job, faults, lockVars>>
      /\ orphans' \in {orphans, orphans \cup {Len(ledger) + 1}}
  BY DEF ClaimLands, ClaimUnknown
<1>3. /\ ledger' \in Seq(Transfers) /\ DOMAIN ledger' = DOMAIN ledger \cup {Len(ledger) + 1}
      /\ Len(ledger) + 1 \in Nat
  BY <1>1, ReleaseTyped
<1>4. TypeOK' /\ InFlightInv'
  <2>1. paidSig' \in [Wallet -> Nat] /\ orphans' \subseteq DOMAIN ledger'
    BY <1>1, <1>2, <1>3 DEF rowVars, CTypeInv, ClaimTypeOK, TypeOK
  <2> QED
    BY <1>1, <1>2, <1>3, <2>1, IssuerTypes DEF rowVars
<1>5. claim[c].gen <= gen /\ \E t \in AllocationTables : claim[c].amount = t[claim[c].wallet]
  BY <1>1 DEF CTypeInv, ClaimLocals
<1>6. /\ ClaimLocals' /\ cpc' \in [Claimant -> ClaimPCs] /\ claim' \in [Claimant -> ClaimRecord]
      /\ cpc'[c] \in {"save", "unlock"} /\ ClaimsGoOn(c)
      /\ claim'[c].wallet = claim[c].wallet /\ claim'[c].gen = claim[c].gen
  <2>1. CASE ClaimLands(c)
    <3> DEFINE j == [claim[c] EXCEPT !.sig = Len(ledger) + 1]
    <3>1. /\ j \in ClaimRecord /\ j.gen = claim[c].gen /\ j.amount = claim[c].amount
          /\ j.wallet = claim[c].wallet /\ j.sig \in DOMAIN ledger'
      BY <1>1, <1>3 DEF ClaimRecord
    <3>2. cpc' = [cpc EXCEPT ![c] = "save"] /\ claim' = [claim EXCEPT ![c] = j] /\ "save" \in ClaimPCs
      BY <2>1 DEF ClaimLands, ClaimGoto, ClaimPCs
    <3> HIDE DEF j
    <3> QED
      BY <1>1, <1>2, <1>3, <1>5, <3>1, <3>2, OneMoves DEF rowVars
  <2>2. CASE ClaimUnknown(c)
    BY <1>1, <1>2, <1>3, <2>2, Went DEF ClaimUnknown, ClaimPCs, rowVars
  <2> QED
    BY <2>1, <2>2
<1>7. CTypeInv'
  <2>1. claimFaults' \in Nat
    BY <1>1 DEF ClaimLands, ClaimUnknown, ClaimFault, CTypeInv, ClaimTypeOK
  <2> QED
    BY <1>1, <1>2, <1>4, <1>6, <2>1 DEF CTypeInv, ClaimTypeOK, ClaimPCs, ClaimRecord, lockVars
<1>8. HeldBy(c)
  BY <1>1 DEF CInv, OneClaimPerRow, Holds, HeldBy
<1>9. HeldBy(c)'
  BY <1>1, <1>2, <1>6, <1>8 DEF HeldBy, lockVars, rowVars, Row, Claiming
<1>10. OneClaimPerRow'
  BY <1>1, <1>2, <1>6, <1>9, OthersHold DEF lockVars, rowVars, CTypeInv, ClaimTypeOK
<1> QED
  BY <1>7, <1>10 DEF CInv

(* The row is signed and free, or was replaced and the update throws. *)
LEMMA CInvSave ==
  ASSUME CInv, NEW c \in Claimant, SaveClaim(c)
  PROVE  CInv'
<1>1. /\ CTypeInv /\ cpc[c] = "save" /\ claim[c].wallet \in Wallet /\ claim[c].sig \in Nat
      /\ claim[c].sig \in DOMAIN ledger /\ ledger \in Seq(Transfers)
  BY DEF CInv, CTypeInv, ClaimTypeOK, TypeOK, ClaimLocals, SaveClaim
<1>2. /\ UNCHANGED <<status, total, alloc, gen, fundVars, leaseVars, ledger, pc, job, faults, claim, claimFaults>>
      /\ ClaimGoto(c, "unlock") /\ "unlock" \in ClaimPCs
  BY DEF SaveClaim, ClaimPCs
<1>3. /\ ClaimLocals' /\ cpc' \in [Claimant -> ClaimPCs] /\ claim' \in [Claimant -> ClaimRecord]
      /\ cpc'[c] = "unlock" /\ ClaimsGoOn(c)
  BY <1>1, <1>2, Went
<1> DEFINE w == claim[c].wallet
           sig == claim[c].sig
<1>4. w \in Wallet /\ Row(c)' = w /\ Row(c) = w /\ sig \in Nat \ {NoSig}
  BY <1>1, <1>2 DEF Row, NoSig
<1>5. \/ /\ claim[c].gen = gen
         /\ paidSig' = [paidSig EXCEPT ![w] = sig]
         /\ lock' = [lock EXCEPT ![w] = NoLock] /\ lockLive' = [lockLive EXCEPT ![w] = FALSE]
         /\ UNCHANGED orphans
      \/ /\ claim[c].gen # gen /\ orphans' = orphans \cup {sig} /\ UNCHANGED <<paidSig, lockVars>>
  BY <1>4 DEF SaveClaim, FreeRow
<1>6. sig \in DOMAIN ledger
  BY <1>1
<1> HIDE DEF w, sig
<1>7. /\ paidSig' \in [Wallet -> Nat] /\ orphans' \subseteq DOMAIN ledger'
      /\ lock' \in [Wallet -> Claimant \cup {NoLock}] /\ lockLive' \in [Wallet -> BOOLEAN]
      /\ \A v \in Wallet \ {w} : lock'[v] = lock[v] /\ lockLive'[v] = lockLive[v] /\ paidSig'[v] = paidSig[v]
      /\ \/ paidSig'[w] # NoSig
         \/ claim[c].gen # gen /\ lock'[w] = lock[w] /\ lockLive'[w] = lockLive[w] /\ paidSig'[w] = paidSig[w]
  <2>1. /\ paidSig \in [Wallet -> Nat] /\ orphans \subseteq DOMAIN ledger /\ ledger' = ledger
        /\ lock \in [Wallet -> Claimant \cup {NoLock}] /\ lockLive \in [Wallet -> BOOLEAN]
    BY <1>1, <1>2 DEF CTypeInv, ClaimTypeOK, TypeOK
  <2>2. CASE orphans' = orphans \cup {sig} /\ UNCHANGED <<paidSig, lockVars>> /\ claim[c].gen # gen
    BY <1>4, <1>6, <2>1, <2>2 DEF lockVars
  <2>3. CASE /\ paidSig' = [paidSig EXCEPT ![w] = sig]
             /\ lock' = [lock EXCEPT ![w] = NoLock] /\ lockLive' = [lockLive EXCEPT ![w] = FALSE]
             /\ UNCHANGED orphans
    <3>1. paidSig' \in [Wallet -> Nat] /\ paidSig'[w] # NoSig /\ \A v \in Wallet \ {w} : paidSig'[v] = paidSig[v]
      BY <1>4, <2>1, <2>3
    <3>2. lock' \in [Wallet -> Claimant \cup {NoLock}] /\ \A v \in Wallet \ {w} : lock'[v] = lock[v]
      BY <1>4, <2>1, <2>3
    <3>3. lockLive' \in [Wallet -> BOOLEAN] /\ \A v \in Wallet \ {w} : lockLive'[v] = lockLive[v]
      BY <1>4, <2>1, <2>3
    <3> QED
      BY <2>1, <2>3, <3>1, <3>2, <3>3
  <2> QED
    BY <1>5, <2>2, <2>3
<1>8. CTypeInv'
  <2>1. TypeOK' /\ InFlightInv'
    BY <1>1, <1>2, <1>7, IssuerTypes
  <2> QED
    BY <1>1, <1>2, <1>3, <1>7, <2>1 DEF CTypeInv, ClaimTypeOK, ClaimPCs, ClaimRecord
<1>9. HeldBy(c)'
  BY <1>2, <1>4, <1>7 DEF HeldBy
<1>10. OneClaimPerRow'
  BY <1>3, <1>4, <1>7, <1>9, OthersHold
<1> QED
  BY <1>8, <1>10 DEF CInv

(* A claim that is killed, or whose update throws. *)
LEMMA CInvGivesUp ==
  ASSUME CInv, NEW c \in Claimant, ClaimCrash(c) \/ ClaimDatabaseError(c)
  PROVE  CInv'
<1>1. CTypeInv /\ claim[c].wallet \in Wallet
  BY DEF CInv, CTypeInv, ClaimTypeOK
<1>2. /\ UNCHANGED <<rowVars, fundVars, leaseVars, ledger, pc, job, faults, lockVars>>
      /\ orphans' = orphans \cup ClaimInFlight(c)
      /\ claimFaults' = claimFaults - 1 /\ claimFaults > 0
  BY DEF ClaimCrash, ClaimDatabaseError, ClaimFault
<1>3. ClaimInFlight(c) \subseteq DOMAIN ledger
  BY <1>1 DEF ClaimInFlight, CTypeInv, ClaimLocals
<1>4. TypeOK' /\ InFlightInv' /\ claimFaults' \in Nat
  <2>1. /\ paidSig' \in [Wallet -> Nat] /\ orphans' \subseteq DOMAIN ledger'
        /\ ledger' \in Seq(Transfers) /\ DOMAIN ledger \subseteq DOMAIN ledger'
    BY <1>1, <1>2, <1>3 DEF rowVars, CTypeInv, ClaimTypeOK, TypeOK
  <2> QED
    BY <1>1, <1>2, <2>1, IssuerTypes DEF rowVars, CTypeInv, ClaimTypeOK
<1>5. /\ ClaimLocals' /\ cpc' \in [Claimant -> ClaimPCs] /\ claim' \in [Claimant -> ClaimRecord]
      /\ ClaimsGoOn(c)
      /\ \/ cpc'[c] = "idle"
         \/ cpc'[c] = "unlock" /\ claim' = claim /\ Claiming(c)
  <2>1. CASE ClaimCrash(c)
    BY <1>1, <1>2, <2>1, Returned DEF ClaimCrash, rowVars
  <2>2. CASE ClaimDatabaseError(c)
    BY <1>1, <1>2, <2>2, Went DEF ClaimDatabaseError, ClaimPCs, rowVars, Claiming
  <2> QED
    BY <2>1, <2>2
<1>6. CTypeInv'
  BY <1>1, <1>2, <1>4, <1>5 DEF CTypeInv, ClaimTypeOK, ClaimPCs, ClaimRecord, lockVars
<1>7. HeldBy(c)'
  <2>1. CASE cpc'[c] = "idle"
    BY <2>1 DEF HeldBy, Claiming
  <2>2. CASE cpc'[c] = "unlock" /\ claim' = claim /\ Claiming(c)
    <3>1. HeldBy(c)
      BY <2>2 DEF CInv, OneClaimPerRow, Holds, HeldBy
    <3> QED
      BY <1>2, <2>2, <3>1 DEF HeldBy, lockVars, rowVars, Row, Claiming
  <2> QED
    BY <1>5, <2>1, <2>2
<1>8. OneClaimPerRow'
  BY <1>1, <1>2, <1>5, <1>7, OthersHold DEF lockVars, rowVars
<1> QED
  BY <1>6, <1>8 DEF CInv

(* A lock runs out only when its writer has stopped. *)
LEMMA CInvExpire ==
  ASSUME MaxDurationEnforced, CInv, NEW w \in Wallet, ExpireLock(w)
  PROVE  CInv'
<1>1. /\ UNCHANGED <<vars, lock, cpc, claim, claimFaults>>
      /\ lockLive' = [lockLive EXCEPT ![w] = FALSE]
      /\ \A c \in Claimant : ~(Claiming(c) /\ Row(c) = w /\ Holds(c))
  BY DEF ExpireLock
<1>2. lockLive' \in [Wallet -> BOOLEAN] /\ \A v \in Wallet \ {w} : lockLive'[v] = lockLive[v]
  BY <1>1 DEF CInv, CTypeInv, ClaimTypeOK
<1>3. CTypeInv'
  BY <1>1, <1>2 DEF vars, rowVars, fundVars, leaseVars, chainVars,
                    CInv, CTypeInv, ClaimTypeOK, TypeOK, InFlightInv, ClaimLocals
<1>4. OneClaimPerRow'
  <2> SUFFICES ASSUME NEW c \in Claimant, Claiming(c)', claim'[c].gen = gen', paidSig'[Row(c)'] = NoSig
               PROVE  lock'[Row(c)'] = c /\ lockLive'[Row(c)']
    BY DEF OneClaimPerRow, Holds, Row, Claiming
  <2>1. Claiming(c) /\ claim[c].gen = gen /\ paidSig[Row(c)] = NoSig /\ Row(c)' = Row(c) /\ Row(c) \in Wallet
    BY <1>1 DEF vars, rowVars, Claiming, Row, CInv, CTypeInv, ClaimTypeOK
  <2>2. lock[Row(c)] = c /\ lockLive[Row(c)]
    BY <2>1 DEF CInv, OneClaimPerRow, Holds
  <2> QED
    BY <1>1, <1>2, <2>1, <2>2 DEF Holds
<1> QED
  BY <1>3, <1>4 DEF CInv

-----------------------------------------------------------------------------
(* The issuer's steps: a row keeps its signature, or is of a later         *)
(* generation.                                                             *)
LEMMA RowsKept ==
  ASSUME TypeInv, [Next]_vars
  PROVE  /\ gen' \in Nat /\ gen' >= gen /\ DOMAIN ledger \subseteq DOMAIN ledger'
         /\ gen' = gen => \A w \in Wallet : paidSig'[w] = NoSig => paidSig[w] = NoSig
<1>1. gen \in Nat /\ paidSig \in [Wallet -> Nat] /\ ledger \in Seq(Transfers)
  BY DEF TypeInv, TypeOK
<1>2. CASE UNCHANGED vars
  BY <1>1, <1>2 DEF vars, rowVars, chainVars
<1>3. ASSUME NEW r \in Request, Snapshot(r)
      PROVE  /\ gen' \in Nat /\ gen' >= gen /\ ledger' = ledger
             /\ gen' = gen => paidSig' = paidSig
  BY <1>1, <1>3 DEF Snapshot, StartSnapshot, CommitSnapshot, RefuseSnapshot, rowVars, chainVars
<1>4. ASSUME NEW r \in Request, Execute(r) \/ Fault(r), ~PaySave(r),
             ~TransferLands(r), ~TransferUnknown(r)
      PROVE  gen' = gen /\ paidSig' = paidSig /\ ledger' = ledger
  BY <1>4 DEF Execute, Fault, StartExecute, Claim, ClaimRefused, FundLoad, FundSave, PayLoad, Renew,
     TransferFails, Mark, Release, Crash, DatabaseError, rowVars, chainVars
<1>5. ASSUME NEW r \in Request, PaySave(r)
      PROVE  /\ gen' = gen /\ ledger' = ledger
             /\ \A w \in Wallet : paidSig'[w] = NoSig => paidSig[w] = NoSig
  BY <1>1, <1>5 DEF PaySave, chainVars
<1>6. ASSUME NEW r \in Request, TransferLands(r) \/ TransferUnknown(r)
      PROVE  gen' = gen /\ paidSig' = paidSig /\ DOMAIN ledger \subseteq DOMAIN ledger'
  <2>1. gen' = gen /\ paidSig' = paidSig
    BY <1>6 DEF TransferLands, TransferUnknown, rowVars
  <2>2. PICK b \in Outgoing(r) : ledger' = Append(ledger, Transfer(job[r].mode, b, job[r].rows))
    BY <1>6 DEF TransferLands, TransferUnknown
  <2> QED
    BY <2>1, <2>2, TypeLanded
<1>7. CASE Expire \/ Done
  BY <1>1, <1>7 DEF Expire, Done, vars, rowVars, chainVars
<1> QED
  BY <1>1, <1>2, <1>3, <1>4, <1>5, <1>6, <1>7 DEF Next

LEMMA CInvIssuer ==
  ASSUME CInv, [Next]_vars, UNCHANGED <<cpc, claim, claimFaults>>,
         \/ UNCHANGED lockVars
         \/ /\ gen' = gen + 1
            /\ lock' = [w \in Wallet |-> NoLock] /\ lockLive' = [w \in Wallet |-> FALSE]
  PROVE  CInv'
<1>1. TypeInv /\ TypeInv'
  BY TypeStep DEF CInv, CTypeInv, ClaimTypeOK, TypeInv
<1>2. /\ gen \in Nat /\ gen' \in Nat /\ gen' >= gen /\ DOMAIN ledger \subseteq DOMAIN ledger'
      /\ gen' = gen => \A w \in Wallet : paidSig'[w] = NoSig => paidSig[w] = NoSig
  BY <1>1, RowsKept DEF TypeInv, TypeOK
<1>3. ClaimTypeOK'
  BY <1>1 DEF CInv, CTypeInv, ClaimTypeOK, TypeInv, lockVars
<1>4. ClaimLocals'
  BY <1>2 DEF CInv, CTypeInv, ClaimTypeOK, ClaimLocals
<1>5. OneClaimPerRow'
  <2> SUFFICES ASSUME NEW c \in Claimant, Claiming(c)', claim'[c].gen = gen', paidSig'[Row(c)'] = NoSig
               PROVE  lock'[Row(c)'] = c /\ lockLive'[Row(c)']
    BY DEF OneClaimPerRow, Holds, Row, Claiming
  <2>1. Claiming(c) /\ claim'[c] = claim[c] /\ Row(c)' = Row(c) /\ Row(c) \in Wallet
    BY DEF Claiming, Row, CInv, CTypeInv, ClaimTypeOK
  <2>2. claim[c].gen \in Nat /\ claim[c].gen <= gen
    BY <2>1 DEF CInv, CTypeInv, ClaimTypeOK, ClaimLocals, Claiming
  <2>3. gen' = gen /\ UNCHANGED lockVars
    BY <1>2, <2>1, <2>2
  <2>4. lock[Row(c)] = c /\ lockLive[Row(c)]
    BY <1>2, <2>1, <2>3 DEF CInv, OneClaimPerRow, Holds
  <2> QED
    BY <2>1, <2>3, <2>4 DEF lockVars
<1> QED
  BY <1>1, <1>3, <1>4, <1>5 DEF CInv, CTypeInv, TypeInv

-----------------------------------------------------------------------------
LEMMA CInvStep ==
  ASSUME MaxDurationEnforced
  PROVE  CInv /\ [ClaimNext]_allVars => CInv'
<1> SUFFICES ASSUME CInv, [ClaimNext]_allVars
             PROVE  CInv'
  OBVIOUS
<1>1. CASE UNCHANGED allVars
  BY <1>1, CInvIssuer DEF allVars, claimVars
<1>2. ASSUME NEW r \in Request, ReplaceRows(r)
      PROVE  CInv'
  BY <1>2, CInvIssuer DEF ReplaceRows, CommitSnapshot, Next, Snapshot
<1>3. CASE ((\E r \in Request : Issuer(r)) \/ Expire) /\ UNCHANGED claimVars
  BY <1>3, CInvIssuer DEF Issuer, Next, Snapshot, claimVars
<1>4. ASSUME NEW c \in Claimant, ClaimStep(c)
      PROVE  CInv'
  BY <1>4, CInvQuiet, CInvLands, CInvSave, CInvGivesUp DEF ClaimStep
<1>5. CASE ClaimDone
  BY <1>5, CInvIssuer DEF ClaimDone, Done, claimVars
<1> QED
  BY <1>1, <1>2, <1>3, <1>4, <1>5, CInvExpire DEF ClaimNext

(* No lock is handed to a second claim while the first still works on the  *)
(* row, for any number of claims, requests, snapshots and faults.          *)
THEOREM OneClaim ==
  ASSUME MaxDurationEnforced
  PROVE  ClaimSpec => []OneClaimPerRow
<1>1. CInv => OneClaimPerRow
  BY DEF CInv
<1> QED
  BY <1>1, CInvInit, CInvStep, PTL DEF ClaimSpec

-----------------------------------------------------------------------------
(* What an undisturbed issuer owes to the claims.                          *)

(* The holders that the recorded funding is for. *)
FundedFor == IF fundSig \in DOMAIN ledger THEN Covers(fundSig) ELSE {}

(* Without crashes and database errors of its own, the issuer's side only   *)
(* has to finish once the funding is recorded, and no claim starts before. *)
FundingEnds ==
    /\ fundSig # NoSig =>
          /\ payoutMode = "ESCROW"
          /\ status = "EXECUTED" \/ \E r \in Request : pc[r] = "mark" /\ job[r].mode = "escrow"
    /\ fundSig = NoSig => NoClaims /\ \A c \in Claimant : cpc[c] = "idle"

(* The recorded funding is worth the rows it covers; these are all the     *)
(* unsigned rows and the ones signed by claims.                            *)
FundingStands ==
    /\ fundSig \in DOMAIN ledger =>
          /\ ledger[fundSig].kind = "escrow"
          /\ \A w \in FundedFor : ledger[fundSig].pays[w] = alloc[w]
    /\ fundSig # NoSig =>
          /\ Unpaid \subseteq FundedFor
          /\ \A w \in FundedFor : w \in Recorded => ledger[paidSig[w]].kind = "claim"
    /\ \A w \in Recorded : ledger[paidSig[w]].kind = "claim" => w \in FundedFor

ReleaseOf(c) == [kind |-> "claim", pays |-> [w \in {Row(c)} |-> claim[c].amount]]

(* A claim works on a row of the table in force that the funding covers,   *)
(* and the row stays unsigned until the claim signs it.                    *)
ClaimWorks(c) ==
    /\ cpc[c] # "idle" =>
          /\ claim[c].gen = gen /\ Row(c) \in FundedFor
          /\ claim[c].amount = alloc[Row(c)] /\ alloc[Row(c)] > 0
    /\ cpc[c] \in {"balance", "send", "save"} => Row(c) \in Unpaid
    /\ cpc[c] = "save" =>
          claim[c].sig \notin orphans /\ ledger[claim[c].sig] = ReleaseOf(c)

(* A release that is not given up is on its row, or about to be. *)
ReleasesRecorded ==
    \A i \in DOMAIN ledger \ orphans :
        ledger[i].kind = "claim" =>
            \A w \in Covers(i) :
                \/ paidSig[w] = i
                \/ \E c \in Claimant : cpc[c] = "save" /\ claim[c].sig = i /\ Row(c) = w

(* The row's total is that of its table. *)
TotalStands == status # "DRAFT" => total = TotalOf(alloc)

(* No request of the issuer has been killed or met a database error yet.   *)
NoIssuerFaults == faults["crash"] = MaxCrashes /\ faults["error"] = MaxErrors

EInv ==
    /\ CInv /\ (\A r \in Request : Handler(r)) /\ RowsInv
    /\ NoIssuerFaults /\ TotalStands
    /\ FundingEnds /\ FundingStands
    /\ (\A c \in Claimant : ClaimWorks(c)) /\ ReleasesRecorded

-----------------------------------------------------------------------------
(* What the invariant says of who runs beside a claim. *)

LEMMA EInvParts ==
  ASSUME EInv
  PROVE  /\ CInv /\ CTypeInv /\ TypeInv /\ TypeOK /\ IInv /\ RowsInv
         /\ cpc \in [Claimant -> ClaimPCs] /\ claim \in [Claimant -> ClaimRecord]
         /\ ledger \in Seq(Transfers) /\ orphans \subseteq DOMAIN ledger
         /\ paidSig \in [Wallet -> Nat] /\ NoSig \notin DOMAIN ledger /\ Unpaid \subseteq Wallet
<1>1. CInv /\ CTypeInv /\ TypeInv /\ TypeOK /\ IInv /\ RowsInv
  BY DEF EInv, CInv, CTypeInv, ClaimTypeOK, TypeInv, IInv
<1>2. cpc \in [Claimant -> ClaimPCs] /\ claim \in [Claimant -> ClaimRecord]
  BY <1>1 DEF CTypeInv, ClaimTypeOK, ClaimPCs, ClaimRecord
<1>3. ledger \in Seq(Transfers) /\ orphans \subseteq DOMAIN ledger /\ paidSig \in [Wallet -> Nat]
  BY <1>1 DEF TypeOK
<1>4. NoSig \notin DOMAIN ledger /\ Unpaid \subseteq Wallet
  BY <1>3 DEF NoSig, Unpaid
<1> QED
  BY <1>1, <1>2, <1>3, <1>4

(* Once the funding is recorded, a handler with the lease only finishes. *)
LEMMA FundedFinishes ==
  ASSUME EInv, fundSig # NoSig, NEW q \in Request, pc[q] \in LeasedPCs
  PROVE  pc[q] = "mark" /\ job[q].mode = "escrow"
<1>1. Executing(q) /\ status = "SNAPSHOTTED"
  BY DEF EInv, Handler, Controlled
<1>2. PICK r \in Request : pc[r] = "mark" /\ job[r].mode = "escrow"
  BY <1>1 DEF EInv, FundingEnds
<1>3. Executing(r)
  BY <1>2 DEF EInv, Handler, Controlled, LeasedPCs
<1>4. q = r
  BY <1>1, <1>3, EInvParts, LeaseExcludes
<1> QED
  BY <1>2, <1>4

LEMMA ClaimMeansFunded ==
  ASSUME EInv, NEW c \in Claimant, cpc[c] # "idle"
  PROVE  fundSig # NoSig /\ fundSig \in DOMAIN ledger
<1>1. fundSig # NoSig
  BY DEF EInv, FundingEnds
<1>2. FundedFor # {}
  BY DEF EInv, ClaimWorks
<1> QED
  BY <1>1, <1>2 DEF FundedFor

(* Two claims that pay work on different rows, with different releases. *)
LEMMA RowsApart ==
  ASSUME EInv, NEW c \in Claimant, NEW d \in Claimant, c # d,
         cpc[c] \in {"balance", "send", "save"}, cpc[d] \in {"balance", "send", "save"}
  PROVE  /\ Row(c) # Row(d)
         /\ cpc[c] = "save" /\ cpc[d] = "save" => claim[c].sig # claim[d].sig
<1>1. ASSUME NEW e \in {c, d} PROVE lock[Row(e)] = e
  <2>1. e \in Claimant /\ Claiming(e) /\ claim[e].gen = gen /\ paidSig[Row(e)] = NoSig
    BY DEF EInv, ClaimWorks, Claiming, Unpaid
  <2> QED
    BY <2>1 DEF EInv, CInv, OneClaimPerRow, Holds
<1>2. Row(c) # Row(d)
  BY <1>1
<1>3. ASSUME cpc[c] = "save", cpc[d] = "save" PROVE claim[c].sig # claim[d].sig
  <2>1. ledger[claim[c].sig] = ReleaseOf(c) /\ ledger[claim[d].sig] = ReleaseOf(d)
    BY <1>3 DEF EInv, ClaimWorks
  <2>2. DOMAIN ReleaseOf(c).pays = {Row(c)} /\ DOMAIN ReleaseOf(d).pays = {Row(d)}
    BY DEF ReleaseOf
  <2> QED
    BY <1>2, <2>1, <2>2
<1> QED
  BY <1>2, <1>3

LEMMA EInvInit == ClaimInit => EInv
<1> SUFFICES ASSUME ClaimInit PROVE EInv
  OBVIOUS
<1>1. CInv /\ IInv
  BY CInvInit, InvInit DEF ClaimInit
<1>2. NoIssuerFaults /\ TotalStands
  BY DEF ClaimInit, Init, NoIssuerFaults, TotalStands
<1>3. fundSig = NoSig /\ ledger = <<>> /\ Recorded = {} /\ \A c \in Claimant : cpc[c] = "idle"
  BY DEF ClaimInit, Init, Recorded
<1>4. FundingEnds /\ FundingStands /\ ReleasesRecorded /\ \A c \in Claimant : ClaimWorks(c)
  BY <1>3 DEF FundingEnds, FundingStands, ReleasesRecorded, ClaimWorks, NoClaims, FundedFor, NoSig
<1> QED
  BY <1>1, <1>2, <1>4 DEF EInv, IInv

-----------------------------------------------------------------------------
(* The issuer's steps. *)

(* The requests of an issuer without faults: they either leave the rows,   *)
(* the funding and the chain alone, or are one of these.                   *)
QuietIssuer ==
    /\ UNCHANGED <<rowVars, fundVars, chainVars, faults>>
    /\ \A r \in Request : pc[r] = "mark" => pc'[r] = pc[r] /\ job'[r] = job[r]

LEMMA IssuerCases ==
  ASSUME EInv, [Next]_vars, NoIssuerFaults'
  PROVE  \/ QuietIssuer
         \/ \E r \in Request :
               \/ CommitSnapshot(r) \/ FundSave(r) \/ PaySave(r)
               \/ TransferLands(r) \/ TransferUnknown(r) \/ Mark(r)
<1> USE EInvParts
<1>1. pc \in [Request -> PCs] /\ job \in [Request -> JobRecord]
  BY DEF TypeOK
<1>2. CASE UNCHANGED vars \/ Expire \/ Done
  BY <1>2 DEF vars, Expire, Done, QuietIssuer
<1>3. ASSUME NEW r \in Request, StartSnapshot(r) \/ RefuseSnapshot(r)
      PROVE  QuietIssuer
  BY <1>1, <1>3 DEF StartSnapshot, RefuseSnapshot, Return, Goto, QuietIssuer
<1>4. ASSUME NEW r \in Request, StartExecute(r) \/ Claim(r) \/ ClaimRefused(r) \/ Release(r)
      PROVE  QuietIssuer
  BY <1>1, <1>4 DEF StartExecute, Claim, ClaimRefused, Release, Return, Goto, QuietIssuer
<1>5. ASSUME NEW r \in Request, FundLoad(r) \/ PayLoad(r) \/ Renew(r) \/ TransferFails(r)
      PROVE  QuietIssuer
  BY <1>1, <1>5 DEF FundLoad, PayLoad, Renew, TransferFails, Goto, QuietIssuer
<1>6. ASSUME NEW r \in Request PROVE ~Crash(r) /\ ~DatabaseError(r)
  <2>1. faults["crash"] = MaxCrashes /\ faults["error"] = MaxErrors
    BY DEF EInv, NoIssuerFaults
  <2>2. /\ faults'["crash"] = MaxCrashes /\ faults'["error"] = MaxErrors
        /\ MaxCrashes \in Nat /\ MaxErrors \in Nat
    BY ConstantsAssumption DEF NoIssuerFaults
  <2>3. faults \in [{"crash", "error", "unknown"} -> Nat]
    BY DEF TypeOK
  <2> QED
    BY <2>1, <2>2, <2>3 DEF Crash, DatabaseError
<1> QED
  BY <1>2, <1>3, <1>4, <1>5, <1>6 DEF Next, Snapshot, Execute, Fault

(* A step before the funding is recorded leaves the claims nothing to do.  *)
LEMMA StillUnfunded ==
  ASSUME fundSig' = NoSig, NoClaims', \A c \in Claimant : cpc'[c] = "idle", TypeInv', RowsInv'
  PROVE  /\ FundingEnds' /\ FundingStands' /\ ReleasesRecorded'
         /\ \A c \in Claimant : ClaimWorks(c)'
<1>1. NoSig \notin DOMAIN ledger'
  BY DEF NoSig, TypeInv, TypeOK
<1>2. \A w \in Recorded' : paidSig'[w] \in DOMAIN ledger'
  BY DEF RowsInv, RecordedMeansPaid
<1> QED
  BY <1>1, <1>2 DEF FundingEnds, FundingStands, FundedFor, ReleasesRecorded, ClaimWorks, NoClaims

(* A step after it that leaves the rows, the funding and the chain alone.  *)
LEMMA StillFunded ==
  ASSUME EInv, fundSig # NoSig, payoutMode' = payoutMode,
         UNCHANGED <<fundSig, alloc, gen, paidSig, chainVars, cpc, claim>>,
         status' = "EXECUTED" \/
            /\ status' = status
            /\ \A r \in Request : pc[r] = "mark" => pc'[r] = pc[r] /\ job'[r] = job[r]
  PROVE  /\ FundingEnds' /\ FundingStands' /\ ReleasesRecorded'
         /\ \A c \in Claimant : ClaimWorks(c)'
<1> USE DEF EInv, chainVars
<1>1. FundingEnds'
  BY DEF FundingEnds
<1>2. FundedFor' = FundedFor /\ Unpaid' = Unpaid /\ Recorded' = Recorded
  BY DEF FundedFor, Covers, Unpaid, Recorded
<1>3. FundingStands'
  BY <1>2 DEF FundingStands
<1>4. ReleasesRecorded'
  BY DEF ReleasesRecorded, Covers, Row
<1>5. ASSUME NEW c \in Claimant PROVE ClaimWorks(c)'
  <2>1. Row(c)' = Row(c) /\ ReleaseOf(c)' = ReleaseOf(c)
    BY DEF Row, ReleaseOf
  <2> QED
    BY <1>2, <2>1 DEF ClaimWorks
<1> QED
  BY <1>1, <1>3, <1>4, <1>5

(* The claims, and what makes the funding theirs. *)
ClaimSide ==
    /\ FundingEnds /\ FundingStands /\ ReleasesRecorded
    /\ \A c \in Claimant : ClaimWorks(c)

(* Before the funding is recorded, a handler holds the lease to pay or to  *)
(* fund; afterwards only one that is about to finish.                      *)
LEMMA UnfundedHandler ==
  ASSUME EInv, NEW r \in Request, pc[r] \in LeasedPCs, pc[r] # "mark" \/ job[r].mode # "escrow"
  PROVE  fundSig = NoSig /\ NoClaims /\ \A c \in Claimant : cpc[c] = "idle"
<1>1. fundSig = NoSig
  BY FundedFinishes
<1> QED
  BY <1>1 DEF EInv, FundingEnds

LEMMA IssuerCommit ==
  ASSUME EInv, CInv', IInv', UNCHANGED <<cpc, claim>>, NEW r \in Request, CommitSnapshot(r)
  PROVE  ClaimSide' /\ NoIssuerFaults' /\ TotalStands'
<1>1. LeaseFree /\ status # "EXECUTED"
  BY DEF CommitSnapshot, SnapshotAllowed
<1>2. fundSig = NoSig
  <2>1. \A q \in Request : pc[q] \notin LeasedPCs
    BY <1>1, EInvParts, LeaseFreeMeansNobody
  <2> QED
    BY <1>1, <2>1 DEF EInv, FundingEnds, LeasedPCs
<1>3. NoClaims /\ \A c \in Claimant : cpc[c] = "idle"
  BY <1>2 DEF EInv, FundingEnds
<1>4. /\ UNCHANGED <<fundVars, chainVars, faults>>
      /\ status' = "SNAPSHOTTED" /\ total' = TotalOf(job[r].rows) /\ alloc' = job[r].rows
  BY DEF CommitSnapshot
<1>5. fundSig' = NoSig /\ NoClaims' /\ \A c \in Claimant : cpc'[c] = "idle"
  BY <1>2, <1>3, <1>4 DEF NoClaims, fundVars, chainVars
<1>6. TypeInv' /\ RowsInv'
  BY DEF IInv
<1>7. ClaimSide'
  BY <1>5, <1>6, StillUnfunded DEF ClaimSide
<1> QED
  BY <1>4, <1>7 DEF EInv, NoIssuerFaults, TotalStands

(* Recording the funding: it is worth the unsigned rows, and nobody has    *)
(* claimed from it.                                                        *)
LEMMA IssuerFundSave ==
  ASSUME EInv, CInv', IInv', UNCHANGED <<cpc, claim>>, NEW r \in Request, FundSave(r)
  PROVE  ClaimSide' /\ NoIssuerFaults' /\ TotalStands'
<1> USE EInvParts
<1>1. /\ pc[r] = "fundSave" /\ Handler(r) /\ job[r].mode = "escrow" /\ lease = r
      /\ job[r].sig \in DOMAIN ledger \cup {NoTransfer}
  BY DEF FundSave, EInv, Handler, Controlled, LeasedPCs, TypeInv, InFlightInv
<1>2. fundSig = NoSig /\ NoClaims /\ \A c \in Claimant : cpc[c] = "idle"
  BY <1>1, UnfundedHandler DEF LeasedPCs
<1>3. /\ UNCHANGED <<rowVars, chainVars, job, faults>>
      /\ fundSig' = job[r].sig /\ payoutMode' = "ESCROW" /\ pc'[r] = "mark"
  BY <1>1 DEF FundSave, Goto, TypeOK
<1>4. NoTransfer \notin DOMAIN ledger /\ NoTransfer # NoSig
  BY DEF NoTransfer, NoSig
<1>5. /\ job[r].sig = NoTransfer => Unpaid = {}
      /\ job[r].sig # NoTransfer => ledger[job[r].sig] = Transfer("escrow", Unpaid, alloc)
  BY <1>1 DEF Handler, Funding
<1>6. FundedFor' = Unpaid
  <2>1. CASE job[r].sig = NoTransfer
    BY <1>3, <1>4, <1>5, <2>1 DEF FundedFor, chainVars
  <2>2. CASE job[r].sig # NoTransfer
    <3>1. Covers(job[r].sig) = Unpaid
      BY <1>5, <2>2 DEF Covers, Transfer
    <3>2. FundedFor' = Covers(job[r].sig)
      BY <1>1, <1>3, <2>2 DEF FundedFor, Covers, chainVars
    <3> QED
      BY <3>1, <3>2
  <2> QED
    BY <2>1, <2>2
<1>7. Unpaid' = Unpaid /\ Recorded' = Recorded /\ alloc' = alloc /\ paidSig' = paidSig /\ ledger' = ledger
  BY <1>3 DEF Unpaid, Recorded, rowVars, chainVars
<1>8. FundingEnds'
  BY <1>1, <1>3, <1>4 DEF FundingEnds, NoSig
<1>9. FundingStands'
  <2>1. \A w \in Unpaid : w \notin Recorded
    BY DEF Unpaid, Recorded
  <2>2. \A w \in Recorded : paidSig[w] \in DOMAIN ledger
    BY DEF RowsInv, RecordedMeansPaid
  <2>3. fundSig' \in DOMAIN ledger =>
          ledger[fundSig'].kind = "escrow" /\ \A w \in Unpaid : ledger[fundSig'].pays[w] = alloc[w]
    BY <1>3, <1>4, <1>5 DEF Transfer
  <2> QED
    BY <1>2, <1>6, <1>7, <2>1, <2>2, <2>3 DEF FundingStands, NoClaims
<1>10. ReleasesRecorded' /\ \A c \in Claimant : ClaimWorks(c)'
  BY <1>2, <1>7 DEF ReleasesRecorded, ClaimWorks, NoClaims
<1> QED
  BY <1>3, <1>8, <1>9, <1>10 DEF EInv, ClaimSide, NoIssuerFaults, TotalStands, rowVars

(* A handler's transfer is no claim. *)
LEMMA IssuerAppends ==
  ASSUME TypeInv, NEW r \in Request, NEW b \in Outgoing(r),
         ledger' = Append(ledger, Transfer(job[r].mode, b, job[r].rows))
  PROVE  /\ b \in SUBSET Wallet
         /\ DOMAIN ledger' = DOMAIN ledger \cup {Len(ledger) + 1} /\ Len(ledger) + 1 \notin DOMAIN ledger
         /\ Len(ledger) + 1 \in Nat
         /\ \A i \in DOMAIN ledger : ledger'[i] = ledger[i]
         /\ ledger'[Len(ledger) + 1] = Transfer(job[r].mode, b, job[r].rows)
         /\ job[r].mode \in {"escrow", "direct"}
<1>1. ledger \in Seq(Transfers) /\ job[r].mode \in {"escrow", "direct"}
  BY DEF TypeInv, TypeOK, JobRecord
<1>2. b \in SUBSET Wallet /\ job[r].rows \in AllocationTables
  BY OutgoingFromList, JobTyped DEF JobRecord
<1>3. Transfer(job[r].mode, b, job[r].rows) \in Transfers
  BY <1>1, <1>2, TransferTyped
<1> QED
  BY <1>1, <1>2, <1>3, LedgerAppend

LEMMA IssuerPays ==
  ASSUME EInv, CInv', IInv', UNCHANGED <<cpc, claim>>, NEW r \in Request,
         PaySave(r) \/ TransferLands(r) \/ TransferUnknown(r)
  PROVE  ClaimSide' /\ NoIssuerFaults' /\ TotalStands'
<1> USE EInvParts
<1>1. pc[r] \in LeasedPCs /\ pc[r] # "mark"
  BY DEF PaySave, TransferLands, TransferUnknown, LeasedPCs
<1>2. fundSig = NoSig /\ NoClaims /\ \A c \in Claimant : cpc[c] = "idle"
  BY <1>1, UnfundedHandler
<1>3. /\ UNCHANGED <<status, total, alloc, fundVars>>
      /\ faults' = faults \/ faults' = [faults EXCEPT !["unknown"] = @ - 1]
  BY DEF PaySave, TransferLands, TransferUnknown, rowVars
<1>4. NoClaims'
  <2>1. CASE PaySave(r)
    BY <1>2, <2>1 DEF PaySave, NoClaims, chainVars
  <2>2. CASE TransferLands(r) \/ TransferUnknown(r)
    <3>1. PICK b \in Outgoing(r) : ledger' = Append(ledger, Transfer(job[r].mode, b, job[r].rows))
      BY <2>2 DEF TransferLands, TransferUnknown
    <3>2. Transfer(job[r].mode, b, job[r].rows).kind = job[r].mode
      BY DEF Transfer
    <3> QED
      BY <1>2, <3>1, <3>2, IssuerAppends DEF NoClaims
  <2> QED
    BY <2>1, <2>2
<1>5. ClaimSide'
  BY <1>2, <1>3, <1>4, StillUnfunded DEF ClaimSide, fundVars, IInv
<1>6. NoIssuerFaults'
  BY <1>3 DEF EInv, NoIssuerFaults, TypeOK
<1> QED
  BY <1>3, <1>5, <1>6 DEF EInv, TotalStands

LEMMA IssuerMark ==
  ASSUME EInv, CInv', IInv', UNCHANGED <<cpc, claim>>, NEW r \in Request, Mark(r)
  PROVE  ClaimSide' /\ NoIssuerFaults' /\ TotalStands'
<1> USE EInvParts
<1>1. /\ pc[r] = "mark" /\ status = "SNAPSHOTTED" /\ job[r].mode \in {"escrow", "direct"}
      /\ job[r].mode = "escrow" => fundSig = job[r].sig /\ fundSig # NoSig
  BY DEF Mark, EInv, Handler, Controlled, Funding, LeasedPCs, TypeOK, JobRecord
<1>2. /\ UNCHANGED <<total, alloc, gen, paidSig, chainVars, faults>> /\ status' = "EXECUTED"
      /\ fundSig' = fundSig
      /\ job[r].mode = "escrow" => payoutMode' = "ESCROW"
  BY <1>1 DEF Mark
<1>3. CASE job[r].mode = "escrow"
  <2>1. payoutMode' = payoutMode
    BY <1>1, <1>2, <1>3 DEF EInv, FundingEnds
  <2> QED
    BY <1>1, <1>2, <1>3, <2>1, StillFunded DEF ClaimSide, EInv, NoIssuerFaults, TotalStands
<1>4. CASE job[r].mode # "escrow"
  <2>1. fundSig = NoSig /\ NoClaims /\ \A c \in Claimant : cpc[c] = "idle"
    BY <1>1, <1>4, UnfundedHandler DEF LeasedPCs
  <2>2. NoClaims'
    BY <1>2, <2>1 DEF NoClaims, chainVars
  <2> QED
    BY <1>1, <1>2, <2>1, <2>2, StillUnfunded DEF ClaimSide, IInv, EInv, NoIssuerFaults, TotalStands
<1> QED
  BY <1>3, <1>4

LEMMA IssuerQuiet ==
  ASSUME EInv, CInv', IInv', UNCHANGED <<cpc, claim>>, QuietIssuer
  PROVE  ClaimSide' /\ NoIssuerFaults' /\ TotalStands'
<1>1. UNCHANGED <<rowVars, fundVars, chainVars, faults>>
  BY DEF QuietIssuer
<1>2. ClaimSide'
  <2>1. CASE fundSig = NoSig
    <3>1. NoClaims /\ \A c \in Claimant : cpc[c] = "idle"
      BY <2>1 DEF EInv, FundingEnds
    <3>2. fundSig' = NoSig /\ NoClaims' /\ \A c \in Claimant : cpc'[c] = "idle"
      BY <1>1, <2>1, <3>1 DEF NoClaims, fundVars, chainVars
    <3> QED
      BY <3>2, StillUnfunded DEF ClaimSide, IInv
  <2>2. CASE fundSig # NoSig
    BY <1>1, <2>2, StillFunded DEF ClaimSide, QuietIssuer, rowVars, fundVars
  <2> QED
    BY <2>1, <2>2
<1> QED
  BY <1>1, <1>2 DEF EInv, NoIssuerFaults, TotalStands, rowVars

LEMMA IssuerKeeps ==
  ASSUME EInv, CInv', IInv', UNCHANGED <<cpc, claim>>, [Next]_vars, NoIssuerFaults'
  PROVE  EInv'
<1>1. ClaimSide' /\ NoIssuerFaults' /\ TotalStands'
  BY IssuerCases, IssuerQuiet, IssuerCommit, IssuerFundSave, IssuerPays, IssuerMark
<1> QED
  BY <1>1 DEF ClaimSide, EInv, IInv

-----------------------------------------------------------------------------
(* A claim's steps. *)

OthersGoOn(c) == \A d \in Claimant \ {c} : cpc'[d] = cpc[d] /\ claim'[d] = claim[d]

IssuerStands == UNCHANGED <<status, total, alloc, gen, fundVars, leaseVars, pc, job, faults>>

LEMMA GotoMoves ==
  ASSUME EInv, NEW c \in Claimant, NEW label, ClaimGoto(c, label)
  PROVE  cpc'[c] = label /\ \A d \in Claimant \ {c} : cpc'[d] = cpc[d]
BY EInvParts DEF ClaimGoto

LEMMA OneSteps ==
  ASSUME EInv, NEW c \in Claimant, ClaimStep(c)
  PROVE  OthersGoOn(c) /\ IssuerStands
<1>1. IssuerStands
  BY DEF ClaimStep, StartClaim, LockRow, RefuseLock, CheckBalance, ClaimLands, ClaimFails, SaveClaim,
     Unlock, ClaimUnknown, ClaimCrash, ClaimDatabaseError, IssuerStands, vars, rowVars
<1>2. PICK label : ClaimGoto(c, label)
  BY DEF ClaimStep, StartClaim, LockRow, RefuseLock, CheckBalance, ClaimLands, ClaimFails, SaveClaim,
     Unlock, ClaimUnknown, ClaimCrash, ClaimDatabaseError, ClaimReturn
<1>3. claim \in [Claimant -> ClaimRecord]
  BY EInvParts
<1>4. \A d \in Claimant \ {c} : claim'[d] = claim[d]
  <2>1. CASE StartClaim(c) \/ ClaimLands(c)
    BY <1>3, <2>1 DEF StartClaim, ClaimLands
  <2>2. CASE ClaimReturn(c)
    BY <1>3, <2>2 DEF ClaimReturn
  <2>3. CASE UNCHANGED claim
    BY <2>3
  <2> QED
    BY <2>1, <2>2, <2>3 DEF ClaimStep, LockRow, RefuseLock, CheckBalance, ClaimFails, SaveClaim,
       Unlock, ClaimUnknown, ClaimCrash, ClaimDatabaseError
<1> QED
  BY <1>1, <1>2, <1>4, GotoMoves DEF OthersGoOn

(* A claim runs only beside handlers that finish: what the invariant says  *)
(* of them does not depend on the rows and the chain.                      *)
LEMMA HandlersKept ==
  ASSUME EInv, fundSig # NoSig, IssuerStands
  PROVE  /\ \A q \in Request : Handler(q)'
         /\ NoIssuerFaults' /\ TotalStands' /\ FundingEnds'
<1> USE DEF IssuerStands, fundVars, leaseVars
<1>1. ASSUME NEW q \in Request PROVE Handler(q)'
  <2>1. Handler(q)
    BY DEF EInv
  <2>2. Controlled(q)'
    BY <2>1 DEF Handler, Controlled, Executing
  <2>3. CASE pc[q] \notin LeasedPCs
    BY <2>2, <2>3 DEF Handler, Funding, Paying, LeasedPCs
  <2>4. CASE pc[q] = "mark" /\ job[q].mode = "escrow"
    BY <2>1, <2>2, <2>4 DEF Handler, Funding, Paying
  <2> QED
    BY <2>3, <2>4, FundedFinishes
<1>2. NoIssuerFaults' /\ TotalStands' /\ FundingEnds'
  BY DEF EInv, NoIssuerFaults, TotalStands, FundingEnds
<1> QED
  BY <1>1, <1>2

(* What every step of a claim keeps by being one that the funding allows. *)
LEMMA Together ==
  ASSUME EInv, fundSig # NoSig, IssuerStands, CInv', RecordedMeansPaid', LedgerInv',
         FundingStands', ReleasesRecorded', \A d \in Claimant : ClaimWorks(d)'
  PROVE  EInv'
<1>1. DirectExecutedMeansPaid'
  BY DEF EInv, FundingEnds, IssuerStands, fundVars, DirectExecutedMeansPaid
<1> QED
  BY <1>1, HandlersKept DEF EInv, RowsInv

(* No handler is saving a transfer while a claim runs. *)
LEMMA NoSaver ==
  ASSUME EInv, fundSig # NoSig, NEW q \in Request
  PROVE  pc[q] \notin {"fundSave", "paySave"}
BY FundedFinishes DEF LeasedPCs

(* The steps that change neither the rows nor the chain. *)
LEMMA QuietClaim ==
  ASSUME EInv, CInv', NEW c \in Claimant,
         StartClaim(c) \/ LockRow(c) \/ RefuseLock(c) \/ CheckBalance(c) \/ ClaimFails(c) \/ Unlock(c)
  PROVE  EInv'
<1> USE EInvParts
<1>1. OthersGoOn(c) /\ IssuerStands
  BY OneSteps DEF ClaimStep
<1>2. UNCHANGED vars
  BY DEF StartClaim, LockRow, RefuseLock, CheckBalance, ClaimFails, Unlock
<1>3. fundSig # NoSig
  BY ClaimMeansFunded
     DEF StartClaim, LoadFunded, LockRow, RefuseLock, CheckBalance, ClaimFails, Unlock
<1>4. UNCHANGED <<fundSig, alloc, gen, paidSig, ledger, orphans, pc, job>>
  BY <1>2 DEF vars, rowVars, fundVars, chainVars
<1>5. FundedFor' = FundedFor /\ Unpaid' = Unpaid /\ Recorded' = Recorded
  BY <1>4 DEF FundedFor, Covers, Unpaid, Recorded
<1>6. RecordedMeansPaid' /\ LedgerInv' /\ FundingStands'
  BY <1>4, <1>5 DEF EInv, RowsInv, RecordedMeansPaid, LedgerInv, FundingStands, Covers
<1>7. cpc[c] # "save" /\ cpc'[c] # "save"
  BY GotoMoves DEF StartClaim, LockRow, RefuseLock, CheckBalance, ClaimFails, Unlock, ClaimReturn
<1>8. ReleasesRecorded'
  <2> SUFFICES ASSUME NEW i \in DOMAIN ledger \ orphans, ledger[i].kind = "claim", NEW w \in Covers(i),
                      paidSig[w] # i
               PROVE  \E d \in Claimant : cpc'[d] = "save" /\ claim'[d].sig = i /\ Row(d)' = w
    BY <1>4 DEF ReleasesRecorded, Covers
  <2>1. PICK d \in Claimant : cpc[d] = "save" /\ claim[d].sig = i /\ Row(d) = w
    BY DEF EInv, ReleasesRecorded
  <2> QED
    BY <1>1, <1>7, <2>1 DEF OthersGoOn, Row
<1>9. ASSUME NEW d \in Claimant PROVE ClaimWorks(d)'
  <2>1. CASE d # c
    <3>1. Row(d)' = Row(d) /\ ReleaseOf(d)' = ReleaseOf(d) /\ cpc'[d] = cpc[d] /\ claim'[d] = claim[d]
      BY <1>1, <2>1 DEF OthersGoOn, Row, ReleaseOf
    <3> QED
      BY <1>4, <1>5, <3>1 DEF EInv, ClaimWorks
  <2>2. CASE d = c /\ StartClaim(c)
    <3>1. PICK w \in Unpaid :
             claim' = [claim EXCEPT ![c] = [wallet |-> w, gen |-> gen, amount |-> alloc[w], sig |-> NoSig]]
      BY <2>2 DEF StartClaim
    <3>2. claim'[c] = [wallet |-> w, gen |-> gen, amount |-> alloc[w], sig |-> NoSig] /\ cpc'[c] = "lock"
      BY <2>2, <3>1, GotoMoves DEF StartClaim
    <3>3. w \in FundedFor /\ alloc[w] > 0
      BY <1>3 DEF EInv, FundingStands, Unpaid
    <3> QED
      BY <1>4, <1>5, <2>2, <3>2, <3>3 DEF ClaimWorks, Row
  <2>3. CASE d = c /\ (LockRow(c) \/ CheckBalance(c) \/ ClaimFails(c))
    <3>1. claim' = claim /\ cpc[c] \in {"lock", "balance", "send"} /\ cpc'[c] \in {"balance", "send", "unlock"}
      BY <2>3, GotoMoves DEF LockRow, CheckBalance, ClaimFails
    <3>2. Row(c)' = Row(c) /\ ClaimWorks(c)
      BY <3>1 DEF EInv, Row
    <3>3. Row(c) \in Unpaid \/ cpc'[c] = "unlock"
      <4>1. CASE LockRow(c)
        <5>1. claim[c].wallet \in Wallet /\ alloc[Row(c)] > 0 /\ paidSig[Row(c)] = NoSig
          BY <3>1, <3>2, <4>1 DEF ClaimWorks, LockRow, Lockable, ClaimRecord
        <5> QED
          BY <5>1 DEF Unpaid, Row
      <4>2. CASE CheckBalance(c)
        BY <3>2, <4>2 DEF ClaimWorks, CheckBalance
      <4>3. CASE ClaimFails(c)
        BY <4>3, GotoMoves DEF ClaimFails
      <4> QED
        BY <2>3, <4>1, <4>2, <4>3
    <3> QED
      BY <1>4, <1>5, <2>3, <3>1, <3>2, <3>3 DEF ClaimWorks
  <2>4. CASE d = c /\ (RefuseLock(c) \/ Unlock(c))
    <3>1. cpc'[c] = "idle"
      BY <2>4, GotoMoves DEF RefuseLock, Unlock, ClaimReturn
    <3> QED
      BY <2>4, <3>1 DEF ClaimWorks
  <2> QED
    BY <2>1, <2>2, <2>3, <2>4
<1> QED
  BY <1>1, <1>3, <1>6, <1>8, <1>9, Together

(* A release that lands is one more transfer of the ledger. *)
LEMMA ReleaseAppends ==
  ASSUME EInv, NEW c \in Claimant, Payout(c)
  PROVE  /\ DOMAIN ledger' = DOMAIN ledger \cup {Len(ledger) + 1} /\ Len(ledger) + 1 \notin DOMAIN ledger
         /\ \A i \in DOMAIN ledger : ledger'[i] = ledger[i]
         /\ ledger'[Len(ledger) + 1] = ReleaseOf(c)
<1>1. ledger \in Seq(Transfers) /\ ledger' = Append(ledger, ReleaseOf(c)) /\ ledger' \in Seq(Transfers)
  BY EInvParts, ReleaseTyped DEF Payout, ReleaseOf
<1> QED
  BY <1>1

(* A claim that works keeps working through a step of another one that     *)
(* signs no row and gives up no release but its own.                       *)
LEMMA OtherClaimWorks ==
  ASSUME EInv, NEW c \in Claimant, NEW d \in Claimant, d # c, OthersGoOn(c), IssuerStands,
         \A i \in DOMAIN ledger : i \in DOMAIN ledger' /\ ledger'[i] = ledger[i],
         NEW given, orphans' = orphans \cup given,
         cpc[d] = "save" => claim[d].sig \notin given,
         \A w \in Wallet : paidSig'[w] = paidSig[w] \/
            (cpc[d] \in {"balance", "send", "save"} => w # Row(d))
  PROVE  ClaimWorks(d)'
<1>1. Row(d)' = Row(d) /\ ReleaseOf(d)' = ReleaseOf(d) /\ cpc'[d] = cpc[d] /\ claim'[d] = claim[d]
  BY DEF OthersGoOn, Row, ReleaseOf
<1>2. gen' = gen /\ alloc' = alloc /\ fundSig' = fundSig
  BY DEF IssuerStands, fundVars
<1>3. ClaimWorks(d) /\ claim[d].wallet \in Wallet
  BY EInvParts DEF EInv, ClaimRecord
<1>4. CASE cpc[d] # "idle"
  <2>1. fundSig \in DOMAIN ledger
    BY <1>4, ClaimMeansFunded
  <2>2. FundedFor' = FundedFor
    BY <1>2, <2>1 DEF FundedFor, Covers
  <2>3. cpc[d] \in {"balance", "send", "save"} => Row(d) \in Unpaid'
    BY <1>2, <1>3 DEF ClaimWorks, Unpaid, Row
  <2>4. cpc[d] = "save" => claim[d].sig \in DOMAIN ledger
    BY EInvParts DEF CTypeInv, ClaimLocals
  <2> QED
    BY <1>1, <1>2, <1>3, <2>2, <2>3, <2>4 DEF ClaimWorks
<1>5. CASE cpc[d] = "idle"
  BY <1>1, <1>5 DEF ClaimWorks
<1> QED
  BY <1>4, <1>5

(* What the rows and the funding say of the ledger, when it grows, or when *)
(* a release that is on no row is given up.                                *)
LEMMA LedgerKept ==
  ASSUME EInv, fundSig \in DOMAIN ledger, IssuerStands, paidSig' = paidSig,
         \A i \in DOMAIN ledger : i \in DOMAIN ledger' /\ ledger'[i] = ledger[i],
         \A i \in DOMAIN ledger' \ DOMAIN ledger : ledger'[i].kind = "claim",
         orphans \subseteq orphans',
         \A w \in Recorded : paidSig[w] \notin orphans' \ orphans
  PROVE  RecordedMeansPaid' /\ LedgerInv' /\ FundingStands'
<1> USE EInvParts
<1>1. alloc' = alloc /\ fundSig' = fundSig /\ pc' = pc /\ job' = job
  BY DEF IssuerStands, fundVars
<1>2. Unpaid' = Unpaid /\ Recorded' = Recorded
  BY <1>1 DEF Unpaid, Recorded
<1>3. FundedFor' = FundedFor
  BY <1>1 DEF FundedFor, Covers
<1>4. RecordedMeansPaid'
  BY <1>1, <1>2 DEF RowsInv, RecordedMeansPaid, Covers
<1>5. LedgerInv'
  <2> SUFFICES ASSUME NEW i \in DOMAIN ledger' \ orphans', ledger'[i].kind # "claim"
               PROVE  /\ ledger'[i].kind = "escrow" => fundSig = i
                      /\ ledger'[i].kind = "direct" => \A w \in Covers(i)' : paidSig[w] = i
    BY <1>1 DEF LedgerInv
  <2>1. i \in DOMAIN ledger \ orphans /\ ledger'[i] = ledger[i] /\ Covers(i)' = Covers(i)
    BY DEF Covers
  <2>2. \A q \in Request : pc[q] \notin {"fundSave", "paySave"}
    BY NoSaver
  <2> QED
    BY <2>1, <2>2 DEF RowsInv, LedgerInv
<1>6. FundingStands'
  <2>1. \A w \in Recorded : paidSig[w] \in DOMAIN ledger
    BY DEF RowsInv, RecordedMeansPaid
  <2> QED
    BY <1>1, <1>2, <1>3, <2>1 DEF EInv, FundingStands
<1> QED
  BY <1>4, <1>5, <1>6

LEMMA LandsClaim ==
  ASSUME EInv, CInv', NEW c \in Claimant, ClaimLands(c) \/ ClaimUnknown(c)
  PROVE  EInv'
<1> USE EInvParts
<1>1. OthersGoOn(c) /\ IssuerStands
  BY OneSteps DEF ClaimStep
<1>2. cpc[c] = "send" /\ Payout(c) /\ UNCHANGED rowVars
  BY DEF ClaimLands, ClaimUnknown
<1>3. fundSig # NoSig /\ fundSig \in DOMAIN ledger
  BY <1>2, ClaimMeansFunded
<1> DEFINE new == Len(ledger) + 1
<1>4. /\ DOMAIN ledger' = DOMAIN ledger \cup {new} /\ new \notin DOMAIN ledger
      /\ \A i \in DOMAIN ledger : ledger'[i] = ledger[i]
      /\ ledger'[new] = ReleaseOf(c)
  BY <1>2, ReleaseAppends
<1>5. \/ /\ ClaimLands(c) /\ orphans' = orphans /\ cpc'[c] = "save"
         /\ claim' = [claim EXCEPT ![c].sig = new]
      \/ ClaimUnknown(c) /\ orphans' = orphans \cup {new} /\ cpc'[c] = "unlock" /\ claim' = claim
  BY GotoMoves DEF ClaimLands, ClaimUnknown
<1> HIDE DEF new
<1>6. /\ claim'[c].wallet = claim[c].wallet /\ claim'[c].gen = claim[c].gen
      /\ claim'[c].amount = claim[c].amount
      /\ cpc'[c] = "save" => claim'[c].sig = new
  BY <1>5 DEF ClaimRecord
<1>7. PICK given \in {{}, {new}} : orphans' = orphans \cup given
  BY <1>5
<1>8. paidSig' = paidSig /\ Recorded' = Recorded /\ Unpaid' = Unpaid
  BY <1>2 DEF rowVars, Recorded, Unpaid
<1>9. RecordedMeansPaid' /\ LedgerInv' /\ FundingStands'
  <2>1. \A w \in Recorded : paidSig[w] \in DOMAIN ledger
    BY DEF RowsInv, RecordedMeansPaid
  <2>2. ReleaseOf(c).kind = "claim"
    BY DEF ReleaseOf
  <2> QED
    BY <1>1, <1>3, <1>4, <1>7, <1>8, <2>1, <2>2, LedgerKept
<1>10. ReleasesRecorded'
  <2> SUFFICES ASSUME NEW i \in DOMAIN ledger' \ orphans', ledger'[i].kind = "claim",
                      NEW w \in Covers(i)', paidSig'[w] # i
               PROVE  \E d \in Claimant : cpc'[d] = "save" /\ claim'[d].sig = i /\ Row(d)' = w
    BY DEF ReleasesRecorded
  <2>1. CASE i = new
    <3>1. cpc'[c] = "save"
      BY <1>5, <2>1
    <3>2. Covers(i)' = {Row(c)} /\ Row(c)' = Row(c)
      BY <1>4, <1>6, <2>1 DEF Covers, ReleaseOf, Row
    <3> QED
      BY <1>6, <2>1, <3>1, <3>2
  <2>2. CASE i \in DOMAIN ledger
    <3>1. i \in DOMAIN ledger \ orphans /\ ledger[i].kind = "claim" /\ w \in Covers(i) /\ paidSig[w] # i
      BY <1>4, <1>7, <1>8, <2>2 DEF Covers
    <3>2. PICK d \in Claimant : cpc[d] = "save" /\ claim[d].sig = i /\ Row(d) = w
      BY <3>1 DEF EInv, ReleasesRecorded
    <3> QED
      BY <1>1, <1>2, <3>2 DEF OthersGoOn, Row
  <2> QED
    BY <1>4, <2>1, <2>2
<1>11. ASSUME NEW d \in Claimant PROVE ClaimWorks(d)'
  <2>1. CASE d # c
    <3>1. cpc[d] = "save" => claim[d].sig \notin given
      BY <1>4, <1>7 DEF CTypeInv, ClaimLocals
    <3> QED
      BY <1>1, <1>4, <1>7, <1>8, <2>1, <3>1, OtherClaimWorks
  <2>2. CASE d = c
    <3>1. Row(c)' = Row(c) /\ ReleaseOf(c)' = ReleaseOf(c)
      BY <1>6 DEF Row, ReleaseOf
    <3>2. gen' = gen /\ alloc' = alloc /\ fundSig' = fundSig
      BY <1>1 DEF IssuerStands, fundVars
    <3>3. FundedFor' = FundedFor
      BY <1>3, <1>4, <3>2 DEF FundedFor, Covers
    <3>4. ClaimWorks(c) /\ Row(c) \in Unpaid
      BY <1>2 DEF EInv, ClaimWorks
    <3>5. cpc'[c] = "save" => new \notin orphans'
      BY <1>4, <1>5
    <3> QED
      BY <1>2, <1>4, <1>5, <1>6, <1>8, <2>2, <3>1, <3>2, <3>3, <3>4, <3>5 DEF ClaimWorks
  <2> QED
    BY <2>1, <2>2
<1> QED
  BY <1>1, <1>3, <1>9, <1>10, <1>11, Together

(* Giving up: nothing but the claim's own release is lost. *)
LEMMA GivesUpClaim ==
  ASSUME EInv, CInv', NEW c \in Claimant, ClaimCrash(c) \/ ClaimDatabaseError(c)
  PROVE  EInv'
<1> USE EInvParts
<1>1. OthersGoOn(c) /\ IssuerStands
  BY OneSteps DEF ClaimStep
<1>2. /\ orphans' = orphans \cup ClaimInFlight(c) /\ UNCHANGED <<rowVars, ledger>>
      /\ cpc[c] # "idle"
      /\ cpc'[c] = "idle" \/ (cpc'[c] = "unlock" /\ claim' = claim)
  BY GotoMoves DEF ClaimCrash, ClaimDatabaseError, ClaimReturn
<1>3. fundSig # NoSig /\ fundSig \in DOMAIN ledger
  BY <1>2, ClaimMeansFunded
<1>4. paidSig' = paidSig /\ Recorded' = Recorded /\ Unpaid' = Unpaid
  BY <1>2 DEF rowVars, Recorded, Unpaid
<1>5. \A w \in Recorded : paidSig[w] \notin ClaimInFlight(c)
  <2> SUFFICES ASSUME cpc[c] = "save", NEW w \in Recorded, paidSig[w] = claim[c].sig PROVE FALSE
    BY DEF ClaimInFlight
  <2>1. ledger[claim[c].sig] = ReleaseOf(c) /\ Row(c) \in Unpaid
    BY DEF EInv, ClaimWorks
  <2>2. w \in Covers(paidSig[w])
    BY DEF RowsInv, RecordedMeansPaid
  <2>3. Covers(paidSig[w]) = {Row(c)}
    BY <2>1 DEF Covers, ReleaseOf
  <2> QED
    BY <2>1, <2>2, <2>3 DEF Unpaid, Recorded
<1>6. RecordedMeansPaid' /\ LedgerInv' /\ FundingStands'
  BY <1>1, <1>2, <1>3, <1>4, <1>5, LedgerKept
<1>7. ReleasesRecorded'
  <2> SUFFICES ASSUME NEW i \in DOMAIN ledger \ orphans, i \notin ClaimInFlight(c), ledger[i].kind = "claim",
                      NEW w \in Covers(i), paidSig[w] # i
               PROVE  \E d \in Claimant : cpc'[d] = "save" /\ claim'[d].sig = i /\ Row(d)' = w
    BY <1>2, <1>4 DEF ReleasesRecorded, Covers
  <2>1. PICK d \in Claimant : cpc[d] = "save" /\ claim[d].sig = i /\ Row(d) = w
    BY DEF EInv, ReleasesRecorded
  <2>2. d # c
    BY <2>1 DEF ClaimInFlight
  <2> QED
    BY <1>1, <2>1, <2>2 DEF OthersGoOn, Row
<1>8. ASSUME NEW d \in Claimant PROVE ClaimWorks(d)'
  <2>1. CASE d # c
    <3>1. cpc[d] = "save" => claim[d].sig \notin ClaimInFlight(c)
      BY <2>1, RowsApart DEF ClaimInFlight
    <3> QED
      BY <1>1, <1>2, <1>4, <2>1, <3>1, OtherClaimWorks
  <2>2. CASE d = c /\ cpc'[c] = "idle"
    BY <2>2 DEF ClaimWorks
  <2>3. CASE d = c /\ cpc'[c] = "unlock" /\ claim' = claim
    <3>1. gen' = gen /\ alloc' = alloc /\ fundSig' = fundSig /\ Row(c)' = Row(c) /\ ClaimWorks(c)
      BY <1>1, <2>3 DEF EInv, IssuerStands, fundVars, Row
    <3>2. FundedFor' = FundedFor
      BY <1>2, <3>1 DEF FundedFor, Covers
    <3> QED
      BY <1>2, <2>3, <3>1, <3>2 DEF ClaimWorks
  <2> QED
    BY <1>2, <2>1, <2>2, <2>3
<1> QED
  BY <1>1, <1>3, <1>6, <1>7, <1>8, Together

(* The row is signed with the release that paid it. *)
LEMMA SavesClaim ==
  ASSUME EInv, CInv', NEW c \in Claimant, SaveClaim(c)
  PROVE  EInv'
<1> USE EInvParts
<1> DEFINE w == claim[c].wallet
           sig == claim[c].sig
<1>1. OthersGoOn(c) /\ IssuerStands
  BY OneSteps DEF ClaimStep
<1>2. cpc[c] = "save" /\ ClaimWorks(c) /\ Row(c) = w /\ w \in Wallet
  BY DEF SaveClaim, EInv, Row, ClaimRecord
<1>3. /\ claim[c].gen = gen /\ w \in FundedFor /\ w \in Unpaid
      /\ claim[c].amount = alloc[w] /\ sig \notin orphans /\ ledger[sig] = ReleaseOf(c)
      /\ sig \in DOMAIN ledger /\ sig # NoSig
  BY <1>2 DEF ClaimWorks, CTypeInv, ClaimLocals
<1>4. fundSig # NoSig /\ fundSig \in DOMAIN ledger
  BY <1>2, ClaimMeansFunded
<1>5. /\ paidSig' = [paidSig EXCEPT ![w] = sig]
      /\ UNCHANGED <<orphans, ledger, claim, alloc, fundSig, gen, pc, job>> /\ cpc'[c] = "unlock"
  BY <1>2, <1>3, GotoMoves DEF SaveClaim, fundVars
<1>6. ReleaseOf(c).kind = "claim" /\ DOMAIN ReleaseOf(c).pays = {w} /\ ReleaseOf(c).pays[w] = alloc[w]
  BY <1>2, <1>3 DEF ReleaseOf
<1>7. ledger[sig].kind = "claim" /\ Covers(sig) = {w} /\ ledger[sig].pays[w] = alloc[w]
  BY <1>3, <1>6 DEF Covers
<1> HIDE DEF w, sig
<1>8. /\ paidSig'[w] = sig /\ \A v \in Wallet \ {w} : paidSig'[v] = paidSig[v]
      /\ paidSig[w] = NoSig
  BY <1>2, <1>3, <1>5 DEF Unpaid
<1>9. Recorded' = Recorded \cup {w} /\ Unpaid' = Unpaid \ {w} /\ FundedFor' = FundedFor
  <2>1. Recorded' = Recorded \cup {w}
    BY <1>2, <1>3, <1>8 DEF Recorded
  <2>2. Unpaid' = Unpaid \ {w}
    BY <1>2, <1>3, <1>5, <1>8 DEF Unpaid
  <2>3. FundedFor' = FundedFor
    BY <1>5 DEF FundedFor, Covers
  <2> QED
    BY <2>1, <2>2, <2>3
<1>10. \A v \in Recorded : v # w /\ v \in Wallet
  BY <1>8 DEF Recorded
<1>11. RecordedMeansPaid'
  <2> SUFFICES ASSUME NEW v \in Recorded \cup {w}
               PROVE  /\ paidSig'[v] \in DOMAIN ledger \ orphans /\ ledger[paidSig'[v]].kind # "escrow"
                      /\ v \in Covers(paidSig'[v]) /\ ledger[paidSig'[v]].pays[v] = alloc[v]
    BY <1>5, <1>9 DEF RecordedMeansPaid, Covers
  <2>1. CASE v = w
    BY <1>3, <1>7, <1>8, <2>1
  <2>2. CASE v # w
    <3>1. v \in Recorded /\ paidSig'[v] = paidSig[v]
      BY <1>8, <1>10, <2>2
    <3> QED
      BY <3>1 DEF RowsInv, RecordedMeansPaid
  <2> QED
    BY <2>1, <2>2
<1>12. LedgerInv'
  <2> SUFFICES ASSUME NEW i \in DOMAIN ledger \ orphans
               PROVE  /\ ledger[i].kind = "escrow" => fundSig = i
                      /\ ledger[i].kind = "direct" => \A v \in Covers(i) : paidSig'[v] = i
    BY <1>5 DEF LedgerInv, Covers
  <2>1. \A q \in Request : pc[q] \notin {"fundSave", "paySave"}
    BY <1>4, NoSaver
  <2>2. ASSUME ledger[i].kind = "direct", NEW v \in Covers(i) PROVE paidSig'[v] = i
    <3>1. paidSig[v] = i /\ i # NoSig /\ v \in Wallet
      BY <2>1, <2>2, CoversWallets DEF RowsInv, LedgerInv
    <3> QED
      BY <1>8, <3>1
  <2> QED
    BY <2>1, <2>2 DEF RowsInv, LedgerInv
<1>13. FundingStands'
  <2>1. \A v \in Recorded : paidSig'[v] = paidSig[v]
    BY <1>8, <1>10
  <2>2. paidSig'[w] = sig /\ ledger'[sig].kind = "claim"
    BY <1>5, <1>7, <1>8
  <2> QED
    BY <1>3, <1>5, <1>9, <2>1, <2>2 DEF EInv, FundingStands
<1>14. ReleasesRecorded'
  <2> SUFFICES ASSUME NEW i \in DOMAIN ledger \ orphans, ledger[i].kind = "claim", NEW v \in Covers(i),
                      paidSig'[v] # i
               PROVE  \E d \in Claimant : cpc'[d] = "save" /\ claim'[d].sig = i /\ Row(d)' = v
    BY <1>5 DEF ReleasesRecorded, Covers
  <2>1. v \in Wallet /\ i # NoSig
    BY CoversWallets
  <2>2. paidSig[v] # i
    BY <1>8, <2>1
  <2>3. PICK d \in Claimant : cpc[d] = "save" /\ claim[d].sig = i /\ Row(d) = v
    BY <2>2 DEF EInv, ReleasesRecorded
  <2>4. d # c
    BY <1>2, <1>8, <2>3 DEF sig
  <2> QED
    BY <1>1, <2>3, <2>4 DEF OthersGoOn, Row
<1>15. ASSUME NEW d \in Claimant PROVE ClaimWorks(d)'
  <2>1. CASE d # c
    <3>1. cpc[d] \in {"balance", "send", "save"} => Row(d) # w
      BY <1>2, <2>1, RowsApart
    <3>2. orphans' = orphans \cup {}
      BY <1>5
    <3> QED
      BY <1>1, <1>5, <1>8, <2>1, <3>1, <3>2, OtherClaimWorks
  <2>2. CASE d = c
    <3>1. Row(c)' = w /\ alloc[w] > 0
      BY <1>2, <1>3, <1>5 DEF Row, Unpaid
    <3> QED
      BY <1>3, <1>5, <1>9, <2>2, <3>1 DEF ClaimWorks
  <2> QED
    BY <2>1, <2>2
<1> QED
  BY <1>1, <1>4, <1>11, <1>12, <1>13, <1>14, <1>15, Together

LEMMA EInvStep ==
  ASSUME MaxDurationEnforced
  PROVE  EInv /\ [ClaimNext]_allVars /\ NoIssuerFaults' => EInv'
<1> SUFFICES ASSUME EInv, [ClaimNext]_allVars, NoIssuerFaults' PROVE EInv'
  OBVIOUS
<1>1. CInv'
  BY EInvParts, CInvStep
<1>2. ASSUME [Next]_vars, UNCHANGED <<cpc, claim>> PROVE EInv'
  BY <1>1, <1>2, EInvParts, InvStep, IssuerKeeps
<1>3. CASE UNCHANGED allVars
  BY <1>2, <1>3 DEF allVars, claimVars
<1>4. ASSUME NEW r \in Request, ReplaceRows(r) PROVE EInv'
  BY <1>2, <1>4 DEF ReplaceRows, Next, Snapshot
<1>5. CASE ((\E r \in Request : Issuer(r)) \/ Expire) /\ UNCHANGED claimVars
  BY <1>2, <1>5 DEF Issuer, Next, Snapshot, claimVars
<1>6. ASSUME NEW c \in Claimant, ClaimStep(c) PROVE EInv'
  BY <1>1, <1>6, QuietClaim, LandsClaim, SavesClaim, GivesUpClaim DEF ClaimStep
<1>7. ASSUME NEW w \in Wallet, ExpireLock(w) PROVE EInv'
  BY <1>2, <1>7 DEF ExpireLock
<1>8. CASE ClaimDone
  BY <1>2, <1>8 DEF ClaimDone, Done, claimVars
<1> QED
  BY <1>3, <1>4, <1>5, <1>6, <1>7, <1>8 DEF ClaimNext

(* A fault is for good. *)
FaultsLeft ==
    /\ faults["crash"] \in Nat /\ faults["crash"] <= MaxCrashes
    /\ faults["error"] \in Nat /\ faults["error"] <= MaxErrors

LEMMA FaultsLast ==
  ASSUME CInv, FaultsLeft, [ClaimNext]_allVars
  PROVE  FaultsLeft' /\ (NoIssuerFaults' => NoIssuerFaults)
<1> USE ConstantsAssumption
<1>1. faults \in [{"crash", "error", "unknown"} -> Nat]
  BY DEF CInv, CTypeInv, ClaimTypeOK, TypeOK
<1>2. CASE faults' = faults
  BY <1>2 DEF FaultsLeft, NoIssuerFaults
<1>3. ASSUME NEW r \in Request, TransferUnknown(r) \/ Crash(r) \/ DatabaseError(r)
      PROVE  FaultsLeft' /\ (NoIssuerFaults' => NoIssuerFaults)
  <2>1. \E k \in {"crash", "error", "unknown"} :
           faults[k] > 0 /\ faults' = [faults EXCEPT ![k] = @ - 1]
    BY <1>3 DEF TransferUnknown, Crash, DatabaseError
  <2> QED
    BY <1>1, <2>1 DEF FaultsLeft, NoIssuerFaults
<1>4. ASSUME NEW r \in Request, Snapshot(r) \/ Execute(r) \/ Fault(r)
      PROVE  faults' = faults \/ TransferUnknown(r) \/ Crash(r) \/ DatabaseError(r)
  BY <1>4 DEF Snapshot, StartSnapshot, CommitSnapshot, RefuseSnapshot, Execute, StartExecute, Claim, ClaimRefused,
     FundLoad, FundSave, PayLoad, PaySave, Renew, TransferLands, TransferFails, Mark, Release, Fault
<1>5. CASE UNCHANGED allVars \/ Expire \/ ClaimDone
  BY <1>2, <1>5 DEF allVars, vars, Expire, ClaimDone, Done
<1>6. ASSUME NEW r \in Request, ReplaceRows(r) \/ Issuer(r)
      PROVE  FaultsLeft' /\ (NoIssuerFaults' => NoIssuerFaults)
  BY <1>2, <1>3, <1>4, <1>6 DEF ReplaceRows, Issuer, Snapshot
<1>7. ASSUME NEW c \in Claimant, ClaimStep(c) PROVE faults' = faults
  BY <1>7 DEF ClaimStep, StartClaim, LockRow, RefuseLock, CheckBalance, ClaimLands, ClaimFails, SaveClaim,
     Unlock, ClaimUnknown, ClaimCrash, ClaimDatabaseError, vars
<1>8. ASSUME NEW w \in Wallet, ExpireLock(w) PROVE faults' = faults
  BY <1>8 DEF ExpireLock, vars
<1> QED
  BY <1>2, <1>5, <1>6, <1>7, <1>8 DEF ClaimNext

(* The books are right until the first fault of an issuer's request.       *)
LEMMA EUntilFault ==
  ASSUME MaxDurationEnforced
  PROVE  ClaimSpec => [](CInv /\ FaultsLeft /\ (NoIssuerFaults => EInv))
<1> DEFINE Until == CInv /\ FaultsLeft /\ (NoIssuerFaults => EInv)
<1>1. ClaimInit => Until
  BY EInvInit, CInvInit, ConstantsAssumption DEF ClaimInit, Init, FaultsLeft
<1>2. Until /\ [ClaimNext]_allVars => Until'
  BY EInvStep, CInvStep, FaultsLast
<1> QED
  BY <1>1, <1>2, PTL DEF ClaimSpec

LEMMA EInductive ==
  ASSUME MaxDurationEnforced, MaxCrashes = 0, MaxErrors = 0
  PROVE  ClaimSpec => []EInv
<1>1. FaultsLeft => NoIssuerFaults
  BY DEF FaultsLeft, NoIssuerFaults
<1> QED
  BY <1>1, EUntilFault, PTL

-----------------------------------------------------------------------------
(* What the invariant says of the payments. *)

(* The transfers that reached a holder are recorded on his row or about to *)
(* be.                                                                     *)
LEMMA PaymentsPlaced ==
  ASSUME EInv, NEW i \in DOMAIN ledger \ orphans, ledger[i].kind # "escrow", NEW w \in Covers(i)
  PROVE  /\ w \in Wallet /\ ledger[i].kind \in {"direct", "claim"}
         /\ \/ paidSig[w] = i
            \/ \E r \in Request : pc[r] = "paySave" /\ job[r].sig = i /\ w \in job[r].batch
            \/ \E c \in Claimant : cpc[c] = "save" /\ claim[c].sig = i /\ Row(c) = w
<1>1. ledger[i].kind \in {"direct", "claim"} /\ w \in Wallet
  <2>1. ledger[i] \in Transfers
    BY EInvParts
  <2>2. Covers(i) \subseteq Wallet
    BY EInvParts, CoversWallets
  <2> QED
    BY <2>1, <2>2 DEF Transfers
<1>2. CASE ledger[i].kind = "direct"
  <2>1. LedgerInv
    BY EInvParts DEF RowsInv
  <2> QED
    BY <1>1, <1>2, <2>1 DEF LedgerInv
<1>3. CASE ledger[i].kind = "claim"
  BY <1>1, <1>3 DEF EInv, ReleasesRecorded
<1> QED
  BY <1>1, <1>2, <1>3

(* While a direct payment is being recorded, no claim runs. *)
LEMMA PayingAlone ==
  ASSUME EInv, NEW r \in Request, pc[r] = "paySave"
  PROVE  /\ \A c \in Claimant : cpc[c] = "idle"
         /\ \A q \in Request : pc[q] = "paySave" => q = r
         /\ job[r].batch \subseteq Unpaid
         /\ job[r].sig \in DOMAIN ledger /\ Covers(job[r].sig) = job[r].batch
<1>1. Handler(r) /\ Executing(r)
  BY DEF EInv, Handler, Controlled, LeasedPCs
<1>2. \A c \in Claimant : cpc[c] = "idle"
  BY UnfundedHandler DEF LeasedPCs
<1>3. \A q \in Request : pc[q] = "paySave" => q = r
  BY <1>1, EInvParts, LeaseExcludes DEF LeasedPCs
<1>4. job[r].batch \subseteq Unpaid /\ ledger[job[r].sig] = Transfer("direct", job[r].batch, job[r].rows)
  BY <1>1 DEF Handler, Paying
<1>5. Covers(job[r].sig) = job[r].batch /\ job[r].sig \in DOMAIN ledger
  BY <1>4, EInvParts DEF Covers, Transfer, TypeInv, InFlightInv
<1> QED
  BY <1>2, <1>3, <1>4, <1>5

LEMMA OnePayment ==
  ASSUME EInv, NEW i \in DOMAIN ledger \ orphans, NEW j \in DOMAIN ledger \ orphans,
         ledger[i].kind # "escrow", ledger[j].kind # "escrow",
         NEW w \in Covers(i) \cap Covers(j)
  PROVE  i = j
<1>1. i # NoSig /\ j # NoSig
  BY EInvParts
<1>2. ASSUME NEW k \in {i, j}
      PROVE  \/ paidSig[w] = k
             \/ \E r \in Request : pc[r] = "paySave" /\ job[r].sig = k /\ w \in job[r].batch
             \/ \E c \in Claimant : cpc[c] = "save" /\ claim[c].sig = k /\ Row(c) = w
  <2>1. k \in DOMAIN ledger \ orphans /\ ledger[k].kind # "escrow" /\ w \in Covers(k)
    OBVIOUS
  <2> QED
    BY <2>1, PaymentsPlaced
<1>3. \A r \in Request : pc[r] = "paySave" /\ w \in job[r].batch => paidSig[w] = NoSig
  BY PayingAlone DEF Unpaid
<1>4. \A c \in Claimant : cpc[c] = "save" /\ Row(c) = w => paidSig[w] = NoSig
  BY DEF EInv, ClaimWorks, Unpaid
<1>5. CASE paidSig[w] # NoSig
  BY <1>2, <1>3, <1>4, <1>5
<1>6. CASE \E r \in Request : pc[r] = "paySave"
  BY <1>1, <1>2, <1>3, <1>6, PayingAlone
<1>7. CASE paidSig[w] = NoSig /\ \A r \in Request : pc[r] # "paySave"
  <2>1. ASSUME NEW k \in {i, j} PROVE \E c \in Claimant : cpc[c] = "save" /\ claim[c].sig = k /\ Row(c) = w
    BY <1>1, <1>2, <1>7
  <2> QED
    BY <2>1, RowsApart
<1> QED
  BY <1>5, <1>6, <1>7

(* A recorded transfer is on the rows of all the holders that it paid. *)
LEMMA RecordedWhole ==
  ASSUME EInv, NEW v \in Recorded
  PROVE  Covers(paidSig[v]) = {w \in Recorded : paidSig[w] = paidSig[v]}
<1> DEFINE s == paidSig[v]
<1>1. s \in DOMAIN ledger \ orphans /\ ledger[s].kind # "escrow" /\ v \in Covers(s) /\ s # NoSig
  BY EInvParts DEF RowsInv, RecordedMeansPaid, Recorded
<1>2. ASSUME NEW w \in Recorded, paidSig[w] = s PROVE w \in Covers(s)
  BY <1>2, EInvParts DEF RowsInv, RecordedMeansPaid
<1>3. ASSUME NEW w \in Covers(s) PROVE w \in Recorded /\ paidSig[w] = s
  <2>1. \A r \in Request : pc[r] = "paySave" => job[r].sig # s
    <3> SUFFICES ASSUME NEW r \in Request, pc[r] = "paySave", job[r].sig = s PROVE FALSE
      OBVIOUS
    <3>1. v \in Unpaid
      BY <1>1, PayingAlone
    <3> QED
      BY <3>1 DEF Unpaid, Recorded
  <2>2. \A c \in Claimant : cpc[c] = "save" => claim[c].sig # s
    <3> SUFFICES ASSUME NEW c \in Claimant, cpc[c] = "save", claim[c].sig = s PROVE FALSE
      OBVIOUS
    <3>1. ledger[s] = ReleaseOf(c) /\ Row(c) \in Unpaid
      BY DEF EInv, ClaimWorks
    <3>2. v = Row(c)
      BY <1>1, <3>1 DEF Covers, ReleaseOf
    <3> QED
      BY <3>1, <3>2 DEF Unpaid, Recorded
  <2>3. w \in Wallet /\ paidSig[w] = s
    BY <1>1, <2>1, <2>2, PaymentsPlaced
  <2> QED
    BY <1>1, <2>3 DEF Recorded
<1> QED
  BY <1>2, <1>3 DEF Recorded

LEMMA EInvReceivedOnce ==
  ASSUME EInv
  PROVE  ReceivedOnce
<1>1. \A i, j \in DOMAIN ledger \ orphans :
          /\ ledger[i].kind # "escrow" /\ ledger[j].kind # "escrow"
          /\ Covers(i) \cap Covers(j) # {}
          => i = j
  BY OnePayment
<1> DEFINE d == [status |-> status, payoutMode |-> payoutMode, fundSig |-> fundSig,
                 leaseHeld |-> lease # NoLease /\ live,
                 payouts |-> alloc, signatures |-> paidSig, total |-> total]
<1>2. Detail.signatures = signaturesOf(d)
  BY DEF Detail, distributionDetail
<1>3. Signed(d) = Recorded
  <2>1. DOMAIN alloc = Wallet
    BY EInvParts, ConstantsAssumption DEF TypeOK, AllocationTables, NoTable
  <2> QED
    BY <2>1 DEF Signed, Recorded, NoSig
<1>4. d.signatures = paidSig /\ d.payouts = alloc
  OBVIOUS
<1> HIDE DEF d
<1>5. ASSUME NEW entry \in signaturesOf(d)
      PROVE  /\ entry.wallets = Covers(entry.signature)
             /\ entry.amount = TotalOf(ledger[entry.signature].pays)
  <2>1. PICK s \in {paidSig[w] : w \in Recorded} :
          entry = [signature |-> s, wallets |-> {w \in Recorded : paidSig[w] = s},
                   amount |-> SumFunctionOnSet(alloc, {w \in Recorded : paidSig[w] = s})]
    BY <1>3, <1>4 DEF signaturesOf
  <2>2. PICK v \in Recorded : s = paidSig[v]
    OBVIOUS
  <2>3. Covers(s) = {w \in Recorded : paidSig[w] = s}
    BY <2>2, RecordedWhole
  <2>4. \A w \in Covers(s) : ledger[s].pays[w] = alloc[w]
    BY <2>3, EInvParts DEF RowsInv, RecordedMeansPaid
  <2>5. SumFunctionOnSet(ledger[s].pays, Covers(s)) = SumFunctionOnSet(alloc, Covers(s))
    BY <2>4, SameTerms
  <2>6. TotalOf(ledger[s].pays) = SumFunctionOnSet(ledger[s].pays, Covers(s))
    BY DEF TotalOf, SumFunction, Covers
  <2> QED
    BY <2>1, <2>3, <2>5, <2>6
<1> QED
  BY <1>1, <1>2, <1>5 DEF ReceivedOnce

(* A holder is never paid by two transfers of which both are accounted     *)
(* for, directly or by claim, and the page's list of transactions is true  *)
(* to the chain: for every number of claims, requests and claim faults,    *)
(* and issuer transfers of unknown outcome, where the platform ends a      *)
(* request before its lease, until a request of the issuer is killed or    *)
(* meets a database error.                                                 *)
THEOREM PaidOnceForAll ==
  ASSUME MaxDurationEnforced
  PROVE  ClaimSpec => [](NoIssuerFaults => ReceivedOnce)
<1>1. EInv => ReceivedOnce
  BY EInvReceivedOnce
<1> QED
  BY <1>1, EUntilFault, PTL

-----------------------------------------------------------------------------
(* The promise to the holders. *)

(* Nothing that landed is given up but by a claim that a fault struck. *)
GivenUp ==
    /\ faults["unknown"] = 0
    /\ \A i \in orphans : ledger[i].kind = "claim"
    /\ claimFaults <= MaxClaimFaults
    /\ claimFaults = MaxClaimFaults => orphans = {}

LEMMA GivenUpInit ==
  ASSUME MaxUnknown = 0
  PROVE  ClaimInit => GivenUp
BY ClaimAssumption DEF ClaimInit, Init, GivenUp

(* A step is one of the issuer's requests, or one of a claim. *)
LEMMA ClaimCases ==
  ASSUME [ClaimNext]_allVars
  PROVE  \/ [Next]_vars /\ UNCHANGED <<cpc, claim, claimFaults>>
         \/ \E c \in Claimant : ClaimStep(c)
<1>1. CASE UNCHANGED allVars
  BY <1>1 DEF allVars, claimVars
<1>2. ASSUME NEW r \in Request, ReplaceRows(r)
      PROVE  [Next]_vars /\ UNCHANGED <<cpc, claim, claimFaults>>
  BY <1>2 DEF ReplaceRows, Next, Snapshot
<1>3. CASE ((\E r \in Request : Issuer(r)) \/ Expire) /\ UNCHANGED claimVars
  BY <1>3 DEF Issuer, Next, Snapshot, claimVars
<1>4. ASSUME NEW w \in Wallet, ExpireLock(w)
      PROVE  [Next]_vars /\ UNCHANGED <<cpc, claim, claimFaults>>
  BY <1>4 DEF ExpireLock
<1>5. CASE ClaimDone
  BY <1>5 DEF ClaimDone, Done, claimVars
<1> QED
  BY <1>1, <1>2, <1>3, <1>4, <1>5 DEF ClaimNext

(* Where nothing is left unknown, a request's transfer is on its books. *)
LEMMA IssuerKnows ==
  ASSUME EInv, faults["unknown"] = 0, [Next]_vars, NoIssuerFaults'
  PROVE  /\ UNCHANGED <<orphans, faults>>
         /\ ledger' = ledger \/ \E r \in Request : TransferLands(r)
<1>1. ASSUME NEW r \in Request PROVE ~TransferUnknown(r)
  BY DEF TransferUnknown
<1>2. CASE QuietIssuer
  BY <1>2 DEF QuietIssuer, chainVars
<1>3. ASSUME NEW r \in Request, CommitSnapshot(r) \/ FundSave(r) \/ PaySave(r) \/ Mark(r)
      PROVE  UNCHANGED <<ledger, orphans, faults>>
  BY <1>3 DEF CommitSnapshot, FundSave, PaySave, Mark, chainVars
<1>4. ASSUME NEW r \in Request, TransferLands(r)
      PROVE  UNCHANGED <<orphans, faults>>
  BY <1>4 DEF TransferLands
<1> QED
  BY <1>1, <1>2, <1>3, <1>4, IssuerCases

(* The entry that a request adds, and those it leaves. *)
LEMMA IssuerLedger ==
  ASSUME EInv, ledger' = ledger \/ \E r \in Request : TransferLands(r)
  PROVE  \A i \in DOMAIN ledger : i \in DOMAIN ledger' /\ ledger'[i] = ledger[i]
<1>1. ASSUME NEW r \in Request, TransferLands(r)
      PROVE  \A i \in DOMAIN ledger : i \in DOMAIN ledger' /\ ledger'[i] = ledger[i]
  <2>1. PICK b \in Outgoing(r) : ledger' = Append(ledger, Transfer(job[r].mode, b, job[r].rows))
    BY <1>1 DEF TransferLands
  <2> QED
    BY <2>1, EInvParts, IssuerAppends
<1> QED
  BY <1>1

(* What a claim gives up, and that it knows of a fault by then. *)
LEMMA ClaimGivesUp ==
  ASSUME EInv, NEW c \in Claimant, ClaimStep(c)
  PROVE  \/ UNCHANGED <<ledger, orphans, claimFaults>>
         \/ Payout(c) /\ UNCHANGED <<orphans, claimFaults>>
         \/ Payout(c) /\ ClaimFault /\ orphans' = orphans \cup {Len(ledger) + 1}
         \/ UNCHANGED ledger /\ ClaimFault /\ orphans' = orphans \cup ClaimInFlight(c)
<1>1. CASE StartClaim(c) \/ LockRow(c) \/ RefuseLock(c) \/ CheckBalance(c) \/ ClaimFails(c) \/ Unlock(c)
  BY <1>1 DEF StartClaim, LockRow, RefuseLock, CheckBalance, ClaimFails, Unlock, vars, chainVars
<1>2. CASE SaveClaim(c)
  BY <1>2 DEF SaveClaim, EInv, ClaimWorks
<1>3. CASE ClaimLands(c) \/ ClaimUnknown(c)
  BY <1>3 DEF ClaimLands, ClaimUnknown
<1>4. CASE ClaimCrash(c) \/ ClaimDatabaseError(c)
  BY <1>4 DEF ClaimCrash, ClaimDatabaseError
<1> QED
  BY <1>1, <1>2, <1>3, <1>4 DEF ClaimStep

LEMMA GivenUpStep ==
  EInv /\ EInv' /\ GivenUp /\ [ClaimNext]_allVars => GivenUp'
<1> SUFFICES ASSUME EInv, EInv', GivenUp, [ClaimNext]_allVars PROVE GivenUp'
  OBVIOUS
<1> USE EInvParts
<1>1. CASE [Next]_vars /\ UNCHANGED <<cpc, claim, claimFaults>>
  <2>1. UNCHANGED <<orphans, faults>> /\ (ledger' = ledger \/ \E r \in Request : TransferLands(r))
    BY <1>1, IssuerKnows DEF GivenUp, EInv
  <2>2. \A i \in DOMAIN ledger : ledger'[i] = ledger[i]
    BY <2>1, IssuerLedger
  <2> QED
    BY <1>1, <2>1, <2>2 DEF GivenUp
<1>2. ASSUME NEW c \in Claimant, ClaimStep(c) PROVE GivenUp'
  <2>1. faults' = faults
    BY <1>2, OneSteps DEF IssuerStands
  <2>2. claimFaults \in Nat /\ MaxClaimFaults \in Nat
    BY ClaimAssumption DEF CTypeInv, ClaimTypeOK
  <2>3. CASE UNCHANGED <<ledger, orphans, claimFaults>>
    BY <2>1, <2>3 DEF GivenUp
  <2>4. CASE /\ Payout(c)
             /\ \/ UNCHANGED <<orphans, claimFaults>>
                \/ ClaimFault /\ orphans' = orphans \cup {Len(ledger) + 1}
    <3>1. /\ DOMAIN ledger' = DOMAIN ledger \cup {Len(ledger) + 1}
          /\ \A i \in DOMAIN ledger : ledger'[i] = ledger[i]
          /\ ledger'[Len(ledger) + 1] = ReleaseOf(c)
      BY <2>4, ReleaseAppends
    <3>2. \A i \in orphans' : ledger'[i].kind = "claim"
      BY <2>4, <3>1 DEF GivenUp, ReleaseOf
    <3> QED
      BY <2>1, <2>2, <2>4, <3>2 DEF GivenUp, ClaimFault
  <2>5. CASE UNCHANGED ledger /\ ClaimFault /\ orphans' = orphans \cup ClaimInFlight(c)
    <3>0. ClaimWorks(c)
      BY DEF EInv
    <3>1. \A i \in ClaimInFlight(c) : ledger[i].kind = "claim"
      BY <3>0 DEF ClaimInFlight, ClaimWorks, ReleaseOf
    <3> QED
      BY <2>1, <2>2, <2>5, <3>1 DEF GivenUp, ClaimFault
  <2> QED
    BY <1>2, <2>3, <2>4, <2>5, ClaimGivesUp
<1> QED
  BY <1>1, <1>2, ClaimCases

LEMMA LedgerFinite ==
  ASSUME TypeInv
  PROVE  IsFiniteSet(DOMAIN ledger)
<1>1. DOMAIN ledger = 1 .. Len(ledger) /\ Len(ledger) \in Nat
  BY DEF TypeInv, TypeOK
<1> QED
  BY <1>1, FS_Interval

LEMMA AllocNat ==
  ASSUME TypeInv
  PROVE  alloc \in [Wallet -> Nat]
BY ConstantsAssumption DEF TypeInv, TypeOK, AllocationTables, NoTable

-----------------------------------------------------------------------------
(* What left the issuer for a holder is one transfer, worth his row. *)

(* Where a transfer of the issuer is accounted for. *)
LEMMA TakenOut ==
  ASSUME EInv, GivenUp, NEW i \in DOMAIN ledger, ledger[i].kind # "claim", NEW w \in Covers(i)
  PROVE  /\ w \in Wallet /\ i \in DOMAIN ledger \ orphans /\ i # NoSig
         /\ \/ ledger[i].kind = "direct" /\ paidSig[w] = i
            \/ /\ ledger[i].kind = "direct"
               /\ \E r \in Request : pc[r] = "paySave" /\ job[r].sig = i /\ w \in job[r].batch
            \/ ledger[i].kind = "escrow" /\ fundSig = i
            \/ /\ ledger[i].kind = "escrow"
               /\ \E r \in Request : pc[r] = "fundSave" /\ job[r].sig = i
<1>1. w \in Wallet /\ ledger[i] \in Transfers /\ i # NoSig
  <2>1. Covers(i) \subseteq Wallet
    BY EInvParts, CoversWallets
  <2> QED
    BY <2>1, EInvParts
<1>2. i \in DOMAIN ledger \ orphans
  BY DEF GivenUp
<1>3. LedgerInv
  BY EInvParts DEF RowsInv
<1> QED
  BY <1>1, <1>2, <1>3 DEF LedgerInv, Transfers

(* A funding that is being recorded is of the unsigned rows. *)
LEMMA FundingAlone ==
  ASSUME EInv, NEW r \in Request, pc[r] = "fundSave", job[r].sig \in DOMAIN ledger
  PROVE  /\ Executing(r) /\ fundSig = NoSig
         /\ Covers(job[r].sig) = Unpaid
         /\ \A w \in Unpaid : ledger[job[r].sig].pays[w] = alloc[w]
         /\ \A q \in Request : pc[q] \in LeasedPCs => q = r
<1>1. Controlled(r) /\ Funding(r)
  BY DEF EInv, Handler
<1>2. Executing(r) /\ fundSig = NoSig
  BY <1>1 DEF Controlled, Funding, LeasedPCs
<1>3. job[r].sig # NoTransfer
  BY EInvParts DEF NoTransfer
<1>4. ledger[job[r].sig] = Transfer("escrow", Unpaid, alloc)
  BY <1>1, <1>3 DEF Funding
<1>5. \A q \in Request : pc[q] \in LeasedPCs => q = r
  BY <1>2, EInvParts, LeaseExcludes
<1> QED
  BY <1>2, <1>4, <1>5 DEF Covers, Transfer

LEMMA WorthTheRow ==
  ASSUME EInv, GivenUp, NEW i \in DOMAIN ledger, ledger[i].kind # "claim", NEW w \in Covers(i)
  PROVE  ledger[i].pays[w] = alloc[w]
<1>1. w \in Wallet /\ i # NoSig /\ i \in DOMAIN ledger \ orphans
  BY TakenOut
<1>2. CASE paidSig[w] = i
  <2>1. w \in Recorded
    BY <1>1, <1>2 DEF Recorded
  <2> QED
    BY <1>2, <2>1, EInvParts DEF RowsInv, RecordedMeansPaid
<1>3. ASSUME NEW r \in Request, pc[r] = "paySave", job[r].sig = i
      PROVE  ledger[i].pays[w] = alloc[w]
  <2>1. ledger[i] = Transfer("direct", job[r].batch, job[r].rows) /\ alloc = job[r].rows
    BY <1>3 DEF EInv, Handler, Paying
  <2> QED
    BY <2>1 DEF Transfer, Covers
<1>4. CASE fundSig = i
  BY <1>4 DEF EInv, FundingStands, FundedFor
<1>5. ASSUME NEW r \in Request, pc[r] = "fundSave", job[r].sig = i
      PROVE  ledger[i].pays[w] = alloc[w]
  BY <1>5, FundingAlone
<1> QED
  BY <1>2, <1>3, <1>4, <1>5, TakenOut

LEMMA OneWayOut ==
  ASSUME EInv, GivenUp, NEW i \in DOMAIN ledger, NEW j \in DOMAIN ledger,
         ledger[i].kind # "claim", ledger[j].kind # "claim",
         NEW w \in Covers(i) \cap Covers(j)
  PROVE  i = j
<1>1. w \in Wallet /\ i # NoSig /\ j # NoSig /\ i \in DOMAIN ledger \ orphans /\ j \in DOMAIN ledger \ orphans
  BY TakenOut
<1>2. CASE ledger[i].kind = "direct" /\ ledger[j].kind = "direct"
  BY <1>1, <1>2, OnePayment
<1>3. CASE ledger[i].kind = "escrow" /\ ledger[j].kind = "escrow"
  <2>1. \A k \in {i, j} : fundSig = k \/ \E r \in Request : pc[r] = "fundSave" /\ job[r].sig = k
    BY <1>3, TakenOut
  <2>2. ASSUME NEW r \in Request, pc[r] = "fundSave", NEW k \in {i, j}, job[r].sig = k
        PROVE  \A m \in {i, j} : m = k
    <3>1. fundSig = NoSig /\ \A q \in Request : pc[q] \in LeasedPCs => q = r
      BY <2>2, FundingAlone
    <3> QED
      BY <1>1, <2>1, <2>2, <3>1 DEF LeasedPCs
  <2> QED
    BY <2>1, <2>2
<1>4. ASSUME NEW k \in {i, j}, NEW m \in {i, j}, ledger[k].kind = "escrow", ledger[m].kind = "direct"
      PROVE  FALSE
  <2>1. paidSig[w] = m \/ \E q \in Request : pc[q] = "paySave" /\ job[q].sig = m /\ w \in job[q].batch
    BY <1>4, TakenOut
  <2>2. CASE fundSig = k
    <3>1. fundSig # NoSig /\ w \in FundedFor
      BY <1>1, <2>2 DEF FundedFor
    <3>2. paidSig[w] = m
      BY <2>1, <3>1, NoSaver
    <3>3. w \in Recorded
      BY <1>1, <3>2 DEF Recorded
    <3> QED
      BY <1>4, <3>1, <3>2, <3>3 DEF EInv, FundingStands
  <2>3. ASSUME NEW r \in Request, pc[r] = "fundSave", job[r].sig = k
        PROVE  FALSE
    <3>1. w \in Unpaid /\ \A q \in Request : pc[q] \in LeasedPCs => q = r
      BY <2>3, FundingAlone
    <3>2. paidSig[w] # m
      BY <1>1, <3>1 DEF Unpaid
    <3> QED
      BY <2>1, <2>3, <3>1, <3>2 DEF LeasedPCs
  <2> QED
    BY <1>4, <2>2, <2>3, TakenOut
<1> QED
  BY <1>2, <1>3, <1>4, TakenOut

(* The holders that the issuer has paid, or has put money into the escrow  *)
(* for.                                                                    *)
Touched == {w \in Wallet : \E i \in DOMAIN ledger : ledger[i].kind # "claim" /\ w \in Covers(i)}

LEMMA LeftOnce ==
  ASSUME EInv, GivenUp, NEW w \in Wallet
  PROVE  LeftIssuerFor(w) = IF w \in Touched THEN alloc[w] ELSE 0
<1> DEFINE left == [i \in DOMAIN ledger |->
                       IF ledger[i].kind # "claim" /\ w \in Covers(i) THEN ledger[i].pays[w] ELSE 0]
<1>1. LeftIssuerFor(w) = SumFunctionOnSet(left, DOMAIN ledger)
  BY DEF LeftIssuerFor, SumFunction
<1>2. IsFiniteSet(DOMAIN ledger)
  BY EInvParts, LedgerFinite
<1>3. CASE w \notin Touched
  <2>1. \A i \in DOMAIN ledger : left[i] = 0
    BY <1>3 DEF Touched
  <2> HIDE DEF left
  <2>2. SumFunctionOnSet(left, DOMAIN ledger) = 0
    BY <1>2, <2>1, SumOfZeros
  <2> QED
    BY <1>1, <1>3, <2>2
<1>4. CASE w \in Touched
  <2>1. PICK a \in DOMAIN ledger : ledger[a].kind # "claim" /\ w \in Covers(a)
    BY <1>4 DEF Touched
  <2>2. left[a] = alloc[w] /\ alloc[w] \in Int
    BY <2>1, WorthTheRow, AllocNat, EInvParts
  <2>3. \A i \in DOMAIN ledger \ {a} : left[i] = 0
    BY <2>1, OneWayOut
  <2> HIDE DEF left
  <2>4. SumFunctionOnSet(left, DOMAIN ledger) = left[a]
    BY <1>2, <2>2, <2>3, OnlyTerm
  <2> QED
    BY <1>1, <1>4, <2>2, <2>4
<1> QED
  BY <1>3, <1>4

LEMMA LeftIsTouched ==
  EInv /\ GivenUp =>
     [w \in Wallet |-> LeftIssuerFor(w)] = [w \in Wallet |-> IF w \in Touched THEN alloc[w] ELSE 0]
BY LeftOnce

LEMMA LeftIsTouchedNext ==
  (EInv /\ GivenUp =>
     [w \in Wallet |-> LeftIssuerFor(w)] = [w \in Wallet |-> IF w \in Touched THEN alloc[w] ELSE 0])'
BY LeftIsTouched, PTL

(* A new transfer touches those it covers, unless it is a claim. *)
LEMMA TouchedGrows ==
  ASSUME NEW n, DOMAIN ledger' = DOMAIN ledger \cup {n}, n \notin DOMAIN ledger,
         \A i \in DOMAIN ledger : ledger'[i] = ledger[i]
  PROVE  /\ ledger'[n].kind = "claim" => Touched' = Touched
         /\ ledger'[n].kind # "claim" =>
               Touched' = Touched \cup (Wallet \cap DOMAIN ledger'[n].pays)
BY DEF Touched, Covers

(* A handler that is about to send pays holders nothing has left for. *)
LEMMA SendersList ==
  ASSUME EInv, GivenUp, NEW r \in Request, pc[r] \in {"fundSend", "paySend"}
  PROVE  /\ job[r].todo = Unpaid /\ job[r].rows = alloc /\ Unpaid \cap Touched = {}
         /\ status = "SNAPSHOTTED" /\ job[r].mode \in {"escrow", "direct"}
<1>1. Controlled(r) /\ Funding(r) /\ Paying(r)
  BY DEF EInv, Handler
<1>2. /\ job[r].todo = Unpaid /\ job[r].rows = alloc
      /\ job[r].mode \in {"escrow", "direct"} /\ status = "SNAPSHOTTED" /\ Executing(r)
  BY <1>1 DEF Controlled, Funding, Paying, LeasedPCs
<1>3. fundSig = NoSig
  BY UnfundedHandler DEF LeasedPCs
<1>4. \A q \in Request : pc[q] \notin {"fundSave", "paySave"}
  BY <1>2, EInvParts, LeaseExcludes DEF LeasedPCs
<1>5. ASSUME NEW w \in Unpaid, NEW i \in DOMAIN ledger, ledger[i].kind # "claim", w \in Covers(i)
      PROVE  FALSE
  BY <1>3, <1>4, <1>5, TakenOut DEF Unpaid
<1> QED
  BY <1>2, <1>5 DEF Touched

(* Before a snapshot is taken nothing has left the issuer. *)
LEMMA SnapshotUntouched ==
  ASSUME EInv, GivenUp, SnapshotAllowed
  PROVE  Touched = {}
<1>1. LeaseFree /\ status # "EXECUTED" /\ Recorded = {}
  BY DEF SnapshotAllowed
<1>2. \A q \in Request : pc[q] \notin LeasedPCs
  BY <1>1, EInvParts, LeaseFreeMeansNobody
<1>3. fundSig = NoSig
  BY <1>1, <1>2 DEF EInv, FundingEnds, LeasedPCs
<1>4. ASSUME NEW w \in Wallet, NEW i \in DOMAIN ledger, ledger[i].kind # "claim", w \in Covers(i)
      PROVE  FALSE
  BY <1>1, <1>2, <1>3, <1>4, TakenOut DEF Recorded, LeasedPCs
<1> QED
  BY <1>4 DEF Touched

(* What has been signed or funded has left the issuer. *)
LEMMA MarkTouched ==
  ASSUME EInv, NEW r \in Request, pc[r] = "mark", NEW w \in Wallet, w \notin Touched
  PROVE  alloc[w] = 0
<1>1. Funding(r) /\ Paying(r) /\ job[r].mode \in {"escrow", "direct"}
  BY EInvParts DEF EInv, Handler, TypeOK, JobRecord
<1>2. w \notin FundedFor
  BY DEF EInv, FundingStands, FundedFor, Touched
<1>3. w \notin Recorded
  <2> SUFFICES ASSUME w \in Recorded PROVE FALSE
    OBVIOUS
  <2>1. RecordedMeansPaid
    BY EInvParts DEF RowsInv
  <2>2. paidSig[w] \in DOMAIN ledger /\ w \in Covers(paidSig[w])
    BY <2>1 DEF RecordedMeansPaid
  <2>3. ledger[paidSig[w]].kind = "claim"
    BY <2>2 DEF Touched
  <2> QED
    BY <1>2, <2>3 DEF EInv, FundingStands
<1>4. w \notin Unpaid
  <2>1. CASE job[r].mode = "escrow"
    BY <1>1, <1>2, <2>1 DEF Funding, EInv, FundingStands
  <2>2. CASE job[r].mode = "direct"
    BY <1>1, <2>2 DEF Paying
  <2> QED
    BY <1>1, <2>1, <2>2
<1>5. alloc[w] \in Nat
  BY AllocNat, EInvParts
<1> QED
  BY <1>3, <1>4, <1>5 DEF Recorded, Unpaid

-----------------------------------------------------------------------------
(* Each step is one the promise allows, or nothing to it. *)

LEMMA PromiseStutters ==
  ASSUME EInv, EInv', GivenUp, GivenUp',
         alloc' = alloc, Touched' = Touched, (status = "EXECUTED")' = (status = "EXECUTED")
  PROVE  UNCHANGED Promise!promise
<1>1. [w \in Wallet |-> LeftIssuerFor(w)]' = [w \in Wallet |-> LeftIssuerFor(w)]
  BY LeftIsTouched, LeftIsTouchedNext
<1> QED
  BY <1>1 DEF Promise!promise

LEMMA PromisePublish ==
  ASSUME EInv, EInv', GivenUp, GivenUp', NEW r \in Request, CommitSnapshot(r)
  PROVE  Promise!PromiseNext
<1>1. /\ pc[r] = "commit" /\ SnapshotAllowed /\ UNCHANGED ledger
      /\ status # "EXECUTED" /\ status' = "SNAPSHOTTED" /\ alloc' = job[r].rows
  BY DEF CommitSnapshot, SnapshotAllowed, chainVars
<1>2. job[r].rows \in Tables
  BY <1>1, EInvParts DEF TypeInv, InFlightInv
<1>3. Touched = {} /\ Touched' = {}
  BY <1>1, SnapshotUntouched DEF Touched, Covers
<1>4. /\ [w \in Wallet |-> LeftIssuerFor(w)] = [w \in Wallet |-> 0]
      /\ [w \in Wallet |-> LeftIssuerFor(w)]' = [w \in Wallet |-> 0]
  BY <1>3, LeftIsTouched, LeftIsTouchedNext
<1>5. Promise!Publish(job[r].rows)
  BY <1>1, <1>4 DEF Promise!Publish, Promise!Nothing
<1> QED
  BY <1>2, <1>5 DEF Promise!PromiseNext

LEMMA PromiseCover ==
  ASSUME EInv, EInv', GivenUp, GivenUp', NEW r \in Request, TransferLands(r)
  PROVE  Promise!PromiseNext
<1>1. pc[r] \in {"fundSend", "paySend"} /\ UNCHANGED rowVars
  BY DEF TransferLands
<1>2. /\ job[r].todo = Unpaid /\ job[r].rows = alloc /\ Unpaid \cap Touched = {}
      /\ status = "SNAPSHOTTED" /\ job[r].mode \in {"escrow", "direct"}
  BY <1>1, SendersList
<1>3. PICK b \in Outgoing(r) : ledger' = Append(ledger, Transfer(job[r].mode, b, job[r].rows))
  BY DEF TransferLands
<1>4. b \subseteq Unpaid
  BY <1>2, <1>3, OutgoingFromList
<1>5. Touched' = Touched \cup b
  <2> DEFINE n == Len(ledger) + 1
  <2>1. /\ DOMAIN ledger' = DOMAIN ledger \cup {n} /\ n \notin DOMAIN ledger
        /\ \A i \in DOMAIN ledger : ledger'[i] = ledger[i]
        /\ ledger'[n] = Transfer(job[r].mode, b, job[r].rows)
    BY <1>3, EInvParts, IssuerAppends
  <2>2. ledger'[n].kind # "claim" /\ DOMAIN ledger'[n].pays = b
    BY <1>2, <2>1 DEF Transfer
  <2>3. b \subseteq Wallet
    BY <1>4 DEF Unpaid
  <2> HIDE DEF n
  <2> QED
    BY <2>1, <2>2, <2>3, TouchedGrows
<1>6. alloc' = alloc /\ status' = status
  BY <1>1 DEF rowVars
<1>7. /\ [w \in Wallet |-> LeftIssuerFor(w)] = [w \in Wallet |-> IF w \in Touched THEN alloc[w] ELSE 0]
      /\ [w \in Wallet |-> LeftIssuerFor(w)]' = [w \in Wallet |-> IF w \in Touched \cup b THEN alloc[w] ELSE 0]
  BY <1>5, <1>6, LeftIsTouched, LeftIsTouchedNext
<1>8. b \in SUBSET Wallet
  BY <1>4 DEF Unpaid
<1>9. Promise!Cover(b)
  BY <1>2, <1>4, <1>6, <1>7, <1>8 DEF Promise!Cover
<1> QED
  BY <1>8, <1>9 DEF Promise!PromiseNext

LEMMA PromiseClose ==
  ASSUME EInv, EInv', GivenUp, GivenUp', NEW r \in Request, Mark(r)
  PROVE  Promise!PromiseNext
<1>1. pc[r] = "mark" /\ status' = "EXECUTED" /\ UNCHANGED <<alloc, ledger>>
  BY DEF Mark, chainVars
<1>2. Touched' = Touched
  BY <1>1 DEF Touched, Covers
<1>3. alloc \in [Wallet -> Nat]
  BY AllocNat, EInvParts
<1>4. \A w \in Wallet : w \notin Touched => alloc[w] = 0
  BY <1>1, MarkTouched
<1>5. [w \in Wallet |-> IF w \in Touched THEN alloc[w] ELSE 0] = alloc
  BY <1>3, <1>4
<1>6. /\ [w \in Wallet |-> LeftIssuerFor(w)] = alloc
      /\ [w \in Wallet |-> LeftIssuerFor(w)]' = alloc
  BY <1>1, <1>2, <1>5, LeftIsTouched, LeftIsTouchedNext
<1>7. Promise!Close
  BY <1>1, <1>6 DEF Promise!Close
<1> QED
  BY <1>7 DEF Promise!PromiseNext

LEMMA NoFaultsSeen == (EInv => NoIssuerFaults)'
<1>1. EInv => NoIssuerFaults
  BY DEF EInv
<1> QED
  BY <1>1, PTL

LEMMA PromiseStep ==
  ASSUME EInv, EInv', GivenUp, GivenUp', [ClaimNext]_allVars
  PROVE  [Promise!PromiseNext]_Promise!promise
<1>1. CASE [Next]_vars /\ UNCHANGED <<cpc, claim, claimFaults>>
  <2>1. ASSUME NEW r \in Request PROVE ~TransferUnknown(r)
    BY DEF TransferUnknown, GivenUp
  <2>2. CASE QuietIssuer
    <3>1. alloc' = alloc /\ status' = status /\ ledger' = ledger
      BY <2>2 DEF QuietIssuer, rowVars, chainVars
    <3> QED
      BY <3>1, PromiseStutters DEF Touched, Covers
  <2>3. ASSUME NEW r \in Request, FundSave(r) \/ PaySave(r)
        PROVE  UNCHANGED Promise!promise
    <3>1. alloc' = alloc /\ status' = status /\ ledger' = ledger
      BY <2>3 DEF FundSave, PaySave, rowVars, chainVars
    <3> QED
      BY <3>1, PromiseStutters DEF Touched, Covers
  <2> QED
    BY <1>1, <2>1, <2>2, <2>3, NoFaultsSeen, IssuerCases, PromisePublish, PromiseCover, PromiseClose
<1>2. ASSUME NEW c \in Claimant, ClaimStep(c)
      PROVE  UNCHANGED Promise!promise
  <2>1. alloc' = alloc /\ status' = status
    BY <1>2, OneSteps DEF IssuerStands
  <2>2. Touched' = Touched
    <3>1. CASE UNCHANGED ledger
      BY <3>1 DEF Touched, Covers
    <3>2. CASE Payout(c)
      <4> DEFINE n == Len(ledger) + 1
      <4>1. /\ DOMAIN ledger' = DOMAIN ledger \cup {n} /\ n \notin DOMAIN ledger
            /\ \A i \in DOMAIN ledger : ledger'[i] = ledger[i]
            /\ ledger'[n].kind = "claim"
        <5>1. ReleaseOf(c).kind = "claim"
          BY DEF ReleaseOf
        <5> QED
          BY <3>2, <5>1, ReleaseAppends
      <4> HIDE DEF n
      <4> QED
        BY <4>1, TouchedGrows
    <3> QED
      BY <1>2, <3>1, <3>2, ClaimGivesUp
  <2> QED
    BY <2>1, <2>2, PromiseStutters
<1> QED
  BY <1>1, <1>2, ClaimCases

LEMMA PromiseStart ==
  ASSUME EInv, GivenUp, ClaimInit
  PROVE  Promise!PromiseInit
<1>1. /\ alloc = [w \in Wallet |-> 0] /\ status # "EXECUTED" /\ Touched = {}
  BY DEF ClaimInit, Init, NoTable, Touched
<1>2. [w \in Wallet |-> LeftIssuerFor(w)] = [w \in Wallet |-> 0]
  BY <1>1, LeftIsTouched
<1> QED
  BY <1>1, <1>2 DEF Promise!PromiseInit, Promise!Nothing

LEMMA NothingGivenUp ==
  ASSUME MaxDurationEnforced, MaxCrashes = 0, MaxErrors = 0, MaxUnknown = 0
  PROVE  ClaimSpec => [](EInv /\ GivenUp)
<1>1. ClaimInit => GivenUp
  BY GivenUpInit
<1> QED
  BY <1>1, GivenUpStep, EInductive, PTL DEF ClaimSpec

(* Requests that snapshot and execute, next to claims that fail in any     *)
(* way, implement the promise: whatever leaves the issuer is for a holder  *)
(* nothing left for yet, is worth his row of the table in force, and the   *)
(* distribution closes when it has left for all of them.  Where the        *)
(* issuer's own requests are not struck by a fault, for every number of    *)
(* requests, claims, wallets and claim faults and every batch size.        *)
THEOREM PromiseKept ==
  ASSUME MaxDurationEnforced, MaxCrashes = 0, MaxErrors = 0, MaxUnknown = 0
  PROVE  ClaimSpec => KeepsPromise
<1>1. EInv /\ GivenUp /\ ClaimInit => Promise!PromiseInit
  BY PromiseStart
<1>2. EInv /\ GivenUp /\ (EInv /\ GivenUp)' /\ [ClaimNext]_allVars => [Promise!PromiseNext]_Promise!promise
  BY PromiseStep
<1> QED
  BY <1>1, <1>2, NothingGivenUp, PTL DEF ClaimSpec, KeepsPromise, Promise!PromiseSpec

-----------------------------------------------------------------------------
(* What reached a holder, while no claim was struck by a fault. *)

(* The holders that a transfer has reached, directly or by claim. *)
Reached == {w \in Wallet : \E i \in DOMAIN ledger : ledger[i].kind # "escrow" /\ w \in Covers(i)}

LEMMA ReachedWorth ==
  ASSUME EInv, orphans = {}, NEW i \in DOMAIN ledger, ledger[i].kind # "escrow", NEW w \in Covers(i)
  PROVE  ledger[i].pays[w] = alloc[w]
<1>1. /\ w \in Wallet /\ ledger[i].kind \in {"direct", "claim"}
      /\ \/ paidSig[w] = i
         \/ \E r \in Request : pc[r] = "paySave" /\ job[r].sig = i /\ w \in job[r].batch
         \/ \E c \in Claimant : cpc[c] = "save" /\ claim[c].sig = i /\ Row(c) = w
  BY PaymentsPlaced
<1>2. CASE paidSig[w] = i
  <2>1. w \in Recorded
    BY <1>1, <1>2, EInvParts DEF Recorded
  <2> QED
    BY <1>2, <2>1, EInvParts DEF RowsInv, RecordedMeansPaid
<1>3. ASSUME NEW r \in Request, pc[r] = "paySave", job[r].sig = i
      PROVE  ledger[i].pays[w] = alloc[w]
  <2>1. ledger[i] = Transfer("direct", job[r].batch, job[r].rows) /\ alloc = job[r].rows
    BY <1>3 DEF EInv, Handler, Paying
  <2> QED
    BY <2>1 DEF Transfer, Covers
<1>4. ASSUME NEW c \in Claimant, cpc[c] = "save", claim[c].sig = i
      PROVE  ledger[i].pays[w] = alloc[w]
  <2>1. ledger[i] = ReleaseOf(c) /\ claim[c].amount = alloc[Row(c)]
    BY <1>4 DEF EInv, ClaimWorks
  <2> QED
    BY <2>1 DEF ReleaseOf, Covers
<1> QED
  BY <1>1, <1>2, <1>3, <1>4

LEMMA ReceivedWorth ==
  ASSUME EInv, orphans = {}, NEW w \in Wallet
  PROVE  ReceivedBy(w) = IF w \in Reached THEN alloc[w] ELSE 0
<1> DEFINE got == [i \in DOMAIN ledger |->
                      IF ledger[i].kind # "escrow" /\ w \in Covers(i) THEN ledger[i].pays[w] ELSE 0]
<1>1. ReceivedBy(w) = SumFunctionOnSet(got, DOMAIN ledger)
  BY DEF ReceivedBy, SumFunction
<1>2. IsFiniteSet(DOMAIN ledger)
  BY EInvParts, LedgerFinite
<1>3. CASE w \notin Reached
  <2>1. \A i \in DOMAIN ledger : got[i] = 0
    BY <1>3 DEF Reached
  <2> HIDE DEF got
  <2>2. SumFunctionOnSet(got, DOMAIN ledger) = 0
    BY <1>2, <2>1, SumOfZeros
  <2> QED
    BY <1>1, <1>3, <2>2
<1>4. CASE w \in Reached
  <2>1. PICK a \in DOMAIN ledger : ledger[a].kind # "escrow" /\ w \in Covers(a)
    BY <1>4 DEF Reached
  <2>2. got[a] = alloc[w] /\ alloc[w] \in Int
    BY <2>1, ReachedWorth, AllocNat, EInvParts
  <2>3. \A i \in DOMAIN ledger \ {a} : got[i] = 0
    BY <2>1, OnePayment
  <2> HIDE DEF got
  <2>4. SumFunctionOnSet(got, DOMAIN ledger) = got[a]
    BY <1>2, <2>2, <2>3, OnlyTerm
  <2> QED
    BY <1>1, <1>4, <2>2, <2>4
<1> QED
  BY <1>3, <1>4

LEMMA ReceivedIsReached ==
  EInv /\ orphans = {} =>
     [w \in Wallet |-> ReceivedBy(w)] = [w \in Wallet |-> IF w \in Reached THEN alloc[w] ELSE 0]
BY ReceivedWorth

LEMMA ReceivedIsReachedNext ==
  (EInv /\ orphans = {} =>
     [w \in Wallet |-> ReceivedBy(w)] = [w \in Wallet |-> IF w \in Reached THEN alloc[w] ELSE 0])'
BY ReceivedIsReached, PTL

LEMMA ReachedGrows ==
  ASSUME NEW n, DOMAIN ledger' = DOMAIN ledger \cup {n}, n \notin DOMAIN ledger,
         \A i \in DOMAIN ledger : ledger'[i] = ledger[i]
  PROVE  /\ ledger'[n].kind = "escrow" => Reached' = Reached
         /\ ledger'[n].kind # "escrow" =>
               Reached' = Reached \cup (Wallet \cap DOMAIN ledger'[n].pays)
BY DEF Reached, Covers

(* Nothing reached a holder whose row is unsigned, but what is being       *)
(* recorded.                                                               *)
LEMMA UnsignedUnreached ==
  ASSUME EInv, orphans = {}, NEW w \in Wallet, paidSig[w] = NoSig,
         \A r \in Request : pc[r] # "paySave",
         \A c \in Claimant : cpc[c] = "save" => Row(c) # w
  PROVE  w \notin Reached
<1> SUFFICES ASSUME NEW i \in DOMAIN ledger, ledger[i].kind # "escrow", w \in Covers(i) PROVE FALSE
  BY DEF Reached
<1> QED
  BY PaymentsPlaced, EInvParts

LEMMA SignedReached ==
  ASSUME EInv
  PROVE  Recorded \subseteq Reached
<1>1. RecordedMeansPaid
  BY EInvParts DEF RowsInv
<1> QED
  BY <1>1 DEF RecordedMeansPaid, Recorded, Reached

(* Once every payable row is signed or its release landed, what was        *)
(* received is the table.                                                  *)
LEMMA AllReached ==
  ASSUME EInv, orphans = {}, \A w \in Unpaid : w \in Reached
  PROVE  [w \in Wallet |-> ReceivedBy(w)] = alloc
<1>1. alloc \in [Wallet -> Nat]
  BY AllocNat, EInvParts
<1>2. \A w \in Wallet : w \notin Reached => alloc[w] = 0
  BY <1>1, SignedReached DEF Recorded, Unpaid
<1>3. [w \in Wallet |-> IF w \in Reached THEN alloc[w] ELSE 0] = alloc
  BY <1>1, <1>2
<1> QED
  BY <1>3, ReceivedIsReached

-----------------------------------------------------------------------------
(* Each such step is one the promise allows, or nothing to it. *)

ClosedNow == status = "EXECUTED" /\ Unpaid = {}

LEMMA ReceivedStutters ==
  ASSUME EInv, EInv', orphans = {}, orphans' = {},
         alloc' = alloc, Reached' = Reached, ClosedNow' = ClosedNow
  PROVE  UNCHANGED Received!promise
<1>1. [w \in Wallet |-> ReceivedBy(w)]' = [w \in Wallet |-> ReceivedBy(w)]
  BY ReceivedIsReached, ReceivedIsReachedNext
<1> QED
  BY <1>1 DEF Received!promise, ClosedNow

(* A step that leaves the ledger and the table and closes, or does not. *)
LEMMA ReceivedCloses ==
  ASSUME EInv, EInv', orphans = {}, orphans' = {}, UNCHANGED <<alloc, ledger>>,
         ClosedNow' => \A w \in Unpaid : w \in Reached,
         ClosedNow => ClosedNow'
  PROVE  [Received!PromiseNext]_Received!promise
<1>1. Reached' = Reached
  BY DEF Reached, Covers
<1>2. ClosedNow' \in BOOLEAN /\ ClosedNow \in BOOLEAN
  BY DEF ClosedNow
<1>3. CASE ClosedNow' = ClosedNow
  BY <1>1, <1>3, ReceivedStutters
<1>4. CASE ClosedNow'
  <2>1. [w \in Wallet |-> ReceivedBy(w)] = alloc
    BY <1>4, AllReached
  <2>2. [w \in Wallet |-> ReceivedBy(w)]' = [w \in Wallet |-> ReceivedBy(w)]
    BY <1>1, ReceivedIsReached, ReceivedIsReachedNext
  <2>3. Received!Close
    BY <1>4, <2>1, <2>2 DEF Received!Close, ClosedNow
  <2> QED
    BY <2>3 DEF Received!PromiseNext
<1> QED
  BY <1>2, <1>3, <1>4

(* A payment to holders whose rows are unsigned. *)
LEMMA ReceivedCovers ==
  ASSUME EInv, EInv', orphans = {}, orphans' = {}, UNCHANGED rowVars,
         NEW ws \in SUBSET Unpaid, ws \cap Reached = {}, Reached' = Reached \cup ws,
         ~ClosedNow
  PROVE  Received!PromiseNext
<1>1. alloc' = alloc /\ ClosedNow' = ClosedNow /\ ws \in SUBSET Wallet
  BY DEF rowVars, ClosedNow, Unpaid
<1>2. /\ [w \in Wallet |-> ReceivedBy(w)] = [w \in Wallet |-> IF w \in Reached THEN alloc[w] ELSE 0]
      /\ [w \in Wallet |-> ReceivedBy(w)]' = [w \in Wallet |-> IF w \in Reached \cup ws THEN alloc[w] ELSE 0]
  BY <1>1, ReceivedIsReached, ReceivedIsReachedNext
<1>3. Received!Cover(ws)
  BY <1>1, <1>2 DEF Received!Cover, ClosedNow
<1> QED
  BY <1>1, <1>3 DEF Received!PromiseNext

LEMMA ReceivedPublish ==
  ASSUME EInv, EInv', orphans = {}, orphans' = {}, NEW r \in Request, CommitSnapshot(r)
  PROVE  Received!PromiseNext
<1>1. /\ pc[r] = "commit" /\ SnapshotAllowed /\ UNCHANGED ledger
      /\ status' = "SNAPSHOTTED" /\ alloc' = job[r].rows
      /\ LeaseFree /\ status # "EXECUTED" /\ Recorded = {}
  BY DEF CommitSnapshot, SnapshotAllowed, chainVars
<1>2. job[r].rows \in Tables
  BY <1>1, EInvParts DEF TypeInv, InFlightInv
<1>3. \A q \in Request : pc[q] \notin LeasedPCs
  BY <1>1, EInvParts, LeaseFreeMeansNobody
<1>4. fundSig = NoSig
  BY <1>1, <1>3 DEF EInv, FundingEnds, LeasedPCs
<1>5. \A c \in Claimant : cpc[c] = "idle"
  BY <1>4 DEF EInv, FundingEnds
<1>6. \A w \in Wallet : paidSig[w] = NoSig
  BY <1>1 DEF Recorded
<1>7. Reached = {}
  <2>1. \A w \in Wallet : w \notin Reached
    BY <1>3, <1>5, <1>6, UnsignedUnreached DEF LeasedPCs
  <2> QED
    BY <2>1 DEF Reached
<1>8. Reached' = {}
  BY <1>1, <1>7 DEF Reached, Covers
<1>9. /\ [w \in Wallet |-> ReceivedBy(w)] = [w \in Wallet |-> 0]
      /\ [w \in Wallet |-> ReceivedBy(w)]' = [w \in Wallet |-> 0]
  BY <1>7, <1>8, ReceivedIsReached, ReceivedIsReachedNext
<1>10. Received!Publish(job[r].rows)
  BY <1>1, <1>9 DEF Received!Publish, Received!Nothing
<1> QED
  BY <1>2, <1>10 DEF Received!PromiseNext

(* A handler's transfer pays holders, or the escrow and nobody yet. *)
LEMMA ReceivedTransfer ==
  ASSUME EInv, EInv', GivenUp, orphans = {}, orphans' = {}, NEW r \in Request, TransferLands(r)
  PROVE  [Received!PromiseNext]_Received!promise
<1>1. pc[r] \in {"fundSend", "paySend"} /\ UNCHANGED rowVars
  BY DEF TransferLands
<1>2. /\ job[r].todo = Unpaid /\ status = "SNAPSHOTTED" /\ job[r].mode \in {"escrow", "direct"}
  BY <1>1, SendersList
<1>3. PICK b \in Outgoing(r) : ledger' = Append(ledger, Transfer(job[r].mode, b, job[r].rows))
  BY DEF TransferLands
<1>4. b \in SUBSET Unpaid /\ b \subseteq Wallet /\ ~ClosedNow
  BY <1>2, <1>3, OutgoingFromList DEF Unpaid, ClosedNow
<1> DEFINE n == Len(ledger) + 1
<1>5. /\ DOMAIN ledger' = DOMAIN ledger \cup {n} /\ n \notin DOMAIN ledger
      /\ \A i \in DOMAIN ledger : ledger'[i] = ledger[i]
      /\ ledger'[n] = Transfer(job[r].mode, b, job[r].rows)
  BY <1>3, EInvParts, IssuerAppends
<1>6. ledger'[n].kind = job[r].mode /\ DOMAIN ledger'[n].pays = b
  BY <1>5 DEF Transfer
<1> HIDE DEF n
<1>7. CASE job[r].mode = "escrow"
  <2>1. Reached' = Reached
    BY <1>5, <1>6, <1>7, ReachedGrows
  <2>2. alloc' = alloc /\ ClosedNow' = ClosedNow
    BY <1>1 DEF rowVars, ClosedNow, Unpaid
  <2> QED
    BY <2>1, <2>2, ReceivedStutters
<1>8. CASE job[r].mode = "direct"
  <2>1. Reached' = Reached \cup b
    BY <1>4, <1>5, <1>6, <1>8, ReachedGrows
  <2>2. \A c \in Claimant : cpc[c] = "idle"
    BY <1>1, UnfundedHandler DEF LeasedPCs
  <2>3. \A q \in Request : pc[q] # "paySave"
    BY <1>1, PayingAlone DEF LeasedPCs, EInv, Handler, Controlled
  <2>4. b \cap Reached = {}
    BY <1>4, <2>2, <2>3, UnsignedUnreached DEF Unpaid
  <2> QED
    BY <1>1, <1>4, <2>1, <2>4, ReceivedCovers
<1> QED
  BY <1>2, <1>7, <1>8

(* A release pays the holder of an unsigned row. *)
LEMMA ReceivedRelease ==
  ASSUME EInv, EInv', orphans = {}, orphans' = {}, NEW c \in Claimant, ClaimLands(c)
  PROVE  Received!PromiseNext
<1>1. cpc[c] = "send" /\ Payout(c) /\ UNCHANGED rowVars
  BY DEF ClaimLands
<1>2. Row(c) \in Unpaid /\ Row(c) \in Wallet
  BY <1>1 DEF EInv, ClaimWorks, Unpaid
<1>3. \A q \in Request : pc[q] # "paySave"
  BY <1>1, PayingAlone
<1>4. \A d \in Claimant : cpc[d] = "save" => Row(d) # Row(c)
  BY <1>1, RowsApart
<1>5. Row(c) \notin Reached
  BY <1>2, <1>3, <1>4, UnsignedUnreached DEF Unpaid
<1>6. Reached' = Reached \cup {Row(c)}
  <2> DEFINE n == Len(ledger) + 1
  <2>1. /\ DOMAIN ledger' = DOMAIN ledger \cup {n} /\ n \notin DOMAIN ledger
        /\ \A i \in DOMAIN ledger : ledger'[i] = ledger[i]
        /\ ledger'[n] = ReleaseOf(c)
    BY <1>1, ReleaseAppends
  <2>2. ledger'[n].kind # "escrow" /\ DOMAIN ledger'[n].pays = {Row(c)}
    BY <2>1 DEF ReleaseOf
  <2> HIDE DEF n
  <2> QED
    BY <1>2, <2>1, <2>2, ReachedGrows
<1>7. ~ClosedNow /\ {Row(c)} \in SUBSET Unpaid /\ {Row(c)} \cap Reached = {}
  BY <1>2, <1>5 DEF ClosedNow
<1> QED
  BY <1>1, <1>6, <1>7, ReceivedCovers

(* Signing the last row closes a distribution that is EXECUTED. *)
LEMMA ReceivedSave ==
  ASSUME EInv, EInv', orphans = {}, orphans' = {}, NEW c \in Claimant, SaveClaim(c)
  PROVE  [Received!PromiseNext]_Received!promise
<1>1. cpc[c] = "save" /\ claim[c].gen = gen /\ Row(c) \in Unpaid
  BY DEF SaveClaim, EInv, ClaimWorks
<1>2. /\ UNCHANGED <<status, alloc, ledger>>
      /\ paidSig' = [paidSig EXCEPT ![Row(c)] = claim[c].sig]
  BY <1>1 DEF SaveClaim
<1>3. Row(c) \in Reached
  <2>1. claim[c].sig \in DOMAIN ledger /\ ledger[claim[c].sig] = ReleaseOf(c)
    BY <1>1, EInvParts DEF EInv, ClaimWorks, CTypeInv, ClaimLocals
  <2> QED
    BY <1>1, <2>1 DEF Reached, Covers, ReleaseOf, Unpaid
<1>4. \A w \in Unpaid : w = Row(c) \/ w \in Unpaid'
  BY <1>2, EInvParts DEF Unpaid
<1>5. ~ClosedNow /\ (ClosedNow' => \A w \in Unpaid : w \in Reached)
  BY <1>1, <1>3, <1>4 DEF ClosedNow
<1> QED
  BY <1>2, <1>5, ReceivedCloses

LEMMA ReceivedStep ==
  ASSUME EInv, EInv', GivenUp, GivenUp', [ClaimNext]_allVars, claimFaults' = MaxClaimFaults
  PROVE  [Received!PromiseNext]_Received!promise
<1> USE EInvParts
<1>1. claimFaults \in Nat /\ MaxClaimFaults \in Nat
  BY ClaimAssumption DEF CTypeInv, ClaimTypeOK
<1>2. orphans' = {}
  BY DEF GivenUp
<1>3. CASE [Next]_vars /\ UNCHANGED <<cpc, claim, claimFaults>>
  <2>1. orphans = {}
    BY <1>3 DEF GivenUp
  <2>2. ASSUME NEW r \in Request PROVE ~TransferUnknown(r)
    BY DEF TransferUnknown, GivenUp
  <2>3. ASSUME UNCHANGED <<status, alloc, paidSig, ledger>>
        PROVE  [Received!PromiseNext]_Received!promise
    <3>1. ClosedNow' = ClosedNow /\ Reached' = Reached
      BY <2>3 DEF ClosedNow, Unpaid, Reached, Covers
    <3> QED
      BY <1>2, <2>1, <2>3, <3>1, ReceivedStutters
  <2>4. CASE QuietIssuer \/ \E r \in Request : FundSave(r)
    BY <2>3, <2>4 DEF QuietIssuer, FundSave, rowVars, chainVars
  <2>5. ASSUME NEW r \in Request, PaySave(r) \/ Mark(r)
        PROVE  [Received!PromiseNext]_Received!promise
    <3>1. pc[r] \in {"paySave", "mark"} /\ UNCHANGED <<alloc, ledger>>
      BY <2>5 DEF PaySave, Mark, chainVars
    <3>2. status = "SNAPSHOTTED"
      BY <3>1 DEF EInv, Handler, Controlled, LeasedPCs
    <3>3. ~ClosedNow
      BY <3>2 DEF ClosedNow
    <3>4. ClosedNow' => Unpaid = {}
      BY <2>5, <3>2 DEF PaySave, Mark, ClosedNow, Unpaid
    <3> QED
      BY <1>2, <2>1, <3>1, <3>3, <3>4, ReceivedCloses
  <2> QED
    BY <1>2, <1>3, <2>1, <2>2, <2>4, <2>5, NoFaultsSeen, IssuerCases, ReceivedPublish, ReceivedTransfer
<1>4. ASSUME NEW c \in Claimant, ClaimStep(c)
      PROVE  [Received!PromiseNext]_Received!promise
  <2>1. claimFaults' = claimFaults /\ ~ClaimFault
    <3>1. claimFaults' = claimFaults \/ ClaimFault
      BY <1>4, ClaimGivesUp
    <3>2. claimFaults <= MaxClaimFaults
      BY DEF GivenUp
    <3> QED
      BY <1>1, <3>1, <3>2 DEF ClaimFault
  <2>2. orphans = {}
    BY <2>1 DEF GivenUp
  <2>3. CASE ClaimLands(c) \/ SaveClaim(c)
    BY <1>2, <2>2, <2>3, ReceivedRelease, ReceivedSave
  <2>4. CASE UNCHANGED <<status, alloc, paidSig, ledger>>
    <3>1. ClosedNow' = ClosedNow /\ Reached' = Reached
      BY <2>4 DEF ClosedNow, Unpaid, Reached, Covers
    <3> QED
      BY <1>2, <2>2, <2>4, <3>1, ReceivedStutters
  <2> QED
    BY <1>4, <2>1, <2>3, <2>4 DEF ClaimStep, StartClaim, LockRow, RefuseLock, CheckBalance, ClaimFails, Unlock,
       ClaimUnknown, ClaimCrash, ClaimDatabaseError, vars, rowVars, chainVars
<1> QED
  BY <1>3, <1>4, ClaimCases

LEMMA ReceivedStart ==
  ASSUME EInv, ClaimInit
  PROVE  Received!PromiseInit
<1>1. /\ alloc = [w \in Wallet |-> 0] /\ status # "EXECUTED" /\ orphans = {} /\ Reached = {}
  BY DEF ClaimInit, Init, NoTable, Reached
<1>2. [w \in Wallet |-> ReceivedBy(w)] = [w \in Wallet |-> 0]
  BY <1>1, ReceivedIsReached
<1> QED
  BY <1>1, <1>2 DEF Received!PromiseInit, Received!Nothing

(* Until a fault strikes a claim, money reaches the holders as promised:   *)
(* each is paid once, what his row of a table says that nobody replaced    *)
(* since the first payment, whether directly or by his claim, and a        *)
(* distribution whose rows are all signed has paid them all.  For every    *)
(* number of requests, claims and wallets, where the issuer's own requests *)
(* are not struck by a fault.                                              *)
THEOREM HoldersPaid ==
  ASSUME MaxDurationEnforced, MaxCrashes = 0, MaxErrors = 0, MaxUnknown = 0
  PROVE  ClaimSpec => HoldersPaidOnce
<1>1. EInv /\ ClaimInit => Received!PromiseInit
  BY ReceivedStart
<1>2. EInv /\ GivenUp /\ (EInv /\ GivenUp)' /\ [ClaimNext]_allVars
         => [claimFaults' = MaxClaimFaults => [Received!PromiseNext]_Received!promise]_allVars
  BY ReceivedStep
<1> QED
  BY <1>1, <1>2, NothingGivenUp, PTL DEF ClaimSpec, HoldersPaidOnce

-----------------------------------------------------------------------------
(* The escrow's books: what was put in, what is still owed. *)

Savers == {c \in Claimant : cpc[c] = "save"}

EscrowTerms == [i \in DOMAIN ledger |-> IF ledger[i].kind = "escrow" THEN TotalOf(ledger[i].pays) ELSE 0]

ClaimTerms ==
    [i \in DOMAIN ledger |->
        IF ledger[i].kind = "claim" /\ i \notin orphans THEN TotalOf(ledger[i].pays) ELSE 0]

SaverTerms == [c \in Savers |-> claim[c].amount]

(* Paid into the escrow, out of it on record, landed and being recorded,   *)
(* and shown as unclaimed.                                                 *)
PutIn     == SumFunction(EscrowTerms)
Claimed   == SumFunction(ClaimTerms)
Landing   == SumFunction(SaverTerms)
Unclaimed == SumFunctionOnSet(alloc, Unpaid)

CoverInv ==
    /\ IsFiniteSet({c \in Claimant : cpc[c] # "idle"})
    /\ fundSig # NoSig => PutIn + Landing >= Unclaimed + Claimed

LEMMA TotalIsNat ==
  ASSUME TypeInv, NEW i \in DOMAIN ledger
  PROVE  TotalOf(ledger[i].pays) \in Nat
<1>1. ledger[i] \in Transfers
  BY DEF TypeInv, TypeOK
<1>2. PICK ws \in SUBSET Wallet, t \in AllocationTables : ledger[i].pays = [w \in ws |-> t[w]]
  BY <1>1 DEF Transfers, Payments
<1>3. t \in [Wallet -> Nat]
  BY ConstantsAssumption DEF AllocationTables, NoTable
<1>4. IsFiniteSet(ws)
  BY FiniteHolders, FS_Subset
<1> DEFINE f == [w \in ws |-> t[w]]
<1>5. \A w \in ws : f[w] \in Nat
  BY <1>3
<1>6. DOMAIN f = ws
  OBVIOUS
<1> HIDE DEF f
<1>7. SumFunctionOnSet(f, ws) \in Nat
  BY <1>4, <1>5, SumIsNat
<1> QED
  BY <1>2, <1>6, <1>7 DEF TotalOf, SumFunction, f

LEMMA BooksTyped ==
  ASSUME TypeInv
  PROVE  /\ \A i \in DOMAIN ledger : EscrowTerms[i] \in Nat /\ ClaimTerms[i] \in Nat
         /\ DOMAIN EscrowTerms = DOMAIN ledger /\ DOMAIN ClaimTerms = DOMAIN ledger
         /\ IsFiniteSet(DOMAIN ledger) /\ PutIn \in Nat /\ Claimed \in Nat
<1>1. IsFiniteSet(DOMAIN ledger)
  BY LedgerFinite
<1>2. \A i \in DOMAIN ledger : EscrowTerms[i] \in Nat /\ ClaimTerms[i] \in Nat
  BY TotalIsNat DEF EscrowTerms, ClaimTerms
<1>3. DOMAIN EscrowTerms = DOMAIN ledger /\ DOMAIN ClaimTerms = DOMAIN ledger
  BY DEF EscrowTerms, ClaimTerms
<1>4. SumFunctionOnSet(EscrowTerms, DOMAIN ledger) \in Nat /\ SumFunctionOnSet(ClaimTerms, DOMAIN ledger) \in Nat
  BY <1>1, <1>2, SumIsNat
<1> QED
  BY <1>1, <1>2, <1>3, <1>4 DEF PutIn, Claimed, SumFunction

LEMMA RowsTyped ==
  ASSUME TypeInv
  PROVE  /\ \A w \in Wallet : alloc[w] \in Nat
         /\ IsFiniteSet(Unpaid) /\ Unclaimed \in Nat
<1>1. \A w \in Wallet : alloc[w] \in Nat
  BY AllocNat
<1>2. IsFiniteSet(Unpaid) /\ Unpaid \subseteq Wallet
  BY FiniteHolders, FS_Subset DEF Unpaid
<1> QED
  BY <1>1, <1>2, SumIsNat DEF Unclaimed

LEMMA SaversTyped ==
  ASSUME EInv, CoverInv
  PROVE  /\ IsFiniteSet(Savers) /\ DOMAIN SaverTerms = Savers /\ Landing \in Nat
         /\ \A c \in Savers : SaverTerms[c] \in Nat
<1>1. IsFiniteSet(Savers)
  <2>1. Savers \subseteq {c \in Claimant : cpc[c] # "idle"}
    BY DEF Savers
  <2> QED
    BY <2>1, FS_Subset DEF CoverInv
<1>2. \A c \in Savers : SaverTerms[c] \in Nat
  BY EInvParts DEF Savers, SaverTerms, ClaimRecord
<1>3. DOMAIN SaverTerms = Savers
  BY DEF SaverTerms
<1>4. SumFunctionOnSet(SaverTerms, Savers) \in Nat
  BY <1>1, <1>2, SumIsNat
<1> QED
  BY <1>1, <1>2, <1>3, <1>4 DEF Landing, SumFunction

(* A release is worth its amount. *)
LEMMA ReleaseWorth ==
  ASSUME NEW c \in Claimant, claim[c].amount \in Nat
  PROVE  TotalOf(ReleaseOf(c).pays) = claim[c].amount
<1> DEFINE f == [w \in {Row(c)} |-> claim[c].amount]
<1>1. ReleaseOf(c).pays = f /\ DOMAIN f = {Row(c)} /\ f[Row(c)] = claim[c].amount
  BY DEF ReleaseOf
<1>2. IsFiniteSet({Row(c)})
  BY FS_Singleton
<1> HIDE DEF f
<1>3. SumFunctionOnSet(f, {Row(c)}) = f[Row(c)]
  BY <1>1, <1>2, OnlyTerm
<1> QED
  BY <1>1, <1>3 DEF TotalOf, SumFunction

-----------------------------------------------------------------------------
(* The books at the moment the funding is recorded. *)

LEMMA BooksOpen ==
  ASSUME EInv, CoverInv, fundSig = NoSig, NEW r \in Request, pc[r] = "fundSave"
  PROVE  PutIn + Landing >= Unclaimed + Claimed
<1> USE EInvParts
<1>1. NoClaims /\ \A c \in Claimant : cpc[c] = "idle"
  BY DEF EInv, FundingEnds
<1>2. Landing = 0
  <2>1. Savers = {}
    BY <1>1 DEF Savers
  <2> QED
    BY <2>1, SaversTyped, SumOfNone DEF Landing, SumFunction
<1>3. Claimed = 0
  <2>1. \A i \in DOMAIN ledger : ClaimTerms[i] = 0
    BY <1>1 DEF ClaimTerms, NoClaims
  <2> QED
    BY <2>1, BooksTyped, SumOfZeros DEF Claimed, SumFunction
<1>4. PutIn >= Unclaimed
  <2>1. Funding(r) /\ job[r].sig \in DOMAIN ledger \cup {NoTransfer}
    BY DEF EInv, Handler, TypeInv, InFlightInv
  <2>2. CASE job[r].sig = NoTransfer
    <3>1. Unclaimed = 0
      BY <2>1, <2>2, SumOfNone DEF Funding, Unclaimed
    <3> QED
      BY <3>1, BooksTyped
  <2>3. CASE job[r].sig # NoTransfer
    <3> DEFINE s == job[r].sig
    <3>1. s \in DOMAIN ledger /\ ledger[s] = Transfer("escrow", Unpaid, alloc)
      BY <2>1, <2>3 DEF Funding
    <3>2. TotalOf(ledger[s].pays) = Unclaimed
      <4> DEFINE f == [w \in Unpaid |-> alloc[w]]
      <4>1. ledger[s].pays = f /\ DOMAIN f = Unpaid /\ \A w \in Unpaid : f[w] = alloc[w]
        BY <3>1 DEF Transfer
      <4> HIDE DEF f
      <4>2. SumFunctionOnSet(f, Unpaid) = SumFunctionOnSet(alloc, Unpaid)
        BY <4>1, SameTerms
      <4> QED
        BY <4>1, <4>2 DEF TotalOf, SumFunction, Unclaimed
    <3>3. EscrowTerms[s] = Unclaimed
      <4>1. ledger[s].kind = "escrow"
        BY <3>1 DEF Transfer
      <4> QED
        BY <3>1, <3>2, <4>1 DEF EscrowTerms
    <3> HIDE DEF s
    <3>4. SumFunctionOnSet(EscrowTerms, DOMAIN ledger)
            = EscrowTerms[s] + SumFunctionOnSet(EscrowTerms, DOMAIN ledger \ {s})
      <4>1. \A i \in DOMAIN ledger : EscrowTerms[i] \in Int
        BY BooksTyped
      <4> QED
        BY <3>1, <4>1, BooksTyped, SumWithout
    <3>5. SumFunctionOnSet(EscrowTerms, DOMAIN ledger \ {s}) \in Nat
      BY BooksTyped, FS_Subset, SumIsNat
    <3>6. PutIn = SumFunctionOnSet(EscrowTerms, DOMAIN ledger)
      BY BooksTyped DEF PutIn, SumFunction
    <3> QED
      BY <3>3, <3>4, <3>5, <3>6, RowsTyped
  <2> QED
    BY <2>2, <2>3
<1> QED
  BY <1>2, <1>3, <1>4, RowsTyped, BooksTyped

-----------------------------------------------------------------------------
(* The books through the steps of a claim. *)

(* A release that lands goes on the books, unless its outcome is unknown. *)
LEMMA BooksGrow ==
  ASSUME TypeInv, NEW c \in Claimant, claim[c].amount \in Nat, NEW n,
         DOMAIN ledger' = DOMAIN ledger \cup {n}, n \notin DOMAIN ledger,
         \A i \in DOMAIN ledger : ledger'[i] = ledger[i], ledger'[n] = ReleaseOf(c),
         orphans' \in {orphans, orphans \cup {n}}
  PROVE  /\ PutIn' = PutIn
         /\ Claimed' = (IF n \in orphans' THEN 0 ELSE claim[c].amount) + Claimed
<1>1. /\ DOMAIN EscrowTerms' = DOMAIN EscrowTerms \cup {n} /\ n \notin DOMAIN EscrowTerms
      /\ DOMAIN ClaimTerms' = DOMAIN ClaimTerms \cup {n} /\ n \notin DOMAIN ClaimTerms
      /\ IsFiniteSet(DOMAIN EscrowTerms) /\ IsFiniteSet(DOMAIN ClaimTerms)
  BY BooksTyped DEF EscrowTerms, ClaimTerms
<1>2. ReleaseOf(c).kind = "claim" /\ TotalOf(ReleaseOf(c).pays) = claim[c].amount
  BY ReleaseWorth DEF ReleaseOf
<1>3. \A i \in DOMAIN EscrowTerms : EscrowTerms'[i] = EscrowTerms[i] /\ EscrowTerms[i] \in Int
  BY <1>1, BooksTyped DEF EscrowTerms
<1>4. \A i \in DOMAIN ClaimTerms : ClaimTerms'[i] = ClaimTerms[i] /\ ClaimTerms[i] \in Int
  BY <1>1, BooksTyped DEF ClaimTerms
<1>5. EscrowTerms'[n] = 0
  BY <1>1, <1>2 DEF EscrowTerms
<1>6. ClaimTerms'[n] = IF n \in orphans' THEN 0 ELSE claim[c].amount
  BY <1>1, <1>2 DEF ClaimTerms
<1>7. SumFunction(EscrowTerms') = EscrowTerms'[n] + SumFunction(EscrowTerms) /\ SumFunction(EscrowTerms) \in Int
  BY <1>1, <1>3, <1>5, OneMoreTerm
<1>8. SumFunction(ClaimTerms') = ClaimTerms'[n] + SumFunction(ClaimTerms) /\ SumFunction(ClaimTerms) \in Int
  BY <1>1, <1>4, <1>6, OneMoreTerm
<1> QED
  BY <1>5, <1>6, <1>7, <1>8 DEF PutIn, Claimed

(* A release that is given up leaves the books. *)
LEMMA BooksShrink ==
  ASSUME TypeInv, TypeInv', NEW c \in Claimant, claim[c].amount \in Nat, UNCHANGED ledger,
         NEW s \in DOMAIN ledger, s \notin orphans, ledger[s] = ReleaseOf(c), orphans' = orphans \cup {s}
  PROVE  PutIn' = PutIn /\ Claimed = claim[c].amount + Claimed'
<1>1. EscrowTerms' = EscrowTerms
  BY DEF EscrowTerms
<1> DEFINE D == DOMAIN ledger
<1>2. /\ DOMAIN ClaimTerms = D /\ DOMAIN ClaimTerms' = D /\ IsFiniteSet(D)
      /\ \A i \in D : ClaimTerms[i] \in Int
  BY BooksTyped DEF ClaimTerms
<1>3. \A i \in D \ {s} : ClaimTerms'[i] = ClaimTerms[i]
  BY DEF ClaimTerms
<1>4. ClaimTerms[s] = claim[c].amount /\ ClaimTerms'[s] = 0
  <2>1. ledger[s].kind = "claim" /\ TotalOf(ledger[s].pays) = claim[c].amount
    BY ReleaseWorth DEF ReleaseOf
  <2> QED
    BY <2>1 DEF ClaimTerms
<1>5. \A i \in D : ClaimTerms'[i] \in Int
  BY <1>2, <1>3, <1>4
<1> HIDE DEF D
<1>6. s \in D
  BY DEF D
<1>7. SumFunctionOnSet(ClaimTerms, D) = ClaimTerms[s] + SumFunctionOnSet(ClaimTerms, D \ {s})
  BY <1>2, <1>6, SumWithout
<1>8. SumFunctionOnSet(ClaimTerms', D) = ClaimTerms'[s] + SumFunctionOnSet(ClaimTerms', D \ {s})
  BY <1>2, <1>5, <1>6, SumWithout
<1>9. SumFunctionOnSet(ClaimTerms', D \ {s}) = SumFunctionOnSet(ClaimTerms, D \ {s})
  BY <1>3, SameTerms
<1>10. SumFunctionOnSet(ClaimTerms, D \ {s}) \in Int
  <2>1. IsFiniteSet(D \ {s})
    BY <1>2, FS_Subset
  <2> QED
    BY <1>2, <2>1, SumIsInt
<1> QED
  BY <1>1, <1>2, <1>4, <1>7, <1>8, <1>9, <1>10 DEF PutIn, Claimed, SumFunction

LEMMA LandingKept ==
  ASSUME Savers' = Savers, \A c \in Savers : claim'[c] = claim[c]
  PROVE  Landing' = Landing
<1>1. SaverTerms' = SaverTerms
  BY DEF SaverTerms
<1> QED
  BY <1>1 DEF Landing

LEMMA LandingGrows ==
  ASSUME EInv, CoverInv, NEW c \in Claimant, c \notin Savers, Savers' = Savers \cup {c},
         \A d \in Savers : claim'[d] = claim[d], claim'[c].amount \in Nat
  PROVE  Landing' = claim'[c].amount + Landing
<1>1. /\ DOMAIN SaverTerms = Savers /\ IsFiniteSet(Savers)
      /\ \A d \in Savers : SaverTerms[d] \in Int
  BY SaversTyped
<1>2. DOMAIN SaverTerms' = Savers \cup {c} /\ SaverTerms'[c] = claim'[c].amount
  BY DEF SaverTerms
<1>3. \A d \in Savers : SaverTerms'[d] = SaverTerms[d]
  BY DEF SaverTerms
<1>4. SumFunction(SaverTerms') = SaverTerms'[c] + SumFunction(SaverTerms)
  BY <1>1, <1>2, <1>3, OneMoreTerm
<1> QED
  BY <1>2, <1>4 DEF Landing

LEMMA LandingShrinks ==
  ASSUME EInv, CoverInv, NEW c \in Savers, Savers' = Savers \ {c},
         \A d \in Savers \ {c} : claim'[d] = claim[d]
  PROVE  Landing = claim[c].amount + Landing' /\ Landing' \in Int
<1>1. /\ DOMAIN SaverTerms = Savers /\ IsFiniteSet(Savers)
      /\ \A d \in Savers : SaverTerms[d] \in Int
  BY SaversTyped
<1>2. DOMAIN SaverTerms' = Savers \ {c} /\ SaverTerms[c] = claim[c].amount
  BY DEF SaverTerms
<1>3. \A d \in Savers \ {c} : SaverTerms'[d] = SaverTerms[d]
  BY DEF SaverTerms
<1>4. /\ IsFiniteSet(DOMAIN SaverTerms') /\ c \notin DOMAIN SaverTerms'
      /\ DOMAIN SaverTerms = DOMAIN SaverTerms' \cup {c}
      /\ \A d \in DOMAIN SaverTerms' : SaverTerms[d] = SaverTerms'[d] /\ SaverTerms'[d] \in Int
      /\ SaverTerms[c] \in Int
  BY <1>1, <1>2, <1>3, FS_Subset
<1>5. SumFunction(SaverTerms) = SaverTerms[c] + SumFunction(SaverTerms') /\ SumFunction(SaverTerms') \in Int
  BY <1>4, OneMoreTerm
<1> QED
  BY <1>2, <1>5 DEF Landing

(* The signature moves the row from what is unclaimed to what is claimed. *)
LEMMA UnclaimedShrinks ==
  ASSUME TypeInv, alloc' = alloc, NEW w \in Unpaid, Unpaid' = Unpaid \ {w}
  PROVE  Unclaimed = alloc[w] + Unclaimed'
<1>1. IsFiniteSet(Unpaid) /\ \A v \in Unpaid : alloc[v] \in Int
  BY RowsTyped DEF Unpaid
<1>2. SumFunctionOnSet(alloc, Unpaid) = alloc[w] + SumFunctionOnSet(alloc, Unpaid \ {w})
  BY <1>1, SumWithout
<1> QED
  BY <1>2 DEF Unclaimed

-----------------------------------------------------------------------------
(* Every step keeps the books covered. *)

LEMMA BooksSame ==
  ASSUME UNCHANGED <<alloc, paidSig, ledger, orphans, cpc, claim>>
  PROVE  PutIn' = PutIn /\ Landing' = Landing /\ Unclaimed' = Unclaimed /\ Claimed' = Claimed
<1>1. EscrowTerms' = EscrowTerms /\ ClaimTerms' = ClaimTerms
  BY DEF EscrowTerms, ClaimTerms
<1>2. Savers' = Savers
  BY DEF Savers
<1>3. SaverTerms' = SaverTerms
  BY <1>2 DEF SaverTerms
<1>4. Unpaid' = Unpaid
  BY DEF Unpaid
<1> QED
  BY <1>1, <1>3, <1>4 DEF PutIn, Landing, Unclaimed, Claimed

LEMMA CoverIssuer ==
  ASSUME EInv, CoverInv, [Next]_vars, UNCHANGED <<cpc, claim>>, NoIssuerFaults'
  PROVE  CoverInv'
<1>1. IsFiniteSet({c \in Claimant : cpc'[c] # "idle"})
  BY DEF CoverInv
<1>2. ASSUME UNCHANGED <<alloc, paidSig, ledger, orphans>>, fundSig # NoSig PROVE CoverInv'
  BY <1>1, <1>2, BooksSame DEF CoverInv
<1>3. ASSUME fundSig' = NoSig PROVE CoverInv'
  BY <1>1, <1>3 DEF CoverInv
<1>4. CASE QuietIssuer
  <2>1. UNCHANGED <<alloc, paidSig, ledger, orphans, fundSig>>
    BY <1>4 DEF QuietIssuer, rowVars, fundVars, chainVars
  <2> QED
    BY <1>2, <1>3, <2>1
<1>5. ASSUME NEW r \in Request, CommitSnapshot(r) PROVE CoverInv'
  <2>1. LeaseFree /\ status # "EXECUTED" /\ fundSig' = fundSig
    BY <1>5 DEF CommitSnapshot, SnapshotAllowed, fundVars
  <2>2. \A q \in Request : pc[q] \notin LeasedPCs
    BY <2>1, EInvParts, LeaseFreeMeansNobody
  <2>3. fundSig = NoSig
    BY <2>1, <2>2 DEF EInv, FundingEnds, LeasedPCs
  <2> QED
    BY <1>3, <2>1, <2>3
<1>6. ASSUME NEW r \in Request, PaySave(r) \/ TransferLands(r) \/ TransferUnknown(r) PROVE CoverInv'
  <2>1. pc[r] \in LeasedPCs /\ pc[r] # "mark" /\ fundSig' = fundSig
    BY <1>6 DEF PaySave, TransferLands, TransferUnknown, LeasedPCs, fundVars
  <2>2. fundSig = NoSig
    BY <2>1, UnfundedHandler
  <2> QED
    BY <1>3, <2>1, <2>2
<1>7. ASSUME NEW r \in Request, FundSave(r) PROVE CoverInv'
  <2>1. pc[r] = "fundSave" /\ UNCHANGED <<alloc, paidSig, ledger, orphans>>
    BY <1>7 DEF FundSave, rowVars, chainVars
  <2>2. fundSig = NoSig
    BY <2>1, UnfundedHandler DEF LeasedPCs
  <2>3. PutIn + Landing >= Unclaimed + Claimed
    BY <2>1, <2>2, BooksOpen
  <2> QED
    BY <1>1, <2>1, <2>3, BooksSame DEF CoverInv
<1>8. ASSUME NEW r \in Request, Mark(r) PROVE CoverInv'
  <2>1. UNCHANGED <<alloc, paidSig, ledger, orphans>> /\ pc[r] = "mark"
    BY <1>8 DEF Mark, chainVars
  <2>2. Funding(r)
    BY DEF EInv, Handler
  <2>3. fundSig' = fundSig
    BY <1>8, <2>1, <2>2 DEF Mark, Funding
  <2> QED
    BY <1>2, <1>3, <2>1, <2>3
<1> QED
  BY <1>4, <1>5, <1>6, <1>7, <1>8, IssuerCases

LEMMA ClaimedTypedNext ==
  (TypeInv => Claimed \in Nat)'
<1>1. TypeInv => Claimed \in Nat
  BY BooksTyped
<1> QED
  BY <1>1, PTL

LEMMA CoverClaim ==
  ASSUME EInv, EInv', CoverInv, NEW c \in Claimant, ClaimStep(c)
  PROVE  CoverInv'
<1> USE EInvParts
<1>1. OthersGoOn(c) /\ alloc' = alloc /\ gen' = gen
  BY OneSteps DEF IssuerStands
<1>2. IsFiniteSet({d \in Claimant : cpc'[d] # "idle"})
  <2> DEFINE busy == {d \in Claimant : cpc[d] # "idle"}
             busyNext == {d \in Claimant : cpc'[d] # "idle"}
  <2>1. busyNext \subseteq busy \cup {c}
    BY <1>1 DEF OthersGoOn
  <2>2. IsFiniteSet(busy)
    BY DEF CoverInv
  <2> HIDE DEF busy, busyNext
  <2>3. IsFiniteSet(busy \cup {c})
    BY <2>2, FS_AddElement
  <2>4. IsFiniteSet(busyNext)
    BY <2>1, <2>3, FS_Subset
  <2> QED
    BY <2>4 DEF busyNext
<1>3. fundSig # NoSig
  <2>1. CASE StartClaim(c)
    BY <2>1 DEF StartClaim, LoadFunded
  <2>2. CASE ~StartClaim(c)
    <3>1. cpc[c] # "idle"
      BY <2>2 DEF ClaimStep, LockRow, RefuseLock, CheckBalance, ClaimLands, ClaimFails, SaveClaim,
         Unlock, ClaimUnknown, ClaimCrash, ClaimDatabaseError
    <3> QED
      BY <3>1, ClaimMeansFunded
  <2> QED
    BY <2>1, <2>2
<1>4. PutIn + Landing >= Unclaimed + Claimed
  BY <1>3 DEF CoverInv
<1>5. /\ PutIn \in Nat /\ Claimed \in Nat /\ Unclaimed \in Nat /\ Landing \in Nat
      /\ claim[c].amount \in Nat
  BY BooksTyped, RowsTyped, SaversTyped DEF ClaimRecord
<1>6. \A d \in Savers \ {c} : claim'[d] = claim[d]
  BY <1>1 DEF OthersGoOn, Savers
<1>7. ASSUME cpc[c] # "save", cpc'[c] # "save" PROVE Landing' = Landing
  <2>1. Savers' = Savers /\ c \notin Savers
    BY <1>1, <1>7 DEF OthersGoOn, Savers
  <2> QED
    BY <1>6, <2>1, LandingKept
<1>8. ASSUME cpc[c] = "save", cpc'[c] # "save"
      PROVE  Landing = claim[c].amount + Landing' /\ Landing' \in Int
  <2>1. Savers' = Savers \ {c} /\ c \in Savers
    BY <1>1, <1>8 DEF OthersGoOn, Savers
  <2> QED
    BY <1>6, <2>1, LandingShrinks
<1>9. ASSUME paidSig' = paidSig PROVE Unclaimed' = Unclaimed
  BY <1>1, <1>9 DEF Unclaimed, Unpaid
<1>10. ASSUME UNCHANGED <<ledger, orphans>> PROVE PutIn' = PutIn /\ Claimed' = Claimed
  <2>1. EscrowTerms' = EscrowTerms /\ ClaimTerms' = ClaimTerms
    BY <1>10 DEF EscrowTerms, ClaimTerms
  <2> QED
    BY <2>1 DEF PutIn, Claimed
<1>11. ASSUME PutIn' + Landing' >= Unclaimed' + Claimed' PROVE CoverInv'
  BY <1>2, <1>11 DEF CoverInv
<1>12. CASE StartClaim(c) \/ LockRow(c) \/ RefuseLock(c) \/ CheckBalance(c) \/ ClaimFails(c) \/ Unlock(c)
  <2>1. cpc[c] # "save" /\ UNCHANGED <<paidSig, ledger, orphans>>
    BY <1>12 DEF StartClaim, LockRow, RefuseLock, CheckBalance, ClaimFails, Unlock, vars, rowVars, chainVars
  <2>2. cpc'[c] # "save"
    BY <1>12 DEF StartClaim, LockRow, RefuseLock, CheckBalance, ClaimFails, Unlock, ClaimGoto, ClaimReturn
  <2> QED
    BY <1>4, <1>7, <1>9, <1>10, <1>11, <2>1, <2>2
<1>13. CASE ClaimLands(c) \/ ClaimUnknown(c)
  <2> DEFINE n == Len(ledger) + 1
  <2>1. /\ DOMAIN ledger' = DOMAIN ledger \cup {n} /\ n \notin DOMAIN ledger
        /\ \A i \in DOMAIN ledger : ledger'[i] = ledger[i]
        /\ ledger'[n] = ReleaseOf(c)
    BY <1>13, ReleaseAppends DEF ClaimLands, ClaimUnknown
  <2>2. cpc[c] = "send" /\ paidSig' = paidSig
    BY <1>13 DEF ClaimLands, ClaimUnknown, rowVars
  <2>3. CASE ClaimLands(c)
    <3>1. orphans' = orphans /\ n \notin orphans'
      BY <2>1, <2>3 DEF ClaimLands
    <3>2. cpc'[c] = "save" /\ claim'[c].amount = claim[c].amount
      BY <2>3 DEF ClaimLands, ClaimGoto, ClaimRecord
    <3>3. c \notin Savers /\ Savers' = Savers \cup {c} /\ \A d \in Savers : claim'[d] = claim[d]
      BY <1>1, <1>6, <2>2, <3>2 DEF OthersGoOn, Savers
    <3>4. Landing' = claim[c].amount + Landing
      BY <1>5, <3>2, <3>3, LandingGrows
    <3> HIDE DEF n
    <3>5. PutIn' = PutIn /\ Claimed' = claim[c].amount + Claimed
      BY <1>5, <2>1, <3>1, BooksGrow
    <3> QED
      BY <1>4, <1>5, <1>9, <1>11, <2>2, <3>4, <3>5
  <2>4. CASE ClaimUnknown(c)
    <3>1. orphans' = orphans \cup {n} /\ cpc'[c] # "save"
      BY <2>4 DEF ClaimUnknown, ClaimGoto
    <3> HIDE DEF n
    <3>2. PutIn' = PutIn /\ Claimed' = 0 + Claimed
      BY <1>5, <2>1, <3>1, BooksGrow
    <3> QED
      BY <1>4, <1>5, <1>7, <1>9, <1>11, <2>2, <3>1, <3>2
  <2> QED
    BY <1>13, <2>3, <2>4
<1>14. ASSUME cpc[c] = "save"
       PROVE  /\ claim[c].sig \in DOMAIN ledger \ orphans /\ ledger[claim[c].sig] = ReleaseOf(c)
              /\ claim[c].gen = gen /\ claim[c].amount = alloc[Row(c)] /\ Row(c) \in Unpaid
  BY <1>14 DEF EInv, ClaimWorks, CTypeInv, ClaimLocals
<1>15. CASE SaveClaim(c)
  <2>1. cpc[c] = "save"
    BY <1>15 DEF SaveClaim
  <2>2. /\ UNCHANGED <<ledger, orphans>> /\ cpc'[c] # "save"
        /\ paidSig' = [paidSig EXCEPT ![Row(c)] = claim[c].sig]
    BY <1>14, <1>15, <2>1 DEF SaveClaim, ClaimGoto
  <2>3. Unpaid' = Unpaid \ {Row(c)}
    BY <1>1, <1>14, <2>1, <2>2 DEF Unpaid
  <2>4. Unclaimed = claim[c].amount + Unclaimed' /\ Unclaimed' \in Int
    <3>1. Unclaimed' = SumFunctionOnSet(alloc, Unpaid \ {Row(c)})
      BY <1>1, <2>3 DEF Unclaimed
    <3>2. IsFiniteSet(Unpaid \ {Row(c)}) /\ \A w \in Unpaid \ {Row(c)} : alloc[w] \in Int
      BY RowsTyped, FS_Subset
    <3>3. Unclaimed' \in Int
      BY <3>1, <3>2, SumIsInt
    <3> QED
      BY <1>1, <1>14, <2>1, <2>3, <3>3, UnclaimedShrinks
  <2> QED
    BY <1>4, <1>5, <1>8, <1>10, <1>11, <2>1, <2>2, <2>4, SMTT(20)
<1>16. CASE ClaimCrash(c) \/ ClaimDatabaseError(c)
  <2>1. /\ UNCHANGED <<paidSig, ledger>> /\ cpc'[c] # "save"
        /\ orphans' = orphans \cup ClaimInFlight(c)
    BY <1>16 DEF ClaimCrash, ClaimDatabaseError, ClaimReturn, ClaimGoto, rowVars
  <2>2. CASE cpc[c] # "save"
    <3>1. orphans' = orphans
      BY <2>1, <2>2 DEF ClaimInFlight
    <3> QED
      BY <1>4, <1>7, <1>9, <1>10, <1>11, <2>1, <2>2, <3>1
  <2>3. CASE cpc[c] = "save"
    <3> DEFINE s == claim[c].sig
    <3>1. orphans' = orphans \cup {s} /\ s \in DOMAIN ledger /\ s \notin orphans /\ ledger[s] = ReleaseOf(c)
      BY <1>14, <2>1, <2>3 DEF ClaimInFlight
    <3>2. TypeInv'
      BY DEF EInv, CInv, CTypeInv, ClaimTypeOK, TypeInv
    <3>3. PutIn' = PutIn /\ Claimed = claim[c].amount + Claimed'
      BY <1>5, <2>1, <3>1, <3>2, BooksShrink
    <3>4. Claimed' \in Int
      BY <3>2, ClaimedTypedNext
    <3> QED
      BY <1>4, <1>5, <1>8, <1>9, <1>11, <2>1, <2>3, <3>3, <3>4, SMTT(20)
  <2> QED
    BY <2>2, <2>3
<1> QED
  BY <1>12, <1>13, <1>15, <1>16 DEF ClaimStep

LEMMA CoverInit == ClaimInit => CoverInv
<1> SUFFICES ASSUME ClaimInit PROVE CoverInv
  OBVIOUS
<1>1. {c \in Claimant : cpc[c] # "idle"} = {} /\ fundSig = NoSig
  BY DEF ClaimInit, Init
<1> QED
  BY <1>1, FS_EmptySet DEF CoverInv

LEMMA CoverStep ==
  EInv /\ EInv' /\ CoverInv /\ [ClaimNext]_allVars => CoverInv'
<1> SUFFICES ASSUME EInv, EInv', CoverInv, [ClaimNext]_allVars PROVE CoverInv'
  OBVIOUS
<1> QED
  BY ClaimCases, NoFaultsSeen, CoverIssuer, CoverClaim

-----------------------------------------------------------------------------
(* What the page shows. *)

(* The claims of the page are those of the rows, and add up to the total. *)
LEMMA PageAddsUp ==
  ASSUME EInv, NEW page \in Detail.claims
  PROVE  /\ fundSig # NoSig /\ page.unclaimed = Unclaimed
         /\ page.claimed + page.unclaimed = total
<1> USE EInvParts
<1> DEFINE d == [status |-> status, payoutMode |-> payoutMode, fundSig |-> fundSig,
                 leaseHeld |-> lease # NoLease /\ live,
                 payouts |-> alloc, signatures |-> paidSig, total |-> total]
<1>1. Detail.claims = claims(d)
  BY DEF Detail, distributionDetail
<1>2. DOMAIN alloc = Wallet /\ \A w \in Wallet : alloc[w] \in Nat
  BY AllocNat
<1>3. Signed(d) = Recorded /\ Unsigned(d) = Unpaid
  BY <1>2 DEF Signed, Unsigned, Recorded, Unpaid, NoSig
<1>4. d.payouts = alloc /\ d.payoutMode = payoutMode /\ d.fundSig = fundSig
  OBVIOUS
<1> HIDE DEF d
<1>5. /\ fundSig # NoSig
      /\ page.claimed = SumFunctionOnSet(alloc, Recorded)
      /\ page.unclaimed = SumFunctionOnSet(alloc, Unpaid)
  BY <1>1, <1>3, <1>4 DEF claims, Shown, NoSig
<1>6. total = TotalOf(alloc)
  <2>1. status = "EXECUTED" \/ \E r \in Request : pc[r] = "mark"
    BY <1>5 DEF EInv, FundingEnds
  <2>2. \A r \in Request : pc[r] = "mark" => status = "SNAPSHOTTED"
    BY DEF EInv, Handler, Controlled, LeasedPCs
  <2>3. status # "DRAFT"
    BY <2>1, <2>2
  <2> QED
    BY <2>3 DEF EInv, TotalStands
<1> DEFINE Sum(S) == SumFunctionOnSet(alloc, S)
           Rest   == Wallet \ Recorded
<1>7. \A w \in Wallet : alloc[w] \in Int
  BY <1>2
<1>8. /\ Recorded \in SUBSET Wallet /\ Unpaid \in SUBSET Rest /\ Rest \in SUBSET Wallet
      /\ Rest \ Unpaid \in SUBSET Wallet
  BY DEF Recorded, Unpaid
<1>9. Sum(Wallet) = Sum(Recorded) + Sum(Rest)
  BY <1>7, <1>8, FiniteHolders, SumOfParts
<1>10. Sum(Rest) = Sum(Unpaid) + Sum(Rest \ Unpaid)
  <2>1. IsFiniteSet(Rest) /\ \A w \in Rest : alloc[w] \in Int
    BY <1>7, <1>8, FiniteHolders, FS_Subset
  <2> HIDE DEF Rest
  <2> QED
    BY <1>8, <2>1, SumOfParts
<1>11. Sum(Rest \ Unpaid) = 0
  <2>1. \A w \in Rest \ Unpaid : alloc[w] = 0
    BY <1>2 DEF Recorded, Unpaid
  <2>2. IsFiniteSet(Rest \ Unpaid)
    BY <1>8, FiniteHolders, FS_Subset
  <2> HIDE DEF Rest
  <2> QED
    BY <2>1, <2>2, SumOfZeros
<1>12. Sum(Unpaid) \in Int /\ Sum(Recorded) \in Int
  <2>1. IsFiniteSet(Recorded) /\ \A w \in Recorded : alloc[w] \in Int
    BY <1>7, <1>8, FiniteHolders, FS_Subset
  <2> QED
    BY <2>1, SumIsInt, RowsTyped DEF Unclaimed
<1>13. TotalOf(alloc) = Sum(Wallet)
  BY <1>2 DEF TotalOf, SumFunction
<1> QED
  BY <1>5, <1>6, <1>9, <1>10, <1>11, <1>12, <1>13 DEF Unclaimed

(* A handler that is about to send holds the lease, and the page asks for  *)
(* what it sends.                                                          *)
LEMMA PageAsks ==
  ASSUME EInv, NEW r \in Request, pc[r] \in {"fundSend", "paySend"}
  PROVE  /\ Detail.executionInProgress
         /\ \A needed \in Detail.balance :
               needed.required = SumFunctionOnSet(job[r].rows, job[r].todo)
<1> USE EInvParts
<1> DEFINE d == [status |-> status, payoutMode |-> payoutMode, fundSig |-> fundSig,
                 leaseHeld |-> lease # NoLease /\ live,
                 payouts |-> alloc, signatures |-> paidSig, total |-> total]
<1>1. Controlled(r) /\ Funding(r) /\ Paying(r)
  BY DEF EInv, Handler
<1>2. status = "SNAPSHOTTED" /\ lease = r /\ live
  BY <1>1 DEF Controlled, LeasedPCs
<1>3. lease # NoLease
  BY <1>2, ConstantsAssumption DEF NoLease
<1>4. job[r].todo = Unpaid /\ job[r].rows = alloc
  BY <1>1 DEF Funding, Paying
<1>5. DOMAIN alloc = Wallet
  BY AllocNat
<1>6. Unsigned(d) = Unpaid
  BY <1>5 DEF Unsigned, Unpaid, NoSig
<1>7. d.status = status /\ d.payouts = alloc /\ d.leaseHeld = (lease # NoLease /\ live)
  OBVIOUS
<1>8. Detail = distributionDetail(d, 0)
  BY DEF Detail
<1> HIDE DEF d
<1>9. Detail.executionInProgress = (d.status # "EXECUTED" /\ d.leaseHeld)
  BY <1>8 DEF distributionDetail
<1>10. \A needed \in Detail.balance : needed.required = SumFunctionOnSet(alloc, Unpaid)
  BY <1>6, <1>7, <1>8 DEF distributionDetail, Shown
<1> QED
  BY <1>2, <1>3, <1>4, <1>7, <1>9, <1>10

LEMMA CoverInvClaims ==
  ASSUME EInv, CoverInv
  PROVE  ClaimsCovered
<1>1. PutIn = Moved("escrow")
  BY DEF PutIn, Moved, EscrowTerms
<1>2. Landing = InFlightClaims
  BY DEF Landing, InFlightClaims, SaverTerms, Savers
<1>3. Claimed = SumFunction([i \in DOMAIN ledger |->
                   IF ledger[i].kind = "claim" /\ i \notin orphans THEN TotalOf(ledger[i].pays) ELSE 0])
  BY DEF Claimed, ClaimTerms
<1>4. PutIn \in Nat /\ Claimed \in Nat /\ Unclaimed \in Nat /\ Landing \in Nat
  BY EInvParts, BooksTyped, RowsTyped, SaversTyped
<1>5. ASSUME NEW page \in Detail.claims
      PROVE  /\ page.claimed + page.unclaimed = total
             /\ PutIn >= page.unclaimed - Landing + Claimed
  <2>1. fundSig # NoSig /\ page.unclaimed = Unclaimed /\ page.claimed + page.unclaimed = total
    BY PageAddsUp
  <2>2. PutIn + Landing >= Unclaimed + Claimed
    BY <2>1 DEF CoverInv
  <2> QED
    BY <1>4, <2>1, <2>2
<1> QED
  BY <1>1, <1>2, <1>3, <1>5, PageAsks DEF ClaimsCovered

(* The escrow never owes more for this distribution than its issuer put    *)
(* in, counting what has landed and is being recorded; the claimed and the *)
(* unclaimed sums of the page add up to the total; and while a request     *)
(* sends, the page asks the issuer for that very sum.  For every number of *)
(* claims, requests and claim faults, transfers of unknown outcome         *)
(* included, until a request of the issuer is killed or meets a database   *)
(* error.                                                                  *)
THEOREM EscrowCovers ==
  ASSUME MaxDurationEnforced
  PROVE  ClaimSpec => [](NoIssuerFaults => ClaimsCovered)
<1> DEFINE Until   == CInv /\ FaultsLeft /\ (NoIssuerFaults => EInv)
           Covered == NoIssuerFaults => CoverInv
<1>1. EInv /\ CoverInv => ClaimsCovered
  BY CoverInvClaims
<1>2. ClaimInit => Covered
  BY CoverInit
<1>3. Until /\ Until' /\ Covered /\ [ClaimNext]_allVars => Covered'
  BY CoverStep, FaultsLast
<1>4. ClaimSpec => []Until
  BY EUntilFault
<1>5. Until /\ Covered => (NoIssuerFaults => ClaimsCovered)
  BY <1>1
<1> QED
  BY <1>2, <1>3, <1>4, <1>5, PTL DEF ClaimSpec
=============================================================================
