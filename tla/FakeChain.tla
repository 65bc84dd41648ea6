----------------------------- MODULE FakeChain -----------------------------
(***************************************************************************)
(* The fake chain behind the same ports as the real one                    *)
(* (apps/web/lib/chain/fake.ts, CHAIN_MODE=fake), from the terms a market  *)
(* is launched with to the snapshot pipeline over its balances:            *)
(* getBalances, classifyHolders, allocate, buildClaimTree.  Each port call *)
(* loads, changes and saves the state at once.  Accounts are numbered, as  *)
(* addresses are ordered.                                                  *)
(***************************************************************************)
EXTENDS ClaimTree, YieldHistory, LaunchTerms

CONSTANTS
    Wallet,               \* investor wallets, numbers
    Accepted,             \* those that accepted the agreement
    Payee,                \* those that USDC is sent to (bound)
    Pool,                 \* markets that can be created (bound)
    Unit,                 \* base units of one token
    LargestAccounts,      \* accounts a node lists without an index (20)
    Elsewhere,            \* owners with a base unit in a second account (bound)
    Unlisted,             \* owners that may have no entry, once anyone may hold (bound)
    Bodies,               \* preview requests (bound)
    Trades, Sums,         \* token and USDC amounts that calls move
    IssuerFunds,          \* initial USDC of the issuer
    MaxSlot               \* bound on the calls that save

ASSUME FakeAssumption ==
    /\ Wallet \subseteq Nat \ {0} /\ IsFiniteSet(Wallet)
    /\ Accepted \subseteq Wallet /\ Payee \subseteq Wallet
    /\ Elsewhere \subseteq Wallet /\ Unlisted \subseteq Wallet
    /\ Unit \in Nat \ {0} /\ LargestAccounts \in Nat /\ MaxSlot \in Nat
    /\ Trades \subseteq Nat /\ Sums \subseteq Nat /\ IssuerFunds \in Nat

(* A body whose numbers are not whole numbers is answered invalid_terms.   *)
ASSUME BodiesAssumption ==
    \A b \in Bodies :
        \A f \in {"tokenSupply", "poolPercentageBps", "expectedAnnualDcf",
                  "targetInitialYieldBps", "graduationMultiple"} : b[f] \in Int \cup {Absent}

VARIABLES
    pools,                \* pools[p] : input, sold, quoteReserve
    allow, balances,      \* per market
    issuerUsdc, usdc,     \* USDC
    built,                \* wallet transactions prepared
    slot, funded          \* saves so far; USDC put in by setIssuerUsdc (history)

fakeVars == <<pools, allow, balances, issuerUsdc, usdc, built, slot, funded>>

ESCROW == 0               \* an entry of usdc like the wallets
AUTHORITY == 0            \* the pool authority, an owner of tokens

Owners == Wallet \cup {AUTHORITY}
Accounts == Payee \cup {ESCROW}

(* What an issuance can be launched with. *)
Launchable == {i \in {parsePreviewInput(b) : b \in Bodies} : ValidInput(i)}

NoPool == [input |-> Absent, sold |-> 0, reserve |-> 0]
WalletTxs == [kind : {"create_pool"}, pool : Pool, input : Launchable]
             \cup [kind : {"transfer"}, to : Accounts, amount : Sums]

FakeTypeOK ==
    /\ pools \in [Pool -> [input : Launchable \cup {Absent}, sold : Int, reserve : Int]]
    /\ allow \in [Pool -> SUBSET Owners]
    /\ balances \in [Pool -> [Owners -> Int]]
    /\ issuerUsdc \in Nat /\ usdc \in [Accounts -> Nat]
    /\ built \subseteq WalletTxs
    /\ slot \in 0..MaxSlot /\ funded \in Int

FakeInit ==
    /\ pools = [p \in Pool |-> NoPool]
    /\ allow = [p \in Pool |-> {}] /\ balances = [p \in Pool |-> [o \in Owners |-> 0]]
    /\ issuerUsdc = IssuerFunds /\ usdc = [a \in Accounts |-> 0]
    /\ built = {} /\ slot = 0 /\ funded = IssuerFunds

save == slot < MaxSlot /\ slot' = slot + 1

created(p) == pools[p].input # Absent
Supply(p) == pools[p].input.terms.tokenSupply * Unit

poolInput(p) ==
    LET input == pools[p].input
        pricing == deriveLaunchPricing(input.terms, input.graduationMultiple)
    IN [tokenSupply |-> input.terms.tokenSupply,
        startingMarketCap |-> pricing.startingMarketCap,
        graduationMarketCap |-> pricing.graduationMarketCap]

priceOf(p) ==
    LET perToken(cap) == ((cap * Unit) \div (Supply(p) \div Unit)) \div Unit
        start == perToken(poolInput(p).startingMarketCap)
        end   == perToken(poolInput(p).graduationMarketCap)
    IN start + ((end - start) * pools[p].sold) \div Supply(p)

-----------------------------------------------------------------------------
(* market, registry                                                        *)

OpenPool(p, input) ==
    /\ pools' = [pools EXCEPT ![p] = [NoPool EXCEPT !.input = input]]
    /\ allow' = [allow EXCEPT ![p] = {AUTHORITY}]
    /\ balances' = [balances EXCEPT ![p] =
           [o \in Owners |-> IF o = AUTHORITY THEN input.terms.tokenSupply * Unit ELSE 0]]

(* Addresses are fresh. *)
Fresh(p) == ~created(p) /\ \A t \in built : t.kind = "create_pool" => t.pool # p

createIssuancePool(p, input) ==
    /\ Fresh(p)
    /\ OpenPool(p, input) /\ save
    /\ UNCHANGED <<issuerUsdc, usdc, built, funded>>

allowWallet(p, w) ==
    /\ created(p)
    /\ allow' = [allow EXCEPT ![p] = @ \cup {w}]
    /\ save
    /\ UNCHANGED <<pools, balances, issuerUsdc, usdc, built, funded>>

(* Mutant: a sale is not taken off `sold'. *)
BackToCurve_Forgotten(p, tokens) == 0

MayBuy(p, w) == created(p) /\ w \in allow[p]
BackToCurve(p, tokens) == -tokens

(* control.swap: the curve is not asked whether it still has the tokens. *)
swap(p, w, tokens) ==
    LET cost == (tokens * priceOf(p)) \div Unit IN
    /\ \/ /\ MayBuy(p, w)
          /\ balances' = [balances EXCEPT ![p][w] = @ + tokens, ![p][AUTHORITY] = @ - tokens]
          /\ pools' = [pools EXCEPT ![p].sold = @ + tokens, ![p].reserve = @ + cost]
       \/ /\ created(p) /\ balances[p][w] >= tokens
          /\ balances' = [balances EXCEPT ![p][w] = @ - tokens, ![p][AUTHORITY] = @ + tokens]
          /\ pools' = [pools EXCEPT ![p].sold = @ + BackToCurve(p, tokens), ![p].reserve = @ - cost]
    /\ save
    /\ UNCHANGED <<allow, issuerUsdc, usdc, built, funded>>

ceilDiv(a, b) == (a + b - 1) \div b

quoteIn(side, p, amountIn) ==
    LET net == amountIn - amountIn \div 100
    IN IF side = "BUY" THEN (net * Unit) \div priceOf(p) ELSE (net * priceOf(p)) \div Unit

(* Mutant: the net amount is rounded down as well. *)
quoteOut_Floor(side, p, amountOut) ==
    LET net == IF side = "BUY" THEN (amountOut * priceOf(p)) \div Unit
               ELSE (amountOut * Unit) \div priceOf(p)
    IN ceilDiv(net * 100, 99)

quoteOut(side, p, amountOut) ==
    LET net == IF side = "BUY" THEN ceilDiv(amountOut * priceOf(p), Unit)
               ELSE ceilDiv(amountOut * Unit, priceOf(p))
    IN ceilDiv(net * 100, 99)

(* What the pages show of a market and of a quote.                         *)

state(p) ==
    LET threshold == poolInput(p).graduationMarketCap \div 3 IN
    [price |-> priceOf(p), threshold |-> threshold,
     progressBps |-> IF threshold = 0 THEN 0 ELSE (pools[p].reserve * BPS) \div threshold,
     accrued |-> pools[p].reserve \div 200]

getMarketView(p) ==
    LET s == state(p) IN
    [price |-> s.price, tokenMarketCap |-> s.price * pools[p].input.terms.tokenSupply,
     progressBps |-> IF s.progressBps < 0 THEN 0 ELSE IF s.progressBps > BPS THEN BPS ELSE s.progressBps,
     atGraduation |-> projectEconomics(pools[p].input.monetization, s.threshold)]

(* A request names what it pays or what it gets; Absent: refused. *)
parseSwapAmount(src) ==
    LET mode == IF src.mode # Absent THEN src.mode
                ELSE IF src.amountIn = Absent /\ src.amountOut # Absent THEN "EXACT_OUT" ELSE "EXACT_IN"
        amount == IF mode = "EXACT_OUT" THEN src.amountOut ELSE src.amountIn
    IN IF (src.amountIn # Absent /\ src.amountOut # Absent) \/ amount = Absent
       THEN Absent ELSE [mode |-> mode, amount |-> amount]

(* Anything else is answered with an error: the amount is not positive, or *)
(* the price it is divided by is 0.                                        *)
Quotable(p, side, amount, mode) ==
    /\ amount > 0
    /\ <<side, mode>> \in {<<"BUY", "EXACT_IN">>, <<"SELL", "EXACT_OUT">>} => priceOf(p) # 0

(* Of a SELL the fees are tokens, as what is paid is.                      *)
quoteView(p, side, amount, mode) ==
    LET amountIn == IF mode = "EXACT_OUT" THEN quoteOut(side, p, amount) ELSE amount
        amountOut == IF mode = "EXACT_OUT" THEN amount ELSE quoteIn(side, p, amount)
        poolFee == amountIn \div 100
        tradingFee == poolFee - poolFee \div 5
        fsFee == (tradingFee * pools[p].input.monetization.partnerPct) \div 100
    IN [pay |-> amountIn, receive |-> amountOut, price |-> priceOf(p),
        poolFee |-> poolFee, protocolFee |-> poolFee \div 5,
        startupShare |-> tradingFee - fsFee, founderStackFee |-> fsFee]

-----------------------------------------------------------------------------
(* payout, escrow, wallet                                                  *)

setIssuerUsdc(amount) ==
    /\ issuerUsdc' = amount /\ funded' = funded + amount - issuerUsdc
    /\ save
    /\ UNCHANGED <<pools, allow, balances, usdc, built>>

IssuerPays(to, amount) ==
    /\ issuerUsdc >= amount
    /\ issuerUsdc' = issuerUsdc - amount
    /\ usdc' = [usdc EXCEPT ![to] = @ + amount]

transferBatch(to, amount) ==
    /\ IssuerPays(to, amount) /\ save
    /\ UNCHANGED <<pools, allow, balances, built, funded>>

Releasable(amount) == usdc[ESCROW] >= amount

release(w, amount) ==
    /\ Releasable(amount)
    /\ usdc' = [usdc EXCEPT ![ESCROW] = @ - amount, ![w] = @ + amount]
    /\ save
    /\ UNCHANGED <<pools, allow, balances, issuerUsdc, built, funded>>

(* A prepared transaction describes its effect; nothing is saved.          *)
build(t) ==
    /\ t.kind = "create_pool" => Fresh(t.pool)
    /\ t \notin built /\ built' = built \cup {t}
    /\ UNCHANGED <<pools, allow, balances, issuerUsdc, usdc, slot, funded>>

(* Applied as often as it is submitted. *)
submitSigned(t) ==
    /\ t \in built
    /\ IF t.kind = "create_pool"
       THEN OpenPool(t.pool, t.input) /\ UNCHANGED <<issuerUsdc, usdc>>
       ELSE IssuerPays(t.to, t.amount) /\ UNCHANGED <<pools, allow, balances>>
    /\ save
    /\ UNCHANGED <<built, funded>>

(* The bound is reached. *)
FakeRest == slot = MaxSlot /\ UNCHANGED fakeVars

FakeNext ==
    \/ \E p \in Pool, w \in Wallet :
          \/ \E i \in Launchable : createIssuancePool(p, i)
          \/ allowWallet(p, w)
          \/ \E n \in Trades : swap(p, w, n)
    \/ \E w \in Payee, a \in Accounts, n \in Sums :
          setIssuerUsdc(n) \/ transferBatch(a, n) \/ release(w, n)
    \/ \E t \in WalletTxs : build(t) \/ submitSigned(t)
    \/ FakeRest

FakeSpec == FakeInit /\ [][FakeNext]_fakeVars

-----------------------------------------------------------------------------
(* A snapshot of a market.                                                 *)

getBalances(p) ==
    {[owner |-> o, account |-> o, amount |-> balances[p][o]] : o \in {v \in Owners : balances[p][v] > 0}}

Snapshot(p) == mergeHolders(getBalances(p))

(* The devnet adapter's listings of such balances, tried in turn: every    *)
(* token account; the associated ones of the wallets with an entry, and    *)
(* the pool's vault unless looking it up fails; any of the largest ones.   *)
TokenAccounts(p) ==
    LET holders == {a.owner : a \in getBalances(p)}
        apart(o) == IF o \in Elsewhere THEN 1 ELSE 0
    IN {[owner |-> o, account |-> IF o = AUTHORITY THEN "vault" ELSE "associated",
         amount |-> balances[p][o] - apart(o)] : o \in holders}
       \cup {[owner |-> o, account |-> "other", amount |-> 1] : o \in holders \cap Elsewhere}

holdersByAllowlist(accounts, entries, failing) ==
    {a \in accounts : \/ a.account = "associated" /\ a.owner \in entries
                      \/ a.account = "vault" /\ "vault" \notin failing}

holdersByLargestAccounts(accounts) ==
    {s \in SUBSET accounts :
        /\ Cardinality(s) <= LargestAccounts
        /\ s = accounts \/ Cardinality(s) = LargestAccounts
        /\ \A a \in s, b \in accounts \ s : a.amount >= b.amount}

Lookups == {"getProgramAccounts", "allowlist", "vault"}

(* The balances it may come to, when these lookups fail.                   *)
listHolders(p, entries, failing) ==
    LET accounts == TokenAccounts(p)
        listings == IF "getProgramAccounts" \notin failing THEN {accounts}
                    ELSE IF "allowlist" \notin failing
                    THEN {holdersByAllowlist(accounts, entries, failing)}
                    ELSE holdersByLargestAccounts(accounts)
    IN {mergeHolders({a \in s : a.amount > 0}) : s \in listings}

KindsOf(p, tokens) == classifyHolders(DOMAIN tokens, {AUTHORITY}, Accepted, allow[p])

(* The holders page. *)
getHoldersView(p) ==
    LET tokens == Snapshot(p)  kinds == KindsOf(p, tokens) IN
    [o \in DOMAIN tokens |->
        [kind |-> kinds[o], tokens |-> tokens[o], flagged |-> kinds[o] = "UNREGISTERED"]]

(* Rights pools to distribute. *)
RightsPools(p) ==
    {computeRightsPool(dcf, pools[p].input.terms.poolPercentageBps) : dcf \in {0, 10, 70, 130}}

-----------------------------------------------------------------------------
(* Properties.                                                             *)

(* No call makes or loses money, whichever port moved it and however often *)
(* a prepared transaction is submitted: what the issuer, the escrow and    *)
(* the wallets have is what was put in; the tokens of a market are its     *)
(* supply, and `sold', from which the price is computed, has left the      *)
(* curve.                                                                  *)
Conserved ==
    /\ issuerUsdc + SumFunction(usdc) = funded
    /\ \A p \in Pool : created(p) =>
          /\ SumFunction(balances[p]) = Supply(p)
          /\ pools[p].sold = Supply(p) - balances[p][AUTHORITY]

(* devnet/holders: whichever lookups fail, and the vault's fails silently, *)
(* what is listed is held, so that nobody's payout grows by what the       *)
(* listing misses, and a snapshot that can be allocated still can be.      *)
(* With the index the listing is complete; through the allowlist only the  *)
(* pool, and those who keep units elsewhere or have no entry, are listed   *)
(* with less than they have.                                               *)
ListingNeverOverpays ==
    \A p \in {q \in Pool : created(q)}, late \in {{}, Unlisted} :
        LET entries == allow[p] \ late
            full == Snapshot(p)
            result(tokens, pool) ==
                allocate(tokens, classifyHolders(DOMAIN tokens, {AUTHORITY}, Accepted, entries),
                         Supply(p), pool)
        IN
        /\ \A failing \in SUBSET Lookups : \A listed \in listHolders(p, entries, failing) :
              /\ "getProgramAccounts" \notin failing => listed = full
              /\ "allowlist" \notin failing =>
                    \A o \in (DOMAIN full \cap entries) \ (Elsewhere \cup {AUTHORITY}) :
                        o \in DOMAIN listed /\ listed[o] = full[o]
        /\ \A listed \in UNION {listHolders(p, entries, failing) : failing \in SUBSET Lookups} :
              /\ DOMAIN listed \subseteq DOMAIN full
              /\ Allocatable(full, Supply(p)) =>
                    /\ Allocatable(listed, Supply(p))
                    /\ \A pool \in RightsPools(p) :
                          LET r == result(listed, pool)  all == result(full, pool) IN
                          /\ \A o \in DOMAIN r.payouts : r.payouts[o] <= all.payouts[o]
                          /\ r.unallocated >= all.unallocated

(* Percentages of a valid fee configuration. *)
Percents == {0, 1, 2, 32, 33, 48, 49, 50, 66, 80, 99}

FeeConfigs ==
    {c \in [issuerPct : Percents, platformPct : Percents, liquidityPct : Percents,
             creatorPct : {50, 80}, partnerPct : {20, 50}] : validateMonetizationConfig(c)}

(* monetization.ts: the split is "exact", which is to say that what each    *)
(* party is shown is its configured percentage of the threshold, up to the *)
(* rounding of two divisions.                                              *)
GraduationSplit ==
    /\ \A c \in FeeConfigs : LET f == toDbcFeeParams(c) IN
           f.feePercentage * f.creatorFeePercentage = 100 * c.issuerPct
    /\ \A c \in FeeConfigs, threshold \in {0, 7, 100, 1385} :
           LET e == projectEconomics(c, threshold) IN
           /\ threshold * c.issuerPct - 100 * e.issuer \in 0..199
           /\ threshold * c.platformPct - 100 * e.platform \in -99..99
           /\ threshold * c.liquidityPct - 100 * e.liquidity \in -99..0

(* core/distribution: whatever was traded, every rights pool is split      *)
(* without remainder into payouts, pool, unregistered, unsold and dust,    *)
(* none of them negative, and dust is less than a unit per share rounded;  *)
(* core/monetization: the graduation proceeds and the trading fee of a     *)
(* quote are split by the percentages the preview names; those flagged on *)
(* the holders page are the ones who get nothing, the page of the snapshot *)
(* warns of them, and the shares it lists as retained are those it adds    *)
(* up, rounded each.                                                       *)
SplitsExactly ==
    /\ GraduationSplit
    /\ \A p \in {q \in Pool : created(q)} :
        LET tokens == Snapshot(p)
            kinds == KindsOf(p, tokens)
            flagged == {o \in DOMAIN tokens : getHoldersView(p)[o].flagged}
        IN Allocatable(tokens, Supply(p)) => \A pool \in RightsPools(p) :
            LET r == allocate(tokens, kinds, Supply(p), pool)
                page == snapshotDetail(encodeSnapshot(tokens, kinds, r), r.unallocated)
                shares == MapThenSumSet(LAMBDA e : e.retainedShare, page.excluded)
            IN
            /\ r.unallocated >= 0 /\ r.pool >= 0 /\ r.unregistered >= 0 /\ r.unsold >= 0
            /\ \A o \in DOMAIN r.payouts :
                  perTokenBaseUnits(pool, Supply(p), Unit) * tokens[o] <= r.payouts[o] * Unit + Unit - 1
            /\ r.dust \in 0..(Cardinality(DOMAIN r.payouts) + 2)
            /\ r.totalAllocated + r.pool + r.unregistered + r.unsold + r.dust = pool
            /\ DOMAIN tokens \ (DOMAIN r.payouts \cup {AUTHORITY}) = flagged
            /\ page.warned <=> flagged # {}
            /\ shares \in (r.pool + r.unregistered - Cardinality(page.excluded))
                             ..(r.pool + r.unregistered)

(* core/distribution, escrow: each holder of a payable row has a proof     *)
(* that reaches the root, it proves his payout and no other, and the       *)
(* batches pay every payable row once.                                     *)
ClaimsProvable ==
    \A p \in {q \in Pool : created(q)} :
        LET tokens == Snapshot(p)  kinds == KindsOf(p, tokens) IN
        Allocatable(tokens, Supply(p)) => \A pool \in RightsPools(p) :
            LET payouts == allocate(tokens, kinds, Supply(p), pool).payouts
                table == claimTable(payouts)
                tree == buildClaimTree(table)
                paid == FlattenSeq(batchTransfers(Payable(payouts), 2))
            IN /\ \A holder \in DOMAIN table, w \in Wallet, amount \in 0..3 :
                     verifyClaimProof(w, amount, tree.proofs[holder], tree.root)
                        <=> w = holder /\ amount = table[holder]
               /\ ToSet(paid) = DOMAIN table
               /\ Len(paid) = Cardinality(DOMAIN table)

(* An exact-output quote names an input that buys at least that output,    *)
(* and the fees of a BUY are shares of that input.  Only in a market that  *)
(* its preview showed to open at no price is there no quote, or one that   *)
(* costs nothing.  A market opens at the price of the preview its founder  *)
(* confirmed and reaches the one named for graduation with its last token; *)
(* yields are of what was paid (YieldsAgree).                              *)
QuotesAgree ==
    /\ YieldsAgree
    /\ \A p \in {q \in Pool : created(q)} :
        LET preview == buildPreview(pools[p].input) IN
        /\ pools[p].sold = 0 => priceOf(p) = preview.pricing.startingPricePerToken
        /\ pools[p].sold = Supply(p) => priceOf(p) = preview.graduationPricePerToken
        /\ pools[p].sold \in 0..Supply(p) =>
              getMarketView(p).tokenMarketCap \in
                 (preview.pricing.startingMarketCap - pools[p].input.terms.tokenSupply)
                    ..preview.pricing.graduationMarketCap
        /\ \A side \in {"BUY", "SELL"}, n \in 1..(2 * Unit) :
              LET out == parseSwapAmount([amountIn |-> Absent, amountOut |-> n, mode |-> Absent])
                  q == quoteView(p, side, out.amount, out.mode)
                  in == parseSwapAmount([amountIn |-> q.pay, amountOut |-> Absent, mode |-> Absent])
              IN
              IF Quotable(p, side, out.amount, out.mode) /\ q.pay > 0
              THEN /\ Quotable(p, side, in.amount, in.mode)
                   /\ quoteView(p, side, in.amount, in.mode).receive >= n
                   /\ side = "BUY" =>
                         /\ q.protocolFee + q.startupShare + q.founderStackFee = q.poolFee
                         /\ 100 * q.poolFee <= q.pay
              ELSE preview.pricing.startingPricePerToken = 0

=============================================================================
