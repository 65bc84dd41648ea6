# Founder Stack: TLA+ models and proofs

Founder Stack lets a company sell a token that carries a right to a share of
its distributable cash flow. The founder's agent calls a web API
(`apps/web`), the API keeps its state in a database (Prisma) and moves tokens
and USDC on Solana, and an on-chain transfer hook (`programs/fs_allowlist`)
decides who may hold the token. These modules describe the parts of that
system where an order of events nobody tested can cost money: the payout of a
distribution, the creation of a market, who may hold its token, who may call the
API, and what an investor is shown and signs.

All paths below are relative to the repository; `server/` is
`apps/web/lib/server/`.

## 1. Inventory

| Component | State | Operations | Talks to |
|---|---|---|---|
| Distribution lifecycle, `server/distribution.ts` | `Distribution` row (status, total, payout mode, escrow columns, lease `executingUntil`), its `Allocation` rows (`payout`, `txSignature`) | report, snapshot, execute (escrow or direct; custody or wallet signing) | database, payout port, holders, calendar |
| Escrow claims, `server/escrow.ts` | `Allocation.txSignature`, `claimingUntil`; the escrow's USDC account | proof, claim | database, escrow port |
| Wallet signing, `server/signing.ts`, `sign-flows.ts` | `SignRequest` row (status, signer, payload, signatures) | open, build, submit | distribution, issuance, wallet port |
| Reporting periods, `distribution.ts:82`, `core/calendar` | one `Distribution` per period, `Issuance.nextRecordDate` | reportPeriod, the end of markExecuted | database |
| Issuance creation, `server/issuance.ts`, `issuance-record.ts` | `IssuancePreview` (usedAt), `Issuance` (market columns) | preview, start, complete, wallet variant | market port |
| Onboarding, `server/market.ts`, `kyc.ts` | `Participant` rows, KYC roots on chain | register, start and poll a proof | registry port, Rarimo |
| Allowlist program, `programs/fs_allowlist` | Config, AllowEntry, KycConfig (roots, blocked), policy, attestation, nullifier accounts | initialize, add/remove allow, set admin, KYC instructions, `execute` hook | Token-2022 |
| Wallet login, `server/wallet-auth.ts`, `lib/auth.ts` | `AuthChallenge` (usedAt), `ApiKey` (revokedAt) | challenge, verify, revoke, list | database |
| Transaction submission, `lib/chain/devnet/env.ts`, `usdc.ts` | one signed transaction in flight | sendTx, sendSignedTx, pollUntilFinal, transferBatch | RPC |
| Holder classification and allocation, `core/distribution` | none (pure) | allocate, batchTransfers, claim tree, yield | |
| Launch terms, pricing, fees, `core/rights`, `core/monetization` | none (pure) | parse, derive | |
| Fake chain, `lib/chain/fake.ts` | the whole chain in memory: markets, allowlists, balances, USDC | every port of the real chain | all of the above |
| Investor page, `components/investor` | the connected wallet, the quote and the status the widgets hold, jobs in flight | quote, swap, accept, prove a passport | the API |
| Views, `server/distribution-views.ts`, `issuance.ts` | none of their own | what is shown of a row | database |
| HTTP routes, MCP server, issuer pages, scripts | none of their own | formatting, forwarding | |

What makes the behaviour hard:

* **Concurrency.** The API runs as serverless functions: any number of
  requests run the same handler on the same row, and a handler yields at every
  database and chain call. Mutual exclusion is a timestamp written by a
  conditional update (`executingUntil`, `claimingUntil`), never a lock held in
  memory.
* **Failure.** A request can be killed anywhere (`maxDuration`, a deploy), a
  database call can throw, a transfer can fail, or land while its sender sees
  an error (`OUTCOME UNKNOWN`, `env.ts:233`). The database and the chain
  cannot be written together: there is always a moment when the money has left
  and no row says so.
* **Retries.** The founder (or the agent) is told to repeat a failed execute,
  a holder to repeat a failed claim.
* **Time.** Lease and lock (120 s) must outlive the request that wrote them
  (60 s) and must not outlive it for ever.

The properties that make a component correct, by component:

* *Distribution*: one payer at a time; what is paid is what the founder
  confirmed; a recorded payment is never repeated, lost or replaced; a record
  is never wrong; EXECUTED means paid; a killed request delays, it does not
  block.
* *Claims*: one claim per row at a time; a holder receives his payout once; the
  funding of a distribution covers its claims; everyone is paid in the end.
* *Wallet signing*: the same with transactions signed ahead of time, and a
  request completed at most once.
* *Reporting periods*: one open period per issuance, the record date never
  moves back.
* *Issuance*: one preview makes one issuance with one market.
* *Onboarding and allowlist*: the hook admits exactly the wallets the admin or
  a valid attestation admits; one wallet per Rarimo identity.
* *Login*: a challenge makes one key, a wallet has at most ten.
* *Submission*: a payout transaction is never signed twice while the first may
  land.
* *Allocation, claim tree*: shares add up to at most the pool; every leaf and
  nothing else proves.
* *Fake chain*: whatever is called, money is neither made nor lost, so that what
  runs against it means something for the real one.
* *Investor page*: a swap does what the page showed, and no widget acts for a
  wallet on what it learned about another.

`PROJECT.json` lists every hazard at its line, with the properties that cover
it, or the reason why none does.

## 2. Plan

The plan of the first version is carried out; in the order in which the modules
were written:

1. `Distribution`, `PayoutPromise`, `EscrowClaims`, `DistributionProofs`: the
   payout of a distribution and its claims.
2. `SignRequests`, and over it `WalletPayout` (with `Distribution`) and
   `IssuanceCreation`: everything that goes through a sign link.
3. `ReportingPeriods`: the life of an issuance's periods.
4. `PassportDates`, `Allowlist`, `Onboarding`: who may hold the token.
5. `WalletLogin`: who may call the API.
6. `SendTx`: what the answers of a submission mean.
7. `Allocation`, `ClaimTree`, `LaunchTerms`, `DistributionViews`, `YieldHistory`:
   the pure code, run over the states of `FakeChain`.
8. `InvestorClient`, `OnboardingGate`, `TradePanel`: the investor's page.
9. Proof modules: `SumLemmas` (the laws of sums that several of them need),
   `DistributionProofs`, `EscrowClaimsProofs`, `WalletPayoutProofs`,
   `IssuanceCreationProofs`, `OnboardingProofs`, `ChainProofs` (for `SendTx`, and
   for `FakeChain` with the pure modules under it) and `AppProofs` (for
   `WalletLogin`, `ReportingPeriods` and `TradePanel`).

```
                 Distribution --+-- EscrowClaims --(implements)-- PayoutPromise
                                |
 SignRequests --+-- WalletPayout
                +-- IssuanceCreation
 PassportDates -- Allowlist -- Onboarding
 Allocation --+-- DistributionViews -- YieldHistory --+
              +-- ClaimTree ------------------------+-- FakeChain
 LaunchTerms --------------------------------------+
 InvestorClient -- OnboardingGate -- TradePanel
 ReportingPeriods      WalletLogin      SendTx
```

Worth adding: the issuer's creation form next to the investor's page.

## 3. What is modelled and how

### Distribution

One distribution row from DRAFT to EXECUTED under any number of API requests.
The correspondence with `server/distribution.ts`:

| Variable | In the code |
|---|---|
| `status`, `total` | `status`, `totalAllocated` |
| `alloc[w]`, `paidSig[w]` | `payout` and `txSignature` of the allocation row of `w`; payout 0 stands for no payable row |
| `gen` | how often the rows were replaced; stands for the identity of the rows (`id in (...)`) |
| `payoutMode`, `fundSig`, `root` | `payoutMode`, `escrowFundSignature`, `merkleRoot` |
| `lease`, `live` | `executingUntil`: which request wrote the instant, and whether it is still ahead |
| `ledger` | transfers that landed on chain, in order; a signature is a position in it |
| `orphans` | history: landed transfers no row will ever name, because the sender died or saw an error |
| `pc[r]`, `job[r]` | where a running handler awaits, and its locals (loaded rows, typed total, batch, signature) |
| `faults` | faults still allowed (bounds) |

| Action | In the code |
|---|---|
| `StartSnapshot`, `CommitSnapshot`, `RefuseSnapshot` | `snapshotDistribution`: load and first check; the transaction; its refusal |
| `StartExecute`, `Claim`, `ClaimRefused`, `Release` | `executeDistribution`: load, typed total and mode; the conditional update; the `finally` |
| `FundLoad`, `FundSave` | `fundEscrowClaimed` around its transfer |
| `PayLoad`, `PaySave`, `Renew` | `payClaimed` around each batch |
| `TransferLands`, `TransferFails`, `TransferUnknown` | the outcomes of `transferBatch`: landed, certainly not applied (`TxError`), `OUTCOME UNKNOWN` but landed |
| `Mark` | `markExecuted`, by id and without the lease |
| `Crash`, `DatabaseError` | request killed without its `finally`; a call under the lease throws, `finally` runs |
| `Expire` | `executingUntil` passes |

An action is one atomic piece of a handler: from one await on shared state to
the next. Reads whose result nothing else can change between two awaits are
merged with the following step. Left out: parsing, messages, views, the record
date (`ReportingPeriods`), the balance amount (a shortfall is a choice at `FundLoad` and
`PayLoad`), the arithmetic of allocation (a table is any member of `Tables`).

`MaxDurationEnforced` is the assumption written at `distribution.ts:47-48`: the
platform ends a request (60 s, `vercel.json`) before the lease it wrote (120 s)
runs out. With TRUE, `Expire` waits until the owner has stopped. The lease is
renewed after every batch, but no request outlives 60 s, so the assumption
covers renewals too. The deployment notes mention a plan with up to 300 s; there
it fails, and so do the properties that rest on it.

### EscrowClaims

Extends `Distribution` with claim requests. `lock[w]`, `lockLive[w]` are
`claimingUntil` (writer, still ahead), `cpc`, `claim` the handlers of
`claimDistribution`. `StartClaim` is the load (`loadFunded`, the row, the early
returns), `LockRow`/`RefuseLock` the conditional update, `CheckBalance`,
`ClaimLands`/`ClaimFails`/`ClaimUnknown`, `SaveClaim` (update by row id: throws if
a snapshot deleted the row), `Unlock` the `finally`, `ClaimCrash` and
`ClaimDatabaseError` the faults. A commit of a snapshot replaces the rows and
with them the locks (`ReplaceRows`). A Merkle root is identified with the table
it is built from: two tables have the same root only if they are equal.

The escrow wallet is shared by all distributions; `OtherFunds` is what the
others have in it. The chain refuses to overdraw the wallet.

### PayoutPromise

The abstract specification: a table may be replaced only before any money moved,
each holder is covered once and for exactly the amount in the table, and the
distribution closes only when all are covered. It is implemented twice:

* `KeepsPromise`: `covered` is the USDC that left the issuer on a holder's
  behalf (into escrow or directly), `closed` is EXECUTED.
* `HoldersPaidOnce`: `covered` is the USDC that reached the holder (directly or
  by claim), `closed` is EXECUTED with nothing unpaid.

The first is checked without faults in the issuer's requests; the second holds
until a claim meets a fault. With faults the code does not keep the promise
(section 6), and the weaker `RecordedPaymentNotRepeated` and `ReceivedOnce` say
what does hold.

### SignRequests

The row behind a sign link, `sreq[s]`: status, whether its day has passed
(`live`), what it is for (`subject`), the confirmed summary (`meta`), the first
wallet that built (`signer`), the prepared transactions (`payload`) and the
recorded signatures (`sigs`). Its operators are the single database calls of
`server/signing.ts` (`OpenRequests`, `CreateRequest`, `Resummarise`, `MayBuild`,
`SavePayload`, `MaySubmit`, `WriteSignatures`, `CompleteRequest`, `LoadExpired`);
`WalletPayout` and `IssuanceCreation` make actions of them, so the gaps between
two calls are where the code has them. `SignPage` is what the sign page shows for
a view of the row. `LoadExpired` is the update, by id, of a request whose load found
the row pending and its day passed; what was written in between is overwritten.

### WalletPayout

`Distribution` and `SignRequests` together: next to the snapshot and custody
handlers of `Distribution`, handlers `h \in Submitter` open a link
(`AskLink`, `WriteLink`), build (`StartBuild`, `SaveBuild`) and submit
(`StartSubmit` ... `CompleteSubmit`, `ReleaseSigned`), at the control points
`spc[h]` and with the locals `sjob[h]`. `landed` says which transactions of which
build are on chain: a signed transaction lands at most once, however many submits
send it. `SignedClaimable`, `SaveSigned`, `RenewSigned`, `CheckPaid` and
`MarkSigned` are the steps of `applyDistributionSigned`; the claim compares the
total only, the rows are matched by id (`gen`), the renewals' count is ignored.
`Unrecorded`, `SignedCrash` and `SignedDatabaseError` are its faults. Merged: the
loads of a build, and read and write of `onSignature`, which the lease separates
from others'.

### ReportingPeriods

The rows of one issuance's periods and `Issuance.nextRecordDate` (`next`).
`StartReport`, `CheckDuplicate`, `CheckOpen`, `CreateRow` are the four calls of
`reportPeriod`; `StartPaying` stands for `executeDistribution` up to its load,
`MarkPaid` for the transaction in `markExecuted`, which computes the new record
date from the issuance it loaded then. DRAFT and SNAPSHOTTED are both "open"; a
date is its month. The issuance starts with a record date, or as one from before
labels were canonical, with one row that has none. `raced` and `overlapped` are
histories: two reports ran at once; a row was created while another was open.

### IssuanceCreation

From `IssuancePreview` to `Issuance`: `preview[p]` (`usedAt`, `issuanceId`),
`rows[i]`, the mint keypairs `mints[m]` ("key", "bare" with a pool, "ready" with
its allowlist), handlers `req[h]`. `StartCreate`, `ClaimPreview`, `InsertPending`
and `LinkPreview` are `startIssuanceCreation`; `CreateMarket`, `AttachCustody`,
`DeletePending` and `ReleasePreview` the custody path and its rollback;
`OpenLink` ... `CompleteSubmit` the wallet path (build for one wallet, send, record
the signature, finalise the allowlist, memo, attach, complete). Every database
call may throw (`Fails`), `Kill` ends a request anywhere, and `lost` remembers
the previews a kill or a failed rollback left used. Two errors are not followed by
a rollback at all: `getChain`, called before the `try` (`NoChain`), and
`openSignRequest` (`OpenLink`); `stranded` remembers their previews. `SendMemo` also records its
signature. `publicIssuanceView` is what the site shows.

### PassportDates, Allowlist, Onboarding

`PassportDates` is the calendar of passport proofs: `encoded_date` (the two-digit
YYMMDD number), `age_cutoff`, `birth_bound_ok` of `kyc.rs`, the API's
`ageUpperBoundYymmdd`, and what the proof circuit accepts. A day is a number of
days since 1970.

A passport may belong to several Rarimo identities (`PassportOf`), each with its own
nullifier: the program takes the identity-counter and timestamp bounds of a proof
unchecked (`lib.rs:239-243`), so the model's proofs have none. A nullifier is the
identity it is of.

`Allowlist` has one action per instruction of `programs/fs_allowlist`
(`Initialize` ... `RevokeKycAllow`; `Execute` is the hook's verdict) over the
accounts it writes. An instruction that fails changes nothing and is left out.

`Onboarding` adds the API: `registerParticipant` by invite or passport
(`StartRegister` ... `RecordAllow`), the passport flow (`RequestKycProof`,
`ProvePassport`, `PollAttested`, `PollVerified`, `SignKycTx`), the watcher of
Rarimo's roots, the administrator, and anybody relaying a proof (`Public`). A
killed register request is its return. `PollVerified` merges the load with
`ensureRoot`, which sends a transaction only when the program lacks the root.
Assumed: a passport's owner was born more than the skew before today and less
than a hundred years ago (two-digit years say no more); nobody takes the vault
off the list; the prover's clock is the cluster's.

### WalletLogin

`challenges[n]`, `apiKeys`, `login[q]`: the calls of `verifyChallenge`
(`StartVerify`, `Consume`, `CountKeys`, `CreateKey`) and of revocation. One client
is the `/connect` page (`page`: `Press`, `Challenged`, `SignIn`, the answers, which
may be lost); the others sign what they asked for, and any request may be
delivered again.

### SendTx

One call of `sendTx` after another against a cluster: `tx[a]` is the state of the
a-th signed transaction (signed, pending, in a block that may be abandoned, final)
and whether its blockhash has expired. `Sign`, `Send`, `SeeStatus`, `SeeNothing`,
`LastLook`, `GiveUp` are `sendTx` and `pollUntilFinal`; `guessed` says that some
answer rested on a look that was not final: a node that was behind or unreachable
at the last look, or a block that was abandoned afterwards. `Distribution` and
`EscrowClaims` use only the answers (`TransferLands`, `TransferFails`,
`TransferUnknown`).

### FakeChain and the pure modules

`FakeChain` has one action per port call of `lib/chain/fake.ts` that changes the
state (load and save around a synchronous change are one step). Its reachable
balances are the inputs on which the pure code is compared with what it is for:

* `LaunchTerms`: parsing, validation, pricing and the fee split of the terms a
  market is launched with (of the preview, its prices; the graduation threshold it
  estimates and the floating-point curve parameters of `devnet/dbc.ts` are left out);
* `Allocation`: `classifyHolders`, `allocate`, the breakdown, `batchTransfers`;
* `ClaimTree`: rounds, root, proofs and their verification, a hash being the term
  it is computed from. A round halves the level and gives each wallet under a
  joined node its sibling's hash; a node carries the set of the wallets under it, as
  in the code;
* `DistributionViews`, `YieldHistory`: what the API shows of a row and of an
  issuance's history.

`Unit` stands for the power of ten of a token's decimals; a share is in basis
points as in the code. `listHolders` is the devnet adapter's listing: over
`getProgramAccounts`, through the allowlist and the pool's vault, or of the largest
accounts, with any of those lookups failing, the vault's silently
(`holders.ts:71-79`). `Elsewhere` are the owners with a unit in an account that is not
their associated one, `Unlisted` those whose entry may be missing; what is listed may
therefore lack holders (`holders.ts:53-54`), and several listings are possible.
`Quotable` is the guard of a quote (`market.ts:420`) and its division by the price.

What the code sorts or filters is written here so that it can be reasoned about:
the community modules' sorting operators and `SelectSeq` are computed by TLC but
have no definition the provers can open. A sorted list is the one whose members
come in the order (`InOrder`), the executed periods are the set of their
positions, verification is a left fold, and the rounds are a recursive function.
The specification's operators are `FakeInit`, `FakeNext` and `FakeSpec`, those of
`WalletLogin` use `databaseVars`, so that one proof module can extend several.

### InvestorClient, OnboardingGate, TradePanel

One browser tab of an investor. `InvestorClient` is the hook `useWalletStatus`:
requests in flight (`fetches`), and answers that are the value at the request or
at the arrival, since rows are never taken back; a failing read of the passport state
answers that no passport is wanted (`market.ts:361`). `OnboardingGate` is the
acceptance (`Accept`, `SignMessage`, `ServerRegisters`, `RegisterAnswered`) and the
passport job (`ZkStart`, `ZkPoll`, `ZkConfirm`): asynchronous functions that keep
the wallet they began with and go on when their component has left the page.
`TradePanel` is the form, the debounced quote and `submit()`, over a pool reduced
to a price level. `Render` mounts or unmounts the gate after every change its
display depends on. An abort that strikes while a quote's body is read leaves `{}` for
the quote (`client.ts:25`); rendering it throws, no error boundary is there, and the
page is gone (`EditBreaks`, `DoneBreaks`, `PageDown`) while its jobs run on
(`EndsUnseen`). Left out: balances, invite codes, layout; `kycDone` is a
Boolean, as in the code.

## 4. Runs

| Run | Bounds | What it shows |
|---|---|---|
| `dist_faults` | 2 requests, 3 holders, 3 tables, 2 snapshots, batch of 1; one kill, one database error, one unknown outcome. 2.4 million states | the safety of `Distribution` |
| `escrow_faults` | 2 requests, 2 claims, 3 holders, 2 snapshots; one claim fault, none in the issuer's requests. 513,000 states | one claim per row, received once, claims covered; both refinements of `PayoutPromise` |
| `escrow_liveness` | 1 request, 2 claims, 2 holders, one kill, one claim fault. 28,000 states | a distribution is executed and every holder paid |
| `wallet_payout` | 1 custody request, 2 submits, 1 link, 1 build, 2 holders, 2 snapshots; one fault of either kind. 1.7 million states | one payer, honest records, nothing closed unpaid, although payloads go stale |
| `issuance` | 1 preview, 2 requests, 2 issuances, 3 mints, 1 link; one kill and one database error. 2.9 million states | one market per preview; what is LIVE can be traded and stays |
| `onboarding` | 1 mint, the vault and 2 investors, 1 passport with 2 identities, 2 roots of which 1 is kept, 2 days around 2028-02-29, 1 registration at a time. 2.2 million states | who the hook admits, and why |
| `login` | 2 wallets, 2 calls, 3 challenges, limit 1. 860,000 states | one key per challenge; the limit and by how much it is missed |
| `periods` | 2 requests, both frequencies, 6 months, 3 rows. 2.2 million states | open periods and the announced record date |
| `sendtx` | 3 transactions, 3 attempts | no double send, honest answers, every call ends |
| `fake_chain` | 4 wallets, 1 market, 7 saves, several request bodies. 200,000 states | money is conserved; incomplete listings, splits, proofs, quotes |
| `investor_page` | 2 wallets, 1 switch, 2 edits, 1 price move, 1 swap. 4.2 million states | done as shown; nothing enabled for an unlisted wallet |
| `dist_refunding` | as `dist_faults` with one database error | the finding |

Why the bounds are enough for what they show.

* Two requests are the least that race. Requests repeat without bound (a request
  that returned starts again), so more of them add schedules of the same kind.
* Two of the three tables share a total, so that a re-snapshot can keep the total
  while moving payouts; the third is smaller; a holder appears in only some of
  them. A batch of one with two or three holders makes every payout several
  batches, so that kills and lost leases fall between them; the real batch of ten
  changes the number of interruptions, not their kind. A table replaced by
  another needs two snapshots.
* One fault is enough to leave each step half done; `wallet_payout` allows one
  fault, of any kind, per behaviour (`OneFault`), because two submits multiply
  them. Its custody request meets no fault there: `dist_faults` is about those.
* In `issuance` three mints give a second create, or a second build of a link, a
  mint of its own after a failed first one.
* In `onboarding` one kept root makes the next one push it out; 29 February is
  where the program, the API and the circuit could disagree on an age; both the
  vault and a stranger are wallets. Registrations follow one another: each works on
  its own wallet's row and entry, and what interferes with one (passport jobs, the
  administrator, relayed proofs) runs beside it.
* In `login` a limit of one makes two calls enough to pass it; three challenges
  let the page, another page and an expired one coexist.
* In `periods` six months hold two quarters and the months of both, and three rows
  a paid period, an open one and a racing one.
* In `sendtx` three signed transactions are the three attempts of a call, or of
  several.
* In `fake_chain` seven saves reach a bought and sold market, a replayed
  `create_pool`, and a funded and released escrow; supplies and sums are small so
  that rounding has a remainder. One wallet keeps a unit elsewhere, another may lack
  its entry.

Symmetry is over requests, claims or wallets that no property names, and only in
runs without liveness. Deadlock is checked in every run but `investor_page`, where
the page may rest in any state when its bounds are used up; the others stutter
explicitly where the system rests (`Done`, `ClaimDone`, `Rest`, ...).

Each property has a mutant of the code it is about (an operator defined next to
the one it replaces, marked `Mutant`): a dropped condition of a claim, a record
written on all rows, a lease without expiry, a quote request that is not aborted,
and so on. Each violates its property, so none of them holds by the shape of the
model.

## 5. Fairness

`Fairness` and `ClaimFairness` are used by `escrow_liveness` only.

* A running handler takes its next step (weak fairness on each step): the
  runtime resumes a promise whose call has answered.
* `executingUntil` and `claimingUntil` pass (weak fairness on `Expire`,
  `ExpireLock`): clocks run.
* The founder repeats `execute` (strong fairness on `StartExecute`), as the
  error messages tell him to; so does every holder who is owed money, on his
  own row.
* Sooner or later a transfer succeeds, and the issuer's balance suffices (strong
  fairness on `TransferLands`, on the loads that do not end in
  `insufficient_balance`, on `ClaimLands`). The RPC cannot be down for ever and
  the issuer tops up the wallet, which is what the 409 asks for.

Without the last the code cannot finish, whatever it does. `Settles` is checked
with one issuer request: strong fairness per request makes more of them cost
much and say little, since the others only compete for the lease that expires.
`EveryHolderPaid` needs `OtherFunds` to be as large as what a killed claim can
take twice (2): the retry after an unrecorded release is paid with money other
distributions put into the same wallet. With `OtherFunds = 0` the last holder is
left waiting; that is the code's behaviour, not a modelling artefact.

`FairSpec` of `SendTx` asks that the handler goes on (signing or failing to sign,
sending or being refused, giving up, the last look) and that the four minutes of
`pollUntilFinal` pass. It asks nothing of the cluster: `CallEnds` holds on a chain
that never answers.

## 6. Findings

* `dist_refunding`. EXECUTED in escrow mode does not mean that the escrow is
  worth the table. The snapshot check ignores a recorded funding, so after
  "fund, fail before EXECUTED" the table can be replaced by a larger one; the
  next execute takes the old funding for the new table. (The root no longer
  matches either until `markExecuted` rewrites it.) Header of
  `distribution.ts:7-8`.

Where the models otherwise differ from what a comment or a document leads one to
expect, the properties state what the code does:

* A retry after a timeout may pay again, because a transfer and its record are two
  calls ("a retry pays only what is unpaid", `docs/deploy.md:37-38`,
  `distribution.ts:346`). `RecordedPaymentNotRepeated` is about recorded payments.
* A request that loaded the row before another funded the escrow pays the holders
  directly afterwards (`schema.prisma:101-102`: the mode is fixed once funded;
  `distribution.ts:257`). It takes an issuer's request that fails in between,
  which is why `escrow_faults` has none.
* A table snapshotted again after a funding whose request failed before EXECUTED,
  while a claim is in flight and before its save, lets that holder claim once more.
  The runs on claims have no failing issuer request, so they do not reach it.
* `attachMarket` (`issuance-record.ts:239`, "on a PENDING issuance") writes by id:
  two submits of different builds replace the market of a LIVE issuance, and its
  shown acceptance may be that of the earlier mint (`issuance.ts:478-479`). Two
  builds that race also both pass the check that the first wallet to build is the
  only signer.
* `completeIssuanceCreation` says "On failure the row is removed and the preview
  released" (`issuance.ts:328`); a failing `getChain()` is outside its `try`, and in
  wallet mode a failing `openSignRequest` is not followed by any rollback.
  `UsedForSomething` excuses exactly these, next to kills and failed rollbacks.
* "One passport, one wallet" is not what the program enforces, and `docs/zk-kyc.md:77-78`
  says so: `OneIdentityOneWallet` is about identities.
* The devnet holder listing may be incomplete without a word (`holders.ts:53-54, 71-79`):
  `ListingNeverOverpays` says what an incomplete one cannot do, not that there is none.
* A quote's `poolFee` is documented and displayed as USDC (`ports.ts:76`,
  `market.ts:414`); on the fake chain a SELL's is a share of the input, in tokens
  (`fake.ts:229`). `QuotesAgree` therefore says nothing of the fees of a SELL.
* An error at the last look of `sendTx` counts as "unknown signature"
  (`env.ts:252-261`) and may sign a payment again; hence `guessed`.
* The create form says that any edit invalidates the preview
  (`new-issuance-form.tsx:45-50`); a preview that arrives after the edit does not
  know of it. Not modelled.

Smaller behaviours seen while modelling: a failing `LinkPreview` leaves a PENDING
row for good; a lost answer of
`/connect` leaves a key nobody has seen; a revoked participant who registers again
by invite keeps the `allowlistTx` he had (`market.ts:278-289`); a late status
answer of the previous wallet leaves the widgets at "Checking…" until the next
market change (`client.ts:77-86`); a swap that is not confirmed within 60 seconds
may be repeated and then happen twice; terms that pass validation may price a
token at 0 base units, and quotes then divide by zero; in the fake chain a replayed
`create_pool` starts the market over and the reserve may go below zero.

## 7. Proofs

Every invariant and every action property that a passing run checks is a theorem
here, and so are both refinements. All theorems hold for every value of the
constants (sets of requests, wallets, passports, bounds), from the named
assumption on the constants of each module.

| Module | Theorems | Further assumption |
|---|---|---|
| `DistributionProofs` | `LeaseHolderPays`, `ConfirmedTotal`, `RecordsAreHonest`, `DirectExecutedPaid`, `NoRecordedPaymentTwice`, `RecordedStays` | `MaxDurationEnforced`, except the last |
| `EscrowClaimsProofs` | `OneClaim` | `MaxDurationEnforced` |
| | `PaidOnceForAll`, `EscrowCovers` | the same; until a request of the issuer is killed or meets a database error |
| | `PromiseKept`, `HoldersPaid` | the same; no such fault, and no transfer of the issuer with an unknown outcome |
| `WalletPayoutProofs` | `PayersTakeTurns`, `RecordsHonestAlways`, `ExecutedIsPaid`, `CompletedOnlyExecuted` | `MaxDurationEnforced`, for the first and the third |
| `IssuanceCreationProofs` | `OneMarket`, `Tradable`, `NothingWasted`, `DoneIsLive`, `LiveForGood` | |
| `OnboardingProofs` | `OneIdentity`, `ForCause`, `Listed` | |
| | `OfAgeAndWelcome` | the clock, plus the skew of a proof's date, stays before 2100 |
| `ChainProofs` | `AppliesAtMostOnce`, `AnswersHonest` | |
| | `NothingLost`, `ListingSafe`, `SplitWithoutRemainder`, `ClaimsProve`, `QuotesCover` | a request body's numbers are whole or absent |
| | `EveryPoolSplits`, `EveryPoolProvable`, `EveryTradeQuoted` | the same |
| | `YieldsOfAnyHistory`, `YieldsHold` | periods are paid at whole days, from pools that are naturals |
| `AppProofs` | `OneKey`, `KeysLimited` | finitely many calls |
| | `OnePerPeriod`, `OneOpen`, `AnnouncesUnpaid` | |
| | `AsShown`, `OnlyOwnStatus` | rates are naturals |

`SumLemmas` holds lemmas only. The assumptions on `FakeChain`'s constants are those
of the code: finitely many wallets, numbered; amounts, limits and the token's unit
are naturals, the unit not zero (`FakeAssumption`). A body with a number that is
not whole is answered `invalid_terms`, so the bodies of the model have whole numbers
or none (`BodiesAssumption`), and the mark for "none" is not a number
(`TermsAssumption`).

Each specification has proofs of `Init => IInv`, `IInv /\ [Next]_vars => IInv'` and
`IInv => Inv` for a strengthening `IInv` of what the run checks, action by action,
and per action over the conjuncts it can disturb.

**DistributionProofs.** `RecordsStand` follows from what each step does to the
rows, with no invariant. The others rest on `IInv`,
which says what the lease protects:

* `Controlled`: a handler has a lease exactly when its control point is past the
  claim, and then the lease on the row is its own and live, so two such handlers
  are the same one; while it runs, the row is SNAPSHOTTED and its total is the
  typed one (no snapshot commits under a live lease);
* `Funding`: a funding in flight is the first one and becomes the recorded one;
* `Paying`: the rows and their generation are those the handler loaded, and what
  it still has to pay is exactly what is unpaid;
* `LedgerInv`: a landed transfer that is not an orphan is either recorded (on the
  rows it pays, or as the funding) or in the hands of the one handler about to
  record it;
* `RecordedMeansPaid` and `DirectExecutedMeansPaid` themselves, and the types.

`Controlled` makes the claim the only way to gain a lease and `Expire` harmless
to a running owner; this is where `MaxDurationEnforced` enters, and it enters
nowhere else. It gives `OnlyLeaseHolderPays` and `ConfirmedTotalStands`; with
`Paying` it gives `DirectExecutedMeansPaid`; `LedgerInv` gives
`RecordedPaymentNotRepeated`.

**EscrowClaimsProofs.** Four layers over the invariant of `DistributionProofs`.

* `CInv`, under any faults: a claim past its lock still holds it, live, or its row
  belongs to an earlier generation or is signed; a generation never comes back. A
  step of the issuer matters to claims only in that it replaces rows, signs them,
  or neither. This is `OneClaim`.
* `EInv`: a recorded funding covers every unsigned row for what the table says, and
  the rows signed beside it are signed by claims; a claim that runs works on a row
  that the funding covers; every release that landed is on its row, in the hands of
  the claim about to save it, or an orphan. With it a second payment of a holder
  would be one that no row, claim or request knows of: `PaidOnceForAll`. It holds
  until a fault strikes the issuer (`NoIssuerFaults`, which once false stays so),
  and not longer: a request killed between the recorded funding and EXECUTED leaves
  a distribution that a later request may pay directly while claims of it run (the
  hazard at `distribution.ts:258`). Claims may fail in every way throughout.
* `GivenUp`: nothing that landed is lost but what a struck claim had just sent. The
  holders for whom money left the issuer are those of the landed transfers that are
  not claims (`Touched`), each exactly once and for his row of the table
  (`LeftOnce`), so a landing transfer is a `Cover` of the promise and closing finds
  everybody covered: `PromiseKept`. The same for what reached the holders
  (`Reached`) gives `HoldersPaid`. A transfer of unknown outcome is excluded
  because the retry that the code asks for repeats it.
* `CoverInv` adds up the books: what was put in, and what is being recorded, is at
  least what is unclaimed and what was claimed. Each step changes one term of one
  sum: `EscrowCovers`.

The sums are the library's folds over a set. Their laws (a sum without one member,
of equal terms, of parts, of naturals) are the module `SumLemmas`. They
cannot be had from the induction theorems of the library, which take an operator;
they are proved from the existence of a smallest subset for which a law fails
(`MinimalSubset`). `FiniteHolders` (there are finitely many wallets) is what makes
the sums well defined.

**AppProofs**, `ReportingPeriods`. The calendar first (a period contains its months, the
next one begins after its record date). Then: a row that is paid lies before the
announced date; a payer writes over the date it loaded, and unless two rows were
open at once it is the only one, so that nothing was written in between.

**IssuanceCreationProofs.** A used preview is held by at most one handler; once an
issuance is linked to it nobody holds it, and only a linked, living issuance gets
a market; a sign link's handlers work on the issuance of the link. With that, two
markets of one preview would be two linked issuances of it. For `Tradable`: a mint
that reached "ready" stays so, and a handler carries to the attach only a mint it
saw become ready.

`NothingWasted`, `DoneIsLive` and `LiveForGood` need a second invariant, `JInv`,
over the first: an issuance that a link names, or a handler past its creation, is
alive; a completed link's issuance has its market; a used preview that was neither
lost nor stranded is held by a handler or serves a living issuance that has a market or a link. A
deletion happens only in the hands of the handler that created the issuance, before
any market was attached to it, which is `LiveForGood`.

**AppProofs**, `WalletLogin`. Past `Consume` a call alone holds its challenge, so of the
calls and keys of one challenge there is at most one. For the limit: active keys
plus the calls about to create one stay below the limit plus the number of calls;
the counting call is not yet about to create.

**ChainProofs**, `SendTx`. Unless `guessed`, all the transactions signed but the last are
harmless: never forwarded, failed for good, or pending past their last block.

**OnboardingProofs.** The nullifier of an identity is written with its attestation
and names its wallet; a handler past the upsert has its row accepted, and one about
to record has its entry on chain; the causes of an admission (the vault, an
accepted row, a proof for a mint that opted in) are permanent; a row naming a
transaction keeps an account on chain.

`OfAgeAndWelcome` is about every day and every birth, where the run has a few. Each
proof under way, in a request, in an unsigned transaction or submitted by anybody,
was accepted by the circuit on the date it carries (`Dated`), and the program
accepts it near that date, with the policy of the moment. What remains is
arithmetic: the year, month and day that `civil_from_unix` computes grow with the
day (`DatesGrow`, comparing era, year, month and day in this order), so a birth
before the day of the proof has a smaller date; hence the century guessed for it,
19 unless the digits precede those of the proof, is its own or a later one
(`CenturyHolds`), and who appears to precede the bound does. The cutoff of a day,
February 29 included, is at most that many years before the day
(`CutoffMeansAge`). The assumption `BeforeYear2100` is needed: from then on the
digits of a day are those of a century before, and a birth in 2090 would pass for
one in 1990.

**WalletPayoutProofs.** A payload is what its build made it: its number is its own,
its rows are the distribution's as long as the generation is the same, and what
landed under its number is what it says (`PayloadInv`). So a submit that has a
signature has that of its own transaction, and a row it may sign, matched by
generation, is the row it paid: `SignedRecordsHonest`, with no assumption on leases.
The facts that need the lease are a separate half (`LeasedCustody`, `LeasedSigner`),
which holds under `MaxDurationEnforced`: whoever pays has the live lease, so no
snapshot commits, a custody handler's list holds every unpaid row, and between a
submit's last look and its mark nothing becomes unpaid. The renewal that ignores its
count is harmless there because the lease cannot have been lost.

**AppProofs**, `TradePanel`. A row is never taken back, so what an answer said of a wallet
stays true of that wallet however late it arrives; a status counts only for the
wallet it is about, and a switch drops the rest (`LearnedInv`). The quotes on the
page and under way are for the amount and the side in the form (`FormInv`), so the
one a swap carries is for what was submitted (`SwapInv`), and the pool refuses less
than 99% of it: with the rounding, `DoneAsShown`.

**ChainProofs**, `FakeChain`. What the run computes on the markets of a small chain
is proved of every market the port calls can make.

* The inductive invariant is `LedgersInv`: types, the money adds up (`MoneyAdds`),
  and per market (`TokensAdd`) the balances add up to the supply, what was sold
  left the curve, and only wallets with an entry, and the pool, have tokens. Nothing
  bounds what a trade takes out of the pool, so its balance may go below zero (the
  code writes whatever is left); that of a wallet may not. `LedgersInv` gives
  `NothingLost`.
* `ListingSafe`: whatever set of a market's token accounts is listed, merging it gives
  no owner more than he has (`AccountsAdd`, `ListingBelow`), floors are monotone, and
  what is paid is a sum over fewer or smaller shares (`SumBelow`, `PaidNoMore`); an
  owner with an entry and one associated account is in the listing through the
  allowlist with all he has (`Associated`).
* A snapshot has finitely many owners with positive balances (`SnapshotParts`), and
  that is all the rest needs to know of the chain.
* `SplitWithoutRemainder`: each floored share is less than one unit below its exact
  value, and the three kinds of owners are parts of the supply, so the rounding
  left over is at most one unit per share and never negative (`DustBounds`, by the
  sum of products being the product of the sum). The fee split of a graduation is
  arithmetic of two nested divisions (`ProceedsSplit`).
* `ClaimsProve`: a level of nodes in which every wallet is under exactly one node,
  and folding his proof over his leaf gives that node's hash (`TreeLevel`). A round
  keeps this and halves the level, the odd node included (`TreeRound`), and after
  as many rounds as there are leaves one node is left (`RoundsEnd`). As a hash is
  the term it is computed from, the leaf under a proof can be read off its fold:
  another wallet or another amount gives another root (`FoldSame`). The batches are
  the consecutive pieces of a list, and joined again are the list
  (`BatchesAreRows`), which is the payable rows in their order (`EachDueOnce`).
* `QuotesCover`: where there is no quote, or a free one, the price is 0, and so is the
  preview's starting price, below which it never falls (`PricesGrow`); else the price lies between those of the preview for as long as what is
  sold is within the supply (`PriceBetween`); an exact-output quote rounds its input
  up at each step that the exact-input quote rounds down (`BuysBack`).
* `YieldsOfAnyHistory`: the executed periods are a set of positions, so a payment
  adds one term to one sum (`OneMorePayment`), and the latest one is latest because
  nothing in the past is later.

The checked properties quantify over a few rights pools, amounts and trades, because
TLC enumerates them. `EveryPoolSplits`, `EveryPoolProvable` and `EveryTradeQuoted`
say the same of every rights pool, every wallet and amount, and a trade of any size.

Model-checked only: liveness (`Settles`, `EveryHolderPaid`, `CallEnds`), which needs
fairness and ENABLED.

## 8. Not modelled

* Third-party programs and services: Meteora's bonding curve, Token-2022,
  Rarimo's service, the RPC. What they answer is a choice of the calling handler;
  the proof circuit and the hash are oracles.
* Route handlers and the MCP server: they parse, authorise and forward.
* Issuer pages and the sign page's widgets beyond what `SignPage` shows; layout,
  wording, links, ordering of lists.
* The agreement's text and the memo's contents.
* The curve parameters `devnet/dbc.ts` derives in floating point, and the graduation
  threshold the preview estimates.
* A challenge and the deletion of the expired ones before it are one step.
* Operator scripts, the demo, plugins, the cluster switch (configuration read at
  start).
* The chunked holder listing when its chunks are read at different slots: the
  three listings are of one state. A holder's other accounts are one, of one unit.
* A payment that landed with no trace in the database: no property of the code can
  hold of it (the hazard at `escrow.ts:141` in `PROJECT.json` says so).
* A plan whose `maxDuration` exceeds the lease: everything here that assumes
  `MaxDurationEnforced` is void there.
