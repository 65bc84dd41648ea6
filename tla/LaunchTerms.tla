---------------------------- MODULE LaunchTerms ----------------------------
(***************************************************************************)
(* What a founder's request body becomes before anything exists on chain:  *)
(* the terms and their checks (packages/core/src/rights/terms.ts), the     *)
(* fee configuration (packages/core/src/monetization) and the preview he   *)
(* confirms (apps/web/lib/server/issuance.ts).  Money is in USDC base      *)
(* units; shares and yields are basis points; the graduation multiple      *)
(* counts hundred-thousandths, finer than the precision it is used at.     *)
(***************************************************************************)
EXTENDS Integers

CONSTANTS
    Absent,                        \* a field the body leaves out; no percentage
    DEFAULT_TOKEN_SUPPLY,          \* whole tokens
    DEFAULT_GRADUATION_MULTIPLE    \* a whole number

ASSUME TermsAssumption ==
    /\ Absent \notin Int
    /\ DEFAULT_TOKEN_SUPPLY \in Nat /\ DEFAULT_GRADUATION_MULTIPLE \in Nat

BPS == 10000
TimesOne == 100000                 \* the multiple 1

Given(value, default) == IF value = Absent THEN default ELSE value

-----------------------------------------------------------------------------
(* Terms.                                                                  *)

(* `texts': the names, the symbol and the clauses are there and well       *)
(* formed.                                                                 *)
makeCashFlowTerms(body) ==
    [texts |-> body.texts,
     tokenSupply |-> Given(body.tokenSupply, DEFAULT_TOKEN_SUPPLY),
     poolPercentageBps |-> body.poolPercentageBps,
     distributionFrequency |-> Given(body.distributionFrequency, "QUARTERLY"),
     expectedAnnualDcf |-> body.expectedAnnualDcf,
     targetInitialYieldBps |-> body.targetInitialYieldBps]

validateCashFlowTerms(terms) ==
    /\ terms.texts
    /\ terms.tokenSupply > 0
    /\ terms.poolPercentageBps \in 1..BPS
    /\ terms.distributionFrequency \in {"QUARTERLY", "MONTHLY"}
    /\ terms.expectedAnnualDcf # Absent /\ terms.expectedAnnualDcf > 0
    /\ terms.targetInitialYieldBps \in 1..BPS

deriveLaunchPricing(terms, multiple) ==
    LET rightsPool == (terms.expectedAnnualDcf * terms.poolPercentageBps) \div BPS
        start == (rightsPool * BPS) \div terms.targetInitialYieldBps
        multipleBps == (multiple + 5) \div 10
    IN [expectedAnnualRightsPool |-> rightsPool,
        startingMarketCap |-> start,
        graduationMarketCap |-> (start * multipleBps) \div BPS,
        startingPricePerToken |-> start \div terms.tokenSupply]

-----------------------------------------------------------------------------
(* Fees.                                                                   *)

MAX_MIGRATION_FEE_PERCENTAGE == 99

DEMO_PROTOCOL_CONFIG ==
    [issuerPct |-> 48, platformPct |-> 2, liquidityPct |-> 50, creatorPct |-> 50, partnerPct |-> 50]
SOFTWARE_CONFIG == [DEMO_PROTOCOL_CONFIG EXCEPT !.creatorPct = 80, !.partnerPct = 20]

exactCreatorFeePercentage(issuerPct, feePercentage) ==
    IF (issuerPct * 100) % feePercentage = 0 THEN (issuerPct * 100) \div feePercentage ELSE Absent

validateMonetizationConfig(cfg) ==
    LET fee == cfg.issuerPct + cfg.platformPct IN
    /\ \A f \in {"issuerPct", "platformPct", "liquidityPct", "creatorPct", "partnerPct"} : cfg[f] >= 0
    /\ fee + cfg.liquidityPct = 100
    /\ fee <= MAX_MIGRATION_FEE_PERCENTAGE
    /\ fee > 0 => exactCreatorFeePercentage(cfg.issuerPct, fee) # Absent
    /\ cfg.creatorPct + cfg.partnerPct = 100

toDbcFeeParams(cfg) ==
    LET fee == cfg.issuerPct + cfg.platformPct IN
    [feePercentage |-> fee,
     creatorFeePercentage |-> IF fee > 0 THEN exactCreatorFeePercentage(cfg.issuerPct, fee) ELSE 0,
     creatorTradingFeePercentage |-> cfg.creatorPct]

projectEconomics(cfg, threshold) ==
    LET params == toDbcFeeParams(cfg)
        fee == (threshold * params.feePercentage) \div 100
        issuer == (fee * params.creatorFeePercentage) \div 100
    IN [issuer |-> issuer, platform |-> fee - issuer, liquidity |-> threshold - fee]

-----------------------------------------------------------------------------
(* Preview.                                                                *)

ValidMultiple(multiple) == multiple > TimesOne /\ multiple <= 100 * TimesOne

parsePreviewInput(body) ==
    [terms |-> makeCashFlowTerms(body),
     graduationMultiple |-> Given(body.graduationMultiple, DEFAULT_GRADUATION_MULTIPLE * TimesOne),
     monetization |-> DEMO_PROTOCOL_CONFIG]

(* Anything else is answered invalid_terms. *)
ValidInput(input) ==
    /\ ValidMultiple(input.graduationMultiple)
    /\ validateCashFlowTerms(input.terms)
    /\ validateMonetizationConfig(input.monetization)

(* The prices a founder confirms.                                          *)
buildPreview(input) ==
    LET pricing == deriveLaunchPricing(input.terms, input.graduationMultiple)
    IN [pricing |-> pricing,
        graduationPricePerToken |-> pricing.graduationMarketCap \div input.terms.tokenSupply]

=============================================================================
