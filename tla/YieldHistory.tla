---------------------------- MODULE YieldHistory ----------------------------
(***************************************************************************)
(* The public history of an issuance and its yield: yieldMetrics           *)
(* (packages/core/src/distribution), distributionHistory and its callers   *)
(* (apps/web/lib/server).  Dates are days.  A distribution is a row of     *)
(* DistributionViews with `rightsPool' and `executedAt'; the history is a  *)
(* sequence, in the order the periods were reported.                       *)
(***************************************************************************)
EXTENDS Allocation, DistributionViews

NoYield == -1             \* null: the price is zero or could not be read

periodsPerYear(frequency) == IF frequency = "MONTHLY" THEN 12 ELSE 4

(* Mutant: a distribution executed a year ago to the day counts. *)
InTrailingYear_Inclusive(executedAt, now) == executedAt <= now /\ executedAt >= now - 365

InTrailingYear(executedAt, now) == executedAt <= now /\ executedAt > now - 365

yieldMetrics(history, price, perYear, now, unit) ==
    LET perToken == [i \in DOMAIN history |->
                        perTokenBaseUnits(history[i].rightsPool, history[i].tokenSupply, unit)]
        past == {i \in DOMAIN history : history[i].executedAt <= now}
        ttm == {i \in DOMAIN history : InTrailingYear(history[i].executedAt, now)}
        later(i, j) ==
            \/ history[i].executedAt > history[j].executedAt
            \/ history[i].executedAt = history[j].executedAt /\ i >= j
        lastPerToken ==
            IF past = {} THEN 0 ELSE perToken[CHOOSE i \in past : \A j \in past : later(i, j)]
        ttmPerToken == SumFunctionOnSet(perToken, ttm)
        toBps(amount) == IF price > 0 THEN (amount * BPS_DENOMINATOR) \div price ELSE NoYield
    IN [lastPerToken |-> lastPerToken, ttmPerToken |-> ttmPerToken,
        trailingYieldBps |-> toBps(ttmPerToken),
        annualizedRunRatePerToken |-> lastPerToken * perYear,
        annualizedYieldBps |-> toBps(lastPerToken * perYear),
        periodsCounted |-> Cardinality(ttm),
        isAnnualized |-> Cardinality(ttm) < perYear]

(* `price' is 0 when the market cannot be read; what is executed keeps its *)
(* place in the order.                                                     *)
distributionHistory(distributions, supply, price, frequency, now, unit) ==
    LET executed == {i \in DOMAIN distributions : distributions[i].status = "EXECUTED"}
        items == [i \in executed |->
                     [executedAt |-> distributions[i].executedAt,
                      rightsPool |-> distributions[i].rightsPool, tokenSupply |-> supply]]
    IN [distributions |->
            [i \in DOMAIN distributions |->
                [count |-> Cardinality(DOMAIN distributions[i].payouts),
                 paidCount |-> Cardinality(Signed(distributions[i])),
                 signatures |-> signaturesOf(distributions[i])]],
        periods |-> Cardinality(executed),
        yield |-> yieldMetrics(items, price, periodsPerYear(frequency), now, unit)]

(* A market that cannot be read shows no price. *)
listDistributions(distributions, supply, market, frequency, now, unit) ==
    distributionHistory(distributions, supply,
        IF market.readable THEN market.price ELSE 0, frequency, now, unit)

-----------------------------------------------------------------------------
(* Histories of up to five periods of an issuance of 4 tokens.             *)

Paid(pool, day, status) ==
    [status |-> status, payoutMode |-> "DIRECT", fundSig |-> 0, leaseHeld |-> FALSE,
     payouts |-> [w \in {1, 2} |-> pool \div 4], signatures |-> [w \in {1, 2} |-> IF status = "EXECUTED" THEN w ELSE 0],
     total |-> 2 * (pool \div 4), rightsPool |-> pool, executedAt |-> day]

Histories ==
    {[i \in 1..n |-> Paid(5 * i, days[i], status[i])] :
        n \in 0..2, days \in [1..2 -> {0, 100, 365, 366, 500}],
        status \in [1..2 -> {"SNAPSHOTTED", "EXECUTED"}]}

Quarters(pool, first) == [i \in 1..4 |-> Paid(pool, first + 91 * (i - 1), "EXECUTED")]

View(history, price, now) ==
    listDistributions(history, 4, [readable |-> price > 0, price |-> 7], "QUARTERLY", now, 1)

(* The yields are of what was executed in the last year, each period once, *)
(* in whatever order the periods were reported and paid: an issuer who     *)
(* paid the same in each of the last four quarters shows that year's sum   *)
(* both as trailing and as run rate, and nothing annualised; one more      *)
(* payment adds itself; a year later it is gone; what is open counts for   *)
(* nothing; and no yield is shown without a price.                         *)
YieldsAgree ==
    /\ \A pool \in {4, 9}, first \in 0..91, price \in {0, 7} :
          LET y == View(Quarters(pool, first), price, 365).yield IN
          /\ first > 0 => /\ y.ttmPerToken = 4 * (pool \div 4)
                          /\ y.ttmPerToken = y.annualizedRunRatePerToken
                          /\ y.trailingYieldBps = y.annualizedYieldBps
                          /\ ~y.isAnnualized
          /\ first = 0 => y.isAnnualized
          /\ price = 0 <=> y.trailingYieldBps = NoYield
    /\ \A h \in Histories, now \in {365, 500} :
          LET y == View(h, 7, now).yield
              more == View(Append(h, Paid(8, now, "EXECUTED")), 7, now).yield
              open == View(Append(h, Paid(8, now, "SNAPSHOTTED")), 7, now).yield
              after == View(Append(h, Paid(8, now, "EXECUTED")), 7, now + 365).yield
          IN /\ more.ttmPerToken = y.ttmPerToken + 2 /\ more.lastPerToken = 2
             /\ open = y
             /\ after.ttmPerToken = View(h, 7, now + 365).yield.ttmPerToken
             /\ View(h, 7, now).periods >= y.periodsCounted

=============================================================================
