---------------------------- MODULE ChainProofs ----------------------------
(***************************************************************************)
(* Proofs about what stands under the server on the side of the chain:     *)
(* SendTx, which submits transactions, and FakeChain, the markets, ledgers *)
(* and the arithmetic from a snapshot to payouts, claims, quotes and       *)
(* yields.  They share nothing.                                            *)
(***************************************************************************)
EXTENDS SendTx, FakeChain, SumLemmas, SequenceTheorems, WellFoundedInduction

-----------------------------------------------------------------------------
(* SendTx, for every number of transactions and attempts.                  *)
(*                                                                         *)
(* The argument: a transaction is signed only when all the others are      *)
(* harmless, that is, can no longer take effect; so at any time the last   *)
(* one is the only one that may.  A blockhash past its last block height   *)
(* and a signature the node does not know make a transaction harmless,     *)
(* unless the look was not final.                                          *)

(* Never forwarded, failed for good, or pending past its last block. *)
Harmless(a) ==
    \/ tx[a].state \in {"none", "signed", "failed"}
    \/ tx[a].state = "pending" /\ tx[a].dead

OnlyLast == \A a \in Tx : a # signed => Harmless(a)

LastHarmless == signed \in Tx => Harmless(signed)

(* Transactions are signed in order, and only the last one is in work. *)
SignedInv ==
    /\ \A a \in Tx : a > signed => tx[a].state = "none"
    /\ pc = "send" => State = "signed"
    /\ pc = "last" => tx[signed].dead

AnswerInv ==
    /\ OnlyLast
    /\ pc = "sign" => LastHarmless
    /\ pc = "idle" /\ answer \in {"none", "notLanded", "failed"} => LastHarmless
    /\ pc = "idle" /\ answer = "signature" => signed \in Tx /\ State = "confirmed"

SInv == SendTypeOK /\ SignedInv /\ (~guessed => AnswerInv)

-----------------------------------------------------------------------------
LEMMA SignedBound ==
  ASSUME SendTypeOK
  PROVE  MaxTx \in Nat /\ Attempts \in Nat \ {0} /\ signed \in 0..MaxTx
         /\ (pc \in {"send", "poll", "last"} => signed \in Tx)
BY SendAssumption DEF SendTypeOK, Tx

LEMMA SendInit == Init => SInv
<1> SUFFICES ASSUME Init
             PROVE  SInv
  OBVIOUS
<1>1. \A a \in Tx : tx[a] = [state |-> "none", dead |-> FALSE]
  BY DEF Init
<1>2. SendTypeOK
  <2>1. tx \in [Tx -> [state : States, dead : BOOLEAN]]
    BY DEF Init, States
  <2>2. 0 \in 0..MaxTx /\ 0 \in 0..(Attempts - 1)
    BY SendAssumption
  <2> QED
    BY <2>1, <2>2 DEF Init, SendTypeOK
<1>3. SignedInv
  BY <1>1 DEF Init, SignedInv
<1>4. AnswerInv
  BY <1>1 DEF Init, AnswerInv, OnlyLast, LastHarmless, Harmless
<1> QED
  BY <1>2, <1>3, <1>4 DEF SInv

(* The handler's steps that write no transaction. *)
LEMMA QuietStep ==
  ASSUME SInv, Start \/ SignFails \/ PreflightRejects \/ GiveUp \/ SeeStatus \/ LastLook \/ FourMinutesPass
  PROVE  SInv'
<1>1. UNCHANGED <<tx, signed>>
  BY DEF Start, SignFails, PreflightRejects, GiveUp, SeeStatus, LastLook, FourMinutesPass,
         Answer, Goto, Expired, callVars
<1>2. guessed => guessed'
  BY DEF SInv, SendTypeOK, Start, SignFails, PreflightRejects, GiveUp, SeeStatus, LastLook,
         FourMinutesPass, Answer, Goto, Expired, callVars
<1>3. SendTypeOK'
  <2>1. SendTypeOK /\ tx' = tx /\ signed' = signed
    BY <1>1 DEF SInv
  <2>2. tries' \in 0..(Attempts - 1)
    BY <2>1, SignedBound DEF SendTypeOK, Start, SignFails, PreflightRejects, GiveUp, SeeStatus,
       LastLook, FourMinutesPass, Answer, Goto, Expired, callVars
  <2>3. retryOnExpiry' \in BOOLEAN /\ late' \in BOOLEAN /\ guessed' \in BOOLEAN
    BY <2>1, Zenon DEF SendTypeOK, Start, SignFails, PreflightRejects, GiveUp, SeeStatus,
       LastLook, FourMinutesPass, Answer, Goto, Expired, callVars
  <2>4. /\ pc' \in {"idle", "sign"} \/ pc' = pc
        /\ answer' \in {"signature", "failed", "notLanded", "unknown"} \/ answer' = answer
    BY DEF Start, SignFails, PreflightRejects, GiveUp, SeeStatus,
       LastLook, FourMinutesPass, Answer, Goto, Expired, callVars
  <2> QED
    BY <2>1, <2>2, <2>3, <2>4 DEF SendTypeOK
<1>4. SignedInv'
  BY <1>1 DEF SInv, SignedInv, State, Start, SignFails, PreflightRejects, GiveUp, SeeStatus,
         LastLook, FourMinutesPass, Answer, Goto, Expired, callVars
<1>5. ASSUME ~guessed' PROVE AnswerInv'
  <2>1. AnswerInv
    BY <1>2, <1>5 DEF SInv
  <2>2. OnlyLast' /\ (LastHarmless => LastHarmless')
    BY <1>1, <2>1 DEF AnswerInv, OnlyLast, LastHarmless, Harmless
  <2>3. CASE Start \/ SignFails \/ GiveUp \/ FourMinutesPass
    BY <2>1, <2>2, <2>3 DEF AnswerInv, Start, SignFails, GiveUp, FourMinutesPass, Answer
  <2>4. CASE PreflightRejects
    BY <2>1, <2>2, <2>4 DEF AnswerInv, PreflightRejects, Answer, SInv, SignedInv, State, LastHarmless, Harmless
  <2>5. CASE SeeStatus
    BY <1>1, <1>5, <2>1, <2>2, <2>5, SignedBound
       DEF AnswerInv, SeeStatus, Answer, State, LastHarmless, Harmless, SInv, callVars
  <2>6. CASE LastLook
    BY <1>1, <1>5, <2>1, <2>2, <2>6, SignedBound
       DEF AnswerInv, LastLook, Answer, Expired, State, LastHarmless, Harmless, SInv, SignedInv, SendTypeOK
  <2> QED
    BY <2>3, <2>4, <2>5, <2>6
<1> QED
  BY <1>3, <1>4, <1>5 DEF SInv

(* Signing: nothing signed before can take effect any more. *)
LEMMA SignStep ==
  ASSUME SInv, Sign
  PROVE  SInv'
<1>1. signed' = signed + 1 /\ signed' \in Tx /\ tx' = [tx EXCEPT ![signed'].state = "signed"]
  BY SignedBound DEF Sign, Becomes, SInv, Tx
<1>2. \A a \in Tx : a # signed' => tx'[a] = tx[a]
  BY <1>1 DEF SInv, SendTypeOK
<1>3. tx'[signed'].state = "signed"
  BY <1>1 DEF SInv, SendTypeOK
<1>4. SendTypeOK'
  <2>1. tx' \in [Tx -> [state : States, dead : BOOLEAN]]
    <3> DEFINE a == signed'
    <3>1. tx' = [tx EXCEPT ![a].state = "signed"] /\ "signed" \in States
      BY <1>1 DEF States
    <3> HIDE DEF a
    <3> QED
      BY <3>1 DEF SInv, SendTypeOK
  <2>2. signed' \in 0..MaxTx /\ signed' > 0
    BY <1>1, SignedBound DEF SInv, Tx
  <2>3. UNCHANGED <<tries, retryOnExpiry, answer, guessed>> /\ pc' = "send" /\ late' = FALSE
    BY DEF Sign
  <2> QED
    BY <2>1, <2>2, <2>3, Zenon DEF SInv, SendTypeOK
<1>5. SignedInv'
  BY <1>1, <1>2, <1>3, SignedBound DEF SInv, SignedInv, State, Sign, Tx
<1>6. ~guessed' => AnswerInv'
  BY <1>1, <1>2, <1>3, SignedBound
     DEF SInv, AnswerInv, OnlyLast, LastHarmless, Harmless, Sign, Tx
<1> QED
  BY <1>4, <1>5, <1>6 DEF SInv

(* Sending, and looking without an answer: only the last one may be        *)
(* forwarded.                                                              *)
LEMMA ForwardStep ==
  ASSUME SInv, Send \/ SeeNothing
  PROVE  SInv'
<1>1. signed \in Tx /\ signed' = signed /\ guessed' = guessed
  BY SignedBound DEF SInv, Send, SeeNothing, Goto, callVars
<1>2. tx' = tx \/ tx' = [tx EXCEPT ![signed].state = "pending"]
  BY DEF Send, SeeNothing, Becomes
<1>3. /\ \A a \in Tx : a # signed => tx'[a] = tx[a]
      /\ tx'[signed].dead = tx[signed].dead
      /\ tx' \in [Tx -> [state : States, dead : BOOLEAN]]
  BY <1>1, <1>2 DEF SInv, SendTypeOK, States
<1>4. pc' = "poll" \/ (pc' = "last" /\ tx[signed].dead)
  BY DEF Send, SeeNothing, Goto, HeightPassed, callVars
<1>5. SendTypeOK'
  BY <1>1, <1>3, <1>4, SignedBound DEF SInv, SendTypeOK, Send, SeeNothing, Goto, callVars, Tx
<1>6. SignedInv'
  BY <1>1, <1>3, <1>4, SignedBound DEF SInv, SignedInv, State, Tx
<1>7. ~guessed' => AnswerInv'
  BY <1>1, <1>3, <1>4 DEF SInv, AnswerInv, OnlyLast, Harmless
<1> QED
  BY <1>5, <1>6, <1>7 DEF SInv

(* The cluster: what is harmless stays so, what is confirmed too.          *)
LEMMA ChainStep ==
  ASSUME SInv, NEW a \in Tx, Chain(a)
  PROVE  SInv'
<1>1. UNCHANGED <<callVars, guessed>>
  BY DEF Chain
<1>2. /\ \A b \in Tx : b # a => tx'[b] = tx[b]
      /\ tx' \in [Tx -> [state : States, dead : BOOLEAN]]
      /\ tx[a].state # "none" /\ (tx[a].dead => tx'[a].dead)
      /\ tx[a].state = "confirmed" => tx'[a].state = "confirmed"
      /\ tx[a].state = "signed" => tx'[a].state = "signed"
      /\ tx[a].state = "failed" => tx'[a].state = "failed"
      /\ tx[a].state = "pending" /\ tx[a].dead => tx'[a] = tx[a]
  <2> DEFINE T == [state : States, dead : BOOLEAN]
  <2>1. tx \in [Tx -> T] /\ tx[a].state \in States /\ tx[a].dead \in BOOLEAN
    BY DEF SInv, SendTypeOK
  <2>2. CASE tx' = [tx EXCEPT ![a].dead = TRUE]
    BY <2>1, <2>2, Zenon DEF Chain, Becomes
  <2>3. ASSUME NEW s \in States, Becomes(a, s),
               \/ tx[a].state = "pending" /\ ~tx[a].dead /\ s \in {"processed", "erring"}
               \/ tx[a].state \in {"processed", "erring"}
        PROVE  /\ \A b \in Tx : b # a => tx'[b] = tx[b]
               /\ tx' \in [Tx -> [state : States, dead : BOOLEAN]]
               /\ tx[a].state \notin {"none", "confirmed", "signed", "failed"}
               /\ tx'[a].dead = tx[a].dead
               /\ ~(tx[a].state = "pending" /\ tx[a].dead)
    BY <2>1, <2>3 DEF Becomes
  <2> QED
    BY <2>1, <2>2, <2>3 DEF Chain, Becomes, States
<1>3. SendTypeOK'
  BY <1>1, <1>2 DEF SInv, SendTypeOK, callVars
<1>4. SignedInv'
  BY <1>1, <1>2, SignedBound DEF SInv, SignedInv, State, callVars
<1>5. \A b \in Tx : Harmless(b) => Harmless(b)'
  BY <1>2 DEF Harmless
<1>6. ~guessed' => AnswerInv'
  BY <1>1, <1>2, <1>5, SignedBound DEF SInv, AnswerInv, OnlyLast, LastHarmless, State, callVars
<1> QED
  BY <1>3, <1>4, <1>6 DEF SInv

LEMMA SendStep == SInv /\ [Next]_vars => SInv'
<1> SUFFICES ASSUME SInv, [Next]_vars
             PROVE  SInv'
  OBVIOUS
<1>1. CASE UNCHANGED vars
  BY <1>1 DEF vars, callVars, SInv, SendTypeOK, SignedInv, AnswerInv, OnlyLast, LastHarmless, Harmless, State
<1>2. CASE Next
  BY <1>1, <1>2, QuietStep, SignStep, ForwardStep, ChainStep DEF Next, Poll, Rest
<1> QED
  BY <1>1, <1>2

SendSpec == Init /\ [][Next]_vars

LEMMA SendInductive == SendSpec => []SInv
BY SendInit, SendStep, PTL DEF SendSpec

(* However often a call signs again and callers repeat, at most one of the *)
(* transactions takes effect, as long as no look misled the server.        *)
THEOREM AppliesAtMostOnce == FairSpec => []AppliesOnce
<1>1. SInv => AppliesOnce
  BY DEF SInv, AnswerInv, OnlyLast, Harmless, AppliesOnce
<1> QED
  BY <1>1, SendInductive, PTL DEF SendSpec, FairSpec

(* An answer that nothing was applied is final, and a signature that is    *)
(* answered is that of a confirmed transaction.                            *)
THEOREM AnswersHonest == FairSpec => []AnswerHonest
<1>1. SInv => AnswerHonest
  BY SignedBound DEF SInv, AnswerInv, OnlyLast, LastHarmless, Harmless, AnswerHonest, SendTypeOK
<1> QED
  BY <1>1, SendInductive, PTL DEF SendSpec, FairSpec

-----------------------------------------------------------------------------
(* The fake chain, for every set of wallets, markets, request bodies and   *)
(* amounts, and every number of calls.                                     *)
(*                                                                         *)
(* The argument: LedgersInv, that the ledgers add up, is inductive.  From  *)
(* it follows, state by state, all that the snapshot pipeline computes: it *)
(* is finitely many owners with positive balances, not more than the       *)
(* supply.  Rounding is bounded share by share; the claim tree by an       *)
(* induction over its rounds (TreeLevel).                                  *)

(* MapThenSumSet is the sum of a function. *)
LEMMA MapSum ==
  ASSUME NEW S, NEW h
  PROVE  MapThenSumSet(LAMBDA a : h[a], S) = SumFunctionOnSet(h, S)
BY DEF MapThenSumSet, SumFunctionOnSet, FoldFunctionOnSet

LEMMA AmountSum ==
  ASSUME NEW S
  PROVE  MapThenSumSet(LAMBDA a : a.amount, S) = SumFunctionOnSet([a \in S |-> a.amount], S)
<1> DEFINE f == [a \in S |-> a.amount]
           step(it, s) == IF s = {} THEN 0
                          ELSE (CHOOSE x \in s : TRUE).amount + it[s \ {CHOOSE x \in s : TRUE}]
           it1 == CHOOSE it : it = [s \in SUBSET S |-> step(it, s)]
<1>1. MapThenSumSet(LAMBDA a : a.amount, S) = it1[S]
  BY DEF MapThenSumSet, MapThenFoldSet
<1>2. ASSUME NEW it PROVE it = [s \in SUBSET S |-> step(it, s)] <=> Iterates(it, f, S)
  <2> DEFINE g == [s \in SUBSET S |->
           IF s = {} THEN 0 ELSE f[CHOOSE x \in s : TRUE] + it[s \ {CHOOSE x \in s : TRUE}]]
  <2>1. ASSUME NEW s \in SUBSET S PROVE step(it, s) = g[s]
    <3>1. s # {} => (CHOOSE x \in s : TRUE) \in S
      BY ChosenElement
    <3> QED
      BY <3>1
  <2> HIDE DEF step
  <2>2. [s \in SUBSET S |-> step(it, s)] = [s \in SUBSET S |-> g[s]]
    BY <2>1
  <2>3. [s \in SUBSET S |-> g[s]] = g
    OBVIOUS
  <2> QED
    BY <2>2, <2>3 DEF Iterates
<1> HIDE DEF step
<1>3. it1 = CHOOSE it : Iterates(it, f, S)
  BY <1>2
<1> QED
  BY <1>1, <1>3, SumUnfolds

LEMMA DivType ==
  ASSUME NEW a \in Int, NEW b \in Nat \ {0}
  PROVE  a \div b \in Int
OBVIOUS

LEMMA OwnersFinite == IsFiniteSet(Owners) /\ IsFiniteSet(Accounts) /\ AUTHORITY \notin Wallet
BY FakeAssumption, FS_AddElement, FS_Subset DEF Owners, Accounts, AUTHORITY, ESCROW

(* What a launchable input is. *)
GoodTerms(terms) ==
  /\ terms.tokenSupply \in Nat \ {0}
  /\ terms.poolPercentageBps \in 1..BPS /\ terms.targetInitialYieldBps \in 1..BPS
  /\ terms.expectedAnnualDcf \in Nat \ {0}

LEMMA LaunchableTerms ==
  ASSUME NEW i \in Launchable
  PROVE  /\ GoodTerms(i.terms)
         /\ i.graduationMultiple \in Int /\ i.graduationMultiple > TimesOne
         /\ i.monetization = DEMO_PROTOCOL_CONFIG
<1>1. PICK b \in Bodies : i = parsePreviewInput(b) /\ ValidInput(i)
  BY DEF Launchable
<1>2. /\ i.terms = makeCashFlowTerms(b)
      /\ i.graduationMultiple = Given(b.graduationMultiple, DEFAULT_GRADUATION_MULTIPLE * TimesOne)
      /\ i.monetization = DEMO_PROTOCOL_CONFIG
  BY <1>1 DEF parsePreviewInput
<1>3. \A f \in {"tokenSupply", "poolPercentageBps", "expectedAnnualDcf",
                "targetInitialYieldBps", "graduationMultiple"} : b[f] \in Int \cup {Absent}
  BY BodiesAssumption
<1>4. /\ b.tokenSupply \in Int \cup {Absent} /\ b.poolPercentageBps \in Int \cup {Absent}
      /\ b.expectedAnnualDcf \in Int \cup {Absent}
      /\ b.targetInitialYieldBps \in Int \cup {Absent} /\ b.graduationMultiple \in Int \cup {Absent}
  BY <1>3
<1>5. /\ i.terms.tokenSupply = Given(b.tokenSupply, DEFAULT_TOKEN_SUPPLY)
      /\ i.terms.poolPercentageBps = b.poolPercentageBps
      /\ i.terms.expectedAnnualDcf = b.expectedAnnualDcf
      /\ i.terms.targetInitialYieldBps = b.targetInitialYieldBps
  BY <1>2 DEF makeCashFlowTerms
<1>6. validateCashFlowTerms(i.terms) /\ ValidMultiple(i.graduationMultiple)
  BY <1>1 DEF ValidInput
<1>7. GoodTerms(i.terms)
  <2> DEFINE terms == i.terms
  <2>1. /\ terms.tokenSupply \in Int \cup {Absent} /\ terms.poolPercentageBps \in Int \cup {Absent}
        /\ terms.expectedAnnualDcf \in Int \cup {Absent}
        /\ terms.targetInitialYieldBps \in Int \cup {Absent}
        /\ terms.tokenSupply # Absent
    BY <1>4, <1>5, TermsAssumption DEF Given
  <2>2. validateCashFlowTerms(terms)
    BY <1>6
  <2> HIDE DEF terms
  <2>3. /\ terms.tokenSupply > 0 /\ terms.poolPercentageBps \in 1..BPS
        /\ terms.expectedAnnualDcf # Absent /\ terms.expectedAnnualDcf > 0
        /\ terms.targetInitialYieldBps \in 1..BPS
    BY <2>2 DEF validateCashFlowTerms
  <2>4. GoodTerms(terms)
    BY <2>1, <2>3 DEF GoodTerms
  <2> QED
    BY <2>4 DEF terms
<1>8. i.graduationMultiple \in Int /\ i.graduationMultiple > TimesOne
  BY <1>2, <1>4, <1>6, TermsAssumption DEF ValidMultiple, Given, TimesOne
<1> QED
  BY <1>2, <1>7, <1>8

(* The pricing of good terms: the market opens between nothing and its     *)
(* graduation.                                                             *)
LEMMA PricingArithmetic ==
  ASSUME NEW dcf \in Nat, NEW bps \in Nat, NEW yield \in Nat \ {0},
         NEW multiple \in Int, multiple > TimesOne
  PROVE  LET r == (dcf * bps) \div BPS
             s == (r * BPS) \div yield
             g == (s * ((multiple + 5) \div 10)) \div BPS
         IN  s \in Nat /\ g \in Nat /\ s <= g
<1> DEFINE m == (multiple + 5) \div 10
           r == (dcf * bps) \div BPS
           s == (r * BPS) \div yield
<1>1. m \in Nat /\ m >= 10000
  BY DEF TimesOne
<1>2. dcf * bps \in Nat
  OBVIOUS
<1>3. r \in Nat
  BY <1>2 DEF BPS
<1> HIDE DEF m, r
<1>4. s \in Nat
  BY <1>3 DEF BPS
<1> HIDE DEF s
<1>5. s * m \in Nat /\ s * 10000 <= s * m
  BY <1>1, <1>4
<1>6. (s * m) \div BPS \in Nat /\ s <= (s * m) \div BPS
  BY <1>4, <1>5 DEF BPS
<1> QED
  BY <1>4, <1>6 DEF m, r, s

LEMMA GoodNumbers ==
  ASSUME NEW terms, GoodTerms(terms)
  PROVE  /\ terms.expectedAnnualDcf \in Nat /\ terms.poolPercentageBps \in Nat
         /\ terms.targetInitialYieldBps \in Nat \ {0}
<1>1. \A bps \in 1..BPS : bps \in Nat \ {0}
  BY DEF BPS
<1>2. /\ terms.poolPercentageBps \in 1..BPS /\ terms.targetInitialYieldBps \in 1..BPS
      /\ terms.expectedAnnualDcf \in Nat \ {0}
  BY DEF GoodTerms
<1> QED
  BY <1>1, <1>2

LEMMA PricingTyped ==
  ASSUME NEW i \in Launchable
  PROVE  LET pricing == deriveLaunchPricing(i.terms, i.graduationMultiple) IN
         /\ pricing.startingMarketCap \in Nat /\ pricing.graduationMarketCap \in Nat
         /\ pricing.startingMarketCap <= pricing.graduationMarketCap
         /\ pricing.startingPricePerToken = pricing.startingMarketCap \div i.terms.tokenSupply
<1> DEFINE terms == i.terms
<1>1. GoodTerms(terms) /\ i.graduationMultiple \in Int /\ i.graduationMultiple > TimesOne
  BY LaunchableTerms
<1>2. /\ terms.expectedAnnualDcf \in Nat /\ terms.poolPercentageBps \in Nat
      /\ terms.targetInitialYieldBps \in Nat \ {0}
  BY <1>1, GoodNumbers
<1> QED
  BY <1>1, <1>2, PricingArithmetic DEF deriveLaunchPricing

LEMMA CreatedFacts ==
  ASSUME FakeTypeOK, NEW p \in Pool, created(p)
  PROVE  /\ pools[p].input \in Launchable
         /\ pools[p].input.terms.tokenSupply \in Nat \ {0}
         /\ Supply(p) \in Nat \ {0} /\ Supply(p) \div Unit = pools[p].input.terms.tokenSupply
         /\ pools[p].sold \in Int /\ pools[p].reserve \in Int
<1>1. pools[p].input \in Launchable /\ pools[p].sold \in Int /\ pools[p].reserve \in Int
  BY DEF FakeTypeOK, created
<1> DEFINE n == pools[p].input.terms.tokenSupply
<1>2. n \in Nat \ {0} /\ Unit \in Nat \ {0}
  BY <1>1, LaunchableTerms, FakeAssumption DEF GoodTerms
<1> HIDE DEF n
<1>3. n * Unit \in Nat \ {0} /\ (n * Unit) \div Unit = n
  BY <1>2
<1> QED
  BY <1>1, <1>2, <1>3 DEF Supply, n

(* The price of a market: linear in what was sold, between the two caps.   *)
StartPrice(p) == poolInput(p).startingMarketCap \div pools[p].input.terms.tokenSupply
EndPrice(p) == poolInput(p).graduationMarketCap \div pools[p].input.terms.tokenSupply

LEMMA CapPerToken ==
  ASSUME NEW c \in Nat, NEW n \in Nat \ {0}, NEW u \in Nat \ {0}
  PROVE  ((c * u) \div n) \div u = c \div n /\ c \div n \in Nat
<1> DEFINE a == (c * u) \div n
           b == a \div u
           d == c \div n
<1>1. d \in Nat /\ n * d <= c /\ c < n * d + n
  OBVIOUS
<1>2. c * u \in Nat
  OBVIOUS
<1>3. a \in Nat /\ n * a <= c * u /\ c * u < n * a + n
  BY <1>2
<1> HIDE DEF d
<1> HIDE DEF a
<1>4. b \in Nat /\ u * b <= a /\ a < u * b + u
  BY <1>3
<1> HIDE DEF b
<1>5. (n * d) * u <= c * u
  BY <1>1
<1>6. n * (d * u) <= c * u
  BY <1>1, <1>5
<1>7. d * u <= a
  BY <1>1, <1>3, <1>6 DEF a
<1>8. d <= b
  BY <1>1, <1>3, <1>4, <1>7
<1>9. n * (u * b) <= n * a
  BY <1>3, <1>4
<1>10. (n * b) * u <= c * u
  BY <1>1, <1>3, <1>4, <1>9
<1>11. n * b <= c
  BY <1>4, <1>10
<1>12. b <= d
  BY <1>1, <1>4, <1>11
<1> QED
  BY <1>1, <1>4, <1>8, <1>12 DEF a, b, d

LEMMA PriceIs ==
  ASSUME FakeTypeOK, NEW p \in Pool, created(p)
  PROVE  /\ StartPrice(p) \in Nat /\ EndPrice(p) \in Nat
         /\ priceOf(p) = StartPrice(p) + ((EndPrice(p) - StartPrice(p)) * pools[p].sold) \div Supply(p)
         /\ priceOf(p) \in Int
<1> DEFINE n == pools[p].input.terms.tokenSupply
           c == poolInput(p).startingMarketCap
           g == poolInput(p).graduationMarketCap
<1>1. /\ pools[p].input \in Launchable /\ n \in Nat \ {0} /\ Supply(p) \in Nat \ {0}
      /\ Supply(p) \div Unit = n /\ pools[p].sold \in Int /\ Unit \in Nat \ {0}
  BY CreatedFacts, FakeAssumption
<1>2. c \in Nat /\ g \in Nat
  BY <1>1, PricingTyped DEF poolInput
<1> HIDE DEF c, g, n
<1>3. /\ ((c * Unit) \div n) \div Unit = c \div n /\ c \div n \in Nat
      /\ ((g * Unit) \div n) \div Unit = g \div n /\ g \div n \in Nat
  <2>1. ASSUME NEW x \in Nat
        PROVE  ((x * Unit) \div n) \div Unit = x \div n /\ x \div n \in Nat
    <3>1. n \in Nat \ {0} /\ Unit \in Nat \ {0}
      BY <1>1
    <3> QED
      BY <3>1, CapPerToken
  <2> QED
    BY <1>2, <2>1
<1>4. priceOf(p) = (((c * Unit) \div n) \div Unit)
                      + (((((g * Unit) \div n) \div Unit) - (((c * Unit) \div n) \div Unit)) * pools[p].sold) \div Supply(p)
  BY <1>1 DEF priceOf, c, g
<1>5. StartPrice(p) = c \div n /\ EndPrice(p) = g \div n
  BY DEF StartPrice, EndPrice, c, g, n
<1>6. priceOf(p) = StartPrice(p) + ((EndPrice(p) - StartPrice(p)) * pools[p].sold) \div Supply(p)
  BY <1>3, <1>4, <1>5
<1> DEFINE s == StartPrice(p)
           e == EndPrice(p)
<1>7. s \in Nat /\ e \in Nat
  BY <1>3, <1>5
<1> HIDE DEF s, e
<1>8. s + ((e - s) * pools[p].sold) \div Supply(p) \in Int
  <2>1. (e - s) * pools[p].sold \in Int
    BY <1>1, <1>7
  <2>2. ((e - s) * pools[p].sold) \div Supply(p) \in Int
    BY <1>1, <2>1, DivType
  <2> QED
    BY <1>7, <2>2
<1> QED
  BY <1>6, <1>7, <1>8 DEF s, e

(* A sum after one of its terms was changed, or moved to another one.      *)
LEMMA AddToSum ==
  ASSUME NEW S, IsFiniteSet(S), NEW f \in [S -> Int], NEW g \in [S -> Int],
         NEW a \in S, NEW n \in Int, g[a] = f[a] + n, \A s \in S \ {a} : g[s] = f[s]
  PROVE  SumFunction(g) = SumFunction(f) + n /\ SumFunction(f) \in Int
<1> DEFINE rest == SumFunctionOnSet(f, S \ {a})
<1>1. IsFiniteSet(S \ {a}) /\ DOMAIN f = S /\ DOMAIN g = S
  BY FS_Subset
<1>2. SumFunction(f) = f[a] + rest /\ SumFunction(g) = g[a] + SumFunctionOnSet(g, S \ {a})
  BY <1>1, SumWithout DEF SumFunction
<1>3. SumFunctionOnSet(g, S \ {a}) = rest
  BY SameTerms
<1>4. rest \in Int /\ f[a] \in Int
  BY <1>1, SumIsInt
<1> HIDE DEF rest
<1> QED
  BY <1>2, <1>3, <1>4

LEMMA MoveInSum ==
  ASSUME NEW S, IsFiniteSet(S), NEW f \in [S -> Int], NEW g \in [S -> Int],
         NEW a \in S, NEW b \in S, a # b, NEW n \in Int, g[a] = f[a] + n, g[b] = f[b] - n,
         \A s \in S \ {a, b} : g[s] = f[s]
  PROVE  SumFunction(g) = SumFunction(f)
<1> DEFINE k == -n
           h == [f EXCEPT ![a] = @ + n]
<1>1. h \in [S -> Int] /\ h[a] = f[a] + n /\ \A s \in S \ {a} : h[s] = f[s]
  OBVIOUS
<1>2. k \in Int /\ n + k = 0 /\ f[b] - n = f[b] + k
  OBVIOUS
<1> HIDE DEF h, k
<1>3. SumFunction(h) = SumFunction(f) + n /\ SumFunction(f) \in Int
  BY <1>1, AddToSum
<1>4. g[b] = h[b] + k /\ \A s \in S \ {b} : g[s] = h[s]
  BY <1>1, <1>2
<1>5. SumFunction(g) = SumFunction(h) + k
  BY <1>1, <1>2, <1>4, AddToSum
<1> QED
  <2> DEFINE x == SumFunction(f)
             y == SumFunction(h)
             z == SumFunction(g)
  <2>1. x \in Int /\ y = x + n /\ z = y + k
    BY <1>3, <1>5
  <2> HIDE DEF x, y, z
  <2>2. z = x
    BY <1>2, <2>1
  <2> QED
    BY <2>2 DEF x, z

-----------------------------------------------------------------------------
(* The invariant: the ledgers add up, and nobody but the pool holds less   *)
(* than nothing or holds tokens without an entry.                          *)

MoneyAdds == issuerUsdc + SumFunction(usdc) = funded

TokensAdd(p) ==
    /\ SumFunction(balances[p]) = Supply(p)
    /\ pools[p].sold = Supply(p) - balances[p][AUTHORITY]
    /\ AUTHORITY \in allow[p]
    /\ \A w \in Wallet : balances[p][w] >= 0 /\ (balances[p][w] > 0 => w \in allow[p])

LedgersInv == FakeTypeOK /\ MoneyAdds /\ \A p \in Pool : created(p) => TokensAdd(p)

MarketTyped ==
    /\ pools \in [Pool -> [input : Launchable \cup {Absent}, sold : Int, reserve : Int]]
    /\ allow \in [Pool -> SUBSET Owners]
    /\ balances \in [Pool -> [Owners -> Int]]

MoneyTyped == issuerUsdc \in Nat /\ usdc \in [Accounts -> Nat] /\ funded \in Int

MarketInv == MarketTyped /\ \A p \in Pool : created(p) => TokensAdd(p)
MoneyInv == MoneyTyped /\ MoneyAdds
QueueInv == built \subseteq WalletTxs /\ slot \in 0..MaxSlot

LEMMA LedgersParts ==
  /\ LedgersInv <=> MarketInv /\ MoneyInv /\ QueueInv
  /\ LedgersInv' <=> MarketInv' /\ MoneyInv' /\ QueueInv'
BY DEF LedgersInv, FakeTypeOK, MarketInv, MoneyInv, QueueInv, MarketTyped, MoneyTyped

LEMMA InitLedgers == FakeInit => LedgersInv
<1> SUFFICES ASSUME FakeInit PROVE MarketInv /\ MoneyInv /\ QueueInv
  BY LedgersParts
<1>1. MarketInv
  <2>1. MarketTyped
    BY DEF FakeInit, MarketTyped, NoPool
  <2>2. \A p \in Pool : ~created(p)
    BY DEF FakeInit, created, NoPool
  <2> QED
    BY <2>1, <2>2 DEF MarketInv
<1>2. MoneyInv
  <2>1. MoneyTyped /\ DOMAIN usdc = Accounts /\ \A a \in Accounts : usdc[a] = 0
    BY FakeAssumption DEF FakeInit, MoneyTyped
  <2>2. SumFunction(usdc) = 0
    BY <2>1, OwnersFinite, SumOfZeros DEF SumFunction
  <2>3. issuerUsdc = funded
    BY DEF FakeInit
  <2> QED
    BY <2>1, <2>2, <2>3 DEF MoneyInv, MoneyAdds, MoneyTyped
<1>3. QueueInv
  BY FakeAssumption DEF FakeInit, QueueInv
<1> QED
  BY <1>1, <1>2, <1>3

(* What a step leaves alone. *)
LEMMA MarketKept == MarketInv /\ UNCHANGED <<pools, allow, balances>> => MarketInv'
BY DEF MarketInv, MarketTyped, created, TokensAdd, Supply

LEMMA MoneyKept == MoneyInv /\ UNCHANGED <<issuerUsdc, usdc, funded>> => MoneyInv'
BY DEF MoneyInv, MoneyTyped, MoneyAdds

LEMMA QueueKept == QueueInv /\ save /\ UNCHANGED built => QueueInv'
BY FakeAssumption DEF QueueInv, save

(* A step that changes one market, and how, suffices for the others. *)
LEMMA OneMarket ==
  ASSUME MarketInv, MarketTyped', NEW p \in Pool, created(p)' => TokensAdd(p)',
         \A q \in Pool \ {p} : /\ pools'[q] = pools[q] /\ allow'[q] = allow[q]
                               /\ balances'[q] = balances[q]
  PROVE  MarketInv'
<1>1. ASSUME NEW q \in Pool \ {p}, created(q)' PROVE TokensAdd(q)'
  <2>1. created(q) /\ Supply(q)' = Supply(q)
    BY <1>1 DEF created, Supply
  <2>2. TokensAdd(q)
    BY <1>1, <2>1 DEF MarketInv
  <2> QED
    BY <2>1, <2>2 DEF TokensAdd
<1> QED
  BY <1>1 DEF MarketInv

LEMMA InvOpenPool ==
  ASSUME MarketInv, NEW p \in Pool, NEW i \in Launchable, OpenPool(p, i)
  PROVE  MarketInv'
<1> DEFINE n == i.terms.tokenSupply * Unit
           b == [o \in Owners |-> IF o = AUTHORITY THEN n ELSE 0]
<1>1. n \in Nat \ {0}
  <2>1. i.terms.tokenSupply \in Nat \ {0} /\ Unit \in Nat \ {0}
    BY LaunchableTerms, FakeAssumption DEF GoodTerms
  <2> QED
    BY <2>1
<1>2. AUTHORITY \in Owners /\ IsFiniteSet(Owners) /\ AUTHORITY \notin Wallet /\ Wallet \subseteq Owners
  BY OwnersFinite DEF Owners
<1> HIDE DEF n
<1>3. b \in [Owners -> Int] /\ SumFunction(b) = n
  <2>1. b \in [Owners -> Int] /\ DOMAIN b = Owners /\ b[AUTHORITY] = n /\ \A o \in Owners \ {AUTHORITY} : b[o] = 0
    BY <1>1, <1>2
  <2> HIDE DEF b
  <2> QED
    BY <1>1, <1>2, <2>1, OnlyTerm DEF SumFunction
<1>0. [NoPool EXCEPT !.input = i] = [input |-> i, sold |-> 0, reserve |-> 0]
  BY DEF NoPool
<1>4. /\ balances' = [balances EXCEPT ![p] = b]
      /\ pools' = [pools EXCEPT ![p] = [input |-> i, sold |-> 0, reserve |-> 0]]
      /\ allow' = [allow EXCEPT ![p] = {AUTHORITY}]
  BY <1>0 DEF OpenPool, n
<1>5. MarketTyped'
  BY <1>2, <1>3, <1>4 DEF MarketTyped, MarketInv
<1>6. /\ balances'[p] = b /\ pools'[p].sold = 0 /\ pools'[p].input = i /\ allow'[p] = {AUTHORITY}
  BY <1>4 DEF MarketInv, MarketTyped
<1>7. TokensAdd(p)'
  <2>1. Supply(p)' = n
    BY <1>6 DEF Supply, n
  <2>2. b[AUTHORITY] = n /\ \A w \in Wallet : b[w] = 0
    BY <1>2
  <2> HIDE DEF b
  <2>3. 0 = n - n
    BY <1>1
  <2> QED
    BY <1>3, <1>6, <2>1, <2>2, <2>3 DEF TokensAdd
<1>8. \A q \in Pool \ {p} : /\ pools'[q] = pools[q] /\ allow'[q] = allow[q]
                            /\ balances'[q] = balances[q]
  BY <1>4 DEF MarketInv, MarketTyped
<1> QED
  BY <1>5, <1>7, <1>8, OneMarket

LEMMA InvAllowWallet ==
  ASSUME MarketInv, NEW p \in Pool, NEW w \in Wallet, allowWallet(p, w)
  PROVE  MarketInv'
<1>1. /\ allow' = [allow EXCEPT ![p] = @ \cup {w}] /\ UNCHANGED <<pools, balances>>
  BY DEF allowWallet
<1>2. MarketTyped'
  BY <1>1 DEF MarketInv, MarketTyped, Owners
<1>3. allow'[p] = allow[p] \cup {w} /\ \A q \in Pool \ {p} : allow'[q] = allow[q]
  BY <1>1 DEF MarketInv, MarketTyped
<1>4. created(p)' => TokensAdd(p)'
  BY <1>1, <1>3 DEF MarketInv, created, TokensAdd, Supply
<1> QED
  BY <1>1, <1>2, <1>3, <1>4, OneMarket

LEMMA InvSwap ==
  ASSUME MarketInv, FakeTypeOK, NEW p \in Pool, NEW w \in Wallet, NEW n \in Trades, swap(p, w, n)
  PROVE  MarketInv'
<1> DEFINE cost == (n * priceOf(p)) \div Unit
           b == balances[p]
<1>1. n \in Nat /\ Unit \in Nat \ {0} /\ created(p)
  BY FakeAssumption DEF swap, MayBuy
<1>2. cost \in Int
  <2>1. n * priceOf(p) \in Int
    BY <1>1, PriceIs
  <2> QED
    BY <1>1, <2>1, DivType
<1>3. /\ MarketTyped /\ TokensAdd(p) /\ b \in [Owners -> Int] /\ w \in Owners /\ AUTHORITY \in Owners
      /\ w # AUTHORITY /\ IsFiniteSet(Owners) /\ Wallet \subseteq Owners /\ AUTHORITY \notin Wallet
  BY <1>1, OwnersFinite DEF MarketInv, MarketTyped, Owners
<1> HIDE DEF cost
<1>4. ASSUME NEW m \in Int, NEW c \in Int, b[w] + m >= 0, m > 0 => w \in allow[p], UNCHANGED allow,
             balances' = [balances EXCEPT ![p][w] = @ + m, ![p][AUTHORITY] = @ - m],
             pools' = [pools EXCEPT ![p].sold = @ + m, ![p].reserve = @ + c]
      PROVE  MarketInv'
  <2> DEFINE g == [b EXCEPT ![w] = @ + m, ![AUTHORITY] = @ - m]
  <2>1. g \in [Owners -> Int]
    BY <1>3, <1>4
  <2>2. balances' = [balances EXCEPT ![p] = g]
    BY <1>3, <1>4 DEF MarketTyped
  <2>3. g[w] = b[w] + m /\ g[AUTHORITY] = b[AUTHORITY] - m /\ \A o \in Owners \ {w, AUTHORITY} : g[o] = b[o]
    BY <1>3, <1>4
  <2> HIDE DEF g
  <2>12. SumFunction(g) = SumFunction(b)
    BY <1>3, <1>4, <2>1, <2>3, MoveInSum
  <2>4. /\ pools'[p].input = pools[p].input /\ pools'[p].sold = pools[p].sold + m
        /\ \A q \in Pool \ {p} : pools'[q] = pools[q]
        /\ pools[p].sold \in Int /\ pools[p].reserve \in Int
    BY <1>3, <1>4 DEF MarketTyped
  <2>5. pools' \in [Pool -> [input : Launchable \cup {Absent}, sold : Int, reserve : Int]]
    <3>1. pools[p].sold + m \in Int /\ pools[p].reserve + c \in Int
      BY <1>4, <2>4
    <3> QED
      BY <1>3, <1>4, <3>1 DEF MarketTyped
  <2>6. MarketTyped'
    BY <1>3, <1>4, <2>1, <2>2, <2>5 DEF MarketTyped
  <2>7. balances'[p] = g /\ \A q \in Pool \ {p} : balances'[q] = balances[q]
    BY <1>3, <2>2 DEF MarketTyped
  <2>8. Supply(p)' = Supply(p) /\ Supply(p) \in Int
    BY <1>1, <2>4, CreatedFacts DEF Supply
  <2>9. pools'[p].sold = Supply(p)' - balances'[p][AUTHORITY]
    <3>1. pools[p].sold = Supply(p) - b[AUTHORITY] /\ b[AUTHORITY] \in Int
      BY <1>3 DEF TokensAdd
    <3>2. pools'[p].sold = pools[p].sold + m /\ balances'[p][AUTHORITY] = b[AUTHORITY] - m
      BY <2>3, <2>4, <2>7
    <3>3. Supply(p) \in Int /\ m \in Int
      BY <1>4, <2>8
    <3>4. \A s, x, y \in Int : s = x - y => s + m = x - (y - m)
      BY <3>3
    <3>5. pools[p].sold + m = Supply(p) - (b[AUTHORITY] - m)
      BY <2>4, <3>1, <3>3, <3>4
    <3> QED
      BY <2>8, <3>2, <3>5
  <2>10. \A v \in Wallet : g[v] >= 0 /\ (g[v] > 0 => v \in allow[p])
    <3>1. \A v \in Wallet : b[v] \in Int /\ b[v] >= 0 /\ (b[v] > 0 => v \in allow[p])
      BY <1>3 DEF TokensAdd
    <3>2. g[w] >= 0 /\ (g[w] > 0 => w \in allow[p])
      BY <1>4, <2>3, <3>1
    <3> QED
      BY <1>3, <2>3, <3>1, <3>2
  <2>11. TokensAdd(p)'
    BY <1>3, <1>4, <2>12, <2>7, <2>8, <2>9, <2>10 DEF TokensAdd
  <2> QED
    BY <1>4, <2>4, <2>6, <2>7, <2>11, OneMarket
<1>5. CASE /\ MayBuy(p, w)
           /\ balances' = [balances EXCEPT ![p][w] = @ + n, ![p][AUTHORITY] = @ - n]
           /\ pools' = [pools EXCEPT ![p].sold = @ + n, ![p].reserve = @ + cost]
  <2>1. b[w] + n >= 0 /\ w \in allow[p]
    BY <1>1, <1>3, <1>5 DEF MayBuy, TokensAdd
  <2>2. UNCHANGED allow
    BY DEF swap
  <2>3. n \in Int
    BY <1>1
  <2> QED
    BY <1>2, <1>4, <1>5, <2>1, <2>2, <2>3
<1>6. CASE /\ created(p) /\ balances[p][w] >= n
           /\ balances' = [balances EXCEPT ![p][w] = @ - n, ![p][AUTHORITY] = @ + n]
           /\ pools' = [pools EXCEPT ![p].sold = @ + BackToCurve(p, n), ![p].reserve = @ - cost]
  <2>1. b[w] + (-n) >= 0 /\ ~(-n > 0) /\ -n \in Int /\ -cost \in Int
    BY <1>1, <1>2, <1>3, <1>6
  <2>2. b[w] - n = b[w] + (-n) /\ b[AUTHORITY] + n = b[AUTHORITY] - (-n)
    BY <1>1, <1>3
  <2>3. balances' = [balances EXCEPT ![p][w] = @ + (-n), ![p][AUTHORITY] = @ - (-n)]
    BY <1>3, <1>6, <2>2 DEF MarketTyped
  <2>4. pools[p].reserve - cost = pools[p].reserve + (-cost)
    BY <1>2, <1>3 DEF MarketTyped
  <2>5. pools' = [pools EXCEPT ![p].sold = @ + (-n), ![p].reserve = @ + (-cost)]
    BY <1>6, <2>4 DEF BackToCurve
  <2>6. UNCHANGED allow
    BY DEF swap
  <2> QED
    BY <1>4, <2>1, <2>3, <2>5, <2>6
<1> QED
  BY <1>5, <1>6 DEF swap, cost

LEMMA InvIssuerPays ==
  ASSUME MoneyInv, NEW to \in Accounts, NEW n \in Sums, IssuerPays(to, n), UNCHANGED funded
  PROVE  MoneyInv'
<1>1. /\ n \in Nat /\ issuerUsdc \in Nat /\ usdc \in [Accounts -> Nat] /\ funded \in Int
      /\ issuerUsdc >= n /\ issuerUsdc' = issuerUsdc - n /\ usdc' = [usdc EXCEPT ![to] = @ + n]
      /\ IsFiniteSet(Accounts) /\ issuerUsdc + SumFunction(usdc) = funded
  BY FakeAssumption, OwnersFinite DEF MoneyInv, MoneyTyped, MoneyAdds, IssuerPays
<1>2. /\ usdc \in [Accounts -> Int] /\ usdc' \in [Accounts -> Int] /\ n \in Int
      /\ usdc'[to] = usdc[to] + n /\ \A a \in Accounts \ {to} : usdc'[a] = usdc[a]
  BY <1>1
<1>3. SumFunction(usdc') = SumFunction(usdc) + n /\ SumFunction(usdc) \in Int
  BY <1>2, OwnersFinite, AddToSum
<1>4. usdc' \in [Accounts -> Nat] /\ issuerUsdc' \in Nat
  BY <1>1
<1>5. issuerUsdc' + SumFunction(usdc') = funded
  <2> DEFINE x == SumFunction(usdc)
             y == SumFunction(usdc')
  <2>1. x \in Int /\ y = x + n /\ issuerUsdc + x = funded
    BY <1>1, <1>3
  <2> HIDE DEF x, y
  <2>2. issuerUsdc' + y = funded
    BY <1>1, <2>1
  <2> QED
    BY <2>2 DEF y
<1> QED
  BY <1>1, <1>4, <1>5 DEF MoneyInv, MoneyTyped, MoneyAdds

LEMMA InvSetIssuerUsdc ==
  ASSUME MoneyInv, NEW n \in Sums, setIssuerUsdc(n)
  PROVE  MoneyInv'
<1>1. /\ n \in Nat /\ issuerUsdc \in Nat /\ funded \in Int /\ usdc \in [Accounts -> Nat]
      /\ issuerUsdc' = n /\ funded' = funded + n - issuerUsdc /\ usdc' = usdc
      /\ issuerUsdc + SumFunction(usdc) = funded
  BY FakeAssumption DEF MoneyInv, MoneyTyped, MoneyAdds, setIssuerUsdc
<1>2. SumFunction(usdc) \in Int
  <2>1. DOMAIN usdc = Accounts /\ \A a \in Accounts : usdc[a] \in Int
    BY <1>1
  <2> QED
    BY <2>1, OwnersFinite, SumIsInt DEF SumFunction
<1>3. issuerUsdc' + SumFunction(usdc') = funded'
  <2> DEFINE x == SumFunction(usdc)
  <2>1. x \in Int /\ issuerUsdc + x = funded /\ SumFunction(usdc') = x
    BY <1>1, <1>2
  <2> HIDE DEF x
  <2>2. n + x = funded + n - issuerUsdc
    BY <1>1, <2>1
  <2> QED
    BY <1>1, <2>1, <2>2
<1>4. funded' \in Int /\ issuerUsdc' \in Nat
  BY <1>1
<1> QED
  BY <1>1, <1>3, <1>4 DEF MoneyInv, MoneyTyped, MoneyAdds

LEMMA InvRelease ==
  ASSUME MoneyInv, NEW w \in Payee, NEW n \in Sums, release(w, n)
  PROVE  MoneyInv'
<1>1. /\ n \in Nat /\ usdc \in [Accounts -> Nat] /\ IsFiniteSet(Accounts)
      /\ w \in Accounts /\ ESCROW \in Accounts /\ w # ESCROW /\ usdc[ESCROW] >= n
      /\ usdc' = [usdc EXCEPT ![ESCROW] = @ - n, ![w] = @ + n] /\ UNCHANGED <<issuerUsdc, funded>>
  BY FakeAssumption, OwnersFinite
     DEF MoneyInv, MoneyTyped, release, Releasable, Accounts, ESCROW
<1>2. /\ usdc \in [Accounts -> Int] /\ usdc' \in [Accounts -> Int] /\ n \in Int
      /\ usdc'[w] = usdc[w] + n /\ usdc'[ESCROW] = usdc[ESCROW] - n
      /\ \A a \in Accounts \ {w, ESCROW} : usdc'[a] = usdc[a]
  BY <1>1
<1>3. w \in Accounts /\ ESCROW \in Accounts /\ w # ESCROW
  BY <1>1
<1>4. SumFunction(usdc') = SumFunction(usdc)
  BY <1>2, <1>3, OwnersFinite, MoveInSum
<1>5. usdc' \in [Accounts -> Nat]
  BY <1>1
<1> QED
  BY <1>1, <1>4, <1>5 DEF MoneyInv, MoneyTyped, MoneyAdds

LEMMA InvBuild ==
  ASSUME QueueInv, NEW t \in WalletTxs, build(t)
  PROVE  QueueInv'
BY DEF QueueInv, build

LEMMA InvSubmitSigned ==
  ASSUME LedgersInv, NEW t \in WalletTxs, submitSigned(t)
  PROVE  LedgersInv'
<1>1. MarketInv /\ MoneyInv /\ QueueInv /\ QueueInv'
  BY LedgersParts, QueueKept DEF submitSigned
<1>2. CASE t.kind = "create_pool"
  <2>1. t.pool \in Pool /\ t.input \in Launchable
    BY <1>2 DEF WalletTxs
  <2>2. OpenPool(t.pool, t.input) /\ UNCHANGED <<issuerUsdc, usdc, funded>>
    BY <1>2 DEF submitSigned
  <2> QED
    BY <1>1, <2>1, <2>2, InvOpenPool, MoneyKept, LedgersParts
<1>3. CASE t.kind # "create_pool"
  <2>1. t.to \in Accounts /\ t.amount \in Sums
    BY <1>3 DEF WalletTxs
  <2>2. IssuerPays(t.to, t.amount) /\ UNCHANGED <<pools, allow, balances, funded>>
    BY <1>3 DEF submitSigned
  <2> QED
    BY <1>1, <2>1, <2>2, InvIssuerPays, MarketKept, LedgersParts
<1> QED
  BY <1>2, <1>3

LEMMA LedgersStep == LedgersInv /\ [FakeNext]_fakeVars => LedgersInv'
<1> SUFFICES ASSUME LedgersInv, [FakeNext]_fakeVars PROVE LedgersInv'
  OBVIOUS
<1>0. MarketInv /\ MoneyInv /\ QueueInv /\ FakeTypeOK
  BY LedgersParts DEF LedgersInv
<1>1. ASSUME NEW p \in Pool, NEW i \in Launchable, createIssuancePool(p, i) PROVE LedgersInv'
  <2>1. OpenPool(p, i) /\ save /\ UNCHANGED <<issuerUsdc, usdc, built, funded>>
    BY <1>1 DEF createIssuancePool
  <2> QED
    BY <1>0, <1>1, <2>1, InvOpenPool, MoneyKept, QueueKept, LedgersParts
<1>2. ASSUME NEW p \in Pool, NEW w \in Wallet, allowWallet(p, w) PROVE LedgersInv'
  <2>1. save /\ UNCHANGED <<issuerUsdc, usdc, built, funded>>
    BY <1>2 DEF allowWallet
  <2> QED
    BY <1>0, <1>2, <2>1, InvAllowWallet, MoneyKept, QueueKept, LedgersParts
<1>3. ASSUME NEW p \in Pool, NEW w \in Wallet, NEW n \in Trades, swap(p, w, n) PROVE LedgersInv'
  <2>1. save /\ UNCHANGED <<issuerUsdc, usdc, built, funded>>
    BY <1>3 DEF swap
  <2> QED
    BY <1>0, <1>3, <2>1, InvSwap, MoneyKept, QueueKept, LedgersParts
<1>4. ASSUME NEW n \in Sums, setIssuerUsdc(n) PROVE LedgersInv'
  <2>1. save /\ UNCHANGED <<pools, allow, balances, built>>
    BY <1>4 DEF setIssuerUsdc
  <2> QED
    BY <1>0, <1>4, <2>1, InvSetIssuerUsdc, MarketKept, QueueKept, LedgersParts
<1>5. ASSUME NEW a \in Accounts, NEW n \in Sums, transferBatch(a, n) PROVE LedgersInv'
  <2>1. save /\ UNCHANGED <<pools, allow, balances, built, funded>> /\ IssuerPays(a, n)
    BY <1>5 DEF transferBatch
  <2> QED
    BY <1>0, <1>5, <2>1, InvIssuerPays, MarketKept, QueueKept, LedgersParts
<1>6. ASSUME NEW w \in Payee, NEW n \in Sums, release(w, n) PROVE LedgersInv'
  <2>1. save /\ UNCHANGED <<pools, allow, balances, built>>
    BY <1>6 DEF release
  <2> QED
    BY <1>0, <1>6, <2>1, InvRelease, MarketKept, QueueKept, LedgersParts
<1>7. ASSUME NEW t \in WalletTxs, build(t) PROVE LedgersInv'
  <2>1. UNCHANGED <<pools, allow, balances>> /\ UNCHANGED <<issuerUsdc, usdc, funded>>
    BY <1>7 DEF build
  <2> QED
    BY <1>0, <1>7, <2>1, InvBuild, MarketKept, MoneyKept, LedgersParts
<1>8. ASSUME NEW t \in WalletTxs, submitSigned(t) PROVE LedgersInv'
  BY <1>8, InvSubmitSigned
<1>9. CASE UNCHANGED fakeVars
  <2>1. /\ UNCHANGED <<pools, allow, balances>> /\ UNCHANGED <<issuerUsdc, usdc, funded>>
        /\ UNCHANGED <<built, slot>>
    BY <1>9 DEF fakeVars
  <2> QED
    BY <1>0, <2>1, MarketKept, MoneyKept, LedgersParts DEF QueueInv
<1> QED
  BY <1>1, <1>2, <1>3, <1>4, <1>5, <1>6, <1>7, <1>8, <1>9 DEF FakeNext, FakeRest

LEMMA LedgersInductive == FakeSpec => []LedgersInv
BY InitLedgers, LedgersStep, PTL DEF FakeSpec

-----------------------------------------------------------------------------
(* The snapshot of a market.                                               *)

Holders(p) == {o \in Owners : balances[p][o] > 0}
OwnersOf(accounts) == {a.owner : a \in accounts}

(* Merging accounts of different holders gives back their balances.        *)
LEMMA MergeOwn ==
  ASSUME NEW A, NEW b, \A a \in A : a.amount = b[a.owner] /\ a.amount \in Int,
         \A x, y \in A : x.owner = y.owner => x = y
  PROVE  mergeHolders(A) = [o \in OwnersOf(A) |-> b[o]]
<1> DEFINE own(o) == {a \in A : a.owner = o}
<1>1. ASSUME NEW o \in OwnersOf(A)
      PROVE  MapThenSumSet(LAMBDA a : a.amount, own(o)) = b[o]
  <2>1. PICK a \in A : a.owner = o
    BY <1>1 DEF OwnersOf
  <2>2. own(o) = {a}
    BY <2>1
  <2>3. a.amount = b[o] /\ b[o] \in Int
    BY <2>1
  <2> DEFINE f == [x \in {a} |-> x.amount]
  <2>4. f[a] = b[o] /\ f[a] \in Int /\ \A s \in {a} \ {a} : f[s] = 0
    BY <2>3
  <2>5. IsFiniteSet({a})
    BY FS_Singleton
  <2> HIDE DEF f
  <2>6. SumFunctionOnSet(f, {a}) = b[o]
    BY <2>4, <2>5, OnlyTerm
  <2>7. MapThenSumSet(LAMBDA x : x.amount, {a}) = SumFunctionOnSet(f, {a})
    BY AmountSum DEF f
  <2> QED
    BY <2>2, <2>6, <2>7
<1>2. mergeHolders(A) = [o \in OwnersOf(A) |-> MapThenSumSet(LAMBDA a : a.amount, own(o))]
  BY DEF mergeHolders, OwnersOf
<1> HIDE DEF own
<1> QED
  BY <1>1, <1>2

(* Accounts that show the balances of different owners. *)
Shows(A, p) ==
  /\ \A a \in A : a.owner \in Holders(p) /\ a.amount = balances[p][a.owner] /\ a.amount \in Int
  /\ \A x, y \in A : x.owner = y.owner => x = y

LEMMA MergeShown ==
  ASSUME NEW A, NEW p, Shows(A, p)
  PROVE  mergeHolders(A) = [o \in OwnersOf(A) |-> balances[p][o]]
BY MergeOwn DEF Shows

LEMMA SnapshotIs ==
  ASSUME MarketInv, NEW p \in Pool
  PROVE  Snapshot(p) = [o \in Holders(p) |-> balances[p][o]]
<1>1. balances[p] \in [Owners -> Int]
  BY DEF MarketInv, MarketTyped
<1> DEFINE acc(o) == [owner |-> o, account |-> o, amount |-> balances[p][o]]
<1>2. getBalances(p) = {acc(o) : o \in Holders(p)}
  BY DEF getBalances, Holders
<1>3. \A o \in Holders(p) : /\ acc(o).owner = o /\ acc(o).amount = balances[p][o]
                            /\ balances[p][o] \in Int
  BY <1>1 DEF Holders
<1> HIDE DEF acc
<1>4. Shows(getBalances(p), p) /\ OwnersOf(getBalances(p)) = Holders(p)
  BY <1>2, <1>3 DEF Shows, OwnersOf
<1> QED
  BY <1>4, MergeShown DEF Snapshot

(* No call of the fake chain makes or loses money or tokens (Conserved).   *)
THEOREM NothingLost == FakeSpec => []Conserved
<1>1. LedgersInv => Conserved
  BY DEF LedgersInv, MoneyAdds, TokensAdd, Conserved
<1> QED
  BY <1>1, LedgersInductive, PTL

-----------------------------------------------------------------------------
(* Sums of shares.                                                         *)

(* A product of naturals is one, and grows with its factors. *)
LEMMA ProductType == ASSUME NEW a \in Nat, NEW b \in Nat PROVE a * b \in Nat
OBVIOUS

LEMMA ProductGrows ==
  ASSUME NEW a \in Int, NEW b \in Int, NEW c \in Nat, a <= b
  PROVE  c * a <= c * b
OBVIOUS

LEMMA DivGrows ==
  ASSUME NEW a \in Int, NEW b \in Int, NEW c \in Nat \ {0}, a <= b
  PROVE  a \div c <= b \div c
OBVIOUS

LEMMA ProductSplits ==
  ASSUME NEW a \in Int, NEW b \in Int, NEW c \in Int
  PROVE  c * (a + b) = c * a + c * b /\ (a + b) * c = a * c + b * c
OBVIOUS

LEMMA ShareBounds ==
  ASSUME NEW tokens \in Nat, NEW pool \in Nat, NEW supply \in Nat \ {0}
  PROVE  LET s == share(tokens, pool, supply) IN
         s \in Nat /\ supply * s <= tokens * pool /\ tokens * pool <= supply * s + (supply - 1)
BY DEF share

(* The shares of a set add up to the share of its sum, but for less than a *)
(* unit each.                                                              *)
LEMMA SharesOfSum ==
  ASSUME NEW S, IsFiniteSet(S), NEW t, \A s \in S : t[s] \in Nat,
         NEW pool \in Nat, NEW supply \in Nat \ {0},
         NEW f, \A s \in S : f[s] = share(t[s], pool, supply)
  PROVE  LET held == SumFunctionOnSet(t, S)
             paid == SumFunctionOnSet(f, S)
         IN  /\ held \in Nat /\ paid \in Nat
             /\ supply * paid <= held * pool
             /\ held * pool <= supply * paid + Cardinality(S) * (supply - 1)
<1> DEFINE held(T) == SumFunctionOnSet(t, T)
           paid(T) == SumFunctionOnSet(f, T)
           Good(T) == /\ supply * paid(T) <= held(T) * pool
                      /\ held(T) * pool <= supply * paid(T) + Cardinality(T) * (supply - 1)
           F == {T \in SUBSET S : ~Good(T)}
<1>0. \A s \in S : f[s] \in Nat
  BY ShareBounds
<1>1. ASSUME NEW T \in SUBSET S PROVE held(T) \in Nat /\ paid(T) \in Nat /\ IsFiniteSet(T) /\ Cardinality(T) \in Nat
  <2>1. IsFiniteSet(T)
    BY FS_Subset
  <2> QED
    BY <1>0, <2>1, SumIsNat, FS_CardinalityType
<1> SUFFICES ASSUME F # {} PROVE FALSE
  BY <1>1, S \in SUBSET S
<1>2. PICK T \in F : \A U \in SUBSET T : U \in F => U = T
  <2>1. F \subseteq SUBSET S
    OBVIOUS
  <2> HIDE DEF F
  <2> QED
    BY <2>1, MinimalSubset
<1>3. T \in SUBSET S /\ ~Good(T)
  OBVIOUS
<1>4. T # {}
  <2> SUFFICES ASSUME T = {} PROVE FALSE
    OBVIOUS
  <2>1. held(T) = 0 /\ paid(T) = 0 /\ Cardinality(T) = 0
    BY SumOfNone, FS_EmptySet
  <2>2. \A h, p, n \in {0} : supply * p <= h * pool /\ h * pool <= supply * p + n * (supply - 1)
    OBVIOUS
  <2> QED
    BY <1>3, <2>1, <2>2
<1>5. PICK x \in T : TRUE
  BY <1>4
<1> DEFINE R == T \ {x}
           h == held(R)  p == paid(R)  n == Cardinality(R)
           a == t[x]  b == f[x]
<1>6. R \in SUBSET S /\ Good(R)
  <2>1. R \in SUBSET T /\ R # T /\ R \in SUBSET S
    BY <1>3
  <2> HIDE DEF Good, R
  <2> QED
    BY <1>2, <2>1
<1>7. /\ held(T) = a + h /\ paid(T) = b + p /\ Cardinality(T) = n + 1
      /\ h \in Nat /\ p \in Nat /\ n \in Nat /\ a \in Nat /\ b \in Nat
  <2>1. IsFiniteSet(T) /\ Cardinality(T) \in Nat /\ \A s \in T : t[s] \in Int /\ f[s] \in Int
    BY <1>0, <1>1, <1>3
  <2>2. held(T) = a + h /\ paid(T) = b + p
    BY <2>1, SumWithout
  <2>3. Cardinality(R) = Cardinality(T) - 1 /\ Cardinality(R) \in Nat
    BY <1>1, <1>6, <2>1, FS_RemoveElement
  <2> QED
    BY <1>0, <1>1, <1>3, <1>6, <2>1, <2>2, <2>3
<1>8. /\ supply * p <= h * pool /\ h * pool <= supply * p + n * (supply - 1)
  BY <1>6
<1>9. supply * b <= a * pool /\ a * pool <= supply * b + (supply - 1)
  BY <1>3, <1>7, ShareBounds
<1> HIDE DEF h, p, n, a, b
<1>10. /\ supply * (b + p) = supply * b + supply * p
       /\ (a + h) * pool = a * pool + h * pool
       /\ (n + 1) * (supply - 1) = n * (supply - 1) + (supply - 1)
  <2>1. supply * (b + p) = supply * b + supply * p
    BY <1>7, ProductSplits
  <2>2. (a + h) * pool = a * pool + h * pool
    BY <1>7, ProductSplits
  <2>3. \A i, j \in Int : (i + 1) * j = i * j + j
    OBVIOUS
  <2>4. n \in Int /\ supply - 1 \in Int
    BY <1>7
  <2> QED
    BY <2>1, <2>2, <2>3, <2>4
<1>11. /\ supply * (b + p) <= (a + h) * pool
       /\ (a + h) * pool <= supply * (b + p) + (n + 1) * (supply - 1)
  <2> DEFINE A == a * pool  B == supply * b  H == h * pool  P == supply * p  N == n * (supply - 1)
  <2>1. A \in Int /\ B \in Int /\ H \in Int /\ P \in Int /\ N \in Int
    BY <1>7
  <2>2. P <= H /\ H <= P + N /\ B <= A /\ A <= B + (supply - 1)
    BY <1>8, <1>9
  <2> HIDE DEF A, B, H, P, N
  <2>3. B + P <= A + H /\ A + H <= (B + P) + (N + (supply - 1))
    BY <2>1, <2>2
  <2> QED
    BY <1>10, <2>3 DEF A, B, H, P, N
<1> QED
  BY <1>3, <1>7, <1>11

(* Summing over the images of a set. *)
LEMMA SumOfImages ==
  ASSUME NEW E, IsFiniteSet(E), NEW r, \A x, y \in E : r[x] = r[y] => x = y,
         NEW g, NEW h, \A x \in E : g[r[x]] = h[x] /\ h[x] \in Int
  PROVE  SumFunctionOnSet(g, {r[x] : x \in E}) = SumFunctionOnSet(h, E)
<1> DEFINE img(T) == {r[x] : x \in T}
           Good(T) == SumFunctionOnSet(g, img(T)) = SumFunctionOnSet(h, T)
           F == {T \in SUBSET E : ~Good(T)}
<1>1. ASSUME NEW T \in SUBSET E
      PROVE  IsFiniteSet(img(T)) /\ Cardinality(img(T)) = Cardinality(T) /\ IsFiniteSet(T)
  <2> DEFINE f == [x \in T |-> r[x]]
  <2>1. f \in Surjection(T, img(T)) /\ f \in Injection(T, img(T))
    BY DEF Surjection, Injection, IsInjective
  <2>2. IsFiniteSet(T)
    BY FS_Subset
  <2> HIDE DEF f, img
  <2> QED
    BY <2>1, <2>2, FS_Surjection
<1> SUFFICES ASSUME F # {} PROVE FALSE
  BY E \in SUBSET E
<1>2. PICK T \in F : \A U \in SUBSET T : U \in F => U = T
  <2>1. F \subseteq SUBSET E
    OBVIOUS
  <2> HIDE DEF F
  <2> QED
    BY <2>1, MinimalSubset
<1>3. T \in SUBSET E /\ ~Good(T)
  OBVIOUS
<1>4. T # {}
  <2> SUFFICES ASSUME T = {} PROVE FALSE
    OBVIOUS
  <2>1. img(T) = {}
    OBVIOUS
  <2>2. SumFunctionOnSet(g, {}) = 0 /\ SumFunctionOnSet(h, {}) = 0
    BY SumOfNone
  <2> QED
    BY <1>3, <2>1, <2>2
<1>5. PICK x \in T : TRUE
  BY <1>4
<1> DEFINE R == T \ {x}
<1>6. Good(R)
  <2>1. R \in SUBSET T /\ R # T /\ R \in SUBSET E
    BY <1>3
  <2> HIDE DEF Good, R
  <2> QED
    BY <1>2, <2>1
<1>7. img(T) \ {r[x]} = img(R) /\ r[x] \in img(T)
  BY <1>3
<1>8. \A y \in img(T) : g[y] \in Int
  BY <1>3
<1>9. IsFiniteSet(img(T)) /\ IsFiniteSet(T)
  BY <1>1, <1>3
<1>10. SumFunctionOnSet(g, img(T)) = g[r[x]] + SumFunctionOnSet(g, img(T) \ {r[x]})
  <2> HIDE DEF img
  <2> QED
    BY <1>7, <1>8, <1>9, SumWithout
<1>11. SumFunctionOnSet(h, T) = h[x] + SumFunctionOnSet(h, R)
  BY <1>3, <1>9, SumWithout
<1>12. g[r[x]] = h[x]
  BY <1>3
<1> HIDE DEF img, R, F
<1> QED
  BY <1>3, <1>6, <1>7, <1>10, <1>11, <1>12

-----------------------------------------------------------------------------
(* The split of the graduation proceeds.                                   *)

LEMMA ExactQuotient ==
  ASSUME NEW a \in Nat, NEW b \in Nat \ {0}, a % b = 0
  PROVE  b * (a \div b) = a /\ a \div b \in Nat
OBVIOUS

LEMMA PercentOf ==
  ASSUME NEW a \in Nat
  PROVE  a \div 100 \in Nat /\ a - 100 * (a \div 100) \in 0..99
OBVIOUS

(* The two fee percentages multiply to the issuer's share.                 *)
LEMMA FeeProduct ==
  ASSUME NEW c, c.issuerPct \in Nat, c.platformPct \in Nat, validateMonetizationConfig(c)
  PROVE  LET f == toDbcFeeParams(c) IN
         /\ f.feePercentage = c.issuerPct + c.platformPct /\ f.feePercentage \in Nat
         /\ f.creatorFeePercentage \in 0..100
         /\ f.feePercentage * f.creatorFeePercentage = 100 * c.issuerPct
<1> DEFINE i == c.issuerPct  F == c.issuerPct + c.platformPct  C == toDbcFeeParams(c).creatorFeePercentage
<1>1. i \in Nat /\ F \in Nat /\ i <= F
  OBVIOUS
<1>2. C = IF F > 0 THEN exactCreatorFeePercentage(i, F) ELSE 0
  BY DEF toDbcFeeParams
<1>3. toDbcFeeParams(c).feePercentage = F
  BY DEF toDbcFeeParams
<1>4. F > 0 => exactCreatorFeePercentage(i, F) # Absent
  BY DEF validateMonetizationConfig
<1>5. F = 0 => i = 0
  BY <1>1
<1> HIDE DEF i, F, C
<1>6. CASE F = 0
  <2>1. C = 0 /\ i = 0
    BY <1>2, <1>5, <1>6
  <2> QED
    BY <1>3, <1>6, <2>1 DEF i, F, C
<1>7. CASE F > 0
  <2>1. exactCreatorFeePercentage(i, F) # Absent
    BY <1>4, <1>7
  <2>2. (i * 100) % F = 0 /\ C = (i * 100) \div F
    BY <1>2, <1>7, <2>1 DEF exactCreatorFeePercentage
  <2> DEFINE a == i * 100
  <2>3. a \in Nat /\ F \in Nat \ {0}
    BY <1>1, <1>7
  <2> HIDE DEF a
  <2>4. F * C = a /\ C \in Nat
    BY <2>2, <2>3, ExactQuotient DEF a
  <2>5. F * C <= F * 100
    BY <1>1, <2>4 DEF a
  <2>6. C <= 100
    BY <2>3, <2>4, <2>5
  <2> QED
    BY <1>1, <1>3, <2>3, <2>4, <2>6 DEF i, F, C, a
<1> QED
  BY <1>1, <1>6, <1>7

(* What each party is shown of a threshold is its percentage of it, but    *)
(* for the rounding of two divisions.                                      *)
ProceedsOf(t, I, F, C) ==
    LET fee == (t * F) \div 100
        iss == (fee * C) \div 100
    IN  /\ t * I - 100 * iss \in 0..199
        /\ t * (F - I) - 100 * (fee - iss) \in -99..99
        /\ t * (100 - F) - 100 * (t - fee) \in -99..0

LEMMA ProceedsSplit ==
  ASSUME NEW t \in Nat, NEW I \in Nat, NEW F \in Nat, NEW C \in 0..100, F * C = 100 * I
  PROVE  ProceedsOf(t, I, F, C)
<1> DEFINE a == t * F
           fee == a \div 100
           b == fee * C
           iss == b \div 100
           r == a - 100 * fee
           s == b - 100 * iss
           d == t * I - b
<1>1. a \in Nat
  OBVIOUS
<1> HIDE DEF a
<1>2. fee \in Nat /\ r \in 0..99
  BY <1>1, PercentOf
<1> HIDE DEF fee
<1>3. b \in Nat
  BY <1>2
<1>4. iss \in Nat /\ s \in 0..99
  <2> HIDE DEF b
  <2> QED
    BY <1>3, PercentOf
<1> HIDE DEF iss
<1>5. 100 * d = r * C
  <2>1. t * (F * C) = a * C
    BY DEF a
  <2>2. t * (100 * I) = 100 * (t * I)
    OBVIOUS
  <2>3. a * C = r * C + (100 * fee) * C
    <3>1. a = r + 100 * fee /\ r \in Int /\ 100 * fee \in Int /\ C \in Int
      BY <1>1, <1>2
    <3> HIDE DEF r
    <3> QED
      BY <3>1, ProductSplits
  <2>4. (100 * fee) * C = 100 * b
    BY <1>2
  <2> DEFINE ti == t * I  rc == r * C
  <2>5. ti \in Int /\ rc \in Int /\ b \in Int
    BY <1>2, <1>3
  <2>6. 100 * ti = rc + 100 * b
    BY <2>1, <2>2, <2>3, <2>4
  <2> HIDE DEF ti, rc, b
  <2>7. 100 * (ti - b) = rc
    BY <2>5, <2>6
  <2> QED
    BY <2>7 DEF ti, rc
<1>6. d \in Int
  BY <1>3
<1> HIDE DEF r, d, s
<1>7. d \in 0..r
  <2>1. r * C \in Nat /\ r * C <= r * 100
    BY <1>2, ProductType, ProductGrows
  <2> QED
    BY <1>2, <1>5, <1>6, <2>1
<1>8. t * I - 100 * iss = d + s
  <2> DEFINE ti == t * I
  <2>1. ti \in Int
    OBVIOUS
  <2> HIDE DEF ti, b
  <2>2. ti - 100 * iss = (ti - b) + (b - 100 * iss)
    BY <1>3, <1>4, <2>1
  <2> QED
    BY <2>2 DEF ti, d, s
<1>9. t * (F - I) - 100 * (fee - iss) = r - (d + s)
  <2> DEFINE ti == t * I
  <2>1. t * (F - I) = a - ti /\ ti \in Int
    BY DEF a
  <2>2. ti - 100 * iss = d + s
    BY <1>8
  <2>3. a - 100 * fee = r
    BY DEF r
  <2> HIDE DEF ti
  <2>4. (a - ti) - 100 * (fee - iss) = (a - 100 * fee) - (ti - 100 * iss)
    BY <1>1, <1>2, <1>4, <2>1
  <2> QED
    BY <2>1, <2>2, <2>3, <2>4
<1>10. t * (100 - F) - 100 * (t - fee) = -r
  <2>1. t * (100 - F) = 100 * t - a
    BY DEF a
  <2>2. (100 * t - a) - 100 * (t - fee) = -(a - 100 * fee)
    BY <1>1, <1>2
  <2> QED
    BY <2>1, <2>2 DEF r
<1>11. d + s \in 0..198 /\ r - (d + s) \in -99..99 /\ -r \in -99..0
  BY <1>2, <1>4, <1>7
<1> QED
  BY <1>8, <1>9, <1>10, <1>11 DEF fee, iss, b, a, ProceedsOf

(* What is configured of a threshold and what is shown of it. *)
ProceedsShown(c, t) ==
    LET f == toDbcFeeParams(c)  e == projectEconomics(c, t) IN
    /\ f.feePercentage * f.creatorFeePercentage = 100 * c.issuerPct
    /\ t * c.issuerPct - 100 * e.issuer \in 0..199
    /\ t * c.platformPct - 100 * e.platform \in -99..99
    /\ t * c.liquidityPct - 100 * e.liquidity \in -99..0

LEMMA SplitOfProceeds == GraduationSplit
<1>1. ASSUME NEW c \in FeeConfigs
      PROVE  /\ c.issuerPct \in Nat /\ c.platformPct \in Nat /\ c.liquidityPct \in Nat
             /\ validateMonetizationConfig(c)
             /\ c.liquidityPct = 100 - (c.issuerPct + c.platformPct)
  <2>1. /\ c.issuerPct \in Nat /\ c.platformPct \in Nat /\ c.liquidityPct \in Nat
        /\ validateMonetizationConfig(c)
    BY DEF FeeConfigs, Percents
  <2>2. c.issuerPct + c.platformPct + c.liquidityPct = 100
    BY <2>1 DEF validateMonetizationConfig
  <2> QED
    BY <2>1, <2>2
<1>2. ASSUME NEW c \in FeeConfigs, NEW t \in Nat
      PROVE  ProceedsShown(c, t)
  <2> DEFINE F == toDbcFeeParams(c).feePercentage  C == toDbcFeeParams(c).creatorFeePercentage
             I == c.issuerPct  P == c.platformPct  L == c.liquidityPct
             fee == (t * F) \div 100  iss == (fee * C) \div 100
  <2>1. F = I + P /\ F \in Nat /\ C \in 0..100 /\ F * C = 100 * I /\ I \in Nat /\ P \in Nat
    BY <1>1, FeeProduct
  <2>2. projectEconomics(c, t) = [issuer |-> iss, platform |-> fee - iss, liquidity |-> t - fee]
    BY DEF projectEconomics
  <2>3. L = 100 - (I + P)
    BY <1>1
  <2>4. projectEconomics(c, t).issuer = iss /\ projectEconomics(c, t).platform = fee - iss
        /\ projectEconomics(c, t).liquidity = t - fee
    BY <2>2
  <2> HIDE DEF F, C, I, P, L
  <2>5. P = F - I /\ L = 100 - F
    BY <2>1, <2>3
  <2>6. ProceedsOf(t, I, F, C)
    BY <2>1, ProceedsSplit
  <2>7. /\ t * I - 100 * iss \in 0..199
        /\ t * P - 100 * (fee - iss) \in -99..99
        /\ t * L - 100 * (t - fee) \in -99..0
    BY <2>5, <2>6 DEF ProceedsOf
  <2> HIDE DEF fee, iss
  <2>8. /\ t * I - 100 * projectEconomics(c, t).issuer \in 0..199
        /\ t * P - 100 * projectEconomics(c, t).platform \in -99..99
        /\ t * L - 100 * projectEconomics(c, t).liquidity \in -99..0
    BY <2>4, <2>7
  <2> QED
    BY <2>1, <2>8 DEF F, C, I, P, L, ProceedsShown
<1>3. ASSUME NEW c \in FeeConfigs
      PROVE  LET f == toDbcFeeParams(c) IN f.feePercentage * f.creatorFeePercentage = 100 * c.issuerPct
  BY <1>2, 0 \in Nat DEF ProceedsShown
<1>4. ASSUME NEW c \in FeeConfigs, NEW t \in {0, 7, 100, 1385}
      PROVE  LET e == projectEconomics(c, t) IN
             /\ t * c.issuerPct - 100 * e.issuer \in 0..199
             /\ t * c.platformPct - 100 * e.platform \in -99..99
             /\ t * c.liquidityPct - 100 * e.liquidity \in -99..0
  <2>1. t \in Nat
    OBVIOUS
  <2> QED
    BY <1>2, <2>1 DEF ProceedsShown
<1> HIDE DEF FeeConfigs
<1> QED
  BY <1>3, <1>4 DEF GraduationSplit

-----------------------------------------------------------------------------
(* The split of a rights pool.                                             *)

(* From a product to its factor. *)
LEMMA FactorBelow ==
  ASSUME NEW a \in Int, NEW b \in Int, NEW c \in Nat \ {0}, c * a < c * b
  PROVE  a < b
<1> SUFFICES ASSUME b <= a PROVE FALSE
  OBVIOUS
<1>1. c * b <= c * a
  BY ProductGrows
<1> QED
  BY <1>1

(* The shares of a group, against the share of the group. *)
LEMMA SharesNearShare ==
  ASSUME NEW S, IsFiniteSet(S), NEW t, \A s \in S : t[s] \in Nat,
         NEW pool \in Nat, NEW supply \in Nat \ {0},
         NEW f, \A s \in S : f[s] = share(t[s], pool, supply)
  PROVE  LET paid == SumFunctionOnSet(f, S)
             one == share(SumFunctionOnSet(t, S), pool, supply)
         IN  paid \in Nat /\ one \in Nat /\ paid <= one /\ one <= paid + Cardinality(S)
<1> DEFINE paid == SumFunctionOnSet(f, S)
           held == SumFunctionOnSet(t, S)
           one == share(held, pool, supply)
           n == Cardinality(S)
           x == held * pool
<1>1. /\ held \in Nat /\ paid \in Nat /\ supply * paid <= x
      /\ x <= supply * paid + n * (supply - 1)
  BY SharesOfSum
<1>2. n \in Nat
  BY FS_CardinalityType
<1> HIDE DEF paid, held, n
<1>3. one \in Nat /\ supply * one <= x /\ x <= supply * one + (supply - 1) /\ x \in Nat
  <2>1. held \in Nat
    BY <1>1
  <2>2. x \in Nat
    BY <2>1, ProductType
  <2>3. one \in Nat /\ supply * one <= x /\ x <= supply * one + (supply - 1)
    BY <2>1, ShareBounds
  <2> QED
    BY <2>2, <2>3
<1> HIDE DEF one, x
<1>4. paid <= one
  <2>1. supply * (one + 1) = supply * one + supply
    BY <1>3
  <2>2. supply * paid < supply * (one + 1)
    BY <1>1, <1>3, <2>1
  <2>3. paid < one + 1
    BY <1>1, <1>3, <2>2, FactorBelow
  <2> QED
    BY <1>1, <1>3, <2>3
<1>5. one <= paid + n
  <2>1. n * (supply - 1) <= supply * n
    BY <1>2
  <2>2. supply * (paid + n) = supply * paid + supply * n
    BY <1>1, <1>2, ProductSplits
  <2>3. supply * one <= supply * (paid + n)
    BY <1>1, <1>2, <1>3, <2>1, <2>2
  <2>4. supply * (paid + n + 1) = supply * (paid + n) + supply
    BY <1>1, <1>2
  <2>5. supply * one < supply * (paid + n + 1)
    BY <1>1, <1>2, <1>3, <2>3, <2>4
  <2>6. one < paid + n + 1
    BY <1>1, <1>2, <1>3, <2>5, FactorBelow
  <2> QED
    BY <1>1, <1>2, <1>3, <2>6
<1> QED
  BY <1>1, <1>3, <1>4, <1>5 DEF paid, held, one, n

(* Four groups that make up the supply, one of them rounded holder by      *)
(* holder: what rounding leaves over.                                      *)
LEMMA DustBounds ==
  ASSUME NEW pool \in Nat, NEW supply \in Nat \ {0}, NEW n \in Nat,
         NEW A \in Nat, NEW B \in Nat, NEW C \in Nat, NEW U \in Nat, A + B + C + U = supply,
         NEW a \in Nat, supply * a <= A * pool, A * pool <= supply * a + n * (supply - 1)
  PROVE  LET b == share(B, pool, supply)
             c == share(C, pool, supply)
             u == share(U, pool, supply)
         IN  b \in Nat /\ c \in Nat /\ u \in Nat /\ pool - a - b - c - u \in 0..(n + 2)
<1> DEFINE b == share(B, pool, supply)
           c == share(C, pool, supply)
           u == share(U, pool, supply)
           d == pool - a - b - c - u
           xa == A * pool  xb == B * pool  xc == C * pool  xu == U * pool
           ya == supply * a  yb == supply * b  yc == supply * c  yu == supply * u
           k == n * (supply - 1)
<1>1. /\ b \in Nat /\ yb <= xb /\ xb <= yb + (supply - 1)
      /\ c \in Nat /\ yc <= xc /\ xc <= yc + (supply - 1)
      /\ u \in Nat /\ yu <= xu /\ xu <= yu + (supply - 1)
  BY ShareBounds
<1>2. ya <= xa /\ xa <= ya + k
  OBVIOUS
<1> HIDE DEF b, c, u
<1>3. /\ xa \in Int /\ xb \in Int /\ xc \in Int /\ xu \in Int
      /\ ya \in Int /\ yb \in Int /\ yc \in Int /\ yu \in Int /\ k \in Nat
  BY <1>1
<1>4. supply * pool = xa + xb + xc + xu
  <2>1. (A + B + C + U) * pool = xa + xb + xc + xu
    OBVIOUS
  <2> QED
    BY <2>1
<1>5. supply * d = supply * pool - ya - yb - yc - yu
  BY <1>1
<1>6. d \in Int
  BY <1>1
<1>7. (n + 3) * (supply - 1) = k + 3 * (supply - 1)
  OBVIOUS
<1> DEFINE z == supply * d
           m == (n + 3) * (supply - 1)
<1>8. z \in Int /\ z >= 0 /\ z <= m
  <2> HIDE DEF xa, xb, xc, xu, ya, yb, yc, yu, k, d
  <2>1. z = (xa + xb + xc + xu) - ya - yb - yc - yu
    BY <1>4, <1>5
  <2>2. m = k + 3 * (supply - 1)
    BY <1>7
  <2> HIDE DEF z, m
  <2> QED
    BY <1>1, <1>2, <1>3, <2>1, <2>2
<1> HIDE DEF d
<1>9. d >= 0
  <2>1. supply * (-1) < supply * d
    BY <1>6, <1>8
  <2>2. -1 < d
    BY <1>6, <2>1, FactorBelow
  <2> QED
    BY <1>6, <2>2
<1>10. d < n + 3
  <2>1. supply * (n + 3) = m + (n + 3)
    OBVIOUS
  <2>2. supply * d < supply * (n + 3)
    <3> DEFINE w == supply * (n + 3)
    <3>1. w = m + (n + 3) /\ m \in Int
      BY <2>1
    <3> HIDE DEF w, m
    <3>2. z < w
      BY <1>8, <3>1
    <3> QED
      BY <3>2 DEF w
  <2> QED
    BY <1>6, <2>2, FactorBelow
<1>11. d \in 0..(n + 2)
  BY <1>6, <1>9, <1>10
<1> QED
  BY <1>1, <1>11 DEF b, c, u, d

(* What a token is shown to yield is not more than it is paid.             *)
LEMMA PerTokenPaid ==
  ASSUME NEW tokens \in Nat, NEW pool \in Nat, NEW supply \in Nat \ {0}, NEW unit \in Nat \ {0}
  PROVE  perTokenBaseUnits(pool, supply, unit) * tokens
            <= share(tokens, pool, supply) * unit + unit - 1
<1> DEFINE y == share(tokens, pool, supply)
           a == pool * unit
           q == a \div supply
<1>1. y \in Nat /\ tokens * pool <= supply * y + (supply - 1)
  BY ShareBounds
<1>2. a \in Nat
  OBVIOUS
<1> HIDE DEF a
<1>3. q \in Nat /\ supply * q <= a
  BY <1>2
<1> HIDE DEF q, y
<1>4. tokens * (supply * q) <= tokens * a
  BY <1>2, <1>3, ProductGrows
<1>5. unit * (tokens * pool) <= unit * (supply * y + (supply - 1))
  BY <1>1
<1>6. tokens * a = unit * (tokens * pool) /\ tokens * (supply * q) = supply * (q * tokens)
  BY <1>3 DEF a
<1>7. unit * (supply * y + (supply - 1)) = supply * (y * unit + unit) - unit
  BY <1>1
<1>8. supply * (q * tokens) < supply * (y * unit + unit)
  BY <1>1, <1>2, <1>3, <1>4, <1>5, <1>6, <1>7
<1>9. q * tokens < y * unit + unit
  BY <1>1, <1>3, <1>8, FactorBelow
<1> DEFINE v == q * tokens  w == y * unit
<1>10. v \in Int /\ w \in Int
  BY <1>1, <1>3
<1> HIDE DEF v, w
<1>11. v <= w + unit - 1
  BY <1>9, <1>10 DEF v, w
<1> QED
  BY <1>11 DEF v, w, q, a, y, perTokenBaseUnits

(* The three kinds part the holders. *)
Kinds == {"POOL", "PARTICIPANT", "UNREGISTERED"}

LEMMA KindsPart ==
  ASSUME NEW D, IsFiniteSet(D), NEW kind \in [D -> Kinds], NEW t, \A o \in D : t[o] \in Nat
  PROVE  LET held(k) == SumFunctionOnSet(t, OfKind(kind, k)) IN
         /\ \A k \in Kinds : IsFiniteSet(OfKind(kind, k)) /\ OfKind(kind, k) \subseteq D
                             /\ held(k) \in Nat
         /\ SumFunctionOnSet(t, D) = held("PARTICIPANT") + held("POOL") + held("UNREGISTERED")
<1> DEFINE held(k) == SumFunctionOnSet(t, OfKind(kind, k))
           E == D \ OfKind(kind, "PARTICIPANT")
<1>1. ASSUME NEW k \in Kinds
      PROVE  IsFiniteSet(OfKind(kind, k)) /\ OfKind(kind, k) \subseteq D /\ held(k) \in Nat
  <2>1. OfKind(kind, k) \subseteq D
    BY DEF OfKind
  <2>2. IsFiniteSet(OfKind(kind, k))
    BY <2>1, FS_Subset
  <2> QED
    BY <2>1, <2>2, SumIsNat
<1>2. E \ OfKind(kind, "POOL") = OfKind(kind, "UNREGISTERED") /\ OfKind(kind, "POOL") \subseteq E
  BY DEF OfKind, Kinds
<1>3. IsFiniteSet(E) /\ \A o \in D : t[o] \in Int
  BY FS_Subset
<1>4. SumFunctionOnSet(t, D) = held("PARTICIPANT") + SumFunctionOnSet(t, E)
  BY <1>1, <1>3, SumOfParts DEF Kinds
<1>5. SumFunctionOnSet(t, E) = held("POOL") + held("UNREGISTERED")
  <2>1. \A o \in E : t[o] \in Int
    BY <1>3
  <2> HIDE DEF E
  <2> QED
    BY <1>2, <1>3, <2>1, SumOfParts
<1>6. held("PARTICIPANT") \in Nat /\ held("POOL") \in Nat /\ held("UNREGISTERED") \in Nat
  BY <1>1 DEF Kinds
<1> HIDE DEF held, E
<1> QED
  BY <1>1, <1>4, <1>5, <1>6 DEF held

(* allocate splits the pool without remainder.                             *)
LEMMA AllocationSplits ==
  ASSUME NEW D, IsFiniteSet(D), NEW kind \in [D -> Kinds], NEW t \in [D -> Nat],
         NEW supply \in Nat \ {0}, Allocatable(t, supply), NEW pool \in Nat
  PROVE  LET r == allocate(t, kind, supply, pool) IN
         /\ r.unallocated >= 0 /\ r.pool \in Nat /\ r.unregistered \in Nat /\ r.unsold \in Nat
         /\ r.dust \in 0..(Cardinality(DOMAIN r.payouts) + 2)
         /\ r.totalAllocated + r.pool + r.unregistered + r.unsold + r.dust = pool
<1> DEFINE paid == OfKind(kind, "PARTICIPANT")
           payouts == [o \in paid |-> share(t[o], pool, supply)]
           held(k) == SumFunctionOnSet(t, OfKind(kind, k))
           A == held("PARTICIPANT")  B == held("POOL")  C == held("UNREGISTERED")
           U == supply - Held(t, D)
           a == SumFunction(payouts)  n == Cardinality(paid)
           b == share(B, pool, supply)
           c == share(C, pool, supply)
           u == share(U, pool, supply)
           r == allocate(t, kind, supply, pool)
<1>1. \A o \in D : t[o] \in Nat
  OBVIOUS
<1>2. /\ A \in Nat /\ B \in Nat /\ C \in Nat /\ Held(t, D) = A + B + C
      /\ IsFiniteSet(paid) /\ paid \subseteq D
  BY <1>1, KindsPart DEF Kinds, Held
<1>3. U \in Nat /\ A + B + C + U = supply
  <2>1. Held(t, D) <= supply
    BY DEF Allocatable
  <2> HIDE DEF A, B, C
  <2> QED
    BY <1>2, <2>1
<1>4. a \in Nat /\ supply * a <= A * pool /\ A * pool <= supply * a + n * (supply - 1) /\ n \in Nat
  <2>1. DOMAIN payouts = paid /\ \A o \in paid : payouts[o] = share(t[o], pool, supply) /\ t[o] \in Nat
    BY <1>2
  <2>2. n \in Nat
    BY <1>2, FS_CardinalityType
  <2> HIDE DEF payouts, paid
  <2>3. a = SumFunctionOnSet(payouts, paid)
    BY <2>1 DEF SumFunction
  <2>4. A = SumFunctionOnSet(t, paid)
    BY DEF paid
  <2> HIDE DEF a, A
  <2> QED
    BY <1>2, <2>1, <2>2, <2>3, <2>4, SharesOfSum
<1>5. /\ r.payouts = payouts /\ r.totalAllocated = a /\ r.unallocated = pool - a
      /\ r.pool = b /\ r.unregistered = c /\ r.unsold = u /\ r.dust = pool - a - b - c - u
  BY DEF allocate, Held
<1>6. DOMAIN r.payouts = paid
  BY <1>5
<1> HIDE DEF paid, payouts, A, B, C, U, a, n, r
<1>7. b \in Nat /\ c \in Nat /\ u \in Nat /\ pool - a - b - c - u \in 0..(n + 2)
  BY <1>2, <1>3, <1>4, DustBounds
<1> HIDE DEF b, c, u
<1>8. pool - a >= 0 /\ a + b + c + u + (pool - a - b - c - u) = pool
  BY <1>4, <1>7
<1> QED
  BY <1>5, <1>6, <1>7, <1>8 DEF r, n

-----------------------------------------------------------------------------
(* The shares the page lists as retained.                                  *)

LEMMA RetainedSum ==
  ASSUME NEW S
  PROVE  MapThenSumSet(LAMBDA e : e.retainedShare, S) = SumFunctionOnSet([e \in S |-> e.retainedShare], S)
<1> DEFINE f == [e \in S |-> e.retainedShare]
           step(it, s) == IF s = {} THEN 0
                          ELSE (CHOOSE x \in s : TRUE).retainedShare + it[s \ {CHOOSE x \in s : TRUE}]
           it1 == CHOOSE it : it = [s \in SUBSET S |-> step(it, s)]
<1>1. MapThenSumSet(LAMBDA e : e.retainedShare, S) = it1[S]
  BY DEF MapThenSumSet, MapThenFoldSet
<1>2. ASSUME NEW it PROVE it = [s \in SUBSET S |-> step(it, s)] <=> Iterates(it, f, S)
  <2> DEFINE g == [s \in SUBSET S |->
           IF s = {} THEN 0 ELSE f[CHOOSE x \in s : TRUE] + it[s \ {CHOOSE x \in s : TRUE}]]
  <2>1. ASSUME NEW s \in SUBSET S PROVE step(it, s) = g[s]
    <3>1. s # {} => (CHOOSE x \in s : TRUE) \in S
      BY ChosenElement
    <3> QED
      BY <3>1
  <2> HIDE DEF step
  <2>2. [s \in SUBSET S |-> step(it, s)] = [s \in SUBSET S |-> g[s]]
    BY <2>1
  <2>3. [s \in SUBSET S |-> g[s]] = g
    OBVIOUS
  <2> QED
    BY <2>2, <2>3 DEF Iterates
<1> HIDE DEF step
<1>3. it1 = CHOOSE it : Iterates(it, f, S)
  BY <1>2
<1> QED
  BY <1>1, <1>3, SumUnfolds

LEMMA RetainedShares ==
  ASSUME NEW D, IsFiniteSet(D), NEW kind \in [D -> Kinds], NEW t \in [D -> Nat],
         NEW supply \in Nat \ {0}, NEW pool \in Nat
  PROVE  LET r == allocate(t, kind, supply, pool)
             shares == MapThenSumSet(LAMBDA e : e.retainedShare, r.excluded)
         IN  shares \in (r.pool + r.unregistered - Cardinality(r.excluded))..(r.pool + r.unregistered)
<1> DEFINE P == OfKind(kind, "POOL")  N == OfKind(kind, "UNREGISTERED")
           E == D \ OfKind(kind, "PARTICIPANT")
           h == [o \in E |-> share(t[o], pool, supply)]
           rec == [o \in E |-> [owner |-> o, kind |-> kind[o], tokens |-> t[o],
                                retainedShare |-> share(t[o], pool, supply)]]
           X == {rec[o] : o \in E}
           g == [e \in X |-> e.retainedShare]
           b == share(SumFunctionOnSet(t, P), pool, supply)
           c == share(SumFunctionOnSet(t, N), pool, supply)
           r == allocate(t, kind, supply, pool)
<1>1. /\ P \subseteq E /\ E \ P = N /\ N \subseteq E /\ E \subseteq D
      /\ IsFiniteSet(P) /\ IsFiniteSet(N) /\ IsFiniteSet(E)
  <2>1. P \subseteq E /\ E \ P = N /\ N \subseteq E /\ E \subseteq D
    BY DEF OfKind, Kinds
  <2> HIDE DEF P, N, E
  <2> QED
    BY <2>1, FS_Subset
<1>2. /\ r.pool = b /\ r.unregistered = c
      /\ r.excluded = {[owner |-> o, kind |-> kind[o], tokens |-> t[o],
                        retainedShare |-> share(t[o], pool, supply)] : o \in E}
  BY DEF allocate, Held
<1>3. r.excluded = X
  BY <1>2
<1>4. /\ \A x, y \in E : rec[x] = rec[y] => x = y
      /\ \A x \in E : rec[x].retainedShare = h[x] /\ h[x] = share(t[x], pool, supply) /\ t[x] \in Nat
  BY <1>1
<1>5. \A x \in E : h[x] \in Int
  BY <1>4, ShareBounds
<1> HIDE DEF P, N, E, h, rec, b, c, r
<1>6. \A x \in E : g[rec[x]] = h[x]
  BY <1>4
<1>7. Cardinality(X) = Cardinality(E)
  <2> DEFINE f == [o \in E |-> rec[o]]
  <2>1. f \in Surjection(E, X) /\ f \in Injection(E, X)
    BY <1>4 DEF Surjection, Injection, IsInjective
  <2> HIDE DEF f, X
  <2> QED
    BY <1>1, <2>1, FS_Surjection
<1>8. MapThenSumSet(LAMBDA e : e.retainedShare, X) = SumFunctionOnSet(g, X)
  BY RetainedSum
<1>9. SumFunctionOnSet(g, X) = SumFunctionOnSet(h, E)
  <2> HIDE DEF g
  <2> QED
    BY <1>1, <1>4, <1>5, <1>6, SumOfImages
<1>10. SumFunctionOnSet(h, E) = SumFunctionOnSet(h, P) + SumFunctionOnSet(h, N)
  BY <1>1, <1>5, SumOfParts
<1>11. LET paid == SumFunctionOnSet(h, P) IN
       paid \in Nat /\ b \in Nat /\ paid <= b /\ b <= paid + Cardinality(P)
  BY <1>1, <1>4, SharesNearShare DEF b
<1>12. LET paid == SumFunctionOnSet(h, N) IN
       paid \in Nat /\ c \in Nat /\ paid <= c /\ c <= paid + Cardinality(N)
  BY <1>1, <1>4, SharesNearShare DEF c
<1>13. Cardinality(E) = Cardinality(P) + Cardinality(N) /\ Cardinality(P) \in Nat /\ Cardinality(N) \in Nat
  <2>1. P \cap N = {} /\ P \cup N = E
    BY <1>1
  <2>2. Cardinality(P \cup N) = Cardinality(P) + Cardinality(N) - Cardinality(P \cap N)
    BY <1>1, FS_Union
  <2>3. Cardinality({}) = 0
    BY FS_EmptySet
  <2>4. Cardinality(P) \in Nat /\ Cardinality(N) \in Nat
    BY <1>1, FS_CardinalityType
  <2>5. Cardinality(E) = Cardinality(P) + Cardinality(N) - 0
    BY <2>1, <2>2, <2>3
  <2> DEFINE x == Cardinality(P)  y == Cardinality(N)  z == Cardinality(E)
  <2>6. x \in Nat /\ y \in Nat /\ z = x + y - 0
    BY <2>4, <2>5
  <2> HIDE DEF x, y, z
  <2>7. z = x + y
    BY <2>6
  <2> QED
    BY <2>4, <2>7 DEF x, y, z
<1> DEFINE sp == SumFunctionOnSet(h, P)  sn == SumFunctionOnSet(h, N)
           np == Cardinality(P)  nn == Cardinality(N)
<1>14. /\ sp \in Nat /\ sn \in Nat /\ np \in Nat /\ nn \in Nat /\ b \in Nat /\ c \in Nat
       /\ sp <= b /\ b <= sp + np /\ sn <= c /\ c <= sn + nn
  BY <1>11, <1>12, <1>13
<1>15. /\ MapThenSumSet(LAMBDA e : e.retainedShare, X) = sp + sn /\ Cardinality(X) = np + nn
  BY <1>7, <1>8, <1>9, <1>10, <1>13
<1> HIDE DEF sp, sn, np, nn, X
<1>16. sp + sn \in (b + c - (np + nn))..(b + c)
  BY <1>14
<1>17. /\ MapThenSumSet(LAMBDA e : e.retainedShare, r.excluded) = sp + sn
       /\ Cardinality(r.excluded) = np + nn
  BY <1>3, <1>15
<1> QED
  BY <1>2, <1>16, <1>17 DEF r

(* The snapshot of a market: finitely many owners with tokens, not more    *)
(* than the supply, each of one kind, the pool authority alone of its.     *)
LEMMA SnapshotParts ==
  ASSUME MarketInv, NEW p \in Pool
  PROVE  LET tokens == Snapshot(p)  kinds == KindsOf(p, tokens)  D == Holders(p) IN
         /\ IsFiniteSet(D) /\ DOMAIN tokens = D /\ tokens \in [D -> Nat \ {0}]
         /\ kinds \in [D -> Kinds] /\ \A o \in D : kinds[o] = "POOL" <=> o = AUTHORITY
<1> DEFINE tokens == Snapshot(p)  kinds == KindsOf(p, tokens)  D == Holders(p)
<1>1. IsFiniteSet(D)
  BY OwnersFinite, FS_Subset DEF Holders
<1>2. tokens = [o \in D |-> balances[p][o]]
  BY SnapshotIs
<1>3. \A o \in D : balances[p][o] \in Nat \ {0}
  BY DEF MarketInv, MarketTyped, Holders
<1>4. DOMAIN tokens = D /\ tokens \in [D -> Nat \ {0}]
  BY <1>2, <1>3
<1> HIDE DEF tokens, D
<1>5. kinds = [o \in D |-> IF o \in {AUTHORITY} THEN "POOL"
                           ELSE IF o \in Accepted \cap allow[p] THEN "PARTICIPANT" ELSE "UNREGISTERED"]
  BY <1>4 DEF KindsOf, classifyHolders
<1>6. kinds \in [D -> Kinds] /\ \A o \in D : kinds[o] = "POOL" <=> o = AUTHORITY
  BY <1>5 DEF Kinds
<1> QED
  BY <1>1, <1>4, <1>6 DEF tokens, D

LEMMA RightsPoolsTyped ==
  ASSUME FakeTypeOK, NEW p \in Pool, created(p)
  PROVE  RightsPools(p) \subseteq Nat
<1> DEFINE bps == pools[p].input.terms.poolPercentageBps
<1>1. bps \in Nat
  BY CreatedFacts, LaunchableTerms, GoodNumbers
<1> HIDE DEF bps
<1>2. \A d \in Nat : computeRightsPool(d, bps) \in Nat
  <2> SUFFICES ASSUME NEW d \in Nat PROVE computeRightsPool(d, bps) \in Nat
    OBVIOUS
  <2>1. d * bps \in Nat
    BY <1>1, ProductType
  <2> QED
    BY <2>1 DEF computeRightsPool, BPS_DENOMINATOR
<1> QED
  BY <1>2 DEF RightsPools, bps

(* What the pages show of who is paid nothing.                             *)
LEMMA PagesAgree ==
  ASSUME NEW D, IsFiniteSet(D), NEW tokens \in [D -> Nat], NEW kinds \in [D -> Kinds],
         \A o \in D : kinds[o] = "POOL" <=> o = AUTHORITY, NEW supply, NEW pool
  PROVE  LET flagged == OfKind(kinds, "UNREGISTERED")
             r == allocate(tokens, kinds, supply, pool)
             page == snapshotDetail(encodeSnapshot(tokens, kinds, r), r.unallocated)
         IN  /\ D \ (DOMAIN r.payouts \cup {AUTHORITY}) = flagged
             /\ page.warned <=> flagged # {}
             /\ page.excluded = r.excluded
<1> DEFINE flagged == OfKind(kinds, "UNREGISTERED")
           r == allocate(tokens, kinds, supply, pool)
           page == snapshotDetail(encodeSnapshot(tokens, kinds, r), r.unallocated)
<1>1. DOMAIN r.payouts = OfKind(kinds, "PARTICIPANT")
  BY DEF allocate
<1>2. D \ (OfKind(kinds, "PARTICIPANT") \cup {AUTHORITY}) = flagged
  BY DEF OfKind, Kinds
<1>3. page.warned <=> Cardinality(flagged) > 0
  BY DEF snapshotDetail, encodeSnapshot, OfKind
<1>4. page.excluded = r.excluded
  BY DEF snapshotDetail, encodeSnapshot
<1>5. Cardinality(flagged) > 0 <=> flagged # {}
  <2>1. flagged \subseteq D
    BY DEF OfKind
  <2>2. IsFiniteSet(flagged)
    BY <2>1, FS_Subset
  <2> HIDE DEF flagged
  <2>3. Cardinality(flagged) \in Nat /\ (Cardinality(flagged) = 0 <=> flagged = {})
    BY <2>2, FS_CardinalityType, FS_EmptySet
  <2> QED
    BY <2>3
<1> QED
  BY <1>1, <1>2, <1>3, <1>4, <1>5

LEMMA FlagShown ==
  ASSUME NEW p, NEW o \in DOMAIN Snapshot(p)
  PROVE  getHoldersView(p)[o].flagged = (KindsOf(p, Snapshot(p))[o] = "UNREGISTERED")
BY Zenon DEF getHoldersView

(* The conjuncts of SplitsExactly about one market and one rights pool.    *)
MarketSplits(p, pool) ==
    LET tokens == Snapshot(p)
        kinds == KindsOf(p, tokens)
        flagged == {o \in DOMAIN tokens : getHoldersView(p)[o].flagged}
        r == allocate(tokens, kinds, Supply(p), pool)
        page == snapshotDetail(encodeSnapshot(tokens, kinds, r), r.unallocated)
        shares == MapThenSumSet(LAMBDA e : e.retainedShare, page.excluded)
    IN
    /\ r.unallocated >= 0 /\ r.pool >= 0 /\ r.unregistered >= 0 /\ r.unsold >= 0
    /\ \A o \in DOMAIN r.payouts :
          perTokenBaseUnits(pool, Supply(p), Unit) * tokens[o] <= r.payouts[o] * Unit + Unit - 1
    /\ r.dust \in 0..(Cardinality(DOMAIN r.payouts) + 2)
    /\ r.totalAllocated + r.pool + r.unregistered + r.unsold + r.dust = pool
    /\ DOMAIN tokens \ (DOMAIN r.payouts \cup {AUTHORITY}) = flagged
    /\ page.warned <=> flagged # {}
    /\ shares \in (r.pool + r.unregistered - Cardinality(page.excluded))
                     ..(r.pool + r.unregistered)

LEMMA MarketSplitsExactly ==
  ASSUME MarketInv, FakeTypeOK, NEW p \in Pool, created(p), NEW pool \in Nat,
         Allocatable(Snapshot(p), Supply(p))
  PROVE  MarketSplits(p, pool)
<1> DEFINE tokens == Snapshot(p)
           kinds == KindsOf(p, tokens)
           D == Holders(p)
           flagged == {o \in DOMAIN tokens : getHoldersView(p)[o].flagged}
           r == allocate(tokens, kinds, Supply(p), pool)
           page == snapshotDetail(encodeSnapshot(tokens, kinds, r), r.unallocated)
           shares == MapThenSumSet(LAMBDA e : e.retainedShare, page.excluded)
<1>1. /\ IsFiniteSet(D) /\ DOMAIN tokens = D /\ tokens \in [D -> Nat \ {0}]
      /\ kinds \in [D -> Kinds] /\ \A o \in D : kinds[o] = "POOL" <=> o = AUTHORITY
  BY SnapshotParts
<1>2. Supply(p) \in Nat \ {0} /\ Unit \in Nat \ {0}
  BY CreatedFacts, FakeAssumption
<1>3. flagged = OfKind(kinds, "UNREGISTERED")
  <2>1. \A o \in DOMAIN tokens : getHoldersView(p)[o].flagged = (kinds[o] = "UNREGISTERED")
    BY FlagShown
  <2> HIDE DEF tokens, kinds, D
  <2>2. flagged = {o \in D : kinds[o] = "UNREGISTERED"}
    BY <1>1, <2>1, Zenon
  <2> QED
    BY <1>1, <2>2 DEF OfKind
<1>4. tokens \in [D -> Nat] /\ Allocatable(tokens, Supply(p))
  BY <1>1
<1> HIDE DEF tokens, kinds, D, flagged, r
<1>5. /\ r.unallocated >= 0 /\ r.pool \in Nat /\ r.unregistered \in Nat /\ r.unsold \in Nat
      /\ r.dust \in 0..(Cardinality(DOMAIN r.payouts) + 2)
      /\ r.totalAllocated + r.pool + r.unregistered + r.unsold + r.dust = pool
  BY <1>1, <1>2, <1>4, AllocationSplits DEF r
<1>6. ASSUME NEW o \in DOMAIN r.payouts
      PROVE  perTokenBaseUnits(pool, Supply(p), Unit) * tokens[o] <= r.payouts[o] * Unit + Unit - 1
  <2>1. o \in D /\ r.payouts[o] = share(tokens[o], pool, Supply(p))
    BY <1>1, <1>6 DEF r, allocate, OfKind
  <2>2. tokens[o] \in Nat
    BY <1>4, <2>1
  <2> QED
    BY <1>2, <2>1, <2>2, PerTokenPaid
<1>7. /\ D \ (DOMAIN r.payouts \cup {AUTHORITY}) = flagged
      /\ page.warned <=> flagged # {}
      /\ page.excluded = r.excluded
  BY <1>1, <1>3, <1>4, PagesAgree DEF r
<1>8. MapThenSumSet(LAMBDA e : e.retainedShare, r.excluded)
         \in (r.pool + r.unregistered - Cardinality(r.excluded))..(r.pool + r.unregistered)
  BY <1>1, <1>2, <1>4, RetainedShares DEF r
<1>9. shares \in (r.pool + r.unregistered - Cardinality(page.excluded))..(r.pool + r.unregistered)
  BY <1>7, <1>8
<1>10. r.pool >= 0 /\ r.unregistered >= 0 /\ r.unsold >= 0
  BY <1>5
<1> HIDE DEF page, shares
<1> QED
  BY <1>1, <1>5, <1>6, <1>7, <1>9, <1>10 DEF MarketSplits, r, tokens, kinds, flagged, page, shares

(* Of any rights pool, not only of those the runs check. *)
AnyPoolSplits ==
    \A p \in Pool : created(p) /\ Allocatable(Snapshot(p), Supply(p)) =>
        \A pool \in Nat : MarketSplits(p, pool)

(* Every rights pool there can be, of every market that FakeChain reaches  *)
(* and allocate accepts, is split without remainder.                       *)
THEOREM EveryPoolSplits == FakeSpec => []AnyPoolSplits
<1>1. LedgersInv => AnyPoolSplits
  <2> SUFFICES ASSUME LedgersInv PROVE AnyPoolSplits
    OBVIOUS
  <2>1. MarketInv /\ FakeTypeOK
    BY LedgersParts DEF LedgersInv
  <2> QED
    BY <2>1, MarketSplitsExactly DEF AnyPoolSplits
<1> QED
  BY <1>1, LedgersInductive, PTL

(* Every rights pool is split without remainder, whatever was traded and   *)
(* however many hold tokens: what each is paid, what is retained and what  *)
(* rounding leaves over add up to it, none of it negative; and the pages   *)
(* show that split (SplitsExactly, of allocate and projectEconomics).      *)
THEOREM SplitWithoutRemainder == FakeSpec => []SplitsExactly
<1>1. LedgersInv => SplitsExactly
  <2> SUFFICES ASSUME LedgersInv PROVE SplitsExactly
    OBVIOUS
  <2>1. MarketInv /\ FakeTypeOK
    BY LedgersParts DEF LedgersInv
  <2>2. ASSUME NEW p \in Pool, created(p), Allocatable(Snapshot(p), Supply(p)),
               NEW pool \in RightsPools(p)
        PROVE  MarketSplits(p, pool)
    <3>1. pool \in Nat
      BY <2>1, <2>2, RightsPoolsTyped
    <3> QED
      BY <2>1, <2>2, <3>1, MarketSplitsExactly
  <2>3. GraduationSplit
    BY SplitOfProceeds
  <2> QED
    BY <2>2, <2>3 DEF SplitsExactly, MarketSplits
<1> QED
  BY <1>1, LedgersInductive, PTL

-----------------------------------------------------------------------------
(* The listings of the devnet adapter.                                     *)

LEMMA SumBelow ==
  ASSUME NEW T, IsFiniteSet(T), NEW S \in SUBSET T, NEW f, NEW g,
         \A s \in S : f[s] \in Nat /\ f[s] <= g[s], \A s \in T : g[s] \in Nat
  PROVE  SumFunctionOnSet(f, S) <= SumFunctionOnSet(g, T)
<1> DEFINE Sf(U) == SumFunctionOnSet(f, U)
           Sg(U) == SumFunctionOnSet(g, U)
           F == {U \in SUBSET S : ~(Sf(U) <= Sg(U))}
<1>0. IsFiniteSet(S) /\ IsFiniteSet(T \ S)
  BY FS_Subset
<1>1. F = {}
  <2> SUFFICES ASSUME F # {} PROVE FALSE
    OBVIOUS
  <2>1. PICK U \in F : \A V \in SUBSET U : V \in F => V = U
    <3>1. F \subseteq SUBSET S
      OBVIOUS
    <3> HIDE DEF F
    <3> QED
      BY <1>0, <3>1, MinimalSubset
  <2>2. U \in SUBSET S /\ ~(Sf(U) <= Sg(U))
    OBVIOUS
  <2>3. PICK x \in U : TRUE
    <3> SUFFICES ASSUME U = {} PROVE FALSE
      OBVIOUS
    <3>1. Sf({}) = 0 /\ Sg({}) = 0
      BY SumOfNone
    <3> QED
      BY <2>2, <3>1
  <2> DEFINE R == U \ {x}
  <2>4. R \in SUBSET U /\ R # U /\ R \in SUBSET S
    BY <2>2
  <2>5. Sf(R) <= Sg(R)
    BY <2>1, <2>4
  <2>6. IsFiniteSet(U) /\ IsFiniteSet(R)
    BY <1>0, <2>2, <2>4, FS_Subset
  <2>7. \A s \in U : f[s] \in Int /\ g[s] \in Int
    BY <2>2
  <2>8. Sf(U) = f[x] + Sf(R) /\ Sg(U) = g[x] + Sg(R)
    BY <2>6, <2>7, SumWithout
  <2>9. Sf(R) \in Int /\ Sg(R) \in Int
    BY <2>4, <2>6, <2>7, SumIsInt
  <2>10. f[x] \in Int /\ g[x] \in Int /\ f[x] <= g[x]
    BY <2>2, <2>7
  <2> HIDE DEF R, F, Sf, Sg
  <2> QED
    BY <2>2, <2>5, <2>8, <2>9, <2>10
<1>2. Sf(S) <= Sg(S)
  <2>1. S \in SUBSET S
    OBVIOUS
  <2> HIDE DEF Sf, Sg
  <2> QED
    BY <1>1, <2>1
<1>3. Sg(T) = Sg(S) + Sg(T \ S)
  BY SumOfParts
<1>4. Sg(T \ S) \in Nat /\ Sg(S) \in Nat /\ Sf(S) \in Nat
  BY <1>0, SumIsNat
<1> HIDE DEF Sf, Sg
<1>5. Sf(S) <= Sg(T)
  BY <1>2, <1>3, <1>4
<1> QED
  BY <1>5 DEF Sf, Sg

LEMMA AccountsAdd ==
  ASSUME NEW x, NEW y, x # y, x.amount \in Int, y.amount \in Int
  PROVE  /\ MapThenSumSet(LAMBDA a : a.amount, {x}) = x.amount
         /\ MapThenSumSet(LAMBDA a : a.amount, {x, y}) = x.amount + y.amount
<1>1. ASSUME NEW z, z.amount \in Int, NEW f, f[z] = z.amount
      PROVE  SumFunctionOnSet(f, {z}) = z.amount
  <2>1. IsFiniteSet({z}) /\ z \in {z} /\ f[z] \in Int /\ \A s \in {z} \ {z} : f[s] = 0
    BY <1>1, FS_Singleton
  <2> QED
    BY <1>1, <2>1, OnlyTerm
<1> DEFINE f == [a \in {x} |-> a.amount]
           g == [a \in {x, y} |-> a.amount]
<1>2. f[x] = x.amount /\ g[x] = x.amount /\ g[y] = y.amount
  OBVIOUS
<1>3. MapThenSumSet(LAMBDA a : a.amount, {x}) = SumFunctionOnSet(f, {x})
  BY AmountSum
<1>4. MapThenSumSet(LAMBDA a : a.amount, {x, y}) = SumFunctionOnSet(g, {x, y})
  BY AmountSum
<1> HIDE DEF f, g
<1>5. SumFunctionOnSet(g, {x, y}) = g[x] + SumFunctionOnSet(g, {y})
  <2>1. IsFiniteSet({x, y}) /\ {x, y} \ {x} = {y}
    <3>1. {x, y} = {y} \cup {x} /\ {x, y} \ {x} = {y}
      OBVIOUS
    <3>2. IsFiniteSet({y})
      BY FS_Singleton
    <3> QED
      BY <3>1, <3>2, FS_AddElement
  <2>2. \A s \in {x, y} : g[s] \in Int
    BY <1>2
  <2> QED
    BY <2>1, <2>2, SumWithout
<1> QED
  BY <1>1, <1>2, <1>3, <1>4, <1>5

(* What comes of listing some token accounts of a market.                  *)
Merged(S) == mergeHolders({a \in S : a.amount > 0})

LEMMA ListedIs ==
  ASSUME MarketInv, NEW p \in Pool, NEW S \in SUBSET TokenAccounts(p)
  PROVE  /\ DOMAIN Merged(S) \subseteq Holders(p)
         /\ \A o \in DOMAIN Merged(S) : Merged(S)[o] \in 1..balances[p][o]
         /\ \A o \in Holders(p) :
               {a \in TokenAccounts(p) : a.owner = o} \subseteq S =>
                  o \in DOMAIN Merged(S) /\ Merged(S)[o] = balances[p][o]
<1> DEFINE A == TokenAccounts(p)
           H == Holders(p)
           b(o) == balances[p][o]
           P == {a \in S : a.amount > 0}
           L == Merged(S)
           own(o) == {a \in P : a.owner = o}
           apart(o) == IF o \in Elsewhere THEN 1 ELSE 0
           x(o) == [owner |-> o, account |-> IF o = AUTHORITY THEN "vault" ELSE "associated",
                    amount |-> b(o) - apart(o)]
           y(o) == [owner |-> o, account |-> "other", amount |-> 1]
<1>1. A = {x(o) : o \in H} \cup {y(o) : o \in H \cap Elsewhere}
  <2>1. {a.owner : a \in getBalances(p)} = H
    <3> DEFINE acc(o) == [owner |-> o, account |-> o, amount |-> balances[p][o]]
    <3>1. getBalances(p) = {acc(o) : o \in H}
      BY DEF getBalances, Holders
    <3>2. \A o \in H : acc(o).owner = o
      OBVIOUS
    <3> HIDE DEF acc, H
    <3> QED
      BY <3>1, <3>2
  <2> QED
    BY <2>1 DEF TokenAccounts
<1>2. ASSUME NEW o \in H
      PROVE  /\ b(o) \in Nat \ {0} /\ x(o).owner = o /\ y(o).owner = o /\ x(o) # y(o)
             /\ x(o).amount = b(o) - apart(o) /\ y(o).amount = 1
             /\ apart(o) \in {0, 1} /\ (apart(o) = 1 <=> o \in Elsewhere)
  <2>1. b(o) \in Nat \ {0}
    BY DEF MarketInv, MarketTyped, Holders
  <2>2. x(o).account # y(o).account
    OBVIOUS
  <2> QED
    BY <2>1, <2>2
<1>3. /\ DOMAIN L = OwnersOf(P)
      /\ \A o \in OwnersOf(P) : L[o] = MapThenSumSet(LAMBDA a : a.amount, own(o))
  BY DEF Merged, mergeHolders, OwnersOf
<1> HIDE DEF x, y, A, L, b
<1>4. ASSUME NEW o \in H
      PROVE  {a \in A : a.owner = o} = {x(o)} \cup (IF o \in Elsewhere THEN {y(o)} ELSE {})
  BY <1>1, <1>2
<1>5. ASSUME NEW o \in OwnersOf(P) PROVE o \in H /\ own(o) # {}
  <2>1. PICK a \in P : a.owner = o
    BY DEF OwnersOf
  <2>2. a \in A
    BY DEF A
  <2> QED
    BY <1>1, <1>2, <2>1, <2>2
<1>6. ASSUME NEW o \in H
      PROVE  own(o) = {a \in S \cap ({x(o)} \cup (IF o \in Elsewhere THEN {y(o)} ELSE {})) : a.amount > 0}
  <2>1. own(o) = {a \in S \cap {a \in A : a.owner = o} : a.amount > 0}
    BY DEF A
  <2> QED
    BY <1>4, <2>1
<1> HIDE DEF own, P
<1>7. ASSUME NEW o \in H
      PROVE  LET m(T) == MapThenSumSet(LAMBDA a : a.amount, T) IN
             /\ m({x(o)}) = b(o) - apart(o) /\ m({y(o)}) = 1
             /\ m({x(o), y(o)}) = b(o) - apart(o) + 1
  <2>1. x(o) # y(o) /\ x(o).amount \in Int /\ y(o).amount \in Int
    BY <1>2
  <2>2. /\ MapThenSumSet(LAMBDA a : a.amount, {x(o)}) = x(o).amount
        /\ MapThenSumSet(LAMBDA a : a.amount, {y(o)}) = y(o).amount
        /\ MapThenSumSet(LAMBDA a : a.amount, {x(o), y(o)}) = x(o).amount + y(o).amount
    BY <2>1, AccountsAdd
  <2> QED
    BY <1>2, <2>2
<1>8. ASSUME NEW o \in OwnersOf(P) PROVE L[o] \in 1..b(o)
  <2>1. o \in H /\ own(o) # {}
    BY <1>5
  <2>2. /\ b(o) \in Nat \ {0} /\ apart(o) \in {0, 1} /\ (apart(o) = 1 <=> o \in Elsewhere)
        /\ x(o).amount = b(o) - apart(o) /\ y(o).amount = 1
    BY <1>2, <2>1
  <2>3. \/ own(o) = {x(o)} /\ b(o) - apart(o) > 0
        \/ own(o) = {y(o)}
        \/ own(o) = {x(o), y(o)} /\ apart(o) = 1
    BY <1>6, <2>1, <2>2
  <2>4. L[o] = MapThenSumSet(LAMBDA a : a.amount, own(o))
    BY <1>3
  <2>5. L[o] \in {b(o) - apart(o), 1, b(o) - apart(o) + 1}
        /\ (own(o) = {x(o)} => L[o] = b(o) - apart(o))
        /\ (own(o) = {y(o)} => L[o] = 1)
        /\ (own(o) = {x(o), y(o)} => L[o] = b(o) - apart(o) + 1)
    BY <1>7, <2>1, <2>3, <2>4
  <2> HIDE DEF apart
  <2> QED
    BY <2>2, <2>3, <2>5
<1>9. ASSUME NEW o \in H, {a \in A : a.owner = o} \subseteq S
      PROVE  o \in DOMAIN L /\ L[o] = b(o)
  <2>1. /\ b(o) \in Nat \ {0} /\ apart(o) \in {0, 1} /\ (apart(o) = 1 <=> o \in Elsewhere)
        /\ x(o).amount = b(o) - apart(o) /\ y(o).amount = 1
    BY <1>2
  <2>2. \/ apart(o) = 0 /\ own(o) = {x(o)}
        \/ apart(o) = 1 /\ b(o) = 1 /\ own(o) = {y(o)}
        \/ apart(o) = 1 /\ own(o) = {x(o), y(o)}
    <3>1. {x(o)} \cup (IF o \in Elsewhere THEN {y(o)} ELSE {}) \subseteq S
      BY <1>4, <1>9
    <3>2. CASE o \notin Elsewhere
      BY <1>6, <2>1, <3>1, <3>2
    <3>3. CASE o \in Elsewhere
      BY <1>6, <2>1, <3>1, <3>3
    <3> QED
      BY <3>2, <3>3
  <2>3. o \in OwnersOf(P)
    <3>1. PICK a \in own(o) : TRUE
      BY <2>2
    <3> QED
      BY <3>1 DEF own, OwnersOf
  <2>4. L[o] = MapThenSumSet(LAMBDA a : a.amount, own(o))
    BY <1>3, <2>3
  <2> DEFINE m(T) == MapThenSumSet(LAMBDA a : a.amount, T)
  <2>5. L[o] = b(o)
    <3>1. m({x(o)}) = b(o) - apart(o) /\ m({y(o)}) = 1 /\ m({x(o), y(o)}) = b(o) - apart(o) + 1
      BY <1>7
    <3>2. L[o] = m(own(o))
      BY <2>4
    <3> HIDE DEF m, apart, H
    <3>3. CASE apart(o) = 0 /\ own(o) = {x(o)}
      BY <2>1, <3>1, <3>2, <3>3
    <3>4. CASE apart(o) = 1 /\ b(o) = 1 /\ own(o) = {y(o)}
      BY <3>1, <3>2, <3>4
    <3>5. CASE apart(o) = 1 /\ own(o) = {x(o), y(o)}
      BY <2>1, <3>1, <3>2, <3>5
    <3> QED
      BY <2>2, <3>3, <3>4, <3>5
  <2> QED
    BY <1>3, <2>3, <2>5
<1>10. DOMAIN L \subseteq H /\ \A o \in DOMAIN L : L[o] \in 1..b(o)
  BY <1>3, <1>5, <1>8
<1> QED
  BY <1>9, <1>10 DEF L, A, b

LEMMA Associated ==
  ASSUME NEW p, NEW a \in TokenAccounts(p), a.owner \notin Elsewhere \cup {AUTHORITY}
  PROVE  a.account = "associated"
<1> DEFINE holders == {c.owner : c \in getBalances(p)}
           apart(o) == IF o \in Elsewhere THEN 1 ELSE 0
           x(o) == [owner |-> o, account |-> IF o = AUTHORITY THEN "vault" ELSE "associated",
                    amount |-> balances[p][o] - apart(o)]
           y(o) == [owner |-> o, account |-> "other", amount |-> 1]
<1>1. TokenAccounts(p) = {x(o) : o \in holders} \cup {y(o) : o \in holders \cap Elsewhere}
  BY DEF TokenAccounts
<1>2. \A o : /\ x(o).owner = o /\ y(o).owner = o
             /\ o # AUTHORITY => x(o).account = "associated"
  OBVIOUS
<1> HIDE DEF holders, x, y
<1> QED
  BY <1>1, <1>2

LEMMA MergedFunction ==
  ASSUME NEW S, NEW T, DOMAIN Merged(S) = DOMAIN T, T = [o \in DOMAIN T |-> T[o]],
         \A o \in DOMAIN T : Merged(S)[o] = T[o]
  PROVE  Merged(S) = T
<1> DEFINE P == {a \in S : a.amount > 0}
           sum(o) == MapThenSumSet(LAMBDA a : a.amount, {a \in P : a.owner = o})
<1>1. Merged(S) = [o \in OwnersOf(P) |-> sum(o)]
  BY DEF Merged, mergeHolders, OwnersOf
<1> HIDE DEF sum, P
<1> QED
  BY <1>1

(* What a listing shows, whichever lookups fail.                           *)
LEMMA ListingBelow ==
  ASSUME MarketInv, NEW p \in Pool, NEW entries, NEW failing \in SUBSET Lookups,
         NEW listed \in listHolders(p, entries, failing)
  PROVE  /\ DOMAIN listed \subseteq Holders(p)
         /\ \A o \in DOMAIN listed : listed[o] \in 1..balances[p][o]
         /\ "getProgramAccounts" \notin failing => listed = Snapshot(p)
         /\ "allowlist" \notin failing =>
               \A o \in (Holders(p) \cap entries) \ (Elsewhere \cup {AUTHORITY}) :
                  o \in DOMAIN listed /\ listed[o] = balances[p][o]
<1> DEFINE A == TokenAccounts(p)
           byAllowlist == holdersByAllowlist(A, entries, failing)
           largest == holdersByLargestAccounts(A)
           listings == IF "getProgramAccounts" \notin failing THEN {A}
                       ELSE IF "allowlist" \notin failing THEN {byAllowlist} ELSE largest
<1>1. listHolders(p, entries, failing) = {Merged(S) : S \in listings}
  BY DEF listHolders, Merged
<1>2. PICK S \in listings : listed = Merged(S)
  <2> HIDE DEF listings
  <2> QED
    BY <1>1
<1>3. S \in SUBSET A
  <2>1. byAllowlist \in SUBSET A
    BY DEF holdersByAllowlist
  <2>2. largest \subseteq SUBSET A
    BY DEF holdersByLargestAccounts
  <2> HIDE DEF A, byAllowlist, largest
  <2> QED
    BY <2>1, <2>2
<1>4. /\ DOMAIN listed \subseteq Holders(p)
      /\ \A o \in DOMAIN listed : listed[o] \in 1..balances[p][o]
      /\ \A o \in Holders(p) :
            {a \in A : a.owner = o} \subseteq S => o \in DOMAIN listed /\ listed[o] = balances[p][o]
  BY <1>2, <1>3, ListedIs
<1>5. Snapshot(p) = [o \in Holders(p) |-> balances[p][o]]
  BY SnapshotIs
<1>6. ASSUME S = A PROVE listed = Snapshot(p)
  <2>1. \A o \in Holders(p) : o \in DOMAIN listed /\ listed[o] = balances[p][o]
    BY <1>4, <1>6
  <2>2. DOMAIN listed = DOMAIN Snapshot(p) /\ DOMAIN Snapshot(p) = Holders(p)
    BY <1>4, <1>5, <2>1
  <2>3. \A o \in DOMAIN Snapshot(p) : listed[o] = Snapshot(p)[o]
    BY <1>5, <2>1
  <2> QED
    BY <1>2, <1>5, <2>2, <2>3, MergedFunction
<1>7. "getProgramAccounts" \notin failing => S = A
  OBVIOUS
<1>8. ASSUME "allowlist" \notin failing,
             NEW o \in (Holders(p) \cap entries) \ (Elsewhere \cup {AUTHORITY})
      PROVE  {a \in A : a.owner = o} \subseteq S
  <2>1. \A a \in A : a.owner = o => a.account = "associated" /\ a.owner \in entries
    BY Associated
  <2>2. S = A \/ S = byAllowlist
    BY <1>8
  <2> QED
    BY <2>1, <2>2 DEF holdersByAllowlist
<1> HIDE DEF A, listings
<1>9. ASSUME "allowlist" \notin failing,
             NEW o \in (Holders(p) \cap entries) \ (Elsewhere \cup {AUTHORITY})
      PROVE  o \in DOMAIN listed /\ listed[o] = balances[p][o]
  BY <1>4, <1>8, <1>9
<1> QED
  BY <1>4, <1>6, <1>7, <1>9

(* Who is listed with less, or not at all, gets less, and nobody more.     *)
LEMMA PaidNoMore ==
  ASSUME NEW D, IsFiniteSet(D), NEW t, DOMAIN t = D, \A o \in D : t[o] \in Nat,
         NEW l, DOMAIN l \subseteq D, \A o \in DOMAIN l : l[o] \in Nat /\ l[o] <= t[o],
         NEW entries, NEW supply \in Nat \ {0}, NEW pool \in Nat
  PROVE  LET result(tokens) ==
                 allocate(tokens, classifyHolders(DOMAIN tokens, {AUTHORITY}, Accepted, entries),
                          supply, pool)
             r == result(l)  all == result(t)
         IN  /\ \A o \in DOMAIN r.payouts : r.payouts[o] <= all.payouts[o]
             /\ r.unallocated >= all.unallocated
<1> DEFINE kind(S) == classifyHolders(S, {AUTHORITY}, Accepted, entries)
           paid(S) == {o \in S : o # AUTHORITY /\ o \in Accepted \cap entries}
           pays(f) == [o \in paid(DOMAIN f) |-> share(f[o], pool, supply)]
           r == allocate(l, kind(DOMAIN l), supply, pool)
           all == allocate(t, kind(DOMAIN t), supply, pool)
<1>1. ASSUME NEW f
      PROVE  LET x == allocate(f, kind(DOMAIN f), supply, pool) IN
             /\ x.payouts = pays(f) /\ x.unallocated = pool - SumFunction(pays(f))
  <2>1. OfKind(kind(DOMAIN f), "PARTICIPANT") = paid(DOMAIN f)
    BY DEF OfKind, classifyHolders
  <2> HIDE DEF kind, paid
  <2> QED
    BY <2>1 DEF allocate
<1>2. ASSUME NEW o \in paid(DOMAIN l)
      PROVE  /\ o \in paid(DOMAIN t) /\ pays(l)[o] <= pays(t)[o]
             /\ pays(l)[o] \in Nat /\ pays(t)[o] \in Nat
  <2>1. o \in DOMAIN l /\ o \in paid(DOMAIN t) /\ l[o] \in Nat /\ t[o] \in Nat /\ l[o] <= t[o]
    OBVIOUS
  <2> DEFINE x == l[o] * pool  y == t[o] * pool
  <2>2. x \in Nat /\ y \in Nat /\ x <= y
    <3>1. pool * l[o] <= pool * t[o]
      BY <2>1, ProductGrows
    <3> QED
      BY <2>1, <3>1, ProductType
  <2>3. pays(l)[o] = x \div supply /\ pays(t)[o] = y \div supply
    BY <2>1 DEF share
  <2> HIDE DEF x, y, pays
  <2>4. x \div supply \in Nat /\ y \div supply \in Nat /\ x \div supply <= y \div supply
    BY <2>2, DivGrows
  <2> QED
    BY <2>1, <2>3, <2>4
<1>3. ASSUME NEW o \in paid(DOMAIN t) PROVE pays(t)[o] \in Nat
  <2>1. t[o] * pool \in Nat /\ pays(t)[o] = (t[o] * pool) \div supply
    BY ProductType DEF share
  <2> DEFINE y == t[o] * pool
  <2> HIDE DEF y, pays
  <2>2. y \div supply \in Nat
    BY <2>1 DEF y
  <2> QED
    BY <2>1, <2>2 DEF y
<1>4. /\ IsFiniteSet(paid(DOMAIN t)) /\ IsFiniteSet(paid(DOMAIN l))
      /\ paid(DOMAIN l) \in SUBSET paid(DOMAIN t)
      /\ DOMAIN pays(l) = paid(DOMAIN l) /\ DOMAIN pays(t) = paid(DOMAIN t)
  <2>1. paid(DOMAIN t) \in SUBSET D /\ paid(DOMAIN l) \in SUBSET D
    OBVIOUS
  <2> QED
    BY <2>1, FS_Subset
<1> HIDE DEF pays, paid
<1>5. SumFunction(pays(l)) <= SumFunction(pays(t))
  <2>1. SumFunctionOnSet(pays(l), paid(DOMAIN l)) <= SumFunctionOnSet(pays(t), paid(DOMAIN t))
    BY <1>2, <1>3, <1>4, SumBelow
  <2> QED
    BY <1>4, <2>1 DEF SumFunction
<1>6. SumFunction(pays(l)) \in Nat /\ SumFunction(pays(t)) \in Nat
  BY <1>2, <1>3, <1>4, SumIsNat DEF SumFunction
<1>7. /\ r.payouts = pays(l) /\ r.unallocated = pool - SumFunction(pays(l))
      /\ all.payouts = pays(t) /\ all.unallocated = pool - SumFunction(pays(t))
  BY <1>1
<1> HIDE DEF r, all
<1>8. /\ \A o \in DOMAIN r.payouts : r.payouts[o] <= all.payouts[o]
      /\ r.unallocated >= all.unallocated
  BY <1>2, <1>4, <1>5, <1>6, <1>7
<1> QED
  BY <1>8 DEF r, all, kind

(* Whichever lookups of the adapter fail, nobody is paid more for what its *)
(* listing misses, with the index it misses nothing, and through the       *)
(* allowlist only the pool and those without an entry or with units        *)
(* elsewhere get less (ListingNeverOverpays, of listHolders and allocate). *)
THEOREM ListingSafe == FakeSpec => []ListingNeverOverpays
<1>1. ASSUME LedgersInv, NEW p \in Pool, created(p), NEW entries
      PROVE  LET full == Snapshot(p)
                 result(tokens, pool) ==
                     allocate(tokens, classifyHolders(DOMAIN tokens, {AUTHORITY}, Accepted, entries),
                              Supply(p), pool)
             IN
             /\ \A failing \in SUBSET Lookups : \A listed \in listHolders(p, entries, failing) :
                   /\ "getProgramAccounts" \notin failing => listed = full
                   /\ "allowlist" \notin failing =>
                         \A o \in (DOMAIN full \cap entries) \ (Elsewhere \cup {AUTHORITY}) :
                             o \in DOMAIN listed /\ listed[o] = full[o]
             /\ \A listed \in UNION {listHolders(p, entries, failing) : failing \in SUBSET Lookups} :
                   /\ DOMAIN listed \subseteq DOMAIN full
                   /\ Allocatable(full, Supply(p)) =>
                         /\ Allocatable(listed, Supply(p))
                         /\ \A pool \in RightsPools(p) :
                               LET r == result(listed, pool)  all == result(full, pool) IN
                               /\ \A o \in DOMAIN r.payouts : r.payouts[o] <= all.payouts[o]
                               /\ r.unallocated >= all.unallocated
  <2> DEFINE full == Snapshot(p)
             supply == Supply(p)
             H == Holders(p)
             result(tokens, pool) ==
                 allocate(tokens, classifyHolders(DOMAIN tokens, {AUTHORITY}, Accepted, entries),
                          supply, pool)
  <2>1. MarketInv /\ FakeTypeOK
    BY <1>1, LedgersParts DEF LedgersInv
  <2>2. /\ full = [o \in H |-> balances[p][o]] /\ DOMAIN full = H /\ IsFiniteSet(H)
        /\ \A o \in H : full[o] \in Nat /\ full[o] = balances[p][o]
    BY <2>1, SnapshotIs, SnapshotParts
  <2>3. supply \in Nat \ {0} /\ RightsPools(p) \subseteq Nat
    BY <1>1, <2>1, CreatedFacts, RightsPoolsTyped
  <2> HIDE DEF full, supply, H
  <2>4. ASSUME NEW failing \in SUBSET Lookups, NEW listed \in listHolders(p, entries, failing)
        PROVE  /\ "getProgramAccounts" \notin failing => listed = full
               /\ "allowlist" \notin failing =>
                     \A o \in (DOMAIN full \cap entries) \ (Elsewhere \cup {AUTHORITY}) :
                         o \in DOMAIN listed /\ listed[o] = full[o]
               /\ DOMAIN listed \subseteq H
               /\ \A o \in DOMAIN listed : listed[o] \in Nat /\ listed[o] <= full[o]
    <3>1. /\ DOMAIN listed \subseteq H
          /\ \A o \in DOMAIN listed : listed[o] \in 1..balances[p][o]
          /\ "getProgramAccounts" \notin failing => listed = full
          /\ "allowlist" \notin failing =>
                \A o \in (H \cap entries) \ (Elsewhere \cup {AUTHORITY}) :
                   o \in DOMAIN listed /\ listed[o] = balances[p][o]
      BY <2>1, <2>4, ListingBelow DEF H, full
    <3> QED
      BY <2>2, <3>1
  <2>5. ASSUME NEW listed, DOMAIN listed \subseteq H,
               \A o \in DOMAIN listed : listed[o] \in Nat /\ listed[o] <= full[o]
        PROVE  /\ DOMAIN listed \subseteq DOMAIN full
               /\ Allocatable(full, supply) =>
                     /\ Allocatable(listed, supply)
                     /\ \A pool \in RightsPools(p) :
                           LET r == result(listed, pool)  all == result(full, pool) IN
                           /\ \A o \in DOMAIN r.payouts : r.payouts[o] <= all.payouts[o]
                           /\ r.unallocated >= all.unallocated
    <3>1. SumFunctionOnSet(listed, DOMAIN listed) <= SumFunctionOnSet(full, H)
      BY <2>2, <2>5, SumBelow
    <3>2. SumFunctionOnSet(full, H) \in Int /\ SumFunctionOnSet(listed, DOMAIN listed) \in Int
      <4>1. IsFiniteSet(DOMAIN listed)
        BY <2>2, <2>5, FS_Subset
      <4> QED
        BY <2>2, <2>5, <4>1, SumIsNat
    <3>3. Allocatable(full, supply) => Allocatable(listed, supply)
      BY <2>2, <2>3, <3>1, <3>2 DEF Allocatable, Held
    <3>4. ASSUME NEW pool \in RightsPools(p)
          PROVE  LET r == result(listed, pool)  all == result(full, pool) IN
                 /\ \A o \in DOMAIN r.payouts : r.payouts[o] <= all.payouts[o]
                 /\ r.unallocated >= all.unallocated
      BY <2>2, <2>3, <2>5, PaidNoMore
    <3> QED
      BY <2>2, <2>5, <3>3, <3>4
  <2>6. ASSUME NEW listed \in UNION {listHolders(p, entries, failing) : failing \in SUBSET Lookups}
        PROVE  DOMAIN listed \subseteq H /\ \A o \in DOMAIN listed : listed[o] \in Nat /\ listed[o] <= full[o]
    <3>1. PICK failing \in SUBSET Lookups : listed \in listHolders(p, entries, failing)
      OBVIOUS
    <3> QED
      BY <2>4, <3>1
  <2> HIDE DEF result
  <2>7. \A failing \in SUBSET Lookups : \A listed \in listHolders(p, entries, failing) :
           /\ "getProgramAccounts" \notin failing => listed = full
           /\ "allowlist" \notin failing =>
                 \A o \in (DOMAIN full \cap entries) \ (Elsewhere \cup {AUTHORITY}) :
                     o \in DOMAIN listed /\ listed[o] = full[o]
    BY <2>4
  <2>8. \A listed \in UNION {listHolders(p, entries, failing) : failing \in SUBSET Lookups} :
           /\ DOMAIN listed \subseteq DOMAIN full
           /\ Allocatable(full, supply) =>
                 /\ Allocatable(listed, supply)
                 /\ \A pool \in RightsPools(p) :
                       LET r == result(listed, pool)  all == result(full, pool) IN
                       /\ \A o \in DOMAIN r.payouts : r.payouts[o] <= all.payouts[o]
                       /\ r.unallocated >= all.unallocated
    BY <2>5, <2>6
  <2> QED
    BY <2>7, <2>8 DEF full, supply, result
<1>2. LedgersInv => ListingNeverOverpays
  BY <1>1, Zenon DEF ListingNeverOverpays
<1> QED
  BY <1>2, LedgersInductive, PTL

-----------------------------------------------------------------------------
(* The price of a market between its two caps.                             *)

LEMMA WholeDiv ==
  ASSUME NEW a \in Int, NEW c \in Nat \ {0}
  PROVE  (a * c) \div c = a /\ (a * 0) \div c = 0
OBVIOUS

LEMMA PricesGrow ==
  ASSUME FakeTypeOK, NEW p \in Pool, created(p)
  PROVE  StartPrice(p) \in Nat /\ EndPrice(p) \in Nat /\ StartPrice(p) <= EndPrice(p)
<1> DEFINE n == pools[p].input.terms.tokenSupply
           c == poolInput(p).startingMarketCap
           g == poolInput(p).graduationMarketCap
<1>1. n \in Nat \ {0} /\ pools[p].input \in Launchable
  BY CreatedFacts
<1>2. c \in Nat /\ g \in Nat /\ c <= g
  BY <1>1, PricingTyped DEF poolInput
<1>3. StartPrice(p) = c \div n /\ EndPrice(p) = g \div n
  BY DEF StartPrice, EndPrice
<1> HIDE DEF c, g, n
<1>4. c \in Int /\ g \in Int /\ c \div n \in Nat /\ g \div n \in Nat
  BY <1>1, <1>2
<1>5. c \div n <= g \div n
  BY <1>1, <1>2, <1>4, DivGrows
<1> QED
  BY <1>3, <1>4, <1>5

LEMMA PriceBetween ==
  ASSUME FakeTypeOK, NEW p \in Pool, created(p)
  PROVE  /\ pools[p].sold = 0 => priceOf(p) = StartPrice(p)
         /\ pools[p].sold = Supply(p) => priceOf(p) = EndPrice(p)
         /\ pools[p].sold \in 0..Supply(p) => priceOf(p) \in StartPrice(p)..EndPrice(p)
<1> DEFINE s == StartPrice(p)
           e == EndPrice(p)
           sold == pools[p].sold
           supply == Supply(p)
<1>1. /\ s \in Nat /\ e \in Nat /\ priceOf(p) = s + ((e - s) * sold) \div supply
      /\ supply \in Nat \ {0} /\ sold \in Int
  BY PriceIs, CreatedFacts
<1>2. s <= e
  BY PricesGrow
<1> HIDE DEF s, e, sold, supply
<1>3. ASSUME sold = 0 PROVE priceOf(p) = s
  <2>1. ((e - s) * 0) \div supply = 0
    BY <1>1, WholeDiv
  <2> QED
    BY <1>1, <1>3, <2>1
<1>4. ASSUME sold = supply PROVE priceOf(p) = e
  <2> DEFINE d == e - s
  <2>1. d \in Int /\ s + d = e
    BY <1>1
  <2> HIDE DEF d
  <2>2. (d * supply) \div supply = d
    BY <1>1, <2>1, WholeDiv
  <2> QED
    BY <1>1, <1>4, <2>1, <2>2 DEF d
<1>5. ASSUME sold \in 0..supply PROVE priceOf(p) \in s..e
  <2> DEFINE d == e - s
             x == (d * sold) \div supply
  <2>1. d \in Nat /\ s + d = e /\ sold \in Nat /\ sold <= supply
    BY <1>1, <1>2, <1>5
  <2>2. priceOf(p) = s + x
    BY <1>1
  <2> HIDE DEF d
  <2>3. d * sold \in Nat /\ d * sold <= d * supply /\ d * supply \in Nat
    BY <1>1, <2>1, ProductGrows, ProductType
  <2>4. (d * supply) \div supply = d
    BY <1>1, <2>1, WholeDiv
  <2>5. x <= d
    BY <1>1, <2>3, <2>4, DivGrows
  <2>6. x \in Nat
    <3> DEFINE y == d * sold
    <3>1. y \in Nat
      BY <2>3
    <3> HIDE DEF y
    <3>2. y \div supply \in Nat
      BY <1>1, <3>1
    <3> QED
      BY <3>2 DEF y
  <2> HIDE DEF x
  <2>7. s + x \in s..e
    BY <1>1, <2>1, <2>5, <2>6
  <2> QED
    BY <2>2, <2>7
<1> QED
  BY <1>3, <1>4, <1>5 DEF s, e, sold, supply

(* The market cap a page shows lies between the caps of the preview, but   *)
(* for the rounding of the price.                                          *)
LEMMA CapBetween ==
  ASSUME NEW c \in Nat, NEW g \in Nat, NEW n \in Nat \ {0}, NEW x \in (c \div n)..(g \div n)
  PROVE  x * n \in (c - n)..g
<1> DEFINE s == c \div n  e == g \div n
<1>1. s \in Nat /\ e \in Nat /\ c < n * s + n /\ n * e <= g
  OBVIOUS
<1>2. x \in Int /\ s <= x /\ x <= e
  BY <1>1
<1> HIDE DEF s, e
<1>3. n * s <= n * x /\ n * x <= n * e
  BY <1>1, <1>2, ProductGrows
<1> DEFINE y == n * x  ns == n * s  ne == n * e
<1>4. y = x * n /\ y \in Int /\ ns \in Int /\ ne \in Int
  BY <1>1, <1>2
<1>5. c < ns + n /\ ne <= g /\ ns <= y /\ y <= ne
  BY <1>1, <1>3
<1> HIDE DEF y, ns, ne
<1>6. y \in (c - n)..g
  BY <1>4, <1>5
<1> QED
  BY <1>4, <1>6

-----------------------------------------------------------------------------
(* Quotes.                                                                 *)

LEMMA CeilBounds ==
  ASSUME NEW a \in Nat, NEW b \in Nat \ {0}
  PROVE  ceilDiv(a, b) \in Nat /\ a <= b * ceilDiv(a, b)
<1> DEFINE x == a + b - 1
           c == x \div b
<1>1. x \in Nat
  OBVIOUS
<1>2. c \in Nat /\ x < b * c + b
  <2> HIDE DEF x
  <2> QED
    BY <1>1
<1> HIDE DEF c
<1>3. a <= b * c
  BY <1>2
<1> QED
  BY <1>2, <1>3 DEF c, ceilDiv

(* What is paid for a net amount covers it after the pool's one per cent.  *)
LEMMA NetCovered ==
  ASSUME NEW net \in Nat
  PROVE  LET pay == ceilDiv(net * 100, 99) IN pay \in Nat /\ net <= pay - pay \div 100
<1> DEFINE pay == ceilDiv(net * 100, 99)
<1>1. pay \in Nat /\ net * 100 <= 99 * pay
  BY CeilBounds
<1> HIDE DEF pay
<1>2. net <= pay - pay \div 100
  BY <1>1
<1> QED
  BY <1>1, <1>2 DEF pay

(* A net amount that is the price of n buys n. *)
LEMMA BuysBack ==
  ASSUME NEW n \in Nat, NEW a \in Nat \ {0}, NEW b \in Nat \ {0}, NEW m \in Nat,
         ceilDiv(n * a, b) <= m
  PROVE  n <= (m * b) \div a
<1> DEFINE na == n * a
           net == ceilDiv(na, b)
           mb == m * b
           q == mb \div a
<1>1. na \in Nat /\ mb \in Nat
  OBVIOUS
<1>2. net \in Nat /\ na <= b * net /\ net <= m
  <2>1. net <= m
    OBVIOUS
  <2> HIDE DEF na
  <2> QED
    BY <1>1, <2>1, CeilBounds
<1> HIDE DEF net
<1>3. b * net <= mb
  BY <1>2
<1>4. na <= mb
  BY <1>1, <1>2, <1>3
<1>5. na \div a = n
  BY WholeDiv
<1> HIDE DEF na, mb
<1>6. na \div a <= mb \div a
  BY <1>1, <1>4, DivGrows
<1> QED
  BY <1>5, <1>6 DEF mb

(* The parts of the pool's fee. *)
LEMMA FeeParts ==
  ASSUME NEW pay \in Nat, NEW x \in Int
  PROVE  LET fee == pay \div 100
             trading == fee - fee \div 5
         IN  fee \div 5 + (trading - x) + x = fee /\ 100 * fee <= pay
OBVIOUS

(* A request that names the output, and one that names the input.          *)
LEMMA ParsedOut ==
  ASSUME NEW n \in Int
  PROVE  /\ parseSwapAmount([amountIn |-> Absent, amountOut |-> n, mode |-> Absent])
               = [mode |-> "EXACT_OUT", amount |-> n]
         /\ parseSwapAmount([amountIn |-> n, amountOut |-> Absent, mode |-> Absent])
               = [mode |-> "EXACT_IN", amount |-> n]
<1>1. n # Absent
  BY TermsAssumption
<1> QED
  BY <1>1 DEF parseSwapAmount

(* What QuotesAgree says of a quote.                                       *)
QuoteGood(p, side, n, none) ==
    LET out == parseSwapAmount([amountIn |-> Absent, amountOut |-> n, mode |-> Absent])
        q == quoteView(p, side, out.amount, out.mode)
        in == parseSwapAmount([amountIn |-> q.pay, amountOut |-> Absent, mode |-> Absent])
    IN
    IF Quotable(p, side, out.amount, out.mode) /\ q.pay > 0
    THEN /\ Quotable(p, side, in.amount, in.mode)
         /\ quoteView(p, side, in.amount, in.mode).receive >= n
         /\ side = "BUY" =>
               /\ q.protocolFee + q.startupShare + q.founderStackFee = q.poolFee
               /\ 100 * q.poolFee <= q.pay
    ELSE none

LEMMA QuoteCovers ==
  ASSUME NEW p, priceOf(p) \in Nat, pools[p].input.monetization = DEMO_PROTOCOL_CONFIG,
         NEW side \in {"BUY", "SELL"}, NEW n \in Nat \ {0}
  PROVE  QuoteGood(p, side, n, priceOf(p) = 0)
<1> DEFINE price == priceOf(p)
           out == parseSwapAmount([amountIn |-> Absent, amountOut |-> n, mode |-> Absent])
           q == quoteView(p, side, out.amount, out.mode)
           in == parseSwapAmount([amountIn |-> q.pay, amountOut |-> Absent, mode |-> Absent])
           net == IF side = "BUY" THEN ceilDiv(n * price, Unit) ELSE ceilDiv(n * Unit, price)
           pay == ceilDiv(net * 100, 99)
           left == pay - pay \div 100
           fee == pay \div 100
           trading == fee - fee \div 5
           fs == (trading * pools[p].input.monetization.partnerPct) \div 100
<1>0. CASE price = 0
  <2>1. side = "BUY" => q.pay = 0
    <3> SUFFICES ASSUME side = "BUY" PROVE q.pay = 0
      OBVIOUS
    <3>1. out = [mode |-> "EXACT_OUT", amount |-> n]
      <4>1. n \in Int
        OBVIOUS
      <4> QED
        BY <4>1, ParsedOut, Zenon
    <3>2. q.pay = ceilDiv(ceilDiv(n * price, Unit) * 100, 99)
      BY <3>1 DEF quoteView, quoteOut
    <3>3. n * price = 0
      BY <1>0
    <3>4. ceilDiv(0, Unit) = 0
      <4>1. 0 + Unit - 1 = Unit - 1 /\ (Unit - 1) \div Unit = 0
        BY FakeAssumption
      <4> QED
        BY <4>1 DEF ceilDiv
    <3>5. ceilDiv(0 * 100, 99) = 0
      BY DEF ceilDiv
    <3> QED
      BY <3>2, <3>3, <3>4, <3>5
  <2>2. side = "SELL" => ~Quotable(p, side, out.amount, out.mode)
    <3>1. out = [mode |-> "EXACT_OUT", amount |-> n]
      <4>1. n \in Int
        OBVIOUS
      <4> QED
        BY <4>1, ParsedOut, Zenon
    <3> QED
      BY <1>0, <3>1 DEF Quotable
  <2>3. ~(Quotable(p, side, out.amount, out.mode) /\ q.pay > 0)
    <3> HIDE DEF q, out
    <3>1. CASE side = "BUY"
      BY <2>1, <3>1
    <3> QED
      BY <2>2, <3>1
  <2> HIDE DEF q, out, in, price
  <2>4. QuoteGood(p, side, n, priceOf(p) = 0) <=>
          IF Quotable(p, side, out.amount, out.mode) /\ q.pay > 0
          THEN /\ Quotable(p, side, in.amount, in.mode)
               /\ quoteView(p, side, in.amount, in.mode).receive >= n
               /\ side = "BUY" =>
                     /\ q.protocolFee + q.startupShare + q.founderStackFee = q.poolFee
                     /\ 100 * q.poolFee <= q.pay
          ELSE priceOf(p) = 0
    BY DEF QuoteGood, in, q, out
  <2> QED
    BY <1>0, <2>3, <2>4 DEF price
<1> SUFFICES ASSUME price # 0 PROVE QuoteGood(p, side, n, priceOf(p) = 0)
  BY <1>0
<1>1. price \in Nat \ {0} /\ Unit \in Nat \ {0}
  BY FakeAssumption
<1>2. net \in Nat /\ net # 0
  <2>1. n * price \in Nat \ {0} /\ n * Unit \in Nat \ {0}
    BY <1>1
  <2>2. ASSUME NEW a \in Nat \ {0}, NEW b \in Nat \ {0}
        PROVE  ceilDiv(a, b) \in Nat /\ ceilDiv(a, b) # 0
    <3>1. ceilDiv(a, b) \in Nat /\ a <= b * ceilDiv(a, b)
      BY CeilBounds
    <3>2. b * 0 = 0
      OBVIOUS
    <3> QED
      BY <3>1, <3>2
  <2> QED
    BY <1>1, <2>1, <2>2
<1>3. out = [mode |-> "EXACT_OUT", amount |-> n]
  <2>1. n \in Int
    OBVIOUS
  <2> QED
    BY <2>1, ParsedOut, Zenon
<1>4. /\ q.pay = quoteOut(side, p, n) /\ q.poolFee = quoteOut(side, p, n) \div 100
  BY <1>3 DEF quoteView
<1>5. quoteOut(side, p, n) = pay
  BY DEF quoteOut
<1>6. /\ q.pay = pay /\ q.poolFee = fee /\ q.protocolFee = fee \div 5
      /\ q.startupShare = trading - fs /\ q.founderStackFee = fs
  BY <1>3, <1>5 DEF quoteView
<1> HIDE DEF price, net, q, out
<1>7. pay \in Nat /\ net <= left /\ left \in Nat
  <2>1. pay \in Nat /\ net <= left
    BY <1>2, NetCovered
  <2> HIDE DEF pay
  <2> QED
    BY <1>2, <2>1
<1> HIDE DEF pay
<1>8. in = [mode |-> "EXACT_IN", amount |-> pay]
  <2>1. pay \in Int
    BY <1>7
  <2> QED
    BY <1>6, <2>1, ParsedOut, Zenon
<1>9. quoteView(p, side, in.amount, in.mode).receive = quoteIn(side, p, pay)
  BY <1>8 DEF quoteView
<1>10. quoteIn(side, p, pay) >= n
  <2>1. quoteIn(side, p, pay) = IF side = "BUY" THEN (left * Unit) \div price ELSE (left * price) \div Unit
    BY DEF quoteIn, price
  <2> HIDE DEF left
  <2>2. CASE side = "BUY"
    <3>1. n <= (left * Unit) \div price
      BY <1>1, <1>7, <2>2, BuysBack DEF net
    <3>2. (left * Unit) \div price \in Int
      BY <1>1, <1>7, DivType
    <3> QED
      BY <2>1, <2>2, <3>1, <3>2
  <2>3. CASE side = "SELL"
    <3>1. n <= (left * price) \div Unit
      BY <1>1, <1>7, <2>3, BuysBack DEF net
    <3>2. (left * price) \div Unit \in Int
      BY <1>1, <1>7, DivType
    <3> QED
      BY <2>1, <2>3, <3>1, <3>2
  <2> QED
    BY <2>2, <2>3
<1>11. fs \in Int
  <2>1. pools[p].input.monetization.partnerPct = 50
    BY DEF DEMO_PROTOCOL_CONFIG
  <2>2. trading \in Int
    BY <1>7
  <2> HIDE DEF trading
  <2> QED
    BY <2>1, <2>2
<1> HIDE DEF fs
<1>12. pay > 0
  BY <1>2, <1>7
<1>13. /\ Quotable(p, side, out.amount, out.mode)
       /\ Quotable(p, side, in.amount, in.mode)
  BY <1>1, <1>3, <1>8, <1>12 DEF Quotable, price
<1>14. fee \div 5 + (trading - fs) + fs = fee /\ 100 * fee <= pay
  BY <1>7, <1>11, FeeParts
<1> HIDE DEF fee, trading, in
<1>15. QuoteGood(p, side, n, priceOf(p) = 0) <=>
         IF Quotable(p, side, out.amount, out.mode) /\ q.pay > 0
         THEN /\ Quotable(p, side, in.amount, in.mode)
              /\ quoteView(p, side, in.amount, in.mode).receive >= n
              /\ side = "BUY" =>
                    /\ q.protocolFee + q.startupShare + q.founderStackFee = q.poolFee
                    /\ 100 * q.poolFee <= q.pay
         ELSE priceOf(p) = 0
  BY DEF QuoteGood, in, q, out
<1> QED
  BY <1>6, <1>9, <1>10, <1>14, <1>15, <1>12, <1>13

-----------------------------------------------------------------------------
(* The yields of a market (YieldHistory).                                  *)

(* What the yield of a history is made of.                                 *)
Executed(h) == {i \in DOMAIN h : h[i].status = "EXECUTED"}
Items(h) == [i \in Executed(h) |-> [executedAt |-> h[i].executedAt,
                                    rightsPool |-> h[i].rightsPool, tokenSupply |-> 4]]
Trailing(h, now) == {i \in Executed(h) : InTrailingYear(h[i].executedAt, now)}
Past(h, now) == {i \in Executed(h) : h[i].executedAt <= now}
PerToken(h) == [i \in Executed(h) |-> perTokenBaseUnits(h[i].rightsPool, 4, 1)]
Later(h, i, j) == \/ h[i].executedAt > h[j].executedAt
                  \/ h[i].executedAt = h[j].executedAt /\ i >= j
Latest(h, now) == CHOOSE i \in Past(h, now) : \A j \in Past(h, now) : Later(h, i, j)
ShownPrice(price) == IF price > 0 THEN 7 ELSE 0
Bps(amount, price) == IF price > 0 THEN (amount * BPS_DENOMINATOR) \div price ELSE NoYield

LEMMA ViewIs ==
  ASSUME NEW h, NEW price, NEW now
  PROVE  /\ View(h, price, now).yield = yieldMetrics(Items(h), ShownPrice(price), 4, now, 1)
         /\ View(h, price, now).periods = Cardinality(Executed(h))
<1>1. View(h, price, now) = distributionHistory(h, 4, ShownPrice(price), "QUARTERLY", now, 1)
  BY DEF View, listDistributions, ShownPrice
<1>2. periodsPerYear("QUARTERLY") = 4
  BY DEF periodsPerYear
<1> QED
  BY <1>1, <1>2 DEF distributionHistory, Items, Executed

LEMMA YieldIs ==
  ASSUME NEW h, NEW price, NEW now
  PROVE  LET y == View(h, price, now).yield
             last == IF Past(h, now) = {} THEN 0 ELSE PerToken(h)[Latest(h, now)]
             ttm == SumFunctionOnSet(PerToken(h), Trailing(h, now))
         IN  /\ y.lastPerToken = last /\ y.ttmPerToken = ttm
             /\ y.trailingYieldBps = Bps(ttm, ShownPrice(price))
             /\ y.annualizedRunRatePerToken = last * 4
             /\ y.annualizedYieldBps = Bps(last * 4, ShownPrice(price))
             /\ y.periodsCounted = Cardinality(Trailing(h, now))
             /\ y.isAnnualized = (Cardinality(Trailing(h, now)) < 4)
<1> DEFINE items == Items(h)
           p == ShownPrice(price)
           perToken == [i \in DOMAIN items |->
                           perTokenBaseUnits(items[i].rightsPool, items[i].tokenSupply, 1)]
           past == {i \in DOMAIN items : items[i].executedAt <= now}
           ttm == {i \in DOMAIN items : InTrailingYear(items[i].executedAt, now)}
           later(i, j) == \/ items[i].executedAt > items[j].executedAt
                          \/ items[i].executedAt = items[j].executedAt /\ i >= j
           last == IF past = {} THEN 0 ELSE perToken[CHOOSE i \in past : \A j \in past : later(i, j)]
           sum == SumFunctionOnSet(perToken, ttm)
<1>1. yieldMetrics(items, p, 4, now, 1) =
          [lastPerToken |-> last, ttmPerToken |-> sum, trailingYieldBps |-> Bps(sum, p),
           annualizedRunRatePerToken |-> last * 4, annualizedYieldBps |-> Bps(last * 4, p),
           periodsCounted |-> Cardinality(ttm), isAnnualized |-> Cardinality(ttm) < 4]
  BY Zenon DEF yieldMetrics, Bps
<1>0. View(h, price, now).yield = yieldMetrics(items, p, 4, now, 1)
  BY ViewIs
<1>2. /\ DOMAIN items = Executed(h)
      /\ \A i \in Executed(h) : /\ items[i].executedAt = h[i].executedAt
                                /\ items[i].rightsPool = h[i].rightsPool /\ items[i].tokenSupply = 4
  BY DEF Items
<1> HIDE DEF items
<1>3. past = Past(h, now) /\ ttm = Trailing(h, now) /\ perToken = PerToken(h)
  BY <1>2 DEF Past, Trailing, PerToken
<1>4. \A i, j \in Executed(h) : later(i, j) <=> Later(h, i, j)
  BY <1>2 DEF Later
<1>5. (CHOOSE i \in past : \A j \in past : later(i, j)) = Latest(h, now)
  <2>1. Past(h, now) \subseteq Executed(h)
    BY DEF Past
  <2> HIDE DEF past, later
  <2>2. \A i \in past : (\A j \in past : later(i, j)) <=> (\A j \in past : Later(h, i, j))
    BY <1>3, <1>4, <2>1
  <2>3. (CHOOSE i \in past : \A j \in past : later(i, j)) = CHOOSE i \in past : \A j \in past : Later(h, i, j)
    BY <2>2
  <2> QED
    BY <1>3, <2>3 DEF Latest
<1>6. /\ last = IF Past(h, now) = {} THEN 0 ELSE PerToken(h)[Latest(h, now)]
      /\ sum = SumFunctionOnSet(PerToken(h), Trailing(h, now))
  BY <1>3, <1>5
<1> HIDE DEF past, ttm, perToken, later, last, sum
<1> DEFINE y == View(h, price, now).yield
<1>7. y = [lastPerToken |-> last, ttmPerToken |-> sum, trailingYieldBps |-> Bps(sum, p),
           annualizedRunRatePerToken |-> last * 4, annualizedYieldBps |-> Bps(last * 4, p),
           periodsCounted |-> Cardinality(ttm), isAnnualized |-> Cardinality(ttm) < 4]
  BY <1>0, <1>1
<1> HIDE DEF y, p
<1>8. /\ y.lastPerToken = last /\ y.ttmPerToken = sum /\ y.trailingYieldBps = Bps(sum, p)
      /\ y.annualizedRunRatePerToken = last * 4 /\ y.annualizedYieldBps = Bps(last * 4, p)
      /\ y.periodsCounted = Cardinality(ttm)
  BY <1>7
<1>9. y.isAnnualized = (Cardinality(ttm) < 4)
  BY <1>7, Zenon
<1> QED
  BY <1>3, <1>6, <1>8, <1>9, Zenon DEF y, p

Rows(h) == h \in Seq(Range(h)) /\ \A i \in DOMAIN h : h[i].executedAt \in Int /\ h[i].rightsPool \in Nat

LEMMA PaidIs ==
  ASSUME NEW pool, NEW day, NEW status
  PROVE  LET r == Paid(pool, day, status) IN r.rightsPool = pool /\ r.executedAt = day /\ r.status = status
BY DEF Paid

LEMMA PerTokenOf ==
  ASSUME NEW pool \in Nat
  PROVE  perTokenBaseUnits(pool, 4, 1) = pool \div 4 /\ pool \div 4 \in Nat
BY DEF perTokenBaseUnits

LEMMA AFunctionOnItsRange ==
  ASSUME NEW h, NEW n \in Nat, h = [i \in 1..n |-> h[i]]
  PROVE  h \in Seq(Range(h)) /\ Len(h) = n
<1>1. h \in [1..n -> Range(h)]
  BY DEF Range
<1> QED
  BY <1>1, SeqDef

LEMMA HistoriesAreRows ==
  ASSUME NEW h \in Histories
  PROVE  Rows(h)
<1>1. PICK n \in 0..2, days \in [1..2 -> {0, 100, 365, 366, 500}],
           status \in [1..2 -> {"SNAPSHOTTED", "EXECUTED"}] :
           h = [i \in 1..n |-> Paid(5 * i, days[i], status[i])]
  BY DEF Histories
<1>2. h = [i \in 1..n |-> h[i]] /\ DOMAIN h = 1..n /\ n \in Nat
  BY <1>1
<1>3. \A i \in 1..n : h[i] = Paid(5 * i, days[i], status[i])
  BY <1>1
<1>4. \A i \in 1..n : h[i].rightsPool = 5 * i /\ h[i].executedAt = days[i]
  BY <1>3, PaidIs
<1>5. \A i \in 1..n : days[i] \in Int /\ 5 * i \in Nat
  OBVIOUS
<1> QED
  BY <1>2, <1>4, <1>5, AFunctionOnItsRange DEF Rows

AreQuarters(h, pool, first) ==
    /\ Rows(h) /\ DOMAIN h = 1..4
    /\ \A i \in 1..4 : /\ h[i].rightsPool = pool /\ h[i].executedAt = first + 91 * (i - 1)
                       /\ h[i].status = "EXECUTED"

LEMMA QuartersAreRows ==
  ASSUME NEW pool \in Nat, NEW first \in Nat
  PROVE  AreQuarters(Quarters(pool, first), pool, first)
<1> DEFINE h == Quarters(pool, first)
<1>1. /\ h = [i \in 1..4 |-> h[i]] /\ DOMAIN h = 1..4
      /\ \A i \in 1..4 : h[i] = Paid(pool, first + 91 * (i - 1), "EXECUTED")
  BY DEF Quarters
<1> HIDE DEF h
<1>2. \A i \in 1..4 : /\ h[i].rightsPool = pool /\ h[i].executedAt = first + 91 * (i - 1)
                      /\ h[i].status = "EXECUTED"
  BY <1>1, PaidIs
<1>3. \A i \in 1..4 : first + 91 * (i - 1) \in Int
  OBVIOUS
<1>4. 4 \in Nat
  OBVIOUS
<1>5. Rows(h)
  <2>1. h \in Seq(Range(h))
    BY <1>1, <1>4, AFunctionOnItsRange
  <2>2. \A i \in DOMAIN h : h[i].executedAt \in Int /\ h[i].rightsPool \in Nat
    BY <1>1, <1>2, <1>3
  <2> QED
    BY <2>1, <2>2 DEF Rows
<1> QED
  BY <1>1, <1>2, <1>5 DEF h, AreQuarters

LEMMA RowsFacts ==
  ASSUME NEW h, Rows(h), NEW now \in Int
  PROVE  /\ IsFiniteSet(Executed(h)) /\ IsFiniteSet(Trailing(h, now))
         /\ Executed(h) \subseteq 1..Len(h) /\ DOMAIN h = 1..Len(h) /\ Len(h) \in Nat
         /\ Trailing(h, now) \subseteq Executed(h)
         /\ \A i \in Executed(h) : PerToken(h)[i] = h[i].rightsPool \div 4 /\ PerToken(h)[i] \in Nat
         /\ SumFunctionOnSet(PerToken(h), Trailing(h, now)) \in Nat
         /\ Cardinality(Trailing(h, now)) \in Nat
         /\ Cardinality(Trailing(h, now)) <= Cardinality(Executed(h))
<1>1. DOMAIN h = 1..Len(h) /\ Len(h) \in Nat
  BY DEF Rows
<1>2. Executed(h) \subseteq 1..Len(h) /\ Trailing(h, now) \subseteq Executed(h)
  BY <1>1 DEF Executed, Trailing
<1>3. IsFiniteSet(1..Len(h))
  BY <1>1, FS_Interval
<1>4. IsFiniteSet(Executed(h)) /\ IsFiniteSet(Trailing(h, now))
  BY <1>2, <1>3, FS_Subset
<1>5. \A i \in Executed(h) : PerToken(h)[i] = h[i].rightsPool \div 4 /\ PerToken(h)[i] \in Nat
  <2>1. \A i \in Executed(h) : h[i].rightsPool \in Nat
    BY <1>1, <1>2 DEF Rows
  <2> QED
    BY <2>1, PerTokenOf DEF PerToken
<1>6. SumFunctionOnSet(PerToken(h), Trailing(h, now)) \in Nat
  BY <1>2, <1>4, <1>5, SumIsNat
<1>7. Cardinality(Trailing(h, now)) \in Nat
  BY <1>4, FS_CardinalityType
<1>8. Cardinality(Trailing(h, now)) <= Cardinality(Executed(h))
  BY <1>2, <1>4, FS_Subset
<1> QED
  BY <1>1, <1>2, <1>4, <1>5, <1>6, <1>7, <1>8

LEMMA AppendedRows ==
  ASSUME NEW h, Rows(h), NEW r
  PROVE  LET more == Append(h, r) IN
         /\ DOMAIN more = DOMAIN h \cup {Len(h) + 1} /\ Len(h) + 1 \notin DOMAIN h
         /\ \A i \in DOMAIN h : more[i] = h[i]
         /\ more[Len(h) + 1] = r
<1> DEFINE S == Range(h) \cup {r}  more == Append(h, r)
<1>1. h \in Seq(S) /\ r \in S /\ Len(h) \in Nat /\ DOMAIN h = 1..Len(h)
  <2>1. h \in Seq(Range(h)) /\ Range(h) \subseteq S
    BY DEF Rows
  <2> HIDE DEF S
  <2>2. h \in Seq(S)
    BY <2>1
  <2> QED
    BY <2>1, <2>2 DEF S
<1> HIDE DEF S
<1>2. /\ more \in Seq(S) /\ Len(more) = Len(h) + 1 /\ more[Len(h) + 1] = r
      /\ \A i \in 1..Len(h) : more[i] = h[i]
  BY <1>1, AppendProperties
<1> HIDE DEF more
<1>3. DOMAIN more = 1..(Len(h) + 1)
  BY <1>2
<1> QED
  BY <1>1, <1>2, <1>3 DEF more

(* A payment made now adds itself; a snapshot that is not paid changes     *)
(* nothing; a year later the payment is gone.                              *)
LEMMA OneMorePayment ==
  ASSUME NEW h, Rows(h), NEW now \in Int
  PROVE  LET more == Append(h, Paid(8, now, "EXECUTED"))
             n == Len(h) + 1
         IN  /\ Executed(more) = Executed(h) \cup {n} /\ n \notin Executed(h)
             /\ \A i \in Executed(h) : more[i] = h[i] /\ PerToken(more)[i] = PerToken(h)[i]
             /\ more[n] = Paid(8, now, "EXECUTED") /\ PerToken(more)[n] = 2
<1> DEFINE r == Paid(8, now, "EXECUTED")  more == Append(h, r)  n == Len(h) + 1
<1>1. /\ DOMAIN more = DOMAIN h \cup {n} /\ n \notin DOMAIN h
      /\ \A i \in DOMAIN h : more[i] = h[i]
      /\ more[n] = r
  BY AppendedRows
<1>2. r.status = "EXECUTED" /\ r.rightsPool = 8 /\ r.executedAt = now
  BY PaidIs
<1> HIDE DEF more, n, r
<1>3. Executed(more) = Executed(h) \cup {n} /\ n \notin Executed(h) /\ Executed(h) \subseteq DOMAIN h
  BY <1>1, <1>2 DEF Executed
<1>4. \A i \in Executed(h) : more[i] = h[i] /\ PerToken(more)[i] = PerToken(h)[i]
  BY <1>1, <1>3 DEF PerToken
<1>5. PerToken(more)[n] = 2
  <2>1. PerToken(more)[n] = perTokenBaseUnits(8, 4, 1)
    BY <1>1, <1>2, <1>3 DEF PerToken
  <2>2. perTokenBaseUnits(8, 4, 1) = 2
    BY DEF perTokenBaseUnits
  <2> QED
    BY <2>1, <2>2
<1> QED
  BY <1>1, <1>3, <1>4, <1>5 DEF more, n, r

LEMMA PaymentCounts ==
  ASSUME NEW h, Rows(h), NEW now \in Int
  PROVE  LET more == Append(h, Paid(8, now, "EXECUTED"))
             y == View(h, 7, now).yield
             z == View(more, 7, now).yield
         IN  z.ttmPerToken = y.ttmPerToken + 2 /\ z.lastPerToken = 2
<1> DEFINE r == Paid(8, now, "EXECUTED")  more == Append(h, r)  n == Len(h) + 1
           T == Trailing(h, now)
<1>1. /\ Executed(more) = Executed(h) \cup {n} /\ n \notin Executed(h)
      /\ \A i \in Executed(h) : more[i] = h[i] /\ PerToken(more)[i] = PerToken(h)[i]
      /\ more[n] = r /\ PerToken(more)[n] = 2
  BY OneMorePayment
<1>2. r.executedAt = now
  BY PaidIs
<1>3. /\ IsFiniteSet(T) /\ T \subseteq Executed(h) /\ Len(h) \in Nat /\ Executed(h) \subseteq 1..Len(h)
      /\ \A i \in Executed(h) : PerToken(h)[i] \in Nat
      /\ SumFunctionOnSet(PerToken(h), T) \in Nat
  BY RowsFacts
<1>4. \A i \in Executed(h) : h[i].executedAt \in Int
  BY RowsFacts DEF Rows
<1> HIDE DEF more, r
<1>5. Trailing(more, now) = T \cup {n}
  <2>1. InTrailingYear(now, now)
    BY DEF InTrailingYear
  <2> HIDE DEF n
  <2> QED
    BY <1>1, <1>2, <2>1 DEF Trailing
<1>6. SumFunctionOnSet(PerToken(more), T \cup {n}) = SumFunctionOnSet(PerToken(h), T) + 2
  <2> DEFINE U == T \cup {n}
  <2>1. IsFiniteSet(U)
    BY <1>3, FS_AddElement
  <2>2. n \in U /\ U \ {n} = T
    BY <1>1, <1>3
  <2>3. \A i \in U : PerToken(more)[i] \in Int
    BY <1>1, <1>3
  <2> HIDE DEF U
  <2>4. SumFunctionOnSet(PerToken(more), U) = PerToken(more)[n] + SumFunctionOnSet(PerToken(more), T)
    BY <2>1, <2>2, <2>3, SumWithout
  <2>5. SumFunctionOnSet(PerToken(more), T) = SumFunctionOnSet(PerToken(h), T)
    BY <1>1, <1>3, SameTerms
  <2> QED
    BY <1>1, <1>3, <2>4, <2>5 DEF U
<1>7. Past(more, now) = Past(h, now) \cup {n} /\ Past(h, now) \subseteq Executed(h)
  <2>1. now <= now
    OBVIOUS
  <2> HIDE DEF n
  <2> QED
    BY <1>1, <1>2, <2>1 DEF Past
<1>8. Latest(more, now) = n
  <2>1. \A j \in Past(more, now) : Later(more, n, j)
    <3> SUFFICES ASSUME NEW j \in Past(more, now) PROVE Later(more, n, j)
      OBVIOUS
    <3>1. j = n \/ (j \in Executed(h) /\ h[j].executedAt <= now /\ more[j] = h[j])
      BY <1>1, <1>7 DEF Past
    <3>2. n >= n /\ \A i \in Executed(h) : n >= i
      BY <1>3
    <3>3. more[n].executedAt = now
      BY <1>1, <1>2
    <3> HIDE DEF n
    <3> QED
      BY <1>4, <3>1, <3>2, <3>3 DEF Later
  <2>2. ASSUME NEW i \in Past(more, now), Later(more, i, n) PROVE i = n
    <3> SUFFICES ASSUME i \in Executed(h), h[i].executedAt <= now, more[i] = h[i] PROVE FALSE
      BY <1>1, <1>7 DEF Past
    <3>1. ~(i >= n) /\ h[i].executedAt \in Int
      BY <1>3, <1>4
    <3>2. more[n].executedAt = now
      BY <1>1, <1>2
    <3> HIDE DEF n
    <3> QED
      BY <2>2, <3>1, <3>2 DEF Later
  <2>3. n \in Past(more, now)
    BY <1>7
  <2> HIDE DEF n
  <2>4. \A i \in Past(more, now) : (\A j \in Past(more, now) : Later(more, i, j)) <=> i = n
    BY <2>1, <2>2, <2>3
  <2> QED
    BY <2>3, <2>4 DEF Latest
<1>9. Past(more, now) # {}
  BY <1>7
<1> HIDE DEF n, T
<1>10. View(more, 7, now).yield.ttmPerToken = SumFunctionOnSet(PerToken(more), T \cup {n})
  <2>1. View(more, 7, now).yield.ttmPerToken = SumFunctionOnSet(PerToken(more), Trailing(more, now))
    BY YieldIs
  <2> QED
    BY <1>5, <2>1
<1>11. View(h, 7, now).yield.ttmPerToken = SumFunctionOnSet(PerToken(h), T)
  BY YieldIs DEF T
<1>12. View(more, 7, now).yield.lastPerToken = 2
  BY <1>1, <1>8, <1>9, YieldIs
<1> QED
  BY <1>6, <1>10, <1>11, <1>12 DEF more, r

LEMMA PaymentPasses ==
  ASSUME NEW h, Rows(h), NEW now \in Int
  PROVE  LET more == Append(h, Paid(8, now, "EXECUTED")) IN
         View(more, 7, now + 365).yield.ttmPerToken = View(h, 7, now + 365).yield.ttmPerToken
<1> DEFINE r == Paid(8, now, "EXECUTED")  more == Append(h, r)  n == Len(h) + 1  then == now + 365
<1>1. /\ Executed(more) = Executed(h) \cup {n}
      /\ \A i \in Executed(h) : more[i] = h[i] /\ PerToken(more)[i] = PerToken(h)[i]
      /\ more[n] = r
  BY OneMorePayment
<1>2. r.executedAt = now /\ ~InTrailingYear(now, then)
  BY PaidIs DEF InTrailingYear
<1> HIDE DEF more, r, n, then
<1>3. Trailing(more, then) = Trailing(h, then) /\ Trailing(h, then) \subseteq Executed(h)
  BY <1>1, <1>2 DEF Trailing
<1>4. SumFunctionOnSet(PerToken(more), Trailing(h, then)) = SumFunctionOnSet(PerToken(h), Trailing(h, then))
  BY <1>1, <1>3, SameTerms
<1>5. View(more, 7, then).yield.ttmPerToken = View(h, 7, then).yield.ttmPerToken
  BY <1>3, <1>4, YieldIs
<1> QED
  BY <1>5 DEF more, r, then

LEMMA OpenIsNothing ==
  ASSUME NEW h, Rows(h), NEW now
  PROVE  View(Append(h, Paid(8, now, "SNAPSHOTTED")), 7, now).yield = View(h, 7, now).yield
<1> DEFINE r == Paid(8, now, "SNAPSHOTTED")  more == Append(h, r)  n == Len(h) + 1
<1>1. /\ DOMAIN more = DOMAIN h \cup {n} /\ n \notin DOMAIN h
      /\ \A i \in DOMAIN h : more[i] = h[i]
      /\ more[n] = r
  BY AppendedRows
<1>2. r.status # "EXECUTED"
  BY PaidIs
<1> HIDE DEF more, r, n
<1>3. Executed(more) = Executed(h) /\ Executed(h) \subseteq DOMAIN h
  BY <1>1, <1>2 DEF Executed
<1>4. Items(more) = Items(h)
  BY <1>1, <1>3 DEF Items
<1>5. View(more, 7, now).yield = View(h, 7, now).yield
  BY <1>4, ViewIs
<1> QED
  BY <1>5 DEF more, r

(* Four quarters of one amount.                                            *)
LEMMA FourTerms ==
  ASSUME NEW f, NEW c \in Nat, \A i \in 1..4 : f[i] = c
  PROVE  SumFunctionOnSet(f, 1..4) = 4 * c
<1>1. \A i \in {1, 2, 3, 4} : f[i] = c /\ f[i] \in Int
  OBVIOUS
<1> DEFINE s(S) == SumFunctionOnSet(f, S)
<1>2. /\ {1, 2, 3, 4} \ {1} = {2, 3, 4} /\ {2, 3, 4} \ {2} = {3, 4} /\ {3, 4} \ {3} = {4}
      /\ 1..4 = {1, 2, 3, 4}
  OBVIOUS
<1>3. /\ IsFiniteSet({4}) /\ IsFiniteSet({3, 4}) /\ IsFiniteSet({2, 3, 4}) /\ IsFiniteSet({1, 2, 3, 4})
  <2>1. IsFiniteSet({4})
    BY FS_Singleton
  <2>2. {3, 4} = {4} \cup {3} /\ {2, 3, 4} = {3, 4} \cup {2} /\ {1, 2, 3, 4} = {2, 3, 4} \cup {1}
    OBVIOUS
  <2>3. IsFiniteSet({3, 4})
    BY <2>1, <2>2, FS_AddElement
  <2>4. IsFiniteSet({2, 3, 4})
    BY <2>2, <2>3, FS_AddElement
  <2>5. IsFiniteSet({1, 2, 3, 4})
    BY <2>2, <2>4, FS_AddElement
  <2> QED
    BY <2>1, <2>3, <2>4, <2>5
<1>4. s({1, 2, 3, 4}) = f[1] + s({2, 3, 4})
  BY <1>1, <1>2, <1>3, SumWithout
<1>5. s({2, 3, 4}) = f[2] + s({3, 4})
  BY <1>1, <1>2, <1>3, SumWithout
<1>6. s({3, 4}) = f[3] + s({4})
  BY <1>1, <1>2, <1>3, SumWithout
<1>7. s({4}) = f[4]
  BY <1>1, <1>3, OnlyTerm
<1> HIDE DEF s
<1>8. s({1, 2, 3, 4}) = 4 * c
  BY <1>1, <1>4, <1>5, <1>6, <1>7
<1> QED
  BY <1>2, <1>8 DEF s

QuarterGood(pool, first, price) ==
    LET y == View(Quarters(pool, first), price, 365).yield IN
    /\ first > 0 => /\ y.ttmPerToken = 4 * (pool \div 4)
                    /\ y.ttmPerToken = y.annualizedRunRatePerToken
                    /\ y.trailingYieldBps = y.annualizedYieldBps
                    /\ ~y.isAnnualized
    /\ first = 0 => y.isAnnualized
    /\ price = 0 <=> y.trailingYieldBps = NoYield

LEMMA QuartersYield ==
  ASSUME NEW pool \in Nat, NEW first \in 0..91, NEW price \in {0, 7}
  PROVE  QuarterGood(pool, first, price)
<1> DEFINE h == Quarters(pool, first)
           y == View(h, price, 365).yield
           T == Trailing(h, 365)
           c == pool \div 4
<1>1. /\ Rows(h) /\ DOMAIN h = 1..4 /\ pool \in Nat
      /\ \A i \in 1..4 : /\ h[i].rightsPool = pool /\ h[i].executedAt = first + 91 * (i - 1)
                         /\ h[i].status = "EXECUTED"
  <2>1. pool \in Nat /\ first \in Nat
    OBVIOUS
  <2>2. AreQuarters(h, pool, first)
    BY <2>1, QuartersAreRows
  <2> HIDE DEF h
  <2> QED
    BY <2>1, <2>2 DEF AreQuarters
<1>2. Executed(h) = 1..4
  BY <1>1 DEF Executed
<1>3. /\ IsFiniteSet(T) /\ T \subseteq 1..4 /\ c \in Nat
      /\ \A i \in 1..4 : PerToken(h)[i] = c
      /\ SumFunctionOnSet(PerToken(h), T) \in Nat
  <2>1. 365 \in Int
    OBVIOUS
  <2> HIDE DEF h
  <2>2. /\ IsFiniteSet(T) /\ T \subseteq Executed(h) /\ SumFunctionOnSet(PerToken(h), T) \in Nat
        /\ \A i \in Executed(h) : PerToken(h)[i] = h[i].rightsPool \div 4
    <3>1. Rows(h)
      BY <1>1
    <3> QED
      BY <2>1, <3>1, RowsFacts
  <2>3. c \in Nat
    BY <1>1
  <2> QED
    BY <1>1, <1>2, <2>2, <2>3
<1> DEFINE last == IF Past(h, 365) = {} THEN 0 ELSE PerToken(h)[Latest(h, 365)]
           ttm == SumFunctionOnSet(PerToken(h), T)
<1>4. /\ y.ttmPerToken = ttm
      /\ y.trailingYieldBps = Bps(ttm, ShownPrice(price))
      /\ y.annualizedRunRatePerToken = last * 4
      /\ y.annualizedYieldBps = Bps(last * 4, ShownPrice(price))
      /\ y.isAnnualized = (Cardinality(T) < 4)
  BY YieldIs
<1>5. \A i \in 1..4 : i \in T <=> first + 91 * (i - 1) > 0 /\ first + 91 * (i - 1) <= 365
  <2> HIDE DEF h
  <2> QED
    BY <1>1, <1>2 DEF Trailing, InTrailingYear
<1> HIDE DEF h, y, T, last, ttm, c
<1>6. ASSUME first > 0 PROVE ttm = 4 * c /\ last = c /\ ~y.isAnnualized
  <2>1. T = 1..4
    <3>1. \A i \in 1..4 : first + 91 * (i - 1) > 0 /\ first + 91 * (i - 1) <= 365
      BY <1>6
    <3> QED
      BY <1>3, <1>5, <3>1
  <2>2. ttm = 4 * c
    BY <1>3, <2>1, FourTerms DEF ttm
  <2>3. Cardinality(T) = 4
    <3>1. 1 \in Int /\ 4 \in Int /\ ~(1 > 4) /\ 4 - 1 + 1 = 4
      OBVIOUS
    <3>2. Cardinality(1..4) = 4
      BY <3>1, FS_Interval
    <3> QED
      BY <2>1, <3>2
  <2>4. ~(4 < 4)
    OBVIOUS
  <2>5. ~y.isAnnualized
    BY <1>4, <2>3, <2>4, Zenon
  <2>6. last = c
    <3>1. Past(h, 365) = 1..4
      BY <1>1, <1>2, <1>6 DEF Past
    <3>2. 4 \in Past(h, 365) /\ \A j \in Past(h, 365) : Later(h, 4, j)
      BY <1>1, <3>1 DEF Later
    <3>3. Latest(h, 365) \in Past(h, 365)
      BY <3>2 DEF Latest
    <3> QED
      BY <1>3, <3>1, <3>3 DEF last
  <2> QED
    BY <2>2, <2>5, <2>6
<1>7. ASSUME first = 0 PROVE y.isAnnualized
  <2>1. 1 \notin T /\ T \subseteq 2..4
    BY <1>3, <1>5, <1>7
  <2>2. Cardinality(2..4) = 3 /\ IsFiniteSet(2..4)
    <3>1. 2 \in Int /\ 4 \in Int /\ ~(2 > 4) /\ 4 - 2 + 1 = 3
      OBVIOUS
    <3> QED
      BY <3>1, FS_Interval
  <2>3. Cardinality(T) <= Cardinality(2..4)
    BY <2>1, <2>2, FS_Subset
  <2>4. Cardinality(T) \in Nat
    BY <1>3, FS_CardinalityType
  <2>5. Cardinality(T) < 4
    BY <2>2, <2>3, <2>4
  <2> QED
    BY <1>4, <2>5, Zenon
<1>8. price = 0 <=> y.trailingYieldBps = NoYield
  <2>1. CASE price = 0
    BY <1>4, <2>1 DEF Bps, ShownPrice
  <2>2. CASE price = 7
    <3>1. ttm \in Nat
      BY <1>3 DEF ttm
    <3>2. y.trailingYieldBps = (ttm * BPS_DENOMINATOR) \div 7
      BY <1>4, <2>2 DEF Bps, ShownPrice
    <3>3. (ttm * BPS_DENOMINATOR) \div 7 >= 0
      BY <3>1 DEF BPS_DENOMINATOR
    <3> QED
      BY <2>2, <3>2, <3>3 DEF NoYield
  <2> QED
    BY <2>1, <2>2
<1>9. first > 0 => /\ y.ttmPerToken = 4 * c
                   /\ y.ttmPerToken = y.annualizedRunRatePerToken
                   /\ y.trailingYieldBps = y.annualizedYieldBps
                   /\ ~y.isAnnualized
  <2> SUFFICES ASSUME first > 0
               PROVE  /\ y.ttmPerToken = 4 * c
                      /\ y.ttmPerToken = y.annualizedRunRatePerToken
                      /\ y.trailingYieldBps = y.annualizedYieldBps
    BY <1>6
  <2>1. ttm = 4 * c /\ last = c /\ c * 4 = 4 * c
    BY <1>3, <1>6
  <2> QED
    BY <1>4, <2>1
<1> QED
  BY <1>7, <1>8, <1>9, Zenon DEF y, h, c, QuarterGood

HistoryGood(h, now) ==
    LET y == View(h, 7, now).yield
        more == View(Append(h, Paid(8, now, "EXECUTED")), 7, now).yield
        open == View(Append(h, Paid(8, now, "SNAPSHOTTED")), 7, now).yield
        after == View(Append(h, Paid(8, now, "EXECUTED")), 7, now + 365).yield
    IN /\ more.ttmPerToken = y.ttmPerToken + 2 /\ more.lastPerToken = 2
       /\ open = y
       /\ after.ttmPerToken = View(h, 7, now + 365).yield.ttmPerToken
       /\ View(h, 7, now).periods >= y.periodsCounted

LEMMA HistoryYield ==
  ASSUME NEW h, Rows(h), NEW now \in Int
  PROVE  HistoryGood(h, now)
<1>1. View(h, 7, now).periods >= View(h, 7, now).yield.periodsCounted
  <2>1. /\ View(h, 7, now).periods = Cardinality(Executed(h))
        /\ View(h, 7, now).yield.periodsCounted = Cardinality(Trailing(h, now))
    BY ViewIs, YieldIs
  <2>2. /\ Cardinality(Trailing(h, now)) <= Cardinality(Executed(h))
        /\ IsFiniteSet(Executed(h)) /\ IsFiniteSet(Trailing(h, now))
    BY RowsFacts
  <2>3. Cardinality(Trailing(h, now)) \in Nat /\ Cardinality(Executed(h)) \in Nat
    BY <2>2, FS_CardinalityType
  <2> QED
    BY <2>1, <2>2, <2>3
<1> QED
  BY <1>1, PaymentCounts, PaymentPasses, OpenIsNothing DEF HistoryGood

(* The same of every history there can be, however many periods it has, in *)
(* whatever order and whenever they were paid, and of every pool: what     *)
(* yieldMetrics shows is of what was paid in the year that ends now.       *)
THEOREM YieldsOfAnyHistory ==
  /\ \A pool \in Nat, first \in 0..91, price \in {0, 7} : QuarterGood(pool, first, price)
  /\ \A h : Rows(h) => \A now \in Int : HistoryGood(h, now)
BY QuartersYield, HistoryYield

(* The yields that yieldMetrics and distributionHistory show are of what   *)
(* was paid: a payment adds itself once, a snapshot that is not paid adds  *)
(* nothing, and after a year the payment is gone (YieldsAgree).            *)
THEOREM YieldsHold == YieldsAgree
<1>1. ASSUME NEW pool \in {4, 9}, NEW first \in 0..91, NEW price \in {0, 7}
      PROVE  QuarterGood(pool, first, price)
  <2>1. pool \in Nat
    OBVIOUS
  <2> QED
    BY <2>1, YieldsOfAnyHistory
<1>2. ASSUME NEW h \in Histories, NEW now \in {365, 500}
      PROVE  HistoryGood(h, now)
  <2>1. Rows(h) /\ now \in Int
    BY HistoriesAreRows
  <2> QED
    BY <2>1, YieldsOfAnyHistory
<1> QED
  BY <1>1, <1>2, Zenon DEF YieldsAgree, QuarterGood, HistoryGood

(* The conjuncts of QuotesAgree about one market.                          *)
MarketQuotes(p) ==
    LET preview == buildPreview(pools[p].input) IN
    /\ pools[p].sold = 0 => priceOf(p) = preview.pricing.startingPricePerToken
    /\ pools[p].sold = Supply(p) => priceOf(p) = preview.graduationPricePerToken
    /\ pools[p].sold \in 0..Supply(p) =>
          getMarketView(p).tokenMarketCap \in
             (preview.pricing.startingMarketCap - pools[p].input.terms.tokenSupply)
                ..preview.pricing.graduationMarketCap

LEMMA MarketQuotesAgree ==
  ASSUME FakeTypeOK, NEW p \in Pool, created(p)
  PROVE  /\ MarketQuotes(p)
         /\ StartPrice(p) = buildPreview(pools[p].input).pricing.startingPricePerToken
<1> DEFINE input == pools[p].input
           n == input.terms.tokenSupply
           pricing == deriveLaunchPricing(input.terms, input.graduationMultiple)
           preview == buildPreview(input)
           c == pricing.startingMarketCap  g == pricing.graduationMarketCap
<1>1. input \in Launchable /\ n \in Nat \ {0}
  BY CreatedFacts
<1>2. c \in Nat /\ g \in Nat /\ c <= g /\ pricing.startingPricePerToken = c \div n
  BY <1>1, PricingTyped
<1>3. poolInput(p).startingMarketCap = c /\ poolInput(p).graduationMarketCap = g
  BY DEF poolInput
<1>4. preview.pricing = pricing /\ preview.graduationPricePerToken = g \div n
  BY DEF buildPreview
<1>5. StartPrice(p) = c \div n /\ EndPrice(p) = g \div n
  BY <1>3 DEF StartPrice, EndPrice
<1>6. getMarketView(p).tokenMarketCap = priceOf(p) * n
  BY DEF getMarketView, state
<1> HIDE DEF input, n, pricing, preview, c, g
<1>7. /\ pools[p].sold = 0 => priceOf(p) = c \div n
      /\ pools[p].sold = Supply(p) => priceOf(p) = g \div n
      /\ pools[p].sold \in 0..Supply(p) => priceOf(p) \in (c \div n)..(g \div n)
  BY <1>5, PriceBetween
<1>8. pools[p].sold \in 0..Supply(p) => getMarketView(p).tokenMarketCap \in (c - n)..g
  BY <1>1, <1>2, <1>6, <1>7, CapBetween
<1>9. /\ preview.pricing.startingMarketCap = c /\ preview.pricing.graduationMarketCap = g
      /\ preview.pricing.startingPricePerToken = c \div n
  BY <1>2, <1>4 DEF c, g
<1>10. /\ pools[p].sold = 0 => priceOf(p) = preview.pricing.startingPricePerToken
       /\ pools[p].sold = Supply(p) => priceOf(p) = preview.graduationPricePerToken
       /\ pools[p].sold \in 0..Supply(p) =>
             getMarketView(p).tokenMarketCap \in
                (preview.pricing.startingMarketCap - n)..preview.pricing.graduationMarketCap
  BY <1>4, <1>7, <1>8, <1>9
<1>11. StartPrice(p) = preview.pricing.startingPricePerToken
  BY <1>5, <1>9
<1> QED
  BY <1>10, <1>11, Zenon DEF MarketQuotes, input, n, preview

(* What is sold is what the wallets have, so the price is never below the  *)
(* one the market opened at.                                               *)
LEMMA SoldAndPrice ==
  ASSUME LedgersInv, NEW p \in Pool, created(p)
  PROVE  pools[p].sold >= 0 /\ priceOf(p) >= StartPrice(p) /\ StartPrice(p) \in Nat
<1>1. FakeTypeOK /\ TokensAdd(p)
  BY DEF LedgersInv
<1> DEFINE b == balances[p]
           rest == SumFunctionOnSet(b, Owners \ {AUTHORITY})
           sold == pools[p].sold
<1>2. b \in [Owners -> Int] /\ AUTHORITY \in Owners /\ IsFiniteSet(Owners)
  BY <1>1, OwnersFinite DEF FakeTypeOK, Owners
<1>3. SumFunction(b) = b[AUTHORITY] + rest
  <2>1. SumFunction(b) = SumFunctionOnSet(b, Owners)
    BY <1>2 DEF SumFunction
  <2>2. \A o \in Owners : b[o] \in Int
    BY <1>2
  <2> QED
    BY <1>2, <2>1, <2>2, SumWithout
<1>4. rest \in Nat
  <2>1. \A o \in Owners \ {AUTHORITY} : b[o] \in Nat
    BY <1>1, <1>2 DEF TokensAdd, Owners
  <2>2. IsFiniteSet(Owners \ {AUTHORITY})
    BY <1>2, FS_Subset
  <2> QED
    BY <2>1, <2>2, SumIsNat
<1>5. sold = rest
  <2>1. sold = Supply(p) - b[AUTHORITY] /\ SumFunction(b) = Supply(p)
    BY <1>1 DEF TokensAdd
  <2>2. b[AUTHORITY] \in Int
    BY <1>2
  <2> HIDE DEF b, rest, sold
  <2> QED
    BY <1>3, <1>4, <2>1, <2>2
<1>6. sold \in Nat
  BY <1>4, <1>5
<1> DEFINE s == StartPrice(p)  e == EndPrice(p)  supply == Supply(p)
           d == e - s
           x == (d * sold) \div supply
<1>7. s \in Nat /\ e \in Nat /\ s <= e /\ supply \in Nat \ {0} /\ priceOf(p) = s + x
  BY <1>1, PriceIs, CreatedFacts, PricesGrow
<1>8. x >= 0
  <2> HIDE DEF s, e, supply, sold, d
  <2>1. d \in Nat
    BY <1>7 DEF d
  <2> DEFINE y == d * sold
  <2>2. y \in Nat
    BY <1>6, <2>1, ProductType
  <2> HIDE DEF y
  <2>3. y \div supply \in Nat
    BY <1>7, <2>2
  <2> QED
    BY <2>3 DEF y
<1> HIDE DEF s, x
<1>9. x \in Int
  <2>1. d * sold \in Int
    BY <1>6, <1>7
  <2> QED
    BY <1>7, <2>1, DivType DEF x
<1> QED
  BY <1>6, <1>7, <1>8, <1>9 DEF s

(* Of any trade. *)
AnyTradeQuoted ==
    \A p \in Pool : created(p) =>
        \A side \in {"BUY", "SELL"}, n \in Nat \ {0} : QuoteGood(p, side, n, priceOf(p) = 0)

LEMMA TradesQuoted == LedgersInv => AnyTradeQuoted
<1> SUFFICES ASSUME LedgersInv, NEW p \in Pool, created(p),
                    NEW side \in {"BUY", "SELL"}, NEW n \in Nat \ {0}
             PROVE  QuoteGood(p, side, n, priceOf(p) = 0)
  BY DEF AnyTradeQuoted
<1>1. FakeTypeOK
  BY DEF LedgersInv
<1>2. priceOf(p) \in Nat
  <2>1. priceOf(p) \in Int
    BY <1>1, PriceIs
  <2> QED
    BY <2>1, SoldAndPrice
<1>3. pools[p].input.monetization = DEMO_PROTOCOL_CONFIG
  BY <1>1, CreatedFacts, LaunchableTerms
<1> QED
  BY <1>2, <1>3, QuoteCovers

(* An exact-output quote of any size, on every market FakeChain reaches,   *)
(* names an input that buys the output when it is quoted as an input; only *)
(* where the price is 0 is there none, or one that costs nothing.          *)
THEOREM EveryTradeQuoted == FakeSpec => []AnyTradeQuoted
BY TradesQuoted, LedgersInductive, PTL

(* Every quote of the fake market covers what it promises, there is one    *)
(* and it has a price unless the preview showed none, a market opens and   *)
(* graduates at the prices of its preview, and yields are of what was paid *)
(* (QuotesAgree, of quoteOut, priceOf, buildPreview, yieldMetrics).        *)
THEOREM QuotesCover == FakeSpec => []QuotesAgree
<1>1. LedgersInv => QuotesAgree
  <2> SUFFICES ASSUME LedgersInv PROVE QuotesAgree
    OBVIOUS
  <2>1. FakeTypeOK
    BY DEF LedgersInv
  <2> DEFINE none(p) == buildPreview(pools[p].input).pricing.startingPricePerToken = 0
  <2>2. ASSUME NEW p \in Pool, created(p)
        PROVE  MarketQuotes(p) /\ (priceOf(p) = 0 => none(p))
    <3>1. /\ MarketQuotes(p)
          /\ StartPrice(p) = buildPreview(pools[p].input).pricing.startingPricePerToken
      BY <2>1, <2>2, MarketQuotesAgree
    <3>2. priceOf(p) >= StartPrice(p) /\ StartPrice(p) \in Nat
      BY <2>2, SoldAndPrice
    <3>3. priceOf(p) = 0 => StartPrice(p) = 0
      BY <3>2
    <3> QED
      BY <3>1, <3>3
  <2>3. ASSUME NEW p \in Pool, created(p), NEW side \in {"BUY", "SELL"}, NEW n \in 1..(2 * Unit)
        PROVE  QuoteGood(p, side, n, none(p))
    <3>1. n \in Nat \ {0}
      BY FakeAssumption
    <3>2. QuoteGood(p, side, n, priceOf(p) = 0)
      BY <2>3, <3>1, TradesQuoted DEF AnyTradeQuoted
    <3>3. priceOf(p) = 0 => none(p)
      BY <2>2, <2>3
    <3> HIDE DEF none
    <3> QED
      BY <3>2, <3>3, Zenon DEF QuoteGood
  <2>4. YieldsAgree
    BY YieldsHold
  <2>5. ASSUME NEW p \in Pool, created(p), NEW side \in {"BUY", "SELL"}, NEW n \in 1..(2 * Unit)
        PROVE  LET out == parseSwapAmount([amountIn |-> Absent, amountOut |-> n, mode |-> Absent])
                   q == quoteView(p, side, out.amount, out.mode)
                   in == parseSwapAmount([amountIn |-> q.pay, amountOut |-> Absent, mode |-> Absent])
               IN
               IF Quotable(p, side, out.amount, out.mode) /\ q.pay > 0
               THEN /\ Quotable(p, side, in.amount, in.mode)
                    /\ quoteView(p, side, in.amount, in.mode).receive >= n
                    /\ side = "BUY" =>
                          /\ q.protocolFee + q.startupShare + q.founderStackFee = q.poolFee
                          /\ 100 * q.poolFee <= q.pay
               ELSE buildPreview(pools[p].input).pricing.startingPricePerToken = 0
    BY <2>3, <2>5, Zenon DEF QuoteGood
  <2> QED
    BY <2>2, <2>4, <2>5, Zenon DEF QuotesAgree, MarketQuotes
<1> QED
  BY <1>1, LedgersInductive, PTL

-----------------------------------------------------------------------------
(* The claim tree and the batches.                                         *)

(* Induction up to a number. *)
LEMMA UpTo ==
  ASSUME NEW n \in Nat, NEW S, 0 \in S, \A k \in 0..(n - 1) : k \in S => k + 1 \in S
  PROVE  \A k \in 0..n : k \in S
<1> DEFINE F == {k \in 0..n : k \notin S}
<1> SUFFICES ASSUME F # {} PROVE FALSE
  OBVIOUS
<1>1. PICK m \in F : \A k \in F : ~(<<k, m>> \in OpToRel(<, Nat))
  <2>1. F \subseteq Nat
    OBVIOUS
  <2> HIDE DEF F
  <2> QED
    BY <2>1, NatLessThanWellFounded, WFMin
<1>2. m \in 0..n /\ m \notin S /\ m # 0
  OBVIOUS
<1>3. m - 1 \in 0..(n - 1) /\ m - 1 \in Nat /\ m - 1 < m /\ m \in Nat /\ m - 1 + 1 = m
  BY <1>2
<1>4. <<m - 1, m>> \in OpToRel(<, Nat)
  BY <1>3 DEF OpToRel
<1>5. m - 1 \notin F
  BY <1>1, <1>4
<1>6. m - 1 \in S
  BY <1>2, <1>3, <1>5
<1> QED
  BY <1>2, <1>3, <1>6

-----------------------------------------------------------------------------
(* Putting a finite set in order.                                          *)

TotalOrder(S, R) ==
    /\ \A a \in S : <<a, a>> \notin R
    /\ \A a, b \in S : a # b => <<a, b>> \in R \/ <<b, a>> \in R
    /\ \A a, b, c \in S : <<a, b>> \in R /\ <<b, c>> \in R => <<a, c>> \in R

InOrderOf(s, S, R) ==
    /\ s \in [1..Cardinality(S) -> S]
    /\ \A i, j \in 1..Cardinality(S) : i < j => <<s[i], s[j]>> \in R

LEMMA LastExists ==
  ASSUME NEW S, IsFiniteSet(S), S # {}, NEW R, TotalOrder(S, R)
  PROVE  \E m \in S : \A a \in S \ {m} : <<a, m>> \in R
<1> DEFINE Has(T) == \E m \in T : \A a \in T \ {m} : <<a, m>> \in R
           F == {T \in SUBSET S : T # {} /\ ~Has(T)}
<1> SUFFICES ASSUME F # {} PROVE FALSE
  BY S \in SUBSET S
<1>1. PICK T \in F : \A U \in SUBSET T : U \in F => U = T
  <2>1. F \subseteq SUBSET S
    OBVIOUS
  <2> HIDE DEF F
  <2> QED
    BY <2>1, MinimalSubset
<1>2. T \in SUBSET S /\ T # {} /\ ~Has(T)
  OBVIOUS
<1>3. PICK x \in T : TRUE
  BY <1>2
<1> DEFINE U == T \ {x}
<1>4. U = {} \/ Has(U)
  <2>1. U \in SUBSET T /\ U # T /\ U \in SUBSET S
    BY <1>2
  <2> HIDE DEF Has, U
  <2> QED
    BY <1>1, <2>1
<1>5. U # {}
  BY <1>2
<1>6. PICK m \in U : \A a \in U \ {m} : <<a, m>> \in R
  BY <1>4, <1>5
<1>7. x \in S /\ m \in S /\ x # m
  BY <1>2
<1>8. CASE <<x, m>> \in R
  BY <1>2, <1>6, <1>8
<1>9. CASE <<m, x>> \in R
  <2>1. \A a \in T \ {x} : <<a, x>> \in R
    <3> SUFFICES ASSUME NEW a \in T \ {x} PROVE <<a, x>> \in R
      OBVIOUS
    <3>1. a = m \/ <<a, m>> \in R
      BY <1>6
    <3> QED
      BY <1>2, <1>7, <1>9, <3>1 DEF TotalOrder
  <2> QED
    BY <1>2, <2>1
<1> QED
  BY <1>7, <1>8, <1>9 DEF TotalOrder

LEMMA OrderExists ==
  ASSUME NEW S, IsFiniteSet(S), NEW R, TotalOrder(S, R)
  PROVE  \E s : InOrderOf(s, S, R)
<1> DEFINE F == {T \in SUBSET S : ~ \E s : InOrderOf(s, T, R)}
<1> SUFFICES ASSUME F # {} PROVE FALSE
  BY S \in SUBSET S
<1>1. PICK T \in F : \A U \in SUBSET T : U \in F => U = T
  <2>1. F \subseteq SUBSET S
    OBVIOUS
  <2> HIDE DEF F
  <2> QED
    BY <2>1, MinimalSubset
<1>2. T \in SUBSET S /\ ~ \E s : InOrderOf(s, T, R)
  OBVIOUS
<1>3. IsFiniteSet(T) /\ Cardinality(T) \in Nat
  BY <1>2, FS_Subset, FS_CardinalityType
<1>4. TotalOrder(T, R)
  BY <1>2 DEF TotalOrder
<1>5. CASE T = {}
  <2>1. Cardinality(T) = 0
    BY <1>5, FS_EmptySet
  <2> DEFINE s == [i \in 1..0 |-> i]
  <2>2. InOrderOf(s, T, R)
    <3>1. 1..0 = {}
      OBVIOUS
    <3>2. s \in [1..Cardinality(T) -> T]
      BY <2>1, <3>1
    <3> QED
      BY <2>1, <3>1, <3>2 DEF InOrderOf
  <2> QED
    BY <1>2, <2>2
<1>6. CASE T # {}
  <2>1. PICK m \in T : \A a \in T \ {m} : <<a, m>> \in R
    BY <1>3, <1>4, <1>6, LastExists
  <2> DEFINE U == T \ {m}
             k == Cardinality(U)
             n == Cardinality(T)
  <2>2. k = n - 1 /\ k \in Nat /\ n = k + 1
    <3>1. Cardinality(U) = Cardinality(T) - 1 /\ IsFiniteSet(U)
      BY <1>3, FS_RemoveElement
    <3>2. k \in Nat
      BY <3>1, FS_CardinalityType
    <3> QED
      BY <1>3, <3>1, <3>2
  <2>3. PICK s : InOrderOf(s, U, R)
    <3>1. U \in SUBSET T /\ U # T /\ U \in SUBSET S
      BY <1>2
    <3> HIDE DEF U
    <3> QED
      BY <1>1, <3>1
  <2>4. s \in [1..k -> U] /\ \A i, j \in 1..k : i < j => <<s[i], s[j]>> \in R
    BY <2>3 DEF InOrderOf
  <2> HIDE DEF k, n
  <2> DEFINE f == [i \in 1..n |-> IF i \in 1..k THEN s[i] ELSE m]
  <2>5. \A i \in 1..n : i \in 1..k \/ i = n
    BY <2>2
  <2>6. n \notin 1..k
    BY <2>2
  <2>7. f \in [1..n -> T]
    BY <2>4
  <2>8. ASSUME NEW i \in 1..n, NEW j \in 1..n, i < j PROVE <<f[i], f[j]>> \in R
    <3>1. i \in 1..k
      BY <2>2, <2>8
    <3>2. f[i] = s[i] /\ s[i] \in T \ {m}
      BY <2>4, <3>1
    <3>3. CASE j \in 1..k
      BY <2>4, <2>8, <3>1, <3>2, <3>3
    <3>4. CASE j = n
      BY <2>1, <2>6, <3>2, <3>4
    <3> QED
      BY <2>5, <3>3, <3>4
  <2> HIDE DEF f
  <2>9. InOrderOf(f, T, R)
    BY <2>7, <2>8 DEF InOrderOf, n
  <2> QED
    BY <1>2, <2>9
<1> QED
  BY <1>5, <1>6

(* Every member once. *)
LEMMA InOrderIs ==
  ASSUME NEW S, IsFiniteSet(S), NEW R, TotalOrder(S, R)
  PROVE  LET s == InOrder(S, R)  n == Cardinality(S) IN
         /\ n \in Nat /\ s = [i \in 1..n |-> s[i]] /\ DOMAIN s = 1..n /\ \A i \in 1..n : s[i] \in S
         /\ \A i, j \in 1..n : s[i] = s[j] => i = j
         /\ \A a \in S : \E i \in 1..n : s[i] = a
<1> DEFINE s == InOrder(S, R)  n == Cardinality(S)
<1>1. n \in Nat
  BY FS_CardinalityType
<1>2. s \in [1..n -> S] /\ \A i, j \in 1..n : i < j => <<s[i], s[j]>> \in R
  <2>1. \E t \in [1..Cardinality(S) -> S] :
           \A i, j \in 1..Cardinality(S) : i < j => <<t[i], t[j]>> \in R
    BY OrderExists DEF InOrderOf
  <2> QED
    BY <2>1 DEF InOrder
<1> HIDE DEF s, n
<1>3. \A i, j \in 1..n : s[i] = s[j] => i = j
  <2> SUFFICES ASSUME NEW i \in 1..n, NEW j \in 1..n, s[i] = s[j], i # j PROVE FALSE
    OBVIOUS
  <2>1. s[i] \in S /\ <<s[i], s[i]>> \notin R
    BY <1>2 DEF TotalOrder
  <2>2. i < j \/ j < i
    BY <1>1
  <2> QED
    BY <1>2, <2>1, <2>2
<1>4. \A a \in S : \E i \in 1..n : s[i] = a
  <2> DEFINE A == {s[i] : i \in 1..n}
  <2>1. A \subseteq S
    BY <1>2
  <2>2. IsFiniteSet(1..n) /\ Cardinality(1..n) = n
    <3>1. 1 \in Int /\ n \in Int /\ (1 > n => n = 0) /\ n - 1 + 1 = n
      BY <1>1
    <3> QED
      BY <3>1, FS_Interval
  <2>3. s \in Surjection(1..n, A) /\ s \in Injection(1..n, A)
    BY <1>2, <1>3 DEF Surjection, Injection, IsInjective
  <2> HIDE DEF A
  <2>4. Cardinality(A) = n
    BY <2>2, <2>3, FS_Surjection
  <2>5. A = S
    <3>1. Cardinality(S) = n
      BY DEF n
    <3>2. ~(n < n)
      BY <1>1
    <3> QED
      BY <2>1, <2>4, <3>1, <3>2, FS_Subset
  <2> QED
    BY <2>5 DEF A
<1>5. s = [i \in 1..n |-> s[i]] /\ DOMAIN s = 1..n /\ \A i \in 1..n : s[i] \in S
  BY <1>2
<1> QED
  BY <1>1, <1>3, <1>4, <1>5 DEF s, n

-----------------------------------------------------------------------------
(* Folding a proof over a leaf.                                            *)

(* The iterator that defines the fold of the first n of a sequence. *)
Folds(it, b, s, n) ==
  it = [T \in SUBSET (1..n) |-> IF T = {} THEN b ELSE hashPair(it[T \ {Max(T)}], s[Max(T)])]

LEMMA FoldUnfolds ==
  ASSUME NEW b, NEW s, NEW n \in Nat, DOMAIN s = 1..n
  PROVE  FoldLeft(hashPair, b, s) = (CHOOSE it : Folds(it, b, s, n))[1..n]
BY DEF FoldLeft, MapThenFoldSet, Folds

LEMMA LastIsMax ==
  ASSUME NEW k \in Nat, NEW T \in SUBSET (1..k), k \in T
  PROVE  Max(T) = k
<1>1. k \in T /\ \A y \in T : k >= y
  OBVIOUS
<1>2. ASSUME NEW x \in T, \A y \in T : x >= y PROVE x = k
  BY <1>2
<1> QED
  BY <1>1, <1>2 DEF Max

LEMMA FoldsAt ==
  ASSUME NEW it, NEW b, NEW s, NEW n, Folds(it, b, s, n), NEW T \in SUBSET (1..n)
  PROVE  it[T] = IF T = {} THEN b ELSE hashPair(it[T \ {Max(T)}], s[Max(T)])
BY DEF Folds

LEMMA FoldsPrefix ==
  ASSUME NEW it, NEW b, NEW s, NEW n \in Nat, Folds(it, b, s, n), NEW k \in 0..(n - 1)
  PROVE  it[1..(k + 1)] = hashPair(it[1..k], s[k + 1]) /\ it[1..0] = b
<1>1. 1..(k + 1) \in SUBSET (1..n) /\ k + 1 \in 1..(k + 1) /\ k + 1 \in Nat
  OBVIOUS
<1>2. Max(1..(k + 1)) = k + 1
  BY <1>1, LastIsMax
<1>3. (1..(k + 1)) \ {k + 1} = 1..k
  OBVIOUS
<1>4. 1..0 = {} /\ 1..0 \in SUBSET (1..n)
  OBVIOUS
<1>5. it[1..(k + 1)] = hashPair(it[1..k], s[k + 1])
  <2> DEFINE T == 1..(k + 1)
  <2>1. T # {} /\ Max(T) = k + 1 /\ T \ {k + 1} = 1..k
    BY <1>1, <1>2, <1>3
  <2> HIDE DEF T
  <2>2. T \in SUBSET (1..n)
    BY <1>1 DEF T
  <2>3. it[T] = hashPair(it[T \ {Max(T)}], s[Max(T)])
    BY <2>1, <2>2, FoldsAt
  <2> QED
    BY <2>1, <2>3 DEF T
<1>6. it[1..0] = b
  BY <1>4, FoldsAt
<1> QED
  BY <1>5, <1>6

LEMMA FoldsExist ==
  ASSUME NEW b, NEW s, NEW n \in Nat
  PROVE  \E it : Folds(it, b, s, n)
<1> DEFINE Has == {k \in 0..n : \E it : Folds(it, b, s, k)}
<1>1. 0 \in Has
  <2> DEFINE it == [T \in SUBSET (1..0) |-> b]
  <2>1. 1..0 = {}
    OBVIOUS
  <2>2. Folds(it, b, s, 0)
    BY <2>1 DEF Folds
  <2> QED
    BY <2>2
<1>2. ASSUME NEW k \in 0..(n - 1), k \in Has PROVE k + 1 \in Has
  <2>1. PICK h : Folds(h, b, s, k)
    BY <1>2
  <2> DEFINE K == k + 1
             g == [T \in SUBSET (1..K) |-> IF K \in T THEN hashPair(h[T \ {K}], s[K]) ELSE h[T]]
             step(f, T) == IF T = {} THEN b ELSE hashPair(f[T \ {Max(T)}], s[Max(T)])
  <2>2. K \in 0..n /\ K \in Nat
    OBVIOUS
  <2>3. ASSUME NEW T \in SUBSET (1..K) PROVE g[T] = step(g, T)
    <3>1. CASE K \in T
      <4>1. Max(T) = K
        BY <2>2, <3>1, LastIsMax
      <4>2. T \ {K} \in SUBSET (1..K) /\ K \notin T \ {K}
        OBVIOUS
      <4>3. g[T \ {K}] = h[T \ {K}]
        BY <4>2
      <4>4. g[T] = hashPair(h[T \ {K}], s[K])
        BY <3>1
      <4> HIDE DEF g
      <4> QED
        BY <3>1, <4>1, <4>3, <4>4
    <3>2. CASE K \notin T
      <4>1. T \in SUBSET (1..k)
        <5>1. \A x \in 1..K : x = K \/ x \in 1..k
          OBVIOUS
        <5> QED
          BY <3>2, <5>1
      <4> DEFINE R == T \ {Max(T)}
      <4>2. h[T] = step(h, T)
        BY <2>1, <4>1, FoldsAt
      <4>3. R \in SUBSET (1..K) /\ K \notin R
        BY <3>2
      <4>4. g[T] = h[T] /\ g[R] = h[R]
        BY <3>2, <4>3
      <4> HIDE DEF g
      <4> QED
        BY <4>2, <4>4
    <3> QED
      BY <3>1, <3>2
  <2>4. g = [T \in SUBSET (1..K) |-> g[T]]
    OBVIOUS
  <2> HIDE DEF g
  <2>5. g = [T \in SUBSET (1..K) |-> step(g, T)]
    BY <2>3, <2>4
  <2>6. Folds(g, b, s, K)
    BY <2>5 DEF Folds
  <2> QED
    BY <2>2, <2>6
<1>3. \A k \in 0..n : k \in Has
  <2> HIDE DEF Has
  <2> QED
    BY <1>1, <1>2, UpTo
<1> QED
  BY <1>3

LEMMA TheFold ==
  ASSUME NEW b, NEW s, NEW n \in Nat, DOMAIN s = 1..n
  PROVE  \E it : Folds(it, b, s, n) /\ FoldLeft(hashPair, b, s) = it[1..n]
<1> DEFINE it == CHOOSE j : Folds(j, b, s, n)
<1>1. Folds(it, b, s, n)
  BY FoldsExist
<1> QED
  BY <1>1, FoldUnfolds

(* No proof leads from the leaf; and one more hash. *)
LEMMA FoldOfNone ==
  ASSUME NEW b
  PROVE  FoldLeft(hashPair, b, << >>) = b
<1>1. DOMAIN << >> = 1..0 /\ 1..0 = {} /\ 0 \in Nat
  OBVIOUS
<1>2. PICK it : Folds(it, b, << >>, 0) /\ FoldLeft(hashPair, b, << >>) = it[1..0]
  BY <1>1, TheFold
<1> QED
  BY <1>1, <1>2, FoldsAt

LEMMA FoldOfAppend ==
  ASSUME NEW b, NEW A, NEW s \in Seq(A), NEW x \in A
  PROVE  FoldLeft(hashPair, b, Append(s, x)) = hashPair(FoldLeft(hashPair, b, s), x)
<1> DEFINE n == Len(s)
           t == Append(s, x)
<1>1. n \in Nat /\ n + 1 \in Nat /\ DOMAIN s = 1..n /\ DOMAIN t = 1..(n + 1)
  OBVIOUS
<1>2. \A i \in 1..n : t[i] = s[i]
  OBVIOUS
<1>3. t[n + 1] = x
  OBVIOUS
<1> HIDE DEF n, t
<1>4. PICK g : Folds(g, b, s, n) /\ FoldLeft(hashPair, b, s) = g[1..n]
  BY <1>1, TheFold
<1>5. PICK h : Folds(h, b, t, n + 1) /\ FoldLeft(hashPair, b, t) = h[1..(n + 1)]
  BY <1>1, TheFold
<1> DEFINE Same == {k \in 0..n : g[1..k] = h[1..k]}
<1>6. 0 \in Same
  <2>1. 1..0 = {}
    OBVIOUS
  <2>2. g[1..0] = b
    BY <1>4, <2>1, FoldsAt
  <2>3. h[1..0] = b
    BY <1>5, <2>1, FoldsAt
  <2> QED
    BY <1>1, <2>2, <2>3
<1>7. ASSUME NEW k \in 0..(n - 1), k \in Same PROVE k + 1 \in Same
  <2>1. k \in 0..(n + 1 - 1) /\ k + 1 \in 1..n /\ k + 1 \in 0..n
    BY <1>1
  <2>2. g[1..(k + 1)] = hashPair(g[1..k], s[k + 1])
    BY <1>1, <1>4, FoldsPrefix
  <2>3. h[1..(k + 1)] = hashPair(h[1..k], t[k + 1])
    BY <1>1, <1>5, <2>1, FoldsPrefix
  <2> QED
    BY <1>2, <1>7, <2>1, <2>2, <2>3
<1>8. n \in Same
  <2> HIDE DEF Same
  <2>1. \A k \in 0..n : k \in Same
    BY <1>1, <1>6, <1>7, UpTo
  <2> QED
    BY <1>1, <2>1
<1>9. h[1..(n + 1)] = hashPair(h[1..n], t[n + 1])
  <2>1. n \in 0..(n + 1 - 1)
    BY <1>1
  <2> QED
    BY <1>1, <1>5, <2>1, FoldsPrefix
<1> QED
  BY <1>3, <1>4, <1>5, <1>8, <1>9 DEF t

(* Two leaves that the same proof leads to the same root are the same. *)
LEMMA HashPairSame ==
  ASSUME NEW a, NEW b, NEW x, hashPair(a, x) = hashPair(b, x)
  PROVE  a = b
<1>1. {a, x} = {b, x}
  <2>1. hashPair(a, x).pair = {a, x} /\ hashPair(b, x).pair = {b, x}
    BY DEF hashPair
  <2> QED
    BY <2>1
<1> QED
  BY <1>1

LEMMA FoldSame ==
  ASSUME NEW a, NEW b, NEW A, NEW s \in Seq(A), FoldLeft(hashPair, a, s) = FoldLeft(hashPair, b, s)
  PROVE  a = b
<1> DEFINE n == Len(s)
<1>1. n \in Nat /\ DOMAIN s = 1..n
  OBVIOUS
<1> HIDE DEF n
<1>2. PICK g : Folds(g, a, s, n) /\ FoldLeft(hashPair, a, s) = g[1..n]
  BY <1>1, TheFold
<1>3. PICK h : Folds(h, b, s, n) /\ FoldLeft(hashPair, b, s) = h[1..n]
  BY <1>1, TheFold
<1> DEFINE Down == {k \in 0..n : g[1..k] = h[1..k] => a = b}
<1>4. 0 \in Down
  <2>1. 1..0 = {}
    OBVIOUS
  <2>2. g[1..0] = a
    BY <1>2, <2>1, FoldsAt
  <2>3. h[1..0] = b
    BY <1>3, <2>1, FoldsAt
  <2> QED
    BY <1>1, <2>2, <2>3
<1>5. ASSUME NEW k \in 0..(n - 1), k \in Down PROVE k + 1 \in Down
  <2>1. g[1..(k + 1)] = hashPair(g[1..k], s[k + 1])
    BY <1>1, <1>2, FoldsPrefix
  <2>2. h[1..(k + 1)] = hashPair(h[1..k], s[k + 1])
    BY <1>1, <1>3, FoldsPrefix
  <2>3. g[1..(k + 1)] = h[1..(k + 1)] => g[1..k] = h[1..k]
    BY <2>1, <2>2, HashPairSame
  <2>4. k + 1 \in 0..n
    BY <1>1
  <2> QED
    BY <1>5, <2>3, <2>4
<1>6. n \in Down
  <2> HIDE DEF Down
  <2>1. \A k \in 0..n : k \in Down
    BY <1>1, <1>4, <1>5, UpTo
  <2> QED
    BY <1>1, <2>1
<1> QED
  BY <1>2, <1>3, <1>6

-----------------------------------------------------------------------------
(* The levels of the tree.                                                *)

(* A level of m nodes: every wallet is under one of them, and his proof    *)
(* leads from his leaf to its hash.                                        *)
TreeLevel(level, proofs, payouts, m) ==
  /\ m \in Nat /\ level = [i \in 1..m |-> level[i]]
  /\ \A w \in DOMAIN payouts : \E i \in 1..m : w \in level[i].wallets
  /\ \A w \in DOMAIN payouts, i, j \in 1..m :
        w \in level[i].wallets /\ w \in level[j].wallets => i = j
  /\ DOMAIN proofs = DOMAIN payouts
  /\ \A w \in DOMAIN payouts : \E A : proofs[w] \in Seq(A)
  /\ \A w \in DOMAIN payouts, i \in 1..m : w \in level[i].wallets =>
        FoldLeft(hashPair, claimLeaf(w, payouts[w]), proofs[w]) = level[i].hash

LEMMA WiderSeq ==
  ASSUME NEW A, NEW B, A \subseteq B, NEW s \in Seq(A)
  PROVE  s \in Seq(B)
<1>1. PICK n \in Nat : s \in [1..n -> A]
  BY SeqDef
<1>2. s \in [1..n -> B]
  BY <1>1
<1> QED
  BY <1>2, SeqDef

LEMMA HashPairUnordered == ASSUME NEW a, NEW b PROVE hashPair(a, b) = hashPair(b, a)
<1>1. {a, b} = {b, a}
  OBVIOUS
<1> QED
  BY <1>1 DEF hashPair

LEMMA LevelLength ==
  ASSUME NEW level, NEW m \in Nat, level = [i \in 1..m |-> level[i]]
  PROVE  Len(level) = m /\ DOMAIN level = 1..m
BY AFunctionOnItsRange

LEMMA Halves ==
  ASSUME NEW m \in Nat, NEW i \in 1..m
  PROVE  /\ (m + 1) \div 2 \in Nat /\ (i + 1) \div 2 \in 1..((m + 1) \div 2)
         /\ i % 2 = 1 => i = 2 * ((i + 1) \div 2) - 1
         /\ i % 2 # 1 => i = 2 * ((i + 1) \div 2)
OBVIOUS

LEMMA NodesBelow ==
  ASSUME NEW m \in Nat, NEW j \in 1..((m + 1) \div 2)
  PROVE  /\ 2 * j - 1 \in 1..m /\ (2 * j - 1) % 2 = 1 /\ (2 * j) % 2 # 1
         /\ 2 * j <= m => 2 * j \in 1..m
         /\ ~(2 * j <= m) => 2 * j \notin 1..m
         /\ 2 * j - 1 + 1 = 2 * j
OBVIOUS

(* The nodes of the next level. *)
LEMMA JoinedNode ==
  ASSUME NEW a, NEW b
  PROVE  /\ Joined(a, b).hash = hashPair(a.hash, b.hash)
         /\ \A w : w \in Joined(a, b).wallets <=> w \in a.wallets \/ w \in b.wallets
BY DEF Joined

LEMMA NextLevelIs ==
  ASSUME NEW level, NEW m \in Nat, level = [i \in 1..m |-> level[i]]
  PROVE  LET up == NextLevel(level)  h == (m + 1) \div 2 IN
         /\ up = [j \in 1..h |-> up[j]]
         /\ \A j \in 1..h : up[j] = IF 2 * j <= m THEN Joined(level[2 * j - 1], level[2 * j])
                                    ELSE level[2 * j - 1]
<1>1. Len(level) = m
  BY LevelLength
<1> QED
  BY <1>1 DEF NextLevel

LEMMA NextProofIs ==
  ASSUME NEW level, NEW proofs, NEW payouts, NEW m, TreeLevel(level, proofs, payouts, m),
         NEW w \in DOMAIN payouts, NEW i \in 1..m, w \in level[i].wallets
  PROVE  NextProofs(level, proofs)[w] =
            IF Sibling(i) \in 1..m THEN Append(proofs[w], level[Sibling(i)].hash) ELSE proofs[w]
<1>1. DOMAIN level = 1..m
  BY LevelLength DEF TreeLevel
<1>2. (CHOOSE j \in DOMAIN level : w \in level[j].wallets) = i
  BY <1>1 DEF TreeLevel
<1>3. w \in DOMAIN proofs
  BY DEF TreeLevel
<1> QED
  BY <1>1, <1>2, <1>3 DEF NextProofs

(* A round keeps the level. *)
LEMMA TreeRound ==
  ASSUME NEW level, NEW proofs, NEW payouts, NEW m, TreeLevel(level, proofs, payouts, m)
  PROVE  TreeLevel(NextLevel(level), NextProofs(level, proofs), payouts, (m + 1) \div 2)
<1> DEFINE D == DOMAIN payouts
           up == NextLevel(level)
           ups == NextProofs(level, proofs)
           h == (m + 1) \div 2
<1>0. m \in Nat /\ level = [i \in 1..m |-> level[i]]
  BY DEF TreeLevel
<1>1. up = [j \in 1..h |-> up[j]]
  BY <1>0, NextLevelIs
<1>2. \A j \in 1..h : up[j] = IF 2 * j <= m THEN Joined(level[2 * j - 1], level[2 * j])
                              ELSE level[2 * j - 1]
  BY <1>0, NextLevelIs
<1>3. DOMAIN ups = D
  BY DEF NextProofs, TreeLevel
<1>4. h \in Nat
  BY <1>0
<1> HIDE DEF up, ups, h
<1>5. ASSUME NEW w \in D, NEW j \in 1..h, w \in up[j].wallets
      PROVE  \/ w \in level[2 * j - 1].wallets
             \/ 2 * j <= m /\ w \in level[2 * j].wallets
  BY <1>2, <1>5, JoinedNode
<1>6. ASSUME NEW w \in D PROVE \E j \in 1..h : w \in up[j].wallets
  <2>1. PICK i \in 1..m : w \in level[i].wallets
    BY DEF TreeLevel
  <2> DEFINE j == (i + 1) \div 2
  <2>2. j \in 1..h /\ (i = 2 * j - 1 \/ i = 2 * j) /\ i <= m
    BY <1>0, Halves DEF h
  <2> HIDE DEF j
  <2>3. up[j] = IF 2 * j <= m THEN Joined(level[2 * j - 1], level[2 * j]) ELSE level[2 * j - 1]
    BY <1>2, <2>2
  <2>4. w \in up[j].wallets
    <3>1. CASE 2 * j <= m
      BY <2>1, <2>2, <2>3, <3>1, JoinedNode
    <3>2. CASE ~(2 * j <= m)
      <4>1. i = 2 * j - 1
        BY <2>2, <3>2
      <4> QED
        BY <2>1, <2>3, <3>2, <4>1
    <3> QED
      BY <3>1, <3>2
  <2> QED
    BY <2>2, <2>4
<1>7. ASSUME NEW w \in D, NEW i \in 1..h, NEW j \in 1..h, w \in up[i].wallets, w \in up[j].wallets
      PROVE  i = j
  <2>1. PICK a \in 1..m : w \in level[a].wallets /\ (a = 2 * i - 1 \/ a = 2 * i)
    BY <1>0, <1>5, <1>7, NodesBelow DEF h
  <2>2. PICK b \in 1..m : w \in level[b].wallets /\ (b = 2 * j - 1 \/ b = 2 * j)
    BY <1>0, <1>5, <1>7, NodesBelow DEF h
  <2>3. a = b
    BY <2>1, <2>2 DEF TreeLevel
  <2> QED
    BY <1>4, <2>1, <2>2, <2>3
<1>8. ASSUME NEW w \in D, NEW i \in 1..m, w \in level[i].wallets
      PROVE  /\ \E A : ups[w] \in Seq(A)
             /\ FoldLeft(hashPair, claimLeaf(w, payouts[w]), ups[w]) =
                   IF Sibling(i) \in 1..m THEN hashPair(level[i].hash, level[Sibling(i)].hash)
                   ELSE level[i].hash
  <2>1. PICK A : proofs[w] \in Seq(A)
    BY DEF TreeLevel
  <2>2. FoldLeft(hashPair, claimLeaf(w, payouts[w]), proofs[w]) = level[i].hash
    BY <1>8 DEF TreeLevel
  <2>3. ups[w] = IF Sibling(i) \in 1..m THEN Append(proofs[w], level[Sibling(i)].hash) ELSE proofs[w]
    BY <1>8, NextProofIs DEF ups
  <2>4. CASE Sibling(i) \in 1..m
    <3> DEFINE x == level[Sibling(i)].hash
               B == A \cup {x}
    <3>1. proofs[w] \in Seq(B) /\ x \in B
      <4>1. A \subseteq B
        OBVIOUS
      <4> HIDE DEF B
      <4>2. proofs[w] \in Seq(B)
        BY <2>1, <4>1, WiderSeq
      <4> QED
        BY <4>2 DEF B
    <3> HIDE DEF x, B
    <3>2. Append(proofs[w], x) \in Seq(B)
      BY <3>1
    <3>3. FoldLeft(hashPair, claimLeaf(w, payouts[w]), Append(proofs[w], x))
             = hashPair(FoldLeft(hashPair, claimLeaf(w, payouts[w]), proofs[w]), x)
      BY <3>1, FoldOfAppend
    <3>4. ups[w] = Append(proofs[w], x)
      BY <2>3, <2>4 DEF x
    <3> QED
      BY <2>2, <2>4, <3>2, <3>3, <3>4 DEF x
  <2>5. CASE Sibling(i) \notin 1..m
    BY <2>1, <2>2, <2>3, <2>5
  <2> QED
    BY <2>4, <2>5
<1>9. ASSUME NEW w \in D PROVE \E A : ups[w] \in Seq(A)
  <2>1. PICK i \in 1..m : w \in level[i].wallets
    BY DEF TreeLevel
  <2> QED
    BY <1>8, <2>1
<1>10. ASSUME NEW w \in D, NEW j \in 1..h, w \in up[j].wallets
       PROVE  FoldLeft(hashPair, claimLeaf(w, payouts[w]), ups[w]) = up[j].hash
  <2> DEFINE l == 2 * j - 1  r == 2 * j
  <2>1. /\ l \in 1..m /\ l % 2 = 1 /\ r % 2 # 1 /\ l + 1 = r /\ r - 1 = l
        /\ r <= m => r \in 1..m
        /\ ~(r <= m) => r \notin 1..m
    <3>1. j \in 1..((m + 1) \div 2)
      BY DEF h
    <3>2. j \in Int
      BY <1>4
    <3>3. l + 1 = r /\ r - 1 = l
      BY <3>2
    <3> QED
      BY <1>0, <3>1, <3>3, NodesBelow
  <2>2. Sibling(l) = r /\ Sibling(r) = l
    <3> HIDE DEF l, r
    <3> QED
      BY <2>1 DEF Sibling
  <2>3. up[j] = IF r <= m THEN Joined(level[l], level[r]) ELSE level[l]
    BY <1>2
  <2>4. w \in level[l].wallets \/ (r <= m /\ w \in level[r].wallets)
    BY <1>5, <1>10
  <2> HIDE DEF l, r
  <2>5. CASE r <= m /\ w \in level[l].wallets
    <3>1. FoldLeft(hashPair, claimLeaf(w, payouts[w]), ups[w]) = hashPair(level[l].hash, level[r].hash)
      BY <1>8, <2>1, <2>2, <2>5
    <3> QED
      BY <2>3, <2>5, <3>1, JoinedNode
  <2>6. CASE r <= m /\ w \in level[r].wallets
    <3>1. FoldLeft(hashPair, claimLeaf(w, payouts[w]), ups[w]) = hashPair(level[r].hash, level[l].hash)
      BY <1>8, <2>1, <2>2, <2>6
    <3>2. hashPair(level[r].hash, level[l].hash) = hashPair(level[l].hash, level[r].hash)
      BY HashPairUnordered
    <3> QED
      BY <2>3, <2>6, <3>1, <3>2, JoinedNode
  <2>7. CASE ~(r <= m)
    <3>1. FoldLeft(hashPair, claimLeaf(w, payouts[w]), ups[w]) = level[l].hash
      BY <1>8, <2>1, <2>2, <2>4, <2>7
    <3> QED
      BY <2>3, <2>7, <3>1
  <2> QED
    BY <2>4, <2>5, <2>6, <2>7
<1>11. TreeLevel(up, ups, payouts, h)
  BY <1>1, <1>3, <1>4, <1>6, <1>7, <1>9, <1>10 DEF TreeLevel
<1> QED
  BY <1>11 DEF up, ups, h

NextRound(t) ==
  IF Len(t.level) > 1
  THEN [level |-> NextLevel(t.level), proofs |-> NextProofs(t.level, t.proofs)]
  ELSE t

RoundsFrom(after, first, n) ==
  after = [k \in 0..n |-> IF k = 0 THEN first ELSE NextRound(after[k - 1])]

LEMMA RoundAt ==
  ASSUME NEW after, NEW first, NEW n, RoundsFrom(after, first, n), NEW k \in 0..n, k # 0
  PROVE  after[k] = NextRound(after[k - 1])
BY DEF RoundsFrom

LEMMA RoundsExist ==
  ASSUME NEW first, NEW n \in Nat
  PROVE  \E after : RoundsFrom(after, first, n)
<1> DEFINE Has == {k \in 0..n : \E f : RoundsFrom(f, first, k)}
<1>1. 0 \in Has
  <2> DEFINE f == [k \in 0..0 |-> first]
  <2>1. \A k \in 0..0 : k = 0
    OBVIOUS
  <2>2. RoundsFrom(f, first, 0)
    BY <2>1 DEF RoundsFrom
  <2> QED
    BY <2>2
<1>2. ASSUME NEW k \in 0..(n - 1), k \in Has PROVE k + 1 \in Has
  <2>1. PICK f : RoundsFrom(f, first, k)
    BY <1>2
  <2> DEFINE g == [i \in 0..(k + 1) |-> IF i = k + 1 THEN NextRound(f[k]) ELSE f[i]]
             step(h, i) == IF i = 0 THEN first ELSE NextRound(h[i - 1])
  <2>2. ASSUME NEW i \in 0..(k + 1) PROVE g[i] = step(g, i)
    <3>1. CASE i = k + 1
      <4>1. g[k] = f[k] /\ k \in 0..(k + 1) /\ i # 0 /\ i - 1 = k
        BY <3>1
      <4>2. g[i] = NextRound(f[k])
        BY <3>1
      <4> HIDE DEF g
      <4> QED
        BY <4>1, <4>2
    <3>2. CASE i # k + 1
      <4>1. i \in 0..k
        BY <3>2
      <4>2. f[i] = step(f, i)
        BY <2>1, <4>1 DEF RoundsFrom
      <4>3. g[i] = f[i]
        BY <3>2
      <4>4. i # 0 => i - 1 \in 0..(k + 1) /\ i - 1 # k + 1
        BY <4>1
      <4>5. i # 0 => g[i - 1] = f[i - 1]
        BY <4>4
      <4> HIDE DEF g
      <4> QED
        BY <4>2, <4>3, <4>5
    <3> QED
      BY <3>1, <3>2
  <2>3. g = [i \in 0..(k + 1) |-> g[i]]
    OBVIOUS
  <2> HIDE DEF g
  <2>4. g = [i \in 0..(k + 1) |-> step(g, i)]
    BY <2>2, <2>3
  <2>5. RoundsFrom(g, first, k + 1)
    BY <2>4 DEF RoundsFrom
  <2>6. k + 1 \in 0..n
    OBVIOUS
  <2> QED
    BY <2>5, <2>6
<1>3. \A k \in 0..n : k \in Has
  <2> HIDE DEF Has
  <2> QED
    BY <1>1, <1>2, UpTo
<1> QED
  BY <1>3

LEMMA RoundsAre ==
  ASSUME NEW payouts, Cardinality(DOMAIN payouts) \in Nat
  PROVE  RoundsFrom(Rounds(payouts), Leaves(payouts), Cardinality(DOMAIN payouts))
<1> DEFINE n == Cardinality(DOMAIN payouts)
           R == CHOOSE after : RoundsFrom(after, Leaves(payouts), n)
<1>1. RoundsFrom(R, Leaves(payouts), n)
  BY RoundsExist
<1>2. Rounds(payouts) = R
  BY DEF Rounds, RoundsFrom, NextRound
<1> QED
  BY <1>1, <1>2

NumbersInOrder(D) == {e \in D \X D : e[1] < e[2]}

LEMMA NumbersOrdered ==
  ASSUME NEW D, D \subseteq Int
  PROVE  TotalOrder(D, NumbersInOrder(D))
<1>1. \A a, b \in D : <<a, b>> \in NumbersInOrder(D) <=> a < b
  BY DEF NumbersInOrder
<1>2. \A a \in D : <<a, a>> \notin NumbersInOrder(D)
  BY <1>1
<1>3. \A a, b \in D : a # b => <<a, b>> \in NumbersInOrder(D) \/ <<b, a>> \in NumbersInOrder(D)
  BY <1>1
<1>4. \A a, b, c \in D :
         <<a, b>> \in NumbersInOrder(D) /\ <<b, c>> \in NumbersInOrder(D) => <<a, c>> \in NumbersInOrder(D)
  BY <1>1
<1> QED
  BY <1>2, <1>3, <1>4 DEF TotalOrder

(* The leaves are a level. *)
LEMMA LeavesAreLevel ==
  ASSUME NEW payouts, IsFiniteSet(DOMAIN payouts), DOMAIN payouts \subseteq Int
  PROVE  TreeLevel(Leaves(payouts).level, Leaves(payouts).proofs, payouts, Cardinality(DOMAIN payouts))
<1> DEFINE D == DOMAIN payouts
           n == Cardinality(D)
           s == InOrder(D, NumbersInOrder(D))
           level == [i \in 1..n |-> [hash |-> claimLeaf(s[i], payouts[s[i]]), wallets |-> {s[i]}]]
           proofs == [w \in D |-> << >>]
<1>1. /\ n \in Nat /\ DOMAIN s = 1..n /\ \A i \in 1..n : s[i] \in D
      /\ \A i, j \in 1..n : s[i] = s[j] => i = j
      /\ \A a \in D : \E i \in 1..n : s[i] = a
  <2>1. TotalOrder(D, NumbersInOrder(D))
    BY NumbersOrdered
  <2> QED
    BY <2>1, InOrderIs
<1>2. Leaves(payouts).level = level /\ Leaves(payouts).proofs = proofs
  <2> HIDE DEF n
  <2>1. Leaves(payouts) = [level |-> level, proofs |-> proofs]
    BY <1>1 DEF Leaves, NumbersInOrder
  <2> HIDE DEF level, proofs
  <2> QED
    BY <2>1
<1> HIDE DEF n, s
<1>3. \A i \in 1..n : level[i].hash = claimLeaf(s[i], payouts[s[i]]) /\ level[i].wallets = {s[i]}
  OBVIOUS
<1>4. level = [i \in 1..n |-> level[i]]
  OBVIOUS
<1>5. DOMAIN proofs = D /\ \A w \in D : proofs[w] = << >>
  OBVIOUS
<1> HIDE DEF level, proofs
<1>6. \A w \in D : \E i \in 1..n : w \in level[i].wallets
  BY <1>1, <1>3
<1>7. \A w \in D, i, j \in 1..n : w \in level[i].wallets /\ w \in level[j].wallets => i = j
  BY <1>1, <1>3
<1>8. \A w \in D : \E A : proofs[w] \in Seq(A)
  <2>1. << >> \in Seq(Int)
    OBVIOUS
  <2> QED
    BY <1>5, <2>1
<1>9. ASSUME NEW w \in D, NEW i \in 1..n, w \in level[i].wallets
      PROVE  FoldLeft(hashPair, claimLeaf(w, payouts[w]), proofs[w]) = level[i].hash
  <2>1. w = s[i]
    BY <1>3, <1>9
  <2>2. level[i].hash = claimLeaf(w, payouts[w])
    BY <1>3, <2>1
  <2> QED
    BY <1>5, <2>2, FoldOfNone
<1> QED
  BY <1>1, <1>2, <1>4, <1>5, <1>6, <1>7, <1>8, <1>9 DEF TreeLevel, n

(* After as many rounds as there are leaves, one node is left. *)
LEMMA RoundsEnd ==
  ASSUME NEW payouts, IsFiniteSet(DOMAIN payouts), DOMAIN payouts \subseteq Int, DOMAIN payouts # {}
  PROVE  LET t == Rounds(payouts)[Cardinality(DOMAIN payouts)] IN
         TreeLevel(t.level, t.proofs, payouts, 1)
<1> DEFINE D == DOMAIN payouts
           n == Cardinality(D)
           R == Rounds(payouts)
           Small(k) == \E m \in Nat : /\ TreeLevel(R[k].level, R[k].proofs, payouts, m)
                                      /\ m <= 1 \/ m <= n - k
           Good == {k \in 0..n : Small(k)}
<1>1. n \in Nat
  BY FS_CardinalityType
<1>2. RoundsFrom(R, Leaves(payouts), n)
  BY <1>1, RoundsAre
<1>3. 0 \in Good
  <2>1. R[0] = Leaves(payouts)
    BY <1>1, <1>2 DEF RoundsFrom
  <2>2. TreeLevel(R[0].level, R[0].proofs, payouts, n)
    BY <2>1, LeavesAreLevel
  <2>3. n <= n - 0
    BY <1>1
  <2> HIDE DEF n, R
  <2> QED
    BY <1>1, <2>2, <2>3
<1> HIDE DEF n, R
<1>4. ASSUME NEW k \in 0..(n - 1), k \in Good PROVE k + 1 \in Good
  <2>1. PICK m \in Nat : TreeLevel(R[k].level, R[k].proofs, payouts, m) /\ (m <= 1 \/ m <= n - k)
    BY <1>4
  <2>2. R[k + 1] = NextRound(R[k])
    <3>1. k + 1 \in 0..n /\ k + 1 # 0 /\ k + 1 - 1 = k
      BY <1>1
    <3> DEFINE K == k + 1
    <3> HIDE DEF K
    <3>2. R[K] = NextRound(R[K - 1])
      BY <1>2, <3>1, RoundAt DEF K
    <3> QED
      BY <3>1, <3>2 DEF K
  <2>3. Len(R[k].level) = m
    BY <2>1, LevelLength DEF TreeLevel
  <2>4. k + 1 \in 0..n
    BY <1>1
  <2>5. CASE m > 1
    <3> DEFINE h == (m + 1) \div 2
    <3>1. R[k + 1].level = NextLevel(R[k].level) /\ R[k + 1].proofs = NextProofs(R[k].level, R[k].proofs)
      BY <2>2, <2>3, <2>5 DEF NextRound
    <3>2. TreeLevel(R[k + 1].level, R[k + 1].proofs, payouts, h)
      BY <2>1, <3>1, TreeRound
    <3>3. h \in Nat /\ h <= m - 1
      BY <2>5
    <3>4. h <= n - (k + 1)
      <4> HIDE DEF h
      <4> QED
        BY <1>1, <2>1, <2>5, <3>3
    <3> HIDE DEF h
    <3>5. Small(k + 1)
      BY <3>2, <3>3, <3>4
    <3> QED
      BY <2>4, <3>5
  <2>6. CASE ~(m > 1)
    <3>1. R[k + 1] = R[k]
      BY <2>2, <2>3, <2>6 DEF NextRound
    <3>2. m <= 1
      BY <2>6
    <3>3. Small(k + 1)
      BY <2>1, <3>1, <3>2
    <3> QED
      BY <2>4, <3>3
  <2> QED
    BY <2>5, <2>6
<1>5. Small(n)
  <2> HIDE DEF Small
  <2>1. \A k \in 0..n : k \in Good
    <3> HIDE DEF Good
    <3> QED
      BY <1>1, <1>3, <1>4, UpTo
  <2> QED
    BY <1>1, <2>1
<1>6. PICK m \in Nat : TreeLevel(R[n].level, R[n].proofs, payouts, m) /\ (m <= 1 \/ m <= n - n)
  BY <1>5
<1>7. m # 0
  <2>1. PICK w \in D : TRUE
    OBVIOUS
  <2>2. \E i \in 1..m : w \in R[n].level[i].wallets
    BY <1>6, <2>1 DEF TreeLevel
  <2> QED
    BY <2>2
<1>8. m = 1
  BY <1>1, <1>6, <1>7
<1> QED
  BY <1>6, <1>8 DEF n, R

(* Each leaf's proof leads to the root, and another leaf's does not. *)
LEMMA ProofsProve ==
  ASSUME NEW payouts, IsFiniteSet(DOMAIN payouts), DOMAIN payouts \subseteq Int,
         NEW holder \in DOMAIN payouts, NEW w, NEW amount
  PROVE  verifyClaimProof(w, amount, buildClaimTree(payouts).proofs[holder], buildClaimTree(payouts).root)
            <=> w = holder /\ amount = payouts[holder]
<1> DEFINE n == Cardinality(DOMAIN payouts)
           t == Rounds(payouts)[n]
           proof == t.proofs[holder]
           root == t.level[1].hash
<1>1. n \in Nat /\ n # 0
  BY FS_CardinalityType, FS_EmptySet
<1>2. buildClaimTree(payouts).proofs = t.proofs /\ buildClaimTree(payouts).root = root
  BY <1>1 DEF buildClaimTree
<1>3. TreeLevel(t.level, t.proofs, payouts, 1)
  BY RoundsEnd
<1> HIDE DEF n, t
<1>4. PICK A : proof \in Seq(A)
  BY <1>3 DEF TreeLevel
<1>5. FoldLeft(hashPair, claimLeaf(holder, payouts[holder]), proof) = root
  <2>1. PICK i \in 1..1 : holder \in t.level[i].wallets
    BY <1>3 DEF TreeLevel
  <2>2. i = 1
    OBVIOUS
  <2> QED
    BY <1>3, <2>1, <2>2 DEF TreeLevel
<1> HIDE DEF proof, root
<1>6. verifyClaimProof(w, amount, proof, root) <=> claimLeaf(w, amount) = claimLeaf(holder, payouts[holder])
  BY <1>4, <1>5, FoldSame DEF verifyClaimProof
<1>7. claimLeaf(w, amount) = claimLeaf(holder, payouts[holder]) <=> w = holder /\ amount = payouts[holder]
  <2>1. \A a, b : claimLeaf(a, b).leaf = <<a, b>>
    BY DEF claimLeaf
  <2>2. \A a, b, c, d : <<a, b>> = <<c, d>> <=> a = c /\ b = d
    OBVIOUS
  <2> QED
    BY <2>1, <2>2
<1> QED
  BY <1>2, <1>6, <1>7 DEF proof

-----------------------------------------------------------------------------
(* The batches are the rows again.                                         *)

(* How many rows the first i batches of two have. *)
Upto(i, n) == IF i * 2 < n THEN i * 2 ELSE n

LEMMA UptoBounds ==
  ASSUME NEW n \in Nat \ {0}
  PROVE  LET h == (n + 2 - 1) \div 2 IN
         /\ h \in Nat \ {0} /\ Upto(h, n) = n
         /\ \A i \in 1..h : Upto(i, n) \in 1..n /\ (i - 1) * 2 + 1 \in 1..n
                            /\ Upto(i, n) \in ((i - 1) * 2)..n
         /\ \A i \in 1..h : i # 1 => Upto(i - 1, n) = (i - 1) * 2
BY DEF Upto

LEMMA BatchIs ==
  ASSUME NEW S, NEW rows \in Seq(S), Len(rows) # 0
  PROVE  LET n == Len(rows)  h == (n + 2 - 1) \div 2  b == batchTransfers(rows, 2) IN
         /\ h \in Nat \ {0} /\ Len(b) = h
         /\ b[1] = SubSeq(rows, 1, Upto(1, n))
         /\ \A i \in 1..h : i # 1 =>
               SubSeq(rows, 1, Upto(i - 1, n)) \o b[i] = SubSeq(rows, 1, Upto(i, n))
<1> DEFINE n == Len(rows)
           h == (n + 2 - 1) \div 2
           b == batchTransfers(rows, 2)
<1>1. n \in Nat \ {0}
  OBVIOUS
<1>2. b = [i \in 1..h |-> SubSeq(rows, (i - 1) * 2 + 1, Upto(i, n))]
  BY DEF batchTransfers, Upto
<1> HIDE DEF b
<1>3. /\ h \in Nat \ {0}
      /\ \A i \in 1..h : Upto(i, n) \in 1..n /\ (i - 1) * 2 + 1 \in 1..n
                         /\ Upto(i, n) \in ((i - 1) * 2)..n
      /\ \A i \in 1..h : i # 1 => Upto(i - 1, n) = (i - 1) * 2
  BY <1>1, UptoBounds
<1> HIDE DEF n, h
<1>4. b = [i \in 1..h |-> b[i]]
  BY <1>2
<1>5. Len(b) = h
  BY <1>3, <1>4, AFunctionOnItsRange
<1>6. b[1] = SubSeq(rows, 1, Upto(1, n))
  <2>1. 1 \in 1..h /\ (1 - 1) * 2 + 1 = 1
    BY <1>3
  <2> QED
    BY <1>2, <2>1
<1>7. ASSUME NEW i \in 1..h, i # 1
      PROVE  SubSeq(rows, 1, Upto(i - 1, n)) \o b[i] = SubSeq(rows, 1, Upto(i, n))
  <2> DEFINE k == (i - 1) * 2
             e == Upto(i, n)
  <2>1. Upto(i - 1, n) = k /\ e \in k..n /\ k + 1 \in 1..n /\ b[i] = SubSeq(rows, k + 1, e)
    BY <1>2, <1>3, <1>7
  <2>2. k \in Int /\ k \in (1 - 1)..n /\ 1 \in 1..(n + 1)
    BY <1>1, <1>3, <2>1
  <2> HIDE DEF k, e
  <2>3. SubSeq(rows, 1, k) \o SubSeq(rows, k + 1, e) = SubSeq(rows, 1, e)
    BY <2>1, <2>2, ConcatAdjacentSubSeq DEF n
  <2> QED
    BY <2>1, <2>3 DEF e
<1> QED
  BY <1>3, <1>5, <1>6, <1>7 DEF n, h, b

LEMMA BatchesAreRows ==
  ASSUME NEW S, NEW rows \in Seq(S), Len(rows) # 0
  PROVE  FlattenSeq(batchTransfers(rows, 2)) = rows
<1> DEFINE n == Len(rows)
           h == (n + 2 - 1) \div 2
           b == batchTransfers(rows, 2)
           Flat(f) == f = [i \in 1..h |-> IF i = 1 THEN b[i] ELSE f[i - 1] \o b[i]]
           X(i) == SubSeq(rows, 1, Upto(i, n))
<1>1. /\ h \in Nat \ {0} /\ Len(b) = h /\ b[1] = X(1)
      /\ \A i \in 1..h : i # 1 => X(i - 1) \o b[i] = X(i)
  BY BatchIs
<1>2. Upto(h, n) = n
  <2>1. n \in Nat \ {0}
    OBVIOUS
  <2> QED
    BY <2>1, UptoBounds
<1>3. X(h) = rows
  BY <1>2, SubSeqFull
<1> DEFINE g == CHOOSE f : Flat(f)
<1>4. FlattenSeq(b) = g[h]
  <2>1. Len(b) # 0 /\ Len(b) = h
    BY <1>1
  <2> HIDE DEF b, h
  <2> QED
    BY <2>1 DEF FlattenSeq
<1> HIDE DEF b, h, X
<1>5. Flat(g)
  <2> DEFINE f == [i \in 1..h |-> X(i)]
  <2>1. ASSUME NEW i \in 1..h PROVE f[i] = IF i = 1 THEN b[i] ELSE f[i - 1] \o b[i]
    <3>1. i # 1 => i - 1 \in 1..h
      BY <1>1
    <3> QED
      BY <1>1, <3>1
  <2>2. f = [i \in 1..h |-> f[i]]
    OBVIOUS
  <2> HIDE DEF f
  <2>3. Flat(f)
    BY <2>1, <2>2
  <2> QED
    BY <2>3
<1> HIDE DEF g
<1> DEFINE Good == {k \in 0..h : k # 0 => g[k] = X(k)}
<1>6. ASSUME NEW k \in 0..(h - 1), k \in Good PROVE k + 1 \in Good
  <2> DEFINE K == k + 1
  <2>1. K \in 1..h /\ K - 1 = k /\ (K # 1 => k # 0)
    BY <1>1
  <2> HIDE DEF K
  <2>2. g[K] = IF K = 1 THEN b[K] ELSE g[K - 1] \o b[K]
    BY <1>5, <2>1
  <2>3. g[K] = X(K)
    BY <1>1, <1>6, <2>1, <2>2
  <2> QED
    BY <1>1, <2>1, <2>3 DEF K
<1>7. g[h] = X(h)
  <2>1. 0 \in Good
    BY <1>1
  <2> HIDE DEF Good
  <2>2. \A k \in 0..h : k \in Good
    BY <1>1, <1>6, <2>1, UpTo
  <2> QED
    BY <1>1, <2>2 DEF Good
<1> QED
  BY <1>3, <1>4, <1>7 DEF b

-----------------------------------------------------------------------------
(* The payable rows.                                                       *)

Due(payouts) == {o \in DOMAIN payouts : payouts[o] > 0}
LargestFirst(payouts) ==
  {e \in Due(payouts) \X Due(payouts) :
      \/ payouts[e[1]] > payouts[e[2]]
      \/ payouts[e[1]] = payouts[e[2]] /\ e[1] < e[2]}

LEMMA DueOrdered ==
  ASSUME NEW payouts, DOMAIN payouts \subseteq Int, \A o \in DOMAIN payouts : payouts[o] \in Int
  PROVE  TotalOrder(Due(payouts), LargestFirst(payouts))
<1> DEFINE D == Due(payouts)
           R == LargestFirst(payouts)
<1>1. \A a \in D : a \in Int /\ payouts[a] \in Int
  BY DEF Due
<1>2. \A a, b \in D : <<a, b>> \in R <=> \/ payouts[a] > payouts[b]
                                         \/ payouts[a] = payouts[b] /\ a < b
  BY DEF LargestFirst
<1> HIDE DEF D, R
<1>3. \A a \in D : <<a, a>> \notin R
  BY <1>1, <1>2
<1>4. \A a, b \in D : a # b => <<a, b>> \in R \/ <<b, a>> \in R
  BY <1>1, <1>2
<1>5. \A a, b, c \in D : <<a, b>> \in R /\ <<b, c>> \in R => <<a, c>> \in R
  BY <1>1, <1>2
<1> QED
  BY <1>3, <1>4, <1>5 DEF TotalOrder, D, R

LEMMA EachDueOnce ==
  ASSUME NEW payouts, IsFiniteSet(DOMAIN payouts), DOMAIN payouts \subseteq Int,
         \A o \in DOMAIN payouts : payouts[o] \in Int
  PROVE  LET paid == FlattenSeq(batchTransfers(Payable(payouts), 2)) IN
         ToSet(paid) = Due(payouts) /\ Len(paid) = Cardinality(Due(payouts))
<1> DEFINE D == Due(payouts)
           rows == Payable(payouts)
           n == Cardinality(D)
           b == batchTransfers(rows, 2)
<1>0. IsFiniteSet(D)
  BY FS_Subset DEF Due
<1>1. rows = InOrder(D, LargestFirst(payouts))
  BY DEF Payable, Due, LargestFirst
<1>2. TotalOrder(D, LargestFirst(payouts))
  BY DueOrdered
<1> HIDE DEF D, rows
<1>3. /\ n \in Nat /\ rows = [i \in 1..n |-> rows[i]] /\ DOMAIN rows = 1..n
      /\ \A i \in 1..n : rows[i] \in D /\ \A a \in D : \E j \in 1..n : rows[j] = a
  BY <1>0, <1>1, <1>2, InOrderIs
<1> HIDE DEF n
<1>4. rows \in Seq(Range(rows)) /\ Len(rows) = n
  BY <1>3, AFunctionOnItsRange
<1>5. CASE n # 0
  <2>1. FlattenSeq(b) = rows
    BY <1>4, <1>5, BatchesAreRows
  <2>2. 1 \in 1..n
    BY <1>3, <1>5
  <2>3. ToSet(rows) = D
    BY <1>3, <2>2 DEF ToSet
  <2> QED
    BY <1>4, <2>1, <2>3 DEF n, D, rows
<1>6. CASE n = 0
  <2>1. D = {}
    BY <1>0, <1>6, FS_EmptySet DEF n
  <2>2. b = [i \in 1..0 |-> b[i]]
    <3>1. (Len(rows) + 2 - 1) \div 2 = 0
      BY <1>4, <1>6
    <3>2. DOMAIN b = 1..0
      BY <3>1 DEF batchTransfers
    <3>3. b = [i \in DOMAIN b |-> b[i]]
      BY DEF batchTransfers
    <3> QED
      BY <3>2, <3>3
  <2>3. Len(b) = 0 /\ DOMAIN b = 1..0 /\ 1..0 = {}
    BY <2>2, AFunctionOnItsRange
  <2>4. FlattenSeq(b) = b
    BY <2>3 DEF FlattenSeq
  <2>5. ToSet(b) = {}
    BY <2>3 DEF ToSet
  <2> QED
    BY <1>6, <2>1, <2>3, <2>4, <2>5 DEF n, D, rows
<1> QED
  BY <1>5, <1>6

-----------------------------------------------------------------------------
(* Of one market and any rights pool, any wallet and any amount. *)
MarketProvable(p, pool) ==
    LET tokens == Snapshot(p)
        kinds == KindsOf(p, tokens)
        payouts == allocate(tokens, kinds, Supply(p), pool).payouts
        table == claimTable(payouts)
        tree == buildClaimTree(table)
        paid == FlattenSeq(batchTransfers(Payable(payouts), 2))
    IN /\ \A holder \in DOMAIN table, w \in Int, amount \in Int :
             verifyClaimProof(w, amount, tree.proofs[holder], tree.root)
                <=> w = holder /\ amount = table[holder]
       /\ ToSet(paid) = DOMAIN table
       /\ Len(paid) = Cardinality(DOMAIN table)

LEMMA MarketClaims ==
  ASSUME MarketInv, FakeTypeOK, NEW p \in Pool, created(p), NEW pool \in Nat
  PROVE  MarketProvable(p, pool)
<1> DEFINE tokens == Snapshot(p)
           kinds == KindsOf(p, tokens)
           D == Holders(p)
           payouts == allocate(tokens, kinds, Supply(p), pool).payouts
           table == claimTable(payouts)
<1>1. IsFiniteSet(D) /\ tokens \in [D -> Nat \ {0}] /\ kinds \in [D -> Kinds]
  BY SnapshotParts
<1>2. Supply(p) \in Nat \ {0}
  BY CreatedFacts
<1>3. D \subseteq Int
  <2>1. Wallet \subseteq Int
    BY FakeAssumption
  <2>2. D \subseteq Wallet \cup {0}
    BY DEF Holders, Owners, AUTHORITY
  <2> HIDE DEF D
  <2> QED
    BY <2>1, <2>2
<1> HIDE DEF tokens, kinds, D
<1> DEFINE P == OfKind(kinds, "PARTICIPANT")
<1>4. payouts = [o \in P |-> share(tokens[o], pool, Supply(p))]
  BY DEF allocate
<1> HIDE DEF payouts, table
<1>5. P \subseteq D /\ IsFiniteSet(P)
  <2>1. P \subseteq D
    BY <1>1 DEF OfKind
  <2> HIDE DEF P
  <2> QED
    BY <1>1, <2>1, FS_Subset
<1>6. DOMAIN payouts = P /\ \A o \in P : payouts[o] \in Nat
  <2>1. \A o \in P : tokens[o] \in Nat
    BY <1>1, <1>5
  <2>2. \A o \in P : share(tokens[o], pool, Supply(p)) \in Nat
    BY <1>2, <2>1, ShareBounds
  <2> HIDE DEF P
  <2> QED
    BY <1>4, <2>2
<1> HIDE DEF P
<1>7. DOMAIN table = Due(payouts)
  BY DEF table, claimTable, Restrict, Due
<1>8. IsFiniteSet(DOMAIN table) /\ DOMAIN table \subseteq Int
  <2>1. DOMAIN table \subseteq P
    BY <1>6, <1>7 DEF Due
  <2> QED
    BY <1>3, <1>5, <2>1, FS_Subset
<1>9. ToSet(FlattenSeq(batchTransfers(Payable(payouts), 2))) = Due(payouts)
      /\ Len(FlattenSeq(batchTransfers(Payable(payouts), 2))) = Cardinality(Due(payouts))
  <2>1. IsFiniteSet(DOMAIN payouts) /\ DOMAIN payouts \subseteq Int
    BY <1>3, <1>5, <1>6
  <2>2. \A o \in DOMAIN payouts : payouts[o] \in Int
    BY <1>6
  <2> QED
    BY <2>1, <2>2, EachDueOnce
<1>10. \A holder \in DOMAIN table, w \in Int, amount \in Int :
          verifyClaimProof(w, amount, buildClaimTree(table).proofs[holder], buildClaimTree(table).root)
             <=> w = holder /\ amount = table[holder]
  BY <1>8, ProofsProve
<1> QED
  BY <1>7, <1>9, <1>10 DEF table, payouts, tokens, kinds, MarketProvable

(* Any rights pool. *)
AnyPoolProvable ==
    \A p \in Pool : created(p) => \A pool \in Nat : MarketProvable(p, pool)

(* The tree buildClaimTree makes of any rights pool proves each payout,    *)
(* and no other amount, to its holder, and to nobody else.                 *)
THEOREM EveryPoolProvable == FakeSpec => []AnyPoolProvable
<1>1. LedgersInv => AnyPoolProvable
  <2> SUFFICES ASSUME LedgersInv PROVE AnyPoolProvable
    OBVIOUS
  <2>1. MarketInv /\ FakeTypeOK
    BY LedgersParts DEF LedgersInv
  <2> QED
    BY <2>1, MarketClaims DEF AnyPoolProvable
<1> QED
  BY <1>1, LedgersInductive, PTL

(* For every table of payouts, each payable holder has a proof that        *)
(* reaches the root, it proves his payout and nobody else's and no other   *)
(* amount, and the batches pay each payable row once (ClaimsProvable, of   *)
(* buildClaimTree, verifyClaimProof and batchTransfers).                   *)
THEOREM ClaimsProve == FakeSpec => []ClaimsProvable
<1>1. LedgersInv => ClaimsProvable
  <2> SUFFICES ASSUME LedgersInv PROVE ClaimsProvable
    OBVIOUS
  <2>1. MarketInv /\ FakeTypeOK
    BY LedgersParts DEF LedgersInv
  <2>2. ASSUME NEW p \in Pool, created(p), NEW pool \in RightsPools(p)
        PROVE  pool \in Nat
    BY <2>1, <2>2, RightsPoolsTyped
  <2>3. ASSUME NEW p \in Pool, created(p), NEW pool \in RightsPools(p)
        PROVE  MarketProvable(p, pool)
    BY <2>1, <2>2, <2>3, MarketClaims
  <2>4. Wallet \subseteq Int /\ 0..3 \subseteq Int
    BY FakeAssumption
  <2> QED
    BY <2>3, <2>4 DEF ClaimsProvable, MarketProvable
<1> QED
  BY <1>1, LedgersInductive, PTL

=============================================================================
