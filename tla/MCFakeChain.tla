---------------------------- MODULE MCFakeChain ----------------------------
(***************************************************************************)
(* Preview requests for TLC: a cheap and a dear market, one whose opening  *)
(* price rounds to nothing and whose multiple rounds to 1, and requests    *)
(* that are refused.                                                       *)
(***************************************************************************)
EXTENDS FakeChain

Cheap == [texts |-> TRUE, tokenSupply |-> Absent, poolPercentageBps |-> 1000,
          distributionFrequency |-> Absent, expectedAnnualDcf |-> 40,
          targetInitialYieldBps |-> 10000, graduationMultiple |-> 5 * TimesOne]

Dear == [Cheap EXCEPT !.expectedAnnualDcf = 1603, !.targetInitialYieldBps = 1600,
                      !.distributionFrequency = "MONTHLY", !.graduationMultiple = Absent]

Worthless == [Cheap EXCEPT !.expectedAnnualDcf = 9, !.tokenSupply = 3,
                           !.graduationMultiple = TimesOne + 1]

RequestBodies ==
    {Cheap, Dear, Worthless,
     [Cheap EXCEPT !.graduationMultiple = TimesOne],
     [Cheap EXCEPT !.poolPercentageBps = 10001],
     [Cheap EXCEPT !.targetInitialYieldBps = 0],
     [Cheap EXCEPT !.expectedAnnualDcf = 0],
     [Cheap EXCEPT !.tokenSupply = 0],
     [Cheap EXCEPT !.distributionFrequency = "YEARLY"]}

=============================================================================
