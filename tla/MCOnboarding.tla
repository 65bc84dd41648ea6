---------------------------- MODULE MCOnboarding ----------------------------
(* Two investors and the passport, with two identities, of a foreigner who  *)
(* comes of age on the second day of the run, the day after a February 29.  *)
EXTENDS Onboarding, TLC

CONSTANTS young, rus, id1, id2

Citizens   == (young :> rus)
Births     == (young :> 14668)     \* 2010-02-28
Identities == (id1 :> young @@ id2 :> young)
Leap       == 21243                \* 2028-02-29
Day2       == Leap + 1
PolicyChoices ==
    {[minAge |-> 18, ttl |-> 1, blocked |-> {}],
     [minAge |-> 30, ttl |-> 1, blocked |-> {}],
     [minAge |-> 18, ttl |-> 1, blocked |-> {rus}]}

Symmetry == Permutations({id1, id2})

(* The conversion of days to dates, over the century around the run. *)
ASSUME Calendar ==
    \A day \in 0..40000 : civil_from_unix(day + 1) = DayAfter(civil_from_unix(day))

=============================================================================
