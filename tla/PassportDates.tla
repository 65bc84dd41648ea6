--------------------------- MODULE PassportDates ---------------------------
(***************************************************************************)
(* Dates of the passport proof, as the allowlist program (kyc.rs) and the  *)
(* API (lib/chain/devnet/kyc.ts) compute them.  A passport has two digits  *)
(* for the year: the century of a date is guessed from today's date, by    *)
(* the program and by the proof circuit alike, and a date compared in the  *)
(* wrong century makes a minor of age.                                     *)
(*                                                                         *)
(* A day is a number of days since 1970-01-01.  The ASCII digits "YYMMDD"  *)
(* are the number they spell: both compare alike.                          *)
(***************************************************************************)
EXTENDS Integers

(* Dates compare as year, month, day. *)
DateNumber(t) == t.y * 10000 + t.m * 100 + t.d

(* Howard Hinnant's days-to-civil algorithm. *)
civil_from_unix(day) ==
    LET z   == day + 719468
        doe == z % 146097
        yoe == (doe - doe \div 1460 + doe \div 36524 - doe \div 146096) \div 365
        doy == doe - (365 * yoe + yoe \div 4 - yoe \div 100)
        mp  == (5 * doy + 2) \div 153
        m   == IF mp < 10 THEN mp + 3 ELSE mp - 9
        y   == yoe + (z \div 146097) * 400
    IN [y |-> IF m <= 2 THEN y + 1 ELSE y, m |-> m, d |-> doy - (153 * mp + 2) \div 5 + 1]

is_leap(y) == (y % 4 = 0 /\ y % 100 # 0) \/ y % 400 = 0

encode_yymmdd(t) == (t.y % 100) * 10000 + t.m * 100 + t.d

encoded_date(day) == encode_yymmdd(civil_from_unix(day))

(* The birth date a person of minAge must precede; a February 29 becomes a *)
(* 28th when the target year has none.                                     *)
age_cutoff(day, minAge) ==
    LET t == civil_from_unix(day)  y == t.y - minAge IN
    [y |-> y, m |-> t.m, d |-> IF t.m = 2 /\ t.d = 29 /\ ~is_leap(y) THEN 28 ELSE t.d]

(* Smaller than today's digits: 20xx, else 19xx. *)
normalize_yymmdd(encoded, current) ==
    (IF encoded < current THEN 20000000 ELSE 19000000) + encoded

(* Mutant: compares the digits without their century. *)
birth_bound_ok_Numeric(upper, current, day, minAge) ==
    upper <= encode_yymmdd(age_cutoff(day, minAge))

(* "birthDate < upper" implies the age wanted on this day. *)
birth_bound_ok(upper, current, day, minAge) ==
    normalize_yymmdd(upper, current) <= DateNumber(age_cutoff(day, minAge))

(* The bound the API asks the passport holder to prove. *)
ageUpperBoundYymmdd(day, minAge) == encode_yymmdd(age_cutoff(day, minAge))

(* The circuit's EncodedDateIsLessNormalized. *)
CircuitAccepts(birth, upper, current) ==
    normalize_yymmdd(birth, current) < normalize_yymmdd(upper, current)

-----------------------------------------------------------------------------
(* What the dates should mean: the day after each day, and the years       *)
(* completed between a birth and a day.                                    *)
DaysIn(y, m) ==
    IF m = 2 THEN (IF is_leap(y) THEN 29 ELSE 28)
    ELSE IF m \in {4, 6, 9, 11} THEN 30 ELSE 31

DayAfter(t) ==
    IF t.d < DaysIn(t.y, t.m) THEN [t EXCEPT !.d = @ + 1]
    ELSE IF t.m < 12 THEN [y |-> t.y, m |-> t.m + 1, d |-> 1]
    ELSE [y |-> t.y + 1, m |-> 1, d |-> 1]

OfAge(birth, day, years) ==
    DateNumber(civil_from_unix(birth)) + years * 10000 <= DateNumber(civil_from_unix(day))
=============================================================================
