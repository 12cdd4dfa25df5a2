-------------------------------- MODULE Money ----------------------------------
(***************************************************************************)
(* Amounts of money and what a worker has earned: src/src/money.rs and     *)
(* src/src/rewards.rs.  Numbers are the ones of a u64, or of any other     *)
(* width.  Arithmetic that the code leaves unchecked wraps around, as it   *)
(* does in a release build.                                                *)
(***************************************************************************)
EXTENDS Integers

CONSTANTS
    MaxU64,    \* the greatest u64
    Power,     \* MONEY_TO_RAW_POWER_OF_10_CONVERSION
    Texts,     \* the texts that are parsed
    None       \* Option::None

Scale == [k \in 0 .. Power |-> 10 ^ k]

\* MONEY_TO_RAW_CONVERSION
Conversion == Scale[Power]

U64(n) == n % (MaxU64 + 1)

Ok(nanos) == [result |-> "Ok", value |-> nanos]
Err(error) == [result |-> "Err", error |-> error]

-----------------------------------------------------------------------------
\* Money

\* checked_add, checked_sub
CheckedAdd(a, b) == IF a + b <= MaxU64 THEN a + b ELSE None
CheckedSub(a, b) == IF b <= a THEN a - b ELSE None

\* A text has units and, perhaps, a remainder: what follows the dot without its
\* zeros at the end, as a number and its length.  -1 stands for what is no number.
Text(units, remainder) == [units |-> units, remainder |-> remainder]
Remainder(value, length) == [value |-> value, length |-> length]

IsU64(n) == n \in 0 .. MaxU64

Nanos(t) ==
    IF t.remainder = None THEN 0
    ELSE t.remainder.value * Scale[Power - t.remainder.length]

\* from_str
FromStr(t) ==
    IF ~IsU64(t.units) THEN Err("FailedToParse")
    ELSE IF t.units * Conversion > MaxU64 THEN Err("ExcessiveValue")
    ELSE IF t.remainder # None /\ ~IsU64(t.remainder.value) THEN Err("FailedToParse")
    ELSE IF t.remainder # None /\ t.remainder.length > Power THEN Err("LossOfPrecision")
    ELSE Ok(U64(t.units * Conversion + Nanos(t)))

-----------------------------------------------------------------------------
\* RewardCounter

\* Default
NoReward == [reward |-> 0, work |-> 0]

\* add; work is incremented unchecked.
Add(earned, reward) ==
    LET sum == CheckedAdd(earned.reward, reward)
    IN  IF sum = None THEN None ELSE [reward |-> sum, work |-> U64(earned.work + 1)]

-----------------------------------------------------------------------------
\* Amounts are read and, when there is one, added to what a worker has.

VARIABLES
    text,      \* the text that was parsed last
    parsed,    \* what came of it
    counter    \* the RewardCounter

moneyVars == <<text, parsed, counter>>

Init == text = None /\ parsed = None /\ counter = NoReward

Parse(t) ==
    /\ text' = t /\ parsed' = FromStr(t)
    /\ UNCHANGED counter

Reward ==
    /\ parsed # None /\ parsed.result = "Ok"
    /\ counter' = LET sum == Add(counter, parsed.value) IN IF sum = None THEN counter ELSE sum
    /\ UNCHANGED <<text, parsed>>

Next == Reward \/ \E t \in Texts : Parse(t)

Spec == Init /\ [][Next]_moneyVars

-----------------------------------------------------------------------------
\* Properties

\* "The coin amount would exceed [the maximum value for `Money`]" (errors.rs:80,
\* ExcessiveValue): a text that is accepted stands for the amount it says, and one
\* of more than the greatest amount is not accepted (from_str, money.rs:87).
AmountsAreExact ==
    parsed # None /\ parsed.result = "Ok" => parsed.value = text.units * Conversion + Nanos(text)
=============================================================================
