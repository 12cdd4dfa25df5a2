----------------------------- MODULE MoneyProofs -------------------------------
(***************************************************************************)
(* Proofs about amounts of money and rewards, for a u64 of any width and   *)
(* any number of decimals.                                                 *)
(***************************************************************************)
EXTENDS Money, TLAPS

\* What a text says, in nanos.
Says(t) == t.units * Conversion + Nanos(t)

\* Wrapping around, for a number that is less than two ranges.
LEMMA WrapOnce ==
    ASSUME MaxU64 \in Nat, NEW n \in Nat, n <= 2 * MaxU64 + 1
    PROVE  U64(n) = IF n <= MaxU64 THEN n ELSE n - (MaxU64 + 1)
<1>1. CASE n <= MaxU64
  BY <1>1 DEF U64
<1>2. CASE n > MaxU64
  BY <1>2 DEF U64
<1>3. QED
  BY <1>1, <1>2

\* from_str: an amount that fits is never changed by reading it.
THEOREM ParseIsExact ==
    ASSUME MaxU64 \in Nat, NEW t, Says(t) \in Nat, Says(t) <= MaxU64,
           FromStr(t).result = "Ok"
    PROVE  FromStr(t).value = Says(t)
<1>1. FromStr(t) = Ok(U64(Says(t)))
  BY DEF FromStr, Err, Ok, Says
<1>2. U64(Says(t)) = Says(t)
  BY WrapOnce
<1>3. QED
  BY <1>1, <1>2 DEF Ok

\* from_str: an amount that does not fit is refused, or, when only its remainder
\* is too much, comes out as less than one unit.
THEOREM ParseWraps ==
    ASSUME MaxU64 \in Nat, NEW t, Nanos(t) \in Nat, Conversion \in Nat,
           Nanos(t) < Conversion, Conversion <= MaxU64 + 1,
           Says(t) \in Nat, Says(t) > MaxU64, FromStr(t).result = "Ok"
    PROVE  /\ FromStr(t).value = Says(t) - (MaxU64 + 1)
           /\ FromStr(t).value < Conversion
<1>1. /\ FromStr(t) = Ok(U64(Says(t)))
      /\ ~(t.units * Conversion > MaxU64) /\ t.units \in 0 .. MaxU64
  BY DEF FromStr, Err, Ok, Says, IsU64
<1> DEFINE whole == t.units * Conversion
<1>2. whole \in Int /\ whole <= MaxU64 /\ Says(t) = whole + Nanos(t)
  BY <1>1 DEF Says
<1> HIDE DEF whole
<1>3. Says(t) <= 2 * MaxU64 + 1 /\ Says(t) - (MaxU64 + 1) < Conversion
  BY <1>2
<1>4. U64(Says(t)) = Says(t) - (MaxU64 + 1)
  BY <1>3, WrapOnce
<1>5. QED
  BY <1>1, <1>3, <1>4 DEF Ok

\* RewardCounter::add is all or nothing: a sum that does not fit changes neither
\* field, and one that fits is exact and counts as one piece of work.
THEOREM AddIsAllOrNothing ==
    ASSUME MaxU64 \in Nat, None \notin Int, NEW reward \in 0 .. MaxU64,
           NEW earned \in [reward : 0 .. MaxU64, work : 0 .. MaxU64],
           None # [reward |-> earned.reward + reward, work |-> U64(earned.work + 1)]
    PROVE  /\ Add(earned, reward) = None <=> earned.reward + reward > MaxU64
           /\ Add(earned, reward) # None =>
                /\ Add(earned, reward).reward = earned.reward + reward
                /\ earned.work < MaxU64 => Add(earned, reward).work = earned.work + 1
<1>1. earned.reward \in 0 .. MaxU64 /\ earned.work \in 0 .. MaxU64
  OBVIOUS
<1>2. CASE earned.reward + reward > MaxU64
  <2>1. CheckedAdd(earned.reward, reward) = None
    BY <1>1, <1>2 DEF CheckedAdd
  <2>2. QED
    BY <1>2, <2>1 DEF Add
<1>3. CASE earned.reward + reward <= MaxU64
  <2>1. CheckedAdd(earned.reward, reward) = earned.reward + reward
    BY <1>1, <1>3 DEF CheckedAdd
  <2>2. earned.reward + reward # None
    BY <1>1
  <2>3. Add(earned, reward)
          = [reward |-> earned.reward + reward, work |-> U64(earned.work + 1)]
    BY <2>1, <2>2 DEF Add
  <2>4. earned.work < MaxU64 => U64(earned.work + 1) = earned.work + 1
    BY <1>1, WrapOnce
  <2>5. ~(earned.reward + reward > MaxU64)
    BY <1>1, <1>3
  <2>6. QED
    BY <2>3, <2>4, <2>5
<1>4. QED
  BY <1>1, <1>2, <1>3
=============================================================================
