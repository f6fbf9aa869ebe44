---------------------------- MODULE TokensProofs ----------------------------
(***************************************************************************)
(* What the checksum of a card number finds, for numbers of any length.    *)
(***************************************************************************)
EXTENDS Tokens, SumLemmas

Digits == 0..9

(* What each digit of a number counts, as the function LuhnSum sums. *)
Counts(number) == [i \in 1..Len(number) |-> Counted(number, i)]

(***************************************************************************)
(* Doubling tells digits apart, and two different neighbours apart from    *)
(* the same two swapped, unless they are 0 and 9.                          *)
(***************************************************************************)
LEMMA DoubledTells ==
    ASSUME NEW x \in Digits, NEW y \in Digits, x # y
    PROVE  /\ Doubled(x) \in Digits /\ Doubled(y) \in Digits
           /\ Doubled(x) # Doubled(y)
           /\ {x, y} # {0, 9} => Doubled(x) + y # Doubled(y) + x
           /\ Doubled(x) + y - Doubled(y) - x \in -9..9
  BY DEF Doubled, Digits

LEMMA CountsOK ==
    ASSUME NEW number \in Seq(Digits)
    PROVE  /\ \A i \in 1..Len(number) : Counts(number)[i] \in Digits
           /\ LuhnSum(number) = SumFunctionOnSet(Counts(number), 1..Len(number))
           /\ LuhnSum(number) \in Int
           /\ IsFiniteSet(1..Len(number))
  <1>1. Len(number) \in Nat /\ \A i \in 1..Len(number) : number[i] \in Digits
    OBVIOUS
  <1>2. \A d \in Digits : Doubled(d) \in Digits
    BY DEF Doubled, Digits
  <1>3. \A i \in 1..Len(number) : Counts(number)[i] \in Digits
    BY <1>1, <1>2 DEF Counts, Counted
  <1>4. LuhnSum(number) = SumFunctionOnSet(Counts(number), 1..Len(number))
    BY DEF LuhnSum, SumFunction, Counts
  <1>5. IsFiniteSet(1..Len(number))
    BY <1>1, FS_Interval
  <1>6. \A i \in 1..Len(number) : Counts(number)[i] \in Int
    BY <1>3 DEF Digits
  <1>7. QED
    BY <1>3, <1>4, <1>5, <1>6, SumInt

(* Two sums less than ten apart, but not equal, are not both checksums. *)
LEMMA TenApart ==
    ASSUME NEW a \in Int, NEW b \in Int, a % 10 = 0, b % 10 = 0, a - b \in -9..9
    PROVE  a = b
  OBVIOUS

(* Two sums that differ in one place, or in two. *)
DifferIn(old, new, Places, Changed) ==
    /\ IsFiniteSet(Places) /\ Changed \subseteq Places
    /\ \A j \in Places : old[j] \in Int /\ new[j] \in Int
    /\ \A j \in Places \ Changed : old[j] = new[j]

LEMMA OneChange ==
    ASSUME NEW old, NEW new, NEW Places, NEW i, DifferIn(old, new, Places, {i})
    PROVE  /\ SumFunctionOnSet(old, Places) \in Int
           /\ SumFunctionOnSet(new, Places)
                = SumFunctionOnSet(old, Places) - old[i] + new[i]
  <1>1. /\ IsFiniteSet(Places) /\ i \in Places /\ new[i] \in Int
        /\ \A j \in Places : old[j] \in Int
        /\ \A j \in Places \ {i} : old[j] = new[j]
    BY DEF DifferIn
  <1>2. SumFunctionOnSet(old, Places) \in Int
    BY <1>1, SumInt
  <1>3. SumFunctionOnSet(new, Places)
            = SumFunctionOnSet(old, Places) - old[i] + new[i]
    BY <1>1, SumChange
  <1>4. QED
    BY <1>2, <1>3

(* A total s with the values at i and k of old exchanged for those of new. *)
Exchanged(s, old, new, i, k) == s - old[i] + new[i] - old[k] + new[k]

LEMMA TwoChanges ==
    ASSUME NEW Places, NEW old \in [Places -> Int], NEW new, NEW i, NEW k, i # k,
           DifferIn(old, new, Places, {i, k})
    PROVE  /\ SumFunctionOnSet(old, Places) \in Int
           /\ SumFunctionOnSet(new, Places) =
                Exchanged(SumFunctionOnSet(old, Places), old, new, i, k)
  <1>0. PICK mid : mid = [old EXCEPT ![i] = new[i]]
    OBVIOUS
  <1>1. DifferIn(old, mid, Places, {i}) /\ mid[i] = new[i]
    BY <1>0 DEF DifferIn
  <1>2. DifferIn(mid, new, Places, {k}) /\ mid[k] = old[k]
    BY <1>0 DEF DifferIn
  <1>3. old[i] \in Int /\ old[k] \in Int /\ new[i] \in Int /\ new[k] \in Int
    BY DEF DifferIn
  <1>4. /\ SumFunctionOnSet(old, Places) \in Int
        /\ SumFunctionOnSet(mid, Places)
             = SumFunctionOnSet(old, Places) - old[i] + mid[i]
    <2>1. DifferIn(old, mid, Places, {i})
      BY <1>1
    <2>2. SumFunctionOnSet(old, Places) \in Int
      BY <2>1, OneChange
    <2>3. SumFunctionOnSet(mid, Places)
             = SumFunctionOnSet(old, Places) - old[i] + mid[i]
      BY <2>1, OneChange
    <2>4. QED
      BY <2>2, <2>3
  <1>5. SumFunctionOnSet(new, Places)
            = SumFunctionOnSet(mid, Places) - mid[k] + new[k]
    <2>1. DifferIn(mid, new, Places, {k})
      BY <1>2
    <2>2. QED
      BY <2>1, OneChange
  <1>6. QED
    BY <1>1, <1>2, <1>3, <1>4, <1>5 DEF Exchanged

(* Two numbers of one length count the same but where their digits differ. *)
LEMMA CountsDiffer ==
    ASSUME NEW number \in Seq(Digits), NEW slip \in Seq(Digits), NEW Changed,
           Len(slip) = Len(number), Changed \subseteq 1..Len(number),
           \A j \in 1..Len(number) \ Changed : slip[j] = number[j]
    PROVE  DifferIn(Counts(number), Counts(slip), 1..Len(number), Changed)
  <1>1. /\ \A j \in 1..Len(number) : Counts(number)[j] \in Int
        /\ \A j \in 1..Len(number) : Counts(slip)[j] \in Int
        /\ IsFiniteSet(1..Len(number))
    BY CountsOK DEF Digits
  <1>2. \A j \in 1..Len(number) \ Changed : Counts(number)[j] = Counts(slip)[j]
    BY DEF Counts, Counted
  <1>3. QED
    BY <1>1, <1>2 DEF DifferIn

LEMMA OneDigitApart ==
    ASSUME NEW s \in Int, NEW t, NEW a \in Digits, NEW b \in Digits, a # b,
           t = s - a + b
    PROVE  t \in Int /\ t # s /\ t - s \in -9..9
  BY DEF Digits

LEMMA SwappedApart ==
    ASSUME NEW s \in Int, NEW t, NEW x \in Digits, NEW y \in Digits, x # y,
           {x, y} # {0, 9},
           \/ t = s - Doubled(x) + Doubled(y) - y + x
           \/ t = s - x + y - Doubled(y) + Doubled(x)
    PROVE  t \in Int /\ t # s /\ t - s \in -9..9
  <1>1. PICK dx \in Digits, dy \in Digits : dx = Doubled(x) /\ dy = Doubled(y)
    BY DoubledTells
  <1>2. dx + y # dy + x /\ dx + y - dy - x \in -9..9
    BY <1>1, DoubledTells
  <1>3. t = s - dx + dy - y + x \/ t = s - x + y - dy + dx
    BY <1>1
  <1>4. QED
    BY <1>2, <1>3 DEF Digits

(***************************************************************************)
(* One wrong digit makes a valid number, of whatever length, invalid.      *)
(***************************************************************************)
THEOREM WrongDigitInvalid ==
    ASSUME NEW number \in Seq(Digits), LuhnValid(number),
           NEW slip \in WrongDigit(number)
    PROVE  ~LuhnValid(slip)
  <1>1. PICK i \in DOMAIN number, d \in 0..9 : slip = [number EXCEPT ![i] = d]
    BY DEF WrongDigit
  <1>2. /\ slip \in Seq(Digits) /\ Len(slip) = Len(number) /\ i \in 1..Len(number)
        /\ slip[i] \in Digits /\ number[i] \in Digits
        /\ \A j \in 1..Len(number) \ {i} : slip[j] = number[j]
    BY <1>1 DEF Digits
  <1>3. slip[i] # number[i]
    <2>1. slip # number
      BY DEF WrongDigit
    <2>2. QED
      BY <1>1, <2>1
  <1>4. /\ LuhnSum(number) = SumFunctionOnSet(Counts(number), 1..Len(number))
        /\ LuhnSum(slip) = SumFunctionOnSet(Counts(slip), 1..Len(number))
    BY <1>2, CountsOK
  <1>5. DifferIn(Counts(number), Counts(slip), 1..Len(number), {i})
    BY <1>2, CountsDiffer
  <1>6. /\ LuhnSum(number) \in Int
        /\ LuhnSum(slip) = LuhnSum(number) - Counts(number)[i] + Counts(slip)[i]
    <2> DEFINE total == SumFunctionOnSet(Counts(number), 1..Len(number))
    <2>1. total \in Int
      BY <1>5, OneChange, Zenon
    <2>2. SumFunctionOnSet(Counts(slip), 1..Len(number))
             = total - Counts(number)[i] + Counts(slip)[i]
      BY <1>5, OneChange, Zenon
    <2>3. QED
      BY <1>4, <2>1, <2>2, Zenon
  <1>7. /\ Counts(number)[i] \in Digits /\ Counts(slip)[i] \in Digits
        /\ Counts(number)[i] # Counts(slip)[i]
    BY <1>2, <1>3, DoubledTells DEF Counts, Counted
  <1>8. /\ LuhnSum(slip) \in Int /\ LuhnSum(slip) # LuhnSum(number)
        /\ LuhnSum(slip) - LuhnSum(number) \in -9..9
    BY <1>6, <1>7, OneDigitApart
  <1>9. QED
    BY <1>6, <1>8, TenApart DEF LuhnValid

(***************************************************************************)
(* Two neighbours swapped make a valid number, of whatever length,         *)
(* invalid, unless they are 0 and 9.                                       *)
(***************************************************************************)
THEOREM SwappedInvalid ==
    ASSUME NEW number \in Seq(Digits), LuhnValid(number),
           NEW slip \in Swapped(number)
    PROVE  ~LuhnValid(slip)
  <1>1. PICK i : /\ i \in 1..(Len(number) - 1)
                 /\ {number[i], number[i + 1]} # {0, 9}
                 /\ slip = Swap(number, i)
    BY DEF Swapped
  <1>2. PICK k : k = i + 1
    OBVIOUS
  <1> DEFINE x == number[i]
             y == number[k]
  <1>3. /\ i \in 1..Len(number) /\ k \in 1..Len(number) /\ i # k
        /\ x \in Digits /\ y \in Digits /\ {x, y} # {0, 9}
        /\ slip = [number EXCEPT ![i] = y, ![k] = x]
    <2>1. i \in 1..Len(number) /\ k \in 1..Len(number) /\ i # k
      BY <1>1, <1>2
    <2>2. {x, y} # {0, 9} /\ slip = [number EXCEPT ![i] = y, ![k] = x]
      BY <1>1, <1>2 DEF Swap
    <2>3. x \in Digits /\ y \in Digits
      BY <2>1
    <2>4. QED
      BY <2>1, <2>2, <2>3
  <1>4. /\ slip \in Seq(Digits) /\ Len(slip) = Len(number)
        /\ slip[i] = y /\ slip[k] = x
        /\ \A j \in 1..Len(number) \ {i, k} : slip[j] = number[j]
    BY <1>3
  <1>5. x # y
    <2>1. slip # number
      BY DEF Swapped
    <2>2. QED
      BY <1>3, <2>1
  <1>6. /\ LuhnSum(number) = SumFunctionOnSet(Counts(number), 1..Len(number))
        /\ LuhnSum(slip) = SumFunctionOnSet(Counts(slip), 1..Len(number))
    BY <1>4, CountsOK
  <1>7. DifferIn(Counts(number), Counts(slip), 1..Len(number), {i, k})
    BY <1>3, <1>4, CountsDiffer
  <1>8. Counts(number) \in [1..Len(number) -> Int]
    BY <1>7 DEF Counts, DifferIn
  <1>9. /\ LuhnSum(number) \in Int
        /\ LuhnSum(slip) = LuhnSum(number)
              - Counts(number)[i] + Counts(slip)[i]
              - Counts(number)[k] + Counts(slip)[k]
    <2> DEFINE total == SumFunctionOnSet(Counts(number), 1..Len(number))
    <2>1. i # k
      BY <1>3
    <2>2. total \in Int
      BY <1>7, <1>8, <2>1, TwoChanges
    <2>3. SumFunctionOnSet(Counts(slip), 1..Len(number))
             = Exchanged(total, Counts(number), Counts(slip), i, k)
      BY <1>7, <1>8, <2>1, TwoChanges
    <2>4. QED
      BY <1>6, <2>2, <2>3, Zenon DEF Exchanged
  <1>10. \/ LuhnSum(slip) = LuhnSum(number) - Doubled(x) + Doubled(y) - y + x
         \/ LuhnSum(slip) = LuhnSum(number) - x + y - Doubled(y) + Doubled(x)
    <2>1. CASE (Len(number) - i) % 2 = 1
      <3>1. (Len(number) - k) % 2 # 1
        BY <1>1, <1>2, <2>1
      <3>2. /\ Counts(number)[i] = Doubled(x) /\ Counts(number)[k] = y
            /\ Counts(slip)[i] = Doubled(y) /\ Counts(slip)[k] = x
        BY <1>3, <1>4, <2>1, <3>1 DEF Counts, Counted
      <3>3. QED
        BY <1>9, <3>2
    <2>2. CASE (Len(number) - i) % 2 # 1
      <3>1. (Len(number) - k) % 2 = 1
        <4>1. PICK m \in Int : m = Len(number) - i
          BY <1>1
        <4>2. m % 2 # 1 /\ Len(number) - k = m - 1
          BY <1>1, <1>2, <2>2, <4>1
        <4>3. (m - 1) % 2 = 1
          BY <4>2
        <4>4. QED
          BY <4>2, <4>3
      <3>2. /\ Counts(number)[i] = x /\ Counts(number)[k] = Doubled(y)
            /\ Counts(slip)[i] = y /\ Counts(slip)[k] = Doubled(x)
        BY <1>3, <1>4, <2>2, <3>1 DEF Counts, Counted
      <3>3. QED
        BY <1>9, <3>2
    <2>3. QED
      BY <2>1, <2>2
  <1> HIDE DEF x, y
  <1>11. /\ LuhnSum(slip) \in Int /\ LuhnSum(slip) # LuhnSum(number)
         /\ LuhnSum(slip) - LuhnSum(number) \in -9..9
    <2>1. LuhnSum(number) \in Int /\ x \in Digits /\ y \in Digits /\ {x, y} # {0, 9}
      BY <1>3, <1>9
    <2>2. QED
      BY <1>5, <1>10, <2>1, SwappedApart, Zenon
  <1>12. QED
    BY <1>9, <1>11, TenApart DEF LuhnValid
-----------------------------------------------------------------------------
(* The test cards are numbers the gateway takes. *)
LEMMA VisaValid == Visa \in Seq(Digits) /\ LuhnValid(Visa)
  <1> DEFINE P == [k \in 0..16 |-> IF k % 2 = 0 THEN 5 * k ELSE 5 * (k - 1) + 8]
  <1>1. Visa \in Seq(Digits) /\ Len(Visa) = 16
    BY DEF Visa, Digits
  <1>2. \A k \in 1..16 : Counts(Visa)[k] = IF k % 2 = 0 THEN 2 ELSE 8
    BY <1>1 DEF Counts, Counted, Doubled, Visa
  <1>3. P[0] = 0 /\ P[16] = 80 /\ \A k \in 1..16 : P[k] = P[k - 1] + Counts(Visa)[k]
    BY <1>2
  <1> HIDE DEF P
  <1>4. AddsUp(P, Counts(Visa), 16)
    BY <1>2, <1>3 DEF AddsUp
  <1>5. SumFunctionOnSet(Counts(Visa), 1..16) = P[16]
    <2>1. 16 \in Nat
      OBVIOUS
    <2>2. QED
      BY <1>4, <2>1, SumPrefix
  <1>6. QED
    BY <1>1, <1>3, <1>5, CountsOK DEF LuhnValid

LEMMA VisaNoFundsValid == VisaNoFunds \in Seq(Digits) /\ LuhnValid(VisaNoFunds)
  <1> DEFINE P == [k \in 0..16 |-> IF k = 0 THEN 0 ELSE IF k < 16 THEN 8 ELSE 10]
  <1>1. VisaNoFunds \in Seq(Digits) /\ Len(VisaNoFunds) = 16
    BY DEF VisaNoFunds, Digits
  <1>2. \A k \in 1..16 : Counts(VisaNoFunds)[k] =
            IF k = 1 THEN 8 ELSE IF k = 16 THEN 2 ELSE 0
    BY <1>1 DEF Counts, Counted, Doubled, VisaNoFunds
  <1>3. /\ P[0] = 0 /\ P[16] = 10
        /\ \A k \in 1..16 : P[k] = P[k - 1] + Counts(VisaNoFunds)[k]
    BY <1>2
  <1> HIDE DEF P
  <1>4. AddsUp(P, Counts(VisaNoFunds), 16)
    BY <1>2, <1>3 DEF AddsUp
  <1>5. SumFunctionOnSet(Counts(VisaNoFunds), 1..16) = P[16]
    <2>1. 16 \in Nat
      OBVIOUS
    <2>2. QED
      BY <1>4, <2>1, SumPrefix
  <1>6. QED
    BY <1>1, <1>3, <1>5, CountsOK DEF LuhnValid

LEMMA VisaTimeoutValid == VisaTimeout \in Seq(Digits) /\ LuhnValid(VisaTimeout)
  <1> DEFINE P == [k \in 0..16 |-> IF k = 0 THEN 0 ELSE IF k < 15 THEN 8
                                   ELSE IF k = 15 THEN 11 ELSE 20]
  <1>1. VisaTimeout \in Seq(Digits) /\ Len(VisaTimeout) = 16
    BY DEF VisaTimeout, Digits
  <1>2. \A k \in 1..16 : Counts(VisaTimeout)[k] =
            IF k = 1 THEN 8 ELSE IF k = 15 THEN 3 ELSE IF k = 16 THEN 9 ELSE 0
    BY <1>1 DEF Counts, Counted, Doubled, VisaTimeout
  <1>3. /\ P[0] = 0 /\ P[16] = 20
        /\ \A k \in 1..16 : P[k] = P[k - 1] + Counts(VisaTimeout)[k]
    BY <1>2
  <1> HIDE DEF P
  <1>4. AddsUp(P, Counts(VisaTimeout), 16)
    BY <1>2, <1>3 DEF AddsUp
  <1>5. SumFunctionOnSet(Counts(VisaTimeout), 1..16) = P[16]
    <2>1. 16 \in Nat
      OBVIOUS
    <2>2. QED
      BY <1>4, <2>1, SumPrefix
  <1>6. QED
    BY <1>1, <1>3, <1>5, CountsOK DEF LuhnValid

(* So no slip on a test card's number is a number the gateway takes. *)
LEMMA NoSlipAccepted == AcceptedSlips = {}
  <1>1. ASSUME NEW card \in TestCards,
               NEW slip \in WrongDigit(card) \cup Swapped(card)
        PROVE  ~Accepted(slip)
    <2>1. card \in Seq(Digits) /\ LuhnValid(card)
      BY VisaValid, VisaNoFundsValid, VisaTimeoutValid DEF TestCards
    <2>2. QED
      BY <2>1, WrongDigitInvalid, SwappedInvalid DEF Accepted
  <1>2. QED
    BY <1>1 DEF AcceptedSlips
=============================================================================
