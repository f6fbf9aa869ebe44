------------------------ MODULE ReconciliationProofs ------------------------
(***************************************************************************)
(* The merchant-wide books, for any number of intents: what each intent    *)
(* contributes follows from its status (PaymentIntentsProofs), and the     *)
(* sums over all of them from SumLemmas.                                   *)
(***************************************************************************)
EXTENDS Reconciliation, PaymentIntentsProofs, SumLemmas

(* What one intent adds to the gap between segregated cash and liabilities. *)
GapOf(i) == net[i]["segregated_cash"] + net[i]["escrow_liability"]

(* What a position holds in the accounts the reconciliation looks at. *)
LEMMA PositionGap ==
    ASSUME NEW tm, Lifecycle!SoundTerms(tm), NEW st \in Statuses,
           NEW b \in Lifecycle!Positions(tm, st)
    PROVE  /\ b["segregated_cash"] + b["escrow_liability"]
                 = IF st = "captured" /\ tm.mode = "escrow" THEN -tm.amount ELSE 0
           /\ b["segregated_cash"] \in Nat
           /\ b["platform_cash"] \in Nat
  <1> DEFINE A == tm.amount
  <1>1. A \in Nat /\ A \in Int /\ tm.mode \in {"direct", "escrow"}
    BY DEF Lifecycle!SoundTerms, Lifecycle!Terms, Lifecycle!Modes
  <1>2. /\ "acquirer_receivable" \in Kinds /\ "merchant_payable" \in Kinds
        /\ "escrow_liability" \in Kinds /\ "segregated_cash" \in Kinds
        /\ "platform_cash" \in Kinds /\ "payable_to_payee" \in Kinds
    BY DEF Kinds
  <1>3. CASE st = "captured"
    <2>1. CASE tm.mode = "direct"
      <3>1. b = Lifecycle!Backed("acquirer_receivable", "merchant_payable", A)
        BY <1>3, <2>1 DEF Lifecycle!Positions
      <3> HIDE DEF A
      <3>2. /\ b["segregated_cash"] = 0 /\ b["escrow_liability"] = 0
            /\ b["platform_cash"] = 0
        BY <1>1, <1>2, <3>1 DEF Lifecycle!Backed, Lifecycle!EmptyBooks, Lifecycle!Kinds, Kinds
      <3>3. QED
        BY <1>3, <2>1, <3>2
    <2>2. CASE tm.mode = "escrow"
      <3>1. b = Lifecycle!Backed("acquirer_receivable", "escrow_liability", A)
        BY <1>3, <2>2 DEF Lifecycle!Positions
      <3>2. A = tm.amount
        OBVIOUS
      <3> HIDE DEF A
      <3>3. /\ b["segregated_cash"] = 0 /\ b["escrow_liability"] = -A
            /\ b["platform_cash"] = 0
        BY <1>1, <1>2, <3>1 DEF Lifecycle!Backed, Lifecycle!EmptyBooks, Lifecycle!Kinds, Kinds
      <3>4. QED
        BY <1>1, <1>3, <2>2, <3>2, <3>3
    <2>3. QED
      BY <1>1, <2>1, <2>2
  <1>4. CASE st = "settled"
    <2>1. b = Lifecycle!Backed("platform_cash", "merchant_payable", A)
      BY <1>4 DEF Lifecycle!Positions
    <2> HIDE DEF A
    <2>2. /\ b["segregated_cash"] = 0 /\ b["escrow_liability"] = 0
          /\ b["platform_cash"] = A
      BY <1>1, <1>2, <2>1 DEF Lifecycle!Backed, Lifecycle!EmptyBooks, Lifecycle!Kinds, Kinds
    <2>3. QED
      BY <1>1, <1>4, <2>2
  <1>5. CASE st = "held_in_escrow"
    <2>1. b = Lifecycle!Backed("segregated_cash", "escrow_liability", A)
      BY <1>5 DEF Lifecycle!Positions
    <2> HIDE DEF A
    <2>2. /\ b["segregated_cash"] = A /\ b["escrow_liability"] = -A
          /\ b["platform_cash"] = 0
      BY <1>1, <1>2, <2>1 DEF Lifecycle!Backed, Lifecycle!EmptyBooks, Lifecycle!Kinds, Kinds
    <2>3. QED
      BY <1>1, <1>5, <2>2
  <1>6. CASE st = "partially_refunded"
    <2>1. PICK x \in 1..(A - 1) :
              b = Lifecycle!Backed("platform_cash", "merchant_payable", x)
      BY <1>6 DEF Lifecycle!Positions
    <2>2. x \in Nat /\ x \in Int
      BY <1>1
    <2> HIDE DEF A
    <2>3. /\ b["segregated_cash"] = 0 /\ b["escrow_liability"] = 0
          /\ b["platform_cash"] = x
      BY <1>2, <2>1, <2>2 DEF Lifecycle!Backed, Lifecycle!EmptyBooks, Lifecycle!Kinds, Kinds
    <2>4. QED
      BY <1>6, <2>2, <2>3
  <1>7. CASE st = "released"
    <2>1. PICK c : /\ c = Lifecycle!Backed("platform_cash", "payable_to_payee", A)
                   /\ b = [c EXCEPT !["payable_to_payee"] = tm.fee - tm.amount,
                                    !["platform_revenue"] = -tm.fee]
      BY <1>7 DEF Lifecycle!Positions
    <2> HIDE DEF A
    <2>2. /\ c \in [Kinds -> Int]
          /\ c["segregated_cash"] = 0 /\ c["escrow_liability"] = 0
          /\ c["platform_cash"] = A
      BY <1>1, <1>2, <2>1 DEF Lifecycle!Backed, Lifecycle!EmptyBooks, Lifecycle!Kinds, Kinds
    <2>3. /\ b["segregated_cash"] = 0 /\ b["escrow_liability"] = 0
          /\ b["platform_cash"] = A
      BY <1>2, <2>1, <2>2
    <2>4. QED
      BY <1>1, <1>7, <2>3
  <1>8. CASE st \notin {"captured", "settled", "held_in_escrow",
                        "partially_refunded", "released"}
    <2>1. b = Lifecycle!EmptyBooks
      BY <1>8 DEF Lifecycle!Positions
    <2>2. QED
      BY <1>2, <1>8, <2>1 DEF Lifecycle!EmptyBooks, Lifecycle!Kinds, Kinds
  <1>9. QED
    BY <1>3, <1>4, <1>5, <1>6, <1>7, <1>8

LEMMA EachIntentBacked ==
    ASSUME IInv, NEW i \in Intents
    PROVE  /\ \A kind \in Kinds : net[i][kind] \in Int
           /\ i \in InTransit => terms[i].amount \in Nat
           /\ GapOf(i) = IF i \in InTransit THEN -terms[i].amount ELSE 0
           /\ net[i]["segregated_cash"] \in Nat
           /\ net[i]["platform_cash"] \in Nat
  <1>1. net[i] \in [Kinds -> Int] /\ status[i] \in Statuses \cup {Nil}
    BY DEF IInv, TypeOK
  <1>2. i \in InTransit <=> status[i] = "captured" /\ terms[i].mode = "escrow"
    BY DEF InTransit
  <1>3. CASE status[i] = Nil
    <2>1. net[i] = EmptyBooks
      BY <1>3 DEF IInv, BooksMatchStatus
    <2>2. status[i] # "captured"
      BY <1>3, PaymentIntentsAssumption DEF ConstantsOK, Statuses
    <2>3. QED
      BY <1>1, <1>2, <2>1, <2>2 DEF GapOf, EmptyBooks, Kinds
  <1>4. CASE status[i] # Nil
    <2>1. /\ status[i] \in Statuses
          /\ Lifecycle!SoundTerms(terms[i])
          /\ net[i] \in Lifecycle!Positions(terms[i], status[i])
      BY <1>1, <1>4 DEF IInv, TermsInv, BooksMatchStatus
    <2>2. terms[i].amount \in Nat
      BY <2>1 DEF Lifecycle!SoundTerms, Lifecycle!Terms
    <2>3. QED
      BY <1>1, <1>2, <2>1, <2>2, PositionGap DEF GapOf
  <1>5. QED
    BY <1>3, <1>4

LEMMA EscrowBacked == ASSUME IInv PROVE EscrowFullyBacked
  <1> DEFINE seg == [i \in Intents |-> net[i]["segregated_cash"]]
             esc == [i \in Intents |-> net[i]["escrow_liability"]]
             gap == [i \in Intents |-> GapOf(i)]
             owed == [i \in Intents |-> IF i \in InTransit THEN terms[i].amount
                                                           ELSE 0]
             transit == [i \in InTransit |-> terms[i].amount]
             none == [i \in Intents |-> 0]
  <1>1. IsFiniteSet(Intents) /\ InTransit \in SUBSET Intents
    BY ReconciliationAssumption DEF InTransit
  <1>2. \A i \in Intents : /\ seg[i] \in Nat /\ esc[i] \in Int /\ gap[i] \in Int
                           /\ owed[i] \in Nat /\ gap[i] = seg[i] + esc[i]
                           /\ none[i] = gap[i] + owed[i]
    BY EachIntentBacked DEF GapOf, Kinds
  <1>3. \A i \in Intents \ InTransit : owed[i] = 0
    OBVIOUS
  <1>4. \A i \in InTransit : owed[i] \in Int /\ transit[i] = owed[i]
    BY <1>1, <1>2
  <1>5. /\ SumByKind("segregated_cash") = SumFunctionOnSet(seg, Intents)
        /\ SumByKind("escrow_liability") = SumFunctionOnSet(esc, Intents)
        /\ SumFunction(transit) = SumFunctionOnSet(transit, InTransit)
    BY DEF SumByKind, SumFunction
  <1> HIDE DEF seg, esc, gap, owed, transit, none
  <1>6. SumFunctionOnSet(gap, Intents)
            = SumFunctionOnSet(seg, Intents) + SumFunctionOnSet(esc, Intents)
    BY <1>1, <1>2, SumAdd
  <1>7. SumFunctionOnSet(owed, Intents) = SumFunctionOnSet(transit, InTransit)
    BY <1>1, <1>3, <1>4, SumPart
  <1>8. SumFunctionOnSet(none, Intents)
            = SumFunctionOnSet(gap, Intents) + SumFunctionOnSet(owed, Intents)
    BY <1>1, <1>2, SumAdd
  <1>9. SumFunctionOnSet(none, Intents) = 0
    <2>1. \A i \in Intents \ {} : none[i] = 0
      BY DEF none
    <2>2. SumFunctionOnSet(none, Intents) = SumFunctionOnSet(none, {})
      BY <1>1, <2>1, SumPart
    <2>3. QED
      BY <2>2, SumEmpty
  <1>10. /\ SumFunctionOnSet(seg, Intents) \in Nat
         /\ SumFunctionOnSet(esc, Intents) \in Int
         /\ SumFunctionOnSet(owed, Intents) \in Int
    BY <1>1, <1>2, SumInt, SumNonneg
  <1>11. SegregationGap = -SumFunction(transit)
    BY <1>5, <1>6, <1>7, <1>8, <1>9, <1>10 DEF SegregationGap
  <1>12. SumByKind("platform_cash") >= 0
    <2> DEFINE cash == [i \in Intents |-> net[i]["platform_cash"]]
    <2>1. \A i \in Intents : cash[i] \in Nat
      BY EachIntentBacked
    <2>2. SumByKind("platform_cash") = SumFunctionOnSet(cash, Intents)
      BY DEF SumByKind, SumFunction
    <2> HIDE DEF cash
    <2>3. QED
      BY <1>1, <2>1, <2>2, SumNonneg
  <1>13. QED
    BY <1>5, <1>10, <1>11, <1>12 DEF EscrowFullyBacked, transit

(***************************************************************************)
(* Segregated cash and the captures in transit together back exactly what  *)
(* is owed to escrow, over any number of intents and whatever runs         *)
(* concurrently or fails (reconcile.go, EscrowSegregationHolds).           *)
(***************************************************************************)
THEOREM EscrowAlwaysBacked == Spec => []EscrowFullyBacked
  BY EscrowBacked, Invariance, PTL
=============================================================================
