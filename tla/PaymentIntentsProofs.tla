------------------------ MODULE PaymentIntentsProofs ------------------------
(***************************************************************************)
(* Proofs about PaymentIntents, for any number of intents, requests and    *)
(* sweeps and for every combination of faults.                             *)
(***************************************************************************)
EXTENDS PaymentIntents, TLAPS

(***************************************************************************)
(* The inductive invariant.  Cleared(x) is what the row lock guarantees a  *)
(* transaction x that holds it: what it read is still what is stored, and  *)
(* the operation it runs is legal from there.                              *)
(***************************************************************************)
Cleared(x) ==
    LET i == x.intent
        m == terms[i].mode
        A == terms[i].amount
    IN  /\ x.seen = status[i]
        /\ \/ /\ x.op = "confirm"
              /\ x.seen \in {"created", "requires_confirmation"}
              /\ x.next \in {"authorized", "failed"}
           \/ /\ x.op = "capture"
              /\ x.seen = "authorized" /\ x.next = "captured"
           \/ /\ x.op = "refund" /\ m = "escrow"
              /\ x.seen = "held_in_escrow" /\ x.next = "refunded"
              /\ x.amount = A
           \/ /\ x.op = "refund" /\ m = "direct"
              /\ x.seen \in {"captured", "settled"}
              /\ x.amount \in 1..A
              /\ x.seen = "captured" => x.amount = A
              /\ x.next = IF x.amount = A THEN "refunded"
                                          ELSE "partially_refunded"
           \/ /\ x.op = "release" /\ m = "escrow"
              /\ x.seen = "held_in_escrow" /\ x.next = "released"
           \/ /\ x.op = "settle" /\ x.seen = "captured"
              /\ x.next = IF m = "escrow" THEN "held_in_escrow" ELSE "settled"
           \/ /\ x.op = "expire"
              /\ x.seen \in {"created", "requires_confirmation", "authorized"}
              /\ x.next = "failed"

(* The bank has acted before a status that says so is about to be stored. *)
BankAgreed(x) ==
    /\ x.next = "authorized" => bankAuths[x.intent] > 0
    /\ x.next = "captured" => bankCaptures[x.intent] > 0

TxOK(x) ==
    x.pc # "idle" =>
        /\ x.op \in Ops
        /\ x.intent \in Intents
        /\ status[x.intent] # Nil
        /\ x.op = "refund" /\ x.pc # "done" => x.amount > 0
        /\ x.pc = "bank" =>
            /\ Cleared(x)
            /\ x.op \in {"confirm", "capture"}
            /\ x.op = "confirm" => x.next = "authorized"
        /\ x.pc = "accounts" => Cleared(x) /\ BankAgreed(x)

TxInv == \A t \in Procs : TxOK(tx[t])

(* Two transactions never hold the row of one intent. *)
LockInv ==
    \A t, u \in Procs :
        t # u /\ HoldsIntent(t) /\ HoldsIntent(u) => tx[t].intent # tx[u].intent

TermsInv ==
    \A i \in Intents : status[i] # Nil => Lifecycle!SoundTerms(terms[i])

DueInv == \A w \in Sweepers : \A i \in due[w] : status[i] # Nil

IInv ==
    /\ TypeOK /\ TermsInv /\ DueInv /\ TxInv /\ LockInv
    /\ BooksMatchStatus /\ OutboxTellsHistory /\ BankBacksLedger
-----------------------------------------------------------------------------
(* The state machine: from where an operation's target can be reached. *)
LEMMA IntoCaptured ==
    ASSUME NEW m \in Modes, NEW st \in Statuses, CanTransition(m, st, "captured")
    PROVE  st = "authorized"
  BY DEF CanTransition, AllowedEdges, PreCaptureEdges, Modes

LEMMA IntoReleased ==
    ASSUME NEW m \in Modes, NEW st \in Statuses, CanTransition(m, st, "released")
    PROVE  m = "escrow" /\ st = "held_in_escrow"
  BY DEF CanTransition, AllowedEdges, PreCaptureEdges, Modes

LEMMA IntoRefunded ==
    ASSUME NEW m \in Modes, NEW st \in Statuses,
           NEW to \in {"refunded", "partially_refunded"},
           CanTransition(m, st, to)
    PROVE  IF m = "escrow" THEN st = "held_in_escrow" /\ to = "refunded"
                           ELSE st \in {"captured", "settled"}
  BY DEF CanTransition, AllowedEdges, PreCaptureEdges, Modes

LEMMA IntoFailed ==
    ASSUME NEW m \in Modes, NEW st \in Statuses, CanTransition(m, st, "failed")
    PROVE  st \in {"created", "requires_confirmation", "authorized"}
  BY DEF CanTransition, AllowedEdges, PreCaptureEdges, Modes

(* What a cleared transaction is about to store is a legal move. *)
LEMMA ClearedMoves ==
    ASSUME NEW x, Cleared(x), terms[x.intent].mode \in Modes
    PROVE  CanMove(terms[x.intent].mode, status[x.intent], x.next)
  BY DEF Cleared, CanMove, CanTransition, AllowedEdges, PreCaptureEdges, Modes
-----------------------------------------------------------------------------
(* The ledger: what an account kind holds after a posting. *)
LEMMA TransferAt ==
    ASSUME NEW d \in Kinds, NEW c \in Kinds, d # c, NEW x \in Int, NEW k \in Kinds
    PROVE  At(Transfer(d, c, x), k) = IF k = d THEN x ELSE IF k = c THEN -x ELSE 0
  BY DEF At, Transfer

LEMMA BackedAt ==
    ASSUME NEW a \in Kinds, NEW l \in Kinds, a # l, NEW x \in Int
    PROVE  /\ Lifecycle!Backed(a, l, x) \in [Kinds -> Int]
           /\ \A k \in Kinds : Lifecycle!Backed(a, l, x)[k] =
                IF k = a THEN x ELSE IF k = l THEN -x ELSE 0
  BY DEF Lifecycle!Backed, Lifecycle!EmptyBooks, Lifecycle!Kinds, Kinds

(* Moving x from one backing asset to another keeps it backed. *)
LEMMA MoveAsset ==
    ASSUME NEW from \in Kinds, NEW to \in Kinds, NEW l \in Kinds,
           from # to, from # l, to # l, NEW x \in Int
    PROVE  Post(Lifecycle!Backed(from, l, x), Transfer(to, from, x))
             = Lifecycle!Backed(to, l, x)
  <1>1. ASSUME NEW k \in Kinds
        PROVE  Lifecycle!Backed(from, l, x)[k] + At(Transfer(to, from, x), k)
                 = Lifecycle!Backed(to, l, x)[k]
    <2>1. /\ Lifecycle!Backed(from, l, x)[k] =
                IF k = from THEN x ELSE IF k = l THEN -x ELSE 0
          /\ Lifecycle!Backed(to, l, x)[k] =
                IF k = to THEN x ELSE IF k = l THEN -x ELSE 0
      BY BackedAt
    <2>2. At(Transfer(to, from, x), k) =
                IF k = to THEN x ELSE IF k = from THEN -x ELSE 0
      BY TransferAt
    <2> QED
      BY <2>1, <2>2
  <1>2. Lifecycle!Backed(to, l, x)
            = [k \in Kinds |-> Lifecycle!Backed(to, l, x)[k]]
    BY BackedAt
  <1> QED
    BY <1>1, <1>2 DEF Post

(* Paying y of x back leaves x - y backed; paying all of it leaves nothing. *)
LEMMA PayBack ==
    ASSUME NEW a \in Kinds, NEW l \in Kinds, a # l, NEW x \in Int, NEW y \in Int
    PROVE  Post(Lifecycle!Backed(a, l, x), Transfer(l, a, y))
             = Lifecycle!Backed(a, l, x - y)
  <1>1. x - y \in Int
    OBVIOUS
  <1>2. ASSUME NEW k \in Kinds
        PROVE  Lifecycle!Backed(a, l, x)[k] + At(Transfer(l, a, y), k)
                 = Lifecycle!Backed(a, l, x - y)[k]
    <2>1. /\ Lifecycle!Backed(a, l, x)[k] =
                IF k = a THEN x ELSE IF k = l THEN -x ELSE 0
          /\ Lifecycle!Backed(a, l, x - y)[k] =
                IF k = a THEN x - y ELSE IF k = l THEN -(x - y) ELSE 0
      BY <1>1, BackedAt
    <2>2. At(Transfer(l, a, y), k) = IF k = l THEN y ELSE IF k = a THEN -y ELSE 0
      BY TransferAt
    <2> QED
      BY <2>1, <2>2
  <1>3. Lifecycle!Backed(a, l, x - y)
            = [k \in Kinds |-> Lifecycle!Backed(a, l, x - y)[k]]
    BY <1>1, BackedAt
  <1> QED
    BY <1>2, <1>3 DEF Post

LEMMA BackedNothing ==
    ASSUME NEW a \in Kinds, NEW l \in Kinds, a # l
    PROVE  Lifecycle!Backed(a, l, 0) = EmptyBooks
  <1>1. Lifecycle!Backed(a, l, 0) = [k \in Kinds |-> Lifecycle!Backed(a, l, 0)[k]]
    BY BackedAt
  <1> QED
    BY <1>1, BackedAt DEF EmptyBooks

(* The capture's posting, on the books of an intent that had none. *)
LEMMA FirstPosting ==
    ASSUME NEW a \in Kinds, NEW l \in Kinds, a # l, NEW x \in Int
    PROVE  Post(EmptyBooks, Transfer(a, l, x)) = Lifecycle!Backed(a, l, x)
  <1>1. ASSUME NEW k \in Kinds
        PROVE  EmptyBooks[k] + At(Transfer(a, l, x), k) = Lifecycle!Backed(a, l, x)[k]
    <2>1. Lifecycle!Backed(a, l, x)[k] =
                IF k = a THEN x ELSE IF k = l THEN -x ELSE 0
      BY BackedAt
    <2>2. At(Transfer(a, l, x), k) = IF k = a THEN x ELSE IF k = l THEN -x ELSE 0
      BY TransferAt
    <2> QED
      BY <2>1, <2>2 DEF EmptyBooks
  <1>2. Lifecycle!Backed(a, l, x) = [k \in Kinds |-> Lifecycle!Backed(a, l, x)[k]]
    BY BackedAt
  <1> QED
    BY <1>1, <1>2 DEF Post

(* A release discharges the escrow liability and pays payee and fee. *)
LEMMA ReleasePosting ==
    ASSUME NEW i \in Intents, Lifecycle!SoundTerms(terms[i]),
           terms[i].mode = "escrow"
    PROVE  Post(Lifecycle!Backed("segregated_cash", "escrow_liability",
                                 terms[i].amount),
                ReleaseEntries(i))
             \in Lifecycle!Positions(terms[i], "released")
  <1> DEFINE A == terms[i].amount
             F == terms[i].fee
             held == Lifecycle!Backed("segregated_cash", "escrow_liability", A)
             paid == Lifecycle!Backed("platform_cash", "payable_to_payee", A)
             released == [paid EXCEPT !["payable_to_payee"] = F - A,
                                      !["platform_revenue"] = -F]
  <1>1. A \in Nat \ {0} /\ F \in 0..A /\ A \in Int /\ F \in Int
    BY DEF Lifecycle!SoundTerms, Lifecycle!Terms
  <1>2. Fee(i) = F
    BY <1>1, PaymentIntentsAssumption DEF Fee, ConstantsOK
  <1>3. ReleaseEntries(i) =
          [k \in {"escrow_liability", "platform_cash", "segregated_cash"}
                \cup (IF A - F > 0 THEN {"payable_to_payee"} ELSE {})
                \cup (IF F > 0 THEN {"platform_revenue"} ELSE {}) |->
             CASE k = "segregated_cash"  -> -A
               [] k = "payable_to_payee" -> F - A
               [] k = "platform_revenue" -> -F
               [] OTHER                  -> A]
    BY <1>2 DEF ReleaseEntries
  <1>4. Lifecycle!Positions(terms[i], "released") = {released}
    BY DEF Lifecycle!Positions
  <1> HIDE DEF A, F
  <1>5. \A k \in Kinds : held[k] = IF k = "segregated_cash" THEN A
                                   ELSE IF k = "escrow_liability" THEN -A ELSE 0
    <2>1. "segregated_cash" \in Kinds /\ "escrow_liability" \in Kinds
      BY DEF Kinds
    <2> QED
      BY <1>1, <2>1, BackedAt
  <1>6. /\ paid \in [Kinds -> Int]
        /\ \A k \in Kinds : paid[k] = IF k = "platform_cash" THEN A
                                   ELSE IF k = "payable_to_payee" THEN -A ELSE 0
    <2>1. "platform_cash" \in Kinds /\ "payable_to_payee" \in Kinds
      BY DEF Kinds
    <2> QED
      BY <1>1, <2>1, BackedAt
  <1> HIDE DEF held, paid
  <1>7. \A k \in Kinds : released[k] = IF k = "payable_to_payee" THEN F - A
                                ELSE IF k = "platform_revenue" THEN -F ELSE paid[k]
    BY <1>6 DEF Kinds
  <1>8. ASSUME NEW k \in Kinds
        PROVE  At(ReleaseEntries(i), k) =
            IF k = "segregated_cash" THEN -A
            ELSE IF k = "payable_to_payee" THEN F - A
            ELSE IF k = "platform_revenue" THEN -F
            ELSE IF k \in {"escrow_liability", "platform_cash"} THEN A ELSE 0
    BY <1>1, <1>3 DEF At, Kinds
  <1>9. released = [k \in Kinds |-> released[k]]
    BY <1>6
  <1> HIDE DEF released
  <1>10. ASSUME NEW k \in Kinds
         PROVE  held[k] + At(ReleaseEntries(i), k) = released[k]
    BY <1>1, <1>5, <1>6, <1>7, <1>8 DEF Kinds
  <1>11. Post(held, ReleaseEntries(i)) = released
    BY <1>9, <1>10 DEF Post
  <1> QED
    BY <1>4, <1>11 DEF held, A

(***************************************************************************)
(* A cleared transaction takes the books of its intent from the position   *)
(* of the status it read to a position of the status it will store.        *)
(***************************************************************************)
NewBooks(t) ==
    IF tx[t].op \in PostingOps THEN Post(net[tx[t].intent], Entries(t))
                               ELSE net[tx[t].intent]

LEMMA ClearedPosition ==
    ASSUME NEW t \in Procs, tx[t].intent \in Intents, Cleared(tx[t]),
           Lifecycle!SoundTerms(terms[tx[t].intent]),
           net[tx[t].intent] \in
                Lifecycle!Positions(terms[tx[t].intent], status[tx[t].intent])
    PROVE  NewBooks(t) \in Lifecycle!Positions(terms[tx[t].intent], tx[t].next)
  <1> DEFINE i == tx[t].intent
             A == terms[i].amount
             m == terms[i].mode
             a == tx[t].amount
  <1>1. A \in Nat \ {0} /\ A \in Int /\ m \in Modes
    BY DEF Lifecycle!SoundTerms, Lifecycle!Terms, Lifecycle!Modes, Modes
  <1>2. tx[t].seen = status[i]
    BY DEF Cleared
  <1>3. /\ "acquirer_receivable" \in Kinds /\ "merchant_payable" \in Kinds
        /\ "escrow_liability" \in Kinds /\ "segregated_cash" \in Kinds
        /\ "platform_cash" \in Kinds
    BY DEF Kinds
  <1>4. EmptyBooks = Lifecycle!EmptyBooks
    BY DEF EmptyBooks, Lifecycle!EmptyBooks, Kinds, Lifecycle!Kinds
  <1>5. CASE tx[t].op \in {"confirm", "expire"}
    <2>1. /\ status[i] \in {"created", "requires_confirmation", "authorized"}
          /\ tx[t].next \in {"authorized", "failed"}
      BY <1>5 DEF Cleared
    <2>2. Lifecycle!Positions(terms[i], status[i])
            = Lifecycle!Positions(terms[i], tx[t].next)
      BY <2>1 DEF Lifecycle!Positions
    <2> QED
      BY <1>5, <2>2 DEF NewBooks, PostingOps
  <1>6. CASE tx[t].op = "capture"
    <2>1. status[i] = "authorized" /\ tx[t].next = "captured"
      BY <1>6 DEF Cleared
    <2>2. net[i] = EmptyBooks
      BY <1>4, <2>1 DEF Lifecycle!Positions
    <2>3. NewBooks(t) = Post(EmptyBooks, Transfer("acquirer_receivable",
                                                  PayableKind(i), A))
      BY <1>6, <2>2 DEF NewBooks, PostingOps, Entries, CaptureEntries
    <2>4. NewBooks(t) = Lifecycle!Backed("acquirer_receivable", PayableKind(i), A)
      BY <1>1, <1>3, <2>3, FirstPosting DEF PayableKind
    <2>5. PayableKind(i) = IF m = "escrow" THEN "escrow_liability"
                                           ELSE "merchant_payable"
      BY DEF PayableKind
    <2> QED
      BY <1>1, <2>1, <2>4, <2>5 DEF Lifecycle!Positions, Modes
  <1>7. CASE tx[t].op = "settle"
    <2>1. /\ status[i] = "captured"
          /\ tx[t].next = IF m = "escrow" THEN "held_in_escrow" ELSE "settled"
      BY <1>7 DEF Cleared
    <2>2. net[i] = Lifecycle!Backed("acquirer_receivable", PayableKind(i), A)
      BY <1>1, <2>1 DEF Lifecycle!Positions, PayableKind, Modes
    <2>3. NewBooks(t) = Post(net[i], Transfer(SettleCash(i),
                                              "acquirer_receivable", A))
      BY <1>7 DEF NewBooks, PostingOps, Entries, SettleEntries
    <2>4. NewBooks(t) = Lifecycle!Backed(SettleCash(i), PayableKind(i), A)
      BY <1>1, <1>3, <2>2, <2>3, MoveAsset DEF PayableKind, SettleCash
    <2> QED
      BY <1>1, <2>1, <2>4 DEF Lifecycle!Positions, PayableKind, SettleCash, Modes
  <1>8. CASE tx[t].op = "release"
    <2>1. /\ m = "escrow" /\ status[i] = "held_in_escrow"
          /\ tx[t].next = "released"
      BY <1>8 DEF Cleared
    <2>2. net[i] = Lifecycle!Backed("segregated_cash", "escrow_liability", A)
      BY <2>1 DEF Lifecycle!Positions
    <2>3. NewBooks(t) = Post(net[i], ReleaseEntries(i))
      BY <1>8 DEF NewBooks, PostingOps, Entries
    <2> QED
      BY <2>1, <2>2, <2>3, ReleasePosting
  <1>9. CASE tx[t].op = "refund"
    <2>1. \/ /\ m = "escrow" /\ status[i] = "held_in_escrow"
             /\ tx[t].next = "refunded" /\ a = A
          \/ /\ m = "direct" /\ status[i] = "captured"
             /\ tx[t].next = "refunded" /\ a = A
          \/ /\ m = "direct" /\ status[i] = "settled" /\ a \in 1..A
             /\ tx[t].next = IF a = A THEN "refunded" ELSE "partially_refunded"
      BY <1>9 DEF Cleared
    <2>2. net[i] = Lifecycle!Backed(RefundCredit(i, tx[t].seen), PayableKind(i), A)
      BY <1>2, <2>1 DEF Lifecycle!Positions, RefundCredit, PayableKind
    <2>3. NewBooks(t) = Post(net[i], Transfer(PayableKind(i),
                                              RefundCredit(i, tx[t].seen), a))
      BY <1>9 DEF NewBooks, PostingOps, Entries, RefundEntries
    <2>4. a \in Int /\ A - a \in Int
      BY <1>1, <2>1
    <2>5. NewBooks(t) = Lifecycle!Backed(RefundCredit(i, tx[t].seen),
                                         PayableKind(i), A - a)
      BY <1>1, <1>3, <2>2, <2>3, <2>4, PayBack DEF PayableKind, RefundCredit
    <2>6. CASE a = A
      <3>1. A - a = 0
        BY <1>1, <2>6
      <3>2. NewBooks(t) = EmptyBooks
        BY <1>3, <2>5, <3>1, BackedNothing DEF PayableKind, RefundCredit
      <3>3. tx[t].next = "refunded"
        BY <2>1, <2>6
      <3> QED
        BY <1>4, <3>2, <3>3 DEF Lifecycle!Positions
    <2>7. CASE a # A
      <3>1. /\ m = "direct" /\ status[i] = "settled" /\ a \in 1..A
            /\ tx[t].next = "partially_refunded"
        BY <2>1, <2>7
      <3>2. A - a \in 1..(A - 1)
        BY <1>1, <2>7, <3>1
      <3>3. NewBooks(t) = Lifecycle!Backed("platform_cash", "merchant_payable", A - a)
        BY <1>2, <2>5, <3>1 DEF PayableKind, RefundCredit
      <3> QED
        BY <3>1, <3>2, <3>3 DEF Lifecycle!Positions
    <2> QED
      BY <2>6, <2>7
  <1> QED
    BY <1>5, <1>6, <1>7, <1>8, <1>9 DEF Cleared

(* Equal sums are equal in every width. *)
LEMMA ZeroIsPostable == 0 % Word = 0
  BY LedgerAssumption, SMT

(* A transfer between two accounts is a posting the ledger accepts. *)
LEMMA TransferPostable ==
    ASSUME NEW d \in Kinds, NEW c \in Kinds, d # c, NEW x \in Int, x # 0
    PROVE  Postable(Transfer(d, c, x))
  <1>1. DOMAIN Transfer(d, c, x) = {d, c}
    BY DEF Transfer
  <1>2. \A k \in {d, c} : Transfer(d, c, x)[k] # 0
    BY DEF Transfer
  <1>3. \A k \in Kinds :
            At(Transfer(d, c, x), k) = IF k = d THEN x ELSE IF k = c THEN -x ELSE 0
    BY TransferAt
  <1>4. Imbalance(Transfer(d, c, x)) = 0
    BY <1>3 DEF Imbalance, Kinds
  <1> QED
    BY <1>1, <1>2, <1>4, ZeroIsPostable DEF Postable

LEMMA ReleasePostable ==
    ASSUME NEW i \in Intents, Lifecycle!SoundTerms(terms[i]),
           terms[i].mode = "escrow"
    PROVE  Postable(ReleaseEntries(i))
  <1> DEFINE A == terms[i].amount
             F == terms[i].fee
  <1>1. A \in Nat \ {0} /\ F \in 0..A /\ A \in Int /\ F \in Int
    BY DEF Lifecycle!SoundTerms, Lifecycle!Terms
  <1>2. Fee(i) = F
    BY <1>1, PaymentIntentsAssumption DEF Fee, ConstantsOK
  <1>3. ReleaseEntries(i) =
          [k \in {"escrow_liability", "platform_cash", "segregated_cash"}
                \cup (IF A - F > 0 THEN {"payable_to_payee"} ELSE {})
                \cup (IF F > 0 THEN {"platform_revenue"} ELSE {}) |->
             CASE k = "segregated_cash"  -> -A
               [] k = "payable_to_payee" -> F - A
               [] k = "platform_revenue" -> -F
               [] OTHER                  -> A]
    BY <1>2 DEF ReleaseEntries
  <1> HIDE DEF A, F
  <1>4. ASSUME NEW k \in DOMAIN ReleaseEntries(i)
        PROVE  ReleaseEntries(i)[k] # 0
    BY <1>1, <1>3
  <1>5. /\ At(ReleaseEntries(i), "segregated_cash") = -A
        /\ At(ReleaseEntries(i), "escrow_liability") = A
        /\ At(ReleaseEntries(i), "platform_cash") = A
        /\ At(ReleaseEntries(i), "acquirer_receivable") = 0
        /\ At(ReleaseEntries(i), "merchant_payable") = 0
        /\ At(ReleaseEntries(i), "payable_to_payee") = F - A
        /\ At(ReleaseEntries(i), "platform_revenue") = -F
    BY <1>1, <1>3 DEF At
  <1>6. Imbalance(ReleaseEntries(i)) = 0
    BY <1>1, <1>5 DEF Imbalance
  <1>7. DOMAIN ReleaseEntries(i) # {}
    BY <1>3
  <1> QED
    BY <1>4, <1>6, <1>7, ZeroIsPostable DEF Postable

LEMMA ClearedPostable ==
    ASSUME NEW t \in Procs, tx[t].intent \in Intents, Cleared(tx[t]),
           Lifecycle!SoundTerms(terms[tx[t].intent])
    PROVE  PostingAccepted(t)
  <1> DEFINE i == tx[t].intent
             A == terms[i].amount
  <1>1. A \in Int /\ A # 0 /\ A > 0
    BY DEF Lifecycle!SoundTerms, Lifecycle!Terms
  <1>2. /\ PayableKind(i) \in {"escrow_liability", "merchant_payable"}
        /\ SettleCash(i) \in {"segregated_cash", "platform_cash"}
        /\ RefundCredit(i, tx[t].seen) \in
                {"segregated_cash", "platform_cash", "acquirer_receivable"}
    BY DEF PayableKind, SettleCash, RefundCredit
  <1>3. {"escrow_liability", "merchant_payable", "segregated_cash",
         "platform_cash", "acquirer_receivable"} \subseteq Kinds
    BY DEF Kinds
  <1>4. /\ PayableKind(i) \in Kinds /\ SettleCash(i) \in Kinds
        /\ RefundCredit(i, tx[t].seen) \in Kinds
        /\ "acquirer_receivable" \in Kinds
        /\ PayableKind(i) # "acquirer_receivable"
        /\ SettleCash(i) # "acquirer_receivable"
        /\ RefundCredit(i, tx[t].seen) # PayableKind(i)
    BY <1>2, <1>3
  <1>5. CASE tx[t].op = "capture"
    BY <1>1, <1>4, <1>5, TransferPostable DEF PostingAccepted, Entries, CaptureEntries
  <1>6. CASE tx[t].op = "settle"
    BY <1>1, <1>4, <1>6, TransferPostable DEF PostingAccepted, Entries, SettleEntries
  <1>7. CASE tx[t].op = "release"
    <2>1. terms[i].mode = "escrow"
      BY <1>7 DEF Cleared
    <2> QED
      BY <1>7, <2>1, ReleasePostable DEF PostingAccepted, Entries
  <1>8. CASE tx[t].op = "refund"
    <2>1. tx[t].amount \in Int /\ tx[t].amount # 0
      BY <1>1, <1>8 DEF Cleared
    <2> QED
      BY <1>4, <1>8, <2>1, TransferPostable DEF PostingAccepted, Entries, RefundEntries
  <1>9. CASE tx[t].op \notin PostingOps
    BY <1>9 DEF PostingAccepted
  <1> QED
    BY <1>5, <1>6, <1>7, <1>8, <1>9 DEF PostingOps
-----------------------------------------------------------------------------
(* The invariant holds initially. *)
LEMMA InitInv == Init => IInv
  <1> SUFFICES ASSUME Init PROVE IInv
    OBVIOUS
  <1>1. EmptyBooks \in [Kinds -> Int]
    BY DEF EmptyBooks
  <1>2. 0 \in 0..MaxBankCalls
    BY PaymentIntentsAssumption DEF ConstantsOK
  <1>3. Idle \in Transactions
    BY DEF Idle, Transactions
  <1>4. TypeOK
    BY <1>1, <1>2, <1>3 DEF Init, TypeOK
  <1>5. Nil \notin Statuses /\ Captured \cup {"authorized"} \subseteq Statuses
    BY PaymentIntentsAssumption DEF ConstantsOK, Captured, Statuses
  <1>6. TermsInv /\ DueInv /\ BooksMatchStatus /\ OutboxTellsHistory
    BY DEF Init, TermsInv, DueInv, BooksMatchStatus, OutboxTellsHistory
  <1>7. BankBacksLedger
    BY <1>5 DEF Init, BankBacksLedger
  <1>8. TxInv /\ LockInv
    BY DEF Init, TxInv, TxOK, LockInv, HoldsIntent, Idle
  <1> QED
    BY <1>4, <1>6, <1>7, <1>8 DEF IInv

(***************************************************************************)
(* A step that changes nothing but one goroutine's transaction, a sweep's  *)
(* list and (upwards) the bank's counters preserves the invariant, if the  *)
(* new transaction is sound and holds a row only if it was free.           *)
(***************************************************************************)
BankGrows ==
    /\ bankAuths' \in [Intents -> 0..MaxBankCalls]
    /\ bankCaptures' \in [Intents -> 0..MaxBankCalls]
    /\ \A i \in Intents : /\ bankAuths[i] > 0 => bankAuths'[i] > 0
                          /\ bankCaptures[i] > 0 => bankCaptures'[i] > 0

LEMMA GoroutineStep ==
    ASSUME IInv, NEW t \in Procs, NEW x \in Transactions,
           tx' = [tx EXCEPT ![t] = x], UNCHANGED rows, BankGrows,
           due' \in [Sweepers -> SUBSET Intents], DueInv',
           TxOK(x)',
           x.pc \in {"bank", "accounts"} => HoldsIntent(t) \/ RowFree(t),
           x.pc \in {"bank", "accounts"} => x.intent = tx[t].intent
    PROVE  IInv'
  <1>1. UNCHANGED <<status, terms, net, outbox, aged>>
    BY DEF rows
  <1>2. TypeOK'
    BY <1>1 DEF IInv, TypeOK, BankGrows
  <1>3. tx'[t] = x /\ \A u \in Procs \ {t} : tx'[u] = tx[u]
    BY DEF IInv, TypeOK
  <1>4. TermsInv' /\ BooksMatchStatus' /\ OutboxTellsHistory'
    BY <1>1 DEF IInv, TermsInv, BooksMatchStatus, OutboxTellsHistory, StatusBefore
  <1>5. BankBacksLedger'
    BY <1>1 DEF IInv, BankBacksLedger, BankGrows
  <1>6. TxInv'
    <2>1. ASSUME NEW u \in Procs, u # t
          PROVE  TxOK(tx[u])'
      <3>1. tx'[u] = tx[u] /\ TxOK(tx[u])
        BY <1>3, <2>1 DEF IInv, TxInv
      <3> QED
        BY <1>1, <3>1 DEF TxOK, Cleared, BankAgreed, BankGrows
    <2>2. TxOK(tx[t])'
      BY <1>3
    <2> QED
      BY <2>1, <2>2 DEF TxInv
  <1>7. LockInv'
    <2>1. \A u \in Procs \ {t} : HoldsIntent(u)' <=> HoldsIntent(u)
      BY <1>3 DEF HoldsIntent
    <2>2. ASSUME NEW u \in Procs, u # t, HoldsIntent(t)', HoldsIntent(u)'
          PROVE  tx'[t].intent # tx'[u].intent
      <3>1. x.pc \in {"bank", "accounts"}
        BY <1>3, <2>2 DEF HoldsIntent
      <3>2. HoldsIntent(u)
        BY <2>1, <2>2
      <3>3. tx[u].intent # tx[t].intent
        BY <2>2, <3>1, <3>2 DEF IInv, LockInv, RowFree
      <3> QED
        BY <1>3, <2>2, <3>1, <3>3
    <2>3. ASSUME NEW u \in Procs, NEW v \in Procs, u # v, u # t, v # t,
                 HoldsIntent(u)', HoldsIntent(v)'
          PROVE  tx'[u].intent # tx'[v].intent
      BY <1>3, <2>1, <2>3 DEF IInv, LockInv
    <2> QED
      BY <2>2, <2>3 DEF LockInv
  <1> QED
    BY <1>2, <1>4, <1>5, <1>6, <1>7 DEF IInv
-----------------------------------------------------------------------------
(* Records a goroutine's transaction is set to. *)
LEMMA IdleOK == Idle \in Transactions /\ Idle.pc = "idle"
  BY DEF Idle, Transactions

LEMMA BeginOK ==
    ASSUME NEW op \in Ops, NEW i \in Intents, NEW a \in Int
    PROVE  /\ Begin(op, i, a) \in Transactions
           /\ Begin(op, i, a).pc = "lock" /\ Begin(op, i, a).op = op
           /\ Begin(op, i, a).intent = i /\ Begin(op, i, a).amount = a
  BY DEF Begin, Idle, Transactions

LEMMA EndedOK ==
    ASSUME IInv, NEW t \in Procs, tx[t].pc # "idle", NEW res \in Results
    PROVE  /\ Ended(t, res) \in Transactions
           /\ Ended(t, res).pc = "done" /\ Ended(t, res).op \in Ops
           /\ Ended(t, res).intent = tx[t].intent
           /\ tx[t].intent \in Intents /\ status[tx[t].intent] # Nil
  <1>1. /\ tx[t].op \in Ops /\ tx[t].intent \in Intents /\ tx[t].amount \in Int
        /\ status[tx[t].intent] # Nil
    BY DEF IInv, TypeOK, TxInv, TxOK, Transactions
  <1> QED
    BY <1>1 DEF Ended, Begin, Idle, Transactions

LEMMA BankUnchanged == ASSUME IInv, UNCHANGED bank PROVE BankGrows
  BY DEF IInv, TypeOK, bank, BankGrows

LEMMA DueUnchanged ==
    ASSUME IInv, UNCHANGED rows, UNCHANGED due
    PROVE  due' \in [Sweepers -> SUBSET Intents] /\ DueInv'
  BY DEF IInv, TypeOK, DueInv, rows

(* A goroutine ends its transaction without having written anything. *)
LEMMA EndStep ==
    ASSUME IInv, NEW t \in Procs, tx[t].pc # "idle", NEW res \in Results,
           tx' = [tx EXCEPT ![t] = Ended(t, res)],
           UNCHANGED rows, UNCHANGED due, BankGrows
    PROVE  IInv'
  <1>1. PICK x \in Transactions : x = Ended(t, res)
    BY EndedOK
  <1>2. /\ x.pc = "done" /\ x.op \in Ops /\ x.intent \in Intents
        /\ status[x.intent] # Nil
    BY <1>1, EndedOK
  <1>3. TxOK(x)'
    BY <1>2 DEF TxOK, rows
  <1> QED
    BY <1>1, <1>2, <1>3, GoroutineStep, DueUnchanged

(* A goroutine becomes idle; its sweep's list may shrink. *)
LEMMA IdleStep ==
    ASSUME IInv, NEW t \in Procs, tx' = [tx EXCEPT ![t] = Idle],
           UNCHANGED rows, UNCHANGED bank,
           due' \in [Sweepers -> SUBSET Intents],
           \A w \in Sweepers : due'[w] \subseteq due[w]
    PROVE  IInv'
  <1>1. PICK x \in Transactions : x = Idle
    BY IdleOK
  <1>2. TxOK(x)' /\ x.pc = "idle"
    BY <1>1, IdleOK DEF TxOK
  <1>3. DueInv'
    BY DEF IInv, DueInv, rows
  <1> QED
    BY <1>1, <1>2, <1>3, GoroutineStep, BankUnchanged

(* A goroutine begins a transaction on an intent that exists. *)
LEMMA BeginStep ==
    ASSUME IInv, NEW t \in Procs, NEW op \in Ops, NEW i \in Intents, NEW a \in Int,
           status[i] # Nil, op = "refund" => a > 0,
           tx' = [tx EXCEPT ![t] = Begin(op, i, a)],
           UNCHANGED rows, UNCHANGED due, UNCHANGED bank
    PROVE  IInv'
  <1>1. PICK x \in Transactions : x = Begin(op, i, a)
    BY BeginOK
  <1>2. /\ x.pc = "lock" /\ x.op = op /\ x.intent = i /\ x.amount = a
    BY <1>1, BeginOK
  <1>3. TxOK(x)'
    BY <1>2 DEF TxOK, rows
  <1> QED
    BY <1>1, <1>2, <1>3, GoroutineStep, DueUnchanged, BankUnchanged
-----------------------------------------------------------------------------
(* The steps that write no row, one lemma per action. *)
LEMMA AgeInv == ASSUME IInv, NEW i \in Intents, Age(i) PROVE IInv'
  <1>1. UNCHANGED <<status, terms, net, outbox, tx, due, bankAuths, bankCaptures>>
    BY DEF Age, bank
  <1>2. TypeOK'
    BY <1>1 DEF Age, IInv, TypeOK
  <1>3. TxInv' /\ LockInv'
    BY <1>1 DEF IInv, TxInv, TxOK, Cleared, BankAgreed, LockInv, HoldsIntent
  <1>4. TermsInv' /\ DueInv' /\ BooksMatchStatus'
        /\ OutboxTellsHistory' /\ BankBacksLedger'
    BY <1>1 DEF IInv, TermsInv, DueInv, BooksMatchStatus, OutboxTellsHistory,
                StatusBefore, BankBacksLedger
  <1> QED
    BY <1>2, <1>3, <1>4 DEF IInv

LEMMA RequestInv ==
    ASSUME IInv, NEW r \in Requests, NEW op \in RequestOps, NEW i \in Intents,
           NEW a \in Int, Request(r, op, i, a)
    PROVE  IInv'
  <1>1. r \in Procs /\ op \in Ops
    BY DEF Procs, Ops
  <1>2. UNCHANGED rows /\ UNCHANGED due /\ UNCHANGED bank /\ status[i] # Nil
    BY DEF Request
  <1>3. CASE op = "refund" /\ a <= 0
    <2>1. PICK x \in Transactions :
            x = [Begin(op, i, a) EXCEPT !.pc = "done", !.res = "invalid_amount"]
      BY <1>1 DEF Begin, Idle, Transactions, Results, Rejections
    <2>2. x.pc = "done" /\ x.op = op /\ x.intent = i
      BY <2>1 DEF Begin, Idle
    <2>3. TxOK(x)'
      BY <1>1, <1>2, <2>2 DEF TxOK, rows
    <2>4. tx' = [tx EXCEPT ![r] = x]
      BY <1>3, <2>1 DEF Request
    <2> QED
      BY <1>1, <1>2, <2>2, <2>3, <2>4, GoroutineStep, DueUnchanged, BankUnchanged
  <1>4. CASE ~(op = "refund" /\ a <= 0)
    BY <1>1, <1>2, <1>4, BeginStep DEF Request
  <1> QED
    BY <1>3, <1>4

LEMMA ReplyInv == ASSUME IInv, NEW r \in Requests, Reply(r) PROVE IInv'
  BY IdleStep DEF Reply, Procs, IInv, TypeOK

LEMMA CrashInv == ASSUME IInv, NEW t \in Procs, Crash(t) PROVE IInv'
  <1>1. due \in [Sweepers -> SUBSET Intents]
    BY DEF IInv, TypeOK
  <1>2. /\ due' \in [Sweepers -> SUBSET Intents]
        /\ \A w \in Sweepers : due'[w] \subseteq due[w]
    BY <1>1 DEF Crash
  <1> QED
    BY <1>2, IdleStep DEF Crash

LEMMA SweepDoneInv == ASSUME IInv, NEW w \in Sweepers, SweepDone(w) PROVE IInv'
  <1>1. due \in [Sweepers -> SUBSET Intents] /\ w \in Procs
    BY DEF IInv, TypeOK, Procs, Sweepers
  <1>2. /\ due' \in [Sweepers -> SUBSET Intents]
        /\ \A v \in Sweepers : due'[v] \subseteq due[v]
    BY <1>1 DEF SweepDone
  <1> QED
    BY <1>1, <1>2, IdleStep DEF SweepDone

LEMMA SweepNextInv == ASSUME IInv, NEW w \in Sweepers, SweepNext(w) PROVE IInv'
  <1> DEFINE op == IF w \in Settlers THEN "settle" ELSE "expire"
             a == 0
  <1>1. PICK i \in due[w] : tx' = [tx EXCEPT ![w] = Begin(op, i, a)]
    BY DEF SweepNext
  <1>2. i \in Intents /\ status[i] # Nil /\ w \in Procs
    BY DEF IInv, TypeOK, DueInv, Procs, Sweepers
  <1>3. op \in Ops /\ op # "refund"
    BY DEF Ops, RequestOps
  <1>4. UNCHANGED rows /\ UNCHANGED due /\ UNCHANGED bank /\ a \in Int
    BY DEF SweepNext
  <1> HIDE DEF op, a
  <1> QED
    BY <1>1, <1>2, <1>3, <1>4, BeginStep

LEMMA ListDueInv == ASSUME IInv, NEW w \in Sweepers, ListDue(w) PROVE IInv'
  <1>1. due \in [Sweepers -> SUBSET Intents] /\ w \in Procs
        /\ tx \in [Procs -> Transactions]
    BY DEF IInv, TypeOK, Procs, Sweepers
  <1>2. PICK S \in SUBSET Listed(w) : due' = [due EXCEPT ![w] = S]
    BY DEF ListDue
  <1>3. \A i \in S : i \in Intents /\ status[i] # Nil
    BY PaymentIntentsAssumption DEF Listed, CapturedBefore, StaleBefore, ConstantsOK, Statuses
  <1>4. due' \in [Sweepers -> SUBSET Intents] /\ DueInv'
    BY <1>1, <1>2, <1>3 DEF IInv, DueInv, ListDue, rows
  <1>5. PICK x \in Transactions : x = tx[w]
    BY <1>1
  <1>6. tx' = [tx EXCEPT ![w] = x] /\ x.pc = "idle"
    BY <1>1, <1>5 DEF ListDue
  <1>7. TxOK(x)'
    BY <1>6 DEF TxOK
  <1> QED
    BY <1>1, <1>4, <1>5, <1>6, <1>7, GoroutineStep, BankUnchanged DEF ListDue

(* What the row lock and the operation's checks establish. *)
LEMMA VerdictClears ==
    ASSUME IInv, NEW t \in Procs, tx[t].pc = "lock", Verdict(t) = "ok",
           NEW x, x.op = tx[t].op, x.intent = tx[t].intent,
           x.amount = tx[t].amount, x.seen = status[tx[t].intent],
           x.next = Target(t)
    PROVE  /\ Cleared(x) /\ x.next \in Statuses
           /\ x.op \notin {"confirm", "capture"} => BankAgreed(x)
           /\ x.op = "confirm" => x.next = "authorized"
  <1> DEFINE i == tx[t].intent
             a == tx[t].amount
             m == terms[i].mode
             A == terms[i].amount
  <1>1. /\ i \in Intents /\ tx[t].op \in Ops /\ status[i] # Nil /\ a \in Int
        /\ tx[t].op = "refund" => a > 0
    BY DEF IInv, TypeOK, Transactions, TxInv, TxOK
  <1>2. status[i] \in Statuses /\ Lifecycle!SoundTerms(terms[i])
    BY <1>1 DEF IInv, TypeOK, TermsInv
  <1>3. m \in Modes /\ A \in Nat \ {0}
    BY <1>2 DEF Lifecycle!SoundTerms, Lifecycle!Terms, Lifecycle!Modes, Modes
  <1>4. CASE tx[t].op = "confirm"
    <2>1. ConfirmVerdict(i) = "ok" /\ x.next = "authorized"
      BY <1>4 DEF Verdict, Target
    <2>2. status[i] \in {"created", "requires_confirmation"}
      BY <2>1 DEF ConfirmVerdict
    <2> QED
      BY <1>4, <2>1, <2>2 DEF Cleared, Statuses
  <1>5. CASE tx[t].op = "capture"
    <2>1. CanTransition(m, status[i], "captured") /\ x.next = "captured"
      BY <1>5 DEF Verdict, Target, CaptureVerdict
    <2>2. status[i] = "authorized"
      BY <1>2, <1>3, <2>1, IntoCaptured
    <2> QED
      BY <1>5, <2>1, <2>2 DEF Cleared, Statuses
  <1>6. CASE tx[t].op = "refund"
    <2>1. RefundVerdict(i, a) = "ok" /\ x.next = RefundTarget(i, a)
      BY <1>6 DEF Verdict, Target
    <2>2. CASE m = "escrow"
      <3>1. a = A /\ CanTransition(m, status[i], "refunded")
        BY <2>1, <2>2 DEF RefundVerdict, EscrowRefundVerdict
      <3>2. status[i] = "held_in_escrow" /\ x.next = "refunded"
        BY <1>2, <2>1, <2>2, <3>1, IntoRefunded DEF RefundTarget, Modes
      <3> QED
        BY <1>6, <2>2, <3>1, <3>2 DEF Cleared, BankAgreed, Statuses
    <2>3. CASE m = "direct"
      <3>1. /\ ~(a > A) /\ ~(status[i] = "captured" /\ a < A)
            /\ CanTransition(m, status[i], RefundTarget(i, a))
        BY <2>1, <2>3 DEF RefundVerdict, DirectRefundVerdict
      <3>2. RefundTarget(i, a) \in {"refunded", "partially_refunded"}
        BY DEF RefundTarget
      <3>3. status[i] \in {"captured", "settled"}
        BY <1>2, <2>3, <3>1, <3>2, IntoRefunded DEF Modes
      <3>4. a \in 1..A /\ (status[i] = "captured" => a = A)
        BY <1>1, <1>3, <1>6, <3>1
      <3> QED
        BY <1>6, <2>1, <2>3, <3>3, <3>4 DEF Cleared, BankAgreed, RefundTarget, Statuses
    <2> QED
      BY <1>3, <2>2, <2>3 DEF Modes
  <1>7. CASE tx[t].op = "release"
    <2>1. CanTransition(m, status[i], "released") /\ x.next = "released"
      BY <1>7 DEF Verdict, Target, ReleaseVerdict
    <2>2. m = "escrow" /\ status[i] = "held_in_escrow"
      BY <1>2, <1>3, <2>1, IntoReleased
    <2> QED
      BY <1>7, <2>1, <2>2 DEF Cleared, BankAgreed, Statuses
  <1>8. CASE tx[t].op = "settle"
    <2>1. status[i] = "captured" /\ x.next = SettleTarget(i)
      BY <1>8 DEF Verdict, Target, SettleVerdict
    <2> QED
      BY <1>8, <2>1 DEF Cleared, BankAgreed, SettleTarget, Statuses
  <1>9. CASE tx[t].op = "expire"
    <2>1. CanTransition(m, status[i], "failed") /\ x.next = "failed"
      BY <1>9 DEF Verdict, Target, ExpireVerdict
    <2>2. status[i] \in {"created", "requires_confirmation", "authorized"}
      BY <1>2, <1>3, <2>1, IntoFailed
    <2> QED
      BY <1>9, <2>1, <2>2 DEF Cleared, BankAgreed, Statuses
  <1> QED
    BY <1>1, <1>4, <1>5, <1>6, <1>7, <1>8, <1>9 DEF Ops, RequestOps

LEMMA VerdictType ==
    ASSUME NEW t \in Procs, tx[t].op \in Ops
    PROVE  Verdict(t) \in Results
  BY DEF Verdict, ConfirmVerdict, CaptureVerdict, RefundVerdict,
         EscrowRefundVerdict, DirectRefundVerdict, ReleaseVerdict,
         SettleVerdict, ExpireVerdict, Ops, RequestOps, Results, Rejections

LEMMA LockIntentInv == ASSUME IInv, NEW t \in Procs, LockIntent(t) PROVE IInv'
  <1>1. /\ UNCHANGED rows /\ UNCHANGED due /\ UNCHANGED bank
        /\ tx[t].pc = "lock" /\ RowFree(t)
    BY DEF LockIntent
  <1>2. /\ tx[t] \in Transactions /\ tx[t].op \in Ops /\ tx[t].intent \in Intents
        /\ status[tx[t].intent] # Nil /\ status[tx[t].intent] \in Statuses
        /\ tx[t].op = "refund" => tx[t].amount > 0
    BY <1>1 DEF IInv, TypeOK, Transactions, TxInv, TxOK
  <1>3. CASE Verdict(t) = "ok"
    <2> DEFINE y == [tx[t] EXCEPT !.pc = AfterLock(tx[t].op),
                                  !.seen = status[tx[t].intent],
                                  !.next = Target(t)]
    <2>1. /\ y.pc = AfterLock(tx[t].op) /\ y.seen = status[tx[t].intent]
          /\ y.next = Target(t) /\ y.op = tx[t].op /\ y.intent = tx[t].intent
          /\ y.amount = tx[t].amount
      BY <1>2 DEF Transactions
    <2>2. /\ Cleared(y) /\ y.next \in Statuses
          /\ y.op \notin {"confirm", "capture"} => BankAgreed(y)
          /\ y.op = "confirm" => y.next = "authorized"
      BY <1>1, <1>3, <2>1, VerdictClears
    <2>3. y \in Transactions
      BY <1>2, <2>1, <2>2 DEF Transactions, AfterLock
    <2>4. PICK x \in Transactions : x = y
      BY <2>3
    <2>5. tx' = [tx EXCEPT ![t] = x]
      BY <1>3, <2>4 DEF LockIntent
    <2> HIDE DEF y
    <2>6. TxOK(x)
      BY <1>2, <2>1, <2>2, <2>4 DEF TxOK, AfterLock
    <2>7. TxOK(x)'
      BY <1>1, <2>6 DEF TxOK, Cleared, BankAgreed, rows, bank
    <2> QED
      BY <1>1, <2>1, <2>4, <2>5, <2>7, GoroutineStep, BankUnchanged, DueUnchanged
  <1>4. CASE Verdict(t) # "ok"
    <2>1. PICK res \in Results : res = Verdict(t)
      BY <1>2, VerdictType
    <2>2. tx' = [tx EXCEPT ![t] = Ended(t, res)]
      BY <1>4, <2>1 DEF LockIntent
    <2> QED
      BY <1>1, <2>2, EndStep, BankUnchanged
  <1> QED
    BY <1>3, <1>4

LEMMA BankActsGrows ==
    ASSUME IInv, NEW t \in Procs, tx[t].pc = "bank", BankActs(t)
    PROVE  /\ BankGrows
           /\ IF tx[t].op = "confirm" THEN bankAuths'[tx[t].intent] > 0
                                      ELSE bankCaptures'[tx[t].intent] > 0
  <1>1. MaxBankCalls \in Nat \ {0}
    BY PaymentIntentsAssumption DEF ConstantsOK
  <1>2. \A n \in 0..MaxBankCalls :
            Saturating(n) \in 0..MaxBankCalls /\ Saturating(n) > 0
    BY <1>1 DEF Saturating
  <1>3. /\ bankAuths \in [Intents -> 0..MaxBankCalls]
        /\ bankCaptures \in [Intents -> 0..MaxBankCalls]
        /\ tx[t].intent \in Intents
    BY DEF IInv, TypeOK, TxInv, TxOK
  <1>4. CASE tx[t].op = "confirm"
    BY <1>2, <1>3, <1>4 DEF BankActs, BankGrows
  <1>5. CASE tx[t].op # "confirm"
    BY <1>2, <1>3, <1>5 DEF BankActs, BankGrows
  <1> QED
    BY <1>4, <1>5

LEMMA BankApprovesInv ==
    ASSUME IInv, NEW t \in Procs, BankApproves(t) PROVE IInv'
  <1>1. /\ UNCHANGED rows /\ UNCHANGED due /\ tx[t].pc = "bank" /\ BankActs(t)
        /\ tx' = [tx EXCEPT ![t].pc = "accounts"]
    BY DEF BankApproves
  <1>2. /\ tx[t] \in Transactions /\ TxOK(tx[t])
    BY DEF IInv, TypeOK, TxInv
  <1>3. BankGrows /\ IF tx[t].op = "confirm"
                     THEN bankAuths'[tx[t].intent] > 0
                     ELSE bankCaptures'[tx[t].intent] > 0
    BY <1>1, BankActsGrows
  <1>4. PICK x \in Transactions : x = [tx[t] EXCEPT !.pc = "accounts"]
    BY <1>2 DEF Transactions
  <1>5. /\ x.pc = "accounts" /\ x.op = tx[t].op /\ x.intent = tx[t].intent
        /\ x.amount = tx[t].amount /\ x.seen = tx[t].seen /\ x.next = tx[t].next
    BY <1>2, <1>4 DEF Transactions
  <1>6. tx' = [tx EXCEPT ![t] = x] /\ HoldsIntent(t)
    BY <1>1, <1>4 DEF HoldsIntent
  <1>7. Cleared(x)'
    BY <1>1, <1>2, <1>5 DEF TxOK, Cleared, rows
  <1>8. BankAgreed(x)'
    BY <1>1, <1>2, <1>3, <1>5 DEF TxOK, Cleared, BankAgreed
  <1>9. TxOK(x)'
    BY <1>1, <1>2, <1>5, <1>7, <1>8 DEF TxOK, rows
  <1> QED
    BY <1>1, <1>3, <1>5, <1>6, <1>9, GoroutineStep, DueUnchanged

LEMMA BankDeclinesInv ==
    ASSUME IInv, NEW t \in Procs, BankDeclines(t) PROVE IInv'
  <1>1. /\ UNCHANGED rows /\ UNCHANGED due /\ UNCHANGED bank
        /\ tx[t].pc = "bank" /\ tx[t].op = "confirm"
        /\ tx' = [tx EXCEPT ![t].pc = "accounts", ![t].next = "failed"]
    BY DEF BankDeclines
  <1>2. /\ tx \in [Procs -> Transactions] /\ tx[t] \in Transactions /\ TxOK(tx[t])
    BY DEF IInv, TypeOK, TxInv
  <1>3. PICK x \in Transactions :
            x = [tx[t] EXCEPT !.pc = "accounts", !.next = "failed"]
    BY <1>2 DEF Transactions, Statuses
  <1>4. /\ x.pc = "accounts" /\ x.op = tx[t].op /\ x.intent = tx[t].intent
        /\ x.amount = tx[t].amount /\ x.seen = tx[t].seen /\ x.next = "failed"
    BY <1>2, <1>3 DEF Transactions
  <1>5. tx' = [tx EXCEPT ![t] = x] /\ HoldsIntent(t)
    BY <1>1, <1>2, <1>3 DEF HoldsIntent
  <1>6. TxOK(x)'
    BY <1>1, <1>2, <1>4 DEF TxOK, Cleared, BankAgreed, rows
  <1> QED
    BY <1>1, <1>4, <1>5, <1>6, GoroutineStep, DueUnchanged, BankUnchanged

LEMMA BankTimesOutInv ==
    ASSUME IInv, NEW t \in Procs, BankTimesOut(t) PROVE IInv'
  <1>1. /\ UNCHANGED rows /\ UNCHANGED due /\ tx[t].pc = "bank"
        /\ tx' = [tx EXCEPT ![t] = Ended(t, "bank_unavailable")]
    BY DEF BankTimesOut
  <1>2. BankGrows
    BY <1>1, BankActsGrows, BankUnchanged DEF BankTimesOut
  <1>3. "bank_unavailable" \in Results
    BY DEF Results
  <1> QED
    BY <1>1, <1>2, <1>3, EndStep

LEMMA LockAccountInv ==
    ASSUME IInv, NEW t \in Procs, LockAccount(t) PROVE IInv'
  <1> DEFINE y == [tx[t] EXCEPT !.got = @ + 1]
  <1>1. /\ UNCHANGED rows /\ UNCHANGED due /\ UNCHANGED bank
        /\ tx[t].pc = "accounts" /\ tx' = [tx EXCEPT ![t].got = @ + 1]
    BY DEF LockAccount, WantsAccount
  <1>2. /\ tx \in [Procs -> Transactions] /\ tx[t] \in Transactions /\ TxOK(tx[t])
        /\ tx[t].got \in Nat
    BY DEF IInv, TypeOK, TxInv, Transactions
  <1>3. y \in Transactions
    BY <1>2 DEF Transactions
  <1>4. PICK x \in Transactions : x = y
    BY <1>3
  <1>5. /\ x.pc = "accounts" /\ x.op = tx[t].op /\ x.intent = tx[t].intent
        /\ x.amount = tx[t].amount /\ x.seen = tx[t].seen /\ x.next = tx[t].next
    BY <1>1, <1>2, <1>4 DEF Transactions
  <1>6. tx' = [tx EXCEPT ![t] = x] /\ HoldsIntent(t)
    BY <1>1, <1>2, <1>4 DEF HoldsIntent
  <1>7. TxOK(x)'
    BY <1>1, <1>2, <1>5 DEF TxOK, Cleared, BankAgreed, rows, bank
  <1> QED
    BY <1>1, <1>5, <1>6, <1>7, GoroutineStep, DueUnchanged, BankUnchanged

LEMMA RollBackInv == ASSUME IInv, NEW t \in Procs, RollBack(t) PROVE IInv'
  <1>1. "error" \in Results
    BY DEF Results
  <1> QED
    BY <1>1, EndStep, BankUnchanged DEF RollBack

LEMMA DeadlockAbortInv ==
    ASSUME IInv, NEW t \in Procs, DeadlockAbort(t) PROVE IInv'
  <1>1. "error" \in Results
    BY DEF Results
  <1>2. tx[t].pc = "accounts"
    BY DEF DeadlockAbort, Deadlocked, WaitsFor, WantsAccount
  <1> QED
    BY <1>1, <1>2, EndStep, BankUnchanged DEF DeadlockAbort
-----------------------------------------------------------------------------
(* The steps that write rows. *)

(* A validated request becomes sound terms. *)
LEMMA CreatedTermsSound ==
    ASSUME NEW in \in CreateInputs, ValidCreate(in)
    PROVE  Lifecycle!SoundTerms(TermsOf(in))
  <1>1. /\ in.escrow \in BOOLEAN /\ in.amount \in Int
        /\ in.payee \in Payees \cup {Nil} /\ in.fee \in Int \cup {Nil}
    BY PaymentIntentsAssumption DEF ConstantsOK
  <1>2. in.amount \in Nat \ {0}
    BY <1>1 DEF ValidCreate
  <1>3. CASE in.escrow
    <2>1. in.payee \in Payees /\ in.fee \in 0..in.amount
      BY <1>1, <1>2, <1>3 DEF ValidCreate
    <2> QED
      BY <1>2, <1>3, <2>1
         DEF TermsOf, Lifecycle!SoundTerms, Lifecycle!Terms, Lifecycle!Modes
  <1>4. CASE ~in.escrow
    BY <1>2, <1>4
       DEF TermsOf, Lifecycle!SoundTerms, Lifecycle!Terms, Lifecycle!Modes
  <1> QED
    BY <1>3, <1>4

LEMMA CreateInv == ASSUME IInv, NEW i \in Intents, Create(i) PROVE IInv'
  <1>1. PICK in \in CreateInputs :
            ValidCreate(in) /\ terms' = [terms EXCEPT ![i] = TermsOf(in)]
    BY DEF Create
  <1>2. /\ status[i] = Nil /\ status' = [status EXCEPT ![i] = "created"]
        /\ UNCHANGED <<net, outbox, aged, tx, due, bankAuths, bankCaptures>>
    BY DEF Create, bank
  <1>3. Lifecycle!SoundTerms(TermsOf(in)) /\ TermsOf(in) \in Lifecycle!Terms
    BY <1>1, CreatedTermsSound DEF Lifecycle!SoundTerms
  <1>4. "created" \in Statuses /\ "created" # Nil
    BY PaymentIntentsAssumption DEF Statuses, ConstantsOK
  <1>5. /\ status'[i] = "created" /\ terms'[i] = TermsOf(in)
        /\ \A j \in Intents \ {i} : status'[j] = status[j] /\ terms'[j] = terms[j]
    BY <1>1, <1>2 DEF IInv, TypeOK
  <1>6. TypeOK'
    BY <1>1, <1>2, <1>3, <1>4 DEF IInv, TypeOK
  <1>7. TermsInv'
    BY <1>3, <1>5 DEF IInv, TermsInv
  <1>8. DueInv'
    BY <1>2, <1>4, <1>5 DEF IInv, DueInv, TypeOK
  <1>9. TxInv'
    <2>1. ASSUME NEW t \in Procs, tx[t].pc # "idle"
          PROVE  tx[t].intent \in Intents \ {i}
      BY <1>2, <2>1 DEF IInv, TxInv, TxOK
    <2> QED
      BY <1>2, <1>5, <2>1 DEF IInv, TxInv, TxOK, Cleared, BankAgreed
  <1>10. LockInv'
    BY <1>2 DEF IInv, LockInv, HoldsIntent
  <1>11. BooksMatchStatus'
    <2>1. net[i] = EmptyBooks /\ EmptyBooks = Lifecycle!EmptyBooks
      BY <1>2 DEF IInv, BooksMatchStatus, EmptyBooks, Lifecycle!EmptyBooks,
                  Kinds, Lifecycle!Kinds
    <2>2. net'[i] \in Lifecycle!Positions(terms'[i], status'[i])
      BY <1>2, <1>5, <2>1 DEF Lifecycle!Positions
    <2>3. \A j \in Intents \ {i} :
            net'[j] \in IF status'[j] = Nil THEN {EmptyBooks}
                        ELSE Lifecycle!Positions(terms'[j], status'[j])
      BY <1>2, <1>5 DEF IInv, BooksMatchStatus
    <2> QED
      BY <1>4, <1>5, <2>2, <2>3 DEF BooksMatchStatus
  <1>12. OutboxTellsHistory'
    <2>1. outbox'[i] = <<>> /\ Len(outbox'[i]) = 0
      BY <1>2 DEF IInv, OutboxTellsHistory
    <2>2. \A j \in Intents \ {i} :
            IF status'[j] = Nil THEN outbox'[j] = <<>>
            ELSE /\ \A k \in 1..Len(outbox'[j]) :
                    CanMove(terms'[j].mode, StatusBefore(j, k)', outbox'[j][k].status)
                 /\ status'[j] = StatusBefore(j, Len(outbox[j]) + 1)'
      BY <1>2, <1>5 DEF IInv, OutboxTellsHistory, StatusBefore
    <2>3. status'[i] = StatusBefore(i, Len(outbox[i]) + 1)'
      BY <1>5, <2>1 DEF StatusBefore
    <2> QED
      BY <1>4, <1>5, <2>1, <2>2, <2>3 DEF OutboxTellsHistory
  <1>13. BankBacksLedger'
    BY <1>2, <1>5 DEF IInv, BankBacksLedger, Captured
  <1> QED
    BY <1>6, <1>7, <1>8, <1>9, <1>10, <1>11, <1>12, <1>13 DEF IInv

(* A position is an assignment of balances to accounts. *)
LEMMA PositionsAreBooks ==
    ASSUME NEW tm, Lifecycle!SoundTerms(tm), NEW st \in Statuses,
           st = "released" => tm.mode = "escrow"
    PROVE  Lifecycle!Positions(tm, st) \subseteq [Kinds -> Int]
  <1>1. /\ tm.amount \in Int /\ tm.mode \in {"direct", "escrow"}
        /\ tm.mode = "escrow" => tm.fee \in Int
        /\ 1..(tm.amount - 1) \subseteq Int
    BY DEF Lifecycle!SoundTerms, Lifecycle!Terms, Lifecycle!Modes
  <1>2. /\ "acquirer_receivable" \in Kinds /\ "merchant_payable" \in Kinds
        /\ "escrow_liability" \in Kinds /\ "segregated_cash" \in Kinds
        /\ "platform_cash" \in Kinds /\ "payable_to_payee" \in Kinds
    BY DEF Kinds
  <1>3. \A x \in Int :
          /\ Lifecycle!Backed("acquirer_receivable", "merchant_payable", x) \in [Kinds -> Int]
          /\ Lifecycle!Backed("acquirer_receivable", "escrow_liability", x) \in [Kinds -> Int]
          /\ Lifecycle!Backed("platform_cash", "merchant_payable", x) \in [Kinds -> Int]
          /\ Lifecycle!Backed("segregated_cash", "escrow_liability", x) \in [Kinds -> Int]
          /\ Lifecycle!Backed("platform_cash", "payable_to_payee", x) \in [Kinds -> Int]
    BY <1>2, BackedAt
  <1>4. Lifecycle!EmptyBooks \in [Kinds -> Int]
    BY DEF Lifecycle!EmptyBooks, Lifecycle!Kinds, Kinds
  <1>5. CASE st = "captured"
    BY <1>1, <1>3, <1>5 DEF Lifecycle!Positions
  <1>6. CASE st = "settled" \/ st = "held_in_escrow"
    BY <1>1, <1>3, <1>6 DEF Lifecycle!Positions
  <1>7. CASE st = "partially_refunded"
    BY <1>1, <1>3, <1>7 DEF Lifecycle!Positions
  <1>8. CASE st = "released"
    <2> DEFINE paid == Lifecycle!Backed("platform_cash", "payable_to_payee", tm.amount)
               x == tm.fee - tm.amount
               y == -tm.fee
    <2>1. paid \in [Kinds -> Int] /\ x \in Int /\ y \in Int
      BY <1>1, <1>3, <1>8
    <2>2. Lifecycle!Positions(tm, st) =
            {[paid EXCEPT !["payable_to_payee"] = x, !["platform_revenue"] = y]}
      BY <1>8 DEF Lifecycle!Positions
    <2> HIDE DEF paid, x, y
    <2>3. [paid EXCEPT !["payable_to_payee"] = x, !["platform_revenue"] = y]
            \in [Kinds -> Int]
      BY <2>1
    <2> QED
      BY <2>2, <2>3
  <1>9. CASE st \notin {"captured", "settled", "held_in_escrow",
                        "partially_refunded", "released"}
    BY <1>4, <1>9 DEF Lifecycle!Positions
  <1> QED
    BY <1>5, <1>6, <1>7, <1>8, <1>9

(* A legal move that is announced extends the history of its intent. *)
LEMMA MoveExtendsHistory ==
    ASSUME IInv, NEW i \in Intents, NEW to \in Statuses, status[i] # Nil,
           CanMove(terms[i].mode, status[i], to),
           outbox[i] \in Seq(Lifecycle!Events),
           outbox'[i] = Append(outbox[i], Lifecycle!Event(to)),
           status'[i] = to, UNCHANGED terms,
           \A j \in Intents \ {i} : status'[j] = status[j] /\ outbox'[j] = outbox[j]
    PROVE  OutboxTellsHistory'
  <1>1. to # Nil
    BY PaymentIntentsAssumption DEF ConstantsOK
  <1> PICK n \in Nat : n = Len(outbox[i])
    OBVIOUS
  <1>2. /\ Len(outbox'[i]) = n + 1
        /\ \A k \in 1..n : outbox'[i][k] = outbox[i][k]
        /\ outbox'[i][n + 1].status = to
    BY DEF Lifecycle!Event
  <1>3. \A j \in Intents \ {i} :
            IF status'[j] = Nil THEN outbox'[j] = <<>>
            ELSE /\ \A k \in 1..Len(outbox'[j]) :
                    CanMove(terms'[j].mode, StatusBefore(j, k)', outbox'[j][k].status)
                 /\ status'[j] = StatusBefore(j, Len(outbox[j]) + 1)'
    BY DEF IInv, OutboxTellsHistory, StatusBefore
  <1>4. /\ \A k \in 1..n :
                CanMove(terms[i].mode, StatusBefore(i, k), outbox[i][k].status)
        /\ status[i] = StatusBefore(i, n + 1)
    BY DEF IInv, OutboxTellsHistory
  <1>5. \A k \in 1..(n + 1) : StatusBefore(i, k)' = StatusBefore(i, k)
    BY <1>2 DEF StatusBefore
  <1>6. ASSUME NEW k \in 1..(n + 1)
        PROVE  CanMove(terms'[i].mode, StatusBefore(i, k)', outbox'[i][k].status)
    <2>1. CASE k = n + 1
      BY <1>2, <1>4, <1>5, <2>1
    <2>2. CASE k # n + 1
      <3>1. k \in 1..n
        BY <1>2, <2>2
      <3> QED
        BY <1>2, <1>4, <1>5, <3>1
    <2> QED
      BY <2>1, <2>2
  <1>7. status'[i] = StatusBefore(i, n + 2)'
    BY <1>2 DEF StatusBefore
  <1>8. StatusBefore(i, Len(outbox[i]) + 1)' = StatusBefore(i, n + 2)'
    BY <1>2 DEF StatusBefore
  <1> QED
    BY <1>1, <1>2, <1>3, <1>6, <1>7, <1>8 DEF OutboxTellsHistory

(* What a transaction about to commit stores. *)
LEMMA WritesFacts ==
    ASSUME IInv, NEW t \in Procs, Writes(t)
    PROVE  LET i == tx[t].intent
           IN  /\ i \in Intents /\ status[i] # Nil /\ tx[t].next \in Statuses
               /\ Lifecycle!SoundTerms(terms[i])
               /\ Cleared(tx[t]) /\ BankAgreed(tx[t])
               /\ status'[i] = tx[t].next
               /\ net'[i] \in Lifecycle!Positions(terms[i], tx[t].next)
               /\ net'[i] \in [Kinds -> Int]
               /\ net' = [net EXCEPT ![i] = net'[i]]
               /\ CanMove(terms[i].mode, status[i], tx[t].next)
  <1> DEFINE i == tx[t].intent
  <1>1. /\ i \in Intents /\ status[i] # Nil /\ Cleared(tx[t]) /\ BankAgreed(tx[t])
    BY DEF IInv, TxInv, TxOK, Writes, UpdateIntentStatus
  <1>2. tx[t].next \in Statuses
    BY <1>1 DEF Cleared, Statuses
  <1>3. Lifecycle!SoundTerms(terms[i])
    BY <1>1 DEF IInv, TermsInv
  <1>4. terms[i].mode \in Modes
    BY <1>3 DEF Lifecycle!SoundTerms, Lifecycle!Terms, Lifecycle!Modes, Modes
  <1>5. status'[i] = tx[t].next
    BY <1>1 DEF IInv, TypeOK, Writes, UpdateIntentStatus
  <1>6. net' = [net EXCEPT ![i] = NewBooks(t)] /\ net'[i] = NewBooks(t)
    BY <1>1 DEF IInv, TypeOK, Writes, UpdateIntentStatus, NewBooks
  <1>7. net[i] \in Lifecycle!Positions(terms[i], status[i])
    BY <1>1 DEF IInv, BooksMatchStatus
  <1>8. NewBooks(t) \in Lifecycle!Positions(terms[i], tx[t].next)
    BY <1>1, <1>3, <1>7, ClearedPosition
  <1>9. tx[t].next = "released" => terms[i].mode = "escrow"
    BY <1>1 DEF Cleared
  <1>10. NewBooks(t) \in [Kinds -> Int]
    BY <1>2, <1>3, <1>8, <1>9, PositionsAreBooks
  <1>11. CanMove(terms[i].mode, status[i], tx[t].next)
    BY <1>1, <1>4, ClearedMoves
  <1> QED
    BY <1>1, <1>2, <1>3, <1>5, <1>6, <1>8, <1>10, <1>11

LEMMA WritesInv ==
    ASSUME IInv, NEW t \in Procs, NEW res \in Results, Writes(t),
           tx' = [tx EXCEPT ![t] = Ended(t, res)]
    PROVE  IInv'
  <1> DEFINE i == tx[t].intent
             next == tx[t].next
  <1>1. /\ i \in Intents /\ status[i] # Nil /\ next \in Statuses
        /\ Cleared(tx[t]) /\ BankAgreed(tx[t])
        /\ net'[i] \in Lifecycle!Positions(terms[i], next)
        /\ net'[i] \in [Kinds -> Int] /\ net' = [net EXCEPT ![i] = net'[i]]
        /\ CanMove(terms[i].mode, status[i], next)
    BY WritesFacts
  <1>2. /\ status' = [status EXCEPT ![i] = next]
        /\ outbox' = [outbox EXCEPT ![i] = Append(outbox[i], Lifecycle!Event(next))]
        /\ aged' = [aged EXCEPT ![i] = FALSE]
        /\ UNCHANGED <<terms, due, bankAuths, bankCaptures>>
        /\ tx[t].pc = "accounts"
    BY DEF Writes, UpdateIntentStatus, bank
  <1>3. /\ status'[i] = next
        /\ outbox'[i] = Append(outbox[i], Lifecycle!Event(next))
        /\ \A j \in Intents \ {i} : /\ status'[j] = status[j] /\ net'[j] = net[j]
                                    /\ outbox'[j] = outbox[j]
    BY <1>1, <1>2 DEF IInv, TypeOK
  <1>4. next # Nil
    BY <1>1, PaymentIntentsAssumption DEF ConstantsOK
  <1>5. /\ Ended(t, res) \in Transactions /\ Ended(t, res).pc = "done"
        /\ Ended(t, res).op \in Ops /\ Ended(t, res).intent = i
    BY <1>2, EndedOK
  <1>6. /\ tx'[t] = Ended(t, res)
        /\ \A u \in Procs \ {t} : tx'[u] = tx[u]
    BY DEF IInv, TypeOK
  <1>7. outbox[i] \in Seq(Lifecycle!Events) /\ Lifecycle!Event(next) \in Lifecycle!Events
    BY <1>1 DEF IInv, TypeOK, Lifecycle!Events, Lifecycle!Statuses, Statuses
  <1>8. TypeOK'
    <2>1. outbox' \in [Intents -> Seq(Lifecycle!Events)]
      BY <1>1, <1>2, <1>7 DEF IInv, TypeOK
    <2>2. net' \in [Intents -> [Kinds -> Int]]
      BY <1>1 DEF IInv, TypeOK
    <2>3. tx' \in [Procs -> Transactions]
      BY <1>5 DEF IInv, TypeOK
    <2> QED
      BY <1>1, <1>2, <2>1, <2>2, <2>3 DEF IInv, TypeOK
  <1>9. TermsInv' /\ DueInv'
    BY <1>1, <1>2, <1>3, <1>4 DEF IInv, TermsInv, DueInv, TypeOK
  <1>10. TxInv'
    <2>1. TxOK(tx[t])'
      BY <1>1, <1>3, <1>4, <1>5, <1>6 DEF TxOK
    <2>2. ASSUME NEW u \in Procs, u # t PROVE TxOK(tx[u])'
      <3>1. tx'[u] = tx[u] /\ TxOK(tx[u])
        BY <1>6, <2>2 DEF IInv, TxInv
      <3>2. HoldsIntent(u) => tx[u].intent # i
        BY <1>2, <2>2 DEF IInv, LockInv, HoldsIntent
      <3>3. CASE ~HoldsIntent(u)
        BY <1>3, <1>4, <3>1, <3>3 DEF TxOK, HoldsIntent
      <3>4. CASE HoldsIntent(u)
        BY <1>2, <1>3, <3>1, <3>2, <3>4 DEF TxOK, HoldsIntent, Cleared, BankAgreed
      <3> QED
        BY <3>3, <3>4
    <2> QED
      BY <2>1, <2>2 DEF TxInv
  <1>11. LockInv'
    <2>1. ~HoldsIntent(t)'
      BY <1>5, <1>6 DEF HoldsIntent
    <2>2. \A u \in Procs \ {t} : HoldsIntent(u)' <=> HoldsIntent(u)
      BY <1>6 DEF HoldsIntent
    <2> QED
      BY <1>6, <2>1, <2>2 DEF IInv, LockInv
  <1>12. BooksMatchStatus'
    <2>1. \A j \in Intents \ {i} :
            net'[j] \in IF status'[j] = Nil THEN {EmptyBooks}
                        ELSE Lifecycle!Positions(terms'[j], status'[j])
      BY <1>2, <1>3 DEF IInv, BooksMatchStatus
    <2>2. net'[i] \in Lifecycle!Positions(terms'[i], status'[i])
      BY <1>1, <1>2, <1>3
    <2> QED
      BY <1>3, <1>4, <2>1, <2>2 DEF BooksMatchStatus
  <1>13. OutboxTellsHistory'
    <2>1. PICK j \in Intents : j = i
      BY <1>1
    <2>2. PICK to \in Statuses : to = next
      BY <1>1
    <2> HIDE DEF i, next
    <2> QED
      BY <1>1, <1>2, <1>3, <1>7, <2>1, <2>2, MoveExtendsHistory
  <1>14. BankBacksLedger'
    <2>1. /\ next \in Captured \cup {"authorized"} => bankAuths[i] > 0
          /\ next \in Captured => bankCaptures[i] > 0
      BY <1>1 DEF Cleared, BankAgreed, IInv, BankBacksLedger, Captured
    <2> QED
      BY <1>2, <1>3, <2>1 DEF IInv, BankBacksLedger
  <1> QED
    BY <1>8, <1>9, <1>10, <1>11, <1>12, <1>13, <1>14 DEF IInv
-----------------------------------------------------------------------------
(* Every step preserves the invariant. *)
LEMMA NextInv == IInv /\ [Next]_vars => IInv'
  <1> SUFFICES ASSUME IInv, [Next]_vars PROVE IInv'
    OBVIOUS
  <1>1. CASE UNCHANGED vars
    BY <1>1 DEF vars, IInv, TypeOK, TermsInv, DueInv, TxInv, TxOK, Cleared,
                BankAgreed, LockInv, HoldsIntent, BooksMatchStatus,
                OutboxTellsHistory, StatusBefore, BankBacksLedger
  <1>2. ASSUME NEW i \in Intents, Create(i) \/ Age(i) PROVE IInv'
    BY <1>2, CreateInv, AgeInv
  <1>3. ASSUME NEW t \in Procs, Step(t) PROVE IInv'
    <2>1. CASE Commit(t)
      <3>1. "ok" \in Results
        BY DEF Results
      <3> QED
        BY <2>1, <3>1, WritesInv DEF Commit
    <2> QED
      BY <1>3, <2>1, LockIntentInv, BankApprovesInv, BankDeclinesInv,
         LockAccountInv, DeadlockAbortInv DEF Step
  <1>4. ASSUME NEW t \in Procs, Fault(t) PROVE IInv'
    <2>1. CASE CommitUnacknowledged(t)
      <3>1. "error" \in Results
        BY DEF Results
      <3> QED
        BY <2>1, <3>1, WritesInv DEF CommitUnacknowledged
    <2> QED
      BY <1>4, <2>1, BankTimesOutInv, RollBackInv, CrashInv DEF Fault
  <1>5. ASSUME NEW r \in Requests, NextRequest(r) \/ Reply(r) PROVE IInv'
    <2>1. CASE NextRequest(r)
      <3>1. PICK op \in RequestOps, i \in Intents, a \in Int : Request(r, op, i, a)
        BY <2>1, PaymentIntentsAssumption DEF NextRequest, ConstantsOK
      <3> QED
        BY <3>1, RequestInv
    <2> QED
      BY <1>5, <2>1, ReplyInv
  <1>6. ASSUME NEW w \in Sweepers, ListDue(w) \/ SweepNext(w) \/ SweepDone(w)
        PROVE  IInv'
    BY <1>6, ListDueInv, SweepNextInv, SweepDoneInv
  <1> QED
    BY <1>1, <1>2, <1>3, <1>4, <1>5, <1>6 DEF Next

(* The inductive invariant holds of every behaviour. *)
THEOREM Invariance == Spec => []IInv
  BY InitInv, NextInv, PTL DEF Spec

(***************************************************************************)
(* Type correctness: every variable the service stores or holds stays in   *)
(* its type, in particular only statuses the schema knows are stored.      *)
(***************************************************************************)
THEOREM TypeCorrectness == Spec => []TypeOK
  <1>1. IInv => TypeOK
    BY DEF IInv
  <1> QED
    BY <1>1, Invariance, PTL

(***************************************************************************)
(* Whatever runs concurrently and fails, the balances due to an intent are *)
(* a position of the status stored for it (money.go posts and updates the  *)
(* status in one transaction, under the intent's row lock).                *)
(***************************************************************************)
THEOREM BooksAlwaysMatch == Spec => []BooksMatchStatus
  <1>1. IInv => BooksMatchStatus
    BY DEF IInv
  <1> QED
    BY <1>1, Invariance, PTL

(* The events emitted are the path the status has travelled, exactly once. *)
THEOREM OutboxIsComplete == Spec => []OutboxTellsHistory
  <1>1. IInv => OutboxTellsHistory
    BY DEF IInv
  <1> QED
    BY <1>1, Invariance, PTL

(***************************************************************************)
(* No funds on the books without a hold and a capture at the bank, even    *)
(* when bank calls time out with an unknown outcome (Confirm and Capture   *)
(* store nothing unless the bank has answered).                            *)
(***************************************************************************)
THEOREM BankAlwaysBacks == Spec => []BankBacksLedger
  <1>1. IInv => BankBacksLedger
    BY DEF IInv
  <1> QED
    BY <1>1, Invariance, PTL

(***************************************************************************)
(* PostTransaction never refuses a posting the service builds: no balance  *)
(* of terms, fee and refund leads to an empty, zero or unbalanced posting. *)
(***************************************************************************)
THEOREM PostingsAlwaysAccepted == Spec => []PostingsAccepted
  <1>1. IInv => PostingsAccepted
    <2> SUFFICES ASSUME IInv, NEW t \in Procs, tx[t].pc = "accounts"
                 PROVE  PostingAccepted(t)
      BY DEF PostingsAccepted, PostingRefused
    <2>1. /\ tx[t].intent \in Intents /\ Cleared(tx[t])
          /\ Lifecycle!SoundTerms(terms[tx[t].intent])
      BY DEF IInv, TxInv, TxOK, TermsInv
    <2> QED
      BY <2>1, ClearedPostable
  <1> QED
    BY <1>1, Invariance, PTL
-----------------------------------------------------------------------------
(* The refinement: a creation opens, a commit moves, all the rest stutters. *)
LEMMA CreateOpens ==
    ASSUME IInv, NEW i \in Intents, Create(i) PROVE Lifecycle!Open(i)
  <1>1. PICK in \in CreateInputs :
            ValidCreate(in) /\ terms' = [terms EXCEPT ![i] = TermsOf(in)]
    BY DEF Create
  <1>2. terms'[i] = TermsOf(in)
    BY <1>1 DEF IInv, TypeOK
  <1>3. Lifecycle!SoundTerms(terms'[i])
    BY <1>1, <1>2, CreatedTermsSound
  <1> QED
    BY <1>1, <1>2, <1>3 DEF Create, Lifecycle!Open

LEMMA WritesMove ==
    ASSUME IInv, NEW t \in Procs, Writes(t) PROVE Lifecycle!Next
  <1> DEFINE i == tx[t].intent
  <1>1. /\ i \in Intents /\ status[i] # Nil /\ tx[t].next \in Statuses
        /\ net'[i] \in Lifecycle!Positions(terms[i], tx[t].next)
        /\ net' = [net EXCEPT ![i] = net'[i]]
        /\ CanMove(terms[i].mode, status[i], tx[t].next)
    BY WritesFacts
  <1>2. /\ status' = [status EXCEPT ![i] = tx[t].next]
        /\ outbox' = [outbox EXCEPT ![i] =
                        Append(@, Lifecycle!Event(tx[t].next))]
        /\ UNCHANGED terms
    BY DEF Writes, UpdateIntentStatus
  <1>3. PICK j \in Intents : j = i
    BY <1>1
  <1>4. PICK to \in Statuses : to = tx[t].next
    BY <1>1
  <1> HIDE DEF i
  <1>5. Lifecycle!CanMove(terms[j].mode, status[j], to)
    BY <1>1, <1>3, <1>4
       DEF CanMove, CanTransition, AllowedEdges, PreCaptureEdges,
           Lifecycle!CanMove, Lifecycle!CanTransition, Lifecycle!AllowedEdges,
           Lifecycle!PreCaptureEdges
  <1>6. Lifecycle!Move(j, to)
    BY <1>1, <1>2, <1>3, <1>4, <1>5 DEF Lifecycle!Move
  <1>7. to \in Lifecycle!Statuses
    BY DEF Statuses, Lifecycle!Statuses
  <1> QED
    BY <1>6, <1>7 DEF Lifecycle!Next

LEMMA StepRefines == IInv /\ [Next]_vars => [Lifecycle!Next]_Lifecycle!lifecycleVars
  <1> SUFFICES ASSUME IInv, [Next]_vars
               PROVE  Lifecycle!Next \/ UNCHANGED Lifecycle!lifecycleVars
    OBVIOUS
  <1>1. CASE UNCHANGED vars
    BY <1>1 DEF vars, Lifecycle!lifecycleVars
  <1>2. ASSUME NEW i \in Intents, Create(i) PROVE Lifecycle!Next
    BY <1>2, CreateOpens DEF Lifecycle!Next
  <1>3. ASSUME NEW t \in Procs, Commit(t) \/ CommitUnacknowledged(t)
        PROVE  Lifecycle!Next
    BY <1>3, WritesMove DEF Commit, CommitUnacknowledged
  <1>4. ASSUME NEW i \in Intents, Age(i) PROVE UNCHANGED Lifecycle!lifecycleVars
    BY <1>4 DEF Age, Lifecycle!lifecycleVars
  <1>5. ASSUME NEW t \in Procs,
               \/ LockIntent(t) \/ BankApproves(t) \/ BankDeclines(t)
               \/ LockAccount(t) \/ DeadlockAbort(t)
               \/ BankTimesOut(t) \/ RollBack(t) \/ Crash(t)
        PROVE  UNCHANGED Lifecycle!lifecycleVars
    BY <1>5 DEF LockIntent, BankApproves, BankDeclines, LockAccount,
                DeadlockAbort, BankTimesOut, RollBack, Crash, rows,
                Lifecycle!lifecycleVars
  <1>6. ASSUME NEW r \in Requests, NextRequest(r) \/ Reply(r)
        PROVE  UNCHANGED Lifecycle!lifecycleVars
    BY <1>6 DEF NextRequest, Request, Reply, rows, Lifecycle!lifecycleVars
  <1>7. ASSUME NEW w \in Sweepers, ListDue(w) \/ SweepNext(w) \/ SweepDone(w)
        PROVE  UNCHANGED Lifecycle!lifecycleVars
    BY <1>7 DEF ListDue, SweepNext, SweepDone, rows, Lifecycle!lifecycleVars
  <1> QED
    BY <1>1, <1>2, <1>3, <1>4, <1>5, <1>6, <1>7 DEF Next, Step, Fault

(***************************************************************************)
(* The service, with its locks, its bank, its sweeps and its faults,       *)
(* implements the lifecycle: every behaviour is one of sound creations and *)
(* legal, correctly booked, announced moves.                               *)
(***************************************************************************)
THEOREM Refinement == Spec => ImplementsLifecycle
  <1>1. Init => Lifecycle!Init
    BY DEF Init, Lifecycle!Init, EmptyBooks, Lifecycle!EmptyBooks, Kinds,
           Lifecycle!Kinds
  <1> QED
    BY <1>1, StepRefines, Invariance, PTL
       DEF Spec, ImplementsLifecycle, Lifecycle!Spec
-----------------------------------------------------------------------------
(* The k-th account that t locks: its kind and whose it is. *)
Kind(t, k) == AccountOrder(t)[k][1]
Ref(t, k) == AccountOrder(t)[k][2]

Escrow(t) == terms[tx[t].intent].mode = "escrow"
Direct(t) == terms[tx[t].intent].mode = "direct"

(***************************************************************************)
(* The orders in which the operations lock accounts.                       *)
(***************************************************************************)
LockOrder(t, n) ==
    \/ n = 0
    \/ /\ n = 2 /\ tx[t].op = "capture" /\ Direct(t)
       /\ Kind(t, 1) = "acquirer_receivable" /\ Kind(t, 2) = "merchant_payable"
    \/ /\ n = 2 /\ tx[t].op = "capture" /\ Escrow(t)
       /\ Kind(t, 1) = "acquirer_receivable" /\ Kind(t, 2) = "escrow_liability"
    \/ /\ n = 2 /\ tx[t].op = "refund" /\ Direct(t)
       /\ Kind(t, 1) = "merchant_payable"
       /\ Kind(t, 2) \in {"acquirer_receivable", "platform_cash"}
    \/ /\ n = 2 /\ tx[t].op = "refund" /\ Escrow(t)
       /\ Kind(t, 1) = "escrow_liability" /\ Kind(t, 2) = "segregated_cash"
    \/ /\ n = 2 /\ tx[t].op = "settle" /\ Direct(t)
       /\ Kind(t, 1) = "platform_cash" /\ Kind(t, 2) = "acquirer_receivable"
    \/ /\ n = 2 /\ tx[t].op = "settle" /\ Escrow(t)
       /\ Kind(t, 1) = "segregated_cash" /\ Kind(t, 2) = "acquirer_receivable"
    \/ /\ n \in 3..5 /\ tx[t].op = "release" /\ Escrow(t)
       /\ Kind(t, 1) = "escrow_liability" /\ Kind(t, 2) = "segregated_cash"
       /\ Kind(t, 3) = "platform_cash"
       /\ n = 4 => Kind(t, 4) \in {"payable_to_payee", "platform_revenue"}
       /\ n = 5 => /\ Kind(t, 4) = "payable_to_payee"
                   /\ Kind(t, 5) = "platform_revenue"

OwnLiability(t, n) ==
    \A k \in 1..n : Kind(t, k) = "escrow_liability" => Ref(t, k) = tx[t].intent

LEMMA FourthAppended ==
    ASSUME NEW a, NEW b, NEW c, NEW d
    PROVE  <<a, b, c>> \o <<d>> = <<a, b, c, d>>
  <1> DEFINE s == <<a, b, c>> \o <<d>>
  <1>1. s = [k \in 1..4 |-> s[k]]
    OBVIOUS
  <1>2. \A k \in 1..4 : s[k] = <<a, b, c, d>>[k]
    OBVIOUS
  <1>3. <<a, b, c, d>> = [k \in 1..4 |-> <<a, b, c, d>>[k]]
    OBVIOUS
  <1>4. QED
    BY <1>1, <1>2, <1>3

LEMMA FifthAppended ==
    ASSUME NEW a, NEW b, NEW c, NEW d, NEW e
    PROVE  <<a, b, c, d>> \o <<e>> = <<a, b, c, d, e>>
  <1> DEFINE s == <<a, b, c, d>> \o <<e>>
  <1>1. s = [k \in 1..5 |-> s[k]]
    OBVIOUS
  <1>2. \A k \in 1..5 : s[k] = <<a, b, c, d, e>>[k]
    OBVIOUS
  <1>3. <<a, b, c, d, e>> = [k \in 1..5 |-> <<a, b, c, d, e>>[k]]
    OBVIOUS
  <1>4. QED
    BY <1>1, <1>2, <1>3

LEMMA NothingAppended ==
    ASSUME NEW a, NEW b, NEW c, NEW d
    PROVE  /\ <<a, b, c>> \o <<>> = <<a, b, c>>
           /\ <<a, b, c, d>> \o <<>> = <<a, b, c, d>>
  <1>1. ASSUME NEW T, NEW s \in Seq(T) PROVE s \o <<>> = s
    OBVIOUS
  <1>2. <<a, b, c>> \in Seq({a, b, c, d}) /\ <<a, b, c, d>> \in Seq({a, b, c, d})
    OBVIOUS
  <1>3. QED
    BY <1>1, <1>2

LEMMA LockOrders ==
    ASSUME IInv, NEW t \in Procs, tx[t].pc = "accounts"
    PROVE  /\ LockOrder(t, Len(AccountOrder(t)))
           /\ OwnLiability(t, Len(AccountOrder(t)))
  <1> DEFINE i == tx[t].intent
             order == AccountOrder(t)
  <1>1. /\ i \in Intents /\ Cleared(tx[t]) /\ tx[t].op \in Ops
        /\ terms[i].mode \in {"direct", "escrow"}
    BY DEF IInv, TxInv, TxOK, TermsInv, Lifecycle!SoundTerms, Lifecycle!Terms,
           Lifecycle!Modes
  <1>2. CASE tx[t].op \in {"confirm", "expire"}
    <2>1. order = <<>>
      BY <1>2 DEF AccountOrder
    <2>2. QED
      BY <2>1 DEF LockOrder, OwnLiability
  <1>3. CASE tx[t].op = "capture"
    <2>1. order = <<<<"acquirer_receivable", Nil>>, Payable(i)>>
      BY <1>3 DEF AccountOrder, CaptureAccounts, Singleton
    <2>2. CASE Direct(t)
      <3>1. Payable(i) = <<"merchant_payable", Nil>>
        BY <2>2 DEF Payable, PayableKind, Direct
      <3>2. QED
        BY <1>3, <2>1, <2>2, <3>1 DEF LockOrder, OwnLiability, Kind, Ref
    <2>3. CASE Escrow(t)
      <3>1. Payable(i) = <<"escrow_liability", i>>
        BY <2>3 DEF Payable, PayableKind, Escrow
      <3>2. QED
        BY <1>3, <2>1, <2>3, <3>1 DEF LockOrder, OwnLiability, Kind, Ref
    <2>4. QED
      BY <1>1, <2>2, <2>3 DEF Direct, Escrow
  <1>4. CASE tx[t].op = "refund"
    <2>1. order = <<Payable(i), <<RefundCredit(i, tx[t].seen), Nil>>>>
      BY <1>4 DEF AccountOrder, RefundAccounts, Singleton
    <2>2. CASE Direct(t)
      <3>1. /\ Payable(i) = <<"merchant_payable", Nil>>
            /\ RefundCredit(i, tx[t].seen) \in {"acquirer_receivable", "platform_cash"}
        BY <2>2 DEF Payable, PayableKind, Direct, RefundCredit
      <3>2. QED
        BY <1>4, <2>1, <2>2, <3>1 DEF LockOrder, OwnLiability, Kind, Ref
    <2>3. CASE Escrow(t)
      <3>1. /\ Payable(i) = <<"escrow_liability", i>>
            /\ RefundCredit(i, tx[t].seen) = "segregated_cash"
        BY <2>3 DEF Payable, PayableKind, Escrow, RefundCredit
      <3>2. QED
        BY <1>4, <2>1, <2>3, <3>1 DEF LockOrder, OwnLiability, Kind, Ref
    <2>4. QED
      BY <1>1, <2>2, <2>3 DEF Direct, Escrow
  <1>5. CASE tx[t].op = "settle"
    <2>1. order = <<<<SettleCash(i), Nil>>, <<"acquirer_receivable", Nil>>>>
      BY <1>5 DEF AccountOrder, SettleAccounts, Singleton
    <2>2. CASE Direct(t)
      <3>1. SettleCash(i) = "platform_cash"
        BY <2>2 DEF SettleCash, Direct
      <3>2. QED
        BY <1>5, <2>1, <2>2, <3>1 DEF LockOrder, OwnLiability, Kind, Ref
    <2>3. CASE Escrow(t)
      <3>1. SettleCash(i) = "segregated_cash"
        BY <2>3 DEF SettleCash, Escrow
      <3>2. QED
        BY <1>5, <2>1, <2>3, <3>1 DEF LockOrder, OwnLiability, Kind, Ref
    <2>4. QED
      BY <1>1, <2>2, <2>3 DEF Direct, Escrow
  <1>6. CASE tx[t].op = "release"
    <2>1. PICK liability, held, cash, payee, fee :
              /\ liability = <<"escrow_liability", i>>
              /\ held = <<"segregated_cash", Nil>>
              /\ cash = <<"platform_cash", Nil>>
              /\ payee = <<"payable_to_payee", terms[i].payee>>
              /\ fee = <<"platform_revenue", Nil>>
      OBVIOUS
    <2>2. order = <<liability, held, cash>>
                     \o (IF terms[i].amount - Fee(i) > 0 THEN <<payee>> ELSE <<>>)
                     \o (IF Fee(i) > 0 THEN <<fee>> ELSE <<>>)
      BY <1>6, <2>1 DEF AccountOrder, ReleaseAccounts, Singleton, PerRef
    <2> HIDE DEF order
    <2>3. \/ order = <<liability, held, cash>>
          \/ order = <<liability, held, cash, payee>>
          \/ order = <<liability, held, cash, fee>>
          \/ order = <<liability, held, cash, payee, fee>>
      <3> DEFINE pays == terms[i].amount - Fee(i) > 0
                 takes == Fee(i) > 0
      <3>1. order = <<liability, held, cash>> \o (IF pays THEN <<payee>> ELSE <<>>)
                                              \o (IF takes THEN <<fee>> ELSE <<>>)
        BY <2>2
      <3> HIDE DEF pays, takes
      <3>2. CASE pays /\ takes
        <4>1. order = <<liability, held, cash>> \o <<payee>> \o <<fee>>
          BY <3>1, <3>2
        <4>2. order = <<liability, held, cash, payee>> \o <<fee>>
          BY <4>1, FourthAppended, Zenon
        <4>3. QED
          BY <4>2, FifthAppended, Zenon
      <3>3. CASE pays /\ ~takes
        <4>1. order = <<liability, held, cash>> \o <<payee>> \o <<>>
          BY <3>1, <3>3
        <4>2. order = <<liability, held, cash, payee>> \o <<>>
          BY <4>1, FourthAppended, Zenon
        <4>3. QED
          BY <4>2, NothingAppended, Zenon
      <3>4. CASE ~pays /\ takes
        <4>1. order = <<liability, held, cash>> \o <<>> \o <<fee>>
          BY <3>1, <3>4
        <4>2. order = <<liability, held, cash>> \o <<fee>>
          BY <4>1, NothingAppended, Zenon
        <4>3. QED
          BY <4>2, FourthAppended, Zenon
      <3>5. CASE ~pays /\ ~takes
        BY <3>1, <3>5, NothingAppended, Zenon
      <3>6. QED
        BY <3>2, <3>3, <3>4, <3>5
    <2>4. Escrow(t)
      BY <1>1, <1>6 DEF Cleared, Escrow
    <2>5. CASE order = <<liability, held, cash>>
      BY <1>6, <2>1, <2>4, <2>5 DEF LockOrder, OwnLiability, Kind, Ref, order
    <2>6. CASE order = <<liability, held, cash, payee>>
      BY <1>6, <2>1, <2>4, <2>6 DEF LockOrder, OwnLiability, Kind, Ref, order
    <2>7. CASE order = <<liability, held, cash, fee>>
      BY <1>6, <2>1, <2>4, <2>7 DEF LockOrder, OwnLiability, Kind, Ref, order
    <2>8. CASE order = <<liability, held, cash, payee, fee>>
      BY <1>6, <2>1, <2>4, <2>8 DEF LockOrder, OwnLiability, Kind, Ref, order
    <2>9. QED
      BY <2>3, <2>5, <2>6, <2>7, <2>8
  <1>7. QED
    BY <1>1, <1>2, <1>3, <1>4, <1>5, <1>6 DEF Ops, RequestOps

(* Each waits for one of S and is waited for by one of S. *)
Stuck(S) ==
    \A u \in S : /\ \E v \in S : WaitsFor(u, v)
                 /\ \E v \in S : WaitsFor(v, u)

(* The kind of account that t waits for. *)
Waits(t) == Kind(t, tx[t].got + 1)

(* A member of S holds some of its accounts but not all, and is waited for. *)
Caught(S, t) ==
    /\ tx[t].got \in Nat /\ 1 <= tx[t].got /\ tx[t].got < Len(AccountOrder(t))
    /\ LockOrder(t, Len(AccountOrder(t)))
    /\ Waits(t) # "escrow_liability"
    /\ \E u \in S : /\ WaitsFor(t, u)
                    /\ \E k \in 1..tx[u].got : Kind(u, k) = Waits(t)
    /\ \E u \in S : \E k \in 1..tx[t].got : Waits(u) = Kind(t, k)

LEMMA StuckMember ==
    ASSUME IInv, NEW S \in SUBSET Procs, Stuck(S), NEW t \in S
    PROVE  Caught(S, t)
  <1>1. PICK u \in S : WaitsFor(t, u)
    BY DEF Stuck
  <1>2. PICK w \in S : WaitsFor(w, t)
    BY DEF Stuck
  <1>3. /\ tx[t].pc = "accounts" /\ tx[t].got < Len(AccountOrder(t)) /\ t # u
        /\ AccountOrder(t)[tx[t].got + 1] \in HeldAccounts(u)
    BY <1>1 DEF WaitsFor, WantsAccount, NextAccount
  <1>4. AccountOrder(w)[tx[w].got + 1] \in HeldAccounts(t)
    BY <1>2 DEF WaitsFor, NextAccount
  <1>5. tx[t].got \in Nat /\ tx[u].got \in Nat
    BY DEF IInv, TypeOK, Transactions
  <1>6. PICK k \in 1..tx[t].got : AccountOrder(w)[tx[w].got + 1] = AccountOrder(t)[k]
    BY <1>4 DEF HeldAccounts
  <1>7. PICK j \in 1..tx[u].got : AccountOrder(t)[tx[t].got + 1] = AccountOrder(u)[j]
    BY <1>3 DEF HeldAccounts
  <1>8. tx[u].pc = "accounts" /\ tx[u].got < Len(AccountOrder(u))
    BY DEF Stuck, WaitsFor, WantsAccount
  <1>9. /\ LockOrder(t, Len(AccountOrder(t))) /\ OwnLiability(t, Len(AccountOrder(t)))
        /\ OwnLiability(u, Len(AccountOrder(u)))
    BY <1>3, <1>8, LockOrders
  <1>10. Waits(t) # "escrow_liability"
    <2> SUFFICES ASSUME Waits(t) = "escrow_liability" PROVE FALSE
      OBVIOUS
    <2>1. Len(AccountOrder(t)) \in Nat /\ Len(AccountOrder(u)) \in Nat
      BY <1>9 DEF AccountOrder, CaptureAccounts, RefundAccounts, SettleAccounts,
                  ReleaseAccounts
    <2>2. tx[t].got + 1 \in 1..Len(AccountOrder(t)) /\ j \in 1..Len(AccountOrder(u))
      BY <1>3, <1>5, <1>8, <2>1
    <2>3. Ref(t, tx[t].got + 1) = tx[t].intent /\ Ref(u, j) = tx[u].intent
      BY <1>7, <1>9, <2>2 DEF OwnLiability, Waits, Kind
    <2>4. tx[t].intent = tx[u].intent
      BY <1>7, <2>3 DEF Ref
    <2>5. QED
      BY <1>3, <1>8, <2>4 DEF IInv, LockInv, HoldsIntent
  <1>11. /\ tx[t].got \in Nat /\ 1 <= tx[t].got /\ tx[t].got < Len(AccountOrder(t))
         /\ Kind(u, j) = Waits(t) /\ Waits(w) = Kind(t, k)
    BY <1>3, <1>5, <1>6, <1>7 DEF Waits, Kind
  <1>12. QED
    BY <1>1, <1>9, <1>10, <1>11 DEF Caught

(* Where a transaction stands that holds some of its accounts but not all. *)
Direct2(t) ==
    \/ /\ tx[t].op = "capture" /\ Kind(t, 1) = "acquirer_receivable"
       /\ Waits(t) = "merchant_payable"
    \/ /\ tx[t].op = "refund" /\ Kind(t, 1) = "merchant_payable"
       /\ Waits(t) \in {"acquirer_receivable", "platform_cash"}
    \/ /\ tx[t].op = "settle" /\ Kind(t, 1) = "platform_cash"
       /\ Waits(t) = "acquirer_receivable"

Escrow2(t) ==
    \/ Kind(t, 1) = "acquirer_receivable" /\ Waits(t) = "escrow_liability"
    \/ Kind(t, 1) = "escrow_liability" /\ Waits(t) = "segregated_cash"
    \/ Kind(t, 1) = "segregated_cash" /\ Waits(t) = "acquirer_receivable"

Release(t) ==
    /\ Kind(t, 1) = "escrow_liability" /\ Kind(t, 2) = "segregated_cash"
    /\ Kind(t, 3) = "platform_cash"

Stands(t) ==
    \/ tx[t].got = 1 /\ Direct(t) /\ Direct2(t)
    \/ tx[t].got = 1 /\ Escrow2(t)
    \/ tx[t].got = 2 /\ Release(t) /\ Waits(t) = "platform_cash"
    \/ /\ tx[t].got = 3 /\ Release(t)
       /\ Waits(t) \in {"payable_to_payee", "platform_revenue"}
    \/ /\ tx[t].got = 4 /\ Release(t) /\ Kind(t, 4) = "payable_to_payee"
       /\ Waits(t) = "platform_revenue"

LEMMA CaughtStands ==
    ASSUME NEW S, NEW t, Caught(S, t)
    PROVE  Stands(t)
  <1> DEFINE n == Len(AccountOrder(t))
             g == tx[t].got
  <1>1. g \in Nat /\ 1 <= g /\ g < n /\ LockOrder(t, n)
    BY DEF Caught
  <1> HIDE DEF n
  <1>2. CASE n = 2
    <2>1. g = 1 /\ Waits(t) = Kind(t, 2)
      BY <1>1, <1>2 DEF Waits
    <2>2. QED
      BY <1>1, <1>2, <2>1 DEF LockOrder, Stands, Direct2, Escrow2
  <1>3. CASE n \in 3..5
    <2>1. Release(t)
      BY <1>1, <1>3 DEF LockOrder, Release
    <2>2. /\ n = 4 => Kind(t, 4) \in {"payable_to_payee", "platform_revenue"}
          /\ n = 5 => /\ Kind(t, 4) = "payable_to_payee"
                      /\ Kind(t, 5) = "platform_revenue"
      BY <1>1, <1>3 DEF LockOrder
    <2>3. CASE g = 1
      BY <2>1, <2>3 DEF Stands, Escrow2, Release, Waits
    <2>4. CASE g = 2
      BY <2>1, <2>4 DEF Stands, Release, Waits
    <2>5. CASE g = 3
      <3>1. n \in {4, 5} /\ Waits(t) = Kind(t, 4)
        BY <1>1, <1>3, <2>5 DEF Waits
      <3>2. QED
        BY <2>1, <2>2, <2>5, <3>1 DEF Stands
    <2>6. CASE g = 4
      <3>1. n = 5 /\ Waits(t) = Kind(t, 5)
        BY <1>1, <1>3, <2>6 DEF Waits
      <3>2. QED
        BY <2>1, <2>2, <2>6, <3>1 DEF Stands
    <2>7. QED
      BY <1>1, <1>3, <2>3, <2>4, <2>5, <2>6
  <1>4. QED
    BY <1>1, <1>2, <1>3 DEF LockOrder

(* A cycle takes its turns among direct intents, one account held by each. *)
LEMMA StuckDirect ==
    ASSUME IInv, NEW S \in SUBSET Procs, Stuck(S), NEW t \in S
    PROVE  tx[t].got = 1 /\ Direct(t) /\ Direct2(t)
  <1>1. \A u \in S : Caught(S, u)
    BY StuckMember
  <1>2. \A u \in S : \E v \in S : \E k \in 1..tx[v].got : Kind(v, k) = Waits(u)
    BY <1>1 DEF Caught
  <1>3. \A u \in S : \E v \in S : \E k \in 1..tx[u].got : Waits(v) = Kind(u, k)
    BY <1>1 DEF Caught
  <1>4. \A u \in S : Stands(u) /\ Waits(u) # "escrow_liability"
    BY <1>1, CaughtStands DEF Caught
  <1>5. ASSUME NEW u \in S PROVE Waits(u) # "segregated_cash"
    <2> SUFFICES ASSUME Waits(u) = "segregated_cash" PROVE FALSE
      OBVIOUS
    <2>1. tx[u].got = 1 /\ Kind(u, 1) = "escrow_liability"
      BY <1>4 DEF Stands, Direct2, Escrow2
    <2>2. PICK v \in S : \E k \in 1..tx[u].got : Waits(v) = Kind(u, k)
      BY <1>3
    <2>3. Waits(v) = "escrow_liability"
      BY <2>1, <2>2
    <2>4. QED
      BY <1>4, <2>3
  <1>6. ASSUME NEW u \in S PROVE Waits(u) # "platform_revenue"
    <2> SUFFICES ASSUME Waits(u) = "platform_revenue" PROVE FALSE
      OBVIOUS
    <2>1. PICK v \in S : \E k \in 1..tx[v].got : Kind(v, k) = "platform_revenue"
      BY <1>2
    <2>2. PICK k \in 1..tx[v].got : Kind(v, k) = "platform_revenue"
      BY <2>1
    <2>3. Stands(v)
      BY <1>4
    <2>4. QED
      BY <2>2, <2>3 DEF Stands, Direct2, Escrow2, Release
  <1>7. ASSUME NEW u \in S PROVE Waits(u) # "payable_to_payee"
    <2> SUFFICES ASSUME Waits(u) = "payable_to_payee" PROVE FALSE
      OBVIOUS
    <2>1. PICK v \in S : \E k \in 1..tx[v].got : Kind(v, k) = "payable_to_payee"
      BY <1>2
    <2>2. PICK k \in 1..tx[v].got : Kind(v, k) = "payable_to_payee"
      BY <2>1
    <2>3. Stands(v)
      BY <1>4
    <2>4. Waits(v) = "platform_revenue"
      BY <2>2, <2>3 DEF Stands, Direct2, Escrow2, Release
    <2>5. QED
      BY <1>6, <2>4
  <1>8. PICK w \in S : \E k \in 1..tx[t].got : Waits(w) = Kind(t, k)
    BY <1>3
  <1>9. /\ Stands(t)
        /\ Waits(t) \notin {"escrow_liability", "segregated_cash",
                            "platform_revenue", "payable_to_payee"}
        /\ Waits(w) \notin {"escrow_liability", "segregated_cash"}
    BY <1>4, <1>5, <1>6, <1>7
  <1>10. QED
    BY <1>8, <1>9 DEF Stands, Escrow2, Release

(* So a cycle has a capture that waits for a refund. *)
LEMMA StuckCaptureRefund ==
    ASSUME IInv, NEW S \in SUBSET Procs, Stuck(S), NEW t \in S
    PROVE  \E u, v \in Procs : /\ WaitsFor(u, v)
                               /\ tx[u].op = "capture" /\ tx[v].op = "refund"
  <1>1. \A u \in S : tx[u].got = 1 /\ Direct2(u)
    BY StuckDirect
  <1>2. ASSUME NEW u \in S
        PROVE  \E v \in S : WaitsFor(u, v) /\ Kind(v, 1) = Waits(u)
    <2>1. PICK v \in S :
              WaitsFor(u, v) /\ \E k \in 1..tx[v].got : Kind(v, k) = Waits(u)
      BY StuckMember DEF Caught
    <2>2. QED
      BY <1>1, <2>1
  <1>3. ASSUME NEW u \in S, tx[u].op = "capture"
        PROVE  \E v \in S : WaitsFor(u, v) /\ tx[v].op = "refund"
    BY <1>1, <1>2, <1>3 DEF Direct2
  <1>4. ASSUME NEW u \in S, Waits(u) = "acquirer_receivable"
        PROVE  \E v \in S : tx[v].op = "capture"
    BY <1>1, <1>2, <1>4 DEF Direct2
  <1>5. ASSUME NEW u \in S, Waits(u) = "platform_cash"
        PROVE  \E v \in S : Waits(v) = "acquirer_receivable"
    BY <1>1, <1>2, <1>5 DEF Direct2
  <1>6. PICK u \in S : tx[u].op = "capture"
    <2>1. CASE Waits(t) = "merchant_payable"
      BY <1>1, <2>1 DEF Direct2
    <2>2. CASE Waits(t) # "merchant_payable"
      BY <1>1, <1>4, <1>5, <2>2 DEF Direct2
    <2>3. QED
      BY <2>1, <2>2
  <1>7. QED
    BY <1>3, <1>6

LEMMA CyclesAreDirect ==
    ASSUME IInv
    PROVE  DeadlocksAreDirect
  <1> SUFFICES ASSUME NEW t \in Procs, Deadlocked(t)
               PROVE  /\ terms[tx[t].intent].mode = "direct"
                      /\ \E u, v \in Procs :
                            /\ WaitsFor(u, v)
                            /\ tx[u].op = "capture" /\ tx[v].op = "refund"
    BY DEF DeadlocksAreDirect
  <1>1. PICK S \in SUBSET Procs : t \in S /\ Stuck(S)
    BY DEF Deadlocked, Stuck
  <1>2. QED
    BY <1>1, StuckDirect, StuckCaptureRefund DEF Direct

(***************************************************************************)
(* With any number of requests, sweeps and intents, of all the cycles that *)
(* waiting for ledger accounts can close, none has an escrow intent in it, *)
(* and each has a capture that waits for a refund (money.go: Capture locks *)
(* the asset's account first, Refund the payable first).                   *)
(***************************************************************************)
THEOREM OnlyDirectDeadlocks == Spec => []DeadlocksAreDirect
  <1>1. IInv => DeadlocksAreDirect
    BY CyclesAreDirect
  <1>2. QED
    BY <1>1, Invariance, PTL
-----------------------------------------------------------------------------
(***************************************************************************)
(* Where nothing fails, an escrow intent that the bank has captured is, or *)
(* is about to be, stored as captured: the capture that waits for accounts *)
(* is never the victim of a deadlock.                                      *)
(***************************************************************************)
Capturing(x, i) == x.pc = "accounts" /\ x.op = "capture" /\ x.intent = i

OnceInv ==
    \A i \in Intents :
        /\ status[i] = Nil => bankCaptures[i] = 0
        /\ status[i] # Nil /\ terms[i].mode = "escrow" =>
            /\ bankCaptures[i] <= 1
            /\ \/ bankCaptures[i] = 0
               \/ status[i] \in Captured
               \/ \E t \in Procs : Capturing(tx[t], i)

LEMMA OnceInit == Init => OnceInv
  BY DEF Init, OnceInv

(* A step that leaves the rows and the bank's captures alone, and every *)
(* transaction that is capturing.                                       *)
LEMMA OnceKept ==
    ASSUME OnceInv, UNCHANGED <<status, terms, bankCaptures>>,
           \A u \in Procs, i \in Intents :
               Capturing(tx[u], i) => Capturing(tx'[u], i)
    PROVE  OnceInv'
  BY DEF OnceInv

(* One transaction moves on that was not capturing, or still is. *)
LEMMA OnceMoved ==
    ASSUME OnceInv, UNCHANGED <<status, terms, bankCaptures>>,
           TypeOK, NEW t \in Procs, NEW x, tx' = [tx EXCEPT ![t] = x],
           \A i \in Intents : Capturing(tx[t], i) => Capturing(x, i)
    PROVE  OnceInv'
  <1>1. \A u \in Procs : tx'[u] = IF u = t THEN x ELSE tx[u]
    BY DEF TypeOK
  <1>2. \A u \in Procs, i \in Intents : Capturing(tx[u], i) => Capturing(tx'[u], i)
    BY <1>1
  <1>3. QED
    BY <1>2, OnceKept

LEMMA OnceCreate ==
    ASSUME IInv, OnceInv, NEW i \in Intents, Create(i) PROVE OnceInv'
  <1>1. /\ status[i] = Nil /\ status' = [status EXCEPT ![i] = "created"]
        /\ UNCHANGED <<tx, bankCaptures>>
        /\ \A j \in Intents : j # i => terms'[j] = terms[j]
    BY DEF Create, bank, IInv, TypeOK
  <1>2. \A j \in Intents : status'[j] = IF j = i THEN "created" ELSE status[j]
    BY <1>1 DEF IInv, TypeOK
  <1>3. bankCaptures'[i] = 0 /\ status'[i] # Nil
    BY <1>1, <1>2, PaymentIntentsAssumption DEF OnceInv, ConstantsOK, Statuses
  <1>4. QED
    BY <1>1, <1>2, <1>3 DEF OnceInv

LEMMA OnceLockIntent ==
    ASSUME IInv, OnceInv, NEW t \in Procs, LockIntent(t) PROVE OnceInv'
  <1>1. /\ tx[t].pc = "lock" /\ UNCHANGED <<status, terms, bankCaptures>>
        /\ \E x : tx' = [tx EXCEPT ![t] = x]
    BY DEF LockIntent, rows, bank
  <1>2. \A i \in Intents : ~Capturing(tx[t], i)
    BY <1>1 DEF Capturing
  <1>3. QED
    BY <1>1, <1>2, OnceMoved DEF IInv

LEMMA OnceBankApproves ==
    ASSUME IInv, OnceInv, NEW t \in Procs, BankApproves(t) PROVE OnceInv'
  <1> DEFINE i == tx[t].intent
  <1>1. /\ tx[t].pc = "bank" /\ i \in Intents /\ status[i] # Nil
        /\ Cleared(tx[t]) /\ tx[t].op \in {"confirm", "capture"}
        /\ UNCHANGED <<status, terms>> /\ BankActs(t)
        /\ tx' = [tx EXCEPT ![t].pc = "accounts"]
    BY DEF BankApproves, rows, IInv, TxInv, TxOK
  <1>2. CASE tx[t].op = "confirm"
    <2>1. UNCHANGED bankCaptures
      BY <1>1, <1>2 DEF BankActs
    <2>2. \A j \in Intents : ~Capturing(tx[t], j)
      BY <1>1 DEF Capturing
    <2>3. QED
      BY <1>1, <2>1, <2>2, OnceMoved DEF IInv
  <1>3. CASE tx[t].op = "capture"
    <2>1. status[i] = "authorized"
      BY <1>1, <1>3 DEF Cleared
    <2>2. \A u \in Procs : ~Capturing(tx[u], i)
      BY <1>1 DEF IInv, LockInv, HoldsIntent, Capturing
    <2>3. bankCaptures' = [bankCaptures EXCEPT ![i] = Saturating(@)]
      BY <1>1, <1>3 DEF BankActs
    <2>4. \A j \in Intents :
              bankCaptures'[j] = IF j = i THEN Saturating(bankCaptures[i])
                                          ELSE bankCaptures[j]
      BY <2>3 DEF IInv, TypeOK
    <2>5. terms[i].mode = "escrow" => bankCaptures[i] = 0
      BY <1>1, <2>1, <2>2 DEF OnceInv, Captured
    <2>6. terms[i].mode = "escrow" => bankCaptures'[i] <= 1
      BY <1>1, <2>4, <2>5 DEF Saturating
    <2>7. \A u \in Procs, j \in Intents :
              Capturing(tx[u], j) => Capturing(tx'[u], j)
      BY <1>1 DEF Capturing, IInv, TypeOK, Transactions
    <2>8. Capturing(tx'[t], i)
      BY <1>1, <1>3 DEF Capturing, IInv, TypeOK, Transactions
    <2>9. QED
      BY <1>1, <2>4, <2>6, <2>7, <2>8 DEF OnceInv
  <1>4. QED
    BY <1>1, <1>2, <1>3

LEMMA OnceLockAccount ==
    ASSUME IInv, OnceInv, NEW t \in Procs, LockAccount(t) PROVE OnceInv'
  <1>1. /\ UNCHANGED <<status, terms, bankCaptures>>
        /\ tx' = [tx EXCEPT ![t] = [tx[t] EXCEPT !.got = @ + 1]]
    BY DEF LockAccount, rows, bank
  <1>2. \A i \in Intents :
            Capturing(tx[t], i) => Capturing([tx[t] EXCEPT !.got = @ + 1], i)
    BY DEF Capturing, IInv, TypeOK, Transactions
  <1>3. QED
    BY <1>1, <1>2, OnceMoved DEF IInv

LEMMA OnceCommit ==
    ASSUME IInv, OnceInv, NEW t \in Procs, Commit(t) PROVE OnceInv'
  <1> DEFINE i == tx[t].intent
  <1>1. /\ i \in Intents /\ Cleared(tx[t]) /\ status[i] # Nil
        /\ tx[t].next \in Statuses
        /\ status' = [status EXCEPT ![i] = tx[t].next]
        /\ UNCHANGED <<terms, bankCaptures>>
        /\ tx' = [tx EXCEPT ![t] = Ended(t, "ok")]
    BY WritesFacts DEF Commit, Writes, UpdateIntentStatus, bank, IInv, TxInv, TxOK
  <1>2. \A j \in Intents : status'[j] = IF j = i THEN tx[t].next ELSE status[j]
    BY <1>1 DEF IInv, TypeOK
  <1>3. \A u \in Procs : u # t => tx'[u] = tx[u]
    BY <1>1 DEF IInv, TypeOK
  <1>4. status'[i] # Nil
    BY <1>1, <1>2, PaymentIntentsAssumption DEF ConstantsOK
  <1>5. status[i] \in Captured => status'[i] \in Captured
    BY <1>1, <1>2 DEF Cleared, Captured
  <1>6. Capturing(tx[t], i) => status'[i] \in Captured
    BY <1>1, <1>2 DEF Cleared, Captured, Capturing
  <1>7. \A u \in Procs : u # t => ~Capturing(tx[u], i)
    BY DEF IInv, LockInv, HoldsIntent, Capturing, Commit, Writes
  <1>8. ASSUME NEW j \in Intents, j # i, NEW u \in Procs, Capturing(tx[u], j)
        PROVE  Capturing(tx'[u], j)
    BY <1>3, <1>8 DEF Capturing
  <1>9. QED
    BY <1>1, <1>2, <1>4, <1>5, <1>6, <1>7, <1>8 DEF OnceInv

(* The victim of a deadlock has a direct intent. *)
LEMMA OnceDeadlockAbort ==
    ASSUME IInv, OnceInv, NEW t \in Procs, DeadlockAbort(t) PROVE OnceInv'
  <1>1. terms[tx[t].intent].mode = "direct"
    BY CyclesAreDirect DEF DeadlocksAreDirect, DeadlockAbort
  <1>2. /\ UNCHANGED <<status, terms, bankCaptures>>
        /\ \A u \in Procs : u # t => tx'[u] = tx[u]
    BY DEF DeadlockAbort, rows, bank, IInv, TypeOK
  <1>3. ASSUME NEW i \in Intents, terms[i].mode = "escrow",
               NEW u \in Procs, Capturing(tx[u], i)
        PROVE  Capturing(tx'[u], i)
    BY <1>1, <1>2, <1>3 DEF Capturing
  <1>4. QED
    BY <1>2, <1>3 DEF OnceInv

LEMMA NoRollBack ==
    ASSUME IInv, Faults = {}, NEW t \in Procs PROVE ~Fault(t)
  <1>1. ~PostingRefused(t)
    <2> SUFFICES ASSUME tx[t].pc = "accounts" PROVE PostingAccepted(t)
      BY DEF PostingRefused
    <2>1. /\ tx[t].intent \in Intents /\ Cleared(tx[t])
          /\ Lifecycle!SoundTerms(terms[tx[t].intent])
      BY DEF IInv, TxInv, TxOK, TermsInv
    <2>2. QED
      BY <2>1, ClearedPostable
  <1>2. QED
    BY <1>1 DEF Fault, BankTimesOut, CommitUnacknowledged, RollBack, Crash

LEMMA OnceNext ==
    ASSUME Faults = {}, IInv, OnceInv, [Next]_vars PROVE OnceInv'
  <1>1. CASE UNCHANGED vars
    BY <1>1 DEF vars, OnceInv
  <1>2. ASSUME NEW i \in Intents, Create(i) \/ Age(i) PROVE OnceInv'
    <2>1. CASE Age(i)
      BY <2>1, OnceKept DEF Age, bank
    <2>2. QED
      BY <1>2, <2>1, OnceCreate
  <1>3. ASSUME NEW t \in Procs, Step(t) PROVE OnceInv'
    <2>1. CASE BankDeclines(t)
      <3>1. /\ tx[t].pc = "bank" /\ UNCHANGED <<status, terms, bankCaptures>>
            /\ \A u \in Procs : u # t => tx'[u] = tx[u]
        BY <2>1 DEF BankDeclines, rows, bank, IInv, TypeOK
      <3>2. \A u \in Procs, i \in Intents :
                Capturing(tx[u], i) => Capturing(tx'[u], i)
        BY <3>1 DEF Capturing
      <3>3. QED
        BY <3>1, <3>2, OnceKept
    <2>2. QED
      BY <1>3, <2>1, OnceLockIntent, OnceBankApproves, OnceLockAccount,
         OnceCommit, OnceDeadlockAbort DEF Step
  <1>4. ASSUME NEW r \in Requests, NextRequest(r) \/ Reply(r) PROVE OnceInv'
    <2>1. /\ r \in Procs /\ tx[r].pc \in {"idle", "done"}
          /\ UNCHANGED <<status, terms, bankCaptures>>
          /\ \E x : tx' = [tx EXCEPT ![r] = x]
      BY <1>4 DEF NextRequest, Request, Reply, rows, bank, Procs
    <2>2. \A i \in Intents : ~Capturing(tx[r], i)
      BY <2>1 DEF Capturing
    <2>3. QED
      BY <2>1, <2>2, OnceMoved DEF IInv
  <1>5. ASSUME NEW w \in Sweepers, SweepNext(w) \/ SweepDone(w) PROVE OnceInv'
    <2>1. /\ w \in Procs /\ tx[w].pc \in {"idle", "done"}
          /\ UNCHANGED <<status, terms, bankCaptures>>
          /\ \E x : tx' = [tx EXCEPT ![w] = x]
      BY <1>5 DEF SweepNext, SweepDone, rows, bank, Procs, Sweepers
    <2>2. \A i \in Intents : ~Capturing(tx[w], i)
      BY <2>1 DEF Capturing
    <2>3. QED
      BY <2>1, <2>2, OnceMoved DEF IInv
  <1>6. ASSUME NEW w \in Sweepers, ListDue(w) PROVE OnceInv'
    BY <1>6, OnceKept DEF ListDue, rows, bank
  <1>7. QED
    BY <1>1, <1>2, <1>3, <1>4, <1>5, <1>6, NoRollBack DEF Next

(***************************************************************************)
(* Where nothing fails, no escrow intent is captured twice at the bank,    *)
(* although a direct one may be: its capture can be the victim of a        *)
(* deadlock after the bank has acted, and then be tried again (README:     *)
(* retries must never double-charge).                                      *)
(***************************************************************************)
THEOREM EscrowOnlyOnce ==
    ASSUME Faults = {}
    PROVE  Spec => []EscrowCapturedOnce
  <1>1. IInv /\ OnceInv /\ [Next]_vars => OnceInv'
    BY OnceNext
  <1>2. OnceInv => EscrowCapturedOnce
    BY DEF OnceInv, EscrowCapturedOnce
  <1>3. QED
    BY <1>1, <1>2, OnceInit, Invariance, PTL DEF Spec
=============================================================================
