-------------------------- MODULE PaymentLifecycle --------------------------
(***************************************************************************)
(* What the gateway promises about payment intents, with no database, no   *)
(* locks, no bank and no failures: an intent is opened once with terms     *)
(* that never change, then makes one legal move at a time; each move       *)
(* leaves the books of the intent in the position its new status stands    *)
(* for, and announces itself exactly once.  PaymentIntents implements it.  *)
(***************************************************************************)
EXTENDS StateMachine, Ledger, Sequences

CONSTANTS Intents,  \* the payment intents of one merchant, in one currency
          Payees,   \* third parties an escrow intent may pay
          Nil       \* SQL NULL

VARIABLES status,   \* [Intents -> Statuses \cup {Nil}], Nil before creation
          terms,    \* what the intent was created with
          net,      \* [Intents -> [Kinds -> Int]]: balances due to the intent
          outbox    \* [Intents -> Seq(Events)]: events emitted, in order

lifecycleVars == <<status, terms, net, outbox>>

Terms == [mode : Modes, amount : Nat \ {0}, fee : Nat \cup {Nil},
          payee : Payees \cup {Nil}]

(* An escrow intent has a payee and a flat fee between 0 and its amount. *)
SoundTerms(tm) ==
    /\ tm \in Terms
    /\ tm.mode = "direct" => tm.payee = Nil /\ tm.fee = Nil
    /\ tm.mode = "escrow" => tm.payee \in Payees /\ tm.fee \in 0..tm.amount

(* The webhook event type that announces a status. *)
EventTypeFor(st) ==
    CASE st = "authorized"         -> "payment_intent.authorized"
      [] st = "failed"             -> "payment_intent.failed"
      [] st = "captured"           -> "payment_intent.captured"
      [] st = "settled"            -> "payment_intent.settled"
      [] st = "held_in_escrow"     -> "payment_intent.held_in_escrow"
      [] st = "released"           -> "escrow.released"
      [] st = "refunded"           -> "payment_intent.refunded"
      [] st = "partially_refunded" -> "payment_intent.partially_refunded"
      [] OTHER                     -> "payment_intent.other"

Event(st) == [type |-> EventTypeFor(st), status |-> st]

Events == {Event(st) : st \in Statuses}
-----------------------------------------------------------------------------
(* An amount x kept in one asset account and owed from one liability. *)
Backed(asset, liability, x) ==
    [EmptyBooks EXCEPT ![asset] = x, ![liability] = -x]

(***************************************************************************)
(* The positions the books of one intent may be in, given its status.      *)
(***************************************************************************)
Positions(tm, st) ==
    CASE st = "captured" /\ tm.mode = "direct" ->
            {Backed("acquirer_receivable", "merchant_payable", tm.amount)}
      [] st = "captured" /\ tm.mode = "escrow" ->
            {Backed("acquirer_receivable", "escrow_liability", tm.amount)}
      [] st = "settled" ->
            {Backed("platform_cash", "merchant_payable", tm.amount)}
      [] st = "held_in_escrow" ->
            {Backed("segregated_cash", "escrow_liability", tm.amount)}
      [] st = "partially_refunded" ->
            {Backed("platform_cash", "merchant_payable", x) :
                x \in 1..(tm.amount - 1)}
      [] st = "released" ->
            {[Backed("platform_cash", "payable_to_payee", tm.amount)
                EXCEPT !["payable_to_payee"] = tm.fee - tm.amount,
                       !["platform_revenue"] = -tm.fee]}
      [] OTHER -> {EmptyBooks}
-----------------------------------------------------------------------------
Init ==
    /\ status = [i \in Intents |-> Nil]
    /\ terms  = [i \in Intents |-> Nil]
    /\ net    = [i \in Intents |-> EmptyBooks]
    /\ outbox = [i \in Intents |-> <<>>]

Open(i) ==
    /\ status[i] = Nil
    /\ status' = [status EXCEPT ![i] = "created"]
    /\ SoundTerms(terms'[i])
    /\ terms' = [terms EXCEPT ![i] = terms'[i]]
    /\ UNCHANGED <<net, outbox>>

Move(i, to) ==
    /\ status[i] # Nil
    /\ CanMove(terms[i].mode, status[i], to)
    /\ status' = [status EXCEPT ![i] = to]
    /\ net'[i] \in Positions(terms[i], to)
    /\ net' = [net EXCEPT ![i] = net'[i]]
    /\ outbox' = [outbox EXCEPT ![i] = Append(@, Event(to))]
    /\ UNCHANGED terms

Next == \E i \in Intents : Open(i) \/ \E to \in Statuses : Move(i, to)

Spec == Init /\ [][Next]_lifecycleVars
=============================================================================
