------------------------------- MODULE Ledger -------------------------------
(***************************************************************************)
(* The double-entry ledger of NemPay, for one merchant and one currency    *)
(* (nem_pay/api/internal/ledger).                                          *)
(*                                                                         *)
(* A transaction's entries are a function from the kinds of account it     *)
(* touches to a signed amount: an entry (debit d, credit 0) is +d, an      *)
(* entry (debit 0, credit c) is -c, the sign convention of the derived     *)
(* balance (Sum(debit) - Sum(credit)).  No posting of the service touches  *)
(* two accounts of one kind, so the kind names the account.                *)
(***************************************************************************)
EXTENDS Integers

CONSTANT Word   \* how many values an int64 has: the sums are taken modulo Word

ASSUME LedgerAssumption == Word \in Nat \ {0}

Kinds == {"platform_cash", "acquirer_receivable", "merchant_payable",
          "segregated_cash", "escrow_liability", "payable_to_payee",
          "platform_revenue"}

At(entries, k) == IF k \in DOMAIN entries THEN entries[k] ELSE 0

(* Sum(debit) - Sum(credit) over all the entries of one transaction. *)
Imbalance(entries) ==
      At(entries, "platform_cash") + At(entries, "acquirer_receivable")
    + At(entries, "merchant_payable") + At(entries, "segregated_cash")
    + At(entries, "escrow_liability") + At(entries, "payable_to_payee")
    + At(entries, "platform_revenue")

(***************************************************************************)
(* PostTransaction's checks: at least one entry (ErrEmpty), no entry with  *)
(* both sides zero (ErrBadEntry), debits equal to credits (ErrUnbalanced). *)
(* It writes nothing unless they all hold.  The two sums are int64 and     *)
(* wrap around, so they are equal when the true sums are congruent.        *)
(***************************************************************************)
Postable(entries) ==
    /\ DOMAIN entries # {}
    /\ \A k \in DOMAIN entries : entries[k] # 0
    /\ Imbalance(entries) % Word = 0

(* The balances after the entries are inserted: balances are derived sums. *)
Post(balances, entries) ==
    [k \in Kinds |-> balances[k] + At(entries, k)]

EmptyBooks == [k \in Kinds |-> 0]
=============================================================================
