--------------------------- MODULE Reconciliation ---------------------------
(***************************************************************************)
(* The merchant-wide view of the ledger: sums of derived balances over all *)
(* accounts of a kind, and the escrow segregation check built on them      *)
(* (nem_pay/api/internal/ledger/reconcile.go).                             *)
(***************************************************************************)
EXTENDS PaymentIntents, Functions

(* The database holds finitely many rows. *)
ASSUME ReconciliationAssumption == IsFiniteSet(Intents)

SumByKind(kind) == SumFunction([i \in Intents |-> net[i][kind]])

(* How far segregated cash is from backing the outstanding liabilities. *)
SegregationGap == SumByKind("segregated_cash") + SumByKind("escrow_liability")

InTransit == {i \in Intents : status[i] = "captured" /\ terms[i].mode = "escrow"}

(***************************************************************************)
(* EscrowSegregationHolds but for the transit window its comment names:    *)
(* segregated cash and the receivables of captured escrow intents together *)
(* back exactly the outstanding escrow liabilities, across all intents.    *)
(***************************************************************************)
EscrowFullyBacked ==
    /\ SegregationGap = -SumFunction([i \in InTransit |-> terms[i].amount])
    /\ SumByKind("segregated_cash") >= 0
    /\ SumByKind("platform_cash") >= 0
=============================================================================
