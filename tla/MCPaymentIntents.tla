-------------------------- MODULE MCPaymentIntents --------------------------
(* Instances of PaymentIntents for TLC. *)
EXTENDS Reconciliation, TLC

CONSTANTS i1, i2, payee, r1, r2, s1, s2, x1, NoValue

DirectInput == [escrow |-> FALSE, amount |-> 2, payee |-> NoValue, fee |-> NoValue]
EscrowInput(fee) == [escrow |-> TRUE, amount |-> 2, payee |-> payee, fee |-> fee]

(* Requests that Create must refuse: no amount, no payee, no fee, fee out of range. *)
BadInputs ==
    {[DirectInput EXCEPT !.amount = 0],
     [EscrowInput(0) EXCEPT !.payee = NoValue],
     EscrowInput(NoValue), EscrowInput(-1), EscrowInput(3)}

AllInputs == {DirectInput} \cup {EscrowInput(f) : f \in 0..2} \cup BadInputs
MixedInputs == {DirectInput, EscrowInput(1)}

Amounts == 0..3
PartOrFull == {1, 2}
FullOnly == {2}
NoFaults == {}
BankFaults == {"bank"}
AllFaults == FaultKinds

Symmetry == Permutations(Intents) \cup Permutations(Requests)
=============================================================================
