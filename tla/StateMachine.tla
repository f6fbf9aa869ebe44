---------------------------- MODULE StateMachine ----------------------------
(***************************************************************************)
(* The payment-intent state machine of NemPay: the two settlement modes,   *)
(* the statuses an intent can have and, for each mode, the legal edges     *)
(* (nem_pay/api/internal/statemachine/intent.go).  Every handler and every *)
(* sweep asks CanTransition; no other place knows an edge.                 *)
(***************************************************************************)

Modes == {"direct", "escrow"}

Statuses == {"created", "requires_confirmation", "authorized", "captured",
             "settled", "held_in_escrow", "released", "failed", "refunded",
             "partially_refunded"}

(* The edges both modes share, up to the capture. *)
PreCaptureEdges ==
    {<<"created", "requires_confirmation">>, <<"created", "failed">>,
     <<"requires_confirmation", "authorized">>,
     <<"requires_confirmation", "failed">>,
     <<"authorized", "captured">>, <<"authorized", "failed">>}

AllowedEdges ==
    [direct |-> PreCaptureEdges \cup
                {<<"captured", "settled">>, <<"captured", "refunded">>,
                 <<"captured", "partially_refunded">>,
                 <<"settled", "refunded">>, <<"settled", "partially_refunded">>},
     escrow |-> PreCaptureEdges \cup
                {<<"captured", "held_in_escrow">>,
                 <<"held_in_escrow", "released">>,
                 <<"held_in_escrow", "refunded">>}]

CanTransition(mode, from, to) == <<from, to>> \in AllowedEdges[mode]

(***************************************************************************)
(* What one committed transaction may do to the stored status.  Confirm    *)
(* walks created -> requires_confirmation -> authorized | failed and       *)
(* stores only the end of the walk, so this one move is two edges.         *)
(***************************************************************************)
CanMove(mode, from, to) ==
    \/ CanTransition(mode, from, to)
    \/ /\ CanTransition(mode, from, "requires_confirmation")
       /\ CanTransition(mode, "requires_confirmation", to)
=============================================================================
