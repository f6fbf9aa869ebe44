------------------------------- MODULE Tokens -------------------------------
(***************************************************************************)
(* Tokenisation of a card by the gateway (internal/httpapi/tokens.go): the *)
(* number is checked and mapped to the token that tells the bank simulator *)
(* how to answer.  A number is a sequence of digits.                       *)
(***************************************************************************)
EXTENDS Integers, Sequences, Functions

Tokens == {"tok_ok", "tok_declined", "tok_timeout"}

Visa       == <<4, 2, 4, 2, 4, 2, 4, 2, 4, 2, 4, 2, 4, 2, 4, 2>>
VisaNoFunds == <<4, 0, 0, 0, 0, 0, 0, 0, 0, 0, 0, 0, 0, 0, 0, 2>>
VisaTimeout == <<4, 0, 0, 0, 0, 0, 0, 0, 0, 0, 0, 0, 0, 0, 6, 9>>
TestCards == {Visa, VisaNoFunds, VisaTimeout}

(* Seeded bug: a doubled digit counts in full. *)
Doubled_Full(d) == 2 * d

Doubled(d) == IF 2 * d > 9 THEN 2 * d - 9 ELSE 2 * d

(* What a digit counts: every other one, from the last but one on, doubled. *)
Counted(number, i) ==
    IF (Len(number) - i) % 2 = 1 THEN Doubled(number[i]) ELSE number[i]

LuhnSum(number) ==
    SumFunction([i \in 1..Len(number) |-> Counted(number, i)])

LuhnValid(number) == LuhnSum(number) % 10 = 0

(* create's checks of the number; those of expiry and code are left out. *)
Accepted(number) == Len(number) \in 13..19 /\ LuhnValid(number)

MagicTokenForCard(number) ==
    CASE number = VisaNoFunds -> "tok_declined"
      [] number = VisaTimeout -> "tok_timeout"
      [] OTHER                -> "tok_ok"
-----------------------------------------------------------------------------
WrongDigit(number) ==
    {[number EXCEPT ![i] = d] : i \in DOMAIN number, d \in 0..9} \ {number}

Swap(number, i) == [number EXCEPT ![i] = number[i + 1], ![i + 1] = number[i]]

(* The checksum cannot tell 09 from 90. *)
Swapped(number) ==
    {Swap(number, i) :
        i \in {j \in 1..(Len(number) - 1) :
                  {number[j], number[j + 1]} # {0, 9}}} \ {number}

(* What slips on a test card's number the gateway takes. *)
AcceptedSlips ==
    LET slips == UNION {WrongDigit(card) \cup Swapped(card) : card \in TestCards}
    IN  {number \in slips : Accepted(number)}
=============================================================================
