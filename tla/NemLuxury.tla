----------------------------- MODULE NemLuxury -----------------------------
(***************************************************************************)
(* The NemLuxury shop: orders, the checkout against the gateway's API and  *)
(* the receiver of its webhooks (Nem_luxury/app).                          *)
(*                                                                         *)
(* A tab is a browser tab of a buyer; while it loads a page it stands for  *)
(* the shop's request handler, which calls the gateway.  A call of the     *)
(* gateway outlives its caller.  The gateway is seen from the shop: its    *)
(* idempotency keys (one per order and operation), the intent's status and *)
(* the events it publishes; PaymentIntents, Idempotency and                *)
(* WebhookDelivery have the detail.  That a captured intent is settled is  *)
(* nothing to the shop and left out.  An order is for one intent of the    *)
(* order's amount and currency.                                            *)
(***************************************************************************)
EXTENDS Tokens

CONSTANTS
    Checkouts,  \* checkout tokens: one per contact form that was served
    Tabs,       \* browser tabs
    Cards,      \* card numbers that buyers type
    Nil,
    Faults      \* which faults may occur, see FaultKinds

(***************************************************************************)
(* net: a call of the gateway is lost, or its answer is; bank: the bank    *)
(* times out; gateway: one of its requests fails or dies; shop: a handler  *)
(* of the shop dies; hook: the receiver's answer to a webhook is lost.     *)
(***************************************************************************)
FaultKinds == {"net", "bank", "gateway", "shop", "hook"}

ASSUME NemLuxuryAssumption ==
    /\ Nil \notin Checkouts \cup Tabs \cup Tokens
    /\ Nil \notin {"created", "authorized", "failed", "captured", "error"}
    /\ Faults \subseteq FaultKinds

VARIABLES
    order,      \* [Checkouts -> OrderStatuses]: the table orders
    linked,     \* the checkouts whose order has its nem_pay_intent_id
    processed,  \* the events in processed_webhook_events
    tab,        \* [Tabs -> TabStates]
    intent,     \* [Checkouts -> Statuses]: the gateway's payment intents
    key,        \* [Checkouts -> [Ops -> Keys]]: its idempotency keys
    event       \* [Checkouts -> [Published -> ...]]: its outbox

shop == <<order, linked, processed>>
gateway == <<intent, key, event>>
vars == <<order, linked, processed, tab, intent, key, event>>

OrderStatuses == {"none", "pending", "paid"}
Published == {"authorized", "failed", "captured"}
Statuses == {"none", "created"} \cup Published
EventStates == {"none", "pending", "retired"}

Ops == {"create", "confirm", "capture"}
Answers == {"created", "authorized", "failed", "captured", "error"}

(***************************************************************************)
(* running: claimed by a request that executes, for client if it still     *)
(* waits; answer is what the request ended with ("unavailable": a 5xx, or  *)
(* its death); stored: the final answer is remembered.                     *)
(***************************************************************************)
Keys == [state : {"free", "running", "stored"},
         token : Tokens \cup {Nil}, client : Tabs \cup {Nil},
         answer : Answers \cup {"unavailable", Nil}]

FreeKey == [state |-> "free", token |-> Nil, client |-> Nil, answer |-> Nil]

(* told: what the page says of checkout; a form is any page to fill in. *)
Notices == {"form", "error", "declined", "order_page"}

TabStates == [at : Ops \cup {"idle", "insert", "link"}, waiting : BOOLEAN,
              checkout : Checkouts \cup {Nil}, token : Tokens \cup {Nil},
              told : Notices]

NewTab == [at |-> "idle", waiting |-> FALSE, checkout |-> Nil, token |-> Nil,
           told |-> "form"]

Shows(x, notice) == [NewTab EXCEPT !.checkout = x.checkout, !.told = notice]

GoesTo(x, at) == [x EXCEPT !.at = at, !.token = Nil, !.waiting = FALSE]
-----------------------------------------------------------------------------
(* Checkout.create_intent and pay: what an answer of the gateway leads to. *)
AfterCreate(x, answer) ==
    IF answer = "error" THEN Shows(x, "form") ELSE GoesTo(x, "link")

(* Seeded bug: a confirm without an answer is taken for a decline. *)
AfterConfirm_ErrorDeclines(x, answer) ==
    IF answer \in {"error", "failed"} THEN Shows(x, "declined")
                                      ELSE GoesTo(x, "capture")

AfterConfirm(x, answer) ==
    CASE answer = "error"  -> Shows(x, "error")
      [] answer = "failed" -> Shows(x, "declined")
      [] OTHER             -> GoesTo(x, "capture")

AfterCapture(x, answer) ==
    Shows(x, IF answer = "error" THEN "error" ELSE "order_page")

After(x, answer) ==
    CASE x.at = "create"  -> AfterCreate(x, answer)
      [] x.at = "confirm" -> AfterConfirm(x, answer)
      [] OTHER            -> AfterCapture(x, answer)

Answered(t, answer) == [tab EXCEPT ![t] = After(@, answer)]
-----------------------------------------------------------------------------
(* The contact form is checked; a token that has its order is refused. *)
SubmitDetails(t, c) ==
    /\ tab[t].at = "idle"
    /\ tab' = [tab EXCEPT ![t] =
          [NewTab EXCEPT !.checkout = c,
                         !.at = IF order[c] = "none" THEN "insert" ELSE "idle"]]
    /\ UNCHANGED <<order, linked, processed, intent, key, event>>

(* The card page of an order: once it is paid, the order's page. *)
CardPage(c) == IF order[c] = "paid" THEN "order_page" ELSE "form"

(* One order per checkout token, and only the request that inserts it goes *)
(* on to create its intent.  One that lost the race finds the order, or    *)
(* trips over the validation that the token is new.                        *)
FindOrCreateOrder(t) ==
    LET c == tab[t].checkout
    IN  /\ tab[t].at = "insert"
        /\ \/ /\ order[c] = "none"
              /\ order' = [order EXCEPT ![c] = "pending"]
              /\ tab' = [tab EXCEPT ![t] = GoesTo(@, "create")]
           \/ /\ order[c] # "none"
              /\ \E notice \in {CardPage(c), "error"} :
                    tab' = [tab EXCEPT ![t] = Shows(@, notice)]
              /\ UNCHANGED order
        /\ UNCHANGED <<linked, processed, intent, key, event>>

Link(t) ==
    /\ tab[t].at = "link"
    /\ linked' = linked \cup {tab[t].checkout}
    /\ tab' = [tab EXCEPT ![t] = Shows(@, CardPage(@.checkout))]
    /\ UNCHANGED <<order, processed, intent, key, event>>

(* The card page, sent for c: what it said stays until it is answered.  An *)
(* order that has no intent starts again.                                  *)
Page(t, c) ==
    IF tab[t].checkout = c THEN tab[t] ELSE [NewTab EXCEPT !.checkout = c]

Pay(t, c, number) ==
    /\ tab[t].at = "idle"
    /\ order[c] # "none"
    /\ tab' = [tab EXCEPT ![t] =
          CASE ~Accepted(number) -> Page(t, c)
            [] Accepted(number) /\ (order[c] = "paid" \/ c \notin linked) ->
                  Shows(Page(t, c), CardPage(c))
            [] OTHER -> [Page(t, c) EXCEPT !.at = "confirm",
                                           !.token = MagicTokenForCard(number)]]
    /\ UNCHANGED <<order, linked, processed, intent, key, event>>

(* The call's fingerprint, as far as two calls with one key may differ. *)
Fingerprint(t) == IF tab[t].at = "confirm" THEN tab[t].token ELSE Nil

(* A call of the gateway: it claims its key, or is answered from it. *)
Call(t) ==
    LET c == tab[t].checkout
        k == key[c][tab[t].at]
    IN  /\ tab[t].at \in Ops /\ ~tab[t].waiting
        /\ IF k.state = "free"
           THEN /\ key' = [key EXCEPT ![c][tab[t].at] =
                             [FreeKey EXCEPT !.state = "running", !.client = t,
                                             !.token = Fingerprint(t)]]
                /\ tab' = [tab EXCEPT ![t].waiting = TRUE]
           ELSE /\ tab' = Answered(t, IF /\ k.state = "stored"
                                         /\ k.token = Fingerprint(t)
                                      THEN k.answer ELSE "error")
                /\ UNCHANGED key
        /\ UNCHANGED <<order, linked, processed, intent, event>>

(* The key of the call t waits for no longer has a client. *)
Abandoned(t) ==
    IF tab[t].waiting
    THEN [key EXCEPT ![tab[t].checkout][tab[t].at].client = Nil] ELSE key

(* The connection fails, or the read timeout passes. *)
CallFails(t) ==
    /\ "net" \in Faults
    /\ tab[t].at \in Ops
    /\ key' = Abandoned(t)
    /\ tab' = Answered(t, "error")
    /\ UNCHANGED <<order, linked, processed, intent, event>>

ShopDies(t) ==
    /\ "shop" \in Faults
    /\ tab[t].at # "idle"
    /\ key' = Abandoned(t)
    /\ tab' = [tab EXCEPT ![t] = Shows(@, "error")]
    /\ UNCHANGED <<order, linked, processed, intent, event>>
-----------------------------------------------------------------------------
(* The gateway.  An intent changes status and its event is written. *)
Becomes(c, status) ==
    /\ intent' = [intent EXCEPT ![c] = status]
    /\ event' = IF status \in Published
                THEN [event EXCEPT ![c][status] = "pending"] ELSE event

(* The status op needs, and the one it leads to. *)
Needs(op) ==
    CASE op = "create" -> "none" [] op = "confirm" -> "created"
      [] OTHER -> "authorized"

(* Seeded bug: a decline is a status of its own, which nobody knows. *)
LeadsTo_Declined(op, token) ==
    CASE op = "create"  -> "created"
      [] op = "confirm" -> IF token = "tok_declined" THEN "declined" ELSE "authorized"
      [] OTHER          -> "captured"

LeadsTo(op, token) ==
    CASE op = "create"  -> "created"
      [] op = "confirm" -> IF token = "tok_declined" THEN "failed" ELSE "authorized"
      [] OTHER          -> "captured"

Ends(c, op, answer) == key' = [key EXCEPT ![c][op].answer = answer]

Executing(c, op) == key[c][op].state = "running" /\ key[c][op].answer = Nil

(* The handler commits; if that goes unnoticed it reports a 5xx. *)
Execute(c, op) ==
    LET to == LeadsTo(op, key[c][op].token)
    IN  /\ Executing(c, op)
        /\ intent[c] = Needs(op)
        /\ key[c][op].token # "tok_timeout"
        /\ Becomes(c, to)
        /\ \/ Ends(c, op, to)
           \/ "gateway" \in Faults /\ Ends(c, op, "unavailable")
        /\ UNCHANGED <<order, linked, processed, tab>>

(* The intent is in another state: a 4xx, which is final. *)
Reject(c, op) ==
    /\ Executing(c, op)
    /\ intent[c] # Needs(op)
    /\ Ends(c, op, "error")
    /\ UNCHANGED <<order, linked, processed, tab, intent, event>>

(* The bank does not answer, or something fails: a 5xx without effect. *)
Break(c, op) ==
    /\ Executing(c, op)
    /\ \/ "gateway" \in Faults
       \/ intent[c] = Needs(op) /\ key[c][op].token = "tok_timeout"
       \/ intent[c] = Needs(op) /\ op # "create" /\ "bank" \in Faults
    /\ Ends(c, op, "unavailable")
    /\ UNCHANGED <<order, linked, processed, tab, intent, event>>

(* The client of the running call, if it still waits, is answered. *)
Replied(c, op, answer) ==
    LET t == key[c][op].client IN IF t = Nil THEN tab ELSE Answered(t, answer)

(* A final answer is stored; a 5xx frees the key, and so does the sweep of *)
(* the claims whose request died.                                          *)
Respond(c, op) ==
    LET answer == key[c][op].answer
    IN  /\ key[c][op].state = "running" /\ answer # Nil
        /\ IF answer = "unavailable"
           THEN /\ key' = [key EXCEPT ![c][op] = FreeKey]
                /\ tab' = Replied(c, op, "error")
           ELSE /\ key' = [key EXCEPT ![c][op] = [@ EXCEPT !.state = "stored",
                                                           !.client = Nil]]
                /\ tab' = Replied(c, op, answer)
        /\ UNCHANGED <<order, linked, processed, intent, event>>

GatewayDies(c, op) ==
    /\ "gateway" \in Faults
    /\ key[c][op].state = "running"
    /\ key' = [key EXCEPT ![c][op] = [@ EXCEPT !.client = Nil,
                                               !.answer = "unavailable"]]
    /\ tab' = Replied(c, op, "error")
    /\ UNCHANGED <<order, linked, processed, intent, event>>

(* The sweep of answers a day old, which no page waits for. *)
FreesKey(c, op) ==
    /\ key[c][op].state = "stored"
    /\ \A t \in Tabs : tab[t].checkout = c => tab[t].at = "idle"
    /\ key' = [key EXCEPT ![c][op] = FreeKey]
    /\ UNCHANGED <<order, linked, processed, tab, intent, event>>

(* An abandoned intent expires, or one that was authorized meanwhile. *)
Expire(c) ==
    /\ intent[c] \in {"created", "authorized"}
    /\ Becomes(c, "failed")
    /\ UNCHANGED <<order, linked, processed, tab, key>>
-----------------------------------------------------------------------------
(* Seeded bug: the status of the payload is not looked at. *)
MarksPaid_AnyStatus(c, status) == c \in linked /\ status \in Published

(* The intent was captured and its order is found. *)
MarksPaid(c, status) == status = "captured" /\ c \in linked

(* Seeded bug: the row that dedups is committed before the order is read. *)
Handle_TwoTransactions(c, status) ==
    /\ event[c][status] = "pending"
    /\ processed' = processed \cup {<<c, status>>}
    /\ order' = IF MarksPaid(c, status) /\ <<c, status>> \notin processed
                   /\ "hook" \notin Faults
                THEN [order EXCEPT ![c] = "paid"] ELSE order
    /\ event' = [event EXCEPT ![c][status] = "retired"]
    /\ UNCHANGED <<linked, tab, intent, key>>

(***************************************************************************)
(* The receiver handles a delivery in one transaction.  A duplicate, a     *)
(* status that is not captured and an intent no order is found for are     *)
(* acknowledged all the same.  If the acknowledgement is lost the gateway  *)
(* delivers again.                                                         *)
(***************************************************************************)
Handle(c, status) ==
    /\ event[c][status] = "pending"
    /\ processed' = processed \cup {<<c, status>>}
    /\ order' = IF MarksPaid(c, status) /\ <<c, status>> \notin processed
                THEN [order EXCEPT ![c] = "paid"] ELSE order
    /\ \/ event' = [event EXCEPT ![c][status] = "retired"]
       \/ "hook" \in Faults /\ UNCHANGED event
    /\ UNCHANGED <<linked, tab, intent, key>>
-----------------------------------------------------------------------------
Init ==
    /\ order = [c \in Checkouts |-> "none"]
    /\ linked = {}
    /\ processed = {}
    /\ tab = [t \in Tabs |-> NewTab]
    /\ intent = [c \in Checkouts |-> "none"]
    /\ key = [c \in Checkouts |-> [op \in Ops |-> FreeKey]]
    /\ event = [c \in Checkouts |-> [s \in Published |-> "none"]]

Serve(c, op) == Execute(c, op) \/ Reject(c, op) \/ Break(c, op) \/ Respond(c, op)

Next ==
    \/ \E t \in Tabs :
        \/ \E c \in Checkouts :
            SubmitDetails(t, c) \/ \E number \in Cards : Pay(t, c, number)
        \/ FindOrCreateOrder(t) \/ Link(t) \/ Call(t) \/ CallFails(t) \/ ShopDies(t)
    \/ \E c \in Checkouts :
        \/ \E op \in Ops : Serve(c, op) \/ GatewayDies(c, op) \/ FreesKey(c, op)
        \/ Expire(c)
        \/ \E status \in Published : Handle(c, status)

Spec == Init /\ [][Next]_vars

(* The gateway delivers its events; see WebhookDelivery. *)
Fairness ==
    \A c \in Checkouts, status \in Published : WF_vars(Handle(c, status))

FairSpec == Spec /\ Fairness
-----------------------------------------------------------------------------
(* The variables hold values of their types. *)
TypeOK ==
    /\ order \in [Checkouts -> OrderStatuses]
    /\ linked \subseteq Checkouts
    /\ processed \subseteq Checkouts \X Published
    /\ tab \in [Tabs -> TabStates]
    /\ intent \in [Checkouts -> Statuses]
    /\ key \in [Checkouts -> [Ops -> Keys]]
    /\ event \in [Checkouts -> [Published -> EventStates]]

(***************************************************************************)
(* What a page says of a payment is and stays true, whichever tab, retry   *)
(* or replay it comes from: after "No charge was made" nothing is charged, *)
(* and who is sent to the order page has paid (PaymentsController.create,  *)
(* Checkout.pay).                                                          *)
(***************************************************************************)
NoticesAreTrue ==
    \A t \in Tabs :
        /\ tab[t].told = "declined" => intent[tab[t].checkout] = "failed"
        /\ tab[t].told = "order_page" =>
              intent[tab[t].checkout] = "captured"

(***************************************************************************)
(* The token a payment is confirmed with does not come from a mistyped     *)
(* test card: one wrong digit or two neighbours swapped on the declining   *)
(* or the timing-out card must not make it "any other valid card", which   *)
(* is approved (luhnValid: obviously-mistyped numbers are rejected).       *)
(***************************************************************************)
MistypedCardsRefused ==
    \A t \in Tabs :
        tab[t].at = "confirm" =>
            \A number \in AcceptedSlips : MagicTokenForCard(number) # tab[t].token

(* What the shop and the gateway's intents look like to Sale. *)
Money(c) ==
    CASE intent[c] \in {"none", "created"}     -> "none"
      [] intent[c] = "authorized"              -> "held"
      [] intent[c] = "failed"                  -> "refused"
      [] intent[c] = "captured"                -> "charged"

SaleOf == INSTANCE Sale WITH money <- [c \in Checkouts |-> Money(c)]

(***************************************************************************)
(* The shop with the gateway implements a sale: charged at most once, only *)
(* while open, paid only because it is charged (order.rb: paid is caused   *)
(* only by a verified captured webhook).                                   *)
(***************************************************************************)
ImplementsSale == SaleOf!Spec

(***************************************************************************)
(* Who is charged gets the order: a captured intent's order is marked paid *)
(* although answers are lost, handlers die, webhooks are repeated and come *)
(* in any order (WebhookHandler: a replayed event is a no-op).             *)
(***************************************************************************)
ChargedGetsOrder == \A c \in Checkouts : intent[c] = "captured" ~> order[c] = "paid"

(***************************************************************************)
(* A declined payment leaves the order retryable: a buyer who was told so  *)
(* and then pays with a working card is not turned away with an error.     *)
(***************************************************************************)
DeclinedMayRetry ==
    [][\A t \in Tabs :
          tab[t].told = "declined" /\ tab[t].at = "confirm" /\ tab[t].token = "tok_ok"
            => tab'[t].told # "error"]_vars
=============================================================================
