-------------------------- MODULE NemLuxuryProofs --------------------------
(***************************************************************************)
(* Proofs about NemLuxury for any number of orders, tabs and cards: the    *)
(* types, the truth of what pages say, and that the shop with the gateway  *)
(* implements a sale.  The inductive invariant says where the evidence     *)
(* for each page and each paid order comes from.                           *)
(***************************************************************************)
EXTENDS NemLuxury, TokensProofs, TLAPS

(* An answer of op says no more than what has come of c's intent. *)
AnswerTrue(c, op, answer) ==
    \/ answer \in {Nil, "error", "unavailable"}
    \/ op = "create" /\ answer = "created"
    \/ op = "confirm" /\ answer = "authorized"
    \/ op = "confirm" /\ answer = "failed" /\ intent[c] = "failed"
    \/ op = "capture" /\ answer = "captured" /\ intent[c] = "captured"

(* A key belongs to an order; its client waits for this very call. *)
KeyOK(c, op) ==
    LET k == key[c][op]
    IN  /\ k.state # "free" => order[c] # "none"
        /\ k.state = "stored" => k.answer \in Answers
        /\ AnswerTrue(c, op, k.answer)
        /\ k.client # Nil =>
              /\ k.state = "running"
              /\ tab[k.client].at = op
              /\ tab[k.client].checkout = c
              /\ tab[k.client].waiting

(* A tab is about an order, and what it was told of it is true. *)
TabOK(t) ==
    LET x == tab[t]
    IN  /\ x.at # "idle" \/ x.told # "form" => x.checkout \in Checkouts
        /\ x.at \in Ops \cup {"link"} => order[x.checkout] # "none"
        /\ x.waiting => x.at \in Ops
        /\ x.told = "declined" => intent[x.checkout] = "failed"
        /\ x.told = "order_page" => intent[x.checkout] = "captured"

(* An intent is for an order, and only a captured one's order is paid. *)
OrderOK(c) ==
    /\ order[c] = "paid" => intent[c] = "captured"
    /\ intent[c] # "none" => order[c] # "none"
    /\ event[c]["captured"] # "none" => intent[c] = "captured"

IInv ==
    /\ TypeOK
    /\ \A c \in Checkouts : OrderOK(c)
    /\ \A c \in Checkouts, op \in Ops : KeyOK(c, op)
    /\ \A t \in Tabs : TabOK(t)
-----------------------------------------------------------------------------
LEMMA InitInv == Init => IInv
  <1> SUFFICES ASSUME Init PROVE IInv
    OBVIOUS
  <1>1. FreeKey \in Keys /\ NewTab \in TabStates
    BY DEF FreeKey, Keys, NewTab, TabStates, Notices
  <1>2. TypeOK
    BY <1>1 DEF Init, TypeOK, OrderStatuses, Statuses, EventStates
  <1>3. ASSUME NEW c \in Checkouts PROVE OrderOK(c)
    BY DEF Init, OrderOK, Published
  <1>4. ASSUME NEW c \in Checkouts, NEW op \in Ops PROVE KeyOK(c, op)
    BY DEF Init, KeyOK, FreeKey, AnswerTrue
  <1>5. ASSUME NEW t \in Tabs PROVE TabOK(t)
    BY DEF Init, TabOK, NewTab, Ops
  <1>6. QED
    BY <1>2, <1>3, <1>4, <1>5 DEF IInv

(* What an answer of the gateway makes of a tab that waits for it. *)
LEMMA AfterFacts ==
    ASSUME NEW x \in TabStates, x.at \in Ops, NEW answer \in Answers
    PROVE  LET y == After(x, answer)
           IN  /\ y \in TabStates
               /\ y.checkout = x.checkout
               /\ ~y.waiting
               /\ y.at \in {"idle", "link", "capture"}
               /\ \/ y.told \in {x.told, "form", "error"}
                  \/ y.told = "declined" /\ x.at = "confirm" /\ answer = "failed"
                  \/ /\ y.told = "order_page" /\ x.at = "capture"
                     /\ answer # "error"
  <1>1. CASE x.at = "create"
    BY <1>1 DEF After, AfterCreate, Shows, GoesTo, NewTab, TabStates, Notices
  <1>2. CASE x.at = "confirm"
    BY <1>2 DEF After, AfterConfirm, Shows, GoesTo, NewTab, TabStates, Notices, Ops
  <1>3. CASE x.at = "capture"
    BY <1>3 DEF After, AfterCapture, Shows, NewTab, TabStates, Notices
  <1>4. QED
    BY <1>1, <1>2, <1>3 DEF Ops

(* Orders stay placed, and refused and captured intents stay so. *)
Grows ==
    /\ \A c \in Checkouts : order[c] # "none" => order'[c] # "none"
    /\ \A c \in Checkouts : intent[c] \in {"failed", "captured"} => intent'[c] = intent[c]

(* What a tab or a key says remains true while orders and intents grow. *)
LEMMA TruthStays ==
    ASSUME IInv, Grows
    PROVE  /\ \A t \in Tabs : tab'[t] = tab[t] => TabOK(t)'
           /\ \A c \in Checkouts, op \in Ops, answer \in Answers \cup {"unavailable", Nil} :
                 AnswerTrue(c, op, answer) => AnswerTrue(c, op, answer)'
  <1>1. ASSUME NEW t \in Tabs, tab'[t] = tab[t] PROVE TabOK(t)'
    <2>1. TabOK(t) /\ tab[t].at \in Ops \cup {"idle", "insert", "link"}
      BY DEF IInv, TypeOK, TabStates
    <2>2. QED
      BY <1>1, <2>1 DEF TabOK, Grows, Ops
  <1>2. QED
    BY <1>1 DEF AnswerTrue, Grows

(* A tab without a call under way is no key's client. *)
LEMMA NoClient ==
    ASSUME IInv, NEW t \in Tabs, tab[t].at \notin Ops \/ ~tab[t].waiting
    PROVE  \A c \in Checkouts, op \in Ops : key[c][op].client # t
  <1>1. t # Nil
    BY NemLuxuryAssumption
  <1>2. QED
    BY <1>1 DEF IInv, KeyOK

(* A page changes to y, and at most the order it is about is placed. *)
PageStep(t, y) ==
    /\ tab' = [tab EXCEPT ![t] = y]
    /\ tab[t].at \notin Ops
    /\ order' \in [Checkouts -> OrderStatuses]
    /\ \A c \in Checkouts :
          order'[c] = order[c] \/ (order[c] = "none" /\ order'[c] = "pending")
    /\ linked' \in SUBSET Checkouts
    /\ UNCHANGED <<processed, intent, key, event>>

LEMMA PageInv ==
    ASSUME IInv, NEW t \in Tabs, NEW y \in TabStates, PageStep(t, y), TabOK(t)'
    PROVE  IInv'
  <1> USE DEF PageStep
  <1>1. TypeOK'
    BY DEF IInv, TypeOK
  <1>2. Grows
    BY DEF Grows
  <1>3. \A u \in Tabs : TabOK(u)'
    BY <1>2, TruthStays DEF IInv, TypeOK
  <1>4. ASSUME NEW c \in Checkouts, NEW op \in Ops PROVE KeyOK(c, op)'
    <2>1. KeyOK(c, op) /\ key[c][op].client # t /\ key[c][op] \in Keys
      BY NoClient DEF IInv, TypeOK
    <2>2. AnswerTrue(c, op, key[c][op].answer)'
      BY <1>2, <2>1, TruthStays DEF Keys, KeyOK, AnswerTrue
    <2>3. key[c][op].client # Nil => tab'[key[c][op].client] = tab[key[c][op].client]
      BY <2>1 DEF IInv, TypeOK, Keys
    <2>4. QED
      BY <1>2, <2>1, <2>2, <2>3 DEF KeyOK, Grows
  <1>5. ASSUME NEW c \in Checkouts PROVE OrderOK(c)'
    BY DEF IInv, OrderOK
  <1>6. QED
    BY <1>1, <1>3, <1>4, <1>5 DEF IInv

LEMMA TableTypes ==
    IInv => order \in [Checkouts -> OrderStatuses] /\ linked \in SUBSET Checkouts
  BY DEF IInv, TypeOK

LEMMA SubmitDetailsInv ==
    ASSUME IInv, NEW t \in Tabs, NEW c \in Checkouts, SubmitDetails(t, c)
    PROVE  IInv'
  <1> DEFINE y == [NewTab EXCEPT !.checkout = c,
                     !.at = IF order[c] = "none" THEN "insert" ELSE "idle"]
  <1>1. y \in TabStates /\ tab' = [tab EXCEPT ![t] = y]
    BY DEF SubmitDetails, NewTab, TabStates, Notices
  <1>2. TabOK(t)'
    BY <1>1 DEF IInv, TypeOK, TabOK, NewTab, Ops
  <1>3. UNCHANGED <<order, linked, processed, intent, key, event>> /\ tab[t].at \notin Ops
    BY DEF SubmitDetails, Ops
  <1>. HIDE DEF y
  <1>4. PageStep(t, y)
    BY <1>1, <1>3, TableTypes DEF PageStep
  <1>5. QED
    BY <1>1, <1>2, <1>4, PageInv

(* The order's page is shown only of an order that is paid. *)
LEMMA CardPageFacts ==
    ASSUME IInv, NEW x, x.checkout \in Checkouts, NEW notice \in {CardPage(x.checkout), "error"}
    PROVE  LET y == Shows(x, notice)
           IN  /\ y \in TabStates /\ y.at = "idle" /\ y.checkout = x.checkout
               /\ ~y.waiting
               /\ y.told # "declined"
               /\ y.told = "order_page" => intent[y.checkout] = "captured"
  <1>1. notice \in Notices /\ notice # "declined"
    BY DEF CardPage, Notices
  <1>2. notice = "order_page" => intent[x.checkout] = "captured"
    BY DEF CardPage, IInv, OrderOK
  <1>3. QED
    BY <1>1, <1>2 DEF Shows, NewTab, TabStates

LEMMA FindOrCreateOrderInv ==
    ASSUME IInv, NEW t \in Tabs, FindOrCreateOrder(t) PROVE IInv'
  <1> DEFINE c == tab[t].checkout
  <1>1. c \in Checkouts /\ tab[t] \in TabStates /\ tab[t].at = "insert"
    BY DEF FindOrCreateOrder, IInv, TypeOK, TabOK
  <1>2. CASE order[c] = "none"
    <2> DEFINE y == GoesTo(tab[t], "create")
    <2>1. tab' = [tab EXCEPT ![t] = y] /\ order' = [order EXCEPT ![c] = "pending"]
      BY <1>2 DEF FindOrCreateOrder
    <2>2. y \in TabStates /\ y.checkout = c /\ y.told = tab[t].told /\ ~y.waiting
      BY <1>1 DEF GoesTo, TabStates, Ops
    <2>3. order' \in [Checkouts -> OrderStatuses] /\ order'[c] = "pending"
      BY <1>1, <2>1 DEF IInv, TypeOK, OrderStatuses
    <2>4. UNCHANGED <<linked, processed, intent, key, event>> /\ tab'[t] = y
      BY <2>1 DEF FindOrCreateOrder, IInv, TypeOK
    <2>5. TabOK(t)'
      BY <1>1, <2>2, <2>3, <2>4 DEF IInv, TabOK
    <2>6. \A d \in Checkouts :
             order'[d] = order[d] \/ (order[d] = "none" /\ order'[d] = "pending")
      BY <1>2, <2>1 DEF IInv, TypeOK
    <2>. HIDE DEF y
    <2>7. PageStep(t, y)
      BY <1>1, <2>1, <2>3, <2>4, <2>6, TableTypes DEF PageStep, Ops
    <2>8. QED
      BY <2>2, <2>5, <2>7, PageInv
  <1>3. CASE order[c] # "none"
    <2>1. PICK notice \in {CardPage(c), "error"} :
            tab' = [tab EXCEPT ![t] = Shows(@, notice)]
      BY <1>3 DEF FindOrCreateOrder
    <2> DEFINE y == Shows(tab[t], notice)
    <2>2. /\ y \in TabStates /\ y.at = "idle" /\ y.checkout = c /\ ~y.waiting
          /\ y.told # "declined"
          /\ y.told = "order_page" => intent[c] = "captured"
      BY <1>1, CardPageFacts
    <2>3. UNCHANGED <<order, linked, processed, intent, key, event>>
      BY <1>3 DEF FindOrCreateOrder
    <2>4. tab' = [tab EXCEPT ![t] = y] /\ tab'[t] = y
      BY <2>1 DEF IInv, TypeOK
    <2>. HIDE DEF y
    <2>5. TabOK(t)'
      BY <1>1, <2>2, <2>3, <2>4 DEF TabOK, Ops
    <2>6. PageStep(t, y)
      BY <1>1, <2>3, <2>4, TableTypes DEF PageStep, Ops
    <2>7. QED
      BY <2>2, <2>5, <2>6, PageInv
  <1>4. QED
    BY <1>2, <1>3

LEMMA LinkInv ==
    ASSUME IInv, NEW t \in Tabs, Link(t) PROVE IInv'
  <1> DEFINE c == tab[t].checkout
             y == Shows(tab[t], CardPage(c))
  <1>1. c \in Checkouts /\ tab[t].at = "link"
    BY DEF Link, IInv, TabOK
  <1>2. /\ y \in TabStates /\ y.at = "idle" /\ y.checkout = c /\ ~y.waiting
        /\ y.told # "declined"
        /\ y.told = "order_page" => intent[c] = "captured"
    BY <1>1, CardPageFacts
  <1>3. /\ tab' = [tab EXCEPT ![t] = y] /\ tab'[t] = y
        /\ linked' = linked \cup {c}
        /\ UNCHANGED <<order, processed, intent, key, event>>
    BY DEF Link, IInv, TypeOK
  <1>. HIDE DEF y
  <1>4. TabOK(t)'
    BY <1>1, <1>2, <1>3 DEF TabOK, Ops
  <1>5. linked' \in SUBSET Checkouts
    BY <1>1, <1>3, TableTypes
  <1>6. PageStep(t, y)
    BY <1>1, <1>3, <1>5, TableTypes DEF PageStep, Ops
  <1>7. QED
    BY <1>2, <1>4, <1>6, PageInv

LEMMA PayInv ==
    ASSUME IInv, NEW t \in Tabs, NEW c \in Checkouts, NEW number \in Cards,
           Pay(t, c, number)
    PROVE  IInv'
  <1> DEFINE p == Page(t, c)
  <1>1. /\ p \in TabStates /\ p.checkout = c /\ p.at = "idle" /\ ~p.waiting
        /\ p.told = "declined" => intent[c] = "failed"
        /\ p.told = "order_page" => intent[c] = "captured"
    BY DEF Pay, Page, IInv, TypeOK, TabOK, NewTab, TabStates, Notices, Ops
  <1>2. UNCHANGED <<order, linked, processed, intent, key, event>>
        /\ tab[t].at = "idle" /\ order[c] # "none"
    BY DEF Pay
  <1>3. PICK y : /\ tab' = [tab EXCEPT ![t] = y]
                 /\ \/ y = p
                    \/ y = Shows(p, CardPage(c))
                    \/ y = [p EXCEPT !.at = "confirm",
                                     !.token = MagicTokenForCard(number)]
    BY DEF Pay
  <1>4. MagicTokenForCard(number) \in Tokens
    BY DEF MagicTokenForCard, Tokens
  <1>. HIDE DEF p
  <1>5. y \in TabStates /\ y.checkout = c /\ y.at \in {"idle", "confirm"}
        /\ ~y.waiting
        /\ (y.told = "declined" => intent[c] = "failed")
        /\ (y.told = "order_page" => intent[c] = "captured")
    <2>1. CASE y = p
      BY <1>1, <2>1
    <2>2. CASE y = Shows(p, CardPage(c))
      BY <1>1, <2>2, CardPageFacts
    <2>3. CASE y = [p EXCEPT !.at = "confirm", !.token = MagicTokenForCard(number)]
      BY <1>1, <1>4, <2>3 DEF TabStates, Ops
    <2>4. QED
      BY <1>3, <2>1, <2>2, <2>3
  <1>6. tab'[t] = y
    BY <1>3 DEF IInv, TypeOK
  <1>7. TabOK(t)'
    BY <1>2, <1>5, <1>6 DEF TabOK
  <1>8. PageStep(t, y)
    BY <1>2, <1>3, TableTypes DEF PageStep, Ops
  <1>9. QED
    BY <1>5, <1>7, <1>8, PageInv
-----------------------------------------------------------------------------
(* Of the key table only (c, op) changes. *)
KeyChange(c, op, k) ==
    key' = [key EXCEPT ![c][op] = k] /\ UNCHANGED <<order, linked, processed>>

(* The same, and intents stay as they are. *)
KeyStep(c, op, k) == KeyChange(c, op, k) /\ UNCHANGED <<intent, event>>

(* Intents move on, each with the event that belongs to its new status. *)
IntentStep ==
    /\ intent' \in [Checkouts -> Statuses]
    /\ event' \in [Checkouts -> [Published -> EventStates]]
    /\ Grows
    /\ \A d \in Checkouts : OrderOK(d)'

(* Only tabs of S change, which no other key has for its client. *)
TabStep(c, op, S) ==
    /\ tab' \in [Tabs -> TabStates]
    /\ \A t \in Tabs : t \in S => TabOK(t)'
    /\ \A t \in Tabs : t \notin S => tab'[t] = tab[t]
    /\ \A d \in Checkouts, o \in Ops :
          (d # c \/ o # op) => key[d][o].client \notin S

LEMMA KeyFacts ==
    ASSUME IInv, NEW c \in Checkouts, NEW op \in Ops, NEW k \in Keys,
           KeyChange(c, op, k)
    PROVE  /\ key' \in [Checkouts -> [Ops -> Keys]]
           /\ key'[c][op] = k
           /\ \A d \in Checkouts, o \in Ops :
                 key'[d][o] = IF d = c /\ o = op THEN k ELSE key[d][o]
  BY DEF KeyChange, IInv, TypeOK

LEMMA GatewayInv ==
    ASSUME IInv, NEW c \in Checkouts, NEW op \in Ops, NEW k \in Keys,
           NEW S \in SUBSET Tabs, KeyChange(c, op, k), IntentStep,
           TabStep(c, op, S), KeyOK(c, op)'
    PROVE  IInv'
  <1> USE DEF TabStep
  <1>1. Grows /\ order' = order
    BY DEF KeyChange, IntentStep
  <1>2. TypeOK'
    BY KeyFacts DEF IInv, TypeOK, KeyChange, IntentStep
  <1>3. ASSUME NEW t \in Tabs PROVE TabOK(t)'
    BY <1>1, TruthStays
  <1>4. ASSUME NEW d \in Checkouts, NEW o \in Ops PROVE KeyOK(d, o)'
    <2>1. CASE d = c /\ o = op
      BY <2>1
    <2>2. CASE d # c \/ o # op
      <3>1. key'[d][o] = key[d][o] /\ key[d][o] \in Keys
        BY <2>2, KeyFacts DEF IInv, TypeOK
      <3>2. KeyOK(d, o) /\ key[d][o].client \notin S
        BY <2>2 DEF IInv
      <3>3. AnswerTrue(d, o, key[d][o].answer)'
        BY <1>1, <3>1, <3>2, TruthStays DEF Keys, KeyOK, AnswerTrue
      <3>4. key[d][o].client # Nil =>
               tab'[key[d][o].client] = tab[key[d][o].client]
        BY <3>1, <3>2 DEF Keys
      <3>5. QED
        BY <1>1, <3>1, <3>2, <3>3, <3>4 DEF KeyOK
    <2>3. QED
      BY <2>1, <2>2
  <1>5. QED
    BY <1>2, <1>3, <1>4 DEF IInv, IntentStep

LEMMA KeyInv ==
    ASSUME IInv, NEW c \in Checkouts, NEW op \in Ops, NEW k \in Keys,
           NEW S \in SUBSET Tabs, KeyStep(c, op, k), TabStep(c, op, S), KeyOK(c, op)'
    PROVE  IInv'
  <1>1. KeyChange(c, op, k) /\ Grows
    BY DEF KeyStep, KeyChange, Grows
  <1>2. ASSUME NEW d \in Checkouts PROVE OrderOK(d)'
    BY <1>1 DEF KeyStep, KeyChange, IInv, OrderOK
  <1>3. IntentStep
    BY <1>1, <1>2 DEF IntentStep, KeyStep, IInv, TypeOK
  <1>4. QED
    BY <1>1, <1>3, GatewayInv

(* The tab t has its answer. *)
LEMMA AnsweredFacts ==
    ASSUME IInv, NEW t \in Tabs, tab[t].at \in Ops, NEW answer \in Answers,
           AnswerTrue(tab[t].checkout, tab[t].at, answer),
           tab' = Answered(t, answer), order' = order, intent' = intent
    PROVE  /\ tab' \in [Tabs -> TabStates]
           /\ TabOK(t)'
           /\ \A u \in Tabs : u # t => tab'[u] = tab[u]
  <1> DEFINE x == tab[t]
             y == After(x, answer)
  <1>1. x \in TabStates /\ x.checkout \in Checkouts
    BY DEF IInv, TypeOK, TabOK, Ops
  <1>2. /\ y \in TabStates
        /\ y.checkout = x.checkout
        /\ ~y.waiting
        /\ y.at \in {"idle", "link", "capture"}
        /\ \/ y.told \in {x.told, "form", "error"}
           \/ y.told = "declined" /\ x.at = "confirm" /\ answer = "failed"
           \/ y.told = "order_page" /\ x.at = "capture" /\ answer # "error"
    BY <1>1, AfterFacts
  <1>3. tab' = [tab EXCEPT ![t] = y]
    BY DEF Answered
  <1>. HIDE DEF y
  <1>4. tab'[t] = y /\ \A u \in Tabs : u # t => tab'[u] = tab[u]
    BY <1>3 DEF IInv, TypeOK
  <1>5. TabOK(t) /\ order[x.checkout] # "none"
    BY DEF IInv, TabOK
  <1>6. y.told = "declined" => intent[x.checkout] = "failed"
    BY <1>2, <1>5, NemLuxuryAssumption DEF TabOK, AnswerTrue, Answers
  <1>7. y.told = "order_page" => intent[x.checkout] = "captured"
    <2>1. CASE x.told = "order_page"
      BY <1>5, <2>1 DEF TabOK
    <2>2. ASSUME x.at = "capture", answer # "error"
          PROVE  intent[x.checkout] = "captured"
      BY <2>2, NemLuxuryAssumption DEF AnswerTrue, Answers
    <2>3. QED
      BY <1>2, <2>1, <2>2
  <1>8. TabOK(t)'
    BY <1>1, <1>2, <1>4, <1>5, <1>6, <1>7 DEF TabOK
  <1>9. QED
    BY <1>2, <1>3, <1>4, <1>8 DEF IInv, TypeOK

(* The tab t stops waiting for its call. *)
LEMMA LeavesInv ==
    ASSUME IInv, NEW t \in Tabs, NEW c \in Checkouts, NEW op \in Ops,
           tab[t].checkout = c, tab[t].at = op, key' = Abandoned(t),
           UNCHANGED <<order, linked, processed, intent, event>>,
           tab' \in [Tabs -> TabStates], TabOK(t)',
           \A u \in Tabs : u # t => tab'[u] = tab[u]
    PROVE  IInv'
  <1> DEFINE k == IF tab[t].waiting THEN [key[c][op] EXCEPT !.client = Nil]
                                    ELSE key[c][op]
  <1>1. key \in [Checkouts -> [Ops -> Keys]] /\ key[c][op] \in Keys
    BY DEF IInv, TypeOK
  <1>2. k \in Keys
    BY <1>1 DEF Keys
  <1>3. KeyStep(c, op, k)
    BY <1>1 DEF Abandoned, KeyStep, KeyChange
  <1>4. /\ k.state = key[c][op].state /\ k.answer = key[c][op].answer
        /\ k.client \in {Nil, key[c][op].client}
        /\ tab[t].waiting => k.client = Nil
    BY <1>1 DEF Keys
  <1>. HIDE DEF k
  <1>5. KeyOK(c, op) /\ key'[c][op] = k
    BY <1>2, <1>3, KeyFacts DEF IInv, KeyStep
  <1>6. k.client # Nil => k.client # t /\ k.client \in Tabs
    BY <1>2, <1>4, NoClient DEF Keys
  <1>7. AnswerTrue(c, op, k.answer)
    BY <1>4, <1>5 DEF KeyOK
  <1>8. KeyOK(c, op)'
    <2>1. k.client # Nil => tab'[k.client] = tab[k.client] /\ k.client = key[c][op].client
      BY <1>4, <1>6
    <2>2. QED
      BY <1>4, <1>5, <1>7, <2>1 DEF KeyOK, AnswerTrue
  <1>9. ASSUME NEW d \in Checkouts, NEW o \in Ops, d # c \/ o # op
         PROVE  key[d][o].client # t
    BY <1>9, NemLuxuryAssumption DEF IInv, KeyOK
  <1> DEFINE S == {t}
  <1>10. S \in SUBSET Tabs /\ TabStep(c, op, S)
    BY <1>9 DEF TabStep
  <1>. HIDE DEF S
  <1>11. QED
    BY <1>2, <1>3, <1>8, <1>10, KeyInv

LEMMA ErrorIsTrue ==
    \A c, op : AnswerTrue(c, op, "error")
  BY DEF AnswerTrue

LEMMA CallInv ==
    ASSUME IInv, NEW t \in Tabs, Call(t) PROVE IInv'
  <1>1. PICK c \in Checkouts, op \in Ops : tab[t].checkout = c /\ tab[t].at = op
    BY DEF Call, IInv, TabOK, Ops
  <1>2. /\ KeyOK(c, op) /\ key[c][op] \in Keys /\ order[c] # "none"
        /\ key \in [Checkouts -> [Ops -> Keys]]
        /\ tab \in [Tabs -> TabStates] /\ ~tab[t].waiting
        /\ \A d \in Checkouts, o \in Ops : key[d][o].client # t
    BY <1>1, NoClient DEF Call, IInv, TypeOK, TabOK
  <1>3. CASE key[c][op].state = "free"
    <2> DEFINE k == [FreeKey EXCEPT !.state = "running", !.client = t,
                                    !.token = Fingerprint(t)]
    <2>1. Fingerprint(t) \in Tokens \cup {Nil}
      BY <1>2 DEF Fingerprint, TabStates
    <2>2. /\ k \in Keys /\ k.state = "running" /\ k.client = t /\ k.answer = Nil
      BY <2>1 DEF FreeKey, Keys
    <2>3. /\ KeyStep(c, op, k)
          /\ tab' = [tab EXCEPT ![t].waiting = TRUE]
      BY <1>1, <1>3 DEF Call, KeyStep, KeyChange
    <2>. HIDE DEF k
    <2>4. /\ tab'[t].waiting /\ tab'[t].at = op /\ tab'[t].checkout = c
          /\ tab'[t].told = tab[t].told /\ tab' \in [Tabs -> TabStates]
          /\ \A u \in Tabs : u # t => tab'[u] = tab[u]
      BY <1>1, <1>2, <2>3 DEF TabStates
    <2>5. TabOK(t)'
      BY <1>1, <2>3, <2>4 DEF IInv, TabOK, KeyStep, KeyChange
    <2>6. KeyOK(c, op)'
      BY <1>2, <2>2, <2>3, <2>4, KeyFacts DEF KeyOK, AnswerTrue, KeyStep, KeyChange
    <2> DEFINE S == {t}
    <2>7. S \in SUBSET Tabs /\ TabStep(c, op, S)
      BY <1>2, <2>4, <2>5 DEF TabStep
    <2>. HIDE DEF S
    <2>8. QED
      BY <2>2, <2>3, <2>6, <2>7, KeyInv
  <1>4. CASE key[c][op].state # "free"
    <2> DEFINE a == IF /\ key[c][op].state = "stored"
                       /\ key[c][op].token = Fingerprint(t)
                    THEN key[c][op].answer ELSE "error"
    <2>1. /\ tab' = Answered(t, a) /\ key' = key
          /\ UNCHANGED <<order, linked, processed, intent, event>>
      BY <1>1, <1>4 DEF Call
    <2>2. a \in Answers /\ AnswerTrue(c, op, a)
      BY <1>2, ErrorIsTrue DEF KeyOK, Answers
    <2>. HIDE DEF a
    <2>3. /\ tab' \in [Tabs -> TabStates] /\ TabOK(t)'
          /\ \A u \in Tabs : u # t => tab'[u] = tab[u]
      BY <1>1, <2>1, <2>2, AnsweredFacts
    <2>4. key' = Abandoned(t)
      BY <1>2, <2>1 DEF Abandoned
    <2>5. QED
      BY <1>1, <2>1, <2>3, <2>4, LeavesInv
  <1>5. QED
    BY <1>3, <1>4

LEMMA CallFailsInv ==
    ASSUME IInv, NEW t \in Tabs, CallFails(t) PROVE IInv'
  <1>1. PICK c \in Checkouts, op \in Ops : tab[t].checkout = c /\ tab[t].at = op
    BY DEF CallFails, IInv, TabOK, Ops
  <1>2. /\ tab' = Answered(t, "error") /\ key' = Abandoned(t)
        /\ UNCHANGED <<order, linked, processed, intent, event>>
    BY DEF CallFails
  <1>3. /\ tab' \in [Tabs -> TabStates] /\ TabOK(t)'
        /\ \A u \in Tabs : u # t => tab'[u] = tab[u]
    BY <1>1, <1>2, ErrorIsTrue, AnsweredFacts DEF Answers
  <1>4. QED
    BY <1>1, <1>2, <1>3, LeavesInv

LEMMA ShopDiesInv ==
    ASSUME IInv, NEW t \in Tabs, ShopDies(t) PROVE IInv'
  <1> DEFINE y == Shows(tab[t], "error")
  <1>1. /\ tab[t].checkout \in Checkouts /\ tab[t] \in TabStates
        /\ tab[t].waiting => tab[t].at \in Ops
    BY DEF ShopDies, IInv, TypeOK, TabOK
  <1>2. /\ y \in TabStates /\ y.at = "idle" /\ y.checkout = tab[t].checkout
        /\ ~y.waiting /\ y.told = "error"
    BY <1>1 DEF Shows, NewTab, TabStates, Notices
  <1>3. /\ tab' = [tab EXCEPT ![t] = y] /\ key' = Abandoned(t)
        /\ UNCHANGED <<order, linked, processed, intent, event>>
    BY DEF ShopDies
  <1>. HIDE DEF y
  <1>4. /\ tab' \in [Tabs -> TabStates] /\ tab'[t] = y
        /\ \A u \in Tabs : u # t => tab'[u] = tab[u]
    BY <1>2, <1>3 DEF IInv, TypeOK
  <1>5. TabOK(t)'
    BY <1>1, <1>2, <1>4 DEF TabOK, Ops
  <1>6. CASE tab[t].at \in Ops
    <2>1. PICK c \in Checkouts, op \in Ops : tab[t].checkout = c /\ tab[t].at = op
      BY <1>1, <1>6
    <2>2. QED
      BY <1>3, <1>4, <1>5, <2>1, LeavesInv
  <1>7. CASE tab[t].at \notin Ops
    <2>1. PageStep(t, y)
      BY <1>1, <1>3, <1>7, TableTypes DEF PageStep, Abandoned
    <2>2. QED
      BY <1>2, <1>5, <2>1, PageInv
  <1>8. QED
    BY <1>6, <1>7
-----------------------------------------------------------------------------
(* The client of a running call, if any, gets its answer. *)
LEMMA RepliedFacts ==
    ASSUME IInv, NEW c \in Checkouts, NEW op \in Ops, key[c][op].state = "running",
           NEW answer \in Answers, AnswerTrue(c, op, answer),
           tab' = Replied(c, op, answer), order' = order, intent' = intent
    PROVE  \E S \in SUBSET Tabs : TabStep(c, op, S)
  <1>1. /\ KeyOK(c, op) /\ key[c][op].client \in Tabs \cup {Nil}
        /\ tab \in [Tabs -> TabStates]
    BY DEF IInv, TypeOK, Keys
  <1>2. CASE key[c][op].client = Nil
    <2>1. TabStep(c, op, {})
      BY <1>1, <1>2 DEF Replied, TabStep
    <2>2. QED
      BY <2>1
  <1>3. CASE key[c][op].client # Nil
    <2>1. PICK t \in Tabs : t = key[c][op].client
      BY <1>1, <1>3
    <2>2. tab[t].at = op /\ tab[t].checkout = c /\ tab' = Answered(t, answer)
      BY <1>1, <1>3, <2>1 DEF KeyOK, Replied
    <2>3. /\ tab' \in [Tabs -> TabStates] /\ TabOK(t)'
          /\ \A u \in Tabs : u # t => tab'[u] = tab[u]
      BY <2>2, AnsweredFacts
    <2>4. ASSUME NEW d \in Checkouts, NEW o \in Ops, d # c \/ o # op
          PROVE  key[d][o].client # t
      BY <2>2, <2>4, NemLuxuryAssumption DEF IInv, KeyOK
    <2>5. TabStep(c, op, {t})
      BY <2>3, <2>4 DEF TabStep
    <2>6. QED
      BY <2>5
  <1>4. QED
    BY <1>2, <1>3

(* A request ends; its client, if it still waits, is answered. *)
LEMMA EndsInv ==
    ASSUME IInv, NEW c \in Checkouts, NEW op \in Ops, key[c][op].state = "running",
           NEW k \in Keys, KeyStep(c, op, k), k.client = Nil,
           k.state = "stored" => k.answer \in Answers, AnswerTrue(c, op, k.answer),
           NEW answer \in Answers, AnswerTrue(c, op, answer),
           tab' = Replied(c, op, answer)
    PROVE  IInv'
  <1>1. PICK S \in SUBSET Tabs : TabStep(c, op, S)
    BY RepliedFacts DEF KeyStep, KeyChange
  <1>2. key'[c][op] = k /\ order[c] # "none"
    BY KeyFacts DEF KeyStep, IInv, KeyOK
  <1>3. KeyOK(c, op)'
    BY <1>2 DEF KeyOK, AnswerTrue, KeyStep, KeyChange
  <1>4. QED
    BY <1>1, <1>3, KeyInv

LEMMA RespondInv ==
    ASSUME IInv, NEW c \in Checkouts, NEW op \in Ops, Respond(c, op) PROVE IInv'
  <1>1. /\ key[c][op] \in Keys /\ KeyOK(c, op)
        /\ key[c][op].state = "running" /\ key[c][op].answer # Nil
    BY DEF Respond, IInv, TypeOK
  <1>2. CASE key[c][op].answer = "unavailable"
    <2>1. KeyStep(c, op, FreeKey) /\ tab' = Replied(c, op, "error")
      BY <1>2 DEF Respond, KeyStep, KeyChange
    <2>2. /\ FreeKey \in Keys /\ FreeKey.client = Nil /\ FreeKey.state # "stored"
          /\ AnswerTrue(c, op, FreeKey.answer) /\ AnswerTrue(c, op, "error")
          /\ "error" \in Answers
      BY DEF FreeKey, Keys, AnswerTrue, Answers
    <2>3. QED
      BY <1>1, <2>1, <2>2, EndsInv
  <1>3. CASE key[c][op].answer # "unavailable"
    <2> DEFINE k == [key[c][op] EXCEPT !.state = "stored", !.client = Nil]
    <2>1. KeyStep(c, op, k) /\ tab' = Replied(c, op, key[c][op].answer)
      BY <1>3 DEF Respond, KeyStep, KeyChange, IInv, TypeOK
    <2>2. k \in Keys /\ k.client = Nil /\ k.answer = key[c][op].answer
      BY <1>1 DEF Keys
    <2>3. PICK answer \in Answers : answer = key[c][op].answer
      BY <1>1, <1>3 DEF Keys
    <2>4. AnswerTrue(c, op, answer)
      BY <1>1, <2>3 DEF KeyOK
    <2>. HIDE DEF k
    <2>5. QED
      BY <1>1, <2>1, <2>2, <2>3, <2>4, EndsInv
  <1>4. QED
    BY <1>2, <1>3

LEMMA GatewayDiesInv ==
    ASSUME IInv, NEW c \in Checkouts, NEW op \in Ops, GatewayDies(c, op) PROVE IInv'
  <1> DEFINE k == [key[c][op] EXCEPT !.client = Nil, !.answer = "unavailable"]
  <1>1. key[c][op] \in Keys /\ key[c][op].state = "running"
    BY DEF GatewayDies, IInv, TypeOK
  <1>2. KeyStep(c, op, k) /\ tab' = Replied(c, op, "error")
    BY DEF GatewayDies, KeyStep, KeyChange, IInv, TypeOK
  <1>3. /\ k \in Keys /\ k.client = Nil /\ k.answer = "unavailable"
        /\ k.state = "running"
    BY <1>1 DEF Keys
  <1>. HIDE DEF k
  <1>4. /\ AnswerTrue(c, op, k.answer) /\ AnswerTrue(c, op, "error")
        /\ "error" \in Answers
    BY <1>3 DEF AnswerTrue, Answers
  <1>5. QED
    BY <1>1, <1>2, <1>3, <1>4, EndsInv

(* No page changes, and a key of an order keeps its client or loses it. *)
LEMMA QuietFacts ==
    ASSUME IInv, NEW c \in Checkouts, NEW op \in Ops, NEW k \in Keys,
           KeyChange(c, op, k), Grows, tab' = tab,
           k.state # "free" => key[c][op].state # "free",
           k.state = "stored" => k.answer \in Answers, AnswerTrue(c, op, k.answer)',
           k.client # Nil => k.client = key[c][op].client /\ k.state = "running"
    PROVE  KeyOK(c, op)' /\ TabStep(c, op, {})
  <1>1. TabStep(c, op, {})
    BY DEF TabStep, IInv, TypeOK
  <1>2. KeyOK(c, op) /\ key'[c][op] = k
    BY KeyFacts DEF IInv
  <1>3. QED
    BY <1>1, <1>2 DEF KeyOK, AnswerTrue, Grows

LEMMA QuietInv ==
    ASSUME IInv, NEW c \in Checkouts, NEW op \in Ops,
           Reject(c, op) \/ Break(c, op) \/ FreesKey(c, op)
    PROVE  IInv'
  <1>1. key[c][op] \in Keys /\ KeyOK(c, op)
    BY DEF IInv, TypeOK
  <1>2. UNCHANGED <<order, linked, processed, tab, intent, event>>
    BY DEF Reject, Break, FreesKey
  <1>3. PICK k \in Keys : /\ key' = [key EXCEPT ![c][op] = k]
                          /\ \/ k = FreeKey
                             \/ /\ key[c][op].state = "running"
                                /\ k.state = "running"
                                /\ k.client = key[c][op].client
                                /\ k.answer \in {"error", "unavailable"}
    <2>1. CASE Reject(c, op) \/ Break(c, op)
      <3>1. PICK answer \in {"error", "unavailable"} :
              key' = [key EXCEPT ![c][op] = [key[c][op] EXCEPT !.answer = answer]]
        BY <2>1 DEF Reject, Break, Ends, IInv, TypeOK
      <3>2. [key[c][op] EXCEPT !.answer = answer] \in Keys
        BY <1>1 DEF Keys, Answers
      <3>3. key[c][op].state = "running"
        BY <2>1 DEF Reject, Break, Executing
      <3>4. QED
        BY <1>1, <3>1, <3>2, <3>3 DEF Keys
    <2>2. CASE FreesKey(c, op)
      BY <2>2 DEF FreesKey, FreeKey, Keys
    <2>3. QED
      BY <2>1, <2>2
  <1>4. /\ k.state # "free" => key[c][op].state # "free"
        /\ k.state # "stored"
        /\ k.answer \in {Nil, "error", "unavailable"}
        /\ k.client # Nil => k.client = key[c][op].client /\ k.state = "running"
    BY <1>3 DEF FreeKey
  <1>5. AnswerTrue(c, op, k.answer)'
    BY <1>4 DEF AnswerTrue
  <1>6. KeyStep(c, op, k) /\ KeyChange(c, op, k) /\ Grows
    BY <1>2, <1>3 DEF KeyStep, KeyChange, Grows
  <1>7. KeyOK(c, op)' /\ TabStep(c, op, {})
    BY <1>2, <1>4, <1>5, <1>6, QuietFacts
  <1>8. QED
    BY <1>6, <1>7, KeyInv

(* An intent that is not yet over moves on. *)
LEMMA BecomesFacts ==
    ASSUME IInv, NEW c \in Checkouts, NEW to \in Statuses \ {"none"}, Becomes(c, to),
           intent[c] \notin {"failed", "captured"}, order[c] # "none", order' = order
    PROVE  IntentStep /\ intent'[c] = to
  <1>1. /\ intent' \in [Checkouts -> Statuses] /\ intent'[c] = to
        /\ \A d \in Checkouts : d # c => intent'[d] = intent[d]
    BY DEF Becomes, IInv, TypeOK
  <1>2. /\ event' \in [Checkouts -> [Published -> EventStates]]
        /\ \A d \in Checkouts : d # c => event'[d] = event[d]
        /\ \A s \in Published : s # to => event'[c][s] = event[c][s]
    BY DEF Becomes, IInv, TypeOK, EventStates
  <1>3. Grows
    BY <1>1 DEF Grows
  <1>4. ASSUME NEW d \in Checkouts PROVE OrderOK(d)'
    <2>1. OrderOK(d) /\ OrderOK(c)
      BY DEF IInv
    <2>2. CASE d = c
      <3>1. order[c] # "paid" /\ event[c]["captured"] = "none"
        BY <2>1 DEF OrderOK
      <3>2. to # "captured" => event'[c]["captured"] = "none"
        BY <1>2, <3>1 DEF Published
      <3>3. QED
        BY <1>1, <2>2, <3>1, <3>2 DEF OrderOK
    <2>3. CASE d # c
      BY <1>1, <1>2, <2>1, <2>3 DEF OrderOK
    <2>4. QED
      BY <2>2, <2>3
  <1>5. QED
    BY <1>1, <1>2, <1>3, <1>4 DEF IntentStep

LEMMA ExecuteInv ==
    ASSUME IInv, NEW c \in Checkouts, NEW op \in Ops, Execute(c, op) PROVE IInv'
  <1>1. PICK to : to = LeadsTo(op, key[c][op].token)
    OBVIOUS
  <1>2. /\ to \in Statuses \ {"none"} /\ to \in Answers
        /\ op = "create" => to = "created"
        /\ op = "confirm" => to \in {"authorized", "failed"}
        /\ op = "capture" => to = "captured"
    BY <1>1 DEF LeadsTo, Statuses, Published, Answers, Ops
  <1>3. /\ key[c][op] \in Keys /\ KeyOK(c, op) /\ key[c][op].state = "running"
        /\ intent[c] \notin {"failed", "captured"} /\ order[c] # "none"
        /\ Becomes(c, to)
        /\ UNCHANGED <<order, linked, processed, tab>>
    BY <1>1 DEF Execute, Executing, Needs, IInv, TypeOK, KeyOK, Ops
  <1>4. IntentStep /\ intent'[c] = to
    BY <1>2, <1>3, BecomesFacts
  <1>5. PICK answer \in {to, "unavailable"} :
          key' = [key EXCEPT ![c][op] = [key[c][op] EXCEPT !.answer = answer]]
    BY <1>1 DEF Execute, Ends, IInv, TypeOK
  <1>6. PICK k \in Keys :
          /\ key' = [key EXCEPT ![c][op] = k]
          /\ k.state = "running" /\ k.answer = answer
          /\ k.client = key[c][op].client
    <2>1. [key[c][op] EXCEPT !.answer = answer] \in Keys
      BY <1>2, <1>3, <1>5 DEF Keys
    <2>2. QED
      BY <1>3, <1>5, <2>1 DEF Keys
  <1>7. KeyChange(c, op, k) /\ Grows
    BY <1>3, <1>4, <1>6 DEF KeyChange, IntentStep
  <1>8. AnswerTrue(c, op, k.answer)'
    BY <1>2, <1>4, <1>5, <1>6 DEF AnswerTrue, Ops
  <1>9. KeyOK(c, op)' /\ TabStep(c, op, {})
    BY <1>3, <1>6, <1>7, <1>8, QuietFacts
  <1>10. QED
    BY <1>4, <1>6, <1>7, <1>9, GatewayInv

LEMMA ExpireInv ==
    ASSUME IInv, NEW c \in Checkouts, Expire(c) PROVE IInv'
  <1>1. PICK k \in Keys : k = key[c]["create"]
    BY DEF IInv, TypeOK, Ops
  <1>2. /\ Becomes(c, "failed") /\ "create" \in Ops
        /\ intent[c] \notin {"none", "failed", "captured"}
        /\ UNCHANGED <<order, linked, processed, tab, key>>
    BY DEF Expire, Ops
  <1>3. OrderOK(c) /\ KeyOK(c, "create")
    BY <1>2 DEF IInv
  <1>4. IntentStep
    BY <1>2, <1>3, BecomesFacts DEF OrderOK, Statuses, Published
  <1>5. KeyChange(c, "create", k) /\ Grows
    BY <1>1, <1>2, <1>4 DEF KeyChange, IntentStep, IInv, TypeOK
  <1>6. k.answer \in Answers \cup {"unavailable", Nil}
    BY DEF Keys
  <1>7. AnswerTrue(c, "create", k.answer)'
    BY <1>1, <1>2, <1>3, <1>5, <1>6, TruthStays DEF KeyOK
  <1>8. KeyOK(c, "create")' /\ TabStep(c, "create", {})
    BY <1>1, <1>2, <1>3, <1>5, <1>7, QuietFacts DEF KeyOK
  <1>9. QED
    BY <1>2, <1>4, <1>5, <1>8, GatewayInv

LEMMA HandleInv ==
    ASSUME IInv, NEW c \in Checkouts, NEW status \in Published, Handle(c, status)
    PROVE  IInv'
  <1>1. /\ event[c][status] = "pending" /\ UNCHANGED <<linked, tab, intent, key>>
        /\ \/ order' = order
           \/ status = "captured" /\ order' = [order EXCEPT ![c] = "paid"]
        /\ \/ event' = event
           \/ event' = [event EXCEPT ![c][status] = "retired"]
        /\ processed' = processed \cup {<<c, status>>}
    BY DEF Handle, MarksPaid
  <1>2. /\ event' \in [Checkouts -> [Published -> EventStates]]
        /\ \A d \in Checkouts, s \in Published :
              event'[d][s] # "none" => event[d][s] # "none"
    <2>1. event \in [Checkouts -> [Published -> EventStates]] /\ event[c][status] # "none"
      BY <1>1 DEF IInv, TypeOK
    <2>2. CASE event' = event
      BY <2>1, <2>2
    <2>3. CASE event' = [event EXCEPT ![c][status] = "retired"]
      <3>1. event' \in [Checkouts -> [Published -> EventStates]]
        BY <2>1, <2>3 DEF EventStates
      <3>2. ASSUME NEW d \in Checkouts, NEW s \in Published
            PROVE  event'[d][s] = event[d][s] \/ (d = c /\ s = status)
        BY <2>1, <2>3
      <3>3. QED
        BY <2>1, <3>1, <3>2
    <2>4. QED
      BY <1>1, <2>2, <2>3
  <1>3. \A d \in Checkouts :
           /\ order[d] # "none" => order'[d] # "none"
           /\ order'[d] = "paid" => order[d] = "paid" \/ intent[d] = "captured"
    BY <1>1 DEF IInv, TypeOK, OrderOK
  <1>4. TypeOK'
    <2>1. order' \in [Checkouts -> OrderStatuses]
      BY <1>1, TableTypes DEF OrderStatuses
    <2>2. processed' \subseteq Checkouts \X Published
      BY <1>1 DEF IInv, TypeOK
    <2>3. QED
      BY <1>1, <1>2, <2>1, <2>2 DEF IInv, TypeOK
  <1>5. ASSUME NEW d \in Checkouts PROVE OrderOK(d)'
    BY <1>1, <1>2, <1>3 DEF IInv, OrderOK, Published
  <1>6. Grows
    BY <1>1, <1>3 DEF Grows
  <1>7. ASSUME NEW t \in Tabs PROVE TabOK(t)'
    BY <1>1, <1>6, TruthStays
  <1>8. ASSUME NEW d \in Checkouts, NEW op \in Ops PROVE KeyOK(d, op)'
    BY <1>1, <1>6 DEF IInv, KeyOK, AnswerTrue, Grows
  <1>9. QED
    BY <1>4, <1>5, <1>7, <1>8 DEF IInv

(* Every step preserves the invariant. *)
LEMMA NextInv == IInv /\ [Next]_vars => IInv'
  <1> SUFFICES ASSUME IInv, [Next]_vars PROVE IInv'
    OBVIOUS
  <1>1. ASSUME NEW t \in Tabs, NEW c \in Checkouts, NEW number \in Cards,
               SubmitDetails(t, c) \/ Pay(t, c, number)
        PROVE  IInv'
    BY <1>1, SubmitDetailsInv, PayInv
  <1>2. ASSUME NEW t \in Tabs,
               FindOrCreateOrder(t) \/ Link(t) \/ Call(t) \/ CallFails(t) \/ ShopDies(t)
        PROVE  IInv'
    BY <1>2, FindOrCreateOrderInv, LinkInv, CallInv, CallFailsInv, ShopDiesInv
  <1>3. ASSUME NEW c \in Checkouts, NEW op \in Ops,
               Serve(c, op) \/ GatewayDies(c, op) \/ FreesKey(c, op)
        PROVE  IInv'
    BY <1>3, ExecuteInv, QuietInv, RespondInv, GatewayDiesInv DEF Serve
  <1>4. ASSUME NEW c \in Checkouts, Expire(c) PROVE IInv'
    BY <1>4, ExpireInv
  <1>5. ASSUME NEW c \in Checkouts, NEW status \in Published, Handle(c, status)
        PROVE  IInv'
    BY <1>5, HandleInv
  <1>6. ASSUME NEW t \in Tabs, NEW c \in Checkouts, SubmitDetails(t, c) PROVE IInv'
    BY <1>6, SubmitDetailsInv
  <1>7. CASE UNCHANGED vars
    BY <1>7 DEF vars, IInv, TypeOK, OrderOK, KeyOK, TabOK, AnswerTrue
  <1>8. QED
    BY <1>1, <1>2, <1>3, <1>4, <1>5, <1>6, <1>7 DEF Next
-----------------------------------------------------------------------------
(***************************************************************************)
(* The inductive invariant always holds: answers and pages say no more     *)
(* than what has come of the intent (IdempotencyKey, Checkout.pay).        *)
(***************************************************************************)
THEOREM Invariance == Spec => []IInv
  BY InitInv, NextInv, PTL DEF Spec

(* The variables always hold values of their types. *)
THEOREM TypeCorrectness == Spec => []TypeOK
  <1>1. IInv => TypeOK
    BY DEF IInv
  <1>2. QED
    BY <1>1, Invariance, PTL

(***************************************************************************)
(* "No charge was made" and the order page are shown truthfully, for any   *)
(* number of tabs, orders and retries (PaymentsController.create).         *)
(***************************************************************************)
THEOREM PagesTellTheTruth == Spec => []NoticesAreTrue
  <1>1. IInv => NoticesAreTrue
    BY DEF IInv, TabOK, NoticesAreTrue
  <1>2. QED
    BY <1>1, Invariance, PTL
-----------------------------------------------------------------------------
MoneyOf == [c \in Checkouts |-> Money(c)]

LEMMA StartsAsSale == Init => SaleOf!Init
  BY DEF Init, SaleOf!Init, Money

(* The intent of one order moves on, as money that moves. *)
LEMMA MoneyMoves ==
    ASSUME IInv, NEW c \in Checkouts, NEW to \in Statuses \ {"none"}, Becomes(c, to),
           NEW m, m = Money(c)'
    PROVE  intent'[c] = to /\ MoneyOf' = [MoneyOf EXCEPT ![c] = m]
  <1>1. /\ intent'[c] = to
        /\ \A d \in Checkouts : d # c => intent'[d] = intent[d]
    BY DEF Becomes, IInv, TypeOK
  <1>2. ASSUME NEW d \in Checkouts, d # c PROVE Money(d)' = Money(d)
    BY <1>1, <1>2 DEF Money
  <1>3. MoneyOf' = [d \in Checkouts |-> IF d = c THEN m ELSE MoneyOf[d]]
    BY <1>2 DEF MoneyOf
  <1>4. QED
    BY <1>1, <1>3 DEF MoneyOf

LEMMA StepIsSale ==
    IInv /\ [Next]_vars => [SaleOf!Next]_<<order, MoneyOf>>
  <1> SUFFICES ASSUME IInv, [Next]_vars
               PROVE  SaleOf!Next \/ UNCHANGED <<order, MoneyOf>>
    OBVIOUS
  <1>1. CASE UNCHANGED <<order, intent>>
    BY <1>1 DEF MoneyOf, Money
  <1>2. ASSUME NEW t \in Tabs, FindOrCreateOrder(t), order' # order
        PROVE  SaleOf!Next
    <2>1. PICK c \in Checkouts : c = tab[t].checkout
      BY <1>2 DEF FindOrCreateOrder, IInv, TabOK
    <2>2. SaleOf!Place(c)
      BY <1>2, <2>1 DEF FindOrCreateOrder, SaleOf!Place, SaleOf!Move, Money
    <2>3. QED
      BY <2>2 DEF SaleOf!Next
  <1>3. ASSUME NEW c \in Checkouts, NEW op \in Ops, Execute(c, op)
        PROVE  SaleOf!Next \/ UNCHANGED <<order, MoneyOf>>
    <2>1. PICK to : to = LeadsTo(op, key[c][op].token)
      OBVIOUS
    <2>2. /\ to \in Statuses \ {"none"} /\ Becomes(c, to) /\ order' = order
          /\ op = "create" => to = "created" /\ intent[c] = "none"
          /\ op = "confirm" => to \in {"authorized", "failed"} /\ intent[c] = "created"
          /\ op = "capture" => to = "captured" /\ intent[c] = "authorized"
      BY <1>3, <2>1 DEF Execute, LeadsTo, Needs, Statuses, Published, Ops
    <2>3. order[c] = "pending" \/ intent[c] = "none"
      BY <2>2 DEF IInv, TypeOK, OrderOK, OrderStatuses, Ops
    <2>4. PICK m : m = Money(c)'
      OBVIOUS
    <2>5. /\ intent'[c] = to /\ MoneyOf' = [MoneyOf EXCEPT ![c] = m]
          /\ MoneyOf[c] = Money(c)
      BY <2>2, <2>4, MoneyMoves DEF MoneyOf
    <2>6. CASE op = "create"
      <3>1. m = MoneyOf[c]
        BY <2>2, <2>4, <2>5, <2>6 DEF Money
      <3>2. MoneyOf' = MoneyOf
        BY <2>5, <3>1 DEF MoneyOf
      <3>3. QED
        BY <2>2, <3>2
    <2>7. CASE op = "confirm"
      <3>1. m \in {"held", "refused"} /\ MoneyOf[c] = "none"
        BY <2>2, <2>4, <2>5, <2>7 DEF Money
      <3>2. SaleOf!Hold(c) \/ SaleOf!Refuse(c)
        BY <2>2, <2>3, <2>5, <2>7, <3>1
           DEF SaleOf!Hold, SaleOf!Refuse, SaleOf!Move, MoneyOf
      <3>3. QED
        BY <3>2 DEF SaleOf!Next
    <2>8. CASE op = "capture"
      <3>1. m = "charged" /\ MoneyOf[c] = "held"
        BY <2>2, <2>4, <2>5, <2>8 DEF Money
      <3>2. SaleOf!Charge(c)
        BY <2>2, <2>3, <2>5, <2>8, <3>1 DEF SaleOf!Charge, SaleOf!Move, MoneyOf
      <3>3. QED
        BY <3>2 DEF SaleOf!Next
    <2>9. QED
      BY <2>6, <2>7, <2>8 DEF Ops
  <1>4. ASSUME NEW c \in Checkouts, Expire(c) PROVE SaleOf!Next
    <2>1. PICK m : m = Money(c)'
      OBVIOUS
    <2>2. /\ intent'[c] = "failed" /\ MoneyOf' = [MoneyOf EXCEPT ![c] = m]
          /\ MoneyOf[c] = Money(c) /\ order' = order
          /\ intent[c] \in {"created", "authorized"}
      BY <1>4, <2>1, MoneyMoves DEF Expire, MoneyOf, Statuses, Published
    <2>3. m = "refused" /\ MoneyOf[c] \in {"none", "held"}
      BY <2>1, <2>2 DEF Money
    <2>4. SaleOf!Refuse(c)
      BY <2>2, <2>3 DEF SaleOf!Refuse, SaleOf!Move, MoneyOf
    <2>5. QED
      BY <2>4 DEF SaleOf!Next
  <1>5. ASSUME NEW c \in Checkouts, NEW status \in Published, Handle(c, status),
               order' # order
        PROVE  SaleOf!Next
    <2>1. /\ status = "captured" /\ event[c]["captured"] # "none"
          /\ order' = [order EXCEPT ![c] = "paid"] /\ intent' = intent
      BY <1>5 DEF Handle, MarksPaid
    <2>2. intent[c] = "captured" /\ order[c] \in {"pending", "paid"}
      BY <2>1 DEF IInv, TypeOK, OrderOK, OrderStatuses
    <2>3. order[c] # "paid"
      BY <1>5, <2>1 DEF IInv, TypeOK
    <2>4. SaleOf!Acknowledge(c)
      BY <2>1, <2>2, <2>3 DEF SaleOf!Acknowledge, SaleOf!Move, Money
    <2>5. QED
      BY <2>4 DEF SaleOf!Next
  <1>6. \/ UNCHANGED <<order, intent>>
        \/ \E t \in Tabs : FindOrCreateOrder(t) /\ order' # order
        \/ \E c \in Checkouts, op \in Ops : Execute(c, op)
        \/ \E c \in Checkouts : Expire(c)
        \/ \E c \in Checkouts, status \in Published : Handle(c, status) /\ order' # order
    BY DEF Next, vars, SubmitDetails, Pay, FindOrCreateOrder, Link, Call, CallFails,
           ShopDies, Serve, Reject, Break, Respond, GatewayDies, FreesKey, Handle
  <1>7. QED
    BY <1>1, <1>2, <1>3, <1>4, <1>5, <1>6

(***************************************************************************)
(* The shop with the gateway implements a sale, for any number of orders,  *)
(* tabs and cards and whatever fails: charged at most once, only while     *)
(* open, paid only because charged.                                        *)
(***************************************************************************)
THEOREM Refinement == Spec => ImplementsSale
  <1>1. IInv /\ [Next]_vars => [SaleOf!Next]_<<order, [c \in Checkouts |-> Money(c)]>>
    BY StepIsSale DEF MoneyOf
  <1>2. QED
    BY <1>1, StartsAsSale, Invariance, PTL DEF Spec, ImplementsSale, SaleOf!Spec

(***************************************************************************)
(* No token comes of a mistyped test card, whatever the buyers type: no    *)
(* slip on such a card's number passes the checksum (tokens.go, luhnValid).*)
(***************************************************************************)
THEOREM MistypedCardsNeverPay == Spec => []MistypedCardsRefused
  <1>1. MistypedCardsRefused
    BY NoSlipAccepted DEF MistypedCardsRefused
  <1>2. QED
    BY <1>1, PTL
=============================================================================
