--------------------------- MODULE PaymentIntents ---------------------------
(***************************************************************************)
(* The money path of the NemPay gateway: the payment-intent service        *)
(* (internal/service/money.go, payment_intent.go) as API requests and      *)
(* worker sweeps run it, concurrently, over PostgreSQL and the bank.       *)
(*                                                                         *)
(* A proc is one goroutine with one database transaction at a time: an API *)
(* request (Confirm, Capture, Refund, Release), the settle sweep of a      *)
(* worker or its expiry sweep.  A transaction                              *)
(*   - row-locks its intent (FOR UPDATE) and validates what it reads,      *)
(*   - calls the bank while it holds that lock (Confirm, Capture),         *)
(*   - get-or-creates its ledger accounts one by one; each upsert locks    *)
(*     the account's row until the transaction ends,                       *)
(*   - posts, updates the status and emits the event, and commits.         *)
(* Nothing it writes is visible before the commit, so the writes are one   *)
(* step; the lock acquisitions and the bank call are steps of their own.   *)
(***************************************************************************)
EXTENDS StateMachine, Ledger, Sequences, FiniteSets

CONSTANTS
    Intents,        \* payment intents of one merchant in one currency
    Payees,         \* payees of escrow intents
    Nil,            \* SQL NULL, Go nil
    CreateInputs,   \* what POST /payment_intents may be called with
    RefundAmounts,  \* what POST .../refund may be called with
    Requests,       \* API request goroutines
    Settlers,       \* settle loops, one per worker process
    Expirers,       \* expiry loops, one per worker process
    SweepBatch,     \* rows one sweep lists at most (sweepBatch, 100)
    Faults,         \* which faults may occur, see FaultKinds
    MaxBankCalls    \* the bank's counters saturate here

Procs == Requests \cup Settlers \cup Expirers
Sweepers == Settlers \cup Expirers

(***************************************************************************)
(* bank:  a bank call times out, whether or not the bank acted on it       *)
(* db:    a statement fails, or a commit's acknowledgement is lost         *)
(* crash: a goroutine's process dies                                       *)
(***************************************************************************)
FaultKinds == {"bank", "db", "crash"}

ConstantsOK ==
    /\ Requests \cap Sweepers = {} /\ Settlers \cap Expirers = {}
    /\ CreateInputs \subseteq [escrow : BOOLEAN, amount : Int,
                               payee : Payees \cup {Nil}, fee : Int \cup {Nil}]
    /\ RefundAmounts \subseteq Int
    /\ Faults \subseteq FaultKinds
    /\ SweepBatch \in Nat \ {0} /\ MaxBankCalls \in Nat \ {0}
    /\ Nil \notin Intents \cup Payees \cup Int \cup Statuses

ASSUME PaymentIntentsAssumption == ConstantsOK

VARIABLES
    status, terms, net, outbox, \* what is committed, as in PaymentLifecycle
    aged,         \* [Intents -> BOOLEAN]: updated_at is past a sweep's cutoff
    tx,           \* [Procs -> transaction]: what each goroutine is doing
    due,          \* [Sweepers -> SUBSET Intents]: rest of the pass's list
    bankAuths,    \* [Intents -> 0..MaxBankCalls]: holds the bank placed
    bankCaptures  \* [Intents -> 0..MaxBankCalls]: captures the bank made

rows == <<status, terms, net, outbox, aged>>
bank == <<bankAuths, bankCaptures>>
vars == <<status, terms, net, outbox, aged, tx, due, bankAuths, bankCaptures>>

Lifecycle == INSTANCE PaymentLifecycle

RequestOps == {"confirm", "capture", "refund", "release"}
Ops == RequestOps \cup {"settle", "expire"}
Rejections == {"invalid_amount", "invalid_state", "refund_exceeds_capture",
               "partial_before_settle", "partial_escrow_refund", "skipped"}
Results == Rejections \cup {"ok", "bank_unavailable", "error"}

(***************************************************************************)
(* A goroutine's transaction.  pc: idle, lock (waiting for the intent's    *)
(* row), bank (in the bank call), accounts (locking account rows, then     *)
(* committing), done (ended, with a result).  seen is the status read      *)
(* under the row lock, next the status it will store, got how many         *)
(* account rows it has locked so far.                                      *)
(***************************************************************************)
Transactions ==
    [op : Ops \cup {Nil}, intent : Intents \cup {Nil}, amount : Int,
     pc : {"idle", "lock", "bank", "accounts", "done"},
     seen : Statuses \cup {Nil}, next : Statuses \cup {Nil},
     got : Nat, res : Results \cup {Nil}]

Idle == [op |-> Nil, intent |-> Nil, amount |-> 0, pc |-> "idle",
         seen |-> Nil, next |-> Nil, got |-> 0, res |-> Nil]

Begin(op, i, a) ==
    [Idle EXCEPT !.op = op, !.intent = i, !.amount = a, !.pc = "lock"]

Ended(t, res) ==
    [Begin(tx[t].op, tx[t].intent, tx[t].amount) EXCEPT !.pc = "done",
                                                        !.res = res]

(* t has its intent's row locked. *)
HoldsIntent(t) == tx[t].pc \in {"bank", "accounts"}

(* Seeded bug: the row is read without FOR UPDATE. *)
RowFree_NoLock(t) == tx[t].pc = "lock"

RowFree(t) ==
    \A u \in Procs : HoldsIntent(u) => tx[u].intent # tx[t].intent
-----------------------------------------------------------------------------
(* Seeded bug: an escrow fee may exceed the amount, an amount may be zero. *)
ValidCreate_NoRanges(in) ==
    in.escrow => in.payee # Nil /\ in.fee # Nil /\ in.fee >= 0

(* Creation: one INSERT, after validating the request. *)
ValidCreate(in) ==
    /\ in.amount > 0
    /\ in.escrow => /\ in.payee # Nil
                    /\ in.fee # Nil
                    /\ in.fee >= 0 /\ in.fee <= in.amount

TermsOf(in) ==
    IF in.escrow
    THEN [mode |-> "escrow", amount |-> in.amount, fee |-> in.fee,
          payee |-> in.payee]
    ELSE [mode |-> "direct", amount |-> in.amount, fee |-> Nil, payee |-> Nil]

Create(i) ==
    /\ status[i] = Nil
    /\ \E in \in CreateInputs :
        /\ ValidCreate(in)
        /\ terms' = [terms EXCEPT ![i] = TermsOf(in)]
    /\ status' = [status EXCEPT ![i] = "created"]
    /\ UNCHANGED <<net, outbox, aged, tx, due, bank>>

(* The row's updated_at falls behind the cutoff of the sweep that lists it. *)
Age(i) ==
    /\ status[i] \in {"created", "captured"}
    /\ ~aged[i]
    /\ aged' = [aged EXCEPT ![i] = TRUE]
    /\ UNCHANGED <<status, terms, net, outbox, tx, due, bank>>
-----------------------------------------------------------------------------
(* What each operation makes of the row it has just locked. *)
ConfirmVerdict(i) ==
    LET from == IF /\ status[i] = "created"
                   /\ CanTransition(terms[i].mode, "created",
                                    "requires_confirmation")
                THEN "requires_confirmation" ELSE status[i]
    IN  IF from = "requires_confirmation" THEN "ok" ELSE "invalid_state"

CaptureVerdict(i) ==
    IF CanTransition(terms[i].mode, status[i], "captured")
    THEN "ok" ELSE "invalid_state"

RefundTarget(i, a) ==
    IF a = terms[i].amount THEN "refunded" ELSE "partially_refunded"

EscrowRefundVerdict(i, a) ==
    CASE a # terms[i].amount -> "partial_escrow_refund"
      [] ~CanTransition(terms[i].mode, status[i], "refunded") -> "invalid_state"
      [] OTHER -> "ok"

(* Seeded bug: a refund that only compares amounts, not statuses. *)
DirectRefundVerdict_NoState(i, a) ==
    CASE a > terms[i].amount -> "refund_exceeds_capture"
      [] status[i] \in {"created", "authorized"} -> "invalid_state"
      [] status[i] = "captured" /\ a < terms[i].amount -> "partial_before_settle"
      [] OTHER -> "ok"

DirectRefundVerdict(i, a) ==
    CASE a > terms[i].amount -> "refund_exceeds_capture"
      [] status[i] = "captured" /\ a < terms[i].amount -> "partial_before_settle"
      [] ~CanTransition(terms[i].mode, status[i], RefundTarget(i, a)) ->
            "invalid_state"
      [] OTHER -> "ok"

RefundVerdict(i, a) ==
    IF terms[i].mode = "escrow" THEN EscrowRefundVerdict(i, a)
                                ELSE DirectRefundVerdict(i, a)

ReleaseVerdict(i) ==
    IF /\ CanTransition(terms[i].mode, status[i], "released")
       /\ terms[i].payee # Nil
    THEN "ok" ELSE "invalid_state"

SettleTarget(i) ==
    IF terms[i].mode = "escrow" THEN "held_in_escrow" ELSE "settled"

SettleVerdict(i) ==
    CASE status[i] # "captured" -> "skipped"
      [] ~CanTransition(terms[i].mode, status[i], SettleTarget(i)) ->
            "invalid_state"
      [] OTHER -> "ok"

(* Seeded bug: the expiry does not look again under the lock. *)
ExpireVerdict_NoRecheck(i) == IF status[i] # Nil THEN "ok" ELSE "skipped"

ExpireVerdict(i) ==
    IF CanTransition(terms[i].mode, status[i], "failed")
    THEN "ok" ELSE "skipped"

Verdict(t) ==
    LET i == tx[t].intent
    IN  CASE tx[t].op = "confirm" -> ConfirmVerdict(i)
          [] tx[t].op = "capture" -> CaptureVerdict(i)
          [] tx[t].op = "refund"  -> RefundVerdict(i, tx[t].amount)
          [] tx[t].op = "release" -> ReleaseVerdict(i)
          [] tx[t].op = "settle"  -> SettleVerdict(i)
          [] tx[t].op = "expire"  -> ExpireVerdict(i)

(* The status the operation will store; Confirm's depends on the bank. *)
Target(t) ==
    LET i == tx[t].intent
    IN  CASE tx[t].op = "confirm" -> "authorized"
          [] tx[t].op = "capture" -> "captured"
          [] tx[t].op = "refund"  -> RefundTarget(i, tx[t].amount)
          [] tx[t].op = "release" -> "released"
          [] tx[t].op = "settle"  -> SettleTarget(i)
          [] tx[t].op = "expire"  -> "failed"
-----------------------------------------------------------------------------
(***************************************************************************)
(* The ledger accounts an operation get-or-creates, in the order of the    *)
(* code.  A singleton account is one row per merchant and currency, shared *)
(* by all intents; a per-reference account has one row per reference.      *)
(***************************************************************************)
Singleton(kind) == <<kind, Nil>>
PerRef(kind, ref) == <<kind, ref>>

Fee(i) == IF terms[i].fee = Nil THEN 0 ELSE terms[i].fee

PayableKind(i) ==
    IF terms[i].mode = "escrow" THEN "escrow_liability" ELSE "merchant_payable"

(* Seeded bug: what is owed is one shared account, whatever the mode. *)
Payable_Shared(i) ==
    IF terms[i].mode \in Modes THEN Singleton("merchant_payable") ELSE <<>>

Payable(i) == <<PayableKind(i), IF terms[i].mode = "escrow" THEN i ELSE Nil>>

CaptureAccounts(i) == <<Singleton("acquirer_receivable"), Payable(i)>>

RefundCredit(i, seen) ==
    IF terms[i].mode = "escrow" THEN "segregated_cash"
    ELSE IF seen = "settled" THEN "platform_cash" ELSE "acquirer_receivable"

RefundAccounts(i, seen) == <<Payable(i), Singleton(RefundCredit(i, seen))>>

ReleaseAccounts(i) ==
    <<PerRef("escrow_liability", i), Singleton("segregated_cash"),
      Singleton("platform_cash")>>
    \o (IF terms[i].amount - Fee(i) > 0
        THEN <<PerRef("payable_to_payee", terms[i].payee)>> ELSE <<>>)
    \o (IF Fee(i) > 0 THEN <<Singleton("platform_revenue")>> ELSE <<>>)

(* Seeded bug: escrow funds settle into the platform's own cash. *)
SettleCash_Commingled(i) ==
    IF terms[i].mode \in Modes THEN "platform_cash" ELSE "segregated_cash"

SettleCash(i) ==
    IF terms[i].mode = "escrow" THEN "segregated_cash" ELSE "platform_cash"

SettleAccounts(i) ==
    <<Singleton(SettleCash(i)), Singleton("acquirer_receivable")>>

AccountOrder(t) ==
    LET i == tx[t].intent
    IN  CASE tx[t].op = "capture" -> CaptureAccounts(i)
          [] tx[t].op = "refund"  -> RefundAccounts(i, tx[t].seen)
          [] tx[t].op = "release" -> ReleaseAccounts(i)
          [] tx[t].op = "settle"  -> SettleAccounts(i)
          [] OTHER                -> <<>>

HeldAccounts(t) ==
    IF tx[t].pc = "accounts"
    THEN {AccountOrder(t)[k] : k \in 1..tx[t].got} ELSE {}

WantsAccount(t) ==
    tx[t].pc = "accounts" /\ tx[t].got < Len(AccountOrder(t))

NextAccount(t) == AccountOrder(t)[tx[t].got + 1]

(* PostgreSQL's waits-for graph; a transaction waiting for an intent's row *)
(* holds nothing yet, so only waits for account rows can close a cycle.    *)
WaitsFor(t, u) ==
    t # u /\ WantsAccount(t) /\ NextAccount(t) \in HeldAccounts(u)

(* t is on a cycle: in a set where each waits for one and is waited for. *)
Deadlocked(t) ==
    \E S \in SUBSET Procs :
        /\ t \in S
        /\ \A u \in S : /\ \E v \in S : WaitsFor(u, v)
                       /\ \E v \in S : WaitsFor(v, u)
-----------------------------------------------------------------------------
(* The entries an operation posts. *)
Transfer(debit, credit, x) ==
    [k \in {debit, credit} |-> IF k = debit THEN x ELSE -x]

CaptureEntries(i) ==
    Transfer("acquirer_receivable", PayableKind(i), terms[i].amount)

RefundEntries(i, seen, a) == Transfer(PayableKind(i), RefundCredit(i, seen), a)

(* Seeded bug: the legs of a release are posted even when they are zero. *)
ReleaseEntries_ZeroLegs(i) ==
    [k \in {"escrow_liability", "platform_cash", "segregated_cash",
            "payable_to_payee", "platform_revenue"} |->
        CASE k = "segregated_cash"  -> -terms[i].amount
          [] k = "payable_to_payee" -> Fee(i) - terms[i].amount
          [] k = "platform_revenue" -> -Fee(i)
          [] OTHER                  -> terms[i].amount]

(* All the cash leaves segregation; a leg that would be zero is left out. *)
ReleaseEntries(i) ==
    [k \in {"escrow_liability", "platform_cash", "segregated_cash"}
           \cup (IF terms[i].amount - Fee(i) > 0
                 THEN {"payable_to_payee"} ELSE {})
           \cup (IF Fee(i) > 0 THEN {"platform_revenue"} ELSE {}) |->
        CASE k = "segregated_cash"  -> -terms[i].amount
          [] k = "payable_to_payee" -> Fee(i) - terms[i].amount
          [] k = "platform_revenue" -> -Fee(i)
          [] OTHER                  -> terms[i].amount]

SettleEntries(i) ==
    Transfer(SettleCash(i), "acquirer_receivable", terms[i].amount)

PostingOps == {"capture", "refund", "release", "settle"}

Entries(t) ==
    LET i == tx[t].intent
    IN  CASE tx[t].op = "capture" -> CaptureEntries(i)
          [] tx[t].op = "refund"  -> RefundEntries(i, tx[t].seen, tx[t].amount)
          [] tx[t].op = "release" -> ReleaseEntries(i)
          [] tx[t].op = "settle"  -> SettleEntries(i)

(* PostTransaction refuses a malformed posting and the caller rolls back. *)
PostingAccepted(t) == tx[t].op \in PostingOps => Postable(Entries(t))
-----------------------------------------------------------------------------
(***************************************************************************)
(* The steps of a goroutine.  A request names an intent that exists; a     *)
(* refund of nothing is refused before its transaction begins.             *)
(***************************************************************************)
Request(r, op, i, a) ==
    /\ tx[r].pc = "idle"
    /\ status[i] # Nil
    /\ IF op = "refund" /\ a <= 0
       THEN tx' = [tx EXCEPT ![r] = [Begin(op, i, a) EXCEPT
                                        !.pc = "done", !.res = "invalid_amount"]]
       ELSE tx' = [tx EXCEPT ![r] = Begin(op, i, a)]
    /\ UNCHANGED <<rows, due, bank>>

NextRequest(r) ==
    \E i \in Intents, op \in RequestOps :
        \E a \in IF op = "refund" THEN RefundAmounts ELSE {0} :
            Request(r, op, i, a)

AfterLock(op) == IF op \in {"confirm", "capture"} THEN "bank" ELSE "accounts"

(* SELECT ... FOR UPDATE returns, and the operation judges what it read. *)
LockIntent(t) ==
    /\ tx[t].pc = "lock"
    /\ RowFree(t)
    /\ tx' = [tx EXCEPT ![t] =
                IF Verdict(t) = "ok"
                THEN [tx[t] EXCEPT !.pc = AfterLock(tx[t].op),
                                   !.seen = status[tx[t].intent],
                                   !.next = Target(t)]
                ELSE Ended(t, Verdict(t))]
    /\ UNCHANGED <<rows, due, bank>>

Saturating(n) == IF n < MaxBankCalls THEN n + 1 ELSE n

(* The bank acts on t's call: it places the hold, or captures it. *)
BankActs(t) ==
    LET i == tx[t].intent
    IN  IF tx[t].op = "confirm"
        THEN /\ bankAuths' = [bankAuths EXCEPT ![i] = Saturating(@)]
             /\ UNCHANGED bankCaptures
        ELSE /\ bankCaptures' = [bankCaptures EXCEPT ![i] = Saturating(@)]
             /\ UNCHANGED bankAuths

BankApproves(t) ==
    /\ tx[t].pc = "bank"
    /\ BankActs(t)
    /\ tx' = [tx EXCEPT ![t].pc = "accounts"]
    /\ UNCHANGED <<rows, due>>

(* Only an authorization is ever declined: the walk then ends in failed. *)
BankDeclines(t) ==
    /\ tx[t].pc = "bank" /\ tx[t].op = "confirm"
    /\ tx' = [tx EXCEPT ![t].pc = "accounts", ![t].next = "failed"]
    /\ UNCHANGED <<rows, due, bank>>

(* Seeded bug: a timeout is taken for an approval. *)
BankTimesOut_AsSuccess(t) ==
    /\ "bank" \in Faults
    /\ tx[t].pc = "bank"
    /\ BankActs(t) \/ UNCHANGED bank
    /\ tx' = [tx EXCEPT ![t].pc = "accounts"]
    /\ UNCHANGED <<rows, due>>

(* No answer in time: the bank may have acted, nothing is stored. *)
BankTimesOut(t) ==
    /\ "bank" \in Faults
    /\ tx[t].pc = "bank"
    /\ BankActs(t) \/ UNCHANGED bank
    /\ tx' = [tx EXCEPT ![t] = Ended(t, "bank_unavailable")]
    /\ UNCHANGED <<rows, due>>

LockAccount(t) ==
    /\ WantsAccount(t)
    /\ \A u \in Procs : ~WaitsFor(t, u)
    /\ tx' = [tx EXCEPT ![t].got = @ + 1]
    /\ UNCHANGED <<rows, due, bank>>

(* The status changes and updated_at is now. *)
UpdateIntentStatus(i, to) ==
    /\ status' = [status EXCEPT ![i] = to]
    /\ aged' = [aged EXCEPT ![i] = FALSE]

(* All rows locked and the posting sound: what COMMIT makes visible. *)
Writes(t) ==
    LET i == tx[t].intent
    IN  /\ tx[t].pc = "accounts"
        /\ ~WantsAccount(t)
        /\ PostingAccepted(t)
        /\ net' = IF tx[t].op \in PostingOps
                  THEN [net EXCEPT ![i] = Post(net[i], Entries(t))] ELSE net
        /\ UpdateIntentStatus(i, tx[t].next)
        /\ outbox' = [outbox EXCEPT ![i] =
                        Append(@, Lifecycle!Event(tx[t].next))]
        /\ UNCHANGED <<terms, due, bank>>

Commit(t) == Writes(t) /\ tx' = [tx EXCEPT ![t] = Ended(t, "ok")]

(* The commit takes effect but its acknowledgement is lost. *)
CommitUnacknowledged(t) ==
    /\ "db" \in Faults
    /\ Writes(t)
    /\ tx' = [tx EXCEPT ![t] = Ended(t, "error")]

PostingRefused(t) ==
    tx[t].pc = "accounts" /\ ~WantsAccount(t) /\ ~PostingAccepted(t)

(* A statement fails, or PostTransaction refuses: the transaction rolls back. *)
RollBack(t) ==
    /\ tx[t].pc \in {"lock", "accounts"}
    /\ ~PostingRefused(t) => "db" \in Faults
    /\ tx' = [tx EXCEPT ![t] = Ended(t, "error")]
    /\ UNCHANGED <<rows, due, bank>>

(* Seeded bug: the victim's error is ignored, it waits again as it was. *)
DeadlockAbort_WaitsAgain(t) == Deadlocked(t) /\ UNCHANGED vars

(* PostgreSQL's deadlock detector picks t as the victim of a cycle: its     *)
(* account upsert returns an error and the deferred Rollback frees its rows.*)
DeadlockAbort(t) ==
    /\ Deadlocked(t)
    /\ tx' = [tx EXCEPT ![t] = Ended(t, "error")]
    /\ UNCHANGED <<rows, due, bank>>

(* The process dies: the server rolls its transaction back, nobody answers. *)
Crash(t) ==
    /\ "crash" \in Faults
    /\ tx[t].pc # "idle"
    /\ tx' = [tx EXCEPT ![t] = Idle]
    /\ due' = IF t \in Sweepers THEN [due EXCEPT ![t] = {}] ELSE due
    /\ UNCHANGED <<rows, bank>>

Reply(r) ==
    /\ tx[r].pc = "done"
    /\ tx' = [tx EXCEPT ![r] = Idle]
    /\ UNCHANGED <<rows, due, bank>>
-----------------------------------------------------------------------------
(***************************************************************************)
(* The sweeps.  A tick lists the rows that are due without locking them,   *)
(* then runs one transaction per row of the list; an error ends the pass.  *)
(* Seeded bug: the settle sweep forgets escrow. *)
CapturedBefore_DirectOnly(i) ==
    aged[i] /\ status[i] = "captured" /\ terms[i].mode = "direct"

CapturedBefore(i) == aged[i] /\ status[i] = "captured"

(* Seeded bug: the sweep lists a status by a name that is never stored. *)
StaleBefore_NoCreated(i) == aged[i] /\ status[i] = "requires_confirmation"

StaleBefore(i) == aged[i] /\ status[i] = "created"

Listed(w) ==
    {i \in Intents : IF w \in Settlers THEN CapturedBefore(i) ELSE StaleBefore(i)}

ListDue(w) ==
    /\ tx[w].pc = "idle" /\ due[w] = {}
    /\ \E S \in SUBSET Listed(w) :
        /\ S # {}
        /\ Cardinality(S) <= SweepBatch
        /\ Cardinality(S) < SweepBatch => S = Listed(w)
        /\ due' = [due EXCEPT ![w] = S]
    /\ UNCHANGED <<rows, tx, bank>>

SweepNext(w) ==
    /\ tx[w].pc = "idle"
    /\ \E i \in due[w] :
        tx' = [tx EXCEPT ![w] =
                 Begin(IF w \in Settlers THEN "settle" ELSE "expire", i, 0)]
    /\ UNCHANGED <<rows, due, bank>>

SweepDone(w) ==
    /\ tx[w].pc = "done"
    /\ due' = [due EXCEPT ![w] = IF tx[w].res \in {"ok", "skipped"}
                                 THEN @ \ {tx[w].intent} ELSE {}]
    /\ tx' = [tx EXCEPT ![w] = Idle]
    /\ UNCHANGED <<rows, bank>>
-----------------------------------------------------------------------------
Init ==
    /\ status = [i \in Intents |-> Nil]
    /\ terms  = [i \in Intents |-> Nil]
    /\ net    = [i \in Intents |-> EmptyBooks]
    /\ outbox = [i \in Intents |-> <<>>]
    /\ aged   = [i \in Intents |-> FALSE]
    /\ tx     = [t \in Procs |-> Idle]
    /\ due    = [w \in Sweepers |-> {}]
    /\ bankAuths    = [i \in Intents |-> 0]
    /\ bankCaptures = [i \in Intents |-> 0]

(* One step of a running transaction, apart from faults. *)
Step(t) ==
    \/ LockIntent(t) \/ BankApproves(t) \/ BankDeclines(t)
    \/ LockAccount(t) \/ Commit(t) \/ DeadlockAbort(t)

Fault(t) ==
    BankTimesOut(t) \/ CommitUnacknowledged(t) \/ RollBack(t) \/ Crash(t)

Next ==
    \/ \E i \in Intents : Create(i) \/ Age(i)
    \/ \E t \in Procs : Step(t) \/ Fault(t)
    \/ \E r \in Requests : NextRequest(r) \/ Reply(r)
    \/ \E w \in Sweepers : ListDue(w) \/ SweepNext(w) \/ SweepDone(w)

Spec == Init /\ [][Next]_vars

(***************************************************************************)
(* Fairness.  A running goroutine takes its next step; the bank call ends, *)
(* at the latest with its 2s timeout; a waiter for a row gets it (lock     *)
(* queues are first come first served, hence strong fairness, as the row   *)
(* is free again and again); the deadlock detector runs; the tickers of    *)
(* the sweeps tick and time passes.  Nothing makes a client call, and no   *)
(* fault has to happen.                                                    *)
(***************************************************************************)
Fairness ==
    /\ \A t \in Procs :
        /\ SF_vars(LockIntent(t)) /\ SF_vars(LockAccount(t))
        /\ WF_vars(BankApproves(t) \/ BankDeclines(t) \/ BankTimesOut(t))
        /\ WF_vars(Commit(t)) /\ WF_vars(DeadlockAbort(t))
    /\ \A r \in Requests : WF_vars(Reply(r))
    /\ \A w \in Sweepers :
        WF_vars(ListDue(w)) /\ WF_vars(SweepNext(w)) /\ WF_vars(SweepDone(w))
    /\ \A i \in Intents : WF_vars(Age(i))

FairSpec == Spec /\ Fairness
-----------------------------------------------------------------------------
(* The variables hold values of their types. *)
TypeOK ==
    /\ status \in [Intents -> Statuses \cup {Nil}]
    /\ terms \in [Intents -> Lifecycle!Terms \cup {Nil}]
    /\ net \in [Intents -> [Kinds -> Int]]
    /\ outbox \in [Intents -> Seq(Lifecycle!Events)]
    /\ aged \in [Intents -> BOOLEAN]
    /\ tx \in [Procs -> Transactions]
    /\ due \in [Sweepers -> SUBSET Intents]
    /\ bankAuths \in [Intents -> 0..MaxBankCalls]
    /\ bankCaptures \in [Intents -> 0..MaxBankCalls]

(***************************************************************************)
(* The derived balances due to an intent are always exactly the position   *)
(* its status stands for: no posting is lost, doubled, sent to the wrong   *)
(* account or out of step with the status, whatever runs concurrently and  *)
(* whatever fails (money.go: the posting lands in the same transaction as  *)
(* the status change, under the row lock).                                 *)
(***************************************************************************)
BooksMatchStatus ==
    \A i \in Intents :
        net[i] \in IF status[i] = Nil THEN {EmptyBooks}
                  ELSE Lifecycle!Positions(terms[i], status[i])

(***************************************************************************)
(* The events emitted for an intent are the path its status has travelled: *)
(* each step a legal move, none missing, none twice, the last one the      *)
(* current status (the outbox row commits with the status change).         *)
(***************************************************************************)
StatusBefore(i, k) == IF k = 1 THEN "created" ELSE outbox[i][k - 1].status

OutboxTellsHistory ==
    \A i \in Intents :
        IF status[i] = Nil THEN outbox[i] = <<>>
        ELSE /\ \A k \in 1..Len(outbox[i]) :
                CanMove(terms[i].mode, StatusBefore(i, k), outbox[i][k].status)
             /\ status[i] = StatusBefore(i, Len(outbox[i]) + 1)

(***************************************************************************)
(* The ledger never claims more than the bank did: what is authorized has  *)
(* a hold at the bank, what was captured was captured there, even when     *)
(* calls time out with an unknown outcome and are retried.                 *)
(***************************************************************************)
Captured == {"captured", "settled", "held_in_escrow", "released", "refunded",
             "partially_refunded"}

BankBacksLedger ==
    \A i \in Intents :
        /\ status[i] \in Captured \cup {"authorized"} => bankAuths[i] > 0
        /\ status[i] \in Captured => bankCaptures[i] > 0

(***************************************************************************)
(* The ledger accepts every posting the service builds, at the edges too   *)
(* (a fee of zero, a fee that takes the whole amount, a refund of one).    *)
(***************************************************************************)
PostingsAccepted == \A t \in Procs : ~PostingRefused(t)

(* The concurrent, failing gateway implements the lifecycle it promises. *)
ImplementsLifecycle == Lifecycle!Spec
-----------------------------------------------------------------------------
(***************************************************************************)
(* Every transaction ends: the lock orders of the operations do deadlock   *)
(* across intents, and the detector's victim answers like any other.       *)
(***************************************************************************)
TransactionsEnd ==
    \A t \in Procs : tx[t].pc # "idle" ~> tx[t].pc = "idle"

(***************************************************************************)
(* Only transactions of direct intents deadlock, and only where a capture, *)
(* which locks the asset's account before the payable, meets a refund,     *)
(* which locks them the other way round (money.go): no transaction of an   *)
(* escrow intent is ever a victim, not even one that waits for the shared  *)
(* accounts in the middle of a release.                                    *)
(***************************************************************************)
DeadlocksAreDirect ==
    \A t \in Procs : Deadlocked(t) =>
        /\ terms[tx[t].intent].mode = "direct"
        /\ \E u, v \in Procs : /\ WaitsFor(u, v)
                               /\ tx[u].op = "capture" /\ tx[v].op = "refund"

(***************************************************************************)
(* So, where nothing fails, an escrow intent is captured at the bank once  *)
(* (README: retries must never double-charge); see BankCapturesOnce.       *)
(***************************************************************************)
EscrowCapturedOnce ==
    \A i \in Intents :
        status[i] # Nil /\ terms[i].mode = "escrow" => bankCaptures[i] <= 1

(* Captured funds do not stay in transit: they settle or are refunded. *)
CapturedFundsSettle ==
    \A i \in Intents : status[i] = "captured" ~> status[i] # "captured"

(* An abandoned intent does not linger, even if confirms keep timing out. *)
AbandonedIntentsExpire ==
    \A i \in Intents : status[i] = "created" ~> status[i] # "created"

(***************************************************************************)
(* ListStaleBefore and ExpireStaleIntents exclude authorized intents on    *)
(* purpose: failing one without a bank void would leak its hold.           *)
(***************************************************************************)
AuthorizedNeverExpires ==
    [][\A i \in Intents :
        status[i] = "authorized" => status'[i] # "failed"]_vars

(* Retries must never double-charge: the bank captures an intent once. *)
BankCapturesOnce == \A i \in Intents : bankCaptures[i] <= 1
=============================================================================
