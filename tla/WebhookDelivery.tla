-------------------------- MODULE WebhookDelivery --------------------------
(***************************************************************************)
(* Delivery of the gateway's outbox to the endpoint of one merchant        *)
(* (internal/webhook/deliver.go, db/queries/outbox.sql, cmd/worker).       *)
(*                                                                         *)
(* Two ways lead to deliverRow.  In the worker a dispatcher claims due     *)
(* rows and enqueues one asynq task per row, under the row's id; a task    *)
(* goroutine calls DeliverByID.  An inline processor (ProcessDue) claims   *)
(* rows and delivers them itself, one after the other.  A claim is a       *)
(* lease: the row is due again when it lapses.  Every statement, queue     *)
(* operation and POST commits on its own.                                  *)
(***************************************************************************)
EXTENDS Naturals, FiniteSets

CONSTANTS
    Events,        \* outbox rows of the merchant
    Dispatchers,   \* dispatch loops, one per worker process
    Workers,       \* asynq task goroutines
    Inliners,      \* callers of ProcessDue
    Batch,         \* rows one claim takes at most (100)
    MaxAttempts,   \* attempts before a row is dead (6)
    LeasePosts,    \* POSTs that may time out within a lease (30s / 10s)
    MaxEndpoints,  \* bound on the merchant's active endpoints
    Nil,
    Faults         \* which faults may occur, see FaultKinds

Deliverers == Workers \cup Inliners
Claimers == Dispatchers \cup Inliners

(***************************************************************************)
(* db: a statement fails.  redis: an enqueue fails, or the queue loses its *)
(* data.  shutdown: a worker stops in good order.  crash: a process dies.  *)
(***************************************************************************)
FaultKinds == {"db", "redis", "shutdown", "crash"}

ASSUME WebhookDeliveryAssumption ==
    /\ Workers \cap Claimers = {} /\ Dispatchers \cap Inliners = {}
    /\ Batch \in Nat \ {0} /\ MaxAttempts \in Nat \ {0} /\ LeasePosts \in Nat
    /\ MaxEndpoints \in Nat
    /\ Nil \notin Events
    /\ Faults \subseteq FaultKinds

VARIABLES
    row,        \* [Events -> OutboxRows]: the table outbox
    failures,   \* [Events -> Nat]: failed attempts in webhook_deliveries
    reached,    \* [Events -> SUBSET Outcomes]: history of what a POST found
    endpoints,  \* how many of the merchant's endpoints are active
    task,       \* [Events -> TaskStates]: the asynq task with the row's id
    claimed,    \* [Claimers -> SUBSET snapshots]: rest of the claimed rows
    slow,       \* [Inliners -> Nat]: POSTs that timed out since the claim
    job,        \* [Deliverers -> Jobs]: the row a goroutine is delivering
    lost        \* history: whether the queue has ever lost its data

vars == <<row, failures, reached, endpoints, task, claimed, slow, job, lost>>

OutboxRows == [status : {"none", "pending", "delivered", "dead"},
               attempts : Nat, due : BOOLEAN]

Outcomes == {"accepted", "nobody"}

(* What asynq holds under a task id; archived tasks keep theirs for months. *)
TaskStates == {"none", "queued", "active", "archived"}

Snapshots == [event : Events, attempts : Nat]

(* load: read the row; find: look up the endpoint; then post, log the      *)
(* attempt, mark the row; done: the task's handler has returned.           *)
Jobs == [pc : {"idle", "load", "find", "post", "log", "mark", "done"},
         event : Events \cup {Nil}, attempt : Nat,
         verdict : {"ok", "failed", "nobody", Nil}]

Idle == [pc |-> "idle", event |-> Nil, attempt |-> 0, verdict |-> Nil]

Delivering(w, e) ==
    job[w].event = e /\ job[w].pc \in {"find", "post", "log", "mark"}
-----------------------------------------------------------------------------
NewRow == [status |-> "pending", attempts |-> 0, due |-> TRUE]

(* A money transaction commits with its event (EmitEvent). *)
Emit(e) ==
    /\ row[e].status = "none"
    /\ row' = [row EXCEPT ![e] = NewRow]
    /\ UNCHANGED <<failures, reached, endpoints, task, claimed, slow, job,
                   lost>>

CreateEndpoint ==
    /\ endpoints < MaxEndpoints
    /\ endpoints' = endpoints + 1
    /\ UNCHANGED <<row, failures, reached, task, claimed, slow, job, lost>>

DisableEndpoint ==
    /\ endpoints > 0
    /\ endpoints' = endpoints - 1
    /\ UNCHANGED <<row, failures, reached, task, claimed, slow, job, lost>>

(* p has e in its batch, still to be delivered or being delivered. *)
Holds(p, e) ==
    \/ job[p].event = e
    \/ \E s \in claimed[p] : s.event = e

(***************************************************************************)
(* next_attempt_at passes: a backoff is over or a lease has lapsed.  That  *)
(* takes longer than the POSTs of an inline batch that fit into a lease; a *)
(* task may wait in the queue for any time.                                *)
(***************************************************************************)
BecomesDue(e) ==
    /\ row[e].status # "none" /\ ~row[e].due
    /\ \A p \in Inliners : Holds(p, e) => slow[p] >= LeasePosts
    /\ row' = [row EXCEPT ![e].due = TRUE]
    /\ UNCHANGED <<failures, reached, endpoints, task, claimed, slow, job,
                   lost>>
-----------------------------------------------------------------------------
(* Seeded bugs: the claim does not ask for the status; it takes only rows *)
(* that were never tried.                                                 *)
Due_AnyStatus == {e \in Events : row[e].status # "none" /\ row[e].due}

Due_FirstAttempt ==
    {e \in Events : row[e].status = "pending" /\ row[e].attempts = 0 /\ row[e].due}

Due == {e \in Events : row[e].status = "pending" /\ row[e].due}

(* Seeded bug: the claim does not lease the rows. *)
Lease_None(S) == S \subseteq Events /\ row' = row

Lease(S) == row' = [e \in Events |-> IF e \in S THEN [row[e] EXCEPT !.due = FALSE]
                                                ELSE row[e]]

Claim(p) ==
    /\ claimed[p] = {}
    /\ p \in Inliners => job[p] = Idle
    /\ \E S \in SUBSET Due :
        /\ S # {}
        /\ Cardinality(S) <= Batch
        /\ Cardinality(S) < Batch => S = Due
        /\ Lease(S)
        /\ claimed' = [claimed EXCEPT ![p] =
                         {[event |-> e, attempts |-> row[e].attempts] : e \in S}]
    /\ slow' = IF p \in Inliners THEN [slow EXCEPT ![p] = 0] ELSE slow
    /\ UNCHANGED <<failures, reached, endpoints, task, job, lost>>

(* Seeded bug: tasks are enqueued without the row's id. *)
Taken_Never(e) == task[e] # "none" /\ row[e].status = "none"

(* ErrTaskIDConflict: a task with this id exists, in whatever state. *)
Taken(e) == task[e] # "none"

Enqueue(d) ==
    \E s \in claimed[d] :
        /\ claimed' = [claimed EXCEPT ![d] = @ \ {s}]
        /\ task' = IF Taken(s.event) THEN task
                                     ELSE [task EXCEPT ![s.event] = "queued"]
        /\ UNCHANGED <<row, failures, reached, endpoints, slow, job, lost>>

(* An error of the queue ends the pass; the task may be there all the same. *)
EnqueueFails(d) ==
    /\ "redis" \in Faults
    /\ \E s \in claimed[d] :
        \/ task' = task
        \/ ~Taken(s.event) /\ task' = [task EXCEPT ![s.event] = "queued"]
    /\ claimed' = [claimed EXCEPT ![d] = {}]
    /\ UNCHANGED <<row, failures, reached, endpoints, slow, job, lost>>

TaskStarts(w) ==
    /\ job[w] = Idle
    /\ \E e \in Events :
        /\ task[e] = "queued"
        /\ task' = [task EXCEPT ![e] = "active"]
        /\ job' = [job EXCEPT ![w] = [Idle EXCEPT !.pc = "load", !.event = e]]
    /\ UNCHANGED <<row, failures, reached, endpoints, claimed, slow, lost>>
-----------------------------------------------------------------------------
(***************************************************************************)
(* deliverRow.  An inline processor works on the row as it was claimed, a  *)
(* task reads it now.                                                      *)
(***************************************************************************)
DeliverNext(p) ==
    /\ job[p] = Idle
    /\ \E s \in claimed[p] :
        /\ claimed' = [claimed EXCEPT ![p] = @ \ {s}]
        /\ job' = [job EXCEPT ![p] = [Idle EXCEPT !.pc = "find",
                                       !.event = s.event,
                                       !.attempt = s.attempts + 1]]
    /\ UNCHANGED <<row, failures, reached, endpoints, task, slow, lost>>

(* Seeded bug: DeliverByID does not look at the status. *)
Retired_Unchecked(e) == row[e].status = "none"

Retired(e) == row[e].status # "pending"

Load(w) ==
    LET e == job[w].event
    IN  /\ job[w].pc = "load"
        /\ job' = IF Retired(e) THEN [job EXCEPT ![w].pc = "done"]
                  ELSE [job EXCEPT ![w].pc = "find",
                                   ![w].attempt = row[e].attempts + 1]
        /\ UNCHANGED <<row, failures, reached, endpoints, task, claimed, slow, lost>>

(* With no active endpoint there is nobody to deliver to: the row retires. *)
Find(w) ==
    LET e == job[w].event
    IN  /\ job[w].pc = "find"
        /\ IF endpoints = 0
           THEN /\ job' = [job EXCEPT ![w].pc = "mark", ![w].verdict = "nobody"]
                /\ reached' = [reached EXCEPT ![e] = @ \cup {"nobody"}]
           ELSE /\ job' = [job EXCEPT ![w].pc = "post"]
                /\ UNCHANGED reached
        /\ UNCHANGED <<row, failures, endpoints, task, claimed, slow, lost>>

(* Seeded bug: an HTTP status is taken for the verdict. *)
Verdict_Status(accepted) == IF accepted THEN "200" ELSE "failed"

(* Seeded bug: any answer at all counts as a success. *)
Verdict_AnyAnswer(accepted) == IF accepted THEN "ok" ELSE "ok"

Verdict(accepted) == IF accepted THEN "ok" ELSE "failed"

(* A 2xx is a success; a failed POST may have reached the receiver, too. *)
Post(w) ==
    LET e == job[w].event
    IN  /\ job[w].pc = "post"
        /\ \E accepted \in BOOLEAN :
            /\ job' = [job EXCEPT ![w].pc = "log",
                                  ![w].verdict = Verdict(accepted)]
            /\ \/ reached' = [reached EXCEPT ![e] = @ \cup {"accepted"}]
               \/ ~accepted /\ UNCHANGED reached
            /\ slow' = IF w \in Inliners /\ ~accepted /\ slow[w] < LeasePosts
                       THEN [slow EXCEPT ![w] = @ + 1] ELSE slow
        /\ UNCHANGED <<row, failures, endpoints, task, claimed, lost>>

(* The attempt is logged (failures are counted up to MaxAttempts). *)
Log(w) ==
    LET e == job[w].event
    IN  /\ job[w].pc = "log"
        /\ failures' =
              IF job[w].verdict = "failed" /\ failures[e] < MaxAttempts
              THEN [failures EXCEPT ![e] = @ + 1] ELSE failures
        /\ job' = [job EXCEPT ![w].pc = "mark"]
        /\ UNCHANGED <<row, reached, endpoints, task, claimed, slow, lost>>

(* Seeded bug: the attempts are compared before this one is counted. *)
Exhausted_Early(w) == job[w].attempt >= MaxAttempts - 1

Exhausted(w) == job[w].attempt >= MaxAttempts

(* Seeded bug: a retry does not count the attempt it follows. *)
Marked_Uncounted(w, r) ==
    CASE job[w].verdict # "failed" -> [r EXCEPT !.status = "delivered"]
      [] job[w].verdict = "failed" /\ Exhausted(w) -> [r EXCEPT !.status = "dead"]
      [] OTHER -> [r EXCEPT !.due = FALSE]

(* MarkOutboxDelivered, MarkOutboxDead or MarkOutboxRetry: WHERE id = $1. *)
Marked(w, r) ==
    CASE job[w].verdict # "failed" -> [r EXCEPT !.status = "delivered"]
      [] job[w].verdict = "failed" /\ Exhausted(w) ->
            [r EXCEPT !.status = "dead", !.attempts = @ + 1]
      [] OTHER -> [r EXCEPT !.attempts = @ + 1, !.due = FALSE]

(* A task's handler then returns; an inline processor goes on. *)
AfterRow(w) ==
    IF w \in Workers THEN [job EXCEPT ![w].pc = "done"]
                     ELSE [job EXCEPT ![w] = Idle]

Mark(w) ==
    /\ job[w].pc = "mark"
    /\ row' = [row EXCEPT ![job[w].event] = Marked(w, @)]
    /\ job' = AfterRow(w)
    /\ UNCHANGED <<failures, reached, endpoints, task, claimed, slow, lost>>

(* A statement fails: the row is left as it is, an inline pass ends. *)
Abandon(w) ==
    /\ "db" \in Faults
    /\ job[w].pc \in {"load", "find", "log", "mark"}
    /\ job' = AfterRow(w)
    /\ claimed' = IF w \in Inliners THEN [claimed EXCEPT ![w] = {}] ELSE claimed
    /\ UNCHANGED <<row, failures, reached, endpoints, task, slow, lost>>

(* asynq forgets or requeues a task only if it still lists it as active. *)
TaskBecomes(e, state) ==
    task' = [task EXCEPT ![e] = IF @ = "active" THEN state ELSE @]

(* The handler always returns nil, so asynq forgets the task. *)
Finish(w) ==
    /\ job[w].pc = "done"
    /\ TaskBecomes(job[w].event, "none")
    /\ job' = [job EXCEPT ![w] = Idle]
    /\ UNCHANGED <<row, failures, reached, endpoints, claimed, slow, lost>>
-----------------------------------------------------------------------------
(* A worker that stops in good order puts its task back into the queue. *)
Shutdown(w) ==
    /\ "shutdown" \in Faults
    /\ job[w] # Idle
    /\ TaskBecomes(job[w].event, "queued")
    /\ job' = [job EXCEPT ![w] = Idle]
    /\ UNCHANGED <<row, failures, reached, endpoints, claimed, slow, lost>>

CrashDeliverer(w) ==
    /\ "crash" \in Faults
    /\ job[w] # Idle
    /\ job' = [job EXCEPT ![w] = Idle]
    /\ claimed' = IF w \in Inliners THEN [claimed EXCEPT ![w] = {}] ELSE claimed
    /\ UNCHANGED <<row, failures, reached, endpoints, task, slow, lost>>

CrashClaimer(p) ==
    /\ Faults \cap {"crash", "shutdown"} # {}
    /\ claimed[p] # {}
    /\ p \in Inliners => job[p] = Idle
    /\ claimed' = [claimed EXCEPT ![p] = {}]
    /\ UNCHANGED <<row, failures, reached, endpoints, task, slow, job, lost>>

(* asynq finds a task whose worker is gone.  MaxRetry(0): it has no retry  *)
(* left and is archived.                                                   *)
Recover(e) ==
    /\ task[e] = "active"
    /\ \A w \in Workers : job[w].event # e
    /\ task' = [task EXCEPT ![e] = "archived"]
    /\ UNCHANGED <<row, failures, reached, endpoints, claimed, slow, job, lost>>

(* Redis restarts without its data. *)
LoseQueue ==
    /\ "redis" \in Faults
    /\ task' = [e \in Events |-> "none"]
    /\ task' # task
    /\ lost' = TRUE
    /\ UNCHANGED <<row, failures, reached, endpoints, claimed, slow, job>>
-----------------------------------------------------------------------------
Init ==
    /\ row = [e \in Events |-> [status |-> "none", attempts |-> 0, due |-> FALSE]]
    /\ failures = [e \in Events |-> 0]
    /\ reached = [e \in Events |-> {}]
    /\ endpoints \in 0..MaxEndpoints
    /\ task = [e \in Events |-> "none"]
    /\ claimed = [p \in Claimers |-> {}]
    /\ slow = [p \in Inliners |-> 0]
    /\ job = [w \in Deliverers |-> Idle]
    /\ lost = FALSE

Serve(w) ==
    \/ w \in Workers /\ (TaskStarts(w) \/ Load(w) \/ Finish(w))
    \/ w \in Inliners /\ DeliverNext(w)
    \/ Find(w) \/ Post(w) \/ Log(w) \/ Mark(w)

Environment ==
    \/ \E e \in Events : Emit(e) \/ BecomesDue(e) \/ Recover(e)
    \/ CreateEndpoint \/ DisableEndpoint

Work ==
    \/ \E p \in Claimers : Claim(p)
    \/ \E d \in Dispatchers : Enqueue(d)
    \/ \E w \in Deliverers : Serve(w)

Fault ==
    \/ LoseQueue
    \/ \E p \in Claimers : CrashClaimer(p)
    \/ \E d \in Dispatchers : EnqueueFails(d)
    \/ \E w \in Workers : Shutdown(w)
    \/ \E w \in Deliverers : Abandon(w) \/ CrashDeliverer(w)

Next == Environment \/ Work \/ Fault

Spec == Init /\ [][Next]_vars

(***************************************************************************)
(* Time passes, tickers tick, tasks are started and goroutines go on; and  *)
(* the faults that strike, however many, cease at some time.               *)
(***************************************************************************)
Fairness ==
    /\ \A e \in Events : WF_vars(BecomesDue(e)) /\ WF_vars(Recover(e))
    /\ \A p \in Claimers : WF_vars(Claim(p))
    /\ \A d \in Dispatchers : WF_vars(Enqueue(d))
    /\ \A w \in Deliverers : WF_vars(Serve(w))
    /\ <>[][Environment \/ Work]_vars

FairSpec == Spec /\ Fairness
-----------------------------------------------------------------------------
(* The variables hold values of their types. *)
TypeOK ==
    /\ row \in [Events -> OutboxRows]
    /\ failures \in [Events -> 0..MaxAttempts]
    /\ reached \in [Events -> SUBSET Outcomes]
    /\ endpoints \in 0..MaxEndpoints
    /\ task \in [Events -> TaskStates]
    /\ claimed \in [Claimers -> SUBSET Snapshots]
    /\ slow \in [Inliners -> 0..LeasePosts]
    /\ job \in [Deliverers -> Jobs]
    /\ lost \in BOOLEAN

(***************************************************************************)
(* No two goroutines deliver one row at the same time, however long tasks  *)
(* wait and however often the row is claimed again, unless the queue loses *)
(* its tasks (DeliverByID: prevented by the dispatcher's per-row TaskID;   *)
(* ClaimDueOutbox: leased so that a row isn't re-claimed while its         *)
(* delivery is in flight).                                                 *)
(***************************************************************************)
OneDeliveryAtATime ==
    ~lost => \A e \in Events : \A v, w \in Deliverers :
                Delivering(v, e) /\ Delivering(w, e) => v = w

(***************************************************************************)
(* What is delivered or dead stays so: the Mark statements do not ask for  *)
(* the status they overwrite, and still no late loser revives or buries a  *)
(* row that is settled, unless the queue has lost its tasks.               *)
(***************************************************************************)
RetiredStaysRetired ==
    [][~lost => \A e \in Events :
        row[e].status \in {"delivered", "dead"} =>
            /\ row'[e].status = row[e].status
            /\ row'[e].attempts = row[e].attempts]_vars

(***************************************************************************)
(* A row is given up only after MaxAttempts logged failures, and no row    *)
(* counts an attempt that is not in the delivery log.                      *)
(***************************************************************************)
DeadIsDeserved ==
    ~lost => \A e \in Events :
                /\ row[e].attempts <= failures[e]
                /\ row[e].status = "dead" => failures[e] >= MaxAttempts

(***************************************************************************)
(* No event is lost silently: a row counts as delivered only if a receiver *)
(* has accepted it or the merchant had no endpoint to deliver it to.       *)
(***************************************************************************)
DeliveredIsReceived ==
    \A e \in Events : row[e].status = "delivered" => reached[e] # {}

Settled(e) == row[e].status \in {"delivered", "dead"}

(***************************************************************************)
(* Every event is delivered or given up: nothing stays in the queue for    *)
(* ever (outbox.sql: at-least-once by construction).                       *)
(***************************************************************************)
EveryEventRetired ==
    \A e \in Events : row[e].status = "pending" ~> Settled(e)

(***************************************************************************)
(* However processes stop, crash and lose the queue, an event is delivered *)
(* or given up, unless the process that was delivering it dies and asynq   *)
(* archives its task, where an operator finds it.                          *)
(***************************************************************************)
RetiredOrArchived ==
    \A e \in Events :
        row[e].status = "pending" ~> Settled(e) \/ task[e] = "archived"
=============================================================================
