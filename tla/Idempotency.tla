---------------------------- MODULE Idempotency ----------------------------
(***************************************************************************)
(* The idempotency wrapper around every money-mutating POST of NemPay      *)
(* (internal/httpapi/idempotency.go), with the two housekeeping sweeps of  *)
(* the worker (internal/service/idempotency.go).                           *)
(*                                                                         *)
(* A call is one HTTP request of one merchant, sent once; a retry is       *)
(* another call with the same key.  Its hash is its fingerprint: method,   *)
(* URI and body, hence the operation it asks for.  The claim, the handler's *)
(* own transaction and the write-back are separate commits, so a crash may *)
(* fall between any two of them.                                           *)
(*                                                                         *)
(* The handler is seen from here as what it does to the state it guards:   *)
(* a (well-formed) creation takes effect on every execution; a move of an  *)
(* intent (confirm, capture, release, refund) is refused in the wrong      *)
(* state, in particular after it has taken effect once.                    *)
(***************************************************************************)
EXTENDS FiniteSets

CONSTANTS
    Calls,      \* HTTP requests
    Keys,       \* idempotency keys of one merchant
    Creations,  \* fingerprints of POST /v1/payment_intents
    Moves,      \* fingerprints of the operations on an intent
    Nil,
    Slow,       \* the calls whose handler may outlive the orphan cutoff (5 min)
    Faults      \* subset of {"db", "crash"}

Hashes == Creations \cup Moves

(* A claim is identified by the call that inserted it.  response is the    *)
(* call whose answer is stored, old that the row is past the cutoff of the *)
(* sweep for its status.                                                   *)
Rows == [id : Calls, hash : Hashes, status : {"in_flight", "completed"},
         response : Calls \cup {Nil}, old : BOOLEAN]

ASSUME IdempotencyAssumption ==
    /\ Creations \cap Moves = {}
    /\ Nil \notin Calls \cup Keys \cup Hashes \cup Rows
    /\ Slow \subseteq Calls
    /\ Faults \subseteq {"db", "crash"}

VARIABLES
    rows,   \* [Keys -> Rows \cup {Nil}]: the table idempotency_keys
    call,   \* [Calls -> CallStates]: what each request is doing
    done    \* [Hashes -> SUBSET Calls]: the calls whose execution took effect

vars == <<rows, call, done>>

(***************************************************************************)
(* new: not sent; claim, lookup: about to insert the claim, or to read the *)
(* one that is there; run: the handler has not committed; ran, refused,    *)
(* broke: it has returned with a 2xx, a 4xx or a 5xx (or a panic), the     *)
(* claim is not written back; answered; dead: the process died.            *)
(***************************************************************************)
Executing == {"run", "ran", "refused", "broke"}
Answers == {"ok", "rejected", "in_flight", "key_reused", "error"}

CallStates ==
    [pc : {"new", "claim", "lookup", "answered", "dead"} \cup Executing,
     key : Keys \cup {Nil}, hash : Hashes \cup {Nil},
     answer : Answers \cup {Nil}, from : Calls \cup {Nil}]

Unsent == [pc |-> "new", key |-> Nil, hash |-> Nil, answer |-> Nil, from |-> Nil]

Running(c) == call[c].pc \in Executing

(* c is answered; from is the call whose stored response it is given. *)
WithAnswer(x, answer, from) ==
    [x EXCEPT !.pc = "answered", !.answer = answer, !.from = from]

Answered(c, answer, from) ==
    [call EXCEPT ![c] = WithAnswer(@, answer, from)]

At(c, pc) == [call EXCEPT ![c].pc = pc]
-----------------------------------------------------------------------------
(* The client calls; body and key are read before anything is stored. *)
Send(c) ==
    /\ call[c].pc = "new"
    /\ \E k \in Keys, h \in Hashes :
        call' = [call EXCEPT ![c] = [@ EXCEPT !.pc = "claim", !.key = k,
                                              !.hash = h]]
    /\ UNCHANGED <<rows, done>>

(* Seeded bug: an upsert that takes over a claim in flight. *)
Unclaimed_TakesOver(k) == rows[k] # Nil => rows[k].status = "in_flight"

(* UNIQUE (merchant_id, idem_key): there is no row for the key. *)
Unclaimed(k) == rows[k] = Nil

(* The INSERT commits; if its acknowledgement is lost the call gives up. *)
Claim(c) ==
    /\ call[c].pc = "claim"
    /\ Unclaimed(call[c].key)
    /\ rows' = [rows EXCEPT ![call[c].key] =
                  [id |-> c, hash |-> call[c].hash, status |-> "in_flight",
                   response |-> Nil, old |-> FALSE]]
    /\ \/ call' = At(c, "run")
       \/ "db" \in Faults /\ call' = Answered(c, "error", Nil)
    /\ UNCHANGED done

LosesClaim(c) ==
    /\ call[c].pc = "claim"
    /\ ~Unclaimed(call[c].key)
    /\ call' = At(c, "lookup")
    /\ UNCHANGED <<rows, done>>

(* Seeded bug: the fingerprint is not compared. *)
Reused_Never(c) == call[c].pc # "lookup"

Reused(c) == rows[call[c].key].hash # call[c].hash

(* The claim may be gone by now (released or swept): no row is an error. *)
Lookup(c) ==
    LET row == rows[call[c].key]
    IN  /\ call[c].pc = "lookup"
        /\ call' = CASE row = Nil                -> Answered(c, "error", Nil)
                     [] row # Nil /\ Reused(c)   -> Answered(c, "key_reused", Nil)
                     [] row # Nil /\ ~Reused(c) /\ row.status = "in_flight" ->
                            Answered(c, "in_flight", Nil)
                     [] OTHER ->
                            Answered(c, call[row.response].answer, row.response)
        /\ UNCHANGED <<rows, done>>
-----------------------------------------------------------------------------
(* The handler commits, the operation takes effect; the acknowledgement of *)
(* the commit may be lost, and the handler then reports a 5xx.             *)
Apply(c) ==
    LET h == call[c].hash
    IN  /\ call[c].pc = "run"
        /\ h \in Moves => done[h] = {}
        /\ done' = [done EXCEPT ![h] = @ \cup {c}]
        /\ \/ call' = At(c, "ran")
           \/ "db" \in Faults /\ call' = At(c, "broke")
        /\ UNCHANGED rows

(* The intent's state refuses the operation: a 4xx, which is final. *)
Refuse(c) ==
    /\ call[c].pc = "run"
    /\ call[c].hash \in Moves
    /\ call' = At(c, "refused")
    /\ UNCHANGED <<rows, done>>

(* It fails without effect: a 5xx (the bank timed out, ...) or a panic. *)
Break(c) ==
    /\ call[c].pc = "run"
    /\ call' = At(c, "broke")
    /\ UNCHANGED <<rows, done>>

(* Seeded bug: the update finds its row by the key. *)
Mine_ByKey(c) == rows[call[c].key] # Nil /\ Running(c)

(* The row this call inserted, WHERE id = $1, if it is still there. *)
Mine(c) == rows[call[c].key] # Nil /\ rows[call[c].key].id = c

(* The client is answered and a final response is stored; an error of the  *)
(* update is ignored.                                                      *)
Complete(c) ==
    /\ call[c].pc \in {"ran", "refused"}
    /\ \/ rows' = [rows EXCEPT ![call[c].key] =
                     IF Mine(c) THEN [@ EXCEPT !.status = "completed",
                                               !.response = c, !.old = FALSE]
                                ELSE @]
       \/ "db" \in Faults /\ UNCHANGED rows
    /\ call' = Answered(c, IF call[c].pc = "ran" THEN "ok" ELSE "rejected", c)
    /\ UNCHANGED done

(* Seeded bug: a 5xx is stored under a status the table does not know. *)
Release_MarksFailed(c) ==
    /\ call[c].pc = "broke"
    /\ rows' = [rows EXCEPT ![call[c].key] =
                  IF Mine(c) THEN [@ EXCEPT !.status = "failed"] ELSE @]
    /\ call' = Answered(c, "error", Nil)
    /\ UNCHANGED done

(* The claim of a 5xx or a panic is released; an error is ignored. *)
Release(c) ==
    /\ call[c].pc = "broke"
    /\ \/ rows' = [rows EXCEPT ![call[c].key] = IF Mine(c) THEN Nil ELSE @]
       \/ "db" \in Faults /\ UNCHANGED rows
    /\ call' = Answered(c, "error", Nil)
    /\ UNCHANGED done

(* The wrapper's own statement fails before the handler runs. *)
Fail(c) ==
    /\ "db" \in Faults
    /\ call[c].pc \in {"claim", "lookup"}
    /\ call' = Answered(c, "error", Nil)
    /\ UNCHANGED <<rows, done>>

(* The process that serves c dies. *)
Crash(c) ==
    /\ "crash" \in Faults
    /\ call[c].pc \notin {"new", "answered", "dead"}
    /\ call' = At(c, "dead")
    /\ UNCHANGED <<rows, done>>
-----------------------------------------------------------------------------
(* Time passes: the cutoff is longer than a handler runs, if not Slow. *)
Age(k) ==
    /\ rows[k] # Nil
    /\ ~rows[k].old
    /\ rows[k].status = "in_flight" /\ rows[k].id \notin Slow
           => ~Running(rows[k].id)
    /\ rows' = [rows EXCEPT ![k].old = TRUE]
    /\ UNCHANGED <<call, done>>

(* Seeded bugs: the sweep looks for rows that have completed; it does not *)
(* look at the age of a claim.                                            *)
Orphans_Completed ==
    {k \in Keys : rows[k] # Nil /\ rows[k].status = "completed" /\ rows[k].old}

Orphans_Fresh == {k \in Keys : rows[k] # Nil /\ rows[k].status = "in_flight"}

Orphans ==
    {k \in Keys : rows[k] # Nil /\ rows[k].status = "in_flight" /\ rows[k].old}

Expired ==
    {k \in Keys : rows[k] # Nil /\ rows[k].status = "completed" /\ rows[k].old}

Delete(ks) == rows' = [k \in Keys |-> IF k \in ks THEN Nil ELSE rows[k]]

ResetOrphans ==
    Orphans # {} /\ Delete(Orphans) /\ UNCHANGED <<call, done>>

ExpireCompleted ==
    Expired # {} /\ Delete(Expired) /\ UNCHANGED <<call, done>>
-----------------------------------------------------------------------------
Init ==
    /\ rows = [k \in Keys |-> Nil]
    /\ call = [c \in Calls |-> Unsent]
    /\ done = [h \in Hashes |-> {}]

Step(c) ==
    \/ Claim(c) \/ LosesClaim(c) \/ Lookup(c)
    \/ Apply(c) \/ Refuse(c) \/ Break(c) \/ Complete(c) \/ Release(c)

Next ==
    \/ \E c \in Calls : Send(c) \/ Step(c) \/ Fail(c) \/ Crash(c)
    \/ \E k \in Keys : Age(k)
    \/ ResetOrphans \/ ExpireCompleted

Spec == Init /\ [][Next]_vars

(* A request is served, time passes and the worker's ticker ticks. *)
Fairness ==
    /\ \A c \in Calls : WF_vars(Step(c))
    /\ \A k \in Keys : WF_vars(Age(k))
    /\ WF_vars(ResetOrphans)

FairSpec == Spec /\ Fairness
-----------------------------------------------------------------------------
(* The variables hold values of their types. *)
TypeOK ==
    /\ rows \in [Keys -> Rows \cup {Nil}]
    /\ call \in [Calls -> CallStates]
    /\ done \in [Hashes -> SUBSET Calls]

(***************************************************************************)
(* Two requests with one key never run their handlers at the same time, if *)
(* these end within the orphan cutoff, whatever slower ones do             *)
(* (WithIdempotency: the UNIQUE constraint arbitrates; SweepOrphanedKeys:  *)
(* a running request is never swept out from under itself).                *)
(***************************************************************************)
OneExecutionAtATime ==
    \A c, d \in Calls \ Slow :
        c # d /\ Running(c) /\ Running(d) => call[c].key # call[d].key

(***************************************************************************)
(* Whoever is answered from the table gets the final answer of a call with *)
(* its own key and fingerprint, even when claims are swept under running   *)
(* handlers and re-claimed: a late write-back never stamps another claim   *)
(* (MarkCompleted is scoped by the row's id).                              *)
(***************************************************************************)
ReplayIsOriginal ==
    \A c \in Calls :
        LET d == call[c].from
        IN  d # Nil =>
                /\ call[d].key = call[c].key /\ call[d].hash = call[c].hash
                /\ call[d].from = d /\ call[d].answer = call[c].answer

(***************************************************************************)
(* Nothing takes effect under a key whose final answer is remembered: a    *)
(* client that was told ok and retries gets the same ok and no second      *)
(* effect, until the key expires after its lifetime.  A handler that       *)
(* outlives the orphan cutoff is the exception: its claim may be gone.     *)
(***************************************************************************)
RememberedOnce ==
    [][\A h \in Hashes : \A c \in (done'[h] \ done[h]) \ Slow :
          LET row == rows[call[c].key]
          IN  row # Nil => row.status = "in_flight"]_vars

(* A crash never wedges a key: a claim in flight is completed or freed. *)
KeyNeverWedged ==
    \A k \in Keys, c \in Calls :
        rows[k] # Nil /\ rows[k].status = "in_flight" /\ rows[k].id = c
            ~> rows[k] = Nil \/ rows[k].status = "completed" \/ rows[k].id # c

============================================================================
