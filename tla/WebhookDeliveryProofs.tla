----------------------- MODULE WebhookDeliveryProofs -----------------------
(***************************************************************************)
(* Proofs about WebhookDelivery for any number of rows, processes and      *)
(* endpoints and all faults.  Types and the evidence of a delivery need no *)
(* assumption; what the tasks' identity guarantees is proved for the       *)
(* worker, where every row goes through the queue (Inliners = {}), and     *)
(* what the lease guarantees for the inline processors, which share no     *)
(* queue (Dispatchers = {}).                                               *)
(***************************************************************************)
EXTENDS WebhookDelivery, FiniteSetTheorems, TLAPS

(* A busy goroutine has a row, and a verdict that is not a failure is      *)
(* founded on what its POST or its lookup of an endpoint found.            *)
JobOK(w) ==
    LET j == job[w]
    IN  /\ j = Idle \/ (j.pc # "idle" /\ j.event \in Events)
        /\ j.pc \in {"log", "mark"} /\ j.verdict # "failed" =>
              reached[j.event] # {}

RowOK(e) == row[e].status = "delivered" => reached[e] # {}

(* The attempts of a row are logged failures. *)
QueueRow(e) ==
    /\ row[e].attempts <= failures[e]
    /\ row[e].status = "pending" => row[e].attempts < MaxAttempts
    /\ row[e].status = "dead" => failures[e] >= MaxAttempts

(* A worker's task is active, and its row is as the worker has read it. *)
QueueJob(w) ==
    LET j == job[w]
    IN  j # Idle =>
          /\ task[j.event] = "active"
          /\ j.pc \in {"find", "post", "log", "mark"} =>
                /\ row[j.event].status = "pending"
                /\ j.attempt = row[j.event].attempts + 1
          /\ j.pc = "mark" /\ j.verdict = "failed" =>
                failures[j.event] > row[j.event].attempts

(* No two workers have one task. *)
Alone ==
    \A v, w \in Workers :
        job[v] # Idle /\ job[w] # Idle /\ job[v].event = job[w].event => v = w

QueueOK ==
    /\ \A e \in Events : QueueRow(e)
    /\ \A w \in Workers : QueueJob(w)
    /\ Alone

IInv ==
    /\ TypeOK
    /\ \A w \in Deliverers : JobOK(w)
    /\ \A e \in Events : RowOK(e)
    /\ Inliners = {} /\ ~lost => QueueOK
-----------------------------------------------------------------------------
LEMMA InitInv == Init => IInv
  <1> SUFFICES ASSUME Init PROVE IInv
    OBVIOUS
  <1>1. Idle \in Jobs
    BY DEF Idle, Jobs
  <1>2. TypeOK
    <2>1. row \in [Events -> OutboxRows] /\ task \in [Events -> TaskStates]
      BY DEF Init, OutboxRows, TaskStates
    <2>2. failures \in [Events -> 0..MaxAttempts] /\ slow \in [Inliners -> 0..LeasePosts]
      BY WebhookDeliveryAssumption DEF Init
    <2>3. reached \in [Events -> SUBSET Outcomes] /\ claimed \in [Claimers -> SUBSET Snapshots]
      BY DEF Init
    <2>4. QED
      BY <1>1, <2>1, <2>2, <2>3 DEF Init, TypeOK
  <1>3. ASSUME NEW w \in Deliverers PROVE JobOK(w)
    BY DEF Init, JobOK, Idle
  <1>4. ASSUME NEW e \in Events PROVE RowOK(e) /\ QueueRow(e)
    BY DEF Init, RowOK, QueueRow
  <1>5. Alone /\ \A w \in Workers : QueueJob(w)
    BY DEF Init, Alone, QueueJob, Deliverers
  <1>6. QED
    BY <1>2, <1>3, <1>4, <1>5 DEF IInv, QueueOK

(* The goroutine w goes on to j; of the tables, only what is of e changes. *)
Others(w, e) ==
    /\ UNCHANGED <<lost, endpoints>>
    /\ claimed' \in [Claimers -> SUBSET Snapshots]
    /\ slow' \in [Inliners -> 0..LeasePosts]
    /\ row' \in [Events -> OutboxRows]
    /\ failures' \in [Events -> 0..MaxAttempts]
    /\ reached' \in [Events -> SUBSET Outcomes]
    /\ task' \in [Events -> TaskStates]
    /\ \A d \in Events : reached[d] \subseteq reached'[d]
    /\ \A d \in Events : d # e => /\ row'[d] = row[d]
                                  /\ failures'[d] = failures[d]
                                  /\ task'[d] = task[d]

JobStep(w, e, j) == job' = [job EXCEPT ![w] = j] /\ Others(w, e)

(* The row e is w's, as far as tasks tell. *)
Owns(w, e) == \A v \in Workers : v # w /\ job[v] # Idle => job[v].event # e

LEMMA JobFacts ==
    ASSUME IInv, NEW w \in Deliverers, NEW e \in Events, NEW j \in Jobs,
           JobStep(w, e, j)
    PROVE  /\ job' \in [Deliverers -> Jobs] /\ job'[w] = j
           /\ \A v \in Deliverers : v # w => job'[v] = job[v]
  BY DEF JobStep, IInv, TypeOK

LEMMA JobInv ==
    ASSUME IInv, NEW w \in Deliverers, NEW e \in Events, NEW j \in Jobs,
           JobStep(w, e, j), j = Idle \/ j.event = e,
           JobOK(w)', RowOK(e)',
           Inliners = {} /\ ~lost => Owns(w, e) /\ QueueRow(e)' /\ QueueJob(w)'
    PROVE  IInv'
  <1>1. /\ job' \in [Deliverers -> Jobs] /\ job'[w] = j
        /\ \A v \in Deliverers : v # w => job'[v] = job[v]
    BY JobFacts
  <1>2. TypeOK'
    BY <1>1 DEF JobStep, Others, IInv, TypeOK
  <1>3. ASSUME NEW v \in Deliverers PROVE JobOK(v)'
    <2>1. CASE v = w
      BY <2>1
    <2>2. CASE v # w
      <3>1. job'[v] = job[v] /\ JobOK(v)
        BY <1>1, <2>2 DEF IInv
      <3>2. job[v].event \in Events => reached[job[v].event] \subseteq reached'[job[v].event]
        BY DEF JobStep, Others
      <3>3. QED
        BY <3>1, <3>2 DEF JobOK, Idle
    <2>3. QED
      BY <2>1, <2>2
  <1>4. ASSUME NEW d \in Events PROVE RowOK(d)'
    <2>1. CASE d # e
      BY <2>1 DEF JobStep, Others, IInv, RowOK
    <2>2. QED
      BY <2>1
  <1>5. ASSUME Inliners = {}, ~lost' PROVE QueueOK'
    <2>1. Owns(w, e) /\ QueueRow(e)' /\ QueueJob(w)' /\ QueueOK
      BY <1>5 DEF JobStep, Others, IInv
    <2>2. ASSUME NEW d \in Events PROVE QueueRow(d)'
      <3>1. CASE d # e
        BY <2>1, <3>1 DEF JobStep, Others, QueueOK, QueueRow
      <3>2. QED
        BY <2>1, <3>1
    <2>3. ASSUME NEW v \in Workers PROVE QueueJob(v)'
      <3>1. CASE v # w
        <4>1. job'[v] = job[v] /\ QueueJob(v) /\ JobOK(v)
          BY <1>1, <2>1, <3>1 DEF QueueOK, IInv, Deliverers
        <4>2. CASE job[v] = Idle
          BY <4>1, <4>2 DEF QueueJob
        <4>3. CASE job[v] # Idle
          <5>1. job[v].event \in Events /\ job[v].event # e
            BY <2>1, <3>1, <4>1, <4>3 DEF Owns, JobOK
          <5>2. /\ row'[job[v].event] = row[job[v].event]
                /\ failures'[job[v].event] = failures[job[v].event]
                /\ task'[job[v].event] = task[job[v].event]
            BY <5>1 DEF JobStep, Others
          <5>3. QED
            BY <4>1, <5>2 DEF QueueJob
        <4>4. QED
          BY <4>2, <4>3
      <3>2. QED
        BY <2>1, <3>1
    <2>4. Alone'
      <3>1. ASSUME NEW u \in Workers, NEW v \in Workers,
                   job'[u] # Idle, job'[v] # Idle, job'[u].event = job'[v].event
            PROVE  u = v
        <4>1. CASE u # w /\ v # w
          BY <1>1, <2>1, <3>1, <4>1 DEF QueueOK, Alone, Deliverers
        <4>2. CASE u = w /\ v # w
          BY <1>1, <2>1, <3>1, <4>2 DEF Owns, Deliverers
        <4>3. CASE u # w /\ v = w
          BY <1>1, <2>1, <3>1, <4>3 DEF Owns, Deliverers
        <4>4. QED
          BY <4>1, <4>2, <4>3
      <3>2. QED
        BY <3>1 DEF Alone
    <2>5. QED
      BY <2>2, <2>3, <2>4 DEF QueueOK
  <1>6. QED
    BY <1>2, <1>3, <1>4, <1>5 DEF IInv

(* What is known of a goroutine that is busy with e. *)
LEMMA Busy ==
    ASSUME IInv, NEW w \in Deliverers, job[w] # Idle
    PROVE  \E e \in Events :
              /\ job[w].event = e /\ job[w].pc # "idle" /\ job[w] \in Jobs
              /\ JobOK(w) /\ RowOK(e)
              /\ Inliners = {} /\ ~lost =>
                    Owns(w, e) /\ QueueRow(e) /\ QueueJob(w) /\ w \in Workers
  <1>1. job[w] \in Jobs /\ JobOK(w)
    BY DEF IInv, TypeOK
  <1>2. job[w].event \in Events /\ job[w].pc # "idle"
    BY <1>1 DEF JobOK
  <1>3. ASSUME Inliners = {}, ~lost
        PROVE  /\ Owns(w, job[w].event) /\ QueueRow(job[w].event) /\ QueueJob(w)
               /\ w \in Workers
    <2>1. w \in Workers /\ QueueOK
      BY <1>3 DEF IInv, Deliverers
    <2>2. QED
      BY <1>2, <2>1 DEF QueueOK, Alone, Owns
  <1>4. QED
    BY <1>1, <1>2, <1>3 DEF IInv

LEMMA PcsAreBusy ==
    ASSUME NEW w, job[w].pc # "idle" PROVE job[w] # Idle
  BY DEF Idle

LEMMA TaskStartsInv ==
    ASSUME IInv, NEW w \in Workers, TaskStarts(w) PROVE IInv'
  <1>1. PICK e \in Events :
          /\ task[e] = "queued" /\ task' = [task EXCEPT ![e] = "active"]
          /\ job' = [job EXCEPT ![w] = [Idle EXCEPT !.pc = "load", !.event = e]]
    BY DEF TaskStarts
  <1> DEFINE j == [Idle EXCEPT !.pc = "load", !.event = e]
  <1>2. /\ j \in Jobs /\ j.event = e /\ j.pc = "load" /\ j # Idle
        /\ w \in Deliverers
    BY DEF Idle, Jobs, Deliverers
  <1>3. UNCHANGED <<row, failures, reached, endpoints, claimed, slow, lost>>
    BY DEF TaskStarts
  <1>4. task' \in [Events -> TaskStates] /\ task'[e] = "active"
        /\ \A d \in Events : d # e => task'[d] = task[d]
    BY <1>1 DEF IInv, TypeOK, TaskStates
  <1>5. JobStep(w, e, j)
    BY <1>1, <1>3, <1>4 DEF JobStep, Others, IInv, TypeOK
  <1>. HIDE DEF j
  <1>6. job'[w] = j
    BY <1>2, <1>5, JobFacts
  <1>7. JobOK(w)' /\ RowOK(e)'
    BY <1>2, <1>3, <1>6 DEF JobOK, RowOK, IInv
  <1>8. ASSUME Inliners = {}, ~lost PROVE Owns(w, e) /\ QueueRow(e)' /\ QueueJob(w)'
    <2>1. QueueOK
      BY <1>8 DEF IInv
    <2>2. Owns(w, e)
      BY <1>1, <2>1 DEF QueueOK, QueueJob, Owns
    <2>3. QueueRow(e)'
      BY <1>3, <2>1 DEF QueueOK, QueueRow
    <2>4. QueueJob(w)'
      BY <1>2, <1>4, <1>6 DEF QueueJob
    <2>5. QED
      BY <2>2, <2>3, <2>4
  <1>9. QED
    BY <1>2, <1>5, <1>7, <1>8, JobInv

LEMMA DeliverNextInv ==
    ASSUME IInv, NEW p \in Inliners, DeliverNext(p) PROVE IInv'
  <1>1. PICK s \in Snapshots :
          /\ claimed' = [claimed EXCEPT ![p] = @ \ {s}]
          /\ job' = [job EXCEPT ![p] = [Idle EXCEPT !.pc = "find",
                                         !.event = s.event,
                                         !.attempt = s.attempts + 1]]
    BY DEF DeliverNext, IInv, TypeOK, Claimers
  <1>2. PICK e \in Events : e = s.event /\ s.attempts + 1 \in Nat
    BY DEF Snapshots
  <1> DEFINE j == [Idle EXCEPT !.pc = "find", !.event = s.event,
                               !.attempt = s.attempts + 1]
  <1>3. /\ j \in Jobs /\ j.event = e /\ j.pc = "find"
        /\ p \in Deliverers /\ p \in Claimers
    BY <1>2 DEF Idle, Jobs, Deliverers, Claimers
  <1>4. UNCHANGED <<row, failures, reached, endpoints, task, slow, lost>>
    BY DEF DeliverNext
  <1>5. claimed' \in [Claimers -> SUBSET Snapshots]
    BY <1>1 DEF IInv, TypeOK
  <1>6. JobStep(p, e, j)
    BY <1>1, <1>4, <1>5 DEF JobStep, Others, IInv, TypeOK
  <1>. HIDE DEF j
  <1>7. job'[p] = j
    BY <1>3, <1>6, JobFacts
  <1>8. JobOK(p)' /\ RowOK(e)'
    BY <1>3, <1>4, <1>7 DEF JobOK, RowOK, IInv
  <1>9. QED
    BY <1>3, <1>6, <1>8, JobInv

(* The goroutine w goes on with its row, from pc to another. *)
LEMMA LoadInv ==
    ASSUME IInv, NEW w \in Workers, Load(w) PROVE IInv'
  <1>1. w \in Deliverers /\ job[w].pc = "load" /\ job[w] # Idle
    BY DEF Load, Deliverers, Idle
  <1>2. PICK e \in Events :
          /\ job[w].event = e /\ job[w] \in Jobs /\ RowOK(e)
          /\ Inliners = {} /\ ~lost => Owns(w, e) /\ QueueRow(e) /\ QueueJob(w)
    BY <1>1, Busy
  <1>3. UNCHANGED <<row, failures, reached, endpoints, task, claimed, slow, lost>>
    BY DEF Load
  <1>4. row[e].attempts + 1 \in Nat /\ job \in [Deliverers -> Jobs]
    BY DEF IInv, TypeOK, OutboxRows
  <1>5. PICK j \in Jobs :
          /\ job' = [job EXCEPT ![w] = j] /\ j.event = e
          /\ \/ j.pc = "done"
             \/ /\ j.pc = "find" /\ row[e].status = "pending"
                /\ j.attempt = row[e].attempts + 1
    <2>1. CASE Retired(e)
      <3>1. job' = [job EXCEPT ![w] = [job[w] EXCEPT !.pc = "done"]]
        BY <1>1, <1>2, <1>4, <2>1 DEF Load
      <3>2. [job[w] EXCEPT !.pc = "done"] \in Jobs
        BY <1>2 DEF Jobs
      <3>3. QED
        BY <1>2, <3>1, <3>2 DEF Jobs
    <2>2. CASE ~Retired(e)
      <3>1. job' = [job EXCEPT ![w] = [job[w] EXCEPT !.pc = "find",
                                            !.attempt = row[e].attempts + 1]]
        BY <1>1, <1>2, <1>4, <2>2 DEF Load
      <3>2. [job[w] EXCEPT !.pc = "find", !.attempt = row[e].attempts + 1] \in Jobs
        BY <1>2, <1>4 DEF Jobs
      <3>3. QED
        BY <1>2, <2>2, <3>1, <3>2 DEF Jobs, Retired
    <2>3. QED
      BY <2>1, <2>2
  <1>6. JobStep(w, e, j)
    BY <1>3, <1>5 DEF JobStep, Others, IInv, TypeOK
  <1>7. job'[w] = j
    BY <1>1, <1>6, JobFacts
  <1>8. JobOK(w)' /\ RowOK(e)'
    BY <1>2, <1>3, <1>5, <1>7 DEF JobOK, RowOK
  <1>9. Inliners = {} /\ ~lost => Owns(w, e) /\ QueueRow(e)' /\ QueueJob(w)'
    BY <1>1, <1>2, <1>3, <1>5, <1>7 DEF QueueRow, QueueJob
  <1>10. QED
    BY <1>1, <1>5, <1>6, <1>8, <1>9, JobInv

LEMMA FindInv ==
    ASSUME IInv, NEW w \in Deliverers, Find(w) PROVE IInv'
  <1>1. job[w].pc = "find" /\ job[w] # Idle
    BY DEF Find, Idle
  <1>2. PICK e \in Events :
          /\ job[w].event = e /\ job[w] \in Jobs /\ RowOK(e)
          /\ Inliners = {} /\ ~lost => Owns(w, e) /\ QueueRow(e) /\ QueueJob(w)
    BY <1>1, Busy
  <1>3. UNCHANGED <<row, failures, endpoints, task, claimed, slow, lost>>
    BY DEF Find
  <1>4. job \in [Deliverers -> Jobs] /\ reached \in [Events -> SUBSET Outcomes]
    BY DEF IInv, TypeOK
  <1>5. PICK j \in Jobs :
          /\ job' = [job EXCEPT ![w] = j] /\ j.event = e /\ j.attempt = job[w].attempt
          /\ \/ j.pc = "post" /\ reached' = reached
             \/ /\ j.pc = "mark" /\ j.verdict = "nobody"
                /\ reached' = [reached EXCEPT ![e] = @ \cup {"nobody"}]
    <2>1. CASE endpoints = 0
      <3>1. job' = [job EXCEPT ![w] = [job[w] EXCEPT !.pc = "mark", !.verdict = "nobody"]]
            /\ reached' = [reached EXCEPT ![e] = @ \cup {"nobody"}]
        BY <1>2, <1>4, <2>1 DEF Find
      <3>2. [job[w] EXCEPT !.pc = "mark", !.verdict = "nobody"] \in Jobs
        BY <1>2 DEF Jobs
      <3>3. QED
        BY <1>2, <3>1, <3>2 DEF Jobs
    <2>2. CASE endpoints # 0
      <3>1. job' = [job EXCEPT ![w] = [job[w] EXCEPT !.pc = "post"]]
            /\ reached' = reached
        BY <1>2, <1>4, <2>2 DEF Find
      <3>2. [job[w] EXCEPT !.pc = "post"] \in Jobs
        BY <1>2 DEF Jobs
      <3>3. QED
        BY <1>2, <3>1, <3>2 DEF Jobs
    <2>3. QED
      BY <2>1, <2>2
  <1>6. /\ reached' \in [Events -> SUBSET Outcomes]
        /\ \A d \in Events : reached[d] \subseteq reached'[d]
        /\ j.pc = "mark" => reached'[e] # {}
    BY <1>4, <1>5 DEF Outcomes
  <1>7. JobStep(w, e, j)
    BY <1>3, <1>5, <1>6 DEF JobStep, Others, IInv, TypeOK
  <1>8. job'[w] = j
    BY <1>1, <1>7, JobFacts
  <1>9. JobOK(w)' /\ RowOK(e)'
    BY <1>2, <1>3, <1>5, <1>6, <1>8 DEF JobOK, RowOK
  <1>10. Inliners = {} /\ ~lost => Owns(w, e) /\ QueueRow(e)' /\ QueueJob(w)'
    BY <1>1, <1>2, <1>3, <1>5, <1>8 DEF QueueRow, QueueJob
  <1>11. QED
    BY <1>1, <1>5, <1>7, <1>9, <1>10, JobInv

LEMMA PostInv ==
    ASSUME IInv, NEW w \in Deliverers, Post(w) PROVE IInv'
  <1>1. job[w].pc = "post" /\ job[w] # Idle
    BY DEF Post, Idle
  <1>2. PICK e \in Events :
          /\ job[w].event = e /\ job[w] \in Jobs /\ RowOK(e)
          /\ Inliners = {} /\ ~lost => Owns(w, e) /\ QueueRow(e) /\ QueueJob(w)
    BY <1>1, Busy
  <1>3. UNCHANGED <<row, failures, endpoints, task, claimed, lost>>
    BY DEF Post
  <1>4. /\ job \in [Deliverers -> Jobs] /\ reached \in [Events -> SUBSET Outcomes]
        /\ slow \in [Inliners -> 0..LeasePosts]
    BY DEF IInv, TypeOK
  <1>5. PICK accepted \in BOOLEAN :
          /\ job' = [job EXCEPT ![w] = [job[w] EXCEPT !.pc = "log",
                                              !.verdict = Verdict(accepted)]]
          /\ \/ reached' = [reached EXCEPT ![e] = @ \cup {"accepted"}]
             \/ ~accepted /\ reached' = reached
          /\ slow' = IF w \in Inliners /\ ~accepted /\ slow[w] < LeasePosts
                     THEN [slow EXCEPT ![w] = @ + 1] ELSE slow
    BY <1>2, <1>4 DEF Post
  <1>6. PICK j \in Jobs :
          /\ job' = [job EXCEPT ![w] = j] /\ j.event = e /\ j.attempt = job[w].attempt
          /\ j.pc = "log" /\ j.verdict = Verdict(accepted)
    <2>1. [job[w] EXCEPT !.pc = "log", !.verdict = Verdict(accepted)] \in Jobs
      BY <1>2 DEF Jobs, Verdict
    <2>2. QED
      BY <1>2, <1>5, <2>1 DEF Jobs
  <1>7. /\ reached' \in [Events -> SUBSET Outcomes]
        /\ \A d \in Events : reached[d] \subseteq reached'[d]
        /\ j.verdict # "failed" => reached'[e] # {}
    BY <1>4, <1>5, <1>6 DEF Outcomes, Verdict
  <1>8. slow' \in [Inliners -> 0..LeasePosts]
    BY <1>4, <1>5, WebhookDeliveryAssumption
  <1>9. JobStep(w, e, j)
    BY <1>3, <1>6, <1>7, <1>8 DEF JobStep, Others, IInv, TypeOK
  <1>10. job'[w] = j
    BY <1>1, <1>9, JobFacts
  <1>11. JobOK(w)' /\ RowOK(e)'
    BY <1>2, <1>3, <1>6, <1>7, <1>10 DEF JobOK, RowOK
  <1>12. Inliners = {} /\ ~lost => Owns(w, e) /\ QueueRow(e)' /\ QueueJob(w)'
    BY <1>1, <1>2, <1>3, <1>6, <1>10 DEF QueueRow, QueueJob
  <1>13. QED
    BY <1>1, <1>6, <1>9, <1>11, <1>12, JobInv

LEMMA LogInv ==
    ASSUME IInv, NEW w \in Deliverers, Log(w) PROVE IInv'
  <1>1. job[w].pc = "log" /\ job[w] # Idle
    BY DEF Log, Idle
  <1>2. PICK e \in Events :
          /\ job[w].event = e /\ job[w] \in Jobs /\ RowOK(e) /\ JobOK(w)
          /\ Inliners = {} /\ ~lost => Owns(w, e) /\ QueueRow(e) /\ QueueJob(w)
    BY <1>1, Busy
  <1>3. UNCHANGED <<row, reached, endpoints, task, claimed, slow, lost>>
    BY DEF Log
  <1>4. /\ job \in [Deliverers -> Jobs] /\ failures \in [Events -> 0..MaxAttempts]
        /\ row[e].attempts \in Nat
    BY DEF IInv, TypeOK, OutboxRows
  <1>5. /\ job' = [job EXCEPT ![w] = [job[w] EXCEPT !.pc = "mark"]]
        /\ failures' = IF job[w].verdict = "failed" /\ failures[e] < MaxAttempts
                       THEN [failures EXCEPT ![e] = @ + 1] ELSE failures
    BY <1>2, <1>4 DEF Log
  <1>6. PICK j \in Jobs :
          /\ job' = [job EXCEPT ![w] = j] /\ j.event = e /\ j.attempt = job[w].attempt
          /\ j.pc = "mark" /\ j.verdict = job[w].verdict
    <2>1. [job[w] EXCEPT !.pc = "mark"] \in Jobs
      BY <1>2 DEF Jobs
    <2>2. QED
      BY <1>2, <1>5, <2>1 DEF Jobs
  <1>7. /\ failures' \in [Events -> 0..MaxAttempts]
        /\ \A d \in Events : d # e => failures'[d] = failures[d]
        /\ failures'[e] >= failures[e]
        /\ job[w].verdict = "failed" =>
              failures'[e] = MaxAttempts \/ failures'[e] = failures[e] + 1
    BY <1>4, <1>5, WebhookDeliveryAssumption
  <1>8. JobStep(w, e, j)
    BY <1>3, <1>6, <1>7 DEF JobStep, Others, IInv, TypeOK
  <1>9. job'[w] = j
    BY <1>1, <1>8, JobFacts
  <1>10. JobOK(w)' /\ RowOK(e)'
    BY <1>1, <1>2, <1>3, <1>6, <1>9 DEF JobOK, RowOK
  <1>11. ASSUME Inliners = {}, ~lost PROVE Owns(w, e) /\ QueueRow(e)' /\ QueueJob(w)'
    <2>1. /\ Owns(w, e) /\ QueueRow(e) /\ task[e] = "active"
          /\ row[e].status = "pending" /\ job[w].attempt = row[e].attempts + 1
          /\ row[e].attempts < MaxAttempts
      BY <1>1, <1>2, <1>11 DEF QueueJob, QueueRow
    <2>2. QueueRow(e)'
      BY <1>3, <1>4, <1>7, <2>1, WebhookDeliveryAssumption DEF QueueRow
    <2>3. j.verdict = "failed" => failures'[e] > row[e].attempts
      BY <1>4, <1>6, <1>7, <2>1, WebhookDeliveryAssumption DEF QueueRow
    <2>4. QueueJob(w)'
      BY <1>3, <1>6, <1>9, <2>1, <2>3 DEF QueueJob
    <2>5. QED
      BY <2>1, <2>2, <2>4
  <1>12. QED
    BY <1>1, <1>6, <1>8, <1>10, <1>11, JobInv

(* What a goroutine does once it is through with its row. *)
LEMMA AfterRowFacts ==
    ASSUME IInv, NEW w \in Deliverers, job' = AfterRow(w)
    PROVE  \E j \in Jobs :
              /\ job' = [job EXCEPT ![w] = j]
              /\ j = Idle \/ (j.pc = "done" /\ j.event = job[w].event)
  <1>1. job[w] \in Jobs /\ Idle \in Jobs /\ job \in [Deliverers -> Jobs]
    BY DEF IInv, TypeOK, Idle, Jobs
  <1>2. CASE w \in Workers
    <2>1. [job[w] EXCEPT !.pc = "done"] \in Jobs
      BY <1>1 DEF Jobs
    <2>2. job' = [job EXCEPT ![w] = [job[w] EXCEPT !.pc = "done"]]
      BY <1>1, <1>2 DEF AfterRow
    <2>3. QED
      BY <1>1, <2>1, <2>2 DEF Jobs
  <1>3. CASE w \notin Workers
    BY <1>1, <1>3 DEF AfterRow
  <1>4. QED
    BY <1>2, <1>3

LEMMA MarkedFacts ==
    ASSUME NEW w, NEW r \in OutboxRows
    PROVE  LET m == Marked(w, r)
           IN  /\ m \in OutboxRows
               /\ job[w].verdict # "failed" =>
                     m.status = "delivered" /\ m.attempts = r.attempts
               /\ job[w].verdict = "failed" =>
                     /\ m.attempts = r.attempts + 1
                     /\ m.status = IF Exhausted(w) THEN "dead" ELSE r.status
  <1>1. r.attempts + 1 \in Nat
    BY DEF OutboxRows
  <1>2. CASE job[w].verdict # "failed"
    BY <1>2 DEF Marked, OutboxRows
  <1>3. CASE job[w].verdict = "failed" /\ Exhausted(w)
    BY <1>1, <1>3 DEF Marked, OutboxRows
  <1>4. CASE job[w].verdict = "failed" /\ ~Exhausted(w)
    BY <1>1, <1>4 DEF Marked, OutboxRows
  <1>5. QED
    BY <1>2, <1>3, <1>4

LEMMA MarkInv ==
    ASSUME IInv, NEW w \in Deliverers, Mark(w) PROVE IInv'
  <1>1. job[w].pc = "mark" /\ job[w] # Idle
    BY DEF Mark, Idle
  <1>2. PICK e \in Events :
          /\ job[w].event = e /\ job[w] \in Jobs /\ RowOK(e) /\ JobOK(w)
          /\ Inliners = {} /\ ~lost => Owns(w, e) /\ QueueRow(e) /\ QueueJob(w)
    BY <1>1, Busy
  <1>3. /\ UNCHANGED <<failures, reached, endpoints, task, claimed, slow, lost>>
        /\ job' = AfterRow(w)
    BY DEF Mark
  <1>4. row \in [Events -> OutboxRows] /\ row[e] \in OutboxRows
    BY DEF IInv, TypeOK
  <1>5. PICK m \in OutboxRows :
          /\ row' = [row EXCEPT ![e] = m]
          /\ job[w].verdict # "failed" =>
                m.status = "delivered" /\ m.attempts = row[e].attempts
          /\ job[w].verdict = "failed" =>
                /\ m.attempts = row[e].attempts + 1
                /\ m.status = IF Exhausted(w) THEN "dead" ELSE row[e].status
    BY <1>2, <1>4, MarkedFacts DEF Mark
  <1>6. PICK j \in Jobs :
          /\ job' = [job EXCEPT ![w] = j]
          /\ j = Idle \/ (j.pc = "done" /\ j.event = e)
    BY <1>2, <1>3, AfterRowFacts
  <1>7. row' \in [Events -> OutboxRows] /\ row'[e] = m
        /\ \A d \in Events : d # e => row'[d] = row[d]
    BY <1>4, <1>5
  <1>8. JobStep(w, e, j)
    BY <1>3, <1>6, <1>7 DEF JobStep, Others, IInv, TypeOK
  <1>9. job'[w] = j
    BY <1>8, JobFacts
  <1>10. JobOK(w)'
    BY <1>6, <1>9 DEF JobOK, Idle
  <1>11. RowOK(e)'
    <2>1. CASE job[w].verdict # "failed"
      BY <1>1, <1>2, <1>3, <2>1 DEF JobOK, RowOK
    <2>2. CASE job[w].verdict = "failed"
      BY <1>2, <1>3, <1>5, <1>7, <2>2 DEF RowOK
    <2>3. QED
      BY <2>1, <2>2
  <1>12. ASSUME Inliners = {}, ~lost PROVE Owns(w, e) /\ QueueRow(e)' /\ QueueJob(w)'
    <2>1. /\ Owns(w, e) /\ QueueRow(e) /\ task[e] = "active"
          /\ row[e].status = "pending" /\ job[w].attempt = row[e].attempts + 1
          /\ row[e].attempts < MaxAttempts
          /\ job[w].verdict = "failed" => failures[e] > row[e].attempts
      BY <1>1, <1>2, <1>12 DEF QueueJob, QueueRow
    <2>2. row[e].attempts \in Nat /\ failures[e] \in 0..MaxAttempts
      BY <1>4 DEF OutboxRows, IInv, TypeOK
    <2>3. QueueRow(e)'
      <3>1. CASE job[w].verdict # "failed"
        BY <1>3, <1>5, <1>7, <2>1, <3>1 DEF QueueRow
      <3>2. CASE job[w].verdict = "failed"
        BY <1>3, <1>5, <1>7, <2>1, <2>2, <3>2, WebhookDeliveryAssumption
           DEF QueueRow, Exhausted
      <3>3. QED
        BY <3>1, <3>2
    <2>4. QueueJob(w)'
      BY <1>3, <1>6, <1>9, <2>1 DEF QueueJob, Idle
    <2>5. QED
      BY <2>1, <2>3, <2>4
  <1>13. QED
    BY <1>6, <1>8, <1>10, <1>11, <1>12, JobInv

(* A goroutine leaves its row as it is: a statement failed, its task is    *)
(* over or goes back into the queue, or its process is gone.               *)
LEMMA LeavesInv ==
    ASSUME IInv, NEW w \in Deliverers, job[w] # Idle, NEW j \in Jobs,
           job' = [job EXCEPT ![w] = j],
           \/ j = Idle
           \/ j.pc = "done" /\ j.event = job[w].event /\ task' = task,
           UNCHANGED <<row, failures, reached, endpoints, slow, lost>>,
           claimed' \in [Claimers -> SUBSET Snapshots],
           task' = task \/ \E state \in TaskStates : TaskBecomes(job[w].event, state)
    PROVE  IInv'
  <1>1. PICK e \in Events :
          /\ job[w].event = e /\ RowOK(e)
          /\ Inliners = {} /\ ~lost => Owns(w, e) /\ QueueRow(e) /\ QueueJob(w)
    BY Busy
  <1>2. task' \in [Events -> TaskStates] /\ \A d \in Events : d # e => task'[d] = task[d]
    BY <1>1 DEF TaskBecomes, IInv, TypeOK
  <1>3. JobStep(w, e, j)
    BY <1>2 DEF JobStep, Others, IInv, TypeOK
  <1>4. job'[w] = j
    BY <1>3, JobFacts
  <1>5. JobOK(w)' /\ RowOK(e)'
    BY <1>1, <1>4 DEF JobOK, RowOK, Idle
  <1>6. Inliners = {} /\ ~lost => Owns(w, e) /\ QueueRow(e)' /\ QueueJob(w)'
    BY <1>1, <1>4 DEF QueueRow, QueueJob, Idle
  <1>7. QED
    BY <1>1, <1>3, <1>5, <1>6, JobInv DEF Idle

LEMMA EndsInv ==
    ASSUME IInv, NEW w \in Deliverers,
           Abandon(w) \/ (w \in Workers /\ (Finish(w) \/ Shutdown(w))) \/ CrashDeliverer(w)
    PROVE  IInv'
  <1>1. job[w] # Idle
    BY DEF Abandon, Finish, Shutdown, CrashDeliverer, Idle
  <1>2. claimed' \in [Claimers -> SUBSET Snapshots]
    <2>1. claimed \in [Claimers -> SUBSET Snapshots]
      BY DEF IInv, TypeOK
    <2>2. claimed' = claimed \/ claimed' = [claimed EXCEPT ![w] = {}]
      BY DEF Abandon, Finish, Shutdown, CrashDeliverer
    <2>3. QED
      BY <2>1, <2>2
  <1>3. UNCHANGED <<row, failures, reached, endpoints, slow, lost>>
    BY DEF Abandon, Finish, Shutdown, CrashDeliverer
  <1>4. CASE Abandon(w)
    <2>1. PICK j \in Jobs : /\ job' = [job EXCEPT ![w] = j]
                            /\ j = Idle \/ (j.pc = "done" /\ j.event = job[w].event)
      BY <1>4, AfterRowFacts DEF Abandon
    <2>2. task' = task
      BY <1>4 DEF Abandon
    <2>3. QED
      BY <1>1, <1>2, <1>3, <2>1, <2>2, LeavesInv
  <1>5. CASE Finish(w) \/ Shutdown(w) \/ CrashDeliverer(w)
    <2>1. job' = [job EXCEPT ![w] = Idle] /\ Idle \in Jobs
      BY <1>5 DEF Finish, Shutdown, CrashDeliverer, Idle, Jobs
    <2>2. task' = task \/ \E state \in TaskStates : TaskBecomes(job[w].event, state)
      BY <1>5 DEF Finish, Shutdown, CrashDeliverer, TaskStates
    <2>3. QED
      BY <1>1, <1>2, <1>3, <2>1, <2>2, LeavesInv
  <1>6. QED
    BY <1>4, <1>5
-----------------------------------------------------------------------------
(* No goroutine moves: rows are written anew or become due, tasks come and *)
(* go, but the tasks of busy workers stay active or the queue is lost.     *)
TableStep ==
    /\ UNCHANGED <<failures, reached, job>>
    /\ endpoints' \in 0..MaxEndpoints
    /\ claimed' \in [Claimers -> SUBSET Snapshots]
    /\ slow' \in [Inliners -> 0..LeasePosts]
    /\ row' \in [Events -> OutboxRows]
    /\ task' \in [Events -> TaskStates]
    /\ lost' \in BOOLEAN /\ (lost => lost')
    /\ \A e \in Events :
          \/ row'[e].status = row[e].status /\ row'[e].attempts = row[e].attempts
          \/ /\ row[e].status = "none" /\ row'[e].status = "pending"
             /\ row'[e].attempts = 0
    /\ ~lost' => \A e \in Events :
          task'[e] = task[e] \/ \A w \in Workers : job[w].event # e \/ task[e] # "active"

LEMMA TableInv ==
    ASSUME IInv, TableStep PROVE IInv'
  <1>1. TypeOK'
    BY DEF TableStep, IInv, TypeOK
  <1>2. \A w \in Deliverers : JobOK(w)'
    BY DEF TableStep, IInv, JobOK
  <1>3. ASSUME NEW e \in Events PROVE RowOK(e)'
    BY DEF TableStep, IInv, RowOK
  <1>4. ASSUME Inliners = {}, ~lost' PROVE QueueOK'
    <2>1. QueueOK /\ job' = job
      BY <1>4 DEF TableStep, IInv
    <2>2. ASSUME NEW e \in Events PROVE QueueRow(e)'
      <3>1. QueueRow(e) /\ failures'[e] = failures[e] /\ failures[e] \in 0..MaxAttempts
        BY <2>1 DEF QueueOK, TableStep, IInv, TypeOK
      <3>2. QED
        BY <3>1, WebhookDeliveryAssumption DEF TableStep, QueueRow
    <2>3. ASSUME NEW w \in Workers PROVE QueueJob(w)'
      <3>1. QueueJob(w) /\ JobOK(w)
        BY <2>1 DEF QueueOK, IInv, Deliverers
      <3>2. CASE job[w] # Idle
        <4>1. PICK e \in Events : e = job[w].event /\ task[e] = "active"
          BY <3>1, <3>2 DEF JobOK, QueueJob
        <4>2. task'[e] = "active"
          BY <1>4, <4>1 DEF TableStep
        <4>3. CASE job[w].pc \notin {"find", "post", "log", "mark"}
          BY <2>1, <4>1, <4>2, <4>3 DEF QueueJob
        <4>4. CASE job[w].pc \in {"find", "post", "log", "mark"}
          <5>1. row'[e].status = "pending" /\ row'[e].attempts = row[e].attempts
            BY <3>1, <3>2, <4>1, <4>4 DEF QueueJob, TableStep
          <5>2. QED
            BY <2>1, <3>1, <4>1, <4>2, <4>4, <5>1 DEF QueueJob, TableStep
        <4>5. QED
          BY <4>3, <4>4
      <3>3. QED
        BY <2>1, <3>2 DEF QueueJob
    <2>4. Alone'
      BY <2>1 DEF QueueOK, Alone
    <2>5. QED
      BY <2>2, <2>3, <2>4 DEF QueueOK
  <1>5. QED
    BY <1>1, <1>2, <1>3, <1>4 DEF IInv

LEMMA EmitInv ==
    ASSUME IInv, NEW e \in Events, Emit(e) \/ BecomesDue(e) \/ Recover(e) PROVE IInv'
  <1>1. row \in [Events -> OutboxRows] /\ task \in [Events -> TaskStates]
    BY DEF IInv, TypeOK
  <1>2. UNCHANGED <<failures, reached, endpoints, claimed, slow, job, lost>>
    BY DEF Emit, BecomesDue, Recover
  <1>3. CASE Emit(e)
    <2>1. row' = [row EXCEPT ![e] = NewRow] /\ task' = task /\ row[e].status = "none"
      BY <1>3 DEF Emit
    <2>2. /\ NewRow \in OutboxRows /\ NewRow.status = "pending" /\ NewRow.attempts = 0
      BY DEF NewRow, OutboxRows
    <2>3. TableStep
      BY <1>1, <1>2, <2>1, <2>2 DEF TableStep, IInv, TypeOK
    <2>4. QED
      BY <2>3, TableInv
  <1>4. CASE BecomesDue(e)
    <2>1. row' = [row EXCEPT ![e] = [row[e] EXCEPT !.due = TRUE]] /\ task' = task
      BY <1>1, <1>4 DEF BecomesDue
    <2>2. [row[e] EXCEPT !.due = TRUE] \in OutboxRows
      BY <1>1 DEF OutboxRows
    <2>3. /\ row' \in [Events -> OutboxRows]
          /\ \A d \in Events : row'[d].status = row[d].status
                               /\ row'[d].attempts = row[d].attempts
      BY <1>1, <2>1, <2>2 DEF OutboxRows
    <2>4. TableStep
      BY <1>2, <2>1, <2>3 DEF TableStep, IInv, TypeOK
    <2>5. QED
      BY <2>4, TableInv
  <1>5. CASE Recover(e)
    <2>1. /\ row' = row /\ task' = [task EXCEPT ![e] = "archived"]
          /\ \A w \in Workers : job[w].event # e
      BY <1>5 DEF Recover
    <2>2. TableStep
      BY <1>1, <1>2, <2>1 DEF TableStep, IInv, TypeOK, TaskStates
    <2>3. QED
      BY <2>2, TableInv
  <1>6. QED
    BY <1>3, <1>4, <1>5

LEMMA ClaimFacts ==
    ASSUME IInv, NEW p \in Claimers, Claim(p)
    PROVE  /\ row' \in [Events -> OutboxRows]
           /\ \A e \in Events : /\ row'[e].status = row[e].status
                                /\ row'[e].attempts = row[e].attempts
           /\ claimed' \in [Claimers -> SUBSET Snapshots]
           /\ slow' \in [Inliners -> 0..LeasePosts]
           /\ UNCHANGED <<failures, reached, endpoints, task, job, lost>>
  <1>1. PICK S \in SUBSET Due :
          /\ Lease(S)
          /\ claimed' = [claimed EXCEPT ![p] =
                           {[event |-> e, attempts |-> row[e].attempts] : e \in S}]
    BY DEF Claim
  <1>2. /\ row \in [Events -> OutboxRows] /\ claimed \in [Claimers -> SUBSET Snapshots]
        /\ slow \in [Inliners -> 0..LeasePosts] /\ S \subseteq Events
    BY DEF IInv, TypeOK, Due
  <1>3. ASSUME NEW e \in Events
        PROVE  /\ row'[e] \in OutboxRows /\ row'[e].status = row[e].status
               /\ row'[e].attempts = row[e].attempts
    <2>1. row'[e] = IF e \in S THEN [row[e] EXCEPT !.due = FALSE] ELSE row[e]
      BY <1>1, <1>2 DEF Lease
    <2>2. row[e] \in OutboxRows
      BY <1>2
    <2>3. QED
      BY <2>1, <2>2 DEF OutboxRows
  <1>4. DOMAIN row' = Events /\ row' = [e \in Events |-> row'[e]]
    BY <1>1, <1>2 DEF Lease
  <1>5. {[event |-> e, attempts |-> row[e].attempts] : e \in S} \in SUBSET Snapshots
    BY <1>2 DEF Snapshots, OutboxRows
  <1>6. slow' \in [Inliners -> 0..LeasePosts]
    BY <1>2, WebhookDeliveryAssumption DEF Claim
  <1>7. QED
    BY <1>1, <1>2, <1>3, <1>4, <1>5, <1>6 DEF Claim

LEMMA QueueFacts ==
    ASSUME IInv, NEW p \in Claimers, Enqueue(p) \/ EnqueueFails(p) \/ CrashClaimer(p)
    PROVE  /\ claimed' \in [Claimers -> SUBSET Snapshots]
           /\ task' \in [Events -> TaskStates]
           /\ \A e \in Events : task'[e] = task[e] \/ task[e] = "none"
           /\ UNCHANGED <<row, failures, reached, endpoints, slow, job, lost>>
  <1>1. task \in [Events -> TaskStates] /\ claimed \in [Claimers -> SUBSET Snapshots]
    BY DEF IInv, TypeOK
  <1>2. PICK C \in SUBSET Snapshots : claimed' = [claimed EXCEPT ![p] = C]
    BY <1>1 DEF Enqueue, EnqueueFails, CrashClaimer
  <1>3. task' = task \/ \E s \in Snapshots :
                           /\ ~Taken(s.event)
                           /\ task' = [task EXCEPT ![s.event] = "queued"]
    BY <1>1 DEF Enqueue, EnqueueFails, CrashClaimer
  <1>4. task' \in [Events -> TaskStates]
        /\ \A e \in Events : task'[e] = task[e] \/ task[e] = "none"
    <2>1. CASE task' = task
      BY <1>1, <2>1
    <2>2. ASSUME NEW s \in Snapshots, ~Taken(s.event),
                 task' = [task EXCEPT ![s.event] = "queued"]
          PROVE  task' \in [Events -> TaskStates]
                 /\ \A e \in Events : task'[e] = task[e] \/ task[e] = "none"
      BY <1>1, <2>2 DEF Taken, TaskStates, Snapshots
    <2>3. QED
      BY <1>3, <2>1, <2>2
  <1>5. QED
    BY <1>1, <1>2, <1>4 DEF Enqueue, EnqueueFails, CrashClaimer

LEMMA TablesInv ==
    ASSUME IInv,
           \/ CreateEndpoint \/ DisableEndpoint \/ LoseQueue
           \/ \E p \in Claimers : Claim(p) \/ Enqueue(p) \/ EnqueueFails(p) \/ CrashClaimer(p)
    PROVE  IInv'
  <1>1. CASE CreateEndpoint \/ DisableEndpoint
    <2>1. endpoints' \in 0..MaxEndpoints
      BY <1>1, WebhookDeliveryAssumption
         DEF CreateEndpoint, DisableEndpoint, IInv, TypeOK
    <2>2. UNCHANGED <<row, failures, reached, task, claimed, slow, job, lost>>
      BY <1>1 DEF CreateEndpoint, DisableEndpoint
    <2>3. TableStep
      BY <2>1, <2>2 DEF TableStep, IInv, TypeOK
    <2>4. QED
      BY <2>3, TableInv
  <1>2. CASE LoseQueue
    <2>1. task' \in [Events -> TaskStates] /\ lost' = TRUE
          /\ UNCHANGED <<row, failures, reached, endpoints, claimed, slow, job>>
      BY <1>2 DEF LoseQueue, TaskStates
    <2>2. TableStep
      BY <2>1 DEF TableStep, IInv, TypeOK
    <2>3. QED
      BY <2>2, TableInv
  <1>3. ASSUME NEW p \in Claimers, Claim(p) PROVE IInv'
    <2>1. TableStep
      BY <1>3, ClaimFacts DEF TableStep, IInv, TypeOK
    <2>2. QED
      BY <2>1, TableInv
  <1>4. ASSUME NEW p \in Claimers, Enqueue(p) \/ EnqueueFails(p) \/ CrashClaimer(p)
        PROVE  IInv'
    <2>1. TableStep
      BY <1>4, QueueFacts DEF TableStep, IInv, TypeOK
    <2>2. QED
      BY <2>1, TableInv
  <1>5. QED
    BY <1>1, <1>2, <1>3, <1>4

(* Every step preserves the invariant. *)
LEMMA NextInv == IInv /\ [Next]_vars => IInv'
  <1> SUFFICES ASSUME IInv, [Next]_vars PROVE IInv'
    OBVIOUS
  <1>1. CASE Environment
    BY <1>1, EmitInv, TablesInv DEF Environment
  <1>2. CASE Work
    <2>1. ASSUME NEW w \in Deliverers, Serve(w) PROVE IInv'
      BY <2>1, TaskStartsInv, LoadInv, EndsInv, DeliverNextInv, FindInv, PostInv,
         LogInv, MarkInv DEF Serve
    <2>2. QED
      BY <1>2, <2>1, TablesInv DEF Work, Claimers
  <1>3. CASE Fault
    BY <1>3, EndsInv, TablesInv DEF Fault, Claimers, Deliverers
  <1>4. CASE UNCHANGED vars
    BY <1>4 DEF vars, IInv, TypeOK, JobOK, RowOK, QueueOK, QueueRow, QueueJob, Alone
  <1>5. QED
    BY <1>1, <1>2, <1>3, <1>4 DEF Next
-----------------------------------------------------------------------------
(***************************************************************************)
(* The inductive invariant always holds: a verdict has its evidence, and a *)
(* worker's task, row and attempt belong together (deliverRow).            *)
(***************************************************************************)
THEOREM Invariance == Spec => []IInv
  BY InitInv, NextInv, PTL DEF Spec

(* The variables always hold values of their types. *)
THEOREM TypeCorrectness == Spec => []TypeOK
  <1>1. IInv => TypeOK
    BY DEF IInv
  <1>2. QED
    BY <1>1, Invariance, PTL

(***************************************************************************)
(* Whatever fails, a row is marked delivered only with a receiver's answer *)
(* or for want of an endpoint (deliverRow).                                *)
(***************************************************************************)
THEOREM DeliveryHasEvidence == Spec => []DeliveredIsReceived
  <1>1. IInv => DeliveredIsReceived
    BY DEF IInv, RowOK, DeliveredIsReceived
  <1>2. QED
    BY <1>1, Invariance, PTL

(***************************************************************************)
(* In the worker the task's id keeps any number of dispatchers and task    *)
(* goroutines from delivering one row at the same time, until the queue    *)
(* loses its data (DeliverByID).                                           *)
(***************************************************************************)
THEOREM TaskIdExcludes ==
    ASSUME Inliners = {} PROVE Spec => []OneDeliveryAtATime
  <1>1. IInv => OneDeliveryAtATime
    <2> SUFFICES ASSUME IInv, ~lost, NEW e \in Events,
                        NEW v \in Deliverers, NEW w \in Deliverers,
                        Delivering(v, e), Delivering(w, e)
                 PROVE  v = w
      BY DEF OneDeliveryAtATime
    <2>1. job[v] # Idle /\ job[w] # Idle /\ job[v].event = job[w].event
      BY DEF Delivering, Idle
    <2>2. Alone /\ v \in Workers /\ w \in Workers
      BY DEF IInv, QueueOK, Deliverers
    <2>3. QED
      BY <2>1, <2>2 DEF Alone
  <1>2. QED
    BY <1>1, Invariance, PTL

(***************************************************************************)
(* In the worker a row is dead only after MaxAttempts logged failures, for *)
(* every MaxAttempts and every number of retries (MarkOutboxDead).         *)
(***************************************************************************)
THEOREM DeathIsDeserved ==
    ASSUME Inliners = {} PROVE Spec => []DeadIsDeserved
  <1>1. IInv => DeadIsDeserved
    BY DEF IInv, QueueOK, QueueRow, DeadIsDeserved
  <1>2. QED
    BY <1>1, Invariance, PTL

LEMMA SettledRowsStay ==
    ASSUME Inliners = {}, IInv, [Next]_vars, ~lost, NEW e \in Events,
           row[e].status \in {"delivered", "dead"}
    PROVE  row'[e].status = row[e].status /\ row'[e].attempts = row[e].attempts
  <1>1. row \in [Events -> OutboxRows] /\ QueueOK
    BY DEF IInv, TypeOK
  <1>2. ASSUME NEW d \in Events, Emit(d) \/ BecomesDue(d)
        PROVE  row'[e].status = row[e].status /\ row'[e].attempts = row[e].attempts
    <2>1. CASE Emit(d)
      BY <1>1, <2>1 DEF Emit
    <2>2. CASE BecomesDue(d)
      BY <1>1, <2>2 DEF BecomesDue, OutboxRows
    <2>3. QED
      BY <1>2, <2>1, <2>2
  <1>3. ASSUME NEW p \in Claimers, Claim(p)
        PROVE  row'[e].status = row[e].status /\ row'[e].attempts = row[e].attempts
    BY <1>3, ClaimFacts
  <1>4. ASSUME NEW w \in Deliverers, Mark(w) PROVE row'[e] = row[e]
    <2>1. job[w] # Idle /\ w \in Workers /\ job[w].pc = "mark"
      BY <1>4 DEF Mark, Idle, Deliverers
    <2>2. row[job[w].event].status = "pending"
      BY <1>1, <2>1 DEF QueueOK, QueueJob
    <2>3. QED
      BY <1>1, <1>4, <2>2 DEF Mark
  <1>5. \/ row' = row
        \/ \E d \in Events : Emit(d) \/ BecomesDue(d)
        \/ \E p \in Claimers : Claim(p)
        \/ \E w \in Deliverers : Mark(w)
    BY DEF Next, vars, Environment, Work, Fault, Serve, Recover, CreateEndpoint,
           DisableEndpoint, Enqueue, EnqueueFails, TaskStarts, Load, Finish,
           DeliverNext, Find, Post, Log, Shutdown, Abandon, CrashDeliverer,
           CrashClaimer, LoseQueue
  <1>6. QED
    BY <1>2, <1>3, <1>4, <1>5

(***************************************************************************)
(* In the worker no late task revives or buries a settled row although the *)
(* Mark statements do not ask for its status (MarkOutboxDelivered).        *)
(***************************************************************************)
THEOREM SettledStaysSettled ==
    ASSUME Inliners = {} PROVE Spec => RetiredStaysRetired
  <1>1. IInv /\ [Next]_vars =>
          [~lost => \A e \in Events :
              row[e].status \in {"delivered", "dead"} =>
                  /\ row'[e].status = row[e].status
                  /\ row'[e].attempts = row[e].attempts]_vars
    BY SettledRowsStay
  <1>2. QED
    BY <1>1, Invariance, PTL DEF Spec, RetiredStaysRetired
-----------------------------------------------------------------------------
(***************************************************************************)
(* Inline processors.  Without a queue nothing but the lease keeps them    *)
(* apart, and it does as long as fewer POSTs of a batch time out than fit  *)
(* into it.                                                                *)
(***************************************************************************)
InTime == \A p \in Inliners : slow[p] < LeasePosts

Leased(e) == row[e].status = "pending" /\ ~row[e].due

(* The row a processor works on is leased, and as it was when claimed. *)
InlineJob(p) ==
    LET j == job[p]
    IN  j # Idle =>
          /\ j.event \in Events /\ j.pc \in {"find", "post", "log", "mark"}
          /\ Leased(j.event) /\ j.attempt = row[j.event].attempts + 1
          /\ j.pc = "mark" /\ j.verdict = "failed" =>
                failures[j.event] > row[j.event].attempts
          /\ \A s \in claimed[p] : s.event # j.event

(* So are the rows of its batch that still wait, each of them once. *)
InlineBatch(p) ==
    \A s \in claimed[p] :
        /\ s \in Snapshots
        /\ Leased(s.event) /\ s.attempts = row[s.event].attempts
        /\ \A r \in claimed[p] : r.event = s.event => r = s

(* No row is in two batches. *)
Apart ==
    \A p, q \in Inliners, e \in Events : Holds(p, e) /\ Holds(q, e) => p = q

InlineOK ==
    /\ \A w \in Workers : job[w] = Idle
    /\ \A e \in Events : task[e] = "none" /\ QueueRow(e)
    /\ \A p \in Inliners : InlineJob(p) /\ InlineBatch(p)
    /\ Apart

LEMMA InlineInit == Init => InlineOK
  <1> SUFFICES ASSUME Init PROVE InlineOK
    OBVIOUS
  <1>1. \A w \in Deliverers : job[w] = Idle
    BY DEF Init
  <1>2. \A p \in Inliners : claimed[p] = {}
    BY DEF Init, Claimers
  <1>3. \A e \in Events : task[e] = "none" /\ QueueRow(e)
    BY DEF Init, QueueRow
  <1>4. \A p \in Inliners, e \in Events : ~Holds(p, e)
    BY <1>1, <1>2, WebhookDeliveryAssumption DEF Holds, Idle, Deliverers
  <1>5. QED
    BY <1>1, <1>2, <1>3, <1>4
       DEF InlineOK, InlineJob, InlineBatch, Apart, Deliverers

(* A held row is leased. *)
LEMMA HeldIsLeased ==
    ASSUME InlineOK, NEW p \in Inliners, NEW e \in Events, Holds(p, e)
    PROVE  Leased(e)
  <1>1. job[p].event = e => job[p] # Idle
    BY WebhookDeliveryAssumption DEF Idle
  <1>2. QED
    BY <1>1 DEF InlineOK, InlineJob, InlineBatch, Holds

(* p goes on with rows it had; the tables keep theirs, failures may grow. *)
Moves(p) ==
    /\ UNCHANGED <<row, task>>
    /\ failures' \in [Events -> 0..MaxAttempts]
    /\ \A e \in Events : failures'[e] >= failures[e]
    /\ \A w \in Deliverers : w # p => job'[w] = job[w]
    /\ \A q \in Inliners : q # p => claimed'[q] = claimed[q]
    /\ \A e \in Events : Holds(p, e)' => Holds(p, e)

LEMMA InlineMoves ==
    ASSUME IInv, InlineOK, NEW p \in Inliners, Moves(p),
           InlineJob(p)', InlineBatch(p)'
    PROVE  InlineOK'
  <1>1. \A w \in Workers : w # p
    BY WebhookDeliveryAssumption DEF Claimers
  <1>2. \A w \in Workers : job'[w] = Idle
    BY <1>1 DEF InlineOK, Moves, Deliverers
  <1>3. ASSUME NEW e \in Events PROVE task'[e] = "none" /\ QueueRow(e)'
    <2>1. /\ failures[e] \in Nat /\ failures'[e] \in Nat
          /\ failures'[e] >= failures[e]
          /\ row[e] \in OutboxRows /\ row' = row /\ task' = task
      BY DEF Moves, IInv, TypeOK
    <2>2. QueueRow(e) /\ task[e] = "none"
      BY DEF InlineOK
    <2>3. QED
      BY <2>1, <2>2, WebhookDeliveryAssumption DEF QueueRow, OutboxRows
  <1>4. ASSUME NEW q \in Inliners, q # p PROVE InlineJob(q)' /\ InlineBatch(q)'
    <2>1. /\ job'[q] = job[q] /\ claimed'[q] = claimed[q] /\ row' = row
          /\ \A e \in Events : /\ failures[e] \in Nat /\ failures'[e] \in Nat
                               /\ failures'[e] >= failures[e]
                               /\ row[e].attempts \in Nat
      BY <1>4 DEF Moves, Deliverers, IInv, TypeOK, OutboxRows
    <2>2. InlineJob(q) /\ InlineBatch(q)
      BY DEF InlineOK
    <2>3. InlineJob(q)'
      BY <2>1, <2>2 DEF InlineJob, Leased
    <2>4. InlineBatch(q)'
      BY <2>1, <2>2 DEF InlineBatch, Leased
    <2>5. QED
      BY <2>3, <2>4
  <1>5. \A q \in Inliners, e \in Events : Holds(q, e)' => Holds(q, e)
    BY DEF Moves, Holds, Deliverers
  <1>6. Apart'
    BY <1>5 DEF InlineOK, Apart
  <1>7. QED
    BY <1>2, <1>3, <1>4, <1>6 DEF InlineOK

LEMMA InlineDeliverNext ==
    ASSUME IInv, InlineOK, NEW p \in Inliners, DeliverNext(p) PROVE InlineOK'
  <1>1. PICK s \in claimed[p] :
            /\ claimed' = [claimed EXCEPT ![p] = @ \ {s}]
            /\ job' = [job EXCEPT ![p] = [Idle EXCEPT !.pc = "find",
                                           !.event = s.event,
                                           !.attempt = s.attempts + 1]]
    BY DEF DeliverNext
  <1>2. /\ claimed'[p] = claimed[p] \ {s}
        /\ job'[p] = [Idle EXCEPT !.pc = "find", !.event = s.event,
                                  !.attempt = s.attempts + 1]
        /\ \A w \in Deliverers : w # p => job'[w] = job[w]
        /\ \A q \in Inliners : q # p => claimed'[q] = claimed[q]
        /\ UNCHANGED <<row, task, failures>>
    BY <1>1 DEF DeliverNext, IInv, TypeOK, Deliverers, Claimers
  <1>3. /\ job'[p].pc = "find" /\ job'[p].event = s.event
        /\ job'[p].attempt = s.attempts + 1
    BY <1>2 DEF Idle
  <1>4. InlineBatch(p) /\ s.event \in Events
    BY <1>1 DEF InlineOK, InlineBatch, Snapshots
  <1>5. InlineJob(p)'
    BY <1>1, <1>2, <1>3, <1>4 DEF InlineJob, InlineBatch, Leased
  <1>6. InlineBatch(p)'
    BY <1>2, <1>4 DEF InlineBatch, Leased
  <1>7. Moves(p)
    <2>1. \A e \in Events : Holds(p, e)' => Holds(p, e)
      BY <1>1, <1>2, <1>3 DEF Holds
    <2>2. /\ failures' \in [Events -> 0..MaxAttempts]
          /\ \A e \in Events : failures'[e] >= failures[e]
      BY <1>2 DEF IInv, TypeOK
    <2>3. QED
      BY <1>2, <2>1, <2>2 DEF Moves
  <1>8. QED
    BY <1>5, <1>6, <1>7, InlineMoves

(* p goes on with the row it delivers, to a pc and a verdict. *)
GoesOn(p, pc, verdict) ==
    /\ job[p] # Idle /\ pc \in {"post", "log", "mark"}
    /\ job' = [job EXCEPT ![p].pc = pc, ![p].verdict = verdict]
    /\ UNCHANGED <<row, task, claimed>>
    /\ failures' \in [Events -> 0..MaxAttempts]
    /\ \A e \in Events : failures'[e] >= failures[e]
    /\ pc = "mark" /\ verdict = "failed" =>
          failures'[job[p].event] > row[job[p].event].attempts

LEMMA InlineGoesOn ==
    ASSUME IInv, InlineOK, NEW p \in Inliners, NEW pc, NEW verdict,
           GoesOn(p, pc, verdict)
    PROVE  InlineOK'
  <1>1. /\ job'[p].pc = pc /\ job'[p].event = job[p].event
        /\ job'[p].attempt = job[p].attempt /\ job'[p].verdict = verdict
        /\ \A w \in Deliverers : w # p => job'[w] = job[w]
    BY DEF GoesOn, IInv, TypeOK, Jobs, Deliverers
  <1>2. InlineJob(p) /\ InlineBatch(p)
    BY DEF InlineOK
  <1>3. InlineJob(p)'
    BY <1>1, <1>2 DEF GoesOn, InlineJob, Leased
  <1>4. InlineBatch(p)'
    BY <1>2 DEF GoesOn, InlineBatch, Leased
  <1>5. Moves(p)
    BY <1>1 DEF GoesOn, Moves, Holds
  <1>6. QED
    BY <1>3, <1>4, <1>5, InlineMoves

LEMMA InlineWorks ==
    ASSUME IInv, InlineOK, NEW p \in Inliners, Find(p) \/ Post(p) \/ Log(p)
    PROVE  InlineOK'
  <1> DEFINE e == job[p].event
  <1>1. job[p] # Idle /\ job[p] \in Jobs
    BY DEF Find, Post, Log, Idle, IInv, TypeOK, Deliverers
  <1>2. InlineJob(p) /\ e \in Events
    BY <1>1 DEF InlineOK, InlineJob
  <1>3. /\ failures \in [Events -> 0..MaxAttempts] /\ row[e] \in OutboxRows
        /\ job \in [Deliverers -> Jobs] /\ p \in Deliverers
    BY <1>2 DEF IInv, TypeOK, Deliverers
  <1>4. \A d \in Events : failures[d] >= failures[d]
    BY <1>3
  <1>5. CASE Find(p)
    <2>1. /\ UNCHANGED <<row, task, claimed, failures>>
          /\ \/ job' = [job EXCEPT ![p].pc = "mark", ![p].verdict = "nobody"]
             \/ job' = [job EXCEPT ![p].pc = "post",
                                   ![p].verdict = job[p].verdict]
      BY <1>3, <1>5 DEF Find, Jobs
    <2>2. CASE job' = [job EXCEPT ![p].pc = "mark", ![p].verdict = "nobody"]
      <3>1. GoesOn(p, "mark", "nobody")
        BY <1>1, <1>3, <1>4, <2>1, <2>2 DEF GoesOn
      <3>2. QED
        BY <3>1, InlineGoesOn
    <2>3. CASE job' = [job EXCEPT ![p].pc = "post", ![p].verdict = job[p].verdict]
      <3>1. GoesOn(p, "post", job[p].verdict)
        BY <1>1, <1>3, <1>4, <2>1, <2>3 DEF GoesOn
      <3>2. QED
        BY <3>1, InlineGoesOn
    <2>4. QED
      BY <2>1, <2>2, <2>3
  <1>6. CASE Post(p)
    <2>1. PICK v : job' = [job EXCEPT ![p].pc = "log", ![p].verdict = v]
      BY <1>6 DEF Post
    <2>2. UNCHANGED <<row, task, claimed, failures>>
      BY <1>6 DEF Post
    <2>3. GoesOn(p, "log", v)
      BY <1>1, <1>3, <1>4, <2>1, <2>2 DEF GoesOn
    <2>4. QED
      BY <2>3, InlineGoesOn
  <1>7. CASE Log(p)
    <2>1. /\ UNCHANGED <<row, task, claimed>>
          /\ job' = [job EXCEPT ![p].pc = "mark", ![p].verdict = job[p].verdict]
          /\ failures' =
                IF job[p].verdict = "failed" /\ failures[e] < MaxAttempts
                THEN [failures EXCEPT ![e] = @ + 1] ELSE failures
      BY <1>3, <1>7 DEF Log, Jobs
    <2>2. /\ failures' \in [Events -> 0..MaxAttempts]
          /\ \A d \in Events : failures'[d] >= failures[d]
      BY <1>2, <1>3, <2>1, WebhookDeliveryAssumption
    <2>3. QueueRow(e) /\ row[e].status = "pending"
      BY <1>1, <1>2 DEF InlineOK, InlineJob, Leased
    <2>4. job[p].verdict = "failed" => failures'[e] > row[e].attempts
      BY <1>2, <1>3, <2>1, <2>3, WebhookDeliveryAssumption
         DEF QueueRow, OutboxRows
    <2>5. GoesOn(p, "mark", job[p].verdict)
      BY <1>1, <2>1, <2>2, <2>4 DEF GoesOn
    <2>6. QED
      BY <2>5, InlineGoesOn
  <1>8. QED
    BY <1>5, <1>6, <1>7

(* The row is marked: nobody else holds it. *)
LEMMA InlineMark ==
    ASSUME IInv, InlineOK, NEW p \in Inliners, Mark(p) PROVE InlineOK'
  <1>1. /\ job[p] # Idle /\ job[p].pc = "mark" /\ p \notin Workers
        /\ row \in [Events -> OutboxRows] /\ failures \in [Events -> 0..MaxAttempts]
        /\ job \in [Deliverers -> Jobs] /\ p \in Deliverers
    BY WebhookDeliveryAssumption DEF Mark, Idle, IInv, TypeOK, Claimers, Deliverers
  <1>2. PICK e \in Events : job[p].event = e /\ InlineJob(p) /\ InlineBatch(p)
    BY <1>1 DEF InlineOK, InlineJob
  <1>3. /\ row' = [row EXCEPT ![e] = Marked(p, @)]
        /\ UNCHANGED <<failures, task, claimed>>
        /\ job' = [job EXCEPT ![p] = Idle]
    BY <1>1, <1>2 DEF Mark, AfterRow
  <1>4. /\ job'[p] = Idle /\ \A w \in Deliverers : w # p => job'[w] = job[w]
        /\ \A d \in Events : d # e => row'[d] = row[d]
        /\ row'[e] = Marked(p, row[e])
    BY <1>1, <1>3
  <1>5. \A q \in Inliners : Holds(q, e) => q = p
    BY <1>2 DEF InlineOK, Apart, Holds
  <1>6. QueueRow(e)'
    <2>1. row[e] \in OutboxRows /\ row[e].attempts \in Nat /\ failures[e] \in Nat
      BY <1>1, <1>2 DEF OutboxRows
    <2>2. /\ QueueRow(e) /\ row[e].status = "pending"
          /\ job[p].attempt = row[e].attempts + 1
          /\ job[p].verdict = "failed" => failures[e] > row[e].attempts
      BY <1>1, <1>2 DEF InlineOK, InlineJob, Leased
    <2>3. CASE job[p].verdict = "failed"
      <3>1. /\ row'[e].attempts = row[e].attempts + 1
            /\ row'[e].status = IF job[p].attempt >= MaxAttempts
                                THEN "dead" ELSE row[e].status
        BY <1>4, <2>1, <2>3, MarkedFacts DEF Exhausted
      <3>2. QED
        BY <1>3, <2>1, <2>2, <2>3, <3>1, WebhookDeliveryAssumption DEF QueueRow
    <2>4. CASE job[p].verdict # "failed"
      <3>1. row'[e].attempts = row[e].attempts /\ row'[e].status = "delivered"
        BY <1>4, <2>1, <2>4, MarkedFacts
      <3>2. QED
        BY <1>3, <2>2, <3>1 DEF QueueRow
    <2>5. QED
      BY <2>3, <2>4
  <1>7. \A d \in Events : task'[d] = "none" /\ QueueRow(d)'
    BY <1>3, <1>4, <1>6 DEF InlineOK, QueueRow
  <1>8. \A w \in Workers : job'[w] = Idle
    BY <1>1, <1>4 DEF InlineOK, Deliverers
  <1>9. ASSUME NEW q \in Inliners PROVE InlineBatch(q)'
    <2>1. InlineBatch(q) /\ claimed'[q] = claimed[q]
      BY <1>3 DEF InlineOK
    <2>2. \A s \in claimed[q] : s.event \in Events /\ s.event # e
      BY <1>2, <1>5, <1>1, <2>1 DEF InlineJob, InlineBatch, Snapshots, Holds
    <2>3. QED
      BY <1>4, <2>1, <2>2 DEF InlineBatch, Leased
  <1>10. ASSUME NEW q \in Inliners PROVE InlineJob(q)'
    <2>1. CASE q = p
      BY <1>4, <2>1 DEF InlineJob
    <2>2. CASE q # p
      <3>1. job'[q] = job[q] /\ InlineJob(q) /\ job[q].event # e
        BY <1>4, <1>5, <2>2 DEF InlineOK, Deliverers, Holds
      <3>2. QED
        BY <1>3, <1>4, <3>1 DEF InlineJob, Leased
    <2>3. QED
      BY <2>1, <2>2
  <1>11. \A q \in Inliners, d \in Events : Holds(q, d)' => Holds(q, d)
    BY <1>3, <1>4, WebhookDeliveryAssumption DEF Holds, Idle, Deliverers
  <1>12. Apart'
    BY <1>11 DEF InlineOK, Apart
  <1>13. QED
    BY <1>7, <1>8, <1>9, <1>10, <1>12 DEF InlineOK

(* A pass that ends or dies lets its rows go, leased as they are. *)
LEMMA InlineEnds ==
    ASSUME IInv, InlineOK, NEW p \in Inliners,
           Abandon(p) \/ CrashDeliverer(p) \/ CrashClaimer(p)
    PROVE  InlineOK'
  <1>1. p \notin Workers
    BY WebhookDeliveryAssumption DEF Claimers
  <1>2. /\ job'[p] = Idle /\ claimed'[p] = {}
        /\ \A w \in Deliverers : w # p => job'[w] = job[w]
        /\ \A q \in Inliners : q # p => claimed'[q] = claimed[q]
        /\ UNCHANGED <<row, task, failures>>
    BY <1>1 DEF Abandon, CrashDeliverer, CrashClaimer, AfterRow, IInv, TypeOK,
                Deliverers, Claimers
  <1>3. \A e \in Events : ~Holds(p, e)'
    BY <1>2, WebhookDeliveryAssumption DEF Holds, Idle
  <1>4. Moves(p)
    BY <1>2, <1>3 DEF Moves, IInv, TypeOK
  <1>5. InlineJob(p)' /\ InlineBatch(p)'
    BY <1>2 DEF InlineJob, InlineBatch
  <1>6. QED
    BY <1>4, <1>5, InlineMoves

(* Only due rows are claimed, and a held row is not due. *)
LEMMA InlineClaim ==
    ASSUME IInv, InlineOK, NEW p \in Inliners, Claim(p) PROVE InlineOK'
  <1>1. PICK S \in SUBSET Due :
            /\ Lease(S)
            /\ claimed' = [claimed EXCEPT ![p] =
                             {[event |-> e, attempts |-> row[e].attempts] : e \in S}]
    BY DEF Claim
  <1>2. /\ job[p] = Idle /\ UNCHANGED <<job, task, failures>>
        /\ claimed'[p] = {[event |-> e, attempts |-> row[e].attempts] : e \in S}
        /\ \A q \in Inliners : q # p => claimed'[q] = claimed[q]
    BY <1>1 DEF Claim, IInv, TypeOK, Claimers
  <1>3. /\ S \subseteq Events /\ row \in [Events -> OutboxRows]
        /\ \A e \in S : row[e].status = "pending" /\ row[e].due
    BY DEF Due, IInv, TypeOK
  <1>4. ASSUME NEW e \in Events
        PROVE  /\ row'[e].status = row[e].status
               /\ row'[e].attempts = row[e].attempts
               /\ row'[e].due <=> e \notin S /\ row[e].due
    BY <1>1, <1>3 DEF Lease, OutboxRows
  <1>5. \A q \in Inliners, e \in S : ~Holds(q, e)
    BY <1>3, HeldIsLeased DEF Leased
  <1>6. \A e \in Events : Leased(e) => Leased(e)'
    BY <1>4 DEF Leased
  <1>7. \A e \in Events : task'[e] = "none" /\ QueueRow(e)'
    BY <1>2, <1>4 DEF InlineOK, QueueRow
  <1>8. \A q \in Inliners : InlineJob(q)'
    BY <1>2, <1>4, <1>6 DEF InlineOK, InlineJob
  <1>9. ASSUME NEW q \in Inliners PROVE InlineBatch(q)'
    <2>1. CASE q = p
      <3>1. \A s \in claimed'[p] : \E e \in S :
                s = [event |-> e, attempts |-> row[e].attempts]
        BY <1>2
      <3>2. \A e \in S : row[e].attempts \in Nat
        BY <1>3 DEF OutboxRows
      <3>3. \A e \in S : Leased(e)' /\ row'[e].attempts = row[e].attempts
        BY <1>3, <1>4 DEF Leased
      <3>4. QED
        BY <1>3, <2>1, <3>1, <3>2, <3>3 DEF InlineBatch, Snapshots
    <2>2. CASE q # p
      <3>1. InlineBatch(q) /\ claimed'[q] = claimed[q]
        BY <1>2, <2>2 DEF InlineOK
      <3>2. QED
        BY <1>4, <1>6, <3>1 DEF InlineBatch, Snapshots
    <2>3. QED
      BY <2>1, <2>2
  <1>10. \A e \in Events : Holds(p, e)' => e \in S
    BY <1>2, WebhookDeliveryAssumption DEF Holds, Idle
  <1>11. \A q \in Inliners, e \in Events : q # p /\ Holds(q, e)' => Holds(q, e)
    BY <1>2 DEF Holds
  <1>12. Apart'
    BY <1>5, <1>10, <1>11 DEF InlineOK, Apart
  <1>13. QED
    BY <1>2, <1>7, <1>8, <1>9, <1>12 DEF InlineOK

(* An event is emitted, or becomes due when nobody holds it. *)
LEMMA InlineTime ==
    ASSUME IInv, InlineOK, InTime, NEW e \in Events, Emit(e) \/ BecomesDue(e)
    PROVE  InlineOK'
  <1>1. /\ UNCHANGED <<job, claimed, task, failures>>
        /\ \A d \in Events : d # e => row'[d] = row[d]
        /\ row[e] \in OutboxRows /\ failures[e] \in Nat
    BY DEF Emit, BecomesDue, IInv, TypeOK
  <1>2. \A p \in Inliners : ~Holds(p, e)
    <2>1. CASE Emit(e)
      BY <2>1, HeldIsLeased DEF Emit, Leased
    <2>2. CASE BecomesDue(e)
      BY <2>2, WebhookDeliveryAssumption DEF BecomesDue, InTime, IInv, TypeOK
    <2>3. QED
      BY <2>1, <2>2
  <1>3. QueueRow(e)'
    <2>1. CASE Emit(e)
      <3>1. row'[e] = NewRow
        BY <2>1 DEF Emit, IInv, TypeOK
      <3>2. QED
        BY <1>1, <3>1, WebhookDeliveryAssumption DEF NewRow, QueueRow
    <2>2. CASE BecomesDue(e)
      <3>1. row'[e].status = row[e].status /\ row'[e].attempts = row[e].attempts
        BY <2>2 DEF BecomesDue, IInv, TypeOK, OutboxRows
      <3>2. QED
        BY <1>1, <3>1 DEF InlineOK, QueueRow
    <2>3. QED
      BY <2>1, <2>2
  <1>4. \A d \in Events : task'[d] = "none" /\ QueueRow(d)'
    BY <1>1, <1>3 DEF InlineOK, QueueRow
  <1>5. ASSUME NEW q \in Inliners PROVE InlineJob(q)' /\ InlineBatch(q)'
    <2>1. InlineJob(q) /\ InlineBatch(q)
      BY DEF InlineOK
    <2>2. job[q].event # e /\ \A s \in claimed[q] : s.event # e
      BY <1>2 DEF Holds
    <2>3. InlineJob(q)'
      BY <1>1, <2>1, <2>2 DEF InlineJob, Leased
    <2>4. InlineBatch(q)'
      BY <1>1, <2>1, <2>2 DEF InlineBatch, Leased, Snapshots
    <2>5. QED
      BY <2>3, <2>4
  <1>6. QED
    BY <1>1, <1>4, <1>5 DEF InlineOK, Apart, Holds

LEMMA InlineNext ==
    ASSUME Dispatchers = {}, IInv, InlineOK, InTime, [Next]_vars
    PROVE  InlineOK'
  <1>1. CASE UNCHANGED vars
    BY <1>1 DEF vars, InlineOK, InlineJob, InlineBatch, Leased, QueueRow, Apart,
                Holds
  <1>2. CASE Environment
    <2>1. ASSUME NEW e \in Events PROVE ~Recover(e)
      BY DEF Recover, InlineOK
    <2>2. CASE CreateEndpoint \/ DisableEndpoint
      BY <2>2 DEF CreateEndpoint, DisableEndpoint, InlineOK, InlineJob,
                  InlineBatch, Leased, QueueRow, Apart, Holds
    <2>3. QED
      BY <1>2, <2>1, <2>2, InlineTime DEF Environment
  <1>3. ASSUME NEW w \in Deliverers, Serve(w) PROVE InlineOK'
    <2>1. CASE w \in Workers
      <3>1. job[w].pc = "idle" /\ \A e \in Events : task[e] # "queued"
        BY <2>1 DEF InlineOK, Idle
      <3>2. w \notin Inliners
        BY <2>1, WebhookDeliveryAssumption DEF Claimers
      <3>3. QED
        BY <1>3, <3>1, <3>2 DEF Serve, TaskStarts, Load, Finish, Find, Post, Log,
                                Mark
    <2>2. CASE w \in Inliners /\ w \notin Workers
      BY <1>3, <2>2, InlineDeliverNext, InlineWorks, InlineMark DEF Serve
    <2>3. QED
      BY <2>1, <2>2 DEF Deliverers
  <1>4. CASE Work
    BY <1>3, <1>4, InlineClaim DEF Work, Claimers
  <1>5. CASE Fault
    <2>1. ~LoseQueue
      BY DEF LoseQueue, InlineOK, IInv, TypeOK
    <2>2. ASSUME NEW w \in Workers
          PROVE  ~Shutdown(w) /\ ~Abandon(w) /\ ~CrashDeliverer(w)
      BY DEF Shutdown, Abandon, CrashDeliverer, InlineOK, Idle
    <2>3. QED
      BY <1>5, <2>1, <2>2, InlineEnds DEF Fault, Claimers, Deliverers
  <1>6. QED
    BY <1>1, <1>2, <1>4, <1>5 DEF Next

(* The invariant in every behaviour in which the lease is long enough. *)
LEMMA InlineInvariance ==
    ASSUME Dispatchers = {} PROVE Spec /\ []InTime => []InlineOK
  <1>1. IInv /\ InlineOK /\ InTime /\ [Next]_vars => InlineOK'
    BY InlineNext
  <1>2. QED
    BY <1>1, InlineInit, Invariance, PTL DEF Spec

(***************************************************************************)
(* Any number of inline processors that crash and fail at any step never   *)
(* deliver one row at the same time, in every behaviour in which no batch  *)
(* has as many POSTs time out as fit into the lease (ClaimDueOutbox,       *)
(* ProcessDue): the lease is all it takes, but it does take that.          *)
(***************************************************************************)
THEOREM LeaseExcludes ==
    ASSUME Dispatchers = {} PROVE Spec /\ []InTime => []OneDeliveryAtATime
  <1>1. InlineOK => OneDeliveryAtATime
    <2> SUFFICES ASSUME InlineOK, NEW e \in Events,
                        NEW v \in Deliverers, NEW w \in Deliverers,
                        Delivering(v, e), Delivering(w, e)
                 PROVE  v = w
      BY DEF OneDeliveryAtATime
    <2>1. v \in Inliners /\ w \in Inliners
      BY DEF InlineOK, Delivering, Idle, Deliverers
    <2>2. Holds(v, e) /\ Holds(w, e)
      BY DEF Delivering, Holds
    <2>3. QED
      BY <2>1, <2>2 DEF InlineOK, Apart
  <1>2. QED
    BY <1>1, InlineInvariance, PTL

LEMMA InlineRowsStay ==
    ASSUME Dispatchers = {}, IInv, InlineOK, [Next]_vars, NEW e \in Events,
           row[e].status \in {"delivered", "dead"}
    PROVE  row'[e].status = row[e].status /\ row'[e].attempts = row[e].attempts
  <1>1. row \in [Events -> OutboxRows]
    BY DEF IInv, TypeOK
  <1>2. ASSUME NEW d \in Events, Emit(d) \/ BecomesDue(d)
        PROVE  row'[e].status = row[e].status /\ row'[e].attempts = row[e].attempts
    <2>1. CASE Emit(d)
      BY <1>1, <2>1 DEF Emit
    <2>2. CASE BecomesDue(d)
      BY <1>1, <2>2 DEF BecomesDue, OutboxRows
    <2>3. QED
      BY <1>2, <2>1, <2>2
  <1>3. ASSUME NEW p \in Claimers, Claim(p)
        PROVE  row'[e].status = row[e].status /\ row'[e].attempts = row[e].attempts
    BY <1>3, ClaimFacts
  <1>4. ASSUME NEW w \in Deliverers, Mark(w) PROVE row'[e] = row[e]
    <2>1. job[w].pc = "mark" /\ job[w] # Idle
      BY <1>4 DEF Mark, Idle
    <2>2. InlineJob(w)
      BY <2>1 DEF InlineOK, Deliverers
    <2>3. row[job[w].event].status = "pending"
      BY <2>1, <2>2 DEF InlineJob, Leased
    <2>4. QED
      BY <1>1, <1>4, <2>3 DEF Mark
  <1>5. \/ row' = row
        \/ \E d \in Events : Emit(d) \/ BecomesDue(d)
        \/ \E p \in Claimers : Claim(p)
        \/ \E w \in Deliverers : Mark(w)
    BY DEF Next, vars, Environment, Work, Fault, Serve, Recover, CreateEndpoint,
           DisableEndpoint, Enqueue, EnqueueFails, TaskStarts, Load, Finish,
           DeliverNext, Find, Post, Log, Shutdown, Abandon, CrashDeliverer,
           CrashClaimer, LoseQueue
  <1>6. QED
    BY <1>2, <1>3, <1>4, <1>5

(***************************************************************************)
(* In the same behaviours no inline processor marks a settled row again:   *)
(* the row it works on is still pending when it is marked.                 *)
(***************************************************************************)
THEOREM LeaseSettles ==
    ASSUME Dispatchers = {} PROVE Spec /\ []InTime => RetiredStaysRetired
  <1>1. IInv /\ InlineOK /\ [Next]_vars =>
          [~lost => \A e \in Events :
              row[e].status \in {"delivered", "dead"} =>
                  /\ row'[e].status = row[e].status
                  /\ row'[e].attempts = row[e].attempts]_vars
    BY InlineRowsStay
  <1>2. QED
    BY <1>1, Invariance, InlineInvariance, PTL DEF Spec, RetiredStaysRetired

(* And a row is dead only after MaxAttempts logged failures. *)
THEOREM LeaseDeath ==
    ASSUME Dispatchers = {} PROVE Spec /\ []InTime => []DeadIsDeserved
  <1>1. InlineOK => DeadIsDeserved
    BY DEF InlineOK, QueueRow, DeadIsDeserved
  <1>2. QED
    BY <1>1, InlineInvariance, PTL
-----------------------------------------------------------------------------
(***************************************************************************)
(* When the lease is long enough: each row of a batch takes one POST.      *)
(***************************************************************************)
Posting(p) == IF job[p].pc \in {"find", "post"} THEN 1 ELSE 0

LEMMA ImageOfRows ==
    ASSUME NEW S \in SUBSET Events, IsFiniteSet(S)
    PROVE  LET T == {[event |-> e, attempts |-> row[e].attempts] : e \in S}
           IN  IsFiniteSet(T) /\ Cardinality(T) <= Cardinality(S)
  <1> DEFINE T == {[event |-> e, attempts |-> row[e].attempts] : e \in S}
             f == [e \in S |-> [event |-> e, attempts |-> row[e].attempts]]
  <1>1. f \in Surjection(S, T)
    BY DEF Surjection
  <1>2. QED
    BY <1>1, FS_Surjection

(* A processor's batch: finite, and with its timeouts within Batch. *)
BatchOK(p) ==
    /\ IsFiniteSet(claimed[p])
    /\ slow[p] + Cardinality(claimed[p]) + Posting(p) <= Batch

LEMMA BatchKept ==
    ASSUME NEW p \in Inliners, BatchOK(p),
           slow[p] \in Nat, slow'[p] \in Nat,
           claimed'[p] = claimed[p],
           slow'[p] + Posting(p)' <= slow[p] + Posting(p)
    PROVE  BatchOK(p)'
  <1>1. Cardinality(claimed[p]) \in Nat
    BY FS_CardinalityType DEF BatchOK
  <1>2. Posting(p) \in Nat /\ Posting(p)' \in Nat
    BY DEF Posting
  <1>3. QED
    BY <1>1, <1>2, WebhookDeliveryAssumption DEF BatchOK

LEMMA BatchEnded ==
    ASSUME IInv, NEW p \in Inliners, BatchOK(p), claimed'[p] = {},
           UNCHANGED slow, job'[p] = Idle
    PROVE  BatchOK(p)'
  <1>1. Cardinality(claimed[p]) \in Nat /\ slow[p] \in Nat /\ Posting(p) \in Nat
    BY FS_CardinalityType DEF BatchOK, IInv, TypeOK, Posting
  <1>2. Posting(p)' = 0
    BY DEF Posting, Idle
  <1>3. QED
    BY <1>1, <1>2, FS_EmptySet, WebhookDeliveryAssumption DEF BatchOK

LEMMA BatchClaimed ==
    ASSUME IsFiniteSet(Events), IInv, NEW p \in Inliners, Claim(p)
    PROVE  BatchOK(p)'
  <1>1. PICK S \in SUBSET Due :
            /\ Cardinality(S) <= Batch
            /\ claimed' = [claimed EXCEPT ![p] =
                             {[event |-> e, attempts |-> row[e].attempts] : e \in S}]
    BY DEF Claim
  <1>2. S \in SUBSET Events /\ IsFiniteSet(S)
    BY FS_Subset DEF Due
  <1>3. PICK T : T = {[event |-> e, attempts |-> row[e].attempts] : e \in S}
    OBVIOUS
  <1>4. /\ claimed'[p] = T /\ slow'[p] = 0 /\ job'[p] = Idle
    BY <1>1, <1>3 DEF Claim, IInv, TypeOK, Claimers
  <1>5. IsFiniteSet(T) /\ Cardinality(T) <= Cardinality(S)
    BY <1>2, <1>3, ImageOfRows
  <1>6. Posting(p)' = 0
    BY <1>4 DEF Posting, Idle
  <1>7. Cardinality(T) \in Nat /\ Cardinality(S) \in Nat
    BY <1>2, <1>5, FS_CardinalityType
  <1>8. Cardinality(S) <= Batch
    BY <1>1
  <1>9. slow'[p] + Cardinality(claimed'[p]) + Posting(p)' <= Batch
    BY <1>4, <1>5, <1>6, <1>7, <1>8, WebhookDeliveryAssumption
  <1>10. QED
    BY <1>4, <1>5, <1>9 DEF BatchOK

LEMMA BatchDeliverNext ==
    ASSUME IInv, NEW p \in Inliners, BatchOK(p), DeliverNext(p)
    PROVE  BatchOK(p)'
  <1>1. PICK s \in claimed[p] : claimed'[p] = claimed[p] \ {s}
    BY DEF DeliverNext, IInv, TypeOK, Claimers
  <1>2. /\ slow[p] \in Nat /\ slow'[p] = slow[p] /\ Posting(p) = 0
        /\ Posting(p)' = 1
    BY DEF DeliverNext, IInv, TypeOK, Posting, Idle, Deliverers
  <1>3. /\ IsFiniteSet(claimed'[p]) /\ Cardinality(claimed[p]) \in Nat
        /\ Cardinality(claimed'[p]) = Cardinality(claimed[p]) - 1
    BY <1>1, FS_RemoveElement, FS_CardinalityType DEF BatchOK
  <1>4. QED
    BY <1>2, <1>3, WebhookDeliveryAssumption DEF BatchOK

LEMMA BatchWorks ==
    ASSUME IInv, NEW p \in Inliners, BatchOK(p),
           Find(p) \/ Post(p) \/ Log(p) \/ Mark(p)
    PROVE  BatchOK(p)'
  <1>1. /\ job \in [Deliverers -> Jobs] /\ p \in Deliverers /\ p \notin Workers
        /\ slow \in [Inliners -> 0..LeasePosts] /\ slow[p] \in Nat
        /\ slow[p] <= LeasePosts /\ claimed'[p] = claimed[p]
    BY WebhookDeliveryAssumption
       DEF IInv, TypeOK, Deliverers, Claimers, Find, Post, Log, Mark
  <1>2. CASE Find(p)
    <2>1. slow' = slow /\ Posting(p) = 1 /\ Posting(p)' \in {0, 1}
      BY <1>1, <1>2 DEF Find, Posting, Jobs
    <2>2. QED
      BY <1>1, <2>1, BatchKept
  <1>3. CASE Post(p)
    <2>1. Posting(p) = 1 /\ Posting(p)' = 0
      BY <1>1, <1>3 DEF Post, Posting, Jobs
    <2>2. slow'[p] \in {slow[p], slow[p] + 1}
      BY <1>1, <1>3 DEF Post
    <2>3. QED
      BY <1>1, <2>1, <2>2, BatchKept
  <1>4. CASE Log(p) \/ Mark(p)
    <2>1. slow' = slow /\ Posting(p) = 0 /\ Posting(p)' = 0
      BY <1>1, <1>4 DEF Log, Mark, AfterRow, Posting, Jobs, Idle
    <2>2. QED
      BY <1>1, <2>1, BatchKept
  <1>5. QED
    BY <1>2, <1>3, <1>4

LEMMA BatchNext ==
    ASSUME IsFiniteSet(Events), IInv, \A p \in Inliners : BatchOK(p), [Next]_vars
    PROVE  (\A p \in Inliners : BatchOK(p))'
  <1> SUFFICES ASSUME NEW p \in Inliners PROVE BatchOK(p)'
    OBVIOUS
  <1>1. /\ p \in Claimers /\ p \in Deliverers /\ p \notin Workers
        /\ p \notin Dispatchers /\ slow[p] \in Nat
    BY WebhookDeliveryAssumption DEF Claimers, Deliverers, IInv, TypeOK
  <1>2. Posting(p) \in Nat
    BY DEF Posting
  <1>3. CASE /\ claimed'[p] = claimed[p] /\ slow'[p] = slow[p] /\ job'[p] = job[p]
    BY <1>1, <1>2, <1>3, BatchKept DEF Posting
  <1>4. CASE Environment \/ LoseQueue \/ UNCHANGED vars
    BY <1>3, <1>4 DEF Environment, LoseQueue, vars, Emit, BecomesDue, Recover,
                      CreateEndpoint, DisableEndpoint
  <1>5. ASSUME NEW q \in Claimers, Claim(q) \/ CrashClaimer(q) PROVE BatchOK(p)'
    <2>1. CASE q # p
      BY <1>1, <1>3, <1>5, <2>1 DEF Claim, CrashClaimer, IInv, TypeOK
    <2>2. CASE q = p /\ Claim(q)
      BY <2>2, BatchClaimed
    <2>3. CASE q = p /\ CrashClaimer(q)
      <3>1. claimed'[p] = {} /\ job'[p] = Idle /\ UNCHANGED slow
        BY <1>1, <2>3 DEF CrashClaimer, IInv, TypeOK
      <3>2. QED
        BY <3>1, BatchEnded
    <2>4. QED
      BY <1>5, <2>1, <2>2, <2>3
  <1>6. ASSUME NEW d \in Dispatchers, Enqueue(d) \/ EnqueueFails(d)
        PROVE  BatchOK(p)'
    BY <1>1, <1>3, <1>6 DEF Enqueue, EnqueueFails, IInv, TypeOK
  <1>7. ASSUME NEW w \in Deliverers, Serve(w) PROVE BatchOK(p)'
    <2>1. CASE w # p
      BY <1>1, <1>3, <1>7, <2>1
         DEF Serve, TaskStarts, Load, Finish, DeliverNext, Find, Post, Log, Mark,
             AfterRow, IInv, TypeOK
    <2>2. CASE w = p
      BY <1>1, <1>7, <2>2, BatchDeliverNext, BatchWorks DEF Serve
    <2>3. QED
      BY <2>1, <2>2
  <1>8. ASSUME NEW w \in Deliverers, Abandon(w) \/ CrashDeliverer(w)
        PROVE  BatchOK(p)'
    <2>1. CASE w # p
      BY <1>1, <1>3, <1>8, <2>1
         DEF Abandon, CrashDeliverer, AfterRow, IInv, TypeOK
    <2>2. CASE w = p
      <3>1. claimed'[p] = {} /\ job'[p] = Idle /\ UNCHANGED slow
        BY <1>1, <1>8, <2>2 DEF Abandon, CrashDeliverer, AfterRow, IInv, TypeOK
      <3>2. QED
        BY <3>1, BatchEnded
    <2>3. QED
      BY <2>1, <2>2
  <1>9. ASSUME NEW w \in Workers, Shutdown(w) PROVE BatchOK(p)'
    BY <1>1, <1>3, <1>9 DEF Shutdown, IInv, TypeOK
  <1>10. QED
    BY <1>4, <1>5, <1>6, <1>7, <1>8, <1>9 DEF Next, Work, Fault

(***************************************************************************)
(* A batch with fewer rows than POSTs fit into the lease is always in      *)
(* time, whatever the rows' receivers do (ProcessDue, leaseSeconds).       *)
(***************************************************************************)
THEOREM SmallBatchesInTime ==
    ASSUME IsFiniteSet(Events), Batch < LeasePosts PROVE Spec => []InTime
  <1>1. Init => \A p \in Inliners : BatchOK(p)
    BY FS_EmptySet, WebhookDeliveryAssumption
       DEF Init, BatchOK, Posting, Idle, Claimers, Deliverers
  <1>2. IInv /\ (\A p \in Inliners : BatchOK(p)) /\ [Next]_vars
            => (\A p \in Inliners : BatchOK(p))'
    BY BatchNext
  <1>3. IInv /\ (\A p \in Inliners : BatchOK(p)) => InTime
    <2> SUFFICES ASSUME IInv, NEW p \in Inliners, BatchOK(p)
                 PROVE  slow[p] < LeasePosts
      BY DEF InTime
    <2>1. slow[p] \in Nat /\ Cardinality(claimed[p]) \in Nat /\ Posting(p) \in Nat
      BY FS_CardinalityType DEF BatchOK, IInv, TypeOK, Posting
    <2>2. QED
      BY <2>1, WebhookDeliveryAssumption DEF BatchOK
  <1>4. QED
    BY <1>1, <1>2, <1>3, Invariance, PTL DEF Spec

(* So small batches are exclusive in every behaviour. *)
COROLLARY SmallBatchesExclude ==
    ASSUME Dispatchers = {}, IsFiniteSet(Events), Batch < LeasePosts
    PROVE  Spec => []OneDeliveryAtATime
  BY LeaseExcludes, SmallBatchesInTime, PTL
=============================================================================
