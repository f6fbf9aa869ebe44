------------------------- MODULE IdempotencyProofs -------------------------
(***************************************************************************)
(* Proofs about Idempotency, for any number of calls and keys and with     *)
(* every fault.                                                            *)
(***************************************************************************)
EXTENDS Idempotency, TLAPS

(* A call that was sent has a key and a fingerprint; only the answer of a  *)
(* call comes from another one.                                            *)
CallOK(c) ==
    /\ call[c].pc # "new" => call[c].key \in Keys /\ call[c].hash \in Hashes
    /\ call[c].from # Nil => call[c].pc = "answered"

(* The call whose answer is stored or replayed: it ran and was answered.   *)
Original(d) == call[d].pc = "answered" /\ call[d].from = d

(* A claim belongs to the call that inserted it.                           *)
ClaimOK(k) ==
    LET r == rows[k]
    IN  r # Nil =>
          /\ call[r.id].key = k /\ call[r.id].hash = r.hash
          /\ call[r.id].pc \notin {"new", "claim", "lookup"}
          /\ r.status = "completed" => r.response = r.id /\ Original(r.id)

ReplayOK(c) ==
    LET d == call[c].from
    IN  d # Nil => /\ Original(d)
                   /\ call[d].key = call[c].key /\ call[d].hash = call[c].hash
                   /\ call[d].answer = call[c].answer

(* A handler that is not slow still owns its claim.                        *)
ExecutorOK(c) ==
    Running(c) => LET r == rows[call[c].key]
                  IN  r # Nil /\ r.id = c /\ r.status = "in_flight" /\ ~r.old

IInv ==
    /\ TypeOK
    /\ \A c \in Calls : CallOK(c)
    /\ \A k \in Keys : ClaimOK(k)
    /\ \A c \in Calls : ReplayOK(c)
    /\ \A c \in Calls \ Slow : ExecutorOK(c)
-----------------------------------------------------------------------------
(* The initial states satisfy the invariant. *)
LEMMA InitInv == Init => IInv
  <1> SUFFICES ASSUME Init PROVE IInv
    OBVIOUS
  <1> USE IdempotencyAssumption DEF Init
  <1>1. TypeOK
    BY DEF TypeOK, CallStates, Unsent, Executing, Answers
  <1>2. \A c \in Calls : CallOK(c) /\ ReplayOK(c) /\ ExecutorOK(c)
    BY DEF CallOK, ReplayOK, ExecutorOK, Unsent, Running, Executing
  <1>3. \A k \in Keys : ClaimOK(k)
    BY DEF ClaimOK
  <1>4. QED
    BY <1>1, <1>2, <1>3 DEF IInv

(***************************************************************************)
(* A step of one call c before its claim, in the handler or into death:    *)
(* only its own record changes, and no table row.                          *)
(***************************************************************************)
LEMMA OwnStepInv ==
    ASSUME IInv, NEW c \in Calls, NEW x \in CallStates,
           rows' = rows, done' \in [Hashes -> SUBSET Calls],
           call' = [call EXCEPT ![c] = x],
           call[c].pc # "answered",
           x.from = Nil,
           x.pc # "new" => x.key \in Keys /\ x.hash \in Hashes,
           call[c].pc # "new" => x.key = call[c].key /\ x.hash = call[c].hash,
           x.pc \in {"new", "claim", "lookup"} =>
               call[c].pc \in {"new", "claim", "lookup"},
           x.pc \in Executing => Running(c)
    PROVE  IInv'
  <1> USE IdempotencyAssumption
  <1>0. /\ rows \in [Keys -> Rows \cup {Nil}]
        /\ call \in [Calls -> CallStates]
    BY DEF IInv, TypeOK
  <1>1. TypeOK'
    BY <1>0 DEF TypeOK
  <1>2. \A d \in Calls : CallOK(d)'
    BY <1>0 DEF IInv, CallOK
  <1>3. \A d \in Calls : Original(d) => Original(d)' /\ call'[d] = call[d]
    BY <1>0 DEF Original
  <1>4. ASSUME NEW k \in Keys PROVE ClaimOK(k)'
    <2> DEFINE r == rows[k]
    <2>1. ClaimOK(k)
      BY DEF IInv
    <2>2. r # Nil => r \in Rows
      BY <1>0
    <2>3. r # Nil => /\ call'[r.id].key = k /\ call'[r.id].hash = r.hash
                     /\ call'[r.id].pc \notin {"new", "claim", "lookup"}
      BY <1>0, <2>1, <2>2 DEF ClaimOK, Rows
    <2>4. r # Nil /\ r.status = "completed" =>
             r.response = r.id /\ Original(r.id)'
      BY <1>3, <2>1, <2>2 DEF ClaimOK, Rows
    <2>5. QED
      BY <2>3, <2>4 DEF ClaimOK, Original
  <1>5. ASSUME NEW d \in Calls PROVE ReplayOK(d)'
    <2>1. CASE d = c
      BY <2>1, <1>0 DEF ReplayOK
    <2>2. CASE d # c
      <3>1. call'[d] = call[d] /\ ReplayOK(d)
        BY <2>2, <1>0 DEF IInv
      <3>2. call[d].from \in Calls \cup {Nil}
        BY <1>0 DEF CallStates
      <3>3. QED
        BY <3>1, <3>2, <1>3 DEF ReplayOK
    <2>3. QED
      BY <2>1, <2>2
  <1>6. ASSUME NEW d \in Calls \ Slow PROVE ExecutorOK(d)'
    <2>1. ExecutorOK(d)
      BY <1>6 DEF IInv
    <2>2. CASE d = c
      <3>1. call'[c] = x
        BY <1>0
      <3>2. Running(c)' => Running(c) /\ x.key = call[c].key
        BY <3>1 DEF Running, Executing
      <3>3. QED
        BY <2>1, <2>2, <3>1, <3>2 DEF ExecutorOK
    <2>3. CASE d # c
      <3>1. call'[d] = call[d]
        BY <2>3, <1>0
      <3>2. QED
        BY <2>1, <3>1 DEF ExecutorOK, Running
    <2>4. QED
      BY <2>2, <2>3
  <1>7. QED
    BY <1>1, <1>2, <1>4, <1>5, <1>6 DEF IInv

(* What the two updates of a call's record do. *)
LEMMA PcUpdate ==
    ASSUME NEW r \in CallStates, NEW pc \in {"lookup", "dead"} \cup Executing
    PROVE  \E y \in CallStates :
              /\ y = [r EXCEPT !.pc = pc]
              /\ y.pc = pc /\ y.from = r.from
              /\ y.key = r.key /\ y.hash = r.hash
  <1> DEFINE z == [r EXCEPT !.pc = pc]
  <1>1. z \in CallStates
    BY DEF CallStates
  <1>2. z.pc = pc /\ z.from = r.from /\ z.key = r.key /\ z.hash = r.hash
    BY DEF CallStates
  <1>3. QED
    BY <1>1, <1>2

LEMMA AnswerUpdate ==
    ASSUME NEW r \in CallStates,
           NEW a \in Answers \cup {Nil}, NEW d \in Calls \cup {Nil}
    PROVE  \E y \in CallStates :
              /\ y = WithAnswer(r, a, d)
              /\ y.pc = "answered" /\ y.answer = a /\ y.from = d
              /\ y.key = r.key /\ y.hash = r.hash
  <1> DEFINE w == WithAnswer(r, a, d)
  <1>1. w \in CallStates
    BY DEF CallStates, WithAnswer
  <1>2. /\ w.pc = "answered" /\ w.answer = a /\ w.from = d
        /\ w.key = r.key /\ w.hash = r.hash
    BY DEF CallStates, WithAnswer
  <1>3. QED
    BY <1>1, <1>2

(* The steps that only move the call's own record along. *)
LEMMA OwnStepsInv ==
    ASSUME IInv, NEW c \in Calls,
           \/ Send(c) \/ LosesClaim(c) \/ Apply(c) \/ Refuse(c) \/ Break(c)
           \/ Fail(c) \/ Crash(c)
    PROVE  IInv'
  <1> USE IdempotencyAssumption
  <1>0. /\ call \in [Calls -> CallStates] /\ CallOK(c)
        /\ done \in [Hashes -> SUBSET Calls]
    BY DEF IInv, TypeOK
  <1>1. CASE Send(c)
    <2>1. PICK k \in Keys, h \in Hashes :
             call' = [call EXCEPT ![c] = [call[c] EXCEPT !.pc = "claim",
                                                         !.key = k, !.hash = h]]
      BY <1>1, <1>0 DEF Send
    <2> DEFINE x == [call[c] EXCEPT !.pc = "claim", !.key = k, !.hash = h]
    <2>a. call[c] \in CallStates /\ call[c].pc = "new" /\ call[c].from = Nil
      BY <1>0, <1>1 DEF CallOK, Send
    <2>b. x \in CallStates
      BY <2>a DEF CallStates
    <2>2. x \in CallStates /\ x.from = Nil /\ x.pc = "claim"
          /\ x.key = k /\ x.hash = h /\ call[c].pc = "new"
      BY <2>a, <2>b DEF CallStates
    <2>3. PICK y \in CallStates : y = x
      BY <2>2
    <2>4. /\ rows' = rows /\ done' = done
          /\ call' = [call EXCEPT ![c] = y]
      BY <1>1, <2>1, <2>3 DEF Send
    <2>5. y.from = Nil /\ y.pc = "claim" /\ y.key \in Keys /\ y.hash \in Hashes
      BY <2>2, <2>3
    <2> HIDE DEF x
    <2>6. QED
      BY <1>0, <2>2, <2>4, <2>5, OwnStepInv DEF Executing
  <1>2. CASE \/ LosesClaim(c) \/ Apply(c) \/ Refuse(c) \/ Break(c) \/ Crash(c)
    <2>1. PICK pc \in {"lookup", "dead"} \cup Executing :
             /\ call' = [call EXCEPT ![c] = [call[c] EXCEPT !.pc = pc]]
             /\ call[c].pc \notin {"new", "answered"}
             /\ pc = "lookup" => call[c].pc = "claim"
             /\ pc \in Executing => Running(c)
      BY <1>2 DEF LosesClaim, Apply, Refuse, Break, Crash, At, Running, Executing
    <2>2. call[c] \in CallStates /\ call[c].from = Nil
      BY <1>0, <2>1 DEF CallOK
    <2>3. PICK y \in CallStates :
             /\ y = [call[c] EXCEPT !.pc = pc]
             /\ y.pc = pc /\ y.from = Nil
             /\ y.key = call[c].key /\ y.hash = call[c].hash
      BY <2>2, PcUpdate
    <2>4. rows' = rows
      BY <1>2 DEF LosesClaim, Apply, Refuse, Break, Crash
    <2>5. done' \in [Hashes -> SUBSET Calls]
      BY <1>0, <1>2, <2>1 DEF LosesClaim, Apply, Refuse, Break, Crash, CallOK
    <2>6. /\ call' = [call EXCEPT ![c] = y]
          /\ y.from = Nil /\ y.key = call[c].key /\ y.hash = call[c].hash
          /\ y.pc = pc /\ y.pc \notin {"new", "claim"}
          /\ y.key \in Keys /\ y.hash \in Hashes
      BY <1>0, <2>1, <2>3 DEF CallOK, Executing
    <2>7. y.pc \in {"new", "claim", "lookup"} =>
             call[c].pc \in {"new", "claim", "lookup"}
      BY <2>1, <2>6
    <2>8. QED
      BY <2>1, <2>4, <2>5, <2>6, <2>7, OwnStepInv
  <1>3. CASE Fail(c)
    <2>1. call[c] \in CallStates /\ "error" \in Answers \cup {Nil}
          /\ Nil \in Calls \cup {Nil}
          /\ call[c].pc \in {"claim", "lookup"}
      BY <1>0, <1>3 DEF Fail, Answers
    <2>2. PICK y \in CallStates :
             /\ y = WithAnswer(call[c], "error", Nil)
             /\ y.pc = "answered" /\ y.answer = "error" /\ y.from = Nil
             /\ y.key = call[c].key /\ y.hash = call[c].hash
      BY <2>1, AnswerUpdate
    <2>3. rows' = rows /\ done' = done /\ call' = [call EXCEPT ![c] = y]
      BY <1>0, <1>3, <2>2 DEF Fail, Answered
    <2>4. y.key \in Keys /\ y.hash \in Hashes
      BY <1>0, <2>1, <2>2 DEF CallOK
    <2>5. QED
      BY <1>0, <2>1, <2>2, <2>3, <2>4, OwnStepInv DEF Executing
  <1>4. QED
    BY <1>1, <1>2, <1>3

(***************************************************************************)
(* A duplicate is answered: with an error of its own, or with the stored   *)
(* answer, which is that of the call whose claim it found.                 *)
(***************************************************************************)
LEMMA LookupInv ==
    ASSUME IInv, NEW c \in Calls, Lookup(c)
    PROVE  IInv'
  <1> USE IdempotencyAssumption
  <1>0. /\ call \in [Calls -> CallStates] /\ CallOK(c)
        /\ rows \in [Keys -> Rows \cup {Nil}]
        /\ done \in [Hashes -> SUBSET Calls]
        /\ call[c].pc = "lookup"
        /\ rows' = rows /\ done' = done
    BY DEF IInv, TypeOK, Lookup
  <1> DEFINE row == rows[call[c].key]
  <1>1. call[c].key \in Keys /\ call[c].hash \in Hashes /\ call[c].from = Nil
    BY <1>0 DEF CallOK
  <1>2. CASE \E a \in Answers : call' = Answered(c, a, Nil)
    <2>1. PICK a \in Answers : call' = Answered(c, a, Nil)
      BY <1>2
    <2>2. PICK y \in CallStates :
             /\ y = WithAnswer(call[c], a, Nil)
             /\ y.pc = "answered" /\ y.answer = a /\ y.from = Nil
             /\ y.key = call[c].key /\ y.hash = call[c].hash
      <3>1. call[c] \in CallStates /\ a \in Answers \cup {Nil}
            /\ Nil \in Calls \cup {Nil}
        BY <1>0
      <3>2. QED
        BY <3>1, AnswerUpdate
    <2>3. call' = [call EXCEPT ![c] = y]
      BY <1>0, <2>1, <2>2 DEF Answered
    <2>4. QED
      BY <1>0, <1>1, <2>2, <2>3, OwnStepInv DEF Executing
  <1>3. CASE /\ row # Nil /\ ~Reused(c) /\ row.status = "completed"
             /\ call' = Answered(c, call[row.response].answer, row.response)
    <2>1. PICK d \in Calls : d = row.id
      BY <1>0, <1>1, <1>3 DEF Rows
    <2>2. /\ row.response = d /\ Original(d)
          /\ call[d].key = call[c].key /\ call[d].hash = call[c].hash
      BY <1>1, <1>3, <2>1 DEF IInv, ClaimOK, Reused
    <2>3. PICK a \in Answers \cup {Nil} : a = call[d].answer
      BY <1>0 DEF CallStates
    <2>4. call' = Answered(c, a, d)
      BY <1>3, <2>2, <2>3
    <2> HIDE DEF row
    <2>5. /\ call'[c].pc = "answered" /\ call'[c].from = d
          /\ call'[c].answer = a
          /\ call'[c].key = call[c].key /\ call'[c].hash = call[c].hash
          /\ call' \in [Calls -> CallStates]
          /\ \A e \in Calls \ {c} : call'[e] = call[e]
      <3>1. PICK y \in CallStates :
               /\ y = WithAnswer(call[c], a, d)
               /\ y.pc = "answered" /\ y.answer = a /\ y.from = d
               /\ y.key = call[c].key /\ y.hash = call[c].hash
        <4>1. call[c] \in CallStates /\ d \in Calls \cup {Nil}
          BY <1>0
        <4>2. QED
          BY <4>1, AnswerUpdate
      <3>2. call' = [call EXCEPT ![c] = y]
        BY <1>0, <2>4, <3>1 DEF Answered
      <3>3. QED
        BY <1>0, <3>1, <3>2
    <2>6. \A e \in Calls : Original(e) => e # c /\ Original(e)'
      BY <1>0, <2>5 DEF Original
    <2>7. TypeOK'
      BY <1>0, <2>5 DEF TypeOK
    <2>8. \A e \in Calls : CallOK(e)'
      BY <1>0, <1>1, <2>5 DEF IInv, CallOK
    <2>9. ASSUME NEW k \in Keys PROVE ClaimOK(k)'
      <3>1. ClaimOK(k) /\ (rows[k] # Nil => rows[k] \in Rows)
        BY <1>0 DEF IInv
      <3>2. rows[k] # Nil => rows[k].id \in Calls \ {c}
        BY <1>0, <3>1 DEF ClaimOK, Rows
      <3>3. QED
        BY <1>0, <2>5, <2>6, <3>1, <3>2 DEF ClaimOK
    <2>10. ASSUME NEW e \in Calls PROVE ReplayOK(e)'
      <3>1. CASE e = c
        <4>1. d # c /\ Original(d)' /\ call'[d] = call[d]
          BY <2>2, <2>5, <2>6
        <4>2. QED
          BY <2>2, <2>3, <2>5, <3>1, <4>1 DEF ReplayOK
      <3>2. CASE e # c
        <4>1. call'[e] = call[e] /\ ReplayOK(e)
              /\ call[e].from \in Calls \cup {Nil}
          BY <1>0, <2>5, <3>2 DEF IInv, CallStates
        <4>2. call[e].from # Nil =>
                 /\ call[e].from \in Calls \ {c} /\ Original(call[e].from)
          BY <2>6, <4>1 DEF ReplayOK
        <4>3. QED
          BY <2>5, <2>6, <4>1, <4>2 DEF ReplayOK
      <3>3. QED
        BY <3>1, <3>2
    <2>11. ASSUME NEW e \in Calls \ Slow PROVE ExecutorOK(e)'
      <3>1. CASE e = c
        BY <2>5, <3>1 DEF ExecutorOK, Running, Executing
      <3>2. CASE e # c
        <4>1. ExecutorOK(e) /\ call'[e] = call[e]
          BY <2>5, <2>11, <3>2 DEF IInv
        <4>2. QED
          BY <1>0, <4>1 DEF ExecutorOK, Running
      <3>3. QED
        BY <3>1, <3>2
    <2>12. QED
      BY <2>7, <2>8, <2>9, <2>10, <2>11 DEF IInv
  <1>4. row # Nil => row.status \in {"in_flight", "completed"}
    BY <1>0, <1>1 DEF Rows
  <1>5. QED
    BY <1>2, <1>3, <1>4 DEF Lookup, Answers

(***************************************************************************)
(* A step of a call c that writes the row of its key: its claim, or the    *)
(* write-back of what became of it.  y is its new record, z the new row.   *)
(***************************************************************************)
LEMMA WriteInv ==
    ASSUME IInv, NEW c \in Calls, NEW y \in CallStates,
           NEW z \in Rows \cup {Nil}, NEW k \in Keys,
           done' = done,
           call' = [call EXCEPT ![c] = y],
           k = call[c].key,
           rows' = [rows EXCEPT ![k] = z],
           call[c].pc \in {"claim"} \cup Executing,
           y.key = call[c].key, y.hash = call[c].hash,
           y.pc \in {"run", "answered"},
           y.from = Nil \/ (y.from = c /\ y.pc = "answered"),
           y.pc = "run" =>
               z # Nil /\ z.id = c /\ z.status = "in_flight" /\ ~z.old,
           \/ z = rows[k] /\ call[c].pc # "claim"
           \/ z = Nil /\ Mine(c)
           \/ /\ z # Nil /\ (rows[k] = Nil \/ Mine(c))
              /\ z.id = c /\ z.hash = y.hash
              /\ z.status = "completed" => z.response = c /\ y.from = c
    PROVE  IInv'
  <1> USE IdempotencyAssumption
  <1>0. /\ rows \in [Keys -> Rows \cup {Nil}]
        /\ call \in [Calls -> CallStates]
        /\ done \in [Hashes -> SUBSET Calls]
        /\ call[c].pc \notin {"new", "lookup", "answered", "dead"}
        /\ call'[c] = y /\ rows'[k] = z
        /\ \A e \in Calls \ {c} : call'[e] = call[e]
        /\ \A j \in Keys \ {k} : rows'[j] = rows[j]
    BY DEF IInv, TypeOK, Executing
  <1>1. TypeOK'
    BY <1>0 DEF TypeOK
  <1>2. y.key \in Keys /\ y.hash \in Hashes
    BY <1>0 DEF IInv, CallOK
  <1>3. \A e \in Calls : CallOK(e)'
    BY <1>0, <1>2 DEF IInv, CallOK
  <1>4. \A e \in Calls : Original(e) => e # c /\ Original(e)'
    BY <1>0 DEF Original
  <1>5. y.from = c => Original(c)'
    BY <1>0, IdempotencyAssumption DEF Original
  <1>6. ASSUME NEW j \in Keys, z = rows[k] \/ j # k PROVE ClaimOK(j)'
    <2>1. ClaimOK(j) /\ (rows[j] # Nil => rows[j] \in Rows) /\ rows'[j] = rows[j]
      BY <1>0, <1>6 DEF IInv
    <2>2. CASE rows[j] # Nil /\ rows[j].id = c
      BY <1>0, <1>4, <2>1, <2>2 DEF ClaimOK
    <2>3. CASE rows[j] # Nil /\ rows[j].id # c
      <3>1. PICK e \in Calls \ {c} : e = rows[j].id
        BY <2>1, <2>3 DEF Rows
      <3>2. call'[e] = call[e] /\ (Original(e) => Original(e)')
        BY <1>0, <1>4, <3>1
      <3>3. QED
        BY <2>1, <3>1, <3>2 DEF ClaimOK
    <2>4. CASE rows[j] = Nil
      BY <2>1, <2>4 DEF ClaimOK
    <2>5. QED
      BY <2>2, <2>3, <2>4
  <1>7. ASSUME z # rows[k] PROVE ClaimOK(k)'
    BY <1>0, <1>5, <1>7 DEF ClaimOK
  <1>8. ASSUME NEW e \in Calls PROVE ReplayOK(e)'
    <2>1. CASE e = c
      BY <1>0, <1>5, <2>1 DEF ReplayOK
    <2>2. CASE e # c
      <3>1. call'[e] = call[e] /\ ReplayOK(e)
            /\ call[e].from \in Calls \cup {Nil}
        BY <1>0, <2>2 DEF IInv, CallStates
      <3>2. call[e].from # Nil =>
               call[e].from \in Calls \ {c} /\ Original(call[e].from)
        BY <1>4, <3>1 DEF ReplayOK
      <3>3. QED
        BY <1>0, <1>4, <3>1, <3>2 DEF ReplayOK
    <2>3. QED
      BY <2>1, <2>2
  <1>9. ASSUME NEW e \in Calls \ Slow PROVE ExecutorOK(e)'
    <2>1. CASE e = c
      BY <1>0, <2>1 DEF ExecutorOK, Running, Executing
    <2>2. CASE e # c
      <3>1. ExecutorOK(e) /\ call'[e] = call[e]
        BY <1>0, <1>9, <2>2 DEF IInv
      <3>2. Running(e) => call[e].key \in Keys
        BY <1>0, <3>1 DEF IInv, CallOK, Running, Executing
      <3>3. Running(e) /\ call[e].key = k => z = rows[k]
        BY <2>2, <3>1 DEF ExecutorOK, Mine
      <3>4. QED
        BY <1>0, <3>1, <3>2, <3>3 DEF ExecutorOK, Running
    <2>3. QED
      BY <2>1, <2>2
  <1>10. QED
    BY <1>1, <1>3, <1>6, <1>7, <1>8, <1>9 DEF IInv

(***************************************************************************)
(* A step of time or of the worker: rows age or are deleted, but never the *)
(* claim of a running handler that is not slow.                            *)
(***************************************************************************)
LEMMA SweepInv ==
    ASSUME IInv, call' = call, done' = done,
           rows' \in [Keys -> Rows \cup {Nil}],
           \A k \in Keys :
              \/ rows'[k] = rows[k]
              \/ rows'[k] = Nil
              \/ /\ rows[k] # Nil /\ rows'[k] # Nil
                 /\ rows'[k].id = rows[k].id /\ rows'[k].hash = rows[k].hash
                 /\ rows'[k].status = rows[k].status
                 /\ rows'[k].response = rows[k].response,
           \A k \in Keys :
              rows'[k] # rows[k] /\ rows[k].id \notin Slow =>
                  ~(rows[k].status = "in_flight" /\ Running(rows[k].id))
    PROVE  IInv'
  <1>1. TypeOK'
    BY DEF IInv, TypeOK
  <1>2. \A c \in Calls : CallOK(c)' /\ ReplayOK(c)'
    BY DEF IInv, CallOK, ReplayOK, Original
  <1>3. \A k \in Keys : ClaimOK(k)'
    BY DEF IInv, ClaimOK, Original
  <1>4. ASSUME NEW c \in Calls \ Slow PROVE ExecutorOK(c)'
    <2>1. ExecutorOK(c)
      BY <1>4 DEF IInv
    <2>2. Running(c) => call[c].key \in Keys
      BY DEF IInv, CallOK, Running, Executing
    <2>3. Running(c) => rows'[call[c].key] = rows[call[c].key]
      BY <1>4, <2>1, <2>2 DEF ExecutorOK
    <2>4. QED
      BY <2>1, <2>3 DEF ExecutorOK, Running
  <1>5. QED
    BY <1>1, <1>2, <1>3, <1>4 DEF IInv

(* The winner of a key owns the new claim. *)
LEMMA ClaimInv ==
    ASSUME IInv, NEW c \in Calls, Claim(c)
    PROVE  IInv'
  <1> USE IdempotencyAssumption
  <1>0. /\ call[c] \in CallStates /\ call \in [Calls -> CallStates]
        /\ call[c].pc = "claim" /\ call[c].from = Nil
        /\ call[c].key \in Keys /\ call[c].hash \in Hashes
        /\ rows[call[c].key] = Nil /\ done' = done
    BY DEF IInv, TypeOK, CallOK, Claim, Unclaimed
  <1>1. PICK k \in Keys : k = call[c].key
    BY <1>0
  <1> DEFINE w == [id |-> c, hash |-> call[c].hash, status |-> "in_flight",
                   response |-> Nil, old |-> FALSE]
  <1>2. w \in Rows
    BY <1>0 DEF Rows
  <1>3. PICK z \in Rows : z = w
    BY <1>2
  <1>4. rows' = [rows EXCEPT ![k] = z]
    BY <1>1, <1>3 DEF Claim
  <1>5. /\ z # Nil /\ z.id = c /\ z.hash = call[c].hash
        /\ z.status = "in_flight" /\ ~z.old
    BY <1>3
  <1> HIDE DEF w
  <1>6. CASE call' = At(c, "run")
    <2>1. PICK y \in CallStates :
             /\ y = [call[c] EXCEPT !.pc = "run"]
             /\ y.pc = "run" /\ y.from = call[c].from
             /\ y.key = call[c].key /\ y.hash = call[c].hash
      <3>1. "run" \in {"lookup", "dead"} \cup Executing
        BY DEF Executing
      <3>2. QED
        BY <1>0, <3>1, PcUpdate
    <2>2. call' = [call EXCEPT ![c] = y]
      BY <1>0, <1>6, <2>1 DEF At
    <2>3. QED
      BY <1>0, <1>1, <1>4, <1>5, <2>1, <2>2, WriteInv
  <1>7. CASE call' = Answered(c, "error", Nil)
    <2>1. PICK y \in CallStates :
             /\ y = WithAnswer(call[c], "error", Nil)
             /\ y.pc = "answered" /\ y.answer = "error" /\ y.from = Nil
             /\ y.key = call[c].key /\ y.hash = call[c].hash
      <3>1. "error" \in Answers \cup {Nil} /\ Nil \in Calls \cup {Nil}
        BY DEF Answers
      <3>2. QED
        BY <1>0, <3>1, AnswerUpdate
    <2>2. call' = [call EXCEPT ![c] = y]
      BY <1>0, <1>7, <2>1 DEF Answered
    <2>3. QED
      BY <1>0, <1>1, <1>4, <1>5, <2>1, <2>2, WriteInv
  <1>8. QED
    BY <1>6, <1>7 DEF Claim

(* A final answer is stored in the call's own claim, if that still exists. *)
LEMMA CompleteInv ==
    ASSUME IInv, NEW c \in Calls, Complete(c)
    PROVE  IInv'
  <1> USE IdempotencyAssumption
  <1>0. /\ call[c] \in CallStates /\ call \in [Calls -> CallStates]
        /\ rows \in [Keys -> Rows \cup {Nil}]
        /\ call[c].pc \in {"ran", "refused"}
        /\ call[c].key \in Keys /\ call[c].hash \in Hashes
        /\ done' = done
    BY DEF IInv, TypeOK, CallOK, Complete
  <1>1. PICK k \in Keys : k = call[c].key
    BY <1>0
  <1>2. PICK a \in Answers \cup {Nil} : call' = Answered(c, a, c)
    BY DEF Complete, Answers
  <1>3. PICK y \in CallStates :
           /\ y = WithAnswer(call[c], a, c)
           /\ y.pc = "answered" /\ y.answer = a /\ y.from = c
           /\ y.key = call[c].key /\ y.hash = call[c].hash
    <2>1. c \in Calls \cup {Nil}
      OBVIOUS
    <2>2. QED
      BY <1>0, <2>1, AnswerUpdate
  <1>4. call' = [call EXCEPT ![c] = y]
    BY <1>0, <1>2, <1>3 DEF Answered
  <1>5. CASE rows' = rows
    <2>1. PICK z \in Rows \cup {Nil} : z = rows[k]
      BY <1>0
    <2>2. rows' = [rows EXCEPT ![k] = z]
      BY <1>0, <1>5, <2>1
    <2>3. QED
      BY <1>0, <1>1, <1>3, <1>4, <2>1, <2>2, WriteInv DEF Executing
  <1>6. CASE Mine(c) /\ rows' = [rows EXCEPT ![k] =
                                   [rows[k] EXCEPT !.status = "completed",
                                      !.response = c, !.old = FALSE]]
    <2> DEFINE w == [rows[k] EXCEPT !.status = "completed", !.response = c,
                                    !.old = FALSE]
    <2>1. rows[k] \in Rows /\ rows[k].id = c
      BY <1>0, <1>1, <1>6 DEF Mine
    <2>2. w \in Rows
      BY <2>1 DEF Rows
    <2>3. w.id = c /\ w.hash = rows[k].hash /\ w.response = c
      BY <2>1 DEF Rows
    <2>4. rows[k].hash = call[c].hash
      BY <1>1, <2>1 DEF IInv, ClaimOK
    <2>5. PICK z \in Rows \cup {Nil} : z = w
      BY <2>2
    <2>6. /\ rows' = [rows EXCEPT ![k] = z] /\ z # Nil
          /\ z.id = c /\ z.hash = y.hash /\ z.response = c
      BY <1>3, <1>6, <2>2, <2>3, <2>4, <2>5
    <2> HIDE DEF w
    <2>7. Mine(c)
      BY <1>6
    <2>8. call[c].pc \in {"claim"} \cup Executing /\ y.pc # "run"
      BY <1>0, <1>3 DEF Executing
    <2>9. QED
      BY <1>0, <1>1, <1>3, <1>4, <2>6, <2>7, <2>8, WriteInv
  <1>7. rows' = rows \/ (Mine(c) /\ rows' = [rows EXCEPT ![k] =
                                   [rows[k] EXCEPT !.status = "completed",
                                      !.response = c, !.old = FALSE]])
    BY <1>0, <1>1 DEF Complete
  <1>8. QED
    BY <1>5, <1>6, <1>7

(* A 5xx releases the call's own claim, if that still exists. *)
LEMMA ReleaseInv ==
    ASSUME IInv, NEW c \in Calls, Release(c)
    PROVE  IInv'
  <1> USE IdempotencyAssumption
  <1>0. /\ call[c] \in CallStates /\ call \in [Calls -> CallStates]
        /\ rows \in [Keys -> Rows \cup {Nil}]
        /\ call[c].pc = "broke"
        /\ call[c].key \in Keys /\ call[c].hash \in Hashes
        /\ done' = done /\ call' = Answered(c, "error", Nil)
    BY DEF IInv, TypeOK, CallOK, Release
  <1>1. PICK k \in Keys : k = call[c].key
    BY <1>0
  <1>2. PICK y \in CallStates :
           /\ y = WithAnswer(call[c], "error", Nil)
           /\ y.pc = "answered" /\ y.answer = "error" /\ y.from = Nil
           /\ y.key = call[c].key /\ y.hash = call[c].hash
    <2>1. "error" \in Answers \cup {Nil} /\ Nil \in Calls \cup {Nil}
      BY DEF Answers
    <2>2. QED
      BY <1>0, <2>1, AnswerUpdate
  <1>3. call' = [call EXCEPT ![c] = y]
    BY <1>0, <1>2 DEF Answered
  <1>4. PICK z \in Rows \cup {Nil} :
           /\ rows' = [rows EXCEPT ![k] = z]
           /\ z = rows[k] \/ (z = Nil /\ Mine(c))
    BY <1>0, <1>1 DEF Release
  <1>5. QED
    BY <1>0, <1>1, <1>2, <1>3, <1>4, WriteInv DEF Executing

(* Time and the worker's sweeps. *)
LEMMA TableInv ==
    ASSUME IInv,
           (\E k \in Keys : Age(k)) \/ ResetOrphans \/ ExpireCompleted
    PROVE  IInv'
  <1> USE IdempotencyAssumption
  <1>0. rows \in [Keys -> Rows \cup {Nil}]
    BY DEF IInv, TypeOK
  <1>1. ASSUME NEW k \in Keys, Age(k) PROVE IInv'
    <2> DEFINE w == [rows[k] EXCEPT !.old = TRUE]
    <2>1. rows[k] \in Rows /\ rows' = [rows EXCEPT ![k] = w]
          /\ call' = call /\ done' = done
      BY <1>0, <1>1 DEF Age
    <2>2. w \in Rows
      BY <2>1 DEF Rows
    <2>3. /\ w.id = rows[k].id /\ w.hash = rows[k].hash
          /\ w.status = rows[k].status /\ w.response = rows[k].response
      BY <2>1 DEF Rows
    <2>4. PICK z \in Rows : z = w
      BY <2>2
    <2>5. /\ rows'[k] = z /\ z # Nil
          /\ z.id = rows[k].id /\ z.hash = rows[k].hash
          /\ z.status = rows[k].status /\ z.response = rows[k].response
          /\ rows' \in [Keys -> Rows \cup {Nil}]
          /\ \A j \in Keys \ {k} : rows'[j] = rows[j]
      BY <1>0, <2>1, <2>3, <2>4
    <2> HIDE DEF w
    <2>6. rows[k].id \notin Slow =>
              ~(rows[k].status = "in_flight" /\ Running(rows[k].id))
      BY <1>1 DEF Age
    <2>7. \A j \in Keys :
              \/ rows'[j] = rows[j]
              \/ /\ rows[j] # Nil /\ rows'[j] # Nil
                 /\ rows'[j].id = rows[j].id /\ rows'[j].hash = rows[j].hash
                 /\ rows'[j].status = rows[j].status
                 /\ rows'[j].response = rows[j].response
      BY <2>1, <2>5
    <2>8. QED
      BY <2>1, <2>5, <2>6, <2>7, SweepInv
  <1>2. ASSUME NEW S \in SUBSET Keys, Delete(S), call' = call, done' = done,
               S = Orphans \/ S = Expired
        PROVE  IInv'
    <2>1. /\ rows' \in [Keys -> Rows \cup {Nil}]
          /\ \A k \in Keys : rows'[k] = rows[k] \/ (k \in S /\ rows'[k] = Nil)
      BY <1>0, <1>2 DEF Delete
    <2>2. ASSUME NEW k \in S, rows[k].id \notin Slow,
                 rows[k].status = "in_flight", Running(rows[k].id)
          PROVE  FALSE
      <3>1. rows[k] # Nil /\ rows[k].old
        BY <1>2, <2>2 DEF Orphans, Expired
      <3>2. PICK c \in Calls : c = rows[k].id
        BY <1>0, <3>1 DEF Rows
      <3>3. call[c].key = k
        BY <3>1, <3>2 DEF IInv, ClaimOK
      <3>4. ExecutorOK(c)
        BY <2>2, <3>2 DEF IInv
      <3>5. QED
        BY <2>2, <3>1, <3>2, <3>3, <3>4 DEF ExecutorOK
    <2>3. QED
      BY <1>2, <2>1, <2>2, SweepInv
  <1>3. CASE ResetOrphans
    <2>1. Orphans \in SUBSET Keys
      BY DEF Orphans
    <2>2. QED
      BY <1>2, <1>3, <2>1 DEF ResetOrphans
  <1>4. CASE ExpireCompleted
    <2>1. Expired \in SUBSET Keys
      BY DEF Expired
    <2>2. QED
      BY <1>2, <1>4, <2>1 DEF ExpireCompleted
  <1>5. QED
    BY <1>1, <1>3, <1>4

(* Every step preserves the invariant. *)
LEMMA NextInv == IInv /\ [Next]_vars => IInv'
  <1> SUFFICES ASSUME IInv, [Next]_vars PROVE IInv'
    OBVIOUS
  <1>1. ASSUME NEW c \in Calls, Send(c) \/ Step(c) \/ Fail(c) \/ Crash(c)
        PROVE  IInv'
    BY <1>1, OwnStepsInv, LookupInv, ClaimInv, CompleteInv, ReleaseInv DEF Step
  <1>2. CASE UNCHANGED vars
    BY <1>2 DEF vars, IInv, TypeOK, CallOK, ClaimOK, ReplayOK, ExecutorOK,
                Original, Running
  <1>3. QED
    BY <1>1, <1>2, TableInv DEF Next
-----------------------------------------------------------------------------
(***************************************************************************)
(* The inductive invariant always holds: claims belong to the calls that   *)
(* inserted them, replays come from originals (WithIdempotency).           *)
(***************************************************************************)
THEOREM Invariance == Spec => []IInv
  BY InitInv, NextInv, PTL DEF Spec

(* The variables always hold values of their types. *)
THEOREM TypeCorrectness == Spec => []TypeOK
  <1>1. IInv => TypeOK
    BY DEF IInv
  <1>2. QED
    BY <1>1, Invariance, PTL

(***************************************************************************)
(* Whoever is answered from the table gets the answer of a call with its   *)
(* own key and fingerprint, however slow handlers are and whatever fails   *)
(* (replayOrConflict, MarkCompleted's WHERE id = $1).                      *)
(***************************************************************************)
THEOREM ReplaysAreOriginal == Spec => []ReplayIsOriginal
  <1>1. IInv => ReplayIsOriginal
    BY DEF IInv, ReplayOK, Original, ReplayIsOriginal
  <1>2. QED
    BY <1>1, Invariance, PTL

(***************************************************************************)
(* Two requests with one key never run at the same time, provided their    *)
(* handlers end within the orphan cutoff (SweepOrphanedKeys's requirement). *)
(***************************************************************************)
THEOREM Exclusion == Spec => []OneExecutionAtATime
  <1>1. IInv => OneExecutionAtATime
    BY DEF IInv, ExecutorOK, OneExecutionAtATime
  <1>2. QED
    BY <1>1, Invariance, PTL

(***************************************************************************)
(* No handler that ends within the orphan cutoff takes effect under a key  *)
(* whose answer is remembered.                                             *)
(***************************************************************************)
LEMMA EffectsNeedClaims ==
    ASSUME IInv, [Next]_vars,
           NEW h \in Hashes, NEW c \in (done'[h] \ done[h]) \ Slow,
           rows[call[c].key] # Nil
    PROVE  rows[call[c].key].status = "in_flight"
  <1>1. done \in [Hashes -> SUBSET Calls]
    BY DEF IInv, TypeOK
  <1>2. PICK d \in Calls : Apply(d)
    BY DEF Next, vars, Step, Send, Claim, LosesClaim, Lookup, Refuse, Break,
           Complete, Release, Fail, Crash, Age, ResetOrphans, ExpireCompleted
  <1>3. call[d].hash \in Hashes /\ Running(d)
    BY <1>2 DEF Apply, IInv, CallOK, Running, Executing
  <1>4. c = d
    BY <1>1, <1>2, <1>3 DEF Apply
  <1>5. QED
    BY <1>3, <1>4 DEF IInv, ExecutorOK

THEOREM EffectsAreRemembered == Spec => RememberedOnce
  <1>1. IInv /\ [Next]_vars =>
          [\A h \in Hashes : \A c \in (done'[h] \ done[h]) \ Slow :
              LET row == rows[call[c].key]
              IN  row # Nil => row.status = "in_flight"]_vars
    BY EffectsNeedClaims
  <1>2. QED
    BY <1>1, Invariance, PTL DEF Spec, RememberedOnce
============================================================================
