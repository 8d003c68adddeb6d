------------------------------ MODULE Outbox_proofs ------------------------------
(* Proofs about Outbox: types, what is reported as sent, and deliveries when    *)
(* one sender works at a time.                                                  *)
EXTENDS Outbox, TLAPS

Tasks == [rest : SUBSET Messages, read : SUBSET Messages, seen : [Messages -> Nat],
          doing : Messages \cup {None},
          step : {"free", "sending", "ok", "failed", "logging"},
          mode : {"batch", "now", "log", "retry"}]

(* A sender whose step is not "free" has a message in hand. *)
InHand == \A s \in Senders : task[s].step # "free" => task[s].doing \in Messages

TypeInv == TypeOK /\ InHand

LEMMA FreeTyped == /\ Free \in Tasks /\ Free.step = "free" /\ Free.doing = None
                   /\ Free.rest = {} /\ Free.read = {}
BY OutboxAssumption DEF Free, Tasks, None

LEMMA BatchPending == \A P : Batch(P) \subseteq P
BY DEF Batch

(* The messages of a batch wait in the queue when it is loaded. *)
LEMMA BatchTyped == Batch(Pending) \subseteq Pending /\ Pending \subseteq Messages
BY BatchPending DEF Pending

LEMMA InitTypeInv == Init => TypeInv
<1> SUFFICES ASSUME Init PROVE TypeInv
  OBVIOUS
<1> USE OutboxAssumption, FreeTyped
<1>1. TypeOK
  <2>1. task \in [Senders -> Tasks]
    BY DEF Init
  <2>2. log \in [Messages -> [st : LogStatus, n : Nat]]
    BY DEF Init, NoLog, LogStatus
  <2> QED
    BY <2>1, <2>2 DEF Init, TypeOK, Tasks, OutboxStatus
<1>2. InHand
  BY DEF Init, InHand
<1> QED
  BY <1>1, <1>2 DEF TypeInv

(* What an update of a sender's task must satisfy to keep types. *)
LEMMA TaskTyped ==
  ASSUME TypeInv, NEW s \in Senders, NEW t \in Tasks,
         t.step # "free" => t.doing \in Messages,
         task' = [task EXCEPT ![s] = t]
  PROVE  task' \in [Senders -> Tasks] /\ InHand'
BY DEF TypeInv, TypeOK, InHand, Tasks

LEMMA StepTypeInv == TypeInv /\ [Next]_vars => TypeInv'
<1> SUFFICES ASSUME TypeInv, [Next]_vars PROVE TypeInv'
  OBVIOUS
<1> USE OutboxAssumption
<1>t. task \in [Senders -> Tasks]
  BY DEF TypeInv, TypeOK, Tasks
<1>1. ASSUME NEW m \in Messages, Enqueue(m) PROVE TypeInv'
  BY <1>1 DEF TypeInv, TypeOK, InHand, Enqueue, OutboxStatus
<1>2. ASSUME NEW m \in Messages, Cancel(m) PROVE TypeInv'
  BY <1>2 DEF TypeInv, TypeOK, InHand, Cancel, OutboxStatus
<1>3. ASSUME NEW m \in Messages, Retry(m) PROVE TypeInv'
  BY <1>3 DEF TypeInv, TypeOK, InHand, Retry, OutboxStatus
<1>4. ASSUME NEW m \in Messages, NEW s \in Senders, RetryFailed(s, m) PROVE TypeInv'
  <2>1. CASE status[m] = "PENDING"
    <3> DEFINE t == [Free EXCEPT !.doing = m, !.step = "sending", !.mode = "retry"]
    <3>1. t \in Tasks /\ t.doing = m
      BY FreeTyped DEF Tasks
    <3>2. task' = [task EXCEPT ![s] = t]
      BY <1>4, <2>1 DEF RetryFailed
    <3> HIDE DEF t
    <3>3. task' \in [Senders -> Tasks] /\ InHand'
      BY <3>1, <3>2, TaskTyped
    <3>4. attempts' \in [Messages -> Nat] /\ UNCHANGED <<log, status, delivered, retries, mishaps>>
      BY <1>4, <2>1 DEF RetryFailed, CountAttempt, TypeInv, TypeOK
    <3> QED
      BY <3>3, <3>4 DEF TypeInv, TypeOK, Tasks
  <2>2. CASE status[m] # "PENDING"
    <3>1. UNCHANGED <<attempts, task, status, delivered, retries, mishaps>>
      BY <1>4, <2>2 DEF RetryFailed
    <3>2. log' \in [Messages -> [st : LogStatus, n : Nat]]
      BY <1>4, <2>2 DEF RetryFailed, TypeInv, TypeOK, LogStatus
    <3> QED
      BY <3>1, <3>2 DEF TypeInv, TypeOK, InHand
  <2> QED
    BY <2>1, <2>2
<1>5. ASSUME NEW m \in Messages, NEW s \in Senders, NEW notify \in BOOLEAN, SendNow(s, m, notify)
      PROVE TypeInv'
  <2> DEFINE t == [Free EXCEPT !.doing = m, !.step = "sending",
                               !.mode = IF notify THEN "log" ELSE "now"]
  <2>1. t \in Tasks /\ t.doing = m
    BY FreeTyped DEF Tasks
  <2>2. task' = [task EXCEPT ![s] = t]
    BY <1>5 DEF SendNow
  <2> HIDE DEF t
  <2>3. task' \in [Senders -> Tasks] /\ InHand'
    BY <2>1, <2>2, TaskTyped
  <2>4. attempts' \in [Messages -> Nat] /\ UNCHANGED <<delivered, retries, mishaps>>
    BY <1>5 DEF SendNow, CountAttempt, TypeInv, TypeOK
  <2>5. log' \in [Messages -> [st : LogStatus, n : Nat]]
    BY <1>5 DEF SendNow, TypeInv, TypeOK, LogStatus, NoLog
  <2>6. status' \in [Messages -> OutboxStatus \cup {"NONE"}]
    BY <1>5 DEF SendNow, TypeInv, TypeOK, OutboxStatus
  <2> QED
    BY <2>3, <2>4, <2>5, <2>6 DEF TypeInv, TypeOK, Tasks
<1>6. ASSUME NEW s \in Senders, LoadBatch(s) PROVE TypeInv'
  <2> DEFINE t == [Free EXCEPT !.rest = Batch(Pending), !.read = Batch(Pending), !.seen = attempts]
  <2>1. t \in Tasks /\ t.step = "free"
    BY FreeTyped, BatchTyped DEF Tasks, TypeInv, TypeOK
  <2>2. task' = [task EXCEPT ![s] = t]
    BY <1>6 DEF LoadBatch
  <2> HIDE DEF t
  <2>3. task' \in [Senders -> Tasks] /\ InHand'
    BY <2>1, <2>2, TaskTyped
  <2> QED
    BY <2>3, <1>6 DEF LoadBatch, TypeInv, TypeOK, Tasks
<1>7. ASSUME NEW s \in Senders, Begin(s) PROVE TypeInv'
  <2>1. PICK m \in task[s].rest :
          /\ CountAttempt(s, m, IF m \in task[s].read THEN task[s].seen[m] ELSE attempts[m])
          /\ task' = [task EXCEPT ![s].rest = @ \ {m}, ![s].doing = m, ![s].step = "sending"]
    BY <1>7 DEF Begin
  <2>2. m \in Messages
    BY <1>t DEF Tasks
  <2> DEFINE t == [task[s] EXCEPT !.rest = @ \ {m}, !.doing = m, !.step = "sending"]
  <2>3. t \in Tasks /\ t.doing = m
    <3>1. task[s] \in Tasks
      BY <1>t
    <3> QED
      BY <2>2, <3>1 DEF Tasks
  <2>4. task' = [task EXCEPT ![s] = t]
    BY <2>1, <1>t DEF Tasks
  <2> HIDE DEF t
  <2>5. task' \in [Senders -> Tasks] /\ InHand'
    BY <2>2, <2>3, <2>4, TaskTyped
  <2>6. attempts' \in [Messages -> Nat]
    BY <2>1, <2>2, <1>t DEF CountAttempt, TypeInv, TypeOK, Tasks
  <2> QED
    BY <2>5, <2>6, <1>7 DEF Begin, TypeInv, TypeOK, Tasks
<1>8. ASSUME NEW s \in Senders, Send(s) PROVE TypeInv'
  <2>1. PICK passed \in BOOLEAN, answered \in BOOLEAN :
          /\ ~answered => mishaps < MaxMishaps
          /\ mishaps' = IF answered THEN mishaps ELSE mishaps + 1
          /\ delivered' = [delivered EXCEPT ![task[s].doing] = IF passed THEN @ + 1 ELSE @]
          /\ task' = [task EXCEPT ![s].step = IF passed /\ answered THEN "ok" ELSE "failed"]
    BY <1>8 DEF Send
  <2>2. task[s].doing \in Messages
    BY <1>8 DEF Send, TypeInv, InHand
  <2> DEFINE t == [task[s] EXCEPT !.step = IF passed /\ answered THEN "ok" ELSE "failed"]
  <2>3. t \in Tasks /\ t.doing = task[s].doing
    BY <1>t DEF Tasks
  <2>4. task' = [task EXCEPT ![s] = t]
    BY <2>1, <1>t DEF Tasks
  <2> HIDE DEF t
  <2>5. task' \in [Senders -> Tasks] /\ InHand'
    BY <2>2, <2>3, <2>4, TaskTyped
  <2>6. delivered' \in [Messages -> Nat]
    BY <2>1, <2>2 DEF TypeInv, TypeOK
  <2>7. mishaps' \in 0..MaxMishaps
    BY <2>1 DEF TypeInv, TypeOK
  <2> QED
    BY <2>5, <2>6, <2>7, <1>8 DEF Send, TypeInv, TypeOK, Tasks
<1>9. ASSUME NEW s \in Senders, Record(s) PROVE TypeInv'
  <2> DEFINE t == AfterRecord(task[s])
  <2>1. task[s].doing \in Messages
    BY <1>9 DEF Record, TypeInv, InHand
  <2>2. t \in Tasks /\ (t.step # "free" => t.doing \in Messages)
    <3>1. task[s] \in Tasks
      BY <1>t
    <3> DEFINE logging == [task[s] EXCEPT !.step = "logging"]
               nextOne == [task[s] EXCEPT !.doing = None, !.step = "free",
                                    !.read = IF task[s].step = "failed" THEN {} ELSE task[s].read]
    <3>2. logging \in Tasks /\ logging.doing = task[s].doing
      BY <3>1 DEF Tasks
    <3>3. nextOne \in Tasks /\ nextOne.step = "free"
      BY <3>1 DEF Tasks
    <3>4. t \in {logging, Free, nextOne}
      BY DEF AfterRecord
    <3> HIDE DEF t, logging, nextOne
    <3> QED
      BY <2>1, <3>2, <3>3, <3>4, FreeTyped
  <2>3. task' = [task EXCEPT ![s] = t]
    BY <1>9 DEF Record
  <2> HIDE DEF t
  <2>4. task' \in [Senders -> Tasks] /\ InHand'
    BY <2>2, <2>3, TaskTyped
  <2>5. status' \in [Messages -> OutboxStatus \cup {"NONE"}]
    BY <1>9, <2>1 DEF Record, RecordSuccess, RecordFailure, TypeInv, TypeOK, OutboxStatus
  <2> QED
    BY <2>4, <2>5, <1>9 DEF Record, TypeInv, TypeOK, Tasks
<1>10. ASSUME NEW s \in Senders, Log(s) PROVE TypeInv'
  <2>1. task' \in [Senders -> Tasks] /\ InHand'
    BY <1>10, FreeTyped, TaskTyped DEF Log
  <2>0. task[s].doing \in Messages
    BY <1>10 DEF Log, TypeInv, InHand
  <2> DEFINE r == [st |-> IF status[task[s].doing] = "SENT" THEN "SENT" ELSE "FAILED",
                   n |-> IF task[s].mode = "retry" THEN log[task[s].doing].n + 1
                         ELSE log[task[s].doing].n]
  <2>3. log[task[s].doing] \in [st : LogStatus, n : Nat]
    BY <2>0 DEF TypeInv, TypeOK
  <2>4. r \in [st : LogStatus, n : Nat]
    BY <2>3 DEF LogStatus
  <2>5. log' = [log EXCEPT ![task[s].doing] = r]
    BY <1>10 DEF Log
  <2> HIDE DEF r
  <2>2. log' \in [Messages -> [st : LogStatus, n : Nat]]
    BY <2>4, <2>5 DEF TypeInv, TypeOK
  <2> QED
    BY <2>1, <2>2, <1>10 DEF Log, TypeInv, TypeOK, Tasks
<1>11. ASSUME NEW s \in Senders, Crash(s) PROVE TypeInv'
  <2>1. task' \in [Senders -> Tasks] /\ InHand'
    BY <1>11, FreeTyped, TaskTyped DEF Crash
  <2> QED
    BY <2>1, <1>11 DEF Crash, TypeInv, TypeOK, Tasks
<1>12. CASE UNCHANGED vars
  BY <1>12 DEF vars, TypeInv, TypeOK, InHand
<1> QED
  BY <1>1, <1>2, <1>3, <1>4, <1>5, <1>6, <1>7, <1>8, <1>9, <1>10, <1>11, <1>12 DEF Next, Work

(* Rows, logs and senders have their types, whatever the number of senders.     *)
THEOREM OutboxTyped == Spec => []TypeOK
<1>1. TypeInv => TypeOK
  BY DEF TypeInv
<1> QED
  BY <1>1, InitTypeInv, StepTypeInv, PTL DEF Spec

-----------------------------------------------------------------------------
(* What is reported as sent *)

(* A sender that was told of a success has delivered its message. *)
OkDelivered == \A s \in Senders : task[s].step = "ok" => delivered[task[s].doing] > 0

SentInv == TypeInv /\ SentWasDelivered /\ OkDelivered

(* Only Send changes the deliveries, and none is taken back. *)
LEMMA DeliveredGrows ==
  TypeInv /\ [Next]_vars => \A m \in Messages : delivered'[m] >= delivered[m]
<1> SUFFICES ASSUME TypeInv, [Next]_vars PROVE \A m \in Messages : delivered'[m] >= delivered[m]
  OBVIOUS
<1>1. CASE \E s \in Senders : Send(s)
  BY <1>1 DEF Send, TypeInv, TypeOK
<1>2. CASE UNCHANGED delivered
  BY <1>2 DEF TypeInv, TypeOK
<1> QED
  BY <1>1, <1>2 DEF Next, vars, Work, Enqueue, Cancel, Retry, RetryFailed, SendNow, LoadBatch,
     Begin, Record, Log, Crash

(* A step after which the row of no other message and no other sender's task is *)
(* different keeps SentInv when it keeps it for that message and that sender.   *)
LEMMA SentStep == SentInv /\ [Next]_vars => SentInv'
<1> SUFFICES ASSUME SentInv, [Next]_vars PROVE SentInv'
  OBVIOUS
<1>t. task \in [Senders -> Tasks]
  BY DEF SentInv, TypeInv, TypeOK, Tasks
<1>i. TypeInv'
  BY StepTypeInv DEF SentInv
<1>g. \A m \in Messages : delivered[m] \in Nat /\ delivered'[m] \in Nat /\ delivered'[m] >= delivered[m]
  BY <1>i, DeliveredGrows DEF SentInv, TypeInv, TypeOK
<1>k. ASSUME UNCHANGED <<status, log>> PROVE SentWasDelivered'
  BY <1>k, <1>g DEF SentInv, SentWasDelivered
<1>o. ASSUME UNCHANGED task PROVE OkDelivered'
  <2> SUFFICES ASSUME NEW s \in Senders, task[s].step = "ok" PROVE delivered'[task[s].doing] > 0
    BY <1>o DEF OkDelivered
  <2>1. task[s].doing \in Messages /\ delivered[task[s].doing] > 0
    BY DEF SentInv, TypeInv, InHand, OkDelivered
  <2> QED
    BY <2>1, <1>g
<1>f. ASSUME NEW s \in Senders, NEW t \in Tasks, t.step # "ok", task' = [task EXCEPT ![s] = t]
      PROVE OkDelivered'
  <2> SUFFICES ASSUME NEW r \in Senders, task'[r].step = "ok" PROVE delivered'[task'[r].doing] > 0
    BY DEF OkDelivered
  <2>1. r # s /\ task'[r] = task[r]
    BY <1>f, <1>t
  <2>2. task[r].doing \in Messages /\ delivered[task[r].doing] > 0
    BY <2>1 DEF SentInv, TypeInv, InHand, OkDelivered
  <2> QED
    BY <2>1, <2>2, <1>g
<1>1. ASSUME NEW m \in Messages, Enqueue(m) \/ Cancel(m) \/ Retry(m) PROVE SentInv'
  <2>1. SentWasDelivered'
    BY <1>1, <1>g DEF Enqueue, Cancel, Retry, SentInv, SentWasDelivered, TypeInv, TypeOK
  <2>2. OkDelivered'
    BY <1>1, <1>o DEF Enqueue, Cancel, Retry
  <2> QED
    BY <2>1, <2>2, <1>i DEF SentInv
<1>2. ASSUME NEW m \in Messages, NEW s \in Senders, RetryFailed(s, m) PROVE SentInv'
  <2>1. SentWasDelivered'
    <3>1. CASE status[m] = "PENDING"
      BY <1>2, <1>k, <3>1 DEF RetryFailed
    <3>2. CASE status[m] # "PENDING"
      <4> DEFINE r == [st |-> IF status[m] = "SENT" THEN "SENT" ELSE log[m].st, n |-> log[m].n + 1]
      <4>1. log' = [log EXCEPT ![m] = r] /\ UNCHANGED <<status, delivered>>
        BY <1>2, <3>2 DEF RetryFailed
      <4>2. r.st = "SENT" => status[m] = "SENT"
        BY <1>2 DEF RetryFailed
      <4> HIDE DEF r
      <4> QED
        BY <4>1, <4>2 DEF SentInv, SentWasDelivered, TypeInv, TypeOK
    <3> QED
      BY <3>1, <3>2
  <2>2. CASE UNCHANGED task
    BY <1>i, <1>o, <2>1, <2>2 DEF SentInv
  <2>3. CASE task' = [task EXCEPT ![s] = [Free EXCEPT !.doing = m, !.step = "sending",
                                                      !.mode = "retry"]]
    <3>1. [Free EXCEPT !.doing = m, !.step = "sending", !.mode = "retry"] \in Tasks
      BY FreeTyped DEF Tasks
    <3>2. [Free EXCEPT !.doing = m, !.step = "sending", !.mode = "retry"].step # "ok"
      BY FreeTyped DEF Tasks
    <3> QED
      BY <1>i, <1>f, <2>1, <2>3, <3>1, <3>2 DEF SentInv
  <2> QED
    BY <1>2, <2>2, <2>3 DEF RetryFailed
<1>3. ASSUME NEW m \in Messages, NEW s \in Senders, NEW notify \in BOOLEAN, SendNow(s, m, notify)
      PROVE SentInv'
  <2> DEFINE t == [Free EXCEPT !.doing = m, !.step = "sending",
                               !.mode = IF notify THEN "log" ELSE "now"]
  <2>1. t \in Tasks /\ t.step # "ok"
    BY FreeTyped DEF Tasks
  <2>2. task' = [task EXCEPT ![s] = t]
    BY <1>3 DEF SendNow
  <2> HIDE DEF t
  <2>3. SentWasDelivered'
    BY <1>3, <1>g DEF SendNow, SentInv, SentWasDelivered, TypeInv, TypeOK, NoLog
  <2> QED
    BY <1>i, <1>f, <2>1, <2>2, <2>3 DEF SentInv
<1>4. ASSUME NEW s \in Senders, LoadBatch(s) PROVE SentInv'
  <2> DEFINE t == [Free EXCEPT !.rest = Batch(Pending), !.read = Batch(Pending), !.seen = attempts]
  <2>1. t \in Tasks /\ t.step # "ok"
    BY FreeTyped, BatchTyped DEF Tasks, SentInv, TypeInv, TypeOK
  <2>2. task' = [task EXCEPT ![s] = t]
    BY <1>4 DEF LoadBatch
  <2> HIDE DEF t
  <2> QED
    BY <1>4, <1>i, <1>f, <1>k, <2>1, <2>2 DEF LoadBatch, SentInv
<1>5. ASSUME NEW s \in Senders, Begin(s) PROVE SentInv'
  <2>1. PICK m \in task[s].rest :
          task' = [task EXCEPT ![s].rest = @ \ {m}, ![s].doing = m, ![s].step = "sending"]
    BY <1>5 DEF Begin
  <2> DEFINE t == [task[s] EXCEPT !.rest = @ \ {m}, !.doing = m, !.step = "sending"]
  <2>2. t \in Tasks /\ t.step # "ok"
    BY <1>t DEF Tasks
  <2>3. task' = [task EXCEPT ![s] = t]
    BY <2>1, <1>t DEF Tasks
  <2> HIDE DEF t
  <2> QED
    BY <1>5, <1>i, <1>f, <1>k, <2>2, <2>3 DEF Begin, SentInv
<1>6. ASSUME NEW s \in Senders, Send(s) PROVE SentInv'
  <2>1. PICK passed \in BOOLEAN, answered \in BOOLEAN :
          /\ delivered' = [delivered EXCEPT ![task[s].doing] = IF passed THEN @ + 1 ELSE @]
          /\ task' = [task EXCEPT ![s].step = IF passed /\ answered THEN "ok" ELSE "failed"]
    BY <1>6 DEF Send
  <2>2. task[s].doing \in Messages
    BY <1>6 DEF Send, SentInv, TypeInv, InHand
  <2>3. OkDelivered'
    <3> SUFFICES ASSUME NEW r \in Senders, task'[r].step = "ok" PROVE delivered'[task'[r].doing] > 0
      BY DEF OkDelivered
    <3>1. CASE r = s
      <4>1. passed /\ task'[r].doing = task[s].doing
        BY <2>1, <3>1, <1>t DEF Tasks
      <4> QED
        BY <2>1, <2>2, <4>1, <1>g DEF SentInv, TypeInv, TypeOK
    <3>2. CASE r # s
      <4>1. task'[r] = task[r]
        BY <2>1, <3>2, <1>t
      <4>2. task[r].doing \in Messages /\ delivered[task[r].doing] > 0
        BY <4>1 DEF SentInv, TypeInv, InHand, OkDelivered
      <4> QED
        BY <4>1, <4>2, <1>g
    <3> QED
      BY <3>1, <3>2
  <2> QED
    BY <1>6, <1>i, <1>k, <2>3 DEF Send, SentInv
<1>7. ASSUME NEW s \in Senders, Record(s) PROVE SentInv'
  <2>1. AfterRecord(task[s]) \in Tasks /\ AfterRecord(task[s]).step # "ok"
    BY <1>t, FreeTyped DEF AfterRecord, Tasks
  <2>2. task' = [task EXCEPT ![s] = AfterRecord(task[s])]
    BY <1>7 DEF Record
  <2>3. OkDelivered'
    BY <2>1, <2>2, <1>f
  <2>4. task[s].doing \in Messages /\ UNCHANGED <<log, delivered>>
    BY <1>7 DEF Record, SentInv, TypeInv, InHand
  <2>5. CASE task[s].step = "ok"
    <3>1. delivered[task[s].doing] > 0
      BY <2>5 DEF SentInv, OkDelivered
    <3>2. status' = [status EXCEPT ![task[s].doing] = "SENT"]
      BY <1>7, <2>5 DEF Record, RecordSuccess
    <3>3. SentWasDelivered'
      BY <3>1, <3>2, <2>4 DEF SentInv, SentWasDelivered, TypeInv, TypeOK
    <3> QED
      BY <1>i, <2>3, <3>3 DEF SentInv
  <2>6. CASE task[s].step # "ok"
    <3>1. SentWasDelivered'
      BY <1>7, <2>4, <2>6 DEF Record, RecordFailure, SentInv, SentWasDelivered, TypeInv, TypeOK
    <3> QED
      BY <1>i, <2>3, <3>1 DEF SentInv
  <2> QED
    BY <2>5, <2>6
<1>8. ASSUME NEW s \in Senders, Log(s) PROVE SentInv'
  <2>1. OkDelivered'
    BY <1>8, <1>f, FreeTyped DEF Log
  <2>2. SentWasDelivered'
    BY <1>8, <1>g DEF Log, SentInv, SentWasDelivered, TypeInv, TypeOK
  <2> QED
    BY <1>i, <2>1, <2>2 DEF SentInv
<1>9. ASSUME NEW s \in Senders, Crash(s) PROVE SentInv'
  <2>1. OkDelivered'
    BY <1>9, <1>f, FreeTyped DEF Crash
  <2> QED
    BY <1>9, <1>i, <1>k, <2>1 DEF Crash, SentInv
<1>10. CASE UNCHANGED vars
  BY <1>10, <1>i, <1>k, <1>o DEF vars, SentInv
<1> QED
  BY <1>1, <1>2, <1>3, <1>4, <1>5, <1>6, <1>7, <1>8, <1>9, <1>10 DEF Next, Work

(* A message reported as sent, in the queue or in the log, was passed on by the *)
(* provider, whatever senders, administrators and crashes do.                   *)
THEOREM OutboxSent == Spec => []SentWasDelivered
<1>1. Init => SentInv
  <2> SUFFICES ASSUME Init PROVE SentInv
    OBVIOUS
  <2>1. SentWasDelivered
    BY DEF Init, SentWasDelivered, NoLog
  <2>2. OkDelivered
    BY FreeTyped DEF Init, OkDelivered
  <2> QED
    BY <2>1, <2>2, InitTypeInv DEF SentInv
<1>2. SentInv => SentWasDelivered
  BY DEF SentInv
<1> QED
  BY <1>1, <1>2, SentStep, PTL DEF Spec
-----------------------------------------------------------------------------
(* One sender at a time *)

OneSender == Senders = {Background}

Mine == task[Background]

(* The rows the sender holds exist, and the one it sends it sends once. *)
Held == /\ Mine.doing \notin Mine.rest
        /\ \A m \in Mine.rest : status[m] # "NONE"
        /\ Mine.step # "free" => status[Mine.doing] # "NONE"

(* Every delivery is counted before it happens; what the sender has read of the *)
(* attempts is still so.                                                        *)
Counted == /\ \A m \in Messages : delivered[m] <= attempts[m]
           /\ Mine.step = "sending" => delivered[Mine.doing] < attempts[Mine.doing]
           /\ \A m \in Mine.rest \cap Mine.read : Mine.seen[m] = attempts[m]

(* A message that may be sent without another mishap or retry was delivered no  *)
(* more often than there were mishaps and retries.                              *)
MayBeSent(m) ==
  \/ m \in Mine.rest
  \/ Mine.step = "sending" /\ Mine.doing = m
  \/ status[m] = "PENDING" /\ ~(Mine.step = "ok" /\ Mine.doing = m)

Spared == \A m \in Messages :
  /\ status[m] = "NONE" => delivered[m] = 0
  /\ delivered[m] <= 1 + mishaps + retries
  /\ MayBeSent(m) => delivered[m] <= mishaps + retries

OneInv == TypeInv /\ Held /\ Counted /\ Spared

LEMMA OneStep == ASSUME OneSender PROVE OneInv /\ [Next]_vars => OneInv'
<1> SUFFICES ASSUME OneInv, [Next]_vars PROVE OneInv'
  OBVIOUS
<1> USE OutboxAssumption
<1>s. Background \in Senders /\ \A s \in Senders : s = Background
  BY DEF OneSender
<1>i. TypeInv'
  BY StepTypeInv DEF OneInv
<1>t. Mine \in Tasks /\ task \in [Senders -> Tasks]
  BY <1>s DEF OneInv, TypeInv, TypeOK, Tasks, Mine
<1>n. /\ \A m \in Messages : delivered[m] \in Nat /\ attempts[m] \in Nat
      /\ mishaps \in Nat /\ retries \in Nat
  BY DEF OneInv, TypeInv, TypeOK
<1>d. Mine.step # "free" => Mine.doing \in Messages
  BY <1>s DEF OneInv, TypeInv, InHand, Mine
<1>h. Held /\ Counted /\ Spared
  BY DEF OneInv
<1>u. ASSUME NEW t \in Tasks, task' = [task EXCEPT ![Background] = t] PROVE Mine' = t
  BY <1>u, <1>s, <1>t DEF Mine
<1>1. ASSUME NEW m \in Messages, Enqueue(m) PROVE OneInv'
  <2>1. Mine' = Mine /\ UNCHANGED <<attempts, delivered, mishaps, retries>>
    BY <1>1 DEF Enqueue, Mine
  <2>2. status[m] = "NONE" /\ status' = [status EXCEPT ![m] = "PENDING"]
    BY <1>1 DEF Enqueue
  <2>3. status \in [Messages -> OutboxStatus \cup {"NONE"}]
    BY DEF OneInv, TypeInv, TypeOK
  <2>4. Held'
    BY <1>h, <1>t, <1>d, <2>1, <2>2, <2>3 DEF Held, Tasks
  <2>5. Counted'
    BY <1>h, <2>1 DEF Counted
  <2>6. Spared'
    BY <1>h, <1>n, <2>1, <2>2, <2>3 DEF Spared, MayBeSent
  <2> QED
    BY <1>i, <2>4, <2>5, <2>6 DEF OneInv
<1>2. ASSUME NEW m \in Messages, Cancel(m) PROVE OneInv'
  <2>1. Mine' = Mine /\ UNCHANGED <<attempts, delivered, mishaps, retries>>
    BY <1>2 DEF Cancel, Mine
  <2>2. status[m] = "PENDING" /\ status' = [status EXCEPT ![m] = "CANCELLED"]
    BY <1>2 DEF Cancel
  <2>3. status \in [Messages -> OutboxStatus \cup {"NONE"}]
    BY DEF OneInv, TypeInv, TypeOK
  <2>4. Held'
    BY <1>h, <1>t, <1>d, <2>1, <2>2, <2>3 DEF Held, Tasks
  <2>5. Counted'
    BY <1>h, <2>1 DEF Counted
  <2>6. Spared'
    BY <1>h, <1>n, <2>1, <2>2, <2>3 DEF Spared, MayBeSent
  <2> QED
    BY <1>i, <2>4, <2>5, <2>6 DEF OneInv
<1>3. ASSUME NEW m \in Messages, Retry(m) PROVE OneInv'
  <2>1. Mine' = Mine /\ UNCHANGED <<attempts, delivered, mishaps>> /\ retries' = retries + 1
    BY <1>3 DEF Retry, Mine
  <2>2. status[m] # "NONE" /\ status' = [status EXCEPT ![m] = "PENDING"]
    BY <1>3 DEF Retry
  <2>3. status \in [Messages -> OutboxStatus \cup {"NONE"}]
    BY DEF OneInv, TypeInv, TypeOK
  <2>4. Held'
    BY <1>h, <1>t, <1>d, <2>1, <2>2, <2>3 DEF Held, Tasks
  <2>5. Counted'
    BY <1>h, <2>1 DEF Counted
  <2>6. Spared'
    BY <1>h, <1>n, <2>1, <2>2, <2>3 DEF Spared, MayBeSent
  <2> QED
    BY <1>i, <2>4, <2>5, <2>6 DEF OneInv
<1>4. ASSUME NEW m \in Messages, NEW s \in Senders, RetryFailed(s, m) PROVE OneInv'
  <2>1. CASE status[m] = "PENDING"
    <3> DEFINE t == [Free EXCEPT !.doing = m, !.step = "sending", !.mode = "retry"]
    <3>1. t \in Tasks /\ t.doing = m /\ t.step = "sending" /\ t.rest = {}
      BY FreeTyped DEF Tasks
    <3>2. task' = [task EXCEPT ![Background] = t] /\ Mine = Free
      BY <1>4, <2>1, <1>s DEF RetryFailed, Mine
    <3> HIDE DEF t
    <3>3. Mine' = t
      BY <3>1, <3>2, <1>u
    <3>4. /\ UNCHANGED <<status, delivered, mishaps, retries>>
          /\ attempts' = [attempts EXCEPT ![m] = attempts[m] + 1]
      BY <1>4, <2>1 DEF RetryFailed, CountAttempt
    <3>5. Held'
      BY <3>1, <3>3, <3>4, <2>1 DEF Held
    <3>6. Counted'
      BY <3>1, <3>3, <3>4, <1>h, <1>n DEF Counted, OneInv, TypeInv, TypeOK
    <3>7. Spared'
      BY <3>1, <3>2, <3>3, <3>4, <1>h, <2>1, FreeTyped DEF Spared, MayBeSent
    <3> QED
      BY <1>i, <3>5, <3>6, <3>7 DEF OneInv
  <2>2. CASE status[m] # "PENDING"
    <3>1. Mine' = Mine /\ UNCHANGED <<status, attempts, delivered, mishaps, retries>>
      BY <1>4, <2>2 DEF RetryFailed, Mine
    <3> QED
      BY <1>i, <1>h, <3>1 DEF OneInv, Held, Counted, Spared, MayBeSent
  <2> QED
    BY <2>1, <2>2
<1>5. ASSUME NEW m \in Messages, NEW s \in Senders, NEW notify \in BOOLEAN, SendNow(s, m, notify)
      PROVE OneInv'
  <2> DEFINE t == [Free EXCEPT !.doing = m, !.step = "sending",
                               !.mode = IF notify THEN "log" ELSE "now"]
  <2>1. t \in Tasks /\ t.doing = m /\ t.step = "sending" /\ t.rest = {}
    BY FreeTyped DEF Tasks
  <2>2. task' = [task EXCEPT ![Background] = t] /\ Mine = Free
    BY <1>5, <1>s DEF SendNow, Mine
  <2> HIDE DEF t
  <2>3. Mine' = t
    BY <2>1, <2>2, <1>u
  <2>4. /\ UNCHANGED <<delivered, mishaps, retries>>
        /\ status[m] = "NONE" /\ status' = [status EXCEPT ![m] = "PENDING"]
        /\ attempts' = [attempts EXCEPT ![m] = 1]
    BY <1>5 DEF SendNow, CountAttempt
  <2>5. status \in [Messages -> OutboxStatus \cup {"NONE"}] /\ attempts \in [Messages -> Nat]
    BY DEF OneInv, TypeInv, TypeOK
  <2>6. delivered[m] = 0
    BY <1>h, <2>4 DEF Spared
  <2>7. Held'
    BY <2>1, <2>3, <2>4, <2>5 DEF Held
  <2>8. Counted'
    BY <2>1, <2>3, <2>4, <2>5, <2>6, <1>h, <1>n DEF Counted
  <2>9. Spared'
    BY <2>1, <2>2, <2>3, <2>4, <2>5, <2>6, <1>h, <1>n, FreeTyped DEF Spared, MayBeSent
  <2> QED
    BY <1>i, <2>7, <2>8, <2>9 DEF OneInv
<1>6. ASSUME NEW s \in Senders, LoadBatch(s) PROVE OneInv'
  <2> DEFINE t == [Free EXCEPT !.rest = Batch(Pending), !.read = Batch(Pending), !.seen = attempts]
  <2>1. t \in Tasks /\ t.step = "free" /\ t.rest \subseteq Pending /\ t.seen = attempts
        /\ t.doing = None
    BY FreeTyped, BatchTyped DEF Tasks, OneInv, TypeInv, TypeOK
  <2>2. task' = [task EXCEPT ![Background] = t] /\ Mine = Free
    BY <1>6, <1>s DEF LoadBatch, Mine
  <2> HIDE DEF t
  <2>3. Mine' = t
    BY <2>1, <2>2, <1>u
  <2>4. UNCHANGED <<status, attempts, delivered, mishaps, retries>>
    BY <1>6 DEF LoadBatch
  <2>5. Held'
    <3>1. t.doing \notin t.rest
      BY <2>1, FreeTyped, OutboxAssumption DEF Pending
    <3>2. \A m \in t.rest : status[m] # "NONE"
      BY <2>1 DEF Pending
    <3> QED
      BY <2>1, <2>3, <2>4, <3>1, <3>2 DEF Held
  <2>7. Counted'
    BY <2>1, <2>3, <2>4, <1>h DEF Counted
  <2>6. Spared'
    BY <2>1, <2>2, <2>3, <2>4, <1>h, FreeTyped DEF Spared, MayBeSent, Pending
  <2> QED
    BY <1>i, <2>5, <2>6, <2>7 DEF OneInv
<1>7. ASSUME NEW s \in Senders, Begin(s) PROVE OneInv'
  <2>1. PICK m \in Mine.rest :
          /\ CountAttempt(Background, m, IF m \in Mine.read THEN Mine.seen[m] ELSE attempts[m])
          /\ task' = [task EXCEPT ![Background].rest = @ \ {m}, ![Background].doing = m,
                                  ![Background].step = "sending"]
    BY <1>7, <1>s DEF Begin, Mine
  <2>2. m \in Messages
    BY <1>t DEF Tasks
  <2> DEFINE t == [Mine EXCEPT !.rest = @ \ {m}, !.doing = m, !.step = "sending"]
  <2>3. /\ t \in Tasks /\ t.doing = m /\ t.step = "sending"
        /\ t.rest = Mine.rest \ {m} /\ t.read = Mine.read /\ t.seen = Mine.seen
    BY <1>t, <2>2 DEF Tasks
  <2>4. task' = [task EXCEPT ![Background] = t]
    BY <2>1, <1>t DEF Tasks, Mine
  <2> HIDE DEF t
  <2>5. Mine' = t
    BY <2>3, <2>4, <1>u
  <2>6. /\ UNCHANGED <<status, delivered, mishaps, retries>>
        /\ attempts' = [attempts EXCEPT ![m] = attempts[m] + 1]
    BY <1>7, <2>1, <1>h DEF Begin, CountAttempt, Counted
  <2>7. Held'
    BY <2>3, <2>5, <2>6, <1>h DEF Held
  <2>8. Counted'
    BY <2>2, <2>3, <2>5, <2>6, <1>h, <1>n, <1>t DEF Counted, Tasks, OneInv, TypeInv, TypeOK
  <2>9. Spared'
    <3>1. Mine.step = "free"
      BY <1>7, <1>s DEF Begin, Mine
    <3>2. \A n \in Messages : MayBeSent(n)' => MayBeSent(n)
      BY <2>3, <2>5, <2>6, <3>1 DEF MayBeSent
    <3> QED
      BY <2>6, <3>2, <1>h DEF Spared
  <2> QED
    BY <1>i, <2>7, <2>8, <2>9 DEF OneInv
<1>8. ASSUME NEW s \in Senders, Send(s) PROVE OneInv'
  <2>1. PICK passed \in BOOLEAN, answered \in BOOLEAN :
          /\ mishaps' = IF answered THEN mishaps ELSE mishaps + 1
          /\ delivered' = [delivered EXCEPT ![Mine.doing] = IF passed THEN @ + 1 ELSE @]
          /\ task' = [task EXCEPT ![Background].step = IF passed /\ answered THEN "ok" ELSE "failed"]
    BY <1>8, <1>s DEF Send, Mine
  <2>2. Mine.step = "sending" /\ Mine.doing \in Messages
    BY <1>8, <1>s, <1>d DEF Send, Mine
  <2> DEFINE t == [Mine EXCEPT !.step = IF passed /\ answered THEN "ok" ELSE "failed"]
  <2>3. /\ t \in Tasks /\ t.doing = Mine.doing /\ t.rest = Mine.rest /\ t.read = Mine.read
        /\ t.seen = Mine.seen /\ t.step = IF passed /\ answered THEN "ok" ELSE "failed"
    BY <1>t DEF Tasks
  <2>4. task' = [task EXCEPT ![Background] = t]
    BY <2>1, <1>t DEF Tasks, Mine
  <2> HIDE DEF t
  <2>5. Mine' = t
    BY <2>3, <2>4, <1>u
  <2>6. UNCHANGED <<status, attempts, retries>>
    BY <1>8 DEF Send
  <2>7. delivered \in [Messages -> Nat]
    BY DEF OneInv, TypeInv, TypeOK
  <2>8. Held'
    BY <2>2, <2>3, <2>5, <2>6, <1>h DEF Held
  <2>9. Counted'
    BY <2>1, <2>2, <2>3, <2>5, <2>6, <2>7, <1>h, <1>n DEF Counted
  <2>10. Spared'
    <3> SUFFICES ASSUME NEW m \in Messages
                 PROVE  /\ status'[m] = "NONE" => delivered'[m] = 0
                        /\ delivered'[m] <= 1 + mishaps' + retries'
                        /\ MayBeSent(m)' => delivered'[m] <= mishaps' + retries'
      BY DEF Spared
    <3>0. mishaps' \in Nat /\ mishaps' >= mishaps
      BY <2>1, <1>n
    <3>1. CASE m # Mine.doing
      <4>1. delivered'[m] = delivered[m]
        BY <2>1, <2>7, <3>1
      <4>2. MayBeSent(m)' => MayBeSent(m)
        BY <2>2, <2>3, <2>5, <2>6, <3>1 DEF MayBeSent
      <4> QED
        BY <1>h, <1>n, <2>6, <3>0, <4>1, <4>2 DEF Spared
    <3>2. CASE m = Mine.doing
      <4>1. delivered[m] <= mishaps + retries /\ status[m] # "NONE"
        BY <1>h, <2>2, <3>2 DEF Spared, MayBeSent, Held
      <4>2. delivered'[m] = IF passed THEN delivered[m] + 1 ELSE delivered[m]
        BY <2>1, <2>7, <3>2
      <4>3. m \notin Mine.rest
        BY <1>h, <3>2 DEF Held
      <4>4. CASE passed /\ answered
        <5>1. ~MayBeSent(m)'
          BY <2>3, <2>5, <3>2, <4>3, <4>4 DEF MayBeSent
        <5> QED
          BY <5>1, <1>n, <2>1, <2>6, <4>1, <4>2, <4>4
      <4>5. CASE ~(passed /\ answered)
        BY <4>1, <4>2, <4>5, <1>n, <2>1, <2>6
      <4> QED
        BY <4>4, <4>5
    <3> QED
      BY <3>1, <3>2
  <2> QED
    BY <1>i, <2>8, <2>9, <2>10 DEF OneInv
<1>9. ASSUME NEW s \in Senders, Record(s) PROVE OneInv'
  <2>1. Mine.step \in {"ok", "failed"} /\ Mine.doing \in Messages
    BY <1>9, <1>s, <1>d DEF Record, Mine
  <2> DEFINE t == AfterRecord(Mine)
  <2>2. /\ t \in Tasks /\ t.rest \subseteq Mine.rest /\ t.step \in {"free", "logging"}
        /\ t.step = "logging" => t.doing = Mine.doing
        /\ t.step = "free" => t.doing = None
        /\ t.rest = {} \/ (t.seen = Mine.seen /\ t.read \subseteq Mine.read)
    BY <1>t, <2>1, FreeTyped DEF AfterRecord, Tasks, Free
  <2>3. task' = [task EXCEPT ![Background] = t]
    BY <1>9, <1>s DEF Record, Mine
  <2> HIDE DEF t
  <2>4. Mine' = t
    BY <2>2, <2>3, <1>u
  <2>5. UNCHANGED <<attempts, delivered, mishaps, retries>>
    BY <1>9 DEF Record
  <2>6. /\ status' \in [Messages -> OutboxStatus \cup {"NONE"}]
        /\ status \in [Messages -> OutboxStatus \cup {"NONE"}]
    BY <1>i DEF OneInv, TypeInv, TypeOK
  <2>7. /\ status'[Mine.doing] # "NONE"
        /\ Mine.step = "ok" => status'[Mine.doing] = "SENT"
        /\ status'[Mine.doing] = "PENDING" => status[Mine.doing] = "PENDING"
        /\ \A m \in Messages \ {Mine.doing} : status'[m] = status[m]
    BY <1>9, <1>s, <1>h, <2>1, <2>6 DEF Record, RecordSuccess, RecordFailure, Held, Mine
  <2>8. Held'
    <3>1. Mine'.doing \notin Mine'.rest
      BY <2>1, <2>2, <2>4, <1>h, OutboxAssumption DEF Held, Tasks
    <3>2. \A m \in Mine'.rest : status'[m] # "NONE"
      BY <2>2, <2>4, <2>7, <1>h, <1>t DEF Held, Tasks
    <3>3. Mine'.step # "free" => status'[Mine'.doing] # "NONE"
      BY <2>2, <2>4, <2>7
    <3> QED
      BY <3>1, <3>2, <3>3 DEF Held
  <2>9. Counted'
    BY <2>2, <2>4, <2>5, <1>h DEF Counted
  <2>10. Spared'
    <3> SUFFICES ASSUME NEW m \in Messages
                 PROVE  /\ status'[m] = "NONE" => delivered[m] = 0
                        /\ delivered[m] <= 1 + mishaps + retries
                        /\ MayBeSent(m)' => delivered[m] <= mishaps + retries
      BY <2>5 DEF Spared
    <3>1. status'[m] = "NONE" => status[m] = "NONE"
      BY <2>7
    <3>2. ASSUME MayBeSent(m)' PROVE MayBeSent(m)
      BY <3>2, <2>1, <2>2, <2>4, <2>7 DEF MayBeSent
    <3> QED
      BY <3>1, <3>2, <1>h DEF Spared
  <2> QED
    BY <1>i, <2>8, <2>9, <2>10 DEF OneInv
<1>10. ASSUME NEW s \in Senders, Log(s) PROVE OneInv'
  <2>1. Mine' = Free /\ Mine.step = "logging"
    BY <1>10, <1>s, <1>u, FreeTyped DEF Log, Mine
  <2>2. UNCHANGED <<status, attempts, delivered, mishaps, retries>>
    BY <1>10 DEF Log
  <2>3. Held' /\ Counted'
    BY <2>1, <2>2, <1>h, FreeTyped DEF Held, Counted
  <2>4. Spared'
    BY <2>1, <2>2, <1>h, FreeTyped DEF Spared, MayBeSent
  <2> QED
    BY <1>i, <2>3, <2>4 DEF OneInv
<1>11. ASSUME NEW s \in Senders, Crash(s) PROVE OneInv'
  <2>1. Mine' = Free
    BY <1>11, <1>s, <1>u, FreeTyped DEF Crash, Mine
  <2>2. UNCHANGED <<status, attempts, delivered, retries>> /\ mishaps' = mishaps + 1
    BY <1>11 DEF Crash
  <2>3. Held' /\ Counted'
    BY <2>1, <2>2, <1>h, FreeTyped DEF Held, Counted
  <2>4. Spared'
    BY <2>2, <1>h, <1>n DEF Spared
  <2> QED
    BY <1>i, <2>3, <2>4 DEF OneInv
<1>12. CASE UNCHANGED vars
  <2>1. Mine' = Mine /\ UNCHANGED <<status, attempts, delivered, mishaps, retries>>
    BY <1>12 DEF vars, Mine
  <2> QED
    BY <1>i, <1>h, <2>1 DEF OneInv, Held, Counted, Spared, MayBeSent
<1> QED
  BY <1>1, <1>2, <1>3, <1>4, <1>5, <1>6, <1>7, <1>8, <1>9, <1>10, <1>11, <1>12 DEF Next, Work

LEMMA InitOneInv == ASSUME OneSender PROVE Init => OneInv
<1> SUFFICES ASSUME Init PROVE OneInv
  OBVIOUS
<1>1. Mine = Free
  BY OutboxAssumption DEF Init, Mine
<1>2. Held /\ Counted /\ Spared
  BY <1>1, FreeTyped DEF Init, Held, Counted, Spared, MayBeSent
<1> QED
  BY <1>2, InitTypeInv DEF OneInv

(* With one sender at a time, every delivery was counted as an attempt.         *)
THEOREM OneSenderCounts == ASSUME OneSender PROVE Spec => []DeliveriesCounted
<1>1. OneInv => DeliveriesCounted
  BY DEF OneInv, Counted, DeliveriesCounted
<1> QED
  BY <1>1, InitOneInv, OneStep, PTL DEF Spec

(* With one sender at a time, the customer gets a message again only after a    *)
(* crash, a lost answer or an administrator's retry.                            *)
THEOREM OneSenderDeliversOnce == ASSUME OneSender PROVE Spec => []DeliveredOnce
<1>1. OneInv => DeliveredOnce
  BY DEF OneInv, Spared, DeliveredOnce
<1> QED
  BY <1>1, InitOneInv, OneStep, PTL DEF Spec
===============================================================================
