--------------------------------- MODULE Outbox ---------------------------------
(* The queue of outgoing messages (modules/messaging/outbox.py) and the log the *)
(* notification service keeps of its own (modules/notifications/service.py).    *)
(*                                                                             *)
(* Senders are the background thread and the request threads that send at once  *)
(* or run a batch themselves.  A sender commits between the steps below, waits  *)
(* between them (for the provider, or for the delay between two messages), and  *)
(* claims nothing: any of them may hold the same row.                           *)
EXTENDS Integers, FiniteSets

CONSTANTS
  Messages,     \* ids a message_outbox row may get, in order of creation
  Urgent,       \* tests and campaigns, which go before the other messages
  Senders,
  Background,   \* the sender that is the background thread
  BatchSize,    \* setting messaging_outbox_batch_size
  MaxRetries,   \* bound: times the administrator puts a message back
  MaxMishaps    \* bound: crashes and answers of the provider that are lost

None == 0

ASSUME OutboxAssumption ==
  /\ Messages \subseteq Nat \ {None}
  /\ Urgent \subseteq Messages
  /\ Background \in Senders
  /\ BatchSize \in Nat \ {0}
  /\ MaxRetries \in Nat /\ MaxMishaps \in Nat

VARIABLES
  status,     \* MessageOutbox.status, "NONE" for an id not given yet
  attempts,   \* MessageOutbox.attempts
  log,        \* NotificationLog.status and .attempts of the message
  task,       \* what each sender is doing
  delivered,  \* how often the provider passed the message on
  retries,    \* how often the administrator put a message back
  mishaps     \* crashes and lost answers so far

vars == <<status, attempts, log, task, delivered, retries, mishaps>>

OutboxStatus == {"PENDING", "SENT", "FAILED", "CANCELLED"}
LogStatus == {"NONE", "QUEUED", "SENT", "FAILED"}
NoLog == [st |-> "NONE", n |-> 0]

(* rest: rows of the batch still to do; read: those whose attempts were read    *)
(* when the batch was loaded, with that value; doing: the row being sent; mode: *)
(* part of a batch, at once, at once for the log, or a retry for the log.       *)
Free == [rest |-> {}, read |-> {}, seen |-> [m \in Messages |-> 0],
         doing |-> None, step |-> "free", mode |-> "batch"]

Pending == {m \in Messages : status[m] = "PENDING"}

(* _OUTBOX_PRIORITY, then created_at *)
Before(m, n) == IF (m \in Urgent) <=> (n \in Urgent) THEN m < n ELSE m \in Urgent

BatchUntried(pending) == {m \in pending : attempts[m] = 0}   \* mutant

Batch(pending) ==
  {m \in pending : Cardinality({n \in pending : Before(n, m)}) < BatchSize}

-----------------------------------------------------------------------------
Init ==
  /\ status = [m \in Messages |-> "NONE"]
  /\ attempts = [m \in Messages |-> 0]
  /\ log = [m \in Messages |-> NoLog]
  /\ task = [s \in Senders |-> Free]
  /\ delivered = [m \in Messages |-> 0]
  /\ retries = 0
  /\ mishaps = 0

(* enqueue_message, committed by its caller: a message that waits for a batch. *)
Enqueue(m) ==
  /\ status[m] = "NONE"
  /\ status' = [status EXCEPT ![m] = "PENDING"]
  /\ UNCHANGED <<attempts, log, task, delivered, retries, mishaps>>

(* process_outbox_batch loads the first rows of the queue. *)
LoadBatch(s) ==
  /\ task[s] = Free
  /\ Batch(Pending) # {}
  /\ task' = [task EXCEPT ![s] = [Free EXCEPT !.rest = Batch(Pending),
                                             !.read = Batch(Pending), !.seen = attempts]]
  /\ UNCHANGED <<status, attempts, log, delivered, retries, mishaps>>

(* The attempt is counted, and committed, before the message goes out. *)
CountAttempt(s, m, n) == attempts' = [attempts EXCEPT ![m] = n + 1]

(* process_outbox_batch takes its next row; its status is not looked at again. *)
Begin(s) ==
  /\ task[s].step = "free"
  /\ \E m \in task[s].rest :
       /\ \A n \in task[s].rest \ {m} : Before(m, n)
       /\ CountAttempt(s, m, IF m \in task[s].read THEN task[s].seen[m] ELSE attempts[m])
       /\ task' = [task EXCEPT ![s].rest = @ \ {m}, ![s].doing = m, ![s].step = "sending"]
  /\ UNCHANGED <<status, log, delivered, retries, mishaps>>

(* enqueue_message and send_outbox_ids_now in one go; for a notification        *)
(* (NotificationService._send_log) with the log of it.                          *)
SendNow(s, m, notify) ==
  /\ task[s] = Free
  /\ status[m] = "NONE"
  /\ status' = [status EXCEPT ![m] = "PENDING"]
  /\ CountAttempt(s, m, 0)
  /\ log' = [log EXCEPT ![m] = IF notify THEN [st |-> "QUEUED", n |-> 1] ELSE NoLog]
  /\ task' = [task EXCEPT ![s] = [Free EXCEPT !.doing = m, !.step = "sending",
                                             !.mode = IF notify THEN "log" ELSE "now"]]
  /\ UNCHANGED <<delivered, retries, mishaps>>

(* NotificationService.retry_failed: send_outbox_ids_now, which skips every row *)
(* that is not pending, and one more attempt in the log.                        *)
RetryFailed(s, m) ==
  /\ task[s] = Free
  /\ log[m].st = "FAILED" /\ log[m].n < 3
  /\ \/ /\ status[m] = "PENDING"
        /\ CountAttempt(s, m, attempts[m])
        /\ task' = [task EXCEPT ![s] = [Free EXCEPT !.doing = m, !.step = "sending",
                                                   !.mode = "retry"]]
        /\ UNCHANGED log
     \/ /\ status[m] # "PENDING"
        /\ log' = [log EXCEPT ![m] = [st |-> IF status[m] = "SENT" THEN "SENT" ELSE @.st,
                                      n |-> @.n + 1]]
        /\ UNCHANGED <<attempts, task>>
  /\ UNCHANGED <<status, delivered, retries, mishaps>>

(* _execute_dispatch_job: the provider passes the message on or refuses it, or  *)
(* passes it on and the answer is lost (a timeout).                             *)
Send(s) ==
  /\ task[s].step = "sending"
  /\ \E passed, answered \in BOOLEAN :
       /\ ~answered => mishaps < MaxMishaps
       /\ mishaps' = IF answered THEN mishaps ELSE mishaps + 1
       /\ delivered' = [delivered EXCEPT ![task[s].doing] = IF passed THEN @ + 1 ELSE @]
       /\ task' = [task EXCEPT ![s].step = IF passed /\ answered THEN "ok" ELSE "failed"]
  /\ UNCHANGED <<status, attempts, log, retries>>

RecordNothing(s, m) == UNCHANGED status                      \* mutant

(* _dispatch_one and its callers record a success; send_outbox_item_now gives   *)
(* up at once, a batch at the third attempt.  The row is written whatever its   *)
(* status has become.                                                           *)
RecordSuccess(s, m) == status' = [status EXCEPT ![m] = "SENT"]

RecordFailureAsDone(s, m) ==                                 \* mutant
  status' = [status EXCEPT ![m] = IF task[s].mode # "batch" \/ attempts[m] >= 3 THEN "SENT" ELSE @]

RecordFailureUnknown(s, m) ==                                \* mutant
  status' = [status EXCEPT ![m] = IF attempts[m] >= 3 THEN "ERROR" ELSE @]

RecordFailure(s, m) ==
  status' = [status EXCEPT ![m] =
    IF task[s].mode # "batch" \/ attempts[m] >= 3 THEN "FAILED" ELSE @]

(* The sender goes on with its batch, or brings its log up to date.  The        *)
(* rollback after a failure expires the rows of the batch: they are read again  *)
(* when their turn comes.                                                       *)
AfterRecord(t) ==
  IF t.mode \in {"log", "retry"} THEN [t EXCEPT !.step = "logging"]
  ELSE IF t.rest = {} THEN Free
  ELSE [t EXCEPT !.doing = None, !.step = "free",
                 !.read = IF t.step = "failed" THEN {} ELSE t.read]

Record(s) ==
  /\ task[s].step \in {"ok", "failed"}
  /\ LET m == task[s].doing
     IN  /\ IF task[s].step = "ok" THEN RecordSuccess(s, m) ELSE RecordFailure(s, m)
         /\ task' = [task EXCEPT ![s] = AfterRecord(task[s])]
  /\ UNCHANGED <<attempts, log, delivered, retries, mishaps>>

(* _send_log and retry_failed bring the log up to date. *)
Log(s) ==
  /\ task[s].step = "logging"
  /\ LET m == task[s].doing
     IN  log' = [log EXCEPT ![m] =
           [st |-> IF status[m] = "SENT" THEN "SENT" ELSE "FAILED",
            n |-> IF task[s].mode = "retry" THEN @.n + 1 ELSE @.n]]
  /\ task' = [task EXCEPT ![s] = Free]
  /\ UNCHANGED <<status, attempts, delivered, retries, mishaps>>

(* The process of a sender dies, and starts again. *)
Crash(s) ==
  /\ task[s] # Free
  /\ mishaps < MaxMishaps
  /\ mishaps' = mishaps + 1
  /\ task' = [task EXCEPT ![s] = Free]
  /\ UNCHANGED <<status, attempts, log, delivered, retries>>

(* cancel_outbox_item and cancel_pending_outbox, message by message *)
Cancel(m) ==
  /\ status[m] = "PENDING"
  /\ status' = [status EXCEPT ![m] = "CANCELLED"]
  /\ UNCHANGED <<attempts, log, task, delivered, retries, mishaps>>

(* retry_outbox_item: from any status, and the attempts stay. *)
Retry(m) ==
  /\ status[m] # "NONE"
  /\ retries < MaxRetries
  /\ retries' = retries + 1
  /\ status' = [status EXCEPT ![m] = "PENDING"]
  /\ UNCHANGED <<attempts, log, task, delivered, mishaps>>

(* The steps a sender takes on its own. *)
Work(s) == LoadBatch(s) \/ Begin(s) \/ Send(s) \/ Record(s) \/ Log(s)

Next ==
  \/ \E m \in Messages :
       \/ Enqueue(m) \/ Cancel(m) \/ Retry(m)
       \/ \E s \in Senders : RetryFailed(s, m) \/ \E notify \in BOOLEAN : SendNow(s, m, notify)
  \/ \E s \in Senders : Work(s) \/ Crash(s)

(* The background thread loops for ever, and survives every exception; messages *)
(* are enabled in the settings.                                                 *)
Spec == Init /\ [][Next]_vars /\ WF_vars(Work(Background))

-----------------------------------------------------------------------------
TypeOK ==
  /\ status \in [Messages -> OutboxStatus \cup {"NONE"}]
  /\ attempts \in [Messages -> Nat]
  /\ log \in [Messages -> [st : LogStatus, n : Nat]]
  /\ task \in [Senders -> [rest : SUBSET Messages, read : SUBSET Messages,
                           seen : [Messages -> Nat], doing : Messages \cup {None},
                           step : {"free", "sending", "ok", "failed", "logging"},
                           mode : {"batch", "now", "log", "retry"}]]
  /\ delivered \in [Messages -> Nat]
  /\ retries \in 0..MaxRetries
  /\ mishaps \in 0..MaxMishaps

(* A message is reported as sent, in the queue or in the log of notifications,  *)
(* only when the provider passed it on, whatever else happened to its row.      *)
SentWasDelivered ==
  \A m \in Messages : status[m] = "SENT" \/ log[m].st = "SENT" => delivered[m] > 0

(* Every delivery was counted as an attempt, even when the process died before  *)
(* it could record the outcome.  Holds when one sender works at a time.         *)
DeliveriesCounted == \A m \in Messages : delivered[m] <= attempts[m]

(* The customer gets a message again only after a crash, a lost answer or an    *)
(* administrator's retry.  Holds when one sender works at a time.               *)
DeliveredOnce == \A m \in Messages : delivered[m] <= 1 + mishaps + retries

(* A message does not wait for ever: it is sent, fails or is cancelled.         *)
EveryMessageHandled == \A m \in Messages : status[m] = "PENDING" ~> status[m] # "PENDING"
===============================================================================
