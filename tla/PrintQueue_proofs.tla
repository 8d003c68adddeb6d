---------------------------- MODULE PrintQueue_proofs ----------------------------
(* Theorems about PrintQueue, for any number of jobs, printers, agents and        *)
(* programs and any bounds, and the refinement of PrintService.                  *)
EXTENDS PrintQueue, TLAPS, FiniteSetTheorems

TaskType == [todo : SUBSET Jobs, doing : Jobs \cup {None},
             step : {"idle", "asking", "printing", "telling", "failing"}]

(* A program past "idle" holds a job, and holds none before.                     *)
Busy == \A p \in Programs : (prog[p].doing = None) <=> (prog[p].step = "idle")

(* What a program is about to report as printed was handed over.                 *)
ToldWasHandedOver ==
  \A p \in Programs : prog[p].step = "telling" => paper[prog[p].doing] > 0

(* A claim of a job that is in time: none was written since it was read.         *)
InTime(j) == \E c \in claims : c[2] = j /\ c \notin late

(* A claim of the job may still be written, and use up the last order.           *)
Left(j) == IF status[j] = "PENDING" \/ InTime(j) THEN 1 ELSE 0

(* What makes OncePerOrder inductive, of one job.                                *)
Once(j) ==
  /\ paper[j] + Cardinality(Printing(j)) <= taken[j]
  /\ taken[j] + Left(j) <= orders[j] + crossed[j]

AllOnce == \A j \in Jobs : Once(j)

(* While nothing went wrong, whoever claims a job waits for the answer.          *)
ClaimsAwaited ==
  mishaps = 0 =>
    \A p \in Programs, j \in Jobs :
      <<p, j>> \in claims => prog[p].step = "asking" /\ prog[p].doing = j

(* While no printer or agent was changed, a program works on its own agent's jobs. *)
Steady ==
  changes = 0 =>
    /\ \A a \in Agents : agentOn[a]
    /\ \A p \in Programs, j \in Jobs :
         (j \in prog[p].todo \/ prog[p].doing = j) => Own(p, j)

Safe ==
  /\ TypeOK /\ Busy /\ AllOnce
  /\ PrintedWasHandedOver /\ ToldWasHandedOver
  /\ ClaimsAwaited /\ ClaimedIsHeld

-----------------------------------------------------------------------------
(* What one step writes. *)

(* A request: jobs are ordered, given up, or left, and no program is touched.     *)
Request ==
  /\ \A j \in Jobs :
       \/ status'[j] = status[j] /\ orders'[j] = orders[j]
       \/ status[j] # "PENDING" /\ status'[j] = "PENDING" /\ orders'[j] = orders[j] + 1
       \/ status'[j] = "CANCELLED" /\ orders'[j] = orders[j]
  /\ mishaps' >= mishaps /\ changes' >= changes
  /\ UNCHANGED <<prog, server, paper>>

LEMMA IdleType == Idle \in TaskType
  BY DEF Idle, TaskType

LEMMA MishapType ==
  ASSUME TypeOK, NEW b \in BOOLEAN, Mishap(b)
  PROVE  mishaps' \in Nat /\ mishaps' >= mishaps /\ (b => mishaps' > 0)
  BY DEF TypeOK, Mishap

LEMMA InitType == Init => TypeOK
<1> SUFFICES ASSUME Init PROVE TypeOK
  OBVIOUS
<1>1. prog \in [Programs -> TaskType]
  BY IdleType DEF Init
<1> QED
  BY <1>1 DEF Init, TypeOK, TaskType, PrintJobStatus

LEMMA ProgramType ==
  ASSUME TypeOK, NEW p \in Programs, NEW r \in TaskType, prog' = [prog EXCEPT ![p] = r]
  PROVE  prog' \in [Programs -> TaskType]
  BY DEF TypeOK, TaskType

LEMMA StepType ==
  ASSUME TypeOK, [Next]_vars
  PROVE  TypeOK'
<1> USE DEF TypeOK, PrintJobStatus, TaskType
<1>1. ASSUME NEW j \in Jobs, CreateJob(j) \/ RetryJob(j) PROVE TypeOK'
  BY <1>1 DEF CreateJob, RetryJob, setup, server
<1>2. CASE RetryAllFailed
  BY <1>2 DEF RetryAllFailed, setup, server
<1>3. CASE CancelOpen
  BY <1>3 DEF CancelOpen, setup, server
<1>4. ASSUME NEW r \in Printers, NEW a \in Agents \cup {None}, NEW on \in BOOLEAN, SavePrinter(r, a, on)
      PROVE TypeOK'
  BY <1>4 DEF SavePrinter, jobs, server
<1>5. ASSUME NEW a \in Agents, ToggleAgent(a) PROVE TypeOK'
  BY <1>5 DEF ToggleAgent, jobs, server
<1>6. ASSUME NEW p \in Programs, Poll(p) PROVE TypeOK'
  <2>1. Listed(p) \in SUBSET Jobs
    BY DEF Listed, PendingFor
  <2>2. [prog[p] EXCEPT !.todo = Listed(p)] \in TaskType
    BY <2>1
  <2>3. prog' \in [Programs -> TaskType]
    BY <1>6, <2>2 DEF Poll
  <2> QED
    BY <1>6, <2>3 DEF Poll, jobs, setup, server
<1>7. ASSUME NEW p \in Programs, Claim(p) PROVE TypeOK'
  <2>1. PICK j \in prog[p].todo, read \in BOOLEAN, b \in BOOLEAN, st \in {"asking", "failing"} :
          /\ \E c \in BOOLEAN : Mishap(c)
          /\ claims' = IF read THEN claims \cup {<<p, j>>} ELSE claims
          /\ prog' = [prog EXCEPT ![p] =
               IF b THEN [Idle EXCEPT !.todo = prog[p].todo \ {j}]
               ELSE [todo |-> prog[p].todo \ {j}, doing |-> j, step |-> st]]
    BY <1>7 DEF Claim
  <2>2. j \in Jobs /\ prog[p].todo \ {j} \in SUBSET Jobs
    OBVIOUS
  <2>3. mishaps' \in Nat
    BY <2>1, MishapType
  <2>4. claims' \subseteq Programs \X Jobs /\ late' \subseteq claims'
    BY <2>1, <2>2, <1>7 DEF Claim
  <2>5. [Idle EXCEPT !.todo = prog[p].todo \ {j}] \in TaskType
    BY <2>2 DEF Idle
  <2>6. [todo |-> prog[p].todo \ {j}, doing |-> j, step |-> st] \in TaskType
    BY <2>2
  <2>7. prog' \in [Programs -> TaskType]
    BY <2>1, <2>5, <2>6, ProgramType
  <2> QED
    BY <2>3, <2>4, <2>7, <1>7 DEF Claim, setup, jobs
<1>a. ASSUME NEW p \in Programs, NEW j \in Jobs, GrantClaim(p, j) PROVE TypeOK'
  <2>1. prog' \in [Programs -> TaskType]
    <3>1. [prog[p] EXCEPT !.step = "printing"] \in TaskType
      OBVIOUS
    <3> QED
      BY <1>a, <3>1, ProgramType DEF GrantClaim
  <2>2. claims' \subseteq Programs \X Jobs /\ late' \subseteq claims'
    BY <1>a DEF GrantClaim
  <2>3. status' \in [Jobs -> PrintJobStatus \cup {"NONE"}] /\ taken' \in [Jobs -> Nat]
    BY <1>a DEF GrantClaim
  <2>4. crossed' \in [Jobs -> Nat]
    BY <1>a DEF GrantClaim
  <2> QED
    BY <2>1, <2>2, <2>3, <2>4, <1>a DEF GrantClaim, setup
<1>b. ASSUME NEW p \in Programs, StopWaiting(p) PROVE TypeOK'
  <2>1. [prog[p] EXCEPT !.step = "failing"] \in TaskType
    OBVIOUS
  <2>2. prog' \in [Programs -> TaskType]
    BY <1>b, <2>1, ProgramType DEF StopWaiting
  <2>3. mishaps' \in Nat
    BY <1>b, MishapType DEF StopWaiting
  <2> QED
    BY <1>b, <2>2, <2>3 DEF StopWaiting, jobs, setup, server
<1>8. ASSUME NEW p \in Programs, SendRaw(p) PROVE TypeOK'
  <2>1. prog[p].doing \in Jobs => prog[p].doing \in Jobs
    OBVIOUS
  <2>2. PICK ok \in BOOLEAN, raised \in BOOLEAN : HandOver(p, ok, raised)
    BY <1>8 DEF SendRaw
  <2>3. mishaps' \in Nat
    BY <2>2, MishapType DEF HandOver
  <2>4. paper' \in [Jobs -> Nat]
    <3> DEFINE d == prog[p].doing
               n == IF ok THEN paper[d] + 1 ELSE paper[d]
    <3>1. d \in Jobs => n \in Nat
      OBVIOUS
    <3> HIDE DEF n, d
    <3>2. [paper EXCEPT ![d] = n] \in [Jobs -> Nat]
      BY <3>1
    <3> QED
      BY <2>2, <3>2 DEF HandOver, n, d
  <2>5. prog' \in [Programs -> TaskType]
    BY <2>2 DEF HandOver
  <2> QED
    BY <2>3, <2>4, <2>5, <1>8 DEF SendRaw, jobs, setup, server
<1>9. ASSUME NEW p \in Programs, TellPrinted(p) PROVE TypeOK'
  <2>1. PICK arrives \in BOOLEAN, answered \in BOOLEAN :
          /\ Mishap(~(arrives /\ answered))
          /\ LET j == prog[p].doing
                 done == arrives /\ TakesPrinted(p, j) IN
             /\ status' = [status EXCEPT ![j] = IF done THEN "PRINTED" ELSE @]
             /\ IF done /\ answered THEN NextJob(p) ELSE prog' = [prog EXCEPT ![p].step = "failing"]
    BY <1>9 DEF TellPrinted
  <2>2. mishaps' \in Nat
    BY <2>1, MishapType
  <2>3. prog' \in [Programs -> TaskType]
    <3>1. [Idle EXCEPT !.todo = prog[p].todo] \in TaskType
      BY DEF Idle
    <3>2. [prog[p] EXCEPT !.step = "failing"] \in TaskType
      OBVIOUS
    <3>3. \/ prog' = [prog EXCEPT ![p] = [Idle EXCEPT !.todo = prog[p].todo]]
          \/ prog' = [prog EXCEPT ![p] = [prog[p] EXCEPT !.step = "failing"]]
      BY <2>1 DEF NextJob
    <3> QED
      BY <3>1, <3>2, <3>3, ProgramType
  <2>4. status' \in [Jobs -> PrintJobStatus \cup {"NONE"}]
    BY <2>1
  <2> QED
    BY <2>2, <2>3, <2>4, <1>9 DEF TellPrinted, setup, server
<1>10. ASSUME NEW p \in Programs, TellFailed(p) PROVE TypeOK'
  <2>1. mishaps' \in Nat
    BY <1>10, MishapType DEF TellFailed, ReportFailure
  <2>2. prog' \in [Programs -> TaskType]
    BY <1>10 DEF TellFailed, ReportFailure, NextJob, Idle
  <2>3. status' \in [Jobs -> PrintJobStatus \cup {"NONE"}]
    BY <1>10 DEF TellFailed, ReportFailure
  <2> QED
    BY <2>1, <2>2, <2>3, <1>10 DEF TellFailed, setup, server
<1>11. ASSUME NEW p \in Programs, Restart(p) PROVE TypeOK'
  BY <1>11, IdleType DEF Restart, Mishap, jobs, setup, server
<1>12. CASE UNCHANGED vars
  BY <1>12 DEF vars
<1> HIDE DEF TypeOK
<1>13. ASSUME NEW p \in Programs, Work(p) \/ Answer(p) \/ StopWaiting(p) \/ Restart(p) PROVE TypeOK'
  BY <1>6, <1>7, <1>a, <1>b, <1>8, <1>9, <1>10, <1>11, <1>13 DEF Work, Answer
<1> QED
  BY <1>1, <1>2, <1>3, <1>4, <1>5, <1>12, <1>13 DEF Next

(* Rows, programs and counters have the types the code gives them.               *)
THEOREM PrintTyped == Spec => []TypeOK
<1>1. TypeOK /\ [Next]_vars => TypeOK'
  BY StepType
<1> QED
  BY <1>1, InitType, PTL DEF Spec

-----------------------------------------------------------------------------
(* Programs at the printer. *)

LEMMA PrintingFinite ==
  ASSUME NEW j \in Jobs
  PROVE  IsFiniteSet(Printing(j)) /\ Cardinality(Printing(j)) \in Nat
<1>1. Printing(j) \subseteq Programs
  BY DEF Printing
<1> QED
  BY <1>1, FS_Subset, FS_CardinalityType, PrintAssumption

LEMMA PrintingFinitePrimed ==
  ASSUME NEW j \in Jobs
  PROVE  Cardinality(Printing(j)') \in Nat
<1>1. Printing(j)' \subseteq Programs
  BY DEF Printing
<1> QED
  BY <1>1, FS_Subset, FS_CardinalityType, PrintAssumption

(* A program that does not end up at the printer leaves, at most.                *)
LEMMA PrintingLeft ==
  ASSUME TypeOK, NEW p \in Programs, NEW r \in TaskType, prog' = [prog EXCEPT ![p] = r],
         r.step # "printing", NEW j \in Jobs
  PROVE  /\ Printing(j)' = Printing(j) \ {p}
         /\ Cardinality(Printing(j)') = Cardinality(Printing(j))
                                          - (IF p \in Printing(j) THEN 1 ELSE 0)
         /\ Cardinality(Printing(j)') \in Nat
<1>1. Printing(j)' = Printing(j) \ {p}
  BY DEF Printing, TypeOK, TaskType
<1>2. Cardinality(Printing(j) \ {p}) = Cardinality(Printing(j)) - (IF p \in Printing(j) THEN 1 ELSE 0)
  <2>1. CASE p \in Printing(j)
    BY <2>1, PrintingFinite, FS_RemoveElement
  <2>2. CASE p \notin Printing(j)
    <3>1. Printing(j) \ {p} = Printing(j)
      BY <2>2
    <3> QED
      BY <3>1, <2>2, PrintingFinite
  <2> QED
    BY <2>1, <2>2
<1>3. Cardinality(Printing(j) \ {p}) \in Nat
  BY PrintingFinite, FS_RemoveElement, FS_CardinalityType
<1> QED
  BY <1>1, <1>2, <1>3

(* A program comes to the printer with the job it has just claimed.              *)
LEMMA PrintingJoined ==
  ASSUME TypeOK, NEW p \in Programs, NEW r \in TaskType, prog' = [prog EXCEPT ![p] = r],
         prog[p].step # "printing", r.step = "printing", NEW j \in Jobs
  PROVE  /\ Cardinality(Printing(j)') = Cardinality(Printing(j))
                                          + (IF r.doing = j THEN 1 ELSE 0)
         /\ Cardinality(Printing(j)') \in Nat
<1>1. Printing(j)' = IF r.doing = j THEN Printing(j) \cup {p} ELSE Printing(j)
  BY DEF Printing, TypeOK, TaskType
<1>2. p \notin Printing(j)
  BY DEF Printing
<1>3. Cardinality(Printing(j) \cup {p}) = Cardinality(Printing(j)) + 1
  BY <1>2, PrintingFinite, FS_AddElement
<1> QED
  BY <1>1, <1>3, PrintingFinite

-----------------------------------------------------------------------------
(* The invariants, one kind of step at a time. *)

LEMMA LeftIs ==
  ASSUME NEW j \in Jobs
  PROVE  Left(j) \in {0, 1} /\ Left(j)' \in {0, 1}
  BY DEF Left

(* A step that grants no claim, hands over what was printing and orders nothing.  *)
LEMMA OnceKept ==
  ASSUME TypeOK, TypeOK', NEW j \in Jobs, Once(j), UNCHANGED <<server, orders>>,
         paper'[j] + Cardinality(Printing(j)') <= paper[j] + Cardinality(Printing(j)),
         status'[j] = "PENDING" => status[j] = "PENDING"
  PROVE  Once(j)'
<1>1. Left(j)' <= Left(j)
  BY DEF Left, InTime, server
<1>2. paper'[j] \in Nat /\ Cardinality(Printing(j)') \in Nat /\ paper[j] \in Nat
      /\ Cardinality(Printing(j)) \in Nat /\ taken[j] \in Nat /\ orders[j] \in Nat /\ crossed[j] \in Nat
  BY PrintingFinite, PrintingFinitePrimed DEF TypeOK
<1>3. taken'[j] = taken[j] /\ orders'[j] = orders[j] /\ crossed'[j] = crossed[j]
  BY DEF server
<1> QED
  BY <1>1, <1>2, <1>3, LeftIs DEF Once

LEMMA RequestSteps ==
  ASSUME TypeOK,
         \/ \E j \in Jobs : CreateJob(j) \/ RetryJob(j)
         \/ RetryAllFailed \/ CancelOpen
         \/ \E r \in Printers, a \in Agents \cup {None}, on \in BOOLEAN : SavePrinter(r, a, on)
         \/ \E a \in Agents : ToggleAgent(a)
  PROVE  Request
<1> USE DEF TypeOK, Request, jobs, setup, server
<1>1. ASSUME NEW j \in Jobs, CreateJob(j) \/ RetryJob(j) PROVE Request
  BY <1>1 DEF CreateJob, RetryJob
<1>2. CASE RetryAllFailed
  BY <1>2 DEF RetryAllFailed, Failed
<1>3. CASE CancelOpen
  BY <1>3 DEF CancelOpen
<1>4. ASSUME NEW r \in Printers, NEW a \in Agents \cup {None}, NEW on \in BOOLEAN, SavePrinter(r, a, on)
      PROVE Request
  BY <1>4 DEF SavePrinter
<1>5. ASSUME NEW a \in Agents, ToggleAgent(a) PROVE Request
  BY <1>5 DEF ToggleAgent
<1> HIDE DEF TypeOK, Request, jobs, setup, server
<1> QED
  BY <1>1, <1>2, <1>3, <1>4, <1>5

LEMMA RequestSafe ==
  ASSUME Safe, TypeOK', Request
  PROVE  Safe'
<1> USE DEF Safe
<1>1. Busy' /\ ToldWasHandedOver' /\ ClaimsAwaited'
  BY DEF Busy, ToldWasHandedOver, ClaimsAwaited, Request, server, TypeOK
<1>2. AllOnce'
  <2> SUFFICES ASSUME NEW j \in Jobs PROVE Once(j)'
    BY DEF AllOnce
  <2>1. Printing(j)' = Printing(j)
    BY DEF Request, Printing
  <2>2. Left(j)' <= Left(j) + (orders'[j] - orders[j])
    BY DEF Request, Left, InTime, TypeOK, server
  <2>3. /\ Once(j) /\ paper'[j] = paper[j] /\ taken'[j] = taken[j] /\ crossed'[j] = crossed[j]
        /\ orders'[j] \in Nat /\ orders[j] \in Nat
    BY DEF AllOnce, Request, server, TypeOK
  <2> QED
    BY <2>1, <2>2, <2>3, PrintingFinite, LeftIs DEF Once, TypeOK
<1>3. PrintedWasHandedOver'
  BY DEF PrintedWasHandedOver, Request
<1>4. ClaimedIsHeld'
  BY DEF ClaimedIsHeld, Request, TypeOK
<1> QED
  BY <1>1, <1>2, <1>3, <1>4

LEMMA PollSafe ==
  ASSUME Safe, TypeOK', NEW p \in Programs, Poll(p)
  PROVE  Safe'
<1> DEFINE r == [prog[p] EXCEPT !.todo = Listed(p)]
<1>0. prog[p] = Idle /\ prog' = [prog EXCEPT ![p] = r] /\ UNCHANGED <<jobs, setup, server, paper, mishaps, changes>>
  BY DEF Poll
<1>1. r.step = "idle" /\ r.doing = None
  BY <1>0 DEF Idle
<1>2. r \in TaskType
  <2>1. Listed(p) \in SUBSET Jobs
    BY DEF Listed, PendingFor
  <2> QED
    BY <1>0, <2>1 DEF Idle, TaskType
<1> HIDE DEF r
<1> USE DEF Safe
<1>3. Busy'
  BY <1>0, <1>1 DEF Busy, TypeOK
<1>4. ToldWasHandedOver'
  BY <1>0, <1>1 DEF ToldWasHandedOver, TypeOK
<1>5. AllOnce'
  <2> SUFFICES ASSUME NEW j \in Jobs PROVE Once(j)'
    BY DEF AllOnce
  <2>1. p \notin Printing(j)
    BY <1>0 DEF Printing, Idle
  <2>2. Cardinality(Printing(j)') = Cardinality(Printing(j))
    <3>1. r.step # "printing"
      BY <1>1
    <3>2. Printing(j)' = Printing(j) \ {p}
      BY <1>0, <1>2, <3>1, PrintingLeft
    <3> QED
      BY <2>1, <3>2
  <2> QED
    BY <1>0, <2>2, OnceKept, PrintingFinite DEF AllOnce, TypeOK, jobs
<1>6. PrintedWasHandedOver'
  BY <1>0 DEF PrintedWasHandedOver, jobs
<1>7. ClaimedIsHeld'
  BY <1>0, PrintAssumption DEF ClaimedIsHeld, jobs, TypeOK, Idle
<1>8. ClaimsAwaited'
  BY <1>0 DEF ClaimsAwaited, server, TypeOK, Idle
<1> QED
  BY <1>3, <1>4, <1>5, <1>6, <1>7, <1>8

LEMMA ClaimSafe ==
  ASSUME Safe, TypeOK', NEW p \in Programs, Claim(p)
  PROVE  Safe'
<1> USE DEF Safe
<1>1. PICK j \in prog[p].todo, arrives \in BOOLEAN, answered \in BOOLEAN :
        /\ Mishap(~(arrives /\ answered))
        /\ answered => arrives
        /\ LET read == arrives /\ Claimable(p, j)
               refused == arrives /\ answered /\ Admitted(p) /\ ~Claimable(p, j) IN
           /\ claims' = IF read THEN claims \cup {<<p, j>>} ELSE claims
           /\ prog' = [prog EXCEPT ![p] =
                IF refused THEN [Idle EXCEPT !.todo = prog[p].todo \ {j}]
                ELSE [todo |-> prog[p].todo \ {j}, doing |-> j,
                      step |-> IF read /\ answered THEN "asking" ELSE "failing"]]
  BY DEF Claim
<1> DEFINE read == arrives /\ Claimable(p, j)
           refused == arrives /\ answered /\ Admitted(p) /\ ~Claimable(p, j)
           r == IF refused THEN [todo |-> prog[p].todo \ {j}, doing |-> None, step |-> "idle"]
                ELSE [todo |-> prog[p].todo \ {j}, doing |-> j,
                      step |-> IF read /\ answered THEN "asking" ELSE "failing"]
<1>2. /\ prog' = [prog EXCEPT ![p] = r]
      /\ claims' = IF read THEN claims \cup {<<p, j>>} ELSE claims
      /\ UNCHANGED <<jobs, late, taken, crossed, paper, changes>>
      /\ prog[p].doing = None /\ Mishap(~(arrives /\ answered))
  <2>1. [Idle EXCEPT !.todo = prog[p].todo \ {j}]
          = [todo |-> prog[p].todo \ {j}, doing |-> None, step |-> "idle"]
    BY DEF Idle
  <2>2. prog[p].doing = None /\ UNCHANGED <<jobs, late, taken, crossed, paper, changes>>
    BY DEF Claim
  <2> QED
    BY <1>1, <2>1, <2>2
<1>3. j \in Jobs /\ j # None /\ r \in TaskType /\ prog[p].step = "idle"
  BY <1>2, PrintAssumption DEF TypeOK, TaskType, Busy
<1>4. /\ (r.doing = None) <=> (r.step = "idle")
      /\ r.step \in {"idle", "asking", "failing"}
      /\ read /\ answered => r.step = "asking" /\ r.doing = j
      /\ r.doing # None => r.doing = j
  BY <1>3
<1>5. read => status[j] = "PENDING"
  BY DEF Claimable
<1>6. mishaps' >= mishaps /\ (mishaps' = 0 => mishaps = 0 /\ answered)
  BY <1>2 DEF Mishap, TypeOK
<1> HIDE DEF r, read, refused
<1>7. Busy'
  BY <1>2, <1>4 DEF Busy, TypeOK
<1>8. ToldWasHandedOver'
  BY <1>2, <1>4 DEF ToldWasHandedOver, TypeOK
<1>9. AllOnce'
  <2> SUFFICES ASSUME NEW i \in Jobs PROVE Once(i)'
    BY DEF AllOnce
  <2>1. Once(i) /\ paper'[i] = paper[i] /\ orders'[i] = orders[i]
        /\ taken'[i] = taken[i] /\ crossed'[i] = crossed[i]
    BY <1>2 DEF AllOnce, jobs
  <2>2. Cardinality(Printing(i)') \in Nat /\ Cardinality(Printing(i)) \in Nat
    BY PrintingFinitePrimed, PrintingFinite
  <2>3. Cardinality(Printing(i)') <= Cardinality(Printing(i))
    <3>1. Cardinality(Printing(i)') = Cardinality(Printing(i)) - (IF p \in Printing(i) THEN 1 ELSE 0)
      BY <1>2, <1>3, <1>4, PrintingLeft
    <3> QED
      BY <2>2, <3>1
  <2>4. Left(i)' = Left(i)
    <3>1. \A c : c \in claims' => c \in claims \/ (read /\ c = <<p, j>>)
      BY <1>2
    <3>2. claims \subseteq claims' /\ late' = late /\ status' = status
      BY <1>2 DEF jobs
    <3>3. CASE i = j /\ read
      BY <1>5, <3>2, <3>3 DEF Left
    <3>4. CASE ~(i = j /\ read)
      <4>1. InTime(i)' <=> InTime(i)
        <5>1. InTime(i) => InTime(i)'
          BY <3>2 DEF InTime
        <5>2. ASSUME NEW c \in claims', c[2] = i, c \notin late PROVE InTime(i)
          <6>1. c \in claims
            BY <3>1, <3>4, <5>2
          <6> QED
            BY <6>1, <5>2 DEF InTime
        <5> QED
          BY <3>2, <5>1, <5>2 DEF InTime
      <4> QED
        BY <3>2, <4>1 DEF Left
    <3> QED
      BY <3>3, <3>4
  <2> QED
    BY <2>1, <2>2, <2>3, <2>4, LeftIs DEF Once, TypeOK
<1>10. PrintedWasHandedOver'
  BY <1>2 DEF PrintedWasHandedOver, jobs
<1>11. ClaimedIsHeld'
  <2> SUFFICES ASSUME NEW i \in Jobs, status[i] = "CLAIMED", mishaps = 0, changes = 0
               PROVE \E q \in Programs : prog'[q].doing = i
    BY <1>2, <1>6 DEF ClaimedIsHeld, jobs
  <2>1. PICK q \in Programs : prog[q].doing = i
    BY DEF ClaimedIsHeld
  <2>2. q # p
    BY <1>2, <2>1, PrintAssumption
  <2> QED
    BY <1>2, <2>1, <2>2 DEF TypeOK
<1>12. ClaimsAwaited'
  <2> SUFFICES ASSUME NEW q \in Programs, NEW i \in Jobs, <<q, i>> \in claims', mishaps' = 0
               PROVE prog'[q].step = "asking" /\ prog'[q].doing = i
    BY DEF ClaimsAwaited
  <2>1. CASE <<q, i>> \in claims
    <3>1. prog[q].step = "asking" /\ prog[q].doing = i
      BY <1>6, <2>1 DEF ClaimsAwaited
    <3>2. q # p
      BY <1>3, <3>1
    <3> QED
      BY <1>2, <3>1, <3>2 DEF TypeOK
  <2>2. CASE <<q, i>> \notin claims
    <3>1. q = p /\ i = j /\ read
      BY <1>2, <2>2
    <3> QED
      BY <1>2, <1>4, <1>6, <3>1 DEF TypeOK
  <2> QED
    BY <2>1, <2>2
<1> QED
  BY <1>7, <1>8, <1>9, <1>10, <1>11, <1>12

LEMMA GrantSafe ==
  ASSUME Safe, TypeOK', NEW p \in Programs, NEW j \in Jobs, GrantClaim(p, j)
  PROVE  Safe'
<1> USE DEF Safe
<1> DEFINE waits == prog[p].step = "asking" /\ prog[p].doing = j
           r == IF waits THEN [prog[p] EXCEPT !.step = "printing"] ELSE prog[p]
<1>1. /\ <<p, j>> \in claims /\ prog' = [prog EXCEPT ![p] = r]
      /\ claims' = claims \ {<<p, j>>}
      /\ late' = {c \in claims' : c \in late \/ c[2] = j}
      /\ UNCHANGED <<orders, paper, mishaps, changes>>
  BY DEF GrantClaim, TypeOK
<1>2. \A i \in Jobs :
        /\ status'[i] = IF i = j THEN "CLAIMED" ELSE status[i]
        /\ taken'[i] = taken[i] + (IF i = j THEN 1 ELSE 0)
        /\ crossed'[i] = crossed[i] + (IF i = j /\ <<p, j>> \in late THEN 1 ELSE 0)
  BY DEF GrantClaim, TypeOK
<1>3. /\ r \in TaskType /\ r.doing = prog[p].doing
      /\ r.step = IF waits THEN "printing" ELSE prog[p].step
  BY DEF TypeOK, TaskType
<1> HIDE DEF r
<1>4. Busy'
  BY <1>1, <1>3 DEF Busy, TypeOK
<1>5. ToldWasHandedOver'
  BY <1>1, <1>3 DEF ToldWasHandedOver, TypeOK
<1>6. AllOnce'
  <2> SUFFICES ASSUME NEW i \in Jobs PROVE Once(i)'
    BY DEF AllOnce
  <2>1. Once(i) /\ paper'[i] = paper[i] /\ orders'[i] = orders[i]
    BY <1>1 DEF AllOnce
  <2>2. Cardinality(Printing(i)') \in Nat /\ Cardinality(Printing(i)) \in Nat
    BY PrintingFinitePrimed, PrintingFinite
  <2>3. Cardinality(Printing(i)') <= Cardinality(Printing(i)) + (IF i = j THEN 1 ELSE 0)
    <3>1. CASE waits
      <4>1. Cardinality(Printing(i)') = Cardinality(Printing(i)) + (IF r.doing = i THEN 1 ELSE 0)
        BY <1>1, <1>3, <3>1, PrintingJoined
      <4> QED
        BY <1>3, <2>2, <3>1, <4>1
    <3>2. CASE ~waits
      <4>1. Printing(i)' = Printing(i)
        BY <1>1, <3>2 DEF Printing, r, TypeOK
      <4> QED
        BY <4>1, <2>2
    <3> QED
      BY <3>1, <3>2
  <2>4. CASE i # j
    <3>1. Left(i)' = Left(i)
      <4>1. InTime(i)' <=> InTime(i)
        BY <1>1, <2>4 DEF InTime, TypeOK
      <4> QED
        BY <1>2, <2>4, <4>1 DEF Left
    <3> QED
      BY <1>2, <2>1, <2>2, <2>3, <2>4, <3>1, LeftIs DEF Once, TypeOK
  <2>5. CASE i = j
    <3>1. ~InTime(j)'
      BY <1>1 DEF InTime
    <3>2. Left(j)' = 0
      BY <1>2, <3>1 DEF Left
    <3>3. <<p, j>> \notin late => Left(j) = 1
      BY <1>1 DEF Left, InTime
    <3>4. /\ paper[j] \in Nat /\ taken[j] \in Nat /\ orders[j] \in Nat /\ crossed[j] \in Nat
          /\ taken'[j] = taken[j] + 1
      BY <1>2 DEF TypeOK
    <3>5. /\ paper[j] + Cardinality(Printing(j)) <= taken[j]
          /\ taken[j] + Left(j) <= orders[j] + crossed[j]
      BY <2>1, <2>5 DEF Once
    <3>6. paper'[j] + Cardinality(Printing(j)') <= taken'[j]
      BY <2>1, <2>2, <2>3, <2>5, <3>4, <3>5
    <3>7. taken'[j] + Left(j)' <= orders'[j] + crossed'[j]
      <4>1. CASE <<p, j>> \in late
        <5>1. crossed'[j] = crossed[j] + 1 /\ Left(j) \in {0, 1}
          BY <1>2, <4>1, LeftIs
        <5> QED
          BY <2>1, <2>5, <3>2, <3>4, <3>5, <5>1
      <4>2. CASE <<p, j>> \notin late
        <5>1. crossed'[j] = crossed[j] /\ Left(j) = 1
          BY <1>2, <3>3, <3>4, <4>2
        <5> QED
          BY <2>1, <2>5, <3>2, <3>4, <3>5, <5>1
      <4> QED
        BY <4>1, <4>2
    <3> QED
      BY <2>5, <3>6, <3>7 DEF Once
  <2> QED
    BY <2>4, <2>5
<1>7. PrintedWasHandedOver'
  BY <1>1, <1>2 DEF PrintedWasHandedOver
<1>8. ClaimedIsHeld'
  <2> SUFFICES ASSUME NEW i \in Jobs, status'[i] = "CLAIMED", mishaps = 0, changes = 0
               PROVE \E q \in Programs : prog[q].doing = i
    BY <1>1, <1>3 DEF ClaimedIsHeld, TypeOK
  <2>1. CASE i = j
    BY <1>1, <2>1 DEF ClaimsAwaited
  <2>2. CASE i # j
    BY <1>2, <2>2 DEF ClaimedIsHeld
  <2> QED
    BY <2>1, <2>2
<1>9. ClaimsAwaited'
  <2> SUFFICES ASSUME NEW q \in Programs, NEW i \in Jobs, <<q, i>> \in claims', mishaps = 0
               PROVE prog'[q].step = "asking" /\ prog'[q].doing = i
    BY <1>1 DEF ClaimsAwaited
  <2>1. <<q, i>> \in claims /\ <<q, i>> # <<p, j>>
    BY <1>1
  <2>2. prog[q].step = "asking" /\ prog[q].doing = i /\ prog[p].doing = j
    BY <1>1, <2>1 DEF ClaimsAwaited
  <2>3. q # p
    BY <2>1, <2>2
  <2> QED
    BY <1>1, <2>2, <2>3 DEF TypeOK
<1> QED
  BY <1>4, <1>5, <1>6, <1>7, <1>8, <1>9

LEMMA StopWaitingSafe ==
  ASSUME Safe, TypeOK', NEW p \in Programs, StopWaiting(p)
  PROVE  Safe'
<1> USE DEF Safe
<1> DEFINE r == [prog[p] EXCEPT !.step = "failing"]
<1>1. /\ prog' = [prog EXCEPT ![p] = r] /\ UNCHANGED <<jobs, server, paper, changes>>
      /\ mishaps' > 0 /\ prog[p].step = "asking"
  BY DEF StopWaiting, Mishap, TypeOK
<1>2. r.doing = prog[p].doing /\ r.step = "failing" /\ r \in TaskType
  BY DEF TypeOK, TaskType
<1> HIDE DEF r
<1>3. Busy' /\ ToldWasHandedOver'
  BY <1>1, <1>2 DEF Busy, ToldWasHandedOver, TypeOK
<1>4. AllOnce'
  <2> SUFFICES ASSUME NEW i \in Jobs PROVE Once(i)'
    BY DEF AllOnce
  <2>1. /\ Cardinality(Printing(i)') <= Cardinality(Printing(i))
        /\ Cardinality(Printing(i)') \in Nat /\ Cardinality(Printing(i)) \in Nat
    <3>1. Cardinality(Printing(i)') = Cardinality(Printing(i)) - (IF p \in Printing(i) THEN 1 ELSE 0)
      BY <1>1, <1>2, PrintingLeft
    <3> QED
      BY <3>1, PrintingFinite, PrintingFinitePrimed
  <2>2. paper'[i] = paper[i] /\ paper[i] \in Nat /\ status' = status /\ Once(i) /\ UNCHANGED <<server, orders>>
    BY <1>1 DEF jobs, AllOnce, TypeOK
  <2> QED
    BY <2>1, <2>2, OnceKept
<1>5. PrintedWasHandedOver' /\ ClaimedIsHeld' /\ ClaimsAwaited'
  BY <1>1 DEF PrintedWasHandedOver, ClaimedIsHeld, ClaimsAwaited, jobs, TypeOK
<1> QED
  BY <1>3, <1>4, <1>5

LEMMA PrintSafe ==
  ASSUME Safe, TypeOK', NEW p \in Programs, SendRaw(p)
  PROVE  Safe'
<1> USE DEF Safe
<1>1. PICK ok \in BOOLEAN, raised \in BOOLEAN : HandOver(p, ok, raised) /\ (ok \/ raised)
  BY DEF SendRaw
<1> DEFINE j == prog[p].doing
           r == [prog[p] EXCEPT !.step = IF raised THEN "failing" ELSE "telling"]
<1>2. /\ prog' = [prog EXCEPT ![p] = r]
      /\ paper' = [paper EXCEPT ![j] = IF ok THEN @ + 1 ELSE @]
      /\ prog[p].step = "printing"
      /\ UNCHANGED <<status, orders, server, changes>>
      /\ mishaps' >= mishaps
  BY <1>1, MishapType DEF HandOver, SendRaw, jobs
<1>3. r \in TaskType /\ r.doing = j /\ j \in Jobs
  <2>1. prog[p] \in TaskType
    BY DEF TypeOK, TaskType
  <2>2. prog[p].doing # None
    BY <1>2 DEF Busy
  <2>3. j \in Jobs
    BY <2>1, <2>2 DEF TaskType
  <2>4. r \in TaskType /\ r.doing = prog[p].doing
    BY <2>1 DEF TaskType
  <2> QED
    BY <2>3, <2>4
<1>4. /\ r.step \in {"telling", "failing"}
      /\ r.step = "telling" => ok
  BY <1>1, <1>2, <1>3 DEF TypeOK, TaskType
<1> HIDE DEF r, j
<1>5. \A i \in Jobs : paper'[i] = paper[i] + (IF ok /\ i = j THEN 1 ELSE 0)
  BY <1>2, <1>3 DEF TypeOK
<1>6. Busy'
  BY <1>2, <1>3, <1>4, PrintAssumption DEF Busy, TypeOK
<1>7. ToldWasHandedOver'
  <2> SUFFICES ASSUME NEW q \in Programs, prog'[q].step = "telling"
               PROVE paper'[prog'[q].doing] > 0
    BY DEF ToldWasHandedOver
  <2>1. CASE q = p
    <3>1. prog'[q] = r
      BY <1>2, <2>1 DEF TypeOK
    <3> QED
      BY <3>1, <1>3, <1>4, <1>5 DEF TypeOK
  <2>2. CASE q # p
    <3>1. prog'[q] = prog[q]
      BY <1>2, <2>2 DEF TypeOK
    <3>2. prog[q].doing \in Jobs
      BY <3>1 DEF TypeOK, Busy
    <3> QED
      BY <3>1, <3>2, <1>5 DEF TypeOK, ToldWasHandedOver
  <2> QED
    BY <2>1, <2>2
<1>8. AllOnce'
  <2> SUFFICES ASSUME NEW i \in Jobs PROVE Once(i)'
    BY DEF AllOnce
  <2>1. Once(i)
    BY DEF AllOnce
  <2>2. /\ Cardinality(Printing(i)') = Cardinality(Printing(i)) - (IF p \in Printing(i) THEN 1 ELSE 0)
        /\ Cardinality(Printing(i)') \in Nat /\ Cardinality(Printing(i)) \in Nat
    BY <1>2, <1>3, <1>4, PrintingLeft, PrintingFinite
  <2>3. (p \in Printing(i)) <=> (i = j)
    BY <1>2 DEF Printing, j
  <2>4. paper'[i] + Cardinality(Printing(i)') <= paper[i] + Cardinality(Printing(i))
    BY <1>5, <2>2, <2>3 DEF TypeOK
  <2> QED
    BY <1>2, <2>1, <2>4, OnceKept
<1>9. PrintedWasHandedOver'
  BY <1>2, <1>5 DEF PrintedWasHandedOver, TypeOK
<1>10. ClaimedIsHeld'
  <2> SUFFICES ASSUME NEW i \in Jobs, status'[i] = "CLAIMED", mishaps' = 0, changes' = 0
               PROVE \E q \in Programs : prog'[q].doing = i
    BY DEF ClaimedIsHeld
  <2>1. PICK q \in Programs : prog[q].doing = i
    BY <1>2 DEF ClaimedIsHeld, TypeOK
  <2>2. prog'[q].doing = prog[q].doing
    BY <1>2, <1>3 DEF TypeOK, j
  <2> QED
    BY <2>1, <2>2
<1>11. ClaimsAwaited'
  <2> SUFFICES ASSUME NEW q \in Programs, NEW i \in Jobs, <<q, i>> \in claims, mishaps = 0
               PROVE prog'[q].step = "asking" /\ prog'[q].doing = i
    BY <1>2 DEF ClaimsAwaited, server, TypeOK
  <2>1. prog[q].step = "asking" /\ prog[q].doing = i
    BY DEF ClaimsAwaited
  <2>2. q # p
    BY <1>2, <2>1
  <2> QED
    BY <1>2, <2>1, <2>2 DEF TypeOK
<1> QED
  BY <1>6, <1>7, <1>8, <1>9, <1>10, <1>11

LEMMA TellPrintedSafe ==
  ASSUME Safe, TypeOK', NEW p \in Programs, TellPrinted(p)
  PROVE  Safe'
<1> USE DEF Safe
<1> DEFINE j == prog[p].doing
<1>1. PICK arrives \in BOOLEAN, answered \in BOOLEAN :
        /\ answered => arrives
        /\ Mishap(~(arrives /\ answered))
        /\ LET done == arrives /\ TakesPrinted(p, j) IN
           /\ status' = [status EXCEPT ![j] = IF done THEN "PRINTED" ELSE @]
           /\ IF done /\ answered THEN NextJob(p) ELSE prog' = [prog EXCEPT ![p].step = "failing"]
  BY DEF TellPrinted
<1> DEFINE done == arrives /\ TakesPrinted(p, j)
           r == IF done /\ answered THEN [todo |-> prog[p].todo, doing |-> None, step |-> "idle"]
                ELSE [prog[p] EXCEPT !.step = "failing"]
<1>2. /\ prog' = [prog EXCEPT ![p] = r]
      /\ status' = [status EXCEPT ![j] = IF done THEN "PRINTED" ELSE @]
      /\ UNCHANGED <<orders, server, paper, changes>>
      /\ prog[p].step = "telling"
  <2>1. [Idle EXCEPT !.todo = prog[p].todo] = [todo |-> prog[p].todo, doing |-> None, step |-> "idle"]
    BY DEF Idle
  <2>2. prog[p].step = "telling" /\ UNCHANGED <<orders, server, paper, changes>>
    BY DEF TellPrinted
  <2> QED
    BY <1>1, <2>1, <2>2 DEF NextJob
<1>3. /\ j \in Jobs /\ j # None /\ r \in TaskType
      /\ mishaps' >= mishaps /\ (mishaps' = 0 => arrives /\ answered)
  <2>1. j \in Jobs /\ j # None
    BY <1>2, PrintAssumption DEF TypeOK, Busy
  <2>2. r \in TaskType
    <3>1. prog[p] \in TaskType
      BY DEF TypeOK, TaskType
    <3>2. [todo |-> prog[p].todo, doing |-> None, step |-> "idle"] \in TaskType
      BY <3>1 DEF TaskType
    <3>3. [prog[p] EXCEPT !.step = "failing"] \in TaskType
      BY <3>1 DEF TaskType
    <3> QED
      BY <3>2, <3>3
  <2>3. mishaps' >= mishaps /\ (mishaps' = 0 => arrives /\ answered)
    <3>1. mishaps' >= mishaps /\ (~(arrives /\ answered) => mishaps' > 0)
      BY <1>1, MishapType
    <3> QED
      BY <3>1
  <2> QED
    BY <2>1, <2>2, <2>3
<1>4. /\ (r.doing = None) <=> (r.step = "idle")
      /\ r.step \in {"idle", "failing"}
      /\ (~done \/ ~answered) => r.doing = j
  BY <1>2, <1>3 DEF TypeOK, TaskType
<1> HIDE DEF r, done
<1>5. Busy' /\ ToldWasHandedOver'
  BY <1>2, <1>4 DEF Busy, ToldWasHandedOver, TypeOK
<1>6. \A i \in Jobs : status'[i] = IF done /\ i = j THEN "PRINTED" ELSE status[i]
  BY <1>2, <1>3 DEF TypeOK
<1>7. AllOnce'
  <2> SUFFICES ASSUME NEW i \in Jobs PROVE Once(i)'
    BY DEF AllOnce
  <2>1. Cardinality(Printing(i)') = Cardinality(Printing(i))
    <3>1. p \notin Printing(i)
      BY <1>2 DEF Printing
    <3>2. Cardinality(Printing(i)') = Cardinality(Printing(i)) - (IF p \in Printing(i) THEN 1 ELSE 0)
      BY <1>2, <1>3, <1>4, PrintingLeft
    <3> QED
      BY <3>1, <3>2, PrintingFinite
  <2>2. Once(i) /\ status'[i] \in {status[i], "PRINTED"}
    BY <1>6 DEF AllOnce
  <2> QED
    BY <1>2, <2>1, <2>2, OnceKept, PrintingFinite DEF TypeOK
<1>8. PrintedWasHandedOver'
  BY <1>2, <1>3, <1>6 DEF PrintedWasHandedOver, ToldWasHandedOver
<1>9. ClaimedIsHeld'
  <2> SUFFICES ASSUME NEW i \in Jobs, status'[i] = "CLAIMED", mishaps' = 0, changes' = 0
               PROVE \E q \in Programs : prog'[q].doing = i
    BY DEF ClaimedIsHeld
  <2>1. status[i] = "CLAIMED" /\ mishaps = 0 /\ changes = 0 /\ answered /\ (i = j => ~done)
    BY <1>2, <1>3, <1>6 DEF TypeOK
  <2>2. PICK q \in Programs : prog[q].doing = i
    BY <2>1 DEF ClaimedIsHeld
  <2>3. CASE q = p
    BY <1>2, <1>4, <2>1, <2>2, <2>3 DEF TypeOK
  <2>4. CASE q # p
    BY <1>2, <2>2, <2>4 DEF TypeOK
  <2> QED
    BY <2>3, <2>4
<1>10. ClaimsAwaited'
  <2> SUFFICES ASSUME NEW q \in Programs, NEW i \in Jobs, <<q, i>> \in claims, mishaps = 0
               PROVE prog'[q].step = "asking" /\ prog'[q].doing = i
    BY <1>2, <1>3 DEF ClaimsAwaited, server, TypeOK
  <2>1. prog[q].step = "asking" /\ prog[q].doing = i
    BY DEF ClaimsAwaited
  <2>2. q # p
    BY <1>2, <2>1
  <2> QED
    BY <1>2, <2>1, <2>2 DEF TypeOK
<1> QED
  BY <1>5, <1>7, <1>8, <1>9, <1>10

LEMMA TellFailedSafe ==
  ASSUME Safe, Steady, TypeOK', NEW p \in Programs, TellFailed(p)
  PROVE  Safe'
<1> USE DEF Safe
<1> DEFINE j == prog[p].doing
           r == [todo |-> prog[p].todo, doing |-> None, step |-> "idle"]
<1>1. PICK arrives \in BOOLEAN :
        /\ Mishap(~arrives)
        /\ status' = [status EXCEPT ![j] = IF arrives /\ Admitted(p) /\ Own(p, j) THEN "FAILED" ELSE @]
        /\ NextJob(p)
  BY DEF TellFailed, ReportFailure
<1>2. /\ prog' = [prog EXCEPT ![p] = r]
      /\ UNCHANGED <<orders, server, paper, changes>>
      /\ prog[p].step = "failing"
  <2>1. [Idle EXCEPT !.todo = prog[p].todo] = r
    BY DEF Idle
  <2>2. prog[p].step = "failing" /\ UNCHANGED <<orders, server, paper, changes>>
    BY DEF TellFailed
  <2> QED
    BY <1>1, <2>1, <2>2 DEF NextJob
<1>3. /\ j \in Jobs /\ j # None /\ r \in TaskType
      /\ mishaps' >= mishaps /\ (mishaps' = 0 => arrives)
  <2>1. j \in Jobs /\ j # None
    BY <1>2, PrintAssumption DEF TypeOK, Busy
  <2>2. r \in TaskType
    BY DEF TypeOK, TaskType
  <2>3. mishaps' >= mishaps /\ (mishaps' = 0 => arrives)
    BY <1>1 DEF TypeOK, Mishap
  <2> QED
    BY <2>1, <2>2, <2>3
<1>4. r.doing = None /\ r.step = "idle"
  OBVIOUS
<1> HIDE DEF r
<1>5. Busy' /\ ToldWasHandedOver'
  BY <1>2, <1>4 DEF Busy, ToldWasHandedOver, TypeOK
<1>6. \A i \in Jobs : status'[i] = IF arrives /\ Admitted(p) /\ Own(p, j) /\ i = j
                                   THEN "FAILED" ELSE status[i]
  BY <1>1, <1>3 DEF TypeOK
<1>7. AllOnce'
  <2> SUFFICES ASSUME NEW i \in Jobs PROVE Once(i)'
    BY DEF AllOnce
  <2>1. Cardinality(Printing(i)') = Cardinality(Printing(i))
    <3>1. p \notin Printing(i)
      BY <1>2 DEF Printing
    <3>2. Cardinality(Printing(i)') = Cardinality(Printing(i)) - (IF p \in Printing(i) THEN 1 ELSE 0)
      BY <1>2, <1>3, <1>4, PrintingLeft
    <3> QED
      BY <3>1, <3>2, PrintingFinite
  <2>2. Once(i) /\ status'[i] \in {status[i], "FAILED"}
    BY <1>6 DEF AllOnce
  <2> QED
    BY <1>2, <2>1, <2>2, OnceKept, PrintingFinite DEF TypeOK
<1>8. PrintedWasHandedOver'
  BY <1>2, <1>6 DEF PrintedWasHandedOver
<1>9. ClaimedIsHeld'
  <2> SUFFICES ASSUME NEW i \in Jobs, status'[i] = "CLAIMED", mishaps' = 0, changes' = 0
               PROVE \E q \in Programs : prog'[q].doing = i
    BY DEF ClaimedIsHeld
  <2>1. mishaps = 0 /\ changes = 0 /\ arrives
    BY <1>2, <1>3 DEF TypeOK
  <2>2. Admitted(p) /\ Own(p, j)
    BY <1>3, <2>1, PrintAssumption DEF Steady, Admitted
  <2>3. status[i] = "CLAIMED" /\ i # j
    BY <1>3, <1>6, <2>1, <2>2
  <2>4. PICK q \in Programs : prog[q].doing = i
    BY <2>1, <2>3 DEF ClaimedIsHeld
  <2>5. q # p
    BY <2>3, <2>4
  <2> QED
    BY <1>2, <2>4, <2>5 DEF TypeOK
<1>10. ClaimsAwaited'
  <2> SUFFICES ASSUME NEW q \in Programs, NEW i \in Jobs, <<q, i>> \in claims, mishaps = 0
               PROVE prog'[q].step = "asking" /\ prog'[q].doing = i
    BY <1>2, <1>3 DEF ClaimsAwaited, server, TypeOK
  <2>1. prog[q].step = "asking" /\ prog[q].doing = i
    BY DEF ClaimsAwaited
  <2>2. q # p
    BY <1>2, <2>1
  <2> QED
    BY <1>2, <2>1, <2>2 DEF TypeOK
<1> QED
  BY <1>5, <1>7, <1>8, <1>9, <1>10

LEMMA RestartSafe ==
  ASSUME Safe, TypeOK', NEW p \in Programs, Restart(p)
  PROVE  Safe'
<1> USE DEF Safe
<1>1. prog' = [prog EXCEPT ![p] = Idle] /\ UNCHANGED <<jobs, setup, server, paper, changes>> /\ mishaps' > 0
  BY DEF Restart, Mishap, TypeOK
<1>2. Idle.doing = None /\ Idle.step = "idle" /\ Idle \in TaskType
  BY IdleType DEF Idle
<1>3. Busy' /\ ToldWasHandedOver'
  BY <1>1, <1>2 DEF Busy, ToldWasHandedOver, TypeOK
<1>4. AllOnce'
  <2> SUFFICES ASSUME NEW i \in Jobs PROVE Once(i)'
    BY DEF AllOnce
  <2>1. /\ Cardinality(Printing(i)') = Cardinality(Printing(i)) - (IF p \in Printing(i) THEN 1 ELSE 0)
        /\ Cardinality(Printing(i)') \in Nat /\ Cardinality(Printing(i)) \in Nat
    BY <1>1, <1>2, PrintingLeft, PrintingFinite
  <2>2. Once(i) /\ paper'[i] = paper[i] /\ paper[i] \in Nat /\ UNCHANGED <<server, orders, status>>
    BY <1>1 DEF AllOnce, jobs, TypeOK
  <2>3. paper'[i] + Cardinality(Printing(i)') <= paper[i] + Cardinality(Printing(i))
    BY <2>1, <2>2
  <2> QED
    BY <2>2, <2>3, OnceKept
<1>5. PrintedWasHandedOver' /\ ClaimedIsHeld' /\ ClaimsAwaited'
  BY <1>1 DEF PrintedWasHandedOver, ClaimedIsHeld, ClaimsAwaited, jobs, TypeOK
<1> QED
  BY <1>3, <1>4, <1>5

-----------------------------------------------------------------------------
(* Steady and Known, from the types alone. *)

(* What a program fetched, or claims, is a job that was created.                *)
Known ==
  /\ \A p \in Programs, j \in Jobs :
       (j \in prog[p].todo \/ prog[p].doing = j) => status[j] # "NONE"
  /\ \A c \in claims : status[c[2]] # "NONE"

(* A program touches itself only, and takes up only jobs listed for it.          *)
ProgramMoves(p) ==
  /\ UNCHANGED <<setup, changes>>
  /\ \A q \in Programs : q # p => prog'[q] = prog[q]
  /\ \A j \in Jobs : (j \in prog'[p].todo \/ prog'[p].doing = j)
       => \/ j \in prog[p].todo \/ prog[p].doing = j
          \/ Own(p, j) /\ status[j] = "PENDING"
  /\ \A j \in Jobs : status[j] # "NONE" => status'[j] # "NONE"
  /\ \A c \in claims' : c \in claims \/ (c[2] \in Jobs /\ status[c[2]] = "PENDING")

LEMMA ProgramStep ==
  ASSUME TypeOK, TypeOK', NEW p \in Programs,
         Work(p) \/ Answer(p) \/ StopWaiting(p) \/ Restart(p)
  PROVE  ProgramMoves(p)
<1> USE DEF ProgramMoves
<1>1. UNCHANGED <<setup, changes>>
  BY DEF Work, Answer, StopWaiting, Restart, Poll, Claim, GrantClaim, SendRaw, TellPrinted, TellFailed, setup
<1>2. CASE Poll(p)
  BY <1>1, <1>2 DEF Poll, Listed, PendingFor, TypeOK, jobs, server
<1>3. CASE Claim(p)
  <2>1. PICK j \in prog[p].todo, b \in BOOLEAN, st \in {"asking", "failing"} :
          prog' = [prog EXCEPT ![p] =
            IF b THEN [Idle EXCEPT !.todo = prog[p].todo \ {j}]
            ELSE [todo |-> prog[p].todo \ {j}, doing |-> j, step |-> st]]
    BY <1>3 DEF Claim
  <2>2. [Idle EXCEPT !.todo = prog[p].todo \ {j}]
          = [todo |-> prog[p].todo \ {j}, doing |-> None, step |-> "idle"]
    BY DEF Idle
  <2>3. prog'[p].todo = prog[p].todo \ {j} /\ prog'[p].doing \in {j, None}
    BY <2>1, <2>2 DEF TypeOK
  <2>4. status' = status
    BY <1>3 DEF Claim, jobs
  <2>5. \A q \in Programs : q # p => prog'[q] = prog[q]
    BY <2>1 DEF TypeOK
  <2>6. \A c \in claims' : c \in claims \/ (c[2] \in Jobs /\ status[c[2]] = "PENDING")
    <3>1. PICK i \in prog[p].todo, read \in BOOLEAN :
            /\ read => status[i] = "PENDING"
            /\ claims' = IF read THEN claims \cup {<<p, i>>} ELSE claims
      BY <1>3 DEF Claim, Claimable
    <3>2. i \in Jobs
      BY DEF TypeOK
    <3> QED
      BY <3>1, <3>2
  <2> QED
    BY <1>1, <2>3, <2>4, <2>5, <2>6, PrintAssumption
<1>g. ASSUME NEW j \in Jobs, GrantClaim(p, j) PROVE ProgramMoves(p)
  <2>1. prog'[p].todo = prog[p].todo /\ prog'[p].doing = prog[p].doing
    BY <1>g DEF GrantClaim, TypeOK
  <2>2. \A q \in Programs : q # p => prog'[q] = prog[q]
    BY <1>g DEF GrantClaim, TypeOK
  <2>3. \A i \in Jobs : status'[i] \in {status[i], "CLAIMED"}
    BY <1>g DEF GrantClaim, TypeOK
  <2>4. claims' \subseteq claims
    BY <1>g DEF GrantClaim
  <2> QED
    BY <1>1, <2>1, <2>2, <2>3, <2>4
<1>w. CASE StopWaiting(p)
  BY <1>1, <1>w DEF StopWaiting, TypeOK, jobs, server
<1>4. CASE SendRaw(p)
  BY <1>1, <1>4 DEF SendRaw, HandOver, TypeOK, jobs, server
<1>5. CASE TellPrinted(p) \/ TellFailed(p)
  <2>1. [Idle EXCEPT !.todo = prog[p].todo] = [todo |-> prog[p].todo, doing |-> None, step |-> "idle"]
    BY DEF Idle
  <2>2. prog'[p].todo = prog[p].todo /\ prog'[p].doing \in {prog[p].doing, None}
    BY <1>5, <2>1 DEF TellPrinted, TellFailed, ReportFailure, NextJob, TypeOK
  <2>3. \A q \in Programs : q # p => prog'[q] = prog[q]
    BY <1>5 DEF TellPrinted, TellFailed, ReportFailure, NextJob, TypeOK
  <2>4. \A i \in Jobs : status'[i] \in {status[i], "PRINTED", "FAILED"}
    BY <1>5 DEF TellPrinted, TellFailed, ReportFailure, TypeOK
  <2>5. claims' = claims
    BY <1>5 DEF TellPrinted, TellFailed, server
  <2> QED
    BY <1>1, <2>2, <2>3, <2>4, <2>5, PrintAssumption
<1>6. CASE Restart(p)
  BY <1>1, <1>6, PrintAssumption DEF Restart, Idle, TypeOK, jobs, server
<1> QED
  BY <1>2, <1>3, <1>g, <1>w, <1>4, <1>5, <1>6 DEF Work, Answer

LEMMA SteadyStep ==
  ASSUME TypeOK, TypeOK', Steady, Known, [Next]_vars
  PROVE  Steady' /\ Known'
<1> USE DEF Steady, Known, Own
<1>0. \A c \in claims : c[2] \in Jobs
  BY DEF TypeOK
<1>1. ASSUME NEW j \in Jobs, CreateJob(j) \/ RetryJob(j) PROVE Steady' /\ Known'
  BY <1>0, <1>1 DEF CreateJob, RetryJob, setup, server, TypeOK
<1>2. CASE RetryAllFailed
  BY <1>0, <1>2 DEF RetryAllFailed, setup, server, TypeOK
<1>3. CASE CancelOpen
  BY <1>0, <1>3 DEF CancelOpen, setup, server, TypeOK
<1>4. ASSUME NEW r \in Printers, NEW a \in Agents \cup {None}, NEW on \in BOOLEAN, SavePrinter(r, a, on)
      PROVE Steady' /\ Known'
  BY <1>4 DEF SavePrinter, TypeOK, jobs, server
<1>5. ASSUME NEW a \in Agents, ToggleAgent(a) PROVE Steady' /\ Known'
  BY <1>5 DEF ToggleAgent, TypeOK, jobs, server
<1>6. ASSUME NEW p \in Programs, Work(p) \/ Answer(p) \/ StopWaiting(p) \/ Restart(p)
      PROVE Steady' /\ Known'
  <2>0. ProgramMoves(p)
    BY <1>6, ProgramStep
  <2>1. /\ UNCHANGED <<agentOf, agentOn, changes>>
        /\ \A q \in Programs : q # p => prog'[q] = prog[q]
        /\ \A j \in Jobs : (j \in prog'[p].todo \/ prog'[p].doing = j)
             => \/ j \in prog[p].todo \/ prog[p].doing = j
                \/ Own(p, j) /\ status[j] = "PENDING"
        /\ \A j \in Jobs : status[j] # "NONE" => status'[j] # "NONE"
        /\ \A c \in claims' : c \in claims \/ (c[2] \in Jobs /\ status[c[2]] = "PENDING")
    BY <2>0 DEF ProgramMoves, setup
  <2>2. Known'
    <3>1. ASSUME NEW q \in Programs, NEW j \in Jobs, j \in prog'[q].todo \/ prog'[q].doing = j
          PROVE status'[j] # "NONE"
      BY <2>1, <3>1
    <3>2. ASSUME NEW c \in claims' PROVE status'[c[2]] # "NONE"
      BY <1>0, <2>1
    <3> QED
      BY <3>1, <3>2
  <2>3. Steady'
    <3> SUFFICES ASSUME changes' = 0
                 PROVE /\ \A a \in Agents : agentOn'[a]
                       /\ \A q \in Programs, j \in Jobs :
                            (j \in prog'[q].todo \/ prog'[q].doing = j) => Own(q, j)'
      OBVIOUS
    <3> QED
      BY <2>1
  <2> QED
    BY <2>2, <2>3
<1>7. CASE UNCHANGED vars
  BY <1>7 DEF vars
<1> QED
  BY <1>1, <1>2, <1>3, <1>4, <1>5, <1>6, <1>7 DEF Next

LEMMA SafeStep ==
  ASSUME Safe, Steady, [Next]_vars
  PROVE  Safe'
<1>1. TypeOK'
  BY StepType DEF Safe
<1>2. CASE \/ \E j \in Jobs : CreateJob(j) \/ RetryJob(j)
           \/ RetryAllFailed \/ CancelOpen
           \/ \E r \in Printers, a \in Agents \cup {None}, on \in BOOLEAN : SavePrinter(r, a, on)
           \/ \E a \in Agents : ToggleAgent(a)
  <2>1. Request
    BY <1>2, RequestSteps DEF Safe
  <2> QED
    BY <1>1, <2>1, RequestSafe
<1>3. ASSUME NEW p \in Programs, Work(p) \/ Answer(p) \/ StopWaiting(p) \/ Restart(p) PROVE Safe'
  BY <1>1, <1>3, PollSafe, ClaimSafe, GrantSafe, StopWaitingSafe, PrintSafe, TellPrintedSafe,
     TellFailedSafe, RestartSafe DEF Work, Answer
<1>4. CASE UNCHANGED vars
  <2>1. AllOnce'
    BY <1>4 DEF Safe, vars, AllOnce, Once, Left, InTime, Printing
  <2> QED
    BY <1>4, <2>1 DEF Safe, vars, TypeOK, Busy, PrintedWasHandedOver, ToldWasHandedOver,
                      ClaimedIsHeld, ClaimsAwaited
<1> QED
  BY <1>2, <1>3, <1>4 DEF Next

LEMMA InitSafe == Init => Safe /\ Steady /\ Known
<1> SUFFICES ASSUME Init PROVE Safe /\ Steady /\ Known
  OBVIOUS
<1>1. TypeOK
  BY InitType
<1>2. \A p \in Programs : prog[p].doing = None /\ prog[p].step = "idle" /\ prog[p].todo = {}
  BY DEF Init, Idle
<1>3. Busy /\ ToldWasHandedOver /\ PrintedWasHandedOver /\ ClaimedIsHeld /\ ClaimsAwaited
  BY <1>2 DEF Init, Busy, ToldWasHandedOver, PrintedWasHandedOver, ClaimedIsHeld, ClaimsAwaited
<1>4. AllOnce
  <2> SUFFICES ASSUME NEW j \in Jobs PROVE Once(j)
    BY DEF AllOnce
  <2>1. Printing(j) = {}
    BY <1>2 DEF Printing
  <2> QED
    BY <2>1, FS_EmptySet DEF Once, Left, InTime, Init
<1>5. Steady /\ Known
  BY <1>2, PrintAssumption DEF Init, Steady, Known
<1> QED
  BY <1>1, <1>3, <1>4, <1>5 DEF Safe

Invariant == Safe /\ Steady /\ Known

LEMMA AlwaysSafe == Spec => []Invariant
<1>1. Invariant /\ [Next]_vars => Invariant'
  <2> SUFFICES ASSUME Invariant, [Next]_vars PROVE Invariant'
    OBVIOUS
  <2>1. Safe'
    BY SafeStep DEF Invariant
  <2> QED
    BY <2>1, SteadyStep DEF Invariant, Safe
<1>2. Init => Invariant
  BY InitSafe DEF Invariant
<1> QED
  BY <1>1, <1>2, PTL DEF Spec

LEMMA OnceEnough ==
  ASSUME TypeOK, AllOnce
  PROVE  OncePerOrder
  BY LeftIs DEF AllOnce, Once, Left, OncePerOrder, TypeOK

(* No paper comes out that nobody asked for, but where claims of one job cross     *)
(* (claim_job, process_job).                                                     *)
THEOREM PrintOnce == Spec => []OncePerOrder
<1>1. Invariant => OncePerOrder
  BY OnceEnough DEF Invariant, Safe
<1> QED
  BY <1>1, AlwaysSafe, PTL

(* A job shown as printed was handed to its printer (mark_job_printed).          *)
THEOREM PrintHandedOver == Spec => []PrintedWasHandedOver
<1>1. Invariant => PrintedWasHandedOver
  BY DEF Invariant, Safe
<1> QED
  BY <1>1, AlwaysSafe, PTL

(* While nothing is lost or changed, a claimed job is in a program's hands.      *)
THEOREM PrintClaims == Spec => []ClaimedIsHeld
<1>1. Invariant => ClaimedIsHeld
  BY DEF Invariant, Safe
<1> QED
  BY <1>1, AlwaysSafe, PTL

-----------------------------------------------------------------------------
(* The refinement: every step of the queue is a step of PrintService, or none.    *)

View == [j \in Jobs |-> Shown(status[j])]

LEMMA ShownIs ==
  /\ Shown("NONE") = "none" /\ Shown("PENDING") = "open" /\ Shown("CLAIMED") = "open"
  /\ Shown("PRINTED") = "printed" /\ Shown("FAILED") = "trouble" /\ Shown("CANCELLED") = "trouble"
  BY DEF Shown

LEMMA ViewStep ==
  ASSUME Invariant, [Next]_vars
  PROVE  [Service!Next]_<<orders, crossed, paper, View>>
<1> USE DEF PrintJobStatus
<1> DEFINE Goal == [Service!Next]_<<orders, crossed, paper, View>>
<1>0. TypeOK /\ TypeOK' /\ AllOnce' /\ Busy
  BY StepType, SafeStep DEF Invariant, Safe
<1>k. \A j \in Jobs : status[j] \in PrintJobStatus \cup {"NONE"}
  BY <1>0 DEF TypeOK
<1>1. ASSUME NEW j \in Jobs, CreateJob(j) \/ RetryJob(j) PROVE Goal
  <2>1. Service!Order(j)
    <3>1. /\ status[j] \in {"NONE", "FAILED", "CANCELLED"}
          /\ status' = [status EXCEPT ![j] = "PENDING"]
          /\ orders' = [orders EXCEPT ![j] = @ + 1] /\ UNCHANGED <<crossed, paper>>
      BY <1>1 DEF CreateJob, RetryJob, server
    <3>2. View[j] \in {"none", "trouble"}
      BY <3>1, ShownIs DEF View
    <3>a. \A i \in Jobs : status'[i] = IF i = j THEN "PENDING" ELSE status[i]
      BY <1>0, <3>1 DEF TypeOK
    <3>b. \A i \in Jobs : Shown(status'[i]) = IF i = j THEN "open" ELSE Shown(status[i])
      BY <3>a, ShownIs
    <3>3. View' = [View EXCEPT ![j] = "open"]
      BY <3>b DEF View
    <3> QED
      BY <3>1, <3>2, <3>3, Zenon DEF Service!Order, View
  <2> QED
    BY <2>1 DEF Service!Next
<1>2. CASE RetryAllFailed
  <2>1. Service!OrderAgain(Failed)
    BY <1>0, <1>2, ShownIs DEF RetryAllFailed, Failed, Service!OrderAgain, View, TypeOK, server
  <2>2. Failed \in SUBSET Jobs
    BY DEF Failed
  <2> QED
    BY <2>1, <2>2 DEF Service!Next
<1>3. CASE CancelOpen
  <2> DEFINE js == {j \in Jobs : status[j] \in {"PENDING", "CLAIMED"}}
  <2>1. Service!GiveUp(js)
    <3>1. \A j \in js : View[j] = "open"
      BY ShownIs DEF View
    <3>2. View' = [j \in Jobs |-> IF j \in js THEN "trouble" ELSE View[j]]
      BY <1>0, <1>k, <1>3, ShownIs DEF CancelOpen, Open, View
    <3> QED
      BY <3>1, <3>2, <1>3 DEF CancelOpen, Service!GiveUp, View, server
  <2>2. js \in SUBSET Jobs
    OBVIOUS
  <2> HIDE DEF js
  <2> QED
    BY <2>1, <2>2 DEF Service!Next
<1>4. ASSUME NEW r \in Printers, NEW a \in Agents \cup {None}, NEW on \in BOOLEAN, SavePrinter(r, a, on)
      PROVE Goal
  BY <1>4 DEF SavePrinter, View, jobs, server
<1>5. ASSUME NEW a \in Agents, ToggleAgent(a) PROVE Goal
  BY <1>5 DEF ToggleAgent, View, jobs, server
<1>6. ASSUME NEW p \in Programs, Poll(p) \/ StopWaiting(p) \/ Restart(p) PROVE Goal
  BY <1>6 DEF Poll, StopWaiting, Restart, View, jobs, server
<1>7. ASSUME NEW p \in Programs, Claim(p) PROVE Goal
  BY <1>7 DEF Claim, View, jobs
<1>a. ASSUME NEW p \in Programs, NEW j \in Jobs, GrantClaim(p, j) PROVE Goal
  <2> DEFINE again == <<p, j>> \in late
  <2>1. /\ status' = [status EXCEPT ![j] = "CLAIMED"]
        /\ crossed' = [crossed EXCEPT ![j] = IF again THEN @ + 1 ELSE @]
        /\ UNCHANGED <<orders, paper>>
    BY <1>a DEF GrantClaim
  <2>2. status[j] # "NONE"
    BY <1>a DEF GrantClaim, Invariant, Known
  <2>3. View[j] # "none"
    BY <1>a, <1>0, <2>2, ShownIs DEF View, TypeOK
  <2>4. View' = [View EXCEPT ![j] = "open"]
    <3>1. \A i \in Jobs : Shown(status'[i]) = IF i = j THEN "open" ELSE Shown(status[i])
      BY <1>0, <2>1, ShownIs DEF TypeOK
    <3> QED
      BY <3>1 DEF View
  <2>5. again \in BOOLEAN
    OBVIOUS
  <2> HIDE DEF again
  <2>6. Service!TakeLate(j, again)
    BY <2>1, <2>3, <2>4, Zenon DEF Service!TakeLate, View
  <2> QED
    BY <2>5, <2>6 DEF Service!Next
<1>8. ASSUME NEW p \in Programs, SendRaw(p) PROVE Goal
  <2>0. PICK j \in Jobs : j = prog[p].doing
    BY <1>0, <1>8 DEF SendRaw, Busy, TypeOK
  <2>1. PICK ok \in BOOLEAN : paper' = [paper EXCEPT ![j] = IF ok THEN @ + 1 ELSE @]
    BY <1>8, <2>0 DEF SendRaw, HandOver
  <2>2. UNCHANGED <<orders, crossed, status>>
    BY <1>8 DEF SendRaw, jobs, server
  <2>3. CASE ok
    <3>1. paper[j] < orders[j] + crossed[j]
      <4>1. Once(j)' /\ Cardinality(Printing(j)') \in Nat
        BY <1>0, PrintingFinitePrimed DEF AllOnce
      <4>2. paper'[j] = paper[j] + 1
        BY <1>0, <2>1, <2>2, <2>3 DEF TypeOK
      <4> QED
        BY <1>0, <2>2, <4>1, <4>2, LeftIs DEF Once, TypeOK
    <3>2. Service!PutOnPaper(j)
      BY <2>1, <2>2, <2>3, <3>1 DEF Service!PutOnPaper, View
    <3> QED
      BY <2>2, <3>2 DEF Service!Next
  <2>4. CASE ~ok
    BY <1>0, <2>1, <2>2, <2>4 DEF TypeOK, View
  <2> QED
    BY <2>3, <2>4
<1>9. ASSUME NEW p \in Programs, TellPrinted(p) PROVE Goal
  <2> DEFINE j == prog[p].doing
  <2>1. PICK done \in BOOLEAN :
          /\ done => status[j] \in {"CLAIMED", "PENDING"}
          /\ status' = [status EXCEPT ![j] = IF done THEN "PRINTED" ELSE @]
    BY <1>9 DEF TellPrinted, TakesPrinted
  <2>2. j \in Jobs /\ paper[j] > 0 /\ UNCHANGED <<orders, crossed, paper>>
    BY <1>0, <1>9 DEF TellPrinted, server, Busy, TypeOK, Invariant, Safe, ToldWasHandedOver
  <2>3. CASE done
    <3>1. Service!ReportPrinted(j)
      BY <1>0, <2>1, <2>2, <2>3, ShownIs DEF Service!ReportPrinted, View, TypeOK
    <3> QED
      BY <2>2, <3>1 DEF Service!Next
  <2>4. CASE ~done
    BY <1>0, <2>1, <2>2, <2>4 DEF View, TypeOK
  <2> QED
    BY <2>3, <2>4
<1>10. ASSUME NEW p \in Programs, TellFailed(p) PROVE Goal
  <2> DEFINE j == prog[p].doing
  <2>1. PICK done \in BOOLEAN : status' = [status EXCEPT ![j] = IF done THEN "FAILED" ELSE @]
    BY <1>10 DEF TellFailed, ReportFailure
  <2>2. j \in Jobs /\ UNCHANGED <<orders, crossed, paper>>
    BY <1>0, <1>10 DEF TellFailed, server, Busy, TypeOK
  <2>3. status[j] # "NONE"
    BY <2>2 DEF Invariant, Known
  <2>4. CASE done /\ status[j] \in {"PENDING", "CLAIMED", "PRINTED"}
    <3>1. Service!ReportTrouble(j)
      BY <1>0, <2>1, <2>2, <2>4, ShownIs DEF Service!ReportTrouble, View, TypeOK
    <3> QED
      BY <2>2, <3>1 DEF Service!Next
  <2>5. CASE ~done \/ status[j] \in {"FAILED", "CANCELLED"}
    <3>1. \A i \in Jobs : Shown(status'[i]) = Shown(status[i])
      BY <1>0, <2>1, <2>2, <2>5, ShownIs DEF TypeOK
    <3> QED
      BY <2>2, <3>1 DEF View
  <2> QED
    BY <1>k, <2>2, <2>3, <2>4, <2>5
<1>11. CASE UNCHANGED vars
  BY <1>11 DEF vars, View
<1> QED
  BY <1>1, <1>2, <1>3, <1>4, <1>5, <1>6, <1>7, <1>a, <1>8, <1>9, <1>10, <1>11 DEF Next, Work, Answer

(* The queue and its programs keep the promise of PrintService.                   *)
THEOREM PrintRefines == Spec => ImplementsService
<1>1. Init => Service!Init
  BY ShownIs DEF Init, Service!Init
<1>2. Invariant /\ [Next]_vars => [Service!Next]_(Service!svars)
  BY ViewStep DEF View, Service!svars
<1> QED
  BY <1>1, <1>2, AlwaysSafe, PTL DEF Spec, ImplementsService, Service!Spec
=================================================================================
