------------------------------- MODULE PrintQueue -------------------------------
(* Printing: the print_jobs of the server (modules/printing) and the programs    *)
(* that fetch and print them (tools/print_agent), on other machines, over HTTP.  *)
(*                                                                               *)
(* A program holds what it fetched in its memory and is told nothing of what      *)
(* happens to it meanwhile.  The answer to a request may be lost after the server *)
(* has done its work, a request may not arrive, and a program may stop anywhere    *)
(* and be started again.  The server reads a job to be claimed, and writes it as   *)
(* claimed, with any other request in between; the other requests are served       *)
(* whole.                                                                        *)
EXTENDS Integers, FiniteSets

CONSTANTS
  Jobs,        \* ids a print_jobs row may get, in order of creation
  Printers, PrinterOf,
  Agents,      \* rows of print_agents: a name and a token
  Programs, Token,   \* running copies of print_agent.py, and their tokens
  Batch,       \* jobs fetched at once
  MaxOrders,   \* bound: times the printing of each job is asked for
  MaxTroubles  \* bound: mishaps, and changes of printers and agents

None == 0

ASSUME PrintAssumption ==
  /\ Jobs \subseteq Nat \ {None}
  /\ None \notin Agents
  /\ PrinterOf \in [Jobs -> Printers]
  /\ Token \in [Programs -> Agents]
  /\ IsFiniteSet(Programs)
  /\ Batch \in Nat /\ MaxOrders \in [Jobs -> Nat] /\ MaxTroubles \in Nat

VARIABLES
  status,      \* PrintJob.status, "NONE" for an id not given yet
  agentOf,     \* Printer.agent_id
  printerOn,   \* Printer.is_active
  agentOn,     \* PrintAgent.is_active
  prog,        \* what each program is doing
  claims,      \* requests of claim_job that read their job as pending, not yet written
  late,        \* those of them another claim of the job was written since
  taken,       \* how often a claim of a job was written
  crossed,     \* how often a late one was
  orders,      \* how often the printing of a job was asked for
  paper,       \* how often a job was handed to its printer in full
  mishaps,     \* lost requests and answers, broken-off prints, stops
  changes      \* of printers and agents

jobs == <<status, orders>>
server == <<claims, late, taken, crossed>>
setup == <<agentOf, printerOn, agentOn>>
vars == <<status, agentOf, printerOn, agentOn, prog, claims, late, taken, crossed,
          orders, paper, mishaps, changes>>

PrintJobStatus == {"PENDING", "CLAIMED", "PRINTED", "FAILED", "CANCELLED"}

(* todo: fetched and still to do; doing: the job in hand; step: where in         *)
(* process_job, or "failing" once it raised.                                     *)
Idle == [todo |-> {}, doing |-> None, step |-> "idle"]

-----------------------------------------------------------------------------
Init ==
  /\ status = [j \in Jobs |-> "NONE"]
  /\ agentOf \in [Printers -> Agents]
  /\ printerOn = [r \in Printers |-> TRUE]
  /\ agentOn = [a \in Agents |-> TRUE]
  /\ prog = [p \in Programs |-> Idle]
  /\ claims = {} /\ late = {}
  /\ taken = [j \in Jobs |-> 0]
  /\ crossed = [j \in Jobs |-> 0]
  /\ orders = [j \in Jobs |-> 0]
  /\ paper = [j \in Jobs |-> 0]
  /\ mishaps = 0
  /\ changes = 0

(* get_print_agent: the token of an active agent. *)
Admitted(p) == agentOn[Token[p]]

(* claim_job, mark_job_printed, mark_job_failed: the printer is the agent's. *)
Own(p, j) == agentOf[PrinterOf[j]] = Token[p]

(* list_pending_jobs_for_agent, oldest first. *)
PendingFor(p) ==
  {j \in Jobs : status[j] = "PENDING" /\ Own(p, j) /\ printerOn[PrinterOf[j]]}

Listed(p) == {j \in PendingFor(p) : Cardinality({i \in PendingFor(p) : i < j}) < Batch}

(* A mishap happens, or none does. *)
Mishap(happens) ==
  /\ happens => mishaps + changes < MaxTroubles
  /\ mishaps' = IF happens THEN mishaps + 1 ELSE mishaps

-----------------------------------------------------------------------------
(* Requests of cashiers and the administrator. *)

(* create_print_job: a receipt, a kitchen ticket or a test. *)
CreateJob(j) ==
  /\ status[j] = "NONE" /\ orders[j] < MaxOrders[j]
  /\ printerOn[PrinterOf[j]]
  /\ status' = [status EXCEPT ![j] = "PENDING"]
  /\ orders' = [orders EXCEPT ![j] = @ + 1]
  /\ UNCHANGED <<setup, prog, server, paper, mishaps, changes>>

(* retry_print_job *)
RetryJob(j) ==
  /\ status[j] \in {"FAILED", "CANCELLED"} /\ orders[j] < MaxOrders[j]
  /\ status' = [status EXCEPT ![j] = "PENDING"]
  /\ orders' = [orders EXCEPT ![j] = @ + 1]
  /\ UNCHANGED <<setup, prog, server, paper, mishaps, changes>>

Failed == {j \in Jobs : status[j] = "FAILED"}

(* retry_all_failed_print_jobs *)
RetryAllFailed ==
  /\ Failed # {} /\ \A j \in Failed : orders[j] < MaxOrders[j]
  /\ status' = [j \in Jobs |-> IF j \in Failed THEN "PENDING" ELSE status[j]]
  /\ orders' = [j \in Jobs |-> IF j \in Failed THEN orders[j] + 1 ELSE orders[j]]
  /\ UNCHANGED <<setup, prog, server, paper, mishaps, changes>>

Open == {j \in Jobs : status[j] \in {"PENDING", "CLAIMED", "FAILED"}}

(* cancel_open_print_jobs *)
CancelOpen ==
  /\ Open # {}
  /\ status' = [j \in Jobs |-> IF j \in Open THEN "CANCELLED" ELSE status[j]]
  /\ UNCHANGED <<orders, setup, prog, server, paper, mishaps, changes>>

(* save_printer (the form sets the agent and the activity) and toggle_agent. *)
SavePrinter(r, a, on) ==
  /\ mishaps + changes < MaxTroubles /\ changes' = changes + 1
  /\ agentOf' = [agentOf EXCEPT ![r] = a]
  /\ printerOn' = [printerOn EXCEPT ![r] = on]
  /\ UNCHANGED <<jobs, agentOn, prog, server, paper, mishaps>>

ToggleAgent(a) ==
  /\ mishaps + changes < MaxTroubles /\ changes' = changes + 1
  /\ agentOn' = [agentOn EXCEPT ![a] = ~@]
  /\ UNCHANGED <<jobs, agentOf, printerOn, prog, server, paper, mishaps>>

-----------------------------------------------------------------------------
(* The program. *)

(* main: the jobs of a poll; one that fails is tried again and changes nothing. *)
Poll(p) ==
  /\ prog[p] = Idle
  /\ Admitted(p) /\ Listed(p) # {}
  /\ prog' = [prog EXCEPT ![p].todo = Listed(p)]
  /\ UNCHANGED <<jobs, setup, server, paper, mishaps, changes>>

ClaimAgain(p, j) == Admitted(p) /\ Own(p, j) /\ status[j] # "PRINTED"  \* mutant

(* claim_job: what it reads. *)
Claimable(p, j) == Admitted(p) /\ Own(p, j) /\ status[j] = "PENDING"

(* process_job begins with its next job, and claims it.  A job that is not to be  *)
(* had (404) is left alone; any other trouble with the request is reported as a    *)
(* failure.  Bound: one claim of a job by a program in the server.                *)
Claim(p) ==
  /\ prog[p].doing = None
  /\ \E j \in prog[p].todo :
       /\ \A i \in prog[p].todo : j <= i
       /\ <<p, j>> \notin claims
       /\ \E arrives, answered \in BOOLEAN :
            /\ Mishap(~(arrives /\ answered))
            /\ answered => arrives
            /\ LET read == arrives /\ Claimable(p, j)
                   refused == arrives /\ answered /\ Admitted(p) /\ ~Claimable(p, j) IN
               /\ claims' = IF read THEN claims \cup {<<p, j>>} ELSE claims
               /\ prog' = [prog EXCEPT ![p] =
                    IF refused THEN [Idle EXCEPT !.todo = prog[p].todo \ {j}]
                    ELSE [todo |-> prog[p].todo \ {j}, doing |-> j,
                          step |-> IF read /\ answered THEN "asking" ELSE "failing"]]
  /\ UNCHANGED <<jobs, late, taken, crossed, setup, paper, changes>>

(* claim_job writes the job it read as pending, whatever became of it since, and   *)
(* answers the program if that still waits.                                       *)
GrantClaim(p, j) ==
  /\ <<p, j>> \in claims
  /\ status' = [status EXCEPT ![j] = "CLAIMED"]
  /\ taken' = [taken EXCEPT ![j] = @ + 1]
  /\ crossed' = [crossed EXCEPT ![j] = IF <<p, j>> \in late THEN @ + 1 ELSE @]
  /\ claims' = claims \ {<<p, j>>}
  /\ late' = {c \in claims' : c \in late \/ c[2] = j}
  /\ prog' = IF prog[p].step = "asking" /\ prog[p].doing = j
             THEN [prog EXCEPT ![p].step = "printing"] ELSE prog
  /\ UNCHANGED <<orders, setup, paper, mishaps, changes>>

(* No answer came, or not in time: the claim may be written or still be.           *)
StopWaiting(p) ==
  /\ prog[p].step = "asking"
  /\ Mishap(TRUE)
  /\ prog' = [prog EXCEPT ![p].step = "failing"]
  /\ UNCHANGED <<jobs, setup, server, paper, changes>>

(* The receipt reaches the printer in full, or an error is raised; after a        *)
(* Windows printer took it, both (closing the document fails).                    *)
HandOver(p, ok, raised) ==
  /\ Mishap(ok /\ raised)
  /\ paper' = [paper EXCEPT ![prog[p].doing] = IF ok THEN @ + 1 ELSE @]
  /\ prog' = [prog EXCEPT ![p].step = IF raised THEN "failing" ELSE "telling"]

SendRaw(p) ==
  /\ prog[p].step = "printing"
  /\ \E ok, raised \in BOOLEAN : (ok \/ raised) /\ HandOver(p, ok, raised)
  /\ UNCHANGED <<jobs, setup, server, changes>>

(* mark_job_printed accepts a job that was put back meanwhile. *)
TakesPrinted(p, j) == Admitted(p) /\ Own(p, j) /\ status[j] \in {"CLAIMED", "PENDING"}

NextJob(p) == prog' = [prog EXCEPT ![p] = [Idle EXCEPT !.todo = prog[p].todo]]

(* The job is reported as printed; a refusal or no answer raises. *)
TellPrinted(p) ==
  /\ prog[p].step = "telling"
  /\ \E arrives, answered \in BOOLEAN :
       /\ answered => arrives
       /\ Mishap(~(arrives /\ answered))
       /\ LET j == prog[p].doing
              done == arrives /\ TakesPrinted(p, j) IN
          /\ status' = [status EXCEPT ![j] = IF done THEN "PRINTED" ELSE @]
          /\ IF done /\ answered THEN NextJob(p) ELSE prog' = [prog EXCEPT ![p].step = "failing"]
  /\ UNCHANGED <<orders, setup, server, paper, changes>>

FailUnknown(p) ==                                                   \* mutant
  /\ Mishap(FALSE)
  /\ status' = [status EXCEPT ![prog[p].doing] = "ERROR"]
  /\ NextJob(p)

ForgetFailure(p) == NextJob(p) /\ Mishap(FALSE) /\ UNCHANGED status   \* mutant

(* main reports what process_job raised, and goes on whatever comes of it;        *)
(* mark_job_failed looks at no status.                                            *)
ReportFailure(p) ==
  \E arrives \in BOOLEAN :
    /\ Mishap(~arrives)
    /\ LET j == prog[p].doing IN
       status' = [status EXCEPT ![j] = IF arrives /\ Admitted(p) /\ Own(p, j) THEN "FAILED" ELSE @]
    /\ NextJob(p)

TellFailed(p) ==
  /\ prog[p].step = "failing"
  /\ ReportFailure(p)
  /\ UNCHANGED <<orders, setup, server, paper, changes>>

(* The program stops, and is started again. *)
Restart(p) ==
  /\ prog[p] # Idle
  /\ Mishap(TRUE)
  /\ prog' = [prog EXCEPT ![p] = Idle]
  /\ UNCHANGED <<jobs, setup, server, paper, changes>>

-----------------------------------------------------------------------------
Answer(p) == \E j \in Jobs : GrantClaim(p, j)

Work(p) == Poll(p) \/ Claim(p) \/ SendRaw(p) \/ TellPrinted(p) \/ TellFailed(p)

Next ==
  \/ \E j \in Jobs : CreateJob(j) \/ RetryJob(j)
  \/ RetryAllFailed
  \/ CancelOpen
  \/ \E r \in Printers, a \in Agents \cup {None}, on \in BOOLEAN : SavePrinter(r, a, on)
  \/ \E a \in Agents : ToggleAgent(a)
  \/ \E p \in Programs : Work(p) \/ Answer(p) \/ StopWaiting(p) \/ Restart(p)

Spec == Init /\ [][Next]_vars

(* Every program runs its loop on, and the server every claim it let in. *)
FairSpec == Spec /\ \A p \in Programs : WF_vars(Work(p)) /\ WF_vars(Answer(p))

-----------------------------------------------------------------------------
TypeOK ==
  /\ status \in [Jobs -> PrintJobStatus \cup {"NONE"}]
  /\ agentOf \in [Printers -> Agents \cup {None}]
  /\ printerOn \in [Printers -> BOOLEAN]
  /\ agentOn \in [Agents -> BOOLEAN]
  /\ prog \in [Programs -> [todo : SUBSET Jobs, doing : Jobs \cup {None},
                            step : {"idle", "asking", "printing", "telling", "failing"}]]
  /\ claims \subseteq Programs \X Jobs /\ late \subseteq claims
  /\ taken \in [Jobs -> Nat] /\ crossed \in [Jobs -> Nat]
  /\ orders \in [Jobs -> Nat]
  /\ paper \in [Jobs -> Nat]
  /\ mishaps \in Nat /\ changes \in Nat

Printing(j) == {p \in Programs : prog[p].doing = j /\ prog[p].step = "printing"}

(* No paper comes out that nobody asked for, but where claims of one job cross:    *)
(* every claim that is written uses up one order, every receipt one claim, whatever *)
(* is lost, repeated, cancelled or put back; and only a claim that was let in       *)
(* before another one of the job was written, and written after it, needs none.     *)
OncePerOrder ==
  \A j \in Jobs :
    /\ paper[j] + Cardinality(Printing(j)) <= taken[j]
    /\ taken[j] + (IF status[j] = "PENDING" THEN 1 ELSE 0) <= orders[j] + crossed[j]

(* A job the list shows as printed was handed to its printer in full: a lost       *)
(* answer or a crash may make a printed job look failed, never the reverse.        *)
PrintedWasHandedOver == \A j \in Jobs : status[j] = "PRINTED" => paper[j] > 0

(* A claimed job is in the hands of a program, unless a request was lost, a        *)
(* program stopped or a printer or agent was changed: then it may stay claimed,    *)
(* with nobody to finish it and no retry offered.                                  *)
ClaimedIsHeld ==
  \A j \in Jobs :
    (status[j] = "CLAIMED" /\ mishaps = 0 /\ changes = 0)
      => \E p \in Programs : prog[p].doing = j

Settled(j) == status[j] \notin {"PENDING", "CLAIMED"}

Served(j) == agentOf[PrinterOf[j]] \in {Token[p] : p \in Programs}

(* While nothing is lost, stopped or changed, every job of a printer whose         *)
(* program runs is printed, failed or cancelled in the end (main, process_job).    *)
JobsSettle ==
  [](mishaps = 0 /\ changes = 0)
    => \A j \in Jobs : (status[j] = "PENDING" /\ Served(j)) ~> Settled(j)

Shown(s) ==
  CASE s = "NONE" -> "none"
    [] s \in {"PENDING", "CLAIMED"} -> "open"
    [] s = "PRINTED" -> "printed"
    [] s \in {"FAILED", "CANCELLED"} -> "trouble"

Service == INSTANCE PrintService WITH shown <- [j \in Jobs |-> Shown(status[j])]

(* The queue and its programs keep the promise of PrintService.                   *)
ImplementsService == Service!Spec
=================================================================================
