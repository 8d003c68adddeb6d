--------------------------------- MODULE Kitchen --------------------------------
(* Kitchen tickets (modules/kds) and the orders they belong to: what reaches    *)
(* which section of the kitchen when an order is sent, gets more lines, or is   *)
(* paid, and when the order counts as served.                                   *)
(*                                                                             *)
(* Every section makes one product, which names it, and has a printer.  Sending *)
(* an order and paying for it commit the order first and create its tickets in  *)
(* a second transaction: pending counts the requests that are between the two.  *)
(* (Paying does so by design; sending does when the notification of the event   *)
(* goes out at once, because sending a message commits the caller's             *)
(* transaction.)  The creation of each ticket is such an event too, so that the *)
(* second transaction may get stuck after some of the sections' tickets.        *)
(* Requests are otherwise served one after another.                             *)
(*                                                                             *)
(* A section is asked on paper and on its screen.  The paper of an original     *)
(* ticket asks for the whole line, that of a supplement for what was added; the *)
(* screen shows with every ticket, a supplement too, the lines of the order as  *)
(* they are now.  The model counts what the papers ask for.                     *)
EXTENDS Integers, Sequences, FiniteSets

CONSTANTS
  Sales,          \* ids of orders
  Sections,       \* KitchenSection rows
  Defaults,       \* those that ensure_default_kitchen_sections looks after
  General,        \* the first of them that is not DRINKS
  Delivery,       \* orders that a driver delivers
  MustBeReady,    \* orders whose context the policy lets pay only when the kitchen is ready
  SendBeforePay,  \* order policy: must an order be sent to the kitchen before it is paid?
  MaxQty          \* bound: the largest quantity of a line

ASSUME KitchenAssumption ==
  /\ IsFiniteSet(Sections)
  /\ Defaults \subseteq Sections /\ General \in Defaults
  /\ Delivery \subseteq Sales /\ MustBeReady \subseteq Sales
  /\ SendBeforePay \in BOOLEAN
  /\ MaxQty \in Nat \ {0}

VARIABLES
  status,     \* Sale.status
  sent,       \* is Sale.sent_to_kitchen_at set?
  qty,        \* SaleLine.quantity per section, 0 when there is no line
  cooked,     \* SaleLine.kitchen_sent_qty
  served,     \* who set Sale.served_to_customer_at
  pending,    \* requests that committed the order and have yet to create its tickets
  tickets,    \* per order and section, KitchenTicket.status in the order of the ids
  active,     \* KitchenSection.is_active
  printed,    \* how much the papers of its tickets ask of each section (PrintJob.payload)
  missed,     \* history: what a section was not asked for when the creation of tickets got stuck
  wasOff,     \* history: sections that were inactive at some time
  overtaken   \* history: orders that got a line when they were sent but had no ticket

order  == <<status, sent, qty, cooked>>
past   == <<wasOff, overtaken>>
kitchen == <<tickets, active, printed, missed>>
vars   == <<order, served, pending, kitchen, past>>

TicketStatus == {"PENDING", "IN_PROGRESS", "SERVED", "CANCELLED"}
SaleStatus == {"DRAFT", "COMPLETED"}

-----------------------------------------------------------------------------
HasLines(s) == \E c \in Sections : qty[s][c] > 0
HasTicket(s) == \E c \in Sections : tickets[s][c] # <<>>

(* The tickets of an order: section and place in the order of the ids. *)
TicketsOf(t, s) == {k \in Sections \X (1 .. MaxQty + 1) : k[2] <= Len(t[s][k[1]])}
WithStatus(t, s, st) == {k \in TicketsOf(t, s) : t[s][k[1]][k[2]] = st}

(* _all_tickets_served adds the count under the key "SERVED" twice. *)
AllTicketsServed(t, s) ==
  /\ TicketsOf(t, s) # {}
  /\ 2 * Cardinality(WithStatus(t, s, "SERVED")) >= Cardinality(TicketsOf(t, s))

(* _kitchen_ready_for_pay: a rejected ticket is no longer waited for. *)
KitchenReady(s) ==
  /\ HasTicket(s)
  /\ WithStatus(tickets, s, "PENDING") \cup WithStatus(tickets, s, "IN_PROGRESS") = {}

-----------------------------------------------------------------------------
Zero == [c \in Sections |-> 0]

Init ==
  /\ status = [s \in Sales |-> "DRAFT"]
  /\ sent = [s \in Sales |-> FALSE]
  /\ qty = [s \in Sales |-> Zero]
  /\ cooked = [s \in Sales |-> Zero]
  /\ served = [s \in Sales |-> "NOBODY"]
  /\ pending = [s \in Sales |-> 0]
  /\ tickets = [s \in Sales |-> [c \in Sections |-> <<>>]]
  /\ active = [c \in Sections |-> TRUE]
  /\ printed = [s \in Sales |-> Zero]
  /\ missed = [s \in Sales |-> Zero]
  /\ wasOff = {} /\ overtaken = {}

(* Active sections the order has a line of, that have no ticket of it. *)
UnticketedOrNot(s) == {c \in Sections : active[c] /\ qty[s][c] > 0}   \* mutant

Unticketed(s) == {c \in Sections : active[c] /\ qty[s][c] > 0 /\ tickets[s][c] = <<>>}

(* create_tickets_for_sale, the sections' part, when it comes to the sections   *)
(* made: a ticket for each, and a paper for the whole line.                     *)
SectionTickets(s, made) ==
  /\ tickets' = [tickets EXCEPT ![s] =
                   [c \in Sections |-> IF c \in made THEN Append(@[c], "PENDING") ELSE @[c]]]
  /\ printed' = [printed EXCEPT ![s] =
                   [c \in Sections |-> IF c \in made THEN @[c] + qty[s][c] ELSE @[c]]]
  /\ missed' = [missed EXCEPT ![s] =
                   [c \in Sections |-> IF c \in made THEN 0
                                       ELSE IF c \in Unticketed(s) THEN qty[s][c] ELSE @[c]]]
  /\ UNCHANGED active

(* Its last part, when no line has an active section and the order no ticket:   *)
(* the default sections are activated and one of them gets a ticket, for the    *)
(* screen only.                                                                 *)
GeneralTicket(s) ==
  /\ active' = [c \in Sections |-> c \in Defaults \/ active[c]]
  /\ tickets' = [tickets EXCEPT ![s] = [@ EXCEPT ![General] = <<"PENDING">>]]
  /\ UNCHANGED <<printed, missed>>

(* A query for the one ticket of a section raises when a section has two, and   *)
(* the transaction is rolled back.                                              *)
CreateTickets(s) ==
  LET here  == {c \in Sections : active[c] /\ qty[s][c] > 0}
      twice == \E c \in here : Len(tickets[s][c]) > 1
  IN  \/ here # {} /\ ~twice /\ SectionTickets(s, Unticketed(s))
      \/ here = {} /\ ~HasTicket(s) /\ GeneralTicket(s)
      \/ /\ twice \/ (here = {} /\ HasTicket(s))
         /\ UNCHANGED kitchen

(* Each ticket's event commits, so that what follows it may be lost alone: the  *)
(* process dies, or the query above raises.                                     *)
StuckTickets(s) == \E made \in SUBSET Unticketed(s) : made # {} /\ SectionTickets(s, made)

(* send_kitchen_supplement, when the lines of an order that was sent became q:  *)
(* each active section gets a ticket for what it was not sent, and every line   *)
(* counts as sent.                                                              *)
SupplementMarkedFirst(s, q) ==                               \* mutant
  /\ cooked' = [cooked EXCEPT ![s] = q]
  /\ UNCHANGED <<tickets, printed>>

Supplement(s, q) ==
  LET here == {c \in Sections : q[c] > cooked[s][c] /\ active[c]}
  IN  /\ tickets' = [tickets EXCEPT ![s] =
                       [c \in Sections |-> IF c \in here THEN Append(@[c], "PENDING") ELSE @[c]]]
      /\ printed' = [printed EXCEPT ![s] =
                    [c \in Sections |-> IF c \in here THEN @[c] + (q[c] - cooked[s][c]) ELSE @[c]]]
      /\ cooked' = [cooked EXCEPT ![s] = q]

-----------------------------------------------------------------------------
(* POST /pos/add-line, /pos/scan, /pos/adjust-line with a positive delta. *)
AddLine(s, c, n) ==
  /\ status[s] = "DRAFT"
  /\ qty[s][c] + n <= MaxQty
  /\ LET q == [qty[s] EXCEPT ![c] = @ + n]
     IN  /\ qty' = [qty EXCEPT ![s] = q]
         /\ \/ sent[s] /\ Supplement(s, q)
            \/ ~sent[s] /\ UNCHANGED <<cooked, tickets, printed>>
  /\ overtaken' = IF sent[s] /\ ~HasTicket(s) THEN overtaken \cup {s} ELSE overtaken
  /\ UNCHANGED <<status, sent, served, pending, active, missed, wasOff>>

(* POST /pos/adjust-line with a negative delta and /pos/remove-line: what the   *)
(* kitchen was sent stays.                                                      *)
ReduceLine(s, c, n) ==
  /\ status[s] = "DRAFT"
  /\ qty[s][c] - n >= cooked[s][c]
  /\ qty' = [qty EXCEPT ![s][c] = @ - n]
  /\ UNCHANGED <<status, sent, cooked, served, pending, kitchen, past>>

SendAgain(s) ==                                              \* mutant
  /\ status[s] = "DRAFT" /\ HasLines(s)
  /\ sent' = [sent EXCEPT ![s] = TRUE]
  /\ cooked' = [cooked EXCEPT ![s] = qty[s]]
  /\ \/ CreateTickets(s) /\ UNCHANGED pending
     \/ pending' = [pending EXCEPT ![s] = @ + 1] /\ UNCHANGED kitchen
  /\ UNCHANGED <<status, qty, served, wasOff, overtaken>>

(* POST /pos/order/../send-kitchen: send_draft_to_kitchen, then the tickets.    *)
Send(s) ==
  /\ status[s] = "DRAFT" /\ ~sent[s] /\ HasLines(s)
  /\ sent' = [sent EXCEPT ![s] = TRUE]
  /\ cooked' = [cooked EXCEPT ![s] = qty[s]]
  /\ \/ CreateTickets(s) /\ UNCHANGED pending
     \/ pending' = [pending EXCEPT ![s] = @ + 1] /\ UNCHANGED kitchen
  /\ UNCHANGED <<status, qty, served, wasOff, overtaken>>

(* POST /pos/checkout and /pos/charge-room *)
Pay(s) ==
  /\ status[s] = "DRAFT" /\ HasLines(s)
  /\ SendBeforePay => sent[s]
  /\ s \in MustBeReady => KitchenReady(s)
  /\ status' = [status EXCEPT ![s] = "COMPLETED"]
  /\ pending' = [pending EXCEPT ![s] = @ + 1]
  /\ UNCHANGED <<sent, qty, cooked, served, kitchen, past>>

(* The second transaction of a request, which creates the tickets ... *)
FinishRequest(s) ==
  /\ pending[s] > 0
  /\ pending' = [pending EXCEPT ![s] = @ - 1]
  /\ CreateTickets(s)
  /\ UNCHANGED <<order, served, wasOff, overtaken>>

(* ... or gets stuck after some of them (also when it is part of Send) ... *)
FinishRequestStuck(s) ==
  /\ pending[s] > 0
  /\ pending' = [pending EXCEPT ![s] = @ - 1]
  /\ StuckTickets(s)
  /\ UNCHANGED <<order, served, past>>

(* ... or does not happen: the process dies, or the database fails. *)
LoseRequest(s) ==
  /\ pending[s] > 0
  /\ pending' = [pending EXCEPT ![s] = @ - 1]
  /\ UNCHANGED <<order, served, kitchen, past>>

RepairOpenOnly(s) ==                                         \* mutant
  /\ status[s] = "DRAFT" /\ sent[s] /\ ~HasTicket(s)
  /\ CreateTickets(s)
  /\ UNCHANGED <<order, served, pending, wasOff, overtaken>>

(* repair_missing_tickets_for_sent_sales, each time a kitchen screen is drawn. *)
Repair(s) ==
  /\ sent[s] /\ ~HasTicket(s)
  /\ CreateTickets(s)
  /\ UNCHANGED <<order, served, pending, wasOff, overtaken>>

RepairStuck(s) ==
  /\ sent[s] /\ ~HasTicket(s)
  /\ StuckTickets(s)
  /\ UNCHANGED <<order, served, pending, past>>

-----------------------------------------------------------------------------
(* sync_served_from_kds, when the tickets of s have become t. *)
SyncServed(t, s) ==
  served' = IF /\ status[s] = "DRAFT" /\ sent[s] /\ served[s] = "NOBODY"
               /\ s \notin Delivery
               /\ AllTicketsServed(t, s)
            THEN [served EXCEPT ![s] = "KITCHEN"] ELSE served

SetTicket(s, k, st) == [tickets EXCEPT ![s][k[1]][k[2]] = st]

After(st) == [PENDING |-> "IN_PROGRESS", IN_PROGRESS |-> "SERVED",
              SERVED |-> "SERVED", CANCELLED |-> "CANCELLED"][st]

(* POST /admin/kds/../advance *)
Advance(s, k) ==
  /\ tickets' = SetTicket(s, k, After(tickets[s][k[1]][k[2]]))
  /\ SyncServed(tickets', s)
  /\ UNCHANGED <<order, pending, active, printed, missed, past>>

(* POST /admin/kds/../reject *)
Reject(s, k) ==
  /\ tickets' = SetTicket(s, k, "CANCELLED")
  /\ SyncServed(tickets', s)
  /\ UNCHANGED <<order, pending, active, printed, missed, past>>

(* POST /admin/kds/../reset *)
Reset(s, k) ==
  /\ tickets' = SetTicket(s, k, "PENDING")
  /\ UNCHANGED <<order, served, pending, active, printed, missed, past>>

(* POST /pos/order/../mark-served *)
MarkServed(s) ==
  /\ status[s] = "DRAFT" /\ sent[s] /\ served[s] = "NOBODY"
  /\ AllTicketsServed(tickets, s)
  /\ served' = [served EXCEPT ![s] = "CASHIER"]
  /\ UNCHANGED <<order, pending, kitchen, past>>

(* The customer answers that the order was received. *)
ConfirmReceipt(s) ==
  /\ served[s] = "NOBODY"
  /\ served' = [served EXCEPT ![s] = "CUSTOMER"]
  /\ UNCHANGED <<order, pending, kitchen, past>>

(* An administrator saves a section. *)
SaveSection(c, on) ==
  /\ active' = [active EXCEPT ![c] = on]
  /\ wasOff' = IF on THEN wasOff ELSE wasOff \cup {c}
  /\ UNCHANGED <<order, served, pending, tickets, printed, missed, overtaken>>

Next ==
  \/ \E s \in Sales :
       \/ Send(s) \/ Pay(s) \/ MarkServed(s) \/ ConfirmReceipt(s)
       \/ FinishRequest(s) \/ FinishRequestStuck(s) \/ LoseRequest(s)
       \/ Repair(s) \/ RepairStuck(s)
       \/ \E c \in Sections, n \in 1..MaxQty : AddLine(s, c, n) \/ ReduceLine(s, c, n)
       \/ \E k \in TicketsOf(tickets, s) : Advance(s, k) \/ Reject(s, k) \/ Reset(s, k)
  \/ \E c \in Sections, on \in BOOLEAN : SaveSection(c, on)

(* The kitchen's screen draws itself again every few seconds. *)
Fairness == \A s \in Sales : WF_vars(Repair(s))

Spec == Init /\ [][Next]_vars
FairSpec == Spec /\ Fairness

-----------------------------------------------------------------------------
(* Types; no section has more tickets of an order than its quantity explains.   *)
TypeOK ==
  /\ status \in [Sales -> SaleStatus]
  /\ sent \in [Sales -> BOOLEAN]
  /\ qty \in [Sales -> [Sections -> 0..MaxQty]]
  /\ cooked \in [Sales -> [Sections -> 0..MaxQty]]
  /\ served \in [Sales -> {"NOBODY", "KITCHEN", "CASHIER", "CUSTOMER"}]
  /\ pending \in [Sales -> 0..2]
  /\ tickets \in [Sales -> [Sections -> Seq(TicketStatus)]]
  /\ \A s \in Sales, c \in Sections : Len(tickets[s][c]) <= cooked[s][c] + 1
  /\ active \in [Sections -> BOOLEAN]
  /\ printed \in [Sales -> [Sections -> Nat]]
  /\ missed \in [Sales -> [Sections -> 0..MaxQty]]
  /\ wasOff \subseteq Sections /\ overtaken \subseteq Sales

(* Once an order has a ticket, the papers of every section that was always      *)
(* active ask for exactly what the order sells of it: when it was sent, sent in *)
(* two steps and repaired, supplemented, or paid without being sent, and        *)
(* whatever the second transaction of the checkout finds or fails on.  If the   *)
(* creation of its tickets got stuck, exactly the lines it had not come to are  *)
(* missing, until a later run of it finds their sections without a ticket.      *)
WholeOrderInKitchen ==
  \A s \in Sales \ overtaken, c \in Sections \ wasOff :
    /\ status[s] = "COMPLETED" \/ sent[s]
    /\ HasTicket(s)
    => printed[s][c] + missed[s][c] = qty[s][c]

(* The papers of an order never ask a section for more than the order sells,    *)
(* although each of four handlers prints them, gets stuck and is run again, and *)
(* sections come and go.                                                        *)
NothingPrintedTwice ==
  \A s \in Sales, c \in Sections : printed[s][c] <= qty[s][c]

(* Neither the kitchen nor the cashier has an order served of which no ticket   *)
(* was, not even when it was sent and its tickets are missing.                  *)
NotServedUnprepared ==
  [][\A s \in Sales :
       served[s] = "NOBODY" /\ served'[s] \in {"KITCHEN", "CASHIER"}
         => WithStatus(tickets', s, "SERVED") # {}]_vars

(* An order that was sent reaches the kitchen in the end, also when the request *)
(* that sent it died before it created the tickets.                             *)
SentReachesKitchen == \A s \in Sales : sent[s] ~> HasTicket(s)

(* The kitchen's screen and the cashier's button have an order served when all  *)
(* of its tickets are ("automatic when the KDS tickets are complete").          *)
ServedWhenReady ==
  [][\A s \in Sales :
       served[s] = "NOBODY" /\ served'[s] \in {"KITCHEN", "CASHIER"}
         => WithStatus(tickets', s, "SERVED") = TicketsOf(tickets', s)]_vars
===============================================================================
