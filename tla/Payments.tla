------------------------------ MODULE Payments ------------------------------
(***************************************************************************)
(* Payment attempts, from the provider session they open to the order they *)
(* pay: PaymentAttemptsService (create, capture, finalizeCapture),         *)
(* PaymentStateService.transition, PaymentWebhooksService (both            *)
(* providers) and PaymentReconciliationService, with the provider and the  *)
(* customer as their environment and crashes at every await.               *)
(*                                                                         *)
(*   attempt[a]  payment_attempts row made for idempotency key a           *)
(*   session[s]  a Stripe Checkout Session or PayPal order at the provider *)
(*   txn         payment_transactions rows; provider_transaction_id is     *)
(*               unique and is the session's payment (intent or capture    *)
(*               id, "payment") or, from the Stripe webhook, the session's *)
(*               own id ("session")                                        *)
(*   invoice     the orders with an invoices row (order_id is unique)      *)
(*   logged      sessions whose payment event is in payment_webhook_logs   *)
(*   task[p]     the handler p is running and what it has read so far      *)
(*   faults      crashes and provider failures so far; a history variable  *)
(*                                                                         *)
(* finalizeCapture and the webhook read the order inside their transaction *)
(* without locking it and write it unconditionally, so that read and the   *)
(* commit are two steps. Everything a transaction writes appears at its    *)
(* commit. A unique-key violation makes PostgreSQL roll back the whole     *)
(* transaction, also where the code catches the error and returns.         *)
(***************************************************************************)
EXTENDS OrderLifecycle, FiniteSets

CONSTANTS
    Attempt,     \* idempotency keys of payment attempts
    Stripe,      \* the attempts made with STRIPE; the others are PAYPAL's
    Session,     \* provider-side sessions
    Mispaid,     \* sessions for which the provider takes another amount
    Process,     \* concurrent handlers (requests, webhooks, sweeps)
    MaxFaults,   \* bound: crashes plus failed or lost provider calls
    NoOrder, NoAttempt, NoSession

ASSUME AttemptAssumption == Stripe \subseteq Attempt /\ Mispaid \subseteq Session
ASSUME FaultAssumption == MaxFaults \in Nat
ASSUME NullAssumption ==
    NoOrder \notin Order /\ NoAttempt \notin Attempt /\ NoSession \notin Session

VARIABLES attempt, session, txn, invoice, logged, task, faults

moneyVars == <<txn, invoice>>
vars == <<order, attempt, session, txn, invoice, logged, task, faults>>

-----------------------------------------------------------------------------
(* The attempt's status machine.                                           *)

AttemptStatus == {"CREATED", "REQUIRES_CUSTOMER_ACTION", "PROCESSING",
                  "AUTHORIZED", "CAPTURED", "DECLINED", "FAILED", "CANCELLED",
                  "EXPIRED", "UNKNOWN"}

Final == {"CAPTURED", "FAILED", "DECLINED", "CANCELLED", "EXPIRED"}

TransitionsReopened(status) ==           \* mutant: a settled attempt may move
    AttemptStatus \ {"CREATED", status}

Transitions(status) ==
    CASE status \in {"CREATED", "UNKNOWN"} -> AttemptStatus \ {"CREATED", status}
      [] status = "REQUIRES_CUSTOMER_ACTION" -> AttemptStatus \ {"CREATED", status}
      [] status = "PROCESSING" ->
            {"AUTHORIZED", "CAPTURED", "DECLINED", "FAILED", "CANCELLED", "UNKNOWN"}
      [] status = "AUTHORIZED" -> {"CAPTURED", "FAILED", "CANCELLED", "UNKNOWN"}
      [] OTHER -> {}

UnsettledLate ==                         \* mutant: a new attempt is not asked about
    {"REQUIRES_CUSTOMER_ACTION", "PROCESSING"}

(* What reconciliation still asks the provider about.                      *)
Unsettled == {"CREATED", "REQUIRES_CUSTOMER_ACTION", "PROCESSING"}

-----------------------------------------------------------------------------
(* Types and null values.                                                  *)

AttemptRow == [status : AttemptStatus \cup {"NONE"},
               order : Order \cup {NoOrder},
               object : Session \cup {NoSession}]

NoAttemptRow == [status |-> "NONE", order |-> NoOrder, object |-> NoSession]

(* unused: not made yet; created: made, its link with nobody; open: the    *)
(* customer has the link; approved: PayPal may capture; pending: PayPal    *)
(* has not decided the capture, or the customer completed a Stripe session *)
(* with a method that pays later; paid: the money was taken.               *)
SessionRow == [state : {"unused", "created", "open", "approved", "pending",
                        "paid", "denied"},
               attempt : Attempt \cup {NoAttempt}]

Transaction == [order : Order, session : Session, id : {"payment", "session"}]

Task == [pc : {"idle", "insert", "provider", "store", "capture", "reconcile",
               "finalize", "transition", "readOrder", "commit", "hook",
               "hookRead", "hookCommit"},
         order : Order \cup {NoOrder},
         attempt : Attempt \cup {NoAttempt},
         session : Session \cup {NoSession},
         captured : BOOLEAN,     \* the provider's outcome
         checked : BOOLEAN]      \* the outcome came with the amount taken

Idle == [pc |-> "idle", order |-> NoOrder, attempt |-> NoAttempt,
         session |-> NoSession, captured |-> FALSE, checked |-> FALSE]

Goto(p, pc) == task' = [task EXCEPT ![p].pc = pc]

Return(p) == task' = [task EXCEPT ![p] = Idle]

Fault == faults < MaxFaults /\ faults' = faults + 1

(* The Stripe webhook's transaction updates the attempt first and holds    *)
(* its row lock until it commits.                                          *)
Locked(a) == \E p \in Process : task[p].pc = "hookCommit" /\ task[p].attempt = a

-----------------------------------------------------------------------------
PaymentsInit ==
    /\ Init
    /\ attempt = [a \in Attempt |-> NoAttemptRow]
    /\ session = [s \in Session |-> [state |-> "unused", attempt |-> NoAttempt]]
    /\ txn = {}
    /\ invoice = {}
    /\ logged = {}
    /\ task = [p \in Process |-> Idle]
    /\ faults = 0

(* A checkout places the order.                                            *)
Checkout(o) ==
    /\ Place(o)
    /\ UNCHANGED <<attempt, session, moneyVars, logged, task, faults>>

(* A customer's cancel or the expiry sweep. Their UPDATE re-checks the row *)
(* it read, so reading and writing are one step here (Orders splits them). *)
ReleaseStock(o) ==
    /\ Release(o)
    /\ UNCHANGED <<attempt, session, moneyVars, logged, task, faults>>

-----------------------------------------------------------------------------
(* create                                                                  *)

(* The provider has no limit on sessions; the model has, and cuts off the  *)
(* requests that would wait for one.                                       *)
SessionLeft ==
    Cardinality({p \in Process : task[p].pc \in {"insert", "provider"}})
        < Cardinality({s \in Session : session[s].state = "unused"})

(* The order may be paid now, and key a is new or already this order's.    *)
CreateBegin(p, o, a) ==
    /\ task[p].pc = "idle"
    /\ SessionLeft
    /\ Payable(order[o])
    /\ \/ attempt[a].status = "NONE"
       \/ attempt[a].order = o /\ attempt[a].object = NoSession
    /\ task' = [task EXCEPT ![p] =
                  [Idle EXCEPT !.pc = IF attempt[a].status = "NONE"
                                      THEN "insert" ELSE "provider",
                               !.order = o, !.attempt = a]]
    /\ UNCHANGED <<order, attempt, session, moneyVars, logged, faults>>

CreateInsert(p) ==
    LET a == task[p].attempt IN
    /\ task[p].pc = "insert"
    /\ attempt[a].status = "NONE"
    /\ attempt' = [attempt EXCEPT ![a] = [status |-> "CREATED",
                                          order |-> task[p].order,
                                          object |-> NoSession]]
    /\ Goto(p, "provider")
    /\ UNCHANGED <<order, session, moneyVars, logged, faults>>

(* ON CONFLICT DO NOTHING: a concurrent request inserted the row first.    *)
CreateRaced(p) ==
    LET row == attempt[task[p].attempt] IN
    /\ task[p].pc = "insert"
    /\ row.status # "NONE"
    /\ IF row.order = task[p].order /\ row.object = NoSession
       THEN Goto(p, "provider")
       ELSE Return(p)
    /\ UNCHANGED <<order, attempt, session, moneyVars, logged, faults>>

(* ensureProviderOrder, whatever status the attempt has by now.            *)
CreateSession(p) ==
    /\ task[p].pc = "provider"
    /\ \E s \in Session :
          /\ session[s].state = "unused"
          /\ session' = [session EXCEPT ![s] = [state |-> "created",
                                                attempt |-> task[p].attempt]]
          /\ task' = [task EXCEPT ![p].pc = "store", ![p].session = s]
    /\ UNCHANGED <<order, attempt, moneyVars, logged, faults>>

MovesTo(a, status) == status \in Transitions(attempt[a].status)

(* The provider, or storing its answer, fails; so does the attempt if it   *)
(* still can.                                                              *)
CreateFails(p) ==
    LET a == task[p].attempt IN
    /\ task[p].pc \in {"provider", "store"}
    /\ Fault
    /\ ~Locked(a)
    /\ attempt' = [attempt EXCEPT ![a].status =
                      IF MovesTo(a, "FAILED") THEN "FAILED" ELSE @]
    /\ Return(p)
    /\ UNCHANGED <<order, session, moneyVars, logged>>

(* The session id is stored and its link goes out with the response.       *)
CreateStore(p) ==
    LET a == task[p].attempt
        s == task[p].session IN
    /\ task[p].pc = "store"
    /\ ~Locked(a)
    /\ attempt' = [attempt EXCEPT ![a].object = s]
    /\ session' = [session EXCEPT ![s].state = "open"]
    /\ Return(p)
    /\ UNCHANGED <<order, moneyVars, logged, faults>>

-----------------------------------------------------------------------------
(* The customer and the provider.                                          *)

(* Completing a Stripe session takes the money, or with a delayed method   *)
(* (createCheckoutSession does not restrict them) only promises it. A      *)
(* PayPal order is approved and still has to be captured.                  *)
CustomerPays(s) ==
    /\ session[s].state = "open"
    /\ \E state \in IF session[s].attempt \in Stripe
                      THEN {"paid", "pending"} ELSE {"approved"} :
          session' = [session EXCEPT ![s].state = state]
    /\ UNCHANGED <<order, attempt, moneyVars, logged, task, faults>>

(* The provider decides a pending capture or a delayed payment.            *)
ProviderDecides(s) ==
    /\ session[s].state = "pending"
    /\ \E state \in {"paid", "denied"} :
          session' = [session EXCEPT ![s].state = state]
    /\ UNCHANGED <<order, attempt, moneyVars, logged, task, faults>>

-----------------------------------------------------------------------------
(* capture and reconciliation: ask the provider, then finalize.            *)

CaptureBegin(p, a) ==
    /\ task[p].pc = "idle"
    /\ attempt[a].status # "CAPTURED"
    /\ attempt[a].object # NoSession
    /\ task' = [task EXCEPT ![p] = [Idle EXCEPT !.pc = "capture", !.attempt = a,
                                                !.session = attempt[a].object]]
    /\ UNCHANGED <<order, attempt, session, moneyVars, logged, faults>>

(* The sweep lists an unsettled attempt between its grace period and the   *)
(* 24 hours after which it gives up; time is not modelled.                 *)
ReconcileBegin(p, a) ==
    /\ task[p].pc = "idle"
    /\ attempt[a].status \in Unsettled
    /\ attempt[a].object # NoSession
    /\ task' = [task EXCEPT ![p] = [Idle EXCEPT !.pc = "reconcile", !.attempt = a,
                                                !.session = attempt[a].object]]
    /\ UNCHANGED <<order, attempt, session, moneyVars, logged, faults>>

Finalize(p, captured) ==
    task' = [task EXCEPT ![p].pc = "finalize", ![p].captured = captured,
                         ![p].checked = TRUE]

AskStripeTrusting(p) ==                  \* mutant: "paid" is not looked at
    /\ task[p].pc \in {"capture", "reconcile"}
    /\ task[p].attempt \in Stripe
    /\ Finalize(p, TRUE)
    /\ UNCHANGED <<order, attempt, session, moneyVars, logged, faults>>

(* Stripe: retrieveSession. An unpaid session is a failed capture, but is  *)
(* left alone by reconciliation.                                           *)
AskStripe(p) ==
    LET paid == session[task[p].session].state = "paid" IN
    /\ task[p].pc \in {"capture", "reconcile"}
    /\ task[p].attempt \in Stripe
    /\ IF paid \/ task[p].pc = "capture" THEN Finalize(p, paid) ELSE Return(p)
    /\ UNCHANGED <<order, attempt, session, moneyVars, logged, faults>>

(* PayPal: captureOrder on an approved order completes it, leaves it       *)
(* pending or declines it; reconciliation first looks the order up. On any *)
(* other order the capture call is refused and the handler throws.         *)
AskPaypal(p) ==
    LET s == task[p].session
        state == session[s].state IN
    /\ task[p].pc \in {"capture", "reconcile"}
    /\ task[p].attempt \notin Stripe
    /\ \/ /\ state = "approved"
          /\ session' = [session EXCEPT ![s].state = "paid"]
          /\ Finalize(p, TRUE)
       \/ /\ state = "approved"
          /\ \E next \in {"approved", "pending"} :
                session' = [session EXCEPT ![s].state = next]
          /\ IF task[p].pc = "capture" THEN Finalize(p, FALSE) ELSE Return(p)
       \/ /\ state # "approved"
          /\ IF state = "paid" /\ task[p].pc = "reconcile"
             THEN Finalize(p, TRUE) ELSE Return(p)
          /\ UNCHANGED session
    /\ UNCHANGED <<order, attempt, moneyVars, logged, faults>>

(* The provider's answer never comes. A PayPal capture may have gone       *)
(* through all the same.                                                   *)
AskLost(p) ==
    LET s == task[p].session IN
    /\ task[p].pc \in {"capture", "reconcile"}
    /\ Fault
    /\ \/ UNCHANGED session
       \/ /\ session[s].state = "approved"
          /\ session' = [session EXCEPT ![s].state = "paid"]
    /\ Return(p)
    /\ UNCHANGED <<order, attempt, moneyVars, logged>>

-----------------------------------------------------------------------------
(* finalizeCapture                                                         *)

(* Already resolved attempts are left alone.                               *)
FinalizeRead(p) ==
    /\ task[p].pc = "finalize"
    /\ IF attempt[task[p].attempt].status \in Final
       THEN Return(p) ELSE Goto(p, "transition")
    /\ UNCHANGED <<order, attempt, session, moneyVars, logged, faults>>

(* The provider took the money, but not the amount asked for.              *)
Mismatch(t) == t.captured /\ t.checked /\ t.session \in Mispaid

Target(t) == IF t.captured /\ ~Mismatch(t) THEN "CAPTURED" ELSE "FAILED"

TransitionSwallowed(p) ==                \* mutant: a refused move does not throw
    LET a == task[p].attempt
        to == Target(task[p]) IN
    /\ task[p].pc = "transition"
    /\ ~Locked(a)
    /\ attempt' = [attempt EXCEPT ![a].status = IF MovesTo(a, to) THEN to ELSE @]
    /\ IF Mismatch(task[p]) THEN Return(p) ELSE Goto(p, "readOrder")
    /\ UNCHANGED <<order, session, moneyVars, logged, faults>>

(* PaymentStateService.transition, in its own serializable transaction.    *)
(* A move the table forbids throws and ends the handler; so does, once its *)
(* attempt has failed, a wrong amount: the order stays as it is.           *)
TransitionStep(p) ==
    LET a == task[p].attempt
        to == Target(task[p]) IN
    /\ task[p].pc = "transition"
    /\ ~Locked(a)
    /\ IF attempt[a].status = to \/ MovesTo(a, to)
       THEN /\ attempt' = [attempt EXCEPT ![a].status = to]
            /\ IF Mismatch(task[p]) THEN Return(p) ELSE Goto(p, "readOrder")
       ELSE UNCHANGED attempt /\ Return(p)
    /\ UNCHANGED <<order, session, moneyVars, logged, faults>>

(* It waited for a webhook's lock on the row: a serializable transaction   *)
(* that finds the row changed is aborted.                                  *)
TransitionConflict(p) ==
    /\ task[p].pc = "transition"
    /\ Locked(task[p].attempt)
    /\ Return(p)
    /\ UNCHANGED <<order, attempt, session, moneyVars, logged, faults>>

ReadOrder(p) ==
    /\ task[p].pc = "readOrder"
    /\ IF order[attempt[task[p].attempt].order].pay = "PAID"
       THEN Return(p) ELSE Goto(p, "commit")
    /\ UNCHANGED <<order, attempt, session, moneyVars, logged, faults>>

CommitCapturedAgain(p) ==                \* mutant: no unique row stops a second one
    LET o == attempt[task[p].attempt].order IN
    /\ task[p].pc = "commit"
    /\ task[p].captured
    /\ MarkPaid(o)
    /\ txn' = txn \cup {[order |-> o, session |-> task[p].session, id |-> "payment"]}
    /\ invoice' = invoice \cup {o}
    /\ Return(p)
    /\ UNCHANGED <<attempt, session, logged, faults>>

CommitCapturedUnrecorded(p) ==           \* mutant: the order alone is updated
    /\ task[p].pc = "commit"
    /\ task[p].captured
    /\ MarkPaid(attempt[task[p].attempt].order)
    /\ Return(p)
    /\ UNCHANGED <<attempt, session, moneyVars, logged, faults>>

(* Transaction row, order, invoice and history in one transaction; an      *)
(* existing transaction row or invoice rolls it back.                      *)
CommitCaptured(p) ==
    LET o == attempt[task[p].attempt].order
        row == [order |-> o, session |-> task[p].session, id |-> "payment"]
        duplicate == \E t \in txn : t.session = row.session /\ t.id = row.id IN
    /\ task[p].pc = "commit"
    /\ task[p].captured
    /\ IF duplicate \/ o \in invoice
       THEN UNCHANGED <<order, moneyVars>>
       ELSE /\ MarkPaid(o)
            /\ txn' = txn \cup {row}
            /\ invoice' = invoice \cup {o}
    /\ Return(p)
    /\ UNCHANGED <<attempt, session, logged, faults>>

CommitFailed(p) ==
    /\ task[p].pc = "commit"
    /\ ~task[p].captured
    /\ MarkFailed(attempt[task[p].attempt].order)
    /\ Return(p)
    /\ UNCHANGED <<attempt, session, moneyVars, logged, faults>>

-----------------------------------------------------------------------------
(* Webhooks. The provider repeats an event until it is answered; the       *)
(* unique provider_event_id lets only the first delivery through.          *)

Done == {"pending", "paid", "denied"}

(* PayPal's event tells how the capture ended. Stripe's is                 *)
(* checkout.session.completed: it comes when the customer is through, and  *)
(* the handler takes it for the money without looking at payment_status.   *)
(* The events that tell of a delayed payment's end are ignored.            *)
HookLog(p, s) ==
    LET stripe == session[s].attempt \in Stripe
        state == session[s].state IN
    /\ task[p].pc = "idle"
    /\ state \in IF stripe THEN Done ELSE {"paid", "denied"}
    /\ s \notin logged
    /\ logged' = logged \cup {s}
    /\ task' = [task EXCEPT ![p] =
                  [Idle EXCEPT !.pc = "hook", !.session = s,
                               !.captured = stripe \/ state = "paid"]]
    /\ UNCHANGED <<order, attempt, session, moneyVars, faults>>

(* The attempt is looked up by the session's id. PayPal's outcome goes     *)
(* through finalizeCapture, without the amount.                            *)
HookFind(p) ==
    LET found == {a \in Attempt : attempt[a].object = task[p].session} IN
    /\ task[p].pc = "hook"
    /\ \/ found = {} /\ Return(p)
       \/ \E a \in found :
             task' = [task EXCEPT ![p].attempt = a,
                                  ![p].pc = IF a \in Stripe THEN "hookRead"
                                            ELSE "finalize"]
    /\ UNCHANGED <<order, attempt, session, moneyVars, logged, faults>>

(* Stripe: one transaction that sets the attempt's status, bypassing the   *)
(* status machine, then reads the order; a paid order is left alone.       *)
HookRead(p) ==
    LET a == task[p].attempt IN
    /\ task[p].pc = "hookRead"
    /\ ~Locked(a)
    /\ IF order[attempt[a].order].pay = "PAID"
       THEN /\ attempt' = [attempt EXCEPT ![a].status = "CAPTURED"]
            /\ Return(p)
       ELSE Goto(p, "hookCommit") /\ UNCHANGED attempt
    /\ UNCHANGED <<order, session, moneyVars, logged, faults>>

(* No invoice is issued on this path.                                      *)
HookCommit(p) ==
    LET a == task[p].attempt
        o == attempt[a].order IN
    /\ task[p].pc = "hookCommit"
    /\ attempt' = [attempt EXCEPT ![a].status = "CAPTURED"]
    /\ MarkPaid(o)
    /\ txn' = txn \cup {[order |-> o, session |-> task[p].session, id |-> "session"]}
    /\ Return(p)
    /\ UNCHANGED <<session, invoice, logged, faults>>

-----------------------------------------------------------------------------
(* The process dies between two awaits; an open transaction is rolled back.*)
Crash(p) ==
    /\ task[p].pc # "idle"
    /\ Fault
    /\ Return(p)
    /\ UNCHANGED <<order, attempt, session, moneyVars, logged>>

(* Every step that a handler takes on its own once it has begun.           *)
HandlerStep(p) ==
    \/ CreateInsert(p) \/ CreateRaced(p) \/ CreateSession(p) \/ CreateStore(p)
    \/ AskStripe(p) \/ AskPaypal(p)
    \/ FinalizeRead(p) \/ TransitionStep(p) \/ TransitionConflict(p)
    \/ ReadOrder(p) \/ CommitCaptured(p) \/ CommitFailed(p)
    \/ HookFind(p) \/ HookRead(p) \/ HookCommit(p)

FaultStep(p) == CreateFails(p) \/ AskLost(p) \/ Crash(p)

PaymentsNext ==
    \/ \E o \in Order : Checkout(o) \/ ReleaseStock(o)
    \/ \E s \in Session : CustomerPays(s) \/ ProviderDecides(s)
    \/ \E p \in Process :
          \/ \E o \in Order, a \in Attempt : CreateBegin(p, o, a)
          \/ \E a \in Attempt : CaptureBegin(p, a) \/ ReconcileBegin(p, a)
          \/ \E s \in Session : HookLog(p, s)
          \/ HandlerStep(p)
          \/ FaultStep(p)

PaymentsSpec == PaymentsInit /\ [][PaymentsNext]_vars

(* Handlers run on unless the process dies, and the sweep returns to an    *)
(* attempt that stays unsettled. Webhooks, customers and capture calls may *)
(* never come. Strong fairness for the sweep: it waits for a free handler, *)
(* of which the code has no fixed number.                                  *)
Fairness ==
    /\ \A p \in Process : WF_vars(HandlerStep(p))
    /\ \A a \in Attempt : SF_vars(\E p \in Process : ReconcileBegin(p, a))

FairSpec == PaymentsSpec /\ Fairness

-----------------------------------------------------------------------------
(* Properties.                                                             *)

TypeOK ==
    /\ RowTypeOK
    /\ attempt \in [Attempt -> AttemptRow]
    /\ session \in [Session -> SessionRow]
    /\ txn \subseteq Transaction
    /\ invoice \subseteq Order
    /\ logged \subseteq Session
    /\ task \in [Process -> Task]
    /\ faults \in 0..MaxFaults

OrderOfSession(s) == attempt[session[s].attempt].order

Taken(s) == session[s].state = "paid"

(* A Stripe session that its customer completed and its event announced.   *)
(* The money may be on its way still, or never come.                       *)
Announced(s) ==
    s \in logged /\ session[s].attempt \in Stripe /\ session[s].state \in Done

(* No order is paid on the shop's word alone: a PAID order has a recorded  *)
(* transaction, and every transaction belongs to a session of that very    *)
(* order, whatever calls, retries, webhooks and sweeps came in between.    *)
(* What the capture path records was taken by the provider; what the       *)
(* Stripe webhook records was announced, which is not the same.            *)
PaidIsBacked ==
    /\ \A o \in Order : order[o].pay = "PAID" => \E t \in txn : t.order = o
    /\ \A t \in txn :
          /\ OrderOfSession(t.session) = t.order
          /\ IF t.id = "payment" THEN Taken(t.session) ELSE Announced(t.session)

(* An attempt counts as captured only if a session of its own took the     *)
(* money or, by the Stripe webhook, announced it; a PayPal attempt only    *)
(* with the money.                                                         *)
Backed(a) == \E s \in Session : session[s].attempt = a /\ (Taken(s) \/ Announced(s))

CapturedIsBacked == \A a \in Attempt : attempt[a].status = "CAPTURED" => Backed(a)

(* However many attempts and handlers race, the capture path records one   *)
(* payment per order and issues its invoice with it, never one alone. The  *)
(* Stripe webhook's own row comes without an invoice, and beside this one. *)
OneInvoicedPayment ==
    \A o \in Order :
        LET captures == {t \in txn : t.order = o /\ t.id = "payment"} IN
        /\ o \in invoice <=> captures # {}
        /\ \A t, u \in captures : t = u

(* The Stripe webhook was called for attempt a.                            *)
Hooked(a) == a \in Stripe /\ \E s \in logged : session[s].attempt = a

(* A settled attempt stays settled. The one exception is the Stripe        *)
(* webhook, which may turn any status into CAPTURED once it is called; a   *)
(* PayPal attempt never changes again.                                     *)
SettledStays ==
    [][\A a \in Attempt : attempt[a].status \in Final =>
          \/ attempt'[a].status = attempt[a].status
          \/ Hooked(a) /\ attempt'[a].status = "CAPTURED"]_vars

(* A failed outcome may be written over a payment it has not seen, but     *)
(* never over one its own attempt made: of the calls, sweeps and PayPal    *)
(* events that finalize one attempt, captured or not, only one side gets   *)
(* past the status machine. It takes another attempt, or the Stripe        *)
(* webhook, which bypasses that machine.                                   *)
OwnPaymentStands ==
    [][\A o \in Order : order[o].pay = "PAID" /\ order'[o].pay # "PAID" =>
          \E p \in Process :
              LET a == task[p].attempt IN
              /\ task[p].pc = "commit" /\ task'[p].pc = "idle"
              /\ attempt[a].order = o
              /\ Hooked(a) \/ \A t \in txn : session[t.session].attempt # a]_vars

(* What the capture and reconciliation paths of a Stripe attempt record is *)
(* a payment of the amount asked for, on every order of their steps.       *)
CaptureIsInFull ==
    \A t \in txn :
        t.id = "payment" /\ session[t.session].attempt \in Stripe
            => t.session \notin Mispaid

(* The records of money: rows are rows, captured attempts are backed, and  *)
(* the capture path records an order once, with an invoice and, of a       *)
(* Stripe attempt, in full.                                                *)
MoneyRecorded == TypeOK /\ CapturedIsBacked /\ OneInvoicedPayment /\ CaptureIsInFull

PaidNow(a) ==
    /\ attempt[a].object # NoSession
    /\ session[attempt[a].object].state = "paid"

(* The sweep settles every attempt whose current session was paid, even if *)
(* the customer never returns, no webhook arrives and one answer is lost,  *)
(* unless a second create() stores another session over the paid one.      *)
ReconciliationSettles ==
    \A a \in Attempt : PaidNow(a) ~> (attempt[a].status \in Final \/ ~PaidNow(a))

Recorded(o) == \E t \in txn : t.order = o

(* A captured attempt leads to a recorded payment of its order. Only a     *)
(* process that dies between the attempt's transaction and the order's     *)
(* leaves it unrecorded: nothing looks at a captured attempt again.        *)
CapturedIsRecorded ==
    \A a \in Attempt : attempt[a].status = "CAPTURED" ~>
        (Recorded(attempt[a].order) \/ faults > 0)

-----------------------------------------------------------------------------
(* What the code says of itself and does not keep: TLC refutes each when a *)
(* configuration checks it (see README).                                   *)

(* "what the provider actually took must match what we asked for"          *)
(* (payment-attempts.service.ts:136), whichever path records the payment.  *)
PaidInFull == \A t \in txn : t.session \notin Mispaid

(* "never trust "paid" alone" (the same comment): what is recorded as a    *)
(* payment has been taken by the provider.                                 *)
RecordedIsTaken == \A t \in txn : Taken(t.session)
=============================================================================
