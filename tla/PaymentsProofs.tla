--------------------------- MODULE PaymentsProofs ---------------------------
(***************************************************************************)
(* Proofs about Payments, for any numbers of orders, attempts, sessions,   *)
(* handlers and faults.                                                    *)
(*                                                                         *)
(* Each payment invariant speaks of rows and sessions only, so none of     *)
(* them is inductive: what a handler will write is in its local copies.    *)
(* IInv adds what those copies mean (TaskOK), what ties attempts to their  *)
(* sessions (AttemptOK, SessionOK), and that two handlers never hold the   *)
(* same unstored session (StoresApart).                                    *)
(***************************************************************************)
EXTENDS Payments, OrderLifecycleProofs

PC == {"idle", "insert", "provider", "store", "capture", "reconcile",
       "finalize", "transition", "readOrder", "commit", "hook",
       "hookRead", "hookCommit"}

(* Where a handler works for an attempt and that attempt's session.        *)
Working == {"capture", "reconcile", "finalize", "transition", "readOrder",
            "commit", "hookRead", "hookCommit"}

Made(a) ==
    a \in Attempt /\ attempt[a].status # "NONE" /\ attempt[a].order \in Order

(* What the local copies t of a handler mean.                              *)
TaskOK(t) ==
    /\ t.pc = "insert" => t.order \in Order /\ t.attempt \in Attempt
    /\ t.pc \in {"provider", "store"} => Made(t.attempt)
    /\ t.pc = "store" => /\ t.session \in Session
                         /\ session[t.session].state = "created"
                         /\ session[t.session].attempt = t.attempt
    /\ t.pc \in Working => /\ Made(t.attempt)
                           /\ t.session \in Session
                           /\ session[t.session].state # "unused"
                           /\ session[t.session].attempt = t.attempt
    /\ t.pc \in {"finalize", "transition", "readOrder", "commit"} /\ t.captured
          => session[t.session].state = "paid"
    /\ t.pc = "hook" =>
          /\ t.session \in Session /\ t.session \in logged
          /\ session[t.session].state \in Done
          /\ t.captured => Taken(t.session) \/ Announced(t.session)
    /\ t.pc \in {"hookRead", "hookCommit"} =>
          Announced(t.session) /\ t.attempt \in Stripe

AttemptOK(a) ==
    /\ attempt[a].status # "NONE" => attempt[a].order \in Order
    /\ attempt[a].object # NoSession =>
          /\ attempt[a].status # "NONE"
          /\ session[attempt[a].object].state # "unused"
          /\ session[attempt[a].object].attempt = a
    /\ attempt[a].status = "CAPTURED" => Backed(a)

SessionOK(s) ==
    /\ session[s].state # "unused" => Made(session[s].attempt)
    /\ session[s].state = "approved" => session[s].attempt \notin Stripe

TransactionOK(t) ==
    /\ OrderOfSession(t.session) = t.order
    /\ IF t.id = "payment" THEN Taken(t.session) ELSE Announced(t.session)

StoresApart ==
    \A p, q \in Process :
        task[p].pc = "store" /\ task[q].pc = "store" /\ p # q
            => task[p].session # task[q].session

Types ==
    /\ attempt \in [Attempt -> AttemptRow]
    /\ session \in [Session -> SessionRow]
    /\ txn \subseteq Transaction
    /\ invoice \subseteq Order
    /\ logged \subseteq Session
    /\ task \in [Process -> Task]
    /\ faults \in 0..MaxFaults

IInv ==
    /\ RowInv
    /\ Types
    /\ \A p \in Process : TaskOK(task[p])
    /\ \A a \in Attempt : AttemptOK(a)
    /\ \A s \in Session : SessionOK(s)
    /\ \A t \in txn : TransactionOK(t)
    /\ StoresApart
    /\ \A o \in Order : order[o].pay = "PAID" => \E t \in txn : t.order = o
    /\ OneInvoicedPayment

-----------------------------------------------------------------------------
(* How the local copies change.                                            *)

LEMMA TaskFields ==
    ASSUME NEW t \in Task
    PROVE  /\ t.pc \in PC
           /\ t.order \in Order \cup {NoOrder}
           /\ t.attempt \in Attempt \cup {NoAttempt}
           /\ t.session \in Session \cup {NoSession}
           /\ t.captured \in BOOLEAN
           /\ t.checked \in BOOLEAN
  BY DEF Task, PC

LEMMA IdleTask == Idle \in Task /\ Idle.pc = "idle"
  BY DEF Idle, Task

(* Goto changes the program counter of one handler.                        *)
LEMMA GotoTask ==
    ASSUME NEW p \in Process, NEW pc \in PC,
           task \in [Process -> Task], Goto(p, pc)
    PROVE  /\ task' \in [Process -> Task]
           /\ task'[p].pc = pc
           /\ task'[p].order = task[p].order
           /\ task'[p].attempt = task[p].attempt
           /\ task'[p].session = task[p].session
           /\ task'[p].captured = task[p].captured
           /\ \A q \in Process : q # p => task'[q] = task[q]
  <1>1. task' = [task EXCEPT ![p] = [task[p] EXCEPT !.pc = pc]]
    BY DEF Goto
  <1>2. task[p] \in Task
    OBVIOUS
  <1>3. [task[p] EXCEPT !.pc = pc] \in Task
    BY <1>2 DEF Task, PC
  <1>4. task'[p] = [task[p] EXCEPT !.pc = pc]
    BY <1>1
  <1>5. task' \in [Process -> Task] /\ \A q \in Process : q # p => task'[q] = task[q]
    BY <1>1, <1>3
  <1> QED
    BY <1>2, <1>4, <1>5 DEF Task

LEMMA ReturnTask ==
    ASSUME NEW p \in Process, task \in [Process -> Task], Return(p)
    PROVE  /\ task' \in [Process -> Task]
           /\ task'[p].pc = "idle"
           /\ \A q \in Process : q # p => task'[q] = task[q]
  BY IdleTask DEF Return

-----------------------------------------------------------------------------
(* What no step undoes: an attempt once made keeps its order, a session    *)
(* once opened its attempt, money taken, or refused, its state, and an     *)
(* event logged stays logged.                                              *)

Stable ==
    /\ \A a \in Attempt : Made(a) => Made(a)' /\ attempt'[a].order = attempt[a].order
    /\ \A s \in Session : session[s].state # "unused" =>
          session'[s].state # "unused" /\ session'[s].attempt = session[s].attempt
    /\ \A s \in Session : session[s].state \in {"paid", "denied"} =>
          session'[s].state = session[s].state
    /\ \A s \in Session : session[s].state \in Done => session'[s].state \in Done
    /\ logged \subseteq logged'

(* Money taken, or announced by an event, stays so.                        *)
LEMMA AnnouncedKept ==
    ASSUME NEW s \in Session, Stable
    PROVE  /\ Taken(s) => Taken(s)'
           /\ Announced(s) => Announced(s)'
  BY DEF Stable, Taken, Announced, Done

LEMMA BackedKept ==
    ASSUME NEW a, Stable, Backed(a)
    PROVE  Backed(a)'
  <1>1. PICK s \in Session : session[s].attempt = a /\ (Taken(s) \/ Announced(s))
    BY DEF Backed
  <1>2. session'[s].attempt = a
    BY <1>1 DEF Stable, Taken, Announced, Done
  <1>3. (Taken(s) \/ Announced(s))'
    BY <1>1, AnnouncedKept
  <1> QED
    BY <1>2, <1>3 DEF Backed

(* Copies that a handler keeps stay true while the others take stable      *)
(* steps that leave the session it has to store alone.                     *)
LEMMA TaskKept ==
    ASSUME NEW t \in Task, TaskOK(t), Stable,
           t.pc = "store" => session'[t.session].state = "created"
    PROVE  TaskOK(t)'
  <1>1. ASSUME Made(t.attempt) PROVE Made(t.attempt)'
    BY <1>1 DEF Stable, Made
  <1>2. CASE t.pc \in {"idle", "insert"}
    BY <1>2 DEF TaskOK, Working
  <1>3. CASE t.pc = "provider"
    BY <1>1, <1>3 DEF TaskOK, Working
  <1>4. CASE t.pc = "store"
    BY <1>1, <1>4 DEF TaskOK, Working, Stable
  <1>5. CASE t.pc = "hook"
    <2>1. /\ t.session \in Session /\ t.session \in logged'
          /\ session'[t.session].state \in Done
      BY <1>5 DEF TaskOK, Stable
    <2>2. t.captured => (Taken(t.session) \/ Announced(t.session))'
      BY <1>5, <2>1, AnnouncedKept DEF TaskOK
    <2> QED
      BY <1>5, <2>1, <2>2 DEF TaskOK, Working
  <1>6. CASE t.pc \in Working
    <2>1. Made(t.attempt)' /\ t.session \in Session
      BY <1>1, <1>6 DEF TaskOK
    <2>2. /\ session'[t.session].state # "unused"
          /\ session'[t.session].attempt = t.attempt
          /\ session[t.session].state = "paid" => session'[t.session].state = "paid"
      BY <1>6, <2>1 DEF TaskOK, Stable
    <2>3. t.pc \in {"hookRead", "hookCommit"} => Announced(t.session)'
      BY <2>1, AnnouncedKept DEF TaskOK
    <2> QED
      BY <1>6, <2>1, <2>2, <2>3 DEF TaskOK, Working
  <1> QED
    BY <1>2, <1>3, <1>4, <1>5, <1>6, TaskFields DEF PC, Working

LEMMA AttemptKept ==
    ASSUME NEW a \in Attempt, AttemptOK(a), Stable, Types,
           attempt'[a] = attempt[a]
    PROVE  AttemptOK(a)'
  <1>1. attempt[a].object \in Session \cup {NoSession}
    BY DEF Types, AttemptRow
  <1>2. ASSUME attempt[a].status = "CAPTURED"
        PROVE  Backed(a)'
    BY <1>2, BackedKept DEF AttemptOK
  <1>3. ASSUME attempt[a].object # NoSession
        PROVE  /\ session'[attempt[a].object].state # "unused"
               /\ session'[attempt[a].object].attempt = a
    BY <1>1, <1>3 DEF AttemptOK, Stable
  <1> QED
    BY <1>2, <1>3 DEF AttemptOK

LEMMA SessionKept ==
    ASSUME NEW s \in Session, SessionOK(s), Stable, session'[s] = session[s]
    PROVE  SessionOK(s)'
  BY DEF SessionOK, Stable, Made

LEMMA TransactionKept ==
    ASSUME IInv, Stable, NEW t \in txn
    PROVE  TransactionOK(t)'
  <1>1. t.session \in Session
    BY DEF IInv, Types, Transaction
  <1>2. TransactionOK(t) /\ Made(session[t.session].attempt)
    BY <1>1 DEF IInv, SessionOK, TransactionOK, Taken, Announced, Done
  <1>3. (OrderOfSession(t.session) = t.order)'
    BY <1>1, <1>2 DEF Stable, TransactionOK, OrderOfSession, Made, Taken, Announced, Done
  <1>4. (IF t.id = "payment" THEN Taken(t.session) ELSE Announced(t.session))'
    BY <1>1, <1>2, AnnouncedKept DEF TransactionOK
  <1> QED
    BY <1>3, <1>4 DEF TransactionOK

(* Handler q, and the session it has to store, are left alone.             *)
Kept(q) ==
    /\ task'[q] = task[q]
    /\ task[q].pc = "store" => session'[task[q].session].state = "created"

(* A step of at most one handler p, put together from what it does to each *)
(* part of the state.                                                      *)
LEMMA Assemble ==
    ASSUME IInv, RowInv', Types', Stable, NEW p,
           \A q \in Process : q # p => Kept(q),
           p \in Process =>
              \/ Kept(p)
              \/ /\ TaskOK(task[p])'
                 /\ task'[p].pc = "store"
                       => \/ session[task'[p].session].state = "unused"
                          \/ /\ task[p].pc = "store"
                             /\ task'[p].session = task[p].session,
           \A a \in Attempt : attempt'[a] = attempt[a] \/ AttemptOK(a)',
           \A s \in Session : session'[s] = session[s] \/ SessionOK(s)',
           txn \subseteq txn',
           \A t \in txn' : t \in txn \/ TransactionOK(t)',
           \A o \in Order : order'[o].pay = "PAID"
               => order[o].pay = "PAID" \/ \E t \in txn' : t.order = o,
           OneInvoicedPayment'
    PROVE  IInv'
  <1>1. \A q \in Process : TaskOK(task[q])'
    <2> TAKE q \in Process
    <2>1. CASE Kept(q)
      <3>1. PICK t \in Task : t = task[q] /\ t = task'[q]
        BY <2>1 DEF IInv, Types, Kept
      <3>2. TaskOK(t)
        BY <3>1 DEF IInv
      <3>3. TaskOK(t)'
        BY <2>1, <3>1, <3>2, TaskKept DEF Kept
      <3> QED
        BY <3>1, <3>3 DEF TaskOK, Made
    <2> QED
      BY <2>1
  <1>2. StoresApart'
    <2> SUFFICES ASSUME NEW q \in Process, NEW r \in Process, q # r,
                        task'[q].pc = "store", task'[r].pc = "store"
                 PROVE  task'[q].session # task'[r].session
      BY DEF StoresApart
    <2>1. ASSUME NEW x \in Process, task[x].pc = "store"
          PROVE  session[task[x].session].state = "created"
      BY <2>1 DEF IInv, TaskOK
    <2>2. CASE Kept(q) /\ Kept(r)
      BY <2>2 DEF IInv, StoresApart, Kept
    <2>3. CASE q = p /\ ~Kept(q)
      BY <2>1, <2>3 DEF IInv, StoresApart, Kept
    <2>4. CASE r = p /\ ~Kept(r)
      BY <2>1, <2>4 DEF IInv, StoresApart, Kept
    <2> QED
      BY <2>2, <2>3, <2>4
  <1>3. \A a \in Attempt : AttemptOK(a)'
    BY AttemptKept DEF IInv
  <1>4. \A s \in Session : SessionOK(s)'
    BY SessionKept DEF IInv
  <1>5. \A t \in txn' : TransactionOK(t)'
    BY TransactionKept
  <1>6. \A o \in Order : order'[o].pay = "PAID" => \E t \in txn' : t.order = o
    BY DEF IInv
  <1> QED
    BY <1>1, <1>2, <1>3, <1>4, <1>5, <1>6 DEF IInv

-----------------------------------------------------------------------------
(* Steps that only move a handler on.                                      *)

LEMMA QuietStep ==
    ASSUME IInv, NEW p \in Process,
           UNCHANGED <<order, attempt, session, txn, invoice>>,
           task' \in [Process -> Task],
           \A q \in Process : q # p => task'[q] = task[q],
           task'[p].pc # "store", TaskOK(task[p])',
           logged \subseteq logged', logged' \subseteq Session, faults' \in 0..MaxFaults
    PROVE  IInv'
  <1>1. Stable
    BY DEF Stable, Made
  <1>2. RowInv' /\ Types' /\ OneInvoicedPayment'
    BY DEF IInv, RowInv, Types, OneInvoicedPayment
  <1>3. \A q \in Process : q # p => Kept(q)
    BY DEF IInv, TaskOK, Kept
  <1> QED
    BY <1>1, <1>2, <1>3, Assemble

LEMMA ReturnStep ==
    ASSUME IInv, NEW p \in Process, Return(p),
           UNCHANGED <<order, attempt, session, txn, invoice>>,
           logged \subseteq logged', logged' \subseteq Session, faults' \in 0..MaxFaults
    PROVE  IInv'
  <1>1. /\ task' \in [Process -> Task]
        /\ task'[p].pc = "idle"
        /\ \A q \in Process : q # p => task'[q] = task[q]
    BY ReturnTask DEF IInv, Types
  <1>2. TaskOK(task[p])'
    BY <1>1 DEF TaskOK, Working
  <1> QED
    BY <1>1, <1>2, QuietStep

LEMMA FaultCount ==
    ASSUME Types, Fault
    PROVE  faults' \in 0..MaxFaults
  BY FaultAssumption DEF Types, Fault

LEMMA CreateBeginStep ==
    ASSUME IInv, NEW p \in Process, NEW o \in Order, NEW a \in Attempt,
           CreateBegin(p, o, a)
    PROVE  IInv'
  <1> DEFINE t == [Idle EXCEPT !.pc = IF attempt[a].status = "NONE"
                                      THEN "insert" ELSE "provider",
                               !.order = o, !.attempt = a]
  <1>1. /\ t \in Task /\ t.order = o /\ t.attempt = a
        /\ t.pc = IF attempt[a].status = "NONE" THEN "insert" ELSE "provider"
    BY DEF Idle, Task
  <1>2. task' = [task EXCEPT ![p] = t]
    BY DEF CreateBegin
  <1>3. /\ task' \in [Process -> Task] /\ task'[p] = t
        /\ \A q \in Process : q # p => task'[q] = task[q]
    <2> HIDE DEF t
    <2> QED
      BY <1>1, <1>2 DEF IInv, Types
  <1>4. t.pc = "provider" => Made(a)
    BY <1>1 DEF CreateBegin, Made
  <1>5. attempt' = attempt /\ session' = session
    BY DEF CreateBegin
  <1>6. TaskOK(task[p])'
    <2> HIDE DEF t
    <2> QED
      BY <1>1, <1>3, <1>4, <1>5 DEF TaskOK, Working, Made
  <1>7. task'[p].pc # "store"
    <2> HIDE DEF t
    <2> QED
      BY <1>1, <1>3
  <1>8. logged \subseteq logged' /\ logged' \subseteq Session /\ faults' \in 0..MaxFaults
    BY DEF CreateBegin, IInv, Types
  <1> QED
    <2> HIDE DEF t
    <2> QED
      BY <1>3, <1>6, <1>7, <1>8, QuietStep DEF CreateBegin, moneyVars

LEMMA CreateRacedStep ==
    ASSUME IInv, NEW p \in Process, CreateRaced(p)
    PROVE  IInv'
  <1>1. CASE Return(p)
    BY <1>1, ReturnStep DEF CreateRaced, moneyVars, IInv, Types
  <1>2. CASE Goto(p, "provider") /\ attempt[task[p].attempt].order = task[p].order
    <2>1. task[p].pc = "insert" /\ task[p].order \in Order /\ task[p].attempt \in Attempt
      BY DEF CreateRaced, IInv, TaskOK
    <2>2. Made(task[p].attempt)
      BY <1>2, <2>1 DEF CreateRaced, Made
    <2>3. /\ task' \in [Process -> Task]
          /\ task'[p].pc = "provider" /\ task'[p].attempt = task[p].attempt
          /\ \A q \in Process : q # p => task'[q] = task[q]
      BY <1>2, GotoTask DEF IInv, Types, PC
    <2>4. TaskOK(task[p])'
      BY <2>2, <2>3 DEF TaskOK, Working, Made, CreateRaced
    <2> QED
      BY <2>3, <2>4, QuietStep DEF CreateRaced, moneyVars, IInv, Types
  <1> QED
    BY <1>1, <1>2 DEF CreateRaced

(* A handler that starts work on an attempt whose session is stored.       *)
LEMMA AskBeginStep ==
    ASSUME IInv, NEW p \in Process, NEW a \in Attempt,
           CaptureBegin(p, a) \/ ReconcileBegin(p, a)
    PROVE  IInv'
  <1>1. PICK pc \in {"capture", "reconcile"} :
           task' = [task EXCEPT ![p] = [Idle EXCEPT !.pc = pc, !.attempt = a,
                                                    !.session = attempt[a].object]]
    BY DEF CaptureBegin, ReconcileBegin
  <1> DEFINE t == [Idle EXCEPT !.pc = pc, !.attempt = a,
                               !.session = attempt[a].object]
  <1>2. /\ attempt[a].object \in Session
        /\ attempt' = attempt /\ session' = session
    BY DEF CaptureBegin, ReconcileBegin, IInv, Types, AttemptRow
  <1>3. /\ t \in Task /\ t.pc = pc /\ t.attempt = a
        /\ t.session = attempt[a].object
    BY <1>2 DEF Idle, Task
  <1>4. /\ Made(a)
        /\ session[attempt[a].object].state # "unused"
        /\ session[attempt[a].object].attempt = a
    BY DEF CaptureBegin, ReconcileBegin, IInv, AttemptOK, Made
  <1> HIDE DEF t
  <1>5. /\ task' \in [Process -> Task] /\ task'[p] = t
        /\ \A q \in Process : q # p => task'[q] = task[q]
    BY <1>1, <1>3 DEF IInv, Types, t
  <1>6. TaskOK(task[p])'
    BY <1>2, <1>3, <1>4, <1>5 DEF TaskOK, Working, Made
  <1> QED
    BY <1>3, <1>5, <1>6, QuietStep
       DEF CaptureBegin, ReconcileBegin, moneyVars, IInv, Types

(* A handler at work holds a made attempt and that attempt's session.      *)
LEMMA WorkingTask ==
    ASSUME IInv, NEW p \in Process, task[p].pc \in Working
    PROVE  /\ Made(task[p].attempt)
           /\ task[p].session \in Session
           /\ session[task[p].session].state # "unused"
           /\ session[task[p].session].attempt = task[p].attempt
  BY DEF IInv, TaskOK

LEMMA FinalizeTask ==
    ASSUME NEW p \in Process, NEW captured \in BOOLEAN,
           task \in [Process -> Task], Finalize(p, captured)
    PROVE  /\ task' \in [Process -> Task]
           /\ task'[p].pc = "finalize"
           /\ task'[p].attempt = task[p].attempt
           /\ task'[p].session = task[p].session
           /\ task'[p].captured = captured
           /\ \A q \in Process : q # p => task'[q] = task[q]
  <1> DEFINE t == [task[p] EXCEPT !.pc = "finalize", !.captured = captured,
                                  !.checked = TRUE]
  <1>1. task' = [task EXCEPT ![p] = t]
    BY DEF Finalize
  <1>2. /\ t \in Task /\ t.pc = "finalize" /\ t.attempt = task[p].attempt
        /\ t.session = task[p].session /\ t.captured = captured
    BY DEF Task
  <1> HIDE DEF t
  <1> QED
    BY <1>1, <1>2

LEMMA AskStripeStep ==
    ASSUME IInv, NEW p \in Process, AskStripe(p)
    PROVE  IInv'
  <1> DEFINE paid == session[task[p].session].state = "paid"
  <1>1. CASE Return(p)
    BY <1>1, ReturnStep DEF AskStripe, moneyVars, IInv, Types
  <1>2. CASE Finalize(p, paid)
    <2>1. task[p].pc \in Working
      BY DEF AskStripe, Working
    <2>2. /\ task' \in [Process -> Task]
          /\ task'[p].pc = "finalize"
          /\ task'[p].attempt = task[p].attempt
          /\ task'[p].session = task[p].session
          /\ task'[p].captured = paid
          /\ \A q \in Process : q # p => task'[q] = task[q]
      BY <1>2, FinalizeTask DEF IInv, Types
    <2>3. attempt' = attempt /\ session' = session
      BY DEF AskStripe
    <2>4. TaskOK(task[p])'
      BY <2>1, <2>2, <2>3, WorkingTask DEF TaskOK, Working, Made
    <2> QED
      BY <2>2, <2>4, QuietStep DEF AskStripe, moneyVars, IInv, Types
  <1> QED
    BY <1>1, <1>2 DEF AskStripe

(* A handler that goes on with the outcome it carries.                     *)
LEMMA CarryOn ==
    ASSUME IInv, NEW p \in Process,
           NEW pc \in {"finalize", "transition", "readOrder", "commit"},
           task[p].pc \in {"finalize", "transition", "readOrder"},
           Goto(p, pc), UNCHANGED session,
           \A a \in Attempt : Made(a) => Made(a)'
    PROVE  /\ task' \in [Process -> Task]
           /\ task'[p].pc # "store"
           /\ TaskOK(task[p])'
           /\ \A q \in Process : q # p => task'[q] = task[q]
  <1>1. /\ task' \in [Process -> Task]
        /\ task'[p].pc = pc
        /\ task'[p].attempt = task[p].attempt
        /\ task'[p].session = task[p].session
        /\ task'[p].captured = task[p].captured
        /\ \A q \in Process : q # p => task'[q] = task[q]
    BY GotoTask DEF IInv, Types, PC
  <1>2. task[p].captured => session[task[p].session].state = "paid"
    BY DEF IInv, TaskOK
  <1>3. /\ Made(task[p].attempt)'
        /\ task[p].session \in Session
        /\ session[task[p].session].state # "unused"
        /\ session[task[p].session].attempt = task[p].attempt
    <2>1. task[p].pc \in Working
      BY DEF Working
    <2>2. task[p].attempt \in Attempt
      BY <2>1, WorkingTask DEF Made
    <2>3. PICK a \in Attempt : a = task[p].attempt
      BY <2>2
    <2>4. Made(a)'
      BY <2>1, <2>3, WorkingTask
    <2>5. a = task'[p].attempt
      BY <1>1, <2>3
    <2> QED
      BY <1>1, <2>1, <2>3, <2>4, <2>5, WorkingTask DEF Made
  <1> QED
    BY <1>1, <1>2, <1>3 DEF TaskOK, Working, Made

LEMMA FinalizeReadStep ==
    ASSUME IInv, NEW p \in Process, FinalizeRead(p)
    PROVE  IInv'
  <1>1. CASE Return(p)
    BY <1>1, ReturnStep DEF FinalizeRead, moneyVars, IInv, Types
  <1>2. CASE Goto(p, "transition")
    BY <1>2, CarryOn, QuietStep DEF FinalizeRead, moneyVars, IInv, Types, Made
  <1> QED
    BY <1>1, <1>2 DEF FinalizeRead

LEMMA ReadOrderStep ==
    ASSUME IInv, NEW p \in Process, ReadOrder(p)
    PROVE  IInv'
  <1>1. CASE Return(p)
    BY <1>1, ReturnStep DEF ReadOrder, moneyVars, IInv, Types
  <1>2. CASE Goto(p, "commit")
    BY <1>2, CarryOn, QuietStep DEF ReadOrder, moneyVars, IInv, Types, Made
  <1> QED
    BY <1>1, <1>2 DEF ReadOrder

LEMMA HookLogStep ==
    ASSUME IInv, NEW p \in Process, NEW s \in Session, HookLog(p, s)
    PROVE  IInv'
  <1> DEFINE captured == session[s].attempt \in Stripe \/ session[s].state = "paid"
             t == [Idle EXCEPT !.pc = "hook", !.session = s, !.captured = captured]
  <1>1. /\ t \in Task /\ t.pc = "hook" /\ t.session = s
        /\ t.captured = captured
    BY DEF Idle, Task
  <1>2. task' = [task EXCEPT ![p] = t]
    BY DEF HookLog
  <1>3. /\ session[s].state \in Done /\ session' = session
        /\ logged' = logged \cup {s}
    BY DEF HookLog, Done
  <1>4. captured => (Taken(s) \/ Announced(s))'
    BY <1>3 DEF Taken, Announced
  <1> HIDE DEF t, captured
  <1>5. /\ task' \in [Process -> Task] /\ task'[p] = t
        /\ \A q \in Process : q # p => task'[q] = task[q]
    BY <1>1, <1>2 DEF IInv, Types
  <1>6. TaskOK(task[p])'
    BY <1>1, <1>3, <1>4, <1>5 DEF TaskOK, Working
  <1>7. logged \subseteq logged' /\ logged' \subseteq Session
    BY <1>3 DEF IInv, Types
  <1> QED
    BY <1>1, <1>5, <1>6, <1>7, QuietStep DEF HookLog, moneyVars, IInv, Types

(* What leads a Stripe webhook on is the announcement.                     *)
LEMMA HookFindStep ==
    ASSUME IInv, NEW p \in Process, HookFind(p)
    PROVE  IInv'
  <1>1. CASE Return(p)
    BY <1>1, ReturnStep DEF HookFind, moneyVars, IInv, Types
  <1>2. ASSUME NEW a \in Attempt, attempt[a].object = task[p].session,
               task' = [task EXCEPT ![p].attempt = a,
                                    ![p].pc = IF a \in Stripe THEN "hookRead"
                                              ELSE "finalize"]
        PROVE  IInv'
    <2> DEFINE next == IF a \in Stripe THEN "hookRead" ELSE "finalize"
               t == [task[p] EXCEPT !.attempt = a, !.pc = next]
    <2>1. task' = [task EXCEPT ![p] = t]
      BY <1>2
    <2>2. /\ t \in Task /\ t.pc = next /\ t.attempt = a
          /\ t.session = task[p].session /\ t.captured = task[p].captured
      BY DEF IInv, Types, Task
    <2>3. next \in {"hookRead", "finalize"}
      OBVIOUS
    <2>4. /\ task[p].session \in Session /\ task[p].session \in logged
          /\ session[task[p].session].state \in Done
          /\ task[p].captured => Taken(task[p].session) \/ Announced(task[p].session)
      BY DEF HookFind, IInv, TaskOK
    <2>5. Made(a) /\ session[task[p].session].attempt = a
      BY <1>2, <2>4, NullAssumption DEF IInv, AttemptOK, Made
    <2>6. IF a \in Stripe THEN next = "hookRead" /\ Announced(task[p].session)
          ELSE next = "finalize" /\ (task[p].captured => Taken(task[p].session))
      BY <2>4, <2>5 DEF Announced
    <2> HIDE DEF t, next
    <2>7. /\ task' \in [Process -> Task] /\ task'[p] = t
          /\ \A q \in Process : q # p => task'[q] = task[q]
      BY <2>1, <2>2 DEF IInv, Types
    <2>8. attempt' = attempt /\ session' = session /\ logged' = logged
      BY DEF HookFind
    <2>9. TaskOK(task[p])'
      BY <2>2, <2>3, <2>4, <2>5, <2>6, <2>7, <2>8
         DEF TaskOK, Working, Made, Taken, Announced, Done
    <2> QED
      BY <2>2, <2>3, <2>7, <2>9, QuietStep DEF HookFind, moneyVars, IInv, Types
  <1> QED
    BY <1>1, <1>2 DEF HookFind

-----------------------------------------------------------------------------
(* Steps that write an attempt.                                            *)

LEMMA AttemptStep ==
    ASSUME IInv, NEW p \in Process, NEW a \in Attempt, NEW row \in AttemptRow,
           attempt' = [attempt EXCEPT ![a] = row],
           row.status # "NONE", row.order \in Order,
           Made(a) => row.order = attempt[a].order,
           row.object = attempt[a].object,
           row.status = "CAPTURED" => Backed(a),
           UNCHANGED <<order, session, txn, invoice>>,
           task' \in [Process -> Task],
           \A q \in Process : q # p => task'[q] = task[q],
           task'[p].pc # "store", TaskOK(task[p])',
           logged \subseteq logged', logged' \subseteq Session, faults' \in 0..MaxFaults
    PROVE  IInv'
  <1>1. attempt'[a] = row /\ \A b \in Attempt : b # a => attempt'[b] = attempt[b]
    BY DEF IInv, Types
  <1>2. Stable
    BY <1>1 DEF Stable, Made
  <1>3. RowInv' /\ Types' /\ OneInvoicedPayment'
    BY DEF IInv, RowInv, Types, OneInvoicedPayment
  <1>4. AttemptOK(a)'
    <2>1. row.status = "CAPTURED" => Backed(a)'
      BY <1>2, BackedKept
    <2> QED
      BY <1>1, <2>1 DEF IInv, AttemptOK
  <1>5. \A q \in Process : q # p => Kept(q)
    BY DEF IInv, TaskOK, Kept
  <1>6. \A b \in Attempt : attempt'[b] = attempt[b] \/ AttemptOK(b)'
    BY <1>1, <1>4
  <1> QED
    BY <1>2, <1>3, <1>5, <1>6, Assemble

LEMMA StatusRow ==
    ASSUME NEW a \in Attempt, NEW status \in AttemptStatus,
           attempt \in [Attempt -> AttemptRow]
    PROVE  LET row == [attempt[a] EXCEPT !.status = status] IN
           /\ row \in AttemptRow
           /\ row.status = status
           /\ row.order = attempt[a].order
           /\ row.object = attempt[a].object
           /\ [attempt EXCEPT ![a].status = status] = [attempt EXCEPT ![a] = row]
  BY DEF AttemptRow

(* A made attempt stays made whatever status it takes.                     *)
LEMMA MadeKept ==
    ASSUME IInv, NEW a \in Attempt, NEW status \in AttemptStatus, Made(a),
           attempt' = [attempt EXCEPT ![a].status = status]
    PROVE  \A b \in Attempt : Made(b) => Made(b)'
  <1>1. status # "NONE"
    BY DEF AttemptStatus
  <1>2. \A b \in Attempt : attempt'[b].order = attempt[b].order
    BY DEF IInv, Types, AttemptRow
  <1>3. \A b \in Attempt : b # a => attempt'[b].status = attempt[b].status
    BY DEF IInv, Types, AttemptRow
  <1>4. attempt'[a].status = status
    BY DEF IInv, Types, AttemptRow
  <1> QED
    BY <1>1, <1>2, <1>3, <1>4 DEF Made

(* A change of status by a handler p that carries on or returns.           *)
LEMMA StatusStep ==
    ASSUME IInv, NEW p \in Process, NEW a \in Attempt, Made(a),
           NEW status \in AttemptStatus,
           attempt' = [attempt EXCEPT ![a].status = status],
           status = "CAPTURED" => Backed(a),
           UNCHANGED <<order, session, txn, invoice>>,
           task' \in [Process -> Task],
           \A q \in Process : q # p => task'[q] = task[q],
           task'[p].pc # "store", TaskOK(task[p])',
           logged \subseteq logged', logged' \subseteq Session, faults' \in 0..MaxFaults
    PROVE  IInv'
  <1> DEFINE row == [attempt[a] EXCEPT !.status = status]
  <1>1. /\ row \in AttemptRow
        /\ row.status = status
        /\ row.order = attempt[a].order
        /\ row.object = attempt[a].object
        /\ attempt' = [attempt EXCEPT ![a] = row]
    BY StatusRow DEF IInv, Types
  <1>2. status # "NONE" /\ attempt[a].order \in Order
    BY DEF AttemptStatus, Made
  <1> HIDE DEF row
  <1> QED
    BY <1>1, <1>2, AttemptStep

LEMMA StatusReturnStep ==
    ASSUME IInv, NEW p \in Process, NEW a \in Attempt, Made(a),
           NEW status \in AttemptStatus,
           attempt' = [attempt EXCEPT ![a].status = status],
           status = "CAPTURED" => Backed(a),
           UNCHANGED <<order, session, txn, invoice>>, Return(p),
           logged \subseteq logged', logged' \subseteq Session, faults' \in 0..MaxFaults
    PROVE  IInv'
  <1>1. /\ task' \in [Process -> Task]
        /\ task'[p].pc = "idle"
        /\ \A q \in Process : q # p => task'[q] = task[q]
    BY ReturnTask DEF IInv, Types
  <1>2. TaskOK(task[p])'
    BY <1>1 DEF TaskOK, Working
  <1> QED
    BY <1>1, <1>2, StatusStep

LEMMA CreateInsertStep ==
    ASSUME IInv, NEW p \in Process, CreateInsert(p)
    PROVE  IInv'
  <1> DEFINE a == task[p].attempt
             row == [status |-> "CREATED", order |-> task[p].order,
                     object |-> NoSession]
  <1>1. a \in Attempt /\ task[p].order \in Order
    BY DEF CreateInsert, IInv, TaskOK
  <1>2. attempt[a].status = "NONE" /\ attempt[a].object = NoSession
    BY <1>1 DEF CreateInsert, IInv, AttemptOK
  <1>3. row \in AttemptRow /\ attempt' = [attempt EXCEPT ![a] = row]
    BY <1>1 DEF CreateInsert, AttemptRow, AttemptStatus
  <1>4. /\ task' \in [Process -> Task]
        /\ task'[p].pc = "provider" /\ task'[p].attempt = a
        /\ \A q \in Process : q # p => task'[q] = task[q]
    BY GotoTask DEF CreateInsert, IInv, Types, PC
  <1>5. attempt'[a].status = "CREATED" /\ attempt'[a].order = task[p].order
    BY <1>1, <1>3 DEF IInv, Types
  <1>6. TaskOK(task[p])'
    BY <1>1, <1>4, <1>5 DEF TaskOK, Working, Made
  <1>7. /\ row.status # "NONE" /\ row.status # "CAPTURED"
        /\ row.order \in Order /\ row.object = attempt[a].object
        /\ ~Made(a)
    BY <1>1, <1>2 DEF Made
  <1>8. UNCHANGED <<order, session, txn, invoice>>
    BY DEF CreateInsert, moneyVars
  <1>9. logged \subseteq logged' /\ logged' \subseteq Session /\ faults' \in 0..MaxFaults
    BY DEF CreateInsert, IInv, Types
  <1> HIDE DEF a, row
  <1> QED
    BY <1>1, <1>3, <1>4, <1>6, <1>7, <1>8, <1>9, AttemptStep

LEMMA CreateFailsStep ==
    ASSUME IInv, NEW p \in Process, CreateFails(p)
    PROVE  IInv'
  <1> DEFINE a == task[p].attempt
  <1>1. Made(a) /\ a \in Attempt
    BY DEF CreateFails, IInv, TaskOK, Made
  <1>2. UNCHANGED <<order, session, txn, invoice, logged>> /\ Return(p)
    BY DEF CreateFails, moneyVars
  <1>3. logged \subseteq logged' /\ logged' \subseteq Session /\ faults' \in 0..MaxFaults
    BY <1>2, FaultCount DEF CreateFails, IInv, Types
  <1>4. CASE attempt' = [attempt EXCEPT ![a].status = "FAILED"]
    <2>1. "FAILED" \in AttemptStatus
      BY DEF AttemptStatus
    <2> QED
      BY <1>1, <1>2, <1>3, <1>4, <2>1, StatusReturnStep
  <1>5. CASE attempt' = attempt
    BY <1>2, <1>3, <1>5, ReturnStep
  <1>6. \/ attempt' = [attempt EXCEPT ![a].status = "FAILED"]
        \/ attempt' = [attempt EXCEPT ![a].status = attempt[a].status]
    BY DEF CreateFails
  <1>7. [attempt EXCEPT ![a].status = attempt[a].status] = attempt
    BY <1>1 DEF IInv, Types, AttemptRow
  <1> QED
    BY <1>4, <1>5, <1>6, <1>7

LEMMA TransitionStepStep ==
    ASSUME IInv, NEW p \in Process, TransitionStep(p)
    PROVE  IInv'
  <1> DEFINE a == task[p].attempt
             to == Target(task[p])
  <1>1. task[p].pc = "transition" /\ task[p].pc \in Working
    BY DEF TransitionStep, Working
  <1>2. Made(a) /\ a \in Attempt
    BY <1>1, WorkingTask DEF Made
  <1>3. to \in AttemptStatus
    BY DEF Target, AttemptStatus
  <1>4. to = "CAPTURED" => Backed(a)
    <2>1. to = "CAPTURED" => task[p].captured
      BY DEF Target
    <2> QED
      BY <1>1, <2>1, WorkingTask DEF IInv, TaskOK, Backed, Taken
  <1>5. UNCHANGED <<order, session, txn, invoice, logged, faults>>
    BY DEF TransitionStep, moneyVars
  <1>6. logged \subseteq logged' /\ logged' \subseteq Session /\ faults' \in 0..MaxFaults
    BY <1>5 DEF IInv, Types
  <1>7. CASE UNCHANGED attempt /\ Return(p)
    BY <1>5, <1>6, <1>7, ReturnStep
  <1>8. CASE attempt' = [attempt EXCEPT ![a].status = to] /\ Return(p)
    <2> HIDE DEF a, to
    <2> QED
      BY <1>2, <1>3, <1>4, <1>5, <1>6, <1>8, StatusReturnStep
  <1>9. CASE attempt' = [attempt EXCEPT ![a].status = to] /\ Goto(p, "readOrder")
    <2> HIDE DEF a, to
    <2>1. \A b \in Attempt : Made(b) => Made(b)'
      BY <1>2, <1>3, <1>9, MadeKept
    <2>2. /\ task' \in [Process -> Task]
          /\ task'[p].pc # "store"
          /\ TaskOK(task[p])'
          /\ \A q \in Process : q # p => task'[q] = task[q]
      BY <1>1, <1>5, <1>9, <2>1, CarryOn
    <2> QED
      BY <1>2, <1>3, <1>4, <1>5, <1>6, <1>9, <2>2, StatusStep
  <1> QED
    BY <1>7, <1>8, <1>9 DEF TransitionStep

LEMMA HookReadStep ==
    ASSUME IInv, NEW p \in Process, HookRead(p)
    PROVE  IInv'
  <1> DEFINE a == task[p].attempt
  <1>1. task[p].pc = "hookRead" /\ task[p].pc \in Working
    BY DEF HookRead, Working
  <1>2. /\ Made(a) /\ a \in Attempt /\ task[p].session \in Session
        /\ Announced(task[p].session) /\ a \in Stripe
        /\ session[task[p].session].attempt = a
    BY <1>1, WorkingTask DEF IInv, TaskOK, Made
  <1>3. UNCHANGED <<order, session, txn, invoice, logged, faults>>
    BY DEF HookRead, moneyVars
  <1>4. logged \subseteq logged' /\ logged' \subseteq Session /\ faults' \in 0..MaxFaults
    BY <1>3 DEF IInv, Types
  <1>5. CASE attempt' = [attempt EXCEPT ![a].status = "CAPTURED"] /\ Return(p)
    <2>1. "CAPTURED" \in AttemptStatus /\ Backed(a)
      BY <1>2 DEF AttemptStatus, Backed
    <2> HIDE DEF a
    <2> QED
      BY <1>2, <1>3, <1>4, <1>5, <2>1, StatusReturnStep
  <1>6. CASE Goto(p, "hookCommit") /\ UNCHANGED attempt
    <2>1. /\ task' \in [Process -> Task]
          /\ task'[p].pc = "hookCommit"
          /\ task'[p].attempt = a
          /\ task'[p].session = task[p].session
          /\ \A q \in Process : q # p => task'[q] = task[q]
      BY <1>6, GotoTask DEF IInv, Types, PC
    <2>2. Announced(task[p].session)'
      BY <1>2, <1>3, <2>1 DEF Announced
    <2>3. /\ Made(task[p].attempt)' /\ session'[task[p].session].state # "unused"
          /\ session'[task[p].session].attempt = a
      BY <1>2, <1>3, <1>6, <2>1 DEF Made, Announced, Done
    <2>4. TaskOK(task[p])'
      BY <1>2, <2>1, <2>2, <2>3 DEF TaskOK, Working, Made
    <2> QED
      BY <1>3, <1>4, <1>6, <2>1, <2>4, QuietStep
  <1> QED
    BY <1>5, <1>6 DEF HookRead

-----------------------------------------------------------------------------
(* Steps that change a session.                                            *)

LEMMA SessionRowFields ==
    ASSUME NEW s \in Session, session \in [Session -> SessionRow],
           NEW state \in {"created", "open", "approved", "pending", "paid", "denied"},
           session' = [session EXCEPT ![s].state = state]
    PROVE  /\ session' \in [Session -> SessionRow]
           /\ session'[s].state = state
           /\ session'[s].attempt = session[s].attempt
           /\ \A r \in Session : r # s => session'[r] = session[r]
  BY DEF SessionRow

(* A session in use moves on; p is the handler that moves it, if one does. *)
LEMMA SessionStep ==
    ASSUME IInv, NEW p, NEW s \in Session,
           NEW state \in {"open", "approved", "pending", "paid", "denied"},
           session' = [session EXCEPT ![s].state = state],
           session[s].state \in {"open", "approved", "pending"},
           session[s].state = "pending" => state \in Done,
           state = "approved" => session[s].attempt \notin Stripe,
           UNCHANGED <<order, attempt, txn, invoice, logged>>,
           task' \in [Process -> Task], faults' \in 0..MaxFaults,
           \A q \in Process : q # p => task'[q] = task[q],
           p \in Process => \/ task'[p] = task[p]
                            \/ TaskOK(task[p])' /\ task'[p].pc # "store"
    PROVE  IInv'
  <1>1. /\ session' \in [Session -> SessionRow]
        /\ session'[s].state = state
        /\ session'[s].attempt = session[s].attempt
        /\ \A r \in Session : r # s => session'[r] = session[r]
    BY SessionRowFields DEF IInv, Types
  <1>2. Stable
    BY <1>1 DEF Stable, Made, Done
  <1>3. RowInv' /\ Types' /\ OneInvoicedPayment'
    BY <1>1 DEF IInv, RowInv, Types, OneInvoicedPayment
  <1>4. SessionOK(s)'
    BY <1>1 DEF IInv, SessionOK, Made
  <1>5. ASSUME NEW q \in Process, task'[q] = task[q] PROVE Kept(q)
    <2>1. task[q].pc = "store" =>
             task[q].session \in Session /\ session[task[q].session].state = "created"
      BY DEF IInv, TaskOK
    <2> QED
      BY <1>1, <1>5, <2>1 DEF Kept
  <1>6. \A r \in Session : session'[r] = session[r] \/ SessionOK(r)'
    BY <1>1, <1>4
  <1> QED
    BY <1>2, <1>3, <1>5, <1>6, Assemble

LEMMA CustomerPaysStep ==
    ASSUME IInv, NEW s \in Session, CustomerPays(s)
    PROVE  IInv'
  <1>1. PICK state \in {"approved", "pending", "paid"} :
           /\ session' = [session EXCEPT ![s].state = state]
           /\ state = "approved" => session[s].attempt \notin Stripe
    BY DEF CustomerPays
  <1>2. /\ session[s].state = "open"
        /\ UNCHANGED <<order, attempt, txn, invoice, logged, task, faults>>
    BY DEF CustomerPays, moneyVars
  <1> QED
    BY <1>1, <1>2, SessionStep DEF IInv, Types

LEMMA ProviderDecidesStep ==
    ASSUME IInv, NEW s \in Session, ProviderDecides(s)
    PROVE  IInv'
  <1>1. PICK state \in {"paid", "denied"} : session' = [session EXCEPT ![s].state = state]
    BY DEF ProviderDecides
  <1>2. /\ session[s].state = "pending"
        /\ UNCHANGED <<order, attempt, txn, invoice, logged, task, faults>>
    BY DEF ProviderDecides, moneyVars
  <1> QED
    BY <1>1, <1>2, SessionStep DEF IInv, Types, Done

(* PayPal's answer to p moves its session to state; p stops or finalizes.  *)
LEMMA PaypalAnswer ==
    ASSUME IInv, NEW p \in Process, task[p].pc \in {"capture", "reconcile"},
           session[task[p].session].state = "approved",
           NEW state \in {"approved", "pending", "paid"},
           session' = [session EXCEPT ![task[p].session].state = state],
           NEW captured \in BOOLEAN, captured => state = "paid",
           Return(p) \/ Finalize(p, captured),
           UNCHANGED <<order, attempt, txn, invoice, logged>>,
           faults' \in 0..MaxFaults
    PROVE  IInv'
  <1> DEFINE s == task[p].session
  <1>1. /\ Made(task[p].attempt) /\ s \in Session
        /\ session[s].state # "unused" /\ session[s].attempt = task[p].attempt
    BY WorkingTask DEF Working
  <1>2. session[s].attempt \notin Stripe
    BY <1>1 DEF IInv, SessionOK
  <1>3. session'[s].state = state /\ session'[s].attempt = session[s].attempt
    BY <1>1, SessionRowFields DEF IInv, Types
  <1>4. /\ task' \in [Process -> Task]
        /\ \A q \in Process : q # p => task'[q] = task[q]
        /\ \/ task'[p].pc = "idle"
           \/ /\ task'[p].pc = "finalize"
              /\ task'[p].attempt = task[p].attempt
              /\ task'[p].session = s
              /\ task'[p].captured = captured
    BY ReturnTask, FinalizeTask DEF IInv, Types
  <1>5. TaskOK(task[p])'
    BY <1>1, <1>3, <1>4 DEF TaskOK, Working, Made
  <1>6. task'[p].pc # "store"
    BY <1>4
  <1> HIDE DEF s
  <1>7. session' = [session EXCEPT ![s].state = state]
    BY DEF s
  <1>8. session[s].state = "approved"
    BY DEF s
  <1> QED
    BY <1>1, <1>2, <1>4, <1>5, <1>6, <1>7, <1>8, SessionStep

LEMMA AskPaypalStep ==
    ASSUME IInv, NEW p \in Process, AskPaypal(p)
    PROVE  IInv'
  <1> DEFINE s == task[p].session
  <1>1. UNCHANGED <<order, attempt, txn, invoice, logged, faults>>
    BY DEF AskPaypal, moneyVars
  <1>2. /\ task[p].pc \in {"capture", "reconcile"}
        /\ faults' \in 0..MaxFaults /\ logged \subseteq logged' /\ logged' \subseteq Session
    BY DEF AskPaypal, IInv, Types
  <1>3. CASE /\ session[s].state = "approved"
             /\ session' = [session EXCEPT ![s].state = "paid"]
             /\ Finalize(p, TRUE)
    BY <1>1, <1>2, <1>3, PaypalAnswer
  <1>4. CASE /\ session[s].state = "approved"
             /\ \E next \in {"approved", "pending"} :
                   session' = [session EXCEPT ![s].state = next]
             /\ Finalize(p, FALSE) \/ Return(p)
    BY <1>1, <1>2, <1>4, PaypalAnswer
  <1>5. CASE UNCHANGED session /\ Return(p)
    BY <1>1, <1>2, <1>5, ReturnStep
  <1>6. CASE /\ UNCHANGED session /\ session[s].state = "paid"
             /\ Finalize(p, TRUE)
    <2>1. task[p].pc \in Working
      BY <1>2 DEF Working
    <2>2. /\ task' \in [Process -> Task]
          /\ task'[p].pc = "finalize"
          /\ task'[p].attempt = task[p].attempt
          /\ task'[p].session = s
          /\ \A q \in Process : q # p => task'[q] = task[q]
      BY <1>6, FinalizeTask DEF IInv, Types
    <2>3. TaskOK(task[p])'
      BY <1>1, <1>6, <2>1, <2>2, WorkingTask DEF TaskOK, Working, Made
    <2> QED
      BY <1>1, <1>2, <1>6, <2>2, <2>3, QuietStep
  <1> QED
    BY <1>3, <1>4, <1>5, <1>6 DEF AskPaypal

LEMMA AskLostStep ==
    ASSUME IInv, NEW p \in Process, AskLost(p)
    PROVE  IInv'
  <1> DEFINE s == task[p].session
  <1>1. /\ UNCHANGED <<order, attempt, txn, invoice, logged>> /\ Return(p)
        /\ task[p].pc \in {"capture", "reconcile"}
    BY DEF AskLost, moneyVars
  <1>2. faults' \in 0..MaxFaults /\ logged \subseteq logged' /\ logged' \subseteq Session
    BY FaultCount DEF AskLost, IInv, Types
  <1>3. CASE UNCHANGED session
    BY <1>1, <1>2, <1>3, ReturnStep
  <1>4. CASE /\ session[s].state = "approved"
             /\ session' = [session EXCEPT ![s].state = "paid"]
    BY <1>1, <1>2, <1>4, PaypalAnswer
  <1> QED
    BY <1>3, <1>4 DEF AskLost

LEMMA CreateSessionStep ==
    ASSUME IInv, NEW p \in Process, CreateSession(p)
    PROVE  IInv'
  <1> DEFINE a == task[p].attempt
  <1>1. PICK s \in Session :
           /\ session[s].state = "unused"
           /\ session' = [session EXCEPT ![s] = [state |-> "created", attempt |-> a]]
           /\ task' = [task EXCEPT ![p].pc = "store", ![p].session = s]
    BY DEF CreateSession
  <1> DEFINE t == [task[p] EXCEPT !.pc = "store", !.session = s]
  <1>2. Made(a) /\ a \in Attempt
    BY DEF CreateSession, IInv, TaskOK, Made
  <1>3. /\ t \in Task /\ t.pc = "store" /\ t.session = s /\ t.attempt = a
        /\ task' = [task EXCEPT ![p] = t]
    BY <1>1 DEF IInv, Types, Task
  <1> HIDE DEF t
  <1>4. /\ task' \in [Process -> Task] /\ task'[p] = t
        /\ \A q \in Process : q # p => task'[q] = task[q]
    BY <1>3 DEF IInv, Types
  <1>5. /\ session' \in [Session -> SessionRow]
        /\ session'[s].state = "created" /\ session'[s].attempt = a
        /\ \A r \in Session : r # s => session'[r] = session[r]
    <2>1. [state |-> "created", attempt |-> a] \in SessionRow
      BY <1>2 DEF SessionRow
    <2> QED
      BY <1>1, <2>1 DEF IInv, Types
  <1>6. UNCHANGED <<order, attempt, txn, invoice, logged, faults>>
    BY DEF CreateSession, moneyVars
  <1>7. Stable
    BY <1>1, <1>5, <1>6 DEF Stable, Made, Done
  <1>8. RowInv' /\ Types' /\ OneInvoicedPayment'
    BY <1>4, <1>5, <1>6 DEF IInv, RowInv, Types, OneInvoicedPayment
  <1>9. SessionOK(s)'
    BY <1>2, <1>5, <1>6 DEF SessionOK, Made
  <1>10. TaskOK(task[p])'
    BY <1>2, <1>3, <1>4, <1>5, <1>6 DEF TaskOK, Working, Made
  <1>11. \A q \in Process : q # p => Kept(q)
    BY <1>1, <1>4, <1>5 DEF Kept, IInv, TaskOK
  <1>12. session[task'[p].session].state = "unused"
    BY <1>1, <1>3, <1>4
  <1>13. \A r \in Session : session'[r] = session[r] \/ SessionOK(r)'
    BY <1>5, <1>9
  <1> QED
    BY <1>6, <1>7, <1>8, <1>10, <1>11, <1>12, <1>13, Assemble

(* StoresApart: nobody else is about to store the session.                 *)
LEMMA CreateStoreStep ==
    ASSUME IInv, NEW p \in Process, CreateStore(p)
    PROVE  IInv'
  <1>0. PICK a \in Attempt, s \in Session :
           /\ a = task[p].attempt /\ s = task[p].session
           /\ task[p].pc = "store" /\ Made(a)
           /\ session[s].state = "created" /\ session[s].attempt = a
    BY DEF CreateStore, IInv, TaskOK, Made
  <1>1. /\ task[p].pc = "store" /\ Made(a)
        /\ session[s].state = "created" /\ session[s].attempt = a
        /\ attempt' = [attempt EXCEPT ![a].object = s]
        /\ session' = [session EXCEPT ![s].state = "open"]
    BY <1>0 DEF CreateStore
  <1> DEFINE row == [attempt[a] EXCEPT !.object = s]
  <1>2. /\ task' \in [Process -> Task] /\ task'[p].pc = "idle"
        /\ \A q \in Process : q # p => task'[q] = task[q]
    BY ReturnTask DEF CreateStore, IInv, Types
  <1>3. /\ session' \in [Session -> SessionRow]
        /\ session'[s].state = "open" /\ session'[s].attempt = a
        /\ \A r \in Session : r # s => session'[r] = session[r]
    BY <1>1, SessionRowFields DEF IInv, Types
  <1>4. /\ row \in AttemptRow /\ row.status = attempt[a].status
        /\ row.order = attempt[a].order /\ row.object = s
        /\ attempt' = [attempt EXCEPT ![a] = row]
    BY <1>1 DEF IInv, Types, AttemptRow
  <1>5. UNCHANGED <<order, txn, invoice, logged, faults>>
    BY DEF CreateStore, moneyVars
  <1> HIDE DEF row
  <1>6. /\ attempt' \in [Attempt -> AttemptRow] /\ attempt'[a] = row
        /\ \A b \in Attempt : b # a => attempt'[b] = attempt[b]
    BY <1>1, <1>4 DEF IInv, Types
  <1>7. Stable
    BY <1>1, <1>3, <1>4, <1>5, <1>6 DEF Stable, Made, Done
  <1>8. RowInv' /\ Types' /\ OneInvoicedPayment'
    BY <1>2, <1>3, <1>5, <1>6 DEF IInv, RowInv, Types, OneInvoicedPayment
  <1>9. AttemptOK(a)'
    <2>1. attempt[a].status = "CAPTURED" =>
             Backed(a)'
      BY <1>7, BackedKept DEF IInv, AttemptOK
    <2> QED
      BY <1>1, <1>3, <1>4, <1>6, <2>1 DEF AttemptOK, Made
  <1>10. SessionOK(s)'
    BY <1>1, <1>3, <1>4, <1>6 DEF SessionOK, Made
  <1>11. TaskOK(task[p])'
    BY <1>2 DEF TaskOK, Working
  <1>12. \A q \in Process : q # p => Kept(q)
    <2> TAKE q \in Process
    <2> HAVE q # p
    <2>1. task[q].pc = "store" =>
             /\ task[q].session \in Session /\ task[q].session # s
             /\ session[task[q].session].state = "created"
      BY <1>0 DEF IInv, StoresApart, TaskOK
    <2> QED
      BY <1>2, <1>3, <2>1 DEF Kept
  <1>13. /\ \A b \in Attempt : attempt'[b] = attempt[b] \/ AttemptOK(b)'
         /\ \A r \in Session : session'[r] = session[r] \/ SessionOK(r)'
    BY <1>3, <1>6, <1>9, <1>10
  <1> QED
    BY <1>2, <1>5, <1>7, <1>8, <1>11, <1>12, <1>13, Assemble

-----------------------------------------------------------------------------
(* Steps that write an order.                                              *)

LEMMA PayColumn ==
    ASSUME RowInv, NEW o \in Order
    PROVE  /\ Place(o) \/ Release(o) \/ MarkFailed(o) =>
                 \A x \in Order : order'[x].pay = "PAID" => order[x].pay = "PAID"
           /\ MarkPaid(o) =>
                 \A x \in Order : x # o => order'[x] = order[x]
  <1>1. order[o] \in Row
    BY DEF RowInv
  <1>2. NewRow.pay # "PAID"
    BY DEF NewRow
  <1>3. Released(order[o]).pay = order[o].pay
    BY <1>1 DEF Released, Row
  <1>4. FailedRow(order[o]).pay = "FAILED"
    <2>1. WithStatus(order[o], "FAILED") \in Row
      BY <1>1, WithStatusRow DEF OrderStatus
    <2> QED
      BY <2>1 DEF FailedRow, Row
  <1> QED
    BY <1>1, <1>2, <1>3, <1>4 DEF RowInv, Place, Release, MarkFailed, MarkPaid

(* An order write that touches neither attempts nor sessions, by handler p *)
(* or by nobody.                                                           *)
LEMMA OrderStep ==
    ASSUME IInv, NEW p, Next,
           UNCHANGED <<attempt, session, txn, invoice, logged, faults>>,
           \A x \in Order : order'[x].pay = "PAID" => order[x].pay = "PAID",
           UNCHANGED task \/ (p \in Process /\ Return(p))
    PROVE  IInv'
  <1>1. Stable
    BY DEF Stable, Made
  <1>2. /\ task' \in [Process -> Task]
        /\ \A q \in Process : q # p => task'[q] = task[q]
        /\ UNCHANGED task \/ task'[p].pc = "idle"
    BY ReturnTask DEF IInv, Types
  <1>3. RowInv' /\ Types' /\ OneInvoicedPayment'
    BY <1>2, LifecycleStep DEF IInv, Types, OneInvoicedPayment
  <1>4. ASSUME NEW q \in Process, task'[q] = task[q] PROVE Kept(q)
    BY <1>4 DEF IInv, TaskOK, Kept
  <1>5. task'[p].pc = "idle" => TaskOK(task[p])'
    BY DEF TaskOK, Working
  <1>6. p \in Process => Kept(p) \/ (TaskOK(task[p])' /\ task'[p].pc # "store")
    BY <1>2, <1>4, <1>5
  <1> QED
    BY <1>1, <1>2, <1>3, <1>4, <1>6, Assemble

LEMMA PaidWithRow ==
    ASSUME RowInv, NEW o \in Order, MarkPaid(o), NEW row, row.order = o,
           txn' = txn \cup {row}
    PROVE  \A x \in Order : order'[x].pay = "PAID"
              => order[x].pay = "PAID" \/ \E t \in txn' : t.order = x
  <1> TAKE x \in Order
  <1>1. CASE x = o
    <2>1. row \in txn' /\ row.order = x
      BY <1>1
    <2> QED
      BY <2>1
  <1>2. CASE x # o
    BY <1>2, PayColumn
  <1> QED
    BY <1>1, <1>2

(* The order a handler is about to pay or fail is one of the shop's.       *)
LEMMA AttemptOrder ==
    ASSUME IInv, NEW p \in Process, task[p].pc \in {"commit", "hookCommit"}
    PROVE  attempt[task[p].attempt].order \in Order
  BY WorkingTask DEF Working, Made

LEMMA CommitFailedStep ==
    ASSUME IInv, NEW p \in Process, CommitFailed(p)
    PROVE  IInv'
  <1> DEFINE o == attempt[task[p].attempt].order
  <1>1. o \in Order /\ MarkFailed(o)
    BY AttemptOrder DEF CommitFailed
  <1>2. Next
    BY <1>1 DEF Next
  <1>3. \A x \in Order : order'[x].pay = "PAID" => order[x].pay = "PAID"
    <2> HIDE DEF o
    <2> QED
      BY <1>1, PayColumn DEF IInv
  <1> QED
    BY <1>2, <1>3, OrderStep DEF CommitFailed, moneyVars

(* The invoice and the payment are new together.                           *)
LEMMA CommitCapturedStep ==
    ASSUME IInv, NEW p \in Process, CommitCaptured(p)
    PROVE  IInv'
  <1>1. PICK o \in Order, s \in Session :
           o = attempt[task[p].attempt].order /\ s = task[p].session
    <2>1. task[p].pc \in Working
      BY DEF CommitCaptured, Working
    <2> QED
      BY <2>1, AttemptOrder, WorkingTask DEF CommitCaptured
  <1> DEFINE row == [order |-> o, session |-> s, id |-> "payment"]
  <1>2. UNCHANGED <<attempt, session, logged, faults>> /\ Return(p)
    BY DEF CommitCaptured
  <1>3. logged \subseteq logged' /\ logged' \subseteq Session /\ faults' \in 0..MaxFaults
    BY <1>2 DEF IInv, Types
  <1>4. CASE UNCHANGED <<order, txn, invoice>>
    BY <1>2, <1>3, <1>4, ReturnStep
  <1>5. CASE /\ o \notin invoice /\ MarkPaid(o)
             /\ txn' = txn \cup {row} /\ invoice' = invoice \cup {o}
    <2>1. Next
      BY <1>5 DEF Next
    <2>2. RowInv'
      BY <2>1, LifecycleStep DEF IInv
    <2>3. /\ task' \in [Process -> Task] /\ task'[p].pc = "idle"
          /\ \A q \in Process : q # p => task'[q] = task[q]
      BY <1>2, ReturnTask DEF IInv, Types
    <2>4. Types'
      BY <1>2, <1>5, <2>3 DEF IInv, Types, Transaction
    <2>5. Stable
      BY <1>2 DEF Stable, Made
    <2>6. TransactionOK(row)'
      <3>1. /\ Made(task[p].attempt)
            /\ Taken(s) /\ session[s].attempt = task[p].attempt
        BY <1>1, WorkingTask DEF CommitCaptured, IInv, TaskOK, Working, Taken
      <3> QED
        BY <1>1, <1>2, <3>1 DEF TransactionOK, OrderOfSession, Taken
    <2>7. OneInvoicedPayment'
      <3> DEFINE Paid(x) == {t \in txn : t.order = x /\ t.id = "payment"}
                 PaidNext(x) == {t \in txn' : t.order = x /\ t.id = "payment"}
      <3>1. Paid(o) = {}
        BY <1>5 DEF IInv, OneInvoicedPayment
      <3>2. PaidNext(o) = {row}
        BY <1>5, <3>1
      <3>3. ASSUME NEW x \in Order, x # o PROVE PaidNext(x) = Paid(x)
        BY <1>5, <3>3
      <3>4. ASSUME NEW x \in Order
            PROVE  /\ x \in invoice' <=> PaidNext(x) # {}
                   /\ \A t, u \in PaidNext(x) : t = u
        <4>1. CASE x = o
          BY <1>5, <3>2, <4>1
        <4>2. CASE x # o
          <5>1. /\ x \in invoice <=> Paid(x) # {}
                /\ \A t, u \in Paid(x) : t = u
            BY DEF IInv, OneInvoicedPayment
          <5> QED
            BY <1>5, <3>3, <4>2, <5>1
        <4> QED
          BY <4>1, <4>2
      <3> QED
        BY <3>4 DEF OneInvoicedPayment
    <2>8. \A q \in Process : q # p => Kept(q)
      BY <1>2, <2>3 DEF IInv, TaskOK, Kept
    <2>9. TaskOK(task[p])' /\ task'[p].pc # "store"
      BY <2>3 DEF TaskOK, Working
    <2>10. \A x \in Order : order'[x].pay = "PAID"
              => order[x].pay = "PAID" \/ \E t \in txn' : t.order = x
      BY <1>5, PaidWithRow DEF IInv
    <2>11. \A t \in txn' : t \in txn \/ TransactionOK(t)'
      BY <1>5, <2>6
    <2> QED
      BY <1>2, <1>5, <2>2, <2>4, <2>5, <2>7, <2>8, <2>9, <2>10, <2>11, Assemble
  <1> QED
    BY <1>1, <1>4, <1>5 DEF CommitCaptured, moneyVars

LEMMA HookCommitStep ==
    ASSUME IInv, NEW p \in Process, HookCommit(p)
    PROVE  IInv'
  <1>1. PICK o \in Order, s \in Session, a \in Attempt :
           /\ a = task[p].attempt /\ o = attempt[a].order /\ s = task[p].session
           /\ Made(a) /\ Announced(s) /\ session[s].attempt = a
    <2>1. task[p].pc \in Working /\ task[p].pc = "hookCommit"
      BY DEF HookCommit, Working
    <2>2. Announced(task[p].session)
      BY <2>1 DEF IInv, TaskOK
    <2> QED
      BY <2>1, <2>2, WorkingTask DEF Made
  <1> DEFINE row == [order |-> o, session |-> s, id |-> "session"]
             new == [attempt[a] EXCEPT !.status = "CAPTURED"]
  <1>2. /\ MarkPaid(o) /\ txn' = txn \cup {row} /\ Return(p)
        /\ UNCHANGED <<session, invoice, logged, faults>>
    BY <1>1 DEF HookCommit
  <1>3. /\ new \in AttemptRow /\ new.status = "CAPTURED"
        /\ new.order = attempt[a].order /\ new.object = attempt[a].object
        /\ attempt' = [attempt EXCEPT ![a] = new]
    <2>1. "CAPTURED" \in AttemptStatus
      BY DEF AttemptStatus
    <2> QED
      BY <1>1, <2>1, StatusRow DEF HookCommit, IInv, Types
  <1> HIDE DEF new
  <1>4. /\ attempt' \in [Attempt -> AttemptRow] /\ attempt'[a] = new
        /\ \A b \in Attempt : b # a => attempt'[b] = attempt[b]
    BY <1>3 DEF IInv, Types
  <1>5. RowInv'
    <2>1. Next
      BY <1>2 DEF Next
    <2> QED
      BY <2>1, LifecycleStep DEF IInv
  <1>6. /\ task' \in [Process -> Task] /\ task'[p].pc = "idle"
        /\ \A q \in Process : q # p => task'[q] = task[q]
    BY <1>2, ReturnTask DEF IInv, Types
  <1>7. Types'
    BY <1>2, <1>4, <1>6 DEF IInv, Types, Transaction
  <1>8. Stable
    BY <1>2, <1>3, <1>4 DEF Stable, Made
  <1>9. TransactionOK(row)'
    BY <1>1, <1>2, <1>3, <1>4 DEF TransactionOK, OrderOfSession, Announced
  <1>10. AttemptOK(a)'
    <2>1. Backed(a)'
      BY <1>1, <1>8, BackedKept DEF Backed
    <2> QED
      BY <1>1, <1>2, <1>3, <1>4, <2>1 DEF IInv, AttemptOK
  <1>11. OneInvoicedPayment'
    <2> DEFINE Paid(x) == {t \in txn : t.order = x /\ t.id = "payment"}
               PaidNext(x) == {t \in txn' : t.order = x /\ t.id = "payment"}
    <2>1. ASSUME NEW x \in Order PROVE PaidNext(x) = Paid(x)
      BY <1>2
    <2> QED
      BY <1>2, <2>1 DEF IInv, OneInvoicedPayment
  <1>12. \A q \in Process : q # p => Kept(q)
    BY <1>2, <1>6 DEF IInv, TaskOK, Kept
  <1>13. TaskOK(task[p])' /\ task'[p].pc # "store"
    BY <1>6 DEF TaskOK, Working
  <1>14. \A x \in Order : order'[x].pay = "PAID"
            => order[x].pay = "PAID" \/ \E t \in txn' : t.order = x
    BY <1>2, PaidWithRow DEF IInv
  <1>15. /\ \A t \in txn' : t \in txn \/ TransactionOK(t)'
         /\ \A b \in Attempt : attempt'[b] = attempt[b] \/ AttemptOK(b)'
    BY <1>2, <1>4, <1>9, <1>10
  <1> QED
    BY <1>2, <1>5, <1>7, <1>8, <1>11, <1>12, <1>13, <1>14, <1>15, Assemble

-----------------------------------------------------------------------------
(* The invariant and what follows from it.                                 *)

LEMMA InitInv == PaymentsInit => IInv
  <1> SUFFICES ASSUME PaymentsInit PROVE IInv
    OBVIOUS
  <1>1. RowInv
    BY NewRows DEF PaymentsInit, Init, RowInv
  <1>2. Types
    BY FaultAssumption, IdleTask
       DEF PaymentsInit, Types, NoAttemptRow, AttemptRow, SessionRow
  <1>3. \A p \in Process : TaskOK(task[p])
    BY IdleTask DEF PaymentsInit, TaskOK, Working
  <1>4. /\ \A a \in Attempt : AttemptOK(a)
        /\ \A s \in Session : SessionOK(s)
    BY DEF PaymentsInit, AttemptOK, SessionOK, NoAttemptRow
  <1>5. StoresApart
    BY IdleTask DEF PaymentsInit, StoresApart
  <1>6. OneInvoicedPayment
    BY DEF PaymentsInit, OneInvoicedPayment
  <1>7. \A o \in Order : order[o].pay # "PAID"
    BY DEF PaymentsInit, Init, NoRow
  <1> QED
    BY <1>1, <1>2, <1>3, <1>4, <1>5, <1>6, <1>7 DEF PaymentsInit, IInv

LEMMA StutterStep ==
    ASSUME IInv, UNCHANGED vars
    PROVE  IInv'
  <1>1. UNCHANGED <<order, attempt, session, txn, invoice, logged, task, faults>>
    BY DEF vars
  <1>2. Stable
    BY <1>1 DEF Stable, Made
  <1>3. RowInv' /\ Types' /\ OneInvoicedPayment'
    BY <1>1 DEF IInv, RowInv, Types, OneInvoicedPayment
  <1>4. \A q \in Process : Kept(q)
    BY <1>1 DEF IInv, TaskOK, Kept
  <1> QED
    BY <1>1, <1>2, <1>3, <1>4, Assemble

LEMMA PaymentsStep == IInv /\ [PaymentsNext]_vars => IInv'
  <1> SUFFICES ASSUME IInv, [PaymentsNext]_vars PROVE IInv'
    OBVIOUS
  <1>1. ASSUME NEW o \in Order, Checkout(o) \/ ReleaseStock(o) PROVE IInv'
    <2>1. /\ Place(o) \/ Release(o)
          /\ UNCHANGED <<attempt, session, txn, invoice, logged, task, faults>>
      BY <1>1 DEF Checkout, ReleaseStock, moneyVars
    <2>2. Next
      BY <2>1 DEF Next
    <2>3. \A x \in Order : order'[x].pay = "PAID" => order[x].pay = "PAID"
      BY <2>1, PayColumn DEF IInv
    <2> QED
      BY <2>1, <2>2, <2>3, OrderStep
  <1>2. ASSUME NEW s \in Session, CustomerPays(s) \/ ProviderDecides(s) PROVE IInv'
    BY <1>2, CustomerPaysStep, ProviderDecidesStep
  <1>3. ASSUME NEW p \in Process, NEW o \in Order, NEW a \in Attempt,
               CreateBegin(p, o, a)
        PROVE  IInv'
    BY <1>3, CreateBeginStep
  <1>4. ASSUME NEW p \in Process, NEW a \in Attempt,
               CaptureBegin(p, a) \/ ReconcileBegin(p, a)
        PROVE  IInv'
    BY <1>4, AskBeginStep
  <1>5. ASSUME NEW p \in Process, NEW s \in Session, HookLog(p, s) PROVE IInv'
    BY <1>5, HookLogStep
  <1>6. ASSUME NEW p \in Process, HandlerStep(p) PROVE IInv'
    <2>1. CASE TransitionConflict(p)
      BY <2>1, ReturnStep DEF TransitionConflict, moneyVars, IInv, Types
    <2> QED
      BY <1>6, <2>1, CreateInsertStep, CreateRacedStep, CreateSessionStep,
         CreateStoreStep, AskStripeStep, AskPaypalStep, FinalizeReadStep,
         TransitionStepStep, ReadOrderStep, CommitCapturedStep, CommitFailedStep,
         HookFindStep, HookReadStep, HookCommitStep DEF HandlerStep
  <1>7. ASSUME NEW p \in Process, FaultStep(p) PROVE IInv'
    <2>1. CASE Crash(p)
      <3>1. faults' \in 0..MaxFaults
        BY <2>1, FaultCount DEF Crash, IInv
      <3> QED
        BY <2>1, <3>1, ReturnStep DEF Crash, moneyVars, IInv, Types
    <2> QED
      BY <1>7, <2>1, CreateFailsStep, AskLostStep DEF FaultStep
  <1>8. CASE UNCHANGED vars
    BY <1>8, StutterStep
  <1> QED
    BY <1>1, <1>2, <1>3, <1>4, <1>5, <1>6, <1>7, <1>8 DEF PaymentsNext

LEMMA InvImplies ==
    IInv => TypeOK /\ PaidIsBacked /\ CapturedIsBacked /\ OneInvoicedPayment
  <1> SUFFICES ASSUME IInv
               PROVE  TypeOK /\ PaidIsBacked /\ CapturedIsBacked
    BY DEF IInv
  <1>1. RowTypeOK
    BY DEF IInv, RowInv, RowTypeOK, Blank
  <1> QED
    BY <1>1 DEF IInv, Types, TypeOK, PaidIsBacked, TransactionOK,
                CapturedIsBacked, AttemptOK

LEMMA PaymentsInvariant == PaymentsSpec => []IInv
  BY InitInv, PaymentsStep, PTL DEF PaymentsSpec

(* For any numbers of attempts, sessions and handlers and any interleaving *)
(* of calls, webhooks, sweeps and faults: rows and copies keep their types;*)
(* an order is paid and an attempt captured only with money taken for it,  *)
(* or, by the Stripe webhook alone, with a completed session announced for *)
(* it; and the capture path records and invoices an order once.            *)
THEOREM PaymentsAreBacked ==
    PaymentsSpec => [](TypeOK /\ PaidIsBacked /\ CapturedIsBacked
                       /\ OneInvoicedPayment)
  BY PaymentsInvariant, InvImplies, PTL

(* A status an attempt was settled with is never replaced, save by the     *)
(* Stripe webhook's CAPTURED: the status machine admits no move, and a     *)
(* handler that writes past it is a Stripe webhook's.                      *)
SettledKept ==
    \A a \in Attempt : attempt[a].status \in Final =>
       \/ attempt'[a].status = attempt[a].status
       \/ Hooked(a) /\ attempt'[a].status = "CAPTURED"

LEMMA NoMoveFromFinal ==
    ASSUME NEW status \in Final
    PROVE  Transitions(status) = {}
  BY DEF Final, Transitions

LEMMA SettledStep == IInv /\ [PaymentsNext]_vars => SettledKept
  <1> SUFFICES ASSUME IInv, [PaymentsNext]_vars PROVE SettledKept
    OBVIOUS
  <1>1. ASSUME UNCHANGED attempt PROVE SettledKept
    BY <1>1 DEF SettledKept
  <1>2. ASSUME NEW b \in Attempt, NEW status,
               attempt' = [attempt EXCEPT ![b].status = status],
               attempt[b].status \in Final =>
                  \/ status = attempt[b].status
                  \/ Hooked(b) /\ status = "CAPTURED"
        PROVE  SettledKept
    BY <1>2 DEF SettledKept, IInv, Types, AttemptRow
  <1>3. ASSUME NEW p \in Process, CreateInsert(p) PROVE SettledKept
    <2>1. task[p].attempt \in Attempt
      BY <1>3 DEF CreateInsert, IInv, TaskOK
    <2> QED
      BY <1>3, <2>1 DEF CreateInsert, SettledKept, Final, IInv, Types
  <1>4. ASSUME NEW p \in Process, CreateFails(p) PROVE SettledKept
    <2>1. task[p].attempt \in Attempt
      BY <1>4 DEF CreateFails, IInv, TaskOK, Made
    <2> QED
      BY <1>2, <1>4, <2>1, NoMoveFromFinal DEF CreateFails, MovesTo
  <1>5. ASSUME NEW p \in Process, CreateStore(p) PROVE SettledKept
    BY <1>5 DEF CreateStore, SettledKept, IInv, Types, AttemptRow
  <1>6. ASSUME NEW p \in Process, TransitionStep(p) PROVE SettledKept
    <2>1. task[p].attempt \in Attempt
      BY <1>6, WorkingTask DEF TransitionStep, Working, Made
    <2> QED
      BY <1>1, <1>2, <1>6, <2>1, NoMoveFromFinal DEF TransitionStep, MovesTo
  <1>7. ASSUME NEW p \in Process, HookRead(p) \/ HookCommit(p) PROVE SettledKept
    <2>1. Hooked(task[p].attempt)
      <3>1. task[p].pc \in {"hookRead", "hookCommit"} /\ task[p].pc \in Working
        BY <1>7 DEF HookRead, HookCommit, Working
      <3> QED
        BY <3>1, WorkingTask DEF IInv, TaskOK, Announced, Hooked
    <2>2. task[p].attempt \in Attempt
      BY <2>1, AttemptAssumption DEF Hooked
    <2> QED
      BY <1>1, <1>2, <1>7, <2>1, <2>2 DEF HookRead, HookCommit
  <1>8. ASSUME NEW p \in Process,
               \/ CreateRaced(p) \/ CreateSession(p) \/ AskStripe(p) \/ AskPaypal(p)
               \/ FinalizeRead(p) \/ TransitionConflict(p) \/ ReadOrder(p)
               \/ CommitCaptured(p) \/ CommitFailed(p) \/ HookFind(p)
        PROVE  UNCHANGED attempt
    BY <1>8 DEF CreateRaced, CreateSession, AskStripe, AskPaypal, FinalizeRead,
                TransitionConflict, ReadOrder, CommitCaptured, CommitFailed, HookFind
  <1>9. ASSUME NEW p \in Process,
               \/ AskLost(p) \/ Crash(p)
               \/ \E o \in Order, a \in Attempt : CreateBegin(p, o, a)
               \/ \E a \in Attempt : CaptureBegin(p, a) \/ ReconcileBegin(p, a)
               \/ \E s \in Session : HookLog(p, s)
        PROVE  UNCHANGED attempt
    BY <1>9 DEF AskLost, Crash, CreateBegin, CaptureBegin, ReconcileBegin, HookLog
  <1>10. ASSUME \/ \E o \in Order : Checkout(o) \/ ReleaseStock(o)
                \/ \E s \in Session : CustomerPays(s) \/ ProviderDecides(s)
                \/ UNCHANGED vars
         PROVE  UNCHANGED attempt
    BY <1>10 DEF Checkout, ReleaseStock, CustomerPays, ProviderDecides, vars
  <1> QED
    BY <1>1, <1>3, <1>4, <1>5, <1>6, <1>7, <1>8, <1>9, <1>10
       DEF PaymentsNext, HandlerStep, FaultStep

(* However calls, webhooks and sweeps cross, a settled attempt stays       *)
(* settled.                                                                *)
THEOREM SettledAttempts == PaymentsSpec => SettledStays
  BY PaymentsInvariant, SettledStep, PTL DEF PaymentsSpec, SettledStays, SettledKept

-----------------------------------------------------------------------------
(* Payments in full. What a handler will record rests on an amount it has  *)
(* looked at: TaskFull says so of its copies.                              *)

Deciding == {"finalize", "transition"}

Recording == {"readOrder", "commit"}

TaskFull(t) ==
    t.attempt \in Stripe =>
        /\ t.pc \in Deciding => t.checked
        /\ t.pc \in Recording /\ t.captured => t.session \notin Mispaid

FullInv == (\A p \in Process : TaskFull(task[p])) /\ CaptureIsInFull

LEMMA FullReturn ==
    ASSUME NEW p \in Process, task \in [Process -> Task], Return(p),
           \A q \in Process : TaskFull(task[q])
    PROVE  \A q \in Process : TaskFull(task'[q])
  BY IdleTask DEF Return, TaskFull, Deciding, Recording

LEMMA FullGoto ==
    ASSUME NEW p \in Process, NEW pc \in PC, task \in [Process -> Task], Goto(p, pc),
           \A q \in Process : TaskFull(task[q]),
           pc \in Deciding => task[p].pc \in Deciding,
           pc \in Recording /\ task[p].captured /\ task[p].attempt \in Stripe
               => task[p].session \notin Mispaid
    PROVE  \A q \in Process : TaskFull(task'[q])
  <1>1. task' = [task EXCEPT ![p] = [task[p] EXCEPT !.pc = pc]]
    BY DEF Goto
  <1>2. /\ task'[p].pc = pc /\ task'[p].attempt = task[p].attempt
        /\ task'[p].session = task[p].session /\ task'[p].captured = task[p].captured
        /\ task'[p].checked = task[p].checked
    BY <1>1 DEF Task
  <1>3. \A q \in Process : q # p => task'[q] = task[q]
    BY <1>1
  <1>4. TaskFull(task'[p])
    BY <1>2 DEF TaskFull, Deciding, Recording
  <1> QED
    BY <1>3, <1>4

LEMMA FullFinalize ==
    ASSUME NEW p \in Process, NEW captured \in BOOLEAN, task \in [Process -> Task],
           Finalize(p, captured), \A q \in Process : TaskFull(task[q])
    PROVE  \A q \in Process : TaskFull(task'[q])
  <1>1. task'[p].checked /\ task'[p].pc = "finalize"
    BY DEF Finalize, Task
  <1>2. \A q \in Process : q # p => task'[q] = task[q]
    BY DEF Finalize
  <1> QED
    BY <1>1, <1>2 DEF TaskFull, Deciding, Recording

LEMMA FullTasks ==
    ASSUME IInv, FullInv, [PaymentsNext]_vars
    PROVE  \A q \in Process : TaskFull(task'[q])
  <1> USE DEF FullInv
  <1>0. task \in [Process -> Task]
    BY DEF IInv, Types
  <1>1. CASE UNCHANGED task
    BY <1>1
  <1>2. ASSUME NEW p \in Process, Return(p) PROVE \A q \in Process : TaskFull(task'[q])
    BY <1>0, <1>2, FullReturn
  <1>3. ASSUME NEW p \in Process, NEW pc \in PC \ (Deciding \cup Recording), Goto(p, pc)
        PROVE  \A q \in Process : TaskFull(task'[q])
    BY <1>0, <1>3, FullGoto
  <1>4. ASSUME NEW p \in Process, NEW a \in Attempt, NEW o \in Order,
               CreateBegin(p, o, a) \/ CaptureBegin(p, a) \/ ReconcileBegin(p, a)
        PROVE  \A q \in Process : TaskFull(task'[q])
    <2>1. task'[p].pc \in {"insert", "provider", "capture", "reconcile"}
      BY <1>0, <1>4 DEF CreateBegin, CaptureBegin, ReconcileBegin, Idle
    <2>2. \A q \in Process : q # p => task'[q] = task[q]
      BY <1>0, <1>4 DEF CreateBegin, CaptureBegin, ReconcileBegin
    <2> QED
      BY <2>1, <2>2 DEF TaskFull, Deciding, Recording
  <1>5. ASSUME NEW p \in Process, NEW s \in Session, HookLog(p, s)
        PROVE  \A q \in Process : TaskFull(task'[q])
    <2>1. task'[p].pc = "hook"
      BY <1>0, <1>5 DEF HookLog, Idle
    <2>2. \A q \in Process : q # p => task'[q] = task[q]
      BY <1>0, <1>5 DEF HookLog
    <2> QED
      BY <2>1, <2>2 DEF TaskFull, Deciding, Recording
  <1>6. ASSUME NEW p \in Process, CreateSession(p) PROVE \A q \in Process : TaskFull(task'[q])
    <2>1. task'[p].pc = "store" /\ \A q \in Process : q # p => task'[q] = task[q]
      BY <1>0, <1>6 DEF CreateSession, Task
    <2> QED
      BY <2>1 DEF TaskFull, Deciding, Recording
  <1>7. ASSUME NEW p \in Process,
               CreateInsert(p) \/ CreateRaced(p) \/ CreateStore(p) \/ CommitCaptured(p)
               \/ CommitFailed(p) \/ HookRead(p) \/ HookCommit(p) \/ TransitionConflict(p)
        PROVE  \A q \in Process : TaskFull(task'[q])
    BY <1>2, <1>3, <1>7 DEF CreateInsert, CreateRaced, CreateStore, CommitCaptured, CommitFailed,
       HookRead, HookCommit, TransitionConflict, PC, Deciding, Recording
  <1>8. ASSUME NEW p \in Process, AskStripe(p) \/ AskPaypal(p)
        PROVE  \A q \in Process : TaskFull(task'[q])
    <2>1. Return(p) \/ \E captured \in BOOLEAN : Finalize(p, captured)
      BY <1>8 DEF AskStripe, AskPaypal
    <2> QED
      BY <1>0, <1>2, <2>1, FullFinalize
  <1>9. ASSUME NEW p \in Process, FinalizeRead(p) PROVE \A q \in Process : TaskFull(task'[q])
    <2>1. \/ Return(p)
          \/ Goto(p, "transition") /\ task[p].pc = "finalize"
      BY <1>9 DEF FinalizeRead
    <2> QED
      BY <1>0, <1>2, <2>1, FullGoto DEF PC, Deciding, Recording
  <1>10. ASSUME NEW p \in Process, TransitionStep(p) PROVE \A q \in Process : TaskFull(task'[q])
    <2>1. \/ Return(p)
          \/ Goto(p, "readOrder") /\ ~Mismatch(task[p]) /\ task[p].pc = "transition"
      BY <1>10 DEF TransitionStep
    <2>2. TaskFull(task[p])
      OBVIOUS
    <2> QED
      BY <1>0, <1>2, <2>1, <2>2, FullGoto DEF PC, Deciding, Recording, Mismatch, TaskFull
  <1>11. ASSUME NEW p \in Process, ReadOrder(p) PROVE \A q \in Process : TaskFull(task'[q])
    <2>1. \/ Return(p)
          \/ Goto(p, "commit") /\ task[p].pc = "readOrder"
      BY <1>11 DEF ReadOrder
    <2> QED
      BY <1>0, <1>2, <2>1, FullGoto DEF PC, Deciding, Recording, TaskFull
  <1>12. ASSUME NEW p \in Process, HookFind(p) PROVE \A q \in Process : TaskFull(task'[q])
    <2>1. CASE Return(p)
      BY <1>2, <2>1
    <2>2. CASE ~Return(p)
      <3>1. PICK a \in Attempt :
              task' = [task EXCEPT ![p].attempt = a,
                                   ![p].pc = IF a \in Stripe THEN "hookRead" ELSE "finalize"]
        BY <1>12, <2>2 DEF HookFind
      <3>2. /\ task'[p].attempt = a
            /\ task'[p].pc = IF a \in Stripe THEN "hookRead" ELSE "finalize"
            /\ \A q \in Process : q # p => task'[q] = task[q]
        BY <1>0, <3>1 DEF Task
      <3> QED
        BY <3>2 DEF TaskFull, Deciding, Recording
    <2> QED
      BY <2>1, <2>2
  <1>13. ASSUME NEW p \in Process, FaultStep(p) PROVE \A q \in Process : TaskFull(task'[q])
    BY <1>2, <1>13 DEF FaultStep, CreateFails, AskLost, Crash
  <1>14. CASE \/ \E o \in Order : Checkout(o) \/ ReleaseStock(o)
              \/ \E s \in Session : CustomerPays(s) \/ ProviderDecides(s)
              \/ UNCHANGED vars
    BY <1>1, <1>14 DEF Checkout, ReleaseStock, CustomerPays, ProviderDecides, vars
  <1>15. ASSUME NEW p \in Process, HandlerStep(p) PROVE \A q \in Process : TaskFull(task'[q])
    BY <1>6, <1>7, <1>8, <1>9, <1>10, <1>11, <1>12, <1>15 DEF HandlerStep
  <1>16. ASSUME NEW p \in Process, NEW o \in Order, NEW a \in Attempt, CreateBegin(p, o, a)
         PROVE  \A q \in Process : TaskFull(task'[q])
    BY <1>4, <1>16
  <1>17. ASSUME NEW p \in Process, NEW a \in Attempt, CaptureBegin(p, a) \/ ReconcileBegin(p, a)
         PROVE  \A q \in Process : TaskFull(task'[q])
    <2>1. task'[p].pc \in {"capture", "reconcile"} /\ \A q \in Process : q # p => task'[q] = task[q]
      BY <1>0, <1>17 DEF CaptureBegin, ReconcileBegin, Idle
    <2> QED
      BY <2>1 DEF TaskFull, Deciding, Recording
  <1> QED
    BY <1>5, <1>13, <1>14, <1>15, <1>16, <1>17 DEF PaymentsNext

(* A session once made stays made, and with its attempt.                   *)
LEMMA SessionKeepsAttempt ==
    ASSUME IInv, [PaymentsNext]_vars, NEW s \in Session, session[s].state # "unused"
    PROVE  session'[s].attempt = session[s].attempt /\ session'[s].state # "unused"
  <1> DEFINE Stays == session'[s].attempt = session[s].attempt /\ session'[s].state # "unused"
  <1>0. session \in [Session -> SessionRow]
    BY DEF IInv, Types
  <1>1. ASSUME NEW r \in Session, NEW state,
               session' = [session EXCEPT ![r].state = state], state # "unused"
        PROVE  Stays
    BY <1>0, <1>1 DEF SessionRow
  <1>2. ASSUME NEW p \in Process, HandlerStep(p) PROVE Stays
    <2>1. CASE UNCHANGED session
      BY <2>1
    <2>2. CASE CreateSession(p)
      BY <1>0, <2>2 DEF CreateSession
    <2>3. CASE CreateStore(p)
      <3>1. task[p].session \in Session
        BY <2>3 DEF CreateStore, IInv, TaskOK
      <3> QED
        BY <1>1, <2>3, <3>1 DEF CreateStore
    <2>4. CASE AskPaypal(p)
      <3>1. task[p].session \in Session
        BY <2>4, WorkingTask DEF AskPaypal, Working
      <3>2. \/ UNCHANGED session
            \/ \E state \in {"approved", "pending", "paid"} :
                  session' = [session EXCEPT ![task[p].session].state = state]
        BY <2>4 DEF AskPaypal
      <3> QED
        BY <1>1, <2>1, <3>1, <3>2
    <2> QED
      BY <1>2, <2>1, <2>2, <2>3, <2>4 DEF HandlerStep, CreateInsert, CreateRaced, AskStripe,
         FinalizeRead, TransitionStep, TransitionConflict, ReadOrder, CommitCaptured, CommitFailed,
         HookFind, HookRead, HookCommit
  <1>3. ASSUME NEW p \in Process, FaultStep(p) PROVE Stays
    <2>1. CASE AskLost(p)
      <3>1. task[p].session \in Session
        BY <2>1, WorkingTask DEF AskLost, Working
      <3> QED
        BY <1>1, <2>1, <3>1 DEF AskLost
    <2> QED
      BY <1>3, <2>1 DEF FaultStep, CreateFails, Crash
  <1>4. ASSUME NEW r \in Session, CustomerPays(r) \/ ProviderDecides(r)
        PROVE  Stays
    BY <1>1, <1>4 DEF CustomerPays, ProviderDecides
  <1> QED
    BY <1>2, <1>3, <1>4 DEF PaymentsNext, vars, Checkout, ReleaseStock, CreateBegin, CaptureBegin,
       ReconcileBegin, HookLog

LEMMA FullStep == IInv /\ FullInv /\ [PaymentsNext]_vars => FullInv'
  <1> SUFFICES ASSUME IInv, FullInv, [PaymentsNext]_vars PROVE FullInv'
    OBVIOUS
  <1>1. \A t \in txn : t.session \in Session /\ session[t.session].state # "unused"
    BY DEF IInv, Types, Transaction, TransactionOK, Taken, Announced, Done
  <1>2. \A t \in txn : session'[t.session].attempt = session[t.session].attempt
    BY <1>1, SessionKeepsAttempt
  <1>3. CASE UNCHANGED txn
    BY <1>2, <1>3, FullTasks DEF FullInv, CaptureIsInFull
  <1>4. ASSUME NEW p \in Process, HookCommit(p) PROVE FullInv'
    BY <1>2, <1>4, FullTasks DEF FullInv, CaptureIsInFull, HookCommit
  <1>5. ASSUME NEW p \in Process, CommitCaptured(p) PROVE FullInv'
    <2>1. /\ task[p].session \in Session /\ UNCHANGED session
          /\ session[task[p].session].attempt = task[p].attempt
      BY <1>5, WorkingTask DEF CommitCaptured, Working
    <2>2. task[p].attempt \in Stripe => task[p].session \notin Mispaid
      BY <1>5 DEF CommitCaptured, FullInv, TaskFull, Recording
    <2>3. txn' \subseteq txn \cup {[order |-> attempt[task[p].attempt].order,
                                    session |-> task[p].session, id |-> "payment"]}
      BY <1>5 DEF CommitCaptured, moneyVars
    <2> QED
      BY <2>1, <2>2, <2>3, FullTasks DEF FullInv, CaptureIsInFull
  <1>6. CASE UNCHANGED vars
    BY <1>3, <1>6 DEF vars
  <1>7. ASSUME NEW p \in Process, HandlerStep(p) PROVE FullInv'
    BY <1>3, <1>4, <1>5, <1>7 DEF HandlerStep, CreateInsert, CreateRaced, CreateSession, CreateStore,
       AskStripe, AskPaypal, FinalizeRead, TransitionStep, TransitionConflict, ReadOrder, CommitFailed,
       HookFind, HookRead, moneyVars
  <1>8. ASSUME NEW p \in Process, FaultStep(p) PROVE FullInv'
    BY <1>3, <1>8 DEF FaultStep, CreateFails, AskLost, Crash, moneyVars
  <1> QED
    BY <1>3, <1>6, <1>7, <1>8 DEF PaymentsNext, Checkout, ReleaseStock, CustomerPays, ProviderDecides,
       CreateBegin, CaptureBegin, ReconcileBegin, HookLog, moneyVars

(* What the capture path records of a Stripe attempt is a payment in full; *)
(* with it, all the records of money hold.                                 *)
THEOREM MoneyIsRecorded == PaymentsSpec => []MoneyRecorded
  <1>1. PaymentsInit => FullInv
    BY DEF PaymentsInit, FullInv, TaskFull, CaptureIsInFull, Deciding, Recording, Idle
  <1>2. PaymentsSpec => []FullInv
    BY <1>1, PaymentsInvariant, FullStep, PTL DEF PaymentsSpec
  <1>3. FullInv => CaptureIsInFull
    BY DEF FullInv
  <1> QED
    BY <1>2, <1>3, PaymentsAreBacked, PTL DEF MoneyRecorded

-----------------------------------------------------------------------------
(* An attempt's own payment stands. OwnInv says why: while the webhook has *)
(* not been called for an attempt, its status tells which outcome got past *)
(* the status machine, and it is the one every later step works for.       *)

Outcome(captured) == IF captured THEN "CAPTURED" ELSE "FAILED"

Decided(t) ==
    t.pc \in Recording /\ ~Hooked(t.attempt) =>
        attempt[t.attempt].status = Outcome(t.captured)

PaidByStatus(t) ==
    LET a == session[t.session].attempt IN
    ~Hooked(a) => attempt[a].status = "CAPTURED"

OwnInv ==
    /\ \A s \in logged : session[s].state # "unused"
    /\ \A p \in Process : Decided(task[p])
    /\ \A t \in txn : PaidByStatus(t)

(* An event once logged stays logged.                                      *)
LEMMA LoggedGrows ==
    ASSUME [PaymentsNext]_vars
    PROVE  \/ logged' = logged
           \/ \E s \in Session : logged' = logged \cup {s} /\ session'[s].state # "unused"
  <1>1. ASSUME NEW p \in Process, NEW s \in Session, HookLog(p, s)
        PROVE  logged' = logged \cup {s} /\ session'[s].state # "unused"
    BY <1>1 DEF HookLog, Done
  <1>2. ASSUME NEW p \in Process, HandlerStep(p) \/ FaultStep(p) PROVE logged' = logged
    BY <1>2 DEF HandlerStep, CreateInsert, CreateRaced, CreateSession, CreateStore, AskStripe,
       AskPaypal, FinalizeRead, TransitionStep, TransitionConflict, ReadOrder, CommitCaptured,
       CommitFailed, HookFind, HookRead, HookCommit, FaultStep, CreateFails, AskLost, Crash
  <1> QED
    BY <1>1, <1>2 DEF PaymentsNext, vars, Checkout, ReleaseStock, CustomerPays, ProviderDecides,
       CreateBegin, CaptureBegin, ReconcileBegin

(* A call of the webhook is not forgotten, and until it comes a settled    *)
(* attempt keeps its status.                                               *)
LEMMA OwnStable ==
    ASSUME IInv, OwnInv, [PaymentsNext]_vars, NEW a \in Attempt, ~Hooked(a)'
    PROVE  /\ ~Hooked(a)
           /\ attempt[a].status \in Final => attempt'[a].status = attempt[a].status
  <1>1. ~Hooked(a)
    <2> SUFFICES ASSUME Hooked(a) PROVE FALSE
      OBVIOUS
    <2>1. PICK s \in logged : session[s].attempt = a /\ a \in Stripe
      BY DEF Hooked
    <2>2. s \in Session /\ session[s].state # "unused" /\ s \in logged'
      BY LoggedGrows DEF OwnInv, IInv, Types
    <2>3. session'[s].attempt = a
      BY <2>1, <2>2, SessionKeepsAttempt
    <2> QED
      BY <2>1, <2>2, <2>3 DEF Hooked
  <1> QED
    BY <1>1, SettledStep DEF SettledKept

(* How a handler comes to record an outcome: it did so already, or its     *)
(* transition has just set the status.                                     *)
LEMMA ToRecording ==
    ASSUME IInv, [PaymentsNext]_vars, NEW p \in Process, task'[p].pc \in Recording
    PROVE  /\ task'[p].attempt = task[p].attempt
           /\ task'[p].captured = task[p].captured
           /\ \/ task[p].pc \in Recording
              \/ /\ task[p].pc = "transition"
                 /\ attempt' = [attempt EXCEPT ![task[p].attempt].status =
                                   Outcome(task[p].captured)]
  <1>0. task \in [Process -> Task]
    BY DEF IInv, Types
  <1> DEFINE Goal == /\ task'[p].attempt = task[p].attempt
                     /\ task'[p].captured = task[p].captured
                     /\ \/ task[p].pc \in Recording
                        \/ /\ task[p].pc = "transition"
                           /\ attempt' = [attempt EXCEPT ![task[p].attempt].status =
                                             Outcome(task[p].captured)]
  <1>1. CASE task'[p] = task[p]
    BY <1>1
  <1>2. ASSUME NEW q \in Process, HandlerStep(q) \/ FaultStep(q) PROVE Goal
    <2>1. ASSUME Return(q) PROVE Goal
      BY <1>0, <1>1, <2>1 DEF Return, Idle, Recording
    <2>2. ASSUME NEW pc \in PC \ Recording, Goto(q, pc) PROVE Goal
      BY <1>0, <1>1, <2>2, GotoTask
    <2>3. ASSUME NEW captured \in BOOLEAN, Finalize(q, captured) PROVE Goal
      BY <1>0, <1>1, <2>3, FinalizeTask DEF Recording
    <2>4. ASSUME CreateSession(q) PROVE Goal
      BY <1>0, <1>1, <2>4 DEF CreateSession, Recording, Task
    <2>5. ASSUME HookFind(q) PROVE Goal
      BY <1>0, <1>1, <2>1, <2>5 DEF HookFind, Recording, Task
    <2>6. ASSUME ReadOrder(q) PROVE Goal
      <3>1. CASE Goto(q, "commit")
        BY <1>0, <1>1, <2>6, <3>1, GotoTask DEF ReadOrder, Recording, PC
      <3> QED
        BY <2>1, <2>6, <3>1 DEF ReadOrder
    <2>7. ASSUME TransitionStep(q) PROVE Goal
      <3>1. CASE Return(q)
        BY <2>1, <3>1
      <3>2. CASE /\ Goto(q, "readOrder") /\ ~Mismatch(task[q])
                 /\ attempt' = [attempt EXCEPT ![task[q].attempt].status = Target(task[q])]
        <4>1. Target(task[q]) = Outcome(task[q].captured)
          BY <3>2 DEF Target, Outcome
        <4> QED
          BY <1>0, <1>1, <2>7, <3>2, <4>1, GotoTask DEF TransitionStep, PC
      <3> QED
        BY <2>7, <3>1, <3>2 DEF TransitionStep
    <2>8. ASSUME \/ CreateInsert(q) \/ CreateRaced(q) \/ CreateStore(q) \/ FinalizeRead(q)
                 \/ TransitionConflict(q) \/ CommitCaptured(q) \/ CommitFailed(q)
                 \/ HookRead(q) \/ HookCommit(q) \/ FaultStep(q)
          PROVE  Goal
      BY <2>1, <2>2, <2>8 DEF CreateInsert, CreateRaced, CreateStore, FinalizeRead,
         TransitionConflict, CommitCaptured, CommitFailed, HookRead, HookCommit, FaultStep,
         CreateFails, AskLost, Crash, PC, Recording
    <2>9. ASSUME AskStripe(q) \/ AskPaypal(q) PROVE Goal
      <3>1. Return(q) \/ \E captured \in BOOLEAN : Finalize(q, captured)
        BY <2>9 DEF AskStripe, AskPaypal
      <3> QED
        BY <2>1, <2>3, <3>1
    <2> QED
      BY <1>2, <2>4, <2>5, <2>6, <2>7, <2>8, <2>9 DEF HandlerStep
  <1>3. ASSUME NEW q \in Process, NEW o \in Order, NEW a \in Attempt, CreateBegin(q, o, a)
        PROVE  Goal
    BY <1>0, <1>1, <1>3 DEF CreateBegin, Idle, Recording
  <1>4. ASSUME NEW q \in Process, NEW a \in Attempt, CaptureBegin(q, a) \/ ReconcileBegin(q, a)
        PROVE  Goal
    BY <1>0, <1>1, <1>4 DEF CaptureBegin, ReconcileBegin, Idle, Recording
  <1>5. ASSUME NEW q \in Process, NEW s \in Session, HookLog(q, s) PROVE Goal
    BY <1>0, <1>1, <1>5 DEF HookLog, Idle, Recording
  <1>6. CASE \/ \E o \in Order : Checkout(o) \/ ReleaseStock(o)
             \/ \E s \in Session : CustomerPays(s) \/ ProviderDecides(s)
             \/ UNCHANGED vars
    BY <1>1, <1>6 DEF Checkout, ReleaseStock, CustomerPays, ProviderDecides, vars
  <1> QED
    BY <1>2, <1>3, <1>4, <1>5, <1>6 DEF PaymentsNext

LEMMA OwnTasks ==
    ASSUME IInv, OwnInv, [PaymentsNext]_vars, NEW p \in Process
    PROVE  Decided(task[p])'
  <1> SUFFICES ASSUME task'[p].pc \in Recording, ~Hooked(task[p].attempt)'
               PROVE  attempt'[task'[p].attempt].status = Outcome(task'[p].captured)
    BY DEF Decided
  <1>1. /\ task'[p].attempt = task[p].attempt
        /\ task'[p].captured = task[p].captured
        /\ \/ task[p].pc \in Recording
           \/ /\ task[p].pc = "transition"
              /\ attempt' = [attempt EXCEPT ![task[p].attempt].status =
                                Outcome(task[p].captured)]
    BY ToRecording
  <1>2. task[p].attempt \in Attempt
    BY <1>1, WorkingTask DEF Working, Recording, Made
  <1>3. PICK a \in Attempt : a = task[p].attempt
    BY <1>2
  <1>4. ~Hooked(a)'
    BY <1>1, <1>3 DEF Hooked
  <1>5. CASE task[p].pc \in Recording
    <2>1. /\ ~Hooked(a)
          /\ attempt[a].status \in Final => attempt'[a].status = attempt[a].status
      BY <1>4, OwnStable
    <2>2. attempt[a].status = Outcome(task[p].captured)
      BY <1>3, <1>5, <2>1 DEF OwnInv, Decided
    <2> QED
      BY <1>1, <1>3, <2>1, <2>2 DEF Outcome, Final
  <1>6. CASE attempt' = [attempt EXCEPT ![task[p].attempt].status = Outcome(task[p].captured)]
    BY <1>1, <1>2, <1>6 DEF IInv, Types, AttemptRow
  <1> QED
    BY <1>1, <1>5, <1>6

LEMMA OwnStep == IInv /\ OwnInv /\ [PaymentsNext]_vars => OwnInv'
  <1> SUFFICES ASSUME IInv, OwnInv, [PaymentsNext]_vars PROVE OwnInv'
    OBVIOUS
  <1>1. \A s \in logged' : session'[s].state # "unused"
    <2> TAKE s \in logged'
    <2>1. CASE s \in logged
      <3>1. s \in Session /\ session[s].state # "unused"
        BY <2>1 DEF OwnInv, IInv, Types
      <3> QED
        BY <3>1, SessionKeepsAttempt
    <2> QED
      BY <2>1, LoggedGrows
  <1>2. \A p \in Process : Decided(task[p])'
    BY OwnTasks
  <1>3. ASSUME NEW t \in txn PROVE PaidByStatus(t)'
    <2>1. /\ t.session \in Session /\ session[t.session].state # "unused"
      BY DEF IInv, Types, Transaction, TransactionOK, Taken, Announced, Done
    <2>2. PICK a \in Attempt : a = session[t.session].attempt
      BY <2>1 DEF IInv, SessionOK, Made
    <2>3. session'[t.session].attempt = a
      BY <2>1, <2>2, SessionKeepsAttempt
    <2>4. ASSUME ~Hooked(a)' PROVE attempt'[a].status = "CAPTURED"
      <3>1. /\ ~Hooked(a)
            /\ attempt[a].status \in Final => attempt'[a].status = attempt[a].status
        BY <2>4, OwnStable
      <3>2. attempt[a].status = "CAPTURED"
        BY <2>2, <3>1 DEF OwnInv, PaidByStatus
      <3> QED
        BY <3>1, <3>2 DEF Final
    <2> QED
      BY <2>3, <2>4 DEF PaidByStatus, Hooked
  <1>4. ASSUME NEW t \in txn', t \notin txn PROVE PaidByStatus(t)'
    <2>1. PICK p \in Process : CommitCaptured(p) \/ HookCommit(p)
      BY <1>4 DEF PaymentsNext, HandlerStep, CreateInsert, CreateRaced, CreateSession, CreateStore,
         AskStripe, AskPaypal, FinalizeRead, TransitionStep, TransitionConflict, ReadOrder,
         CommitFailed, HookFind, HookRead, FaultStep, CreateFails, AskLost, Crash, moneyVars, vars,
         Checkout, ReleaseStock, CustomerPays, ProviderDecides, CreateBegin, CaptureBegin,
         ReconcileBegin, HookLog
    <2>2. /\ t.session = task[p].session /\ UNCHANGED <<session, logged>>
          /\ task[p].pc \in Working
      BY <1>4, <2>1 DEF CommitCaptured, HookCommit, moneyVars, Working
    <2>3. PICK a \in Attempt : a = task[p].attempt /\ a = session[t.session].attempt
      BY <2>2, WorkingTask DEF Made
    <2>4. CASE CommitCaptured(p)
      <3>1. task[p].pc \in Recording /\ task[p].captured /\ UNCHANGED attempt
        BY <2>4 DEF CommitCaptured, Recording
      <3>2. ~Hooked(a) => attempt[a].status = "CAPTURED"
        BY <2>3, <3>1 DEF OwnInv, Decided, Outcome
      <3> QED
        BY <2>2, <2>3, <3>1, <3>2 DEF PaidByStatus, Hooked
    <2>5. CASE HookCommit(p)
      <3>1. Hooked(a)
        BY <2>2, <2>3, <2>5 DEF HookCommit, IInv, TaskOK, Announced, Hooked
      <3> QED
        BY <2>2, <2>3, <3>1 DEF PaidByStatus, Hooked
    <2> QED
      BY <2>1, <2>4, <2>5
  <1> QED
    BY <1>1, <1>2, <1>3, <1>4 DEF OwnInv

OwnPaymentStandsNow ==
    \A o \in Order : order[o].pay = "PAID" /\ order'[o].pay # "PAID" =>
        \E p \in Process :
            LET a == task[p].attempt IN
            /\ task[p].pc = "commit" /\ task'[p].pc = "idle"
            /\ attempt[a].order = o
            /\ Hooked(a) \/ \A t \in txn : session[t.session].attempt # a

(* Only a failed outcome undoes a payment.                                 *)
LEMMA UndoneByFailure ==
    ASSUME IInv, [PaymentsNext]_vars, NEW o \in Order,
           order[o].pay = "PAID", order'[o].pay # "PAID"
    PROVE  \E p \in Process : CommitFailed(p) /\ attempt[task[p].attempt].order = o
  <1>0. order \in [Order -> Row] /\ Placed(order[o])
    BY DEF IInv, RowInv, Blank, NoRow, Placed
  <1>1. ASSUME NEW x \in Order PROVE ~Place(x) \/ x # o
    BY <1>0 DEF Place
  <1>2. ASSUME NEW x \in Order, Place(x) \/ Release(x) \/ MarkPaid(x) PROVE FALSE
    <2>1. order[x] \in Row
      BY <1>0
    <2>2. Released(order[x]).pay = order[x].pay
      BY <2>1 DEF Released, Row
    <2>3. PaidRow(order[x]).pay = "PAID"
      <3>1. WithStatus(order[x], "PROCESSING") \in Row
        BY <2>1, WithStatusRow DEF OrderStatus
      <3> QED
        BY <3>1 DEF PaidRow, Row
    <2> QED
      BY <1>0, <1>1, <1>2, <2>2, <2>3 DEF Place, Release, MarkPaid
  <1>3. ASSUME NEW p \in Process, CommitCaptured(p) \/ HookCommit(p) PROVE FALSE
    <2>1. attempt[task[p].attempt].order \in Order
      BY <1>3, AttemptOrder DEF CommitCaptured, HookCommit
    <2> QED
      BY <1>2, <1>3, <2>1 DEF CommitCaptured, HookCommit
  <1>4. ASSUME NEW p \in Process, CommitFailed(p) PROVE attempt[task[p].attempt].order = o
    BY <1>0, <1>4, AttemptOrder DEF CommitFailed, MarkFailed
  <1>5. PICK p \in Process : CommitFailed(p)
    BY <1>2, <1>3 DEF PaymentsNext, HandlerStep, CreateInsert, CreateRaced, CreateSession,
       CreateStore, AskStripe, AskPaypal, FinalizeRead, TransitionStep, TransitionConflict, ReadOrder,
       HookFind, HookRead, FaultStep, CreateFails, AskLost, Crash, vars, Checkout, ReleaseStock,
       CustomerPays, ProviderDecides, CreateBegin, CaptureBegin, ReconcileBegin, HookLog
  <1> QED
    BY <1>4, <1>5

LEMMA OwnPaymentStep == IInv /\ OwnInv /\ [PaymentsNext]_vars => OwnPaymentStandsNow
  <1> SUFFICES ASSUME IInv, OwnInv, [PaymentsNext]_vars, NEW o \in Order,
                      order[o].pay = "PAID", order'[o].pay # "PAID"
               PROVE  \E p \in Process :
                         LET a == task[p].attempt IN
                         /\ task[p].pc = "commit" /\ task'[p].pc = "idle"
                         /\ attempt[a].order = o
                         /\ Hooked(a) \/ \A t \in txn : session[t.session].attempt # a
    BY DEF OwnPaymentStandsNow
  <1>1. PICK p \in Process : CommitFailed(p) /\ attempt[task[p].attempt].order = o
    BY UndoneByFailure
  <1>2. task[p].pc = "commit" /\ task'[p].pc = "idle" /\ ~task[p].captured
    BY <1>1, ReturnTask DEF CommitFailed, IInv, Types
  <1>3. ASSUME ~Hooked(task[p].attempt), NEW t \in txn,
               session[t.session].attempt = task[p].attempt
        PROVE  FALSE
    <2>1. attempt[task[p].attempt].status = "FAILED"
      BY <1>2, <1>3 DEF OwnInv, Decided, Outcome, Recording
    <2>2. attempt[task[p].attempt].status = "CAPTURED"
      BY <1>3 DEF OwnInv, PaidByStatus
    <2> QED
      BY <2>1, <2>2
  <1> QED
    BY <1>1, <1>2, <1>3

(* For any numbers of orders, attempts, sessions and handlers: a failed    *)
(* outcome never undoes the payment that its own attempt made, unless the  *)
(* Stripe webhook was called for that attempt.                             *)
THEOREM OwnPaymentsStand == PaymentsSpec => OwnPaymentStands
  <1>1. PaymentsInit => OwnInv
    BY DEF PaymentsInit, OwnInv, Decided, Recording, Idle
  <1>2. PaymentsSpec => []OwnInv
    BY <1>1, PaymentsInvariant, OwnStep, PTL DEF PaymentsSpec
  <1> QED
    BY <1>2, PaymentsInvariant, OwnPaymentStep, PTL
       DEF PaymentsSpec, OwnPaymentStands, OwnPaymentStandsNow

=============================================================================
