------------------------------ MODULE Sessions ------------------------------
(***************************************************************************)
(* What signing in promises, to customers and to admins alike: a session   *)
(* begins on a warrant, and a warrant is given only while the account is   *)
(* active; a session that ended stays ended and keeps its owner; a closed  *)
(* account stays closed. Accounts and AdminAccounts implement it.          *)
(*                                                                         *)
(*   standing  of each account                                             *)
(*   session   the sessions begun, with their owner and whether they last  *)
(*   warrant   the account a request was cleared to open a session for     *)
(***************************************************************************)

CONSTANTS Account, Request, Session, None

VARIABLES standing, session, warrant

sessionVars == <<standing, session, warrant>>

Moves ==
    ({"none"} \X {"pending", "active"}) \cup
    ({"pending", "active", "suspended"} \X {"closed"}) \cup
    {<<"pending", "active">>, <<"active", "pending">>,
     <<"active", "suspended">>, <<"suspended", "active">>}

Open(s) == session[s] # None /\ session[s].open

(* Sessions that may only have ended since.                                *)
Shortened ==
    \A s \in Session : \/ session'[s] = session[s]
                       \/ Open(s) /\ session'[s] = [owner |-> session[s].owner, open |-> FALSE]

(* The seed creates the first admin active.                                *)
SessionsInit ==
    /\ standing \in [Account -> {"none", "active"}]
    /\ session = [s \in Session |-> None]
    /\ warrant = [r \in Request |-> None]

(* An account is created, confirmed, suspended, reinstated or closed.      *)
Judge(a) ==
    /\ <<standing[a], standing'[a]>> \in Moves
    /\ \A b \in Account \ {a} : standing'[b] = standing[b]

(* Sessions end: by logout, expiry, rotation, a reset, or with an account. *)
End ==
    /\ Shortened
    /\ standing' = standing \/ \E a \in Account : Judge(a)
    /\ UNCHANGED warrant

Grant(r, a) ==
    /\ warrant[r] = None /\ standing[a] = "active"
    /\ warrant' = [warrant EXCEPT ![r] = a]
    /\ UNCHANGED <<standing, session>>

Begin(r, s) ==
    /\ warrant[r] # None /\ session[s] = None
    /\ session' = [session EXCEPT ![s] = [owner |-> warrant[r], open |-> TRUE]]
    /\ warrant' = [warrant EXCEPT ![r] = None]
    /\ UNCHANGED standing

Drop(r) ==
    /\ warrant[r] # None
    /\ warrant' = [warrant EXCEPT ![r] = None]
    /\ UNCHANGED <<standing, session>>

SessionsNext ==
    \/ End
    \/ \E r \in Request : Drop(r) \/ \E a \in Account : Grant(r, a)
    \/ \E r \in Request, s \in Session : Begin(r, s)

SessionsSpec == SessionsInit /\ [][SessionsNext]_sessionVars
=============================================================================
