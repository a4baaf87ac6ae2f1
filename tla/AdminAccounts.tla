---------------------------- MODULE AdminAccounts ----------------------------
(***************************************************************************)
(* Admins, their roles and sessions (AdminAuthService, AdminUsersService,  *)
(* RolesService, AdminAuthGuard, PermissionsGuard), step by step as in     *)
(* Accounts. E-mails and passwords are left out: a clash or a wrong one    *)
(* ends the request before anything changes.                               *)
(*                                                                         *)
(*   role     roles with their permission keys                             *)
(*   admin    admin_users                                                  *)
(*   pass     admin_refresh_tokens; late as in Accounts, of the removal of *)
(*            their owner                                                  *)
(*   errand   the requests under way; who is the admin who asks            *)
(*   crossed  an admin was removed by one who had been removed since the   *)
(*            guard let the request in (history)                           *)
(***************************************************************************)
EXTENDS Naturals, FiniteSets

CONSTANTS Admin, Role, Permission, Manage, Pass, Errand, Change, Nobody

AdminStatus == {"ACTIVE", "DISABLED"}

AdminRow == [role : Role, status : AdminStatus, deleted : BOOLEAN]

PassRow == [owner : Admin, open : BOOLEAN, late : BOOLEAN]

ASSUME AdminsAssumption ==
    /\ Admin \subseteq Nat /\ Role \subseteq Nat /\ Pass \subseteq Nat
    /\ Manage \in Permission
    /\ Change \subseteq [role : Role \cup {Nobody}, status : AdminStatus \cup {Nobody}]
    /\ Nobody \notin Admin \cup Role \cup Pass /\ Nobody \notin AdminStatus
    /\ Nobody \notin AdminRow /\ Nobody \notin PassRow /\ Nobody \notin Change
    /\ \A keys \in SUBSET Permission : keys # Nobody
    /\ Nobody \notin [owner : Admin, open : BOOLEAN]

VARIABLES role, admin, pass, errand, crossed

adminVars == <<role, admin, pass, errand, crossed>>

ErrandRow == [at : {"idle", "issue", "spend", "recheck", "in", "update", "remove", "rewrite", "drop"},
              who : Admin \cup {Nobody}, row : Admin \cup Role \cup Pass \cup {Nobody},
              dto : Change \cup {Nobody}, keys : SUBSET Permission, late : BOOLEAN]

Free == [at |-> "idle", who |-> Nobody, row |-> Nobody, dto |-> Nobody, keys |-> {},
         late |-> FALSE]

AdminsTypeOK ==
    /\ role \in [Role -> (SUBSET Permission) \cup {Nobody}]
    /\ admin \in [Admin -> AdminRow \cup {Nobody}]
    /\ pass \in [Pass -> PassRow \cup {Nobody}]
    /\ errand \in [Errand -> ErrandRow]
    /\ crossed \in BOOLEAN

(* What the seed leaves: one role with every permission, and one admin.    *)
AdminsInit ==
    /\ \E o \in Role, b \in Admin :
         /\ \A i \in Role : o <= i
         /\ \A i \in Admin : b <= i
         /\ role = [i \in Role |-> IF i = o THEN Permission ELSE Nobody]
         /\ admin = [i \in Admin |->
               IF i = b THEN [role |-> o, status |-> "ACTIVE", deleted |-> FALSE] ELSE Nobody]
    /\ pass = [k \in Pass |-> Nobody]
    /\ errand = [r \in Errand |-> Free]
    /\ crossed = FALSE

-----------------------------------------------------------------------------

Employed(b) == admin[b] # Nobody /\ ~admin[b].deleted

Enabled(b) == Employed(b) /\ admin[b].status = "ACTIVE"

Unused(table, id) == table[id] = Nobody /\ \A i \in DOMAIN table : i < id => table[i] # Nobody

Is(r, place) == errand[r].at = place

Leads(r, row) == errand' = [errand EXCEPT ![r] = row]

On(r, place) == [errand[r] EXCEPT !.at = place]

Finishes(r) == Leads(r, Free)

Opens(r, place, row) == Is(r, "idle") /\ Leads(r, [row EXCEPT !.at = place])

-----------------------------------------------------------------------------
(* login, refresh, logout.                                                 *)

SignIn(r, b) ==
    /\ Enabled(b)
    /\ Opens(r, "issue", [Free EXCEPT !.who = b])
    /\ UNCHANGED <<role, admin, pass, crossed>>

IssuePass(r) ==
    LET from == errand[r].row IN
    /\ Is(r, "issue")
    /\ \E k \in Pass :
         /\ Unused(pass, k)
         /\ pass' = [pass EXCEPT ![k] =
               [owner |-> errand[r].who, open |-> TRUE,
                late |-> errand[r].late \/ (from # Nobody /\ pass[from].late)]]
    /\ Finishes(r)
    /\ UNCHANGED <<role, admin, crossed>>

Renew(r, k) ==
    /\ pass[k] # Nobody /\ pass[k].open
    /\ Opens(r, "spend", [Free EXCEPT !.who = pass[k].owner, !.row = k])
    /\ UNCHANGED <<role, admin, pass, crossed>>

SpendPass(r) ==
    /\ Is(r, "spend")
    /\ pass' = [pass EXCEPT ![errand[r].row].open = FALSE]
    /\ Leads(r, On(r, "recheck"))
    /\ UNCHANGED <<role, admin, crossed>>

(* Mutant: any account that is not removed gets a new pass.                *)
RecheckEmployed(r) ==
    /\ Is(r, "recheck")
    /\ IF Employed(errand[r].who) THEN Leads(r, On(r, "issue")) ELSE Finishes(r)
    /\ UNCHANGED <<role, admin, pass, crossed>>

RecheckAdmin(r) ==
    /\ Is(r, "recheck")
    /\ IF Enabled(errand[r].who) THEN Leads(r, On(r, "issue")) ELSE Finishes(r)
    /\ UNCHANGED <<role, admin, pass, crossed>>

(* logout, and a pass that expires.                                        *)
SignOut(k) ==
    /\ pass[k] # Nobody /\ pass[k].open
    /\ pass' = [pass EXCEPT ![k].open = FALSE]
    /\ UNCHANGED <<role, admin, errand, crossed>>

-----------------------------------------------------------------------------
(* The guards: the admin is active, and has every permission required, when *)
(* the request comes in. Any pass ever issued may still carry an access    *)
(* token, and the first admin has signed in before.                        *)

Allowed(b, required) == Enabled(b) /\ required \subseteq role[admin[b].role]

Enter(r, b) ==
    /\ Allowed(b, {Manage})
    /\ Opens(r, "in", [Free EXCEPT !.who = b])
    /\ UNCHANGED <<role, admin, pass, crossed>>

(* The foreign key of the role refuses one that is gone.                   *)
CreateAdmin(r, o) ==
    /\ Is(r, "in") /\ Finishes(r)
    /\ \/ role[o] = Nobody /\ UNCHANGED admin
       \/ /\ role[o] # Nobody
          /\ \E b \in Admin :
               /\ Unused(admin, b)
               /\ admin' = [admin EXCEPT ![b] =
                     [role |-> o, status |-> "ACTIVE", deleted |-> FALSE]]
    /\ UNCHANGED <<role, pass, crossed>>

FindAdmin(r, b, change) ==
    /\ Is(r, "in") /\ Employed(b)
    /\ Leads(r, [On(r, "update") EXCEPT !.row = b, !.dto = change])
    /\ UNCHANGED <<role, admin, pass, crossed>>

UpdateAdmin(r) ==
    LET b == errand[r].row
        dto == errand[r].dto
    IN
    /\ Is(r, "update") /\ Finishes(r)
    /\ \/ dto.role # Nobody /\ role[dto.role] = Nobody /\ UNCHANGED admin
       \/ /\ dto.role # Nobody => role[dto.role] # Nobody
          /\ admin' = [admin EXCEPT
                ![b].role = IF dto.role = Nobody THEN @ ELSE dto.role,
                ![b].status = IF dto.status = Nobody THEN @ ELSE dto.status]
    /\ UNCHANGED <<role, pass, crossed>>

(* Mutant: an admin may remove themselves.                                 *)
FindAnyone(r, b) ==
    /\ Is(r, "in") /\ Employed(b)
    /\ Leads(r, [On(r, "remove") EXCEPT !.row = b])
    /\ UNCHANGED <<role, admin, pass, crossed>>

FindOther(r, b) ==
    /\ Is(r, "in") /\ b # errand[r].who /\ Employed(b)
    /\ Leads(r, [On(r, "remove") EXCEPT !.row = b])
    /\ UNCHANGED <<role, admin, pass, crossed>>

Gone(r) ==
    LET b == errand[r].row IN
    /\ admin' = [admin EXCEPT ![b].status = "DISABLED", ![b].deleted = TRUE]
    /\ errand' = [q \in Errand |->
          IF q = r THEN Free
          ELSE IF errand[q].who = b THEN [errand[q] EXCEPT !.late = TRUE] ELSE errand[q]]
    /\ crossed' = (crossed \/ ~Employed(errand[r].who))
    /\ UNCHANGED role

(* One transaction: the row and every pass of its admin.                   *)
RemoveAdmin(r) ==
    /\ Is(r, "remove") /\ Gone(r)
    /\ pass' = [k \in Pass |->
          IF pass[k] # Nobody /\ pass[k].owner = errand[r].row
          THEN [pass[k] EXCEPT !.open = FALSE] ELSE pass[k]]

-----------------------------------------------------------------------------
(* Roles.                                                                  *)

CreateRole(r, keys) ==
    /\ Is(r, "in") /\ Finishes(r)
    /\ \E o \in Role : Unused(role, o) /\ role' = [role EXCEPT ![o] = keys]
    /\ UNCHANGED <<admin, pass, crossed>>

FindRole(r, o, keys) ==
    /\ Is(r, "in") /\ role[o] # Nobody
    /\ Leads(r, [On(r, "rewrite") EXCEPT !.row = o, !.keys = keys])
    /\ UNCHANGED <<role, admin, pass, crossed>>

UpdateRole(r) ==
    LET o == errand[r].row IN
    /\ Is(r, "rewrite") /\ Finishes(r)
    /\ role' = IF role[o] = Nobody THEN role ELSE [role EXCEPT ![o] = errand[r].keys]
    /\ UNCHANGED <<admin, pass, crossed>>

(* Removed admins keep their role, and count.                              *)
Assigned(o) == {b \in Admin : admin[b] # Nobody /\ admin[b].role = o}

FindUnassigned(r, o) ==
    /\ Is(r, "in") /\ role[o] # Nobody /\ Assigned(o) = {}
    /\ Leads(r, [On(r, "drop") EXCEPT !.row = o])
    /\ UNCHANGED <<role, admin, pass, crossed>>

DeleteRole(r) ==
    LET o == errand[r].row IN
    /\ Is(r, "drop") /\ Finishes(r)
    /\ role' = IF Assigned(o) = {} THEN [role EXCEPT ![o] = Nobody] ELSE role
    /\ UNCHANGED <<admin, pass, crossed>>

(* A request that is refused, dies, or only writes a name or a password.   *)
Leave(r) ==
    ~Is(r, "idle") /\ Finishes(r) /\ UNCHANGED <<role, admin, pass, crossed>>

AdminsNext ==
    \/ \E k \in Pass : SignOut(k) \/ \E r \in Errand : Renew(r, k)
    \/ \E r \in Errand, b \in Admin :
          \/ SignIn(r, b) \/ Enter(r, b) \/ FindOther(r, b)
          \/ \E change \in Change : FindAdmin(r, b, change)
    \/ \E r \in Errand :
          \/ IssuePass(r) \/ SpendPass(r) \/ RecheckAdmin(r)
          \/ UpdateAdmin(r) \/ RemoveAdmin(r) \/ UpdateRole(r) \/ DeleteRole(r) \/ Leave(r)
    \/ \E r \in Errand, o \in Role : CreateAdmin(r, o) \/ FindUnassigned(r, o)
    \/ \E r \in Errand, keys \in SUBSET Permission :
          CreateRole(r, keys) \/ \E o \in Role : FindRole(r, o, keys)

AdminsSpec == AdminsInit /\ [][AdminsNext]_adminVars

-----------------------------------------------------------------------------
(* Every admin, removed ones too, has a role that exists: a role checked   *)
(* for admins and then deleted may have been given out between             *)
(* (RolesService.remove, AdminUsersService.create).                        *)
RolesKept == \A b \in Admin : admin[b] # Nobody => role[admin[b].role] # Nobody

(* A pass of a removed admin works only if it was being issued while the   *)
(* removal committed (AdminUsersService.remove).                           *)
RemovalEndsPasses ==
    \A k \in Pass :
       pass[k] # Nobody /\ pass[k].open /\ admin[pass[k].owner].deleted => pass[k].late

(* The last admin is removed only when two removals crossed: nobody        *)
(* removes themselves (AdminUsersService.remove).                          *)
SomeoneRemains == crossed \/ \E b \in Admin : Employed(b)

(* The admins keep the promise of Sessions.                                *)
AdminStanding ==
    [b \in Admin |->
       IF admin[b] = Nobody THEN "none"
       ELSE IF admin[b].deleted THEN "closed"
       ELSE IF admin[b].status = "ACTIVE" THEN "active" ELSE "suspended"]

Passes ==
    [k \in Pass |->
       IF pass[k] = Nobody THEN Nobody ELSE [owner |-> pass[k].owner, open |-> pass[k].open]]

Clearances == [r \in Errand |-> IF Is(r, "issue") THEN errand[r].who ELSE Nobody]

AdminPromise ==
    INSTANCE Sessions
    WITH Account <- Admin, Session <- Pass, Request <- Errand,
         standing <- AdminStanding, session <- Passes, warrant <- Clearances,
         None <- Nobody

AdminsKeepPromise == AdminPromise!SessionsSpec

(* The staff of the office: types, and the three above.                    *)
StaffSound == AdminsTypeOK /\ RolesKept /\ RemovalEndsPasses /\ SomeoneRemains

=============================================================================
