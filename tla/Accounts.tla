------------------------------ MODULE Accounts ------------------------------
(***************************************************************************)
(* Customers' accounts (StorefrontAuthService, CustomersService,           *)
(* CustomerAuthGuard). Every await of a handler ends a step, so requests   *)
(* interleave between a read and the write that follows it.                *)
(*                                                                         *)
(*   account    users; Null for a row not yet inserted                     *)
(*   code       otp_verifications; live until consumed or expired          *)
(*   token      customer_refresh_tokens; open until revoked or expired     *)
(*   deletions  pending customer_deletion_requests of each account         *)
(*   request    the requests under way: where each stands (at), the        *)
(*              account, e-mail, row and input it carries                  *)
(* A password's value is not modelled: a wrong one ends its request before *)
(* anything changes. Two fields are history: a token is "before" once the  *)
(* password of its owner was reset after it was obtained, and a request is *)
(* "late" when that reset happened while it ran; a token keeps the         *)
(* lateness of the request, and of the token, it came from.                *)
(***************************************************************************)
EXTENDS Naturals

CONSTANTS Account, Email, Code, Token, Request, MaxDeletions, Null

Purpose == {"email_verification", "password_reset"}

Status == {"ACTIVE", "SUSPENDED"}

AccountRow == [mail : Email, status : Status, verified : BOOLEAN, deleted : BOOLEAN]

CodeRow == [mail : Email, purpose : Purpose, live : BOOLEAN]

TokenRow == [owner : Account, open : BOOLEAN, before : BOOLEAN, late : BOOLEAN]

ASSUME AccountsAssumption ==
    /\ Account \subseteq Nat /\ Code \subseteq Nat /\ Token \subseteq Nat
    /\ MaxDeletions \in Nat
    /\ Null \notin Account \cup Code \cup Token /\ Null \notin Email
    /\ Null \notin AccountRow /\ Null \notin CodeRow /\ Null \notin TokenRow
    /\ Null \notin [owner : Account, open : BOOLEAN]

VARIABLES account, code, token, deletions, request

accountVars == <<account, code, token, deletions, request>>

Place == {"idle", "create", "code", "issue", "spend", "recheck", "consume", "activate",
          "lookup", "resetFind", "reset", "served", "file", "write", "erase"}

RequestRow == [at : Place, who : Account \cup {Null}, mail : Email \cup {Null},
               row : Code \cup Token \cup {Null},
               input : Status \cup {"reset", Null}, late : BOOLEAN]

Idle == [at |-> "idle", who |-> Null, mail |-> Null, row |-> Null, input |-> Null,
         late |-> FALSE]

AccountsTypeOK ==
    /\ account \in [Account -> AccountRow \cup {Null}]
    /\ code \in [Code -> CodeRow \cup {Null}]
    /\ token \in [Token -> TokenRow \cup {Null}]
    /\ deletions \in [Account -> Nat]
    /\ request \in [Request -> RequestRow]

AccountsInit ==
    /\ account = [a \in Account |-> Null]
    /\ code = [c \in Code |-> Null]
    /\ token = [t \in Token |-> Null]
    /\ deletions = [a \in Account |-> 0]
    /\ request = [r \in Request |-> Idle]

-----------------------------------------------------------------------------

Live(a) == account[a] # Null /\ ~account[a].deleted

Active(a) == Live(a) /\ account[a].status = "ACTIVE"

Holds(a, e) == Live(a) /\ account[a].mail = e

(* A row's id: the next one of its table.                                  *)
NextRow(table, id) == table[id] = Null /\ \A i \in DOMAIN table : i < id => table[i] # Null

At(r, place) == request[r].at = place

(* The request moves on with the fields given, or ends.                    *)
Goes(r, row) == request' = [request EXCEPT ![r] = row]

To(r, place) == [request[r] EXCEPT !.at = place]

Ends(r) == Goes(r, Idle)

Starts(r, place, row) == At(r, "idle") /\ Goes(r, [row EXCEPT !.at = place])

-----------------------------------------------------------------------------
(* register: look, insert, send a code.                                    *)

Register(r, e) ==
    /\ \A a \in Account : ~Holds(a, e)
    /\ Starts(r, "create", [Idle EXCEPT !.mail = e])
    /\ UNCHANGED <<account, code, token, deletions>>

(* The unique index over live e-mails refuses the second of two inserts.   *)
CreateAccount(r) ==
    LET e == request[r].mail IN
    /\ At(r, "create")
    /\ \/ /\ \E a \in Account : Holds(a, e)
          /\ Ends(r) /\ UNCHANGED account
       \/ \E a \in Account :
            /\ \A b \in Account : ~Holds(b, e)
            /\ NextRow(account, a)
            /\ account' = [account EXCEPT ![a] =
                  [mail |-> e, status |-> "SUSPENDED", verified |-> FALSE, deleted |-> FALSE]]
            /\ Goes(r, To(r, "code"))
    /\ UNCHANGED <<code, token, deletions>>

AddCode(e, purpose) ==
    \E c \in Code :
       /\ NextRow(code, c)
       /\ code' = [code EXCEPT ![c] = [mail |-> e, purpose |-> purpose, live |-> TRUE]]

WelcomeCode(r) ==
    /\ At(r, "code")
    /\ AddCode(request[r].mail, "email_verification") /\ Ends(r)
    /\ UNCHANGED <<account, token, deletions>>

SendOtp(e, purpose) ==
    AddCode(e, purpose) /\ UNCHANGED <<account, token, deletions, request>>

-----------------------------------------------------------------------------
(* login, refresh, logout.                                                 *)

Login(r, a) ==
    /\ Active(a)
    /\ Starts(r, "issue", [Idle EXCEPT !.who = a])
    /\ UNCHANGED <<account, code, token, deletions>>

IssueTokenPair(r) ==
    LET from == request[r].row
        parent == from # Null /\ token[from].before
    IN
    /\ At(r, "issue")
    /\ \E t \in Token :
         /\ NextRow(token, t)
         /\ token' = [token EXCEPT ![t] =
               [owner |-> request[r].who, open |-> TRUE,
                before |-> request[r].late \/ parent,
                late |-> request[r].late \/ (from # Null /\ token[from].late)]]
    /\ Ends(r)
    /\ UNCHANGED <<account, code, deletions>>

Refresh(r, t) ==
    /\ token[t] # Null /\ token[t].open
    /\ Starts(r, "spend", [Idle EXCEPT !.who = token[t].owner, !.row = t])
    /\ UNCHANGED <<account, code, token, deletions>>

(* The token is revoked whatever became of it since it was read.           *)
Spend(r) ==
    /\ At(r, "spend")
    /\ token' = [token EXCEPT ![request[r].row].open = FALSE]
    /\ Goes(r, To(r, "recheck"))
    /\ UNCHANGED <<account, code, deletions>>

(* Mutant: the account is not looked at again.                             *)
RecheckNothing(r) ==
    /\ At(r, "recheck") /\ Goes(r, To(r, "issue"))
    /\ UNCHANGED <<account, code, token, deletions>>

Recheck(r) ==
    /\ At(r, "recheck")
    /\ IF Active(request[r].who) THEN Goes(r, To(r, "issue")) ELSE Ends(r)
    /\ UNCHANGED <<account, code, token, deletions>>

Logout(t) ==
    /\ token[t] # Null /\ token[t].open
    /\ token' = [token EXCEPT ![t].open = FALSE]
    /\ UNCHANGED <<account, code, deletions, request>>

-----------------------------------------------------------------------------
(* consumeOtp, and what verifyOtp and resetPassword do after it.           *)

(* A code of either purpose may be verified; a reset asks for its own.     *)
PresentCode(r, c, aim) ==
    /\ code[c] # Null /\ code[c].live
    /\ Starts(r, "consume", [Idle EXCEPT !.mail = code[c].mail, !.row = c, !.input = aim])
    /\ UNCHANGED <<account, code, token, deletions>>

VerifyOtp(r, c) == PresentCode(r, c, Null)

ResetPassword(r, c) ==
    code[c] # Null /\ code[c].purpose = "password_reset" /\ PresentCode(r, c, "reset")

ConsumeOtp(r) ==
    LET next == [request[r] EXCEPT !.row = Null] IN
    /\ At(r, "consume")
    /\ code' = [code EXCEPT ![request[r].row].live = FALSE]
    /\ IF request[r].input = "reset" THEN Goes(r, [next EXCEPT !.at = "resetFind"])
       ELSE IF code[request[r].row].purpose = "email_verification"
            THEN Goes(r, [next EXCEPT !.at = "activate"])
            ELSE Ends(r)
    /\ UNCHANGED <<account, token, deletions>>

Activate(r) ==
    /\ At(r, "activate")
    /\ account' = [a \in Account |->
          IF Holds(a, request[r].mail) /\ ~account[a].verified
          THEN [account[a] EXCEPT !.verified = TRUE, !.status = "ACTIVE"] ELSE account[a]]
    /\ Goes(r, To(r, "lookup"))
    /\ UNCHANGED <<code, token, deletions>>

Lookup(r) ==
    /\ At(r, "lookup")
    /\ \/ \E a \in Account :
            /\ Holds(a, request[r].mail) /\ Active(a)
            /\ Goes(r, [To(r, "issue") EXCEPT !.who = a])
       \/ /\ \A a \in Account : Holds(a, request[r].mail) => ~Active(a)
          /\ Ends(r)
    /\ UNCHANGED <<account, code, token, deletions>>

ResetFind(r) ==
    /\ At(r, "resetFind")
    /\ \/ \E a \in Account :
            Holds(a, request[r].mail) /\ Goes(r, [To(r, "reset") EXCEPT !.who = a])
       \/ (\A a \in Account : ~Holds(a, request[r].mail)) /\ Ends(r)
    /\ UNCHANGED <<account, code, token, deletions>>

Concerns(q, a) == request[q].at # "idle" /\ (request[q].who = a \/ request[q].mail = account[a].mail)

Mark(r, a) ==
    request' = [q \in Request |->
        IF q = r THEN Idle
        ELSE IF Concerns(q, a) THEN [request[q] EXCEPT !.late = TRUE] ELSE request[q]]

(* Mutant: the sessions stay.                                              *)
ResetPasswordOnly(r) ==
    LET a == request[r].who IN
    /\ At(r, "reset")
    /\ token' = [t \in Token |->
          IF token[t] # Null /\ token[t].owner = a THEN [token[t] EXCEPT !.before = TRUE]
          ELSE token[t]]
    /\ Mark(r, a)
    /\ UNCHANGED <<account, code, deletions>>

(* One transaction: the password, and every session of the account.        *)
ResetWrite(r) ==
    LET a == request[r].who IN
    /\ At(r, "reset")
    /\ token' = [t \in Token |->
          IF token[t] # Null /\ token[t].owner = a
          THEN [token[t] EXCEPT !.open = FALSE, !.before = TRUE] ELSE token[t]]
    /\ Mark(r, a)
    /\ UNCHANGED <<account, code, deletions>>

-----------------------------------------------------------------------------
(* The routes under /me, behind the guard. An access token outlives the    *)
(* refresh token issued with it; the guard reads the account every time.   *)

Guard(r, a) ==
    /\ \E t \in Token : token[t] # Null /\ token[t].owner = a
    /\ Active(a)
    /\ Starts(r, "served", [Idle EXCEPT !.who = a])
    /\ UNCHANGED <<account, code, token, deletions>>

RequestDeletion(r) ==
    LET a == request[r].who IN
    /\ At(r, "served")
    /\ IF Live(a) /\ deletions[a] = 0 THEN Goes(r, To(r, "file")) ELSE Ends(r)
    /\ UNCHANGED <<account, code, token, deletions>>

FileDeletion(r) ==
    LET a == request[r].who IN
    /\ At(r, "file") /\ deletions[a] < MaxDeletions
    /\ deletions' = [deletions EXCEPT ![a] = @ + 1]
    /\ Ends(r)
    /\ UNCHANGED <<account, code, token>>

(* me, updateProfile and changePassword write a name or the password; no   *)
(* session ends with it.                                                   *)
Serve(r) ==
    At(r, "served") /\ Ends(r) /\ UNCHANGED <<account, code, token, deletions>>

-----------------------------------------------------------------------------
(* CustomersService: a detail check, then the write.                       *)

AdminUpdate(r, a, s) ==
    /\ Live(a)
    /\ Starts(r, "write", [Idle EXCEPT !.who = a, !.input = s])
    /\ UNCHANGED <<account, code, token, deletions>>

WriteStatus(r) ==
    /\ At(r, "write")
    /\ account' = [account EXCEPT ![request[r].who].status = request[r].input]
    /\ Ends(r)
    /\ UNCHANGED <<code, token, deletions>>

AdminRemove(r, a) ==
    /\ Live(a)
    /\ Starts(r, "erase", [Idle EXCEPT !.who = a])
    /\ UNCHANGED <<account, code, token, deletions>>

Erase(r) ==
    /\ At(r, "erase")
    /\ account' = [account EXCEPT ![request[r].who].deleted = TRUE]
    /\ Ends(r)
    /\ UNCHANGED <<code, token, deletions>>

-----------------------------------------------------------------------------
(* Time, and a handler that dies between two steps.                        *)

ExpireToken(t) ==
    /\ token[t] # Null /\ token[t].open
    /\ token' = [token EXCEPT ![t].open = FALSE]
    /\ UNCHANGED <<account, code, deletions, request>>

ExpireCode(c) ==
    /\ code[c] # Null /\ code[c].live
    /\ code' = [code EXCEPT ![c].live = FALSE]
    /\ UNCHANGED <<account, token, deletions, request>>

Fail(r) ==
    /\ ~At(r, "idle") /\ Ends(r)
    /\ UNCHANGED <<account, code, token, deletions>>

AccountsNext ==
    \/ \E e \in Email, purpose \in Purpose : SendOtp(e, purpose)
    \/ \E r \in Request, e \in Email : Register(r, e)
    \/ \E r \in Request :
          \/ CreateAccount(r) \/ WelcomeCode(r)
          \/ IssueTokenPair(r) \/ Spend(r) \/ Recheck(r)
          \/ ConsumeOtp(r) \/ Activate(r) \/ Lookup(r) \/ ResetFind(r) \/ ResetWrite(r)
          \/ RequestDeletion(r) \/ FileDeletion(r) \/ Serve(r)
          \/ WriteStatus(r) \/ Erase(r) \/ Fail(r)
    \/ \E r \in Request, a \in Account :
          \/ Login(r, a) \/ Guard(r, a) \/ AdminRemove(r, a)
          \/ \E s \in Status : AdminUpdate(r, a, s)
    \/ \E r \in Request, c \in Code : VerifyOtp(r, c) \/ ResetPassword(r, c)
    \/ \E r \in Request, t \in Token : Refresh(r, t)
    \/ \E t \in Token : Logout(t) \/ ExpireToken(t)
    \/ \E c \in Code : ExpireCode(c)

AccountsSpec == AccountsInit /\ [][AccountsNext]_accountVars

-----------------------------------------------------------------------------
(* A session that outlives a reset of the password was obtained by a       *)
(* request that the reset met halfway, or rotated from such a session      *)
(* (resetPassword revokes only what is there when it commits).             *)
ResetEndsSessions ==
    \A t \in Token : token[t] # Null /\ token[t].open /\ token[t].before => token[t].late

(* A customer who proved the address and was then suspended is active      *)
(* again only by an admin: no code sent before or after lifts it           *)
(* (verifyOtp, whose filter is emailVerifiedAt: null).                     *)
SuspensionHolds ==
    [][\A a \in Account :
          account[a] # Null /\ account[a].verified /\ account[a].status = "SUSPENDED"
             /\ account'[a].status = "ACTIVE" => \E r \in Request : WriteStatus(r)]_accountVars

(* Accounts keep the promise of Sessions.                                  *)
Standing ==
    [a \in Account |->
       IF account[a] = Null THEN "none"
       ELSE IF account[a].deleted THEN "closed"
       ELSE IF account[a].status = "ACTIVE" THEN "active"
       ELSE IF account[a].verified THEN "suspended" ELSE "pending"]

Sessions ==
    [t \in Token |->
       IF token[t] = Null THEN Null ELSE [owner |-> token[t].owner, open |-> token[t].open]]

Warrants == [r \in Request |-> IF At(r, "issue") THEN request[r].who ELSE Null]

Promise == INSTANCE Sessions
           WITH Session <- Token, standing <- Standing, session <- Sessions, warrant <- Warrants,
                None <- Null

CustomerPromise == Promise!SessionsSpec

(* Sessions begin for active accounts only, and a suspension is lifted by  *)
(* nobody but an admin: the two above.                                     *)
SessionsHold == CustomerPromise /\ SuspensionHolds

=============================================================================
