----------------------------- MODULE OfficeProofs ---------------------------
(***************************************************************************)
(* Proofs about the people of the shop and what an office works with, each *)
(* component on its own: Accounts, AdminAccounts, GiftCards, Quotes,       *)
(* Offers, Belongings and Figures, which share no state.                   *)
(*                                                                         *)
(* Accounts: the promises rest on what a request has looked up (RequestOK),*)
(* on live e-mails being unique (MailsUnique) and on tokens having an owner*)
(* (TokensOwned).                                                          *)
(*                                                                         *)
(* AdminAccounts: likewise, on ErrandOK and on passes having an owner      *)
(* (PassesOwned).                                                          *)
(*                                                                         *)
(* Gift cards: a card holds what its transactions add up to. The balance   *)
(* alone is not inductive: that a correction which may still commit works  *)
(* on the card as it is makes it so (CopiesAreCurrent).                    *)
(*                                                                         *)
(* Quotes: a client answers an offer of the office once. Behind it, a quote*)
(* that stands open has no answer to its offer (OfferIsOpen), and an answer*)
(* under way is of a client that has not answered that offer (AnswersAreNew).*)
(*                                                                         *)
(* Offers and Belongings: a row of theirs that no two requests crossed is  *)
(* whole; behind it, what a request in the middle of its writes knows of   *)
(* the row it writes.                                                      *)
(*                                                                         *)
(* Figures: a report is worked out in one step, so what is proved is       *)
(* arithmetic: every report splits the same rows into classes (Alike), and *)
(* what is summed class by class is the sum (ClassesAddUp).                *)
(***************************************************************************)
EXTENDS Accounts, AdminAccounts, GiftCards, Quotes, Offers, Belongings, Figures, Sums,
        FiniteSetTheorems, TLAPS

-----------------------------------------------------------------------------
(* Customers: Accounts.                                                    *)

Ahead(q) == q.at \in {"issue", "spend", "recheck"}

Named(q) == q.at \in {"issue", "spend", "recheck", "served", "file", "write", "erase", "reset"}

Mailed(q) == q.at \in {"create", "code", "consume", "activate", "lookup", "resetFind"}

(* The token a request came with, if any, and what a reset made of it.     *)
TokenOK(q) ==
    \/ q.at = "issue" /\ q.row = Null
    \/ /\ q.row \in Token /\ token[q.row] # Null /\ token[q.row].owner = q.who
       /\ token[q.row].before => token[q.row].late \/ q.late

RequestOK(q) ==
    /\ Named(q) => q.who \in Account /\ account[q.who] # Null
    /\ Mailed(q) => q.mail \in Email
    /\ q.at = "consume" => q.row \in Code /\ code[q.row] # Null
    /\ q.at \in {"activate", "lookup"} => q.row = Null
    /\ q.at = "write" => q.input \in Status
    /\ Ahead(q) => TokenOK(q)

MailsUnique == \A a, b \in Account, e \in Email : Holds(a, e) /\ Holds(b, e) => a = b

TokensOwned == \A t \in Token : token[t] # Null => account[token[t].owner] # Null

AccountsInv ==
    /\ AccountsTypeOK /\ ResetEndsSessions /\ MailsUnique /\ TokensOwned
    /\ \A r \in Request : RequestOK(request[r])

LEMMA IdleIsRow == Idle \in RequestRow /\ Idle.at = "idle"
BY DEF Idle, RequestRow, Place

LEMMA RequestIsRow ==
    ASSUME AccountsInv, NEW r \in Request
    PROVE  request[r] \in RequestRow /\ RequestOK(request[r])
BY DEF AccountsInv, AccountsTypeOK

LEMMA AccountsInitInv == AccountsInit => AccountsInv
<1> SUFFICES ASSUME AccountsInit PROVE AccountsInv
  OBVIOUS
<1>1. AccountsTypeOK
  BY IdleIsRow DEF AccountsInit, AccountsTypeOK
<1>2. ResetEndsSessions /\ MailsUnique /\ TokensOwned
  BY DEF AccountsInit, ResetEndsSessions, MailsUnique, TokensOwned, Holds, Live
<1>3. \A r \in Request : RequestOK(request[r])
  BY IdleIsRow DEF AccountsInit, RequestOK, Named, Mailed, Ahead
<1> QED
  BY <1>1, <1>2, <1>3 DEF AccountsInv

-----------------------------------------------------------------------------
(* The requests stay in order when rows are only added or lose nothing.    *)
LEMMA RequestsKept ==
    ASSUME AccountsInv,
           \A a \in Account : account[a] # Null => account'[a] # Null,
           \A c \in Code : code[c] # Null => code'[c] # Null,
           \A t \in Token : token[t] # Null =>
              /\ token'[t] # Null /\ token'[t].owner = token[t].owner
              /\ token'[t].before = token[t].before /\ token'[t].late = token[t].late,
           \A q \in Request : request'[q] \in {request[q], Idle} \/ RequestOK(request[q])'
    PROVE  \A q \in Request : RequestOK(request[q])'
<1> SUFFICES ASSUME NEW q \in Request PROVE RequestOK(request[q])'
  OBVIOUS
<1>1. CASE request'[q] = Idle
  BY <1>1, IdleIsRow DEF RequestOK, Named, Mailed, Ahead
<1>2. CASE request'[q] = request[q]
  BY <1>2 DEF AccountsInv, RequestOK, Named, Mailed, Ahead, TokenOK
<1> QED
  BY <1>1, <1>2

LEMMA ErasedIsGone ==
    ASSUME AccountsInv, NEW r \in Request, NEW row \in RequestRow, Goes(r, row)
    PROVE  /\ request' \in [Request -> RequestRow]
           /\ \A q \in Request : request'[q] = IF q = r THEN row ELSE request[q]
BY DEF Goes, AccountsInv, AccountsTypeOK

LEMMA Ended ==
    ASSUME AccountsInv, NEW r \in Request, Ends(r)
    PROVE  request' \in [Request -> RequestRow] /\ \A q \in Request : request'[q] \in {request[q], Idle}
BY ErasedIsGone, IdleIsRow DEF Ends

(* A step that only moves a request.                                       *)
LEMMA OnlyGoes ==
    ASSUME AccountsInv, NEW r \in Request, NEW row \in RequestRow, Goes(r, row), RequestOK(row),
           UNCHANGED <<account, code, token, deletions>>
    PROVE  AccountsInv'
<1>1. AccountsTypeOK'
  BY ErasedIsGone DEF AccountsInv, AccountsTypeOK
<1>2. ResetEndsSessions' /\ MailsUnique' /\ TokensOwned'
  BY DEF AccountsInv, ResetEndsSessions, MailsUnique, TokensOwned, Holds, Live
<1>3. \A q \in Request : request'[q] = IF q = r THEN row ELSE request[q]
  BY ErasedIsGone
<1>4. \A q \in Request : RequestOK(request[q])'
  BY <1>3 DEF AccountsInv, RequestOK, Named, Mailed, Ahead, TokenOK
<1> QED
  BY <1>1, <1>2, <1>4 DEF AccountsInv

LEMMA OnlyEnds ==
    ASSUME AccountsInv, NEW r \in Request, Ends(r), UNCHANGED <<account, code, token, deletions>>
    PROVE  AccountsInv'
<1>1. RequestOK(Idle)
  BY IdleIsRow DEF RequestOK, Named, Mailed, Ahead
<1> QED
  BY <1>1, IdleIsRow, OnlyGoes DEF Ends

(* The requests that come in.                                              *)
LEMMA StartStep ==
    ASSUME AccountsInv, NEW r \in Request,
           \/ \E e \in Email : Register(r, e)
           \/ \E a \in Account : Login(r, a) \/ Guard(r, a) \/ AdminRemove(r, a)
                                 \/ \E s \in Status : AdminUpdate(r, a, s)
    PROVE  AccountsInv'
<1>1. ASSUME NEW e \in Email, Register(r, e) PROVE AccountsInv'
  <2> DEFINE row == [Idle EXCEPT !.mail = e, !.at = "create"]
  <2>1. Goes(r, row) /\ UNCHANGED <<account, code, token, deletions>>
    BY <1>1 DEF Register, Starts, Goes, Idle
  <2>2. row \in RequestRow /\ RequestOK(row)
    BY DEF Idle, RequestRow, Place, RequestOK, Named, Mailed, Ahead
  <2> QED
    BY <2>1, <2>2, OnlyGoes
<1>2. ASSUME NEW a \in Account, NEW place \in {"issue", "served", "erase"},
             account[a] # Null, Goes(r, [Idle EXCEPT !.who = a, !.at = place]),
             UNCHANGED <<account, code, token, deletions>>
      PROVE  AccountsInv'
  <2> DEFINE row == [Idle EXCEPT !.who = a, !.at = place]
  <2>1. row \in RequestRow /\ RequestOK(row)
    BY <1>2 DEF Idle, RequestRow, Place, RequestOK, Named, Mailed, Ahead, TokenOK
  <2> QED
    BY <1>2, <2>1, OnlyGoes
<1>3. ASSUME NEW a \in Account, Login(r, a) \/ Guard(r, a) \/ AdminRemove(r, a) PROVE AccountsInv'
  <2>1. account[a] # Null /\ UNCHANGED <<account, code, token, deletions>>
    BY <1>3 DEF Login, Guard, AdminRemove, Active, Live
  <2>2. \E place \in {"issue", "served", "erase"} : Goes(r, [Idle EXCEPT !.who = a, !.at = place])
    BY <1>3 DEF Login, Guard, AdminRemove, Starts, Goes, Idle
  <2> QED
    BY <1>2, <2>1, <2>2
<1>4. ASSUME NEW a \in Account, NEW s \in Status, AdminUpdate(r, a, s) PROVE AccountsInv'
  <2> DEFINE row == [Idle EXCEPT !.who = a, !.input = s, !.at = "write"]
  <2>1. account[a] # Null /\ Goes(r, row) /\ UNCHANGED <<account, code, token, deletions>>
    BY <1>4 DEF AdminUpdate, Live, Starts, Goes, Idle
  <2>2. row \in RequestRow /\ RequestOK(row)
    BY <2>1 DEF Idle, RequestRow, Place, RequestOK, Named, Mailed, Ahead
  <2> QED
    BY <2>1, <2>2, OnlyGoes
<1> QED
  BY <1>1, <1>3, <1>4

(* The requests that bring a token or a code.                              *)
LEMMA PresentStep ==
    ASSUME AccountsInv, NEW r \in Request,
           \/ \E t \in Token : Refresh(r, t)
           \/ \E c \in Code : VerifyOtp(r, c) \/ ResetPassword(r, c)
    PROVE  AccountsInv'
<1>1. ASSUME NEW t \in Token, Refresh(r, t) PROVE AccountsInv'
  <2> DEFINE row == [Idle EXCEPT !.who = token[t].owner, !.row = t, !.at = "spend"]
  <2>1. /\ token[t] # Null /\ token[t].open /\ Goes(r, row)
        /\ UNCHANGED <<account, code, token, deletions>>
    BY <1>1 DEF Refresh, Starts, Goes, Idle
  <2>2. token[t] \in TokenRow /\ (token[t].before => token[t].late)
    BY <2>1 DEF AccountsInv, AccountsTypeOK, ResetEndsSessions
  <2>3. account[token[t].owner] # Null
    BY <2>1 DEF AccountsInv, TokensOwned
  <2>4. row \in RequestRow /\ RequestOK(row)
    BY <2>1, <2>2, <2>3 DEF TokenRow, Idle, RequestRow, Place, RequestOK, Named, Mailed, Ahead, TokenOK
  <2> QED
    BY <2>1, <2>4, OnlyGoes
<1>2. ASSUME NEW c \in Code, NEW aim \in {"reset", Null}, PresentCode(r, c, aim) PROVE AccountsInv'
  <2> DEFINE row == [Idle EXCEPT !.mail = code[c].mail, !.row = c, !.input = aim, !.at = "consume"]
  <2>1. code[c] # Null /\ Goes(r, row) /\ UNCHANGED <<account, code, token, deletions>>
    BY <1>2 DEF PresentCode, Starts, Goes, Idle
  <2>2. code[c].mail \in Email
    BY <2>1 DEF AccountsInv, AccountsTypeOK, CodeRow
  <2>3. row \in RequestRow /\ RequestOK(row)
    BY <2>1, <2>2 DEF Idle, RequestRow, Place, RequestOK, Named, Mailed, Ahead
  <2> QED
    BY <2>1, <2>3, OnlyGoes
<1> QED
  BY <1>1, <1>2 DEF VerifyOtp, ResetPassword

(* The steps between that write no row: Recheck, Lookup, ResetFind,        *)
(* RequestDeletion, Serve and Fail.                                        *)
LEMMA BetweenStep ==
    ASSUME AccountsInv, NEW r \in Request,
           Recheck(r) \/ Lookup(r) \/ ResetFind(r) \/ RequestDeletion(r) \/ Serve(r) \/ Fail(r)
    PROVE  AccountsInv'
<1>1. request[r] \in RequestRow /\ RequestOK(request[r])
  BY RequestIsRow
<1>2. UNCHANGED <<account, code, token, deletions>>
  BY DEF Recheck, Lookup, ResetFind, RequestDeletion, Serve, Fail
<1>3. CASE Ends(r)
  BY <1>2, <1>3, OnlyEnds
<1>4. ASSUME NEW place \in {"issue", "file"}, Goes(r, To(r, place)), Named(request[r]),
             place = "issue" => request[r].at = "recheck"
      PROVE  AccountsInv'
  <2> DEFINE row == To(r, place)
  <2>1. row \in RequestRow /\ RequestOK(row)
    BY <1>1, <1>4 DEF To, RequestRow, Place, RequestOK, Named, Mailed, Ahead, TokenOK
  <2> QED
    BY <1>2, <1>4, <2>1, OnlyGoes
<1>5. ASSUME NEW a \in Account, NEW place \in {"issue", "reset"}, account[a] # Null,
             Goes(r, [To(r, place) EXCEPT !.who = a]),
             place = "issue" => request[r].at = "lookup"
      PROVE  AccountsInv'
  <2> DEFINE row == [To(r, place) EXCEPT !.who = a]
  <2>1. row \in RequestRow /\ RequestOK(row)
    BY <1>1, <1>5 DEF To, RequestRow, Place, RequestOK, Named, Mailed, Ahead, TokenOK
  <2> QED
    BY <1>2, <1>5, <2>1, OnlyGoes
<1>6. CASE Recheck(r)
  BY <1>3, <1>4, <1>6 DEF Recheck, At, Named
<1>7. CASE Lookup(r)
  BY <1>3, <1>5, <1>7 DEF Lookup, Active, Live, At
<1>8. CASE ResetFind(r)
  BY <1>3, <1>5, <1>8 DEF ResetFind, Holds, Live
<1>9. CASE RequestDeletion(r)
  BY <1>3, <1>4, <1>9 DEF RequestDeletion, At, Named
<1> QED
  BY <1>3, <1>6, <1>7, <1>8, <1>9 DEF Serve, Fail

-----------------------------------------------------------------------------
(* Codes.                                                                  *)

(* The table of codes changes, and no code is lost.                        *)
LEMMA CodeStep ==
    ASSUME AccountsInv, UNCHANGED <<account, token, deletions>>,
           code' \in [Code -> CodeRow \cup {Null}],
           \A c \in Code : code[c] # Null => code'[c] # Null,
           request' \in [Request -> RequestRow],
           \A q \in Request : request'[q] \in {request[q], Idle} \/ RequestOK(request[q])'
    PROVE  AccountsInv'
<1>1. AccountsTypeOK'
  BY DEF AccountsInv, AccountsTypeOK
<1>2. ResetEndsSessions' /\ MailsUnique' /\ TokensOwned'
  BY DEF AccountsInv, ResetEndsSessions, MailsUnique, TokensOwned, Holds, Live
<1>3. \A q \in Request : RequestOK(request[q])'
  BY RequestsKept
<1> QED
  BY <1>1, <1>2, <1>3 DEF AccountsInv

LEMMA AddCodeStep ==
    ASSUME AccountsInv, NEW e \in Email, NEW purpose \in Purpose, AddCode(e, purpose),
           UNCHANGED <<account, token, deletions>>,
           UNCHANGED request \/ \E r \in Request : Ends(r)
    PROVE  AccountsInv'
<1> DEFINE row == [mail |-> e, purpose |-> purpose, live |-> TRUE]
<1>1. PICK c \in Code : code' = [code EXCEPT ![c] = row]
  BY DEF AddCode
<1>2. row \in CodeRow /\ row # Null
  <2>1. row \in CodeRow
    BY DEF CodeRow
  <2> QED
    BY <2>1, AccountsAssumption
<1>3. code' \in [Code -> CodeRow \cup {Null}] /\ \A d \in Code : code[d] # Null => code'[d] # Null
  BY <1>1, <1>2 DEF AccountsInv, AccountsTypeOK
<1>4. request' \in [Request -> RequestRow] /\ \A q \in Request : request'[q] \in {request[q], Idle}
  BY Ended DEF AccountsInv, AccountsTypeOK
<1> QED
  BY <1>3, <1>4, CodeStep

(* A code that is spent keeps its row.                                     *)
LEMMA SpentCode ==
    ASSUME AccountsInv, NEW c \in Code, code[c] # Null, code' = [code EXCEPT ![c].live = FALSE]
    PROVE  code' \in [Code -> CodeRow \cup {Null}] /\ \A d \in Code : code[d] # Null => code'[d] # Null
<1>1. code[c] \in CodeRow /\ code \in [Code -> CodeRow \cup {Null}]
  BY DEF AccountsInv, AccountsTypeOK
<1>2. [code[c] EXCEPT !.live = FALSE] \in CodeRow
  BY <1>1 DEF CodeRow
<1>3. \A d \in Code : code'[d] = IF d = c THEN [code[c] EXCEPT !.live = FALSE] ELSE code[d]
  BY <1>1
<1> QED
  BY <1>1, <1>2, <1>3, AccountsAssumption

LEMMA CodesStep ==
    ASSUME AccountsInv,
           \/ \E e \in Email, purpose \in Purpose : SendOtp(e, purpose)
           \/ \E r \in Request : WelcomeCode(r) \/ ConsumeOtp(r)
           \/ \E c \in Code : ExpireCode(c)
    PROVE  AccountsInv'
<1>1. ASSUME NEW e \in Email, NEW purpose \in Purpose, SendOtp(e, purpose) PROVE AccountsInv'
  BY <1>1, AddCodeStep DEF SendOtp
<1>2. ASSUME NEW r \in Request, WelcomeCode(r) PROVE AccountsInv'
  <2>1. request[r].at = "code" /\ Ends(r) /\ AddCode(request[r].mail, "email_verification")
        /\ UNCHANGED <<account, token, deletions>>
    BY <1>2 DEF WelcomeCode, At
  <2>2. request[r].mail \in Email
    BY <2>1, RequestIsRow DEF RequestOK, Mailed
  <2> QED
    BY <2>1, <2>2, AddCodeStep DEF Purpose
<1>3. ASSUME NEW r \in Request, ConsumeOtp(r) PROVE AccountsInv'
  <2> DEFINE c == request[r].row
             next == [request[r] EXCEPT !.row = Null]
  <2>1. /\ request[r] \in RequestRow /\ c \in Code /\ code[c] # Null /\ request[r].mail \in Email
        /\ request[r].at = "consume"
    BY <1>3, RequestIsRow DEF ConsumeOtp, At, RequestOK, Mailed
  <2>2. code' = [code EXCEPT ![c].live = FALSE] /\ UNCHANGED <<account, token, deletions>>
    BY <1>3 DEF ConsumeOtp
  <2>3. code' \in [Code -> CodeRow \cup {Null}] /\ \A d \in Code : code[d] # Null => code'[d] # Null
    BY <2>1, <2>2, SpentCode
  <2>4. PICK row \in {[next EXCEPT !.at = "resetFind"], [next EXCEPT !.at = "activate"], Idle} : Goes(r, row)
    BY <1>3 DEF ConsumeOtp, Ends
  <2>5. row \in RequestRow
    BY <2>1, IdleIsRow DEF RequestRow, Place
  <2>6. request' \in [Request -> RequestRow]
        /\ \A q \in Request : request'[q] = IF q = r THEN row ELSE request[q]
    BY <2>4, <2>5, ErasedIsGone
  <2>7. RequestOK(request[r])'
    <3>1. /\ request'[r] = row /\ row.at \in {"resetFind", "activate", "idle"}
          /\ row.at # "idle" => row.mail = request[r].mail /\ row.row = Null
      <4>1. /\ [next EXCEPT !.at = "resetFind"].at = "resetFind"
            /\ [next EXCEPT !.at = "resetFind"].mail = request[r].mail
            /\ [next EXCEPT !.at = "resetFind"].row = Null
        BY <2>1 DEF RequestRow
      <4>2. /\ [next EXCEPT !.at = "activate"].at = "activate"
            /\ [next EXCEPT !.at = "activate"].mail = request[r].mail
            /\ [next EXCEPT !.at = "activate"].row = Null
        BY <2>1 DEF RequestRow
      <4> HIDE DEF next
      <4> QED
        BY <2>4, <2>6, <4>1, <4>2, IdleIsRow
    <3> QED
      BY <2>1, <3>1 DEF RequestOK, Named, Mailed, Ahead
  <2>8. \A q \in Request : request'[q] \in {request[q], Idle} \/ RequestOK(request[q])'
    BY <2>6, <2>7
  <2> QED
    BY <2>2, <2>3, <2>6, <2>8, CodeStep
<1>4. ASSUME NEW c \in Code, ExpireCode(c) PROVE AccountsInv'
  <2>1. code' \in [Code -> CodeRow \cup {Null}] /\ \A d \in Code : code[d] # Null => code'[d] # Null
    BY <1>4, SpentCode DEF ExpireCode
  <2> QED
    BY <1>4, <2>1, CodeStep DEF ExpireCode, AccountsInv, AccountsTypeOK
<1> QED
  BY <1>1, <1>2, <1>3, <1>4

-----------------------------------------------------------------------------
(* Tokens.                                                                 *)
LEMMA IssueStep == ASSUME AccountsInv, NEW r \in Request, IssueTokenPair(r) PROVE AccountsInv'
<1> DEFINE from == request[r].row
           who == request[r].who
           parent == from # Null /\ token[from].before
           row == [owner |-> who, open |-> TRUE, before |-> request[r].late \/ parent,
                   late |-> request[r].late \/ (from # Null /\ token[from].late)]
<1>1. PICK t \in Token : token[t] = Null /\ token' = [token EXCEPT ![t] = row]
  BY DEF IssueTokenPair, NextRow
<1>2. request[r].at = "issue" /\ Ends(r) /\ UNCHANGED <<account, code, deletions>>
  BY DEF IssueTokenPair, At
<1>3. /\ request[r] \in RequestRow /\ who \in Account /\ account[who] # Null
      /\ from # Null => /\ from \in Token /\ token[from] \in TokenRow
                        /\ token[from].before => token[from].late \/ request[r].late
  BY <1>2, RequestIsRow DEF RequestOK, Named, Ahead, TokenOK, AccountsInv, AccountsTypeOK
<1>4. row \in TokenRow
  BY <1>3 DEF TokenRow, RequestRow
<1>5. row.before => row.late
  BY <1>3
<1>6. \A s \in Token : token'[s] = IF s = t THEN row ELSE token[s]
  BY <1>1 DEF AccountsInv, AccountsTypeOK
<1>7. row.owner = who
  OBVIOUS
<1> HIDE DEF row
<1>8. AccountsTypeOK'
  BY <1>1, <1>2, <1>4, Ended DEF AccountsInv, AccountsTypeOK
<1>9. ResetEndsSessions'
  BY <1>5, <1>6 DEF AccountsInv, ResetEndsSessions
<1>10. TokensOwned' /\ MailsUnique'
  BY <1>2, <1>3, <1>6, <1>7 DEF AccountsInv, TokensOwned, MailsUnique, Holds, Live
<1>11. \A q \in Request : RequestOK(request[q])'
  BY <1>1, <1>2, <1>6, Ended, RequestsKept
<1> QED
  BY <1>8, <1>9, <1>10, <1>11 DEF AccountsInv

(* A token that is closed.                                                 *)
LEMMA CloseToken ==
    ASSUME AccountsInv, NEW t \in Token, token[t] # Null,
           token' = [token EXCEPT ![t].open = FALSE],
           UNCHANGED <<account, code, deletions>>,
           request' \in [Request -> RequestRow],
           \A q \in Request : request'[q] \in {request[q], Idle} \/ RequestOK(request[q])'
    PROVE  AccountsInv'
<1> DEFINE row == [token[t] EXCEPT !.open = FALSE]
<1>1. token[t] \in TokenRow
  BY DEF AccountsInv, AccountsTypeOK
<1>2. /\ row \in TokenRow /\ row.owner = token[t].owner /\ ~row.open
      /\ row.before = token[t].before /\ row.late = token[t].late
  BY <1>1 DEF TokenRow
<1>3. row # Null
  BY <1>2, AccountsAssumption
<1>4. \A s \in Token : token'[s] = IF s = t THEN row ELSE token[s]
  BY DEF AccountsInv, AccountsTypeOK
<1>5. AccountsTypeOK'
  BY <1>2 DEF AccountsInv, AccountsTypeOK
<1> HIDE DEF row
<1>6. ResetEndsSessions' /\ TokensOwned' /\ MailsUnique'
  BY <1>2, <1>4 DEF AccountsInv, ResetEndsSessions, TokensOwned, MailsUnique, Holds, Live
<1>7. \A q \in Request : RequestOK(request[q])'
  BY <1>2, <1>3, <1>4, RequestsKept
<1> QED
  BY <1>5, <1>6, <1>7 DEF AccountsInv

LEMMA SpendStep == ASSUME AccountsInv, NEW r \in Request, Spend(r) PROVE AccountsInv'
<1> DEFINE t == request[r].row
           row == To(r, "recheck")
<1>1. /\ request[r].at = "spend" /\ Goes(r, row) /\ UNCHANGED <<account, code, deletions>>
      /\ token' = [token EXCEPT ![t].open = FALSE]
  BY DEF Spend, At
<1>2. request[r] \in RequestRow /\ RequestOK(request[r])
  BY RequestIsRow
<1>3. t \in Token /\ token[t] # Null /\ token[t] \in TokenRow
  BY <1>1, <1>2 DEF RequestOK, Ahead, TokenOK, AccountsInv, AccountsTypeOK
<1>4. row \in RequestRow
  BY <1>2 DEF To, RequestRow, Place
<1>5. request' \in [Request -> RequestRow] /\ \A q \in Request : request'[q] = IF q = r THEN row ELSE request[q]
  BY <1>1, <1>4, ErasedIsGone
<1>6. /\ token'[t] # Null /\ token'[t].owner = token[t].owner
      /\ token'[t].before = token[t].before /\ token'[t].late = token[t].late
  <2>1. token'[t] = [token[t] EXCEPT !.open = FALSE]
    BY <1>1, <1>3 DEF AccountsInv, AccountsTypeOK
  <2>2. token'[t] \in TokenRow
    BY <1>3, <2>1 DEF TokenRow
  <2> QED
    BY <1>3, <2>1, <2>2, AccountsAssumption DEF TokenRow
<1>7. RequestOK(request[r])'
  <2>1. /\ request'[r].at = "recheck" /\ request'[r].who = request[r].who
        /\ request'[r].row = t /\ request'[r].late = request[r].late
    BY <1>2, <1>5 DEF To, RequestRow
  <2> QED
    BY <1>1, <1>2, <1>3, <1>6, <2>1 DEF RequestOK, Named, Mailed, Ahead, TokenOK
<1>8. \A q \in Request : request'[q] \in {request[q], Idle} \/ RequestOK(request[q])'
  BY <1>5, <1>7
<1> QED
  BY <1>1, <1>3, <1>5, <1>8, CloseToken

LEMMA LogoutStep == ASSUME AccountsInv, NEW t \in Token, Logout(t) \/ ExpireToken(t) PROVE AccountsInv'
BY CloseToken DEF Logout, ExpireToken, AccountsInv, AccountsTypeOK

LEMMA ResetStep == ASSUME AccountsInv, NEW r \in Request, ResetWrite(r) PROVE AccountsInv'
<1> DEFINE a == request[r].who
<1>1. /\ token' = [t \in Token |-> IF token[t] # Null /\ token[t].owner = a
                   THEN [token[t] EXCEPT !.open = FALSE, !.before = TRUE] ELSE token[t]]
      /\ request' = [q \in Request |->
            IF q = r THEN Idle
            ELSE IF Concerns(q, a) THEN [request[q] EXCEPT !.late = TRUE] ELSE request[q]]
      /\ UNCHANGED <<account, code, deletions>>
  BY DEF ResetWrite, Mark
<1>2. \A t \in Token :
        /\ token[t] = Null => token'[t] = Null
        /\ token[t] # Null =>
              /\ token'[t] \in TokenRow /\ token'[t] # Null
              /\ token'[t].owner = token[t].owner /\ token'[t].late = token[t].late
              /\ token[t].owner = a => ~token'[t].open
              /\ token[t].owner # a => token'[t] = token[t]
  <2> SUFFICES ASSUME NEW t \in Token, token[t] # Null
               PROVE  /\ token'[t] \in TokenRow /\ token'[t] # Null
                      /\ token'[t].owner = token[t].owner /\ token'[t].late = token[t].late
                      /\ token[t].owner = a => ~token'[t].open
                      /\ token[t].owner # a => token'[t] = token[t]
    BY <1>1
  <2>1. token[t] \in TokenRow
    BY DEF AccountsInv, AccountsTypeOK
  <2>2. token'[t] = IF token[t].owner = a THEN [token[t] EXCEPT !.open = FALSE, !.before = TRUE]
                    ELSE token[t]
    BY <1>1
  <2>3. /\ token'[t] \in TokenRow /\ token'[t].owner = token[t].owner /\ token'[t].late = token[t].late
        /\ token[t].owner = a => ~token'[t].open
    BY <2>1, <2>2 DEF TokenRow
  <2> QED
    BY <2>2, <2>3, AccountsAssumption
<1>3. \A q \in Request :
        \/ request'[q] = Idle
        \/ /\ request[q] \in RequestRow /\ request'[q] \in RequestRow
           /\ request'[q].at = request[q].at /\ request'[q].who = request[q].who
           /\ request'[q].mail = request[q].mail /\ request'[q].row = request[q].row
           /\ request'[q].input = request[q].input
           /\ request[q].late => request'[q].late
           /\ request[q].at # "idle" /\ request[q].who = a => request'[q].late
  BY <1>1 DEF Concerns, AccountsInv, AccountsTypeOK, RequestRow
<1>4. AccountsTypeOK'
  <2>1. token' \in [Token -> TokenRow \cup {Null}]
    BY <1>1, <1>2
  <2>2. request' \in [Request -> RequestRow]
    BY <1>1, <1>3, IdleIsRow
  <2> QED
    BY <1>1, <2>1, <2>2 DEF AccountsInv, AccountsTypeOK
<1>5. ResetEndsSessions'
  BY <1>2 DEF AccountsInv, ResetEndsSessions
<1>6. TokensOwned' /\ MailsUnique'
  BY <1>1, <1>2 DEF AccountsInv, TokensOwned, MailsUnique, Holds, Live
<1>7. \A q \in Request : RequestOK(request[q])'
  <2> SUFFICES ASSUME NEW q \in Request, request'[q] # Idle PROVE RequestOK(request[q])'
    BY IdleIsRow DEF RequestOK, Named, Mailed, Ahead
  <2>1. RequestOK(request[q])
    BY DEF AccountsInv
  <2>2. Ahead(request'[q]) => TokenOK(request[q])'
    BY <1>2, <1>3, <2>1 DEF RequestOK, Named, Ahead, TokenOK
  <2> QED
    BY <1>1, <1>3, <2>1, <2>2 DEF RequestOK, Named, Mailed, Ahead
<1> QED
  BY <1>4, <1>5, <1>6, <1>7 DEF AccountsInv

-----------------------------------------------------------------------------
(* Accounts.                                                               *)

(* The rows of the accounts change, and none is lost.                      *)
LEMMA AccountStep ==
    ASSUME AccountsInv, UNCHANGED <<code, token, deletions>>,
           account' \in [Account -> AccountRow \cup {Null}],
           \A a \in Account : account[a] # Null => account'[a] # Null,
           MailsUnique',
           request' \in [Request -> RequestRow],
           \A q \in Request : request'[q] \in {request[q], Idle} \/ RequestOK(request[q])'
    PROVE  AccountsInv'
<1>1. AccountsTypeOK'
  BY DEF AccountsInv, AccountsTypeOK
<1>2. ResetEndsSessions' /\ TokensOwned'
  BY DEF AccountsInv, AccountsTypeOK, TokenRow, ResetEndsSessions, TokensOwned
<1>3. \A q \in Request : RequestOK(request[q])'
  BY RequestsKept
<1> QED
  BY <1>1, <1>2, <1>3 DEF AccountsInv

(* Rewriting rows with the same e-mail, none of them restored.             *)
LEMMA RewriteStep ==
    ASSUME AccountsInv, UNCHANGED <<code, token, deletions>>,
           account' \in [Account -> AccountRow \cup {Null}],
           \A a \in Account : account[a] = Null => account'[a] = Null,
           \A a \in Account : account[a] # Null =>
              /\ account'[a] # Null /\ account'[a].mail = account[a].mail
              /\ account[a].deleted => account'[a].deleted,
           request' \in [Request -> RequestRow],
           \A q \in Request : request'[q] \in {request[q], Idle} \/ RequestOK(request[q])'
    PROVE  AccountsInv'
<1>1. \A a \in Account, e \in Email : Holds(a, e)' => Holds(a, e)
  BY DEF Holds, Live
<1>2. MailsUnique'
  BY <1>1 DEF AccountsInv, MailsUnique
<1> QED
  BY <1>2, AccountStep

LEMMA CreateAccountStep == ASSUME AccountsInv, NEW r \in Request, CreateAccount(r) PROVE AccountsInv'
<1> DEFINE e == request[r].mail
           fresh == [mail |-> e, status |-> "SUSPENDED", verified |-> FALSE, deleted |-> FALSE]
<1>1. request[r] \in RequestRow /\ RequestOK(request[r]) /\ request[r].at = "create" /\ e \in Email
      /\ UNCHANGED <<code, token, deletions>>
  BY RequestIsRow DEF CreateAccount, At, RequestOK, Mailed
<1>2. CASE Ends(r) /\ UNCHANGED account
  BY <1>1, <1>2, OnlyEnds
<1>3. ASSUME NEW a \in Account, \A b \in Account : ~Holds(b, e), account[a] = Null,
             account' = [account EXCEPT ![a] = fresh], Goes(r, To(r, "code"))
      PROVE  AccountsInv'
  <2>1. fresh \in AccountRow /\ fresh.mail = e
    BY <1>1 DEF AccountRow, Status
  <2>2. fresh # Null
    BY <2>1, AccountsAssumption
  <2> HIDE DEF fresh
  <2>3. \A b \in Account : account'[b] = IF b = a THEN fresh ELSE account[b]
    BY <1>3 DEF AccountsInv, AccountsTypeOK
  <2>4. account' \in [Account -> AccountRow \cup {Null}]
    BY <1>3, <2>1 DEF AccountsInv, AccountsTypeOK
  <2>5. MailsUnique'
    <3>1. \A b \in Account, m \in Email : Holds(b, m)' => (b = a /\ m = e) \/ (b # a /\ Holds(b, m))
      BY <2>1, <2>3 DEF Holds, Live
    <3> QED
      BY <1>3, <3>1 DEF AccountsInv, MailsUnique
  <2>6. To(r, "code") \in RequestRow /\ To(r, "code").at = "code" /\ To(r, "code").mail = e
    BY <1>1 DEF To, RequestRow, Place
  <2>7. request' \in [Request -> RequestRow]
        /\ \A q \in Request : request'[q] = IF q = r THEN To(r, "code") ELSE request[q]
    BY <1>3, <2>6, ErasedIsGone
  <2>8. RequestOK(request[r])'
    BY <1>1, <2>6, <2>7 DEF RequestOK, Named, Mailed, Ahead
  <2>9. \A q \in Request : request'[q] \in {request[q], Idle} \/ RequestOK(request[q])'
    BY <2>7, <2>8
  <2> QED
    BY <1>1, <2>2, <2>3, <2>4, <2>5, <2>7, <2>9, AccountStep
<1> QED
  BY <1>2, <1>3 DEF CreateAccount, NextRow

(* What an admin writes: one row, with its e-mail and its proof of it.     *)
LEMMA WrittenRow ==
    ASSUME AccountsInv, NEW r \in Request, WriteStatus(r) \/ Erase(r)
    PROVE  \E a \in Account, row \in AccountRow :
              /\ account[a] # Null /\ account' = [account EXCEPT ![a] = row]
              /\ row.mail = account[a].mail /\ row.verified = account[a].verified
              /\ account[a].deleted => row.deleted
              /\ Erase(r) => row.status = account[a].status
<1> DEFINE a == request[r].who
           input == request[r].input
           rewritten == [account[a] EXCEPT !.status = input]
           erased == [account[a] EXCEPT !.deleted = TRUE]
<1>1. a \in Account /\ account[a] # Null /\ account[a] \in AccountRow
  BY RequestIsRow DEF WriteStatus, Erase, At, RequestOK, Named, AccountsInv, AccountsTypeOK
<1>2. CASE Erase(r)
  <2>1. /\ erased \in AccountRow /\ erased.mail = account[a].mail /\ erased.deleted
        /\ erased.verified = account[a].verified /\ erased.status = account[a].status
    BY <1>1 DEF AccountRow
  <2>2. account' = [account EXCEPT ![a] = erased]
    BY <1>1, <1>2 DEF Erase, AccountsInv, AccountsTypeOK
  <2> HIDE DEF erased
  <2> QED
    BY <1>1, <2>1, <2>2
<1>3. CASE WriteStatus(r)
  <2>1. input \in Status
    BY <1>3, RequestIsRow DEF WriteStatus, At, RequestOK
  <2>2. /\ rewritten \in AccountRow /\ rewritten.mail = account[a].mail
        /\ rewritten.verified = account[a].verified /\ rewritten.deleted = account[a].deleted
    BY <1>1, <2>1 DEF AccountRow
  <2>3. account' = [account EXCEPT ![a] = rewritten]
    BY <1>1, <1>3 DEF WriteStatus, AccountsInv, AccountsTypeOK
  <2>4. ~Erase(r)
    BY <1>3 DEF WriteStatus, Erase, At
  <2> HIDE DEF rewritten
  <2> QED
    BY <1>1, <2>2, <2>3, <2>4
<1> QED
  BY <1>2, <1>3

(* What a verified code makes of an account.                               *)
LEMMA ActivatedRows ==
    ASSUME AccountsInv, NEW r \in Request, Activate(r)
    PROVE  /\ account' \in [Account -> AccountRow \cup {Null}]
           /\ \A a \in Account :
                 \/ account'[a] = account[a]
                 \/ /\ Holds(a, request[r].mail) /\ ~account[a].verified
                    /\ account'[a] \in AccountRow /\ account'[a] # Null
                    /\ account'[a].mail = account[a].mail /\ ~account'[a].deleted
                    /\ account'[a].verified /\ account'[a].status = "ACTIVE"
<1> DEFINE e == request[r].mail
<1>1. account' = [a \in Account |->
          IF Holds(a, e) /\ ~account[a].verified
          THEN [account[a] EXCEPT !.verified = TRUE, !.status = "ACTIVE"] ELSE account[a]]
  BY DEF Activate
<1>2. ASSUME NEW a \in Account, Holds(a, e), ~account[a].verified
      PROVE  /\ account'[a] \in AccountRow /\ account'[a] # Null
             /\ account'[a].mail = account[a].mail /\ ~account'[a].deleted
             /\ account'[a].verified /\ account'[a].status = "ACTIVE"
  <2>1. account[a] \in AccountRow /\ ~account[a].deleted
    BY <1>2 DEF Holds, Live, AccountsInv, AccountsTypeOK
  <2>2. account'[a] = [account[a] EXCEPT !.verified = TRUE, !.status = "ACTIVE"]
    BY <1>1, <1>2
  <2>3. /\ account'[a] \in AccountRow
        /\ account'[a].mail = account[a].mail /\ ~account'[a].deleted
        /\ account'[a].verified /\ account'[a].status = "ACTIVE"
    BY <2>1, <2>2 DEF AccountRow, Status
  <2> QED
    BY <2>3, AccountsAssumption
<1>3. \A a \in Account : account'[a] = account[a] \/ (Holds(a, e) /\ ~account[a].verified)
  BY <1>1
<1>4. \A a \in Account : account'[a] \in AccountRow \cup {Null}
  BY <1>2, <1>3 DEF AccountsInv, AccountsTypeOK
<1>5. account' \in [Account -> AccountRow \cup {Null}]
  BY <1>1, <1>4
<1> QED
  BY <1>2, <1>3, <1>5

LEMMA AccountsWriteStep ==
    ASSUME AccountsInv, NEW r \in Request, WriteStatus(r) \/ Erase(r) \/ Activate(r)
    PROVE  AccountsInv'
<1>1. CASE WriteStatus(r) \/ Erase(r)
  <2>1. PICK a \in Account, row \in AccountRow :
          /\ account[a] # Null /\ account' = [account EXCEPT ![a] = row]
          /\ row.mail = account[a].mail
          /\ account[a].deleted => row.deleted
    BY <1>1, WrittenRow
  <2>2. Ends(r) /\ UNCHANGED <<code, token, deletions>>
    BY <1>1 DEF WriteStatus, Erase
  <2>3. row # Null
    BY AccountsAssumption
  <2>4. /\ account' \in [Account -> AccountRow \cup {Null}]
        /\ \A b \in Account : account'[b] = IF b = a THEN row ELSE account[b]
    BY <2>1 DEF AccountsInv, AccountsTypeOK
  <2> QED
    BY <2>1, <2>2, <2>3, <2>4, Ended, RewriteStep
<1>2. CASE Activate(r)
  <2>1. Goes(r, To(r, "lookup")) /\ request[r].at = "activate" /\ UNCHANGED <<code, token, deletions>>
    BY <1>2 DEF Activate, At
  <2>2. request[r] \in RequestRow /\ RequestOK(request[r])
    BY RequestIsRow
  <2>3. To(r, "lookup") \in RequestRow /\ RequestOK(To(r, "lookup"))
        /\ To(r, "lookup").at = "lookup" /\ To(r, "lookup").mail = request[r].mail
        /\ To(r, "lookup").row = request[r].row
    BY <2>1, <2>2 DEF To, RequestRow, Place, RequestOK, Named, Mailed, Ahead
  <2>4. request' \in [Request -> RequestRow]
        /\ \A q \in Request : request'[q] = IF q = r THEN To(r, "lookup") ELSE request[q]
    BY <2>1, <2>3, ErasedIsGone
  <2>5. RequestOK(request[r])'
    BY <2>1, <2>2, <2>3, <2>4 DEF RequestOK, Named, Mailed, Ahead
  <2>6. \A q \in Request : request'[q] \in {request[q], Idle} \/ RequestOK(request[q])'
    BY <2>4, <2>5
  <2>7. \A a \in Account :
          /\ account[a] = Null => account'[a] = Null
          /\ account[a] # Null =>
                /\ account'[a] # Null /\ account'[a].mail = account[a].mail
                /\ account[a].deleted => account'[a].deleted
    BY <1>2, ActivatedRows DEF Holds, Live
  <2> QED
    BY <1>2, <2>1, <2>4, <2>6, <2>7, ActivatedRows, RewriteStep
<1> QED
  BY <1>1, <1>2

LEMMA FileStep == ASSUME AccountsInv, NEW r \in Request, FileDeletion(r) PROVE AccountsInv'
<1>1. Ends(r) /\ UNCHANGED <<account, code, token>> /\ deletions' \in [Account -> Nat]
  <2>1. request[r].who \in Account
    BY RequestIsRow DEF FileDeletion, At, RequestOK, Named
  <2> QED
    BY <2>1 DEF FileDeletion, AccountsInv, AccountsTypeOK
<1>2. AccountsTypeOK'
  BY <1>1, Ended DEF AccountsInv, AccountsTypeOK
<1>3. ResetEndsSessions' /\ MailsUnique' /\ TokensOwned'
  BY <1>1 DEF AccountsInv, ResetEndsSessions, MailsUnique, TokensOwned, Holds, Live
<1>4. \A q \in Request : RequestOK(request[q])'
  BY <1>1, Ended, RequestsKept
<1> QED
  BY <1>2, <1>3, <1>4 DEF AccountsInv

LEMMA AccountsStep == AccountsInv /\ [AccountsNext]_accountVars => AccountsInv'
<1> SUFFICES ASSUME AccountsInv, [AccountsNext]_accountVars PROVE AccountsInv'
  OBVIOUS
<1>1. CASE UNCHANGED accountVars
  BY <1>1 DEF accountVars, AccountsInv, AccountsTypeOK, ResetEndsSessions, MailsUnique, TokensOwned,
              Holds, Live, RequestOK, Named, Mailed, Ahead, TokenOK
<1> QED
  BY <1>1, StartStep, PresentStep, BetweenStep, CodesStep, IssueStep, SpendStep, LogoutStep,
     ResetStep, CreateAccountStep, AccountsWriteStep, FileStep
     DEF AccountsNext

(* A session that outlives a reset of the password met it halfway, however *)
(* many requests run (StorefrontAuthService.resetPassword).                *)
THEOREM ResetsEndSessions == AccountsSpec => [](AccountsTypeOK /\ ResetEndsSessions)
<1>1. AccountsInv => AccountsTypeOK /\ ResetEndsSessions
  BY DEF AccountsInv
<1> QED
  BY AccountsInitInv, AccountsStep, <1>1, PTL DEF AccountsSpec

-----------------------------------------------------------------------------
(* The promise of Sessions, step by step.                                  *)

(* A request that neither was nor gets cleared to open a session.          *)
LEMMA Uncleared ==
    ASSUME AccountsInv, NEW r \in Request, request[r].at # "issue",
           NEW row \in RequestRow, row.at # "issue", Goes(r, row)
    PROVE  UNCHANGED Warrants
BY ErasedIsGone DEF Warrants, At

LEMMA UnclearedEnd ==
    ASSUME AccountsInv, NEW r \in Request, request[r].at # "issue", Ends(r)
    PROVE  UNCHANGED Warrants
BY Uncleared, IdleIsRow DEF Ends

LEMMA SameSessions == ASSUME UNCHANGED token PROVE UNCHANGED Sessions
BY DEF Sessions

LEMMA SameStanding == ASSUME UNCHANGED account PROVE UNCHANGED Standing
BY DEF Standing

(* Tokens that are closed or stay.                                         *)
LEMMA TokensShorten ==
    ASSUME AccountsInv,
           \A t \in Token :
              /\ token[t] = Null => token'[t] = Null
              /\ token[t] # Null => /\ token'[t] \in TokenRow /\ token'[t].owner = token[t].owner
                                    /\ token'[t].open \in {FALSE, token[t].open}
    PROVE  Promise!Shortened
<1> SUFFICES ASSUME NEW t \in Token
             PROVE  \/ Sessions'[t] = Sessions[t]
                    \/ Promise!Open(t) /\ Sessions'[t] = [owner |-> Sessions[t].owner, open |-> FALSE]
  BY DEF Promise!Shortened
<1>1. CASE token[t] = Null
  BY <1>1 DEF Sessions
<1>2. CASE token[t] # Null
  <2>1. token[t] \in TokenRow /\ token'[t] \in TokenRow /\ token'[t] # Null
    BY <1>2, AccountsAssumption DEF AccountsInv, AccountsTypeOK
  <2>2. Sessions[t] = [owner |-> token[t].owner, open |-> token[t].open]
    BY <1>2 DEF Sessions
  <2>3. Sessions'[t] = [owner |-> token[t].owner, open |-> token'[t].open]
    BY <1>2, <2>1 DEF Sessions
  <2>4. CASE token'[t].open = token[t].open
    BY <2>2, <2>3, <2>4, Zenon
  <2>5. CASE token'[t].open # token[t].open
    <3>1. token'[t].open = FALSE /\ token[t].open
      BY <1>2, <2>1, <2>5 DEF TokenRow
    <3>2. Sessions[t].owner = token[t].owner /\ (Sessions[t].open <=> token[t].open)
      BY <2>2
    <3>3. Sessions'[t] = [owner |-> Sessions[t].owner, open |-> FALSE]
      BY <2>3, <3>1, <3>2, Zenon
    <3>4. Sessions[t] # Null
      <4>1. [owner |-> token[t].owner, open |-> token[t].open] \in [owner : Account, open : BOOLEAN]
        BY <2>1 DEF TokenRow
      <4> QED
        BY <2>2, <4>1, AccountsAssumption
    <3>5. Promise!Open(t)
      BY <3>1, <3>2, <3>4 DEF Promise!Open
    <3> QED
      BY <3>3, <3>5
  <2> QED
    BY <2>4, <2>5
<1> QED
  BY <1>1, <1>2

LEMMA PromiseInit == AccountsInit => Promise!SessionsInit
<1> SUFFICES ASSUME AccountsInit PROVE Promise!SessionsInit
  OBVIOUS
<1>1. Standing \in [Account -> {"none", "active"}]
  BY DEF AccountsInit, Standing
<1>2. Sessions = [t \in Token |-> Null] /\ Warrants = [r \in Request |-> Null]
  BY DEF AccountsInit, Sessions, Warrants, At, Idle
<1> QED
  BY <1>1, <1>2 DEF Promise!SessionsInit

(* A step on one account that is one of the moves, or none.                *)
LEMMA Judged ==
    ASSUME NEW a \in Account,
           \A b \in Account \ {a} : account'[b] = account[b],
           Standing'[a] = Standing[a] \/ <<Standing[a], Standing'[a]>> \in Promise!Moves,
           UNCHANGED <<Warrants, Sessions>>
    PROVE  Promise!End
<1>1. \A b \in Account \ {a} : Standing'[b] = Standing[b]
  BY DEF Standing
<1>2. Promise!Shortened
  BY DEF Promise!Shortened
<1>3. CASE Standing'[a] = Standing[a]
  <2>1. \A b \in Account : Standing'[b] = Standing[b]
    BY <1>1, <1>3
  <2>2. Standing' = Standing
    BY <2>1 DEF Standing
  <2> QED
    BY <1>2, <2>2 DEF Promise!End
<1>4. CASE <<Standing[a], Standing'[a]>> \in Promise!Moves
  <2>1. Promise!Judge(a)
    BY <1>1, <1>4 DEF Promise!Judge
  <2> QED
    BY <1>2, <2>1 DEF Promise!End
<1> QED
  BY <1>3, <1>4

LEMMA Stood ==
    ASSUME NEW a \in Account
    PROVE  Standing[a] = IF account[a] = Null THEN "none"
                         ELSE IF account[a].deleted THEN "closed"
                         ELSE IF account[a].status = "ACTIVE" THEN "active"
                         ELSE IF account[a].verified THEN "suspended" ELSE "pending"
BY DEF Standing

LEMMA StoodThen ==
    ASSUME NEW a \in Account
    PROVE  Standing'[a] = IF account'[a] = Null THEN "none"
                          ELSE IF account'[a].deleted THEN "closed"
                          ELSE IF account'[a].status = "ACTIVE" THEN "active"
                          ELSE IF account'[a].verified THEN "suspended" ELSE "pending"
BY DEF Standing

(* The steps that write accounts.                                          *)
LEMMA AccountsMap ==
    ASSUME AccountsInv, NEW r \in Request,
           CreateAccount(r) \/ Activate(r) \/ WriteStatus(r) \/ Erase(r)
    PROVE  Promise!End
<1>1. request[r] \in RequestRow /\ request[r].at # "issue" /\ UNCHANGED Sessions
  BY RequestIsRow, SameSessions DEF CreateAccount, Activate, WriteStatus, Erase, At
<1>2. ASSUME NEW place \in {"code", "lookup"}, Goes(r, To(r, place)) PROVE UNCHANGED Warrants
  <2>1. To(r, place) \in RequestRow /\ To(r, place).at # "issue"
    BY <1>1 DEF To, RequestRow, Place
  <2> QED
    BY <1>1, <1>2, <2>1, Uncleared
<1>3. UNCHANGED Warrants
  BY <1>1, <1>2, UnclearedEnd DEF CreateAccount, Activate, WriteStatus, Erase
<1>4. CASE UNCHANGED account
  <2>1. Standing' = Standing /\ Promise!Shortened
    BY <1>1, <1>4, SameStanding DEF Promise!Shortened
  <2> QED
    BY <1>3, <2>1 DEF Promise!End
<1>5. CASE CreateAccount(r) /\ ~UNCHANGED account
  <2> DEFINE fresh == [mail |-> request[r].mail, status |-> "SUSPENDED", verified |-> FALSE,
                       deleted |-> FALSE]
  <2>1. PICK a \in Account : account[a] = Null /\ account' = [account EXCEPT ![a] = fresh]
    BY <1>5 DEF CreateAccount, NextRow
  <2>2. fresh # Null
    <3>1. request[r].mail \in Email
      BY <1>5, RequestIsRow DEF CreateAccount, At, RequestOK, Mailed
    <3>2. fresh \in AccountRow
      BY <3>1 DEF AccountRow, Status
    <3> QED
      BY <3>2, AccountsAssumption
  <2>3. \A b \in Account : account'[b] = IF b = a THEN fresh ELSE account[b]
    BY <2>1 DEF AccountsInv, AccountsTypeOK
  <2>4. Standing[a] = "none" /\ Standing'[a] = "pending"
    BY <2>1, <2>2, <2>3, Stood, StoodThen
  <2>5. <<Standing[a], Standing'[a]>> \in Promise!Moves
    BY <2>4 DEF Promise!Moves
  <2> QED
    BY <1>1, <1>3, <2>3, <2>5, Judged
<1>6. CASE WriteStatus(r) \/ Erase(r)
  <2>1. PICK a \in Account, row \in AccountRow :
          /\ account[a] # Null /\ account' = [account EXCEPT ![a] = row]
          /\ row.verified = account[a].verified
          /\ account[a].deleted => row.deleted
          /\ Erase(r) => row.status = account[a].status
    BY <1>6, WrittenRow
  <2>2. \A b \in Account : account'[b] = IF b = a THEN row ELSE account[b]
    BY <2>1 DEF AccountsInv, AccountsTypeOK
  <2>3. row # Null /\ account[a] \in AccountRow
    BY <2>1, AccountsAssumption DEF AccountsInv, AccountsTypeOK
  <2>4. \/ Standing'[a] = Standing[a]
        \/ Standing[a] \in {"pending", "active", "suspended"} /\ Standing'[a] = "closed"
        \/ <<Standing[a], Standing'[a]>> \in {<<"pending", "active">>, <<"active", "pending">>,
              <<"active", "suspended">>, <<"suspended", "active">>}
    BY <2>1, <2>2, <2>3, Stood, StoodThen DEF AccountRow, Status
  <2>5. Standing'[a] = Standing[a] \/ <<Standing[a], Standing'[a]>> \in Promise!Moves
    BY <2>4 DEF Promise!Moves
  <2> QED
    BY <1>1, <1>3, <2>2, <2>5, Judged
<1>7. CASE Activate(r) /\ ~UNCHANGED account
  <2> DEFINE e == request[r].mail
  <2>1. e \in Email
    BY <1>7, RequestIsRow DEF Activate, At, RequestOK, Mailed
  <2>2. \A a \in Account :
           \/ account'[a] = account[a]
           \/ /\ Holds(a, e) /\ ~account[a].verified
              /\ account'[a] \in AccountRow /\ account'[a] # Null
              /\ ~account'[a].deleted /\ account'[a].status = "ACTIVE"
    BY <1>7, ActivatedRows
  <2>3. PICK a \in Account : account'[a] # account[a]
    BY <1>7, ActivatedRows DEF AccountsInv, AccountsTypeOK
  <2>4. \A b \in Account \ {a} : account'[b] = account[b]
    BY <2>1, <2>2, <2>3 DEF AccountsInv, MailsUnique
  <2>5. account[a] # Null /\ ~account[a].deleted /\ account[a] \in AccountRow
    BY <2>2, <2>3 DEF Holds, Live, AccountsInv, AccountsTypeOK
  <2>6. Standing[a] \in {"pending", "active"} /\ Standing'[a] = "active"
    BY <2>2, <2>3, <2>5, Stood, StoodThen
  <2>7. Standing'[a] = Standing[a] \/ <<Standing[a], Standing'[a]>> \in Promise!Moves
    BY <2>6 DEF Promise!Moves
  <2> QED
    BY <1>1, <1>3, <2>4, <2>7, Judged
<1> QED
  BY <1>4, <1>5, <1>6, <1>7

(* The steps that write tokens.                                            *)
LEMMA TokensMap ==
    ASSUME AccountsInv,
           \/ \E r \in Request : IssueTokenPair(r) \/ Spend(r) \/ ResetWrite(r)
           \/ \E t \in Token : Logout(t) \/ ExpireToken(t)
    PROVE  Promise!SessionsNext
<1>1. ASSUME NEW r \in Request, IssueTokenPair(r) PROVE Promise!SessionsNext
  <2> DEFINE from == request[r].row
             who == request[r].who
             row == [owner |-> who, open |-> TRUE,
                     before |-> request[r].late \/ (from # Null /\ token[from].before),
                     late |-> request[r].late \/ (from # Null /\ token[from].late)]
  <2>1. PICK t \in Token : token[t] = Null /\ token' = [token EXCEPT ![t] = row]
    BY <1>1 DEF IssueTokenPair, NextRow
  <2>2. request[r].at = "issue" /\ Ends(r) /\ UNCHANGED account
    BY <1>1 DEF IssueTokenPair, At
  <2>3. who \in Account /\ request[r] \in RequestRow /\ (from # Null => token[from] \in TokenRow)
    BY <2>2, RequestIsRow DEF RequestOK, Named, Ahead, TokenOK, AccountsInv, AccountsTypeOK
  <2>4. row # Null /\ row.owner = who /\ row.open = TRUE
    <3>1. row \in TokenRow
      BY <2>3 DEF TokenRow, RequestRow
    <3> QED
      BY <3>1, AccountsAssumption
  <2> HIDE DEF row
  <2>5. Sessions[t] = Null /\ Sessions' = [Sessions EXCEPT ![t] = [owner |-> who, open |-> TRUE]]
    <3>1. Sessions[t] = Null
      BY <2>1 DEF Sessions
    <3>2. token'[t] = row /\ \A s \in Token \ {t} : token'[s] = token[s]
      BY <2>1 DEF AccountsInv, AccountsTypeOK
    <3>3. Sessions'[t] = [owner |-> row.owner, open |-> row.open]
      BY <2>4, <3>2 DEF Sessions
    <3>4. Sessions'[t] = [owner |-> who, open |-> TRUE]
      BY <2>4, <3>3, Zenon
    <3>5. \A s \in Token \ {t} : Sessions'[s] = Sessions[s]
      BY <3>2 DEF Sessions
    <3> QED
      BY <3>1, <3>4, <3>5 DEF Sessions
  <2>6. Warrants[r] = who /\ Warrants' = [Warrants EXCEPT ![r] = Null]
    BY <2>2, ErasedIsGone, IdleIsRow DEF Ends, Warrants, At
  <2>7. Warrants[r] # Null
    BY <2>3, <2>6, AccountsAssumption
  <2>8. Promise!Begin(r, t)
    BY <2>2, <2>5, <2>6, <2>7, SameStanding DEF Promise!Begin
  <2> QED
    BY <2>8 DEF Promise!SessionsNext
<1>2. ASSUME NEW t \in Token, token[t] # Null, token' = [token EXCEPT ![t].open = FALSE],
             UNCHANGED account, UNCHANGED Warrants
      PROVE  Promise!SessionsNext
  <2>1. \A s \in Token : token'[s] = IF s = t THEN [token[t] EXCEPT !.open = FALSE] ELSE token[s]
    BY <1>2 DEF AccountsInv, AccountsTypeOK
  <2>2. \A s \in Token : token[s] # Null => token[s] \in TokenRow
    BY DEF AccountsInv, AccountsTypeOK
  <2>3. Promise!Shortened
    <3>1. \A s \in Token : token[s] # Null =>
             /\ token'[s] \in TokenRow /\ token'[s].owner = token[s].owner
             /\ token'[s].open \in {FALSE, token[s].open}
      BY <2>1, <2>2 DEF TokenRow
    <3>2. \A s \in Token : token[s] = Null => token'[s] = Null
      BY <1>2, <2>1
    <3> QED
      BY <3>1, <3>2, TokensShorten
  <2> QED
    BY <1>2, <2>3, SameStanding DEF Promise!End, Promise!SessionsNext
<1>3. ASSUME NEW r \in Request, Spend(r) PROVE Promise!SessionsNext
  <2>1. /\ request[r] \in RequestRow /\ request[r].at # "issue"
        /\ request[r].row \in Token /\ token[request[r].row] # Null
    BY <1>3, RequestIsRow DEF Spend, At, RequestOK, Ahead, TokenOK
  <2>2. To(r, "recheck") \in RequestRow /\ To(r, "recheck").at # "issue"
    BY <2>1 DEF To, RequestRow, Place
  <2>3. UNCHANGED Warrants
    BY <1>3, <2>1, <2>2, Uncleared DEF Spend
  <2> QED
    BY <1>2, <1>3, <2>1, <2>3 DEF Spend
<1>4. ASSUME NEW t \in Token, Logout(t) \/ ExpireToken(t) PROVE Promise!SessionsNext
  <2>1. UNCHANGED Warrants
    BY <1>4 DEF Logout, ExpireToken, Warrants, At
  <2> QED
    BY <1>2, <1>4, <2>1 DEF Logout, ExpireToken
<1>5. ASSUME NEW r \in Request, ResetWrite(r) PROVE Promise!SessionsNext
  <2> DEFINE a == request[r].who
  <2>1. /\ token' = [t \in Token |-> IF token[t] # Null /\ token[t].owner = a
                   THEN [token[t] EXCEPT !.open = FALSE, !.before = TRUE] ELSE token[t]]
        /\ request' = [q \in Request |->
              IF q = r THEN Idle
              ELSE IF Concerns(q, a) THEN [request[q] EXCEPT !.late = TRUE] ELSE request[q]]
        /\ request[r].at = "reset" /\ UNCHANGED account
    BY <1>5 DEF ResetWrite, Mark, At
  <2>2. \A t \in Token : token[t] # Null => token[t] \in TokenRow
    BY DEF AccountsInv, AccountsTypeOK
  <2>3. Promise!Shortened
    <3>1. \A t \in Token : token[t] # Null =>
             /\ token'[t] \in TokenRow /\ token'[t].owner = token[t].owner
             /\ token'[t].open \in {FALSE, token[t].open}
      <4> SUFFICES ASSUME NEW t \in Token, token[t] # Null
                   PROVE  /\ token'[t] \in TokenRow /\ token'[t].owner = token[t].owner
                          /\ token'[t].open \in {FALSE, token[t].open}
        OBVIOUS
      <4>1. token[t] \in TokenRow
        BY <2>2
      <4>2. CASE token[t].owner = a
        BY <2>1, <4>1, <4>2 DEF TokenRow
      <4>3. CASE token[t].owner # a
        BY <2>1, <4>1, <4>3 DEF TokenRow
      <4> QED
        BY <4>2, <4>3
    <3>2. \A t \in Token : token[t] = Null => token'[t] = Null
      BY <2>1
    <3> QED
      BY <3>1, <3>2, TokensShorten
  <2>4. \A q \in Request : /\ request'[q].at = "issue" <=> request[q].at = "issue"
                           /\ request[q].at = "issue" => request'[q].who = request[q].who
    BY <2>1, IdleIsRow DEF AccountsInv, AccountsTypeOK, RequestRow
  <2>5. UNCHANGED Warrants
    BY <2>4 DEF Warrants, At
  <2> QED
    BY <2>1, <2>3, <2>5, SameStanding DEF Promise!End, Promise!SessionsNext
<1> QED
  BY <1>1, <1>3, <1>4, <1>5

(* The steps that only clear a request to open a session, or drop one.     *)
LEMMA WarrantsMap ==
    ASSUME AccountsInv, NEW r \in Request,
           \/ Recheck(r) \/ Lookup(r) \/ Fail(r) \/ \E a \in Account : Login(r, a)
    PROVE  Promise!SessionsNext \/ UNCHANGED <<Standing, Sessions, Warrants>>
<1>1. request[r] \in RequestRow /\ RequestOK(request[r]) /\ UNCHANGED <<Standing, Sessions>>
  BY RequestIsRow, SameSessions, SameStanding DEF Recheck, Lookup, Fail, Login
<1>2. ASSUME NEW a \in Account, Active(a), request[r].at # "issue",
             NEW row \in RequestRow, row.at = "issue", row.who = a, Goes(r, row)
      PROVE  Promise!SessionsNext
  <2>1. Warrants[r] = Null /\ Warrants' = [Warrants EXCEPT ![r] = a]
    BY <1>2, ErasedIsGone DEF Warrants, At
  <2>2. Standing[a] = "active"
    BY <1>2, Stood DEF Active, Live
  <2>3. Promise!Grant(r, a)
    BY <1>1, <2>1, <2>2 DEF Promise!Grant
  <2> QED
    BY <2>3 DEF Promise!SessionsNext
<1>3. CASE request[r].at # "issue" /\ Ends(r)
  BY <1>1, <1>3, UnclearedEnd
<1>4. CASE Recheck(r)
  <2>1. request[r].at = "recheck" /\ request[r].who \in Account
    BY <1>1, <1>4 DEF Recheck, At, RequestOK, Named
  <2>2. To(r, "issue") \in RequestRow /\ To(r, "issue").at = "issue" /\ To(r, "issue").who = request[r].who
    BY <1>1 DEF To, RequestRow, Place
  <2> QED
    BY <1>2, <1>3, <1>4, <2>1, <2>2 DEF Recheck
<1>5. CASE Lookup(r)
  <2>1. request[r].at = "lookup"
    BY <1>5 DEF Lookup, At
  <2>2. ASSUME NEW a \in Account
        PROVE  /\ [To(r, "issue") EXCEPT !.who = a] \in RequestRow
               /\ [To(r, "issue") EXCEPT !.who = a].at = "issue"
               /\ [To(r, "issue") EXCEPT !.who = a].who = a
    BY <1>1 DEF To, RequestRow, Place
  <2>3. ASSUME NEW a \in Account, Active(a), Goes(r, [To(r, "issue") EXCEPT !.who = a])
        PROVE  Promise!SessionsNext
    BY <1>2, <2>1, <2>2, <2>3
  <2> QED
    BY <1>3, <1>5, <2>1, <2>3 DEF Lookup
<1>6. ASSUME NEW a \in Account, Login(r, a) PROVE Promise!SessionsNext
  <2> DEFINE row == [Idle EXCEPT !.who = a, !.at = "issue"]
  <2>1. row \in RequestRow /\ row.at = "issue" /\ row.who = a
    BY DEF Idle, RequestRow, Place
  <2>2. Goes(r, row) /\ Active(a) /\ request[r].at # "issue"
    BY <1>6 DEF Login, Starts, Goes, At, Idle
  <2> HIDE DEF row
  <2> QED
    BY <1>2, <2>1, <2>2
<1>7. CASE Fail(r) /\ request[r].at = "issue"
  <2>1. request[r].who \in Account
    BY <1>1, <1>7 DEF RequestOK, Named
  <2>2. Warrants[r] # Null /\ Warrants' = [Warrants EXCEPT ![r] = Null]
    BY <1>7, <2>1, ErasedIsGone, IdleIsRow, AccountsAssumption DEF Fail, Ends, Warrants, At
  <2>3. Promise!Drop(r)
    BY <1>1, <2>2 DEF Promise!Drop
  <2> QED
    BY <2>3 DEF Promise!SessionsNext
<1> QED
  BY <1>3, <1>4, <1>5, <1>6, <1>7 DEF Fail

(* The other steps have nothing to do with sessions.                       *)
LEMMA OthersStutter ==
    ASSUME AccountsInv,
           \/ \E e \in Email, purpose \in Purpose : SendOtp(e, purpose)
           \/ \E c \in Code : ExpireCode(c)
           \/ \E r \in Request :
                \/ WelcomeCode(r) \/ ConsumeOtp(r) \/ ResetFind(r) \/ RequestDeletion(r)
                \/ FileDeletion(r) \/ Serve(r)
                \/ \E e \in Email : Register(r, e)
                \/ \E a \in Account : \/ Guard(r, a) \/ AdminRemove(r, a)
                                      \/ \E s \in Status : AdminUpdate(r, a, s)
                \/ \E c \in Code : VerifyOtp(r, c) \/ ResetPassword(r, c)
                \/ \E t \in Token : Refresh(r, t)
    PROVE  UNCHANGED <<Standing, Sessions, Warrants>>
<1>1. UNCHANGED <<account, token>>
  BY DEF SendOtp, ExpireCode, WelcomeCode, ConsumeOtp, ResetFind, RequestDeletion, FileDeletion, Serve,
         Register, Guard, AdminRemove, AdminUpdate, VerifyOtp, ResetPassword, PresentCode, Refresh
<1>2. UNCHANGED <<Standing, Sessions>>
  BY <1>1, SameStanding, SameSessions
<1>3. AccountsInv'
  BY StartStep, PresentStep, BetweenStep, CodesStep, FileStep
<1>4. ASSUME NEW r \in Request, NEW row \in RequestRow, Goes(r, row), row.at # "issue",
             request[r].at = "idle"
      PROVE  UNCHANGED Warrants
  BY <1>4, Uncleared
<1>5. ASSUME NEW r \in Request, Ends(r), request[r].at # "issue" PROVE UNCHANGED Warrants
  BY <1>5, UnclearedEnd
<1>6. CASE \/ \E e \in Email, purpose \in Purpose : SendOtp(e, purpose)
           \/ \E c \in Code : ExpireCode(c)
  BY <1>2, <1>6 DEF SendOtp, ExpireCode, Warrants, At
<1>7. ASSUME NEW r \in Request, WelcomeCode(r) \/ FileDeletion(r) \/ Serve(r) PROVE UNCHANGED Warrants
  BY <1>5, <1>7 DEF WelcomeCode, FileDeletion, Serve, At
<1>8. ASSUME NEW r \in Request, ConsumeOtp(r) \/ ResetFind(r) \/ RequestDeletion(r)
      PROVE  UNCHANGED Warrants
  <2>1. request[r] \in RequestRow /\ request[r].at # "issue"
    BY <1>8, RequestIsRow DEF ConsumeOtp, ResetFind, RequestDeletion, At
  <2>2. \E row \in RequestRow : row.at # "issue" /\ Goes(r, row)
    <3>1. CASE Ends(r)
      BY <3>1, IdleIsRow DEF Ends
    <3>2. ASSUME NEW place \in {"resetFind", "activate"},
                 Goes(r, [[request[r] EXCEPT !.row = Null] EXCEPT !.at = place])
          PROVE  \E row \in RequestRow : row.at # "issue" /\ Goes(r, row)
      <4> DEFINE row == [[request[r] EXCEPT !.row = Null] EXCEPT !.at = place]
      <4>1. row \in RequestRow /\ row.at # "issue"
        BY <2>1 DEF RequestRow, Place
      <4> QED
        BY <3>2, <4>1
    <3>3. ASSUME NEW a \in Account, Goes(r, [To(r, "reset") EXCEPT !.who = a])
          PROVE  \E row \in RequestRow : row.at # "issue" /\ Goes(r, row)
      <4> DEFINE row == [To(r, "reset") EXCEPT !.who = a]
      <4>1. row \in RequestRow /\ row.at # "issue"
        BY <2>1 DEF To, RequestRow, Place
      <4> QED
        BY <3>3, <4>1
    <3>4. ASSUME Goes(r, To(r, "file"))
          PROVE  \E row \in RequestRow : row.at # "issue" /\ Goes(r, row)
      <4>1. To(r, "file") \in RequestRow /\ To(r, "file").at # "issue"
        BY <2>1 DEF To, RequestRow, Place
      <4> QED
        BY <3>4, <4>1
    <3> QED
      BY <1>8, <3>1, <3>2, <3>3, <3>4 DEF ConsumeOtp, ResetFind, RequestDeletion
  <2> QED
    BY <2>1, <2>2, Uncleared
<1>9. ASSUME NEW r \in Request, NEW e \in Email, Register(r, e) PROVE UNCHANGED Warrants
  <2> DEFINE row == [Idle EXCEPT !.mail = e, !.at = "create"]
  <2>1. row \in RequestRow /\ row.at = "create"
    BY DEF Idle, RequestRow, Place
  <2>2. Goes(r, row) /\ request[r].at = "idle"
    BY <1>9 DEF Register, Starts, Goes, At, Idle
  <2> HIDE DEF row
  <2> QED
    BY <1>4, <2>1, <2>2
<1>10. ASSUME NEW r \in Request, NEW a \in Account, Guard(r, a) \/ AdminRemove(r, a)
       PROVE  UNCHANGED Warrants
  <2>1. PICK place \in {"served", "erase"} : Goes(r, [Idle EXCEPT !.who = a, !.at = place])
    BY <1>10 DEF Guard, AdminRemove, Starts, Goes, Idle
  <2> DEFINE row == [Idle EXCEPT !.who = a, !.at = place]
  <2>2. row \in RequestRow /\ row.at # "issue"
    BY DEF Idle, RequestRow, Place
  <2>3. request[r].at = "idle" /\ Goes(r, row)
    BY <1>10, <2>1 DEF Guard, AdminRemove, Starts, At
  <2> HIDE DEF row
  <2> QED
    BY <1>4, <2>2, <2>3
<1>11. ASSUME NEW r \in Request, NEW a \in Account, NEW s \in Status, AdminUpdate(r, a, s)
       PROVE  UNCHANGED Warrants
  <2> DEFINE row == [Idle EXCEPT !.who = a, !.input = s, !.at = "write"]
  <2>1. row \in RequestRow /\ row.at # "issue"
    BY DEF Idle, RequestRow, Place
  <2>2. request[r].at = "idle" /\ Goes(r, row)
    BY <1>11 DEF AdminUpdate, Starts, Goes, At, Idle
  <2> HIDE DEF row
  <2> QED
    BY <1>4, <2>1, <2>2
<1>12. ASSUME NEW r \in Request, NEW c \in Code, VerifyOtp(r, c) \/ ResetPassword(r, c)
       PROVE  UNCHANGED Warrants
  <2>1. PICK aim \in {"reset", Null} : PresentCode(r, c, aim)
    BY <1>12 DEF VerifyOtp, ResetPassword
  <2> DEFINE row == [Idle EXCEPT !.mail = code[c].mail, !.row = c, !.input = aim, !.at = "consume"]
  <2>2. code[c].mail \in Email /\ request[r].at = "idle" /\ Goes(r, row)
    BY <2>1 DEF PresentCode, Starts, Goes, At, Idle, AccountsInv, AccountsTypeOK, CodeRow
  <2>3. row \in RequestRow /\ row.at = "consume"
    BY <2>2 DEF Idle, RequestRow, Place
  <2> HIDE DEF row
  <2> QED
    BY <1>4, <2>2, <2>3
<1>13. ASSUME NEW r \in Request, NEW t \in Token, Refresh(r, t) PROVE UNCHANGED Warrants
  <2> DEFINE row == [Idle EXCEPT !.who = token[t].owner, !.row = t, !.at = "spend"]
  <2>1. token[t].owner \in Account /\ request[r].at = "idle" /\ Goes(r, row)
    BY <1>13 DEF Refresh, Starts, Goes, At, Idle, AccountsInv, AccountsTypeOK, TokenRow
  <2>2. row \in RequestRow /\ row.at = "spend"
    BY <2>1 DEF Idle, RequestRow, Place
  <2> HIDE DEF row
  <2> QED
    BY <1>4, <2>1, <2>2
<1> QED
  BY <1>2, <1>6, <1>7, <1>8, <1>9, <1>10, <1>11, <1>12, <1>13

(* What lifts a suspension.                                                *)
LiftedByAdmin ==
    \A a \in Account :
       account[a] # Null /\ account[a].verified /\ account[a].status = "SUSPENDED"
          /\ account'[a].status = "ACTIVE" => \E r \in Request : WriteStatus(r)

LEMMA LiftStep == AccountsInv /\ [AccountsNext]_accountVars => [LiftedByAdmin]_accountVars
<1> SUFFICES ASSUME AccountsInv, AccountsNext PROVE LiftedByAdmin
  OBVIOUS
<1> SUFFICES ASSUME NEW a \in Account, account[a] # Null, account[a].verified,
                    account[a].status = "SUSPENDED", account'[a].status = "ACTIVE"
             PROVE  \E r \in Request : WriteStatus(r)
  BY DEF LiftedByAdmin
<1>1. account' # account
  BY DEF Status
<1>2. PICK r \in Request : CreateAccount(r) \/ Activate(r) \/ WriteStatus(r) \/ Erase(r)
  BY <1>1 DEF AccountsNext, SendOtp, Register, WelcomeCode, IssueTokenPair, Spend, Recheck, ConsumeOtp,
     Lookup, ResetFind, ResetWrite, RequestDeletion, FileDeletion, Serve, Fail, Login, Guard,
     AdminRemove, AdminUpdate, VerifyOtp, ResetPassword, PresentCode, Refresh, Logout, ExpireToken,
     ExpireCode
<1>3. CASE CreateAccount(r)
  BY <1>3 DEF CreateAccount, NextRow, AccountsInv, AccountsTypeOK
<1>4. CASE Activate(r)
  BY <1>4, ActivatedRows
<1>5. CASE Erase(r)
  <2>1. PICK b \in Account, row \in AccountRow :
          account' = [account EXCEPT ![b] = row] /\ row.status = account[b].status
    BY <1>5, WrittenRow
  <2> QED
    BY <2>1 DEF AccountsInv, AccountsTypeOK
<1> QED
  BY <1>2, <1>3, <1>4, <1>5

LEMMA AccountsStepMaps ==
    AccountsInv /\ [AccountsNext]_accountVars => [Promise!SessionsNext]_Promise!sessionVars
<1> SUFFICES ASSUME AccountsInv, [AccountsNext]_accountVars
             PROVE  Promise!SessionsNext \/ UNCHANGED <<Standing, Sessions, Warrants>>
  BY DEF Promise!sessionVars
<1>1. CASE UNCHANGED accountVars
  BY <1>1, SameSessions, SameStanding DEF accountVars, Warrants, At
<1>2. Promise!End => Promise!SessionsNext
  BY DEF Promise!SessionsNext
<1> QED
  BY <1>1, <1>2, AccountsMap, TokensMap, WarrantsMap, OthersStutter DEF AccountsNext

(* Signing in keeps the promise of Sessions, and only an admin lifts a     *)
(* suspension (StorefrontAuthService, CustomersService).                   *)
THEOREM CustomersKeepPromise == AccountsSpec => SessionsHold
<1>1. AccountsSpec => CustomerPromise
  BY PromiseInit, AccountsInitInv, AccountsStep, AccountsStepMaps, PTL
     DEF AccountsSpec, CustomerPromise, Promise!SessionsSpec
<1>2. AccountsSpec => SuspensionHolds
  BY AccountsInitInv, AccountsStep, LiftStep, PTL DEF AccountsSpec, SuspensionHolds, LiftedByAdmin
<1> QED
  BY <1>1, <1>2 DEF SessionsHold

-----------------------------------------------------------------------------
(* Administrators: AdminAccounts.                                          *)

ComesIn(e) == e.at \in {"issue", "spend", "recheck"}

(* The pass a request came with, if any.                                   *)
PassOK(e) ==
    \/ e.at = "issue" /\ e.row = Nobody
    \/ e.row \in Pass /\ pass[e.row] # Nobody /\ pass[e.row].owner = e.who

ErrandOK(e) ==
    /\ e.at # "idle" => e.who \in Admin /\ admin[e.who] # Nobody
    /\ ComesIn(e) => PassOK(e)
    /\ ComesIn(e) /\ admin[e.who].deleted => e.late \/ (e.row # Nobody /\ pass[e.row].late)
    /\ e.at \in {"update", "remove"} => e.row \in Admin /\ admin[e.row] # Nobody
    /\ e.at = "update" => e.dto \in Change
    /\ e.at = "remove" => e.row # e.who
    /\ e.at \in {"rewrite", "drop"} => e.row \in Role

PassesOwned == \A k \in Pass : pass[k] # Nobody => admin[pass[k].owner] # Nobody

AdminsInv ==
    /\ AdminsTypeOK /\ RolesKept /\ RemovalEndsPasses /\ SomeoneRemains
    /\ PassesOwned
    /\ \A r \in Errand : ErrandOK(errand[r])

(* Facts of the types.                                                     *)
LEMMA FreeIsRow == Free \in ErrandRow /\ ErrandOK(Free)
BY DEF Free, ErrandRow, ErrandOK, ComesIn

LEMMA AdminsInitInv == AdminsInit => AdminsInv
<1> SUFFICES ASSUME AdminsInit PROVE AdminsInv
  OBVIOUS
<1>1. PICK o \in Role, b \in Admin :
        /\ role = [i \in Role |-> IF i = o THEN Permission ELSE Nobody]
        /\ admin = [i \in Admin |->
              IF i = b THEN [role |-> o, status |-> "ACTIVE", deleted |-> FALSE] ELSE Nobody]
  BY DEF AdminsInit
<1>2. /\ pass = [k \in Pass |-> Nobody]
      /\ errand = [r \in Errand |-> Free]
      /\ crossed = FALSE
  BY DEF AdminsInit
<1>3. [role |-> o, status |-> "ACTIVE", deleted |-> FALSE] \in AdminRow
  BY DEF AdminRow, AdminStatus
<1>4. admin[b] \in AdminRow /\ admin[b].role = o /\ ~admin[b].deleted
  BY <1>1, <1>3
<1>5. AdminsTypeOK
  BY <1>1, <1>2, <1>3, FreeIsRow DEF AdminsTypeOK
<1>6. RolesKept
  BY <1>1, AdminsAssumption DEF RolesKept
<1>7. SomeoneRemains
  BY <1>4, AdminsAssumption DEF SomeoneRemains, Employed
<1>8. RemovalEndsPasses /\ PassesOwned
  BY <1>2 DEF RemovalEndsPasses, PassesOwned
<1> QED
  BY <1>2, <1>5, <1>6, <1>7, <1>8, FreeIsRow DEF AdminsInv

-----------------------------------------------------------------------------
(* A step that only moves a request.                                       *)
LEMMA OnlyLeads ==
    ASSUME AdminsInv, NEW r \in Errand, NEW row \in ErrandRow, ErrandOK(row),
           Leads(r, row), UNCHANGED <<role, admin, pass, crossed>>
    PROVE  AdminsInv'
<1>1. AdminsTypeOK'
  BY DEF AdminsInv, AdminsTypeOK, Leads
<1>2. RolesKept' /\ RemovalEndsPasses' /\ SomeoneRemains' /\ PassesOwned'
  BY DEF AdminsInv, RolesKept, RemovalEndsPasses, SomeoneRemains, PassesOwned, Employed
<1>3. \A q \in Errand : errand'[q] = row \/ errand'[q] = errand[q]
  BY DEF Leads, AdminsInv, AdminsTypeOK
<1>4. \A q \in Errand : ErrandOK(errand[q])' 
  BY <1>3 DEF AdminsInv, ErrandOK, ComesIn, PassOK
<1> QED
  BY <1>1, <1>2, <1>4 DEF AdminsInv

(* The rows of the requests that come in.                                  *)
LEMMA SignInStep ==
    ASSUME AdminsInv, NEW r \in Errand, NEW b \in Admin, SignIn(r, b) \/ Enter(r, b)
    PROVE  AdminsInv'
<1>1. admin[b] # Nobody /\ ~admin[b].deleted
  BY DEF SignIn, Enter, Allowed, Enabled, Employed
<1>2. PICK place \in {"issue", "in"} :
        Leads(r, [Free EXCEPT !.who = b, !.at = place]) /\ UNCHANGED <<role, admin, pass, crossed>>
  BY DEF SignIn, Enter, Opens, Leads, Free
<1> DEFINE row == [Free EXCEPT !.who = b, !.at = place]
<1>3. row \in ErrandRow /\ ErrandOK(row)
  BY <1>1 DEF Free, ErrandRow, ErrandOK, ComesIn, PassOK
<1> QED
  BY <1>2, <1>3, OnlyLeads

LEMMA RenewStep ==
    ASSUME AdminsInv, NEW r \in Errand, NEW k \in Pass, Renew(r, k)
    PROVE  AdminsInv'
<1> DEFINE row == [Free EXCEPT !.who = pass[k].owner, !.row = k, !.at = "spend"]
<1>1. /\ pass[k] # Nobody /\ pass[k].open
      /\ Leads(r, row) /\ UNCHANGED <<role, admin, pass, crossed>>
  BY DEF Renew, Opens, Leads, Free
<1>2. pass[k] \in PassRow /\ pass[k].owner \in Admin
  BY <1>1 DEF AdminsInv, AdminsTypeOK, PassRow
<1>3. admin[pass[k].owner] # Nobody
  BY <1>1 DEF AdminsInv, PassesOwned
<1>4. admin[pass[k].owner].deleted => pass[k].late
  BY <1>1 DEF AdminsInv, RemovalEndsPasses
<1>5. row \in ErrandRow /\ ErrandOK(row)
  BY <1>1, <1>2, <1>3, <1>4, AdminsAssumption DEF Free, ErrandRow, ErrandOK, ComesIn, PassOK
<1> QED
  BY <1>1, <1>5, OnlyLeads

LEMMA ErrandIsRow == ASSUME AdminsInv, NEW r \in Errand PROVE errand[r] \in ErrandRow /\ ErrandOK(errand[r])
BY DEF AdminsInv, AdminsTypeOK

LEMMA EndStep ==
    ASSUME AdminsInv, NEW r \in Errand, Finishes(r), UNCHANGED <<role, admin, pass, crossed>>
    PROVE  AdminsInv'
BY FreeIsRow, OnlyLeads DEF Finishes

LEMMA RecheckStep ==
    ASSUME AdminsInv, NEW r \in Errand, RecheckAdmin(r)
    PROVE  AdminsInv'
<1>1. errand[r] \in ErrandRow /\ ErrandOK(errand[r])
  BY ErrandIsRow
<1>2. CASE Enabled(errand[r].who)
  <2>1. Is(r, "recheck") /\ Leads(r, On(r, "issue")) /\ UNCHANGED <<role, admin, pass, crossed>>
    BY <1>2 DEF RecheckAdmin
  <2>2. On(r, "issue") \in ErrandRow /\ ErrandOK(On(r, "issue"))
    BY <1>1, <2>1 DEF On, Is, ErrandRow, ErrandOK, ComesIn, PassOK
  <2> QED
    BY <2>1, <2>2, OnlyLeads
<1>3. CASE ~Enabled(errand[r].who)
  BY <1>3, EndStep DEF RecheckAdmin
<1> QED
  BY <1>2, <1>3

(* Looking a row up, before it is written.                                 *)
LEMMA FindStep ==
    ASSUME AdminsInv, NEW r \in Errand,
           \/ \E b \in Admin : FindOther(r, b) \/ \E change \in Change : FindAdmin(r, b, change)
           \/ \E o \in Role : FindUnassigned(r, o) \/ \E keys \in SUBSET Permission : FindRole(r, o, keys)
    PROVE  AdminsInv'
<1>1. errand[r] \in ErrandRow /\ ErrandOK(errand[r])
  BY ErrandIsRow
<1>2. ASSUME NEW b \in Admin, FindOther(r, b) PROVE AdminsInv'
  <2> DEFINE row == [On(r, "remove") EXCEPT !.row = b]
  <2>1. row \in ErrandRow /\ ErrandOK(row)
    BY <1>1, <1>2 DEF FindOther, Employed, On, Is, ErrandRow, ErrandOK, ComesIn
  <2> QED
    BY <1>2, <2>1, OnlyLeads DEF FindOther
<1>3. ASSUME NEW b \in Admin, NEW change \in Change, FindAdmin(r, b, change) PROVE AdminsInv'
  <2> DEFINE row == [On(r, "update") EXCEPT !.row = b, !.dto = change]
  <2>1. row \in ErrandRow /\ ErrandOK(row)
    BY <1>1, <1>3 DEF FindAdmin, Employed, On, Is, ErrandRow, ErrandOK, ComesIn
  <2> QED
    BY <1>3, <2>1, OnlyLeads DEF FindAdmin
<1>4. ASSUME NEW o \in Role, FindUnassigned(r, o) PROVE AdminsInv'
  <2> DEFINE row == [On(r, "drop") EXCEPT !.row = o]
  <2>1. row \in ErrandRow /\ ErrandOK(row)
    BY <1>1, <1>4 DEF FindUnassigned, On, Is, ErrandRow, ErrandOK, ComesIn
  <2> QED
    BY <1>4, <2>1, OnlyLeads DEF FindUnassigned
<1>5. ASSUME NEW o \in Role, NEW keys \in SUBSET Permission, FindRole(r, o, keys) PROVE AdminsInv'
  <2> DEFINE row == [On(r, "rewrite") EXCEPT !.row = o, !.keys = keys]
  <2>1. row \in ErrandRow /\ ErrandOK(row)
    BY <1>1, <1>5 DEF FindRole, On, Is, ErrandRow, ErrandOK, ComesIn
  <2> QED
    BY <1>5, <2>1, OnlyLeads DEF FindRole
<1> QED
  BY <1>2, <1>3, <1>4, <1>5

-----------------------------------------------------------------------------
(* The requests stay in order when rows are only added or lose nothing.    *)
LEMMA ErrandsKept ==
    ASSUME AdminsInv,
           \A b \in Admin : admin[b] # Nobody =>
              admin'[b] # Nobody /\ admin'[b].deleted = admin[b].deleted,
           \A k \in Pass : pass[k] # Nobody =>
              pass'[k] # Nobody /\ pass'[k].owner = pass[k].owner /\ pass'[k].late = pass[k].late,
           \A q \in Errand : errand'[q] \in {errand[q], Free} \/ ErrandOK(errand[q])'
    PROVE  \A q \in Errand : ErrandOK(errand[q])'
<1> SUFFICES ASSUME NEW q \in Errand PROVE ErrandOK(errand[q])'
  OBVIOUS
<1>1. CASE errand'[q] = Free
  BY <1>1 DEF Free, ErrandOK, ComesIn
<1>2. CASE errand'[q] = errand[q]
  BY <1>2 DEF AdminsInv, ErrandOK, ComesIn, PassOK
<1> QED
  BY <1>1, <1>2

LEMMA Finished ==
    ASSUME AdminsInv, NEW r \in Errand, Finishes(r)
    PROVE  /\ errand' \in [Errand -> ErrandRow]
           /\ \A q \in Errand : errand'[q] \in {errand[q], Free}
BY FreeIsRow DEF Finishes, Leads, AdminsInv, AdminsTypeOK

LEMMA IssuePassStep ==
    ASSUME AdminsInv, NEW r \in Errand, IssuePass(r)
    PROVE  AdminsInv'
<1> DEFINE from == errand[r].row
           who == errand[r].who
<1>1. PICK k \in Pass :
        /\ Unused(pass, k)
        /\ pass' = [pass EXCEPT ![k] = [owner |-> who, open |-> TRUE,
              late |-> errand[r].late \/ (from # Nobody /\ pass[from].late)]]
  BY DEF IssuePass
<1> DEFINE row == [owner |-> who, open |-> TRUE,
                   late |-> errand[r].late \/ (from # Nobody /\ pass[from].late)]
<1>2. Is(r, "issue") /\ Finishes(r) /\ UNCHANGED <<role, admin, crossed>>
  BY DEF IssuePass
<1>3. errand[r] \in ErrandRow /\ ErrandOK(errand[r])
  BY ErrandIsRow
<1>4. who \in Admin /\ admin[who] # Nobody
  BY <1>2, <1>3 DEF Is, ErrandOK
<1>5. from # Nobody => from \in Pass /\ pass[from] \in PassRow
  BY <1>2, <1>3 DEF Is, ErrandOK, ComesIn, PassOK, AdminsInv, AdminsTypeOK
<1>6. row \in PassRow
  BY <1>3, <1>4, <1>5 DEF PassRow, ErrandRow
<1>7. admin[who].deleted => row.late
  BY <1>2, <1>3 DEF Is, ErrandOK, ComesIn
<1>8. pass[k] = Nobody
  BY <1>1 DEF Unused
<1>9. \A j \in Pass : pass'[j] = IF j = k THEN row ELSE pass[j]
  BY <1>1 DEF AdminsInv, AdminsTypeOK
<1>10. AdminsTypeOK'
  BY <1>1, <1>2, <1>6, Finished DEF AdminsInv, AdminsTypeOK
<1>11. PassesOwned'
  BY <1>2, <1>4, <1>9 DEF PassesOwned, AdminsInv
<1>12. RemovalEndsPasses'
  BY <1>2, <1>7, <1>9 DEF RemovalEndsPasses, AdminsInv
<1>13. RolesKept' /\ SomeoneRemains'
  BY <1>2 DEF AdminsInv, RolesKept, SomeoneRemains, Employed
<1>14. \A q \in Errand : ErrandOK(errand[q])'
  BY <1>2, <1>8, <1>9, Finished, ErrandsKept
<1> QED
  BY <1>10, <1>11, <1>12, <1>13, <1>14 DEF AdminsInv

(* A pass that is closed.                                                  *)
LEMMA ClosePassStep ==
    ASSUME AdminsInv, NEW k \in Pass, pass[k] # Nobody,
           pass' = [pass EXCEPT ![k].open = FALSE],
           errand' \in [Errand -> ErrandRow], UNCHANGED <<role, admin, crossed>>,
           \A q \in Errand : errand'[q] \in {errand[q], Free} \/ ErrandOK(errand[q])'
    PROVE  AdminsInv'
<1>1. pass[k] \in PassRow
  BY DEF AdminsInv, AdminsTypeOK
<1>2. [pass[k] EXCEPT !.open = FALSE] \in PassRow
  BY <1>1 DEF PassRow
<1>3. \A j \in Pass : pass'[j] = IF j = k THEN [pass[k] EXCEPT !.open = FALSE] ELSE pass[j]
  BY DEF AdminsInv, AdminsTypeOK
<1>4. /\ [pass[k] EXCEPT !.open = FALSE] # Nobody
      /\ [pass[k] EXCEPT !.open = FALSE].owner = pass[k].owner
      /\ [pass[k] EXCEPT !.open = FALSE].late = pass[k].late
      /\ ~[pass[k] EXCEPT !.open = FALSE].open
  BY <1>1, <1>2, AdminsAssumption DEF PassRow
<1>5. AdminsTypeOK'
  BY <1>2 DEF AdminsInv, AdminsTypeOK
<1>6. PassesOwned' /\ RemovalEndsPasses'
  BY <1>3, <1>4 DEF PassesOwned, RemovalEndsPasses, AdminsInv
<1>7. RolesKept' /\ SomeoneRemains'
  BY DEF AdminsInv, RolesKept, SomeoneRemains, Employed
<1>8. \A q \in Errand : ErrandOK(errand[q])'
  BY <1>3, <1>4, ErrandsKept
<1> QED
  BY <1>5, <1>6, <1>7, <1>8 DEF AdminsInv

LEMMA SpendPassStep == ASSUME AdminsInv, NEW r \in Errand, SpendPass(r) PROVE AdminsInv'
<1> DEFINE k == errand[r].row
           row == On(r, "recheck")
<1>1. errand[r] \in ErrandRow /\ ErrandOK(errand[r])
  BY ErrandIsRow
<1>2. /\ Is(r, "spend") /\ Leads(r, row) /\ UNCHANGED <<role, admin, crossed>>
      /\ pass' = [pass EXCEPT ![k].open = FALSE]
  BY DEF SpendPass
<1>3. k \in Pass /\ pass[k] # Nobody
  BY <1>1, <1>2 DEF Is, ErrandOK, ComesIn, PassOK
<1>4. row \in ErrandRow
  BY <1>1 DEF On, ErrandRow
<1>5. errand' \in [Errand -> ErrandRow] /\ \A q \in Errand : errand'[q] = IF q = r THEN row ELSE errand[q]
  BY <1>2, <1>4 DEF Leads, AdminsInv, AdminsTypeOK
<1>6. pass[k] \in PassRow
  BY <1>3 DEF AdminsInv, AdminsTypeOK
<1>7. pass'[k] # Nobody /\ pass'[k].owner = pass[k].owner /\ pass'[k].late = pass[k].late
  <2>1. pass'[k] = [pass[k] EXCEPT !.open = FALSE]
    BY <1>2, <1>3 DEF AdminsInv, AdminsTypeOK
  <2>2. pass'[k] \in PassRow
    BY <1>6, <2>1 DEF PassRow
  <2> QED
    BY <1>6, <2>1, <2>2, AdminsAssumption DEF PassRow
<1>8. ErrandOK(errand[r])'
  BY <1>1, <1>2, <1>3, <1>5, <1>7 DEF Is, On, ErrandOK, ComesIn, PassOK, ErrandRow
<1> QED
  BY <1>2, <1>3, <1>5, <1>8, ClosePassStep

LEMMA SignOutStep == ASSUME AdminsInv, NEW k \in Pass, SignOut(k) PROVE AdminsInv'
BY ClosePassStep DEF SignOut, AdminsInv, AdminsTypeOK

-----------------------------------------------------------------------------
(* Admins.                                                                 *)
LEMMA CreateAdminStep ==
    ASSUME AdminsInv, NEW r \in Errand, NEW o \in Role, CreateAdmin(r, o)
    PROVE  AdminsInv'
<1>1. CASE UNCHANGED admin
  BY <1>1, EndStep DEF CreateAdmin
<1>2. CASE ~UNCHANGED admin
  <2> DEFINE row == [role |-> o, status |-> "ACTIVE", deleted |-> FALSE]
  <2>1. Finishes(r) /\ UNCHANGED <<role, pass, crossed>> /\ role[o] # Nobody
    BY <1>2 DEF CreateAdmin
  <2>2. PICK b \in Admin : Unused(admin, b) /\ admin' = [admin EXCEPT ![b] = row]
    BY <1>2 DEF CreateAdmin
  <2>3. row \in AdminRow /\ row # Nobody
    <3>1. row \in AdminRow
      BY DEF AdminRow, AdminStatus
    <3> QED
      BY <3>1, AdminsAssumption
  <2>4. admin[b] = Nobody
    BY <2>2 DEF Unused
  <2>5. \A a \in Admin : admin'[a] = IF a = b THEN row ELSE admin[a]
    BY <2>2 DEF AdminsInv, AdminsTypeOK
  <2>6. AdminsTypeOK'
    BY <2>1, <2>2, <2>3, Finished DEF AdminsInv, AdminsTypeOK
  <2>7. RolesKept' /\ PassesOwned'
    BY <2>1, <2>3, <2>5 DEF AdminsInv, RolesKept, PassesOwned, AdminsTypeOK, PassRow
  <2>8. RemovalEndsPasses'
    BY <2>1, <2>5 DEF AdminsInv, RemovalEndsPasses, AdminsTypeOK, PassRow
  <2>9. SomeoneRemains'
    BY <2>1, <2>3, <2>4, <2>5 DEF AdminsInv, SomeoneRemains, Employed
  <2>10. \A q \in Errand : ErrandOK(errand[q])'
    BY <2>1, <2>4, <2>5, Finished, ErrandsKept
  <2> QED
    BY <2>6, <2>7, <2>8, <2>9, <2>10 DEF AdminsInv
<1> QED
  BY <1>1, <1>2

(* What an update writes: a row that is no less deleted than it was.       *)
LEMMA UpdatedRow ==
    ASSUME AdminsInv, NEW r \in Errand, UpdateAdmin(r), ~UNCHANGED admin
    PROVE  \E b \in Admin, row \in AdminRow :
              /\ admin' = [admin EXCEPT ![b] = row]
              /\ admin[b] # Nobody /\ row.deleted = admin[b].deleted /\ role[row.role] # Nobody
<1> DEFINE b == errand[r].row
           dto == errand[r].dto
           newRole == IF dto.role = Nobody THEN admin[b].role ELSE dto.role
           newStatus == IF dto.status = Nobody THEN admin[b].status ELSE dto.status
           row == [admin[b] EXCEPT !.role = newRole, !.status = newStatus]
<1>1. /\ Is(r, "update")
      /\ dto.role # Nobody => role[dto.role] # Nobody
      /\ admin' = [admin EXCEPT
            ![b].role = IF dto.role = Nobody THEN @ ELSE dto.role,
            ![b].status = IF dto.status = Nobody THEN @ ELSE dto.status]
  BY DEF UpdateAdmin
<1>2. /\ b \in Admin /\ admin[b] \in AdminRow /\ admin[b] # Nobody
      /\ dto.role \in Role \cup {Nobody} /\ dto.status \in AdminStatus \cup {Nobody}
  BY <1>1, ErrandIsRow, AdminsAssumption DEF Is, ErrandOK, AdminsInv, AdminsTypeOK
<1>3. row \in AdminRow /\ row.role = newRole /\ row.deleted = admin[b].deleted
  <2>1. newRole \in Role /\ newStatus \in AdminStatus
    BY <1>2 DEF AdminRow
  <2> QED
    BY <1>2, <2>1 DEF AdminRow
<1>4. role[row.role] # Nobody
  BY <1>1, <1>2, <1>3 DEF AdminsInv, RolesKept
<1>5. admin' = [admin EXCEPT ![b] = row]
  <2>1. admin \in [Admin -> AdminRow \cup {Nobody}]
    BY DEF AdminsInv, AdminsTypeOK
  <2>2. admin' = [admin EXCEPT ![b].role = newRole, ![b].status = newStatus]
    BY <1>1, <1>2, <2>1 DEF AdminRow
  <2> HIDE DEF newRole, newStatus
  <2> QED
    BY <1>2, <2>1, <2>2
<1> HIDE DEF row
<1> QED
  BY <1>2, <1>3, <1>4, <1>5

LEMMA UpdateAdminStep == ASSUME AdminsInv, NEW r \in Errand, UpdateAdmin(r) PROVE AdminsInv'
<1>1. Finishes(r) /\ UNCHANGED <<role, pass, crossed>>
  BY DEF UpdateAdmin
<1>2. CASE UNCHANGED admin
  BY <1>1, <1>2, EndStep
<1>3. CASE ~UNCHANGED admin
  <2>1. PICK b \in Admin, row \in AdminRow :
          /\ admin' = [admin EXCEPT ![b] = row]
          /\ admin[b] # Nobody /\ row.deleted = admin[b].deleted /\ role[row.role] # Nobody
    BY <1>3, UpdatedRow
  <2>2. row # Nobody
    BY AdminsAssumption
  <2>3. \A a \in Admin : admin'[a] = IF a = b THEN row ELSE admin[a]
    BY <2>1 DEF AdminsInv, AdminsTypeOK
  <2>4. AdminsTypeOK'
    BY <1>1, <2>1, Finished DEF AdminsInv, AdminsTypeOK
  <2>5. RolesKept' /\ PassesOwned'
    BY <1>1, <2>1, <2>2, <2>3 DEF AdminsInv, RolesKept, PassesOwned, AdminsTypeOK, PassRow
  <2>6. RemovalEndsPasses'
    BY <1>1, <2>1, <2>3 DEF AdminsInv, RemovalEndsPasses, AdminsTypeOK, PassRow
  <2>7. SomeoneRemains'
    BY <1>1, <2>1, <2>2, <2>3 DEF AdminsInv, SomeoneRemains, Employed
  <2>8. \A q \in Errand : ErrandOK(errand[q])'
    BY <1>1, <2>1, <2>2, <2>3, Finished, ErrandsKept
  <2> QED
    BY <2>4, <2>5, <2>6, <2>7, <2>8 DEF AdminsInv
<1> QED
  BY <1>2, <1>3

LEMMA RemoveAdminStep == ASSUME AdminsInv, NEW r \in Errand, RemoveAdmin(r) PROVE AdminsInv'
<1> DEFINE b == errand[r].row
           who == errand[r].who
           row == [admin[b] EXCEPT !.status = "DISABLED", !.deleted = TRUE]
<1>1. errand[r] \in ErrandRow /\ ErrandOK(errand[r]) /\ Is(r, "remove")
  BY ErrandIsRow DEF RemoveAdmin
<1>2. /\ b \in Admin /\ admin[b] # Nobody /\ admin[b] \in AdminRow
      /\ who \in Admin /\ admin[who] # Nobody /\ b # who
  BY <1>1 DEF Is, ErrandOK, AdminsInv, AdminsTypeOK
<1>3. /\ admin' = [admin EXCEPT ![b].status = "DISABLED", ![b].deleted = TRUE]
      /\ errand' = [q \in Errand |->
            IF q = r THEN Free
            ELSE IF errand[q].who = b THEN [errand[q] EXCEPT !.late = TRUE] ELSE errand[q]]
      /\ crossed' = (crossed \/ ~Employed(who))
      /\ role' = role
      /\ pass' = [k \in Pass |->
            IF pass[k] # Nobody /\ pass[k].owner = b
            THEN [pass[k] EXCEPT !.open = FALSE] ELSE pass[k]]
  BY DEF RemoveAdmin, Gone
<1>4. row \in AdminRow /\ row.deleted /\ row.role = admin[b].role /\ row # Nobody
  <2>1. row \in AdminRow /\ row.deleted /\ row.role = admin[b].role
    BY <1>2 DEF AdminRow, AdminStatus
  <2> QED
    BY <2>1, AdminsAssumption
<1>5. admin' = [admin EXCEPT ![b] = row]
  BY <1>2, <1>3 DEF AdminsInv, AdminsTypeOK, AdminRow
<1>6. \A a \in Admin : admin'[a] = IF a = b THEN row ELSE admin[a]
  BY <1>5 DEF AdminsInv, AdminsTypeOK
<1>7. \A k \in Pass :
        /\ pass[k] = Nobody => pass'[k] = Nobody
        /\ pass[k] # Nobody =>
              /\ pass[k] \in PassRow /\ pass'[k] \in PassRow /\ pass'[k] # Nobody
              /\ pass'[k].owner = pass[k].owner /\ pass'[k].late = pass[k].late
              /\ pass'[k].open => pass[k].open /\ pass[k].owner # b
  <2> SUFFICES ASSUME NEW k \in Pass, pass[k] # Nobody
               PROVE  /\ pass[k] \in PassRow /\ pass'[k] \in PassRow /\ pass'[k] # Nobody
                      /\ pass'[k].owner = pass[k].owner /\ pass'[k].late = pass[k].late
                      /\ pass'[k].open => pass[k].open /\ pass[k].owner # b
    BY <1>3
  <2>1. pass[k] \in PassRow
    BY DEF AdminsInv, AdminsTypeOK
  <2>2. pass'[k] = IF pass[k].owner = b THEN [pass[k] EXCEPT !.open = FALSE] ELSE pass[k]
    BY <1>3
  <2>3. /\ pass'[k] \in PassRow /\ pass'[k].owner = pass[k].owner /\ pass'[k].late = pass[k].late
        /\ pass'[k].open => pass[k].open /\ pass[k].owner # b
    BY <2>1, <2>2 DEF PassRow
  <2> QED
    BY <2>1, <2>3, AdminsAssumption
<1>8. \A q \in Errand :
        \/ errand'[q] = Free
        \/ /\ errand[q] \in ErrandRow
           /\ errand'[q] = [errand[q] EXCEPT !.late = errand[q].late \/ errand[q].who = b]
  BY <1>3 DEF AdminsInv, AdminsTypeOK, ErrandRow
<1>9. AdminsTypeOK'
  <2>1. pass' \in [Pass -> PassRow \cup {Nobody}]
    BY <1>3, <1>7
  <2>2. errand' \in [Errand -> ErrandRow]
    BY <1>3, FreeIsRow DEF AdminsInv, AdminsTypeOK, ErrandRow
  <2> QED
    BY <1>3, <1>4, <1>5, <2>1, <2>2 DEF AdminsInv, AdminsTypeOK
<1>10. RolesKept'
  <2> SUFFICES ASSUME NEW a \in Admin, admin'[a] # Nobody PROVE role'[admin'[a].role] # Nobody
    BY DEF RolesKept
  <2>1. admin[a] # Nobody /\ admin'[a].role = admin[a].role
    BY <1>2, <1>4, <1>6
  <2> QED
    BY <1>3, <2>1 DEF AdminsInv, RolesKept
<1>11. PassesOwned'
  BY <1>4, <1>6, <1>7 DEF AdminsInv, PassesOwned, PassRow
<1>12. RemovalEndsPasses'
  <2> SUFFICES ASSUME NEW k \in Pass, pass'[k] # Nobody, pass'[k].open, admin'[pass'[k].owner].deleted
               PROVE  pass'[k].late
    BY DEF RemovalEndsPasses
  <2>1. /\ pass[k] # Nobody /\ pass[k].open /\ pass[k].owner # b /\ pass[k].owner \in Admin
        /\ pass'[k].owner = pass[k].owner /\ pass'[k].late = pass[k].late
    BY <1>7 DEF PassRow
  <2>2. admin[pass[k].owner].deleted
    BY <1>6, <2>1
  <2> QED
    BY <2>1, <2>2 DEF AdminsInv, RemovalEndsPasses
<1>13. SomeoneRemains'
  <2>1. CASE Employed(who)
    BY <1>2, <1>6, <2>1 DEF SomeoneRemains, Employed
  <2>2. CASE ~Employed(who)
    BY <1>3, <2>2 DEF SomeoneRemains
  <2> QED
    BY <2>1, <2>2
<1>14. \A q \in Errand : ErrandOK(errand[q])'
  <2> SUFFICES ASSUME NEW q \in Errand, errand'[q] # Free PROVE ErrandOK(errand[q])'
    BY DEF Free, ErrandOK, ComesIn
  <2>1. errand[q] \in ErrandRow /\ ErrandOK(errand[q])
    BY ErrandIsRow
  <2>2. /\ errand'[q].at = errand[q].at /\ errand'[q].who = errand[q].who
        /\ errand'[q].row = errand[q].row /\ errand'[q].dto = errand[q].dto
        /\ errand'[q].late = (errand[q].late \/ errand[q].who = b)
    BY <1>8, <2>1 DEF ErrandRow
  <2>3. ComesIn(errand'[q]) => PassOK(errand[q])'
    BY <1>7, <2>1, <2>2 DEF ErrandOK, ComesIn, PassOK, PassRow
  <2>4. ComesIn(errand'[q]) /\ admin'[errand'[q].who].deleted
           => errand'[q].late \/ (errand'[q].row # Nobody /\ pass'[errand'[q].row].late)
    BY <1>6, <1>7, <2>1, <2>2 DEF ErrandOK, ComesIn, PassOK, PassRow
  <2> QED
    BY <1>4, <1>6, <2>1, <2>2, <2>3, <2>4 DEF ErrandOK, ComesIn
<1> QED
  BY <1>9, <1>10, <1>11, <1>12, <1>13, <1>14 DEF AdminsInv

-----------------------------------------------------------------------------
(* Roles.                                                                  *)
LEMMA RoleStep ==
    ASSUME AdminsInv, NEW r \in Errand, Finishes(r), UNCHANGED <<admin, pass, crossed>>,
           role' \in [Role -> (SUBSET Permission) \cup {Nobody}],
           \A b \in Admin : admin[b] # Nobody => role'[admin[b].role] # Nobody
    PROVE  AdminsInv'
<1>1. AdminsTypeOK'
  BY Finished DEF AdminsInv, AdminsTypeOK
<1>2. RolesKept' /\ PassesOwned' /\ RemovalEndsPasses' /\ SomeoneRemains'
  BY DEF AdminsInv, RolesKept, PassesOwned, RemovalEndsPasses, SomeoneRemains, Employed
<1>3. \A q \in Errand : ErrandOK(errand[q])'
  BY Finished, ErrandsKept
<1> QED
  BY <1>1, <1>2, <1>3 DEF AdminsInv

(* A role is written, or deleted when no admin has it.                     *)
LEMMA RoleWriteStep ==
    ASSUME AdminsInv, NEW r \in Errand,
           UpdateRole(r) \/ DeleteRole(r) \/ \E keys \in SUBSET Permission : CreateRole(r, keys)
    PROVE  AdminsInv'
<1>1. errand[r] \in ErrandRow /\ ErrandOK(errand[r])
  BY ErrandIsRow
<1>2. \A keys \in SUBSET Permission : keys # Nobody
  BY AdminsAssumption
<1>3. role \in [Role -> (SUBSET Permission) \cup {Nobody}] /\ RolesKept
      /\ \A b \in Admin : admin[b] # Nobody => admin[b].role \in Role
  BY DEF AdminsInv, AdminsTypeOK, AdminRow
<1>4. CASE UpdateRole(r)
  <2>1. errand[r].row \in Role /\ errand[r].keys \in SUBSET Permission
    BY <1>1, <1>4 DEF UpdateRole, Is, ErrandOK, ErrandRow
  <2>2. /\ role' \in [Role -> (SUBSET Permission) \cup {Nobody}]
        /\ \A b \in Admin : admin[b] # Nobody => role'[admin[b].role] # Nobody
    BY <1>2, <1>3, <1>4, <2>1 DEF UpdateRole, RolesKept
  <2> QED
    BY <1>4, <2>2, RoleStep DEF UpdateRole
<1>5. CASE DeleteRole(r)
  <2>1. errand[r].row \in Role
    BY <1>1, <1>5 DEF DeleteRole, Is, ErrandOK
  <2>2. /\ role' \in [Role -> (SUBSET Permission) \cup {Nobody}]
        /\ \A b \in Admin : admin[b] # Nobody => role'[admin[b].role] # Nobody
    BY <1>3, <1>5, <2>1 DEF DeleteRole, Assigned, RolesKept
  <2> QED
    BY <1>5, <2>2, RoleStep DEF DeleteRole
<1>6. ASSUME NEW keys \in SUBSET Permission, CreateRole(r, keys) PROVE AdminsInv'
  <2>1. PICK o \in Role : role' = [role EXCEPT ![o] = keys]
    BY <1>6 DEF CreateRole
  <2>2. /\ role' \in [Role -> (SUBSET Permission) \cup {Nobody}]
        /\ \A b \in Admin : admin[b] # Nobody => role'[admin[b].role] # Nobody
    BY <1>2, <1>3, <2>1 DEF RolesKept
  <2> QED
    BY <1>6, <2>2, RoleStep DEF CreateRole
<1> QED
  BY <1>4, <1>5, <1>6

LEMMA AdminsStep == AdminsInv /\ [AdminsNext]_adminVars => AdminsInv'
<1> SUFFICES ASSUME AdminsInv, [AdminsNext]_adminVars PROVE AdminsInv'
  OBVIOUS
<1>1. CASE UNCHANGED adminVars
  BY <1>1 DEF adminVars, AdminsInv, AdminsTypeOK, RolesKept, RemovalEndsPasses, SomeoneRemains,
              PassesOwned, ErrandOK, ComesIn, PassOK, Employed
<1>2. ASSUME NEW r \in Errand, Leave(r) PROVE AdminsInv'
  BY <1>2, EndStep DEF Leave
<1> QED
  BY <1>1, <1>2, SignInStep, RenewStep, RecheckStep, FindStep, IssuePassStep, SpendPassStep,
     SignOutStep, CreateAdminStep, UpdateAdminStep, RemoveAdminStep, RoleWriteStep
     DEF AdminsNext

(* Whatever requests cross, roles in use exist, a removal ends the sessions *)
(* there are, and the last admin goes only by crossed removals.            *)
THEOREM StaffStaysSound == AdminsSpec => []StaffSound
<1>1. AdminsInv => StaffSound
  BY DEF AdminsInv, StaffSound
<1> QED
  BY AdminsInitInv, AdminsStep, <1>1, PTL DEF AdminsSpec

-----------------------------------------------------------------------------
(* The promise of Sessions, step by step.                                  *)

(* A request that neither was nor gets cleared to open a session.          *)
LEMMA UnclearedErrand ==
    ASSUME AdminsInv, NEW r \in Errand, errand[r].at # "issue",
           NEW row \in ErrandRow, row.at # "issue", Leads(r, row)
    PROVE  UNCHANGED Clearances
BY DEF Leads, Clearances, Is, AdminsInv, AdminsTypeOK

LEMMA UnclearedErrandEnd ==
    ASSUME AdminsInv, NEW r \in Errand, errand[r].at # "issue", Finishes(r)
    PROVE  UNCHANGED Clearances
<1>1. Free \in ErrandRow /\ Free.at # "issue"
  BY FreeIsRow DEF Free
<1> QED
  BY <1>1, UnclearedErrand DEF Finishes

LEMMA SamePasses == ASSUME UNCHANGED pass PROVE UNCHANGED Passes
BY DEF Passes

LEMMA SameAdminStanding == ASSUME UNCHANGED admin PROVE UNCHANGED AdminStanding
BY DEF AdminStanding

(* A pass is closed, or stays.                                             *)
LEMMA PassesShorten ==
    ASSUME AdminsInv, NEW gone \in SUBSET Pass,
           \A k \in Pass : pass'[k] = IF pass[k] # Nobody /\ k \in gone
                                      THEN [pass[k] EXCEPT !.open = FALSE] ELSE pass[k]
    PROVE  AdminPromise!Shortened
<1> SUFFICES ASSUME NEW k \in Pass
             PROVE  \/ Passes'[k] = Passes[k]
                    \/ AdminPromise!Open(k) /\ Passes'[k] = [owner |-> Passes[k].owner, open |-> FALSE]
  BY DEF AdminPromise!Shortened
<1>1. pass[k] \in PassRow \cup {Nobody}
  BY DEF AdminsInv, AdminsTypeOK
<1>2. CASE pass[k] = Nobody
  BY <1>2 DEF Passes
<1>3. CASE pass[k] # Nobody
  <2>1. pass[k] \in PassRow
    BY <1>1, <1>3
  <2>2. Passes[k] = [owner |-> pass[k].owner, open |-> pass[k].open]
    BY <1>3 DEF Passes
  <2>3. AdminPromise!Open(k) <=> pass[k].open
    <3>1. [owner |-> pass[k].owner, open |-> pass[k].open] \in [owner : Admin, open : BOOLEAN]
      BY <2>1 DEF PassRow
    <3>2. Passes[k] # Nobody
      BY <2>2, <3>1, AdminsAssumption
    <3> QED
      BY <2>2, <3>2 DEF AdminPromise!Open
  <2>4. pass'[k] # Nobody /\ pass'[k].owner = pass[k].owner
    <3>1. pass'[k] \in PassRow /\ pass'[k].owner = pass[k].owner
      BY <2>1 DEF PassRow
    <3> QED
      BY <3>1, AdminsAssumption
  <2>5. Passes'[k] = [owner |-> pass[k].owner, open |-> pass'[k].open]
    BY <2>4 DEF Passes
  <2>6. CASE pass'[k] = pass[k]
    BY <2>2, <2>5, <2>6
  <2>7. CASE pass'[k] = [pass[k] EXCEPT !.open = FALSE]
    <3>1. pass'[k].open = FALSE
      BY <2>1, <2>7 DEF PassRow
    <3>2. Passes'[k] = [owner |-> Passes[k].owner, open |-> FALSE]
      <4>1. Passes[k].owner = pass[k].owner
        BY <2>2
      <4> QED
        BY <2>5, <3>1, <4>1, Zenon
    <3>3. CASE pass[k].open
      BY <2>2, <2>3, <3>2, <3>3
    <3>4. CASE ~pass[k].open
      BY <2>1, <2>2, <2>5, <3>1, <3>4 DEF PassRow
    <3> QED
      BY <3>3, <3>4
  <2> QED
    BY <1>3, <2>6, <2>7
<1> QED
  BY <1>2, <1>3

LEMMA AdminPromiseInit == AdminsInit => AdminPromise!SessionsInit
<1> SUFFICES ASSUME AdminsInit PROVE AdminPromise!SessionsInit
  OBVIOUS
<1>1. \A b \in Admin : admin[b] = Nobody \/ (admin[b].status = "ACTIVE" /\ admin[b].deleted = FALSE)
  BY DEF AdminsInit
<1>2. AdminStanding \in [Admin -> {"none", "active"}]
  BY <1>1 DEF AdminStanding
<1>3. Passes = [k \in Pass |-> Nobody] /\ Clearances = [r \in Errand |-> Nobody]
  BY DEF AdminsInit, Passes, Clearances, Is, Free
<1> QED
  BY <1>2, <1>3 DEF AdminPromise!SessionsInit

(* What is written to the row of one admin is a move of its standing.      *)
LEMMA AdminJudged ==
    ASSUME AdminsInv, NEW b \in Admin, NEW row \in AdminRow,
           admin' = [admin EXCEPT ![b] = row],
           admin[b] = Nobody => row.status = "ACTIVE" /\ ~row.deleted,
           admin[b] # Nobody /\ admin[b].deleted => row.deleted,
           UNCHANGED Clearances, AdminPromise!Shortened
    PROVE  AdminPromise!End
<1> DEFINE before == AdminStanding[b]
           after == AdminStanding'[b]
<1>1. row # Nobody
  BY AdminsAssumption
<1>2. \A a \in Admin : admin'[a] = IF a = b THEN row ELSE admin[a]
  BY DEF AdminsInv, AdminsTypeOK
<1>3. \A a \in Admin \ {b} : AdminStanding'[a] = AdminStanding[a]
  BY <1>2 DEF AdminStanding
<1>4. after = IF row.deleted THEN "closed" ELSE IF row.status = "ACTIVE" THEN "active" ELSE "suspended"
  BY <1>1, <1>2 DEF AdminStanding
<1>5. before = IF admin[b] = Nobody THEN "none"
               ELSE IF admin[b].deleted THEN "closed"
               ELSE IF admin[b].status = "ACTIVE" THEN "active" ELSE "suspended"
  BY DEF AdminStanding
<1>6. CASE after = before
  <2>1. \A a \in Admin : AdminStanding'[a] = AdminStanding[a]
    BY <1>3, <1>6
  <2>2. AdminStanding' = AdminStanding
    BY <2>1 DEF AdminStanding
  <2> QED
    BY <2>2 DEF AdminPromise!End
<1>7. CASE after # before
  <2>1. <<before, after>> \in {<<"none", "active">>, <<"active", "closed">>, <<"suspended", "closed">>,
                               <<"active", "suspended">>, <<"suspended", "active">>}
    BY <1>4, <1>5, <1>7
  <2>2. <<before, after>> \in AdminPromise!Moves
    BY <2>1 DEF AdminPromise!Moves
  <2>3. AdminPromise!Judge(b)
    BY <1>3, <2>2 DEF AdminPromise!Judge
  <2> QED
    BY <2>3 DEF AdminPromise!End
<1> QED
  BY <1>6, <1>7

LEMMA AdminsStepMaps ==
    AdminsInv /\ [AdminsNext]_adminVars => [AdminPromise!SessionsNext]_AdminPromise!sessionVars
<1> SUFFICES ASSUME AdminsInv, [AdminsNext]_adminVars
             PROVE  AdminPromise!SessionsNext \/ UNCHANGED <<AdminStanding, Passes, Clearances>>
  BY DEF AdminPromise!sessionVars
<1> DEFINE Goal == AdminPromise!SessionsNext \/ UNCHANGED <<AdminStanding, Passes, Clearances>>
<1>1. ASSUME NEW r \in Errand, NEW b \in Admin, Enabled(b), errand[r].at # "issue",
             NEW row \in ErrandRow, row.at = "issue", row.who = b, Leads(r, row),
             UNCHANGED <<admin, pass>>
      PROVE  Goal
  <2>1. Clearances[r] = Nobody /\ Clearances' = [Clearances EXCEPT ![r] = b]
    BY <1>1 DEF Clearances, Leads, Is, AdminsInv, AdminsTypeOK
  <2>2. AdminStanding[b] = "active"
    BY <1>1 DEF AdminStanding, Enabled, Employed
  <2>3. AdminPromise!Grant(r, b)
    BY <1>1, <2>1, <2>2, SamePasses, SameAdminStanding DEF AdminPromise!Grant
  <2> QED
    BY <2>3 DEF AdminPromise!SessionsNext
<1>2. ASSUME NEW r \in Errand, NEW b \in Admin, SignIn(r, b) PROVE Goal
  <2> DEFINE row == [Free EXCEPT !.who = b, !.at = "issue"]
  <2>1. row \in ErrandRow /\ row.at = "issue" /\ row.who = b
    BY DEF Free, ErrandRow
  <2>2. Leads(r, row) /\ Enabled(b) /\ errand[r].at # "issue" /\ UNCHANGED <<admin, pass>>
    BY <1>2 DEF SignIn, Opens, Is, Leads, Free
  <2> HIDE DEF row
  <2> QED
    BY <1>1, <2>1, <2>2
<1>3. ASSUME NEW r \in Errand, RecheckAdmin(r) PROVE Goal
  <2>1. errand[r] \in ErrandRow /\ errand[r].who \in Admin /\ errand[r].at # "issue"
        /\ UNCHANGED <<admin, pass>>
    BY <1>3, ErrandIsRow DEF RecheckAdmin, Is, ErrandOK
  <2>2. CASE Enabled(errand[r].who)
    <3> DEFINE row == On(r, "issue")
    <3>1. row \in ErrandRow /\ row.at = "issue" /\ row.who = errand[r].who
      BY <2>1 DEF On, ErrandRow
    <3>2. Leads(r, row)
      BY <1>3, <2>2 DEF RecheckAdmin
    <3> HIDE DEF row
    <3> QED
      BY <1>1, <2>1, <2>2, <3>1, <3>2
  <2>3. CASE ~Enabled(errand[r].who)
    BY <1>3, <2>1, <2>3, UnclearedErrandEnd, SamePasses, SameAdminStanding DEF RecheckAdmin
  <2> QED
    BY <2>2, <2>3
<1>4. ASSUME NEW r \in Errand, IssuePass(r) PROVE Goal
  <2>1. errand[r].at = "issue" /\ errand[r].who \in Admin /\ Finishes(r) /\ UNCHANGED admin
    BY <1>4, ErrandIsRow DEF IssuePass, Is, ErrandOK
  <2> DEFINE from == errand[r].row
             row == [owner |-> errand[r].who, open |-> TRUE,
                     late |-> errand[r].late \/ (from # Nobody /\ pass[from].late)]
  <2>2. PICK k \in Pass : pass[k] = Nobody /\ pass' = [pass EXCEPT ![k] = row]
    BY <1>4 DEF IssuePass, Unused
  <2>3. row # Nobody
    <3>1. from # Nobody => pass[from] \in PassRow
      BY <2>1, ErrandIsRow DEF ErrandOK, ComesIn, PassOK, AdminsInv, AdminsTypeOK
    <3>2. row.late \in BOOLEAN
      BY <3>1, ErrandIsRow DEF ErrandRow, PassRow
    <3>3. row \in PassRow
      BY <2>1, <3>2 DEF PassRow
    <3> QED
      BY <3>3, AdminsAssumption
  <2>4. Clearances[r] = errand[r].who /\ Clearances' = [Clearances EXCEPT ![r] = Nobody]
    BY <2>1 DEF Clearances, Finishes, Leads, Free, Is, AdminsInv, AdminsTypeOK
  <2>5. Passes[k] = Nobody /\ Passes' = [Passes EXCEPT ![k] = [owner |-> errand[r].who, open |-> TRUE]]
    BY <2>2, <2>3 DEF Passes, AdminsInv, AdminsTypeOK
  <2>6. Clearances[r] # Nobody
    BY <2>1, <2>4, AdminsAssumption
  <2>7. AdminPromise!Begin(r, k)
    BY <2>1, <2>4, <2>5, <2>6, SameAdminStanding DEF AdminPromise!Begin
  <2> QED
    BY <2>7 DEF AdminPromise!SessionsNext
<1>5. ASSUME NEW r \in Errand, Leave(r) PROVE Goal
  <2>1. CASE errand[r].at = "issue"
    <3>1. errand[r].who \in Admin
      BY <2>1, ErrandIsRow DEF ErrandOK
    <3>2. Clearances[r] # Nobody /\ Clearances' = [Clearances EXCEPT ![r] = Nobody]
      BY <1>5, <2>1, <3>1, AdminsAssumption
         DEF Leave, Clearances, Finishes, Leads, Free, Is, AdminsInv, AdminsTypeOK
    <3>3. AdminPromise!Drop(r)
      BY <1>5, <3>2, SamePasses, SameAdminStanding DEF Leave, AdminPromise!Drop
    <3> QED
      BY <3>3 DEF AdminPromise!SessionsNext
  <2>2. CASE errand[r].at # "issue"
    BY <1>5, <2>2, UnclearedErrandEnd, SamePasses, SameAdminStanding DEF Leave
  <2> QED
    BY <2>1, <2>2
<1>6. ASSUME NEW k \in Pass, pass[k] # Nobody, pass' = [pass EXCEPT ![k].open = FALSE],
             UNCHANGED admin, UNCHANGED Clearances
      PROVE  Goal
  <2>1. \A j \in Pass : pass'[j] = IF pass[j] # Nobody /\ j \in {k}
                                   THEN [pass[j] EXCEPT !.open = FALSE] ELSE pass[j]
    BY <1>6 DEF AdminsInv, AdminsTypeOK
  <2>2. AdminPromise!Shortened
    BY <2>1, PassesShorten
  <2> QED
    BY <1>6, <2>2, SameAdminStanding DEF AdminPromise!End, AdminPromise!SessionsNext
<1>7. ASSUME NEW r \in Errand, SpendPass(r) PROVE Goal
  <2>1. errand[r].row \in Pass /\ pass[errand[r].row] # Nobody /\ errand[r].at # "issue"
    BY <1>7, ErrandIsRow DEF SpendPass, Is, ErrandOK, ComesIn, PassOK
  <2>2. On(r, "recheck") \in ErrandRow /\ On(r, "recheck").at # "issue"
    BY ErrandIsRow DEF On, ErrandRow
  <2>3. UNCHANGED Clearances
    BY <1>7, <2>1, <2>2, UnclearedErrand DEF SpendPass
  <2> QED
    BY <1>6, <1>7, <2>1, <2>3 DEF SpendPass
<1>8. ASSUME NEW k \in Pass, SignOut(k) PROVE Goal
  <2>1. UNCHANGED Clearances
    BY <1>8 DEF SignOut, Clearances, Is
  <2> QED
    BY <1>6, <1>8, <2>1 DEF SignOut
<1>9. ASSUME NEW r \in Errand, NEW o \in Role, CreateAdmin(r, o) PROVE Goal
  <2>1. errand[r].at # "issue" /\ Finishes(r) /\ UNCHANGED pass
    BY <1>9 DEF CreateAdmin, Is
  <2>2. UNCHANGED Clearances /\ UNCHANGED Passes
    BY <2>1, UnclearedErrandEnd, SamePasses
  <2>3. CASE UNCHANGED admin
    BY <2>2, <2>3, SameAdminStanding
  <2>4. CASE ~UNCHANGED admin
    <3> DEFINE row == [role |-> o, status |-> "ACTIVE", deleted |-> FALSE]
    <3>1. PICK b \in Admin : admin[b] = Nobody /\ admin' = [admin EXCEPT ![b] = row]
      BY <1>9, <2>4 DEF CreateAdmin, Unused
    <3>2. row \in AdminRow /\ row.status = "ACTIVE" /\ ~row.deleted
      BY DEF AdminRow, AdminStatus
    <3>3. AdminPromise!Shortened
      BY <2>2 DEF AdminPromise!Shortened
    <3> HIDE DEF row
    <3>4. AdminPromise!End
      BY <2>2, <3>1, <3>2, <3>3, AdminJudged
    <3> QED
      BY <3>4 DEF AdminPromise!SessionsNext
  <2> QED
    BY <2>3, <2>4
<1>10. ASSUME NEW r \in Errand, UpdateAdmin(r) PROVE Goal
  <2>1. errand[r].at # "issue" /\ Finishes(r) /\ UNCHANGED pass
    BY <1>10 DEF UpdateAdmin, Is
  <2>2. UNCHANGED Clearances /\ UNCHANGED Passes
    BY <2>1, UnclearedErrandEnd, SamePasses
  <2>3. CASE UNCHANGED admin
    BY <2>2, <2>3, SameAdminStanding
  <2>4. CASE ~UNCHANGED admin
    <3>1. PICK b \in Admin, row \in AdminRow :
            /\ admin' = [admin EXCEPT ![b] = row]
            /\ admin[b] # Nobody /\ row.deleted = admin[b].deleted
      BY <1>10, <2>4, UpdatedRow
    <3>2. AdminPromise!Shortened
      BY <2>2 DEF AdminPromise!Shortened
    <3>3. AdminPromise!End
      BY <2>2, <3>1, <3>2, AdminJudged
    <3> QED
      BY <3>3 DEF AdminPromise!SessionsNext
  <2> QED
    BY <2>3, <2>4
<1>11. ASSUME NEW r \in Errand, RemoveAdmin(r) PROVE Goal
  <2> DEFINE b == errand[r].row
             row == [admin[b] EXCEPT !.status = "DISABLED", !.deleted = TRUE]
             gone == {k \in Pass : pass[k] # Nobody /\ pass[k].owner = b}
  <2>1. b \in Admin /\ admin[b] # Nobody /\ admin[b] \in AdminRow /\ errand[r].at = "remove"
    BY <1>11, ErrandIsRow DEF RemoveAdmin, Is, ErrandOK, AdminsInv, AdminsTypeOK
  <2>2. row \in AdminRow /\ row.deleted
    BY <2>1 DEF AdminRow, AdminStatus
  <2>3. admin' = [admin EXCEPT ![b] = row]
    BY <1>11, <2>1 DEF RemoveAdmin, Gone, AdminsInv, AdminsTypeOK, AdminRow
  <2>4. /\ pass' = [k \in Pass |->
              IF pass[k] # Nobody /\ pass[k].owner = b THEN [pass[k] EXCEPT !.open = FALSE] ELSE pass[k]]
        /\ errand' = [q \in Errand |->
              IF q = r THEN Free
              ELSE IF errand[q].who = b THEN [errand[q] EXCEPT !.late = TRUE] ELSE errand[q]]
    BY <1>11 DEF RemoveAdmin, Gone
  <2>5. gone \in SUBSET Pass
        /\ \A k \in Pass : pass'[k] = IF pass[k] # Nobody /\ k \in gone
                                      THEN [pass[k] EXCEPT !.open = FALSE] ELSE pass[k]
    BY <2>4
  <2> HIDE DEF row, gone
  <2>6. AdminPromise!Shortened
    BY <2>5, PassesShorten
  <2>7. \A q \in Errand : /\ errand'[q].at = "issue" <=> errand[q].at = "issue"
                          /\ errand[q].at = "issue" => errand'[q].who = errand[q].who
    BY <2>1, <2>4 DEF Free, AdminsInv, AdminsTypeOK, ErrandRow
  <2>8. UNCHANGED Clearances
    BY <2>7 DEF Clearances, Is
  <2>9. AdminPromise!End
    BY <2>1, <2>2, <2>3, <2>6, <2>8, AdminJudged
  <2> QED
    BY <2>9 DEF AdminPromise!SessionsNext
<1>12. ASSUME NEW r \in Errand, NEW row \in ErrandRow, row.at # "issue", errand[r].at # "issue",
              Leads(r, row), UNCHANGED <<admin, pass>>
       PROVE  Goal
  BY <1>12, UnclearedErrand, SamePasses, SameAdminStanding
<1>13. ASSUME NEW r \in Errand, NEW k \in Pass, Renew(r, k) PROVE Goal
  <2> DEFINE row == [Free EXCEPT !.who = pass[k].owner, !.row = k, !.at = "spend"]
  <2>1. pass[k].owner \in Admin /\ errand[r].at # "issue" /\ Leads(r, row) /\ UNCHANGED <<admin, pass>>
    BY <1>13 DEF Renew, Opens, Is, Leads, Free, AdminsInv, AdminsTypeOK, PassRow
  <2>2. row \in ErrandRow /\ row.at # "issue"
    BY <2>1 DEF Free, ErrandRow
  <2> HIDE DEF row
  <2> QED
    BY <1>12, <2>1, <2>2
<1>14. ASSUME NEW r \in Errand, NEW b \in Admin,
              Enter(r, b) \/ FindOther(r, b) \/ \E change \in Change : FindAdmin(r, b, change)
       PROVE  Goal
  <2>1. PICK row \in ErrandRow : row.at # "issue" /\ Leads(r, row)
    <3>1. CASE Enter(r, b)
      <4>1. [Free EXCEPT !.who = b, !.at = "in"] \in ErrandRow
            /\ [Free EXCEPT !.who = b, !.at = "in"].at = "in"
        BY DEF Free, ErrandRow
      <4> QED
        BY <3>1, <4>1 DEF Enter, Opens, Leads, Free
    <3>2. CASE FindOther(r, b)
      <4>1. [On(r, "remove") EXCEPT !.row = b] \in ErrandRow
            /\ [On(r, "remove") EXCEPT !.row = b].at = "remove"
        BY ErrandIsRow DEF On, ErrandRow
      <4> QED
        BY <3>2, <4>1 DEF FindOther
    <3>3. ASSUME NEW change \in Change, FindAdmin(r, b, change)
          PROVE  \E row \in ErrandRow : row.at # "issue" /\ Leads(r, row)
      <4>1. [On(r, "update") EXCEPT !.row = b, !.dto = change] \in ErrandRow
            /\ [On(r, "update") EXCEPT !.row = b, !.dto = change].at = "update"
        BY ErrandIsRow DEF On, ErrandRow
      <4> QED
        BY <3>3, <4>1 DEF FindAdmin
    <3> QED
      BY <1>14, <3>1, <3>2, <3>3
  <2>2. errand[r].at # "issue" /\ UNCHANGED <<admin, pass>>
    BY <1>14 DEF Enter, Opens, FindOther, FindAdmin, Is
  <2> QED
    BY <1>12, <2>1, <2>2
<1>15. ASSUME NEW r \in Errand, NEW o \in Role,
              FindUnassigned(r, o) \/ \E keys \in SUBSET Permission : FindRole(r, o, keys)
       PROVE  Goal
  <2>1. PICK row \in ErrandRow : row.at # "issue" /\ Leads(r, row)
    <3>1. CASE FindUnassigned(r, o)
      <4>1. [On(r, "drop") EXCEPT !.row = o] \in ErrandRow
            /\ [On(r, "drop") EXCEPT !.row = o].at = "drop"
        BY ErrandIsRow DEF On, ErrandRow
      <4> QED
        BY <3>1, <4>1 DEF FindUnassigned
    <3>2. ASSUME NEW keys \in SUBSET Permission, FindRole(r, o, keys)
          PROVE  \E row \in ErrandRow : row.at # "issue" /\ Leads(r, row)
      <4>1. [On(r, "rewrite") EXCEPT !.row = o, !.keys = keys] \in ErrandRow
            /\ [On(r, "rewrite") EXCEPT !.row = o, !.keys = keys].at = "rewrite"
        BY ErrandIsRow DEF On, ErrandRow
      <4> QED
        BY <3>2, <4>1 DEF FindRole
    <3> QED
      BY <1>15, <3>1, <3>2
  <2>2. errand[r].at # "issue" /\ UNCHANGED <<admin, pass>>
    BY <1>15 DEF FindUnassigned, FindRole, Is
  <2> QED
    BY <1>12, <2>1, <2>2
<1>16. ASSUME NEW r \in Errand,
              UpdateRole(r) \/ DeleteRole(r) \/ \E keys \in SUBSET Permission : CreateRole(r, keys)
       PROVE  Goal
  <2>1. errand[r].at # "issue" /\ Finishes(r) /\ UNCHANGED <<admin, pass>>
    BY <1>16 DEF UpdateRole, DeleteRole, CreateRole, Is
  <2> QED
    BY <2>1, UnclearedErrandEnd, SamePasses, SameAdminStanding
<1>17. CASE UNCHANGED adminVars
  BY <1>17, SamePasses, SameAdminStanding DEF adminVars, Clearances, Is
<1> QED
  BY <1>2, <1>3, <1>4, <1>5, <1>7, <1>8, <1>9, <1>10, <1>11, <1>13, <1>14, <1>15, <1>16, <1>17
     DEF AdminsNext

(* Signing in keeps the promise of Sessions: no session without an active  *)
(* admin to open it for, none that comes back (AdminAuthService).          *)
THEOREM AdminsImplementSessions == AdminsSpec => AdminsKeepPromise
BY AdminPromiseInit, AdminsInitInv, AdminsStep, AdminsStepMaps, PTL
   DEF AdminsSpec, AdminsKeepPromise, AdminPromise!SessionsSpec

-----------------------------------------------------------------------------
(* Gift cards.                                                             *)

CardsInv == CardsTypeOK /\ CopiesAreCurrent /\ BalanceIsLedger

(* What a correction writes is a row again (GiftCardsService.update).      *)
LEMMA CorrectedIsRow ==
    ASSUME NEW current \in CardRow, NEW copy \in CardRow, NEW change \in CardChange,
           copy.balance + Adjustment(change) \in 0..MaxBalance
    PROVE  Corrected(current, copy, change) \in CardRow
<1>1. StatusAfter(copy, change) \in CardStatus
  BY ChangeAssumption DEF StatusAfter, CardStatus, CardRow
<1>2. "adjustment" \in DOMAIN change => copy.balance + change.adjustment \in 0..MaxBalance
  BY DEF Adjustment
<1>3. current.balance \in 0..MaxBalance
  BY DEF CardRow
<1> QED
  BY <1>1, <1>2, <1>3 DEF Corrected, CardRow

(* The balance it writes on a card as it was read is moved by as much as   *)
(* the ledger.                                                             *)
LEMMA CorrectedBalance ==
    ASSUME NEW copy \in CardRow, NEW change \in CardChange
    PROVE  Corrected(copy, copy, change).balance = copy.balance + Adjustment(change)
BY ChangeAssumption DEF Corrected, Adjustment, CardRow

LEMMA AdjustmentIsInt == ASSUME NEW change \in CardChange PROVE Adjustment(change) \in Int
BY ChangeAssumption DEF Adjustment

LEMMA CardsInitInv == CardsInit => CardsInv
BY DEF CardsInit, CardsInv, CardsTypeOK, CopiesAreCurrent, BalanceIsLedger, NoCard, NoCorrection

LEMMA CardsStep == CardsInv /\ [CardsNext]_cardVars => CardsInv'
<1> SUFFICES ASSUME CardsInv, [CardsNext]_cardVars PROVE CardsInv'
  OBVIOUS
<1> USE DEF CardsInv
<1>1. ASSUME NEW c \in Card, NEW amount \in Issue, IssueCard(c, amount) PROVE CardsInv'
  <2>1. amount \in 1..MaxBalance /\ MaxBalance \in Nat
    BY ChangeAssumption
  <2>2. CardsTypeOK'
    BY <1>1, <2>1 DEF IssueCard, CardsTypeOK, CardRow, CardStatus
  <2>3. CopiesAreCurrent'
    BY <1>1 DEF IssueCard, CardsTypeOK, CopiesAreCurrent, CorrectionRow, NoCorrection
  <2>4. BalanceIsLedger'
    BY <1>1, <2>1 DEF IssueCard, CardsTypeOK, BalanceIsLedger
  <2> QED
    BY <2>2, <2>3, <2>4
<1>2. ASSUME NEW k \in Correction, NEW c \in Card, NEW change \in CardChange, ReadCard(k, c, change)
      PROVE  CardsInv'
  <2>1. CardsTypeOK'
    BY <1>2 DEF ReadCard, CardsTypeOK, CorrectionRow
  <2>2. CopiesAreCurrent'
    BY <1>2 DEF ReadCard, CardsTypeOK, CopiesAreCurrent
  <2>3. BalanceIsLedger'
    BY <1>2 DEF ReadCard, BalanceIsLedger
  <2> QED
    BY <2>1, <2>2, <2>3
<1>3. ASSUME NEW k \in Correction, Commit(k) PROVE CardsInv'
  <2> DEFINE fix == correction[k]
             row == Corrected(card[fix.card], fix.copy, fix.order)
  <2>1. /\ fix \in CorrectionRow /\ ~fix.stale /\ fix.copy = card[fix.card]
        /\ fix.card \in Card /\ fix.copy \in CardRow /\ fix.order \in CardChange
    BY <1>3 DEF Commit, CardsTypeOK, CopiesAreCurrent, CorrectionRow, NoCorrection
  <2>2. /\ fix.copy.balance + Adjustment(fix.order) \in 0..MaxBalance
        /\ card' = [card EXCEPT ![fix.card] = row]
        /\ ledger' = [ledger EXCEPT ![fix.card] = @ + Adjustment(fix.order)]
        /\ correction' = [j \in Correction |->
              IF j = k THEN NoCorrection
              ELSE IF correction[j].step = "commit" /\ correction[j].card = fix.card
              THEN [correction[j] EXCEPT !.stale = TRUE] ELSE correction[j]]
    BY <1>3 DEF Commit, Committed
  <2>3. row \in CardRow
    BY <2>1, <2>2, CorrectedIsRow
  <2>4. row.balance = ledger[fix.card] + Adjustment(fix.order)
    BY <2>1, CorrectedBalance DEF BalanceIsLedger
  <2>5. Adjustment(fix.order) \in Int
    BY <2>1, AdjustmentIsInt
  <2>6. CardsTypeOK'
    <3>1. card' \in [Card -> CardRow \cup {NoCard}]
      BY <2>1, <2>2, <2>3 DEF CardsTypeOK
    <3>2. ledger' \in [Card -> Int]
      BY <2>1, <2>2, <2>5 DEF CardsTypeOK
    <3>3. correction' \in [Correction -> CorrectionRow \cup {NoCorrection}]
      BY <2>2 DEF CardsTypeOK, CorrectionRow, NoCorrection
    <3> QED
      BY <3>1, <3>2, <3>3 DEF CardsTypeOK
  <2>7. row # NoCard
    BY <2>3 DEF CardRow, NoCard, CardStatus
  <2>8. CopiesAreCurrent'
    <3> SUFFICES ASSUME NEW j \in Correction, correction'[j].step = "commit"
                 PROVE  /\ card'[correction'[j].card] # NoCard
                        /\ ~correction'[j].stale => correction'[j].copy = card'[correction'[j].card]
      BY DEF CopiesAreCurrent
    <3>1. j # k
      BY <2>2 DEF NoCorrection
    <3>2. correction[j] \in CorrectionRow /\ correction'[j].card = correction[j].card
      BY <2>2, <3>1 DEF CardsTypeOK, CorrectionRow, NoCorrection
    <3>3. CASE correction[j].card = fix.card
      BY <2>1, <2>2, <2>7, <3>1, <3>2, <3>3 DEF CorrectionRow, CardsTypeOK
    <3>4. CASE correction[j].card # fix.card
      BY <2>1, <2>2, <3>1, <3>2, <3>4 DEF CorrectionRow, CopiesAreCurrent, CardsTypeOK
    <3> QED
      BY <3>3, <3>4
  <2>9. BalanceIsLedger'
    <3> SUFFICES ASSUME NEW c \in Card
                 PROVE  card'[c].balance = ledger'[c] /\ ledger'[c] >= 0
      BY DEF BalanceIsLedger
    <3>1. CASE c = fix.card
      BY <2>2, <2>3, <2>4, <3>1 DEF CardsTypeOK, CardRow
    <3>2. CASE c # fix.card
      BY <2>2, <3>2 DEF CardsTypeOK, BalanceIsLedger
    <3> QED
      BY <3>1, <3>2
  <2> QED
    BY <2>6, <2>8, <2>9
<1>4. ASSUME NEW k \in Correction, Abort(k) PROVE CardsInv'
  BY <1>4 DEF Abort, CardsTypeOK, CopiesAreCurrent, BalanceIsLedger, NoCorrection
<1>5. CASE UNCHANGED cardVars
  BY <1>5 DEF cardVars, CardsTypeOK, CopiesAreCurrent, BalanceIsLedger
<1> QED
  BY <1>1, <1>2, <1>3, <1>4, <1>5 DEF CardsNext

(* However corrections overlap, a card's balance is the sum of its ledger  *)
(* and not negative (GiftCardsService.create and update).                  *)
THEOREM CardsBalance == CardsSpec => [](CardsTypeOK /\ BalanceIsLedger)
<1>1. CardsInv => CardsTypeOK /\ BalanceIsLedger
  BY DEF CardsInv
<1> QED
  BY CardsInitInv, CardsStep, <1>1, PTL DEF CardsSpec

-----------------------------------------------------------------------------
(* Quotes.                                                                 *)

Prices == Nat \cup {Unpriced}

QuoteRow ==
    [owner : Customer \cup {Guest}, status : QuoteStatus \cup {"none"}, total : Prices, unit : Prices]

AnswerRow == [step : {"write"}, row : Quote, status : {"ACCEPTED", "DECLINED"}]

QuotesTypeOK ==
    /\ quote \in [Quote -> QuoteRow]
    /\ answer \in [Answer -> AnswerRow \cup {Unanswered}]
    /\ given \in [Quote -> SUBSET Answer]

(* Nobody has answered what is on offer, and who is about to answer a      *)
(* quote has not answered it, whatever has become of the quote.            *)
OfferIsOpen == \A q \in Quote : quote[q].status = "QUOTED" => given[q] = {}

AnswersAreNew == \A a \in Answer : answer[a].step = "write" => a \notin given[answer[a].row]

QuotesInv == QuotesTypeOK /\ OfferIsOpen /\ AnswersAreNew

LEMMA QuotesInitInv == QuotesInit => QuotesInv
BY DEF QuotesInit, QuotesInv, QuotesTypeOK, OfferIsOpen, AnswersAreNew, QuoteRow, Prices, Unasked, Unanswered

(* What the office writes is a row again (AdminQuotesService.respond).     *)
LEMMA RespondedIsRow ==
    ASSUME NEW row \in QuoteRow, NEW write \in Response
    PROVE  [field \in DOMAIN row |-> IF field \in DOMAIN write THEN write[field] ELSE row[field]]
             \in QuoteRow
<1>1. /\ DOMAIN write \subseteq {"status", "total", "line", "unit"}
      /\ "status" \in DOMAIN write => write.status \in QuoteStatus
      /\ "total" \in DOMAIN write => write.total \in Nat
      /\ "unit" \in DOMAIN write => write.unit \in Nat
  BY ResponseAssumption DEF RespondDto
<1> QED
  BY <1>1 DEF QuoteRow, Prices

LEMMA QuotesStep == QuotesInv /\ [QuotesNext]_quoteVars => QuotesInv'
<1> SUFFICES ASSUME QuotesInv, [QuotesNext]_quoteVars PROVE QuotesInv'
  OBVIOUS
<1>0. QuotesTypeOK /\ OfferIsOpen /\ AnswersAreNew
  BY DEF QuotesInv
<1>1. ASSUME NEW q \in Quote, NEW owner \in Customer \cup {Guest}, Ask(q, owner) PROVE QuotesInv'
  <2>1. QuotesTypeOK'
    BY <1>0, <1>1 DEF Ask, QuotesTypeOK, QuoteRow, Unasked, QuoteStatus
  <2>2. OfferIsOpen'
    BY <1>0, <1>1 DEF Ask, OfferIsOpen, QuotesTypeOK
  <2>3. AnswersAreNew'
    BY <1>0, <1>1 DEF Ask, AnswersAreNew
  <2> QED
    BY <2>1, <2>2, <2>3 DEF QuotesInv
<1>2. ASSUME NEW a \in Answer, NEW q \in Quote, NEW c \in Customer,
             NEW status \in {"ACCEPTED", "DECLINED"}, Detail(a, q, c, status)
      PROVE  QuotesInv'
  <2>1. QuotesTypeOK'
    BY <1>0, <1>2 DEF Detail, QuotesTypeOK, QuoteRow, AnswerRow
  <2>2. OfferIsOpen'
    BY <1>0, <1>2 DEF Detail, OfferIsOpen
  <2>3. given[q] = {}
    BY <1>0, <1>2 DEF Detail, OfferIsOpen
  <2>4. AnswersAreNew'
    BY <1>0, <1>2, <2>3 DEF Detail, AnswersAreNew, QuotesTypeOK
  <2> QED
    BY <2>1, <2>2, <2>4 DEF QuotesInv
<1>3. ASSUME NEW a \in Answer, Accept(a) PROVE QuotesInv'
  <2>1. answer[a] \in AnswerRow /\ answer[a].row \in Quote
    BY <1>0, <1>3 DEF Accept, QuotesTypeOK, AnswerRow, Unanswered
  <2>2. quote' \in [Quote -> QuoteRow]
    BY <1>0, <1>3, <2>1 DEF Accept, QuotesTypeOK, QuoteRow, AnswerRow, QuoteStatus
  <2>3. /\ answer' \in [Answer -> AnswerRow \cup {Unanswered}]
        /\ given' \in [Quote -> SUBSET Answer]
    BY <1>0, <1>3, <2>1 DEF Accept, QuotesTypeOK
  <2>4. OfferIsOpen'
    <3> SUFFICES ASSUME NEW p \in Quote, quote'[p].status = "QUOTED" PROVE given'[p] = {}
      BY DEF OfferIsOpen
    <3>1. p # answer[a].row
      BY <1>0, <1>3, <2>1 DEF Accept, QuotesTypeOK, AnswerRow, QuoteRow
    <3>2. quote'[p] = quote[p] /\ given'[p] = given[p]
      BY <1>0, <1>3, <3>1 DEF Accept, QuotesTypeOK
    <3> QED
      BY <1>0, <3>2 DEF OfferIsOpen
  <2>5. AnswersAreNew'
    <3> SUFFICES ASSUME NEW b \in Answer, answer'[b].step = "write"
                 PROVE  b \notin given'[answer'[b].row]
      BY DEF AnswersAreNew
    <3>1. b # a
      BY <1>0, <1>3 DEF Accept, QuotesTypeOK, Unanswered
    <3>2. answer'[b] = answer[b]
      BY <1>0, <1>3, <3>1 DEF Accept, QuotesTypeOK
    <3>3. b \notin given[answer[b].row] /\ answer[b].row \in Quote
      BY <1>0, <3>2 DEF AnswersAreNew, QuotesTypeOK, AnswerRow, Unanswered
    <3>4. given'[answer[b].row] \subseteq given[answer[b].row] \cup {a}
      BY <1>0, <1>3, <3>3 DEF Accept, QuotesTypeOK
    <3> QED
      BY <3>1, <3>2, <3>3, <3>4
  <2> QED
    BY <2>2, <2>3, <2>4, <2>5 DEF QuotesInv, QuotesTypeOK
<1>4. ASSUME NEW q \in Quote, NEW write \in Response, Respond(q, write) PROVE QuotesInv'
  <2>1. quote' \in [Quote -> QuoteRow]
    BY <1>0, <1>4, RespondedIsRow DEF Respond, QuotesTypeOK
  <2>2. given' \in [Quote -> SUBSET Answer] /\ answer' = answer
    BY <1>0, <1>4 DEF Respond, QuotesTypeOK
  <2>3. \A p \in Quote : given'[p] \subseteq given[p]
    BY <1>0, <1>4 DEF Respond, QuotesTypeOK
  <2>4. OfferIsOpen'
    <3> SUFFICES ASSUME NEW p \in Quote, quote'[p].status = "QUOTED" PROVE given'[p] = {}
      BY DEF OfferIsOpen
    <3>1. CASE p = q
      BY <1>0, <1>4, <3>1 DEF Respond, QuotesTypeOK
    <3>2. CASE p # q
      <4>1. quote'[p] = quote[p]
        BY <1>0, <1>4, <3>2 DEF Respond, QuotesTypeOK
      <4> QED
        BY <1>0, <2>3, <4>1 DEF OfferIsOpen
    <3> QED
      BY <3>1, <3>2
  <2>5. AnswersAreNew'
    <3>1. \A a \in Answer : answer[a].step = "write" => answer[a].row \in Quote
      BY <1>0 DEF QuotesTypeOK, AnswerRow, Unanswered
    <3> QED
      BY <1>0, <2>2, <2>3, <3>1 DEF AnswersAreNew
  <2> QED
    BY <1>0, <2>1, <2>2, <2>4, <2>5 DEF QuotesInv, QuotesTypeOK
<1>5. CASE UNCHANGED quoteVars
  BY <1>0, <1>5 DEF quoteVars, QuotesInv, QuotesTypeOK, OfferIsOpen, AnswersAreNew
<1> QED
  BY <1>1, <1>2, <1>3, <1>4, <1>5 DEF QuotesNext

(* However answers and responses interleave, a client answers an offer of  *)
(* the office once (accept, decline and respond).                          *)
THEOREM OffersAnsweredOnce == QuotesSpec => OneAnswerEach
<1>1. QuotesInv
        => [\A a \in Answer :
              answer[a].step = "write" /\ answer'[a].step = "idle" => a \notin given[answer[a].row]]_quoteVars
  BY DEF QuotesInv, AnswersAreNew
<1> QED
  BY QuotesInitInv, QuotesStep, <1>1, PTL DEF QuotesSpec, OneAnswerEach

-----------------------------------------------------------------------------
(* Bundles and coupons: Offers.                                            *)

BundleField == {"slug", "items", "status", "from", "till", "live", "crossed"}

CouponField == {"code", "kind", "amount", "from", "till", "live", "crossed"}

Item == UNION {edit.items : edit \in {e \in BundleEdit : "items" \in DOMAIN e}}

BundleTask == [at : {"newBundle", "wipe", "bundle"}, row : Bundle, edit : BundleEdit,
               gone : SUBSET Item, crossed : BOOLEAN]

CouponTask == [at : {"newCoupon", "coupon"}, row : Coupon, edit : CouponEdit,
               gone : SUBSET Item, crossed : BOOLEAN]

BundleRowOK(row) ==
    /\ DOMAIN row = BundleField
    /\ row.items \subseteq Item
    /\ row.from \in Date /\ row.till \in Date
    /\ row.live => row.slug # Unset
    /\ row.slug = Unset => row.items = {}

CouponRowOK(row) ==
    /\ DOMAIN row = CouponField
    /\ row.live => row.code # Unset
    /\ row.code = Unset => row = NoCoupon

OffersTypeOK ==
    /\ DOMAIN bundle = Bundle /\ \A b \in Bundle : BundleRowOK(bundle[b])
    /\ DOMAIN coupon = Coupon /\ \A c \in Coupon : CouponRowOK(coupon[c])
    /\ task \in [Task -> BundleTask \cup CouponTask \cup {Untasked}]
    /\ today \in Nat

(* A request that makes a bundle is the only one about it, and an update   *)
(* that was not crossed has deleted every item there is.                   *)
BundleTaskOK(t) ==
    LET row == bundle[task[t].row] IN
    /\ task[t].at = "newBundle" =>
          /\ row.slug = Unset /\ {"slug", "items"} \subseteq DOMAIN task[t].edit
          /\ \A u \in Task \ {t} : task[u].at = "newBundle" => task[u].row # task[t].row
    /\ task[t].at \in {"wipe", "bundle"} => row.slug # Unset
    /\ task[t].at = "wipe" => "items" \in DOMAIN task[t].edit
    /\ task[t].at = "bundle" =>
          IF "items" \in DOMAIN task[t].edit THEN task[t].crossed \/ row.items \subseteq task[t].gone
          ELSE task[t].gone = {}

(* A request that makes a coupon is the only one about it, and what one    *)
(* that was not crossed would leave is valid.                              *)
CouponTaskOK(t) ==
    LET row == coupon[task[t].row] IN
    /\ task[t].at = "newCoupon" =>
          /\ row = NoCoupon /\ "code" \in DOMAIN task[t].edit
          /\ \A u \in Task \ {t} : task[u].at = "newCoupon" => task[u].row # task[t].row
    /\ task[t].at = "coupon" => row.code # Unset
    /\ task[t].at \in {"newCoupon", "coupon"} =>
          task[t].crossed \/ Valid(CouponAfter(row, task[t].edit))

OffersInv ==
    /\ OffersTypeOK
    /\ \A t \in Task : BundleTaskOK(t) /\ CouponTaskOK(t)
    /\ ItemsOfOneSave /\ CouponsStayValid

LEMMA EditedBundle ==
    ASSUME NEW row, BundleRowOK(row), NEW edit \in BundleEdit
    PROVE  /\ DOMAIN Edited(row, edit) = BundleField
           /\ Edited(row, edit).from \in Date /\ Edited(row, edit).till \in Date
           /\ "slug" \in DOMAIN edit => Edited(row, edit).slug # Unset
           /\ "slug" \notin DOMAIN edit => Edited(row, edit).slug = row.slug
           /\ Edited(row, edit).live = row.live /\ Edited(row, edit).crossed = row.crossed
<1>1. BundleDto(edit)
  BY OffersAssumption
<1>2. "live" \notin DOMAIN edit /\ "crossed" \notin DOMAIN edit
  BY <1>1 DEF BundleDto
<1> QED
  BY <1>1, <1>2 DEF BundleDto, Edited, BundleRowOK, BundleField

LEMMA ItemsAreItems ==
    ASSUME NEW edit \in BundleEdit, "items" \in DOMAIN edit
    PROVE  edit.items \subseteq Item
BY DEF Item

(* A code is never null, so it is named and an edit of it takes effect.    *)
LEMMA CouponAfterIsRow ==
    ASSUME NEW row, DOMAIN row = CouponField, NEW edit \in CouponEdit
    PROVE  /\ DOMAIN CouponAfter(row, edit) = CouponField
           /\ "code" \in DOMAIN edit => CouponAfter(row, edit).code # Unset
           /\ "code" \notin DOMAIN edit => CouponAfter(row, edit).code = row.code
           /\ CouponAfter(row, edit).live = row.live
<1>1. CouponDto(edit)
  BY OffersAssumption
<1>2. "live" \notin DOMAIN edit
  BY <1>1 DEF CouponDto
<1> QED
  BY <1>1, <1>2 DEF CouponDto, CouponAfter, Edited, CouponField

(* Whether a coupon is live has no part in whether it is valid.            *)
LEMMA ValidityIsOfTheFour ==
    ASSUME NEW row, NEW other, DOMAIN row = CouponField, DOMAIN other = CouponField,
           row.kind = other.kind, row.amount = other.amount, row.from = other.from,
           row.till = other.till, NEW edit
    PROVE  /\ Valid(row) <=> Valid(other)
           /\ Valid(CouponAfter(row, edit)) <=> Valid(CouponAfter(other, edit))
<1>1. \A field \in {"kind", "amount", "from", "till"} :
         CouponAfter(row, edit)[field] = CouponAfter(other, edit)[field]
  BY DEF CouponAfter, Edited, CouponField
<1> QED
  BY <1>1 DEF Valid

LEMMA OffersInitInv == OffersInit => OffersInv
<1> SUFFICES ASSUME OffersInit PROVE OffersInv
  OBVIOUS
<1>1. OffersTypeOK
  BY DEF OffersInit, OffersTypeOK, BundleRowOK, CouponRowOK, NoBundle, NoCoupon, Date, BundleField,
         CouponField
<1>2. \A t \in Task : BundleTaskOK(t) /\ CouponTaskOK(t)
  BY DEF OffersInit, BundleTaskOK, CouponTaskOK, Untasked
<1>3. ItemsOfOneSave /\ CouponsStayValid
  BY DEF OffersInit, ItemsOfOneSave, CouponsStayValid, NoBundle, NoCoupon
<1> QED
  BY <1>1, <1>2, <1>3 DEF OffersInv

(* A window whose ends are in order has one label.                         *)
LEMMA OneLabel ==
    ASSUME NEW row, row.from \in Date, row.till \in Date, today \in Nat,
           row.from = Unset \/ row.till = Unset \/ row.from <= row.till
    PROVE  Cardinality(Schedule(row)) = 1
<1>1. Unset \notin Nat
  BY OffersAssumption
<1> DEFINE late == row.till # Unset /\ row.till < today
           soon == row.from # Unset /\ row.from > today
<1>2. /\ "LIVE" \in Schedule(row) <=> ~late /\ ~soon
      /\ "SCHEDULED" \in Schedule(row) <=> soon
      /\ "EXPIRED" \in Schedule(row) <=> late
      /\ Schedule(row) \subseteq {"LIVE", "SCHEDULED", "EXPIRED"}
  <2>1. "LIVE" \in Schedule(row) <=> /\ row.from = Unset \/ row.from <= today
                                     /\ row.till = Unset \/ row.till >= today
    BY DEF Schedule
  <2>2. /\ row.from = Unset \/ row.from <= today <=> ~soon
        /\ row.till = Unset \/ row.till >= today <=> ~late
    BY <1>1 DEF Date
  <2>3. "SCHEDULED" \in Schedule(row) <=> soon
    BY DEF Schedule
  <2>4. "EXPIRED" \in Schedule(row) <=> late
    BY DEF Schedule
  <2>5. Schedule(row) \subseteq {"LIVE", "SCHEDULED", "EXPIRED"}
    BY DEF Schedule
  <2> QED
    BY <2>1, <2>2, <2>3, <2>4, <2>5
<1>3. ~(late /\ soon)
  BY <1>1 DEF Date
<1> HIDE DEF late, soon
<1>4. \E label : Schedule(row) = {label}
  <2>1. CASE late
    BY <1>2, <1>3, <2>1
  <2>2. CASE soon
    BY <1>2, <1>3, <2>2
  <2>3. CASE ~late /\ ~soon
    BY <1>2, <2>3
  <2> QED
    BY <2>1, <2>2, <2>3
<1> QED
  BY <1>4, FS_Singleton

LEMMA SchedulesAgreeAlways == OffersTypeOK => SchedulesAgree
<1> SUFFICES ASSUME OffersTypeOK, NEW b \in Bundle
             PROVE  LET row == bundle[b] IN
                      /\ row.live /\ row.status = "ACTIVE" => (b \in OnShow <=> "LIVE" \in Schedule(row))
                      /\ row.from = Unset \/ row.till = Unset \/ row.from <= row.till
                            => Cardinality(Schedule(row)) = 1
  BY DEF SchedulesAgree
<1>1. bundle[b].live /\ bundle[b].status = "ACTIVE" => (b \in OnShow <=> "LIVE" \in Schedule(bundle[b]))
  BY DEF OnShow, InWindow, Schedule
<1>2. bundle[b].from \in Date /\ bundle[b].till \in Date /\ today \in Nat
  BY DEF OffersTypeOK, BundleRowOK
<1> QED
  BY <1>1, <1>2, OneLabel

(* A write is seen by those that look at the row, and by nobody else.      *)
LEMMA LeavingTells ==
    ASSUME OffersTypeOK, NEW t \in Task, NEW places \in {{"bundle"}, {"coupon"}}, NEW gone,
           Leaves(t, places, gone)
    PROVE  /\ task' \in [Task -> BundleTask \cup CouponTask \cup {Untasked}]
           /\ task'[t] = Untasked
           /\ \A u \in Task \ {t} :
                 \/ task'[u] = task[u] /\ ~(task[u].at \in places /\ task[u].row = task[t].row)
                 \/ /\ task[u].at \in places /\ task[u].row = task[t].row
                    /\ task'[u].at = task[u].at /\ task'[u].row = task[u].row
                    /\ task'[u].edit = task[u].edit /\ task'[u].crossed
                    /\ task'[u].gone = task[u].gone \ gone
<1>1. \A u \in Task : task[u].at \in places => task[u] \in BundleTask \cup CouponTask
  BY DEF OffersTypeOK, Untasked
<1>2. ASSUME NEW u \in Task \ {t}, task[u].at \in places, task[u].row = task[t].row
      PROVE  /\ task'[u].at = task[u].at /\ task'[u].row = task[u].row
             /\ task'[u].edit = task[u].edit /\ task'[u].crossed
             /\ task'[u].gone = task[u].gone \ gone
             /\ task'[u] \in BundleTask \cup CouponTask
  <2>1. task'[u] = [task[u] EXCEPT !.crossed = TRUE, !.gone = @ \ gone]
    BY <1>2 DEF Leaves
  <2>2. task[u] \in BundleTask \/ task[u] \in CouponTask
    BY <1>1, <1>2
  <2>3. CASE task[u] \in BundleTask
    BY <2>1, <2>3 DEF BundleTask
  <2>4. CASE task[u] \in CouponTask
    BY <2>1, <2>4 DEF CouponTask
  <2> QED
    BY <2>2, <2>3, <2>4
<1>3. ASSUME NEW u \in Task \ {t}, ~(task[u].at \in places /\ task[u].row = task[t].row)
      PROVE  task'[u] = task[u]
  BY <1>3 DEF Leaves
<1>4. task'[t] = Untasked /\ task' = [u \in Task |-> task'[u]]
  BY DEF Leaves
<1>5. \A u \in Task : task'[u] \in BundleTask \cup CouponTask \cup {Untasked}
  BY <1>2, <1>3, <1>4 DEF OffersTypeOK
<1> QED
  BY <1>2, <1>3, <1>4, <1>5

(* A request that has just looked.                                         *)
LEMMA TakingIsTyped ==
    ASSUME OffersTypeOK, NEW t \in Task, NEW at, NEW row, NEW edit, Takes(t, at, row, edit),
           \/ at \in {"newBundle", "wipe", "bundle"} /\ row \in Bundle /\ edit \in BundleEdit
           \/ at \in {"newCoupon", "coupon"} /\ row \in Coupon /\ edit \in CouponEdit
    PROVE  /\ task' \in [Task -> BundleTask \cup CouponTask \cup {Untasked}]
           /\ task'[t] = [at |-> at, row |-> row, edit |-> edit, gone |-> {}, crossed |-> FALSE]
           /\ \A u \in Task \ {t} : task'[u] = task[u]
BY DEF Takes, OffersTypeOK, BundleTask, CouponTask

LEMMA RejectingChangesNothing ==
    ASSUME OffersInv, NEW t \in Task, Rejected(t)
    PROVE  OffersInv'
<1>1. /\ UNCHANGED <<bundle, coupon, today>> /\ task' = [task EXCEPT ![t] = Untasked]
  BY DEF Rejected
<1>2. OffersTypeOK'
  BY <1>1 DEF OffersInv, OffersTypeOK
<1>3. task'[t] = Untasked /\ \A u \in Task \ {t} : task'[u] = task[u]
  BY <1>1 DEF OffersInv, OffersTypeOK
<1>4. ASSUME NEW u \in Task PROVE BundleTaskOK(u)' /\ CouponTaskOK(u)'
  BY <1>1, <1>3 DEF OffersInv, BundleTaskOK, CouponTaskOK, Untasked
<1>5. ItemsOfOneSave' /\ CouponsStayValid'
  BY <1>1 DEF OffersInv, ItemsOfOneSave, CouponsStayValid
<1> QED
  BY <1>2, <1>4, <1>5 DEF OffersInv

LEMMA BundlesStep ==
    ASSUME OffersInv, BundlesNext
    PROVE  OffersInv'
<1>1. OffersTypeOK
  BY DEF OffersInv
<1>2. \A t \in Task : BundleTaskOK(t) /\ CouponTaskOK(t)
  BY DEF OffersInv
<1>3. ItemsOfOneSave /\ CouponsStayValid
  BY DEF OffersInv
<1>4. ASSUME NEW t \in Task, NEW b \in Bundle, NEW edit \in BundleEdit, NEW at,
             Takes(t, at, b, edit), UNCHANGED <<bundle, coupon, today>>,
             \/ /\ at = "newBundle" /\ bundle[b].slug = Unset
                /\ {"slug", "items"} \subseteq DOMAIN edit
                /\ \A u \in Task : task[u].at = "newBundle" => task[u].row # b
             \/ /\ at = IF "items" \in DOMAIN edit THEN "wipe" ELSE "bundle"
                /\ bundle[b].slug # Unset
      PROVE  OffersInv'
  <2>1. /\ task' \in [Task -> BundleTask \cup CouponTask \cup {Untasked}]
        /\ task'[t] = [at |-> at, row |-> b, edit |-> edit, gone |-> {}, crossed |-> FALSE]
        /\ \A u \in Task \ {t} : task'[u] = task[u]
    BY <1>1, <1>4, TakingIsTyped
  <2>2. OffersTypeOK'
    BY <1>1, <1>4, <2>1 DEF OffersTypeOK
  <2>3. ASSUME NEW u \in Task PROVE BundleTaskOK(u)'
    <3>1. CASE u = t
      BY <1>2, <1>4, <2>1, <3>1 DEF BundleTaskOK
    <3>2. CASE u # t
      BY <1>2, <1>4, <2>1, <3>2 DEF BundleTaskOK
    <3> QED
      BY <3>1, <3>2
  <2>4. ASSUME NEW u \in Task PROVE CouponTaskOK(u)'
    <3>1. CASE u = t
      BY <1>2, <1>4, <2>1, <3>1 DEF CouponTaskOK
    <3>2. CASE u # t
      BY <1>2, <1>4, <2>1, <3>2 DEF CouponTaskOK
    <3> QED
      BY <3>1, <3>2
  <2>5. ItemsOfOneSave' /\ CouponsStayValid'
    BY <1>3, <1>4 DEF ItemsOfOneSave, CouponsStayValid
  <2> QED
    BY <2>2, <2>3, <2>4, <2>5 DEF OffersInv
<1>5. ASSUME NEW t \in Task, Wipe(t) PROVE OffersInv'
  <2>1. task[t] \in BundleTask /\ task[t].at = "wipe" /\ UNCHANGED <<bundle, coupon, today>>
    BY <1>1, <1>5 DEF Wipe, OffersTypeOK, CouponTask, Untasked
  <2>2. /\ \A u \in Task \ {t} : task'[u] = task[u]
        /\ task'[t].at = "bundle" /\ task'[t].row = task[t].row
        /\ task'[t].gone = bundle[task[t].row].items
        /\ task' = [task EXCEPT ![t] = task'[t]] /\ task'[t] \in BundleTask
    BY <1>1, <1>5, <2>1 DEF Wipe, OffersTypeOK, BundleTask, BundleRowOK
  <2>3. OffersTypeOK'
    BY <1>1, <2>1, <2>2 DEF OffersTypeOK
  <2>4. "items" \in DOMAIN task[t].edit /\ task'[t].edit = task[t].edit
    <3>1. "items" \in DOMAIN task[t].edit
      BY <1>2, <2>1 DEF BundleTaskOK
    <3> QED
      BY <1>1, <1>5, <2>1, <3>1 DEF Wipe, BundleTask, OffersTypeOK
  <2>5. ASSUME NEW u \in Task PROVE BundleTaskOK(u)' /\ CouponTaskOK(u)'
    <3>1. CASE u = t
      BY <1>2, <2>1, <2>2, <2>4, <3>1 DEF BundleTaskOK, CouponTaskOK
    <3>2. CASE u # t
      BY <1>2, <2>1, <2>2, <3>2 DEF BundleTaskOK, CouponTaskOK
    <3> QED
      BY <3>1, <3>2
  <2>6. ItemsOfOneSave' /\ CouponsStayValid'
    BY <1>3, <2>1 DEF ItemsOfOneSave, CouponsStayValid
  <2> QED
    BY <2>3, <2>5, <2>6 DEF OffersInv
<1>6. ASSUME NEW t \in Task, CommitBundle(t) PROVE OffersInv'
  <2> DEFINE b == task[t].row
             edit == task[t].edit
             named == "items" \in DOMAIN edit
             new == bundle'[b]
  <2>1. /\ task[t] \in BundleTask /\ task[t].at \in {"newBundle", "bundle"}
        /\ b \in Bundle /\ edit \in BundleEdit /\ UNCHANGED <<coupon, today>>
        /\ task[t].gone \subseteq Item /\ task[t].crossed \in BOOLEAN
    BY <1>1, <1>6 DEF CommitBundle, OffersTypeOK, BundleTask, CouponTask, Untasked
  <2>2. /\ \A c \in Bundle \ {b} : bundle'[c] = bundle[c]
        /\ DOMAIN bundle' = Bundle
        /\ new = SavedBundle(bundle[b], t)
    BY <1>1, <1>6, <2>1 DEF CommitBundle, OffersTypeOK
  <2>3. /\ DOMAIN new = BundleField
        /\ new.items = Untouched(t) \cup NewItems(t)
        /\ new.live <=> bundle[b].live \/ task[t].at = "newBundle"
        /\ new.crossed = IF named THEN task[t].crossed ELSE bundle[b].crossed
        /\ new.from \in Date /\ new.till \in Date
        /\ new.slug # Unset
    <3>1. BundleRowOK(bundle[b])
      BY <1>1, <2>1 DEF OffersTypeOK
    <3>2. "slug" \in DOMAIN edit \/ bundle[b].slug # Unset
      BY <1>2, <2>1 DEF BundleTaskOK
    <3> DEFINE row == Edited(bundle[b], edit)
    <3>3. /\ DOMAIN row = BundleField /\ row.from \in Date /\ row.till \in Date
          /\ row.slug # Unset
          /\ row.live = bundle[b].live /\ row.crossed = bundle[b].crossed
      BY <2>1, <3>1, <3>2, EditedBundle
    <3>4. new = [row EXCEPT !.items = Untouched(t) \cup NewItems(t),
                            !.live = @ \/ task[t].at = "newBundle",
                            !.crossed = IF named THEN task[t].crossed ELSE @]
      BY <2>2 DEF SavedBundle
    <3> HIDE DEF row, new
    <3> QED
      BY <3>3, <3>4 DEF BundleField
  <2>4. new.items \subseteq Item
    BY <1>1, <2>1, <2>3, ItemsAreItems DEF Untouched, NewItems, OffersTypeOK, BundleRowOK
  <2>5. /\ ~named => new.items = bundle[b].items
        /\ named /\ ~task[t].crossed => new.items = edit.items
    <3>1. CASE task[t].at = "newBundle"
      <4>1. bundle[b].items = {} /\ named
        BY <1>1, <1>2, <2>1, <3>1 DEF BundleTaskOK, OffersTypeOK, BundleRowOK
      <4> QED
        BY <2>3, <4>1 DEF Untouched, NewItems
    <3>2. CASE task[t].at = "bundle"
      BY <1>2, <2>1, <2>3, <3>2 DEF BundleTaskOK, Untouched, NewItems
    <3> QED
      BY <2>1, <3>1, <3>2
  <2>6. /\ task' \in [Task -> BundleTask \cup CouponTask \cup {Untasked}]
        /\ task'[t] = Untasked
        /\ \A u \in Task \ {t} :
              \/ task'[u] = task[u] /\ (named => ~(task[u].at = "bundle" /\ task[u].row = b))
              \/ /\ named /\ task[u].at = "bundle" /\ task[u].row = b
                 /\ task'[u].at = task[u].at /\ task'[u].row = task[u].row
                 /\ task'[u].edit = task[u].edit /\ task'[u].crossed
                 /\ task'[u].gone = task[u].gone \ task[t].gone
    <3>1. CASE named
      <4>1. Leaves(t, {"bundle"}, task[t].gone)
        BY <1>6, <3>1 DEF CommitBundle
      <4> QED
        BY <1>1, <3>1, <4>1, LeavingTells
    <3>2. CASE ~named
      BY <1>1, <1>6, <3>2 DEF CommitBundle, OffersTypeOK
    <3> QED
      BY <3>1, <3>2
  <2> HIDE DEF b, edit, named, new
  <2>7. OffersTypeOK'
    <3>1. ASSUME NEW c \in Bundle PROVE BundleRowOK(bundle'[c])
      <4>1. CASE c = b
        BY <2>3, <2>4, <4>1 DEF BundleRowOK, new
      <4>2. CASE c # b
        BY <1>1, <2>2, <4>2 DEF OffersTypeOK
      <4> QED
        BY <4>1, <4>2
    <3> QED
      BY <1>1, <2>1, <2>2, <2>6, <3>1 DEF OffersTypeOK
  <2>8. ASSUME NEW u \in Task PROVE CouponTaskOK(u)'
    <3>1. CASE u = t
      BY <1>2, <2>6, <3>1 DEF CouponTaskOK, Untasked
    <3>2. CASE task'[u] = task[u] /\ u # t
      BY <1>2, <2>1, <2>6, <3>2 DEF CouponTaskOK, Untasked
    <3>3. CASE task'[u] # task[u] /\ u # t
      BY <1>2, <2>6, <3>3 DEF CouponTaskOK
    <3> QED
      BY <3>1, <3>2, <3>3
  <2>9. ASSUME NEW u \in Task PROVE BundleTaskOK(u)'
    <3>1. CASE u = t
      BY <1>2, <2>6, <3>1 DEF BundleTaskOK, Untasked
    <3>2. CASE u # t /\ task[u].at = "newBundle"
      <4>1. task'[u] = task[u] /\ task[u].row # b
        BY <1>2, <2>1, <2>6, <3>2 DEF BundleTaskOK, b
      <4>2. \A v \in Task : task'[v].at = "newBundle" => task[v].at = "newBundle" /\ task'[v].row = task[v].row
        BY <2>6 DEF Untasked
      <4> QED
        BY <1>1, <1>2, <2>2, <3>2, <4>1, <4>2 DEF BundleTaskOK, OffersTypeOK, BundleTask, CouponTask, Untasked
    <3>3. CASE u # t /\ task[u].at \in {"wipe", "bundle"}
      <4>1. task[u].row \in Bundle /\ bundle[task[u].row].slug # Unset
        BY <1>1, <1>2, <3>3 DEF BundleTaskOK, OffersTypeOK, BundleTask, CouponTask, Untasked
      <4>2. bundle'[task[u].row].slug # Unset
        BY <2>2, <2>3, <4>1 DEF new
      <4>3. CASE task'[u] = task[u] /\ (task[u].row # b \/ ~named)
        <5>1. bundle'[task[u].row].items = bundle[task[u].row].items
          BY <2>2, <2>5, <4>1, <4>3 DEF new
        <5> QED
          BY <1>2, <3>3, <4>2, <4>3, <5>1 DEF BundleTaskOK
      <4>4. CASE task'[u] = task[u] /\ task[u].at = "wipe"
        BY <1>2, <4>2, <4>4 DEF BundleTaskOK
      <4>5. CASE /\ task[u].at = "bundle" /\ task'[u].at = "bundle" /\ task'[u].row = task[u].row
                 /\ task'[u].edit = task[u].edit /\ task'[u].crossed
                 /\ task'[u].gone = task[u].gone \ task[t].gone /\ named
        <5>1. "items" \in DOMAIN task[u].edit \/ task[u].gone = {}
          BY <1>2, <4>5 DEF BundleTaskOK
        <5> QED
          BY <4>2, <4>5, <5>1 DEF BundleTaskOK
      <4> QED
        BY <2>6, <3>3, <4>3, <4>4, <4>5
    <3>4. CASE u # t /\ task[u].at \notin {"newBundle", "wipe", "bundle"}
      <4>1. task'[u] = task[u]
        BY <2>6, <3>4
      <4> QED
        BY <1>2, <3>4, <4>1 DEF BundleTaskOK
    <3> QED
      BY <3>1, <3>2, <3>3, <3>4
  <2>10. ItemsOfOneSave'
    <3> SUFFICES ASSUME NEW c \in Bundle, bundle'[c].slug # Unset, ~bundle'[c].crossed
                 PROVE  \E e \in BundleEdit : "items" \in DOMAIN e /\ e.items = bundle'[c].items
      BY <1>3 DEF ItemsOfOneSave
    <3>1. CASE c = b /\ named
      <4>1. bundle'[c].items = edit.items
        BY <2>3, <2>5, <3>1 DEF new
      <4> QED
        BY <2>1, <3>1, <4>1 DEF named
    <3>2. CASE c = b /\ ~named
      <4>1. task[t].at = "bundle" /\ bundle[b].slug # Unset
        BY <1>2, <2>1, <3>2 DEF BundleTaskOK, named, edit, b
      <4>2. bundle'[c].items = bundle[b].items /\ bundle'[c].crossed = bundle[b].crossed
        BY <2>3, <2>5, <3>2 DEF new
      <4> QED
        BY <1>3, <2>1, <4>1, <4>2 DEF ItemsOfOneSave
    <3>3. CASE c # b
      BY <1>3, <2>2, <3>3 DEF ItemsOfOneSave
    <3> QED
      BY <3>1, <3>2, <3>3
  <2>11. CouponsStayValid'
    BY <1>3, <2>1 DEF CouponsStayValid
  <2> QED
    BY <2>7, <2>8, <2>9, <2>10, <2>11 DEF OffersInv
<1>7. ASSUME NEW t \in Task, Rejected(t) PROVE OffersInv'
  BY <1>7, RejectingChangesNothing
<1>8. ASSUME NEW b \in Bundle, RemoveBundle(b) PROVE OffersInv'
  <2>1. DOMAIN bundle' = Bundle /\ UNCHANGED <<coupon, task, today>>
    BY <1>1, <1>8 DEF RemoveBundle, OffersTypeOK
  <2>2. ASSUME NEW c \in Bundle
        PROVE  /\ DOMAIN bundle'[c] = DOMAIN bundle[c]
               /\ bundle'[c].items = bundle[c].items /\ bundle'[c].slug = bundle[c].slug
               /\ bundle'[c].from = bundle[c].from /\ bundle'[c].till = bundle[c].till
               /\ bundle'[c].crossed = bundle[c].crossed
               /\ bundle'[c].live = bundle[c].live \/ bundle'[c].live = FALSE
    BY <1>1, <1>8 DEF RemoveBundle, OffersTypeOK, BundleRowOK, BundleField
  <2>3. OffersTypeOK'
    <3>1. ASSUME NEW c \in Bundle PROVE BundleRowOK(bundle'[c])
      <4>1. BundleRowOK(bundle[c])
        BY <1>1 DEF OffersTypeOK
      <4> QED
        BY <2>2, <4>1 DEF BundleRowOK
    <3> QED
      BY <1>1, <2>1, <3>1 DEF OffersTypeOK
  <2>4. ASSUME NEW u \in Task PROVE BundleTaskOK(u)'
    <3>1. task[u].at \in {"newBundle", "wipe", "bundle"} => task[u].row \in Bundle
      BY <1>1 DEF OffersTypeOK, BundleTask, CouponTask, Untasked
    <3>2. /\ task'[u] = task[u]
          /\ task[u].row \in Bundle => /\ bundle'[task[u].row].slug = bundle[task[u].row].slug
                                       /\ bundle'[task[u].row].items = bundle[task[u].row].items
      BY <2>1, <2>2
    <3>3. BundleTaskOK(u)
      BY <1>2
    <3> QED
      BY <2>1, <3>1, <3>2, <3>3 DEF BundleTaskOK
  <2>5. ASSUME NEW u \in Task PROVE CouponTaskOK(u)'
    BY <1>2, <2>1 DEF CouponTaskOK
  <2>6. ItemsOfOneSave'
    <3> SUFFICES ASSUME NEW c \in Bundle, bundle'[c].slug # Unset, ~bundle'[c].crossed
                 PROVE  \E e \in BundleEdit : "items" \in DOMAIN e /\ e.items = bundle'[c].items
      BY DEF ItemsOfOneSave
    <3>1. /\ bundle[c].slug # Unset /\ ~bundle[c].crossed
          /\ bundle'[c].items = bundle[c].items
      BY <2>2
    <3> QED
      BY <1>3, <3>1 DEF ItemsOfOneSave
  <2>7. CouponsStayValid'
    BY <1>3, <2>1 DEF CouponsStayValid
  <2> QED
    BY <2>3, <2>4, <2>5, <2>6, <2>7 DEF OffersInv
<1>9. CASE NextDay
  <2>1. UNCHANGED <<bundle, coupon, task>> /\ today' = today + 1
    BY <1>9 DEF NextDay
  <2>2. OffersTypeOK'
    BY <1>1, <2>1 DEF OffersTypeOK
  <2>3. ASSUME NEW u \in Task PROVE BundleTaskOK(u)' /\ CouponTaskOK(u)'
    BY <1>2, <2>1 DEF BundleTaskOK, CouponTaskOK
  <2>4. ItemsOfOneSave' /\ CouponsStayValid'
    BY <1>3, <2>1 DEF ItemsOfOneSave, CouponsStayValid
  <2> QED
    BY <2>2, <2>3, <2>4 DEF OffersInv
<1>10. ASSUME NEW t \in Task, NEW b \in Bundle, NEW edit \in BundleEdit,
             CheckNewBundle(t, b, edit) \/ CheckBundle(t, b, edit)
      PROVE  OffersInv'
  <2>1. CASE CheckNewBundle(t, b, edit)
    BY <1>4, <2>1 DEF CheckNewBundle
  <2>2. CASE CheckBundle(t, b, edit)
    <3>1. bundle[b].slug # Unset
      BY <1>1, <2>2 DEF CheckBundle, OffersTypeOK, BundleRowOK
    <3> QED
      BY <1>4, <2>2, <3>1 DEF CheckBundle
  <2> QED
    BY <1>10, <2>1, <2>2
<1> QED
  BY <1>5, <1>6, <1>7, <1>8, <1>9, <1>10 DEF BundlesNext, RefuseBundle

LEMMA CouponsStep ==
    ASSUME OffersInv, CouponsNext
    PROVE  OffersInv'
<1>1. OffersTypeOK
  BY DEF OffersInv
<1>2. \A t \in Task : BundleTaskOK(t) /\ CouponTaskOK(t)
  BY DEF OffersInv
<1>3. ItemsOfOneSave /\ CouponsStayValid
  BY DEF OffersInv
<1>4. ASSUME NEW t \in Task, NEW c \in Coupon, NEW edit \in CouponEdit, NEW at,
             Takes(t, at, c, edit), UNCHANGED <<bundle, coupon, today>>,
             \/ /\ at = "newCoupon" /\ coupon[c] = NoCoupon /\ "code" \in DOMAIN edit
                /\ \A u \in Task : task[u].at = "newCoupon" => task[u].row # c
             \/ at = "coupon" /\ coupon[c].code # Unset,
             Valid(CouponAfter(coupon[c], edit))
      PROVE  OffersInv'
  <2>1. /\ task' \in [Task -> BundleTask \cup CouponTask \cup {Untasked}]
        /\ task'[t] = [at |-> at, row |-> c, edit |-> edit, gone |-> {}, crossed |-> FALSE]
        /\ \A u \in Task \ {t} : task'[u] = task[u]
    BY <1>1, <1>4, TakingIsTyped
  <2>2. OffersTypeOK'
    BY <1>1, <1>4, <2>1 DEF OffersTypeOK
  <2>3. ASSUME NEW u \in Task PROVE BundleTaskOK(u)'
    <3>1. CASE u = t
      BY <1>4, <2>1, <3>1 DEF BundleTaskOK
    <3>2. CASE u # t
      BY <1>2, <1>4, <2>1, <3>2 DEF BundleTaskOK
    <3> QED
      BY <3>1, <3>2
  <2>4. ASSUME NEW u \in Task PROVE CouponTaskOK(u)'
    <3>1. CASE u = t
      BY <1>4, <2>1, <3>1 DEF CouponTaskOK
    <3>2. CASE u # t
      BY <1>2, <1>4, <2>1, <3>2 DEF CouponTaskOK
    <3> QED
      BY <3>1, <3>2
  <2>5. ItemsOfOneSave' /\ CouponsStayValid'
    BY <1>3, <1>4 DEF ItemsOfOneSave, CouponsStayValid
  <2> QED
    BY <2>2, <2>3, <2>4, <2>5 DEF OffersInv
<1>5. ASSUME NEW t \in Task, CommitCoupon(t) PROVE OffersInv'
  <2> DEFINE c == task[t].row
             edit == task[t].edit
             after == CouponAfter(coupon[c], edit)
             new == coupon'[c]
  <2>1. /\ task[t] \in CouponTask /\ task[t].at \in {"newCoupon", "coupon"}
        /\ c \in Coupon /\ edit \in CouponEdit /\ UNCHANGED <<bundle, today>>
    BY <1>1, <1>5 DEF CommitCoupon, OffersTypeOK, BundleTask, CouponTask, Untasked
  <2>2. /\ \A d \in Coupon \ {c} : coupon'[d] = coupon[d]
        /\ DOMAIN coupon' = Coupon
        /\ new = SavedCoupon(coupon[c], t)
    BY <1>1, <1>5, <2>1 DEF CommitCoupon, OffersTypeOK
  <2>3. DOMAIN after = CouponField /\ after.code # Unset
    <3>1. CouponRowOK(coupon[c])
      BY <1>1, <2>1 DEF OffersTypeOK
    <3>2. "code" \in DOMAIN edit \/ coupon[c].code # Unset
      BY <1>2, <2>1 DEF CouponTaskOK
    <3> QED
      BY <2>1, <3>1, <3>2, CouponAfterIsRow DEF CouponRowOK
  <2>4. new = [after EXCEPT !.live = @ \/ task[t].at = "newCoupon", !.crossed = task[t].crossed]
    BY <2>2 DEF SavedCoupon
  <2> HIDE DEF after, new
  <2>5. /\ DOMAIN new = CouponField /\ new.code # Unset /\ new.crossed = task[t].crossed
        /\ new.kind = after.kind /\ new.amount = after.amount /\ new.from = after.from
        /\ new.till = after.till
    BY <2>3, <2>4 DEF CouponField
  <2>6. task[t].crossed \/ Valid(new)
    <3>1. task[t].crossed \/ Valid(after)
      BY <1>2, <2>1 DEF CouponTaskOK, after
    <3> QED
      BY <2>3, <2>5, <3>1, ValidityIsOfTheFour
  <2>7. /\ task' \in [Task -> BundleTask \cup CouponTask \cup {Untasked}]
        /\ task'[t] = Untasked
        /\ \A u \in Task \ {t} :
              \/ task'[u] = task[u] /\ ~(task[u].at = "coupon" /\ task[u].row = c)
              \/ /\ task[u].at = "coupon" /\ task[u].row = c
                 /\ task'[u].at = task[u].at /\ task'[u].row = task[u].row
                 /\ task'[u].crossed
    <3>1. Leaves(t, {"coupon"}, {})
      BY <1>5 DEF CommitCoupon
    <3> QED
      BY <1>1, <3>1, LeavingTells
  <2> HIDE DEF c, edit
  <2>8. OffersTypeOK'
    <3>1. ASSUME NEW d \in Coupon PROVE CouponRowOK(coupon'[d])
      <4>1. CASE d = c
        BY <2>5, <4>1 DEF CouponRowOK, new
      <4>2. CASE d # c
        BY <1>1, <2>2, <4>2 DEF OffersTypeOK
      <4> QED
        BY <4>1, <4>2
    <3> QED
      BY <1>1, <2>1, <2>2, <2>7, <3>1 DEF OffersTypeOK
  <2>9. ASSUME NEW u \in Task PROVE BundleTaskOK(u)'
    <3>1. CASE u = t
      BY <2>7, <3>1 DEF BundleTaskOK, Untasked
    <3>2. CASE u # t /\ task[u].at = "coupon"
      <4>1. task'[u].at = "coupon"
        BY <2>7, <3>2
      <4> QED
        BY <4>1 DEF BundleTaskOK
    <3>3. CASE u # t /\ task[u].at # "coupon"
      <4>1. task'[u] = task[u]
        BY <2>7, <3>3
      <4>2. \A v \in Task : task'[v].at = "newBundle" => task[v].at = "newBundle" /\ task'[v].row = task[v].row
        BY <2>7 DEF Untasked
      <4> QED
        BY <1>2, <2>1, <4>1, <4>2 DEF BundleTaskOK
    <3> QED
      BY <3>1, <3>2, <3>3
  <2>10. ASSUME NEW u \in Task PROVE CouponTaskOK(u)'
    <3>1. CASE u = t
      BY <2>7, <3>1 DEF CouponTaskOK, Untasked
    <3>2. CASE u # t /\ task[u].at = "newCoupon"
      <4>1. task'[u] = task[u] /\ coupon[task[u].row] = NoCoupon
        BY <1>2, <2>7, <3>2 DEF CouponTaskOK
      <4>2. task[u].row # c
        <5>1. CASE task[t].at = "newCoupon"
          BY <1>2, <3>2, <5>1 DEF CouponTaskOK, c
        <5>2. CASE task[t].at = "coupon"
          BY <1>2, <4>1, <5>2 DEF CouponTaskOK, c, NoCoupon
        <5> QED
          BY <2>1, <5>1, <5>2
      <4>3. task[u].row \in Coupon
        BY <1>1, <3>2 DEF OffersTypeOK, BundleTask, CouponTask, Untasked
      <4>4. coupon'[task[u].row] = coupon[task[u].row]
        BY <2>2, <4>2, <4>3
      <4>5. \A v \in Task : task'[v].at = "newCoupon" => task[v].at = "newCoupon" /\ task'[v].row = task[v].row
        BY <2>7 DEF Untasked
      <4>6. CouponTaskOK(u)
        BY <1>2
      <4> QED
        BY <3>2, <4>1, <4>4, <4>5, <4>6 DEF CouponTaskOK
    <3>3. CASE u # t /\ task[u].at = "coupon" /\ task[u].row = c
      <4>1. task'[u].at = "coupon" /\ task'[u].row = c /\ task'[u].crossed
        BY <2>7, <3>3
      <4> QED
        BY <2>5, <4>1 DEF CouponTaskOK, new
    <3>4. CASE u # t /\ task[u].at = "coupon" /\ task[u].row # c
      <4>1. task'[u] = task[u] /\ task[u].row \in Coupon
        BY <1>1, <2>7, <3>4 DEF OffersTypeOK, BundleTask, CouponTask, Untasked
      <4>2. coupon'[task[u].row] = coupon[task[u].row]
        BY <2>2, <3>4, <4>1
      <4>3. CouponTaskOK(u)
        BY <1>2
      <4> QED
        BY <3>4, <4>1, <4>2, <4>3 DEF CouponTaskOK
    <3>5. CASE u # t /\ task[u].at \notin {"newCoupon", "coupon"}
      <4>1. task'[u] = task[u]
        BY <2>7, <3>5
      <4> QED
        BY <3>5, <4>1 DEF CouponTaskOK
    <3> QED
      BY <3>1, <3>2, <3>3, <3>4, <3>5
  <2>11. CouponsStayValid'
    <3> SUFFICES ASSUME NEW d \in Coupon, coupon'[d].code # Unset, ~coupon'[d].crossed
                 PROVE  Valid(coupon'[d])
      BY DEF CouponsStayValid
    <3>1. CASE d = c
      BY <2>5, <2>6, <3>1 DEF new
    <3>2. CASE d # c
      BY <1>3, <2>2, <3>2 DEF CouponsStayValid
    <3> QED
      BY <3>1, <3>2
  <2>12. ItemsOfOneSave'
    BY <1>3, <2>1 DEF ItemsOfOneSave
  <2> QED
    BY <2>8, <2>9, <2>10, <2>11, <2>12 DEF OffersInv
<1>6. ASSUME NEW c \in Coupon, RemoveCoupon(c) PROVE OffersInv'
  <2>1. DOMAIN coupon' = Coupon /\ UNCHANGED <<bundle, task, today>> /\ coupon[c].code # Unset
    BY <1>1, <1>6 DEF RemoveCoupon, OffersTypeOK, CouponRowOK
  <2>2. /\ DOMAIN coupon'[c] = CouponField /\ coupon'[c].code = coupon[c].code
        /\ coupon'[c].kind = coupon[c].kind /\ coupon'[c].amount = coupon[c].amount
        /\ coupon'[c].from = coupon[c].from /\ coupon'[c].till = coupon[c].till
        /\ coupon'[c].crossed = coupon[c].crossed
    BY <1>1, <1>6 DEF RemoveCoupon, OffersTypeOK, CouponRowOK, CouponField
  <2>3. \A d \in Coupon \ {c} : coupon'[d] = coupon[d]
    BY <1>1, <1>6 DEF RemoveCoupon, OffersTypeOK
  <2>4. DOMAIN coupon[c] = CouponField
    BY <1>1 DEF OffersTypeOK, CouponRowOK
  <2>5. OffersTypeOK'
    BY <1>1, <2>1, <2>2, <2>3 DEF OffersTypeOK, CouponRowOK
  <2>6. ASSUME NEW u \in Task PROVE BundleTaskOK(u)'
    BY <1>2, <2>1 DEF BundleTaskOK
  <2>7. ASSUME NEW u \in Task PROVE CouponTaskOK(u)'
    <3>1. CouponTaskOK(u) /\ task' = task
      BY <1>2, <2>1
    <3>2. task[u].at \in {"newCoupon", "coupon"} => task[u].row \in Coupon
      BY <1>1 DEF OffersTypeOK, BundleTask, CouponTask, Untasked
    <3>3. CASE task[u].row = c
      <4>1. Valid(CouponAfter(coupon'[c], task[u].edit)) <=> Valid(CouponAfter(coupon[c], task[u].edit))
        BY <2>2, <2>4, ValidityIsOfTheFour
      <4>2. coupon[c] # NoCoupon
        BY <2>1 DEF NoCoupon
      <4> QED
        BY <2>1, <2>2, <3>1, <3>3, <4>1, <4>2 DEF CouponTaskOK
    <3>4. CASE task[u].row # c
      BY <2>3, <3>1, <3>2, <3>4 DEF CouponTaskOK
    <3> QED
      BY <3>3, <3>4
  <2>8. CouponsStayValid'
    <3> SUFFICES ASSUME NEW d \in Coupon, coupon'[d].code # Unset, ~coupon'[d].crossed
                 PROVE  Valid(coupon'[d])
      BY DEF CouponsStayValid
    <3>1. CASE d = c
      <4>1. Valid(coupon[c])
        BY <1>3, <2>2, <3>1 DEF CouponsStayValid
      <4> QED
        BY <2>2, <2>4, <3>1, <4>1, ValidityIsOfTheFour
    <3>2. CASE d # c
      BY <1>3, <2>3, <3>2 DEF CouponsStayValid
    <3> QED
      BY <3>1, <3>2
  <2>9. ItemsOfOneSave'
    BY <1>3, <2>1 DEF ItemsOfOneSave
  <2> QED
    BY <2>5, <2>6, <2>7, <2>8, <2>9 DEF OffersInv
<1>7. ASSUME NEW t \in Task, NEW c \in Coupon, NEW edit \in CouponEdit,
             CheckNewCoupon(t, c, edit) \/ CheckCoupon(t, c, edit)
      PROVE  OffersInv'
  <2>1. CASE CheckNewCoupon(t, c, edit)
    <3>1. coupon[c] = NoCoupon
      BY <1>1, <2>1 DEF CheckNewCoupon, OffersTypeOK, CouponRowOK
    <3> QED
      BY <1>4, <2>1, <3>1 DEF CheckNewCoupon
  <2>2. CASE CheckCoupon(t, c, edit)
    <3>1. coupon[c].code # Unset
      BY <1>1, <2>2 DEF CheckCoupon, OffersTypeOK, CouponRowOK
    <3> QED
      BY <1>4, <2>2, <3>1 DEF CheckCoupon
  <2> QED
    BY <1>7, <2>1, <2>2
<1>8. ASSUME NEW t \in Task, RefuseCoupon(t) PROVE OffersInv'
  BY <1>8, RejectingChangesNothing DEF RefuseCoupon
<1> QED
  BY <1>5, <1>6, <1>7, <1>8 DEF CouponsNext

LEMMA OffersStep == OffersInv /\ [BundlesNext \/ CouponsNext]_offerVars => OffersInv'
<1>1. ASSUME OffersInv, UNCHANGED offerVars PROVE OffersInv'
  <2>1. UNCHANGED <<bundle, coupon, task, today>>
    BY <1>1 DEF offerVars
  <2>2. OffersTypeOK'
    BY <1>1, <2>1 DEF OffersInv, OffersTypeOK
  <2>3. ASSUME NEW u \in Task PROVE BundleTaskOK(u)' /\ CouponTaskOK(u)'
    BY <1>1, <2>1 DEF OffersInv, BundleTaskOK, CouponTaskOK
  <2>4. ItemsOfOneSave' /\ CouponsStayValid'
    BY <1>1, <2>1 DEF OffersInv, ItemsOfOneSave, CouponsStayValid
  <2> QED
    BY <2>2, <2>3, <2>4 DEF OffersInv
<1> QED
  BY <1>1, BundlesStep, CouponsStep

(* However marketing's requests overlap, a bundle holds the items of one   *)
(* save and a coupon stays valid, but where the model marks the row as     *)
(* crossed; and the shop and the office agree on what is live              *)
(* (BundlesService.update, CouponsService.update, list of both).           *)
THEOREM OffersSound == OffersSpec => []OffersHold
<1>1. OffersInv => OffersHold
  BY SchedulesAgreeAlways DEF OffersInv, OffersHold
<1> QED
  BY OffersInitInv, OffersStep, <1>1, PTL DEF OffersSpec

-----------------------------------------------------------------------------
(* Addresses, reviews and questions: Belongings.                           *)

AddressRow == [owner : Shopper \cup {Absent}, default : BOOLEAN, crossed : BOOLEAN]

ReviewRow == [by : Shopper \cup {Absent}, item : Purchase \cup {Absent},
              status : {"none", "PENDING", "APPROVED", "REJECTED"}]

QuestionRow == [status : {"none", "PENDING", "PUBLISHED", "REJECTED"}, answers : Nat]

SavingRow == [at : {"clear", "save"}, who : Shopper, row : Spot,
              mark : {"true", "false", "unsent"}, new : BOOLEAN, cleared : SUBSET Spot,
              crossed : BOOLEAN]

ReviewingRow == [at : {"review"}, who : Shopper, row : Purchase \cup {Absent}]

BelongingsTypeOK ==
    /\ address \in [Spot -> AddressRow]
    /\ review \in [Review -> ReviewRow]
    /\ question \in [Question -> QuestionRow]
    /\ visit \in [Visit -> SavingRow \cup ReviewingRow \cup {Home}]

(* A request that makes an address is the only one about it, and the       *)
(* address that one edits is still of its customer or removed.             *)
SavesKnowTheirRow ==
    \A t \in Visit : visit[t].at \in {"clear", "save"} =>
        /\ visit[t].new => /\ address[visit[t].row] = NoAddress
                           /\ \A u \in Visit \ {t} : visit[u].at \in {"clear", "save"} =>
                                 visit[u].row # visit[t].row
        /\ ~visit[t].new => \/ address[visit[t].row] = NoAddress
                            \/ address[visit[t].row].owner = visit[t].who

(* A request that was not crossed has cleared every other default.         *)
Cleared(t, a) ==
    /\ visit[t].at = "save" /\ visit[t].mark = "true" /\ ~visit[t].crossed
    /\ address[a].default /\ address[a].owner = visit[t].who /\ a # visit[t].row
    => a \in visit[t].cleared

DefaultsAreCleared == \A t \in Visit, a \in Spot : Cleared(t, a)

BuyersReview ==
    \A t \in Visit : visit[t].at = "review" /\ visit[t].row # Absent =>
        Buyer[visit[t].row] = visit[t].who

AddressesInv == SavesKnowTheirRow /\ DefaultsAreCleared /\ OneDefault

ReviewsInv == BuyersReview /\ VerifiedByBuyer

BelongingsInv == BelongingsTypeOK /\ AddressesInv /\ ReviewsInv /\ PublishedAnswered

LEMMA BelongingsInitInv == BelongingsInit => BelongingsInv
<1> SUFFICES ASSUME BelongingsInit PROVE BelongingsInv
  OBVIOUS
<1>1. BelongingsTypeOK
  BY DEF BelongingsInit, BelongingsTypeOK, AddressRow, ReviewRow, QuestionRow, NoAddress, NoReview,
         NoQuestion
<1>2. AddressesInv
  BY DEF BelongingsInit, AddressesInv, SavesKnowTheirRow, DefaultsAreCleared, Cleared, OneDefault, NoAddress, Home
<1>3. ReviewsInv
  BY DEF BelongingsInit, ReviewsInv, BuyersReview, VerifiedByBuyer, NoReview, Home
<1>4. PublishedAnswered
  BY DEF BelongingsInit, PublishedAnswered, NoQuestion
<1> QED
  BY <1>1, <1>2, <1>3, <1>4 DEF BelongingsInv

LEMMA BelongingsAreTyped ==
    ASSUME BelongingsTypeOK, AddressesNext \/ ReviewsNext \/ QuestionsNext
    PROVE  BelongingsTypeOK'
<1> USE DEF BelongingsTypeOK
<1>1. ASSUME NEW t \in Visit, NEW s \in Shopper, NEW a \in Spot,
             NEW mark \in {"true", "false", "unsent"}, NEW new \in BOOLEAN, Saving(t, s, a, mark, new)
      PROVE  BelongingsTypeOK'
  BY <1>1 DEF Saving, Steps, SavingRow
<1>2. ASSUME NEW t \in Visit, ClearDefaults(t) PROVE BelongingsTypeOK'
  <2>1. visit[t] \in SavingRow
    BY <1>2 DEF ClearDefaults, ReviewingRow, Home
  <2>2. visit'[t] \in SavingRow /\ visit' = [visit EXCEPT ![t] = visit'[t]]
    BY <1>2, <2>1 DEF ClearDefaults, Steps, SavingRow, Mine
  <2> QED
    BY <1>2, <2>2 DEF ClearDefaults
<1>3. ASSUME NEW t \in Visit, SaveAddress(t) PROVE BelongingsTypeOK'
  <2>1. visit[t] \in SavingRow
    BY <1>3 DEF SaveAddress, ReviewingRow, Home
  <2>2. address' \in [Spot -> AddressRow]
    BY <1>3, <2>1 DEF SaveAddress, AddressRow, SavingRow
  <2>3. visit' \in [Visit -> SavingRow \cup ReviewingRow \cup {Home}]
    BY <1>3 DEF SaveAddress, SavingRow, ReviewingRow, Home
  <2> QED
    BY <1>3, <2>2, <2>3 DEF SaveAddress
<1>4. ASSUME NEW t \in Visit, Undone(t) PROVE BelongingsTypeOK'
  BY <1>4 DEF Undone, Steps
<1>5. ASSUME NEW s \in Shopper, NEW a \in Spot, RemoveAddress(s, a) PROVE BelongingsTypeOK'
  <2>1. address' \in [Spot -> AddressRow]
    BY <1>5 DEF RemoveAddress, AddressRow, NoAddress
  <2>2. visit' \in [Visit -> SavingRow \cup ReviewingRow \cup {Home}]
    BY <1>5 DEF RemoveAddress, SavingRow, ReviewingRow, Home
  <2> QED
    BY <1>5, <2>1, <2>2 DEF RemoveAddress
<1>6. ASSUME NEW t \in Visit, NEW s \in Shopper, NEW item \in Purchase \cup {Absent},
             FindOrderItem(t, s, item)
      PROVE  BelongingsTypeOK'
  BY <1>6 DEF FindOrderItem, Steps, ReviewingRow
<1>7. ASSUME NEW t \in Visit, CreateReview(t) PROVE BelongingsTypeOK'
  <2>1. visit[t] \in ReviewingRow
    BY <1>7 DEF CreateReview, SavingRow, Home
  <2> QED
    BY <1>7, <2>1 DEF CreateReview, Steps, ReviewingRow, ReviewRow
<1>8. ASSUME NEW r \in Review, NEW status \in {"APPROVED", "REJECTED"},
             RemoveReview(r) \/ ModerateReview(r, status)
      PROVE  BelongingsTypeOK'
  BY <1>8 DEF RemoveReview, ModerateReview, ReviewRow, NoReview
<1>9. ASSUME NEW n \in Question,
             AskQuestion(n) \/ AnswerQuestion(n) \/ RejectQuestion(n) \/ RemoveQuestion(n)
      PROVE  BelongingsTypeOK'
  BY <1>9 DEF AskQuestion, AnswerQuestion, RejectQuestion, RemoveQuestion, QuestionRow, NoQuestion
<1> QED
  BY <1>1, <1>2, <1>3, <1>4, <1>5, <1>6, <1>7, <1>8, <1>9
     DEF AddressesNext, ReviewsNext, QuestionsNext, CreateAddress, UpdateAddress

(* The addresses: one lemma for the actions that write or read them.       *)
LEMMA AddressesKeepTheirDefault ==
    ASSUME BelongingsTypeOK, AddressesInv, AddressesNext
    PROVE  AddressesInv'
<1> USE DEF BelongingsTypeOK, AddressesInv
<1>1. ASSUME NEW t \in Visit, NEW s \in Shopper, NEW a \in Spot,
             NEW mark \in {"true", "false", "unsent"},
             CreateAddress(t, s, a, mark) \/ UpdateAddress(t, s, a, mark)
      PROVE  AddressesInv'
  <2> DEFINE at == IF mark = "true" THEN "clear" ELSE "save"
  <2>1. UNCHANGED address /\ visit[t] = Home
    BY <1>1 DEF CreateAddress, UpdateAddress, Saving
  <2>2. PICK fresh \in BOOLEAN :
           /\ visit' = [visit EXCEPT ![t] = [at |-> at, who |-> s, row |-> a, mark |-> mark,
                                             new |-> fresh, cleared |-> {}, crossed |-> FALSE]]
           /\ fresh => /\ address[a] = NoAddress
                       /\ \A u \in Visit : visit[u].at \in {"clear", "save"} => visit[u].row # a
           /\ ~fresh => address[a].owner = s
    BY <1>1 DEF CreateAddress, UpdateAddress, Saving, Steps, Mine
  <2>3. \A u \in Visit \ {t} : visit'[u] = visit[u]
    BY <2>2
  <2>4. /\ visit'[t].at = at /\ visit'[t].who = s /\ visit'[t].row = a /\ visit'[t].mark = mark
        /\ visit'[t].new = fresh
    BY <2>2
  <2>5. s # Absent /\ NoAddress.owner = Absent
    BY BelongingsAssumption DEF NoAddress
  <2>6. SavesKnowTheirRow'
    BY <2>1, <2>2, <2>3, <2>4, <2>5 DEF SavesKnowTheirRow
  <2>7. DefaultsAreCleared'
    BY <2>1, <2>3, <2>4 DEF DefaultsAreCleared, Cleared
  <2>8. OneDefault'
    BY <2>1 DEF OneDefault
  <2> QED
    BY <2>6, <2>7, <2>8
<1>2. ASSUME NEW t \in Visit, ClearDefaults(t) PROVE AddressesInv'
  <2>1. visit[t] \in SavingRow /\ visit[t].at = "clear" /\ UNCHANGED address
    BY <1>2 DEF ClearDefaults, ReviewingRow, Home
  <2>2. \A u \in Visit \ {t} : visit'[u] = visit[u]
    BY <1>2 DEF ClearDefaults, Steps
  <2>3. /\ visit'[t].at = "save" /\ visit'[t].who = visit[t].who /\ visit'[t].row = visit[t].row
        /\ visit'[t].new = visit[t].new
        /\ visit'[t].cleared = {a \in Mine(visit[t].who) : address[a].default} \ {visit[t].row}
    BY <1>2, <2>1 DEF ClearDefaults, Steps, SavingRow
  <2>4. SavesKnowTheirRow'
    BY <2>1, <2>2, <2>3 DEF SavesKnowTheirRow
  <2>5. DefaultsAreCleared'
    <3> SUFFICES ASSUME NEW u \in Visit, NEW b \in Spot PROVE Cleared(u, b)'
      BY DEF DefaultsAreCleared
    <3> SUFFICES ASSUME visit'[u].at = "save", visit'[u].mark = "true", ~visit'[u].crossed,
                        address'[b].default, address'[b].owner = visit'[u].who,
                        b # visit'[u].row
                 PROVE  b \in visit'[u].cleared
      BY DEF Cleared
    <3>1. CASE u = t
      BY <2>1, <2>3, <3>1 DEF Mine
    <3>2. CASE u # t
      BY <2>1, <2>2, <3>2 DEF DefaultsAreCleared, Cleared
    <3> QED
      BY <3>1, <3>2
  <2>6. OneDefault'
    BY <2>1 DEF OneDefault
  <2> QED
    BY <2>4, <2>5, <2>6
<1>3. ASSUME NEW t \in Visit, SaveAddress(t) PROVE AddressesInv'
  <2> DEFINE me == visit[t]
             old == address[me.row]
             new == address'[me.row]
  <2>1. me \in SavingRow /\ me.at = "save" /\ (me.new \/ old # NoAddress)
    BY <1>3 DEF SaveAddress, ReviewingRow, Home
  <2>2. /\ new.owner = me.who
        /\ new.default = (me.mark = "true" \/ (me.mark = "unsent" /\ old.default))
        /\ new.crossed = IF me.mark = "true" THEN me.crossed ELSE old.crossed
    BY <1>3, <2>1 DEF SaveAddress, SavingRow
  <2>3. \A a \in Spot \ {me.row} :
           address'[a] = IF a \in me.cleared THEN [address[a] EXCEPT !.default = FALSE] ELSE address[a]
    BY <1>3 DEF SaveAddress
  <2>4. visit'[t] = Home
    BY <1>3 DEF SaveAddress
  <2>5. \A u \in Visit \ {t} :
           visit'[u] = IF visit[u].at = "save" /\ visit[u].who = me.who /\ me.mark = "true"
                       THEN [visit[u] EXCEPT !.crossed = TRUE] ELSE visit[u]
    BY <1>3 DEF SaveAddress
  <2>6. me.new => old = NoAddress
    BY <2>1 DEF SavesKnowTheirRow
  <2>7. ~me.new => old.owner = me.who
    BY <2>1 DEF SavesKnowTheirRow
  <2>8. old \in AddressRow /\ me.row \in Spot /\ NoAddress.default = FALSE
    BY <2>1 DEF SavingRow, NoAddress
  <2> HIDE DEF me, old, new
  (* Who is still about an address of the table as it was.                 *)
  <2>9. ASSUME NEW u \in Visit, visit'[u].at \in {"clear", "save"}
        PROVE  /\ u # t /\ visit[u] \in SavingRow /\ visit[u].at = visit'[u].at
               /\ visit'[u].row = visit[u].row
               /\ visit'[u].new = visit[u].new /\ visit'[u].who = visit[u].who
               /\ visit'[u].mark = visit[u].mark /\ visit'[u].cleared = visit[u].cleared
               /\ visit'[u].crossed = (visit[u].crossed \/ (visit[u].at = "save"
                                          /\ visit[u].who = me.who /\ me.mark = "true"))
    <3>1. u # t
      BY <2>4, <2>9 DEF Home
    <3>2. visit[u] \in SavingRow
      BY <2>5, <2>9, <3>1 DEF SavingRow, ReviewingRow, Home
    <3> QED
      BY <2>5, <3>1, <3>2 DEF SavingRow
  <2>10. SavesKnowTheirRow'
    <3> SUFFICES ASSUME NEW u \in Visit, visit'[u].at \in {"clear", "save"}
                 PROVE  /\ visit'[u].new =>
                              /\ address'[visit'[u].row] = NoAddress
                              /\ \A v \in Visit \ {u} : visit'[v].at \in {"clear", "save"} =>
                                    visit'[v].row # visit'[u].row
                        /\ ~visit'[u].new => \/ address'[visit'[u].row] = NoAddress
                                             \/ address'[visit'[u].row].owner = visit'[u].who
      BY DEF SavesKnowTheirRow
    <3> DEFINE a == visit[u].row
    <3>1. u # t /\ visit[u] \in SavingRow /\ visit[u].at \in {"clear", "save"} /\ a \in Spot
      BY <2>9 DEF SavingRow
    <3>2. visit'[u].row = a /\ visit'[u].new = visit[u].new /\ visit'[u].who = visit[u].who
      BY <2>9
    <3>3. ASSUME visit[u].new
          PROVE  a # me.row /\ address[a] = NoAddress
      BY <2>1, <3>1, <3>3 DEF SavesKnowTheirRow, me
    <3>4. ASSUME visit[u].new PROVE address'[a] = NoAddress
      BY <2>3, <3>1, <3>3, <3>4 DEF NoAddress
    <3>5. ASSUME visit[u].new, NEW v \in Visit \ {u}, visit'[v].at \in {"clear", "save"}
          PROVE  visit'[v].row # a
      <4>1. visit[v].at \in {"clear", "save"} /\ visit'[v].row = visit[v].row
        BY <2>9, <3>5
      <4> QED
        BY <3>1, <3>5, <4>1 DEF SavesKnowTheirRow
    <3>6. ASSUME ~visit[u].new, a # me.row
          PROVE  address'[a] = NoAddress \/ address'[a].owner = visit[u].who
      <4>1. address[a] = NoAddress \/ address[a].owner = visit[u].who
        BY <3>1, <3>6 DEF SavesKnowTheirRow
      <4>2. address[a] = NoAddress => address'[a] = NoAddress
        BY <2>3, <3>1, <3>6 DEF NoAddress
      <4>3. address'[a].owner = address[a].owner
        BY <2>3, <3>1, <3>6 DEF AddressRow
      <4> QED
        BY <4>1, <4>2, <4>3
    <3>7. ASSUME ~visit[u].new, a = me.row PROVE address'[a].owner = visit[u].who
      <4>1. ~me.new
        BY <2>1, <3>1, <3>7 DEF SavesKnowTheirRow, me
      <4>2. old # NoAddress /\ old.owner = me.who
        BY <2>1, <2>7, <4>1
      <4>3. old.owner = visit[u].who
        BY <3>1, <3>7, <4>2 DEF SavesKnowTheirRow, old
      <4> QED
        BY <2>2, <3>7, <4>2, <4>3 DEF new
    <3> QED
      BY <3>2, <3>4, <3>5, <3>6, <3>7
  (* A default afterwards was one before, but for the row of a "true".     *)
  <2>11. ASSUME NEW a \in Spot, address'[a].default, ~(a = me.row /\ me.mark = "true")
         PROVE  /\ address[a].default /\ address'[a].owner = address[a].owner
                /\ address'[a].crossed = address[a].crossed
                /\ a # me.row => a \notin me.cleared
    <3>1. CASE a = me.row
      BY <2>2, <2>6, <2>7, <2>8, <2>11, <3>1 DEF old, new
    <3>2. CASE a # me.row
      BY <2>3, <2>11, <3>2 DEF AddressRow
    <3> QED
      BY <3>1, <3>2
  <2>12. DefaultsAreCleared'
    <3> SUFFICES ASSUME NEW u \in Visit, NEW a \in Spot PROVE Cleared(u, a)'
      BY DEF DefaultsAreCleared
    <3> SUFFICES ASSUME visit'[u].at = "save", visit'[u].mark = "true", ~visit'[u].crossed,
                        address'[a].default, address'[a].owner = visit'[u].who,
                        a # visit'[u].row
                 PROVE  a \in visit'[u].cleared
      BY DEF Cleared
    <3>1. /\ visit[u].at = "save" /\ visit[u].mark = "true" /\ ~visit[u].crossed
          /\ visit'[u].who = visit[u].who /\ visit'[u].row = visit[u].row
          /\ visit'[u].cleared = visit[u].cleared
          /\ visit[u].who = me.who => me.mark # "true"
      BY <2>9
    <3>2. ~(a = me.row /\ me.mark = "true")
      BY <2>2, <3>1 DEF new
    <3>3. address[a].default /\ address[a].owner = visit[u].who
      BY <2>11, <3>1, <3>2
    <3> QED
      BY <3>1, <3>3 DEF DefaultsAreCleared, Cleared
  <2>13. OneDefault'
    <3> SUFFICES ASSUME NEW a \in Spot, NEW b \in Spot, a # b, address'[a].default,
                        address'[b].default, address'[a].owner = address'[b].owner
                 PROVE  address'[a].crossed \/ address'[b].crossed
      BY DEF OneDefault
    <3>1. ASSUME NEW x \in Spot, NEW y \in Spot, x # y, x = me.row, me.mark = "true",
                 address'[x].default, address'[y].default, address'[x].owner = address'[y].owner
          PROVE  address'[x].crossed
      <4>1. address[y].default /\ address[y].owner = me.who /\ y \notin me.cleared
        BY <2>2, <2>11, <3>1 DEF new
      <4>2. me.crossed
        BY <2>1, <3>1, <4>1 DEF DefaultsAreCleared, Cleared, me
      <4> QED
        BY <2>2, <3>1, <4>2 DEF new
    <3>2. ASSUME me.mark # "true" \/ (a # me.row /\ b # me.row)
          PROVE  address'[a].crossed \/ address'[b].crossed
      BY <2>11, <3>2 DEF OneDefault
    <3> QED
      BY <3>1, <3>2
  <2> QED
    BY <2>10, <2>12, <2>13
<1>4. ASSUME NEW t \in Visit, Undone(t) PROVE AddressesInv'
  BY <1>4 DEF Undone, Steps, Home, SavesKnowTheirRow, DefaultsAreCleared, Cleared, OneDefault
<1>5. ASSUME NEW s \in Shopper, NEW a \in Spot, RemoveAddress(s, a) PROVE AddressesInv'
  <2>1. /\ address' = [address EXCEPT ![a] = NoAddress]
        /\ NoAddress.default = FALSE
    BY <1>5 DEF RemoveAddress, NoAddress
  <2>2. ASSUME NEW u \in Visit, visit'[u].at \in {"clear", "save"}
        PROVE  /\ visit[u].at = visit'[u].at /\ visit'[u].row = visit[u].row
               /\ visit'[u].new = visit[u].new /\ visit'[u].who = visit[u].who
               /\ visit'[u].mark = visit[u].mark /\ visit'[u].crossed = visit[u].crossed
               /\ visit[u].cleared \ {a} \subseteq visit'[u].cleared
    BY <1>5, <2>2 DEF RemoveAddress, SavingRow, ReviewingRow, Home
  <2>3. SavesKnowTheirRow'
    BY <2>1, <2>2 DEF SavesKnowTheirRow
  <2>4. DefaultsAreCleared'
    <3> SUFFICES ASSUME NEW u \in Visit, NEW b \in Spot PROVE Cleared(u, b)'
      BY DEF DefaultsAreCleared
    <3> SUFFICES ASSUME visit'[u].at = "save", visit'[u].mark = "true", ~visit'[u].crossed,
                        address'[b].default, address'[b].owner = visit'[u].who,
                        b # visit'[u].row
                 PROVE  b \in visit'[u].cleared
      BY DEF Cleared
    <3>1. b # a /\ address'[b] = address[b]
      BY <2>1
    <3>2. b \in visit[u].cleared
      BY <2>2, <3>1 DEF DefaultsAreCleared, Cleared
    <3> QED
      BY <2>2, <3>1, <3>2
  <2>5. OneDefault'
    BY <2>1 DEF OneDefault
  <2> QED
    BY <2>3, <2>4, <2>5
<1> QED
  BY <1>1, <1>2, <1>3, <1>4, <1>5 DEF AddressesNext

(* The reviews: who looked an order item up is its buyer.                  *)
LEMMA ReviewsStayVerified ==
    ASSUME BelongingsTypeOK, ReviewsInv, ReviewsNext
    PROVE  ReviewsInv'
<1> USE DEF BelongingsTypeOK, ReviewsInv
<1>1. ASSUME NEW t \in Visit, NEW s \in Shopper, NEW item \in Purchase \cup {Absent},
             FindOrderItem(t, s, item)
      PROVE  ReviewsInv'
  BY <1>1 DEF FindOrderItem, Steps, BuyersReview, VerifiedByBuyer
<1>2. ASSUME NEW t \in Visit, CreateReview(t) PROVE ReviewsInv'
  <2>1. visit[t].at = "review" /\ visit' = [visit EXCEPT ![t] = Home]
    BY <1>2 DEF CreateReview, Steps
  <2>2. PICK r \in Review :
           /\ review[r] = NoReview
           /\ review' = [review EXCEPT ![r] =
                 [by |-> visit[t].who, item |-> visit[t].row, status |-> "PENDING"]]
    BY <1>2 DEF CreateReview
  <2>3. visit[t].row # Absent => \A other \in Review : review[other].item # visit[t].row
    BY <1>2 DEF CreateReview
  <2>4. BuyersReview'
    BY <2>1 DEF BuyersReview, Home
  <2>5. VerifiedByBuyer'
    BY <2>1, <2>2, <2>3 DEF BuyersReview, VerifiedByBuyer
  <2> QED
    BY <2>4, <2>5
<1>3. ASSUME NEW t \in Visit, Undone(t) PROVE ReviewsInv'
  BY <1>3 DEF Undone, Steps, Home, BuyersReview, VerifiedByBuyer
<1>4. ASSUME NEW r \in Review, RemoveReview(r) PROVE ReviewsInv'
  BY <1>4 DEF RemoveReview, BuyersReview, VerifiedByBuyer, NoReview
<1>5. ASSUME NEW r \in Review, NEW status, ModerateReview(r, status) PROVE ReviewsInv'
  <2>1. \A other \in Review : /\ review'[other].item = review[other].item
                              /\ review'[other].by = review[other].by
    BY <1>5 DEF ModerateReview, ReviewRow
  <2> QED
    BY <1>5, <2>1 DEF ModerateReview, BuyersReview, VerifiedByBuyer
<1> QED
  BY <1>1, <1>2, <1>3, <1>4, <1>5 DEF ReviewsNext

(* A step about addresses leaves the others alone, and no request about an *)
(* address is one about a review.                                          *)
LEMMA AddressesAreApart ==
    ASSUME BelongingsTypeOK, AddressesNext
    PROVE  /\ UNCHANGED <<review, question>>
           /\ \A t \in Visit : visit'[t].at = "review" => visit'[t] = visit[t]
<1> USE DEF BelongingsTypeOK
<1>1. ASSUME NEW t \in Visit, NEW s, NEW a, NEW mark, NEW new, Saving(t, s, a, mark, new)
      PROVE  /\ UNCHANGED <<review, question>>
             /\ \A u \in Visit : visit'[u].at = "review" => visit'[u] = visit[u]
  BY <1>1 DEF Saving, Steps
<1>2. ASSUME NEW t \in Visit, ClearDefaults(t) \/ Undone(t)
      PROVE  /\ UNCHANGED <<review, question>>
             /\ \A u \in Visit : visit'[u].at = "review" => visit'[u] = visit[u]
  <2>1. CASE Undone(t)
    BY <2>1 DEF Undone, Steps, Home
  <2>2. CASE ClearDefaults(t)
    <3>1. visit[t] \in SavingRow
      BY <2>2 DEF ClearDefaults, ReviewingRow, Home
    <3>2. visit'[t].at = "save" /\ \A u \in Visit \ {t} : visit'[u] = visit[u]
      BY <2>2, <3>1 DEF ClearDefaults, Steps, SavingRow
    <3> QED
      BY <2>2, <3>2 DEF ClearDefaults
  <2> QED
    BY <1>2, <2>1, <2>2
<1>3. ASSUME NEW t \in Visit, SaveAddress(t)
      PROVE  /\ UNCHANGED <<review, question>>
             /\ \A u \in Visit : visit'[u].at = "review" => visit'[u] = visit[u]
  BY <1>3 DEF SaveAddress, Home, SavingRow, ReviewingRow
<1>4. ASSUME NEW s, NEW a, RemoveAddress(s, a)
      PROVE  /\ UNCHANGED <<review, question>>
             /\ \A u \in Visit : visit'[u].at = "review" => visit'[u] = visit[u]
  BY <1>4 DEF RemoveAddress, SavingRow, ReviewingRow, Home
<1> QED
  BY <1>1, <1>2, <1>3, <1>4 DEF AddressesNext, CreateAddress, UpdateAddress

(* Nor does one about reviews touch addresses or the requests about them.  *)
LEMMA ReviewsAreApart ==
    ASSUME BelongingsTypeOK, ReviewsNext
    PROVE  /\ UNCHANGED <<address, question>>
           /\ \A t \in Visit : visit'[t].at \in {"clear", "save"} => visit'[t] = visit[t]
BY DEF BelongingsTypeOK, ReviewsNext, FindOrderItem, CreateReview, Undone, RemoveReview,
       ModerateReview, Steps, Home

LEMMA BelongingsStep ==
    BelongingsInv /\ [AddressesNext \/ ReviewsNext \/ QuestionsNext]_belongingVars => BelongingsInv'
<1> SUFFICES ASSUME BelongingsInv, [AddressesNext \/ ReviewsNext \/ QuestionsNext]_belongingVars
             PROVE  BelongingsInv'
  OBVIOUS
<1>0. BelongingsTypeOK /\ AddressesInv /\ ReviewsInv /\ PublishedAnswered
  BY DEF BelongingsInv
<1>1. CASE AddressesNext
  <2>1. BelongingsTypeOK' /\ AddressesInv'
    BY <1>0, <1>1, BelongingsAreTyped, AddressesKeepTheirDefault
  <2>2. ReviewsInv'
    BY <1>0, <1>1, AddressesAreApart DEF ReviewsInv, BuyersReview, VerifiedByBuyer
  <2>3. PublishedAnswered'
    BY <1>0, <1>1, AddressesAreApart DEF PublishedAnswered
  <2> QED
    BY <2>1, <2>2, <2>3 DEF BelongingsInv
<1>2. CASE ReviewsNext
  <2>1. BelongingsTypeOK' /\ ReviewsInv'
    BY <1>0, <1>2, BelongingsAreTyped, ReviewsStayVerified
  <2>2. UNCHANGED <<address, question>>
    BY <1>0, <1>2, ReviewsAreApart
  <2>3. \A t \in Visit : visit'[t].at \in {"clear", "save"} => visit'[t] = visit[t]
    BY <1>0, <1>2, ReviewsAreApart
  <2>4. SavesKnowTheirRow'
    BY <1>0, <2>2, <2>3 DEF AddressesInv, SavesKnowTheirRow
  <2>5. DefaultsAreCleared'
    <3> SUFFICES ASSUME NEW t \in Visit, NEW a \in Spot, Cleared(t, a) PROVE Cleared(t, a)'
      BY <1>0 DEF AddressesInv, DefaultsAreCleared
    <3>1. visit'[t].at = "save" => visit'[t] = visit[t]
      BY <2>3
    <3> QED
      BY <2>2, <3>1 DEF Cleared
  <2>6. OneDefault'
    BY <1>0, <2>2 DEF AddressesInv, OneDefault
  <2>7. PublishedAnswered'
    BY <1>0, <2>2 DEF PublishedAnswered
  <2> QED
    BY <2>1, <2>4, <2>5, <2>6, <2>7 DEF BelongingsInv, AddressesInv
<1>3. CASE QuestionsNext
  <2>1. UNCHANGED <<address, review, visit>>
    BY <1>3 DEF QuestionsNext, AskQuestion, AnswerQuestion, RejectQuestion, RemoveQuestion
  <2>2. BelongingsTypeOK'
    BY <1>0, <1>3, BelongingsAreTyped
  <2>3. AddressesInv'
    BY <1>0, <2>1 DEF AddressesInv, SavesKnowTheirRow, DefaultsAreCleared, Cleared, OneDefault
  <2>4. ReviewsInv'
    BY <1>0, <2>1 DEF ReviewsInv, BuyersReview, VerifiedByBuyer
  <2>5. PublishedAnswered'
    BY <1>0, <1>3 DEF QuestionsNext, AskQuestion, AnswerQuestion, RejectQuestion, RemoveQuestion,
                      PublishedAnswered, BelongingsTypeOK, QuestionRow, NoQuestion
  <2> QED
    BY <2>2, <2>3, <2>4, <2>5 DEF BelongingsInv
<1>4. CASE UNCHANGED belongingVars
  BY <1>0, <1>4 DEF belongingVars, BelongingsInv, BelongingsTypeOK, AddressesInv, SavesKnowTheirRow,
                    DefaultsAreCleared, Cleared, OneDefault, ReviewsInv, BuyersReview,
                    VerifiedByBuyer, PublishedAnswered
<1> QED
  BY <1>1, <1>2, <1>3, <1>4

(* Whatever customers and moderators do at once, two default addresses are *)
(* the mark of two overlapping saves, a verified review is its buyer's and *)
(* the only one of its item, and what is published is answered             *)
(* (StorefrontAddressesService, StorefrontReviewsService, AdminQnaService).*)
THEOREM BelongingsSound == BelongingsSpec => []BelongingsHold
<1>1. BelongingsInv => BelongingsHold
  BY DEF BelongingsInv, AddressesInv, ReviewsInv, BelongingsHold
<1> QED
  BY BelongingsInitInv, BelongingsStep, <1>1, PTL DEF BelongingsSpec

-----------------------------------------------------------------------------
(* Figures. Every report groups the same rows in some way, and what is     *)
(* summed class by class is the sum.                                       *)

Column(field) == [o \in DOMAIN books.orders |-> books.orders[o][field]]

NetColumn == [o \in DOMAIN books.orders |-> books.orders[o].total - books.orders[o].refunded]

LEMMA RowOfBook ==
    ASSUME books \in Book, NEW o \in DOMAIN books.orders
    PROVE  /\ books.orders[o].day \in Nat /\ books.orders[o].units \in Nat
           /\ books.orders[o].total \in Nat /\ books.orders[o].refunded \in Nat
           /\ books.orders[o].client \in Client \cup {Visitor}
           /\ books.orders[o].product \in Product
BY BookAssumption DEF OrderRow

LEMMA ColumnSums ==
    ASSUME books \in Book, NEW O \in SUBSET DOMAIN books.orders
    PROVE  /\ IsFiniteSet(O)
           /\ Sum("units", O) = SumFunctionOnSet(Column("units"), O)
           /\ Net(O) = SumFunctionOnSet(NetColumn, O)
           /\ \A o \in O : Column("units")[o] \in Nat /\ NetColumn[o] \in Int
<1>1. IsFiniteSet(O)
  BY BookAssumption, FS_Subset
<1>2. ASSUME NEW field
      PROVE  Sum(field, O) = SumFunctionOnSet(Column(field), O)
  <2> DEFINE part == [o \in O |-> books.orders[o][field]]
  <2>1. \A o \in O : part[o] = Column(field)[o]
    BY DEF Column
  <2> HIDE DEF part
  <2>2. SumFunctionOnSet(part, O) = SumFunctionOnSet(Column(field), O)
    BY <1>1, <2>1, SumCongruence
  <2> QED
    BY <2>2 DEF Sum, part
<1>3. \A o \in O : /\ Column("units")[o] \in Nat /\ Column("total")[o] \in Nat
                   /\ Column("refunded")[o] \in Nat
                   /\ NetColumn[o] = Column("total")[o] - Column("refunded")[o]
  BY RowOfBook DEF Column, NetColumn
<1>4. SumFunctionOnSet(NetColumn, O)
         = SumFunctionOnSet(Column("total"), O) - SumFunctionOnSet(Column("refunded"), O)
  BY <1>1, <1>3, SumOfDifferences
<1>5. \A o \in O : NetColumn[o] \in Int
  BY <1>3
<1> QED
  BY <1>1, <1>2, <1>3, <1>4, <1>5 DEF Net

-----------------------------------------------------------------------------

LEMMA WeeksKeepOrder ==
    \A a, b \in Nat, w \in Nat \ {0} : a <= b => a - (a % w) <= b - (b % w)
OBVIOUS

LEMMA WeekIsPast == \A a \in Nat, w \in Nat \ {0} : a % w \in Nat /\ a % w <= a
OBVIOUS

LEMMA MultiplesDivide == \A n \in Int, w \in Nat \ {0} : (w * n) % w = 0
OBVIOUS

LEMMA WholeWeeks ==
    ASSUME NEW a \in Nat, NEW b \in Nat, NEW w \in Nat \ {0}
    PROVE  ((b - (b % w)) - (a - (a % w))) % w = 0
<1> DEFINE m == a \div w
           n == b \div w
           k == n - m
<1>1. a - (a % w) = w * m /\ b - (b % w) = w * n
  OBVIOUS
<1>2. m \in Int /\ n \in Int /\ k \in Int
  OBVIOUS
<1> HIDE DEF m, n
<1>3. (b - (b % w)) - (a - (a % w)) = w * k
  BY <1>1, <1>2, Distribute
<1> HIDE DEF k
<1>4. (w * k) % w = 0
  BY <1>2, MultiplesDivide
<1> QED
  BY <1>3, <1>4

LEMMA MonthOf ==
    ASSUME NEW day \in Nat
    PROVE  LET reached == {m \in MonthStart : m <= day} IN
           Max(reached) \in reached /\ \A m \in reached : m <= Max(reached)
<1> DEFINE reached == {m \in MonthStart : m <= day}
<1>1. reached \subseteq 0..day
  <2> SUFFICES ASSUME NEW m \in MonthStart, m <= day PROVE m \in 0..day
    OBVIOUS
  <2> QED
    BY CalendarAssumption
<1>2. 0 \in reached
  BY CalendarAssumption
<1>3. IsFiniteSet(0..day) /\ reached \subseteq Int
  BY <1>1, FS_Interval
<1>4. IsFiniteSet(reached) /\ reached # {}
  BY <1>1, <1>2, <1>3, FS_Subset
<1> HIDE DEF reached
<1>5. Max(reached) \in reached /\ \A m \in reached : m <= Max(reached)
  BY <1>3, <1>4, MaxIsMember
<1> QED
  BY <1>5 DEF reached

(* Every day of a range lies in a period that its report has a point for.  *)
LEMMA PeriodIsListed ==
    ASSUME NEW query \in Query, NEW day \in query.from..query.to
    PROVE  Period(day, query.group) \in Periods(query)
<1> DEFINE W == WeekLength
           from == query.from
           to == query.to
<1>1. /\ from \in Nat /\ to \in Nat /\ day \in Nat /\ from <= day /\ day <= to
      /\ W \in Nat \ {0} /\ query.group \in {"day", "week", "month"}
  BY QueryAssumption, CalendarAssumption
<1>2. CASE query.group = "day"
  BY <1>1, <1>2 DEF Periods, PeriodsFrom, Period
<1>3. CASE query.group = "week"
  <2> DEFINE start == from - (from % W)
             first == day - (day % W)
  <2>1. Period(day, "week") = first /\ Period(from, "week") = start
    BY DEF Period
  <2>2. start <= first
    BY <1>1, WeeksKeepOrder
  <2>3. first <= day /\ first \in Int /\ start \in Int
    BY <1>1, WeekIsPast
  <2>4. (first - start) % W = 0
    BY <1>1, WholeWeeks
  <2>5. Periods(query) = {d \in start..to : (d - start) % W = 0}
    BY <1>3, <2>1 DEF Periods, PeriodsFrom
  <2> HIDE DEF start, first, W, from, to
  <2>6. first \in start..to
    BY <1>1, <2>2, <2>3
  <2> QED
    BY <1>3, <2>1, <2>4, <2>5, <2>6
<1>4. CASE query.group = "month"
  <2> DEFINE start == Period(from, "month")
             first == Period(day, "month")
  <2>1. /\ first \in MonthStart /\ first <= day /\ \A m \in MonthStart : m <= day => m <= first
        /\ start \in MonthStart /\ start <= from
    BY <1>1, MonthOf DEF Period
  <2>2. Periods(query) = {d \in start..to : d \in MonthStart}
    BY <1>4 DEF Periods, PeriodsFrom
  <2> HIDE DEF start, first, from, to
  <2>3. first \in Nat /\ start \in Nat
    BY <2>1, CalendarAssumption
  <2>4. start <= day
    BY <1>1, <2>1, <2>3
  <2>5. start <= first /\ first <= to
    BY <1>1, <2>1, <2>3, <2>4
  <2>6. first \in start..to
    BY <1>1, <2>3, <2>5
  <2> QED
    BY <1>4, <2>1, <2>2, <2>6 DEF first
<1> QED
  BY <1>1, <1>2, <1>3, <1>4

LEMMA PeriodsAreFinite ==
    ASSUME NEW query \in Query
    PROVE  IsFiniteSet(Periods(query))
<1> DEFINE start == Period(query.from, query.group)
<1>1. start \in Int /\ query.to \in Int
  <2>1. query.from \in Nat /\ query.to \in Nat /\ query.group \in {"day", "week", "month"}
    BY QueryAssumption
  <2>2. query.from % WeekLength \in Nat
    BY <2>1, CalendarAssumption
  <2>3. Max({m \in MonthStart : m <= query.from}) \in MonthStart
    BY <2>1, MonthOf
  <2> QED
    BY <2>1, <2>2, <2>3, CalendarAssumption DEF Period
<1>2. IsFiniteSet(start..query.to)
  BY <1>1, FS_Interval
<1>3. Periods(query) \in SUBSET (start..query.to)
  BY DEF Periods, PeriodsFrom
<1> QED
  BY <1>2, <1>3, FS_Subset

LEMMA SalesCover ==
    ASSUME books \in Book, NEW query \in Query
    PROVE  LET points == Sales(query)
               found == Within(query, Settled)
           IN  /\ Total([d \in DOMAIN points |-> points[d].orders]) = Cardinality(found)
               /\ Total([d \in DOMAIN points |-> points[d].gross - points[d].refunds]) = Net(found)
<1> DEFINE found == Within(query, Settled)
           D == Periods(query)
           class == [o \in found |-> Period(books.orders[o].day, query.group)]
           mine(d) == {o \in found : class[o] = d}
           orders == [d \in D |-> Cardinality(mine(d))]
           net == [d \in D |-> Net(mine(d))]
           one == [o \in found |-> 1]
<1>1. found \in SUBSET DOMAIN books.orders
  BY DEF Within
<1>2. \A o \in found : class[o] \in D
  BY PeriodIsListed DEF Within
<1>3. IsFiniteSet(D) /\ IsFiniteSet(found)
  BY <1>1, PeriodsAreFinite, ColumnSums
<1>4. SumFunctionOnSet(orders, D) = Cardinality(found)
  <2>1. \A d \in D : orders[d] = SumFunctionOnSet(one, mine(d))
    <3>1. ASSUME NEW d \in D PROVE SumFunctionOnSet(one, mine(d)) = Cardinality(mine(d))
      <4>1. IsFiniteSet(mine(d)) /\ \A o \in mine(d) : one[o] = 1
        BY <1>3, FS_Subset
      <4> HIDE DEF one, mine
      <4> QED
        BY <4>1, SumOfOnes
    <3> QED
      BY <3>1
  <2>2. \A o \in found : one[o] \in Int /\ one[o] = 1
    OBVIOUS
  <2>3. SumFunctionOnSet(one, found) = Cardinality(found)
    <3> HIDE DEF one
    <3> QED
      BY <1>3, <2>2, SumOfOnes
  <2>4. \A d \in D : orders[d] = SumFunctionOnSet(one, Alike(found, class, d))
    BY <2>1 DEF Alike
  <2> HIDE DEF one, orders, class, D, found
  <2>5. SumFunctionOnSet(orders, D) = SumFunctionOnSet(one, found)
    BY <1>2, <1>3, <2>2, <2>4, SumByClass
  <2> QED
    BY <2>3, <2>5
<1>5. SumFunctionOnSet(net, D) = Net(found)
  <2>1. ASSUME NEW d \in D PROVE net[d] = SumFunctionOnSet(NetColumn, mine(d))
    <3>1. mine(d) \in SUBSET DOMAIN books.orders
      BY <1>1
    <3> HIDE DEF mine
    <3> QED
      BY <3>1, ColumnSums
  <2>2. \A d \in D : net[d] = SumFunctionOnSet(NetColumn, Alike(found, class, d))
    BY <2>1 DEF Alike
  <2> HIDE DEF net, class, D, found
  <2>3. Net(found) = SumFunctionOnSet(NetColumn, found)
    BY <1>1, ColumnSums
  <2>4. \A o \in found : NetColumn[o] \in Int
    BY <1>1, ColumnSums
  <2> HIDE DEF mine
  <2>5. SumFunctionOnSet(net, D) = SumFunctionOnSet(NetColumn, found)
    BY <1>2, <1>3, <2>2, <2>4, SumByClass
  <2> QED
    BY <2>3, <2>5
<1>6. \A d \in D : {o \in Within(query, Settled) : Period(books.orders[o].day, query.group) = d} = mine(d)
  OBVIOUS
<1>7. /\ DOMAIN Sales(query) = D
      /\ \A d \in D : /\ Sales(query)[d].orders = orders[d]
                      /\ Sales(query)[d].gross - Sales(query)[d].refunds = net[d]
  BY <1>6 DEF Sales, Net
<1> DEFINE points == Sales(query)
<1>8. /\ [d \in DOMAIN points |-> points[d].orders] = orders
      /\ [d \in DOMAIN points |-> points[d].gross - points[d].refunds] = net
  BY <1>7
<1> HIDE DEF D, points
<1>9. DOMAIN orders = D /\ DOMAIN net = D
  OBVIOUS
<1> HIDE DEF orders, net
<1> QED
  BY <1>4, <1>5, <1>8, <1>9 DEF Total, points, D

-----------------------------------------------------------------------------

LEMMA ImageIsFinite ==
    ASSUME NEW S, IsFiniteSet(S), NEW f
    PROVE  IsFiniteSet({f[x] : x \in S})
<1> DEFINE T == {f[x] : x \in S}
           g == [x \in S |-> f[x]]
<1>1. g \in Surjection(S, T)
  BY DEF Surjection
<1> QED
  BY <1>1, FS_Surjection

(* The orders of a set, class by class: their units and revenue add up.    *)
LEMMA ClassesAddUp ==
    ASSUME books \in Book, NEW O \in SUBSET DOMAIN books.orders, NEW D, IsFiniteSet(D),
           NEW class, \A o \in O : class[o] \in D, NEW parts
    PROVE  /\ (\A d \in D : parts[d] = Sum("units", Alike(O, class, d)))
                => SumFunctionOnSet(parts, D) = Sum("units", O)
           /\ (\A d \in D : parts[d] = Net(Alike(O, class, d)))
                => SumFunctionOnSet(parts, D) = Net(O)
<1>1. /\ IsFiniteSet(O) /\ Sum("units", O) = SumFunctionOnSet(Column("units"), O)
      /\ Net(O) = SumFunctionOnSet(NetColumn, O)
  BY ColumnSums
<1>2. \A o \in O : Column("units")[o] \in Int /\ NetColumn[o] \in Int
  BY ColumnSums
<1>3. ASSUME NEW d \in D
      PROVE  /\ Sum("units", Alike(O, class, d)) = SumFunctionOnSet(Column("units"), Alike(O, class, d))
             /\ Net(Alike(O, class, d)) = SumFunctionOnSet(NetColumn, Alike(O, class, d))
  <2>1. Alike(O, class, d) \in SUBSET DOMAIN books.orders
    BY DEF Alike
  <2> QED
    BY <2>1, ColumnSums
<1>4. ASSUME \A d \in D : parts[d] = Sum("units", Alike(O, class, d))
      PROVE  SumFunctionOnSet(parts, D) = Sum("units", O)
  <2>1. \A d \in D : parts[d] = SumFunctionOnSet(Column("units"), Alike(O, class, d))
    BY <1>3, <1>4
  <2> QED
    BY <1>1, <1>2, <2>1, SumByClass
<1>5. ASSUME \A d \in D : parts[d] = Net(Alike(O, class, d))
      PROVE  SumFunctionOnSet(parts, D) = Net(O)
  <2>1. \A d \in D : parts[d] = SumFunctionOnSet(NetColumn, Alike(O, class, d))
    BY <1>3, <1>5
  <2> QED
    BY <1>1, <1>2, <2>1, SumByClass
<1> QED
  BY <1>4, <1>5

(* The orders of a set and the rest of it.                                 *)
LEMMA HalvesAddUp ==
    ASSUME books \in Book, NEW O \in SUBSET DOMAIN books.orders, NEW P \in SUBSET O
    PROVE  /\ Sum("units", O) = Sum("units", P) + Sum("units", O \ P)
           /\ Net(O) = Net(P) + Net(O \ P)
<1>1. \A Q \in SUBSET DOMAIN books.orders :
        /\ IsFiniteSet(Q) /\ Sum("units", Q) = SumFunctionOnSet(Column("units"), Q)
        /\ Net(Q) = SumFunctionOnSet(NetColumn, Q)
        /\ \A o \in Q : Column("units")[o] \in Int /\ NetColumn[o] \in Int
  BY ColumnSums
<1>2. P \in SUBSET DOMAIN books.orders /\ O \ P \in SUBSET DOMAIN books.orders
  OBVIOUS
<1>3. /\ SumFunctionOnSet(Column("units"), O)
           = SumFunctionOnSet(Column("units"), P) + SumFunctionOnSet(Column("units"), O \ P)
      /\ SumFunctionOnSet(NetColumn, O)
           = SumFunctionOnSet(NetColumn, P) + SumFunctionOnSet(NetColumn, O \ P)
  BY <1>1, SumOfHalves
<1> QED
  BY <1>1, <1>2, <1>3

LEMMA BuyersCover ==
    ASSUME books \in Book, NEW query \in Query
    PROVE  LET spend == Spending(query)
               areas == ByArea(query)
           IN  /\ Cardinality(During(query)) - Cardinality(Before(query)) + Cardinality(Before(query))
                    = Cardinality(DOMAIN spend)
               /\ Cardinality(During(query)) - Cardinality(Before(query)) >= 0
               /\ Total(areas) = Total(spend)
                    + Net({o \in Within(query, Kept) : books.orders[o].client = Visitor})
<1> DEFINE kept == Within(query, Kept)
           signed == {o \in kept : books.orders[o].client # Visitor}
           guests == {o \in kept : books.orders[o].client = Visitor}
           client == [o \in kept |-> books.orders[o].client]
           area == [o \in kept |-> books.orders[o].area]
           areas == ByArea(query)
           spend == Spending(query)
<1>1. /\ kept \in SUBSET DOMAIN books.orders /\ signed \in SUBSET DOMAIN books.orders
      /\ IsFiniteSet(kept)
  <2>1. kept \in SUBSET DOMAIN books.orders
    BY DEF Within
  <2> QED
    BY <2>1, ColumnSums
<1>2. During(query) = {client[o] : o \in kept} \ {Visitor}
  BY DEF During, Buyers
<1>3. /\ DOMAIN spend = During(query) /\ \A o \in signed : client[o] \in During(query)
      /\ DOMAIN areas = {area[o] : o \in kept}
  BY <1>2 DEF Spending, ByArea
<1>4. IsFiniteSet(During(query)) /\ IsFiniteSet(DOMAIN areas)
  <2>1. IsFiniteSet({client[o] : o \in kept}) /\ IsFiniteSet({area[o] : o \in kept})
    BY <1>1, ImageIsFinite
  <2> QED
    BY <1>2, <1>3, <2>1, FS_Subset
<1>5. /\ Cardinality(During(query)) \in Nat /\ Cardinality(Before(query)) \in Nat
      /\ Cardinality(Before(query)) <= Cardinality(During(query))
  <2>1. Before(query) \in SUBSET During(query)
    BY DEF Before
  <2> QED
    BY <1>4, <2>1, FS_Subset, FS_CardinalityType
<1>6. Total(areas) = Net(kept)
  <2>1. \A a \in DOMAIN areas : areas[a] = Net(Alike(kept, area, a))
    <3>1. ASSUME NEW a \in DOMAIN areas
          PROVE  {o \in Within(query, Kept) : books.orders[o].area = a} = Alike(kept, area, a)
      BY DEF Alike
    <3> QED
      BY <3>1 DEF ByArea
  <2>2. \A o \in kept : area[o] \in DOMAIN areas
    BY <1>3
  <2> HIDE DEF areas, area, kept
  <2> QED
    BY <1>1, <1>4, <2>1, <2>2, ClassesAddUp DEF Total
<1>7. Total(spend) = Net(signed)
  <2>1. \A c \in During(query) : spend[c] = Net(Alike(signed, client, c))
    <3>1. ASSUME NEW c \in During(query)
          PROVE  {o \in Within(query, Kept) : books.orders[o].client = c} = Alike(signed, client, c)
      BY <1>2 DEF Alike
    <3> QED
      BY <3>1 DEF Spending
  <2>2. \A o \in signed : client[o] \in During(query)
    BY <1>3
  <2> HIDE DEF spend, client, signed
  <2> QED
    BY <1>1, <1>3, <1>4, <2>1, <2>2, ClassesAddUp DEF Total
<1>8. Net(kept) = Net(signed) + Net(guests)
  <2>1. signed \in SUBSET kept /\ guests = kept \ signed
    OBVIOUS
  <2> HIDE DEF signed, guests, kept
  <2> QED
    BY <1>1, <2>1, HalvesAddUp
<1>9. guests = {o \in Within(query, Kept) : books.orders[o].client = Visitor}
  OBVIOUS
<1> HIDE DEF kept, signed, guests, spend, areas
<1>10. Total(areas) = Total(spend) + Net({o \in Within(query, Kept) : books.orders[o].client = Visitor})
  BY <1>6, <1>7, <1>8, <1>9
<1>11. \A m, n \in Nat : n <= m => m - n + n = m /\ m - n >= 0
  OBVIOUS
<1> QED
  BY <1>3, <1>5, <1>10, <1>11 DEF spend, areas

LEMMA SharesCover ==
    ASSUME books \in Book, NEW query \in Query
    PROVE  /\ Total(ByCategory(query)) = Total(ProductRows(query))
                + Sum("units", {o \in Sold(query) : books.orders[o].product \notin LiveProduct})
           /\ Total(ByBrand(query)) <= Total(ByCategory(query))
<1> DEFINE sold == Sold(query)
           live == {o \in sold : books.orders[o].product \in LiveProduct}
           gone == {o \in sold : books.orders[o].product \notin LiveProduct}
           product == [o \in sold |-> books.orders[o].product]
           products == ProductRows(query)
<1>1. /\ sold \in SUBSET DOMAIN books.orders /\ live \in SUBSET DOMAIN books.orders
      /\ IsFiniteSet(sold)
  <2>1. sold \in SUBSET DOMAIN books.orders
    BY DEF Sold, Within
  <2> QED
    BY <2>1, ColumnSums
<1>2. IsFiniteSet(LiveProduct)
  BY ShelfAssumption, PeopleAssumption, FS_Subset
<1>3. ASSUME NEW of
      PROVE  /\ IsFiniteSet(DOMAIN SoldBy(query, of))
             /\ \A k \in DOMAIN SoldBy(query, of) :
                  SoldBy(query, of)[k] = Sum("units", {o \in sold : of[product[o]] = k})
             /\ \A o \in sold : of[product[o]] \in DOMAIN SoldBy(query, of)
             /\ Total(SoldBy(query, of)) = Sum("units", sold)
  <2> DEFINE class == [o \in sold |-> of[product[o]]]
             rows == SoldBy(query, of)
  <2>1. DOMAIN rows = {class[o] : o \in sold}
    BY DEF SoldBy
  <2>2. IsFiniteSet(DOMAIN rows)
    <3> HIDE DEF rows, class, sold
    <3>1. IsFiniteSet({class[o] : o \in sold})
      BY <1>1, ImageIsFinite
    <3> QED
      BY <2>1, <3>1
  <2>3. ASSUME NEW k \in DOMAIN rows
        PROVE  /\ rows[k] = Sum("units", Alike(sold, class, k))
               /\ Alike(sold, class, k) = {o \in sold : of[product[o]] = k}
    <3>1. {o \in Sold(query) : of[books.orders[o].product] = k} = Alike(sold, class, k)
      BY DEF Alike
    <3> QED
      BY <3>1 DEF SoldBy, Alike
  <2>4. \A o \in sold : class[o] \in DOMAIN rows /\ class[o] = of[product[o]]
    BY <2>1
  <2> HIDE DEF rows, class, sold
  <2>5. \A k \in DOMAIN rows : rows[k] = Sum("units", Alike(sold, class, k))
    BY <2>3
  <2>6. \A o \in sold : class[o] \in DOMAIN rows
    BY <2>4
  <2>7. Total(rows) = Sum("units", sold)
    BY <1>1, <2>2, <2>5, <2>6, ClassesAddUp DEF Total
  <2> QED
    BY <2>2, <2>3, <2>4, <2>7 DEF rows
<1>4. Total(products) = Sum("units", live)
  <2>1. DOMAIN products = LiveProduct
    BY DEF ProductRows
  <2>2. \A p \in LiveProduct : products[p] = Sum("units", Alike(live, product, p))
    <3>1. ASSUME NEW p \in LiveProduct
          PROVE  {o \in Sold(query) : books.orders[o].product = p} = Alike(live, product, p)
      BY DEF Alike
    <3> QED
      BY <3>1 DEF ProductRows
  <2>3. \A o \in live : product[o] \in LiveProduct
    OBVIOUS
  <2> HIDE DEF products, product, live
  <2> QED
    BY <1>1, <1>2, <2>1, <2>2, <2>3, ClassesAddUp DEF Total
<1>5. Sum("units", sold) = Sum("units", live) + Sum("units", gone)
  <2>1. live \in SUBSET sold /\ gone = sold \ live
    OBVIOUS
  <2> HIDE DEF live, gone, sold
  <2> QED
    BY <1>1, <2>1, HalvesAddUp
<1>6. Total(ByBrand(query)) <= Total(SoldBy(query, BrandOf))
  <2> DEFINE all == SoldBy(query, BrandOf)
             brands == ByBrand(query)
  <2>1. ASSUME NEW k \in DOMAIN all PROVE all[k] \in Nat
    <3> DEFINE mine == {o \in sold : BrandOf[product[o]] = k}
    <3>1. mine \in SUBSET DOMAIN books.orders
      BY <1>1
    <3>2. all[k] = Sum("units", mine)
      BY <1>3
    <3> HIDE DEF mine, all
    <3>3. /\ Sum("units", mine) = SumFunctionOnSet(Column("units"), mine)
          /\ IsFiniteSet(mine) /\ \A o \in mine : Column("units")[o] \in Nat
      BY <3>1, ColumnSums
    <3> QED
      BY <3>2, <3>3, SumIsNat
  <2>2. /\ DOMAIN brands \in SUBSET DOMAIN all /\ IsFiniteSet(DOMAIN all)
        /\ \A k \in DOMAIN brands : brands[k] = all[k]
    BY <1>3 DEF ByBrand
  <2>3. IsFiniteSet(DOMAIN brands)
    BY <2>2, FS_Subset
  <2> HIDE DEF all, brands
  <2>4. SumFunctionOnSet(brands, DOMAIN brands) = SumFunctionOnSet(all, DOMAIN brands)
    BY <2>2, <2>3, SumCongruence
  <2>5. SumFunctionOnSet(all, DOMAIN brands) <= SumFunctionOnSet(all, DOMAIN all)
    BY <2>1, <2>2, SumOfSubset
  <2> QED
    BY <2>4, <2>5 DEF Total, all, brands
<1>7. Total(ByCategory(query)) = Sum("units", sold) /\ Total(SoldBy(query, BrandOf)) = Sum("units", sold)
  BY <1>3 DEF ByCategory
<1> HIDE DEF sold, live, products
<1> QED
  BY <1>4, <1>5, <1>6, <1>7 DEF products, gone, sold

-----------------------------------------------------------------------------

LEMMA SegmentsCover ==
    ASSUME books \in Book
    PROVE  /\ \A c \in Client, s \in {"POTENTIAL", "FIRST_TIME", "RETURNING"} :
                c \in Listed(s) <=> Badge(c) = s
           /\ ReturningCustomers = Cardinality(Listed("RETURNING"))
<1>1. ASSUME NEW c \in Client
      PROVE  /\ Cardinality(SettledOrders(c)) \in Nat
             /\ Cardinality(SettledOrders(c)) = 0 <=> SettledOrders(c) = {}
  <2>1. SettledOrders(c) \in SUBSET DOMAIN books.orders
    BY DEF SettledOrders
  <2>2. IsFiniteSet(SettledOrders(c))
    BY <2>1, ColumnSums
  <2> QED
    BY <2>2, FS_CardinalityType, FS_EmptySet
<1>2. ASSUME NEW c \in Client, NEW s \in {"POTENTIAL", "FIRST_TIME", "RETURNING"}
      PROVE  c \in Listed(s) <=> Badge(c) = s
  <2>1. CASE s = "POTENTIAL"
    BY <1>1, <2>1 DEF Listed, Badge
  <2>2. CASE s = "FIRST_TIME"
    BY <1>1, <2>2 DEF Listed, Badge
  <2>3. CASE s = "RETURNING"
    BY <1>1, <2>3 DEF Listed, Badge
  <2> QED
    BY <2>1, <2>2, <2>3
<1>3. Listed("RETURNING") = {c \in Client : Cardinality(SettledOrders(c)) >= 2}
  BY DEF Listed
<1> QED
  BY <1>2, <1>3 DEF ReturningCustomers

(* Of a finite set of tiers one has the highest minimum.                   *)
LEMMA HighestTier ==
    ASSUME NEW T, IsFiniteSet(T), T # {}, \A tier \in T : tier.min \in Nat
    PROVE  \E tier \in T : \A other \in T : other.min <= tier.min
<1> DEFINE least == [tier \in T |-> tier.min]
           minima == {least[tier] : tier \in T}
<1>1. IsFiniteSet(minima)
  <2> HIDE DEF least
  <2> QED
    BY ImageIsFinite
<1>2. minima \subseteq Int /\ minima # {}
  OBVIOUS
<1> HIDE DEF minima
<1>3. Max(minima) \in minima /\ \A m \in minima : m <= Max(minima)
  BY <1>1, <1>2, MaxIsMember
<1> QED
  BY <1>3 DEF minima

LEMMA DeskAgrees ==
    ASSUME books \in Book
    PROVE  DeskPrice(books.cart.product, books.cart.line)
              = Rules!CartPrice(books.cart.product, books.cart.line)
<1> DEFINE product == books.cart.product
           line == books.cart.line
           reached == {tier \in product.tiers : line.quantity >= tier.min}
           base == IF product.sale # Rules!None THEN product.sale ELSE product.price
           highest == CHOOSE tier \in reached : \A other \in reached : other.min <= tier.min
           best == BestTier(product, line.quantity)
           cheaper == {tier \in best : tier.price < base}
<1>1. /\ IsFiniteSet(reached) /\ \A tier \in reached : tier.min \in Nat /\ tier.price \in Nat
      /\ \A tier, other \in reached : tier.min = other.min => tier = other
  <2>1. IsFiniteSet(product.tiers) /\ reached \in SUBSET product.tiers
    BY BookAssumption
  <2>2. IsFiniteSet(reached)
    BY <2>1, FS_Subset
  <2> QED
    BY <2>2, BookAssumption
<1>2. CASE reached = {}
  <2>1. cheaper = {}
    BY <1>2 DEF BestTier
  <2>2. Rules!TierPrice(product, line.quantity) = Rules!None
    BY <1>2 DEF Rules!TierPrice
  <2> QED
    BY <2>1, <2>2 DEF DeskPrice, Rules!CartPrice, Rules!RegularPrice
<1>3. CASE reached # {}
  <2>1. highest \in reached /\ \A other \in reached : other.min <= highest.min
    <3> HIDE DEF reached
    <3> QED
      BY <1>1, <1>3, HighestTier
  <2>2. Rules!TierPrice(product, line.quantity) = highest.price
    BY <1>3 DEF Rules!TierPrice
  <2>3. best = {tier \in reached : \A other \in reached : other.min <= tier.min}
    BY DEF BestTier
  <2> HIDE DEF reached, highest, best
  <2>4. best = {highest}
    <3>1. ASSUME NEW tier \in reached, \A other \in reached : other.min <= tier.min
          PROVE  tier = highest
      <4>1. tier.min <= highest.min /\ highest.min <= tier.min
        BY <2>1, <3>1
      <4>2. tier.min \in Nat /\ highest.min \in Nat
        BY <1>1, <2>1
      <4>3. tier.min = highest.min
        BY <4>1, <4>2
      <4> QED
        BY <1>1, <2>1, <4>3
    <3> QED
      BY <2>1, <2>3, <3>1
  <2>5. highest.price \in Nat /\ highest.price # Rules!None
    BY <1>1, <2>1 DEF Rules!None
  <2>6. DeskPrice(product, line)
           = IF line.override # Rules!None THEN line.override
             ELSE IF cheaper # {} THEN (CHOOSE tier \in cheaper : TRUE).price ELSE base
    BY DEF DeskPrice, best
  <2>7. Rules!CartPrice(product, line)
           = IF line.override # Rules!None THEN line.override
             ELSE IF highest.price < base THEN highest.price ELSE base
    BY <2>2, <2>5 DEF Rules!CartPrice, Rules!RegularPrice
  <2>8. CASE highest.price < base
    <3>1. cheaper = {highest}
      BY <2>4, <2>8
    <3>2. (CHOOSE tier \in cheaper : TRUE) = highest
      BY <3>1
    <3> HIDE DEF cheaper, base
    <3> QED
      BY <2>6, <2>7, <2>8, <3>1, <3>2
  <2>9. CASE ~(highest.price < base)
    <3>1. cheaper = {}
      BY <2>4, <2>9
    <3> HIDE DEF cheaper, base
    <3> QED
      BY <2>6, <2>7, <2>9, <3>1
  <2> HIDE DEF base
  <2> QED
    BY <2>8, <2>9
<1> QED
  BY <1>2, <1>3

-----------------------------------------------------------------------------

(* A report, once drawn, is the one its query draws from the books.        *)
FiguresInv == books \in Book /\ (report = Undrawn \/ \E query \in Query : report = Drawing(query))

LEMMA DrawingsStay ==
    ASSUME UNCHANGED books, NEW query
    PROVE  Drawing(query)' = Drawing(query)
<1>1. \A field, orders : Sum(field, orders)' = Sum(field, orders)
  BY DEF Sum
<1>2. \A range, pays : Within(range, pays)' = Within(range, pays)
  BY DEF Within
<1>3. Sales(query)' = Sales(query)
  BY <1>1, <1>2 DEF Sales
<1>4. During(query)' = During(query) /\ Before(query)' = Before(query)
  BY <1>2 DEF During, Before, Buyers
<1>5. Spending(query)' = Spending(query) /\ ByArea(query)' = ByArea(query)
  BY <1>1, <1>2, <1>4 DEF Spending, ByArea, Net
<1>6. Sold(query)' = Sold(query)
  BY <1>2 DEF Sold
<1>7. \A of : SoldBy(query, of)' = SoldBy(query, of)
  BY <1>1, <1>6 DEF SoldBy
<1>8. ProductRows(query)' = ProductRows(query)
  BY <1>1, <1>6 DEF ProductRows
<1>9. ByCategory(query)' = ByCategory(query) /\ ByBrand(query)' = ByBrand(query)
  BY <1>7 DEF ByCategory, ByBrand
<1>10. \A c : SettledOrders(c)' = SettledOrders(c)
  BY DEF SettledOrders
<1>11. /\ \A c : Badge(c)' = Badge(c)
       /\ \A s : Listed(s)' = Listed(s)
       /\ ReturningCustomers' = ReturningCustomers
  BY <1>10 DEF Badge, Listed, ReturningCustomers
<1>12. CartValue' = CartValue
  BY DEF CartValue
<1> QED
  BY <1>3, <1>4, <1>5, <1>8, <1>9, <1>11, <1>12 DEF Drawing

(* Reports agree with each other and with the rows (ReportsService,        *)
(* CustomersService, OrdersService.abandonedCarts), for any finite number  *)
(* of orders, customers and products, any range, grouping and calendar.    *)
THEOREM FiguresAddUp == FiguresSpec => []FiguresAgree
<1>1. FiguresInit => FiguresInv
  BY DEF FiguresInit, FiguresInv
<1>2. FiguresInv /\ [FiguresNext]_figureVars => FiguresInv'
  <2> SUFFICES ASSUME FiguresInv, [FiguresNext]_figureVars PROVE FiguresInv'
    OBVIOUS
  <2>1. UNCHANGED books
    BY DEF FiguresNext, Draw, figureVars
  <2>2. CASE FiguresNext
    <3>1. PICK query \in Query : report' = Drawing(query)
      BY <2>2 DEF FiguresNext, Draw
    <3>2. report' = Drawing(query)'
      BY <2>1, <3>1, DrawingsStay
    <3> QED
      BY <2>1, <3>2 DEF FiguresInv
  <2>3. CASE UNCHANGED figureVars
    <3>1. CASE report = Undrawn
      BY <2>1, <2>3, <3>1 DEF FiguresInv, figureVars
    <3>2. CASE report # Undrawn
      <4>1. PICK query \in Query : report = Drawing(query)
        BY <3>2 DEF FiguresInv
      <4>2. report' = Drawing(query)'
        BY <2>1, <2>3, <4>1, DrawingsStay DEF figureVars
      <4> QED
        BY <2>1, <4>2 DEF FiguresInv
    <3> QED
      BY <3>1, <3>2
  <2> QED
    BY <2>2, <2>3
<1>3. FiguresInv => FiguresAgree
  <2> SUFFICES ASSUME FiguresInv, report # Undrawn PROVE FiguresAgree
    BY DEF FiguresAgree, SalesAddUp, BuyersAddUp, SharesAddUp, SegmentsAgree, ValuedAsShown, Drawn
  <2>1. PICK query \in Query : report = Drawing(query)
    BY DEF FiguresInv
  <2>2. books \in Book
    BY DEF FiguresInv
  <2>3. SalesAddUp
    <3>1. report.sales = Sales(query) /\ report.query = query
      BY <2>1 DEF Drawing
    <3> QED
      BY <2>2, <3>1, SalesCover DEF SalesAddUp, Drawn
  <2>4. BuyersAddUp
    <3>1. /\ report.newCustomers = Cardinality(During(query)) - Cardinality(Before(query))
          /\ report.returningCustomers = Cardinality(Before(query)) /\ report.query = query
          /\ report.spend = Spending(query) /\ report.areas = ByArea(query)
      BY <2>1 DEF Drawing
    <3> QED
      BY <2>2, <3>1, BuyersCover DEF BuyersAddUp, Drawn
  <2>5. SharesAddUp
    <3>1. /\ report.categories = ByCategory(query) /\ report.products = ProductRows(query)
          /\ report.brands = ByBrand(query) /\ report.query = query
      BY <2>1 DEF Drawing
    <3> QED
      BY <2>2, <3>1, SharesCover DEF SharesAddUp, Drawn
  <2>6. SegmentsAgree
    <3>1. /\ report.segments = [s \in {"POTENTIAL", "FIRST_TIME", "RETURNING"} |-> Listed(s)]
          /\ report.badges = [c \in Client |-> Badge(c)] /\ report.returning = ReturningCustomers
      BY <2>1 DEF Drawing
    <3> QED
      BY <2>2, <3>1, SegmentsCover DEF SegmentsAgree, Drawn
  <2>7. ValuedAsShown
    <3>1. report.value = CartValue
      BY <2>1 DEF Drawing
    <3> QED
      BY <2>2, <3>1, DeskAgrees DEF ValuedAsShown, CartValue, Drawn
  <2> QED
    BY <2>3, <2>4, <2>5, <2>6, <2>7 DEF FiguresAgree
<1> QED
  BY <1>1, <1>2, <1>3, PTL DEF FiguresSpec

=============================================================================
