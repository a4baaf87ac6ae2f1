----------------------------- MODULE Belongings -----------------------------
(***************************************************************************)
(* What customers keep and say: their addresses, reviews and questions     *)
(* (StorefrontAddressesService, StorefrontReviewsService, ReviewsService,  *)
(* StorefrontQnaService, AdminQnaService), query by query where queries of *)
(* two requests may interleave. Texts and ratings are left out, and so is  *)
(* whether a product is still there.                                       *)
(*                                                                         *)
(*   address    the rows: owner, default, crossed (below)                  *)
(*   review     the rows: who wrote it, its order item, its status         *)
(*   question   the rows: status and how many answers they have            *)
(*   visit      the requests under way. One that marks an address as the   *)
(*            default is crossed once another has done so since it cleared *)
(*            the defaults it saw (history, kept by the row it writes)     *)
(***************************************************************************)
EXTENDS Naturals, FiniteSets

CONSTANTS Shopper, Spot, Review, Question, Visit,
          Purchase, Buyer,      \* order items, and whose order each is of
          Absent, MaxAnswers    \* bound on the answers to a question

ASSUME BelongingsAssumption ==
    Buyer \in [Purchase -> Shopper] /\ Absent \notin Shopper \cup Purchase /\ MaxAnswers \in Nat

VARIABLES address, review, question, visit

belongingVars == <<address, review, question, visit>>

NoAddress == [owner |-> Absent, default |-> FALSE, crossed |-> FALSE]

NoReview == [by |-> Absent, item |-> Absent, status |-> "none"]

NoQuestion == [status |-> "none", answers |-> 0]

Home == [at |-> "home"]

BelongingsInit ==
    /\ address = [a \in Spot |-> NoAddress]
    /\ review = [r \in Review |-> NoReview]
    /\ question = [n \in Question |-> NoQuestion]
    /\ visit = [t \in Visit |-> Home]

Steps(t, row) == visit' = [visit EXCEPT ![t] = row]

-----------------------------------------------------------------------------
(* Addresses. isDefault is true, false or not sent. Ids are not used again *)
(* while a request still carries one.                                      *)

Mine(s) == {a \in Spot : address[a].owner = s}

Saving(t, s, a, mark, new) ==
    /\ visit[t] = Home
    /\ Steps(t, [at |-> IF mark = "true" THEN "clear" ELSE "save", who |-> s, row |-> a,
                 mark |-> mark, new |-> new, cleared |-> {}, crossed |-> FALSE])
    /\ UNCHANGED <<address, review, question>>

CreateAddress(t, s, a, mark) ==
    /\ address[a] = NoAddress
    /\ \A u \in Visit : visit[u].at \in {"clear", "save"} => visit[u].row # a
    /\ Saving(t, s, a, mark, TRUE)

UpdateAddress(t, s, a, mark) == a \in Mine(s) /\ Saving(t, s, a, mark, FALSE)

(* Mutant: the default is set on top of the others.                        *)
ClearNothing(t) ==
    /\ visit[t].at = "clear"
    /\ Steps(t, [visit[t] EXCEPT !.at = "save"])
    /\ UNCHANGED <<address, review, question>>

(* updateMany: it clears the defaults committed when it starts, and those  *)
(* rows are written when the transaction commits.                          *)
ClearDefaults(t) ==
    /\ visit[t].at = "clear"
    /\ Steps(t, [visit[t] EXCEPT !.at = "save",
                    !.cleared = {a \in Mine(visit[t].who) : address[a].default} \ {visit[t].row}])
    /\ UNCHANGED <<address, review, question>>

SaveAddress(t) ==
    LET me == visit[t]
        old == address[me.row]
        saved == [owner |-> me.who,
                  default |-> me.mark = "true" \/ (me.mark = "unsent" /\ old.default),
                  crossed |-> IF me.mark = "true" THEN me.crossed ELSE old.crossed]
    IN
    /\ me.at = "save" /\ (me.new \/ old # NoAddress)
    /\ address' = [a \in Spot |->
          IF a = me.row THEN saved
          ELSE IF a \in me.cleared THEN [address[a] EXCEPT !.default = FALSE] ELSE address[a]]
    /\ visit' = [u \in Visit |->
          IF u = t THEN Home
          ELSE IF visit[u].at = "save" /\ visit[u].who = me.who /\ me.mark = "true"
          THEN [visit[u] EXCEPT !.crossed = TRUE] ELSE visit[u]]
    /\ UNCHANGED <<review, question>>

(* The row is gone, or the transaction is the victim of a deadlock.        *)
Undone(t) == visit[t] # Home /\ Steps(t, Home) /\ UNCHANGED <<address, review, question>>

RemoveAddress(s, a) ==
    /\ a \in Mine(s)
    /\ address' = [address EXCEPT ![a] = NoAddress]
    /\ visit' = [t \in Visit |-> IF visit[t].at = "save"
                                 THEN [visit[t] EXCEPT !.cleared = @ \ {a}] ELSE visit[t]]
    /\ UNCHANGED <<review, question>>

-----------------------------------------------------------------------------
(* Reviews, of a product or of an order item of the customer.              *)

FindOrderItem(t, s, item) ==
    /\ visit[t] = Home
    /\ item # Absent => Buyer[item] = s
    /\ Steps(t, [at |-> "review", who |-> s, row |-> item])
    /\ UNCHANGED <<address, review, question>>

(* The unique index on the order item refuses a second one (Undone).       *)
CreateReview(t) ==
    /\ visit[t].at = "review"
    /\ visit[t].row # Absent => \A r \in Review : review[r].item # visit[t].row
    /\ \E r \in Review :
         /\ review[r] = NoReview
         /\ review' = [review EXCEPT ![r] =
               [by |-> visit[t].who, item |-> visit[t].row, status |-> "PENDING"]]
    /\ Steps(t, Home)
    /\ UNCHANGED <<address, question>>

(* approve, reject.                                                        *)
ModerateReview(r, status) ==
    /\ review[r] # NoReview
    /\ review' = [review EXCEPT ![r].status = status]
    /\ UNCHANGED <<address, question, visit>>

RemoveReview(r) ==
    /\ review[r] # NoReview
    /\ review' = [review EXCEPT ![r] = NoReview]
    /\ UNCHANGED <<address, question, visit>>

-----------------------------------------------------------------------------
(* Questions: an answer publishes, in one transaction with the answer row. *)

AskQuestion(n) ==
    /\ question[n] = NoQuestion
    /\ question' = [question EXCEPT ![n].status = "PENDING"]
    /\ UNCHANGED <<address, review, visit>>

AnswerQuestion(n) ==
    /\ question[n] # NoQuestion /\ question[n].answers < MaxAnswers
    /\ question' = [question EXCEPT ![n] = [status |-> "PUBLISHED", answers |-> @.answers + 1]]
    /\ UNCHANGED <<address, review, visit>>

RejectQuestion(n) ==
    /\ question[n] # NoQuestion
    /\ question' = [question EXCEPT ![n].status = "REJECTED"]
    /\ UNCHANGED <<address, review, visit>>

RemoveQuestion(n) ==
    /\ question[n] # NoQuestion
    /\ question' = [question EXCEPT ![n] = NoQuestion]
    /\ UNCHANGED <<address, review, visit>>

AddressesNext ==
    \/ \E t \in Visit, s \in Shopper, a \in Spot, mark \in {"true", "false", "unsent"} :
          CreateAddress(t, s, a, mark) \/ UpdateAddress(t, s, a, mark)
    \/ \E t \in Visit : ClearDefaults(t) \/ SaveAddress(t) \/ Undone(t)
    \/ \E s \in Shopper, a \in Spot : RemoveAddress(s, a)

ReviewsNext ==
    \/ \E t \in Visit, s \in Shopper, item \in Purchase \cup {Absent} : FindOrderItem(t, s, item)
    \/ \E t \in Visit : CreateReview(t) \/ Undone(t)
    \/ \E r \in Review :
          RemoveReview(r) \/ \E status \in {"APPROVED", "REJECTED"} : ModerateReview(r, status)

QuestionsNext ==
    \E n \in Question :
       AskQuestion(n) \/ AnswerQuestion(n) \/ RejectQuestion(n) \/ RemoveQuestion(n)

BelongingsSpec ==
    BelongingsInit /\ [][AddressesNext \/ ReviewsNext \/ QuestionsNext]_belongingVars

-----------------------------------------------------------------------------
(* Properties.                                                             *)

(* A customer has two default addresses only when two requests that set    *)
(* one overlapped (StorefrontAddressesService.create and update).          *)
OneDefault ==
    \A a, b \in Spot :
       a # b /\ address[a].default /\ address[b].default /\ address[a].owner = address[b].owner
         => address[a].crossed \/ address[b].crossed

(* A review with an order item, which lists show as a verified purchase,   *)
(* is by its buyer, and an item is reviewed once, whatever was rejected or *)
(* removed before (StorefrontReviewsService.create).                       *)
VerifiedByBuyer ==
    \A r \in Review : review[r].item # Absent =>
        /\ review[r].by = Buyer[review[r].item]
        /\ \A other \in Review \ {r} : review[other].item # review[r].item

(* A question is published with an answer to it, however answers and       *)
(* rejections follow each other (AdminQnaService).                         *)
PublishedAnswered == \A n \in Question : question[n].status = "PUBLISHED" => question[n].answers > 0

(* The three above.                                                        *)
BelongingsHold == OneDefault /\ VerifiedByBuyer /\ PublishedAnswered

=============================================================================
