------------------------------- MODULE Quotes -------------------------------
(***************************************************************************)
(* Requests for a quote: a visitor asks, the office prices, the customer   *)
(* accepts or declines (StorefrontQuotesService, AdminQuotesService). An   *)
(* answer is two steps, the read of the row and the write by id, and says  *)
(* nothing of what the customer looked at before; the office's is one      *)
(* transaction, and the rows it looks at before are never deleted.         *)
(*                                                                         *)
(*   quote    the rows: owner, status, total, and the unit price of a line *)
(*   answer   the answers under way, of the clients that send them:        *)
(*            [step, row, status]; a client waits for each of its answers  *)
(*   given    history: the clients that have answered a quote since the    *)
(*            office last offered it                                       *)
(***************************************************************************)
EXTENDS Naturals, FiniteSets

CONSTANTS Quote, Customer, Answer,
          Unpriced,   \* the price of what has none
          Response    \* what the office may write: records of the fields it names

(* The fields of RespondQuoteRequestDto are all optional; "line" is the    *)
(* quote whose line it prices, which need not be the quote it answers.     *)
QuoteStatus == {"NEW", "REVIEWING", "QUOTED", "ACCEPTED", "DECLINED", "EXPIRED"}

RespondDto(write) ==
    /\ DOMAIN write \subseteq {"status", "total", "line", "unit"}
    /\ "status" \in DOMAIN write => write.status \in QuoteStatus
    /\ "line" \in DOMAIN write <=> "unit" \in DOMAIN write
    /\ "total" \in DOMAIN write => write.total \in Nat
    /\ "unit" \in DOMAIN write => write.unit \in Nat

ASSUME ResponseAssumption == \A write \in Response : RespondDto(write)

VARIABLES quote, answer, given

quoteVars == <<quote, answer, given>>

Guest == "guest"

Unasked == [owner |-> Guest, status |-> "none", total |-> Unpriced, unit |-> Unpriced]

Unanswered == [step |-> "idle"]

QuotesInit ==
    /\ quote = [q \in Quote |-> Unasked]
    /\ answer = [a \in Answer |-> Unanswered]
    /\ given = [q \in Quote |-> {}]

-----------------------------------------------------------------------------

Ask(q, owner) ==
    /\ quote[q] = Unasked
    /\ quote' = [quote EXCEPT ![q] = [Unasked EXCEPT !.owner = owner, !.status = "NEW"]]
    /\ UNCHANGED <<answer, given>>

(* mutant: an answer is taken whatever became of the quote.                *)
DetailAny(a, q, customer, status) ==
    /\ answer[a] = Unanswered
    /\ quote[q].owner = customer
    /\ answer' = [answer EXCEPT ![a] = [step |-> "write", row |-> q, status |-> status]]
    /\ UNCHANGED <<quote, given>>

(* Accept and decline: the quote is the customer's and priced.             *)
Detail(a, q, customer, status) ==
    /\ answer[a] = Unanswered
    /\ quote[q].owner = customer
    /\ quote[q].status = "QUOTED"
    /\ answer' = [answer EXCEPT ![a] = [step |-> "write", row |-> q, status |-> status]]
    /\ UNCHANGED <<quote, given>>

(* The write names the row only.                                           *)
Accept(a) ==
    /\ answer[a].step = "write"
    /\ quote' = [quote EXCEPT ![answer[a].row].status = answer[a].status]
    /\ answer' = [answer EXCEPT ![a] = Unanswered]
    /\ given' = [given EXCEPT ![answer[a].row] = @ \cup {a}]

(* A line of another quote undoes the whole response.                      *)
Respond(q, write) ==
    /\ quote[q].status # "none"
    /\ "line" \in DOMAIN write => write.line = q
    /\ quote' = [quote EXCEPT ![q] =
                   [field \in DOMAIN @ |-> IF field \in DOMAIN write THEN write[field] ELSE @[field]]]
    /\ given' = IF quote'[q].status = "QUOTED" THEN [given EXCEPT ![q] = {}] ELSE given
    /\ UNCHANGED answer

QuotesNext ==
    \/ \E q \in Quote, owner \in Customer \cup {Guest} : Ask(q, owner)
    \/ \E a \in Answer, q \in Quote, c \in Customer, s \in {"ACCEPTED", "DECLINED"} : Detail(a, q, c, s)
    \/ \E a \in Answer : Accept(a)
    \/ \E q \in Quote, write \in Response : Respond(q, write)

QuotesSpec == QuotesInit /\ [][QuotesNext]_quoteVars

-----------------------------------------------------------------------------
(* Properties.                                                             *)

(* What the office offers a client answers once: the first answer to land  *)
(* closes the quote to all that read it later, whichever other answers     *)
(* were under way and land after it, and whatever the office writes short  *)
(* of a new offer (StorefrontQuotesService.accept, decline, respond).      *)
OneAnswerEach ==
    [][\A a \in Answer :
          answer[a].step = "write" /\ answer'[a].step = "idle" => a \notin given[answer[a].row]]_quoteVars

(* "Only a priced quote can be accepted", or declined                      *)
(* (StorefrontQuotesService.accept): the office has priced it, as a whole  *)
(* or by the line, when the answer lands. It looks at the status, which    *)
(* the office may set without a price (RespondQuoteRequestDto): TLC refutes*)
(* this when a configuration checks it (see README).                       *)
OnlyPricedAnswered ==
    [][\A a \in Answer :
          answer[a].step = "write" /\ answer'[a].step = "idle" =>
             LET row == quote[answer[a].row] IN row.total # Unpriced \/ row.unit # Unpriced]_quoteVars

=============================================================================
