------------------------------ MODULE GiftCards -----------------------------
(***************************************************************************)
(* Gift cards as the office issues and corrects them (GiftCardsService). A *)
(* correction is one SERIALIZABLE transaction: it reads the card, works    *)
(* out balance and status, writes the card and adds a transaction row. The *)
(* database aborts the writer whose card was changed since it read it.     *)
(*                                                                         *)
(*   card        the rows: status and current balance, in pence            *)
(*   ledger      the sum of a card's transaction rows                      *)
(*   correction  those in progress: [step, card, copy, order, stale]       *)
(***************************************************************************)
EXTENDS Integers, FiniteSets

CONSTANTS Card, Correction,
          CardChange,        \* what the office may ask: records of status and adjustment
          Issue,         \* the balances a card is issued with
          MaxBalance     \* bound on what a model's cards hold

CardStatus == {"ACTIVE", "REDEEMED", "EXPIRED", "DISABLED"}

(* UpdateGiftCardDto: both fields are optional, one must be there, and an  *)
(* adjustment is not zero.                                                 *)
ASSUME ChangeAssumption ==
    /\ MaxBalance \in Nat /\ Issue \subseteq 1..MaxBalance
    /\ \A change \in CardChange :
          /\ DOMAIN change # {} /\ DOMAIN change \subseteq {"status", "adjustment"}
          /\ "status" \in DOMAIN change => change.status \in CardStatus
          /\ "adjustment" \in DOMAIN change => change.adjustment \in Int \ {0}

VARIABLES card, ledger, correction

cardVars == <<card, ledger, correction>>

NoCard == [status |-> "none", balance |-> 0]

CardRow == [status : CardStatus, balance : 0..MaxBalance]

NoCorrection == [step |-> "idle"]

CorrectionRow == [step : {"commit"}, card : Card, copy : CardRow, order : CardChange,
                  stale : BOOLEAN]

CardsInit ==
    /\ card = [c \in Card |-> NoCard]
    /\ ledger = [c \in Card |-> 0]
    /\ correction = [k \in Correction |-> NoCorrection]

-----------------------------------------------------------------------------

IssueCard(c, amount) ==
    /\ card[c] = NoCard
    /\ card' = [card EXCEPT ![c] = [status |-> "ACTIVE", balance |-> amount]]
    /\ ledger' = [ledger EXCEPT ![c] = amount]
    /\ UNCHANGED correction

ReadCard(k, c, change) ==
    /\ correction[k] = NoCorrection
    /\ card[c] # NoCard
    /\ correction' = [correction EXCEPT ![k] = [step |-> "commit", card |-> c, copy |-> card[c],
                                                order |-> change, stale |-> FALSE]]
    /\ UNCHANGED <<card, ledger>>

(* What a correction adds, none for a change of status.                    *)
Adjustment(change) == IF "adjustment" \in DOMAIN change THEN change.adjustment ELSE 0

(* An explicit status wins; else an emptied card is redeemed and a refilled*)
(* one active again.                                                       *)
StatusAfter(copy, change) ==
    CASE "status" \in DOMAIN change -> change.status
      [] copy.balance + Adjustment(change) = 0 -> "REDEEMED"
      [] OTHER -> IF copy.status = "REDEEMED" THEN "ACTIVE" ELSE copy.status

(* The balance is written only by an adjustment.                           *)
Corrected(current, copy, change) ==
    [status |-> StatusAfter(copy, change),
     balance |-> IF "adjustment" \in DOMAIN change THEN copy.balance + change.adjustment
                 ELSE current.balance]

Committed(k) ==
    LET fix == correction[k] IN
    /\ fix.copy.balance + Adjustment(fix.order) \in 0..MaxBalance
    /\ card' = [card EXCEPT ![fix.card] = Corrected(@, fix.copy, fix.order)]
    /\ ledger' = [ledger EXCEPT ![fix.card] = @ + Adjustment(fix.order)]
    /\ correction' = [j \in Correction |->
                        IF j = k THEN NoCorrection
                        ELSE IF correction[j].step = "commit" /\ correction[j].card = fix.card
                        THEN [correction[j] EXCEPT !.stale = TRUE] ELSE correction[j]]

(* mutant: the transaction runs at the default isolation.                  *)
CommitStale(k) == correction[k].step = "commit" /\ Committed(k)

Commit(k) ==
    /\ correction[k].step = "commit"
    /\ ~correction[k].stale
    /\ Committed(k)

(* A stale copy, a negative balance or a lost connection ends it unwritten.*)
Abort(k) ==
    /\ correction[k].step = "commit"
    /\ correction' = [correction EXCEPT ![k] = NoCorrection]
    /\ UNCHANGED <<card, ledger>>

CardsNext ==
    \/ \E c \in Card, amount \in Issue : IssueCard(c, amount)
    \/ \E k \in Correction, c \in Card, change \in CardChange : ReadCard(k, c, change)
    \/ \E k \in Correction : Commit(k) \/ Abort(k)

CardsSpec == CardsInit /\ [][CardsNext]_cardVars

-----------------------------------------------------------------------------
(* Properties.                                                             *)

CardsTypeOK ==
    /\ card \in [Card -> CardRow \cup {NoCard}]
    /\ ledger \in [Card -> Int]
    /\ correction \in [Correction -> CorrectionRow \cup {NoCorrection}]

(* A card holds what its transactions add up to, however corrections       *)
(* overlap, and never less than nothing (GiftCardsService.update).         *)
BalanceIsLedger == \A c \in Card : card[c].balance = ledger[c] /\ ledger[c] >= 0

(* The inductive form: a correction that is not stale works on the card as *)
(* it is.                                                                  *)
CopiesAreCurrent ==
    \A k \in Correction : correction[k].step = "commit" =>
        /\ card[correction[k].card] # NoCard
        /\ ~correction[k].stale => correction[k].copy = card[correction[k].card]

=============================================================================
