----------------------------- MODULE StockAlerts ----------------------------
(***************************************************************************)
(* The stock of one variant and the e-mail that warns of its dips          *)
(* (LowStockAlertService, ProductsService.updateStock). Its product takes  *)
(* the warnings, and its threshold stays.                                  *)
(*                                                                         *)
(*   stock      product_variants.stock_qty                                 *)
(*   alerted    low_stock_alert_sent_at is set                             *)
(*   checker    the checks under way: each call of checkAndNotify is a     *)
(*              floating promise that reads the row, sends and writes      *)
(*   told       mails delivered in this dip, that is since the stock last  *)
(*              went from above the threshold to it or below               *)
(*   failed     mails of this dip that the mailer did not deliver          *)
(*   unaddressed  a check of this dip found nobody to write to             *)
(*   unwatched  kinds of writes so far that call no check                  *)
(*   disturbed  the stock moved or a second check read it while one was    *)
(*              due, or a check died                                       *)
(* The last five are history variables; MaxTold bounds the two counters.   *)
(***************************************************************************)
EXTENDS Naturals, FiniteSets

CONSTANTS Checker, MaxStock, Threshold, MaxTold

ASSUME StockAssumption == /\ MaxStock \in Nat /\ MaxTold \in Nat \ {0}
                          /\ Threshold \in 0..(MaxStock - 1)

VARIABLES stock, alerted, checker, told, failed, unaddressed, unwatched, disturbed

alertVars == <<stock, alerted, checker, told, failed, unaddressed, unwatched, disturbed>>

mailVars == <<told, failed, unaddressed>>

IsLow(q) == q <= Threshold

Running == {c \in Checker : checker[c] # "idle"}

Quiet == \A c \in Checker : checker[c] = "idle"

AlertInit ==
    /\ stock = MaxStock /\ alerted = FALSE
    /\ checker = [c \in Checker |-> "idle"]
    /\ told = 0 /\ failed = 0 /\ unaddressed = FALSE
    /\ unwatched = {} /\ disturbed = FALSE

(* Every write of the stock; one of them may begin a dip.                  *)
Move(q) ==
    /\ q # stock /\ stock' = q
    /\ IF ~IsLow(stock) /\ IsLow(q) THEN told' = 0 /\ failed' = 0 /\ unaddressed' = FALSE
       ELSE UNCHANGED mailVars
    /\ disturbed' = (disturbed \/ Running # {})

Call == \E c \in Checker : checker[c] = "idle" /\ checker' = [checker EXCEPT ![c] = "called"]

-----------------------------------------------------------------------------
(* The writers.                                                            *)

(* A checkout takes units while there are enough, and calls a check.       *)
Sell(n) == n <= stock /\ Move(stock - n) /\ Call /\ UNCHANGED <<alerted, unwatched>>

(* A cancelled order puts them back, and calls a check.                    *)
CancelledOrder(n) ==
    stock + n <= MaxStock /\ Move(stock + n) /\ Call /\ UNCHANGED <<alerted, unwatched>>

(* updateStock: an absolute quantity, or a change to the one just read.    *)
UpdateStock(q) == Move(q) /\ Call /\ UNCHANGED <<alerted, unwatched>>

(* An expired order puts its units back and calls nothing.                 *)
ExpiredOrder(n) ==
    /\ stock + n <= MaxStock /\ Move(stock + n)
    /\ unwatched' = unwatched \cup {"expiry"}
    /\ UNCHANGED <<alerted, checker>>

(* Nor does the form of a product, whose initial variant carries a stock.  *)
SaveForm(q) ==
    /\ Move(q)
    /\ unwatched' = unwatched \cup {"form"}
    /\ UNCHANGED <<alerted, checker>>

-----------------------------------------------------------------------------
(* checkAndNotify.                                                         *)

Step(c, from, to) == checker[c] = from /\ checker' = [checker EXCEPT ![c] = to]

(* A check that does not look whether this dip was announced.              *)
ReadUnmarked(c) ==
    /\ Step(c, "called", IF IsLow(stock) THEN "send" ELSE IF alerted THEN "clear" ELSE "idle")
    /\ disturbed' = (disturbed \/ Running # {c})
    /\ UNCHANGED <<stock, alerted, mailVars, unwatched>>

Read(c) ==
    /\ Step(c, "called", IF IsLow(stock) THEN IF alerted THEN "idle" ELSE "send"
                         ELSE IF alerted THEN "clear" ELSE "idle")
    /\ disturbed' = (disturbed \/ Running # {c})
    /\ UNCHANGED <<stock, alerted, mailVars, unwatched>>

Clear(c) ==
    /\ Step(c, "clear", "idle") /\ alerted' = FALSE
    /\ UNCHANGED <<stock, mailVars, unwatched, disturbed>>

(* Neither the settings nor the environment name a recipient: the check    *)
(* ends without a mail and without the flag.                               *)
NoAddress(c) ==
    /\ Step(c, "send", "idle") /\ unaddressed' = TRUE
    /\ UNCHANGED <<stock, alerted, told, failed, unwatched, disturbed>>

OneMore(n) == IF n < MaxTold THEN n + 1 ELSE n

Send(c) ==
    /\ Step(c, "send", "mark") /\ told' = OneMore(told)
    /\ UNCHANGED <<stock, alerted, failed, unaddressed, unwatched, disturbed>>

(* EmailService.send() does not throw: without SMTP settings, or when the  *)
(* relay refuses, it returns false, and nobody looks.                      *)
SendFails(c) ==
    /\ Step(c, "send", "mark") /\ failed' = OneMore(failed)
    /\ UNCHANGED <<stock, alerted, told, unaddressed, unwatched, disturbed>>

Mark(c) ==
    /\ Step(c, "mark", "idle") /\ alerted' = TRUE
    /\ UNCHANGED <<stock, mailVars, unwatched, disturbed>>

(* A check whose query fails ends, and a restart drops them all: nothing   *)
(* records that they were due.                                             *)
Die(dead) ==
    /\ dead # {} /\ dead \subseteq Running
    /\ checker' = [c \in Checker |-> IF c \in dead THEN "idle" ELSE checker[c]]
    /\ disturbed' = TRUE
    /\ UNCHANGED <<stock, alerted, mailVars, unwatched>>

AlertNext ==
    \/ \E n \in 1..MaxStock : Sell(n) \/ CancelledOrder(n) \/ ExpiredOrder(n)
    \/ \E q \in 0..MaxStock : UpdateStock(q) \/ SaveForm(q)
    \/ \E c \in Checker :
          Read(c) \/ Clear(c) \/ NoAddress(c) \/ Send(c) \/ SendFails(c) \/ Mark(c)
    \/ \E dead \in SUBSET Checker : Die(dead)

AlertSpec == AlertInit /\ [][AlertNext]_alertVars

-----------------------------------------------------------------------------
(* Properties.                                                             *)

(* A dip is announced by one attempt to mail ("already alerted for this    *)
(* dip"), and when the stock comes to rest the flag stands exactly for an  *)
(* attempt in the dip that lasts; a dip without one found no address. A    *)
(* mail that was not delivered is not tried again. All this unless a check *)
(* was overtaken by another or by the stock, died, or was not called.      *)
MailPerDip ==
    ~disturbed /\ unwatched = {} =>
        /\ told + failed <= 1
        /\ Quiet => /\ alerted <=> (IsLow(stock) /\ told + failed = 1)
                    /\ IsLow(stock) => alerted \/ unaddressed

(* What the schema says of the flag and the code does not keep. "Set when  *)
(* a low-stock alert email has gone out for the current dip"               *)
(* (schema.prisma:602): the flag is set also when the mailer failed. TLC   *)
(* refutes it when a configuration checks it, and the next (see README).   *)
FlagMeansMail ==
    ~disturbed /\ unwatched = {} => (alerted /\ IsLow(stock) => told > 0)

(* "cleared once stock rises back above the threshold, so restocking allows*)
(* the next dip to alert again instead of staying silent forever" (603):   *)
(* the expiry of an order puts stock back without a check.                 *)
NextDipAlerts ==
    /\ ~disturbed /\ "form" \notin unwatched
    /\ Quiet /\ IsLow(stock)
    => told + failed > 0 \/ unaddressed

=============================================================================
