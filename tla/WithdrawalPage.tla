--------------------------- MODULE WithdrawalPage ---------------------------
(***************************************************************************)
(* The dashboard's page of withdrawals: the form checks an amount against   *)
(* the balance the page shows, posts it, and waits for balance and list to  *)
(* be fetched again.  The services it calls are not in the repository: a    *)
(* withdrawal is paid or refused as they like.                              *)
(***************************************************************************)
EXTENDS Integers

CONSTANTS
  Funds,             \* the merchant's balance at first
  WithdrawalLimit,   \* withdrawalLimit
  MaxWithdrawals     \* bound: submissions

VARIABLES
  funds,         \* balance at the service
  payouts,       \* the service's withdrawals: which form, and how much
  pageBalance, pageList,   \* balance, withdrawals
  withdrawal,    \* the form: amount, whether an account is chosen, where handleSubmit is
  formNo,        \* for the properties: number of the filled form
  submissions,
  mishaps        \* for the properties: a fetch failed, an answer was lost or refused

withdrawalVars == <<funds, payouts, pageBalance, pageList, withdrawal, formNo, submissions, mishaps>>

Amounts == 0..(Funds + 1)
BlankForm == [amount |-> 0, account |-> FALSE, pc |-> "idle"]

Init ==
  /\ funds = Funds
  /\ payouts = {}
  /\ pageBalance = 0
  /\ pageList = {}
  /\ withdrawal = [BlankForm EXCEPT !.pc = "loading"]
  /\ formNo = 0
  /\ submissions = 0
  /\ mishaps = {}

(* Typing while a withdrawal is sent is left out.  A form that failed may   *)
(* be sent again as it is, or be changed first.                             *)
FillForm(a, account) ==
  /\ withdrawal.pc = "idle"
  /\ withdrawal' = [withdrawal EXCEPT !.amount = a, !.account = account]
  /\ formNo' = submissions + 1
  /\ UNCHANGED <<funds, payouts, pageBalance, pageList, submissions, mishaps>>

(* The button is disabled while a form is sent; the checks alert and stop.  *)
HandleSubmit ==
  /\ withdrawal.pc = "idle" /\ submissions < MaxWithdrawals
  /\ withdrawal.amount > 0
  /\ withdrawal.amount <= pageBalance
  /\ withdrawal.amount <= WithdrawalLimit
  /\ withdrawal.account
  /\ withdrawal' = [withdrawal EXCEPT !.pc = "sent"]
  /\ submissions' = submissions + 1
  /\ UNCHANGED <<funds, payouts, pageBalance, pageList, formNo, mishaps>>

(* External: /api/withdrawals. *)
Pay ==
  /\ withdrawal.pc = "sent"
  /\ payouts' = payouts \cup {<<formNo, submissions, withdrawal.amount>>}
  /\ funds' = funds - withdrawal.amount
  /\ withdrawal' = [withdrawal EXCEPT !.pc = "paid"]
  /\ UNCHANGED <<pageBalance, pageList, formNo, submissions, mishaps>>

(* Refused, or the answer is lost: the form is kept. *)
HandleWithdrawalThrows ==
  /\ withdrawal.pc \in {"sent", "paid"}
  /\ withdrawal' = [withdrawal EXCEPT !.pc = "idle"]
  /\ mishaps' = mishaps \cup {IF withdrawal.pc = "paid" THEN "lost" ELSE "refused"}
  /\ UNCHANGED <<funds, payouts, pageBalance, pageList, formNo, submissions>>

(* Slip: the balance is fetched when the page is opened only. *)
FetchData_Once ==
  /\ withdrawal.pc \in {"loading", "paid"}
  /\ \E balance, list \in BOOLEAN :
       /\ pageBalance' = IF balance /\ withdrawal.pc = "loading" THEN funds ELSE pageBalance
       /\ pageList' = IF list THEN payouts ELSE pageList
       /\ mishaps' = IF balance /\ list THEN mishaps ELSE mishaps \cup {"stale"}
  /\ withdrawal' = BlankForm
  /\ UNCHANGED <<funds, payouts, formNo, submissions>>

(* Slip: the form is not emptied. *)
FetchData_KeepForm ==
  /\ withdrawal.pc \in {"loading", "paid"}
  /\ \E balance, list \in BOOLEAN :
       /\ pageBalance' = IF balance THEN funds ELSE pageBalance
       /\ pageList' = IF list THEN payouts ELSE pageList
       /\ mishaps' = IF balance /\ list THEN mishaps ELSE mishaps \cup {"stale"}
  /\ withdrawal' = [withdrawal EXCEPT !.pc = "idle"]
  /\ UNCHANGED <<funds, payouts, formNo, submissions>>

(* Either answer may be an error, or both be dropped when one throws; the   *)
(* caller is not told, and the form is emptied.                             *)
FetchData ==
  /\ withdrawal.pc \in {"loading", "paid"}
  /\ \E balance, list \in BOOLEAN :
       /\ pageBalance' = IF balance THEN funds ELSE pageBalance
       /\ pageList' = IF list THEN payouts ELSE pageList
       /\ mishaps' = IF balance /\ list THEN mishaps ELSE mishaps \cup {"stale"}
  /\ withdrawal' = BlankForm
  /\ UNCHANGED <<funds, payouts, formNo, submissions>>

Next ==
  \/ \E a \in Amounts \ {0}, account \in BOOLEAN : FillForm(a, account)
  \/ HandleSubmit \/ Pay \/ HandleWithdrawalThrows \/ FetchData

-----------------------------------------------------------------------------
(* The form is well formed and the page lists what was paid. *)
TypeOK ==
  /\ withdrawal.amount \in Amounts
  /\ withdrawal.pc \in {"loading", "idle", "sent", "paid"}
  /\ pageList \subseteq payouts

(* The page never asks for more than the merchant has, whatever the service *)
(* would pay, unless a fetch failed or an answer was lost.                  *)
NoOverdraft == mishaps \cap {"stale", "lost"} = {} => funds >= 0

(* A form is paid twice only when the answer to it was lost: one at a time  *)
(* is sent, and the form is kept exactly when it failed.                    *)
PaidOncePerForm ==
  "lost" \notin mishaps =>
    \A p, r \in payouts : p[1] = r[1] => p = r
=============================================================================
