---------------------------- MODULE CheckoutPage ----------------------------
(***************************************************************************)
(* The checkout page: a form that makes a payment, and the last payment it  *)
(* made below it.  The amount can be typed while an answer is awaited.      *)
(***************************************************************************)
EXTENDS Integers, Sequences

CONSTANTS
  OrderAmounts,   \* amounts that can be typed; "" and "0" are not valid
  MaxTyped,       \* bound: amounts typed
  MaxSubmits      \* bound: requests sent

VARIABLES
  orderForm,      \* the page: amount, amountError, error, loading
  orderShown,     \* response: the payment shown as created, 0 for none
  orderRequest,   \* the request under way
  ordersMade,     \* payments made for this page, in order
  orderNotes      \* for the properties: amounts typed, requests sent, answers lost

orderVars == <<orderForm, orderShown, orderRequest, ordersMade, orderNotes>>

NoRequest == [pc |-> "none"]
Untyped == ""
Valid(amount) == amount \notin {Untyped, "0"}

Init ==
  /\ orderForm = [amount |-> Untyped, amountError |-> FALSE, error |-> FALSE, loading |-> FALSE]
  /\ orderShown = 0
  /\ orderRequest = NoRequest
  /\ ordersMade = << >>
  /\ orderNotes = [typed |-> 0, sent |-> 0, lost |-> FALSE]

HandleAmountChange(amount) ==
  /\ orderNotes.typed < MaxTyped /\ amount # orderForm.amount
  /\ orderForm' = [orderForm EXCEPT !.amount = amount,
                     !.amountError = IF amount = Untyped THEN @ ELSE ~Valid(amount)]
  /\ orderNotes' = [orderNotes EXCEPT !.typed = @ + (IF Valid(amount) THEN 1 ELSE 0)]
  /\ UNCHANGED <<orderShown, orderRequest, ordersMade>>

(* createPayment: the old error goes even when the form is not valid.       *)
CreatePayment ==
  /\ ~orderForm.loading
  /\ LET valid == Valid(orderForm.amount) IN
       /\ orderForm' = [orderForm EXCEPT !.error = FALSE, !.amountError = ~valid, !.loading = valid]
       /\ IF valid
            THEN /\ orderNotes.sent < MaxSubmits
                 /\ orderRequest' = [pc |-> "sent", amount |-> orderForm.amount]
                 /\ orderNotes' = [orderNotes EXCEPT !.sent = @ + 1]
            ELSE UNCHANGED <<orderRequest, orderNotes>>
  /\ UNCHANGED <<orderShown, ordersMade>>

(* The create-payment route makes the payment, or refuses. *)
ServeCreate ==
  /\ orderRequest.pc = "sent"
  /\ \/ /\ ordersMade' = Append(ordersMade, orderRequest.amount)
        /\ orderRequest' = [pc |-> "made", payment |-> Len(ordersMade) + 1]
     \/ /\ orderRequest' = [pc |-> "refused"]
        /\ UNCHANGED ordersMade
  /\ UNCHANGED <<orderForm, orderShown, orderNotes>>

(* Slip: the form keeps its amount. *)
Created_KeepAmount ==
  /\ orderRequest.pc = "made"
  /\ orderShown' = orderRequest.payment
  /\ orderForm' = [orderForm EXCEPT !.loading = FALSE]
  /\ orderRequest' = NoRequest
  /\ UNCHANGED <<ordersMade, orderNotes>>

(* The answer clears the amount, one typed meanwhile too. *)
Created ==
  /\ orderRequest.pc = "made"
  /\ orderShown' = orderRequest.payment
  /\ orderForm' = [orderForm EXCEPT !.loading = FALSE, !.amount = Untyped]
  /\ orderRequest' = NoRequest
  /\ UNCHANGED <<ordersMade, orderNotes>>

(* A refusal, or an answer that is lost after the payment was made: the     *)
(* amount stays, and so does the payment shown before.                      *)
CreateFails ==
  /\ orderRequest # NoRequest
  /\ orderForm' = [orderForm EXCEPT !.loading = FALSE, !.error = TRUE]
  /\ orderRequest' = NoRequest
  /\ orderNotes' = [orderNotes EXCEPT !.lost = @ \/ orderRequest.pc = "made"]
  /\ UNCHANGED <<orderShown, ordersMade>>

Next ==
  \/ \E amount \in OrderAmounts : HandleAmountChange(amount)
  \/ CreatePayment \/ ServeCreate \/ Created \/ CreateFails

-----------------------------------------------------------------------------
(* The page shows a payment that was made. *)
TypeOK ==
  /\ orderForm \in [amount : OrderAmounts \cup {Untyped}, amountError : BOOLEAN, error : BOOLEAN, loading : BOOLEAN]
  /\ orderShown \in 0..Len(ordersMade)

(* An amount that is typed makes one payment at most, however often the     *)
(* button is pressed, unless the answer to its payment was lost.            *)
OnePaymentPerAmount == orderNotes.lost \/ Len(ordersMade) <= orderNotes.typed
=============================================================================
