------------------------------ MODULE LivePage ------------------------------
(***************************************************************************)
(* The page of one payment, the browser's one PaymentWebSocket behind it,   *)
(* and the gateway that keeps who watches which payment.  Connections drop, *)
(* come back under another id, and the gateway notices later than the       *)
(* browser; what a page fetches arrives when it does.                       *)
(***************************************************************************)
EXTENDS Integers, Sequences, FiniteSets, SequencesExt

CONSTANTS
  LivePayments,    \* bound: payments
  LiveFetches,     \* bound: fetches of a status under way
  MaxVisits,       \* bound: pages opened
  MaxConnections,  \* bound: connections made
  MaxRefreshes     \* bound: status fetches

VARIABLES
  visit,           \* the page that is open: number, payment, opened while connected
  livePage,            \* what it shows: status, link, error
  liveFetches,     \* fetches under way
  sockets,         \* sockets the browser made; this.socket is the last
  watchedPayments, \* the browser's watchedPayments
  callbacks,       \* the page whose callbacks are installed
  wire,            \* per connection: messages on their way to the gateway
  clientWatchers,  \* the gateway's map: payments of each connection, of those online
  paymentWatchers, \* the gateway's other map: connections of each payment
  paymentStatus,   \* what the server answers of each payment
  liveNotes        \* for the properties: fetches made, connections made, fetches overlapped, a status went back

browserVars == <<visit, livePage, sockets, watchedPayments, callbacks>>
gatewayVars == <<clientWatchers, paymentWatchers>>
liveVars == <<browserVars, gatewayVars, liveFetches, wire, paymentStatus, liveNotes>>

Nowhere == [n |-> 0, payment |-> "none", late |-> FALSE]
Blank == [status |-> "none", link |-> "disconnected", error |-> FALSE]
NoFetch == [pc |-> "none"]
Conns == 1..MaxConnections

Init ==
  /\ visit = Nowhere
  /\ livePage = Blank
  /\ liveFetches = [f \in LiveFetches |-> NoFetch]
  /\ sockets = << >>
  /\ watchedPayments = {}
  /\ callbacks = Nowhere
  /\ wire = [c \in Conns |-> << >>]
  /\ clientWatchers = [c \in Conns |-> {}]
  /\ paymentWatchers = [p \in LivePayments |-> {}]
  /\ paymentStatus = [p \in LivePayments |-> "PENDING"]
  /\ liveNotes = [visits |-> 0, fetches |-> 0, made |-> 0, raced |-> FALSE, back |-> FALSE]

(* this.socket?.connected, and its connection. *)
Connected == sockets # << >> /\ Last(sockets).state = "up"
Emitted(messages) == IF Connected THEN [wire EXCEPT ![Last(sockets).conn] = @ \o messages] ELSE wire

(* A setter of a page that is gone does nothing. *)
Mounted(v) == v.n = visit.n /\ visit.payment # "none"
ShowLink(to) == IF Mounted(callbacks) THEN [livePage EXCEPT !.link = to] ELSE livePage

-----------------------------------------------------------------------------
BeginFetch(f, v) ==
  /\ liveFetches[f] = NoFetch /\ liveNotes.fetches < MaxRefreshes
  /\ liveFetches' = [liveFetches EXCEPT ![f] = [pc |-> "asked", visit |-> v]]

(* leavePayment of the page that closes, with its effect's cleanup. *)
Leave(p) ==
  /\ wire' = IF p = "none" THEN wire ELSE Emitted(<<[kind |-> "leave", payment |-> p]>>)
  /\ watchedPayments' = watchedPayments \ {p}

(* The page opens: the one before it leaves, the status is fetched, and     *)
(* connect() installs the callbacks and opens a socket, unless one is up.   *)
OpenPage(p, f) ==
  /\ liveNotes.visits < MaxVisits
  /\ LET next == [n |-> liveNotes.visits + 1, payment |-> p, late |-> Connected] IN
       /\ Leave(visit.payment)
       /\ visit' = next
       /\ BeginFetch(f, next.n)
       /\ IF Connected
            THEN UNCHANGED <<callbacks, sockets>>
            ELSE /\ callbacks' = next
                 /\ sockets' = Append(sockets, [state |-> "opening", conn |-> 0])
  /\ livePage' = Blank
  /\ liveNotes' = [liveNotes EXCEPT !.visits = @ + 1, !.fetches = @ + 1]
  /\ UNCHANGED <<gatewayVars, paymentStatus>>

ClosePage ==
  /\ visit.payment # "none"
  /\ Leave(visit.payment)
  /\ visit' = [visit EXCEPT !.payment = "none"]
  /\ livePage' = Blank
  /\ UNCHANGED <<gatewayVars, callbacks, sockets, liveFetches, paymentStatus, liveNotes>>

(* The Refresh button of a page that shows a payment and no error. *)
Refresh(f) ==
  /\ visit.payment # "none" /\ livePage.status # "none" /\ ~livePage.error
  /\ BeginFetch(f, visit.n)
  /\ liveNotes' = [liveNotes EXCEPT !.fetches = @ + 1,
                     !.raced = @ \/ \E g \in LiveFetches : liveFetches[g] # NoFetch /\ liveFetches[g].visit = visit.n]
  /\ UNCHANGED <<browserVars, gatewayVars, wire, paymentStatus>>

(* The payment-status route answers with what the payment is then; the page *)
(* that asked must still be open, which its state setter checks.            *)
ServeStatus(f, answer) ==
  /\ liveFetches[f].pc = "asked"
  /\ \/ answer = "error"
     \/ visit.payment # "none" /\ liveFetches[f].visit = visit.n /\ answer = paymentStatus[visit.payment]
  /\ liveFetches' = [liveFetches EXCEPT ![f] = [pc |-> "answered", visit |-> @.visit, answer |-> answer]]
  /\ UNCHANGED <<browserVars, gatewayVars, wire, paymentStatus, liveNotes>>

(* Slip: the answer shows on whatever page is open. *)
FetchStatus_AnyPage(f) ==
  /\ liveFetches[f].pc = "answered"
  /\ LET fetch == liveFetches[f] IN
       /\ livePage' = IF fetch.answer = "error" THEN [livePage EXCEPT !.error = TRUE]
                                           ELSE [livePage EXCEPT !.status = fetch.answer]
       /\ liveNotes' = [liveNotes EXCEPT !.back = @ \/ (fetch.answer = "PENDING" /\ livePage.status = "PAID")]
  /\ liveFetches' = [liveFetches EXCEPT ![f] = NoFetch]
  /\ UNCHANGED <<visit, sockets, watchedPayments, callbacks, gatewayVars, wire, paymentStatus>>

(* An error is never taken back. *)
FetchStatus(f) ==
  /\ liveFetches[f].pc = "answered"
  /\ LET fetch == liveFetches[f]  here == Mounted([n |-> fetch.visit]) IN
       /\ livePage' = CASE ~here -> livePage
                    [] here /\ fetch.answer = "error" -> [livePage EXCEPT !.error = TRUE]
                    [] OTHER -> [livePage EXCEPT !.status = fetch.answer]
       /\ liveNotes' = [liveNotes EXCEPT !.back =
                          @ \/ (here /\ fetch.answer = "PENDING" /\ livePage.status = "PAID")]
  /\ liveFetches' = [liveFetches EXCEPT ![f] = NoFetch]
  /\ UNCHANGED <<visit, sockets, watchedPayments, callbacks, gatewayVars, wire, paymentStatus>>

-----------------------------------------------------------------------------
Joins(ps) == [i \in 1..Cardinality(ps) |-> [kind |-> "join", payment |-> SetToSeq(ps)[i]]]

(* Slip: a payment that is joined is not kept for the next connection. *)
Joined_NotKept(p) == watchedPayments

(* joinPayment keeps the payment, connected or not. *)
Joined(p) == watchedPayments \cup {p}

(* Slip: only what was watched before the connection is joined. *)
Rejoins_WatchedBefore == Joins(watchedPayments)

(* What 'connect' joins: the installed page's payment, and all watched ones *)
(* again.  A payment joined twice in a row is joined once here.             *)
Rejoins == Joins(watchedPayments \cup {callbacks.payment})

(* 'connect' of any socket, an older one too: the installed page's callback *)
(* shows the link, and the payments are joined on this.socket if that is up. *)
Connects(k) ==
  /\ sockets[k].state \in {"opening", "down"} /\ liveNotes.made < MaxConnections
  /\ LET conn == liveNotes.made + 1
         up == [sockets EXCEPT ![k] = [state |-> "up", conn |-> conn]]
         to == IF Last(up).state = "up" THEN Last(up).conn ELSE 0 IN
       /\ sockets' = up
       /\ livePage' = ShowLink("connected")
       /\ watchedPayments' = Joined(callbacks.payment)
       /\ wire' = IF to = 0 THEN wire ELSE [wire EXCEPT ![to] = @ \o Rejoins]
       /\ liveNotes' = [liveNotes EXCEPT !.made = conn]
  /\ UNCHANGED <<visit, callbacks, gatewayVars, liveFetches, paymentStatus>>

(* 'disconnect': what the gateway has not received yet may be lost. *)
Disconnects(k) ==
  /\ sockets[k].state = "up"
  /\ sockets' = [sockets EXCEPT ![k].state = "down"]
  /\ livePage' = ShowLink("disconnected")
  /\ LET conn == sockets[k].conn IN
       \E n \in 0..Len(wire[conn]) : wire' = [wire EXCEPT ![conn] = SubSeq(@, 1, n)]
  /\ UNCHANGED <<visit, watchedPayments, callbacks, gatewayVars, liveFetches, paymentStatus, liveNotes>>

(* 'connect_error', after the last of five attempts for good. *)
ConnectError(k) ==
  /\ sockets[k].state \in {"opening", "down"}
  /\ livePage' = ShowLink("disconnected")
  /\ \E state \in {sockets[k].state, "failed"} : sockets' = [sockets EXCEPT ![k].state = state]
  /\ UNCHANGED <<visit, watchedPayments, callbacks, gatewayVars, liveFetches, wire, paymentStatus, liveNotes>>

-----------------------------------------------------------------------------
AddPaymentWatcher(c, p) ==
  /\ clientWatchers' = [clientWatchers EXCEPT ![c] = @ \cup {p}]
  /\ paymentWatchers' = [paymentWatchers EXCEPT ![p] = @ \cup {c}]

RemovePaymentWatcher(c, p) ==
  /\ clientWatchers' = [clientWatchers EXCEPT ![c] = @ \ {p}]
  /\ paymentWatchers' = [paymentWatchers EXCEPT ![p] = @ \ {c}]

HandleMessage(c) ==
  /\ wire[c] # << >>
  /\ LET message == Head(wire[c]) IN
       IF message.kind = "join" THEN AddPaymentWatcher(c, message.payment)
                                ELSE RemovePaymentWatcher(c, message.payment)
  /\ wire' = [wire EXCEPT ![c] = Tail(@)]
  /\ UNCHANGED <<browserVars, liveFetches, paymentStatus, liveNotes>>

(* Slip: the connection is forgotten, not who watches by it. *)
RemoveClient_Half(c) ==
  /\ clientWatchers' = [clientWatchers EXCEPT ![c] = {}]
  /\ UNCHANGED paymentWatchers

RemoveClient(c) ==
  /\ clientWatchers' = [clientWatchers EXCEPT ![c] = {}]
  /\ paymentWatchers' = [p \in LivePayments |->
                           IF p \in clientWatchers[c] THEN paymentWatchers[p] \ {c} ELSE paymentWatchers[p]]

(* The gateway notices that a connection is gone. *)
HandleDisconnect(c) ==
  /\ \E k \in DOMAIN sockets : sockets[k].conn = c /\ sockets[k].state # "up"
  /\ wire[c] = << >> /\ clientWatchers[c] # {}
  /\ RemoveClient(c)
  /\ UNCHANGED <<browserVars, wire, liveFetches, paymentStatus, liveNotes>>

(* PAID stands for PAID and FAILED. *)
PaymentMoves(p) ==
  /\ paymentStatus[p] = "PENDING"
  /\ paymentStatus' = [paymentStatus EXCEPT ![p] = "PAID"]
  /\ UNCHANGED <<browserVars, gatewayVars, liveFetches, wire, liveNotes>>

Next ==
  \/ ClosePage
  \/ \E p \in LivePayments : PaymentMoves(p) \/ \E f \in LiveFetches : OpenPage(p, f)
  \/ \E f \in LiveFetches :
       Refresh(f) \/ FetchStatus(f) \/ \E a \in {"PENDING", "PAID", "error"} : ServeStatus(f, a)
  \/ \E k \in DOMAIN sockets : Connects(k) \/ Disconnects(k) \/ ConnectError(k)
  \/ \E c \in Conns : HandleMessage(c) \/ HandleDisconnect(c)

-----------------------------------------------------------------------------
(* The page, its sockets and the gateway's two maps are well formed. *)
TypeOK ==
  /\ livePage \in [status : {"none", "PENDING", "PAID"}, link : {"connected", "disconnected"}, error : BOOLEAN]
  /\ watchedPayments \subseteq LivePayments
  /\ \A c \in Conns : clientWatchers[c] \subseteq LivePayments
  /\ \A k \in DOMAIN sockets : sockets[k].conn \in 0..liveNotes.made

(* The gateway's two maps say the same, whatever joins, leaves and drops    *)
(* come in between.                                                         *)
WatchersAgree ==
  \A c \in Conns, p \in LivePayments : p \in clientWatchers[c] <=> c \in paymentWatchers[p]

(* Once what the browser sent has arrived, the gateway watches for its      *)
(* socket what the browser believes it watches.                             *)
GatewayFollowsBrowser ==
  Connected /\ wire[Last(sockets).conn] = << >> =>
    clientWatchers[Last(sockets).conn] = watchedPayments

(* An open page whose socket is up is watched once its messages arrive,     *)
(* unless it was opened while the socket was up: connect() then returns at  *)
(* once, and nothing ever joins its payment.                                *)
WatchedUnlessOpenedLive ==
  Connected /\ wire[Last(sockets).conn] = << >> /\ visit.payment # "none" /\ ~visit.late =>
    visit.payment \in clientWatchers[Last(sockets).conn]

(* A page does not go back from a payment's outcome to PENDING unless two   *)
(* of its fetches were under way at once.                                   *)
OutcomeStays == liveNotes.back => liveNotes.raced
=============================================================================
