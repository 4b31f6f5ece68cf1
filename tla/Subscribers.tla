---------------------------- MODULE Subscribers ----------------------------
(***************************************************************************)
(* The event store's subscriptions in one process: appends notify the       *)
(* subscribers of a stream and those of all streams one by one, awaiting     *)
(* each, while others subscribe, replay the past and leave.  One stream, so  *)
(* that versions and positions are the same.                                *)
(***************************************************************************)
EXTENDS Integers, SequencesExt

CONSTANTS
  Followers,    \* bound: the subscribers
  Appends,      \* bound: the calls of appendEvents
  MaxAppended   \* bound: events appended

VARIABLES
  appended,  \* events committed; an event is its version
  lists,     \* this.subscriptions: those of the stream, and of '$all'
  follower,  \* the subscribers
  notice,    \* the calls, each notifying from its own loop
  cut        \* for the properties: lists, and events that did not go round all of them

subscriberVars == <<appended, lists, follower, notice, cut>>

Lists == {"stream", "all"}
NewFollower == [pc |-> "new", on |-> "stream", since |-> 0, past |-> FALSE,
                batch |-> <<>>, got |-> [e \in 1..MaxAppended |-> 0]]
NoNotice == [pc |-> "new", batch |-> {}, records |-> <<>>, on |-> "stream", at |-> 0]

Init ==
  /\ appended = 0
  /\ lists = [k \in Lists |-> <<>>]
  /\ follower = [s \in Followers |-> NewFollower]
  /\ notice = [c \in Appends |-> NoNotice]
  /\ cut = {}

-----------------------------------------------------------------------------
(* Slip: the newest record is told first. *)
Records_Newest(first, last) == [i \in 1..(last - first + 1) |-> last + 1 - i]

Records(first, last) == [i \in 1..(last - first + 1) |-> first - 1 + i]

(* The transaction commits; the records are told after it.                  *)
AppendEvents(c, n) ==
  /\ notice[c].pc = "new"
  /\ appended + n <= MaxAppended
  /\ appended' = appended + n
  /\ notice' = [notice EXCEPT ![c].pc = "tell",
                          ![c].batch = (appended + 1)..(appended + n),
                          ![c].records = Records(appended + 1, appended + n)]
  /\ UNCHANGED <<lists, follower, cut>>

(* The insert or the commit took effect and its answer is lost: the append  *)
(* throws ahead of its loop, and nobody is told.                            *)
AnswerLost(c, n) ==
  LET batch == (appended + 1)..(appended + n) IN
  /\ notice[c].pc = "new"
  /\ appended + n <= MaxAppended
  /\ appended' = appended + n
  /\ notice' = [notice EXCEPT ![c].pc = "thrown", ![c].batch = batch]
  /\ cut' = cut \cup (Lists \X batch)
  /\ UNCHANGED <<lists, follower>>

Told(s, version) == follower' = [follower EXCEPT ![s].got[version] = @ + 1]

(* One turn of notifySubscribers or notifyGlobalSubscribers: the loop goes  *)
(* by the index in the list as it is now.  A handler's error is caught.     *)
Notify(c) ==
  /\ notice[c].pc = "tell"
  /\ notice[c].at < Len(lists[notice[c].on])
  /\ Told(lists[notice[c].on][notice[c].at + 1], Head(notice[c].records))
  /\ notice' = [notice EXCEPT ![c].at = @ + 1]
  /\ UNCHANGED <<appended, lists, cut>>

NextRound(nt) ==
  IF nt.on = "stream" THEN [nt EXCEPT !.on = "all", !.at = 0]
  ELSE [nt EXCEPT !.on = "stream", !.at = 0, !.records = Tail(nt.records),
                  !.pc = IF Len(nt.records) = 1 THEN "done" ELSE "tell"]

(* The end of a list: on to all streams, then to the next record.           *)
ListDone(c) ==
  /\ notice[c].pc = "tell"
  /\ notice[c].at >= Len(lists[notice[c].on])
  /\ notice' = [notice EXCEPT ![c] = NextRound(@)]
  /\ UNCHANGED <<appended, lists, follower, cut>>

-----------------------------------------------------------------------------
(* subscribeToStream and subscribeToAll: registered at once, then the past  *)
(* is read and handled, if it was asked for.                                *)
Subscribe(s, on, past) ==
  /\ follower[s].pc = "new"
  /\ lists' = [lists EXCEPT ![on] = Append(@, s)]
  /\ follower' = [follower EXCEPT ![s] =
       [NewFollower EXCEPT !.pc = IF past THEN "read" ELSE "in", !.on = on,
                           !.past = past, !.since = appended]]
  /\ UNCHANGED <<appended, notice, cut>>

ReadPast(s) ==
  /\ follower[s].pc = "read"
  /\ follower' = [follower EXCEPT ![s].pc = "replay", ![s].batch = Records(1, appended)]
  /\ UNCHANGED <<appended, lists, notice, cut>>

HandlePast(s) ==
  /\ follower[s].pc = "replay"
  /\ IF follower[s].batch = <<>> THEN follower' = [follower EXCEPT ![s].pc = "in"]
     ELSE follower' = [follower EXCEPT
            ![s].got[Head(follower[s].batch)] = @ + 1, ![s].batch = Tail(@)]
  /\ UNCHANGED <<appended, lists, notice, cut>>

(* Slip: the past is read once more. *)
HandlerThrows_Again(s) ==
  /\ follower[s].pc = "replay" /\ follower[s].batch # <<>>
  /\ follower' = [follower EXCEPT ![s].pc = "read", ![s].batch = <<>>]
  /\ UNCHANGED <<appended, lists, notice, cut>>

(* An error here rejects subscribe; the subscription stays in the list, and *)
(* nobody holds its unsubscribe.                                            *)
HandlerThrows(s) ==
  /\ follower[s].pc = "replay" /\ follower[s].batch # <<>>
  /\ follower' = [follower EXCEPT ![s].pc = "stuck", ![s].batch = <<>>]
  /\ UNCHANGED <<appended, lists, notice, cut>>

(* Slip: splice is given no count. *)
Leave_Rest(on, s) == lists' = [lists EXCEPT ![on] = SubSeq(@, 1, SelectInSeq(@, LAMBDA f : f = s) - 1)]

Leave(on, s) == lists' = [lists EXCEPT ![on] = RemoveFirst(@, s)]

Unsubscribe(s) ==
  /\ follower[s].pc = "in"
  /\ Leave(follower[s].on, s)
  /\ follower' = [follower EXCEPT ![s] = [NewFollower EXCEPT !.pc = "out"]]
  /\ cut' = cut \cup {<<follower[s].on, Head(notice[c].records)>> :
       c \in {d \in Appends : notice[d].pc = "tell" /\ notice[d].on = follower[s].on}}
  /\ UNCHANGED <<appended, notice>>

Next ==
  \/ \E c \in Appends :
       \/ Notify(c) \/ ListDone(c)
       \/ \E n \in 1..2 : AppendEvents(c, n) \/ AnswerLost(c, n)
  \/ \E s \in Followers :
       \/ \E on \in Lists, past \in BOOLEAN : Subscribe(s, on, past)
       \/ ReadPast(s) \/ HandlePast(s) \/ HandlerThrows(s) \/ Unsubscribe(s)

-----------------------------------------------------------------------------
(* The lists hold every subscriber once, while it is subscribed.            *)
TypeOK ==
  /\ appended \in 0..MaxAppended
  /\ \A k \in Lists : IsInjective(lists[k]) /\ ToSet(lists[k]) \subseteq Followers
  /\ \A s \in Followers :
       /\ follower[s].pc \in {"new", "read", "replay", "in", "stuck", "out"}
       /\ \A e \in 1..MaxAppended : follower[s].got[e] > 0 => e <= appended
  /\ \A c \in Appends : notice[c].pc = "tell" => notice[c].records # <<>>

BeingTold == UNION {ToSet(notice[c].records) : c \in Appends}
First(s) == IF follower[s].past THEN 1 ELSE follower[s].since + 1

(* A subscriber that stays gets every event of the past it asked for, those *)
(* whose append threw among them, and every event since, unless another     *)
(* left the list while that event went round or its append threw.           *)
StayersMissNothing ==
  \A s \in Followers : follower[s].pc = "in" =>
    \A e \in (First(s)..appended) \ BeingTold :
      \/ follower[s].got[e] > 0
      \/ e > follower[s].since /\ <<follower[s].on, e>> \in cut

(* An event comes twice only to a subscriber that replayed the past, once   *)
(* live and once from the past, and never three times.                      *)
TwiceOnlyFromThePast ==
  \A s \in Followers, e \in 1..MaxAppended :
    follower[s].got[e] <= IF follower[s].past THEN 2 ELSE 1

(* Of the events of one append, a subscriber without a past gets none       *)
(* before an earlier one, except as above.                                  *)
OneAppendInOrder ==
  \A c \in Appends, s \in Followers :
    follower[s].pc = "in" /\ ~follower[s].past =>
      \A f, e \in {e \in notice[c].batch : e > follower[s].since} :
        f < e /\ follower[s].got[e] > 0 =>
          follower[s].got[f] > 0 \/ <<follower[s].on, f>> \in cut
=============================================================================
