------------------------------ MODULE KeyPage ------------------------------
(***************************************************************************)
(* The dashboard's page of API keys.  A handler that is answered writes the *)
(* list it was made with, less or plus a key: what came in between is lost. *)
(* The service behind /api/api-keys is not in the repository.               *)
(***************************************************************************)
EXTENDS Integers

CONSTANTS
  ApiKeys,         \* bound: keys there may be
  KeyRequests,     \* bound: requests under way at once
  MaxKeyClicks     \* bound: what the user does

VARIABLES
  live,        \* the service's keys
  everLive,    \* keys that were issued once
  keyList,     \* apiKeys
  keyLoading,  \* loading
  keyForm,     \* the dialog: open, whether it has a name, its permissions
  keyRequests, \* create and revoke requests under way, with the list of their closure
  keyClicks,
  keyCrossed   \* for the properties: two requests overlapped, one failed

keyVars == <<live, everLive, keyList, keyLoading, keyForm, keyRequests, keyClicks, keyCrossed>>

NoRequest == [pc |-> "none"]
EmptyForm == [open |-> FALSE, named |-> FALSE, permissions |-> {"read"}]

Init ==
  /\ live \in SUBSET ApiKeys
  /\ everLive = live
  /\ keyList = {}
  /\ keyLoading = TRUE
  /\ keyForm = EmptyForm
  /\ keyRequests = [q \in KeyRequests |-> NoRequest]
  /\ keyClicks = 0
  /\ keyCrossed = {}

KeyClick == keyClicks < MaxKeyClicks /\ keyClicks' = keyClicks + 1
KeyRequest(q, what) ==
  /\ keyRequests[q] = NoRequest
  /\ keyRequests' = [keyRequests EXCEPT ![q] = what]
  /\ keyCrossed' = keyCrossed \cup
       IF \E p \in KeyRequests : keyRequests[p] # NoRequest THEN {"overlap"} ELSE {}

(* Until it is done there are no buttons; afterwards there are, failed too. *)
FetchApiKeys ==
  /\ keyLoading
  /\ keyLoading' = FALSE
  /\ \/ keyList' = live /\ UNCHANGED keyCrossed
     \/ keyCrossed' = keyCrossed \cup {"failed"} /\ UNCHANGED keyList
  /\ UNCHANGED <<live, everLive, keyForm, keyRequests, keyClicks>>

EditForm ==
  /\ KeyClick
  /\ ~keyLoading
  /\ \/ keyForm' = [keyForm EXCEPT !.open = ~@]
     \/ keyForm.open /\ keyForm' = [keyForm EXCEPT !.named = ~@]
     \/ /\ keyForm.open
        /\ \E p \in {"read", "write"} :
             keyForm' = [keyForm EXCEPT !.permissions =
                           IF p \in @ THEN @ \ {p} ELSE @ \cup {p}]
  /\ UNCHANGED <<live, everLive, keyList, keyLoading, keyRequests, keyCrossed>>

(* The button is not disabled meanwhile, and a key may have no permission.  *)
HandleCreateKey(q) ==
  /\ KeyClick
  /\ keyForm.open /\ keyForm.named
  /\ KeyRequest(q, [pc |-> "create", list |-> keyList])
  /\ UNCHANGED <<live, everLive, keyList, keyLoading, keyForm>>

HandleRevokeKey(q, k) ==
  /\ KeyClick
  /\ k \in keyList
  /\ KeyRequest(q, [pc |-> "revoke", key |-> k, list |-> keyList])
  /\ UNCHANGED <<live, everLive, keyList, keyLoading, keyForm>>

(* A key that is gone may be refused or granted again. *)
ServeKey(q) ==
  /\ \/ /\ keyRequests[q].pc = "create"
        /\ \E k \in ApiKeys \ everLive :
             /\ live' = live \cup {k} /\ everLive' = everLive \cup {k}
             /\ keyRequests' = [keyRequests EXCEPT ![q] = [pc |-> "created", key |-> k, list |-> @.list]]
     \/ /\ keyRequests[q].pc = "revoke"
        /\ live' = live \ {keyRequests[q].key} /\ UNCHANGED everLive
        /\ keyRequests' = [keyRequests EXCEPT ![q].pc = "revoked"]
  /\ UNCHANGED <<keyList, keyLoading, keyForm, keyClicks, keyCrossed>>

(* Slip: the handler is the first render's, whose list is empty. *)
KeyAnswered_Alone(q) ==
  /\ \/ /\ keyRequests[q].pc = "created"
        /\ keyList' = {keyRequests[q].key}
        /\ keyForm' = EmptyForm
     \/ /\ keyRequests[q].pc = "revoked"
        /\ keyList' = keyRequests[q].list \ {keyRequests[q].key}
        /\ UNCHANGED keyForm
  /\ keyRequests' = [keyRequests EXCEPT ![q] = NoRequest]
  /\ UNCHANGED <<live, everLive, keyLoading, keyClicks, keyCrossed>>

(* The new key closes and empties the form, whatever is in it by now.       *)
KeyAnswered(q) ==
  /\ \/ /\ keyRequests[q].pc = "created"
        /\ keyList' = keyRequests[q].list \cup {keyRequests[q].key}
        /\ keyForm' = EmptyForm
     \/ /\ keyRequests[q].pc = "revoked"
        /\ keyList' = keyRequests[q].list \ {keyRequests[q].key}
        /\ UNCHANGED keyForm
  /\ keyRequests' = [keyRequests EXCEPT ![q] = NoRequest]
  /\ UNCHANGED <<live, everLive, keyLoading, keyClicks, keyCrossed>>

(* Refused, or the answer is lost. *)
KeyFails(q) ==
  /\ keyRequests[q] # NoRequest
  /\ keyRequests' = [keyRequests EXCEPT ![q] = NoRequest]
  /\ keyCrossed' = keyCrossed \cup {"failed"}
  /\ UNCHANGED <<live, everLive, keyList, keyLoading, keyForm, keyClicks>>

Next ==
  \/ FetchApiKeys \/ EditForm
  \/ \E q \in KeyRequests :
       \/ HandleCreateKey(q) \/ ServeKey(q) \/ KeyAnswered(q) \/ KeyFails(q)
       \/ \E k \in ApiKeys : HandleRevokeKey(q, k)

-----------------------------------------------------------------------------
(* The page knows only keys that were issued, its form has permissions. *)
TypeOK ==
  /\ live \subseteq everLive /\ keyList \subseteq everLive /\ everLive \subseteq ApiKeys
  /\ keyForm.permissions \subseteq {"read", "write"} /\ keyForm.named \in BOOLEAN
  /\ \A q \in KeyRequests : keyRequests[q].pc \in {"none", "create", "created", "revoke", "revoked"}

(* When no request is under way the page lists the service's keys, unless   *)
(* two requests overlapped or one failed.                                   *)
ListIsLive ==
  ~keyLoading /\ keyCrossed = {} /\ (\A q \in KeyRequests : keyRequests[q] = NoRequest) =>
    keyList = live
=============================================================================
