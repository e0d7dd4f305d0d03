------------------------------ MODULE Notices -------------------------------
(***************************************************************************)
(* Notifications: a row in the user's list and, for some, a push to the    *)
(* devices he has registered.  The row comes first; the devices are looked *)
(* up afterwards and Firebase may refuse any of them.  A broadcast reads   *)
(* the accounts it is meant for and inserts their rows in one statement.   *)
(* Accounts are deleted and devices change hands meanwhile.                *)
(***************************************************************************)
EXTENDS Requests

CONSTANTS
    Messages,   \* notifications that are sent
    Phones      \* device tokens

ASSUME NoticesAssumption == \A s \in SUBSET Users : s # None

VARIABLES
    accounts,   \* users with an account
    phoneOf,    \* the user each device token belongs to, None without a row
    listed,     \* Notification rows: <<message, user>>
    is_read,       \* those of them that are read
    pushed,     \* history: <<message, user, device>> accepted by Firebase
    meant       \* history: the users each message was meant for, None before it was sent

NoticesVars == <<accounts, phoneOf, listed, is_read, pushed, meant>>

NoticesInit(registered) ==
    /\ accounts = registered
    /\ phoneOf = [d \in Phones |-> None]
    /\ listed = {} /\ is_read = {} /\ pushed = {}
    /\ meant = [n \in Messages |-> None]

-----------------------------------------------------------------------------
\* A bug: who has a device gets the push only.
ListsWithoutPhone(n, u) == IF \E d \in Phones : phoneOf[d] = u THEN {} ELSE {<<n, u>>}
Lists(n, u) == {<<n, u>>}

(* create_notification; notify_user goes on with the push.                 *)
Notified(w, n, u, push) ==
    /\ Free(w) /\ meant[n] = None /\ u \in accounts
    /\ listed' = listed \cup Lists(n, u)
    /\ meant' = [meant EXCEPT ![n] = {u}]
    /\ IF push THEN Starts(w, [op |-> "tokens", message |-> n, user |-> u]) ELSE UNCHANGED work
    /\ UNCHANGED <<accounts, phoneOf, is_read, pushed>>

PhonesFound(w) ==
    LET found == {d \in Phones : phoneOf[d] = work[w].user} IN
    /\ Doing(w, "tokens")
    /\ IF found = {} THEN Ends(w)
       ELSE Starts(w, [op |-> "push", message |-> work[w].message, user |-> work[w].user, phones |-> found])
    /\ UNCHANGED NoticesVars

(* send_each_for_multicast: Firebase takes some of them; an exception is   *)
(* logged and the row stays.                                               *)
Pushes(w, taken) ==
    LET j == work[w] IN
    /\ Doing(w, "push") /\ Ends(w)
    /\ taken \subseteq j.phones
    /\ pushed' = pushed \cup {<<j.message, j.user, d>> : d \in taken}
    /\ UNCHANGED <<accounts, phoneOf, listed, is_read, meant>>

(* AdminSendNotificationView to an audience: an account that is gone makes *)
(* the insertion fail for all of them.                                     *)
BroadcastReads(w, n, audience) ==
    /\ Free(w) /\ meant[n] = None /\ audience \subseteq accounts
    /\ Starts(w, [op |-> "broadcast", message |-> n, audience |-> audience])
    /\ UNCHANGED NoticesVars

BroadcastCommits(w) ==
    LET j == work[w] IN
    /\ Doing(w, "broadcast") /\ Ends(w)
    /\ meant[j.message] = None
    /\ IF j.audience \subseteq accounts
       THEN /\ listed' = listed \cup UNION {Lists(j.message, u) : u \in j.audience}
            /\ meant' = [meant EXCEPT ![j.message] = j.audience]
       ELSE UNCHANGED <<listed, meant>>
    /\ UNCHANGED <<accounts, phoneOf, is_read, pushed>>

-----------------------------------------------------------------------------
(* The token goes to whoever registers it last.                            *)
PhoneRegistered(d, u) ==
    /\ u \in accounts
    /\ phoneOf' = [phoneOf EXCEPT ![d] = u]
    /\ UNCHANGED <<work, accounts, listed, is_read, pushed, meant>>

PhoneUnregistered(d, u) ==
    /\ u \in accounts /\ phoneOf[d] = u
    /\ phoneOf' = [phoneOf EXCEPT ![d] = None]
    /\ UNCHANGED <<work, accounts, listed, is_read, pushed, meant>>

(* mark_read loads the row and saves it if it was not read; read_all is    *)
(* one statement.                                                          *)
ReadLoads(w, n, u) ==
    /\ Free(w) /\ <<n, u>> \in listed \ is_read
    /\ Starts(w, [op |-> "read", row |-> <<n, u>>])
    /\ UNCHANGED NoticesVars

ReadSaves(w) ==
    /\ Doing(w, "read") /\ Ends(w)
    /\ is_read' = is_read \cup ({work[w].row} \cap listed)
    /\ UNCHANGED <<accounts, phoneOf, listed, pushed, meant>>

ReadAll(u) ==
    /\ u \in accounts
    /\ is_read' = is_read \cup {r \in listed : r[2] = u}
    /\ UNCHANGED <<work, accounts, phoneOf, listed, pushed, meant>>

(* Delete2AccountView, DeleteAccountView: rows and tokens go along.        *)
AccountDeleted(u) ==
    /\ u \in accounts
    /\ accounts' = accounts \ {u}
    /\ phoneOf' = [d \in Phones |-> IF phoneOf[d] = u THEN None ELSE phoneOf[d]]
    /\ listed' = {r \in listed : r[2] # u}
    /\ is_read' = {r \in is_read : r[2] # u}
    /\ UNCHANGED <<work, pushed, meant>>

-----------------------------------------------------------------------------
NoticesNext ==
    \/ \E w \in Workers, n \in Messages, u \in Users :
          (\E push \in BOOLEAN : Notified(w, n, u, push)) \/ ReadLoads(w, n, u)
    \/ \E w \in Workers, taken \in SUBSET Phones : Pushes(w, taken)
    \/ \E w \in Workers, n \in Messages, audience \in SUBSET Users : BroadcastReads(w, n, audience)
    \/ \E w \in Workers : PhonesFound(w) \/ BroadcastCommits(w) \/ ReadSaves(w)
    \/ \E w \in Workers : Dies(w) /\ UNCHANGED NoticesVars
    \/ \E d \in Phones, u \in Users : PhoneRegistered(d, u) \/ PhoneUnregistered(d, u)
    \/ \E u \in Users : ReadAll(u) \/ AccountDeleted(u)

-----------------------------------------------------------------------------
NoticesType ==
    /\ accounts \subseteq Users /\ phoneOf \in [Phones -> accounts \cup {None}]
    /\ listed \subseteq Messages \X accounts /\ is_read \subseteq listed
    /\ \A n \in Messages : meant[n] = None \/ meant[n] \subseteq Users

(* The list is the source of truth: however broadcasts, pushes, device     *)
(* changes and deleted accounts overlap, a message that was sent is in the *)
(* list of exactly those it was meant for who still have an account, and   *)
(* nothing else was ever pushed                                            *)
(* (notifications/services.py:notify_user, admin_api/views.py).            *)
ListedAsMeant ==
    /\ \A n \in Messages, u \in accounts :
          <<n, u>> \in listed <=> meant[n] # None /\ u \in meant[n]
    /\ \A p \in pushed : meant[p[1]] # None /\ p[2] \in meant[p[1]]
=============================================================================
