------------------------------- MODULE Support ------------------------------
(***************************************************************************)
(* The support center: tickets of drivers, businesses and customers.  A    *)
(* task assigns a new ticket to some agent whatever became of it since;    *)
(* agents claim tickets by hand, owners and assignees close and reopen     *)
(* them.  Each saves columns of a ticket it loaded earlier.  Tickets that  *)
(* an agent or the system files are absent: their code raises before it    *)
(* writes (a serializer without its fields, an argument with another name).*)
(***************************************************************************)
EXTENDS Requests

CONSTANTS
    Tickets,    \* ids of tickets
    Agents,     \* administrators
    Supporters  \* those with the support role, whom the task assigns

(* "resolved" is one of the choices, but nothing saves it.                 *)
TicketStatus == {"open", "in_progress", "closed"}
TicketRows ==
    [owner : Users, status : TicketStatus, agent : Agents \cup {None}, closedAt : BOOLEAN]

ASSUME SupportAssumption == Supporters \subseteq Agents /\ None \notin Agents \cup TicketRows

VARIABLES
    ticket,     \* SupportTicket rows, None before they are created
    queued,     \* tickets whose auto_assign_ticket was queued, delivered at least once
    messages,   \* messages[t]: who has written messages of the ticket
    overtaken,       \* history: tickets that were assigned when they had been closed
    orphan      \* history: tickets nobody was assigned to when they were reopened

SupportVars == <<ticket, queued, messages, overtaken, orphan>>

Senders == {"owner", "support", "system"}
Filed(t) == ticket[t] # None
Writes(t, sender) == messages' = [messages EXCEPT ![t] = @ \cup {sender}]

SupportInit ==
    /\ ticket = [t \in Tickets |-> None]
    /\ queued = {} /\ messages = [t \in Tickets |-> {}]
    /\ overtaken = {} /\ orphan = {}

-----------------------------------------------------------------------------
(* BaseSupportTicketViewSet.create: the row, its first message, the task.  *)
TicketFiled(w, t, u) ==
    /\ Free(w) /\ ~Filed(t)
    /\ ticket' = [ticket EXCEPT ![t] =
                    [owner |-> u, status |-> "open", agent |-> None, closedAt |-> FALSE]]
    /\ Starts(w, [op |-> "file", ticket |-> t])
    /\ UNCHANGED <<queued, messages, overtaken, orphan>>

FirstMessage(w) ==
    LET t == work[w].ticket IN
    /\ Doing(w, "file")
    /\ Writes(t, "owner")
    /\ queued' = queued \cup {t}
    /\ Ends(w)
    /\ UNCHANGED <<ticket, overtaken, orphan>>

MessageSent(t, sender) ==
    /\ Filed(t) /\ sender # "system"
    /\ Writes(t, sender)
    /\ UNCHANGED <<work, ticket, queued, overtaken, orphan>>

(* task.py:assign and the agents' assign save agent and status alike.      *)
Assigns(t, a) ==
    /\ ticket' = [ticket EXCEPT ![t].agent = a, ![t].status = "in_progress"]
    /\ overtaken' = IF ticket[t].closedAt THEN overtaken \cup {t} ELSE overtaken

AutoAssign(t, a) ==
    /\ t \in queued /\ a \in Supporters
    /\ Assigns(t, a)
    /\ UNCHANGED <<work, queued, messages, orphan>>

ClaimReads(w, t, a) ==
    /\ Free(w)
    /\ Filed(t) /\ ticket[t].agent = None
    /\ Starts(w, [op |-> "claim", ticket |-> t, agent |-> a])
    /\ UNCHANGED SupportVars

ClaimSaves(w) ==
    /\ Doing(w, "claim")
    /\ Assigns(work[w].ticket, work[w].agent)
    /\ Ends(w)
    /\ UNCHANGED <<queued, messages, orphan>>

-----------------------------------------------------------------------------
\* A bug: when it was closed is not saved.
ClosingUndated(row) == [row EXCEPT !.status = "closed"]
Closing(row) == [row EXCEPT !.status = "closed", !.closedAt = TRUE]

(* close, by the owner or by the agent the ticket was assigned to.         *)
CloseReads(w, t, by) ==
    /\ Free(w) /\ Filed(t)
    /\ by \in {ticket[t].owner, ticket[t].agent} \ {None}
    /\ ticket[t].status # "closed"
    /\ Starts(w, [op |-> "close", ticket |-> t])
    /\ UNCHANGED SupportVars

CloseSaves(w) ==
    LET t == work[w].ticket IN
    /\ Doing(w, "close")
    /\ ticket' = [ticket EXCEPT ![t] = Closing(@)]
    /\ overtaken' = overtaken \ {t}
    /\ Ends(w)
    /\ UNCHANGED <<queued, messages, orphan>>

(* reopen: status and closed_at, then a message of the system.             *)
ReopenReads(w, t, by) ==
    /\ Free(w) /\ Filed(t)
    /\ ticket[t].status = "closed"
    /\ by \in {ticket[t].owner, ticket[t].agent} \ {None}
    /\ Starts(w, [op |-> "reopen", ticket |-> t])
    /\ UNCHANGED SupportVars

ReopenSaves(w) ==
    LET t == work[w].ticket IN
    /\ Doing(w, "reopen")
    /\ ticket' = [ticket EXCEPT ![t].status = "in_progress", ![t].closedAt = FALSE]
    /\ overtaken' = overtaken \ {t}
    /\ orphan' = IF ticket[t].agent = None THEN orphan \cup {t} ELSE orphan
    /\ Starts(w, [op |-> "reopened", ticket |-> t])
    /\ UNCHANGED <<queued, messages>>

ReopenTells(w) ==
    /\ Doing(w, "reopened")
    /\ Writes(work[w].ticket, "system")
    /\ Ends(w)
    /\ UNCHANGED <<ticket, queued, overtaken, orphan>>

-----------------------------------------------------------------------------
SupportNext ==
    \/ \E w \in Workers, t \in Tickets, u \in Users : TicketFiled(w, t, u)
    \/ \E t \in Tickets, sender \in Senders : MessageSent(t, sender)
    \/ \E t \in Tickets, a \in Agents : AutoAssign(t, a)
    \/ \E w \in Workers, t \in Tickets, a \in Agents : ClaimReads(w, t, a)
    \/ \E w \in Workers, t \in Tickets, by \in Users \cup Agents : CloseReads(w, t, by) \/ ReopenReads(w, t, by)
    \/ \E w \in Workers : FirstMessage(w) \/ ClaimSaves(w) \/ CloseSaves(w) \/ ReopenSaves(w) \/ ReopenTells(w)
    \/ \E w \in Workers : Dies(w) /\ UNCHANGED SupportVars

-----------------------------------------------------------------------------
SupportType ==
    /\ \A t \in Tickets : Filed(t) => ticket[t] \in TicketRows
    /\ messages \in [Tickets -> SUBSET Senders]
    /\ queued \cup overtaken \cup orphan \subseteq {t \in Tickets : Filed(t)}

(* However assignments, closings and reopenings overlap, a closed ticket   *)
(* says when it was closed, and only an assignment that came after the     *)
(* closing leaves that on a ticket in progress; a ticket in progress has   *)
(* an agent unless nobody had been assigned when it was reopened; an open  *)
(* ticket has none (support_center/views.py, support_center/task.py).      *)
TicketInHand ==
    \A t \in Tickets : Filed(t) =>
        /\ ticket[t].status = "closed" => ticket[t].closedAt
        /\ ticket[t].closedAt => ticket[t].status = "closed" \/ t \in overtaken
        /\ ticket[t].status = "in_progress" => ticket[t].agent # None \/ t \in orphan
        /\ ticket[t].status = "open" => ticket[t].agent = None
=============================================================================
