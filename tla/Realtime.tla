------------------------------ MODULE Realtime ------------------------------
(***************************************************************************)
(* WebSockets.  A change of an order is saved and then announced to the    *)
(* groups it concerns, one after the other; messages of an order's chat    *)
(* likewise.  A connection joins its groups, then reads a snapshot, and    *)
(* only then handles what its channel received meanwhile.  A driver's      *)
(* location connection keeps two flags that say whether he is online, in   *)
(* two tables, of which the matching reads the location's.                 *)
(***************************************************************************)
EXTENDS Requests, Sequences, FiniteSetsExt

CONSTANTS
    Sockets,        \* connections; each is opened and closed once
    MaxChanges      \* bound: changes of the order, and messages of its chat

ASSUME RealtimeAssumption == MaxChanges \in Nat

Kinds == {"order", "chat", "branch", "driver", "admin"}   \* consumers, each with its group
Topics == {"order", "chat"}                               \* what is saved and announced
TopicOf(group) == IF group = "chat" THEN "chat" ELSE "order"

(* The groups the notify_ functions address, in their order; most changes  *)
(* an administrator's page makes are announced to dashboards only.         *)
Audiences ==
    {<<"admin">>, <<"order">>, <<"order", "branch">>, <<"order", "branch", "driver">>,
     <<"order", "admin", "driver">>, <<"order", "branch", "admin", "driver">>}

VARIABLES
    kind,       \* the consumer of each connection
    changes,    \* changes of each topic saved so far; a change is known by its number
    members,    \* the channel layer's groups
    stage,      \* "new", "joining", "joined", "open" or "closed"
    inbox,      \* what a channel has received and its consumer not handled
    seen,       \* the newest change a connection was told of
    announced,  \* history: the newest change sent to each group
    track,      \* a driver's location connections
    online,     \* DriverProfile.is_online
    stamped,    \* whether DriverProfile.last_location_update is set, and old
    location    \* his DriverLocation: [online, fresh], None before the first report

SocketVars == <<kind, changes, members, stage, inbox, seen, announced>>
PresenceVars == <<track, online, stamped, location>>
RealtimeVars == <<SocketVars, PresenceVars>>

RealtimeInit ==
    /\ kind \in [Sockets -> Kinds]
    /\ changes = [t \in Topics |-> 0] /\ announced = [g \in Kinds |-> 0]
    /\ members = [g \in Kinds |-> {}]
    /\ stage = [s \in Sockets |-> "new"]
    /\ inbox = [s \in Sockets |-> <<>>] /\ seen = [s \in Sockets |-> 0]
    /\ track = [s \in Sockets |-> "new"]
    /\ online = FALSE /\ stamped = "never" /\ location = None

-----------------------------------------------------------------------------
(* A handler or task that saves a change, with the groups to be told.      *)
Saves(w, topic, audience) ==
    /\ Free(w)
    /\ changes[topic] < MaxChanges
    /\ changes' = [changes EXCEPT ![topic] = @ + 1]
    /\ Starts(w, [op |-> "announce", change |-> changes'[topic], left |-> audience])
    /\ UNCHANGED <<kind, members, stage, inbox, seen, announced, PresenceVars>>

OrderChanges(w, audience) == Saves(w, "order", audience)

(* ChatConsumer.receive_func: save_message, then the group.                *)
ChatSends(w, s) ==
    /\ kind[s] = "chat" /\ stage[s] = "open"
    /\ Saves(w, "chat", <<"chat">>)

(* The emergency actions of a dashboard save the order and the driver, and *)
(* tell those who watch the order, but neither branch nor driver.          *)
Overrides(w, s) ==
    /\ kind[s] = "admin" /\ stage[s] = "open"
    /\ Saves(w, "order", <<"order">>)
DriverForced(w, s) == Overrides(w, s)
StatusForced(w, s) == Overrides(w, s)

(* The same actions by the administration's pages, which need no socket,   *)
(* are announced to the dashboards as well.                                *)
OverridesByPage(w) == Saves(w, "order", <<"order", "admin">>)
DriverForcedByPage(w) == OverridesByPage(w)
StatusForcedByPage(w) == OverridesByPage(w)

(* One group_send: to the channels that are members now.                   *)
Announces(w) ==
    LET j == work[w]
        group == Head(j.left)
        heard == {s \in members[group] : stage[s] # "closed"} IN
    /\ Doing(w, "announce")
    /\ inbox' = [s \in Sockets |-> IF s \in heard THEN Append(inbox[s], j.change) ELSE inbox[s]]
    /\ announced' = [announced EXCEPT ![group] = Max({@, j.change})]
    /\ IF Len(j.left) = 1 THEN Ends(w)
       ELSE Starts(w, [op |-> "announce", change |-> j.change, left |-> Tail(j.left)])
    /\ UNCHANGED <<kind, changes, members, stage, seen, PresenceVars>>

-----------------------------------------------------------------------------
Joined(s, group) == members' = [members EXCEPT ![group] = @ \cup {s}]

(* connect_func, before it has sent anything: a user without the profile,  *)
(* or who has nothing to do with the order, is turned away; others join    *)
(* the consumer's own group.                                               *)
Refused(s) ==
    /\ stage[s] = "new"
    /\ stage' = [stage EXCEPT ![s] = "closed"]
    /\ UNCHANGED <<work, kind, changes, members, inbox, seen, announced, PresenceVars>>

LetIn(s, consumer, next) ==
    /\ stage[s] = "new" /\ kind[s] = consumer
    /\ Joined(s, consumer)
    /\ stage' = [stage EXCEPT ![s] = next]
    /\ UNCHANGED <<work, kind, changes, inbox, seen, announced, PresenceVars>>

OrderConnects(s) == LetIn(s, "order", "joined")
ChatConnects(s) == LetIn(s, "chat", "joined")
DriverConnects(s) == LetIn(s, "driver", "joined")
BranchConnects(s) == LetIn(s, "branch", "joining")
AdminConnects(s) == LetIn(s, "admin", "joining")
Connects(s) ==
    \/ Refused(s) \/ OrderConnects(s) \/ ChatConnects(s) \/ DriverConnects(s)
    \/ BranchConnects(s) \/ AdminConnects(s)

(* join_active_order_groups of branches and dashboards.                    *)
JoinsOrders(s, active) ==
    /\ stage[s] = "joining"
    /\ IF active THEN Joined(s, "order") ELSE UNCHANGED members
    /\ stage' = [stage EXCEPT ![s] = "joined"]
    /\ UNCHANGED <<work, kind, changes, inbox, seen, announced, PresenceVars>>

\* A bug: the connection opens with what its groups send from then on.
SnapshotSkipped(s) ==
    /\ stage[s] = "joined"
    /\ stage' = [stage EXCEPT ![s] = "open"]
    /\ UNCHANGED <<work, kind, changes, members, inbox, seen, announced, PresenceVars>>

(* The snapshot at the end of connect_func.                                *)
Snapshot(s) ==
    /\ stage[s] = "joined"
    /\ seen' = [seen EXCEPT ![s] = changes[TopicOf(kind[s])]]
    /\ stage' = [stage EXCEPT ![s] = "open"]
    /\ UNCHANGED <<work, kind, changes, members, inbox, announced, PresenceVars>>

(* receive_func answers a request with a newer snapshot, all read by one   *)
(* statement or, for a dashboard's points of failure, by one of several    *)
(* that each are about other orders.  A chat has no requests.              *)
Reads(s, consumer) ==
    /\ kind[s] = consumer /\ stage[s] = "open"
    /\ seen' = [seen EXCEPT ![s] = changes[TopicOf(consumer)]]
    /\ UNCHANGED <<work, kind, changes, members, stage, inbox, announced, PresenceVars>>

StatusRequested(s) == Reads(s, "order")
OrdersRequested(s) == Reads(s, "branch")
AssignmentsRequested(s) == Reads(s, "driver")
DashboardRequested(s) == Reads(s, "admin")
Requested(s) ==
    \/ StatusRequested(s) \/ OrdersRequested(s) \/ AssignmentsRequested(s)
    \/ DashboardRequested(s)

(* order_update, branch_notification, driver_notification, chat_message:   *)
(* the event carries the status the order had when it was announced.       *)
Handles(s) ==
    /\ stage[s] = "open" /\ inbox[s] # <<>>
    /\ seen' = [seen EXCEPT ![s] = Max({@, Head(inbox[s])})]
    /\ inbox' = [inbox EXCEPT ![s] = Tail(@)]
    /\ UNCHANGED <<work, kind, changes, members, stage, announced, PresenceVars>>

(* disconnect_func: a branch does not leave the groups of its orders.      *)
Leaves(s) ==
    members' = [g \in Kinds |-> IF g = kind[s] \/ kind[s] = "admin" THEN members[g] \ {s}
                                ELSE members[g]]

Disconnects(s) ==
    /\ stage[s] = "open"
    /\ stage' = [stage EXCEPT ![s] = "closed"]
    /\ inbox' = [inbox EXCEPT ![s] = <<>>]
    /\ Leaves(s)
    /\ UNCHANGED <<work, kind, changes, seen, announced, PresenceVars>>

(* _heartbeat_loop closes a connection whose client has not answered pings. *)
HeartbeatCloses(s) == Disconnects(s)

-----------------------------------------------------------------------------
(* DriverLocationConsumer: set_driver_status is two statements, at the end *)
(* of connect_func and of disconnect_func.                                 *)
Moves(s, from, to) ==
    /\ track[s] = from
    /\ track' = [track EXCEPT ![s] = to]
    /\ UNCHANGED <<work, SocketVars>>

\* A bug: the location's flag is left as it is.
LocatedNever(value) == UNCHANGED location
Located(value) == location' = IF location = None THEN None ELSE [location EXCEPT !.online = value]

TrackerOpens(s) ==
    /\ Moves(s, "new", "opening")
    /\ online' = TRUE
    /\ UNCHANGED <<stamped, location>>

TrackerOpened(s) ==
    /\ Moves(s, "opening", "open")
    /\ Located(TRUE)
    /\ UNCHANGED <<online, stamped>>

TrackerCloses(s) ==
    /\ Moves(s, "open", "closing")
    /\ online' = FALSE
    /\ UNCHANGED <<stamped, location>>

TrackerClosed(s) ==
    /\ Moves(s, "closing", "closed")
    /\ Located(FALSE)
    /\ UNCHANGED <<online, stamped>>

(* update_driver_location.                                                 *)
Reports(s) ==
    /\ Moves(s, "open", "open")
    /\ location' = [online |-> TRUE, fresh |-> TRUE]
    /\ UNCHANGED <<online, stamped>>

(* The server process dies; nobody runs disconnect_func.                   *)
TrackerDies(s) ==
    /\ track[s] \in {"opening", "open", "closing"}
    /\ track' = [track EXCEPT ![s] = "died"]
    /\ UNCHANGED <<work, SocketVars, online, stamped, location>>

(* DRIVER_LOCATION_STALE_THRESHOLD passes without a report, or an update.  *)
LocationAges ==
    /\ location # None /\ location.fresh
    /\ location' = [location EXCEPT !.fresh = FALSE]
    /\ UNCHANGED <<work, SocketVars, track, online, stamped>>

StampAges ==
    /\ stamped = "recent"
    /\ stamped' = "old"
    /\ UNCHANGED <<work, SocketVars, track, online, location>>

(* cleanup_stale_driver_locations: the two tables in two statements, the   *)
(* second by a time only DriverAvailabilityView.put ever sets.             *)
CleansLocations(w) ==
    /\ Free(w)
    /\ location' = IF location # None /\ ~location.fresh THEN [location EXCEPT !.online = FALSE]
                   ELSE location
    /\ Starts(w, [op |-> "clean"])
    /\ UNCHANGED <<SocketVars, track, online, stamped>>

CleansProfiles(w) ==
    /\ Doing(w, "clean")
    /\ online' = (online /\ stamped # "old")
    /\ Ends(w)
    /\ UNCHANGED <<SocketVars, track, stamped, location>>

DriverSwitches(value) ==
    /\ online' = value /\ stamped' = "recent"
    /\ UNCHANGED <<work, SocketVars, track, location>>

-----------------------------------------------------------------------------
WatchingNext(sockets) ==
    \/ \E w \in Workers, audience \in Audiences : OrderChanges(w, audience)
    \/ \E w \in Workers, s \in sockets : ChatSends(w, s) \/ DriverForced(w, s) \/ StatusForced(w, s)
    \/ \E w \in Workers : Announces(w) \/ DriverForcedByPage(w) \/ StatusForcedByPage(w)
    \/ \E s \in sockets : \/ Connects(s) \/ Snapshot(s) \/ Requested(s) \/ Handles(s)
                          \/ Disconnects(s) \/ HeartbeatCloses(s)
    \/ \E s \in sockets, active \in BOOLEAN : JoinsOrders(s, active)
    \/ \E w \in Workers : Dies(w) /\ UNCHANGED RealtimeVars

PresenceNext ==
    \/ \E s \in Sockets : \/ TrackerOpens(s) \/ TrackerOpened(s) \/ TrackerCloses(s)
                          \/ TrackerClosed(s) \/ Reports(s) \/ TrackerDies(s)
    \/ LocationAges \/ StampAges
    \/ \E w \in Workers : CleansLocations(w) \/ CleansProfiles(w)
    \/ \E value \in BOOLEAN : DriverSwitches(value)

-----------------------------------------------------------------------------
RealtimeType ==
    /\ kind \in [Sockets -> Kinds]
    /\ changes \in [Topics -> 0 .. MaxChanges] /\ announced \in [Kinds -> 0 .. MaxChanges]
    /\ members \in [Kinds -> SUBSET Sockets]
    /\ stage \in [Sockets -> {"new", "joining", "joined", "open", "closed"}]
    /\ \A s \in Sockets : \A i \in DOMAIN inbox[s] : inbox[s][i] \in 1 .. MaxChanges
    /\ seen \in [Sockets -> 0 .. MaxChanges]
    /\ track \in [Sockets -> {"new", "opening", "open", "closing", "closed", "died"}]
    /\ online \in BOOLEAN /\ stamped \in {"never", "recent", "old"}
    /\ location # None => location \in [online : BOOLEAN, fresh : BOOLEAN]

(* A connection that has handled all it received knows every change that   *)
(* was ever announced to a group it is in, those announced before or while *)
(* it connected included: groups are joined before the snapshot is read,   *)
(* and a change is saved before it is announced                            *)
(* (common/websockets/consumers, menu/websocket_utils.py).                 *)
NothingMissed ==
    \A s \in Sockets : stage[s] = "open" /\ inbox[s] = <<>> =>
        \A g \in Kinds : s \in members[g] => seen[s] >= announced[g]

(* A driver whose location says he is online, so that orders are matched   *)
(* with him, has a connection, unless one died under him: whatever the     *)
(* other table says, and whichever of two overlapping connections closes   *)
(* first and between whose two statements                                  *)
(* (common/websockets/consumers/driver.py:DriverLocationConsumer).         *)
ReachableIsConnected ==
    location # None /\ location.online =>
        \E s \in Sockets : track[s] \in {"opening", "open", "closing", "died"}
=============================================================================
