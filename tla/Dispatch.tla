------------------------------ MODULE Dispatch ------------------------------
(***************************************************************************)
(* Several paid orders and the drivers they compete for: the branch marks   *)
(* an order made, celery tasks match it with a driver and take it back when *)
(* the driver does not answer, drivers accept, reject and deliver, the      *)
(* branch hands over to them or to the customer, administrators override.   *)
(*                                                                         *)
(* An order is identified with its sale.  A view or task loads its rows     *)
(* first and then saves them one by one, each save a step of its own that   *)
(* does not look at the row again.  Nothing here is in a transaction except *)
(* the completion of the sale.                                              *)
(***************************************************************************)
EXTENDS Sales, FiniteSets

CONSTANTS
  Web,          \* processes that serve requests
  Celery,       \* processes that run tasks
  MaxRetries,   \* searches without a driver before an alert (10 in settings)
  MaxAssigns,   \* bound: assignments of one order
  MaxCrashes,   \* bound: processes that die in the middle of a handler
  Serial,       \* no two handlers ever work on one order at the same time
  Admin         \* administrators assign drivers

Procs == Web \union Celery

ASSUME DispatchAssumption ==
  /\ None \notin SaleIds \union Procs
  /\ {MaxRetries, MaxAssigns, MaxCrashes} \subseteq Nat
  /\ {Serial, Admin} \subseteq BOOLEAN

VARIABLES
  order,      \* status and driver of each Order row
  driver,     \* is_available and current_order of each DriverProfile row
  searches,   \* find_and_assign_driver messages in the broker
  timers,     \* check_driver_acceptance_timeout messages
  alerted,    \* orders whose search was given up
  proc,       \* what each process is executing
  assigns,    \* assignments made of each order
  crashes

queues == <<searches, timers, alerted>>
counters == <<assigns, crashes>>
vars == <<order, driver, sales, queues, proc, counters>>

Active == {"driver_assigned", "picked_up", "on_the_way"}
OrderStatus == {"preparing", "ready", "delivered"} \union Active
\* find_and_assign_driver(order_id, excluded_driver_ids, retry_count)
Search == [o: SaleIds, not: Drivers \union {None}, tries: 0..MaxRetries]

Steps == {"idle", "made", "made_find", "find_order", "find_driver", "find_timer",
          "accept", "accept_sale", "release", "release_driver", "release_find",
          "pickup", "deliver", "deliver_driver", "collect", "credit",
          "admin_driver"}
Job(at, o, d) == [at |-> at, o |-> o, d |-> d]
NoJob == Job("idle", None, None)
Jobs == [at: Steps, o: SaleIds \union {None}, d: Drivers \union {None}]
Idle(p) == proc[p].at = "idle"
Goes(p, at, o, d) == proc' = [proc EXCEPT ![p] = Job(at, o, d)]
Moves(p, at) == proc' = [proc EXCEPT ![p].at = at]
Ends(p) == proc' = [proc EXCEPT ![p] = NoJob]

Untouched(o) == \A p \in Procs : proc[p].o # o
Acts(p, o) == Idle(p) /\ (Serial => Untouched(o))

Free == [available |-> TRUE, current |-> None]
Busy(o) == [available |-> FALSE, current |-> o]
\* find_nearest_available_drivers; who is near and online is not modelled.
Candidates(not) ==
  {d \in Drivers \ {not} : driver[d] = Free}

Enqueue(o, not, tries) ==
  searches' = [searches EXCEPT ![[o |-> o, not |-> not, tries |-> tries]] = @ + 1]
SetStatus(o, status) == order' = [order EXCEPT ![o].status = status]
SetDriver(d, profile) == driver' = [driver EXCEPT ![d] = profile]

Init ==
  /\ order = [o \in SaleIds |-> [status |-> "preparing", driver |-> None]]
  /\ driver = [d \in Drivers |-> Free]
  /\ SalesInit([o \in SaleIds |-> [NoSale EXCEPT !.status = "in_escrow"]])
  /\ searches = [m \in Search |-> 0]
  /\ timers = [o \in SaleIds |-> [d \in Drivers |-> 0]]
  /\ alerted = {}
  /\ proc = [p \in Procs |-> NoJob]
  /\ assigns = [o \in SaleIds |-> 0]
  /\ crashes = 0

-----------------------------------------------------------------------------
(* ResturantOrderView: "made", "pickup" and "complete". *)

Made(p, o) ==
  /\ Acts(p, o)
  /\ order[o].status = "preparing"
  /\ Goes(p, "made", o, None)
  /\ UNCHANGED <<order, driver, sales, queues, counters>>

\* A bug: the status the stage map has between pending and preparing.
MadeSaveConfirmed(p) ==
  /\ proc[p].at = "made"
  /\ SetStatus(proc[p].o, "confirmed")
  /\ Moves(p, "made_find")
  /\ UNCHANGED <<driver, sales, queues, counters>>

MadeSave(p) ==
  /\ proc[p].at = "made"
  /\ SetStatus(proc[p].o, "ready")
  /\ Moves(p, "made_find")
  /\ UNCHANGED <<driver, sales, queues, counters>>

MadeFind(p) ==
  /\ proc[p].at = "made_find"
  /\ Enqueue(proc[p].o, None, 0)
  /\ Ends(p)
  /\ UNCHANGED <<order, driver, sales, timers, alerted, counters>>

\* The driver's code is right: it was minted when the order was accepted.
Pickup(p, o) ==
  /\ Acts(p, o)
  /\ order[o].status = "picked_up"
  /\ Goes(p, "pickup", o, None)
  /\ UNCHANGED <<order, driver, sales, queues, counters>>

PickupSave(p) ==
  /\ proc[p].at = "pickup"
  /\ SetStatus(proc[p].o, "on_the_way")
  /\ Ends(p)
  /\ UNCHANGED <<driver, sales, queues, counters>>

Collect(p, o) ==
  /\ Acts(p, o)
  /\ order[o].status = "ready"
  /\ order[o].driver = None
  /\ Goes(p, "collect", o, None)
  /\ UNCHANGED <<order, driver, sales, queues, counters>>

\* With a driver on the row, the driver is freed and then queueing a ticket
\* raises, as it is given the User itself.
CollectRaises(p, o) ==
  /\ Acts(p, o)
  /\ order[o].status = "ready"
  /\ order[o].driver # None
  /\ SetDriver(order[o].driver, Free)
  /\ UNCHANGED <<order, sales, queues, proc, counters>>

CollectSave(p) ==
  /\ proc[p].at = "collect"
  /\ SetStatus(proc[p].o, "delivered")
  /\ Moves(p, "credit")
  /\ UNCHANGED <<driver, sales, queues, counters>>

Credit(p) ==
  /\ proc[p].at = "credit"
  /\ IF CanComplete(proc[p].o) THEN CompleteService(proc[p].o) ELSE UNCHANGED sales
  /\ Ends(p)
  /\ UNCHANGED <<order, driver, queues, counters>>

-----------------------------------------------------------------------------
(* find_and_assign_driver.  The message is gone once it is taken. *)

Taken(m) == searches' = [searches EXCEPT ![m] = @ - 1]

FindStale(p, m) ==
  /\ Idle(p) /\ searches[m] > 0
  /\ m.tries < MaxRetries
  /\ order[m.o].status # "ready"
  /\ Taken(m)
  /\ UNCHANGED <<order, driver, sales, timers, alerted, proc, counters>>

\* mark_order_failed.
Alert(o) == alerted' = alerted \union {o}

FindGivesUp(p, m) ==
  /\ Idle(p) /\ searches[m] > 0
  /\ m.tries = MaxRetries
  /\ Taken(m)
  /\ Alert(m.o)
  /\ UNCHANGED <<order, driver, sales, timers, proc, counters>>

\* A bug: the search that found nobody is not queued again.
FindForgets(p, m) ==
  /\ Idle(p) /\ searches[m] > 0
  /\ m.tries < MaxRetries
  /\ order[m.o].status = "ready"
  /\ Taken(m)
  /\ UNCHANGED <<order, driver, sales, timers, alerted, proc, counters>>

\* Nobody is free, or near.
FindNobody(p, m) ==
  /\ Idle(p) /\ searches[m] > 0
  /\ m.tries < MaxRetries
  /\ order[m.o].status = "ready"
  /\ searches' = [searches EXCEPT ![m] = @ - 1,
                                  ![[m EXCEPT !.tries = @ + 1]] = @ + 1]
  /\ UNCHANGED <<order, driver, sales, timers, alerted, proc, counters>>

\* A bug: a driver on an order is a candidate as long as he is available.
FindAvailable(p, m, d) ==
  /\ Idle(p) /\ searches[m] > 0
  /\ m.tries < MaxRetries
  /\ order[m.o].status = "ready"
  /\ d # m.not
  /\ Serial => Untouched(m.o)
  /\ Taken(m)
  /\ Goes(p, "find_order", m.o, d)
  /\ UNCHANGED <<order, driver, sales, timers, alerted, counters>>

Find(p, m, d) ==
  /\ Idle(p) /\ searches[m] > 0
  /\ m.tries < MaxRetries
  /\ order[m.o].status = "ready"
  /\ d \in Candidates(m.not)
  /\ Serial => Untouched(m.o)
  /\ Taken(m)
  /\ Goes(p, "find_order", m.o, d)
  /\ UNCHANGED <<order, driver, sales, timers, alerted, counters>>

FindSaveOrder(p) ==
  LET o == proc[p].o IN
  /\ proc[p].at = "find_order"
  /\ assigns[o] < MaxAssigns
  /\ assigns' = [assigns EXCEPT ![o] = @ + 1]
  /\ order' = [order EXCEPT ![o] = [status |-> "driver_assigned", driver |-> proc[p].d]]
  /\ Moves(p, "find_driver")
  /\ UNCHANGED <<driver, sales, queues, crashes>>

FindSaveDriver(p) ==
  /\ proc[p].at = "find_driver"
  /\ SetDriver(proc[p].d, Busy(proc[p].o))
  /\ Moves(p, "find_timer")
  /\ UNCHANGED <<order, sales, queues, counters>>

FindTimer(p) ==
  /\ proc[p].at = "find_timer"
  /\ timers' = [timers EXCEPT ![proc[p].o][proc[p].d] = @ + 1]
  /\ Ends(p)
  /\ UNCHANGED <<order, driver, sales, searches, alerted, counters>>

-----------------------------------------------------------------------------
(* DriverOrderView: a driver acts on an order whose row names him. *)

Accept(p, o) ==
  /\ Acts(p, o)
  /\ order[o].driver # None
  /\ order[o].status = "driver_assigned"
  /\ Goes(p, "accept", o, order[o].driver)
  /\ UNCHANGED <<order, driver, sales, queues, counters>>

AcceptSave(p) ==
  /\ proc[p].at = "accept"
  /\ SetStatus(proc[p].o, "picked_up")
  /\ Moves(p, "accept_sale")
  /\ UNCHANGED <<driver, sales, queues, counters>>

\* A bug: the sale keeps the driver it was created with.
AcceptSaleUnassigned(p) ==
  /\ proc[p].at = "accept_sale"
  /\ Ends(p)
  /\ UNCHANGED <<order, driver, sales, queues, counters>>

AcceptSale(p) ==
  /\ proc[p].at = "accept_sale"
  /\ AssignSaleDriver(proc[p].o, proc[p].d)
  /\ Ends(p)
  /\ UNCHANGED <<order, driver, queues, counters>>

Reject(p, o) ==
  /\ Acts(p, o)
  /\ order[o].driver # None
  /\ order[o].status = "driver_assigned"
  /\ Goes(p, "release", o, order[o].driver)
  /\ UNCHANGED <<order, driver, sales, queues, counters>>

\* check_driver_acceptance_timeout; a timer knows only its order and driver.
Timeout(p, o, d) ==
  /\ Idle(p)
  /\ timers[o][d] > 0
  /\ Serial => Untouched(o)
  /\ timers' = [timers EXCEPT ![o][d] = @ - 1]
  /\ IF order[o] = [status |-> "driver_assigned", driver |-> d]
     THEN Goes(p, "release", o, d)
     ELSE UNCHANGED proc
  /\ UNCHANGED <<order, driver, sales, searches, alerted, counters>>

\* Rejecting and timing out go on in the same way.
Release(p) ==
  /\ proc[p].at = "release"
  /\ order' = [order EXCEPT ![proc[p].o] = [status |-> "ready", driver |-> None]]
  /\ Moves(p, "release_driver")
  /\ UNCHANGED <<driver, sales, queues, counters>>

ReleaseDriver(p) ==
  /\ proc[p].at = "release_driver"
  /\ SetDriver(proc[p].d, Free)
  /\ Moves(p, "release_find")
  /\ UNCHANGED <<order, sales, queues, counters>>

ReleaseFind(p) ==
  /\ proc[p].at = "release_find"
  /\ Enqueue(proc[p].o, proc[p].d, 0)
  /\ Ends(p)
  /\ UNCHANGED <<order, driver, sales, timers, alerted, counters>>

\* "deliver" with the customer's passphrase.
Deliver(p, o) ==
  /\ Acts(p, o)
  /\ order[o].driver # None
  /\ order[o].status = "on_the_way"
  /\ Goes(p, "deliver", o, order[o].driver)
  /\ UNCHANGED <<order, driver, sales, queues, counters>>

DeliverSave(p) ==
  /\ proc[p].at = "deliver"
  /\ SetStatus(proc[p].o, "delivered")
  /\ Moves(p, "deliver_driver")
  /\ UNCHANGED <<driver, sales, queues, counters>>

DeliverDriver(p) ==
  /\ proc[p].at = "deliver_driver"
  /\ SetDriver(proc[p].d, Free)
  /\ Moves(p, "credit")
  /\ UNCHANGED <<order, sales, queues, counters>>

\* A driver switches himself on or off; he loses his place, not his order.
SetAvailable(d) ==
  /\ driver' = [driver EXCEPT ![d].available = ~@]
  /\ UNCHANGED <<order, sales, queues, proc, counters>>

-----------------------------------------------------------------------------
(* Administrators, and failures. *)

\* Whatever the order's status and driver, and whatever the new driver does.
AdminAssign(p, o, d) ==
  /\ Admin
  /\ Acts(p, o)
  /\ assigns[o] < MaxAssigns
  /\ assigns' = [assigns EXCEPT ![o] = @ + 1]
  /\ order' = [order EXCEPT ![o] = [status |-> "driver_assigned", driver |-> d]]
  /\ Goes(p, "admin_driver", o, d)
  /\ UNCHANGED <<driver, sales, queues, crashes>>

AdminDriver(p) ==
  /\ proc[p].at = "admin_driver"
  /\ SetDriver(proc[p].d, Busy(proc[p].o))
  /\ Ends(p)
  /\ UNCHANGED <<order, sales, queues, counters>>

Crash(p) ==
  /\ ~Idle(p)
  /\ crashes < MaxCrashes
  /\ crashes' = crashes + 1
  /\ Ends(p)
  /\ UNCHANGED <<order, driver, sales, queues, assigns>>

BranchNext(p) ==
  \/ \E o \in SaleIds : Made(p, o) \/ Pickup(p, o) \/ Collect(p, o) \/ CollectRaises(p, o)
  \/ MadeSave(p) \/ MadeFind(p) \/ PickupSave(p) \/ CollectSave(p) \/ Credit(p)
DriverNext(p) ==
  \/ \E o \in SaleIds : Accept(p, o) \/ Reject(p, o) \/ Deliver(p, o)
  \/ AcceptSave(p) \/ AcceptSale(p) \/ DeliverSave(p) \/ DeliverDriver(p)
AdminNext(p) ==
  \/ \E o \in SaleIds, d \in Drivers : AdminAssign(p, o, d)
  \/ AdminDriver(p)
TaskNext(p) ==
  \/ \E m \in Search :
       \/ FindStale(p, m) \/ FindGivesUp(p, m) \/ FindNobody(p, m)
       \/ \E d \in Drivers : Find(p, m, d)
  \/ FindSaveOrder(p) \/ FindSaveDriver(p) \/ FindTimer(p)
  \/ \E o \in SaleIds, d \in Drivers : Timeout(p, o, d)
ReleaseNext(p) == Release(p) \/ ReleaseDriver(p) \/ ReleaseFind(p)

Next ==
  \/ \E p \in Web : BranchNext(p) \/ DriverNext(p) \/ AdminNext(p)
  \/ \E p \in Celery : TaskNext(p)
  \/ \E p \in Procs : ReleaseNext(p) \/ Crash(p)
  \/ \E d \in Drivers : SetAvailable(d)

Spec == Init /\ [][Next]_vars

-----------------------------------------------------------------------------
(* Properties. *)

JobOK(job) ==
  /\ job \in Jobs
  /\ job.at # "idle" => job.o \in SaleIds
  /\ job.at \notin {"idle", "made", "made_find", "pickup", "collect", "credit"}
       => job.d \in Drivers

TypeOK ==
  /\ SalesType
  /\ order \in [SaleIds -> [status: OrderStatus, driver: Drivers \union {None}]]
  /\ driver \in [Drivers -> [available: BOOLEAN, current: SaleIds \union {None}]]
  /\ searches \in [Search -> Nat]
  /\ timers \in [SaleIds -> [Drivers -> Nat]]
  /\ alerted \subseteq SaleIds
  /\ assigns \in [SaleIds -> Nat] /\ crashes \in Nat
  /\ proc \in [Procs -> Jobs]
  /\ \A p \in Procs : JobOK(proc[p])

Carries(d) == {o \in SaleIds : order[o].driver = d /\ order[o].status \in Active}

\* An order on its way has a driver: an acceptance and the release of the same
\* driver do not both take effect.
HasDriver == \A o \in SaleIds : order[o].status \in Active => order[o].driver # None

\* The two tables tell one matching.  No driver is on two orders at once,
\* across all the orders that are searching, and no order is on its way
\* without one; whenever nobody is working on either table, a driver's current
\* order is the one he carries, so that he is free exactly when he should be
\* and no rejection or timeout strands him.
MatchingAgrees ==
  /\ \A d \in Drivers : Cardinality(Carries(d)) <= 1
  /\ HasDriver
  /\ (\A p \in Procs : Idle(p)) =>
       \A d \in Drivers, o \in SaleIds : driver[d].current = o <=> o \in Carries(d)

\* The driver who delivered is the one credited, and exactly once.
DelivererIsPaid ==
  \A o \in SaleIds :
    (order[o].status = "delivered" /\ order[o].driver # None /\ Untouched(o)) =>
      sale[o].driver = order[o].driver /\ credits[o]["driver"] = 1

\* The sales of Dispatch are in escrow from the start and none is refunded, so of
\* EscrowPromise there is only the hand-out.
Escrow == INSTANCE EscrowPromise WITH
  Items <- SaleIds, Earners <- Parties, Owner <- "business_owner",
  Blames <- {AtFault(fault) : fault \in Fault},
  Start <- [o \in SaleIds |-> "held"],
  stage <- [o \in SaleIds |-> IF sale[o].status = "completed" THEN "handed_out" ELSE "held"],
  earned <- credits, lost <- reversals

\* Whoever completes the delivery, the branch at the counter or the driver, and
\* however often, each sale is handed out once and as a whole (complete_service).
KeepsEscrow == Escrow!Spec

\* As long as no process died, a ready order is never forgotten: some search
\* for it is queued or running, or an administrator was alerted.
SearchGoesOn ==
  crashes = 0 =>
    \A o \in SaleIds :
      (order[o].status = "ready" /\ Untouched(o)) =>
        \/ o \in alerted
        \/ \E m \in Search : m.o = o /\ searches[m] > 0
=============================================================================
