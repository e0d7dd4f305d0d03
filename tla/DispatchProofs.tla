--------------------------- MODULE DispatchProofs ---------------------------
(***************************************************************************)
(* Theorems about Dispatch for every number of orders, drivers, web and     *)
(* Celery processes.  Whatever overlaps, the tables keep their types, a     *)
(* sale is credited once and, as long as no process dies, a ready order is  *)
(* looked for.  When no two handlers work on one order, no administrator    *)
(* assigns and no process dies, the driver who delivered is the one paid.   *)
(***************************************************************************)
EXTENDS Dispatch, FiniteSetTheorems, TLAPS

-----------------------------------------------------------------------------
(* Types.                                                                   *)

Driverless == {"idle", "made", "made_find", "pickup", "collect", "credit"}

ProcType ==
  /\ proc \in [Procs -> Jobs]
  /\ \A p \in Procs : JobOK(proc[p])

TableType ==
  /\ SalesType
  /\ order \in [SaleIds -> [status: OrderStatus, driver: Drivers \union {None}]]
  /\ driver \in [Drivers -> [available: BOOLEAN, current: SaleIds \union {None}]]
  /\ searches \in [Search -> Nat]
  /\ timers \in [SaleIds -> [Drivers -> Nat]]
  /\ alerted \subseteq SaleIds
  /\ assigns \in [SaleIds -> Nat] /\ crashes \in Nat

LEMMA GoesThere ==
  ASSUME ProcType, NEW p \in Procs, NEW at \in Steps \ {"idle"}, NEW o \in SaleIds,
         NEW d \in Drivers \union {None}, at \notin Driverless => d \in Drivers,
         Goes(p, at, o, d)
  PROVE  /\ ProcType'
         /\ proc'[p] = Job(at, o, d)
         /\ \A q \in Procs : q # p => proc'[q] = proc[q]
  BY DEF ProcType, Goes, Job, Jobs, JobOK, Driverless

LEMMA MovesThere ==
  ASSUME ProcType, NEW p \in Procs, NEW at \in Steps \ {"idle"}, proc[p].at # "idle",
         at \notin Driverless => proc[p].at \notin Driverless,
         Moves(p, at)
  PROVE  /\ ProcType'
         /\ proc'[p] = Job(at, proc[p].o, proc[p].d)
         /\ \A q \in Procs : q # p => proc'[q] = proc[q]
<1>1. proc[p] \in Jobs /\ JobOK(proc[p])
  BY DEF ProcType
<1>2. proc'[p] = Job(at, proc[p].o, proc[p].d) /\ \A q \in Procs : q # p => proc'[q] = proc[q]
  BY <1>1 DEF ProcType, Moves, Job, Jobs
<1>3. Job(at, proc[p].o, proc[p].d) \in Jobs /\ JobOK(Job(at, proc[p].o, proc[p].d))
  BY <1>1 DEF JobOK, Job, Jobs, Driverless
<1> QED BY <1>1, <1>2, <1>3 DEF ProcType, Moves, Jobs, Job

LEMMA EndsThere ==
  ASSUME ProcType, NEW p \in Procs, Ends(p)
  PROVE  /\ ProcType'
         /\ proc'[p] = NoJob
         /\ \A q \in Procs : q # p => proc'[q] = proc[q]
  BY DEF ProcType, Ends, NoJob, Job, Jobs, JobOK, Steps

\* What a busy process works on.
LEMMA WorksOn ==
  ASSUME ProcType, NEW p \in Procs
  PROVE  /\ ~Idle(p) => proc[p].o \in SaleIds
         /\ proc[p].at \notin Driverless => proc[p].d \in Drivers
         /\ proc[p].d \in Drivers \union {None}
  BY DEF ProcType, JobOK, Jobs, Idle, Driverless

LEMMA CompleteTyped ==
  ASSUME SalesType, NEW o \in SaleIds, CompleteService(o)
  PROVE  SalesType'
<1>1. credits' \in [SaleIds -> [Parties -> Nat]]
  BY DEF SalesType, CompleteService
<1>2. /\ sale \in [SaleIds -> [status: SaleStatus, driver: Drivers \union {None},
                               fault: Fault \union {"none"}]]
      /\ sale' = [sale EXCEPT ![o].status = "completed"]
      /\ UNCHANGED <<reversals, compensated>>
  BY DEF SalesType, CompleteService
<1>3. sale' \in [SaleIds -> [status: SaleStatus, driver: Drivers \union {None},
                            fault: Fault \union {"none"}]]
  BY <1>2 DEF SaleStatus
<1> QED BY <1>1, <1>2, <1>3 DEF SalesType

LEMMA SameSales ==
  ASSUME SalesType, UNCHANGED sales
  PROVE  SalesType'
  BY DEF SalesType, sales, ledgers

LEMMA EnqueueTyped ==
  ASSUME TableType, NEW o \in SaleIds, NEW not \in Drivers \union {None}, Enqueue(o, not, 0)
  PROVE  searches' \in [Search -> Nat]
<1>1. [o |-> o, not |-> not, tries |-> 0] \in Search
  BY DispatchAssumption DEF Search
<1> QED BY <1>1 DEF TableType, Enqueue

LEMMA StatusTyped ==
  ASSUME TableType, NEW o \in SaleIds, NEW status \in OrderStatus, SetStatus(o, status)
  PROVE  order' \in [SaleIds -> [status: OrderStatus, driver: Drivers \union {None}]]
  BY DEF TableType, SetStatus

LEMMA AssignTyped ==
  ASSUME SalesType, NEW o \in SaleIds, NEW d \in Drivers, AssignSaleDriver(o, d)
  PROVE  SalesType'
<1>1. sale' \in [SaleIds -> [status: SaleStatus, driver: Drivers \union {None},
                            fault: Fault \union {"none"}]]
  BY DEF SalesType, AssignSaleDriver
<1> QED BY <1>1 DEF SalesType, AssignSaleDriver, ledgers


LEMMA BranchTyped ==
  ASSUME TypeOK, NEW p \in Web, BranchNext(p)
  PROVE  TypeOK'
<1>0. TableType /\ ProcType /\ (TableType' /\ ProcType' => TypeOK')
  BY DEF TypeOK, TableType, ProcType
<1> USE <1>0
<1> USE DEF Procs, Steps, Driverless, queues, counters
<1>1. ASSUME NEW o \in SaleIds, Made(p, o) \/ Pickup(p, o) \/ Collect(p, o)
      PROVE  TypeOK'
  BY <1>1, GoesThere, SameSales DEF Made, Pickup, Collect, TableType
<1>2. ASSUME NEW o \in SaleIds, CollectRaises(p, o)
      PROVE  TypeOK'
  <2>1. order[o].driver \in Drivers
    BY <1>2, SameSales DEF TableType, CollectRaises
  <2> QED BY <1>2, <2>1, SameSales DEF CollectRaises, SetDriver, Free, TableType, SalesType, sales,
             ledgers, ProcType, JobOK, Jobs
<1>3. CASE MadeSave(p) \/ CollectSave(p)
  <2>1. proc[p].o \in SaleIds
    BY <1>3, WorksOn DEF MadeSave, CollectSave, Idle
  <2>2. ProcType'
    BY <1>3, MovesThere DEF MadeSave, CollectSave
  <2>3. {"ready", "delivered"} \subseteq OrderStatus
    BY DEF OrderStatus
  <2> QED BY <1>3, <2>1, <2>2, <2>3, StatusTyped, SameSales DEF MadeSave, CollectSave, TableType
<1>4. CASE PickupSave(p)
  <2>1. proc[p].o \in SaleIds
    BY <1>4, WorksOn DEF PickupSave, Idle
  <2>2. "on_the_way" \in OrderStatus
    BY DEF OrderStatus, Active
  <2> QED BY <1>4, <2>1, <2>2, EndsThere, StatusTyped, SameSales DEF PickupSave, TableType
<1>5. CASE MadeFind(p)
  <2>1. searches' \in [Search -> Nat]
    BY <1>5, WorksOn, EnqueueTyped DEF MadeFind, Idle
  <2> QED BY <1>5, <2>1, EndsThere, SameSales DEF MadeFind, TableType
<1>6. CASE Credit(p)
  <2>1. SalesType'
    BY <1>6, WorksOn, CompleteTyped, SameSales DEF Credit, Idle, TableType
  <2> QED BY <1>6, <2>1, EndsThere, SameSales DEF Credit, TableType
<1> QED BY <1>1, <1>2, <1>3, <1>4, <1>5, <1>6 DEF BranchNext

LEMMA DriverTyped ==
  ASSUME TypeOK, NEW p \in Web, DriverNext(p)
  PROVE  TypeOK'
<1>0. TableType /\ ProcType /\ (TableType' /\ ProcType' => TypeOK')
  BY DEF TypeOK, TableType, ProcType
<1> USE <1>0
<1> USE DEF Procs, Steps, Driverless, queues, counters
<1>1. ASSUME NEW o \in SaleIds, Accept(p, o) \/ Reject(p, o) \/ Deliver(p, o)
      PROVE  TypeOK'
  <2>1. order[o].driver \in Drivers
    BY <1>1, SameSales DEF TableType, Accept, Reject, Deliver
  <2> QED BY <1>1, <2>1, GoesThere, SameSales DEF Accept, Reject, Deliver, TableType
<1>2. CASE AcceptSave(p) \/ DeliverSave(p)
  <2>1. proc[p].o \in SaleIds
    BY <1>2, WorksOn DEF AcceptSave, DeliverSave, Idle
  <2>2. ProcType'
    BY <1>2, MovesThere DEF AcceptSave, DeliverSave
  <2>3. {"picked_up", "delivered"} \subseteq OrderStatus
    BY DEF OrderStatus, Active
  <2> QED BY <1>2, <2>1, <2>2, <2>3, StatusTyped, SameSales DEF AcceptSave, DeliverSave, TableType
<1>3. CASE AcceptSale(p)
  <2>1. proc[p].o \in SaleIds /\ proc[p].d \in Drivers
    BY <1>3, WorksOn DEF AcceptSale, Idle
  <2> QED BY <1>3, <2>1, EndsThere, AssignTyped, SameSales DEF AcceptSale, TableType
<1>4. CASE DeliverDriver(p)
  <2>1. proc[p].d \in Drivers
    BY <1>4, WorksOn DEF DeliverDriver
  <2>2. ProcType'
    BY <1>4, MovesThere DEF DeliverDriver
  <2> QED BY <1>4, <2>1, <2>2, SameSales DEF DeliverDriver, SetDriver, Free, TableType
<1> QED BY <1>1, <1>2, <1>3, <1>4 DEF DriverNext

LEMMA AdminTyped ==
  ASSUME TypeOK, NEW p \in Web, AdminNext(p)
  PROVE  TypeOK'
<1>0. TableType /\ ProcType /\ (TableType' /\ ProcType' => TypeOK')
  BY DEF TypeOK, TableType, ProcType
<1> USE <1>0
<1> USE DEF Procs, Steps, Driverless, queues, counters
<1>1. ASSUME NEW o \in SaleIds, NEW d \in Drivers, AdminAssign(p, o, d)
      PROVE  TypeOK'
  <2>1. ProcType'
    BY <1>1, GoesThere DEF AdminAssign
  <2> QED BY <1>1, <2>1, SameSales DEF AdminAssign, OrderStatus, Active, TableType
<1>2. CASE AdminDriver(p)
  <2>1. proc[p].o \in SaleIds /\ proc[p].d \in Drivers
    BY <1>2, WorksOn DEF AdminDriver, Idle
  <2> QED BY <1>2, <2>1, EndsThere, SameSales DEF AdminDriver, SetDriver, Busy, TableType
<1> QED BY <1>1, <1>2 DEF AdminNext

LEMMA TaskTyped ==
  ASSUME TypeOK, NEW p \in Celery, TaskNext(p)
  PROVE  TypeOK'
<1>0. TableType /\ ProcType /\ (TableType' /\ ProcType' => TypeOK')
  BY DEF TypeOK, TableType, ProcType
<1> USE <1>0
<1> USE DEF Procs, Steps, Driverless, queues, counters
<1>1. ASSUME NEW m \in Search, FindStale(p, m) \/ FindGivesUp(p, m)
      PROVE  TypeOK'
  <2>0. m.o \in SaleIds
    BY DEF Search
  <2>1. searches' \in [Search -> Nat]
    BY <1>1, SameSales DEF FindStale, FindGivesUp, Taken, TableType
  <2> QED BY <1>1, <2>0, <2>1, SameSales DEF FindStale, FindGivesUp, Alert, TableType,
             ProcType, JobOK, Jobs
<1>2. ASSUME NEW m \in Search, FindNobody(p, m)
      PROVE  TypeOK'
  <2>1. [m EXCEPT !.tries = @ + 1] \in Search /\ [m EXCEPT !.tries = @ + 1] # m
    BY <1>2, DispatchAssumption DEF FindNobody, Search
  <2>2. searches' \in [Search -> Nat]
    BY <1>2, <2>1, SameSales DEF FindNobody, TableType
  <2> QED BY <1>2, <2>2, SameSales DEF FindNobody, TableType, ProcType, JobOK, Jobs
<1>3. ASSUME NEW m \in Search, NEW d \in Drivers, Find(p, m, d)
      PROVE  TypeOK'
  <2>0. m.o \in SaleIds
    BY DEF Search
  <2>1. searches' \in [Search -> Nat]
    BY <1>3, SameSales DEF Find, Taken, TableType
  <2>2. ProcType'
    BY <1>3, <2>0, GoesThere DEF Find
  <2> QED BY <1>3, <2>1, <2>2, SameSales DEF Find, TableType
<1>4. CASE FindSaveOrder(p)
  <2>1. proc[p].o \in SaleIds /\ proc[p].d \in Drivers
    BY <1>4, WorksOn DEF FindSaveOrder, Idle
  <2>2. ProcType'
    BY <1>4, MovesThere DEF FindSaveOrder
  <2> QED BY <1>4, <2>1, <2>2, SameSales DEF FindSaveOrder, OrderStatus, Active, TableType
<1>5. CASE FindSaveDriver(p)
  <2>1. proc[p].o \in SaleIds /\ proc[p].d \in Drivers
    BY <1>5, WorksOn DEF FindSaveDriver, Idle
  <2>2. ProcType'
    BY <1>5, MovesThere DEF FindSaveDriver
  <2> QED BY <1>5, <2>1, <2>2, SameSales DEF FindSaveDriver, SetDriver, Busy, TableType
<1>6. CASE FindTimer(p)
  <2>1. proc[p].o \in SaleIds /\ proc[p].d \in Drivers
    BY <1>6, WorksOn DEF FindTimer, Idle
  <2> QED BY <1>6, <2>1, EndsThere, SameSales DEF FindTimer, TableType
<1>7. ASSUME NEW o \in SaleIds, NEW d \in Drivers, Timeout(p, o, d)
      PROVE  TypeOK'
  <2>1. timers' \in [SaleIds -> [Drivers -> Nat]]
    BY <1>7, SameSales DEF Timeout, TableType
  <2>2. ProcType'
    BY <1>7, GoesThere DEF Timeout, ProcType, JobOK, Jobs
  <2> QED BY <1>7, <2>1, <2>2, SameSales DEF Timeout, TableType
<1> QED BY <1>1, <1>2, <1>3, <1>4, <1>5, <1>6, <1>7 DEF TaskNext

LEMMA ReleaseTyped ==
  ASSUME TypeOK, NEW p \in Procs, ReleaseNext(p)
  PROVE  TypeOK'
<1>0. TableType /\ ProcType /\ (TableType' /\ ProcType' => TypeOK')
  BY DEF TypeOK, TableType, ProcType
<1> USE <1>0
<1> USE DEF Steps, Driverless, queues, counters
<1>1. proc[p].o \in SaleIds /\ proc[p].d \in Drivers
  BY WorksOn DEF ReleaseNext, Release, ReleaseDriver, ReleaseFind, Idle
<1>2. CASE Release(p)
  <2>1. ProcType'
    BY <1>2, MovesThere DEF Release
  <2> QED BY <1>1, <1>2, <2>1, SameSales DEF Release, OrderStatus, TableType
<1>3. CASE ReleaseDriver(p)
  <2>1. ProcType'
    BY <1>3, MovesThere DEF ReleaseDriver
  <2> QED BY <1>1, <1>3, <2>1, SameSales DEF ReleaseDriver, SetDriver, Free, TableType
<1>4. CASE ReleaseFind(p)
  <2>1. searches' \in [Search -> Nat]
    BY <1>1, <1>4, EnqueueTyped DEF ReleaseFind
  <2> QED BY <1>4, <2>1, EndsThere, SameSales DEF ReleaseFind, TableType
<1> QED BY <1>2, <1>3, <1>4 DEF ReleaseNext

LEMMA InitTypeOK == Init => TypeOK
<1> SUFFICES ASSUME Init PROVE TypeOK
  OBVIOUS
<1>1. SalesType
  BY DEF Init, SalesInit, SalesType, NoSale, NoRows, SaleStatus
<1>2. ProcType
  BY DEF Init, ProcType, NoJob, Job, Jobs, JobOK, Steps
<1> QED BY <1>1, <1>2 DEF Init, TypeOK, ProcType, OrderStatus, Free

LEMMA NextTypeOK == TypeOK /\ [Next]_vars => TypeOK'
<1> SUFFICES ASSUME TypeOK, [Next]_vars PROVE TypeOK'
  OBVIOUS
<1>0. TableType /\ ProcType /\ (TableType' /\ ProcType' => TypeOK')
  BY DEF TypeOK, TableType, ProcType
<1> USE <1>0
<1>1. ASSUME NEW p \in Procs, Crash(p) PROVE TypeOK'
  BY <1>1, EndsThere, SameSales DEF Crash, queues, TableType
<1>2. ASSUME NEW d \in Drivers, SetAvailable(d) PROVE TypeOK'
  <2>1. /\ driver' = [driver EXCEPT ![d].available = ~@]
        /\ UNCHANGED <<order, sales, queues, proc, counters>>
    BY <1>2 DEF SetAvailable
  <2>2. driver' \in [Drivers -> [available: BOOLEAN, current: SaleIds \union {None}]]
    BY <2>1 DEF TableType
  <2>3. ProcType'
    BY <2>1 DEF ProcType, JobOK, Jobs
  <2>4. SalesType'
    BY <2>1, SameSales DEF TableType
  <2> QED BY <2>1, <2>2, <2>3, <2>4 DEF TableType, queues, counters
<1>3. CASE UNCHANGED vars
  BY <1>3, SameSales DEF vars, queues, counters, TableType, ProcType, JobOK, Jobs
<1> QED BY <1>1, <1>2, <1>3, BranchTyped, DriverTyped, AdminTyped, TaskTyped, ReleaseTyped DEF Next

\* Type correctness, for any number of orders, drivers and processes and
\* whatever overlaps: the tables and the messages of dispatch keep their
\* types, and a handler holds what its next save needs.
THEOREM TypeCorrect == Spec => []TypeOK
<1> QED BY InitTypeOK, NextTypeOK, PTL DEF Spec

-----------------------------------------------------------------------------
(* A ready order is looked for.                                             *)

\* The handler steps that end in a search.
Searching == {"made_find", "find_order", "release_driver", "release_find"}
LookedFor(o) ==
  \/ o \in alerted
  \/ \E m \in Search : m.o = o /\ searches[m] > 0
  \/ \E p \in Procs : proc[p].o = o /\ proc[p].at \in Searching

\* The inductive invariant: SearchGoesOn, with the handlers that are on their
\* way to a search in place of the condition that nobody works on the order.
SearchInv ==
  crashes = 0 => \A o \in SaleIds : order[o].status = "ready" => LookedFor(o)

LEMMA StillLookedFor ==
  ASSUME NEW o \in SaleIds, LookedFor(o), alerted \subseteq alerted',
         \A m \in Search : m.o = o /\ searches[m] > 0 => searches'[m] > 0,
         \A p \in Procs : proc[p].o = o /\ proc[p].at \in Searching
                            => proc'[p].o = o /\ proc'[p].at \in Searching
  PROVE  LookedFor(o)'
  BY DEF LookedFor

\* Steps that make no order ready and take part in no search.
LEMMA SameSearches ==
  ASSUME SearchInv, crashes' = crashes, UNCHANGED <<searches, alerted>>,
         \A o \in SaleIds : order'[o].status = "ready" => order[o].status = "ready",
         \A p \in Procs : proc[p].at \in Searching => proc'[p] = proc[p]
  PROVE  SearchInv'
  BY StillLookedFor DEF SearchInv

\* A message for an order.
LEMMA EnqueuedIsLookedFor ==
  ASSUME TypeOK, NEW o \in SaleIds, NEW not \in Drivers \union {None}, Enqueue(o, not, 0)
  PROVE  /\ \A m \in Search : searches[m] > 0 => searches'[m] > 0
         /\ LookedFor(o)'
<1> DEFINE m == [o |-> o, not |-> not, tries |-> 0]
<1>1. m \in Search /\ m.o = o
  BY DispatchAssumption DEF Search
<1>2. searches' = [searches EXCEPT ![m] = @ + 1] /\ searches \in [Search -> Nat]
  BY DEF Enqueue, TypeOK
<1> HIDE DEF m
<1>3. searches'[m] > 0 /\ \A n \in Search : searches[n] > 0 => searches'[n] > 0
  BY <1>1, <1>2
<1> QED BY <1>1, <1>3 DEF LookedFor

\* The handlers that have made an order ready go on to queue a search.
LEMMA ReadiesLookedFor ==
  ASSUME TypeOK, SearchInv, NEW p \in Procs, MadeSave(p) \/ Release(p)
  PROVE  SearchInv'
<1> USE DEF Procs, queues, counters, Searching
<1>1. proc[p].o \in SaleIds /\ ProcType
  BY WorksOn DEF MadeSave, Release, Idle, TypeOK, ProcType
<1>2. /\ proc'[p].o = proc[p].o /\ proc'[p].at \in Searching
      /\ proc[p].at \notin Searching
      /\ \A q \in Procs : q # p => proc'[q] = proc[q]
  <2>1. CASE MadeSave(p)
    <3>1. proc'[p] = Job("made_find", proc[p].o, proc[p].d)
          /\ \A q \in Procs : q # p => proc'[q] = proc[q]
      BY <1>1, <2>1, MovesThere DEF MadeSave, Steps, Driverless
    <3> QED BY <2>1, <3>1 DEF MadeSave, Job
  <2>2. CASE Release(p)
    <3>1. proc'[p] = Job("release_driver", proc[p].o, proc[p].d)
          /\ \A q \in Procs : q # p => proc'[q] = proc[q]
      BY <1>1, <2>2, MovesThere DEF Release, Steps, Driverless
    <3> QED BY <2>2, <3>1 DEF Release, Job
  <2> QED BY <2>1, <2>2
<1>3. \A o \in SaleIds : o = proc[p].o => LookedFor(o)'
  BY <1>2 DEF LookedFor
<1>4. \A o \in SaleIds : o # proc[p].o => order'[o] = order[o]
  BY <1>1 DEF MadeSave, Release, SetStatus, TypeOK
<1>5. UNCHANGED <<searches, alerted, crashes>>
  BY DEF MadeSave, Release
<1> QED BY <1>1, <1>2, <1>3, <1>4, <1>5, StillLookedFor DEF SearchInv

LEMMA EnqueuesLookedFor ==
  ASSUME TypeOK, SearchInv, NEW p \in Procs, MadeFind(p) \/ ReleaseFind(p)
  PROVE  SearchInv'
<1> USE DEF Procs, counters
<1>1. proc[p].o \in SaleIds /\ ProcType
  BY WorksOn DEF MadeFind, ReleaseFind, Idle, TypeOK, ProcType
<1>2. PICK t \in SaleIds : t = proc[p].o
  BY <1>1
<1>3. \A q \in Procs : q # p => proc'[q] = proc[q]
  BY <1>1, EndsThere DEF MadeFind, ReleaseFind
<1>4. LookedFor(t)' /\ \A m \in Search : searches[m] > 0 => searches'[m] > 0
  <2>1. PICK not \in Drivers \union {None} : Enqueue(t, not, 0)
    BY <1>1, <1>2, WorksOn DEF MadeFind, ReleaseFind
  <2> QED BY <2>1, EnqueuedIsLookedFor
<1>5. UNCHANGED <<order, alerted, crashes>>
  BY DEF MadeFind, ReleaseFind
<1>6. ASSUME NEW o \in SaleIds, o # t, LookedFor(o)
      PROVE  LookedFor(o)'
  <2>1. \A q \in Procs : proc[q].o = o => proc'[q] = proc[q]
    BY <1>2, <1>3, <1>6
  <2> QED BY <1>4, <1>5, <1>6, <2>1, StillLookedFor
<1> QED BY <1>4, <1>5, <1>6 DEF SearchInv

\* A message is taken by a task.
LEMMA TakenLookedFor ==
  ASSUME TypeOK, SearchInv, NEW p \in Celery, NEW m \in Search,
         \/ FindStale(p, m) \/ FindGivesUp(p, m) \/ FindNobody(p, m)
         \/ \E d \in Drivers : Find(p, m, d)
  PROVE  SearchInv'
<1> USE DEF Procs, counters
<1>1. /\ m.o \in SaleIds /\ searches \in [Search -> Nat] /\ ProcType
      /\ proc[p].at = "idle" /\ UNCHANGED <<order, crashes>>
  BY DEF Search, TypeOK, ProcType, FindStale, FindGivesUp, FindNobody, Find, Idle
<1>2. /\ \A n \in Search : n # m /\ searches[n] > 0 => searches'[n] > 0
      /\ alerted \subseteq alerted'
  <2>1. CASE FindNobody(p, m)
    <3> DEFINE n == [m EXCEPT !.tries = @ + 1]
    <3>1. n \in Search /\ n # m
      BY <2>1, DispatchAssumption DEF FindNobody, Search
    <3>2. searches' = [searches EXCEPT ![m] = @ - 1, ![n] = @ + 1] /\ UNCHANGED alerted
      BY <2>1 DEF FindNobody
    <3> HIDE DEF n
    <3> QED BY <1>1, <3>1, <3>2
  <2>2. CASE ~FindNobody(p, m)
    <3>1. searches' = [searches EXCEPT ![m] = @ - 1] /\ alerted \subseteq alerted'
      BY <2>2 DEF FindStale, FindGivesUp, Find, Taken, Alert
    <3> QED BY <1>1, <3>1
  <2> QED BY <2>1, <2>2
<1>3. \A q \in Procs : proc[q].at # "idle" => proc'[q] = proc[q]
  <2>1. CASE UNCHANGED proc
    BY <2>1
  <2>2. ASSUME NEW d \in Drivers, Find(p, m, d)
        PROVE  \A q \in Procs : q # p => proc'[q] = proc[q]
    BY <1>1, <2>2, GoesThere DEF Find, Steps, Driverless
  <2> QED BY <1>1, <2>1, <2>2 DEF FindStale, FindGivesUp, FindNobody
<1>4. ASSUME NEW o \in SaleIds, o # m.o, LookedFor(o)
      PROVE  LookedFor(o)'
  BY <1>2, <1>3, <1>4, StillLookedFor DEF Searching
<1>5. order[m.o].status = "ready" => LookedFor(m.o)'
  <2>1. CASE FindStale(p, m)
    BY <2>1 DEF FindStale
  <2>2. CASE FindGivesUp(p, m)
    BY <2>2 DEF FindGivesUp, Alert, LookedFor
  <2>3. CASE FindNobody(p, m)
    <3> DEFINE n == [m EXCEPT !.tries = @ + 1]
    <3>1. n \in Search /\ n # m /\ n.o = m.o
      BY <2>3, DispatchAssumption DEF FindNobody, Search
    <3>2. searches' = [searches EXCEPT ![m] = @ - 1, ![n] = @ + 1]
      BY <2>3 DEF FindNobody
    <3> HIDE DEF n
    <3>3. searches'[n] > 0
      BY <1>1, <3>1, <3>2
    <3> QED BY <3>1, <3>3 DEF LookedFor
  <2>4. ASSUME NEW d \in Drivers, Find(p, m, d)
        PROVE  LookedFor(m.o)'
    <3>1. proc'[p] = Job("find_order", m.o, d)
      BY <1>1, <2>4, GoesThere DEF Find, Steps, Driverless
    <3>2. proc'[p].o = m.o /\ proc'[p].at = "find_order"
      BY <3>1 DEF Job
    <3> QED BY <3>2 DEF LookedFor, Searching
  <2> QED BY <2>1, <2>2, <2>3, <2>4
<1> QED BY <1>1, <1>4, <1>5 DEF SearchInv

LEMMA InitSearchInv == Init => SearchInv
  BY DEF Init, SearchInv

LEMMA NextSearchInv ==
  ASSUME TypeOK, SearchInv, [Next]_vars
  PROVE  SearchInv'
<1> USE DEF Procs, queues, counters
<1>0. ProcType
  BY DEF TypeOK, ProcType
<1>1. ASSUME NEW p \in Procs, NEW at \in Steps \ {"idle"}, NEW o \in SaleIds,
             NEW d \in Drivers \union {None}, at \notin Driverless => d \in Drivers,
             Goes(p, at, o, d), Idle(p), UNCHANGED <<searches, alerted, crashes>>,
             \A t \in SaleIds : order'[t].status = "ready" => order[t].status = "ready"
      PROVE  SearchInv'
  BY <1>0, <1>1, GoesThere, SameSearches DEF Idle, Searching
<1>2. ASSUME NEW p \in Procs, NEW at \in Steps \ {"idle"}, proc[p].at # "idle",
             at \notin Driverless => proc[p].at \notin Driverless,
             proc[p].at \notin Searching,
             Moves(p, at), UNCHANGED <<searches, alerted, crashes>>,
             \A t \in SaleIds : order'[t].status = "ready" => order[t].status = "ready"
      PROVE  SearchInv'
  BY <1>0, <1>2, MovesThere, SameSearches
<1>3. ASSUME NEW p \in Procs, proc[p].at \notin Searching, Ends(p),
             UNCHANGED <<searches, alerted, crashes>>,
             \A t \in SaleIds : order'[t].status = "ready" => order[t].status = "ready"
      PROVE  SearchInv'
  BY <1>0, <1>3, EndsThere, SameSearches
<1>4. ASSUME NEW o \in SaleIds, NEW status \in OrderStatus \ {"ready"}, SetStatus(o, status)
      PROVE  \A t \in SaleIds : order'[t].status = "ready" => order[t].status = "ready"
  BY <1>4 DEF SetStatus, TypeOK
<1>5. ASSUME NEW p \in Web, BranchNext(p) PROVE SearchInv'
  <2>1. ASSUME NEW o \in SaleIds, Made(p, o) \/ Pickup(p, o) \/ Collect(p, o)
        PROVE  SearchInv'
    BY <1>1, <2>1 DEF Made, Pickup, Collect, Acts, Steps, Driverless
  <2>2. ASSUME NEW o \in SaleIds, CollectRaises(p, o) PROVE SearchInv'
    BY <2>2, SameSearches DEF CollectRaises
  <2>3. CASE PickupSave(p)
    BY <1>0, <1>3, <1>4, <2>3, WorksOn DEF PickupSave, Idle, OrderStatus, Active, Searching
  <2>4. CASE CollectSave(p)
    BY <1>0, <1>2, <1>4, <2>4, WorksOn DEF CollectSave, Idle, OrderStatus, Searching, Steps, Driverless
  <2>5. CASE Credit(p)
    BY <1>3, <2>5 DEF Credit, Searching
  <2> QED BY <1>5, <2>1, <2>2, <2>3, <2>4, <2>5, ReadiesLookedFor, EnqueuesLookedFor DEF BranchNext
<1>6. ASSUME NEW p \in Web, DriverNext(p) PROVE SearchInv'
  <2>1. ASSUME NEW o \in SaleIds, Accept(p, o) \/ Reject(p, o) \/ Deliver(p, o)
        PROVE  SearchInv'
    <3>1. order[o].driver \in Drivers
      BY <2>1 DEF TypeOK, Accept, Reject, Deliver
    <3> QED BY <1>1, <2>1, <3>1 DEF Accept, Reject, Deliver, Acts, Steps, Driverless
  <2>2. CASE AcceptSave(p) \/ DeliverSave(p)
    BY <1>0, <1>2, <1>4, <2>2, WorksOn
       DEF AcceptSave, DeliverSave, Idle, OrderStatus, Active, Searching, Steps, Driverless
  <2>3. CASE AcceptSale(p)
    BY <1>3, <2>3 DEF AcceptSale, Searching
  <2>4. CASE DeliverDriver(p)
    BY <1>2, <2>4 DEF DeliverDriver, Searching, Steps, Driverless
  <2> QED BY <1>6, <2>1, <2>2, <2>3, <2>4 DEF DriverNext
<1>7. ASSUME NEW p \in Web, AdminNext(p) PROVE SearchInv'
  <2>1. ASSUME NEW o \in SaleIds, NEW d \in Drivers, AdminAssign(p, o, d) PROVE SearchInv'
    <3>1. \A t \in SaleIds : order'[t].status = "ready" => order[t].status = "ready"
      BY <2>1 DEF AdminAssign, TypeOK
    <3> QED BY <1>1, <2>1, <3>1 DEF AdminAssign, Acts, Steps, Driverless
  <2>2. CASE AdminDriver(p)
    BY <1>3, <2>2 DEF AdminDriver, Searching
  <2> QED BY <1>7, <2>1, <2>2 DEF AdminNext
<1>8. ASSUME NEW p \in Celery, TaskNext(p) PROVE SearchInv'
  <2>1. CASE FindSaveOrder(p)
    <3>1. proc[p].o \in SaleIds /\ UNCHANGED <<searches, alerted, crashes>>
      BY <1>0, <2>1, WorksOn DEF FindSaveOrder, Idle
    <3>2. \A q \in Procs : q # p => proc'[q] = proc[q]
      BY <1>0, <2>1, MovesThere DEF FindSaveOrder, Steps, Driverless
    <3>3. /\ order'[proc[p].o].status # "ready"
          /\ \A o \in SaleIds : o # proc[p].o => order'[o] = order[o]
      BY <2>1, <3>1 DEF FindSaveOrder, TypeOK
    <3>4. ASSUME NEW o \in SaleIds, o # proc[p].o, LookedFor(o) PROVE LookedFor(o)'
      BY <3>1, <3>2, <3>4, StillLookedFor
    <3> QED BY <3>1, <3>3, <3>4 DEF SearchInv
  <2>2. CASE FindSaveDriver(p)
    BY <1>2, <2>2 DEF FindSaveDriver, Searching, Steps, Driverless
  <2>3. CASE FindTimer(p)
    BY <1>3, <2>3 DEF FindTimer, Searching
  <2>4. ASSUME NEW o \in SaleIds, NEW d \in Drivers, Timeout(p, o, d) PROVE SearchInv'
    <3>1. CASE Goes(p, "release", o, d)
      BY <1>1, <2>4, <3>1 DEF Timeout, Steps, Driverless
    <3>2. CASE UNCHANGED proc
      BY <2>4, <3>2, SameSearches DEF Timeout
    <3> QED BY <2>4, <3>1, <3>2 DEF Timeout
  <2> QED BY <1>8, <2>1, <2>2, <2>3, <2>4, TakenLookedFor DEF TaskNext
<1>9. ASSUME NEW p \in Procs, ReleaseDriver(p) PROVE SearchInv'
  <2>0. proc'[p] = Job("release_find", proc[p].o, proc[p].d)
        /\ \A q \in Procs : q # p => proc'[q] = proc[q]
    BY <1>0, <1>9, MovesThere DEF ReleaseDriver, Steps, Driverless
  <2>1. /\ proc'[p].o = proc[p].o /\ proc'[p].at = "release_find"
        /\ \A q \in Procs : q # p => proc'[q] = proc[q]
    BY <2>0 DEF Job
  <2>2. ASSUME NEW o \in SaleIds, LookedFor(o) PROVE LookedFor(o)'
    BY <1>9, <2>1, <2>2, StillLookedFor DEF ReleaseDriver, Searching
  <2> QED BY <1>9, <2>2 DEF ReleaseDriver, SearchInv
<1>10. ASSUME NEW p \in Procs, Crash(p) PROVE SearchInv'
  BY <1>10 DEF Crash, SearchInv, TypeOK
<1>11. ASSUME NEW d \in Drivers, SetAvailable(d) PROVE SearchInv'
  BY <1>11, SameSearches DEF SetAvailable
<1>12. CASE UNCHANGED vars
  BY <1>12, SameSearches DEF vars
<1> QED BY <1>5, <1>6, <1>7, <1>8, <1>9, <1>10, <1>11, <1>12, ReadiesLookedFor, EnqueuesLookedFor
    DEF Next, ReleaseNext

\* As long as no process died, a ready order that nobody works on has a search
\* queued or an alert raised: every save of READY is followed by the queueing
\* of find_and_assign_driver, which either assigns, queues itself again or
\* gives up with an alert, however rejections, timeouts, acceptances and
\* administrators overlap.
THEOREM ReadyIsLookedFor == Spec => []SearchGoesOn
<1>1. Init => TypeOK /\ SearchInv
  BY InitTypeOK, InitSearchInv
<1>2. TypeOK /\ SearchInv /\ [Next]_vars => (TypeOK /\ SearchInv)'
  BY NextTypeOK, NextSearchInv
<1>3. TypeOK /\ SearchInv => SearchGoesOn
  BY DEF SearchInv, SearchGoesOn, LookedFor, Untouched
<1> QED BY <1>1, <1>2, <1>3, PTL DEF Spec

-----------------------------------------------------------------------------
(* A sale is credited once.                                                 *)

\* A sale leaves escrow by its one completion.
EscrowInv ==
  \A s \in SaleIds :
    /\ sale[s].status \in {"in_escrow", "completed"}
    /\ sale[s].status = "in_escrow" => \A x \in Parties : credits[s][x] = 0
    /\ \A x \in Parties : credits[s][x] <= 1

\* What dispatch does to the sales.
LEMMA SalesSteps ==
  ASSUME TypeOK, [Next]_vars
  PROVE  \/ UNCHANGED sales
         \/ \E o \in SaleIds : CompleteService(o)
         \/ \E o \in SaleIds, d \in Drivers : AssignSaleDriver(o, d)
<1> USE DEF Procs
<1>0. ProcType
  BY DEF TypeOK, ProcType
<1>1. ASSUME NEW p \in Web, AcceptSale(p)
      PROVE  \E o \in SaleIds, d \in Drivers : AssignSaleDriver(o, d)
  BY <1>0, <1>1, WorksOn DEF AcceptSale, Idle, Driverless
<1>2. ASSUME NEW p \in Web, Credit(p)
      PROVE  UNCHANGED sales \/ \E o \in SaleIds : CompleteService(o)
  BY <1>0, <1>2, WorksOn DEF Credit, Idle
<1>3. ASSUME NEW p \in Web, BranchNext(p), ~Credit(p) PROVE UNCHANGED sales
  BY <1>3 DEF BranchNext, Made, Pickup, Collect, CollectRaises, MadeSave, MadeFind, PickupSave,
     CollectSave
<1>4. ASSUME NEW p \in Web, DriverNext(p), ~AcceptSale(p) PROVE UNCHANGED sales
  BY <1>4 DEF DriverNext, Accept, Reject, Deliver, AcceptSave, DeliverSave, DeliverDriver
<1>5. ASSUME NEW p \in Web, AdminNext(p) PROVE UNCHANGED sales
  BY <1>5 DEF AdminNext, AdminAssign, AdminDriver
<1>6. ASSUME NEW p \in Celery, TaskNext(p) PROVE UNCHANGED sales
  BY <1>6 DEF TaskNext, FindStale, FindGivesUp, FindNobody, Find, FindSaveOrder, FindSaveDriver,
     FindTimer, Timeout
<1>7. ASSUME NEW p \in Procs, ReleaseNext(p) \/ Crash(p) PROVE UNCHANGED sales
  BY <1>7 DEF ReleaseNext, Release, ReleaseDriver, ReleaseFind, Crash
<1>8. ASSUME NEW d \in Drivers, SetAvailable(d) PROVE UNCHANGED sales
  BY <1>8 DEF SetAvailable
<1>9. CASE UNCHANGED vars
  BY <1>9 DEF vars
<1> QED BY <1>1, <1>2, <1>3, <1>4, <1>5, <1>6, <1>7, <1>8, <1>9 DEF Next

\* What a completion writes, and what it leaves alone.
LEMMA Completes ==
  ASSUME SalesType, NEW o \in SaleIds, CompleteService(o)
  PROVE  /\ sale[o].status = "in_escrow" /\ sale'[o].status = "completed"
         /\ sale'[o].driver = sale[o].driver
         /\ \A x \in Parties :
              credits'[o][x] = credits[o][x] + IF x \in Payees(o) THEN 1 ELSE 0
         /\ \A t \in SaleIds : t # o => sale'[t] = sale[t] /\ credits'[t] = credits[t]
<1>1. /\ sale \in [SaleIds -> [status: SaleStatus, driver: Drivers \union {None},
                              fault: Fault \union {"none"}]]
      /\ credits \in [SaleIds -> [Parties -> Nat]]
  BY DEF SalesType
<1>2. /\ sale[o].status = "in_escrow" /\ sale' = [sale EXCEPT ![o].status = "completed"]
      /\ credits' = [credits EXCEPT ![o] =
                       [x \in Parties |-> @[x] + IF x \in Payees(o) THEN 1 ELSE 0]]
  BY DEF CompleteService, CanComplete
<1>3. /\ sale'[o].status = "completed" /\ sale'[o].driver = sale[o].driver
      /\ \A t \in SaleIds : t # o => sale'[t] = sale[t]
  BY <1>1, <1>2
<1>4. credits'[o] = [x \in Parties |-> credits[o][x] + IF x \in Payees(o) THEN 1 ELSE 0]
      /\ \A t \in SaleIds : t # o => credits'[t] = credits[t]
  BY <1>1, <1>2
<1> QED BY <1>2, <1>3, <1>4

LEMMA InitEscrowInv == Init => EscrowInv
<1> SUFFICES ASSUME Init PROVE EscrowInv
  OBVIOUS
<1>1. \A s \in SaleIds : sale[s].status = "in_escrow"
  BY DEF Init, SalesInit, NoSale
<1>2. \A s \in SaleIds, x \in Parties : credits[s][x] = 0
  BY DEF Init, SalesInit, NoRows
<1>3. ASSUME NEW s \in SaleIds, NEW x \in Parties PROVE credits[s][x] <= 1
  BY <1>2
<1> QED BY <1>1, <1>2, <1>3 DEF EscrowInv

LEMMA NextEscrowInv ==
  ASSUME TypeOK, EscrowInv, [Next]_vars
  PROVE  EscrowInv'
<1>1. SalesType /\ credits \in [SaleIds -> [Parties -> Nat]]
  BY DEF TypeOK, SalesType
<1>2. CASE UNCHANGED sales
  BY <1>2 DEF sales, ledgers, EscrowInv
<1>3. ASSUME NEW o \in SaleIds, CompleteService(o) PROVE EscrowInv'
  BY <1>1, <1>3, Completes DEF EscrowInv
<1>4. ASSUME NEW o \in SaleIds, NEW d \in Drivers, AssignSaleDriver(o, d) PROVE EscrowInv'
  <2>1. \A s \in SaleIds : sale'[s].status = sale[s].status
    BY <1>1, <1>4 DEF AssignSaleDriver, SalesType
  <2> QED BY <1>4, <2>1 DEF AssignSaleDriver, ledgers, EscrowInv
<1> QED BY <1>2, <1>3, <1>4, SalesSteps

\* Whatever handlers overlap and die, and although the hand-over and the
\* driver's delivery both end in complete_service, no party is credited twice
\* for one sale.
THEOREM DispatchCreditsOnce == Spec => []CreditedOnce
<1>1. Init => TypeOK /\ EscrowInv
  BY InitTypeOK, InitEscrowInv
<1>2. TypeOK /\ EscrowInv /\ [Next]_vars => (TypeOK /\ EscrowInv)'
  BY NextTypeOK, NextEscrowInv
<1>3. EscrowInv => CreditedOnce
  BY DEF EscrowInv, CreditedOnce
<1> QED BY <1>1, <1>2, <1>3, PTL DEF Spec

-----------------------------------------------------------------------------
(* The money of a delivery keeps EscrowPromise.                             *)

Stages == [o \in SaleIds |-> IF sale[o].status = "completed" THEN "handed_out" ELSE "held"]
EscrowShown == <<Stages, credits, reversals>>

\* A completion hands the money of its sale out, to the business at least.
LEMMA CompletionHandsOut ==
  ASSUME SalesType, EscrowInv, NEW o \in SaleIds, CompleteService(o)
  PROVE  Escrow!HandOut(o, Payees(o))
<1>1. Escrow!Moves(o, "held", "handed_out")
  <2>1. /\ sale[o].status = "in_escrow" /\ sale'[o].status = "completed"
        /\ \A t \in SaleIds : t # o => sale'[t] = sale[t]
    BY Completes
  <2>2. Stages[o] = "held" /\ Stages' = [Stages EXCEPT ![o] = "handed_out"]
    BY <2>1 DEF Stages
  <2> QED BY <2>2 DEF Escrow!Moves, Stages
<1>2. /\ credits' = [credits EXCEPT ![o] =
                       [x \in Parties |-> credits[o][x] + IF x \in Payees(o) THEN 1 ELSE 0]]
      /\ UNCHANGED reversals /\ sale[o].status = "in_escrow"
  <2>1. credits \in [SaleIds -> [Parties -> Nat]]
    BY DEF SalesType
  <2> QED BY <2>1 DEF CompleteService, CanComplete
<1>3. [x \in Parties |-> credits[o][x] + IF x \in Payees(o) THEN 1 ELSE 0]
      = [x \in Parties |-> IF x \in Payees(o) THEN 1 ELSE 0]
  BY <1>2 DEF EscrowInv
<1>4. credits' = [credits EXCEPT ![o] = [x \in Parties |-> IF x \in Payees(o) THEN 1 ELSE 0]]
  BY <1>2, <1>3
<1>5. "business_owner" \in Payees(o)
  BY DEF Payees
<1> QED BY <1>1, <1>2, <1>4, <1>5 DEF Escrow!HandOut

LEMMA NextEscrow ==
  ASSUME TypeOK, EscrowInv, [Next]_vars
  PROVE  [Escrow!Next]_EscrowShown
<1>1. SalesType
  BY DEF TypeOK
<1>2. CASE UNCHANGED sales
  BY <1>2 DEF sales, ledgers, EscrowShown, Stages
<1>3. ASSUME NEW o \in SaleIds, CompleteService(o) PROVE Escrow!Next
  <2>1. Payees(o) \in SUBSET Parties
    BY DEF Payees, Parties
  <2> QED BY <1>1, <1>3, <2>1, CompletionHandsOut DEF Escrow!Next
<1>4. ASSUME NEW o \in SaleIds, NEW d \in Drivers, AssignSaleDriver(o, d)
      PROVE  UNCHANGED EscrowShown
  <2>1. \A s \in SaleIds : sale'[s].status = sale[s].status
    BY <1>1, <1>4 DEF AssignSaleDriver, SalesType
  <2>2. UNCHANGED <<credits, reversals>>
    BY <1>4 DEF AssignSaleDriver, ledgers
  <2> QED BY <2>1, <2>2 DEF EscrowShown, Stages
<1> QED BY <1>2, <1>3, <1>4, SalesSteps

\* Whatever handlers overlap and die, the money of every delivery keeps
\* EscrowPromise: it leaves escrow once, by the one completion that takes effect,
\* and goes to the business and whoever else shares in the sale all at once
\* (complete_service under the hand-over at the counter and the driver's delivery).
THEOREM DeliveryKeepsEscrow == Spec => KeepsEscrow
<1>1. Init => TypeOK /\ EscrowInv
  BY InitTypeOK, InitEscrowInv
<1>2. Init => Escrow!Init
  <2> SUFFICES ASSUME Init PROVE Escrow!Init
    OBVIOUS
  <2>1. \A o \in SaleIds : sale[o].status = "in_escrow"
    BY DEF Init, SalesInit, NoSale
  <2>2. credits = [o \in SaleIds |-> NoRows] /\ reversals = [o \in SaleIds |-> NoRows]
    BY DEF Init, SalesInit
  <2> QED BY <2>1, <2>2 DEF Escrow!Init, Escrow!Nothing, NoRows
<1>3. TypeOK /\ EscrowInv /\ [Next]_vars => (TypeOK /\ EscrowInv)'
  BY NextTypeOK, NextEscrowInv
<1>4. TypeOK /\ EscrowInv /\ [Next]_vars => [Escrow!Next]_EscrowShown
  BY NextEscrow
<1>5. [Escrow!Next]_EscrowShown
        <=> [Escrow!Next]_<<[o \in SaleIds |->
                               IF sale[o].status = "completed" THEN "handed_out" ELSE "held"],
                            credits, reversals>>
  BY DEF EscrowShown, Stages
<1> QED BY <1>1, <1>2, <1>3, <1>4, <1>5, PTL DEF Spec, KeepsEscrow, Escrow!Spec

-----------------------------------------------------------------------------
(* The driver who delivered is the one paid, when no two handlers work on   *)
(* one order.                                                               *)

Calm == Serial /\ ~Admin /\ MaxCrashes = 0

\* The status of the order behind each step of a handler.
StatusAt ==
  [made |-> "preparing", made_find |-> "ready", collect |-> "ready", find_order |-> "ready",
   find_driver |-> "driver_assigned", find_timer |-> "driver_assigned",
   accept |-> "driver_assigned", release |-> "driver_assigned",
   release_driver |-> "ready", release_find |-> "ready",
   accept_sale |-> "picked_up", pickup |-> "picked_up", deliver |-> "on_the_way",
   deliver_driver |-> "delivered", credit |-> "delivered"]

\* A busy process is at an order that is where its handler left it.
AtWork(p) ==
  /\ proc[p].at # "admin_driver"
  /\ order[proc[p].o].status = StatusAt[proc[p].at]
  /\ proc[p].at \in {"accept", "accept_sale"} => order[proc[p].o].driver = proc[p].d
  /\ proc[p].at = "collect" => order[proc[p].o].driver = None

WorkerInv ==
  /\ \A p \in Procs : Idle(p) => proc[p].o = None
  /\ \A p, q \in Procs : proc[p].o = proc[q].o => p = q \/ proc[p].o = None
  /\ \A p \in Procs : ~Idle(p) => AtWork(p)

\* The sale has the driver who carries its order, and stays in escrow until
\* the order was delivered and its handler ended.
Accepting(o) == \E p \in Procs : proc[p].o = o /\ proc[p].at = "accept_sale"
Delivers(o) ==
  /\ (order[o].status \in {"picked_up", "on_the_way"} /\ ~Accepting(o))
       => sale[o].driver = order[o].driver
  /\ order[o].status = "delivered"
       => order[o].driver = None \/ sale[o].driver = order[o].driver
  /\ (order[o].status # "delivered" \/ ~Untouched(o)) => sale[o].status = "in_escrow"
  /\ (order[o].status = "delivered" /\ order[o].driver # None /\ Untouched(o))
       => credits[o]["driver"] = 1

CalmInv == WorkerInv /\ \A o \in SaleIds : Delivers(o)

\* A step of p at order o leaves the other orders as they are.
LEMMA Elsewhere ==
  ASSUME NEW o \in SaleIds, NEW p \in Procs,
         proc[p].o \in {o, None}, proc'[p].o \in {o, None},
         \A q \in Procs : q # p => proc'[q] = proc[q],
         NEW t \in SaleIds, t # o, Delivers(t),
         order'[t] = order[t], sale'[t] = sale[t], credits'[t] = credits[t]
  PROVE  Delivers(t)'
<1>1. \A q \in Procs : proc[q].o = t \/ proc'[q].o = t => proc'[q] = proc[q]
  BY DispatchAssumption
<1>2. (Accepting(t)' <=> Accepting(t)) /\ (Untouched(t)' <=> Untouched(t))
  BY <1>1 DEF Accepting, Untouched
<1> QED BY <1>2 DEF Delivers

\* A handler starts on an order nobody works on.
LEMMA CalmStart ==
  ASSUME TypeOK, CalmInv, NEW p \in Procs, NEW o \in SaleIds,
         NEW at \in Steps \ {"idle", "admin_driver", "accept_sale"},
         NEW d \in Drivers \union {None}, at \notin Driverless => d \in Drivers,
         Idle(p), Untouched(o), Goes(p, at, o, d), UNCHANGED <<order, sales>>,
         order[o].status = StatusAt[at], order[o].status # "delivered",
         at = "accept" => order[o].driver = d, at = "collect" => order[o].driver = None
  PROVE  CalmInv'
<1>1. proc'[p] = Job(at, o, d) /\ \A q \in Procs : q # p => proc'[q] = proc[q]
  BY GoesThere DEF TypeOK, ProcType
<1>2. proc'[p].at = at /\ proc'[p].o = o /\ proc'[p].d = d
  BY <1>1 DEF Job
<1>3. WorkerInv'
  BY <1>1, <1>2, DispatchAssumption DEF CalmInv, WorkerInv, AtWork, Idle, Untouched
<1>4. proc[p].o = None
  BY DEF CalmInv, WorkerInv
<1>5. ~Accepting(o)
  BY DEF Accepting, Untouched
<1>6. Delivers(o)'
  BY <1>2, <1>5 DEF CalmInv, Delivers, sales, ledgers
<1>7. \A t \in SaleIds : t # o => Delivers(t)'
  BY <1>1, <1>2, <1>4, Elsewhere DEF CalmInv, sales, ledgers
<1> QED BY <1>3, <1>6, <1>7 DEF CalmInv

\* A handler goes on.
LEMMA CalmWorker ==
  ASSUME TypeOK, WorkerInv, NEW p \in Procs, NEW o \in SaleIds, proc[p].o = o,
         proc'[p].at # "idle", proc'[p].o = o, proc'[p].d = proc[p].d,
         \A q \in Procs : q # p => proc'[q] = proc[q],
         \A t \in SaleIds : t # o => order'[t] = order[t],
         AtWork(p)'
  PROVE  WorkerInv'
<1>1. \A q \in Procs : q # p => proc[q].o # o \/ proc[q].o = None
  BY DEF WorkerInv
<1>2. \A q \in Procs : q # p /\ ~Idle(q) => proc[q].o \in SaleIds /\ proc[q].o # o
  BY <1>1, WorksOn, DispatchAssumption DEF TypeOK, ProcType
<1>3. \A q \in Procs : q # p /\ ~Idle(q) => AtWork(q)'
  BY <1>2 DEF WorkerInv, AtWork
<1> QED BY <1>3 DEF WorkerInv, Idle

\* A handler ends.
LEMMA CalmLeaves ==
  ASSUME TypeOK, WorkerInv, NEW p \in Procs, NEW o \in SaleIds, proc[p].o = o, Ends(p),
         \A t \in SaleIds : t # o => order'[t] = order[t]
  PROVE  /\ WorkerInv'
         /\ proc'[p].o = None
         /\ \A q \in Procs : q # p => proc'[q] = proc[q]
         /\ Untouched(o)'
<1>1. proc'[p] = NoJob /\ \A q \in Procs : q # p => proc'[q] = proc[q]
  BY EndsThere DEF TypeOK, ProcType
<1>2. proc'[p].at = "idle" /\ proc'[p].o = None
  BY <1>1 DEF NoJob, Job
<1>3. \A q \in Procs : q # p => proc[q].o # o \/ proc[q].o = None
  BY DEF WorkerInv
<1>4. \A q \in Procs : q # p /\ ~Idle(q) => proc[q].o \in SaleIds /\ proc[q].o # o
  BY <1>3, WorksOn, DispatchAssumption DEF TypeOK, ProcType
<1>5. \A q \in Procs : q # p /\ ~Idle(q) => AtWork(q)'
  BY <1>1, <1>4 DEF WorkerInv, AtWork
<1>6. WorkerInv'
  BY <1>1, <1>2, <1>5 DEF WorkerInv, Idle
<1>7. Untouched(o)'
  BY <1>1, <1>2, <1>3, DispatchAssumption DEF Untouched
<1> QED BY <1>1, <1>2, <1>6, <1>7

LEMMA OnlyWorker ==
  ASSUME TypeOK, CalmInv, NEW p \in Procs, NEW o \in SaleIds, proc[p].o = o, ~Idle(p)
  PROVE  /\ AtWork(p)
         /\ \A q \in Procs : proc[q].o = o => q = p
         /\ proc[p].at # "accept_sale" => ~Accepting(o)
         /\ ~Untouched(o) /\ sale[o].status = "in_escrow"
<1>1. AtWork(p) /\ \A q \in Procs : proc[q].o = o => q = p
  BY DispatchAssumption DEF CalmInv, WorkerInv
<1>2. ~Untouched(o)
  BY DEF Untouched
<1> QED BY <1>1, <1>2 DEF CalmInv, Delivers, Accepting

LEMMA CalmMoves ==
  ASSUME TypeOK, CalmInv, NEW p \in Procs, NEW o \in SaleIds, proc[p].o = o,
         NEW at \in Steps \ {"idle", "admin_driver", "accept", "collect"},
         proc[p].at # "idle", at \notin Driverless => proc[p].at \notin Driverless,
         Moves(p, at), UNCHANGED sales,
         \A t \in SaleIds : t # o => order'[t] = order[t],
         order'[o].status = StatusAt[at],
         at = "accept_sale" => order'[o].driver = proc[p].d,
         order'[o].status \in {"picked_up", "on_the_way"} => at = "accept_sale",
         order'[o].status = "delivered"
           => order'[o].driver = None \/ sale[o].driver = order'[o].driver
  PROVE  CalmInv'
<1>1. proc'[p] = Job(at, o, proc[p].d) /\ \A q \in Procs : q # p => proc'[q] = proc[q]
  BY MovesThere DEF TypeOK, ProcType
<1>2. proc'[p].at = at /\ proc'[p].o = o /\ proc'[p].d = proc[p].d
  BY <1>1 DEF Job
<1>3. WorkerInv'
  BY <1>1, <1>2, CalmWorker DEF CalmInv, AtWork
<1>4. sale'[o].status = "in_escrow" /\ sale' = sale /\ credits' = credits
  BY OnlyWorker DEF Idle, sales, ledgers
<1>5. (at = "accept_sale" => Accepting(o)') /\ ~Untouched(o)'
  BY <1>2 DEF Accepting, Untouched
<1>6. Delivers(o)'
  BY <1>4, <1>5 DEF Delivers
<1>7. \A t \in SaleIds : t # o => Delivers(t)'
  BY <1>1, <1>2, <1>4, Elsewhere DEF CalmInv
<1> QED BY <1>3, <1>6, <1>7 DEF CalmInv

LEMMA CalmEnds ==
  ASSUME TypeOK, CalmInv, NEW p \in Procs, NEW o \in SaleIds, proc[p].o = o, Ends(p),
         \A t \in SaleIds : t # o => /\ order'[t] = order[t]
                                     /\ sale'[t] = sale[t] /\ credits'[t] = credits[t],
         order'[o].status \in {"picked_up", "on_the_way"} => sale'[o].driver = order'[o].driver,
         order'[o].status = "delivered"
           => order'[o].driver = None \/ sale'[o].driver = order'[o].driver,
         order'[o].status # "delivered" => sale'[o].status = "in_escrow",
         order'[o].status = "delivered" /\ order'[o].driver # None => credits'[o]["driver"] = 1
  PROVE  CalmInv'
<1>1. /\ WorkerInv' /\ Untouched(o)' /\ proc'[p].o = None
      /\ \A q \in Procs : q # p => proc'[q] = proc[q]
  BY CalmLeaves DEF CalmInv
<1>2. Delivers(o)'
  BY <1>1 DEF Delivers
<1>3. \A t \in SaleIds : t # o => Delivers(t)'
  BY <1>1, Elsewhere DEF CalmInv
<1> QED BY <1>1, <1>2, <1>3 DEF CalmInv

\* The order a save is about, and where it leaves the others.
LEMMA SavesStatus ==
  ASSUME TypeOK, NEW o \in SaleIds, NEW status, SetStatus(o, status)
  PROVE  /\ order'[o].status = status /\ order'[o].driver = order[o].driver
         /\ \A t \in SaleIds : t # o => order'[t] = order[t]
  BY DEF TypeOK, SetStatus

LEMMA SavesOrder ==
  ASSUME TypeOK, NEW o \in SaleIds, NEW row, order' = [order EXCEPT ![o] = row]
  PROVE  order'[o] = row /\ \A t \in SaleIds : t # o => order'[t] = order[t]
  BY DEF TypeOK

LEMMA BranchCalm ==
  ASSUME Calm, TypeOK, EscrowInv, CalmInv, NEW p \in Web, BranchNext(p)
  PROVE  CalmInv'
<1> USE DEF Procs, Steps, Driverless, StatusAt, counters, queues
<1>1. ASSUME NEW o \in SaleIds, Made(p, o) \/ Pickup(p, o) \/ Collect(p, o)
      PROVE  CalmInv'
  BY <1>1, CalmStart DEF Made, Pickup, Collect, Acts, Calm
<1>2. ASSUME NEW o \in SaleIds, CollectRaises(p, o)
      PROVE  CalmInv'
  BY <1>2 DEF CollectRaises, CalmInv, WorkerInv, AtWork, Idle, Delivers, Accepting, Untouched,
     sales, ledgers
<1>3. ASSUME ~Idle(p)
      PROVE  \E o \in SaleIds : o = proc[p].o
  BY <1>3, WorksOn DEF TypeOK, ProcType
<1>4. CASE MadeSave(p)
  <2>1. PICK o \in SaleIds : o = proc[p].o
    BY <1>3, <1>4 DEF MadeSave, Idle
  <2>2. order'[o].status = "ready" /\ \A t \in SaleIds : t # o => order'[t] = order[t]
    BY <1>4, <2>1, SavesStatus DEF MadeSave
  <2> QED BY <1>4, <2>1, <2>2, CalmMoves DEF MadeSave
<1>5. CASE CollectSave(p)
  <2>1. PICK o \in SaleIds : o = proc[p].o
    BY <1>3, <1>5 DEF CollectSave, Idle
  <2>2. /\ order'[o].status = "delivered" /\ order'[o].driver = order[o].driver
        /\ \A t \in SaleIds : t # o => order'[t] = order[t]
    BY <1>5, <2>1, SavesStatus DEF CollectSave
  <2>3. order[o].driver = None
    BY <1>5, <2>1, OnlyWorker DEF CollectSave, AtWork, Idle
  <2> QED BY <1>5, <2>1, <2>2, <2>3, CalmMoves DEF CollectSave
<1>6. CASE MadeFind(p)
  <2>1. PICK o \in SaleIds : o = proc[p].o
    BY <1>3, <1>6 DEF MadeFind, Idle
  <2>2. order[o].status = "ready" /\ sale[o].status = "in_escrow"
    BY <1>6, <2>1, OnlyWorker DEF MadeFind, AtWork, Idle
  <2> QED BY <1>6, <2>1, <2>2, CalmEnds DEF MadeFind, sales, ledgers
<1>7. CASE PickupSave(p)
  <2>1. PICK o \in SaleIds : o = proc[p].o
    BY <1>3, <1>7 DEF PickupSave, Idle
  <2>2. /\ order'[o].status = "on_the_way" /\ order'[o].driver = order[o].driver
        /\ \A t \in SaleIds : t # o => order'[t] = order[t]
    BY <1>7, <2>1, SavesStatus DEF PickupSave
  <2>3. order[o].status = "picked_up" /\ sale[o].status = "in_escrow" /\ ~Accepting(o)
    BY <1>7, <2>1, OnlyWorker DEF PickupSave, AtWork, Idle
  <2>4. sale[o].driver = order[o].driver
    BY <2>3 DEF CalmInv, Delivers
  <2> QED BY <1>7, <2>1, <2>2, <2>3, <2>4, CalmEnds DEF PickupSave, sales, ledgers
<1>8. CASE Credit(p)
  <2>1. PICK o \in SaleIds : o = proc[p].o
    BY <1>3, <1>8 DEF Credit, Idle
  <2>2. order[o].status = "delivered" /\ sale[o].status = "in_escrow"
    BY <1>8, <2>1, OnlyWorker DEF Credit, AtWork, Idle
  <2>3. order[o].driver = None \/ sale[o].driver = order[o].driver
    BY <2>2 DEF CalmInv, Delivers
  <2>4. CompleteService(o) /\ SalesType
    BY <1>8, <2>1, <2>2 DEF Credit, CanComplete, TypeOK
  <2>5. /\ sale'[o].driver = sale[o].driver
        /\ \A t \in SaleIds : t # o => sale'[t] = sale[t] /\ credits'[t] = credits[t]
    BY <2>4, Completes
  <2>6. order[o].driver # None => credits'[o]["driver"] = 1
    <3>1. order[o].driver # None => "driver" \in Payees(o)
      BY <2>3 DEF Payees
    <3>2. "driver" \in Parties /\ credits[o]["driver"] = 0
      BY <2>2 DEF EscrowInv, Parties
    <3> QED BY <2>4, <3>1, <3>2, Completes
  <2> QED BY <1>8, <2>1, <2>2, <2>3, <2>5, <2>6, CalmEnds DEF Credit
<1> QED BY <1>1, <1>2, <1>4, <1>5, <1>6, <1>7, <1>8 DEF BranchNext

LEMMA DriverCalm ==
  ASSUME Calm, TypeOK, CalmInv, NEW p \in Web, DriverNext(p)
  PROVE  CalmInv'
<1> USE DEF Procs, Steps, Driverless, StatusAt, counters, queues
<1>1. ASSUME NEW o \in SaleIds, Accept(p, o) \/ Reject(p, o) \/ Deliver(p, o)
      PROVE  CalmInv'
  <2>1. order[o].driver \in Drivers
    BY <1>1 DEF TypeOK, Accept, Reject, Deliver
  <2> QED BY <1>1, <2>1, CalmStart DEF Accept, Reject, Deliver, Acts, Calm
<1>2. ASSUME ~Idle(p)
      PROVE  \E o \in SaleIds : o = proc[p].o
  BY <1>2, WorksOn DEF TypeOK, ProcType
<1>3. CASE AcceptSave(p)
  <2>1. PICK o \in SaleIds : o = proc[p].o
    BY <1>2, <1>3 DEF AcceptSave, Idle
  <2>2. /\ order'[o].status = "picked_up" /\ order'[o].driver = order[o].driver
        /\ \A t \in SaleIds : t # o => order'[t] = order[t]
    BY <1>3, <2>1, SavesStatus DEF AcceptSave
  <2>3. order[o].driver = proc[p].d
    BY <1>3, <2>1, OnlyWorker DEF AcceptSave, AtWork, Idle
  <2> QED BY <1>3, <2>1, <2>2, <2>3, CalmMoves DEF AcceptSave
<1>4. CASE DeliverSave(p)
  <2>1. PICK o \in SaleIds : o = proc[p].o
    BY <1>2, <1>4 DEF DeliverSave, Idle
  <2>2. /\ order'[o].status = "delivered" /\ order'[o].driver = order[o].driver
        /\ \A t \in SaleIds : t # o => order'[t] = order[t]
    BY <1>4, <2>1, SavesStatus DEF DeliverSave
  <2>3. order[o].status = "on_the_way" /\ ~Accepting(o)
    BY <1>4, <2>1, OnlyWorker DEF DeliverSave, AtWork, Idle
  <2>4. sale[o].driver = order[o].driver
    BY <2>3 DEF CalmInv, Delivers
  <2> QED BY <1>4, <2>1, <2>2, <2>4, CalmMoves DEF DeliverSave
<1>5. CASE DeliverDriver(p)
  <2>1. PICK o \in SaleIds : o = proc[p].o
    BY <1>2, <1>5 DEF DeliverDriver, Idle
  <2>2. order[o].status = "delivered" /\ order' = order
    BY <1>5, <2>1, OnlyWorker DEF DeliverDriver, AtWork, Idle
  <2>3. order[o].driver = None \/ sale[o].driver = order[o].driver
    BY <2>2 DEF CalmInv, Delivers
  <2> QED BY <1>5, <2>1, <2>2, <2>3, CalmMoves DEF DeliverDriver
<1>6. CASE AcceptSale(p)
  <2>1. PICK o \in SaleIds : o = proc[p].o
    BY <1>2, <1>6 DEF AcceptSale, Idle
  <2>2. /\ order[o].status = "picked_up" /\ sale[o].status = "in_escrow"
        /\ order[o].driver = proc[p].d
    BY <1>6, <2>1, OnlyWorker DEF AcceptSale, AtWork, Idle
  <2>3. /\ sale' = [sale EXCEPT ![o].driver = proc[p].d] /\ UNCHANGED <<order, credits>>
        /\ SalesType
    BY <1>6, <2>1 DEF AcceptSale, AssignSaleDriver, ledgers, TypeOK
  <2>4. /\ sale'[o].driver = proc[p].d /\ sale'[o].status = "in_escrow"
        /\ \A t \in SaleIds : t # o => sale'[t] = sale[t]
    BY <2>2, <2>3 DEF SalesType
  <2> QED BY <1>6, <2>1, <2>2, <2>3, <2>4, CalmEnds DEF AcceptSale
<1> QED BY <1>1, <1>3, <1>4, <1>5, <1>6 DEF DriverNext

LEMMA TaskCalm ==
  ASSUME Calm, TypeOK, CalmInv, NEW p \in Celery, TaskNext(p)
  PROVE  CalmInv'
<1> USE DEF Procs, Steps, Driverless, StatusAt, counters, queues
<1>1. ASSUME UNCHANGED <<order, sales, proc>>
      PROVE  CalmInv'
  BY <1>1 DEF CalmInv, WorkerInv, AtWork, Idle, Delivers, Accepting, Untouched, sales, ledgers
<1>2. ASSUME NEW m \in Search, FindStale(p, m) \/ FindGivesUp(p, m) \/ FindNobody(p, m)
      PROVE  CalmInv'
  BY <1>1, <1>2 DEF FindStale, FindGivesUp, FindNobody
<1>3. ASSUME NEW m \in Search, NEW d \in Drivers, Find(p, m, d)
      PROVE  CalmInv'
  <2>1. m.o \in SaleIds
    BY DEF Search
  <2> QED BY <1>3, <2>1, CalmStart DEF Find, Calm
<1>4. ASSUME NEW o \in SaleIds, NEW d \in Drivers, Timeout(p, o, d)
      PROVE  CalmInv'
  <2>1. CASE order[o] = [status |-> "driver_assigned", driver |-> d]
    BY <1>4, <2>1, CalmStart DEF Timeout, Calm
  <2>2. CASE order[o] # [status |-> "driver_assigned", driver |-> d]
    BY <1>1, <1>4, <2>2 DEF Timeout
  <2> QED BY <2>1, <2>2
<1>5. ASSUME ~Idle(p)
      PROVE  \E o \in SaleIds : o = proc[p].o
  BY <1>5, WorksOn DEF TypeOK, ProcType
<1>6. CASE FindSaveOrder(p)
  <2>1. PICK o \in SaleIds : o = proc[p].o
    BY <1>5, <1>6 DEF FindSaveOrder, Idle
  <2>2. /\ order'[o] = [status |-> "driver_assigned", driver |-> proc[p].d]
        /\ \A t \in SaleIds : t # o => order'[t] = order[t]
    BY <1>6, <2>1, SavesOrder DEF FindSaveOrder
  <2> QED BY <1>6, <2>1, <2>2, CalmMoves DEF FindSaveOrder
<1>7. CASE FindSaveDriver(p)
  <2>1. PICK o \in SaleIds : o = proc[p].o
    BY <1>5, <1>7 DEF FindSaveDriver, Idle
  <2>2. order[o].status = "driver_assigned" /\ order' = order
    BY <1>7, <2>1, OnlyWorker DEF FindSaveDriver, AtWork, Idle
  <2> QED BY <1>7, <2>1, <2>2, CalmMoves DEF FindSaveDriver
<1>8. CASE FindTimer(p)
  <2>1. PICK o \in SaleIds : o = proc[p].o
    BY <1>5, <1>8 DEF FindTimer, Idle
  <2>2. order[o].status = "driver_assigned" /\ sale[o].status = "in_escrow"
    BY <1>8, <2>1, OnlyWorker DEF FindTimer, AtWork, Idle
  <2> QED BY <1>8, <2>1, <2>2, CalmEnds DEF FindTimer, sales, ledgers
<1> QED BY <1>2, <1>3, <1>4, <1>6, <1>7, <1>8 DEF TaskNext

LEMMA ReleaseCalm ==
  ASSUME TypeOK, CalmInv, NEW p \in Procs, ReleaseNext(p)
  PROVE  CalmInv'
<1> USE DEF Steps, Driverless, StatusAt, counters, queues
<1>1. PICK o \in SaleIds : o = proc[p].o
  BY WorksOn DEF TypeOK, ProcType, ReleaseNext, Release, ReleaseDriver, ReleaseFind, Idle
<1>2. CASE Release(p)
  <2>1. /\ order'[o] = [status |-> "ready", driver |-> None]
        /\ \A t \in SaleIds : t # o => order'[t] = order[t]
    BY <1>1, <1>2, SavesOrder DEF Release
  <2> QED BY <1>1, <1>2, <2>1, CalmMoves DEF Release
<1>3. CASE ReleaseDriver(p)
  <2>1. order[o].status = "ready" /\ order' = order
    BY <1>1, <1>3, OnlyWorker DEF ReleaseDriver, AtWork, Idle
  <2> QED BY <1>1, <1>3, <2>1, CalmMoves DEF ReleaseDriver
<1>4. CASE ReleaseFind(p)
  <2>1. order[o].status = "ready" /\ sale[o].status = "in_escrow"
    BY <1>1, <1>4, OnlyWorker DEF ReleaseFind, AtWork, Idle
  <2> QED BY <1>1, <1>4, <2>1, CalmEnds DEF ReleaseFind, sales, ledgers
<1> QED BY <1>2, <1>3, <1>4 DEF ReleaseNext

LEMMA InitCalmInv == Init => CalmInv
<1> SUFFICES ASSUME Init PROVE CalmInv
  OBVIOUS
<1>1. \A p \in Procs : Idle(p) /\ proc[p].o = None
  BY DEF Init, NoJob, Job, Idle
<1>2. \A o \in SaleIds : order[o].status = "preparing" /\ sale[o].status = "in_escrow"
  BY DEF Init, SalesInit, NoSale
<1> QED BY <1>1, <1>2 DEF CalmInv, WorkerInv, Delivers

LEMMA NextCalmInv ==
  ASSUME Calm, TypeOK, EscrowInv, CalmInv, [Next]_vars
  PROVE  CalmInv'
<1>1. ASSUME NEW p \in Web, AdminNext(p) PROVE FALSE
  BY <1>1 DEF AdminNext, AdminAssign, AdminDriver, Calm, CalmInv, WorkerInv, AtWork, Idle, Procs
<1>2. ASSUME NEW p \in Procs, Crash(p) PROVE FALSE
  BY <1>2 DEF Crash, Calm, TypeOK
<1>3. CASE UNCHANGED <<order, sales, proc>>
  BY <1>3 DEF CalmInv, WorkerInv, AtWork, Idle, Delivers, Accepting, Untouched, sales, ledgers
<1>4. ASSUME NEW d \in Drivers, SetAvailable(d) PROVE CalmInv'
  BY <1>3, <1>4 DEF SetAvailable
<1>5. CASE UNCHANGED vars
  BY <1>3, <1>5 DEF vars
<1> QED BY <1>1, <1>2, <1>4, <1>5, BranchCalm, DriverCalm, TaskCalm, ReleaseCalm DEF Next

\* Among any number of orders, drivers and processes, the driver named by a
\* delivered order is the one its sale is split with, and he is credited
\* exactly once: nobody delivers an order before his acceptance has reached
\* the sale, when handlers of one order do not overlap.
THEOREM DelivererPaid == ASSUME Calm PROVE Spec => []DelivererIsPaid
<1>1. Init => TypeOK /\ EscrowInv /\ CalmInv
  BY InitTypeOK, InitEscrowInv, InitCalmInv
<1>2. TypeOK /\ EscrowInv /\ CalmInv /\ [Next]_vars => (TypeOK /\ EscrowInv /\ CalmInv)'
  BY NextTypeOK, NextEscrowInv, NextCalmInv
<1>3. CalmInv => DelivererIsPaid
  BY DEF CalmInv, Delivers, DelivererIsPaid
<1> QED BY <1>1, <1>2, <1>3, PTL DEF Spec

-----------------------------------------------------------------------------
(* Orders and drivers tell one matching, when besides one Celery process    *)
(* runs the searches.                                                       *)

OneSearcher == \A p, q \in Celery : p = q

Finding == {"find_order", "find_driver"}        \* the driver is still free
Holding == {"find_driver", "release", "deliver"}  \* the order names the driver
Freeing == {"release_driver", "deliver_driver"}   \* only the driver row is left
Involved == Finding \union Holding \union Freeing

Matching(o) == \E p \in Procs : proc[p].o = o /\ proc[p].at = "find_driver"
Freed(o, d) == \E p \in Procs : proc[p].o = o /\ proc[p].d = d /\ proc[p].at \in Freeing

HandlerMatch(p) ==
  /\ proc[p].at \in Finding => p \in Celery /\ driver[proc[p].d].current = None
  /\ proc[p].at \in Holding => order[proc[p].o].driver = proc[p].d
  /\ proc[p].at \in Freeing => driver[proc[p].d].current = proc[p].o
OrderMatch(o) ==
  /\ order[o].status \in {"preparing", "ready"} => order[o].driver = None
  /\ order[o].status \in Active =>
       /\ order[o].driver \in Drivers
       /\ Matching(o) \/ driver[order[o].driver].current = o
DriverMatch(d) ==
  \A o \in SaleIds : driver[d].current = o => o \in Carries(d) \/ Freed(o, d)

\* The two rows of a match agree except between the two saves of a handler.
MatchInv ==
  /\ \A p \in Procs : HandlerMatch(p)
  /\ \A o \in SaleIds : OrderMatch(o)
  /\ \A d \in Drivers : DriverMatch(d)

\* What the other busy processes work on.
LEMMA Others ==
  ASSUME TypeOK, CalmInv, NEW p \in Procs, NEW o \in SaleIds, proc[p].o = o, ~Idle(p)
  PROVE  \A q \in Procs : q # p /\ ~Idle(q) => proc[q].o \in SaleIds /\ proc[q].o # o
  BY OnlyWorker, WorksOn DEF TypeOK, ProcType

LEMMA InvolvedDrivers ==
  ASSUME TypeOK, NEW q \in Procs, proc[q].at \in Involved
  PROVE  proc[q].d \in Drivers /\ proc[q].o \in SaleIds /\ ~Idle(q)
<1>1. proc[q].at \notin Driverless /\ ~Idle(q)
  BY DEF Involved, Finding, Holding, Freeing, Driverless, Idle
<1> QED BY <1>1, WorksOn DEF TypeOK, ProcType

\* Steps that no match changes in.
LEMMA SameMatch ==
  ASSUME TypeOK, MatchInv,
         \A d \in Drivers : driver'[d].current = driver[d].current,
         \A q \in Procs : proc[q].at \in Involved \/ proc'[q].at \in Involved
                            => proc'[q] = proc[q],
         \A t \in SaleIds :
           /\ order'[t].driver = order[t].driver
           /\ order'[t].status \in Active <=> order[t].status \in Active
           /\ order'[t].status \in {"preparing", "ready"}
                => order[t].status \in {"preparing", "ready"}
  PROVE  MatchInv'
<1>1. ASSUME NEW q \in Procs PROVE HandlerMatch(q)'
  <2>1. CASE proc'[q].at \in Involved
    <3>1. proc'[q] = proc[q] /\ proc[q].d \in Drivers /\ proc[q].o \in SaleIds
      BY <2>1, InvolvedDrivers
    <3> QED BY <3>1 DEF MatchInv, HandlerMatch
  <2>2. CASE proc'[q].at \notin Involved
    BY <2>2 DEF HandlerMatch, Involved
  <2> QED BY <2>1, <2>2
<1>2. ASSUME NEW t \in SaleIds, Matching(t) PROVE Matching(t)'
  BY <1>2 DEF Matching, Involved, Finding
<1>3. ASSUME NEW t \in SaleIds PROVE OrderMatch(t)'
  BY <1>2 DEF MatchInv, OrderMatch
<1>4. ASSUME NEW t \in SaleIds, NEW d \in Drivers, Freed(t, d) PROVE Freed(t, d)'
  BY <1>4 DEF Freed, Involved
<1>5. ASSUME NEW d \in Drivers PROVE DriverMatch(d)'
  BY <1>4 DEF MatchInv, DriverMatch, Carries
<1> QED BY <1>1, <1>3, <1>5 DEF MatchInv

\* A handler that is about no match starts, goes on or ends.
LEMMA AsideMatch ==
  ASSUME TypeOK, MatchInv, NEW p \in Procs, proc[p].at \notin Involved,
         proc'[p].at \notin Involved, \A q \in Procs : q # p => proc'[q] = proc[q],
         UNCHANGED driver,
         \A t \in SaleIds :
           /\ order'[t].driver = order[t].driver
           /\ order'[t].status \in Active <=> order[t].status \in Active
           /\ order'[t].status \in {"preparing", "ready"}
                => order[t].status \in {"preparing", "ready"}
  PROVE  MatchInv'
  BY SameMatch

\* A step of p between its matching steps disturbs no other handler's match,
\* nor another order's, when it leaves their rows alone.
LEMMA MatchElsewhere ==
  ASSUME TypeOK, CalmInv, MatchInv, NEW p \in Procs, NEW o \in SaleIds,
         proc[p].o = o, proc'[p].o = o \/ proc'[p].o = None, ~Idle(p),
         \A q \in Procs : q # p => proc'[q] = proc[q],
         \A t \in SaleIds : t # o => order'[t] = order[t]
  PROVE  /\ \A q \in Procs : q # p => proc'[q] = proc[q] /\ (~Idle(q) => order'[proc[q].o] = order[proc[q].o])
         /\ \A t \in SaleIds : t # o => (Matching(t)' <=> Matching(t))
         /\ \A t \in SaleIds, d \in Drivers : t # o => (Freed(t, d)' <=> Freed(t, d))
         /\ \A t \in SaleIds, d \in Drivers : t # o => (t \in Carries(d)' <=> t \in Carries(d))
<1>1. \A q \in Procs : q # p /\ ~Idle(q) => order'[proc[q].o] = order[proc[q].o]
  BY Others
<1>2. \A t \in SaleIds, q \in Procs : t # o /\ (proc[q].o = t \/ proc'[q].o = t) => proc'[q] = proc[q]
  BY DispatchAssumption
<1>3. \A t \in SaleIds : t # o => (Matching(t)' <=> Matching(t))
  BY <1>2 DEF Matching
<1>4. \A t \in SaleIds, d \in Drivers : t # o => (Freed(t, d)' <=> Freed(t, d))
  BY <1>2 DEF Freed
<1>5. \A t \in SaleIds, d \in Drivers : t # o => (t \in Carries(d)' <=> t \in Carries(d))
  BY DEF Carries
<1> QED BY <1>1, <1>3, <1>4, <1>5

\* find_and_assign_driver's two saves.
LEMMA MatchOrder ==
  ASSUME OneSearcher, TypeOK, CalmInv, MatchInv, NEW p \in Celery, FindSaveOrder(p)
  PROVE  MatchInv'
<1> USE DEF Procs
<1>1. PICK o \in SaleIds, d \in Drivers : o = proc[p].o /\ d = proc[p].d /\ ~Idle(p)
  BY WorksOn DEF FindSaveOrder, Idle, TypeOK, ProcType, Driverless
<1>2. /\ order'[o] = [status |-> "driver_assigned", driver |-> d]
      /\ \A t \in SaleIds : t # o => order'[t] = order[t]
      /\ driver' = driver
  <2>1. order' = [order EXCEPT ![o] = [status |-> "driver_assigned", driver |-> d]]
    BY <1>1 DEF FindSaveOrder
  <2>2. driver' = driver
    BY DEF FindSaveOrder
  <2> QED BY <2>1, <2>2, SavesOrder
<1>3. /\ proc'[p] = Job("find_driver", o, d)
      /\ \A q \in Procs : q # p => proc'[q] = proc[q]
  BY <1>1, MovesThere DEF FindSaveOrder, TypeOK, ProcType, Steps, Driverless
<1>4. proc'[p].at = "find_driver" /\ proc'[p].o = o /\ proc'[p].d = d
  BY <1>3 DEF Job
<1>5. /\ driver[d].current = None /\ order[o].status = "ready"
      /\ \A q \in Procs : proc[q].o = o => q = p
  BY <1>1, OnlyWorker DEF FindSaveOrder, MatchInv, HandlerMatch, Finding, AtWork, StatusAt
<1>6. HandlerMatch(p)'
  BY <1>2, <1>4, <1>5 DEF HandlerMatch, Finding, Holding, Freeing
<1>7. ASSUME NEW q \in Procs, q # p PROVE HandlerMatch(q)'
  BY <1>1, <1>2, <1>3, <1>4, <1>7, MatchElsewhere DEF MatchInv, HandlerMatch, Finding, Holding, Freeing, Idle
<1>8. OrderMatch(o)'
  BY <1>2, <1>4 DEF OrderMatch, Matching
<1>9. ASSUME NEW t \in SaleIds, t # o PROVE OrderMatch(t)'
  BY <1>1, <1>2, <1>3, <1>4, <1>9, MatchElsewhere DEF MatchInv, OrderMatch
<1>10. ASSUME NEW e \in Drivers PROVE driver[e].current # o
  BY <1>1, <1>5 DEF FindSaveOrder, MatchInv, DriverMatch, Carries, Active, Freed, Freeing
<1>11. ASSUME NEW e \in Drivers PROVE DriverMatch(e)'
  BY <1>1, <1>2, <1>3, <1>4, <1>10, MatchElsewhere DEF MatchInv, DriverMatch
<1> QED BY <1>6, <1>7, <1>8, <1>9, <1>11 DEF MatchInv

LEMMA MatchDriver ==
  ASSUME OneSearcher, TypeOK, CalmInv, MatchInv, NEW p \in Celery, FindSaveDriver(p)
  PROVE  MatchInv'
<1> USE DEF Procs
<1>1. PICK o \in SaleIds, d \in Drivers : o = proc[p].o /\ d = proc[p].d /\ ~Idle(p)
  BY WorksOn DEF FindSaveDriver, Idle, TypeOK, ProcType, Driverless
<1>2. /\ driver'[d].current = o
      /\ \A e \in Drivers : e # d => driver'[e] = driver[e]
      /\ order' = order
  BY <1>1 DEF FindSaveDriver, SetDriver, Busy, TypeOK
<1>3. /\ proc'[p] = Job("find_timer", o, d)
      /\ \A q \in Procs : q # p => proc'[q] = proc[q]
  BY <1>1, MovesThere DEF FindSaveDriver, TypeOK, ProcType, Steps, Driverless
<1>4. proc'[p].at = "find_timer" /\ proc'[p].o = o /\ proc'[p].d = d
  BY <1>3 DEF Job
<1>5. /\ driver[d].current = None /\ order[o].status = "driver_assigned" /\ order[o].driver = d
      /\ \A q \in Procs : proc[q].o = o => q = p
  BY <1>1, OnlyWorker
     DEF FindSaveDriver, MatchInv, HandlerMatch, Finding, Holding, AtWork, StatusAt
<1>6. HandlerMatch(p)'
  BY <1>4 DEF HandlerMatch, Finding, Holding, Freeing
<1>7. ASSUME NEW q \in Procs, q # p PROVE HandlerMatch(q)'
  <2>1. proc'[q] = proc[q] /\ proc[q].at \notin Finding
    BY <1>1, <1>3, <1>7 DEF FindSaveDriver, MatchInv, HandlerMatch, OneSearcher, Finding
  <2>2. proc[q].at \in Freeing => proc[q].d # d /\ proc[q].d \in Drivers
    BY <1>5, InvolvedDrivers, DispatchAssumption DEF MatchInv, HandlerMatch, Involved
  <2> QED BY <1>2, <2>1, <2>2 DEF MatchInv, HandlerMatch
<1>8. OrderMatch(o)'
  BY <1>2, <1>5 DEF OrderMatch
<1>9. ASSUME NEW t \in SaleIds, t # o PROVE OrderMatch(t)'
  <2>1. ~Matching(t)
    BY <1>1, <1>9 DEF Matching, FindSaveDriver, MatchInv, HandlerMatch, OneSearcher, Finding
  <2>2. order[t].status \in Active => order[t].driver # d
    BY <1>5, <2>1, DispatchAssumption DEF MatchInv, OrderMatch
  <2> QED BY <1>2, <2>1, <2>2 DEF MatchInv, OrderMatch
<1>10. ASSUME NEW e \in Drivers PROVE DriverMatch(e)'
  <2>1. \A t \in SaleIds : Freed(t, e) => Freed(t, e)'
    BY <1>1, <1>3 DEF Freed, FindSaveDriver, Freeing
  <2>2. o \in Carries(d)'
    BY <1>2, <1>5 DEF Carries, Active
  <2> QED BY <1>2, <2>1, <2>2, DispatchAssumption DEF MatchInv, DriverMatch, Carries
<1> QED BY <1>6, <1>7, <1>8, <1>9, <1>10 DEF MatchInv

\* The saves that take an order from its driver: a release or a delivery.
LEMMA UnmatchOrder ==
  ASSUME TypeOK, CalmInv, MatchInv, NEW p \in Procs, Release(p) \/ DeliverSave(p)
  PROVE  MatchInv'
<1>1. PICK o \in SaleIds, d \in Drivers : o = proc[p].o /\ d = proc[p].d /\ ~Idle(p)
  BY WorksOn DEF Release, DeliverSave, Idle, TypeOK, ProcType, Driverless
<1>2. /\ \/ order'[o].status = "ready" /\ order'[o].driver = None
         \/ order'[o].status = "delivered"
      /\ \A t \in SaleIds : t # o => order'[t] = order[t]
      /\ driver' = driver
  <2>1. CASE Release(p)
    <3>1. /\ order'[o] = [status |-> "ready", driver |-> None]
          /\ \A t \in SaleIds : t # o => order'[t] = order[t]
      BY <1>1, <2>1, SavesOrder DEF Release
    <3> QED BY <2>1, <3>1 DEF Release
  <2>2. CASE DeliverSave(p)
    BY <1>1, <2>2, SavesStatus DEF DeliverSave
  <2> QED BY <2>1, <2>2
<1>3. /\ proc'[p] = Job("release_driver", o, d) \/ proc'[p] = Job("deliver_driver", o, d)
      /\ \A q \in Procs : q # p => proc'[q] = proc[q]
  BY <1>1, MovesThere DEF Release, DeliverSave, TypeOK, ProcType, Steps, Driverless
<1>4. proc'[p].at \in Freeing /\ proc'[p].o = o /\ proc'[p].d = d
  BY <1>3 DEF Job, Freeing
<1>5. /\ order[o].driver = d /\ order[o].status \in Active
      /\ \A q \in Procs : proc[q].o = o => q = p
  BY <1>1, OnlyWorker
     DEF Release, DeliverSave, MatchInv, HandlerMatch, Holding, AtWork, StatusAt, Active
<1>6. driver[d].current = o
  <2>1. ~Matching(o)
    BY <1>1, <1>5 DEF Matching, Release, DeliverSave
  <2> QED BY <1>5, <2>1 DEF MatchInv, OrderMatch
<1>7. HandlerMatch(p)'
  BY <1>2, <1>4, <1>6 DEF HandlerMatch, Finding, Holding, Freeing
<1>8. ASSUME NEW q \in Procs, q # p PROVE HandlerMatch(q)'
  BY <1>1, <1>2, <1>3, <1>4, <1>8, MatchElsewhere DEF MatchInv, HandlerMatch, Finding, Holding, Freeing, Idle
<1>9. OrderMatch(o)'
  BY <1>2 DEF OrderMatch, Active
<1>10. ASSUME NEW t \in SaleIds, t # o PROVE OrderMatch(t)'
  BY <1>1, <1>2, <1>3, <1>4, <1>10, MatchElsewhere DEF MatchInv, OrderMatch
<1>11. ASSUME NEW e \in Drivers, driver[e].current = o PROVE Freed(o, e)'
  <2>1. e = d
    BY <1>1, <1>5, <1>11 DEF MatchInv, DriverMatch, Carries, Freed, Release, DeliverSave, Freeing
  <2> QED BY <1>4, <2>1 DEF Freed
<1>12. ASSUME NEW e \in Drivers PROVE DriverMatch(e)'
  BY <1>1, <1>2, <1>3, <1>4, <1>11, MatchElsewhere DEF MatchInv, DriverMatch
<1> QED BY <1>7, <1>8, <1>9, <1>10, <1>12 DEF MatchInv

\* The saves that free the driver.
LEMMA UnmatchDriver ==
  ASSUME TypeOK, CalmInv, MatchInv, NEW p \in Procs, ReleaseDriver(p) \/ DeliverDriver(p)
  PROVE  MatchInv'
<1>1. PICK o \in SaleIds, d \in Drivers : o = proc[p].o /\ d = proc[p].d /\ ~Idle(p)
  BY WorksOn DEF ReleaseDriver, DeliverDriver, Idle, TypeOK, ProcType, Driverless
<1>2. /\ driver'[d].current = None
      /\ \A e \in Drivers : e # d => driver'[e] = driver[e]
      /\ order' = order
  BY <1>1 DEF ReleaseDriver, DeliverDriver, SetDriver, Free, TypeOK
<1>3. /\ proc'[p] = Job("release_find", o, d) \/ proc'[p] = Job("credit", o, d)
      /\ \A q \in Procs : q # p => proc'[q] = proc[q]
  BY <1>1, MovesThere DEF ReleaseDriver, DeliverDriver, TypeOK, ProcType, Steps, Driverless
<1>4. proc'[p].at \in {"release_find", "credit"} /\ proc'[p].o = o /\ proc'[p].d = d
  BY <1>3 DEF Job
<1>5. /\ driver[d].current = o /\ order[o].status \notin Active
      /\ \A q \in Procs : proc[q].o = o => q = p
  BY <1>1, OnlyWorker
     DEF ReleaseDriver, DeliverDriver, MatchInv, HandlerMatch, Freeing, AtWork, StatusAt, Active
<1>6. HandlerMatch(p)'
  BY <1>4 DEF HandlerMatch, Finding, Holding, Freeing
<1>7. ASSUME NEW q \in Procs, q # p PROVE HandlerMatch(q)'
  <2>1. proc'[q] = proc[q]
    BY <1>3, <1>7
  <2>2. proc[q].at \in Freeing => proc[q].d # d /\ proc[q].d \in Drivers
    BY <1>5, <1>7, InvolvedDrivers DEF MatchInv, HandlerMatch, Involved
  <2>3. proc[q].at \in Finding => proc[q].d \in Drivers
    BY InvolvedDrivers DEF Involved
  <2> QED BY <1>2, <2>1, <2>2, <2>3 DEF MatchInv, HandlerMatch
<1>8. ASSUME NEW t \in SaleIds PROVE OrderMatch(t)'
  <2>1. Matching(t) => Matching(t)'
    BY <1>1, <1>3 DEF Matching, ReleaseDriver, DeliverDriver
  <2>2. order[t].status \in Active /\ ~Matching(t) => order[t].driver # d
    BY <1>5 DEF MatchInv, OrderMatch
  <2> QED BY <1>2, <2>1, <2>2 DEF MatchInv, OrderMatch
<1>9. ASSUME NEW e \in Drivers PROVE DriverMatch(e)'
  <2>1. \A t \in SaleIds : e # d /\ Freed(t, e) => Freed(t, e)'
    BY <1>1, <1>3 DEF Freed
  <2> QED BY <1>2, <2>1, DispatchAssumption DEF MatchInv, DriverMatch, Carries
<1> QED BY <1>6, <1>7, <1>8, <1>9 DEF MatchInv

\* A handler that is about a match starts.
LEMMA MatchStart ==
  ASSUME TypeOK, CalmInv, MatchInv, NEW p \in Procs, NEW o \in SaleIds, NEW d \in Drivers,
         NEW at \in {"find_order", "release", "deliver"},
         Idle(p), Goes(p, at, o, d), UNCHANGED <<order, driver>>,
         at = "find_order" => p \in Celery /\ driver[d].current = None,
         at # "find_order" => order[o].driver = d
  PROVE  MatchInv'
<1>1. proc'[p] = Job(at, o, d) /\ \A q \in Procs : q # p => proc'[q] = proc[q]
  BY GoesThere DEF TypeOK, ProcType, Steps, Driverless
<1>2. proc'[p].at = at /\ proc'[p].o = o /\ proc'[p].d = d
  BY <1>1 DEF Job
<1>3. ASSUME NEW q \in Procs PROVE HandlerMatch(q)'
  BY <1>1, <1>2 DEF MatchInv, HandlerMatch, Finding, Holding, Freeing
<1>4. \A t \in SaleIds : Matching(t) => Matching(t)'
  BY <1>1 DEF Matching, Idle
<1>5. \A t \in SaleIds, e \in Drivers : Freed(t, e) => Freed(t, e)'
  BY <1>1 DEF Freed, Freeing, Idle
<1>6. \A t \in SaleIds : OrderMatch(t)'
  BY <1>4 DEF MatchInv, OrderMatch
<1>7. \A e \in Drivers : DriverMatch(e)'
  BY <1>5 DEF MatchInv, DriverMatch, Carries
<1> QED BY <1>3, <1>6, <1>7 DEF MatchInv

LEMMA BranchMatch ==
  ASSUME TypeOK, CalmInv, MatchInv, NEW p \in Web, BranchNext(p)
  PROVE  MatchInv'
<1> USE DEF Procs, Steps, Driverless
<1>0. ProcType /\ (~Idle(p) => proc[p].o \in SaleIds)
  BY WorksOn DEF TypeOK, ProcType
<1>1. ASSUME NEW o \in SaleIds, Made(p, o) \/ Pickup(p, o) \/ Collect(p, o)
      PROVE  MatchInv'
  <2>1. PICK at \in {"made", "pickup", "collect"} : Goes(p, at, o, None)
    BY <1>1 DEF Made, Pickup, Collect
  <2>2. proc'[p] = Job(at, o, None) /\ \A q \in Procs : q # p => proc'[q] = proc[q]
    BY <1>0, <2>1, GoesThere
  <2>3. proc[p].at \notin Involved /\ proc'[p].at \notin Involved
    BY <1>1, <2>2 DEF Made, Pickup, Collect, Acts, Idle, Job, Involved, Finding, Holding, Freeing
  <2> QED BY <1>1, <2>2, <2>3, AsideMatch DEF Made, Pickup, Collect
<1>2. ASSUME NEW o \in SaleIds PROVE ~CollectRaises(p, o)
  BY DEF CollectRaises, MatchInv, OrderMatch
<1>3. CASE MadeSave(p) \/ CollectSave(p)
  <2>1. /\ proc'[p].at \in {"made_find", "credit"} /\ proc[p].at \in {"made", "collect"}
        /\ \A q \in Procs : q # p => proc'[q] = proc[q]
    <3>1. /\ \/ proc'[p] = Job("made_find", proc[p].o, proc[p].d)
             \/ proc'[p] = Job("credit", proc[p].o, proc[p].d)
          /\ \A q \in Procs : q # p => proc'[q] = proc[q]
      BY <1>0, <1>3, MovesThere DEF MadeSave, CollectSave
    <3> QED BY <1>3, <3>1 DEF MadeSave, CollectSave, Job
  <2>2. PICK o \in SaleIds : o = proc[p].o
    BY <1>0, <1>3 DEF MadeSave, CollectSave, Idle
  <2>3. order[o].status \in {"preparing", "ready"}
    BY <1>3, <2>2, OnlyWorker DEF MadeSave, CollectSave, Idle, AtWork, StatusAt
  <2>4. /\ order'[o].status \in {"ready", "delivered"} /\ order'[o].driver = order[o].driver
        /\ \A t \in SaleIds : t # o => order'[t] = order[t]
    BY <1>3, <2>2, SavesStatus DEF MadeSave, CollectSave
  <2> QED BY <1>3, <2>1, <2>3, <2>4, AsideMatch
          DEF MadeSave, CollectSave, Active, Involved, Finding, Holding, Freeing
<1>4. CASE MadeFind(p) \/ PickupSave(p) \/ Credit(p)
  <2>1. /\ proc'[p].at = "idle" /\ proc[p].at \in {"made_find", "pickup", "credit"}
        /\ \A q \in Procs : q # p => proc'[q] = proc[q]
    BY <1>0, <1>4, EndsThere DEF MadeFind, PickupSave, Credit, NoJob, Job
  <2>2. ASSUME NEW t \in SaleIds
        PROVE  /\ order'[t].driver = order[t].driver
               /\ order'[t].status \in Active <=> order[t].status \in Active
               /\ order'[t].status \in {"preparing", "ready"}
                    => order[t].status \in {"preparing", "ready"}
    <3>1. CASE PickupSave(p)
      <4>1. PICK o \in SaleIds : o = proc[p].o
        BY <1>0, <3>1 DEF PickupSave, Idle
      <4>2. order[o].status = "picked_up"
        BY <3>1, <4>1, OnlyWorker DEF PickupSave, Idle, AtWork, StatusAt
      <4>3. /\ order'[o].status = "on_the_way" /\ order'[o].driver = order[o].driver
            /\ \A u \in SaleIds : u # o => order'[u] = order[u]
        BY <3>1, <4>1, SavesStatus DEF PickupSave
      <4> QED BY <4>2, <4>3 DEF Active
    <3>2. CASE MadeFind(p) \/ Credit(p)
      BY <3>2 DEF MadeFind, Credit
    <3> QED BY <1>4, <3>1, <3>2
  <2> QED BY <1>4, <2>1, <2>2, AsideMatch
          DEF MadeFind, PickupSave, Credit, Involved, Finding, Holding, Freeing
<1> QED BY <1>1, <1>2, <1>3, <1>4 DEF BranchNext

LEMMA DriverRowsMatch ==
  ASSUME TypeOK, CalmInv, MatchInv, NEW p \in Web, DriverNext(p)
  PROVE  MatchInv'
<1> USE DEF Procs, Steps, Driverless
<1>0. ProcType /\ (~Idle(p) => proc[p].o \in SaleIds)
  BY WorksOn DEF TypeOK, ProcType
<1>1. ASSUME NEW o \in SaleIds, Accept(p, o)
      PROVE  MatchInv'
  <2>1. order[o].driver \in Drivers
    BY <1>1 DEF TypeOK, Accept
  <2>2. /\ proc'[p] = Job("accept", o, order[o].driver)
        /\ \A q \in Procs : q # p => proc'[q] = proc[q]
    BY <1>0, <1>1, <2>1, GoesThere DEF Accept
  <2>3. proc[p].at \notin Involved /\ proc'[p].at \notin Involved
    BY <1>1, <2>2 DEF Accept, Acts, Idle, Job, Involved, Finding, Holding, Freeing
  <2> QED BY <1>1, <2>2, <2>3, AsideMatch DEF Accept
<1>2. ASSUME NEW o \in SaleIds, Reject(p, o) \/ Deliver(p, o)
      PROVE  MatchInv'
  <2>1. PICK d \in Drivers : d = order[o].driver
    BY <1>2 DEF TypeOK, Reject, Deliver
  <2>2. PICK at \in {"release", "deliver"} : Goes(p, at, o, d)
    BY <1>2, <2>1 DEF Reject, Deliver
  <2> QED BY <1>2, <2>1, <2>2, MatchStart DEF Reject, Deliver, Acts
<1>3. CASE AcceptSave(p)
  <2>1. /\ proc'[p].at = "accept_sale" /\ proc[p].at = "accept"
        /\ \A q \in Procs : q # p => proc'[q] = proc[q]
    <3>1. /\ proc'[p] = Job("accept_sale", proc[p].o, proc[p].d)
          /\ \A q \in Procs : q # p => proc'[q] = proc[q]
      BY <1>0, <1>3, MovesThere DEF AcceptSave
    <3> QED BY <1>3, <3>1 DEF AcceptSave, Job
  <2>2. PICK o \in SaleIds : o = proc[p].o
    BY <1>0, <1>3 DEF AcceptSave, Idle
  <2>3. order[o].status = "driver_assigned"
    BY <1>3, <2>2, OnlyWorker DEF AcceptSave, Idle, AtWork, StatusAt
  <2>4. /\ order'[o].status = "picked_up" /\ order'[o].driver = order[o].driver
        /\ \A t \in SaleIds : t # o => order'[t] = order[t]
    BY <1>3, <2>2, SavesStatus DEF AcceptSave
  <2> QED BY <1>3, <2>1, <2>3, <2>4, AsideMatch
          DEF AcceptSave, Active, Involved, Finding, Holding, Freeing
<1>4. CASE AcceptSale(p)
  <2>1. /\ proc'[p].at = "idle" /\ proc[p].at = "accept_sale"
        /\ \A q \in Procs : q # p => proc'[q] = proc[q]
    BY <1>0, <1>4, EndsThere DEF AcceptSale, NoJob, Job
  <2> QED BY <1>4, <2>1, AsideMatch DEF AcceptSale, Involved, Finding, Holding, Freeing
<1> QED BY <1>1, <1>2, <1>3, <1>4, UnmatchOrder, UnmatchDriver DEF DriverNext

LEMMA TaskMatch ==
  ASSUME OneSearcher, TypeOK, CalmInv, MatchInv, NEW p \in Celery, TaskNext(p)
  PROVE  MatchInv'
<1> USE DEF Procs, Steps, Driverless
<1>0. ProcType
  BY DEF TypeOK, ProcType
<1>1. ASSUME UNCHANGED <<order, driver, proc>> PROVE MatchInv'
  BY <1>1, SameMatch
<1>2. ASSUME NEW m \in Search, FindStale(p, m) \/ FindGivesUp(p, m) \/ FindNobody(p, m)
      PROVE  MatchInv'
  BY <1>1, <1>2 DEF FindStale, FindGivesUp, FindNobody
<1>3. ASSUME NEW m \in Search, NEW d \in Drivers, Find(p, m, d)
      PROVE  MatchInv'
  <2>1. m.o \in SaleIds /\ driver[d].current = None
    BY <1>3 DEF Search, Find, Candidates, Free
  <2> QED BY <1>3, <2>1, MatchStart DEF Find
<1>4. ASSUME NEW o \in SaleIds, NEW d \in Drivers, Timeout(p, o, d)
      PROVE  MatchInv'
  <2>1. CASE order[o] = [status |-> "driver_assigned", driver |-> d]
    BY <1>4, <2>1, MatchStart DEF Timeout
  <2>2. CASE order[o] # [status |-> "driver_assigned", driver |-> d]
    BY <1>1, <1>4, <2>2 DEF Timeout
  <2> QED BY <2>1, <2>2
<1>5. CASE FindTimer(p)
  <2>1. /\ proc'[p].at = "idle" /\ proc[p].at = "find_timer"
        /\ \A q \in Procs : q # p => proc'[q] = proc[q]
    BY <1>0, <1>5, EndsThere DEF FindTimer, NoJob, Job
  <2> QED BY <1>5, <2>1, AsideMatch DEF FindTimer, Involved, Finding, Holding, Freeing
<1> QED BY <1>2, <1>3, <1>4, <1>5, MatchOrder, MatchDriver DEF TaskNext

LEMMA ReleaseMatch ==
  ASSUME TypeOK, CalmInv, MatchInv, NEW p \in Procs, ReleaseNext(p)
  PROVE  MatchInv'
<1>1. CASE ReleaseFind(p)
  <2>1. /\ proc'[p].at = "idle" /\ proc[p].at = "release_find"
        /\ \A q \in Procs : q # p => proc'[q] = proc[q]
    BY <1>1, EndsThere DEF ReleaseFind, NoJob, Job, TypeOK, ProcType
  <2> QED BY <1>1, <2>1, AsideMatch DEF ReleaseFind, Involved, Finding, Holding, Freeing
<1> QED BY <1>1, UnmatchOrder, UnmatchDriver DEF ReleaseNext

LEMMA InitMatchInv == Init => MatchInv
<1> SUFFICES ASSUME Init PROVE MatchInv
  OBVIOUS
<1>1. \A p \in Procs : proc[p].at = "idle"
  BY DEF Init, NoJob, Job
<1>2. \A o \in SaleIds : order[o].status = "preparing" /\ order[o].driver = None
  BY DEF Init
<1>3. \A d \in Drivers : driver[d].current = None
  BY DEF Init, Free
<1> QED BY <1>1, <1>2, <1>3, DispatchAssumption
        DEF MatchInv, HandlerMatch, OrderMatch, DriverMatch, Finding, Holding, Freeing, Active

LEMMA NextMatchInv ==
  ASSUME Calm, OneSearcher, TypeOK, CalmInv, MatchInv, [Next]_vars
  PROVE  MatchInv'
<1>1. ASSUME NEW p \in Web, AdminNext(p) PROVE FALSE
  BY <1>1 DEF AdminNext, AdminAssign, AdminDriver, Calm, CalmInv, WorkerInv, AtWork, Idle, Procs
<1>2. ASSUME NEW p \in Procs, Crash(p) PROVE FALSE
  BY <1>2 DEF Crash, Calm, TypeOK
<1>3. ASSUME NEW d \in Drivers, SetAvailable(d) PROVE MatchInv'
  <2>1. \A e \in Drivers : driver'[e].current = driver[e].current
    BY <1>3 DEF SetAvailable, TypeOK
  <2> QED BY <1>3, <2>1, SameMatch DEF SetAvailable
<1>4. CASE UNCHANGED vars
  BY <1>4, SameMatch DEF vars
<1> QED BY <1>1, <1>2, <1>3, <1>4, BranchMatch, DriverRowsMatch, TaskMatch, ReleaseMatch DEF Next

\* A driver's row names one order, and so do the rows of the orders.
LEMMA MatchAgrees ==
  ASSUME OneSearcher, TypeOK, CalmInv, MatchInv
  PROVE  MatchingAgrees
<1>1. HasDriver
  BY SalesAssumption DEF HasDriver, MatchInv, OrderMatch
<1>2. ASSUME NEW d \in Drivers, NEW o \in SaleIds, NEW t \in SaleIds,
             o \in Carries(d), t \in Carries(d)
      PROVE  o = t
  <2>1. \A u \in SaleIds : u \in Carries(d) => Matching(u) \/ driver[d].current = u
    BY DEF MatchInv, OrderMatch, Carries
  <2>2. ASSUME NEW u \in SaleIds, u \in Carries(d), Matching(u)
        PROVE  driver[d].current = None
    BY <2>2 DEF Matching, MatchInv, HandlerMatch, Finding, Holding, Carries
  <2>3. Matching(o) /\ Matching(t) => o = t
    BY DEF Matching, MatchInv, HandlerMatch, Finding, OneSearcher
  <2> QED BY <1>2, <2>1, <2>2, <2>3, DispatchAssumption
<1>3. ASSUME NEW d \in Drivers PROVE Cardinality(Carries(d)) <= 1
  <2>1. CASE Carries(d) = {}
    BY <2>1, FS_EmptySet
  <2>2. ASSUME NEW o \in SaleIds, o \in Carries(d) PROVE Cardinality(Carries(d)) <= 1
    <3>1. Carries(d) = {o}
      BY <1>2, <2>2 DEF Carries
    <3> QED BY <3>1, FS_Singleton
  <2> QED BY <2>1, <2>2 DEF Carries
<1>4. ASSUME \A p \in Procs : Idle(p), NEW d \in Drivers, NEW o \in SaleIds
      PROVE  driver[d].current = o <=> o \in Carries(d)
  <2>1. ~Matching(o) /\ ~Freed(o, d)
    BY <1>4 DEF Idle, Matching, Freed, Freeing
  <2> QED BY <2>1 DEF MatchInv, OrderMatch, DriverMatch, Carries
<1> QED BY <1>1, <1>3, <1>4 DEF MatchingAgrees

\* Any number of orders compete for any number of drivers over any number of
\* web processes; with one Celery process and no two handlers on one order,
\* the orders' rows and the drivers' rows tell one matching: no driver is on
\* two orders, none is stranded by a rejection, a timeout or a delivery.
THEOREM OneMatching == ASSUME Calm, OneSearcher PROVE Spec => []MatchingAgrees
<1>1. Init => TypeOK /\ EscrowInv /\ CalmInv /\ MatchInv
  BY InitTypeOK, InitEscrowInv, InitCalmInv, InitMatchInv
<1>2. TypeOK /\ EscrowInv /\ CalmInv /\ MatchInv /\ [Next]_vars
        => (TypeOK /\ EscrowInv /\ CalmInv /\ MatchInv)'
  BY NextTypeOK, NextEscrowInv, NextCalmInv, NextMatchInv
<1>3. TypeOK /\ CalmInv /\ MatchInv => MatchingAgrees
  BY MatchAgrees
<1> QED BY <1>1, <1>2, <1>3, PTL DEF Spec
=============================================================================
