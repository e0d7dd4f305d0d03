---------------------------- MODULE OrdersProofs ----------------------------
(***************************************************************************)
(* Theorems about Orders, for every number of sales and processes and under *)
(* every hazard of the model: double submits, overlapping deliveries of an  *)
(* event, exceptions, crashes and direct use of the sale endpoints.         *)
(***************************************************************************)
EXTENDS Orders, FiniteSetTheorems, TLAPS

USE SalesAssumption, OrdersAssumption

(* The inductive invariant.  CreditedIsCharged needs two things more: only  *)
(* charged sales are ever in escrow, since the process that puts them there *)
(* works for a charged sale; and an order that is cooked has a sale, so that *)
(* the sale its hand-over completes exists.                                 *)

SaleRows == [SaleIds -> [status: SaleStatus, driver: Drivers \union {None},
                         fault: Fault \union {"none"}]]

\* The Sale rows and the ledger.
SalesInv ==
  /\ SalesType
  /\ \A s \in SaleIds : sale[s].status \in {"in_escrow", "completed", "refunded"}
                          => s \in charged
  /\ CreditedIsCharged

TableInv ==
  /\ order \in [status: OrderStatus, sale: SaleIds \union {None}, verified: BOOLEAN]
  /\ linked \subseteq SaleIds /\ charged \subseteq SaleIds /\ acked \subseteq SaleIds
  /\ log \in [SaleIds -> {"absent", "received", "processed"}]
  /\ timers \in Nat /\ crashes \in Nat /\ errors \in Nat

\* The processes: who works for a sale has one, who handles a charge has one
\* that was charged.
JobsInv ==
  /\ proc \in [Procs -> Jobs]
  /\ \A p \in Procs : /\ proc[p].at \in WithSale => proc[p].s \in SaleIds
                      /\ proc[p].at \in Charging => proc[p].s \in charged

OrderHasSale ==
  /\ order.status \in Paid \union {"payment_pending"} => order.sale # None
  /\ \A p \in Procs : proc[p].at \in {"c_save", "k_save"} => order.sale # None

ChargeInv == SalesInv /\ TableInv /\ JobsInv /\ OrderHasSale

-----------------------------------------------------------------------------
(* The transactions of Sales. *)

LEMMA InitializeSaleKeeps ==
  ASSUME SalesInv, NEW s \in SaleIds, InitializeSale(s), UNCHANGED charged
  PROVE  SalesInv'
  BY DEF SalesInv, SalesType, InitializeSale, ledgers, CreditedIsCharged, SaleStatus

LEMMA EscrowSaleKeeps ==
  ASSUME SalesInv, NEW s \in charged, s \in SaleIds, EscrowSale(s), UNCHANGED charged
  PROVE  SalesInv'
  BY DEF SalesInv, SalesType, EscrowSale, ledgers, CreditedIsCharged, SaleStatus

LEMMA CompleteServiceKeeps ==
  ASSUME SalesInv, NEW s \in SaleIds, CompleteService(s), UNCHANGED charged
  PROVE  SalesInv'
<1>1. s \in charged
  BY DEF SalesInv, CompleteService, CanComplete
<1>2. SalesType'
  <2>1. credits' \in [SaleIds -> [Parties -> Nat]]
    BY DEF SalesInv, SalesType, CompleteService, Parties
  <2>2. sale' \in SaleRows
    <3>1. sale \in SaleRows /\ sale' = [sale EXCEPT ![s].status = "completed"]
      BY DEF SalesInv, SalesType, SaleRows, CompleteService
    <3> QED BY <3>1 DEF SaleRows, SaleStatus
  <2>3. UNCHANGED <<reversals, compensated>>
    BY DEF CompleteService
  <2> QED BY <2>1, <2>2, <2>3 DEF SalesInv, SalesType, SaleRows
<1>3. \A t \in SaleIds : t # s => credits'[t] = credits[t] /\ sale'[t] = sale[t]
  BY DEF SalesInv, SalesType, CompleteService
<1> QED BY <1>1, <1>2, <1>3 DEF SalesInv, CreditedIsCharged

LEMMA ProcessRefundKeeps ==
  ASSUME SalesInv, NEW s \in SaleIds, NEW fault \in Fault, ProcessRefund(s, fault),
         UNCHANGED charged
  PROVE  SalesInv'
<1>1. s \in charged
  BY DEF SalesInv, ProcessRefund
<1>2. reversals' \in [SaleIds -> [Parties -> Nat]]
  BY DEF SalesInv, SalesType, ProcessRefund, ReverseEntries, Parties
<1>3. sale' \in SaleRows /\ \A t \in SaleIds : t # s => sale'[t] = sale[t]
  <2>1. /\ sale \in SaleRows
        /\ \/ sale' = [sale EXCEPT ![s].status = "refunded", ![s].fault = fault]
           \/ sale' = sale
    BY DEF SalesInv, SalesType, SaleRows, ProcessRefund
  <2> QED BY <2>1 DEF SaleRows, SaleStatus
<1>4. compensated' \subseteq SaleIds /\ UNCHANGED credits
  BY DEF SalesInv, SalesType, ProcessRefund
<1> QED BY <1>1, <1>2, <1>3, <1>4 DEF SalesInv, SalesType, SaleRows, CreditedIsCharged

\* What the operations of a sale write to the Sale rows.
LEMMA InitializeSaleWrites ==
  ASSUME SalesType, NEW s \in SaleIds, InitializeSale(s)
  PROVE  /\ sale[s].status = "none" /\ sale'[s].status = "pending"
         /\ \A t \in SaleIds : t # s => sale'[t] = sale[t]
<1>1. sale \in SaleRows
  BY DEF SalesType, SaleRows
<1>2. sale[s].status = "none" /\ sale' = [sale EXCEPT ![s].status = "pending"]
  BY DEF InitializeSale
<1> QED BY <1>1, <1>2 DEF SaleRows

LEMMA EscrowSaleWrites ==
  ASSUME SalesType, NEW s \in SaleIds, EscrowSale(s)
  PROVE  /\ sale'[s].status = "in_escrow"
         /\ \A t \in SaleIds : t # s => sale'[t] = sale[t]
<1>1. sale \in SaleRows
  BY DEF SalesType, SaleRows
<1>2. sale' = [sale EXCEPT ![s].status = "in_escrow"]
  BY DEF EscrowSale
<1> QED BY <1>1, <1>2 DEF SaleRows

LEMMA CompleteServiceWrites ==
  ASSUME SalesType, NEW s \in SaleIds, CompleteService(s)
  PROVE  /\ sale[s].status = "in_escrow" /\ sale'[s].status = "completed"
         /\ \A t \in SaleIds : t # s => sale'[t] = sale[t]
<1>1. sale \in SaleRows
  BY DEF SalesType, SaleRows
<1>2. sale[s].status = "in_escrow" /\ sale' = [sale EXCEPT ![s].status = "completed"]
  BY DEF CompleteService, CanComplete
<1> QED BY <1>1, <1>2 DEF SaleRows

LEMMA ProcessRefundWrites ==
  ASSUME SalesType, NEW s \in SaleIds, NEW fault \in Fault, ProcessRefund(s, fault)
  PROVE  /\ sale[s].status \in {"in_escrow", "completed"}
         /\ sale'[s].status = "refunded" \/ sale'[s] = sale[s]
         /\ \A t \in SaleIds : t # s => sale'[t] = sale[t]
<1>1. sale \in SaleRows
  BY DEF SalesType, SaleRows
<1>2. /\ sale[s].status \in {"in_escrow", "completed"}
      /\ \/ sale' = [sale EXCEPT ![s].status = "refunded", ![s].fault = fault]
         \/ sale' = sale
  BY DEF ProcessRefund
<1>3. CASE sale' = sale
  BY <1>2, <1>3
<1>4. CASE sale' = [sale EXCEPT ![s].status = "refunded", ![s].fault = fault]
  BY <1>1, <1>2, <1>4 DEF SaleRows
<1> QED BY <1>2, <1>3, <1>4

LEMMA SameSales ==
  ASSUME SalesInv, UNCHANGED <<sales, charged>>
  PROVE  SalesInv'
  BY DEF SalesInv, SalesType, sales, ledgers, CreditedIsCharged

-----------------------------------------------------------------------------
(* The processes. *)

JobSteps == {"idle"} \union Paying \union Charging \union Serving

LEMMA GoesKeeps ==
  ASSUME JobsInv, NEW p \in Procs, NEW at \in JobSteps, NEW s \in SaleIds \union {None},
         Goes(p, at, s), at \in WithSale => s \in SaleIds, at \in Charging => s \in charged,
         charged \subseteq charged'
  PROVE  JobsInv' /\ \A q \in Procs : q # p => proc'[q] = proc[q]
<1> DEFINE job == Job(at, s, "cancelled")
<1>1. job \in Jobs /\ job.at = at /\ job.s = s
  BY DEF Job, Jobs, JobSteps, OrderStatus
<1>2. proc' = [proc EXCEPT ![p] = job]
  BY DEF Goes
<1> HIDE DEF job
<1> QED BY <1>1, <1>2 DEF JobsInv

LEMMA EndsKeeps ==
  ASSUME JobsInv, NEW p \in Procs, Ends(p), charged \subseteq charged'
  PROVE  /\ JobsInv' /\ proc'[p].at = "idle"
         /\ \A q \in Procs : q # p => proc'[q] = proc[q]
<1>1. NoJob \in Jobs /\ NoJob.at = "idle"
  BY DEF NoJob, Job, Jobs, OrderStatus
<1>2. "idle" \notin WithSale \union Charging
  BY DEF WithSale, Charging, Serving
<1>3. proc' = [proc EXCEPT ![p] = NoJob]
  BY DEF Ends
<1> HIDE DEF NoJob
<1> QED BY <1>1, <1>2, <1>3 DEF JobsInv

LEMMA SameJobs ==
  ASSUME JobsInv, UNCHANGED proc, charged \subseteq charged'
  PROVE  JobsInv'
  BY DEF JobsInv

-----------------------------------------------------------------------------
(* The order keeps its sale. *)

LEMMA KeepsSale ==
  ASSUME ChargeInv, NEW p \in Procs, UNCHANGED order,
         \A q \in Procs : q # p => proc'[q] = proc[q],
         proc'[p].at \in {"c_save", "k_save"} => order.sale # None
  PROVE  OrderHasSale'
  BY DEF ChargeInv, OrderHasSale


-----------------------------------------------------------------------------
(* The customer. *)

\* Steps that only move a process to a step without a sale.
LEMMA OnlyMoves ==
  ASSUME ChargeInv, NEW p \in Procs, NEW at \in {"p_init", "p_fail"}, Goes(p, at, None),
         UNCHANGED <<order, sales, paystack, webhooks, timers, failures>>
  PROVE  ChargeInv'
<1>1. at \in JobSteps /\ at \notin WithSale /\ at \notin Charging /\ UNCHANGED charged
  BY DEF JobSteps, Paying, Charging, Serving, WithSale, paystack
<1>2. JobsInv' /\ \A q \in Procs : q # p => proc'[q] = proc[q]
  BY <1>1, GoesKeeps DEF ChargeInv
<1>3. proc'[p].at = at
  BY DEF Goes, Job, ChargeInv, JobsInv
<1>4. OrderHasSale'
  BY <1>2, <1>3, KeepsSale
<1>5. SalesInv'
  BY SameSales DEF ChargeInv, paystack
<1>6. TableInv'
  BY DEF ChargeInv, TableInv, paystack, webhooks, failures
<1> QED BY <1>2, <1>4, <1>5, <1>6 DEF ChargeInv

LEMMA InitializeOrderSaleKeeps ==
  ASSUME ChargeInv, NEW p \in Procs, NEW s \in SaleIds, InitializeOrderSale(p, s)
  PROVE  ChargeInv'
<1>1. /\ Goes(p, "p_save", s) /\ InitializeSale(s)
      /\ UNCHANGED <<order, linked, charged, webhooks, timers, failures>>
  BY DEF InitializeOrderSale, paystack
<1>2. "p_save" \in JobSteps /\ "p_save" \notin Charging
  BY DEF JobSteps, Paying, Charging
<1>3. JobsInv' /\ \A q \in Procs : q # p => proc'[q] = proc[q]
  BY <1>1, <1>2, GoesKeeps DEF ChargeInv
<1>4. proc'[p].at = "p_save"
  BY <1>1 DEF Goes, Job, ChargeInv, JobsInv
<1>5. OrderHasSale'
  BY <1>1, <1>3, <1>4, KeepsSale
<1>6. SalesInv'
  BY <1>1, InitializeSaleKeeps DEF ChargeInv
<1>7. TableInv'
  BY <1>1 DEF ChargeInv, TableInv, webhooks, failures
<1> QED BY <1>3, <1>5, <1>6, <1>7 DEF ChargeInv

LEMMA SavePaymentKeeps ==
  ASSUME ChargeInv, NEW p \in Procs, SavePayment(p)
  PROVE  ChargeInv'
<1>1. /\ proc[p].at = "p_save" /\ Goes(p, "p_timer", proc[p].s)
      /\ order' = [order EXCEPT !.status = "payment_pending", !.sale = proc[p].s]
      /\ UNCHANGED <<sales, linked, charged, webhooks, timers, failures>>
  BY DEF SavePayment, paystack
<1>2. proc[p].s \in SaleIds
  BY <1>1 DEF ChargeInv, JobsInv, WithSale
<1>3. "p_timer" \in JobSteps /\ "p_timer" \notin Charging
  BY DEF JobSteps, Paying, Charging
<1>4. JobsInv'
  BY <1>1, <1>2, <1>3, GoesKeeps DEF ChargeInv
<1>5. order' \in [status: OrderStatus, sale: SaleIds \union {None}, verified: BOOLEAN]
      /\ order'.sale = proc[p].s
  BY <1>1, <1>2 DEF ChargeInv, TableInv, OrderStatus, Unpaid
<1>6. OrderHasSale'
  BY <1>2, <1>5 DEF OrderHasSale
<1>7. SalesInv'
  BY <1>1, SameSales DEF ChargeInv
<1>8. TableInv'
  BY <1>1, <1>5 DEF ChargeInv, TableInv, webhooks, failures
<1> QED BY <1>4, <1>6, <1>7, <1>8 DEF ChargeInv

\* A process that ends, with at most the counters and answers changed.
LEMMA OnlyEnds ==
  ASSUME ChargeInv, NEW p \in Procs, Ends(p), UNCHANGED <<order, sales, charged>>, TableInv'
  PROVE  ChargeInv'
<1>1. JobsInv' /\ proc'[p].at = "idle" /\ \A q \in Procs : q # p => proc'[q] = proc[q]
  BY EndsKeeps DEF ChargeInv
<1>2. OrderHasSale'
  BY <1>1, KeepsSale
<1>3. SalesInv'
  BY SameSales DEF ChargeInv
<1> QED BY <1>1, <1>2, <1>3 DEF ChargeInv

LEMMA AnswerSubmitKeeps ==
  ASSUME ChargeInv, NEW p \in Procs, AnswerSubmit(p)
  PROVE  ChargeInv'
<1>1. CASE Ends(p) /\ timers' = timers + 1 /\ linked' = linked \union {proc[p].s}
  <2>1. proc[p].s \in SaleIds
    BY DEF AnswerSubmit, ChargeInv, JobsInv, WithSale
  <2>2. TableInv'
    BY <1>1, <2>1 DEF AnswerSubmit, ChargeInv, TableInv, webhooks, failures
  <2> QED BY <1>1, <2>2, OnlyEnds DEF AnswerSubmit
<1>2. CASE Goes(p, "p_fail", None) /\ UNCHANGED <<timers, linked>>
  BY <1>2, OnlyMoves DEF AnswerSubmit, paystack
<1> QED BY <1>1, <1>2 DEF AnswerSubmit

LEMMA FailPaymentKeeps ==
  ASSUME ChargeInv, NEW p \in Procs, FailPayment(p)
  PROVE  ChargeInv'
<1>1. /\ Ends(p) /\ order' = [order EXCEPT !.status = "payment_initialization_failed"]
      /\ UNCHANGED <<sales, linked, charged, webhooks, timers, failures>>
  BY DEF FailPayment, paystack
<1>2. JobsInv' /\ proc'[p].at = "idle" /\ \A q \in Procs : q # p => proc'[q] = proc[q]
  BY <1>1, EndsKeeps DEF ChargeInv
<1>3. /\ order' \in [status: OrderStatus, sale: SaleIds \union {None}, verified: BOOLEAN]
      /\ order'.sale = order.sale /\ order'.status = "payment_initialization_failed"
  BY <1>1 DEF ChargeInv, TableInv, OrderStatus, Unpaid
<1>4. OrderHasSale'
  BY <1>2, <1>3 DEF ChargeInv, OrderHasSale, Paid
<1>5. SalesInv'
  BY <1>1, SameSales DEF ChargeInv
<1>6. TableInv'
  BY <1>1, <1>3 DEF ChargeInv, TableInv, webhooks, failures
<1> QED BY <1>2, <1>4, <1>5, <1>6 DEF ChargeInv

-----------------------------------------------------------------------------
(* Paystack and its events. *)

LEMMA ChargeKeeps ==
  ASSUME ChargeInv, NEW s \in SaleIds, Charge(s)
  PROVE  ChargeInv'
<1>1. /\ charged' = charged \union {s}
      /\ UNCHANGED <<order, sales, linked, webhooks, timers, proc, failures>>
  BY DEF Charge
<1>2. SalesInv'
  BY <1>1 DEF ChargeInv, SalesInv, SalesType, CreditedIsCharged, sales, ledgers
<1>3. TableInv'
  BY <1>1 DEF ChargeInv, TableInv, webhooks, failures
<1>4. JobsInv'
  BY <1>1, SameJobs DEF ChargeInv
<1>5. OrderHasSale'
  BY <1>1 DEF ChargeInv, OrderHasSale
<1> QED BY <1>2, <1>3, <1>4, <1>5 DEF ChargeInv

\* Steps that hand a charged sale on, the order unchanged.
LEMMA HandsOn ==
  ASSUME ChargeInv, NEW p \in Procs, NEW at \in Charging, NEW s \in charged,
         s \in SaleIds, Goes(p, at, s), UNCHANGED <<order, charged>>,
         at = "c_save" => order.sale # None
  PROVE  JobsInv' /\ OrderHasSale'
<1>1. at \in JobSteps /\ at # "k_save"
  BY DEF JobSteps, Charging
<1>2. JobsInv' /\ \A q \in Procs : q # p => proc'[q] = proc[q]
  BY <1>1, GoesKeeps DEF ChargeInv
<1>3. proc'[p].at = at
  BY DEF Goes, Job, ChargeInv, JobsInv
<1> QED BY <1>1, <1>2, <1>3, KeepsSale

LEMMA ChargeReceiveKeeps ==
  ASSUME ChargeInv, NEW p \in Procs, NEW s \in SaleIds, ChargeReceive(p, s)
  PROVE  ChargeInv'
<1>1. /\ s \in charged /\ UNCHANGED <<order, sales, linked, charged, timers, failures>>
      /\ \/ acked' = acked \union {s} /\ UNCHANGED <<log, proc>>
         \/ /\ log' = [log EXCEPT ![s] = "received"]
            /\ Goes(p, "c_order", s) /\ UNCHANGED acked
  BY DEF ChargeReceive, paystack
<1>2. SalesInv'
  BY <1>1, SameSales DEF ChargeInv
<1>3. TableInv'
  BY <1>1 DEF ChargeInv, TableInv, failures
<1>4. JobsInv' /\ OrderHasSale'
  <2>1. CASE UNCHANGED proc
    BY <1>1, <2>1, SameJobs DEF ChargeInv, OrderHasSale
  <2>2. CASE Goes(p, "c_order", s)
    BY <1>1, <2>2, HandsOn DEF Charging
  <2> QED BY <1>1, <2>1, <2>2
<1> QED BY <1>2, <1>3, <1>4 DEF ChargeInv

\* Whoever handles a charge works for a charged sale.
LEMMA HandlesCharged ==
  ASSUME ChargeInv, NEW p \in Procs, proc[p].at \in Charging
  PROVE  proc[p].s \in charged /\ proc[p].s \in SaleIds
  BY DEF ChargeInv, JobsInv, WithSale

LEMMA OrderUpdateKeeps ==
  ASSUME ChargeInv, NEW p \in Procs, OrderUpdate(p)
  PROVE  ChargeInv'
<1>1. /\ proc[p].at = "c_order"
      /\ \/ order.sale = proc[p].s /\ Goes(p, "c_save", proc[p].s)
         \/ Goes(p, "c_sale", proc[p].s)
      /\ UNCHANGED <<order, sales, linked, charged, webhooks, timers, failures>>
  BY DEF OrderUpdate, paystack
<1>2. proc[p].s \in charged /\ proc[p].s \in SaleIds /\ proc[p].s # None
  BY <1>1, HandlesCharged DEF Charging
<1>3. JobsInv' /\ OrderHasSale'
  <2>1. CASE order.sale = proc[p].s /\ Goes(p, "c_save", proc[p].s)
    BY <1>1, <1>2, <2>1, HandsOn DEF Charging
  <2>2. CASE Goes(p, "c_sale", proc[p].s)
    BY <1>1, <1>2, <2>2, HandsOn DEF Charging
  <2> QED BY <1>1, <2>1, <2>2
<1>4. SalesInv'
  BY <1>1, SameSales DEF ChargeInv
<1>5. TableInv'
  BY <1>1 DEF ChargeInv, TableInv, webhooks, failures
<1> QED BY <1>3, <1>4, <1>5 DEF ChargeInv

LEMMA OrderPaidKeeps ==
  ASSUME ChargeInv, NEW p \in Procs, OrderPaid(p)
  PROVE  ChargeInv'
<1>1. /\ proc[p].at = "c_save" /\ order' = [order EXCEPT !.status = "pending"]
      /\ Goes(p, "c_sale", proc[p].s)
      /\ UNCHANGED <<sales, linked, charged, webhooks, timers, failures>>
  BY DEF OrderPaid, paystack
<1>2. proc[p].s \in charged /\ proc[p].s \in SaleIds
  BY <1>1, HandlesCharged DEF Charging
<1>3. "c_sale" \in JobSteps
  BY DEF JobSteps, Charging
<1>4. JobsInv'
  BY <1>1, <1>2, <1>3, GoesKeeps DEF ChargeInv
<1>5. /\ order' \in [status: OrderStatus, sale: SaleIds \union {None}, verified: BOOLEAN]
      /\ order'.sale = order.sale
  BY <1>1 DEF ChargeInv, TableInv, OrderStatus, Paid
<1>6. OrderHasSale'
  BY <1>1, <1>5 DEF ChargeInv, OrderHasSale
<1>7. SalesInv'
  BY <1>1, SameSales DEF ChargeInv
<1>8. TableInv'
  BY <1>1, <1>5 DEF ChargeInv, TableInv, webhooks, failures
<1> QED BY <1>4, <1>6, <1>7, <1>8 DEF ChargeInv

LEMMA ChargeEscrowKeeps ==
  ASSUME ChargeInv, NEW p \in Procs, ChargeEscrow(p)
  PROVE  ChargeInv'
<1>1. /\ proc[p].at = "c_sale" /\ EscrowSale(proc[p].s) /\ Goes(p, "c_done", proc[p].s)
      /\ UNCHANGED <<order, linked, charged, webhooks, timers, failures>>
  BY DEF ChargeEscrow, paystack
<1>2. proc[p].s \in charged /\ proc[p].s \in SaleIds
  BY <1>1, HandlesCharged DEF Charging
<1>3. JobsInv' /\ OrderHasSale'
  BY <1>1, <1>2, HandsOn DEF Charging
<1>4. SalesInv'
  BY <1>1, <1>2, EscrowSaleKeeps DEF ChargeInv
<1>5. TableInv'
  BY <1>1 DEF ChargeInv, TableInv, webhooks, failures
<1> QED BY <1>3, <1>4, <1>5 DEF ChargeInv

LEMMA ChargeDoneKeeps ==
  ASSUME ChargeInv, NEW p \in Procs, ChargeDone(p)
  PROVE  ChargeInv'
<1>1. proc[p].s \in SaleIds
  BY HandlesCharged DEF ChargeDone, Charging
<1>2. TableInv'
  BY <1>1 DEF ChargeDone, ChargeInv, TableInv, paystack, failures
<1> QED BY <1>2, OnlyEnds DEF ChargeDone, paystack

LEMMA ChargeErrorKeeps ==
  ASSUME ChargeInv, NEW p \in Procs, ChargeError(p)
  PROVE  ChargeInv'
<1>1. proc[p].s \in SaleIds
  BY HandlesCharged DEF ChargeError
<1>2. TableInv'
  BY <1>1 DEF ChargeError, ChargeInv, TableInv, paystack
<1> QED BY <1>2, OnlyEnds DEF ChargeError, paystack

-----------------------------------------------------------------------------
(* The branch, the timeout and the sale endpoints. *)

LEMMA BranchLoadKeeps ==
  ASSUME ChargeInv, NEW p \in Procs, BranchLoad(p)
  PROVE  ChargeInv'
<1> DEFINE job == Job("k_save", order.sale, Stage[order.status])
<1>1. /\ order.status \in {"pending", "preparing", "ready"}
      /\ UNCHANGED <<order, sales, linked, charged, webhooks, timers, failures>>
      /\ proc' = [proc EXCEPT ![p] = job]
  BY DEF BranchLoad, Stage, paystack
<1>2. order.sale # None /\ order.sale \in SaleIds
  BY <1>1 DEF ChargeInv, OrderHasSale, TableInv, Paid
<1>3. job \in Jobs /\ job.at = "k_save" /\ job.s = order.sale
  BY <1>1, <1>2 DEF Job, Jobs, Stage, OrderStatus, Paid, Serving
<1> HIDE DEF job
<1>4. proc' \in [Procs -> Jobs] /\ \A q \in Procs : q # p => proc'[q] = proc[q]
  BY <1>1, <1>3 DEF ChargeInv, JobsInv
<1>5. proc'[p] = job
  BY <1>1 DEF ChargeInv, JobsInv
<1>6. JobsInv'
  BY <1>1, <1>2, <1>3, <1>4, <1>5 DEF ChargeInv, JobsInv, Charging
<1>7. OrderHasSale'
  BY <1>1, <1>2, <1>4, KeepsSale
<1>8. SalesInv'
  BY <1>1, SameSales DEF ChargeInv
<1>9. TableInv'
  BY <1>1 DEF ChargeInv, TableInv, webhooks, failures
<1> QED BY <1>6, <1>7, <1>8, <1>9 DEF ChargeInv

LEMMA BranchSaveKeeps ==
  ASSUME ChargeInv, NEW p \in Procs, BranchSave(p)
  PROVE  ChargeInv'
<1>1. /\ proc[p].at = "k_save"
      /\ order' = [order EXCEPT !.status = proc[p].status,
                                !.verified = @ \/ proc[p].status = "delivered"]
      /\ Goes(p, "h_credit", proc[p].s) \/ Ends(p)
      /\ UNCHANGED <<sales, linked, charged, webhooks, timers, failures>>
  BY DEF BranchSave, paystack
<1>2. proc[p].s \in SaleIds /\ proc[p].status \in OrderStatus
  BY <1>1 DEF ChargeInv, JobsInv, Jobs, WithSale, Serving
<1>3. JobsInv'
  <2>1. CASE Goes(p, "h_credit", proc[p].s)
    <3>1. "h_credit" \in JobSteps /\ "h_credit" \notin Charging
      BY DEF JobSteps, Serving, Charging
    <3> QED BY <1>1, <1>2, <2>1, <3>1, GoesKeeps DEF ChargeInv
  <2>2. CASE Ends(p)
    BY <1>1, <2>2, EndsKeeps DEF ChargeInv
  <2> QED BY <1>1, <2>1, <2>2
<1>4. /\ order' \in [status: OrderStatus, sale: SaleIds \union {None}, verified: BOOLEAN]
      /\ order'.sale = order.sale
  <2> DEFINE verified == order.verified \/ proc[p].status = "delivered"
  <2>1. verified \in BOOLEAN
    OBVIOUS
  <2>2. order' = [order EXCEPT !.status = proc[p].status, !.verified = verified]
    BY <1>1
  <2> HIDE DEF verified
  <2> QED BY <1>2, <2>1, <2>2 DEF ChargeInv, TableInv
<1>5. OrderHasSale'
  BY <1>1, <1>4 DEF ChargeInv, OrderHasSale
<1>6. SalesInv'
  BY <1>1, SameSales DEF ChargeInv
<1>7. TableInv'
  BY <1>1, <1>4 DEF ChargeInv, TableInv, webhooks, failures
<1> QED BY <1>3, <1>5, <1>6, <1>7 DEF ChargeInv

LEMMA HandOverKeeps ==
  ASSUME ChargeInv, NEW p \in Procs, HandOver(p)
  PROVE  ChargeInv'
<1>1. /\ proc[p].at = "h_credit" /\ Ends(p)
      /\ CompleteService(proc[p].s) \/ UNCHANGED sales
      /\ UNCHANGED <<order, linked, charged, webhooks, timers, failures>>
  BY DEF HandOver, paystack
<1>2. proc[p].s \in SaleIds
  BY <1>1 DEF ChargeInv, JobsInv, WithSale, Serving
<1>3. JobsInv' /\ proc'[p].at = "idle" /\ \A q \in Procs : q # p => proc'[q] = proc[q]
  BY <1>1, EndsKeeps DEF ChargeInv
<1>4. OrderHasSale'
  BY <1>1, <1>3, KeepsSale
<1>5. SalesInv'
  BY <1>1, <1>2, CompleteServiceKeeps, SameSales DEF ChargeInv
<1>6. TableInv'
  BY <1>1 DEF ChargeInv, TableInv, webhooks, failures
<1> QED BY <1>3, <1>4, <1>5, <1>6 DEF ChargeInv

\* What neither the processes nor the order take part in.
LEMMA OnlySales ==
  ASSUME ChargeInv, SalesInv', timers' \in Nat,
         UNCHANGED <<order, paystack, webhooks, proc, failures>>
  PROVE  ChargeInv'
<1>1. TableInv'
  BY DEF ChargeInv, TableInv, paystack, webhooks, failures
<1>2. JobsInv'
  BY SameJobs DEF ChargeInv, paystack
<1>3. OrderHasSale'
  BY DEF ChargeInv, OrderHasSale
<1> QED BY <1>1, <1>2, <1>3 DEF ChargeInv

\* No caller of cancel_order is one that may cancel.
LEMMA CancelsRefused ==
  ASSUME Cancels("ACTORS.BRANCH") \/ Cancels("ACTORS.CUSTOMER")
  PROVE  UNCHANGED <<order, sales>>
<1>1. ~MayCancel("ACTORS.BRANCH") /\ ~MayCancel("ACTORS.CUSTOMER")
  BY DEF MayCancel, Cancellers
<1> QED BY <1>1 DEF Cancels

LEMMA PaymentTimeoutKeeps ==
  ASSUME ChargeInv, PaymentTimeout
  PROVE  ChargeInv'
<1>1. /\ UNCHANGED <<order, sales, paystack, webhooks, proc, failures>>
      /\ timers > 0 /\ timers' = timers - 1
  BY CancelsRefused DEF PaymentTimeout
<1>2. timers' \in Nat
  BY <1>1 DEF ChargeInv, TableInv
<1>3. SalesInv'
  BY <1>1, SameSales DEF ChargeInv, paystack
<1> QED BY <1>1, <1>2, <1>3, OnlySales

LEMMA CancelKeeps ==
  ASSUME ChargeInv, CustomerCancels \/ BranchCancels \/ AdminCancels \/ PaymentSweep
  PROVE  ChargeInv'
<1>1. UNCHANGED <<order, sales, paystack, webhooks, timers, proc, failures>>
  BY CancelsRefused DEF CustomerCancels, BranchCancels, AdminCancels, PaymentSweep
<1>2. SalesInv'
  BY <1>1, SameSales DEF ChargeInv, paystack
<1> QED BY <1>1, <1>2, OnlySales DEF ChargeInv, TableInv

LEMMA CompleteSaleKeeps ==
  ASSUME ChargeInv, NEW s \in SaleIds, CompleteSale(s)
  PROVE  ChargeInv'
<1>1. SalesInv'
  BY CompleteServiceKeeps DEF CompleteSale, ChargeInv, paystack
<1> QED BY <1>1, OnlySales DEF CompleteSale, ChargeInv, TableInv

LEMMA RefundSaleKeeps ==
  ASSUME ChargeInv, NEW s \in SaleIds, RefundSale(s)
  PROVE  ChargeInv'
<1>1. SalesInv'
  BY ProcessRefundKeeps DEF RefundSale, ChargeInv, paystack
<1> QED BY <1>1, OnlySales DEF RefundSale, ChargeInv, TableInv

LEMMA CrashKeeps ==
  ASSUME ChargeInv, NEW p \in Procs, Crash(p)
  PROVE  ChargeInv'
<1>1. TableInv'
  BY DEF Crash, ChargeInv, TableInv, paystack, webhooks
<1> QED BY <1>1, OnlyEnds DEF Crash, paystack

-----------------------------------------------------------------------------
(* The theorems. *)

LEMMA InitCharge == Init => ChargeInv
<1> SUFFICES ASSUME Init PROVE ChargeInv
  OBVIOUS
<1>1. \A p \in Procs : proc[p].at = "idle"
  BY DEF Init, NoJob, Job
<1>2. SalesInv
  BY DEF Init, SalesInit, SalesInv, SalesType, SaleStatus, NoSale, NoRows, Parties,
         CreditedIsCharged
<1>3. TableInv
  BY DEF Init, TableInv, OrderStatus, Unpaid
<1>4. JobsInv
  BY <1>1 DEF Init, JobsInv, NoJob, Job, Jobs, OrderStatus, WithSale, Charging, Serving
<1>5. OrderHasSale
  BY <1>1 DEF Init, OrderHasSale, Paid
<1> QED BY <1>2, <1>3, <1>4, <1>5 DEF ChargeInv

LEMMA NextCharge == ChargeInv /\ [Next]_vars => ChargeInv'
<1> SUFFICES ASSUME ChargeInv, [Next]_vars PROVE ChargeInv'
  OBVIOUS
<1>1. ASSUME NEW p \in Procs, CustomerNext(p) PROVE ChargeInv'
  <2>1. CASE SubmitPaystack(p) \/ RetryPayment(p) \/ PaymentRefused(p)
    BY <2>1, OnlyMoves DEF SubmitPaystack, RetryPayment, PaymentRefused
  <2>2. CASE \E s \in SaleIds : InitializeOrderSale(p, s)
    BY <2>2, InitializeOrderSaleKeeps
  <2>3. CASE SavePayment(p)
    BY <2>3, SavePaymentKeeps
  <2>4. CASE AnswerSubmit(p)
    BY <2>4, AnswerSubmitKeeps
  <2>5. CASE FailPayment(p)
    BY <2>5, FailPaymentKeeps
  <2> QED BY <1>1, <2>1, <2>2, <2>3, <2>4, <2>5 DEF CustomerNext
<1>2. ASSUME NEW p \in Procs, ChargeNext(p) PROVE ChargeInv'
  BY <1>2, ChargeReceiveKeeps, OrderUpdateKeeps, OrderPaidKeeps, ChargeEscrowKeeps,
     ChargeDoneKeeps, ChargeErrorKeeps DEF ChargeNext
<1>3. ASSUME NEW p \in Procs, BranchNext(p) PROVE ChargeInv'
  BY <1>3, BranchLoadKeeps, BranchSaveKeeps, HandOverKeeps DEF BranchNext
<1>4. ASSUME NEW s \in SaleIds, Charge(s) \/ CompleteSale(s) \/ RefundSale(s)
      PROVE  ChargeInv'
  BY <1>4, ChargeKeeps, CompleteSaleKeeps, RefundSaleKeeps
<1>5. CASE UNCHANGED vars
  <2>1. SalesInv'
    BY <1>5, SameSales DEF vars, ChargeInv, paystack
  <2> QED BY <1>5, <2>1, OnlySales DEF vars, ChargeInv, TableInv
<1> QED BY <1>1, <1>2, <1>3, <1>4, <1>5, CrashKeeps, PaymentTimeoutKeeps, CancelKeeps
   DEF Next

LEMMA AlwaysCharge == Spec => []ChargeInv
  BY InitCharge, NextCharge, PTL DEF Spec

\* The Order, Sale and webhook log rows only ever hold the values their models
\* declare, and every task works for a sale that exists: no step needs a
\* bound, an assumption on the races, or a well-behaved caller.
THEOREM TypeCorrect == Spec => []TypeOK
<1>1. ChargeInv => TypeOK
  BY DEF ChargeInv, TypeOK, TablesOK, SalesInv, TableInv, JobsInv
<1> QED BY <1>1, AlwaysCharge, PTL

\* complete_service never credits money the customer has not paid, for any
\* number of orders' sales and processes and however charges are replayed.
THEOREM CreditIsCharged == Spec => []CreditedIsCharged
<1>1. ChargeInv => CreditedIsCharged
  BY DEF ChargeInv, SalesInv
<1> QED BY <1>1, AlwaysCharge, PTL

-----------------------------------------------------------------------------
(* The money of Orders under the conditions its runs name.  Paystack waits  *)
(* for its answer and no process dies: a sale is credited once and a refund *)
(* takes back what was credited.  The customer submits once: there is one   *)
(* link, and everybody works for money that is there.  Both: the money      *)
(* follows the order.                                                       *)

Patient == ~Overlapping /\ MaxCrashes = 0

(* What Goes and Ends make of the processes. *)

LEMMA GoesThere ==
  ASSUME JobsInv, NEW p \in Procs, NEW at, NEW s, Goes(p, at, s)
  PROVE  /\ proc'[p].at = at /\ proc'[p].s = s
         /\ \A q \in Procs : q # p => proc'[q] = proc[q]
  BY DEF JobsInv, Goes, Job

LEMMA EndsThere ==
  ASSUME JobsInv, NEW p \in Procs, Ends(p)
  PROVE  /\ proc'[p].at = "idle"
         /\ \A q \in Procs : q # p => proc'[q] = proc[q]
  BY DEF JobsInv, Ends, NoJob, Job

-----------------------------------------------------------------------------
(* A charge is handled once.                                                *)

Entered == {"in_escrow", "completed", "refunded"}   \* what escrow leads to
Before == Charging \ {"c_done"}
Finishing(s) == \E p \in Procs : proc[p].at = "c_done" /\ proc[p].s = s

\* The inductive invariant: only one process handles a charge that was not
\* answered, and the sale is in escrow or further only behind it.
HandledOnce ==
  /\ \A p \in Procs : proc[p].at \in Charging => proc[p].s \notin acked
  /\ \A p, q \in Procs :
       proc[p].at \in Charging /\ proc[q].at \in Charging /\ proc[p].s = proc[q].s => p = q
  /\ \A p \in Procs : proc[p].at \in Before => sale[proc[p].s].status \notin Entered
  /\ \A s \in SaleIds : sale[s].status \in Entered => s \in acked \/ Finishing(s)

\* Steps that no handling of a charge takes part in.
LEMMA SameHandling ==
  ASSUME ChargeInv, HandledOnce, UNCHANGED acked,
         \A p \in Procs : proc[p].at \in Charging \/ proc'[p].at \in Charging
                            => proc'[p] = proc[p],
         \A s \in SaleIds : sale'[s].status \in Entered <=> sale[s].status \in Entered
  PROVE  HandledOnce'
<1>1. \A p \in Procs : proc[p].at \in Charging => proc[p].s \in SaleIds
  BY HandlesCharged
<1>2. \A s \in SaleIds : Finishing(s) => Finishing(s)'
  BY DEF Finishing, Charging
<1> QED BY <1>1, <1>2 DEF HandledOnce, Before

\* What the steps of Sales that no charge is behind do to a status.
LEMMA KeepsEntered ==
  ASSUME ChargeInv, NEW s \in SaleIds,
         \/ InitializeSale(s) \/ CompleteService(s)
         \/ \E fault \in Fault : ProcessRefund(s, fault)
         \/ UNCHANGED sales
  PROVE  \A t \in SaleIds : sale'[t].status \in Entered <=> sale[t].status \in Entered
<1>0. SalesType
  BY DEF ChargeInv, SalesInv
<1>1. CASE InitializeSale(s)
  BY <1>1, <1>0, InitializeSaleWrites DEF Entered
<1>2. CASE CompleteService(s)
  BY <1>2, <1>0, CompleteServiceWrites DEF Entered
<1>3. ASSUME NEW fault \in Fault, ProcessRefund(s, fault)
      PROVE  \A t \in SaleIds : sale'[t].status \in Entered <=> sale[t].status \in Entered
  BY <1>3, <1>0, ProcessRefundWrites DEF Entered
<1>4. CASE UNCHANGED sales
  BY <1>4 DEF sales
<1> QED BY <1>1, <1>2, <1>3, <1>4

LEMMA ReceiveOnce ==
  ASSUME Patient, ChargeInv, HandledOnce, NEW p \in Procs, NEW s \in SaleIds,
         ChargeReceive(p, s)
  PROVE  HandledOnce'
<1>1. /\ UNCHANGED sale /\ proc[p].at = "idle"
      /\ s \notin acked /\ \A q \in Procs : proc[q].at \in Charging => proc[q].s # s
  BY DEF ChargeReceive, Patient, sales, Idle, BeingHandled
<1>2. "idle" \notin Charging
  BY DEF Charging
<1>3. CASE acked' = acked \union {s} /\ UNCHANGED proc
  BY <1>1, <1>3 DEF HandledOnce, Finishing
<1>4. CASE Goes(p, "c_order", s) /\ UNCHANGED acked
  <2>1. /\ proc'[p].at = "c_order" /\ proc'[p].s = s
        /\ \A q \in Procs : q # p => proc'[q] = proc[q]
    BY <1>4, GoesThere DEF ChargeInv
  <2>2. sale[s].status \notin Entered
    BY <1>1 DEF HandledOnce, Finishing, Charging
  <2>3. \A t \in SaleIds : Finishing(t) => Finishing(t)'
    BY <1>1, <2>1 DEF Finishing
  <2> QED BY <1>1, <1>2, <1>4, <2>1, <2>2, <2>3 DEF HandledOnce, Before
<1> QED BY <1>3, <1>4 DEF ChargeReceive

\* The handling goes on before the sale is touched.
LEMMA GoesOnOnce ==
  ASSUME ChargeInv, HandledOnce, NEW p \in Procs, NEW at \in Charging,
         proc[p].at \in Before, Goes(p, at, proc[p].s), UNCHANGED <<sale, acked>>
  PROVE  HandledOnce'
<1>1. /\ proc'[p].at = at /\ proc'[p].s = proc[p].s
      /\ \A q \in Procs : q # p => proc'[q] = proc[q]
  BY GoesThere DEF ChargeInv
<1>2. \A t \in SaleIds : Finishing(t) => Finishing(t)'
  BY <1>1 DEF Finishing, Before
<1> QED BY <1>1, <1>2 DEF HandledOnce, Before

LEMMA EscrowOnce ==
  ASSUME ChargeInv, HandledOnce, NEW p \in Procs, ChargeEscrow(p)
  PROVE  HandledOnce'
<1> DEFINE s == proc[p].s
<1>1. /\ proc[p].at = "c_sale" /\ UNCHANGED acked
      /\ sale' = [sale EXCEPT ![s].status = "in_escrow"]
  BY DEF ChargeEscrow, EscrowSale, webhooks
<1>2. /\ proc'[p].at = "c_done" /\ proc'[p].s = s
      /\ \A q \in Procs : q # p => proc'[q] = proc[q]
  BY GoesThere DEF ChargeInv, ChargeEscrow
<1>3. s \in SaleIds /\ "c_sale" \in Charging /\ "c_done" \in Charging
  BY <1>1, HandlesCharged DEF Charging
<1>4. \A t \in SaleIds : /\ t # s => sale'[t] = sale[t]
                         /\ Finishing(t) => Finishing(t)'
  BY <1>1, <1>2 DEF ChargeInv, SalesInv, SalesType, Finishing
<1>5. Finishing(s)'
  BY <1>2 DEF Finishing
<1>6. \A q \in Procs : proc[q].at \in Charging => proc[q].s \in SaleIds
  BY HandlesCharged
<1> HIDE DEF s
<1> QED BY <1>1, <1>2, <1>3, <1>4, <1>5, <1>6 DEF HandledOnce, Before, s

\* The handling ends, and Paystack is answered.
LEMMA AnswersOnce ==
  ASSUME ChargeInv, HandledOnce, NEW p \in Procs, proc[p].at \in Charging,
         Ends(p), acked' = acked \union {proc[p].s}, UNCHANGED sale
  PROVE  HandledOnce'
<1>1. /\ proc'[p].at = "idle" /\ "idle" \notin Charging
      /\ \A q \in Procs : q # p => proc'[q] = proc[q]
  BY EndsThere DEF ChargeInv, Charging
<1>2. \A t \in SaleIds : Finishing(t) => t \in acked' \/ Finishing(t)'
  BY <1>1 DEF Finishing
<1> QED BY <1>1, <1>2 DEF HandledOnce, Before

LEMMA NextHandledOnce ==
  ASSUME Patient, ChargeInv, HandledOnce, [Next]_vars
  PROVE  HandledOnce'
<1> USE DEF ChargeInv
<1>1. ASSUME NEW p \in Procs, NEW at, NEW s, at \notin Charging, proc[p].at \notin Charging,
             Goes(p, at, s), UNCHANGED acked,
             \A t \in SaleIds : sale'[t].status \in Entered <=> sale[t].status \in Entered
      PROVE  HandledOnce'
  BY <1>1, GoesThere, SameHandling
<1>2. ASSUME NEW p \in Procs, proc[p].at \notin Charging, Ends(p), UNCHANGED acked,
             \A t \in SaleIds : sale'[t].status \in Entered <=> sale[t].status \in Entered
      PROVE  HandledOnce'
  <2>1. "idle" \notin Charging
    BY DEF Charging
  <2> QED BY <1>2, <2>1, EndsThere, SameHandling
<1>3. ASSUME NEW p \in Procs, CustomerNext(p) PROVE HandledOnce'
  <2> USE DEF Charging, Paying, webhooks, sales, Idle
  <2>1. CASE SubmitPaystack(p) \/ RetryPayment(p) \/ PaymentRefused(p)
    BY <1>1, <2>1 DEF SubmitPaystack, RetryPayment, PaymentRefused
  <2>2. ASSUME NEW s \in SaleIds, InitializeOrderSale(p, s) PROVE HandledOnce'
    BY <1>1, <2>2, KeepsEntered DEF InitializeOrderSale
  <2>3. CASE SavePayment(p)
    BY <1>1, <2>3 DEF SavePayment
  <2>4. CASE AnswerSubmit(p)
    BY <1>1, <1>2, <2>4 DEF AnswerSubmit
  <2>5. CASE FailPayment(p)
    BY <1>2, <2>5 DEF FailPayment
  <2> QED BY <1>3, <2>1, <2>2, <2>3, <2>4, <2>5 DEF CustomerNext
<1>4. ASSUME NEW p \in Procs, ChargeNext(p) PROVE HandledOnce'
  <2>1. CASE OrderUpdate(p) \/ OrderPaid(p)
    BY <2>1, GoesOnOnce DEF OrderUpdate, OrderPaid, Charging, Before, sales, webhooks
  <2>2. CASE ChargeDone(p) \/ ChargeError(p)
    BY <2>2, AnswersOnce DEF ChargeDone, ChargeError, Charging, sales
  <2> QED BY <1>4, <2>1, <2>2, ReceiveOnce, EscrowOnce DEF ChargeNext
<1>5. ASSUME NEW p \in Procs, BranchNext(p) PROVE HandledOnce'
  <2> USE DEF Charging, webhooks, sales, Idle
  <2>1. CASE BranchLoad(p)
    <3>1. /\ \A q \in Procs : q # p => proc'[q] = proc[q]
          /\ proc'[p].at = "k_save"
      BY <2>1 DEF BranchLoad, JobsInv, Job
    <3> QED BY <2>1, <3>1, SameHandling DEF BranchLoad
  <2>2. CASE BranchSave(p)
    BY <1>1, <1>2, <2>2 DEF BranchSave
  <2>3. CASE HandOver(p)
    <3>1. proc[p].s \in SaleIds
      BY <2>3 DEF HandOver, JobsInv, WithSale, Serving
    <3> QED BY <1>2, <2>3, <3>1, KeepsEntered DEF HandOver
  <2> QED BY <1>5, <2>1, <2>2, <2>3 DEF BranchNext
<1>6. ASSUME NEW p \in Procs, Crash(p) PROVE HandledOnce'
  BY <1>6 DEF Crash, Patient, TableInv
<1>7. ASSUME NEW s \in SaleIds, Charge(s) \/ CompleteSale(s) \/ RefundSale(s)
      PROVE  HandledOnce'
  BY <1>7, KeepsEntered, SameHandling DEF Charge, CompleteSale, RefundSale, webhooks
<1>8. CASE PaymentTimeout \/ CustomerCancels \/ BranchCancels \/ AdminCancels \/ PaymentSweep
  <2>1. UNCHANGED <<sales, webhooks, proc>>
    BY <1>8, CancelsRefused DEF PaymentTimeout, CustomerCancels, BranchCancels,
       AdminCancels, PaymentSweep
  <2> QED BY <2>1, SameHandling DEF sales, webhooks
<1>9. CASE UNCHANGED vars
  BY <1>9, SameHandling DEF vars, sales, webhooks
<1> QED BY <1>3, <1>4, <1>5, <1>6, <1>7, <1>8, <1>9 DEF Next

-----------------------------------------------------------------------------
(* What a step may do to the sales.                                         *)

SaleStep(s) ==
  \/ InitializeSale(s) \/ CompleteService(s)
  \/ \E fault \in Fault : ProcessRefund(s, fault)
  \/ sale[s].status \notin Entered /\ EscrowSale(s)

LEMMA StepsOfSales ==
  ASSUME ChargeInv, HandledOnce, [Next]_vars
  PROVE  UNCHANGED sales \/ \E s \in SaleIds : SaleStep(s)
<1>1. ASSUME NEW p \in Procs, CustomerNext(p)
      PROVE  UNCHANGED sales \/ \E s \in SaleIds : InitializeSale(s)
  BY <1>1 DEF CustomerNext, SubmitPaystack, RetryPayment, PaymentRefused,
     InitializeOrderSale, SavePayment, AnswerSubmit, FailPayment
<1>2. ASSUME NEW p \in Procs, ChargeNext(p)
      PROVE  UNCHANGED sales \/ \E s \in SaleIds : sale[s].status \notin Entered /\ EscrowSale(s)
  <2>1. CASE ChargeEscrow(p)
    <3>1. proc[p].at \in Before
      BY <2>1 DEF ChargeEscrow, Before, Charging
    <3>2. proc[p].s \in SaleIds /\ sale[proc[p].s].status \notin Entered
      BY <3>1, HandlesCharged DEF HandledOnce, Before
    <3> QED BY <2>1, <3>2 DEF ChargeEscrow
  <2> QED BY <1>2, <2>1 DEF ChargeNext, ChargeReceive, OrderUpdate, OrderPaid, ChargeDone,
      ChargeError
<1>3. ASSUME NEW p \in Procs, BranchNext(p) \/ Crash(p)
      PROVE  UNCHANGED sales \/ \E s \in SaleIds : CompleteService(s)
  <2>1. proc[p].at = "h_credit" => proc[p].s \in SaleIds
    BY DEF ChargeInv, JobsInv, WithSale, Serving
  <2> QED BY <1>3, <2>1 DEF BranchNext, BranchLoad, BranchSave, HandOver, Crash
<1>4. ASSUME NEW s \in SaleIds, Charge(s) \/ CompleteSale(s) \/ RefundSale(s)
      PROVE  UNCHANGED sales \/ CompleteService(s) \/ \E fault \in Fault : ProcessRefund(s, fault)
  BY <1>4 DEF Charge, CompleteSale, RefundSale
<1>5. CASE PaymentTimeout \/ CustomerCancels \/ BranchCancels \/ AdminCancels \/ PaymentSweep
  BY <1>5, CancelsRefused DEF PaymentTimeout, CustomerCancels, BranchCancels, AdminCancels,
     PaymentSweep
<1>6. CASE UNCHANGED vars
  BY <1>6 DEF vars
<1> QED BY <1>1, <1>2, <1>3, <1>4, <1>5, <1>6 DEF Next, SaleStep

\* A sale is credited when it is completed, and not before.
Counts ==
  /\ CreditedOnce
  /\ \A s \in SaleIds, x \in Parties :
       sale[s].status \notin {"completed", "refunded"} => credits[s][x] = 0

LEMMA SaleStepCounts ==
  ASSUME SalesInv, Counts, NEW s \in SaleIds, SaleStep(s)
  PROVE  Counts'
<1> USE DEF SalesInv, SalesType, Counts, CreditedOnce
<1>1. CASE InitializeSale(s)
  BY <1>1 DEF InitializeSale, ledgers
<1>2. CASE CompleteService(s)
  <2>1. /\ sale' = [sale EXCEPT ![s].status = "completed"]
        /\ \A x \in Parties : credits[s][x] = 0 /\ credits'[s][x] \in {0, 1}
        /\ \A t \in SaleIds : t # s => credits'[t] = credits[t]
    <3>1. \A x \in Parties : credits[s][x] = 0
      BY <1>2 DEF CompleteService, CanComplete
    <3>2. /\ credits' = [credits EXCEPT ![s] =
                   [x \in Parties |-> @[x] + IF x \in Payees(s) THEN 1 ELSE 0]]
          /\ sale' = [sale EXCEPT ![s].status = "completed"]
      BY <1>2 DEF CompleteService
    <3>3. \A x \in Parties : credits'[s][x] = IF x \in Payees(s) THEN 1 ELSE 0
      BY <3>1, <3>2
    <3> QED BY <3>1, <3>2, <3>3
  <2>2. sale'[s].status = "completed" /\ \A t \in SaleIds : t # s => sale'[t] = sale[t]
    BY <2>1
  <2>3. \A t \in SaleIds, x \in Parties : credits'[t][x] <= 1
    <3> SUFFICES ASSUME NEW t \in SaleIds, NEW x \in Parties PROVE credits'[t][x] <= 1
      OBVIOUS
    <3>1. credits[t][x] <= 1
      OBVIOUS
    <3> HIDE DEF SalesInv, SalesType, Counts, CreditedOnce
    <3> QED BY <2>1, <3>1
  <2> QED BY <2>1, <2>2, <2>3
<1>3. ASSUME NEW fault \in Fault, ProcessRefund(s, fault) PROVE Counts'
  <2>1. UNCHANGED credits /\ sale[s].status \in {"in_escrow", "completed"}
    BY <1>3 DEF ProcessRefund
  <2>2. /\ \A t \in SaleIds : t # s => sale'[t] = sale[t]
        /\ sale'[s].status = "refunded" \/ sale'[s] = sale[s]
    BY <1>3, ProcessRefundWrites
  <2> QED BY <2>1, <2>2
<1>4. CASE sale[s].status \notin Entered /\ EscrowSale(s)
  BY <1>4 DEF EscrowSale, ledgers, Entered
<1> QED BY <1>1, <1>2, <1>3, <1>4 DEF SaleStep

LEMMA SaleStepReverses ==
  ASSUME ~AwardMayFail, SalesInv, Counts, RefundTakesBack, NEW s \in SaleIds, SaleStep(s)
  PROVE  RefundTakesBack'
<1> USE DEF SalesInv, SalesType, RefundTakesBack
<1>1. CASE InitializeSale(s)
  BY <1>1 DEF InitializeSale, ledgers
<1>2. CASE CompleteService(s)
  BY <1>2 DEF CompleteService, CanComplete
<1>3. ASSUME NEW fault \in Fault, ProcessRefund(s, fault) PROVE RefundTakesBack'
  <2>1. /\ sale'[s].status = "refunded" /\ sale'[s].fault = fault
        /\ \A t \in SaleIds : t # s => sale'[t] = sale[t] /\ reversals'[t] = reversals[t]
        /\ UNCHANGED credits
    BY <1>3 DEF ProcessRefund, ReverseEntries
  <2>2. \A x \in Parties : /\ reversals[s][x] = 0
                           /\ sale[s].status = "in_escrow" => credits[s][x] = 0
                           /\ sale[s].status \in {"in_escrow", "completed"}
    BY <1>3 DEF ProcessRefund, Counts
  <2>3. \A x \in Parties :
          reversals'[s][x] = IF x \in AtFault(fault) THEN credits[s][x] ELSE 0
    BY <1>3, <2>2 DEF ProcessRefund, ReverseEntries
  <2> QED BY <2>1, <2>3
<1>4. CASE sale[s].status \notin Entered /\ EscrowSale(s)
  BY <1>4 DEF EscrowSale, ledgers, Entered
<1> QED BY <1>1, <1>2, <1>3, <1>4 DEF SaleStep

LEMMA InitMoney == Init => HandledOnce /\ Counts /\ RefundTakesBack
<1> SUFFICES ASSUME Init PROVE HandledOnce /\ Counts /\ RefundTakesBack
  OBVIOUS
<1>1. \A p \in Procs : proc[p].at = "idle"
  BY DEF Init, NoJob, Job
<1>2. \A s \in SaleIds : sale[s].status = "none"
                         /\ \A x \in Parties : credits[s][x] = 0 /\ reversals[s][x] = 0
  BY DEF Init, SalesInit, NoSale, NoRows
<1>3. HandledOnce
  BY <1>1, <1>2 DEF HandledOnce, Charging, Before, Entered
<1> QED BY <1>2, <1>3 DEF Counts, CreditedOnce, RefundTakesBack

\* complete_service credits nobody twice for one sale, for any number of sales
\* and processes, as long as a charge.success is not handled a second time.
THEOREM CreditIsOnce == ASSUME Patient PROVE Spec => []CreditedOnce
<1> DEFINE Inv == HandledOnce /\ Counts
<1>1. Init => Inv
  BY InitMoney
<1>2. ChargeInv /\ Inv /\ [Next]_vars => Inv'
  <2> SUFFICES ASSUME ChargeInv, Inv, [Next]_vars PROVE Inv'
    OBVIOUS
  <2>1. UNCHANGED sales => Counts'
    BY DEF sales, ledgers, Counts, CreditedOnce
  <2> QED BY <2>1, NextHandledOnce, StepsOfSales, SaleStepCounts DEF ChargeInv
<1>3. Inv => CreditedOnce
  BY DEF Counts
<1> QED BY <1>1, <1>2, <1>3, AlwaysCharge, PTL DEF Spec

\* What process_refund takes back is what was credited, where the award of the
\* compensation does not fail.
THEOREM RefundIsExact == ASSUME Patient, ~AwardMayFail PROVE Spec => []RefundTakesBack
<1> DEFINE Inv == HandledOnce /\ Counts /\ RefundTakesBack
<1>1. Init => Inv
  BY InitMoney
<1>2. ChargeInv /\ Inv /\ [Next]_vars => Inv'
  <2> SUFFICES ASSUME ChargeInv, Inv, [Next]_vars PROVE Inv'
    OBVIOUS
  <2>1. UNCHANGED sales => Counts' /\ RefundTakesBack'
    BY DEF sales, ledgers, Counts, CreditedOnce, RefundTakesBack
  <2> QED BY <2>1, NextHandledOnce, StepsOfSales, SaleStepCounts, SaleStepReverses DEF ChargeInv
<1> QED BY <1>1, <1>2, AlwaysCharge, PTL DEF Spec

-----------------------------------------------------------------------------
(* One link, for a customer who submits once at a time.                     *)

\* The inductive invariant: while a payment is being made no link was given
\* out, and a link given out is that of the order's sale for good.
LinkInv ==
  /\ \A p, q \in Procs : proc[p].at \in Paying /\ proc[q].at \in Paying => p = q
  /\ \A p \in Procs : proc[p].at = "p_timer" =>
       order.sale = proc[p].s /\ order.status = "payment_pending"
  /\ charged \subseteq linked
  /\ linked # {} =>
       /\ linked = {order.sale}
       /\ \A p \in Procs : proc[p].at \notin Paying
       /\ order.status \notin {"awaiting_payment_method", "payment_initialization_failed"}

\* What is done for a paid order is done for its sale, and handed over with
\* its code.
ServeInv ==
  /\ order.status \in Paid => order.sale \in charged
  /\ \A p \in Procs :
       /\ proc[p].at \in Serving => proc[p].s = order.sale /\ order.sale \in charged
       /\ proc[p].at = "k_save" => proc[p].status \in Paid
       /\ proc[p].at = "h_credit" => order.verified

OrderInv == LinkInv /\ ServeInv

LEMMA StepKinds ==
  /\ Paying \cap (Charging \cup Serving \cup {"idle"}) = {}
  /\ Charging \cap (Serving \cup {"idle"}) = {} /\ "idle" \notin Serving
  BY DEF Paying, Charging, Serving

\* Steps of others than the customer that leave the order alone.
LEMMA SameOrder ==
  ASSUME ChargeInv, OrderInv, UNCHANGED <<order, linked, charged>>,
         \A p \in Procs : proc'[p] # proc[p] => proc'[p].at \in Charging \cup {"idle"}
  PROVE  OrderInv'
  BY StepKinds DEF OrderInv, LinkInv, ServeInv, Paying, Serving

LEMMA CustomerOrder ==
  ASSUME ~DoubleSubmit, ChargeInv, OrderInv, NEW p \in Procs, CustomerNext(p)
  PROVE  OrderInv'
<1> USE DEF ChargeInv, OrderInv, paystack
<1>1. ASSUME NEW at \in Paying \ {"p_timer"}, NEW s, Goes(p, at, s),
             UNCHANGED <<order, linked, charged>>,
             \/ proc[p].at \in Paying
             \/ /\ NobodyPaying
                /\ order.status \in {"awaiting_payment_method", "payment_initialization_failed"}
      PROVE  OrderInv'
  <2>1. /\ proc'[p].at = at
        /\ \A q \in Procs : q # p => proc'[q] = proc[q]
    BY <1>1, GoesThere
  <2> QED BY <1>1, <2>1, StepKinds DEF LinkInv, ServeInv, NobodyPaying, Serving
<1>2. CASE SubmitPaystack(p) \/ RetryPayment(p)
  BY <1>1, <1>2 DEF SubmitPaystack, RetryPayment, MaySubmit, Paying
<1>3. CASE PaymentRefused(p) \/ \E s \in SaleIds : InitializeOrderSale(p, s)
  BY <1>1, <1>3 DEF PaymentRefused, InitializeOrderSale, Paying
<1>4. CASE SavePayment(p)
  <2>1. /\ proc[p].at = "p_save" /\ Goes(p, "p_timer", proc[p].s)
        /\ order' = [order EXCEPT !.status = "payment_pending", !.sale = proc[p].s]
        /\ UNCHANGED <<linked, charged>>
    BY <1>4 DEF SavePayment
  <2>2. /\ proc'[p].at = "p_timer" /\ proc'[p].s = proc[p].s
        /\ \A q \in Procs : q # p => proc'[q] = proc[q]
    BY <2>1, GoesThere
  <2>3. linked = {} /\ charged = {} /\ \A q \in Procs : proc[q].at \notin Serving
    BY <2>1 DEF LinkInv, ServeInv, Paying
  <2>4. order'.status = "payment_pending" /\ order'.sale = proc[p].s
    BY <2>1 DEF TableInv
  <2>5. LinkInv'
    BY <2>1, <2>2, <2>3, <2>4 DEF LinkInv, Paying
  <2>6. ServeInv'
    BY <2>2, <2>3, <2>4 DEF ServeInv, Paid, Serving
  <2> QED BY <2>5, <2>6
<1>5. CASE AnswerSubmit(p)
  <2>1. CASE Goes(p, "p_fail", None) /\ UNCHANGED linked
    BY <1>1, <1>5, <2>1 DEF AnswerSubmit, Paying
  <2>2. CASE Ends(p) /\ linked' = linked \union {proc[p].s}
    <3>1. proc'[p].at = "idle" /\ \A q \in Procs : q # p => proc'[q] = proc[q]
      BY <2>2, EndsThere
    <3>2. UNCHANGED <<order, charged>> /\ proc[p].at = "p_timer"
      BY <1>5 DEF AnswerSubmit
    <3>3. linked = {} /\ proc[p].s = order.sale /\ order.status = "payment_pending"
      BY <3>2 DEF LinkInv, Paying
    <3>4. LinkInv'
      BY <2>2, <3>1, <3>2, <3>3, StepKinds DEF LinkInv, Paying
    <3>5. ServeInv'
      BY <3>1, <3>2, StepKinds DEF ServeInv, Serving
    <3> QED BY <3>4, <3>5
  <2> QED BY <1>5, <2>1, <2>2 DEF AnswerSubmit
<1>6. CASE FailPayment(p)
  <2>1. /\ proc'[p].at = "idle" /\ \A q \in Procs : q # p => proc'[q] = proc[q]
    BY <1>6, EndsThere DEF FailPayment
  <2>2. /\ proc[p].at = "p_fail" /\ UNCHANGED <<linked, charged>>
        /\ order'.status = "payment_initialization_failed"
    BY <1>6 DEF FailPayment, TableInv
  <2>3. /\ linked = {} /\ charged = {}
        /\ \A q \in Procs : proc[q].at \notin Serving
        /\ \A q \in Procs : q # p => proc[q].at \notin Paying
    BY <2>2 DEF LinkInv, ServeInv, Paying
  <2>4. LinkInv' /\ ServeInv'
    BY <2>1, <2>2, <2>3, StepKinds DEF LinkInv, ServeInv, Paid, Paying, Serving
  <2> QED BY <2>4
<1> QED BY <1>2, <1>3, <1>4, <1>5, <1>6 DEF CustomerNext

LEMMA ChargeOrder ==
  ASSUME ChargeInv, OrderInv, NEW p \in Procs, ChargeNext(p)
  PROVE  OrderInv'
<1> USE DEF ChargeInv, paystack
<1>1. ASSUME NEW at \in Charging, NEW s, Goes(p, at, s) \/ Ends(p) \/ UNCHANGED proc,
             UNCHANGED <<order, linked, charged>>
      PROVE  OrderInv'
  BY <1>1, GoesThere, EndsThere, SameOrder
<1>2. ASSUME NEW s \in SaleIds, ChargeReceive(p, s) PROVE OrderInv'
  BY <1>1, <1>2 DEF ChargeReceive, Charging
<1>3. CASE OrderUpdate(p) \/ ChargeEscrow(p)
  BY <1>1, <1>3 DEF OrderUpdate, ChargeEscrow, Charging
<1>4. CASE ChargeDone(p) \/ ChargeError(p)
  BY <1>1, <1>4 DEF ChargeDone, ChargeError, Charging
<1>5. CASE OrderPaid(p)
  <2>1. /\ proc[p].at = "c_save" /\ UNCHANGED <<linked, charged>>
        /\ order' = [order EXCEPT !.status = "pending"] /\ Goes(p, "c_sale", proc[p].s)
    BY <1>5 DEF OrderPaid
  <2>2. /\ proc'[p].at = "c_sale" /\ \A q \in Procs : q # p => proc'[q] = proc[q]
    BY <2>1, GoesThere
  <2>3. /\ order'.status = "pending" /\ order'.sale = order.sale
        /\ order'.verified = order.verified
    BY <2>1 DEF TableInv
  <2>4. proc[p].s \in charged
    BY <2>1, HandlesCharged DEF Charging
  <2>5. LinkInv'
    BY <2>1, <2>2, <2>3, <2>4, StepKinds DEF OrderInv, LinkInv, Paying
  <2>6. ServeInv'
    BY <2>1, <2>2, <2>3, <2>4, StepKinds DEF OrderInv, LinkInv, ServeInv, Serving
  <2> QED BY <2>5, <2>6 DEF OrderInv
<1> QED BY <1>2, <1>3, <1>4, <1>5 DEF ChargeNext

LEMMA BranchOrder ==
  ASSUME ChargeInv, OrderInv, NEW p \in Procs, BranchNext(p)
  PROVE  OrderInv'
<1> USE DEF ChargeInv, paystack
<1>1. CASE BranchLoad(p)
  <2>1. /\ order.status \in {"pending", "preparing", "ready"}
        /\ UNCHANGED <<order, linked, charged>>
        /\ proc' = [proc EXCEPT ![p] = Job("k_save", order.sale, Stage[order.status])]
    BY <1>1 DEF BranchLoad, Stage
  <2>2. /\ proc'[p].at = "k_save" /\ proc'[p].s = order.sale /\ proc'[p].status \in Paid
        /\ \A q \in Procs : q # p => proc'[q] = proc[q]
    BY <2>1 DEF JobsInv, Job, Stage, Paid
  <2>3. order.sale \in charged
    BY <2>1 DEF OrderInv, ServeInv, Paid
  <2>4. LinkInv'
    BY <2>1, <2>2 DEF OrderInv, LinkInv, Paying
  <2>5. ServeInv'
    BY <2>1, <2>2, <2>3 DEF OrderInv, ServeInv
  <2> QED BY <2>4, <2>5 DEF OrderInv
<1>2. CASE BranchSave(p)
  <2> DEFINE verified == order.verified \/ proc[p].status = "delivered"
  <2>1. /\ proc[p].at = "k_save" /\ UNCHANGED <<linked, charged>>
        /\ order' = [order EXCEPT !.status = proc[p].status, !.verified = verified]
        /\ \/ proc[p].status = "delivered" /\ Goes(p, "h_credit", proc[p].s)
           \/ Ends(p)
    BY <1>2 DEF BranchSave
  <2>2. /\ order'.status = proc[p].status /\ order'.sale = order.sale
        /\ order'.verified = verified
    <3> HIDE DEF verified
    <3> QED BY <2>1 DEF TableInv
  <2>3. /\ \/ /\ proc'[p].at = "h_credit" /\ proc'[p].s = proc[p].s
              /\ proc[p].status = "delivered"
           \/ proc'[p].at = "idle"
        /\ \A q \in Procs : q # p => proc'[q] = proc[q]
    BY <2>1, GoesThere, EndsThere
  <2>4. proc[p].s = order.sale /\ order.sale \in charged /\ proc[p].status \in Paid
    BY <2>1 DEF OrderInv, ServeInv, Serving
  <2>5. order.verified => order'.verified
    BY <2>2
  <2>6. proc'[p].at = "h_credit" => order'.verified
    BY <2>2, <2>3
  <2> HIDE DEF verified
  <2>7. LinkInv'
    BY <2>1, <2>2, <2>3, <2>4, StepKinds DEF OrderInv, LinkInv, Paid, Paying, Serving
  <2>8. ServeInv'
    BY <2>1, <2>2, <2>3, <2>4, <2>5, <2>6, StepKinds DEF OrderInv, ServeInv, Serving
  <2> QED BY <2>7, <2>8 DEF OrderInv
<1>3. CASE HandOver(p)
  BY <1>3, EndsThere, SameOrder DEF HandOver
<1> QED BY <1>1, <1>2, <1>3 DEF BranchNext

LEMMA NextOrder ==
  ASSUME ~DoubleSubmit, ChargeInv, OrderInv, [Next]_vars
  PROVE  OrderInv'
<1> USE DEF paystack
<1>1. ASSUME NEW s \in SaleIds, Charge(s) PROVE OrderInv'
  BY <1>1 DEF Charge, OrderInv, LinkInv, ServeInv
<1>2. ASSUME NEW s \in SaleIds, CompleteSale(s) \/ RefundSale(s) PROVE OrderInv'
  BY <1>2, SameOrder DEF CompleteSale, RefundSale
<1>3. ASSUME NEW p \in Procs, Crash(p) PROVE OrderInv'
  BY <1>3, EndsThere, SameOrder DEF Crash, ChargeInv
<1>4. CASE PaymentTimeout \/ CustomerCancels \/ BranchCancels \/ AdminCancels \/ PaymentSweep
  BY <1>4, CancelsRefused, SameOrder DEF PaymentTimeout, CustomerCancels, BranchCancels,
     AdminCancels, PaymentSweep
<1>5. CASE UNCHANGED vars
  BY <1>5, SameOrder DEF vars
<1> QED BY <1>1, <1>2, <1>3, <1>4, <1>5, CustomerOrder, ChargeOrder, BranchOrder DEF Next

LEMMA InitOrder == Init => OrderInv
<1> SUFFICES ASSUME Init PROVE OrderInv
  OBVIOUS
<1>1. \A p \in Procs : proc[p].at = "idle"
  BY DEF Init, NoJob, Job
<1> QED BY <1>1, StepKinds DEF Init, OrderInv, LinkInv, ServeInv, Paid, Paying, Serving

\* A customer who does not submit while a submit is in progress is never given
\* two links, for any number of sales and processes, crashes included.
THEOREM LinkIsOne == ASSUME ~DoubleSubmit PROVE Spec => []OneLink
<1>1. ChargeInv /\ OrderInv /\ [Next]_vars => OrderInv'
  BY NextOrder
<1>2. OrderInv => OneLink
  <2> SUFFICES ASSUME OrderInv PROVE Cardinality(linked) <= 1
    BY DEF OneLink
  <2>1. linked = {} \/ linked = {order.sale}
    BY DEF OrderInv, LinkInv
  <2>2. Cardinality({}) = 0 /\ Cardinality({order.sale}) = 1
    BY FS_EmptySet, FS_Singleton
  <2> QED BY <2>1, <2>2
<1> QED BY <1>1, <1>2, InitOrder, AlwaysCharge, PTL DEF Spec

\* Without the sale endpoint a sale is credited only at its order's hand-over.
Handed ==
  \A s \in SaleIds : credits[s]["business_owner"] > 0 => order.verified /\ order.sale = s

\* The steps that credit, and those that write what a credit relies on.
LEMMA NextHanded ==
  ASSUME ~DoubleSubmit, ~DirectApi, ChargeInv, OrderInv, Handed, [Next]_vars
  PROVE  Handed'
<1>1. ASSUME NEW s \in SaleIds, CompleteService(s), UNCHANGED order,
             order.verified, order.sale = s
      PROVE  Handed'
  <2>1. \A t \in SaleIds : t # s => credits'[t] = credits[t]
    BY <1>1 DEF CompleteService, ChargeInv, SalesInv, SalesType
  <2> QED BY <1>1, <2>1 DEF Handed
<1>2. ASSUME UNCHANGED <<order, credits>> PROVE Handed'
  BY <1>2 DEF Handed
<1>3. ASSUME NEW p \in Procs, CustomerNext(p) PROVE Handed'
  <2>1. UNCHANGED credits
    BY <1>3 DEF CustomerNext, SubmitPaystack, RetryPayment, PaymentRefused,
       InitializeOrderSale, InitializeSale, SavePayment, AnswerSubmit, FailPayment,
       sales, ledgers
  <2>2. proc[p].at \in Paying \/ UNCHANGED order
    BY <1>3 DEF CustomerNext, SubmitPaystack, RetryPayment, PaymentRefused,
       InitializeOrderSale, SavePayment, AnswerSubmit, FailPayment, Paying
  <2>3. proc[p].at \in Paying => \A s \in SaleIds : ~(credits[s]["business_owner"] > 0)
    BY DEF OrderInv, LinkInv, ChargeInv, SalesInv, CreditedIsCharged, Parties
  <2> QED BY <1>2, <2>1, <2>2, <2>3 DEF Handed
<1>4. ASSUME NEW p \in Procs, ChargeNext(p) PROVE Handed'
  <2>1. UNCHANGED credits
    BY <1>4 DEF ChargeNext, ChargeReceive, OrderUpdate, OrderPaid, ChargeEscrow, EscrowSale,
       ChargeDone, ChargeError, sales, ledgers
  <2>2. order'.sale = order.sale /\ order'.verified = order.verified
    <3>1. CASE OrderPaid(p)
      BY <3>1 DEF OrderPaid, ChargeInv, TableInv
    <3>2. CASE UNCHANGED order
      BY <3>2
    <3> QED BY <1>4, <3>1, <3>2 DEF ChargeNext, ChargeReceive, OrderUpdate, ChargeEscrow,
        ChargeDone, ChargeError
  <2> QED BY <2>1, <2>2 DEF Handed
<1>5. ASSUME NEW p \in Procs, BranchLoad(p) \/ Crash(p) PROVE Handed'
  BY <1>2, <1>5 DEF BranchLoad, Crash, sales, ledgers
<1>6. ASSUME NEW p \in Procs, BranchSave(p) PROVE Handed'
  <2> DEFINE verified == order.verified \/ proc[p].status = "delivered"
  <2>1. /\ order' = [order EXCEPT !.status = proc[p].status, !.verified = verified]
        /\ UNCHANGED credits
    BY <1>6 DEF BranchSave, sales, ledgers
  <2>2. order'.sale = order.sale /\ order'.verified = verified
    <3> HIDE DEF verified
    <3> QED BY <2>1 DEF ChargeInv, TableInv
  <2> QED BY <2>1, <2>2 DEF Handed
<1>7. ASSUME NEW p \in Procs, HandOver(p) PROVE Handed'
  <2>1. /\ proc[p].s \in SaleIds /\ proc[p].s = order.sale /\ order.verified
    BY <1>7 DEF HandOver, ChargeInv, JobsInv, WithSale, Serving, OrderInv, ServeInv
  <2> QED BY <1>1, <1>2, <1>7, <2>1 DEF HandOver, sales, ledgers
<1>8. ASSUME NEW s \in SaleIds, Charge(s) \/ CompleteSale(s) \/ RefundSale(s) PROVE Handed'
  BY <1>2, <1>8 DEF Charge, CompleteSale, RefundSale, ProcessRefund, sales, ledgers
<1>9. CASE PaymentTimeout \/ CustomerCancels \/ BranchCancels \/ AdminCancels \/ PaymentSweep
  BY <1>2, <1>9, CancelsRefused DEF PaymentTimeout, CustomerCancels, BranchCancels,
     AdminCancels, PaymentSweep, sales, ledgers
<1>10. CASE UNCHANGED vars
  BY <1>2, <1>10 DEF vars, sales, ledgers
<1> QED BY <1>3, <1>4, <1>5, <1>6, <1>7, <1>8, <1>9, <1>10 DEF Next, BranchNext

\* The branch cooks only what is paid, and the money of a sale goes out only
\* when the code of its order was verified.
THEOREM WorkIsForMoney == ASSUME ~DoubleSubmit, ~DirectApi PROVE Spec => []WorkIsPaid
<1> DEFINE Inv == OrderInv /\ Handed
<1>1. Init => Inv
  <2>1. Init => Handed
    BY DEF Init, SalesInit, NoRows, Handed, Parties
  <2> QED BY <2>1, InitOrder
<1>2. ChargeInv /\ Inv /\ [Next]_vars => Inv'
  BY NextOrder, NextHanded
<1>3. Inv => WorkIsPaid
  BY DEF WorkIsPaid, OrderInv, ServeInv, Handed
<1> QED BY <1>1, <1>2, <1>3, AlwaysCharge, PTL DEF Spec

-----------------------------------------------------------------------------
(* The money follows the order.                                             *)

Settled == {"completed", "refunded"}
Escrowing(s) == \E p \in Procs : proc[p].at = "c_sale" /\ proc[p].s = s

\* The inductive invariant: the sale of a paid order is past escrow or about to
\* be, and whoever serves the order saw it there.
FollowInv ==
  errors = 0 =>
    /\ order.status \in Paid => sale[order.sale].status \in Entered \/ Escrowing(order.sale)
    /\ \A p \in Procs : proc[p].at \in Serving => sale[proc[p].s].status \in Entered
    /\ order.status = "delivered" /\ (\A p \in Procs : proc[p].at # "h_credit")
         => sale[order.sale].status \in Settled

\* No step takes a sale back.
LEMMA SaleAdvances ==
  ASSUME ChargeInv, HandledOnce, [Next]_vars
  PROVE  \A t \in SaleIds : /\ sale[t].status \in Entered => sale'[t].status \in Entered
                            /\ sale[t].status \in Settled => sale'[t].status \in Settled
<1>1. ASSUME NEW s \in SaleIds, SaleStep(s), NEW t \in SaleIds
      PROVE  /\ sale[t].status \in Entered => sale'[t].status \in Entered
             /\ sale[t].status \in Settled => sale'[t].status \in Settled
  <2>0. SalesType
    BY DEF ChargeInv, SalesInv
  <2>1. CASE InitializeSale(s)
    BY <2>0, <2>1, InitializeSaleWrites DEF Entered, Settled
  <2>2. CASE CompleteService(s)
    BY <2>0, <2>2, CompleteServiceWrites DEF Entered, Settled
  <2>3. ASSUME NEW fault \in Fault, ProcessRefund(s, fault)
        PROVE  sale'[t] = sale[t] \/ sale'[t].status = "refunded"
    BY <2>0, <2>3, ProcessRefundWrites
  <2>4. CASE sale[s].status \notin Entered /\ EscrowSale(s)
    BY <2>0, <2>4, EscrowSaleWrites DEF Entered, Settled
  <2> QED BY <1>1, <2>1, <2>2, <2>3, <2>4 DEF SaleStep, Entered, Settled
<1> QED BY <1>1, StepsOfSales DEF sales

Advances == \A t \in SaleIds : /\ sale[t].status \in Entered => sale'[t].status \in Entered
                               /\ sale[t].status \in Settled => sale'[t].status \in Settled

\* Steps that leave the order and those who serve or escrow alone.
LEMMA SameFollow ==
  ASSUME ChargeInv, OrderInv, FollowInv, Advances, UNCHANGED order, errors' = 0 => errors = 0,
         \A p \in Procs : proc[p].at \in Serving \cup {"c_sale"} => proc'[p] = proc[p],
         \A p \in Procs : proc'[p].at \in Serving => proc'[p] = proc[p]
  PROVE  FollowInv'
<1>1. \A s \in SaleIds : Escrowing(s) => Escrowing(s)'
  BY DEF Escrowing
<1>2. order.status \in Paid => order.sale \in SaleIds
  BY DEF ChargeInv, OrderHasSale, TableInv
<1>3. \A p \in Procs : proc[p].at \in Serving => proc[p].s \in SaleIds
  BY DEF ChargeInv, JobsInv, WithSale
<1>4. "delivered" \in Paid /\ "h_credit" \in Serving
  BY DEF Paid, Serving
<1> QED BY <1>1, <1>2, <1>3, <1>4 DEF FollowInv, Advances

LEMMA CustomerFollow ==
  ASSUME ChargeInv, OrderInv, FollowInv, Advances, NEW p \in Procs, CustomerNext(p)
  PROVE  FollowInv'
<1>1. /\ proc[p].at \notin Serving \cup {"c_sale"} /\ proc'[p].at \notin Serving
      /\ UNCHANGED errors /\ \A q \in Procs : q # p => proc'[q] = proc[q]
  BY StepKinds, GoesThere, EndsThere DEF CustomerNext, SubmitPaystack, RetryPayment,
     PaymentRefused, InitializeOrderSale, SavePayment, AnswerSubmit, FailPayment, Idle,
     Serving, failures, ChargeInv
<1>2. CASE UNCHANGED order
  BY <1>1, <1>2, SameFollow
<1>3. CASE SavePayment(p) \/ FailPayment(p)
  <2>1. order'.status \in Unpaid /\ \A q \in Procs : proc[q].at \notin Serving
    BY <1>3 DEF SavePayment, FailPayment, ChargeInv, TableInv, Unpaid, OrderInv, LinkInv,
       ServeInv, Paying
  <2> QED BY <1>1, <2>1 DEF FollowInv, Unpaid, Paid
<1> QED BY <1>2, <1>3 DEF CustomerNext, SubmitPaystack, RetryPayment, PaymentRefused,
    InitializeOrderSale, AnswerSubmit

LEMMA ChargeFollow ==
  ASSUME ChargeInv, OrderInv, HandledOnce, FollowInv, Advances, NEW p \in Procs, ChargeNext(p)
  PROVE  FollowInv'
<1> USE DEF ChargeInv, failures
<1>1. ASSUME NEW at \in Charging \cup {"idle"}, proc[p].at \in (Charging \ {"c_sale"}) \cup {"idle"},
             proc'[p].at = at, \A q \in Procs : q # p => proc'[q] = proc[q],
             UNCHANGED <<order, errors>>
      PROVE  FollowInv'
  BY <1>1, StepKinds, SameFollow
<1>2. ASSUME NEW s \in SaleIds, ChargeReceive(p, s) PROVE FollowInv'
  BY <1>1, <1>2, GoesThere DEF ChargeReceive, Idle, Charging
<1>3. CASE OrderUpdate(p)
  BY <1>1, <1>3, GoesThere DEF OrderUpdate, Charging
<1>4. CASE OrderPaid(p)
  <2>1. /\ proc[p].at = "c_save" /\ UNCHANGED <<sale, errors>>
        /\ order' = [order EXCEPT !.status = "pending"] /\ Goes(p, "c_sale", proc[p].s)
    BY <1>4 DEF OrderPaid, sales
  <2>2. /\ proc'[p].at = "c_sale" /\ proc'[p].s = proc[p].s
        /\ \A q \in Procs : q # p => proc'[q] = proc[q]
    BY <2>1, GoesThere
  <2>3. order'.status = "pending" /\ order'.sale = order.sale
    BY <2>1 DEF TableInv
  <2>4. proc[p].s = order.sale
    BY <2>1, HandlesCharged DEF Charging, OrderInv, LinkInv
  <2>5. Escrowing(order.sale)'
    BY <2>2, <2>3, <2>4 DEF Escrowing
  <2> QED BY <2>1, <2>2, <2>3, <2>5 DEF FollowInv, Serving
<1>5. CASE ChargeEscrow(p)
  <2>1. /\ proc[p].at = "c_sale" /\ UNCHANGED <<order, errors>>
        /\ Goes(p, "c_done", proc[p].s) /\ EscrowSale(proc[p].s)
    BY <1>5 DEF ChargeEscrow
  <2>2. /\ proc'[p].at = "c_done" /\ \A q \in Procs : q # p => proc'[q] = proc[q]
    BY <2>1, GoesThere
  <2>3. proc[p].s \in SaleIds /\ sale'[proc[p].s].status \in Entered
    BY <2>1, HandlesCharged, EscrowSaleWrites DEF Charging, SalesInv, Entered
  <2>4. order.status \in Paid /\ Escrowing(order.sale) =>
          sale'[order.sale].status \in Entered \/ Escrowing(order.sale)'
    BY <2>1, <2>2, <2>3 DEF Escrowing
  <2>5. order.status \in Paid => order.sale \in SaleIds
    BY DEF OrderHasSale, TableInv
  <2>6. \A q \in Procs : proc[q].at \in Serving => proc[q].s \in SaleIds
    BY DEF JobsInv, WithSale
  <2>7. /\ "delivered" \in Paid /\ {"c_sale", "c_done"} \cap Serving = {}
        /\ "h_credit" \in Serving
    BY DEF Paid, Serving
  <2> QED BY <2>1, <2>2, <2>4, <2>5, <2>6, <2>7 DEF FollowInv, Advances
<1>6. CASE ChargeDone(p)
  BY <1>1, <1>6, EndsThere DEF ChargeDone, Charging
<1>7. CASE ChargeError(p)
  <2>1. errors' # 0
    BY <1>7 DEF ChargeError, TableInv
  <2> QED BY <2>1 DEF FollowInv
<1> QED BY <1>2, <1>3, <1>4, <1>5, <1>6, <1>7 DEF ChargeNext

LEMMA BranchFollow ==
  ASSUME Prompt, ChargeInv, OrderInv, FollowInv, Advances, NEW p \in Procs, BranchNext(p)
  PROVE  FollowInv'
<1> USE DEF ChargeInv, failures, OrderInv
<1>1. order.status \in Paid => order.sale \in SaleIds
  BY DEF OrderHasSale, TableInv
<1>2. \A q \in Procs : proc[q].at \in Serving =>
        /\ proc[q].s \in SaleIds /\ proc[q].s = order.sale
  BY DEF JobsInv, WithSale, ServeInv
<1>3. CASE BranchLoad(p)
  <2>1. /\ NobodyCharging /\ Idle(p) /\ order.status \in {"pending", "preparing", "ready"}
        /\ proc' = [proc EXCEPT ![p] = Job("k_save", order.sale, Stage[order.status])]
        /\ UNCHANGED <<order, sale, errors>>
    BY <1>3 DEF BranchLoad, Stage, sales
  <2>2. /\ proc'[p].at = "k_save" /\ proc'[p].s = order.sale
        /\ \A q \in Procs : q # p => proc'[q] = proc[q]
    BY <2>1 DEF JobsInv, Job
  <2>3. errors = 0 => sale[order.sale].status \in Entered
    BY <2>1 DEF FollowInv, Paid, Escrowing, NobodyCharging, Charging
  <2> QED BY <2>1, <2>2, <2>3 DEF FollowInv
<1>4. CASE BranchSave(p)
  <2>1. /\ proc[p].at = "k_save" /\ UNCHANGED <<sale, errors>>
        /\ order'.sale = order.sale /\ order'.status = proc[p].status
        /\ \/ proc[p].status = "delivered" /\ Goes(p, "h_credit", proc[p].s)
           \/ proc[p].status # "delivered" /\ Ends(p)
    <3> DEFINE verified == order.verified \/ proc[p].status = "delivered"
    <3>1. order' = [order EXCEPT !.status = proc[p].status, !.verified = verified]
      BY <1>4 DEF BranchSave
    <3> HIDE DEF verified
    <3> QED BY <1>4, <3>1 DEF BranchSave, TableInv, sales
  <2>2. /\ \/ /\ proc'[p].at = "h_credit" /\ proc'[p].s = proc[p].s
              /\ proc[p].status = "delivered"
           \/ proc'[p].at = "idle" /\ proc[p].status # "delivered"
        /\ \A q \in Procs : q # p => proc'[q] = proc[q]
    BY <2>1, GoesThere, EndsThere
  <2>3. proc[p].s = order.sale /\ (errors = 0 => sale[order.sale].status \in Entered)
    BY <1>2, <2>1 DEF FollowInv, Serving
  <2>4. errors = 0 => \A q \in Procs : proc'[q].at \in Serving
                                         => sale[proc'[q].s].status \in Entered
    BY <2>1, <2>2, <2>3, StepKinds DEF FollowInv
  <2>5. order'.status = "delivered" => proc'[p].at = "h_credit"
    BY <2>1, <2>2
  <2>6. errors' = errors /\ sale' = sale
    BY <2>1
  <2>7. errors' = 0 => sale'[order'.sale].status \in Entered
    BY <2>1, <2>3, <2>6
  <2>8. errors' = 0 => \A q \in Procs : proc'[q].at \in Serving
                                          => sale'[proc'[q].s].status \in Entered
    BY <2>4, <2>6
  <2> HIDE DEF ChargeInv, OrderInv, failures
  <2> QED BY <2>5, <2>7, <2>8 DEF FollowInv
<1>5. CASE HandOver(p)
  <2>1. /\ proc[p].at = "h_credit" /\ Ends(p) /\ UNCHANGED <<order, errors>>
        /\ \/ CompleteService(proc[p].s)
           \/ ~CanComplete(proc[p].s) /\ UNCHANGED sale
    BY <1>5 DEF HandOver, sales
  <2>2. proc'[p].at = "idle" /\ \A q \in Procs : q # p => proc'[q] = proc[q]
    BY <2>1, EndsThere
  <2>3. proc[p].s \in SaleIds /\ proc[p].s = order.sale
    BY <1>2, <2>1 DEF Serving
  <2>4. errors = 0 => sale[order.sale].status \in Entered
    BY <2>1, <2>3 DEF FollowInv, Serving
  <2>5. errors = 0 => sale'[order.sale].status \in Settled
    <3>1. CASE CompleteService(proc[p].s)
      BY <2>3, <3>1, CompleteServiceWrites DEF SalesInv, Settled
    <3>2. CASE ~CanComplete(proc[p].s) /\ UNCHANGED sale
      BY <2>3, <2>4, <3>2 DEF CanComplete, Entered, Settled
    <3> QED BY <2>1, <3>1, <3>2
  <2>6. \A q \in Procs : proc'[q].at \in Serving => proc'[q] = proc[q]
    BY <2>2, StepKinds
  <2> QED BY <1>2, <2>1, <2>3, <2>4, <2>5, <2>6 DEF FollowInv, Advances, Settled, Entered
<1> QED BY <1>3, <1>4, <1>5 DEF BranchNext

LEMMA NextFollow ==
  ASSUME Patient, Prompt, ChargeInv, OrderInv, HandledOnce, FollowInv, [Next]_vars
  PROVE  FollowInv'
<1>1. Advances
  BY SaleAdvances DEF Advances
<1>2. ASSUME UNCHANGED <<order, proc, errors>> PROVE FollowInv'
  BY <1>1, <1>2, SameFollow
<1>3. ASSUME NEW p \in Procs, Crash(p) PROVE FollowInv'
  BY <1>3 DEF Crash, Patient, ChargeInv, TableInv
<1>4. ASSUME NEW s \in SaleIds, Charge(s) \/ CompleteSale(s) \/ RefundSale(s) PROVE FollowInv'
  BY <1>2, <1>4 DEF Charge, CompleteSale, RefundSale, failures
<1>5. CASE PaymentTimeout \/ CustomerCancels \/ BranchCancels \/ AdminCancels \/ PaymentSweep
  BY <1>2, <1>5, CancelsRefused DEF PaymentTimeout, CustomerCancels, BranchCancels,
     AdminCancels, PaymentSweep, failures
<1>6. CASE UNCHANGED vars
  BY <1>2, <1>6 DEF vars, failures
<1> QED BY <1>1, <1>3, <1>4, <1>5, <1>6, CustomerFollow, ChargeFollow, BranchFollow DEF Next

\* Order and sale are saved one after the other; still the sale of a paid order
\* is in escrow or further once its charge was handled, and that of an order
\* handed over is settled, unless handling the charge raised.
THEOREM MoneyFollows ==
  ASSUME Patient, Prompt, ~DoubleSubmit PROVE Spec => []MoneyFollowsOrder
<1> DEFINE Inv == HandledOnce /\ OrderInv /\ FollowInv
<1>1. Init => Inv
  <2>1. Init => FollowInv
    <3> SUFFICES ASSUME Init PROVE FollowInv
      OBVIOUS
    <3>1. \A p \in Procs : proc[p].at = "idle"
      BY DEF Init, NoJob, Job
    <3> QED BY <3>1 DEF Init, FollowInv, Paid, Serving
  <2> QED BY <2>1, InitMoney, InitOrder
<1>2. ChargeInv /\ Inv /\ [Next]_vars => Inv'
  BY NextHandledOnce, NextOrder, NextFollow
<1>3. Inv => MoneyFollowsOrder
  BY DEF MoneyFollowsOrder, FollowInv, Escrowing, NobodyCharging, Charging, Entered, Settled
<1> QED BY <1>1, <1>2, <1>3, AlwaysCharge, PTL DEF Spec

-----------------------------------------------------------------------------
(* The money of every sale makes only the steps of EscrowPromise.           *)

MoneyStages == [s \in SaleIds |-> MoneyAt(s)]

\* A sale moves and the others stay.
LEMMA MoneyMoves ==
  ASSUME NEW s \in SaleIds, NEW from, NEW to, MoneyAt(s) = from, MoneyAt(s)' = to,
         \A t \in SaleIds : t # s => MoneyAt(t)' = MoneyAt(t)
  PROVE  Escrow!Moves(s, from, to)
<1>1. MoneyStages[s] = from /\ MoneyStages' = [MoneyStages EXCEPT ![s] = to]
  BY DEF MoneyStages
<1> QED BY <1>1 DEF Escrow!Moves, MoneyStages

\* A customer is charged by a step of Paystack, which touches no sale.
LEMMA ChargedAlone ==
  ASSUME ChargeInv, [Next]_vars
  PROVE  \/ UNCHANGED charged
         \/ UNCHANGED sales /\ \E s \in SaleIds \ charged : charged' = charged \union {s}
<1>1. ASSUME NEW s \in SaleIds, Charge(s)
      PROVE  UNCHANGED sales /\ s \notin charged /\ charged' = charged \union {s}
  BY <1>1 DEF Charge
<1>2. ASSUME NEW p \in Procs, CustomerNext(p) PROVE UNCHANGED charged
  BY <1>2 DEF CustomerNext, SubmitPaystack, RetryPayment, PaymentRefused, InitializeOrderSale,
     SavePayment, AnswerSubmit, FailPayment, paystack
<1>3. ASSUME NEW p \in Procs, ChargeNext(p) PROVE UNCHANGED charged
  BY <1>3 DEF ChargeNext, ChargeReceive, OrderUpdate, OrderPaid, ChargeEscrow, ChargeDone,
     ChargeError, paystack
<1>4. ASSUME NEW p \in Procs, BranchNext(p) \/ Crash(p) PROVE UNCHANGED charged
  BY <1>4 DEF BranchNext, BranchLoad, BranchSave, HandOver, Crash, paystack
<1>5. ASSUME NEW s \in SaleIds, CompleteSale(s) \/ RefundSale(s) PROVE UNCHANGED charged
  BY <1>5 DEF CompleteSale, RefundSale, paystack
<1>6. CASE PaymentTimeout \/ CustomerCancels \/ BranchCancels \/ AdminCancels \/ PaymentSweep
  BY <1>6 DEF PaymentTimeout, CustomerCancels, BranchCancels, AdminCancels, PaymentSweep, paystack
<1>7. CASE UNCHANGED vars
  BY <1>7 DEF vars, paystack
<1> QED BY <1>1, <1>2, <1>3, <1>4, <1>5, <1>6, <1>7 DEF Next

\* Completing the service hands the money out, to the business at least.
LEMMA HandsOut ==
  ASSUME SalesInv, Counts, NEW s \in SaleIds, CompleteService(s), UNCHANGED charged
  PROVE  Escrow!HandOut(s, Payees(s))
<1>1. SalesType
  BY DEF SalesInv
<1>2. Escrow!Moves(s, "held", "handed_out")
  <2>1. /\ sale[s].status = "in_escrow" /\ sale'[s].status = "completed"
        /\ \A t \in SaleIds : t # s => sale'[t] = sale[t]
    BY <1>1, CompleteServiceWrites
  <2>2. /\ MoneyAt(s) = "held" /\ MoneyAt(s)' = "handed_out"
        /\ \A t \in SaleIds : t # s => MoneyAt(t)' = MoneyAt(t)
    BY <2>1 DEF MoneyAt
  <2> QED BY <2>2, MoneyMoves
<1>3. /\ credits' = [credits EXCEPT ![s] =
                       [x \in Parties |-> credits[s][x] + IF x \in Payees(s) THEN 1 ELSE 0]]
      /\ UNCHANGED reversals /\ sale[s].status = "in_escrow"
  <2>1. credits \in [SaleIds -> [Parties -> Nat]]
    BY <1>1 DEF SalesType
  <2> QED BY <2>1 DEF CompleteService, CanComplete
<1>4. \A x \in Parties : credits[s][x] = 0
  BY <1>3 DEF Counts
<1>5. [x \in Parties |-> credits[s][x] + IF x \in Payees(s) THEN 1 ELSE 0]
      = [x \in Parties |-> IF x \in Payees(s) THEN 1 ELSE 0]
  BY <1>4
<1>6. credits' = [credits EXCEPT ![s] = [x \in Parties |-> IF x \in Payees(s) THEN 1 ELSE 0]]
  BY <1>3, <1>5
<1>7. "business_owner" \in Payees(s)
  BY DEF Payees
<1> QED BY <1>2, <1>3, <1>6, <1>7 DEF Escrow!HandOut

\* A refund returns the money, and takes back what a completed sale gave out.
LEMMA Returns ==
  ASSUME ~AwardMayFail, SalesInv, Counts, RefundTakesBack,
         NEW s \in SaleIds, NEW fault \in Fault, ProcessRefund(s, fault), UNCHANGED charged
  PROVE  Escrow!GiveBack(s) \/ Escrow!TakeBack(s, AtFault(fault))
<1>1. SalesType
  BY DEF SalesInv
<1>2. /\ sale[s].status \in {"in_escrow", "completed"}
      /\ sale' = [sale EXCEPT ![s].status = "refunded", ![s].fault = fault]
      /\ UNCHANGED credits
      /\ reversals' = [reversals EXCEPT ![s] =
           [x \in Parties |-> @[x] + IF sale[s].status = "completed" /\ x \in AtFault(fault)
                                     THEN credits[s][x] ELSE 0]]
  BY DEF ProcessRefund, ReverseEntries
<1>3. sale'[s].status = "refunded" /\ \A t \in SaleIds : t # s => sale'[t] = sale[t]
  <2>1. sale \in SaleRows
    BY <1>1 DEF SalesType, SaleRows
  <2> QED BY <1>2, <2>1 DEF SaleRows
<1>4. MoneyAt(s)' = "returned" /\ \A t \in SaleIds : t # s => MoneyAt(t)' = MoneyAt(t)
  BY <1>3 DEF MoneyAt
<1>5. /\ reversals \in [SaleIds -> [Parties -> Nat]] /\ credits \in [SaleIds -> [Parties -> Nat]]
      /\ \A x \in Parties : reversals[s][x] = 0
  <2>1. reversals \in [SaleIds -> [Parties -> Nat]] /\ credits \in [SaleIds -> [Parties -> Nat]]
    BY <1>1 DEF SalesType
  <2>2. \A x \in Parties : reversals[s][x] = 0
    BY <1>2 DEF RefundTakesBack
  <2> QED BY <2>1, <2>2
<1>6. CASE sale[s].status = "in_escrow"
  <2>1. MoneyAt(s) = "held"
    BY <1>6 DEF MoneyAt
  <2>2. [x \in Parties |-> reversals[s][x] +
           IF sale[s].status = "completed" /\ x \in AtFault(fault) THEN credits[s][x] ELSE 0]
        = reversals[s]
    BY <1>5, <1>6
  <2>3. reversals' = reversals
    BY <1>2, <1>5, <2>2
  <2> QED BY <1>2, <1>4, <2>1, <2>3, MoneyMoves DEF Escrow!GiveBack
<1>7. CASE sale[s].status = "completed"
  <2>1. MoneyAt(s) = "handed_out"
    BY <1>7 DEF MoneyAt
  <2>2. [x \in Parties |-> reversals[s][x] +
           IF sale[s].status = "completed" /\ x \in AtFault(fault) THEN credits[s][x] ELSE 0]
        = [x \in Parties |-> IF x \in AtFault(fault) THEN credits[s][x] ELSE 0]
    BY <1>5, <1>7
  <2>3. reversals' = [reversals EXCEPT ![s] =
                        [x \in Parties |-> IF x \in AtFault(fault) THEN credits[s][x] ELSE 0]]
    BY <1>2, <2>2
  <2> QED BY <1>2, <1>4, <2>1, <2>3, MoneyMoves DEF Escrow!TakeBack
<1> QED BY <1>2, <1>6, <1>7

EscrowShown == <<MoneyStages, credits, reversals>>

LEMMA NextEscrow ==
  ASSUME ~AwardMayFail, ChargeInv, ChargeInv', HandledOnce, Counts, RefundTakesBack, [Next]_vars
  PROVE  [Escrow!Next]_EscrowShown
<1>1. SalesInv /\ SalesInv' /\ SalesType
  BY DEF ChargeInv, SalesInv
<1>2. CASE UNCHANGED <<sales, charged>>
  BY <1>2 DEF sales, ledgers, EscrowShown, MoneyStages, MoneyAt
<1>3. ASSUME UNCHANGED sales, NEW s \in SaleIds \ charged, charged' = charged \union {s}
      PROVE  Escrow!Pay(s)
  <2>1. sale[s].status \notin {"in_escrow", "completed", "refunded"}
    BY <1>1 DEF SalesInv
  <2>2. UNCHANGED <<sale, credits, reversals>>
    BY <1>3 DEF sales, ledgers
  <2>3. /\ MoneyAt(s) = "due" /\ MoneyAt(s)' = "paid"
        /\ \A t \in SaleIds : t # s => MoneyAt(t)' = MoneyAt(t)
    BY <1>3, <2>1, <2>2 DEF MoneyAt
  <2> QED BY <2>2, <2>3, MoneyMoves DEF Escrow!Pay
<1>4. ASSUME NEW s \in SaleIds, SaleStep(s), UNCHANGED charged
      PROVE  [Escrow!Next]_EscrowShown
  <2>1. CASE InitializeSale(s)
    <3>1. \A t \in SaleIds : MoneyAt(t)' = MoneyAt(t)
      BY <1>1, <1>4, <2>1, InitializeSaleWrites DEF MoneyAt
    <3>2. UNCHANGED <<credits, reversals>>
      BY <2>1 DEF InitializeSale, ledgers
    <3> QED BY <3>1, <3>2 DEF EscrowShown, MoneyStages
  <2>2. CASE CompleteService(s)
    <3>1. Payees(s) \in SUBSET Parties
      BY DEF Payees, Parties
    <3> QED BY <1>1, <1>4, <2>2, <3>1, HandsOut DEF Escrow!Next
  <2>3. ASSUME NEW fault \in Fault, ProcessRefund(s, fault)
        PROVE  Escrow!Next
    BY <1>1, <1>4, <2>3, Returns DEF Escrow!Next
  <2>4. CASE sale[s].status \notin Entered /\ EscrowSale(s)
    <3>1. /\ sale'[s].status = "in_escrow"
          /\ \A t \in SaleIds : t # s => sale'[t] = sale[t]
      BY <1>1, <2>4, EscrowSaleWrites
    <3>2. s \in charged
      BY <1>1, <1>4, <3>1 DEF SalesInv
    <3>3. /\ MoneyAt(s) = "paid" /\ MoneyAt(s)' = "held"
          /\ \A t \in SaleIds : t # s => MoneyAt(t)' = MoneyAt(t)
      BY <1>4, <2>4, <3>1, <3>2 DEF MoneyAt, Entered
    <3>4. UNCHANGED <<credits, reversals>>
      BY <2>4 DEF EscrowSale, ledgers
    <3>5. Escrow!Hold(s)
      BY <3>3, <3>4, MoneyMoves DEF Escrow!Hold
    <3> QED BY <3>5 DEF Escrow!Next
  <2> QED BY <1>4, <2>1, <2>2, <2>3, <2>4 DEF SaleStep
<1>5. (\E s \in SaleIds \ charged : Escrow!Pay(s)) => Escrow!Next
  BY DEF Escrow!Next
<1> QED BY <1>2, <1>3, <1>4, <1>5, StepsOfSales, ChargedAlone

\* With every charge handled once, the money of every sale keeps EscrowPromise:
\* paid, held, handed out as a whole and taken back each at most once and in that
\* order, whoever retries, cancels, completes or refunds (process_event,
\* complete_service, process_refund).
THEOREM EscrowIsKept == ASSUME Patient, ~AwardMayFail PROVE Spec => KeepsEscrow
<1> DEFINE Inv == HandledOnce /\ Counts /\ RefundTakesBack
<1>1. Init => Inv /\ Escrow!Init
  <2> SUFFICES ASSUME Init PROVE Escrow!Init
    BY InitMoney
  <2>1. \A s \in SaleIds : MoneyAt(s) = "due"
    BY DEF Init, SalesInit, NoSale, MoneyAt
  <2>2. credits = [s \in SaleIds |-> NoRows] /\ reversals = [s \in SaleIds |-> NoRows]
    BY DEF Init, SalesInit
  <2> QED BY <2>1, <2>2 DEF Escrow!Init, Escrow!Nothing, NoRows
<1>2. ChargeInv /\ Inv /\ [Next]_vars => Inv'
  <2> SUFFICES ASSUME ChargeInv, Inv, [Next]_vars PROVE Inv'
    OBVIOUS
  <2>1. UNCHANGED sales => Counts' /\ RefundTakesBack'
    BY DEF sales, ledgers, Counts, CreditedOnce, RefundTakesBack
  <2>2. HandledOnce'
    BY NextHandledOnce
  <2>3. Counts' /\ RefundTakesBack'
    BY <2>1, StepsOfSales, SaleStepCounts, SaleStepReverses DEF ChargeInv
  <2> QED BY <2>2, <2>3
<1>3. ChargeInv /\ ChargeInv' /\ Inv /\ [Next]_vars => [Escrow!Next]_EscrowShown
  BY NextEscrow
<1>4. [Escrow!Next]_EscrowShown
        <=> [Escrow!Next]_<<[s \in SaleIds |-> MoneyAt(s)], credits, reversals>>
  BY DEF EscrowShown, MoneyStages
<1> QED BY <1>1, <1>2, <1>3, <1>4, AlwaysCharge, PTL DEF Spec, KeepsEscrow, Escrow!Spec
=============================================================================
