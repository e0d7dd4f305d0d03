------------------------------- MODULE Orders -------------------------------
(***************************************************************************)
(* One order from its creation to its hand-over at the counter: the         *)
(* customer chooses Paystack and pays, Paystack reports the charge, the     *)
(* branch accepts, cooks and hands over, and the sale in escrow is credited *)
(* to its parties.  The driver's leg of a delivery is in Dispatch.          *)
(*                                                                         *)
(* A view or task loads the order once and later saves the fields it        *)
(* changed (update_fields), so loading and saving are two steps and a save  *)
(* is blind.  A task remembers the sale it works for and the status it is   *)
(* to save.  Paying with points is not here: the view's transaction raises  *)
(* when it stores the Decimal total in a JSON field and is rolled back.     *)
(***************************************************************************)
EXTENDS Sales, FiniteSets

CONSTANTS
  Procs,         \* web and celery worker processes
  MaxCrashes,    \* bound: processes that die in the middle of a task
  MaxErrors,     \* bound: exceptions in the handling of a charge.success
  DoubleSubmit,  \* the customer may submit while a submit is in progress
  Overlapping,   \* Paystack may redeliver an event it is waiting for
  Prompt,        \* the branch acts only when no charge is being handled
  DirectApi      \* POST /sales/<id>/complete/ is used

ASSUME OrdersAssumption ==
  /\ None \notin SaleIds \union Procs
  /\ MaxCrashes \in Nat /\ MaxErrors \in Nat
  /\ {DoubleSubmit, Overlapping, Prompt, DirectApi} \subseteq BOOLEAN

VARIABLES
  order,     \* status, sale and delivery_verified of the Order row
  linked,    \* sales whose payment link the customer was given
  charged,   \* sales paid at Paystack
  log,       \* PaystackWebhookLog row of each sale's charge.success
  acked,     \* sales whose charge.success was answered
  timers,    \* check_payment_timeout messages waiting for their countdown
  proc,      \* what each process is executing
  crashes, errors

paystack == <<linked, charged>>
webhooks == <<log, acked>>
failures == <<crashes, errors>>
vars == <<order, sales, paystack, webhooks, timers, proc, failures>>

Unpaid == {"awaiting_payment_method", "payment_pending",
           "payment_initialization_failed"}
Paid == {"pending", "preparing", "ready", "delivered"}
OrderStatus == Unpaid \union Paid \union {"cancelled"}

\* What the branch's "accept", "made" and "complete" make of a status.
Stage == [pending |-> "preparing", preparing |-> "ready", ready |-> "delivered"]

Paying == {"p_init", "p_save", "p_timer", "p_fail"}
Charging == {"c_order", "c_save", "c_sale", "c_done"}
Serving == {"k_save", "h_credit"}

Job(at, s, status) == [at |-> at, s |-> s, status |-> status]
NoJob == Job("idle", None, "cancelled")
Jobs == [at: {"idle"} \union Paying \union Charging \union Serving,
         s: SaleIds \union {None}, status: OrderStatus]
Idle(p) == proc[p].at = "idle"
Goes(p, at, s) == proc' = [proc EXCEPT ![p] = Job(at, s, "cancelled")]
Ends(p) == proc' = [proc EXCEPT ![p] = NoJob]

Init ==
  /\ order = [status |-> "awaiting_payment_method", sale |-> None, verified |-> FALSE]
  /\ SalesInit([s \in SaleIds |-> NoSale])
  /\ linked = {} /\ charged = {}
  /\ log = [s \in SaleIds |-> "absent"] /\ acked = {}
  /\ timers = 0
  /\ proc = [p \in Procs |-> NoJob]
  /\ crashes = 0 /\ errors = 0

-----------------------------------------------------------------------------
(* Choosing Paystack and retrying.  The row lock of the first check is      *)
(* released before create_payment runs; the retry view takes none.          *)

NobodyPaying == \A q \in Procs : proc[q].at \notin Paying
MaySubmit == DoubleSubmit \/ NobodyPaying

\* A bug: an order is submitted again while its link is waiting to be paid.
SubmitPending(p) ==
  /\ Idle(p) /\ MaySubmit
  /\ order.status \in {"awaiting_payment_method", "payment_pending"}
  /\ Goes(p, "p_init", None)
  /\ UNCHANGED <<order, sales, paystack, webhooks, timers, failures>>

SubmitPaystack(p) ==
  /\ Idle(p) /\ MaySubmit
  /\ order.status = "awaiting_payment_method"
  /\ order.sale = None
  /\ Goes(p, "p_init", None)
  /\ UNCHANGED <<order, sales, paystack, webhooks, timers, failures>>

\* next_retry_at only delays this; payment_retry_count never reaches 10, as
\* create_payment overwrites it with the attempts of one call.
RetryPayment(p) ==
  /\ Idle(p) /\ MaySubmit
  /\ order.status = "payment_initialization_failed"
  /\ Goes(p, "p_init", None)
  /\ UNCHANGED <<order, sales, paystack, webhooks, timers, failures>>

InitializeOrderSale(p, s) ==
  /\ proc[p].at = "p_init"
  /\ InitializeSale(s)
  /\ Goes(p, "p_save", s)
  /\ UNCHANGED <<order, paystack, webhooks, timers, failures>>

\* Paystack refuses, or cannot be reached three times.
PaymentRefused(p) ==
  /\ proc[p].at = "p_init"
  /\ Goes(p, "p_fail", None)
  /\ UNCHANGED <<order, sales, paystack, webhooks, timers, failures>>

SavePayment(p) ==
  /\ proc[p].at = "p_save"
  /\ order' = [order EXCEPT !.status = "payment_pending", !.sale = proc[p].s]
  /\ Goes(p, "p_timer", proc[p].s)
  /\ UNCHANGED <<sales, paystack, webhooks, timers, failures>>

\* The timeout is queued and the customer gets the link, or the broker is
\* down and the customer gets an error.
AnswerSubmit(p) ==
  /\ proc[p].at = "p_timer"
  /\ \/ /\ timers' = timers + 1
        /\ linked' = linked \union {proc[p].s}
        /\ Ends(p)
     \/ /\ Goes(p, "p_fail", None)
        /\ UNCHANGED <<timers, linked>>
  /\ UNCHANGED <<order, sales, charged, webhooks, failures>>

FailPayment(p) ==
  /\ proc[p].at = "p_fail"
  /\ order' = [order EXCEPT !.status = "payment_initialization_failed"]
  /\ Ends(p)
  /\ UNCHANGED <<sales, paystack, webhooks, timers, failures>>

-----------------------------------------------------------------------------
(* Cancelling.  CANCELLABLE_STAGES holds strings and every caller passes a  *)
(* member of the ACTORS enum, which equals none of them; none passes ADMIN. *)
(* A cancel that is not allowed raises and changes nothing.                 *)

Cancellers(status) ==
  CASE status \in {"payment_pending", "payment_initialization_failed", "pending"} ->
         {"customer", "system"}
    [] status = "preparing" -> {"branch", "support"}
    [] OTHER -> {}
MayCancel(actor) == actor = "ACTORS.ADMIN" \/ actor \in Cancellers(order.status)

CancelOrder(actor) ==
  /\ MayCancel(actor)
  /\ order' = [order EXCEPT !.status = "cancelled"]
  /\ IF order.sale = None THEN UNCHANGED sales ELSE CancelSale(order.sale)

\* Every caller catches the error of a cancel that is refused.
Cancels(actor) ==
  IF MayCancel(actor) THEN CancelOrder(actor) ELSE UNCHANGED <<order, sales>>

PaymentTimeout ==
  /\ timers > 0
  /\ timers' = timers - 1
  /\ IF order.status = "payment_pending"
     THEN Cancels("ACTORS.BRANCH")
     ELSE UNCHANGED <<order, sales>>
  /\ UNCHANGED <<paystack, webhooks, proc, failures>>

CustomerCancels ==
  /\ order.status \in {"pending", "payment_pending"}
  /\ Cancels("ACTORS.CUSTOMER")
  /\ UNCHANGED <<paystack, webhooks, timers, proc, failures>>

\* The branch's "cancel" and, for any order, that of an administrator.
BranchCancels ==
  /\ order.status # "delivered"
  /\ Cancels("ACTORS.BRANCH")
  /\ UNCHANGED <<paystack, webhooks, timers, proc, failures>>

AdminCancels ==
  /\ Cancels("ACTORS.BRANCH")
  /\ UNCHANGED <<paystack, webhooks, timers, proc, failures>>

\* check_all_payment_timeouts, for which no beat schedule is configured.
PaymentSweep ==
  /\ order.status = "payment_pending" /\ order.sale # None
  /\ sale[order.sale].status = "pending"
  /\ Cancels("ACTORS.BRANCH")
  /\ UNCHANGED <<paystack, webhooks, timers, proc, failures>>

-----------------------------------------------------------------------------
(* Paystack charges the customer and reports it until it is answered.       *)

Charge(s) ==
  /\ s \in linked \ charged
  /\ charged' = charged \union {s}
  /\ UNCHANGED <<order, sales, linked, webhooks, timers, proc, failures>>

BeingHandled(s) == \E p \in Procs : proc[p].at \in Charging /\ proc[p].s = s

ChargeReceive(p, s) ==
  /\ Idle(p)
  /\ s \in charged
  /\ Overlapping \/ (s \notin acked /\ ~BeingHandled(s))
  /\ IF log[s] = "processed"
     THEN acked' = acked \union {s} /\ UNCHANGED <<log, proc>>
     ELSE /\ log' = [log EXCEPT ![s] = "received"]
          /\ Goes(p, "c_order", s)
          /\ UNCHANGED acked
  /\ UNCHANGED <<order, sales, paystack, timers, failures>>

\* A bug: the escrow is left out when the order was updated before.
OrderUpdateOnce(p) ==
  /\ proc[p].at = "c_order"
  /\ IF order.sale = proc[p].s /\ order.status = "payment_pending"
     THEN Goes(p, "c_save", proc[p].s)
     ELSE Goes(p, "c_done", proc[p].s)
  /\ UNCHANGED <<order, sales, paystack, webhooks, timers, failures>>

OrderUpdate(p) ==
  /\ proc[p].at = "c_order"
  /\ IF order.sale = proc[p].s /\ order.status = "payment_pending"
     THEN Goes(p, "c_save", proc[p].s)
     ELSE Goes(p, "c_sale", proc[p].s)
  /\ UNCHANGED <<order, sales, paystack, webhooks, timers, failures>>

\* A bug: the handler returns once it has updated the order.
OrderPaidOnly(p) ==
  /\ proc[p].at = "c_save"
  /\ order' = [order EXCEPT !.status = "pending"]
  /\ Goes(p, "c_done", proc[p].s)
  /\ UNCHANGED <<sales, paystack, webhooks, timers, failures>>

OrderPaid(p) ==
  /\ proc[p].at = "c_save"
  /\ order' = [order EXCEPT !.status = "pending"]
  /\ Goes(p, "c_sale", proc[p].s)
  /\ UNCHANGED <<sales, paystack, webhooks, timers, failures>>

ChargeEscrow(p) ==
  /\ proc[p].at = "c_sale"
  /\ EscrowSale(proc[p].s)
  /\ Goes(p, "c_done", proc[p].s)
  /\ UNCHANGED <<order, paystack, webhooks, timers, failures>>

ChargeDone(p) ==
  /\ proc[p].at = "c_done"
  /\ log' = [log EXCEPT ![proc[p].s] = "processed"]
  /\ acked' = acked \union {proc[p].s}
  /\ Ends(p)
  /\ UNCHANGED <<order, sales, paystack, timers, failures>>

\* process_event raises: the log keeps the reason, Paystack is answered 200.
ChargeError(p) ==
  /\ proc[p].at \in Charging \ {"c_done"}
  /\ errors < MaxErrors
  /\ errors' = errors + 1
  /\ acked' = acked \union {proc[p].s}
  /\ Ends(p)
  /\ UNCHANGED <<order, sales, paystack, log, timers, crashes>>

-----------------------------------------------------------------------------
(* The branch. *)

NobodyCharging == \A q \in Procs : proc[q].at \notin Charging

\* "accept", "made" or "complete" with the right code.
BranchLoad(p) ==
  /\ Idle(p)
  /\ Prompt => NobodyCharging
  /\ order.status \in DOMAIN Stage
  /\ proc' = [proc EXCEPT ![p] = Job("k_save", order.sale, Stage[order.status])]
  /\ UNCHANGED <<order, sales, paystack, webhooks, timers, failures>>

\* A bug: the status is saved whatever the code.
BranchSaveUnverified(p) ==
  /\ proc[p].at = "k_save"
  /\ order' = [order EXCEPT !.status = proc[p].status]
  /\ IF proc[p].status = "delivered" THEN Goes(p, "h_credit", proc[p].s) ELSE Ends(p)
  /\ UNCHANGED <<sales, paystack, webhooks, timers, failures>>

\* Handing over saves the verified code with the status.
BranchSave(p) ==
  /\ proc[p].at = "k_save"
  /\ order' = [order EXCEPT !.status = proc[p].status,
                            !.verified = @ \/ proc[p].status = "delivered"]
  /\ IF proc[p].status = "delivered" THEN Goes(p, "h_credit", proc[p].s) ELSE Ends(p)
  /\ UNCHANGED <<sales, paystack, webhooks, timers, failures>>

\* complete_order's last call: refused, it is not tried again.
HandOver(p) ==
  /\ proc[p].at = "h_credit"
  /\ IF CanComplete(proc[p].s) THEN CompleteService(proc[p].s) ELSE UNCHANGED sales
  /\ Ends(p)
  /\ UNCHANGED <<order, paystack, webhooks, timers, failures>>

-----------------------------------------------------------------------------
(* The sale endpoints, for any sale and at any time, and failures. *)

CompleteSale(s) ==
  /\ DirectApi
  /\ CompleteService(s)
  /\ UNCHANGED <<order, paystack, webhooks, timers, proc, failures>>

RefundSale(s) ==
  /\ \E fault \in Fault : ProcessRefund(s, fault)
  /\ UNCHANGED <<order, paystack, webhooks, timers, proc, failures>>

Crash(p) ==
  /\ ~Idle(p)
  /\ crashes < MaxCrashes
  /\ crashes' = crashes + 1
  /\ Ends(p)
  /\ UNCHANGED <<order, sales, paystack, webhooks, timers, errors>>

CustomerNext(p) ==
  \/ SubmitPaystack(p) \/ RetryPayment(p) \/ PaymentRefused(p)
  \/ \E s \in SaleIds : InitializeOrderSale(p, s)
  \/ SavePayment(p) \/ AnswerSubmit(p) \/ FailPayment(p)
ChargeNext(p) ==
  \/ \E s \in SaleIds : ChargeReceive(p, s)
  \/ OrderUpdate(p) \/ OrderPaid(p) \/ ChargeEscrow(p) \/ ChargeDone(p)
  \/ ChargeError(p)
BranchNext(p) == BranchLoad(p) \/ BranchSave(p) \/ HandOver(p)

Next ==
  \/ \E p \in Procs : CustomerNext(p) \/ ChargeNext(p) \/ BranchNext(p) \/ Crash(p)
  \/ \E s \in SaleIds : Charge(s) \/ CompleteSale(s) \/ RefundSale(s)
  \/ PaymentTimeout
  \/ CustomerCancels \/ BranchCancels \/ AdminCancels \/ PaymentSweep

Spec == Init /\ [][Next]_vars

\* A process finishes what it started and Paystack delivers every event it has
\* no answer to: the handler is synchronous and Paystack retries.
Progress(p) == OrderUpdate(p) \/ OrderPaid(p) \/ ChargeEscrow(p) \/ ChargeDone(p)
Fairness ==
  /\ \A p \in Procs : WF_vars(Progress(p))
  /\ \A p \in Procs : WF_vars(SavePayment(p) \/ AnswerSubmit(p) \/ FailPayment(p)
                              \/ PaymentRefused(p) \/ BranchSave(p) \/ HandOver(p))
  /\ \A s \in SaleIds : SF_vars(\E p \in Procs : ChargeReceive(p, s))
FairSpec == Spec /\ Fairness

-----------------------------------------------------------------------------
(* Properties. *)

TablesOK ==
  /\ SalesType
  /\ order \in [status: OrderStatus, sale: SaleIds \union {None}, verified: BOOLEAN]
  /\ linked \subseteq SaleIds /\ charged \subseteq SaleIds /\ acked \subseteq SaleIds
  /\ log \in [SaleIds -> {"absent", "received", "processed"}]
  /\ timers \in Nat /\ crashes \in Nat /\ errors \in Nat

\* The steps of a process that works for a sale.
WithSale == {"p_save", "p_timer"} \union Charging \union Serving

TypeOK ==
  /\ TablesOK
  /\ proc \in [Procs -> Jobs]
  /\ \A p \in Procs : proc[p].at \in WithSale => proc[p].s \in SaleIds

\* No party is credited for money the customer has not paid, whatever is
\* replayed, submitted twice or completed through the API: escrow is entered
\* only on a charge.success (process_event, complete_service).
CreditedIsCharged ==
  \A s \in SaleIds, x \in Parties : credits[s][x] > 0 => s \in charged

\* The customer never holds two links that can both be paid for one order:
\* a link is given out only if every earlier one was lost with an error.
OneLink == Cardinality(linked) <= 1

\* Everybody works for money that is there.  The kitchen works only on orders
\* whose sale the customer has paid (ResturantOrderView); and, without the sale
\* endpoint, a sale is credited only for the order it is the sale of, after
\* that order's delivery code was verified (complete_order).
WorkIsPaid ==
  /\ order.status \in Paid => order.sale \in charged
  /\ \A s \in SaleIds : credits[s]["business_owner"] > 0
                           => order.verified /\ order.sale = s

\* As long as no handling of a charge raised, the money follows the order: of a
\* paid order it is in escrow or further whenever no charge is being handled,
\* although order and sale are saved one after the other (process_event), and
\* of an order handed over it is credited, unless the sale was refunded.
MoneyFollowsOrder ==
  errors = 0 =>
    /\ order.status \in Paid /\ NobodyCharging => sale[order.sale].status # "pending"
    /\ order.status = "delivered" /\ (\A p \in Procs : proc[p].at # "h_credit")
         => sale[order.sale].status \in {"completed", "refunded"}

\* The money of a sale is where EscrowPromise has it: due until the customer pays,
\* then paid until charge.success puts it in escrow.
MoneyAt(s) ==
  CASE sale[s].status = "in_escrow" -> "held"
    [] sale[s].status = "completed" -> "handed_out"
    [] sale[s].status = "refunded" -> "returned"
    [] OTHER -> IF s \in charged THEN "paid" ELSE "due"
Escrow == INSTANCE EscrowPromise WITH
  Items <- SaleIds, Earners <- Parties, Owner <- "business_owner",
  Blames <- {AtFault(fault) : fault \in Fault},
  Start <- [s \in SaleIds |-> "due"],
  stage <- [s \in SaleIds |-> MoneyAt(s)], earned <- credits, lost <- reversals

\* Whatever the customer, the branch, Paystack and the sale endpoints do, and in
\* whatever order their saves come, the money of every sale makes only the steps
\* of EscrowPromise (process_event, complete_service, process_refund).
KeepsEscrow == Escrow!Spec

\* A payment timeout that finds the order still waiting cancels it.
TimeoutCancels ==
  [][timers' < timers /\ order.status = "payment_pending"
       => order'.status = "cancelled"]_vars

\* A charge is eventually in escrow and its order out of the unpaid states,
\* though the process handling it may die.
ChargeIsServed ==
  \A s \in SaleIds :
    s \in charged ~> /\ sale[s].status \in {"in_escrow", "completed", "refunded"}
                     /\ order.sale = s => order.status \notin Unpaid
=============================================================================
