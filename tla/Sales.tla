------------------------------- MODULE Sales -------------------------------
(***************************************************************************)
(* The Sale table and the ledger rows written for each sale: the            *)
(* transactions of payments/services.  Each of them locks the Sale row      *)
(* first and calls nothing outside the database, so each is one step.       *)
(* Credits are counted, not summed: the split of a sale is frozen when it   *)
(* is created, and every credit and reversal of a party is for its share.   *)
(* This module has no next-state relation: Orders and Dispatch build theirs *)
(* from its transactions.                                                   *)
(***************************************************************************)
EXTENDS Naturals

CONSTANTS
  SaleIds,
  Drivers,
  None,          \* "no driver", "no process"
  MaxCredits,    \* bound: times a sale is credited
  MaxReversals,  \* bound: reversals of a party's credits of one sale
  AwardMayFail   \* awarding compensation points may raise

ASSUME SalesAssumption ==
  /\ None \notin Drivers
  /\ MaxCredits \in Nat \ {0}
  /\ MaxReversals \in Nat \ {0}
  /\ AwardMayFail \in BOOLEAN

VARIABLES
  sale,         \* status, driver and responsible party of each row
  credits,      \* credits[s][x]: "credit" ledger rows of party x for s
  reversals,    \* reversals[s][x]: "reversal" ledger rows
  compensated   \* sales with a "refund_comp:<sale>" points entry

ledgers == <<credits, reversals, compensated>>
sales == <<sale, ledgers>>

\* "paid" and "disputed" are never written; "referral" has no share of an
\* order's sale (order_v1_split).
SaleStatus == {"none", "pending", "in_escrow", "completed", "refunded"}
Fault == {"business", "driver", "platform"}
Parties == {"business_owner", "driver"}

NoSale == [status |-> "none", driver |-> None, fault |-> "none"]
NoRows == [x \in Parties |-> 0]

SalesInit(existing) ==
  /\ sale = existing
  /\ credits = [s \in SaleIds |-> NoRows]
  /\ reversals = [s \in SaleIds |-> NoRows]
  /\ compensated = {}

SalesType ==
  /\ sale \in [SaleIds -> [status: SaleStatus, driver: Drivers \union {None},
                           fault: Fault \union {"none"}]]
  /\ credits \in [SaleIds -> [Parties -> Nat]]
  /\ reversals \in [SaleIds -> [Parties -> Nat]]
  /\ compensated \subseteq SaleIds

-----------------------------------------------------------------------------
\* A bug: the sale is created as points sales are, already captured.
CreateCaptured(s) ==
  /\ sale[s].status = "none"
  /\ sale' = [sale EXCEPT ![s].status = "in_escrow"]
  /\ UNCHANGED ledgers

\* initialize_sale, once Paystack has answered with a payment link.
InitializeSale(s) ==
  /\ sale[s].status = "none"
  /\ sale' = [sale EXCEPT ![s].status = "pending"]
  /\ UNCHANGED ledgers

\* A bug: the status the comments give to captured money.
EscrowAsPaid(s) ==
  /\ sale' = [sale EXCEPT ![s].status = "paid"]
  /\ UNCHANGED ledgers

\* charge.success: whatever the status was.
EscrowSale(s) ==
  /\ sale' = [sale EXCEPT ![s].status = "in_escrow"]
  /\ UNCHANGED ledgers

AssignSaleDriver(s, d) ==
  /\ sale' = [sale EXCEPT ![s].driver = d]
  /\ UNCHANGED ledgers

Payees(s) ==
  {"business_owner"} \union (IF sale[s].driver # None THEN {"driver"} ELSE {})

\* A bug: the status is left for the caller to write.
CreditAgain(s) ==
  /\ sale[s].status = "in_escrow"
  /\ credits[s]["business_owner"] < MaxCredits
  /\ credits' = [credits EXCEPT ![s] =
                   [x \in Parties |-> @[x] + IF x \in Payees(s) THEN 1 ELSE 0]]
  /\ UNCHANGED <<sale, reversals, compensated>>

CanComplete(s) == sale[s].status = "in_escrow"

CompleteService(s) ==
  /\ CanComplete(s)
  /\ credits[s]["business_owner"] < MaxCredits
  /\ credits' = [credits EXCEPT ![s] =
                   [x \in Parties |-> @[x] + IF x \in Payees(s) THEN 1 ELSE 0]]
  /\ sale' = [sale EXCEPT ![s].status = "completed"]
  /\ UNCHANGED <<reversals, compensated>>

\* The roles whose credits reverse_ledger_entries takes back.
AtFault(fault) ==
  CASE fault = "business" -> {"business_owner", "driver"}
    [] fault = "driver"   -> {"driver"}
    [] fault = "platform" -> {}

\* A bug: the credits of a sale still in escrow are the ones taken back.
ReverseEarly(s, fault) ==
  reversals' = [reversals EXCEPT ![s] =
    [x \in Parties |-> @[x] + IF sale[s].status = "in_escrow" /\ x \in AtFault(fault)
                              THEN credits[s][x] ELSE 0]]

\* One row for every "credit" row, those reversed before included.
ReverseEntries(s, fault) ==
  reversals' = [reversals EXCEPT ![s] =
    [x \in Parties |-> @[x] + IF sale[s].status = "completed" /\ x \in AtFault(fault)
                              THEN credits[s][x] ELSE 0]]

\* The status is written in the try block of the points award: when that
\* raises, the reversals are kept and the sale keeps its status.
ProcessRefund(s, fault) ==
  /\ sale[s].status \in {"in_escrow", "completed"}
  /\ \A x \in Parties : reversals[s][x] < MaxReversals
  /\ ReverseEntries(s, fault)
  /\ \/ /\ sale' = [sale EXCEPT ![s].status = "refunded", ![s].fault = fault]
        /\ compensated' = compensated \union {s}
     \/ AwardMayFail /\ UNCHANGED <<sale, compensated>>
  /\ UNCHANGED credits

\* cancel_sale with its default responsible party.
CancelSale(s) ==
  CASE sale[s].status = "pending" ->
         /\ sale' = [sale EXCEPT ![s].status = "refunded", ![s].fault = "platform"]
         /\ UNCHANGED ledgers
    [] sale[s].status = "in_escrow" -> ProcessRefund(s, "platform")
    [] OTHER -> UNCHANGED sales

-----------------------------------------------------------------------------
\* One hand-out of the money of a sale: no party is credited twice for the
\* same sale, however often its service is reported complete
\* (complete_service's in_escrow guard).
CreditedOnce == \A s \in SaleIds, x \in Parties : credits[s][x] <= 1

\* A refund takes back all the responsible party was credited with, and no
\* more: what process_refund reverses is what credit_all_parties wrote, and
\* entries are reversed only for a sale that ends refunded.
RefundTakesBack ==
  \A s \in SaleIds, x \in Parties :
    reversals[s][x] = IF sale[s].status = "refunded" /\ x \in AtFault(sale[s].fault)
                      THEN credits[s][x] ELSE 0
=============================================================================
