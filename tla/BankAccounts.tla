---------------------------- MODULE BankAccounts ----------------------------
(***************************************************************************)
(* The bank accounts that withdrawals are paid to, and the recipient that  *)
(* Paystack keeps for each.  Whoever changes the details clears the code   *)
(* of the recipient and queues a task that asks Paystack for a new one: a  *)
(* customer's view once its row is saved, a merchant's row by a signal,    *)
(* before the transaction that saves it commits.  The task reads the row,  *)
(* calls Paystack and writes the code.  Drivers' accounts are absent: the  *)
(* phase that creates them fails first.                                    *)
(***************************************************************************)
EXTENDS Requests

CONSTANTS
    Holders,        \* customers with a UserAccount
    Merchants,      \* businesses with a BusinessPayoutAccount
    Applicants,     \* those of them that are still taken on
    Banks,          \* bank details
    Partial,        \* those without a bank code, which merchants may leave out
    MaxCodes,       \* bound: codes a customer waits to confirm
    MaxRequests     \* bound: changes of bank details

ASSUME BankAccountsAssumption ==
    /\ Partial \subseteq Banks /\ None \notin Banks
    /\ Applicants \subseteq Merchants /\ Holders \cap Merchants = {}
    /\ MaxCodes \in Nat /\ MaxRequests \in Nat

VARIABLES
    bank,       \* the details of each account, None without a row
    recipient,  \* the details its paystack_recipient_code stands for, None when empty
    asked,      \* queued tasks for each account
    codes,      \* codes each customer may still confirm a change with
    changed,    \* customers whose last change was today
    offered,    \* <<merchant, details>> waiting for their code
    requests,   \* changes so far
    raced,      \* history: accounts changed while a task was asking Paystack
    kept,       \* history: accounts whose recipient was kept by phase 2
    missed      \* history: accounts whose task was lost, failed or came too early

BankVars == <<bank, recipient, asked, codes, changed, offered, requests, raced, kept, missed>>

PayoutAccounts == Holders \cup Merchants
Complete == Banks \ Partial
Works(w, op, a) == Doing(w, op) /\ work[w].account = a
Somebody(op, a) == \E w \in Workers : Works(w, op, a)
(* The row lock of update_or_create.                                       *)
Locked(a) == Somebody("committing", a)
Racing(a) == IF Somebody("registering", a) THEN {a} ELSE {}

BankAccountsInit ==
    /\ bank = [a \in PayoutAccounts |-> None] /\ recipient = [a \in PayoutAccounts |-> None]
    /\ asked = [a \in PayoutAccounts |-> 0] /\ codes = [h \in Holders |-> 0]
    /\ changed = {} /\ offered = {} /\ requests = 0
    /\ raced = {} /\ kept = {} /\ missed = {}

\* A bug: the code of the recipient stays when the details change.
NotCleared(a) == recipient[a]
Cleared(a) == None

Counts == requests < MaxRequests /\ requests' = requests + 1

-----------------------------------------------------------------------------
(* UserAccountCreateView saves the row and then queues the task.           *)
HolderCreates(w, h, b) ==
    /\ Free(w) /\ bank[h] = None
    /\ Counts
    /\ bank' = [bank EXCEPT ![h] = b]
    /\ Starts(w, [op |-> "asking", account |-> h])
    /\ UNCHANGED <<recipient, asked, codes, changed, offered, raced, kept, missed>>

(* UserAccountChangeRequestView: once a day, with the transaction pin.     *)
ChangeAsked(h) ==
    /\ bank[h] # None /\ h \notin changed
    /\ codes[h] < MaxCodes
    /\ codes' = [codes EXCEPT ![h] = @ + 1]
    /\ UNCHANGED <<work, bank, recipient, asked, changed, offered, requests, raced, kept, missed>>

(* UserAccountChangeConfirmView: the day is not looked at again.           *)
ChangeConfirmed(w, h, b) ==
    /\ Free(w) /\ codes[h] > 0
    /\ Counts
    /\ codes' = [codes EXCEPT ![h] = @ - 1]
    /\ bank' = [bank EXCEPT ![h] = b]
    /\ recipient' = [recipient EXCEPT ![h] = Cleared(h)]
    /\ changed' = changed \cup {h}
    /\ raced' = raced \cup Racing(h)
    /\ Starts(w, [op |-> "asking", account |-> h])
    /\ UNCHANGED <<asked, offered, kept, missed>>

DayEnds ==
    /\ changed # {} /\ changed' = {}
    /\ UNCHANGED <<work, bank, recipient, asked, codes, offered, requests, raced, kept, missed>>

TaskQueued(w) ==
    LET h == work[w].account IN
    /\ Doing(w, "asking") /\ Ends(w)
    /\ asked' = [asked EXCEPT ![h] = @ + 1]
    /\ UNCHANGED <<bank, recipient, codes, changed, offered, requests, raced, kept, missed>>

-----------------------------------------------------------------------------
(* RestaurantPaymentView: the details travel with the code.                *)
MerchantOffers(m, b) ==
    /\ Counts
    /\ offered' = offered \cup {<<m, b>>}
    /\ UNCHANGED <<work, bank, recipient, asked, codes, changed, raced, kept, missed>>

(* update_or_create holds the row; its signal queues the task at once.     *)
Saving(w, m, b, clears) ==
    /\ Free(w) /\ ~Locked(m)
    /\ Starts(w, [op |-> "committing", account |-> m, bank |-> b, clears |-> clears])
    /\ asked' = IF b \in Complete /\ (clears \/ recipient[m] = None)
                THEN [asked EXCEPT ![m] = @ + 1] ELSE asked
    /\ UNCHANGED <<bank, recipient, codes, changed, raced, kept, missed>>

(* RestaurantPaymentReceiverView.                                          *)
MerchantSaves(w, m, b) ==
    /\ <<m, b>> \in offered
    /\ offered' = offered \ {<<m, b>>}
    /\ Saving(w, m, b, TRUE)
    /\ UNCHANGED requests

(* RestaurantPhase2OnboardingView: the code is not among the columns set.  *)
ApplicantSaves(w, m, b) ==
    /\ m \in Applicants
    /\ Counts
    /\ Saving(w, m, b, FALSE)
    /\ UNCHANGED offered

MerchantCommits(w) ==
    LET j == work[w]
        m == j.account IN
    /\ Doing(w, "committing") /\ Ends(w)
    /\ bank' = [bank EXCEPT ![m] = j.bank]
    /\ recipient' = [recipient EXCEPT ![m] = IF j.clears THEN Cleared(m) ELSE @]
    /\ raced' = raced \cup Racing(m)
    /\ kept' = IF j.clears \/ recipient[m] = None THEN kept ELSE kept \cup {m}
    /\ UNCHANGED <<asked, codes, changed, offered, requests, missed>>

-----------------------------------------------------------------------------
(* ensure_paystack_recipient_for_user_accounts and _for_business_admin: a  *)
(* row that is missing, incomplete or has a recipient ends the task.       *)
TaskLoads(w, a) ==
    /\ Free(w) /\ asked[a] > 0
    /\ asked' = [asked EXCEPT ![a] = @ - 1]
    /\ IF bank[a] \in Complete /\ recipient[a] = None
       THEN Starts(w, [op |-> "registering", account |-> a, bank |-> bank[a]]) /\ UNCHANGED missed
       ELSE UNCHANGED work /\ missed' = IF Locked(a) THEN missed \cup {a} ELSE missed
    /\ UNCHANGED <<bank, recipient, codes, changed, offered, requests, raced, kept>>

TaskSaves(w) ==
    LET a == work[w].account IN
    /\ Doing(w, "registering") /\ ~Locked(a) /\ Ends(w)
    /\ recipient' = [recipient EXCEPT ![a] = work[w].bank]
    /\ UNCHANGED <<bank, asked, codes, changed, offered, requests, raced, kept, missed>>

(* Paystack refuses or cannot be reached, and the task is not tried again; *)
(* or the broker does not take it; or the worker dies.                     *)
TaskLost(w) ==
    /\ Dies(w)
    /\ missed' = IF Doing(w, "committing") THEN missed ELSE missed \cup {work[w].account}
    /\ UNCHANGED <<bank, recipient, asked, codes, changed, offered, requests, raced, kept>>

-----------------------------------------------------------------------------
BankAccountsNext ==
    \/ \E w \in Workers, h \in Holders, b \in Complete : HolderCreates(w, h, b) \/ ChangeConfirmed(w, h, b)
    \/ \E h \in Holders : ChangeAsked(h)
    \/ \E m \in Merchants, b \in Banks : MerchantOffers(m, b)
    \/ \E w \in Workers, m \in Merchants, b \in Banks : MerchantSaves(w, m, b) \/ ApplicantSaves(w, m, b)
    \/ \E w \in Workers, a \in PayoutAccounts : TaskLoads(w, a)
    \/ \E w \in Workers : TaskQueued(w) \/ MerchantCommits(w) \/ TaskSaves(w) \/ TaskLost(w)
    \/ DayEnds

-----------------------------------------------------------------------------
BankAccountsType ==
    /\ {bank, recipient} \subseteq [PayoutAccounts -> Banks \cup {None}]
    /\ asked \in [PayoutAccounts -> Nat] /\ codes \in [Holders -> 0 .. MaxCodes]
    /\ changed \subseteq Holders /\ offered \subseteq Merchants \X Banks
    /\ requests \in 0 .. MaxRequests
    /\ raced \cup kept \cup missed \subseteq PayoutAccounts

(* What resolve_recipient_code gives a new withdrawal.                     *)
Resolved(a) == recipient[a]

(* A withdrawal is addressed to the bank details the account shows, but    *)
(* for details that changed while Paystack was being asked and those phase *)
(* 2 replaced under a recipient; and an account with complete details has  *)
(* a recipient or a task on its way, unless that was lost, refused, or ran *)
(* before the details were committed (payments/payouts/tasks.py,           *)
(* accounts/signals.py, customer_api/views.py, business_api/views.py).     *)
RecipientMatches ==
    \A a \in PayoutAccounts :
        /\ a \notin raced \cup kept => Resolved(a) \in {None, bank[a]}
        /\ bank[a] \in Complete /\ Resolved(a) = None /\ a \notin missed =>
              asked[a] > 0 \/ \E op \in {"asking", "registering", "committing"} : Somebody(op, a)
=============================================================================
