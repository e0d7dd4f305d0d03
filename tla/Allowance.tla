----------------------------- MODULE Allowance ------------------------------
(***************************************************************************)
(* Who may withdraw how much.  A request holds the lock of its user from   *)
(* the look at the rules to the row and the hold on the ledger, so that is *)
(* one step; the idempotency row of an endpoint, the answer saved in it,   *)
(* and whatever settles a withdrawal later are steps of their own.  How a  *)
(* transfer is made and its outcome learnt is the subject of Payouts; here *)
(* a withdrawal is sent, paid or failed by whoever holds a copy of it.     *)
(***************************************************************************)
EXTENDS Requests, FiniteSetsExt, Functions

CONSTANTS
    Payees,         \* users with a wallet
    Profiles,       \* Profiles[u]: the profiles of u, "driver" or "business_owner"
    Earnings,       \* Earnings[u]: sum of u's ledger rows to begin with
    FirstRoles,     \* roles the last of them may have
    Keys,           \* idempotency keys
    Sums,           \* kobo that may be asked for
    LeastSum,       \* MINIMUM_BY_ROLE
    DailyCount,     \* DAILY_WITHDRAWAL_LIMIT_COUNT
    DailyTotal,     \* DAILY_WITHDRAWAL_LIMIT_AMOUNT
    Hurdles,        \* what may come between a user and the money
    MaxGrants       \* bound: withdrawals

PayoutRoles == DOMAIN LeastSum
Slots == 1 .. MaxGrants
Scopes == {"withdrawal_request", "business_withdrawal_request"}

GrantRows ==
    [user : Payees, key : Keys, amount : Sums, role : {"business_owner", "driver", "referral"},
     status : {"pending_batch", "processing", "complete", "failed"}, today : BOOLEAN,
     completed : {"never", "lately", "before"}]

ASSUME AllowanceAssumption ==
    /\ Payees \subseteq Users /\ None \notin GrantRows
    /\ Earnings \in [Payees -> Nat] /\ LeastSum \in [PayoutRoles -> Nat]
    /\ {"business_owner", "driver", "referral"} \subseteq PayoutRoles
    /\ Sums \subseteq Nat \ {0} /\ {DailyCount, DailyTotal, MaxGrants} \subseteq Nat

VARIABLES
    funds,      \* sum of the ledger rows of each user
    lastRole,   \* role of the last of them, None without one
    granted,    \* Withdrawal rows, None where there is none yet
    hurdles,    \* the hurdles each user faces
    pinned,     \* users whose transaction pin is saved
    keyed,      \* idempotency rows of each scope, user and key
    rejudged    \* history: users whose settled withdrawal was written again

AllowanceVars == <<funds, lastRole, granted, hurdles, pinned, keyed, rejudged>>

AllowanceInit ==
    /\ funds = Earnings /\ lastRole \in [Payees -> FirstRoles]
    /\ granted = [i \in Slots |-> None]
    /\ hurdles \in [Payees -> SUBSET Hurdles]
    /\ pinned = {} /\ rejudged = {}
    /\ keyed = [x \in Scopes \X Payees \X Keys |-> None]

Of(u) == {i \in Slots : granted[i] # None /\ granted[i].user = u}
Live(u) == {i \in Of(u) : granted[i].status \in {"pending_batch", "processing"}}
Unfailed(u) == {i \in Of(u) : granted[i].status # "failed"}
Worth(S) == SumFunction([i \in S |-> granted[i].amount])
Replay(u, k) == {i \in Of(u) : granted[i].key = k}

\* A bug: only what was paid counts towards the limits of the day.
PaidToday(u) == {i \in Of(u) : granted[i].today /\ granted[i].status = "complete"}
Today(u) == {i \in Unfailed(u) : granted[i].today}

-----------------------------------------------------------------------------
(* The rules.  The role of a request is the one it names, else that of the *)
(* last ledger row, else that of a profile.                                *)
Inferred(u) ==
    IF lastRole[u] \in PayoutRoles THEN lastRole[u]
    ELSE IF "driver" \in Profiles[u] THEN "driver"
    ELSE IF "business_owner" \in Profiles[u] THEN "business_owner" ELSE None
Role(u, r) == IF r # None THEN r ELSE Inferred(u)

(* Each role is paid to an account of its own model.                       *)
HasAccount(u, r) == r = "referral" \/ r \in Profiles[u]
RecipientReady(u, r) == HasAccount(u, r) /\ <<r, "recipient">> \notin hurdles[u]
CooledDown(u) == \A i \in Of(u) : granted[i].status = "complete" => granted[i].completed # "lately"
WithinDay(u, a) == Cardinality(Today(u)) < DailyCount /\ Worth(Today(u)) + a <= DailyTotal

Passes(u, a, r) ==
    /\ RecipientReady(u, r)
    /\ a >= LeastSum[r]
    /\ funds[u] - Worth(Live(u)) >= a
    /\ CooledDown(u)
    /\ WithinDay(u, a)

OwnerPasses(u, a) == Passes(u, a, "business_owner") /\ "onboarding" \notin hurdles[u]
DriverPasses(u, a) == Passes(u, a, "driver") /\ {"bank", "ticket"} \cap hurdles[u] = {}

Allowed(u, a, r) ==
    CASE r = "business_owner" -> OwnerPasses(u, a)
      [] r = "driver" -> DriverPasses(u, a)
      [] r = "referral" -> Passes(u, a, r)
      [] OTHER -> FALSE

(* What the wallet page shows: the hold is already taken off the ledger.   *)
CanWithdraw(u, r) == funds[u] >= LeastSum[r]

-----------------------------------------------------------------------------
Holds(u, k, a, r, status) ==
    \E i \in Slots :
        /\ granted[i] = None /\ \A j \in 1 .. i - 1 : granted[j] # None
        /\ granted' = [granted EXCEPT ![i] = [user |-> u, key |-> k, amount |-> a, role |-> r,
                         status |-> status, today |-> TRUE, completed |-> "never"]]
        /\ funds' = [funds EXCEPT ![u] = @ - a]
        /\ lastRole' = [lastRole EXCEPT ![u] = r]

(* begin_idempotent_request: a saved answer is returned, another payload   *)
(* under the key is refused.                                               *)
Begins(w, scope, u, k, a, r) ==
    LET old == keyed[<<scope, u, k>>]
        new == [amount |-> a, role |-> r, saved |-> FALSE] IN
    /\ Free(w) /\ old \in {None, new}
    /\ keyed' = [keyed EXCEPT ![<<scope, u, k>>] = new]
    /\ Starts(w, [op |-> "granting", scope |-> scope, user |-> u, key |-> k, amount |-> a, role |-> r])
    /\ UNCHANGED <<funds, lastRole, granted, hurdles, pinned, rejudged>>

WalletAsks(w, u, k, a, r) == Begins(w, "withdrawal_request", u, k, a, r)
BusinessAsks(w, u, k, a) ==
    /\ "business_owner" \in Profiles[u] /\ u \in pinned
    /\ Begins(w, "business_withdrawal_request", u, k, a, "business_owner")

(* create_withdrawal_request: a key that was used gives back its row,      *)
(* whatever the endpoint and the amount; who may not, is refused.          *)
Creates(w) ==
    LET j == work[w]
        r == Role(j.user, j.role) IN
    /\ Doing(w, "granting")
    /\ \/ /\ Replay(j.user, j.key) # {}
          /\ Starts(w, [j EXCEPT !.op = "answering"])
          /\ UNCHANGED <<funds, lastRole, granted>>
       \/ /\ Replay(j.user, j.key) = {} /\ Allowed(j.user, j.amount, r)
          /\ Holds(j.user, j.key, j.amount, r, "pending_batch")
          /\ Starts(w, [j EXCEPT !.op = "answering"])
       \/ /\ Replay(j.user, j.key) = {} /\ ~Allowed(j.user, j.amount, r)
          /\ Ends(w) /\ UNCHANGED <<funds, lastRole, granted>>
    /\ UNCHANGED <<hurdles, pinned, keyed, rejudged>>

AnswerSaved(w) ==
    LET j == work[w] IN
    /\ Doing(w, "answering") /\ Ends(w)
    /\ keyed' = [keyed EXCEPT ![<<j.scope, j.user, j.key>>].saved = TRUE]
    /\ UNCHANGED <<funds, lastRole, granted, hurdles, pinned, rejudged>>

(* A driver's request, and the transfer asked for, are one transaction.    *)
DriverAsks(u, k, a) ==
    /\ Replay(u, k) = {} /\ DriverPasses(u, a)
    /\ Holds(u, k, a, "driver", "processing")
    /\ UNCHANGED <<work, hurdles, pinned, keyed, rejudged>>

PinSaved(u) ==
    /\ "business_owner" \in Profiles[u]
    /\ pinned' = pinned \cup {u}
    /\ UNCHANGED <<work, funds, lastRole, granted, hurdles, keyed, rejudged>>

-----------------------------------------------------------------------------
(* A task, a webhook or an administrator loads the row, and writes by what *)
(* it read: neither locks the row.                                         *)
Loads(w, i, verdict) ==
    /\ Free(w) /\ granted[i] # None
    /\ Starts(w, [op |-> "settling", slot |-> i, saw |-> granted[i].status, verdict |-> verdict])
    /\ UNCHANGED AllowanceVars

AdminRetries(w, i) == Loads(w, i, "sent")
AdminMarksPaid(w, i) == Loads(w, i, "paid")
AdminMarksFailed(w, i) == Loads(w, i, "failed")

Judged(w, verdict, status, completed) ==
    LET i == work[w].slot
        u == granted[i].user IN
    /\ Doing(w, "settling") /\ work[w].verdict = verdict /\ Ends(w)
    /\ granted' = [granted EXCEPT ![i].status = status, ![i].completed = completed]
    /\ rejudged' = IF i \in Live(u) \/ (verdict = "paid" /\ granted[i].status = "complete")
                   THEN rejudged ELSE rejudged \cup {u}
    /\ UNCHANGED <<hurdles, pinned, keyed>>

Sent(w) ==
    /\ work[w].saw \in {"pending_batch", "processing"}
    /\ Judged(w, "sent", "processing", granted[work[w].slot].completed)
    /\ UNCHANGED <<funds, lastRole>>

Paid(w) ==
    /\ work[w].saw # "complete"
    /\ Judged(w, "paid", "complete", "lately")
    /\ UNCHANGED <<funds, lastRole>>

(* The hold goes back to the ledger, whatever the withdrawal was before.   *)
Failed(w) ==
    LET row == granted[work[w].slot] IN
    /\ Judged(w, "failed", "failed", row.completed)
    /\ funds' = [funds EXCEPT ![row.user] = @ + row.amount]
    /\ lastRole' = [lastRole EXCEPT ![row.user] = row.role]

Settles(w) == Doing(w, "settling") /\ (Sent(w) \/ Paid(w) \/ Failed(w))

-----------------------------------------------------------------------------
HurdleChanges(u, h) ==
    /\ hurdles' = [hurdles EXCEPT ![u] = (@ \cup {h}) \ (@ \cap {h})]
    /\ UNCHANGED <<work, funds, lastRole, granted, pinned, keyed, rejudged>>

EachRow(Changed(_)) == [i \in Slots |-> IF granted[i] = None THEN None ELSE Changed(granted[i])]

HoursPass ==
    /\ granted' = EachRow(LAMBDA row : [row EXCEPT !.completed = IF @ = "lately" THEN "before" ELSE @])
    /\ granted' # granted
    /\ UNCHANGED <<work, funds, lastRole, hurdles, pinned, keyed, rejudged>>

Midnight ==
    /\ granted' = EachRow(LAMBDA row : [row EXCEPT !.today = FALSE])
    /\ granted' # granted
    /\ UNCHANGED <<work, funds, lastRole, hurdles, pinned, keyed, rejudged>>

AskerDies(w) == Dies(w) /\ UNCHANGED AllowanceVars

(* Requests under the keys K at the endpoints that keep the answer.        *)
AskingNext(K) ==
    \/ \E w \in Workers, u \in Payees, k \in K, a \in Sums :
          BusinessAsks(w, u, k, a) \/ \E r \in PayoutRoles \cup {None} : WalletAsks(w, u, k, a, r)
    \/ \E u \in Payees : PinSaved(u)
    \/ \E w \in Workers : Creates(w) \/ AnswerSaved(w)
    \/ \E u \in Payees, h \in Hurdles : HurdleChanges(u, h)

(* Requests of drivers, for the sums S, and what becomes of withdrawals as *)
(* time passes.                                                            *)
DrawingNext(K, S) == \E u \in Payees, k \in K, a \in S : DriverAsks(u, k, a)
SettlingNext ==
    \/ \E w \in Workers, i \in Slots : AdminRetries(w, i) \/ AdminMarksPaid(w, i) \/ AdminMarksFailed(w, i)
    \/ \E w \in Workers : Settles(w) \/ AskerDies(w)
    \/ HoursPass \/ Midnight

-----------------------------------------------------------------------------
AllowanceType ==
    /\ funds \in [Payees -> Int] /\ lastRole \in [Payees -> FirstRoles \cup PayoutRoles]
    /\ \A i \in Slots : granted[i] \in GrantRows \cup {None}
    /\ hurdles \in [Payees -> SUBSET Hurdles]
    /\ pinned \cup rejudged \subseteq Payees

(* Unless a withdrawal that was settled is written again, what a user asks *)
(* for in a day and does not fail stays within the limits of the day, what *)
(* is held or paid is what is missing from the ledger, and the ledger is   *)
(* never overdrawn.  A key stands for one withdrawal on all endpoints, and *)
(* who the rules let withdraw is told so by the wallet page                *)
(* (payments/eligibility/base.py, payments/payouts/services.py).           *)
AllowanceKept ==
    /\ \A u \in Payees \ rejudged :
          /\ Cardinality(Today(u)) <= DailyCount /\ Worth(Today(u)) <= DailyTotal
          /\ funds[u] + Worth(Unfailed(u)) = Earnings[u]
          /\ funds[u] >= 0
    /\ \A u \in Payees :
          /\ \A k \in Keys : Cardinality(Replay(u, k)) <= 1
          /\ \A r \in PayoutRoles : Allowed(u, LeastSum[r], r) => CanWithdraw(u, r)
=============================================================================
