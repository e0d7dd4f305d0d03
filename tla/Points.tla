------------------------------- MODULE Points -------------------------------
(***************************************************************************)
(* Reward points: the append-only ledger with its idempotency keys, awards *)
(* delivered at least once by the task queue, withdrawal requests that     *)
(* hold points, their resolution by an administrator, and the monthly      *)
(* leaderboard snapshot.                                                   *)
(***************************************************************************)
EXTENDS Requests, FiniteSetsExt, Functions

CONSTANTS
    ClientKeys,     \* idempotency keys clients send with a withdrawal
    Amounts,        \* points a withdrawal may ask for
    Minimum,        \* MINIMUM_WITHDRAWAL_POINTS
    RuleValues,     \* values an administrator may give the flat rule
    DefaultPoints,  \* the flat value without an active rule
    LastMonth       \* bound: months 1..LastMonth

ASSUME PointsAssumption ==
    /\ Amounts \subseteq Nat \ {0} /\ IsFiniteSet(Amounts) /\ Amounts # {}
    /\ RuleValues \subseteq Nat
    /\ Minimum \in Nat /\ DefaultPoints \in Nat /\ LastMonth \in Nat \ {0}

VARIABLES
    owed,           \* award tasks ever queued; delivery never removes one
    ledger,         \* PointsLedgerEntry rows
    redemptions,    \* PointsWithdrawalRequest rows
    rule,           \* the PointsEventRule in force, None without one
    month,          \* the calendar month
    snapshot        \* snapshot[m]: MonthlyLeaderboardSnapshot of month m

PointsVars == <<owed, ledger, redemptions, rule, month, snapshot>>

Statuses == {"pending", "approved", "rejected", "paid"}
RowOf(key) == {e \in ledger : e.key = key}
Sum(rows) == SumFunction([e \in rows |-> e.points])
RowsOf(u) == {e \in ledger : e.user = u}
Balance(u) == Sum(RowsOf(u))

Unseen(key) == RowOf(key) = {}

\* A bug: the balance is not compared with what is asked for.
EnoughAlways(u, n) == TRUE
Enough(u, n) == n <= Balance(u)

FlatPoints == IF rule # None THEN rule ELSE DefaultPoints
(* The value of an award: the amount the caller fixed, or the flat rule.   *)
PointsFor(a) == IF a.points # None THEN a.points ELSE FlatPoints

NewRow(user, key, points) ==
    [user |-> user, key |-> key, points |-> points,
     after |-> Balance(user) + points, month |-> month]

PointsInit(tasks) ==
    /\ owed = tasks
    /\ ledger = {} /\ redemptions = {} /\ rule = None
    /\ month = 1 /\ snapshot = [m \in 1 .. LastMonth |-> None]

-----------------------------------------------------------------------------
(* _award_points, run by the tasks: acks_late redelivers a task any number *)
(* of times, so a queued award is never removed.                           *)
AwardReads(w, a) ==
    /\ Free(w)
    /\ Unseen(a.key)
    /\ Starts(w, [op |-> "award", row |-> NewRow(a.user, a.key, PointsFor(a))])
    /\ UNCHANGED PointsVars

(* The unique key refuses the second of two concurrent rows.               *)
AwardCommits(w) ==
    /\ Doing(w, "award")
    /\ IF Unseen(work[w].row.key)
         THEN ledger' = ledger \cup {work[w].row}
         ELSE UNCHANGED ledger
    /\ Ends(w)
    /\ UNCHANGED <<owed, redemptions, rule, month, snapshot>>

(* create_points_withdrawal_request: replay check, balance check and the   *)
(* hold's row are read without a lock.                                     *)
RedeemReads(w, u, n, k) ==
    /\ Free(w)
    /\ n >= Minimum
    /\ \A r \in redemptions : ~(r.user = u /\ r.key = k)
    /\ Enough(u, n)
    /\ Starts(w, [op |-> "redeem", user |-> u, points |-> n,
                  row |-> IF RowOf(k) = {} THEN NewRow(u, k, 0 - n)
                          ELSE CHOOSE e \in RowOf(k) : TRUE])
    /\ UNCHANGED PointsVars

(* The hold and the request commit together; the unique key and the        *)
(* one-to-one link to the hold refuse a second one.                        *)
RedeemCommits(w) ==
    LET j == work[w] IN
    /\ Doing(w, "redeem")
    /\ IF RowOf(j.row.key) \subseteq {j.row} /\ \A r \in redemptions : r.key # j.row.key
         THEN /\ ledger' = ledger \cup {j.row}
              /\ redemptions' = redemptions \cup
                   {[user |-> j.user, key |-> j.row.key, points |-> j.points, status |-> "pending"]}
         ELSE UNCHANGED <<ledger, redemptions>>
    /\ Ends(w)
    /\ UNCHANGED <<owed, rule, month, snapshot>>

(* reverse_points_award: only a credit can be reversed, once.              *)
Reversal(e) ==
    IF e.points > 0 /\ RowOf(<<"reversal", e.key>>) = {}
      THEN {NewRow(e.user, <<"reversal", e.key>>, 0 - e.points)} ELSE {}

(* PointsWithdrawalRequestResolveView.patch: the status is checked when    *)
(* the request is read and saved blindly.                                  *)
ResolveReads(w, r, status) ==
    /\ Free(w)
    /\ r.status # "paid"
    /\ Starts(w, [op |-> "resolve", key |-> r.key, status |-> status])
    /\ UNCHANGED PointsVars

ResolveSaves(w) ==
    LET j == work[w] IN
    /\ Doing(w, "resolve")
    /\ redemptions' = {IF r.key = j.key THEN [r EXCEPT !.status = j.status] ELSE r : r \in redemptions}
    /\ ledger' = IF j.status = "rejected"
                   THEN ledger \cup UNION {Reversal(e) : e \in RowOf(j.key)} ELSE ledger
    /\ Ends(w)
    /\ UNCHANGED <<owed, rule, month, snapshot>>

(* PointsEventRuleListView, PointsEventRuleDetailView.                     *)
SetRule(v) ==
    /\ rule # v
    /\ rule' = v
    /\ UNCHANGED <<work, owed, ledger, redemptions, month, snapshot>>

-----------------------------------------------------------------------------
(* finalize_leaderboard_for_period: freeze the totals of the month before. *)
Standing(m) ==
    LET Earned(u) == Sum({e \in RowsOf(u) : e.month = m}) IN
    {[user |-> u, points |-> Earned(u)] : u \in {v \in Users : Earned(v) > 0}}

FinalizeReads(w) ==
    /\ Free(w)
    /\ month > 1 /\ snapshot[month - 1] = None
    /\ Starts(w, [op |-> "finalize", month |-> month - 1, rows |-> Standing(month - 1)])
    /\ UNCHANGED PointsVars

FinalizeCommits(w) ==
    LET j == work[w] IN
    /\ Doing(w, "finalize")
    /\ snapshot' = IF snapshot[j.month] = None
                     THEN [snapshot EXCEPT ![j.month] = j.rows] ELSE snapshot
    /\ Ends(w)
    /\ UNCHANGED <<owed, ledger, redemptions, rule, month>>

MonthEnds ==
    /\ month < LastMonth
    /\ month' = month + 1
    /\ UNCHANGED <<work, owed, ledger, redemptions, rule, snapshot>>

-----------------------------------------------------------------------------
Awarding(w) == (\E a \in owed : AwardReads(w, a)) \/ AwardCommits(w)

Redeeming(w) ==
    \/ \E u \in Users, n \in Amounts, k \in ClientKeys : RedeemReads(w, u, n, k)
    \/ RedeemCommits(w)
    \/ \E r \in redemptions, s \in Statuses : ResolveReads(w, r, s)
    \/ ResolveSaves(w)

Ranking(w) == FinalizeReads(w) \/ FinalizeCommits(w)

PointsNext ==
    \/ \E w \in Workers : Awarding(w) \/ Redeeming(w) \/ Ranking(w)
    \/ \E w \in Workers : Dies(w) /\ UNCHANGED PointsVars
    \/ \E v \in RuleValues \cup {None} : SetRule(v)
    \/ MonthEnds

-----------------------------------------------------------------------------
PointsType ==
    /\ ledger \subseteq [user : Users, key : ClientKeys \cup {a.key : a \in owed},
                         points : Int, after : Int, month : 1 .. LastMonth]
    /\ redemptions \subseteq [user : Users, key : {e.key : e \in ledger},
                              points : Amounts, status : Statuses]
    /\ rule \in RuleValues \cup {None}
    /\ \A m \in 1 .. LastMonth :
         snapshot[m] # None => snapshot[m] \subseteq [user : Users, points : Nat] /\ m < month

(* One row per key, one request per hold, and every hold is owned by the   *)
(* request that took it, for its amount.                                   *)
CountedOnce ==
    /\ \A e \in ledger : RowOf(e.key) = {e}
    /\ \A r, s \in redemptions : r.key = s.key => r = s
    /\ \A e \in ledger : e.key \in ClientKeys =>
         \E r \in redemptions : r.key = e.key /\ r.user = e.user /\ e.points = 0 - r.points

(* However often an award is delivered and a withdrawal is retried, the    *)
(* ledger counts each once; and although the balance check takes no lock,  *)
(* only the withdrawals the other workers had in flight can overdraw the   *)
(* balance (points/service.py:_award_points,                               *)
(* create_points_withdrawal_request).                                      *)
PointsKept ==
    /\ CountedOnce
    /\ \A u \in Users : Balance(u) >= 0 - (Cardinality(Workers) - 1) * Max(Amounts)
=============================================================================
