--------------------------- MODULE PayoutsProofs ---------------------------
(***************************************************************************)
(* Theorems about Payouts, for every set of requests, users and processes  *)
(* and under every hazard of the model: duplicated and overlapping         *)
(* deliveries, crashes, retries and reconciliation.                        *)
(***************************************************************************)
EXTENDS Payouts, FiniteSetTheorems, TLAPS

USE PayoutAssumption

-----------------------------------------------------------------------------
(* Type correctness. *)

LEMMA TypeInit == Init => TypeOK
  BY DEF Init, TypeOK, DataOK, JobOK, Told, AbsentRow, NoJob, Job, Jobs, RowStatus,
         TransferStatus, Steps, TransferIds, Event

\* The three ways an action changes a process keep the jobs well formed.
JobsOK == proc \in [Procs -> Jobs] /\ \A p \in Procs : JobOK(proc[p])

LEMMA GoesOK ==
  ASSUME JobsOK, NEW p \in Procs, NEW job, JobOK(job), Goes(p, job)
  PROVE  JobsOK'
  BY DEF JobsOK, JobOK, Goes

LEMMA MovesOK ==
  ASSUME JobsOK, NEW p \in Procs, NEW at \in Steps \ {"idle", "b_commit"},
         proc[p].at \notin {"idle", "b_commit"}, Moves(p, at),
         at # "rc_fetch", at \in Told => proc[p].at \in Told
  PROVE  JobsOK'
  BY DEF JobsOK, JobOK, Moves, Jobs

LEMMA EndsOK ==
  ASSUME JobsOK, NEW p \in Procs, Ends(p)
  PROVE  JobsOK'
<1>1. JobOK(NoJob)
  BY DEF JobOK, NoJob, Job, Jobs, Steps, RowStatus, TransferStatus, Told
<1> QED BY <1>1, GoesOK DEF Ends

LEMMA SameJobsOK == JobsOK /\ UNCHANGED proc => JobsOK'
  BY DEF JobsOK, JobOK

\* What the building blocks of the actions leave in the tables.
RowsOK(rows) == rows \in [Requests -> [status: RowStatus, transfer: 0..MaxTransfers]]
TransfersOK(ts) == ts \in [Requests -> [TransferIds -> TransferStatus]]

LEMMA HoldOK ==
  ASSUME DataOK, NEW r \in Requests, Hold(r)
  PROVE  ledger' \in [Users -> Int]
  BY DEF DataOK, Hold

LEMMA MakesTransferOK ==
  ASSUME DataOK, NEW r \in Requests, NEW i \in TransferIds, MakesTransfer(r, i)
  PROVE  TransfersOK(transfers')
  BY DEF DataOK, MakesTransfer, TransfersOK, TransferStatus

LEMMA MarkOK ==
  ASSUME DataOK, NEW r \in Requests, NEW saw, NEW news, Mark(r, saw, news)
  PROVE  /\ RowsOK(row') /\ ledger' \in [Users -> Int]
         /\ released' \in [Requests -> Nat]
<1>1. CASE MarkPaid(r, saw)
  <2>1. CASE UNCHANGED row
    BY <1>1, <2>1 DEF DataOK, MarkPaid, RowsOK
  <2>2. CASE row' = [row EXCEPT ![r].status = "complete"]
    BY <1>1, <2>2 DEF DataOK, MarkPaid, RowsOK, RowStatus
  <2> QED BY <1>1, <2>1, <2>2 DEF MarkPaid
<1>2. CASE MarkFailed(r)
  <2>1. RowsOK(row')
    BY <1>2 DEF DataOK, MarkFailed, RowsOK, RowStatus
  <2>2. ledger' \in [Users -> Int]
    BY <1>2 DEF DataOK, MarkFailed
  <2>3. released' \in [Requests -> Nat]
    BY <1>2 DEF DataOK, MarkFailed
  <2> QED BY <2>1, <2>2, <2>3
<1> QED BY <1>1, <1>2 DEF Mark

LEMMA CommitRowOK ==
  ASSUME DataOK, JobsOK, NEW p \in Procs, proc[p].at \notin {"idle", "b_commit"},
         row' = [row EXCEPT ![proc[p].req] =
                   [status |-> "processing", transfer |-> proc[p].t]]
  PROVE  RowsOK(row')
<1>1. proc[p].t \in 0..MaxTransfers
  BY DEF JobsOK, JobOK, Jobs
<1> QED BY <1>1 DEF DataOK, RowsOK, RowStatus

\* What a webhook process was told is an event of the type.
LEMMA JobEventOK ==
  ASSUME JobsOK, NEW p \in Procs, proc[p].at \in Told
  PROVE  [req |-> proc[p].req, t |-> proc[p].t, news |-> proc[p].news] \in Event
  BY DEF JobsOK, JobOK, Told, Event

LEMMA TypeWeb ==
  ASSUME TypeOK, NEW p \in Procs, WebNext(p)
  PROVE  TypeOK'
<1>0. DataOK /\ JobsOK
  BY DEF TypeOK, JobsOK
<1> USE <1>0
<1>1. ASSUME NEW r \in Requests, WalletBegin(p, r) PROVE TypeOK'
  <2>1. DataOK'
    BY <1>1 DEF WalletBegin, Jobs, Job, Goes, JobsOK, JobOK, DataOK, RowStatus, TransferStatus, TransferIds, payments, webhooks, locks
  <2>2. JobsOK'
    BY <1>1, GoesOK, MovesOK, EndsOK DEF WalletBegin, JobsOK, JobOK, Told, Jobs, Job, Steps, RowStatus, TransferStatus, TransferIds
  <2> QED BY <2>1, <2>2 DEF TypeOK, JobsOK
<1>2. ASSUME NEW r \in Requests, DriverPost(p, r) PROVE TypeOK'
  <2>1. DataOK'
    BY <1>2 DEF DriverPost, MakesTransfer, NextTransfer, Jobs, Job, Goes, JobsOK, JobOK, DataOK, RowStatus, TransferStatus, TransferIds, payments, webhooks, locks
  <2>2. JobsOK'
    BY <1>2, GoesOK, MovesOK, EndsOK DEF DriverPost, JobsOK, JobOK, Told, Jobs, Job, Steps, RowStatus, TransferStatus, TransferIds
  <2> QED BY <2>1, <2>2 DEF TypeOK, JobsOK
<1>3. ASSUME WalletCreate(p) PROVE TypeOK'
  <2>1. DataOK'
    <3>1. proc[p].req \in Requests
      BY <1>3 DEF WalletCreate, JobsOK, JobOK
    <3>2. ledger' \in [Users -> Int]
      BY <1>3, <3>1, HoldOK DEF WalletCreate, DataOK
    <3>3. RowsOK(row')
      BY <1>3, <3>1 DEF WalletCreate, DataOK, RowsOK, RowStatus
    <3> QED BY <1>3, <3>2, <3>3 DEF WalletCreate, DataOK, RowsOK, webhooks, locks
  <2>2. JobsOK'
    BY <1>3, MovesOK, EndsOK DEF WalletCreate, Steps, Told
  <2> QED BY <2>1, <2>2 DEF TypeOK, JobsOK
<1>4. ASSUME WalletEnqueue(p) PROVE TypeOK'
  <2>1. DataOK'
    <3>1. proc[p].req \in Requests
      BY <1>4 DEF WalletEnqueue, JobsOK, JobOK
    <3>2. queue' = queue \/ Enqueue(proc[p].req)
      BY <1>4 DEF WalletEnqueue
    <3>3. queue \in [Requests -> 0..MaxQueue] /\ MaxQueue \in Nat
      BY PayoutAssumption DEF DataOK
    <3>4. queue' \in [Requests -> 0..MaxQueue]
      BY <3>1, <3>2, <3>3 DEF Enqueue
    <3>5. UNCHANGED <<payments, idem, transfers, locks, webhooks, crashes>>
      BY <1>4 DEF WalletEnqueue
    <3> QED BY <3>4, <3>5 DEF DataOK, payments, webhooks, locks
  <2>2. JobsOK'
    BY <1>4, MovesOK DEF WalletEnqueue, Steps, Told
  <2> QED BY <2>1, <2>2 DEF TypeOK, JobsOK
<1>5. ASSUME WalletSave(p) PROVE TypeOK'
  <2>1. DataOK'
    BY <1>5 DEF WalletSave, Jobs, Job, Goes, JobsOK, JobOK, DataOK, RowStatus, TransferStatus, TransferIds, payments, webhooks, locks
  <2>2. JobsOK'
    BY <1>5, EndsOK DEF WalletSave
  <2> QED BY <2>1, <2>2 DEF TypeOK, JobsOK
<1>6. ASSUME DriverCommit(p) PROVE TypeOK'
  <2>1. DataOK'
    <3>1. proc[p].req \in Requests
      BY <1>6 DEF DriverCommit, JobsOK, JobOK
    <3>2. ledger' \in [Users -> Int]
      BY <1>6, <3>1, HoldOK DEF DriverCommit
    <3>3. RowsOK(row')
      BY <1>6, CommitRowOK DEF DriverCommit
    <3> QED BY <1>6, <3>2, <3>3 DEF DriverCommit, DataOK, RowsOK, webhooks
  <2>2. JobsOK'
    BY <1>6, EndsOK DEF DriverCommit
  <2> QED BY <2>1, <2>2 DEF TypeOK, JobsOK
<1> QED BY <1>1, <1>2, <1>3, <1>4, <1>5, <1>6 DEF WebNext

LEMMA TypeExecutor ==
  ASSUME TypeOK, NEW p \in Procs, ExecutorNext(p)
  PROVE  TypeOK'
<1>0. DataOK /\ JobsOK
  BY DEF TypeOK, JobsOK
<1> USE <1>0
<1>1. ASSUME NEW r \in Requests, RealtimeLoad(p, r) PROVE TypeOK'
  <2>1. DataOK'
    BY <1>1 DEF RealtimeLoad, Jobs, Job, Goes, JobsOK, JobOK, DataOK, RowStatus, TransferStatus, TransferIds, payments, webhooks, locks
  <2>2. JobsOK'
    <3>1. JobOK(Job("rt_send", r, row[r].status, 0, "none"))
      BY <1>1 DEF RealtimeLoad, DataOK, JobsOK, JobOK, Told, Jobs, Job, Steps, RowStatus, TransferStatus, TransferIds
    <3> QED BY <1>1, <3>1, GoesOK DEF RealtimeLoad
  <2> QED BY <2>1, <2>2 DEF TypeOK, JobsOK
<1>2. ASSUME RealtimeSkip(p) PROVE TypeOK'
  <2>1. DataOK'
    BY <1>2 DEF RealtimeSkip, Jobs, Job, Goes, JobsOK, JobOK, DataOK, RowStatus, TransferStatus, TransferIds, payments, webhooks, locks
  <2>2. JobsOK'
    BY <1>2, EndsOK DEF RealtimeSkip
  <2> QED BY <2>1, <2>2 DEF TypeOK, JobsOK
<1>3. ASSUME RealtimeSend(p) PROVE TypeOK'
  <2>1. DataOK'
    <3>1. proc[p].req \in Requests
      BY <1>3 DEF RealtimeSend, JobsOK, JobOK
    <3>2. TransfersOK(transfers')
      BY <1>3, <3>1, MakesTransferOK DEF RealtimeSend
    <3> QED BY <1>3, <3>2 DEF RealtimeSend, DataOK, TransfersOK, payments, webhooks
  <2>2. JobsOK'
    <3>1. PICK i \in TransferIds : Goes(p, Job("rt_commit", proc[p].req, proc[p].saw, i, "none"))
      BY <1>3 DEF RealtimeSend
    <3>2. JobOK(Job("rt_commit", proc[p].req, proc[p].saw, i, "none"))
      BY <1>3 DEF RealtimeSend, JobsOK, JobOK, Told, Jobs, Job, Steps, TransferIds, TransferStatus
    <3> QED BY <3>1, <3>2, GoesOK
  <2> QED BY <2>1, <2>2 DEF TypeOK, JobsOK
<1>4. ASSUME RealtimeRefused(p) PROVE TypeOK'
  <2>1. DataOK'
    BY <1>4 DEF RealtimeRefused, Jobs, Job, Goes, JobsOK, JobOK, DataOK, RowStatus, TransferStatus, TransferIds, payments, webhooks, locks
  <2>2. JobsOK'
    BY <1>4, EndsOK DEF RealtimeRefused
  <2> QED BY <2>1, <2>2 DEF TypeOK, JobsOK
<1>5. ASSUME RealtimeCommit(p) PROVE TypeOK'
  <2>1. DataOK'
    BY <1>5 DEF RealtimeCommit, Steps, Jobs, Job, Goes, JobsOK, JobOK, DataOK, RowStatus, TransferStatus, TransferIds, payments, webhooks, locks
  <2>2. JobsOK'
    BY <1>5, EndsOK DEF RealtimeCommit
  <2> QED BY <2>1, <2>2 DEF TypeOK, JobsOK
<1>6. ASSUME BatchSend(p) PROVE TypeOK'
  <2>1. DataOK'
    BY <1>6 DEF BatchSend, BatchTransfer, InBatch, Jobs, Job, Goes, JobsOK, JobOK, DataOK, RowStatus, TransferStatus, TransferIds, payments, webhooks, locks
  <2>2. JobsOK'
    BY <1>6, GoesOK, MovesOK, EndsOK DEF BatchSend, BatchJob, JobsOK, JobOK, Told, Jobs, Job, Steps, RowStatus, TransferStatus, TransferIds
  <2> QED BY <2>1, <2>2 DEF TypeOK, JobsOK
<1>7. ASSUME BatchCommit(p) PROVE TypeOK'
  <2>1. DataOK'
    BY <1>7 DEF BatchCommit, Jobs, Job, Goes, JobsOK, JobOK, DataOK, RowStatus, TransferStatus, TransferIds, payments, webhooks, locks
  <2>2. JobsOK'
    BY <1>7, EndsOK DEF BatchCommit
  <2> QED BY <2>1, <2>2 DEF TypeOK, JobsOK
<1> QED BY <1>1, <1>2, <1>3, <1>4, <1>5, <1>6, <1>7 DEF ExecutorNext

LEMMA TypeWebhook ==
  ASSUME TypeOK, NEW p \in Procs, WebhookNext(p)
  PROVE  TypeOK'
<1>0. DataOK /\ JobsOK
  BY DEF TypeOK, JobsOK
<1> USE <1>0
<1>1. ASSUME NEW e \in Event, WebhookReceive(p, e) PROVE TypeOK'
  <2>1. DataOK'
    <3>1. logged' \subseteq Event /\ acked' \subseteq Event
      BY <1>1 DEF WebhookReceive, LogWith, DataOK
    <3> QED BY <1>1, <3>1 DEF WebhookReceive, DataOK, payments, locks
  <2>2. JobsOK'
    BY <1>1, GoesOK, MovesOK, EndsOK, SameJobsOK DEF WebhookReceive, Event, News, JobsOK, JobOK, Told, Jobs, Job, Steps, RowStatus, TransferStatus, TransferIds
  <2> QED BY <2>1, <2>2 DEF TypeOK, JobsOK
<1>2. ASSUME WebhookFind(p) PROVE TypeOK'
  <2>1. DataOK'
    BY <1>2 DEF WebhookFind, Jobs, Job, Goes, JobsOK, JobOK, DataOK, RowStatus, TransferStatus, TransferIds, payments, webhooks, locks
  <2>2. JobsOK'
    BY <1>2, GoesOK, MovesOK, EndsOK DEF WebhookFind, DataOK, JobsOK, JobOK, Told, Jobs, Job, Steps, RowStatus, TransferStatus, TransferIds
  <2> QED BY <2>1, <2>2 DEF TypeOK, JobsOK
<1>3. ASSUME WebhookMark(p) PROVE TypeOK'
  <2>1. DataOK'
    <3>1. proc[p].req \in Requests
      BY <1>3 DEF WebhookMark, JobsOK, JobOK
    <3> QED BY <1>3, <3>1, MarkOK DEF WebhookMark, DataOK, RowsOK, webhooks, locks
  <2>2. JobsOK'
    BY <1>3, MovesOK DEF WebhookMark, Steps, Told
  <2> QED BY <2>1, <2>2 DEF TypeOK, JobsOK
<1>4. ASSUME WebhookDone(p) PROVE TypeOK'
  <2>1. DataOK'
    <3>1. [req |-> proc[p].req, t |-> proc[p].t, news |-> proc[p].news] \in Event
      BY <1>4, JobEventOK DEF WebhookDone, Told
    <3>2. acked' \subseteq Event /\ done' \subseteq Event
      BY <1>4, <3>1 DEF WebhookDone, DataOK
    <3> QED BY <1>4, <3>2 DEF WebhookDone, DataOK, payments, locks
  <2>2. JobsOK'
    BY <1>4, EndsOK DEF WebhookDone
  <2> QED BY <2>1, <2>2 DEF TypeOK, JobsOK
<1>5. ASSUME WebhookError(p) PROVE TypeOK'
  <2>1. DataOK'
    <3>1. [req |-> proc[p].req, t |-> proc[p].t, news |-> proc[p].news] \in Event
      BY <1>5, JobEventOK DEF WebhookError, Told
    <3>2. acked' \subseteq Event /\ done' \subseteq Event
      BY <1>5, <3>1 DEF WebhookError, DataOK
    <3> QED BY <1>5, <3>2 DEF WebhookError, DataOK, payments, locks
  <2>2. JobsOK'
    BY <1>5, EndsOK DEF WebhookError
  <2> QED BY <2>1, <2>2 DEF TypeOK, JobsOK
<1> QED BY <1>1, <1>2, <1>3, <1>4, <1>5 DEF WebhookNext

LEMMA TypeReconcile ==
  ASSUME TypeOK, NEW p \in Procs, ReconcileNext(p)
  PROVE  TypeOK'
<1>0. DataOK /\ JobsOK
  BY DEF TypeOK, JobsOK
<1> USE <1>0
<1>1. ASSUME NEW r \in Requests, ReconcilePick(p, r) PROVE TypeOK'
  <2>1. DataOK'
    BY <1>1 DEF ReconcilePick, Jobs, Job, Goes, JobsOK, JobOK, DataOK, RowStatus, TransferStatus, TransferIds, payments, webhooks, locks
  <2>2. JobsOK'
    <3>1. JobOK(Job("rc_fetch", r, "processing", row[r].transfer, "none"))
      BY <1>1 DEF ReconcilePick, DataOK, JobsOK, JobOK, Told, Jobs, Job, Steps, RowStatus, TransferStatus, TransferIds
    <3> QED BY <1>1, <3>1, GoesOK DEF ReconcilePick
  <2> QED BY <2>1, <2>2 DEF TypeOK, JobsOK
<1>2. ASSUME ReconcileFetch(p) PROVE TypeOK'
  <2>1. DataOK'
    BY <1>2 DEF ReconcileFetch, Jobs, Job, Goes, JobsOK, JobOK, DataOK, RowStatus, TransferStatus, TransferIds, payments, webhooks, locks
  <2>2. JobsOK'
    BY <1>2, GoesOK, MovesOK, EndsOK DEF ReconcileFetch, News, JobsOK, JobOK, Told, Jobs, Job, Steps, RowStatus, TransferStatus, TransferIds
  <2> QED BY <2>1, <2>2 DEF TypeOK, JobsOK
<1>3. ASSUME ReconcileMark(p) PROVE TypeOK'
  <2>1. DataOK'
    <3>1. proc[p].req \in Requests
      BY <1>3 DEF ReconcileMark, JobsOK, JobOK
    <3> QED BY <1>3, <3>1, MarkOK DEF ReconcileMark, DataOK, RowsOK, webhooks, locks
  <2>2. JobsOK'
    BY <1>3, EndsOK DEF ReconcileMark
  <2> QED BY <2>1, <2>2 DEF TypeOK, JobsOK
<1> QED BY <1>1, <1>2, <1>3 DEF ReconcileNext

LEMMA TypeRest ==
  ASSUME TypeOK
  PROVE  /\ \A p \in Procs : Crash(p) => TypeOK'
         /\ \A r \in Requests : RetryPending(r) => TypeOK'
         /\ PaystackNext => TypeOK'
         /\ UNCHANGED vars => TypeOK'
<1>0. DataOK /\ JobsOK
  BY DEF TypeOK, JobsOK
<1> USE <1>0
<1>1. ASSUME NEW p \in Procs, Crash(p) PROVE TypeOK'
  <2>1. DataOK'
    BY <1>1 DEF Crash, DataOK, payments, webhooks
  <2>2. JobsOK'
    BY <1>1, EndsOK DEF Crash
  <2> QED BY <2>1, <2>2 DEF TypeOK, JobsOK
<1>2. ASSUME NEW r \in Requests, RetryPending(r) PROVE TypeOK'
  <2>1. DataOK'
    BY <1>2 DEF RetryPending, Enqueue, DataOK, payments, webhooks, locks
  <2>2. JobsOK'
    BY <1>2, SameJobsOK DEF RetryPending
  <2> QED BY <2>1, <2>2 DEF TypeOK, JobsOK
<1>3. CASE PaystackNext
  <2>1. PICK r \in Requests, i \in TransferIds : Settle(r, i) \/ Reverse(r, i)
    BY <1>3 DEF PaystackNext
  <2>2. DataOK'
    <3>1. TransfersOK(transfers')
      <4>1. PICK s \in TransferStatus : transfers' = [transfers EXCEPT ![r][i] = s]
        BY <2>1 DEF Settle, Reverse, TransferStatus
      <4> QED BY <4>1 DEF DataOK, TransfersOK
    <3> QED BY <2>1, <3>1 DEF Settle, Reverse, DataOK, TransfersOK, payments, webhooks, locks
  <2>3. JobsOK'
    BY <2>1, SameJobsOK DEF Settle, Reverse
  <2> QED BY <2>2, <2>3 DEF TypeOK, JobsOK
<1>4. CASE UNCHANGED vars
  BY <1>4 DEF vars, TypeOK, DataOK, JobOK, JobsOK, payments, webhooks, locks
<1> QED BY <1>1, <1>2, <1>3, <1>4

LEMMA TypeNext == TypeOK /\ [Next]_vars => TypeOK'
  BY TypeWeb, TypeExecutor, TypeWebhook, TypeReconcile, TypeRest DEF Next

\* Every reachable state of the pipeline is well typed: no status outside
\* Withdrawal.STATUS_CHOICES, no lock held by nobody's transaction.
THEOREM TypeCorrect == Spec => []TypeOK
<1>1. Init => TypeOK
  BY TypeInit
<1>2. TypeOK /\ [Next]_vars => TypeOK'
  BY TypeNext
<1> QED BY <1>1, <1>2, PTL DEF Spec

-----------------------------------------------------------------------------
(* Evidence.  What a process was told of a transfer stays true: Paystack's *)
(* transfers only move forward.  So whatever a process does with it, at    *)
(* whatever time, is backed by a transfer that really ended that way.      *)

PaidOut == {"success", "reversed"}
BroughtBack == {"failed", "reversed"}
IsTrue(job) ==
  IF job.news = "success" THEN transfers[job.req][job.t] \in PaidOut
                          ELSE transfers[job.req][job.t] \in BroughtBack
JobsOnEvidence == \A p \in Procs : proc[p].at \in Told => IsTrue(proc[p])
EvidenceInv ==
  TypeOK /\ JobsOnEvidence /\ CompleteOnEvidence /\ ReleaseOnEvidence

Advances ==
  \A r \in Requests, i \in TransferIds :
    /\ transfers[r][i] \in PaidOut => transfers'[r][i] \in PaidOut
    /\ transfers[r][i] \in BroughtBack => transfers'[r][i] \in BroughtBack

LEMMA MakesAdvances ==
  ASSUME TypeOK, NEW r \in Requests, NEW i \in TransferIds, MakesTransfer(r, i)
  PROVE  Advances
  BY DEF TypeOK, DataOK, MakesTransfer, NextTransfer, Advances, PaidOut, BroughtBack

LEMMA TransfersAdvance ==
  ASSUME TypeOK, [Next]_vars
  PROVE  Advances
<1>1. ASSUME UNCHANGED transfers PROVE Advances
  BY <1>1 DEF Advances
<1>2. ASSUME NEW p \in Procs, NEW r \in Requests, DriverPost(p, r) PROVE Advances
  BY <1>2, MakesAdvances DEF DriverPost
<1>3. ASSUME NEW p \in Procs, RealtimeSend(p) PROVE Advances
  <2>1. proc[p].req \in Requests
    BY <1>3 DEF RealtimeSend, TypeOK, JobOK
  <2> QED BY <1>3, <2>1, MakesAdvances DEF RealtimeSend
<1>4. ASSUME NEW p \in Procs, BatchSend(p) PROVE Advances
  BY <1>4 DEF BatchSend, BatchTransfer, TypeOK, DataOK, Advances, PaidOut,
              BroughtBack, TransferIds
<1>5. CASE PaystackNext
  <2>1. PICK r \in Requests, i \in TransferIds : Settle(r, i) \/ Reverse(r, i)
    BY <1>5 DEF PaystackNext
  <2>2. CASE Settle(r, i)
    BY <2>2 DEF Settle, TypeOK, DataOK, Advances, PaidOut, BroughtBack
  <2>3. CASE Reverse(r, i)
    BY <2>3 DEF Reverse, TypeOK, DataOK, Advances, PaidOut, BroughtBack
  <2> QED BY <2>1, <2>2, <2>3
<1>6. CASE UNCHANGED vars
  BY <1>1, <1>6 DEF vars
<1>7. ASSUME NEW p \in Procs, WebNext(p) PROVE Advances
  BY <1>1, <1>2, <1>7 DEF WebNext, WalletBegin, WalletCreate, WalletEnqueue,
     WalletSave, DriverCommit
<1>8. ASSUME NEW p \in Procs, ExecutorNext(p) PROVE Advances
  BY <1>1, <1>3, <1>4, <1>8 DEF ExecutorNext, RealtimeLoad, RealtimeSkip,
     RealtimeRefused, RealtimeCommit, BatchCommit
<1>9. ASSUME NEW p \in Procs, WebhookNext(p) PROVE Advances
  BY <1>1, <1>9 DEF WebhookNext, WebhookReceive, WebhookFind, WebhookMark,
     WebhookDone, WebhookError
<1>10. ASSUME NEW p \in Procs, ReconcileNext(p) PROVE Advances
  BY <1>1, <1>10 DEF ReconcileNext, ReconcilePick, ReconcileFetch, ReconcileMark
<1>11. ASSUME NEW p \in Procs, Crash(p) PROVE Advances
  BY <1>1, <1>11 DEF Crash
<1>12. ASSUME NEW r \in Requests, RetryPending(r) PROVE Advances
  BY <1>1, <1>12 DEF RetryPending
<1> QED BY <1>5, <1>6, <1>7, <1>8, <1>9, <1>10, <1>11, <1>12 DEF Next

\* In a step of process p nobody is told anything untrue, and a row becomes
\* complete or a hold is released only by a process that was told so.
ToldTheTruth ==
  \A q \in Procs : proc'[q].at \in Told =>
    \/ /\ proc[q].at \in Told
       /\ proc'[q].req = proc[q].req /\ proc'[q].t = proc[q].t
       /\ proc'[q].news = proc[q].news
    \/ proc'[q].req \in Requests /\ proc'[q].t \in TransferIds /\ IsTrue(proc'[q])
MarkedAsTold ==
  \A r \in Requests :
    /\ row'[r].status = "complete" =>
         \/ row[r].status = "complete"
         \/ \E q \in Procs : proc[q].at \in Told /\ proc[q].req = r /\ proc[q].news = "success"
    /\ released'[r] > 0 =>
         \/ released[r] > 0
         \/ \E q \in Procs : proc[q].at \in Told /\ proc[q].req = r /\ proc[q].news # "success"

LEMMA EndsTruthful ==
  ASSUME TypeOK, NEW p \in Procs, NEW job, Goes(p, job), job.at \notin Told
  PROVE  ToldTheTruth
  BY DEF TypeOK, Goes, ToldTheTruth

LEMMA NoJobUntold == NoJob.at \notin Told
  BY DEF NoJob, Job, Told

LEMMA MovesTruthful ==
  ASSUME TypeOK, NEW p \in Procs, NEW at \in Steps, Moves(p, at),
         at \in Told => proc[p].at \in Told
  PROVE  ToldTheTruth
  BY DEF TypeOK, Moves, ToldTheTruth, Jobs

LEMMA MarkTruthful ==
  ASSUME TypeOK, NEW p \in Procs, proc[p].at \in Told,
         Mark(proc[p].req, proc[p].saw, proc[p].news)
  PROVE  MarkedAsTold
<1>1. proc[p].req \in Requests
  BY DEF TypeOK, JobOK, Told
<1>2. CASE proc[p].news = "success"
  BY <1>1, <1>2 DEF Mark, MarkPaid, MarkedAsTold, TypeOK, DataOK
<1>3. CASE proc[p].news # "success"
  BY <1>1, <1>3 DEF Mark, MarkFailed, MarkedAsTold, TypeOK, DataOK
<1> QED BY <1>2, <1>3

LEMMA RowsUntouched ==
  ASSUME UNCHANGED row, UNCHANGED released
  PROVE  MarkedAsTold
  BY DEF MarkedAsTold

LEMMA JobsUntouched ==
  ASSUME UNCHANGED proc
  PROVE  ToldTheTruth
  BY DEF ToldTheTruth

LEMMA WebTruthful ==
  ASSUME TypeOK, NEW p \in Procs, WebNext(p)
  PROVE  ToldTheTruth /\ MarkedAsTold
<1>1. ASSUME NEW r \in Requests, WalletBegin(p, r) PROVE ToldTheTruth /\ MarkedAsTold
  BY <1>1, EndsTruthful, RowsUntouched DEF WalletBegin, Job, Told, payments
<1>2. ASSUME NEW r \in Requests, DriverPost(p, r) PROVE ToldTheTruth /\ MarkedAsTold
  BY <1>2, EndsTruthful, RowsUntouched DEF DriverPost, Job, Told, payments
<1>3. CASE WalletCreate(p)
  <2>1. ToldTheTruth
    BY <1>3, EndsTruthful, NoJobUntold, MovesTruthful DEF WalletCreate, Ends, Told, Steps
  <2>2. MarkedAsTold
    BY <1>3 DEF WalletCreate, MarkedAsTold, TypeOK, DataOK
  <2> QED BY <2>1, <2>2
<1>4. CASE WalletEnqueue(p)
  BY <1>4, MovesTruthful, RowsUntouched DEF WalletEnqueue, Told, Steps, payments
<1>5. CASE WalletSave(p)
  BY <1>5, EndsTruthful, NoJobUntold, RowsUntouched DEF WalletSave, Ends, payments
<1>6. CASE DriverCommit(p)
  <2>1. ToldTheTruth
    BY <1>6, EndsTruthful, NoJobUntold DEF DriverCommit, Ends
  <2>2. MarkedAsTold
    BY <1>6 DEF DriverCommit, MarkedAsTold, TypeOK, DataOK
  <2> QED BY <2>1, <2>2
<1> QED BY <1>1, <1>2, <1>3, <1>4, <1>5, <1>6 DEF WebNext

LEMMA ExecutorTruthful ==
  ASSUME TypeOK, NEW p \in Procs, ExecutorNext(p)
  PROVE  ToldTheTruth /\ MarkedAsTold
<1>1. ASSUME NEW r \in Requests, RealtimeLoad(p, r) PROVE ToldTheTruth /\ MarkedAsTold
  BY <1>1, EndsTruthful, RowsUntouched DEF RealtimeLoad, Job, Told, payments
<1>2. CASE RealtimeSkip(p) \/ RealtimeRefused(p)
  BY <1>2, EndsTruthful, NoJobUntold, RowsUntouched
     DEF RealtimeSkip, RealtimeRefused, Ends, payments
<1>3. CASE RealtimeSend(p)
  BY <1>3, EndsTruthful, RowsUntouched DEF RealtimeSend, Job, Told, payments
<1>4. CASE RealtimeCommit(p)
  <2>1. ToldTheTruth
    BY <1>4, EndsTruthful, NoJobUntold DEF RealtimeCommit, Ends
  <2>2. MarkedAsTold
    BY <1>4 DEF RealtimeCommit, MarkedAsTold, TypeOK, DataOK
  <2> QED BY <2>1, <2>2
<1>5. CASE BatchSend(p)
  BY <1>5, EndsTruthful, RowsUntouched DEF BatchSend, BatchJob, Job, Told, payments
<1>6. CASE BatchCommit(p)
  <2>1. ToldTheTruth
    BY <1>6, EndsTruthful, NoJobUntold DEF BatchCommit, Ends
  <2>2. MarkedAsTold
    BY <1>6 DEF BatchCommit, MarkedAsTold, TypeOK, DataOK
  <2> QED BY <2>1, <2>2
<1> QED BY <1>1, <1>2, <1>3, <1>4, <1>5, <1>6 DEF ExecutorNext

LEMMA WebhookTruthful ==
  ASSUME TypeOK, NEW p \in Procs, WebhookNext(p)
  PROVE  ToldTheTruth /\ MarkedAsTold
<1>1. ASSUME NEW e \in Event, WebhookReceive(p, e) PROVE ToldTheTruth /\ MarkedAsTold
  <2>1. CASE UNCHANGED proc
    BY <1>1, <2>1, JobsUntouched, RowsUntouched DEF WebhookReceive, payments
  <2>2. CASE Goes(p, Job("wh_find", e.req, "absent", e.t, e.news))
    <3>1. IsTrue(Job("wh_find", e.req, "absent", e.t, e.news))
      BY <1>1 DEF WebhookReceive, HasHappened, IsTrue, Job, PaidOut, BroughtBack, Event, News
    <3>2. ToldTheTruth
      BY <2>2, <3>1 DEF Goes, ToldTheTruth, TypeOK, Job, Event
    <3> QED BY <1>1, <3>2, RowsUntouched DEF WebhookReceive, payments
  <2> QED BY <1>1, <2>1, <2>2 DEF WebhookReceive
<1>2. CASE WebhookFind(p)
  <2>1. CASE Moves(p, "wh_done")
    BY <1>2, <2>1, MovesTruthful, RowsUntouched DEF WebhookFind, Told, Steps, payments
  <2>2. CASE Goes(p, Job("wh_mark", proc[p].req, row[proc[p].req].status,
                         proc[p].t, proc[p].news))
    <3>1. ToldTheTruth
      BY <1>2, <2>2 DEF WebhookFind, Goes, Job, ToldTheTruth, TypeOK, Told
    <3> QED BY <1>2, <3>1, RowsUntouched DEF WebhookFind, payments
  <2> QED BY <1>2, <2>1, <2>2 DEF WebhookFind
<1>3. CASE WebhookMark(p)
  BY <1>3, MovesTruthful, MarkTruthful DEF WebhookMark, Told, Steps
<1>4. CASE WebhookDone(p) \/ WebhookError(p)
  BY <1>4, EndsTruthful, NoJobUntold, RowsUntouched
     DEF WebhookDone, WebhookError, Ends, payments
<1> QED BY <1>1, <1>2, <1>3, <1>4 DEF WebhookNext

LEMMA ReconcileTruthful ==
  ASSUME TypeOK, NEW p \in Procs, ReconcileNext(p)
  PROVE  ToldTheTruth /\ MarkedAsTold
<1>1. ASSUME NEW r \in Requests, ReconcilePick(p, r) PROVE ToldTheTruth /\ MarkedAsTold
  BY <1>1, EndsTruthful, RowsUntouched DEF ReconcilePick, Job, Told, payments
<1>2. CASE ReconcileFetch(p)
  <2>1. proc[p].req \in Requests /\ proc[p].t \in TransferIds
    BY <1>2 DEF ReconcileFetch, TypeOK, JobOK
  <2>2. CASE Ends(p)
    BY <1>2, <2>2, EndsTruthful, NoJobUntold, RowsUntouched DEF ReconcileFetch, Ends, payments
  <2> DEFINE status == transfers[proc[p].req][proc[p].t]
             job == Job("rc_mark", proc[p].req, proc[p].saw, proc[p].t, status)
  <2>3. CASE status \in News /\ Goes(p, job)
    <3>1. IsTrue(job)
      BY <2>3 DEF IsTrue, Job, News, PaidOut, BroughtBack
    <3>2. job.req \in Requests /\ job.t \in TransferIds
      BY <2>1 DEF Job
    <3>3. ToldTheTruth
      BY <2>3, <3>1, <3>2 DEF Goes, ToldTheTruth, TypeOK
    <3> QED BY <1>2, <3>3, RowsUntouched DEF ReconcileFetch, payments
  <2> QED BY <1>2, <2>2, <2>3 DEF ReconcileFetch
<1>3. CASE ReconcileMark(p)
  BY <1>3, EndsTruthful, NoJobUntold, MarkTruthful DEF ReconcileMark, Ends, Told
<1> QED BY <1>1, <1>2, <1>3 DEF ReconcileNext

LEMMA StepTruthful ==
  ASSUME TypeOK, [Next]_vars
  PROVE  ToldTheTruth /\ MarkedAsTold
<1>1. ASSUME NEW p \in Procs, Crash(p) PROVE ToldTheTruth /\ MarkedAsTold
  BY <1>1, EndsTruthful, NoJobUntold, RowsUntouched DEF Crash, Ends, payments
<1>2. ASSUME NEW r \in Requests, RetryPending(r) PROVE ToldTheTruth /\ MarkedAsTold
  BY <1>2, JobsUntouched, RowsUntouched DEF RetryPending, payments
<1>3. CASE PaystackNext
  BY <1>3, JobsUntouched, RowsUntouched DEF PaystackNext, Settle, Reverse, payments
<1>4. CASE UNCHANGED vars
  BY <1>4, JobsUntouched, RowsUntouched DEF vars, payments
<1> QED BY <1>1, <1>2, <1>3, <1>4, WebTruthful, ExecutorTruthful, WebhookTruthful,
           ReconcileTruthful DEF Next

LEMMA EvidenceStep == EvidenceInv /\ [Next]_vars => EvidenceInv'
<1> SUFFICES ASSUME EvidenceInv, [Next]_vars PROVE EvidenceInv'
  OBVIOUS
<1>1. TypeOK /\ TypeOK'
  BY TypeNext DEF EvidenceInv
<1>2. Advances /\ ToldTheTruth /\ MarkedAsTold
  BY <1>1, TransfersAdvance, StepTruthful
<1>3. JobsOnEvidence'
  <2> SUFFICES ASSUME NEW q \in Procs, proc'[q].at \in Told PROVE IsTrue(proc[q])'
    BY DEF JobsOnEvidence
  <2>1. proc'[q].req \in Requests /\ proc'[q].t \in TransferIds
    BY <1>1 DEF TypeOK, JobOK, Told
  <2>2. \/ transfers[proc'[q].req][proc'[q].t] \in PaidOut /\ proc'[q].news = "success"
        \/ transfers[proc'[q].req][proc'[q].t] \in BroughtBack /\ proc'[q].news # "success"
    BY <1>2 DEF ToldTheTruth, EvidenceInv, JobsOnEvidence, IsTrue
  <2> QED BY <1>2, <2>1, <2>2 DEF Advances, IsTrue
<1>4. ASSUME NEW q \in Procs, proc[q].at \in Told
      PROVE  /\ proc[q].req \in Requests
             /\ proc[q].news = "success" => Succeeded(proc[q].req) # {}
             /\ proc[q].news # "success" => CameBack(proc[q].req) # {}
  BY <1>4 DEF EvidenceInv, JobsOnEvidence, IsTrue, TypeOK, JobOK, Told, Succeeded,
     CameBack, PaidOut, BroughtBack
<1>5. \A r \in Requests : /\ Succeeded(r) # {} => Succeeded(r)' # {}
                          /\ CameBack(r) # {} => CameBack(r)' # {}
  BY <1>2 DEF Advances, Succeeded, CameBack, PaidOut, BroughtBack
<1>6. CompleteOnEvidence'
  BY <1>2, <1>4, <1>5 DEF MarkedAsTold, CompleteOnEvidence, EvidenceInv
<1>7. ReleaseOnEvidence'
  BY <1>2, <1>4, <1>5 DEF MarkedAsTold, ReleaseOnEvidence, EvidenceInv
<1> QED BY <1>1, <1>3, <1>6, <1>7 DEF EvidenceInv

LEMMA EvidenceInvariant == Spec => []EvidenceInv
<1>1. Init => EvidenceInv
  BY TypeInit DEF Init, EvidenceInv, JobsOnEvidence, CompleteOnEvidence,
     ReleaseOnEvidence, NoJob, Job, Told, AbsentRow
<1> QED BY <1>1, EvidenceStep, PTL DEF Spec

\* A withdrawal is reported complete only if Paystack really paid a transfer of
\* it, for any number of processes, requests and transfers, and whatever is
\* duplicated, delayed, retried or rolled back (mark_withdrawal_paid).
THEOREM CompleteIsPaid == Spec => []CompleteOnEvidence
  BY EvidenceInvariant, PTL DEF EvidenceInv

\* A hold is released only if Paystack really brought a transfer back
\* (mark_withdrawal_failed).
THEOREM ReleaseIsReturned == Spec => []ReleaseOnEvidence
  BY EvidenceInvariant, PTL DEF EvidenceInv

-----------------------------------------------------------------------------
(* A batch withdrawal is never queued for execute_realtime, and a bulk     *)
(* transfer carries the reference of the row, so that only its first       *)
(* transfer is ever made.                                                  *)

OnlyFirst(r) == \A i \in TransferIds : transfers[r][i] # "none" => i = 1
BatchInv ==
  /\ TypeOK
  /\ \A r \in Batch : queue[r] = 0 /\ OnlyFirst(r)
  /\ \A p \in Procs : proc[p].at = "rt_send" => proc[p].req \notin Batch

\* A step neither queues a batch row, nor sends one by itself, nor makes a
\* transfer of it but the first.
Sparing ==
  /\ \A r \in Batch : queue[r] = 0 => queue'[r] = 0
  /\ \A p \in Procs : proc'[p].at = "rt_send" =>
       \/ proc[p].at = "rt_send" /\ proc'[p].req = proc[p].req
       \/ proc'[p].req \notin Batch
  /\ \A r \in Batch, i \in TransferIds :
       transfers'[r][i] # "none" => transfers[r][i] # "none" \/ i = 1

LEMMA SparingKeeps == ASSUME BatchInv, TypeOK', Sparing PROVE BatchInv'
  BY DEF BatchInv, Sparing, OnlyFirst

LEMMA GoesSparing ==
  ASSUME BatchInv, NEW p \in Procs, NEW job, Goes(p, job), job.at # "rt_send",
         UNCHANGED <<queue, transfers>>
  PROVE  Sparing
  BY DEF BatchInv, TypeOK, Goes, Sparing

LEMMA MovesSparing ==
  ASSUME BatchInv, NEW p \in Procs, NEW at, Moves(p, at), at # "rt_send",
         \A r \in Batch : queue'[r] = queue[r], UNCHANGED transfers
  PROVE  Sparing
  BY DEF BatchInv, TypeOK, Moves, Jobs, Sparing

LEMMA IdleElsewhere == NoJob.at # "rt_send"
  BY DEF NoJob, Job

LEMMA WebSparing == ASSUME BatchInv, NEW p \in Procs, WebNext(p) PROVE Sparing
<1>1. ASSUME NEW r \in Requests, WalletBegin(p, r) PROVE Sparing
  BY <1>1, GoesSparing DEF WalletBegin, Job
<1>2. ASSUME NEW r \in Requests, DriverPost(p, r) PROVE Sparing
  BY <1>2 DEF DriverPost, MakesTransfer, Goes, Job, BatchInv, TypeOK, DataOK, Sparing
<1>3. CASE WalletCreate(p)
  BY <1>3, GoesSparing, MovesSparing, IdleElsewhere DEF WalletCreate, Ends
<1>4. CASE WalletEnqueue(p)
  <2>1. proc[p].req \in Requests
    BY <1>4 DEF WalletEnqueue, BatchInv, TypeOK, JobOK
  <2>2. \A r \in Batch : queue'[r] = queue[r]
    BY <1>4, <2>1 DEF WalletEnqueue, Enqueue, BatchInv, TypeOK, DataOK
  <2> QED BY <1>4, <2>2, MovesSparing DEF WalletEnqueue
<1>5. CASE WalletSave(p)
  BY <1>5, GoesSparing, IdleElsewhere DEF WalletSave, Ends
<1>6. CASE DriverCommit(p)
  BY <1>6, GoesSparing, IdleElsewhere DEF DriverCommit, Ends
<1> QED BY <1>1, <1>2, <1>3, <1>4, <1>5, <1>6 DEF WebNext

LEMMA ExecutorSparing == ASSUME BatchInv, NEW p \in Procs, ExecutorNext(p) PROVE Sparing
<1>1. ASSUME NEW r \in Requests, RealtimeLoad(p, r) PROVE Sparing
  <2>1. r \notin Batch
    BY <1>1 DEF RealtimeLoad, BatchInv
  <2> QED BY <1>1, <2>1 DEF RealtimeLoad, Goes, Job, BatchInv, TypeOK, DataOK, Sparing
<1>2. CASE RealtimeSkip(p) \/ RealtimeRefused(p) \/ RealtimeCommit(p)
  BY <1>2, GoesSparing, IdleElsewhere
     DEF RealtimeSkip, RealtimeRefused, RealtimeCommit, Ends
<1>3. CASE RealtimeSend(p)
  <2>1. proc[p].req \in Requests \ Batch
    BY <1>3 DEF RealtimeSend, BatchInv, TypeOK, JobOK
  <2> QED BY <1>3, <2>1 DEF RealtimeSend, MakesTransfer, Goes, Job, BatchInv, TypeOK,
             DataOK, Sparing
<1>4. CASE BatchSend(p)
  BY <1>4 DEF BatchSend, BatchTransfer, BatchJob, Goes, Job, BatchInv, TypeOK, DataOK,
     Sparing, TransferIds
<1>5. CASE BatchCommit(p)
  BY <1>5, GoesSparing, IdleElsewhere DEF BatchCommit, Ends
<1> QED BY <1>1, <1>2, <1>3, <1>4, <1>5 DEF ExecutorNext

LEMMA WebhookSparing == ASSUME BatchInv, NEW p \in Procs, WebhookNext(p) PROVE Sparing
<1>1. ASSUME UNCHANGED <<proc, queue, transfers>> PROVE Sparing
  BY <1>1 DEF Sparing
<1>2. ASSUME NEW e \in Event, WebhookReceive(p, e) PROVE Sparing
  BY <1>1, <1>2, GoesSparing DEF WebhookReceive, Job
<1>3. CASE WebhookFind(p)
  <2>1. \A r \in Batch : queue'[r] = queue[r]
    BY <1>3 DEF WebhookFind
  <2> QED BY <1>3, <2>1, GoesSparing, MovesSparing DEF WebhookFind, Job
<1>4. CASE WebhookMark(p)
  <2>1. \A r \in Batch : queue'[r] = queue[r]
    BY <1>4 DEF WebhookMark
  <2> QED BY <1>4, <2>1, MovesSparing DEF WebhookMark
<1>5. CASE WebhookDone(p) \/ WebhookError(p)
  BY <1>5, GoesSparing, IdleElsewhere DEF WebhookDone, WebhookError, Ends
<1> QED BY <1>2, <1>3, <1>4, <1>5 DEF WebhookNext

LEMMA NextSparing == ASSUME BatchInv, [Next]_vars PROVE Sparing
<1>1. ASSUME UNCHANGED <<proc, queue, transfers>> PROVE Sparing
  BY <1>1 DEF Sparing
<1>2. ASSUME NEW p \in Procs, ReconcileNext(p) \/ Crash(p) PROVE Sparing
  BY <1>2, GoesSparing, IdleElsewhere
     DEF ReconcileNext, ReconcilePick, ReconcileFetch, ReconcileMark, Crash, Ends, Job
<1>3. ASSUME NEW r \in Requests, RetryPending(r) PROVE Sparing
  BY <1>3 DEF RetryPending, Enqueue, BatchInv, TypeOK, DataOK, Sparing
<1>4. ASSUME NEW r \in Requests, NEW i \in TransferIds, Settle(r, i) \/ Reverse(r, i)
      PROVE Sparing
  <2>1. transfers[r][i] # "none" /\ UNCHANGED <<proc, queue>>
    BY <1>4 DEF Settle, Reverse
  <2>2. PICK s \in TransferStatus : transfers' = [transfers EXCEPT ![r][i] = s]
    BY <1>4 DEF Settle, Reverse, TransferStatus
  <2> QED BY <2>1, <2>2 DEF BatchInv, TypeOK, DataOK, Sparing
<1>5. CASE UNCHANGED vars
  BY <1>1, <1>5 DEF vars
<1> QED BY <1>2, <1>3, <1>4, <1>5, WebSparing, ExecutorSparing, WebhookSparing
        DEF Next, PaystackNext

\* A batch withdrawal is sent at most once, for any number of executors,
\* deaths, replays and retries (execute_batch).
THEOREM BatchIsSentOnce == Spec => []BatchSentOnce
<1>1. Init => BatchInv
  <2> SUFFICES ASSUME Init PROVE BatchInv
    OBVIOUS
  <2>1. TypeOK
    BY TypeInit
  <2> QED BY <2>1 DEF Init, BatchInv, OnlyFirst, NoJob, Job
<1>2. BatchInv /\ [Next]_vars => BatchInv'
  BY NextSparing, SparingKeeps, TypeNext DEF BatchInv
<1>3. BatchInv => BatchSentOnce
  <2> SUFFICES ASSUME BatchInv, NEW r \in Batch PROVE Cardinality(Sent(r)) <= 1
    BY DEF BatchSentOnce
  <2>1. Sent(r) \subseteq {1}
    BY DEF BatchInv, OnlyFirst, Sent
  <2>2. Sent(r) = {} \/ Sent(r) = {1}
    BY <2>1
  <2> QED BY <2>2, FS_EmptySet, FS_Singleton
<1> QED BY <1>1, <1>2, <1>3, PTL DEF Spec

-----------------------------------------------------------------------------
(* The refinement.  It needs that nobody dies, that Paystack waits for its *)
(* answer and does not repeat itself, that the reconciler does not ask for *)
(* what an event is about to say, and that no wallet request is realtime,  *)
(* whose second transfer may fail after the first.                         *)

Calm == /\ ~Overlapping /\ ~Reconciling /\ MaxCrashes = 0
        /\ Requests = Batch \union DriverApp

Handling == {"wh_find", "wh_mark", "wh_done"}
Of(job) == [req |-> job.req, t |-> job.t, news |-> job.news]
Returned(r, news) == [req |-> r, t |-> 1, news |-> news]
Absent(r) == row[r].status = "absent"

\* What holds of the job of p.  One who is about to commit a driver's request
\* has locked its user, so that the balance it saw is still there; one who
\* handles an event handles one that was not answered.
JobFits(p) ==
  /\ proc[p].at \notin {"rt_send", "rt_commit", "rc_fetch", "rc_mark"}
  /\ proc[p].at \in {"w_create", "w_enqueue", "w_save"} => proc[p].req \in Batch
  /\ proc[p].at = "d_commit" =>
       /\ proc[p].req \in DriverApp /\ Absent(proc[p].req)
       /\ userLock[Owner[proc[p].req]] = p /\ ledger[Owner[proc[p].req]] >= Amount
  /\ proc[p].at = "wh_mark" => ~Absent(proc[p].req)
  /\ proc[p].at \in Handling =>
       /\ proc[p].t = 1 /\ Of(proc[p]) \notin acked
       /\ proc[p].news # "success" => transfers[proc[p].req][1] = proc[p].news

Apart ==
  \A p, q \in Procs :
    p # q /\ proc[p].at \in Handling /\ proc[q].at \in Handling => Of(proc[p]) # Of(proc[q])

RowFits(r) ==
  /\ queue[r] = 0
  /\ Absent(r) => row[r].transfer = 0
  /\ row[r].status = "pending_batch" => r \in Batch
  /\ rowLock[r] # None => ~Absent(r)

\* A driver's transfer is made by the one who will write the row.
SentFits(r) ==
  /\ OnlyFirst(r)
  /\ r \in DriverApp /\ transfers[r][1] # "none" /\ Absent(r) =>
       \E p \in Procs : proc[p].at = "d_commit" /\ proc[p].req = r

\* A hold was released for an event that is answered or about to be.
ReturnFits(r) ==
  released[r] > 0 =>
    \E news \in BroughtBack :
      /\ transfers[r][1] = news
      /\ \/ Returned(r, news) \in acked
         \/ \E p \in Procs : proc[p].at = "wh_done" /\ Of(proc[p]) = Returned(r, news)

PromiseInv ==
  /\ TypeOK
  /\ \A p \in Procs : JobFits(p)
  /\ Apart
  /\ \A r \in Requests : RowFits(r) /\ SentFits(r) /\ ReturnFits(r)

Held == {r \in Requests : row[r].status # "absent"}
GivenBack == {r \in Requests : released[r] > 0}
Shown == <<ledger, Held, GivenBack>>
Kept == PromiseInv' /\ [Promise!Next]_Shown

\* What a step of p leaves the others.
Leaves(p) ==
  /\ \A q \in Procs \ {p} : proc'[q] = proc[q]
  /\ \A r \in Requests : ~Absent(r) => ~Absent(r)'
  /\ \A u \in Users : userLock[u] \notin {None, p} =>
       userLock'[u] = userLock[u] /\ ledger'[u] >= ledger[u]
  /\ \A r \in DriverApp : Absent(r) /\ userLock[Owner[r]] \notin {None, p} => Absent(r)'
  /\ \A r \in Requests, i \in TransferIds :
       transfers[r][i] \in BroughtBack => transfers'[r][i] = transfers[r][i]
  /\ acked \subseteq acked'
  /\ \A q \in Procs \ {p} :
       proc[q].at \in Handling /\ Of(proc[q]) \in acked' => Of(proc[q]) \in acked

LEMMA OthersFit ==
  ASSUME PromiseInv, TypeOK', NEW p, Leaves(p), NEW q \in Procs \ {p}
  PROVE  JobFits(q)'
<1>1. proc'[q] = proc[q] /\ JobFits(q) /\ JobOK(proc[q]) /\ proc[q] \in Jobs
  BY DEF Leaves, PromiseInv, TypeOK
<1>2. 1 \in TransferIds
  BY DEF TransferIds
<1>3. CASE proc[q].at = "d_commit"
  <2>1. proc[q].req \in DriverApp /\ Owner[proc[q].req] \in Users
    BY <1>1, <1>3 DEF JobFits
  <2>2. userLock[Owner[proc[q].req]] \notin {None, p}
    BY <1>1, <1>3 DEF JobFits
  <2> DEFINE u == Owner[proc[q].req]
  <2>3. ledger[u] \in Int /\ ledger'[u] \in Int
    BY <2>1 DEF PromiseInv, TypeOK, DataOK
  <2>4. ledger[u] >= Amount /\ ledger'[u] >= ledger[u]
    BY <1>1, <1>3, <2>1, <2>2 DEF JobFits, Leaves
  <2>5. ledger'[u] >= Amount
    BY <2>3, <2>4
  <2>6. userLock'[u] = q /\ Absent(proc[q].req)'
    BY <1>1, <1>3, <2>1, <2>2 DEF JobFits, Leaves
  <2> QED BY <1>1, <1>3, <2>1, <2>5, <2>6 DEF JobFits, Handling
<1>4. CASE proc[q].at \in Handling
  <2>1. proc[q].req \in Requests /\ proc[q].news \in News
    BY <1>1, <1>4 DEF JobOK, Handling, Told
  <2>2. proc[q].news # "success" => proc[q].news \in BroughtBack
    BY <2>1 DEF News, BroughtBack
  <2> QED BY <1>1, <1>2, <1>4, <2>1, <2>2 DEF JobFits, Leaves, Handling, Of
<1>5. CASE proc[q].at \notin Handling \union {"d_commit"}
  BY <1>1, <1>5 DEF JobFits, Handling
<1> QED BY <1>3, <1>4, <1>5

\* The event p goes on or starts to handle is not another's.
OwnEvent(p) ==
  proc'[p].at \in Handling =>
    \/ proc[p].at \in Handling /\ Of(proc'[p]) = Of(proc[p])
    \/ \A q \in Procs \ {p} : proc[q].at \in Handling => Of(proc[q]) # Of(proc'[p])

LEMMA ApartKept ==
  ASSUME PromiseInv, NEW p, Leaves(p), p \in Procs => OwnEvent(p)
  PROVE  Apart'
<1> SUFFICES ASSUME NEW q \in Procs, NEW s \in Procs, q # s, proc'[q].at \in Handling,
                    proc'[s].at \in Handling
             PROVE  Of(proc'[q]) # Of(proc'[s])
  BY DEF Apart, Of
<1>1. ASSUME NEW v \in Procs \ {p} PROVE proc'[v] = proc[v]
  BY <1>1 DEF Leaves
<1>2. CASE q # p /\ s # p
  BY <1>1, <1>2 DEF PromiseInv, Apart
<1>3. CASE q = p
  BY <1>1, <1>3 DEF PromiseInv, Apart, OwnEvent
<1>4. CASE s = p
  BY <1>1, <1>4 DEF PromiseInv, Apart, OwnEvent
<1> QED BY <1>2, <1>3, <1>4

LEMMA SentKept ==
  ASSUME PromiseInv, NEW p, Leaves(p),
         \A r \in Requests, i \in TransferIds :
           transfers'[r][i] # "none" => transfers[r][i] # "none",
         p \in Procs /\ proc[p].at = "d_commit" =>
           proc'[p] = proc[p] \/ row'[proc[p].req].status # "absent"
  PROVE  \A r \in Requests : SentFits(r)'
<1> SUFFICES ASSUME NEW r \in Requests PROVE SentFits(r)'
  OBVIOUS
<1>1. 1 \in TransferIds
  BY DEF TransferIds
<1>2. OnlyFirst(r)'
  BY DEF PromiseInv, SentFits, OnlyFirst
<1>3. ASSUME r \in DriverApp, transfers'[r][1] # "none", Absent(r)'
      PROVE  \E q \in Procs : proc'[q].at = "d_commit" /\ proc'[q].req = r
  <2>1. transfers[r][1] # "none" /\ Absent(r)
    BY <1>1, <1>3 DEF Leaves
  <2>2. PICK q \in Procs : proc[q].at = "d_commit" /\ proc[q].req = r
    BY <1>3, <2>1 DEF PromiseInv, SentFits
  <2>3. proc'[q] = proc[q]
    BY <1>3, <2>2 DEF Leaves, Absent
  <2> QED BY <2>2, <2>3
<1> QED BY <1>2, <1>3 DEF SentFits

LEMMA ReturnKept ==
  ASSUME PromiseInv, NEW p, Leaves(p), NEW r \in Requests, released'[r] = released[r],
         p \in Procs /\ proc[p].at = "wh_done" =>
           proc'[p] = proc[p] \/ Of(proc[p]) \in acked'
  PROVE  ReturnFits(r)'
<1> SUFFICES ASSUME released[r] > 0 PROVE ReturnFits(r)'
  BY DEF ReturnFits
<1>1. PICK news \in BroughtBack :
        /\ transfers[r][1] = news
        /\ \/ Returned(r, news) \in acked
           \/ \E q \in Procs : proc[q].at = "wh_done" /\ Of(proc[q]) = Returned(r, news)
  BY DEF PromiseInv, ReturnFits
<1>2. transfers'[r][1] = news
  BY <1>1 DEF Leaves, TransferIds
<1>3. CASE Returned(r, news) \in acked
  BY <1>1, <1>2, <1>3 DEF Leaves, ReturnFits, Returned
<1>4. ASSUME NEW q \in Procs, proc[q].at = "wh_done", Of(proc[q]) = Returned(r, news)
      PROVE  ReturnFits(r)'
  <2>1. CASE proc'[q] = proc[q]
    BY <1>1, <1>2, <1>4, <2>1 DEF ReturnFits, Returned, Of
  <2>2. CASE proc'[q] # proc[q]
    <3>1. Returned(r, news) \in acked'
      BY <1>4, <2>2 DEF Leaves
    <3> QED BY <1>1, <1>2, <3>1 DEF ReturnFits, Returned
  <2> QED BY <2>1, <2>2
<1> QED BY <1>1, <1>3, <1>4

LEMMA RowsSame ==
  ASSUME PromiseInv, UNCHANGED <<row, queue, rowLock>>
  PROVE  \A r \in Requests : RowFits(r)'
  BY DEF PromiseInv, RowFits, Absent

LEMMA Stutters ==
  ASSUME UNCHANGED <<ledger, released>>, \A r \in Requests : Absent(r)' <=> Absent(r)
  PROVE  UNCHANGED Shown
  BY DEF Shown, Held, GivenBack, Absent

LEMMA Assembled ==
  ASSUME PromiseInv, TypeOK', NEW p, Leaves(p),
         p \in Procs => JobFits(p)' /\ OwnEvent(p),
         p \in Procs /\ proc[p].at = "d_commit" =>
           proc'[p] = proc[p] \/ row'[proc[p].req].status # "absent",
         p \in Procs /\ proc[p].at = "wh_done" =>
           proc'[p] = proc[p] \/ Of(proc[p]) \in acked',
         \A r \in Requests, i \in TransferIds :
           transfers'[r][i] # "none" => transfers[r][i] # "none",
         \A r \in Requests : RowFits(r)',
         UNCHANGED <<ledger, released>>,
         \A r \in Requests : Absent(r)' <=> Absent(r)
  PROVE  Kept
<1>1. \A q \in Procs : JobFits(q)'
  BY OthersFit
<1>2. Apart'
  BY ApartKept
<1>3. \A r \in Requests : SentFits(r)'
  BY SentKept
<1>4. \A r \in Requests : ReturnFits(r)'
  BY ReturnKept
<1> QED BY <1>1, <1>2, <1>3, <1>4, Stutters DEF Kept, PromiseInv

\* Steps that write no table but those of the keys and events.
LEMMA OnlyJobs ==
  ASSUME PromiseInv, TypeOK', NEW p \in Procs,
         \A q \in Procs \ {p} : proc'[q] = proc[q],
         UNCHANGED <<row, ledger, released, queue, transfers, rowLock, userLock>>,
         acked \subseteq acked',
         \A q \in Procs \ {p} :
           proc[q].at \in Handling /\ Of(proc[q]) \in acked' => Of(proc[q]) \in acked,
         JobFits(p)', OwnEvent(p), proc[p].at # "d_commit",
         proc[p].at = "wh_done" => Of(proc[p]) \in acked'
  PROVE  Kept
<1>1. \A u \in Users : ledger[u] \in Int
  BY DEF PromiseInv, TypeOK, DataOK
<1>2. Leaves(p)
  BY <1>1 DEF Leaves, Absent
<1>3. \A r \in Requests : Absent(r)' <=> Absent(r)
  BY DEF Absent
<1> QED BY <1>2, <1>3, RowsSame, Assembled

LEMMA IdleFits ==
  ASSUME PromiseInv, NEW p \in Procs, Ends(p)
  PROVE  JobFits(p)' /\ OwnEvent(p) /\ \A q \in Procs \ {p} : proc'[q] = proc[q]
  BY DEF PromiseInv, TypeOK, Ends, Goes, NoJob, Job, JobFits, OwnEvent, Handling

LEMMA WalletKept ==
  ASSUME PromiseInv, Calm, TypeOK', NEW p \in Procs,
         \/ \E r \in Requests : WalletBegin(p, r)
         \/ WalletEnqueue(p) \/ WalletSave(p)
  PROVE  Kept
<1>1. ASSUME NEW r \in Requests, WalletBegin(p, r) PROVE Kept
  <2>1. proc'[p] = Job("w_create", r, "absent", 0, "none") /\ r \in Batch
    BY <1>1 DEF WalletBegin, Goes, PromiseInv, TypeOK, Calm
  <2>2. JobFits(p)' /\ OwnEvent(p)
    BY <2>1 DEF Job, JobFits, OwnEvent, Handling
  <2> QED BY <1>1, <2>2, OnlyJobs DEF WalletBegin, Idle, Goes, PromiseInv, TypeOK, payments,
             locks, webhooks
<1>2. CASE WalletEnqueue(p)
  <2>1. proc[p].req \in Batch
    BY <1>2 DEF WalletEnqueue, PromiseInv, JobFits
  <2>2. proc'[p] = [proc[p] EXCEPT !.at = "w_save"] /\ proc[p] \in Jobs
    BY <1>2 DEF WalletEnqueue, Moves, PromiseInv, TypeOK
  <2>3. JobFits(p)' /\ OwnEvent(p)
    BY <2>1, <2>2 DEF Jobs, JobFits, OwnEvent, Handling
  <2> QED BY <1>2, <2>1, <2>3, OnlyJobs DEF WalletEnqueue, Moves, PromiseInv, TypeOK,
             payments, locks, webhooks
<1>3. CASE WalletSave(p)
  BY <1>3, IdleFits, OnlyJobs DEF WalletSave, payments, locks, webhooks
<1> QED BY <1>1, <1>2, <1>3

\* Who is found eligible has the amount.
LEMMA EligibleHas ==
  ASSUME TypeOK, NEW r \in Requests, Eligible(r)
  PROVE  ledger[Owner[r]] >= Amount
<1>1. Cardinality(Pending(Owner[r])) \in Nat
  <2>1. IsFiniteSet(Pending(Owner[r]))
    BY FS_Subset DEF Pending
  <2> QED BY <2>1, FS_CardinalityType
<1>2. PendingTotal(Owner[r]) \in Int /\ PendingTotal(Owner[r]) >= 0
  BY <1>1 DEF PendingTotal
<1>3. ledger[Owner[r]] - PendingTotal(Owner[r]) >= Amount
  BY DEF Eligible
<1>4. ledger[Owner[r]] \in Int
  BY DEF TypeOK, DataOK
<1> QED BY <1>2, <1>3, <1>4

LEMMA HoldKept ==
  ASSUME PromiseInv, Calm, TypeOK', NEW p \in Procs, WalletCreate(p)
  PROVE  Kept
<1> DEFINE r == proc[p].req
<1>1. r \in Batch /\ r \in Requests /\ userLock[Owner[r]] = None
  BY DEF WalletCreate, UserUnlocked, PromiseInv, JobFits
<1>2. JobFits(p)' /\ OwnEvent(p) /\ \A q \in Procs \ {p} : proc'[q] = proc[q]
  <2>1. CASE Ends(p)
    BY <2>1, IdleFits
  <2>2. CASE Moves(p, "w_enqueue")
    <3>1. proc'[p] = [proc[p] EXCEPT !.at = "w_enqueue"] /\ proc[p] \in Jobs
      BY <2>2 DEF Moves, PromiseInv, TypeOK
    <3>2. JobFits(p)' /\ OwnEvent(p)
      BY <1>1, <3>1 DEF Jobs, JobFits, OwnEvent, Handling
    <3> QED BY <2>2, <3>2 DEF Moves, PromiseInv, TypeOK
  <2> QED BY <2>1, <2>2 DEF WalletCreate
<1>3. CASE UNCHANGED <<row, ledger>>
  BY <1>2, <1>3, OnlyJobs DEF WalletCreate, locks, webhooks
<1>4. CASE /\ Absent(r) /\ Eligible(r) /\ Hold(r)
           /\ row' = [row EXCEPT ![r].status = "pending_batch"]
  <2>1. \A u \in Users : ledger[u] \in Int
    BY DEF PromiseInv, TypeOK, DataOK
  <2>2. \A s \in Requests : s # r => row'[s] = row[s]
    BY <1>4 DEF PromiseInv, TypeOK, DataOK
  <2>3. row'[r].status = "pending_batch"
    BY <1>1, <1>4 DEF PromiseInv, TypeOK, DataOK
  <2>4. \A u \in Users : u # Owner[r] => ledger'[u] = ledger[u]
    BY <1>4 DEF Hold, PromiseInv, TypeOK, DataOK
  <2>5. UNCHANGED <<released, queue, transfers, rowLock, userLock, acked>>
    BY DEF WalletCreate, locks, webhooks
  <2>6. Leaves(p)
    BY <1>1, <1>2, <2>1, <2>2, <2>3, <2>4, <2>5 DEF Leaves, Absent
  <2>7. (\A q \in Procs : JobFits(q)') /\ Apart'
    BY <1>2, <2>6, OthersFit, ApartKept
  <2>8. \A s \in Requests : RowFits(s)'
    BY <1>1, <2>2, <2>3, <2>5 DEF PromiseInv, RowFits, Absent
  <2>9. \A s \in Requests : SentFits(s)' /\ ReturnFits(s)'
    BY <2>5, <2>6, SentKept, ReturnKept DEF WalletCreate
  <2>10. Promise!Hold(r)
    <3>4. ledger[Owner[r]] >= Amount
      BY <1>1, <1>4, EligibleHas DEF PromiseInv
    <3>5. Held' = Held \union {r} /\ r \notin Held
      BY <1>1, <1>4, <2>2, <2>3 DEF Held, Absent
    <3>6. ledger' = [ledger EXCEPT ![Owner[r]] = @ - Amount]
      BY <1>4 DEF Hold
    <3>7. UNCHANGED GivenBack
      BY <2>5 DEF GivenBack
    <3> QED BY <3>4, <3>5, <3>6, <3>7 DEF Promise!Hold, Held, GivenBack
  <2>11. PromiseInv'
    BY <2>7, <2>8, <2>9 DEF PromiseInv
  <2>12. Promise!Next
    BY <1>1, <2>10 DEF Promise!Next, Promise!Hold
  <2> QED BY <2>11, <2>12 DEF Kept
<1> QED BY <1>3, <1>4 DEF WalletCreate, Absent

LEMMA PostKept ==
  ASSUME PromiseInv, Calm, TypeOK', NEW p \in Procs, NEW r \in Requests, DriverPost(p, r)
  PROVE  Kept
<1>1. PICK i \in TransferIds :
        MakesTransfer(r, i) /\ Goes(p, Job("d_commit", r, "pending_batch", i, "none"))
  BY DEF DriverPost
<1>2. r \in DriverApp /\ Absent(r) /\ userLock[Owner[r]] = None /\ Owner[r] \in Users
  BY DEF DriverPost, UserUnlocked, Absent
<1>3. ASSUME NEW q \in Procs PROVE ~(proc[q].at = "d_commit" /\ proc[q].req = r)
  BY <1>2 DEF PromiseInv, JobFits
<1>4. i = 1
  <2>1. transfers[r][1] = "none"
    BY <1>2, <1>3 DEF PromiseInv, SentFits
  <2>2. i # 1 => 1 \in 1 .. (i - 1)
    BY DEF TransferIds
  <2> QED BY <1>1, <2>1, <2>2 DEF MakesTransfer, NextTransfer
<1>5. /\ proc'[p] = Job("d_commit", r, "pending_batch", i, "none")
      /\ \A q \in Procs \ {p} : proc'[q] = proc[q]
  BY <1>1 DEF Goes, PromiseInv, TypeOK
<1>6. UNCHANGED <<row, ledger, released, queue, rowLock, acked>>
  BY DEF DriverPost, payments, webhooks
<1>7. /\ \A s \in Requests \ {r} : transfers'[s] = transfers[s]
      /\ \A j \in TransferIds \ {1} : transfers'[r][j] = transfers[r][j]
      /\ transfers[r][1] = "none"
  BY <1>1, <1>4 DEF MakesTransfer, NextTransfer, PromiseInv, TypeOK, DataOK
<1>8. userLock'[Owner[r]] = p /\ \A u \in Users \ {Owner[r]} : userLock'[u] = userLock[u]
  BY <1>2 DEF DriverPost, PromiseInv, TypeOK, DataOK
<1>9. \A u \in Users : ledger[u] \in Int
  BY DEF PromiseInv, TypeOK, DataOK
<1>10. Leaves(p)
  <2>1. \A s \in Requests, j \in TransferIds :
          transfers[s][j] \in BroughtBack => transfers'[s][j] = transfers[s][j]
    BY <1>7 DEF BroughtBack
  <2>2. \A u \in Users : userLock[u] \notin {None, p} =>
          userLock'[u] = userLock[u] /\ ledger'[u] >= ledger[u]
    BY <1>2, <1>6, <1>8, <1>9
  <2> QED BY <1>5, <1>6, <2>1, <2>2 DEF Leaves, Absent
<1>11. JobFits(p)' /\ OwnEvent(p)
  <2>1. ledger[Owner[r]] >= Amount
    BY EligibleHas DEF DriverPost, PromiseInv
  <2> QED BY <1>2, <1>5, <1>6, <1>8, <2>1 DEF Job, JobFits, OwnEvent, Handling, Absent
<1>12. (\A q \in Procs : JobFits(q)') /\ Apart'
  BY <1>10, <1>11, OthersFit, ApartKept
<1>13. \A s \in Requests : RowFits(s)'
  BY <1>6, RowsSame
<1>14. ASSUME NEW s \in Requests PROVE SentFits(s)'
  <2>1. OnlyFirst(s)'
    BY <1>7 DEF OnlyFirst, PromiseInv, SentFits
  <2>2. CASE s = r
    BY <1>5, <2>1, <2>2 DEF SentFits, Job
  <2>3. CASE s # r
    <3>1. ASSUME NEW q \in Procs, proc[q].at = "d_commit" PROVE proc'[q] = proc[q]
      BY <1>5, <3>1 DEF DriverPost, Idle
    <3> QED BY <1>6, <1>7, <2>1, <2>3, <3>1 DEF PromiseInv, SentFits, Absent
  <2> QED BY <2>2, <2>3
<1>15. \A s \in Requests : ReturnFits(s)'
  BY <1>6, <1>10, ReturnKept DEF DriverPost, Idle
<1>16. UNCHANGED Shown
  BY <1>6, Stutters DEF Absent
<1> QED BY <1>12, <1>13, <1>14, <1>15, <1>16 DEF Kept, PromiseInv

LEMMA CommitKept ==
  ASSUME PromiseInv, Calm, TypeOK', NEW p \in Procs, DriverCommit(p)
  PROVE  Kept
<1> DEFINE r == proc[p].req
<1>1. /\ r \in DriverApp /\ r \in Requests /\ Owner[r] \in Users /\ Absent(r)
      /\ userLock[Owner[r]] = p /\ ledger[Owner[r]] >= Amount
  BY DEF DriverCommit, PromiseInv, JobFits
<1>2. JobFits(p)' /\ OwnEvent(p) /\ \A q \in Procs \ {p} : proc'[q] = proc[q]
  BY IdleFits DEF DriverCommit
<1>3. row'[r].status = "processing" /\ \A s \in Requests : s # r => row'[s] = row[s]
  BY <1>1 DEF DriverCommit, PromiseInv, TypeOK, DataOK
<1>4. \A u \in Users : ledger[u] \in Int
  BY DEF PromiseInv, TypeOK, DataOK
<1>5. \A u \in Users : u # Owner[r] => ledger'[u] = ledger[u] /\ userLock'[u] = userLock[u]
  BY <1>1 DEF DriverCommit, Hold, PromiseInv, TypeOK, DataOK
<1>6. UNCHANGED <<released, queue, transfers, rowLock, acked>>
  BY DEF DriverCommit, webhooks
<1>7. Leaves(p)
  BY <1>1, <1>2, <1>3, <1>4, <1>5, <1>6 DEF Leaves, Absent
<1>8. (\A q \in Procs : JobFits(q)') /\ Apart'
  BY <1>2, <1>7, OthersFit, ApartKept
<1>9. \A s \in Requests : RowFits(s)'
  BY <1>3, <1>6 DEF PromiseInv, RowFits, Absent
<1>10. \A s \in Requests : SentFits(s)' /\ ReturnFits(s)'
  BY <1>3, <1>6, <1>7, SentKept, ReturnKept DEF DriverCommit
<1>11. PromiseInv'
  BY <1>8, <1>9, <1>10 DEF PromiseInv
<1>12. Promise!Hold(r)
  <2>1. Held' = Held \union {r} /\ r \notin Held
    BY <1>1, <1>3 DEF Held, Absent
  <2>2. ledger' = [ledger EXCEPT ![Owner[r]] = @ - Amount] /\ UNCHANGED GivenBack
    BY <1>6 DEF DriverCommit, Hold, GivenBack
  <2> QED BY <1>1, <2>1, <2>2 DEF Promise!Hold, Held, GivenBack
<1>13. Promise!Next
  BY <1>1, <1>12 DEF Promise!Next, Promise!Hold
<1> QED BY <1>11, <1>13 DEF Kept

LEMMA BatchKept ==
  ASSUME PromiseInv, Calm, TypeOK', NEW p \in Procs, BatchSend(p) \/ BatchCommit(p)
  PROVE  Kept
<1>1. \A u \in Users : ledger[u] \in Int
  BY DEF PromiseInv, TypeOK, DataOK
<1>2. CASE BatchSend(p)
  <2>1. proc'[p] = BatchJob /\ \A q \in Procs \ {p} : proc'[q] = proc[q]
    BY <1>2 DEF BatchSend, Goes, PromiseInv, TypeOK
  <2>2. UNCHANGED <<row, ledger, released, queue, userLock, acked>>
    BY <1>2 DEF BatchSend, payments, webhooks
  <2>3. \A r \in Requests, i \in TransferIds :
          \/ transfers'[r][i] = transfers[r][i]
          \/ r \in Batch /\ i = 1 /\ transfers[r][i] = "none"
    BY <1>2 DEF BatchSend, InBatch, BatchTransfer, PromiseInv, TypeOK, DataOK, TransferIds
  <2>4. \A r \in Requests : rowLock'[r] = rowLock[r] \/ row[r].status = "pending_batch"
    BY <1>2 DEF BatchSend, InBatch
  <2>5. Leaves(p)
    BY <1>1, <2>1, <2>2, <2>3 DEF Leaves, Absent, BroughtBack
  <2>6. JobFits(p)' /\ OwnEvent(p)
    BY <2>1 DEF BatchJob, Job, JobFits, OwnEvent, Handling
  <2>7. (\A q \in Procs : JobFits(q)') /\ Apart'
    BY <2>5, <2>6, OthersFit, ApartKept
  <2>8. \A r \in Requests : RowFits(r)'
    BY <2>2, <2>4 DEF PromiseInv, RowFits, Absent
  <2>9. ASSUME NEW r \in Requests PROVE SentFits(r)'
    <3>1. OnlyFirst(r)'
      BY <2>3 DEF OnlyFirst, PromiseInv, SentFits
    <3>2. ASSUME NEW q \in Procs, proc[q].at = "d_commit" PROVE proc'[q] = proc[q]
      BY <1>2, <2>1, <3>2 DEF BatchSend, Idle
    <3>3. r \in DriverApp => transfers'[r][1] = transfers[r][1]
      BY <2>3 DEF TransferIds
    <3> QED BY <2>2, <3>1, <3>2, <3>3 DEF PromiseInv, SentFits, Absent
  <2>10. \A r \in Requests : ReturnFits(r)'
    BY <1>2, <2>2, <2>5, ReturnKept DEF BatchSend, Idle
  <2>11. UNCHANGED Shown
    BY <2>2, Stutters DEF Absent
  <2> QED BY <2>7, <2>8, <2>9, <2>10, <2>11 DEF Kept, PromiseInv
<1>3. CASE BatchCommit(p)
  <2>1. JobFits(p)' /\ OwnEvent(p) /\ \A q \in Procs \ {p} : proc'[q] = proc[q]
    BY <1>3, IdleFits DEF BatchCommit
  <2>2. UNCHANGED <<ledger, released, queue, transfers, userLock, acked>>
    BY <1>3 DEF BatchCommit, webhooks
  <2>3. \A r \in Requests :
          \/ row'[r] = row[r] /\ rowLock'[r] = rowLock[r]
          \/ ~Absent(r) /\ row'[r].status = "processing"
    BY <1>3 DEF BatchCommit, PromiseInv, RowFits
  <2>4. \A r \in Requests : Absent(r)' <=> Absent(r)
    BY <2>3 DEF Absent
  <2>5. Leaves(p)
    BY <1>1, <2>1, <2>2, <2>4 DEF Leaves
  <2>6. \A r \in Requests : RowFits(r)'
    BY <2>2, <2>3 DEF PromiseInv, RowFits, Absent
  <2> QED BY <1>3, <2>1, <2>2, <2>4, <2>5, <2>6, Assembled DEF BatchCommit
<1> QED BY <1>2, <1>3

LEMMA ReceiveKept ==
  ASSUME PromiseInv, Calm, TypeOK', NEW p \in Procs, NEW e \in Event, WebhookReceive(p, e)
  PROVE  Kept
<1>1. e \notin acked /\ HasHappened(e) /\ Idle(p)
  BY DEF WebhookReceive, Calm
<1>2. e = [req |-> e.req, t |-> e.t, news |-> e.news] /\ e.req \in Requests
      /\ e.t \in TransferIds /\ e.news \in News
  BY DEF Event
<1>3. \A q \in Procs : proc[q].at \in Handling => Of(proc[q]) # e
  BY <1>2 DEF WebhookReceive, Calm, BeingHandled, Handling, Of
<1>4. UNCHANGED <<row, ledger, released, queue, transfers, rowLock, userLock>>
  BY DEF WebhookReceive, payments, locks
<1>5. CASE acked' = acked \union {e} /\ UNCHANGED proc
  <2>1. JobFits(p)' /\ OwnEvent(p)
    BY <1>1, <1>5 DEF Idle, JobFits, OwnEvent, Handling
  <2> QED BY <1>1, <1>3, <1>4, <1>5, <2>1, OnlyJobs DEF Idle
<1>6. CASE Goes(p, Job("wh_find", e.req, "absent", e.t, e.news)) /\ UNCHANGED acked
  <2>1. /\ proc'[p] = Job("wh_find", e.req, "absent", e.t, e.news)
        /\ \A q \in Procs \ {p} : proc'[q] = proc[q]
    BY <1>6 DEF Goes, PromiseInv, TypeOK
  <2>2. Of(proc'[p]) = e
    BY <1>2, <2>1 DEF Of, Job
  <2>3. e.t = 1
    BY <1>1, <1>2 DEF HasHappened, News, PromiseInv, SentFits, OnlyFirst
  <2>4. e.news # "success" => transfers[e.req][1] = e.news
    BY <1>1, <2>3 DEF HasHappened
  <2>5. JobFits(p)'
    BY <1>1, <1>4, <1>6, <2>1, <2>2, <2>3, <2>4 DEF JobFits, Job, Handling
  <2>6. OwnEvent(p)
    BY <1>3, <2>2 DEF OwnEvent
  <2> QED BY <1>1, <1>4, <1>6, <2>1, <2>5, <2>6, OnlyJobs DEF Idle
<1> QED BY <1>5, <1>6 DEF WebhookReceive

LEMMA FindKept ==
  ASSUME PromiseInv, Calm, TypeOK', NEW p \in Procs, WebhookFind(p)
  PROVE  Kept
<1> DEFINE r == proc[p].req
<1>1. proc[p].at = "wh_find" /\ r \in Requests /\ JobFits(p) /\ proc[p] \in Jobs
  BY DEF WebhookFind, PromiseInv, TypeOK, JobOK
<1>2. UNCHANGED <<row, ledger, released, queue, transfers, rowLock, userLock, acked>>
  BY DEF WebhookFind, payments, locks, webhooks
<1>3. ASSUME proc'[p].at \in {"wh_mark", "wh_done"}, proc'[p].req = r,
             proc'[p].t = proc[p].t, proc'[p].news = proc[p].news,
             proc'[p].at = "wh_mark" => ~Absent(r),
             \A q \in Procs \ {p} : proc'[q] = proc[q]
      PROVE  Kept
  <2>1. Of(proc'[p]) = Of(proc[p])
    BY <1>3 DEF Of
  <2>2. JobFits(p)'
    BY <1>1, <1>2, <1>3, <2>1 DEF JobFits, Handling, Absent
  <2>3. OwnEvent(p)
    BY <1>1, <2>1 DEF OwnEvent, Handling
  <2> QED BY <1>1, <1>2, <1>3, <2>2, <2>3, OnlyJobs
<1>4. CASE Moves(p, "wh_done")
  BY <1>1, <1>3, <1>4 DEF Moves, PromiseInv, TypeOK, Jobs
<1>5. CASE /\ row[r].transfer = proc[p].t
           /\ Goes(p, Job("wh_mark", r, row[r].status, proc[p].t, proc[p].news))
  <2>1. ~Absent(r)
    BY <1>1, <1>5 DEF JobFits, Handling, PromiseInv, RowFits
  <2> QED BY <1>3, <1>5, <2>1 DEF Goes, Job, PromiseInv, TypeOK
<1> QED BY <1>4, <1>5 DEF WebhookFind

LEMMA MarkKept ==
  ASSUME PromiseInv, Calm, TypeOK', NEW p \in Procs, WebhookMark(p)
  PROVE  Kept
<1> DEFINE r == proc[p].req
<1>1. /\ proc[p].at = "wh_mark" /\ r \in Requests /\ JobFits(p) /\ proc[p] \in Jobs
      /\ proc[p].news \in News /\ ~Absent(r) /\ proc[p].t = 1
  BY DEF WebhookMark, PromiseInv, TypeOK, JobOK, Told, JobFits, Handling
<1>2. UNCHANGED <<queue, transfers, rowLock, userLock, acked>>
  BY DEF WebhookMark, locks, webhooks
<1>3. /\ proc'[p] = [proc[p] EXCEPT !.at = "wh_done"]
      /\ \A q \in Procs \ {p} : proc'[q] = proc[q]
  BY DEF WebhookMark, Moves, PromiseInv, TypeOK
<1>4. Of(proc'[p]) = Of(proc[p]) /\ proc'[p].at = "wh_done"
  BY <1>1, <1>3 DEF Of, Jobs
<1>5. JobFits(p)' /\ OwnEvent(p)
  BY <1>1, <1>2, <1>3, <1>4 DEF JobFits, OwnEvent, Handling, Jobs
<1>6. \A u \in Users : ledger[u] \in Int
  BY DEF PromiseInv, TypeOK, DataOK
<1>7. CASE proc[p].news = "success"
  <2>1. MarkPaid(r, proc[p].saw)
    BY <1>7 DEF WebhookMark, Mark
  <2>2. \A s \in Requests : row'[s] = row[s] \/ (~Absent(s) /\ row'[s].status = "complete")
    BY <1>1, <2>1 DEF MarkPaid, PromiseInv, TypeOK, DataOK
  <2>3. \A s \in Requests : Absent(s)' <=> Absent(s)
    BY <2>2 DEF Absent
  <2>4. UNCHANGED <<ledger, released>>
    BY <2>1 DEF MarkPaid
  <2>5. Leaves(p)
    BY <1>2, <1>3, <1>6, <2>3, <2>4 DEF Leaves
  <2>6. \A s \in Requests : RowFits(s)'
    BY <1>2, <2>2 DEF PromiseInv, RowFits, Absent
  <2> QED BY <1>1, <1>2, <1>5, <2>3, <2>4, <2>5, <2>6, Assembled
<1>8. CASE proc[p].news # "success"
  <2>1. MarkFailed(r)
    BY <1>8 DEF WebhookMark, Mark
  <2>2. transfers[r][1] = proc[p].news /\ Of(proc[p]) \notin acked
    BY <1>1, <1>8 DEF JobFits, Handling
  <2>3. released[r] = 0
    <3> SUFFICES ASSUME released[r] > 0 PROVE FALSE
      BY <1>1 DEF PromiseInv, TypeOK, DataOK
    <3>1. PICK news \in BroughtBack :
            /\ transfers[r][1] = news
            /\ \/ Returned(r, news) \in acked
               \/ \E q \in Procs : proc[q].at = "wh_done" /\ Of(proc[q]) = Returned(r, news)
      BY <1>1 DEF PromiseInv, ReturnFits
    <3>2. Of(proc[p]) = Returned(r, news)
      BY <1>1, <2>2, <3>1 DEF Of, Returned
    <3>3. PICK q \in Procs : proc[q].at = "wh_done" /\ Of(proc[q]) = Of(proc[p])
      BY <2>2, <3>1, <3>2
    <3> QED BY <1>1, <3>3 DEF PromiseInv, Apart, Handling
  <2>4. \A s \in Requests : s # r => row'[s] = row[s] /\ released'[s] = released[s]
    BY <1>1, <2>1 DEF MarkFailed, PromiseInv, TypeOK, DataOK
  <2>5. row'[r].status = "failed" /\ released'[r] = 1
    BY <1>1, <2>1, <2>3 DEF MarkFailed, PromiseInv, TypeOK, DataOK
  <2>6. \A s \in Requests : Absent(s)' <=> Absent(s)
    BY <1>1, <2>4, <2>5 DEF Absent
  <2>7. \A u \in Users : ledger'[u] >= ledger[u]
    BY <1>1, <1>6, <2>1 DEF MarkFailed, PromiseInv, TypeOK, DataOK
  <2>8. Leaves(p)
    BY <1>2, <1>3, <2>6, <2>7 DEF Leaves
  <2>9. (\A q \in Procs : JobFits(q)') /\ Apart'
    BY <1>5, <2>8, OthersFit, ApartKept
  <2>10. \A s \in Requests : RowFits(s)'
    BY <1>1, <1>2, <2>4, <2>5 DEF PromiseInv, RowFits, Absent
  <2>11. \A s \in Requests : SentFits(s)'
    BY <1>1, <1>2, <2>8, SentKept
  <2>12. ASSUME NEW s \in Requests PROVE ReturnFits(s)'
    <3>1. CASE s # r
      BY <1>1, <2>4, <2>8, <3>1, ReturnKept
    <3>2. CASE s = r
      <4>1. proc[p].news \in BroughtBack
        BY <1>1, <1>8 DEF News, BroughtBack
      <4>2. Of(proc'[p]) = Returned(r, proc[p].news) /\ transfers'[r][1] = proc[p].news
        BY <1>1, <1>2, <1>4, <2>2 DEF Of, Returned
      <4> QED BY <1>4, <3>2, <4>1, <4>2 DEF ReturnFits, Of, Returned
    <3> QED BY <3>1, <3>2
  <2>13. PromiseInv'
    BY <2>9, <2>10, <2>11, <2>12 DEF PromiseInv
  <2>14. Promise!Return(r)
    <3>1. r \in Held \ GivenBack /\ GivenBack' = GivenBack \union {r} /\ UNCHANGED Held
      BY <1>1, <2>3, <2>4, <2>5, <2>6 DEF Held, GivenBack, Absent
    <3>2. ledger' = [ledger EXCEPT ![Owner[r]] = @ + Amount]
      BY <2>1 DEF MarkFailed
    <3> QED BY <3>1, <3>2 DEF Promise!Return, Held, GivenBack
  <2>15. Promise!Next
    BY <1>1, <2>14 DEF Promise!Next, Promise!Return
  <2> QED BY <2>13, <2>15 DEF Kept
<1> QED BY <1>7, <1>8

LEMMA DoneKept ==
  ASSUME PromiseInv, Calm, TypeOK', NEW p \in Procs, WebhookDone(p)
  PROVE  Kept
<1>1. proc[p].at = "wh_done" /\ acked' = acked \union {Of(proc[p])}
  BY DEF WebhookDone, Of
<1>2. UNCHANGED <<row, ledger, released, queue, transfers, rowLock, userLock>>
  BY DEF WebhookDone, payments, locks
<1>3. JobFits(p)' /\ OwnEvent(p) /\ \A q \in Procs \ {p} : proc'[q] = proc[q]
  BY IdleFits DEF WebhookDone
<1>4. \A q \in Procs \ {p} : proc[q].at \in Handling => Of(proc[q]) # Of(proc[p])
  BY <1>1 DEF PromiseInv, Apart, Handling
<1> QED BY <1>1, <1>2, <1>3, <1>4, OnlyJobs

\* Nobody is at these steps, and nothing starts them.
LEMMA NotTaken ==
  ASSUME PromiseInv, Calm, NEW p \in Procs
  PROVE  /\ \A r \in Requests : ~RealtimeLoad(p, r) /\ ~RetryPending(r)
         /\ ~RealtimeSkip(p) /\ ~RealtimeSend(p) /\ ~RealtimeRefused(p)
         /\ ~RealtimeCommit(p) /\ ~WebhookError(p) /\ ~ReconcileNext(p) /\ ~Crash(p)
<1>1. crashes = 0
  BY DEF PromiseInv, TypeOK, DataOK, Calm
<1>2. JobFits(p) /\ \A r \in Requests : RowFits(r)
  BY DEF PromiseInv
<1>3. \A r \in Requests : ~RealtimeLoad(p, r)
  BY <1>2 DEF RealtimeLoad, RowFits
<1>4. ~RealtimeSkip(p) /\ ~RealtimeSend(p) /\ ~RealtimeRefused(p) /\ ~RealtimeCommit(p)
  BY <1>2 DEF RealtimeSkip, RealtimeSend, RealtimeRefused, RealtimeCommit, JobFits
<1>5. ~WebhookError(p) /\ ~Crash(p)
  BY <1>1 DEF WebhookError, Crash, Calm
<1>6. ~ReconcileNext(p)
  BY <1>2 DEF ReconcileNext, ReconcilePick, ReconcileFetch, ReconcileMark, JobFits, Calm
<1>7. \A r \in Requests : ~RetryPending(r)
  BY <1>2 DEF RetryPending, RowFits
<1> QED BY <1>3, <1>4, <1>5, <1>6, <1>7

LEMMA ElsewhereKept ==
  ASSUME PromiseInv, Calm, TypeOK', PaystackNext \/ UNCHANGED vars
  PROVE  Kept
<1>1. UNCHANGED <<row, ledger, released, queue, rowLock, userLock, acked, proc>>
  BY DEF PaystackNext, Settle, Reverse, vars, payments, locks, webhooks
<1>2. \A r \in Requests, i \in TransferIds :
        \/ transfers'[r][i] = transfers[r][i]
        \/ transfers[r][i] \in {"pending", "success"}
  <2>1. CASE PaystackNext
    <3>1. PICK r \in Requests, i \in TransferIds : Settle(r, i) \/ Reverse(r, i)
      BY <2>1 DEF PaystackNext
    <3>2. PICK s \in TransferStatus : transfers' = [transfers EXCEPT ![r][i] = s]
      BY <3>1 DEF Settle, Reverse, TransferStatus
    <3>3. transfers[r][i] \in {"pending", "success"}
      BY <3>1 DEF Settle, Reverse
    <3> QED BY <3>2, <3>3 DEF PromiseInv, TypeOK, DataOK
  <2>2. CASE UNCHANGED vars
    BY <2>2 DEF vars
  <2> QED BY <2>1, <2>2
<1>3. \A u \in Users : ledger[u] \in Int
  BY DEF PromiseInv, TypeOK, DataOK
<1>4. Leaves(None)
  BY <1>1, <1>2, <1>3 DEF Leaves, Absent, BroughtBack
<1>5. \A r \in Requests : RowFits(r)' /\ (Absent(r)' <=> Absent(r))
  BY <1>1, RowsSame DEF Absent
<1>6. None \notin Procs
  OBVIOUS
<1> QED BY <1>1, <1>2, <1>4, <1>5, <1>6, Assembled

LEMMA NextKept == ASSUME PromiseInv, Calm, [Next]_vars PROVE Kept
<1>1. TypeOK'
  BY TypeNext DEF PromiseInv
<1>2. CASE PaystackNext \/ UNCHANGED vars
  BY <1>1, <1>2, ElsewhereKept
<1>3. ASSUME NEW p \in Procs, WebNext(p) PROVE Kept
  BY <1>1, <1>3, WalletKept, HoldKept, PostKept, CommitKept DEF WebNext
<1>4. ASSUME NEW p \in Procs, ExecutorNext(p) PROVE Kept
  BY <1>1, <1>4, NotTaken, BatchKept DEF ExecutorNext
<1>5. ASSUME NEW p \in Procs, WebhookNext(p) PROVE Kept
  BY <1>1, <1>5, NotTaken, ReceiveKept, FindKept, MarkKept, DoneKept DEF WebhookNext
<1>6. ASSUME NEW r \in Requests, RetryPending(r) PROVE Kept
  BY <1>6 DEF RetryPending, PromiseInv, RowFits, Calm
<1> QED BY <1>2, <1>3, <1>4, <1>5, <1>6, NotTaken DEF Next

LEMMA InitKept == Init => PromiseInv /\ Promise!Init
<1> SUFFICES ASSUME Init PROVE PromiseInv /\ Promise!Init
  OBVIOUS
<1>1. TypeOK
  BY TypeInit
<1>2. \A p \in Procs : proc[p].at = "idle"
  BY DEF Init, NoJob, Job
<1>3. (\A p \in Procs : JobFits(p)) /\ Apart
  BY <1>2 DEF JobFits, Apart, Handling
<1>4. \A r \in Requests : RowFits(r) /\ SentFits(r) /\ ReturnFits(r)
  BY DEF Init, RowFits, SentFits, ReturnFits, OnlyFirst, Absent, AbsentRow, TransferIds
<1>5. Promise!Init
  BY DEF Promise!Init, Init, AbsentRow
<1> QED BY <1>1, <1>3, <1>4, <1>5 DEF PromiseInv

\* The pipeline implements PayoutPromise, for any number of users, requests and
\* workers: of a user's money each withdrawal takes the amount once and gives it
\* back at most once, and the balance never goes below zero
\* (create_withdrawal_request, mark_withdrawal_failed).
THEOREM PromiseIsKept == ASSUME Calm PROVE Spec => KeepsPromise
<1>1. Init => PromiseInv /\ Promise!Init
  BY InitKept
<1>2. PromiseInv /\ [Next]_vars => PromiseInv' /\ [Promise!Next]_Shown
  BY NextKept DEF Kept
<1>3. [Promise!Next]_Shown <=>
        [Promise!Next]_<<ledger, {r \in Requests : row[r].status # "absent"},
                         {r \in Requests : released[r] > 0}>>
  BY DEF Shown, Held, GivenBack
<1> QED BY <1>1, <1>2, <1>3, PTL DEF Spec, KeepsPromise, Promise!Spec
=============================================================================
