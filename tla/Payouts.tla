------------------------------ MODULE Payouts ------------------------------
(***************************************************************************)
(* The withdrawal pipeline of the payments app: requests arriving at the   *)
(* wallet and driver endpoints, the celery executors that ask Paystack for *)
(* a transfer, Paystack's webhooks, and the stale-withdrawal reconciler.   *)
(*                                                                         *)
(* A withdrawal row is unique per (user, idempotency key), so it is        *)
(* identified with its request.  Every ORM statement outside a             *)
(* transaction.atomic block is a step of its own; a transaction that calls *)
(* Paystack is two steps, with the row lock of its first UPDATE held in    *)
(* between and its writes visible only at commit (READ COMMITTED).         *)
(* The amount is the same for every request: the eligibility rules tell    *)
(* amounts apart only by comparing them with the balance.                  *)
(***************************************************************************)
EXTENDS Integers, FiniteSets

CONSTANTS
  Requests,      \* (user, idempotency key) pairs
  Batch,         \* requests with strategy "batch"; the others are "realtime"
  DriverApp,     \* realtime requests posted to the driver endpoint
  Users, Owner,  \* Owner[r] is the user of request r
  Earned,        \* Earned[u]: sum of u's ledger rows before any withdrawal
  Amount,        \* kobo asked for by each request
  Procs,         \* web and celery worker processes
  None,          \* "no process"
  MaxTransfers,  \* bound: transfers Paystack makes for one request
  MaxQueue,      \* bound: queued execute_realtime messages of one request
  MaxReleases,   \* bound: releases of one hold
  MaxCrashes,    \* bound: crashes and rolled back transactions
  Overlapping,   \* Paystack may redeliver an event it has an answer to, or
                 \* is still waiting for
  Reconciling    \* the operator runs reconcile_stale_processing_withdrawals

ASSUME PayoutAssumption ==
  /\ IsFiniteSet(Requests)
  /\ Batch \subseteq Requests
  /\ DriverApp \subseteq Requests \ Batch
  /\ Owner \in [Requests -> Users]
  /\ Earned \in [Users -> Nat]
  /\ Amount \in Nat \ {0}
  /\ None \notin Procs
  /\ MaxTransfers \in Nat \ {0}
  /\ MaxQueue \in Nat
  /\ MaxReleases \in Nat
  /\ MaxCrashes \in Nat
  /\ Overlapping \in BOOLEAN
  /\ Reconciling \in BOOLEAN

VARIABLES
  row,        \* Withdrawal table: status and recorded transfer (0: none)
  ledger,     \* sum of the LedgerEntry rows of each user
  released,   \* "Release hold" credits written for each request
  idem,       \* PaymentIdempotencyKey row of each wallet request
  queue,      \* execute_realtime messages in the broker
  transfers,  \* Paystack's transfers: transfers[r][i] is the i-th of r
  rowLock,    \* process whose open transaction holds the row's lock
  userLock,   \* process whose open transaction holds the user's lock
  logged,     \* events with a PaystackWebhookLog row
  done,       \* events whose log row says processed
  acked,      \* events answered 200
  proc,       \* what each process is executing
  crashes

vars == <<row, ledger, released, idem, queue, transfers, rowLock, userLock,
          logged, done, acked, proc, crashes>>
payments == <<row, ledger, released>>
webhooks == <<logged, done, acked>>
locks == <<rowLock, userLock>>

TransferIds == 1..MaxTransfers
RowStatus == {"absent", "pending_batch", "processing", "complete", "failed"}
TransferStatus == {"none", "pending", "success", "failed", "reversed"}
News == {"success", "failed", "reversed"}
Event == [req: Requests, t: TransferIds, news: News]
Steps == {"idle", "w_create", "w_enqueue", "w_save", "d_commit", "rt_send",
          "rt_commit", "b_commit", "wh_find", "wh_mark", "wh_done",
          "rc_fetch", "rc_mark"}

AbsentRow == [status |-> "absent", transfer |-> 0]
\* A process remembers the request it works for, the row status it read, and
\* the transfer and verdict it was told of.
Job(at, r, saw, t, news) ==
  [at |-> at, req |-> r, saw |-> saw, t |-> t, news |-> news]
NoJob == Job("idle", None, "absent", 0, "none")
BatchJob == Job("b_commit", None, "absent", 0, "none")
Jobs == [at: Steps, req: Requests \union {None}, saw: RowStatus,
         t: 0..MaxTransfers, news: TransferStatus]
Idle(p) == proc[p].at = "idle"
Goes(p, job) == proc' = [proc EXCEPT ![p] = job]
Moves(p, at) == proc' = [proc EXCEPT ![p].at = at]
Ends(p) == Goes(p, NoJob)

Init ==
  /\ row = [r \in Requests |-> AbsentRow]
  /\ ledger = Earned
  /\ released = [r \in Requests |-> 0]
  /\ idem = [r \in Requests |-> "absent"]
  /\ queue = [r \in Requests |-> 0]
  /\ transfers = [r \in Requests |-> [i \in TransferIds |-> "none"]]
  /\ rowLock = [r \in Requests |-> None]
  /\ userLock = [u \in Users |-> None]
  /\ logged = {} /\ done = {} /\ acked = {}
  /\ proc = [p \in Procs |-> NoJob]
  /\ crashes = 0

-----------------------------------------------------------------------------
(* Eligibility and the ledger hold.  The ledger balance already excludes   *)
(* the holds, and the evaluator subtracts the pending withdrawals again.   *)
(* Its other checks (recipient, KYC, cooldown, daily limits) can refuse a  *)
(* request at any time: a refused request is a request not made.           *)

Pending(u) == {r \in Requests : /\ Owner[r] = u
                                /\ row[r].status \in {"pending_batch", "processing"}}
PendingTotal(u) == Amount * Cardinality(Pending(u))
\* A bug: counting the pending withdrawals as available.
EligibleOnTotal(r) == ledger[Owner[r]] + PendingTotal(Owner[r]) >= Amount

Eligible(r) ==
  LET available == ledger[Owner[r]] - PendingTotal(Owner[r])
  IN  available >= Amount
Hold(r) == ledger' = [ledger EXCEPT ![Owner[r]] = @ - Amount]

\* create_withdrawal_request locks the user row until its commit.
UserUnlocked(r) == userLock[Owner[r]] = None

-----------------------------------------------------------------------------
(* Paystack. *)

\* The next transfer Paystack would make for r is number i.
NextTransfer(r, i) ==
  /\ transfers[r][i] = "none"
  /\ \A j \in 1..(i - 1) : transfers[r][j] # "none"

\* A transfer request without a reference of ours always makes a new transfer.
MakesTransfer(r, i) ==
  /\ NextTransfer(r, i)
  /\ transfers' = [transfers EXCEPT ![r][i] = "pending"]

Settle(r, i) ==
  /\ transfers[r][i] = "pending"
  /\ \E s \in {"success", "failed"} :
       transfers' = [transfers EXCEPT ![r][i] = s]
  /\ UNCHANGED <<payments, idem, queue, locks, webhooks, proc, crashes>>

Reverse(r, i) ==
  /\ transfers[r][i] = "success"
  /\ transfers' = [transfers EXCEPT ![r][i] = "reversed"]
  /\ UNCHANGED <<payments, idem, queue, locks, webhooks, proc, crashes>>

\* The webhook events Paystack has sent or is about to send.
HasHappened(e) ==
  \/ transfers[e.req][e.t] = e.news
  \/ transfers[e.req][e.t] = "reversed" /\ e.news = "success"

-----------------------------------------------------------------------------
(* POST /api/wallet/withdraw/ *)

WalletBegin(p, r) ==
  /\ Idle(p)
  /\ r \notin DriverApp
  /\ idem[r] # "saved"
  /\ idem' = [idem EXCEPT ![r] = "open"]
  /\ Goes(p, Job("w_create", r, "absent", 0, "none"))
  /\ UNCHANGED <<payments, queue, transfers, locks, webhooks, crashes>>

WalletCreate(p) ==
  LET r == proc[p].req IN
  /\ proc[p].at = "w_create"
  /\ UserUnlocked(r)
  /\ \/ /\ row[r].status # "absent"
        /\ Moves(p, "w_enqueue")
        /\ UNCHANGED <<row, ledger>>
     \/ /\ row[r].status = "absent"
        /\ Eligible(r)
        /\ Hold(r)
        /\ row' = [row EXCEPT ![r].status = "pending_batch"]
        /\ Moves(p, "w_enqueue")
     \/ /\ row[r].status = "absent"
        /\ Ends(p)
        /\ UNCHANGED <<row, ledger>>
  /\ UNCHANGED <<released, idem, queue, transfers, locks, webhooks, crashes>>

\* Messages beyond the bound are forgotten: one more duplicate changes nothing.
Enqueue(r) ==
  queue' = [queue EXCEPT ![r] = IF @ < MaxQueue THEN @ + 1 ELSE @]

WalletEnqueue(p) ==
  LET r == proc[p].req IN
  /\ proc[p].at = "w_enqueue"
  /\ IF r \in Batch THEN UNCHANGED queue ELSE Enqueue(r)
  /\ Moves(p, "w_save")
  /\ UNCHANGED <<payments, idem, transfers, locks, webhooks, crashes>>

WalletSave(p) ==
  /\ proc[p].at = "w_save"
  /\ idem' = [idem EXCEPT ![proc[p].req] = "saved"]
  /\ Ends(p)
  /\ UNCHANGED <<payments, queue, transfers, locks, webhooks, crashes>>

-----------------------------------------------------------------------------
(* POST /api/driver/withdrawals/: request, hold and transfer in one        *)
(* transaction.  A refusal by Paystack rolls everything back (no step).    *)

DriverPost(p, r) ==
  /\ Idle(p)
  /\ r \in DriverApp
  /\ row[r].status = "absent"
  /\ UserUnlocked(r)
  /\ Eligible(r)
  /\ \E i \in TransferIds :
       /\ MakesTransfer(r, i)
       /\ Goes(p, Job("d_commit", r, "pending_batch", i, "none"))
  /\ userLock' = [userLock EXCEPT ![Owner[r]] = p]
  /\ UNCHANGED <<payments, idem, queue, rowLock, webhooks, crashes>>

DriverCommit(p) ==
  LET r == proc[p].req IN
  /\ proc[p].at = "d_commit"
  /\ row' = [row EXCEPT ![r] = [status |-> "processing", transfer |-> proc[p].t]]
  /\ Hold(r)
  /\ userLock' = [userLock EXCEPT ![Owner[r]] = None]
  /\ Ends(p)
  /\ UNCHANGED <<released, idem, queue, transfers, rowLock, webhooks, crashes>>

-----------------------------------------------------------------------------
(* The execute_realtime task: the row is read without a lock, and the      *)
(* status test uses what was read.                                         *)

RealtimeLoad(p, r) ==
  /\ Idle(p)
  /\ queue[r] > 0
  /\ queue' = [queue EXCEPT ![r] = @ - 1]
  /\ Goes(p, Job("rt_send", r, row[r].status, 0, "none"))
  /\ UNCHANGED <<payments, idem, transfers, locks, webhooks, crashes>>

RealtimeSkip(p) ==
  /\ proc[p].at = "rt_send"
  /\ proc[p].saw \notin {"pending_batch", "processing"}
  /\ Ends(p)
  /\ UNCHANGED <<payments, idem, queue, transfers, locks, webhooks, crashes>>

RealtimeSend(p) ==
  LET r == proc[p].req IN
  /\ proc[p].at = "rt_send"
  /\ proc[p].saw \in {"pending_batch", "processing"}
  /\ rowLock[r] = None
  /\ \E i \in TransferIds :
       /\ MakesTransfer(r, i)
       /\ Goes(p, Job("rt_commit", r, proc[p].saw, i, "none"))
  /\ rowLock' = [rowLock EXCEPT ![r] = p]
  /\ UNCHANGED <<payments, idem, queue, userLock, webhooks, crashes>>

\* Paystack refuses, or cannot be reached: the task raises and rolls back.
RealtimeRefused(p) ==
  /\ proc[p].at = "rt_send"
  /\ proc[p].saw \in {"pending_batch", "processing"}
  /\ rowLock[proc[p].req] = None
  /\ Ends(p)
  /\ UNCHANGED <<payments, idem, queue, transfers, locks, webhooks, crashes>>

RealtimeCommit(p) ==
  LET r == proc[p].req IN
  /\ proc[p].at = "rt_commit"
  /\ row' = [row EXCEPT ![r] = [status |-> "processing", transfer |-> proc[p].t]]
  /\ rowLock' = [rowLock EXCEPT ![r] = None]
  /\ Ends(p)
  /\ UNCHANGED <<ledger, released, idem, queue, transfers, userLock, webhooks, crashes>>

RetryPending(r) ==
  /\ row[r].status = "pending_batch"
  /\ r \notin Batch
  /\ Enqueue(r)
  /\ UNCHANGED <<payments, idem, transfers, locks, webhooks, proc, crashes>>

-----------------------------------------------------------------------------
(* The execute_batch task: all pending batch rows are locked, sent in one  *)
(* bulk transfer under references derived from the row ids, and recorded.  *)
(* Paystack answers a reference it knows with the transfer it made for it. *)

InBatch == {r \in Batch : row[r].status = "pending_batch"}

\* A bug: sending no reference, or a fresh one each time.
BatchTransferUnnamed(r) ==
  [i \in TransferIds |-> IF NextTransfer(r, i) THEN "pending" ELSE transfers[r][i]]

BatchTransfer(r) ==
  IF transfers[r][1] = "none" THEN [transfers[r] EXCEPT ![1] = "pending"]
                              ELSE transfers[r]

BatchSend(p) ==
  /\ Idle(p)
  /\ InBatch # {}
  /\ \A r \in InBatch : rowLock[r] = None
  /\ transfers' = [r \in Requests |-> IF r \in InBatch THEN BatchTransfer(r)
                                                       ELSE transfers[r]]
  /\ rowLock' = [r \in Requests |-> IF r \in InBatch THEN p ELSE rowLock[r]]
  /\ Goes(p, BatchJob)
  /\ UNCHANGED <<payments, idem, queue, userLock, webhooks, crashes>>

BatchCommit(p) ==
  /\ proc[p].at = "b_commit"
  /\ row' = [r \in Requests |->
               IF rowLock[r] = p THEN [status |-> "processing", transfer |-> 1]
                                 ELSE row[r]]
  /\ rowLock' = [r \in Requests |-> IF rowLock[r] = p THEN None ELSE rowLock[r]]
  /\ Ends(p)
  /\ UNCHANGED <<ledger, released, idem, queue, transfers, userLock, webhooks, crashes>>

-----------------------------------------------------------------------------
(* handle_paystack_webhook for the transfer events.  The log is unique per *)
(* payload and per event id, and the id is the transfer's: two events of   *)
(* one transfer cannot both be logged.                                     *)

BeingHandled(e) ==
  \E p \in Procs : /\ proc[p].at \in {"wh_find", "wh_mark", "wh_done"}
                   /\ <<proc[p].req, proc[p].t, proc[p].news>> = <<e.req, e.t, e.news>>

LogWith(e) ==
  IF \E other \in logged : other.req = e.req /\ other.t = e.t
  THEN logged
  ELSE logged \union {e}

WebhookReceive(p, e) ==
  /\ Idle(p)
  /\ HasHappened(e)
  /\ Overlapping \/ (e \notin acked /\ ~BeingHandled(e))
  /\ logged' = LogWith(e)
  /\ IF e \in done
     THEN acked' = acked \union {e} /\ UNCHANGED proc
     ELSE Goes(p, Job("wh_find", e.req, "absent", e.t, e.news)) /\ UNCHANGED acked
  /\ UNCHANGED <<payments, idem, queue, transfers, locks, done, crashes>>

\* An event whose reference no row carries is dropped without a trace.
WebhookFind(p) ==
  LET r == proc[p].req IN
  /\ proc[p].at = "wh_find"
  /\ IF row[r].transfer = proc[p].t
     THEN Goes(p, Job("wh_mark", r, row[r].status, proc[p].t, proc[p].news))
     ELSE Moves(p, "wh_done")
  /\ UNCHANGED <<payments, idem, queue, transfers, locks, webhooks, crashes>>

\* A bug: the status of a Sale written to a Withdrawal.
MarkCompleted(r, saw) ==
  /\ rowLock[r] = None
  /\ row' = [row EXCEPT ![r].status = "completed"]
  /\ UNCHANGED <<ledger, released>>

MarkPaid(r, saw) ==
  /\ \/ saw = "complete" /\ UNCHANGED row
     \/ /\ saw # "complete"
        /\ rowLock[r] = None
        /\ row' = [row EXCEPT ![r].status = "complete"]
  /\ UNCHANGED <<ledger, released>>

MarkFailed(r) ==
  /\ rowLock[r] = None
  /\ released[r] < MaxReleases
  /\ row' = [row EXCEPT ![r].status = "failed"]
  /\ ledger' = [ledger EXCEPT ![Owner[r]] = @ + Amount]
  /\ released' = [released EXCEPT ![r] = @ + 1]

\* A bug: only a reversal counts as failure.
MarkReversedOnly(r, saw, news) ==
  IF news = "reversed" THEN MarkFailed(r) ELSE MarkPaid(r, saw)

Mark(r, saw, news) ==
  IF news = "success" THEN MarkPaid(r, saw) ELSE MarkFailed(r)

WebhookMark(p) ==
  /\ proc[p].at = "wh_mark"
  /\ Mark(proc[p].req, proc[p].saw, proc[p].news)
  /\ Moves(p, "wh_done")
  /\ UNCHANGED <<idem, queue, transfers, locks, webhooks, crashes>>

WebhookDone(p) ==
  LET e == [req |-> proc[p].req, t |-> proc[p].t, news |-> proc[p].news] IN
  /\ proc[p].at = "wh_done"
  /\ done' = done \union ({e} \intersect logged)
  /\ acked' = acked \union {e}
  /\ Ends(p)
  /\ UNCHANGED <<payments, idem, queue, transfers, locks, logged, crashes>>

\* process_event raises: the error is noted on the log, and answered 200.
WebhookError(p) ==
  LET e == [req |-> proc[p].req, t |-> proc[p].t, news |-> proc[p].news] IN
  /\ proc[p].at \in {"wh_find", "wh_mark"}
  /\ crashes < MaxCrashes
  /\ crashes' = crashes + 1
  /\ acked' = acked \union {e}
  /\ Ends(p)
  /\ UNCHANGED <<payments, idem, queue, transfers, locks, logged, done>>

-----------------------------------------------------------------------------
(* reconcile_stale_processing_withdrawals, one row of its loop. *)

ReconcilePick(p, r) ==
  /\ Reconciling
  /\ Idle(p)
  /\ row[r].status = "processing"
  /\ row[r].transfer # 0
  /\ Goes(p, Job("rc_fetch", r, "processing", row[r].transfer, "none"))
  /\ UNCHANGED <<payments, idem, queue, transfers, locks, webhooks, crashes>>

\* A bug: anything but success counts as failure.
ReconcileFetchHasty(p) ==
  LET r == proc[p].req
      status == transfers[r][proc[p].t] IN
  /\ proc[p].at = "rc_fetch"
  /\ Goes(p, Job("rc_mark", r, proc[p].saw, proc[p].t, status))
  /\ UNCHANGED <<payments, idem, queue, transfers, locks, webhooks, crashes>>

\* A bug: only success is acted on.
ReconcileFetchSuccess(p) ==
  LET r == proc[p].req
      status == transfers[r][proc[p].t] IN
  /\ proc[p].at = "rc_fetch"
  /\ IF status = "success"
     THEN Goes(p, Job("rc_mark", r, proc[p].saw, proc[p].t, status))
     ELSE Ends(p)
  /\ UNCHANGED <<payments, idem, queue, transfers, locks, webhooks, crashes>>

ReconcileFetch(p) ==
  LET r == proc[p].req
      status == transfers[r][proc[p].t] IN
  /\ proc[p].at = "rc_fetch"
  /\ IF status \in News
     THEN Goes(p, Job("rc_mark", r, proc[p].saw, proc[p].t, status))
     ELSE Ends(p)
  /\ UNCHANGED <<payments, idem, queue, transfers, locks, webhooks, crashes>>

ReconcileMark(p) ==
  /\ proc[p].at = "rc_mark"
  /\ Mark(proc[p].req, proc[p].saw, proc[p].news)
  /\ Ends(p)
  /\ UNCHANGED <<idem, queue, transfers, locks, webhooks, crashes>>

-----------------------------------------------------------------------------
(* A process dies, or its transaction raises: the open transaction is      *)
(* rolled back and its locks released; what Paystack did stays done.       *)

Crash(p) ==
  /\ ~Idle(p)
  /\ crashes < MaxCrashes
  /\ crashes' = crashes + 1
  /\ rowLock' = [r \in Requests |-> IF rowLock[r] = p THEN None ELSE rowLock[r]]
  /\ userLock' = [u \in Users |-> IF userLock[u] = p THEN None ELSE userLock[u]]
  /\ Ends(p)
  /\ UNCHANGED <<payments, idem, queue, transfers, webhooks>>

WebNext(p) ==
  \/ \E r \in Requests : WalletBegin(p, r) \/ DriverPost(p, r)
  \/ WalletCreate(p) \/ WalletEnqueue(p) \/ WalletSave(p) \/ DriverCommit(p)
ExecutorNext(p) ==
  \/ \E r \in Requests : RealtimeLoad(p, r)
  \/ RealtimeSkip(p) \/ RealtimeSend(p) \/ RealtimeRefused(p) \/ RealtimeCommit(p)
  \/ BatchSend(p) \/ BatchCommit(p)
WebhookNext(p) ==
  \/ \E e \in Event : WebhookReceive(p, e)
  \/ WebhookFind(p) \/ WebhookMark(p) \/ WebhookDone(p) \/ WebhookError(p)
ReconcileNext(p) ==
  \/ \E r \in Requests : ReconcilePick(p, r)
  \/ ReconcileFetch(p) \/ ReconcileMark(p)
PaystackNext == \E r \in Requests, i \in TransferIds : Settle(r, i) \/ Reverse(r, i)

Next ==
  \/ \E p \in Procs :
       WebNext(p) \/ ExecutorNext(p) \/ WebhookNext(p) \/ ReconcileNext(p) \/ Crash(p)
  \/ \E r \in Requests : RetryPending(r)
  \/ PaystackNext

Spec == Init /\ [][Next]_vars

-----------------------------------------------------------------------------
(* Fairness: a worker finishes what it started (crashes are bounded), the  *)
(* broker delivers its messages, Paystack settles every transfer, and the  *)
(* nightly batch, the retry task and the reconciler are run for ever.      *)

Progress(p) ==
  \/ WalletCreate(p) \/ WalletEnqueue(p) \/ WalletSave(p) \/ DriverCommit(p)
  \/ RealtimeSkip(p) \/ RealtimeRefused(p) \/ RealtimeCommit(p) \/ BatchCommit(p)
  \/ WebhookFind(p) \/ WebhookMark(p) \/ WebhookDone(p)
  \/ ReconcileFetch(p) \/ ReconcileMark(p)
Fairness ==
  /\ \A p \in Procs : WF_vars(Progress(p))
  /\ SF_vars(\E p \in Procs : BatchSend(p))
  /\ \A r \in Requests :
       /\ SF_vars(RetryPending(r))
       /\ SF_vars(\E p \in Procs : RealtimeLoad(p, r))
       /\ SF_vars(\E p \in Procs : proc[p].req = r /\ RealtimeSend(p))
       /\ SF_vars(\E p \in Procs : ReconcilePick(p, r))
       /\ \A i \in TransferIds : WF_vars(Settle(r, i))
FairSpec == Spec /\ Fairness

-----------------------------------------------------------------------------
(* Properties. *)

Sent(r) == {i \in TransferIds : transfers[r][i] # "none"}
Succeeded(r) == {i \in TransferIds : transfers[r][i] \in {"success", "reversed"}}
CameBack(r) == {i \in TransferIds : transfers[r][i] \in {"failed", "reversed"}}

DataOK ==
  /\ row \in [Requests -> [status: RowStatus, transfer: 0..MaxTransfers]]
  /\ ledger \in [Users -> Int]
  /\ released \in [Requests -> Nat]
  /\ idem \in [Requests -> {"absent", "open", "saved"}]
  /\ queue \in [Requests -> 0..MaxQueue]
  /\ transfers \in [Requests -> [TransferIds -> TransferStatus]]
  /\ rowLock \in [Requests -> Procs \union {None}]
  /\ userLock \in [Users -> Procs \union {None}]
  /\ logged \subseteq Event /\ done \subseteq Event /\ acked \subseteq Event
  /\ crashes \in 0..MaxCrashes

\* The steps at which a process has been told of the fate of a transfer.
Told == {"wh_find", "wh_mark", "wh_done", "rc_mark"}

JobOK(job) ==
  /\ job \in Jobs
  /\ job.at \in Told \union {"rc_fetch"} => job.t \in TransferIds
  /\ job.at \in Told => job.news \in News
  /\ job.at \notin {"idle", "b_commit"} => job.req \in Requests

TypeOK ==
  /\ DataOK
  /\ proc \in [Procs -> Jobs]
  /\ \A p \in Procs : JobOK(proc[p])

\* A withdrawal is reported complete only if Paystack really paid some transfer
\* of it: neither a stale snapshot, a lookup by an overwritten reference, nor a
\* replayed event marks a row the money never left for
\* (process_event, mark_withdrawal_paid, the reconciler).
CompleteOnEvidence ==
  \A r \in Requests : row[r].status = "complete" => Succeeded(r) # {}

\* A hold is given back only if Paystack really returned some transfer of the
\* withdrawal, whatever is replayed, raced or retried (mark_withdrawal_failed).
ReleaseOnEvidence ==
  \A r \in Requests : released[r] > 0 => CameBack(r) # {}

\* A batch withdrawal is sent to Paystack at most once, although a batch may
\* die after the bulk call and before its commit and be run again: the row
\* locks exclude a second executor, the derived reference a second transfer.
BatchSentOnce == \A r \in Batch : Cardinality(Sent(r)) <= 1

\* A withdrawal is sent to Paystack at most once.
SentOnce == \A r \in Requests : Cardinality(Sent(r)) <= 1

\* The pipeline keeps its promise to the ledger: see PayoutPromise.
Promise == INSTANCE PayoutPromise WITH
  balance <- ledger,
  held <- {r \in Requests : row[r].status # "absent"},
  returned <- {r \in Requests : released[r] > 0}

\* Every step of the pipeline is a hold, a return or nothing for the ledger.
KeepsPromise == Promise!Spec

\* A requested withdrawal is eventually paid or failed, even if its events are
\* lost: an early event is dropped and never sent again, a crash leaves the
\* row as it was, and then only retrying and reconciling get it out.
EventuallySettled ==
  \A r \in Requests :
    row[r].status = "pending_batch" ~> row[r].status \in {"complete", "failed"}
=============================================================================
