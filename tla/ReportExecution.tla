--------------------------- MODULE ReportExecution ---------------------------
(***************************************************************************)
(* One report execution: its row, the protected files (artifacts) written  *)
(* for it, the Celery messages that ask for it and the processes that run  *)
(* it, after reports/services.py and reports/tasks.py.                     *)
(*                                                                         *)
(* execute_report is not one transaction.  It claims the row under a lease *)
(* and then works through separate transactions and storage calls, each of *)
(* them an action here, between which other processes claim, cancel or     *)
(* reconcile the same execution and the process itself can die.  A message *)
(* is acknowledged late: until then the death of its worker returns it to  *)
(* the queue with the same number of retries.                              *)
(*                                                                         *)
(* A definition named X_Something is a deliberately wrong variant of X     *)
(* that the properties are tested against; nothing uses it.                *)
(***************************************************************************)
EXTENDS Naturals, FiniteSets, BagsExt

CONSTANTS
  Worker,       \* Celery worker processes
  Caller,       \* processes that call run() directly, without a message
  User,         \* people who call cancel()
  Artifact,     \* ProtectedFile rows of the execution
  None,         \* an absent artifact, timestamp or message
  Lease,        \* REPORT_EXECUTION_LEASE_SECONDS, in ticks
  MaxRetries,   \* REPORT_TASK_MAX_RETRIES
  MaxClock,     \* bound: ticks of the clock
  MaxCrashes,   \* bound: processes that die
  MaxFaults,    \* bound: storage, database, broker and internal errors
  MaxRevocations \* bound: 1 if a permission or the definition may be withdrawn

Process == Worker \cup Caller

ASSUME ReportAssumption ==
  /\ Worker \cap Caller = {}
  /\ Lease \in Nat \ {0}
  /\ {MaxRetries, MaxClock, MaxCrashes, MaxFaults, MaxRevocations} \subseteq Nat
  /\ None \notin Artifact \cup Nat \cup [retries : Nat, eta : Nat]

VARIABLES
  exec,      \* the ReportExecution row: status, started_at, result_file
  art,       \* ProtectedFile: status, and whether its directory holds a blob
  proc,      \* per process: where it is in execute_report and its local variables
  queue,     \* bag of messages: how often retried, and not before when
  seen,      \* per user: the status cancel() read, None when not cancelling
  notified,  \* the recipients of the report were notified
  allowed,   \* the requester's permissions: "yes", "inactive" definition, "denied"
  clock,     \* timezone.now()
  budget     \* crashes, faults and revocations so far; history: unretried, one of the
             \* faults struck where the task does not retry

vars == <<exec, art, proc, queue, seen, notified, allowed, clock, budget>>

-----------------------------------------------------------------------------
(* State *)

Status == {"pending", "running", "completed", "failed", "cancelled"}
Ended == {"completed", "failed", "cancelled"}
Message == [retries : 0..MaxRetries, eta : 0..(MaxClock + Lease)]

\* The steps of a process, in the order execute_report and the task take them.
Step ==
  {"idle", "claim", "reset", "render", "reserve", "store", "complete", "notify",
   "release", "fail", "blobs", "row", "detach", "retry", "exhaust", "ack"}
\* What a cleanup is for: reconciling before a run, a retry, a definitive failure.
Purpose == {"purge", "retry", "fail"}

Idle == [at |-> "idle", msg |-> None, token |-> None, file |-> None,
         doomed |-> {}, target |-> None, purpose |-> "purge"]

Row == [status : Status, started : 0..MaxClock \cup {None}, file : Artifact \cup {None}]
File == [status : {"absent", "active", "deleted"}, blob : BOOLEAN]
Local == [at : Step, msg : Message \cup {None}, token : 0..MaxClock \cup {None},
          file : Artifact \cup {None}, doomed : SUBSET Artifact,
          target : Artifact \cup {None}, purpose : Purpose]
Budget == [crashes : 0..MaxCrashes, faults : 0..MaxFaults, revocations : 0..MaxRevocations,
           unretried : BOOLEAN]

ReportTypeOK ==
  /\ exec \in Row
  /\ art \in [Artifact -> File]
  /\ proc \in [Process -> Local]
  /\ DOMAIN queue \subseteq Message
  /\ seen \in [User -> Status \cup {None}]
  /\ notified \in BOOLEAN
  /\ allowed \in {"yes", "inactive", "denied"}
  /\ clock \in 0..MaxClock
  /\ budget \in Budget

Init ==
  /\ exec = [status |-> "pending", started |-> None, file |-> None]
  /\ art = [a \in Artifact |-> [status |-> "absent", blob |-> FALSE]]
  /\ proc = [p \in Process |-> Idle]
  /\ queue = [m \in IF Worker = {} THEN {} ELSE {[retries |-> 0, eta |-> 0]} |-> 1]
  /\ seen = [u \in User |-> None]
  /\ notified = FALSE
  /\ allowed = "yes"
  /\ clock = 0
  /\ budget = [crashes |-> 0, faults |-> 0, revocations |-> 0, unretried |-> FALSE]

Live(a) == art[a].status = "active"
LiveArtifacts == {a \in Artifact : Live(a)}

LeaseExpired_Never == FALSE
\* The lease of a running execution is over.
LeaseExpired == exec.started + Lease <= clock

RetriesLeft_OneMore(m) == m.retries <= MaxRetries
\* self.retry still publishes a message.
RetriesLeft(m) == m.retries < MaxRetries

StillOwner_AnyStatus(p) == exec.started = proc[p].token /\ exec.file = proc[p].file
\* What reservation, store, completion, release and failure compare with the row
\* locked: it still runs, with the timestamp and the artifact of this process.
StillOwner(p) ==
  /\ exec.status = "running"
  /\ exec.started = proc[p].token
  /\ exec.file = proc[p].file

Go(p, step) == proc' = [proc EXCEPT ![p].at = step]
\* An error of storage, of the database or of the code, one of MaxFaults.
Fault ==
  /\ budget.faults < MaxFaults
  /\ budget' = [budget EXCEPT !.faults = @ + 1]
\* One that the task does not retry.
FinalFault ==
  /\ budget.faults < MaxFaults
  /\ budget' = [budget EXCEPT !.faults = @ + 1, !.unretried = TRUE]

-----------------------------------------------------------------------------
(* Starting a run: the queue and the direct call *)

\* A worker takes a message whose countdown is over.
Deliver(p) == \E m \in DOMAIN queue :
  /\ proc[p].at = "idle"
  /\ m.eta <= clock
  /\ queue' = BagRemove(queue, m)
  /\ proc' = [proc EXCEPT ![p] = [Idle EXCEPT !.at = "claim", !.msg = m]]
  /\ UNCHANGED <<exec, art, seen, notified, allowed, clock, budget>>

\* ReportExecution.run() from a request, run_report_definition or trigger_now.
Call(p) ==
  /\ proc[p].at = "idle"
  /\ proc' = [proc EXCEPT ![p] = [Idle EXCEPT !.at = "claim"]]
  /\ UNCHANGED <<exec, art, queue, seen, notified, allowed, clock, budget>>

-----------------------------------------------------------------------------
(* _claim_execution *)

Busy == exec.status = "running" /\ ~LeaseExpired
Claimable == exec.status = "pending" \/ (exec.status = "running" /\ LeaseExpired)

\* Another process holds a lease that is still valid: the task is put back with a
\* countdown to the end of the lease, or is lost when it has no retry left; a
\* direct caller gets the error.
ClaimBusy(p) ==
  LET m == proc[p].msg
      again == m # None /\ RetriesLeft(m)
  IN  /\ proc[p].at = "claim"
      /\ allowed # "denied"
      /\ Busy
      /\ queue' = IF again
                  THEN BagAdd(queue, [retries |-> m.retries + 1,
                                      eta |-> exec.started + Lease])
                  ELSE queue
      /\ Go(p, "ack")
      /\ UNCHANGED <<exec, art, seen, notified, allowed, clock, budget>>

\* Permission denied, definition inactive, or a status that cannot be processed;
\* and a completed report, which is returned as it is.
ClaimRefused(p) ==
  /\ proc[p].at = "claim"
  /\ \/ allowed = "denied"
     \/ exec.status \in Ended
     \/ allowed = "inactive" /\ Claimable
  /\ Go(p, "ack")
  /\ UNCHANGED <<exec, art, queue, seen, notified, allowed, clock, budget>>

ClaimedRow_SameToken ==
  [exec EXCEPT !.status = "running", !.started = IF @ = None THEN clock ELSE @]
\* The row a claim leaves: started_at is the token that later steps compare, and
\* result_file stays until the artifact it names is reconciled.
ClaimedRow == [exec EXCEPT !.status = "running", !.started = clock]

ClaimTaken(p) ==
  /\ proc[p].at = "claim"
  /\ allowed = "yes"
  /\ Claimable
  /\ exec' = ClaimedRow
  /\ proc' = [proc EXCEPT ![p] =
       [@ EXCEPT !.at = IF LiveArtifacts = {} THEN "detach" ELSE "blobs",
                 !.token = ClaimedRow.started, !.file = exec.file,
                 !.doomed = LiveArtifacts, !.purpose = "purge"]]
  /\ UNCHANGED <<art, queue, seen, notified, allowed, clock, budget>>

-----------------------------------------------------------------------------
(* Cleanup of artifacts, before a run and after a failed one *)

\* Where a process goes when the artifact could not be removed.
AfterDirtyCleanup(p) ==
  CASE proc[p].purpose = "purge" -> "reset"
    [] proc[p].purpose = "retry" -> "retry"
    [] proc[p].purpose = "fail"  -> "ack"

\* _delete_protected_artifact_blobs for the next artifact; one that is deleted by
\* now is skipped.
DeleteBlobs(p) == \E a \in proc[p].doomed :
  /\ proc[p].at = "blobs"
  /\ art' = [art EXCEPT ![a].blob = @ /\ ~Live(a)]
  /\ proc' = [proc EXCEPT ![p].at = IF Live(a) THEN "row" ELSE @,
                          ![p].target = a, ![p].doomed = @ \ {a}]
  /\ UNCHANGED <<exec, queue, seen, notified, allowed, clock, budget>>

\* ProtectedFile.delete_secure.  The status it checks is the one read before the
\* blobs were deleted, so two processes can both delete the row.
DeleteRow(p) ==
  /\ proc[p].at = "row"
  /\ art' = [art EXCEPT ![proc[p].target].status = "deleted"]
  /\ Go(p, "blobs")
  /\ UNCHANGED <<exec, queue, seen, notified, allowed, clock, budget>>

CleanupFault(p) ==
  /\ proc[p].at = "row" \/ (proc[p].at = "blobs" /\ proc[p].doomed # {})
  /\ Fault
  /\ Go(p, AfterDirtyCleanup(p))
  /\ UNCHANGED <<exec, art, queue, seen, notified, allowed, clock>>

CleanupDone(p) ==
  /\ proc[p].at = "blobs" /\ proc[p].doomed = {}
  /\ Go(p, "detach")
  /\ UNCHANGED <<exec, art, queue, seen, notified, allowed, clock, budget>>

\* _detach_reconciled_artifact.  After a release the row has no timestamp, and
\* the retry passes None for it.
MayDetach(p) ==
  LET a == proc[p].file
  IN  /\ a # None
      /\ exec.started = IF proc[p].purpose = "retry" THEN None ELSE proc[p].token
      /\ exec.file = a
      /\ art[a].status = "deleted"

Detach(p) ==
  /\ proc[p].at = "detach"
  /\ exec' = IF MayDetach(p) THEN [exec EXCEPT !.file = None] ELSE exec
  /\ CASE proc[p].purpose = "purge" ->
            proc' = [proc EXCEPT ![p].at = "render", ![p].file = None]
       [] proc[p].purpose = "retry" -> Go(p, "retry")
       [] proc[p].purpose = "fail"  -> Go(p, "ack")
  /\ UNCHANGED <<art, queue, seen, notified, allowed, clock, budget>>

-----------------------------------------------------------------------------
(* The run itself *)

Render(p) ==
  /\ proc[p].at = "render"
  /\ Go(p, "reserve")
  /\ UNCHANGED <<exec, art, queue, seen, notified, allowed, clock, budget>>

\* _reserve_protected_artifact: the artifact is linked before a byte is stored,
\* and the lease is renewed under a new token.
Reserve(p) ==
  /\ proc[p].at = "reserve"
  /\ IF StillOwner(p)
     THEN \E a \in {b \in Artifact : art[b].status = "absent"} :
            /\ art' = [art EXCEPT ![a].status = "active"]
            /\ exec' = [exec EXCEPT !.file = a, !.started = clock]
            /\ proc' = [proc EXCEPT ![p].at = "store", ![p].file = a, ![p].token = clock]
     ELSE Go(p, "fail") /\ UNCHANGED <<art, exec>>
  /\ UNCHANGED <<queue, seen, notified, allowed, clock, budget>>

MayStore_Unchecked(p) == TRUE
\* What _store_protected_artifact checks with the row and the artifact locked.
MayStore(p) == StillOwner(p) /\ Live(proc[p].file)

Store(p) ==
  /\ proc[p].at = "store"
  /\ IF MayStore(p)
     THEN art' = [art EXCEPT ![proc[p].file].blob = TRUE] /\ Go(p, "complete")
     ELSE Go(p, "fail") /\ UNCHANGED art
  /\ UNCHANGED <<exec, queue, seen, notified, allowed, clock, budget>>

\* The storage or the database fails during the store: the bytes are there or not,
\* the transaction is rolled back.
StoreFault(p) == \E written \in BOOLEAN, outcome \in {"release", "fail"} :
  /\ proc[p].at = "store" /\ MayStore(p)
  /\ Fault
  /\ art' = [art EXCEPT ![proc[p].file].blob = written]
  /\ Go(p, outcome)
  /\ UNCHANGED <<exec, queue, seen, notified, allowed, clock>>

\* An error elsewhere in the run: connection, timeout and OS errors release the
\* execution, every other one fails it.
RunFault(p) == \E outcome \in {"release", "fail"} :
  /\ proc[p].at \in {"render", "reserve", "complete"}
  /\ Fault
  /\ Go(p, outcome)
  /\ UNCHANGED <<exec, art, queue, seen, notified, allowed, clock>>

\* _complete_execution.
Complete(p) ==
  /\ proc[p].at = "complete"
  /\ IF StillOwner(p)
     THEN exec' = [exec EXCEPT !.status = "completed"] /\ Go(p, "notify")
     ELSE Go(p, "fail") /\ UNCHANGED exec
  /\ UNCHANGED <<art, queue, seen, notified, allowed, clock, budget>>

\* _run_post_completion.  An error is logged and the report stays completed.
Notify(p) ==
  /\ proc[p].at = "notify"
  /\ \/ notified' = TRUE /\ UNCHANGED budget
     \/ Fault /\ UNCHANGED notified
  /\ Go(p, "ack")
  /\ UNCHANGED <<exec, art, queue, seen, allowed, clock>>

-----------------------------------------------------------------------------
(* A run that did not complete *)

ReleasedRow_Unlinked == [status |-> "pending", started |-> None, file |-> None]
\* The row _release_for_retry leaves: its artifact stays linked.
ReleasedRow == [exec EXCEPT !.status = "pending", !.started = None]

StartCleanup(p, purpose) ==
  proc' = [proc EXCEPT ![p] =
    [@ EXCEPT !.at = "blobs", !.purpose = purpose,
              !.doomed = IF proc[p].file = None THEN {} ELSE {proc[p].file}]]

\* The second disjunct of the row is a database error, which is only logged.
Release(p) ==
  /\ proc[p].at = "release"
  /\ \/ exec' = (IF StillOwner(p) THEN ReleasedRow ELSE exec) /\ UNCHANGED budget
     \/ Fault /\ UNCHANGED exec
  /\ StartCleanup(p, "retry")
  /\ UNCHANGED <<art, queue, seen, notified, allowed, clock>>

\* _reset_claim_to_pending, when the reconciliation of a claim failed.
Reset(p) ==
  /\ proc[p].at = "reset"
  /\ \/ exec' = (IF StillOwner(p) THEN ReleasedRow ELSE exec) /\ UNCHANGED budget
     \/ Fault /\ UNCHANGED exec
  /\ Go(p, "retry")
  /\ UNCHANGED <<art, queue, seen, notified, allowed, clock>>

\* _mark_failed.  A database error is only logged, and the failure of the report is not
\* retried.
Fail(p) ==
  /\ proc[p].at = "fail"
  /\ \/ /\ exec' = IF StillOwner(p) THEN [exec EXCEPT !.status = "failed"] ELSE exec
        /\ UNCHANGED budget
     \/ FinalFault /\ UNCHANGED exec
  /\ StartCleanup(p, "fail")
  /\ UNCHANGED <<art, queue, seen, notified, allowed, clock>>

-----------------------------------------------------------------------------
(* generate_report_execution after a retryable error *)

\* The next message is published; the backoff (15 s and up) is below one tick.
Retry(p) ==
  LET m == proc[p].msg
  IN  /\ proc[p].at = "retry"
      /\ IF m = None THEN Go(p, "ack") /\ UNCHANGED queue
         ELSE IF RetriesLeft(m)
         THEN /\ queue' = BagAdd(queue, [retries |-> m.retries + 1, eta |-> clock])
              /\ Go(p, "ack")
         ELSE Go(p, "exhaust") /\ UNCHANGED queue
      /\ UNCHANGED <<exec, art, seen, notified, allowed, clock, budget>>

\* mark_retry_exhausted: only a pending execution fails, and only if every live
\* artifact is the one it is linked to.
Exhaust(p) ==
  /\ proc[p].at = "exhaust"
  /\ exec' = IF exec.status = "pending" /\ LiveArtifacts \subseteq {exec.file}
             THEN [exec EXCEPT !.status = "failed"]
             ELSE exec
  /\ Go(p, "ack")
  /\ UNCHANGED <<art, queue, seen, notified, allowed, clock, budget>>

\* The task ends, well or with an error, and its message is acknowledged.
Ack(p) ==
  /\ proc[p].at = "ack"
  /\ proc' = [proc EXCEPT ![p] = Idle]
  /\ UNCHANGED <<exec, art, queue, seen, notified, allowed, clock, budget>>

\* An error in the transactions of the claim, of a detachment or of mark_retry_exhausted,
\* or in the publishing of the next message: the transaction is rolled back, the task
\* retries no such exception, and its message is acknowledged all the same.
UnretriedFault(p) ==
  /\ \/ proc[p].at \in {"claim", "exhaust"}
     \/ proc[p].at = "detach" /\ proc[p].file # None
     \/ proc[p].at = "retry" /\ proc[p].msg # None
  /\ FinalFault
  /\ Go(p, "ack")
  /\ UNCHANGED <<exec, art, queue, seen, notified, allowed, clock>>

-----------------------------------------------------------------------------
(* Other actors *)

\* A process dies; the broker delivers an unacknowledged message again.
Crash(p) ==
  /\ proc[p].at # "idle"
  /\ budget.crashes < MaxCrashes
  /\ budget' = [budget EXCEPT !.crashes = @ + 1]
  /\ queue' = IF proc[p].msg = None THEN queue ELSE BagAdd(queue, proc[p].msg)
  /\ proc' = [proc EXCEPT ![p] = Idle]
  /\ UNCHANGED <<exec, art, seen, notified, allowed, clock>>

\* cancel() reads the row without a lock ...
CancelRead(u) ==
  /\ seen[u] = None
  /\ seen' = [seen EXCEPT ![u] = exec.status]
  /\ UNCHANGED <<exec, art, proc, queue, notified, allowed, clock, budget>>

\* ... and decides and writes the status by what it read.
CancelWrite(u) ==
  /\ seen[u] # None
  /\ exec' = IF seen[u] = "completed" THEN exec ELSE [exec EXCEPT !.status = "cancelled"]
  /\ seen' = [seen EXCEPT ![u] = None]
  /\ UNCHANGED <<art, proc, queue, notified, allowed, clock, budget>>

\* A permission of the requester is removed, or the definition is deactivated.
Revoke ==
  /\ allowed = "yes" /\ budget.revocations < MaxRevocations
  /\ allowed' \in {"inactive", "denied"}
  /\ budget' = [budget EXCEPT !.revocations = @ + 1]
  /\ UNCHANGED <<exec, art, proc, queue, seen, notified, clock>>

\* Time passes while a lease or a countdown runs; past their ends it changes nothing.
Tick ==
  /\ clock < MaxClock
  /\ Busy \/ \E m \in DOMAIN queue : m.eta > clock
  /\ clock' = clock + 1
  /\ UNCHANGED <<exec, art, proc, queue, seen, notified, allowed, budget>>

Work(p) ==
  \/ ClaimBusy(p) \/ ClaimRefused(p) \/ ClaimTaken(p)
  \/ DeleteBlobs(p) \/ DeleteRow(p) \/ CleanupDone(p) \/ Detach(p)
  \/ Render(p) \/ Reserve(p) \/ Store(p) \/ Complete(p) \/ Notify(p)
  \/ Release(p) \/ Reset(p) \/ Fail(p)
  \/ Retry(p) \/ Exhaust(p) \/ Ack(p)

Disturb(p) == CleanupFault(p) \/ StoreFault(p) \/ RunFault(p) \/ UnretriedFault(p) \/ Crash(p)

Next ==
  \/ \E p \in Worker : Deliver(p)
  \/ \E p \in Caller : Call(p)
  \/ \E p \in Process : Work(p) \/ Disturb(p)
  \/ \E u \in User : CancelRead(u) \/ CancelWrite(u)
  \/ Revoke \/ Tick

Spec == Init /\ [][Next]_vars

\* A process that is alive goes on, a message that is due is delivered to some
\* worker, and time passes.
FairSpec ==
  /\ Spec
  /\ \A p \in Process : WF_vars(Work(p))
  /\ WF_vars(\E p \in Worker : Deliver(p))
  /\ WF_vars(Tick)

-----------------------------------------------------------------------------
(* Properties *)

\* No artifact is lost from sight: one that is not deleted is the artifact the
\* execution row is linked to, in every interleaving of claims, cleanups, deaths
\* and cancellations, so the next claim or a person can still remove it
\* (_claim_execution, _detach_reconciled_artifact, mark_retry_exhausted).
LiveArtifactLinked == LiveArtifacts \subseteq {exec.file}

\* Reconciliation is final: no worker that lost its lease writes the bytes of a
\* report into an artifact that was deleted (_store_protected_artifact).
DeletedHasNoBlob == \A a \in Artifact : art[a].status = "deleted" => ~art[a].blob

\* Two processes are never both owners of the execution, from the claim to its
\* completion: the timestamp that a claim or a reservation writes shuts out
\* every process that holds an older one.
Working == {"blobs", "row", "detach", "render", "reserve", "store", "complete",
            "reset", "release", "fail"}
Owns(p) ==
  /\ proc[p].at \in Working
  /\ proc[p].at \in {"blobs", "row", "detach"} => proc[p].purpose = "purge"
  /\ exec.status = "running" /\ exec.started = proc[p].token
OneOwner == \A p, q \in Process : Owns(p) /\ Owns(q) => p = q

\* What the component promises to the person who asked for the report.
ReadableFile ==
  IF /\ exec.status = "completed" /\ exec.file # None
     /\ Live(exec.file) /\ art[exec.file].blob
  THEN exec.file ELSE None
Promise == INSTANCE ReportPromise WITH status <- exec.status, readable <- ReadableFile
\* Every step of the engine is a step of the promise or changes nothing of it: a
\* report is completed once, together with a readable file that stays.
PromiseKept == Promise!Spec

\* Two statements TLC refutes; no run checks them (README, section 6).

\* A completed report is not cancelled (models.py, ReportExecution.cancel: "Relatorio
\* concluido nao pode ser cancelado").
CompletedNotCancelled ==
  [][exec.status = "completed" => exec'.status # "cancelled"]_vars

\* Nothing is left to work on the execution.
Quiet == DOMAIN queue = {} /\ \A p \in Process : proc[p].at = "idle"

\* When the retries of the task are used up, the execution is failed
\* (docs/architecture/reports.md, "Esgotado o limite, a execucao passa a failed"): it is
\* not left running or pending with nobody to take it up.
ExhaustedIsFailed == Quiet => exec.status \in Ended

\* Every execution ends, although a worker dies and errors occur, as long as the task has a
\* retry for each, unless one of the errors is of those the task does not retry: these
\* alone can leave it pending or running for good (generate_report_execution,
\* _claim_execution).
Settles == <>(exec.status \in Ended \/ budget.unretried)
=============================================================================
