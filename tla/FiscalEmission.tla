--------------------------- MODULE FiscalEmission ---------------------------
(***************************************************************************)
(* The emission of electronic invoices (fiscal/services.py): a document is *)
(* issued, consulted and cancelled at the tax authority over HTTP, and its *)
(* XML and DANFE are mailed to the partner by a Celery task.  Each of the  *)
(* three operations is one transaction that locks the document, calls the  *)
(* authority and commits what the answer says; an error, an incomplete     *)
(* answer or the death of the process rolls back whatever it has written,  *)
(* but not what the authority has done, nor a task already queued.         *)
(* A PUT or PATCH of a document (FiscalDocumentViewSet) and the form of    *)
(* the HTML pages read the row, validate it and save every column of it,   *)
(* without a lock; the form lets its user type the emission fields.        *)
(* Abstracted: payloads, protocols, events and audit records.  XML and     *)
(* DANFE are one artifact.  The other checks of issue (parties, items,     *)
(* taxes, totals) only refuse.  The authority is the environment: it never *)
(* takes back what it did, and its answers may be lost or unintelligible.  *)
(***************************************************************************)
EXTENDS Naturals

CONSTANTS Document,
          Process,   \* transactions that may run at the same time
          Editor,    \* requests that save a whole document
          Mail       \* bound: the deliveries that can be scheduled

ASSUME EmissionAssumption == "none" \notin Document \cup Mail

VARIABLES doc,        \* FiscalDocument: emission_status, access_key present (DocRow)
          stored,     \* documents whose artifacts are ProtectedFile rows
          authority,  \* what the authority has decided on each document
          call,       \* the transaction each process is in
          late,       \* requests whose sender has given up
          mail,       \* FiscalEmailDelivery rows
          queue,      \* deliveries whose task is in the broker
          copy        \* the row an editor is to save

vars == <<doc, stored, authority, call, late, mail, queue, copy>>

Operation == {"issue", "check_status", "cancel"}
Answer == {"authorized", "rejected", "cancelled", "unrecognised"}
Emission == {"not_sent", "authorized", "rejected", "cancelled", "error"}
\* A history field beside those of the table: typed, a form has set the emission status
\* and no operation has since.
DocRow == [emission : Emission, key : BOOLEAN, typed : BOOLEAN]
CallRow == [at : {"idle", "asked", "answered", "filed"},
            op : Operation \cup {"none"}, doc : Document \cup {"none"},
            answer : Answer \cup {"none"}, mail : Mail \cup {"none"}]
MailRow == [doc : Document \cup {"none"},
            status : {"absent", "scheduled", "sending", "sent", "failed"}]
Request == [op : Operation, doc : Document]
CopyRow == [doc : Document \cup {"none"}, row : DocRow]

NewDocument == [emission |-> "not_sent", key |-> FALSE, typed |-> FALSE]
Idle == [at |-> "idle", op |-> "none", doc |-> "none", answer |-> "none", mail |-> "none"]
NoMail == [doc |-> "none", status |-> "absent"]
NoCopy == [doc |-> "none", row |-> NewDocument]

EmissionTypeOK ==
  /\ doc \in [Document -> DocRow]
  /\ stored \subseteq Document
  /\ authority \in [Document -> {"unknown", "rejected", "authorized", "cancelled"}]
  /\ call \in [Process -> CallRow]
  /\ late \subseteq Request
  /\ mail \in [Mail -> MailRow]
  /\ queue \subseteq Mail
  /\ copy \in [Editor -> CopyRow]

Init ==
  /\ doc = [d \in Document |-> NewDocument]
  /\ stored = {}
  /\ authority = [d \in Document |-> "unknown"]
  /\ call = [p \in Process |-> Idle]
  /\ late = {}
  /\ mail = [m \in Mail |-> NoMail]
  /\ queue = {}
  /\ copy = [e \in Editor |-> NoCopy]

Unlocked_Always(d) == TRUE
\* select_for_update: no transaction holds the document, from its read to its end.
Unlocked(d) == \A p \in Process : call[p].doc # d

-----------------------------------------------------------------------------
(* The authority, as the code depends on it *)

\* Its decision on a request, and the answers it may give: a request that repeats
\* what was done may be rejected, a consultation tells the state.
Decided(op, was) ==
  CASE op = "issue" /\ was \in {"unknown", "rejected"} -> {"authorized", "rejected"}
    [] op = "cancel" /\ was = "authorized" -> {"authorized", "cancelled"}
    [] OTHER -> {was}

Honest(op, now) ==
  CASE op = "issue" /\ now = "authorized" -> {"authorized", "rejected"}
    [] op = "cancel" /\ now = "cancelled" -> {"cancelled", "rejected"}
    [] op = "check_status" -> {now} \ {"unknown"}
    [] OTHER -> {"rejected"}

\* An answer may also make no sense to _parse_response.
Answers(op, now) == Honest(op, now) \cup {"unrecognised"}

\* The authority works on a request and its answer arrives.
Respond(p) ==
  /\ call[p].at = "asked"
  /\ \E now \in Decided(call[p].op, authority[call[p].doc]) :
       \E a \in Answers(call[p].op, now) :
         /\ authority' = [authority EXCEPT ![call[p].doc] = now]
         /\ call' = [call EXCEPT ![p].at = "answered", ![p].answer = a]
  /\ UNCHANGED <<doc, stored, late, mail, queue, copy>>

\* It works on a request nobody waits for any more.
RespondLate(r) ==
  /\ r \in late
  /\ late' = late \ {r}
  /\ \E now \in Decided(r.op, authority[r.doc]) :
       authority' = [authority EXCEPT ![r.doc] = now]
  /\ UNCHANGED <<doc, stored, call, mail, queue, copy>>

-----------------------------------------------------------------------------
(* issue, check_status, cancel *)

\* _validate_for_issue; a consultation is never refused; the check of cancel.
Accepts(op, emission) ==
  CASE op = "issue" -> emission \notin {"authorized", "cancelled"}
    [] op = "cancel" -> emission = "authorized"
    [] OTHER -> TRUE

Begin(p, op, d) ==
  /\ call[p].at = "idle"
  /\ Unlocked(d)
  /\ Accepts(op, doc[d].emission)
  /\ call' = [call EXCEPT ![p] = [Idle EXCEPT !.at = "asked", !.op = op, !.doc = d]]
  /\ UNCHANGED <<doc, stored, authority, late, mail, queue, copy>>

Answered(p, op, a) == call[p].at = "answered" /\ call[p].op = op /\ call[p].answer = a
Done(p) == call' = [call EXCEPT ![p] = Idle]

NextMail(m) ==
  /\ mail[m].status = "absent" /\ m \notin queue
  /\ \A p \in Process : call[p].mail # m

\* apply_async within the transaction: the task is in the broker before the row of
\* the delivery is committed, or not at all when the broker fails.
QueueMail(p) ==
  /\ Answered(p, "issue", "authorized")
  /\ \E m \in Mail :
       /\ NextMail(m)
       /\ call' = [call EXCEPT ![p].at = "filed", ![p].mail = m]
       /\ queue' \in {queue, queue \cup {m}}
  /\ UNCHANGED <<doc, stored, authority, late, mail, copy>>

Authorized(key) == [emission |-> "authorized", key |-> key, typed |-> FALSE]
\* A row whose emission status an operation has set, its key as it was.
Settled(row, s) == [row EXCEPT !.emission = s, !.typed = FALSE]

\* The commit of an authorised issue: artifacts, status, key and delivery together.
CommitIssue(p) ==
  /\ Answered(p, "issue", "authorized") \/ call[p].at = "filed"
  /\ doc' = [doc EXCEPT ![call[p].doc] = Authorized(TRUE)]
  /\ stored' = stored \cup {call[p].doc}
  /\ mail' = [m \in Mail |-> IF m = call[p].mail
                             THEN [doc |-> call[p].doc, status |-> "scheduled"]
                             ELSE mail[m]]
  /\ Done(p)
  /\ UNCHANGED <<authority, late, queue, copy>>

\* Any other answer of an issue: rejected, or not recognised.
CommitRefusal(p) == \E a \in Answer \ {"authorized"} :
  /\ Answered(p, "issue", a)
  /\ doc' = [doc EXCEPT ![call[p].doc] = Settled(@, IF a = "rejected" THEN a ELSE "error")]
  /\ Done(p)
  /\ UNCHANGED <<stored, authority, late, mail, queue, copy>>

CheckedRow_Verbatim(row, a) == {Settled(row, a)}
\* check_status takes over an authorisation, with the key if the answer has one, and a
\* rejection; any other answer, a cancellation among them, only leaves an event.
CheckedRow(row, a) ==
  CASE a = "authorized" -> {Authorized(row.key), Authorized(TRUE)}
    [] a = "rejected" -> {Settled(row, a)}
    [] OTHER -> {row}

CommitCheck(p) ==
  /\ call[p].at = "answered" /\ call[p].op = "check_status"
  /\ \E row \in CheckedRow(doc[call[p].doc], call[p].answer) :
       doc' = [doc EXCEPT ![call[p].doc] = row]
  /\ Done(p)
  /\ UNCHANGED <<stored, authority, late, mail, queue, copy>>

CancelConfirmed_Any(p) == call[p].at = "answered" /\ call[p].op = "cancel"
\* Only the answer cancelled is taken for a cancellation.
CancelConfirmed(p) == Answered(p, "cancel", "cancelled")

CommitCancel(p) ==
  /\ CancelConfirmed(p)
  /\ doc' = [doc EXCEPT ![call[p].doc] = Settled(@, "cancelled")]
  /\ Done(p)
  /\ UNCHANGED <<stored, authority, late, mail, queue, copy>>

\* A timeout, an exception, an answer without XML, DANFE, key or protocol, a partner
\* without e-mail, the death of the process: everything written is undone.
Rollback(p) ==
  /\ call[p].at # "idle"
  /\ late' = IF call[p].at = "asked"
             THEN late \cup {[op |-> call[p].op, doc |-> call[p].doc]} ELSE late
  /\ Done(p)
  /\ UNCHANGED <<doc, stored, authority, mail, queue, copy>>

-----------------------------------------------------------------------------
(* Mail *)

Mailable_StatusOnly(d) == doc[d].emission = "authorized"
Mailable(d) == doc[d].emission = "authorized" /\ d \in stored

\* schedule_email_delivery as the action of a user: reads the document unlocked.
ScheduleMail(d) ==
  /\ Mailable(d)
  /\ \E m \in Mail :
       /\ NextMail(m)
       /\ mail' = [mail EXCEPT ![m] = [doc |-> d, status |-> "scheduled"]]
       /\ queue' \in {queue, queue \cup {m}}
  /\ UNCHANGED <<doc, stored, authority, call, late, copy>>

\* The task looks up its delivery and marks it as being sent.
SendMail(m) ==
  /\ m \in queue
  /\ queue' = queue \ {m}
  /\ mail[m].status \notin {"absent", "sent"}
  /\ mail' = [mail EXCEPT ![m].status = "sending"]
  /\ UNCHANGED <<doc, stored, authority, call, late, copy>>

\* It finds no row, none that is committed, or no user who asked for it.
DropTask(m) ==
  /\ m \in queue
  /\ queue' = queue \ {m}
  /\ UNCHANGED <<doc, stored, authority, call, late, mail, copy>>

\* The files cannot be read, the mail server refuses, or the mail is on its way.
EndMail(m) ==
  /\ mail[m].status = "sending"
  /\ \E s \in {"sent", "failed"} : mail' = [mail EXCEPT ![m].status = s]
  /\ UNCHANGED <<doc, stored, authority, call, late, queue, copy>>

-----------------------------------------------------------------------------
(* Plain edits *)

\* What a form can hold.  Its statuses validating and sent are not_sent to every guard.
TypedRow == [emission : Emission, key : BOOLEAN, typed : {TRUE}]

\* The serializer keeps the emission fields as they were read; the form has them as fields.
ReadDocument(e, d) == \E row \in {doc[d]} \cup TypedRow :
  /\ copy[e].doc = "none"
  /\ copy' = [copy EXCEPT ![e] = [doc |-> d, row |-> row]]
  /\ UNCHANGED <<doc, stored, authority, call, late, mail, queue>>

\* full_clean: an authorised document has its key, whatever it is.  A cancelled one needs
\* a protocol, which an operation has given it or the user types with the status.
Clean(row) == row.emission = "authorized" => row.key

\* The UPDATE waits for the lock and then writes every column.
SaveDocument(e) ==
  /\ copy[e].doc # "none"
  /\ Unlocked(copy[e].doc)
  /\ Clean(copy[e].row)
  /\ doc' = [doc EXCEPT ![copy[e].doc] = copy[e].row]
  /\ copy' = [copy EXCEPT ![e] = NoCopy]
  /\ UNCHANGED <<stored, authority, call, late, mail, queue>>

RefuseEdit(e) ==
  /\ copy[e].doc # "none" /\ ~Clean(copy[e].row)
  /\ copy' = [copy EXCEPT ![e] = NoCopy]
  /\ UNCHANGED <<doc, stored, authority, call, late, mail, queue>>

-----------------------------------------------------------------------------
Transact(p) ==
  \/ \E op \in Operation, d \in Document : Begin(p, op, d)
  \/ QueueMail(p) \/ CommitIssue(p) \/ CommitRefusal(p)
  \/ CommitCheck(p) \/ CommitCancel(p) \/ Rollback(p)

Next ==
  \/ \E p \in Process : Transact(p) \/ Respond(p)
  \/ \E r \in late : RespondLate(r)
  \/ \E d \in Document : ScheduleMail(d)
  \/ \E m \in Mail : SendMail(m) \/ DropTask(m) \/ EndMail(m)
  \/ \E e \in Editor : SaveDocument(e) \/ RefuseEdit(e)
                       \/ \E d \in Document : ReadDocument(e, d)

Spec == Init /\ [][Next]_vars

-----------------------------------------------------------------------------
(* Properties *)

\* Unless a form has set it, the record never claims more than the authority has done: a
\* document recorded as authorised was authorised, one recorded as cancelled was
\* cancelled, although answers are lost, requests arrive late, transactions are rolled
\* back, stale edits bring old states back, and operations start from what users have
\* typed (issue, check_status, cancel).
RecordIsBacked == \A d \in Document : ~doc[d].typed =>
  /\ doc[d].emission = "authorized" => authority[d] \in {"authorized", "cancelled"}
  /\ doc[d].emission = "cancelled" => authority[d] = "cancelled"

\* Every delivery is of a document the authority has authorised and whose XML and
\* DANFE are stored, whatever became of the document since (schedule_email_delivery).
MailCarriesInvoice == \A m \in Mail :
  mail[m].status # "absent" =>
    mail[m].doc \in stored /\ authority[mail[m].doc] \in {"authorized", "cancelled"}

\* What the record says of an authorisation or a cancellation is final for every answer
\* that was on its way: an authorised document becomes cancelled or nothing, a cancelled
\* one stays so, and the key is never lost.  Nothing but the save of an editor takes it
\* back; of what a form has set only the key is kept.
Overwritten(d) == \E e \in Editor : copy[e].doc = d /\ copy'[e].doc = "none"
Stands(d) ==
  /\ ~doc[d].typed =>
       /\ doc[d].emission = "authorized" => doc'[d].emission \in {"authorized", "cancelled"}
       /\ doc[d].emission = "cancelled" => doc'[d].emission = "cancelled"
  /\ doc[d].key => doc'[d].key
RecordStands == [][\A d \in Document : Stands(d) \/ Overwritten(d)]_vars
=============================================================================
