------------------------ MODULE FiscalEmission_proofs ------------------------
(***************************************************************************)
(* Proofs about FiscalEmission, for any documents, deliveries, concurrent  *)
(* transactions and editors.                                               *)
(***************************************************************************)
EXTENDS FiscalEmission, TLAPS

USE EmissionAssumption

\* The authority has authorised the document, now or before it cancelled it.
Issued == {"authorized", "cancelled"}

\* A row that no form has set claims no more than what the authority has decided.
BackedBy(row, decision) == ~row.typed =>
  /\ row.emission = "authorized" => decision \in Issued
  /\ row.emission = "cancelled" => decision = "cancelled"

\* A transaction that is not idle has a document, and its answer was true.
TruthfulCall(c) ==
  /\ IF c.at = "idle" THEN c.doc = "none" ELSE c.doc \in Document /\ c.op \in Operation
  /\ c.at = "answered" /\ c.answer = "authorized" => authority[c.doc] \in Issued
  /\ c.at = "answered" /\ c.answer = "cancelled" => authority[c.doc] = "cancelled"
  /\ c.at = "filed" => authority[c.doc] \in Issued

\* Where no form has set the record: one that holds a cancelled document consults the
\* authority, and is not told otherwise; one that holds an authorised document does not
\* issue it, and no consultation of it is told that it was rejected.
SparesDecided(c) == c.at # "idle" /\ ~doc[c.doc].typed =>
  /\ doc[c.doc].emission = "cancelled" =>
       /\ c.op = "check_status" /\ c.at # "filed"
       /\ c.at = "answered" => c.answer \notin {"authorized", "rejected"}
  /\ doc[c.doc].emission = "authorized" =>
       /\ c.op # "issue" /\ c.at # "filed"
       /\ c.op = "check_status" /\ c.at = "answered" => c.answer # "rejected"

\* No two transactions hold one document.
LocksHeld == \A p, q \in Process : p # q /\ call[p].doc = call[q].doc => call[p].doc = "none"

CallsSound == \A p \in Process : TruthfulCall(call[p]) /\ SparesDecided(call[p])
RowsBacked == \A d \in Document : BackedBy(doc[d], authority[d])
CopiesBacked == \A e \in Editor :
  copy[e].doc # "none" => BackedBy(copy[e].row, authority[copy[e].doc])
StoredIssued == \A d \in stored : authority[d] \in Issued
MailStored == \A m \in Mail : mail[m].status # "absent" => mail[m].doc \in stored

\* The inductive invariant.  An answer stays true until its commit because the authority
\* takes nothing back, and meets the row it was asked for because the lock is held.
IndInv ==
  /\ EmissionTypeOK
  /\ LocksHeld /\ CallsSound
  /\ RowsBacked /\ CopiesBacked
  /\ StoredIssued /\ MailStored

-----------------------------------------------------------------------------
(* Types *)

\* The records the actions write.
LEMMA Rows ==
  /\ Idle \in CallRow /\ NoMail \in MailRow /\ NoCopy \in CopyRow /\ NewDocument \in DocRow
  /\ \A k \in BOOLEAN : Authorized(k) \in DocRow
  /\ \A row \in DocRow, s \in {"rejected", "cancelled", "error"} :
       Settled(row, s) \in DocRow
  /\ TypedRow \subseteq DocRow
  /\ \A op \in Operation, d \in Document :
       [Idle EXCEPT !.at = "asked", !.op = op, !.doc = d] \in CallRow
  /\ \A c \in CallRow, a \in Answer : [c EXCEPT !.at = "answered", !.answer = a] \in CallRow
  /\ \A c \in CallRow, m \in Mail : [c EXCEPT !.at = "filed", !.mail = m] \in CallRow
  /\ \A d \in Document : [doc |-> d, status |-> "scheduled"] \in MailRow
  /\ \A row \in MailRow, s \in {"sending", "sent", "failed"} :
       [row EXCEPT !.status = s] \in MailRow
BY DEF Idle, CallRow, NoMail, MailRow, NoCopy, CopyRow, NewDocument, DocRow, Authorized,
       Settled, TypedRow, Emission, Operation, Answer

LEMMA CheckedType ==
  ASSUME NEW row \in DocRow, NEW a
  PROVE  CheckedRow(row, a) \subseteq DocRow
<1>1. row.key \in BOOLEAN
  BY DEF DocRow
<1>2. {Authorized(row.key), Authorized(TRUE)} \subseteq DocRow
  BY <1>1, Rows
<1>3. Settled(row, "rejected") \in DocRow
  BY Rows
<1>4. CASE a = "authorized"
  BY <1>2, <1>4 DEF CheckedRow
<1>5. CASE a = "rejected"
  BY <1>3, <1>5 DEF CheckedRow
<1>6. CASE a \notin {"authorized", "rejected"}
  BY <1>6 DEF CheckedRow
<1> QED BY <1>4, <1>5, <1>6

\* The authority decides and answers within its types, and takes nothing back.
LEMMA Decision ==
  ASSUME NEW op \in Operation, NEW was \in {"unknown", "rejected", "authorized", "cancelled"},
         NEW now \in Decided(op, was)
  PROVE  /\ now \in {"unknown", "rejected", "authorized", "cancelled"}
         /\ was \in Issued => now \in Issued
         /\ was = "cancelled" => now = "cancelled"
         /\ Answers(op, now) \subseteq Answer
         /\ "authorized" \in Answers(op, now) => now \in Issued
         /\ "cancelled" \in Answers(op, now) => now = "cancelled"
         /\ now = "cancelled" /\ op = "check_status" =>
              "authorized" \notin Answers(op, now) /\ "rejected" \notin Answers(op, now)
         /\ now \in Issued /\ op = "check_status" => "rejected" \notin Answers(op, now)
BY DEF Decided, Answers, Honest, Operation, Answer, Issued

LEMMA InitType == Init => EmissionTypeOK
BY DEF Init, EmissionTypeOK, NewDocument, DocRow, Emission, Idle, CallRow, NoMail, MailRow, NoCopy, CopyRow

\* Transactions and the authority.
LEMMA TransactType ==
  ASSUME EmissionTypeOK, CallsSound, NEW p \in Process, Transact(p) \/ Respond(p)
  PROVE  EmissionTypeOK'
<1>0. /\ TruthfulCall(call[p]) /\ call[p] \in CallRow
      /\ call[p].at # "idle" => call[p].doc \in Document /\ call[p].op \in Operation
  BY DEF CallsSound, TruthfulCall, EmissionTypeOK
<1>1. ASSUME NEW op \in Operation, NEW d \in Document, Begin(p, op, d) PROVE EmissionTypeOK'
  BY <1>1, Rows DEF Begin, EmissionTypeOK
<1>2. CASE Respond(p)
  <2>0. PICK now \in Decided(call[p].op, authority[call[p].doc]) :
          \E a \in Answers(call[p].op, now) :
            /\ authority' = [authority EXCEPT ![call[p].doc] = now]
            /\ call' = [call EXCEPT ![p].at = "answered", ![p].answer = a]
    BY <1>2 DEF Respond
  <2>1. PICK a \in Answers(call[p].op, now) :
          /\ authority' = [authority EXCEPT ![call[p].doc] = now]
          /\ call' = [call EXCEPT ![p].at = "answered", ![p].answer = a]
    BY <2>0
  <2>2. call[p].doc \in Document /\ call[p].op \in Operation
    BY <1>0, <1>2 DEF Respond
  <2>3. authority[call[p].doc] \in {"unknown", "rejected", "authorized", "cancelled"}
    BY <2>2 DEF EmissionTypeOK
  <2>4. now \in {"unknown", "rejected", "authorized", "cancelled"} /\ a \in Answer
    BY <2>2, <2>3, Decision
  <2>5. [call[p] EXCEPT !.at = "answered", !.answer = a] \in CallRow
    BY <1>0, <2>4, Rows
  <2>6. call' = [call EXCEPT ![p] = [call[p] EXCEPT !.at = "answered", !.answer = a]]
    BY <2>1
  <2>7. call' \in [Process -> CallRow]
    BY <2>5, <2>6 DEF EmissionTypeOK
  <2>8. authority' \in [Document -> {"unknown", "rejected", "authorized", "cancelled"}]
    BY <2>1, <2>4 DEF EmissionTypeOK
  <2> QED BY <1>2, <2>7, <2>8 DEF Respond, EmissionTypeOK
<1>3. CASE QueueMail(p)
  <2>1. PICK m \in Mail :
          /\ call' = [call EXCEPT ![p].at = "filed", ![p].mail = m]
          /\ queue' \in {queue, queue \cup {m}}
          /\ UNCHANGED <<doc, stored, authority, late, mail, copy>>
    BY <1>3 DEF QueueMail
  <2>2. [call[p] EXCEPT !.at = "filed", !.mail = m] \in CallRow
    BY <1>0, Rows
  <2>3. call' = [call EXCEPT ![p] = [call[p] EXCEPT !.at = "filed", !.mail = m]]
    BY <2>1
  <2> QED BY <2>1, <2>2, <2>3 DEF EmissionTypeOK
<1>4. CASE CommitIssue(p)
  <2>1. call[p].doc \in Document
    BY <1>0, <1>4 DEF CommitIssue, Answered
  <2> QED BY <1>4, <2>1, Rows DEF CommitIssue, Done, EmissionTypeOK
<1>5. CASE CommitRefusal(p)
  <2>1. PICK s \in {"rejected", "error"} :
          doc' = [doc EXCEPT ![call[p].doc] = Settled(doc[call[p].doc], s)]
    BY <1>5 DEF CommitRefusal
  <2>2. Settled(doc[call[p].doc], s) \in DocRow
    BY <1>0, <1>5, Rows DEF CommitRefusal, Answered, EmissionTypeOK
  <2>3. doc' \in [Document -> DocRow]
    BY <2>1, <2>2 DEF EmissionTypeOK
  <2>4. /\ call' = [call EXCEPT ![p] = Idle]
        /\ UNCHANGED <<stored, authority, late, mail, queue, copy>>
    BY <1>5 DEF CommitRefusal, Done
  <2> QED BY <2>3, <2>4, Rows DEF EmissionTypeOK
<1>6. CASE CommitCheck(p)
  <2>1. PICK row \in CheckedRow(doc[call[p].doc], call[p].answer) :
          doc' = [doc EXCEPT ![call[p].doc] = row]
    BY <1>6 DEF CommitCheck
  <2>2. doc[call[p].doc] \in DocRow
    BY <1>0, <1>6 DEF CommitCheck, EmissionTypeOK
  <2>3. row \in DocRow
    BY <2>1, <2>2, CheckedType
  <2> QED BY <1>6, <2>1, <2>3, Rows DEF CommitCheck, Done, EmissionTypeOK
<1>7. CASE CommitCancel(p)
  <2>1. Settled(doc[call[p].doc], "cancelled") \in DocRow
    BY <1>0, <1>7, Rows DEF CommitCancel, CancelConfirmed, Answered, EmissionTypeOK
  <2>2. doc' \in [Document -> DocRow]
    BY <1>7, <2>1 DEF CommitCancel, EmissionTypeOK
  <2> QED BY <1>7, <2>2, Rows DEF CommitCancel, Done, EmissionTypeOK
<1>8. CASE Rollback(p)
  <2>1. [op |-> call[p].op, doc |-> call[p].doc] \in Request
    BY <1>0, <1>8 DEF Rollback, Request
  <2>2. late' \subseteq Request
    BY <1>8, <2>1 DEF Rollback, EmissionTypeOK
  <2> QED BY <1>8, <2>2, Rows DEF Rollback, Done, EmissionTypeOK
<1> QED BY <1>1, <1>2, <1>3, <1>4, <1>5, <1>6, <1>7, <1>8 DEF Transact

\* Late requests, mail and editors.
LEMMA OutsideType ==
  ASSUME EmissionTypeOK,
         \/ \E r \in late : RespondLate(r)
         \/ \E d \in Document : ScheduleMail(d)
         \/ \E m \in Mail : SendMail(m) \/ DropTask(m) \/ EndMail(m)
         \/ \E e \in Editor : \/ SaveDocument(e) \/ RefuseEdit(e)
                              \/ \E d \in Document : ReadDocument(e, d)
  PROVE  EmissionTypeOK'
<1>1. ASSUME NEW r \in late, RespondLate(r) PROVE EmissionTypeOK'
  <2>1. r.op \in Operation /\ r.doc \in Document
    BY DEF EmissionTypeOK, Request
  <2>2. authority[r.doc] \in {"unknown", "rejected", "authorized", "cancelled"}
    BY <2>1 DEF EmissionTypeOK
  <2>3. PICK now \in Decided(r.op, authority[r.doc]) :
          authority' = [authority EXCEPT ![r.doc] = now]
    BY <1>1 DEF RespondLate
  <2>4. now \in {"unknown", "rejected", "authorized", "cancelled"}
    BY <2>1, <2>2, Decision
  <2> QED BY <1>1, <2>3, <2>4 DEF RespondLate, EmissionTypeOK
<1>2. ASSUME NEW d \in Document, ScheduleMail(d) PROVE EmissionTypeOK'
  BY <1>2, Rows DEF ScheduleMail, EmissionTypeOK
<1>3. ASSUME NEW m \in Mail, SendMail(m) PROVE EmissionTypeOK'
  <2>1. [mail[m] EXCEPT !.status = "sending"] \in MailRow
    BY Rows DEF EmissionTypeOK
  <2> QED BY <1>3, <2>1 DEF SendMail, EmissionTypeOK
<1>4. ASSUME NEW m \in Mail, DropTask(m) PROVE EmissionTypeOK'
  BY <1>4 DEF DropTask, EmissionTypeOK
<1>5. ASSUME NEW m \in Mail, EndMail(m) PROVE EmissionTypeOK'
  <2>1. PICK s \in {"sent", "failed"} : mail' = [mail EXCEPT ![m].status = s]
    BY <1>5 DEF EndMail
  <2>2. [mail[m] EXCEPT !.status = s] \in MailRow
    BY Rows DEF EmissionTypeOK
  <2> QED BY <1>5, <2>1, <2>2 DEF EndMail, EmissionTypeOK
<1>6. ASSUME NEW e \in Editor, SaveDocument(e) PROVE EmissionTypeOK'
  <2>1. copy[e].row \in DocRow
    BY DEF EmissionTypeOK, CopyRow
  <2> QED BY <1>6, <2>1, Rows DEF SaveDocument, EmissionTypeOK
<1>7. ASSUME NEW e \in Editor, RefuseEdit(e) PROVE EmissionTypeOK'
  BY <1>7, Rows DEF RefuseEdit, EmissionTypeOK
<1>8. ASSUME NEW e \in Editor, NEW d \in Document, ReadDocument(e, d) PROVE EmissionTypeOK'
  <2>1. \A row \in {doc[d]} \cup TypedRow : [doc |-> d, row |-> row] \in CopyRow
    BY Rows DEF EmissionTypeOK, CopyRow
  <2> QED BY <1>8, <2>1 DEF ReadDocument, EmissionTypeOK
<1> QED BY <1>1, <1>2, <1>3, <1>4, <1>5, <1>6, <1>7, <1>8

LEMMA StepType == EmissionTypeOK /\ CallsSound /\ Next => EmissionTypeOK'
BY TransactType, OutsideType DEF Next

-----------------------------------------------------------------------------
(* What a step may do to the authority, to the rows and to the transactions *)

\* The actions that change neither the record nor a transaction nor the authority.
MailStep ==
  \/ \E d \in Document : ScheduleMail(d)
  \/ \E m \in Mail : SendMail(m) \/ DropTask(m) \/ EndMail(m)
EditStep ==
  \E e \in Editor : \/ SaveDocument(e) \/ RefuseEdit(e)
                    \/ \E d \in Document : ReadDocument(e, d)

LEMMA MailFrame ==
  MailStep \/ (\E e \in Editor : RefuseEdit(e) \/ \E d \in Document : ReadDocument(e, d))
    => UNCHANGED <<doc, authority, call>>
BY DEF MailStep, ScheduleMail, SendMail, DropTask, EndMail, RefuseEdit, ReadDocument

\* A transaction that ends.
Ends(p) == CommitIssue(p) \/ CommitRefusal(p) \/ CommitCheck(p) \/ CommitCancel(p) \/ Rollback(p)

LEMMA Cases ==
  ASSUME Next
  PROVE  \/ \E p \in Process : \/ \E op \in Operation, d \in Document : Begin(p, op, d)
                               \/ Respond(p) \/ QueueMail(p) \/ Ends(p)
         \/ \E r \in late : RespondLate(r)
         \/ MailStep \/ EditStep
BY DEF Next, Transact, Ends, MailStep, EditStep

\* A transaction that ends leaves the others and the authority alone.
LEMMA EndFrame ==
  ASSUME NEW p \in Process, Ends(p)
  PROVE  call' = [call EXCEPT ![p] = Idle] /\ authority' = authority
BY DEF Ends, CommitIssue, CommitRefusal, CommitCheck, CommitCancel, Rollback, Done

\* What a transaction has at hand.
LEMMA Held ==
  ASSUME IndInv, NEW p \in Process
  PROVE  /\ call[p] \in CallRow /\ TruthfulCall(call[p]) /\ SparesDecided(call[p])
         /\ call[p].at # "idle" =>
              /\ call[p].doc \in Document /\ call[p].op \in Operation
              /\ doc[call[p].doc] \in DocRow
              /\ authority[call[p].doc] \in {"unknown", "rejected", "authorized", "cancelled"}
              /\ BackedBy(doc[call[p].doc], authority[call[p].doc])
BY DEF IndInv, EmissionTypeOK, CallsSound, TruthfulCall, RowsBacked

LEMMA AuthorityGrows ==
  ASSUME IndInv, Next, NEW d \in Document
  PROVE  /\ authority[d] \in Issued => authority'[d] \in Issued
         /\ authority[d] = "cancelled" => authority'[d] = "cancelled"
<1>0. authority \in [Document -> {"unknown", "rejected", "authorized", "cancelled"}]
  BY DEF IndInv, EmissionTypeOK
<1>1. ASSUME NEW op \in Operation, NEW f \in Document, NEW now \in Decided(op, authority[f]),
             authority' = [authority EXCEPT ![f] = now]
      PROVE  /\ authority[d] \in Issued => authority'[d] \in Issued
             /\ authority[d] = "cancelled" => authority'[d] = "cancelled"
  <2>1. authority[f] \in Issued => now \in Issued
    BY <1>0, <1>1, Decision
  <2>2. authority[f] = "cancelled" => now = "cancelled"
    BY <1>0, <1>1, Decision
  <2> QED BY <1>0, <1>1, <2>1, <2>2
<1>2. ASSUME NEW p \in Process, Respond(p)
      PROVE  /\ authority[d] \in Issued => authority'[d] \in Issued
             /\ authority[d] = "cancelled" => authority'[d] = "cancelled"
  <2>1. call[p].doc \in Document /\ call[p].op \in Operation
    BY <1>2, Held DEF Respond
  <2>2. PICK now \in Decided(call[p].op, authority[call[p].doc]) :
          authority' = [authority EXCEPT ![call[p].doc] = now]
    BY <1>2 DEF Respond
  <2> QED BY <1>1, <2>1, <2>2
<1>3. ASSUME NEW r \in late, RespondLate(r)
      PROVE  /\ authority[d] \in Issued => authority'[d] \in Issued
             /\ authority[d] = "cancelled" => authority'[d] = "cancelled"
  <2>1. r.op \in Operation /\ r.doc \in Document
    BY DEF IndInv, EmissionTypeOK, Request
  <2>2. PICK now \in Decided(r.op, authority[r.doc]) :
          authority' = [authority EXCEPT ![r.doc] = now]
    BY <1>3 DEF RespondLate
  <2> QED BY <1>1, <2>1, <2>2
<1>4. CASE authority' = authority
  BY <1>4
<1>5. ASSUME NEW e \in Editor, SaveDocument(e) PROVE authority' = authority
  BY <1>5 DEF SaveDocument
<1> QED BY <1>2, <1>3, <1>4, <1>5, Cases, EndFrame, MailFrame DEF Begin, QueueMail, EditStep

\* A row that is written claims no more than the authority has decided.
LEMMA RowStep ==
  ASSUME IndInv, Next, NEW d \in Document
  PROVE  doc'[d] = doc[d] \/ BackedBy(doc'[d], authority[d])
<1>0. doc \in [Document -> DocRow]
  BY DEF IndInv, EmissionTypeOK
<1>1. ASSUME NEW p \in Process, NEW row, call[p].at # "idle",
             doc' = [doc EXCEPT ![call[p].doc] = row],
             BackedBy(row, authority[call[p].doc])
      PROVE  doc'[d] = doc[d] \/ BackedBy(doc'[d], authority[d])
  BY <1>0, <1>1, Held
<1>2. ASSUME NEW p \in Process, CommitIssue(p)
      PROVE  doc'[d] = doc[d] \/ BackedBy(doc'[d], authority[d])
  <2>1. call[p].at # "idle" /\ authority[call[p].doc] \in Issued
    BY <1>2, Held DEF CommitIssue, Answered, TruthfulCall
  <2>2. BackedBy(Authorized(TRUE), authority[call[p].doc])
    BY <2>1 DEF BackedBy, Authorized
  <2> QED BY <1>1, <1>2, <2>1, <2>2 DEF CommitIssue
<1>3. ASSUME NEW p \in Process, CommitRefusal(p)
      PROVE  doc'[d] = doc[d] \/ BackedBy(doc'[d], authority[d])
  <2>1. call[p].at # "idle"
    BY <1>3 DEF CommitRefusal, Answered
  <2>2. PICK s \in {"rejected", "error"} :
          doc' = [doc EXCEPT ![call[p].doc] = Settled(doc[call[p].doc], s)]
    BY <1>3 DEF CommitRefusal
  <2>3. Settled(doc[call[p].doc], s).emission = s
    BY <2>1, Held DEF DocRow, Settled
  <2>4. BackedBy(Settled(doc[call[p].doc], s), authority[call[p].doc])
    BY <2>3 DEF BackedBy
  <2> QED BY <1>1, <2>1, <2>2, <2>4
<1>4. ASSUME NEW p \in Process, CommitCheck(p)
      PROVE  doc'[d] = doc[d] \/ BackedBy(doc'[d], authority[d])
  <2>1. PICK row \in CheckedRow(doc[call[p].doc], call[p].answer) :
          doc' = [doc EXCEPT ![call[p].doc] = row]
    BY <1>4 DEF CommitCheck
  <2>2. call[p].at = "answered" /\ doc[call[p].doc] \in DocRow
    BY <1>4, Held DEF CommitCheck
  <2>3. CASE call[p].answer = "authorized"
    <3>1. authority[call[p].doc] \in Issued
      BY <2>2, <2>3, Held DEF TruthfulCall
    <3>2. row.emission = "authorized"
      BY <2>1, <2>3 DEF CheckedRow, Authorized
    <3> QED BY <1>1, <2>1, <2>2, <3>1, <3>2 DEF BackedBy
  <2>4. CASE call[p].answer = "rejected"
    <3>1. row.emission = "rejected"
      BY <2>1, <2>2, <2>4 DEF CheckedRow, Settled, DocRow
    <3> QED BY <1>1, <2>1, <2>2, <3>1 DEF BackedBy
  <2>5. CASE call[p].answer \notin {"authorized", "rejected"}
    <3>1. row = doc[call[p].doc]
      BY <2>1, <2>5 DEF CheckedRow
    <3> QED BY <1>0, <2>1, <3>1
  <2> QED BY <2>3, <2>4, <2>5
<1>5. ASSUME NEW p \in Process, CommitCancel(p)
      PROVE  doc'[d] = doc[d] \/ BackedBy(doc'[d], authority[d])
  <2>1. call[p].at # "idle" /\ authority[call[p].doc] = "cancelled"
    BY <1>5, Held DEF CommitCancel, CancelConfirmed, Answered, TruthfulCall
  <2>2. BackedBy(Settled(doc[call[p].doc], "cancelled"), authority[call[p].doc])
    BY <2>1, Held DEF BackedBy, Settled, DocRow, Issued
  <2>3. doc' = [doc EXCEPT ![call[p].doc] = Settled(doc[call[p].doc], "cancelled")]
    BY <1>5 DEF CommitCancel
  <2> QED BY <1>1, <2>1, <2>2, <2>3
<1>6. ASSUME NEW e \in Editor, SaveDocument(e)
      PROVE  doc'[d] = doc[d] \/ BackedBy(doc'[d], authority[d])
  <2>1. BackedBy(copy[e].row, authority[copy[e].doc])
    BY <1>6 DEF SaveDocument, IndInv, CopiesBacked
  <2> QED BY <1>0, <1>6, <2>1 DEF SaveDocument
<1>7. CASE doc' = doc
  BY <1>7
<1>8. ASSUME NEW p \in Process, Rollback(p) PROVE doc' = doc
  BY <1>8 DEF Rollback
<1> QED BY <1>2, <1>3, <1>4, <1>5, <1>6, <1>7, <1>8, Cases, MailFrame
        DEF Ends, Begin, Respond, QueueMail, RespondLate, EditStep

-----------------------------------------------------------------------------
(* Locks and transactions *)

\* A step writes the row of no document that a transaction of another process holds.
LEMMA HeldRowKept ==
  ASSUME IndInv, Next, NEW q \in Process, call[q].at # "idle", ~Ends(q)
  PROVE  doc'[call[q].doc] = doc[call[q].doc]
<1>0. /\ doc \in [Document -> DocRow] /\ call[q].doc \in Document /\ call[q].doc # "none"
  BY Held DEF IndInv, EmissionTypeOK
<1>1. ASSUME NEW p \in Process, Ends(p) PROVE doc'[call[q].doc] = doc[call[q].doc]
  <2>1. call[p].doc # call[q].doc
    BY <1>0, <1>1 DEF IndInv, LocksHeld
  <2>2. doc' = doc \/ \E row : doc' = [doc EXCEPT ![call[p].doc] = row]
    BY <1>1 DEF Ends, CommitIssue, CommitRefusal, CommitCheck, CommitCancel, Rollback
  <2> QED BY <1>0, <2>1, <2>2
<1>2. ASSUME NEW e \in Editor, SaveDocument(e) PROVE doc'[call[q].doc] = doc[call[q].doc]
  <2>1. call[q].doc # copy[e].doc
    BY <1>2 DEF SaveDocument, Unlocked
  <2> QED BY <1>0, <1>2, <2>1 DEF SaveDocument
<1>3. CASE doc' = doc
  BY <1>3
<1> QED BY <1>1, <1>2, <1>3, Cases, MailFrame DEF Begin, Respond, QueueMail, RespondLate, EditStep

LEMMA LocksPreserved ==
  ASSUME IndInv, Next
  PROVE  LocksHeld'
<1>0. call \in [Process -> CallRow]
  BY DEF IndInv, EmissionTypeOK
<1>1. ASSUME NEW p \in Process, NEW op \in Operation, NEW d \in Document, Begin(p, op, d)
      PROVE  LocksHeld'
  <2>1. /\ call'[p].doc = d
        /\ \A q \in Process : q # p => call'[q] = call[q] /\ call[q].doc # d
    BY <1>0, <1>1 DEF Begin, Unlocked, Idle
  <2> QED BY <2>1 DEF IndInv, LocksHeld
<1>2. ASSUME NEW p \in Process, Respond(p) \/ QueueMail(p)
      PROVE  LocksHeld'
  <2>1. \A q \in Process : call'[q].doc = call[q].doc
    BY <1>0, <1>2 DEF Respond, QueueMail, CallRow
  <2> QED BY <2>1 DEF IndInv, LocksHeld
<1>3. ASSUME NEW p \in Process, Ends(p)
      PROVE  LocksHeld'
  <2>1. call'[p].doc = "none" /\ \A q \in Process : q # p => call'[q] = call[q]
    BY <1>0, <1>3, EndFrame DEF Idle
  <2> QED BY <2>1 DEF IndInv, LocksHeld
<1>4. CASE call' = call
  BY <1>4 DEF IndInv, LocksHeld
<1>5. ASSUME NEW e \in Editor, SaveDocument(e) PROVE call' = call
  BY <1>5 DEF SaveDocument
<1> QED BY <1>1, <1>2, <1>3, <1>4, <1>5, Cases, MailFrame DEF RespondLate, EditStep

\* A transaction that does nothing stays sound while others act.
LEMMA CallKept ==
  ASSUME IndInv, Next, NEW q \in Process, call'[q] = call[q], ~Ends(q)
  PROVE  TruthfulCall(call[q])' /\ SparesDecided(call[q])'
<1>0. TruthfulCall(call[q]) /\ SparesDecided(call[q])
  BY Held
<1>1. CASE call[q].at = "idle"
  BY <1>0, <1>1 DEF TruthfulCall, SparesDecided
<1>2. CASE call[q].at # "idle"
  <2>1. call[q].doc \in Document
    BY <1>2, Held
  <2>2. /\ authority[call[q].doc] \in Issued => authority'[call[q].doc] \in Issued
        /\ authority[call[q].doc] = "cancelled" => authority'[call[q].doc] = "cancelled"
    BY <2>1, AuthorityGrows
  <2>3. doc'[call[q].doc] = doc[call[q].doc]
    BY <1>2, HeldRowKept
  <2> QED BY <1>0, <1>2, <2>2, <2>3 DEF TruthfulCall, SparesDecided
<1> QED BY <1>1, <1>2

LEMMA CallsPreserved ==
  ASSUME IndInv, Next
  PROVE  CallsSound'
<1>0. call \in [Process -> CallRow]
  BY DEF IndInv, EmissionTypeOK
<1>1. SUFFICES ASSUME NEW q \in Process
               PROVE  TruthfulCall(call[q])' /\ SparesDecided(call[q])'
  BY DEF CallsSound
<1>2. ASSUME NEW op \in Operation, NEW d \in Document, Begin(q, op, d)
      PROVE  TruthfulCall(call[q])' /\ SparesDecided(call[q])'
  <2>1. call'[q].at = "asked" /\ call'[q].op = op /\ call'[q].doc = d /\ doc' = doc
    BY <1>0, <1>2 DEF Begin, Idle
  <2>2. /\ doc[d].emission = "cancelled" => op = "check_status"
        /\ doc[d].emission = "authorized" => op # "issue"
    BY <1>2 DEF Begin, Accepts, Operation
  <2> QED BY <2>1, <2>2 DEF TruthfulCall, SparesDecided
<1>3. ASSUME Respond(q)
      PROVE  TruthfulCall(call[q])' /\ SparesDecided(call[q])'
  <2>0. PICK now \in Decided(call[q].op, authority[call[q].doc]) :
          \E a \in Answers(call[q].op, now) :
            /\ authority' = [authority EXCEPT ![call[q].doc] = now]
            /\ call' = [call EXCEPT ![q].at = "answered", ![q].answer = a]
    BY <1>3 DEF Respond
  <2>1. PICK a \in Answers(call[q].op, now) :
          /\ authority' = [authority EXCEPT ![call[q].doc] = now]
          /\ call' = [call EXCEPT ![q].at = "answered", ![q].answer = a]
    BY <2>0
  <2>2. /\ call[q].at # "idle" /\ doc' = doc
        /\ call[q].doc \in Document /\ call[q].op \in Operation
        /\ authority[call[q].doc] \in {"unknown", "rejected", "authorized", "cancelled"}
    BY <1>3, Held DEF Respond
  <2>3. /\ call'[q].at = "answered" /\ call'[q].answer = a
        /\ call'[q].op = call[q].op /\ call'[q].doc = call[q].doc
    BY <1>0, <2>1 DEF CallRow
  <2>4. authority'[call[q].doc] = now
    BY <2>1, <2>2 DEF IndInv, EmissionTypeOK
  <2>5. /\ a = "authorized" => now \in Issued
        /\ a = "cancelled" => now = "cancelled"
    BY <2>2, Decision
  <2>6. ASSUME ~doc[call[q].doc].typed, doc[call[q].doc].emission = "cancelled"
        PROVE  call[q].op = "check_status" /\ a \notin {"authorized", "rejected"}
    <3>1. call[q].op = "check_status"
      BY <2>2, <2>6, Held DEF SparesDecided
    <3>2. authority[call[q].doc] = "cancelled"
      BY <2>2, <2>6, Held DEF BackedBy
    <3> QED BY <2>1, <2>2, <3>1, <3>2, Decision
  <2>7. ASSUME ~doc[call[q].doc].typed, doc[call[q].doc].emission = "authorized"
        PROVE  call[q].op # "issue" /\ (call[q].op = "check_status" => a # "rejected")
    <3>1. call[q].op # "issue"
      BY <2>2, <2>7, Held DEF SparesDecided
    <3>2. authority[call[q].doc] \in Issued
      BY <2>2, <2>7, Held DEF BackedBy
    <3> QED BY <2>1, <2>2, <3>1, <3>2, Decision
  <2> QED BY <2>2, <2>3, <2>4, <2>5, <2>6, <2>7 DEF TruthfulCall, SparesDecided
<1>4. ASSUME QueueMail(q)
      PROVE  TruthfulCall(call[q])' /\ SparesDecided(call[q])'
  <2>1. /\ call'[q].at = "filed" /\ call'[q].op = call[q].op /\ call'[q].doc = call[q].doc
        /\ doc' = doc /\ authority' = authority
    BY <1>0, <1>4 DEF QueueMail, CallRow
  <2>2. call[q].at = "answered" /\ call[q].op = "issue" /\ call[q].answer = "authorized"
    BY <1>4 DEF QueueMail, Answered
  <2>3. TruthfulCall(call[q]) /\ SparesDecided(call[q])
    BY Held
  <2> QED BY <2>1, <2>2, <2>3 DEF TruthfulCall, SparesDecided
<1>5. ASSUME Ends(q)
      PROVE  TruthfulCall(call[q])' /\ SparesDecided(call[q])'
  <2>1. call'[q].at = "idle" /\ call'[q].doc = "none"
    BY <1>0, <1>5, EndFrame DEF Idle
  <2> QED BY <2>1 DEF TruthfulCall, SparesDecided
<1>6. ASSUME call'[q] = call[q], ~Ends(q)
      PROVE  TruthfulCall(call[q])' /\ SparesDecided(call[q])'
  BY <1>6, CallKept
<1>7. ASSUME NEW p \in Process, p # q,
             \/ \E op \in Operation, d \in Document : Begin(p, op, d)
             \/ Respond(p) \/ QueueMail(p) \/ Ends(p)
      PROVE  call'[q] = call[q]
  BY <1>0, <1>7, EndFrame DEF Begin, Respond, QueueMail
<1>8. CASE call' = call
  BY <1>5, <1>6, <1>8
<1>9. ASSUME NEW e \in Editor, SaveDocument(e) PROVE call' = call
  BY <1>9 DEF SaveDocument
<1> QED BY <1>2, <1>3, <1>4, <1>5, <1>6, <1>7, <1>8, <1>9, Cases, MailFrame
        DEF RespondLate, EditStep

-----------------------------------------------------------------------------
(* Rows, copies, artifacts and mail *)

LEMMA RowsPreserved ==
  ASSUME IndInv, Next
  PROVE  RowsBacked'
<1>1. ASSUME NEW d \in Document PROVE BackedBy(doc'[d], authority'[d])
  <2>1. BackedBy(doc'[d], authority[d])
    BY RowStep DEF IndInv, RowsBacked
  <2> QED BY <2>1, AuthorityGrows DEF BackedBy
<1> QED BY <1>1 DEF RowsBacked

LEMMA CopiesPreserved ==
  ASSUME IndInv, Next
  PROVE  CopiesBacked'
<1>0. /\ copy \in [Editor -> CopyRow]
      /\ \A f \in Editor : copy[f].doc # "none" => copy[f].doc \in Document
  BY DEF IndInv, EmissionTypeOK, CopyRow
<1>1. SUFFICES ASSUME NEW f \in Editor, copy'[f].doc # "none"
               PROVE  BackedBy(copy'[f].row, authority'[copy'[f].doc])
  BY DEF CopiesBacked
<1>2. CASE copy'[f] = copy[f]
  <2>1. BackedBy(copy[f].row, authority[copy[f].doc]) /\ copy[f].doc \in Document
    BY <1>0, <1>1, <1>2 DEF IndInv, CopiesBacked
  <2> QED BY <1>2, <2>1, AuthorityGrows DEF BackedBy
<1>3. ASSUME NEW e \in Editor, NEW d \in Document, ReadDocument(e, d), copy'[f] # copy[f]
      PROVE  BackedBy(copy'[f].row, authority'[copy'[f].doc])
  <2>1. PICK row \in {doc[d]} \cup TypedRow :
          copy'[f] = [doc |-> d, row |-> row] /\ authority' = authority
    BY <1>0, <1>3 DEF ReadDocument
  <2>2. BackedBy(row, authority[d])
    BY DEF IndInv, RowsBacked, BackedBy, TypedRow
  <2> QED BY <2>1, <2>2
<1>4. ASSUME NEW e \in Editor, SaveDocument(e) \/ RefuseEdit(e) PROVE copy'[f] = copy[f]
  BY <1>0, <1>1, <1>4 DEF SaveDocument, RefuseEdit, NoCopy
<1>5. ASSUME copy' = copy PROVE copy'[f] = copy[f]
  BY <1>5
<1> QED BY <1>2, <1>3, <1>4, <1>5, Cases
        DEF Begin, Respond, QueueMail, Ends, CommitIssue, CommitRefusal, CommitCheck, CommitCancel,
            Rollback, RespondLate, MailStep, ScheduleMail, SendMail, DropTask, EndMail, EditStep

LEMMA StoredPreserved ==
  ASSUME IndInv, Next
  PROVE  StoredIssued' /\ stored \subseteq stored'
<1>1. ASSUME NEW p \in Process, CommitIssue(p)
      PROVE  stored' = stored \cup {call[p].doc} /\ authority[call[p].doc] \in Issued
  BY <1>1, Held DEF CommitIssue, Answered, TruthfulCall
<1>2. \/ stored' = stored
      \/ \E p \in Process : /\ stored' = stored \cup {call[p].doc}
                            /\ authority[call[p].doc] \in Issued
  BY <1>1, Cases
     DEF Begin, Respond, QueueMail, Ends, CommitRefusal, CommitCheck, CommitCancel, Rollback,
         RespondLate, MailStep, ScheduleMail, SendMail, DropTask, EndMail, EditStep,
         SaveDocument, RefuseEdit, ReadDocument
<1>3. stored' \subseteq Document
  BY StepType DEF IndInv, EmissionTypeOK
<1>4. \A d \in stored' : authority[d] \in Issued
  BY <1>2 DEF IndInv, StoredIssued
<1>5. \A d \in stored' : authority'[d] \in Issued
  BY <1>3, <1>4, AuthorityGrows
<1> QED BY <1>2, <1>5 DEF StoredIssued

LEMMA MailPreserved ==
  ASSUME IndInv, Next
  PROVE  MailStored'
<1>0. mail \in [Mail -> MailRow]
  BY DEF IndInv, EmissionTypeOK
<1>1. SUFFICES ASSUME NEW m \in Mail
               PROVE  mail'[m].status # "absent" => mail'[m].doc \in stored'
  BY DEF MailStored
<1>2. ASSUME NEW p \in Process, CommitIssue(p)
      PROVE  mail'[m] = mail[m] \/ mail'[m].doc \in stored'
  BY <1>2 DEF CommitIssue
<1>3. ASSUME NEW d \in Document, ScheduleMail(d)
      PROVE  mail'[m] = mail[m] \/ mail'[m].doc \in stored'
  BY <1>0, <1>3 DEF ScheduleMail, Mailable
<1>4. ASSUME NEW n \in Mail, SendMail(n) \/ EndMail(n)
      PROVE  mail'[m].doc = mail[m].doc /\ (mail[m].status = "absent" => mail'[m] = mail[m])
  <2>1. mail[n].status # "absent"
    BY <1>4 DEF SendMail, EndMail
  <2>2. PICK s \in {"sending", "sent", "failed"} : mail' = [mail EXCEPT ![n].status = s]
    BY <1>4 DEF SendMail, EndMail
  <2> QED BY <1>0, <2>1, <2>2 DEF MailRow
<1>5. CASE mail' = mail
  BY <1>5, StoredPreserved DEF IndInv, MailStored
<1>6. mail[m].status # "absent" => mail[m].doc \in stored'
  BY StoredPreserved DEF IndInv, MailStored
<1>7. \/ mail' = mail
      \/ \E p \in Process : CommitIssue(p)
      \/ \E d \in Document : ScheduleMail(d)
      \/ \E n \in Mail : SendMail(n) \/ EndMail(n)
  <2>1. ASSUME NEW p \in Process,
               \/ \E op \in Operation, d \in Document : Begin(p, op, d)
               \/ Respond(p) \/ QueueMail(p) \/ Ends(p)
        PROVE  mail' = mail \/ CommitIssue(p)
    BY <2>1 DEF Begin, Respond, QueueMail, Ends, CommitRefusal, CommitCheck, CommitCancel, Rollback
  <2>2. (\E r \in late : RespondLate(r)) \/ EditStep => mail' = mail
    BY DEF RespondLate, EditStep, SaveDocument, RefuseEdit, ReadDocument
  <2>3. ASSUME NEW n \in Mail, DropTask(n) PROVE mail' = mail
    BY <2>3 DEF DropTask
  <2> QED BY <2>1, <2>2, <2>3, Cases DEF MailStep
<1> QED BY <1>2, <1>3, <1>4, <1>5, <1>6, <1>7

-----------------------------------------------------------------------------
(* The theorems *)

THEOREM Invariant == Spec => []IndInv
<1>1. Init => IndInv
  <2>1. Init => /\ LocksHeld /\ CallsSound /\ RowsBacked
                /\ CopiesBacked /\ StoredIssued /\ MailStored
    BY DEF Init, LocksHeld, CallsSound, TruthfulCall, SparesDecided, RowsBacked, BackedBy,
           CopiesBacked, StoredIssued, MailStored, NewDocument, Idle, NoMail, NoCopy
  <2> QED BY <2>1, InitType DEF IndInv
<1>2. IndInv /\ [Next]_vars => IndInv'
  <2>1. ASSUME IndInv, Next PROVE IndInv'
    BY <2>1, StepType, LocksPreserved, CallsPreserved, RowsPreserved, CopiesPreserved,
       StoredPreserved, MailPreserved DEF IndInv
  <2>2. ASSUME IndInv, UNCHANGED vars PROVE IndInv'
    BY <2>2 DEF IndInv, EmissionTypeOK, LocksHeld, CallsSound, TruthfulCall, SparesDecided,
                RowsBacked, CopiesBacked, StoredIssued, MailStored, vars
  <2> QED BY <2>1, <2>2
<1> QED BY <1>1, <1>2, PTL DEF Spec

\* Rows, transactions, requests under way and copies keep their types.
THEOREM TypeCorrect == Spec => []EmissionTypeOK
<1>1. IndInv => EmissionTypeOK
  BY DEF IndInv
<1> QED BY <1>1, Invariant, PTL

\* Unless a form has set it, the record never claims more than the authority has done.
THEOREM RecordBacked == Spec => []RecordIsBacked
<1>1. IndInv => RecordIsBacked
  BY DEF IndInv, RowsBacked, BackedBy, Issued, RecordIsBacked
<1> QED BY <1>1, Invariant, PTL

\* No delivery goes out without an authorised invoice and its artifacts.
THEOREM MailBacked == Spec => []MailCarriesInvoice
<1>1. IndInv => MailCarriesInvoice
  BY DEF IndInv, MailStored, StoredIssued, Issued, MailCarriesInvoice
<1> QED BY <1>1, Invariant, PTL

\* What is recorded of an authorisation or a cancellation stands, but for an edit.
THEOREM RecordKept == Spec => RecordStands
<1>1. ASSUME IndInv, [Next]_vars, NEW d \in Document
      PROVE  Stands(d) \/ Overwritten(d)
  <2>0. /\ doc \in [Document -> DocRow] /\ copy \in [Editor -> CopyRow]
        /\ doc[d] \in DocRow
    BY <1>1 DEF IndInv, EmissionTypeOK
  <2>1. ASSUME NEW p \in Process, Ends(p) PROVE Stands(d)
    <3>0. doc' = doc \/ \E row : doc' = [doc EXCEPT ![call[p].doc] = row]
      BY <2>1 DEF Ends, CommitIssue, CommitRefusal, CommitCheck, CommitCancel, Rollback
    <3>1. CASE call[p].doc # d
      BY <2>0, <3>0, <3>1 DEF Stands
    <3>2. CASE call[p].doc = d
      <4>1. call[p].at # "idle" /\ SparesDecided(call[p])
        BY <1>1, <3>2, Held DEF TruthfulCall
      <4>2. CASE CommitIssue(p)
        <5>1. call[p].at = "filed" \/ call[p].op = "issue"
          BY <4>2 DEF CommitIssue, Answered
        <5>2. doc[d].typed \/ doc[d].emission \notin {"authorized", "cancelled"}
          BY <3>2, <4>1, <5>1 DEF SparesDecided
        <5>3. doc'[d].key
          BY <2>0, <3>2, <4>2 DEF CommitIssue, Authorized
        <5> QED BY <5>2, <5>3 DEF Stands
      <4>3. CASE CommitRefusal(p)
        <5>1. PICK s \in {"rejected", "error"} : doc' = [doc EXCEPT ![d] = Settled(doc[d], s)]
          BY <3>2, <4>3 DEF CommitRefusal
        <5>2. doc[d].typed \/ doc[d].emission \notin {"authorized", "cancelled"}
          BY <3>2, <4>1, <4>3 DEF CommitRefusal, Answered, SparesDecided
        <5>3. doc'[d].key = doc[d].key
          BY <2>0, <5>1 DEF Settled, DocRow
        <5> QED BY <5>2, <5>3 DEF Stands
      <4>4. CASE CommitCheck(p)
        <5>1. PICK row \in CheckedRow(doc[d], call[p].answer) : doc'[d] = row
          BY <2>0, <3>2, <4>4 DEF CommitCheck
        <5>2. CASE call[p].answer = "authorized"
          <6>1. row \in {Authorized(doc[d].key), Authorized(TRUE)}
            BY <5>1, <5>2 DEF CheckedRow
          <6>2. doc[d].typed \/ doc[d].emission # "cancelled"
            BY <3>2, <4>1, <4>4, <5>2 DEF CommitCheck, SparesDecided
          <6> QED BY <5>1, <6>1, <6>2 DEF Stands, Authorized
        <5>3. CASE call[p].answer = "rejected"
          <6>1. row = Settled(doc[d], "rejected")
            BY <5>1, <5>3 DEF CheckedRow
          <6>2. doc[d].typed \/ doc[d].emission \notin {"authorized", "cancelled"}
            BY <3>2, <4>1, <4>4, <5>3 DEF CommitCheck, SparesDecided
          <6>3. row.key = doc[d].key
            BY <2>0, <6>1 DEF Settled, DocRow
          <6> QED BY <5>1, <6>2, <6>3 DEF Stands
        <5>4. CASE call[p].answer \notin {"authorized", "rejected"}
          BY <5>1, <5>4 DEF CheckedRow, Stands
        <5> QED BY <5>2, <5>3, <5>4
      <4>5. CASE CommitCancel(p)
        <5>1. doc' = [doc EXCEPT ![d] = Settled(doc[d], "cancelled")]
          BY <3>2, <4>5 DEF CommitCancel
        <5>2. doc'[d].emission = "cancelled" /\ doc'[d].key = doc[d].key
          BY <2>0, <5>1 DEF Settled, DocRow
        <5> QED BY <5>2 DEF Stands
      <4>6. CASE Rollback(p)
        BY <4>6 DEF Rollback, Stands
      <4> QED BY <2>1, <4>2, <4>3, <4>4, <4>5, <4>6 DEF Ends
    <3> QED BY <3>1, <3>2
  <2>2. ASSUME NEW e \in Editor, SaveDocument(e)
        PROVE  doc'[d] = doc[d] \/ Overwritten(d)
    BY <2>0, <2>2 DEF SaveDocument, Overwritten, NoCopy
  <2>3. CASE doc'[d] = doc[d]
    BY <2>3 DEF Stands
  <2>4. CASE Next
    BY <1>1, <2>1, <2>2, <2>3, <2>4, Cases, MailFrame
       DEF Begin, Respond, QueueMail, RespondLate, EditStep
  <2>5. CASE UNCHANGED vars
    BY <2>3, <2>5 DEF vars
  <2> QED BY <1>1, <2>4, <2>5
<1>2. IndInv /\ [Next]_vars =>
        [\A d \in Document : Stands(d) \/ Overwritten(d)]_vars
  BY <1>1
<1> QED BY <1>2, Invariant, PTL DEF Spec, RecordStands
=============================================================================
