--------------------------- MODULE LotDisposition ---------------------------
(***************************************************************************)
(* The quality disposition of one lot made by production: its LotRelease,  *)
(* its balances, the QualityBlocks on it and on its product and supplier,  *)
(* and the evidence of the release (review, sample, document,              *)
(* investigations), after qa/models.py and quality/models.py.              *)
(*                                                                         *)
(* Two kinds of operation meet on the same rows.  A transition of the      *)
(* release and the unblock of a block are one transaction under row locks. *)
(* Everything else reads a row, decides by what it read and then saves one *)
(* row after the other, each save on its own: such a request is a sequence *)
(* of writes fixed when the row is read, and others act between them.      *)
(* A request that dies is a process that takes no further step.            *)
(*                                                                         *)
(* A definition named X_Something is a deliberately wrong variant of X     *)
(* that the properties are tested against; nothing uses it.                *)
(***************************************************************************)
EXTENDS Naturals, Sequences

CONSTANTS
  Process,       \* requests in progress at the same time
  Block,         \* QualityBlock rows
  Targets,       \* what each block is on: of "lot", "product" and "supplier"
  Address,       \* where balances of the lot are kept
  Kinds,         \* the kinds of request users make
  Editable       \* the records they save whole by a plain edit

Holdable == {"lot", "product", "supplier"}
Record == {"release", "review", "sample", "document", "investigation"}
            \cup Holdable \cup Block

ASSUME DispositionAssumption ==
  /\ Block \cap ({"release", "review", "sample", "document", "investigation"}
                   \cup Holdable) = {}
  /\ Targets \in [Block -> SUBSET Holdable]
  /\ Kinds \subseteq {"review", "sample", "document", "investigation", "block"}
  /\ Editable \subseteq {"release", "review", "sample", "document"} \cup Holdable \cup Block

VARIABLES
  status,    \* the status of every record; a blocked supplier is one with is_blocked
  rows,      \* the balances of the lot: <<address, quality status>>
  evidence,  \* the release names a review and a document
  sampled,   \* the sample names the lot (its stock_lot may be null)
  req,       \* per process: the writes it has still to make, in order
  overwritten  \* the records whose status was last changed by a plain edit (history)

vars == <<status, rows, evidence, sampled, req, overwritten>>

-----------------------------------------------------------------------------
(* State *)

StockStatus == {"quarantine", "approved", "rejected", "blocked"}
StatusOf(r) ==
  CASE r = "release" -> {"absent", "under_review", "released", "rejected", "blocked"}
    [] r = "lot" -> StockStatus
    [] r \in {"product", "supplier"} -> {"approved", "blocked"}
    [] r = "review" -> {"draft", "in_review", "approved", "rejected", "cancelled"}
    \* "open" stands for requested, collected, received and in_analysis
    [] r = "sample" -> {"open", "reviewed", "approved", "rejected", "cancelled"}
    [] r = "document" -> {"draft", "issued", "cancelled"}
    [] r = "investigation" -> {"none", "open", "concluded"}
    [] r \in Block -> {"absent", "active", "unblocked", "cancelled"}

\* A write of an operation, and the write of a plain edit.
Update(r, to) == [on |-> r, to |-> to, edit |-> FALSE]
Resave(r, to) == [on |-> r, to |-> to, edit |-> TRUE]
Write == {w \in [on : Record, to : UNION {StatusOf(r) : r \in Record}, edit : BOOLEAN] :
            w.to \in StatusOf(w.on)}

DispositionTypeOK ==
  /\ DOMAIN status = Record /\ \A r \in Record : status[r] \in StatusOf(r)
  /\ rows \subseteq Address \X StockStatus
  /\ evidence \in BOOLEAN /\ sampled \in BOOLEAN
  /\ DOMAIN req = Process
  /\ \A p \in Process : req[p] \in Seq(Write)
  /\ overwritten \subseteq Record

\* The lot was just received.  The evidence of its release is collected from now on,
\* or was complete before, by a sample that does not name the lot.
Init ==
  /\ sampled \in (IF "sample" \in Kinds THEN BOOLEAN ELSE {FALSE})  \* else nobody reads it
  /\ \E ready \in (IF sampled THEN {FALSE} ELSE BOOLEAN) :
       status = [r \in Record |->
         CASE r = "release" -> "absent"
           [] r = "lot" -> "quarantine"
           [] r \in {"product", "supplier"} -> "approved"
           [] r = "review" -> IF ready THEN "approved" ELSE "draft"
           [] r = "sample" -> IF ready THEN "approved" ELSE "open"
           [] r = "document" -> IF ready THEN "issued" ELSE "draft"
           [] r = "investigation" -> "none"
           [] r \in Block -> "absent"]
  /\ \E a \in Address : rows = {<<a, "quarantine">>}
  /\ evidence = FALSE
  /\ req = [p \in Process |-> <<>>]
  /\ overwritten = {}

Pending(p, w) == \E i \in DOMAIN req[p] : req[p][i] = w

-----------------------------------------------------------------------------
(* LotRelease *)

\* POST, or the dossier page, which names no review and no document.  Its targets
\* cannot be changed later, and a lot has one release.
CreateRelease ==
  /\ status["release"] = "absent"
  /\ status' = [status EXCEPT !["release"] = "under_review"]
  /\ evidence' \in BOOLEAN
  /\ UNCHANGED <<rows, sampled, req, overwritten>>

Disposed_Quarantined(status2) ==
  {<<b[1], IF b[2] = "quarantine" THEN status2 ELSE b[2]>> : b \in rows}
\* The bulk update of all balances of the lot.
Disposed(status2) == {<<b[1], status2>> : b \in rows}

StockMatches_LotOnly ==
  status["lot"] = IF status["release"] = "blocked" THEN "blocked" ELSE "quarantine"
\* What a disposition requires of the lot and of its balances.
StockMatches ==
  LET expected == IF status["release"] = "blocked" THEN "blocked" ELSE "quarantine"
  IN  /\ status["lot"] = expected
      /\ \A b \in rows : b[2] = expected

\* LotRelease._transition: release, lot and balances in one transaction.
Transition(origins, target, stock) ==
  /\ status["release"] \in origins
  /\ StockMatches
  /\ status' = [status EXCEPT !["release"] = target, !["lot"] = stock]
  /\ rows' = Disposed(stock)
  /\ overwritten' = overwritten \ {"release", "lot"}
  /\ UNCHANGED <<evidence, sampled, req>>

EvidenceComplete ==
  /\ evidence
  /\ status["review"] = "approved"
  /\ status["document"] = "issued"
  /\ sampled => status["investigation"] # "open"

Approve == EvidenceComplete /\ Transition({"under_review"}, "released", "approved")
Reject == Transition({"under_review", "blocked"}, "rejected", "rejected")
BlockLot == Transition({"under_review"}, "blocked", "blocked")
UnblockLot == Transition({"blocked"}, "under_review", "quarantine")

-----------------------------------------------------------------------------
(* QualityBlock *)

\* The saves of apply(): the block, then each of its targets.
HoldWrite(k, t) == IF t \in Targets[k] THEN <<Update(t, "blocked")>> ELSE <<>>
ApplyWrites(k) ==
  <<Update(k, "active")>>
    \o HoldWrite(k, "lot") \o HoldWrite(k, "product") \o HoldWrite(k, "supplier")

\* POST inserts an active block and applies it.
CreateBlock(p, k) ==
  /\ "block" \in Kinds
  /\ req[p] = <<>> /\ status[k] = "absent"
  /\ status' = [status EXCEPT ![k] = "active"]
  /\ req' = [req EXCEPT ![p] = ApplyWrites(k)]
  /\ UNCHANGED <<rows, evidence, sampled, overwritten>>

\* apply() of a block that exists, whatever its status.
ApplyBlock(p, k) ==
  /\ "block" \in Kinds
  /\ req[p] = <<>> /\ status[k] # "absent"
  /\ req' = [req EXCEPT ![p] = ApplyWrites(k)]
  /\ UNCHANGED <<status, rows, evidence, sampled, overwritten>>

OtherBlocks_Ignored(k, t) == {}
\* The other active blocks on a target.
OtherBlocks(k, t) == {j \in Block \ {k} : status[j] = "active" /\ t \in Targets[j]}

Restored_Approved(t) == "approved"
\* What a target becomes when its last block is lifted.
Restored(t) == IF t = "lot" THEN "quarantine" ELSE "approved"

\* unblock() by somebody else than the author of the block: one transaction.
LiftBlock(k) ==
  /\ "block" \in Kinds
  /\ status[k] = "active"
  /\ LET freed == {t \in Targets[k] : /\ OtherBlocks(k, t) = {}
                                      /\ t = "lot" => status["lot"] # "rejected"}
     IN  /\ status' = [r \in Record |-> IF r = k THEN "unblocked"
                                        ELSE IF r \in freed THEN Restored(r)
                                        ELSE status[r]]
         /\ overwritten' = overwritten \ (freed \cup {k})
  /\ UNCHANGED <<rows, evidence, sampled, req>>

-----------------------------------------------------------------------------
(* Evidence *)

\* The status a request may write, by the one it read.  Approval is refused to the
\* author of a submission, and a checklist may delay it: both only keep a request away.
ReviewMoves ==
  {<<"draft", "in_review">>, <<"draft", "approved">>, <<"in_review", "approved">>}
    \cup ({"draft", "in_review", "rejected", "cancelled"} \X {"rejected"})
SampleMoves ==
  {<<"open", "open">>, <<"open", "reviewed">>, <<"reviewed", "approved">>}
    \cup ({"open", "reviewed", "rejected"} \X {"rejected"})
    \cup ({"open", "reviewed"} \X {"cancelled"})
DocumentMoves ==
  {<<"draft", "issued">>} \cup ({"draft", "issued", "cancelled"} \X {"cancelled"})

RequestReview(p) == \E m \in ReviewMoves :
  /\ "review" \in Kinds
  /\ req[p] = <<>> /\ status["review"] = m[1]
  /\ req' = [req EXCEPT ![p] = <<Update("review", m[2])>>]
  /\ UNCHANGED <<status, rows, evidence, sampled, overwritten>>

SampleWrites_Verbatim(to) ==
  <<Update("sample", to)>>
    \o (IF sampled THEN <<Update("lot", to)>> ELSE <<>>)
\* Approval and rejection of a sample are saved in its lot as well.
SampleWrites(to) ==
  <<Update("sample", to)>>
    \o (IF sampled /\ to \in {"approved", "rejected"}
        THEN <<Update("lot", to)>> ELSE <<>>)

RequestSample(p) == \E m \in SampleMoves :
  /\ "sample" \in Kinds
  /\ req[p] = <<>> /\ status["sample"] = m[1]
  /\ req' = [req EXCEPT ![p] = SampleWrites(m[2])]
  /\ UNCHANGED <<status, rows, evidence, sampled, overwritten>>

\* A document is issued for an approved sample, and cancelled at any time.
RequestDocument(p) == \E m \in DocumentMoves :
  /\ "document" \in Kinds
  /\ req[p] = <<>> /\ status["document"] = m[1]
  /\ m[2] = "issued" => status["sample"] = "approved"
  /\ req' = [req EXCEPT ![p] = <<Update("document", m[2])>>]
  /\ UNCHANGED <<status, rows, evidence, sampled, overwritten>>

\* An investigation of the sample is opened, or the open one concluded.
Investigate ==
  /\ "investigation" \in Kinds
  /\ status' = [status EXCEPT !["investigation"] =
                  IF @ = "open" THEN "concluded" ELSE "open"]
  /\ UNCHANGED <<rows, evidence, sampled, req, overwritten>>

-----------------------------------------------------------------------------
(* Writes, plain edits and receipts *)

\* What plain edits have changed after a write of one record.
Overwritten(w) ==
  IF ~w.edit THEN overwritten \ {w.on}
  ELSE IF w.to = status[w.on] THEN overwritten
  ELSE overwritten \cup {w.on}

\* The next save of a request.
Save(p) ==
  /\ req[p] # <<>>
  /\ status' = [status EXCEPT ![Head(req[p]).on] = Head(req[p]).to]
  /\ overwritten' = Overwritten(Head(req[p]))
  /\ req' = [req EXCEPT ![p] = Tail(@)]
  /\ UNCHANGED <<rows, evidence, sampled>>

\* PUT or PATCH saves the whole row as it was read, its status included; the status of
\* blocks, evidence, products and suppliers is a field users set.  A release compares its
\* status with the persisted one first, in a query of its own.
RequestEdit(p) == \E r \in Editable : \E to \in StatusOf(r) \ {"absent"} :
  /\ req[p] = <<>> /\ status[r] # "absent"
  /\ r \in {"release", "lot"} => to = status[r]
  /\ req' = [req EXCEPT ![p] = <<Resave(r, to)>>]
  /\ UNCHANGED <<status, rows, evidence, sampled, overwritten>>

\* The form of the HTML pages inserts a block without applying it.
EnterBlock(k) == \E to \in StatusOf(k) \ {"absent"} :
  /\ k \in Editable /\ status[k] = "absent"
  /\ status' = [status EXCEPT ![k] = to]
  /\ overwritten' = overwritten \cup {k}
  /\ UNCHANGED <<rows, evidence, sampled, req>>

MayReceive_Always == TRUE
\* A production output enters a lot that is in quarantine.
MayReceive == status["lot"] = "quarantine"

Receive(a) ==
  /\ MayReceive
  /\ rows' = rows \cup {<<a, "quarantine">>}
  /\ UNCHANGED <<status, evidence, sampled, req, overwritten>>

Next ==
  \/ CreateRelease \/ Approve \/ Reject \/ BlockLot \/ UnblockLot
  \/ \E p \in Process, k \in Block : CreateBlock(p, k) \/ ApplyBlock(p, k)
  \/ \E k \in Block : LiftBlock(k) \/ EnterBlock(k)
  \/ \E p \in Process : RequestReview(p) \/ RequestSample(p) \/ RequestDocument(p)
                          \/ RequestEdit(p) \/ Save(p)
  \/ Investigate
  \/ \E a \in Address : Receive(a)

Spec == Init /\ [][Next]_vars

-----------------------------------------------------------------------------
(* Properties *)

\* The stock status that belongs to a release status (the table of
\* docs/architecture/production.md, "Disposicao de qualidade do lote e dos saldos").
StockStatusOf(release) ==
  CASE release \in {"absent", "under_review"} -> "quarantine"
    [] release = "released" -> "approved"
    [] release = "rejected" -> "rejected"
    [] release = "blocked" -> "blocked"

\* Stock is in quarantine or has the disposition of its release, whatever blocks, samples
\* and edits do to the lot in the meantime, unless the release itself was overwritten by
\* the save of a stale copy: nothing can be issued that was not released
\* (LotRelease._transition, receive_production_output).
DispositionOfStock == "release" \notin overwritten =>
  \A b \in rows : b[2] \in {"quarantine", StockStatusOf(status["release"])}

\* Approved and rejected stock keeps its disposition for good, although its release may
\* be overwritten and its lot put back into quarantine: a new disposition compares the
\* balances too (docs/architecture/production.md, "Uma divergencia legada entre lote e
\* saldo interrompe a operacao").
FinalStockKept ==
  [][\A b \in rows : b[2] \in {"approved", "rejected"} => b \in rows']_vars

\* As long as nobody blocks the lot, its sample does not name it and no stale copy of
\* release or lot was saved over another status, release, lot and all balances agree, so
\* that no entry brings quarantine back after the release.
DispositionAgrees ==
  /\ ~sampled /\ {"release", "lot"} \cap overwritten = {}
  /\ \A k \in Block : "lot" \in Targets[k] => status[k] = "absent"
  =>
    /\ status["lot"] = StockStatusOf(status["release"])
    /\ \A b \in rows : b[2] = status["lot"]

\* Where the laboratory has no hand in it, a lot is approved only by its release, even if
\* stale copies of the lot are saved: lifting a block on a lot that was never released leads
\* to quarantine (QualityBlock.unblock).
ApprovedByRelease ==
  ~sampled /\ "release" \notin overwritten /\ status["lot"] = "approved" =>
    status["release"] = "released"

\* An active block holds its product and its supplier, or some request is about to block
\* them, unless an edit has activated the block or freed the target: no unblock of another
\* block frees them (QualityBlock.apply and unblock).
BlockTakesHold ==
  \A k \in Block \ overwritten : \A t \in Targets[k] \ ({"lot"} \cup overwritten) :
    status[k] = "active" =>
      status[t] = "blocked" \/ \E p \in Process : Pending(p, Update(t, "blocked"))

\* Three statements TLC refutes; no run checks them (README, section 6).

\* Only the QA module approves a lot (docs/architecture/production.md, "somente o modulo de
\* QA pode decidir a liberacao de qualidade posterior").
OnlyQAApproves == status["lot"] = "approved" => status["release"] = "released"

\* A rejected lot does not return to quarantine (tests/test_fix_qa_quality.py,
\* test_unblock_never_moves_rejected_lot_back_to_quarantine).
RejectedStaysOut == status["release"] = "rejected" => status["lot"] # "quarantine"

\* Released and rejected are terminal (docs/architecture/production.md, "`released` e
\* `rejected` sao terminais").
DispositionTerminal ==
  [][status["release"] \in {"released", "rejected"} =>
       status'["release"] = status["release"]]_vars
=============================================================================
