----------------------- MODULE LotDisposition_proofs -----------------------
(***************************************************************************)
(* Theorems of LotDisposition for any number of requests, blocks and       *)
(* addresses, whatever records users edit.  What a stale copy of a release,*)
(* a lot or a block overwrites is in the history variable, by which the    *)
(* properties say what they still promise.                                 *)
(***************************************************************************)
EXTENDS LotDisposition, SequenceTheorems, TLAPS

-----------------------------------------------------------------------------
(* Records and writes *)

\* The statuses of each kind of record: the cases of StatusOf do not overlap.
LEMMA Statuses ==
  /\ StatusOf("release") = {"absent", "under_review", "released", "rejected", "blocked"}
  /\ StatusOf("lot") = StockStatus
  /\ \A t \in {"product", "supplier"} : StatusOf(t) = {"approved", "blocked"}
  /\ StatusOf("review") = {"draft", "in_review", "approved", "rejected", "cancelled"}
  /\ StatusOf("sample") = {"open", "reviewed", "approved", "rejected", "cancelled"}
  /\ StatusOf("document") = {"draft", "issued", "cancelled"}
  /\ StatusOf("investigation") = {"none", "open", "concluded"}
  /\ \A k \in Block : StatusOf(k) = {"absent", "active", "unblocked", "cancelled"}
<1>1. \A k \in Block : k \notin {"release", "review", "sample", "document", "investigation",
                                 "lot", "product", "supplier"}
  BY DispositionAssumption DEF Holdable
<1> QED BY <1>1 DEF StatusOf

\* No block is one of the other records.
LEMMA BlocksApart ==
  \A k \in Block : k \notin {"release", "review", "sample", "document", "investigation"}
                              \cup Holdable
BY DispositionAssumption

LEMMA TargetsHoldable == \A k \in Block : Targets[k] \subseteq Holdable
BY DispositionAssumption

\* What a write is made of.
LEMMA WriteType ==
  /\ \A r \in Record : \A s \in StatusOf(r) : Update(r, s) \in Write /\ Resave(r, s) \in Write
  /\ \A w \in Write : w.on \in Record /\ w.to \in StatusOf(w.on) /\ w.edit \in BOOLEAN
  /\ \A r, to : Update(r, to).on = r /\ Update(r, to).to = to /\ ~Update(r, to).edit
  /\ \A r, to : Resave(r, to).on = r /\ Resave(r, to).to = to /\ Resave(r, to).edit
<1>1. ASSUME NEW r \in Record, NEW s \in StatusOf(r)
      PROVE  Update(r, s) \in Write /\ Resave(r, s) \in Write
  <2>1. s \in UNION {StatusOf(q) : q \in Record}
    OBVIOUS
  <2> QED BY <2>1 DEF Write, Update, Resave
<1>2. ASSUME NEW w \in Write
      PROVE  w.on \in Record /\ w.to \in StatusOf(w.on) /\ w.edit \in BOOLEAN
  BY DEF Write
<1>3. /\ \A r, to : Update(r, to).on = r /\ Update(r, to).to = to /\ ~Update(r, to).edit
      /\ \A r, to : Resave(r, to).on = r /\ Resave(r, to).to = to /\ Resave(r, to).edit
  BY DEF Update, Resave
<1> QED BY <1>1, <1>2, <1>3

\* One write, and the writes of a sample.
LEMMA SingleWrite ==
  ASSUME NEW w \in Write
  PROVE  <<w>> \in Seq(Write) /\ Len(<<w>>) = 1 /\ <<w>>[1] = w
OBVIOUS

LEMMA SampleSequence ==
  ASSUME NEW to \in StatusOf("sample")
  PROVE  LET s == SampleWrites(to)
         IN  /\ s \in Seq(Write)
             /\ \A i \in 1..Len(s) : /\ ~s[i].edit
                                     /\ s[i].on = "sample" \/ (s[i].on = "lot" /\ sampled)
<1> DEFINE a == Update("sample", to)
           b == Update("lot", to)
<1>1. /\ a \in Write
      /\ a.on = "sample" /\ ~a.edit /\ b.on = "lot" /\ ~b.edit
  BY WriteType DEF Record
<1>2. CASE sampled /\ to \in {"approved", "rejected"}
  <2>1. b \in Write
    BY <1>2, WriteType, Statuses DEF Record, Holdable, StockStatus
  <2>2. SampleWrites(to) = <<a>> \o <<b>>
    BY <1>2 DEF SampleWrites
  <2> HIDE DEF a, b
  <2>3. <<a>> \o <<b>> \in Seq(Write)
    BY <1>1, <2>1, SingleWrite, ConcatProperties
  <2>4. \A i \in 1..Len(<<a>> \o <<b>>) : (<<a>> \o <<b>>)[i] \in {a, b}
    BY <1>1, <2>1, SingleWrite, ConcatProperties
  <2> QED BY <1>1, <1>2, <2>2, <2>3, <2>4
<1>3. CASE ~(sampled /\ to \in {"approved", "rejected"})
  <2>1. SampleWrites(to) = <<a>>
    BY <1>1, <1>3, SingleWrite, ConcatEmptySeq DEF SampleWrites
  <2> HIDE DEF a, b
  <2> QED BY <1>1, <2>1, SingleWrite
<1> QED BY <1>2, <1>3

\* Holding a target extends a sequence by one write if the block is on it.
LEMMA HoldSequence ==
  ASSUME NEW k \in Block, NEW t \in Holdable, NEW s \in Seq(Write)
  PROVE  LET u == s \o HoldWrite(k, t)
         IN  /\ u \in Seq(Write) /\ Len(u) >= Len(s)
             /\ \A i \in 1..Len(s) : u[i] = s[i]
             /\ \A i \in 1..Len(u) : i > Len(s) =>
                  t \in Targets[k] /\ u[i] = Update(t, "blocked")
             /\ t \in Targets[k] =>
                  \E i \in 1..Len(u) : i > Len(s) /\ u[i] = Update(t, "blocked")
<1> DEFINE u == s \o HoldWrite(k, t)
           w == Update(t, "blocked")
<1>1. w \in Write
  BY WriteType, Statuses DEF Record, Holdable, StockStatus
<1>2. CASE t \in Targets[k]
  <2>1. u = s \o <<w>>
    BY <1>2 DEF HoldWrite
  <2> HIDE DEF w, u
  <2>2. /\ u \in Seq(Write) /\ Len(u) = Len(s) + 1
        /\ \A i \in 1..Len(s) : u[i] = s[i]
        /\ u[Len(s) + 1] = w
    BY <1>1, <2>1, SingleWrite, ConcatProperties, LenProperties
  <2>3. Len(s) \in Nat
    BY LenProperties
  <2>4. \A i \in 1..Len(u) : i > Len(s) => u[i] = w
    BY <2>2, <2>3
  <2> QED BY <1>2, <2>2, <2>3, <2>4 DEF w, u
<1>3. CASE t \notin Targets[k]
  <2>1. HoldWrite(k, t) = <<>>
    BY <1>3 DEF HoldWrite
  <2>2. u = s
    BY <2>1, ConcatEmptySeq
  <2> QED BY <1>3, <2>2, LenProperties
<1> QED BY <1>2, <1>3

\* The writes of apply(): the block first, then every target of it and nothing else.
LEMMA ApplySequence ==
  ASSUME NEW k \in Block, NEW s, s = ApplyWrites(k)
  PROVE  /\ s \in Seq(Write) /\ Len(s) >= 1
         /\ s[1] = Update(k, "active")
         /\ \A i \in 2..Len(s) : /\ s[i].on \in Targets[k] /\ s[i].to = "blocked"
                                 /\ ~s[i].edit
         /\ \A t \in Targets[k] : \E i \in 2..Len(s) : s[i] = Update(t, "blocked")
<1> DEFINE b == Update(k, "active")
           s0 == <<b>>
           s1 == s0 \o HoldWrite(k, "lot")
           s2 == s1 \o HoldWrite(k, "product")
           s3 == s2 \o HoldWrite(k, "supplier")
<1>1. b \in Write
  BY WriteType, Statuses DEF Record
<1> HIDE DEF b
<1>2. s0 \in Seq(Write) /\ Len(s0) = 1 /\ s0[1] = b
  BY <1>1, SingleWrite
<1>3. s = s3
  BY DEF ApplyWrites, b
<1>4. "lot" \in Holdable /\ "product" \in Holdable /\ "supplier" \in Holdable
  BY DEF Holdable
<1> HIDE DEF s0
<1>5. /\ s1 \in Seq(Write) /\ Len(s1) >= Len(s0)
      /\ \A i \in 1..Len(s0) : s1[i] = s0[i]
      /\ \A i \in 1..Len(s1) : i > Len(s0) =>
           "lot" \in Targets[k] /\ s1[i] = Update("lot", "blocked")
      /\ "lot" \in Targets[k] =>
           \E i \in 1..Len(s1) : i > Len(s0) /\ s1[i] = Update("lot", "blocked")
  BY <1>2, <1>4, HoldSequence
<1> HIDE DEF s1
<1>6. /\ s2 \in Seq(Write) /\ Len(s2) >= Len(s1)
      /\ \A i \in 1..Len(s1) : s2[i] = s1[i]
      /\ \A i \in 1..Len(s2) : i > Len(s1) =>
           "product" \in Targets[k] /\ s2[i] = Update("product", "blocked")
      /\ "product" \in Targets[k] =>
           \E i \in 1..Len(s2) : i > Len(s1) /\ s2[i] = Update("product", "blocked")
  BY <1>4, <1>5, HoldSequence
<1> HIDE DEF s2
<1>7. /\ s3 \in Seq(Write) /\ Len(s3) >= Len(s2)
      /\ \A i \in 1..Len(s2) : s3[i] = s2[i]
      /\ \A i \in 1..Len(s3) : i > Len(s2) =>
           "supplier" \in Targets[k] /\ s3[i] = Update("supplier", "blocked")
      /\ "supplier" \in Targets[k] =>
           \E i \in 1..Len(s3) : i > Len(s2) /\ s3[i] = Update("supplier", "blocked")
  BY <1>4, <1>6, HoldSequence
<1> HIDE DEF s3
<1>8. Len(s1) \in Nat /\ Len(s2) \in Nat /\ Len(s3) \in Nat
  BY <1>5, <1>6, <1>7, LenProperties
<1>9. s3[1] = b /\ Len(s3) >= 1
  BY <1>2, <1>5, <1>6, <1>7, <1>8
<1>10. ASSUME NEW i \in 2..Len(s3)
       PROVE  s3[i].on \in Targets[k] /\ s3[i].to = "blocked" /\ ~s3[i].edit
  <2>1. CASE i <= Len(s1)
    BY <2>1, <1>2, <1>5, <1>6, <1>7, <1>8, WriteType
  <2>2. CASE i > Len(s1) /\ i <= Len(s2)
    BY <2>2, <1>2, <1>5, <1>6, <1>7, <1>8, WriteType
  <2>3. CASE i > Len(s2)
    BY <2>3, <1>7, <1>8, WriteType
  <2> QED BY <2>1, <2>2, <2>3, <1>8
<1>11. ASSUME NEW t \in Targets[k]
       PROVE  \E i \in 2..Len(s3) : s3[i] = Update(t, "blocked")
  <2>1. CASE t = "lot"
    <3>1. PICK i \in 1..Len(s1) : i > Len(s0) /\ s1[i] = Update("lot", "blocked")
      BY <2>1, <1>5
    <3>2. i \in 1..Len(s2) /\ i \in 2..Len(s3)
      BY <3>1, <1>2, <1>6, <1>7, <1>8
    <3>3. s3[i] = s1[i]
      BY <3>1, <3>2, <1>6, <1>7
    <3> QED BY <2>1, <3>1, <3>2, <3>3
  <2>2. CASE t = "product"
    <3>1. PICK i \in 1..Len(s2) : i > Len(s1) /\ s2[i] = Update("product", "blocked")
      BY <2>2, <1>6
    <3>2. i \in 2..Len(s3)
      BY <3>1, <1>2, <1>5, <1>7, <1>8
    <3>3. s3[i] = s2[i]
      BY <3>1, <1>7
    <3> QED BY <2>2, <3>1, <3>2, <3>3
  <2>3. CASE t = "supplier"
    <3>1. PICK i \in 1..Len(s3) : i > Len(s2) /\ s3[i] = Update("supplier", "blocked")
      BY <2>3, <1>7
    <3>2. i \in 2..Len(s3)
      BY <3>1, <1>2, <1>5, <1>6, <1>8
    <3> QED BY <2>3, <3>1, <3>2
  <2> QED BY <2>1, <2>2, <2>3, TargetsHoldable DEF Holdable
<1> QED BY <1>3, <1>7, <1>9, <1>10, <1>11 DEF b

\* What is left of a request after its next write.
LEMMA TailSequence ==
  ASSUME NEW s \in Seq(Write), s # <<>>
  PROVE  /\ Head(s) \in Write /\ Head(s) = s[1] /\ Len(s) >= 1 /\ Len(s) \in Nat
         /\ Tail(s) \in Seq(Write) /\ Len(Tail(s)) = Len(s) - 1
         /\ \A i \in 1..Len(Tail(s)) : Tail(s)[i] = s[i + 1]
BY HeadTailProperties, EmptySeq, LenProperties

-----------------------------------------------------------------------------
(* Requests *)

LEMMA MoveTypes ==
  /\ \A m \in ReviewMoves : m[2] \in StatusOf("review")
  /\ \A m \in SampleMoves : m[2] \in StatusOf("sample")
  /\ \A m \in DocumentMoves : m[2] \in StatusOf("document")
BY Statuses DEF ReviewMoves, SampleMoves, DocumentMoves

LEMMA EditableRecords == Editable \subseteq Record
BY DispositionAssumption DEF Record, Holdable

\* A request that has read its row and has written nothing yet.
Requested(p, s) ==
  /\ req[p] = <<>> /\ req' = [req EXCEPT ![p] = s]
  /\ UNCHANGED <<status, rows, evidence, sampled, overwritten>>

\* What it is going to write: evidence, and by a sample the lot it names; or the hold of a
\* block; or, by an edit, one row, of release and lot the status that was read.
OfEvidence(s) == \A i \in 1..Len(s) :
  /\ ~s[i].edit
  /\ s[i].on \in {"review", "sample", "document"} \/ (s[i].on = "lot" /\ sampled)
OfBlock(s) == \E k \in Block : status[k] # "absent" /\ s = ApplyWrites(k)
OfEdit(s) ==
  /\ Len(s) = 1 /\ s[1].edit
  /\ s[1].on \in {"release", "lot"} => s[1].to = status[s[1].on]
  /\ s[1].on \in Block => s[1].to # "absent" /\ status[s[1].on] # "absent"

LEMMA RequestKinds ==
  ASSUME NEW p \in Process,
         RequestReview(p) \/ RequestSample(p) \/ RequestDocument(p) \/ RequestEdit(p)
           \/ \E k \in Block : ApplyBlock(p, k)
  PROVE  \E s \in Seq(Write) : Requested(p, s) /\ (OfEvidence(s) \/ OfBlock(s) \/ OfEdit(s))
<1>1. ASSUME NEW r \in {"review", "sample", "document"}, NEW to \in StatusOf(r),
             Requested(p, <<Update(r, to)>>)
      PROVE  \E s \in Seq(Write) : Requested(p, s) /\ OfEvidence(s)
  <2> DEFINE s == <<Update(r, to)>>
  <2>1. s \in Seq(Write) /\ Len(s) = 1 /\ s[1].on = r /\ ~s[1].edit
    BY WriteType, SingleWrite DEF Record
  <2> HIDE DEF s
  <2>2. OfEvidence(s)
    BY <2>1 DEF OfEvidence
  <2>3. Requested(p, s)
    BY <1>1 DEF s
  <2> QED BY <2>1, <2>2, <2>3
<1>2. CASE RequestReview(p)
  <2>1. PICK m \in ReviewMoves : Requested(p, <<Update("review", m[2])>>)
    BY <1>2 DEF RequestReview, Requested
  <2> QED BY <2>1, <1>1, MoveTypes
<1>3. CASE RequestDocument(p)
  <2>1. PICK m \in DocumentMoves : Requested(p, <<Update("document", m[2])>>)
    BY <1>3 DEF RequestDocument, Requested
  <2> QED BY <2>1, <1>1, MoveTypes
<1>4. CASE RequestSample(p)
  <2>1. PICK m \in SampleMoves : Requested(p, SampleWrites(m[2]))
    BY <1>4 DEF RequestSample, Requested
  <2>2. SampleWrites(m[2]) \in Seq(Write) /\ OfEvidence(SampleWrites(m[2]))
    BY MoveTypes, SampleSequence DEF OfEvidence
  <2> QED BY <2>1, <2>2
<1>5. CASE \E k \in Block : ApplyBlock(p, k)
  <2>1. PICK k \in Block : ApplyBlock(p, k)
    BY <1>5
  <2>2. ApplyWrites(k) \in Seq(Write)
    BY ApplySequence
  <2>3. Requested(p, ApplyWrites(k)) /\ OfBlock(ApplyWrites(k))
    BY <2>1 DEF ApplyBlock, Requested, OfBlock
  <2> QED BY <2>2, <2>3
<1>6. CASE RequestEdit(p)
  <2> DEFINE Edits(r, to) ==
          /\ r \in {"release", "lot"} => to = status[r]
          /\ status[r] # "absent"
          /\ Requested(p, <<Resave(r, to)>>)
  <2>0. PICK r \in Editable : \E to \in StatusOf(r) \ {"absent"} : Edits(r, to)
    BY <1>6 DEF RequestEdit, Requested
  <2>1. PICK to \in StatusOf(r) \ {"absent"} : Edits(r, to)
    BY <2>0
  <2> DEFINE s == <<Resave(r, to)>>
  <2>2. s \in Seq(Write) /\ Len(s) = 1 /\ s[1].on = r /\ s[1].to = to /\ s[1].edit
    BY WriteType, SingleWrite, EditableRecords
  <2>3. Requested(p, s)
    BY <2>1
  <2> HIDE DEF s
  <2>4. OfEdit(s)
    BY <2>1, <2>2 DEF OfEdit
  <2> QED BY <2>2, <2>3, <2>4
<1> QED BY <1>2, <1>3, <1>4, <1>5, <1>6

-----------------------------------------------------------------------------
(* Types *)

LEMMA TypeInit == Init => DispositionTypeOK
<1> SUFFICES ASSUME Init PROVE DispositionTypeOK
  OBVIOUS
<1>1. DOMAIN status = Record
  BY DEF Init
<1>2. \A r \in Record : status[r] \in StatusOf(r)
  BY Statuses, BlocksApart DEF Init, Record, Holdable, StockStatus
<1>3. DOMAIN req = Process /\ \A p \in Process : req[p] \in Seq(Write)
  BY EmptySeq DEF Init
<1>4. rows \subseteq Address \X StockStatus
  BY DEF Init, StockStatus
<1>5. sampled \in BOOLEAN
  BY DEF Init
<1>6. evidence \in BOOLEAN /\ overwritten \subseteq Record
  BY DEF Init
<1> QED BY <1>1, <1>2, <1>3, <1>4, <1>5, <1>6 DEF DispositionTypeOK

\* A request that becomes a sequence of writes.
LEMMA RequestType ==
  ASSUME DispositionTypeOK, NEW p \in Process, NEW s \in Seq(Write),
         req' = [req EXCEPT ![p] = s]
  PROVE  DOMAIN req' = Process /\ \A q \in Process : req'[q] \in Seq(Write)
BY DEF DispositionTypeOK

LEMMA TypeTransition ==
  ASSUME DispositionTypeOK, NEW origins, NEW target \in StatusOf("release"),
         NEW stock \in StockStatus, Transition(origins, target, stock)
  PROVE  DispositionTypeOK'
<1>1. DOMAIN status' = Record /\ \A r \in Record : status'[r] \in StatusOf(r)
  BY Statuses DEF DispositionTypeOK, Transition
<1>2. rows' \subseteq Address \X StockStatus
  BY DEF DispositionTypeOK, Transition, Disposed
<1> QED BY <1>1, <1>2 DEF DispositionTypeOK, Transition

LEMMA TypeStep == DispositionTypeOK /\ [Next]_vars => DispositionTypeOK'
<1> SUFFICES ASSUME DispositionTypeOK, [Next]_vars PROVE DispositionTypeOK'
  OBVIOUS
<1>1. CASE CreateRelease
  BY <1>1, Statuses DEF CreateRelease, DispositionTypeOK, Record
<1>2. CASE Approve \/ Reject \/ BlockLot \/ UnblockLot
  BY <1>2, TypeTransition, Statuses DEF Approve, Reject, BlockLot, UnblockLot, StockStatus
<1>3. ASSUME NEW p \in Process, NEW k \in Block, CreateBlock(p, k)
      PROVE  DispositionTypeOK'
  <2>1. ApplyWrites(k) \in Seq(Write)
    BY ApplySequence
  <2>2. DOMAIN req' = Process /\ \A q \in Process : req'[q] \in Seq(Write)
    BY <1>3, <2>1, RequestType DEF CreateBlock
  <2>3. DOMAIN status' = Record /\ \A r \in Record : status'[r] \in StatusOf(r)
    BY <1>3, Statuses DEF CreateBlock, DispositionTypeOK, Record
  <2> QED BY <1>3, <2>2, <2>3 DEF CreateBlock, DispositionTypeOK
<1>4. ASSUME NEW p \in Process, NEW s \in Seq(Write), Requested(p, s)
      PROVE  DispositionTypeOK'
  BY <1>4, RequestType DEF Requested, DispositionTypeOK
<1>5. ASSUME NEW k \in Block, LiftBlock(k) PROVE DispositionTypeOK'
  <2>1. DOMAIN status' = Record
    BY <1>5 DEF LiftBlock
  <2>2. ASSUME NEW r \in Record PROVE status'[r] \in StatusOf(r)
    <3>1. \/ r = k /\ status'[r] = "unblocked"
          \/ r \in Targets[k] /\ status'[r] = Restored(r)
          \/ status'[r] = status[r]
      BY <1>5 DEF LiftBlock
    <3>2. r \in Targets[k] => Restored(r) \in StatusOf(r)
      BY Statuses, TargetsHoldable DEF Restored, Holdable, StockStatus
    <3>3. r = k => "unblocked" \in StatusOf(r)
      BY Statuses
    <3> QED BY <3>1, <3>2, <3>3 DEF DispositionTypeOK
  <2> QED BY <1>5, <2>1, <2>2 DEF LiftBlock, DispositionTypeOK
<1>6. ASSUME NEW k \in Block, EnterBlock(k) PROVE DispositionTypeOK'
  <2>1. /\ DOMAIN status' = Record /\ \A r \in Record : status'[r] \in StatusOf(r)
        /\ overwritten' \subseteq Record
    BY <1>6 DEF EnterBlock, DispositionTypeOK, Record
  <2> QED BY <1>6, <2>1 DEF EnterBlock, DispositionTypeOK
<1>7. ASSUME NEW p \in Process, Save(p) PROVE DispositionTypeOK'
  <2>1. Head(req[p]) \in Write /\ Tail(req[p]) \in Seq(Write)
    BY <1>7, TailSequence DEF Save, DispositionTypeOK
  <2>2. DOMAIN req' = Process /\ \A q \in Process : req'[q] \in Seq(Write)
    BY <1>7, <2>1, RequestType DEF Save
  <2>3. DOMAIN status' = Record /\ \A r \in Record : status'[r] \in StatusOf(r)
    BY <1>7, <2>1, WriteType DEF Save, DispositionTypeOK
  <2>4. overwritten' \subseteq Record
    BY <1>7, <2>1, WriteType DEF Save, Overwritten, DispositionTypeOK
  <2> QED BY <1>7, <2>2, <2>3, <2>4 DEF Save, DispositionTypeOK
<1>8. CASE Investigate
  BY <1>8, Statuses DEF Investigate, DispositionTypeOK, Record
<1>9. ASSUME NEW a \in Address, Receive(a) PROVE DispositionTypeOK'
  BY <1>9 DEF Receive, DispositionTypeOK, StockStatus
<1>10. CASE UNCHANGED vars
  BY <1>10 DEF vars, DispositionTypeOK
<1> QED BY <1>1, <1>2, <1>3, <1>4, <1>5, <1>6, <1>7, <1>8, <1>9, <1>10, RequestKinds DEF Next

\* Records, balances and the writes requests have still to make keep their types, whatever
\* the requests are.
THEOREM TypeCorrect == Spec => []DispositionTypeOK
<1> QED BY TypeInit, TypeStep, PTL DEF Spec

-----------------------------------------------------------------------------
(* Decided stock *)

\* Only a disposition relabels balances, and it finds them all in quarantine or all blocked.
LEMMA FinalStep ==
  [Next]_vars => \A b \in rows : b[2] \in {"approved", "rejected"} => b \in rows'
<1> DEFINE Kept == \A b \in rows : b[2] \in {"approved", "rejected"} => b \in rows'
<1> SUFFICES ASSUME [Next]_vars PROVE Kept
  OBVIOUS
<1>1. ASSUME NEW origins, NEW target, NEW stock, Transition(origins, target, stock)
      PROVE  Kept
  BY <1>1 DEF Transition, StockMatches
<1>2. CASE Approve \/ Reject \/ BlockLot \/ UnblockLot
  BY <1>1, <1>2 DEF Approve, Reject, BlockLot, UnblockLot
<1>3. ASSUME NEW a \in Address, Receive(a) PROVE Kept
  BY <1>3 DEF Receive
<1>4. CASE UNCHANGED rows
  BY <1>4
<1> QED BY <1>2, <1>3, <1>4
        DEF Next, vars, CreateRelease, CreateBlock, ApplyBlock, LiftBlock, EnterBlock,
            RequestReview, RequestSample, RequestDocument, RequestEdit, Save, Investigate

\* No step changes the disposition of approved or rejected stock, for any users and any
\* overlap of their requests (LotRelease._transition).
THEOREM DecidedStockKept == Spec => FinalStockKept
<1> QED BY FinalStep, PTL DEF Spec, FinalStockKept

-----------------------------------------------------------------------------
(* What a step does to the disposition *)

\* A release appears, an investigation moves on, or nothing happens.
Aside ==
  /\ \/ status'["release"] = status["release"]
     \/ status["release"] = "absent" /\ status'["release"] = "under_review"
  /\ \A r \in Holdable \cup Block : status'[r] = status[r]
  /\ UNCHANGED <<rows, sampled, req, overwritten>>

\* The dispositions: from where, to where, and the status of the stock.
Dispositions ==
  {<<{"under_review"}, "released", "approved">>,
   <<{"under_review", "blocked"}, "rejected", "rejected">>,
   <<{"under_review"}, "blocked", "blocked">>,
   <<{"blocked"}, "under_review", "quarantine">>}

LEMMA AsideStep ==
  ASSUME DispositionTypeOK, CreateRelease \/ Investigate \/ UNCHANGED vars
  PROVE  Aside
<1>1. \A r \in Holdable \cup Block : r \in Record /\ r # "release" /\ r # "investigation"
  BY BlocksApart DEF Record, Holdable
<1>2. CASE CreateRelease
  BY <1>1, <1>2 DEF CreateRelease, DispositionTypeOK, Record, Aside
<1>3. CASE Investigate
  BY <1>1, <1>3 DEF Investigate, DispositionTypeOK, Record, Aside
<1>4. CASE UNCHANGED vars
  BY <1>4 DEF vars, Aside
<1> QED BY <1>2, <1>3, <1>4

LEMMA StepKinds ==
  ASSUME DispositionTypeOK, [Next]_vars
  PROVE  \/ Aside
         \/ \E d \in Dispositions : Transition(d[1], d[2], d[3])
         \/ \E p \in Process : \E s \in Seq(Write) :
              Requested(p, s) /\ (OfEvidence(s) \/ OfBlock(s) \/ OfEdit(s))
         \/ \E p \in Process, k \in Block : CreateBlock(p, k)
         \/ \E k \in Block : LiftBlock(k) \/ EnterBlock(k)
         \/ \E p \in Process : Save(p)
         \/ \E a \in Address : Receive(a)
<1>1. CASE Approve \/ Reject \/ BlockLot \/ UnblockLot
  <2>1. \E d \in Dispositions : Transition(d[1], d[2], d[3])
    BY <1>1 DEF Approve, Reject, BlockLot, UnblockLot, Dispositions
  <2> QED BY <2>1
<1> QED BY <1>1, AsideStep, RequestKinds DEF Next

\* A disposition changes the release, the lot and the balances together.
LEMMA TransitionEffect ==
  ASSUME DispositionTypeOK, NEW d \in Dispositions, Transition(d[1], d[2], d[3])
  PROVE  /\ status["release"] \in {"under_review", "blocked"}
         /\ status'["release"] = d[2] /\ status'["lot"] = StockStatusOf(d[2])
         /\ \A b \in rows' : b[2] = StockStatusOf(d[2])
         /\ overwritten' = overwritten \ {"release", "lot"}
         /\ d[2] # "released" => status'["lot"] # "approved"
         /\ \A r \in (Holdable \ {"lot"}) \cup Block : status'[r] = status[r]
         /\ UNCHANGED <<sampled, req>>
<1>1. d[3] = StockStatusOf(d[2]) /\ (d[2] # "released" => d[3] # "approved")
  BY DEF Dispositions, StockStatusOf
<1>2. status["release"] \in {"under_review", "blocked"}
  BY DEF Dispositions, Transition
<1>3. /\ status'["release"] = d[2] /\ status'["lot"] = d[3]
      /\ \A r \in Record \ {"release", "lot"} : status'[r] = status[r]
  BY DEF DispositionTypeOK, Transition, Record, Holdable
<1>4. \A r \in (Holdable \ {"lot"}) \cup Block : r \in Record \ {"release", "lot"}
  BY BlocksApart DEF Record, Holdable
<1>5. \A b \in rows' : b[2] = d[3]
  BY DEF Transition, Disposed
<1> QED BY <1>1, <1>2, <1>3, <1>4, <1>5 DEF Transition

\* A new block is active, whether its request goes on to hold its targets or it was entered
\* by a form; the other records stay.
LEMMA NewBlockEffect ==
  ASSUME DispositionTypeOK, NEW k \in Block,
         status[k] = "absent", NEW to \in StatusOf(k), status' = [status EXCEPT ![k] = to]
  PROVE  /\ status'[k] = to
         /\ \A r \in {"release"} \cup Holdable \cup (Block \ {k}) : status'[r] = status[r]
BY BlocksApart DEF DispositionTypeOK, Record, Holdable

\* A block is lifted: it frees what no other active block is on.
LEMMA LiftEffect ==
  ASSUME NEW k \in Block, LiftBlock(k)
  PROVE  /\ status[k] = "active" /\ status'[k] = "unblocked"
         /\ \A j \in Block \ {k} : status'[j] = status[j]
         /\ status'["release"] = status["release"]
         /\ \A t \in Holdable : \/ status'[t] = status[t]
                                \/ t \in Targets[k] /\ OtherBlocks(k, t) = {}
         /\ \/ status'["lot"] = status["lot"]
            \/ "lot" \in Targets[k] /\ status'["lot"] = "quarantine"
         /\ overwritten' \subseteq overwritten
         /\ \A r \in overwritten \ overwritten' :
              r = k \/ (r \in Targets[k] /\ OtherBlocks(k, r) = {})
         /\ UNCHANGED <<rows, sampled, req>>
<1>1. /\ status[k] = "active" /\ status'[k] = "unblocked"
      /\ UNCHANGED <<rows, sampled, req>>
      /\ \A r \in Record \ {k} :
           \/ status'[r] = status[r]
           \/ r \in Targets[k] /\ OtherBlocks(k, r) = {} /\ status'[r] = Restored(r)
  BY DEF LiftBlock, Record
<1>2. /\ \A j \in Block \ {k} : j \in Record \ {k} /\ j \notin Targets[k]
      /\ "release" \in Record \ {k} /\ "release" \notin Targets[k]
      /\ \A t \in Holdable : t \in Record \ {k}
      /\ "lot" \in Holdable
  BY TargetsHoldable, BlocksApart DEF Record, Holdable
<1>3. Restored("lot") = "quarantine"
  BY DEF Restored
<1>4. /\ overwritten' \subseteq overwritten
      /\ \A r \in overwritten \ overwritten' :
           r = k \/ (r \in Targets[k] /\ OtherBlocks(k, r) = {})
  BY DEF LiftBlock
<1> QED BY <1>1, <1>2, <1>3, <1>4

\* A save makes the first write of a request and leaves the others in their order.
LEMMA SaveEffect ==
  ASSUME DispositionTypeOK, NEW p \in Process, Save(p)
  PROVE  LET s == req[p]
             w == s[1]
         IN  /\ s \in Seq(Write) /\ Len(s) \in Nat /\ Len(s) >= 1
             /\ w \in Write /\ w.on \in Record /\ w.to \in StatusOf(w.on)
             /\ status'[w.on] = w.to /\ overwritten' = Overwritten(w)
             /\ \A r \in Record \ {w.on} : status'[r] = status[r]
             /\ req'[p] \in Seq(Write) /\ Len(req'[p]) = Len(s) - 1
             /\ \A i \in 1..Len(req'[p]) : i + 1 \in 1..Len(s) /\ req'[p][i] = s[i + 1]
             /\ \A q \in Process \ {p} : req'[q] = req[q]
             /\ UNCHANGED <<rows, sampled>>
<1> DEFINE s == req[p]
           w == s[1]
           u == Tail(s)
<1>1. /\ s \in Seq(Write) /\ s # <<>>
      /\ w \in Write /\ w = Head(s) /\ Len(s) \in Nat /\ Len(s) >= 1
      /\ u \in Seq(Write) /\ Len(u) = Len(s) - 1
      /\ \A i \in 1..Len(u) : u[i] = s[i + 1]
  BY TailSequence DEF DispositionTypeOK, Save
<1>2. /\ \A q \in Process : req'[q] = IF q = p THEN u ELSE req[q]
      /\ UNCHANGED <<rows, sampled>>
      /\ DOMAIN status = Record /\ status' = [status EXCEPT ![w.on] = w.to]
      /\ overwritten' = Overwritten(w)
  BY <1>1 DEF DispositionTypeOK, Save
<1> HIDE DEF s, w, u
<1>3. w.on \in Record /\ w.to \in StatusOf(w.on)
  BY <1>1, WriteType
<1>4. status'[w.on] = w.to /\ \A r \in Record \ {w.on} : status'[r] = status[r]
  BY <1>2, <1>3
<1>5. \A i \in 1..Len(u) : i + 1 \in 1..Len(s)
  BY <1>1
<1>6. req'[p] = u /\ \A q \in Process \ {p} : req'[q] = req[q]
  BY <1>2
<1> QED BY <1>1, <1>2, <1>3, <1>4, <1>5, <1>6 DEF s, w

-----------------------------------------------------------------------------
(* What requests may still write *)

\* Only a plain edit writes a release.  Only a block, a plain edit and a sample that names it
\* write a lot, a block to hold it.  Products and suppliers are only blocked, and a block is
\* only activated but for plain edits.
Permitted(w) ==
  /\ w.on = "release" => w.edit
  /\ w.on = "lot" => sampled \/ w.edit \/ w.to = "blocked"
  /\ w.on \in {"product", "supplier"} => w.edit \/ w.to = "blocked"
  /\ w.on \in Block => w.to # "absent" /\ (w.edit \/ w.to = "active")

WritesPermitted == \A p \in Process : \A i \in 1..Len(req[p]) : Permitted(req[p][i])

BaseInv == DispositionTypeOK /\ WritesPermitted

LEMMA ApplyPermitted ==
  ASSUME NEW k \in Block
  PROVE  \A i \in 1..Len(ApplyWrites(k)) : Permitted(ApplyWrites(k)[i])
<1> DEFINE s == ApplyWrites(k)
<1>1. /\ s \in Seq(Write) /\ s[1] = Update(k, "active")
      /\ \A i \in 2..Len(s) : s[i].on \in Targets[k] /\ s[i].to = "blocked"
  BY ApplySequence
<1> HIDE DEF s
<1>2. s[1].on = k /\ s[1].to = "active"
  BY <1>1, WriteType
<1>3. \A i \in 1..Len(s) : i = 1 \/ i \in 2..Len(s)
  BY <1>1, LenProperties
<1>4. k # "release" /\ k \notin Holdable /\ \A t \in Targets[k] : t # "release" /\ t \notin Block
  BY TargetsHoldable, BlocksApart DEF Holdable
<1>5. Permitted(s[1])
  BY <1>2, <1>4 DEF Permitted, Holdable
<1>6. \A i \in 2..Len(s) : Permitted(s[i])
  BY <1>1, <1>4 DEF Permitted
<1> QED BY <1>3, <1>5, <1>6 DEF s

\* New requests keep to it.  A plain edit of a block may write anything but absent.
LEMMA RequestPermitted ==
  ASSUME NEW s \in Seq(Write), OfEvidence(s) \/ OfBlock(s) \/ OfEdit(s)
  PROVE  \A i \in 1..Len(s) : Permitted(s[i])
<1>1. CASE OfEvidence(s)
  BY <1>1, BlocksApart DEF OfEvidence, Permitted, Holdable
<1>2. CASE OfBlock(s)
  BY <1>2, ApplyPermitted DEF OfBlock
<1>3. CASE OfEdit(s)
  <2>1. s[1].edit /\ \A i \in 1..Len(s) : i = 1
    BY <1>3 DEF OfEdit
  <2>2. s[1].on \in Block => s[1].to # "absent"
    BY <1>3 DEF OfEdit
  <2> QED BY <2>1, <2>2 DEF Permitted
<1> QED BY <1>1, <1>2, <1>3

LEMMA BaseInit == Init => BaseInv
<1> SUFFICES ASSUME Init PROVE WritesPermitted
  BY TypeInit DEF BaseInv
<1>1. \A p \in Process : \A i \in 1..Len(req[p]) : FALSE
  BY EmptySeq DEF Init
<1> QED BY <1>1, Zenon DEF WritesPermitted

LEMMA SavePermitted ==
  ASSUME BaseInv, NEW p \in Process, Save(p)
  PROVE  Permitted(req[p][1])
<1>1. Len(req[p]) \in Nat /\ Len(req[p]) >= 1
  BY SaveEffect DEF BaseInv
<1>2. 1 \in 1..Len(req[p])
  BY <1>1
<1> QED BY <1>2 DEF BaseInv, WritesPermitted

LEMMA BaseStep == BaseInv /\ [Next]_vars => BaseInv'
<1> SUFFICES ASSUME BaseInv, [Next]_vars PROVE WritesPermitted'
  BY TypeStep DEF BaseInv
<1>0. DispositionTypeOK /\ DOMAIN req = Process /\ WritesPermitted
  BY DEF BaseInv, DispositionTypeOK
<1>1. ASSUME UNCHANGED <<req, sampled>> PROVE WritesPermitted'
  BY <1>0, <1>1 DEF WritesPermitted, Permitted
<1>2. ASSUME NEW p \in Process, NEW s \in Seq(Write), req' = [req EXCEPT ![p] = s],
             \A i \in 1..Len(s) : Permitted(s[i]), sampled' = sampled
      PROVE  WritesPermitted'
  <2>1. \A q \in Process : req'[q] = s \/ req'[q] = req[q]
    BY <1>0, <1>2
  <2> QED BY <1>0, <1>2, <2>1 DEF WritesPermitted, Permitted
<1>3. ASSUME NEW p \in Process, NEW k \in Block, CreateBlock(p, k) PROVE WritesPermitted'
  BY <1>2, <1>3, ApplySequence, ApplyPermitted DEF CreateBlock
<1>4. ASSUME NEW p \in Process, Save(p) PROVE WritesPermitted'
  <2>1. /\ \A i \in 1..Len(req'[p]) : i + 1 \in 1..Len(req[p]) /\ req'[p][i] = req[p][i + 1]
        /\ \A q \in Process \ {p} : req'[q] = req[q]
        /\ UNCHANGED sampled
    BY <1>0, <1>4, SaveEffect
  <2>2. \A i \in 1..Len(req'[p]) : Permitted(req'[p][i])
    BY <1>0, <2>1 DEF WritesPermitted
  <2>3. \A q \in Process : \A i \in 1..Len(req'[q]) : Permitted(req'[q][i])
    BY <1>0, <2>1, <2>2 DEF WritesPermitted
  <2> QED BY <2>1, <2>3 DEF WritesPermitted, Permitted
<1>5. \A d \in Dispositions : Transition(d[1], d[2], d[3]) => UNCHANGED <<req, sampled>>
  BY DEF Transition
<1>6. \A k \in Block : LiftBlock(k) \/ EnterBlock(k) => UNCHANGED <<req, sampled>>
  BY DEF LiftBlock, EnterBlock
<1>7. \A a \in Address : Receive(a) => UNCHANGED <<req, sampled>>
  BY DEF Receive
<1>8. ASSUME NEW p \in Process, NEW s \in Seq(Write), Requested(p, s),
             OfEvidence(s) \/ OfBlock(s) \/ OfEdit(s)
      PROVE  WritesPermitted'
  BY <1>2, <1>8, RequestPermitted DEF Requested
<1> QED BY <1>0, <1>1, <1>3, <1>4, <1>5, <1>6, <1>7, <1>8, StepKinds DEF Aside

-----------------------------------------------------------------------------
(* Stock and release *)

LEMMA StockStep ==
  ASSUME BaseInv, DispositionOfStock, [Next]_vars
  PROVE  DispositionOfStock'
<1>0. DispositionTypeOK /\ WritesPermitted
  BY DEF BaseInv
<1>1. CASE Aside
  BY <1>1 DEF Aside, DispositionOfStock, StockStatusOf
<1>2. ASSUME NEW d \in Dispositions, Transition(d[1], d[2], d[3]) PROVE DispositionOfStock'
  BY <1>0, <1>2, TransitionEffect DEF DispositionOfStock
<1>3. ASSUME UNCHANGED rows, status'["release"] = status["release"],
             "release" \in overwritten => "release" \in overwritten'
      PROVE  DispositionOfStock'
  BY <1>3 DEF DispositionOfStock
<1>4. ASSUME NEW k \in Block, NEW p \in Process, CreateBlock(p, k) PROVE DispositionOfStock'
  <2>1. "active" \in StatusOf(k)
    BY Statuses
  <2> QED BY <1>0, <1>3, <1>4, <2>1, NewBlockEffect DEF CreateBlock
<1>5. ASSUME NEW k \in Block, EnterBlock(k) PROVE DispositionOfStock'
  <2>1. PICK to \in StatusOf(k) : status[k] = "absent" /\ status' = [status EXCEPT ![k] = to]
    BY <1>5 DEF EnterBlock
  <2> QED BY <1>0, <1>3, <1>5, <2>1, NewBlockEffect DEF EnterBlock
<1>6. ASSUME NEW p \in Process, Save(p) PROVE DispositionOfStock'
  <2> DEFINE w == req[p][1]
  <2>1. /\ w.on \in Record /\ status'[w.on] = w.to /\ overwritten' = Overwritten(w)
        /\ \A r \in Record \ {w.on} : status'[r] = status[r]
        /\ UNCHANGED rows
    BY <1>0, <1>6, SaveEffect
  <2>2. Permitted(w)
    BY <1>6, SavePermitted
  <2> HIDE DEF w
  <2>3. CASE w.on = "release" /\ w.to # status["release"]
    BY <2>1, <2>2, <2>3 DEF Permitted, Overwritten, DispositionOfStock
  <2>4. CASE w.on = "release" /\ w.to = status["release"]
    BY <1>3, <2>1, <2>2, <2>4 DEF Permitted, Overwritten
  <2>5. CASE w.on # "release"
    BY <1>3, <2>1, <2>5 DEF Overwritten, Record
  <2> QED BY <2>3, <2>4, <2>5
<1>7. ASSUME NEW a \in Address, Receive(a) PROVE DispositionOfStock'
  BY <1>7 DEF Receive, DispositionOfStock
<1>8. \A k \in Block : LiftBlock(k) => DispositionOfStock'
  <2> SUFFICES ASSUME NEW k \in Block, LiftBlock(k) PROVE DispositionOfStock'
    OBVIOUS
  <2>1. "release" \notin Targets[k] /\ "release" # k
    BY TargetsHoldable, BlocksApart DEF Holdable
  <2> QED BY <1>3, <2>1, LiftEffect
<1>9. \A p \in Process : \A s \in Seq(Write) : Requested(p, s) => DispositionOfStock'
  BY <1>3 DEF Requested
<1> QED BY <1>0, <1>1, <1>2, <1>4, <1>5, <1>6, <1>7, <1>8, <1>9, StepKinds

\* Stock is in quarantine or has the disposition of its release, for any blocks, samples
\* and overlapping requests and for plain edits of everything: only the stale copy of a
\* release, once it has overwritten another status, suspends it, until the next disposition
\* (LotRelease._transition, receive_production_output).
THEOREM StockDisposed == Spec => []DispositionOfStock
<1>1. Init => DispositionOfStock
  BY DEF Init, DispositionOfStock
<1>2. BaseInv /\ DispositionOfStock /\ [Next]_vars => DispositionOfStock'
  BY StockStep
<1> QED BY BaseInit, BaseStep, <1>1, <1>2, PTL DEF Spec

-----------------------------------------------------------------------------
(* Approval *)

\* Where the sample does not name the lot, it is approved, or is about to be saved so by a
\* copy that was read so, only if some of its stock is; and that never changes again.
StockApproved == \E b \in rows : b[2] = "approved"
ApprovalBacked ==
  /\ rows # {}
  /\ ~sampled =>
       /\ status["lot"] = "approved" => StockApproved
       /\ \A p \in Process : \A i \in 1..Len(req[p]) :
            req[p][i].on = "lot" /\ req[p][i].to = "approved" => StockApproved

\* A block writes its lot only to hold it.
LEMMA ApplyLot ==
  ASSUME NEW k \in Block, NEW i \in 1..Len(ApplyWrites(k)), ApplyWrites(k)[i].on = "lot"
  PROVE  "lot" \in Targets[k] /\ ApplyWrites(k)[i].to = "blocked" /\ ~ApplyWrites(k)[i].edit
<1> DEFINE s == ApplyWrites(k)
<1>1. /\ s \in Seq(Write) /\ s[1] = Update(k, "active")
      /\ \A j \in 2..Len(s) : s[j].on \in Targets[k] /\ s[j].to = "blocked" /\ ~s[j].edit
  BY ApplySequence
<1>2. s[i].on = "lot" /\ i \in 1..Len(s)
  OBVIOUS
<1>3. k # "lot"
  BY BlocksApart DEF Holdable
<1> HIDE DEF s
<1>4. s[1].on = k
  BY <1>1, WriteType
<1>5. i \in 2..Len(s)
  BY <1>1, <1>2, <1>3, <1>4, LenProperties
<1>6. "lot" \in Targets[k] /\ s[i].to = "blocked" /\ ~s[i].edit
  BY <1>1, <1>2, <1>5
<1> QED BY <1>6 DEF s

LEMMA ApprovalStep ==
  ASSUME BaseInv, ApprovalBacked, [Next]_vars
  PROVE  ApprovalBacked'
<1>0. DispositionTypeOK /\ DOMAIN req = Process /\ rows # {}
  BY DEF BaseInv, DispositionTypeOK, ApprovalBacked
<1>1. StockApproved => StockApproved'
  BY FinalStep DEF StockApproved
<1>2. ASSUME UNCHANGED <<sampled, req, rows>>,
             status'["lot"] = status["lot"] \/ status'["lot"] # "approved"
      PROVE  ApprovalBacked'
  BY <1>2 DEF ApprovalBacked, StockApproved
<1>3. ASSUME NEW p \in Process, NEW s \in Seq(Write), req' = [req EXCEPT ![p] = s],
             UNCHANGED <<sampled, rows>>, status'["lot"] = status["lot"],
             \A i \in 1..Len(s) : ~sampled /\ s[i].on = "lot" /\ s[i].to = "approved" =>
               status["lot"] = "approved"
      PROVE  ApprovalBacked'
  <2>1. \A q \in Process : req'[q] = s \/ req'[q] = req[q]
    BY <1>0, <1>3
  <2> QED BY <1>3, <2>1 DEF ApprovalBacked, StockApproved
<1>4. ASSUME NEW d \in Dispositions, Transition(d[1], d[2], d[3]) PROVE ApprovalBacked'
  <2>1. rows' # {} /\ UNCHANGED <<sampled, req>>
    BY <1>0, <1>4 DEF Transition, Disposed
  <2>2. status'["lot"] = "approved" => StockApproved'
    BY <1>0, <1>4, <2>1, TransitionEffect DEF StockApproved
  <2> QED BY <1>1, <2>1, <2>2 DEF ApprovalBacked
<1>5. CASE Aside
  BY <1>2, <1>5 DEF Aside, Holdable
<1>6. ASSUME NEW p \in Process, NEW s \in Seq(Write), Requested(p, s),
             OfEvidence(s) \/ OfBlock(s) \/ OfEdit(s)
      PROVE  ApprovalBacked'
  <2>1. \A i \in 1..Len(s) : ~sampled /\ s[i].on = "lot" /\ s[i].to = "approved" =>
               status["lot"] = "approved"
    <3>1. CASE OfEvidence(s)
      BY <3>1 DEF OfEvidence
    <3>2. CASE OfBlock(s)
      BY <3>2, ApplyLot DEF OfBlock
    <3>3. CASE OfEdit(s)
      BY <3>3 DEF OfEdit
    <3> QED BY <1>6, <3>1, <3>2, <3>3
  <2> QED BY <1>3, <1>6, <2>1 DEF Requested
<1>7. ASSUME NEW p \in Process, NEW k \in Block, CreateBlock(p, k) PROVE ApprovalBacked'
  <2>1. "active" \in StatusOf(k)
    BY Statuses
  <2>2. status'["lot"] = status["lot"]
    BY <1>0, <1>7, <2>1, NewBlockEffect DEF CreateBlock, Holdable
  <2>3. ApplyWrites(k) \in Seq(Write)
    BY ApplySequence
  <2>4. \A i \in 1..Len(ApplyWrites(k)) :
          ApplyWrites(k)[i].on = "lot" => ApplyWrites(k)[i].to # "approved"
    BY ApplyLot
  <2> QED BY <1>3, <1>7, <2>2, <2>3, <2>4 DEF CreateBlock
<1>8. ASSUME NEW k \in Block, EnterBlock(k) PROVE ApprovalBacked'
  <2>1. PICK to \in StatusOf(k) : status[k] = "absent" /\ status' = [status EXCEPT ![k] = to]
    BY <1>8 DEF EnterBlock
  <2>2. status'["lot"] = status["lot"]
    BY <1>0, <2>1, NewBlockEffect DEF Holdable
  <2> QED BY <1>2, <1>8, <2>2 DEF EnterBlock
<1>9. ASSUME NEW k \in Block, LiftBlock(k) PROVE ApprovalBacked'
  BY <1>2, <1>9, LiftEffect
<1>10. ASSUME NEW p \in Process, Save(p) PROVE ApprovalBacked'
  <2> DEFINE w == req[p][1]
  <2>1. /\ w.on \in Record /\ status'[w.on] = w.to
        /\ \A r \in Record \ {w.on} : status'[r] = status[r]
        /\ Len(req[p]) \in Nat /\ Len(req[p]) >= 1
        /\ \A i \in 1..Len(req'[p]) : i + 1 \in 1..Len(req[p]) /\ req'[p][i] = req[p][i + 1]
        /\ \A q \in Process \ {p} : req'[q] = req[q]
        /\ UNCHANGED <<sampled, rows>>
    BY <1>0, <1>10, SaveEffect
  <2>2. 1 \in 1..Len(req[p])
    BY <2>1
  <2>3. ~sampled /\ w.on = "lot" /\ w.to = "approved" => StockApproved
    BY <2>2 DEF ApprovalBacked
  <2> HIDE DEF w
  <2>4. ~sampled /\ status'["lot"] = "approved" => StockApproved
    BY <2>1, <2>3 DEF ApprovalBacked, Record, Holdable
  <2>5. ASSUME NEW q \in Process, NEW i \in 1..Len(req'[q]), ~sampled,
               req'[q][i].on = "lot", req'[q][i].to = "approved"
        PROVE  StockApproved
    <3>1. CASE q = p
      <4>1. i + 1 \in 1..Len(req[p]) /\ req'[p][i] = req[p][i + 1]
        BY <2>1, <2>5, <3>1
      <4> QED BY <2>5, <3>1, <4>1 DEF ApprovalBacked
    <3>2. CASE q # p
      BY <2>1, <2>5, <3>2 DEF ApprovalBacked
    <3> QED BY <3>1, <3>2
  <2> QED BY <1>0, <1>1, <2>1, <2>4, <2>5 DEF ApprovalBacked
<1>11. ASSUME NEW a \in Address, Receive(a) PROVE ApprovalBacked'
  <2>1. rows' # {} /\ UNCHANGED <<status, sampled, req>>
    BY <1>11 DEF Receive
  <2> QED BY <1>1, <2>1 DEF ApprovalBacked
<1> QED BY <1>0, <1>4, <1>5, <1>6, <1>7, <1>8, <1>9, <1>10, <1>11, StepKinds

\* No number of blocks put on a lot and lifted in any order approves it, nor do stale saves
\* of lots, blocks and evidence (QualityBlock.unblock): approved stock is behind every
\* approval, and its release is released unless a stale copy has overwritten it.  A sample
\* that names the lot does approve it (QualitySample.approve).
THEOREM UnblockNeverApproves == Spec => []ApprovedByRelease
<1>1. Init => ApprovalBacked
  <2> SUFFICES ASSUME Init PROVE ApprovalBacked
    OBVIOUS
  <2>1. \A p \in Process : \A i \in 1..Len(req[p]) : FALSE
    BY EmptySeq DEF Init
  <2>2. status["lot"] = "quarantine" /\ rows # {}
    BY BlocksApart DEF Init, Record, Holdable
  <2> QED BY <2>1, <2>2 DEF ApprovalBacked
<1>2. BaseInv /\ ApprovalBacked /\ [Next]_vars => ApprovalBacked'
  BY ApprovalStep
<1>3. BaseInv /\ DispositionOfStock /\ ApprovalBacked => ApprovedByRelease
  <2> SUFFICES ASSUME BaseInv, DispositionOfStock, ApprovalBacked,
                      ~sampled, "release" \notin overwritten, status["lot"] = "approved"
               PROVE  status["release"] = "released"
    BY DEF ApprovedByRelease
  <2>1. PICK b \in rows : b[2] = "approved"
    BY DEF ApprovalBacked, StockApproved
  <2>2. StockStatusOf(status["release"]) = "approved"
    BY <2>1 DEF DispositionOfStock
  <2>3. status["release"] \in StatusOf("release")
    BY DEF BaseInv, DispositionTypeOK, Record
  <2> QED BY <2>2, <2>3, Statuses DEF StockStatusOf
<1> QED BY BaseInit, BaseStep, StockDisposed, <1>1, <1>2, <1>3, PTL DEF Spec

-----------------------------------------------------------------------------
(* Agreement of release, lot and stock *)

\* Where the sample does not name the lot, only a block that exists is about to change it,
\* or an edit.
LotHeldBy(k) == "lot" \in Targets[k] /\ status[k] # "absent"
LotHeld == \A p \in Process : \A i \in 1..Len(req[p]) :
  ~sampled /\ req[p][i].on = "lot" /\ ~req[p][i].edit => \E k \in Block : LotHeldBy(k)

\* A block that exists stays, whatever its status becomes.
LEMMA BlocksStay ==
  ASSUME BaseInv, [Next]_vars, NEW k \in Block, status[k] # "absent"
  PROVE  status'[k] # "absent"
<1>0. DispositionTypeOK
  BY DEF BaseInv
<1>1. ASSUME NEW j \in Block, NEW to \in StatusOf(j), status[j] = "absent",
             status' = [status EXCEPT ![j] = to]
      PROVE  status'[k] # "absent"
  BY <1>0, <1>1, NewBlockEffect
<1>2. ASSUME NEW p \in Process, NEW j \in Block, CreateBlock(p, j)
      PROVE  status'[k] # "absent"
  BY <1>1, <1>2, Statuses DEF CreateBlock
<1>3. ASSUME NEW j \in Block, EnterBlock(j) PROVE status'[k] # "absent"
  BY <1>1, <1>3 DEF EnterBlock
<1>4. ASSUME NEW j \in Block, LiftBlock(j) PROVE status'[k] # "absent"
  BY <1>4, LiftEffect
<1>5. ASSUME NEW p \in Process, Save(p) PROVE status'[k] # "absent"
  <2>1. /\ status'[req[p][1].on] = req[p][1].to
        /\ \A r \in Record \ {req[p][1].on} : status'[r] = status[r]
    BY <1>0, <1>5, SaveEffect
  <2>2. req[p][1].on = k => req[p][1].to # "absent"
    BY <1>5, SavePermitted DEF Permitted
  <2> QED BY <2>1, <2>2 DEF Record
<1>6. ASSUME NEW d \in Dispositions, Transition(d[1], d[2], d[3]) PROVE status'[k] # "absent"
  BY <1>0, <1>6, TransitionEffect
<1> QED BY <1>0, <1>2, <1>3, <1>4, <1>5, <1>6, StepKinds DEF Aside, Requested, Receive

LEMMA LotHeldStep ==
  ASSUME BaseInv, LotHeld, [Next]_vars
  PROVE  LotHeld'
<1>0. DispositionTypeOK /\ DOMAIN req = Process /\ sampled \in BOOLEAN
  BY DEF BaseInv, DispositionTypeOK
<1>1. \A k \in Block : LotHeldBy(k) => LotHeldBy(k)'
  BY BlocksStay DEF LotHeldBy
<1>2. ASSUME UNCHANGED <<req, sampled>> PROVE LotHeld'
  BY <1>1, <1>2 DEF LotHeld
<1>3. ASSUME NEW p \in Process, NEW s \in Seq(Write), req' = [req EXCEPT ![p] = s],
             UNCHANGED sampled,
             \A i \in 1..Len(s) :
               ~sampled /\ s[i].on = "lot" /\ ~s[i].edit => \E k \in Block : LotHeldBy(k)'
      PROVE  LotHeld'
  <2>1. \A q \in Process : req'[q] = s \/ req'[q] = req[q]
    BY <1>0, <1>3
  <2> QED BY <1>1, <1>3, <2>1 DEF LotHeld
<1>4. ASSUME NEW p \in Process, NEW s \in Seq(Write), Requested(p, s),
             OfEvidence(s) \/ OfBlock(s) \/ OfEdit(s)
      PROVE  LotHeld'
  <2>1. ASSUME NEW i \in 1..Len(s), ~sampled, s[i].on = "lot", ~s[i].edit
        PROVE  \E k \in Block : LotHeldBy(k)'
    <3>1. CASE OfEvidence(s)
      BY <2>1, <3>1 DEF OfEvidence
    <3>2. CASE OfBlock(s)
      <4>1. PICK k \in Block : status[k] # "absent" /\ s = ApplyWrites(k)
        BY <3>2 DEF OfBlock
      <4>2. LotHeldBy(k)
        BY <2>1, <4>1, ApplyLot DEF LotHeldBy
      <4> QED BY <1>1, <4>2
    <3>3. CASE OfEdit(s)
      BY <2>1, <3>3 DEF OfEdit
    <3> QED BY <1>4, <3>1, <3>2, <3>3
  <2> QED BY <1>3, <1>4, <2>1 DEF Requested
<1>5. ASSUME NEW p \in Process, NEW k \in Block, CreateBlock(p, k) PROVE LotHeld'
  <2>1. ApplyWrites(k) \in Seq(Write)
    BY ApplySequence
  <2>2. status'[k] = "active"
    BY <1>0, <1>5 DEF CreateBlock, DispositionTypeOK, Record
  <2>3. ASSUME NEW i \in 1..Len(ApplyWrites(k)), ApplyWrites(k)[i].on = "lot"
        PROVE  LotHeldBy(k)'
    BY <2>2, <2>3, ApplyLot DEF LotHeldBy
  <2> QED BY <1>3, <1>5, <2>1, <2>3 DEF CreateBlock
<1>6. ASSUME NEW p \in Process, Save(p) PROVE LotHeld'
  <2>1. /\ \A i \in 1..Len(req'[p]) : i + 1 \in 1..Len(req[p]) /\ req'[p][i] = req[p][i + 1]
        /\ \A q \in Process \ {p} : req'[q] = req[q]
        /\ UNCHANGED sampled /\ req'[p] \in Seq(Write)
    BY <1>0, <1>6, SaveEffect
  <2>2. \A i \in 1..Len(req'[p]) :
          ~sampled /\ req'[p][i].on = "lot" /\ ~req'[p][i].edit => \E k \in Block : LotHeldBy(k)'
    BY <1>1, <2>1 DEF LotHeld
  <2>3. \A q \in Process \ {p} : \A i \in 1..Len(req'[q]) :
          ~sampled /\ req'[q][i].on = "lot" /\ ~req'[q][i].edit => \E k \in Block : LotHeldBy(k)'
    BY <1>1, <2>1 DEF LotHeld
  <2> QED BY <2>1, <2>2, <2>3 DEF LotHeld
<1>7. \A d \in Dispositions : Transition(d[1], d[2], d[3]) => UNCHANGED <<req, sampled>>
  BY DEF Transition
<1>8. \A k \in Block : LiftBlock(k) \/ EnterBlock(k) => UNCHANGED <<req, sampled>>
  BY DEF LiftBlock, EnterBlock
<1>9. \A a \in Address : Receive(a) => UNCHANGED <<req, sampled>>
  BY DEF Receive
<1> QED BY <1>0, <1>2, <1>4, <1>5, <1>6, <1>7, <1>8, <1>9, StepKinds DEF Aside

\* Nobody has blocked the lot.
LotFree == \A k \in Block : "lot" \in Targets[k] => status[k] = "absent"

LEMMA AgreeStep ==
  ASSUME BaseInv, LotHeld, DispositionAgrees, [Next]_vars
  PROVE  DispositionAgrees'
<1>0. DispositionTypeOK
  BY DEF BaseInv
<1> SUFFICES ASSUME ~sampled', LotFree', {"release", "lot"} \cap overwritten' = {}
             PROVE  /\ status'["lot"] = StockStatusOf(status'["release"])
                    /\ \A b \in rows' : b[2] = status'["lot"]
  BY DEF DispositionAgrees, LotFree
<1>1. LotFree
  BY BlocksStay DEF LotFree
<1>2. ASSUME ~sampled, {"release", "lot"} \cap overwritten = {}
      PROVE  /\ status["lot"] = StockStatusOf(status["release"])
             /\ \A b \in rows : b[2] = status["lot"]
  BY <1>1, <1>2 DEF DispositionAgrees, LotFree
<1> DEFINE Agreed == /\ status'["lot"] = StockStatusOf(status'["release"])
                     /\ \A b \in rows' : b[2] = status'["lot"]
<1>3. ASSUME status'["release"] = status["release"], status'["lot"] = status["lot"],
             UNCHANGED <<rows, sampled>>,
             {"release", "lot"} \cap overwritten \subseteq overwritten'
      PROVE  Agreed
  BY <1>2, <1>3
<1>4. CASE Aside
  BY <1>2, <1>4 DEF Aside, Holdable, StockStatusOf
<1>5. ASSUME NEW d \in Dispositions, Transition(d[1], d[2], d[3]) PROVE Agreed
  BY <1>0, <1>5, TransitionEffect
<1>6. ASSUME NEW p \in Process, NEW k \in Block, CreateBlock(p, k) PROVE Agreed
  BY <1>0, <1>3, <1>6, NewBlockEffect, Statuses DEF CreateBlock, Holdable
<1>7. ASSUME NEW k \in Block, EnterBlock(k) PROVE Agreed
  BY <1>0, <1>3, <1>7, NewBlockEffect DEF EnterBlock, Holdable
<1>8. ASSUME NEW k \in Block, LiftBlock(k) PROVE Agreed
  <2>1. status[k] = "active"
    BY <1>8, LiftEffect
  <2>2. "lot" \notin Targets[k] /\ "release" \notin Targets[k] /\ k \notin {"release", "lot"}
    BY <1>1, <2>1, TargetsHoldable, BlocksApart DEF LotFree, Holdable
  <2> QED BY <1>3, <1>8, <2>2, LiftEffect
<1>9. ASSUME NEW p \in Process, Save(p) PROVE Agreed
  <2> DEFINE w == req[p][1]
  <2>1. /\ w.on \in Record /\ status'[w.on] = w.to /\ overwritten' = Overwritten(w)
        /\ \A r \in Record \ {w.on} : status'[r] = status[r]
        /\ UNCHANGED <<rows, sampled>>
        /\ Len(req[p]) \in Nat /\ Len(req[p]) >= 1
    BY <1>0, <1>9, SaveEffect
  <2>2. 1 \in 1..Len(req[p]) /\ (w.on = "release" => w.edit)
    BY <1>9, <2>1, SavePermitted DEF Permitted
  <2>3. w.on = "lot" => w.edit
    BY <1>1, <2>1, <2>2 DEF LotHeld, LotHeldBy, LotFree
  <2> HIDE DEF w
  <2>4. w.on \in {"release", "lot"} => w.to = status[w.on] /\ overwritten' = overwritten
    BY <2>1, <2>2, <2>3 DEF Overwritten
  <2>5. /\ status'["release"] = status["release"] /\ status'["lot"] = status["lot"]
        /\ {"release", "lot"} \cap overwritten \subseteq overwritten'
    BY <2>1, <2>4 DEF Overwritten, Record, Holdable
  <2> QED BY <1>3, <2>1, <2>5
<1>10. ASSUME NEW a \in Address, Receive(a) PROVE Agreed
  BY <1>2, <1>10 DEF Receive, MayReceive
<1>11. \A p \in Process : \A s \in Seq(Write) : Requested(p, s) => Agreed
  BY <1>3 DEF Requested
<1> QED BY <1>0, <1>4, <1>5, <1>6, <1>7, <1>8, <1>9, <1>10, <1>11, StepKinds

\* Release, lot and balances agree unless somebody blocks the lot, its sample names it or a
\* stale copy of release or lot has overwritten another status, whatever users edit: the
\* premise that every disposition and every entry compares (LotRelease._transition).
THEOREM Agreement == Spec => []DispositionAgrees
<1>1. Init => DispositionAgrees
  <2> SUFFICES ASSUME Init PROVE DispositionAgrees
    OBVIOUS
  <2>1. status["release"] = "absent" /\ status["lot"] = "quarantine"
    BY BlocksApart DEF Init, Record, Holdable
  <2>2. \A b \in rows : b[2] = "quarantine"
    BY DEF Init
  <2> QED BY <2>1, <2>2 DEF DispositionAgrees, StockStatusOf
<1>2. Init => LotHeld
  <2> SUFFICES ASSUME Init PROVE LotHeld
    OBVIOUS
  <2>1. \A p \in Process : \A i \in 1..Len(req[p]) : FALSE
    BY EmptySeq DEF Init
  <2> QED BY <2>1, Zenon DEF LotHeld
<1>3. BaseInv /\ LotHeld /\ [Next]_vars => LotHeld'
  BY LotHeldStep
<1>4. BaseInv /\ LotHeld /\ DispositionAgrees /\ [Next]_vars => DispositionAgrees'
  BY AgreeStep
<1> QED BY BaseInit, BaseStep, <1>1, <1>2, <1>3, <1>4, PTL DEF Spec

-----------------------------------------------------------------------------
(* Holds of blocks *)

\* A request that applies a block writes its targets afterwards.
HoldsFollow(s) == \A i \in 1..Len(s) : s[i].on \in Block /\ ~s[i].edit =>
  \A t \in Targets[s[i].on] : \E j \in 1..Len(s) : j > i /\ s[j] = Update(t, "blocked")

HoldInv == BlockTakesHold /\ \A p \in Process : HoldsFollow(req[p])

LEMMA ApplyHolds ==
  ASSUME NEW k \in Block
  PROVE  /\ HoldsFollow(ApplyWrites(k))
         /\ \A t \in Targets[k] :
              \E i \in DOMAIN ApplyWrites(k) : ApplyWrites(k)[i] = Update(t, "blocked")
<1> DEFINE s == ApplyWrites(k)
<1>1. /\ s \in Seq(Write) /\ s[1] = Update(k, "active")
      /\ \A i \in 2..Len(s) : s[i].on \in Targets[k] /\ s[i].to = "blocked"
      /\ \A t \in Targets[k] : \E i \in 2..Len(s) : s[i] = Update(t, "blocked")
  BY ApplySequence
<1> HIDE DEF s
<1>2. Len(s) \in Nat /\ DOMAIN s = 1..Len(s) /\ s[1].on = k
  BY <1>1, LenProperties, WriteType
<1>3. \A i \in 1..Len(s) : i = 1 \/ i \in 2..Len(s)
  BY <1>2
<1>4. \A i \in 2..Len(s) : i \in 1..Len(s) /\ i > 1
  BY <1>2
<1>5. \A t \in Targets[k] : t \notin Block
  BY TargetsHoldable, BlocksApart
<1>6. \A i \in 1..Len(s) : s[i].on \in Block => i = 1
  BY <1>1, <1>3, <1>5
<1>7. \A t \in Targets[k] : \E j \in 1..Len(s) : j > 1 /\ s[j] = Update(t, "blocked")
  BY <1>1, <1>4
<1>8. HoldsFollow(s)
  BY <1>2, <1>6, <1>7 DEF HoldsFollow
<1> QED BY <1>2, <1>7, <1>8 DEF s

LEMMA RequestHolds ==
  ASSUME NEW s \in Seq(Write),
         OfEvidence(s) \/ OfBlock(s) \/ OfEdit(s)
  PROVE  HoldsFollow(s)
<1>1. CASE OfEvidence(s)
  BY <1>1, BlocksApart DEF OfEvidence, HoldsFollow, Holdable
<1>2. CASE OfBlock(s)
  BY <1>2, ApplyHolds DEF OfBlock
<1>3. CASE OfEdit(s)
  <2>1. \A i \in 1..Len(s) : s[i].edit
    BY <1>3 DEF OfEdit
  <2> QED BY <2>1 DEF HoldsFollow
<1> QED BY <1>1, <1>2, <1>3

LEMMA TailHolds ==
  ASSUME NEW s \in Seq(Write), NEW u \in Seq(Write), HoldsFollow(s), Len(u) = Len(s) - 1,
         \A i \in 1..Len(u) : i + 1 \in 1..Len(s) /\ u[i] = s[i + 1]
  PROVE  HoldsFollow(u)
<1>1. Len(s) \in Nat /\ Len(u) \in Nat
  BY LenProperties
<1>2. ASSUME NEW i \in 1..Len(u), u[i].on \in Block, ~u[i].edit, NEW t \in Targets[u[i].on]
      PROVE  \E j \in 1..Len(u) : j > i /\ u[j] = Update(t, "blocked")
  <2>1. PICK j \in 1..Len(s) : j > i + 1 /\ s[j] = Update(t, "blocked")
    BY <1>2 DEF HoldsFollow
  <2>2. j - 1 \in 1..Len(u) /\ (j - 1) + 1 = j /\ j - 1 > i
    BY <1>1, <2>1
  <2>3. u[j - 1] = s[j]
    BY <2>2
  <2> QED BY <2>1, <2>2, <2>3
<1> QED BY <1>2 DEF HoldsFollow

\* A block that was active holds its targets after a step that frees none of them and in
\* which requests keep what they have to write or write it.
LEMMA HoldFrame ==
  ASSUME BlockTakesHold, NEW k \in Block \ overwritten, status[k] = "active",
         NEW t \in Targets[k] \ ({"lot"} \cup overwritten),
         status[t] = "blocked" => status'[t] = "blocked",
         \A p \in Process, w \in Write :
           Pending(p, w) => Pending(p, w)' \/ status'[w.on] = w.to
  PROVE  \/ status'[t] = "blocked"
         \/ \E p \in Process : Pending(p, Update(t, "blocked"))'
<1> SUFFICES ASSUME status'[t] # "blocked"
             PROVE  \E p \in Process : Pending(p, Update(t, "blocked"))'
  OBVIOUS
<1>1. PICK p \in Process : Pending(p, Update(t, "blocked"))
  BY DEF BlockTakesHold
<1>2. Update(t, "blocked") \in Write
  BY WriteType, Statuses, TargetsHoldable DEF Record, Holdable, StockStatus
<1> QED BY <1>1, <1>2, WriteType

LEMMA FollowStep ==
  ASSUME BaseInv, HoldInv, [Next]_vars
  PROVE  \A p \in Process : HoldsFollow(req'[p])
<1>0. DispositionTypeOK /\ DOMAIN req = Process
  BY DEF BaseInv, DispositionTypeOK
<1>1. \A p \in Process : HoldsFollow(req[p]) /\ req[p] \in Seq(Write)
  BY <1>0 DEF HoldInv, DispositionTypeOK
<1>2. ASSUME UNCHANGED req PROVE \A p \in Process : HoldsFollow(req'[p])
  BY <1>1, <1>2
<1>3. ASSUME NEW p \in Process, NEW s \in Seq(Write), HoldsFollow(s),
             req' = [req EXCEPT ![p] = s]
      PROVE  \A q \in Process : HoldsFollow(req'[q])
  <2>1. \A q \in Process : req'[q] = s \/ req'[q] = req[q]
    BY <1>0, <1>3
  <2> QED BY <1>1, <1>3, <2>1
<1>4. ASSUME NEW p \in Process, NEW s \in Seq(Write), Requested(p, s),
             OfEvidence(s) \/ OfBlock(s) \/ OfEdit(s)
      PROVE  \A q \in Process : HoldsFollow(req'[q])
  BY <1>3, <1>4, RequestHolds DEF Requested
<1>5. ASSUME NEW p \in Process, NEW k \in Block, CreateBlock(p, k)
      PROVE  \A q \in Process : HoldsFollow(req'[q])
  BY <1>3, <1>5, ApplySequence, ApplyHolds DEF CreateBlock
<1>6. ASSUME NEW p \in Process, Save(p) PROVE \A q \in Process : HoldsFollow(req'[q])
  <2>1. /\ req'[p] \in Seq(Write) /\ Len(req'[p]) = Len(req[p]) - 1
        /\ \A i \in 1..Len(req'[p]) : i + 1 \in 1..Len(req[p]) /\ req'[p][i] = req[p][i + 1]
        /\ \A q \in Process \ {p} : req'[q] = req[q]
    BY <1>0, <1>6, SaveEffect
  <2>2. HoldsFollow(req'[p])
    BY <1>1, <2>1, TailHolds
  <2> QED BY <1>1, <2>1, <2>2
<1>7. \A d \in Dispositions : Transition(d[1], d[2], d[3]) => UNCHANGED req
  BY DEF Transition
<1>8. \A k \in Block : LiftBlock(k) \/ EnterBlock(k) => UNCHANGED req
  BY DEF LiftBlock, EnterBlock
<1>9. \A a \in Address : Receive(a) => UNCHANGED req
  BY DEF Receive
<1> QED BY <1>0, <1>2, <1>4, <1>5, <1>6, <1>7, <1>8, <1>9, StepKinds DEF Aside

LEMMA HoldStep ==
  ASSUME BaseInv, HoldInv, [Next]_vars
  PROVE  BlockTakesHold'
<1>0. DispositionTypeOK /\ DOMAIN req = Process /\ BlockTakesHold
  BY DEF BaseInv, DispositionTypeOK, HoldInv
<1> SUFFICES ASSUME NEW k \in Block \ overwritten',
                    NEW t \in Targets[k] \ ({"lot"} \cup overwritten'), status'[k] = "active"
             PROVE  \/ status'[t] = "blocked"
                    \/ \E q \in Process : Pending(q, Update(t, "blocked"))'
  BY DEF BlockTakesHold
<1> DEFINE Holds == \/ status'[t] = "blocked"
                    \/ \E q \in Process : Pending(q, Update(t, "blocked"))'
<1>1. t \in Holdable \ {"lot"} /\ t \in Record /\ t \notin Block /\ k \in Record
  BY TargetsHoldable, BlocksApart DEF Record
<1>2. ASSUME UNCHANGED req, status'[t] = status[t], status'[k] = status[k],
             k \notin overwritten, t \notin overwritten
      PROVE  Holds
  <2>1. \A p \in Process, w \in Write : Pending(p, w) => Pending(p, w)'
    BY <1>2 DEF Pending
  <2> QED BY <1>0, <1>2, <2>1, HoldFrame
<1>3. CASE Aside
  BY <1>1, <1>2, <1>3 DEF Aside
<1>4. ASSUME NEW d \in Dispositions, Transition(d[1], d[2], d[3]) PROVE Holds
  <2>1. overwritten' = overwritten \ {"release", "lot"} /\ k \notin {"release", "lot"}
        /\ t \notin {"release", "lot"}
    BY <1>0, <1>1, <1>4, TransitionEffect, BlocksApart DEF Holdable
  <2> QED BY <1>0, <1>1, <1>2, <1>4, <2>1, TransitionEffect
<1>5. ASSUME NEW p \in Process, NEW s \in Seq(Write), req[p] = <<>>,
             req' = [req EXCEPT ![p] = s]
      PROVE  \A q \in Process, w \in Write : Pending(q, w) => Pending(q, w)'
  <2>1. \A q \in Process \ {p} : req'[q] = req[q]
    BY <1>0, <1>5
  <2>2. \A w \in Write : ~Pending(p, w)
    BY <1>5, EmptySeq DEF Pending
  <2> QED BY <2>1, <2>2 DEF Pending
<1>6. ASSUME NEW p \in Process, NEW s \in Seq(Write), Requested(p, s) PROVE Holds
  <2>1. UNCHANGED <<status, overwritten>> /\ status[k] = "active"
    BY <1>6 DEF Requested
  <2>2. \A q \in Process, w \in Write : Pending(q, w) => Pending(q, w)'
    BY <1>5, <1>6 DEF Requested
  <2> QED BY <1>0, <2>1, <2>2, HoldFrame
<1>7. ASSUME NEW p \in Process, NEW j \in Block, CreateBlock(p, j) PROVE Holds
  <2>1. /\ status[j] = "absent" /\ status' = [status EXCEPT ![j] = "active"]
        /\ req[p] = <<>> /\ req' = [req EXCEPT ![p] = ApplyWrites(j)]
        /\ UNCHANGED overwritten
    BY <1>7 DEF CreateBlock
  <2>2. \A r \in {"release"} \cup Holdable \cup (Block \ {j}) : status'[r] = status[r]
    <3>1. "active" \in StatusOf(j)
      BY Statuses
    <3> QED BY <1>0, <2>1, <3>1, NewBlockEffect
  <2>3. CASE j = k
    <3>1. req'[p] = ApplyWrites(k)
      BY <1>0, <2>1, <2>3
    <3>2. Pending(p, Update(t, "blocked"))'
      BY <3>1, ApplyHolds DEF Pending
    <3> QED BY <3>2
  <2>4. CASE j # k
    <3>1. \A q \in Process, w \in Write : Pending(q, w) => Pending(q, w)'
      BY <1>5, <2>1, ApplySequence
    <3>2. status'[t] = status[t] /\ status[k] = "active"
      BY <1>1, <2>2, <2>4
    <3> QED BY <1>0, <2>1, <3>1, <3>2, HoldFrame
  <2> QED BY <2>3, <2>4
<1>8. ASSUME NEW j \in Block, EnterBlock(j) PROVE Holds
  <2>1. PICK to \in StatusOf(j) : /\ status[j] = "absent" /\ status' = [status EXCEPT ![j] = to]
                                  /\ overwritten' = overwritten \cup {j} /\ UNCHANGED req
    BY <1>8 DEF EnterBlock
  <2>2. \A r \in Holdable \cup (Block \ {j}) : status'[r] = status[r]
    BY <1>0, <2>1, NewBlockEffect
  <2> QED BY <1>1, <1>2, <2>1, <2>2
<1>9. ASSUME NEW j \in Block, LiftBlock(j) PROVE Holds
  <2>1. j # k /\ status[k] = "active" /\ UNCHANGED req
    BY <1>9, LiftEffect
  <2>2. k \in OtherBlocks(j, t)
    BY <2>1 DEF OtherBlocks
  <2>3. status'[t] = status[t]
    BY <1>1, <1>9, <2>2, LiftEffect
  <2>4. k \notin overwritten /\ t \notin overwritten
    BY <1>1, <1>9, <2>1, <2>2, LiftEffect, TargetsHoldable, BlocksApart
  <2> QED BY <1>2, <2>1, <2>3, <2>4
<1>10. ASSUME NEW p \in Process, Save(p) PROVE Holds
  <2> DEFINE s == req[p]
             w == s[1]
             u == req'[p]
  <2>1. /\ s \in Seq(Write) /\ Len(s) \in Nat /\ Len(s) >= 1 /\ HoldsFollow(s)
        /\ w.on \in Record /\ status'[w.on] = w.to /\ overwritten' = Overwritten(w)
        /\ \A r \in Record \ {w.on} : status'[r] = status[r]
        /\ u \in Seq(Write) /\ Len(u) = Len(s) - 1
        /\ \A i \in 1..Len(u) : u[i] = s[i + 1]
        /\ \A q \in Process \ {p} : req'[q] = req[q]
    BY <1>0, <1>10, SaveEffect DEF HoldInv
  <2>2. w.on \in {"product", "supplier"} => w.edit \/ w.to = "blocked"
    BY <1>10, SavePermitted DEF Permitted
  <2>3. DOMAIN s = 1..Len(s) /\ DOMAIN u = 1..Len(u)
    BY <2>1, LenProperties
  <2>4. ASSUME NEW v, NEW i \in 1..Len(s), i > 1, s[i] = v PROVE Pending(p, v)'
    <3>1. i - 1 \in 1..Len(u) /\ (i - 1) + 1 = i
      BY <2>1, <2>4
    <3>2. u[i - 1] = v
      BY <2>1, <2>4, <3>1
    <3> QED BY <2>3, <3>1, <3>2 DEF Pending
  <2>5. CASE w.on = k /\ ~w.edit
    <3>1. 1 \in 1..Len(s) /\ s[1].on = k /\ ~s[1].edit
      BY <2>1, <2>5
    <3>2. PICK j \in 1..Len(s) : j > 1 /\ s[j] = Update(t, "blocked")
      BY <2>1, <3>1 DEF HoldsFollow
    <3>3. Pending(p, Update(t, "blocked"))'
      BY <2>4, <3>2
    <3> QED BY <3>3
  <2>6. CASE w.on = t /\ ~w.edit
    BY <1>1, <2>1, <2>2, <2>6 DEF Holdable
  <2>7. CASE w.on \in {k, t} => w.edit
    <3>1. w.on \in {k, t} => w.to = status[w.on] /\ overwritten' = overwritten
      BY <2>1, <2>7 DEF Overwritten
    <3>2. status'[k] = status[k] /\ status'[t] = status[t]
      BY <1>1, <2>1, <3>1
    <3>4. k \notin overwritten /\ t \notin overwritten
      BY <2>1, <3>1 DEF Overwritten
    <3>3. ASSUME NEW q \in Process, NEW v \in Write, Pending(q, v)
          PROVE  Pending(q, v)' \/ status'[v.on] = v.to
      <4>1. CASE q # p
        BY <2>1, <3>3, <4>1 DEF Pending
      <4>2. CASE q = p
        <5>1. PICK i \in 1..Len(s) : s[i] = v
          BY <2>3, <3>3, <4>2 DEF Pending
        <5>2. CASE i = 1
          BY <2>1, <5>1, <5>2
        <5>3. CASE i > 1
          BY <2>4, <4>2, <5>1, <5>3
        <5> QED BY <2>1, <5>2, <5>3
      <4> QED BY <4>1, <4>2
    <3> HIDE DEF s, w, u
    <3> QED BY <1>0, <3>2, <3>3, <3>4, HoldFrame
  <2> QED BY <2>5, <2>6, <2>7
<1>11. ASSUME NEW a \in Address, Receive(a) PROVE Holds
  BY <1>2, <1>11 DEF Receive
<1> QED BY <1>0, <1>3, <1>4, <1>6, <1>7, <1>8, <1>9, <1>10, <1>11, StepKinds

\* No unblock of one block frees a product or supplier that another active block is on,
\* for any number of blocks and of requests between two of their writes, unless an edit has
\* activated that block or freed the target (QualityBlock.apply and unblock).
THEOREM BlocksHold == Spec => []BlockTakesHold
<1>1. Init => HoldInv
  <2> SUFFICES ASSUME Init PROVE HoldInv
    OBVIOUS
  <2>1. \A k \in Block : status[k] = "absent"
    BY BlocksApart DEF Init, Record, Holdable
  <2>2. \A p \in Process : \A i \in 1..Len(req[p]) : FALSE
    BY EmptySeq DEF Init
  <2>3. \A p \in Process : HoldsFollow(req[p])
    BY <2>2, Zenon DEF HoldsFollow
  <2> QED BY <2>1, <2>3 DEF HoldInv, BlockTakesHold
<1>2. BaseInv /\ HoldInv /\ [Next]_vars => HoldInv'
  BY FollowStep, HoldStep DEF HoldInv
<1>3. HoldInv => BlockTakesHold
  BY DEF HoldInv
<1> QED BY BaseInit, BaseStep, <1>1, <1>2, <1>3, PTL DEF Spec
=============================================================================
