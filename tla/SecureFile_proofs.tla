-------------------------- MODULE SecureFile_proofs --------------------------
(***************************************************************************)
(* Proofs about SecureFile, for any files, links and concurrent requests   *)
(* and any number of uses.                                                 *)
(***************************************************************************)
EXTENDS SecureFile, TLAPS

USE FilesAssumption

\* A link has no uses before it exists, and requests have read only links that exist.
LinksSound ==
  /\ \A l \in Link : link[l].file = "none" => link[l].uses = 0
  /\ \A r \in Request : seen[r].link # "none" => link[seen[r].link].file # "none"

\* The inductive invariant: a use is counted on the row it locks, and no link is in use
\* before it exists.
IndInv == FilesTypeOK /\ LinksSound /\ UsesCounted

-----------------------------------------------------------------------------
(* What each action does to the type of the state *)

LEMMA InitType == Init => FilesTypeOK
BY DEF Init, FilesTypeOK, FileRow, LinkRow, CopyRow, SeenRow, NoFile, NoLink, NoCopy,
       NothingSeen, Ended

\* The records the actions write are rows.
LEMMA Rows ==
  /\ NewFile \in FileRow
  /\ NoLink \in LinkRow
  /\ NoCopy \in CopyRow /\ NothingSeen \in SeenRow
  /\ \A g \in File : [status |-> "superseded", next |-> g] \in FileRow
  /\ \A row \in FileRow, s \in Ended : [row EXCEPT !.status = s] \in FileRow
  /\ \A f \in File : [NoLink EXCEPT !.file = f] \in LinkRow
  /\ \A row \in LinkRow, n \in Nat : [row EXCEPT !.uses = n] \in LinkRow
  /\ \A row \in LinkRow : /\ [row EXCEPT !.revoked = TRUE] \in LinkRow
                          /\ [row EXCEPT !.over = TRUE] \in LinkRow
BY DEF NewFile, NoLink, NoCopy, NothingSeen, NoFile, FileRow, LinkRow, CopyRow, SeenRow, Ended

\* The actions on files.
LEMMA FileStepType ==
  ASSUME FilesTypeOK,
         \/ \E f \in File : Create(f)
         \/ \E r \in Request, f \in File : ReadFile(r, f)
         \/ \E r \in Request : \/ Replace(r) \/ End(r, "deleted") \/ End(r, "expired")
                               \/ EditFile(r) \/ DropFile(r)
  PROVE  FilesTypeOK'
<1>1. ASSUME NEW f \in File, Create(f) PROVE FilesTypeOK'
  BY <1>1, Rows DEF FilesTypeOK, Create
<1>2. ASSUME NEW r \in Request, NEW f \in File, ReadFile(r, f) PROVE FilesTypeOK'
  <2>1. [file |-> f, row |-> file[f]] \in CopyRow
    BY DEF FilesTypeOK, CopyRow
  <2> QED BY <1>2, <2>1 DEF FilesTypeOK, ReadFile
<1>3. ASSUME NEW r \in Request, Replace(r) PROVE FilesTypeOK'
  BY <1>3, Rows DEF FilesTypeOK, Replace, On
<1>4. ASSUME NEW r \in Request, NEW s \in Ended, End(r, s) PROVE FilesTypeOK'
  <2>1. PICK f \in File : /\ file' = [file EXCEPT ![f].status = s]
                          /\ copy' = [copy EXCEPT ![r] = NoCopy]
                          /\ UNCHANGED <<link, seen, served, resaved>>
    BY <1>4 DEF End, On
  <2>2. [file[f] EXCEPT !.status = s] \in FileRow
    BY Rows DEF FilesTypeOK
  <2> QED BY <2>1, <2>2, Rows DEF FilesTypeOK
<1>5. ASSUME NEW r \in Request, EditFile(r) PROVE FilesTypeOK'
  <2>1. copy[r].row \in FileRow
    BY DEF FilesTypeOK, CopyRow
  <2> QED BY <1>5, <2>1, Rows DEF FilesTypeOK, EditFile, On
<1>6. ASSUME NEW r \in Request, DropFile(r) PROVE FilesTypeOK'
  BY <1>6, Rows DEF FilesTypeOK, DropFile, On
<1>7. "deleted" \in Ended /\ "expired" \in Ended
  BY DEF Ended
<1> QED BY <1>1, <1>2, <1>3, <1>4, <1>5, <1>6, <1>7

\* The actions on links.
LEMMA LinkStepType ==
  ASSUME FilesTypeOK,
         \/ \E l \in Link : Lapse(l)
         \/ \E r \in Request, l \in Link : ReadLink(r, l)
         \/ \E r \in Request : GenerateLink(r) \/ Use(r) \/ Revoke(r) \/ DropLink(r)
  PROVE  FilesTypeOK'
<1>1. ASSUME NEW l \in Link, Lapse(l) PROVE FilesTypeOK'
  <2>1. [link[l] EXCEPT !.over = TRUE] \in LinkRow
    BY Rows DEF FilesTypeOK
  <2> QED BY <1>1, <2>1 DEF FilesTypeOK, Lapse
<1>2. ASSUME NEW r \in Request, NEW l \in Link, ReadLink(r, l) PROVE FilesTypeOK'
  <2>1. [link |-> l, row |-> link[l]] \in SeenRow
    BY DEF FilesTypeOK, SeenRow
  <2> QED BY <1>2, <2>1 DEF FilesTypeOK, ReadLink
<1>3. ASSUME NEW r \in Request, GenerateLink(r) PROVE FilesTypeOK'
  BY <1>3, Rows DEF FilesTypeOK, GenerateLink, On
<1>4. ASSUME NEW r \in Request, Use(r) PROVE FilesTypeOK'
  <2>1. PICK l \in Link : /\ link' = [link EXCEPT ![l].uses = link[l].uses + 1]
                          /\ served' = [served EXCEPT ![l] = @ + 1]
                          /\ seen' = [seen EXCEPT ![r] = NothingSeen]
                          /\ UNCHANGED <<file, copy, resaved>>
    BY <1>4 DEF Use, At, Counted
  <2>2. link[l].uses + 1 \in Nat /\ served[l] + 1 \in Nat
    BY DEF FilesTypeOK, LinkRow
  <2>3. [link[l] EXCEPT !.uses = link[l].uses + 1] \in LinkRow
    BY <2>2, Rows DEF FilesTypeOK
  <2> QED BY <2>1, <2>2, <2>3, Rows DEF FilesTypeOK
<1>5. ASSUME NEW r \in Request, Revoke(r) PROVE FilesTypeOK'
  <2>1. PICK l \in Link : /\ link' = [link EXCEPT ![l].revoked = TRUE]
                          /\ seen' = [seen EXCEPT ![r] = NothingSeen]
                          /\ UNCHANGED <<file, copy, served, resaved>>
    BY <1>5 DEF Revoke, At
  <2>2. [link[l] EXCEPT !.revoked = TRUE] \in LinkRow
    BY Rows DEF FilesTypeOK
  <2> QED BY <2>1, <2>2, Rows DEF FilesTypeOK
<1>6. ASSUME NEW r \in Request, DropLink(r) PROVE FilesTypeOK'
  BY <1>6, Rows DEF FilesTypeOK, DropLink, At
<1> QED BY <1>1, <1>2, <1>3, <1>4, <1>5, <1>6

LEMMA StepType == FilesTypeOK /\ [Next]_vars => FilesTypeOK'
<1>1. ASSUME FilesTypeOK, Next PROVE FilesTypeOK'
  BY <1>1, FileStepType, LinkStepType DEF Next, Handle
<1>2. ASSUME FilesTypeOK, UNCHANGED vars PROVE FilesTypeOK'
  BY <1>2 DEF FilesTypeOK, vars
<1> QED BY <1>1, <1>2

-----------------------------------------------------------------------------
(* The uses of a link *)

\* A step that leaves the links and what they served alone keeps their count, unless a
\* request reads a link that does not exist.
LEMMA LinksKept ==
  ASSUME IndInv, UNCHANGED <<link, served>>,
         \A r \in Request : seen'[r] = seen[r] \/ seen'[r].link = "none"
                            \/ link[seen'[r].link].file # "none"
  PROVE  LinksSound' /\ UsesCounted'
BY DEF IndInv, LinksSound, UsesCounted

\* What one step may do to one link.
LinkStep(l) ==
  \/ link'[l] = link[l] /\ served'[l] = served[l]
  \/ /\ link[l].file = "none" /\ \E f \in File : link'[l] = [NoLink EXCEPT !.file = f]
     /\ served'[l] = served[l]
  \/ /\ IsValid(link[l]) /\ link[l].file # "none"
     /\ link'[l] = [link[l] EXCEPT !.uses = link[l].uses + 1]
     /\ served'[l] = served[l] + 1
  \/ /\ link[l].file # "none"
     /\ \/ link'[l] = [link[l] EXCEPT !.revoked = TRUE]
        \/ link'[l] = [link[l] EXCEPT !.over = TRUE]
     /\ served'[l] = served[l]

\* Every step of the links is one of these, for each of them.
LEMMA EveryLinkStep ==
  ASSUME IndInv, Next, NEW k \in Link
  PROVE  LinkStep(k)
<1>0. link \in [Link -> LinkRow] /\ served \in [Link -> Nat]
  BY DEF IndInv, FilesTypeOK
<1>1. ASSUME NEW l \in Link, Lapse(l) PROVE LinkStep(k)
  BY <1>0, <1>1 DEF Lapse, LinkStep
<1>2. ASSUME NEW r \in Request, GenerateLink(r) PROVE LinkStep(k)
  <2>1. PICK f \in File, l \in Link :
          /\ link[l].file = "none"
          /\ link' = [link EXCEPT ![l] = [NoLink EXCEPT !.file = f]] /\ served' = served
    BY <1>2 DEF GenerateLink
  <2> QED BY <1>0, <2>1 DEF LinkStep
<1>3. ASSUME NEW r \in Request, Use(r) PROVE LinkStep(k)
  <2>1. PICK l \in Link :
          /\ seen[r].link = l /\ IsValid(link[l])
          /\ link' = [link EXCEPT ![l].uses = link[l].uses + 1]
          /\ served' = [served EXCEPT ![l] = @ + 1]
    BY <1>3 DEF Use, At, Judged, Counted
  <2>2. link[l].file # "none"
    BY <2>1 DEF IndInv, LinksSound
  <2> QED BY <1>0, <2>1, <2>2 DEF LinkStep
<1>4. ASSUME NEW r \in Request, Revoke(r) PROVE LinkStep(k)
  <2>1. PICK l \in Link :
          /\ seen[r].link = l
          /\ link' = [link EXCEPT ![l].revoked = TRUE] /\ served' = served
    BY <1>4 DEF Revoke, At
  <2>2. link[l].file # "none"
    BY <2>1 DEF IndInv, LinksSound
  <2> QED BY <1>0, <2>1, <2>2 DEF LinkStep
<1>5. ASSUME UNCHANGED <<link, served>> PROVE LinkStep(k)
  BY <1>5 DEF LinkStep
<1> QED BY <1>1, <1>2, <1>3, <1>4, <1>5
        DEF Next, Handle, Create, ReadFile, ReadLink, Replace, End, EditFile, DropFile, DropLink

\* What requests have seen are links that exist.
LEMMA SeenStep ==
  ASSUME IndInv, Next, NEW r \in Request
  PROVE  seen'[r] = seen[r] \/ seen'[r].link = "none" \/ link[seen'[r].link].file # "none"
<1>0. seen \in [Request -> SeenRow]
  BY DEF IndInv, FilesTypeOK
<1>1. ASSUME NEW q \in Request, NEW l \in Link, ReadLink(q, l)
      PROVE  seen'[r] = seen[r] \/ link[seen'[r].link].file # "none"
  BY <1>0, <1>1 DEF ReadLink
<1>2. ASSUME NEW q \in Request, Use(q) \/ Revoke(q) \/ DropLink(q)
      PROVE  seen'[r] = seen[r] \/ seen'[r].link = "none"
  <2>1. seen' = [seen EXCEPT ![q] = NothingSeen]
    BY <1>2 DEF Use, Revoke, DropLink, At
  <2>2. NothingSeen.link = "none"
    BY DEF NothingSeen
  <2> QED BY <1>0, <2>1, <2>2
<1>3. ASSUME seen' = seen PROVE seen'[r] = seen[r]
  BY <1>3
<1> QED BY <1>1, <1>2, <1>3
        DEF Next, Handle, Create, Lapse, ReadFile, Replace, End, EditFile, DropFile, GenerateLink

LEMMA LinkPreserved ==
  ASSUME IndInv, Next
  PROVE  LinksSound' /\ UsesCounted'
<1>0. /\ link \in [Link -> LinkRow] /\ served \in [Link -> Nat]
      /\ seen' \in [Request -> SeenRow]
  BY StepType DEF IndInv, FilesTypeOK
<1>1. ASSUME NEW l \in Link
      PROVE  /\ link'[l].file = "none" => link'[l].uses = 0
             /\ link[l].file # "none" => link'[l].file # "none"
             /\ served'[l] = link'[l].uses /\ served'[l] <= MaxUses
  <2>1. link[l] \in LinkRow /\ served[l] \in Nat /\ LinkStep(l)
    BY <1>0, EveryLinkStep
  <2>2. served[l] = link[l].uses /\ served[l] <= MaxUses /\ MaxUses \in Nat
    BY DEF IndInv, UsesCounted
  <2>3. link[l].file = "none" => link[l].uses = 0
    BY DEF IndInv, LinksSound
  <2>4. CASE link'[l] = link[l] /\ served'[l] = served[l]
    BY <2>2, <2>3, <2>4
  <2>5. CASE /\ link[l].file = "none" /\ \E f \in File : link'[l] = [NoLink EXCEPT !.file = f]
             /\ served'[l] = served[l]
    BY <2>2, <2>3, <2>5 DEF NoLink
  <2>6. CASE /\ IsValid(link[l]) /\ link[l].file # "none"
             /\ link'[l] = [link[l] EXCEPT !.uses = link[l].uses + 1]
             /\ served'[l] = served[l] + 1
    BY <2>1, <2>2, <2>6 DEF LinkRow, IsValid
  <2>7. CASE /\ link[l].file # "none"
             /\ \/ link'[l] = [link[l] EXCEPT !.revoked = TRUE]
                \/ link'[l] = [link[l] EXCEPT !.over = TRUE]
             /\ served'[l] = served[l]
    BY <2>1, <2>2, <2>7 DEF LinkRow
  <2> QED BY <2>1, <2>4, <2>5, <2>6, <2>7 DEF LinkStep
<1>2. UsesCounted'
  BY <1>1 DEF UsesCounted
<1>3. ASSUME NEW r \in Request, seen'[r].link # "none"
      PROVE  link'[seen'[r].link].file # "none"
  <2>1. seen'[r].link \in Link
    BY <1>0, <1>3 DEF SeenRow
  <2>2. link[seen'[r].link].file # "none"
    BY <1>3, SeenStep DEF IndInv, LinksSound
  <2> QED BY <1>1, <2>1, <2>2
<1> QED BY <1>1, <1>2, <1>3 DEF LinksSound

-----------------------------------------------------------------------------
(* The theorems *)

THEOREM Invariant == Spec => []IndInv
<1>1. Init => IndInv
  <2>1. Init => LinksSound /\ UsesCounted
    BY DEF Init, LinksSound, UsesCounted, NoLink, NothingSeen
  <2> QED BY <2>1, InitType DEF IndInv
<1>2. IndInv /\ [Next]_vars => IndInv'
  <2>1. ASSUME IndInv, Next PROVE IndInv'
    BY <2>1, StepType, LinkPreserved DEF IndInv
  <2>2. ASSUME IndInv, UNCHANGED vars PROVE IndInv'
    BY <2>2 DEF IndInv, FilesTypeOK, LinksSound, UsesCounted, vars
  <2> QED BY <2>1, <2>2
<1> QED BY <1>1, <1>2, PTL DEF Spec

\* Rows, copies and counts keep their types.
THEOREM TypeCorrect == Spec => []FilesTypeOK
<1>1. IndInv => FilesTypeOK
  BY DEF IndInv
<1> QED BY <1>1, Invariant, PTL

\* Every use of a link is counted, and none beyond what it allows.
THEOREM UsesBounded == Spec => []UsesCounted
<1>1. IndInv => UsesCounted
  BY DEF IndInv
<1> QED BY <1>1, Invariant, PTL

\* A link that serves nobody any more stays so.
THEOREM DeadLinks == Spec => DeadLinksStayDead
<1>1. ASSUME IndInv, [Next]_vars, NEW l \in Link, link[l].file # "none", ~IsValid(link[l])
      PROVE  ~IsValid(link'[l]) /\ served'[l] = served[l]
  <2>1. link[l] \in LinkRow
    BY <1>1 DEF IndInv, FilesTypeOK
  <2>2. CASE Next
    <3>1. LinkStep(l)
      BY <1>1, <2>2, EveryLinkStep
    <3> QED BY <1>1, <2>1, <3>1 DEF LinkStep, IsValid, LinkRow
  <2>3. CASE UNCHANGED vars
    BY <1>1, <2>3 DEF vars
  <2> QED BY <1>1, <2>2, <2>3
<1>2. IndInv /\ [Next]_vars =>
        [\A l \in Link : link[l].file # "none" => StaysDead(l)]_vars
  BY <1>1 DEF StaysDead
<1> QED BY <1>2, Invariant, PTL DEF Spec, DeadLinksStayDead

\* No step is about two links.
LEMMA OneLink ==
  ASSUME IndInv, Next
  PROVE  \E l \in Link \cup {"none"} : \A k \in Link \ {l} :
           link'[k] = link[k] /\ served'[k] = served[k]
<1> DEFINE Only(l) == \A k \in Link \ {l} : link'[k] = link[k] /\ served'[k] = served[k]
<1>0. link \in [Link -> LinkRow] /\ served \in [Link -> Nat]
  BY DEF IndInv, FilesTypeOK
<1>1. ASSUME NEW l \in Link, Lapse(l) PROVE Only(l)
  BY <1>0, <1>1 DEF Lapse
<1>2. ASSUME NEW r \in Request, GenerateLink(r) PROVE \E l \in Link : Only(l)
  BY <1>0, <1>2 DEF GenerateLink
<1>3. ASSUME NEW r \in Request, Use(r) PROVE \E l \in Link : Only(l)
  BY <1>0, <1>3 DEF Use
<1>4. ASSUME NEW r \in Request, Revoke(r) PROVE \E l \in Link : Only(l)
  BY <1>0, <1>4 DEF Revoke
<1>5. ASSUME UNCHANGED <<link, served>> PROVE Only("none")
  BY <1>5
<1> QED BY <1>1, <1>2, <1>3, <1>4, <1>5
        DEF Next, Handle, Create, ReadFile, ReadLink, Replace, End, EditFile, DropFile, DropLink

\* What a step does to the phase of one link: nothing, or what the promise allows.
LEMMA PhaseStep ==
  ASSUME IndInv, NEW l \in Link, LinkStep(l)
  PROVE  LET old == PhaseOf(link[l])
             new == PhaseOf(link'[l])
         IN  \/ new = old /\ served'[l] = served[l]
             \/ old = "absent" /\ new = "live" /\ served'[l] = served[l]
             \/ /\ old = "live" /\ served[l] < MaxUses /\ served'[l] = served[l] + 1
                /\ new = IF served'[l] = MaxUses THEN "dead" ELSE "live"
             \/ old = "live" /\ new = "dead" /\ served'[l] = served[l]
<1>0. /\ link[l] \in LinkRow /\ served[l] \in Nat /\ served[l] = link[l].uses
      /\ MaxUses \in Nat \ {0} /\ "none" \notin File
  BY DEF IndInv, FilesTypeOK, UsesCounted
<1>1. CASE link'[l] = link[l] /\ served'[l] = served[l]
  BY <1>1
<1>2. CASE /\ link[l].file = "none" /\ \E f \in File : link'[l] = [NoLink EXCEPT !.file = f]
           /\ served'[l] = served[l]
  BY <1>0, <1>2 DEF PhaseOf, NoLink, IsValid
<1>3. CASE /\ IsValid(link[l]) /\ link[l].file # "none"
           /\ link'[l] = [link[l] EXCEPT !.uses = link[l].uses + 1]
           /\ served'[l] = served[l] + 1
  BY <1>0, <1>3 DEF PhaseOf, IsValid, LinkRow
<1>4. CASE /\ link[l].file # "none"
           /\ \/ link'[l] = [link[l] EXCEPT !.revoked = TRUE]
              \/ link'[l] = [link[l] EXCEPT !.over = TRUE]
           /\ served'[l] = served[l]
  BY <1>0, <1>4 DEF PhaseOf, IsValid, LinkRow
<1> QED BY <1>1, <1>2, <1>3, <1>4 DEF LinkStep

\* What requests that read files and links and act on them late do to links is what the
\* promise allows, for any number of links, uses and requests (generate_secure_link, use,
\* revoke): the links and the uses they served implement LinkPromise.
THEOREM LinksAsPromised == Spec => LinkPromiseKept
<1> DEFINE phase == [l \in Link |-> PhaseOf(link[l])]
<1>1. Init => Promise!Init
  <2> SUFFICES ASSUME Init PROVE phase = [l \in Link |-> "absent"] /\ served = [l \in Link |-> 0]
    BY DEF Promise!Init
  <2>1. \A l \in Link : PhaseOf(link[l]) = "absent"
    BY DEF Init, NoLink, PhaseOf
  <2> QED BY <2>1 DEF Init
<1>2. IndInv /\ IndInv' /\ [Next]_vars => [Promise!Next]_<<phase, served>>
  <2> SUFFICES ASSUME IndInv, IndInv', Next PROVE Promise!Next \/ UNCHANGED <<phase, served>>
    BY DEF vars
  <2>0. served \in [Link -> Nat] /\ served' \in [Link -> Nat]
    BY DEF IndInv, FilesTypeOK
  <2>1. PICK l \in Link \cup {"none"} : \A k \in Link \ {l} :
           link'[k] = link[k] /\ served'[k] = served[k]
    BY OneLink
  <2>2. CASE l \notin Link
    <3>1. \A k \in Link : phase'[k] = phase[k] /\ served'[k] = served[k]
      BY <2>1, <2>2
    <3>2. phase' = phase /\ served' = served
      BY <2>0, <3>1
    <3> QED BY <3>2
  <2>3. CASE l \in Link
    <3> DEFINE old == PhaseOf(link[l])
               new == PhaseOf(link'[l])
    <3>1. /\ phase[l] = old
          /\ phase' = [phase EXCEPT ![l] = new]
          /\ served' = [served EXCEPT ![l] = served'[l]]
      <4>1. \A k \in Link : phase'[k] = IF k = l THEN new ELSE phase[k]
        BY <2>1, <2>3
      <4>2. \A k \in Link : served'[k] = IF k = l THEN served'[l] ELSE served[k]
        BY <2>1, <2>3
      <4> QED BY <2>0, <2>3, <4>1, <4>2
    <3>2. LinkStep(l)
      BY <2>3, EveryLinkStep
    <3>3. \/ new = old /\ served'[l] = served[l]
          \/ old = "absent" /\ new = "live" /\ served'[l] = served[l]
          \/ /\ old = "live" /\ served[l] < MaxUses /\ served'[l] = served[l] + 1
             /\ new = IF served'[l] = MaxUses THEN "dead" ELSE "live"
          \/ old = "live" /\ new = "dead" /\ served'[l] = served[l]
      BY <2>3, <3>2, PhaseStep
    <3>4. [served EXCEPT ![l] = served[l]] = served
      BY <2>0
    <3>5. [phase EXCEPT ![l] = phase[l]] = phase
      OBVIOUS
    <3> HIDE DEF phase, old, new
    <3>6. CASE new = old /\ served'[l] = served[l]
      BY <3>1, <3>4, <3>5, <3>6
    <3>7. CASE old = "absent" /\ new = "live" /\ served'[l] = served[l]
      <4>1. Promise!Issue(l)
        BY <3>1, <3>4, <3>7 DEF Promise!Issue, phase
      <4> QED BY <2>3, <4>1 DEF Promise!Next
    <3>8. CASE old = "live" /\ new = "dead" /\ served'[l] = served[l]
      <4>1. Promise!Kill(l)
        BY <3>1, <3>4, <3>8 DEF Promise!Kill, phase
      <4> QED BY <2>3, <4>1 DEF Promise!Next
    <3>9. CASE /\ old = "live" /\ served[l] < MaxUses /\ served'[l] = served[l] + 1
               /\ new = IF served'[l] = MaxUses THEN "dead" ELSE "live"
      <4>1. phase' = IF served'[l] = MaxUses THEN [phase EXCEPT ![l] = "dead"] ELSE phase
        BY <3>1, <3>5, <3>9
      <4>2. Promise!Serve(l)
        BY <3>1, <3>9, <4>1 DEF Promise!Serve, phase
      <4> QED BY <2>3, <4>2 DEF Promise!Next
    <3> QED BY <3>3, <3>6, <3>7, <3>8, <3>9
  <2> QED BY <2>1, <2>2, <2>3
<1> QED BY <1>1, <1>2, Invariant, PTL DEF Spec, LinkPromiseKept, Promise!Spec

\* A file that ended stays ended, with the successor it had.
THEOREM EndIsFinal == Spec => EndedFilesStay
<1>1. ASSUME FilesTypeOK, [Next]_vars, NEW f \in File, file[f].status \in Ended, f \notin resaved'
      PROVE  file'[f].status \in Ended /\ file'[f].next = file[f].next
  <2>0. file \in [File -> FileRow] /\ file[f] \in FileRow
    BY <1>1 DEF FilesTypeOK
  <2>1. ASSUME NEW h \in File, Create(h) PROVE file'[f] = file[f]
    BY <1>1, <2>0, <2>1 DEF Create, Ended
  <2>2. ASSUME NEW r \in Request, Replace(r) PROVE file'[f] = file[f]
    BY <1>1, <2>0, <2>2 DEF Replace, Replaceable, NewFile, Ended
  <2>3. ASSUME NEW r \in Request, NEW s \in Ended, End(r, s)
        PROVE  file'[f].status \in Ended /\ file'[f].next = file[f].next
    <3>1. PICK h \in File : file' = [file EXCEPT ![h].status = s]
      BY <2>3 DEF End
    <3> QED BY <1>1, <2>0, <2>3, <3>1 DEF FileRow
  <2>4. ASSUME NEW r \in Request, EditFile(r) PROVE file'[f] = file[f]
    <3>1. PICK h \in File :
            /\ file' = [file EXCEPT ![h] = copy[r].row]
            /\ resaved' = IF file'[h] = file[h] THEN resaved ELSE resaved \cup {h}
      BY <2>4 DEF EditFile
    <3> QED BY <1>1, <2>0, <3>1
  <2>5. ASSUME file' = file PROVE file'[f] = file[f]
    BY <2>5
  <2>6. "deleted" \in Ended /\ "expired" \in Ended
    BY DEF Ended
  <2>7. CASE Next
    BY <1>1, <2>1, <2>2, <2>3, <2>4, <2>5, <2>6, <2>7
       DEF Next, Handle, Lapse, ReadFile, ReadLink, DropFile, GenerateLink, Use, Revoke, DropLink
  <2>8. CASE UNCHANGED vars
    BY <1>1, <2>8 DEF vars
  <2> QED BY <1>1, <2>7, <2>8
<1>2. FilesTypeOK /\ [Next]_vars =>
        [\A f \in File : f \notin resaved' => StaysEnded(f)]_vars
  BY <1>1 DEF StaysEnded
<1> QED BY <1>2, TypeCorrect, PTL DEF Spec, EndedFilesStay
=============================================================================
