------------------------ MODULE ReportExecution_proofs ------------------------
(***************************************************************************)
(* Proofs about ReportExecution, for any number of processes and artifacts *)
(* and any lease: the types, that no artifact is lost from sight, that two *)
(* processes never both own the execution, that a deleted artifact never   *)
(* gets its bytes back, and that the engine implements ReportPromise.      *)
(***************************************************************************)
EXTENDS ReportExecution, TLAPS

\* A process between its claim and its completion, release or failure.
OwnerStep(p) ==
  /\ proc[p].at \in Working
  /\ proc[p].at \in {"blobs", "row", "detach"} => proc[p].purpose = "purge"

\* A running row has a timestamp, and it is not in the future.
Stamped == exec.status = "running" => exec.started \in 0..clock

\* A process that has not reserved an artifact holds none.
NoneBeforeReserve ==
  \A p \in Process : proc[p].at \in {"render", "reserve"} => proc[p].file = None

\* The token of an owner was the time of its claim or reservation.
TokenPast == \A p \in Process : OwnerStep(p) => proc[p].token \in 0..clock

\* A token taken at this very instant is still the one in the row, unless the
\* execution has ended: a claim that follows at the same instant is impossible.
FreshTokenInRow ==
  \A p \in Process : OwnerStep(p) /\ proc[p].token = clock =>
    \/ exec.status \in Ended
    \/ exec.status = "running" /\ exec.started = clock

IndInv ==
  /\ ReportTypeOK
  /\ Stamped
  /\ NoneBeforeReserve
  /\ LiveArtifactLinked
  /\ TokenPast
  /\ FreshTokenInRow
  /\ OneOwner

USE ReportAssumption DEF Process

\* A process without a task has the local variables of a process.
LEMMA IdleType == Idle \in Local
  BY DEF Idle, Local, Step, Purpose

LEMMA InitInd == Init => IndInv
<1> SUFFICES ASSUME Init PROVE IndInv
  OBVIOUS
<1>0. [retries |-> 0, eta |-> 0] \in Message
  BY DEF Message
<1>1. ReportTypeOK
  <2>1. exec \in Row /\ budget \in Budget /\ seen \in [User -> Status \cup {None}]
    BY DEF Init, Row, Status, Budget
  <2>2. art \in [Artifact -> File] /\ proc \in [Process -> Local]
    BY IdleType DEF Init, File
  <2>3. DOMAIN queue \subseteq Message
    BY <1>0 DEF Init
  <2>4. notified \in BOOLEAN /\ allowed \in {"yes", "inactive", "denied"}
    BY DEF Init
  <2>5. clock \in 0..MaxClock
    BY DEF Init
  <2> QED
    BY <2>1, <2>2, <2>3, <2>4, <2>5 DEF ReportTypeOK
<1>2. Stamped /\ NoneBeforeReserve /\ LiveArtifactLinked
  BY DEF Init, Stamped, NoneBeforeReserve, LiveArtifactLinked, LiveArtifacts, Live, Idle
<1>3. TokenPast /\ FreshTokenInRow /\ OneOwner
  BY DEF Init, TokenPast, FreshTokenInRow, OneOwner, Owns, OwnerStep, Working, Idle
<1> QED
  BY <1>1, <1>2, <1>3 DEF IndInv

-----------------------------------------------------------------------------
(* Types *)

\* The ways an action changes one process, the row or the budget, each typed once.
LEMMA GoType ==
  ASSUME ReportTypeOK, NEW p \in Process, NEW step \in Step, Go(p, step)
  PROVE  proc' \in [Process -> Local]
  BY DEF ReportTypeOK, Local, Go

LEMMA LocalUpdate ==
  ASSUME NEW r \in Local, NEW step \in Step, NEW doomed \in SUBSET Artifact,
         NEW purpose \in Purpose, NEW token \in 0..MaxClock \cup {None},
         NEW file \in Artifact \cup {None}
  PROVE  /\ [r EXCEPT !.at = step, !.purpose = purpose, !.doomed = doomed] \in Local
         /\ [r EXCEPT !.at = step, !.token = token, !.file = file,
                      !.doomed = doomed, !.purpose = purpose] \in Local
  BY DEF Local

LEMMA CleanupType ==
  ASSUME ReportTypeOK, NEW p \in Process, NEW purpose \in Purpose, StartCleanup(p, purpose)
  PROVE  proc' \in [Process -> Local]
<1>1. proc[p].file # None => proc[p].file \in Artifact
  BY DEF ReportTypeOK, Local
<1> DEFINE targets == IF proc[p].file = None THEN {} ELSE {proc[p].file}
           after == [proc[p] EXCEPT !.at = "blobs", !.purpose = purpose, !.doomed = targets]
<1>3. proc' = [proc EXCEPT ![p] = after]
  BY DEF StartCleanup
<1> HIDE DEF targets
<1>2. targets \in SUBSET Artifact
  BY <1>1 DEF targets
<1>5. proc[p] \in Local /\ "blobs" \in Step
  BY DEF ReportTypeOK, Step
<1> HIDE DEF targets
<1>4. after \in Local
  <2>1. /\ proc[p].token \in 0..MaxClock \cup {None}
        /\ proc[p].file \in Artifact \cup {None}
    BY <1>5 DEF Local
  <2> QED
    BY <1>2, <1>5, <2>1, LocalUpdate
<1> HIDE DEF after
<1> QED
  BY <1>3, <1>4 DEF ReportTypeOK

LEMMA FaultType == ReportTypeOK /\ Fault => budget' \in Budget
  BY DEF ReportTypeOK, Fault, Budget

LEMMA FinalFaultType == ReportTypeOK /\ FinalFault => budget' \in Budget
<1> SUFFICES ASSUME ReportTypeOK, FinalFault PROVE budget' \in Budget
  OBVIOUS
<1>1. budget \in Budget
  BY DEF ReportTypeOK
<1>2. budget.faults + 1 \in 0..MaxFaults
  BY <1>1, ReportAssumption DEF FinalFault, Budget
<1> QED
  BY <1>1, <1>2 DEF FinalFault, Budget

LEMMA ReleasedType == ReportTypeOK => ReleasedRow \in Row
  BY DEF ReportTypeOK, ReleasedRow, Row, Status

LEMMA TypeStep == ReportTypeOK /\ Stamped /\ [Next]_vars => ReportTypeOK'
<1> SUFFICES ASSUME ReportTypeOK, Stamped, [Next]_vars PROVE ReportTypeOK'
  OBVIOUS
<1>0. Step = {"idle", "claim", "reset", "render", "reserve", "store", "complete", "notify",
              "release", "fail", "blobs", "row", "detach", "retry", "exhaust", "ack"}
  BY DEF Step
<1>1. ASSUME NEW p \in Worker, Deliver(p) PROVE ReportTypeOK'
  <2>1. PICK m \in DOMAIN queue :
          /\ queue' = BagRemove(queue, m)
          /\ proc' = [proc EXCEPT ![p] = [Idle EXCEPT !.at = "claim", !.msg = m]]
    BY <1>1 DEF Deliver
  <2>2. m \in Message
    BY <2>1 DEF ReportTypeOK
  <2>3. [Idle EXCEPT !.at = "claim", !.msg = m] \in Local
    BY <2>2, IdleType, <1>0 DEF Local
  <2>4. proc' \in [Process -> Local]
    BY <2>1, <2>3 DEF ReportTypeOK
  <2>5. DOMAIN queue' \subseteq Message
    BY <2>1 DEF BagRemove, ReportTypeOK
  <2> QED
    BY <1>1, <2>4, <2>5 DEF ReportTypeOK, Deliver
<1>2. ASSUME NEW p \in Caller, Call(p) PROVE ReportTypeOK'
  BY <1>2, IdleType DEF ReportTypeOK, Call, Local, Step
<1>3. ASSUME NEW p \in Process, ClaimBusy(p) PROVE ReportTypeOK'
  <2>1. proc' \in [Process -> Local]
    BY <1>3, GoType, <1>0 DEF ClaimBusy
  <2>2. DOMAIN queue' \subseteq Message
    BY <1>3 DEF ClaimBusy, Busy, RetriesLeft, BagAdd, Stamped, ReportTypeOK, Local, Message
  <2> QED
    BY <1>3, <2>1, <2>2 DEF ReportTypeOK, ClaimBusy
<1>4. ASSUME NEW p \in Process, ClaimRefused(p) PROVE ReportTypeOK'
  BY <1>4, GoType, <1>0 DEF ReportTypeOK, ClaimRefused
<1>5. ASSUME NEW p \in Process, ClaimTaken(p) PROVE ReportTypeOK'
  <2>1. exec' \in Row /\ ClaimedRow.started \in 0..MaxClock
    BY <1>5 DEF ReportTypeOK, ClaimTaken, ClaimedRow, Row, Status
  <2>2. LiveArtifacts \in SUBSET Artifact /\ exec.file \in Artifact \cup {None}
    BY DEF LiveArtifacts, ReportTypeOK, Row
  <2>3. proc' \in [Process -> Local]
    <3> DEFINE next == IF LiveArtifacts = {} THEN "detach" ELSE "blobs"
               token == ClaimedRow.started
               after == [proc[p] EXCEPT !.at = next, !.token = token, !.file = exec.file,
                                        !.doomed = LiveArtifacts, !.purpose = "purge"]
    <3>1. proc' = [proc EXCEPT ![p] = after]
      BY <1>5 DEF ClaimTaken
    <3>2. next \in Step /\ token \in 0..MaxClock
      BY <2>1, <1>0
    <3> HIDE DEF next, token
    <3>3. after \in Local
      <4>1. proc[p] \in Local /\ "purge" \in Purpose
        BY DEF ReportTypeOK, Purpose
      <4> QED
        BY <2>2, <3>2, <4>1, LocalUpdate
    <3> HIDE DEF after
    <3> QED
      BY <3>1, <3>3 DEF ReportTypeOK
  <2> QED
    BY <1>5, <2>1, <2>3 DEF ReportTypeOK, ClaimTaken
<1>6. ASSUME NEW p \in Process, DeleteBlobs(p) PROVE ReportTypeOK'
  <2>1. PICK a \in proc[p].doomed :
          /\ art' = [art EXCEPT ![a].blob = @ /\ ~Live(a)]
          /\ proc' = [proc EXCEPT ![p].at = IF Live(a) THEN "row" ELSE @,
                                  ![p].target = a, ![p].doomed = @ \ {a}]
    BY <1>6 DEF DeleteBlobs
  <2>2. a \in Artifact
    BY <2>1 DEF ReportTypeOK, Local
  <2>3. proc' \in [Process -> Local]
    BY <2>1, <2>2 DEF ReportTypeOK, Local, Step
  <2>4. art' \in [Artifact -> File]
    BY <2>1, <2>2 DEF ReportTypeOK, File
  <2> QED
    BY <1>6, <2>3, <2>4 DEF ReportTypeOK, DeleteBlobs
<1>7. ASSUME NEW p \in Process, DeleteRow(p) PROVE ReportTypeOK'
  <2>1. proc' \in [Process -> Local]
    BY <1>7, GoType, <1>0 DEF DeleteRow
  <2>2. art' \in [Artifact -> File]
    BY <1>7 DEF ReportTypeOK, DeleteRow, File
  <2> QED
    BY <1>7, <2>1, <2>2 DEF ReportTypeOK, DeleteRow
<1>8. ASSUME NEW p \in Process, CleanupDone(p) PROVE ReportTypeOK'
  BY <1>8, GoType, <1>0 DEF ReportTypeOK, CleanupDone
<1>9. ASSUME NEW p \in Process, Detach(p) PROVE ReportTypeOK'
  <2>1. exec' \in Row
    BY <1>9 DEF ReportTypeOK, Detach, Row
  <2>2. proc[p].purpose \in Purpose
    BY DEF ReportTypeOK, Local
  <2>3. CASE proc[p].purpose = "purge"
    BY <1>9, <2>1, <2>3 DEF ReportTypeOK, Detach, Local, Step
  <2>4. CASE proc[p].purpose # "purge"
    <3>1. Go(p, "retry") \/ Go(p, "ack")
      BY <1>9, <2>2, <2>4 DEF Detach, Purpose
    <3>2. proc' \in [Process -> Local]
      BY <3>1, GoType, <1>0
    <3> QED
      BY <1>9, <2>1, <3>2 DEF ReportTypeOK, Detach
  <2> QED
    BY <2>3, <2>4
<1>10. ASSUME NEW p \in Process, Render(p) PROVE ReportTypeOK'
  BY <1>10, GoType, <1>0 DEF ReportTypeOK, Render
<1>11. ASSUME NEW p \in Process, Reserve(p) PROVE ReportTypeOK'
  <2>1. CASE StillOwner(p)
    <3>1. PICK a \in Artifact :
            /\ art' = [art EXCEPT ![a].status = "active"]
            /\ exec' = [exec EXCEPT !.file = a, !.started = clock]
            /\ proc' = [proc EXCEPT ![p].at = "store", ![p].file = a, ![p].token = clock]
      BY <1>11, <2>1 DEF Reserve
    <3>2. exec' \in Row
      BY <3>1 DEF ReportTypeOK, Row
    <3>3. proc' \in [Process -> Local]
      BY <3>1 DEF ReportTypeOK, Local, Step
    <3>4. art' \in [Artifact -> File]
      BY <3>1 DEF ReportTypeOK, File
    <3> QED
      BY <1>11, <3>2, <3>3, <3>4 DEF ReportTypeOK, Reserve
  <2>2. CASE ~StillOwner(p)
    <3>1. proc' \in [Process -> Local]
      BY <1>11, <2>2, GoType, <1>0 DEF Reserve
    <3> QED
      BY <1>11, <2>2, <3>1 DEF ReportTypeOK, Reserve
  <2> QED
    BY <2>1, <2>2
<1>12. ASSUME NEW p \in Process, Store(p) PROVE ReportTypeOK'
  <2>1. proc' \in [Process -> Local]
    BY <1>12, GoType, <1>0 DEF Store
  <2>2. art' \in [Artifact -> File]
    <3>1. CASE MayStore(p)
      <4>1. art' = [art EXCEPT ![proc[p].file].blob = TRUE]
        BY <1>12, <3>1 DEF Store
      <4> QED
        BY <4>1 DEF ReportTypeOK, File
    <3>2. CASE ~MayStore(p)
      BY <1>12, <3>2 DEF ReportTypeOK, Store
    <3> QED
      BY <3>1, <3>2
  <2> QED
    BY <1>12, <2>1, <2>2 DEF ReportTypeOK, Store
<1>13. ASSUME NEW p \in Process, Complete(p) PROVE ReportTypeOK'
  <2>1. proc' \in [Process -> Local]
    BY <1>13, GoType, <1>0 DEF Complete
  <2>2. exec' \in Row
    BY <1>13 DEF ReportTypeOK, Complete, Row, Status
  <2> QED
    BY <1>13, <2>1, <2>2 DEF ReportTypeOK, Complete
<1>14. ASSUME NEW p \in Process, Notify(p) PROVE ReportTypeOK'
  <2>1. proc' \in [Process -> Local]
    BY <1>14, GoType, <1>0 DEF Notify
  <2> QED
    BY <1>14, <2>1, FaultType DEF ReportTypeOK, Notify
<1>15. ASSUME NEW p \in Process, Release(p) PROVE ReportTypeOK'
  <2>1. proc' \in [Process -> Local]
    BY <1>15, CleanupType DEF Release, Purpose
  <2>2. exec' \in Row
    BY <1>15, ReleasedType DEF ReportTypeOK, Release
  <2> QED
    BY <1>15, <2>1, <2>2, FaultType DEF ReportTypeOK, Release
<1>16. ASSUME NEW p \in Process, Reset(p) PROVE ReportTypeOK'
  <2>1. proc' \in [Process -> Local]
    BY <1>16, GoType, <1>0 DEF Reset
  <2>2. exec' \in Row
    BY <1>16, ReleasedType DEF ReportTypeOK, Reset
  <2> QED
    BY <1>16, <2>1, <2>2, FaultType DEF ReportTypeOK, Reset
<1>17. ASSUME NEW p \in Process, Fail(p) PROVE ReportTypeOK'
  <2>1. proc' \in [Process -> Local]
    BY <1>17, CleanupType DEF Fail, Purpose
  <2>2. exec' \in Row
    BY <1>17 DEF ReportTypeOK, Fail, Row, Status
  <2> QED
    BY <1>17, <2>1, <2>2, FinalFaultType DEF ReportTypeOK, Fail
<1>18. ASSUME NEW p \in Process, Retry(p) PROVE ReportTypeOK'
  <2>1. proc' \in [Process -> Local]
    BY <1>18, GoType, <1>0 DEF Retry
  <2>2. DOMAIN queue' \subseteq Message
    BY <1>18 DEF Retry, RetriesLeft, BagAdd, ReportTypeOK, Local, Message
  <2> QED
    BY <1>18, <2>1, <2>2 DEF ReportTypeOK, Retry
<1>19. ASSUME NEW p \in Process, Exhaust(p) PROVE ReportTypeOK'
  <2>1. proc' \in [Process -> Local]
    BY <1>19, GoType, <1>0 DEF Exhaust
  <2>2. exec' \in Row
    BY <1>19 DEF ReportTypeOK, Exhaust, Row, Status
  <2> QED
    BY <1>19, <2>1, <2>2 DEF ReportTypeOK, Exhaust
<1>20. ASSUME NEW p \in Process, Ack(p) PROVE ReportTypeOK'
  BY <1>20, IdleType DEF ReportTypeOK, Ack
<1>21. ASSUME NEW p \in Process, CleanupFault(p) PROVE ReportTypeOK'
  <2>1. AfterDirtyCleanup(p) \in Step
    BY DEF AfterDirtyCleanup, ReportTypeOK, Local, Purpose, Step
  <2>2. proc' \in [Process -> Local]
    BY <1>21, <2>1, GoType DEF CleanupFault
  <2> QED
    BY <1>21, <2>2, FaultType DEF ReportTypeOK, CleanupFault
<1>22. ASSUME NEW p \in Process, StoreFault(p) PROVE ReportTypeOK'
  <2>1. PICK written \in BOOLEAN, outcome \in {"release", "fail"} :
          /\ art' = [art EXCEPT ![proc[p].file].blob = written]
          /\ Go(p, outcome)
    BY <1>22 DEF StoreFault
  <2>2. proc' \in [Process -> Local]
    BY <2>1, GoType, <1>0
  <2>3. art' \in [Artifact -> File]
    BY <2>1 DEF ReportTypeOK, File
  <2> QED
    BY <1>22, <2>2, <2>3, FaultType DEF ReportTypeOK, StoreFault
<1>23. ASSUME NEW p \in Process, RunFault(p) PROVE ReportTypeOK'
  <2>1. proc' \in [Process -> Local]
    BY <1>23, GoType, <1>0 DEF RunFault
  <2> QED
    BY <1>23, <2>1, FaultType DEF ReportTypeOK, RunFault
<1>24. ASSUME NEW p \in Process, UnretriedFault(p) PROVE ReportTypeOK'
  <2>1. proc' \in [Process -> Local]
    BY <1>24, GoType, <1>0 DEF UnretriedFault
  <2> QED
    BY <1>24, <2>1, FinalFaultType DEF ReportTypeOK, UnretriedFault
<1>25. ASSUME NEW p \in Process, Crash(p) PROVE ReportTypeOK'
  <2>1. DOMAIN queue' \subseteq Message
    BY <1>25 DEF Crash, BagAdd, ReportTypeOK, Local
  <2> QED
    BY <1>25, <2>1, IdleType DEF ReportTypeOK, Crash, Budget
<1>26. ASSUME NEW u \in User, CancelRead(u) PROVE ReportTypeOK'
  BY <1>26 DEF ReportTypeOK, CancelRead, Row
<1>27. ASSUME NEW u \in User, CancelWrite(u) PROVE ReportTypeOK'
  BY <1>27 DEF ReportTypeOK, CancelWrite, Row, Status
<1>28. CASE Revoke
  BY <1>28 DEF ReportTypeOK, Revoke, Budget
<1>29. CASE Tick
  BY <1>29 DEF ReportTypeOK, Tick
<1>30. CASE UNCHANGED vars
  BY <1>30 DEF ReportTypeOK, vars
<1> QED
  BY <1>1, <1>2, <1>3, <1>4, <1>5, <1>6, <1>7, <1>8, <1>9, <1>10, <1>11, <1>12, <1>13, <1>14,
     <1>15, <1>16, <1>17, <1>18, <1>19, <1>20, <1>21, <1>22, <1>23, <1>24, <1>25, <1>26, <1>27, <1>28,
     <1>29, <1>30 DEF Next, Work, Disturb

-----------------------------------------------------------------------------
(* Artifacts *)

\* No artifact becomes live and the link of the row stays.
LinkKept == exec'.file = exec.file /\ LiveArtifacts' \subseteq LiveArtifacts
\* The link is cut, from an artifact that is deleted.
LinkCut == /\ exec.file # None /\ ~Live(exec.file)
           /\ LiveArtifacts' = LiveArtifacts
\* An artifact is created and linked where there was none.
LinkMade == /\ exec.file = None
            /\ \E a \in Artifact : /\ exec'.file = a
                                  /\ LiveArtifacts' = LiveArtifacts \cup {a}

LEMMA LinkKinds ==
  ReportTypeOK /\ NoneBeforeReserve /\ [Next]_vars => LinkKept \/ LinkCut \/ LinkMade
<1> SUFFICES ASSUME ReportTypeOK, NoneBeforeReserve, [Next]_vars
             PROVE  LinkKept \/ LinkCut \/ LinkMade
  OBVIOUS
<1>1. ASSUME NEW p \in Worker, Deliver(p) PROVE LinkKept \/ LinkCut \/ LinkMade
  BY <1>1 DEF LinkKept, LiveArtifacts, Live, ReportTypeOK, Row, File, Deliver, Idle
<1>2. ASSUME NEW p \in Caller, Call(p) PROVE LinkKept \/ LinkCut \/ LinkMade
  BY <1>2 DEF LinkKept, LiveArtifacts, Live, ReportTypeOK, Row, File, Call, Idle
<1>3. ASSUME NEW p \in Process, ClaimBusy(p) PROVE LinkKept \/ LinkCut \/ LinkMade
  BY <1>3 DEF LinkKept, LiveArtifacts, Live, ReportTypeOK, Row, File, ClaimBusy, Go
<1>4. ASSUME NEW p \in Process, ClaimRefused(p) PROVE LinkKept \/ LinkCut \/ LinkMade
  BY <1>4 DEF LinkKept, LiveArtifacts, Live, ReportTypeOK, Row, File, ClaimRefused, Go
<1>5. ASSUME NEW p \in Process, ClaimTaken(p) PROVE LinkKept \/ LinkCut \/ LinkMade
  BY <1>5 DEF LinkKept, LiveArtifacts, Live, ReportTypeOK, Row, File, ClaimTaken, ClaimedRow
<1>6. ASSUME NEW p \in Process, DeleteBlobs(p) PROVE LinkKept \/ LinkCut \/ LinkMade
  BY <1>6 DEF LinkKept, LiveArtifacts, Live, ReportTypeOK, Row, File, DeleteBlobs
<1>7. ASSUME NEW p \in Process, DeleteRow(p) PROVE LinkKept \/ LinkCut \/ LinkMade
  BY <1>7 DEF LinkKept, LiveArtifacts, Live, ReportTypeOK, Row, File, DeleteRow, Go
<1>8. ASSUME NEW p \in Process, CleanupDone(p) PROVE LinkKept \/ LinkCut \/ LinkMade
  BY <1>8 DEF LinkKept, LiveArtifacts, Live, ReportTypeOK, Row, File, CleanupDone, Go
<1>9. ASSUME NEW p \in Process, Detach(p) PROVE LinkKept \/ LinkCut \/ LinkMade
  <2>1. CASE MayDetach(p)
    BY <1>9, <2>1 DEF LinkCut, LiveArtifacts, Live, ReportTypeOK, Row, File, Detach, MayDetach
  <2>2. CASE ~MayDetach(p)
    BY <1>9, <2>2 DEF LinkKept, LiveArtifacts, Live, Detach
  <2> QED
    BY <2>1, <2>2
<1>10. ASSUME NEW p \in Process, Render(p) PROVE LinkKept \/ LinkCut \/ LinkMade
  BY <1>10 DEF LinkKept, LiveArtifacts, Live, ReportTypeOK, Row, File, Render, Go
<1>11. ASSUME NEW p \in Process, Reserve(p) PROVE LinkKept \/ LinkCut \/ LinkMade
  <2>1. CASE StillOwner(p)
    <3>1. exec.file = None
      BY <1>11, <2>1 DEF Reserve, StillOwner, NoneBeforeReserve
    <3>2. PICK a \in Artifact : /\ art' = [art EXCEPT ![a].status = "active"]
                               /\ exec' = [exec EXCEPT !.file = a, !.started = clock]
      BY <1>11, <2>1 DEF Reserve
    <3>3. LiveArtifacts' = LiveArtifacts \cup {a}
      BY <3>2 DEF LiveArtifacts, Live, ReportTypeOK, File
    <3>4. exec'.file = a
      BY <3>2 DEF ReportTypeOK, Row
    <3> QED
      BY <3>1, <3>3, <3>4 DEF LinkMade
  <2>2. CASE ~StillOwner(p)
    BY <1>11, <2>2 DEF LinkKept, LiveArtifacts, Live, Reserve
  <2> QED
    BY <2>1, <2>2
<1>12. ASSUME NEW p \in Process, Store(p) PROVE LinkKept \/ LinkCut \/ LinkMade
  BY <1>12 DEF LinkKept, LiveArtifacts, Live, ReportTypeOK, Row, File, Store, Go
<1>13. ASSUME NEW p \in Process, Complete(p) PROVE LinkKept \/ LinkCut \/ LinkMade
  BY <1>13 DEF LinkKept, LiveArtifacts, Live, ReportTypeOK, Row, File, Complete, Go
<1>14. ASSUME NEW p \in Process, Notify(p) PROVE LinkKept \/ LinkCut \/ LinkMade
  BY <1>14 DEF LinkKept, LiveArtifacts, Live, ReportTypeOK, Row, File, Notify, Go
<1>15. ASSUME NEW p \in Process, Release(p) PROVE LinkKept \/ LinkCut \/ LinkMade
  BY <1>15 DEF LinkKept, LiveArtifacts, Live, ReportTypeOK, Row, File, Release, ReleasedRow, StartCleanup
<1>16. ASSUME NEW p \in Process, Reset(p) PROVE LinkKept \/ LinkCut \/ LinkMade
  BY <1>16 DEF LinkKept, LiveArtifacts, Live, ReportTypeOK, Row, File, Reset, ReleasedRow, Go
<1>17. ASSUME NEW p \in Process, Fail(p) PROVE LinkKept \/ LinkCut \/ LinkMade
  BY <1>17 DEF LinkKept, LiveArtifacts, Live, ReportTypeOK, Row, File, Fail, StartCleanup
<1>18. ASSUME NEW p \in Process, Retry(p) PROVE LinkKept \/ LinkCut \/ LinkMade
  BY <1>18 DEF LinkKept, LiveArtifacts, Live, ReportTypeOK, Row, File, Retry, Go
<1>19. ASSUME NEW p \in Process, Exhaust(p) PROVE LinkKept \/ LinkCut \/ LinkMade
  BY <1>19 DEF LinkKept, LiveArtifacts, Live, ReportTypeOK, Row, File, Exhaust, Go
<1>20. ASSUME NEW p \in Process, Ack(p) PROVE LinkKept \/ LinkCut \/ LinkMade
  BY <1>20 DEF LinkKept, LiveArtifacts, Live, ReportTypeOK, Row, File, Ack, Idle
<1>21. ASSUME NEW p \in Process, CleanupFault(p) PROVE LinkKept \/ LinkCut \/ LinkMade
  BY <1>21 DEF LinkKept, LiveArtifacts, Live, ReportTypeOK, Row, File, CleanupFault, AfterDirtyCleanup, Go
<1>22. ASSUME NEW p \in Process, StoreFault(p) PROVE LinkKept \/ LinkCut \/ LinkMade
  BY <1>22 DEF LinkKept, LiveArtifacts, Live, ReportTypeOK, Row, File, StoreFault, Go
<1>23. ASSUME NEW p \in Process, RunFault(p) PROVE LinkKept \/ LinkCut \/ LinkMade
  BY <1>23 DEF LinkKept, LiveArtifacts, Live, ReportTypeOK, Row, File, RunFault, Go
<1>24. ASSUME NEW p \in Process, UnretriedFault(p) PROVE LinkKept \/ LinkCut \/ LinkMade
  BY <1>24 DEF LinkKept, LiveArtifacts, Live, ReportTypeOK, Row, File, UnretriedFault, Go
<1>25. ASSUME NEW p \in Process, Crash(p) PROVE LinkKept \/ LinkCut \/ LinkMade
  BY <1>25 DEF LinkKept, LiveArtifacts, Live, ReportTypeOK, Row, File, Crash, Idle
<1>26. ASSUME NEW u \in User, CancelRead(u) PROVE LinkKept \/ LinkCut \/ LinkMade
  BY <1>26 DEF LinkKept, LiveArtifacts, Live, ReportTypeOK, Row, File, CancelRead
<1>27. ASSUME NEW u \in User, CancelWrite(u) PROVE LinkKept \/ LinkCut \/ LinkMade
  BY <1>27 DEF LinkKept, LiveArtifacts, Live, ReportTypeOK, Row, File, CancelWrite
<1>28. CASE Revoke
  BY <1>28 DEF LinkKept, LiveArtifacts, Live, ReportTypeOK, Row, File, Revoke
<1>29. CASE Tick
  BY <1>29 DEF LinkKept, LiveArtifacts, Live, ReportTypeOK, Row, File, Tick
<1>30. CASE UNCHANGED vars
  BY <1>30 DEF LinkKept, LiveArtifacts, Live, ReportTypeOK, Row, File, vars
<1> QED
  BY <1>1, <1>2, <1>3, <1>4, <1>5, <1>6, <1>7, <1>8, <1>9, <1>10, <1>11, <1>12, <1>13, <1>14,
     <1>15, <1>16, <1>17, <1>18, <1>19, <1>20, <1>21, <1>22, <1>23, <1>24, <1>25, <1>26, <1>27, <1>28,
     <1>29, <1>30 DEF Next, Work, Disturb

LEMMA RenderStep ==
  ReportTypeOK /\ NoneBeforeReserve /\ [Next]_vars => NoneBeforeReserve'
<1> SUFFICES ASSUME ReportTypeOK, NoneBeforeReserve, [Next]_vars
             PROVE  NoneBeforeReserve'
  OBVIOUS
<1>1. ASSUME NEW p \in Worker, Deliver(p) PROVE NoneBeforeReserve'
  BY <1>1 DEF NoneBeforeReserve, ReportTypeOK, Local, Purpose, Deliver, Idle
<1>2. ASSUME NEW p \in Caller, Call(p) PROVE NoneBeforeReserve'
  BY <1>2 DEF NoneBeforeReserve, ReportTypeOK, Local, Purpose, Call, Idle
<1>3. ASSUME NEW p \in Process, ClaimBusy(p) PROVE NoneBeforeReserve'
  BY <1>3 DEF NoneBeforeReserve, ReportTypeOK, Local, Purpose, ClaimBusy, Go
<1>4. ASSUME NEW p \in Process, ClaimRefused(p) PROVE NoneBeforeReserve'
  BY <1>4 DEF NoneBeforeReserve, ReportTypeOK, Local, Purpose, ClaimRefused, Go
<1>5. ASSUME NEW p \in Process, ClaimTaken(p) PROVE NoneBeforeReserve'
  BY <1>5 DEF NoneBeforeReserve, ReportTypeOK, Local, Purpose, ClaimTaken, ClaimedRow
<1>6. ASSUME NEW p \in Process, DeleteBlobs(p) PROVE NoneBeforeReserve'
  BY <1>6 DEF NoneBeforeReserve, ReportTypeOK, Local, Purpose, DeleteBlobs
<1>7. ASSUME NEW p \in Process, DeleteRow(p) PROVE NoneBeforeReserve'
  BY <1>7 DEF NoneBeforeReserve, ReportTypeOK, Local, Purpose, DeleteRow, Go
<1>8. ASSUME NEW p \in Process, CleanupDone(p) PROVE NoneBeforeReserve'
  BY <1>8 DEF NoneBeforeReserve, ReportTypeOK, Local, Purpose, CleanupDone, Go
<1>9. ASSUME NEW p \in Process, Detach(p) PROVE NoneBeforeReserve'
  <2>1. \/ /\ proc[p].purpose = "purge"
           /\ proc' = [proc EXCEPT ![p].at = "render", ![p].file = None]
        \/ /\ proc[p].purpose # "purge"
           /\ proc' = [proc EXCEPT ![p].at = "retry"] \/ proc' = [proc EXCEPT ![p].at = "ack"]
    BY <1>9 DEF Detach, Go, ReportTypeOK, Local, Purpose
  <2> QED
    BY <2>1 DEF NoneBeforeReserve, ReportTypeOK, Local
<1>10. ASSUME NEW p \in Process, Render(p) PROVE NoneBeforeReserve'
  BY <1>10 DEF NoneBeforeReserve, ReportTypeOK, Local, Purpose, Render, Go
<1>11. ASSUME NEW p \in Process, Reserve(p) PROVE NoneBeforeReserve'
  <2>1. \/ \E a \in Artifact :
             proc' = [proc EXCEPT ![p].at = "store", ![p].file = a, ![p].token = clock]
        \/ proc' = [proc EXCEPT ![p].at = "fail"]
    BY <1>11 DEF Reserve, Go
  <2>2. /\ DOMAIN proc = Process
        /\ \A q \in Process : DOMAIN proc[q] = {"at", "msg", "token", "file", "doomed", "target", "purpose"}
    BY DEF ReportTypeOK, Local
  <2>3. ASSUME NEW a \in Artifact,
               proc' = [proc EXCEPT ![p].at = "store", ![p].file = a, ![p].token = clock]
        PROVE  NoneBeforeReserve'
    <3>1. proc'[p].at = "store" /\ \A q \in Process \ {p} : proc'[q] = proc[q]
      BY <2>2, <2>3, <1>11
    <3> QED
      BY <3>1 DEF NoneBeforeReserve
  <2>4. CASE proc' = [proc EXCEPT ![p].at = "fail"]
    <3>1. proc'[p].at = "fail" /\ \A q \in Process \ {p} : proc'[q] = proc[q]
      BY <2>2, <2>4, <1>11
    <3> QED
      BY <3>1 DEF NoneBeforeReserve
  <2> QED
    BY <2>1, <2>3, <2>4
<1>12. ASSUME NEW p \in Process, Store(p) PROVE NoneBeforeReserve'
  BY <1>12 DEF NoneBeforeReserve, ReportTypeOK, Local, Purpose, Store, Go
<1>13. ASSUME NEW p \in Process, Complete(p) PROVE NoneBeforeReserve'
  BY <1>13 DEF NoneBeforeReserve, ReportTypeOK, Local, Purpose, Complete, Go
<1>14. ASSUME NEW p \in Process, Notify(p) PROVE NoneBeforeReserve'
  BY <1>14 DEF NoneBeforeReserve, ReportTypeOK, Local, Purpose, Notify, Go
<1>15. ASSUME NEW p \in Process, Release(p) PROVE NoneBeforeReserve'
  BY <1>15 DEF NoneBeforeReserve, ReportTypeOK, Local, Purpose, Release, ReleasedRow, StartCleanup
<1>16. ASSUME NEW p \in Process, Reset(p) PROVE NoneBeforeReserve'
  BY <1>16 DEF NoneBeforeReserve, ReportTypeOK, Local, Purpose, Reset, ReleasedRow, Go
<1>17. ASSUME NEW p \in Process, Fail(p) PROVE NoneBeforeReserve'
  BY <1>17 DEF NoneBeforeReserve, ReportTypeOK, Local, Purpose, Fail, StartCleanup
<1>18. ASSUME NEW p \in Process, Retry(p) PROVE NoneBeforeReserve'
  BY <1>18 DEF NoneBeforeReserve, ReportTypeOK, Local, Purpose, Retry, Go
<1>19. ASSUME NEW p \in Process, Exhaust(p) PROVE NoneBeforeReserve'
  BY <1>19 DEF NoneBeforeReserve, ReportTypeOK, Local, Purpose, Exhaust, Go
<1>20. ASSUME NEW p \in Process, Ack(p) PROVE NoneBeforeReserve'
  BY <1>20 DEF NoneBeforeReserve, ReportTypeOK, Local, Purpose, Ack, Idle
<1>21. ASSUME NEW p \in Process, CleanupFault(p) PROVE NoneBeforeReserve'
  BY <1>21 DEF NoneBeforeReserve, ReportTypeOK, Local, Purpose, CleanupFault, AfterDirtyCleanup, Go
<1>22. ASSUME NEW p \in Process, StoreFault(p) PROVE NoneBeforeReserve'
  BY <1>22 DEF NoneBeforeReserve, ReportTypeOK, Local, Purpose, StoreFault, Go
<1>23. ASSUME NEW p \in Process, RunFault(p) PROVE NoneBeforeReserve'
  BY <1>23 DEF NoneBeforeReserve, ReportTypeOK, Local, Purpose, RunFault, Go
<1>24. ASSUME NEW p \in Process, UnretriedFault(p) PROVE NoneBeforeReserve'
  BY <1>24 DEF NoneBeforeReserve, ReportTypeOK, Local, Purpose, UnretriedFault, Go
<1>25. ASSUME NEW p \in Process, Crash(p) PROVE NoneBeforeReserve'
  BY <1>25 DEF NoneBeforeReserve, ReportTypeOK, Local, Purpose, Crash, Idle
<1>26. ASSUME NEW u \in User, CancelRead(u) PROVE NoneBeforeReserve'
  BY <1>26 DEF NoneBeforeReserve, ReportTypeOK, Local, Purpose, CancelRead
<1>27. ASSUME NEW u \in User, CancelWrite(u) PROVE NoneBeforeReserve'
  BY <1>27 DEF NoneBeforeReserve, ReportTypeOK, Local, Purpose, CancelWrite
<1>28. CASE Revoke
  BY <1>28 DEF NoneBeforeReserve, ReportTypeOK, Local, Purpose, Revoke
<1>29. CASE Tick
  BY <1>29 DEF NoneBeforeReserve, ReportTypeOK, Local, Purpose, Tick
<1>30. CASE UNCHANGED vars
  BY <1>30 DEF NoneBeforeReserve, ReportTypeOK, Local, Purpose, vars
<1> QED
  BY <1>1, <1>2, <1>3, <1>4, <1>5, <1>6, <1>7, <1>8, <1>9, <1>10, <1>11, <1>12, <1>13, <1>14,
     <1>15, <1>16, <1>17, <1>18, <1>19, <1>20, <1>21, <1>22, <1>23, <1>24, <1>25, <1>26, <1>27, <1>28,
     <1>29, <1>30 DEF Next, Work, Disturb

LEMMA LinkedStep ==
  ReportTypeOK /\ NoneBeforeReserve /\ LiveArtifactLinked /\ [Next]_vars => LiveArtifactLinked'
<1> SUFFICES ASSUME ReportTypeOK, NoneBeforeReserve, LiveArtifactLinked, [Next]_vars
             PROVE  LiveArtifactLinked'
  OBVIOUS
<1>1. CASE LinkKept
  BY <1>1 DEF LinkKept, LiveArtifactLinked
<1>2. CASE LinkCut
  BY <1>2 DEF LinkCut, LiveArtifactLinked, LiveArtifacts
<1>3. CASE LinkMade
  BY <1>3 DEF LinkMade, LiveArtifactLinked, LiveArtifacts
<1> QED
  BY <1>1, <1>2, <1>3, LinkKinds

-----------------------------------------------------------------------------
(* Owners *)

\* No process becomes an owner and an owner keeps its token.
OwnersKept(S) == \A q \in S : OwnerStep(q)' => OwnerStep(q) /\ proc'[q].token = proc[q].token

LeaseKept == /\ OwnersKept(Process) /\ clock' = clock
             /\ exec'.status = exec.status /\ exec'.started = exec.started
RunEnded == OwnersKept(Process) /\ clock' = clock /\ exec'.status \in Ended
RunReleased ==
  /\ OwnersKept(Process) /\ clock' = clock
  /\ exec'.status = "pending"
  /\ \E p \in Process : OwnerStep(p) /\ StillOwner(p) /\ ~OwnerStep(p)'
\* A claim, or the renewal of its lease by an owner.
LeaseTaken(p) ==
  /\ OwnersKept(Process \ {p}) /\ clock' = clock
  /\ exec'.status = "running" /\ exec'.started = clock
  /\ proc'[p].token = clock
  /\ Claimable \/ (OwnerStep(p) /\ StillOwner(p))
TimePassed == exec' = exec /\ proc' = proc /\ clock' = clock + 1

LeaseChange == \/ LeaseKept \/ RunEnded \/ RunReleased \/ TimePassed
               \/ \E p \in Process : LeaseTaken(p)

LEMMA LeaseKinds == ReportTypeOK /\ [Next]_vars => LeaseChange
<1> SUFFICES ASSUME ReportTypeOK, [Next]_vars PROVE LeaseChange
  OBVIOUS
<1>1. ASSUME NEW p \in Worker, Deliver(p) PROVE LeaseChange
  BY <1>1 DEF LeaseChange, LeaseKept, OwnersKept, OwnerStep, Working, ReportTypeOK, Local, Purpose, Deliver, Idle
<1>2. ASSUME NEW p \in Caller, Call(p) PROVE LeaseChange
  BY <1>2 DEF LeaseChange, LeaseKept, OwnersKept, OwnerStep, Working, ReportTypeOK, Local, Purpose, Call, Idle
<1>3. ASSUME NEW p \in Process, ClaimBusy(p) PROVE LeaseChange
  BY <1>3 DEF LeaseChange, LeaseKept, OwnersKept, OwnerStep, Working, ReportTypeOK, Local, Purpose, ClaimBusy, Go
<1>4. ASSUME NEW p \in Process, ClaimRefused(p) PROVE LeaseChange
  BY <1>4 DEF LeaseChange, LeaseKept, OwnersKept, OwnerStep, Working, ReportTypeOK, Local, Purpose, ClaimRefused, Go
<1>5. ASSUME NEW p \in Process, ClaimTaken(p) PROVE LeaseChange
  <2>1. OwnersKept(Process \ {p})
    BY <1>5 DEF OwnersKept, OwnerStep, Working, ReportTypeOK, Local, Purpose, ClaimTaken
  <2>2. /\ exec'.status = "running" /\ exec'.started = clock /\ clock' = clock
        /\ ClaimedRow.started = clock
    BY <1>5 DEF ClaimTaken, ClaimedRow, ReportTypeOK, Row
  <2>3. proc'[p].token = clock
    BY <1>5, <2>2 DEF ClaimTaken, ReportTypeOK, Local
  <2> QED
    BY <1>5, <2>1, <2>2, <2>3 DEF LeaseChange, LeaseTaken, ClaimTaken
<1>6. ASSUME NEW p \in Process, DeleteBlobs(p) PROVE LeaseChange
  BY <1>6 DEF LeaseChange, LeaseKept, OwnersKept, OwnerStep, Working, ReportTypeOK, Local, Purpose, DeleteBlobs
<1>7. ASSUME NEW p \in Process, DeleteRow(p) PROVE LeaseChange
  BY <1>7 DEF LeaseChange, LeaseKept, OwnersKept, OwnerStep, Working, ReportTypeOK, Local, Purpose, DeleteRow, Go
<1>8. ASSUME NEW p \in Process, CleanupDone(p) PROVE LeaseChange
  BY <1>8 DEF LeaseChange, LeaseKept, OwnersKept, OwnerStep, Working, ReportTypeOK, Local, Purpose, CleanupDone, Go
<1>9. ASSUME NEW p \in Process, Detach(p) PROVE LeaseChange
  <2>1. exec'.status = exec.status /\ exec'.started = exec.started
    BY <1>9 DEF Detach, ReportTypeOK, Row
  <2>2. \/ /\ proc[p].purpose = "purge"
           /\ proc' = [proc EXCEPT ![p].at = "render", ![p].file = None]
        \/ /\ proc[p].purpose # "purge"
           /\ proc' = [proc EXCEPT ![p].at = "retry"] \/ proc' = [proc EXCEPT ![p].at = "ack"]
    BY <1>9 DEF Detach, Go, ReportTypeOK, Local, Purpose
  <2>3. OwnersKept(Process)
    BY <1>9, <2>2 DEF OwnersKept, OwnerStep, Working, ReportTypeOK, Local, Detach
  <2> QED
    BY <1>9, <2>1, <2>3 DEF LeaseChange, LeaseKept, Detach
<1>10. ASSUME NEW p \in Process, Render(p) PROVE LeaseChange
  BY <1>10 DEF LeaseChange, LeaseKept, OwnersKept, OwnerStep, Working, ReportTypeOK, Local, Purpose, Render, Go
<1>11. ASSUME NEW p \in Process, Reserve(p) PROVE LeaseChange
  <2>1. CASE StillOwner(p)
    <3>1. PICK a \in Artifact :
            /\ exec' = [exec EXCEPT !.file = a, !.started = clock]
            /\ proc' = [proc EXCEPT ![p].at = "store", ![p].file = a, ![p].token = clock]
      BY <1>11, <2>1 DEF Reserve
    <3>2. OwnersKept(Process \ {p}) /\ proc'[p].token = clock
      BY <3>1 DEF OwnersKept, OwnerStep, Working, ReportTypeOK, Local, Purpose
    <3>3. exec'.status = "running" /\ exec'.started = clock /\ clock' = clock
      BY <1>11, <2>1, <3>1 DEF Reserve, StillOwner, ReportTypeOK, Row
    <3>4. OwnerStep(p)
      BY <1>11 DEF Reserve, OwnerStep, Working
    <3> QED
      BY <2>1, <3>2, <3>3, <3>4 DEF LeaseChange, LeaseTaken
  <2>2. CASE ~StillOwner(p)
    BY <1>11, <2>2 DEF LeaseChange, LeaseKept, OwnersKept, OwnerStep, Working, ReportTypeOK, Local, Purpose, Reserve, Go
  <2> QED
    BY <2>1, <2>2
<1>12. ASSUME NEW p \in Process, Store(p) PROVE LeaseChange
  BY <1>12 DEF LeaseChange, LeaseKept, OwnersKept, OwnerStep, Working, ReportTypeOK, Local, Purpose, Store, Go
<1>13. ASSUME NEW p \in Process, Complete(p) PROVE LeaseChange
  <2>1. OwnersKept(Process) /\ clock' = clock
    BY <1>13 DEF OwnersKept, OwnerStep, Working, ReportTypeOK, Local, Purpose, Complete, Go
  <2>2. exec' = exec \/ exec'.status = "completed"
    BY <1>13 DEF Complete, ReportTypeOK, Row
  <2> QED
    BY <2>1, <2>2 DEF LeaseChange, LeaseKept, RunEnded, Ended
<1>14. ASSUME NEW p \in Process, Notify(p) PROVE LeaseChange
  BY <1>14 DEF LeaseChange, LeaseKept, OwnersKept, OwnerStep, Working, ReportTypeOK, Local, Purpose, Notify, Go
<1>15. ASSUME NEW p \in Process, Release(p) PROVE LeaseChange
  <2>1. OwnersKept(Process) /\ clock' = clock /\ OwnerStep(p) /\ ~OwnerStep(p)'
    BY <1>15 DEF OwnersKept, OwnerStep, Working, ReportTypeOK, Local, Purpose, Release, ReleasedRow, StartCleanup
  <2>2. exec' = exec \/ (exec'.status = "pending" /\ StillOwner(p))
    BY <1>15 DEF Release, ReleasedRow, ReportTypeOK, Row
  <2> QED
    BY <2>1, <2>2 DEF LeaseChange, LeaseKept, RunReleased
<1>16. ASSUME NEW p \in Process, Reset(p) PROVE LeaseChange
  <2>1. OwnersKept(Process) /\ clock' = clock /\ OwnerStep(p) /\ ~OwnerStep(p)'
    BY <1>16 DEF OwnersKept, OwnerStep, Working, ReportTypeOK, Local, Purpose, Reset, ReleasedRow, Go
  <2>2. exec' = exec \/ (exec'.status = "pending" /\ StillOwner(p))
    BY <1>16 DEF Reset, ReleasedRow, ReportTypeOK, Row
  <2> QED
    BY <2>1, <2>2 DEF LeaseChange, LeaseKept, RunReleased
<1>17. ASSUME NEW p \in Process, Fail(p) PROVE LeaseChange
  <2>1. OwnersKept(Process) /\ clock' = clock
    BY <1>17 DEF OwnersKept, OwnerStep, Working, ReportTypeOK, Local, Purpose, Fail, StartCleanup
  <2>2. exec' = exec \/ exec'.status = "failed"
    BY <1>17 DEF Fail, ReportTypeOK, Row
  <2> QED
    BY <2>1, <2>2 DEF LeaseChange, LeaseKept, RunEnded, Ended
<1>18. ASSUME NEW p \in Process, Retry(p) PROVE LeaseChange
  BY <1>18 DEF LeaseChange, LeaseKept, OwnersKept, OwnerStep, Working, ReportTypeOK, Local, Purpose, Retry, Go
<1>19. ASSUME NEW p \in Process, Exhaust(p) PROVE LeaseChange
  <2>1. OwnersKept(Process) /\ clock' = clock
    BY <1>19 DEF OwnersKept, OwnerStep, Working, ReportTypeOK, Local, Purpose, Exhaust, Go
  <2>2. exec' = exec \/ exec'.status = "failed"
    BY <1>19 DEF Exhaust, ReportTypeOK, Row
  <2> QED
    BY <2>1, <2>2 DEF LeaseChange, LeaseKept, RunEnded, Ended
<1>20. ASSUME NEW p \in Process, Ack(p) PROVE LeaseChange
  BY <1>20 DEF LeaseChange, LeaseKept, OwnersKept, OwnerStep, Working, ReportTypeOK, Local, Purpose, Ack, Idle
<1>21. ASSUME NEW p \in Process, CleanupFault(p) PROVE LeaseChange
  BY <1>21 DEF LeaseChange, LeaseKept, OwnersKept, OwnerStep, Working, ReportTypeOK, Local, Purpose, CleanupFault, AfterDirtyCleanup, Go
<1>22. ASSUME NEW p \in Process, StoreFault(p) PROVE LeaseChange
  BY <1>22 DEF LeaseChange, LeaseKept, OwnersKept, OwnerStep, Working, ReportTypeOK, Local, Purpose, StoreFault, Go
<1>23. ASSUME NEW p \in Process, RunFault(p) PROVE LeaseChange
  BY <1>23 DEF LeaseChange, LeaseKept, OwnersKept, OwnerStep, Working, ReportTypeOK, Local, Purpose, RunFault, Go
<1>24. ASSUME NEW p \in Process, UnretriedFault(p) PROVE LeaseChange
  BY <1>24 DEF LeaseChange, LeaseKept, OwnersKept, OwnerStep, Working, ReportTypeOK, Local, Purpose, UnretriedFault, Go
<1>25. ASSUME NEW p \in Process, Crash(p) PROVE LeaseChange
  BY <1>25 DEF LeaseChange, LeaseKept, OwnersKept, OwnerStep, Working, ReportTypeOK, Local, Purpose, Crash, Idle
<1>26. ASSUME NEW u \in User, CancelRead(u) PROVE LeaseChange
  BY <1>26 DEF LeaseChange, LeaseKept, OwnersKept, OwnerStep, Working, ReportTypeOK, Local, Purpose, CancelRead
<1>27. ASSUME NEW u \in User, CancelWrite(u) PROVE LeaseChange
  <2>1. CASE seen[u] = "completed"
    BY <1>27, <2>1 DEF LeaseChange, LeaseKept, OwnersKept, OwnerStep, Working, ReportTypeOK, Local, Purpose, CancelWrite
  <2>2. CASE seen[u] # "completed"
    BY <1>27, <2>2 DEF LeaseChange, RunEnded, Ended, Row, OwnersKept, OwnerStep, Working, ReportTypeOK, Local, Purpose, CancelWrite
  <2> QED
    BY <2>1, <2>2
<1>28. CASE Revoke
  BY <1>28 DEF LeaseChange, LeaseKept, OwnersKept, OwnerStep, Working, ReportTypeOK, Local, Purpose, Revoke
<1>29. CASE Tick
  BY <1>29 DEF LeaseChange, TimePassed, Tick
<1>30. CASE UNCHANGED vars
  BY <1>30 DEF LeaseChange, LeaseKept, OwnersKept, OwnerStep, Working, ReportTypeOK, Local, Purpose, vars
<1> QED
  BY <1>1, <1>2, <1>3, <1>4, <1>5, <1>6, <1>7, <1>8, <1>9, <1>10, <1>11, <1>12, <1>13, <1>14,
     <1>15, <1>16, <1>17, <1>18, <1>19, <1>20, <1>21, <1>22, <1>23, <1>24, <1>25, <1>26, <1>27, <1>28,
     <1>29, <1>30 DEF Next, Work, Disturb

LEMMA OwnerInvStep ==
  IndInv /\ [Next]_vars => Stamped' /\ TokenPast' /\ FreshTokenInRow' /\ OneOwner'
<1> SUFFICES ASSUME IndInv, LeaseChange
             PROVE  Stamped' /\ TokenPast' /\ FreshTokenInRow' /\ OneOwner'
  BY LeaseKinds DEF IndInv
<1> USE DEF IndInv, Stamped, TokenPast, FreshTokenInRow
<1>0. clock \in Nat
  BY DEF ReportTypeOK
<1>1. CASE LeaseKept
  BY <1>1 DEF LeaseKept, OwnersKept, OneOwner, Owns, OwnerStep
<1>2. CASE RunEnded
  BY <1>2 DEF RunEnded, OwnersKept, OneOwner, Owns, OwnerStep, Ended
<1>3. CASE RunReleased
  <2>1. PICK p \in Process : OwnerStep(p) /\ StillOwner(p) /\ ~OwnerStep(p)'
    BY <1>3 DEF RunReleased
  <2>2. Owns(p)
    BY <2>1 DEF Owns, OwnerStep, StillOwner
  <2>3. ASSUME NEW q \in Process, OwnerStep(q), proc[q].token = clock PROVE q = p
    <3>1. exec.status = "running" /\ exec.started = clock
      BY <2>1, <2>3 DEF StillOwner, Ended
    <3>2. Owns(q)
      BY <2>3, <3>1 DEF Owns, OwnerStep
    <3> QED
      BY <2>2, <3>2 DEF OneOwner
  <2>4. FreshTokenInRow'
    BY <1>3, <2>1, <2>3 DEF RunReleased, OwnersKept
  <2> QED
    BY <1>3, <2>4 DEF RunReleased, OwnersKept, OneOwner, Owns
<1>4. CASE TimePassed
  <2>1. Stamped' /\ TokenPast' /\ FreshTokenInRow'
    BY <1>0, <1>4 DEF TimePassed, OwnerStep
  <2>2. OneOwner'
    BY <1>4 DEF TimePassed, OneOwner, Owns
  <2> QED
    BY <2>1, <2>2
<1>5. ASSUME NEW p \in Process, LeaseTaken(p)
      PROVE  Stamped' /\ TokenPast' /\ FreshTokenInRow' /\ OneOwner'
  <2>1. ASSUME NEW q \in Process \ {p}, OwnerStep(q), proc[q].token = clock PROVE FALSE
    <3>1. CASE Claimable
      BY <1>0, <2>1, <3>1 DEF Claimable, LeaseExpired, Ended
    <3>2. CASE OwnerStep(p) /\ StillOwner(p)
      <4>1. exec.status = "running" /\ exec.started = clock
        BY <2>1, <3>2 DEF StillOwner, Ended
      <4>2. Owns(q) /\ Owns(p)
        BY <2>1, <3>2, <4>1 DEF Owns, OwnerStep, StillOwner
      <4> QED
        BY <2>1, <4>2 DEF OneOwner
    <3> QED
      BY <1>5, <3>1, <3>2 DEF LeaseTaken
  <2>2. Stamped' /\ TokenPast' /\ FreshTokenInRow'
    BY <1>0, <1>5 DEF LeaseTaken, OwnersKept
  <2>3. ASSUME NEW q \in Process, Owns(q)' PROVE q = p
    BY <1>5, <2>1, <2>3 DEF LeaseTaken, OwnersKept, Owns, OwnerStep
  <2> QED
    BY <2>2, <2>3 DEF OneOwner
<1> QED
  BY <1>1, <1>2, <1>3, <1>4, <1>5 DEF LeaseChange

-----------------------------------------------------------------------------
(* What is written to an artifact, and what may still be deleted *)

\* Steps at which a process holds the artifact it reserved, to write or publish it;
\* and those after which it may still clean it up.
Writing == {"store", "complete"}
Holding == Writing \cup {"release", "fail"}

\* Process p may still delete artifact a in the cleanup it is in.
Dooms(p, a) ==
  \/ proc[p].at \in {"blobs", "row"} /\ a \in proc[p].doomed
  \/ proc[p].at = "row" /\ a = proc[p].target

\* Whatever the row or a process refers to has been created.
Created ==
  /\ exec.file # None => art[exec.file].status # "absent"
  /\ \A p \in Process : proc[p].file # None => art[proc[p].file].status # "absent"
  /\ \A p \in Process, a \in Artifact : Dooms(p, a) => art[a].status # "absent"

\* Only the process that reserved an artifact holds it.
HeldAlone ==
  \A p \in Process : proc[p].at \in Writing =>
    /\ proc[p].file # None
    /\ \A q \in Process \ {p} : proc[q].at \in Holding => proc[q].file # proc[p].file

\* Who deletes an artifact that its writer still holds has claimed the execution
\* after the writer's last renewal of the lease.
DoomedLater ==
  \A p, q \in Process : proc[p].at \in Writing /\ Dooms(q, proc[p].file) =>
    proc[q].purpose = "purge" /\ proc[p].token < proc[q].token

\* No owner has a later token than a running row.
RowLatest ==
  exec.status = "running" => \A p \in Process : OwnerStep(p) => proc[p].token <= exec.started

\* A row is deleted only after its blobs.
TargetEmpty ==
  \A p \in Process : proc[p].at = "row" =>
    proc[p].target # None /\ ~art[proc[p].target].blob

\* An owner about to complete has its artifact and the bytes.
ReadyToPublish ==
  \A p \in Process : proc[p].at = "complete" /\ StillOwner(p) =>
    Live(proc[p].file) /\ art[proc[p].file].blob

\* The file of a completed report is there and nobody can still touch it.
PublishedStays ==
  exec.status = "completed" =>
    /\ exec.file # None /\ Live(exec.file) /\ art[exec.file].blob
    /\ \A p \in Process :
         ~Dooms(p, exec.file) /\ (proc[p].at \in Holding => proc[p].file # exec.file)

ArtifactInv ==
  /\ Created
  /\ HeldAlone
  /\ DoomedLater
  /\ RowLatest
  /\ TargetEmpty
  /\ DeletedHasNoBlob
  /\ ReadyToPublish
  /\ PublishedStays

-----------------------------------------------------------------------------
(* The kinds of steps, seen from the artifacts *)

\* Dooms(p, a) in the next state, for an artifact of the present one.
WillDoom(p, a) ==
  \/ proc'[p].at \in {"blobs", "row"} /\ a \in proc'[p].doomed
  \/ proc'[p].at = "row" /\ a = proc'[p].target

Others(p) == \A q \in Process \ {p} : proc'[q] = proc[q]

\* Process q comes to hold, doom or publish nothing that it did not before.
Stays(q) ==
  /\ proc'[q].at \in Writing =>
       proc[q].at \in Writing /\ proc'[q].file = proc[q].file /\ proc'[q].token = proc[q].token
  /\ proc'[q].at \in Holding =>
       proc'[q].file = None \/ (proc[q].at \in Holding /\ proc'[q].file = proc[q].file)
  /\ proc'[q].file \in {proc[q].file, None}
  /\ \A a \in Artifact : WillDoom(q, a) =>
       Dooms(q, a) /\ proc'[q].purpose = proc[q].purpose /\ proc'[q].token = proc[q].token
KeepsTarget(q) == proc'[q].at = "row" => proc[q].at = "row" /\ proc'[q].target = proc[q].target
KeepsPublishing(q) == proc'[q].at = "complete" => proc[q].at = "complete"
Rests(q) == Stays(q) /\ KeepsTarget(q) /\ KeepsPublishing(q)

\* The row is not renewed, and its link stays or is cut from a deleted artifact.
RowRests ==
  /\ exec'.status = "running" => exec.status = "running" /\ exec'.started = exec.started
  /\ \/ exec'.file = exec.file
     \/ exec'.file = None /\ exec.file # None /\ art[exec.file].status = "deleted"

Publishes(p) ==
  /\ proc[p].at = "complete" /\ StillOwner(p)
  /\ proc'[p].at = "notify" /\ exec'.file = exec.file

\* Nothing is written or deleted.
Untouched ==
  /\ art' = art /\ RowRests
  /\ \A q \in Process : Rests(q)
  /\ exec'.status = "completed" =>
       exec.status = "completed" \/ \E p \in Process : Publishes(p)
CleansUp(p) ==
  /\ art' = art /\ RowRests /\ exec'.file = exec.file /\ Others(p)
  /\ exec'.status = "completed" => exec.status = "completed"
  /\ proc[p].at \in {"release", "fail"}
  /\ proc'[p].at = "blobs" /\ proc'[p].file = proc[p].file
  /\ \A a \in Artifact : WillDoom(p, a) => a = proc[p].file
Claims(p) ==
  /\ art' = art /\ exec'.file = exec.file /\ Others(p) /\ clock' = clock
  /\ Claimable /\ exec'.status = "running" /\ exec'.started = clock
  /\ proc'[p].at \in {"blobs", "detach"}
  /\ proc'[p].purpose = "purge" /\ proc'[p].token = clock /\ proc'[p].file = exec.file
  /\ \A a \in Artifact : WillDoom(p, a) => Live(a)
DropsBlobs(p) == \E a \in Artifact :
  /\ exec' = exec /\ Others(p) /\ Stays(p) /\ KeepsPublishing(p)
  /\ proc[p].at = "blobs" /\ Dooms(p, a)
  /\ art' = [art EXCEPT ![a].blob = art[a].blob /\ ~Live(a)]
  /\ proc'[p].at = "row" => Live(a) /\ proc'[p].target = a
DropsRow(p) == \E a \in Artifact :
  /\ exec' = exec /\ Others(p) /\ Rests(p)
  /\ proc[p].at = "row" /\ a = proc[p].target
  /\ art' = [art EXCEPT ![a].status = "deleted"]
Reserves(p) == \E a \in Artifact :
  /\ art[a].status = "absent" /\ art' = [art EXCEPT ![a].status = "active"]
  /\ StillOwner(p) /\ OwnerStep(p)
  /\ exec'.status = "running" /\ exec'.started = clock /\ exec'.file = a
  /\ Others(p) /\ proc'[p].at = "store" /\ proc'[p].file = a /\ proc'[p].token = clock
Writes(p) == \E written \in BOOLEAN :
  /\ exec' = exec /\ Others(p) /\ Stays(p) /\ KeepsTarget(p)
  /\ proc[p].at = "store" /\ MayStore(p)
  /\ art' = [art EXCEPT ![proc[p].file].blob = written]
  /\ proc'[p].at = "complete" => written

ArtifactStep ==
  \/ Untouched
  \/ \E p \in Process : \/ CleansUp(p) \/ Claims(p) \/ DropsBlobs(p) \/ DropsRow(p)
                        \/ Reserves(p) \/ Writes(p)

\* A process that is not touched rests.
LEMMA OthersRest ==
  ASSUME ReportTypeOK, NEW p \in Process, Others(p), Rests(p)
  PROVE  \A q \in Process : Rests(q)
<1>1. ASSUME NEW q \in Process \ {p} PROVE Rests(q)
  <2>1. proc'[q] = proc[q]
    BY DEF Others
  <2> QED
    BY <2>1 DEF Rests, Stays, KeepsTarget, KeepsPublishing, Dooms, WillDoom
<1> QED
  BY <1>1

\* A process that only moves on to a step without artifacts, or that gives up, rests.
LEMMA GoRests ==
  ASSUME ReportTypeOK, NoneBeforeReserve, NEW p \in Process, NEW step \in Step, Go(p, step),
         step \notin {"blobs", "row", "store", "complete"},
         step \in Holding => proc[p].at \in Holding \cup {"render", "reserve"}
  PROVE  /\ \A q \in Process : Rests(q)
         /\ Others(p) /\ Rests(p) /\ proc'[p].at = step /\ proc'[p].file = proc[p].file
<1>1. /\ Others(p) /\ proc'[p].at = step /\ proc'[p].file = proc[p].file
  BY DEF ReportTypeOK, Local, Go, Others
<1>2. step \in Holding => proc'[p].file = None \/ proc[p].at \in Holding
  BY <1>1 DEF NoneBeforeReserve
<1>3. \A a \in Artifact : ~WillDoom(p, a)
  BY <1>1 DEF WillDoom
<1>4. Rests(p)
  BY <1>1, <1>2, <1>3 DEF Rests, Stays, KeepsTarget, KeepsPublishing, Writing, Holding
<1> QED
  BY <1>1, <1>4, OthersRest

\* A process that becomes idle, or takes up a task, rests.
LEMMA IdleRests ==
  ASSUME ReportTypeOK, NEW p \in Process, NEW r, proc' = [proc EXCEPT ![p] = r],
         r.at \in {"idle", "claim"}, r.file = None
  PROVE  \A q \in Process : Rests(q)
<1>1. Others(p) /\ proc'[p] = r
  BY DEF ReportTypeOK, Others
<1>2. Rests(p)
  BY <1>1 DEF Rests, Stays, KeepsTarget, KeepsPublishing, Writing, Holding, Dooms, WillDoom
<1> QED
  BY <1>1, <1>2, OthersRest

\* Where the row does not change, or only its status to one of a release or an end.
LEMMA RowRestsWhen ==
  ASSUME ReportTypeOK,
         exec' = exec \/ (exec'.status \in {"pending", "failed", "cancelled"}
                          /\ exec'.file = exec.file)
  PROVE  RowRests /\ exec'.file = exec.file
         /\ (exec'.status = "completed" => exec.status = "completed")
  BY DEF RowRests

LEMMA ArtifactKinds ==
  ReportTypeOK /\ NoneBeforeReserve /\ TargetEmpty /\ [Next]_vars => ArtifactStep
<1> SUFFICES ASSUME ReportTypeOK, NoneBeforeReserve, TargetEmpty, [Next]_vars
             PROVE  ArtifactStep
  OBVIOUS
<1>t. /\ \A q \in Process : proc[q] \in Local
      /\ exec \in Row /\ proc \in [Process -> Local]
  BY DEF ReportTypeOK
<1>s. Step = {"idle", "claim", "reset", "render", "reserve", "store", "complete", "notify",
              "release", "fail", "blobs", "row", "detach", "retry", "exhaust", "ack"}
  BY DEF Step
<1>u. ASSUME art' = art, \A q \in Process : Rests(q),
             \/ exec' = exec
             \/ /\ exec'.status \in {"pending", "failed", "cancelled"}
                /\ exec'.file = exec.file
      PROVE  ArtifactStep
  BY <1>u, RowRestsWhen DEF ArtifactStep, Untouched
<1>i. ASSUME proc' = proc PROVE \A q \in Process : Rests(q)
  BY <1>i DEF Rests, Stays, KeepsTarget, KeepsPublishing, Dooms, WillDoom
<1>1. ASSUME NEW p \in Worker, Deliver(p) PROVE ArtifactStep
  <2>1. PICK m \in DOMAIN queue :
          proc' = [proc EXCEPT ![p] = [Idle EXCEPT !.at = "claim", !.msg = m]]
    BY <1>1 DEF Deliver
  <2>2. \A q \in Process : Rests(q)
    <3> DEFINE r == [Idle EXCEPT !.at = "claim", !.msg = m]
    <3>1. r.at = "claim" /\ r.file = None
      BY DEF Idle
    <3> HIDE DEF r
    <3> QED
      BY <2>1, <3>1, IdleRests DEF r
  <2> QED
    BY <1>1, <2>2, <1>u DEF Deliver
<1>2. ASSUME NEW p \in Caller, Call(p) PROVE ArtifactStep
  <2>2. \A q \in Process : Rests(q)
    <3> DEFINE r == [Idle EXCEPT !.at = "claim"]
    <3>1. r.at = "claim" /\ r.file = None /\ proc' = [proc EXCEPT ![p] = r]
      BY <1>2 DEF Idle, Call
    <3> HIDE DEF r
    <3> QED
      BY <3>1, IdleRests
  <2> QED
    BY <1>2, <2>2, <1>u DEF Call
<1>3. ASSUME NEW p \in Process, ClaimBusy(p) PROVE ArtifactStep
  BY <1>3, <1>s, <1>u, GoRests DEF ClaimBusy, Holding, Writing
<1>4. ASSUME NEW p \in Process, ClaimRefused(p) PROVE ArtifactStep
  BY <1>4, <1>s, <1>u, GoRests DEF ClaimRefused, Holding, Writing
<1>5. ASSUME NEW p \in Process, ClaimTaken(p) PROVE ArtifactStep
  <2>1. /\ art' = art /\ clock' = clock /\ Claimable /\ exec'.file = exec.file
        /\ exec'.status = "running" /\ exec'.started = clock /\ ClaimedRow.started = clock
    BY <1>5, <1>t DEF ClaimTaken, ClaimedRow, Row
  <2>2. /\ Others(p) /\ proc'[p].at \in {"blobs", "detach"} /\ proc'[p].purpose = "purge"
        /\ proc'[p].token = clock /\ proc'[p].file = exec.file
        /\ proc'[p].doomed = LiveArtifacts
    BY <1>5, <1>t, <2>1 DEF ClaimTaken, Others, Local
  <2>3. \A a \in Artifact : WillDoom(p, a) => Live(a)
    BY <2>2 DEF WillDoom, LiveArtifacts
  <2> QED
    BY <2>1, <2>2, <2>3 DEF ArtifactStep, Claims
<1>6. ASSUME NEW p \in Process, DeleteBlobs(p) PROVE ArtifactStep
  <2>1. PICK a \in proc[p].doomed :
          /\ art' = [art EXCEPT ![a].blob = @ /\ ~Live(a)]
          /\ proc' = [proc EXCEPT ![p].at = IF Live(a) THEN "row" ELSE @,
                                  ![p].target = a, ![p].doomed = @ \ {a}]
    BY <1>6 DEF DeleteBlobs
  <2>2. a \in Artifact /\ proc[p].at = "blobs" /\ exec' = exec /\ Dooms(p, a)
    BY <1>6, <2>1, <1>t DEF DeleteBlobs, Local, Dooms, WillDoom
  <2>3. /\ Others(p)
        /\ proc'[p].at = IF Live(a) THEN "row" ELSE "blobs"
        /\ proc'[p].target = a /\ proc'[p].doomed = proc[p].doomed \ {a}
        /\ proc'[p].file = proc[p].file /\ proc'[p].token = proc[p].token
        /\ proc'[p].purpose = proc[p].purpose
    BY <2>1, <2>2, <1>t DEF Others, Local
  <2>4. Stays(p) /\ KeepsPublishing(p)
    <3>1. proc'[p].at \notin Holding /\ proc'[p].at \in {"blobs", "row"}
      BY <2>3 DEF Holding, Writing
    <3>2. ASSUME NEW b \in Artifact, WillDoom(p, b) PROVE Dooms(p, b)
      BY <2>1, <2>2, <2>3, <3>1, <3>2 DEF Dooms, WillDoom
    <3> QED
      BY <2>3, <3>1, <3>2 DEF Stays, KeepsPublishing, Holding, Writing
  <2>5. art' = [art EXCEPT ![a].blob = art[a].blob /\ ~Live(a)]
    BY <2>1
  <2>6. DropsBlobs(p)
    BY <2>2, <2>3, <2>4, <2>5 DEF DropsBlobs
  <2> QED
    BY <2>6 DEF ArtifactStep
<1>7. ASSUME NEW p \in Process, DeleteRow(p) PROVE ArtifactStep
  <2>1. proc[p].target \in Artifact
    BY <1>7, <1>t DEF DeleteRow, TargetEmpty, Local
  <2>2. Others(p) /\ Rests(p)
    BY <1>7, <1>t DEF DeleteRow, Go, Others, Rests, Stays, KeepsTarget, KeepsPublishing,
                      Writing, Holding, Dooms, WillDoom, Local
  <2>3. DropsRow(p)
    BY <1>7, <2>1, <2>2 DEF DeleteRow, DropsRow
  <2> QED
    BY <2>3 DEF ArtifactStep
<1>8. ASSUME NEW p \in Process, CleanupDone(p) PROVE ArtifactStep
  BY <1>8, <1>s, <1>u, GoRests DEF CleanupDone, Holding, Writing
<1>9. ASSUME NEW p \in Process, Detach(p) PROVE ArtifactStep
  <2>1. art' = art /\ RowRests /\ exec'.status = exec.status
    BY <1>9, <1>t DEF Detach, MayDetach, RowRests, Row
  <2>2. \A q \in Process : Rests(q)
    <3>1. CASE proc[p].purpose = "purge"
      <4>1. proc' = [proc EXCEPT ![p].at = "render", ![p].file = None]
        BY <1>9, <3>1 DEF Detach
      <4>2. Others(p) /\ Rests(p)
        BY <4>1, <1>t DEF Others, Rests, Stays, KeepsTarget, KeepsPublishing, Writing, Holding,
                          Dooms, WillDoom, Local
      <4> QED
        BY <4>2, OthersRest
    <3>2. CASE proc[p].purpose # "purge"
      <4>1. Go(p, "retry") \/ Go(p, "ack")
        BY <1>9, <3>2, <1>t DEF Detach, Local, Purpose
      <4> QED
        BY <4>1, <1>s, GoRests DEF Holding, Writing
    <3> QED
      BY <3>1, <3>2
  <2> QED
    BY <2>1, <2>2 DEF ArtifactStep, Untouched
<1>10. ASSUME NEW p \in Process, Render(p) PROVE ArtifactStep
  BY <1>10, <1>s, <1>u, GoRests DEF Render, Holding, Writing
<1>11. ASSUME NEW p \in Process, Reserve(p) PROVE ArtifactStep
  <2>1. CASE StillOwner(p)
    <3>1. PICK a \in {b \in Artifact : art[b].status = "absent"} :
            /\ art' = [art EXCEPT ![a].status = "active"]
            /\ exec' = [exec EXCEPT !.file = a, !.started = clock]
            /\ proc' = [proc EXCEPT ![p].at = "store", ![p].file = a, ![p].token = clock]
      BY <1>11, <2>1 DEF Reserve
    <3>2. Others(p) /\ proc'[p].at = "store" /\ proc'[p].file = a /\ proc'[p].token = clock
      BY <3>1, <1>t DEF Others, Local
    <3>3. exec'.status = "running" /\ exec'.started = clock /\ exec'.file = a
      BY <2>1, <3>1, <1>t DEF StillOwner, Row
    <3>4. OwnerStep(p)
      BY <1>11 DEF Reserve, OwnerStep, Working
    <3>5. a \in Artifact /\ art[a].status = "absent"
      OBVIOUS
    <3>6. Reserves(p)
      BY <2>1, <3>1, <3>2, <3>3, <3>4, <3>5 DEF Reserves
    <3> QED
      BY <3>6 DEF ArtifactStep
  <2>2. CASE ~StillOwner(p)
    BY <1>11, <2>2, <1>s, <1>u, GoRests DEF Reserve
  <2> QED
    BY <2>1, <2>2
<1>12. ASSUME NEW p \in Process, Store(p) PROVE ArtifactStep
  <2>1. CASE MayStore(p)
    <3>1. /\ art' = [art EXCEPT ![proc[p].file].blob = TRUE] /\ Go(p, "complete")
          /\ exec' = exec /\ proc[p].at = "store"
      BY <1>12, <2>1 DEF Store
    <3>2. Others(p) /\ Stays(p) /\ KeepsTarget(p) /\ proc'[p].at = "complete"
      BY <3>1, <1>t DEF Go, Others, Stays, KeepsTarget, Writing, Holding, Dooms, WillDoom, Local
    <3>3. Writes(p)
      BY <2>1, <3>1, <3>2 DEF Writes
    <3> QED
      BY <3>3 DEF ArtifactStep
  <2>2. CASE ~MayStore(p)
    BY <1>12, <2>2, <1>s, <1>u, GoRests DEF Store, Holding, Writing
  <2> QED
    BY <2>1, <2>2
<1>13. ASSUME NEW p \in Process, Complete(p) PROVE ArtifactStep
  <2>1. CASE StillOwner(p)
    <3>1. /\ exec' = [exec EXCEPT !.status = "completed"] /\ Go(p, "notify") /\ art' = art
          /\ proc[p].at = "complete"
      BY <1>13, <2>1 DEF Complete
    <3>2. exec'.file = exec.file /\ exec'.status = "completed"
      BY <3>1, <1>t DEF Row
    <3>3. (\A q \in Process : Rests(q)) /\ proc'[p].at = "notify"
      BY <3>1, <1>s, GoRests DEF Holding, Writing
    <3>4. Publishes(p)
      BY <2>1, <3>1, <3>2, <3>3 DEF Publishes
    <3> QED
      BY <3>1, <3>2, <3>3, <3>4 DEF ArtifactStep, Untouched, RowRests
  <2>2. CASE ~StillOwner(p)
    BY <1>13, <2>2, <1>s, <1>u, GoRests DEF Complete, Holding, Writing
  <2> QED
    BY <2>1, <2>2
<1>14. ASSUME NEW p \in Process, Notify(p) PROVE ArtifactStep
  BY <1>14, <1>s, <1>u, GoRests DEF Notify, Holding, Writing
<1>c. ASSUME NEW p \in Process, NEW purpose \in Purpose, StartCleanup(p, purpose),
             proc[p].at \in {"release", "fail"}, art' = art,
             \/ exec' = exec
             \/ /\ exec'.status \in {"pending", "failed", "cancelled"}
                /\ exec'.file = exec.file
      PROVE  ArtifactStep
  <2>1. /\ Others(p) /\ proc'[p].at = "blobs" /\ proc'[p].file = proc[p].file
        /\ proc'[p].doomed = IF proc[p].file = None THEN {} ELSE {proc[p].file}
    BY <1>c, <1>t DEF StartCleanup, Others, Local
  <2>2. \A a \in Artifact : WillDoom(p, a) => a = proc[p].file
    BY <2>1 DEF WillDoom
  <2>3. CleansUp(p)
    BY <1>c, <2>1, <2>2, RowRestsWhen DEF CleansUp
  <2> QED
    BY <2>3 DEF ArtifactStep
<1>r. ReleasedRow.status = "pending" /\ ReleasedRow.file = exec.file
  BY <1>t DEF ReleasedRow, Row
<1>15. ASSUME NEW p \in Process, Release(p) PROVE ArtifactStep
  <2>1. exec' = exec \/ (exec'.status = "pending" /\ exec'.file = exec.file)
    BY <1>15, <1>r DEF Release
  <2> QED
    BY <1>15, <2>1, <1>c DEF Release, Purpose
<1>16. ASSUME NEW p \in Process, Reset(p) PROVE ArtifactStep
  <2>1. exec' = exec \/ (exec'.status = "pending" /\ exec'.file = exec.file)
    BY <1>16, <1>r DEF Reset
  <2>2. \A q \in Process : Rests(q)
    BY <1>16, <1>s, GoRests DEF Reset, Holding, Writing
  <2> QED
    BY <1>16, <2>1, <2>2, <1>u DEF Reset
<1>17. ASSUME NEW p \in Process, Fail(p) PROVE ArtifactStep
  <2>1. exec' = exec \/ (exec'.status = "failed" /\ exec'.file = exec.file)
    BY <1>17, <1>t DEF Fail, Row
  <2> QED
    BY <1>17, <2>1, <1>c DEF Fail, Purpose
<1>18. ASSUME NEW p \in Process, Retry(p) PROVE ArtifactStep
  <2>1. Go(p, "ack") \/ Go(p, "exhaust")
    BY <1>18 DEF Retry
  <2> QED
    BY <1>18, <2>1, <1>s, <1>u, GoRests DEF Retry, Holding, Writing
<1>19. ASSUME NEW p \in Process, Exhaust(p) PROVE ArtifactStep
  <2>1. exec' = exec \/ (exec'.status = "failed" /\ exec'.file = exec.file)
    BY <1>19, <1>t DEF Exhaust, Row
  <2>2. \A q \in Process : Rests(q)
    BY <1>19, <1>s, GoRests DEF Exhaust, Holding, Writing
  <2> QED
    BY <1>19, <2>1, <2>2, <1>u DEF Exhaust
<1>20. ASSUME NEW p \in Process, Ack(p) PROVE ArtifactStep
  <2>0. Idle.at = "idle" /\ Idle.file = None
    BY DEF Idle
  <2>1. \A q \in Process : Rests(q)
    BY <1>20, <2>0, IdleRests DEF Ack
  <2> QED
    BY <1>20, <2>1, <1>u DEF Ack
<1>21. ASSUME NEW p \in Process, CleanupFault(p) PROVE ArtifactStep
  <2>1. AfterDirtyCleanup(p) \in {"reset", "retry", "ack"}
    BY <1>t DEF AfterDirtyCleanup, Local, Purpose
  <2>2. \A q \in Process : Rests(q)
    BY <1>21, <2>1, <1>s, GoRests DEF CleanupFault, Holding, Writing
  <2> QED
    BY <1>21, <2>2, <1>u DEF CleanupFault
<1>22. ASSUME NEW p \in Process, StoreFault(p) PROVE ArtifactStep
  <2>1. PICK written \in BOOLEAN, outcome \in {"release", "fail"} :
          /\ art' = [art EXCEPT ![proc[p].file].blob = written]
          /\ Go(p, outcome)
    BY <1>22 DEF StoreFault
  <2>2. proc[p].at = "store" /\ MayStore(p) /\ exec' = exec
    BY <1>22 DEF StoreFault
  <2>3. Others(p) /\ Rests(p) /\ proc'[p].at = outcome
    BY <2>1, <2>2, <1>s, GoRests DEF Holding, Writing
  <2>4. Writes(p)
    BY <2>1, <2>2, <2>3 DEF Writes, Rests
  <2> QED
    BY <2>4 DEF ArtifactStep
<1>23. ASSUME NEW p \in Process, RunFault(p) PROVE ArtifactStep
  <2>1. PICK outcome \in {"release", "fail"} : Go(p, outcome)
    BY <1>23 DEF RunFault
  <2>2. proc[p].at \in Holding \cup {"render", "reserve"}
    BY <1>23 DEF RunFault, Holding, Writing
  <2>3. \A q \in Process : Rests(q)
    BY <2>1, <2>2, <1>s, GoRests
  <2> QED
    BY <1>23, <2>3, <1>u DEF RunFault
<1>24. ASSUME NEW p \in Process, UnretriedFault(p) PROVE ArtifactStep
  <2>1. \A q \in Process : Rests(q)
    BY <1>24, <1>s, GoRests DEF UnretriedFault, Holding, Writing
  <2> QED
    BY <1>24, <2>1, <1>u DEF UnretriedFault
<1>25. ASSUME NEW p \in Process, Crash(p) PROVE ArtifactStep
  <2>0. Idle.at = "idle" /\ Idle.file = None
    BY DEF Idle
  <2>1. \A q \in Process : Rests(q)
    BY <1>25, <2>0, IdleRests DEF Crash
  <2> QED
    BY <1>25, <2>1, <1>u DEF Crash
<1>26. ASSUME NEW u \in User, CancelRead(u) PROVE ArtifactStep
  BY <1>26, <1>u, <1>i DEF CancelRead
<1>27. ASSUME NEW u \in User, CancelWrite(u) PROVE ArtifactStep
  <2>1. exec' = exec \/ (exec'.status = "cancelled" /\ exec'.file = exec.file)
    BY <1>27, <1>t DEF CancelWrite, Row
  <2> QED
    BY <1>27, <2>1, <1>u, <1>i DEF CancelWrite
<1>28. CASE Revoke \/ Tick \/ UNCHANGED vars
  BY <1>28, <1>u, <1>i DEF Revoke, Tick, vars
<1> QED
  BY <1>1, <1>2, <1>3, <1>4, <1>5, <1>6, <1>7, <1>8, <1>9, <1>10, <1>11, <1>12, <1>13, <1>14,
     <1>15, <1>16, <1>17, <1>18, <1>19, <1>20, <1>21, <1>22, <1>23, <1>24, <1>25, <1>26, <1>27, <1>28
  DEF Next, Work, Disturb

-----------------------------------------------------------------------------
(* The artifact invariant *)

LEMMA InitArtifact == Init => ArtifactInv
<1> SUFFICES ASSUME Init PROVE ArtifactInv
  OBVIOUS
<1>1. \A p \in Process : proc[p].at = "idle" /\ proc[p].file = None
  BY DEF Init, Idle
<1>2. /\ exec.status = "pending" /\ exec.file = None
      /\ \A a \in Artifact : art[a].status = "absent"
  BY DEF Init
<1>3. \A p \in Process : \A a : ~Dooms(p, a)
  BY <1>1 DEF Dooms
<1> QED
  BY <1>1, <1>2, <1>3
  DEF ArtifactInv, Created, HeldAlone, DoomedLater, RowLatest, TargetEmpty, DeletedHasNoBlob,
      ReadyToPublish, PublishedStays, Writing

LEMMA RowLatestStep ==
  ASSUME IndInv, RowLatest, LeaseChange
  PROVE  RowLatest'
<1>0. clock \in Nat /\ TokenPast
  BY DEF IndInv, ReportTypeOK
<1>1. CASE LeaseKept
  BY <1>1 DEF LeaseKept, OwnersKept, RowLatest, OwnerStep
<1>2. CASE RunEnded \/ RunReleased
  BY <1>2 DEF RunEnded, RunReleased, Ended, RowLatest
<1>3. CASE TimePassed
  BY <1>3 DEF TimePassed, RowLatest, OwnerStep
<1>4. ASSUME NEW p \in Process, LeaseTaken(p) PROVE RowLatest'
  <2>1. exec'.started = clock /\ proc'[p].token = clock
    BY <1>4 DEF LeaseTaken
  <2>2. ASSUME NEW q \in Process \ {p}, OwnerStep(q)' PROVE proc'[q].token <= clock
    BY <1>0, <1>4, <2>2 DEF LeaseTaken, OwnersKept, TokenPast
  <2> QED
    BY <1>0, <2>1, <2>2 DEF RowLatest
<1> QED
  BY <1>1, <1>2, <1>3, <1>4 DEF LeaseChange

\* Nobody may still delete the artifact of a writer that owns the execution.
LEMMA WriterUndoomed ==
  ASSUME IndInv, DoomedLater, RowLatest,
         NEW p \in Process, proc[p].at \in Writing, StillOwner(p), NEW q \in Process
  PROVE  ~Dooms(q, proc[p].file)
<1> SUFFICES ASSUME Dooms(q, proc[p].file) PROVE FALSE
  OBVIOUS
<1>1. proc[q].purpose = "purge" /\ proc[p].token < proc[q].token
  BY DEF DoomedLater
<1>2. OwnerStep(q) /\ OwnerStep(p)
  BY <1>1 DEF Dooms, OwnerStep, Writing, Working
<1>3. proc[q].token <= exec.started /\ exec.started = proc[p].token
  BY <1>2 DEF RowLatest, StillOwner
<1>4. proc[p].token \in Nat /\ proc[q].token \in Nat
  BY <1>2 DEF IndInv, TokenPast, ReportTypeOK
<1> QED
  BY <1>1, <1>3, <1>4

\* The parts of the invariant besides RowLatest, which the lease alone decides.
Parts == Created /\ HeldAlone /\ DoomedLater /\ TargetEmpty /\ DeletedHasNoBlob
         /\ ReadyToPublish /\ PublishedStays

\* Processes that come to doom nothing new keep the order of the tokens.
LEMMA StaysDoomedLater ==
  ASSUME IndInv, HeldAlone, DoomedLater, \A q \in Process : Stays(q)
  PROVE  DoomedLater'
<1> SUFFICES ASSUME NEW p \in Process, NEW q \in Process, proc'[p].at \in Writing,
                    WillDoom(q, proc'[p].file)
             PROVE  proc'[q].purpose = "purge" /\ proc'[p].token < proc'[q].token
  BY DEF DoomedLater, Dooms, WillDoom
<1>1. /\ proc[p].at \in Writing /\ proc'[p].file = proc[p].file
      /\ proc'[p].token = proc[p].token /\ proc[p].file \in Artifact
  BY DEF Stays, HeldAlone, IndInv, ReportTypeOK, Local
<1>2. /\ Dooms(q, proc[p].file) /\ proc'[q].purpose = proc[q].purpose
      /\ proc'[q].token = proc[q].token
  BY <1>1 DEF Stays
<1> QED
  BY <1>1, <1>2 DEF DoomedLater

LEMMA UntouchedKeeps ==
  ASSUME IndInv, ArtifactInv, Untouched
  PROVE  Parts'
<1> USE DEF ArtifactInv
<1>1. /\ art' = art /\ RowRests
      /\ \A q \in Process : Stays(q) /\ KeepsTarget(q) /\ KeepsPublishing(q)
  BY DEF Untouched, Rests
<1>2. exec.file \in Artifact \cup {None} /\ \A q \in Process : proc[q].file \in Artifact \cup {None}
  BY DEF IndInv, ReportTypeOK, Row, Local
<1>3. Created'
  BY <1>1, <1>2 DEF Created, Stays, RowRests, Dooms, WillDoom
<1>4. HeldAlone'
  BY <1>1 DEF HeldAlone, Stays, Writing
<1>5. DoomedLater'
  BY <1>1, StaysDoomedLater
<1>6. TargetEmpty' /\ DeletedHasNoBlob'
  BY <1>1 DEF TargetEmpty, KeepsTarget, DeletedHasNoBlob
<1>7. ReadyToPublish'
  <2> SUFFICES ASSUME NEW p \in Process, proc'[p].at = "complete", StillOwner(p)'
               PROVE  Live(proc[p].file) /\ art[proc[p].file].blob /\ proc'[p].file = proc[p].file
    BY <1>1 DEF ReadyToPublish, Live
  <2>1. /\ proc[p].at = "complete" /\ proc'[p].file = proc[p].file
        /\ proc'[p].token = proc[p].token
    BY <1>1 DEF Stays, KeepsPublishing, Writing
  <2>2. StillOwner(p)
    BY <1>1, <2>1 DEF StillOwner, RowRests, HeldAlone, Writing
  <2> QED
    BY <2>1, <2>2 DEF ReadyToPublish
<1>8. PublishedStays'
  <2> SUFFICES ASSUME exec'.status = "completed"
               PROVE  /\ exec'.file # None /\ Live(exec'.file) /\ art[exec'.file].blob
                      /\ \A p \in Process : ~WillDoom(p, exec'.file)
                           /\ (proc'[p].at \in Holding => proc'[p].file # exec'.file)
    BY <1>1 DEF PublishedStays, Live, Dooms, WillDoom
  <2>1. CASE exec.status = "completed"
    <3>1. exec.file # None /\ Live(exec.file) /\ art[exec.file].blob /\ exec.file \in Artifact
      BY <2>1, <1>2 DEF PublishedStays
    <3>2. exec'.file = exec.file
      BY <3>1, <1>1 DEF RowRests, Live
    <3>3. ASSUME NEW p \in Process PROVE ~WillDoom(p, exec.file)
      BY <2>1, <3>1, <3>2, <1>1 DEF PublishedStays, Stays
    <3>4. ASSUME NEW p \in Process, proc'[p].at \in Holding PROVE proc'[p].file # exec.file
      BY <2>1, <3>1, <3>4, <1>1 DEF PublishedStays, Stays
    <3> QED
      BY <3>1, <3>2, <3>3, <3>4
  <2>2. ASSUME NEW p \in Process, Publishes(p)
        PROVE  /\ exec'.file # None /\ Live(exec'.file) /\ art[exec'.file].blob
               /\ \A q \in Process : ~WillDoom(q, exec'.file)
                    /\ (proc'[q].at \in Holding => proc'[q].file # exec'.file)
    <3>1. /\ exec'.file = proc[p].file /\ proc[p].at \in Writing /\ StillOwner(p)
          /\ proc[p].at = "complete" /\ proc'[p].at = "notify"
      BY <2>2 DEF Publishes, StillOwner, Writing
    <3>2. proc[p].file # None /\ proc[p].file \in Artifact
      BY <3>1, <1>2 DEF HeldAlone
    <3>3. Live(proc[p].file) /\ art[proc[p].file].blob
      BY <3>1 DEF ReadyToPublish
    <3>4. ASSUME NEW q \in Process PROVE ~WillDoom(q, proc[p].file)
      <4>1. ~Dooms(q, proc[p].file)
        BY <3>1, WriterUndoomed
      <4> QED
        BY <4>1, <3>2, <1>1 DEF Stays
    <3>5. ASSUME NEW q \in Process, proc'[q].at \in Holding PROVE proc'[q].file # proc[p].file
      <4>1. q # p
        BY <3>1, <3>5 DEF Holding, Writing
      <4> QED
        BY <4>1, <3>1, <3>2, <3>5, <1>1 DEF Stays, HeldAlone
    <3> QED
      BY <3>1, <3>2, <3>3, <3>4, <3>5
  <2> QED
    BY <2>1, <2>2 DEF Untouched
<1> QED
  BY <1>3, <1>4, <1>5, <1>6, <1>7, <1>8 DEF Parts

LEMMA CleansUpKeeps ==
  ASSUME IndInv, ArtifactInv, NEW p \in Process, CleansUp(p)
  PROVE  Parts'
<1> USE DEF ArtifactInv
<1>1. /\ art' = art /\ exec'.file = exec.file /\ proc'[p].at = "blobs"
      /\ proc'[p].file = proc[p].file /\ proc[p].at \in Holding
      /\ \A q \in Process : q # p => proc'[q] = proc[q]
      /\ \A a \in Artifact : WillDoom(p, a) => a = proc[p].file
  BY DEF CleansUp, Others, Holding
<1>2. \A q \in Process : proc[q].file \in Artifact \cup {None}
  BY DEF IndInv, ReportTypeOK, Local
<1>3. Created'
  BY <1>1, <1>2 DEF Created, Dooms, WillDoom
<1>4. HeldAlone'
  BY <1>1 DEF HeldAlone, Writing, Holding
<1>5. DoomedLater'
  <2> SUFFICES ASSUME NEW r \in Process, NEW q \in Process, proc'[r].at \in Writing,
                      WillDoom(q, proc'[r].file)
               PROVE  proc'[q].purpose = "purge" /\ proc'[r].token < proc'[q].token
    BY DEF DoomedLater, Dooms, WillDoom
  <2>1. /\ r # p /\ proc'[r] = proc[r] /\ proc[r].at \in Writing
        /\ proc[r].file \in Artifact /\ proc[p].file # proc[r].file
    BY <1>1, <1>2 DEF HeldAlone, Writing
  <2>2. q # p
    BY <1>1, <2>1
  <2> QED
    BY <1>1, <2>1, <2>2 DEF DoomedLater, Dooms, WillDoom
<1>6. TargetEmpty' /\ DeletedHasNoBlob'
  BY <1>1 DEF TargetEmpty, DeletedHasNoBlob
<1>7. ReadyToPublish'
  <2> SUFFICES ASSUME NEW r \in Process, proc'[r].at = "complete", StillOwner(r)'
               PROVE  proc'[r] = proc[r] /\ Live(proc[r].file) /\ art[proc[r].file].blob
    BY <1>1 DEF ReadyToPublish, Live
  <2>1. proc'[r] = proc[r]
    BY <1>1
  <2>2. StillOwner(r)
    BY <1>1, <2>1 DEF StillOwner, RowRests, CleansUp
  <2> QED
    BY <2>1, <2>2 DEF ReadyToPublish
<1>8. PublishedStays'
  <2> SUFFICES ASSUME exec'.status = "completed" PROVE PublishedStays'
    BY DEF PublishedStays
  <2>1. exec.status = "completed"
    BY DEF CleansUp
  <2>2. /\ exec.file # None /\ Live(exec.file) /\ art[exec.file].blob /\ exec.file \in Artifact
        /\ proc[p].file # exec.file
    BY <1>1, <2>1 DEF PublishedStays, IndInv, ReportTypeOK, Row
  <2>3. ASSUME NEW q \in Process
        PROVE  ~WillDoom(q, exec.file) /\ (proc'[q].at \in Holding => proc'[q].file # exec.file)
    <3>1. CASE q = p
      BY <1>1, <2>2, <3>1
    <3>2. CASE q # p
      BY <1>1, <2>1, <3>2 DEF PublishedStays, Dooms, WillDoom
    <3> QED
      BY <3>1, <3>2
  <2> QED
    BY <1>1, <2>2, <2>3 DEF PublishedStays, Live, Dooms, WillDoom
<1> QED
  BY <1>3, <1>4, <1>5, <1>6, <1>7, <1>8 DEF Parts

\* A claim comes later than the last renewal by any owner before it.
LEMMA ClaimLater ==
  ASSUME IndInv, Claimable, NEW p \in Process, OwnerStep(p)
  PROVE  proc[p].token < clock
<1>1. proc[p].token \in 0..clock /\ clock \in Nat
  BY DEF IndInv, TokenPast, ReportTypeOK
<1>2. ASSUME proc[p].token = clock PROVE FALSE
  BY <1>1, <1>2 DEF IndInv, FreshTokenInRow, Claimable, LeaseExpired, Ended
<1> QED
  BY <1>1, <1>2

LEMMA ClaimsKeeps ==
  ASSUME IndInv, ArtifactInv, NEW p \in Process, Claims(p)
  PROVE  Parts'
<1> USE DEF ArtifactInv
<1>1. /\ art' = art /\ exec'.file = exec.file /\ proc'[p].at \in {"blobs", "detach"}
      /\ proc'[p].file = exec.file /\ proc'[p].purpose = "purge" /\ proc'[p].token = clock
      /\ exec'.status = "running" /\ exec'.started = clock
      /\ \A q \in Process : q # p => proc'[q] = proc[q]
      /\ \A a \in Artifact : WillDoom(p, a) => Live(a)
  BY DEF Claims, Others
<1>2. \A q \in Process : proc[q].file \in Artifact \cup {None}
  BY DEF IndInv, ReportTypeOK, Local
<1>3. Created'
  BY <1>1 DEF Created, Dooms, WillDoom, Live
<1>4. HeldAlone'
  BY <1>1 DEF HeldAlone, Writing, Holding
<1>5. ASSUME NEW r \in Process, proc'[r].at \in Writing
      PROVE  r # p /\ proc'[r] = proc[r] /\ proc[r].token < clock
  <2>1. r # p /\ proc'[r] = proc[r]
    BY <1>1, <1>5 DEF Writing
  <2>2. OwnerStep(r)
    BY <1>5, <2>1 DEF OwnerStep, Writing, Working
  <2> QED
    BY <2>1, <2>2, ClaimLater DEF Claims
<1>6. DoomedLater'
  <2> SUFFICES ASSUME NEW r \in Process, NEW q \in Process, proc'[r].at \in Writing,
                      WillDoom(q, proc'[r].file)
               PROVE  proc'[q].purpose = "purge" /\ proc'[r].token < proc'[q].token
    BY DEF DoomedLater, Dooms, WillDoom
  <2>1. CASE q = p
    BY <1>1, <1>5, <2>1
  <2>2. CASE q # p
    BY <1>1, <1>5, <2>2 DEF DoomedLater, Dooms, WillDoom
  <2> QED
    BY <2>1, <2>2
<1>7. TargetEmpty' /\ DeletedHasNoBlob'
  BY <1>1 DEF TargetEmpty, DeletedHasNoBlob
<1>8. ReadyToPublish'
  <2> SUFFICES ASSUME NEW r \in Process, proc'[r].at = "complete", StillOwner(r)' PROVE FALSE
    BY DEF ReadyToPublish
  <2>1. proc'[r].token < clock /\ proc'[r].token = clock
    BY <1>1, <1>5 DEF StillOwner, Writing
  <2>2. clock \in Nat
    BY DEF IndInv, ReportTypeOK
  <2> QED
    BY <2>1, <2>2
<1>9. PublishedStays'
  BY <1>1 DEF PublishedStays
<1> QED
  BY <1>3, <1>4, <1>6, <1>7, <1>8, <1>9 DEF Parts

LEMMA DropsBlobsKeeps ==
  ASSUME IndInv, ArtifactInv, NEW p \in Process, DropsBlobs(p)
  PROVE  Parts'
<1> USE DEF ArtifactInv
<1>1. PICK a \in Artifact :
        /\ exec' = exec /\ Others(p) /\ Stays(p) /\ KeepsPublishing(p) /\ Dooms(p, a)
        /\ art' = [art EXCEPT ![a].blob = art[a].blob /\ ~Live(a)]
        /\ proc'[p].at = "row" => Live(a) /\ proc'[p].target = a
  BY DEF DropsBlobs
<1>2. \A q \in Process : Stays(q) /\ KeepsPublishing(q) /\ (q # p => KeepsTarget(q))
  BY <1>1 DEF Others, Stays, KeepsPublishing, KeepsTarget, Dooms, WillDoom
<1>3. /\ \A b \in Artifact : art'[b].status = art[b].status /\ (b # a => art'[b] = art[b])
      /\ \A b \in Artifact : art'[b].blob => art[b].blob
      /\ Live(a) => ~art'[a].blob
  BY <1>1 DEF IndInv, ReportTypeOK, File
<1>4. /\ exec.file \in Artifact \cup {None}
      /\ \A q \in Process : /\ proc[q].file \in Artifact \cup {None}
                            /\ proc[q].target \in Artifact \cup {None}
  BY DEF IndInv, ReportTypeOK, Row, Local
<1>5. Created'
  BY <1>1, <1>2, <1>3, <1>4 DEF Created, Stays, Dooms, WillDoom
<1>6. HeldAlone'
  BY <1>2 DEF HeldAlone, Stays, Writing
<1>7. DoomedLater'
  BY <1>2, StaysDoomedLater
<1>8. TargetEmpty'
  <2> SUFFICES ASSUME NEW q \in Process, proc'[q].at = "row"
               PROVE  proc'[q].target # None /\ ~art'[proc'[q].target].blob
    BY DEF TargetEmpty
  <2>1. CASE q = p
    BY <1>1, <1>3, <2>1
  <2>2. CASE q # p
    BY <1>2, <1>3, <1>4, <2>2 DEF TargetEmpty, KeepsTarget
  <2> QED
    BY <2>1, <2>2
<1>9. DeletedHasNoBlob'
  BY <1>3 DEF DeletedHasNoBlob
<1>10. ReadyToPublish'
  <2> SUFFICES ASSUME NEW r \in Process, proc'[r].at = "complete", StillOwner(r)'
               PROVE  /\ proc'[r].file = proc[r].file
                      /\ art'[proc[r].file].status = "active" /\ art'[proc[r].file].blob
    BY DEF ReadyToPublish, Live
  <2>1. /\ proc[r].at = "complete" /\ proc'[r].file = proc[r].file
        /\ proc'[r].token = proc[r].token /\ proc[r].at \in Writing
    BY <1>2 DEF Stays, KeepsPublishing, Writing
  <2>2. StillOwner(r)
    BY <1>1, <2>1 DEF StillOwner
  <2>3. proc[r].file # a /\ proc[r].file \in Artifact
    BY <1>1, <1>4, <2>1, <2>2, WriterUndoomed DEF HeldAlone
  <2> QED
    BY <1>3, <2>1, <2>2, <2>3 DEF ReadyToPublish, Live
<1>11. PublishedStays'
  <2> SUFFICES ASSUME exec.status = "completed" PROVE PublishedStays'
    BY <1>1 DEF PublishedStays
  <2>1. exec.file # a /\ exec.file \in Artifact
    BY <1>1, <1>4 DEF PublishedStays
  <2>2. Live(exec.file)' /\ art'[exec.file].blob
    BY <1>1, <1>3, <2>1 DEF PublishedStays, Live
  <2>3. \A q \in Process :
          ~WillDoom(q, exec.file) /\ (proc'[q].at \in Holding => proc'[q].file # exec.file)
    BY <1>2, <2>1 DEF PublishedStays, Stays
  <2> QED
    BY <1>1, <2>1, <2>2, <2>3 DEF PublishedStays, Dooms, WillDoom
<1> QED
  BY <1>5, <1>6, <1>7, <1>8, <1>9, <1>10, <1>11 DEF Parts

LEMMA DropsRowKeeps ==
  ASSUME IndInv, ArtifactInv, NEW p \in Process, DropsRow(p)
  PROVE  Parts'
<1> USE DEF ArtifactInv
<1>1. PICK a \in Artifact :
        /\ exec' = exec /\ Others(p) /\ Rests(p) /\ proc[p].at = "row" /\ a = proc[p].target
        /\ art' = [art EXCEPT ![a].status = "deleted"]
  BY DEF DropsRow
<1>2. \A q \in Process : Stays(q) /\ KeepsPublishing(q) /\ KeepsTarget(q)
  BY <1>1, OthersRest DEF IndInv, Rests
<1>3. /\ \A b \in Artifact : art'[b].blob = art[b].blob /\ (b # a => art'[b] = art[b])
      /\ art'[a].status = "deleted" /\ ~art[a].blob /\ Dooms(p, a)
  BY <1>1 DEF IndInv, ReportTypeOK, File, TargetEmpty, Dooms
<1>4. /\ exec.file \in Artifact \cup {None}
      /\ \A q \in Process : /\ proc[q].file \in Artifact \cup {None}
                            /\ proc[q].target \in Artifact \cup {None}
  BY DEF IndInv, ReportTypeOK, Row, Local
<1>s. \A b \in Artifact : art[b].status # "absent" => art'[b].status # "absent"
  BY <1>3
<1>5. Created'
  <2>1. exec'.file # None => art'[exec'.file].status # "absent"
    BY <1>1, <1>s, <1>4 DEF Created
  <2>2. \A q \in Process : proc'[q].file # None => art'[proc'[q].file].status # "absent"
    BY <1>2, <1>s, <1>4 DEF Created, Stays
  <2>3. \A q \in Process, b \in Artifact : WillDoom(q, b) => art'[b].status # "absent"
    BY <1>2, <1>s DEF Created, Stays
  <2> QED
    BY <2>1, <2>2, <2>3 DEF Created, Dooms, WillDoom
<1>6. HeldAlone'
  BY <1>2 DEF HeldAlone, Stays, Writing
<1>7. DoomedLater'
  BY <1>2, StaysDoomedLater
<1>8. TargetEmpty' /\ DeletedHasNoBlob'
  <2>1. TargetEmpty'
    BY <1>2, <1>3, <1>4 DEF TargetEmpty, KeepsTarget
  <2>2. DeletedHasNoBlob'
    BY <1>3 DEF DeletedHasNoBlob
  <2> QED
    BY <2>1, <2>2
<1>9. ReadyToPublish'
  <2> SUFFICES ASSUME NEW r \in Process, proc'[r].at = "complete", StillOwner(r)'
               PROVE  /\ proc'[r].file = proc[r].file
                      /\ art'[proc[r].file].status = "active" /\ art'[proc[r].file].blob
    BY DEF ReadyToPublish, Live
  <2>1. /\ proc[r].at = "complete" /\ proc'[r].file = proc[r].file
        /\ proc'[r].token = proc[r].token /\ proc[r].at \in Writing
    BY <1>2 DEF Stays, KeepsPublishing, Writing
  <2>2. StillOwner(r)
    BY <1>1, <2>1 DEF StillOwner
  <2>3. proc[r].file # a /\ proc[r].file \in Artifact
    BY <1>3, <1>4, <2>1, <2>2, WriterUndoomed DEF HeldAlone
  <2> QED
    BY <1>3, <2>1, <2>2, <2>3 DEF ReadyToPublish, Live
<1>10. PublishedStays'
  <2> SUFFICES ASSUME exec.status = "completed" PROVE PublishedStays'
    BY <1>1 DEF PublishedStays
  <2>1. exec.file # a /\ exec.file \in Artifact
    BY <1>3, <1>4 DEF PublishedStays
  <2>2. art'[exec.file].status = "active" /\ art'[exec.file].blob
    BY <1>3, <2>1 DEF PublishedStays, Live
  <2>3. \A q \in Process :
          ~WillDoom(q, exec.file) /\ (proc'[q].at \in Holding => proc'[q].file # exec.file)
    BY <1>2, <2>1 DEF PublishedStays, Stays
  <2> QED
    BY <1>1, <2>1, <2>2, <2>3 DEF PublishedStays, Live, Dooms, WillDoom
<1> QED
  BY <1>5, <1>6, <1>7, <1>8, <1>9, <1>10 DEF Parts

LEMMA ReservesKeeps ==
  ASSUME IndInv, ArtifactInv, NEW p \in Process, Reserves(p)
  PROVE  Parts'
<1> USE DEF ArtifactInv
<1>1. PICK a \in Artifact :
        /\ art[a].status = "absent" /\ art' = [art EXCEPT ![a].status = "active"]
        /\ exec'.status = "running" /\ exec'.started = clock /\ exec'.file = a
        /\ Others(p) /\ proc'[p].at = "store" /\ proc'[p].file = a /\ proc'[p].token = clock
  BY DEF Reserves
<1>2. \A q \in Process : q # p => proc'[q] = proc[q]
  BY <1>1 DEF Others
<1>3. /\ \A b \in Artifact : art'[b].blob = art[b].blob /\ (b # a => art'[b] = art[b])
      /\ art'[a].status = "active"
  BY <1>1 DEF IndInv, ReportTypeOK, File
<1>4. \A q \in Process : /\ proc[q].file \in Artifact \cup {None}
                         /\ proc[q].target \in Artifact \cup {None}
  BY DEF IndInv, ReportTypeOK, Local
<1>5. \A q \in Process : proc[q].file # a /\ ~Dooms(q, a)
  BY <1>1 DEF Created
<1>p. a # None /\ \A b \in Artifact : ~WillDoom(p, b)
  BY <1>1 DEF WillDoom
<1>6. Created'
  <2>1. \A b \in Artifact : art[b].status # "absent" => art'[b].status # "absent"
    BY <1>3
  <2>2. \A q \in Process : proc'[q].file # None => art'[proc'[q].file].status # "absent"
    BY <1>1, <1>2, <1>3, <1>4, <2>1 DEF Created
  <2>3. \A q \in Process, b \in Artifact : WillDoom(q, b) => art'[b].status # "absent"
    BY <1>2, <1>p, <2>1 DEF Created, Dooms, WillDoom
  <2> QED
    BY <1>1, <1>3, <2>2, <2>3 DEF Created, Dooms, WillDoom
<1>7. HeldAlone'
  <2>1. ASSUME NEW r \in Process, proc'[r].at \in Writing
        PROVE  /\ proc'[r].file # None
               /\ \A q \in Process \ {r} : proc'[q].at \in Holding => proc'[q].file # proc'[r].file
    <3>1. CASE r = p
      BY <1>1, <1>2, <1>5, <1>p, <3>1
    <3>2. CASE r # p
      BY <1>1, <1>2, <1>5, <2>1, <3>2 DEF HeldAlone
    <3> QED
      BY <3>1, <3>2
  <2> QED
    BY <2>1 DEF HeldAlone
<1>8. DoomedLater'
  <2> SUFFICES ASSUME NEW r \in Process, NEW q \in Process, proc'[r].at \in Writing,
                      WillDoom(q, proc'[r].file)
               PROVE  proc'[q].purpose = "purge" /\ proc'[r].token < proc'[q].token
    BY DEF DoomedLater, Dooms, WillDoom
  <2>1. q # p
    BY <1>1 DEF WillDoom
  <2>2. Dooms(q, proc'[r].file)
    BY <1>2, <2>1 DEF Dooms, WillDoom
  <2>3. r # p
    BY <1>1, <1>5, <2>2
  <2> QED
    BY <1>2, <2>1, <2>2, <2>3 DEF DoomedLater
<1>9. TargetEmpty' /\ DeletedHasNoBlob'
  <2>1. TargetEmpty'
    BY <1>1, <1>2, <1>3, <1>4 DEF TargetEmpty
  <2>2. DeletedHasNoBlob'
    BY <1>3 DEF DeletedHasNoBlob
  <2> QED
    BY <2>1, <2>2
<1>10. ReadyToPublish'
  <2> SUFFICES ASSUME NEW r \in Process, proc'[r].at = "complete", StillOwner(r)' PROVE FALSE
    BY DEF ReadyToPublish
  <2>1. r # p /\ proc'[r].file = a
    BY <1>1 DEF StillOwner
  <2> QED
    BY <1>2, <1>5, <2>1
<1>11. PublishedStays'
  BY <1>1 DEF PublishedStays
<1> QED
  BY <1>6, <1>7, <1>8, <1>9, <1>10, <1>11 DEF Parts

LEMMA WritesKeeps ==
  ASSUME IndInv, ArtifactInv, NEW p \in Process, Writes(p)
  PROVE  Parts'
<1> USE DEF ArtifactInv
<1>1. PICK written \in BOOLEAN :
        /\ exec' = exec /\ Others(p) /\ Stays(p) /\ KeepsTarget(p)
        /\ proc[p].at = "store" /\ MayStore(p)
        /\ art' = [art EXCEPT ![proc[p].file].blob = written]
        /\ proc'[p].at = "complete" => written
  BY DEF Writes
<1>2. \A q \in Process : Stays(q) /\ KeepsTarget(q) /\ (q # p => KeepsPublishing(q))
  BY <1>1 DEF Others, Stays, KeepsPublishing, KeepsTarget, Dooms, WillDoom
<1>3. /\ exec.file \in Artifact \cup {None}
      /\ \A q \in Process : /\ proc[q].file \in Artifact \cup {None}
                            /\ proc[q].target \in Artifact \cup {None}
  BY DEF IndInv, ReportTypeOK, Row, Local
<1>4. /\ proc[p].at \in Writing /\ StillOwner(p) /\ Live(proc[p].file)
      /\ proc[p].file # None /\ proc[p].file \in Artifact
  BY <1>1, <1>3 DEF MayStore, HeldAlone, Writing
<1>5. \A q \in Process : ~Dooms(q, proc[p].file)
  BY <1>4, WriterUndoomed
<1>6. /\ \A b \in Artifact : art'[b].status = art[b].status
                             /\ (b # proc[p].file => art'[b] = art[b])
      /\ art'[proc[p].file].blob = written
  BY <1>1, <1>4 DEF IndInv, ReportTypeOK, File
<1>7. Created'
  <2>1. exec'.file # None => art'[exec'.file].status # "absent"
    BY <1>1, <1>6, <1>3 DEF Created
  <2>2. \A q \in Process : proc'[q].file # None => art'[proc'[q].file].status # "absent"
    BY <1>2, <1>6, <1>3 DEF Created, Stays
  <2>3. \A q \in Process, b \in Artifact : WillDoom(q, b) => art'[b].status # "absent"
    BY <1>2, <1>6 DEF Created, Stays
  <2> QED
    BY <2>1, <2>2, <2>3 DEF Created, Dooms, WillDoom
<1>8. HeldAlone'
  BY <1>2 DEF HeldAlone, Stays, Writing
<1>9. DoomedLater'
  BY <1>2, StaysDoomedLater
<1>10. TargetEmpty' /\ DeletedHasNoBlob'
  <2>1. ASSUME NEW q \in Process, proc'[q].at = "row"
        PROVE  proc'[q].target # None /\ ~art'[proc'[q].target].blob
    <3>1. proc[q].at = "row" /\ proc'[q].target = proc[q].target
      BY <1>2, <2>1 DEF KeepsTarget
    <3>2. proc[q].target # proc[p].file
      BY <1>5, <3>1 DEF Dooms
    <3> QED
      BY <1>3, <1>6, <3>1, <3>2 DEF TargetEmpty
  <2>2. DeletedHasNoBlob'
    BY <1>4, <1>6 DEF DeletedHasNoBlob, Live
  <2> QED
    BY <2>1, <2>2 DEF TargetEmpty
<1>11. ReadyToPublish'
  <2> SUFFICES ASSUME NEW r \in Process, proc'[r].at = "complete", StillOwner(r)'
               PROVE  /\ proc'[r].file = proc[r].file
                      /\ art'[proc[r].file].status = "active" /\ art'[proc[r].file].blob
    BY DEF ReadyToPublish, Live
  <2>1. /\ proc[r].at \in Writing /\ proc'[r].file = proc[r].file
        /\ proc'[r].token = proc[r].token
    BY <1>2 DEF Stays, Writing
  <2>2. CASE r = p
    BY <1>1, <1>4, <1>6, <2>1, <2>2 DEF Live
  <2>3. CASE r # p
    <3>1. proc[r].at = "complete" /\ StillOwner(r)
      BY <1>1, <1>2, <2>1, <2>3 DEF KeepsPublishing, StillOwner
    <3>2. proc[r].file = proc[p].file
      BY <1>4, <3>1 DEF StillOwner
    <3> QED
      BY <1>4, <2>1, <2>3, <3>2 DEF HeldAlone, Holding
  <2> QED
    BY <2>2, <2>3
<1>12. PublishedStays'
  BY <1>1, <1>4 DEF PublishedStays, StillOwner
<1> QED
  BY <1>7, <1>8, <1>9, <1>10, <1>11, <1>12 DEF Parts

LEMMA ArtifactInvStep ==
  ASSUME IndInv, ArtifactInv, [Next]_vars
  PROVE  ArtifactInv'
<1>1. RowLatest'
  BY LeaseKinds, RowLatestStep DEF IndInv, ArtifactInv
<1>2. ArtifactStep
  BY ArtifactKinds DEF IndInv, ArtifactInv
<1>3. Parts'
  BY <1>2, UntouchedKeeps, CleansUpKeeps, ClaimsKeeps, DropsBlobsKeeps, DropsRowKeeps,
     ReservesKeeps, WritesKeeps DEF ArtifactStep
<1> QED
  BY <1>1, <1>3 DEF ArtifactInv, Parts

-----------------------------------------------------------------------------
(* The engine keeps the promise *)

\* What a step may do to the status of the execution.
StatusStep ==
  \/ exec'.status = exec.status
  \/ exec.status = "pending" /\ exec'.status = "running"
  \/ exec.status = "running" /\ exec'.status \in {"pending", "completed"}
  \/ exec.status \in {"pending", "running"} /\ exec'.status = "failed"
  \/ exec'.status = "cancelled"

LEMMA StatusSteps == ReportTypeOK /\ [Next]_vars => StatusStep
<1> SUFFICES ASSUME ReportTypeOK, [Next]_vars PROVE StatusStep
  OBVIOUS
<1>t. exec \in Row
  BY DEF ReportTypeOK
<1>0. ASSUME exec' = exec PROVE StatusStep
  BY <1>0 DEF StatusStep
<1>1. ASSUME NEW p \in Worker, Deliver(p) PROVE StatusStep
  BY <1>0, <1>1 DEF Deliver
<1>2. ASSUME NEW p \in Caller, Call(p) PROVE StatusStep
  BY <1>0, <1>2 DEF Call
<1>3. ASSUME NEW p \in Process, ClaimTaken(p) PROVE StatusStep
  BY <1>t, <1>3 DEF ClaimTaken, ClaimedRow, Claimable, StatusStep, Row
<1>4. ASSUME NEW p \in Process,
             ClaimBusy(p) \/ ClaimRefused(p) \/ DeleteBlobs(p) \/ DeleteRow(p) \/ CleanupDone(p)
             \/ Render(p) \/ Store(p) \/ Notify(p) \/ Retry(p) \/ Ack(p) \/ Disturb(p)
      PROVE  StatusStep
  BY <1>0, <1>4
  DEF ClaimBusy, ClaimRefused, DeleteBlobs, DeleteRow, CleanupDone, Render, Store, Notify,
      Retry, Ack, Disturb, CleanupFault, StoreFault, RunFault, UnretriedFault, Crash
<1>5. ASSUME NEW p \in Process, Detach(p) PROVE StatusStep
  BY <1>t, <1>5 DEF Detach, StatusStep, Row
<1>6. ASSUME NEW p \in Process, Reserve(p) PROVE StatusStep
  <2>1. exec'.status = exec.status
    BY <1>t, <1>6 DEF Reserve, Row
  <2> QED
    BY <2>1 DEF StatusStep
<1>7. ASSUME NEW p \in Process, Complete(p) PROVE StatusStep
  BY <1>t, <1>7 DEF Complete, StillOwner, StatusStep, Row
<1>8. ASSUME NEW p \in Process, Release(p) \/ Reset(p) PROVE StatusStep
  BY <1>t, <1>8 DEF Release, Reset, ReleasedRow, StillOwner, StatusStep, Row
<1>9. ASSUME NEW p \in Process, Fail(p) PROVE StatusStep
  BY <1>t, <1>9 DEF Fail, StillOwner, StatusStep, Row
<1>10. ASSUME NEW p \in Process, Exhaust(p) PROVE StatusStep
  BY <1>t, <1>10 DEF Exhaust, StatusStep, Row
<1>11. ASSUME NEW u \in User, CancelRead(u) \/ CancelWrite(u) PROVE StatusStep
  BY <1>t, <1>11 DEF CancelRead, CancelWrite, StatusStep, Row
<1>12. CASE Revoke \/ Tick \/ UNCHANGED vars
  BY <1>0, <1>12 DEF Revoke, Tick, vars
<1> QED
  BY <1>1, <1>2, <1>3, <1>4, <1>5, <1>6, <1>7, <1>8, <1>9, <1>10, <1>11, <1>12 DEF Next, Work

\* The file the promise speaks of is the linked one exactly while the report is completed.
LEMMA Readable ==
  ASSUME ReportTypeOK, PublishedStays
  PROVE  IF exec.status = "completed"
         THEN ReadableFile = exec.file /\ exec.file \in Artifact
         ELSE ReadableFile = None
  BY DEF PublishedStays, ReadableFile, ReportTypeOK, Row

LEMMA PromiseStep ==
  ASSUME IndInv, ArtifactInv, [Next]_vars
  PROVE  [Promise!Next]_<<exec.status, ReadableFile>>
<1>1. ReportTypeOK /\ ReportTypeOK' /\ PublishedStays /\ PublishedStays'
  BY TypeStep, ArtifactInvStep DEF IndInv, ArtifactInv
<1>2. IF exec.status = "completed"
      THEN ReadableFile = exec.file /\ exec.file \in Artifact
      ELSE ReadableFile = None
  BY <1>1, Readable
<1>3. IF exec'.status = "completed"
      THEN ReadableFile' = exec'.file /\ exec'.file \in Artifact
      ELSE ReadableFile' = None
  BY <1>1 DEF PublishedStays, ReadableFile, ReportTypeOK, Row, Live
<1>4. StatusStep
  BY <1>1, StatusSteps
<1>5. exec.status = "completed" /\ exec'.status = "completed" => exec'.file = exec.file
  <2> SUFFICES ASSUME exec.status = "completed", exec'.status = "completed"
               PROVE  exec'.file = exec.file
    OBVIOUS
  <2>1. ArtifactStep /\ Live(exec.file)
    BY ArtifactKinds DEF IndInv, ArtifactInv, PublishedStays
  <2>2. CASE Untouched
    BY <2>1, <2>2 DEF Untouched, RowRests, Live
  <2>3. ASSUME NEW p \in Process,
               \/ CleansUp(p) \/ Claims(p) \/ DropsBlobs(p) \/ DropsRow(p) \/ Reserves(p)
               \/ Writes(p)
        PROVE  exec'.file = exec.file
    BY <2>3 DEF CleansUp, Claims, DropsBlobs, DropsRow, Reserves, Writes
  <2> QED
    BY <2>1, <2>2, <2>3 DEF ArtifactStep
<1>6. CASE exec'.status = exec.status
  BY <1>2, <1>3, <1>5, <1>6
<1>7. CASE exec'.status # exec.status
  BY <1>2, <1>3, <1>4, <1>7
  DEF StatusStep, Promise!Next, Promise!Start, Promise!PutBack, Promise!Publish,
      Promise!GiveUp, Promise!Withdraw
<1> QED
  BY <1>6, <1>7

-----------------------------------------------------------------------------
(* The theorems *)

LEMMA Invariance == Spec => []IndInv
<1>1. IndInv /\ [Next]_vars => IndInv'
  BY TypeStep, RenderStep, LinkedStep, OwnerInvStep DEF IndInv
<1> QED
  BY InitInd, <1>1, PTL DEF Spec

\* Row, artifacts and processes keep their types, and every message its bounds: no
\* interleaving of processes publishes more than MaxRetries retries of a message.
THEOREM TypeCorrect == Spec => []ReportTypeOK
  BY Invariance, PTL DEF IndInv

\* An artifact that is not deleted is linked to the execution, whatever dies, fails or
\* runs in parallel: claim and exhaustion find every artifact there is.
THEOREM ArtifactsLinked == Spec => []LiveArtifactLinked
  BY Invariance, PTL DEF IndInv

\* The lease and its token admit one owner at a time, for any lease of at least one
\* tick and although the clock may stand still between any two steps.
THEOREM SingleOwner == Spec => []OneOwner
  BY Invariance, PTL DEF IndInv

LEMMA ArtifactInvariance == Spec => []ArtifactInv
<1>1. IndInv /\ ArtifactInv /\ [Next]_vars => ArtifactInv'
  BY ArtifactInvStep
<1> QED
  BY InitArtifact, <1>1, Invariance, PTL DEF Spec

\* No process that lost its lease writes a report into an artifact that is deleted, and
\* none is deleted that has bytes: what the timestamp shuts out, the cleanup may remove.
THEOREM DeletionFinal == Spec => []DeletedHasNoBlob
<1>1. ArtifactInv => DeletedHasNoBlob
  BY DEF ArtifactInv
<1> QED
  BY <1>1, ArtifactInvariance, PTL

\* The engine implements its promise: a report is completed once, with a readable file,
\* and the file stays until the execution is withdrawn.
THEOREM PromiseHolds == Spec => PromiseKept
<1>1. Init => Promise!Init
  BY DEF Init, Promise!Init, ReadableFile
<1>2. IndInv /\ ArtifactInv /\ [Next]_vars => [Promise!Next]_<<exec.status, ReadableFile>>
  BY PromiseStep
<1> QED
  BY <1>1, <1>2, Invariance, ArtifactInvariance, PTL DEF Spec, PromiseKept, Promise!Spec
=============================================================================
