----------------------------- MODULE SecureFile -----------------------------
(***************************************************************************)
(* Protected files and the secure links to them (files/models.py).  A file *)
(* is replaced by a newer one, expires or is deleted, and a link to it can *)
(* be used until it is used up, revoked or over.  Every request first      *)
(* reads a row (get_object); the replacement of a file and the use of a    *)
(* link lock the rows and decide by them, everything else decides by the   *)
(* row as read and writes without a lock.  replace, delete_secure, expire  *)
(* and revoke save the fields they change; a PUT or PATCH of a file saves  *)
(* every column as it was read.                                            *)
(* Abstracted: contents, encryption, storage, permissions, the audit trail *)
(* and the supersedes field, which users may set freely.  The validity of  *)
(* a file only refuses.  Left out: the forms of the Django admin.          *)
(***************************************************************************)
EXTENDS Naturals

CONSTANTS File, Link,   \* bounds: the rows that can be created
          Request,      \* requests that may run at the same time
          MaxUses       \* SecureFileLink.max_uses

ASSUME FilesAssumption ==
  /\ MaxUses \in Nat \ {0}
  /\ "none" \notin File \cup Link

VARIABLES file,     \* ProtectedFile rows: status, replaced_by
          link,     \* SecureFileLink rows
          copy,     \* the row of a file a request has read
          seen,     \* the row of a link a request has read
          served,   \* uses granted on each link
          resaved   \* files an edit has set back to an older row

vars == <<file, link, copy, seen, served, resaved>>

Ended == {"superseded", "expired", "deleted"}
FileRow == [status : Ended \cup {"absent", "active"}, next : File \cup {"none"}]
LinkRow == [file : File \cup {"none"}, uses : Nat, revoked : BOOLEAN, over : BOOLEAN]

NoFile == [status |-> "absent", next |-> "none"]
NewFile == [status |-> "active", next |-> "none"]
NoLink == [file |-> "none", uses |-> 0, revoked |-> FALSE, over |-> FALSE]
NoCopy == [file |-> "none", row |-> NoFile]
NothingSeen == [link |-> "none", row |-> NoLink]

CopyRow == [file : File \cup {"none"}, row : FileRow]
SeenRow == [link : Link \cup {"none"}, row : LinkRow]

FilesTypeOK ==
  /\ file \in [File -> FileRow]
  /\ link \in [Link -> LinkRow]
  /\ copy \in [Request -> CopyRow]
  /\ seen \in [Request -> SeenRow]
  /\ served \in [Link -> Nat]
  /\ resaved \subseteq File

Init ==
  /\ file = [f \in File |-> NoFile]
  /\ link = [l \in Link |-> NoLink]
  /\ copy = [r \in Request |-> NoCopy]
  /\ seen = [r \in Request |-> NothingSeen]
  /\ served = [l \in Link |-> 0]
  /\ resaved = {}

-----------------------------------------------------------------------------
(* Files *)

Create(f) ==
  /\ file[f].status = "absent"
  /\ file' = [file EXCEPT ![f] = NewFile]
  /\ UNCHANGED <<link, copy, seen, served, resaved>>

\* A request is about one file or one link.
Fresh(r) == copy[r].file = "none" /\ seen[r].link = "none"

ReadFile(r, f) ==
  /\ Fresh(r)
  /\ file[f].status # "absent"
  /\ copy' = [copy EXCEPT ![r] = [file |-> f, row |-> file[f]]]
  /\ UNCHANGED <<file, link, seen, served, resaved>>

\* The request is about the file, and ends.
On(r, f) == copy[r].file = f /\ copy' = [copy EXCEPT ![r] = NoCopy]

\* The request is refused or leads to nothing.
DropFile(r) == \E f \in File :
  /\ On(r, f)
  /\ UNCHANGED <<file, link, seen, served, resaved>>

Replaceable_Copy(r, f) == copy[r].row = NewFile
\* replace asks the row it has locked.
Replaceable(r, f) == file[f] = NewFile

Replace(r) == \E f, g \in File :
  /\ On(r, f)
  /\ Replaceable(r, f)
  /\ file[g].status = "absent"
  /\ file' = [file EXCEPT ![f] = [status |-> "superseded", next |-> g], ![g] = NewFile]
  /\ UNCHANGED <<link, seen, served, resaved>>

\* delete_secure and expire ask the row as it was read, and write the status alone.
End(r, status) == \E f \in File :
  /\ On(r, f)
  /\ copy[r].row.status # "deleted"
  /\ file' = [file EXCEPT ![f].status = status]
  /\ UNCHANGED <<link, seen, served, resaved>>

\* A PUT or PATCH brings back whatever status the row had when it was read.
EditFile(r) == \E f \in File :
  /\ On(r, f)
  /\ file' = [file EXCEPT ![f] = copy[r].row]
  /\ resaved' = IF file'[f] = file[f] THEN resaved ELSE resaved \cup {f}
  /\ UNCHANGED <<link, seen, served>>

-----------------------------------------------------------------------------
(* Links *)

\* generate_secure_link: the file was available when it was read.
GenerateLink(r) == \E f \in File, l \in Link :
  /\ On(r, f)
  /\ copy[r].row.status = "active"
  /\ link[l].file = "none"
  /\ link' = [link EXCEPT ![l] = [NoLink EXCEPT !.file = f]]
  /\ UNCHANGED <<file, seen, served, resaved>>

ReadLink(r, l) ==
  /\ Fresh(r)
  /\ link[l].file # "none"
  /\ seen' = [seen EXCEPT ![r] = [link |-> l, row |-> link[l]]]
  /\ UNCHANGED <<file, link, copy, served, resaved>>

At(r, l) == seen[r].link = l /\ seen' = [seen EXCEPT ![r] = NothingSeen]

DropLink(r) == \E l \in Link :
  /\ At(r, l)
  /\ UNCHANGED <<file, link, copy, served, resaved>>

\* is_valid, of a row
IsValid(row) == ~row.revoked /\ ~row.over /\ row.uses < MaxUses

Judged_Copy(r, l) == seen[r].row
\* _denial_for_use asks the link it has locked, together with its file.
Judged(r, l) == link[l]

Counted_Copy(r, l) == seen[r].row.uses + 1
Counted(r, l) == link[l].uses + 1

Use(r) == \E l \in Link :
  /\ At(r, l)
  /\ IsValid(Judged(r, l))
  /\ file[link[l].file].status = "active"
  /\ link' = [link EXCEPT ![l].uses = Counted(r, l)]
  /\ served' = [served EXCEPT ![l] = @ + 1]
  /\ UNCHANGED <<file, copy, resaved>>

\* revoke asks the row as read; clean refuses a link that is over and was not used.
Revoke(r) == \E l \in Link :
  /\ At(r, l)
  /\ ~seen[r].row.revoked
  /\ link[l].over => seen[r].row.uses > 0
  /\ link' = [link EXCEPT ![l].revoked = TRUE]
  /\ UNCHANGED <<file, copy, served, resaved>>

\* expires_at passes.
Lapse(l) ==
  /\ link[l].file # "none" /\ ~link[l].over
  /\ link' = [link EXCEPT ![l].over = TRUE]
  /\ UNCHANGED <<file, copy, seen, served, resaved>>

-----------------------------------------------------------------------------
Handle(r) ==
  \/ Replace(r) \/ End(r, "deleted") \/ End(r, "expired") \/ EditFile(r) \/ DropFile(r)
  \/ GenerateLink(r) \/ Use(r) \/ Revoke(r) \/ DropLink(r)

Next ==
  \/ \E f \in File : Create(f)
  \/ \E l \in Link : Lapse(l)
  \/ \E r \in Request : \/ Handle(r)
                        \/ \E f \in File : ReadFile(r, f)
                        \/ \E l \in Link : ReadLink(r, l)

Spec == Init /\ [][Next]_vars

-----------------------------------------------------------------------------
(* Properties *)

\* However many requests use a link at once, none is lost from its count and it is
\* served no more often than it may be (use, _consume).
UsesCounted == \A l \in Link : served[l] = link[l].uses /\ served[l] <= MaxUses

\* A link that was revoked, used up or over serves nobody again, although requests
\* that read it before are still under way and revoke decides by such a copy (use,
\* revoke).
StaysDead(l) == ~IsValid(link[l]) => ~IsValid(link'[l]) /\ served'[l] = served[l]
DeadLinksStayDead == [][\A l \in Link : link[l].file # "none" => StaysDead(l)]_vars

\* What holders of links see is the promise of LinkPromise, step by step: a use decides
\* and counts in one step although every request has read its link before, and nothing
\* that requests do late brings a link back (generate_secure_link, use, revoke).
PhaseOf(row) ==
  IF row.file = "none" THEN "absent" ELSE IF IsValid(row) THEN "live" ELSE "dead"
Promise == INSTANCE LinkPromise WITH phase <- [l \in Link |-> PhaseOf(link[l])],
                                     given <- served
LinkPromiseKept == Promise!Spec

\* A file that was superseded, expired or deleted never becomes current again and
\* has at most the successor it had, unless an edit saved an older row over it
\* (replace, delete_secure, expire).
StaysEnded(f) ==
  file[f].status \in Ended => file'[f].status \in Ended /\ file'[f].next = file[f].next
EndedFilesStay == [][\A f \in File : f \notin resaved' => StaysEnded(f)]_vars
=============================================================================
