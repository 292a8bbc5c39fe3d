------------------------------ MODULE KycReview ------------------------------
(***************************************************************************)
(* One member's KYC application (src/src/kyc/service.ts): the member's     *)
(* draft, photos and automatic checks, its submission, and the claiming,   *)
(* releasing and deciding of it by several reviewers.                      *)
(*                                                                         *)
(* Drafts, submissions and what reviewers do lock the application's row    *)
(* and are one step.  An upload, a reading of the ID and a face check are  *)
(* not: they look at the application without its lock, then store a file   *)
(* or wait for a paid service, and only then take the lock.  Each of them  *)
(* is a call, which starts and finishes, or fails in between: refused, or  *)
(* lost with the server.                                                   *)
(*                                                                         *)
(* A photo is the number of its upload.  The form is one value, PERSONAL_INFO *)
(* standing for every part of it; supporting documents, the identity the   *)
(* declared data is compared with, duplicate ID numbers and the hourly     *)
(* limits are left out: they only refuse what is allowed here.             *)
(***************************************************************************)
EXTENDS Integers, Sequences

CONSTANTS
    Reviewer, NoOne,     \* staff who may review, none of them the member
    Key, NoKey,          \* idempotency keys of decisions
    Call,                \* requests of the member's devices in flight
    Form,                \* what the member may have filled in
    Required,            \* the photos this application needs
    Requests,            \* the sets of parts reviewers ask to have changed
    MaxUploads, MaxVersions   \* bounds: photos of a kind, submissions

Kind    == {"ID_FRONT", "ID_BACK", "SELFIE"}
Section == {"PERSONAL_INFO", "ID_UPLOAD", "FACE_MATCH"}

ASSUME KycAssumption ==
    /\ NoOne \notin Reviewer /\ NoKey \notin Key
    /\ Required \subseteq Kind /\ {"ID_FRONT", "SELFIE"} \subseteq Required
    /\ Requests \subseteq (SUBSET Section) \ {{}}
    /\ MaxUploads \in [Kind -> Nat] /\ MaxVersions \in Nat
    /\ Form # {}

VARIABLES
    status, claimedBy, version, requested, mayResubmit, lastKey,  \* kyc_submissions
    form, consent,       \* the draft, with the consent to biometric processing
    doc,                 \* the current photo of each kind, 0 for none
    ocr, face,           \* the results of the ID reading and of the face check
    sealed,              \* kyc_submission_snapshots
    verdict,             \* the decision on each of them (the audit log) ...
    compared,            \* ... and those where the reviewer compared the photos
    member,              \* borrowers.member_status
    call

review == <<status, claimedBy, version, requested, mayResubmit, lastKey>>
draft  == <<form, consent>>
checks == <<ocr, face>>
log    == <<sealed, verdict, compared, member>>
vars   == <<review, draft, doc, checks, log, call>>

NoScan  == [done |-> FALSE, front |-> 0, back |-> 0]
NoCheck == [done |-> FALSE, front |-> 0, selfie |-> 0, match |-> FALSE]
Idle    == [op |-> "NONE", kind |-> "ID_FRONT", front |-> 0, other |-> 0]

Packet(f) == [form |-> f, doc |-> doc, ocr |-> ocr, face |-> face]

Init ==
    /\ status = "NOT_STARTED" /\ claimedBy = NoOne /\ version = 0
    /\ requested = {} /\ mayResubmit = TRUE /\ lastKey = NoKey
    /\ form \in Form /\ consent = FALSE
    /\ doc = [k \in Kind |-> 0]
    /\ ocr = NoScan /\ face = NoCheck
    /\ sealed = <<>> /\ verdict = <<>> /\ compared = {} /\ member = "Pending"
    /\ call = [c \in Call |-> Idle]

-----------------------------------------------------------------------------
\* What may be changed

\* Mistaken: until a reviewer takes it.
EditableUntilClaimed ==
    status \in {"NOT_STARTED", "IN_PROGRESS", "CORRECTION_REQUIRED", "REJECTED", "SUBMITTED"}

\* isEditableByClient
Editable == status \in {"NOT_STARTED", "IN_PROGRESS", "CORRECTION_REQUIRED", "REJECTED"}

SectionOf(k) == IF k = "SELFIE" THEN "FACE_MATCH" ELSE "ID_UPLOAD"

\* sectionOpen: while changes are requested, the parts requested; a new ID
\* photo takes the face check with it.
SectionOpen(s) ==
    \/ status # "CORRECTION_REQUIRED"
    \/ s \in requested
    \/ s = "FACE_MATCH" /\ "ID_UPLOAD" \in requested

MayBegin == Editable /\ (status = "REJECTED" => mayResubmit)
BeginEditing ==
    /\ MayBegin
    /\ status' = IF status = "CORRECTION_REQUIRED" THEN status ELSE "IN_PROGRESS"
    /\ UNCHANGED <<claimedBy, version, requested, mayResubmit, lastKey>>

DraftInScope(f) == f # form => SectionOpen("PERSONAL_INFO")

SaveDraft(f, agreed) ==
    /\ BeginEditing
    /\ DraftInScope(f)
    /\ form' = f /\ consent' = agreed
    /\ UNCHANGED <<doc, checks, log, call>>

-----------------------------------------------------------------------------
\* Photos and automatic checks: the first half reads without the lock, the
\* second has it.

Starts(c, request) ==
    /\ call[c] = Idle
    /\ call' = [call EXCEPT ![c] = request]
    /\ UNCHANGED <<review, draft, doc, checks, log>>
Ends(c) == call' = [call EXCEPT ![c] = Idle]

StartUpload(c, k) ==
    /\ Editable /\ SectionOpen(SectionOf(k))
    /\ Starts(c, [op |-> "UPLOAD", kind |-> k, front |-> 0, other |-> 0])

\* The new photo replaces the current one, and the checks made against it
\* are gone.  The part it belongs to is not looked at again.
FinishUpload(c) ==
    LET k == call[c].kind IN
    /\ call[c].op = "UPLOAD" /\ doc[k] < MaxUploads[k]
    /\ BeginEditing
    /\ doc' = [doc EXCEPT ![k] = @ + 1]
    /\ face' = NoCheck
    /\ ocr' = IF k = "SELFIE" THEN ocr ELSE NoScan
    /\ Ends(c)
    /\ UNCHANGED <<draft, log>>

StartScan(c) ==
    /\ SectionOpen("ID_UPLOAD") /\ doc["ID_FRONT"] # 0
    /\ Starts(c, [op |-> "SCAN", kind |-> "ID_FRONT", front |-> doc["ID_FRONT"], other |-> doc["ID_BACK"]])

\* Only the front is compared with what is current now.
StillScanned(c) == doc["ID_FRONT"] = call[c].front

FinishScan(c) ==
    /\ call[c].op = "SCAN" /\ StillScanned(c)
    /\ BeginEditing
    /\ ocr' = [done |-> TRUE, front |-> call[c].front, back |-> call[c].other]
    /\ Ends(c)
    /\ UNCHANGED <<draft, doc, face, log>>

StartCheck(c) ==
    /\ consent /\ SectionOpen("FACE_MATCH")
    /\ doc["ID_FRONT"] # 0 /\ doc["SELFIE"] # 0
    /\ Starts(c, [op |-> "CHECK", kind |-> "SELFIE", front |-> doc["ID_FRONT"], other |-> doc["SELFIE"]])

\* Mistaken: only the selfie is compared.
SelfieIsSame(c) == doc["SELFIE"] = call[c].other

StillCompared(c) == doc["ID_FRONT"] = call[c].front /\ doc["SELFIE"] = call[c].other

\* match: a MATCH of a trusted service (faceCheckIsVerification)
FinishCheck(c, match) ==
    /\ call[c].op = "CHECK" /\ StillCompared(c)
    /\ BeginEditing
    /\ face' = [done |-> TRUE, front |-> call[c].front, selfie |-> call[c].other, match |-> match]
    /\ Ends(c)
    /\ UNCHANGED <<draft, doc, ocr, log>>

Fails(c) == call[c] # Idle /\ Ends(c) /\ UNCHANGED <<review, draft, doc, checks, log>>

-----------------------------------------------------------------------------
\* Submission

Complete ==
    /\ \A k \in Required : doc[k] # 0
    /\ face.done /\ face.front = doc["ID_FRONT"] /\ face.selfie = doc["SELFIE"]
    /\ ocr.done

\* submitApplication, with what the last page of the form sends along
Submit(f) ==
    /\ version < MaxVersions
    /\ MayBegin /\ DraftInScope(f) /\ Complete
    /\ form' = f /\ consent' = TRUE
    /\ status' = "SUBMITTED" /\ claimedBy' = NoOne /\ requested' = {}
    /\ version' = version + 1
    /\ sealed' = Append(sealed, Packet(f))
    /\ verdict' = Append(verdict, "PENDING")
    /\ UNCHANGED <<mayResubmit, lastKey, doc, checks, compared, member, call>>

-----------------------------------------------------------------------------
\* Reviewers

Claim(r) ==
    /\ status = "SUBMITTED"
    /\ status' = "UNDER_REVIEW" /\ claimedBy' = r
    /\ UNCHANGED <<version, requested, mayResubmit, lastKey, draft, doc, checks, log, call>>

Release(r) ==
    /\ status = "UNDER_REVIEW" /\ claimedBy = r
    /\ status' = "SUBMITTED" /\ claimedBy' = NoOne
    /\ UNCHANGED <<version, requested, mayResubmit, lastKey, draft, doc, checks, log, call>>

\* What every decision needs and records.  One on an application nobody has
\* claimed claims it; the key of the latest decision is a repeat of it.
Decides(r, key, outcome) ==
    /\ key = NoKey \/ key # lastKey
    /\ status = "SUBMITTED" \/ (status = "UNDER_REVIEW" /\ claimedBy = r)
    /\ claimedBy' = r /\ lastKey' = key
    /\ verdict' = [verdict EXCEPT ![version] = outcome]
    /\ UNCHANGED <<version, draft, doc, checks, sealed, call>>

\* Mistaken: any face check will do.
AnyCheckAllows(own) == face.done \/ own

FaceAllows(own) == face.match \/ own

\* own: the reviewer confirms having compared the photos.  The member becomes
\* active, with a regular savings account if there is none
\* (SavingsAccount, OpenRegularAccount).
Approve(r, key, own) ==
    /\ FaceAllows(own)
    /\ Decides(r, key, "APPROVED")
    /\ status' = "APPROVED" /\ member' = "Active"
    /\ compared' = IF own THEN compared \cup {version} ELSE compared
    /\ UNCHANGED <<requested, mayResubmit>>

Reject(r, key, again) ==
    /\ Decides(r, key, IF again THEN "REJECTED" ELSE "REFUSED")
    /\ status' = "REJECTED" /\ mayResubmit' = again
    /\ UNCHANGED <<requested, compared, member>>

RequestResubmission(r, key, sections) ==
    /\ Decides(r, key, "RETURNED")
    /\ status' = "CORRECTION_REQUIRED" /\ requested' = sections
    /\ UNCHANGED <<mayResubmit, compared, member>>

-----------------------------------------------------------------------------
MemberActs ==
    \/ \E f \in Form, agreed \in BOOLEAN : SaveDraft(f, agreed)
    \/ \E f \in Form : Submit(f)
    \/ \E c \in Call :
          \/ \E k \in Kind : StartUpload(c, k)
          \/ FinishUpload(c)
          \/ StartScan(c) \/ FinishScan(c)
          \/ StartCheck(c)
          \/ \E match \in BOOLEAN : FinishCheck(c, match)
          \/ Fails(c)

ReviewerActs ==
    \E r \in Reviewer :
        \/ Claim(r) \/ Release(r)
        \/ \E key \in Key \cup {NoKey} :
              \/ \E own \in BOOLEAN : Approve(r, key, own)
              \/ \E again \in BOOLEAN : Reject(r, key, again)
              \/ \E sections \in Requests : RequestResubmission(r, key, sections)

Next == MemberActs \/ ReviewerActs

Spec == Init /\ [][Next]_vars

-----------------------------------------------------------------------------
\* Properties

Photo   == Nat
Scans   == [done : BOOLEAN, front : Photo, back : Photo]
FaceChecks == [done : BOOLEAN, front : Photo, selfie : Photo, match : BOOLEAN]
Outcome == {"PENDING", "APPROVED", "REJECTED", "REFUSED", "RETURNED"}
Statuses == {"NOT_STARTED", "IN_PROGRESS", "SUBMITTED", "UNDER_REVIEW", "CORRECTION_REQUIRED",
             "APPROVED", "REJECTED"}

\* The type invariant: the shapes of the row, of the photos and of the calls,
\* and that an application is claimed exactly while it is reviewed and by who
\* decided it, and returned with the parts to change (kyc_submissions_guard).
TypeOK ==
    /\ status \in Statuses
    /\ claimedBy \in Reviewer \cup {NoOne}
    /\ version \in 0..MaxVersions
    /\ requested \in SUBSET Section /\ mayResubmit \in BOOLEAN
    /\ lastKey \in Key \cup {NoKey}
    /\ form \in Form /\ consent \in BOOLEAN
    /\ doc \in [Kind -> Photo]
    /\ ocr \in Scans /\ face \in FaceChecks
    /\ sealed \in Seq([form : Form, doc : [Kind -> Photo], ocr : Scans, face : FaceChecks])
    /\ verdict \in Seq(Outcome) /\ compared \subseteq 1..version
    /\ Len(sealed) = version /\ Len(verdict) = version
    /\ member \in {"Pending", "Active"}
    /\ call \in [Call -> [op : {"NONE", "UPLOAD", "SCAN", "CHECK"}, kind : Kind, front : Photo, other : Photo]]
    /\ status = "SUBMITTED" => claimedBy = NoOne
    /\ status = "UNDER_REVIEW" => claimedBy # NoOne
    /\ status = "CORRECTION_REQUIRED" => requested # {}

\* A face check is of the current front of the ID and the current selfie, and
\* a reading of the ID of its current front, whatever is uploaded while the
\* services are at work (uploadDocument, runIdScan, runFaceCheck).
ChecksAreCurrent ==
    /\ face.done => face.front = doc["ID_FRONT"] /\ face.selfie = doc["SELFIE"]
    /\ ocr.done => ocr.front = doc["ID_FRONT"]

\* What was approved was submitted with a face check of the very photos
\* submitted, which a trusted service matched or the reviewer compared; and
\* the member is active exactly then (decideApplication).
ApprovalIsGrounded ==
    /\ \A v \in 1..version : verdict[v] = "APPROVED" =>
          LET p == sealed[v] IN
          /\ p.face.done /\ p.face.front = p.doc["ID_FRONT"] /\ p.face.selfie = p.doc["SELFIE"]
          /\ p.face.match \/ v \in compared
          /\ \A k \in Required : p.doc[k] # 0
    /\ member = "Active" <=> \E v \in 1..version : verdict[v] = "APPROVED"

VerdictOf(s) ==
    CASE s = "IN_PROGRESS" -> "REJECTED"
      [] s \in {"SUBMITTED", "UNDER_REVIEW"} -> "PENDING"
      [] s = "CORRECTION_REQUIRED" -> "RETURNED"
      [] s = "APPROVED" -> "APPROVED"
      [] s = "REJECTED" -> IF mayResubmit THEN "REJECTED" ELSE "REFUSED"
      [] OTHER -> "NONE"

\* What the proofs need beside: the status tells what was decided on the
\* latest version, which is the application as it stands while it is reviewed;
\* earlier versions were all sent back.
StatusTells ==
    /\ status = "NOT_STARTED" => version = 0
    /\ version = 0 => status \in {"NOT_STARTED", "IN_PROGRESS"}
    /\ version > 0 => verdict[version] = VerdictOf(status)
    /\ \A v \in 1..version : v < version => verdict[v] \in {"REJECTED", "RETURNED"}
    /\ status \in {"SUBMITTED", "UNDER_REVIEW", "APPROVED"} => sealed[version] = Packet(form)
    /\ member = "Active" <=> status = "APPROVED"

SealedComplete ==
    \A v \in 1..version :
        LET p == sealed[v] IN
        /\ p.face.done /\ p.face.front = p.doc["ID_FRONT"] /\ p.face.selfie = p.doc["SELFIE"]
        /\ \A k \in Required : p.doc[k] # 0

IndInv == TypeOK /\ ChecksAreCurrent /\ ApprovalIsGrounded /\ StatusTells /\ SealedComplete

\* The review keeps its promise: what is decided is what was submitted, once,
\* and an approved or refused application is not changed again by any call
\* that was in flight (kyc_submissions_guard, beginEditing).
File == INSTANCE ReviewedFile WITH content <- Packet(form)
ImplementsFile == File!Spec
===============================================================================
