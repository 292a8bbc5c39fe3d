--------------------------- MODULE KycReview_proofs ----------------------------
(***************************************************************************)
(* Proofs about KycReview, for any number of reviewers, keys, requests in  *)
(* flight, photos and submissions: IndInv is inductive, the safety         *)
(* properties follow from it, and every step is one of ReviewedFile or     *)
(* leaves it as it was.                                                    *)
(***************************************************************************)
EXTENDS KycReview, TLAPS

Sealed == [form : Form, doc : [Kind -> Photo], ocr : Scans, face : FaceChecks]
Calls  == [op : {"NONE", "UPLOAD", "SCAN", "CHECK"}, kind : Kind, front : Photo, other : Photo]

LEMMA InitInv == Init => IndInv
<1> SUFFICES ASSUME Init PROVE IndInv
  OBVIOUS
<1>1. TypeOK
  <2>1. NoScan \in Scans /\ NoCheck \in FaceChecks /\ Idle \in Calls
    BY DEF NoScan, NoCheck, Idle, Scans, FaceChecks, Calls, Photo, Kind
  <2>2. version \in 0..MaxVersions /\ doc \in [Kind -> Photo] /\ call \in [Call -> Calls]
    BY <2>1, KycAssumption DEF Init, Photo
  <2>3. sealed \in Seq(Sealed) /\ verdict \in Seq(Outcome) /\ Len(sealed) = version /\ Len(verdict) = version
    BY DEF Init
  <2>4. status \in Statuses /\ member \in {"Pending", "Active"} /\ compared \subseteq 1..version
    BY DEF Init, Statuses
  <2> QED
    BY <2>1, <2>2, <2>3, <2>4 DEF Init, TypeOK, Calls, Sealed
<1> QED
  BY <1>1 DEF Init, IndInv, ChecksAreCurrent, ApprovalIsGrounded, StatusTells, SealedComplete,
     NoScan, NoCheck

\* What editing leaves behind: the versions sealed, and a status that still
\* tells what was decided on the latest.
LEMMA EditKeeps ==
    ASSUME IndInv, BeginEditing, UNCHANGED log,
           form' \in Form, consent' \in BOOLEAN, doc' \in [Kind -> Photo],
           ocr' \in Scans, face' \in FaceChecks, call' \in [Call -> Calls],
           ChecksAreCurrent'
    PROVE  IndInv'
<1>1. TypeOK'
  BY DEF IndInv, TypeOK, BeginEditing, log, Statuses, Calls
<1>2. version' = version /\ sealed' = sealed /\ verdict' = verdict /\ compared' = compared /\ member' = member
  BY DEF BeginEditing, log
<1>3. ApprovalIsGrounded' /\ SealedComplete'
  BY <1>2 DEF IndInv, ApprovalIsGrounded, SealedComplete
<1>4. StatusTells'
  BY <1>2 DEF IndInv, TypeOK, Statuses, StatusTells, BeginEditing, MayBegin, Editable, VerdictOf
<1> QED
  BY <1>1, <1>3, <1>4 DEF IndInv

\* Nothing but the calls in flight changes.
LEMMA CallKeeps ==
    ASSUME IndInv, UNCHANGED <<review, draft, doc, checks, log>>, call' \in [Call -> Calls]
    PROVE  IndInv'
<1>1. UNCHANGED <<status, claimedBy, version, requested, mayResubmit, lastKey, form, consent, doc,
                  ocr, face, sealed, verdict, compared, member>>
  BY DEF review, draft, checks, log
<1>2. TypeOK'
  BY <1>1 DEF IndInv, TypeOK, Calls
<1> QED
  BY <1>1, <1>2 DEF IndInv, ChecksAreCurrent, ApprovalIsGrounded, StatusTells, SealedComplete,
     Packet, VerdictOf

LEMMA EndKeepsCalls ==
    ASSUME IndInv, NEW c \in Call, Ends(c)
    PROVE  call' \in [Call -> Calls]
  BY DEF IndInv, TypeOK, Ends, Idle, Calls, Photo, Kind

LEMMA StartKeeps ==
    ASSUME IndInv, NEW c \in Call, NEW request \in Calls, Starts(c, request)
    PROVE  IndInv'
<1>1. call' \in [Call -> Calls]
  BY DEF IndInv, TypeOK, Starts, Calls
<1> QED
  BY <1>1, CallKeeps DEF Starts

LEMMA UploadKeeps ==
    ASSUME IndInv, NEW c \in Call, FinishUpload(c)
    PROVE  IndInv'
<1>1. PICK k \in Kind : k = call[c].kind
  BY DEF IndInv, TypeOK
<1>2. doc' \in [Kind -> Photo] /\ \A j \in Kind : j # k => doc'[j] = doc[j]
  BY <1>1 DEF FinishUpload, IndInv, TypeOK, Photo
<1>3. face' \in FaceChecks /\ ocr' \in Scans /\ ~face'.done /\ (ocr'.done => ocr' = ocr /\ k = "SELFIE")
  BY <1>1 DEF FinishUpload, IndInv, TypeOK, NoCheck, NoScan, FaceChecks, Scans, Photo
<1>4. ChecksAreCurrent'
  BY <1>2, <1>3 DEF IndInv, ChecksAreCurrent, Kind
<1>5. form' = form /\ consent' = consent
  BY DEF FinishUpload, draft
<1> QED
  BY <1>2, <1>3, <1>4, <1>5, EndKeepsCalls, EditKeeps DEF FinishUpload, IndInv, TypeOK

LEMMA ScanKeeps ==
    ASSUME IndInv, NEW c \in Call, FinishScan(c)
    PROVE  IndInv'
<1>1. ocr' \in Scans /\ ocr'.front = doc["ID_FRONT"]
  BY DEF FinishScan, StillScanned, IndInv, TypeOK, Scans, Kind
<1>2. UNCHANGED <<form, consent, doc, face>>
  BY DEF FinishScan, draft
<1>3. ChecksAreCurrent'
  BY <1>1, <1>2 DEF IndInv, ChecksAreCurrent
<1> QED
  BY <1>1, <1>2, <1>3, EndKeepsCalls, EditKeeps DEF FinishScan, IndInv, TypeOK

LEMMA CheckKeeps ==
    ASSUME IndInv, NEW c \in Call, NEW match \in BOOLEAN, FinishCheck(c, match)
    PROVE  IndInv'
<1>1. face' \in FaceChecks /\ face'.front = doc["ID_FRONT"] /\ face'.selfie = doc["SELFIE"]
  BY DEF FinishCheck, StillCompared, IndInv, TypeOK, FaceChecks, Kind
<1>2. UNCHANGED <<form, consent, doc, ocr>>
  BY DEF FinishCheck, draft
<1>3. ChecksAreCurrent'
  BY <1>1, <1>2 DEF IndInv, ChecksAreCurrent
<1> QED
  BY <1>1, <1>2, <1>3, EndKeepsCalls, EditKeeps DEF FinishCheck, IndInv, TypeOK

\* A submission seals a version that is complete, and is undecided.
LEMMA SubmitKeeps ==
    ASSUME IndInv, NEW f \in Form, Submit(f)
    PROVE  IndInv'
<1> DEFINE n == version + 1
<1>1. version \in Nat /\ n \in 1..MaxVersions
  BY KycAssumption DEF IndInv, TypeOK, Submit
<1>2. Packet(f) \in Sealed
  BY DEF IndInv, TypeOK, Packet, Sealed
<1>3. /\ sealed' \in Seq(Sealed) /\ Len(sealed') = n /\ sealed'[n] = Packet(f)
      /\ \A v \in 1..version : sealed'[v] = sealed[v]
  BY <1>1, <1>2 DEF IndInv, TypeOK, Submit, Sealed
<1>4. /\ verdict' \in Seq(Outcome) /\ Len(verdict') = n /\ verdict'[n] = "PENDING"
      /\ \A v \in 1..version : verdict'[v] = verdict[v]
  BY <1>1 DEF IndInv, TypeOK, Submit, Outcome
<1>5. UNCHANGED <<doc, ocr, face, compared, member, call, mayResubmit, lastKey>>
  BY DEF Submit, checks
<1>6. TypeOK'
  BY <1>1, <1>3, <1>4, <1>5 DEF IndInv, TypeOK, Submit, Statuses, Sealed
<1>7. \A v \in 1..version' : v = n \/ v \in 1..version
  BY <1>1 DEF Submit
<1>8. Packet(f).doc = doc /\ Packet(f).face = face
  BY DEF Packet
<1>9. SealedComplete'
  BY <1>3, <1>7, <1>8 DEF IndInv, SealedComplete, Submit, Complete
<1>10. version > 0 => verdict[version] \in {"REJECTED", "RETURNED"}
  BY DEF IndInv, TypeOK, StatusTells, Submit, MayBegin, Editable, VerdictOf, Statuses
<1>11. member # "Active" /\ \A v \in 1..version : verdict[v] # "APPROVED"
  BY <1>1, <1>10 DEF IndInv, StatusTells, Submit, MayBegin, Editable
<1>12. ApprovalIsGrounded'
  BY <1>4, <1>5, <1>7, <1>11 DEF ApprovalIsGrounded
<1>13. StatusTells'
  <2>1. \A v \in 1..version' : v < version' => verdict'[v] \in {"REJECTED", "RETURNED"}
    BY <1>1, <1>4, <1>7, <1>10 DEF IndInv, StatusTells, Submit
  <2>2. sealed'[version'] = Packet(form)'
    BY <1>3, <1>5 DEF Submit, Packet
  <2> QED
    BY <1>1, <1>4, <1>5, <1>11, <2>1, <2>2 DEF StatusTells, Submit, VerdictOf, IndInv, TypeOK
<1>14. ChecksAreCurrent'
  BY <1>5 DEF IndInv, ChecksAreCurrent
<1> QED
  BY <1>6, <1>9, <1>12, <1>13, <1>14 DEF IndInv

\* Claiming and releasing change neither the application nor its verdicts.
LEMMA ClaimKeeps ==
    ASSUME IndInv, NEW r \in Reviewer, Claim(r) \/ Release(r)
    PROVE  IndInv'
<1>1. UNCHANGED <<version, requested, mayResubmit, lastKey, form, consent, doc, ocr, face,
                  sealed, verdict, compared, member, call>>
  BY DEF Claim, Release, draft, checks, log
<1>2. TypeOK'
  BY <1>1, KycAssumption DEF IndInv, TypeOK, Claim, Release, Statuses
<1>3. StatusTells'
  BY <1>1 DEF IndInv, TypeOK, Claim, Release, StatusTells, VerdictOf, Packet
<1> QED
  BY <1>1, <1>2, <1>3 DEF IndInv, ChecksAreCurrent, ApprovalIsGrounded, SealedComplete

\* What a decision leaves: the versions, and the verdicts on the earlier ones.
LEMMA DecidesOne ==
    ASSUME IndInv, NEW r \in Reviewer, NEW key \in Key \cup {NoKey}, NEW outcome \in Outcome,
           Decides(r, key, outcome)
    PROVE  /\ version \in 1..MaxVersions /\ verdict[version] = "PENDING" /\ member # "Active"
           /\ sealed[version] = Packet(form)
           /\ verdict' \in Seq(Outcome) /\ Len(verdict') = version
           /\ verdict'[version] = outcome
           /\ \A v \in 1..version : v # version => verdict'[v] = verdict[v] /\ verdict[v] \in {"REJECTED", "RETURNED"}
           /\ UNCHANGED <<version, form, consent, doc, ocr, face, sealed, call>>
           /\ claimedBy' = r /\ lastKey' \in Key \cup {NoKey}
<1>1. version \in 1..MaxVersions /\ verdict[version] = "PENDING" /\ member # "Active"
  BY DEF IndInv, TypeOK, StatusTells, Decides, VerdictOf
<1>2. UNCHANGED <<version, form, consent, doc, ocr, face, sealed, call>>
  BY DEF Decides, draft, checks
<1>3. verdict' \in Seq(Outcome) /\ Len(verdict') = version /\ verdict'[version] = outcome
  BY <1>1 DEF IndInv, TypeOK, Decides
<1>4. \A v \in 1..version : v # version => verdict'[v] = verdict[v] /\ verdict[v] \in {"REJECTED", "RETURNED"}
  BY <1>1 DEF IndInv, TypeOK, Decides, StatusTells
<1>5. sealed[version] = Packet(form)
  BY DEF IndInv, StatusTells, Decides
<1> QED
  BY <1>1, <1>2, <1>3, <1>4, <1>5 DEF Decides

LEMMA ApproveKeeps ==
    ASSUME IndInv, NEW r \in Reviewer, NEW key \in Key \cup {NoKey}, NEW own \in BOOLEAN,
           Approve(r, key, own)
    PROVE  IndInv'
<1>1. "APPROVED" \in Outcome
  BY DEF Outcome
<1>2. Decides(r, key, "APPROVED") /\ UNCHANGED <<requested, mayResubmit>>
      /\ status' = "APPROVED" /\ member' = "Active" /\ FaceAllows(own)
      /\ compared' = IF own THEN compared \cup {version} ELSE compared
  BY DEF Approve
<1>3. TypeOK'
  <2>1. compared' \subseteq 1..version
    BY <1>1, <1>2, DecidesOne DEF IndInv, TypeOK
  <2>2. status' \in Statuses
    BY <1>2 DEF Statuses
  <2> QED
    BY <1>1, <1>2, <2>1, <2>2, DecidesOne DEF IndInv, TypeOK
<1>4. face.match \/ version \in compared'
  BY <1>2 DEF FaceAllows
<1>5. SealedComplete'
  BY <1>1, <1>2, DecidesOne DEF IndInv, SealedComplete
<1>6. sealed[version].face = face
  BY <1>1, <1>2, DecidesOne DEF Packet
<1>7. \A v \in 1..version : verdict'[v] = "APPROVED" => v = version
  BY <1>1, <1>2, DecidesOne
<1>8. ApprovalIsGrounded'
  BY <1>1, <1>2, <1>4, <1>5, <1>6, <1>7, DecidesOne DEF ApprovalIsGrounded, SealedComplete
<1>9. StatusTells'
  BY <1>1, <1>2, DecidesOne DEF StatusTells, VerdictOf, Packet
<1>10. ChecksAreCurrent'
  BY <1>1, <1>2, DecidesOne DEF IndInv, ChecksAreCurrent
<1> QED
  BY <1>3, <1>5, <1>8, <1>9, <1>10 DEF IndInv

LEMMA SendBackKeeps ==
    ASSUME IndInv, NEW r \in Reviewer, NEW key \in Key \cup {NoKey},
           \/ \E again \in BOOLEAN : Reject(r, key, again)
           \/ \E sections \in Requests : RequestResubmission(r, key, sections)
    PROVE  IndInv'
<1>1. PICK outcome \in {"REJECTED", "REFUSED", "RETURNED"} :
         /\ Decides(r, key, outcome)
         /\ \/ outcome = "RETURNED" /\ status' = "CORRECTION_REQUIRED" /\ mayResubmit' = mayResubmit
                  /\ requested' \in Requests
            \/ /\ status' = "REJECTED" /\ mayResubmit' \in BOOLEAN /\ requested' = requested
               /\ outcome = IF mayResubmit' THEN "REJECTED" ELSE "REFUSED"
         /\ UNCHANGED <<compared, member>>
  BY DEF Reject, RequestResubmission
<1>2. outcome \in Outcome
  BY DEF Outcome
<1>3. TypeOK'
  <2>1. requested' \in SUBSET Section /\ mayResubmit' \in BOOLEAN
    BY <1>1, KycAssumption DEF IndInv, TypeOK
  <2>2. status' \in {"CORRECTION_REQUIRED", "REJECTED"} /\ (status' = "CORRECTION_REQUIRED" => requested' # {})
    BY <1>1, KycAssumption
  <2> QED
    BY <1>1, <1>2, <2>1, <2>2, DecidesOne DEF IndInv, TypeOK, Statuses
<1>4. SealedComplete' /\ ChecksAreCurrent'
  BY <1>1, <1>2, DecidesOne DEF IndInv, SealedComplete, ChecksAreCurrent
<1>5. ApprovalIsGrounded'
  BY <1>1, <1>2, DecidesOne DEF ApprovalIsGrounded
<1>6. StatusTells'
  BY <1>1, <1>2, DecidesOne DEF StatusTells, VerdictOf
<1> QED
  BY <1>3, <1>4, <1>5, <1>6 DEF IndInv

LEMMA StepInv == IndInv /\ [Next]_vars => IndInv'
<1> SUFFICES ASSUME IndInv, [Next]_vars PROVE IndInv'
  OBVIOUS
<1>1. CASE UNCHANGED vars
  BY <1>1, CallKeeps DEF vars, IndInv, TypeOK, Calls
<1>2. ASSUME NEW f \in Form, NEW agreed \in BOOLEAN, SaveDraft(f, agreed) PROVE IndInv'
  <2>1. UNCHANGED <<doc, ocr, face, call>>
    BY <1>2 DEF SaveDraft, checks
  <2>2. ChecksAreCurrent'
    BY <2>1 DEF IndInv, ChecksAreCurrent
  <2> QED
    BY <1>2, <2>1, <2>2, EditKeeps DEF SaveDraft, IndInv, TypeOK, Calls
<1>3. ASSUME NEW c \in Call, NEW k \in Kind, StartUpload(c, k) PROVE IndInv'
  BY <1>3, StartKeeps DEF StartUpload, Calls, Photo
<1>4. ASSUME NEW c \in Call, StartScan(c) PROVE IndInv'
  BY <1>4, StartKeeps DEF StartScan, Calls, Photo, IndInv, TypeOK, Kind
<1>5. ASSUME NEW c \in Call, StartCheck(c) PROVE IndInv'
  BY <1>5, StartKeeps DEF StartCheck, Calls, Photo, IndInv, TypeOK, Kind
<1>6. ASSUME NEW c \in Call, Fails(c) PROVE IndInv'
  BY <1>6, EndKeepsCalls, CallKeeps DEF Fails
<1>7. CASE MemberActs
  BY <1>2, <1>3, <1>4, <1>5, <1>6, <1>7, SubmitKeeps, UploadKeeps, ScanKeeps, CheckKeeps DEF MemberActs
<1>8. CASE ReviewerActs
  BY <1>8, ClaimKeeps, ApproveKeeps, SendBackKeeps DEF ReviewerActs
<1> QED
  BY <1>1, <1>7, <1>8 DEF Next

\* The inductive invariant holds in every reachable state: with TypeOK, what
\* the status tells of the latest version and that every version sealed is
\* complete.
THEOREM ReviewInvariance == Spec => []IndInv
  BY InitInv, StepInv, PTL DEF Spec

\* The row, the photos and the calls keep their shape, and an application is
\* claimed exactly as its status says (kyc_submissions_guard).
THEOREM ReviewTypes == Spec => []TypeOK
<1>1. IndInv => TypeOK
  BY DEF IndInv
<1> QED
  BY <1>1, ReviewInvariance, PTL

\* No upload, reading or face check in flight leaves a face check of a front or
\* selfie that was replaced, or a reading of a front that was (runIdScan,
\* runFaceCheck).  The back of the ID is not claimed: runIdScan compares only the
\* front before it saves a reading.
THEOREM ChecksStayCurrent == Spec => []ChecksAreCurrent
<1>1. IndInv => ChecksAreCurrent
  BY DEF IndInv
<1> QED
  BY <1>1, ReviewInvariance, PTL

\* Nobody is approved without a comparison of the photos submitted
\* (decideApplication).
THEOREM ApprovalsAreGrounded == Spec => []ApprovalIsGrounded
<1>1. IndInv => ApprovalIsGrounded
  BY DEF IndInv
<1> QED
  BY <1>1, ReviewInvariance, PTL

-----------------------------------------------------------------------------
\* The refinement

LEMMA FileInit == Init => File!Init
  BY DEF Init, File!Init

LEMMA EditIsEdit ==
    ASSUME IndInv, BeginEditing, UNCHANGED log
    PROVE  File!Edit
<1>1. verdict = <<>> \/ verdict[Len(verdict)] \in {"RETURNED", "REJECTED"}
  BY DEF IndInv, TypeOK, StatusTells, BeginEditing, MayBegin, Editable, VerdictOf, Statuses
<1> QED
  BY <1>1 DEF File!Edit, File!Open, File!Latest, File!Reopening, log

LEMMA SubmitIsSeal ==
    ASSUME IndInv, NEW f \in Form, Submit(f)
    PROVE  File!Seal
<1>1. verdict = <<>> \/ verdict[Len(verdict)] \in {"RETURNED", "REJECTED"}
  BY DEF IndInv, TypeOK, StatusTells, Submit, MayBegin, Editable, VerdictOf, Statuses
<1>2. Packet(f) = Packet(form)'
  BY DEF Submit, Packet, checks
<1> QED
  BY <1>1, <1>2 DEF Submit, File!Seal, File!Open, File!Latest, File!Reopening, File!Pending

LEMMA DecisionDecides ==
    ASSUME IndInv, NEW r \in Reviewer, NEW key \in Key \cup {NoKey},
           NEW outcome \in {"APPROVED", "REJECTED", "REFUSED", "RETURNED"}, Decides(r, key, outcome)
    PROVE  File!Decide
<1>1. outcome \in Outcome
  BY DEF Outcome
<1>2. verdict # <<>> /\ Len(verdict) = version /\ Len(sealed) = version
  BY <1>1, DecidesOne DEF IndInv, TypeOK
<1>3. Packet(form)' = Packet(form)
  BY <1>1, DecidesOne DEF Packet
<1> QED
  BY <1>1, <1>2, <1>3, DecidesOne
     DEF Decides, File!Decide, File!Latest, File!Pending, File!Reopening, File!Final

LEMMA FileStep == IndInv /\ [Next]_vars => File!Next \/ UNCHANGED <<Packet(form), sealed, verdict>>
<1> SUFFICES ASSUME IndInv, [Next]_vars PROVE File!Next \/ UNCHANGED <<Packet(form), sealed, verdict>>
  OBVIOUS
<1>1. ASSUME UNCHANGED <<draft, doc, checks, sealed, verdict>>
      PROVE  UNCHANGED <<Packet(form), sealed, verdict>>
  BY <1>1 DEF Packet, draft, checks
<1>2. CASE UNCHANGED vars
  BY <1>1, <1>2 DEF vars, log
<1>3. CASE MemberActs
  <2>1. ASSUME BeginEditing, UNCHANGED log PROVE File!Next
    BY <2>1, EditIsEdit DEF File!Next
  <2>2. ASSUME NEW f \in Form, Submit(f) PROVE File!Next
    BY <2>2, SubmitIsSeal DEF File!Next
  <2>3. ASSUME NEW c \in Call,
               (\E k \in Kind : StartUpload(c, k)) \/ StartScan(c) \/ StartCheck(c) \/ Fails(c)
        PROVE  UNCHANGED <<Packet(form), sealed, verdict>>
    BY <1>1, <2>3 DEF StartUpload, StartScan, StartCheck, Fails, Starts, log
  <2> QED
    BY <1>3, <2>1, <2>2, <2>3 DEF MemberActs, SaveDraft, FinishUpload, FinishScan, FinishCheck
<1>4. CASE ReviewerActs
  <2>1. ASSUME NEW r \in Reviewer, Claim(r) \/ Release(r) PROVE UNCHANGED <<Packet(form), sealed, verdict>>
    BY <1>1, <2>1 DEF Claim, Release, log
  <2>2. ASSUME NEW r \in Reviewer, NEW key \in Key \cup {NoKey},
               NEW outcome \in {"APPROVED", "REJECTED", "REFUSED", "RETURNED"}, Decides(r, key, outcome)
        PROVE  File!Next
    BY <2>2, DecisionDecides DEF File!Next
  <2> QED
    BY <1>4, <2>1, <2>2 DEF ReviewerActs, Approve, Reject, RequestResubmission
<1> QED
  BY <1>2, <1>3, <1>4 DEF Next

\* The review implements ReviewedFile: what is decided is what was submitted,
\* once, and an approved or refused application stays as it is.
THEOREM ReviewImplements == Spec => ImplementsFile
  BY FileInit, FileStep, ReviewInvariance, PTL DEF Spec, ImplementsFile, File!Spec
===============================================================================
