----------------------------- MODULE ReviewedFile -----------------------------
(***************************************************************************)
(* What the review of a KYC application promises (docs/KYC_FLOW.md): each  *)
(* submission seals a version, nothing of it changes until it is decided,  *)
(* each version is decided once, and an application that was approved, or  *)
(* refused for good, is never changed again.                               *)
(***************************************************************************)
EXTENDS Sequences, Naturals

VARIABLES
    content,   \* the application as it stands
    sealed,    \* the versions submitted, oldest first
    verdict    \* what was decided on each of them

Pending   == "PENDING"
Reopening == {"RETURNED", "REJECTED"}   \* the member may go on
Final     == {"APPROVED", "REFUSED"}

Latest == verdict[Len(verdict)]
Open   == verdict = <<>> \/ Latest \in Reopening

Init == sealed = <<>> /\ verdict = <<>>

Edit == Open /\ UNCHANGED <<sealed, verdict>>

Seal ==
    /\ Open
    /\ sealed' = Append(sealed, content')
    /\ verdict' = Append(verdict, Pending)

Decide ==
    /\ verdict # <<>> /\ Latest = Pending
    /\ content = sealed[Len(sealed)]
    /\ \E v \in Reopening \cup Final : verdict' = [verdict EXCEPT ![Len(verdict)] = v]
    /\ UNCHANGED <<content, sealed>>

Next == Edit \/ Seal \/ Decide

Spec == Init /\ [][Next]_<<content, sealed, verdict>>

===============================================================================
