---------------------------------- MODULE Kyc ----------------------------------
(***************************************************************************)
(* The identity check of one user (estate-service, kyc.service.ts): the    *)
(* documents sent, the status of each, and the status of the user, which   *)
(* the rest of the platform asks for.  A request is checked, waits for the *)
(* recognition service and for the upload of the images, and then writes   *)
(* the user and the document in one transaction.  An administrator may     *)
(* decide on a document at any time, twice as well.                        *)
(***************************************************************************)
EXTENDS Integers, FiniteSets

CONSTANTS
    Doc,          \* the documents of the user, numbered as they are created
    Handler       \* requests being handled at the same time

KycAssumption == Doc \subseteq Nat \ {0}

VARIABLES
    user,         \* kycStatus of the user
    doc,          \* the status of each document, "none" until it is created
    handler,      \* what each request is at, with what it has read
    late          \* an approval made of a document that was no longer approved

vars == <<user, doc, handler, late>>

Free == [op |-> "none"]

Submissions == {"verify", "ocr", "review"}

Approved == {d \in Doc : doc[d] = "approved"}
Unapproved == {d \in Doc : doc[d] \notin {"none", "approved"}}

\* decideStatus, from the score of the faces and the flags; a low score and a
\* face that does not match raise flags of their own.
Decisions ==
    LET Decide(score, flagged) ==
            IF score = "below60" THEN "rejected"
            ELSE IF score = "from85" /\ ~flagged THEN "verified" ELSE "in_review"
    IN  {Decide(score, flagged) : score \in {"below60", "from60", "from85"}, flagged \in BOOLEAN}

\* mapKycStatusToDocumentStatus.
DocumentStatus(status) == IF status = "verified" THEN "approved" ELSE status

------------------------------------------------------------------------------
\* verifyAndPersist, extractOcr and saveForAdminReview refuse a user who is
\* verified, ...
SubmitCheck(h, op) ==
    /\ handler[h] = Free /\ op \in Submissions
    /\ ~(user = "verified" /\ Approved # {})
    /\ handler' = [handler EXCEPT ![h] = [op |-> op, at |-> "find"]]
    /\ UNCHANGED <<user, doc, late>>

\* ... after the upload look for the newest document that is not approved (0: none), ...
SubmitFind(h) ==
    /\ handler[h].op \in Submissions /\ handler[h].at = "find"
    /\ handler' = [handler EXCEPT ![h] =
            [op |-> handler[h].op, at |-> "write",
             doc |-> IF Unapproved = {} THEN 0
                     ELSE CHOOSE d \in Unapproved : \A e \in Unapproved : e <= d]]
    /\ UNCHANGED <<user, doc, late>>

\* The status the user is given.
SubmitStatus(op) ==
    CASE op = "verify" -> Decisions
      [] op = "ocr"    -> {"pending"}
      [] op = "review" -> {"in_review"}

\* ... and write the user and that document, or a new one.
SubmitWrite(h, d, status) ==
    /\ handler[h].op \in Submissions /\ handler[h].at = "write"
    /\ status \in SubmitStatus(handler[h].op)
    /\ IF handler[h].doc = 0 THEN doc[d] = "none" /\ \A e \in Doc : doc[e] = "none" => d <= e
       ELSE d = handler[h].doc
    /\ user' = status
    /\ doc' = [doc EXCEPT ![d] = DocumentStatus(status)]
    /\ handler' = [handler EXCEPT ![h] = Free]
    /\ late' = FALSE

\* The upload or the transaction fails, the latter when the number of the
\* document is in use.
SubmitFails(h) ==
    /\ handler[h].op \in Submissions
    /\ handler' = [handler EXCEPT ![h] = Free]
    /\ UNCHANGED <<user, doc, late>>

\* verifyFace and requestManualReview read a document of the user, in any
\* status, and write both.
DocumentRead(h, op, d) ==
    /\ handler[h] = Free /\ op \in {"face", "manual"}
    /\ doc[d] # "none"
    /\ handler' = [handler EXCEPT ![h] = [op |-> op, doc |-> d]]
    /\ UNCHANGED <<user, doc, late>>

DocumentWrite(h, status) ==
    /\ handler[h].op \in {"face", "manual"}
    /\ status \in IF handler[h].op = "face" THEN Decisions ELSE {"in_review"}
    /\ user' = status
    /\ doc' = [doc EXCEPT ![handler[h].doc] = DocumentStatus(status)]
    /\ handler' = [handler EXCEPT ![h] = Free]
    /\ late' = FALSE

------------------------------------------------------------------------------
\* adminApproveKyc and adminRejectKyc read the document.
AdminRead(h, op, d) ==
    /\ handler[h] = Free /\ op \in {"approve", "reject"}
    /\ doc[d] # "none"
    /\ handler' = [handler EXCEPT ![h] = [op |-> op, doc |-> d, status |-> doc[d]]]
    /\ UNCHANGED <<user, doc, late>>

\* A document approved already: the user is written and the document is not.
AdminApprove(h) ==
    /\ handler[h].op = "approve"
    /\ user' = "verified"
    /\ IF handler[h].status = "approved"
       THEN /\ late' = (doc[handler[h].doc] # "approved")
            /\ UNCHANGED doc
       ELSE /\ doc' = [doc EXCEPT ![handler[h].doc] = "approved"]
            /\ late' = FALSE
    /\ handler' = [handler EXCEPT ![h] = Free]

\* Mutant: writes the document, and leaves the user as it was.
AdminRejectDocument(h) ==
    /\ handler[h].op = "reject"
    /\ doc' = [doc EXCEPT ![handler[h].doc] = "rejected"]
    /\ handler' = [handler EXCEPT ![h] = Free]
    /\ UNCHANGED <<user, late>>

\* A document rejected already is not written again either.
AdminReject(h) ==
    /\ handler[h].op = "reject"
    /\ user' = "rejected"
    /\ IF handler[h].status = "rejected" THEN UNCHANGED doc
       ELSE doc' = [doc EXCEPT ![handler[h].doc] = "rejected"]
    /\ handler' = [handler EXCEPT ![h] = Free]
    /\ late' = FALSE

Init ==
    /\ user = "pending"
    /\ doc = [d \in Doc |-> "none"]
    /\ handler = [h \in Handler |-> Free]
    /\ late = FALSE

Next ==
    \E h \in Handler :
        \/ \E op \in Submissions : SubmitCheck(h, op)
        \/ SubmitFind(h) \/ SubmitFails(h)
        \/ \E d \in Doc, status \in {"pending", "in_review", "verified", "rejected"} :
                SubmitWrite(h, d, status)
        \/ \E op \in {"face", "manual"}, d \in Doc : DocumentRead(h, op, d)
        \/ \E status \in {"in_review", "verified", "rejected"} : DocumentWrite(h, status)
        \/ \E op \in {"approve", "reject"}, d \in Doc : AdminRead(h, op, d)
        \/ AdminApprove(h) \/ AdminReject(h)

Spec == Init /\ [][Next]_vars

------------------------------------------------------------------------------
\* A user who is verified has an approved document, whatever requests and
\* decisions overlap and however many documents they leave; except when an
\* administrator approves what was read as approved and is not any more,
\* which writes the user alone.
VerifiedHasDocument == user = "verified" => Approved # {} \/ late

=============================================================================
