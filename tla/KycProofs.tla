------------------------------- MODULE KycProofs -------------------------------
(***************************************************************************)
(* A verified user has an approved document, however many documents the    *)
(* user leaves and however many requests and decisions overlap.            *)
(***************************************************************************)
EXTENDS Kyc, TLAPS

\* A request that writes a document found earlier has found one of the user's.
Knows(j) == j.op \in {"face", "manual", "approve", "reject"} => j.doc \in Doc

KycInv ==
    /\ DOMAIN doc = Doc /\ DOMAIN handler = Handler
    /\ \A h \in Handler : Knows(handler[h])
    /\ VerifiedHasDocument

\* The document of a status "verified" is approved, and no other status is.
LEMMA StatusMapped ==
    ASSUME NEW d \in Doc, NEW status, DOMAIN doc = Doc,
           user' = status, doc' = [doc EXCEPT ![d] = DocumentStatus(status)]
    PROVE  VerifiedHasDocument'
BY DEF VerifiedHasDocument, Approved, DocumentStatus

LEMMA KycInvInit == Init => KycInv
BY DEF Init, KycInv, Knows, VerifiedHasDocument, Free

\* Each request, whatever it has read, leaves the invariant true.
LEMMA KycInvNext == KycInv /\ [Next]_vars => KycInv'
<1> SUFFICES ASSUME KycInv, [Next]_vars PROVE KycInv'
  OBVIOUS
<1>1. CASE UNCHANGED vars
  BY <1>1 DEF vars, KycInv, Knows, VerifiedHasDocument, Approved
<1>2. ASSUME NEW h \in Handler, NEW j, handler' = [handler EXCEPT ![h] = j], Knows(j)
      PROVE  DOMAIN handler' = Handler /\ \A g \in Handler : Knows(handler'[g])
  BY <1>2 DEF KycInv, Knows
<1>3. Knows(Free)
  BY DEF Knows, Free
<1>4. ASSUME UNCHANGED <<user, doc, late>> PROVE VerifiedHasDocument'
  BY <1>4 DEF KycInv, VerifiedHasDocument, Approved
<1>5. ASSUME NEW h \in Handler, NEW op \in Submissions, SubmitCheck(h, op) PROVE KycInv'
  <2>1. Knows([op |-> op, at |-> "find"])
    BY DEF Knows, Submissions
  <2> QED
    BY <1>2, <1>4, <1>5, <2>1 DEF SubmitCheck, KycInv, Knows
<1>6. ASSUME NEW h \in Handler, SubmitFind(h) PROVE KycInv'
  <2>1. PICK n : handler' = [handler EXCEPT ![h] = [op |-> handler[h].op, at |-> "write", doc |-> n]]
    BY <1>6 DEF SubmitFind
  <2>2. Knows([op |-> handler[h].op, at |-> "write", doc |-> n])
    BY <1>6 DEF SubmitFind, Knows, Submissions
  <2> QED
    BY <1>2, <1>4, <1>6, <2>1, <2>2 DEF SubmitFind, KycInv, Knows
<1>7. ASSUME NEW h \in Handler, SubmitFails(h) PROVE KycInv'
  BY <1>2, <1>3, <1>4, <1>7 DEF SubmitFails, KycInv, Knows
<1>8. ASSUME NEW h \in Handler, NEW d \in Doc,
             NEW status \in {"pending", "in_review", "verified", "rejected"},
             SubmitWrite(h, d, status)
      PROVE  KycInv'
  <2>1. VerifiedHasDocument'
    BY <1>8, StatusMapped DEF SubmitWrite, KycInv
  <2> QED
    BY <1>2, <1>3, <1>8, <2>1 DEF SubmitWrite, KycInv, Knows
<1>9. ASSUME NEW h \in Handler, NEW op \in {"face", "manual"}, NEW d \in Doc,
             DocumentRead(h, op, d)
      PROVE  KycInv'
  <2>1. Knows([op |-> op, doc |-> d])
    BY DEF Knows
  <2> QED
    BY <1>2, <1>4, <1>9, <2>1 DEF DocumentRead, KycInv, Knows
<1>10. ASSUME NEW h \in Handler, NEW status \in {"in_review", "verified", "rejected"},
              DocumentWrite(h, status)
       PROVE  KycInv'
  <2>1. PICK d \in Doc : d = handler[h].doc
    BY <1>10 DEF DocumentWrite, KycInv, Knows
  <2>2. VerifiedHasDocument'
    BY <1>10, <2>1, StatusMapped DEF DocumentWrite, KycInv
  <2> QED
    BY <1>2, <1>3, <1>10, <2>2 DEF DocumentWrite, KycInv, Knows
<1>11. ASSUME NEW h \in Handler, NEW op \in {"approve", "reject"}, NEW d \in Doc,
              AdminRead(h, op, d)
       PROVE  KycInv'
  <2>1. Knows([op |-> op, doc |-> d, status |-> doc[d]])
    BY DEF Knows
  <2> QED
    BY <1>2, <1>4, <1>11, <2>1 DEF AdminRead, KycInv, Knows
<1>12. ASSUME NEW h \in Handler, AdminApprove(h) PROVE KycInv'
  <2>1. PICK d \in Doc : d = handler[h].doc
    BY <1>12 DEF AdminApprove, KycInv, Knows
  <2>2. VerifiedHasDocument'
    BY <1>12, <2>1 DEF AdminApprove, KycInv, VerifiedHasDocument, Approved
  <2>3. DOMAIN doc' = Doc
    BY <1>12 DEF AdminApprove, KycInv
  <2> QED
    BY <1>2, <1>3, <1>12, <2>2, <2>3 DEF AdminApprove, KycInv, Knows
<1>13. ASSUME NEW h \in Handler, AdminReject(h) PROVE KycInv'
  <2>1. VerifiedHasDocument' /\ DOMAIN doc' = Doc
    BY <1>13 DEF AdminReject, KycInv, VerifiedHasDocument
  <2> QED
    BY <1>2, <1>3, <1>13, <2>1 DEF AdminReject, KycInv, Knows
<1> QED
  BY <1>1, <1>5, <1>6, <1>7, <1>8, <1>9, <1>10, <1>11, <1>12, <1>13 DEF Next

\* The status the rest of the platform trusts is backed by a document, but for
\* an approval that overlaps another decision on the same document.
THEOREM VerifiedBacked == Spec => []VerifiedHasDocument
<1>1. KycInv => VerifiedHasDocument
  BY DEF KycInv
<1> QED
  BY <1>1, KycInvInit, KycInvNext, PTL DEF Spec
=============================================================================
