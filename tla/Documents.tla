------------------------------ MODULE Documents -------------------------------
(***************************************************************************)
(* One document from its upload on (app/services/document_service.py and   *)
(* app/api/v1/endpoints/documents.py): reviewers and approvers are         *)
(* assigned and decide, it is shared, and signatures are asked for.  A     *)
(* handler loads the document, and its commit writes the columns that      *)
(* differ from what it loaded.                                             *)
(***************************************************************************)
EXTENDS Integers, FiniteSets, Desks

CONSTANTS
    Member,    \* users of the tenant
    Owner,     \* those with the role Owner or Super Admin
    Assigner,  \* those with a role in APPROVER_ASSIGNER_ROLES
    Reviewer,  \* those who are asked to review
    Signer     \* users who are asked to sign

VARIABLES
    doc,       \* the row of documents
    reviews,   \* document_reviews: the status of a reviewer's row
    assigned,  \* document_approvals: pairs of the approver and who assigned them
    endorsed,  \* history: approvers who have approved the document
    shares,    \* document_shares: the rows of one user or department
    signature, \* document_signatures: the status of a signer's row
    clerk      \* the handlers in progress

dvars == <<doc, reviews, assigned, endorsed, shares, signature, clerk>>

Document == [uploader : Member, status : {"pending_review", "approved", "rejected"},
             approval : {"pending", "awaiting_approval", "approved", "rejected", "conditional_approval"}]
Approval == Member \X Member
ReviewStatus == {"none", "pending", "decided"}
SignatureStatus == {"none", "pending", "signed", "rejected"}
Decision == {"pending", "approved", "rejected", "conditional_approval"}
ShareRow == 1 .. Cardinality(Desk) + 1
Share == {"none", "active", "revoked"}

Clerk ==
    {Vacant}
    \cup [pc : {"reviewer"}, loaded : Document, who : Reviewer]
    \cup [pc : {"approver"}, loaded : Document, who : Member, by : Member]
    \cup [pc : {"decide"}, loaded : Document, who : Member, decision : Decision]
    \cup [pc : {"share"}, found : ShareRow \cup {Null}, was : Share]

DTypeOK ==
    /\ doc \in Document
    /\ reviews \in [Reviewer -> ReviewStatus]
    /\ assigned \subseteq Approval
    /\ endorsed \subseteq Member
    /\ shares \in [ShareRow -> Share]
    /\ signature \in [Signer -> SignatureStatus]
    /\ clerk \in [Desk -> Clerk]

\* create_document.
NewDocument(u) == [uploader |-> u, status |-> "pending_review", approval |-> "pending"]

\* upload_document: an owner's upload bypasses the workflow.
Uploaded(u) ==
    IF u \in Owner THEN [uploader |-> u, status |-> "approved", approval |-> "approved"]
                   ELSE NewDocument(u)

DInit ==
    /\ \E u \in Member : doc = Uploaded(u)
    /\ reviews = [r \in Reviewer |-> "none"]
    /\ assigned = {} /\ endorsed = {}
    /\ shares = [w \in ShareRow |-> "none"]
    /\ signature = [s \in Signer |-> "none"]
    /\ clerk = [k \in Desk |-> Vacant]

-----------------------------------------------------------------------------

DTables == <<doc, reviews, assigned, endorsed, shares, signature>>

\* get_document, which every handler starts with.
Load(k, task) ==
    /\ clerk[k] = Vacant
    /\ clerk' = [clerk EXCEPT ![k] = task]
    /\ UNCHANGED DTables

Done(k) == clerk' = [clerk EXCEPT ![k] = Vacant]

ReviewerLoads(k, r) == Load(k, [pc |-> "reviewer", loaded |-> doc, who |-> r])

\* assign_reviewer puts the document back in review, whatever its status.
ReviewerSaves(k) ==
    LET t == clerk[k]
    IN  /\ t.pc = "reviewer"
        /\ reviews' = [reviews EXCEPT ![t.who] = "pending"]
        /\ doc' = Written(doc, t.loaded, [t.loaded EXCEPT !.status = "pending_review"])
        /\ Done(k)
        /\ UNCHANGED <<assigned, endorsed, shares, signature>>

\* The row of a reviewer, decided before or not; the document stays as it is.
Reviewed(r) == [reviews EXCEPT ![r] = "decided"]

SubmitReview(r) ==
    /\ reviews[r] # "none"
    /\ reviews' = Reviewed(r)
    /\ UNCHANGED <<doc, assigned, endorsed, shares, signature, clerk>>

\* Mutant: one of the two checks is missing.
MayAssignUploader(m, a) == m \in Assigner /\ a # m

\* assign_approver: the approver is neither the uploader nor the caller.
MayAssign(m, a) == m \in Assigner /\ a \notin {doc.uploader, m}

ApproverLoads(k, m, a) ==
    /\ MayAssign(m, a)
    /\ Load(k, [pc |-> "approver", loaded |-> doc, who |-> a, by |-> m])

ApproverSaves(k) ==
    LET t == clerk[k]
    IN  /\ t.pc = "approver"
        /\ assigned' = assigned \cup {<<t.who, t.by>>}
        /\ doc' = Written(doc, t.loaded, [t.loaded EXCEPT !.approval = "awaiting_approval"])
        /\ Done(k)
        /\ UNCHANGED <<reviews, endorsed, shares, signature>>

\* approve_document updates the caller's approval, which stays locked until
\* the commit, and then loads the document.
DecisionLoads(k, a, d) ==
    /\ \E m \in Member : <<a, m>> \in assigned
    /\ \A j \in Desk : clerk[j].pc = "decide" => clerk[j].who # a
    /\ Load(k, [pc |-> "decide", loaded |-> doc, who |-> a, decision |-> d])

Decided(row, d) ==
    CASE d = "approved" -> [row EXCEPT !.status = d, !.approval = d]
      [] d = "rejected" -> [row EXCEPT !.status = d, !.approval = d]
      [] d = "conditional_approval" -> [row EXCEPT !.approval = d]
      [] OTHER -> row

DecisionSaves(k) ==
    LET t == clerk[k]
    IN  /\ t.pc = "decide"
        /\ doc' = Written(doc, t.loaded, Decided(t.loaded, t.decision))
        /\ endorsed' = IF t.decision = "approved" THEN endorsed \cup {t.who} ELSE endorsed
        /\ Done(k)
        /\ UNCHANGED <<reviews, assigned, shares, signature>>

\* share_document looks for a row of the recipient, active or not.
Existing == {w \in ShareRow : shares[w] # "none"}

ShareLoads(k) ==
    \/ Existing = {} /\ Load(k, [pc |-> "share", found |-> Null, was |-> "none"])
    \/ \E w \in Existing : Load(k, [pc |-> "share", found |-> w, was |-> shares[w]])

NextRow == {w \in ShareRow : Existing = 1 .. w - 1}

\* A row that was loaded as active is not written, even if it is revoked by now.
ShareSaves(k) ==
    LET t == clerk[k]
    IN  /\ t.pc = "share"
        /\ \E w \in IF t.found = Null THEN NextRow ELSE {t.found} :
              shares' = [shares EXCEPT ![w] = IF t.was = "active" THEN @ ELSE "active"]
        /\ Done(k)
        /\ UNCHANGED <<doc, reviews, assigned, endorsed, signature>>

\* revoke_document_share
Revoked(w) == [shares EXCEPT ![w] = "revoked"]

RevokeShare(w) ==
    /\ shares[w] = "active"
    /\ shares' = Revoked(w)
    /\ UNCHANGED <<doc, reviews, assigned, endorsed, signature, clerk>>

Requested(s) == [signature EXCEPT ![s] = "pending"]

RequestSignature(s) ==
    /\ signature[s] = "none"
    /\ signature' = Requested(s)
    /\ UNCHANGED <<doc, reviews, assigned, endorsed, shares, clerk>>

\* Whoever was asked may sign and decline, also after the other.
Answer(s, status) ==
    /\ signature[s] \notin {"none", status}
    /\ signature' = [signature EXCEPT ![s] = status]
    /\ UNCHANGED <<doc, reviews, assigned, endorsed, shares, clerk>>

SubmitSignature(s) == Answer(s, "signed")
DeclineSignature(s) == Answer(s, "rejected")

DAbandon(k) == clerk[k] # Vacant /\ Done(k) /\ UNCHANGED DTables

DNext ==
    \/ \E k \in Desk :
          \/ \E r \in Reviewer : ReviewerLoads(k, r)
          \/ \E m, a \in Member : ApproverLoads(k, m, a)
          \/ \E a \in Member, d \in Decision : DecisionLoads(k, a, d)
          \/ ShareLoads(k) \/ ReviewerSaves(k) \/ ApproverSaves(k) \/ DecisionSaves(k) \/ ShareSaves(k) \/ DAbandon(k)
    \/ \E r \in Reviewer : SubmitReview(r)
    \/ \E w \in ShareRow : RevokeShare(w)
    \/ \E s \in Signer : RequestSignature(s) \/ SubmitSignature(s) \/ DeclineSignature(s)

DSpec == DInit /\ [][DNext]_dvars

-----------------------------------------------------------------------------
(* Properties. *)

\* "No self-approval": a document is approved because an owner uploaded it,
\* or because of somebody who did not upload it and whom somebody else chose.
NoSelfApproval ==
    doc.status = "approved" =>
        \/ doc.uploader \in Owner
        \/ \E a \in endorsed \ {doc.uploader} : \E m \in Member \ {a} : <<a, m>> \in assigned
=============================================================================
