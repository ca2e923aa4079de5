--------------------------- MODULE BackOfficeProofs ---------------------------
(***************************************************************************)
(* The back office is safe for any number of requests in progress: nobody  *)
(* approves a document they uploaded, a plan ends for a cause, sessions    *)
(* belong to verified emails, an approved request for a co-admin made the  *)
(* account of its email, ranks follow scores, compliance counts no more    *)
(* than the days there are, and all parts keep their types.                *)
(***************************************************************************)
EXTENDS BackOffice, KraTasksProofs, FiniteSetTheorems

-----------------------------------------------------------------------------
(* Documents. *)

\* What a clerk loaded is the same document, an approver to be is neither the
\* uploader nor whoever chose them, and who decides was chosen.
ClerkOK(t) ==
    /\ t.pc \in {"reviewer", "approver", "decide"} => t.loaded.uploader = doc.uploader
    /\ t.pc = "approver" => t.who \notin {doc.uploader, t.by}
    /\ t.pc = "decide" => \E m \in Member : <<t.who, m>> \in assigned

\* Nobody is chosen who uploaded the document or by themselves.
ChosenByOthers == \A a, m \in Member : <<a, m>> \in assigned => a \notin {doc.uploader, m}

DInv == DTypeOK /\ ChosenByOthers /\ (\A k \in Desk : ClerkOK(clerk[k])) /\ NoSelfApproval

LEMMA WrittenDocument ==
    ASSUME NEW d \in Document, NEW old \in Document, NEW new \in Document
    PROVE  LET w == Written(d, old, new)
           IN  /\ w \in Document
               /\ w.uploader = IF new.uploader = old.uploader THEN d.uploader ELSE new.uploader
               /\ w.status = IF new.status = old.status THEN d.status ELSE new.status
BY DEF Written, Document

\* A clerk loads the document.
LEMMA ClerkLoads ==
    ASSUME DInv, NEW k \in Desk, NEW t \in Clerk, ClerkOK(t), Load(k, t)
    PROVE  DInv'
<1>1. DTypeOK'
  BY DEF DInv, DTypeOK, Load, DTables
<1>2. ASSUME NEW j \in Desk PROVE ClerkOK(clerk[j])'
  <2>1. clerk'[j] = IF j = k THEN t ELSE clerk[j]
    BY DEF DInv, DTypeOK, Load
  <2> QED
    BY <2>1 DEF DInv, ClerkOK, Load, DTables
<1>3. ChosenByOthers' /\ NoSelfApproval'
  BY DEF DInv, ChosenByOthers, NoSelfApproval, Load, DTables
<1> QED
  BY <1>1, <1>2, <1>3 DEF DInv

\* A clerk is done, and whoever was chosen or has endorsed the document still is.
LEMMA ClerkDone ==
    ASSUME DInv, NEW k \in Desk, Done(k), assigned \subseteq assigned', doc'.uploader = doc.uploader,
           DTypeOK', ChosenByOthers', NoSelfApproval'
    PROVE  DInv'
<1>1. ASSUME NEW j \in Desk PROVE ClerkOK(clerk[j])'
  <2>1. CASE j = k
    <3>1. clerk'[j] = Vacant
      BY <2>1 DEF DInv, DTypeOK, Done
    <3> QED
      BY <3>1 DEF ClerkOK, Vacant
  <2>2. CASE j # k
    <3>1. clerk'[j] = clerk[j]
      BY <2>2 DEF DInv, DTypeOK, Done
    <3> QED
      BY <3>1 DEF DInv, ClerkOK
  <2> QED
    BY <2>1, <2>2
<1> QED
  BY <1>1 DEF DInv

LEMMA VacantClerk == Vacant \in Clerk
BY DEF Clerk

LEMMA DocumentLoads ==
    ASSUME DInv, NEW k \in Desk,
           \/ \E r \in Reviewer : ReviewerLoads(k, r)
           \/ \E m, a \in Member : ApproverLoads(k, m, a)
           \/ \E a \in Member, d \in Decision : DecisionLoads(k, a, d)
           \/ ShareLoads(k)
    PROVE  DInv'
<1>0. doc \in Document
  BY DEF DInv, DTypeOK
<1>1. ASSUME NEW r \in Reviewer, ReviewerLoads(k, r) PROVE DInv'
  <2> DEFINE t == [pc |-> "reviewer", loaded |-> doc, who |-> r]
  <2>1. t \in Clerk /\ ClerkOK(t)
    BY <1>0 DEF Clerk, ClerkOK
  <2> QED
    BY <1>1, <2>1, ClerkLoads DEF ReviewerLoads
<1>2. ASSUME NEW m \in Member, NEW a \in Member, ApproverLoads(k, m, a) PROVE DInv'
  <2> DEFINE t == [pc |-> "approver", loaded |-> doc, who |-> a, by |-> m]
  <2>1. t \in Clerk /\ ClerkOK(t)
    BY <1>0, <1>2 DEF ApproverLoads, MayAssign, Clerk, ClerkOK
  <2> QED
    BY <1>2, <2>1, ClerkLoads DEF ApproverLoads
<1>3. ASSUME NEW a \in Member, NEW d \in Decision, DecisionLoads(k, a, d) PROVE DInv'
  <2> DEFINE t == [pc |-> "decide", loaded |-> doc, who |-> a, decision |-> d]
  <2>1. t \in Clerk /\ ClerkOK(t)
    BY <1>0, <1>3 DEF DecisionLoads, Clerk, ClerkOK
  <2> QED
    BY <1>3, <2>1, ClerkLoads DEF DecisionLoads
<1>4. CASE ShareLoads(k)
  <2>1. PICK found \in ShareRow \cup {Null}, was \in Share : Load(k, [pc |-> "share", found |-> found, was |-> was])
    BY <1>4 DEF ShareLoads, Existing, Share, DInv, DTypeOK
  <2> DEFINE t == [pc |-> "share", found |-> found, was |-> was]
  <2>2. t \in Clerk /\ ClerkOK(t)
    BY DEF Clerk, ClerkOK
  <2> QED
    BY <2>1, <2>2, ClerkLoads
<1> QED
  BY <1>1, <1>2, <1>3, <1>4

LEMMA ReviewerCommits ==
    ASSUME DInv, NEW k \in Desk, ReviewerSaves(k)
    PROVE  DInv'
<1>1. PICK d \in Document, old \in Document :
         /\ d = doc /\ old = clerk[k].loaded /\ old.uploader = d.uploader /\ clerk[k].who \in Reviewer
  BY DEF ReviewerSaves, DInv, DTypeOK, Clerk, Vacant, ClerkOK
<1> DEFINE new == [old EXCEPT !.status = "pending_review"]
           w == Written(d, old, new)
<1>2. new \in Document /\ new.uploader = old.uploader /\ new.status = "pending_review"
  BY DEF Document
<1>3. doc' = w
  BY <1>1 DEF ReviewerSaves
<1> HIDE DEF new
<1>4. w \in Document /\ w.uploader = d.uploader /\ w.status \in {d.status, "pending_review"}
  BY <1>2, WrittenDocument
<1> HIDE DEF w
<1>5. DTypeOK'
  BY <1>1, <1>3, <1>4, VacantClerk DEF ReviewerSaves, Done, DInv, DTypeOK, ReviewStatus
<1>6. ChosenByOthers' /\ NoSelfApproval'
  BY <1>1, <1>3, <1>4 DEF ReviewerSaves, DInv, ChosenByOthers, NoSelfApproval
<1> QED
  BY <1>1, <1>3, <1>4, <1>5, <1>6, ClerkDone DEF ReviewerSaves

LEMMA ApproverCommits ==
    ASSUME DInv, NEW k \in Desk, ApproverSaves(k)
    PROVE  DInv'
<1>1. PICK d \in Document, old \in Document :
         /\ d = doc /\ old = clerk[k].loaded /\ old.uploader = d.uploader
         /\ clerk[k].who \in Member /\ clerk[k].by \in Member /\ clerk[k].who \notin {d.uploader, clerk[k].by}
  BY DEF ApproverSaves, DInv, DTypeOK, Clerk, Vacant, ClerkOK
<1> DEFINE new == [old EXCEPT !.approval = "awaiting_approval"]
           w == Written(d, old, new)
<1>2. new \in Document /\ new.uploader = old.uploader /\ new.status = old.status
  BY DEF Document
<1>3. doc' = w
  BY <1>1 DEF ApproverSaves
<1> HIDE DEF new
<1>4. w \in Document /\ w.uploader = d.uploader /\ w.status = d.status
  BY <1>2, WrittenDocument
<1> HIDE DEF w
<1>5. DTypeOK'
  BY <1>1, <1>3, <1>4, VacantClerk DEF ApproverSaves, Done, DInv, DTypeOK, Approval
<1>6. ChosenByOthers' /\ NoSelfApproval'
  BY <1>1, <1>3, <1>4 DEF ApproverSaves, DInv, ChosenByOthers, NoSelfApproval
<1> QED
  BY <1>1, <1>3, <1>4, <1>5, <1>6, ClerkDone DEF ApproverSaves

LEMMA DecisionCommits ==
    ASSUME DInv, NEW k \in Desk, DecisionSaves(k)
    PROVE  DInv'
<1>1. PICK d \in Document, old \in Document, v \in Decision, a \in Member :
         /\ d = doc /\ old = clerk[k].loaded /\ old.uploader = d.uploader
         /\ v = clerk[k].decision /\ a = clerk[k].who /\ \E m \in Member : <<a, m>> \in assigned
  BY DEF DecisionSaves, DInv, DTypeOK, Clerk, Vacant, ClerkOK
<1> DEFINE new == Decided(old, v)
           w == Written(d, old, new)
<1>2. new \in Document /\ new.uploader = old.uploader /\ (new.status = old.status \/ new.status = v)
  BY DEF Document, Decided, Decision
<1>3. doc' = w /\ endorsed' = IF v = "approved" THEN endorsed \cup {a} ELSE endorsed
  BY <1>1 DEF DecisionSaves
<1> HIDE DEF new
<1>4. w \in Document /\ w.uploader = d.uploader /\ (w.status = d.status \/ w.status = v)
  BY <1>2, WrittenDocument
<1> HIDE DEF w
<1>5. DTypeOK'
  BY <1>1, <1>3, <1>4, VacantClerk DEF DecisionSaves, Done, DInv, DTypeOK
<1>6. ChosenByOthers'
  BY <1>1, <1>3, <1>4 DEF DecisionSaves, DInv, ChosenByOthers
<1>7. NoSelfApproval'
  <2>1. a # d.uploader /\ \E m \in Member \ {a} : <<a, m>> \in assigned
    BY <1>1 DEF DInv, ChosenByOthers
  <2> QED
    BY <1>1, <1>3, <1>4, <2>1 DEF DecisionSaves, DInv, NoSelfApproval
<1> QED
  BY <1>1, <1>3, <1>4, <1>5, <1>6, <1>7, ClerkDone DEF DecisionSaves

LEMMA DocumentUntouched ==
    ASSUME DInv, UNCHANGED <<doc, assigned, endorsed>>, DTypeOK',
           \A k \in Desk : clerk'[k] \in {Vacant, clerk[k]}
    PROVE  DInv'
<1>1. ASSUME NEW j \in Desk PROVE ClerkOK(clerk[j])'
  <2>1. CASE clerk'[j] = Vacant
    BY <2>1 DEF ClerkOK, Vacant
  <2>2. CASE clerk'[j] = clerk[j]
    BY <2>2 DEF DInv, ClerkOK
  <2> QED
    BY <2>1, <2>2
<1> QED
  BY <1>1 DEF DInv, ChosenByOthers, NoSelfApproval

LEMMA DocumentStep ==
    ASSUME DInv, [DNext]_dvars
    PROVE  DInv'
<1>1. ASSUME NEW k \in Desk, ShareSaves(k) \/ DAbandon(k) PROVE DInv'
  <2>1. DTypeOK'
    BY <1>1, VacantClerk DEF ShareSaves, DAbandon, Done, DTables, NextRow, DInv, DTypeOK, Clerk, Vacant, Share
  <2>2. \A j \in Desk : clerk'[j] \in {Vacant, clerk[j]}
    BY <1>1 DEF ShareSaves, DAbandon, Done, DInv, DTypeOK
  <2> QED
    BY <1>1, <2>1, <2>2, DocumentUntouched DEF ShareSaves, DAbandon, DTables
<1>2. ASSUME NEW r \in Reviewer, SubmitReview(r) PROVE DInv'
  BY <1>2, DocumentUntouched DEF SubmitReview, Reviewed, DInv, DTypeOK, ReviewStatus
<1>3. ASSUME NEW w \in ShareRow, RevokeShare(w) PROVE DInv'
  BY <1>3, DocumentUntouched DEF RevokeShare, Revoked, DInv, DTypeOK, Share
<1>4. ASSUME NEW s \in Signer, RequestSignature(s) \/ SubmitSignature(s) \/ DeclineSignature(s) PROVE DInv'
  BY <1>4, DocumentUntouched
     DEF RequestSignature, SubmitSignature, DeclineSignature, Requested, Answer, DInv, DTypeOK, SignatureStatus
<1>5. CASE UNCHANGED dvars
  BY <1>5, DocumentUntouched DEF dvars, DInv, DTypeOK
<1> QED
  BY <1>1, <1>2, <1>3, <1>4, <1>5, DocumentLoads, ReviewerCommits, ApproverCommits, DecisionCommits DEF DNext

LEMMA DocumentInit == DInit => DInv
<1> SUFFICES ASSUME DInit PROVE DInv
  OBVIOUS
<1>1. PICK u \in Member : doc = Uploaded(u)
  BY DEF DInit
<1>2. DTypeOK /\ NoSelfApproval
  BY <1>1, VacantClerk DEF DInit, DTypeOK, NoSelfApproval, Uploaded, NewDocument, Document,
                           ReviewStatus, Share, SignatureStatus
<1> QED
  BY <1>2 DEF DInit, DInv, ChosenByOthers, ClerkOK, Vacant

\* For any users and any number of requests at once: a document is approved by
\* an owner's upload or by somebody else, whom again somebody else chose.
THEOREM ApprovedByOthers == DSpec => []NoSelfApproval
<1>1. DInv => NoSelfApproval
  BY DEF DInv
<1> QED
  BY <1>1, DocumentInit, DocumentStep, PTL DEF DSpec

-----------------------------------------------------------------------------
(* Invitations. *)

\* The handler has inserted the account for the request r, or for itself.
MadeBy(maker, r) == account # Null /\ account.maker = maker /\ account.of = r

\* What is left to do for an account that was inserted.
InviterOK(t) ==
    /\ t.pc \in {"tenant", "insert", "code"} /\ t.maker = "approve" => t.of \in RequestId
    /\ t.pc = "code" => MadeBy(t.maker, t.of)
    /\ t.pc = "mark" => MadeBy("approve", t.of) /\ account.code

NInv == NTypeOK /\ (\A k \in Desk : InviterOK(inviter[k])) /\ ApprovedMadeTheAccount

LEMMA VacantInviter == Vacant \in Inviter /\ InviterOK(Vacant) /\ InviterOK(Vacant)'
BY DEF Inviter, InviterOK, Vacant

\* A handler goes on, and the account is neither replaced nor loses its code.
LEMMA InviterStep ==
    ASSUME NInv, NEW k \in Desk, NEW t \in Inviter, InviterOK(t)', NGoto(k, t),
           requests' \in [RequestId -> CoAdminRequest], account' \in Account \cup {Null}, tenants' \in 0 .. MaxTenants,
           account # Null => /\ account' # Null /\ account'.maker = account.maker /\ account'.of = account.of
                             /\ account.code => account'.code,
           ApprovedMadeTheAccount'
    PROVE  NInv'
<1>1. \A j \in Desk : inviter'[j] = IF j = k THEN t ELSE inviter[j]
  BY DEF NInv, NTypeOK, NGoto
<1>2. inviter' \in [Desk -> Inviter]
  BY DEF NInv, NTypeOK, NGoto
<1>3. ASSUME NEW j \in Desk PROVE InviterOK(inviter[j])'
  <2>1. CASE j = k
    <3>1. inviter'[j] = t
      BY <1>1, <2>1
    <3> QED
      BY <3>1 DEF InviterOK, MadeBy
  <2>2. CASE j # k
    <3>1. inviter'[j] = inviter[j] /\ InviterOK(inviter[j])
      BY <1>1, <2>2 DEF NInv
    <3> QED
      BY <3>1 DEF InviterOK, MadeBy
  <2> QED
    BY <2>1, <2>2
<1> QED
  BY <1>2, <1>3 DEF NInv, NTypeOK

\* Only the handler moves.
LEMMA InviterMoves ==
    ASSUME NInv, NEW k \in Desk, NEW t \in Inviter, InviterOK(t), NGoto(k, t), UNCHANGED NTables
    PROVE  NInv'
<1>1. InviterOK(t)' /\ ApprovedMadeTheAccount'
  BY DEF NTables, InviterOK, MadeBy, NInv, ApprovedMadeTheAccount
<1> QED
  BY <1>1, InviterStep DEF NTables, NInv, NTypeOK

LEMMA InvitersStart ==
    ASSUME NInv, NEW k \in Desk,
           \/ \E p \in Property : SubmitChecks(k, p)
           \/ \E r \in RequestId : Approve(k, r) \/ Reject(k, r)
           \/ Register(k) \/ InviteUser(k) \/ InviteOwner(k) \/ NAbandon(k)
    PROVE  NInv'
<1>1. PICK t \in Inviter : InviterOK(t) /\ NGoto(k, t) /\ UNCHANGED NTables
  <2>1. ASSUME NEW p \in Property, SubmitChecks(k, p)
        PROVE  \E t \in Inviter : InviterOK(t) /\ NGoto(k, t) /\ UNCHANGED NTables
    <3>1. [pc |-> "submit", property |-> p] \in Inviter /\ InviterOK([pc |-> "submit", property |-> p])
      BY DEF Inviter, InviterOK
    <3> QED
      BY <2>1, <3>1 DEF SubmitChecks, Starts
  <2>2. ASSUME NEW r \in RequestId, Approve(k, r)
        PROVE  \E t \in Inviter : InviterOK(t) /\ NGoto(k, t) /\ UNCHANGED NTables
    <3> DEFINE t == [pc |-> "insert", maker |-> "approve", of |-> r]
    <3>1. t \in Inviter /\ InviterOK(t)
      BY DEF Inviter, Maker, InviterOK
    <3> QED
      BY <2>2, <3>1 DEF Approve, Starts
  <2>3. ASSUME NEW r \in RequestId, Reject(k, r)
        PROVE  \E t \in Inviter : InviterOK(t) /\ NGoto(k, t) /\ UNCHANGED NTables
    <3>1. [pc |-> "reject", of |-> r] \in Inviter /\ InviterOK([pc |-> "reject", of |-> r])
      BY DEF Inviter, InviterOK
    <3> QED
      BY <2>3, <3>1 DEF Reject, Starts
  <2>4. ASSUME NEW pc \in {"insert", "tenant"}, NEW m \in {"register", "invite", "owner"},
               Starts(k, [pc |-> pc, maker |-> m, of |-> Null])
        PROVE  \E t \in Inviter : InviterOK(t) /\ NGoto(k, t) /\ UNCHANGED NTables
    <3> DEFINE t == [pc |-> pc, maker |-> m, of |-> Null]
    <3>1. t \in Inviter /\ InviterOK(t)
      BY DEF Inviter, Maker, InviterOK
    <3> QED
      BY <2>4, <3>1 DEF Starts
  <2> QED
    BY <2>1, <2>2, <2>3, <2>4, VacantInviter DEF Register, InviteUser, InviteOwner, NAbandon
<1> QED
  BY <1>1, InviterMoves

\* The account and the approvals stay as they are when a request is written.
LEMMA RequestSaves ==
    ASSUME NInv, NEW k \in Desk, SubmitSaves(k) \/ MarkSaves(k) \/ RejectSaves(k)
    PROVE  NInv'
<1>1. /\ requests' \in [RequestId -> CoAdminRequest]
      /\ \A r \in RequestId : requests'[r].status = "approved" =>
            requests[r].status = "approved" \/ (inviter[k].pc = "mark" /\ r = inviter[k].of)
  <2>1. CASE SubmitSaves(k)
    <3>1. inviter[k].property \in Property
      BY <2>1 DEF SubmitSaves, NInv, NTypeOK, Inviter, Vacant
    <3> QED
      BY <2>1, <3>1 DEF SubmitSaves, NInv, NTypeOK, CoAdminRequest
  <2>2. CASE MarkSaves(k) \/ RejectSaves(k)
    <3>1. inviter[k].of \in RequestId
      BY <2>2 DEF MarkSaves, RejectSaves, NInv, NTypeOK, Inviter, Vacant
    <3> QED
      BY <2>2, <3>1 DEF MarkSaves, RejectSaves, NInv, NTypeOK, CoAdminRequest
  <2> QED
    BY <2>1, <2>2
<1>2. NGoto(k, Vacant) /\ UNCHANGED <<account, tenants>>
  BY DEF SubmitSaves, MarkSaves, RejectSaves
<1>3. ApprovedMadeTheAccount'
  BY <1>1, <1>2 DEF NInv, InviterOK, MadeBy, ApprovedMadeTheAccount
<1> QED
  BY <1>1, <1>2, <1>3, VacantInviter, InviterStep DEF NInv, NTypeOK

LEMMA InsertionSaves ==
    ASSUME NInv, NEW k \in Desk, InsertSaves(k)
    PROVE  NInv'
<1>1. PICK m \in Maker, r \in RequestId \cup {Null} :
         /\ inviter[k] = [pc |-> "insert", maker |-> m, of |-> r]
         /\ m = "approve" => r \in RequestId
  <2>1. inviter[k] \in Inviter /\ inviter[k].pc = "insert" /\ InviterOK(inviter[k])
    BY DEF InsertSaves, NInv, NTypeOK
  <2>2. inviter[k] \in [pc : {"tenant", "insert", "code"}, maker : Maker, of : RequestId \cup {Null}]
    BY <2>1 DEF Inviter, Vacant
  <2> QED
    BY <2>1, <2>2 DEF InviterOK
<1>2. CASE account # Null
  BY <1>2, VacantInviter, InviterMoves DEF InsertSaves, Refused, NTables
<1>3. CASE account = Null
  <2> DEFINE new == [maker |-> m, of |-> r, code |-> FALSE, deleted |-> FALSE]
             t == [pc |-> "code", maker |-> m, of |-> r]
  <2>1. account' = new /\ NGoto(k, t) /\ UNCHANGED <<requests, tenants>>
    BY <1>1, <1>3 DEF InsertSaves, Refused
  <2>2. new \in Account /\ t \in Inviter
    BY DEF Account, Inviter
  <2>3. InviterOK(t)'
    BY <1>1, <2>1, <2>2, InvitationsAssumption DEF InviterOK, MadeBy
  <2>4. ApprovedMadeTheAccount'
    BY <1>3, <2>1 DEF NInv, ApprovedMadeTheAccount
  <2> QED
    BY <1>3, <2>1, <2>2, <2>3, <2>4, InviterStep DEF NInv, NTypeOK
<1> QED
  BY <1>2, <1>3

LEMMA CodesSave ==
    ASSUME NInv, NEW k \in Desk, CodeSaves(k)
    PROVE  NInv'
<1>1. PICK m \in Maker, r \in RequestId \cup {Null}, a \in Account :
         /\ inviter[k] = [pc |-> "code", maker |-> m, of |-> r]
         /\ m = "approve" => r \in RequestId
         /\ a = account /\ a.maker = m /\ a.of = r
  <2>1. inviter[k] \in Inviter /\ inviter[k].pc = "code" /\ InviterOK(inviter[k])
    BY DEF CodeSaves, NInv, NTypeOK
  <2>2. inviter[k] \in [pc : {"tenant", "insert", "code"}, maker : Maker, of : RequestId \cup {Null}]
    BY <2>1 DEF Inviter, Vacant
  <2> QED
    BY <2>1, <2>2 DEF InviterOK, MadeBy, NInv, NTypeOK
<1> DEFINE new == [a EXCEPT !.code = TRUE]
           t == IF m = "approve" THEN [pc |-> "mark", of |-> r] ELSE Vacant
<1>2. account' = new /\ NGoto(k, t) /\ UNCHANGED <<requests, tenants>>
  BY <1>1 DEF CodeSaves
<1>3. new \in Account /\ new.maker = m /\ new.of = r /\ new.code
  BY <1>1 DEF Account
<1>4. t \in Inviter
  BY <1>1 DEF Inviter
<1> HIDE DEF new
<1>5. InviterOK(t)'
  BY <1>1, <1>2, <1>3, InvitationsAssumption DEF InviterOK, MadeBy, Vacant
<1>6. ApprovedMadeTheAccount'
  BY <1>1, <1>2, <1>3, InvitationsAssumption DEF NInv, ApprovedMadeTheAccount
<1> HIDE DEF t
<1>7. account' # Null /\ account'.maker = account.maker /\ account'.of = account.of /\ account'.code
  BY <1>1, <1>2, <1>3, InvitationsAssumption
<1> QED
  BY <1>2, <1>3, <1>4, <1>5, <1>6, <1>7, InviterStep DEF NInv, NTypeOK

LEMMA InvitationStep ==
    ASSUME NInv, [NNext]_ivars
    PROVE  NInv'
<1>1. ASSUME NEW k \in Desk, TenantSaves(k) PROVE NInv'
  <2>1. inviter[k] \in Inviter /\ inviter[k].pc = "tenant" /\ InviterOK(inviter[k])
    BY <1>1 DEF TenantSaves, NInv, NTypeOK
  <2>2. PICK m \in Maker, r \in RequestId \cup {Null} : inviter[k] = [pc |-> "tenant", maker |-> m, of |-> r]
    BY <2>1 DEF Inviter, Vacant
  <2> DEFINE t == [pc |-> "insert", maker |-> m, of |-> r]
  <2>3. NGoto(k, t) /\ UNCHANGED <<requests, account>> /\ tenants' = tenants + 1 /\ tenants < MaxTenants
    BY <1>1, <2>2 DEF TenantSaves
  <2>4. t \in Inviter /\ InviterOK(t)'
    BY <2>1, <2>2 DEF Inviter, InviterOK
  <2>5. tenants' \in 0 .. MaxTenants
    BY <2>3, InvitationsAssumption DEF NInv, NTypeOK
  <2> QED
    BY <2>3, <2>4, <2>5, InviterStep DEF NInv, NTypeOK, ApprovedMadeTheAccount
<1>2. CASE DeleteUser
  <2>1. PICK a \in Account : a = account
    BY <1>2 DEF DeleteUser, NInv, NTypeOK
  <2> DEFINE new == [a EXCEPT !.deleted = TRUE]
  <2>2. account' = new /\ UNCHANGED <<requests, tenants, inviter>>
    BY <1>2, <2>1 DEF DeleteUser
  <2>3. new \in Account /\ new.maker = a.maker /\ new.of = a.of /\ new.code = a.code
    BY DEF Account
  <2> HIDE DEF new
  <2>4. ASSUME NEW j \in Desk PROVE InviterOK(inviter[j])'
    BY <2>1, <2>2, <2>3, InvitationsAssumption DEF NInv, InviterOK, MadeBy
  <2> QED
    BY <2>1, <2>2, <2>3, <2>4, InvitationsAssumption DEF NInv, NTypeOK, ApprovedMadeTheAccount
<1>3. CASE UNCHANGED ivars
  BY <1>3 DEF ivars, NInv, NTypeOK, InviterOK, MadeBy, ApprovedMadeTheAccount
<1> QED
  BY <1>1, <1>2, <1>3, InvitersStart, RequestSaves, InsertionSaves, CodesSave DEF NNext

LEMMA InvitationInit == NInit => NInv
<1> SUFFICES ASSUME NInit PROVE NInv
  OBVIOUS
<1>1. NTypeOK
  BY VacantInviter, InvitationsAssumption DEF NInit, NTypeOK, CoAdminRequest
<1> QED
  BY <1>1, VacantInviter DEF NInit, NInv, ApprovedMadeTheAccount

\* For any number of requests for a co-admin, approved, invited and registered
\* at once: an approved one made the account and sent its code.
THEOREM ApprovalsMadeTheAccount == NSpec => []ApprovedMadeTheAccount
<1>1. NInv => ApprovedMadeTheAccount
  BY DEF NInv
<1> QED
  BY <1>1, InvitationInit, InvitationStep, PTL DEF NSpec

-----------------------------------------------------------------------------
(* Accounts. *)

\* No handler takes a verification back, and a login is of a verified email
\* or verifies it.
LobbyOK(t) ==
    t # Vacant =>
       /\ "is_verified" \in DOMAIN t.new => t.new["is_verified"] = TRUE
       /\ t.pc = "login" => user.is_verified \/ "is_verified" \in DOMAIN t.new

AInv == ATypeOK /\ (\A k \in Desk : LobbyOK(lobby[k])) /\ SessionsAreVerified

\* Columns that may be written: a verification is only given.
ChangeOK(new) ==
    /\ DOMAIN new \subseteq Columns
    /\ \A c \in DOMAIN new : new[c] \in Field(c)
    /\ "is_verified" \in DOMAIN new => new["is_verified"] = TRUE

LEMMA DirtyOK ==
    ASSUME NEW new, ChangeOK(new)
    PROVE  ChangeOK(Dirty(new))
<1>1. DOMAIN Dirty(new) \subseteq DOMAIN new /\ \A c \in DOMAIN Dirty(new) : Dirty(new)[c] = new[c]
  BY DEF Dirty
<1> QED
  BY <1>1 DEF ChangeOK

LEMMA FieldsOK ==
    ASSUME NEW r, DOMAIN r \subseteq Columns,
           "is_active" \in DOMAIN r => r["is_active"] \in BOOLEAN,
           "is_verified" \in DOMAIN r => r["is_verified"] = TRUE,
           "otp_code" \in DOMAIN r => r["otp_code"] \in Code \cup {Null},
           "deleted" \in DOMAIN r => r["deleted"] \in BOOLEAN
    PROVE  ChangeOK(r)
BY DEF ChangeOK, Columns, Field

\* The changes that handlers decide on.
LEMMA ChangesOK ==
    ASSUME NEW b \in BOOLEAN, NEW c \in Code \cup {Null}
    PROVE  /\ ChangeOK(<<>>)
           /\ ChangeOK([is_verified |-> TRUE])
           /\ ChangeOK([otp_code |-> c])
           /\ ChangeOK([is_verified |-> TRUE, otp_code |-> c])
           /\ ChangeOK([is_active |-> b])
           /\ ChangeOK([is_active |-> b, deleted |-> TRUE])
<1>1. ChangeOK(<<>>)
  <2>1. DOMAIN <<>> = {}
    OBVIOUS
  <2> QED
    BY <2>1, FieldsOK
<1>2. ChangeOK([is_verified |-> TRUE])
  BY FieldsOK DEF Columns
<1>3. ChangeOK([otp_code |-> c])
  BY FieldsOK DEF Columns
<1>4. ChangeOK([is_verified |-> TRUE, otp_code |-> c])
  BY FieldsOK DEF Columns
<1>5. ChangeOK([is_active |-> b])
  BY FieldsOK DEF Columns
<1>6. ChangeOK([is_active |-> b, deleted |-> TRUE])
  BY FieldsOK DEF Columns
<1> QED
  BY <1>1, <1>2, <1>3, <1>4, <1>5, <1>6

\* A row with such columns written is a row, verified if it was.
LEMMA OverOK ==
    ASSUME user \in UserRow, NEW new, ChangeOK(new)
    PROVE  /\ Over(new) \in UserRow
           /\ user.is_verified \/ "is_verified" \in DOMAIN new => Over(new).is_verified
<1> DEFINE w == Over(new)
<1>1. w = [c \in Columns |-> IF c \in DOMAIN new THEN new[c] ELSE user[c]]
  BY DEF Over
<1>2. /\ w["is_active"] \in BOOLEAN /\ w["is_verified"] \in BOOLEAN /\ w["deleted"] \in BOOLEAN
      /\ w["otp_code"] \in Code \cup {Null}
  BY <1>1 DEF ChangeOK, Field, UserRow, Columns
<1>3. user.is_verified \/ "is_verified" \in DOMAIN new => w["is_verified"]
  BY <1>1 DEF ChangeOK, UserRow, Columns
<1>4. w = [is_active |-> w["is_active"], is_verified |-> w["is_verified"],
           otp_code |-> w["otp_code"], deleted |-> w["deleted"]]
  BY <1>1 DEF Columns
<1> HIDE DEF w
<1>5. w \in UserRow /\ w.is_verified = w["is_verified"]
  BY <1>2, <1>4 DEF UserRow
<1> QED
  BY <1>3, <1>5 DEF w

\* A handler decides on columns to write.
LEMMA HandlerDecides ==
    ASSUME AInv, NEW k \in Desk, NEW t, AGoto(k, t),
           t.pc \in {"edit", "mail", "accept", "login"}, ChangeOK(t.new),
           t.pc = "login" => user.is_verified \/ "is_verified" \in DOMAIN t.new,
           codes' \in 0 .. MaxCodes, UNCHANGED <<user, expired, sessions>>
    PROVE  AInv'
<1>1. \A j \in Desk : lobby'[j] = IF j = k THEN t ELSE lobby[j]
  BY DEF AInv, ATypeOK, AGoto
<1>2. lobby' = [j \in Desk |-> lobby'[j]]
  BY DEF AInv, ATypeOK, AGoto
<1>3. ASSUME NEW j \in Desk
      PROVE  /\ lobby'[j] = Vacant \/
                   /\ lobby'[j].pc \in {"edit", "mail", "accept", "login"}
                   /\ DOMAIN lobby'[j].new \subseteq Columns
                   /\ \A c \in DOMAIN lobby'[j].new : lobby'[j].new[c] \in Field(c)
             /\ LobbyOK(lobby[j])'
  <2>1. CASE j = k
    <3>1. lobby'[j] = t
      BY <1>1, <2>1
    <3> QED
      BY <3>1 DEF ChangeOK, LobbyOK
  <2>2. CASE j # k
    <3>1. lobby'[j] = lobby[j] /\ LobbyOK(lobby[j])
      BY <1>1, <2>2 DEF AInv
    <3> QED
      BY <3>1 DEF AInv, ATypeOK, LobbyOK
  <2> QED
    BY <2>1, <2>2
<1> QED
  BY <1>2, <1>3 DEF AInv, ATypeOK, SessionsAreVerified

\* A handler is done, having written columns of the row or none.
LEMMA HandlerLeaves ==
    ASSUME AInv, NEW k \in Desk, AGoto(k, Vacant), codes' = codes, expired' \in BOOLEAN, sessions' \in BOOLEAN,
           user' \in UserRow, user.is_verified => user'.is_verified, SessionsAreVerified'
    PROVE  AInv'
<1>1. \A j \in Desk : lobby'[j] = IF j = k THEN Vacant ELSE lobby[j]
  BY DEF AInv, ATypeOK, AGoto
<1>2. lobby' = [j \in Desk |-> lobby'[j]]
  BY DEF AInv, ATypeOK, AGoto
<1>3. ASSUME NEW j \in Desk
      PROVE  /\ lobby'[j] = Vacant \/
                   /\ lobby'[j].pc \in {"edit", "mail", "accept", "login"}
                   /\ DOMAIN lobby'[j].new \subseteq Columns
                   /\ \A c \in DOMAIN lobby'[j].new : lobby'[j].new[c] \in Field(c)
             /\ LobbyOK(lobby[j])'
  <2>1. CASE j = k
    BY <1>1, <2>1 DEF LobbyOK
  <2>2. CASE j # k
    <3>1. lobby'[j] = lobby[j] /\ LobbyOK(lobby[j])
      BY <1>1, <2>2 DEF AInv
    <3> QED
      BY <3>1 DEF AInv, ATypeOK, LobbyOK
  <2> QED
    BY <2>1, <2>2
<1> QED
  BY <1>2, <1>3 DEF AInv, ATypeOK

LEMMA CodesAreSent ==
    ASSUME AInv, NEW k \in Desk, Sends(k)
    PROVE  AInv'
<1> DEFINE new == [otp_code |-> codes + 1]
           t == [pc |-> "mail", new |-> Dirty(new)]
<1>1. codes + 1 \in Code /\ codes' \in 0 .. MaxCodes
  BY AccountsAssumption DEF Sends, AInv, ATypeOK, Code
<1>2. ChangeOK(new)
  BY <1>1 DEF ChangeOK, Columns, Field
<1>3. ChangeOK(Dirty(new))
  BY <1>2, DirtyOK
<1>4. AGoto(k, t) /\ UNCHANGED <<user, expired, sessions>>
  BY DEF Sends, Decides
<1> QED
  BY <1>1, <1>3, <1>4, HandlerDecides

LEMMA CodesAreAccepted ==
    ASSUME AInv, NEW k \in Desk, NEW c \in Code, VerifyOtp(k, c) \/ ResetPassword(k, c)
    PROVE  AInv'
<1>1. ASSUME NEW new, ChangeOK(Accepted(new)), Accepts(k, c, new)
      PROVE  AInv'
  <2> DEFINE t == [pc |-> "accept", code |-> c, new |-> Dirty(Accepted(new))]
  <2>1. ChangeOK(Dirty(Accepted(new)))
    BY <1>1, DirtyOK
  <2>2. AGoto(k, t) /\ UNCHANGED <<user, codes, expired, sessions>>
    BY <1>1 DEF Accepts
  <2> QED
    BY <2>1, <2>2, HandlerDecides DEF AInv, ATypeOK
<1>2. ChangeOK(Accepted([is_verified |-> TRUE, otp_code |-> c])) /\ ChangeOK(Accepted([otp_code |-> c]))
  <2>1. ChangeOK([[is_verified |-> TRUE, otp_code |-> c] EXCEPT !.otp_code = Null])
    BY FieldsOK DEF Columns
  <2>2. [[otp_code |-> c] EXCEPT !.otp_code = Null] = [otp_code |-> Null]
    OBVIOUS
  <2> QED
    BY <2>1, <2>2, ChangesOK DEF Accepted
<1> QED
  BY <1>1, <1>2 DEF VerifyOtp, ResetPassword

LEMMA LoginsBegin ==
    ASSUME AInv, NEW k \in Desk, Login(k) \/ SuperadminLogin(k) \/ GoogleLogin(k)
    PROVE  AInv'
<1>1. PICK new : /\ ChangeOK(new) /\ Enters(k, new)
                 /\ user.is_verified \/ "is_verified" \in DOMAIN Dirty(new)
  <2>1. CASE user.is_verified
    <3>1. ChangeOK(<<>>) /\ ChangeOK([is_verified |-> TRUE])
      BY ChangesOK
    <3> QED
      BY <2>1, <3>1 DEF Login, SuperadminLogin, GoogleLogin
  <2>2. CASE ~user.is_verified
    <3> DEFINE new == [is_verified |-> TRUE]
    <3>1. ChangeOK(new) /\ Enters(k, new)
      BY <2>2, ChangesOK DEF Login, SuperadminLogin, GoogleLogin, Verified
    <3>2. "is_verified" \in DOMAIN Dirty(new)
      BY <2>2 DEF Dirty
    <3> QED
      BY <3>1, <3>2
  <2> QED
    BY <2>1, <2>2
<1>2. ChangeOK(Dirty(new))
  BY <1>1, DirtyOK
<1> QED
  BY <1>1, <1>2, HandlerDecides DEF Enters, Decides, AInv, ATypeOK

LEMMA EditsBegin ==
    ASSUME AInv, NEW k \in Desk,
           Deactivate(k) \/ Activate(k) \/ Suspend(k) \/ Unsuspend(k) \/ Delete(k)
    PROVE  AInv'
<1>1. PICK new : ChangeOK(new) /\ Edits(k, new)
  <2>1. \A b \in BOOLEAN : ChangeOK([is_active |-> b]) /\ ChangeOK([is_active |-> b, deleted |-> TRUE])
    BY ChangesOK
  <2> QED
    BY <2>1 DEF Deactivate, Activate, Suspend, Unsuspend, Delete
<1>2. ChangeOK(Dirty(new))
  BY <1>1, DirtyOK
<1> QED
  BY <1>1, <1>2, HandlerDecides DEF Edits, Decides, AInv, ATypeOK

LEMMA AccountCommits ==
    ASSUME AInv, NEW k \in Desk, ASaves(k)
    PROVE  AInv'
<1>1. PICK new : new = lobby[k].new /\ ChangeOK(new)
                 /\ (lobby[k].pc = "login" => user.is_verified \/ "is_verified" \in DOMAIN new)
  <2>1. LobbyOK(lobby[k]) /\ lobby[k] # Vacant
    BY DEF AInv, ASaves
  <2> QED
    BY <2>1 DEF AInv, ATypeOK, LobbyOK, ChangeOK
<1>2. user' = Over(new) /\ user \in UserRow
  BY <1>1 DEF ASaves, AInv, ATypeOK
<1>3. user' \in UserRow /\ (user.is_verified \/ "is_verified" \in DOMAIN new => user'.is_verified)
  BY <1>1, <1>2, OverOK
<1>4. SessionsAreVerified'
  BY <1>1, <1>3 DEF ASaves, AInv, SessionsAreVerified
<1>5. expired' \in BOOLEAN /\ sessions' \in BOOLEAN /\ codes' = codes /\ AGoto(k, Vacant)
  BY DEF ASaves, AInv, ATypeOK
<1> QED
  BY <1>3, <1>4, <1>5, HandlerLeaves

LEMMA AccountStep ==
    ASSUME AInv, [ANext]_avars
    PROVE  AInv'
<1>1. ASSUME NEW k \in Desk, AAbandon(k) PROVE AInv'
  BY <1>1, HandlerLeaves DEF AAbandon, AInv, ATypeOK, SessionsAreVerified
<1>2. CASE CodeExpires \/ Refresh \/ UNCHANGED avars
  <2>1. UNCHANGED <<user, codes, sessions, lobby>> /\ expired' \in BOOLEAN
    BY <1>2 DEF CodeExpires, Refresh, avars, AInv, ATypeOK
  <2> QED
    BY <2>1 DEF AInv, ATypeOK, LobbyOK, SessionsAreVerified
<1> QED
  BY <1>1, <1>2, CodesAreSent, CodesAreAccepted, LoginsBegin, EditsBegin, AccountCommits
     DEF ANext, Resend, ForgotPassword

LEMMA AccountInit == AInit => AInv
<1> SUFFICES ASSUME AInit PROVE AInv
  OBVIOUS
<1>1. PICK k \in Desk :
         lobby = [j \in Desk |-> IF j = k THEN [pc |-> "mail", new |-> [otp_code |-> 1]] ELSE Vacant]
  BY DEF AInit
<1>2. user \in UserRow /\ codes \in 0 .. MaxCodes
  BY AccountsAssumption DEF AInit, Registered, UserRow
<1>4. expired \in BOOLEAN /\ sessions = FALSE
  BY DEF AInit, Registered
<1>3. ASSUME NEW j \in Desk
      PROVE  /\ lobby[j] = Vacant \/
                   /\ lobby[j].pc \in {"edit", "mail", "accept", "login"}
                   /\ DOMAIN lobby[j].new \subseteq Columns
                   /\ \A c \in DOMAIN lobby[j].new : lobby[j].new[c] \in Field(c)
             /\ LobbyOK(lobby[j])
  BY <1>1, AccountsAssumption DEF Columns, Field, Code, LobbyOK
<1> QED
  BY <1>1, <1>2, <1>3, <1>4 DEF AInv, ATypeOK, SessionsAreVerified

\* For any number of requests at once and any number of codes: no late commit
\* leaves somebody with tokens and an email that is not verified.
THEOREM SessionsVerified == ASpec => []SessionsAreVerified
<1>1. AInv => SessionsAreVerified
  BY DEF AInv
<1> QED
  BY <1>1, AccountInit, AccountStep, PTL DEF ASpec

-----------------------------------------------------------------------------
(* Subscriptions. *)

Inserting(t) == t.pc \in {"starter", "verify", "activate"}

\* The row a request will insert is not there yet, the rows it loaded are, and
\* Stripe has ended those that it ends.
TaskOK(t) ==
    /\ Inserting(t) => t.row =< begun /\ sub[t.row].status = "none"
    /\ t.pc = "verify" => stripe[t.checkout].state # "none"
    /\ t.pc \in {"activate", "expire"} => \A r \in t.seen : sub[r].status # "none"
    /\ t.pc = "expire" => \A r \in t.seen : sub[r].checkout # Null /\ stripe[sub[r].checkout].state = "lapsed"

SInv ==
    /\ STypeOK
    /\ \A r \in Row : r > begun => sub[r].status = "none"
    /\ \A c \in Checkout : stripe[c].state # "none" => stripe[c].plan \in Plan
    /\ \A k \in Desk : TaskOK(task[k])
    /\ \A j, k \in Desk : j # k /\ Inserting(task[j]) /\ Inserting(task[k]) => task[j].row # task[k].row

LEMMA VacantTask == Vacant \in Task /\ ~Inserting(Vacant) /\ Vacant.pc = "idle"
BY DEF Task, Inserting, Vacant

LEMMA TaskTypes ==
    ASSUME NEW t \in Task
    PROVE  /\ Inserting(t) => t.row \in Row
           /\ t.pc = "verify" => t.checkout \in Checkout
           /\ t.pc = "activate" => t.seen \in SUBSET Row /\ t.plan \in Plan /\ t.checkout \in Checkout \cup {Null}
           /\ t.pc = "expire" => t.seen \in SUBSET Row
BY DEF Task, Vacant, Inserting

\* A request begins, and its row is the next one if it may insert.
LEMMA TaskBegins ==
    ASSUME SInv, NEW k \in Desk, NEW t \in Task, Begin(k, t), UNCHANGED <<sub, stripe>>, begun' \in 0 .. LastRow,
           TaskOK(t)', begun' = IF Inserting(t) THEN begun + 1 ELSE begun, Inserting(t) => t.row = begun + 1
    PROVE  SInv'
<1>1. \A j \in Desk : task'[j] = IF j = k THEN t ELSE task[j]
  BY DEF SInv, STypeOK, Begin
<1>2. STypeOK'
  BY DEF SInv, STypeOK, Begin
<1>3. begun \in Nat /\ begun =< begun'
  BY SubscriptionsAssumption DEF SInv, STypeOK
<1>4. ASSUME NEW j \in Desk, j # k PROVE TaskOK(task[j])' /\ (Inserting(task[j]) => task[j].row =< begun)
  <2>1. task'[j] = task[j] /\ TaskOK(task[j]) /\ task[j] \in Task
    BY <1>1, <1>4 DEF SInv, STypeOK
  <2>2. Inserting(task[j]) => task[j].row \in Row
    BY <2>1, TaskTypes
  <2>3. Inserting(task[j]) => task[j].row =< begun /\ task[j].row =< begun'
    BY <1>3, <2>1, <2>2 DEF TaskOK, Row
  <2> QED
    BY <2>1, <2>3 DEF TaskOK, Inserting
<1>5. TaskOK(task[k])'
  BY <1>1 DEF TaskOK, Inserting
<1>6. \A i, j \in Desk : i # j /\ Inserting(task'[i]) /\ Inserting(task'[j]) => task'[i].row # task'[j].row
  <2>1. \A j \in Desk : j # k /\ Inserting(t) /\ Inserting(task[j]) => task[j].row # t.row
    <3>1. \A n \in Nat : ~(n + 1 =< n)
      OBVIOUS
    <3> QED
      BY <1>3, <1>4, <3>1
  <2> QED
    BY <1>1, <2>1 DEF SInv
<1>7. \A r \in Row : r > begun' => sub'[r].status = "none"
  <2>1. \A r \in Row : r > begun' => r > begun
    BY <1>3 DEF Row, SInv, STypeOK
  <2> QED
    BY <2>1 DEF SInv
<1> QED
  BY <1>2, <1>4, <1>5, <1>6, <1>7 DEF SInv, Inserting

\* A request commits: rows that are there stay, and no row appears but its own.
LEMMA TaskCommits ==
    ASSUME SInv, NEW k \in Desk, Finish(k), sub' \in [Row -> TenantSubscription],
           \A r \in Row : sub[r].status # "none" => sub'[r].status # "none" /\ sub'[r].checkout = sub[r].checkout,
           \A r \in Row : sub[r].status = "none" /\ sub'[r] # sub[r] => Inserting(task[k]) /\ r = task[k].row
    PROVE  SInv'
<1>1. \A j \in Desk : task'[j] = IF j = k THEN Vacant ELSE task[j]
  BY DEF SInv, STypeOK, Finish
<1>2. STypeOK'
  BY VacantTask DEF SInv, STypeOK, Finish
<1>3. ASSUME NEW j \in Desk PROVE TaskOK(task[j])'
  <2>1. CASE j = k
    <3>1. task'[j] = Vacant
      BY <1>1, <2>1
    <3> QED
      BY <3>1, VacantTask DEF TaskOK, Inserting
  <2>2. CASE j # k
    <3>1. task'[j] = task[j] /\ TaskOK(task[j]) /\ task[j] \in Task
      BY <1>1, <2>2 DEF SInv, STypeOK
    <3>2. Inserting(task[j]) => sub'[task[j].row].status = "none"
      BY <2>2, <3>1, TaskTypes DEF SInv, TaskOK
    <3>3. task[j].pc \in {"activate", "expire"} =>
             \A r \in task[j].seen : sub'[r].status # "none" /\ sub'[r].checkout = sub[r].checkout
      BY <3>1, TaskTypes DEF TaskOK
    <3> QED
      BY <3>1, <3>2, <3>3 DEF TaskOK, Inserting, Finish
  <2> QED
    BY <2>1, <2>2
<1>4. \A i, j \in Desk : i # j /\ Inserting(task'[i]) /\ Inserting(task'[j]) => task'[i].row # task'[j].row
  BY <1>1, VacantTask DEF SInv
<1>5. \A r \in Row : r > begun' => sub'[r].status = "none"
  <2>1. Inserting(task[k]) => task[k].row =< begun /\ task[k].row \in Row
    BY TaskTypes DEF SInv, STypeOK, TaskOK
  <2>2. \A r \in Row : r =< begun => ~(r > begun)
    BY SubscriptionsAssumption DEF Row, SInv, STypeOK
  <2> QED
    BY <2>1, <2>2 DEF SInv, Finish
<1> QED
  BY <1>2, <1>3, <1>4, <1>5 DEF SInv, Finish, Inserting

\* The row of a request that begins.
LEMMA NextRowFree ==
    ASSUME SInv, begun < LastRow
    PROVE  begun + 1 \in Row /\ begun + 1 \in 0 .. LastRow /\ sub[begun + 1].status = "none"
<1>1. begun + 1 \in Row /\ begun + 1 \in 0 .. LastRow /\ begun + 1 > begun
  BY SubscriptionsAssumption DEF SInv, STypeOK, Row
<1> QED
  BY <1>1 DEF SInv

LEMMA InsertBegins ==
    ASSUME SInv, NEW k \in Desk, NEW t, BeginInsert(k, t), t \in Task, Inserting(t), t.row = begun + 1,
           t.pc = "verify" => stripe[t.checkout].state # "none",
           t.pc = "activate" => t.seen = ActiveRows
    PROVE  SInv'
<1>1. /\ begun' = begun + 1 /\ begun' \in 0 .. LastRow /\ begun + 1 =< begun'
      /\ sub[t.row].status = "none" /\ UNCHANGED <<sub, stripe>> /\ Begin(k, t)
  BY NextRowFree DEF BeginInsert, SInv, STypeOK
<1>2. t.pc # "expire"
  BY DEF Inserting
<1>3. TaskOK(t)'
  BY <1>1, <1>2 DEF TaskOK, Inserting, ActiveRows
<1> QED
  BY <1>1, <1>3, TaskBegins

LEMMA RequestsBegin ==
    ASSUME SInv, NEW k \in Desk,
           \/ NoPlanFound(k)
           \/ \E p \in Plan : SelectReads(k, p) \/ AssignReads(k, p)
           \/ \E c \in Checkout : VerifyChecks(k, c) \/ CompletedReads(k, c) \/ EndedReads(k, c)
    PROVE  SInv'
<1>1. CASE NoPlanFound(k)
  <2> DEFINE t == [pc |-> "starter", row |-> begun + 1]
  <2>1. t \in Task /\ Inserting(t)
    BY <1>1, NextRowFree DEF NoPlanFound, BeginInsert, Task, Inserting
  <2> QED
    BY <1>1, <2>1, InsertBegins DEF NoPlanFound
<1>2. ASSUME NEW p \in Plan, NEW c \in Checkout \cup {Null}, BeginInsert(k, Activation(begun + 1, p, c))
      PROVE  SInv'
  <2> DEFINE t == [pc |-> "activate", row |-> begun + 1, seen |-> ActiveRows, plan |-> p, checkout |-> c]
  <2>1. t \in Task /\ Inserting(t)
    BY <1>2, NextRowFree DEF BeginInsert, Task, Inserting, ActiveRows
  <2> QED
    BY <1>2, <2>1, InsertBegins DEF Activation
<1>3. ASSUME NEW c \in Checkout, VerifyChecks(k, c) PROVE SInv'
  <2> DEFINE t == [pc |-> "verify", row |-> begun + 1, checkout |-> c]
  <2>1. t \in Task /\ Inserting(t)
    BY <1>3, NextRowFree DEF VerifyChecks, BeginInsert, Task, Inserting
  <2> QED
    BY <1>3, <2>1, InsertBegins DEF VerifyChecks
<1>4. ASSUME NEW c \in Checkout, CompletedReads(k, c) PROVE SInv'
  <2>1. stripe[c].plan \in Plan /\ BeginInsert(k, Activation(begun + 1, stripe[c].plan, c))
    BY <1>4 DEF CompletedReads, SInv
  <2> QED
    BY <1>2, <2>1
<1>5. ASSUME NEW c \in Checkout, EndedReads(k, c) PROVE SInv'
  <2>1. PICK t \in Task : t = [pc |-> "expire", seen |-> {r \in ActiveRows : sub[r].checkout = c}]
    BY DEF Task, ActiveRows
  <2>2. UNCHANGED <<sub, stripe, begun>> /\ Begin(k, t) /\ stripe[c].state = "lapsed" /\ ~Inserting(t)
    BY <1>5, <2>1 DEF EndedReads, Ended, Inserting
  <2>3. TaskOK(t)'
    BY <2>1, <2>2, SubscriptionsAssumption DEF TaskOK, Inserting, ActiveRows
  <2>4. begun' \in 0 .. LastRow
    BY <2>2 DEF SInv, STypeOK
  <2> QED
    BY <2>2, <2>3, <2>4, TaskBegins
<1> QED
  BY <1>1, <1>2, <1>3, <1>4, <1>5 DEF SelectReads, AssignReads

\* The plan was paid for, so the row of the request may be inserted as before.
LEMMA VerifyGoesOn ==
    ASSUME SInv, NEW k \in Desk, VerifyReads(k)
    PROVE  SInv'
<1>1. PICK row \in Row, c \in Checkout : task[k] = [pc |-> "verify", row |-> row, checkout |-> c]
  BY DEF VerifyReads, SInv, STypeOK, Task, Vacant
<1>2. PICK p \in Plan : p = stripe[c].plan
  BY <1>1 DEF SInv, TaskOK
<1> DEFINE t == [pc |-> "activate", row |-> row, seen |-> ActiveRows, plan |-> p, checkout |-> c]
<1>3. t \in Task /\ Inserting(t) /\ Inserting(task[k]) /\ t.row = task[k].row
  BY <1>1 DEF Task, Inserting, ActiveRows
<1>4. UNCHANGED <<sub, stripe, begun>> /\ \A j \in Desk : task'[j] = IF j = k THEN t ELSE task[j]
  BY <1>1, <1>2 DEF VerifyReads, Activation, SInv, STypeOK
<1>5. STypeOK'
  BY <1>1, <1>2, <1>3 DEF VerifyReads, Activation, SInv, STypeOK
<1>6. ASSUME NEW j \in Desk PROVE TaskOK(task[j])'
  <2>1. CASE j = k
    <3>1. t.row =< begun /\ sub[t.row].status = "none" /\ \A r \in ActiveRows : sub[r].status # "none"
      BY <1>3 DEF SInv, TaskOK, ActiveRows
    <3> QED
      BY <1>4, <2>1, <3>1 DEF TaskOK, Inserting
  <2>2. CASE j # k
    <3>1. task'[j] = task[j] /\ TaskOK(task[j])
      BY <1>4, <2>2 DEF SInv
    <3> QED
      BY <1>4, <3>1 DEF TaskOK, Inserting
  <2> QED
    BY <2>1, <2>2
<1> HIDE DEF t
<1>7. \A i, j \in Desk : i # j /\ Inserting(task'[i]) /\ Inserting(task'[j]) => task'[i].row # task'[j].row
  BY <1>3, <1>4 DEF SInv
<1> QED
  BY <1>4, <1>5, <1>6, <1>7 DEF SInv, Inserting

\* What becomes of a row whose request commits, and of those it expires.
LEMMA CommittedRows ==
    ASSUME SInv, NEW k \in Desk, StarterSaves(k) \/ ActivateSaves(k) \/ EndedSaves(k)
    PROVE  /\ sub' \in [Row -> TenantSubscription]
           /\ \A r \in Row : sub[r].status # "none" => sub'[r].status # "none" /\ sub'[r].checkout = sub[r].checkout
           /\ \A r \in Row : sub[r].status = "none" /\ sub'[r] # sub[r] => Inserting(task[k]) /\ r = task[k].row
           /\ \A r \in ActiveRows : sub'[r].status # "active" =>
                 \/ \E q \in Row \ ActiveRows : sub'[q].status = "active"
                 \/ sub[r].checkout # Null /\ stripe[sub[r].checkout].state = "lapsed"
<1>1. task[k] \in Task /\ TaskOK(task[k]) /\ sub \in [Row -> TenantSubscription]
  BY DEF SInv, STypeOK
<1>2. CASE StarterSaves(k)
  <2>1. PICK p \in Starters : sub' = [sub EXCEPT ![task[k].row] = NewRow(p, Null)]
    BY <1>2 DEF StarterSaves
  <2>2. NewRow(p, Null) \in TenantSubscription /\ NewRow(p, Null).status = "active"
    BY DEF Starters, NewRow, TenantSubscription
  <2>3. Inserting(task[k]) /\ task[k].row \in Row /\ sub[task[k].row].status = "none"
    BY <1>1, <1>2, TaskTypes DEF StarterSaves, Inserting, TaskOK
  <2> QED
    BY <1>1, <2>1, <2>2, <2>3 DEF ActiveRows
<1>3. CASE ActivateSaves(k)
  <2>1. PICK row \in Row, seen \in SUBSET Row, new \in TenantSubscription :
           /\ row = task[k].row /\ seen = task[k].seen /\ new = NewRow(task[k].plan, task[k].checkout)
           /\ new.status = "active" /\ Inserting(task[k]) /\ sub[row].status = "none"
           /\ \A r \in seen : sub[r].status # "none"
    BY <1>1, <1>3, TaskTypes DEF ActivateSaves, Inserting, TaskOK, NewRow, TenantSubscription
  <2>2. ASSUME NEW r \in Row
        PROVE  sub'[r] = IF r = row THEN new ELSE IF r \in seen THEN [sub[r] EXCEPT !.status = "expired"] ELSE sub[r]
    BY <1>3, <2>1 DEF ActivateSaves, Expired
  <2>3. sub' \in [Row -> TenantSubscription]
    <3>1. Expired(seen) \in [Row -> TenantSubscription]
      BY <1>1 DEF Expired, TenantSubscription
    <3> QED
      BY <1>3, <2>1, <3>1 DEF ActivateSaves
  <2>4. ASSUME NEW r \in Row
        PROVE  /\ sub[r].status # "none" => sub'[r].status # "none" /\ sub'[r].checkout = sub[r].checkout
               /\ sub[r].status = "none" /\ sub'[r] # sub[r] => r = row
    <3>1. r \in seen => [sub[r] EXCEPT !.status = "expired"].checkout = sub[r].checkout
                        /\ [sub[r] EXCEPT !.status = "expired"].status = "expired"
      BY <1>1 DEF TenantSubscription
    <3> QED
      BY <2>1, <2>2, <3>1
  <2>5. row \in Row \ ActiveRows /\ sub'[row].status = "active"
    BY <2>1, <2>2 DEF ActiveRows
  <2> QED
    BY <2>1, <2>3, <2>4, <2>5
<1>4. CASE EndedSaves(k)
  <2>1. PICK seen \in SUBSET Row :
           /\ seen = task[k].seen /\ sub' = Expired(seen)
           /\ \A r \in seen : sub[r].status # "none"
           /\ \A r \in seen : sub[r].checkout # Null /\ stripe[sub[r].checkout].state = "lapsed"
    BY <1>1, <1>4, TaskTypes DEF EndedSaves, TaskOK
  <2>2. \A r \in Row : sub'[r] = IF r \in seen THEN [sub[r] EXCEPT !.status = "expired"] ELSE sub[r]
    BY <2>1 DEF Expired
  <2>3. sub' \in [Row -> TenantSubscription]
    BY <1>1, <2>1 DEF Expired, TenantSubscription
  <2>4. \A r \in Row : [sub[r] EXCEPT !.status = "expired"].checkout = sub[r].checkout
                       /\ [sub[r] EXCEPT !.status = "expired"].status = "expired"
    BY <1>1 DEF TenantSubscription
  <2> QED
    BY <2>1, <2>2, <2>3, <2>4 DEF ActiveRows
<1> QED
  BY <1>2, <1>3, <1>4

LEMMA SubscriptionStep ==
    ASSUME SInv, [SNext]_svars
    PROVE  SInv'
<1>1. ASSUME NEW k \in Desk, StarterSaves(k) \/ ActivateSaves(k) \/ EndedSaves(k) PROVE SInv'
  BY <1>1, CommittedRows, TaskCommits DEF StarterSaves, ActivateSaves, EndedSaves
<1>2. ASSUME NEW k \in Desk, SAbandon(k) PROVE SInv'
  BY <1>2, TaskCommits DEF SAbandon, SInv, STypeOK
<1>3. ASSUME NEW c \in Checkout, (\E p \in Plan : CreateCheckout(c, p)) \/ StripeMoves(c) PROVE SInv'
  <2>1. /\ stripe' \in [Checkout -> [state : {"none", "open", "paid", "lapsed"}, plan : Plan \cup {Null}]]
        /\ \A d \in Checkout : stripe'[d].state # "none" => stripe'[d].plan \in Plan
        /\ \A d \in Checkout : stripe[d].state # "none" => stripe'[d].state # "none"
        /\ \A d \in Checkout : stripe[d].state = "lapsed" => stripe'[d].state = "lapsed"
    BY <1>3 DEF CreateCheckout, StripeMoves, SInv, STypeOK
  <2>2. UNCHANGED <<sub, begun, task>>
    BY <1>3 DEF CreateCheckout, StripeMoves
  <2>3. ASSUME NEW k \in Desk PROVE TaskOK(task[k])'
    <3>1. TaskOK(task[k]) /\ task[k] \in Task
      BY DEF SInv, STypeOK
    <3>2. task[k].pc = "verify" => stripe'[task[k].checkout].state # "none"
      BY <2>1, <3>1, TaskTypes DEF TaskOK
    <3>3. task[k].pc = "expire" =>
             \A r \in task[k].seen : sub[r].checkout # Null /\ stripe'[sub[r].checkout].state = "lapsed"
      <4>1. \A r \in Row : sub[r].checkout \in Checkout \cup {Null}
        BY DEF SInv, STypeOK, TenantSubscription
      <4> QED
        BY <2>1, <3>1, <4>1, TaskTypes DEF TaskOK
    <3> QED
      BY <2>2, <3>1, <3>2, <3>3 DEF TaskOK, Inserting
  <2> QED
    BY <2>1, <2>2, <2>3 DEF SInv, STypeOK, Inserting
<1>4. CASE UNCHANGED svars
  BY <1>4 DEF svars, SInv, STypeOK, TaskOK, Inserting
<1> QED
  BY <1>1, <1>2, <1>3, <1>4, RequestsBegin, VerifyGoesOn DEF SNext

LEMMA SubscriptionInit == SInit => SInv
<1> SUFFICES ASSUME SInit PROVE SInv
  OBVIOUS
<1>1. STypeOK
  BY VacantTask, SubscriptionsAssumption DEF SInit, STypeOK, TenantSubscription
<1> QED
  BY <1>1, VacantTask DEF SInit, SInv, TaskOK

\* For any plans, checkouts and number of requests at once, and however late or
\* often Stripe's events come: a plan ends only for another, or when Stripe has
\* ended its own subscription.
THEOREM PlansEndForCause == SSpec => PlanLostForCause
<1> DEFINE Cause == \A r \in ActiveRows :
          sub'[r].status # "active"
          => \/ \E q \in Row \ ActiveRows : sub'[q].status = "active"
             \/ sub[r].checkout # Null /\ stripe[sub[r].checkout].state = "lapsed"
<1>1. ASSUME SInv, [SNext]_svars PROVE [Cause]_svars
  <2>1. CASE UNCHANGED sub
    BY <2>1 DEF ActiveRows
  <2>2. CASE \E k \in Desk : StarterSaves(k) \/ ActivateSaves(k) \/ EndedSaves(k)
    BY <1>1, <2>2, CommittedRows
  <2> QED
    BY <1>1, <2>1, <2>2
       DEF SNext, svars, CreateCheckout, StripeMoves, NoPlanFound, VerifyReads, SelectReads, AssignReads,
           VerifyChecks, CompletedReads, EndedReads, BeginInsert, SAbandon
<1> QED
  BY <1>1, SubscriptionInit, SubscriptionStep, PTL DEF SSpec, PlanLostForCause

-----------------------------------------------------------------------------
(* The ranking of employees. *)

LEMMA SumIsNat ==
    ASSUME NEW S, IsFiniteSet(S), NEW g \in [S -> Nat]
    PROVE  SumOf(g) \in Nat
<1> DEFINE h == [x \in S |-> {x} \X (1 .. g[x])]
           F == {{x} \X (1 .. g[x]) : x \in S}
<1>1. h \in Surjection(S, F)
  BY DEF Surjection
<1>2. IsFiniteSet(F)
  BY <1>1, FS_Surjection
<1>3. ASSUME NEW x \in S PROVE IsFiniteSet({x} \X (1 .. g[x]))
  <2>0. g[x] \in Int
    OBVIOUS
  <2>1. IsFiniteSet({x})
    BY FS_Singleton
  <2>2. IsFiniteSet(1 .. g[x])
    BY <2>0, FS_Interval
  <2> QED
    BY <2>1, <2>2, FS_Product
<1>4. IsFiniteSet(UNION F)
  BY <1>2, <1>3, FS_UNION
<1> QED
  BY <1>4, FS_CardinalityType DEF SumOf

\* The best credit of a task, when it counts.
LEMMA BestCredit ==
    ASSUME NEW O \in SUBSET Outcome, O # {}
    PROVE  Max({Credit(o) : o \in O}) \in Nat
<1> DEFINE C == {Credit(o) : o \in O}
<1>1. C \subseteq {0, 50, 100} /\ C # {}
  BY RankingAssumption DEF Credit
<1>2. \E x \in C : \A y \in C : x >= y
  <2>1. CASE 100 \in C
    BY <1>1, <2>1
  <2>2. CASE 100 \notin C /\ 50 \in C
    BY <1>1, <2>2
  <2>3. CASE 100 \notin C /\ 50 \notin C
    BY <1>1, <2>3
  <2> QED
    BY <2>1, <2>2, <2>3
<1> HIDE DEF C
<1>3. Max(C) \in C
  BY <1>2 DEF Max
<1> QED
  BY <1>1, <1>3 DEF C

LEMMA Quotient == \A m \in Nat, n \in Nat \ {0} : m \div n \in Nat
BY Z3

LEMMA KraPointsType ==
    ASSUME WTypeOK, NEW e \in Employee
    PROVE  KraPoints(e) \in Nat \cup {Null}
<1> DEFINE counted == {p \in TaskPeriod : work[e][p] # {}}
           best == [p \in counted |-> Max({Credit(o) : o \in work[e][p]})]
<1>1. IsFiniteSet(counted)
  BY RankingAssumption, FS_Subset
<1>2. \A p \in counted : work[e][p] \in SUBSET Outcome /\ work[e][p] # {}
  BY DEF WTypeOK
<1>3. \A p \in counted : Max({Credit(o) : o \in work[e][p]}) \in Nat
  BY <1>2, BestCredit
<1>4. best \in [counted -> Nat]
  BY <1>3
<1>5. counted # {} => Cardinality(counted) \in Nat \ {0}
  BY <1>1, FS_CardinalityType, FS_EmptySet
<1>6. KraPoints(e) = IF counted = {} THEN Null ELSE SumOf(best) \div Cardinality(counted)
  BY DEF KraPoints
<1> HIDE DEF counted, best
<1>7. SumOf(best) \in Nat
  BY <1>1, <1>4, SumIsNat
<1> QED
  BY <1>5, <1>6, <1>7, Quotient

LEMMA OverallType ==
    ASSUME WTypeOK, NEW e \in Employee
    PROVE  Overall(e) \in Score
<1> DEFINE A == Applying(e)
           weight == [c \in A |-> Weight[c]]
           weighted == [c \in A |-> Weight[c] * Normalized(e, c)]
           total == SumOf(weight)
           sum == SumOf(weighted)
<1>1. IsFiniteSet(A) /\ A \subseteq Criterion
  BY RankingAssumption, FS_Subset DEF WTypeOK, Applying
<1>2. ASSUME NEW c \in A PROVE Normalized(e, c) \in Nat
  <2>1. CASE c = Kra
    BY <2>1, KraPointsType DEF Applying, Normalized
  <2>2. CASE c # Kra
    <3>1. ScoreOf(e, c) \in Nat \cup {Null}
      BY <1>1, <2>2 DEF WTypeOK, ScoreOf
    <3>2. ScoreOf(e, c) # Null => (100 * ScoreOf(e, c)) \div Full \in Nat
      <4>1. ScoreOf(e, c) # Null => 100 * ScoreOf(e, c) \in Nat
        BY <3>1
      <4> QED
        BY <4>1, Quotient, RankingAssumption
    <3> QED
      BY <2>2, <3>2 DEF Normalized
  <2> QED
    BY <2>1, <2>2
<1>3. \A m, n \in Nat : m * n \in Nat
  BY Z3
<1>4. \A c \in A : Weight[c] \in Nat /\ Weight[c] * Normalized(e, c) \in Nat
  BY <1>1, <1>2, <1>3, RankingAssumption
<1>5. weight \in [A -> Nat] /\ weighted \in [A -> Nat]
  BY <1>4
<1>0. Overall(e) = IF total = 0 THEN 0 ELSE Min({100, sum \div total})
  BY DEF Overall
<1> HIDE DEF A, weight, weighted
<1>8. total \in Nat /\ sum \in Nat
  BY <1>1, <1>5, SumIsNat
<1>6. total # 0 => sum \div total \in Nat
  BY <1>8, Quotient
<1> HIDE DEF total, sum
<1>7. \A n \in Nat : Min({100, n}) \in 0 .. 100
  <2>1. SUFFICES ASSUME NEW n \in Nat PROVE Min({100, n}) \in 0 .. 100
    OBVIOUS
  <2>2. \E x \in {100, n} : \A y \in {100, n} : x =< y
    OBVIOUS
  <2>3. Min({100, n}) \in {100, n} /\ \A y \in {100, n} : Min({100, n}) =< y
    BY <2>2 DEF Min
  <2> QED
    BY <2>3
<1> QED
  BY <1>0, <1>6, <1>7 DEF Score

\* An order of the ranked employees gives each of them one place, and leaves no
\* place free.
LEMMA OrderPlaces ==
    ASSUME WTypeOK, NEW order \in Orders
    PROVE  /\ Cardinality(Ranked) \in 0 .. Cardinality(Employee)
           /\ order \in [1 .. Cardinality(Ranked) -> Ranked]
           /\ \A e \in Ranked : /\ Placed(e, order).rank \in 1 .. Cardinality(Ranked)
                                /\ order[Placed(e, order).rank] = e
           /\ \A i \in 1 .. Cardinality(Ranked) : Placed(order[i], order).rank = i
<1> DEFINE n == Cardinality(Ranked)
<1>1. IsFiniteSet(Ranked) /\ Cardinality(Employee) \in Nat /\ n \in Nat /\ n =< Cardinality(Employee)
  BY RankingAssumption, FS_Subset, FS_CardinalityType DEF Ranked
<1>2. order \in [1 .. n -> Ranked] /\ \A i, j \in 1 .. n : i < j => order[i] # order[j]
  BY DEF Orders
<1> HIDE DEF n
<1>3. \A i, j \in 1 .. n : order[i] = order[j] => i = j
  BY <1>1, <1>2
<1>4. order \in Injection(1 .. n, Ranked)
  BY <1>2, <1>3 DEF Injection, IsInjective
<1>5. Cardinality(1 .. n) = n /\ IsFiniteSet(1 .. n)
  BY <1>1, FS_Interval
<1>6. order \in Surjection(1 .. n, Ranked)
  BY <1>1, <1>4, <1>5, FS_Injection DEF n
<1>7. ASSUME NEW e \in Ranked PROVE \E i \in 1 .. n : order[i] = e
  BY <1>6 DEF Surjection
<1>8. ASSUME NEW e \in Ranked
      PROVE  Placed(e, order).rank = CHOOSE i \in 1 .. n : order[i] = e
  BY <1>2 DEF Placed, Ranked, WTypeOK, EmployeeRanking
<1>9. \A e \in Ranked : Placed(e, order).rank \in 1 .. n /\ order[Placed(e, order).rank] = e
  BY <1>7, <1>8
<1>10. \A i \in 1 .. n : order[i] \in Ranked
  BY <1>2
<1>11. \A i \in 1 .. n : Placed(order[i], order).rank = i
  BY <1>3, <1>9, <1>10
<1> QED
  BY <1>1, <1>2, <1>9, <1>11 DEF n

WInv == WTypeOK /\ RanksFollowScores

Busy == [pc : {"next", "write"}, todo : SUBSET Employee, at : Employee \cup {Null},
         score : Score, row : [Employee -> EmployeeRanking \cup {Null}]]
Job == {Vacant} \cup Busy

LEMMA JobIsBusy ==
    ASSUME WInv, job # Vacant
    PROVE  /\ job \in Busy /\ job.row \in [Employee -> EmployeeRanking \cup {Null}]
           /\ job.score \in Score /\ job.todo \subseteq Employee
<1>1. job \in Busy
  BY DEF WInv, WTypeOK, Busy
<1> QED
  BY <1>1 DEF Busy

\* While nobody is ranked, only the tables the scores are made of change.
LEMMA RankingKept ==
    ASSUME WInv, WTypeOK', UNCHANGED <<ranking, latest>>
    PROVE  WInv'
BY DEF WInv, RanksFollowScores

\* A recalculation goes on.
LEMMA JobStep ==
    ASSUME WInv, job' \in Job, UNCHANGED Tables
    PROVE  WInv'
BY RankingKept DEF WInv, WTypeOK, Tables, Job, Busy

LEMMA RecalculationBegins ==
    ASSUME WInv, Recalculate
    PROVE  WInv'
<1>1. [e \in Employee |-> Null] \in [Employee -> EmployeeRanking \cup {Null}]
  OBVIOUS
<1>2. job' \in Job
  BY <1>1 DEF Recalculate, Job, Busy, Counted, Score
<1> QED
  BY <1>2, JobStep DEF Recalculate

LEMMA EmployeeCalculated ==
    ASSUME WInv, NEW e \in Employee, Calculates(e)
    PROVE  WInv'
<1>1. job \in Busy
  BY JobIsBusy DEF Calculates, Vacant
<1>2. Overall(e) \in Score
  BY OverallType DEF WInv
<1>3. job' \in Job
  BY <1>1, <1>2 DEF Calculates, Job, Busy
<1> QED
  BY <1>3, JobStep DEF Calculates

LEMMA EmployeeWritten ==
    ASSUME WInv, Writes
    PROVE  WInv'
<1>1. /\ job \in Busy /\ job.row \in [Employee -> EmployeeRanking \cup {Null}]
      /\ job.score \in Score /\ job.todo \subseteq Employee
  BY JobIsBusy DEF Writes, Vacant
<1> DEFINE row == IF Stored(job.at) THEN [ranking[job.at] EXCEPT !.score = job.score]
                  ELSE Provisional(job.score)
           rows == [job.row EXCEPT ![job.at] = row]
<1>2. job' = [pc |-> "next", todo |-> job.todo, at |-> Null, score |-> 0, row |-> rows]
  BY <1>1 DEF Writes, Busy
<1>3. ASSUME job.at \in Employee PROVE row \in EmployeeRanking
  <2>1. Cardinality(Employee) \in Nat \ {0}
    BY <1>3, RankingAssumption, FS_CardinalityType, FS_EmptySet
  <2>2. ranking[job.at] \in EmployeeRanking
    BY <1>3 DEF WInv, WTypeOK
  <2>3. [ranking[job.at] EXCEPT !.score = job.score] \in EmployeeRanking
    BY <1>1, <2>2 DEF EmployeeRanking
  <2>4. Provisional(job.score) \in EmployeeRanking
    BY <1>1, <2>1 DEF EmployeeRanking, Provisional
  <2> QED
    BY <2>3, <2>4
<1> HIDE DEF row
<1>4. rows \in [Employee -> EmployeeRanking \cup {Null}]
  BY <1>1, <1>3
<1>5. job' \in Job
  BY <1>1, <1>2, <1>4 DEF Job, Busy, Score
<1> QED
  BY <1>5, JobStep DEF Writes

LEMMA JobEnds ==
    ASSUME WInv, Fails \/ RAbandon
    PROVE  WInv'
<1> SUFFICES job' \in Job
  BY JobStep DEF Fails, RAbandon
<1>1. CASE Fails
  <2>1. job \in Busy
    BY <1>1, JobIsBusy DEF Fails, Vacant
  <2>2. job' = [pc |-> "next", todo |-> job.todo, at |-> Null, score |-> 0, row |-> job.row]
    BY <1>1, <2>1 DEF Fails, Busy
  <2> QED
    BY <2>1, <2>2 DEF Job, Busy, Score
<1>2. CASE RAbandon
  BY <1>2 DEF RAbandon, Job
<1> QED
  BY <1>1, <1>2

\* The ranks are committed.
LEMMA RanksCommitted ==
    ASSUME WInv, Ranks
    PROVE  WInv'
<1> DEFINE n == Cardinality(Ranked)
<1>1. PICK order \in Orders :
        ranking' = [e \in Employee |-> IF e \in Ranked THEN Placed(e, order) ELSE ranking[e]]
  BY DEF Ranks
<1>2. /\ n \in 0 .. Cardinality(Employee) /\ Cardinality(Employee) \in Nat
      /\ order \in [1 .. n -> Ranked]
      /\ \A e \in Ranked : Placed(e, order).rank \in 1 .. n /\ order[Placed(e, order).rank] = e
      /\ \A i \in 1 .. n : Placed(order[i], order).rank = i
  BY OrderPlaces, RankingAssumption, FS_CardinalityType DEF WInv
<1>3. \A i, j \in 1 .. n : i < j => job.row[order[i]].score >= job.row[order[j]].score
  BY <1>2 DEF Orders
<1>4. latest' = Ranked /\ job' = Vacant /\ Ranked \subseteq Employee
  BY DEF Ranks, Ranked
<1>5. \A e \in Ranked : job.row[e] \in EmployeeRanking
  <2>1. job.row \in [Employee -> EmployeeRanking \cup {Null}]
    BY JobIsBusy DEF Ranks
  <2> QED
    BY <2>1 DEF Ranked
<1>6. ASSUME NEW e \in Ranked
      PROVE  /\ ranking'[e] = Placed(e, order)
             /\ ranking'[e].score = job.row[e].score /\ ranking'[e].total = n
             /\ ranking'[e].rank \in 1 .. n /\ order[ranking'[e].rank] = e
  <2>1. ranking'[e] = Placed(e, order)
    BY <1>1, <1>4
  <2>2. Placed(e, order).score = job.row[e].score /\ Placed(e, order).total = n
    BY <1>5 DEF Placed, EmployeeRanking
  <2> QED
    BY <1>2, <2>1, <2>2
<1>7. ranking' \in [Employee -> EmployeeRanking]
  <2>1. ASSUME NEW e \in Ranked PROVE Placed(e, order) \in EmployeeRanking
    <3>1. Placed(e, order).rank \in 0 .. Cardinality(Employee)
      BY <1>2
    <3> DEFINE i == CHOOSE i \in DOMAIN order : order[i] = e
    <3>2. Placed(e, order) = [job.row[e] EXCEPT !.rank = i, !.total = n]
      BY DEF Placed
    <3>3. Placed(e, order).rank = i
      BY <1>5, <3>2 DEF EmployeeRanking
    <3> HIDE DEF i, n
    <3> QED
      BY <1>2, <1>5, <3>1, <3>2, <3>3, ZenonT(60) DEF EmployeeRanking
  <2> QED
    BY <1>1, <2>1 DEF WInv, WTypeOK
<1>8. WTypeOK'
  BY <1>4, <1>7 DEF Ranks, WInv, WTypeOK
<1> HIDE DEF n
<1>9. {ranking'[e].rank : e \in Ranked} = 1 .. n
  <2>1. ASSUME NEW i \in 1 .. n PROVE \E e \in Ranked : ranking'[e].rank = i
    BY <1>2, <1>6
  <2> QED
    BY <1>6, <2>1
<1>10. ASSUME NEW e \in Ranked, NEW f \in Ranked, ranking'[e].score > ranking'[f].score
       PROVE  ranking'[e].rank < ranking'[f].rank
  <2>1. job.row[e].score > job.row[f].score /\ job.row[e].score \in Int /\ job.row[f].score \in Int
    BY <1>5, <1>6, <1>10 DEF EmployeeRanking, Score
  <2> DEFINE i == ranking'[e].rank
             j == ranking'[f].rank
  <2>2. i \in 1 .. n /\ j \in 1 .. n /\ order[i] = e /\ order[j] = f
    BY <1>6
  <2> HIDE DEF i, j
  <2>3. ~(j < i)
    BY <1>3, <2>1, <2>2
  <2>4. i # j
    BY <2>1, <2>2
  <2>5. i < j
    BY <1>2, <2>2, <2>3, <2>4
  <2> QED
    BY <2>5 DEF i, j
<1>11. RanksFollowScores'
  BY <1>4, <1>6, <1>9, <1>10 DEF RanksFollowScores, n
<1> QED
  BY <1>8, <1>11 DEF WInv

\* What the scores are made of.
LEMMA RecordsStep ==
    ASSUME WInv,
           \/ Initialize
           \/ \E c \in Criterion : CreateCriterion(c)
           \/ \E e \in Employee :
                 \/ Leaves(e)
                 \/ \E c \in Criterion, raw \in Entered, deductions \in Deducted :
                       RecordScore(e, c, raw, deductions)
                 \/ \E p \in TaskPeriod, outcomes \in SUBSET Outcome : Works(e, p, outcomes)
    PROVE  WInv'
<1>1. CASE Initialize \/ \E c \in Criterion : CreateCriterion(c)
  BY <1>1, RankingKept DEF Initialize, CreateCriterion, WInv, WTypeOK
<1>2. ASSUME NEW e \in Employee, Leaves(e) PROVE WInv'
  BY <1>2, RankingKept DEF Leaves, WInv, WTypeOK
<1>3. ASSUME NEW e \in Employee, NEW c \in Criterion, NEW raw \in Entered, NEW deductions \in Deducted,
             RecordScore(e, c, raw, deductions)
      PROVE  WInv'
  <2>1. raw \in Nat /\ deductions \in Nat
    BY RankingAssumption
  <2>2. FinalPoints(raw, deductions) \in Nat
    <3> DEFINE d == raw - deductions
    <3>1. \E x \in {0, d} : \A y \in {0, d} : x >= y
      BY <2>1
    <3>2. Max({0, d}) \in {0, d} /\ \A y \in {0, d} : Max({0, d}) >= y
      BY <3>1 DEF Max
    <3> QED
      BY <2>1, <3>2 DEF FinalPoints
  <2>3. points' \in [Employee -> [Criterion \ {Kra} -> Nat \cup {Null}]]
    BY <1>3, <2>2 DEF RecordScore, WInv, WTypeOK
  <2> QED
    BY <1>3, <2>3, RankingKept DEF RecordScore, WInv, WTypeOK
<1>4. ASSUME NEW e \in Employee, NEW p \in TaskPeriod, NEW outcomes \in SUBSET Outcome, Works(e, p, outcomes)
      PROVE  WInv'
  <2>1. work' \in [Employee -> [TaskPeriod -> SUBSET Outcome]]
    BY <1>4 DEF Works, WInv, WTypeOK
  <2> QED
    BY <1>4, <2>1, RankingKept DEF Works, WInv, WTypeOK
<1> QED
  BY <1>1, <1>2, <1>3, <1>4

LEMMA RankingStep ==
    ASSUME WInv, [WNext]_wvars
    PROVE  WInv'
<1>1. CASE UNCHANGED wvars
  BY <1>1, RankingKept DEF wvars, WInv, WTypeOK
<1> QED
  BY <1>1, RecalculationBegins, EmployeeCalculated, EmployeeWritten, JobEnds, RanksCommitted, RecordsStep
  DEF WNext

LEMMA RankingInit == WInit => WInv
<1> SUFFICES ASSUME WInit PROVE WInv
  OBVIOUS
<1>1. Unranked \in EmployeeRanking
  BY RankingAssumption, FS_CardinalityType DEF Unranked, EmployeeRanking, Score
<1>2. WTypeOK
  BY <1>1 DEF WInit, WTypeOK
<1>3. RanksFollowScores
  <2>1. Cardinality(latest) = 0 /\ latest = {}
    BY FS_EmptySet DEF WInit
  <2> QED
    BY <2>1 DEF RanksFollowScores
<1> QED
  BY <1>2, <1>3 DEF WInv

\* The employees ranked last have the ranks 1 to n in the order of their scores,
\* for any criteria and weights, whoever failed, left or got points meanwhile.
THEOREM RanksInOrder == WSpec => []RanksFollowScores
<1>1. WInv /\ [WNext]_wvars => WInv'
  BY RankingStep
<1>2. WInv => RanksFollowScores
  BY DEF WInv
<1> QED
  BY <1>1, <1>2, RankingInit, PTL DEF WSpec

-----------------------------------------------------------------------------
(* The KRA forms. *)

Form == DailyKRA \cup WeeklyKRA \cup MonthlyKRA \cup QuarterlyKRA
Filler ==
    {Vacant}
    \cup [pc : {"create"}, kind : Kind, user : Author, period : FormPeriod]
    \cup [pc : {"update", "delete"}, row : 1 .. MaxForms]

LEMMA FormRecord == Form = [kind : Kind, user : Author, period : FormPeriod, edited : BOOLEAN, deleted : BOOLEAN]
BY DEF Form, Kind, DailyKRA, WeeklyKRA, MonthlyKRA, QuarterlyKRA

\* A handler goes on.
LEMMA FillerMoves ==
    ASSUME FTypeOK, NEW k \in Desk, NEW t \in Filler, FGoto(k, t), form' \in Seq(Form), Len(form') =< MaxForms
    PROVE  FTypeOK'
BY DEF FTypeOK, FGoto, Filler, Form

LEMMA FormChecked ==
    ASSUME FTypeOK, NEW k \in Desk, NEW kind \in Kind, NEW u \in Author, NEW p \in FormPeriod, Checks(k, kind, u, p)
    PROVE  FTypeOK'
<1>1. [pc |-> "create", kind |-> kind, user |-> u, period |-> p] \in Filler
  BY DEF Filler
<1> QED
  BY <1>1, FillerMoves DEF Checks, FTypeOK, Form

LEMMA FormInserted ==
    ASSUME FTypeOK, NEW k \in Desk, NEW kind \in Kind, Inserts(k, kind)
    PROVE  FTypeOK'
<1>1. filler[k] \in [pc : {"create"}, kind : Kind, user : Author, period : FormPeriod]
  BY DEF FTypeOK, Inserts, Vacant
<1> DEFINE new == [kind |-> kind, user |-> filler[k].user, period |-> filler[k].period,
                   edited |-> FALSE, deleted |-> FALSE]
<1>2. new \in Form
  BY <1>1, FormRecord
<1>3. form \in Seq(Form) /\ Len(form) \in Nat /\ Len(form) < MaxForms /\ form' = Append(form, new)
  BY DEF FTypeOK, Inserts, Form
<1> HIDE DEF new
<1>4. form' \in Seq(Form) /\ Len(form') =< MaxForms
  BY <1>2, <1>3, KraFormsAssumption
<1>5. Vacant \in Filler
  BY DEF Filler
<1> QED
  BY <1>4, <1>5, FillerMoves DEF Inserts

LEMMA FormLoaded ==
    ASSUME FTypeOK, NEW k \in Desk, NEW kind, NEW pc \in {"update", "delete"}, NEW u, Loads(k, kind, pc, u)
    PROVE  FTypeOK'
<1>1. PICK i \in Live(kind) : FGoto(k, [pc |-> pc, row |-> i])
  BY DEF Loads
<1>2. i \in 1 .. MaxForms
  BY <1>1, KraFormsAssumption DEF Live, FTypeOK
<1>3. [pc |-> pc, row |-> i] \in Filler
  BY <1>2 DEF Filler
<1> QED
  BY <1>1, <1>3, FillerMoves DEF Loads, FTypeOK, Form

LEMMA FormSaved ==
    ASSUME FTypeOK, NEW k \in Desk, FormUpdated(k) \/ FormDeleted(k) \/ FAbandon(k)
    PROVE  FTypeOK'
<1>0. form \in Seq(Form) /\ form \in [1 .. Len(form) -> Form] /\ Len(form) \in Nat /\ Len(form) =< MaxForms
  BY DEF FTypeOK, Form
<1>1. \A m \in Form : [m EXCEPT !.edited = TRUE] \in Form /\ [m EXCEPT !.deleted = TRUE] \in Form
  BY FormRecord
<1>2. \A f \in [1 .. Len(form) -> Form] : f \in Seq(Form) /\ Len(f) = Len(form)
  BY <1>0
<1>3. form' \in [1 .. Len(form) -> Form]
  <2>1. CASE FormUpdated(k)
    <3>1. form' = [i \in 1 .. Len(form) |-> IF i = filler[k].row THEN [form[i] EXCEPT !.edited = TRUE] ELSE form[i]]
      BY <1>0, <2>1 DEF FormUpdated
    <3> QED
      BY <1>0, <1>1, <3>1
  <2>2. CASE FormDeleted(k)
    <3>1. form' = [i \in 1 .. Len(form) |-> IF i = filler[k].row THEN [form[i] EXCEPT !.deleted = TRUE] ELSE form[i]]
      BY <1>0, <2>2 DEF FormDeleted
    <3> QED
      BY <1>0, <1>1, <3>1
  <2>3. CASE FAbandon(k)
    BY <1>0, <2>3 DEF FAbandon
  <2> QED
    BY <2>1, <2>2, <2>3
<1>4. Vacant \in Filler
  BY DEF Filler
<1>5. form' \in Seq(Form) /\ Len(form') =< MaxForms
  BY <1>0, <1>2, <1>3
<1> QED
  BY <1>4, <1>5, FillerMoves DEF FormUpdated, FormDeleted, FAbandon

LEMMA FormStep ==
    ASSUME FTypeOK, [FNext]_fvars
    PROVE  FTypeOK'
<1>1. CASE UNCHANGED fvars
  BY <1>1 DEF fvars, FTypeOK
<1>2. \A kind \in {"daily", "weekly", "monthly", "quarterly"} : kind \in Kind
  BY DEF Kind
<1>3. ASSUME NEW k \in Desk, NEW u \in Author, NEW p \in FormPeriod,
             CreateDaily(k, u, p) \/ CreateWeekly(k, u, p) \/ CreateMonthly(k, u, p) \/ CreateQuarterly(k, u, p)
      PROVE  FTypeOK'
  BY <1>2, <1>3, FormChecked DEF CreateDaily, CreateWeekly, CreateMonthly, CreateQuarterly
<1>4. ASSUME NEW k \in Desk, NEW u \in Author,
             \/ UpdateDaily(k, u) \/ UpdateWeekly(k, u) \/ UpdateMonthly(k, u) \/ UpdateQuarterly(k, u)
             \/ DeleteDaily(k, u) \/ DeleteWeekly(k, u) \/ DeleteMonthly(k, u) \/ DeleteQuarterly(k, u)
      PROVE  FTypeOK'
  BY <1>4, FormLoaded DEF UpdateDaily, UpdateWeekly, UpdateMonthly, UpdateQuarterly,
                          DeleteDaily, DeleteWeekly, DeleteMonthly, DeleteQuarterly
<1>5. ASSUME NEW k \in Desk, DailyInserted(k) \/ WeeklyInserted(k) \/ MonthlyInserted(k) \/ QuarterlyInserted(k)
      PROVE  FTypeOK'
  BY <1>2, <1>5, FormInserted DEF DailyInserted, WeeklyInserted, MonthlyInserted, QuarterlyInserted
<1> QED
  BY <1>1, <1>3, <1>4, <1>5, FormSaved DEF FNext

LEMMA FormInit == FInit => FTypeOK
BY KraFormsAssumption DEF FInit, FTypeOK

\* The days counted are pairs of a user and a day.
LEMMA CountedDays ==
    ASSUME FTypeOK, NEW from \in FormPeriod, NEW to \in FormPeriod, from =< to,
           NEW users, IsFiniteSet(users)
    PROVE  Submissions(from, to, users) =< (to - from + 1) * Cardinality(users)
<1> DEFINE counted == {<<form[i].user, form[i].period>> : i \in {j \in Daily(from, to) : form[j].user \in users}}
<1>1. counted \subseteq users \X (from .. to)
  BY DEF Daily
<1>2. IsFiniteSet(from .. to) /\ Cardinality(from .. to) = to - from + 1
  BY FS_Interval, KraFormsAssumption
<1>3. /\ IsFiniteSet(users \X (from .. to))
      /\ Cardinality(users \X (from .. to)) = Cardinality(users) * Cardinality(from .. to)
  BY <1>2, FS_Product
<1>4. Cardinality(counted) =< Cardinality(users \X (from .. to))
  BY <1>1, <1>3, FS_Subset
<1>5. Cardinality(users) \in Nat /\ to - from + 1 \in Nat
  BY FS_CardinalityType, KraFormsAssumption
<1>6. \A m, n \in Nat : m * n = n * m
  BY Z3
<1> QED
  BY <1>2, <1>3, <1>4, <1>5, <1>6 DEF Submissions

\* The days that count are days of the range, for each user once.
LEMMA ComplianceFits ==
    ASSUME FTypeOK
    PROVE  ComplianceWithinDays
<1>1. ASSUME NEW from \in FormPeriod, NEW to \in FormPeriod PROVE IsFiniteSet(Covered(from, to))
  <2> DEFINE D == Daily(from, to)
             f == [i \in D |-> form[i].user]
  <2>1. D \subseteq 1 .. Len(form) /\ Len(form) \in Nat
    BY DEF Daily, Live, FTypeOK
  <2>2. IsFiniteSet(D)
    <3>1. IsFiniteSet(1 .. Len(form))
      BY <2>1, FS_Interval
    <3> QED
      BY <2>1, <3>1, FS_Subset
  <2>3. f \in Surjection(D, Covered(from, to))
    BY DEF Surjection, Covered
  <2> QED
    BY <2>2, <2>3, FS_Surjection
<1> QED
  BY <1>1, CountedDays, FS_Singleton DEF ComplianceWithinDays

\* Compliance stays within the days there are, for any number of forms filed by
\* requests that overlap.
THEOREM ComplianceBounded == FSpec => []ComplianceWithinDays
<1>1. FTypeOK => ComplianceWithinDays
  BY ComplianceFits
<1>2. FTypeOK /\ [FNext]_fvars => FTypeOK'
  BY FormStep
<1> QED
  BY <1>1, <1>2, FormInit, PTL DEF FSpec

-----------------------------------------------------------------------------
(* The parts together: a step of one of them leaves the tables of the others  *)
(* alone.                                                                     *)

BackInv ==
    /\ scene \in {"kra", "documents", "plans", "ranks", "forms", "access", "invites"}
    /\ IInv /\ DInv /\ SInv /\ WInv /\ FTypeOK /\ AInv /\ NInv

\* An account nobody is working on.
LEMMA AccountAtRest ==
    ASSUME Registered, lobby = [k \in Desk |-> Vacant]
    PROVE  AInv
<1>1. user \in UserRow /\ codes \in 0 .. MaxCodes
  BY AccountsAssumption DEF Registered, UserRow
<1>2. expired \in BOOLEAN /\ sessions = FALSE
  BY DEF Registered
<1>3. ASSUME NEW j \in Desk PROVE lobby[j] = Vacant /\ LobbyOK(lobby[j])
  BY DEF Vacant, LobbyOK
<1> QED
  BY <1>1, <1>2, <1>3 DEF AInv, ATypeOK, SessionsAreVerified

LEMMA BackInit == BInit => BackInv
<1> SUFFICES ASSUME BInit PROVE BackInv
  OBVIOUS
<1>1. AInv
  BY AccountInit, AccountAtRest DEF BInit
<1>2. IInv
  BY Initially DEF BInit
<1>3. DInv /\ SInv /\ NInv
  BY DocumentInit, SubscriptionInit, InvitationInit DEF BInit
<1>4. WInv /\ FTypeOK
  BY RankingInit, FormInit DEF BInit
<1> QED
  BY <1>1, <1>2, <1>3, <1>4 DEF BackInv, BInit

LEMMA BackStep ==
    ASSUME BackInv, [BNext]_<<scene, kvars, dvars, svars, wvars, fvars, avars, ivars>>
    PROVE  BackInv'
<1>1. /\ UNCHANGED scene
      /\ [KNext]_kvars /\ [DNext]_dvars /\ [SNext]_svars /\ [WNext]_wvars
      /\ [FNext]_fvars /\ [ANext]_avars /\ [NNext]_ivars
  BY DEF BNext
<1>2. IInv'
  BY <1>1, Step DEF BackInv
<1>3. DInv' /\ SInv' /\ NInv'
  BY <1>1, DocumentStep, SubscriptionStep, InvitationStep DEF BackInv
<1>4. WInv' /\ FTypeOK' /\ AInv'
  BY <1>1, RankingStep, FormStep, AccountStep DEF BackInv
<1> QED
  BY <1>1, <1>2, <1>3, <1>4 DEF BackInv

\* Whatever the back office does, its tables and its handlers keep their types.
THEOREM BackTypes == BSpec => []TypesOK
<1>1. BackInv => TypesOK
  <2>1. BackInv => KTypeOK /\ DTypeOK /\ STypeOK /\ WTypeOK /\ FTypeOK /\ ATypeOK /\ NTypeOK
    BY DEF BackInv, IInv, DInv, SInv, WInv, AInv, NInv
  <2> QED
    BY <2>1 DEF BackInv, TypesOK
<1>2. BackInv /\ [BNext]_<<scene, kvars, dvars, svars, wvars, fvars, avars, ivars>> => BackInv'
  BY BackStep
<1> QED
  BY <1>1, <1>2, BackInit, PTL DEF BSpec

\* Side by side, the parts keep what each of them promises by itself:
\* notifications, approvals, sessions, accounts, ranks and compliance.
THEOREM BackSafe ==
    BSpec => [](/\ NoticesAreDeserved /\ NoSelfApproval /\ SessionsAreVerified
                /\ ApprovedMadeTheAccount /\ RanksFollowScores /\ ComplianceWithinDays)
<1> DEFINE Safe == /\ NoticesAreDeserved /\ NoSelfApproval /\ SessionsAreVerified
                   /\ ApprovedMadeTheAccount /\ RanksFollowScores /\ ComplianceWithinDays
<1>1. BackInv => Safe
  BY ComplianceFits DEF BackInv, IInv, DInv, AInv, NInv, WInv
<1>2. BackInv /\ [BNext]_<<scene, kvars, dvars, svars, wvars, fvars, avars, ivars>> => BackInv'
  BY BackStep
<1> HIDE DEF Safe
<1>3. BSpec => []Safe
  BY <1>1, <1>2, BackInit, PTL DEF BSpec
<1> QED
  BY <1>3 DEF Safe

\* The composition implements the specification of each of its parts; the
\* fairness of the assigned tasks is their own.
THEOREM BackParts ==
    BSpec => /\ KInit /\ [][KNext]_kvars
             /\ DSpec /\ SSpec /\ WSpec /\ FSpec /\ NSpec
             /\ scene = "access" => ASpec
<1>1. BInit => /\ KInit /\ DInit /\ SInit /\ WInit /\ FInit /\ NInit
               /\ scene = "access" => AInit
  BY DEF BInit
<1>2. [BNext]_<<scene, kvars, dvars, svars, wvars, fvars, avars, ivars>> =>
        /\ [KNext]_kvars /\ [DNext]_dvars /\ [SNext]_svars /\ [WNext]_wvars
        /\ [FNext]_fvars /\ [ANext]_avars /\ [NNext]_ivars
  BY DEF BNext
<1> QED
  BY <1>1, <1>2, PTL DEF BSpec, DSpec, SSpec, WSpec, FSpec, ASpec, NSpec

\* What no step of a part may do, no step of the back office does: an occurrence
\* never goes back, and a plan ends only for another or when Stripe has ended
\* its subscription.
THEOREM BackActs == BSpec => WorkNeverUndone /\ PlanLostForCause
<1>1. KInit /\ [][KNext]_kvars => WorkNeverUndone
  <2>1. IInv /\ [KNext]_kvars => IInv'
    BY Step
  <2>2. IInv /\ [KNext]_kvars =>
          [\A a \in AssignId, p \in Day : /\ Rank(occ'[a][p]) >= Rank(occ[a][p])
                                          /\ occ[a][p].was_delayed => occ'[a][p].was_delayed]_kvars
    BY OccurrencesKept
  <2> QED
    BY <2>1, <2>2, Initially, PTL DEF WorkNeverUndone
<1> QED
  BY <1>1, BackParts, PlansEndForCause
=============================================================================
