-------------------------- MODULE AdminControlProofs --------------------------
(***************************************************************************)
(* The admin plane for any number of admins, objects, requests and faults: *)
(* what is in force is what the audit log says, replies are true, codes    *)
(* and entries keep their campaign, and no admin command touches a claim   *)
(* whose payment is under way or done.                                     *)
(***************************************************************************)
EXTENDS AdminControl, TLAPS


\* The statements before a request's write, and those after it.
Early == {"put", "parent", "parent2", "read", "check", "recheck", "write"}
Late  == {"audit", "undo"}

\* A row that is there has contents.
RealRows == {v \in Rows : v.val = "absent" => ~v.on}

Ops == {"none", "set_mode", "blocklist_add", "blocklist_remove", "set_runtime_policy",
        "clear_runtime_policy", "campaign_create", "campaign_update", "campaign_disable",
        "invitation_create", "campaign_allowlist_add", "retry_claim", "cancel_claim"}

Fields ==
    {q \in [op : Ops, obj : Objects \cup Claims \cup {"none"}, val : Values, on : BOOLEAN,
            valid : BOOLEAN] : q.val = "absent" => ~q.on}

\* Statement s is one of request q, which is about a row of its own table.
Plan(q, s) ==
    \/ q = NoRequest /\ s = "idle"
    \/ q.op = "set_mode" /\ q.obj = "mode" /\ q.on /\ s \in {"put", "audit"}
    \/ q.op = "blocklist_add" /\ q.obj \in BlockKeys /\ q.on /\ s \in {"put", "audit"}
    \/ /\ q.op = "blocklist_remove" /\ q.obj \in BlockKeys
       /\ q.val = "absent" /\ ~q.on /\ s \in {"put", "audit"}
    \/ /\ q.op = "set_runtime_policy" /\ q.obj = "policy" /\ q.on
       /\ s \in {"read", "write", "audit", "undo"}
    \/ /\ q.op = "clear_runtime_policy" /\ q.obj = "policy" /\ q.val = "env" /\ q.on
       /\ s \in {"read", "write", "audit", "undo"}
    \/ /\ q.op \in {"campaign_create", "campaign_update"} /\ q.obj \in Campaigns
       /\ q.val # "absent" /\ s \in {"read", "write", "audit", "undo"}
    \/ /\ q.op = "campaign_disable" /\ q.obj \in Campaigns
       /\ s \in {"read", "write", "audit", "undo"}
    \/ /\ q.op \in {"invitation_create", "campaign_allowlist_add"} /\ q.obj \in Children
       /\ q.on /\ s \in {"parent", "read", "parent2", "write", "audit", "undo"}
    \/ /\ q.op \in {"retry_claim", "cancel_claim"} /\ q.obj \in Claims
       /\ s \in {"check", "write", "recheck", "audit"}

\* What a request knows from the row it read first.
Knows(a) ==
    /\ /\ req[a].op \in {"campaign_update", "campaign_disable"}
       /\ pc[a] \in {"write", "audit", "undo"}
       => before[a] # Absent
    /\ /\ req[a].op \in {"campaign_create", "invitation_create"}
       /\ pc[a] \in {"parent2", "write", "audit", "undo"}
       => before[a] = Absent
    /\ pc[a] = "undo" => Undoable(a)

AdminTypes ==
    /\ inForce \in [Objects -> RealRows] /\ audited \in [Objects -> RealRows]
    /\ claim \in [Claims -> ClaimStatus]
    /\ pc \in [Admins -> Early \cup Late \cup {"idle"}]
    /\ req \in [Admins -> Fields]
    /\ before \in [Admins -> RealRows]
    /\ gone \in [Admins -> BOOLEAN] /\ reply \in [Admins -> Replies]
    /\ effect \subseteq Admins /\ logged \subseteq Admins
    /\ tainted \subseteq Objects /\ undone \subseteq Campaigns
    /\ requests \in 0..MaxRequests /\ faults \in 0..MaxFaults

\* The state of every request fits its operation.
AdminInv == AdminTypes /\ \A a \in Admins : Plan(req[a], pc[a]) /\ Knows(a)

-----------------------------------------------------------------------------
\* The kinds of steps that a request takes.

\* It arrives with fields that fit its handler, and starts with statement s.
Receives(a) ==
    \E q \in Fields, s \in {"put", "read", "parent", "check"}, checked \in BOOLEAN :
        Plan(q, s) /\ Receive(a, q, s, checked)

\* It is answered without a change.
Quits(a) ==
    /\ pc[a] \in Early
    /\ \E r \in {"invalid", "notfound", "conflict", "error"} : Answer(a, r)
    /\ UNCHANGED <<rows, effect, logged, tainted, undone, requests>>
    /\ faults' \in 0..MaxFaults

\* It goes on to statement s; a child goes on to its INSERT with its campaign there.
Continues(a) ==
    /\ pc[a] \in Early
    /\ \E s \in {"read", "write", "recheck"} :
        /\ Goto(a, s) /\ Plan(req[a], s)
        /\ s = "write" =>
            \/ req[a].obj \in Claims
            \/ /\ pc[a] = "parent2" /\ req[a].obj \in Children
               /\ inForce[CampaignOf[req[a].obj]] # Absent
    /\ UNCHANGED <<rows, before, history>>

\* It reads its row.
Reads(a) ==
    /\ pc[a] = "read" /\ req[a].obj \in Objects
    /\ req[a].op \in {"campaign_update", "campaign_disable"} => inForce[req[a].obj] # Absent
    /\ req[a].op \in {"campaign_create", "invitation_create"} => inForce[req[a].obj] = Absent
    /\ \E s \in {"parent2", "write"} :
        Plan(req[a], s) /\ Read(a, s) /\ (s = "write" => req[a].obj \notin Children)

\* It writes its row.
Puts(a) ==
    /\ pc[a] \in {"put", "write"} /\ req[a].obj \in Objects
    /\ Put(a, Written(req[a], before[a]))

\* It moves a claim that is in no payment.
Moves(a) ==
    /\ pc[a] = "write" /\ req[a].obj \in Claims
    /\ claim[req[a].obj] \notin NotCancellable
    /\ \E s \in {"queued", "rejected"} : MoveClaim(a, s)

\* One of the kinds of step, all of them.
Serves(a) ==
    \/ Receives(a) \/ Quits(a) \/ Continues(a) \/ Reads(a) \/ Puts(a) \/ Moves(a)
    \/ appendAudit(a) \/ AuditFails(a) \/ Rollback(a) \/ RollbackFails(a)

-----------------------------------------------------------------------------
\* The invariants.

\* Of an object that no two requests wrote at once: one request at most is
\* between its write and its audit; what it wrote is in force, and what it will
\* put back is what the log says; who is about to write has read what is in force.
AuditAt(o) ==
    /\ Unsettled(o) \/ inForce[o] = audited[o]
    /\ \A a \in Admins : req[a].obj = o =>
        /\ pc[a] \in {"parent2", "write"} => before[a] = inForce[o]
        /\ pc[a] \in Late =>
            /\ inForce[o] = Written(req[a], before[a])
            /\ Undoable(a) => before[a] = audited[o]
            /\ \A b \in Admins : req[b].obj = o /\ pc[b] \in Late => b = a

AuditInv == \A o \in Objects \ tainted : AuditAt(o)

\* A request has its effect from its write to its rollback, and no reply before
\* it is done.
ReplyInv ==
    /\ ReplyTellsTheTruth
    /\ \A a \in Admins :
        /\ pc[a] \in Late => a \in effect
        /\ pc[a] \in Early => a \notin effect
        /\ pc[a] # "idle" => reply[a] = "none"

\* A child about to be inserted counts as one that is there.
OrphanInv ==
    /\ OrphansOnlyFromRollback
    /\ \A a \in Admins :
        pc[a] = "write" /\ req[a].obj \in Children =>
            inForce[CampaignOf[req[a].obj]] # Absent \/ CampaignOf[req[a].obj] \in undone

-----------------------------------------------------------------------------
\* Every step of a request is of one of the kinds.

\* Every handler starts its operation with fields that fit it.
LEMMA HandleForms == ASSUME NEW a \in Admins, Handle(a) PROVE Receives(a)
<1> USE TablesAssumption DEF Fields, Ops, Plan, Receives, Values, Objects, Children
<1>1. CASE handleAdminSetMode(a)
  BY <1>1, Zenon DEF handleAdminSetMode, Modes
<1>2. CASE handleAdminPolicy(a)
  BY <1>2, Zenon DEF handleAdminPolicy
<1>3. CASE handleAdminBlocklist(a)
  BY <1>3, Zenon DEF handleAdminBlocklist
<1>4. CASE handleAdminCampaigns(a)
  BY <1>4, Zenon DEF handleAdminCampaigns
<1>5. CASE handleAdminCampaignDispatch(a)
  BY <1>5, Zenon DEF handleAdminCampaignDispatch
<1>6. CASE handleAdminInvitations(a)
  BY <1>6, Zenon DEF handleAdminInvitations
<1>7. CASE handleAdminAllowlist(a)
  BY <1>7, Zenon DEF handleAdminAllowlist
<1>8. CASE handleAdminClaimDispatch(a)
  BY <1>8, Zenon DEF handleAdminClaimDispatch
<1>9. CASE handleAdminQueueDispatch(a)
  BY <1>9, Zenon DEF handleAdminQueueDispatch
<1> QED
  BY <1>1, <1>2, <1>3, <1>4, <1>5, <1>6, <1>7, <1>8, <1>9, Zenon DEF Handle

\* A request that is not idle is about an object or a claim.
LEMMA PlanFacts ==
  ASSUME AdminInv, NEW a \in Admins, pc[a] # "idle"
  PROVE  /\ req[a].obj \in Objects \/ (req[a].obj \in Claims /\ req[a].obj \notin Objects)
         /\ req[a].op \in {"retry_claim", "cancel_claim"} <=> req[a].obj \in Claims
  BY TablesAssumption, Zenon DEF AdminInv, Plan, Objects, Children

\* A refusal, before anything is written.
LEMMA RefuseForm ==
  ASSUME AdminInv, NEW a \in Admins, pc[a] \in Early,
         NEW r \in {"invalid", "notfound", "conflict", "error"}, Refuse(a, r)
  PROVE  Quits(a)
  BY Zenon DEF Refuse, Quits, AdminInv, AdminTypes, history, rows

\* The statements of the mode, the blocklist and the policy.
LEMMA SettingForms ==
  ASSUME AdminInv, NEW a \in Admins,
         \/ SetMode(a) \/ BlocklistAdd(a) \/ BlocklistRemove(a)
         \/ SetRuntimePolicy(a) \/ ClearRuntimePolicy(a)
  PROVE  Serves(a)
<1> USE DEF Serves, At
<1>1. Plan(req[a], pc[a]) /\ req[a] \in Fields
  BY Zenon DEF AdminInv, AdminTypes
<1>2. CASE SetMode(a) \/ BlocklistAdd(a)
  BY <1>1, <1>2, PlanFacts, Zenon DEF SetMode, BlocklistAdd, AdminBlocklistAdd, Puts
<1>3. CASE BlocklistRemove(a)
  <2>1. req[a].op = "blocklist_remove" /\ pc[a] = "put"
    BY <1>3, Zenon DEF BlocklistRemove
  <2>2. req[a].val = "absent" /\ ~req[a].on /\ req[a].on \in BOOLEAN
    BY <1>1, <2>1, Zenon DEF Plan, Fields
  <2>3. Written(req[a], before[a]) = Absent
    BY <2>1, <2>2, Zenon DEF Written, Absent
  <2> QED
    BY <1>3, <2>3, PlanFacts, Zenon DEF BlocklistRemove, AdminBlocklistRemove, Puts
<1>4. CASE (SetRuntimePolicy(a) \/ ClearRuntimePolicy(a)) /\ pc[a] = "read"
  <2>1. Plan(req[a], "write") /\ req[a].obj \in Objects /\ req[a].obj \notin Children
    BY <1>1, <1>4, TablesAssumption, Zenon DEF SetRuntimePolicy, ClearRuntimePolicy, Plan, Objects
  <2>2. Reads(a) \/ Refuse(a, "invalid")
    BY <1>4, <2>1, Zenon DEF SetRuntimePolicy, ClearRuntimePolicy, GetRuntimePolicy, Reads
  <2> QED
    BY <1>4, <2>2, RefuseForm, Zenon DEF Early
<1>5. CASE (SetRuntimePolicy(a) \/ ClearRuntimePolicy(a)) /\ pc[a] = "write"
  <2>1. req[a].op = "clear_runtime_policy" => Written(req[a], before[a]) = Row("env")
    BY <1>1, <1>5, Zenon DEF Plan, Written, Row
  <2> QED
    BY <1>5, <2>1, PlanFacts, Zenon
    DEF SetRuntimePolicy, ClearRuntimePolicy, ReplaceRuntimePolicy, DeleteRuntimePolicy, Puts
<1> QED
  BY <1>2, <1>3, <1>4, <1>5, Zenon DEF SetRuntimePolicy, ClearRuntimePolicy

\* The statements of the campaigns.
LEMMA CampaignForms ==
  ASSUME AdminInv, NEW a \in Admins,
         CreateCampaign(a) \/ UpdateCampaign(a) \/ DisableCampaign(a)
  PROVE  Serves(a)
<1> USE DEF Serves, At
<1>1. Plan(req[a], pc[a]) /\ pc[a] \in {"read", "write"}
  BY Zenon DEF AdminInv, CreateCampaign, UpdateCampaign, DisableCampaign
<1>2. Plan(req[a], "write") /\ req[a].obj \in Objects /\ req[a].obj \notin Children
  BY <1>1, TablesAssumption, Zenon
  DEF CreateCampaign, UpdateCampaign, DisableCampaign, Plan, Objects
<1>3. Quits(a) \/ Reads(a) \/ Puts(a)
  BY <1>1, <1>2, RefuseForm, Zenon
  DEF CreateCampaign, UpdateCampaign, DisableCampaign, Insert, Update, Reads, Puts, Early
<1> QED
  BY <1>3, Zenon

\* The statements of the codes and the allowlist.
LEMMA ChildForms ==
  ASSUME AdminInv, NEW a \in Admins, CreateInvitationCode(a) \/ AddAllowlistEntry(a)
  PROVE  Serves(a)
<1> USE DEF Serves, At
<1>1. /\ Plan(req[a], pc[a]) /\ pc[a] \in {"parent", "read", "parent2", "write"}
      /\ req[a].op \in {"invitation_create", "campaign_allowlist_add"}
  BY Zenon DEF AdminInv, CreateInvitationCode, AddAllowlistEntry
<1>2. /\ Plan(req[a], "read") /\ Plan(req[a], "parent2") /\ Plan(req[a], "write")
      /\ req[a].obj \in Objects /\ req[a].obj \in Children
  BY <1>1, TablesAssumption, Zenon DEF Plan, Objects
<1>3. CASE pc[a] = "parent" \/ pc[a] = "parent2"
  BY <1>1, <1>2, <1>3, RefuseForm, Zenon
  DEF CreateInvitationCode, AddAllowlistEntry, Recheck, Proceed, Continues, Early
<1>4. CASE pc[a] = "read" \/ pc[a] = "write"
  BY <1>1, <1>2, <1>4, RefuseForm, Zenon
  DEF CreateInvitationCode, AddAllowlistEntry, AddCampaignAllowlistEntry, Insert, Reads, Puts, Early
<1> QED
  BY <1>1, <1>3, <1>4, Zenon

\* The statements of a retry or a cancellation.
LEMMA ClaimForms ==
  ASSUME AdminInv, NEW a \in Admins, RetryClaim(a) \/ CancelClaim(a)
  PROVE  Serves(a)
<1> USE DEF Serves, At
<1>1. /\ Plan(req[a], pc[a]) /\ pc[a] \in {"check", "write", "recheck"}
      /\ req[a].op \in {"retry_claim", "cancel_claim"}
  BY Zenon DEF AdminInv, RetryClaim, CancelClaim
<1>2. Plan(req[a], "write") /\ Plan(req[a], "recheck") /\ req[a].obj \in Claims
  BY <1>1, Zenon DEF Plan
<1>3. CASE pc[a] \in {"check", "recheck"}
  BY <1>1, <1>2, <1>3, RefuseForm, Zenon
  DEF RetryClaim, CancelClaim, CheckClaim, ReadLatest, Proceed, Continues, Early
<1>4. CASE pc[a] = "write"
  <2>1. Applies("retry_claim") \cap NotCancellable = {} /\ Applies("cancel_claim") \cap NotCancellable = {}
    BY Zenon DEF Applies, NotCancellable, Retryable
  <2> QED
    BY <1>1, <1>2, <1>4, <2>1, Zenon
    DEF RetryClaim, CancelClaim, AdminRetryClaim, AdminCancelClaim, Proceed, Continues, Moves, Early
<1> QED
  BY <1>1, <1>3, <1>4, Zenon

\* Every step of a request is of one of the kinds.
LEMMA ServeForms ==
  ASSUME AdminInv, NEW a \in Admins, Handle(a) \/ Serve(a)
  PROVE  Serves(a)
<1>1. CASE Handle(a)
  BY <1>1, HandleForms, Zenon DEF Serves
<1>2. CASE StatementFails(a) \/ BlocklistFails(a)
  <2>1. faults' \in 0..MaxFaults
    BY <1>2, AdminBoundsAssumption DEF StatementFails, BlocklistFails, Fault, AdminInv, AdminTypes
  <2> QED
    BY <1>2, <2>1, Zenon DEF StatementFails, BlocklistFails, Serves, Quits, Early
<1>3. CASE appendAudit(a) \/ AuditFails(a) \/ Rollback(a) \/ RollbackFails(a)
  BY <1>3, Zenon DEF Serves
<1> QED
  BY <1>1, <1>2, <1>3, SettingForms, CampaignForms, ChildForms, ClaimForms, Zenon DEF Serve

-----------------------------------------------------------------------------
\* AdminInv is inductive.

\* What a request writes is a row.
LEMMA WrittenType ==
  ASSUME NEW q \in Fields, NEW b \in RealRows
  PROVE  Written(q, b) \in RealRows
<1>1. q.val = "absent" => ~q.on
  BY Zenon DEF Fields
<1>2. CASE q.op = "campaign_disable"
  BY <1>2, Zenon DEF Written, RealRows, Rows
<1>3. CASE q.op # "campaign_disable"
  BY <1>1, <1>3, Zenon DEF Written, RealRows, Rows, Fields
<1> QED
  BY <1>2, <1>3, Zenon

\* A step of one request leaves the others where they are.
LEMMA OneRequest ==
  ASSUME AdminInv, NEW a \in Admins, AdminTypes', Plan(req[a], pc[a])', Knows(a)',
         \A b \in Admins \ {a} : pc'[b] = pc[b] /\ req'[b] = req[b] /\ before'[b] = before[b]
  PROVE  AdminInv'
<1>1. \A b \in Admins \ {a} : Plan(req[b], pc[b])' /\ Knows(b)'
  BY Zenon DEF AdminInv, Knows, Undoable
<1> QED
  BY <1>1, Zenon DEF AdminInv

\* A request that has been answered.
LEMMA Answered ==
  ASSUME AdminInv, NEW a \in Admins, NEW r \in Replies, Answer(a, r)
  PROVE  /\ pc' \in [Admins -> Early \cup Late \cup {"idle"}] /\ req' \in [Admins -> Fields]
         /\ before' \in [Admins -> RealRows]
         /\ gone' \in [Admins -> BOOLEAN] /\ reply' \in [Admins -> Replies]
         /\ Plan(req[a], pc[a])' /\ Knows(a)'
         /\ pc'[a] = "idle" /\ reply'[a] = r
         /\ \A b \in Admins \ {a} : /\ pc'[b] = pc[b] /\ req'[b] = req[b]
                                    /\ before'[b] = before[b] /\ reply'[b] = reply[b]
<1>1. NoRequest \in Fields /\ Absent \in RealRows
  BY Zenon DEF NoRequest, Fields, Ops, Values, Absent, RealRows, Rows
<1>2. pc'[a] = "idle" /\ req'[a] = NoRequest
  BY Zenon DEF Answer, AdminInv, AdminTypes
<1>3. Knows(a)' /\ Plan(req[a], pc[a])'
  BY <1>2, Zenon DEF Knows, Plan, NoRequest
<1> QED
  BY <1>1, <1>2, <1>3, Zenon DEF Answer, AdminInv, AdminTypes

\* A request that has gone on to its next statement.
LEMMA Gone ==
  ASSUME AdminInv, NEW a \in Admins, NEW s \in Early \cup Late, Goto(a, s)
  PROVE  /\ pc' \in [Admins -> Early \cup Late \cup {"idle"}]
         /\ pc'[a] = s /\ req' = req /\ gone' = gone /\ reply' = reply
         /\ \A b \in Admins \ {a} : pc'[b] = pc[b]
  BY Zenon DEF Goto, AdminInv, AdminTypes

\* Each kind of step keeps AdminInv.
LEMMA AdminServe ==
  ASSUME AdminInv, NEW a \in Admins, Serves(a)
  PROVE  AdminInv'
<1>0. Plan(req[a], pc[a]) /\ Knows(a) /\ req[a] \in Fields /\ before[a] \in RealRows
  BY Zenon DEF AdminInv, AdminTypes
<1>1. CASE Receives(a)
  <2> PICK q \in Fields, s \in {"put", "read", "parent", "check"}, checked \in BOOLEAN :
        Plan(q, s) /\ Receive(a, q, s, checked)
    BY <1>1, Zenon DEF Receives
  <2>1. AdminTypes'
    BY AdminBoundsAssumption DEF AdminInv, AdminTypes, Receive, Early, Replies, rows
  <2>2. CASE pc' = pc /\ req' = req
    BY <1>0, <2>1, <2>2, OneRequest, Zenon DEF Receive, Knows, Undoable
  <2>3. CASE pc' = [pc EXCEPT ![a] = s] /\ req' = [req EXCEPT ![a] = q]
    <3>1. pc'[a] = s /\ req'[a] = q
      BY <2>3, Zenon DEF AdminInv, AdminTypes
    <3>2. Knows(a)' /\ Plan(req[a], pc[a])'
      BY <3>1, Zenon DEF Knows
    <3> QED
      BY <2>1, <2>3, <3>2, OneRequest, Zenon DEF Receive, AdminInv, AdminTypes
  <2> QED
    BY <2>2, <2>3, Zenon DEF Receive
<1>2. CASE Quits(a)
  <2> PICK r \in {"invalid", "notfound", "conflict", "error"} : Answer(a, r)
    BY <1>2, Zenon DEF Quits
  <2>1. r \in Replies
    BY Zenon DEF Replies
  <2>2. AdminTypes'
    BY <1>2, <2>1, Answered, Zenon DEF Quits, AdminInv, AdminTypes, rows
  <2> QED
    BY <2>1, <2>2, Answered, OneRequest, Zenon
<1>3. CASE Continues(a)
  <2> PICK s \in {"read", "write", "recheck"} :
        /\ Goto(a, s) /\ Plan(req[a], s)
        /\ s = "write" =>
            \/ req[a].obj \in Claims
            \/ /\ pc[a] = "parent2" /\ req[a].obj \in Children
    BY <1>3, Zenon DEF Continues
  <2>1. s \in Early
    BY Zenon DEF Early
  <2>2. AdminTypes'
    BY <1>3, <2>1, Gone, Zenon DEF Continues, AdminInv, AdminTypes, rows, history
  <2>3. Knows(a)'
    <3>1. pc'[a] = s /\ req' = req /\ before' = before
      BY <1>3, <2>1, Gone, Zenon DEF Continues
    <3>2. req[a].op \in {"campaign_create", "campaign_update", "campaign_disable"} => s # "write"
      BY <1>0, TablesAssumption, Zenon DEF Plan, NoRequest, Objects
    <3>3. req[a].op = "invitation_create" /\ s = "write" => pc[a] = "parent2"
      BY <1>0, TablesAssumption, Zenon DEF Plan, NoRequest, Objects
    <3> QED
      BY <1>0, <3>1, <3>2, <3>3, Zenon DEF Knows
  <2> QED
    BY <1>3, <2>1, <2>2, <2>3, Gone, OneRequest, Zenon DEF Continues
<1>4. CASE Reads(a)
  <2> PICK s \in {"parent2", "write"} : Plan(req[a], s) /\ Read(a, s)
    BY <1>4, Zenon DEF Reads
  <2>1. s \in Early /\ Goto(a, s)
    BY Zenon DEF Early, Read
  <2>2. before' \in [Admins -> RealRows] /\ before'[a] = inForce[req[a].obj]
    BY <1>4, Zenon DEF Read, Reads, AdminInv, AdminTypes
  <2>3. AdminTypes'
    BY <2>1, <2>2, Gone DEF Read, AdminInv, AdminTypes, rows, history
  <2>4. Knows(a)'
    BY <1>4, <2>1, <2>2, Gone, Zenon DEF Knows, Reads
  <2> QED
    BY <2>1, <2>3, <2>4, Gone, OneRequest DEF Read, AdminInv, AdminTypes
<1>5. CASE Puts(a)
  <2>1. Goto(a, "audit") /\ "audit" \in Late /\ UNCHANGED before
    BY <1>5, Zenon DEF Puts, Put, Late
  <2>2. inForce' \in [Objects -> RealRows] /\ effect' \subseteq Admins /\ tainted' \subseteq Objects
    BY <1>0, <1>5, WrittenType, Zenon DEF Puts, Put, AdminInv, AdminTypes
  <2>3. AdminTypes'
    BY <1>5, <2>1, <2>2, Gone, Zenon DEF Puts, Put, AdminInv, AdminTypes
  <2>4. Knows(a)' /\ Plan(req[a], "audit")
    BY <1>0, <1>5, <2>1, Gone, PlanFacts DEF Knows, Puts, Plan
  <2> QED
    BY <2>1, <2>3, <2>4, Gone, OneRequest, Zenon
<1>6. CASE Moves(a)
  <2> PICK s \in {"queued", "rejected"} : MoveClaim(a, s)
    BY <1>6, Zenon DEF Moves
  <2>1. Goto(a, "audit") /\ "audit" \in Late /\ UNCHANGED before
    BY Zenon DEF MoveClaim, Late
  <2>2. claim' \in [Claims -> ClaimStatus] /\ effect' \subseteq Admins
    BY <1>6, Zenon DEF Moves, MoveClaim, AdminInv, AdminTypes, ClaimStatus
  <2>3. AdminTypes'
    BY <2>1, <2>2, Gone, Zenon DEF MoveClaim, AdminInv, AdminTypes
  <2>4. Knows(a)' /\ Plan(req[a], "audit")
    BY <1>0, <1>6, <2>1, Gone, PlanFacts DEF Knows, Moves, Plan
  <2> QED
    BY <2>1, <2>3, <2>4, Gone, OneRequest, Zenon
<1>7. CASE appendAudit(a)
  <2>1. "ok" \in Replies /\ Answer(a, "ok")
    BY <1>7, Zenon DEF Replies, appendAudit
  <2>2. audited' \in [Objects -> RealRows] /\ logged' \subseteq Admins
    BY <1>0, <1>7, WrittenType, Zenon DEF appendAudit, AdminInv, AdminTypes
  <2>3. AdminTypes'
    BY <1>7, <2>1, <2>2, Answered, Zenon DEF appendAudit, AdminInv, AdminTypes
  <2> QED
    BY <2>1, <2>3, Answered, OneRequest, Zenon
<1>8. AuditFails(a) \/ RollbackFails(a) \/ Rollback(a)
      => faults' \in 0..MaxFaults /\ "error" \in Replies /\ "undo" \in Late
  BY AdminBoundsAssumption
  DEF AuditFails, RollbackFails, Rollback, Fault, AdminInv, AdminTypes, Replies, Late
<1>9. CASE AuditFails(a) /\ Undoable(a)
  <2>1. AdminTypes' /\ Goto(a, "undo") /\ UNCHANGED before
    BY <1>8, <1>9, Gone, Zenon DEF AuditFails, AdminInv, AdminTypes, rows
  <2>2. Knows(a)' /\ Plan(req[a], "undo")
    BY <1>0, <1>8, <1>9, <2>1, Gone, Zenon DEF Knows, AuditFails, Plan, Undoable
  <2> QED
    BY <1>8, <1>9, <2>1, <2>2, Gone, OneRequest, Zenon
<1>10. CASE (AuditFails(a) /\ ~Undoable(a)) \/ RollbackFails(a)
  <2>1. Answer(a, "error") /\ tainted' \subseteq Objects
    BY <1>10, Zenon DEF AuditFails, RollbackFails, Keep, AdminInv, AdminTypes
  <2>2. AdminTypes'
    BY <1>8, <1>10, <2>1, Answered, Zenon DEF AuditFails, RollbackFails, AdminInv, AdminTypes, rows
  <2> QED
    BY <1>8, <1>10, <2>1, <2>2, Answered, OneRequest, Zenon
<1>11. CASE Rollback(a)
  <2>1. req[a].obj \in Objects
    BY <1>0, <1>11, Zenon DEF Rollback, Plan, Objects
  <2>2. /\ Answer(a, "error") /\ tainted' \subseteq Objects
        /\ undone' \subseteq Campaigns /\ effect' \subseteq Admins
    BY <1>11, <2>1, Zenon DEF Rollback, AdminInv, AdminTypes
  <2>3. Undone(a) \in RealRows
    BY <1>0, Zenon DEF Undone, Absent, RealRows, Rows, Values
  <2>4. AdminTypes'
    BY <1>8, <1>11, <2>2, <2>3, Answered, Zenon DEF Rollback, AdminInv, AdminTypes
  <2> QED
    BY <1>8, <1>11, <2>2, <2>4, Answered, OneRequest, Zenon
<1> QED
  BY <1>1, <1>2, <1>3, <1>4, <1>5, <1>6, <1>7, <1>9, <1>10, <1>11, Zenon DEF Serves

\* The client, the payout and the process keep AdminInv.
LEMMA AdminEnvironment ==
  ASSUME AdminInv, (\E a \in Admins : Disconnect(a)) \/ PayoutMove \/ Restart \/ UNCHANGED vars
  PROVE  AdminInv'
<1>1. CASE \E a \in Admins : Disconnect(a)
  <2> PICK a \in Admins : Disconnect(a)
    BY <1>1, Zenon
  <2>1. AdminTypes'
    BY AdminBoundsAssumption DEF Disconnect, Fault, AdminInv, AdminTypes, rows
  <2> QED
    BY <2>1, Zenon DEF Disconnect, AdminInv, Knows, Undoable
<1>2. CASE PayoutMove
  <2>1. claim' \in [Claims -> ClaimStatus]
    BY <1>2, Zenon DEF PayoutMove, AdminInv, AdminTypes, ClaimStatus
  <2>2. UNCHANGED <<inForce, audited, pc, req, before, gone, reply, effect, logged, tainted, undone,
                    requests, faults>>
    BY <1>2, Zenon DEF PayoutMove, request, history
  <2>3. AdminTypes'
    BY <2>1, <2>2, Zenon DEF AdminInv, AdminTypes
  <2> QED
    BY <2>2, <2>3, Zenon DEF AdminInv, Knows, Undoable
<1>3. CASE Restart
  <2>1. /\ NoRequest \in Fields /\ Absent \in RealRows /\ Row("active") \in RealRows
        /\ "none" \in Replies
    BY Zenon DEF NoRequest, Fields, Ops, Values, Absent, Row, RealRows, Rows, Replies
  <2>2. AdminTypes'
    <3>1. inForce' \in [Objects -> RealRows]
      BY <1>3, <2>1, Zenon DEF Restart, AdminInv, AdminTypes
    <3>2. tainted' \subseteq Objects
      BY <1>3, Zenon DEF Restart, AdminInv, AdminTypes, Objects
    <3>3. faults' \in 0..MaxFaults
      BY <1>3, AdminBoundsAssumption DEF Restart, Fault, AdminInv, AdminTypes
    <3>4. UNCHANGED <<claim, audited, undone, requests>> /\ effect' = {} /\ logged' = {}
      BY <1>3, Zenon DEF Restart
    <3>5. /\ pc' \in [Admins -> Early \cup Late \cup {"idle"}] /\ req' \in [Admins -> Fields]
          /\ before' \in [Admins -> RealRows]
          /\ gone' \in [Admins -> BOOLEAN] /\ reply' \in [Admins -> Replies]
      BY <1>3, <2>1, Zenon DEF Restart
    <3> QED
      BY <3>1, <3>2, <3>3, <3>4, <3>5, Zenon DEF AdminInv, AdminTypes
  <2>3. \A a \in Admins : pc'[a] = "idle" /\ req'[a] = NoRequest
    BY <1>3, Zenon DEF Restart
  <2> QED
    BY <2>2, <2>3, Zenon DEF AdminInv, Knows, Plan, NoRequest
<1>4. CASE UNCHANGED vars
  BY <1>4, Zenon DEF vars, rows, request, history, AdminInv, AdminTypes, Knows, Undoable
<1> QED
  BY <1>1, <1>2, <1>3, <1>4, Zenon

\* Nothing is under way at first.
LEMMA AdminInit == Init => AdminInv
<1> SUFFICES ASSUME Init PROVE AdminInv
  BY Zenon
<1>1. /\ NoRequest \in Fields /\ Absent \in RealRows /\ Row("active") \in RealRows
      /\ Row("env") \in RealRows /\ "none" \in Replies
  BY Zenon DEF NoRequest, Fields, Ops, Values, Absent, Row, RealRows, Rows, Replies
<1>2. AdminTypes
  BY <1>1, AdminBoundsAssumption DEF Init, AdminTypes, ClaimStatus
<1>3. \A a \in Admins : pc[a] = "idle" /\ req[a] = NoRequest
  BY Zenon DEF Init
<1> QED
  BY <1>2, <1>3, Zenon DEF AdminInv, Knows, Plan, NoRequest

\* A step is a step of one request or one of the environment.
LEMMA NextForms ==
  ASSUME AdminInv, [Next]_vars
  PROVE  \/ \E a \in Admins : Serves(a)
         \/ (\E a \in Admins : Disconnect(a)) \/ PayoutMove \/ Restart \/ UNCHANGED vars
  BY ServeForms, Zenon DEF Next

\* The state of every request fits its operation, always.
LEMMA AdminInvariant == Spec => []AdminInv
<1>1. AdminInv /\ [Next]_vars => AdminInv'
  BY NextForms, AdminServe, AdminEnvironment, Zenon
<1> QED
  BY <1>1, AdminInit, PTL DEF Spec

\* Every variable of the admin plane keeps its type, whatever the requests.
THEOREM AdminTypeCorrect == Spec => []TypeOK
<1>1. AdminInv => TypeOK
  <2> SUFFICES ASSUME AdminInv PROVE TypeOK
    BY Zenon
  <2>1. RealRows \subseteq Rows
    BY Zenon DEF RealRows
  <2>2. \A a \in Admins :
          /\ DOMAIN req[a] = {"op", "obj", "val", "on", "valid"}
          /\ pc[a] # "idle" => req[a].obj \in Objects \cup Claims
    BY PlanFacts, Zenon DEF AdminInv, AdminTypes, Fields
  <2> QED
    BY <2>1, <2>2, Zenon DEF AdminInv, AdminTypes, TypeOK, Early, Late
<1> QED
  BY <1>1, AdminInvariant, PTL

-----------------------------------------------------------------------------

\* No admin command changes a claim whose payment is under way or done: the
\* UPDATEs of AdminRetryClaim and AdminCancelClaim name the statuses themselves.
THEOREM AdminOffPayments == Spec => AdminKeepsOffPayments
<1>1. ASSUME AdminInv, [Next]_vars
      PROVE  [\A c \in Claims :
                claim[c] \in NotCancellable /\ claim'[c] # claim[c] =>
                    \A a \in Admins : pc'[a] = pc[a]]_vars
  <2> SUFFICES ASSUME NEW c \in Claims, claim[c] \in NotCancellable, claim'[c] # claim[c]
               PROVE  \A a \in Admins : pc'[a] = pc[a]
    BY Zenon
  <2>1. CASE PayoutMove
    BY <2>1, Zenon DEF PayoutMove, request
  <2>2. ASSUME NEW a \in Admins, Serves(a) PROVE FALSE
    <3>1. CASE Moves(a)
      BY <3>1 DEF Moves, MoveClaim, AdminInv, AdminTypes
    <3>2. ~Moves(a) => claim' = claim
      BY <2>2, Zenon
      DEF Serves, Receives, Receive, Quits, Continues, Reads, Read, Puts, Put, appendAudit,
                  AuditFails, Rollback, RollbackFails, rows
    <3> QED
      BY <3>1, <3>2, Zenon
  <2>3. CASE (\E a \in Admins : Disconnect(a)) \/ Restart \/ UNCHANGED vars
    BY <2>3, Zenon DEF Disconnect, Restart, rows, vars
  <2> QED
    BY <1>1, <2>1, <2>2, <2>3, NextForms, Zenon
<1> QED
  BY <1>1, AdminInvariant, PTL DEF Spec, AdminKeepsOffPayments

-----------------------------------------------------------------------------
\* The audit log and what is in force.

\* A step of a request that neither was late on object o nor is about to write it.
LEMMA OtherObject ==
  ASSUME NEW a \in Admins, NEW o \in Objects, AuditAt(o),
         inForce'[o] = inForce[o], audited'[o] = audited[o],
         \A b \in Admins \ {a} : pc'[b] = pc[b] /\ req'[b] = req[b] /\ before'[b] = before[b],
         req[a].obj # o \/ pc[a] \notin Late,
         req'[a].obj # o \/ pc'[a] \notin {"parent2", "write"} \cup Late
  PROVE  AuditAt(o)'
<1>1. Unsettled(o) => Unsettled(o)'
  BY Zenon DEF Unsettled, Late
<1>2. ASSUME NEW b \in Admins, req'[b].obj = o, pc'[b] \in {"parent2", "write"} \cup Late
      PROVE  /\ b # a /\ pc'[b] = pc[b] /\ req'[b] = req[b] /\ before'[b] = before[b]
             /\ Undoable(b)' = Undoable(b)
  BY <1>2, Zenon DEF Undoable
<1> QED
  BY <1>1, <1>2 DEF AuditAt

\* The object that a request has just written, with nobody else at it.
LEMMA PutObject ==
  ASSUME AdminInv, NEW a \in Admins, Puts(a), NEW o, req[a].obj = o, ~Contended(a, o), AuditAt(o)
  PROVE  AuditAt(o)'
<1>1. /\ o \in Objects /\ pc[a] \in {"put", "write"} /\ Plan(req[a], pc[a])
      /\ inForce'[o] = Written(req[a], before[a]) /\ audited' = audited
      /\ pc'[a] = "audit" /\ req' = req /\ before' = before
      /\ \A b \in Admins \ {a} : pc'[b] = pc[b]
  BY Zenon DEF Puts, Put, Goto, AdminInv, AdminTypes
<1>2. \A b \in Admins \ {a} : req[b].obj = o => pc[b] \notin {"parent2", "write", "audit", "undo"}
  BY Zenon DEF Contended
<1>3. inForce[o] = audited[o]
  BY <1>1, <1>2, Zenon DEF AuditAt, Unsettled
<1>4. Undoable(a) => before[a] = inForce[o]
  BY <1>1, Zenon DEF Undoable, Plan, NoRequest, AuditAt
<1>5. Unsettled(o)' /\ Undoable(a)' = Undoable(a)
  BY <1>1, Zenon DEF Unsettled, Undoable
<1>6. ASSUME NEW b \in Admins, req'[b].obj = o, pc'[b] \in {"parent2", "write"} \cup Late
      PROVE  b = a
  BY <1>1, <1>2, <1>6, Zenon DEF Late
<1> QED
  BY <1>1, <1>3, <1>4, <1>5, <1>6, Zenon DEF AuditAt

\* The object that a request has put back, with nobody else at it: the row it
\* read first is the one that the log tells of.
LEMMA UndoObject ==
  ASSUME AdminInv, NEW a \in Admins, Rollback(a), NEW o, req[a].obj = o, ~Contended(a, o), AuditAt(o)
  PROVE  AuditAt(o)'
<1>1. /\ pc[a] = "undo" /\ Plan(req[a], pc[a]) /\ Knows(a) /\ before[a] \in RealRows
      /\ inForce \in [Objects -> RealRows]
      /\ inForce' = [inForce EXCEPT ![o] = Undone(a)] /\ audited' = audited
      /\ pc'[a] = "idle"
      /\ \A b \in Admins \ {a} : pc'[b] = pc[b] /\ req'[b] = req[b] /\ before'[b] = before[b]
  BY Zenon DEF Rollback, Answer, AdminInv, AdminTypes
<1>2. o \in Objects
  BY <1>1, Zenon DEF Plan, Objects
<1>3. \A b \in Admins \ {a} : req[b].obj = o => pc[b] \notin {"parent2", "write", "audit", "undo"}
  BY Zenon DEF Contended
<1>4. before[a] = audited[o] /\ inForce[o] = Written(req[a], before[a])
  BY <1>1, Zenon DEF AuditAt, Knows, Late
<1>5. req[a].op \in {"campaign_update", "campaign_disable"} => inForce[o] # Absent
  <2>1. CASE req[a].op = "campaign_update"
    BY <1>1, <1>4, <2>1 DEF Plan, Written, Absent, NoRequest
  <2>2. CASE req[a].op = "campaign_disable"
    <3>1. before[a].val # "absent"
      BY <1>1, <2>2, Zenon DEF Knows, RealRows, Rows, Absent
    <3> QED
      BY <1>1, <1>4, <2>2, <3>1 DEF Written, Absent, RealRows, Rows
  <2> QED
    BY <2>1, <2>2, Zenon
<1>6. inForce'[o] = audited'[o]
  BY <1>1, <1>2, <1>4, <1>5, Zenon DEF Undone
<1>7. \A b \in Admins : req'[b].obj = o => pc'[b] \notin {"parent2", "write"} \cup Late
  BY <1>1, <1>3, Zenon DEF Late
<1> QED
  BY <1>6, <1>7, Zenon DEF AuditAt

\* Each kind of step of a request keeps AuditInv.
LEMMA AuditServe ==
  ASSUME AdminInv, AuditInv, NEW a \in Admins, Serves(a)
  PROVE  AuditInv'
<1> SUFFICES ASSUME NEW o \in Objects, o \notin tainted' PROVE AuditAt(o)'
  BY Zenon DEF AuditInv
<1>1. tainted \subseteq tainted'
  BY Zenon
  DEF Serves, Receives, Receive, Quits, Continues, Reads, Read, Puts, Put, Moves, MoveClaim,
         appendAudit, AuditFails, Rollback, RollbackFails, Keep, history
<1>2. AuditAt(o)
  BY <1>1, Zenon DEF AuditInv
<1>3. Late \cap Early = {} /\ "idle" \notin Early \cup Late \cup {"parent2", "write"}
  BY Zenon DEF Early, Late
<1>4. Plan(req[a], pc[a]) /\ inForce \in [Objects -> RealRows] /\ audited \in [Objects -> RealRows]
  BY Zenon DEF AdminInv, AdminTypes
<1>5. CASE Receives(a)
  <2> PICK q \in Fields, s \in {"put", "read", "parent", "check"}, checked \in BOOLEAN :
        Plan(q, s) /\ Receive(a, q, s, checked)
    BY <1>5, Zenon DEF Receives
  <2>1. /\ pc[a] = "idle" /\ pc'[a] \notin {"parent2", "write"} \cup Late
        /\ \A b \in Admins \ {a} : pc'[b] = pc[b] /\ req'[b] = req[b] /\ before'[b] = before[b]
        /\ inForce' = inForce /\ audited' = audited
    BY <1>3 DEF Receive, AdminInv, AdminTypes, rows, Late
  <2> QED
    BY <1>2, <1>3, <2>1, OtherObject, Zenon
<1>6. CASE Quits(a)
  <2>1. /\ pc[a] \in Early /\ pc'[a] = "idle"
        /\ \A b \in Admins \ {a} : pc'[b] = pc[b] /\ req'[b] = req[b] /\ before'[b] = before[b]
        /\ inForce' = inForce /\ audited' = audited
    BY <1>6 DEF Quits, Answer, AdminInv, AdminTypes, rows
  <2> QED
    BY <1>2, <1>3, <2>1, OtherObject, Zenon
<1>7. CASE Continues(a)
  <2>1. /\ pc[a] \in Early /\ req' = req /\ before' = before
        /\ \A b \in Admins \ {a} : pc'[b] = pc[b]
        /\ inForce' = inForce /\ audited' = audited
        /\ pc'[a] \in {"read", "write", "recheck"}
        /\ pc'[a] = "write" => req[a].obj \in Claims \/ pc[a] = "parent2"
    BY <1>7, Zenon DEF Continues, Goto, AdminInv, AdminTypes, rows
  <2>2. CASE req[a].obj # o \/ pc'[a] # "write"
    BY <1>2, <1>3, <2>1, <2>2, OtherObject, Zenon DEF Late
  <2>3. CASE req[a].obj = o /\ pc'[a] = "write"
    <3>1. pc[a] = "parent2"
      BY <2>1, <2>3, TablesAssumption, Zenon
    <3>2. before[a] = inForce[o]
      BY <1>2, <2>3, <3>1, Zenon DEF AuditAt
    <3>3. (Unsettled(o) => Unsettled(o)') /\ \A b \in Admins : Undoable(b)' = Undoable(b)
      BY <2>1, <3>1, Zenon DEF Unsettled, Undoable
    <3> QED
      BY <1>2, <2>1, <2>3, <3>2, <3>3 DEF AuditAt, Late
  <2> QED
    BY <2>2, <2>3, Zenon
<1>8. CASE Reads(a)
  <2>1. /\ pc[a] = "read" /\ req' = req /\ before'[a] = inForce[req[a].obj]
        /\ \A b \in Admins \ {a} : pc'[b] = pc[b] /\ before'[b] = before[b]
        /\ inForce' = inForce /\ audited' = audited
        /\ pc'[a] \in {"parent2", "write"}
    BY <1>8 DEF Reads, Read, Goto, AdminInv, AdminTypes, rows
  <2>2. CASE req[a].obj # o
    BY <1>2, <2>1, <2>2, OtherObject, Zenon
  <2>3. CASE req[a].obj = o
    <3>1. Unsettled(o) => Unsettled(o)'
      BY <2>1, Zenon DEF Unsettled
    <3>2. \A b \in Admins \ {a} : Undoable(b)' = Undoable(b)
      BY <2>1, Zenon DEF Undoable
    <3> QED
      BY <1>2, <2>1, <2>3, <3>1, <3>2 DEF AuditAt, Late
  <2> QED
    BY <2>2, <2>3, Zenon
<1>9. CASE Puts(a)
  <2>1. CASE req[a].obj = o
    BY <1>2, <1>9, <2>1, PutObject, Zenon DEF Puts, Put
  <2>2. CASE req[a].obj # o
    <3>1. /\ pc[a] \in {"put", "write"} /\ req' = req /\ before' = before
          /\ \A b \in Admins \ {a} : pc'[b] = pc[b]
          /\ inForce'[o] = inForce[o] /\ audited' = audited
      BY <1>4, <1>9, <2>2, Zenon DEF Puts, Put, Goto, AdminInv, AdminTypes
    <3> QED
      BY <1>2, <2>2, <3>1, OtherObject, Zenon
  <2> QED
    BY <2>1, <2>2, Zenon
<1>10. CASE Moves(a)
  <2>1. /\ req[a].obj # o /\ req' = req /\ before' = before
        /\ \A b \in Admins \ {a} : pc'[b] = pc[b]
        /\ inForce' = inForce /\ audited' = audited
    BY <1>10, TablesAssumption DEF Moves, MoveClaim, Goto, AdminInv, AdminTypes
  <2> QED
    BY <1>2, <2>1, OtherObject, Zenon
<1>11. CASE appendAudit(a)
  <2>1. /\ pc[a] = "audit" /\ pc'[a] = "idle" /\ inForce' = inForce
        /\ \A b \in Admins \ {a} : pc'[b] = pc[b] /\ req'[b] = req[b] /\ before'[b] = before[b]
    BY <1>11, Zenon DEF appendAudit, Answer, AdminInv, AdminTypes
  <2>2. CASE req[a].obj # o
    <3>1. audited'[o] = audited[o]
      BY <1>4, <1>11, <2>2, Zenon DEF appendAudit
    <3> QED
      BY <1>2, <1>3, <2>1, <2>2, <3>1, OtherObject, Zenon
  <2>3. CASE req[a].obj = o
    <3>1. audited'[o] = inForce'[o]
      BY <1>2, <1>4, <1>11, <2>1, <2>3, Zenon DEF appendAudit, AuditAt, Late
    <3>2. \A b \in Admins \ {a} : req[b].obj = o => pc[b] \notin Late
      BY <1>2, <2>1, <2>3, Zenon DEF AuditAt, Late
    <3> QED
      BY <1>2, <1>3, <2>1, <3>1, <3>2 DEF AuditAt
  <2> QED
    BY <2>2, <2>3, Zenon
<1>12. CASE AuditFails(a) /\ Undoable(a)
  <2>1. /\ pc[a] = "audit" /\ pc'[a] = "undo" /\ req' = req /\ before' = before
        /\ \A b \in Admins \ {a} : pc'[b] = pc[b]
        /\ inForce' = inForce /\ audited' = audited
    BY <1>12, Zenon DEF AuditFails, Goto, AdminInv, AdminTypes, rows
  <2>2. \A b \in Admins : pc'[b] \in Late <=> pc[b] \in Late
    BY <2>1, Zenon DEF Late
  <2>3. (Unsettled(o) => Unsettled(o)') /\ \A b \in Admins : Undoable(b)' = Undoable(b)
    BY <2>1, Zenon DEF Unsettled, Undoable
  <2> QED
    BY <1>2, <2>1, <2>2, <2>3, Zenon DEF AuditAt
<1>13. CASE (AuditFails(a) /\ ~Undoable(a)) \/ RollbackFails(a)
  <2>1. /\ req[a].obj # o /\ pc'[a] = "idle"
        /\ \A b \in Admins \ {a} : pc'[b] = pc[b] /\ req'[b] = req[b] /\ before'[b] = before[b]
        /\ inForce' = inForce /\ audited' = audited
    BY <1>13, Zenon DEF AuditFails, RollbackFails, Keep, Answer, AdminInv, AdminTypes, rows
  <2> QED
    BY <1>2, <1>3, <2>1, OtherObject, Zenon
<1>14. CASE Rollback(a)
  <2>1. CASE req[a].obj = o
    BY <1>2, <1>14, <2>1, UndoObject, Zenon DEF Rollback
  <2>2. CASE req[a].obj # o
    <3>1. /\ pc'[a] = "idle" /\ inForce'[o] = inForce[o] /\ audited' = audited
          /\ \A b \in Admins \ {a} : pc'[b] = pc[b] /\ req'[b] = req[b] /\ before'[b] = before[b]
      BY <1>4, <1>14, <2>2, Zenon DEF Rollback, Answer, AdminInv, AdminTypes
    <3> QED
      BY <1>2, <1>3, <2>2, <3>1, OtherObject, Zenon
  <2> QED
    BY <2>1, <2>2, Zenon
<1> QED
  BY <1>5, <1>6, <1>7, <1>8, <1>9, <1>10, <1>11, <1>12, <1>13, <1>14, Zenon DEF Serves

\* What admin.go puts in force is what its audit log says, for every object that
\* no two requests changed at once and whose change did not outlive a failed
\* audit: appendAudit tells of the row in force, and a rollback restores the row
\* that the log told of before.
THEOREM AdminAudited == Spec => []AuditExplainsState
<1>1. Init => AuditInv
  BY Zenon DEF Init, AuditInv, AuditAt, Late
<1>2. ASSUME AdminInv, AuditInv, [Next]_vars PROVE AuditInv'
  <2>1. CASE (\E a \in Admins : Disconnect(a)) \/ PayoutMove \/ UNCHANGED vars
    <3>1. UNCHANGED <<inForce, audited, pc, req, before, tainted>>
      BY <2>1, Zenon DEF Disconnect, PayoutMove, vars, rows, request, history
    <3> QED
      BY <1>2, <3>1 DEF AuditInv, AuditAt, Unsettled, Undoable
  <2>2. CASE Restart
    <3> SUFFICES ASSUME NEW o \in Objects, o \notin tainted' PROVE AuditAt(o)'
      BY Zenon DEF AuditInv
    <3>1. o \notin tainted /\ o # "mode" /\ ~Unsettled(o)
      BY <2>2, Zenon DEF Restart, Unsettled
    <3>2. inForce[o] = audited[o] /\ inForce'[o] = inForce[o] /\ audited' = audited
      BY <1>2, <2>2, <3>1 DEF Restart, AuditInv, AuditAt, AdminInv, AdminTypes
    <3>3. \A a \in Admins : pc'[a] = "idle"
      BY <2>2, Zenon DEF Restart
    <3> QED
      BY <3>2, <3>3, Zenon DEF AuditAt, Late
  <2> QED
    BY <1>2, <2>1, <2>2, NextForms, AuditServe, Zenon
<1>3. AuditInv => AuditExplainsState
  BY Zenon DEF AuditInv, AuditAt, AuditExplainsState
<1> QED
  BY <1>1, <1>2, <1>3, AdminInvariant, PTL DEF Spec

-----------------------------------------------------------------------------
\* The replies.

\* A 200 or 201 of the admin API means that the change took effect and has its
\* audit row, a 4xx that the request changed nothing, however requests, payout
\* and faults fall between its statements.
THEOREM AdminReplies == Spec => []ReplyTellsTheTruth
<1>1. Init => ReplyInv
  BY Zenon DEF Init, ReplyInv, ReplyTellsTheTruth, Early, Late
<1>2. ASSUME AdminInv, ReplyInv, NEW a \in Admins, Serves(a) PROVE ReplyInv'
  <2> USE DEF ReplyInv, ReplyTellsTheTruth
  <2>0. /\ Late \cap Early = {} /\ "idle" \notin Early \cup Late
        /\ pc[a] \in Early \cup Late \cup {"idle"} /\ "audit" \in Late /\ "undo" \in Late
    BY <1>2, Zenon DEF Early, Late, AdminInv, AdminTypes
  <2>1. CASE Receives(a)
    <3>1. /\ pc'[a] \notin Late /\ a \notin effect'
          /\ reply'[a] \in {"none", "invalid"} /\ (pc'[a] # "idle" => reply'[a] = "none")
          /\ \A b \in Admins \ {a} : /\ pc'[b] = pc[b] /\ reply'[b] = reply[b]
                                     /\ b \in effect' <=> b \in effect
                                     /\ b \in logged' <=> b \in logged
      BY <1>2, <2>1 DEF Receives, Receive, AdminInv, AdminTypes, Late
    <3> QED
      BY <1>2, <3>1, Zenon
  <2>2. CASE Quits(a)
    <3>1. /\ pc[a] \in Early /\ pc'[a] = "idle" /\ reply'[a] # "ok"
          /\ effect' = effect /\ logged' = logged
          /\ \A b \in Admins \ {a} : pc'[b] = pc[b] /\ reply'[b] = reply[b]
      BY <1>2, <2>2 DEF Quits, Answer, AdminInv, AdminTypes
    <3> QED
      BY <1>2, <2>0, <3>1, Zenon
  <2>3. CASE Continues(a) \/ Reads(a)
    <3>1. /\ pc[a] \in Early /\ pc'[a] \in Early /\ reply' = reply
          /\ effect' = effect /\ logged' = logged
          /\ \A b \in Admins \ {a} : pc'[b] = pc[b]
      BY <1>2, <2>3, Zenon DEF Continues, Reads, Read, Goto, AdminInv, AdminTypes, Early, history
    <3> QED
      BY <1>2, <2>0, <3>1, Zenon
  <2>4. CASE Puts(a) \/ Moves(a)
    <3>1. /\ pc[a] \in Early /\ pc'[a] = "audit" /\ reply' = reply
          /\ effect' = effect \cup {a} /\ logged' = logged
          /\ \A b \in Admins \ {a} : pc'[b] = pc[b]
      BY <1>2, <2>4 DEF Puts, Put, Moves, MoveClaim, Goto, AdminInv, AdminTypes, Early
    <3> QED
      BY <1>2, <2>0, <3>1, Zenon
  <2>5. CASE appendAudit(a)
    <3>1. /\ pc[a] = "audit" /\ pc'[a] = "idle" /\ reply'[a] = "ok"
          /\ effect' = effect /\ logged' = logged \cup {a}
          /\ \A b \in Admins \ {a} : pc'[b] = pc[b] /\ reply'[b] = reply[b]
      BY <1>2, <2>5, Zenon DEF appendAudit, Answer, AdminInv, AdminTypes
    <3> QED
      BY <1>2, <2>0, <3>1, Zenon
  <2>6. CASE AuditFails(a) /\ Undoable(a)
    <3>1. /\ pc[a] = "audit" /\ pc'[a] = "undo" /\ reply' = reply
          /\ effect' = effect /\ logged' = logged
          /\ \A b \in Admins \ {a} : pc'[b] = pc[b]
      BY <1>2, <2>6, Zenon DEF AuditFails, Goto, AdminInv, AdminTypes
    <3> QED
      BY <1>2, <2>0, <3>1, Zenon
  <2>7. CASE (AuditFails(a) /\ ~Undoable(a)) \/ RollbackFails(a) \/ Rollback(a)
    <3>1. /\ pc'[a] = "idle" /\ reply'[a] = "error" /\ logged' = logged
          /\ \A b \in Admins \ {a} : /\ pc'[b] = pc[b] /\ reply'[b] = reply[b]
                                     /\ b \in effect' <=> b \in effect
      BY <1>2, <2>7 DEF AuditFails, RollbackFails, Rollback, Answer, AdminInv, AdminTypes
    <3> QED
      BY <1>2, <2>0, <3>1, Zenon
  <2> QED
    BY <1>2, <2>1, <2>2, <2>3, <2>4, <2>5, <2>6, <2>7, Zenon DEF Serves
<1>3. ASSUME AdminInv, ReplyInv, [Next]_vars PROVE ReplyInv'
  <2>1. CASE (\E a \in Admins : Disconnect(a)) \/ PayoutMove \/ UNCHANGED vars
    <3>1. UNCHANGED <<pc, reply, effect, logged>>
      BY <2>1, Zenon DEF Disconnect, PayoutMove, vars, rows, request, history
    <3> QED
      BY <1>3, <3>1, Zenon DEF ReplyInv, ReplyTellsTheTruth
  <2>2. CASE Restart
    BY <2>2, Zenon DEF Restart, ReplyInv, ReplyTellsTheTruth, Early, Late
  <2> QED
    BY <1>2, <1>3, <2>1, <2>2, NextForms, Zenon
<1>4. ReplyInv => ReplyTellsTheTruth
  BY Zenon DEF ReplyInv
<1> QED
  BY <1>1, <1>3, <1>4, AdminInvariant, PTL DEF Spec

-----------------------------------------------------------------------------
\* Codes and allowlist entries have their campaign.

\* Campaign c is there, or was undone under its children's eyes.
Accounted(c) == inForce[c] # Absent \/ c \in undone

\* What a request writes to a campaign is not the absence of one.
LEMMA CampaignWritten ==
  ASSUME AdminInv, NEW a \in Admins, req[a].obj \in Campaigns, pc[a] = "write"
  PROVE  Written(req[a], before[a]) # Absent
<1>1. Plan(req[a], pc[a]) /\ Knows(a) /\ before[a] \in RealRows
  BY Zenon DEF AdminInv, AdminTypes
<1>2. \/ req[a].op \in {"campaign_create", "campaign_update"} /\ req[a].val # "absent"
      \/ req[a].op = "campaign_disable"
  BY <1>1, TablesAssumption, Zenon DEF Plan, Objects
<1>3. CASE req[a].op \in {"campaign_create", "campaign_update"} /\ req[a].val # "absent"
  BY <1>3, Zenon DEF Written, Absent
<1>4. CASE req[a].op = "campaign_disable"
  <2>1. before[a].val # "absent"
    BY <1>1, <1>4, Zenon DEF Knows, RealRows, Rows, Absent
  <2> QED
    BY <1>1, <1>4, <2>1, Zenon DEF Written, Absent, RealRows, Rows
<1> QED
  BY <1>2, <1>3, <1>4, Zenon

\* A rollback on a code or an entry deletes it.
LEMMA ChildUndone ==
  ASSUME AdminInv, NEW a \in Admins, req[a].obj \in Children, pc[a] = "undo"
  PROVE  Undone(a) = Absent
<1>1. Plan(req[a], pc[a]) /\ Knows(a)
  BY Zenon DEF AdminInv
<1>2. req[a].op \in {"invitation_create", "campaign_allowlist_add"}
  BY <1>1, TablesAssumption, Zenon DEF Plan, Objects
<1> QED
  BY <1>1, <1>2, Zenon DEF Knows, Undoable, Undone

\* Each kind of step of a request keeps OrphanInv.
LEMMA OrphanServe ==
  ASSUME AdminInv, OrphanInv, NEW a \in Admins, Serves(a)
  PROVE  OrphanInv'
<1>0. /\ \A o \in Children : inForce[o] # Absent => Accounted(CampaignOf[o])
      /\ \A b \in Admins : pc[b] = "write" /\ req[b].obj \in Children
                               => Accounted(CampaignOf[req[b].obj])
      /\ \A o \in Children : CampaignOf[o] \in Campaigns
      /\ Campaigns \subseteq Objects /\ Children \subseteq Objects
      /\ Campaigns \cap Children = {} /\ Objects \cap Claims = {}
      /\ inForce \in [Objects -> RealRows]
  BY CampaignOfAssumption, TablesAssumption, Zenon
  DEF OrphanInv, OrphansOnlyFromRollback, Accounted, AdminInv, AdminTypes, Objects, Children
<1> SUFFICES /\ \A o \in Children : inForce'[o] # Absent => Accounted(CampaignOf[o])'
             /\ \A b \in Admins : pc'[b] = "write" /\ req'[b].obj \in Children
                                      => Accounted(CampaignOf[req[b].obj])'
  BY Zenon DEF OrphanInv, OrphansOnlyFromRollback, Accounted
<1>1. CASE Receives(a) \/ Quits(a) \/ Moves(a) \/ appendAudit(a) \/ AuditFails(a) \/ RollbackFails(a)
  <2>1. /\ inForce' = inForce /\ undone' = undone /\ pc'[a] # "write"
        /\ \A b \in Admins \ {a} : pc'[b] = pc[b] /\ req'[b] = req[b]
    <3>1. CASE Receives(a)
      BY <3>1 DEF Receives, Receive, rows, AdminInv, AdminTypes
    <3>2. CASE Quits(a) \/ appendAudit(a) \/ RollbackFails(a) \/ (AuditFails(a) /\ ~Undoable(a))
      BY <3>2 DEF Quits, appendAudit, RollbackFails, AuditFails, Answer, rows, AdminInv, AdminTypes
    <3>3. CASE Moves(a) \/ (AuditFails(a) /\ Undoable(a))
      BY <3>3, Zenon DEF Moves, MoveClaim, AuditFails, Goto, rows, AdminInv, AdminTypes
    <3> QED
      BY <1>1, <3>1, <3>2, <3>3, Zenon
  <2> QED
    BY <1>0, <2>1, Zenon DEF Accounted
<1>2. CASE Continues(a) \/ Reads(a)
  <2>1. /\ inForce' = inForce /\ undone' = undone /\ req' = req
        /\ pc'[a] = "write" /\ req[a].obj \in Children => inForce[CampaignOf[req[a].obj]] # Absent
        /\ \A b \in Admins \ {a} : pc'[b] = pc[b]
    BY <1>0, <1>2, Zenon DEF Continues, Reads, Read, Goto, rows, history, AdminInv, AdminTypes
  <2> QED
    BY <1>0, <2>1, Zenon DEF Accounted
<1>3. CASE Puts(a)
  <2>1. /\ inForce' = [inForce EXCEPT ![req[a].obj] = Written(req[a], before[a])]
        /\ req[a].obj \in Objects /\ undone' = undone /\ req' = req /\ pc'[a] = "audit"
        /\ pc[a] \in {"put", "write"}
        /\ \A b \in Admins \ {a} : pc'[b] = pc[b]
    BY <1>3, Zenon DEF Puts, Put, Goto, AdminInv, AdminTypes
  <2>2. req[a].obj \in Campaigns \cup Children => pc[a] = "write"
    BY <2>1, TablesAssumption, Zenon DEF AdminInv, Plan, Objects
  <2>3. \A c \in Campaigns : Accounted(c) => Accounted(c)'
    BY <1>0, <2>1, <2>2, CampaignWritten, Zenon DEF Accounted
  <2>4. \A o \in Children : o # req[a].obj => inForce'[o] = inForce[o]
    BY <1>0, <2>1, Zenon
  <2>5. \A o \in Children : inForce'[o] # Absent => Accounted(CampaignOf[o])
    BY <1>0, <2>2, <2>4, Zenon
  <2> QED
    BY <1>0, <2>1, <2>3, <2>5, Zenon
<1>4. CASE Rollback(a)
  <2>1. /\ inForce' = [inForce EXCEPT ![req[a].obj] = Undone(a)]
        /\ pc[a] = "undo" /\ pc'[a] = "idle"
        /\ undone' = undone \cup {c \in {req[a].obj} \cap Campaigns :
                                      Undone(a) = Absent /\ Dependents(c)}
        /\ \A b \in Admins \ {a} : pc'[b] = pc[b] /\ req'[b] = req[b]
    BY <1>4, Zenon DEF Rollback, Answer, AdminInv, AdminTypes
  <2>2. ASSUME NEW o \in Children, inForce'[o] # Absent PROVE inForce[o] # Absent
    BY <1>0, <2>1, <2>2, ChildUndone, Zenon
  <2>3. ASSUME NEW o \in Children,
               \/ inForce[o] # Absent
               \/ \E b \in Admins : req[b].obj = o /\ pc[b] = "write"
        PROVE  Accounted(CampaignOf[o])'
    <3>1. Accounted(CampaignOf[o]) /\ Dependents(CampaignOf[o])
      BY <1>0, <2>3, Zenon DEF Dependents
    <3>2. CASE CampaignOf[o] = req[a].obj
      BY <1>0, <2>1, <3>1, <3>2, Zenon DEF Accounted
    <3>3. CASE CampaignOf[o] # req[a].obj
      BY <1>0, <2>1, <3>1, <3>3, Zenon DEF Accounted
    <3> QED
      BY <3>2, <3>3, Zenon
  <2>4. ASSUME NEW b \in Admins, pc'[b] = "write", req'[b].obj \in Children
        PROVE  pc[b] = "write" /\ req'[b] = req[b]
    BY <2>1, <2>4, Zenon
  <2> QED
    BY <2>2, <2>3, <2>4, Zenon
<1> QED
  BY <1>1, <1>2, <1>3, <1>4, Zenon DEF Serves

\* The store's lookup before the INSERT is enough: a code or an entry is without
\* its campaign only if the campaign's own creation was rolled back when the row
\* was there or its INSERT was the next statement.
THEOREM AdminOrphans == Spec => []OrphansOnlyFromRollback
<1>1. Init => OrphanInv
  <2> SUFFICES ASSUME Init PROVE OrphanInv
    BY Zenon
  <2>1. \A o \in Children : o \in Objects /\ o # "mode" /\ o # "policy"
    BY TablesAssumption, Zenon DEF Objects
  <2> QED
    BY <2>1, Zenon DEF Init, OrphanInv, OrphansOnlyFromRollback
<1>2. ASSUME AdminInv, OrphanInv, [Next]_vars PROVE OrphanInv'
  <2>1. CASE (\E a \in Admins : Disconnect(a)) \/ PayoutMove \/ UNCHANGED vars
    <3>1. UNCHANGED <<inForce, pc, req, undone>>
      BY <2>1, Zenon DEF Disconnect, PayoutMove, vars, rows, request, history
    <3> QED
      BY <1>2, <3>1, Zenon DEF OrphanInv, OrphansOnlyFromRollback
  <2>2. CASE Restart
    <3>1. \A o \in Campaigns \cup Children : inForce'[o] = inForce[o]
      BY <1>2, <2>2, TablesAssumption, Zenon DEF Restart, AdminInv, AdminTypes, Objects
    <3>2. undone' = undone /\ \A a \in Admins : pc'[a] = "idle"
      BY <2>2, Zenon DEF Restart
    <3>3. \A o \in Children : CampaignOf[o] \in Campaigns
      BY CampaignOfAssumption, Zenon DEF Children
    <3> QED
      BY <1>2, <3>1, <3>2, <3>3, Zenon DEF OrphanInv, OrphansOnlyFromRollback
  <2> QED
    BY <1>2, <2>1, <2>2, NextForms, OrphanServe, Zenon
<1>3. OrphanInv => OrphansOnlyFromRollback
  BY Zenon DEF OrphanInv
<1> QED
  BY <1>1, <1>2, <1>3, AdminInvariant, PTL DEF Spec

=============================================================================
