---------------------------- MODULE AdminControl ----------------------------
(***************************************************************************)
(* The admin plane of scavium-faucet: the HTTP handlers under              *)
(* /api/v1/admin, SQLiteReadAdminService and the statements of the store   *)
(* it uses.  A mutation is a sequence of separate SQL statements: read the *)
(* row, write it, append a row to admin_audit_logs and, when that append   *)
(* fails, put back what was read.  Nothing spans the statements, so two    *)
(* admins interleave between any two of them, the client may go away       *)
(* (which cancels the context every later statement runs under) and the    *)
(* process may stop.                                                       *)
(*                                                                         *)
(* Each SQL statement (for the runtime policy, each SQL transaction) is    *)
(* one step.  `audited' keeps, for each object, what was put in force by   *)
(* the request that the last row of admin_audit_logs about it stands for.  *)
(***************************************************************************)
EXTENDS Naturals

CONSTANTS
    Admins,        \* admin requests in flight at the same time
    Campaigns,     \* rows of campaigns
    Codes,         \* rows of invitation_codes
    Entries,       \* rows of campaign_allowlist
    CampaignOf,    \* the campaign a code or an allowlist entry is created for
    BlockKeys,     \* rows of admin_blocklist
    Claims,        \* rows of requests
    Policies,      \* contents of runtime_policy other than the empty table
    Definitions,   \* contents of a campaign row other than enabled
    MaxRequests,   \* bound: requests received
    MaxFaults      \* bound: store errors, disconnects and crashes

ASSUME CampaignOfAssumption == CampaignOf \in [Codes \cup Entries -> Campaigns]
ASSUME AdminBoundsAssumption == MaxRequests \in Nat /\ MaxFaults \in Nat

VARIABLES
    \* what is in force: the rows of the tables and the live mode; the claims
    inForce, claim,
    \* admin_audit_logs
    audited,
    \* the requests: progress, what is asked, the row read first, the client
    pc, req, before, gone, reply,
    \* history: requests whose write took effect, or is in the audit log;
    \* objects two requests wrote at once or that kept a change nobody logged;
    \* campaigns whose rollback came after the last lookup of a child's INSERT
    effect, logged, tainted, undone, requests, faults

rows     == <<inForce, claim, audited>>
request  == <<pc, req, before, gone, reply>>
history  == <<effect, logged, tainted, undone, requests, faults>>
vars == <<rows, request, history>>

-----------------------------------------------------------------------------

Modes == {"active", "paused", "maintenance"}

Children == Codes \cup Entries

Objects == {"mode", "policy"} \cup Campaigns \cup Children \cup BlockKeys

\* A row: its contents and, for a campaign, enabled.
Row(v) == [val |-> v, on |-> TRUE]
Absent == [val |-> "absent", on |-> FALSE]

\* Every object is a row of one table, and "absent" is not the contents of a row.
ASSUME TablesAssumption ==
    /\ Campaigns \cap Children = {}
    /\ (Campaigns \cup Children) \cap (BlockKeys \cup {"mode", "policy"}) = {}
    /\ Objects \cap Claims = {}
    /\ "absent" \notin Policies \cup Definitions

ClaimStatus == {"absent", "queued", "sending", "sent", "confirmed", "failed", "rejected"}

NoRequest == [op |-> "none", obj |-> "none", val |-> "none", on |-> FALSE, valid |-> FALSE]

Replies == {"none", "ok", "invalid", "notfound", "conflict", "error"}

Init ==
    /\ inForce = [o \in Objects |-> IF o = "mode" THEN Row("active")
                                    ELSE IF o = "policy" THEN Row("env") ELSE Absent]
    /\ claim \in [Claims -> {"absent", "failed"}]
    /\ audited = inForce
    /\ pc = [a \in Admins |-> "idle"]
    /\ req = [a \in Admins |-> NoRequest]
    /\ before = [a \in Admins |-> Absent]
    /\ gone = [a \in Admins |-> FALSE]
    /\ reply = [a \in Admins |-> "none"]
    /\ effect = {} /\ logged = {} /\ tainted = {} /\ undone = {}
    /\ requests = 0 /\ faults = 0

Fault == faults < MaxFaults /\ faults' = faults + 1

\* The next statement of a's request is s of operation op, and its context is
\* still alive.
At(a, op, s) == pc[a] = s /\ req[a].op = op /\ ~gone[a]

Goto(a, s) ==
    /\ pc' = [pc EXCEPT ![a] = s]
    /\ UNCHANGED <<req, gone, reply>>

\* The handler writes its response.
Answer(a, r) ==
    /\ pc' = [pc EXCEPT ![a] = "idle"]
    /\ req' = [req EXCEPT ![a] = NoRequest]
    /\ before' = [before EXCEPT ![a] = Absent]
    /\ gone' = [gone EXCEPT ![a] = FALSE]
    /\ reply' = [reply EXCEPT ![a] = r]

\* Another request has read or written o and is not done with it.
Contended(a, o) ==
    \E b \in Admins \ {a} :
        req[b].obj = o /\ pc[b] \in {"parent2", "write", "audit", "undo"}

\* The contents that a request writes: a disable is a copy of the row read
\* with enabled cleared.
Written(q, b) ==
    IF q.op = "campaign_disable" THEN [b EXCEPT !.on = FALSE]
    ELSE [val |-> q.val, on |-> q.on]

\* A write of a's request took effect and leaves row v.
Put(a, v) ==
    LET o == req[a].obj IN
    /\ inForce' = [inForce EXCEPT ![o] = v]
    /\ effect' = effect \cup {a}
    /\ tainted' = tainted \cup {x \in {o} : Contended(a, o)}
    /\ Goto(a, "audit")
    /\ UNCHANGED <<claim, audited, before, logged, undone, requests, faults>>

\* The request goes on, or is answered, without a change.
Proceed(a, s) == Goto(a, s) /\ UNCHANGED <<rows, before, history>>
Refuse(a, r) == Answer(a, r) /\ UNCHANGED <<rows, history>>

\* Remember the row read, then go on.
Read(a, s) ==
    /\ before' = [before EXCEPT ![a] = inForce[req[a].obj]]
    /\ Goto(a, s)
    /\ UNCHANGED <<rows, history>>

-----------------------------------------------------------------------------
\* The handlers: method, content type, JSON and required fields are checked
\* first; what fails them is answered 4xx as an invalid request is.

\* A request starts with statement s.  `checked': its fields are validated
\* before the first statement.
Receive(a, q, s, checked) ==
    /\ pc[a] = "idle" /\ requests < MaxRequests
    /\ requests' = requests + 1
    /\ IF checked /\ ~q.valid
       THEN pc' = pc /\ req' = req /\ reply' = [reply EXCEPT ![a] = "invalid"]
       ELSE /\ pc' = [pc EXCEPT ![a] = s]
            /\ req' = [req EXCEPT ![a] = q]
            /\ reply' = [reply EXCEPT ![a] = "none"]
    /\ effect' = effect \ {a}
    /\ logged' = logged \ {a}
    /\ UNCHANGED <<rows, before, gone, tainted, undone, faults>>

handleAdminSetMode(a) ==
    \E m \in Modes, v \in BOOLEAN :
        Receive(a, [op |-> "set_mode", obj |-> "mode", val |-> m, on |-> TRUE, valid |-> v],
                "put", TRUE)

handleAdminPolicy(a) ==
    \/ \E p \in Policies \cup {"env"}, v \in BOOLEAN :
        Receive(a, [op |-> "set_runtime_policy", obj |-> "policy", val |-> p, on |-> TRUE,
                    valid |-> v], "read", FALSE)
    \/ Receive(a, [op |-> "clear_runtime_policy", obj |-> "policy", val |-> "env", on |-> TRUE,
                   valid |-> TRUE], "read", FALSE)

handleAdminBlocklist(a) ==
    \E k \in BlockKeys, v \in BOOLEAN :
        \/ Receive(a, [op |-> "blocklist_add", obj |-> k, val |-> "blocked", on |-> TRUE,
                       valid |-> v], "put", TRUE)
        \/ Receive(a, [op |-> "blocklist_remove", obj |-> k, val |-> "absent", on |-> FALSE,
                       valid |-> v], "put", TRUE)

handleAdminCampaigns(a) ==
    \E c \in Campaigns, d \in Definitions, e, v \in BOOLEAN :
        Receive(a, [op |-> "campaign_create", obj |-> c, val |-> d, on |-> e, valid |-> v],
                "read", TRUE)

handleAdminCampaignDispatch(a) ==
    \E c \in Campaigns :
        \/ \E d \in Definitions, e, v, early \in BOOLEAN :
            Receive(a, [op |-> "campaign_update", obj |-> c, val |-> d, on |-> e, valid |-> v],
                    "read", early)
        \/ Receive(a, [op |-> "campaign_disable", obj |-> c, val |-> "none", on |-> FALSE,
                       valid |-> TRUE], "read", FALSE)

handleAdminInvitations(a) ==
    \E i \in Codes, v \in BOOLEAN :
        Receive(a, [op |-> "invitation_create", obj |-> i, val |-> "code", on |-> TRUE,
                    valid |-> v], "parent", TRUE)

handleAdminAllowlist(a) ==
    \E e \in Entries, v \in BOOLEAN :
        Receive(a, [op |-> "campaign_allowlist_add", obj |-> e, val |-> "entry", on |-> TRUE,
                    valid |-> v], "parent", TRUE)

\* POST /claim/{id}/{retry,cancel}: no body.
handleAdminClaimDispatch(a) ==
    \E c \in Claims, op \in {"retry_claim", "cancel_claim"} :
        Receive(a, [op |-> op, obj |-> c, val |-> "none", on |-> FALSE, valid |-> TRUE],
                "check", FALSE)

\* POST /queue/{retry,cancel}: the claim is named in the body.
handleAdminQueueDispatch(a) ==
    \E c \in Claims, op \in {"retry_claim", "cancel_claim"}, v \in BOOLEAN :
        Receive(a, [op |-> op, obj |-> c, val |-> "none", on |-> FALSE, valid |-> v],
                "check", TRUE)

-----------------------------------------------------------------------------
\* The audit: durable first; the statement that fails decides what follows.

\* The request puts back the row it read when the audit fails.
Undoable(a) ==
    \/ req[a].op \in {"set_runtime_policy", "clear_runtime_policy", "campaign_create",
                      "campaign_update", "campaign_disable", "invitation_create"}
    \/ req[a].op = "campaign_allowlist_add" /\ before[a] = Absent

\* AppendAdminAudit succeeds and the handler answers 200 or 201.
appendAudit(a) ==
    /\ pc[a] = "audit" /\ ~gone[a]
    /\ audited' = IF req[a].obj \in Objects
                  THEN [audited EXCEPT ![req[a].obj] = Written(req[a], before[a])]
                  ELSE audited
    /\ logged' = logged \cup {a}
    /\ Answer(a, "ok")
    /\ UNCHANGED <<inForce, claim, effect, tainted, undone, requests, faults>>

\* A request whose change stays in force although no audit row tells of it.
Keep(a) == tainted' = tainted \cup ({req[a].obj} \cap Objects)

\* AppendAdminAudit fails: the operations that can be undone go on to do so,
\* the others answer 500.
AuditFails(a) ==
    /\ pc[a] = "audit"
    /\ \/ gone[a] /\ UNCHANGED faults
       \/ ~gone[a] /\ Fault
    /\ IF Undoable(a) THEN Goto(a, "undo") /\ UNCHANGED <<before, tainted>>
       ELSE Keep(a) /\ Answer(a, "error")
    /\ UNCHANGED <<rows, effect, logged, undone, requests>>

\* Mutant: the rollback of an update keeps the enabled flag that is there.
MutUndone(a) ==
    LET v == inForce[req[a].obj] IN
    IF req[a].op \in {"campaign_update", "campaign_disable"} /\ v # Absent
    THEN [before[a] EXCEPT !.on = v.on] ELSE before[a]

\* The row that the rollback leaves.  The runtime policy is replaced; a created
\* row is deleted; the UPDATE back to the previous campaign matches no row once that is deleted.
Undone(a) ==
    IF req[a].op \in {"campaign_update", "campaign_disable"} /\ inForce[req[a].obj] = Absent
    THEN Absent ELSE before[a]

\* A code or an entry of c is there, or its INSERT is the next statement.
Dependents(c) ==
    \E o \in Children :
        /\ CampaignOf[o] = c
        /\ inForce[o] # Absent \/ \E b \in Admins : req[b].obj = o /\ pc[b] = "write"

\* The rollback statement succeeds; the answer is 500.
Rollback(a) ==
    LET o == req[a].obj IN
    /\ pc[a] = "undo" /\ ~gone[a]
    /\ inForce' = [inForce EXCEPT ![o] = Undone(a)]
    /\ undone' = undone \cup {c \in {o} \cap Campaigns : Undone(a) = Absent /\ Dependents(c)}
    /\ tainted' = tainted \cup {x \in {o} : Contended(a, o)}
    /\ effect' = effect \ {a}
    /\ Answer(a, "error")
    /\ UNCHANGED <<claim, audited, logged, requests, faults>>

\* The rollback fails, which the code ignores: the answer is 500 all the same.
\* After a disconnect it always does: it runs under the context that ended.
RollbackFails(a) ==
    /\ pc[a] = "undo"
    /\ \/ gone[a] /\ UNCHANGED faults
       \/ ~gone[a] /\ Fault
    /\ Keep(a)
    /\ Answer(a, "error")
    /\ UNCHANGED <<rows, effect, logged, undone, requests>>

\* Any statement before the audit fails: 500, nothing was written.
StatementFails(a) ==
    /\ pc[a] \in {"parent", "parent2", "read", "check", "recheck", "write"}
    /\ \/ gone[a] /\ UNCHANGED faults
       \/ ~gone[a] /\ Fault
    /\ Answer(a, "error")
    /\ UNCHANGED <<rows, effect, logged, tainted, undone, requests>>

-----------------------------------------------------------------------------
\* The mode, the blocklist and the runtime policy.

\* The mode changes in memory and for the live service at once, whatever became
\* of the client; the durable audit comes after it.
SetMode(a) ==
    /\ pc[a] = "put" /\ req[a].op = "set_mode"
    /\ Put(a, Written(req[a], before[a]))

\* INSERT ... ON CONFLICT DO UPDATE.
AdminBlocklistAdd(a) == Put(a, Written(req[a], before[a]))

\* The DELETE of a missing row is no error.
AdminBlocklistRemove(a) == Put(a, Absent)

BlocklistAdd(a) == At(a, "blocklist_add", "put") /\ AdminBlocklistAdd(a)

BlocklistRemove(a) == At(a, "blocklist_remove", "put") /\ AdminBlocklistRemove(a)

BlocklistFails(a) ==
    /\ pc[a] = "put" /\ req[a].op \in {"blocklist_add", "blocklist_remove"}
    /\ \/ gone[a] /\ UNCHANGED faults
       \/ ~gone[a] /\ Fault
    /\ Answer(a, "error")
    /\ UNCHANGED <<rows, effect, logged, tainted, undone, requests>>

GetRuntimePolicy(a) == Read(a, "write")

\* No limit or budget is negative, no token budget is without its token.
runtimePolicyFromRequest(a) == req[a].valid

\* The rows of runtime_policy are replaced in one SQL transaction; a policy
\* without overrides leaves the table empty.
ReplaceRuntimePolicy(a) == Put(a, Written(req[a], before[a]))

\* DELETE FROM runtime_policy: the environment's policy is in force again.
DeleteRuntimePolicy(a) == Put(a, Row("env"))

\* The policy in force is read before the request is validated.
SetRuntimePolicy(a) ==
    \/ /\ At(a, "set_runtime_policy", "read")
       /\ IF runtimePolicyFromRequest(a) THEN GetRuntimePolicy(a) ELSE Refuse(a, "invalid")
    \/ At(a, "set_runtime_policy", "write") /\ ReplaceRuntimePolicy(a)

ClearRuntimePolicy(a) ==
    \/ At(a, "clear_runtime_policy", "read") /\ GetRuntimePolicy(a)
    \/ At(a, "clear_runtime_policy", "write") /\ DeleteRuntimePolicy(a)

-----------------------------------------------------------------------------
\* Campaigns, invitation codes and allowlist entries.

\* INSERT: refused by the primary key when the row is there.
Insert(a) ==
    \/ inForce[req[a].obj] = Absent /\ Put(a, Written(req[a], before[a]))
    \/ inForce[req[a].obj] # Absent /\ Refuse(a, "invalid")

\* UPDATE ... WHERE id: no row is ErrNotFound.
Update(a) ==
    \/ inForce[req[a].obj] # Absent /\ Put(a, Written(req[a], before[a]))
    \/ inForce[req[a].obj] = Absent /\ Refuse(a, "notfound")

CreateCampaign(a) ==
    \/ /\ At(a, "campaign_create", "read")
       /\ IF inForce[req[a].obj] = Absent THEN Read(a, "write") ELSE Refuse(a, "invalid")
    \/ At(a, "campaign_create", "write") /\ Insert(a)

UpdateCampaign(a) ==
    \/ /\ At(a, "campaign_update", "read")
       /\ IF inForce[req[a].obj] = Absent THEN Refuse(a, "notfound")
          ELSE IF ~req[a].valid THEN Refuse(a, "invalid") ELSE Read(a, "write")
    \/ At(a, "campaign_update", "write") /\ Update(a)

DisableCampaign(a) ==
    \/ /\ At(a, "campaign_disable", "read")
       /\ IF inForce[req[a].obj] = Absent THEN Refuse(a, "notfound") ELSE Read(a, "write")
    \/ At(a, "campaign_disable", "write") /\ Update(a)

\* Mutant: the store trusts the service's check of the campaign.
MutRecheck(a) == Proceed(a, "write")

\* The store looks the campaign up once more, in a statement of its own before
\* the INSERT; its ErrNotFound is no constraint error, so it becomes a 500.
Recheck(a) ==
    IF inForce[CampaignOf[req[a].obj]] = Absent THEN Refuse(a, "error") ELSE Proceed(a, "write")

CreateInvitationCode(a) ==
    \/ /\ At(a, "invitation_create", "parent")
       /\ IF inForce[CampaignOf[req[a].obj]] = Absent THEN Refuse(a, "invalid")
          ELSE Proceed(a, "read")
    \/ /\ At(a, "invitation_create", "read")
       /\ IF inForce[req[a].obj] = Absent THEN Read(a, "parent2") ELSE Refuse(a, "invalid")
    \/ At(a, "invitation_create", "parent2") /\ Recheck(a)
    \/ At(a, "invitation_create", "write") /\ Insert(a)

\* INSERT OR IGNORE: an entry that is there stays as it is.
AddCampaignAllowlistEntry(a) == Put(a, Written(req[a], before[a]))

AddAllowlistEntry(a) ==
    \/ /\ At(a, "campaign_allowlist_add", "parent")
       /\ IF inForce[CampaignOf[req[a].obj]] = Absent THEN Refuse(a, "invalid")
          ELSE Proceed(a, "read")
    \/ At(a, "campaign_allowlist_add", "read") /\ Read(a, "parent2")
    \/ At(a, "campaign_allowlist_add", "parent2") /\ Recheck(a)
    \/ At(a, "campaign_allowlist_add", "write") /\ AddCampaignAllowlistEntry(a)

-----------------------------------------------------------------------------
\* The claims.

Retryable == {"failed", "rejected"}
NotCancellable == {"sent", "confirmed", "sending"}

\* The statuses the operation applies to: GetClaim is checked against them, and
\* so is the WHERE clause of the UPDATE.
Applies(op) ==
    IF op = "retry_claim" THEN Retryable ELSE ClaimStatus \ (NotCancellable \cup {"absent"})

\* GetClaim and what the service concludes from it.
CheckClaim(a) ==
    LET s == claim[req[a].obj] IN
    IF s = "absent" THEN Refuse(a, "notfound")
    ELSE IF s \notin Applies(req[a].op) THEN Refuse(a, "conflict") ELSE Proceed(a, "write")

\* The UPDATE moved the claim to s.
MoveClaim(a, s) ==
    /\ claim' = [claim EXCEPT ![req[a].obj] = s]
    /\ effect' = effect \cup {a}
    /\ Goto(a, "audit")
    /\ UNCHANGED <<inForce, audited, before, logged, tainted, undone, requests, faults>>

\* Mutant: the UPDATE matches on the id alone.
MutAdminCancelClaim(a) == MoveClaim(a, "rejected")

\* Mutant: the status is not one of domain.ClaimStatus.
MutCancelStatus(a) == MoveClaim(a, "cancelled")

\* UPDATE requests ... WHERE id AND status IN (...): no row goes to a re-read.
AdminRetryClaim(a) ==
    IF claim[req[a].obj] \in Applies("retry_claim") THEN MoveClaim(a, "queued")
    ELSE Proceed(a, "recheck")

\* UPDATE requests ... WHERE id AND status NOT IN (...).
AdminCancelClaim(a) ==
    IF claim[req[a].obj] \in Applies("cancel_claim") THEN MoveClaim(a, "rejected")
    ELSE Proceed(a, "recheck")

\* The claim is read again to tell why the UPDATE matched nothing; a claim that
\* has come back to an applicable status in between is answered 404.
ReadLatest(a) ==
    IF claim[req[a].obj] \in Applies(req[a].op) \cup {"absent"}
    THEN Refuse(a, "notfound") ELSE Refuse(a, "conflict")

\* Mutant: an UPDATE that matched no row passes for success.
MutRetryClaim(a) ==
    \/ At(a, "retry_claim", "check") /\ CheckClaim(a)
    \/ At(a, "retry_claim", "write") /\ AdminRetryClaim(a)
    \/ At(a, "retry_claim", "recheck") /\ Refuse(a, "ok")

RetryClaim(a) ==
    \/ At(a, "retry_claim", "check") /\ CheckClaim(a)
    \/ At(a, "retry_claim", "write") /\ AdminRetryClaim(a)
    \/ At(a, "retry_claim", "recheck") /\ ReadLatest(a)

CancelClaim(a) ==
    \/ At(a, "cancel_claim", "check") /\ CheckClaim(a)
    \/ At(a, "cancel_claim", "write") /\ AdminCancelClaim(a)
    \/ At(a, "cancel_claim", "recheck") /\ ReadLatest(a)

-----------------------------------------------------------------------------
\* The environment.

\* The worker and the watcher move claims while requests are under way.
PayoutMove ==
    /\ \E c \in Claims :
        \E s \in CASE claim[c] = "queued"  -> {"sending"}
                   [] claim[c] = "sending" -> {"sent", "queued", "failed"}
                   [] claim[c] = "sent"    -> {"confirmed", "failed"}
                   [] OTHER -> {} :
            claim' = [claim EXCEPT ![c] = s]
    /\ UNCHANGED <<inForce, audited, request, history>>

\* The client goes away: r.Context() is cancelled.
Disconnect(a) ==
    /\ pc[a] # "idle" /\ ~gone[a] /\ Fault
    /\ gone' = [gone EXCEPT ![a] = TRUE]
    /\ UNCHANGED <<rows, pc, req, before, reply, effect, logged, tainted, undone, requests>>

\* The process stops and starts again: requests are lost, what they wrote
\* stays, and the mode is the one of the configuration.
Restart ==
    /\ Fault
    /\ inForce' = [inForce EXCEPT !["mode"] = Row("active")]
    /\ tainted' = tainted \cup {"mode"} \cup
                  {o \in Objects : \E a \in Admins : req[a].obj = o /\ pc[a] \in {"audit", "undo"}}
    /\ pc' = [a \in Admins |-> "idle"]
    /\ req' = [a \in Admins |-> NoRequest]
    /\ before' = [a \in Admins |-> Absent]
    /\ gone' = [a \in Admins |-> FALSE]
    /\ reply' = [a \in Admins |-> "none"]
    /\ effect' = {} /\ logged' = {}
    /\ UNCHANGED <<claim, audited, undone, requests>>

Handle(a) ==
    \/ handleAdminSetMode(a) \/ handleAdminPolicy(a) \/ handleAdminBlocklist(a)
    \/ handleAdminCampaigns(a) \/ handleAdminCampaignDispatch(a)
    \/ handleAdminInvitations(a) \/ handleAdminAllowlist(a)
    \/ handleAdminClaimDispatch(a) \/ handleAdminQueueDispatch(a)

Serve(a) ==
    \/ SetMode(a) \/ BlocklistAdd(a) \/ BlocklistRemove(a) \/ BlocklistFails(a)
    \/ SetRuntimePolicy(a) \/ ClearRuntimePolicy(a)
    \/ CreateCampaign(a) \/ UpdateCampaign(a) \/ DisableCampaign(a)
    \/ CreateInvitationCode(a) \/ AddAllowlistEntry(a)
    \/ RetryClaim(a) \/ CancelClaim(a)
    \/ StatementFails(a) \/ appendAudit(a) \/ AuditFails(a) \/ Rollback(a) \/ RollbackFails(a)

Next ==
    \/ \E a \in Admins : Handle(a) \/ Serve(a) \/ Disconnect(a)
    \/ PayoutMove
    \/ Restart

Spec == Init /\ [][Next]_vars

-----------------------------------------------------------------------------
\* Properties.

Values == {"absent", "env", "none", "active", "paused", "maintenance", "blocked", "code", "entry"}
              \cup Policies \cup Definitions
Rows == [val : Values, on : BOOLEAN]

\* Every variable has its type.
TypeOK ==
    /\ inForce \in [Objects -> Rows] /\ audited \in [Objects -> Rows]
    /\ claim \in [Claims -> ClaimStatus]
    /\ pc \in [Admins -> {"idle", "put", "parent", "parent2", "read", "check", "recheck",
                          "write", "audit", "undo"}]
    /\ \A a \in Admins :
        /\ DOMAIN req[a] = {"op", "obj", "val", "on", "valid"}
        /\ pc[a] # "idle" => req[a].obj \in Objects \cup Claims
    /\ before \in [Admins -> Rows]
    /\ gone \in [Admins -> BOOLEAN] /\ reply \in [Admins -> Replies]
    /\ effect \subseteq Admins /\ logged \subseteq Admins
    /\ tainted \subseteq Objects /\ undone \subseteq Campaigns
    /\ requests \in 0..MaxRequests /\ faults \in 0..MaxFaults

\* A request that has written o is still to log or to undo it.
Unsettled(o) == \E a \in Admins : req[a].obj = o /\ pc[a] \in {"audit", "undo"}

\* What is in force is what the audit log last says was put in force, for every
\* object but those that two requests changed at once, that kept a change after
\* its audit (and rollback) failed, or that a restart caught in between: the
\* rollbacks of admin.go restore exactly the row they replaced, and a request
\* on one object disturbs no other.
AuditExplainsState ==
    \A o \in Objects \ tainted : Unsettled(o) \/ inForce[o] = audited[o]

\* The reply tells what happened: after 200 or 201 the change took effect and
\* has its row in admin_audit_logs; after a 4xx the request changed nothing,
\* whatever other requests and the payout did between its statements.
ReplyTellsTheTruth ==
    \A a \in Admins :
        /\ reply[a] = "ok" => a \in effect /\ a \in logged
        /\ reply[a] \in {"invalid", "notfound", "conflict"} => a \notin effect

\* An invitation code or an allowlist entry always has its campaign: the only
\* way to lose it is that the campaign's own creation is rolled back when the
\* row is already there or its INSERT is the very next statement.  No foreign
\* key is enforced, so this rests on the store's lookup before the INSERT.
OrphansOnlyFromRollback ==
    \A o \in Children :
        inForce[o] # Absent => inForce[CampaignOf[o]] # Absent \/ CampaignOf[o] \in undone

\* A retry or a cancellation never takes a claim out of a payment under way or
\* done, although its status may change after the service has checked it.
AdminKeepsOffPayments ==
    [][\A c \in Claims :
        claim[c] \in NotCancellable /\ claim'[c] # claim[c] =>
            \A a \in Admins : pc'[a] = pc[a]]_vars

\* The process runs through, so that every rollback is attempted.
UninterruptedSpec == Init /\ [][Next /\ ~Restart]_vars

\* "Unaudited campaign changes do not remain active": with no request under
\* way, the campaigns, codes and allowlist are what the audit log says.
UnauditedChangesNotActive ==
    (\A a \in Admins : pc[a] = "idle") =>
        \A o \in Campaigns \cup Children : inForce[o] = audited[o]

=============================================================================
