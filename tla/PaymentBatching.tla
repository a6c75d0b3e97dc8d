--------------------------- MODULE PaymentBatching ---------------------------
(***************************************************************************)
(* From eligible payment requests to a bank file marked sent: the commands *)
(* of app/commands/payment_batch.py, payment_batch_approval.py and         *)
(* bank_export.py over the rows they read and write.                       *)
(*                                                                         *)
(* One action is one committed transaction, with one exception.  Every     *)
(* command on an existing batch takes the batch row FOR UPDATE before it   *)
(* reads it, mark_sent takes the export row, and cancel_request writes a   *)
(* row nothing here reads twice: a commit order tells the whole story.     *)
(* The download route locks nothing.  It reads the export, reads the whole *)
(* file back from storage to compare its digest, and only then writes the  *)
(* status it decided on, so it is two actions with a window between them.  *)
(*                                                                         *)
(* Every version is built from fresh attempts, one or more for each        *)
(* request it selects, so the attempts of a request in a version are named *)
(* by the pair.  How a request is cut into attempts is module Splitting;   *)
(* what a bank result does to them is module PaymentResult.                *)
(***************************************************************************)
EXTENDS Naturals, FiniteSets

CONSTANTS
    Requests,     \* payment requests, all past accountant review at the start
    Batches,      \* identifiers for payment_batches rows
    Versions,     \* identifiers for payment_batch_versions rows
    Exports,      \* identifiers for bank_excel_exports rows
    Admins,       \* administrators
    Accountants,  \* those holding the accountant's permissions
    Managers,     \* those holding the manager's permissions
    Null          \* the NULL of a nullable column

ASSUME RolesAssumption == Accountants \subseteq Admins /\ Managers \subseteq Admins
ASSUME NullAssumption  == Null \notin Admins \cup Versions \cup Batches

VARIABLES
    reqStatus,    \* payment_requests.status
    retired,      \* drafts whose bank profile, mapping or account was retired
    batchStatus,  \* payment_batches.status, "none" before the row exists
    current,      \* payment_batches.current_version_id
    verStatus,    \* payment_batch_versions.status, "none" before the row exists
    verBatch,     \* payment_batch_versions.payment_batch_id
    rows,         \* the requests whose attempts are the version's items
    creator,      \* created_by_admin_user_id
    finalizer,    \* finalized_by_admin_user_id
    decision,     \* batch_approvals.decision of the version, "none" without a row
    decider,      \* batch_approvals.decided_by_admin_user_id
    allocated,    \* requests whose attempts hold an unreleased allocation to it
    attempt,      \* status of the attempts of a request in a version
    expStatus,    \* bank_excel_exports.status, "none" before the row exists
    expKind,      \* bank_excel_exports.export_type
    expVersion,   \* bank_excel_exports.payment_batch_version_id
    marked,       \* exports with sent_to_bank_marked_at set
    drifted,      \* exports whose stored bytes lost the recorded digest
    downloading   \* exports some download has read as validated and intact

reqVars == <<reqStatus, retired>>
batVars == <<batchStatus, current>>
verVars == <<verStatus, verBatch, rows, creator, finalizer>>
decVars == <<decision, decider>>
attVars == <<allocated, attempt>>
expVars == <<expStatus, expKind, expVersion, marked, drifted, downloading>>
vars    == <<reqVars, batVars, verVars, decVars, attVars, expVars>>

RequestStatuses == {"eligible_for_batching", "cancelled"}
\* The container's status while it is a projection of its current version's.
ProjectedStatuses == {"draft", "ready_for_approval", "approved", "rejected"}
BatchStatuses     == ProjectedStatuses \cup {"none", "sent_to_bank", "cancelled"}
VersionStatuses   == ProjectedStatuses \cup {"none", "superseded"}
AttemptStatuses   == {"none", "included_in_batch_version", "sent_to_bank"}
UnsentFinal       == {"generated", "validated", "downloaded"}
ActiveFinal       == UnsentFinal \cup {"sent_to_bank_marked"}
ExportStatuses    == ActiveFinal \cup {"none", "voided", "quarantined"}

TypeOK ==
    /\ reqStatus \in [Requests -> RequestStatuses]
    /\ retired \subseteq Versions
    /\ batchStatus \in [Batches -> BatchStatuses]
    /\ current \in [Batches -> Versions \cup {Null}]
    /\ verStatus \in [Versions -> VersionStatuses]
    /\ verBatch \in [Versions -> Batches \cup {Null}]
    /\ rows \in [Versions -> SUBSET Requests]
    /\ creator \in [Versions -> Admins \cup {Null}]
    /\ finalizer \in [Versions -> Admins \cup {Null}]
    /\ decision \in [Versions -> {"none", "approved", "rejected"}]
    /\ decider \in [Versions -> Admins \cup {Null}]
    /\ allocated \in [Versions -> SUBSET Requests]
    /\ attempt \in [Versions -> [Requests -> AttemptStatuses]]
    /\ expStatus \in [Exports -> ExportStatuses]
    /\ expKind \in [Exports -> {"none", "preview", "final"}]
    /\ expVersion \in [Exports -> Versions \cup {Null}]
    /\ marked \subseteq Exports
    /\ drifted \subseteq Exports
    /\ downloading \subseteq Exports

Init ==
    /\ reqStatus = [r \in Requests |-> "eligible_for_batching"]
    /\ retired = {}
    /\ batchStatus = [b \in Batches |-> "none"]
    /\ current = [b \in Batches |-> Null]
    /\ verStatus = [v \in Versions |-> "none"]
    /\ verBatch = [v \in Versions |-> Null]
    /\ rows = [v \in Versions |-> {}]
    /\ creator = [v \in Versions |-> Null]
    /\ finalizer = [v \in Versions |-> Null]
    /\ decision = [v \in Versions |-> "none"]
    /\ decider = [v \in Versions |-> Null]
    /\ allocated = [v \in Versions |-> {}]
    /\ attempt = [v \in Versions |-> [r \in Requests |-> "none"]]
    /\ expStatus = [e \in Exports |-> "none"]
    /\ expKind = [e \in Exports |-> "none"]
    /\ expVersion = [e \in Exports |-> Null]
    /\ marked = {}
    /\ drifted = {}
    /\ downloading = {}

-----------------------------------------------------------------------------
(* What the world around the batches does. *)

\* The trader or the centre withdraws a request.  The code asks only for the
\* request's own status: an allocation to a batch is not a refusal.
CancelRequest(r) ==
    /\ reqStatus[r] = "eligible_for_batching"
    /\ reqStatus' = [reqStatus EXCEPT ![r] = "cancelled"]
    /\ UNCHANGED <<retired, batVars, verVars, decVars, attVars, expVars>>

\* An administrator supersedes or disables the bank configuration a version
\* names.  Only finalization looks again, so only a draft's matters.
RetireConfiguration(v) ==
    /\ verStatus[v] = "draft"
    /\ retired' = retired \cup {v}
    /\ UNCHANGED <<reqStatus, batVars, verVars, decVars, attVars, expVars>>

\* The bytes of a stored final export change behind the application's back.  (A
\* preview's digest is never compared with anything.)
FileDrifts(e) ==
    /\ expKind[e] = "final"
    /\ drifted' = drifted \cup {e}
    /\ UNCHANGED <<reqVars, batVars, verVars, decVars, attVars,
                   expStatus, expKind, expVersion, marked, downloading>>

-----------------------------------------------------------------------------
(* Batches and their versions. *)

\* Revalidation of one selected request inside the transaction.
Current(r) == reqStatus[r] = "eligible_for_batching"

\* A version's row, its items and the attempts they pay; the caller says what
\* happens to the allocations and to the status columns.
BuildVersion(a, b, v, S) ==
    /\ a \in Accountants
    /\ verStatus[v] = "none"
    /\ S # {} /\ \A r \in S : Current(r)
    /\ verBatch' = [verBatch EXCEPT ![v] = b]
    /\ rows' = [rows EXCEPT ![v] = S]
    /\ creator' = [creator EXCEPT ![v] = a]
    /\ attempt' = [attempt EXCEPT ![v] =
                     [r \in Requests |-> IF r \in S THEN "included_in_batch_version"
                                                    ELSE "none"]]

\* The allocations after every one of old's is released and S is allocated to v.
Reallocated(old, v, S) ==
    [w \in Versions |-> IF w = v THEN S ELSE IF w = old THEN {} ELSE allocated[w]]

\* Mutation of VoidActiveFinalExports: only files somebody downloaded are voided.
VoidDownloadedExports(v) ==
    [e \in Exports |->
        IF expVersion[e] = v /\ expKind[e] = "final" /\ expStatus[e] = "downloaded"
        THEN "voided" ELSE expStatus[e]]

\* The export statuses once the unsent finals of a version are voided.
VoidActiveFinalExports(v) ==
    [e \in Exports |->
        IF expVersion[e] = v /\ expKind[e] = "final" /\ expStatus[e] \in UnsentFinal
        THEN "voided" ELSE expStatus[e]]

CreateBatch(a, b, v, S) ==
    /\ batchStatus[b] = "none"
    /\ BuildVersion(a, b, v, S)
    /\ batchStatus' = [batchStatus EXCEPT ![b] = "draft"]
    /\ current' = [current EXCEPT ![b] = v]
    /\ verStatus' = [verStatus EXCEPT ![v] = "draft"]
    /\ allocated' = Reallocated(Null, v, S)
    /\ UNCHANGED <<reqVars, finalizer, decVars, expVars>>

\* Refused for a cancelled batch and for no other: an approved one, a rejected
\* one and one already sent all take a replacement.
CreateReplacementVersion(a, b, v, S) ==
    /\ batchStatus[b] \notin {"none", "cancelled"}
    /\ BuildVersion(a, b, v, S)
    /\ LET old == current[b] IN
         /\ verStatus' = [verStatus EXCEPT ![old] = "superseded", ![v] = "draft"]
         /\ allocated' = Reallocated(old, v, S)
         /\ expStatus' = VoidActiveFinalExports(old)
    /\ batchStatus' = [batchStatus EXCEPT ![b] = "draft"]
    /\ current' = [current EXCEPT ![b] = v]
    /\ UNCHANGED <<reqVars, finalizer, decVars,
                   expKind, expVersion, marked, drifted, downloading>>

\* The permission a cancellation needs in a batch status.
AuthorityForCancelling(status) == IF status = "approved" THEN Managers ELSE Accountants

\* The version keeps the status it had: only the container is cancelled.
CancelBatch(a, b) ==
    /\ batchStatus[b] \in {"draft", "ready_for_approval", "approved"}
    /\ a \in AuthorityForCancelling(batchStatus[b])
    /\ allocated' = [allocated EXCEPT ![current[b]] = {}]
    /\ expStatus' = VoidActiveFinalExports(current[b])
    /\ batchStatus' = [batchStatus EXCEPT ![b] = "cancelled"]
    /\ UNCHANGED <<reqVars, current, verVars, decVars, attempt,
                   expKind, expVersion, marked, drifted, downloading>>

\* Mutation of EveryItemOwnsItsAllocation: an allocation is assumed, not read.
ItemsAreAssumedAllocated(v) == rows[v] # {}

EveryItemOwnsItsAllocation(v) == rows[v] \subseteq allocated[v]
SourcesAreStillCurrent(v)     == \A r \in rows[v] : Current(r)
ConfigurationIsStillValid(v)  == v \notin retired

\* v is the version the batch it belongs to points at.
IsCurrent(v) == verBatch[v] # Null /\ current[verBatch[v]] = v

FinalizeVersion(a, v) ==
    /\ a \in Accountants
    /\ IsCurrent(v) /\ verStatus[v] = "draft"
    /\ EveryItemOwnsItsAllocation(v)
    /\ SourcesAreStillCurrent(v)
    /\ ConfigurationIsStillValid(v)
    /\ batchStatus' = [batchStatus EXCEPT ![verBatch[v]] = "ready_for_approval"]
    /\ verStatus' = [verStatus EXCEPT ![v] = "ready_for_approval"]
    /\ finalizer' = [finalizer EXCEPT ![v] = a]
    /\ UNCHANGED <<reqVars, current, verBatch, rows, creator, decVars, attVars, expVars>>

RefuseIfTheDeciderMadeThisVersion(a, v) == a \notin {finalizer[v], creator[v]}

\* Mutation of Decide: the container is left behind.
DecideVersionAlone(a, v, outcome) ==
    /\ a \in Managers
    /\ IsCurrent(v)
    /\ decision[v] = "none"
    /\ verStatus[v] = "ready_for_approval"
    /\ RefuseIfTheDeciderMadeThisVersion(a, v)
    /\ decision' = [decision EXCEPT ![v] = outcome]
    /\ decider' = [decider EXCEPT ![v] = a]
    /\ verStatus' = [verStatus EXCEPT ![v] = outcome]
    /\ UNCHANGED <<reqVars, batVars, verBatch, rows, creator, finalizer, attVars, expVars>>

\* Mutation of Decide: a decision can be made again, and change.
DecideAgain(a, v, outcome) ==
    /\ a \in Managers
    /\ IsCurrent(v)
    /\ verStatus[v] \in {"ready_for_approval", "approved", "rejected"}
    /\ RefuseIfTheDeciderMadeThisVersion(a, v)
    /\ decision' = [decision EXCEPT ![v] = outcome]
    /\ decider' = [decider EXCEPT ![v] = a]
    /\ verStatus' = [verStatus EXCEPT ![v] = outcome]
    /\ batchStatus' = [batchStatus EXCEPT ![verBatch[v]] = outcome]
    /\ UNCHANGED <<reqVars, current, verBatch, rows, creator, finalizer, attVars, expVars>>

\* approve_version and reject_version differ in the outcome alone.  The status
\* the guard reads is the version's; the container's is not consulted.
Decide(a, v, outcome) ==
    /\ a \in Managers
    /\ IsCurrent(v)
    /\ decision[v] = "none"
    /\ verStatus[v] = "ready_for_approval"
    /\ RefuseIfTheDeciderMadeThisVersion(a, v)
    /\ decision' = [decision EXCEPT ![v] = outcome]
    /\ decider' = [decider EXCEPT ![v] = a]
    /\ verStatus' = [verStatus EXCEPT ![v] = outcome]
    /\ batchStatus' = [batchStatus EXCEPT ![verBatch[v]] = outcome]
    /\ UNCHANGED <<reqVars, current, verBatch, rows, creator, finalizer, attVars, expVars>>

-----------------------------------------------------------------------------
(* Bank files. *)

\* Mutation of NoOtherActiveFinal: the index's predicate leaves sent files out.
NoOtherUnsentFinal(e, v) ==
    \A f \in Exports \ {e} :
        ~(expVersion[f] = v /\ expKind[f] = "final" /\ expStatus[f] \in UnsentFinal)

\* What the partial unique index uq_active_final_export_per_version refuses.
NoOtherActiveFinal(e, v) ==
    \A f \in Exports \ {e} :
        ~(expVersion[f] = v /\ expKind[f] = "final" /\ expStatus[f] \in ActiveFinal)

NewExport(e, v, kind, status) ==
    /\ expStatus[e] = "none"
    /\ expKind' = [expKind EXCEPT ![e] = kind]
    /\ expVersion' = [expVersion EXCEPT ![e] = v]
    /\ expStatus' = [expStatus EXCEPT ![e] = status]

GeneratePreview(v, e) ==
    /\ verStatus[v] # "none"
    /\ NewExport(e, v, "preview", "generated")
    /\ UNCHANGED <<reqVars, batVars, verVars, decVars, attVars, marked, drifted, downloading>>

\* Mutation of GenerateFinal: any decision will do.
GenerateFinalOnceDecided(v, e, holds) ==
    /\ decision[v] # "none"
    /\ NoOtherActiveFinal(e, v)
    /\ NewExport(e, v, "final", IF holds THEN "validated" ELSE "quarantined")
    /\ drifted' = IF holds THEN drifted ELSE drifted \cup {e}
    /\ UNCHANGED <<reqVars, batVars, verVars, decVars, attVars, marked, downloading>>

\* holds is the outcome of re-reading the file just written: the eight checks
\* pass, or the row is committed in quarantine.
GenerateFinal(v, e, holds) ==
    /\ decision[v] = "approved" /\ verStatus[v] = "approved"
    /\ NoOtherActiveFinal(e, v)
    /\ NewExport(e, v, "final", IF holds THEN "validated" ELSE "quarantined")
    /\ drifted' = IF holds THEN drifted ELSE drifted \cup {e}
    /\ UNCHANGED <<reqVars, batVars, verVars, decVars, attVars, marked, downloading>>

\* The download route up to the comparison of digests.  A drifted file is
\* quarantined and the quarantine committed; a sound one whose status was read
\* as validated leaves a download about to write.
DownloadExport(e) ==
    /\ expKind[e] = "final" /\ expStatus[e] # "quarantined"
    /\ \/ /\ e \in drifted
          /\ expStatus' = [expStatus EXCEPT ![e] = "quarantined"]
          /\ UNCHANGED downloading
       \/ /\ e \notin drifted /\ expStatus[e] = "validated"
          /\ downloading' = downloading \cup {e}
          /\ UNCHANGED expStatus
    /\ UNCHANGED <<reqVars, batVars, verVars, decVars, attVars,
                   expKind, expVersion, marked, drifted>>

\* The rest of the route: the update of the row by its key, whatever its status
\* is by now, unless the index refuses it.  Several downloads may be between the
\* two steps, so the export may stay in the set.
DownloadCommits(e) ==
    /\ e \in downloading
    /\ NoOtherActiveFinal(e, expVersion[e])
    /\ expStatus' = [expStatus EXCEPT ![e] = "downloaded"]
    /\ downloading' \in {downloading, downloading \ {e}}
    /\ UNCHANGED <<reqVars, batVars, verVars, decVars, attVars,
                   expKind, expVersion, marked, drifted>>

\* Mutation of AttemptsMarkedSent: a released allocation is filtered out.
AllocatedAttemptsMarkedSent(v) ==
    [attempt EXCEPT ![v] =
        [r \in Requests |-> IF r \in allocated[v] THEN "sent_to_bank" ELSE @[r]]]

\* The attempts the export contains move with it, released allocations included.
AttemptsMarkedSent(v) ==
    [attempt EXCEPT ![v] =
        [r \in Requests |-> IF @[r] = "included_in_batch_version"
                            THEN "sent_to_bank" ELSE @[r]]]

MarkSent(a, e) ==
    /\ a \in Accountants
    /\ expKind[e] = "final" /\ e \notin marked /\ expStatus[e] # "quarantined"
    /\ e \notin drifted
    /\ NoOtherActiveFinal(e, expVersion[e])
    /\ marked' = marked \cup {e}
    /\ expStatus' = [expStatus EXCEPT ![e] = "sent_to_bank_marked"]
    /\ batchStatus' = [batchStatus EXCEPT ![verBatch[expVersion[e]]] = "sent_to_bank"]
    /\ attempt' = AttemptsMarkedSent(expVersion[e])
    /\ UNCHANGED <<reqVars, current, verVars, decVars, allocated,
                   expKind, expVersion, drifted, downloading>>

-----------------------------------------------------------------------------
Next ==
    \/ \E r \in Requests : CancelRequest(r)
    \/ \E v \in Versions : RetireConfiguration(v)
    \/ \E e \in Exports : FileDrifts(e)
    \/ \E a \in Admins, b \in Batches, v \in Versions, S \in SUBSET Requests :
         CreateBatch(a, b, v, S) \/ CreateReplacementVersion(a, b, v, S)
    \/ \E a \in Admins, b \in Batches : CancelBatch(a, b)
    \/ \E a \in Admins, v \in Versions : FinalizeVersion(a, v)
    \/ \E a \in Admins, v \in Versions, outcome \in {"approved", "rejected"} :
         Decide(a, v, outcome)
    \/ \E v \in Versions, e \in Exports : GeneratePreview(v, e)
    \/ \E v \in Versions, e \in Exports, holds \in BOOLEAN : GenerateFinal(v, e, holds)
    \/ \E e \in Exports : DownloadExport(e) \/ DownloadCommits(e)
    \/ \E a \in Admins, e \in Exports : MarkSent(a, e)

Spec == Init /\ [][Next]_vars

-----------------------------------------------------------------------------
(* Safety.  None of these is checked by a database constraint as a whole: each *)
(* relates rows that different commands write in different transactions.       *)

\* The container's status is a projection of its current version's: whenever it
\* holds a status a version can have, that is the status of the version the
\* batch points at (CON-BATCH-004).  Finalization, both decisions, cancellation,
\* replacement and mark-sent all write one of the two columns or both.
ProjectionOfCurrent ==
    \A b \in Batches : batchStatus[b] \in ProjectedStatuses =>
        /\ current[b] # Null
        /\ verStatus[current[b]] = batchStatus[b]

\* A batch has one version anyone may act on, the one it points at; every other
\* was superseded by create_replacement_version.  So no manager can be looking
\* at a second version of the same batch that could still be decided.
OneOperationalVersion ==
    /\ \A v \in Versions : verStatus[v] \notin {"none", "superseded"} => IsCurrent(v)
    /\ \A b \in Batches :
         IF batchStatus[b] = "none" THEN current[b] = Null
         ELSE current[b] \in Versions /\ verBatch[current[b]] = b

\* Replacing a version leaves nothing of it in force: no unreleased allocation,
\* and no final export still sendable as generated or validated.  (A download in
\* flight over the replacement can put one back to "downloaded": that window is
\* why the statement stops short of every unsent status.)
SupersededHoldsNothing ==
    \A v \in Versions : verStatus[v] = "superseded" =>
        /\ allocated[v] = {}
        /\ \A e \in Exports : expVersion[e] = v /\ expKind[e] = "final" =>
             expStatus[e] \notin {"generated", "validated"}

\* While a batch is being prepared or waits for a manager, exactly the items of
\* its current version are backed by unreleased allocations, however many times
\* versions were replaced, and nothing is ever allocated outside a version's items.
AllocationsBackTheItems ==
    /\ \A b \in Batches : batchStatus[b] \in {"draft", "ready_for_approval"} =>
         current[b] # Null /\ allocated[current[b]] = rows[current[b]]
    /\ \A v \in Versions : allocated[v] \subseteq rows[v]

\* Segregation of duties over the whole life of a version: a decision on record
\* was made by a manager other than the version's creator and finalizer, it is
\* the only decision, and the version's status never drifts from it except by
\* being superseded.
DecidedByAnother ==
    \A v \in Versions :
        IF decision[v] = "none" THEN verStatus[v] \notin {"approved", "rejected"}
        ELSE /\ decider[v] \in Managers
             /\ decider[v] \notin {creator[v], finalizer[v]}
             /\ creator[v] \in Accountants /\ finalizer[v] \in Accountants
             /\ verStatus[v] \in {decision[v], "superseded"}

\* A file that may go to the bank belongs to a version a manager approved, and
\* nothing but such a file is ever marked sent, whichever versions replaced it
\* in the meantime.
FinalFileAuthorised ==
    /\ \A e \in Exports : expKind[e] = "final" =>
         expVersion[e] \in Versions /\ decision[expVersion[e]] = "approved"
    /\ \A e \in marked \cup downloading : expKind[e] = "final"

\* Two files that could both be sent never exist for one version, through
\* generation, voiding, quarantine, late downloads and mark-sent.
OneActiveFinal ==
    \A e, f \in Exports :
        /\ e # f /\ expKind[e] = "final" /\ expKind[f] = "final"
        /\ expStatus[e] \in ActiveFinal /\ expStatus[f] \in ActiveFinal
        => expVersion[e] # expVersion[f]

\* Attempts, files and batches agree on what left the building: marking an
\* export sends every attempt of its version, an attempt is sent only by that,
\* and a batch is sent_to_bank only if some version of its own has a marked file.
SentTogether ==
    /\ \A e \in marked : \A r \in rows[expVersion[e]] :
         attempt[expVersion[e]][r] = "sent_to_bank"
    /\ \A v \in Versions, r \in Requests :
         /\ r \in rows[v] <=> attempt[v][r] # "none"
         /\ attempt[v][r] = "sent_to_bank" => \E e \in marked : expVersion[e] = v
    /\ \A b \in Batches : batchStatus[b] = "sent_to_bank" =>
         \E e \in marked : verBatch[expVersion[e]] = b

\* What a row says of its past: a version that exists was created by an
\* accountant, for a batch that exists, with at least one item; one waiting for a
\* manager was finalized by an accountant; a batch that exists, cancelled or not,
\* still points at a version nobody superseded.
RowsHaveProvenance ==
    /\ \A v \in Versions :
         IF verStatus[v] = "none"
         THEN verBatch[v] = Null /\ rows[v] = {} /\ creator[v] = Null
         ELSE /\ verBatch[v] \in Batches /\ batchStatus[verBatch[v]] # "none"
              /\ rows[v] # {} /\ creator[v] \in Accountants
              /\ verStatus[v] = "ready_for_approval" => finalizer[v] \in Accountants
    /\ \A b \in Batches : batchStatus[b] # "none" =>
         current[b] \in Versions /\ verStatus[current[b]] \notin {"none", "superseded"}
    /\ \A e \in Exports : expStatus[e] = "none" <=> expKind[e] = "none"

\* The conjunction is inductive: proved in PaymentBatching_proofs.
Inv ==
    /\ TypeOK
    /\ ProjectionOfCurrent
    /\ OneOperationalVersion
    /\ SupersededHoldsNothing
    /\ AllocationsBackTheItems
    /\ DecidedByAnother
    /\ FinalFileAuthorised
    /\ OneActiveFinal
    /\ SentTogether
    /\ RowsHaveProvenance

-----------------------------------------------------------------------------
(* The promise the rows implement. *)

\* Where a version's status puts its list of payments.
StageOf == [none |-> "absent", draft |-> "prepared", ready_for_approval |-> "submitted",
            approved |-> "judged", rejected |-> "judged", superseded |-> "withdrawn"]

DC == INSTANCE DualControl WITH
        Lists <- Versions, Payments <- Requests,
        Preparers <- Accountants, Judges <- Managers, Nobody <- Null,
        stage <- [v \in Versions |-> StageOf[verStatus[v]]],
        content <- rows, maker <- creator, submitter <- finalizer,
        judge <- decider, verdict <- decision,
        released <- {expVersion[e] : e \in marked}

\* Every execution of the batch commands is one of the dual-control promise.
ImplementsDualControl == DC!DCSpec

-----------------------------------------------------------------------------
(* What documents, comments and tests of the repository say and the code does *)
(* not keep.  TLC refutes each: section 4 of README.md.                       *)

\* A request is never in two batch versions at once: some version holds its
\* allocation, and until that is released no other does.
RequestInOneLiveVersion ==
    \A v, w \in Versions : v # w => allocated[v] \cap allocated[w] = {}

\* A cancelled batch is at the end of its life.
CancelledBatchStaysCancelled ==
    [][\A b \in Batches : batchStatus[b] = "cancelled" => batchStatus'[b] = "cancelled"]_vars

\* Downloading a file again never walks one marked sent backwards.
SentFileIsNotWalkedBack ==
    [][\A e \in Exports : expStatus[e] = "sent_to_bank_marked" =>
         expStatus'[e] # "downloaded"]_vars

=============================================================================
