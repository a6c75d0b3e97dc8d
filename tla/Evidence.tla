------------------------------ MODULE Evidence ------------------------------
(***************************************************************************)
(* From a bank's returned document to the evidence a trader is shown: the  *)
(* commands of app/commands/bank_result_bundle.py, receipt_segment.py,     *)
(* receipt_crop.py, matching_candidate.py, confirmed_evidence_link.py and  *)
(* manual_review_task.py, and what payment_publication.py and              *)
(* publication_correction.py do with a link.                               *)
(*                                                                         *)
(* A command is one transaction at READ COMMITTED.  Where it decides on    *)
(* rows it has not locked, its reads are one action and its commit a       *)
(* later one; doing keeps what it read.  A command whose reads all follow  *)
(* its locks is one action.  The session writes a column only when the     *)
(* value differs from the one it loaded.                                   *)
(*                                                                         *)
(* A link is identified by its attempt, segment and type, which are UNIQUE *)
(* together.  Whether the request may be published at all, its money and   *)
(* its versions are module PaymentResult's.  Idempotency is Delivery's.    *)
(***************************************************************************)
EXTENDS Naturals

CONSTANTS
    Bundles,    \* identifiers for bank_result_bundles rows
    Segments,   \* identifiers for receipt_segments rows
    BundleOf,   \* the bundle each segment is cut from
    Attempts,   \* payment_attempts
    Requests,   \* payment_requests
    RequestOf,  \* the request of each attempt
    Operators,  \* transactions under way on segments, crops and reviews
    Publishers, \* transactions under way on bundles and publications
    Null        \* the NULL of a nullable column

Clerks == Operators \cup Publishers

Types == {"primary", "supplementary"}
Links == Attempts \X Segments \X Types

ASSUME EvidenceAssumption ==
    /\ BundleOf \in [Segments -> Bundles]
    /\ RequestOf \in [Attempts -> Requests]
    /\ Operators \cap Publishers = {}
    /\ Null \notin Links /\ Null \notin Segments

VARIABLES
    closed,     \* bundles whose status is closed
    segStatus,  \* receipt_segments.status, "none" before the row exists
    version,    \* receipt_segments.record_version; rendering the crop moves it to 2
    crops,      \* segments cut in the panel: creation_method
    linkStatus, \* confirmed_evidence_links.status
    replaces,   \* confirmed_evidence_links.replaces_link_id
    shown,      \* links with a published_to_trader_at
    task,       \* the segment_privacy_review task of a segment
    cites,      \* the link the active publication of a request cites
    published,  \* requests with an active publication
    judged,     \* history: the segment versions a reviewer passed
    doing       \* what each transaction under way has read

segVars  == <<closed, segStatus, version, crops>>
linkVars == <<linkStatus, replaces, shown>>
pubVars  == <<cites, published>>
taskVars == <<task, judged>>
vars     == <<segVars, linkVars, pubVars, taskVars, doing>>

-----------------------------------------------------------------------------
SegmentStatuses   == {"none", "created", "candidate_found", "confirmed_linked", "published"}
Resolved          == {"confirmed_linked", "published"}
\* "unmatched" is written by no command.
GainsACandidate   == {"created"}
BecomesLinked     == {"created", "candidate_found"}
LinkStatuses      == {"none", "active", "replaced", "revoked"}
TaskStatuses      == {"none", "open", "in_progress", "resolved", "cancelled"}
OpenTask          == {"open", "in_progress"}

\* reviewed is entity_record_version: the segment version the resolution is about.
Tasks == [status : TaskStatuses, passed : BOOLEAN, reviewed : Nat]

AttemptOf(l) == l[1]
SegmentOf(l) == l[2]
TypeOf(l)    == l[3]
Primary      == {l \in Links : TypeOf(l) = "primary"}
LinkRequest(l) == RequestOf[AttemptOf(l)]
SameAttempt(k, l) == AttemptOf(k) = AttemptOf(l)

Idle == [op |-> "idle"]
Call ==
    [op : {"attach"}, on : Segments, crop : BOOLEAN]
    \cup [op : {"close"}, on : Bundles]
    \cup [op : {"render"}, on : Segments, was : Nat]
    \cup [op : {"propose"}, on : Segments, gains : BOOLEAN]
    \cup [op : {"start", "resolve", "cancel"}, on : Segments, saw : Nat]
    \cup [op : {"publish"}, on : Requests, link : Links \cup {Null}, held : BOOLEAN]
    \cup [op : {"correct"}, on : Requests, link : Links, by : Segments]

Init ==
    /\ closed = {}
    /\ segStatus = [s \in Segments |-> "none"]
    /\ version = [s \in Segments |-> 0]
    /\ crops = {}
    /\ linkStatus = [l \in Links |-> "none"]
    /\ replaces = [l \in Links |-> Null]
    /\ shown = {}
    /\ task = [s \in Segments |-> [status |-> "none", passed |-> FALSE, reviewed |-> 0]]
    /\ cites = [r \in Requests |-> Null]
    /\ published = {}
    /\ judged = {}
    /\ doing = [c \in Clerks |-> Idle]

Begin(c, call) ==
    /\ doing[c] = Idle
    /\ doing' = [doing EXCEPT ![c] = call]
    /\ UNCHANGED <<segVars, linkVars, pubVars, taskVars>>

Return(c)  == doing' = [doing EXCEPT ![c] = Idle]
\* Refused, rolled back or crashed.
Abandon(c) == doing[c] # Idle /\ Return(c) /\ UNCHANGED <<segVars, linkVars, pubVars, taskVars>>

\* A publication or a correction under way holds its request FOR UPDATE.
Locked(r) == \E c \in Clerks : doing[c].op \in {"publish", "correct"} /\ doing[c].on = r

-----------------------------------------------------------------------------
(* Bundles and segments. *)

\* attach_external and request_crop: the bundle is open and its file clean.
AttachReads(c, s, crop) ==
    /\ segStatus[s] = "none"
    /\ BundleOf[s] \notin closed
    /\ Begin(c, [op |-> "attach", on |-> s, crop |-> crop])

\* A crop brings its rendering job and its privacy task in the same transaction.
CreateSegment(c) ==
    /\ doing[c].op = "attach"
    /\ LET s == doing[c].on IN
         /\ segStatus[s] = "none"
         /\ segStatus' = [segStatus EXCEPT ![s] = "created"]
         /\ version' = [version EXCEPT ![s] = 1]
         /\ IF doing[c].crop
            THEN /\ crops' = crops \cup {s}
                 /\ task' = [task EXCEPT ![s].status = "open"]
            ELSE UNCHANGED <<crops, task>>
    /\ Return(c)
    /\ UNCHANGED <<closed, linkVars, pubVars, judged>>

\* The counts are recomputed from the segments before the decision.
CloseReads(c, b) ==
    /\ b \notin closed
    /\ \A s \in Segments : BundleOf[s] = b => segStatus[s] \in Resolved \cup {"none"}
    /\ Begin(c, [op |-> "close", on |-> b])

CloseBundle(c) ==
    /\ doing[c].op = "close"
    /\ closed' = closed \cup {doing[c].on}
    /\ Return(c)
    /\ UNCHANGED <<segStatus, version, crops, linkVars, pubVars, taskVars>>

\* The files worker takes up a crop that has no image.
RenderReads(c, s) ==
    /\ s \in crops
    /\ version[s] = 1
    /\ Begin(c, [op |-> "render", on |-> s, was |-> version[s]])

RenderPendingCrop(c) ==
    /\ doing[c].op = "render"
    /\ version' = [version EXCEPT ![doing[c].on] = doing[c].was + 1]
    /\ Return(c)
    /\ UNCHANGED <<closed, segStatus, crops, linkVars, pubVars, taskVars>>

-----------------------------------------------------------------------------
(* Candidates: a suggestion, never a link. *)

ProposeReads(c, s) ==
    /\ segStatus[s] # "none"
    /\ Begin(c, [op |-> "propose", on |-> s, gains |-> segStatus[s] \in GainsACandidate])

\* The candidate is a suggestion that no command here reads.
ProposeCandidate(c) ==
    /\ doing[c].op = "propose"
    /\ segStatus' = IF doing[c].gains THEN [segStatus EXCEPT ![doing[c].on] = "candidate_found"]
                    ELSE segStatus
    /\ Return(c)
    /\ UNCHANGED <<closed, version, crops, linkVars, pubVars, taskVars>>

-----------------------------------------------------------------------------
(* Links. *)

\* uq_evidence_link_attempt_segment_type, and one active primary link for an
\* attempt and for a segment.
Insertable(l, status) ==
    /\ status[l] = "none"
    /\ l \in Primary =>
         \A k \in Primary : status[k] = "active" =>
            AttemptOf(k) # AttemptOf(l) /\ SegmentOf(k) # SegmentOf(l)

\* Attempt and segment are locked, and read afterwards.
ConfirmEvidenceLink(l) ==
    /\ segStatus[SegmentOf(l)] # "none"
    /\ Insertable(l, linkStatus)
    /\ linkStatus' = [linkStatus EXCEPT ![l] = "active"]
    /\ segStatus' = IF l \in Primary /\ segStatus[SegmentOf(l)] \in BecomesLinked
                    THEN [segStatus EXCEPT ![SegmentOf(l)] = "confirmed_linked"]
                    ELSE segStatus
    /\ UNCHANGED <<closed, version, crops, replaces, shown, pubVars, taskVars, doing>>

\* A publication under way holds FOR KEY SHARE on a link it has inserted only at
\* its commit, so neither waits for the other.
Uncited(l) == l \notin shown /\ \A r \in published : cites[r] # l

Successor(l, s) == <<AttemptOf(l), s, TypeOf(l)>>

\* The old link is retired and the new one inserted, in one transaction.
Retire(l, s) ==
    LET retired == [linkStatus EXCEPT ![l] = "replaced"]
        next    == Successor(l, s)
    IN  /\ segStatus[s] # "none"
        /\ Insertable(next, retired)
        /\ linkStatus' = [retired EXCEPT ![next] = "active"]
        /\ replaces' = [replaces EXCEPT ![next] = l]

\* Attempt, new segment and link are locked, and the link is read again.
ReplaceEvidenceLink(l, s) ==
    /\ linkStatus[l] = "active"
    /\ Uncited(l)
    /\ Retire(l, s)
    /\ UNCHANGED <<segVars, shown, pubVars, taskVars, doing>>

\* Mutation of RevokeEvidenceLink: any link can be withdrawn.
RevokeAnyLink(l) ==
    /\ linkStatus[l] = "active"
    /\ linkStatus' = [linkStatus EXCEPT ![l] = "revoked"]
    /\ UNCHANGED <<segVars, replaces, shown, pubVars, taskVars, doing>>

\* Nothing asks whether a publication cites the link.
RevokeEvidenceLink(l) ==
    /\ TypeOf(l) = "supplementary"
    /\ linkStatus[l] = "active"
    /\ linkStatus' = [linkStatus EXCEPT ![l] = "revoked"]
    /\ UNCHANGED <<segVars, replaces, shown, pubVars, taskVars, doing>>

-----------------------------------------------------------------------------
(* The privacy review of a crop.  The version the client names is compared   *)
(* in the session, not by the update: two moves can both pass.               *)

ReviewReads(c, s, op) ==
    /\ task[s].status \in IF op = "start" THEN {"open"} ELSE OpenTask
    /\ Begin(c, [op |-> op, on |-> s, saw |-> version[s]])

\* A row that is resolved keeps its resolution: the update of a start or of a
\* cancellation that read it open is refused (resolved_requires_a_disposition).
\* assign writes no column these do.
StartTask(c) ==
    /\ doing[c].op = "start"
    /\ task[doing[c].on].status # "resolved"
    /\ task' = [task EXCEPT ![doing[c].on].status = "in_progress"]
    /\ Return(c)
    /\ UNCHANGED <<segVars, linkVars, pubVars, judged>>

CancelTask(c) ==
    /\ doing[c].op = "cancel"
    /\ task[doing[c].on].status # "resolved"
    /\ task' = [task EXCEPT ![doing[c].on].status = "cancelled"]
    /\ Return(c)
    /\ UNCHANGED <<segVars, linkVars, pubVars, judged>>

\* The version recorded is the one the segment has when resolve reads it.  A
\* task cancelled or resolved meanwhile is resolved all the same.
ResolveTask(c, passed) ==
    /\ doing[c].op = "resolve"
    /\ LET d == doing[c] IN
         /\ task' = [task EXCEPT ![d.on] =
                       [status |-> "resolved", passed |-> passed, reviewed |-> d.saw]]
         /\ judged' = IF passed THEN judged \cup {<<d.on, d.saw>>} ELSE judged
    /\ Return(c)
    /\ UNCHANGED <<segVars, linkVars, pubVars>>

\* Mutation of PrivacyVerified: a passed review counts whatever it was about.
PrivacyOncePassed(s) ==
    /\ task[s].status = "resolved"
    /\ task[s].passed

\* privacy_verification: the review applies to the segment as it now stands.
PrivacyVerified(s) ==
    /\ task[s].status = "resolved"
    /\ task[s].passed
    /\ task[s].reviewed = version[s]

-----------------------------------------------------------------------------
(* Publications. *)

\* The evidence is active, of this request, reviewed, and has an image to show.
Citable(r, l) ==
    /\ linkStatus[l] = "active"
    /\ LinkRequest(l) = r
    /\ PrivacyVerified(SegmentOf(l))
    /\ version[SegmentOf(l)] = 2

\* The request is locked; the link, its segment and its review are not.
PublishReads(c, r, l) ==
    /\ ~Locked(r)
    /\ r \notin published
    /\ l # Null => Citable(r, l)
    /\ Begin(c, [op |-> "publish", on |-> r, link |-> l,
                 held |-> IF l = Null THEN FALSE
                          ELSE segStatus[SegmentOf(l)] = "confirmed_linked"])

PublishResult(c) ==
    /\ doing[c].op = "publish"
    /\ LET l == doing[c].link IN
         /\ published' = published \cup {doing[c].on}
         /\ cites' = [cites EXCEPT ![doing[c].on] = l]
         /\ shown' = IF l = Null THEN shown ELSE shown \cup {l}
         /\ segStatus' = IF doing[c].held
                         THEN [segStatus EXCEPT ![SegmentOf(l)] = "published"] ELSE segStatus
    /\ Return(c)
    /\ UNCHANGED <<closed, version, crops, linkStatus, replaces, taskVars>>

\* The link to retire is any active one; the successor's segment is reviewed and
\* rendered.  The request is locked, the link is not.
CorrectReads(c, r, l, s) ==
    /\ ~Locked(r)
    /\ r \in published
    /\ linkStatus[l] = "active"
    /\ LinkRequest(l) = r
    /\ PrivacyVerified(s) /\ version[s] = 2
    /\ Begin(c, [op |-> "correct", on |-> r, link |-> l, by |-> s])

\* The publication is superseded by one that cites the successor.
CorrectPublishedResult(c) ==
    /\ doing[c].op = "correct"
    /\ LET d == doing[c] IN
         /\ Retire(d.link, d.by)
         /\ cites' = [cites EXCEPT ![d.on] = Successor(d.link, d.by)]
         /\ shown' = shown \cup {Successor(d.link, d.by)}
    /\ Return(c)
    /\ UNCHANGED <<segVars, published, taskVars>>

-----------------------------------------------------------------------------
Handling(c) ==
    \E s \in Segments :
        \/ \E crop \in BOOLEAN : AttachReads(c, s, crop)
        \/ RenderReads(c, s)
        \/ ProposeReads(c, s)
        \/ \E op \in {"start", "resolve", "cancel"} : ReviewReads(c, s, op)

Publishing(c) ==
    \/ \E b \in Bundles : CloseReads(c, b)
    \/ \E r \in Requests, l \in Links \cup {Null} : PublishReads(c, r, l)
    \/ \E r \in Requests, l \in Links, s \in Segments : CorrectReads(c, r, l, s)

Next ==
    \/ \E c \in Operators : Handling(c)
    \/ \E c \in Publishers : Publishing(c)
    \/ \E c \in Clerks :
         \/ CreateSegment(c)
         \/ CloseBundle(c)
         \/ RenderPendingCrop(c)
         \/ ProposeCandidate(c)
         \/ StartTask(c)
         \/ \E passed \in BOOLEAN : ResolveTask(c, passed)
         \/ CancelTask(c)
         \/ PublishResult(c)
         \/ CorrectPublishedResult(c)
         \/ Abandon(c)
    \/ \E l \in Links :
         \/ ConfirmEvidenceLink(l)
         \/ RevokeEvidenceLink(l)
         \/ \E s \in Segments : ReplaceEvidenceLink(l, s)

Spec == Init /\ [][Next]_vars

-----------------------------------------------------------------------------
(* Safety. *)

TypeOK ==
    /\ closed \subseteq Bundles
    /\ segStatus \in [Segments -> SegmentStatuses]
    /\ version \in [Segments -> 0 .. 2]
    /\ crops \subseteq Segments
    /\ linkStatus \in [Links -> LinkStatuses]
    /\ replaces \in [Links -> Links \cup {Null}]
    /\ shown \subseteq Links
    /\ task \in [Segments -> Tasks]
    /\ cites \in [Requests -> Links \cup {Null}]
    /\ published \subseteq Requests
    /\ judged \subseteq Segments \X Nat
    /\ doing \in [Clerks -> {Idle} \cup Call]

\* An attempt that ever had primary evidence has exactly one active primary link,
\* and every retired one has exactly one successor: no replacement, correction or
\* revocation, however they overlap, leaves an attempt without evidence or with two.
PrimaryEvidenceIsAChain ==
    LET line == {l \in Primary : linkStatus[l] # "none"} IN
    /\ \A l \in line : \E k \in line : SameAttempt(k, l) /\ linkStatus[k] = "active"
    /\ \A k, l \in line : SameAttempt(k, l) =>
         /\ linkStatus[k] = "active" /\ linkStatus[l] = "active" => k = l
         /\ replaces[k] = replaces[l] /\ replaces[k] # Null => k = l
    /\ \A l \in line : linkStatus[l] = "replaced" =>
         \E k \in line : SameAttempt(k, l) /\ replaces[k] = l

\* The image a trader is shown is one a privacy review passed, in the version
\* shown: a review of a crop before it was rendered does not count (doc 06 16.5).
PublishedImageWasReviewed ==
    \A r \in Requests : cites[r] # Null =>
        /\ version[SegmentOf(cites[r])] = 2
        /\ <<SegmentOf(cites[r]), 2>> \in judged

-----------------------------------------------------------------------------
(* Refinement: EvidenceCustody. *)

PrimaryOf(a, status) == {s \in Segments : linkStatus[<<a, s, "primary">>] = status}

Custody == INSTANCE EvidenceCustody WITH
    NoImage <- Null,
    primary <- [a \in Attempts |-> PrimaryOf(a, "active")],
    past    <- [a \in Attempts |-> PrimaryOf(a, "replaced")],
    linked  <- {p \in Attempts \X Segments :
                  \E t \in Types : linkStatus[<<p[1], p[2], t>>] # "none"},
    cleared <- {s \in Segments : version[s] = 2 /\ <<s, 2>> \in judged},
    seen    <- [r \in Requests |-> IF cites[r] = Null THEN Null ELSE SegmentOf(cites[r])]

\* Every execution of the evidence commands keeps the custody of evidence: an attempt
\* is never left without evidence or with two, and a trader sees only images that were
\* reviewed as they stand and linked to a payment of that trader's own request.
ImplementsCustody == Custody!ECSpec

-----------------------------------------------------------------------------
(* What the documents say and the commands do not keep. *)

\* The evidence a published result cites is not withdrawn under it
\* (_refuse_to_replace_evidence_a_trader_has_seen, revoke_evidence_link).
CitedEvidenceIsActive ==
    \A r \in published : cites[r] # Null => linkStatus[cites[r]] = "active"

-----------------------------------------------------------------------------
(* What makes the kept ones inductive. *)

\* A retired link is the one its successor names, and no other names it.
LinksFit ==
    \A l \in Primary :
        /\ linkStatus[l] # "revoked"
        /\ linkStatus[l] = "none" => replaces[l] = Null
        /\ replaces[l] # Null => replaces[l] \in Primary /\ linkStatus[replaces[l]] = "replaced"

\* A review that passed is remembered, in the version it was of.
ReviewsFit ==
    \A s \in Segments :
        /\ task[s].status = "resolved" /\ task[s].passed => <<s, task[s].reviewed>> \in judged
        /\ segStatus[s] = "none" => version[s] = 0

\* What a transaction read of an image or a link does not become untrue.
CallsFit ==
    \A c \in Clerks :
        LET d == doing[c] IN
        /\ d.op = "render" => d.was = 1 /\ segStatus[d.on] # "none"
        /\ d.op = "publish" =>
             IF d.link = Null THEN ~d.held
             ELSE /\ linkStatus[d.link] # "none" /\ LinkRequest(d.link) = d.on
                  /\ version[SegmentOf(d.link)] = 2 /\ <<SegmentOf(d.link), 2>> \in judged
        /\ d.op = "correct" =>
             /\ linkStatus[d.link] # "none" /\ LinkRequest(d.link) = d.on
             /\ d.on \in published
             /\ version[d.by] = 2 /\ <<d.by, 2>> \in judged

\* A request is in the hands of one publication or correction, and what is being
\* published is not published yet.
LocksHold ==
    LET holding == {c \in Clerks : doing[c].op \in {"publish", "correct"}} IN
    /\ \A c, e \in holding : doing[c].on = doing[e].on => c = e
    /\ \A c \in holding : doing[c].op = "publish" => doing[c].on \notin published

Inv ==
    /\ TypeOK /\ PrimaryEvidenceIsAChain /\ PublishedImageWasReviewed
    /\ LinksFit /\ ReviewsFit /\ CallsFit
=============================================================================
