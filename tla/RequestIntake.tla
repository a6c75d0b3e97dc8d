--------------------------- MODULE RequestIntake ---------------------------
(***************************************************************************)
(* From a trader's draft to a request eligible for batching: the commands  *)
(* of app/commands/payment_request.py, beneficiary.py and                  *)
(* trader_lifecycle.py, over the rows of one business.                     *)
(*                                                                         *)
(* No command here locks a row.  Each reads what it decides on, and writes *)
(* the one row it moves with compare_and_swap on the version its client    *)
(* was shown, so reading and writing are two actions.  A client cannot     *)
(* have been shown a version that does not exist yet.  A command that      *)
(* refuses, loses its swap or crashes is Abandon: it changes nothing.      *)
(*                                                                         *)
(* The reason a cancellation may need, and the completeness and attachment *)
(* checks of a submission, can only refuse; they read no row that moves    *)
(* here.  Creating a revision also claims an idempotency key (Delivery).   *)
(***************************************************************************)
EXTENDS Naturals

CONSTANTS
    Requests,       \* identifiers for payment_requests rows
    Beneficiaries,  \* identifiers for beneficiaries rows
    Business,       \* the traders row that owns them
    Terms,          \* what a trader types: amount, description, attachment
    Staff,          \* the centre's accountants and managers
    TraderUsers,    \* the people of the business
    NoContent,      \* a revision that was not written
    MaxRevisions,   \* bound: revisions of a request, editions of a beneficiary
    MaxVersion      \* bound: the record_version of each row

Clients == Staff \cup TraderUsers
Rows    == Requests \cup Beneficiaries \cup {Business}

ASSUME IntakeAssumption ==
    /\ MaxRevisions \in Nat \ {0} /\ MaxVersion \in [Rows -> Nat]
    /\ Requests \cap Beneficiaries = {}
    /\ Business \notin Requests \cup Beneficiaries
    /\ Staff \cap TraderUsers = {}
    /\ NoContent \notin [terms : Terms, payee : Beneficiaries, edition : 1 .. MaxRevisions]

VARIABLES
    row,      \* status, edition and record_version of every row; the edition is
              \* current_revision_id of a request, the identity a beneficiary has
    content,  \* payment_request_revisions, by request and revision_number
    named,    \* the revision_id in a request's last mark_eligible audit row
    doing     \* what each client's command under way has read

vars == <<row, content, named, doing>>

-----------------------------------------------------------------------------
RequestStatuses == {"none", "draft", "submitted_to_center", "under_accountant_review",
    "needs_trader_correction", "eligible_for_batching", "cancelled"}
\* approval_status and operational_status: "pending" is pending_approval and
\* inactive, "rejected" is rejected and inactive, the others are approved.
BusinessStatuses    == {"pending", "rejected", "active", "suspended"}
BeneficiaryStatuses == {"none", "active", "inactive"}
RowType == [status : RequestStatuses \cup BeneficiaryStatuses \cup BusinessStatuses,
            edition : Nat, version : Nat]

Correctable == {"draft", "needs_trader_correction"}
Cancellable == {"draft", "submitted_to_center", "under_accountant_review",
                "needs_trader_correction", "eligible_for_batching"}
TraderMayCancel == Cancellable \ {"under_accountant_review"}

\* The commands that only move a status: where from, and where to.
Transitions ==
    [submit             |-> [from |-> Correctable, to |-> "submitted_to_center"],
     cancel             |-> [from |-> Cancellable, to |-> "cancelled"],
     start_review       |-> [from |-> {"submitted_to_center"},
                             to   |-> "under_accountant_review"],
     request_correction |-> [from |-> {"submitted_to_center", "under_accountant_review"},
                             to   |-> "needs_trader_correction"],
     mark_eligible      |-> [from |-> {"under_accountant_review"},
                             to   |-> "eligible_for_batching"],
     deactivate         |-> [from |-> {"active"},              to |-> "inactive"],
     approve            |-> [from |-> {"pending"},             to |-> "active"],
     reject             |-> [from |-> {"pending", "rejected"}, to |-> "rejected"],
     suspend            |-> [from |-> {"active"},              to |-> "suspended"],
     reactivate         |-> [from |-> {"suspended"},           to |-> "active"]]

Reviews    == {"start_review", "request_correction"}
Decisions  == {"approve", "reject", "suspend", "reactivate"}
Revisions  == 1 .. MaxRevisions
Contents   == [terms : Terms, payee : Beneficiaries, edition : Revisions]

Ops  == DOMAIN Transitions \cup {"draft", "revise", "amend"}
Idle == [op |-> "idle"]
\* A command under way: the row it will move, the version its client named, the
\* row as read, the content it will file, the revision its client named.
Call == [op : Ops, on : Rows, expected : Nat, was : RowType,
         filing : Contents \cup {NoContent}, naming : Nat]

Init ==
    /\ row = [x \in Rows |->
                IF x = Business THEN [status |-> "pending", edition |-> 0, version |-> 1]
                ELSE [status |-> "none", edition |-> 0, version |-> 0]]
    /\ content = [r \in Requests |-> [n \in Revisions |-> NoContent]]
    /\ named = [r \in Requests |-> 0]
    /\ doing = [c \in Clients |-> Idle]

-----------------------------------------------------------------------------
\* A command starts: it has read row x for a client shown version e of it.
Begin(c, op, x, e, filing, naming) ==
    /\ doing[c] = Idle
    /\ doing' = [doing EXCEPT ![c] =
         [op |-> op, on |-> x, expected |-> e, was |-> row[x],
          filing |-> filing, naming |-> naming]]
    /\ UNCHANGED <<row, content, named>>

ShownOf(x) == 1 .. row[x].version

\* Mutation of CompareAndSwap: the update names the row only.
SwapWhatever(x, e, status, edition) ==
    row' = [row EXCEPT ![x] =
              [status |-> status, edition |-> edition, version |-> row[x].version + 1]]

\* The update holds its own predicate: it applies to the version named, or to none.
CompareAndSwap(x, e, status, edition) ==
    /\ row[x].version = e /\ e < MaxVersion[x]
    /\ row' = [row EXCEPT ![x] =
                 [status |-> status, edition |-> edition, version |-> e + 1]]

Return(c)  == doing' = [doing EXCEPT ![c] = Idle]
Abandon(c) == doing[c] # Idle /\ Return(c) /\ UNCHANGED <<row, content, named>>

Operable == row[Business].status = "active"

\* The revision a client's terms make: the payee's identity is copied as it stands.
SnapshotOf(t, b) == [terms |-> t, payee |-> b, edition |-> row[b].edition]

-----------------------------------------------------------------------------
CreateDraftReads(c, r, t, b) ==
    /\ Operable
    /\ row[b].status = "active"
    /\ row[r].status = "none"
    /\ Begin(c, "draft", r, 0, SnapshotOf(t, b), 0)

\* Request, revision 1 and the pointer to it, in one transaction.
CreateDraft(c) ==
    /\ doing[c].op = "draft"
    /\ LET r == doing[c].on IN
         /\ row[r].status = "none"
         /\ row' = [row EXCEPT ![r] = [status |-> "draft", edition |-> 1, version |-> 1]]
         /\ content' = [content EXCEPT ![r][1] = doing[c].filing]
    /\ Return(c)
    /\ UNCHANGED named

SubmitReads(c, r, e) ==
    /\ row[r].status \in Correctable
    /\ Operable
    /\ Begin(c, "submit", r, e, NoContent, 0)

\* Mutation of CancelRequestReads: one column for trader and centre alike.
CancelReadsOneRule(c, r, e) ==
    /\ row[r].status \in Cancellable
    /\ Begin(c, "cancel", r, e, NoContent, 0)

CancelRequestReads(c, r, e) ==
    /\ row[r].status \in Cancellable
    /\ c \in TraderUsers => row[r].status \in TraderMayCancel
    /\ Begin(c, "cancel", r, e, NoContent, 0)

\* start_review and request_correction.
ReviewReads(c, r, e, op) ==
    /\ c \in Staff
    /\ row[r].status \in Transitions[op].from
    /\ Begin(c, op, r, e, NoContent, 0)

\* Mutation of MarkEligibleReads: the page may show an older revision.
MarkEligibleUnnamed(c, r, e, n) ==
    /\ c \in Staff
    /\ row[r].status \in Transitions["mark_eligible"].from
    /\ Begin(c, "mark_eligible", r, e, NoContent, n)

\* The revision named is the current one when it is read.
MarkEligibleReads(c, r, e, n) ==
    /\ c \in Staff
    /\ row[r].edition = n
    /\ row[r].status \in Transitions["mark_eligible"].from
    /\ Begin(c, "mark_eligible", r, e, NoContent, n)

\* The correction differs from the revision it corrects.
CreateRevisionReads(c, r, e, t, b) ==
    /\ row[r].status \in Correctable
    /\ Operable
    /\ row[b].status = "active"
    /\ row[r].edition < MaxRevisions
    /\ content[r][row[r].edition] # SnapshotOf(t, b)
    /\ Begin(c, "revise", r, e, SnapshotOf(t, b), 0)

\* UNIQUE (payment_request_id, revision_number) and (payment_request_id, content_hash).
Fileable(r, n, filing) ==
    content[r][n] = NoContent /\ \A k \in Revisions : content[r][k] # filing

\* Mutation of CreateRevision: the insert is committed before the swap.
CreateRevisionCommitted(c) ==
    /\ doing[c].op = "revise"
    /\ LET d == doing[c]
           n == d.was.edition + 1
       IN  /\ Fileable(d.on, n, d.filing)
           /\ content' = [content EXCEPT ![d.on][n] = d.filing]
           /\ \/ CompareAndSwap(d.on, d.expected, row[d.on].status, n)
              \/ row[d.on].version # d.expected /\ UNCHANGED row
    /\ Return(c)
    /\ UNCHANGED named

\* The row is inserted before the swap; a lost swap takes it back.  The status stays.
CreateRevision(c) ==
    /\ doing[c].op = "revise"
    /\ LET d == doing[c]
           n == d.was.edition + 1
       IN  /\ Fileable(d.on, n, d.filing)
           /\ content' = [content EXCEPT ![d.on][n] = d.filing]
           /\ CompareAndSwap(d.on, d.expected, row[d.on].status, n)
    /\ Return(c)
    /\ UNCHANGED named

-----------------------------------------------------------------------------
CreateBeneficiary(b) ==
    /\ row[b].status = "none"
    /\ row' = [row EXCEPT ![b] = [status |-> "active", edition |-> 1, version |-> 1]]
    /\ UNCHANGED <<content, named, doing>>

UpdateBeneficiaryReads(c, b, e) ==
    /\ row[b].status = "active"
    /\ Begin(c, "amend", b, e, NoContent, 0)

\* A change of a name, an IBAN or a national id is a new edition; a phone number is not.
UpdateBeneficiary(c) ==
    /\ doing[c].op = "amend"
    /\ LET d == doing[c] IN
         \E n \in {row[d.on].edition, row[d.on].edition + 1} \cap Revisions :
           CompareAndSwap(d.on, d.expected, row[d.on].status, n)
    /\ Return(c)
    /\ UNCHANGED <<content, named>>

DeactivateBeneficiaryReads(c, b, e) ==
    /\ row[b].status \in Transitions["deactivate"].from
    /\ Begin(c, "deactivate", b, e, NoContent, 0)

\* approve, reject, suspend and reactivate.
DecideReads(c, e, op) ==
    /\ c \in Staff
    /\ row[Business].status \in Transitions[op].from
    /\ Begin(c, op, Business, e, NoContent, 0)

\* The write of every command of Transitions.
Move(c) ==
    /\ doing[c].op \in DOMAIN Transitions
    /\ LET d == doing[c] IN
         /\ CompareAndSwap(d.on, d.expected, Transitions[d.op].to, row[d.on].edition)
         /\ named' = IF d.op = "mark_eligible" THEN [named EXCEPT ![d.on] = d.naming]
                     ELSE named
    /\ Return(c)
    /\ UNCHANGED content

-----------------------------------------------------------------------------
Requesting(c) ==
    \E r \in Requests :
        \/ \E t \in Terms, b \in Beneficiaries : CreateDraftReads(c, r, t, b)
        \/ \E e \in ShownOf(r) :
             \/ SubmitReads(c, r, e)
             \/ CancelRequestReads(c, r, e)
             \/ \E op \in Reviews : ReviewReads(c, r, e, op)
             \/ \E n \in Revisions : MarkEligibleReads(c, r, e, n)
             \/ \E t \in Terms, b \in Beneficiaries : CreateRevisionReads(c, r, e, t, b)

Maintaining(c) ==
    \/ \E b \in Beneficiaries : \E e \in ShownOf(b) :
         UpdateBeneficiaryReads(c, b, e) \/ DeactivateBeneficiaryReads(c, b, e)
    \/ \E e \in ShownOf(Business), op \in Decisions : DecideReads(c, e, op)

Next ==
    \/ \E c \in Clients :
         \/ Requesting(c)
         \/ Maintaining(c)
         \/ CreateDraft(c)
         \/ CreateRevision(c)
         \/ UpdateBeneficiary(c)
         \/ Move(c)
         \/ Abandon(c)
    \/ \E b \in Beneficiaries : CreateBeneficiary(b)

Spec == Init /\ [][Next]_vars

-----------------------------------------------------------------------------
TypeOK ==
    /\ row \in [Rows -> RowType]
    /\ content \in [Requests -> [Revisions -> Contents \cup {NoContent}]]
    /\ named \in [Requests -> Nat]
    /\ doing \in [Clients -> {Idle} \cup Call]

\* The revisions of a request are the ones up to the one it points at, no two of
\* them alike: a correction that lost its swap leaves nothing behind, though it
\* was inserted first (create_revision flushes before compare_and_swap).
RevisionsInOrder ==
    \A r \in Requests :
        /\ \A n \in Revisions : content[r][n] # NoContent <=> n <= row[r].edition
        /\ \A m, n \in 1 .. row[r].edition : content[r][m] = content[r][n] => m = n

\* What goes to batching is the revision the accountant's page named, not one the
\* trader filed meanwhile (mark_eligible_for_batching reads both unlocked).
EligibleIsWhatWasNamed ==
    \A r \in Requests :
        row[r].status = "eligible_for_batching" => named[r] = row[r].edition

\* A trader does not pull a request out from under the accountant reading it
\* (CANCELLABLE), even when the cancellation began before the review did.
AccountantKeepsTheRequest ==
    [][\A r \in Requests, c \in TraderUsers :
         row[r].status = "under_accountant_review" /\ row'[r].status = "cancelled"
           => doing'[c] = doing[c]]_vars

-----------------------------------------------------------------------------
(* What makes them inductive. *)

RequestOps     == {"draft", "revise", "submit", "cancel", "mark_eligible"} \cup Reviews
BeneficiaryOps == {"amend", "deactivate"}

\* Each row has a status of its kind, and an edition once it exists.
RowsFit ==
    /\ \A r \in Requests : row[r].status \in RequestStatuses
    /\ \A b \in Beneficiaries : row[b].status \in BeneficiaryStatuses
    /\ row[Business].status \in BusinessStatuses
    /\ \A x \in Requests \cup Beneficiaries :
         IF row[x].status = "none" THEN row[x].edition = 0 /\ row[x].version = 0
         ELSE row[x].edition \in Revisions /\ row[x].version > 0

\* What a command of client c read let it go on.
Justified(c, d) ==
    /\ d.op \in RequestOps => d.on \in Requests
    /\ d.op \in BeneficiaryOps => d.on \in Beneficiaries
    /\ d.op \in Decisions => d.on = Business
    /\ d.op # "draft" => d.expected <= d.was.version
    /\ d.op \in DOMAIN Transitions => d.was.status \in Transitions[d.op].from
    /\ d.op = "cancel" /\ c \in TraderUsers => d.was.status \in TraderMayCancel
    /\ d.op = "mark_eligible" => d.naming = d.was.edition
    /\ d.op \in {"draft", "revise"} => d.filing \in Contents
    /\ d.op = "revise" => d.was.status \in Correctable /\ d.was.edition < MaxRevisions
    /\ d.op = "amend" => d.was.status = "active"

\* A row that still has the version a command read is still the row it read.
StillAsRead(d) ==
    /\ d.was.version <= row[d.on].version
    /\ d.was.version = row[d.on].version => d.was = row[d.on]

CallsFit ==
    \A c \in Clients : doing[c] # Idle => Justified(c, doing[c]) /\ StillAsRead(doing[c])

Inv == TypeOK /\ RevisionsInOrder /\ EligibleIsWhatWasNamed /\ RowsFit /\ CallsFit

-----------------------------------------------------------------------------
Lifecycle == INSTANCE RequestLifecycle WITH
    status  <- [x \in Rows |-> row[x].status],
    edition <- [x \in Rows |-> row[x].edition]

\* Reading and swapping in two steps implements commands that happen at an
\* instant: compare_and_swap on the client's version covers what was read before.
ImplementsLifecycle == Lifecycle!RLSpec
=============================================================================
