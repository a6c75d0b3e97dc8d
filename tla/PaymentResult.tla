---------------------------- MODULE PaymentResult ----------------------------
(***************************************************************************)
(* What the bank answered, what is tried again, and what the trader is     *)
(* told: the commands of app/commands/payment_result.py, payment_retry.py, *)
(* payment_publication.py, publication_correction.py and trader_result.py, *)
(* and payment_request.cancel_request beside them.                         *)
(*                                                                         *)
(* Every one of them but the cancellation holds the request row FOR UPDATE *)
(* while it reads and writes that request and its attempts, so a commit is *)
(* one action.  Two are not atomic.  confirm_paid also reads the attempts  *)
(* of OTHER requests, looking for its tracking number, and nothing locks   *)
(* those: its checks and its commit are two actions.  cancel_request reads *)
(* the status without a lock and then compares and swaps record_version,   *)
(* which only some of these commands move: two actions again.              *)
(*                                                                         *)
(* An action that may be refused for reasons not modelled (permissions, a  *)
(* stale If-Match header, a privacy review not done) simply need not       *)
(* happen.                                                                 *)
(***************************************************************************)
EXTENDS Naturals

CONSTANTS
    Requests,         \* payment requests, past accountant review at the start
    Attempts,         \* identifiers for payment_attempts rows
    RequestOf,        \* the request each attempt pays
    AmountOf,         \* amount_irr of each attempt
    Requested,        \* amount_irr of each request's current revision
    TotalOf,          \* the sum of AmountOf over each set of attempts
    TrackingNumbers,  \* bank tracking numbers
    Segments,         \* receipt segments a publication may show
    Null              \* the NULL of a nullable column

ASSUME DataAssumption ==
    /\ RequestOf \in [Attempts -> Requests]
    /\ AmountOf \in [Attempts -> Nat \ {0}]
    /\ Requested \in [Requests -> Nat \ {0}]
    /\ Null \notin Attempts \cup TrackingNumbers \cup Segments
    /\ Null \notin [paid: SUBSET Attempts, failed: SUBSET Attempts,
                    segment: Segments \cup {Null}]

\* TotalOf is the sum: how a set of attempts grows decides it for every finite set.
ASSUME SumAssumption ==
    /\ TotalOf \in [SUBSET Attempts -> Nat]
    /\ TotalOf[{}] = 0
    /\ \A S \in SUBSET Attempts : \A a \in Attempts \ S :
         TotalOf[S \cup {a}] = TotalOf[S] + AmountOf[a]

VARIABLES
    attStatus,   \* payment_attempts.status, "none" before the row exists
    tracking,    \* payment_attempts.bank_tracking_number
    retryOf,     \* payment_attempts.retry_of_attempt_id
    discrepant,  \* attempts a payment_result_discrepancy task was opened for
    confirming,  \* the tracking number a confirm_paid in flight has checked
    reqStatus,   \* payment_requests.status
    swapped,     \* requests whose record_version moved since the review
    cancelling,  \* requests some cancellation in flight has read as eligible
    active,      \* the active payment_result_publications row of each request
    superseded   \* the superseded ones

attVars == <<attStatus, tracking, retryOf, discrepant, confirming>>
reqVars == <<reqStatus, swapped, cancelling>>
pubVars == <<active, superseded>>
vars    == <<attVars, reqVars, pubVars>>

AttemptStatuses == {"none", "created", "included_in_batch_version", "sent_to_bank",
                    "paid", "failed", "retry_required", "superseded"}
\* The request has a result the trader was told of.
Published == {"result_published", "trader_acknowledged", "trader_disputed"}
\* The whole amount was covered when the status was written.
Settled == {"paid", "result_ready_for_trader"} \cup Published
RequestStatuses == {"eligible_for_batching", "cancelled", "partially_paid"} \cup Settled

\* What a publication's snapshot says; its hash is unique for the request.
Publications == [paid: SUBSET Attempts, failed: SUBSET Attempts,
                 segment: Segments \cup {Null}]

TypeOK ==
    /\ attStatus \in [Attempts -> AttemptStatuses]
    /\ tracking \in [Attempts -> TrackingNumbers \cup {Null}]
    /\ retryOf \in [Attempts -> Attempts \cup {Null}]
    /\ discrepant \subseteq Attempts
    /\ confirming \in [Attempts -> TrackingNumbers \cup {Null}]
    /\ reqStatus \in [Requests -> RequestStatuses]
    /\ swapped \subseteq Requests
    /\ cancelling \subseteq Requests
    /\ active \in [Requests -> Publications \cup {Null}]
    /\ superseded \in [Requests -> SUBSET Publications]

Init ==
    /\ attStatus = [a \in Attempts |-> "none"]
    /\ tracking = [a \in Attempts |-> Null]
    /\ retryOf = [a \in Attempts |-> Null]
    /\ discrepant = {}
    /\ confirming = [a \in Attempts |-> Null]
    /\ reqStatus = [r \in Requests |-> "eligible_for_batching"]
    /\ swapped = {}
    /\ cancelling = {}
    /\ active = [r \in Requests |-> Null]
    /\ superseded = [r \in Requests |-> {}]

AttemptsOf(r)   == {a \in Attempts : RequestOf[a] = r}
PaidAttempts(r) == {a \in AttemptsOf(r) : attStatus[a] = "paid"}
PaidSum(r)      == TotalOf[PaidAttempts(r)]

\* Somebody holds the request row FOR UPDATE (between two of our actions only a
\* confirm_paid does).
Locked(r) == \E a \in AttemptsOf(r) : confirming[a] # Null

-----------------------------------------------------------------------------
(* What the batches do to attempts: module PaymentBatching has the details. *)

\* A version of some batch includes fresh attempts that together pay the request.
\* Nothing asks whether other attempts of it are under way.
IncludeInBatch(r, S) ==
    /\ reqStatus[r] = "eligible_for_batching"
    /\ \A a \in S : attStatus[a] = "none" /\ RequestOf[a] = r
    /\ TotalOf[S] = Requested[r]
    /\ attStatus' = [a \in Attempts |-> IF a \in S THEN "included_in_batch_version"
                                                   ELSE attStatus[a]]
    /\ UNCHANGED <<tracking, retryOf, discrepant, confirming, reqVars, pubVars>>

\* The final export of a version is marked sent, and its attempts with it.
MarkSent(S) ==
    /\ S # {} /\ \A a \in S : attStatus[a] = "included_in_batch_version"
    /\ attStatus' = [a \in Attempts |-> IF a \in S THEN "sent_to_bank" ELSE attStatus[a]]
    /\ UNCHANGED <<tracking, retryOf, discrepant, confirming, reqVars, pubVars>>

-----------------------------------------------------------------------------
(* Results. *)

\* Mutation of NoDuplicateTrackingNumber: no attempt is asked.
AnyTrackingNumber(a, n) == n # Null

\* "One bank transaction pays one attempt", as far as this transaction can see.
NoDuplicateTrackingNumber(a, n) ==
    \A b \in Attempts \ {a} : ~(attStatus[b] = "paid" /\ tracking[b] = n)

\* confirm_paid up to the comparison with the requested amount: both locks are
\* taken and every check has been made.
CheckPaid(a, n) ==
    /\ ~Locked(RequestOf[a])
    /\ attStatus[a] = "sent_to_bank"
    /\ NoDuplicateTrackingNumber(a, n)
    /\ confirming' = [confirming EXCEPT ![a] = n]
    /\ UNCHANGED <<attStatus, tracking, retryOf, discrepant, reqVars, pubVars>>

\* Mutation of Recalculated: an unchanged sum still rewrites the status.
RecalculatedAlways(r, paid) ==
    IF paid = Requested[r] THEN "paid" ELSE "partially_paid"

\* The request's status from the sum of its paid attempts.
Recalculated(r, paid) ==
    IF paid = 0 THEN reqStatus[r]
    ELSE IF paid = Requested[r] THEN "paid" ELSE "partially_paid"

\* Mutation of Overpays: the attempt alone is compared with the request.
OverpaysAlone(a) == AmountOf[a] > Requested[RequestOf[a]]

\* Mutation of Overpays: what exactly covers the request is refused too.
OverpaysOrCovers(a) == PaidSum(RequestOf[a]) + AmountOf[a] >= Requested[RequestOf[a]]

Overpays(a) == PaidSum(RequestOf[a]) + AmountOf[a] > Requested[RequestOf[a]]

\* The overpayment is refused and its task committed; otherwise the attempt is
\* paid and the request's status follows the new sum.
ConfirmPaid(a) ==
    LET r == RequestOf[a] IN
    /\ confirming[a] # Null
    /\ \/ /\ Overpays(a)
          /\ discrepant' = discrepant \cup {a}
          /\ UNCHANGED <<attStatus, tracking, reqStatus>>
       \/ /\ ~Overpays(a)
          /\ attStatus' = [attStatus EXCEPT ![a] = "paid"]
          /\ tracking' = [tracking EXCEPT ![a] = confirming[a]]
          /\ reqStatus' = [reqStatus EXCEPT ![r] = Recalculated(r, PaidSum(r) + AmountOf[a])]
          /\ UNCHANGED discrepant
    /\ confirming' = [confirming EXCEPT ![a] = Null]
    /\ UNCHANGED <<retryOf, swapped, cancelling, pubVars>>

\* The transaction is rolled back instead: a stale expected version, or a crash.
AbandonConfirmation(a) ==
    /\ confirming[a] # Null
    /\ confirming' = [confirming EXCEPT ![a] = Null]
    /\ UNCHANGED <<attStatus, tracking, retryOf, discrepant, reqVars, pubVars>>

\* Mutation of ConfirmFailed: a failure can overwrite a payment.
ConfirmFailedEvenIfPaid(a) ==
    LET r == RequestOf[a] IN
    /\ ~Locked(r)
    /\ attStatus[a] \in {"sent_to_bank", "paid"}
    /\ attStatus' = [attStatus EXCEPT ![a] = "failed"]
    /\ reqStatus' = [reqStatus EXCEPT ![r] = Recalculated(r, PaidSum(r))]
    /\ UNCHANGED <<tracking, retryOf, discrepant, confirming, swapped, cancelling, pubVars>>

ConfirmFailed(a) ==
    LET r == RequestOf[a] IN
    /\ ~Locked(r)
    /\ attStatus[a] = "sent_to_bank"
    /\ attStatus' = [attStatus EXCEPT ![a] = "failed"]
    /\ reqStatus' = [reqStatus EXCEPT ![r] = Recalculated(r, PaidSum(r))]
    /\ UNCHANGED <<tracking, retryOf, discrepant, confirming, swapped, cancelling, pubVars>>

MarkRetryRequired(a) ==
    /\ attStatus[a] = "failed"
    /\ attStatus' = [attStatus EXCEPT ![a] = "retry_required"]
    /\ UNCHANGED <<tracking, retryOf, discrepant, confirming, reqVars, pubVars>>

\* Mutation of CreateRetryAttempt: the original keeps its status.
CreateRetryAndKeepOriginal(a, x) ==
    /\ ~Locked(RequestOf[a])
    /\ attStatus[a] = "retry_required"
    /\ attStatus[x] = "none" /\ RequestOf[x] = RequestOf[a]
    /\ attStatus' = [attStatus EXCEPT ![x] = "created"]
    /\ retryOf' = [retryOf EXCEPT ![x] = a]
    /\ UNCHANGED <<tracking, discrepant, confirming, reqVars, pubVars>>

\* The retry is created and its original retired at once.  No batch command ever
\* includes an attempt it did not create itself, so the retry stays as it is.
CreateRetryAttempt(a, x) ==
    /\ ~Locked(RequestOf[a])
    /\ attStatus[a] = "retry_required"
    /\ attStatus[x] = "none" /\ RequestOf[x] = RequestOf[a]
    /\ attStatus' = [attStatus EXCEPT ![a] = "superseded", ![x] = "created"]
    /\ retryOf' = [retryOf EXCEPT ![x] = a]
    /\ UNCHANGED <<tracking, discrepant, confirming, reqVars, pubVars>>

-----------------------------------------------------------------------------
(* The request is withdrawn. *)

CancelReads(r) ==
    /\ reqStatus[r] = "eligible_for_batching"
    /\ cancelling' = cancelling \cup {r}
    /\ UNCHANGED <<attVars, reqStatus, swapped, pubVars>>

\* The swap waits for the row and then compares the version alone.
CancelCommits(r) ==
    /\ r \in cancelling
    /\ ~Locked(r)
    /\ r \notin swapped
    /\ reqStatus' = [reqStatus EXCEPT ![r] = "cancelled"]
    /\ swapped' = swapped \cup {r}
    /\ cancelling' = cancelling \ {r}
    /\ UNCHANGED <<attVars, pubVars>>

-----------------------------------------------------------------------------
(* The trader is told. *)

\* _snapshot: every attempt with a result, and the segment shown as evidence.
Snapshot(r, s) ==
    [paid    |-> PaidAttempts(r),
     failed  |-> {a \in AttemptsOf(r) : attStatus[a] = "failed"},
     segment |-> s]

PreviewPublication(r) ==
    /\ ~Locked(r)
    /\ reqStatus[r] \in {"paid", "result_ready_for_trader"}
    /\ PaidAttempts(r) # {}
    /\ reqStatus' = [reqStatus EXCEPT ![r] = "result_ready_for_trader"]
    /\ UNCHANGED <<attVars, swapped, cancelling, pubVars>>

\* Mutation of PublishResult: a part of the amount will do.
PublishPartlyPaid(r, s) ==
    /\ ~Locked(r)
    /\ reqStatus[r] \in {"partially_paid", "result_ready_for_trader"}
    /\ PaidAttempts(r) # {}
    /\ active[r] = Null
    /\ Snapshot(r, s) \notin superseded[r]
    /\ active' = [active EXCEPT ![r] = Snapshot(r, s)]
    /\ reqStatus' = [reqStatus EXCEPT ![r] = "result_published"]
    /\ swapped' = swapped \cup {r}
    /\ UNCHANGED <<attVars, cancelling, superseded>>

\* Refused by the uniques if a publication is active or says the same.
PublishResult(r, s) ==
    /\ ~Locked(r)
    /\ reqStatus[r] = "result_ready_for_trader"
    /\ PaidAttempts(r) # {}
    /\ active[r] = Null
    /\ Snapshot(r, s) \notin superseded[r]
    /\ active' = [active EXCEPT ![r] = Snapshot(r, s)]
    /\ reqStatus' = [reqStatus EXCEPT ![r] = "result_published"]
    /\ swapped' = swapped \cup {r}
    /\ UNCHANGED <<attVars, cancelling, superseded>>

\* acknowledge_result and dispute_result differ in the status they write.
Respond(r, answer) ==
    /\ ~Locked(r)
    /\ reqStatus[r] = "result_published"
    /\ active[r] # Null
    /\ reqStatus' = [reqStatus EXCEPT ![r] = answer]
    /\ swapped' = swapped \cup {r}
    /\ UNCHANGED <<attVars, cancelling, pubVars>>

\* Publication N is superseded and N+1 inserted; the request is written without
\* a compare-and-swap, so its version stays.
CorrectPublishedResult(r, s) ==
    /\ ~Locked(r)
    /\ reqStatus[r] \in Published
    /\ active[r] # Null
    /\ Snapshot(r, s) \notin superseded[r] \cup {active[r]}
    /\ superseded' = [superseded EXCEPT ![r] = @ \cup {active[r]}]
    /\ active' = [active EXCEPT ![r] = Snapshot(r, s)]
    /\ reqStatus' = [reqStatus EXCEPT ![r] = "result_published"]
    /\ UNCHANGED <<attVars, swapped, cancelling>>

-----------------------------------------------------------------------------
Next ==
    \/ \E r \in Requests, S \in SUBSET Attempts : IncludeInBatch(r, S)
    \/ \E S \in SUBSET Attempts : MarkSent(S)
    \/ \E a \in Attempts, n \in TrackingNumbers : CheckPaid(a, n)
    \/ \E a \in Attempts : ConfirmPaid(a) \/ AbandonConfirmation(a) \/ ConfirmFailed(a)
    \/ \E a \in Attempts : MarkRetryRequired(a)
    \/ \E a, x \in Attempts : CreateRetryAttempt(a, x)
    \/ \E r \in Requests : CancelReads(r) \/ CancelCommits(r) \/ PreviewPublication(r)
    \/ \E r \in Requests, s \in Segments \cup {Null} : PublishResult(r, s)
    \/ \E r \in Requests, answer \in {"trader_acknowledged", "trader_disputed"} :
         Respond(r, answer)
    \/ \E r \in Requests, s \in Segments : CorrectPublishedResult(r, s)

Spec == Init /\ [][Next]_vars

-----------------------------------------------------------------------------
(* Safety. *)

\* No interleaving of confirmations, failures, retries and cancellations records
\* more money as moved than the request asked for.
PaidWithinRequested == \A r \in Requests : PaidSum(r) <= Requested[r]

\* The status every screen and every later command reads is never at odds with the
\* attempts: a settled one means the paid sum is the requested amount exactly, a
\* partial one that it is between, an eligible one that nothing was paid.
StatusMatchesLedger ==
    \A r \in Requests :
        /\ reqStatus[r] \in Settled => PaidSum(r) = Requested[r]
        /\ reqStatus[r] = "partially_paid" => PaidSum(r) \in 1 .. Requested[r] - 1
        /\ reqStatus[r] = "eligible_for_batching" => PaidSum(r) = 0

\* An overpayment that was refused stays one: the attempt is never counted as paid
\* later, so its reconciliation task never becomes moot by itself.
DiscrepanciesStand ==
    \A a \in discrepant :
        /\ attStatus[a] # "paid"
        /\ PaidSum(RequestOf[a]) + AmountOf[a] > Requested[RequestOf[a]]

\* A failed attempt is retried at most once, by an attempt of its own request, and
\* it is retired if and only if its retry exists: money is never tried again twice.
RetryLineage ==
    /\ \A a \in Attempts : attStatus[a] = "superseded" <=> \E x \in Attempts : retryOf[x] = a
    /\ \A x \in Attempts : retryOf[x] # Null =>
         /\ RequestOf[x] = RequestOf[retryOf[x]]
         /\ attStatus[x] = "created"
         /\ \A y \in Attempts : retryOf[y] = retryOf[x] => y = x

\* Within a request, one bank transaction pays one attempt: the request's row lock
\* spans the check and the commit.  (Across requests it does not: see below.)
TrackingDistinctWithinRequest ==
    \A a, b \in Attempts :
        /\ a # b /\ RequestOf[a] = RequestOf[b]
        /\ attStatus[a] = "paid"
        => /\ attStatus[b] = "paid" => tracking[a] # tracking[b]
           /\ confirming[b] # Null => tracking[a] # confirming[b]

\* Every publication a trader ever saw, corrected ones included, names exactly the
\* attempts that paid the request in full, and a request whose status says a result
\* was published has one in force.
ToldWhatWasPaid ==
    \A r \in Requests :
        /\ \A p \in superseded[r] \cup ({active[r]} \ {Null}) :
             p.paid = PaidAttempts(r) /\ PaidSum(r) = Requested[r]
        /\ superseded[r] # {} => active[r] # Null
        /\ active[r] \notin superseded[r]
        /\ reqStatus[r] \in Published => active[r] # Null

\* What a confirmation in flight relies on: it holds its request alone, and its
\* attempt stays as it read it.
ConfirmationsHoldTheRow ==
    \A a \in Attempts : confirming[a] # Null =>
        /\ attStatus[a] = "sent_to_bank"
        /\ \A b \in AttemptsOf(RequestOf[a]) : confirming[b] # Null => b = a

\* The conjunction is inductive: proved in PaymentResult_proofs.
Inv ==
    /\ TypeOK
    /\ ConfirmationsHoldTheRow
    /\ PaidWithinRequested
    /\ StatusMatchesLedger
    /\ DiscrepanciesStand
    /\ RetryLineage
    /\ TrackingDistinctWithinRequest
    /\ ToldWhatWasPaid

-----------------------------------------------------------------------------
(* The promise the rows implement. *)

OutcomeOf == [none |-> "open", created |-> "open", included_in_batch_version |-> "open",
              sent_to_bank |-> "open", paid |-> "paid", failed |-> "failed",
              retry_required |-> "failed", superseded |-> "failed"]

ST == INSTANCE Settlement WITH
        Orders <- Requests, Payments <- Attempts,
        OrderOf <- RequestOf, Due <- Requested, Total <- TotalOf,
        outcome <- [a \in Attempts |-> OutcomeOf[attStatus[a]]],
        told <- [r \in Requests |-> IF active[r] = Null THEN {} ELSE active[r].paid]

\* Every execution of the result commands is one of the settlement promise: outcomes
\* are final, and traders are told once the request is covered.
ImplementsSettlement == ST!STSpec

-----------------------------------------------------------------------------
(* What the code or the documents say and the commands do not keep.  TLC       *)
(* refutes each: section 4 of README.md.                                       *)

\* One bank transaction pays one attempt, whichever requests they belong to.
DistinctTracking ==
    \A a, b \in Attempts :
        a # b /\ attStatus[a] = "paid" /\ attStatus[b] = "paid" => tracking[a] # tracking[b]

\* A request whose money has moved is not cancelled.
PaidRequestNotCancelled ==
    [][\A r \in Requests : reqStatus[r] \in Settled => reqStatus'[r] # "cancelled"]_vars

=============================================================================
