------------------------ MODULE PaymentResult_proofs ------------------------
(***************************************************************************)
(* Proofs about PaymentResult, for any sets of requests and attempts, any  *)
(* amounts and any sum: its invariant is inductive, and its executions are *)
(* executions of Settlement.                                               *)
(*                                                                         *)
(* The argument: while a request is settled nothing more can be paid, as   *)
(* any further amount would exceed what was asked for.  So the paid        *)
(* attempts a publication names never change under it, and every action    *)
(* but the commit of confirm_paid leaves every paid sum as it was.         *)
(***************************************************************************)
EXTENDS PaymentResult, TLAPS

\* A sum grows by the amount of what joins the set, and is a number.
LEMMA SumGrows ==
    ASSUME NEW S \in SUBSET Attempts, NEW a \in Attempts \ S
    PROVE  /\ TotalOf[S \cup {a}] = TotalOf[S] + AmountOf[a]
           /\ TotalOf[S] \in Nat
           /\ AmountOf[a] \in Nat \ {0}
BY SumAssumption, DataAssumption

\* What the request owes and what was paid of it are numbers.
LEMMA SumsAreNumbers ==
    ASSUME NEW r \in Requests
    PROVE  PaidSum(r) \in Nat /\ Requested[r] \in Nat \ {0}
BY SumAssumption, DataAssumption DEF PaidSum, PaidAttempts, AttemptsOf

\* The state the program starts in satisfies the invariant.
LEMMA InitInv == Init => Inv
<1> SUFFICES ASSUME Init PROVE Inv
    OBVIOUS
<1> USE DEF Init
<1>1. TypeOK
      BY DataAssumption DEF TypeOK, AttemptStatuses, RequestStatuses, Settled, Published
<1>2. \A r \in Requests : PaidAttempts(r) = {} /\ PaidSum(r) = 0
      BY SumAssumption DEF PaidSum, PaidAttempts, AttemptsOf
<1>3. ConfirmationsHoldTheRow
      BY DEF ConfirmationsHoldTheRow
<1>4. PaidWithinRequested
  <2>1. ASSUME NEW r \in Requests PROVE PaidSum(r) <= Requested[r]
    <3>1. PaidSum(r) = 0 /\ Requested[r] \in Nat
          BY <1>2, SumsAreNumbers
    <3>2. QED
          BY <3>1
  <2>2. QED
        BY <2>1 DEF PaidWithinRequested
<1>5. StatusMatchesLedger
      BY <1>2 DEF StatusMatchesLedger, Settled, Published
<1>6. DiscrepanciesStand
      BY DEF DiscrepanciesStand
<1>7. RetryLineage
      BY DataAssumption DEF RetryLineage
<1>8. TrackingDistinctWithinRequest
      BY DEF TrackingDistinctWithinRequest
<1>9. ToldWhatWasPaid
      BY DEF ToldWhatWasPaid, Published
<1>10. QED
      BY <1>1, <1>3, <1>4, <1>5, <1>6, <1>7, <1>8, <1>9 DEF Inv

\* A version includes attempts of a request: none of them is paid.
LEMMA IncludeInBatchKeeps ==
    ASSUME Inv, NEW r \in Requests, NEW S \in SUBSET Attempts, IncludeInBatch(r, S)
    PROVE  Inv'
<1> USE DEF Inv
<1>1. \A o \in Requests : PaidAttempts(o)' = PaidAttempts(o) /\ PaidSum(o)' = PaidSum(o)
      BY DEF PaidSum, PaidAttempts, AttemptsOf, TypeOK, IncludeInBatch, attVars,
         reqVars, pubVars
<1>2. \A o \in Requests : PaidSum(o) \in Nat /\ Requested[o] \in Nat \ {0}
      BY SumsAreNumbers
<1>3. TypeOK'
      BY DataAssumption DEF TypeOK, AttemptStatuses, RequestStatuses, Settled,
         Published, Publications, PaidAttempts, AttemptsOf, IncludeInBatch, attVars,
         reqVars, pubVars
<1>4. ConfirmationsHoldTheRow'
      BY DataAssumption DEF ConfirmationsHoldTheRow, AttemptsOf, TypeOK,
         IncludeInBatch, attVars, reqVars, pubVars
<1>5. PaidWithinRequested'
      BY <1>1 DEF PaidWithinRequested, IncludeInBatch, attVars, reqVars, pubVars
<1>6. StatusMatchesLedger'
      BY <1>1, <1>2, DataAssumption DEF StatusMatchesLedger, Settled, Published,
         TypeOK, IncludeInBatch, attVars, reqVars, pubVars
<1>7. DiscrepanciesStand'
      BY <1>1, DataAssumption DEF DiscrepanciesStand, TypeOK, IncludeInBatch, attVars,
         reqVars, pubVars
<1>8. RetryLineage'
      BY DataAssumption DEF RetryLineage, TypeOK, IncludeInBatch, attVars, reqVars,
         pubVars
<1>9. TrackingDistinctWithinRequest'
      BY DataAssumption DEF TrackingDistinctWithinRequest, ConfirmationsHoldTheRow,
         AttemptsOf, TypeOK, IncludeInBatch, attVars, reqVars, pubVars
<1>10. ToldWhatWasPaid'
      BY <1>1, DataAssumption DEF ToldWhatWasPaid, StatusMatchesLedger, Settled,
         Published, TypeOK, IncludeInBatch, attVars, reqVars, pubVars
<1>11. QED
      BY <1>3, <1>4, <1>5, <1>6, <1>7, <1>8, <1>9, <1>10 DEF Inv

\* Marking a file sent pays nothing.
LEMMA MarkSentKeeps ==
    ASSUME Inv, NEW S \in SUBSET Attempts, MarkSent(S)
    PROVE  Inv'
<1> USE DEF Inv
<1>1. \A o \in Requests : PaidAttempts(o)' = PaidAttempts(o) /\ PaidSum(o)' = PaidSum(o)
      BY DEF PaidSum, PaidAttempts, AttemptsOf, TypeOK, MarkSent, attVars, reqVars,
         pubVars
<1>2. \A o \in Requests : PaidSum(o) \in Nat /\ Requested[o] \in Nat \ {0}
      BY SumsAreNumbers
<1>3. TypeOK'
      BY DataAssumption DEF TypeOK, AttemptStatuses, RequestStatuses, Settled,
         Published, Publications, PaidAttempts, AttemptsOf, MarkSent, attVars, reqVars,
         pubVars
<1>4. ConfirmationsHoldTheRow'
      BY DataAssumption DEF ConfirmationsHoldTheRow, AttemptsOf, TypeOK, MarkSent,
         attVars, reqVars, pubVars
<1>5. PaidWithinRequested'
      BY <1>1 DEF PaidWithinRequested, MarkSent, attVars, reqVars, pubVars
<1>6. StatusMatchesLedger'
      BY <1>1, <1>2, DataAssumption DEF StatusMatchesLedger, Settled, Published,
         TypeOK, MarkSent, attVars, reqVars, pubVars
<1>7. DiscrepanciesStand'
      BY <1>1, DataAssumption DEF DiscrepanciesStand, TypeOK, MarkSent, attVars,
         reqVars, pubVars
<1>8. RetryLineage'
      BY DataAssumption DEF RetryLineage, TypeOK, MarkSent, attVars, reqVars, pubVars
<1>9. TrackingDistinctWithinRequest'
      BY DataAssumption DEF TrackingDistinctWithinRequest, ConfirmationsHoldTheRow,
         AttemptsOf, TypeOK, MarkSent, attVars, reqVars, pubVars
<1>10. ToldWhatWasPaid'
      BY <1>1, DataAssumption DEF ToldWhatWasPaid, StatusMatchesLedger, Settled,
         Published, TypeOK, MarkSent, attVars, reqVars, pubVars
<1>11. QED
      BY <1>3, <1>4, <1>5, <1>6, <1>7, <1>8, <1>9, <1>10 DEF Inv

\* The checks of confirm_paid: the number is new among this request's paid attempts.
LEMMA CheckPaidKeeps ==
    ASSUME Inv, NEW a \in Attempts, NEW n \in TrackingNumbers, CheckPaid(a, n)
    PROVE  Inv'
<1> USE DEF Inv
<1>1. \A o \in Requests : PaidAttempts(o)' = PaidAttempts(o) /\ PaidSum(o)' = PaidSum(o)
      BY DEF PaidSum, PaidAttempts, AttemptsOf, TypeOK, CheckPaid,
         NoDuplicateTrackingNumber, Locked, attVars, reqVars, pubVars
<1>2. \A o \in Requests : PaidSum(o) \in Nat /\ Requested[o] \in Nat \ {0}
      BY SumsAreNumbers
<1>3. TypeOK'
      BY DataAssumption DEF TypeOK, AttemptStatuses, RequestStatuses, Settled,
         Published, Publications, PaidAttempts, AttemptsOf, CheckPaid,
         NoDuplicateTrackingNumber, Locked, attVars, reqVars, pubVars
<1>4. ConfirmationsHoldTheRow'
      BY DataAssumption DEF ConfirmationsHoldTheRow, AttemptsOf, TypeOK, CheckPaid,
         NoDuplicateTrackingNumber, Locked, attVars, reqVars, pubVars
<1>5. PaidWithinRequested'
      BY <1>1 DEF PaidWithinRequested, CheckPaid, NoDuplicateTrackingNumber, Locked,
         attVars, reqVars, pubVars
<1>6. StatusMatchesLedger'
      BY <1>1, <1>2, DataAssumption DEF StatusMatchesLedger, Settled, Published,
         TypeOK, CheckPaid, NoDuplicateTrackingNumber, Locked, attVars, reqVars, pubVars
<1>7. DiscrepanciesStand'
      BY <1>1, DataAssumption DEF DiscrepanciesStand, TypeOK, CheckPaid,
         NoDuplicateTrackingNumber, Locked, attVars, reqVars, pubVars
<1>8. RetryLineage'
      BY DataAssumption DEF RetryLineage, TypeOK, CheckPaid,
         NoDuplicateTrackingNumber, Locked, attVars, reqVars, pubVars
<1>9. TrackingDistinctWithinRequest'
      BY DataAssumption DEF TrackingDistinctWithinRequest, ConfirmationsHoldTheRow,
         AttemptsOf, TypeOK, CheckPaid, NoDuplicateTrackingNumber, Locked, attVars,
         reqVars, pubVars
<1>10. ToldWhatWasPaid'
      BY <1>1, DataAssumption DEF ToldWhatWasPaid, StatusMatchesLedger, Settled,
         Published, TypeOK, CheckPaid, NoDuplicateTrackingNumber, Locked, attVars,
         reqVars, pubVars
<1>11. QED
      BY <1>3, <1>4, <1>5, <1>6, <1>7, <1>8, <1>9, <1>10 DEF Inv

\* A confirmation that is rolled back leaves what it found.
LEMMA AbandonConfirmationKeeps ==
    ASSUME Inv, NEW a \in Attempts, AbandonConfirmation(a)
    PROVE  Inv'
<1> USE DEF Inv
<1>1. \A o \in Requests : PaidAttempts(o)' = PaidAttempts(o) /\ PaidSum(o)' = PaidSum(o)
      BY DEF PaidSum, PaidAttempts, AttemptsOf, TypeOK, AbandonConfirmation, attVars,
         reqVars, pubVars
<1>2. \A o \in Requests : PaidSum(o) \in Nat /\ Requested[o] \in Nat \ {0}
      BY SumsAreNumbers
<1>3. TypeOK'
      BY DataAssumption DEF TypeOK, AttemptStatuses, RequestStatuses, Settled,
         Published, Publications, PaidAttempts, AttemptsOf, AbandonConfirmation, attVars,
         reqVars, pubVars
<1>4. ConfirmationsHoldTheRow'
      BY DataAssumption DEF ConfirmationsHoldTheRow, AttemptsOf, TypeOK,
         AbandonConfirmation, attVars, reqVars, pubVars
<1>5. PaidWithinRequested'
      BY <1>1 DEF PaidWithinRequested, AbandonConfirmation, attVars, reqVars, pubVars
<1>6. StatusMatchesLedger'
      BY <1>1, <1>2, DataAssumption DEF StatusMatchesLedger, Settled, Published,
         TypeOK, AbandonConfirmation, attVars, reqVars, pubVars
<1>7. DiscrepanciesStand'
      BY <1>1, DataAssumption DEF DiscrepanciesStand, TypeOK, AbandonConfirmation,
         attVars, reqVars, pubVars
<1>8. RetryLineage'
      BY DataAssumption DEF RetryLineage, TypeOK, AbandonConfirmation, attVars,
         reqVars, pubVars
<1>9. TrackingDistinctWithinRequest'
      BY DataAssumption DEF TrackingDistinctWithinRequest, ConfirmationsHoldTheRow,
         AttemptsOf, TypeOK, AbandonConfirmation, attVars, reqVars, pubVars
<1>10. ToldWhatWasPaid'
      BY <1>1, DataAssumption DEF ToldWhatWasPaid, StatusMatchesLedger, Settled,
         Published, TypeOK, AbandonConfirmation, attVars, reqVars, pubVars
<1>11. QED
      BY <1>3, <1>4, <1>5, <1>6, <1>7, <1>8, <1>9, <1>10 DEF Inv

\* A failure pays nothing, but may rewrite the request's status from the same sum.
LEMMA ConfirmFailedKeeps ==
    ASSUME Inv, NEW a \in Attempts, ConfirmFailed(a)
    PROVE  Inv'
<1> USE DEF Inv
<1>1. \A o \in Requests : PaidAttempts(o)' = PaidAttempts(o) /\ PaidSum(o)' = PaidSum(o)
      BY DEF PaidSum, PaidAttempts, AttemptsOf, TypeOK, ConfirmFailed, Recalculated,
         Locked, attVars, reqVars, pubVars
<1>2. \A o \in Requests : PaidSum(o) \in Nat /\ Requested[o] \in Nat \ {0}
      BY SumsAreNumbers
<1>3. TypeOK'
      BY DataAssumption DEF TypeOK, AttemptStatuses, RequestStatuses, Settled,
         Published, Publications, PaidAttempts, AttemptsOf, ConfirmFailed, Recalculated,
         Locked, attVars, reqVars, pubVars
<1>4. ConfirmationsHoldTheRow'
      BY DataAssumption DEF ConfirmationsHoldTheRow, AttemptsOf, TypeOK,
         ConfirmFailed, Recalculated, Locked, attVars, reqVars, pubVars
<1>5. PaidWithinRequested'
      BY <1>1 DEF PaidWithinRequested, ConfirmFailed, Recalculated, Locked, attVars,
         reqVars, pubVars
<1>6. StatusMatchesLedger'
  <2>1. RequestOf[a] \in Requests
        BY DataAssumption
  <2>2. PaidSum(RequestOf[a]) = 0 => reqStatus' = reqStatus
        BY <2>1 DEF ConfirmFailed, Recalculated, TypeOK
  <2>3. PaidSum(RequestOf[a]) # 0 =>
          reqStatus'[RequestOf[a]] =
            IF PaidSum(RequestOf[a]) = Requested[RequestOf[a]]
            THEN "paid" ELSE "partially_paid"
        BY <2>1 DEF ConfirmFailed, Recalculated, TypeOK
  <2>4. \A o \in Requests \ {RequestOf[a]} : reqStatus'[o] = reqStatus[o]
        BY <2>1 DEF ConfirmFailed, TypeOK
  <2>5. PaidSum(RequestOf[a]) <= Requested[RequestOf[a]]
        BY <2>1 DEF PaidWithinRequested
  <2> SUFFICES ASSUME NEW o \in Requests
               PROVE  /\ reqStatus'[o] \in Settled => PaidSum(o) = Requested[o]
                      /\ reqStatus'[o] = "partially_paid" =>
                           PaidSum(o) \in 1 .. Requested[o] - 1
                      /\ reqStatus'[o] = "eligible_for_batching" => PaidSum(o) = 0
        BY <1>1 DEF StatusMatchesLedger
  <2>6. CASE o # RequestOf[a] \/ PaidSum(o) = 0
        BY <2>2, <2>4, <2>6 DEF StatusMatchesLedger
  <2>7. CASE o = RequestOf[a] /\ PaidSum(o) # 0
        BY <2>3, <2>5, <2>7, <1>2 DEF Settled, Published
  <2>8. QED
        BY <2>6, <2>7
<1>7. DiscrepanciesStand'
      BY <1>1, DataAssumption DEF DiscrepanciesStand, TypeOK, ConfirmFailed,
         Recalculated, Locked, attVars, reqVars, pubVars
<1>8. RetryLineage'
      BY DataAssumption DEF RetryLineage, TypeOK, ConfirmFailed, Recalculated, Locked,
         attVars, reqVars, pubVars
<1>9. TrackingDistinctWithinRequest'
      BY DataAssumption DEF TrackingDistinctWithinRequest, ConfirmationsHoldTheRow,
         AttemptsOf, TypeOK, ConfirmFailed, Recalculated, Locked, attVars, reqVars,
         pubVars
<1>10. ToldWhatWasPaid'
      BY <1>1, DataAssumption DEF ToldWhatWasPaid, StatusMatchesLedger, Settled,
         Published, TypeOK, ConfirmFailed, Recalculated, Locked, attVars, reqVars,
         pubVars
<1>11. QED
      BY <1>3, <1>4, <1>5, <1>6, <1>7, <1>8, <1>9, <1>10 DEF Inv

\* The decision to retry pays nothing.
LEMMA MarkRetryRequiredKeeps ==
    ASSUME Inv, NEW a \in Attempts, MarkRetryRequired(a)
    PROVE  Inv'
<1> USE DEF Inv
<1>1. \A o \in Requests : PaidAttempts(o)' = PaidAttempts(o) /\ PaidSum(o)' = PaidSum(o)
      BY DEF PaidSum, PaidAttempts, AttemptsOf, TypeOK, MarkRetryRequired, attVars,
         reqVars, pubVars
<1>2. \A o \in Requests : PaidSum(o) \in Nat /\ Requested[o] \in Nat \ {0}
      BY SumsAreNumbers
<1>3. TypeOK'
      BY DataAssumption DEF TypeOK, AttemptStatuses, RequestStatuses, Settled,
         Published, Publications, PaidAttempts, AttemptsOf, MarkRetryRequired, attVars,
         reqVars, pubVars
<1>4. ConfirmationsHoldTheRow'
      BY DataAssumption DEF ConfirmationsHoldTheRow, AttemptsOf, TypeOK,
         MarkRetryRequired, attVars, reqVars, pubVars
<1>5. PaidWithinRequested'
      BY <1>1 DEF PaidWithinRequested, MarkRetryRequired, attVars, reqVars, pubVars
<1>6. StatusMatchesLedger'
      BY <1>1, <1>2, DataAssumption DEF StatusMatchesLedger, Settled, Published,
         TypeOK, MarkRetryRequired, attVars, reqVars, pubVars
<1>7. DiscrepanciesStand'
      BY <1>1, DataAssumption DEF DiscrepanciesStand, TypeOK, MarkRetryRequired,
         attVars, reqVars, pubVars
<1>8. RetryLineage'
      BY DataAssumption DEF RetryLineage, TypeOK, MarkRetryRequired, attVars, reqVars,
         pubVars
<1>9. TrackingDistinctWithinRequest'
      BY DataAssumption DEF TrackingDistinctWithinRequest, ConfirmationsHoldTheRow,
         AttemptsOf, TypeOK, MarkRetryRequired, attVars, reqVars, pubVars
<1>10. ToldWhatWasPaid'
      BY <1>1, DataAssumption DEF ToldWhatWasPaid, StatusMatchesLedger, Settled,
         Published, TypeOK, MarkRetryRequired, attVars, reqVars, pubVars
<1>11. QED
      BY <1>3, <1>4, <1>5, <1>6, <1>7, <1>8, <1>9, <1>10 DEF Inv

\* The retry and the retirement of its original are one step.
LEMMA CreateRetryAttemptKeeps ==
    ASSUME Inv, NEW a \in Attempts, NEW x \in Attempts, CreateRetryAttempt(a, x)
    PROVE  Inv'
<1> USE DEF Inv
<1>1. \A o \in Requests : PaidAttempts(o)' = PaidAttempts(o) /\ PaidSum(o)' = PaidSum(o)
      BY DEF PaidSum, PaidAttempts, AttemptsOf, TypeOK, CreateRetryAttempt, Locked,
         attVars, reqVars, pubVars
<1>2. \A o \in Requests : PaidSum(o) \in Nat /\ Requested[o] \in Nat \ {0}
      BY SumsAreNumbers
<1>3. TypeOK'
      BY DataAssumption DEF TypeOK, AttemptStatuses, RequestStatuses, Settled,
         Published, Publications, PaidAttempts, AttemptsOf, CreateRetryAttempt, Locked,
         attVars, reqVars, pubVars
<1>4. ConfirmationsHoldTheRow'
      BY DataAssumption DEF ConfirmationsHoldTheRow, AttemptsOf, TypeOK,
         CreateRetryAttempt, Locked, attVars, reqVars, pubVars
<1>5. PaidWithinRequested'
      BY <1>1 DEF PaidWithinRequested, CreateRetryAttempt, Locked, attVars, reqVars,
         pubVars
<1>6. StatusMatchesLedger'
      BY <1>1, <1>2, DataAssumption DEF StatusMatchesLedger, Settled, Published,
         TypeOK, CreateRetryAttempt, Locked, attVars, reqVars, pubVars
<1>7. DiscrepanciesStand'
      BY <1>1, DataAssumption DEF DiscrepanciesStand, TypeOK, CreateRetryAttempt,
         Locked, attVars, reqVars, pubVars
<1>8. RetryLineage'
      BY DataAssumption DEF RetryLineage, TypeOK, CreateRetryAttempt, Locked, attVars,
         reqVars, pubVars
<1>9. TrackingDistinctWithinRequest'
      BY DataAssumption DEF TrackingDistinctWithinRequest, ConfirmationsHoldTheRow,
         AttemptsOf, TypeOK, CreateRetryAttempt, Locked, attVars, reqVars, pubVars
<1>10. ToldWhatWasPaid'
      BY <1>1, DataAssumption DEF ToldWhatWasPaid, StatusMatchesLedger, Settled,
         Published, TypeOK, CreateRetryAttempt, Locked, attVars, reqVars, pubVars
<1>11. QED
      BY <1>3, <1>4, <1>5, <1>6, <1>7, <1>8, <1>9, <1>10 DEF Inv

\* Reading a request disturbs nothing.
LEMMA CancelReadsKeeps ==
    ASSUME Inv, NEW r \in Requests, CancelReads(r)
    PROVE  Inv'
<1> USE DEF Inv
<1>1. \A o \in Requests : PaidAttempts(o)' = PaidAttempts(o) /\ PaidSum(o)' = PaidSum(o)
      BY DEF PaidSum, PaidAttempts, AttemptsOf, TypeOK, CancelReads, attVars, reqVars,
         pubVars
<1>2. \A o \in Requests : PaidSum(o) \in Nat /\ Requested[o] \in Nat \ {0}
      BY SumsAreNumbers
<1>3. TypeOK'
      BY DataAssumption DEF TypeOK, AttemptStatuses, RequestStatuses, Settled,
         Published, Publications, PaidAttempts, AttemptsOf, CancelReads, attVars,
         reqVars, pubVars
<1>4. ConfirmationsHoldTheRow'
      BY DataAssumption DEF ConfirmationsHoldTheRow, AttemptsOf, TypeOK, CancelReads,
         attVars, reqVars, pubVars
<1>5. PaidWithinRequested'
      BY <1>1 DEF PaidWithinRequested, CancelReads, attVars, reqVars, pubVars
<1>6. StatusMatchesLedger'
      BY <1>1, <1>2, DataAssumption DEF StatusMatchesLedger, Settled, Published,
         TypeOK, CancelReads, attVars, reqVars, pubVars
<1>7. DiscrepanciesStand'
      BY <1>1, DataAssumption DEF DiscrepanciesStand, TypeOK, CancelReads, attVars,
         reqVars, pubVars
<1>8. RetryLineage'
      BY DataAssumption DEF RetryLineage, TypeOK, CancelReads, attVars, reqVars, pubVars
<1>9. TrackingDistinctWithinRequest'
      BY DataAssumption DEF TrackingDistinctWithinRequest, ConfirmationsHoldTheRow,
         AttemptsOf, TypeOK, CancelReads, attVars, reqVars, pubVars
<1>10. ToldWhatWasPaid'
      BY <1>1, DataAssumption DEF ToldWhatWasPaid, StatusMatchesLedger, Settled,
         Published, TypeOK, CancelReads, attVars, reqVars, pubVars
<1>11. QED
      BY <1>3, <1>4, <1>5, <1>6, <1>7, <1>8, <1>9, <1>10 DEF Inv

\* A cancellation claims nothing about the money.
LEMMA CancelCommitsKeeps ==
    ASSUME Inv, NEW r \in Requests, CancelCommits(r)
    PROVE  Inv'
<1> USE DEF Inv
<1>1. \A o \in Requests : PaidAttempts(o)' = PaidAttempts(o) /\ PaidSum(o)' = PaidSum(o)
      BY DEF PaidSum, PaidAttempts, AttemptsOf, TypeOK, CancelCommits, attVars,
         reqVars, pubVars
<1>2. \A o \in Requests : PaidSum(o) \in Nat /\ Requested[o] \in Nat \ {0}
      BY SumsAreNumbers
<1>3. TypeOK'
      BY DataAssumption DEF TypeOK, AttemptStatuses, RequestStatuses, Settled,
         Published, Publications, PaidAttempts, AttemptsOf, CancelCommits, attVars,
         reqVars, pubVars
<1>4. ConfirmationsHoldTheRow'
      BY DataAssumption DEF ConfirmationsHoldTheRow, AttemptsOf, TypeOK,
         CancelCommits, attVars, reqVars, pubVars
<1>5. PaidWithinRequested'
      BY <1>1 DEF PaidWithinRequested, CancelCommits, attVars, reqVars, pubVars
<1>6. StatusMatchesLedger'
      BY <1>1, <1>2, DataAssumption DEF StatusMatchesLedger, Settled, Published,
         TypeOK, CancelCommits, attVars, reqVars, pubVars
<1>7. DiscrepanciesStand'
      BY <1>1, DataAssumption DEF DiscrepanciesStand, TypeOK, CancelCommits, attVars,
         reqVars, pubVars
<1>8. RetryLineage'
      BY DataAssumption DEF RetryLineage, TypeOK, CancelCommits, attVars, reqVars, pubVars
<1>9. TrackingDistinctWithinRequest'
      BY DataAssumption DEF TrackingDistinctWithinRequest, ConfirmationsHoldTheRow,
         AttemptsOf, TypeOK, CancelCommits, attVars, reqVars, pubVars
<1>10. ToldWhatWasPaid'
      BY <1>1, DataAssumption DEF ToldWhatWasPaid, StatusMatchesLedger, Settled,
         Published, TypeOK, CancelCommits, attVars, reqVars, pubVars
<1>11. QED
      BY <1>3, <1>4, <1>5, <1>6, <1>7, <1>8, <1>9, <1>10 DEF Inv

\* A preview moves a settled request to another settled status.
LEMMA PreviewPublicationKeeps ==
    ASSUME Inv, NEW r \in Requests, PreviewPublication(r)
    PROVE  Inv'
<1> USE DEF Inv
<1>1. \A o \in Requests : PaidAttempts(o)' = PaidAttempts(o) /\ PaidSum(o)' = PaidSum(o)
      BY DEF PaidSum, PaidAttempts, AttemptsOf, TypeOK, PreviewPublication, attVars,
         reqVars, pubVars
<1>2. \A o \in Requests : PaidSum(o) \in Nat /\ Requested[o] \in Nat \ {0}
      BY SumsAreNumbers
<1>3. TypeOK'
      BY DataAssumption DEF TypeOK, AttemptStatuses, RequestStatuses, Settled,
         Published, Publications, PaidAttempts, AttemptsOf, PreviewPublication, attVars,
         reqVars, pubVars
<1>4. ConfirmationsHoldTheRow'
      BY DataAssumption DEF ConfirmationsHoldTheRow, AttemptsOf, TypeOK,
         PreviewPublication, attVars, reqVars, pubVars
<1>5. PaidWithinRequested'
      BY <1>1 DEF PaidWithinRequested, PreviewPublication, attVars, reqVars, pubVars
<1>6. StatusMatchesLedger'
      BY <1>1, <1>2, DataAssumption DEF StatusMatchesLedger, Settled, Published,
         TypeOK, PreviewPublication, attVars, reqVars, pubVars
<1>7. DiscrepanciesStand'
      BY <1>1, DataAssumption DEF DiscrepanciesStand, TypeOK, PreviewPublication,
         attVars, reqVars, pubVars
<1>8. RetryLineage'
      BY DataAssumption DEF RetryLineage, TypeOK, PreviewPublication, attVars,
         reqVars, pubVars
<1>9. TrackingDistinctWithinRequest'
      BY DataAssumption DEF TrackingDistinctWithinRequest, ConfirmationsHoldTheRow,
         AttemptsOf, TypeOK, PreviewPublication, attVars, reqVars, pubVars
<1>10. ToldWhatWasPaid'
      BY <1>1, DataAssumption DEF ToldWhatWasPaid, StatusMatchesLedger, Settled,
         Published, TypeOK, PreviewPublication, attVars, reqVars, pubVars
<1>11. QED
      BY <1>3, <1>4, <1>5, <1>6, <1>7, <1>8, <1>9, <1>10 DEF Inv

\* A first publication is of a settled request.
LEMMA PublishResultKeeps ==
    ASSUME Inv, NEW r \in Requests, NEW s \in Segments \cup {Null}, PublishResult(r, s)
    PROVE  Inv'
<1> USE DEF Inv
<1>1. \A o \in Requests : PaidAttempts(o)' = PaidAttempts(o) /\ PaidSum(o)' = PaidSum(o)
      BY DEF PaidSum, PaidAttempts, AttemptsOf, TypeOK, PublishResult, Snapshot,
         attVars, reqVars, pubVars
<1>2. \A o \in Requests : PaidSum(o) \in Nat /\ Requested[o] \in Nat \ {0}
      BY SumsAreNumbers
<1>3. TypeOK'
      BY DataAssumption DEF TypeOK, AttemptStatuses, RequestStatuses, Settled,
         Published, Publications, PaidAttempts, AttemptsOf, PublishResult, Snapshot,
         attVars, reqVars, pubVars
<1>4. ConfirmationsHoldTheRow'
      BY DataAssumption DEF ConfirmationsHoldTheRow, AttemptsOf, TypeOK,
         PublishResult, Snapshot, attVars, reqVars, pubVars
<1>5. PaidWithinRequested'
      BY <1>1 DEF PaidWithinRequested, PublishResult, Snapshot, attVars, reqVars, pubVars
<1>6. StatusMatchesLedger'
      BY <1>1, <1>2, DataAssumption DEF StatusMatchesLedger, Settled, Published,
         TypeOK, PublishResult, Snapshot, attVars, reqVars, pubVars
<1>7. DiscrepanciesStand'
      BY <1>1, DataAssumption DEF DiscrepanciesStand, TypeOK, PublishResult, Snapshot,
         attVars, reqVars, pubVars
<1>8. RetryLineage'
      BY DataAssumption DEF RetryLineage, TypeOK, PublishResult, Snapshot, attVars,
         reqVars, pubVars
<1>9. TrackingDistinctWithinRequest'
      BY DataAssumption DEF TrackingDistinctWithinRequest, ConfirmationsHoldTheRow,
         AttemptsOf, TypeOK, PublishResult, Snapshot, attVars, reqVars, pubVars
<1>10. ToldWhatWasPaid'
  <2>1. Snapshot(r, s) \in Publications /\ Snapshot(r, s) # Null
        BY DataAssumption DEF Publications, Snapshot, PaidAttempts, AttemptsOf
  <2>2. PaidSum(r) = Requested[r] /\ Snapshot(r, s).paid = PaidAttempts(r)
        BY DEF PublishResult, Snapshot, StatusMatchesLedger, Settled, Published
  <2>3. /\ active'[r] = Snapshot(r, s)
        /\ superseded'[r] = superseded[r]
        /\ Snapshot(r, s) \notin superseded'[r]
        BY DEF PublishResult, TypeOK
  <2>4. \A o \in Requests \ {r} :
          /\ active'[o] = active[o] /\ superseded'[o] = superseded[o]
          /\ reqStatus'[o] = reqStatus[o]
        BY DEF PublishResult, TypeOK
  <2> SUFFICES ASSUME NEW o \in Requests
               PROVE  /\ \A p \in superseded'[o] \cup ({active'[o]} \ {Null}) :
                           p.paid = PaidAttempts(o) /\ PaidSum(o) = Requested[o]
                      /\ superseded'[o] # {} => active'[o] # Null
                      /\ active'[o] \notin superseded'[o]
                      /\ reqStatus'[o] \in Published => active'[o] # Null
        BY <1>1 DEF ToldWhatWasPaid
  <2>5. CASE o # r
        BY <2>4, <2>5 DEF ToldWhatWasPaid
  <2>6. CASE o = r
    <3>1. active[r] # Null => active[r].paid = PaidAttempts(r)
          BY DEF ToldWhatWasPaid
    <3>2. \A p \in superseded[r] : p.paid = PaidAttempts(r)
          BY DEF ToldWhatWasPaid
    <3>3. QED
          BY <2>1, <2>2, <2>3, <2>6, <3>1, <3>2 DEF PublishResult
  <2>7. QED
        BY <2>5, <2>6
<1>11. QED
      BY <1>3, <1>4, <1>5, <1>6, <1>7, <1>8, <1>9, <1>10 DEF Inv

\* An answer leaves the request settled and published.
LEMMA RespondKeeps ==
    ASSUME Inv, NEW r \in Requests, NEW answer \in {"trader_acknowledged", "trader_disputed"}, Respond(r, answer)
    PROVE  Inv'
<1> USE DEF Inv
<1>1. \A o \in Requests : PaidAttempts(o)' = PaidAttempts(o) /\ PaidSum(o)' = PaidSum(o)
      BY DEF PaidSum, PaidAttempts, AttemptsOf, TypeOK, Respond, attVars, reqVars, pubVars
<1>2. \A o \in Requests : PaidSum(o) \in Nat /\ Requested[o] \in Nat \ {0}
      BY SumsAreNumbers
<1>3. TypeOK'
      BY DataAssumption DEF TypeOK, AttemptStatuses, RequestStatuses, Settled,
         Published, Publications, PaidAttempts, AttemptsOf, Respond, attVars, reqVars,
         pubVars
<1>4. ConfirmationsHoldTheRow'
      BY DataAssumption DEF ConfirmationsHoldTheRow, AttemptsOf, TypeOK, Respond,
         attVars, reqVars, pubVars
<1>5. PaidWithinRequested'
      BY <1>1 DEF PaidWithinRequested, Respond, attVars, reqVars, pubVars
<1>6. StatusMatchesLedger'
      BY <1>1, <1>2, DataAssumption DEF StatusMatchesLedger, Settled, Published,
         TypeOK, Respond, attVars, reqVars, pubVars
<1>7. DiscrepanciesStand'
      BY <1>1, DataAssumption DEF DiscrepanciesStand, TypeOK, Respond, attVars,
         reqVars, pubVars
<1>8. RetryLineage'
      BY DataAssumption DEF RetryLineage, TypeOK, Respond, attVars, reqVars, pubVars
<1>9. TrackingDistinctWithinRequest'
      BY DataAssumption DEF TrackingDistinctWithinRequest, ConfirmationsHoldTheRow,
         AttemptsOf, TypeOK, Respond, attVars, reqVars, pubVars
<1>10. ToldWhatWasPaid'
      BY <1>1, DataAssumption DEF ToldWhatWasPaid, StatusMatchesLedger, Settled,
         Published, TypeOK, Respond, attVars, reqVars, pubVars
<1>11. QED
      BY <1>3, <1>4, <1>5, <1>6, <1>7, <1>8, <1>9, <1>10 DEF Inv

\* A correction is of a published, hence settled, request.
LEMMA CorrectPublishedResultKeeps ==
    ASSUME Inv, NEW r \in Requests, NEW s \in Segments, CorrectPublishedResult(r, s)
    PROVE  Inv'
<1> USE DEF Inv
<1>1. \A o \in Requests : PaidAttempts(o)' = PaidAttempts(o) /\ PaidSum(o)' = PaidSum(o)
      BY DEF PaidSum, PaidAttempts, AttemptsOf, TypeOK, CorrectPublishedResult,
         Snapshot, attVars, reqVars, pubVars
<1>2. \A o \in Requests : PaidSum(o) \in Nat /\ Requested[o] \in Nat \ {0}
      BY SumsAreNumbers
<1>3. TypeOK'
      BY DataAssumption DEF TypeOK, AttemptStatuses, RequestStatuses, Settled,
         Published, Publications, PaidAttempts, AttemptsOf, CorrectPublishedResult,
         Snapshot, attVars, reqVars, pubVars
<1>4. ConfirmationsHoldTheRow'
      BY DataAssumption DEF ConfirmationsHoldTheRow, AttemptsOf, TypeOK,
         CorrectPublishedResult, Snapshot, attVars, reqVars, pubVars
<1>5. PaidWithinRequested'
      BY <1>1 DEF PaidWithinRequested, CorrectPublishedResult, Snapshot, attVars,
         reqVars, pubVars
<1>6. StatusMatchesLedger'
      BY <1>1, <1>2, DataAssumption DEF StatusMatchesLedger, Settled, Published,
         TypeOK, CorrectPublishedResult, Snapshot, attVars, reqVars, pubVars
<1>7. DiscrepanciesStand'
      BY <1>1, DataAssumption DEF DiscrepanciesStand, TypeOK, CorrectPublishedResult,
         Snapshot, attVars, reqVars, pubVars
<1>8. RetryLineage'
      BY DataAssumption DEF RetryLineage, TypeOK, CorrectPublishedResult, Snapshot,
         attVars, reqVars, pubVars
<1>9. TrackingDistinctWithinRequest'
      BY DataAssumption DEF TrackingDistinctWithinRequest, ConfirmationsHoldTheRow,
         AttemptsOf, TypeOK, CorrectPublishedResult, Snapshot, attVars, reqVars, pubVars
<1>10. ToldWhatWasPaid'
  <2>1. Snapshot(r, s) \in Publications /\ Snapshot(r, s) # Null
        BY DataAssumption DEF Publications, Snapshot, PaidAttempts, AttemptsOf
  <2>2. PaidSum(r) = Requested[r] /\ Snapshot(r, s).paid = PaidAttempts(r)
        BY DEF CorrectPublishedResult, Snapshot, StatusMatchesLedger, Settled, Published
  <2>3. /\ active'[r] = Snapshot(r, s)
        /\ superseded'[r] = superseded[r] \cup {active[r]}
        /\ Snapshot(r, s) \notin superseded'[r]
        BY DEF CorrectPublishedResult, TypeOK
  <2>4. \A o \in Requests \ {r} :
          /\ active'[o] = active[o] /\ superseded'[o] = superseded[o]
          /\ reqStatus'[o] = reqStatus[o]
        BY DEF CorrectPublishedResult, TypeOK
  <2> SUFFICES ASSUME NEW o \in Requests
               PROVE  /\ \A p \in superseded'[o] \cup ({active'[o]} \ {Null}) :
                           p.paid = PaidAttempts(o) /\ PaidSum(o) = Requested[o]
                      /\ superseded'[o] # {} => active'[o] # Null
                      /\ active'[o] \notin superseded'[o]
                      /\ reqStatus'[o] \in Published => active'[o] # Null
        BY <1>1 DEF ToldWhatWasPaid
  <2>5. CASE o # r
        BY <2>4, <2>5 DEF ToldWhatWasPaid
  <2>6. CASE o = r
    <3>1. active[r] # Null => active[r].paid = PaidAttempts(r)
          BY DEF ToldWhatWasPaid
    <3>2. \A p \in superseded[r] : p.paid = PaidAttempts(r)
          BY DEF ToldWhatWasPaid
    <3>3. QED
          BY <2>1, <2>2, <2>3, <2>6, <3>1, <3>2 DEF CorrectPublishedResult
  <2>7. QED
        BY <2>5, <2>6
<1>11. QED
      BY <1>3, <1>4, <1>5, <1>6, <1>7, <1>8, <1>9, <1>10 DEF Inv

\* The commit of confirm_paid, where the money moves: either the overpayment is
\* refused and recorded, or one attempt joins the paid ones of its request.
LEMMA ConfirmPaidKeeps ==
    ASSUME Inv, NEW a \in Attempts, ConfirmPaid(a)
    PROVE  Inv'
<1> USE DEF Inv
<1> DEFINE r == RequestOf[a]
<1>1. r \in Requests /\ AmountOf[a] \in Nat \ {0}
      BY DataAssumption
<1>2. \A o \in Requests : PaidSum(o) \in Nat /\ Requested[o] \in Nat \ {0}
      BY SumsAreNumbers
<1>3. attStatus[a] = "sent_to_bank" /\ confirming[a] \in TrackingNumbers
      BY DEF ConfirmPaid, ConfirmationsHoldTheRow, TypeOK
<1>4. CASE Overpays(a)
  <2>1. /\ discrepant' = discrepant \cup {a}
        /\ UNCHANGED <<attStatus, tracking, reqStatus, retryOf, swapped, cancelling,
                       active, superseded>>
        /\ confirming' = [confirming EXCEPT ![a] = Null]
        BY <1>4 DEF ConfirmPaid, pubVars
  <2>2. \A o \in Requests : PaidAttempts(o)' = PaidAttempts(o) /\ PaidSum(o)' = PaidSum(o)
        BY <2>1 DEF PaidSum, PaidAttempts, AttemptsOf
  <2>3. TypeOK'
        BY <2>1 DEF TypeOK
  <2>4. ConfirmationsHoldTheRow'
        BY <2>1 DEF ConfirmationsHoldTheRow, AttemptsOf, TypeOK
  <2>5. PaidWithinRequested'
        BY <2>2 DEF PaidWithinRequested
  <2>6. StatusMatchesLedger'
        BY <2>1, <2>2 DEF StatusMatchesLedger
  <2>7. DiscrepanciesStand'
    <3> SUFFICES ASSUME NEW d \in discrepant'
                 PROVE  /\ attStatus'[d] # "paid"
                        /\ PaidSum(RequestOf[d])' + AmountOf[d] > Requested[RequestOf[d]]
          BY DEF DiscrepanciesStand
    <3>1. d \in Attempts /\ RequestOf[d] \in Requests /\ (d \in discrepant \/ d = a)
          BY <2>1, DataAssumption DEF TypeOK
    <3>2. attStatus'[d] = attStatus[d] /\ PaidSum(RequestOf[d])' = PaidSum(RequestOf[d])
          BY <2>1, <2>2, <3>1
    <3>3. CASE d \in discrepant
          BY <3>2, <3>3 DEF DiscrepanciesStand
    <3>4. CASE d = a
          BY <1>3, <1>4, <3>2, <3>4 DEF Overpays
    <3>5. QED
          BY <3>1, <3>3, <3>4
  <2>8. RetryLineage'
        BY <2>1 DEF RetryLineage
  <2>9. TrackingDistinctWithinRequest'
        BY <2>1 DEF TrackingDistinctWithinRequest, TypeOK
  <2>10. ToldWhatWasPaid'
        BY <2>1, <2>2 DEF ToldWhatWasPaid
  <2>11. QED
        BY <2>3, <2>4, <2>5, <2>6, <2>7, <2>8, <2>9, <2>10
<1>5. CASE ~Overpays(a)
  <2> DEFINE sum == PaidSum(r) + AmountOf[a]
  <2>1. /\ attStatus' = [attStatus EXCEPT ![a] = "paid"]
        /\ tracking' = [tracking EXCEPT ![a] = confirming[a]]
        /\ reqStatus' = [reqStatus EXCEPT ![r] = Recalculated(r, sum)]
        /\ confirming' = [confirming EXCEPT ![a] = Null]
        /\ UNCHANGED <<discrepant, retryOf, swapped, cancelling, active, superseded>>
        BY <1>5 DEF ConfirmPaid, pubVars
  <2>2. sum \in Nat \ {0} /\ sum <= Requested[r]
        BY <1>1, <1>2, <1>5 DEF Overpays
  <2>3. Recalculated(r, sum) = IF sum = Requested[r] THEN "paid" ELSE "partially_paid"
        BY <2>2 DEF Recalculated
  <2>4. /\ PaidAttempts(r)' = PaidAttempts(r) \cup {a}
        /\ PaidSum(r)' = sum
    <3>1. PaidAttempts(r)' = PaidAttempts(r) \cup {a}
          BY <2>1 DEF PaidAttempts, AttemptsOf, TypeOK
    <3>2. PaidAttempts(r) \in SUBSET Attempts /\ a \in Attempts \ PaidAttempts(r)
          BY <1>3 DEF PaidAttempts, AttemptsOf
    <3>3. TotalOf[PaidAttempts(r) \cup {a}] = TotalOf[PaidAttempts(r)] + AmountOf[a]
          BY <3>2, SumGrows
    <3>4. QED
          BY <3>1, <3>3 DEF PaidSum
  <2>5. \A o \in Requests \ {r} :
          PaidAttempts(o)' = PaidAttempts(o) /\ PaidSum(o)' = PaidSum(o)
        BY <2>1 DEF PaidSum, PaidAttempts, AttemptsOf, TypeOK
  <2>6. PaidSum(r) < Requested[r] /\ active[r] = Null /\ superseded[r] = {}
    <3>1. PaidSum(r) < Requested[r]
          BY <1>1, <1>2, <2>2
    <3>2. QED
          BY <1>1, <1>2, <3>1 DEF ToldWhatWasPaid
  <2>7. TypeOK'
        BY <1>1, <1>3, <2>1, <2>3
        DEF TypeOK, AttemptStatuses, RequestStatuses, Settled, Published
  <2>8. ConfirmationsHoldTheRow'
        BY <2>1 DEF ConfirmationsHoldTheRow, AttemptsOf, TypeOK
  <2>9. PaidWithinRequested'
        BY <2>2, <2>4, <2>5 DEF PaidWithinRequested
  <2>10. StatusMatchesLedger'
    <3> SUFFICES ASSUME NEW o \in Requests
                 PROVE  /\ reqStatus'[o] \in Settled => PaidSum(o)' = Requested[o]
                        /\ reqStatus'[o] = "partially_paid" =>
                             PaidSum(o)' \in 1 .. Requested[o] - 1
                        /\ reqStatus'[o] = "eligible_for_batching" => PaidSum(o)' = 0
          BY DEF StatusMatchesLedger
    <3>1. CASE o = r
          BY <1>1, <1>2, <2>1, <2>2, <2>3, <2>4, <3>1 DEF TypeOK, Settled, Published
    <3>2. CASE o # r
      <4>1. reqStatus'[o] = reqStatus[o]
            BY <2>1, <3>2 DEF TypeOK
      <4>2. QED
            BY <2>5, <3>2, <4>1 DEF StatusMatchesLedger
    <3>3. QED
          BY <3>1, <3>2
  <2>11. DiscrepanciesStand'
    <3> SUFFICES ASSUME NEW d \in discrepant
                 PROVE  /\ attStatus'[d] # "paid"
                        /\ PaidSum(RequestOf[d])' + AmountOf[d] > Requested[RequestOf[d]]
          BY <2>1 DEF DiscrepanciesStand
    <3>1. /\ d \in Attempts /\ RequestOf[d] \in Requests /\ AmountOf[d] \in Nat
          /\ attStatus[d] # "paid"
          /\ PaidSum(RequestOf[d]) + AmountOf[d] > Requested[RequestOf[d]]
          BY DataAssumption DEF DiscrepanciesStand, TypeOK
    <3>2. d # a
          BY <3>1, <1>5 DEF Overpays
    <3>3. attStatus'[d] # "paid"
          BY <2>1, <3>1, <3>2 DEF TypeOK
    <3>4. CASE RequestOf[d] = r
          BY <1>1, <1>2, <2>4, <3>1, <3>3, <3>4
    <3>5. CASE RequestOf[d] # r
          BY <2>5, <3>1, <3>3, <3>5
    <3>6. QED
          BY <3>4, <3>5
  <2>12. RetryLineage'
        BY <1>3, <2>1 DEF RetryLineage, TypeOK
  <2>13. TrackingDistinctWithinRequest'
    <3> SUFFICES ASSUME NEW b \in Attempts, NEW c \in Attempts, b # c,
                        RequestOf[b] = RequestOf[c], attStatus'[b] = "paid"
                 PROVE  /\ attStatus'[c] = "paid" => tracking'[b] # tracking'[c]
                        /\ confirming'[c] # Null => tracking'[b] # confirming'[c]
          BY DEF TrackingDistinctWithinRequest
    <3>1. \A e \in Attempts \ {a} :
            /\ attStatus'[e] = attStatus[e] /\ tracking'[e] = tracking[e]
            /\ confirming'[e] = confirming[e]
          BY <2>1 DEF TypeOK
    <3>2. attStatus'[a] = "paid" /\ tracking'[a] = confirming[a] /\ confirming'[a] = Null
          BY <2>1 DEF TypeOK
    <3>3. \A e \in Attempts \ {a} : RequestOf[e] = r =>
            /\ confirming[e] = Null
            /\ attStatus[e] = "paid" => tracking[e] # confirming[a]
          BY <1>3 DEF ConfirmationsHoldTheRow, AttemptsOf, TrackingDistinctWithinRequest,
                      ConfirmPaid
    <3>4. CASE b = a
          BY <3>1, <3>2, <3>3, <3>4
    <3>5. CASE c = a
          BY <3>1, <3>2, <3>3, <3>5
    <3>6. CASE b # a /\ c # a
          BY <3>1, <3>6 DEF TrackingDistinctWithinRequest
    <3>7. QED
          BY <3>4, <3>5, <3>6
  <2>14. ToldWhatWasPaid'
    <3>1. \A o \in Requests \ {r} : reqStatus'[o] = reqStatus[o]
          BY <2>1 DEF TypeOK
    <3>2. reqStatus'[r] \notin Published
          BY <1>1, <2>1, <2>3 DEF TypeOK, Published
    <3>3. QED
          BY <2>1, <2>5, <2>6, <3>1, <3>2 DEF ToldWhatWasPaid
  <2>15. QED
        BY <2>7, <2>8, <2>9, <2>10, <2>11, <2>12, <2>13, <2>14
<1>6. QED
      BY <1>4, <1>5

\* A step that changes nothing keeps the invariant.
LEMMA StutterKeeps ==
    ASSUME Inv, UNCHANGED vars
    PROVE  Inv'
<1> USE DEF Inv, vars, attVars, reqVars, pubVars
<1>1. \A o \in Requests : PaidAttempts(o)' = PaidAttempts(o) /\ PaidSum(o)' = PaidSum(o)
      BY DEF PaidSum, PaidAttempts, AttemptsOf
<1>2. TypeOK' /\ ConfirmationsHoldTheRow' /\ RetryLineage' /\ TrackingDistinctWithinRequest'
      BY DEF TypeOK, ConfirmationsHoldTheRow, AttemptsOf, RetryLineage,
             TrackingDistinctWithinRequest
<1>3. PaidWithinRequested' /\ StatusMatchesLedger' /\ ToldWhatWasPaid'
      BY <1>1 DEF PaidWithinRequested, StatusMatchesLedger, ToldWhatWasPaid
<1>4. DiscrepanciesStand'
      BY <1>1, DataAssumption DEF DiscrepanciesStand, TypeOK
<1>5. QED
      BY <1>2, <1>3, <1>4

\* The invariant is inductive: one lemma above for each disjunct of Next.
LEMMA NextKeeps == Inv /\ [Next]_vars => Inv'
<1> SUFFICES ASSUME Inv, [Next]_vars PROVE Inv'
    OBVIOUS
<1>1. CASE \E r \in Requests, S \in SUBSET Attempts : IncludeInBatch(r, S)
      BY <1>1, IncludeInBatchKeeps
<1>2. CASE \E S \in SUBSET Attempts : MarkSent(S)
      BY <1>2, MarkSentKeeps
<1>3. CASE \E a \in Attempts, n \in TrackingNumbers : CheckPaid(a, n)
      BY <1>3, CheckPaidKeeps
<1>4. CASE \E a \in Attempts : ConfirmPaid(a) \/ AbandonConfirmation(a) \/ ConfirmFailed(a)
      BY <1>4, ConfirmPaidKeeps, AbandonConfirmationKeeps, ConfirmFailedKeeps
<1>5. CASE \E a \in Attempts : MarkRetryRequired(a)
      BY <1>5, MarkRetryRequiredKeeps
<1>6. CASE \E a, x \in Attempts : CreateRetryAttempt(a, x)
      BY <1>6, CreateRetryAttemptKeeps
<1>7. CASE \E r \in Requests : CancelReads(r) \/ CancelCommits(r) \/ PreviewPublication(r)
      BY <1>7, CancelReadsKeeps, CancelCommitsKeeps, PreviewPublicationKeeps
<1>8. CASE \E r \in Requests, s \in Segments \cup {Null} : PublishResult(r, s)
      BY <1>8, PublishResultKeeps
<1>9. CASE \E r \in Requests, answer \in {"trader_acknowledged", "trader_disputed"} :
             Respond(r, answer)
      BY <1>9, RespondKeeps
<1>10. CASE \E r \in Requests, s \in Segments : CorrectPublishedResult(r, s)
      BY <1>10, CorrectPublishedResultKeeps
<1>11. CASE UNCHANGED vars
      BY <1>11, StutterKeeps
<1>12. QED
      BY <1>1, <1>2, <1>3, <1>4, <1>5, <1>6, <1>7, <1>8, <1>9, <1>10, <1>11 DEF Next

\* Every safety property of the result commands, in every reachable state.
THEOREM Invariant == Spec => []Inv
BY InitInv, NextKeeps, PTL DEF Spec

\* The rows keep the types their columns declare.
THEOREM TypeCorrect == Spec => []TypeOK
<1>1. Inv => TypeOK
      BY DEF Inv
<1>2. QED
      BY <1>1, Invariant, PTL

\* confirm_paid never lets the money recorded exceed what a request asked for.
THEOREM NoOverpayment == Spec => []PaidWithinRequested
<1>1. Inv => PaidWithinRequested
      BY DEF Inv
<1>2. QED
      BY <1>1, Invariant, PTL

\* _recalculate and every command after it keep the request's status true to its
\* attempts.
THEOREM StatusIsTrue == Spec => []StatusMatchesLedger
<1>1. Inv => StatusMatchesLedger
      BY DEF Inv
<1>2. QED
      BY <1>1, Invariant, PTL

\* An attempt refused as an overpayment is never paid later.
THEOREM RefusalsAreFinal == Spec => []DiscrepanciesStand
<1>1. Inv => DiscrepanciesStand
      BY DEF Inv
<1>2. QED
      BY <1>1, Invariant, PTL

\* create_retry_attempt tries the money of a failed attempt once.
THEOREM OneRetryEach == Spec => []RetryLineage
<1>1. Inv => RetryLineage
      BY DEF Inv
<1>2. QED
      BY <1>1, Invariant, PTL

\* The request's row lock makes tracking numbers distinct within it.
THEOREM OneTransactionOnePayment == Spec => []TrackingDistinctWithinRequest
<1>1. Inv => TrackingDistinctWithinRequest
      BY DEF Inv
<1>2. QED
      BY <1>1, Invariant, PTL

\* What traders were told, once or corrected, is what was paid.
THEOREM PublicationsAreTrue == Spec => []ToldWhatWasPaid
<1>1. Inv => ToldWhatWasPaid
      BY DEF Inv
<1>2. QED
      BY <1>1, Invariant, PTL

-----------------------------------------------------------------------------
(* The rows implement the settlement promise. *)

Outcomes == [a \in Attempts |-> OutcomeOf[attStatus[a]]]
Told     == [r \in Requests |-> IF active[r] = Null THEN {} ELSE active[r].paid]

\* The payments the promise counts as made are the paid attempts.
LEMMA MadeIsPaid ==
    ASSUME TypeOK, NEW r \in Requests
    PROVE  ST!Made(r) = PaidAttempts(r)
BY DEF ST!Made, PaidAttempts, AttemptsOf, OutcomeOf, TypeOK, AttemptStatuses

\* An action that changes neither outcomes nor publications is a stutter.
LEMMA Unseen ==
    ASSUME Outcomes' = Outcomes, Told' = Told
    PROVE  UNCHANGED ST!stVars
BY DEF ST!stVars, Outcomes, Told

\* Outcomes and publications are functions of these rows alone.
LEMMA SameRows ==
    ASSUME UNCHANGED <<attStatus, pubVars>>
    PROVE  UNCHANGED ST!stVars
BY DEF ST!stVars, pubVars

\* A first publication tells the trader; a correction tells them the same payments.
LEMMA PublishTells ==
    ASSUME Inv, NEW r \in Requests, NEW s \in Segments \cup {Null}, PublishResult(r, s)
    PROVE  ST!Tell(r)
<1>1. ST!Made(r) = PaidAttempts(r)
      BY MadeIsPaid DEF Inv
<1>2. PaidSum(r) = Requested[r] /\ active[r] = Null
      BY DEF PublishResult, Inv, StatusMatchesLedger, Settled
<1>3. Snapshot(r, s) # Null
      BY DataAssumption DEF Snapshot, PaidAttempts, AttemptsOf
<1>4. active' = [active EXCEPT ![r] = Snapshot(r, s)] /\ UNCHANGED attStatus
      BY DEF PublishResult, attVars
<1>5. Snapshot(r, s).paid = PaidAttempts(r)
      BY DEF Snapshot
<1>6. Told' = [Told EXCEPT ![r] = PaidAttempts(r)] /\ Told[r] = {}
      BY <1>2, <1>3, <1>4, <1>5 DEF Told, Inv, TypeOK
<1>7. UNCHANGED [a \in Attempts |-> OutcomeOf[attStatus[a]]]
      BY <1>4
<1>8. QED
      BY <1>1, <1>2, <1>6, <1>7 DEF ST!Tell, Told, PaidSum

LEMMA CorrectionTellsTheSame ==
    ASSUME Inv, NEW r \in Requests, NEW s \in Segments, CorrectPublishedResult(r, s)
    PROVE  UNCHANGED ST!stVars
<1>1. active[r] # Null /\ active[r].paid = PaidAttempts(r)
      BY DEF CorrectPublishedResult, Inv, ToldWhatWasPaid
<1>2. Snapshot(r, s) # Null /\ Snapshot(r, s).paid = PaidAttempts(r)
      BY DataAssumption DEF Snapshot, PaidAttempts, AttemptsOf
<1>3. active' = [active EXCEPT ![r] = Snapshot(r, s)] /\ UNCHANGED attStatus
      BY DEF CorrectPublishedResult, attVars
<1>4. Told' = Told
      BY <1>1, <1>2, <1>3 DEF Told, Inv, TypeOK
<1>5. QED
      BY <1>3, <1>4, Unseen DEF Outcomes

\* The commit of confirm_paid pays, or refuses and is not seen.
LEMMA ConfirmPaidPays ==
    ASSUME Inv, NEW a \in Attempts, ConfirmPaid(a)
    PROVE  ST!Pay(a) \/ UNCHANGED ST!stVars
<1> DEFINE r == RequestOf[a]
<1>1. CASE Overpays(a)
      BY <1>1, SameRows DEF ConfirmPaid
<1>2. CASE ~Overpays(a)
  <2>1. attStatus[a] = "sent_to_bank" /\ r \in Requests
        BY DataAssumption DEF ConfirmPaid, Inv, ConfirmationsHoldTheRow
  <2>2. attStatus' = [attStatus EXCEPT ![a] = "paid"] /\ UNCHANGED active
        BY <1>2 DEF ConfirmPaid, pubVars
  <2>3. PaidAttempts(r) \in SUBSET Attempts /\ a \in Attempts \ PaidAttempts(r)
        BY <2>1 DEF PaidAttempts, AttemptsOf
  <2>4. TotalOf[PaidAttempts(r) \cup {a}] <= Requested[r]
    <3>1. TotalOf[PaidAttempts(r) \cup {a}] = PaidSum(r) + AmountOf[a]
          BY <2>3, SumGrows DEF PaidSum
    <3>2. /\ PaidSum(r) \in Nat /\ Requested[r] \in Nat /\ AmountOf[a] \in Nat
          BY <2>1, SumsAreNumbers, DataAssumption
    <3>3. QED
          BY <1>2, <3>1, <3>2 DEF Overpays
  <2>5. ST!Made(r) = PaidAttempts(r)
        BY <2>1, MadeIsPaid DEF Inv
  <2>6. Outcomes' = [Outcomes EXCEPT ![a] = "paid"] /\ Outcomes[a] = "open"
    <3>1. OutcomeOf["paid"] = "paid" /\ OutcomeOf["sent_to_bank"] = "open"
          BY DEF OutcomeOf
    <3>2. \A b \in Attempts : attStatus'[b] = IF b = a THEN "paid" ELSE attStatus[b]
          BY <2>2 DEF Inv, TypeOK
    <3>3. QED
          BY <2>1, <3>1, <3>2 DEF Outcomes
  <2>7. Told' = Told
        BY <2>2 DEF Told
  <2>8. QED
        BY <2>4, <2>5, <2>6, <2>7 DEF ST!Pay, Outcomes, Told
<1>3. QED
      BY <1>1, <1>2

\* A failure is an outcome; what happens to a failed attempt later is not.
LEMMA ConfirmFailedFails ==
    ASSUME Inv, NEW a \in Attempts, ConfirmFailed(a)
    PROVE  ST!Fail(a)
<1>1. attStatus[a] = "sent_to_bank" /\ attStatus' = [attStatus EXCEPT ![a] = "failed"]
      BY DEF ConfirmFailed
<1>2. Outcomes' = [Outcomes EXCEPT ![a] = "failed"] /\ Outcomes[a] = "open"
  <2>1. OutcomeOf["failed"] = "failed" /\ OutcomeOf["sent_to_bank"] = "open"
        BY DEF OutcomeOf
  <2>2. \A b \in Attempts : attStatus'[b] = IF b = a THEN "failed" ELSE attStatus[b]
        BY <1>1 DEF Inv, TypeOK
  <2>3. Outcomes[a] = "open"
        BY <1>1, <2>1 DEF Outcomes
  <2>4. Outcomes' = [Outcomes EXCEPT ![a] = "failed"]
        BY <2>1, <2>2 DEF Outcomes
  <2>5. QED
        BY <2>3, <2>4
<1>3. Told' = Told
      BY DEF ConfirmFailed, pubVars, Told
<1>4. QED
      BY <1>2, <1>3 DEF ST!Fail, Outcomes, Told

LEMMA RetryIsUnseen ==
    ASSUME Inv, NEW a \in Attempts, NEW x \in Attempts,
           MarkRetryRequired(a) \/ CreateRetryAttempt(a, x)
    PROVE  UNCHANGED ST!stVars
<1>1. Outcomes' = Outcomes
      BY DEF MarkRetryRequired, CreateRetryAttempt, Outcomes, OutcomeOf, Inv, TypeOK,
             AttemptStatuses
<1>2. Told' = Told
      BY DEF MarkRetryRequired, CreateRetryAttempt, Told, pubVars
<1>3. QED
      BY <1>1, <1>2, Unseen

LEMMA BatchingIsUnseen ==
    ASSUME Inv, NEW r \in Requests, NEW S \in SUBSET Attempts,
           IncludeInBatch(r, S) \/ MarkSent(S)
    PROVE  UNCHANGED ST!stVars
<1>1. Outcomes' = Outcomes
      BY DEF IncludeInBatch, MarkSent, Outcomes, OutcomeOf, Inv, TypeOK, AttemptStatuses
<1>2. Told' = Told
      BY DEF IncludeInBatch, MarkSent, Told, pubVars
<1>3. QED
      BY <1>1, <1>2, Unseen

\* Every step of the commands is a step of the promise, or is not seen by it.
LEMMA StepMaps == Inv /\ [Next]_vars => [ST!STNext]_(ST!stVars)
<1> SUFFICES ASSUME Inv, [Next]_vars PROVE ST!STNext \/ UNCHANGED ST!stVars
    OBVIOUS
<1> USE DEF ST!STNext
<1>1. CASE \E r \in Requests, S \in SUBSET Attempts : IncludeInBatch(r, S)
      BY <1>1, BatchingIsUnseen
<1>2. CASE \E S \in SUBSET Attempts : MarkSent(S)
  <2>1. PICK S \in SUBSET Attempts : MarkSent(S)
        BY <1>2
  <2>2. PICK r \in Requests : TRUE
        BY <2>1, DataAssumption DEF MarkSent
  <2>3. QED
        BY <2>1, <2>2, BatchingIsUnseen
<1>3. CASE \E a \in Attempts, n \in TrackingNumbers : CheckPaid(a, n)
      BY <1>3, SameRows DEF CheckPaid
<1>4. CASE \E a \in Attempts : ConfirmPaid(a) \/ AbandonConfirmation(a) \/ ConfirmFailed(a)
  <2>1. PICK a \in Attempts : ConfirmPaid(a) \/ AbandonConfirmation(a) \/ ConfirmFailed(a)
        BY <1>4
  <2>2. CASE AbandonConfirmation(a)
        BY <2>2, SameRows DEF AbandonConfirmation
  <2>3. QED
        BY <2>1, <2>2, ConfirmPaidPays, ConfirmFailedFails
<1>5. CASE \E a \in Attempts : MarkRetryRequired(a)
      BY <1>5, RetryIsUnseen
<1>6. CASE \E a, x \in Attempts : CreateRetryAttempt(a, x)
      BY <1>6, RetryIsUnseen
<1>7. CASE \E r \in Requests : CancelReads(r) \/ CancelCommits(r) \/ PreviewPublication(r)
      BY <1>7, SameRows DEF CancelReads, CancelCommits, PreviewPublication, attVars
<1>8. CASE \E r \in Requests, s \in Segments \cup {Null} : PublishResult(r, s)
      BY <1>8, PublishTells
<1>9. CASE \E r \in Requests, answer \in {"trader_acknowledged", "trader_disputed"} :
             Respond(r, answer)
      BY <1>9, SameRows DEF Respond, attVars
<1>10. CASE \E r \in Requests, s \in Segments : CorrectPublishedResult(r, s)
      BY <1>10, CorrectionTellsTheSame
<1>11. CASE UNCHANGED vars
      BY <1>11, SameRows DEF vars, attVars
<1>12. QED
      BY <1>1, <1>2, <1>3, <1>4, <1>5, <1>6, <1>7, <1>8, <1>9, <1>10, <1>11 DEF Next

LEMMA InitMaps == Init => ST!STInit
BY DEF Init, ST!STInit, OutcomeOf

\* The result commands implement the settlement promise, for every set of requests
\* and attempts, whatever the amounts.
THEOREM Refinement == Spec => ImplementsSettlement
BY Invariant, StepMaps, InitMaps, PTL DEF Spec, ImplementsSettlement, ST!STSpec


=============================================================================
