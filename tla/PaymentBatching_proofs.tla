----------------------- MODULE PaymentBatching_proofs -----------------------
(***************************************************************************)
(* The safety of PaymentBatching for any number of requests, batches,      *)
(* versions, files and administrators.                                     *)
(*                                                                         *)
(* The conjunction Inv is inductive.  Each conjunct is preserved by a      *)
(* lemma of its own, one step per action; every lemma starts from the whole *)
(* of Inv because the conjuncts lean on each other: that a batch's sent    *)
(* mark comes from a version of its own (SentTogether) needs that the      *)
(* file's version exists (FinalFileAuthorised, DecidedByAnother) and that  *)
(* an existing version names an existing batch (RowsHaveProvenance).       *)
(*                                                                         *)
(* At the end, what create_batch and create_replacement_version do before  *)
(* they write anything: the rows of Splitting.                             *)
(***************************************************************************)
EXTENDS PaymentBatching, Splitting, TLAPS

\* A final export names a version that exists, of a batch that exists.
LEMMA FinalNamesAVersion ==
  ASSUME Inv, NEW e \in Exports, expKind[e] = "final"
  PROVE  /\ expVersion[e] \in Versions
         /\ verStatus[expVersion[e]] # "none"
         /\ verBatch[expVersion[e]] \in Batches
         /\ batchStatus[verBatch[expVersion[e]]] # "none"
BY DEF Inv, FinalFileAuthorised, DecidedByAnother, RowsHaveProvenance

\* A version built from fresh attempts disturbs nothing that was sent: no marked
\* file names it yet.
LEMMA BuildKeepsSentTogether ==
  ASSUME Inv, NEW a \in Admins, NEW b \in Batches, NEW v \in Versions,
         NEW S \in SUBSET Requests, BuildVersion(a, b, v, S),
         \A c \in Batches : batchStatus'[c] = "sent_to_bank" => batchStatus[c] = "sent_to_bank",
         UNCHANGED <<expVersion, marked>>
  PROVE  SentTogether'
<1>1. \A e \in marked : expVersion[e] \in Versions \ {v}
  BY FinalNamesAVersion DEF BuildVersion, Inv, TypeOK, FinalFileAuthorised
<1>2. /\ \A w \in Versions \ {v} : /\ rows'[w] = rows[w]
                                    /\ attempt'[w] = attempt[w]
                                    /\ verBatch'[w] = verBatch[w]
      /\ rows'[v] = S
      /\ \A r \in Requests : attempt'[v][r] =
           IF r \in S THEN "included_in_batch_version" ELSE "none"
  BY DEF BuildVersion, Inv, TypeOK
<1>3. SentTogether
  BY DEF Inv
<1>4. \A e \in marked' : \A r \in rows'[expVersion'[e]] :
        attempt'[expVersion'[e]][r] = "sent_to_bank"
  BY <1>1, <1>2, <1>3 DEF SentTogether
<1>5. ASSUME NEW w \in Versions, NEW r \in Requests
      PROVE  /\ r \in rows'[w] <=> attempt'[w][r] # "none"
             /\ attempt'[w][r] = "sent_to_bank" => \E e \in marked' : expVersion'[e] = w
  <2>1. CASE w = v
    BY <1>2, <2>1
  <2>2. CASE w # v
    BY <1>2, <1>3, <2>2 DEF SentTogether
  <2>3. QED
    BY <2>1, <2>2
<1>6. \A c \in Batches : batchStatus'[c] = "sent_to_bank" =>
        \E e \in marked' : verBatch'[expVersion'[e]] = c
  BY <1>1, <1>2, <1>3 DEF SentTogether
<1>7. QED
  BY <1>4, <1>5, <1>6 DEF SentTogether

\* The initial rows satisfy every conjunct: there are none.
LEMMA InvInit == Init => Inv
<1> SUFFICES ASSUME Init PROVE Inv
  OBVIOUS
<1> USE DEF Init
<1>1. TypeOK
  BY DEF TypeOK, RequestStatuses, BatchStatuses, VersionStatuses, AttemptStatuses,
         ExportStatuses
<1>2. ProjectionOfCurrent /\ OneOperationalVersion /\ SupersededHoldsNothing
  BY DEF ProjectionOfCurrent, ProjectedStatuses, OneOperationalVersion,
         SupersededHoldsNothing
<1>3. AllocationsBackTheItems /\ DecidedByAnother /\ FinalFileAuthorised
  BY DEF AllocationsBackTheItems, DecidedByAnother, FinalFileAuthorised
<1>4. OneActiveFinal /\ SentTogether /\ RowsHaveProvenance
  BY DEF OneActiveFinal, SentTogether, RowsHaveProvenance
<1>5. QED
  BY <1>1, <1>2, <1>3, <1>4 DEF Inv

-----------------------------------------------------------------------------
\* Every command writes only statuses and identifiers the columns admit.
LEMMA TypeOKStep == Inv /\ [Next]_vars => TypeOK'
<1> SUFFICES ASSUME Inv, [Next]_vars PROVE TypeOK'
  OBVIOUS
<1> USE NullAssumption DEF Inv, TypeOK, RequestStatuses, VersionStatuses,
        BatchStatuses, ProjectedStatuses, AttemptStatuses, ExportStatuses,
        ActiveFinal, UnsentFinal, RowsHaveProvenance, FinalFileAuthorised
<1>1. ASSUME NEW r \in Requests, CancelRequest(r)
     PROVE  TypeOK'
  BY <1>1 DEF CancelRequest, batVars, verVars, decVars, attVars, expVars
<1>2. ASSUME NEW v \in Versions, RetireConfiguration(v)
     PROVE  TypeOK'
  BY <1>2 DEF RetireConfiguration, batVars, verVars, decVars, attVars, expVars
<1>3. ASSUME NEW e \in Exports, FileDrifts(e)
     PROVE  TypeOK'
  BY <1>3 DEF FileDrifts, reqVars, batVars, verVars, decVars, attVars
<1>4. ASSUME NEW a \in Admins, NEW b \in Batches, NEW v \in Versions,
             NEW S \in SUBSET Requests, CreateBatch(a, b, v, S)
     PROVE  TypeOK'
  BY <1>4 DEF CreateBatch, BuildVersion, Current, Reallocated, reqVars,
        decVars, expVars
<1>5. ASSUME NEW a \in Admins, NEW b \in Batches, NEW v \in Versions,
             NEW S \in SUBSET Requests, CreateReplacementVersion(a, b, v, S)
     PROVE  TypeOK'
  BY <1>5 DEF CreateReplacementVersion, BuildVersion, Reallocated,
        VoidActiveFinalExports, reqVars, decVars
<1>6. ASSUME NEW a \in Admins, NEW b \in Batches, CancelBatch(a, b)
     PROVE  TypeOK'
  BY <1>6 DEF CancelBatch, VoidActiveFinalExports, reqVars, verVars, decVars
<1>7. ASSUME NEW a \in Admins, NEW v \in Versions, FinalizeVersion(a, v)
     PROVE  TypeOK'
  BY <1>7 DEF FinalizeVersion, EveryItemOwnsItsAllocation, IsCurrent, reqVars,
        decVars, attVars, expVars
<1>8. ASSUME NEW a \in Admins, NEW v \in Versions,
             NEW outcome \in {"approved", "rejected"}, Decide(a, v, outcome)
     PROVE  TypeOK'
  BY <1>8 DEF Decide, RefuseIfTheDeciderMadeThisVersion, IsCurrent, reqVars,
        attVars, expVars
<1>9. ASSUME NEW v \in Versions, NEW e \in Exports, GeneratePreview(v, e)
     PROVE  TypeOK'
  BY <1>9 DEF GeneratePreview, NewExport, reqVars, batVars, verVars, decVars,
        attVars
<1>10. ASSUME NEW v \in Versions, NEW e \in Exports,
             NEW holds \in BOOLEAN, GenerateFinal(v, e, holds)
     PROVE  TypeOK'
  BY <1>10 DEF GenerateFinal, NewExport, NoOtherActiveFinal, reqVars, batVars,
        verVars, decVars, attVars
<1>11. ASSUME NEW e \in Exports, DownloadExport(e)
     PROVE  TypeOK'
  BY <1>11 DEF DownloadExport, reqVars, batVars, verVars, decVars, attVars
<1>12. ASSUME NEW e \in Exports, DownloadCommits(e)
     PROVE  TypeOK'
  BY <1>12 DEF DownloadCommits, NoOtherActiveFinal, reqVars, batVars, verVars,
        decVars, attVars
<1>13. ASSUME NEW a \in Admins, NEW e \in Exports, MarkSent(a, e)
     PROVE  TypeOK'
  <2>1. expVersion[e] \in Versions /\ verBatch[expVersion[e]] \in Batches
    BY <1>13, FinalNamesAVersion DEF MarkSent
  <2>2. AttemptsMarkedSent(expVersion[e]) \in [Versions -> [Requests -> AttemptStatuses]]
    BY <2>1 DEF AttemptsMarkedSent
  <2>3. QED
    BY <1>13, <2>1, <2>2 DEF MarkSent, reqVars, verVars, decVars
<1>14. CASE UNCHANGED vars
  BY <1>14 DEF vars, reqVars, batVars, verVars, decVars, attVars, expVars
<1> HIDE DEF Inv, TypeOK, RequestStatuses, VersionStatuses, BatchStatuses,
        ProjectedStatuses, AttemptStatuses, ExportStatuses, ActiveFinal,
        UnsentFinal, RowsHaveProvenance, FinalFileAuthorised
<1>15. QED
  BY <1>1, <1>2, <1>3, <1>4, <1>5, <1>6, <1>7, <1>8, <1>9, <1>10, <1>11,
        <1>12, <1>13, <1>14 DEF Next

\* No command moves a container without its current version, or the reverse.
LEMMA ProjectionOfCurrentStep == Inv /\ [Next]_vars => ProjectionOfCurrent'
<1> SUFFICES ASSUME Inv, [Next]_vars PROVE ProjectionOfCurrent'
  OBVIOUS
<1> USE NullAssumption DEF Inv, TypeOK, ProjectionOfCurrent,
        OneOperationalVersion, RowsHaveProvenance, ProjectedStatuses,
        IsCurrent
<1>1. ASSUME NEW r \in Requests, CancelRequest(r)
     PROVE  ProjectionOfCurrent'
  BY <1>1 DEF CancelRequest, batVars, verVars, decVars, attVars, expVars
<1>2. ASSUME NEW v \in Versions, RetireConfiguration(v)
     PROVE  ProjectionOfCurrent'
  BY <1>2 DEF RetireConfiguration, batVars, verVars, decVars, attVars, expVars
<1>3. ASSUME NEW e \in Exports, FileDrifts(e)
     PROVE  ProjectionOfCurrent'
  BY <1>3 DEF FileDrifts, reqVars, batVars, verVars, decVars, attVars
<1>4. ASSUME NEW a \in Admins, NEW b \in Batches, NEW v \in Versions,
             NEW S \in SUBSET Requests, CreateBatch(a, b, v, S)
     PROVE  ProjectionOfCurrent'
  BY <1>4 DEF CreateBatch, BuildVersion, Current, Reallocated, reqVars,
        decVars, expVars
<1>5. ASSUME NEW a \in Admins, NEW b \in Batches, NEW v \in Versions,
             NEW S \in SUBSET Requests, CreateReplacementVersion(a, b, v, S)
     PROVE  ProjectionOfCurrent'
  BY <1>5 DEF CreateReplacementVersion, BuildVersion, Reallocated,
        VoidActiveFinalExports, reqVars, decVars
<1>6. ASSUME NEW a \in Admins, NEW b \in Batches, CancelBatch(a, b)
     PROVE  ProjectionOfCurrent'
  BY <1>6 DEF CancelBatch, VoidActiveFinalExports, reqVars, verVars, decVars
<1>7. ASSUME NEW a \in Admins, NEW v \in Versions, FinalizeVersion(a, v)
     PROVE  ProjectionOfCurrent'
  BY <1>7 DEF FinalizeVersion, EveryItemOwnsItsAllocation, reqVars, decVars,
        attVars, expVars
<1>8. ASSUME NEW a \in Admins, NEW v \in Versions,
             NEW outcome \in {"approved", "rejected"}, Decide(a, v, outcome)
     PROVE  ProjectionOfCurrent'
  BY <1>8 DEF Decide, RefuseIfTheDeciderMadeThisVersion, reqVars, attVars,
        expVars
<1>9. ASSUME NEW v \in Versions, NEW e \in Exports, GeneratePreview(v, e)
     PROVE  ProjectionOfCurrent'
  BY <1>9 DEF GeneratePreview, NewExport, reqVars, batVars, verVars, decVars,
        attVars
<1>10. ASSUME NEW v \in Versions, NEW e \in Exports,
             NEW holds \in BOOLEAN, GenerateFinal(v, e, holds)
     PROVE  ProjectionOfCurrent'
  BY <1>10 DEF GenerateFinal, NewExport, NoOtherActiveFinal, reqVars, batVars,
        verVars, decVars, attVars
<1>11. ASSUME NEW e \in Exports, DownloadExport(e)
     PROVE  ProjectionOfCurrent'
  BY <1>11 DEF DownloadExport, reqVars, batVars, verVars, decVars, attVars
<1>12. ASSUME NEW e \in Exports, DownloadCommits(e)
     PROVE  ProjectionOfCurrent'
  BY <1>12 DEF DownloadCommits, NoOtherActiveFinal, reqVars, batVars, verVars,
        decVars, attVars
<1>13. ASSUME NEW a \in Admins, NEW e \in Exports, MarkSent(a, e)
     PROVE  ProjectionOfCurrent'
  BY <1>13 DEF MarkSent, NoOtherActiveFinal, AttemptsMarkedSent, reqVars,
        verVars, decVars
<1>14. CASE UNCHANGED vars
  BY <1>14 DEF vars, reqVars, batVars, verVars, decVars, attVars, expVars
<1> HIDE DEF Inv, TypeOK, ProjectionOfCurrent, OneOperationalVersion,
        RowsHaveProvenance, ProjectedStatuses, IsCurrent
<1>15. QED
  BY <1>1, <1>2, <1>3, <1>4, <1>5, <1>6, <1>7, <1>8, <1>9, <1>10, <1>11,
        <1>12, <1>13, <1>14 DEF Next

\* Replacement supersedes the one version that was in force.
LEMMA OneOperationalVersionStep == Inv /\ [Next]_vars => OneOperationalVersion'
<1> SUFFICES ASSUME Inv, [Next]_vars PROVE OneOperationalVersion'
  OBVIOUS
<1> USE NullAssumption DEF Inv, TypeOK, OneOperationalVersion,
        RowsHaveProvenance, IsCurrent
<1>1. ASSUME NEW r \in Requests, CancelRequest(r)
     PROVE  OneOperationalVersion'
  BY <1>1 DEF CancelRequest, batVars, verVars, decVars, attVars, expVars
<1>2. ASSUME NEW v \in Versions, RetireConfiguration(v)
     PROVE  OneOperationalVersion'
  BY <1>2 DEF RetireConfiguration, batVars, verVars, decVars, attVars, expVars
<1>3. ASSUME NEW e \in Exports, FileDrifts(e)
     PROVE  OneOperationalVersion'
  BY <1>3 DEF FileDrifts, reqVars, batVars, verVars, decVars, attVars
<1>4. ASSUME NEW a \in Admins, NEW b \in Batches, NEW v \in Versions,
             NEW S \in SUBSET Requests, CreateBatch(a, b, v, S)
     PROVE  OneOperationalVersion'
  BY <1>4 DEF CreateBatch, BuildVersion, Current, Reallocated, reqVars,
        decVars, expVars
<1>5. ASSUME NEW a \in Admins, NEW b \in Batches, NEW v \in Versions,
             NEW S \in SUBSET Requests, CreateReplacementVersion(a, b, v, S)
     PROVE  OneOperationalVersion'
  BY <1>5 DEF CreateReplacementVersion, BuildVersion, Reallocated,
        VoidActiveFinalExports, reqVars, decVars
<1>6. ASSUME NEW a \in Admins, NEW b \in Batches, CancelBatch(a, b)
     PROVE  OneOperationalVersion'
  BY <1>6 DEF CancelBatch, VoidActiveFinalExports, reqVars, verVars, decVars
<1>7. ASSUME NEW a \in Admins, NEW v \in Versions, FinalizeVersion(a, v)
     PROVE  OneOperationalVersion'
  BY <1>7 DEF FinalizeVersion, EveryItemOwnsItsAllocation, reqVars, decVars,
        attVars, expVars
<1>8. ASSUME NEW a \in Admins, NEW v \in Versions,
             NEW outcome \in {"approved", "rejected"}, Decide(a, v, outcome)
     PROVE  OneOperationalVersion'
  BY <1>8 DEF Decide, RefuseIfTheDeciderMadeThisVersion, reqVars, attVars,
        expVars
<1>9. ASSUME NEW v \in Versions, NEW e \in Exports, GeneratePreview(v, e)
     PROVE  OneOperationalVersion'
  BY <1>9 DEF GeneratePreview, NewExport, reqVars, batVars, verVars, decVars,
        attVars
<1>10. ASSUME NEW v \in Versions, NEW e \in Exports,
             NEW holds \in BOOLEAN, GenerateFinal(v, e, holds)
     PROVE  OneOperationalVersion'
  BY <1>10 DEF GenerateFinal, NewExport, NoOtherActiveFinal, reqVars, batVars,
        verVars, decVars, attVars
<1>11. ASSUME NEW e \in Exports, DownloadExport(e)
     PROVE  OneOperationalVersion'
  BY <1>11 DEF DownloadExport, reqVars, batVars, verVars, decVars, attVars
<1>12. ASSUME NEW e \in Exports, DownloadCommits(e)
     PROVE  OneOperationalVersion'
  BY <1>12 DEF DownloadCommits, NoOtherActiveFinal, reqVars, batVars, verVars,
        decVars, attVars
<1>13. ASSUME NEW a \in Admins, NEW e \in Exports, MarkSent(a, e)
     PROVE  OneOperationalVersion'
  BY <1>13, FinalNamesAVersion DEF MarkSent, verVars
<1>14. CASE UNCHANGED vars
  BY <1>14 DEF vars, reqVars, batVars, verVars, decVars, attVars, expVars
<1> HIDE DEF Inv, TypeOK, OneOperationalVersion, RowsHaveProvenance, IsCurrent
<1>15. QED
  BY <1>1, <1>2, <1>3, <1>4, <1>5, <1>6, <1>7, <1>8, <1>9, <1>10, <1>11,
        <1>12, <1>13, <1>14 DEF Next

\* Nothing gives a superseded version an allocation or a sendable file again.
LEMMA SupersededHoldsNothingStep == Inv /\ [Next]_vars => SupersededHoldsNothing'
<1> SUFFICES ASSUME Inv, [Next]_vars PROVE SupersededHoldsNothing'
  OBVIOUS
<1> USE NullAssumption DEF Inv, TypeOK, SupersededHoldsNothing,
        OneOperationalVersion, RowsHaveProvenance, IsCurrent, UnsentFinal
<1>1. ASSUME NEW r \in Requests, CancelRequest(r)
     PROVE  SupersededHoldsNothing'
  BY <1>1 DEF CancelRequest, batVars, verVars, decVars, attVars, expVars
<1>2. ASSUME NEW v \in Versions, RetireConfiguration(v)
     PROVE  SupersededHoldsNothing'
  BY <1>2 DEF RetireConfiguration, batVars, verVars, decVars, attVars, expVars
<1>3. ASSUME NEW e \in Exports, FileDrifts(e)
     PROVE  SupersededHoldsNothing'
  BY <1>3 DEF FileDrifts, reqVars, batVars, verVars, decVars, attVars
<1>4. ASSUME NEW a \in Admins, NEW b \in Batches, NEW v \in Versions,
             NEW S \in SUBSET Requests, CreateBatch(a, b, v, S)
     PROVE  SupersededHoldsNothing'
  BY <1>4 DEF CreateBatch, BuildVersion, Current, Reallocated, reqVars,
        decVars, expVars
<1>5. ASSUME NEW a \in Admins, NEW b \in Batches, NEW v \in Versions,
             NEW S \in SUBSET Requests, CreateReplacementVersion(a, b, v, S)
     PROVE  SupersededHoldsNothing'
  BY <1>5 DEF CreateReplacementVersion, BuildVersion, Reallocated,
        VoidActiveFinalExports, reqVars, decVars
<1>6. ASSUME NEW a \in Admins, NEW b \in Batches, CancelBatch(a, b)
     PROVE  SupersededHoldsNothing'
  BY <1>6 DEF CancelBatch, VoidActiveFinalExports, reqVars, verVars, decVars
<1>7. ASSUME NEW a \in Admins, NEW v \in Versions, FinalizeVersion(a, v)
     PROVE  SupersededHoldsNothing'
  BY <1>7 DEF FinalizeVersion, EveryItemOwnsItsAllocation, reqVars, decVars,
        attVars, expVars
<1>8. ASSUME NEW a \in Admins, NEW v \in Versions,
             NEW outcome \in {"approved", "rejected"}, Decide(a, v, outcome)
     PROVE  SupersededHoldsNothing'
  BY <1>8 DEF Decide, RefuseIfTheDeciderMadeThisVersion, reqVars, attVars,
        expVars
<1>9. ASSUME NEW v \in Versions, NEW e \in Exports, GeneratePreview(v, e)
     PROVE  SupersededHoldsNothing'
  BY <1>9 DEF GeneratePreview, NewExport, reqVars, batVars, verVars, decVars,
        attVars
<1>10. ASSUME NEW v \in Versions, NEW e \in Exports,
             NEW holds \in BOOLEAN, GenerateFinal(v, e, holds)
     PROVE  SupersededHoldsNothing'
  BY <1>10 DEF GenerateFinal, NewExport, NoOtherActiveFinal, reqVars, batVars,
        verVars, decVars, attVars
<1>11. ASSUME NEW e \in Exports, DownloadExport(e)
     PROVE  SupersededHoldsNothing'
  BY <1>11 DEF DownloadExport, reqVars, batVars, verVars, decVars, attVars
<1>12. ASSUME NEW e \in Exports, DownloadCommits(e)
     PROVE  SupersededHoldsNothing'
  BY <1>12 DEF DownloadCommits, NoOtherActiveFinal, reqVars, batVars, verVars,
        decVars, attVars
<1>13. ASSUME NEW a \in Admins, NEW e \in Exports, MarkSent(a, e)
     PROVE  SupersededHoldsNothing'
  BY <1>13 DEF MarkSent, NoOtherActiveFinal, AttemptsMarkedSent, reqVars,
        verVars, decVars
<1>14. CASE UNCHANGED vars
  BY <1>14 DEF vars, reqVars, batVars, verVars, decVars, attVars, expVars
<1> HIDE DEF Inv, TypeOK, SupersededHoldsNothing, OneOperationalVersion,
        RowsHaveProvenance, IsCurrent, UnsentFinal
<1>15. QED
  BY <1>1, <1>2, <1>3, <1>4, <1>5, <1>6, <1>7, <1>8, <1>9, <1>10, <1>11,
        <1>12, <1>13, <1>14 DEF Next

\* Finalization's own check of the allocations is what carries this step: it is
\* the one command that can give a cancelled batch's draft a live status.
LEMMA AllocationsBackTheItemsStep == Inv /\ [Next]_vars => AllocationsBackTheItems'
<1> SUFFICES ASSUME Inv, [Next]_vars PROVE AllocationsBackTheItems'
  OBVIOUS
<1> USE NullAssumption DEF Inv, TypeOK, AllocationsBackTheItems,
        OneOperationalVersion, RowsHaveProvenance, IsCurrent
<1>1. ASSUME NEW r \in Requests, CancelRequest(r)
     PROVE  AllocationsBackTheItems'
  BY <1>1 DEF CancelRequest, batVars, verVars, decVars, attVars, expVars
<1>2. ASSUME NEW v \in Versions, RetireConfiguration(v)
     PROVE  AllocationsBackTheItems'
  BY <1>2 DEF RetireConfiguration, batVars, verVars, decVars, attVars, expVars
<1>3. ASSUME NEW e \in Exports, FileDrifts(e)
     PROVE  AllocationsBackTheItems'
  BY <1>3 DEF FileDrifts, reqVars, batVars, verVars, decVars, attVars
<1>4. ASSUME NEW a \in Admins, NEW b \in Batches, NEW v \in Versions,
             NEW S \in SUBSET Requests, CreateBatch(a, b, v, S)
     PROVE  AllocationsBackTheItems'
  BY <1>4 DEF CreateBatch, BuildVersion, Current, Reallocated, reqVars,
        decVars, expVars
<1>5. ASSUME NEW a \in Admins, NEW b \in Batches, NEW v \in Versions,
             NEW S \in SUBSET Requests, CreateReplacementVersion(a, b, v, S)
     PROVE  AllocationsBackTheItems'
  BY <1>5 DEF CreateReplacementVersion, BuildVersion, Reallocated,
        VoidActiveFinalExports, reqVars, decVars
<1>6. ASSUME NEW a \in Admins, NEW b \in Batches, CancelBatch(a, b)
     PROVE  AllocationsBackTheItems'
  BY <1>6 DEF CancelBatch, VoidActiveFinalExports, reqVars, verVars, decVars
<1>7. ASSUME NEW a \in Admins, NEW v \in Versions, FinalizeVersion(a, v)
     PROVE  AllocationsBackTheItems'
  <2>1. verBatch[v] \in Batches /\ current[verBatch[v]] = v
    BY <1>7 DEF FinalizeVersion
  <2>2. allocated[v] = rows[v]
    BY <1>7 DEF FinalizeVersion, EveryItemOwnsItsAllocation
  <2>3. \A b \in Batches \ {verBatch[v]} : batchStatus'[b] = batchStatus[b]
    BY <1>7 DEF FinalizeVersion
  <2>4. UNCHANGED <<current, rows, allocated>>
    BY <1>7 DEF FinalizeVersion, attVars
  <2>5. QED
    BY <2>1, <2>2, <2>3, <2>4
<1>8. ASSUME NEW a \in Admins, NEW v \in Versions,
             NEW outcome \in {"approved", "rejected"}, Decide(a, v, outcome)
     PROVE  AllocationsBackTheItems'
  BY <1>8 DEF Decide, RefuseIfTheDeciderMadeThisVersion, reqVars, attVars,
        expVars
<1>9. ASSUME NEW v \in Versions, NEW e \in Exports, GeneratePreview(v, e)
     PROVE  AllocationsBackTheItems'
  BY <1>9 DEF GeneratePreview, NewExport, reqVars, batVars, verVars, decVars,
        attVars
<1>10. ASSUME NEW v \in Versions, NEW e \in Exports,
             NEW holds \in BOOLEAN, GenerateFinal(v, e, holds)
     PROVE  AllocationsBackTheItems'
  BY <1>10 DEF GenerateFinal, NewExport, NoOtherActiveFinal, reqVars, batVars,
        verVars, decVars, attVars
<1>11. ASSUME NEW e \in Exports, DownloadExport(e)
     PROVE  AllocationsBackTheItems'
  BY <1>11 DEF DownloadExport, reqVars, batVars, verVars, decVars, attVars
<1>12. ASSUME NEW e \in Exports, DownloadCommits(e)
     PROVE  AllocationsBackTheItems'
  BY <1>12 DEF DownloadCommits, NoOtherActiveFinal, reqVars, batVars, verVars,
        decVars, attVars
<1>13. ASSUME NEW a \in Admins, NEW e \in Exports, MarkSent(a, e)
     PROVE  AllocationsBackTheItems'
  BY <1>13 DEF MarkSent, NoOtherActiveFinal, AttemptsMarkedSent, reqVars,
        verVars, decVars
<1>14. CASE UNCHANGED vars
  BY <1>14 DEF vars, reqVars, batVars, verVars, decVars, attVars, expVars
<1> HIDE DEF Inv, TypeOK, AllocationsBackTheItems, OneOperationalVersion,
        RowsHaveProvenance, IsCurrent
<1>15. QED
  BY <1>1, <1>2, <1>3, <1>4, <1>5, <1>6, <1>7, <1>8, <1>9, <1>10, <1>11,
        <1>12, <1>13, <1>14 DEF Next

\* The makers of a version are fixed before anyone can decide it.
LEMMA DecidedByAnotherStep == Inv /\ [Next]_vars => DecidedByAnother'
<1> SUFFICES ASSUME Inv, [Next]_vars PROVE DecidedByAnother'
  OBVIOUS
<1> USE NullAssumption DEF Inv, TypeOK, DecidedByAnother, RowsHaveProvenance
<1>1. ASSUME NEW r \in Requests, CancelRequest(r)
     PROVE  DecidedByAnother'
  BY <1>1 DEF CancelRequest, batVars, verVars, decVars, attVars, expVars
<1>2. ASSUME NEW v \in Versions, RetireConfiguration(v)
     PROVE  DecidedByAnother'
  BY <1>2 DEF RetireConfiguration, batVars, verVars, decVars, attVars, expVars
<1>3. ASSUME NEW e \in Exports, FileDrifts(e)
     PROVE  DecidedByAnother'
  BY <1>3 DEF FileDrifts, reqVars, batVars, verVars, decVars, attVars
<1>4. ASSUME NEW a \in Admins, NEW b \in Batches, NEW v \in Versions,
             NEW S \in SUBSET Requests, CreateBatch(a, b, v, S)
     PROVE  DecidedByAnother'
  BY <1>4 DEF CreateBatch, BuildVersion, Current, Reallocated, reqVars,
        decVars, expVars
<1>5. ASSUME NEW a \in Admins, NEW b \in Batches, NEW v \in Versions,
             NEW S \in SUBSET Requests, CreateReplacementVersion(a, b, v, S)
     PROVE  DecidedByAnother'
  BY <1>5 DEF CreateReplacementVersion, BuildVersion, Reallocated,
        VoidActiveFinalExports, reqVars, decVars
<1>6. ASSUME NEW a \in Admins, NEW b \in Batches, CancelBatch(a, b)
     PROVE  DecidedByAnother'
  BY <1>6 DEF CancelBatch, VoidActiveFinalExports, reqVars, verVars, decVars
<1>7. ASSUME NEW a \in Admins, NEW v \in Versions, FinalizeVersion(a, v)
     PROVE  DecidedByAnother'
  BY <1>7 DEF FinalizeVersion, EveryItemOwnsItsAllocation, IsCurrent, reqVars,
        decVars, attVars, expVars
<1>8. ASSUME NEW a \in Admins, NEW v \in Versions,
             NEW outcome \in {"approved", "rejected"}, Decide(a, v, outcome)
     PROVE  DecidedByAnother'
  BY <1>8 DEF Decide, RefuseIfTheDeciderMadeThisVersion, IsCurrent, reqVars,
        attVars, expVars
<1>9. ASSUME NEW v \in Versions, NEW e \in Exports, GeneratePreview(v, e)
     PROVE  DecidedByAnother'
  BY <1>9 DEF GeneratePreview, NewExport, reqVars, batVars, verVars, decVars,
        attVars
<1>10. ASSUME NEW v \in Versions, NEW e \in Exports,
             NEW holds \in BOOLEAN, GenerateFinal(v, e, holds)
     PROVE  DecidedByAnother'
  BY <1>10 DEF GenerateFinal, NewExport, NoOtherActiveFinal, reqVars, batVars,
        verVars, decVars, attVars
<1>11. ASSUME NEW e \in Exports, DownloadExport(e)
     PROVE  DecidedByAnother'
  BY <1>11 DEF DownloadExport, reqVars, batVars, verVars, decVars, attVars
<1>12. ASSUME NEW e \in Exports, DownloadCommits(e)
     PROVE  DecidedByAnother'
  BY <1>12 DEF DownloadCommits, NoOtherActiveFinal, reqVars, batVars, verVars,
        decVars, attVars
<1>13. ASSUME NEW a \in Admins, NEW e \in Exports, MarkSent(a, e)
     PROVE  DecidedByAnother'
  BY <1>13 DEF MarkSent, NoOtherActiveFinal, AttemptsMarkedSent, reqVars,
        verVars, decVars
<1>14. CASE UNCHANGED vars
  BY <1>14 DEF vars, reqVars, batVars, verVars, decVars, attVars, expVars
<1> HIDE DEF Inv, TypeOK, DecidedByAnother, RowsHaveProvenance
<1>15. QED
  BY <1>1, <1>2, <1>3, <1>4, <1>5, <1>6, <1>7, <1>8, <1>9, <1>10, <1>11,
        <1>12, <1>13, <1>14 DEF Next

\* A decision outlives its version's supersession, so its files stay authorised.
LEMMA FinalFileAuthorisedStep == Inv /\ [Next]_vars => FinalFileAuthorised'
<1> SUFFICES ASSUME Inv, [Next]_vars PROVE FinalFileAuthorised'
  OBVIOUS
<1> USE NullAssumption DEF Inv, TypeOK, FinalFileAuthorised, DecidedByAnother,
        RowsHaveProvenance
<1>1. ASSUME NEW r \in Requests, CancelRequest(r)
     PROVE  FinalFileAuthorised'
  BY <1>1 DEF CancelRequest, batVars, verVars, decVars, attVars, expVars
<1>2. ASSUME NEW v \in Versions, RetireConfiguration(v)
     PROVE  FinalFileAuthorised'
  BY <1>2 DEF RetireConfiguration, batVars, verVars, decVars, attVars, expVars
<1>3. ASSUME NEW e \in Exports, FileDrifts(e)
     PROVE  FinalFileAuthorised'
  BY <1>3 DEF FileDrifts, reqVars, batVars, verVars, decVars, attVars
<1>4. ASSUME NEW a \in Admins, NEW b \in Batches, NEW v \in Versions,
             NEW S \in SUBSET Requests, CreateBatch(a, b, v, S)
     PROVE  FinalFileAuthorised'
  BY <1>4 DEF CreateBatch, BuildVersion, Current, Reallocated, reqVars,
        decVars, expVars
<1>5. ASSUME NEW a \in Admins, NEW b \in Batches, NEW v \in Versions,
             NEW S \in SUBSET Requests, CreateReplacementVersion(a, b, v, S)
     PROVE  FinalFileAuthorised'
  BY <1>5 DEF CreateReplacementVersion, BuildVersion, Reallocated,
        VoidActiveFinalExports, reqVars, decVars
<1>6. ASSUME NEW a \in Admins, NEW b \in Batches, CancelBatch(a, b)
     PROVE  FinalFileAuthorised'
  BY <1>6 DEF CancelBatch, VoidActiveFinalExports, reqVars, verVars, decVars
<1>7. ASSUME NEW a \in Admins, NEW v \in Versions, FinalizeVersion(a, v)
     PROVE  FinalFileAuthorised'
  BY <1>7 DEF FinalizeVersion, EveryItemOwnsItsAllocation, IsCurrent, reqVars,
        decVars, attVars, expVars
<1>8. ASSUME NEW a \in Admins, NEW v \in Versions,
             NEW outcome \in {"approved", "rejected"}, Decide(a, v, outcome)
     PROVE  FinalFileAuthorised'
  BY <1>8 DEF Decide, RefuseIfTheDeciderMadeThisVersion, IsCurrent, reqVars,
        attVars, expVars
<1>9. ASSUME NEW v \in Versions, NEW e \in Exports, GeneratePreview(v, e)
     PROVE  FinalFileAuthorised'
  BY <1>9 DEF GeneratePreview, NewExport, reqVars, batVars, verVars, decVars,
        attVars
<1>10. ASSUME NEW v \in Versions, NEW e \in Exports,
             NEW holds \in BOOLEAN, GenerateFinal(v, e, holds)
     PROVE  FinalFileAuthorised'
  BY <1>10 DEF GenerateFinal, NewExport, NoOtherActiveFinal, reqVars, batVars,
        verVars, decVars, attVars
<1>11. ASSUME NEW e \in Exports, DownloadExport(e)
     PROVE  FinalFileAuthorised'
  BY <1>11 DEF DownloadExport, reqVars, batVars, verVars, decVars, attVars
<1>12. ASSUME NEW e \in Exports, DownloadCommits(e)
     PROVE  FinalFileAuthorised'
  BY <1>12 DEF DownloadCommits, NoOtherActiveFinal, reqVars, batVars, verVars,
        decVars, attVars
<1>13. ASSUME NEW a \in Admins, NEW e \in Exports, MarkSent(a, e)
     PROVE  FinalFileAuthorised'
  BY <1>13 DEF MarkSent, NoOtherActiveFinal, AttemptsMarkedSent, reqVars,
        verVars, decVars
<1>14. CASE UNCHANGED vars
  BY <1>14 DEF vars, reqVars, batVars, verVars, decVars, attVars, expVars
<1> HIDE DEF Inv, TypeOK, FinalFileAuthorised, DecidedByAnother,
        RowsHaveProvenance
<1>15. QED
  BY <1>1, <1>2, <1>3, <1>4, <1>5, <1>6, <1>7, <1>8, <1>9, <1>10, <1>11,
        <1>12, <1>13, <1>14 DEF Next

\* Whatever a command makes an active final of, the index looked at the others.
LEMMA OneActiveFinalStep == Inv /\ [Next]_vars => OneActiveFinal'
<1> SUFFICES ASSUME Inv, [Next]_vars PROVE OneActiveFinal'
  OBVIOUS
<1> USE NullAssumption DEF Inv, TypeOK, OneActiveFinal, ExportStatuses,
        ActiveFinal, UnsentFinal
<1>1. ASSUME NEW r \in Requests, CancelRequest(r)
     PROVE  OneActiveFinal'
  BY <1>1 DEF CancelRequest, batVars, verVars, decVars, attVars, expVars
<1>2. ASSUME NEW v \in Versions, RetireConfiguration(v)
     PROVE  OneActiveFinal'
  BY <1>2 DEF RetireConfiguration, batVars, verVars, decVars, attVars, expVars
<1>3. ASSUME NEW e \in Exports, FileDrifts(e)
     PROVE  OneActiveFinal'
  BY <1>3 DEF FileDrifts, reqVars, batVars, verVars, decVars, attVars
<1>4. ASSUME NEW a \in Admins, NEW b \in Batches, NEW v \in Versions,
             NEW S \in SUBSET Requests, CreateBatch(a, b, v, S)
     PROVE  OneActiveFinal'
  BY <1>4 DEF CreateBatch, BuildVersion, Current, Reallocated, reqVars,
        decVars, expVars
<1>5. ASSUME NEW a \in Admins, NEW b \in Batches, NEW v \in Versions,
             NEW S \in SUBSET Requests, CreateReplacementVersion(a, b, v, S)
     PROVE  OneActiveFinal'
  BY <1>5 DEF CreateReplacementVersion, BuildVersion, Reallocated,
        VoidActiveFinalExports, reqVars, decVars
<1>6. ASSUME NEW a \in Admins, NEW b \in Batches, CancelBatch(a, b)
     PROVE  OneActiveFinal'
  BY <1>6 DEF CancelBatch, VoidActiveFinalExports, reqVars, verVars, decVars
<1>7. ASSUME NEW a \in Admins, NEW v \in Versions, FinalizeVersion(a, v)
     PROVE  OneActiveFinal'
  BY <1>7 DEF FinalizeVersion, EveryItemOwnsItsAllocation, IsCurrent, reqVars,
        decVars, attVars, expVars
<1>8. ASSUME NEW a \in Admins, NEW v \in Versions,
             NEW outcome \in {"approved", "rejected"}, Decide(a, v, outcome)
     PROVE  OneActiveFinal'
  BY <1>8 DEF Decide, RefuseIfTheDeciderMadeThisVersion, IsCurrent, reqVars,
        attVars, expVars
<1>9. ASSUME NEW v \in Versions, NEW e \in Exports, GeneratePreview(v, e)
     PROVE  OneActiveFinal'
  BY <1>9 DEF GeneratePreview, NewExport, reqVars, batVars, verVars, decVars,
        attVars
<1>10. ASSUME NEW v \in Versions, NEW e \in Exports,
             NEW holds \in BOOLEAN, GenerateFinal(v, e, holds)
     PROVE  OneActiveFinal'
  BY <1>10 DEF GenerateFinal, NewExport, NoOtherActiveFinal, reqVars, batVars,
        verVars, decVars, attVars
<1>11. ASSUME NEW e \in Exports, DownloadExport(e)
     PROVE  OneActiveFinal'
  BY <1>11 DEF DownloadExport, reqVars, batVars, verVars, decVars, attVars
<1>12. ASSUME NEW e \in Exports, DownloadCommits(e)
     PROVE  OneActiveFinal'
  BY <1>12 DEF DownloadCommits, NoOtherActiveFinal, reqVars, batVars, verVars,
        decVars, attVars
<1>13. ASSUME NEW a \in Admins, NEW e \in Exports, MarkSent(a, e)
     PROVE  OneActiveFinal'
  BY <1>13 DEF MarkSent, NoOtherActiveFinal, AttemptsMarkedSent, reqVars,
        verVars, decVars
<1>14. CASE UNCHANGED vars
  BY <1>14 DEF vars, reqVars, batVars, verVars, decVars, attVars, expVars
<1> HIDE DEF Inv, TypeOK, OneActiveFinal, ExportStatuses, ActiveFinal,
        UnsentFinal
<1>15. QED
  BY <1>1, <1>2, <1>3, <1>4, <1>5, <1>6, <1>7, <1>8, <1>9, <1>10, <1>11,
        <1>12, <1>13, <1>14 DEF Next

\* Marking a file moves the attempts and the batch with it, and nothing moves
\* them back.
LEMMA SentTogetherStep == Inv /\ [Next]_vars => SentTogether'
<1> SUFFICES ASSUME Inv, [Next]_vars PROVE SentTogether'
  OBVIOUS
<1> USE NullAssumption DEF Inv, TypeOK, SentTogether, FinalFileAuthorised,
        DecidedByAnother, RowsHaveProvenance, OneOperationalVersion
<1>1. ASSUME NEW r \in Requests, CancelRequest(r)
     PROVE  SentTogether'
  BY <1>1 DEF CancelRequest, batVars, verVars, decVars, attVars, expVars
<1>2. ASSUME NEW v \in Versions, RetireConfiguration(v)
     PROVE  SentTogether'
  BY <1>2 DEF RetireConfiguration, batVars, verVars, decVars, attVars, expVars
<1>3. ASSUME NEW e \in Exports, FileDrifts(e)
     PROVE  SentTogether'
  BY <1>3 DEF FileDrifts, reqVars, batVars, verVars, decVars, attVars
<1>4. ASSUME NEW a \in Admins, NEW b \in Batches, NEW v \in Versions,
             NEW S \in SUBSET Requests, CreateBatch(a, b, v, S)
     PROVE  SentTogether'
  <2>1. /\ \A c \in Batches : batchStatus'[c] = "sent_to_bank" =>
             batchStatus[c] = "sent_to_bank"
        /\ UNCHANGED <<expVersion, marked>>
    BY <1>4 DEF CreateBatch, expVars
  <2>2. BuildVersion(a, b, v, S)
    BY <1>4 DEF CreateBatch
  <2>3. QED
    BY <2>1, <2>2, BuildKeepsSentTogether
<1>5. ASSUME NEW a \in Admins, NEW b \in Batches, NEW v \in Versions,
             NEW S \in SUBSET Requests, CreateReplacementVersion(a, b, v, S)
     PROVE  SentTogether'
  <2>1. /\ \A c \in Batches : batchStatus'[c] = "sent_to_bank" =>
             batchStatus[c] = "sent_to_bank"
        /\ UNCHANGED <<expVersion, marked>>
    BY <1>5 DEF CreateReplacementVersion, expVars
  <2>2. BuildVersion(a, b, v, S)
    BY <1>5 DEF CreateReplacementVersion
  <2>3. QED
    BY <2>1, <2>2, BuildKeepsSentTogether
<1>6. ASSUME NEW a \in Admins, NEW b \in Batches, CancelBatch(a, b)
     PROVE  SentTogether'
  BY <1>6 DEF CancelBatch, VoidActiveFinalExports, reqVars, verVars, decVars
<1>7. ASSUME NEW a \in Admins, NEW v \in Versions, FinalizeVersion(a, v)
     PROVE  SentTogether'
  BY <1>7 DEF FinalizeVersion, EveryItemOwnsItsAllocation, IsCurrent, reqVars,
        decVars, attVars, expVars
<1>8. ASSUME NEW a \in Admins, NEW v \in Versions,
             NEW outcome \in {"approved", "rejected"}, Decide(a, v, outcome)
     PROVE  SentTogether'
  BY <1>8 DEF Decide, RefuseIfTheDeciderMadeThisVersion, IsCurrent, reqVars,
        attVars, expVars
<1>9. ASSUME NEW v \in Versions, NEW e \in Exports, GeneratePreview(v, e)
     PROVE  SentTogether'
  BY <1>9 DEF GeneratePreview, NewExport, reqVars, batVars, verVars, decVars,
        attVars
<1>10. ASSUME NEW v \in Versions, NEW e \in Exports,
             NEW holds \in BOOLEAN, GenerateFinal(v, e, holds)
     PROVE  SentTogether'
  BY <1>10 DEF GenerateFinal, NewExport, NoOtherActiveFinal, reqVars, batVars,
        verVars, decVars, attVars
<1>11. ASSUME NEW e \in Exports, DownloadExport(e)
     PROVE  SentTogether'
  BY <1>11 DEF DownloadExport, reqVars, batVars, verVars, decVars, attVars
<1>12. ASSUME NEW e \in Exports, DownloadCommits(e)
     PROVE  SentTogether'
  BY <1>12 DEF DownloadCommits, NoOtherActiveFinal, reqVars, batVars, verVars,
        decVars, attVars
<1>13. ASSUME NEW a \in Admins, NEW e \in Exports, MarkSent(a, e)
     PROVE  SentTogether'
  <2> DEFINE w == expVersion[e]
  <2>1. w \in Versions /\ verBatch[w] \in Batches
    BY <1>13, FinalNamesAVersion DEF MarkSent
  <2>2. marked' = marked \cup {e} /\ UNCHANGED <<rows, verBatch, expVersion>>
    BY <1>13 DEF MarkSent, verVars
  <2>3. \A v \in Versions \ {w} : attempt'[v] = attempt[v]
    BY <1>13 DEF MarkSent, AttemptsMarkedSent
  <2>4. \A r \in Requests : attempt'[w][r] =
          IF attempt[w][r] = "included_in_batch_version" THEN "sent_to_bank" ELSE attempt[w][r]
    BY <1>13, <2>1 DEF MarkSent, AttemptsMarkedSent
  <2>5. \A r \in Requests :
          /\ attempt'[w][r] = "sent_to_bank" <=> r \in rows[w]
          /\ attempt'[w][r] = "none" <=> r \notin rows[w]
    BY <2>1, <2>4 DEF AttemptStatuses
  <2>6. \A b \in Batches : batchStatus'[b] = "sent_to_bank" =>
          b = verBatch[w] \/ batchStatus[b] = "sent_to_bank"
    BY <1>13 DEF MarkSent
  <2>7. \A x \in marked : expVersion[x] \in Versions
    BY FinalNamesAVersion
  <2> HIDE DEF w
  <2>8. \A x \in marked' : \A r \in rows'[expVersion'[x]] :
          attempt'[expVersion'[x]][r] = "sent_to_bank"
    BY <2>1, <2>2, <2>3, <2>5, <2>7 DEF w
  <2>9. \A v \in Versions, r \in Requests :
          /\ r \in rows'[v] <=> attempt'[v][r] # "none"
          /\ attempt'[v][r] = "sent_to_bank" => \E x \in marked' : expVersion'[x] = v
    BY <2>1, <2>2, <2>3, <2>5 DEF w
  <2>10. \A b \in Batches : batchStatus'[b] = "sent_to_bank" =>
          \E x \in marked' : verBatch'[expVersion'[x]] = b
    BY <2>1, <2>2, <2>6 DEF w
  <2>11. QED
    BY <2>8, <2>9, <2>10
<1>14. CASE UNCHANGED vars
  BY <1>14 DEF vars, reqVars, batVars, verVars, decVars, attVars, expVars
<1> HIDE DEF Inv, TypeOK, SentTogether, FinalFileAuthorised, DecidedByAnother,
        RowsHaveProvenance, OneOperationalVersion
<1>15. QED
  BY <1>1, <1>2, <1>3, <1>4, <1>5, <1>6, <1>7, <1>8, <1>9, <1>10, <1>11,
        <1>12, <1>13, <1>14 DEF Next

\* No row loses what it was created with.
LEMMA RowsHaveProvenanceStep == Inv /\ [Next]_vars => RowsHaveProvenance'
<1> SUFFICES ASSUME Inv, [Next]_vars PROVE RowsHaveProvenance'
  OBVIOUS
<1> USE NullAssumption DEF Inv, TypeOK, RowsHaveProvenance,
        OneOperationalVersion, FinalFileAuthorised, DecidedByAnother,
        IsCurrent
<1>1. ASSUME NEW r \in Requests, CancelRequest(r)
     PROVE  RowsHaveProvenance'
  BY <1>1 DEF CancelRequest, batVars, verVars, decVars, attVars, expVars
<1>2. ASSUME NEW v \in Versions, RetireConfiguration(v)
     PROVE  RowsHaveProvenance'
  BY <1>2 DEF RetireConfiguration, batVars, verVars, decVars, attVars, expVars
<1>3. ASSUME NEW e \in Exports, FileDrifts(e)
     PROVE  RowsHaveProvenance'
  BY <1>3 DEF FileDrifts, reqVars, batVars, verVars, decVars, attVars
<1>4. ASSUME NEW a \in Admins, NEW b \in Batches, NEW v \in Versions,
             NEW S \in SUBSET Requests, CreateBatch(a, b, v, S)
     PROVE  RowsHaveProvenance'
  BY <1>4 DEF CreateBatch, BuildVersion, Current, Reallocated, reqVars,
        decVars, expVars
<1>5. ASSUME NEW a \in Admins, NEW b \in Batches, NEW v \in Versions,
             NEW S \in SUBSET Requests, CreateReplacementVersion(a, b, v, S)
     PROVE  RowsHaveProvenance'
  BY <1>5 DEF CreateReplacementVersion, BuildVersion, Reallocated,
        VoidActiveFinalExports, reqVars, decVars
<1>6. ASSUME NEW a \in Admins, NEW b \in Batches, CancelBatch(a, b)
     PROVE  RowsHaveProvenance'
  BY <1>6 DEF CancelBatch, VoidActiveFinalExports, reqVars, verVars, decVars
<1>7. ASSUME NEW a \in Admins, NEW v \in Versions, FinalizeVersion(a, v)
     PROVE  RowsHaveProvenance'
  BY <1>7 DEF FinalizeVersion, EveryItemOwnsItsAllocation, reqVars, decVars,
        attVars, expVars
<1>8. ASSUME NEW a \in Admins, NEW v \in Versions,
             NEW outcome \in {"approved", "rejected"}, Decide(a, v, outcome)
     PROVE  RowsHaveProvenance'
  BY <1>8 DEF Decide, RefuseIfTheDeciderMadeThisVersion, reqVars, attVars,
        expVars
<1>9. ASSUME NEW v \in Versions, NEW e \in Exports, GeneratePreview(v, e)
     PROVE  RowsHaveProvenance'
  BY <1>9 DEF GeneratePreview, NewExport, reqVars, batVars, verVars, decVars,
        attVars
<1>10. ASSUME NEW v \in Versions, NEW e \in Exports,
             NEW holds \in BOOLEAN, GenerateFinal(v, e, holds)
     PROVE  RowsHaveProvenance'
  BY <1>10 DEF GenerateFinal, NewExport, NoOtherActiveFinal, reqVars, batVars,
        verVars, decVars, attVars
<1>11. ASSUME NEW e \in Exports, DownloadExport(e)
     PROVE  RowsHaveProvenance'
  BY <1>11 DEF DownloadExport, reqVars, batVars, verVars, decVars, attVars
<1>12. ASSUME NEW e \in Exports, DownloadCommits(e)
     PROVE  RowsHaveProvenance'
  BY <1>12 DEF DownloadCommits, NoOtherActiveFinal, reqVars, batVars, verVars,
        decVars, attVars
<1>13. ASSUME NEW a \in Admins, NEW e \in Exports, MarkSent(a, e)
     PROVE  RowsHaveProvenance'
  BY <1>13, FinalNamesAVersion DEF MarkSent, verVars
<1>14. CASE UNCHANGED vars
  BY <1>14 DEF vars, reqVars, batVars, verVars, decVars, attVars, expVars
<1> HIDE DEF Inv, TypeOK, RowsHaveProvenance, OneOperationalVersion,
        FinalFileAuthorised, DecidedByAnother, IsCurrent
<1>15. QED
  BY <1>1, <1>2, <1>3, <1>4, <1>5, <1>6, <1>7, <1>8, <1>9, <1>10, <1>11,
        <1>12, <1>13, <1>14 DEF Next

-----------------------------------------------------------------------------
\* Inv is an inductive invariant of the batch commands: it holds of every state
\* they can reach, for every number of rows and people.
THEOREM Invariant == Spec => []Inv
<1>1. Init => Inv
  BY InvInit
<1>2. Inv /\ [Next]_vars => Inv'
  BY TypeOKStep, ProjectionOfCurrentStep, OneOperationalVersionStep,
     SupersededHoldsNothingStep, AllocationsBackTheItemsStep, DecidedByAnotherStep,
     FinalFileAuthorisedStep, OneActiveFinalStep, SentTogetherStep,
     RowsHaveProvenanceStep DEF Inv
<1>3. QED
  BY <1>1, <1>2, PTL DEF Spec

\* The columns keep their types.
THEOREM TypeCorrect == Spec => []TypeOK
<1>1. Inv => TypeOK
  BY DEF Inv
<1>2. QED
  BY <1>1, Invariant, PTL

\* A batch in a status a version can have has its current version's status.
THEOREM ContainerProjectsItsVersion == Spec => []ProjectionOfCurrent
<1>1. Inv => ProjectionOfCurrent
  BY DEF Inv
<1>2. QED
  BY <1>1, Invariant, PTL

\* A superseded version keeps no allocation and no generated or validated final.
THEOREM SupersessionIsComplete == Spec => []SupersededHoldsNothing
<1>1. Inv => SupersededHoldsNothing
  BY DEF Inv
<1>2. QED
  BY <1>1, Invariant, PTL

\* A draft or waiting batch is exactly backed by unreleased allocations.
THEOREM PreparedBatchOwnsItsAllocations == Spec => []AllocationsBackTheItems
<1>1. Inv => AllocationsBackTheItems
  BY DEF Inv
<1>2. QED
  BY <1>1, Invariant, PTL

\* Nobody decided a version they created or finalized.
THEOREM SegregationOfDuties == Spec => []DecidedByAnother
<1>1. Inv => DecidedByAnother
  BY DEF Inv
<1>2. QED
  BY <1>1, Invariant, PTL

\* Every final file, and so every file marked sent, was approved.
THEOREM SentFilesWereApproved == Spec => []FinalFileAuthorised
<1>1. Inv => FinalFileAuthorised
  BY DEF Inv
<1>2. QED
  BY <1>1, Invariant, PTL

\* No version has two files that could both be sent.
THEOREM OneFilePerVersion == Spec => []OneActiveFinal
<1>1. Inv => OneActiveFinal
  BY DEF Inv
<1>2. QED
  BY <1>1, Invariant, PTL

\* Files, attempts and batches agree on what was sent.
THEOREM SentIsConsistent == Spec => []SentTogether
<1>1. Inv => SentTogether
  BY DEF Inv
<1>2. QED
  BY <1>1, Invariant, PTL

-----------------------------------------------------------------------------
(* The refinement.  A step of a command is a step of DualControl or leaves its *)
(* variables alone, under the substitution of the instance DC.                 *)

LEMMA StageInit == Init => DC!DCInit
BY DEF Init, DC!DCInit, StageOf

\* A new version is Prepare; a replacement also withdraws the version it replaces.
LEMMA BuildIsPrepare ==
  ASSUME Inv, NEW a \in Admins, NEW b \in Batches, NEW v \in Versions,
         NEW S \in SUBSET Requests,
         CreateBatch(a, b, v, S) \/ CreateReplacementVersion(a, b, v, S)
  PROVE  DC!DCNext
<1>0. PICK replaced \in SUBSET Versions :
        replaced = IF batchStatus[b] = "none" THEN {} ELSE {current[b]}
  BY DEF Inv, RowsHaveProvenance
<1>1. \A o \in replaced : verStatus[o] # "none" /\ o # v
  BY <1>0 DEF Inv, RowsHaveProvenance, CreateBatch, CreateReplacementVersion, BuildVersion
<1>2. verStatus' = [o \in Versions |-> IF o = v THEN "draft"
                      ELSE IF o \in replaced THEN "superseded" ELSE verStatus[o]]
  BY <1>0, <1>1 DEF Inv, TypeOK, CreateBatch, CreateReplacementVersion
<1>3. /\ a \in Accountants /\ S # {} /\ verStatus[v] = "none"
      /\ rows' = [rows EXCEPT ![v] = S] /\ creator' = [creator EXCEPT ![v] = a]
      /\ UNCHANGED <<finalizer, decider, decision, expVersion, marked>>
  BY DEF CreateBatch, CreateReplacementVersion, BuildVersion, decVars, expVars
<1>4. \A o \in Versions :
        StageOf[verStatus'[o]] = IF o = v THEN "prepared"
                                 ELSE IF o \in replaced THEN "withdrawn"
                                 ELSE StageOf[verStatus[o]]
  BY <1>2 DEF StageOf
<1>5. StageOf[verStatus[v]] = "absent" /\ \A o \in replaced : StageOf[verStatus[o]] # "absent"
  BY <1>1, <1>3 DEF StageOf, Inv, TypeOK, VersionStatuses, ProjectedStatuses
<1>6. DC!Prepare(a, v, S, replaced)
  BY <1>1, <1>3, <1>4, <1>5 DEF DC!Prepare
<1>7. QED
  BY <1>3, <1>6 DEF DC!DCNext

LEMMA FinalizeIsSubmit ==
  ASSUME Inv, NEW a \in Admins, NEW v \in Versions, FinalizeVersion(a, v)
  PROVE  DC!DCNext
<1>1. /\ a \in Accountants /\ verStatus[v] = "draft"
      /\ verStatus' = [verStatus EXCEPT ![v] = "ready_for_approval"]
      /\ finalizer' = [finalizer EXCEPT ![v] = a]
      /\ UNCHANGED <<rows, creator, decider, decision, expVersion, marked>>
  BY DEF FinalizeVersion, decVars, expVars
<1>2. /\ StageOf[verStatus[v]] = "prepared"
      /\ \A o \in Versions : StageOf[verStatus'[o]] =
           IF o = v THEN "submitted" ELSE StageOf[verStatus[o]]
  BY <1>1 DEF StageOf, Inv, TypeOK
<1>3. DC!Submit(a, v)
  BY <1>1, <1>2 DEF DC!Submit
<1>4. QED
  BY <1>1, <1>3 DEF DC!DCNext

LEMMA DecideIsJudge ==
  ASSUME Inv, NEW a \in Admins, NEW v \in Versions,
         NEW outcome \in {"approved", "rejected"}, Decide(a, v, outcome)
  PROVE  DC!DCNext
<1>1. /\ a \in Managers /\ a # creator[v] /\ a # finalizer[v]
      /\ verStatus[v] = "ready_for_approval"
      /\ verStatus' = [verStatus EXCEPT ![v] = outcome]
      /\ decider' = [decider EXCEPT ![v] = a] /\ decision' = [decision EXCEPT ![v] = outcome]
      /\ UNCHANGED <<rows, creator, finalizer, expVersion, marked>>
  BY DEF Decide, RefuseIfTheDeciderMadeThisVersion, expVars
<1>2. /\ StageOf[verStatus[v]] = "submitted"
      /\ \A o \in Versions : StageOf[verStatus'[o]] =
           IF o = v THEN "judged" ELSE StageOf[verStatus[o]]
  BY <1>1 DEF StageOf, Inv, TypeOK
<1>3. DC!Judge(a, v, outcome)
  BY <1>1, <1>2 DEF DC!Judge
<1>4. QED
  BY <1>1, <1>3 DEF DC!DCNext

LEMMA MarkSentIsRelease ==
  ASSUME Inv, NEW a \in Admins, NEW e \in Exports, MarkSent(a, e)
  PROVE  DC!DCNext
<1>1. expVersion[e] \in Versions /\ decision[expVersion[e]] = "approved"
  BY DEF MarkSent, Inv, FinalFileAuthorised
<1>2. /\ marked' = marked \cup {e}
      /\ UNCHANGED <<verStatus, rows, creator, finalizer, decider, decision, expVersion>>
  BY DEF MarkSent, verVars, decVars
<1>3. {expVersion'[x] : x \in marked'} = {expVersion[x] : x \in marked} \cup {expVersion[e]}
  BY <1>2
<1>4. PICK l \in Versions : l = expVersion[e]
  BY <1>1
<1>5. DC!Release(l)
  BY <1>1, <1>2, <1>3, <1>4 DEF DC!Release
<1>6. QED
  BY <1>5 DEF DC!DCNext

\* The abstract variables see nothing of the remaining commands: a new export
\* was not marked before it existed.
LEMMA NewExportIsNotReleased ==
  ASSUME Inv, NEW v \in Versions, NEW e \in Exports, NEW holds \in BOOLEAN,
         GeneratePreview(v, e) \/ GenerateFinal(v, e, holds)
  PROVE  UNCHANGED DC!dcVars
<1>1. e \notin marked
  BY DEF GeneratePreview, GenerateFinal, NewExport, Inv, FinalFileAuthorised,
         RowsHaveProvenance
<1>2. expVersion' = [expVersion EXCEPT ![e] = v] /\ marked' = marked
  BY DEF GeneratePreview, GenerateFinal, NewExport
<1>3. {expVersion'[x] : x \in marked'} = {expVersion[x] : x \in marked}
  BY <1>1, <1>2 DEF Inv, TypeOK
<1>4. UNCHANGED <<verStatus, rows, creator, finalizer, decider, decision>>
  BY DEF GeneratePreview, GenerateFinal, verVars, decVars
<1>5. QED
  BY <1>3, <1>4 DEF DC!dcVars

LEMMA OtherStepsStutter ==
  ASSUME \/ \E r \in Requests : CancelRequest(r)
         \/ \E v \in Versions : RetireConfiguration(v)
         \/ \E e \in Exports : FileDrifts(e) \/ DownloadExport(e) \/ DownloadCommits(e)
         \/ \E a \in Admins, b \in Batches : CancelBatch(a, b)
         \/ UNCHANGED vars
  PROVE  UNCHANGED DC!dcVars
<1>1. UNCHANGED <<verStatus, rows, creator, finalizer, decider, decision, expVersion, marked>>
  BY DEF CancelRequest, RetireConfiguration, FileDrifts, DownloadExport, DownloadCommits,
         CancelBatch, vars, verVars, decVars, expVars
<1>2. QED
  BY <1>1 DEF DC!dcVars

\* The batch commands implement dual control: whatever interleaving of creation,
\* replacement, finalization, decision, cancellation, export, download and
\* mark-sent, a list of payments is released only after somebody who neither
\* made nor submitted it approved exactly that list.
THEOREM Refinement == Spec => ImplementsDualControl
<1>1. Init => DC!DCInit
  BY StageInit
<1>2. Inv /\ [Next]_vars => [DC!DCNext]_(DC!dcVars)
  <2> SUFFICES ASSUME Inv, [Next]_vars PROVE DC!DCNext \/ UNCHANGED DC!dcVars
    OBVIOUS
  <2> QED
    BY BuildIsPrepare, FinalizeIsSubmit, DecideIsJudge, MarkSentIsRelease,
       NewExportIsNotReleased, OtherStepsStutter DEF Next
<1>3. QED
  BY <1>1, <1>2, Invariant, PTL DEF Spec, ImplementsDualControl, DC!DCSpec


-----------------------------------------------------------------------------
(* The rows an amount becomes: Splitting, for any amounts, limits and times   *)
(* of the day.  While the loop runs every row made is a full one, and the     *)
(* rows and what remains are the amount; the row that ends the loop takes all *)
(* that remains, which is more than nothing and no more than a limit.         *)
-----------------------------------------------------------------------------
\* Before the loop ends, only full rows.
FullRowsSoFar ==
    phase = "running" =>
        /\ remaining > 0
        /\ proposed = <<>> => remaining = amount
        /\ proposed # <<>> => MustSplit
        /\ MustSplit => /\ \A i \in 1 .. Len(proposed) : proposed[i] = ApplicableLimit
                        /\ Len(proposed) * ApplicableLimit + remaining = amount

\* Afterwards, full rows and a last one.
LastRowTakesTheRest ==
    phase = "returned" =>
        /\ Len(proposed) > 0
        /\ ~MustSplit => Len(proposed) = 1 /\ proposed[1] = amount
        /\ MustSplit => /\ \A i \in 1 .. Len(proposed) - 1 : proposed[i] = ApplicableLimit
                        /\ proposed[Len(proposed)] <= ApplicableLimit
                        /\ (Len(proposed) - 1) * ApplicableLimit + proposed[Len(proposed)] = amount

SplitInv == SplitTypeOK /\ FullRowsSoFar /\ LastRowTakesTheRest

-----------------------------------------------------------------------------
\* The limit of the hour, where a split is due, is a positive number below the amount.
LEMMA LimitIsANumber ==
    ASSUME SplitTypeOK, MustSplit
    PROVE  ApplicableLimit \in Nat \ {0} /\ amount > ApplicableLimit
BY InputAssumption DEF SplitTypeOK, MustSplit, ApplicableLimit, SplittingRules

\* One more full row is one more limit in the sum.
LEMMA OneMoreRow ==
    ASSUME NEW n \in Nat, NEW l \in Nat
    PROVE  (n + 1) * l = n * l + l
OBVIOUS

\* Nothing is cut before the first turn of the loop.
LEMMA SplitInitInv == SplitInit => SplitInv
<1> SUFFICES ASSUME SplitInit PROVE SplitInv
    OBVIOUS
<1>1. SplitTypeOK
      BY InputAssumption DEF SplitInit, SplitTypeOK
<1>2. FullRowsSoFar
  <2>1. Len(proposed) = 0 /\ remaining = amount /\ amount \in Nat /\ amount > 0
        BY InputAssumption DEF SplitInit
  <2>2. ASSUME MustSplit PROVE 0 * ApplicableLimit = 0
        BY <1>1, <2>2, LimitIsANumber
  <2> QED BY <2>1, <2>2 DEF FullRowsSoFar, SplitInit
<1>3. LastRowTakesTheRest
      BY DEF SplitInit, LastRowTakesTheRest
<1> QED BY <1>1, <1>2, <1>3 DEF SplitInv

\* Neither step of the call breaks the invariant.
LEMMA SplitStepInv == SplitInv /\ [SplitNext]_splitVars => SplitInv'
<1> SUFFICES ASSUME SplitInv, [SplitNext]_splitVars PROVE SplitInv'
    OBVIOUS
<1> USE DEF SplitInv
<1>1. CASE LeaveWhole
  <2>1. /\ amount \in Nat \ {0}
        /\ Len(proposed') = 1 /\ proposed'[1] = amount /\ phase' = "returned"
        /\ MustSplit' = MustSplit /\ ~MustSplit
        /\ amount' = amount
        BY <1>1, InputAssumption DEF LeaveWhole, SplitTypeOK, MustSplit, ApplicableLimit
  <2>2. SplitTypeOK'
        BY <1>1, <2>1 DEF LeaveWhole, SplitTypeOK
  <2>3. FullRowsSoFar' /\ LastRowTakesTheRest'
        BY <2>1 DEF FullRowsSoFar, LastRowTakesTheRest
  <2> QED BY <2>2, <2>3
<1>2. CASE TakeRow
  <2> DEFINE n == Len(proposed)
             l == ApplicableLimit
  <2>1. l \in Nat \ {0} /\ amount \in Nat \ {0} /\ n \in Nat /\ remaining \in Nat \ {0}
        BY <1>2, LimitIsANumber, InputAssumption DEF TakeRow, SplitTypeOK, FullRowsSoFar
  <2>2. /\ MustSplit /\ MustSplit' /\ ApplicableLimit' = l /\ amount' = amount
        /\ proposed \in Seq(Nat \ {0})
        BY <1>2 DEF TakeRow, MustSplit, ApplicableLimit, SplitTypeOK
  <2>3. (\A i \in 1 .. n : proposed[i] = l) /\ n * l + remaining = amount
        BY <1>2, <2>2 DEF TakeRow, FullRowsSoFar
  <2>4. Taken \in Nat \ {0} /\ Taken <= l /\ Taken <= remaining
        BY <2>1 DEF Taken
  <2>5. /\ proposed' = Append(proposed, Taken) /\ remaining' = remaining - Taken
        /\ Len(proposed') = n + 1 /\ proposed'[n + 1] = Taken
        /\ \A i \in 1 .. n : proposed'[i] = l
        BY <1>2, <2>1, <2>2, <2>3, <2>4 DEF TakeRow
  <2>6. SplitTypeOK'
        BY <1>2, <2>1, <2>2, <2>4, <2>5 DEF TakeRow, SplitTypeOK
  <2>7. CASE remaining > Taken
    <3>1. Taken = l /\ phase' = "running"
          BY <1>2, <2>1, <2>7 DEF TakeRow, Taken
    <3>2. (n + 1) * l = n * l + l /\ n * l \in Nat
          BY <2>1, OneMoreRow
    <3> HIDE DEF l, n
    <3>3. (n + 1) * l + (remaining - l) = amount
          BY <2>1, <2>3, <3>2
    <3> USE DEF l, n
    <3>4. FullRowsSoFar'
      <4>1. \A i \in 1 .. Len(proposed') : proposed'[i] = l
            BY <2>1, <2>5, <3>1
      <4>2. Len(proposed') * ApplicableLimit' + remaining' = amount'
            BY <2>2, <2>5, <3>1, <3>3
      <4>3. remaining' > 0 /\ proposed' # <<>>
            BY <2>1, <2>4, <2>5, <2>7
      <4> QED BY <2>2, <4>1, <4>2, <4>3 DEF FullRowsSoFar
    <3>5. LastRowTakesTheRest'
          BY <3>1 DEF LastRowTakesTheRest
    <3> QED BY <2>6, <3>4, <3>5
  <2>8. CASE ~(remaining > Taken)
    <3>1. Taken = remaining /\ phase' = "returned"
          BY <1>2, <2>1, <2>4, <2>8 DEF TakeRow
    <3>2. Len(proposed') - 1 = n
          BY <2>1, <2>5
    <3>3. LastRowTakesTheRest'
      <4>1. \A i \in 1 .. Len(proposed') - 1 : proposed'[i] = ApplicableLimit'
            BY <2>2, <2>5, <3>2
      <4>2. /\ proposed'[Len(proposed')] = remaining /\ remaining <= ApplicableLimit'
            /\ Len(proposed') > 0
            BY <2>1, <2>2, <2>4, <2>5, <3>1
      <4>3. (Len(proposed') - 1) * ApplicableLimit' + proposed'[Len(proposed')] = amount'
            BY <2>2, <2>3, <3>2, <4>2
      <4> QED BY <2>2, <4>1, <4>2, <4>3 DEF LastRowTakesTheRest
    <3>4. FullRowsSoFar'
          BY <3>1 DEF FullRowsSoFar
    <3> QED BY <2>6, <3>3, <3>4
  <2> QED BY <2>7, <2>8
<1>3. CASE UNCHANGED splitVars
      BY <1>3 DEF splitVars, SplitTypeOK, FullRowsSoFar, LastRowTakesTheRest, MustSplit,
                  ApplicableLimit
<1> QED BY <1>1, <1>2, <1>3 DEF SplitNext

\* The invariant holds in every state of every call.
THEOREM SplitInvariance == SplitSpec => []SplitInv
BY SplitInitInv, SplitStepInv, PTL DEF SplitSpec

-----------------------------------------------------------------------------
\* An amount left whole is its only row.
LEMMA WholeIsOneRow ==
    ASSUME SplitInv, phase = "returned", ~MustSplit
    PROVE  Len(proposed) = 1 /\ proposed[1] = amount
BY Zenon DEF SplitInv, LastRowTakesTheRest

\* The invariant implies that the rows are the amount.
LEMMA InvRowsAddUp == SplitInv => RowsAddUp
<1> SUFFICES ASSUME SplitInv, phase = "returned" PROVE RowsAddUp
    BY DEF RowsAddUp
<1> DEFINE n == Len(proposed)
<1>1. n \in Nat /\ n > 0 /\ amount \in Nat /\ \A i \in 1 .. n : proposed[i] \in Nat
      BY InputAssumption DEF SplitInv, LastRowTakesTheRest, SplitTypeOK
<1>2. CASE n = 1
  <2>1. proposed[1] = amount
    <3>1. CASE ~MustSplit
          BY <3>1 DEF SplitInv, LastRowTakesTheRest
    <3>2. CASE MustSplit
      <4>1. ApplicableLimit \in Nat /\ (1 - 1) * ApplicableLimit + proposed[1] = amount
            BY <1>2, <3>2, LimitIsANumber DEF SplitInv, LastRowTakesTheRest
      <4> QED BY <1>1, <1>2, <4>1
    <3> QED BY <3>1, <3>2
  <2> QED BY <1>1, <1>2, <2>1 DEF RowsAddUp
<1>3. CASE n > 1
  <2>1. MustSplit
        BY <1>3, WholeIsOneRow DEF MustSplit
  <2>2. /\ \A i \in 1 .. n - 1 : proposed[i] = ApplicableLimit
        /\ (n - 1) * ApplicableLimit + proposed[n] = amount
        BY <2>1 DEF SplitInv, LastRowTakesTheRest
  <2>3. proposed[1] = ApplicableLimit
        BY <1>1, <1>3, <2>2
  <2> QED BY <1>1, <2>2, <2>3 DEF RowsAddUp
<1> QED BY <1>1, <1>2, <1>3

\* The invariant implies that every row is within the limit of the hour.
LEMMA InvNoRowOverTheLimit == SplitInv => NoRowOverTheLimit
<1> SUFFICES ASSUME SplitInv, rules.enabled, phase = "returned", NEW i \in 1 .. Len(proposed)
             PROVE  IF rules.after = Unset \/ rules.cutoff = Unset \/ at <= rules.cutoff
                    THEN rules.default # Unset => proposed[i] <= rules.default
                    ELSE proposed[i] <= rules.after
    BY DEF NoRowOverTheLimit
<1>1. at \in Nat /\ rules.cutoff \in Nat \cup {Unset}
      BY InputAssumption DEF SplitInv, SplitTypeOK, SplittingRules
<1>2. ASSUME ApplicableLimit # Unset PROVE proposed[i] <= ApplicableLimit
  <2>1. CASE MustSplit
    <3>1. Len(proposed) \in Nat /\ ApplicableLimit \in Nat
          BY <2>1, LimitIsANumber DEF SplitInv, SplitTypeOK
    <3> QED BY <2>1, <3>1 DEF SplitInv, LastRowTakesTheRest
  <2>2. CASE ~MustSplit
    <3>1. proposed[i] = amount
          BY <2>2, WholeIsOneRow
    <3>2. ApplicableLimit \in Nat /\ amount \in Nat
          BY <1>2, InputAssumption DEF SplitInv, SplitTypeOK, ApplicableLimit, SplittingRules
    <3> QED BY <1>2, <2>2, <3>1, <3>2 DEF MustSplit
  <2> QED BY <2>1, <2>2
<1>3. CASE rules.after = Unset \/ rules.cutoff = Unset \/ at <= rules.cutoff
  <2>1. ApplicableLimit = rules.default
        BY <1>1, <1>3 DEF ApplicableLimit
  <2> QED BY <1>2, <1>3, <2>1
<1>4. CASE ~(rules.after = Unset \/ rules.cutoff = Unset \/ at <= rules.cutoff)
  <2>1. ApplicableLimit = rules.after
        BY <1>1, <1>4 DEF ApplicableLimit
  <2> QED BY <1>2, <1>4, <2>1
<1> QED BY <1>3, <1>4

\* The invariant implies that one row less would not hold the amount.
LEMMA InvFewestRows == SplitInv => FewestRows
<1> SUFFICES ASSUME SplitInv, phase = "returned", Len(proposed) > 1
             PROVE  (Len(proposed) - 1) * ApplicableLimit < amount
    BY DEF FewestRows
<1>0. MustSplit
      BY WholeIsOneRow DEF MustSplit
<1>1. MustSplit /\ Len(proposed) \in Nat /\ amount \in Nat
      BY <1>0, InputAssumption DEF SplitInv, SplitTypeOK
<1>2. (Len(proposed) - 1) * ApplicableLimit + proposed[Len(proposed)] = amount
      BY <1>1 DEF SplitInv, LastRowTakesTheRest
<1>3. proposed[Len(proposed)] \in Nat \ {0} /\ ApplicableLimit \in Nat
      BY <1>1, LimitIsANumber DEF SplitInv, SplitTypeOK
<1>4. (Len(proposed) - 1) * ApplicableLimit \in Int
      BY <1>1, <1>3
<1> QED BY <1>1, <1>2, <1>3, <1>4

-----------------------------------------------------------------------------
\* The loop of split() keeps its variables in their types: no row is empty.
THEOREM SplitTypeCorrect == SplitSpec => []SplitTypeOK
BY SplitInvariance, PTL DEF SplitInv

\* Whatever the bank's limits, the rows are the amount, to the rial.
THEOREM RowsAddUpHolds == SplitSpec => []RowsAddUp
BY SplitInvariance, InvRowsAddUp, PTL

\* No row exceeds the limit of the hour the batch was made at.
THEOREM NoRowOverTheLimitHolds == SplitSpec => []NoRowOverTheLimit
BY SplitInvariance, InvNoRowOverTheLimit, PTL

\* A split into fewer rows would leave money out.
THEOREM FewestRowsHolds == SplitSpec => []FewestRows
BY SplitInvariance, InvFewestRows, PTL


=============================================================================
