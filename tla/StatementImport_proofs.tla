------------------------ MODULE StatementImport_proofs ------------------------
(***************************************************************************)
(* Theorems about BankConfig and StatementImport for every set of          *)
(* versions, files, administrators, clerks and workers.                    *)
(*                                                                         *)
(* The configuration's invariant needs to know of every open activation    *)
(* that what it will retire was once activated.  The import's needs two    *)
(* facts about open transactions: the run a worker holds is waiting and is *)
(* held by nobody else, and the number a clerk took is at most one more    *)
(* than the runs there are.                                                *)
(***************************************************************************)
EXTENDS StatementImport, FiniteSetTheorems, SequenceTheorems, TLAPS

-----------------------------------------------------------------------------
(* The configuration. *)

\* What an open activation holds: a version that exists, and versions once active.
ActivationsHold ==
    \A a \in Admins : admin[a].at = "activating" =>
        /\ admin[a].version \in Existing
        /\ admin[a].replaces \subseteq mapped

ConfigInv == /\ ConfigTypeOK /\ ActivationsHold
             /\ PointerIsActive /\ ActivatedVersionsParse /\ NumbersTellVersionsApart

\* The configuration starts safe.
LEMMA ConfigInitially == ConfigInit => ConfigInv
BY VersionsAssumption DEF ConfigInit, ConfigInv, ConfigTypeOK, ActivationsHold, PointerIsActive,
   ActivatedVersionsParse, NumbersTellVersionsApart, Existing, Free

\* Every step of an administrator keeps the configuration's types.
LEMMA ConfigTypes == ConfigInv /\ ConfigNext => ConfigTypeOK'
<1> SUFFICES ASSUME ConfigInv, ConfigNext PROVE ConfigTypeOK'
    OBVIOUS
<1> USE VersionsAssumption DEF ConfigInv, ConfigTypeOK, Existing, Active, Free
<1>1. ASSUME NEW v \in Versions, CreateProfile(v) PROVE ConfigTypeOK'
    BY <1>1 DEF CreateProfile
<1>2. ASSUME NEW a \in Admins, NumberVersion(a) PROVE ConfigTypeOK'
    <2>1. PICK v \in Versions :
             admin' = [admin EXCEPT ![a] = [at |-> "numbered", version |-> Null,
                                            replaces |-> {}, number |-> number[v] + 1]]
        BY <1>2 DEF NumberVersion
    <2>2. number[v] + 1 \in Nat
        OBVIOUS
    <2>3. QED
        BY <1>2, <2>1, <2>2 DEF NumberVersion
<1>3. ASSUME NEW a \in Admins, Activate(a) PROVE ConfigTypeOK'
    BY <1>3 DEF Activate, ActivationsHold, Existing
<1>4. ASSUME NEW a \in Admins, RollBack(a) PROVE ConfigTypeOK'
    BY <1>4 DEF RollBack
<1>5. ASSUME NEW a \in Admins, NEW v \in Versions, CreateVersion(a, v) PROVE ConfigTypeOK'
    BY <1>5 DEF CreateVersion
<1>6. ASSUME NEW a \in Admins, NEW v \in Versions, BeginActivation(a, v) PROVE ConfigTypeOK'
    <2>1. PICK R \in SUBSET Versions :
             admin' = [admin EXCEPT ![a] = [at |-> "activating", version |-> v,
                                            replaces |-> R, number |-> 0]]
        BY <1>6 DEF BeginActivation
    <2>2. QED
        BY <1>6, <2>1 DEF BeginActivation
<1>7. QED
    BY <1>1, <1>2, <1>3, <1>4, <1>5, <1>6 DEF ConfigNext

\* Every step of an administrator keeps the configuration safe.
LEMMA ConfigStep == ConfigInv /\ [ConfigNext]_configVars => ConfigInv'
<1> SUFFICES ASSUME ConfigInv, ConfigNext \/ UNCHANGED configVars PROVE ConfigInv'
    OBVIOUS
<1> USE DEF ActivationsHold, PointerIsActive, ActivatedVersionsParse, NumbersTellVersionsApart
<1>0. ConfigNext => ConfigTypeOK'
    BY ConfigTypes
<1>1. ASSUME NEW v \in Versions, CreateProfile(v), ConfigTypeOK' PROVE ConfigInv'
    BY <1>1, VersionsAssumption DEF ConfigInv, ConfigTypeOK, CreateProfile, Existing
<1>2. ASSUME NEW a \in Admins, NumberVersion(a), ConfigTypeOK' PROVE ConfigInv'
    BY <1>2 DEF ConfigInv, ConfigTypeOK, NumberVersion, Existing
<1>3. ASSUME NEW a \in Admins, Activate(a), ConfigTypeOK' PROVE ConfigInv'
    <2>1. PointerIsActive'
        <3>1. admin[a].version \in Versions
            BY <1>3 DEF ConfigInv, Activate, Existing
        <3>2. QED
            BY <1>3, <3>1 DEF ConfigInv, ConfigTypeOK, Activate
    <2>2. ActivatedVersionsParse'
        BY <1>3 DEF ConfigInv, ConfigTypeOK, Activate
    <2>3. ActivationsHold'
        <3>1. ASSUME NEW b \in Admins, admin'[b].at = "activating"
              PROVE  b # a /\ admin'[b] = admin[b]
            BY <1>3, <3>1 DEF ConfigInv, ConfigTypeOK, Activate, Free
        <3>2. mapped \subseteq mapped' /\ Existing \subseteq Existing'
            BY <1>3 DEF ConfigInv, ConfigTypeOK, Activate, Existing
        <3>3. QED
            BY <3>1, <3>2 DEF ConfigInv
    <2>4. NumbersTellVersionsApart'
        <3>1. Existing' = Existing
            <4>1. admin[a].version \in Existing /\ admin[a].replaces \subseteq Existing
                BY <1>3 DEF ConfigInv, ConfigTypeOK, Activate, Existing
            <4>2. QED
                BY <1>3, <4>1 DEF ConfigInv, ConfigTypeOK, Activate, Existing
        <3>2. QED
            BY <1>3, <3>1 DEF ConfigInv, Activate
    <2>5. QED
        BY <1>3, <2>1, <2>2, <2>3, <2>4 DEF ConfigInv
<1>4. ASSUME NEW a \in Admins, RollBack(a), ConfigTypeOK' PROVE ConfigInv'
    BY <1>4 DEF ConfigInv, ConfigTypeOK, RollBack, Existing, Free
<1>5. ASSUME NEW a \in Admins, NEW v \in Versions, CreateVersion(a, v), ConfigTypeOK'
      PROVE ConfigInv'
    BY <1>5, VersionsAssumption DEF ConfigInv, ConfigTypeOK, CreateVersion, Taken, Existing, Free
<1>6. ASSUME NEW a \in Admins, NEW v \in Versions, BeginActivation(a, v), ConfigTypeOK'
      PROVE ConfigInv'
    BY <1>6 DEF ConfigInv, ConfigTypeOK, BeginActivation, Existing, Active
<1>7. CASE UNCHANGED configVars
    BY <1>7 DEF ConfigInv, ConfigTypeOK, configVars, Existing
<1>8. QED
    BY <1>0, <1>1, <1>2, <1>3, <1>4, <1>5, <1>6, <1>7 DEF ConfigNext

\* However many administrators draft and activate at once, the profile points at an
\* active version, exactly the versions ever in force can be parsed with, and version
\* numbers tell versions apart.
THEOREM ConfigurationIsSafe ==
    ConfigSpec => [](PointerIsActive /\ ActivatedVersionsParse /\ NumbersTellVersionsApart)
<1>1. ConfigInv => PointerIsActive /\ ActivatedVersionsParse /\ NumbersTellVersionsApart
    BY DEF ConfigInv
<1>2. QED
    BY ConfigInitially, ConfigStep, <1>1, PTL DEF ConfigSpec

-----------------------------------------------------------------------------
(* The import: what an open transaction may rely on. *)

Working(p) == parser[p].at \in {"parsing", "writing"}

\* The run a worker holds and its job are waiting, and it alone holds them.
WorkersHold ==
    \A p \in Parsers :
        /\ parser[p].at # "idle" => parser[p].run \in RunIds
        /\ Working(p) => /\ runs[parser[p].run].status = "queued"
                         /\ runs[parser[p].run].job = "waiting"
        /\ \A q \in Parsers : Working(p) /\ Working(q) /\ parser[q].run = parser[p].run => q = p

\* A worker about to flag rows is about to open their review.
ReviewsAreReady ==
    \A p \in Parsers : parser[p].at = "writing" /\ parser[p].flagged # {} =>
        <<"run", parser[p].run>> \in parser[p].reviews

\* A clerk's number is at most one more than the runs there are.
ClerksCount ==
    \A k \in Clerks :
        /\ clerk[k].at # "idle" => clerk[k].file \in Files
        /\ clerk[k].at = "numbered" =>
              clerk[k].number \in 1 .. Cardinality(RunsOf(clerk[k].file)) + 1

\* What a worker's transaction may have read.
TurnType == [at : {"idle", "parsing", "writing", "failing"}, run : Nat, was : FileStatuses,
             flagged : SUBSET Nat, reviews : SUBSET Reviews]

RunsInv  == RowsAreTheStatement /\ RunsAreNumbered /\ WaitingRunHasItsJob
FilesInv == FileStatusIsEarned /\ FlaggedRowsAreReviewed
OpenInv  == WorkersHold /\ ReviewsAreReady /\ ClerksCount

ImportInv == ImportTypeOK /\ RunsInv /\ FilesInv /\ OpenInv

-----------------------------------------------------------------------------
(* Runs. *)

\* The runs of a statement can be counted.
LEMMA RunsAreFinite ==
    ASSUME ImportTypeOK, NEW f \in Files
    PROVE  /\ IsFiniteSet(RunsOf(f)) /\ Cardinality(RunsOf(f)) \in Nat
           /\ RunsOf(f) = {} <=> Cardinality(RunsOf(f)) = 0
<1>1. Len(runs) \in Nat
    BY DEF ImportTypeOK
<1>2. IsFiniteSet(RunIds)
    BY <1>1, FS_Interval DEF RunIds
<1>3. IsFiniteSet(RunsOf(f))
    BY <1>2, FS_Subset DEF RunsOf
<1>4. QED
    BY <1>3, FS_CardinalityType, FS_EmptySet

\* A run is of a file.
LEMMA RunHasItsFile ==
    ASSUME ImportTypeOK, NEW r \in RunIds
    PROVE  runs[r] \in RunRecord /\ runs[r].file \in Files
<1>1. runs[r] \in RunRecord
    BY DEF ImportTypeOK, RunIds
<1>2. QED
    BY <1>1 DEF RunRecord

\* Writing a run anew under its file and number moves no other run.
LEMMA RunRewritten ==
    ASSUME ImportTypeOK, NEW r \in RunIds, NEW e \in RunRecord,
           e.file = runs[r].file, e.number = runs[r].number,
           runs' = [runs EXCEPT ![r] = e]
    PROVE  /\ runs' \in Seq(RunRecord) /\ Len(runs') = Len(runs)
           /\ RunIds' = RunIds
           /\ runs'[r] = e
           /\ \A s \in RunIds : /\ s # r => runs'[s] = runs[s]
                                /\ runs'[s].file = runs[s].file
                                /\ runs'[s].number = runs[s].number
           /\ \A f \in Files : RunsOf(f)' = RunsOf(f)
<1>1. runs \in Seq(RunRecord) /\ r \in 1 .. Len(runs)
    BY DEF ImportTypeOK, RunIds
<1>2. /\ runs' \in Seq(RunRecord) /\ Len(runs') = Len(runs)
      /\ \A j \in 1 .. Len(runs) : runs'[j] = IF j = r THEN e ELSE runs[j]
    BY <1>1, ExceptSeq
<1>3. RunIds' = RunIds
    BY <1>2 DEF RunIds
<1>4. \A s \in RunIds : /\ s # r => runs'[s] = runs[s]
                        /\ runs'[s].file = runs[s].file
                        /\ runs'[s].number = runs[s].number
    BY <1>2 DEF RunIds
<1>5. \A f \in Files : RunsOf(f)' = RunsOf(f)
    BY <1>3, <1>4 DEF RunsOf
<1>6. QED
    BY <1>1, <1>2, <1>3, <1>4, <1>5

\* A step that leaves numbers and clerks alone leaves the counting alone.
LEMMA CountingStays ==
    ASSUME RunsAreNumbered, ClerksCount, RunIds' = RunIds, clerk' = clerk,
           \A s \in RunIds : runs'[s].number = runs[s].number,
           \A f \in Files : RunsOf(f)' = RunsOf(f)
    PROVE  RunsAreNumbered' /\ ClerksCount'
<1>1. ASSUME NEW f \in Files
      PROVE  {runs'[r].number : r \in RunsOf(f)'} = {runs[r].number : r \in RunsOf(f)}
    BY DEF RunsOf
<1>2. RunsAreNumbered'
    BY <1>1 DEF RunsAreNumbered
<1>3. QED
    BY <1>2 DEF ClerksCount

\* A parse's rows are the lines of the file, one for one.
LEMMA RowsAreLines ==
    ASSUME NEW f \in Files, NEW flagged \in SUBSET Nat
    PROVE  /\ RowsOf(f, flagged) \in Seq(Kinds \cup {"possible_duplicate"})
           /\ Len(RowsOf(f, flagged)) = Len(Lines[f])
           /\ \A i \in 1 .. Len(Lines[f]) :
                 /\ RowsOf(f, flagged)[i] = "invalid" <=> Lines[f][i].kind = "invalid"
                 /\ RowsOf(f, flagged)[i] = "possible_duplicate" => i \in flagged
<1> DEFINE n == Len(Lines[f])
           S == Kinds \cup {"possible_duplicate"}
<1>1. n \in Nat /\ \A i \in 1 .. n : Lines[f][i].kind \in Kinds
    BY FilesAssumption
<1>2. \A i \in 1 .. n : RowStatus(Lines[f][i], i \in flagged) \in S
    BY <1>1 DEF RowStatus
<1>3. RowsOf(f, flagged) \in [1 .. n -> S]
    BY <1>2 DEF RowsOf
<1>4. RowsOf(f, flagged) \in Seq(S) /\ Len(RowsOf(f, flagged)) = n
    <2> HIDE DEF S, n
    <2>1. QED
        BY <1>1, <1>3
<1>5. ASSUME NEW i \in 1 .. n
      PROVE  /\ RowsOf(f, flagged)[i] = "invalid" <=> Lines[f][i].kind = "invalid"
             /\ RowsOf(f, flagged)[i] = "possible_duplicate" => i \in flagged
    <2>1. RowsOf(f, flagged)[i] = RowStatus(Lines[f][i], i \in flagged)
        BY DEF RowsOf
    <2>2. QED
        BY <1>1, <2>1 DEF RowStatus, Kinds
<1>6. QED
    BY <1>4, <1>5

\* Nothing has been filed, asked for or parsed.
LEMMA ImportInitially == Init => ImportInv
<1> SUFFICES ASSUME Init PROVE ImportInv
    OBVIOUS
<1>1. runs = <<>> /\ RunIds = {} /\ \A f \in Files : RunsOf(f) = {}
    BY DEF Init, RunIds, RunsOf
<1>2. ImportTypeOK
    BY FilesAssumption DEF Init, ImportTypeOK, Unasked, Polling, FileStatuses
<1>3. RunsInv
    <2>1. \A f \in Files : {runs[r].number : r \in RunsOf(f)} = {}
        BY <1>1
    <2>2. 1 .. Cardinality({}) = {}
        BY FS_EmptySet
    <2>3. RunsAreNumbered
        BY <1>1, <2>1, <2>2 DEF RunsAreNumbered
    <2>4. QED
        BY <1>1, <2>3 DEF RunsInv, RowsAreTheStatement, WaitingRunHasItsJob
<1>4. FilesInv
    BY <1>1 DEF Init, FilesInv, FileStatusIsEarned, FlaggedRowsAreReviewed
<1>5. OpenInv
    BY DEF Init, OpenInv, WorkersHold, ReviewsAreReady, ClerksCount, Unasked, Polling, Working
<1>6. QED
    BY <1>2, <1>3, <1>4, <1>5 DEF ImportInv

-----------------------------------------------------------------------------
(* What steps have in common. *)

\* A worker's turn that leaves the runs alone.
LEMMA WorkerMoves ==
    ASSUME ImportInv, NEW p \in Parsers,
           NEW w \in [at : {"idle", "parsing", "writing", "failing"}, run : Nat,
                      was : FileStatuses, flagged : SUBSET Nat, reviews : SUBSET Reviews],
           w.at # "idle" => w.run \in RunIds,
           w.at \in {"parsing", "writing"} =>
               /\ runs[w.run].status = "queued" /\ runs[w.run].job = "waiting"
               /\ \A q \in Parsers : Working(q) /\ parser[q].run = w.run => q = p,
           w.at = "writing" /\ w.flagged # {} => <<"run", w.run>> \in w.reviews,
           parser' = [parser EXCEPT ![p] = w],
           UNCHANGED <<filed, fstatus, runs, opened, paid, clerk>>
    PROVE  ImportInv'
<1> USE DEF ImportInv
<1>1. RunIds' = RunIds /\ \A f \in Files : RunsOf(f)' = RunsOf(f)
    BY DEF RunIds, RunsOf
<1>2. ImportTypeOK'
    BY DEF ImportTypeOK
<1>3. parser'[p] = w /\ \A q \in Parsers : q # p => parser'[q] = parser[q]
    BY DEF ImportTypeOK
<1>4. RunsAreNumbered' /\ ClerksCount'
    BY <1>1, CountingStays DEF RunsInv, OpenInv
<1>5. RunsInv' /\ FilesInv'
    BY <1>1, <1>4 DEF RunsInv, RowsAreTheStatement, WaitingRunHasItsJob, FilesInv,
       FileStatusIsEarned, FlaggedRowsAreReviewed
<1>6. WorkersHold'
    BY <1>1, <1>3 DEF OpenInv, WorkersHold, Working
<1>7. ReviewsAreReady'
    BY <1>3 DEF OpenInv, ReviewsAreReady
<1>8. QED
    BY <1>2, <1>4, <1>5, <1>6, <1>7 DEF OpenInv

\* A new word on the job of a run that no worker holds.
LEMMA JobMoves ==
    ASSUME ImportInv, NEW r \in RunIds, NEW j \in {"waiting", "finished", "dead"}, ~Held(r),
           runs[r].status = "queued" => j # "finished",
           runs' = [runs EXCEPT ![r].job = j],
           parser' \in [Parsers -> TurnType],
           \A q \in Parsers : parser'[q] \in {parser[q], Polling},
           UNCHANGED <<filed, fstatus, opened, paid, clerk>>
    PROVE  ImportInv'
<1> USE DEF ImportInv
<1> DEFINE e == [runs[r] EXCEPT !.job = j]
<1>1. runs[r] \in RunRecord
    BY DEF ImportTypeOK, RunIds
<1>2. /\ e \in RunRecord /\ e.file = runs[r].file /\ e.number = runs[r].number
      /\ e.status = runs[r].status /\ e.rows = runs[r].rows /\ e.job = j
    BY <1>1 DEF RunRecord
<1>3. runs' = [runs EXCEPT ![r] = e]
    OBVIOUS
<1> HIDE DEF e
<1>4. /\ runs' \in Seq(RunRecord) /\ Len(runs') = Len(runs) /\ RunIds' = RunIds
      /\ runs'[r] = e
      /\ \A s \in RunIds : /\ s # r => runs'[s] = runs[s]
                           /\ runs'[s].file = runs[s].file
                           /\ runs'[s].number = runs[s].number
      /\ \A f \in Files : RunsOf(f)' = RunsOf(f)
    BY <1>2, <1>3, RunRewritten
<1>5. \A s \in RunIds : runs'[s].status = runs[s].status /\ runs'[s].rows = runs[s].rows
    BY <1>2, <1>4
<1>6. ImportTypeOK'
    BY <1>4 DEF ImportTypeOK, TurnType
<1>7. RunsAreNumbered' /\ ClerksCount'
    BY <1>4, CountingStays DEF RunsInv, OpenInv
<1>8. RunsInv'
    BY <1>2, <1>4, <1>5, <1>7 DEF RunsInv, RowsAreTheStatement, WaitingRunHasItsJob
<1>9. FilesInv'
    BY <1>4, <1>5 DEF FilesInv, FileStatusIsEarned, FlaggedRowsAreReviewed
<1>10. WorkersHold'
    BY <1>4, <1>5 DEF OpenInv, WorkersHold, Working, Held, Polling
<1>11. ReviewsAreReady'
    BY DEF OpenInv, ReviewsAreReady, Polling
<1>12. QED
    BY <1>6, <1>7, <1>8, <1>9, <1>10, <1>11 DEF OpenInv

\* The end of a parse, well or badly, with the rows it writes and the reviews it opens.
LEMMA RunEnds ==
    ASSUME ImportInv, NEW p \in Parsers, Working(p),
           NEW s \in {"succeeded", "failed"}, NEW word \in {"parsed", "parse_failed"},
           word = "parsed" <=> s = "succeeded",
           NEW rows \in Seq(Kinds \cup {"possible_duplicate"}), NEW R \in SUBSET Reviews,
           s = "failed" => rows = <<>>,
           s = "succeeded" =>
               /\ Len(rows) = Len(Lines[runs[parser[p].run].file])
               /\ \A i \in 1 .. Len(rows) :
                     rows[i] = "invalid" <=> Lines[runs[parser[p].run].file][i].kind = "invalid",
           \A i \in 1 .. Len(rows) :
               rows[i] = "possible_duplicate" => <<"run", parser[p].run>> \in R,
           runs' = [runs EXCEPT ![parser[p].run] = Ended(parser[p].run, s, rows)],
           SetFileStatus(p, word),
           parser' = [parser EXCEPT ![p] = Polling],
           opened' = opened \cup R,
           UNCHANGED <<filed, paid, clerk>>
    PROVE  ImportInv'
<1> USE DEF ImportInv
<1>0. PICK r \in RunIds : r = parser[p].run
    BY DEF OpenInv, WorkersHold, Working
<1> DEFINE e == Ended(r, s, rows)
<1>1. runs[r] \in RunRecord /\ runs[r].status = "queued" /\ runs[r].file \in Files
    <2>1. runs[r] \in RunRecord
        BY DEF ImportTypeOK, RunIds
    <2>2. runs[r].status = "queued"
        BY <1>0 DEF OpenInv, WorkersHold
    <2>3. QED
        BY <2>1, <2>2 DEF RunRecord
<1>2. /\ e \in RunRecord /\ e.file = runs[r].file /\ e.number = runs[r].number
      /\ e.status = s /\ e.rows = rows /\ e.job = "finished"
    BY <1>1 DEF RunRecord, Ended
<1>3. runs' = [runs EXCEPT ![r] = e]
    BY <1>0
<1> HIDE DEF e
<1>4. /\ runs' \in Seq(RunRecord) /\ Len(runs') = Len(runs) /\ RunIds' = RunIds
      /\ runs'[r] = e
      /\ \A q \in RunIds : /\ q # r => runs'[q] = runs[q]
                           /\ runs'[q].file = runs[q].file
                           /\ runs'[q].number = runs[q].number
      /\ \A f \in Files : RunsOf(f)' = RunsOf(f)
    BY <1>2, <1>3, RunRewritten
<1>5. parser'[p] = Polling /\ \A q \in Parsers : q # p => parser'[q] = parser[q]
    BY DEF ImportTypeOK
<1>6. ImportTypeOK'
    <2>1. fstatus' \in [Files -> FileStatuses]
        BY <1>0, <1>1 DEF ImportTypeOK, SetFileStatus, FileStatuses
    <2>2. Polling \in [at : {"idle", "parsing", "writing", "failing"}, run : Nat,
                       was : FileStatuses, flagged : SUBSET Nat, reviews : SUBSET Reviews]
        BY DEF Polling, FileStatuses
    <2>3. parser' \in [Parsers -> [at : {"idle", "parsing", "writing", "failing"}, run : Nat,
                          was : FileStatuses, flagged : SUBSET Nat, reviews : SUBSET Reviews]]
        BY <2>2 DEF ImportTypeOK
    <2>4. QED
        BY <1>4, <2>1, <2>3 DEF ImportTypeOK
<1>7. RunsAreNumbered' /\ ClerksCount'
    BY <1>4, CountingStays DEF RunsInv, OpenInv
<1>8. RowsAreTheStatement' /\ WaitingRunHasItsJob'
    <2>1. ASSUME NEW q \in RunIds, q # r
          PROVE  /\ IF runs'[q].status = "succeeded"
                    THEN /\ Len(runs'[q].rows) = Len(Lines[runs'[q].file])
                         /\ \A i \in 1 .. Len(runs'[q].rows) :
                               runs'[q].rows[i] = "invalid"
                                   <=> Lines[runs'[q].file][i].kind = "invalid"
                    ELSE runs'[q].rows = <<>>
                 /\ runs'[q].status = "queued" => runs'[q].job # "finished"
        BY <1>4, <2>1 DEF RunsInv, RowsAreTheStatement, WaitingRunHasItsJob
    <2>2. /\ IF runs'[r].status = "succeeded"
             THEN /\ Len(runs'[r].rows) = Len(Lines[runs'[r].file])
                  /\ \A i \in 1 .. Len(runs'[r].rows) :
                        runs'[r].rows[i] = "invalid"
                            <=> Lines[runs'[r].file][i].kind = "invalid"
             ELSE runs'[r].rows = <<>>
          /\ runs'[r].status # "queued"
        BY <1>0, <1>2, <1>4
    <2>3. QED
        BY <1>4, <2>1, <2>2 DEF RowsAreTheStatement, WaitingRunHasItsJob
<1>9. FileStatusIsEarned'
    <2>1. ASSUME NEW f \in Files, NEW t \in {"succeeded", "failed"}, NEW q \in RunsOf(f),
                 runs[q].status = t
          PROVE  q \in RunsOf(f)' /\ runs'[q].status = t
        BY <1>1, <1>4, <2>1 DEF RunsOf
    <2>2. \A f \in Files : f = runs[r].file => r \in RunsOf(f)' /\ runs'[r].status = s
        BY <1>1, <1>2, <1>4 DEF RunsOf
    <2>3. ASSUME NEW f \in Files, fstatus'[f] # fstatus[f]
          PROVE  /\ f = runs[r].file
                 /\ fstatus'[f] = word
        BY <1>0, <1>1, <2>3 DEF SetFileStatus, ImportTypeOK
    <2>4. ASSUME NEW f \in Files
          PROVE  /\ fstatus'[f] = "parsed" =>
                        \E q \in RunsOf(f)' : runs'[q].status = "succeeded"
                 /\ fstatus'[f] = "parse_failed" =>
                        \E q \in RunsOf(f)' : runs'[q].status = "failed"
        <3>1. CASE fstatus'[f] = fstatus[f]
            BY <2>1, <3>1 DEF FilesInv, FileStatusIsEarned
        <3>2. CASE fstatus'[f] # fstatus[f]
            BY <2>2, <2>3, <3>2
        <3>3. QED
            BY <3>1, <3>2
    <2>5. QED
        BY <2>4 DEF FileStatusIsEarned
<1>10. FlaggedRowsAreReviewed'
    <2>1. ASSUME NEW q \in RunIds, NEW i \in 1 .. Len(runs'[q].rows),
                 runs'[q].rows[i] = "possible_duplicate"
          PROVE  <<"run", q>> \in opened'
        <3>1. CASE q = r
            <4>1. runs'[r].rows = rows
                BY <1>2, <1>4
            <4>2. i \in 1 .. Len(rows) /\ rows[i] = "possible_duplicate"
                BY <2>1, <3>1, <4>1
            <4>3. <<"run", parser[p].run>> \in R
                BY <4>2
            <4>4. QED
                BY <1>0, <3>1, <4>3
        <3>2. CASE q # r
            BY <1>4, <2>1, <3>2 DEF FilesInv, FlaggedRowsAreReviewed
        <3>3. QED
            BY <3>1, <3>2
    <2>2. QED
        BY <1>4, <2>1 DEF FlaggedRowsAreReviewed
<1>11. WorkersHold'
    BY <1>0, <1>4, <1>5 DEF OpenInv, WorkersHold, Working, Polling
<1>12. ReviewsAreReady'
    BY <1>5 DEF OpenInv, ReviewsAreReady, Polling
<1>13. QED
    BY <1>6, <1>7, <1>8, <1>9, <1>10, <1>11, <1>12 DEF RunsInv, FilesInv, OpenInv

\* A clerk's move that creates no run.
LEMMA ClerkMoves ==
    ASSUME ImportInv, NEW k \in Clerks,
           NEW w \in [at : {"idle", "checked", "numbered"}, file : Files \cup {Null}, number : Nat],
           w.at # "idle" => w.file \in Files,
           w.at = "numbered" => w.number \in 1 .. Cardinality(RunsOf(w.file)) + 1,
           clerk' = [clerk EXCEPT ![k] = w],
           UNCHANGED <<filed, fstatus, runs, opened, paid, parser>>
    PROVE  ImportInv'
<1> USE DEF ImportInv
<1>1. RunIds' = RunIds /\ \A f \in Files : RunsOf(f)' = RunsOf(f)
    BY DEF RunIds, RunsOf
<1>2. ImportTypeOK'
    BY DEF ImportTypeOK
<1>3. clerk'[k] = w /\ \A q \in Clerks : q # k => clerk'[q] = clerk[q]
    BY DEF ImportTypeOK
<1>4. RunsAreNumbered'
    BY <1>1 DEF RunsInv, RunsAreNumbered
<1>5. RunsInv' /\ FilesInv'
    BY <1>1, <1>4 DEF RunsInv, RowsAreTheStatement, WaitingRunHasItsJob, FilesInv,
       FileStatusIsEarned, FlaggedRowsAreReviewed
<1>6. ClerksCount'
    BY <1>1, <1>3 DEF OpenInv, ClerksCount
<1>7. WorkersHold' /\ ReviewsAreReady'
    BY <1>1 DEF OpenInv, WorkersHold, Working, ReviewsAreReady
<1>8. QED
    BY <1>2, <1>5, <1>6, <1>7 DEF OpenInv

-----------------------------------------------------------------------------
(* The steps. *)

\* Filing keeps the invariant.
LEMMA Filing == ImportInv /\ File => ImportInv'
<1> SUFFICES ASSUME ImportInv, NEW f \in Files, NEW v \in Versions, CreateStatementFile(f, v)
             PROVE  ImportInv'
    BY DEF File
<1> USE DEF ImportInv, CreateStatementFile
<1>1. RunIds' = RunIds /\ \A g \in Files : RunsOf(g)' = RunsOf(g)
    BY DEF RunIds, RunsOf
<1>2. ImportTypeOK'
    BY DEF ImportTypeOK, FileStatuses
<1>3. RunsAreNumbered' /\ ClerksCount'
    BY <1>1, CountingStays DEF RunsInv, OpenInv
<1>4. RunsInv'
    BY <1>1, <1>3 DEF RunsInv, RowsAreTheStatement, WaitingRunHasItsJob
<1>5. FilesInv'
    <2>1. fstatus'[f] = "uploaded" /\ \A g \in Files : g # f => fstatus'[g] = fstatus[g]
        BY DEF ImportTypeOK
    <2>2. FileStatusIsEarned'
        BY <1>1, <2>1 DEF FilesInv, FileStatusIsEarned
    <2>3. QED
        BY <1>1, <2>2 DEF FilesInv, FlaggedRowsAreReviewed
<1>6. WorkersHold' /\ ReviewsAreReady'
    BY <1>1 DEF OpenInv, WorkersHold, Working, ReviewsAreReady
<1>7. QED
    BY <1>2, <1>3, <1>4, <1>5, <1>6 DEF OpenInv

\* The next number is at most one more than the runs there are.
LEMMA NextNumberIsNear ==
    ASSUME ImportInv, NEW f \in Files, NEW n \in Nat, IsNextNumber(n, f)
    PROVE  n \in 1 .. Cardinality(RunsOf(f)) + 1
<1>1. Cardinality(RunsOf(f)) \in Nat
    BY RunsAreFinite DEF ImportInv
<1>2. CASE n = 1
    BY <1>1, <1>2
<1>3. ASSUME NEW r \in RunsOf(f), n = runs[r].number + 1
      PROVE  n \in 1 .. Cardinality(RunsOf(f)) + 1
    <2>1. runs[r].number \in {runs[q].number : q \in RunsOf(f)}
        OBVIOUS
    <2>2. runs[r].number \in 1 .. Cardinality(RunsOf(f))
        BY <2>1 DEF ImportInv, RunsInv, RunsAreNumbered
    <2>3. QED
        BY <1>1, <1>3, <2>2
<1>4. QED
    BY <1>2, <1>3 DEF IsNextNumber

\* A new run takes the one number that is free.
LEMMA Creating == ASSUME ImportInv, NEW k \in Clerks, CreateImportRun(k) PROVE ImportInv'
<1> USE DEF ImportInv
<1>0. PICK f \in Files, n \in Nat : f = clerk[k].file /\ n = clerk[k].number
    BY DEF CreateImportRun, OpenInv, ClerksCount, ImportTypeOK
<1> DEFINE e == [file |-> f, number |-> n, status |-> "queued", job |-> "waiting", rows |-> <<>>]
           m == Len(runs) + 1
<1>1. /\ runs' = Append(runs, e) /\ Len(runs) < MaxRuns
      /\ clerk[k].at = "numbered" /\ ~NumberTaken(f, n)
      /\ clerk' = [clerk EXCEPT ![k] = Unasked]
      /\ UNCHANGED <<filed, fstatus, opened, paid, parser>>
    BY <1>0 DEF CreateImportRun
<1>2. e \in RunRecord /\ runs \in Seq(RunRecord) /\ Len(runs) \in Nat
    BY DEF RunRecord, ImportTypeOK
<1>3. /\ e.file = f /\ e.number = n /\ e.status = "queued" /\ e.job = "waiting" /\ e.rows = <<>>
    OBVIOUS
<1> HIDE DEF e
<1>4. /\ runs' \in Seq(RunRecord) /\ Len(runs') = m
      /\ \A q \in 1 .. Len(runs) : runs'[q] = runs[q]
      /\ runs'[m] = e
    BY <1>1, <1>2, AppendProperties
<1>5. /\ RunIds' = RunIds \cup {m} /\ m \notin RunIds
      /\ \A q \in RunIds : runs'[q] = runs[q]
    BY <1>2, <1>4 DEF RunIds
<1>6. RunsOf(f)' = RunsOf(f) \cup {m} /\ m \notin RunsOf(f)
    BY <1>3, <1>4, <1>5 DEF RunsOf
<1>7. \A g \in Files : g # f => RunsOf(g)' = RunsOf(g)
    BY <1>3, <1>4, <1>5 DEF RunsOf
<1>8. clerk'[k] = Unasked /\ \A q \in Clerks : q # k => clerk'[q] = clerk[q]
    BY <1>1 DEF ImportTypeOK
<1>9. ImportTypeOK'
    <2>1. Unasked \in [at : {"idle", "checked", "numbered"}, file : Files \cup {Null}, number : Nat]
        BY DEF Unasked
    <2>2. Len(runs') <= MaxRuns
        BY <1>1, <1>2, <1>4, FilesAssumption
    <2>3. QED
        BY <1>1, <1>4, <2>1, <2>2 DEF ImportTypeOK
<1>10. /\ IsFiniteSet(RunsOf(f)) /\ Cardinality(RunsOf(f)) \in Nat
       /\ Cardinality(RunsOf(f)') = Cardinality(RunsOf(f)) + 1
    <2>1. IsFiniteSet(RunsOf(f)) /\ Cardinality(RunsOf(f)) \in Nat
        BY RunsAreFinite
    <2>2. QED
        BY <1>6, <2>1, FS_AddElement
<1>11. RunsAreNumbered'
    <2>1. {runs[q].number : q \in RunsOf(f)} = 1 .. Cardinality(RunsOf(f))
        BY DEF RunsInv, RunsAreNumbered
    <2>2. n \in 1 .. Cardinality(RunsOf(f)) + 1
        BY <1>0, <1>1 DEF OpenInv, ClerksCount
    <2>3. n \notin {runs[q].number : q \in RunsOf(f)}
        BY <1>1 DEF NumberTaken
    <2>4. n = Cardinality(RunsOf(f)) + 1
        BY <1>10, <2>1, <2>2, <2>3
    <2>5. \A q \in RunsOf(f) : runs'[q].number = runs[q].number
        BY <1>5 DEF RunsOf
    <2>6. {runs'[q].number : q \in RunsOf(f)'} = {runs[q].number : q \in RunsOf(f)} \cup {n}
        BY <1>3, <1>4, <1>6, <2>5
    <2>7. {runs'[q].number : q \in RunsOf(f)'} = 1 .. Cardinality(RunsOf(f)')
        BY <1>10, <2>1, <2>4, <2>6
    <2>8. ASSUME NEW g \in Files, g # f
          PROVE  {runs'[q].number : q \in RunsOf(g)'} = 1 .. Cardinality(RunsOf(g)')
        <3>1. RunsOf(g)' = RunsOf(g) /\ \A q \in RunsOf(g) : runs'[q].number = runs[q].number
            BY <1>5, <1>7, <2>8 DEF RunsOf
        <3>2. {runs[q].number : q \in RunsOf(g)} = 1 .. Cardinality(RunsOf(g))
            BY DEF RunsInv, RunsAreNumbered
        <3>3. QED
            BY <3>1, <3>2
    <2>9. QED
        BY <2>7, <2>8 DEF RunsAreNumbered
<1>12. ClerksCount'
    <2>1. ASSUME NEW g \in Files
          PROVE  /\ Cardinality(RunsOf(g)) \in Nat /\ Cardinality(RunsOf(g)') \in Nat
                 /\ Cardinality(RunsOf(g)) <= Cardinality(RunsOf(g)')
        <3>1. Cardinality(RunsOf(g)) \in Nat
            BY RunsAreFinite
        <3>2. QED
            BY <1>7, <1>10, <3>1
    <2>2. ASSUME NEW q \in Clerks, q # k
          PROVE  /\ clerk'[q].at # "idle" => clerk'[q].file \in Files
                 /\ clerk'[q].at = "numbered" =>
                       \E g \in Files :
                          /\ g = clerk'[q].file
                          /\ clerk'[q].number \in 1 .. Cardinality(RunsOf(g)') + 1
        <3>1. clerk'[q] = clerk[q] /\ (clerk[q].at # "idle" => clerk[q].file \in Files)
            BY <1>8, <2>2 DEF OpenInv, ClerksCount
        <3>2. ASSUME clerk[q].at = "numbered", NEW g \in Files, g = clerk[q].file
              PROVE  clerk[q].number \in 1 .. Cardinality(RunsOf(g)') + 1
            <4>1. clerk[q].number \in 1 .. Cardinality(RunsOf(g)) + 1
                BY <3>2 DEF OpenInv, ClerksCount
            <4>2. QED
                BY <2>1, <4>1
        <3>3. QED
            BY <3>1, <3>2
    <2>3. ASSUME NEW q \in Clerks, NEW g \in Files, g = clerk'[q].file
          PROVE  RunsOf(clerk[q].file)' = RunsOf(g)'
        BY <2>3 DEF RunsOf
    <2>4. ASSUME NEW q \in Clerks
          PROVE  (/\ clerk[q].at # "idle" => clerk[q].file \in Files
                  /\ clerk[q].at = "numbered" =>
                        clerk[q].number \in 1 .. Cardinality(RunsOf(clerk[q].file)) + 1)'
        <3>1. CASE q = k
            BY <1>8, <3>1 DEF Unasked
        <3>2. CASE q # k
            BY <2>2, <2>3, <3>2
        <3>3. QED
            BY <3>1, <3>2
    <2>5. QED
        BY <2>4 DEF ClerksCount
<1>13. RowsAreTheStatement' /\ WaitingRunHasItsJob'
    BY <1>3, <1>4, <1>5 DEF RunsInv, RowsAreTheStatement, WaitingRunHasItsJob
<1>14. FlaggedRowsAreReviewed'
    <2>1. runs'[m].rows = <<>> /\ Len(runs'[m].rows) = 0
        BY <1>3, <1>4
    <2>2. ASSUME NEW q \in RunIds, NEW i \in 1 .. Len(runs'[q].rows),
                 runs'[q].rows[i] = "possible_duplicate"
          PROVE  <<"run", q>> \in opened'
        BY <1>1, <1>5, <2>2 DEF FilesInv, FlaggedRowsAreReviewed
    <2>3. QED
        BY <1>5, <2>1, <2>2 DEF FlaggedRowsAreReviewed
<1>15. FileStatusIsEarned'
    <2>1. ASSUME NEW g \in Files, NEW q \in RunsOf(g)
          PROVE  q \in RunsOf(g)' /\ runs'[q] = runs[q]
        BY <1>5, <1>6, <1>7 DEF RunsOf
    <2>2. ASSUME NEW g \in Files
          PROVE  /\ fstatus'[g] = "parsed" =>
                        \E q \in RunsOf(g)' : runs'[q].status = "succeeded"
                 /\ fstatus'[g] = "parse_failed" =>
                        \E q \in RunsOf(g)' : runs'[q].status = "failed"
        <3>1. fstatus'[g] = fstatus[g]
            BY <1>1
        <3>2. QED
            BY <2>1, <3>1 DEF FilesInv, FileStatusIsEarned
    <2>3. QED
        BY <2>2 DEF FileStatusIsEarned
<1>16. WorkersHold' /\ ReviewsAreReady'
    BY <1>1, <1>5 DEF OpenInv, WorkersHold, Working, ReviewsAreReady
<1>17. QED
    BY <1>9, <1>11, <1>12, <1>13, <1>14, <1>15, <1>16 DEF RunsInv, FilesInv, OpenInv

\* Asking for a run keeps the invariant.
LEMMA Asking == ImportInv /\ Ask => ImportInv'
<1> SUFFICES ASSUME ImportInv, Ask PROVE ImportInv'
    OBVIOUS
<1>1. ASSUME NEW k \in Clerks, NEW f \in Files, CheckInFlight(k, f) PROVE ImportInv'
    <2> DEFINE w == [at |-> "checked", file |-> f, number |-> 0]
    <2>1. w \in [at : {"idle", "checked", "numbered"}, file : Files \cup {Null}, number : Nat]
        OBVIOUS
    <2>2. QED
        BY <1>1, <2>1, ClerkMoves DEF CheckInFlight
<1>2. ASSUME NEW k \in Clerks, NumberRun(k) PROVE ImportInv'
    <2>1. PICK f \in Files : f = clerk[k].file
        BY <1>2 DEF NumberRun, ImportInv, OpenInv, ClerksCount
    <2>2. PICK n \in Nat : /\ IsNextNumber(n, f)
                           /\ clerk' = [clerk EXCEPT ![k] = [at |-> "numbered", file |-> f,
                                                             number |-> n]]
        <3>1. Len(runs) \in Nat
            BY DEF ImportInv, ImportTypeOK
        <3>2. PICK n \in 1 .. Len(runs) + 1 :
                 /\ IsNextNumber(n, clerk[k].file)
                 /\ clerk' = [clerk EXCEPT ![k] = [at |-> "numbered", file |-> clerk[k].file,
                                                   number |-> n]]
            BY <1>2 DEF NumberRun
        <3>3. n \in Nat
            BY <3>1
        <3>4. QED
            BY <2>1, <3>2, <3>3
    <2>3. n \in 1 .. Cardinality(RunsOf(f)) + 1
        BY <2>2, NextNumberIsNear
    <2> DEFINE w == [at |-> "numbered", file |-> f, number |-> n]
    <2>4. w \in [at : {"idle", "checked", "numbered"}, file : Files \cup {Null}, number : Nat]
        OBVIOUS
    <2>5. QED
        BY <1>2, <2>2, <2>3, <2>4, ClerkMoves DEF NumberRun
<1>3. ASSUME NEW k \in Clerks, AbandonRun(k) PROVE ImportInv'
    <2>1. Unasked \in [at : {"idle", "checked", "numbered"}, file : Files \cup {Null}, number : Nat]
        BY DEF Unasked
    <2>2. Unasked.at = "idle"
        BY DEF Unasked
    <2>3. QED
        BY <1>3, <2>1, <2>2, ClerkMoves DEF AbandonRun
<1>4. QED
    BY <1>1, <1>2, <1>3, Creating DEF Ask

\* What a search for duplicates finds can be flagged and reviewed.
LEMMA DuplicatesAreFound ==
    ASSUME ImportInv, NEW r \in RunIds
    PROVE  /\ FindDuplicates(r).flagged \in SUBSET Nat
           /\ FindDuplicates(r).reviews \in SUBSET Reviews
           /\ FindDuplicates(r).flagged # {} => <<"run", r>> \in FindDuplicates(r).reviews
<1>1. PICK f \in Files : f = runs[r].file
    BY RunHasItsFile DEF ImportInv
<1>2. Len(Lines[f]) \in Nat /\ r \in 1 .. MaxRuns
    BY FilesAssumption DEF ImportInv, ImportTypeOK, RunIds
<1>3. FlaggedWithin(Lines[f]) \subseteq Nat /\ FlaggedElsewhere(f) \subseteq Nat
    BY <1>2 DEF FlaggedWithin, FlaggedElsewhere
<1> DEFINE F == FlaggedWithin(Lines[f]) \cup FlaggedElsewhere(f)
           R == (IF FiledTwice(f) THEN {<<"file", f>>} ELSE {})
                \cup (IF F # {} THEN {<<"run", r>>} ELSE {})
<1>4. FindDuplicates(r).flagged = F /\ FindDuplicates(r).reviews = R
    BY <1>1 DEF FindDuplicates
<1>5. R \in SUBSET Reviews
    BY <1>2 DEF Reviews
<1>6. F # {} => <<"run", r>> \in R
    OBVIOUS
<1> HIDE DEF F, R
<1>7. F \in SUBSET Nat
    BY <1>3 DEF F
<1>8. QED
    BY <1>4, <1>5, <1>6, <1>7

\* Parsing keeps the invariant.
LEMMA Parsing == ImportInv /\ Parse => ImportInv'
<1> SUFFICES ASSUME ImportInv, NEW p \in Parsers,
                    \/ \E r \in RunIds : BeginParse(p, r)
                    \/ ParseFails(p) \/ LookForDuplicates(p) \/ ParseSucceeds(p)
                    \/ ParseRaises(p) \/ RecordParseFailure(p) \/ ParserDies(p)
             PROVE  ImportInv'
    BY DEF Parse
<1> USE DEF ImportInv
<1>0. /\ parser[p] \in TurnType
      /\ parser[p].at # "idle" => parser[p].run \in RunIds
    BY DEF ImportTypeOK, TurnType, OpenInv, WorkersHold
<1>1. ASSUME NEW r \in RunIds, BeginParse(p, r) PROVE ImportInv'
    <2>1. CASE runs[r].status = "queued"
        <3>1. PICK w \in FileStatuses : w = fstatus[runs[r].file]
            BY RunHasItsFile DEF ImportTypeOK
        <3> DEFINE turn == [at |-> "parsing", run |-> r, flagged |-> {}, was |-> w,
                            reviews |-> {}]
        <3>2. turn \in TurnType
            BY DEF TurnType, RunIds
        <3>3. parser' = [parser EXCEPT ![p] = turn]
            BY <1>1, <2>1, <3>1 DEF BeginParse
        <3>4. /\ turn.at = "parsing" /\ turn.run = r
              /\ runs[r].status = "queued" /\ runs[r].job = "waiting"
              /\ \A q \in Parsers : Working(q) /\ parser[q].run = r => q = p
            BY <1>1, <2>1 DEF BeginParse, Held, Working
        <3> HIDE DEF turn
        <3>5. QED
            BY <1>1, <2>1, <3>2, <3>3, <3>4, WorkerMoves DEF BeginParse, TurnType
    <2>2. CASE runs[r].status # "queued"
        <3>1. /\ runs' = [runs EXCEPT ![r].job = "finished"] /\ ~Held(r)
              /\ UNCHANGED <<filed, fstatus, opened, paid, clerk, parser>>
            BY <1>1, <2>2 DEF BeginParse
        <3>2. parser' \in [Parsers -> TurnType] /\ \A q \in Parsers : parser'[q] = parser[q]
            BY <3>1 DEF ImportTypeOK, TurnType
        <3>3. QED
            BY <2>2, <3>1, <3>2, JobMoves
    <2>3. QED
        BY <2>1, <2>2
<1>2. ASSUME ParseFails(p) PROVE ImportInv'
    <2>1. PICK r \in RunIds : r = parser[p].run
        BY <1>0, <1>2 DEF ParseFails
    <2>2. Working(p)
        BY <1>2 DEF ParseFails, Working
    <2>3. runs[r].rows = <<>>
        BY <2>1, <2>2 DEF OpenInv, WorkersHold, RunsInv, RowsAreTheStatement
    <2> DEFINE none == <<>>
    <2>4. /\ none \in Seq(Kinds \cup {"possible_duplicate"}) /\ Len(none) = 0
          /\ {} \in SUBSET Reviews /\ opened = opened \cup {}
        OBVIOUS
    <2>5. /\ runs' = [runs EXCEPT ![parser[p].run] = Ended(parser[p].run, "failed", none)]
          /\ SetFileStatus(p, "parse_failed")
          /\ parser' = [parser EXCEPT ![p] = Polling]
          /\ opened' = opened \cup {} /\ UNCHANGED <<filed, paid, clerk>>
        BY <1>2, <2>1, <2>3, <2>4 DEF ParseFails
    <2> HIDE DEF none
    <2>6. /\ none = <<>>
          /\ \A i \in 1 .. Len(none) :
                none[i] = "possible_duplicate" => <<"run", parser[p].run>> \in {}
        BY <2>4 DEF none
    <2>7. "failed" \in {"succeeded", "failed"} /\ "parse_failed" \in {"parsed", "parse_failed"}
          /\ "failed" # "succeeded" /\ "parse_failed" # "parsed"
        OBVIOUS
    <2>8. QED
        BY <2>2, <2>4, <2>5, <2>6, <2>7, RunEnds
<1>3. ASSUME LookForDuplicates(p) PROVE ImportInv'
    <2>1. PICK r \in RunIds : r = parser[p].run
        BY <1>0, <1>3 DEF LookForDuplicates
    <2>2. PICK F \in SUBSET Nat, R \in SUBSET Reviews :
             /\ F = FindDuplicates(r).flagged /\ R = FindDuplicates(r).reviews
             /\ F # {} => <<"run", r>> \in R
        BY DuplicatesAreFound
    <2>3. PICK w \in FileStatuses : w = parser[p].was
        BY <1>0 DEF TurnType
    <2> DEFINE turn == [at |-> "writing", run |-> r, was |-> w, flagged |-> F, reviews |-> R]
    <2>4. turn \in TurnType
        BY DEF TurnType, RunIds
    <2>5. parser' = [parser EXCEPT ![p] = turn]
        BY <1>3, <2>1, <2>2, <2>3 DEF LookForDuplicates
    <2>6. turn.at = "writing" /\ turn.run = r /\ turn.flagged = F /\ turn.reviews = R
        OBVIOUS
    <2>7. /\ runs[r].status = "queued" /\ runs[r].job = "waiting"
          /\ \A q \in Parsers : Working(q) /\ parser[q].run = r => q = p
        BY <1>3, <2>1 DEF LookForDuplicates, OpenInv, WorkersHold, Working
    <2> HIDE DEF turn
    <2>8. QED
        BY <1>3, <2>2, <2>4, <2>5, <2>6, <2>7, WorkerMoves DEF LookForDuplicates, TurnType
<1>4. ASSUME ParseSucceeds(p) PROVE ImportInv'
    <2>1. PICK r \in RunIds : r = parser[p].run
        BY <1>0, <1>4 DEF ParseSucceeds
    <2>2. Working(p)
        BY <1>4 DEF ParseSucceeds, Working
    <2>3. PICK f \in Files : f = runs[r].file
        BY RunHasItsFile
    <2>4. PICK F \in SUBSET Nat, R \in SUBSET Reviews :
             /\ F = parser[p].flagged /\ R = parser[p].reviews
             /\ F # {} => <<"run", r>> \in R
        BY <1>0, <1>4, <2>1 DEF TurnType, ParseSucceeds, OpenInv, ReviewsAreReady
    <2>5. PICK rows \in Seq(Kinds \cup {"possible_duplicate"}) :
             /\ rows = RowsOf(f, F) /\ Len(rows) = Len(Lines[f])
             /\ \A i \in 1 .. Len(rows) :
                   /\ rows[i] = "invalid" <=> Lines[f][i].kind = "invalid"
                   /\ rows[i] = "possible_duplicate" => i \in F
        BY RowsAreLines
    <2>6. /\ \A i \in 1 .. Len(rows) :
                rows[i] = "possible_duplicate" => <<"run", parser[p].run>> \in R
          /\ Len(rows) = Len(Lines[runs[parser[p].run].file])
          /\ \A i \in 1 .. Len(rows) :
                rows[i] = "invalid" <=> Lines[runs[parser[p].run].file][i].kind = "invalid"
        BY <2>1, <2>3, <2>4, <2>5
    <2>7. /\ runs' = [runs EXCEPT ![parser[p].run] = Ended(parser[p].run, "succeeded", rows)]
          /\ SetFileStatus(p, "parsed")
          /\ parser' = [parser EXCEPT ![p] = Polling]
          /\ opened' = opened \cup R /\ UNCHANGED <<filed, paid, clerk>>
        BY <1>4, <2>1, <2>3, <2>4, <2>5 DEF ParseSucceeds
    <2>8. "succeeded" \in {"succeeded", "failed"} /\ "parsed" \in {"parsed", "parse_failed"}
          /\ "succeeded" # "failed"
        OBVIOUS
    <2>9. QED
        BY <2>2, <2>6, <2>7, <2>8, RunEnds
<1>5. ASSUME ParseRaises(p) PROVE ImportInv'
    <2>1. PICK r \in RunIds : r = parser[p].run
        BY <1>0, <1>5 DEF ParseRaises
    <2> DEFINE turn == [at |-> "failing", run |-> r, was |-> "none", flagged |-> {},
                        reviews |-> {}]
    <2>2. turn \in TurnType
        BY DEF TurnType, RunIds, FileStatuses
    <2>3. parser' = [parser EXCEPT ![p] = turn]
        BY <1>5, <2>1 DEF ParseRaises
    <2>4. turn.at = "failing" /\ turn.run = r
        OBVIOUS
    <2> HIDE DEF turn
    <2>5. QED
        BY <1>5, <2>2, <2>3, <2>4, WorkerMoves DEF ParseRaises, TurnType
<1>6. Polling \in TurnType /\ Polling.at = "idle"
    BY DEF Polling, TurnType, FileStatuses
<1>7. ASSUME ParserDies(p) PROVE ImportInv'
    BY <1>6, <1>7, WorkerMoves DEF ParserDies, TurnType
<1>8. ASSUME RecordParseFailure(p) PROVE ImportInv'
    <2>1. PICK r \in RunIds, j \in {"waiting", "dead"} :
             r = parser[p].run /\ ~Held(r) /\ runs' = [runs EXCEPT ![r].job = j]
        BY <1>0, <1>8 DEF RecordParseFailure
    <2>2. /\ parser' \in [Parsers -> TurnType]
          /\ \A q \in Parsers : parser'[q] \in {parser[q], Polling}
        BY <1>6, <1>8 DEF RecordParseFailure, ImportTypeOK, TurnType
    <2>3. QED
        BY <1>8, <2>1, <2>2, JobMoves DEF RecordParseFailure
<1>9. QED
    BY <1>1, <1>2, <1>3, <1>4, <1>5, <1>7, <1>8

\* Matching touches neither runs nor statements.
LEMMA Matching == ImportInv /\ Match => ImportInv'
<1> SUFFICES ASSUME ImportInv, NEW c \in Claims, NEW r \in RunIds,
                    NEW i \in 1 .. Len(runs[r].rows), ConfirmMatch(c, r, i)
             PROVE  ImportInv'
    BY DEF Match
<1> USE DEF ImportInv, ConfirmMatch
<1>1. RunIds' = RunIds /\ \A g \in Files : RunsOf(g)' = RunsOf(g)
    BY DEF RunIds, RunsOf
<1>2. ImportTypeOK'
    <2>1. r \in 1 .. MaxRuns /\ Len(runs[r].rows) \in Nat
        BY RunHasItsFile, FilesAssumption DEF ImportTypeOK, RunIds, RunRecord
    <2>2. <<c, r, i>> \in Claims \X (1 .. MaxRuns) \X Nat
        BY <2>1
    <2>3. paid' \subseteq Claims \X (1 .. MaxRuns) \X Nat
        BY <2>2 DEF ImportTypeOK
    <2>4. QED
        BY <2>3 DEF ImportTypeOK
<1>3. RunsAreNumbered' /\ ClerksCount'
    BY <1>1, CountingStays DEF RunsInv, OpenInv
<1>4. RunsInv' /\ FilesInv'
    BY <1>1, <1>3 DEF RunsInv, RowsAreTheStatement, WaitingRunHasItsJob, FilesInv,
       FileStatusIsEarned, FlaggedRowsAreReviewed
<1>5. WorkersHold' /\ ReviewsAreReady'
    BY <1>1 DEF OpenInv, WorkersHold, Working, ReviewsAreReady
<1>6. QED
    BY <1>2, <1>3, <1>4, <1>5 DEF OpenInv

\* Administration and stuttering leave the import's state alone.
LEMMA Resting == ImportInv /\ UNCHANGED importVars => ImportInv'
<1> SUFFICES ASSUME ImportInv, UNCHANGED importVars PROVE ImportInv'
    OBVIOUS
<1> USE DEF ImportInv, importVars
<1>1. RunIds' = RunIds /\ \A g \in Files : RunsOf(g)' = RunsOf(g)
    BY DEF RunIds, RunsOf
<1>2. ImportTypeOK'
    BY DEF ImportTypeOK
<1>3. RunsAreNumbered' /\ ClerksCount'
    BY <1>1, CountingStays DEF RunsInv, OpenInv
<1>4. RunsInv' /\ FilesInv'
    BY <1>1, <1>3 DEF RunsInv, RowsAreTheStatement, WaitingRunHasItsJob, FilesInv,
       FileStatusIsEarned, FlaggedRowsAreReviewed
<1>5. WorkersHold' /\ ReviewsAreReady'
    BY <1>1 DEF OpenInv, WorkersHold, Working, ReviewsAreReady
<1>6. QED
    BY <1>2, <1>3, <1>4, <1>5 DEF OpenInv

\* Statements are configured, filed, parsed and matched without breaking either invariant.
THEOREM Invariance == Spec => [](ConfigInv /\ ImportInv)
<1>1. Init => ConfigInv /\ ImportInv
    BY ConfigInitially, ImportInitially DEF Init
<1>2. ConfigInv /\ ImportInv /\ [Next]_vars => (ConfigInv /\ ImportInv)'
    <2> SUFFICES ASSUME ConfigInv, ImportInv, [Next]_vars PROVE ConfigInv' /\ ImportInv'
        OBVIOUS
    <2>1. CASE Configure
        BY <2>1, ConfigStep, Resting DEF Configure
    <2>2. ASSUME File \/ Ask \/ Parse \/ Match PROVE UNCHANGED configVars
        BY <2>2 DEF File, Ask, Parse, Match, CreateStatementFile, CheckInFlight, NumberRun,
           CreateImportRun, AbandonRun, BeginParse, ParseFails, LookForDuplicates, ParseSucceeds,
           ParseRaises, RecordParseFailure, ParserDies, ConfirmMatch
    <2>3. CASE UNCHANGED vars
        BY <2>3, ConfigStep, Resting DEF vars
    <2>4. QED
        BY <2>1, <2>2, <2>3, ConfigStep, Filing, Asking, Parsing, Matching DEF Next
<1>3. QED
    BY <1>1, <1>2, PTL DEF Spec

\* Every variable of the configuration and of the import keeps its type.
THEOREM TypeCorrect == Spec => []TypeOK
<1>1. ConfigInv /\ ImportInv => TypeOK
    BY DEF ConfigInv, ImportInv, TypeOK
<1>2. QED
    BY Invariance, <1>1, PTL

\* The configuration is as safe with imports around it as alone.
THEOREM ConfigurationStaysSafe ==
    Spec => [](PointerIsActive /\ ActivatedVersionsParse /\ NumbersTellVersionsApart)
<1>1. ConfigInv => PointerIsActive /\ ActivatedVersionsParse /\ NumbersTellVersionsApart
    BY DEF ConfigInv
<1>2. QED
    BY Invariance, <1>1, PTL

\* No line of a parsed statement is lost or made readable, and a run that did not
\* succeed holds no rows, however workers race, fail and die.
THEOREM NoLineIsHidden == Spec => []RowsAreTheStatement
<1>1. ImportInv => RowsAreTheStatement
    BY DEF ImportInv, RunsInv
<1>2. QED
    BY Invariance, <1>1, PTL

\* However many clerks ask at once, a statement's runs are numbered from one without a gap.
THEOREM NumbersHaveNoGap == Spec => []RunsAreNumbered
<1>1. ImportInv => RunsAreNumbered
    BY DEF ImportInv, RunsInv
<1>2. QED
    BY Invariance, <1>1, PTL

\* No waiting run is left beside a finished job.
THEOREM NoRunWaitsUnseen == Spec => []WaitingRunHasItsJob
<1>1. ImportInv => WaitingRunHasItsJob
    BY DEF ImportInv, RunsInv
<1>2. QED
    BY Invariance, <1>1, PTL

\* A statement's status is the word of one of its runs.
THEOREM StatusIsARunsWord == Spec => []FileStatusIsEarned
<1>1. ImportInv => FileStatusIsEarned
    BY DEF ImportInv, FilesInv
<1>2. QED
    BY Invariance, <1>1, PTL

\* Every row called a possible duplicate has its review opened.
THEOREM DuplicatesReachAPerson == Spec => []FlaggedRowsAreReviewed
<1>1. ImportInv => FlaggedRowsAreReviewed
    BY DEF ImportInv, FilesInv
<1>2. QED
    BY Invariance, <1>1, PTL

\* The rows of a run that succeeded are never written again.
THEOREM RowsAreImmutable == Spec => RowsStay
<1> DEFINE Stay == \A r \in RunIds : runs[r].status = "succeeded" => runs'[r].rows = runs[r].rows
<1>1. ImportInv /\ [Next]_vars => [Stay]_vars
    <2> SUFFICES ASSUME ImportInv, Next, NEW r \in RunIds, runs[r].status = "succeeded"
                 PROVE  runs'[r].rows = runs[r].rows
        OBVIOUS
    <2>1. runs \in Seq(RunRecord) /\ r \in 1 .. Len(runs) /\ runs[r] \in RunRecord
        BY DEF ImportInv, ImportTypeOK, RunIds
    <2>2. CASE runs' = runs
        BY <2>2
    <2>3. ASSUME NEW k \in Clerks, CreateImportRun(k) PROVE runs'[r].rows = runs[r].rows
        BY <2>1, <2>3 DEF CreateImportRun
    <2>4. ASSUME NEW q \in RunIds, NEW j \in {"waiting", "finished", "dead"},
                 runs' = [runs EXCEPT ![q].job = j]
          PROVE  runs'[r].rows = runs[r].rows
        BY <2>1, <2>4 DEF RunRecord
    <2>5. ASSUME NEW p \in Parsers, Working(p), NEW s, NEW rows,
                 runs' = [runs EXCEPT ![parser[p].run] = Ended(parser[p].run, s, rows)]
          PROVE  runs'[r].rows = runs[r].rows
        <3>1. parser[p].run # r
            BY <2>5 DEF ImportInv, OpenInv, WorkersHold
        <3>2. QED
            BY <2>1, <2>5, <3>1
    <2>6. CASE Configure \/ File \/ Match
        BY <2>2, <2>6 DEF Configure, importVars, File, CreateStatementFile, Match, ConfirmMatch
    <2>7. CASE Ask
        BY <2>2, <2>3, <2>7 DEF Ask, CheckInFlight, NumberRun, AbandonRun
    <2>8. CASE Parse
        <3>1. PICK p \in Parsers : \/ \E q \in RunIds : BeginParse(p, q)
                                   \/ ParseFails(p) \/ LookForDuplicates(p) \/ ParseSucceeds(p)
                                   \/ ParseRaises(p) \/ RecordParseFailure(p) \/ ParserDies(p)
            BY <2>8 DEF Parse
        <3>2. ASSUME NEW q \in RunIds, BeginParse(p, q) PROVE runs'[r].rows = runs[r].rows
            BY <2>2, <2>4, <3>2 DEF BeginParse
        <3>3. CASE ParseFails(p)
            BY <2>5, <3>3 DEF ParseFails, Working
        <3>4. CASE ParseSucceeds(p)
            BY <2>5, <3>4 DEF ParseSucceeds, Working
        <3>5. CASE RecordParseFailure(p)
            <4>1. parser[p].run \in RunIds
                BY <3>5 DEF RecordParseFailure, ImportInv, OpenInv, WorkersHold
            <4>2. QED
                BY <2>4, <3>5, <4>1 DEF RecordParseFailure
        <3>6. CASE LookForDuplicates(p) \/ ParseRaises(p) \/ ParserDies(p)
            BY <2>2, <3>6 DEF LookForDuplicates, ParseRaises, ParserDies
        <3>7. QED
            BY <3>1, <3>2, <3>3, <3>4, <3>5, <3>6
    <2>9. QED
        BY <2>6, <2>7, <2>8 DEF Next
<1>2. QED
    BY Invariance, <1>1, PTL DEF Spec, RowsStay

-----------------------------------------------------------------------------
(* Refinement: JobQueue. *)

Stage  == [r \in 1 .. MaxRuns |-> JobOf(r)]
Holder == [p \in Parsers |-> RunIn(p, {"parsing", "writing"})]
Late   == [p \in Parsers |-> RunIn(p, {"failing"})]
Done   == {r \in RunIds : runs[r].status # "queued"}

\* What the promise does not see.
LEMMA Unseen ==
    ASSUME UNCHANGED <<runs, parser>>
    PROVE  UNCHANGED Queue!jqVars
BY DEF Queue!jqVars, JobOf, RunIn, RunIds

\* A worker's next turn, seen from the queue.
LEMMA TurnSeen ==
    ASSUME NEW p \in Parsers, \A q \in Parsers : q # p => parser'[q] = parser[q]
    PROVE  /\ parser'[p].at \in {"parsing", "writing"} =>
                Holder' = [Holder EXCEPT ![p] = parser'[p].run]
           /\ parser'[p].at \in {"idle", "failing"} => Holder' = [Holder EXCEPT ![p] = 0]
           /\ parser'[p].at = "failing" => Late' = [Late EXCEPT ![p] = parser'[p].run]
           /\ parser'[p].at \in {"idle", "parsing", "writing"} => Late' = [Late EXCEPT ![p] = 0]
<1>1. \A q \in Parsers : q # p => Holder'[q] = Holder[q] /\ Late'[q] = Late[q]
    BY DEF Holder, Late, RunIn
<1>2. Holder'[p] = IF parser'[p].at \in {"parsing", "writing"} THEN parser'[p].run ELSE 0
    BY DEF Holder, RunIn
<1>3. Late'[p] = IF parser'[p].at \in {"failing"} THEN parser'[p].run ELSE 0
    BY DEF Late, RunIn
<1>4. /\ Holder = [q \in Parsers |-> Holder[q]] /\ Holder' = [q \in Parsers |-> Holder'[q]]
      /\ Late = [q \in Parsers |-> Late[q]] /\ Late' = [q \in Parsers |-> Late'[q]]
    BY DEF Holder, Late
<1>5. /\ parser'[p].at \in {"parsing", "writing"} =>
                Holder' = [Holder EXCEPT ![p] = parser'[p].run]
      /\ parser'[p].at \in {"idle", "failing"} => Holder' = [Holder EXCEPT ![p] = 0]
    BY <1>1, <1>2, <1>4
<1>6. /\ parser'[p].at = "failing" => Late' = [Late EXCEPT ![p] = parser'[p].run]
      /\ parser'[p].at \in {"idle", "parsing", "writing"} => Late' = [Late EXCEPT ![p] = 0]
    BY <1>1, <1>3, <1>4
<1>7. QED
    BY <1>5, <1>6

\* Only one worker at a time holds a run, and no run is numbered 0.
LEMMA HolderSeen ==
    ASSUME ImportInv, NEW p \in Parsers
    PROVE  /\ parser[p].at \in {"parsing", "writing"} =>
                Holder[p] = parser[p].run /\ Holder[p] # 0 /\ Late[p] = 0
           /\ parser[p].at = "failing" =>
                Late[p] = parser[p].run /\ Late[p] # 0 /\ Holder[p] = 0
           /\ parser[p].at = "idle" => Holder[p] = 0 /\ Late[p] = 0
           /\ parser[p].at \in {"idle", "parsing", "writing", "failing"}
<1>1. parser[p].at # "idle" => parser[p].run \in Nat \ {0}
    BY DEF ImportInv, ImportTypeOK, OpenInv, WorkersHold, RunIds
<1>2. parser[p].at \in {"idle", "parsing", "writing", "failing"}
    BY DEF ImportInv, ImportTypeOK
<1>3. /\ Holder[p] = IF parser[p].at \in {"parsing", "writing"} THEN parser[p].run ELSE 0
      /\ Late[p] = IF parser[p].at = "failing" THEN parser[p].run ELSE 0
    BY DEF Holder, Late, RunIn
<1>4. QED
    BY <1>1, <1>2, <1>3

LEMMA PollingSeen ==
    ASSUME ImportInv, NEW p \in Parsers, parser' = [parser EXCEPT ![p] = Polling]
    PROVE  Holder' = [Holder EXCEPT ![p] = 0] /\ Late' = [Late EXCEPT ![p] = 0]
<1>1. parser'[p].at = "idle" /\ \A q \in Parsers : q # p => parser'[q] = parser[q]
    BY DEF ImportInv, ImportTypeOK, Polling
<1>2. QED
    BY <1>1, TurnSeen

LEMMA FreeSeen ==
    ASSUME NEW r \in RunIds, ~Held(r), r # 0
    PROVE  \A p \in Parsers : Holder[p] # r
BY DEF Held, Holder, RunIn

\* A run is one of the jobs, and a write to it is seen as its job and its status.
LEMMA RunSeen ==
    ASSUME ImportInv, NEW r \in RunIds
    PROVE  r \in 1 .. MaxRuns /\ r # 0 /\ Stage[r] = runs[r].job
<1>1. r \in 1 .. Len(runs) /\ Len(runs) \in Nat /\ Len(runs) <= MaxRuns
    BY DEF ImportInv, ImportTypeOK, RunIds
<1>2. r \in 1 .. MaxRuns /\ r # 0
    BY <1>1, FilesAssumption
<1>3. QED
    BY <1>2 DEF Stage, JobOf

LEMMA WriteSeen ==
    ASSUME NEW r \in RunIds, r \in 1 .. MaxRuns, RunIds' = RunIds,
           \A q \in RunIds : q # r => runs'[q] = runs[q]
    PROVE  /\ Stage' = [Stage EXCEPT ![r] = runs'[r].job]
           /\ runs'[r].status # "queued" => Done' = Done \cup {r}
           /\ runs'[r].status = runs[r].status => Done' = Done
<1>1. \A q \in 1 .. MaxRuns : q # r => Stage'[q] = Stage[q]
    BY DEF Stage, JobOf
<1>2. Stage'[r] = runs'[r].job
    BY DEF Stage, JobOf
<1>3. Stage = [q \in 1 .. MaxRuns |-> Stage[q]] /\ Stage' = [q \in 1 .. MaxRuns |-> Stage'[q]]
    BY DEF Stage
<1>4. Stage' = [Stage EXCEPT ![r] = runs'[r].job]
    BY <1>1, <1>2, <1>3
<1>5. Done' = {q \in RunIds : runs'[q].status # "queued"}
    BY DEF Done
<1>6. QED
    BY <1>4, <1>5 DEF Done

\* What a write to one run leaves as it was.
LEMMA OtherRunsStay ==
    ASSUME ImportInv, NEW r \in RunIds, NEW e, runs' = [runs EXCEPT ![r] = e]
    PROVE  /\ r \in 1 .. MaxRuns /\ RunIds' = RunIds /\ runs'[r] = e
           /\ \A q \in RunIds : q # r => runs'[q] = runs[q]
<1> DEFINE S == RunRecord \cup {e}
<1>1. runs \in Seq(RunRecord) /\ r \in 1 .. Len(runs) /\ Len(runs) \in Nat /\ Len(runs) <= MaxRuns
    BY DEF ImportInv, ImportTypeOK, RunIds
<1>2. runs \in Seq(S)
    BY <1>1
<1>3. e \in S
    OBVIOUS
<1> HIDE DEF S
<1>4. /\ Len(runs') = Len(runs)
      /\ \A q \in 1 .. Len(runs) : runs'[q] = IF q = r THEN e ELSE runs[q]
    BY <1>1, <1>2, <1>3, ExceptSeq
<1>5. QED
    BY <1>1, <1>4, FilesAssumption DEF RunIds

\* And a write to its job, of the run itself.
LEMMA JobSeen ==
    ASSUME ImportInv, NEW r \in RunIds, NEW j, runs' = [runs EXCEPT ![r].job = j]
    PROVE  Stage' = [Stage EXCEPT ![r] = j] /\ Done' = Done
<1>1. runs[r] \in RunRecord
    BY RunHasItsFile DEF ImportInv
<1> DEFINE e == [runs[r] EXCEPT !.job = j]
<1>2. e.job = j /\ e.status = runs[r].status
    BY <1>1 DEF RunRecord
<1>3. runs' = [runs EXCEPT ![r] = e]
    OBVIOUS
<1> HIDE DEF e
<1>4. /\ r \in 1 .. MaxRuns /\ RunIds' = RunIds /\ runs'[r] = e
      /\ \A q \in RunIds : q # r => runs'[q] = runs[q]
    BY <1>3, OtherRunsStay
<1>5. QED
    BY <1>2, <1>4, WriteSeen

\* A new run's job is asked for.
LEMMA CreatingIsAsk ==
    ASSUME ImportInv, NEW k \in Clerks, CreateImportRun(k)
    PROVE  \E r \in 1 .. MaxRuns : Queue!Ask(r)
<1> DEFINE n == Len(runs) + 1
           e == [file |-> clerk[k].file, number |-> clerk[k].number, status |-> "queued",
                 job |-> "waiting", rows |-> <<>>]
<1>1. runs' = Append(runs, e) /\ parser' = parser /\ Len(runs) < MaxRuns
    BY DEF CreateImportRun
<1>2. e.status = "queued" /\ e.job = "waiting"
    OBVIOUS
<1> HIDE DEF e
<1>3. /\ Len(runs) \in Nat /\ n \in 1 .. MaxRuns /\ n \notin RunIds
      /\ RunIds' = RunIds \cup {n}
      /\ runs'[n] = e /\ \A q \in RunIds : runs'[q] = runs[q]
    BY <1>1, FilesAssumption DEF ImportInv, ImportTypeOK, RunIds
<1>4. Stage[n] = "none" /\ Stage' = [Stage EXCEPT ![n] = "waiting"]
    BY <1>2, <1>3 DEF Stage, JobOf
<1>5. Done' = Done
    BY <1>2, <1>3 DEF Done
<1>6. Holder' = Holder /\ Late' = Late
    BY <1>1 DEF Holder, Late, RunIn
<1>7. Queue!Ask(n)
    BY <1>4, <1>5, <1>6 DEF Queue!Ask, Stage, Holder, Late, Done
<1>8. QED
    BY <1>3, <1>7

\* A worker takes a run's job, or finishes that of a run that has ended.
LEMMA BeginParseIsTakeOrSkip ==
    ASSUME ImportInv, NEW p \in Parsers, NEW r \in RunIds, BeginParse(p, r)
    PROVE  Queue!Take(p, r) \/ Queue!Skip(p, r)
<1>1. /\ Holder[p] = 0 /\ Late[p] = 0
      /\ Stage[r] = "waiting" /\ \A q \in Parsers : Holder[q] # r
    BY HolderSeen, RunSeen, FreeSeen DEF BeginParse
<1>2. CASE runs[r].status = "queued"
    <2>1. /\ parser'[p].at = "parsing" /\ parser'[p].run = r
          /\ \A q \in Parsers : q # p => parser'[q] = parser[q]
        BY <1>2 DEF BeginParse, ImportInv, ImportTypeOK
    <2>2. Holder' = [Holder EXCEPT ![p] = r] /\ Late' = [Late EXCEPT ![p] = 0]
        BY <2>1, TurnSeen
    <2>3. Late' = Late
        BY <1>1, <2>2 DEF Late
    <2>4. Stage' = Stage /\ Done' = Done
        BY <1>2 DEF BeginParse, Stage, JobOf, Done, RunIds
    <2>5. QED
        BY <1>1, <2>2, <2>3, <2>4 DEF Queue!Take, Queue!Idle, Queue!Free, Stage, Holder, Late, Done
<1>3. CASE runs[r].status # "queued"
    <2>1. runs' = [runs EXCEPT ![r].job = "finished"] /\ parser' = parser
        BY <1>3 DEF BeginParse
    <2>3. Stage' = [Stage EXCEPT ![r] = "finished"] /\ Done' = Done
        BY <2>1, JobSeen
    <2>4. Holder' = Holder /\ Late' = Late /\ r \in Done
        BY <1>3, <2>1 DEF Holder, Late, RunIn, Done
    <2>5. QED
        BY <1>1, <2>3, <2>4 DEF Queue!Skip, Queue!Idle, Queue!Free, Stage, Holder, Late, Done
<1>4. QED
    BY <1>2, <1>3

\* A run that ends, either way, completes its job.
LEMMA EndingIsComplete ==
    ASSUME ImportInv, NEW p \in Parsers, Working(p), NEW s \in {"succeeded", "failed"}, NEW rows,
           runs' = [runs EXCEPT ![parser[p].run] = Ended(parser[p].run, s, rows)],
           parser' = [parser EXCEPT ![p] = Polling]
    PROVE  Queue!Complete(p)
<1> DEFINE r == parser[p].run
<1>1. r \in RunIds /\ Holder[p] = r /\ Holder[p] # 0 /\ Late[p] = 0
    BY HolderSeen DEF Working, ImportInv, OpenInv, WorkersHold
<1>2. Ended(r, s, rows).job = "finished" /\ Ended(r, s, rows).status # "queued"
    BY DEF Ended
<1>3. Stage' = [Stage EXCEPT ![r] = "finished"] /\ Done' = Done \cup {r}
    <2>1. /\ r \in 1 .. MaxRuns /\ RunIds' = RunIds /\ runs'[r] = Ended(r, s, rows)
          /\ \A q \in RunIds : q # r => runs'[q] = runs[q]
        BY <1>1, OtherRunsStay
    <2>2. QED
        BY <1>1, <1>2, <2>1, WriteSeen
<1>4. Holder' = [Holder EXCEPT ![p] = 0] /\ Late' = [Late EXCEPT ![p] = 0]
    BY PollingSeen
<1>5. Late' = Late
    BY <1>1, <1>4 DEF Late
<1>6. QED
    BY <1>1, <1>3, <1>4, <1>5 DEF Queue!Complete, Stage, Holder, Late, Done

\* A parse that raises will be told of later.
LEMMA RaisingIsFail ==
    ASSUME ImportInv, NEW p \in Parsers, ParseRaises(p)
    PROVE  Queue!Fail(p)
<1>1. /\ runs' = runs
      /\ parser'[p].at = "failing" /\ parser'[p].run = parser[p].run
      /\ \A q \in Parsers : q # p => parser'[q] = parser[q]
    BY DEF ParseRaises, ImportInv, ImportTypeOK
<1>2. Holder[p] = parser[p].run /\ Holder[p] # 0
    BY HolderSeen DEF ParseRaises
<1>3. Holder' = [Holder EXCEPT ![p] = 0] /\ Late' = [Late EXCEPT ![p] = parser[p].run]
    BY <1>1, TurnSeen
<1>4. Stage' = Stage /\ Done' = Done
    BY <1>1 DEF Stage, JobOf, Done, RunIds
<1>5. QED
    BY <1>2, <1>3, <1>4 DEF Queue!Fail, Stage, Holder, Late, Done

\* The late word.
LEMMA RecordingIsReport ==
    ASSUME ImportInv, NEW p \in Parsers, RecordParseFailure(p)
    PROVE  Queue!Report(p)
<1> DEFINE r == parser[p].run
<1>1. /\ r \in RunIds /\ Late[p] = r /\ Late[p] # 0 /\ Holder[p] = 0
      /\ \A q \in Parsers : Holder[q] # r
    <2>1. r \in RunIds
        BY DEF RecordParseFailure, ImportInv, OpenInv, WorkersHold
    <2>2. QED
        BY <2>1, HolderSeen, RunSeen, FreeSeen DEF RecordParseFailure
<1>2. PICK j \in {"waiting", "dead"} : runs' = [runs EXCEPT ![r].job = j]
    BY DEF RecordParseFailure
<1>4. Stage' = [Stage EXCEPT ![r] = j] /\ Done' = Done
    BY <1>1, <1>2, JobSeen
<1>5. Stage' = [Stage EXCEPT ![r] = "waiting"] \/ Stage' = [Stage EXCEPT ![r] = "dead"]
    BY <1>4
<1>6. Holder' = [Holder EXCEPT ![p] = 0] /\ Late' = [Late EXCEPT ![p] = 0]
    BY PollingSeen DEF RecordParseFailure
<1>7. Holder' = Holder
    BY <1>1, <1>6 DEF Holder
<1>8. QED
    BY <1>1, <1>4, <1>5, <1>6, <1>7 DEF Queue!Report, Queue!Free, Stage, Holder, Late, Done

LEMMA DyingIsLetGo ==
    ASSUME ImportInv, NEW p \in Parsers, ParserDies(p)
    PROVE  Queue!LetGo(p)
<1>1. Holder[p] # 0 \/ Late[p] # 0
    BY HolderSeen DEF ParserDies
<1>2. Holder' = [Holder EXCEPT ![p] = 0] /\ Late' = [Late EXCEPT ![p] = 0]
    BY PollingSeen DEF ParserDies
<1>3. Stage' = Stage /\ Done' = Done
    BY DEF ParserDies, Stage, JobOf, Done, RunIds
<1>4. QED
    BY <1>1, <1>2, <1>3 DEF Queue!LetGo, Queue!Idle, Stage, Holder, Late, Done

\* A worker that looks for duplicates still holds its run.
LEMMA LookingIsUnseen ==
    ASSUME ImportInv, NEW p \in Parsers, LookForDuplicates(p)
    PROVE  UNCHANGED Queue!jqVars
<1>1. /\ parser'[p].at = "writing" /\ parser'[p].run = parser[p].run
      /\ \A q \in Parsers : q # p => parser'[q] = parser[q]
    BY DEF LookForDuplicates, ImportInv, ImportTypeOK
<1>2. Holder[p] = parser[p].run /\ Late[p] = 0
    BY HolderSeen DEF LookForDuplicates
<1>3. Holder' = [Holder EXCEPT ![p] = parser[p].run] /\ Late' = [Late EXCEPT ![p] = 0]
    BY <1>1, TurnSeen
<1>4. Holder' = Holder /\ Late' = Late
    BY <1>2, <1>3 DEF Holder, Late
<1>5. Stage' = Stage /\ Done' = Done
    BY DEF LookForDuplicates, Stage, JobOf, Done, RunIds
<1>6. QED
    BY <1>4, <1>5 DEF Queue!jqVars, Stage, Holder, Late, Done

\* Every step of the import is a step of the promise, or is not seen by it.
LEMMA StepMaps == ImportInv /\ [Next]_vars => [Queue!JQNext]_(Queue!jqVars)
<1> SUFFICES ASSUME ImportInv, [Next]_vars PROVE Queue!JQNext \/ UNCHANGED Queue!jqVars
    OBVIOUS
<1>1. CASE Configure \/ File \/ Match \/ UNCHANGED vars
    BY <1>1, Unseen DEF Configure, importVars, vars, File, CreateStatementFile, Match, ConfirmMatch
<1>2. CASE Ask
    BY <1>2, Unseen, CreatingIsAsk DEF Ask, CheckInFlight, NumberRun, AbandonRun, Queue!JQNext
<1>3. CASE Parse
    <2>1. PICK p \in Parsers : \/ \E q \in RunIds : BeginParse(p, q)
                               \/ ParseFails(p) \/ LookForDuplicates(p) \/ ParseSucceeds(p)
                               \/ ParseRaises(p) \/ RecordParseFailure(p) \/ ParserDies(p)
        BY <1>3 DEF Parse
    <2>2. CASE \E q \in RunIds : BeginParse(p, q)
        BY <2>2, BeginParseIsTakeOrSkip, RunSeen DEF Queue!JQNext
    <2>3. CASE ParseFails(p) \/ ParseSucceeds(p)
        <3>1. Queue!Complete(p)
            BY <2>3, EndingIsComplete DEF ParseFails, ParseSucceeds, Working
        <3>2. QED
            BY <3>1 DEF Queue!JQNext
    <2>4. CASE LookForDuplicates(p)
        BY <2>4, LookingIsUnseen
    <2>5. CASE ParseRaises(p) \/ RecordParseFailure(p) \/ ParserDies(p)
        BY <2>5, RaisingIsFail, RecordingIsReport, DyingIsLetGo DEF Queue!JQNext
    <2>6. QED
        BY <2>1, <2>2, <2>3, <2>4, <2>5
<1>4. QED
    BY <1>1, <1>2, <1>3 DEF Next

LEMMA InitMaps == Init => Queue!JQInit
<1> SUFFICES ASSUME Init PROVE Queue!JQInit
    OBVIOUS
<1>1. RunIds = {}
    BY DEF Init, RunIds
<1>2. QED
    BY <1>1 DEF Init, Polling, Queue!JQInit, JobOf, RunIn

\* The import stays within the promise of the job queue, for any statements, clerks and
\* workers: a run's job ends in one worker's hands with the run ended, or given up.
THEOREM Refinement == Spec => ImplementsJobQueue
<1>1. ConfigInv /\ ImportInv /\ [Next]_vars => [Queue!JQNext]_(Queue!jqVars)
    BY StepMaps
<1>2. QED
    BY <1>1, Invariance, InitMaps, PTL DEF Spec, ImplementsJobQueue, Queue!JQSpec

=============================================================================
