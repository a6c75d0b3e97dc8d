--------------------------- MODULE FilesQueue_proofs ---------------------------
(***************************************************************************)
(* Proofs about FilesQueue, for any jobs, workers and bounds: its          *)
(* invariant is inductive, and it implements the promise of JobQueue.      *)
(*                                                                         *)
(* The argument: only who holds a job completes it, one worker holds it,   *)
(* and what that worker saw of earlier output cannot change meanwhile; so  *)
(* there is one output, and success commits beside it.  A late recording   *)
(* can undo neither, since it touches no output, and it gives a job up     *)
(* only on attempts that are never taken back.                             *)
(***************************************************************************)
EXTENDS FilesQueue, TLAPS

-----------------------------------------------------------------------------
(* The line. *)

\* The order is read off the pairs of jobs in it.
LEMMA LineFromPairs ==
    ASSUME TypeOK', Line' \subseteq Jobs,
           due' \subseteq Line',
           \A i, j \in Jobs : <<i, j>> \in ahead' => i \in Line' /\ j \in Line' /\ i # j,
           \A i, j \in Line' : i \in due' /\ j \notin due' => <<i, j>> \in ahead',
           \A i, j \in Line' : i # j => (<<i, j>> \in ahead' <=> <<j, i>> \notin ahead'),
           \A i, j, k \in Line' : <<i, j>> \in ahead' /\ <<j, k>> \in ahead' => <<i, k>> \in ahead'
    PROVE  QueueIsALine'
<1>1. ahead' \subseteq Line' \X Line'
  <2> SUFFICES ASSUME NEW p \in ahead' PROVE p \in Line' \X Line'
      OBVIOUS
  <2>1. PICK i \in Jobs, j \in Jobs : p = <<i, j>>
        BY DEF TypeOK
  <2>2. QED
        BY <2>1
<1>2. due' \X NotDue' \subseteq ahead'
  <2> SUFFICES ASSUME NEW p \in due' \X NotDue' PROVE p \in ahead'
      OBVIOUS
  <2>1. PICK i \in due', j \in NotDue' : p = <<i, j>>
        OBVIOUS
  <2>2. QED
        BY <2>1 DEF NotDue
<1>3. \A i \in Line' : <<i, i>> \notin ahead'
      OBVIOUS
<1>4. QED
      BY <1>1, <1>2, <1>3 DEF QueueIsALine

\* And the other way: what the line says of its pairs.
LEMMA PairsOfLine ==
    ASSUME TypeOK, QueueIsALine
    PROVE  /\ Line \subseteq Jobs /\ due \subseteq Line
           /\ \A i, j \in Jobs : <<i, j>> \in ahead => i \in Line /\ j \in Line /\ i # j
           /\ \A i, j \in Line : i \in due /\ j \notin due => <<i, j>> \in ahead
           /\ \A i, j \in Line : i # j => (<<i, j>> \in ahead <=> <<j, i>> \notin ahead)
           /\ \A i, j, k \in Line : <<i, j>> \in ahead /\ <<j, k>> \in ahead => <<i, k>> \in ahead
<1>1. \A i, j \in Line : i \in due /\ j \notin due => <<i, j>> \in due \X NotDue
      BY DEF NotDue
<1>2. \A i, j \in Jobs : <<i, j>> \in ahead => <<i, j>> \in Line \X Line
      BY DEF QueueIsALine
<1>3. \A i, j \in Jobs : <<i, j>> \in ahead => i \in Line /\ j \in Line /\ i # j
      BY <1>2 DEF QueueIsALine
<1>4. \A i, j \in Line : i \in due /\ j \notin due => <<i, j>> \in ahead
      BY <1>1 DEF QueueIsALine
<1>5. QED
      BY <1>3, <1>4 DEF QueueIsALine, Line

\* A step that moves no job leaves the line.
LEMMA UnmovedKeepsLine ==
    ASSUME QueueIsALine, UNCHANGED <<due, ahead>>, Line' = Line
    PROVE  QueueIsALine'
BY DEF QueueIsALine, NotDue

\* A new job goes behind the due ones and in front of the others.
LEMMA EnqueueKeepsLine ==
    ASSUME TypeOK, QueueIsALine, TypeOK', NEW j \in Jobs, Enqueue(j)
    PROVE  QueueIsALine'
<1>1. j \notin Line /\ Line' = Line \cup {j}
      BY DEF Enqueue, Line, TypeOK, Waiting
<1>2. due' = due \cup {j}
      BY DEF Enqueue
<1>3. \A a, b \in Jobs : <<a, b>> \in ahead' <=>
            \/ <<a, b>> \in ahead
            \/ a \in due /\ b = j
            \/ a = j /\ b \in Line /\ b \notin due
      BY DEF Enqueue, NotDue
<1>4. \A a, b \in Jobs : <<a, b>> \in ahead' => a \in Line' /\ b \in Line' /\ a # b
      BY <1>1, <1>3, PairsOfLine
<1>5. \A a, b \in Line' : a \in due' /\ b \notin due' => <<a, b>> \in ahead'
      BY <1>1, <1>2, <1>3, PairsOfLine
<1>6. \A a, b \in Line' : a # b => (<<a, b>> \in ahead' <=> <<b, a>> \notin ahead')
      BY <1>1, <1>3, PairsOfLine
<1>7. ASSUME NEW a \in Line', NEW b \in Line', NEW c \in Line',
             <<a, b>> \in ahead', <<b, c>> \in ahead'
      PROVE  <<a, c>> \in ahead'
  <2>1. a \in Jobs /\ b \in Jobs /\ c \in Jobs
        BY <1>1, PairsOfLine
  <2>2. CASE a = j \/ b = j \/ c = j
        BY <1>1, <1>3, <1>7, <2>1, <2>2, PairsOfLine
  <2>3. CASE a # j /\ b # j /\ c # j
        BY <1>1, <1>3, <1>7, <2>1, <2>3, PairsOfLine
  <2>4. QED
        BY <2>2, <2>3
<1>8. QED
      BY <1>1, <1>2, <1>4, <1>5, <1>6, <1>7, PairsOfLine, LineFromPairs

\* The first of the postponed jobs comes after all the due ones.
LEMMA BecomesDueKeepsLine ==
    ASSUME TypeOK, QueueIsALine, TypeOK', BecomesDue
    PROVE  QueueIsALine'
<1>1. PICK j \in NotDue : /\ \A i \in NotDue \ {j} : <<j, i>> \in ahead
                          /\ due' = due \cup {j}
      BY DEF BecomesDue
<1>2. Line' = Line /\ ahead' = ahead /\ j \in Line /\ j \notin due
      BY DEF BecomesDue, Line, NotDue
<1>3. \A i \in Line : i \notin due /\ i # j => <<j, i>> \in ahead
      BY <1>1 DEF NotDue
<1>4. QED
      BY <1>1, <1>2, <1>3, PairsOfLine, LineFromPairs

\* A job that leaves takes its pairs with it.
LEMMA LeavesKeepsLine ==
    ASSUME TypeOK, QueueIsALine, TypeOK', NEW j \in Jobs, Leaves(j), Line' = Line \ {j}
    PROVE  QueueIsALine'
<1>1. due' = due \ {j}
      BY DEF Leaves
<1>2. \A a, b \in Jobs : <<a, b>> \in ahead' <=> <<a, b>> \in ahead /\ a # j /\ b # j
      BY DEF Leaves
<1>3. QED
      BY <1>1, <1>2, PairsOfLine, LineFromPairs

\* A job that is postponed goes to the end.
LEMMA PostponeKeepsLine ==
    ASSUME TypeOK, QueueIsALine, TypeOK', NEW j \in Jobs, Postpone(j), Line' = Line \cup {j}
    PROVE  QueueIsALine'
<1>1. due' = due \ {j}
      BY DEF Postpone
<1>2. \A a, b \in Jobs : <<a, b>> \in ahead' <=>
            \/ <<a, b>> \in ahead /\ a # j /\ b # j
            \/ a \in Line /\ a # j /\ b = j
      BY DEF Postpone
<1>3. QED
      BY <1>1, <1>2, PairsOfLine, LineFromPairs

\* A poll that finds a due job nobody holds can claim one job and no other.
LEMMA OneJobToClaim ==
    ASSUME TypeOK, QueueIsALine, NEW w \in Workers, NEW i \in Jobs, NEW j \in Jobs,
           Claims(w, i), Claims(w, j)
    PROVE  i = j
<1>1. i \in due /\ j \in due /\ ~Locked(i) /\ ~Locked(j)
      BY DEF Claims
<1>2. i # j => <<i, j>> \in ahead /\ <<j, i>> \in ahead
      BY <1>1 DEF Claims
<1>3. QED
      BY <1>1, <1>2, PairsOfLine

-----------------------------------------------------------------------------
(* The invariant. *)

\* The empty queue satisfies it.
LEMMA InitInv == Init => Inv
<1> SUFFICES ASSUME Init PROVE Inv
    OBVIOUS
<1>1. TypeOK
      BY QueueAssumption DEF Init, TypeOK, Waiting, Finished
<1>2. Line = {}
      BY DEF Init, Line, Waiting
<1>3. OneOutputPerJob /\ SucceededHasItsOutput /\ ExhaustionIsNotSilence
      BY DEF Init, OneOutputPerJob, SucceededHasItsOutput, ExhaustionIsNotSilence, Jobs
<1>4. QueueIsALine
      BY <1>2 DEF Init, QueueIsALine
<1>5. HeldJobsWait /\ ReadingsHold /\ FailuresHaveJobs
      BY DEF Init, HeldJobsWait, ReadingsHold, FailuresHaveJobs
<1>6. QED
      BY <1>1, <1>3, <1>4, <1>5 DEF Inv

\* A job is enqueued.
LEMMA EnqueueKeeps ==
    ASSUME Inv, NEW j \in Jobs, Enqueue(j)
    PROVE  Inv'
<1> USE QueueAssumption DEF Inv, Enqueue, jobVars, workVars
<1>1. TypeOK'
  <2>1. due' \subseteq Jobs /\ ahead' \subseteq Jobs \X Jobs
        BY DEF TypeOK, Line, NotDue
  <2>2. QED
        BY <2>1 DEF TypeOK, Waiting, Finished, Reading
<1>2. OneOutputPerJob'
      BY DEF TypeOK, OneOutputPerJob, HeldJobsWait
<1>3. SucceededHasItsOutput'
      BY DEF TypeOK, SucceededHasItsOutput, OneOutputPerJob, HeldJobsWait
<1>4. ExhaustionIsNotSilence'
      BY DEF TypeOK, ExhaustionIsNotSilence, ReadingsHold, Jobs
<1>5. QueueIsALine'
      BY <1>1, EnqueueKeepsLine
<1>6. HeldJobsWait'
      BY DEF TypeOK, HeldJobsWait, QueueIsALine
<1>7. ReadingsHold'
      BY DEF TypeOK, ReadingsHold, Reading
<1>8. FailuresHaveJobs'
      BY DEF TypeOK, FailuresHaveJobs, Waiting
<1>9. QED
      BY <1>1, <1>2, <1>3, <1>4, <1>5, <1>6, <1>7, <1>8

\* A retry's thirty seconds pass.
LEMMA BecomesDueKeeps ==
    ASSUME Inv, BecomesDue
    PROVE  Inv'
<1> USE QueueAssumption DEF Inv, BecomesDue, NotDue, Line, jobVars, workVars
<1>1. TypeOK'
      BY DEF TypeOK, Waiting, Finished, Reading
<1>2. OneOutputPerJob'
      BY DEF TypeOK, OneOutputPerJob, HeldJobsWait
<1>3. SucceededHasItsOutput'
      BY DEF TypeOK, SucceededHasItsOutput, OneOutputPerJob, HeldJobsWait
<1>4. ExhaustionIsNotSilence'
      BY DEF TypeOK, ExhaustionIsNotSilence, ReadingsHold, Jobs
<1>5. QueueIsALine'
      BY <1>1, BecomesDueKeepsLine
<1>6. HeldJobsWait'
      BY DEF TypeOK, HeldJobsWait, QueueIsALine
<1>7. ReadingsHold'
      BY DEF TypeOK, ReadingsHold, Reading
<1>8. FailuresHaveJobs'
      BY DEF TypeOK, FailuresHaveJobs, HeldJobsWait, QueueIsALine, Line
<1>9. QED
      BY <1>1, <1>2, <1>3, <1>4, <1>5, <1>6, <1>7, <1>8

\* A worker begins a job of its own.
LEMMA BeginWorkKeeps ==
    ASSUME Inv, NEW w \in Workers, NEW j \in Jobs, BeginWork(w, j)
    PROVE  Inv'
<1> USE QueueAssumption DEF Inv, BeginWork, Claims, Locked, jobVars, workVars
<1>1. TypeOK'
      BY DEF TypeOK, Waiting, Finished, Reading
<1>2. OneOutputPerJob'
      BY DEF TypeOK, OneOutputPerJob, HeldJobsWait
<1>3. SucceededHasItsOutput'
      BY DEF TypeOK, SucceededHasItsOutput, OneOutputPerJob, HeldJobsWait
<1>4. ExhaustionIsNotSilence'
      BY DEF TypeOK, ExhaustionIsNotSilence, ReadingsHold, Jobs
<1>5. QueueIsALine'
      BY UnmovedKeepsLine DEF Line
<1>6. HeldJobsWait'
      BY DEF TypeOK, HeldJobsWait, QueueIsALine
<1>7. ReadingsHold'
      BY DEF TypeOK, ReadingsHold, Reading
<1>8. FailuresHaveJobs'
      BY DEF TypeOK, FailuresHaveJobs, HeldJobsWait, QueueIsALine, Line
<1>9. QED
      BY <1>1, <1>2, <1>3, <1>4, <1>5, <1>6, <1>7, <1>8

\* A worker hands a job back.
LEMMA HandBackKeeps ==
    ASSUME Inv, NEW w \in Workers, NEW j \in Jobs, HandBack(w, j)
    PROVE  Inv'
<1> USE QueueAssumption DEF Inv, HandBack, Claims, Locked, jobVars, workVars
<1>a. j \in Line /\ Line' = Line \cup {j}
      BY DEF TypeOK, QueueIsALine, Line, Waiting
<1> USE DEF Postpone
<1>1. TypeOK'
  <2>1. due' \subseteq Jobs /\ ahead' \subseteq Jobs \X Jobs
        BY DEF TypeOK, Line, NotDue
  <2>2. QED
        BY <2>1 DEF TypeOK, Waiting, Finished, Reading
<1>2. OneOutputPerJob'
      BY DEF TypeOK, OneOutputPerJob, HeldJobsWait
<1>3. SucceededHasItsOutput'
      BY DEF TypeOK, SucceededHasItsOutput, OneOutputPerJob, HeldJobsWait
<1>4. ExhaustionIsNotSilence'
      BY DEF TypeOK, ExhaustionIsNotSilence, ReadingsHold, Jobs
<1>5. QueueIsALine'
      BY <1>a, <1>1, PostponeKeepsLine
<1>6. HeldJobsWait'
      BY DEF TypeOK, HeldJobsWait, QueueIsALine
<1>7. ReadingsHold'
      BY DEF TypeOK, ReadingsHold, Reading
<1>8. FailuresHaveJobs'
      BY DEF TypeOK, FailuresHaveJobs, Waiting
<1>9. QED
      BY <1>1, <1>2, <1>3, <1>4, <1>5, <1>6, <1>7, <1>8

\* A handler returns.
LEMMA FinishKeeps ==
    ASSUME Inv, NEW w \in Workers, Finish(w)
    PROVE  Inv'
<1> USE QueueAssumption DEF Inv, Finish, StopWork, jobVars, workVars
<1>a. /\ working[w] \in Jobs /\ working[w] \in due
      /\ w \in fresh <=> outputs[working[w]] = 0
      BY DEF TypeOK, HeldJobsWait
<1>b. Line' = Line \ {working[w]}
      BY <1>a DEF TypeOK, Line, Waiting, Finished
<1> USE DEF Leaves
<1>1. TypeOK'
      BY <1>a DEF TypeOK, Waiting, Finished, Reading
<1>2. OneOutputPerJob'
      BY <1>a DEF TypeOK, OneOutputPerJob, HeldJobsWait
<1>3. SucceededHasItsOutput'
      BY <1>a DEF TypeOK, SucceededHasItsOutput, OneOutputPerJob, HeldJobsWait
<1>4. ExhaustionIsNotSilence'
      BY <1>a DEF TypeOK, ExhaustionIsNotSilence, ReadingsHold, Jobs
<1>5. QueueIsALine'
      BY <1>a, <1>b, <1>1, LeavesKeepsLine
<1>6. HeldJobsWait'
      BY <1>a DEF TypeOK, HeldJobsWait, QueueIsALine
<1>7. ReadingsHold'
      BY <1>a DEF TypeOK, ReadingsHold, Reading
<1>8. FailuresHaveJobs'
      BY <1>a DEF TypeOK, FailuresHaveJobs, Waiting
<1>9. QED
      BY <1>1, <1>2, <1>3, <1>4, <1>5, <1>6, <1>7, <1>8

\* A handler raises.
LEMMA RaiseKeeps ==
    ASSUME Inv, NEW w \in Workers, Raise(w)
    PROVE  Inv'
<1> USE QueueAssumption DEF Inv, Raise, StopWork, jobVars, workVars
<1>a. working[w] \in Jobs /\ working[w] \in due /\ status[working[w]] # "none"
      BY DEF TypeOK, HeldJobsWait, QueueIsALine, Line, Waiting
<1>1. TypeOK'
      BY <1>a DEF TypeOK, Waiting, Finished, Reading
<1>2. OneOutputPerJob'
      BY <1>a DEF TypeOK, OneOutputPerJob, HeldJobsWait
<1>3. SucceededHasItsOutput'
      BY <1>a DEF TypeOK, SucceededHasItsOutput, OneOutputPerJob, HeldJobsWait
<1>4. ExhaustionIsNotSilence'
      BY <1>a DEF TypeOK, ExhaustionIsNotSilence, ReadingsHold, Jobs
<1>5. QueueIsALine'
      BY UnmovedKeepsLine DEF Line
<1>6. HeldJobsWait'
      BY <1>a DEF TypeOK, HeldJobsWait, QueueIsALine
<1>7. ReadingsHold'
      BY <1>a DEF TypeOK, ReadingsHold, HeldJobsWait, Reading
<1>8. FailuresHaveJobs'
      BY <1>a DEF TypeOK, FailuresHaveJobs, HeldJobsWait, QueueIsALine, Line
<1>9. QED
      BY <1>1, <1>2, <1>3, <1>4, <1>5, <1>6, <1>7, <1>8

\* A commit is refused.
LEMMA CommitRefusedKeeps ==
    ASSUME Inv, NEW w \in Workers, CommitRefused(w)
    PROVE  Inv'
<1> USE QueueAssumption DEF Inv, CommitRefused, StopWork, jobVars, workVars
<1>1. TypeOK'
      BY DEF TypeOK, Waiting, Finished, Reading
<1>2. OneOutputPerJob'
      BY DEF TypeOK, OneOutputPerJob, HeldJobsWait
<1>3. SucceededHasItsOutput'
      BY DEF TypeOK, SucceededHasItsOutput, OneOutputPerJob, HeldJobsWait
<1>4. ExhaustionIsNotSilence'
      BY DEF TypeOK, ExhaustionIsNotSilence, ReadingsHold, Jobs
<1>5. QueueIsALine'
      BY UnmovedKeepsLine DEF Line
<1>6. HeldJobsWait'
      BY DEF TypeOK, HeldJobsWait, QueueIsALine
<1>7. ReadingsHold'
      BY DEF TypeOK, ReadingsHold, Reading
<1>8. FailuresHaveJobs'
      BY DEF TypeOK, FailuresHaveJobs, HeldJobsWait, QueueIsALine, Line
<1>9. QED
      BY <1>1, <1>2, <1>3, <1>4, <1>5, <1>6, <1>7, <1>8

\* A recording reads its row.
LEMMA ReadForFailureKeeps ==
    ASSUME Inv, NEW w \in Workers, ReadForFailure(w)
    PROVE  Inv'
<1> USE QueueAssumption DEF Inv, ReadForFailure, jobVars, workVars
<1>a. failing[w] \in Jobs /\ status[failing[w]] \in Waiting \cup Finished
      BY DEF TypeOK, FailuresHaveJobs
<1>1. TypeOK'
      BY <1>a DEF TypeOK, Waiting, Finished, Reading
<1>2. OneOutputPerJob'
      BY <1>a DEF TypeOK, OneOutputPerJob, HeldJobsWait
<1>3. SucceededHasItsOutput'
      BY <1>a DEF TypeOK, SucceededHasItsOutput, OneOutputPerJob, HeldJobsWait
<1>4. ExhaustionIsNotSilence'
      BY <1>a DEF TypeOK, ExhaustionIsNotSilence, ReadingsHold, Jobs
<1>5. QueueIsALine'
      BY UnmovedKeepsLine DEF Line
<1>6. HeldJobsWait'
      BY <1>a DEF TypeOK, HeldJobsWait, QueueIsALine
<1>7. ReadingsHold'
  <2>1. \A v \in Workers : read'[v] = IF v = w THEN [status |-> status[failing[w]],
                                   exhausted |-> attempts[failing[w]] >= MaxAttempts] ELSE read[v]
        BY DEF TypeOK
  <2>2. read'[w].exhausted => attempts[failing[w]] = MaxAttempts
    <3>1. read'[w] = [status |-> status[failing[w]],
                      exhausted |-> attempts[failing[w]] >= MaxAttempts]
          BY <2>1
    <3>2. read'[w].exhausted = (attempts[failing[w]] >= MaxAttempts)
          BY <3>1
    <3>3. attempts[failing[w]] \in 0 .. MaxAttempts
          BY <1>a DEF TypeOK
    <3>4. attempts[failing[w]] >= MaxAttempts => attempts[failing[w]] = MaxAttempts
          BY <3>3
    <3>5. QED
          BY <3>2, <3>4, Zenon
  <2>3. failing' = failing /\ attempts' = attempts /\ failing[w] # Null
        OBVIOUS
  <2>4. SUFFICES ASSUME NEW v \in Workers, read'[v] # Null
                 PROVE  /\ failing[v] # Null
                        /\ read'[v].exhausted => attempts[failing[v]] = MaxAttempts
        BY <2>3 DEF ReadingsHold
  <2>5. CASE v = w
        BY <2>2, <2>3, <2>5
  <2>6. CASE v # w
        BY <2>1, <2>4, <2>6 DEF ReadingsHold
  <2>7. QED
        BY <2>5, <2>6
<1>8. FailuresHaveJobs'
      BY <1>a DEF TypeOK, FailuresHaveJobs, HeldJobsWait, QueueIsALine, Line
<1>9. QED
      BY <1>1, <1>2, <1>3, <1>4, <1>5, <1>6, <1>7, <1>8

\* A worker dies.
LEMMA CrashKeeps ==
    ASSUME Inv, NEW w \in Workers, Crash(w)
    PROVE  Inv'
<1> USE QueueAssumption DEF Inv, Crash, StopWork, jobVars, workVars
<1>1. TypeOK'
      BY DEF TypeOK, Waiting, Finished, Reading
<1>2. OneOutputPerJob'
      BY DEF TypeOK, OneOutputPerJob, HeldJobsWait
<1>3. SucceededHasItsOutput'
      BY DEF TypeOK, SucceededHasItsOutput, OneOutputPerJob, HeldJobsWait
<1>4. ExhaustionIsNotSilence'
      BY DEF TypeOK, ExhaustionIsNotSilence, ReadingsHold, Jobs
<1>5. QueueIsALine'
      BY UnmovedKeepsLine DEF Line
<1>6. HeldJobsWait'
      BY DEF TypeOK, HeldJobsWait, QueueIsALine
<1>7. ReadingsHold'
      BY DEF TypeOK, ReadingsHold, Reading
<1>8. FailuresHaveJobs'
      BY DEF TypeOK, FailuresHaveJobs, HeldJobsWait, QueueIsALine, Line
<1>9. QED
      BY <1>1, <1>2, <1>3, <1>4, <1>5, <1>6, <1>7, <1>8

\* What a recording leaves of what the invariant says, whatever it decides: it holds no
\* job, and its reading is spent.
LEMMA RecordingIsSpent ==
    ASSUME Inv, NEW w \in Workers, RecordFailure(w)
    PROVE  /\ failing[w] \in Jobs /\ status[failing[w]] # "none"
           /\ \A v \in Workers : working[v] # failing[w]
           /\ read[w] \in Reading
           /\ read[w].exhausted => attempts[failing[w]] = MaxAttempts
           /\ \A v \in Workers : failing'[v] = IF v = w THEN Null ELSE failing[v]
           /\ \A v \in Workers : read'[v] = IF v = w THEN Null ELSE read[v]
           /\ UNCHANGED <<attempts, outputs, working, fresh, crashes>>
BY DEF Inv, RecordFailure, TypeOK, FailuresHaveJobs, ReadingsHold, Locked

\* And what it decides: the job is given up, put back, or left as it is.
LEMMA RecordingDecides ==
    ASSUME Inv, NEW w \in Workers, RecordFailure(w)
    PROVE  \/ /\ read[w].exhausted
              /\ Exhaust(failing[w])
           \/ /\ status' = [status EXCEPT ![failing[w]] = "retry_scheduled"]
              /\ Postpone(failing[w])
              /\ UNCHANGED escalated
           \/ UNCHANGED <<status, due, ahead, escalated>>
BY DEF RecordFailure

\* The late word of a worker that failed.
LEMMA RecordFailureKeeps ==
    ASSUME Inv, NEW w \in Workers, RecordFailure(w)
    PROVE  Inv'
<1> DEFINE j == failing[w]
<1>a. /\ j \in Jobs /\ status[j] # "none"
      /\ \A v \in Workers : working[v] # j
      /\ read[w].exhausted => attempts[j] = MaxAttempts
      /\ \A v \in Workers : failing'[v] = IF v = w THEN Null ELSE failing[v]
      /\ \A v \in Workers : read'[v] = IF v = w THEN Null ELSE read[v]
      /\ UNCHANGED <<attempts, outputs, working, fresh, crashes>>
      BY RecordingIsSpent
<1>b. /\ failing' \in [Workers -> Jobs \cup {Null}]
      /\ read' \in [Workers -> Reading \cup {Null}]
      BY DEF RecordFailure, Inv, TypeOK
<1> HIDE DEF j
<1>c. ReadingsHold'
      BY <1>a DEF Inv, ReadingsHold
<1>1. CASE read[w].exhausted /\ Exhaust(j)
  <2> USE <1>a, <1>b, <1>1 DEF Inv, Exhaust, Leaves
  <2>1. TypeOK'
        BY DEF TypeOK, Finished
  <2>2. OneOutputPerJob'
        BY DEF OneOutputPerJob
  <2>3. SucceededHasItsOutput'
        BY DEF TypeOK, SucceededHasItsOutput
  <2>4. ExhaustionIsNotSilence'
        BY DEF TypeOK, ExhaustionIsNotSilence, Jobs
  <2>5. Line' = Line \ {j}
        BY DEF TypeOK, Line, Waiting
  <2>6. QueueIsALine'
        BY <2>1, <2>5, LeavesKeepsLine
  <2>7. HeldJobsWait'
        BY DEF TypeOK, HeldJobsWait
  <2>8. FailuresHaveJobs'
        BY DEF TypeOK, FailuresHaveJobs
  <2>9. QED
        BY <1>c, <2>1, <2>2, <2>3, <2>4, <2>6, <2>7, <2>8
<1>2. CASE /\ status' = [status EXCEPT ![j] = "retry_scheduled"]
           /\ Postpone(j)
           /\ UNCHANGED escalated
  <2> USE <1>a, <1>b, <1>2 DEF Inv, Postpone
  <2>1. TypeOK'
    <3>1. due' \subseteq Jobs /\ ahead' \subseteq Jobs \X Jobs
          BY DEF TypeOK, Line
    <3>2. QED
          BY <3>1 DEF TypeOK, Waiting
  <2>2. OneOutputPerJob'
        BY DEF OneOutputPerJob
  <2>3. SucceededHasItsOutput'
        BY DEF TypeOK, SucceededHasItsOutput
  <2>4. ExhaustionIsNotSilence'
        BY DEF TypeOK, ExhaustionIsNotSilence, Jobs
  <2>5. Line' = Line \cup {j}
        BY DEF TypeOK, Line, Waiting
  <2>6. QueueIsALine'
        BY <2>1, <2>5, PostponeKeepsLine
  <2>7. HeldJobsWait'
        BY DEF TypeOK, HeldJobsWait
  <2>8. FailuresHaveJobs'
        BY DEF TypeOK, FailuresHaveJobs
  <2>9. QED
        BY <1>c, <2>1, <2>2, <2>3, <2>4, <2>6, <2>7, <2>8
<1>3. CASE UNCHANGED <<status, due, ahead, escalated>>
  <2> USE <1>a, <1>b, <1>3 DEF Inv
  <2>1. TypeOK'
        BY DEF TypeOK
  <2>2. OneOutputPerJob' /\ SucceededHasItsOutput' /\ ExhaustionIsNotSilence'
        BY DEF OneOutputPerJob, SucceededHasItsOutput, ExhaustionIsNotSilence
  <2>3. QueueIsALine'
        BY UnmovedKeepsLine DEF Line
  <2>4. HeldJobsWait'
        BY DEF HeldJobsWait
  <2>5. FailuresHaveJobs'
        BY DEF FailuresHaveJobs
  <2>6. QED
        BY <1>c, <2>1, <2>2, <2>3, <2>4, <2>5
<1>4. QED
      BY <1>1, <1>2, <1>3, RecordingDecides DEF j

LEMMA NextKeeps ==
    ASSUME Inv, [Next]_vars
    PROVE  Inv'
<1>1. CASE \E j \in Jobs : Enqueue(j)
      BY <1>1, EnqueueKeeps
<1>2. CASE BecomesDue
      BY <1>2, BecomesDueKeeps
<1>3. ASSUME NEW w \in Workers, Poll(w)
      PROVE  Inv'
      BY <1>3, BeginWorkKeeps, HandBackKeeps DEF Poll
<1>4. ASSUME NEW w \in Workers, Work(w)
      PROVE  Inv'
      BY <1>4, FinishKeeps, RaiseKeeps, CommitRefusedKeeps DEF Work
<1>5. CASE \E w \in Workers : ReadForFailure(w) \/ RecordFailure(w) \/ Crash(w)
      BY <1>5, ReadForFailureKeeps, RecordFailureKeeps, CrashKeeps
<1>6. CASE UNCHANGED vars
  <2> USE <1>6 DEF vars, jobVars, workVars, Inv
  <2>1. QueueIsALine'
        BY UnmovedKeepsLine DEF Line
  <2>2. QED
        BY <2>1 DEF TypeOK, OneOutputPerJob, SucceededHasItsOutput, ExhaustionIsNotSilence,
           HeldJobsWait, ReadingsHold, FailuresHaveJobs
<1>7. QED
      BY <1>1, <1>2, <1>3, <1>4, <1>5, <1>6 DEF Next

\* Every reachable state of the queue satisfies the invariant.
THEOREM Invariant == Spec => []Inv
<1>1. Init => Inv
      BY InitInv
<1>2. Inv /\ [Next]_vars => Inv'
      BY NextKeeps
<1>3. QED
      BY <1>1, <1>2, PTL DEF Spec

\* Type correctness of the state of the queue and its workers.
THEOREM TypeCorrect == Spec => []TypeOK
<1>1. Inv => TypeOK
      BY DEF Inv
<1>2. QED
      BY <1>1, Invariant, PTL

\* receipt_crop.py and statement_rows.py: no job's output is committed twice.
THEOREM NoSecondOutput == Spec => []OneOutputPerJob
<1>1. Inv => OneOutputPerJob
      BY DEF Inv
<1>2. QED
      BY <1>1, Invariant, PTL

\* files.py: a job's release commits with its output or not at all.
THEOREM SuccessIsReal == Spec => []SucceededHasItsOutput
<1>1. Inv => SucceededHasItsOutput
      BY DEF Inv
<1>2. QED
      BY <1>1, Invariant, PTL

\* files.py: a crop that is given up is with a person, and was out of attempts.
THEOREM ExhaustionIsHeard == Spec => []ExhaustionIsNotSilence
<1>1. Inv => ExhaustionIsNotSilence
      BY DEF Inv
<1>2. QED
      BY <1>1, Invariant, PTL

\* claiming.py: the jobs stand in one line, the due ones in front.
THEOREM OneLine == Spec => []QueueIsALine
<1>1. Inv => QueueIsALine
      BY DEF Inv
<1>2. QED
      BY <1>1, Invariant, PTL

-----------------------------------------------------------------------------
(* Refinement: JobQueue. *)

Stage == [j \in Jobs |-> StageOf[status[j]]]
Done  == {j \in Jobs : outputs[j] # 0}

\* One stage for each status.
LEMMA Stages ==
    /\ StageOf["none"] = "none" /\ StageOf["dead_lettered"] = "dead"
    /\ StageOf["queued"] = "waiting" /\ StageOf["retry_scheduled"] = "waiting"
    /\ StageOf["succeeded"] = "finished"
BY DEF StageOf

LEMMA WaitingStage ==
    ASSUME TypeOK, NEW j \in Jobs
    PROVE  status[j] \in Waiting => Stage[j] = "waiting"
BY Stages DEF TypeOK, Waiting, Finished, Stage

\* What the promise does not see.
LEMMA Unseen ==
    ASSUME UNCHANGED <<status, outputs, working, failing>>
    PROVE  UNCHANGED Promise!jqVars
BY DEF Promise!jqVars

\* An enqueued job is asked for.
LEMMA EnqueueIsAsk ==
    ASSUME Inv, NEW j \in Jobs, Enqueue(j)
    PROVE  Promise!Ask(j)
<1>1. Stage[j] = "none" /\ Stage' = [Stage EXCEPT ![j] = "waiting"]
      BY Stages DEF Enqueue, Inv, TypeOK, Stage
<1>2. UNCHANGED <<working, failing, Done>>
      BY DEF Enqueue, workVars, Done
<1>3. QED
      BY <1>1, <1>2 DEF Promise!Ask, Stage, Done

\* A claimed job was waiting and free.
LEMMA BeginWorkIsTake ==
    ASSUME Inv, NEW w \in Workers, NEW j \in Jobs, BeginWork(w, j)
    PROVE  Promise!Take(w, j)
<1>1. Stage[j] = "waiting"
      BY WaitingStage DEF BeginWork, Claims, Inv, QueueIsALine, Line
<1>2. /\ working[w] = Null /\ failing[w] = Null
      /\ \A v \in Workers : working[v] # j
      /\ working' = [working EXCEPT ![w] = j]
      BY DEF BeginWork, Claims, Locked
<1>3. UNCHANGED <<Stage, failing, Done>>
      BY DEF BeginWork, jobVars, Stage, Done
<1>4. QED
      BY <1>1, <1>2, <1>3 DEF Promise!Take, Promise!Idle, Promise!Free, Stage, Done

\* A job handed back is as it was.
LEMMA HandBackIsUnseen ==
    ASSUME Inv, NEW w \in Workers, NEW j \in Jobs, HandBack(w, j)
    PROVE  UNCHANGED Promise!jqVars
<1>1. Stage[j] = "waiting" /\ Stage' = [Stage EXCEPT ![j] = "waiting"]
      BY WaitingStage, Stages DEF HandBack, Claims, Inv, TypeOK, QueueIsALine, Line, Stage
<1>2. Stage' = Stage
      BY <1>1 DEF Stage
<1>3. UNCHANGED <<working, failing, Done>>
      BY DEF HandBack, workVars, Done
<1>4. QED
      BY <1>2, <1>3 DEF Promise!jqVars, Stage, Done

\* Whoever holds a job finishes it, and it has its output then: made now or found.
LEMMA FinishIsComplete ==
    ASSUME Inv, NEW w \in Workers, Finish(w)
    PROVE  Promise!Complete(w)
<1>1. working[w] \in Jobs /\ working[w] # Null
      BY DEF Finish, Inv, TypeOK
<1>2. Stage' = [Stage EXCEPT ![working[w]] = "finished"]
      BY <1>1, Stages DEF Finish, Inv, TypeOK, Stage
<1>3. Done' = Done \cup {working[w]}
  <2>1. w \in fresh <=> outputs[working[w]] = 0
        BY <1>1 DEF Inv, HeldJobsWait
  <2>2. outputs' = [outputs EXCEPT ![working[w]] = IF w \in fresh THEN @ + 1 ELSE @]
        BY DEF Finish
  <2>3. \A j \in Jobs : outputs'[j] # 0 <=> outputs[j] # 0 \/ j = working[w]
        BY <1>1, <2>1, <2>2 DEF Inv, TypeOK
  <2>4. QED
        BY <1>1, <2>3 DEF Done
<1>4. working' = [working EXCEPT ![w] = Null] /\ failing' = failing
      BY DEF Finish, StopWork
<1>5. QED
      BY <1>1, <1>2, <1>3, <1>4 DEF Promise!Complete, Stage, Done

\* A handler that raises will tell of it later.
LEMMA RaiseIsFail ==
    ASSUME Inv, NEW w \in Workers, Raise(w)
    PROVE  Promise!Fail(w)
<1>1. /\ working[w] # Null
      /\ failing' = [failing EXCEPT ![w] = working[w]]
      /\ working' = [working EXCEPT ![w] = Null]
      BY DEF Raise, StopWork
<1>2. UNCHANGED <<Stage, Done>>
      BY DEF Raise, jobVars, Stage, Done
<1>3. QED
      BY <1>1, <1>2 DEF Promise!Fail, Stage, Done

\* A refused commit leaves the job as it is.
LEMMA CommitRefusedIsLetGo ==
    ASSUME Inv, NEW w \in Workers, CommitRefused(w)
    PROVE  Promise!LetGo(w)
<1>1. working[w] # Null /\ failing[w] = Null
      BY DEF CommitRefused, Inv, HeldJobsWait
<1>2. failing' = [failing EXCEPT ![w] = Null] /\ working' = [working EXCEPT ![w] = Null]
      BY <1>1 DEF CommitRefused, StopWork, Inv, TypeOK
<1>3. UNCHANGED <<Stage, Done>>
      BY DEF CommitRefused, jobVars, Stage, Done
<1>4. QED
      BY <1>1, <1>2, <1>3 DEF Promise!LetGo, Promise!Idle, Stage, Done

\* A death does too.
LEMMA CrashIsLetGo ==
    ASSUME Inv, NEW w \in Workers, Crash(w)
    PROVE  Promise!LetGo(w)
<1>1. /\ working[w] # Null \/ failing[w] # Null
      /\ failing' = [failing EXCEPT ![w] = Null] /\ working' = [working EXCEPT ![w] = Null]
      BY DEF Crash, StopWork
<1>2. UNCHANGED <<Stage, Done>>
      BY DEF Crash, jobVars, Stage, Done
<1>3. QED
      BY <1>1, <1>2 DEF Promise!LetGo, Promise!Idle, Stage, Done

\* The recording is the late report.
LEMMA RecordFailureIsReport ==
    ASSUME Inv, NEW w \in Workers, RecordFailure(w)
    PROVE  Promise!Report(w)
<1> DEFINE j == failing[w]
<1>1. /\ j \in Jobs /\ j # Null
      /\ \A v \in Workers : working[v] # j
      /\ failing' = [failing EXCEPT ![w] = Null]
      BY RecordingIsSpent DEF RecordFailure
<1>2. UNCHANGED <<working, Done>>
      BY RecordingIsSpent DEF Done
<1>3. Stage' \in {Stage, [Stage EXCEPT ![j] = "waiting"], [Stage EXCEPT ![j] = "dead"]}
  <2>1. CASE Exhaust(j)
    <3>1. Stage' = [Stage EXCEPT ![j] = "dead"]
          BY <1>1, <2>1, Stages DEF Exhaust, Inv, TypeOK, Stage
    <3>2. QED
          BY <3>1
  <2>2. CASE status' = [status EXCEPT ![j] = "retry_scheduled"]
    <3>1. Stage' = [Stage EXCEPT ![j] = "waiting"]
          BY <1>1, <2>2, Stages DEF Inv, TypeOK, Stage
    <3>2. QED
          BY <3>1
  <2>3. CASE UNCHANGED status
        BY <2>3 DEF Stage
  <2>4. QED
        BY <2>1, <2>2, <2>3, RecordingDecides
<1>4. QED
      BY <1>1, <1>2, <1>3 DEF Promise!Report, Promise!Free, Stage, Done

\* Every step of the tasks is a step of the promise, or is not seen by it.
LEMMA StepMaps == Inv /\ [Next]_vars => [Promise!JQNext]_(Promise!jqVars)
<1> SUFFICES ASSUME Inv, [Next]_vars PROVE Promise!JQNext \/ UNCHANGED Promise!jqVars
    OBVIOUS
<1> USE DEF Promise!JQNext
<1>1. CASE \E j \in Jobs : Enqueue(j)
      BY <1>1, EnqueueIsAsk
<1>2. CASE BecomesDue
      BY <1>2, Unseen DEF BecomesDue, workVars
<1>3. CASE \E w \in Workers : Poll(w)
      BY <1>3, BeginWorkIsTake, HandBackIsUnseen DEF Poll
<1>4. CASE \E w \in Workers : Work(w)
      BY <1>4, FinishIsComplete, RaiseIsFail, CommitRefusedIsLetGo DEF Work
<1>5. CASE \E w \in Workers : ReadForFailure(w)
      BY <1>5, Unseen DEF ReadForFailure, jobVars
<1>6. CASE \E w \in Workers : RecordFailure(w) \/ Crash(w)
      BY <1>6, RecordFailureIsReport, CrashIsLetGo
<1>7. CASE UNCHANGED vars
      BY <1>7, Unseen DEF vars, jobVars, workVars
<1>8. QED
      BY <1>1, <1>2, <1>3, <1>4, <1>5, <1>6, <1>7 DEF Next

LEMMA InitMaps == Init => Promise!JQInit
BY Stages DEF Init, Promise!JQInit

\* The two tasks implement the job queue's promise, for any jobs, workers and bounds.
THEOREM Refinement == Spec => ImplementsJobQueue
BY Invariant, StepMaps, InitMaps, PTL DEF Spec, ImplementsJobQueue, Promise!JQSpec

=============================================================================
