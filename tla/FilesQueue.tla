------------------------------ MODULE FilesQueue ------------------------------
(***************************************************************************)
(* The files queue: rows of processing_jobs, claimed with FOR UPDATE SKIP  *)
(* LOCKED by two Celery tasks that share one queue (app/db/claiming.py and *)
(* app/workers/tasks/files.py).                                            *)
(*                                                                         *)
(* A claim, the handler's work and the release are ONE transaction.  What  *)
(* the claim wrote (status running, the lease, the incremented             *)
(* attempt_count) is therefore never seen by anybody before the release,   *)
(* and a handler that raises rolls all of it back; the failure is then     *)
(* recorded by a second transaction that reads the row without locking it. *)
(* The lease and its reclaim path never come into play: no row is ever     *)
(* committed as running.                                                   *)
(*                                                                         *)
(* Jobs are polled in the order of available_at, and a retry is available  *)
(* 30 seconds later than it was released: the unfinished jobs stand in a   *)
(* line, the due ones in front of those that are not due yet, and time     *)
(* makes the first of these due.  (Workers' clocks are taken to agree.)    *)
(***************************************************************************)
EXTENDS Naturals

CONSTANTS
    Crops,        \* jobs of type receipt_segment.render_crop
    Statements,   \* jobs of type bank_statement.parse_import_run
    Renderers,    \* processes running render_crops_task
    Parsers,      \* processes running parse_statements_task
    Healthy,      \* jobs whose handler never raises of its own accord
    MaxAttempts,  \* max_attempts of every job: 5 in the code
    MaxCrashes,   \* bound on the number of worker deaths
    Null

Jobs    == Crops \cup Statements
Workers == Renderers \cup Parsers

ASSUME QueueAssumption ==
    /\ Crops \cap Statements = {} /\ Renderers \cap Parsers = {}
    /\ Healthy \subseteq Jobs /\ Null \notin Jobs
    /\ MaxAttempts \in Nat \ {0} /\ MaxCrashes \in Nat

VARIABLES
    status,     \* processing_jobs.status, "none" before the row exists
    attempts,   \* attempt_count
    due,        \* the unfinished jobs whose available_at has come
    ahead,      \* the pairs of unfinished jobs in the order of available_at
    outputs,    \* derived files, or sets of statement rows, committed for the job
    escalated,  \* jobs a manual review task was opened for
    working,    \* the job each worker holds the row lock of
    fresh,      \* workers whose handler found no output of an earlier run
    failing,    \* the job whose failure a worker is about to record
    read,       \* what that recording has read of its row
    crashes     \* worker deaths so far

jobVars  == <<status, attempts, due, ahead>>
workVars == <<working, fresh, failing, read>>
vars     == <<jobVars, outputs, escalated, workVars, crashes>>

Waiting  == {"queued", "retry_scheduled"}
Finished == {"succeeded", "dead_lettered"}
Reading  == [status: Waiting \cup Finished, exhausted: BOOLEAN]

TypeOK ==
    /\ status \in [Jobs -> {"none"} \cup Waiting \cup Finished]
    /\ attempts \in [Jobs -> 0 .. MaxAttempts]
    /\ due \subseteq Jobs /\ ahead \subseteq Jobs \X Jobs
    /\ outputs \in [Jobs -> Nat]
    /\ escalated \subseteq Crops
    /\ working \in [Workers -> Jobs \cup {Null}]
    /\ fresh \subseteq Workers
    /\ failing \in [Workers -> Jobs \cup {Null}]
    /\ read \in [Workers -> Reading \cup {Null}]
    /\ crashes \in 0 .. MaxCrashes

Init ==
    /\ status = [j \in Jobs |-> "none"]
    /\ attempts = [j \in Jobs |-> 0]
    /\ due = {} /\ ahead = {}
    /\ outputs = [j \in Jobs |-> 0]
    /\ escalated = {}
    /\ working = [w \in Workers |-> Null]
    /\ fresh = {}
    /\ failing = [w \in Workers |-> Null]
    /\ read = [w \in Workers |-> Null]
    /\ crashes = 0

-----------------------------------------------------------------------------
(* The queue. *)

Line   == {j \in Jobs : status[j] \in Waiting}
NotDue == Line \ due

\* request_crop or create_import_run commits: the job is due at once.
Enqueue(j) ==
    /\ status[j] = "none"
    /\ status' = [status EXCEPT ![j] = "queued"]
    /\ due' = due \cup {j}
    /\ ahead' = ahead \cup (due \X {j}) \cup ({j} \X NotDue)
    /\ UNCHANGED <<attempts, outputs, escalated, workVars, crashes>>

\* Thirty seconds have passed since the first of the postponed jobs was released.
BecomesDue ==
    /\ \E j \in NotDue : /\ \A i \in NotDue \ {j} : <<j, i>> \in ahead
                         /\ due' = due \cup {j}
    /\ UNCHANGED <<status, attempts, ahead, outputs, escalated, workVars, crashes>>

Leaves(j) ==
    /\ due' = due \ {j}
    /\ ahead' = {p \in ahead : j \notin {p[1], p[2]}}

Postpone(j) ==
    /\ due' = due \ {j}
    /\ ahead' = {p \in ahead : j \notin {p[1], p[2]}} \cup ((Line \ {j}) \X {j})

\* Mutation of Locked: the select does not ask for the row locks.
NeverLocked(j) == FALSE

Locked(j) == \E w \in Workers : working[w] = j

\* claimable_jobs with LIMIT 1 and SKIP LOCKED: the earliest due job nobody holds.
Claims(w, j) ==
    /\ working[w] = Null /\ failing[w] = Null
    /\ j \in due /\ ~Locked(j)
    /\ \A i \in due \ {j} : Locked(i) \/ <<j, i>> \in ahead

Recognises(w, j) == IF w \in Renderers THEN j \in Crops ELSE j \in Statements

-----------------------------------------------------------------------------
(* The two tasks. *)

\* The worker claims a job of its own type, and its handler looks for the output
\* an earlier run may have left.
BeginWork(w, j) ==
    /\ Claims(w, j) /\ Recognises(w, j)
    /\ working' = [working EXCEPT ![w] = j]
    /\ fresh' = IF outputs[j] = 0 THEN fresh \cup {w} ELSE fresh
    /\ UNCHANGED <<jobVars, outputs, escalated, failing, read, crashes>>

\* The worker claims a job of the other task's type and gives it back.  This
\* commits, the incremented attempt_count included; with no attempt left the CHECK
\* attempts_within_maximum refuses the commit and nothing happens at all.
HandBack(w, j) ==
    /\ Claims(w, j) /\ ~Recognises(w, j)
    /\ attempts[j] < MaxAttempts
    /\ attempts' = [attempts EXCEPT ![j] = @ + 1]
    /\ status' = [status EXCEPT ![j] = "retry_scheduled"]
    /\ Postpone(j)
    /\ UNCHANGED <<outputs, escalated, workVars, crashes>>

StopWork(w) ==
    /\ working' = [working EXCEPT ![w] = Null]
    /\ fresh' = fresh \ {w}

\* Mutation of Finish: the release commits in a transaction of its own.
FinishWithoutOutput(w) ==
    LET j == working[w] IN
    /\ j # Null
    /\ attempts[j] < MaxAttempts
    /\ attempts' = [attempts EXCEPT ![j] = @ + 1]
    /\ status' = [status EXCEPT ![j] = "succeeded"]
    /\ Leaves(j) /\ StopWork(w)
    /\ outputs' \in {outputs, [outputs EXCEPT ![j] = IF w \in fresh THEN @ + 1 ELSE @]}
    /\ UNCHANGED <<escalated, failing, read, crashes>>

\* The handler returns; its output, the release and the claim commit together.  The
\* claim's increment is flushed with them, so an attempt must be left.
Finish(w) ==
    LET j == working[w] IN
    /\ j # Null
    /\ attempts[j] < MaxAttempts
    /\ attempts' = [attempts EXCEPT ![j] = @ + 1]
    /\ outputs' = [outputs EXCEPT ![j] = IF w \in fresh THEN @ + 1 ELSE @]
    /\ status' = [status EXCEPT ![j] = "succeeded"]
    /\ Leaves(j) /\ StopWork(w)
    /\ UNCHANGED <<escalated, failing, read, crashes>>

\* Mutation of Raise: what the handler wrote is not rolled back.
RaiseWithoutRollback(w) ==
    LET j == working[w] IN
    /\ j # Null /\ w \in fresh
    /\ j \notin Healthy \/ attempts[j] = MaxAttempts
    /\ failing' = [failing EXCEPT ![w] = j]
    /\ outputs' = [outputs EXCEPT ![j] = @ + 1]
    /\ StopWork(w)
    /\ UNCHANGED <<jobVars, escalated, read, crashes>>

\* The handler raises, of its own accord or because it flushes what it wrote and the
\* claim's increment, one attempt too many, with it.  The claim is rolled back.
Raise(w) ==
    LET j == working[w] IN
    /\ j # Null /\ w \in fresh
    /\ j \notin Healthy \/ attempts[j] = MaxAttempts
    /\ failing' = [failing EXCEPT ![w] = j]
    /\ StopWork(w)
    /\ UNCHANGED <<jobVars, outputs, escalated, read, crashes>>

\* A handler that found its output returns at once and flushes nothing: the attempt
\* too many is refused at the commit, where no failure is recorded.
CommitRefused(w) ==
    LET j == working[w] IN
    /\ j # Null /\ w \notin fresh
    /\ attempts[j] = MaxAttempts
    /\ StopWork(w)
    /\ UNCHANGED <<jobVars, outputs, escalated, failing, read, crashes>>

\* _record_failure and _record_parse_failure begin with session.get: no lock.
ReadForFailure(w) ==
    LET j == failing[w] IN
    /\ j # Null /\ read[w] = Null
    /\ read' = [read EXCEPT ![w] = [status    |-> status[j],
                                    exhausted |-> attempts[j] >= MaxAttempts]]
    /\ UNCHANGED <<jobVars, outputs, escalated, working, fresh, failing, crashes>>

\* Mutation of Exhaust: the job is dead-lettered and nobody hears of it.
ExhaustSilently(j) ==
    /\ status' = [status EXCEPT ![j] = "dead_lettered"]
    /\ Leaves(j)
    /\ UNCHANGED escalated

\* A crop that cannot be rendered is given to a person; a statement is not.
Exhaust(j) ==
    /\ status' = [status EXCEPT ![j] = "dead_lettered"]
    /\ Leaves(j)
    /\ escalated' = IF j \in Crops THEN escalated \cup {j} ELSE escalated

\* The rest of it.  The UPDATE waits for the row, then writes the columns that
\* differ from what was read: an exhausted job is dead-lettered, another is scheduled
\* again.  If the job was finished between the read and the write, a retry either
\* changes no status or breaks the CHECK finished_at_matches_status, and the job
\* stays finished.
RecordFailure(w) ==
    LET j == failing[w] IN
    /\ j # Null /\ read[w] # Null
    /\ ~Locked(j)
    /\ \/ read[w].exhausted /\ Exhaust(j)
       \/ /\ ~read[w].exhausted
          /\ read[w].status \in Finished \/ status[j] \in Waiting
          /\ status' = [status EXCEPT ![j] = "retry_scheduled"]
          /\ Postpone(j)
          /\ UNCHANGED escalated
       \/ /\ ~read[w].exhausted
          /\ read[w].status \in Waiting /\ status[j] \in Finished
          /\ UNCHANGED <<status, due, ahead, escalated>>
    /\ failing' = [failing EXCEPT ![w] = Null]
    /\ read' = [read EXCEPT ![w] = Null]
    /\ UNCHANGED <<attempts, outputs, working, fresh, crashes>>

\* Mutation of Crash: the claim was committed before the work began.
CrashHoldingTheJob(w) ==
    /\ crashes < MaxCrashes
    /\ working[w] # Null \/ failing[w] # Null
    /\ crashes' = crashes + 1
    /\ StopWork(w)
    /\ due' = due \ {working[w]}
    /\ ahead' = {p \in ahead : working[w] \notin {p[1], p[2]}}
    /\ failing' = [failing EXCEPT ![w] = Null]
    /\ read' = [read EXCEPT ![w] = Null]
    /\ UNCHANGED <<status, attempts, outputs, escalated>>

\* A worker dies, and PostgreSQL rolls back whatever it had open.
Crash(w) ==
    /\ crashes < MaxCrashes
    /\ working[w] # Null \/ failing[w] # Null
    /\ crashes' = crashes + 1
    /\ StopWork(w)
    /\ failing' = [failing EXCEPT ![w] = Null]
    /\ read' = [read EXCEPT ![w] = Null]
    /\ UNCHANGED <<jobVars, outputs, escalated>>

-----------------------------------------------------------------------------
Poll(w) == \E j \in Jobs : BeginWork(w, j) \/ HandBack(w, j)
Work(w) == Finish(w) \/ Raise(w) \/ CommitRefused(w)

Next ==
    \/ \E j \in Jobs : Enqueue(j)
    \/ BecomesDue
    \/ \E w \in Workers : \/ Poll(w) \/ Work(w)
                          \/ ReadForFailure(w) \/ RecordFailure(w) \/ Crash(w)

\* Beat sends both tasks every thirty seconds, a handler ends, and time passes.
\* Nothing obliges a job to be enqueued or a worker to die.
Fairness ==
    /\ WF_vars(BecomesDue)
    /\ \A w \in Workers : /\ WF_vars(Poll(w)) /\ WF_vars(Work(w))
                          /\ WF_vars(ReadForFailure(w)) /\ WF_vars(RecordFailure(w))

Spec == Init /\ [][Next]_vars /\ Fairness

-----------------------------------------------------------------------------
(* Safety. *)

\* Whatever is claimed, retried, reclaimed and recorded late, one job leaves one
\* output: a second segment file, or a statement's rows twice, never commits.  The
\* row lock and the handler's look at what exists are both needed.
OneOutputPerJob == \A j \in Jobs : outputs[j] <= 1

\* A job that says succeeded has its output beside it, crashes and late recordings
\* of somebody else's failure included.
SucceededHasItsOutput == \A j \in Jobs : status[j] = "succeeded" => outputs[j] = 1

\* "Exhaustion is not silence": a dead-lettered crop is with a person, and nobody is
\* sent a job that had attempts left.
ExhaustionIsNotSilence ==
    /\ \A j \in Crops : status[j] = "dead_lettered" => j \in escalated
    /\ \A j \in escalated : attempts[j] = MaxAttempts

-----------------------------------------------------------------------------
(* Liveness. *)

\* A finished job was put back on the queue, its output beside it.
Reopened(j) == status[j] \in Waiting /\ outputs[j] = 1

\* A job whose handler works comes to an end and stays there, whatever its neighbours
\* on the queue do: failing jobs ahead of it, and the other task's, cannot starve it.
\* (The end may be the dead letters: the hand-backs see to that.  And a reopened job
\* may block its queue for ever: see SucceededStaysSucceeded.)
HealthyJobsSettle ==
    \A j \in Healthy :
        status[j] # "none" ~> [](status[j] \in Finished) \/ <>(\E i \in Jobs : Reopened(i))

-----------------------------------------------------------------------------
(* What the above rest on.  Proved in FilesQueue_proofs. *)

\* The due jobs stand in front, every two jobs of the line are ordered, and the order
\* is one: a poll that finds a job nobody holds finds exactly one to claim.
QueueIsALine ==
    /\ due \subseteq Line /\ ahead \subseteq Line \X Line
    /\ due \X NotDue \subseteq ahead
    /\ \A i, j \in Line : i # j => (<<i, j>> \in ahead <=> <<j, i>> \notin ahead)
    /\ \A i \in Line : <<i, i>> \notin ahead
    /\ \A i, j, k \in Line : <<i, j>> \in ahead /\ <<j, k>> \in ahead => <<i, k>> \in ahead

\* A job in a worker's hands is due, is in nobody else's, and the worker knows whether
\* it was done before; a worker at work has no failure to tell.
HeldJobsWait ==
    /\ \A w \in Workers : working[w] # Null => working[w] \in due /\ failing[w] = Null
    /\ \A v, w \in Workers : working[v] # Null /\ working[v] = working[w] => v = w
    /\ \A w \in Workers : working[w] # Null => (w \in fresh <=> outputs[working[w]] = 0)
    /\ \A w \in fresh : working[w] # Null

\* Attempts are never taken back: what a recording read as exhausted still is.
ReadingsHold ==
    \A w \in Workers : read[w] # Null =>
        /\ failing[w] # Null
        /\ read[w].exhausted => attempts[failing[w]] = MaxAttempts

\* A failure is told of a job that exists.
FailuresHaveJobs == \A w \in Workers : failing[w] # Null => status[failing[w]] # "none"

Inv ==
    /\ TypeOK
    /\ OneOutputPerJob
    /\ SucceededHasItsOutput
    /\ ExhaustionIsNotSilence
    /\ QueueIsALine
    /\ HeldJobsWait
    /\ ReadingsHold
    /\ FailuresHaveJobs

-----------------------------------------------------------------------------
(* Refinement: JobQueue. *)

StageOf == [none |-> "none", queued |-> "waiting", retry_scheduled |-> "waiting",
            succeeded |-> "finished", dead_lettered |-> "dead"]

Promise == INSTANCE JobQueue WITH
    NoJob  <- Null,
    stage  <- [j \in Jobs |-> StageOf[status[j]]],
    holder <- working,
    late   <- failing,
    done   <- {j \in Jobs : outputs[j] # 0}

\* Every execution of the two tasks is one of the job queue that StatementImport relies
\* on: jobs end in the hands of one worker with their work done, and otherwise move only
\* by the late word of a worker that failed at them.
ImplementsJobQueue == Promise!JQSpec

-----------------------------------------------------------------------------
(* What the module's own documentation says and the transactions undo.  TLC  *)
(* refutes each: section 4 of README.md.                                     *)

\* Handing jobs back never exhausts them: a job whose handler works is not found
\* among the dead letters.
HandedBackIsNotExhausted == \A j \in Healthy : status[j] # "dead_lettered"

\* Retries are bounded by max_attempts: every job comes to an end, were it only
\* among the dead letters.
RetriesAreBounded == \A j \in Jobs : status[j] # "none" ~> status[j] \in Finished

\* What succeeded is not overwritten by another worker's late word on the same job.
SucceededStaysSucceeded ==
    [][\A j \in Jobs : status[j] = "succeeded" => status'[j] = "succeeded"]_vars

=============================================================================
