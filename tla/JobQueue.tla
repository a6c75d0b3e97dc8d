------------------------------- MODULE JobQueue -------------------------------
(***************************************************************************)
(* What the files queue promises to those who put jobs on it, whatever the *)
(* claims, locks, retries and crashes behind it.  A job is in one worker's *)
(* hands at a time, and ends only there, with its work done, or by being   *)
(* given up.  Work that was done stays done.  A failure is told late, when *)
(* the job is in nobody's hands, and may then put any job back or end it.  *)
(***************************************************************************)
CONSTANTS Jobs, Workers, NoJob

VARIABLES
    stage,    \* "none", "waiting", "finished" or "dead"
    holder,   \* the job in each worker's hands
    late,     \* the job each worker has failed at and not said so yet
    done      \* jobs whose work has been done, once and for all

jqVars == <<stage, holder, late, done>>

JQInit ==
    /\ stage = [j \in Jobs |-> "none"]
    /\ holder = [w \in Workers |-> NoJob]
    /\ late = [w \in Workers |-> NoJob]
    /\ done = {}

Idle(w) == holder[w] = NoJob /\ late[w] = NoJob

Free(j) == \A w \in Workers : holder[w] # j

Ask(j) ==
    /\ stage[j] = "none"
    /\ stage' = [stage EXCEPT ![j] = "waiting"]
    /\ UNCHANGED <<holder, late, done>>

Take(w, j) ==
    /\ Idle(w)
    /\ stage[j] = "waiting" /\ Free(j)
    /\ holder' = [holder EXCEPT ![w] = j]
    /\ UNCHANGED <<stage, late, done>>

\* The work is done, or was found done.
Complete(w) ==
    /\ holder[w] # NoJob
    /\ stage' = [stage EXCEPT ![holder[w]] = "finished"]
    /\ done' = done \cup {holder[w]}
    /\ holder' = [holder EXCEPT ![w] = NoJob]
    /\ UNCHANGED late

\* A job that comes up again after its work was done is finished at once.
Skip(w, j) ==
    /\ Idle(w)
    /\ stage[j] = "waiting" /\ Free(j) /\ j \in done
    /\ stage' = [stage EXCEPT ![j] = "finished"]
    /\ UNCHANGED <<holder, late, done>>

Fail(w) ==
    /\ holder[w] # NoJob
    /\ late' = [late EXCEPT ![w] = holder[w]]
    /\ holder' = [holder EXCEPT ![w] = NoJob]
    /\ UNCHANGED <<stage, done>>

Report(w) ==
    /\ late[w] # NoJob /\ Free(late[w])
    /\ stage' \in {stage, [stage EXCEPT ![late[w]] = "waiting"], [stage EXCEPT ![late[w]] = "dead"]}
    /\ late' = [late EXCEPT ![w] = NoJob]
    /\ UNCHANGED <<holder, done>>

\* A worker dies, or what it did is refused: the job is as it was.
LetGo(w) ==
    /\ ~Idle(w)
    /\ holder' = [holder EXCEPT ![w] = NoJob]
    /\ late' = [late EXCEPT ![w] = NoJob]
    /\ UNCHANGED <<stage, done>>

JQNext ==
    \/ \E j \in Jobs : Ask(j)
    \/ \E w \in Workers, j \in Jobs : Take(w, j) \/ Skip(w, j)
    \/ \E w \in Workers : Complete(w) \/ Fail(w) \/ Report(w) \/ LetGo(w)

JQSpec == JQInit /\ [][JQNext]_jqVars

=============================================================================
