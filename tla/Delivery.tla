------------------------------- MODULE Delivery -------------------------------
(***************************************************************************)
(* What surrounds every command: its idempotency key                       *)
(* (app/idempotency/resolver.py), the outbox event it enqueues             *)
(* (app/audit/outbox.py), the dispatcher that delivers it                  *)
(* (app/workers/dispatcher.py, app/db/claiming.py) and the notification    *)
(* that is projected from it (app/notifications/projection.py); and the    *)
(* upload, the one command of three transactions (app/files/upload.py).    *)
(*                                                                         *)
(* A call is one HTTP request under way.  Its INSERT of the key is not     *)
(* visible to others until it commits, but makes them wait.  A call that   *)
(* is refused leaves no trace, so a refusal is the absence of an action.   *)
(*                                                                         *)
(* What a key remembers of a request is a hash, not the request.  Each     *)
(* command chooses what goes into it: an upload its purpose, filename and  *)
(* declared type and not the bytes (upload.py:229), a correction the       *)
(* request and the link it replaces and not the new segment or the reason  *)
(* (publication_correction.py:190), a publication the request alone.  So   *)
(* nothing is assumed of RequestHash: different bodies may share a hash.   *)
(***************************************************************************)
EXTENDS Naturals, Sequences, FiniteSets

CONSTANTS
    Keys,         \* idempotency keys, each of one actor and one operation
    Uploads,      \* the keys of file.upload
    Refusable,    \* the keys whose command may commit its refusal (overpayments)
    Told,         \* the keys whose command's event is in HANDLED_EVENTS
    Undeliverable,\* events whose projection raises every time
    Bodies,       \* the request bodies a key can be sent with
    Hashes,       \* the values of idempotency_records.request_hash
    RequestHash,  \* RequestHash[k][b]: request_hash of what k's command takes from b
    Calls,        \* HTTP requests that can be under way at once
    Workers,      \* processes that poll the outbox
    Batch,        \* the dispatcher's limit
    MaxAttempts,  \* MAX_DELIVERY_ATTEMPTS
    MaxCrashes,   \* bound on the workers' deaths
    Null

ASSUME DeliveryAssumption ==
    /\ Uploads \subseteq Keys /\ Refusable \subseteq Keys \ Uploads
    /\ Told \subseteq Keys \ Uploads /\ Undeliverable \subseteq Told
    /\ Batch \in Nat \ {0} /\ MaxAttempts \in Nat \ {0} /\ MaxCrashes \in Nat
    /\ RequestHash \in [Keys -> [Bodies -> Hashes]] /\ Null \notin Hashes

VARIABLES
    record,    \* idempotency_records.status, "none" before the row is committed
    asked,     \* idempotency_records.request_hash
    executed,  \* the requests whose effects each key has committed, in order
    answered,  \* the requests each key has answered with success
    file,      \* file_objects.storage_status of an upload's row
    object,    \* the uploads whose bytes are in storage
    call,      \* what each call is doing
    event,     \* outbox_events.status of the event a key's command enqueued
    attempts,  \* outbox_events.attempt_count
    due,       \* the claimable events whose available_at has come
    ahead,     \* the pairs of them in the order of available_at
    held,      \* the events each worker has claimed and not yet committed
    messages,  \* how many notifications carry the event's deduplication_key
    crashes

keyVars   == <<record, asked, executed, answered>>
fileVars  == <<file, object>>
eventVars == <<event, attempts, due, ahead, messages>>
vars      == <<keyVars, fileVars, call, eventVars, held, crashes>>

Waiting == {"pending", "failed"}
Settled == {"published", "dead_lettered"}
Stages  == {"claimed", "streaming", "stored"}

TypeOK ==
    /\ record \in [Keys -> {"none", "in_progress", "completed"}]
    /\ asked \in [Keys -> Hashes \cup {Null}]
    /\ executed \in [Keys -> Seq(Bodies)]
    /\ answered \in [Keys -> SUBSET Bodies]
    /\ file \in [Uploads -> {"none", "pending", "available", "quarantined"}]
    /\ object \subseteq Uploads
    /\ call \in [Calls -> [at: {"idle"}] \cup [at: Stages, key: Keys, body: Bodies]]
    /\ event \in [Keys -> {"none"} \cup Waiting \cup Settled]
    /\ attempts \in [Keys -> 0 .. MaxAttempts]
    /\ due \subseteq Keys /\ ahead \subseteq Keys \X Keys
    /\ held \in [Workers -> SUBSET Keys]
    /\ messages \in [Keys -> Nat]
    /\ crashes \in 0 .. MaxCrashes

Init ==
    /\ record = [k \in Keys |-> "none"]
    /\ asked = [k \in Keys |-> Null]
    /\ executed = [k \in Keys |-> <<>>]
    /\ answered = [k \in Keys |-> {}]
    /\ file = [k \in Uploads |-> "none"]
    /\ object = {}
    /\ call = [c \in Calls |-> [at |-> "idle"]]
    /\ event = [k \in Keys |-> "none"]
    /\ attempts = [k \in Keys |-> 0]
    /\ due = {} /\ ahead = {}
    /\ held = [w \in Workers |-> {}]
    /\ messages = [k \in Keys |-> 0]
    /\ crashes = 0

-----------------------------------------------------------------------------
(* The key. *)

\* Mutation of KeyIsFree: SELECT, then INSERT.
SelectThenInsert(k) == record[k] = "none"

\* The unique index lets one uncommitted insertion of a key in and makes others wait.
KeyIsFree(k) ==
    /\ record[k] = "none"
    /\ \A c \in Calls : ~(call[c].at = "claimed" /\ call[c].key = k)

Claim(c, k, b) ==
    /\ call[c].at = "idle"
    /\ KeyIsFree(k)
    /\ call' = [call EXCEPT ![c] = [at |-> "claimed", key |-> k, body |-> b]]
    /\ UNCHANGED <<keyVars, fileVars, eventVars, held, crashes>>

\* A completed key answers every request of the same hash with what it stored.  One of
\* another hash, or one whose record is still in progress, is refused.
Replay(c, k, b) ==
    /\ call[c].at = "idle"
    /\ record[k] = "completed" /\ asked[k] = RequestHash[k][b]
    /\ answered' = [answered EXCEPT ![k] = @ \cup {b}]
    /\ UNCHANGED <<record, asked, executed, fileVars, call, eventVars, held, crashes>>

\* The command's effects, its completed key and the event it may enqueue commit together.
Completes(k, b) ==
    /\ record' = [record EXCEPT ![k] = "completed"]
    /\ asked' = [asked EXCEPT ![k] = RequestHash[k][b]]
    /\ executed' = [executed EXCEPT ![k] = Append(@, b)]
    /\ answered' = [answered EXCEPT ![k] = @ \cup {b}]

\* An event joins those that are due, behind them.
JoinsTheLine(k) ==
    /\ due' = due \cup {k}
    /\ ahead' = ahead \cup (due \X {k})

Enqueues(k) ==
    /\ event' = [event EXCEPT ![k] = "pending"]
    /\ JoinsTheLine(k)
    /\ UNCHANGED <<attempts, messages>>

Hangs(c) == call' = [call EXCEPT ![c] = [at |-> "idle"]]

Reaches(c, stage) ==
    call' = [call EXCEPT ![c] = [at |-> stage, key |-> @.key, body |-> @.body]]

Execute(c) ==
    LET k == call[c].key IN
    /\ call[c].at = "claimed" /\ k \notin Uploads
    /\ Completes(k, call[c].body)
    /\ Enqueues(k) \/ UNCHANGED eventVars
    /\ Hangs(c)
    /\ UNCHANGED <<fileVars, held, crashes>>

\* An overpayment is refused, and the route commits the refusal: the review task it
\* opened, and the claim as it stands.
CommitRefusal(c) ==
    LET k == call[c].key IN
    /\ call[c].at = "claimed" /\ k \in Refusable
    /\ record' = [record EXCEPT ![k] = "in_progress"]
    /\ asked' = [asked EXCEPT ![k] = RequestHash[k][call[c].body]]
    /\ Hangs(c)
    /\ UNCHANGED <<executed, answered, fileVars, eventVars, held, crashes>>

\* A refusal of any other kind, an exception, a lost connection, a dead process.  What
\* was not committed is rolled back; an upload's first transaction stays.
CallEnds(c) ==
    /\ call[c].at # "idle"
    /\ Hangs(c)
    /\ UNCHANGED <<keyVars, fileVars, eventVars, held, crashes>>

-----------------------------------------------------------------------------
(* The upload. *)

\* 1. Initiate: the key and the pending row are committed.
Initiate(c) ==
    LET k == call[c].key IN
    /\ call[c].at = "claimed" /\ k \in Uploads
    /\ record' = [record EXCEPT ![k] = "in_progress"]
    /\ asked' = [asked EXCEPT ![k] = RequestHash[k][call[c].body]]
    /\ file' = [file EXCEPT ![k] = "pending"]
    /\ Reaches(c, "streaming")
    /\ UNCHANGED <<executed, answered, object, eventVars, held, crashes>>

\* Mutation of Stream: the row waits for the last transaction.
StreamBeforeTheRow(c) ==
    LET k == call[c].key IN
    /\ call[c].at \in {"claimed", "streaming"} /\ k \in Uploads
    /\ object' = object \cup {k}
    /\ Reaches(c, "stored")
    /\ UNCHANGED <<keyVars, file, eventVars, held, crashes>>

\* 2. The bytes reach storage whole, by a rename, or not at all.
Stream(c) ==
    LET k == call[c].key IN
    /\ call[c].at = "streaming"
    /\ object' = object \cup {k}
    /\ Reaches(c, "stored")
    /\ UNCHANGED <<keyVars, file, eventVars, held, crashes>>

\* 3. Finalize: the row says what inspection and scan found, and the key is completed.
\* Only an available file that can be previewed enqueues an event.
Finalize(c, accepted, previewable) ==
    LET k == call[c].key IN
    /\ call[c].at = "stored"
    /\ file' = [file EXCEPT ![k] = IF accepted THEN "available" ELSE "quarantined"]
    /\ Completes(k, call[c].body)
    /\ IF accepted /\ previewable THEN Enqueues(k) ELSE UNCHANGED eventVars
    /\ Hangs(c)
    /\ UNCHANGED <<object, held, crashes>>

-----------------------------------------------------------------------------
(* The outbox. *)

Locked(k) == \E w \in Workers : k \in held[w]

\* FOR UPDATE SKIP LOCKED: the first of the due events that nobody holds, to the limit.
Poll(w, batch) ==
    LET free == {k \in due : ~Locked(k)} IN
    /\ held[w] = {}
    /\ batch \subseteq free /\ batch # {}
    /\ Cardinality(batch) = Batch \/ (batch = free /\ Cardinality(batch) < Batch)
    /\ batch \X (free \ batch) \subseteq ahead
    /\ held' = [held EXCEPT ![w] = batch]
    /\ UNCHANGED <<keyVars, fileVars, call, eventVars, crashes>>

\* Mutation of Projected: the notification outlives the failure of its event.
ProjectedAnyway(w, failing) == held[w] \cap Told

\* The events of the batch a notification is projected from: those of a type a trader
\* is told of.  The others are delivered by being ignored.
Projected(w, failing) == (held[w] \cap Told) \ failing

\* Mutation of Exhausted: the attempts are not counted.
NeverExhausted(k) == FALSE

Exhausted(k) == attempts[k] + 1 >= MaxAttempts

\* Each event of the batch is delivered or fails, and all of it commits at once.  The
\* unique index on the deduplication key makes a second projection a no-op.
Dispatch(w, failing) ==
    /\ held[w] # {}
    /\ failing \subseteq held[w] \cap Told
    /\ held[w] \cap Undeliverable \subseteq failing
    /\ messages' = [k \in Keys |-> IF k \in Projected(w, failing) THEN 1 ELSE messages[k]]
    /\ event' = [k \in Keys |-> IF k \notin held[w] THEN event[k]
                                ELSE IF k \notin failing THEN "published"
                                ELSE IF Exhausted(k) THEN "dead_lettered" ELSE "failed"]
    /\ attempts' = [k \in Keys |->
                      IF k \in held[w] /\ attempts[k] < MaxAttempts THEN attempts[k] + 1
                                                                    ELSE attempts[k]]
    /\ due' = due \ held[w]
    /\ ahead' = ahead \cap (due' \X due')
    /\ held' = [held EXCEPT ![w] = {}]
    /\ UNCHANGED <<keyVars, fileVars, call, crashes>>

\* The backoff of a failed delivery has passed.
BecomesDue(k) ==
    /\ event[k] = "failed" /\ k \notin due
    /\ JoinsTheLine(k)
    /\ UNCHANGED <<keyVars, fileVars, call, event, attempts, messages, held, crashes>>

\* A worker dies with its batch: nothing of it was committed, the attempts included.
Crash(w) ==
    /\ held[w] # {} /\ crashes < MaxCrashes
    /\ crashes' = crashes + 1
    /\ held' = [held EXCEPT ![w] = {}]
    /\ UNCHANGED <<keyVars, fileVars, call, eventVars>>

-----------------------------------------------------------------------------
Next ==
    \/ \E c \in Calls, k \in Keys, b \in Bodies : Claim(c, k, b) \/ Replay(c, k, b)
    \/ \E c \in Calls : \/ Execute(c) \/ CommitRefusal(c) \/ CallEnds(c)
                        \/ Initiate(c) \/ Stream(c)
    \/ \E c \in Calls, accepted, previewable \in BOOLEAN : Finalize(c, accepted, previewable)
    \/ \E w \in Workers : Crash(w)
    \/ \E w \in Workers, batch \in SUBSET Keys : Poll(w, batch) \/ Dispatch(w, batch)
    \/ \E k \in Keys : BecomesDue(k)

\* Beat polls for ever, a dispatch ends, time passes.  Nothing obliges a client to call.
Fairness ==
    /\ \A w \in Workers : /\ WF_vars(\E batch \in SUBSET Keys : Poll(w, batch))
                          /\ WF_vars(\E failing \in SUBSET Keys : Dispatch(w, failing))
    /\ \A k \in Keys : WF_vars(BecomesDue(k))

Spec == Init /\ [][Next]_vars /\ Fairness

-----------------------------------------------------------------------------
\* What the resolver takes for the request the key has executed: one of the same hash.
SameRequest(k, b) ==
    \E a \in Bodies : executed[k] = <<a>> /\ RequestHash[k][a] = RequestHash[k][b]

\* However often and by however many calls a key is sent, its command takes effect at
\* most once, and success is told of no request but those whose hash is that of the one
\* executed.  It may be told of a different body: see AnswersForNoOther.
OneExecutionPerKey ==
    \A k \in Keys :
        /\ Len(executed[k]) <= 1
        /\ \A b \in answered[k] : SameRequest(k, b)
        /\ record[k] = "completed" =>
             \E a \in Bodies : executed[k] = <<a>> /\ asked[k] = RequestHash[k][a]

\* Storage and the file table agree whatever dies between the upload's transactions:
\* no bytes without a row to account for them, no finished row without its bytes.
RowsAccountForBytes ==
    \A k \in Uploads : /\ k \in object => file[k] # "none"
                       /\ file[k] \in {"available", "quarantined"} => k \in object

\* A trader is told exactly once of each published event of the kinds he is told of,
\* never of one that failed or was dead-lettered, and never of what did not happen.
ToldOnceOfWhatHappened ==
    \A k \in Keys :
        /\ messages[k] = IF k \in Told /\ event[k] = "published" THEN 1 ELSE 0
        /\ event[k] # "none" => executed[k] # <<>>

\* Every event ends, delivered or in the dead letters: one that can never be delivered
\* does not hold back its batch, and a crash loses no event.
EventsSettle == \A k \in Keys : (event[k] # "none") ~> (event[k] \in Settled)

\* What the above rest on: one call at a time works on a key, what it works on is as its
\* transactions left it, and only the worker that holds a due event moves it.
OneCallPerKey ==
    /\ \A c, d \in Calls : call[c].at # "idle" /\ call[d].at # "idle" /\ c # d =>
                              call[c].key # call[d].key
    /\ \A c \in Calls :
         /\ call[c].at = "claimed" => record[call[c].key] = "none"
         /\ call[c].at \in {"streaming", "stored"} =>
              /\ call[c].key \in Uploads
              /\ record[call[c].key] = "in_progress" /\ file[call[c].key] = "pending"
         /\ call[c].at = "stored" => call[c].key \in object

NothingBeforeCompletion ==
    /\ \A k \in Keys : record[k] # "completed" =>
         executed[k] = <<>> /\ answered[k] = {} /\ event[k] = "none"
    /\ \A k \in Uploads : record[k] = "none" => file[k] = "none"

HeldEventsWait ==
    /\ \A k \in due : event[k] \in Waiting
    /\ \A w \in Workers : held[w] \subseteq due
    /\ \A v, w \in Workers : v # w => held[v] \cap held[w] = {}

\* The conjunction is inductive: proved in Delivery_proofs.
Inv ==
    /\ TypeOK
    /\ OneExecutionPerKey
    /\ RowsAccountForBytes
    /\ ToldOnceOfWhatHappened
    /\ OneCallPerKey
    /\ NothingBeforeCompletion
    /\ HeldEventsWait

-----------------------------------------------------------------------------
(* Refinement: ExactlyOnce. *)

NewsOf == [none |-> "none", pending |-> "owed", failed |-> "owed",
           published |-> "told", dead_lettered |-> "lost"]

Once == INSTANCE ExactlyOnce WITH
    Announced <- Told, Digest <- RequestHash,
    effect <- executed, notices <- messages,
    news   <- [k \in Keys |-> NewsOf[event[k]]]

\* Keys, uploads, outbox and projection together do what one atomic command with one
\* notice would: a key takes effect once and answers for nothing its digest tells from
\* that, and what its trader is to hear is owed with the effect and told at most once,
\* in step with its end.
ImplementsExactlyOnce == Once!EOSpec

-----------------------------------------------------------------------------
\* Two claims of the code's own comments which the model refutes.

\* resolver.py:8: "Same key, different request hash [...] The caller reused a key for
\* different content, and returning the first response for the second request would be
\* a silent wrong answer"; upload.py:208: "or return what the first identical request
\* produced".  It fails where two bodies share a hash.
AnswersForNoOther == \A k \in Keys : \A b \in answered[k] : executed[k] = <<b>>

\* resolver.py:160: "A request with this idempotency key is still in progress. Retry
\* shortly.": a key in progress belongs to a call that is under way.
InProgressIsUnderWay ==
    \A k \in Keys : record[k] = "in_progress" =>
        \E c \in Calls : call[c].at \in {"streaming", "stored"} /\ call[c].key = k

=============================================================================
