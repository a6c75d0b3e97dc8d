---------------------------- MODULE Delivery_proofs ----------------------------
(***************************************************************************)
(* Proofs about Delivery, for any keys, calls and workers: its invariant   *)
(* is inductive, and it implements the promise of ExactlyOnce.             *)
(*                                                                         *)
(* The argument: an insertion of a key in flight makes every other wait,   *)
(* and a committed one is found; so one call at a time works on a key, and *)
(* it alone completes it, once.  An event is moved only by the worker that *)
(* holds it, while it waits; so its message and its end commit together.   *)
(***************************************************************************)
EXTENDS Delivery, TLAPS

\* The state the program starts in satisfies the invariant.
LEMMA InitInv == Init => Inv
<1> SUFFICES ASSUME Init PROVE Inv
    OBVIOUS
<1> USE DEF Init
<1>1. TypeOK
      BY DeliveryAssumption DEF TypeOK, Waiting, Settled, Stages
<1>2. OneExecutionPerKey
      BY DeliveryAssumption DEF OneExecutionPerKey, SameRequest, Waiting
<1>3. RowsAccountForBytes
      BY DeliveryAssumption DEF RowsAccountForBytes, Waiting
<1>4. ToldOnceOfWhatHappened
      BY DeliveryAssumption DEF ToldOnceOfWhatHappened, Waiting
<1>5. OneCallPerKey
      BY DeliveryAssumption DEF OneCallPerKey, Waiting
<1>6. NothingBeforeCompletion
      BY DeliveryAssumption DEF NothingBeforeCompletion, Waiting
<1>7. HeldEventsWait
      BY DeliveryAssumption DEF HeldEventsWait, Waiting
<1>8. QED
      BY <1>1, <1>2, <1>3, <1>4, <1>5, <1>6, <1>7 DEF Inv

\* What a key remembers of a request is a hash.
LEMMA Hashed ==
    ASSUME TypeOK, NEW k \in Keys, NEW b \in Bodies,
           asked' = asked \/ asked' = [asked EXCEPT ![k] = RequestHash[k][b]]
    PROVE  asked' \in [Keys -> Hashes \cup {Null}]
<1>1. asked \in [Keys -> Hashes \cup {Null}]
      BY DEF TypeOK
<1>2. RequestHash[k][b] \in Hashes
      BY DeliveryAssumption
<1>3. QED
      BY <1>1, <1>2

\* A call inserts its key.
LEMMA ClaimKeeps ==
    ASSUME Inv, NEW c \in Calls, NEW k \in Keys, NEW p \in Bodies, Claim(c, k, p)
    PROVE  Inv'
<1> USE DeliveryAssumption DEF Inv, Claim, KeyIsFree, vars, keyVars, fileVars, eventVars
<1>b. \A d \in Calls : call'[d] = IF d = c THEN [at |-> "claimed", key |-> k, body |-> p]
                                               ELSE call[d]
      BY DEF TypeOK
<1>c. \A d \in Calls : call[d].at # "idle" => call[d].key # k
      BY DEF TypeOK, OneCallPerKey, Stages
<1>1. TypeOK'
      BY <1>b, <1>c DEF TypeOK, Waiting, Settled, Stages
<1>2. OneExecutionPerKey'
      BY <1>b, <1>c DEF TypeOK, OneExecutionPerKey, SameRequest, OneCallPerKey,
         NothingBeforeCompletion, Stages
<1>3. RowsAccountForBytes'
      BY <1>b, <1>c DEF TypeOK, RowsAccountForBytes, OneCallPerKey, NothingBeforeCompletion,
         Stages
<1>4. ToldOnceOfWhatHappened'
      BY <1>b, <1>c DEF TypeOK, ToldOnceOfWhatHappened, OneCallPerKey,
         NothingBeforeCompletion, HeldEventsWait, Waiting
<1>5. OneCallPerKey'
  <2>1. \A d, e \in Calls : call'[d].at # "idle" /\ call'[e].at # "idle" /\ d # e =>
                              call'[d].key # call'[e].key
        BY <1>b, <1>c DEF TypeOK, OneCallPerKey, NothingBeforeCompletion, Stages
  <2>2. ASSUME NEW d \in Calls
        PROVE  /\ call'[d].at = "claimed" => record'[call'[d].key] = "none"
               /\ call'[d].at \in {"streaming", "stored"} =>
                    /\ call'[d].key \in Uploads
                    /\ record'[call'[d].key] = "in_progress" /\ file'[call'[d].key] = "pending"
               /\ call'[d].at = "stored" => call'[d].key \in object'
    <3>1. CASE d = c
          BY <3>1, <1>b, <1>c DEF TypeOK, OneCallPerKey, Stages
    <3>2. CASE d # c
      <4>1. call'[d] = call[d] /\ (call[d].at # "idle" => call[d].key # k)
            BY <3>2, <1>b, <1>c DEF TypeOK, OneCallPerKey, Stages
      <4>2. QED
            BY <3>2, <4>1, <1>b, <1>c DEF TypeOK, OneCallPerKey, Stages
    <3>3. QED
          BY <3>1, <3>2
  <2>3. QED
        BY <2>1, <2>2 DEF OneCallPerKey
<1>6. NothingBeforeCompletion'
      BY <1>b, <1>c DEF TypeOK, OneCallPerKey, NothingBeforeCompletion, HeldEventsWait,
         Waiting, Stages
<1>7. HeldEventsWait'
      BY <1>b, <1>c DEF TypeOK, HeldEventsWait, OneCallPerKey, NothingBeforeCompletion,
         Waiting, Settled
<1>8. QED
      BY <1>1, <1>2, <1>3, <1>4, <1>5, <1>6, <1>7

\* A key answers again.
LEMMA ReplayKeeps ==
    ASSUME Inv, NEW c \in Calls, NEW k \in Keys, NEW p \in Bodies, Replay(c, k, p)
    PROVE  Inv'
<1> USE DeliveryAssumption DEF Inv, Replay, vars, keyVars, fileVars, eventVars
<1>1. TypeOK'
      BY DEF TypeOK, Waiting, Settled, Stages
<1>2. OneExecutionPerKey'
      BY DEF TypeOK, OneExecutionPerKey, SameRequest, OneCallPerKey,
         NothingBeforeCompletion, Stages
<1>3. RowsAccountForBytes'
      BY DEF TypeOK, RowsAccountForBytes, OneCallPerKey, NothingBeforeCompletion, Stages
<1>4. ToldOnceOfWhatHappened'
      BY DEF TypeOK, ToldOnceOfWhatHappened, OneCallPerKey, NothingBeforeCompletion,
         HeldEventsWait, Waiting
<1>5. OneCallPerKey'
      BY DEF TypeOK, OneCallPerKey, NothingBeforeCompletion, RowsAccountForBytes, Stages
<1>6. NothingBeforeCompletion'
      BY DEF TypeOK, OneCallPerKey, NothingBeforeCompletion, HeldEventsWait, Waiting, Stages
<1>7. HeldEventsWait'
      BY DEF TypeOK, HeldEventsWait, OneCallPerKey, NothingBeforeCompletion, Waiting, Settled
<1>8. QED
      BY <1>1, <1>2, <1>3, <1>4, <1>5, <1>6, <1>7

\* A command commits.
LEMMA ExecuteKeeps ==
    ASSUME Inv, NEW c \in Calls, Execute(c)
    PROVE  Inv'
<1> USE DeliveryAssumption DEF Inv, Execute, Completes, Enqueues, JoinsTheLine, Hangs, vars,
        keyVars, fileVars, eventVars
<1>a. /\ call[c].key \in Keys /\ call[c].body \in Bodies
      /\ executed[call[c].key] = <<>> /\ answered[call[c].key] = {}
      /\ event[call[c].key] = "none" /\ record[call[c].key] # "completed"
      BY DEF TypeOK, OneCallPerKey, NothingBeforeCompletion, Stages
<1>b. \A d \in Calls : call'[d] = IF d = c THEN [at |-> "idle"] ELSE call[d]
      BY DEF TypeOK
<1>c. \A j \in Keys : executed'[j] = IF j = call[c].key THEN <<call[c].body>> ELSE executed[j]
      BY <1>a DEF TypeOK
<1>1. TypeOK'
  <2>0. asked' \in [Keys -> Hashes \cup {Null}]
        BY <1>a, Hashed
  <2>1. /\ record' \in [Keys -> {"none", "in_progress", "completed"}]
        /\ asked' \in [Keys -> Hashes \cup {Null}]
        /\ executed' \in [Keys -> Seq(Bodies)]
        /\ answered' \in [Keys -> SUBSET Bodies]
        BY <2>0, <1>a DEF TypeOK
  <2>2. /\ call' \in [Calls -> [at: {"idle"}] \cup [at: Stages, key: Keys, body: Bodies]]
        /\ file' \in [Uploads -> {"none", "pending", "available", "quarantined"}]
        /\ object' \subseteq Uploads
        BY <1>a, <1>b DEF TypeOK, OneCallPerKey, Stages
  <2>3. /\ event' \in [Keys -> {"none"} \cup Waiting \cup Settled]
        /\ attempts' \in [Keys -> 0 .. MaxAttempts] /\ messages' \in [Keys -> Nat]
        /\ due' \subseteq Keys /\ ahead' \subseteq Keys \X Keys
  <3>1. CASE UNCHANGED eventVars
        BY <3>1 DEF TypeOK
  <3>2. CASE Enqueues(call[c].key)
        BY <1>a, <3>2 DEF TypeOK, Waiting
  <3>3. QED
        BY <3>1, <3>2
  <2>4. QED
        BY <2>1, <2>2, <2>3 DEF TypeOK
<1>2. OneExecutionPerKey'
      BY <1>a, <1>b, <1>c DEF TypeOK, OneExecutionPerKey, SameRequest, OneCallPerKey,
         NothingBeforeCompletion, Stages
<1>3. RowsAccountForBytes'
      BY <1>a, <1>b, <1>c DEF TypeOK, RowsAccountForBytes, OneCallPerKey,
         NothingBeforeCompletion, Stages
<1>4. ToldOnceOfWhatHappened'
      BY <1>a, <1>b, <1>c DEF TypeOK, ToldOnceOfWhatHappened, OneCallPerKey,
         NothingBeforeCompletion, HeldEventsWait, Waiting
<1>5. OneCallPerKey'
      BY <1>a, <1>b, <1>c DEF TypeOK, OneCallPerKey, NothingBeforeCompletion,
         RowsAccountForBytes, Stages
<1>6. NothingBeforeCompletion'
      BY <1>a, <1>b, <1>c DEF TypeOK, OneCallPerKey, NothingBeforeCompletion,
         HeldEventsWait, Waiting, Stages
<1>7. HeldEventsWait'
  <2>1. \A j \in Keys : event'[j] # event[j] => j = call[c].key /\ event'[j] = "pending"
        BY <1>a DEF TypeOK
  <2>2. due' \in {due, due \cup {call[c].key}} /\ event'[call[c].key] \in {"none", "pending"}
        BY <1>a DEF TypeOK
  <2>3. call[c].key \in due' \ due => event'[call[c].key] = "pending"
        BY <1>a DEF TypeOK
  <2>4. QED
        BY <1>a, <2>1, <2>2, <2>3 DEF TypeOK, HeldEventsWait, Waiting
<1>8. QED
      BY <1>1, <1>2, <1>3, <1>4, <1>5, <1>6, <1>7

\* A refusal commits.
LEMMA CommitRefusalKeeps ==
    ASSUME Inv, NEW c \in Calls, CommitRefusal(c)
    PROVE  Inv'
<1> USE DeliveryAssumption DEF Inv, CommitRefusal, Hangs, vars, keyVars, fileVars, eventVars
<1>a. /\ call[c].key \in Keys /\ call[c].body \in Bodies
      /\ executed[call[c].key] = <<>> /\ answered[call[c].key] = {}
      /\ event[call[c].key] = "none" /\ record[call[c].key] # "completed"
      BY DEF TypeOK, OneCallPerKey, NothingBeforeCompletion, Stages
<1>b. \A d \in Calls : call'[d] = IF d = c THEN [at |-> "idle"] ELSE call[d]
      BY DEF TypeOK
<1>1. TypeOK'
  <2>1. asked' \in [Keys -> Hashes \cup {Null}]
        BY <1>a, Hashed
  <2>2. QED
        BY <2>1, <1>a, <1>b DEF TypeOK, Waiting, Settled, Stages
<1>2. OneExecutionPerKey'
      BY <1>a, <1>b DEF TypeOK, OneExecutionPerKey, SameRequest, OneCallPerKey,
         NothingBeforeCompletion, Stages
<1>3. RowsAccountForBytes'
      BY <1>a, <1>b DEF TypeOK, RowsAccountForBytes, OneCallPerKey, NothingBeforeCompletion,
         Stages
<1>4. ToldOnceOfWhatHappened'
      BY <1>a, <1>b DEF TypeOK, ToldOnceOfWhatHappened, OneCallPerKey,
         NothingBeforeCompletion, HeldEventsWait, Waiting
<1>5. OneCallPerKey'
  <2>1. \A d, e \in Calls : call'[d].at # "idle" /\ call'[e].at # "idle" /\ d # e =>
                              call'[d].key # call'[e].key
        BY <1>a, <1>b DEF TypeOK, OneCallPerKey, NothingBeforeCompletion, Stages
  <2>2. ASSUME NEW d \in Calls
        PROVE  /\ call'[d].at = "claimed" => record'[call'[d].key] = "none"
               /\ call'[d].at \in {"streaming", "stored"} =>
                    /\ call'[d].key \in Uploads
                    /\ record'[call'[d].key] = "in_progress" /\ file'[call'[d].key] = "pending"
               /\ call'[d].at = "stored" => call'[d].key \in object'
    <3>1. CASE d = c
          BY <3>1, <1>a, <1>b DEF TypeOK, OneCallPerKey, Stages
    <3>2. CASE d # c
      <4>1. call'[d] = call[d] /\ (call[d].at # "idle" => call[d].key # call[c].key)
            BY <3>2, <1>a, <1>b DEF TypeOK, OneCallPerKey, Stages
      <4>2. QED
            BY <3>2, <4>1, <1>a, <1>b DEF TypeOK, OneCallPerKey, Stages
    <3>3. QED
          BY <3>1, <3>2
  <2>3. QED
        BY <2>1, <2>2 DEF OneCallPerKey
<1>6. NothingBeforeCompletion'
      BY <1>a, <1>b DEF TypeOK, OneCallPerKey, NothingBeforeCompletion, HeldEventsWait,
         Waiting, Stages
<1>7. HeldEventsWait'
      BY <1>a, <1>b DEF TypeOK, HeldEventsWait, OneCallPerKey, NothingBeforeCompletion,
         Waiting, Settled
<1>8. QED
      BY <1>1, <1>2, <1>3, <1>4, <1>5, <1>6, <1>7

\* A call ends without a commit.
LEMMA CallEndsKeeps ==
    ASSUME Inv, NEW c \in Calls, CallEnds(c)
    PROVE  Inv'
<1> USE DeliveryAssumption DEF Inv, CallEnds, Hangs, vars, keyVars, fileVars, eventVars
<1>b. \A d \in Calls : call'[d] = IF d = c THEN [at |-> "idle"] ELSE call[d]
      BY DEF TypeOK
<1>1. TypeOK'
      BY <1>b DEF TypeOK, Waiting, Settled, Stages
<1>2. OneExecutionPerKey'
      BY <1>b DEF TypeOK, OneExecutionPerKey, SameRequest, OneCallPerKey,
         NothingBeforeCompletion, Stages
<1>3. RowsAccountForBytes'
      BY <1>b DEF TypeOK, RowsAccountForBytes, OneCallPerKey, NothingBeforeCompletion, Stages
<1>4. ToldOnceOfWhatHappened'
      BY <1>b DEF TypeOK, ToldOnceOfWhatHappened, OneCallPerKey, NothingBeforeCompletion,
         HeldEventsWait, Waiting
<1>5. OneCallPerKey'
      BY <1>b DEF TypeOK, OneCallPerKey, NothingBeforeCompletion, RowsAccountForBytes, Stages
<1>6. NothingBeforeCompletion'
      BY <1>b DEF TypeOK, OneCallPerKey, NothingBeforeCompletion, HeldEventsWait, Waiting,
         Stages
<1>7. HeldEventsWait'
      BY <1>b DEF TypeOK, HeldEventsWait, OneCallPerKey, NothingBeforeCompletion, Waiting,
         Settled
<1>8. QED
      BY <1>1, <1>2, <1>3, <1>4, <1>5, <1>6, <1>7

\* An upload begins.
LEMMA InitiateKeeps ==
    ASSUME Inv, NEW c \in Calls, Initiate(c)
    PROVE  Inv'
<1> USE DeliveryAssumption DEF Inv, Initiate, Reaches, vars, keyVars, fileVars, eventVars
<1>a. /\ call[c].key \in Keys /\ call[c].body \in Bodies
      /\ executed[call[c].key] = <<>> /\ answered[call[c].key] = {}
      /\ event[call[c].key] = "none" /\ record[call[c].key] # "completed"
      BY DEF TypeOK, OneCallPerKey, NothingBeforeCompletion, Stages
<1>b. \A d \in Calls : call'[d] = IF d = c THEN [at |-> "streaming", key |-> call[c].key,
                                               body |-> call[c].body] ELSE call[d]
      BY DEF TypeOK, Stages
<1>1. TypeOK'
  <2>1. asked' \in [Keys -> Hashes \cup {Null}]
        BY <1>a, Hashed
  <2>2. QED
        BY <2>1, <1>a, <1>b DEF TypeOK, Waiting, Settled, Stages
<1>2. OneExecutionPerKey'
      BY <1>a, <1>b DEF TypeOK, OneExecutionPerKey, SameRequest, OneCallPerKey,
         NothingBeforeCompletion, Stages
<1>3. RowsAccountForBytes'
      BY <1>a, <1>b DEF TypeOK, RowsAccountForBytes, OneCallPerKey, NothingBeforeCompletion,
         Stages
<1>4. ToldOnceOfWhatHappened'
      BY <1>a, <1>b DEF TypeOK, ToldOnceOfWhatHappened, OneCallPerKey,
         NothingBeforeCompletion, HeldEventsWait, Waiting
<1>5. OneCallPerKey'
  <2>1. \A d, e \in Calls : call'[d].at # "idle" /\ call'[e].at # "idle" /\ d # e =>
                              call'[d].key # call'[e].key
        BY <1>a, <1>b DEF TypeOK, OneCallPerKey, NothingBeforeCompletion, Stages
  <2>2. ASSUME NEW d \in Calls
        PROVE  /\ call'[d].at = "claimed" => record'[call'[d].key] = "none"
               /\ call'[d].at \in {"streaming", "stored"} =>
                    /\ call'[d].key \in Uploads
                    /\ record'[call'[d].key] = "in_progress" /\ file'[call'[d].key] = "pending"
               /\ call'[d].at = "stored" => call'[d].key \in object'
    <3>1. CASE d = c
          BY <3>1, <1>a, <1>b DEF TypeOK, OneCallPerKey, Stages
    <3>2. CASE d # c
      <4>1. call'[d] = call[d] /\ (call[d].at # "idle" => call[d].key # call[c].key)
            BY <3>2, <1>a, <1>b DEF TypeOK, OneCallPerKey, Stages
      <4>2. QED
            BY <3>2, <4>1, <1>a, <1>b DEF TypeOK, OneCallPerKey, Stages
    <3>3. QED
          BY <3>1, <3>2
  <2>3. QED
        BY <2>1, <2>2 DEF OneCallPerKey
<1>6. NothingBeforeCompletion'
      BY <1>a, <1>b DEF TypeOK, OneCallPerKey, NothingBeforeCompletion, HeldEventsWait,
         Waiting, Stages
<1>7. HeldEventsWait'
      BY <1>a, <1>b DEF TypeOK, HeldEventsWait, OneCallPerKey, NothingBeforeCompletion,
         Waiting, Settled
<1>8. QED
      BY <1>1, <1>2, <1>3, <1>4, <1>5, <1>6, <1>7

\* Its bytes are stored.
LEMMA StreamKeeps ==
    ASSUME Inv, NEW c \in Calls, Stream(c)
    PROVE  Inv'
<1> USE DeliveryAssumption DEF Inv, Stream, Reaches, vars, keyVars, fileVars, eventVars
<1>a. /\ call[c].key \in Keys /\ call[c].body \in Bodies
      /\ executed[call[c].key] = <<>> /\ answered[call[c].key] = {}
      /\ event[call[c].key] = "none" /\ record[call[c].key] # "completed"
      BY DEF TypeOK, OneCallPerKey, NothingBeforeCompletion, Stages
<1>b. \A d \in Calls : call'[d] = IF d = c THEN [at |-> "stored", key |-> call[c].key,
                                               body |-> call[c].body] ELSE call[d]
      BY DEF TypeOK, Stages
<1>1. TypeOK'
  <2>1. /\ record' \in [Keys -> {"none", "in_progress", "completed"}]
        /\ asked' \in [Keys -> Hashes \cup {Null}]
        /\ executed' \in [Keys -> Seq(Bodies)]
        /\ answered' \in [Keys -> SUBSET Bodies]
        BY <1>a DEF TypeOK
  <2>2. /\ call' \in [Calls -> [at: {"idle"}] \cup [at: Stages, key: Keys, body: Bodies]]
        /\ file' \in [Uploads -> {"none", "pending", "available", "quarantined"}]
        /\ object' \subseteq Uploads
        BY <1>a, <1>b DEF TypeOK, OneCallPerKey, Stages
  <2>3. /\ event' \in [Keys -> {"none"} \cup Waiting \cup Settled]
        /\ attempts' \in [Keys -> 0 .. MaxAttempts] /\ messages' \in [Keys -> Nat]
        /\ due' \subseteq Keys /\ ahead' \subseteq Keys \X Keys
  <3>1. CASE UNCHANGED eventVars
        BY <3>1 DEF TypeOK
  <3>2. CASE Enqueues(call[c].key)
        BY <1>a, <3>2 DEF TypeOK, Waiting
  <3>3. QED
        BY <3>1, <3>2
  <2>4. QED
        BY <2>1, <2>2, <2>3 DEF TypeOK
<1>2. OneExecutionPerKey'
      BY <1>a, <1>b DEF TypeOK, OneExecutionPerKey, SameRequest, OneCallPerKey,
         NothingBeforeCompletion, Stages
<1>3. RowsAccountForBytes'
      BY <1>a, <1>b DEF TypeOK, RowsAccountForBytes, OneCallPerKey, NothingBeforeCompletion,
         Stages
<1>4. ToldOnceOfWhatHappened'
      BY <1>a, <1>b DEF TypeOK, ToldOnceOfWhatHappened, OneCallPerKey,
         NothingBeforeCompletion, HeldEventsWait, Waiting
<1>5. OneCallPerKey'
      BY <1>a, <1>b DEF TypeOK, OneCallPerKey, NothingBeforeCompletion, RowsAccountForBytes,
         Stages
<1>6. NothingBeforeCompletion'
      BY <1>a, <1>b DEF TypeOK, OneCallPerKey, NothingBeforeCompletion, HeldEventsWait,
         Waiting, Stages
<1>7. HeldEventsWait'
      BY <1>a, <1>b DEF TypeOK, HeldEventsWait, OneCallPerKey, NothingBeforeCompletion,
         Waiting, Settled
<1>8. QED
      BY <1>1, <1>2, <1>3, <1>4, <1>5, <1>6, <1>7

\* It is finalized.
LEMMA FinalizeKeeps ==
    ASSUME Inv, NEW c \in Calls, NEW accepted \in BOOLEAN, NEW previewable \in BOOLEAN,
    Finalize(c, accepted, previewable)
    PROVE  Inv'
<1> USE DeliveryAssumption DEF Inv, Finalize, Completes, Enqueues, JoinsTheLine, Hangs,
        vars, keyVars, fileVars, eventVars
<1>a. /\ call[c].key \in Keys /\ call[c].body \in Bodies
      /\ executed[call[c].key] = <<>> /\ answered[call[c].key] = {}
      /\ event[call[c].key] = "none" /\ record[call[c].key] # "completed"
      BY DEF TypeOK, OneCallPerKey, NothingBeforeCompletion, Stages
<1>b. \A d \in Calls : call'[d] = IF d = c THEN [at |-> "idle"] ELSE call[d]
      BY DEF TypeOK
<1>c. \A j \in Keys : executed'[j] = IF j = call[c].key THEN <<call[c].body>> ELSE executed[j]
      BY <1>a DEF TypeOK
<1>1. TypeOK'
  <2>0. asked' \in [Keys -> Hashes \cup {Null}]
        BY <1>a, Hashed
  <2>1. /\ record' \in [Keys -> {"none", "in_progress", "completed"}]
        /\ asked' \in [Keys -> Hashes \cup {Null}]
        /\ executed' \in [Keys -> Seq(Bodies)]
        /\ answered' \in [Keys -> SUBSET Bodies]
        BY <2>0, <1>a DEF TypeOK
  <2>2. /\ call' \in [Calls -> [at: {"idle"}] \cup [at: Stages, key: Keys, body: Bodies]]
        /\ file' \in [Uploads -> {"none", "pending", "available", "quarantined"}]
        /\ object' \subseteq Uploads
        BY <1>a, <1>b DEF TypeOK, OneCallPerKey, Stages
  <2>3. /\ event' \in [Keys -> {"none"} \cup Waiting \cup Settled]
        /\ attempts' \in [Keys -> 0 .. MaxAttempts] /\ messages' \in [Keys -> Nat]
        /\ due' \subseteq Keys /\ ahead' \subseteq Keys \X Keys
  <3>1. CASE UNCHANGED eventVars
        BY <3>1 DEF TypeOK
  <3>2. CASE Enqueues(call[c].key)
        BY <1>a, <3>2 DEF TypeOK, Waiting
  <3>3. QED
        BY <3>1, <3>2
  <2>4. QED
        BY <2>1, <2>2, <2>3 DEF TypeOK
<1>2. OneExecutionPerKey'
      BY <1>a, <1>b, <1>c DEF TypeOK, OneExecutionPerKey, SameRequest, OneCallPerKey,
         NothingBeforeCompletion, Stages
<1>3. RowsAccountForBytes'
      BY <1>a, <1>b, <1>c DEF TypeOK, RowsAccountForBytes, OneCallPerKey,
         NothingBeforeCompletion, Stages
<1>4. ToldOnceOfWhatHappened'
      BY <1>a, <1>b, <1>c DEF TypeOK, ToldOnceOfWhatHappened, OneCallPerKey,
         NothingBeforeCompletion, HeldEventsWait, Waiting
<1>5. OneCallPerKey'
      BY <1>a, <1>b, <1>c DEF TypeOK, OneCallPerKey, NothingBeforeCompletion,
         RowsAccountForBytes, Stages
<1>6. NothingBeforeCompletion'
      BY <1>a, <1>b, <1>c DEF TypeOK, OneCallPerKey, NothingBeforeCompletion,
         HeldEventsWait, Waiting, Stages
<1>7. HeldEventsWait'
  <2>1. \A j \in Keys : event'[j] # event[j] => j = call[c].key /\ event'[j] = "pending"
        BY <1>a DEF TypeOK
  <2>2. due' \in {due, due \cup {call[c].key}} /\ event'[call[c].key] \in {"none", "pending"}
        BY <1>a DEF TypeOK
  <2>3. call[c].key \in due' \ due => event'[call[c].key] = "pending"
        BY <1>a DEF TypeOK
  <2>4. QED
        BY <1>a, <2>1, <2>2, <2>3 DEF TypeOK, HeldEventsWait, Waiting
<1>8. QED
      BY <1>1, <1>2, <1>3, <1>4, <1>5, <1>6, <1>7

\* A worker claims a batch.
LEMMA PollKeeps ==
    ASSUME Inv, NEW w \in Workers, NEW batch \in SUBSET Keys, Poll(w, batch)
    PROVE  Inv'
<1> USE DeliveryAssumption DEF Inv, Poll, Locked, vars, keyVars, fileVars, eventVars
<1>1. TypeOK'
      BY DEF TypeOK, Waiting, Settled, Stages
<1>2. OneExecutionPerKey'
      BY DEF TypeOK, OneExecutionPerKey, SameRequest, OneCallPerKey,
         NothingBeforeCompletion, Stages
<1>3. RowsAccountForBytes'
      BY DEF TypeOK, RowsAccountForBytes, OneCallPerKey, NothingBeforeCompletion, Stages
<1>4. ToldOnceOfWhatHappened'
      BY DEF TypeOK, ToldOnceOfWhatHappened, OneCallPerKey, NothingBeforeCompletion,
         HeldEventsWait, Waiting
<1>5. OneCallPerKey'
      BY DEF TypeOK, OneCallPerKey, NothingBeforeCompletion, RowsAccountForBytes, Stages
<1>6. NothingBeforeCompletion'
      BY DEF TypeOK, OneCallPerKey, NothingBeforeCompletion, HeldEventsWait, Waiting, Stages
<1>7. HeldEventsWait'
      BY DEF TypeOK, HeldEventsWait, OneCallPerKey, NothingBeforeCompletion, Waiting, Settled
<1>8. QED
      BY <1>1, <1>2, <1>3, <1>4, <1>5, <1>6, <1>7

\* It commits what became of it.
LEMMA DispatchKeeps ==
    ASSUME Inv, NEW w \in Workers, NEW failing \in SUBSET Keys, Dispatch(w, failing)
    PROVE  Inv'
<1> USE DeliveryAssumption DEF Inv, Dispatch, Projected, Exhausted, vars, keyVars, fileVars,
        eventVars
<1>1. TypeOK'
      BY DEF TypeOK, Waiting, Settled, Stages
<1>2. OneExecutionPerKey'
      BY DEF TypeOK, OneExecutionPerKey, SameRequest, OneCallPerKey,
         NothingBeforeCompletion, Stages
<1>3. RowsAccountForBytes'
      BY DEF TypeOK, RowsAccountForBytes, OneCallPerKey, NothingBeforeCompletion, Stages
<1>4. ToldOnceOfWhatHappened'
      BY DEF TypeOK, ToldOnceOfWhatHappened, OneCallPerKey, NothingBeforeCompletion,
         HeldEventsWait, Waiting
<1>5. OneCallPerKey'
      BY DEF TypeOK, OneCallPerKey, NothingBeforeCompletion, RowsAccountForBytes, Stages
<1>6. NothingBeforeCompletion'
      BY DEF TypeOK, OneCallPerKey, NothingBeforeCompletion, HeldEventsWait, Waiting, Stages
<1>7. HeldEventsWait'
      BY DEF TypeOK, HeldEventsWait, OneCallPerKey, NothingBeforeCompletion, Waiting, Settled
<1>8. QED
      BY <1>1, <1>2, <1>3, <1>4, <1>5, <1>6, <1>7

\* A backoff passes.
LEMMA BecomesDueKeeps ==
    ASSUME Inv, NEW k \in Keys, BecomesDue(k)
    PROVE  Inv'
<1> USE DeliveryAssumption DEF Inv, BecomesDue, JoinsTheLine, vars, keyVars, fileVars,
        eventVars
<1>1. TypeOK'
      BY DEF TypeOK, Waiting, Settled, Stages
<1>2. OneExecutionPerKey'
      BY DEF TypeOK, OneExecutionPerKey, SameRequest, OneCallPerKey,
         NothingBeforeCompletion, Stages
<1>3. RowsAccountForBytes'
      BY DEF TypeOK, RowsAccountForBytes, OneCallPerKey, NothingBeforeCompletion, Stages
<1>4. ToldOnceOfWhatHappened'
      BY DEF TypeOK, ToldOnceOfWhatHappened, OneCallPerKey, NothingBeforeCompletion,
         HeldEventsWait, Waiting
<1>5. OneCallPerKey'
      BY DEF TypeOK, OneCallPerKey, NothingBeforeCompletion, RowsAccountForBytes, Stages
<1>6. NothingBeforeCompletion'
      BY DEF TypeOK, OneCallPerKey, NothingBeforeCompletion, HeldEventsWait, Waiting, Stages
<1>7. HeldEventsWait'
      BY DEF TypeOK, HeldEventsWait, OneCallPerKey, NothingBeforeCompletion, Waiting, Settled
<1>8. QED
      BY <1>1, <1>2, <1>3, <1>4, <1>5, <1>6, <1>7

\* A worker dies.
LEMMA CrashKeeps ==
    ASSUME Inv, NEW w \in Workers, Crash(w)
    PROVE  Inv'
<1> USE DeliveryAssumption DEF Inv, Crash, vars, keyVars, fileVars, eventVars
<1>1. TypeOK'
      BY DEF TypeOK, Waiting, Settled, Stages
<1>2. OneExecutionPerKey'
      BY DEF TypeOK, OneExecutionPerKey, SameRequest, OneCallPerKey,
         NothingBeforeCompletion, Stages
<1>3. RowsAccountForBytes'
      BY DEF TypeOK, RowsAccountForBytes, OneCallPerKey, NothingBeforeCompletion, Stages
<1>4. ToldOnceOfWhatHappened'
      BY DEF TypeOK, ToldOnceOfWhatHappened, OneCallPerKey, NothingBeforeCompletion,
         HeldEventsWait, Waiting
<1>5. OneCallPerKey'
      BY DEF TypeOK, OneCallPerKey, NothingBeforeCompletion, RowsAccountForBytes, Stages
<1>6. NothingBeforeCompletion'
      BY DEF TypeOK, OneCallPerKey, NothingBeforeCompletion, HeldEventsWait, Waiting, Stages
<1>7. HeldEventsWait'
      BY DEF TypeOK, HeldEventsWait, OneCallPerKey, NothingBeforeCompletion, Waiting, Settled
<1>8. QED
      BY <1>1, <1>2, <1>3, <1>4, <1>5, <1>6, <1>7

LEMMA NextKeeps ==
    ASSUME Inv, [Next]_vars
    PROVE  Inv'
<1>1. CASE \E c \in Calls, k \in Keys, p \in Bodies : Claim(c, k, p) \/ Replay(c, k, p)
      BY <1>1, ClaimKeeps, ReplayKeeps
<1>2. CASE \E c \in Calls : \/ Execute(c) \/ CommitRefusal(c) \/ CallEnds(c)
                           \/ Initiate(c) \/ Stream(c)
      BY <1>2, ExecuteKeeps, CommitRefusalKeeps, CallEndsKeeps, InitiateKeeps, StreamKeeps
<1>3. CASE \E c \in Calls, accepted, previewable \in BOOLEAN : Finalize(c, accepted,
previewable)
      BY <1>3, FinalizeKeeps
<1>4. CASE \E w \in Workers : Crash(w)
      BY <1>4, CrashKeeps
<1>5. CASE \E w \in Workers, batch \in SUBSET Keys : Poll(w, batch) \/ Dispatch(w, batch)
      BY <1>5, PollKeeps, DispatchKeeps
<1>6. CASE \E k \in Keys : BecomesDue(k)
      BY <1>6, BecomesDueKeeps
<1>7. CASE UNCHANGED vars
      BY <1>7 DEF vars, keyVars, fileVars, eventVars, Inv, TypeOK, OneExecutionPerKey,
         SameRequest, RowsAccountForBytes, ToldOnceOfWhatHappened, OneCallPerKey,
         NothingBeforeCompletion, HeldEventsWait
<1>8. QED
      BY <1>1, <1>2, <1>3, <1>4, <1>5, <1>6, <1>7 DEF Next

-----------------------------------------------------------------------------
\* Every reachable state of the keys, the uploads and the outbox satisfies the invariant.
THEOREM Invariant == Spec => []Inv
<1>1. Init => Inv
      BY InitInv
<1>2. Inv /\ [Next]_vars => Inv'
      BY NextKeeps
<1>3. QED
      BY <1>1, <1>2, PTL DEF Spec

\* Type correctness of the state of Delivery.
THEOREM TypeCorrect == Spec => []TypeOK
<1>1. Inv => TypeOK
      BY DEF Inv
<1>2. QED
      BY <1>1, Invariant, PTL

\* resolver.py and upload.py: a key runs its command once, and tells success of no request
\* whose hash is not that of the one it ran.
THEOREM ExactlyOneExecution == Spec => []OneExecutionPerKey
<1>1. Inv => OneExecutionPerKey
      BY DEF Inv
<1>2. QED
      BY <1>1, Invariant, PTL

\* resolver.py:8, for the commands it is true of: where a command hashes all that tells two
\* bodies apart, its key answers for the request it executed and for no other.
THEOREM HashedBodiesAreToldApart ==
    ASSUME NEW k \in Keys,
           \A a, b \in Bodies : RequestHash[k][a] = RequestHash[k][b] => a = b
    PROVE  Spec => [](\A b \in answered[k] : executed[k] = <<b>>)
<1>1. Inv => \A b \in answered[k] : executed[k] = <<b>>
  <2>1. SUFFICES ASSUME Inv, NEW b \in answered[k] PROVE executed[k] = <<b>>
        OBVIOUS
  <2>2. b \in Bodies /\ SameRequest(k, b)
        BY <2>1 DEF Inv, TypeOK, OneExecutionPerKey
  <2>3. QED
        BY <2>2 DEF SameRequest
<1>2. QED
      BY <1>1, Invariant, PTL

\* upload.py: no bytes without a row, no finished row without its bytes.
THEOREM BytesAccountedFor == Spec => []RowsAccountForBytes
<1>1. Inv => RowsAccountForBytes
      BY DEF Inv
<1>2. QED
      BY <1>1, Invariant, PTL

\* dispatcher.py and projection.py: one message for each event published, none for others.
THEOREM OneMessage == Spec => []ToldOnceOfWhatHappened
<1>1. Inv => ToldOnceOfWhatHappened
      BY DEF Inv
<1>2. QED
      BY <1>1, Invariant, PTL

-----------------------------------------------------------------------------
(* Refinement: ExactlyOnce. *)

News == [k \in Keys |-> NewsOf[event[k]]]

\* What the promise calls each status of an event.
LEMMA NewsNamed ==
    /\ NewsOf["none"] = "none" /\ NewsOf["published"] = "told"
    /\ NewsOf["dead_lettered"] = "lost"
    /\ NewsOf["pending"] = "owed" /\ NewsOf["failed"] = "owed"
BY DEF NewsOf

\* What the promise does not see.
LEMMA Unseen ==
    ASSUME UNCHANGED <<executed, answered, event, messages>>
    PROVE  UNCHANGED Once!eoVars
BY DEF Once!eoVars

\* The commit of a command, or of an upload's last transaction, is when a key takes effect.
LEMMA CompletionTakesEffect ==
    ASSUME Inv, NEW k \in Keys, NEW b \in Bodies,
           executed[k] = <<>>, event[k] = "none",
           Completes(k, b), Enqueues(k) \/ UNCHANGED eventVars
    PROVE  Once!TakeEffect(k, b)
<1>1. executed' = [executed EXCEPT ![k] = <<b>>]
  <2>1. Append(executed[k], b) = <<b>>
        OBVIOUS
  <2>2. QED
        BY <2>1 DEF Completes
<1>2. answered' = [answered EXCEPT ![k] = @ \cup {b}]
      BY DEF Completes
<1>3. News' \in {News, [News EXCEPT ![k] = "owed"]} /\ messages' = messages
  <2>1. CASE Enqueues(k)
    <3>1. event' = [event EXCEPT ![k] = "pending"] /\ messages' = messages
          BY <2>1 DEF Enqueues
    <3>2. News' = [News EXCEPT ![k] = "owed"]
          BY <3>1, NewsNamed DEF Inv, TypeOK, News
    <3>3. QED
          BY <3>1, <3>2
  <2>2. CASE UNCHANGED eventVars
        BY <2>2 DEF eventVars, News
  <2>3. QED
        BY <2>1, <2>2
<1>4. QED
      BY <1>1, <1>2, <1>3 DEF Once!TakeEffect, News

LEMMA ExecuteTakesEffect ==
    ASSUME Inv, NEW c \in Calls, Execute(c)
    PROVE  \E k \in Keys, b \in Bodies : Once!TakeEffect(k, b)
<1>1. /\ call[c].key \in Keys /\ call[c].body \in Bodies
      /\ executed[call[c].key] = <<>> /\ event[call[c].key] = "none"
      BY DEF Inv, TypeOK, OneCallPerKey, NothingBeforeCompletion, Stages, Execute
<1>2. /\ Completes(call[c].key, call[c].body)
      /\ Enqueues(call[c].key) \/ UNCHANGED eventVars
      BY DEF Execute
<1>3. QED
      BY <1>1, <1>2, CompletionTakesEffect

LEMMA FinalizeTakesEffect ==
    ASSUME Inv, NEW c \in Calls, NEW accepted, NEW previewable, Finalize(c, accepted, previewable)
    PROVE  \E k \in Keys, b \in Bodies : Once!TakeEffect(k, b)
<1>1. /\ call[c].key \in Keys /\ call[c].body \in Bodies
      /\ executed[call[c].key] = <<>> /\ event[call[c].key] = "none"
  <2>1. call[c].at = "stored"
        BY DEF Finalize
  <2>2. call[c].key \in Keys /\ call[c].body \in Bodies
        BY <2>1 DEF Inv, TypeOK, Stages
  <2>3. record[call[c].key] = "in_progress"
        BY <2>1 DEF Inv, OneCallPerKey
  <2>4. QED
        BY <2>2, <2>3 DEF Inv, NothingBeforeCompletion
<1>2. /\ Completes(call[c].key, call[c].body)
      /\ Enqueues(call[c].key) \/ UNCHANGED eventVars
      BY DEF Finalize
<1>3. QED
      BY <1>1, <1>2, CompletionTakesEffect

\* A completed key answers for the request it did, and for those of its hash.
LEMMA ReplayAnswersAgain ==
    ASSUME Inv, NEW c \in Calls, NEW k \in Keys, NEW p \in Bodies, Replay(c, k, p)
    PROVE  Once!AnswerAgain(k, p)
<1>1. \E a \in Bodies : executed[k] = <<a>> /\ RequestHash[k][a] = RequestHash[k][p]
      BY DEF Replay, Inv, OneExecutionPerKey
<1>2. answered' = [answered EXCEPT ![k] = @ \cup {p}]
      BY DEF Replay
<1>3. UNCHANGED <<executed, News, messages>>
      BY DEF Replay, eventVars, News
<1>4. QED
      BY <1>1, <1>2, <1>3 DEF Once!AnswerAgain, News

\* A batch settles the news it delivers or gives up; what it will try again is still owed.
LEMMA DispatchSettles ==
    ASSUME Inv, NEW w \in Workers, NEW failing, Dispatch(w, failing)
    PROVE  Once!Settle
<1>1. \A k \in Keys : /\ event[k] \in {"none"} \cup Waiting \cup Settled
                      /\ k \in held[w] => event[k] \in Waiting
      BY DEF Inv, TypeOK, HeldEventsWait
<1>2. \A k \in Keys : event'[k] = IF k \notin held[w] THEN event[k]
                                  ELSE IF k \notin failing THEN "published"
                                  ELSE IF Exhausted(k) THEN "dead_lettered" ELSE "failed"
      BY DEF Dispatch
<1>3. \A k \in Keys : News[k] = NewsOf[event[k]] /\ News'[k] = NewsOf[event'[k]]
      BY DEF News
<1>4. News' \in [Keys -> {"none", "owed", "told", "lost"}]
  <2>1. \A k \in Keys : News'[k] \in {"none", "owed", "told", "lost"}
        BY <1>1, <1>2, <1>3, NewsNamed DEF Waiting, Settled
  <2>2. QED
        BY <2>1 DEF News
<1>5. \A k \in Keys : News'[k] # News[k] => News[k] = "owed" /\ News'[k] \in {"told", "lost"}
      BY <1>1, <1>2, <1>3, NewsNamed DEF Waiting
<1>6. messages' = [k \in Keys |-> messages[k] +
                     IF k \in Told /\ News[k] = "owed" /\ News'[k] = "told" THEN 1 ELSE 0]
  <2>1. messages' = [k \in Keys |-> IF k \in Projected(w, failing) THEN 1 ELSE messages[k]]
        BY DEF Dispatch
  <2>2. ASSUME NEW k \in Keys
        PROVE  (IF k \in Projected(w, failing) THEN 1 ELSE messages[k]) =
               messages[k] +
                 IF k \in Told /\ News[k] = "owed" /\ News'[k] = "told" THEN 1 ELSE 0
    <3>1. k \in Projected(w, failing) <=> k \in held[w] /\ k \in Told /\ k \notin failing
          BY DEF Projected
    <3>2. k \in held[w] /\ k \notin failing <=> News[k] = "owed" /\ News'[k] = "told"
          BY <1>1, <1>2, <1>3, NewsNamed DEF Waiting, Settled
    <3>3. messages[k] \in Nat
          BY DEF Inv, TypeOK
    <3>4. k \in held[w] => messages[k] = 0
          BY <1>1 DEF Inv, ToldOnceOfWhatHappened, Waiting
    <3>5. QED
          BY <3>1, <3>2, <3>3, <3>4
  <2>3. QED
        BY <2>1, <2>2
<1>7. UNCHANGED <<executed, answered>>
      BY DEF Dispatch, keyVars
<1>8. QED
      BY <1>4, <1>5, <1>6, <1>7 DEF Once!Settle, News

\* Every step is one of the promise, or is not seen by it.
LEMMA StepMaps == Inv /\ [Next]_vars => [Once!EONext]_(Once!eoVars)
<1> SUFFICES ASSUME Inv, [Next]_vars PROVE Once!EONext \/ UNCHANGED Once!eoVars
    OBVIOUS
<1>1. CASE \E c \in Calls, k \in Keys, p \in Bodies : Claim(c, k, p)
      BY <1>1, Unseen DEF Claim, keyVars, eventVars
<1>2. CASE \E c \in Calls, k \in Keys, p \in Bodies : Replay(c, k, p)
      BY <1>2, ReplayAnswersAgain DEF Once!EONext
<1>3. CASE \E c \in Calls : Execute(c)
      BY <1>3, ExecuteTakesEffect DEF Once!EONext
<1>4. CASE \E c \in Calls : CommitRefusal(c) \/ CallEnds(c) \/ Initiate(c) \/ Stream(c)
      BY <1>4, Unseen DEF CommitRefusal, CallEnds, Initiate, Stream, keyVars, eventVars
<1>5. CASE \E c \in Calls, accepted, previewable \in BOOLEAN : Finalize(c, accepted, previewable)
      BY <1>5, FinalizeTakesEffect DEF Once!EONext
<1>6. CASE \E w \in Workers, batch \in SUBSET Keys : Dispatch(w, batch)
      BY <1>6, DispatchSettles DEF Once!EONext
<1>7. CASE \/ \E w \in Workers, batch \in SUBSET Keys : Poll(w, batch)
           \/ \E w \in Workers : Crash(w)
      BY <1>7, Unseen DEF Poll, Crash, keyVars, eventVars
<1>8. CASE \E k \in Keys : BecomesDue(k)
      BY <1>8, Unseen DEF BecomesDue, keyVars
<1>9. CASE UNCHANGED vars
      BY <1>9, Unseen DEF vars, keyVars, eventVars
<1>10. QED
      BY <1>1, <1>2, <1>3, <1>4, <1>5, <1>6, <1>7, <1>8, <1>9 DEF Next

LEMMA InitMaps == Init => Once!EOInit
BY NewsNamed DEF Init, Once!EOInit

\* Idempotency, upload, outbox and projection implement the promise, for any keys, bodies
\* and hashes of them, overlapping calls, batches and crashes.
THEOREM Refinement == Spec => ImplementsExactlyOnce
BY Invariant, StepMaps, InitMaps, PTL DEF Spec, ImplementsExactlyOnce, Once!EOSpec

=============================================================================
