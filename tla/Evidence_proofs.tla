--------------------------- MODULE Evidence_proofs ---------------------------
(***************************************************************************)
(* Proofs about Evidence, for any bundles, segments, attempts and          *)
(* transactions: its invariant is inductive.                               *)
(*                                                                         *)
(* The argument: a correction retires a link it has not locked, so the     *)
(* link may have gone since; but then the attempt has another active one   *)
(* and the unique index refuses the successor.  A link once entered stays  *)
(* entered, an image once rendered stays rendered, and what a reviewer has *)
(* passed stays passed: so what a publication read is still so when it     *)
(* commits.                                                                *)
(***************************************************************************)
EXTENDS Evidence, TLAPS

ChainInv  == PrimaryEvidenceIsAChain /\ LinksFit
ReviewInv == PublishedImageWasReviewed /\ ReviewsFit

\* A link's parts.
LEMMA LinkParts ==
    ASSUME NEW l \in Links
    PROVE  AttemptOf(l) \in Attempts /\ SegmentOf(l) \in Segments /\ TypeOf(l) \in Types
  BY DEF Links, AttemptOf, SegmentOf, TypeOf

\* The successor of a link is of its attempt and type, on the other segment.
LEMMA SuccessorParts ==
    ASSUME NEW l \in Links, NEW s \in Segments
    PROVE  /\ Successor(l, s) \in Links
           /\ AttemptOf(Successor(l, s)) = AttemptOf(l)
           /\ TypeOf(Successor(l, s)) = TypeOf(l)
           /\ SegmentOf(Successor(l, s)) = s
  BY LinkParts DEF Links, Successor, AttemptOf, SegmentOf, TypeOf

\* The state the program starts in satisfies the invariant.
LEMMA InitInv == Init => Inv
<1> SUFFICES ASSUME Init PROVE Inv
    OBVIOUS
<1> USE DEF Init
<1>1. TypeOK
      BY DEF TypeOK, SegmentStatuses, LinkStatuses, Tasks, TaskStatuses
<1>2. PrimaryEvidenceIsAChain /\ PublishedImageWasReviewed
      BY DEF PrimaryEvidenceIsAChain, PublishedImageWasReviewed, Primary
<1>3. LinksFit /\ ReviewsFit
      BY DEF LinksFit, ReviewsFit, Primary
<1>4. CallsFit
      BY DEF CallsFit, Idle
<1>5. QED
      BY <1>1, <1>2, <1>3, <1>4 DEF Inv

-----------------------------------------------------------------------------
\* A transaction's return frees it and leaves the others alone.
LEMMA ReturnFrees ==
    ASSUME Inv, NEW c \in Clerks, Return(c)
    PROVE  /\ doing' \in [Clerks -> {Idle} \cup Call]
           /\ \A e \in Clerks : doing'[e] = doing[e] \/ doing'[e] = Idle
  BY DEF Return, Inv, TypeOK

\* What a transaction has read stays true of links, images and reviews that only grow.
LEMMA GrowthKeepsCalls ==
    ASSUME Inv,
           \A e \in Clerks : doing'[e] = doing[e] \/ doing'[e] = Idle,
           \A l \in Links : linkStatus[l] # "none" => linkStatus'[l] # "none",
           \A s \in Segments : version[s] = 2 => version'[s] = 2,
           \A s \in Segments : segStatus[s] # "none" => segStatus'[s] # "none",
           judged \subseteq judged', published \subseteq published'
    PROVE  CallsFit'
<1> SUFFICES ASSUME NEW e \in Clerks
             PROVE  LET d == doing'[e] IN
                    /\ d.op = "render" => d.was = 1 /\ segStatus'[d.on] # "none"
                    /\ d.op = "publish" =>
                         IF d.link = Null THEN ~d.held
                         ELSE /\ linkStatus'[d.link] # "none" /\ LinkRequest(d.link) = d.on
                              /\ version'[SegmentOf(d.link)] = 2
                              /\ <<SegmentOf(d.link), 2>> \in judged'
                    /\ d.op = "correct" =>
                         /\ linkStatus'[d.link] # "none" /\ LinkRequest(d.link) = d.on
                         /\ d.on \in published'
                         /\ version'[d.by] = 2 /\ <<d.by, 2>> \in judged'
    BY DEF CallsFit
<1>1. CASE doing'[e] = Idle
      BY <1>1 DEF Idle
<1>2. CASE doing'[e] = doing[e] /\ doing[e] # Idle
  <2> DEFINE d == doing[e]
  <2>1. d \in Call
        BY <1>2 DEF Inv, TypeOK
  <2>2. d.op = "publish" => d.link \in Links \cup {Null}
        BY <2>1 DEF Call
  <2>3. /\ d.op = "correct" => d.link \in Links /\ d.by \in Segments
        /\ d.op = "render" => d.on \in Segments
        BY <2>1 DEF Call
  <2>4. /\ d.op = "render" => d.was = 1 /\ segStatus[d.on] # "none"
        /\ d.op = "publish" =>
             IF d.link = Null THEN ~d.held
             ELSE /\ linkStatus[d.link] # "none" /\ LinkRequest(d.link) = d.on
                  /\ version[SegmentOf(d.link)] = 2 /\ <<SegmentOf(d.link), 2>> \in judged
        /\ d.op = "correct" =>
             /\ linkStatus[d.link] # "none" /\ LinkRequest(d.link) = d.on
             /\ d.on \in published
             /\ version[d.by] = 2 /\ <<d.by, 2>> \in judged
        BY DEF Inv, CallsFit
  <2>5. CASE d.op = "publish"
        BY <1>2, <2>2, <2>4, <2>5, LinkParts
  <2>6. CASE d.op = "correct"
        BY <1>2, <2>3, <2>4, <2>6
  <2>7. CASE d.op \notin {"publish", "correct"}
        BY <1>2, <2>3, <2>4, <2>7
  <2>8. QED
        BY <2>5, <2>6, <2>7
<1>3. QED
      BY <1>1, <1>2

\* A transaction that has read what it may go on from keeps the invariant.
LEMMA BeginKeeps ==
    ASSUME Inv, NEW c \in Clerks, NEW d \in Call, Begin(c, d),
           /\ d.op = "render" => d.was = 1 /\ segStatus[d.on] # "none"
           /\ d.op = "publish" =>
                IF d.link = Null THEN ~d.held
                ELSE /\ linkStatus[d.link] # "none" /\ LinkRequest(d.link) = d.on
                     /\ version[SegmentOf(d.link)] = 2 /\ <<SegmentOf(d.link), 2>> \in judged
           /\ d.op = "correct" =>
                /\ linkStatus[d.link] # "none" /\ LinkRequest(d.link) = d.on
                /\ d.on \in published
                /\ version[d.by] = 2 /\ <<d.by, 2>> \in judged
    PROVE  Inv'
<1>1. /\ doing' = [doing EXCEPT ![c] = d]
      /\ UNCHANGED <<segVars, linkVars, pubVars, taskVars>>
      BY DEF Begin
<1> USE DEF segVars, linkVars, pubVars, taskVars
<1>2. \A e \in Clerks : doing'[e] = IF e = c THEN d ELSE doing[e]
      BY <1>1 DEF Inv, TypeOK
<1>3. TypeOK'
      BY <1>1 DEF Inv, TypeOK
<1>4. PrimaryEvidenceIsAChain' /\ PublishedImageWasReviewed' /\ LinksFit' /\ ReviewsFit'
      BY <1>1 DEF Inv, PrimaryEvidenceIsAChain, PublishedImageWasReviewed, LinksFit, ReviewsFit
<1>5. CallsFit'
      BY <1>1, <1>2 DEF Inv, CallsFit
<1>6. QED
      BY <1>3, <1>4, <1>5 DEF Inv

\* Where links stand still, so does the chain.
LEMMA SameLinks ==
    ASSUME Inv, linkStatus' = linkStatus, replaces' = replaces
    PROVE  ChainInv'
  BY DEF Inv, ChainInv, PrimaryEvidenceIsAChain, LinksFit

\* Where images, reviews and publications stand still, so does what is shown.
LEMMA SameReviews ==
    ASSUME Inv, segStatus' = segStatus, version' = version, task' = task, judged' = judged,
           cites' = cites
    PROVE  ReviewInv'
  BY DEF Inv, ReviewInv, PublishedImageWasReviewed, ReviewsFit

-----------------------------------------------------------------------------
\* A primary link that can be retired is its attempt's active one, and its successor's
\* segment is free.
LEMMA TheActiveRetires ==
    ASSUME Inv, NEW l \in Primary, NEW s \in Segments, linkStatus[l] # "none", Retire(l, s)
    PROVE  /\ linkStatus[l] = "active"
           /\ Successor(l, s) \in Primary /\ linkStatus[Successor(l, s)] = "none"
           /\ \A k \in Primary : k # l /\ linkStatus[k] = "active" =>
                  ~SameAttempt(k, l) /\ SegmentOf(k) # s
<1> DEFINE retired == [linkStatus EXCEPT ![l] = "replaced"]
           next    == Successor(l, s)
<1>1. l \in Links
      BY DEF Primary
<1>2. /\ next \in Links /\ AttemptOf(next) = AttemptOf(l) /\ TypeOf(next) = TypeOf(l)
      /\ SegmentOf(next) = s
      BY <1>1, SuccessorParts
<1>3. next \in Primary
      BY <1>2 DEF Primary
<1>4. Insertable(next, retired)
      BY DEF Retire
<1>5. \A k \in Links : retired[k] = IF k = l THEN "replaced" ELSE linkStatus[k]
      BY DEF Inv, TypeOK
<1>6. linkStatus[next] = "none"
      BY <1>2, <1>4, <1>5 DEF Insertable
<1>7. \A k \in Primary : k # l /\ linkStatus[k] = "active" =>
           AttemptOf(k) # AttemptOf(l) /\ SegmentOf(k) # s
  <2>1. \A k \in Primary : retired[k] = "active" =>
             AttemptOf(k) # AttemptOf(next) /\ SegmentOf(k) # SegmentOf(next)
        BY <1>3, <1>4 DEF Insertable
  <2>2. \A k \in Primary : k \in Links
        BY DEF Primary
  <2>3. QED
        BY <1>2, <1>5, <2>1, <2>2
<1>8. PICK k \in Primary : SameAttempt(k, l) /\ linkStatus[k] = "active"
      BY DEF Inv, PrimaryEvidenceIsAChain
<1>9. QED
      BY <1>3, <1>6, <1>7, <1>8 DEF SameAttempt

\* Retiring an entered link for a successor keeps the chain, even if the link had
\* gone before: then the attempt has an active link and the successor is refused.
LEMMA RetireKeepsChain ==
    ASSUME Inv, NEW l \in Links, NEW s \in Segments, linkStatus[l] # "none", Retire(l, s)
    PROVE  /\ ChainInv'
           /\ linkStatus' \in [Links -> LinkStatuses]
           /\ replaces' \in [Links -> Links \cup {Null}]
           /\ \A k \in Links : linkStatus[k] # "none" => linkStatus'[k] # "none"
<1> DEFINE retired == [linkStatus EXCEPT ![l] = "replaced"]
           next    == Successor(l, s)
<1>1. /\ next \in Links /\ AttemptOf(next) = AttemptOf(l) /\ TypeOf(next) = TypeOf(l)
      BY SuccessorParts
<1>2. /\ Insertable(next, retired)
      /\ linkStatus' = [retired EXCEPT ![next] = "active"]
      /\ replaces' = [replaces EXCEPT ![next] = l]
      BY DEF Retire
<1>3. \A k \in Links : retired[k] = IF k = l THEN "replaced" ELSE linkStatus[k]
      BY DEF Inv, TypeOK
<1>4. next # l /\ linkStatus[next] = "none"
      BY <1>1, <1>2, <1>3 DEF Insertable
<1>5. \A k \in Links : /\ linkStatus'[k] = (IF k = next THEN "active" ELSE retired[k])
                       /\ replaces'[k] = (IF k = next THEN l ELSE replaces[k])
      BY <1>1, <1>2 DEF Inv, TypeOK
<1>6. /\ linkStatus' \in [Links -> LinkStatuses]
      /\ replaces' \in [Links -> Links \cup {Null}]
      BY <1>1, <1>2 DEF Inv, TypeOK, LinkStatuses
<1>7. \A k \in Links : linkStatus[k] # "none" => linkStatus'[k] # "none"
      BY <1>3, <1>5
<1>8. \A k \in Primary : k \in Links
      BY DEF Primary
<1>9. l \in Primary <=> next \in Primary
      BY <1>1 DEF Primary
<1>10. CASE l \notin Primary
  <2>1. \A k \in Primary : linkStatus'[k] = linkStatus[k] /\ replaces'[k] = replaces[k]
        BY <1>3, <1>5, <1>8, <1>9, <1>10
  <2>2. QED
        BY <1>6, <1>7, <2>1 DEF Inv, ChainInv, PrimaryEvidenceIsAChain, LinksFit
<1>11. CASE l \in Primary
  <2>1. next \in Primary
        BY <1>9, <1>11
  \* No other primary link of the attempt is active once l is retired.
  <2>2. \A k \in Primary : SameAttempt(k, l) /\ k # l => linkStatus[k] # "active"
        BY <1>11, TheActiveRetires
  <2>3. linkStatus[l] = "active"
        BY <1>11, TheActiveRetires
  <2>4. \A k \in Primary : replaces[k] # l
        BY <2>3, <1>11, EvidenceAssumption DEF Inv, LinksFit
  <2>5. \A k \in Primary : /\ linkStatus'[k] = (IF k = next THEN "active"
                                                ELSE IF k = l THEN "replaced" ELSE linkStatus[k])
                           /\ replaces'[k] = (IF k = next THEN l ELSE replaces[k])
        BY <1>3, <1>5, <1>8
  <2>6. \A k \in Primary : linkStatus'[k] # "none" => linkStatus[k] # "none" \/ k = next
        BY <2>5, <1>11
  <2>7. SameAttempt(next, l)
        BY <1>1 DEF SameAttempt
  <2> DEFINE line  == {k \in Primary : linkStatus'[k] # "none"}
  <2>8. ASSUME NEW m \in line
        PROVE  \E k \in line : SameAttempt(k, m) /\ linkStatus'[k] = "active"
    <3>1. CASE SameAttempt(m, l)
          BY <2>1, <2>5, <2>7, <3>1 DEF SameAttempt
    <3>2. CASE ~SameAttempt(m, l)
      <4>1. m # next /\ m # l /\ linkStatus[m] # "none" /\ m \in Primary
            BY <2>6, <2>7, <3>2 DEF SameAttempt
      <4>2. PICK k \in Primary : SameAttempt(k, m) /\ linkStatus[k] = "active"
            BY <4>1 DEF Inv, PrimaryEvidenceIsAChain
      <4>3. k # l /\ k # next
            BY <2>7, <3>2, <4>2 DEF SameAttempt
      <4>4. QED
            BY <2>5, <4>2, <4>3
    <3>3. QED
          BY <3>1, <3>2
  <2>9. ASSUME NEW k \in line, NEW m \in line, SameAttempt(k, m)
        PROVE  /\ linkStatus'[k] = "active" /\ linkStatus'[m] = "active" => k = m
               /\ replaces'[k] = replaces'[m] /\ replaces'[k] # Null => k = m
    <3>1. k \in Primary /\ m \in Primary
          OBVIOUS
    <3>2. CASE k # next /\ m # next
      <4>1. linkStatus[k] # "none" /\ linkStatus[m] # "none"
            BY <2>6, <3>2
      <4>2. replaces'[k] = replaces[k] /\ replaces'[m] = replaces[m]
            BY <2>5, <3>1, <3>2
      <4>3. /\ linkStatus'[k] = "active" => linkStatus[k] = "active"
            /\ linkStatus'[m] = "active" => linkStatus[m] = "active"
            BY <2>5, <3>1, <3>2
      <4>4. QED
            BY <2>9, <3>1, <4>1, <4>2, <4>3 DEF Inv, PrimaryEvidenceIsAChain
    <3>3. CASE k = next /\ m # next
      <4>1. SameAttempt(m, l) /\ linkStatus'[m] # "active"
            BY <2>2, <2>5, <2>7, <2>9, <3>1, <3>3 DEF SameAttempt
      <4>2. replaces'[k] # replaces'[m]
            BY <2>4, <2>5, <3>1, <3>3
      <4>3. QED
            BY <4>1, <4>2
    <3>4. CASE k # next /\ m = next
      <4>1. SameAttempt(k, l) /\ linkStatus'[k] # "active"
            BY <2>2, <2>5, <2>7, <2>9, <3>1, <3>4 DEF SameAttempt
      <4>2. replaces'[k] # replaces'[m]
            BY <2>4, <2>5, <3>1, <3>4
      <4>3. QED
            BY <4>1, <4>2
    <3>5. QED
          BY <3>2, <3>3, <3>4
  <2>10. ASSUME NEW m \in line, linkStatus'[m] = "replaced"
         PROVE  \E k \in line : SameAttempt(k, m) /\ replaces'[k] = m
    <3>1. CASE m = l
          BY <2>1, <2>5, <2>7, <3>1
    <3>2. CASE m # l
      <4>1. m \in Primary /\ linkStatus[m] = "replaced"
            BY <2>5, <2>10, <3>2
      <4>2. PICK k \in Primary : /\ linkStatus[k] # "none" /\ SameAttempt(k, m)
                                 /\ replaces[k] = m
            BY <4>1 DEF Inv, PrimaryEvidenceIsAChain
      <4>3. k # next
            BY <1>4, <4>2
      <4>4. linkStatus'[k] # "none" /\ replaces'[k] = m
            BY <2>5, <4>2, <4>3
      <4>5. QED
            BY <4>2, <4>4
    <3>3. QED
          BY <3>1, <3>2
  <2>11. PrimaryEvidenceIsAChain'
         BY <2>8, <2>9, <2>10 DEF PrimaryEvidenceIsAChain, SameAttempt
  <2>12. LinksFit'
    <3> SUFFICES ASSUME NEW k \in Primary
                 PROVE  /\ linkStatus'[k] # "revoked"
                        /\ linkStatus'[k] = "none" => replaces'[k] = Null
                        /\ replaces'[k] # Null => /\ replaces'[k] \in Primary
                                                  /\ linkStatus'[replaces'[k]] = "replaced"
        BY DEF LinksFit
    <3>1. CASE k = next
          BY <1>4, <1>11, <2>5, <3>1
    <3>2. CASE k # next
      <4>1. replaces'[k] = replaces[k]
            BY <2>5, <3>2
      <4>2. replaces[k] # Null => /\ replaces[k] \in Primary
                                  /\ linkStatus[replaces[k]] = "replaced"
            BY DEF Inv, LinksFit
      <4>3. replaces[k] # Null => linkStatus'[replaces[k]] = "replaced"
            BY <1>4, <2>5, <4>2
      <4>4. linkStatus'[k] # "revoked" /\ (linkStatus'[k] = "none" => replaces[k] = Null)
            BY <2>5, <3>2 DEF Inv, LinksFit
      <4>5. QED
            BY <4>1, <4>2, <4>3, <4>4
    <3>3. QED
          BY <3>1, <3>2
  <2>13. QED
         BY <1>6, <1>7, <2>11, <2>12 DEF ChainInv
<1>12. QED
       BY <1>10, <1>11

-----------------------------------------------------------------------------
\* A link confirmed is the first of its attempt, or supplementary.
LEMMA ConfirmKeeps ==
    ASSUME Inv, NEW l \in Links, ConfirmEvidenceLink(l)
    PROVE  Inv'
<1>1. /\ segStatus[SegmentOf(l)] # "none" /\ Insertable(l, linkStatus)
      /\ linkStatus' = [linkStatus EXCEPT ![l] = "active"]
      /\ segStatus' = [segStatus EXCEPT ![SegmentOf(l)] = "confirmed_linked"]
           \/ segStatus' = segStatus
      /\ UNCHANGED <<closed, version, crops, replaces, shown, pubVars, taskVars, doing>>
      BY DEF ConfirmEvidenceLink
<1> USE DEF pubVars, taskVars
<1>2. l \in Links /\ SegmentOf(l) \in Segments /\ linkStatus[l] = "none"
      BY <1>1, LinkParts DEF Insertable
<1>3. \A k \in Links : linkStatus'[k] = IF k = l THEN "active" ELSE linkStatus[k]
      BY <1>1 DEF Inv, TypeOK
<1>4. segStatus' \in [Segments -> SegmentStatuses]
      BY <1>1, <1>2 DEF Inv, TypeOK, SegmentStatuses
<1>5. TypeOK'
  <2>1. linkStatus' \in [Links -> LinkStatuses]
        BY <1>1 DEF Inv, TypeOK, LinkStatuses
  <2>2. QED
        BY <1>1, <1>4, <2>1 DEF Inv, TypeOK
<1>6. \A k \in Primary : k \in Links
      BY DEF Primary
<1>7. l \in Primary => \A k \in Primary : SameAttempt(k, l) => linkStatus[k] = "none"
  <2>1. SUFFICES ASSUME l \in Primary, NEW m \in Primary, SameAttempt(m, l),
                        linkStatus[m] # "none"
                 PROVE  FALSE
        OBVIOUS
  <2>2. PICK k \in Primary : SameAttempt(k, m) /\ linkStatus[k] = "active"
        BY <2>1 DEF Inv, PrimaryEvidenceIsAChain
  <2>3. QED
        BY <1>1, <2>1, <2>2 DEF Insertable, SameAttempt
<1>8. PrimaryEvidenceIsAChain'
  <2> DEFINE line  == {k \in Primary : linkStatus'[k] # "none"}
  <2>1. replaces' = replaces
        BY <1>1
  <2>2. \A k \in line :
           k \in Primary /\ (k # l => linkStatus[k] # "none" /\ linkStatus'[k] = linkStatus[k])
        BY <1>3, <1>6
  <2>3. l \in line => linkStatus'[l] = "active" /\ \A k \in line : SameAttempt(k, l) => k = l
        BY <1>3, <1>7, <2>2
  <2>4. ASSUME NEW m \in line
        PROVE  \E k \in line : SameAttempt(k, m) /\ linkStatus'[k] = "active"
    <3>1. CASE m = l
          BY <2>3, <3>1 DEF SameAttempt
    <3>2. CASE m # l
      <4>1. PICK k \in Primary : SameAttempt(k, m) /\ linkStatus[k] = "active"
            BY <2>2, <3>2 DEF Inv, PrimaryEvidenceIsAChain
      <4>2. QED
            BY <1>3, <1>6, <4>1
    <3>3. QED
          BY <3>1, <3>2
  <2>5. ASSUME NEW k \in line, NEW m \in line, SameAttempt(k, m)
        PROVE  /\ linkStatus'[k] = "active" /\ linkStatus'[m] = "active" => k = m
               /\ replaces'[k] = replaces'[m] /\ replaces'[k] # Null => k = m
    <3>1. CASE k = l \/ m = l
          BY <2>3, <2>5, <3>1 DEF SameAttempt
    <3>2. CASE k # l /\ m # l
          BY <2>1, <2>2, <2>5, <3>2 DEF Inv, PrimaryEvidenceIsAChain
    <3>3. QED
          BY <3>1, <3>2
  <2>6. ASSUME NEW m \in line, linkStatus'[m] = "replaced"
        PROVE  \E k \in line : SameAttempt(k, m) /\ replaces'[k] = m
    <3>1. m # l
          BY <2>3, <2>6
    <3>2. PICK k \in Primary : linkStatus[k] # "none" /\ SameAttempt(k, m) /\ replaces[k] = m
          BY <2>2, <2>6, <3>1 DEF Inv, PrimaryEvidenceIsAChain
    <3>3. QED
          BY <1>3, <1>6, <2>1, <3>2
  <2>7. QED
        BY <2>4, <2>5, <2>6 DEF PrimaryEvidenceIsAChain, SameAttempt
<1>9. LinksFit'
      BY <1>1, <1>2, <1>3, <1>6 DEF Inv, LinksFit
<1>10. PublishedImageWasReviewed'
       BY <1>1 DEF Inv, PublishedImageWasReviewed
<1>11. ReviewsFit'
  <2>1. \A s \in Segments : segStatus'[s] = "none" => segStatus[s] = "none"
        BY <1>1, <1>2 DEF Inv, TypeOK
  <2>2. QED
        BY <1>1, <2>1 DEF Inv, ReviewsFit
<1>12. CallsFit'
  <2>1. \A s \in Segments : segStatus[s] # "none" => segStatus'[s] # "none"
        BY <1>1, <1>2 DEF Inv, TypeOK
  <2>2. QED
        BY <1>1, <1>3, <2>1, GrowthKeepsCalls
<1>13. QED
       BY <1>5, <1>8, <1>9, <1>10, <1>11, <1>12 DEF Inv

\* A replacement retires an active link.
LEMMA ReplaceKeeps ==
    ASSUME Inv, NEW l \in Links, NEW s \in Segments, ReplaceEvidenceLink(l, s)
    PROVE  Inv'
<1>1. /\ linkStatus[l] # "none" /\ Retire(l, s)
      /\ UNCHANGED <<segVars, shown, pubVars, taskVars, doing>>
      BY DEF ReplaceEvidenceLink
<1> USE DEF segVars, pubVars, taskVars
<1>2. /\ ChainInv'
      /\ linkStatus' \in [Links -> LinkStatuses]
      /\ replaces' \in [Links -> Links \cup {Null}]
      /\ \A k \in Links : linkStatus[k] # "none" => linkStatus'[k] # "none"
      BY <1>1, RetireKeepsChain
<1>3. TypeOK'
      BY <1>1, <1>2 DEF Inv, TypeOK
<1>4. ReviewInv'
      BY <1>1, SameReviews
<1>5. CallsFit'
      BY <1>1, <1>2, GrowthKeepsCalls
<1>6. QED
      BY <1>2, <1>3, <1>4, <1>5 DEF Inv, ChainInv, ReviewInv

\* A supplementary link is withdrawn; the chain is of primary ones.
LEMMA RevokeKeeps ==
    ASSUME Inv, NEW l \in Links, RevokeEvidenceLink(l)
    PROVE  Inv'
<1>1. /\ TypeOf(l) = "supplementary"
      /\ linkStatus' = [linkStatus EXCEPT ![l] = "revoked"]
      /\ UNCHANGED <<segVars, replaces, shown, pubVars, taskVars, doing>>
      BY DEF RevokeEvidenceLink
<1> USE DEF segVars, pubVars, taskVars
<1>2. \A k \in Links : linkStatus'[k] = IF k = l THEN "revoked" ELSE linkStatus[k]
      BY <1>1 DEF Inv, TypeOK
<1>3. \A k \in Primary : k \in Links /\ k # l
      BY <1>1 DEF Primary
<1>4. TypeOK'
  <2>1. linkStatus' \in [Links -> LinkStatuses]
        BY <1>1 DEF Inv, TypeOK, LinkStatuses
  <2>2. QED
        BY <1>1, <2>1 DEF Inv, TypeOK
<1>5. \A k \in Primary : linkStatus'[k] = linkStatus[k] /\ replaces'[k] = replaces[k]
      BY <1>1, <1>2, <1>3
<1>6. PrimaryEvidenceIsAChain' /\ LinksFit'
      BY <1>5 DEF Inv, PrimaryEvidenceIsAChain, LinksFit
<1>7. ReviewInv'
      BY <1>1, SameReviews
<1>8. CallsFit'
      BY <1>1, <1>2, GrowthKeepsCalls
<1>9. QED
      BY <1>4, <1>6, <1>7, <1>8 DEF Inv, ReviewInv

\* A correction retires a link it read active, which may have gone since.
LEMMA CorrectKeeps ==
    ASSUME Inv, NEW c \in Clerks, CorrectPublishedResult(c)
    PROVE  Inv'
<1>1. PICK d \in Call : d = doing[c] /\ d.op = "correct"
      BY DEF CorrectPublishedResult, Inv, TypeOK, Idle
<1>2. d.on \in Requests /\ d.link \in Links /\ d.by \in Segments
      BY <1>1 DEF Call
<1>3. PICK next : next = Successor(d.link, d.by)
      OBVIOUS
<1>4. /\ Retire(d.link, d.by) /\ cites' = [cites EXCEPT ![d.on] = next]
      /\ shown' = shown \cup {next}
      /\ Return(c) /\ UNCHANGED <<segVars, published, taskVars>>
      BY <1>1, <1>3 DEF CorrectPublishedResult
<1> USE DEF segVars, taskVars
<1>5. linkStatus[d.link] # "none" /\ version[d.by] = 2 /\ <<d.by, 2>> \in judged
      BY <1>1 DEF Inv, CallsFit
<1>6. /\ ChainInv'
      /\ linkStatus' \in [Links -> LinkStatuses]
      /\ replaces' \in [Links -> Links \cup {Null}]
      /\ \A k \in Links : linkStatus[k] # "none" => linkStatus'[k] # "none"
      BY <1>2, <1>4, <1>5, RetireKeepsChain
<1>7. next \in Links /\ SegmentOf(next) = d.by
      BY <1>2, <1>3, SuccessorParts
<1>8. /\ doing' \in [Clerks -> {Idle} \cup Call]
      /\ \A e \in Clerks : doing'[e] = doing[e] \/ doing'[e] = Idle
      BY <1>4, ReturnFrees
<1>9. TypeOK'
  <2>1. cites' \in [Requests -> Links \cup {Null}] /\ shown' \subseteq Links
        BY <1>2, <1>4, <1>7 DEF Inv, TypeOK
  <2>2. QED
        BY <1>4, <1>6, <1>8, <2>1 DEF Inv, TypeOK
<1>10. PublishedImageWasReviewed'
  <2>1. \A r \in Requests : cites'[r] = IF r = d.on THEN next ELSE cites[r]
        BY <1>4 DEF Inv, TypeOK
  <2>2. version' = version /\ judged' = judged
        BY <1>4
  <2>3. QED
        BY <1>5, <1>7, <2>1, <2>2 DEF Inv, PublishedImageWasReviewed
<1>11. ReviewsFit'
       BY <1>4 DEF Inv, ReviewsFit
<1>12. CallsFit'
       BY <1>4, <1>6, <1>8, GrowthKeepsCalls
<1>13. QED
       BY <1>6, <1>9, <1>10, <1>11, <1>12 DEF Inv, ChainInv

-----------------------------------------------------------------------------
\* A segment appears, with its review if it is a crop.
LEMMA CreateSegmentKeeps ==
    ASSUME Inv, NEW c \in Clerks, CreateSegment(c)
    PROVE  Inv'
<1>1. PICK s : s = doing[c].on
      OBVIOUS
<1>2. /\ segStatus[s] = "none" /\ s \in Segments
      /\ segStatus' = [segStatus EXCEPT ![s] = "created"]
      /\ version' = [version EXCEPT ![s] = 1]
      /\ \/ crops' = crops \cup {s} /\ task' = [task EXCEPT ![s].status = "open"]
         \/ UNCHANGED <<crops, task>>
      /\ Return(c) /\ UNCHANGED <<closed, linkVars, pubVars, judged>>
  <2>1. doing[c] \in Call /\ doing[c].op = "attach"
        BY DEF CreateSegment, Inv, TypeOK, Idle
  <2>2. s \in Segments
        BY <1>1, <2>1 DEF Call
  <2>3. QED
        BY <1>1, <2>2 DEF CreateSegment
<1> USE DEF linkVars, pubVars
<1>3. \A x \in Segments : /\ segStatus'[x] = (IF x = s THEN "created" ELSE segStatus[x])
                          /\ version'[x] = (IF x = s THEN 1 ELSE version[x])
      BY <1>2 DEF Inv, TypeOK
<1>4. version[s] = 0
      BY <1>2 DEF Inv, ReviewsFit
<1>5. /\ task' \in [Segments -> Tasks]
      /\ \A x \in Segments : task'[x] = task[x] \/ task'[x].status = "open"
  <2>1. CASE task' = task
        BY <2>1 DEF Inv, TypeOK
  <2>2. CASE task' = [task EXCEPT ![s].status = "open"]
        BY <1>2, <2>2 DEF Inv, TypeOK, Tasks, TaskStatuses
  <2>3. QED
        BY <1>2, <2>1, <2>2
<1>6. /\ doing' \in [Clerks -> {Idle} \cup Call]
      /\ \A e \in Clerks : doing'[e] = doing[e] \/ doing'[e] = Idle
      BY <1>2, ReturnFrees
<1>7. TypeOK'
  <2>1. segStatus' \in [Segments -> SegmentStatuses] /\ version' \in [Segments -> 0 .. 2]
        BY <1>2 DEF Inv, TypeOK, SegmentStatuses
  <2>2. crops' \subseteq Segments
        BY <1>2 DEF Inv, TypeOK
  <2>3. QED
        BY <1>2, <1>5, <1>6, <2>1, <2>2 DEF Inv, TypeOK
<1>8. ChainInv'
      BY <1>2, SameLinks
<1>9. PublishedImageWasReviewed'
  <2>1. ASSUME NEW r \in Requests, cites'[r] # Null
        PROVE  /\ version'[SegmentOf(cites'[r])] = 2
               /\ <<SegmentOf(cites'[r]), 2>> \in judged'
    <3>1. cites'[r] = cites[r] /\ judged' = judged /\ cites[r] \in Links
          BY <1>2, <2>1 DEF Inv, TypeOK
    <3>2. version[SegmentOf(cites[r])] = 2 /\ <<SegmentOf(cites[r]), 2>> \in judged
          BY <2>1, <3>1 DEF Inv, PublishedImageWasReviewed
    <3>3. SegmentOf(cites[r]) \in Segments /\ SegmentOf(cites[r]) # s
          BY <1>4, <3>1, <3>2, LinkParts
    <3>4. QED
          BY <1>3, <3>1, <3>2, <3>3
  <2>2. QED
        BY <2>1 DEF PublishedImageWasReviewed
<1>10. ReviewsFit'
       BY <1>2, <1>3, <1>5 DEF Inv, ReviewsFit
<1>11. CallsFit'
  <2>1. \A x \in Segments : /\ version[x] = 2 => version'[x] = 2
                            /\ segStatus[x] # "none" => segStatus'[x] # "none"
        BY <1>3, <1>4
  <2>2. QED
        BY <1>2, <1>6, <2>1, GrowthKeepsCalls
<1>12. QED
       BY <1>7, <1>8, <1>9, <1>10, <1>11 DEF Inv, ChainInv

\* A bundle closes.
LEMMA CloseKeeps ==
    ASSUME Inv, NEW c \in Clerks, CloseBundle(c)
    PROVE  Inv'
<1>1. doing[c] \in Call /\ doing[c].op = "close"
      BY DEF CloseBundle, Inv, TypeOK, Idle
<1>2. doing[c].on \in Bundles
      BY <1>1 DEF Call
<1>3. /\ closed' = closed \cup {doing[c].on} /\ Return(c)
      /\ UNCHANGED <<segStatus, version, crops, linkVars, pubVars, taskVars>>
      BY DEF CloseBundle
<1> USE DEF linkVars, pubVars, taskVars
<1>4. /\ doing' \in [Clerks -> {Idle} \cup Call]
      /\ \A e \in Clerks : doing'[e] = doing[e] \/ doing'[e] = Idle
      BY <1>3, ReturnFrees
<1>5. TypeOK'
      BY <1>2, <1>3, <1>4 DEF Inv, TypeOK
<1>6. ChainInv' /\ ReviewInv'
      BY <1>3, SameLinks, SameReviews
<1>7. CallsFit'
      BY <1>3, <1>4, GrowthKeepsCalls
<1>8. QED
      BY <1>5, <1>6, <1>7 DEF Inv, ChainInv, ReviewInv

\* A crop is rendered once, from version 1 to version 2.
LEMMA RenderKeeps ==
    ASSUME Inv, NEW c \in Clerks, RenderPendingCrop(c)
    PROVE  Inv'
<1>1. PICK s : s = doing[c].on
      OBVIOUS
<1>2. /\ doing[c] \in Call /\ doing[c].op = "render"
      /\ doing[c].was = 1 /\ segStatus[s] # "none"
  <2>1. doing[c] \in Call /\ doing[c].op = "render"
        BY DEF RenderPendingCrop, Inv, TypeOK, Idle
  <2>2. QED
        BY <1>1, <2>1 DEF Inv, CallsFit
<1>3. s \in Segments
      BY <1>1, <1>2 DEF Call
<1>4. /\ version' = [version EXCEPT ![s] = 2] /\ Return(c)
      /\ UNCHANGED <<closed, segStatus, crops, linkVars, pubVars, taskVars>>
      BY <1>1, <1>2 DEF RenderPendingCrop
<1> USE DEF linkVars, pubVars, taskVars
<1>5. \A x \in Segments : version'[x] = IF x = s THEN 2 ELSE version[x]
      BY <1>4 DEF Inv, TypeOK
<1>6. /\ doing' \in [Clerks -> {Idle} \cup Call]
      /\ \A e \in Clerks : doing'[e] = doing[e] \/ doing'[e] = Idle
      BY <1>4, ReturnFrees
<1>7. TypeOK'
  <2>1. version' \in [Segments -> 0 .. 2]
        BY <1>3, <1>4 DEF Inv, TypeOK
  <2>2. QED
        BY <1>4, <1>6, <2>1 DEF Inv, TypeOK
<1>8. ChainInv'
      BY <1>4, SameLinks
<1>9. \A x \in Segments : version[x] = 2 => version'[x] = 2
      BY <1>5
<1>10. PublishedImageWasReviewed'
  <2>1. ASSUME NEW r \in Requests, cites'[r] # Null
        PROVE  /\ version'[SegmentOf(cites'[r])] = 2
               /\ <<SegmentOf(cites'[r]), 2>> \in judged'
    <3>1. cites'[r] = cites[r] /\ judged' = judged /\ cites[r] \in Links
          BY <1>4, <2>1 DEF Inv, TypeOK
    <3>2. version[SegmentOf(cites[r])] = 2 /\ <<SegmentOf(cites[r]), 2>> \in judged
          BY <2>1, <3>1 DEF Inv, PublishedImageWasReviewed
    <3>3. SegmentOf(cites[r]) \in Segments
          BY <3>1, LinkParts
    <3>4. QED
          BY <1>9, <3>1, <3>2, <3>3
  <2>2. QED
        BY <2>1 DEF PublishedImageWasReviewed
<1>11. ReviewsFit'
      BY <1>2, <1>4, <1>5 DEF Inv, ReviewsFit
<1>12. CallsFit'
       BY <1>4, <1>6, <1>9, GrowthKeepsCalls
<1>13. QED
       BY <1>7, <1>8, <1>10, <1>11, <1>12 DEF Inv, ChainInv

\* A candidate moves its segment on, if that was only created when it was read.
LEMMA ProposeKeeps ==
    ASSUME Inv, NEW c \in Clerks, ProposeCandidate(c)
    PROVE  Inv'
<1>1. PICK s : s = doing[c].on
      OBVIOUS
<1>2. doing[c] \in Call /\ doing[c].op = "propose"
      BY DEF ProposeCandidate, Inv, TypeOK, Idle
<1>3. /\ s \in Segments /\ Return(c)
      /\ segStatus' = [segStatus EXCEPT ![s] = "candidate_found"] \/ segStatus' = segStatus
      /\ UNCHANGED <<closed, version, crops, linkVars, pubVars, taskVars>>
      BY <1>1, <1>2 DEF Call, ProposeCandidate
<1> USE DEF linkVars, pubVars, taskVars
<1>4. /\ doing' \in [Clerks -> {Idle} \cup Call]
      /\ \A e \in Clerks : doing'[e] = doing[e] \/ doing'[e] = Idle
      BY <1>3, ReturnFrees
<1>5. /\ segStatus' \in [Segments -> SegmentStatuses]
      /\ \A x \in Segments : /\ segStatus[x] # "none" => segStatus'[x] # "none"
                             /\ segStatus'[x] = "none" => segStatus[x] = "none"
      BY <1>3 DEF Inv, TypeOK, SegmentStatuses
<1>6. TypeOK'
      BY <1>3, <1>4, <1>5 DEF Inv, TypeOK
<1>7. ChainInv'
      BY <1>3, SameLinks
<1>8. PublishedImageWasReviewed' /\ ReviewsFit'
      BY <1>3, <1>5 DEF Inv, PublishedImageWasReviewed, ReviewsFit
<1>9. CallsFit'
      BY <1>3, <1>4, <1>5, GrowthKeepsCalls
<1>10. QED
       BY <1>6, <1>7, <1>8, <1>9 DEF Inv, ChainInv

\* A review is started or cancelled: never one that is resolved.
LEMMA ReviewMovesKeep ==
    ASSUME Inv, NEW c \in Clerks, StartTask(c) \/ CancelTask(c)
    PROVE  Inv'
<1>1. PICK s : s = doing[c].on
      OBVIOUS
<1>2. doing[c] \in Call /\ doing[c].op \in {"start", "cancel"}
      BY DEF StartTask, CancelTask, Inv, TypeOK, Idle
<1>3. PICK new \in {"in_progress", "cancelled"} :
        /\ task' = [task EXCEPT ![s].status = new]
        /\ Return(c) /\ UNCHANGED <<segVars, linkVars, pubVars, judged>>
      BY <1>1 DEF StartTask, CancelTask
<1>4. s \in Segments
      BY <1>1, <1>2 DEF Call
<1> USE DEF segVars, linkVars, pubVars
<1>5. /\ doing' \in [Clerks -> {Idle} \cup Call]
      /\ \A e \in Clerks : doing'[e] = doing[e] \/ doing'[e] = Idle
      BY <1>3, ReturnFrees
<1>6. /\ task' \in [Segments -> Tasks]
      /\ \A x \in Segments : task'[x] = task[x] \/ task'[x].status # "resolved"
      BY <1>3, <1>4 DEF Inv, TypeOK, Tasks, TaskStatuses
<1>7. TypeOK'
      BY <1>3, <1>5, <1>6 DEF Inv, TypeOK
<1>8. ChainInv'
      BY <1>3, SameLinks
<1>9. PublishedImageWasReviewed' /\ ReviewsFit'
      BY <1>3, <1>6 DEF Inv, PublishedImageWasReviewed, ReviewsFit
<1>10. CallsFit'
       BY <1>3, <1>5, GrowthKeepsCalls
<1>11. QED
       BY <1>7, <1>8, <1>9, <1>10 DEF Inv, ChainInv

\* A review is resolved, about the version that was read.
LEMMA ResolveKeeps ==
    ASSUME Inv, NEW c \in Clerks, NEW passed \in BOOLEAN, ResolveTask(c, passed)
    PROVE  Inv'
<1>1. PICK s, saw : s = doing[c].on /\ saw = doing[c].saw
      OBVIOUS
<1>2. doing[c] \in Call /\ doing[c].op = "resolve"
      BY DEF ResolveTask, Inv, TypeOK, Idle
<1>3. s \in Segments /\ saw \in Nat
      BY <1>1, <1>2 DEF Call
<1> DEFINE new == [status |-> "resolved", passed |-> passed, reviewed |-> saw]
<1>4. /\ task' = [task EXCEPT ![s] = new]
      /\ judged' = (IF passed THEN judged \cup {<<s, saw>>} ELSE judged)
      /\ Return(c) /\ UNCHANGED <<segVars, linkVars, pubVars>>
      BY <1>1 DEF ResolveTask
<1> USE DEF segVars, linkVars, pubVars
<1>5. /\ doing' \in [Clerks -> {Idle} \cup Call]
      /\ \A e \in Clerks : doing'[e] = doing[e] \/ doing'[e] = Idle
      BY <1>4, ReturnFrees
<1>6. /\ task' \in [Segments -> Tasks]
      /\ \A x \in Segments : task'[x] = IF x = s THEN new ELSE task[x]
      BY <1>3, <1>4 DEF Inv, TypeOK, Tasks, TaskStatuses
<1>7. /\ judged \subseteq judged' /\ judged' \subseteq Segments \X Nat
      /\ passed => <<s, saw>> \in judged'
      BY <1>3, <1>4 DEF Inv, TypeOK
<1>8. TypeOK'
      BY <1>4, <1>5, <1>6, <1>7 DEF Inv, TypeOK
<1>9. ChainInv'
      BY <1>4, SameLinks
<1>10. PublishedImageWasReviewed' /\ ReviewsFit'
       BY <1>4, <1>6, <1>7 DEF Inv, PublishedImageWasReviewed, ReviewsFit
<1>11. CallsFit'
       BY <1>4, <1>5, <1>7, GrowthKeepsCalls
<1>12. QED
       BY <1>8, <1>9, <1>10, <1>11 DEF Inv, ChainInv

\* A publication cites the image whose review it read.
LEMMA PublishKeeps ==
    ASSUME Inv, NEW c \in Clerks, PublishResult(c)
    PROVE  Inv'
<1>1. PICK r, l, held : r = doing[c].on /\ l = doing[c].link /\ held = doing[c].held
      OBVIOUS
<1>2. doing[c] \in Call /\ doing[c].op = "publish"
      BY DEF PublishResult, Inv, TypeOK, Idle
<1>3. r \in Requests /\ l \in Links \cup {Null}
      BY <1>1, <1>2 DEF Call
<1>4. IF l = Null THEN ~held
      ELSE version[SegmentOf(l)] = 2 /\ <<SegmentOf(l), 2>> \in judged
      BY <1>1, <1>2 DEF Inv, CallsFit
<1>5. /\ published' = published \cup {r} /\ cites' = [cites EXCEPT ![r] = l]
      /\ shown' = (IF l = Null THEN shown ELSE shown \cup {l})
      /\ segStatus' = (IF held THEN [segStatus EXCEPT ![SegmentOf(l)] = "published"]
                       ELSE segStatus)
      /\ Return(c)
      /\ UNCHANGED <<closed, version, crops, linkStatus, replaces, taskVars>>
      BY <1>1 DEF PublishResult
<1> USE DEF taskVars
<1>6. l # Null => l \in Links /\ SegmentOf(l) \in Segments
      BY <1>3, LinkParts
<1>7. /\ doing' \in [Clerks -> {Idle} \cup Call]
      /\ \A e \in Clerks : doing'[e] = doing[e] \/ doing'[e] = Idle
      BY <1>5, ReturnFrees
<1>8. /\ segStatus' \in [Segments -> SegmentStatuses]
      /\ \A x \in Segments : /\ segStatus[x] # "none" => segStatus'[x] # "none"
                             /\ segStatus'[x] = "none" => segStatus[x] = "none"
  <2>1. CASE held
        BY <1>4, <1>5, <1>6, <2>1 DEF Inv, TypeOK, SegmentStatuses
  <2>2. CASE ~held
        BY <1>5, <2>2 DEF Inv, TypeOK
  <2>3. QED
        BY <2>1, <2>2
<1>9. TypeOK'
  <2>1. /\ cites' \in [Requests -> Links \cup {Null}] /\ published' \subseteq Requests
        /\ shown' \subseteq Links
        BY <1>3, <1>5 DEF Inv, TypeOK
  <2>2. QED
        BY <1>5, <1>7, <1>8, <2>1 DEF Inv, TypeOK
<1>10. ChainInv'
       BY <1>5, SameLinks
<1>11. PublishedImageWasReviewed'
  <2>1. \A q \in Requests : cites'[q] = IF q = r THEN l ELSE cites[q]
        BY <1>5 DEF Inv, TypeOK
  <2>2. version' = version /\ judged' = judged
        BY <1>5
  <2>3. QED
        BY <1>4, <2>1, <2>2 DEF Inv, PublishedImageWasReviewed
<1>12. ReviewsFit'
       BY <1>5, <1>8 DEF Inv, ReviewsFit
<1>13. CallsFit'
       BY <1>5, <1>7, <1>8, GrowthKeepsCalls
<1>14. QED
       BY <1>9, <1>10, <1>11, <1>12, <1>13 DEF Inv, ChainInv

\* A transaction that gives up changes nothing.
LEMMA AbandonKeeps ==
    ASSUME Inv, NEW c \in Clerks, Abandon(c)
    PROVE  Inv'
<1>1. Return(c) /\ UNCHANGED <<segVars, linkVars, pubVars, taskVars>>
      BY DEF Abandon
<1> USE DEF segVars, linkVars, pubVars, taskVars
<1>2. /\ doing' \in [Clerks -> {Idle} \cup Call]
      /\ \A e \in Clerks : doing'[e] = doing[e] \/ doing'[e] = Idle
      BY <1>1, ReturnFrees
<1>3. TypeOK'
      BY <1>1, <1>2 DEF Inv, TypeOK
<1>4. ChainInv' /\ ReviewInv'
      BY <1>1, SameLinks, SameReviews
<1>5. CallsFit'
      BY <1>1, <1>2, GrowthKeepsCalls
<1>6. QED
      BY <1>3, <1>4, <1>5 DEF Inv, ChainInv, ReviewInv

-----------------------------------------------------------------------------
\* Every transaction's reads keep the invariant.
LEMMA HandlingKeeps ==
    ASSUME Inv, NEW c \in Clerks, Handling(c)
    PROVE  Inv'
<1>1. PICK s \in Segments :
        \/ \E crop \in BOOLEAN : AttachReads(c, s, crop)
        \/ RenderReads(c, s)
        \/ ProposeReads(c, s)
        \/ \E op \in {"start", "resolve", "cancel"} : ReviewReads(c, s, op)
      BY DEF Handling
<1>2. version[s] \in Nat
      BY DEF Inv, TypeOK
<1>3. ASSUME NEW crop \in BOOLEAN, AttachReads(c, s, crop)
      PROVE  Inv'
  <2> DEFINE d == [op |-> "attach", on |-> s, crop |-> crop]
  <2>1. Begin(c, d) /\ d \in Call
        BY <1>3 DEF AttachReads, Call
  <2>2. QED
        BY <2>1, BeginKeeps
<1>4. CASE RenderReads(c, s)
  <2>1. PICK d : d = [op |-> "render", on |-> s, was |-> version[s]]
        OBVIOUS
  <2>2. Begin(c, d) /\ d \in Call /\ version[s] = 1
        BY <1>2, <1>4, <2>1 DEF RenderReads, Call
  <2>3. d.op = "render" /\ d.was = 1 /\ d.on = s
        BY <2>1, <2>2
  <2>4. segStatus[s] # "none"
    <3>1. segStatus[s] = "none" => version[s] = 0
          BY DEF Inv, ReviewsFit
    <3>2. QED
          BY <2>2, <3>1
  <2>5. QED
        BY <2>2, <2>3, <2>4, BeginKeeps
<1>5. CASE ProposeReads(c, s)
  <2> DEFINE d == [op |-> "propose", on |-> s, gains |-> segStatus[s] \in GainsACandidate]
  <2>1. Begin(c, d) /\ d \in Call
        BY <1>5 DEF ProposeReads, Call
  <2>2. QED
        BY <2>1, BeginKeeps
<1>6. ASSUME NEW op \in {"start", "resolve", "cancel"}, ReviewReads(c, s, op)
      PROVE  Inv'
  <2> DEFINE d == [op |-> op, on |-> s, saw |-> version[s]]
  <2>1. Begin(c, d) /\ d \in Call
        BY <1>2, <1>6 DEF ReviewReads, Call
  <2>2. QED
        BY <2>1, BeginKeeps
<1>7. QED
      BY <1>1, <1>3, <1>4, <1>5, <1>6

LEMMA PublishingKeeps ==
    ASSUME Inv, NEW c \in Clerks, Publishing(c)
    PROVE  Inv'
<1>1. \A s \in Segments : PrivacyVerified(s) /\ version[s] = 2 => <<s, 2>> \in judged
      BY DEF Inv, ReviewsFit, PrivacyVerified
<1>2. ASSUME NEW b \in Bundles, CloseReads(c, b)
      PROVE  Inv'
  <2> DEFINE d == [op |-> "close", on |-> b]
  <2>1. Begin(c, d) /\ d \in Call
        BY <1>2 DEF CloseReads, Call
  <2>2. QED
        BY <2>1, BeginKeeps
<1>3. ASSUME NEW r \in Requests, NEW l \in Links \cup {Null}, PublishReads(c, r, l)
      PROVE  Inv'
  <2>1. PICK held : held = IF l = Null THEN FALSE
                           ELSE segStatus[SegmentOf(l)] = "confirmed_linked"
        OBVIOUS
  <2> DEFINE d == [op |-> "publish", on |-> r, link |-> l, held |-> held]
  <2>2. Begin(c, d) /\ d \in Call /\ (l = Null => ~held)
        BY <1>3, <2>1 DEF PublishReads, Call
  <2>3. l # Null => /\ linkStatus[l] # "none" /\ LinkRequest(l) = r
                    /\ version[SegmentOf(l)] = 2 /\ <<SegmentOf(l), 2>> \in judged
        BY <1>1, <1>3, LinkParts DEF PublishReads, Citable
  <2>4. QED
        BY <2>2, <2>3, BeginKeeps
<1>4. ASSUME NEW r \in Requests, NEW l \in Links, NEW s \in Segments, CorrectReads(c, r, l, s)
      PROVE  Inv'
  <2> DEFINE d == [op |-> "correct", on |-> r, link |-> l, by |-> s]
  <2>1. Begin(c, d) /\ d \in Call
        BY <1>4 DEF CorrectReads, Call
  <2>2. /\ linkStatus[l] # "none" /\ LinkRequest(l) = r /\ r \in published
        /\ version[s] = 2 /\ <<s, 2>> \in judged
        BY <1>1, <1>4 DEF CorrectReads
  <2>3. QED
        BY <2>1, <2>2, BeginKeeps
<1>5. QED
      BY <1>2, <1>3, <1>4 DEF Publishing

\* Every step keeps the invariant.
LEMMA NextKeeps == Inv /\ [Next]_vars => Inv'
<1> SUFFICES ASSUME Inv, [Next]_vars PROVE Inv'
    OBVIOUS
<1>1. Operators \subseteq Clerks /\ Publishers \subseteq Clerks
      BY DEF Clerks
<1>2. ASSUME NEW c \in Clerks,
             \/ CreateSegment(c) \/ CloseBundle(c) \/ RenderPendingCrop(c)
             \/ ProposeCandidate(c) \/ StartTask(c)
             \/ (\E passed \in BOOLEAN : ResolveTask(c, passed)) \/ CancelTask(c)
             \/ PublishResult(c) \/ CorrectPublishedResult(c) \/ Abandon(c)
      PROVE  Inv'
      BY <1>2, CreateSegmentKeeps, CloseKeeps, RenderKeeps, ProposeKeeps, ReviewMovesKeep,
         ResolveKeeps, PublishKeeps, CorrectKeeps, AbandonKeeps
<1>3. ASSUME NEW l \in Links,
             \/ ConfirmEvidenceLink(l) \/ RevokeEvidenceLink(l)
             \/ (\E s \in Segments : ReplaceEvidenceLink(l, s))
      PROVE  Inv'
      BY <1>3, ConfirmKeeps, RevokeKeeps, ReplaceKeeps
<1>4. CASE UNCHANGED vars
  <2> USE <1>4 DEF vars, segVars, linkVars, pubVars, taskVars
  <2>1. TypeOK'
        BY DEF Inv, TypeOK
  <2>2. ChainInv' /\ ReviewInv'
        BY SameLinks, SameReviews
  <2>3. CallsFit'
        BY DEF Inv, CallsFit
  <2>4. QED
        BY <2>1, <2>2, <2>3 DEF Inv, ChainInv, ReviewInv
<1>5. QED
      BY <1>1, <1>2, <1>3, <1>4, HandlingKeeps, PublishingKeeps DEF Next

\* The invariant of Evidence holds in every behaviour.
THEOREM Invariant == Spec => []Inv
  BY InitInv, NextKeeps, PTL DEF Spec

\* Rows have their types.
THEOREM TypeCorrect == Spec => []TypeOK
<1>1. Inv => TypeOK
      BY DEF Inv
<1>2. QED
      BY <1>1, Invariant, PTL

\* An attempt that has had primary evidence has exactly one active primary link, and
\* each retired one exactly one successor.
THEOREM EvidenceIsAChain == Spec => []PrimaryEvidenceIsAChain
<1>1. Inv => PrimaryEvidenceIsAChain
      BY DEF Inv
<1>2. QED
      BY <1>1, Invariant, PTL

\* The image a publication cites is one a reviewer passed, as it now is.
THEOREM NothingUnreviewedIsShown == Spec => []PublishedImageWasReviewed
<1>1. Inv => PublishedImageWasReviewed
      BY DEF Inv
<1>2. QED
      BY <1>1, Invariant, PTL

-----------------------------------------------------------------------------
(* Refinement.  The abstract variables, as the rows give them. *)

EvPrimary == [a \in Attempts |-> PrimaryOf(a, "active")]
EvPast    == [a \in Attempts |-> PrimaryOf(a, "replaced")]
EvLinked  == {p \in Attempts \X Segments :
                \E t \in Types : linkStatus[<<p[1], p[2], t>>] # "none"}
EvCleared == {s \in Segments : version[s] = 2 /\ <<s, 2>> \in judged}
EvSeen    == [r \in Requests |-> IF cites[r] = Null THEN Null ELSE SegmentOf(cites[r])]

\* Attempts and segments make primary links, and primary links are made of them.
LEMMA PrimaryLinks ==
    /\ \A a \in Attempts, s \in Segments :
          /\ <<a, s, "primary">> \in Primary
          /\ AttemptOf(<<a, s, "primary">>) = a /\ SegmentOf(<<a, s, "primary">>) = s
    /\ \A l \in Primary : l = <<AttemptOf(l), SegmentOf(l), "primary">> /\ l \in Links
    /\ \A l \in Links : l = <<AttemptOf(l), SegmentOf(l), TypeOf(l)>>
  BY DEF Primary, Links, Types, AttemptOf, SegmentOf, TypeOf

\* A segment is among an attempt's when the link of the two is.
LEMMA PrimaryMembers ==
    ASSUME NEW a \in Attempts, NEW status
    PROVE  \A s \in Segments :
              /\ s \in PrimaryOf(a, status) <=> linkStatus[<<a, s, "primary">>] = status
              /\ s \in PrimaryOf(a, status)' <=> linkStatus'[<<a, s, "primary">>] = status
  BY DEF PrimaryOf

\* Where no link moves, the evidence is the same.
LEMMA SameEvidence ==
    ASSUME linkStatus' = linkStatus
    PROVE  EvPrimary' = EvPrimary /\ EvPast' = EvPast /\ EvLinked' = EvLinked
  BY DEF EvPrimary, EvPast, EvLinked, PrimaryOf

\* A link that is entered links its attempt and its segment, and nothing else.
LEMMA EnteredIsLinked ==
    ASSUME NEW l \in Links,
           \A k \in Links : linkStatus'[k] # "none" <=> linkStatus[k] # "none" \/ k = l
    PROVE  EvLinked' = EvLinked \cup {<<AttemptOf(l), SegmentOf(l)>>}
<1>1. AttemptOf(l) \in Attempts /\ SegmentOf(l) \in Segments /\ TypeOf(l) \in Types
      BY LinkParts
<1>2. ASSUME NEW a \in Attempts, NEW s \in Segments
      PROVE  (\E t \in Types : linkStatus'[<<a, s, t>>] # "none")
               <=> \/ \E t \in Types : linkStatus[<<a, s, t>>] # "none"
                   \/ a = AttemptOf(l) /\ s = SegmentOf(l)
  <2>1. \A t \in Types : /\ <<a, s, t>> \in Links
                         /\ <<a, s, t>> = l => a = AttemptOf(l) /\ s = SegmentOf(l)
        BY DEF Links, AttemptOf, SegmentOf
  <2>2. a = AttemptOf(l) /\ s = SegmentOf(l) => <<a, s, TypeOf(l)>> = l
        BY PrimaryLinks
  <2>3. QED
        BY <1>1, <2>1, <2>2
<1>3. ASSUME NEW p \in Attempts \X Segments
      PROVE  p \in EvLinked' <=> p \in EvLinked \/ p = <<AttemptOf(l), SegmentOf(l)>>
  <2>1. /\ p[1] \in Attempts /\ p[2] \in Segments
        /\ p = <<AttemptOf(l), SegmentOf(l)>> <=> p[1] = AttemptOf(l) /\ p[2] = SegmentOf(l)
        OBVIOUS
  <2>2. /\ p \in EvLinked' <=> \E t \in Types : linkStatus'[<<p[1], p[2], t>>] # "none"
        /\ p \in EvLinked <=> \E t \in Types : linkStatus[<<p[1], p[2], t>>] # "none"
        BY DEF EvLinked
  <2>3. QED
        BY <1>2, <2>1, <2>2
<1>4. /\ EvLinked \subseteq Attempts \X Segments /\ EvLinked' \subseteq Attempts \X Segments
      /\ <<AttemptOf(l), SegmentOf(l)>> \in Attempts \X Segments
      BY <1>1 DEF EvLinked
<1>5. QED
      BY <1>3, <1>4

\* Where no primary link moves, attempts keep the evidence they have and had.
LEMMA SamePrimary ==
    ASSUME \A k \in Primary : linkStatus'[k] = linkStatus[k]
    PROVE  EvPrimary' = EvPrimary /\ EvPast' = EvPast
<1>1. ASSUME NEW a \in Attempts, NEW status
      PROVE  PrimaryOf(a, status)' = PrimaryOf(a, status)
      BY PrimaryLinks DEF PrimaryOf
<1>2. QED
      BY <1>1 DEF EvPrimary, EvPast

\* A confirmation gives an attempt its first evidence, or links some more.
LEMMA ConfirmGives ==
    ASSUME Inv, NEW l \in Links, ConfirmEvidenceLink(l)
    PROVE  Custody!Link(AttemptOf(l), SegmentOf(l)) \/ Custody!Give(AttemptOf(l), SegmentOf(l))
<1> DEFINE a == AttemptOf(l)
           s == SegmentOf(l)
<1>1. a \in Attempts /\ s \in Segments
      BY LinkParts
<1>2. /\ Insertable(l, linkStatus) /\ linkStatus[l] = "none"
      /\ linkStatus' = [linkStatus EXCEPT ![l] = "active"]
      BY DEF ConfirmEvidenceLink, Insertable
<1>3. \A k \in Links : linkStatus'[k] = IF k = l THEN "active" ELSE linkStatus[k]
      BY <1>2 DEF Inv, TypeOK
<1>4. EvLinked' = EvLinked \cup {<<a, s>>}
      BY <1>3, EnteredIsLinked
<1>5. CASE l \notin Primary
  <2>1. EvPrimary' = EvPrimary /\ EvPast' = EvPast
        BY <1>3, <1>5, PrimaryLinks, SamePrimary
  <2>2. QED
        BY <1>4, <2>1 DEF Custody!Link, EvPrimary, EvPast, EvLinked
<1>6. CASE l \in Primary
  <2>1. l = <<a, s, "primary">>
        BY <1>6, PrimaryLinks
  <2>2. \A k \in Primary : linkStatus[k] = "active" => AttemptOf(k) # a /\ SegmentOf(k) # s
        BY <1>2, <1>6 DEF Insertable
  <2>3. \A k \in Primary : AttemptOf(k) = a => linkStatus[k] = "none"
    <3>1. SUFFICES ASSUME NEW m \in Primary, AttemptOf(m) = a, linkStatus[m] # "none"
                   PROVE  FALSE
          OBVIOUS
    <3>2. PICK k \in Primary : SameAttempt(k, m) /\ linkStatus[k] = "active"
          BY <3>1 DEF Inv, PrimaryEvidenceIsAChain
    <3>3. QED
          BY <2>2, <3>1, <3>2 DEF SameAttempt
  <2>4. PrimaryOf(a, "active") = {} /\ PrimaryOf(a, "replaced") = {}
        BY <1>1, <2>3, PrimaryLinks DEF PrimaryOf
  <2>5. \A b \in Attempts : s \notin PrimaryOf(b, "active")
        BY <1>1, <2>2, PrimaryLinks, PrimaryMembers
  <2>6. \A b \in Attempts : /\ PrimaryOf(b, "replaced")' = PrimaryOf(b, "replaced")
                            /\ PrimaryOf(b, "active")' = IF b = a THEN {s}
                                                         ELSE PrimaryOf(b, "active")
    <3>1. ASSUME NEW b \in Attempts, NEW x \in Segments
          PROVE  /\ x \in PrimaryOf(b, "replaced")' <=> x \in PrimaryOf(b, "replaced")
                 /\ x \in PrimaryOf(b, "active")' <=>
                      IF b = a THEN x = s ELSE x \in PrimaryOf(b, "active")
      <4>1. <<b, x, "primary">> \in Links /\ (<<b, x, "primary">> = l <=> b = a /\ x = s)
            BY <2>1, PrimaryLinks
      <4>2. /\ x \in PrimaryOf(b, "replaced")' <=> linkStatus'[<<b, x, "primary">>] = "replaced"
            /\ x \in PrimaryOf(b, "replaced") <=> linkStatus[<<b, x, "primary">>] = "replaced"
            /\ x \in PrimaryOf(b, "active")' <=> linkStatus'[<<b, x, "primary">>] = "active"
            /\ x \in PrimaryOf(b, "active") <=> linkStatus[<<b, x, "primary">>] = "active"
            BY PrimaryMembers
      <4>3. b = a => x \notin PrimaryOf(b, "active")
            BY <2>4
      <4>4. QED
            BY <1>2, <1>3, <4>1, <4>2, <4>3
    <3>2. \A b \in Attempts : \A status :
             PrimaryOf(b, status) \subseteq Segments /\ PrimaryOf(b, status)' \subseteq Segments
          BY DEF PrimaryOf
    <3>3. QED
          BY <1>1, <3>1, <3>2
  <2>7. EvPast' = EvPast /\ EvPrimary' = [EvPrimary EXCEPT ![a] = {s}]
        BY <2>6 DEF EvPrimary, EvPast
  <2>8. QED
        BY <1>1, <1>4, <2>4, <2>5, <2>7
        DEF Custody!Give, Custody!Unused, EvPrimary, EvPast, EvLinked
<1>7. QED
      BY <1>5, <1>6

\* A replacement or a correction puts evidence in the place of other evidence.
LEMMA RetireExchanges ==
    ASSUME Inv, NEW l \in Links, NEW s \in Segments, linkStatus[l] # "none", Retire(l, s)
    PROVE  Custody!Link(AttemptOf(l), s) \/ Custody!Exchange(AttemptOf(l), s)
<1> DEFINE a    == AttemptOf(l)
           old  == SegmentOf(l)
           next == Successor(l, s)
<1>1. a \in Attempts /\ old \in Segments
      BY LinkParts
<1>2. /\ next \in Links /\ AttemptOf(next) = a /\ TypeOf(next) = TypeOf(l)
      /\ SegmentOf(next) = s
      BY SuccessorParts
<1> HIDE DEF next
<1>3. \A k \in Links : linkStatus'[k] = IF k = next THEN "active"
                                        ELSE IF k = l THEN "replaced" ELSE linkStatus[k]
      BY <1>2 DEF Retire, Inv, TypeOK, next
<1>4. EvLinked' = EvLinked \cup {<<a, s>>}
      BY <1>2, <1>3, EnteredIsLinked
<1>5. CASE l \notin Primary
  <2>1. \A k \in Primary : k \in Links /\ k # l /\ k # next
        BY <1>2, <1>5 DEF Primary
  <2>2. EvPrimary' = EvPrimary /\ EvPast' = EvPast
        BY <1>3, <2>1, SamePrimary
  <2>3. QED
        BY <1>4, <2>2 DEF Custody!Link, EvPrimary, EvPast, EvLinked
<1>6. CASE l \in Primary
  <2>1. /\ linkStatus[l] = "active"
        /\ next \in Primary /\ linkStatus[next] = "none"
        /\ \A k \in Primary : k # l /\ linkStatus[k] = "active" =>
               AttemptOf(k) # a /\ SegmentOf(k) # s
        BY <1>6, TheActiveRetires DEF SameAttempt, next
  <2>2. l = <<a, old, "primary">> /\ next = <<a, s, "primary">> /\ old # s
        BY <1>2, <1>6, <2>1, PrimaryLinks
  <2>3. ASSUME NEW b \in Attempts, NEW x \in Segments
        PROVE  /\ x \in PrimaryOf(b, "replaced")' <=>
                    x \in PrimaryOf(b, "replaced") \/ (b = a /\ x = old)
               /\ x \in PrimaryOf(b, "active")' <=>
                    IF b = a THEN x = s ELSE x \in PrimaryOf(b, "active")
               /\ x \in PrimaryOf(a, "active") <=> x = old
               /\ s \notin PrimaryOf(b, "active")
    <3>1. /\ <<b, x, "primary">> \in Primary /\ <<b, x, "primary">> \in Links
          /\ AttemptOf(<<b, x, "primary">>) = b /\ SegmentOf(<<b, x, "primary">>) = x
          /\ <<b, x, "primary">> = l <=> b = a /\ x = old
          /\ <<b, x, "primary">> = next <=> b = a /\ x = s
          BY <2>2, PrimaryLinks
    <3>2. /\ x \in PrimaryOf(b, "replaced")' <=> linkStatus'[<<b, x, "primary">>] = "replaced"
          /\ x \in PrimaryOf(b, "replaced") <=> linkStatus[<<b, x, "primary">>] = "replaced"
          /\ x \in PrimaryOf(b, "active")' <=> linkStatus'[<<b, x, "primary">>] = "active"
          /\ x \in PrimaryOf(b, "active") <=> linkStatus[<<b, x, "primary">>] = "active"
          BY PrimaryMembers
    <3>3. x \in PrimaryOf(b, "replaced")' <=> x \in PrimaryOf(b, "replaced") \/ (b = a /\ x = old)
          BY <1>3, <2>1, <2>2, <3>1, <3>2
    <3>4. x \in PrimaryOf(b, "active")' <=> IF b = a THEN x = s ELSE x \in PrimaryOf(b, "active")
          BY <1>3, <2>1, <2>2, <3>1, <3>2
    <3>5. x \in PrimaryOf(a, "active") <=> x = old
      <4>1. /\ <<a, x, "primary">> \in Primary /\ AttemptOf(<<a, x, "primary">>) = a
            /\ SegmentOf(<<a, x, "primary">>) = x
            BY <1>1, PrimaryLinks
      <4>2. x \in PrimaryOf(a, "active") <=> linkStatus[<<a, x, "primary">>] = "active"
            BY <1>1, PrimaryMembers
      <4>3. QED
            BY <2>1, <2>2, <4>1, <4>2
    <3>6. s \notin PrimaryOf(b, "active")
      <4>1. /\ <<b, s, "primary">> \in Primary /\ SegmentOf(<<b, s, "primary">>) = s
            BY PrimaryLinks
      <4>2. s \in PrimaryOf(b, "active") <=> linkStatus[<<b, s, "primary">>] = "active"
            BY PrimaryMembers
      <4>3. QED
            BY <2>1, <2>2, <4>1, <4>2
    <3>7. QED
          BY <3>3, <3>4, <3>5, <3>6
  <2>4. s \notin PrimaryOf(a, "replaced")
        BY <1>1, <2>1, <2>2, PrimaryMembers
  <2>5. \A b \in Attempts : \A status :
           PrimaryOf(b, status) \subseteq Segments /\ PrimaryOf(b, status)' \subseteq Segments
        BY DEF PrimaryOf
  <2>6. PrimaryOf(a, "active") = {old}
        BY <1>1, <2>3, <2>5
  <2>7. \A b \in Attempts :
           /\ PrimaryOf(b, "replaced")' = IF b = a THEN PrimaryOf(b, "replaced") \cup {old}
                                          ELSE PrimaryOf(b, "replaced")
           /\ PrimaryOf(b, "active")' = IF b = a THEN {s} ELSE PrimaryOf(b, "active")
        BY <1>1, <2>3, <2>5
  <2>8. /\ EvPast' = [EvPast EXCEPT ![a] = @ \cup {old}]
        /\ EvPrimary' = [EvPrimary EXCEPT ![a] = {s}]
        BY <2>7 DEF EvPrimary, EvPast
  <2>9. EvPrimary[a] = {old} /\ s \notin EvPast[a] /\ \A b \in Attempts : s \notin EvPrimary[b]
        BY <1>1, <2>3, <2>4, <2>6 DEF EvPrimary, EvPast
  <2>10. QED
         BY <1>1, <1>4, <2>8, <2>9
         DEF Custody!Exchange, Custody!Unused, EvPrimary, EvPast, EvLinked
<1>7. QED
      BY <1>5, <1>6

-----------------------------------------------------------------------------
\* Who has read a request has it for itself until the commit.
LEMMA BeginLocks ==
    ASSUME Inv, LocksHold, NEW c \in Clerks, NEW d \in Call, Begin(c, d),
           d.op \in {"publish", "correct"} => ~Locked(d.on),
           d.op = "publish" => d.on \notin published
    PROVE  LocksHold'
<1>1. published' = published /\ \A e \in Clerks : doing'[e] = IF e = c THEN d ELSE doing[e]
      BY DEF Begin, pubVars, Inv, TypeOK
<1>2. d.op \in {"publish", "correct"} =>
        \A e \in Clerks : doing[e].op \in {"publish", "correct"} => doing[e].on # d.on
      BY DEF Locked
<1>3. QED
      BY <1>1, <1>2 DEF LocksHold

\* A transaction that returns gives its request up.
LEMMA ReturnUnlocks ==
    ASSUME LocksHold,
           \A e \in Clerks : doing'[e] = doing[e] \/ doing'[e] = Idle,
           \A e \in Clerks : doing'[e].op = "publish" => doing'[e].on \notin published'
    PROVE  LocksHold'
  BY DEF LocksHold, Idle

\* The locks hold through every step.
LEMMA LocksKept == Inv /\ LocksHold /\ [Next]_vars => LocksHold'
<1> SUFFICES ASSUME Inv, LocksHold, [Next]_vars PROVE LocksHold'
    OBVIOUS
<1>1. Operators \subseteq Clerks /\ Publishers \subseteq Clerks
      BY DEF Clerks
<1>2. \A e \in Clerks : doing[e].op = "publish" => doing[e].on \notin published
      BY DEF LocksHold
<1>3. ASSUME NEW c \in Clerks, Handling(c)
      PROVE  LocksHold'
  <2>1. PICK d \in Call : Begin(c, d) /\ d.op \notin {"publish", "correct"}
    <3>1. PICK s \in Segments :
            \/ \E crop \in BOOLEAN : Begin(c, [op |-> "attach", on |-> s, crop |-> crop])
            \/ Begin(c, [op |-> "render", on |-> s, was |-> version[s]])
            \/ Begin(c, [op |-> "propose", on |-> s, gains |-> segStatus[s] \in GainsACandidate])
            \/ \E op \in {"start", "resolve", "cancel"} :
                  Begin(c, [op |-> op, on |-> s, saw |-> version[s]])
          BY <1>3 DEF Handling, AttachReads, RenderReads, ProposeReads, ReviewReads
    <3>2. version[s] \in Nat
          BY DEF Inv, TypeOK
    <3>3. /\ \A crop \in BOOLEAN : [op |-> "attach", on |-> s, crop |-> crop] \in Call
          /\ [op |-> "render", on |-> s, was |-> version[s]] \in Call
          /\ [op |-> "propose", on |-> s, gains |-> segStatus[s] \in GainsACandidate] \in Call
          /\ \A op \in {"start", "resolve", "cancel"} :
                [op |-> op, on |-> s, saw |-> version[s]] \in Call
          BY <3>2 DEF Call
    <3>4. QED
          BY <3>1, <3>3
  <2>2. QED
        BY <2>1, BeginLocks
<1>4. ASSUME NEW c \in Clerks, Publishing(c)
      PROVE  LocksHold'
  <2>1. PICK d \in Call : /\ Begin(c, d)
                          /\ d.op \in {"publish", "correct"} => ~Locked(d.on)
                          /\ d.op = "publish" => d.on \notin published
    <3>1. ASSUME NEW b \in Bundles, CloseReads(c, b)
          PROVE  \E d \in Call : Begin(c, d) /\ d.op \notin {"publish", "correct"}
          BY <3>1 DEF CloseReads, Call
    <3>2. ASSUME NEW r \in Requests, NEW l \in Links \cup {Null}, PublishReads(c, r, l)
          PROVE  \E d \in Call : /\ Begin(c, d) /\ d.op = "publish"
                                 /\ ~Locked(d.on) /\ d.on \notin published
      <4>1. PICK held \in BOOLEAN : held = IF l = Null THEN FALSE
                                           ELSE segStatus[SegmentOf(l)] = "confirmed_linked"
            OBVIOUS
      <4> DEFINE d == [op |-> "publish", on |-> r, link |-> l, held |-> held]
      <4>2. Begin(c, d) /\ ~Locked(r) /\ r \notin published
            BY <3>2, <4>1 DEF PublishReads
      <4>3. d \in Call
            BY DEF Call
      <4>4. QED
            BY <4>2, <4>3
    <3>3. ASSUME NEW r \in Requests, NEW l \in Links, NEW s \in Segments, CorrectReads(c, r, l, s)
          PROVE  \E d \in Call : Begin(c, d) /\ d.op = "correct" /\ ~Locked(d.on)
          BY <3>3 DEF CorrectReads, Call
    <3>4. QED
          BY <1>4, <3>1, <3>2, <3>3 DEF Publishing
  <2>2. QED
        BY <2>1, BeginLocks
<1>5. ASSUME NEW c \in Clerks, Return(c), published' = published
      PROVE  LocksHold'
  <2>1. \A e \in Clerks : doing'[e] = doing[e] \/ doing'[e] = Idle
        BY <1>5, ReturnFrees
  <2>2. \A e \in Clerks : doing'[e].op = "publish" => doing'[e].on \notin published'
        BY <1>2, <1>5, <2>1 DEF Idle
  <2>3. QED
        BY <2>1, <2>2, ReturnUnlocks
<1>6. ASSUME NEW c \in Clerks, PublishResult(c)
      PROVE  LocksHold'
  <2>1. /\ doing[c].op = "publish" /\ Return(c)
        /\ published' = published \cup {doing[c].on}
        BY <1>6 DEF PublishResult
  <2>2. \A e \in Clerks : doing'[e] = IF e = c THEN Idle ELSE doing[e]
        BY <2>1 DEF Return, Inv, TypeOK
  <2>3. \A e \in Clerks : e # c /\ doing[e].op = "publish" => doing[e].on # doing[c].on
        BY <2>1 DEF LocksHold
  <2>4. \A e \in Clerks : doing'[e].op = "publish" => doing'[e].on \notin published'
        BY <1>2, <2>1, <2>2, <2>3 DEF Idle
  <2>5. QED
        BY <2>2, <2>4, ReturnUnlocks
<1>7. ASSUME NEW c \in Clerks,
             \/ CreateSegment(c) \/ CloseBundle(c) \/ RenderPendingCrop(c)
             \/ ProposeCandidate(c) \/ StartTask(c)
             \/ (\E passed \in BOOLEAN : ResolveTask(c, passed)) \/ CancelTask(c)
             \/ CorrectPublishedResult(c) \/ Abandon(c)
      PROVE  LocksHold'
  <2>1. Return(c) /\ published' = published
        BY <1>7 DEF CreateSegment, CloseBundle, RenderPendingCrop, ProposeCandidate, StartTask,
                    ResolveTask, CancelTask, CorrectPublishedResult, Abandon, pubVars
  <2>2. QED
        BY <1>5, <2>1
<1>8. ASSUME doing' = doing, published' = published
      PROVE  LocksHold'
      BY <1>8 DEF LocksHold
<1>9. ASSUME NEW l \in Links,
             \/ ConfirmEvidenceLink(l) \/ RevokeEvidenceLink(l)
             \/ (\E s \in Segments : ReplaceEvidenceLink(l, s))
      PROVE  LocksHold'
      BY <1>8, <1>9 DEF ConfirmEvidenceLink, RevokeEvidenceLink, ReplaceEvidenceLink, pubVars
<1>10. CASE UNCHANGED vars
       BY <1>8, <1>10 DEF vars, pubVars
<1>11. QED
       BY <1>1, <1>3, <1>4, <1>6, <1>7, <1>9, <1>10 DEF Next

-----------------------------------------------------------------------------
\* Where links, images, reviews and publications stand still, so does their custody.
LEMMA SameCustody ==
    ASSUME linkStatus' = linkStatus, version' = version, judged' = judged,
           cites' = cites, published' = published
    PROVE  UNCHANGED Custody!ecVars
  BY SameEvidence
  DEF Custody!ecVars, Custody!evidenceVars, Custody!shownVars, EvPrimary, EvPast, EvLinked

\* At most one image is cleared by a step that leaves the others as they are.
LEMMA OneImageIsCleared ==
    ASSUME linkStatus' = linkStatus, cites' = cites, published' = published,
           NEW s \in Segments,
           \A x \in Segments : x # s => (x \in EvCleared' <=> x \in EvCleared),
           s \in EvCleared => s \in EvCleared'
    PROVE  Custody!Clear(s) \/ UNCHANGED Custody!ecVars
<1>1. EvCleared \subseteq Segments /\ EvCleared' \subseteq Segments
      BY DEF EvCleared
<1>2. EvCleared' = EvCleared \/ EvCleared' = EvCleared \cup {s}
      BY <1>1
<1>3. UNCHANGED <<EvPrimary, EvPast, EvLinked, published, EvSeen>>
      BY SameEvidence DEF EvSeen
<1>4. QED
      BY <1>2, <1>3
      DEF Custody!Clear, Custody!ecVars, Custody!evidenceVars, Custody!shownVars,
          EvPrimary, EvPast, EvLinked, EvCleared, EvSeen

\* A segment appears without an image that was passed.
LEMMA CreateSegmentMaps ==
    ASSUME Inv, NEW c \in Clerks, CreateSegment(c)
    PROVE  Custody!ECNext \/ UNCHANGED Custody!ecVars
<1>1. PICK s : s = doing[c].on
      OBVIOUS
<1>2. doing[c] \in Call /\ doing[c].op = "attach"
      BY DEF CreateSegment, Inv, TypeOK, Idle
<1>3. /\ s \in Segments /\ segStatus[s] = "none" /\ version' = [version EXCEPT ![s] = 1]
      /\ linkStatus' = linkStatus /\ cites' = cites /\ published' = published /\ judged' = judged
      BY <1>1, <1>2 DEF Call, CreateSegment, linkVars, pubVars
<1>4. \A x \in Segments : version'[x] = IF x = s THEN 1 ELSE version[x]
      BY <1>3 DEF Inv, TypeOK
<1>5. version[s] = 0
      BY <1>3 DEF Inv, ReviewsFit
<1>6. /\ \A x \in Segments : x # s => (x \in EvCleared' <=> x \in EvCleared)
      /\ s \notin EvCleared
      BY <1>3, <1>4, <1>5 DEF EvCleared
<1>7. QED
      BY <1>3, <1>6, OneImageIsCleared DEF Custody!ECNext

\* A crop that is rendered may have been passed as it now stands.
LEMMA RenderMaps ==
    ASSUME Inv, NEW c \in Clerks, RenderPendingCrop(c)
    PROVE  Custody!ECNext \/ UNCHANGED Custody!ecVars
<1>1. PICK s : s = doing[c].on
      OBVIOUS
<1>2. doing[c] \in Call /\ doing[c].op = "render"
      BY DEF RenderPendingCrop, Inv, TypeOK, Idle
<1>3. s \in Segments /\ doing[c].was = 1
      BY <1>1, <1>2 DEF Call, Inv, CallsFit
<1>4. /\ version' = [version EXCEPT ![s] = 2]
      /\ linkStatus' = linkStatus /\ cites' = cites /\ published' = published /\ judged' = judged
      BY <1>1, <1>3 DEF RenderPendingCrop, linkVars, pubVars, taskVars
<1>5. \A x \in Segments : version'[x] = IF x = s THEN 2 ELSE version[x]
      BY <1>4 DEF Inv, TypeOK
<1>6. /\ \A x \in Segments : x # s => (x \in EvCleared' <=> x \in EvCleared)
      /\ s \in EvCleared => s \in EvCleared'
      BY <1>3, <1>4, <1>5 DEF EvCleared
<1>7. QED
      BY <1>3, <1>4, <1>6, OneImageIsCleared DEF Custody!ECNext

\* A review that passes clears the image if it is of the version that is there.
LEMMA ResolveMaps ==
    ASSUME Inv, NEW c \in Clerks, NEW passed \in BOOLEAN, ResolveTask(c, passed)
    PROVE  Custody!ECNext \/ UNCHANGED Custody!ecVars
<1>1. PICK s, saw : s = doing[c].on /\ saw = doing[c].saw
      OBVIOUS
<1>2. doing[c] \in Call /\ doing[c].op = "resolve"
      BY DEF ResolveTask, Inv, TypeOK, Idle
<1>3. s \in Segments
      BY <1>1, <1>2 DEF Call
<1>4. /\ judged' = (IF passed THEN judged \cup {<<s, saw>>} ELSE judged)
      /\ linkStatus' = linkStatus /\ cites' = cites /\ published' = published
      /\ version' = version
      BY <1>1 DEF ResolveTask, segVars, linkVars, pubVars
<1>5. /\ \A x \in Segments : x # s => (<<x, 2>> \in judged' <=> <<x, 2>> \in judged)
      /\ judged \subseteq judged'
      BY <1>4
<1>6. /\ \A x \in Segments : x # s => (x \in EvCleared' <=> x \in EvCleared)
      /\ s \in EvCleared => s \in EvCleared'
      BY <1>4, <1>5 DEF EvCleared
<1>7. QED
      BY <1>3, <1>4, <1>6, OneImageIsCleared DEF Custody!ECNext

\* Links that are confirmed, replaced or revoked are evidence given, exchanged, or kept.
LEMMA LinkMaps ==
    ASSUME Inv, NEW l \in Links,
           \/ ConfirmEvidenceLink(l) \/ RevokeEvidenceLink(l)
           \/ (\E s \in Segments : ReplaceEvidenceLink(l, s))
    PROVE  Custody!ECNext \/ UNCHANGED Custody!ecVars
<1>1. /\ version' = version /\ judged' = judged /\ cites' = cites /\ published' = published
      BY DEF ConfirmEvidenceLink, RevokeEvidenceLink, ReplaceEvidenceLink, segVars, pubVars,
             taskVars
<1>2. UNCHANGED <<EvCleared, published, EvSeen>>
      BY <1>1 DEF EvCleared, EvSeen
<1>3. AttemptOf(l) \in Attempts /\ SegmentOf(l) \in Segments
      BY LinkParts
<1>4. CASE ConfirmEvidenceLink(l)
  <2>1. Custody!Link(AttemptOf(l), SegmentOf(l)) \/ Custody!Give(AttemptOf(l), SegmentOf(l))
        BY <1>4, ConfirmGives
  <2>2. QED
        BY <1>2, <1>3, <2>1 DEF Custody!ECNext, Custody!shownVars, EvCleared, EvSeen
<1>5. ASSUME NEW s \in Segments, ReplaceEvidenceLink(l, s)
      PROVE  Custody!ECNext
  <2>1. Custody!Link(AttemptOf(l), s) \/ Custody!Exchange(AttemptOf(l), s)
        BY <1>5, RetireExchanges DEF ReplaceEvidenceLink
  <2>2. QED
        BY <1>2, <1>3, <2>1 DEF Custody!ECNext, Custody!shownVars, EvCleared, EvSeen
<1>6. CASE RevokeEvidenceLink(l)
  <2>1. /\ linkStatus[l] = "active" /\ TypeOf(l) = "supplementary"
        /\ linkStatus' = [linkStatus EXCEPT ![l] = "revoked"]
        BY <1>6 DEF RevokeEvidenceLink
  <2>2. \A k \in Links : linkStatus'[k] = IF k = l THEN "revoked" ELSE linkStatus[k]
        BY <2>1 DEF Inv, TypeOK
  <2>3. EvPrimary' = EvPrimary /\ EvPast' = EvPast
        BY <2>1, <2>2, SamePrimary DEF Primary
  <2>4. EvLinked' = EvLinked
    <3>1. EvLinked' = EvLinked \cup {<<AttemptOf(l), SegmentOf(l)>>}
          BY <2>1, <2>2, EnteredIsLinked
    <3>2. <<AttemptOf(l), SegmentOf(l)>> \in EvLinked
      <4>1. l = <<AttemptOf(l), SegmentOf(l), TypeOf(l)>> /\ TypeOf(l) \in Types
            BY PrimaryLinks, LinkParts
      <4>2. QED
            BY <1>3, <2>1, <4>1 DEF EvLinked
    <3>3. QED
          BY <3>1, <3>2
  <2>5. QED
        BY <1>2, <2>3, <2>4
        DEF Custody!ecVars, Custody!evidenceVars, Custody!shownVars, EvPrimary, EvPast, EvLinked,
            EvCleared, EvSeen
<1>7. QED
      BY <1>4, <1>5, <1>6

\* An attempt and a segment somebody linked, by whatever type of link, are linked.
LEMMA EnteredLinks ==
    ASSUME NEW l \in Links, linkStatus[l] # "none"
    PROVE  /\ <<AttemptOf(l), SegmentOf(l)>> \in EvLinked
           /\ AttemptOf(l) \in Attempts /\ SegmentOf(l) \in Segments
<1>1. /\ AttemptOf(l) \in Attempts /\ SegmentOf(l) \in Segments /\ TypeOf(l) \in Types
      /\ l = <<AttemptOf(l), SegmentOf(l), TypeOf(l)>>
      BY LinkParts, PrimaryLinks
<1>2. QED
      BY <1>1 DEF EvLinked

\* A first publication shows nothing, or an image that was passed and linked.
LEMMA PublishMaps ==
    ASSUME Inv, LocksHold, NEW c \in Clerks, PublishResult(c)
    PROVE  Custody!ECNext
<1>1. PICK r, l : r = doing[c].on /\ l = doing[c].link
      OBVIOUS
<1>2. doing[c] \in Call /\ doing[c].op = "publish"
      BY DEF PublishResult, Inv, TypeOK, Idle
<1>3. r \in Requests /\ l \in Links \cup {Null}
      BY <1>1, <1>2 DEF Call
<1>4. /\ r \notin published
      /\ l # Null => /\ linkStatus[l] # "none" /\ LinkRequest(l) = r
                     /\ version[SegmentOf(l)] = 2 /\ <<SegmentOf(l), 2>> \in judged
  <2>1. r \notin published
        BY <1>1, <1>2 DEF LocksHold
  <2>2. QED
        BY <1>1, <1>2, <2>1 DEF Inv, CallsFit
<1>5. /\ published' = published \cup {r} /\ cites' = [cites EXCEPT ![r] = l]
      /\ linkStatus' = linkStatus /\ version' = version /\ judged' = judged
      BY <1>1 DEF PublishResult, taskVars
<1> DEFINE s == IF l = Null THEN Null ELSE SegmentOf(l)
<1>6. s # Null => /\ s \in EvCleared
                  /\ \E a \in Attempts : RequestOf[a] = r /\ <<a, s>> \in EvLinked
  <2>1. SUFFICES ASSUME l # Null
                 PROVE  /\ s \in EvCleared
                        /\ \E a \in Attempts : RequestOf[a] = r /\ <<a, s>> \in EvLinked
        OBVIOUS
  <2>2. l \in Links /\ s = SegmentOf(l)
        BY <1>3, <2>1
  <2>3. /\ <<AttemptOf(l), s>> \in EvLinked /\ AttemptOf(l) \in Attempts /\ s \in Segments
        BY <1>4, <2>1, <2>2, EnteredLinks
  <2>4. s \in EvCleared
        BY <1>4, <2>1, <2>2, <2>3 DEF EvCleared
  <2>5. QED
        BY <1>4, <2>1, <2>3, <2>4 DEF LinkRequest
<1>7. s \in Segments \cup {Null}
      BY <1>3, LinkParts
<1>8. EvSeen' = [EvSeen EXCEPT ![r] = s]
  <2>1. \A q \in Requests : cites'[q] = IF q = r THEN l ELSE cites[q]
        BY <1>5 DEF Inv, TypeOK
  <2>2. QED
        BY <2>1 DEF EvSeen
<1>9. UNCHANGED <<EvPrimary, EvPast, EvLinked, EvCleared>>
      BY <1>5, SameEvidence DEF EvCleared
<1>10. Custody!Publish(r, s)
  <2> HIDE DEF s
  <2>1. QED
        BY <1>4, <1>5, <1>6, <1>8, <1>9
        DEF Custody!Publish, Custody!LinkedTo, Custody!evidenceVars, EvPrimary, EvPast, EvLinked,
            EvCleared, EvSeen
<1>11. QED
       BY <1>3, <1>7, <1>10 DEF Custody!ECNext

\* A correction puts an image that was passed in the place of other evidence.
LEMMA CorrectMaps ==
    ASSUME Inv, NEW c \in Clerks, CorrectPublishedResult(c)
    PROVE  Custody!ECNext
<1>1. PICK r, l, s : r = doing[c].on /\ l = doing[c].link /\ s = doing[c].by
      OBVIOUS
<1>2. doing[c] \in Call /\ doing[c].op = "correct"
      BY DEF CorrectPublishedResult, Inv, TypeOK, Idle
<1>3. r \in Requests /\ l \in Links /\ s \in Segments
      BY <1>1, <1>2 DEF Call
<1>4. /\ linkStatus[l] # "none" /\ LinkRequest(l) = r /\ r \in published
      /\ version[s] = 2 /\ <<s, 2>> \in judged
      BY <1>1, <1>2 DEF Inv, CallsFit
<1>5. PICK next : next = Successor(l, s)
      OBVIOUS
<1>6. /\ Retire(l, s) /\ cites' = [cites EXCEPT ![r] = next]
      /\ version' = version /\ judged' = judged /\ published' = published
      BY <1>1, <1>5 DEF CorrectPublishedResult, segVars, taskVars
<1>7. next \in Links /\ SegmentOf(next) = s
      BY <1>3, <1>5, SuccessorParts
<1>8. AttemptOf(l) \in Attempts /\ RequestOf[AttemptOf(l)] = r
      BY <1>3, <1>4, LinkParts DEF LinkRequest
<1>9. Custody!Link(AttemptOf(l), s) \/ Custody!Exchange(AttemptOf(l), s)
      BY <1>3, <1>4, <1>6, RetireExchanges
<1>10. EvSeen' = [EvSeen EXCEPT ![r] = s]
  <2>1. \A q \in Requests : cites'[q] = IF q = r THEN next ELSE cites[q]
        BY <1>6 DEF Inv, TypeOK
  <2>2. next # Null
        BY <1>7, EvidenceAssumption
  <2>3. QED
        BY <1>7, <2>1, <2>2 DEF EvSeen
<1>11. s \in EvCleared /\ EvCleared' = EvCleared
       BY <1>3, <1>4, <1>6 DEF EvCleared
<1>12. Custody!Correct(AttemptOf(l), s)
       BY <1>4, <1>6, <1>8, <1>9, <1>10, <1>11 DEF Custody!Correct, EvCleared, EvSeen
<1>13. QED
       BY <1>3, <1>8, <1>12 DEF Custody!ECNext

\* Every step is one of the custody of evidence, or leaves it alone.
LEMMA StepMaps == Inv /\ LocksHold /\ [Next]_vars => [Custody!ECNext]_(Custody!ecVars)
<1> SUFFICES ASSUME Inv, LocksHold, [Next]_vars
             PROVE  Custody!ECNext \/ UNCHANGED Custody!ecVars
    OBVIOUS
<1>1. ASSUME NEW c \in Clerks, NEW d, Begin(c, d)
      PROVE  UNCHANGED Custody!ecVars
      BY <1>1, SameCustody DEF Begin, segVars, linkVars, pubVars, taskVars
<1>2. ASSUME NEW c \in Clerks, Handling(c)
      PROVE  UNCHANGED Custody!ecVars
      BY <1>1, <1>2 DEF Handling, AttachReads, RenderReads, ProposeReads, ReviewReads
<1>3. ASSUME NEW c \in Clerks, Publishing(c)
      PROVE  UNCHANGED Custody!ecVars
      BY <1>1, <1>3 DEF Publishing, CloseReads, PublishReads, CorrectReads
<1>4. ASSUME NEW c \in Clerks,
             CloseBundle(c) \/ ProposeCandidate(c) \/ StartTask(c) \/ CancelTask(c) \/ Abandon(c)
      PROVE  UNCHANGED Custody!ecVars
      BY <1>4, SameCustody
      DEF CloseBundle, ProposeCandidate, StartTask, CancelTask, Abandon, segVars, linkVars,
          pubVars, taskVars
<1>5. ASSUME NEW c \in Clerks,
             \/ CreateSegment(c) \/ RenderPendingCrop(c)
             \/ (\E passed \in BOOLEAN : ResolveTask(c, passed))
             \/ PublishResult(c) \/ CorrectPublishedResult(c)
      PROVE  Custody!ECNext \/ UNCHANGED Custody!ecVars
      BY <1>5, CreateSegmentMaps, RenderMaps, ResolveMaps, PublishMaps, CorrectMaps
<1>6. ASSUME NEW l \in Links,
             \/ ConfirmEvidenceLink(l) \/ RevokeEvidenceLink(l)
             \/ (\E s \in Segments : ReplaceEvidenceLink(l, s))
      PROVE  Custody!ECNext \/ UNCHANGED Custody!ecVars
      BY <1>6, LinkMaps
<1>7. CASE UNCHANGED vars
      BY <1>7, SameCustody DEF vars, segVars, linkVars, pubVars, taskVars
<1>8. QED
      BY <1>2, <1>3, <1>4, <1>5, <1>6, <1>7 DEF Next, Clerks

LEMMA InitMaps == Init => Custody!ECInit /\ LocksHold
<1> SUFFICES ASSUME Init PROVE Custody!ECInit /\ LocksHold
    OBVIOUS
<1>1. EvPrimary = [a \in Attempts |-> {}] /\ EvPast = [a \in Attempts |-> {}]
      BY PrimaryLinks DEF Init, EvPrimary, EvPast, PrimaryOf
<1>2. EvLinked = {}
  <2>1. \A p \in Attempts \X Segments, t \in Types : <<p[1], p[2], t>> \in Links
        BY DEF Links
  <2>2. QED
        BY <2>1 DEF Init, EvLinked
<1>3. EvCleared = {} /\ EvSeen = [r \in Requests |-> Null]
      BY DEF Init, EvCleared, EvSeen
<1>4. LocksHold
      BY DEF Init, LocksHold, Idle
<1>5. QED
      BY <1>1, <1>2, <1>3, <1>4
      DEF Init, Custody!ECInit, EvPrimary, EvPast, EvLinked, EvCleared, EvSeen

\* No execution of the evidence commands leaves an attempt that was given evidence
\* without it or with two, or shows a trader an image that was not passed as it stands
\* or was linked to no payment of that trader's request.
THEOREM Refinement == Spec => ImplementsCustody
BY Invariant, StepMaps, LocksKept, InitMaps, PTL DEF Spec, ImplementsCustody, Custody!ECSpec

=============================================================================
