------------------------ MODULE RequestIntake_proofs ------------------------
(***************************************************************************)
(* Proofs about RequestIntake, for any requests, beneficiaries, people and *)
(* bounds: its invariant is inductive, and it implements RequestLifecycle. *)
(*                                                                         *)
(* The argument: every write raises the version of the row it writes, so a *)
(* row that has the version a command read is the row it read.  A client   *)
(* names no version later than the one read; so a swap that applies finds  *)
(* the row its command decided on.                                         *)
(***************************************************************************)
EXTENDS RequestIntake, TLAPS

Content == Contents \cup {NoContent}

\* What is not a revision is not a content.
LEMMA NoContentIsNone == NoContent \notin Contents
  BY IntakeAssumption DEF Contents, Revisions

\* The state the program starts in satisfies the invariant.
LEMMA InitInv == Init => Inv
<1> SUFFICES ASSUME Init PROVE Inv
    OBVIOUS
<1> USE IntakeAssumption DEF Init
<1>1. TypeOK
      BY DEF TypeOK, Rows, RowType, RequestStatuses, BusinessStatuses
<1>2. RevisionsInOrder
  <2>1. ASSUME NEW r \in Requests
        PROVE  row[r].edition = 0 /\ \A n \in Revisions : content[r][n] = NoContent
    <3>1. r \in Rows /\ r # Business
          BY DEF Rows
    <3>2. row[r] = [status |-> "none", edition |-> 0, version |-> 0]
          BY <3>1
    <3>3. content[r] = [n \in Revisions |-> NoContent]
          OBVIOUS
    <3>4. QED
          BY <3>2, <3>3
  <2>2. ASSUME NEW r \in Requests
        PROVE  /\ \A n \in Revisions : content[r][n] # NoContent <=> n <= row[r].edition
               /\ \A m, n \in 1 .. row[r].edition : content[r][m] = content[r][n] => m = n
    <3>1. row[r].edition = 0 /\ \A n \in Revisions : content[r][n] = NoContent
          BY <2>1
    <3>2. \A n \in Revisions : ~(n <= 0)
          BY IntakeAssumption DEF Revisions
    <3>3. \A m \in 1 .. 0 : FALSE
          OBVIOUS
    <3>4. QED
          BY <3>1, <3>2, <3>3
  <2>3. QED
        BY <2>2 DEF RevisionsInOrder
<1>3. EligibleIsWhatWasNamed
      BY DEF EligibleIsWhatWasNamed, Rows
<1>4. RowsFit
      BY DEF RowsFit, Rows, RequestStatuses, BeneficiaryStatuses, BusinessStatuses
<1>5. CallsFit
      BY DEF CallsFit
<1>6. QED
      BY <1>1, <1>2, <1>3, <1>4, <1>5 DEF Inv

-----------------------------------------------------------------------------
\* A command that has read what justifies it, and has written nothing, keeps
\* the invariant.
LEMMA BeginKeeps ==
    ASSUME Inv, NEW c \in Clients, NEW op \in Ops, NEW x \in Rows, NEW e \in Nat,
           NEW filing \in Content, NEW naming \in Nat,
           Begin(c, op, x, e, filing, naming),
           Justified(c, [op |-> op, on |-> x, expected |-> e, was |-> row[x],
                         filing |-> filing, naming |-> naming])
    PROVE  Inv'
<1> DEFINE d == [op |-> op, on |-> x, expected |-> e, was |-> row[x],
                 filing |-> filing, naming |-> naming]
<1>1. row[x] \in RowType
      BY DEF Inv, TypeOK, RowType
<1>2. d \in Call
      BY <1>1 DEF Call, Content
<1>3. \A b \in Clients : doing'[b] = IF b = c THEN d ELSE doing[b]
      BY DEF Begin, Inv, TypeOK
<1>4. TypeOK'
      BY <1>2 DEF Inv, TypeOK, Begin
<1>5. RevisionsInOrder' /\ EligibleIsWhatWasNamed' /\ RowsFit'
      BY DEF Inv, Begin, RevisionsInOrder, EligibleIsWhatWasNamed, RowsFit
<1>6. /\ d.was.version <= row'[d.on].version
      /\ d.was.version = row'[d.on].version => d.was = row'[d.on]
      BY <1>1 DEF Begin, RowType
<1>7. CallsFit'
  <2> SUFFICES ASSUME NEW b \in Clients, doing'[b] # Idle
               PROVE  Justified(b, doing'[b]) /\ StillAsRead(doing[b])'
      BY DEF CallsFit, Justified
  <2>1. CASE b = c
        BY <2>1, <1>3, <1>6 DEF StillAsRead
  <2>2. CASE b # c
    <3>1. doing'[b] = doing[b] /\ row' = row
          BY <2>2, <1>3 DEF Begin
    <3>2. Justified(b, doing[b]) /\ StillAsRead(doing[b])
          BY <3>1 DEF Inv, CallsFit
    <3>3. QED
          BY <3>1, <3>2 DEF StillAsRead
  <2>3. QED
        BY <2>1, <2>2
<1>8. QED
      BY <1>4, <1>5, <1>7 DEF Inv

\* A write of one row raises its version, so what the other commands have read
\* of it is no longer there.
LEMMA WriteKeepsCalls ==
    ASSUME Inv, NEW c \in Clients, NEW x \in Rows, NEW new \in RowType,
           row' = [row EXCEPT ![x] = new], new.version > row[x].version,
           \A b \in Clients : doing'[b] = doing[b] \/ doing'[b] = Idle
    PROVE  CallsFit'
<1> SUFFICES ASSUME NEW b \in Clients, doing'[b] # Idle
             PROVE  Justified(b, doing'[b]) /\ StillAsRead(doing[b])'
    BY DEF CallsFit, Justified
<1>1. doing'[b] = doing[b] /\ doing[b] \in Call
      BY DEF Inv, TypeOK
<1> DEFINE d == doing[b]
<1>2. Justified(b, d) /\ StillAsRead(d)
      BY <1>1 DEF Inv, CallsFit
<1>3. /\ d.on \in Rows /\ d.was.version \in Nat
      /\ row[d.on].version \in Nat /\ new.version \in Nat
      BY <1>1 DEF Inv, TypeOK, Call, RowType
<1>4. row'[d.on] = IF d.on = x THEN new ELSE row[d.on]
      BY <1>3 DEF Inv, TypeOK
<1>5. d.was.version <= row'[d.on].version
      BY <1>2, <1>3, <1>4 DEF StillAsRead
<1>6. d.was.version = row'[d.on].version => d.was = row'[d.on]
      BY <1>2, <1>3, <1>4 DEF StillAsRead
<1>7. QED
      BY <1>1, <1>2, <1>5, <1>6 DEF StillAsRead

\* A swap that applies finds the row its command read.
LEMMA SwapFindsWhatWasRead ==
    ASSUME Inv, NEW c \in Clients, doing[c] # Idle, doing[c].op # "draft",
           row[doing[c].on].version = doing[c].expected
    PROVE  /\ doing[c] \in Call /\ doing[c].on \in Rows
           /\ doing[c].was = row[doing[c].on]
           /\ doing[c].was \in RowType
<1>1. doing[c] \in Call
      BY DEF Inv, TypeOK
<1>2. Justified(c, doing[c]) /\ StillAsRead(doing[c])
      BY DEF Inv, CallsFit
<1>3. /\ doing[c].on \in Rows /\ doing[c].was.version \in Nat /\ doing[c].expected \in Nat
      BY <1>1 DEF Call, RowType
<1>4. doing[c].expected <= doing[c].was.version
      BY <1>2 DEF Justified
<1>5. row[doing[c].on].version \in Nat /\ row[doing[c].on] \in RowType
      BY <1>3 DEF Inv, TypeOK, RowType
<1>6. doing[c].was.version = row[doing[c].on].version
      BY <1>2, <1>3, <1>4, <1>5 DEF StillAsRead
<1>7. QED
      BY <1>1, <1>2, <1>3, <1>5, <1>6 DEF StillAsRead

\* What a client's return does to the others' commands, and to its own.
LEMMA ReturnFrees ==
    ASSUME Inv, NEW c \in Clients, Return(c)
    PROVE  /\ doing' \in [Clients -> {Idle} \cup Call]
           /\ \A b \in Clients : doing'[b] = doing[b] \/ doing'[b] = Idle
           /\ \A b \in Clients : b # c => doing'[b] = doing[b]
  BY DEF Return, Inv, TypeOK

-----------------------------------------------------------------------------
\* A command that gives up keeps the invariant.
LEMMA AbandonKeeps ==
    ASSUME Inv, NEW c \in Clients, Abandon(c)
    PROVE  Inv'
<1>1. /\ Return(c) /\ row' = row /\ content' = content /\ named' = named
      BY DEF Abandon
<1>2. /\ doing' \in [Clients -> {Idle} \cup Call]
      /\ \A b \in Clients : doing'[b] = doing[b] \/ doing'[b] = Idle
      BY <1>1, ReturnFrees
<1>3. TypeOK'
      BY <1>1, <1>2 DEF Inv, TypeOK
<1>4. RevisionsInOrder' /\ EligibleIsWhatWasNamed' /\ RowsFit'
      BY <1>1 DEF Inv, RevisionsInOrder, EligibleIsWhatWasNamed, RowsFit
<1>5. CallsFit'
  <2> SUFFICES ASSUME NEW b \in Clients, doing'[b] # Idle
               PROVE  Justified(b, doing'[b]) /\ StillAsRead(doing[b])'
      BY DEF CallsFit, Justified
  <2>1. doing'[b] = doing[b]
        BY <1>2
  <2>2. Justified(b, doing[b]) /\ StillAsRead(doing[b])
        BY <2>1 DEF Inv, CallsFit
  <2>3. QED
        BY <2>1, <2>2, <1>1 DEF StillAsRead
<1>6. QED
      BY <1>3, <1>4, <1>5 DEF Inv

\* A draft appears with its first revision.
LEMMA CreateDraftKeeps ==
    ASSUME Inv, NEW c \in Clients, CreateDraft(c)
    PROVE  Inv'
<1> DEFINE r   == doing[c].on
           new == [status |-> "draft", edition |-> 1, version |-> 1]
<1>1. doing[c] # Idle
      BY DEF CreateDraft, Idle
<1>2. r \in Requests /\ r \in Rows /\ doing[c].filing \in Contents
      BY <1>1 DEF CreateDraft, Inv, CallsFit, Justified, RequestOps, Rows
<1>3. row[r].status = "none" /\ row[r].edition = 0 /\ row[r].version = 0
      BY <1>2 DEF CreateDraft, Inv, RowsFit
<1>4. /\ row' = [row EXCEPT ![r] = new]
      /\ content' = [content EXCEPT ![r][1] = doing[c].filing]
      /\ named' = named /\ Return(c)
      BY DEF CreateDraft
<1>5. 1 \in Revisions
      BY IntakeAssumption DEF Revisions
<1>6. new \in RowType
      BY DEF RowType, RequestStatuses
<1>7. \A y \in Rows : row'[y] = IF y = r THEN new ELSE row[y]
      BY <1>4 DEF Inv, TypeOK
<1>8. \A q \in Requests, n \in Revisions :
        content'[q][n] = IF q = r /\ n = 1 THEN doing[c].filing ELSE content[q][n]
      BY <1>2, <1>4, <1>5 DEF Inv, TypeOK
<1>9. TypeOK'
  <2>1. row' \in [Rows -> RowType]
        BY <1>4, <1>6, <1>2 DEF Inv, TypeOK, RowType
  <2>2. content' \in [Requests -> [Revisions -> Content]]
        BY <1>4, <1>2, <1>5 DEF Inv, TypeOK, Content
  <2>3. QED
        BY <2>1, <2>2, <1>4, ReturnFrees DEF Inv, TypeOK, Content
<1>10. RevisionsInOrder'
  <2> SUFFICES ASSUME NEW q \in Requests
               PROVE  /\ \A n \in Revisions : content'[q][n] # NoContent <=> n <= row'[q].edition
                      /\ \A m, n \in 1 .. row'[q].edition :
                           content'[q][m] = content'[q][n] => m = n
      BY DEF RevisionsInOrder
  <2>1. q \in Rows
        BY DEF Rows
  <2>2. CASE q = r
    <3>1. \A n \in Revisions : content[r][n] = NoContent
          BY <1>2, <1>3 DEF Inv, RevisionsInOrder, Revisions
    <3>2. row'[r].edition = 1
          BY <1>2, <1>7
    <3>3. \A n \in Revisions : content'[r][n] # NoContent <=> n <= 1
          BY <1>2, <1>8, <3>1, NoContentIsNone DEF Revisions
    <3>4. \A m, n \in 1 .. 1 : m = n
          OBVIOUS
    <3>5. QED
          BY <2>2, <3>2, <3>3, <3>4
  <2>3. CASE q # r
    <3>1. row'[q] = row[q] /\ \A n \in Revisions : content'[q][n] = content[q][n]
          BY <2>1, <2>3, <1>7, <1>8
    <3>2. row[q].edition \in 0 .. MaxRevisions
          BY IntakeAssumption DEF Inv, RowsFit, Revisions
    <3>3. \A n \in 1 .. row[q].edition : n \in Revisions
          BY <3>2, IntakeAssumption DEF Revisions
    <3>4. QED
          BY <3>1, <3>3 DEF Inv, RevisionsInOrder
  <2>4. QED
        BY <2>2, <2>3
<1>11. EligibleIsWhatWasNamed'
       BY <1>4, <1>7 DEF Inv, EligibleIsWhatWasNamed, Rows
<1>12. RowsFit'
       BY <1>2, <1>5, <1>7, IntakeAssumption DEF Inv, RowsFit, Rows, RequestStatuses
<1>13. CallsFit'
  <2>1. new.version > row[r].version
        BY <1>3
  <2>2. \A b \in Clients : doing'[b] = doing[b] \/ doing'[b] = Idle
        BY <1>4, ReturnFrees
  <2>3. QED
        BY <1>2, <1>4, <1>6, <2>1, <2>2, WriteKeepsCalls
<1>14. QED
       BY <1>9, <1>10, <1>11, <1>12, <1>13 DEF Inv

\* A correction files the next revision, if its swap applies.
LEMMA CreateRevisionKeeps ==
    ASSUME Inv, NEW c \in Clients, CreateRevision(c)
    PROVE  /\ Inv'
           /\ \E r \in Requests :
                /\ row[r].status \in Correctable
                /\ row' = [row EXCEPT ![r] = [status |-> row[r].status,
                     edition |-> row[r].edition + 1, version |-> row[r].version + 1]]
<1> DEFINE d   == doing[c]
           r   == d.on
           n   == d.was.edition + 1
           new == [status |-> row[r].status, edition |-> n, version |-> d.expected + 1]
<1>1. d # Idle /\ d.op = "revise"
      BY DEF CreateRevision, Idle
<1>2. /\ r \in Requests /\ r \in Rows /\ d.filing \in Contents
      /\ d.was.status \in Correctable /\ d.was.edition < MaxRevisions
      BY <1>1 DEF Inv, CallsFit, Justified, RequestOps, Rows
<1>3. /\ row[r].version = d.expected /\ Fileable(r, n, d.filing)
      /\ row' = [row EXCEPT ![r] = new]
      /\ content' = [content EXCEPT ![r][n] = d.filing]
      /\ named' = named /\ Return(c)
      BY DEF CreateRevision, CompareAndSwap
<1>4. d.was = row[r] /\ d.was \in RowType
      BY <1>1, <1>3, SwapFindsWhatWasRead
<1>5. /\ row[r].edition \in 1 .. MaxRevisions /\ n \in Revisions /\ n = row[r].edition + 1
      /\ row[r].status \in Correctable
  <2>1. row[r].status # "none" /\ row[r].status \in Correctable
        BY <1>2, <1>4 DEF Correctable
  <2>2. row[r].edition \in 1 .. MaxRevisions
        BY <1>2, <2>1 DEF Inv, RowsFit, Revisions
  <2>3. QED
        BY <2>1, <2>2, <1>2, <1>4, IntakeAssumption DEF Revisions
<1>6. new \in RowType
      BY <1>3, <1>4, <1>5 DEF RowType
<1>7. \A y \in Rows : row'[y] = IF y = r THEN new ELSE row[y]
      BY <1>3 DEF Inv, TypeOK
<1>8. \A q \in Requests, k \in Revisions :
        content'[q][k] = IF q = r /\ k = n THEN d.filing ELSE content[q][k]
      BY <1>2, <1>3, <1>5 DEF Inv, TypeOK
<1>9. TypeOK'
  <2>1. row' \in [Rows -> RowType]
        BY <1>3, <1>6, <1>2 DEF Inv, TypeOK
  <2>2. content' \in [Requests -> [Revisions -> Content]]
        BY <1>3, <1>2, <1>5 DEF Inv, TypeOK, Content
  <2>3. QED
        BY <2>1, <2>2, <1>3, ReturnFrees DEF Inv, TypeOK, Content
<1>10. RevisionsInOrder'
  <2> SUFFICES ASSUME NEW q \in Requests
               PROVE  /\ \A k \in Revisions : content'[q][k] # NoContent <=> k <= row'[q].edition
                      /\ \A j, k \in 1 .. row'[q].edition :
                           content'[q][j] = content'[q][k] => j = k
      BY DEF RevisionsInOrder
  <2>1. q \in Rows
        BY DEF Rows
  <2>2. CASE q = r
    <3>1. row'[r].edition = n /\ \A k \in 1 .. n : k \in Revisions
          BY <1>2, <1>5, <1>7, IntakeAssumption DEF Revisions
    <3>2. \A k \in Revisions : content[r][k] # NoContent <=> k <= row[r].edition
          BY <1>2 DEF Inv, RevisionsInOrder
    <3>3. \A k \in Revisions : content'[r][k] # NoContent <=> k <= n
      <4> SUFFICES ASSUME NEW k \in Revisions
                   PROVE  content'[r][k] # NoContent <=> k <= n
          OBVIOUS
      <4>1. CASE k = n
            BY <4>1, <1>2, <1>5, <1>8, NoContentIsNone DEF Revisions
      <4>2. CASE k # n
        <5>1. content'[r][k] = content[r][k]
              BY <4>2, <1>2, <1>8
        <5>2. k <= n <=> k <= row[r].edition
              BY <4>2, <1>5 DEF Revisions
        <5>3. QED
              BY <5>1, <5>2, <3>2
      <4>3. QED
            BY <4>1, <4>2
    <3>4. ASSUME NEW j \in 1 .. n, NEW k \in 1 .. n, content'[r][j] = content'[r][k]
          PROVE  j = k
      <4>1. j \in Revisions /\ k \in Revisions
            BY <3>1
      <4>2. \A i \in Revisions : content[r][i] # d.filing
            BY <1>3 DEF Fileable
      <4>3. CASE j = n \/ k = n
            BY <3>4, <4>1, <4>2, <4>3, <1>2, <1>8
      <4>4. CASE j # n /\ k # n
        <5>1. j \in 1 .. row[r].edition /\ k \in 1 .. row[r].edition
              BY <4>4, <1>5
        <5>2. content[r][j] = content[r][k]
              BY <3>4, <4>1, <4>4, <1>2, <1>8
        <5>3. QED
              BY <5>1, <5>2, <1>2 DEF Inv, RevisionsInOrder
      <4>5. QED
            BY <4>3, <4>4
    <3>5. QED
          BY <2>2, <3>1, <3>3, <3>4
  <2>3. CASE q # r
    <3>1. row'[q] = row[q] /\ \A k \in Revisions : content'[q][k] = content[q][k]
          BY <2>1, <2>3, <1>7, <1>8
    <3>2. row[q].edition \in 0 .. MaxRevisions
          BY IntakeAssumption DEF Inv, RowsFit, Revisions
    <3>3. \A k \in 1 .. row[q].edition : k \in Revisions
          BY <3>2, IntakeAssumption DEF Revisions
    <3>4. QED
          BY <3>1, <3>3 DEF Inv, RevisionsInOrder
  <2>4. QED
        BY <2>2, <2>3
<1>11. EligibleIsWhatWasNamed'
       BY <1>3, <1>5, <1>7 DEF Inv, EligibleIsWhatWasNamed, Rows, Correctable
<1>12. RowsFit'
  <2>1. new.status \in RequestStatuses /\ new.status # "none"
        BY <1>5 DEF Correctable, RequestStatuses
  <2>2. new.edition \in Revisions /\ new.version > 0
        BY <1>3, <1>4, <1>5 DEF RowType
  <2>3. QED
        BY <1>2, <1>7, <2>1, <2>2, IntakeAssumption DEF Inv, RowsFit, Rows
<1>13. CallsFit'
  <2>1. new.version > row[r].version
        BY <1>3, <1>4 DEF RowType
  <2>2. \A b \in Clients : doing'[b] = doing[b] \/ doing'[b] = Idle
        BY <1>3, ReturnFrees
  <2>3. QED
        BY <1>2, <1>3, <1>6, <2>1, <2>2, WriteKeepsCalls
<1>14. row' = [row EXCEPT ![r] = [status |-> row[r].status,
                 edition |-> row[r].edition + 1, version |-> row[r].version + 1]]
       BY <1>3, <1>5
<1>15. QED
       BY <1>2, <1>5, <1>9, <1>10, <1>11, <1>12, <1>13, <1>14 DEF Inv

\* A write that changes neither the revisions nor the edition of a request keeps
\* what is said of them.
LEMMA OtherWritesKeepRevisions ==
    ASSUME Inv, content' = content, \A r \in Requests : row'[r].edition = row[r].edition
    PROVE  RevisionsInOrder'
  BY DEF Inv, RevisionsInOrder

\* A beneficiary is written for the first time.
LEMMA CreateBeneficiaryKeeps ==
    ASSUME Inv, NEW b \in Beneficiaries, CreateBeneficiary(b)
    PROVE  Inv'
<1> DEFINE new == [status |-> "active", edition |-> 1, version |-> 1]
<1>1. /\ row' = [row EXCEPT ![b] = new] /\ content' = content /\ named' = named
      /\ doing' = doing /\ b \in Rows /\ row[b].version = 0
      BY DEF CreateBeneficiary, Rows, Inv, RowsFit
<1>2. new \in RowType
      BY DEF RowType, BeneficiaryStatuses
<1>3. \A y \in Rows : row'[y] = IF y = b THEN new ELSE row[y]
      BY <1>1 DEF Inv, TypeOK
<1>4. TypeOK'
      BY <1>1, <1>2 DEF Inv, TypeOK
<1>5. \A r \in Requests : row'[r] = row[r]
      BY <1>3, IntakeAssumption DEF Rows
<1>6. RevisionsInOrder' /\ EligibleIsWhatWasNamed'
      BY <1>1, <1>5, OtherWritesKeepRevisions DEF Inv, EligibleIsWhatWasNamed
<1>7. 1 \in Revisions
      BY IntakeAssumption DEF Revisions
<1>8. RowsFit'
      BY <1>3, <1>7, IntakeAssumption DEF Inv, RowsFit, Rows, BeneficiaryStatuses
<1>9. CallsFit'
  <2>1. new.version > row[b].version
        BY <1>1
  <2>2. \A c \in Clients : doing'[c] = doing[c] \/ doing'[c] = Idle
        BY <1>1
  <2>3. CASE Clients = {}
        BY <2>3 DEF CallsFit
  <2>4. CASE Clients # {}
        BY <1>1, <1>2, <2>1, <2>2, <2>4, WriteKeepsCalls
  <2>5. QED
        BY <2>3, <2>4
<1>10. QED
       BY <1>4, <1>6, <1>8, <1>9 DEF Inv

\* An active beneficiary gets a new edition, or keeps the one it has.
LEMMA UpdateBeneficiaryKeeps ==
    ASSUME Inv, NEW c \in Clients, UpdateBeneficiary(c)
    PROVE  /\ Inv'
           /\ \E b \in Beneficiaries : \E n \in {row[b].edition, row[b].edition + 1} :
                /\ row[b].status = "active"
                /\ row' = [row EXCEPT ![b] = [status |-> row[b].status,
                             edition |-> n, version |-> row[b].version + 1]]
<1> DEFINE d == doing[c]
           b == d.on
<1>1. d # Idle /\ d.op = "amend"
      BY DEF UpdateBeneficiary, Idle
<1>2. b \in Beneficiaries /\ b \in Rows /\ d.was.status = "active"
      BY <1>1 DEF Inv, CallsFit, Justified, BeneficiaryOps, Rows
<1>3. PICK n \in {row[b].edition, row[b].edition + 1} \cap Revisions :
        CompareAndSwap(b, d.expected, row[b].status, n)
      BY DEF UpdateBeneficiary
<1> DEFINE new == [status |-> row[b].status, edition |-> n, version |-> d.expected + 1]
<1>4. /\ row[b].version = d.expected /\ row' = [row EXCEPT ![b] = new]
      /\ content' = content /\ named' = named /\ Return(c)
      BY <1>3 DEF UpdateBeneficiary, CompareAndSwap
<1>5. d.was = row[b] /\ d.was \in RowType
      BY <1>1, <1>4, SwapFindsWhatWasRead
<1>6. new \in RowType /\ new.version > row[b].version /\ new.edition \in Revisions
      BY <1>3, <1>4, <1>5 DEF RowType, Revisions
<1>7. \A y \in Rows : row'[y] = IF y = b THEN new ELSE row[y]
      BY <1>4 DEF Inv, TypeOK
<1>8. TypeOK'
  <2>1. row' \in [Rows -> RowType]
        BY <1>4, <1>6, <1>2 DEF Inv, TypeOK
  <2>2. QED
        BY <2>1, <1>4, ReturnFrees DEF Inv, TypeOK
<1>9. \A r \in Requests : row'[r] = row[r]
      BY <1>2, <1>7, IntakeAssumption DEF Rows
<1>10. RevisionsInOrder' /\ EligibleIsWhatWasNamed'
       BY <1>4, <1>9, OtherWritesKeepRevisions DEF Inv, EligibleIsWhatWasNamed
<1>11. RowsFit'
  <2>1. new.status = "active" /\ new.version > 0
        BY <1>2, <1>5, <1>6 DEF RowType
  <2>2. QED
        BY <1>2, <1>6, <1>7, <2>1, IntakeAssumption DEF Inv, RowsFit, Rows, BeneficiaryStatuses
<1>12. CallsFit'
  <2>1. \A e \in Clients : doing'[e] = doing[e] \/ doing'[e] = Idle
        BY <1>4, ReturnFrees
  <2>2. QED
        BY <1>2, <1>4, <1>6, <2>1, WriteKeepsCalls
<1>13. Inv'
       BY <1>8, <1>10, <1>11, <1>12 DEF Inv
<1>14. QED
       BY <1>2, <1>3, <1>4, <1>5, <1>13

\* A move goes where its command's table says, from where the table says, and from
\* nowhere a trader may not cancel when it is a trader's cancellation.
LEMMA MoveTakesAStep ==
    ASSUME Inv, NEW c \in Clients, Move(c)
    PROVE  LET d == doing[c] IN
           /\ d \in Call /\ d.op \in DOMAIN Transitions /\ d.on \in Rows
           /\ Justified(c, d)
           /\ row[d.on] \in RowType /\ d.was = row[d.on]
           /\ row' = [row EXCEPT ![d.on] = [status |-> Transitions[d.op].to,
                        edition |-> row[d.on].edition, version |-> row[d.on].version + 1]]
<1> DEFINE d == doing[c]
<1>1. d # Idle /\ d.op \in DOMAIN Transitions /\ d.op # "draft"
      BY DEF Move, Idle, Transitions
<1>2. /\ row[d.on].version = d.expected
      /\ row' = [row EXCEPT ![d.on] = [status |-> Transitions[d.op].to,
                   edition |-> row[d.on].edition, version |-> d.expected + 1]]
      BY DEF Move, CompareAndSwap
<1>3. d \in Call /\ d.on \in Rows /\ d.was = row[d.on] /\ d.was \in RowType
      BY <1>1, <1>2, SwapFindsWhatWasRead
<1>4. Justified(c, d)
      BY <1>1 DEF Inv, CallsFit
<1>5. QED
      BY <1>1, <1>2, <1>3, <1>4

\* The commands of the table, by the row they move.
LEMMA MovesByRow ==
    ASSUME NEW op \in DOMAIN Transitions
    PROVE  \/ op \in RequestOps /\ Transitions[op].to \in RequestStatuses \ {"none"}
           \/ op \in BeneficiaryOps /\ Transitions[op].to \in BeneficiaryStatuses \ {"none"}
           \/ op \in Decisions /\ Transitions[op].to \in BusinessStatuses
  BY DEF Transitions, RequestOps, Reviews, BeneficiaryOps, Decisions, RequestStatuses,
     BeneficiaryStatuses, BusinessStatuses

\* A row that is moved existed.
LEMMA MovesFromSomewhere ==
    ASSUME NEW op \in DOMAIN Transitions
    PROVE  "none" \notin Transitions[op].from
  BY DEF Transitions, Correctable, Cancellable

LEMMA MoveKeeps ==
    ASSUME Inv, NEW c \in Clients, Move(c)
    PROVE  Inv'
<1> DEFINE d   == doing[c]
           x   == d.on
           new == [status |-> Transitions[d.op].to, edition |-> row[x].edition,
                   version |-> row[x].version + 1]
<1>1. /\ d \in Call /\ d.op \in DOMAIN Transitions /\ x \in Rows
      /\ Justified(c, d) /\ row[x] \in RowType /\ d.was = row[x]
      /\ row' = [row EXCEPT ![x] = new]
      BY MoveTakesAStep
<1>2. /\ content' = content /\ Return(c)
      /\ named' = IF d.op = "mark_eligible" THEN [named EXCEPT ![x] = d.naming] ELSE named
      BY DEF Move
<1>3. new \in RowType /\ new.version > row[x].version
      BY <1>1, MovesByRow DEF RowType
<1>4. \A y \in Rows : row'[y] = IF y = x THEN new ELSE row[y]
      BY <1>1 DEF Inv, TypeOK
<1>5. /\ d.op \in RequestOps => x \in Requests
      /\ d.op \in BeneficiaryOps => x \in Beneficiaries
      /\ d.op \in Decisions => x = Business
      BY <1>1 DEF Justified
<1>6. row[x].status # "none"
      BY <1>1, MovesFromSomewhere DEF Justified
<1>7. TypeOK'
  <2>1. row' \in [Rows -> RowType]
        BY <1>1, <1>3 DEF Inv, TypeOK
  <2>2. named' \in [Requests -> Nat]
        BY <1>1, <1>2 DEF Inv, TypeOK, Call
  <2>3. QED
        BY <2>1, <2>2, <1>2, ReturnFrees DEF Inv, TypeOK
<1>8. RevisionsInOrder'
  <2>1. \A r \in Requests : row'[r].edition = row[r].edition
        BY <1>4 DEF Rows
  <2>2. QED
        BY <2>1, <1>2, OtherWritesKeepRevisions
<1>9. EligibleIsWhatWasNamed'
  <2> SUFFICES ASSUME NEW r \in Requests, row'[r].status = "eligible_for_batching"
               PROVE  named'[r] = row'[r].edition
      BY DEF EligibleIsWhatWasNamed
  <2>1. r \in Rows /\ row'[r].edition = row[r].edition
        BY <1>4 DEF Rows
  <2>2. CASE r = x /\ d.op = "mark_eligible"
    <3>1. named'[r] = d.naming /\ d.naming = d.was.edition
          BY <1>1, <1>2, <2>2 DEF Inv, TypeOK, Justified
    <3>2. QED
          BY <1>1, <2>1, <2>2, <3>1
  <2>3. CASE r = x /\ d.op # "mark_eligible"
    <3>1. Transitions[d.op].to = "eligible_for_batching"
          BY <1>4, <2>1, <2>3
    <3>2. QED
          BY <1>1, <2>3, <3>1 DEF Transitions
  <2>4. CASE r # x
    <3>1. row[r].status = "eligible_for_batching" /\ named'[r] = named[r]
          BY <1>2, <1>4, <2>1, <2>4 DEF Inv, TypeOK
    <3>2. QED
          BY <2>1, <3>1 DEF Inv, EligibleIsWhatWasNamed
  <2>5. QED
        BY <2>2, <2>3, <2>4
<1>10. RowsFit'
  <2>1. \A y \in Requests \cup Beneficiaries \cup {Business} : y \in Rows
        BY DEF Rows
  <2>2. \A r \in Requests : row'[r].status \in RequestStatuses
        BY <1>1, <1>4, <1>5, <2>1, MovesByRow, IntakeAssumption DEF Inv, RowsFit
  <2>3. \A b \in Beneficiaries : row'[b].status \in BeneficiaryStatuses
        BY <1>1, <1>4, <1>5, <2>1, MovesByRow, IntakeAssumption DEF Inv, RowsFit
  <2>4. row'[Business].status \in BusinessStatuses
        BY <1>1, <1>4, <1>5, <2>1, MovesByRow, IntakeAssumption DEF Inv, RowsFit
  <2>5. ASSUME NEW y \in Requests \cup Beneficiaries
        PROVE  IF row'[y].status = "none" THEN row'[y].edition = 0 /\ row'[y].version = 0
               ELSE row'[y].edition \in Revisions /\ row'[y].version > 0
    <3>1. CASE y = x
      <4>1. new.status # "none"
            BY <1>1, <1>5, <3>1, MovesByRow, IntakeAssumption
      <4>2. row[y].edition \in Revisions
            BY <1>6, <3>1 DEF Inv, RowsFit
      <4>3. row'[y] = new /\ new.version > 0
            BY <1>1, <1>3, <1>4, <3>1 DEF RowType
      <4>4. QED
            BY <4>1, <4>2, <4>3, <3>1
    <3>2. CASE y # x
          BY <1>4, <2>1, <3>2 DEF Inv, RowsFit
    <3>3. QED
          BY <3>1, <3>2
  <2>6. QED
        BY <2>2, <2>3, <2>4, <2>5 DEF RowsFit
<1>11. CallsFit'
  <2>1. \A e \in Clients : doing'[e] = doing[e] \/ doing'[e] = Idle
        BY <1>2, ReturnFrees
  <2>2. QED
        BY <1>1, <1>3, <2>1, WriteKeepsCalls
<1>12. QED
       BY <1>7, <1>8, <1>9, <1>10, <1>11 DEF Inv

-----------------------------------------------------------------------------
\* Every command's reads keep the invariant.
LEMMA RequestingKeeps ==
    ASSUME Inv, NEW c \in Clients, Requesting(c)
    PROVE  Inv'
<1>1. PICK r \in Requests :
        \/ \E t \in Terms, b \in Beneficiaries : CreateDraftReads(c, r, t, b)
        \/ \E e \in ShownOf(r) :
             \/ SubmitReads(c, r, e)
             \/ CancelRequestReads(c, r, e)
             \/ \E op \in Reviews : ReviewReads(c, r, e, op)
             \/ \E n \in Revisions : MarkEligibleReads(c, r, e, n)
             \/ \E t \in Terms, b \in Beneficiaries : CreateRevisionReads(c, r, e, t, b)
      BY DEF Requesting
<1>2. r \in Rows /\ row[r] \in RowType
      BY DEF Rows, Inv, TypeOK
<1>3. \A b \in Beneficiaries : row[b].status = "active" => row[b].edition \in Revisions
      BY DEF Inv, RowsFit
<1>4. ASSUME NEW t \in Terms, NEW b \in Beneficiaries, row[b].status = "active"
      PROVE  SnapshotOf(t, b) \in Contents /\ SnapshotOf(t, b) \in Content
      BY <1>3, <1>4 DEF SnapshotOf, Contents, Content
<1>5. /\ NoContent \in Content /\ 0 \in Nat
      /\ \A e \in ShownOf(r) : e \in Nat /\ e <= row[r].version
      /\ \A n \in Revisions : n \in Nat
      BY <1>2, IntakeAssumption DEF Content, ShownOf, RowType, Revisions
<1>6. {"draft", "submit", "cancel", "mark_eligible", "revise"} \cup Reviews \subseteq Ops
      BY DEF Ops, Transitions, Reviews
<1> USE DEF Justified, RequestOps, BeneficiaryOps, Decisions, Reviews
<1>7. ASSUME NEW t \in Terms, NEW b \in Beneficiaries, CreateDraftReads(c, r, t, b)
      PROVE  Inv'
  <2>1. row[b].status = "active" /\ Begin(c, "draft", r, 0, SnapshotOf(t, b), 0)
        BY <1>7 DEF CreateDraftReads
  <2>2. Justified(c, [op |-> "draft", on |-> r, expected |-> 0, was |-> row[r],
                      filing |-> SnapshotOf(t, b), naming |-> 0])
        BY <1>4, <2>1 DEF Transitions
  <2>3. QED
        BY <1>2, <1>4, <1>5, <1>6, <2>1, <2>2, BeginKeeps
<1>8. ASSUME NEW e \in ShownOf(r), SubmitReads(c, r, e)
      PROVE  Inv'
  <2>1. row[r].status \in Correctable /\ Begin(c, "submit", r, e, NoContent, 0)
        BY <1>8 DEF SubmitReads
  <2>2. Justified(c, [op |-> "submit", on |-> r, expected |-> e, was |-> row[r],
                      filing |-> NoContent, naming |-> 0])
        BY <1>5, <2>1 DEF Transitions
  <2>3. QED
        BY <1>2, <1>5, <1>6, <2>1, <2>2, BeginKeeps
<1>9. ASSUME NEW e \in ShownOf(r), CancelRequestReads(c, r, e)
      PROVE  Inv'
  <2>1. /\ row[r].status \in Cancellable /\ Begin(c, "cancel", r, e, NoContent, 0)
        /\ c \in TraderUsers => row[r].status \in TraderMayCancel
        BY <1>9 DEF CancelRequestReads
  <2>2. Justified(c, [op |-> "cancel", on |-> r, expected |-> e, was |-> row[r],
                      filing |-> NoContent, naming |-> 0])
        BY <1>5, <2>1 DEF Transitions
  <2>3. QED
        BY <1>2, <1>5, <1>6, <2>1, <2>2, BeginKeeps
<1>10. ASSUME NEW e \in ShownOf(r), NEW op \in Reviews, ReviewReads(c, r, e, op)
       PROVE  Inv'
  <2>1. row[r].status \in Transitions[op].from /\ Begin(c, op, r, e, NoContent, 0)
        BY <1>10 DEF ReviewReads
  <2>2. Justified(c, [op |-> op, on |-> r, expected |-> e, was |-> row[r],
                      filing |-> NoContent, naming |-> 0])
        BY <1>5, <2>1
  <2>3. QED
        BY <1>2, <1>5, <1>6, <2>1, <2>2, BeginKeeps
<1>11. ASSUME NEW e \in ShownOf(r), NEW n \in Revisions, MarkEligibleReads(c, r, e, n)
       PROVE  Inv'
  <2>1. /\ row[r].status \in Transitions["mark_eligible"].from /\ row[r].edition = n
        /\ Begin(c, "mark_eligible", r, e, NoContent, n)
        BY <1>11 DEF MarkEligibleReads
  <2>2. Justified(c, [op |-> "mark_eligible", on |-> r, expected |-> e, was |-> row[r],
                      filing |-> NoContent, naming |-> n])
        BY <1>5, <2>1
  <2>3. QED
        BY <1>2, <1>5, <1>6, <2>1, <2>2, BeginKeeps
<1>12. ASSUME NEW e \in ShownOf(r), NEW t \in Terms, NEW b \in Beneficiaries,
              CreateRevisionReads(c, r, e, t, b)
       PROVE  Inv'
  <2>1. /\ row[r].status \in Correctable /\ row[b].status = "active"
        /\ row[r].edition < MaxRevisions
        /\ Begin(c, "revise", r, e, SnapshotOf(t, b), 0)
        BY <1>12 DEF CreateRevisionReads
  <2>2. Justified(c, [op |-> "revise", on |-> r, expected |-> e, was |-> row[r],
                      filing |-> SnapshotOf(t, b), naming |-> 0])
        BY <1>4, <1>5, <2>1 DEF Transitions
  <2>3. QED
        BY <1>2, <1>4, <1>5, <1>6, <2>1, <2>2, BeginKeeps
<1>13. QED
       BY <1>1, <1>7, <1>8, <1>9, <1>10, <1>11, <1>12

LEMMA MaintainingKeeps ==
    ASSUME Inv, NEW c \in Clients, Maintaining(c)
    PROVE  Inv'
<1>1. /\ \A x \in Rows : row[x] \in RowType
      /\ Beneficiaries \subseteq Rows /\ Business \in Rows
      /\ NoContent \in Content /\ 0 \in Nat
      /\ {"amend", "deactivate"} \cup Decisions \subseteq Ops
      BY DEF Rows, Inv, TypeOK, Content, Ops, Transitions, Decisions
<1>2. \A x \in Rows : \A e \in ShownOf(x) : e \in Nat /\ e <= row[x].version
      BY <1>1 DEF ShownOf, RowType
<1> USE DEF Justified, RequestOps, BeneficiaryOps, Decisions, Reviews
<1>3. ASSUME NEW b \in Beneficiaries, NEW e \in ShownOf(b), UpdateBeneficiaryReads(c, b, e)
      PROVE  Inv'
  <2>1. row[b].status = "active" /\ Begin(c, "amend", b, e, NoContent, 0)
        BY <1>3 DEF UpdateBeneficiaryReads
  <2>2. Justified(c, [op |-> "amend", on |-> b, expected |-> e, was |-> row[b],
                      filing |-> NoContent, naming |-> 0])
        BY <1>1, <1>2, <2>1 DEF Transitions
  <2>3. QED
        BY <1>1, <1>2, <2>1, <2>2, BeginKeeps
<1>4. ASSUME NEW b \in Beneficiaries, NEW e \in ShownOf(b), DeactivateBeneficiaryReads(c, b, e)
      PROVE  Inv'
  <2>1. /\ row[b].status \in Transitions["deactivate"].from
        /\ Begin(c, "deactivate", b, e, NoContent, 0)
        BY <1>4 DEF DeactivateBeneficiaryReads
  <2>2. Justified(c, [op |-> "deactivate", on |-> b, expected |-> e, was |-> row[b],
                      filing |-> NoContent, naming |-> 0])
        BY <1>1, <1>2, <2>1
  <2>3. QED
        BY <1>1, <1>2, <2>1, <2>2, BeginKeeps
<1>5. ASSUME NEW e \in ShownOf(Business), NEW op \in Decisions, DecideReads(c, e, op)
      PROVE  Inv'
  <2>1. /\ row[Business].status \in Transitions[op].from
        /\ Begin(c, op, Business, e, NoContent, 0)
        BY <1>5 DEF DecideReads
  <2>2. Justified(c, [op |-> op, on |-> Business, expected |-> e, was |-> row[Business],
                      filing |-> NoContent, naming |-> 0])
        BY <1>1, <1>2, <2>1
  <2>3. QED
        BY <1>1, <1>2, <2>1, <2>2, BeginKeeps
<1>6. QED
      BY <1>3, <1>4, <1>5 DEF Maintaining

\* Every step keeps the invariant.
LEMMA NextKeeps == Inv /\ [Next]_vars => Inv'
<1> SUFFICES ASSUME Inv, [Next]_vars PROVE Inv'
    OBVIOUS
<1>1. ASSUME NEW c \in Clients,
             \/ Requesting(c) \/ Maintaining(c) \/ CreateDraft(c) \/ CreateRevision(c)
             \/ UpdateBeneficiary(c) \/ Move(c) \/ Abandon(c)
      PROVE  Inv'
      BY <1>1, RequestingKeeps, MaintainingKeeps, CreateDraftKeeps, CreateRevisionKeeps,
         UpdateBeneficiaryKeeps, MoveKeeps, AbandonKeeps
<1>2. ASSUME NEW b \in Beneficiaries, CreateBeneficiary(b)
      PROVE  Inv'
      BY <1>2, CreateBeneficiaryKeeps
<1>3. CASE UNCHANGED vars
  <2>1. row' = row /\ content' = content /\ named' = named /\ doing' = doing
        BY <1>3 DEF vars
  <2>2. QED
        BY <2>1 DEF Inv, TypeOK, RevisionsInOrder, EligibleIsWhatWasNamed, RowsFit, CallsFit,
                    Justified, StillAsRead
<1>4. QED
      BY <1>1, <1>2, <1>3 DEF Next

\* The invariant of RequestIntake holds in every behaviour.
THEOREM Invariant == Spec => []Inv
  BY InitInv, NextKeeps, PTL DEF Spec

\* Whatever a request's history, its rows have their types.
THEOREM TypeCorrect == Spec => []TypeOK
<1>1. Inv => TypeOK
      BY DEF Inv
<1>2. QED
      BY <1>1, Invariant, PTL

\* The revisions of a request are numbered without a gap up to the one it points
\* at, whoever corrects it at the same time.
THEOREM RevisionsAreInOrder == Spec => []RevisionsInOrder
<1>1. Inv => RevisionsInOrder
      BY DEF Inv
<1>2. QED
      BY <1>1, Invariant, PTL

\* An eligible request is at the revision the accountant named.
THEOREM EligibleAsNamed == Spec => []EligibleIsWhatWasNamed
<1>1. Inv => EligibleIsWhatWasNamed
      BY DEF Inv
<1>2. QED
      BY <1>1, Invariant, PTL

-----------------------------------------------------------------------------
\* What each step does to the rows, and for whom.
LEMMA StepOnRows ==
    ASSUME Inv, [Next]_vars
    PROVE  \/ row' = row
           \/ \E c \in Clients : CreateDraft(c) \/ CreateRevision(c) \/ UpdateBeneficiary(c) \/ Move(c)
           \/ \E b \in Beneficiaries : CreateBeneficiary(b)
<1>1. ASSUME NEW c \in Clients, Requesting(c) \/ Maintaining(c) \/ Abandon(c)
      PROVE  row' = row
      BY <1>1 DEF Requesting, Maintaining, Abandon, CreateDraftReads, SubmitReads,
         CancelRequestReads, ReviewReads, MarkEligibleReads, CreateRevisionReads,
         UpdateBeneficiaryReads, DeactivateBeneficiaryReads, DecideReads, Begin
<1>2. CASE UNCHANGED vars
      BY <1>2 DEF vars
<1>3. QED
      BY <1>1, <1>2 DEF Next

\* A trader's cancellation never takes a request from under the accountant.
THEOREM AccountantIsNotInterrupted == Spec => AccountantKeepsTheRequest
<1>1. ASSUME Inv, [Next]_vars, NEW r \in Requests, NEW c \in TraderUsers,
             row[r].status = "under_accountant_review", row'[r].status = "cancelled"
      PROVE  doing'[c] = doing[c]
  <2>1. r \in Rows /\ c \in Clients /\ row[r] \in RowType
        BY <1>1 DEF Rows, Clients, Inv, TypeOK
  <2>2. row' # row
        BY <1>1
  <2>3. ASSUME NEW e \in Clients, CreateDraft(e)
        PROVE  FALSE
        BY <1>1, <2>1, <2>3 DEF CreateDraft, Inv, TypeOK
  <2>4. ASSUME NEW e \in Clients, CreateRevision(e)
        PROVE  FALSE
        BY <1>1, <2>1, <2>4 DEF CreateRevision, CompareAndSwap, Inv, TypeOK
  <2>5. ASSUME NEW e \in Clients, UpdateBeneficiary(e)
        PROVE  FALSE
        BY <1>1, <2>1, <2>5 DEF UpdateBeneficiary, CompareAndSwap, Inv, TypeOK
  <2>6. ASSUME NEW b \in Beneficiaries, CreateBeneficiary(b)
        PROVE  FALSE
        BY <1>1, <2>1, <2>6 DEF CreateBeneficiary, Inv, TypeOK
  <2>7. ASSUME NEW e \in Clients, Move(e)
        PROVE  doing'[c] = doing[c]
    <3>1. /\ doing[e].op \in DOMAIN Transitions /\ Justified(e, doing[e])
          /\ doing[e].was = row[doing[e].on]
          /\ row' = [row EXCEPT ![doing[e].on] = [status |-> Transitions[doing[e].op].to,
               edition |-> row[doing[e].on].edition, version |-> row[doing[e].on].version + 1]]
          BY <1>1, <2>7, MoveTakesAStep
    <3>2. doing[e].on = r /\ Transitions[doing[e].op].to = "cancelled"
          BY <1>1, <2>1, <3>1 DEF Inv, TypeOK
    <3>3. doing[e].op = "cancel"
          BY <3>1, <3>2 DEF Transitions
    <3>4. e \notin TraderUsers
          BY <1>1, <3>1, <3>2, <3>3 DEF Justified, TraderMayCancel
    <3>5. QED
          BY <1>1, <2>1, <2>7, <3>4, ReturnFrees DEF Move
  <2>8. QED
        BY <1>1, <2>2, <2>3, <2>4, <2>5, <2>6, <2>7, StepOnRows
<1>2. Inv /\ [Next]_vars =>
        [\A r \in Requests, c \in TraderUsers :
           row[r].status = "under_accountant_review" /\ row'[r].status = "cancelled"
             => doing'[c] = doing[c]]_vars
      BY <1>1
<1>3. QED
      BY <1>2, Invariant, PTL DEF Spec, AccountantKeepsTheRequest

-----------------------------------------------------------------------------
\* The abstract value of a row written.
LEMMA WriteMaps ==
    ASSUME Inv, NEW x \in Rows, NEW s, NEW n, NEW v,
           row' = [row EXCEPT ![x] = [status |-> s, edition |-> n, version |-> v]]
    PROVE  /\ [y \in Rows |-> row'[y].status] = [[y \in Rows |-> row[y].status] EXCEPT ![x] = s]
           /\ [y \in Rows |-> row'[y].edition] = [[y \in Rows |-> row[y].edition] EXCEPT ![x] = n]
<1>1. \A y \in Rows : row'[y] = IF y = x THEN [status |-> s, edition |-> n, version |-> v]
                                 ELSE row[y]
      BY DEF Inv, TypeOK
<1>2. \A y \in Rows : /\ row'[y].status = (IF y = x THEN s ELSE row[y].status)
                      /\ row'[y].edition = (IF y = x THEN n ELSE row[y].edition)
      BY <1>1
<1>3. QED
      BY <1>2

\* Reading and swapping in two steps implements commands that happen at an instant.
THEOREM Implementation == Spec => ImplementsLifecycle
<1> DEFINE st == [x \in Rows |-> row[x].status]
           ed == [x \in Rows |-> row[x].edition]
<1>1. Init => Lifecycle!RLInit
  <2> SUFFICES ASSUME Init PROVE Lifecycle!RLInit
      OBVIOUS
  <2>1. \A x \in Rows : /\ row[x].status = (IF x = Business THEN "pending" ELSE "none")
                         /\ row[x].edition = 0
        BY DEF Init
  <2>2. QED
        BY <2>1 DEF Lifecycle!RLInit, Rows
<1>2. ASSUME Inv, [Next]_vars
      PROVE  [Lifecycle!RLNext]_(Lifecycle!rlVars)
  <2>1. CASE row' = row
        BY <2>1 DEF Lifecycle!rlVars
  <2>2. ASSUME NEW c \in Clients, CreateDraft(c)
        PROVE  Lifecycle!RLNext
    <3>0. PICK r : r = doing[c].on
          OBVIOUS
    <3>1. doing[c] # Idle /\ doing[c].op = "draft"
          BY <2>2 DEF CreateDraft, Idle
    <3>2. r \in Requests /\ r \in Rows
          BY <1>2, <3>0, <3>1 DEF Inv, CallsFit, Justified, RequestOps, Rows
    <3>3. /\ row[r].status = "none"
          /\ row' = [row EXCEPT ![r] = [status |-> "draft", edition |-> 1, version |-> 1]]
          BY <2>2, <3>0 DEF CreateDraft
    <3>4. /\ st[r] = "none"
          /\ st' = [st EXCEPT ![r] = "draft"]
          /\ ed' = [ed EXCEPT ![r] = 1]
      <4>1. PICK s, n, v : s = "draft" /\ n = 1 /\ v = 1
            OBVIOUS
      <4>2. row' = [row EXCEPT ![r] = [status |-> s, edition |-> n, version |-> v]]
            BY <3>3, <4>1
      <4>3. st' = [st EXCEPT ![r] = s] /\ ed' = [ed EXCEPT ![r] = n]
            BY <1>2, <3>2, <4>2, WriteMaps
      <4>4. QED
            BY <3>2, <3>3, <4>1, <4>3
    <3>5. Lifecycle!Appear(r, "draft")
          BY <3>4 DEF Lifecycle!Appear
    <3>6. QED
          BY <3>2, <3>5 DEF Lifecycle!RLNext
  <2>3. ASSUME NEW c \in Clients, CreateRevision(c)
        PROVE  Lifecycle!RLNext
    <3>1. PICK r \in Requests :
            /\ row[r].status \in Correctable
            /\ row' = [row EXCEPT ![r] = [status |-> row[r].status,
                 edition |-> row[r].edition + 1, version |-> row[r].version + 1]]
          BY <1>2, <2>3, CreateRevisionKeeps
    <3>2. r \in Rows
          BY DEF Rows
    <3>3. /\ st[r] \in Lifecycle!WithTrader
          /\ st' = [st EXCEPT ![r] = row[r].status]
          /\ ed' = [ed EXCEPT ![r] = row[r].edition + 1]
          BY <1>2, <3>1, <3>2, WriteMaps DEF Correctable, Lifecycle!WithTrader
    <3>4. st' = st /\ ed' = [ed EXCEPT ![r] = ed[r] + 1]
          BY <3>2, <3>3
    <3>5. Lifecycle!Revise(r, Lifecycle!WithTrader)
          BY <3>3, <3>4 DEF Lifecycle!Revise
    <3>6. QED
          BY <3>5 DEF Lifecycle!RLNext
  <2>4. ASSUME NEW c \in Clients, UpdateBeneficiary(c)
        PROVE  [Lifecycle!RLNext]_(Lifecycle!rlVars)
    <3>1. PICK b \in Beneficiaries : \E n \in {row[b].edition, row[b].edition + 1} :
            /\ row[b].status = "active"
            /\ row' = [row EXCEPT ![b] = [status |-> row[b].status,
                         edition |-> n, version |-> row[b].version + 1]]
          BY <1>2, <2>4, UpdateBeneficiaryKeeps
    <3>2. PICK n \in {row[b].edition, row[b].edition + 1} :
            row' = [row EXCEPT ![b] = [status |-> row[b].status,
                         edition |-> n, version |-> row[b].version + 1]]
          BY <3>1
    <3>3. b \in Rows /\ st[b] = "active"
          BY <3>1 DEF Rows
    <3>4. st' = [st EXCEPT ![b] = row[b].status] /\ ed' = [ed EXCEPT ![b] = n]
          BY <1>2, <3>2, <3>3, WriteMaps
    <3>5. st' = st
          BY <3>3, <3>4
    <3>6. CASE n = row[b].edition
      <4>1. ed' = ed
            BY <3>3, <3>4, <3>6
      <4>2. QED
            BY <3>5, <4>1 DEF Lifecycle!rlVars
    <3>7. CASE n = row[b].edition + 1
      <4>1. ed' = [ed EXCEPT ![b] = ed[b] + 1]
            BY <3>3, <3>4, <3>7
      <4>2. Lifecycle!Revise(b, {"active"})
            BY <3>3, <3>5, <4>1 DEF Lifecycle!Revise
      <4>3. QED
            BY <4>2 DEF Lifecycle!RLNext
    <3>8. QED
          BY <3>2, <3>6, <3>7
  <2>5. ASSUME NEW c \in Clients, Move(c)
        PROVE  Lifecycle!RLNext
    <3>0. PICK x, op, to : x = doing[c].on /\ op = doing[c].op /\ to = Transitions[op].to
          OBVIOUS
    <3>1. /\ op \in DOMAIN Transitions /\ x \in Rows /\ Justified(c, doing[c])
          /\ doing[c].was = row[x]
          /\ row' = [row EXCEPT ![x] = [status |-> to, edition |-> row[x].edition,
                                         version |-> row[x].version + 1]]
          BY <1>2, <2>5, <3>0, MoveTakesAStep
    <3>2. st[x] \in Transitions[op].from
          BY <3>0, <3>1 DEF Justified
    <3>3. st' = [st EXCEPT ![x] = to] /\ ed' = [ed EXCEPT ![x] = row[x].edition]
      <4>1. PICK n, v : n = row[x].edition /\ v = row[x].version + 1
            OBVIOUS
      <4>2. row' = [row EXCEPT ![x] = [status |-> to, edition |-> n, version |-> v]]
            BY <3>1, <4>1
      <4>0. x \in Rows /\ Inv
            BY <1>2, <3>1
      <4>3. st' = [st EXCEPT ![x] = to] /\ ed' = [ed EXCEPT ![x] = n]
            BY <4>0, <4>2, WriteMaps
      <4>4. QED
            BY <4>1, <4>3
    <3>4. ed' = ed
          BY <3>1, <3>3
    <3>5. CASE op \in RequestOps
      <4>1. x \in Requests
            BY <3>0, <3>1, <3>5 DEF Justified
      <4>2. <<st[x], to>> \in Lifecycle!RequestSteps
            BY <3>0, <3>1, <3>2, <3>5 DEF Transitions, RequestOps, Reviews, Correctable, Cancellable,
                                    Lifecycle!RequestSteps
      <4>3. Lifecycle!Step(x, Lifecycle!RequestSteps)
        <5>1. <<st[x], to>>[1] = st[x] /\ <<st[x], to>>[2] = to
              OBVIOUS
        <5>2. QED
              BY <3>3, <3>4, <4>2, <5>1 DEF Lifecycle!Step
      <4>4. QED
            BY <4>1, <4>3 DEF Lifecycle!RLNext
    <3>6. CASE op \in BeneficiaryOps
      <4>1. x \in Beneficiaries
            BY <3>0, <3>1, <3>6 DEF Justified
      <4>2. <<st[x], to>> \in Lifecycle!BeneficiarySteps
            BY <3>0, <3>1, <3>2, <3>6 DEF Transitions, BeneficiaryOps, Lifecycle!BeneficiarySteps
      <4>3. Lifecycle!Step(x, Lifecycle!BeneficiarySteps)
        <5>1. <<st[x], to>>[1] = st[x] /\ <<st[x], to>>[2] = to
              OBVIOUS
        <5>2. QED
              BY <3>3, <3>4, <4>2, <5>1 DEF Lifecycle!Step
      <4>4. QED
            BY <4>1, <4>3 DEF Lifecycle!RLNext
    <3>7. CASE op \in Decisions
      <4>1. x = Business
            BY <3>0, <3>1, <3>7 DEF Justified
      <4>2. <<st[x], to>> \in Lifecycle!BusinessSteps
            BY <3>0, <3>1, <3>2, <3>7 DEF Transitions, Decisions, Lifecycle!BusinessSteps
      <4>3. Lifecycle!Step(x, Lifecycle!BusinessSteps)
        <5>1. <<st[x], to>>[1] = st[x] /\ <<st[x], to>>[2] = to
              OBVIOUS
        <5>2. QED
              BY <3>3, <3>4, <4>2, <5>1 DEF Lifecycle!Step
      <4>4. QED
            BY <4>1, <4>3 DEF Lifecycle!RLNext
    <3>8. QED
          BY <3>1, <3>5, <3>6, <3>7, MovesByRow
  <2>6. ASSUME NEW b \in Beneficiaries, CreateBeneficiary(b)
        PROVE  Lifecycle!RLNext
    <3>1. /\ b \in Rows /\ row[b].status = "none"
          /\ row' = [row EXCEPT ![b] = [status |-> "active", edition |-> 1, version |-> 1]]
          BY <2>6 DEF CreateBeneficiary, Rows
    <3>2. /\ st[b] = "none"
          /\ st' = [st EXCEPT ![b] = "active"]
          /\ ed' = [ed EXCEPT ![b] = 1]
      <4>1. PICK s, n, v : s = "active" /\ n = 1 /\ v = 1
            OBVIOUS
      <4>2. row' = [row EXCEPT ![b] = [status |-> s, edition |-> n, version |-> v]]
            BY <3>1, <4>1
      <4>0. b \in Rows /\ Inv
            BY <1>2, <3>1
      <4>3. st' = [st EXCEPT ![b] = s] /\ ed' = [ed EXCEPT ![b] = n]
            BY <4>0, <4>2, WriteMaps
      <4>4. QED
            BY <3>1, <4>1, <4>3
    <3>3. Lifecycle!Appear(b, "active")
          BY <3>2 DEF Lifecycle!Appear
    <3>4. QED
          BY <3>3 DEF Lifecycle!RLNext
  <2>7. QED
        BY <1>2, <2>1, <2>2, <2>3, <2>4, <2>5, <2>6, StepOnRows
<1>3. QED
      BY <1>1, <1>2, Invariant, PTL DEF Spec, ImplementsLifecycle, Lifecycle!RLSpec

=============================================================================
