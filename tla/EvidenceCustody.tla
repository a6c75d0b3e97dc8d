---------------------------- MODULE EvidenceCustody ----------------------------
(***************************************************************************)
(* What the chain of evidence promises, whatever is cut, linked, replaced, *)
(* revoked, reviewed and corrected at once.  An attempt that has been      *)
(* given primary evidence is never without it and never has two: a segment *)
(* takes the place of another, evidences one attempt at a time, and does   *)
(* not come back to an attempt it was taken from.  A trader is shown       *)
(* images that were cleared, and that somebody had linked to a payment of  *)
(* that trader's own request; once shown one, only evidence put in the     *)
(* place of other evidence changes it.                                     *)
(***************************************************************************)
CONSTANTS Attempts, Segments, Requests, RequestOf, NoImage

VARIABLES
    primary,    \* the segment, if any, that evidences each attempt
    past,       \* segments that did, and were taken back
    linked,     \* the pairs of attempt and segment somebody has ever linked
    cleared,    \* segments whose image was passed as it now stands
    published,  \* requests with a published result
    seen        \* the image each publication shows

evidenceVars == <<primary, past, linked>>
shownVars    == <<published, seen>>
ecVars       == <<evidenceVars, cleared, shownVars>>

ECInit ==
    /\ primary = [a \in Attempts |-> {}]
    /\ past = [a \in Attempts |-> {}]
    /\ linked = {}
    /\ cleared = {}
    /\ published = {}
    /\ seen = [r \in Requests |-> NoImage]

\* Supplementary evidence: it may be linked without limit.
Link(a, s) ==
    /\ linked' = linked \cup {<<a, s>>}
    /\ UNCHANGED <<primary, past>>

Unused(s) == \A a \in Attempts : s \notin primary[a]

Give(a, s) ==
    /\ primary[a] = {} /\ past[a] = {}
    /\ Unused(s)
    /\ primary' = [primary EXCEPT ![a] = {s}]
    /\ linked' = linked \cup {<<a, s>>}
    /\ UNCHANGED past

Exchange(a, s) ==
    /\ \E old \in Segments : /\ primary[a] = {old}
                             /\ past' = [past EXCEPT ![a] = @ \cup {old}]
    /\ Unused(s) /\ s \notin past[a]
    /\ primary' = [primary EXCEPT ![a] = {s}]
    /\ linked' = linked \cup {<<a, s>>}

Clear(s) ==
    /\ cleared' = cleared \cup {s}
    /\ UNCHANGED <<evidenceVars, shownVars>>

LinkedTo(r, s) == \E a \in Attempts : RequestOf[a] = r /\ <<a, s>> \in linked

Publish(r, s) ==
    /\ r \notin published
    /\ s # NoImage => s \in cleared /\ LinkedTo(r, s)
    /\ published' = published \cup {r}
    /\ seen' = [seen EXCEPT ![r] = s]
    /\ UNCHANGED <<evidenceVars, cleared>>

Correct(a, s) ==
    /\ RequestOf[a] \in published
    /\ s \in cleared
    /\ Link(a, s) \/ Exchange(a, s)
    /\ seen' = [seen EXCEPT ![RequestOf[a]] = s]
    /\ UNCHANGED <<cleared, published>>

ECNext ==
    \/ \E a \in Attempts, s \in Segments :
         \/ (Link(a, s) \/ Give(a, s) \/ Exchange(a, s)) /\ UNCHANGED <<cleared, shownVars>>
         \/ Correct(a, s)
    \/ \E s \in Segments : Clear(s)
    \/ \E r \in Requests, s \in Segments \cup {NoImage} : Publish(r, s)

ECSpec == ECInit /\ [][ECNext]_ecVars

=============================================================================
