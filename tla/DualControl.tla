------------------------------ MODULE DualControl ------------------------------
(***************************************************************************)
(* What the batch commands promise about one list of payments, whatever    *)
(* the tables they keep: it is prepared once and never edited, submitted   *)
(* by a preparer, judged at most once and by somebody who neither prepared *)
(* nor submitted it, and released to the bank only after that judgement    *)
(* said yes.  A list can be withdrawn at any time; what was withdrawn is   *)
(* never submitted or judged again.                                        *)
(*                                                                         *)
(* Release after withdrawal is allowed: a person may report as sent a file *)
(* produced while the list was authorised, and the record must say so.     *)
(***************************************************************************)

CONSTANTS
    Lists,      \* names for lists of payments
    Payments,   \* what a list may contain
    Preparers,  \* people who may prepare and submit
    Judges,     \* people who may authorise and refuse
    Nobody      \* no person

VARIABLES
    stage,     \* where each list stands
    content,   \* the payments of each list
    maker,     \* who prepared it
    submitter, \* who submitted it
    judge,     \* who judged it
    verdict,   \* what was decided: it outlives a withdrawal
    released   \* the lists a person has reported sent to the bank

dcVars == <<stage, content, maker, submitter, judge, verdict, released>>

DCInit ==
    /\ stage = [l \in Lists |-> "absent"]
    /\ content = [l \in Lists |-> {}]
    /\ maker = [l \in Lists |-> Nobody]
    /\ submitter = [l \in Lists |-> Nobody]
    /\ judge = [l \in Lists |-> Nobody]
    /\ verdict = [l \in Lists |-> "none"]
    /\ released = {}

\* Preparing a list may withdraw another: the one it replaces.
Prepare(p, l, S, replaced) ==
    /\ stage[l] = "absent" /\ S # {}
    /\ \A o \in replaced : stage[o] # "absent"
    /\ stage' = [o \in Lists |-> IF o = l THEN "prepared"
                                 ELSE IF o \in replaced THEN "withdrawn" ELSE stage[o]]
    /\ content' = [content EXCEPT ![l] = S]
    /\ maker' = [maker EXCEPT ![l] = p]
    /\ UNCHANGED <<submitter, judge, verdict, released>>

Submit(p, l) ==
    /\ stage[l] = "prepared"
    /\ stage' = [stage EXCEPT ![l] = "submitted"]
    /\ submitter' = [submitter EXCEPT ![l] = p]
    /\ UNCHANGED <<content, maker, judge, verdict, released>>

Judge(p, l, said) ==
    /\ stage[l] = "submitted"
    /\ p # maker[l] /\ p # submitter[l]
    /\ stage' = [stage EXCEPT ![l] = "judged"]
    /\ judge' = [judge EXCEPT ![l] = p]
    /\ verdict' = [verdict EXCEPT ![l] = said]
    /\ UNCHANGED <<content, maker, submitter, released>>

Release(l) ==
    /\ verdict[l] = "approved"
    /\ released' = released \cup {l}
    /\ UNCHANGED <<stage, content, maker, submitter, judge, verdict>>

DCNext ==
    \/ \E p \in Preparers, l \in Lists, S \in SUBSET Payments, replaced \in SUBSET Lists :
         Prepare(p, l, S, replaced)
    \/ \E p \in Preparers, l \in Lists : Submit(p, l)
    \/ \E p \in Judges, l \in Lists, said \in {"approved", "rejected"} : Judge(p, l, said)
    \/ \E l \in Lists : Release(l)

DCSpec == DCInit /\ [][DCNext]_dcVars

=============================================================================
