------------------------------ MODULE Splitting ------------------------------
(***************************************************************************)
(* How one amount becomes the rows a bank accepts: split() of              *)
(* app/batching/splitting.py, which create_batch,                          *)
(* create_replacement_version and the preview call with the rules of a     *)
(* bank profile version and the instant they run at.  One behaviour is one *)
(* call, one step of it one turn of the loop.                              *)
(*                                                                         *)
(* Amounts are integers without a bound, as Python's are; an instant is    *)
(* the time of its day in the business timezone.                           *)
(***************************************************************************)
EXTENDS Integers, Sequences

CONSTANTS
    Amounts,  \* amount_irr of a revision: the database refuses zero
    Limits,   \* the transfer limits a profile may carry: never zero either
    Times,    \* times of the day
    Unset      \* a limit or a cutoff the bank does not publish

ASSUME InputAssumption ==
    /\ Amounts \subseteq Nat \ {0} /\ Limits \subseteq Nat \ {0} /\ Times \subseteq Nat
    /\ Unset \notin Nat

VARIABLES
    amount, rules, at,  \* the arguments
    proposed,           \* the amounts of the rows so far, in row_order
    remaining,
    phase               \* "running" or "returned"

splitVars == <<amount, rules, at, proposed, remaining, phase>>

\* The four columns of bank_profile_versions.
SplittingRules == [default : Limits \cup {Unset}, after : Limits \cup {Unset},
                   cutoff : Times \cup {Unset}, enabled : BOOLEAN]

SplitTypeOK ==
    /\ amount \in Amounts /\ rules \in SplittingRules /\ at \in Times
    /\ proposed \in Seq(Nat \ {0})
    /\ remaining \in Nat
    /\ phase \in {"running", "returned"}

SplitInit ==
    /\ amount \in Amounts /\ rules \in SplittingRules /\ at \in Times
    /\ proposed = <<>> /\ remaining = amount /\ phase = "running"

\* Mutation of ApplicableLimit: either half of the late rule is enough.
LimitAfterAnyCutoff ==
    IF rules.cutoff # Unset /\ at > rules.cutoff THEN rules.after ELSE rules.default

\* The late rule needs both a cutoff and a second limit, and begins strictly after.
ApplicableLimit ==
    IF rules.cutoff # Unset /\ rules.after # Unset /\ at > rules.cutoff
    THEN rules.after ELSE rules.default

\* The amount does not fit one row.
MustSplit == rules.enabled /\ ApplicableLimit # Unset /\ amount > ApplicableLimit

LeaveWhole ==
    /\ phase = "running" /\ ~MustSplit
    /\ proposed' = <<amount>> /\ remaining' = 0 /\ phase' = "returned"
    /\ UNCHANGED <<amount, rules, at>>

\* Mutation of Taken: every row is a full one.
TakenInFull == ApplicableLimit

\* Mutation of Taken: a row stays below the limit.
TakenBelow == IF remaining >= ApplicableLimit /\ ApplicableLimit > 1
              THEN ApplicableLimit - 1 ELSE remaining

Taken == IF remaining > ApplicableLimit THEN ApplicableLimit ELSE remaining

TakeRow ==
    /\ phase = "running" /\ MustSplit
    /\ proposed' = Append(proposed, Taken)
    /\ remaining' = remaining - Taken
    /\ phase' = IF remaining > Taken THEN "running" ELSE "returned"
    /\ UNCHANGED <<amount, rules, at>>

SplitNext == LeaveWhole \/ TakeRow

SplitSpec == SplitInit /\ [][SplitNext]_splitVars

-----------------------------------------------------------------------------
\* "The sum is exact": the rows are full ones and a last one that carries whatever is
\* left, and together they are the amount.
RowsAddUp ==
    phase = "returned" =>
        LET n == Len(proposed) IN
        /\ n > 0
        /\ \A i \in 1 .. n - 1 : proposed[i] = proposed[1]
        /\ (n - 1) * proposed[1] + proposed[n] = amount

\* No row asks for more than the bank said it takes at that time of the day: after the
\* cutoff the second limit where one is published, and the ordinary one otherwise.
NoRowOverTheLimit ==
    rules.enabled /\ phase = "returned" =>
        \A i \in 1 .. Len(proposed) :
            IF rules.after = Unset \/ rules.cutoff = Unset \/ at <= rules.cutoff
            THEN rules.default # Unset => proposed[i] <= rules.default
            ELSE proposed[i] <= rules.after

\* No transfer is made that need not be: with one row less the amount would not fit.
FewestRows ==
    phase = "returned" /\ Len(proposed) > 1 => (Len(proposed) - 1) * ApplicableLimit < amount

=============================================================================
