--------------------------- MODULE MCStatementImport ---------------------------
EXTENDS StatementImport, TLC

CONSTANTS f1, f2, v1, v2, p1, p2, k1, k2, a1, a2

\* The second line of f1 repeats the reference of its first, and f2 its fingerprint.
MCLines == (f1 :> <<[print |-> "a", ref |-> "x", kind |-> "valid"],
                    [print |-> "b", ref |-> "x", kind |-> "warning"]>>) @@
           (f2 :> <<[print |-> "a", ref |-> Null, kind |-> "invalid"]>>)

MCWindow == (v1 :> [from |-> Null, to |-> 2]) @@ (v2 :> [from |-> 2, to |-> Null])

\* Administrators draft and activate at once until the first statement is filed, and
\* after that activate one at a time.  Imports read of the configuration only which
\* versions there are and which are mapped, and neither set ever loses a member.
TakeTurnsLater ==
    \/ \A f \in Files : filed[f] = Null
    \/ /\ \A a, b \in Admins : a # b => admin[a].at = "idle" \/ admin[b].at = "idle"
       /\ \A a \in Admins : admin[a].at # "numbered"

\* Nothing but ConfirmMatch reads or writes the matches.
OneMatch == Cardinality(paid) <= 1

Bounds == TakeTurnsLater /\ OneMatch

\* The window of a version matters only through Overlap, which exchanging v1 and v2
\* leaves as it is.
Symmetry == Permutations(Parsers) \cup Permutations(Clerks) \cup Permutations(Admins)
            \cup Permutations(Versions)
=============================================================================
