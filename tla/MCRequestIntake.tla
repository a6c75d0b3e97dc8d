-------------------------- MODULE MCRequestIntake --------------------------
EXTENDS RequestIntake

\* A request is corrected once and reviewed; the business is approved and suspended.
MCMaxVersion == [x \in Rows |-> IF x \in Requests THEN 6
                                ELSE IF x = Business THEN 3 ELSE 2]
=============================================================================
