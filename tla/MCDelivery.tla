------------------------------ MODULE MCDelivery ------------------------------
EXTENDS Delivery, TLC

CONSTANTS cmd, pay, upl, p, q

\* Two bodies of an upload with the same form and other bytes, or of a confirmation with
\* the same attempt and tracking number and another note (payment_result.py:160), are one
\* request; the third command hashes the part in which they differ.
MCRequestHash ==
    (cmd :> (p :> 1 @@ q :> 2)) @@
    (pay :> (p :> 1 @@ q :> 1)) @@
    (upl :> (p :> 1 @@ q :> 1))
===============================================================================
