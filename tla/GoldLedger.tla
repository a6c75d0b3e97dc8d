------------------------------ MODULE GoldLedger ------------------------------
(***************************************************************************)
(* What the gold side promises about money, whatever rows it keeps: a sale *)
(* is priced before anything is received for it, what is received never    *)
(* exceeds the price, a sale paid in full stays paid in full, and gold is  *)
(* released without a manager's word only for such a sale.                 *)
(***************************************************************************)
EXTENDS Naturals

CONSTANTS Sales, Prices

VARIABLES
    due,       \* the price of each sale, 0 before there is one
    received,  \* what the centre has confirmed receiving for it
    released   \* sales whose gold left on the strength of that money

glVars == <<due, received, released>>

Covered(s) == due[s] # 0 /\ received[s] = due[s]

GLInit ==
    /\ due = [s \in Sales |-> 0]
    /\ received = [s \in Sales |-> 0]
    /\ released = {}

SetPrice(s) ==
    /\ received[s] = 0 /\ s \notin released
    /\ \E p \in Prices : due' = [due EXCEPT ![s] = p]
    /\ UNCHANGED <<received, released>>

\* An accountant records or restates what has arrived; a covered sale is final.
Receive(s, n) ==
    /\ due[s] # 0 /\ ~Covered(s)
    /\ n \in 0 .. due[s]
    /\ received' = [received EXCEPT ![s] = n]
    /\ UNCHANGED <<due, released>>

Release(s) ==
    /\ Covered(s)
    /\ released' = released \cup {s}
    /\ UNCHANGED <<due, received>>

GLNext ==
    \E s \in Sales : SetPrice(s) \/ Release(s) \/ \E n \in 0 .. due[s] : Receive(s, n)

GLSpec == GLInit /\ [][GLNext]_glVars

=============================================================================
