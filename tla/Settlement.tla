------------------------------ MODULE Settlement ------------------------------
(***************************************************************************)
(* What the result commands promise about money, whatever rows they keep:  *)
(* a payment is open until somebody records its one outcome, the payments  *)
(* recorded as paid never exceed what their order asked for, and the       *)
(* trader is told once, and only when the order is covered exactly, which  *)
(* payments covered it.                                                    *)
(***************************************************************************)
EXTENDS Naturals

CONSTANTS
    Orders,    \* what traders asked to be paid
    Payments,  \* attempts at paying them
    OrderOf,   \* the order of each payment
    Due,       \* what each order asks for
    Total      \* what each set of payments adds up to

VARIABLES
    outcome,  \* of each payment
    told      \* the payments each order's trader was told were made

stVars == <<outcome, told>>

Made(o) == {p \in Payments : OrderOf[p] = o /\ outcome[p] = "paid"}

STInit ==
    /\ outcome = [p \in Payments |-> "open"]
    /\ told = [o \in Orders |-> {}]

Pay(p) ==
    /\ outcome[p] = "open"
    /\ Total[Made(OrderOf[p]) \cup {p}] <= Due[OrderOf[p]]
    /\ outcome' = [outcome EXCEPT ![p] = "paid"]
    /\ UNCHANGED told

Fail(p) ==
    /\ outcome[p] = "open"
    /\ outcome' = [outcome EXCEPT ![p] = "failed"]
    /\ UNCHANGED told

Tell(o) ==
    /\ told[o] = {}
    /\ Total[Made(o)] = Due[o]
    /\ told' = [told EXCEPT ![o] = Made(o)]
    /\ UNCHANGED outcome

STNext == (\E p \in Payments : Pay(p) \/ Fail(p)) \/ (\E o \in Orders : Tell(o))

STSpec == STInit /\ [][STNext]_stVars

=============================================================================
