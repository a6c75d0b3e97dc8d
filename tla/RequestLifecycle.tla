-------------------------- MODULE RequestLifecycle --------------------------
(***************************************************************************)
(* What intake promises: whoever overlaps with whom, a payment request, a  *)
(* beneficiary and the business that owns them each move as if every       *)
(* command happened at one instant, and a request's content changes only   *)
(* while it is with the trader.                                            *)
(***************************************************************************)
EXTENDS Naturals

CONSTANTS Requests, Beneficiaries, Business

VARIABLES
    status,   \* the status of each request and beneficiary, and of the business
    edition   \* the revision a request stands at, the edition of a beneficiary

rlVars == <<status, edition>>

WithTrader == {"draft", "needs_trader_correction"}

RequestSteps ==
    {<<"draft", "submitted_to_center">>,
     <<"needs_trader_correction", "submitted_to_center">>,
     <<"submitted_to_center", "under_accountant_review">>,
     <<"submitted_to_center", "needs_trader_correction">>,
     <<"under_accountant_review", "needs_trader_correction">>,
     <<"under_accountant_review", "eligible_for_batching">>,
     <<"draft", "cancelled">>, <<"submitted_to_center", "cancelled">>,
     <<"under_accountant_review", "cancelled">>,
     <<"needs_trader_correction", "cancelled">>,
     <<"eligible_for_batching", "cancelled">>}

BusinessSteps ==
    {<<"pending", "active">>, <<"pending", "rejected">>, <<"rejected", "rejected">>,
     <<"active", "suspended">>, <<"suspended", "active">>}

BeneficiarySteps == {<<"active", "inactive">>}

RLInit ==
    /\ status = [x \in Requests \cup Beneficiaries \cup {Business} |->
                   IF x = Business THEN "pending" ELSE "none"]
    /\ edition = [x \in Requests \cup Beneficiaries \cup {Business} |-> 0]

Appear(x, s) ==
    /\ status[x] = "none"
    /\ status' = [status EXCEPT ![x] = s]
    /\ edition' = [edition EXCEPT ![x] = 1]

Step(x, steps) ==
    /\ \E s \in steps : status[x] = s[1] /\ status' = [status EXCEPT ![x] = s[2]]
    /\ UNCHANGED edition

Revise(x, where) ==
    /\ status[x] \in where
    /\ edition' = [edition EXCEPT ![x] = @ + 1]
    /\ UNCHANGED status

RLNext ==
    \/ \E r \in Requests :
         Appear(r, "draft") \/ Step(r, RequestSteps) \/ Revise(r, WithTrader)
    \/ \E b \in Beneficiaries :
         Appear(b, "active") \/ Step(b, BeneficiarySteps) \/ Revise(b, {"active"})
    \/ Step(Business, BusinessSteps)

RLSpec == RLInit /\ [][RLNext]_rlVars
=============================================================================
