------------------------------- MODULE GoldSale -------------------------------
(***************************************************************************)
(* Gold sold against incoming money: the commands of app/commands/         *)
(* gold_sale.py, incoming_payment.py, incoming_match.py,                   *)
(* incoming_confirmation.py, gold_dispatch.py and gold_sale_closure.py.    *)
(*                                                                         *)
(* A command is one transaction at READ COMMITTED.  What it reads after    *)
(* locking the order FOR UPDATE is one action with its commit; what it     *)
(* reads before that (the order a claim is made for, the receipt a         *)
(* confirmation decides, the dispatch a trader acknowledges) may change    *)
(* under it, so it is read in an earlier action and kept in doing.  The    *)
(* session writes a column only when its value differs from the one it     *)
(* read: see Written.                                                      *)
(*                                                                         *)
(* An If-Match header is the version the client saw last.  It can only     *)
(* make a command refuse, and a refused command need not happen here,      *)
(* except that it makes a pricing in flight fail: see Bumped.  Receipt and *)
(* match versions are not modelled: no write compares them.                *)
(***************************************************************************)
EXTENDS Naturals

CONSTANTS
    Orders,      \* identifiers for gold_sale_orders rows
    Receipts,    \* identifiers for incoming_payment_receipts rows
    OrderOf,     \* the order each receipt claims to pay
    Rows,        \* bank_statement_rows of finished imports
    Dispatches,  \* identifiers for gold_dispatches rows
    Prices,      \* the amounts a pricing version can come to
    Amounts,     \* the amounts an accountant can confirm
    TotalOf,     \* the sum of an assignment of amounts to receipts
    Clerks,      \* transactions that can be under way at once
    Null         \* the NULL of a nullable column

\* 0 stands for the NULL of an amount column: every amount is positive by a CHECK.
Sums == Amounts \cup {0}

ASSUME DataAssumption ==
    /\ OrderOf \in [Receipts -> Orders]
    /\ Prices \subseteq Nat \ {0}
    /\ Amounts \subseteq Nat \ {0}
    /\ Null \notin Rows \cup Orders

\* TotalOf is the sum: how one receipt's amount changes decides it.
ASSUME SumAssumption ==
    /\ TotalOf \in [[Receipts -> Sums] -> Nat]
    /\ TotalOf[[x \in Receipts |-> 0]] = 0
    /\ \A f, g \in [Receipts -> Sums], x \in Receipts :
         (\A y \in Receipts \ {x} : g[y] = f[y]) => TotalOf[g] + f[x] = TotalOf[f] + g[x]

VARIABLES
    ordStatus,   \* gold_sale_orders.status, "none" before the row exists
    expected,    \* gold_sale_orders.expected_amount_irr
    rcpStatus,   \* incoming_payment_receipts.status
    confirmed,   \* incoming_payment_receipts.confirmed_amount_irr
    discrepant,  \* receipts an incoming_payment_discrepancy task was opened for
    match,       \* incoming_payment_matches.status of each (receipt, row) pair
    active,      \* the pairs whose confirmation_status is active
    dspStatus,   \* gold_dispatches.status
    dspOrder,    \* gold_dispatches.gold_sale_order_id
    overridden,  \* dispatches with a guard_override_at
    doing        \* what each transaction under way has read

ordVars == <<ordStatus, expected>>
rcpVars == <<rcpStatus, confirmed, discrepant>>
mchVars == <<match, active>>
dspVars == <<dspStatus, dspOrder, overridden>>
vars    == <<ordVars, rcpVars, mchVars, dspVars, doing>>

-----------------------------------------------------------------------------
OrderStatuses == {"none", "draft", "submitted", "priced", "payment_evidence_submitted",
    "incoming_payment_partially_confirmed", "incoming_payment_confirmed",
    "dispatched", "received_by_trader", "settled_or_offset", "closed"}
\* Mutation of PriceableFrom: an order being paid may be priced anew.
PriceableWhilePaid == {"submitted", "priced", "incoming_payment_partially_confirmed"}

PriceableFrom    == {"submitted", "priced"}
ClaimableFrom    == {"priced", "payment_evidence_submitted",
                     "incoming_payment_partially_confirmed"}
DispatchableFrom == {"incoming_payment_confirmed", "incoming_payment_partially_confirmed"}
CloseableFrom    == {"received_by_trader", "settled_or_offset"}

ReceiptStatuses  == {"none", "submitted", "candidate_match", "partially_confirmed", "confirmed"}
\* A claim somebody may still match or decide.
Open             == {"submitted", "candidate_match", "partially_confirmed"}
MatchStatuses    == {"none", "proposed", "rejected"}
DispatchStatuses == {"none", "dispatched", "delivered", "settled"}

Pairs == Receipts \X Rows

Idle     == [op: {"idle"}]
Pricing  == [op: {"price"}, order: Orders]
Claim    == [op: {"claim"}, receipt: Receipts, status: OrderStatuses]
Proposal == [op: {"propose"}, receipt: Receipts, status: ReceiptStatuses]
Decision == [op: {"decide"}, receipt: Receipts, status: ReceiptStatuses, amount: Sums]
Checked  == [op: {"confirm"}, receipt: Receipts, status: ReceiptStatuses, amount: Sums,
             offered: Amounts, row: Rows \cup {Null}]
Arrival  == [op: {"acknowledge"}, dispatch: Dispatches]
Jobs     == Idle \cup Pricing \cup Claim \cup Proposal \cup Decision \cup Checked \cup Arrival

TypeOK ==
    /\ ordStatus \in [Orders -> OrderStatuses]
    /\ expected \in [Orders -> Prices \cup {0}]
    /\ rcpStatus \in [Receipts -> ReceiptStatuses]
    /\ confirmed \in [Receipts -> Sums]
    /\ discrepant \subseteq Receipts
    /\ match \in [Pairs -> MatchStatuses]
    /\ active \subseteq Pairs
    /\ dspStatus \in [Dispatches -> DispatchStatuses]
    /\ dspOrder \in [Dispatches -> Orders \cup {Null}]
    /\ overridden \subseteq Dispatches
    /\ doing \in [Clerks -> Jobs]

Init ==
    /\ ordStatus = [o \in Orders |-> "none"]
    /\ expected = [o \in Orders |-> 0]
    /\ rcpStatus = [x \in Receipts |-> "none"]
    /\ confirmed = [x \in Receipts |-> 0]
    /\ discrepant = {}
    /\ match = [p \in Pairs |-> "none"]
    /\ active = {}
    /\ dspStatus = [d \in Dispatches |-> "none"]
    /\ dspOrder = [d \in Dispatches |-> Null]
    /\ overridden = {}
    /\ doing = [c \in Clerks |-> [op |-> "idle"]]

\* The session writes a column only if its value is not the one it read.
Written(new, read, current) == IF new = read THEN current ELSE new

\* Of every confirmed rial of the order, read fresh.
Received(o) == TotalOf[[x \in Receipts |-> IF OrderOf[x] = o THEN confirmed[x] ELSE 0]]

\* A confirmation holds the order FOR UPDATE from its checks to its commit.
Locked(o) == \E c \in Clerks : doing[c].op = "confirm" /\ OrderOf[doing[c].receipt] = o

Begin(c, job) == doing[c].op = "idle" /\ doing' = [doing EXCEPT ![c] = job]
Done(c)       == doing' = [doing EXCEPT ![c] = [op |-> "idle"]]

\* Mutation of Bumped: the version a pricing has read is not compared.
NotBumped(c, o) == Done(c)

\* Clerk c finishes a step that moves the record_version of order o, and a pricing of
\* it that has read the version before will fail in its compare-and-swap.
Bumped(c, o) ==
    doing' = [k \in Clerks |->
                IF k = c \/ (doing[k].op = "price" /\ doing[k].order = o)
                THEN [op |-> "idle"] ELSE doing[k]]

\* A transaction is rolled back: a refusal, a conflict, or a crash.
Abandon(c) ==
    /\ doing[c].op # "idle"
    /\ Done(c)
    /\ UNCHANGED <<ordVars, rcpVars, mchVars, dspVars>>

-----------------------------------------------------------------------------
(* The order and its price. *)

CreateOrder(o) ==
    /\ ordStatus[o] = "none"
    /\ ordStatus' = [ordStatus EXCEPT ![o] = "draft"]
    /\ UNCHANGED <<expected, rcpVars, mchVars, dspVars, doing>>

SubmitOrder(o) ==
    /\ ordStatus[o] = "draft"
    /\ ordStatus' = [ordStatus EXCEPT ![o] = "submitted"]
    /\ UNCHANGED <<expected, rcpVars, mchVars, dspVars, doing>>

PricingReads(c, o) ==
    /\ ordStatus[o] \in PriceableFrom
    /\ Begin(c, [op |-> "price", order |-> o])
    /\ UNCHANGED <<ordVars, rcpVars, mchVars, dspVars>>

\* The new version supersedes the last and the order is repointed at its amount.
CreatePricingVersion(c, price) ==
    LET o == doing[c].order IN
    /\ doing[c].op = "price"
    /\ ~Locked(o)
    /\ ordStatus' = [ordStatus EXCEPT ![o] = "priced"]
    /\ expected' = [expected EXCEPT ![o] = price]
    /\ Bumped(c, o)
    /\ UNCHANGED <<rcpVars, mchVars, dspVars>>

-----------------------------------------------------------------------------
(* Claims and the bank rows suggested for them. *)

ClaimReads(c, x) ==
    /\ rcpStatus[x] = "none"
    /\ \A k \in Clerks : ~(doing[k].op = "claim" /\ doing[k].receipt = x)
    /\ ordStatus[OrderOf[x]] \in ClaimableFrom
    /\ Begin(c, [op |-> "claim", receipt |-> x, status |-> ordStatus[OrderOf[x]]])
    /\ UNCHANGED <<ordVars, rcpVars, mchVars, dspVars>>

\* The order's status is written without a lock, and its version is not moved.
SubmitReceipt(c) ==
    LET x == doing[c].receipt
        o == OrderOf[x] IN
    /\ doing[c].op = "claim"
    /\ ~Locked(o)
    /\ rcpStatus' = [rcpStatus EXCEPT ![x] = "submitted"]
    /\ ordStatus' = [ordStatus EXCEPT ![o] =
                       Written("payment_evidence_submitted", doing[c].status, @)]
    /\ Done(c)
    /\ UNCHANGED <<expected, confirmed, discrepant, mchVars, dspVars>>

ProposalReads(c, x) ==
    /\ rcpStatus[x] \in Open
    /\ Begin(c, [op |-> "propose", receipt |-> x, status |-> rcpStatus[x]])
    /\ UNCHANGED <<ordVars, rcpVars, mchVars, dspVars>>

\* The unique on the pair refuses a second suggestion of it.
ProposeMatch(c, w) ==
    LET x == doing[c].receipt IN
    /\ doing[c].op = "propose"
    /\ match[<<x, w>>] = "none"
    /\ match' = [match EXCEPT ![<<x, w>>] = "proposed"]
    /\ rcpStatus' = [rcpStatus EXCEPT ![x] = Written("candidate_match", doing[c].status, @)]
    /\ Done(c)
    /\ UNCHANGED <<ordVars, confirmed, discrepant, active, dspVars>>

\* Only the candidate's own status is asked: a confirmed match is still proposed.
RejectMatch(p) ==
    /\ match[p] = "proposed"
    /\ match' = [match EXCEPT ![p] = "rejected"]
    /\ UNCHANGED <<ordVars, rcpVars, active, dspVars, doing>>

-----------------------------------------------------------------------------
(* An accountant decides a claim. *)

\* The receipt is read and found open before anything is locked.
ConfirmationReads(c, x) ==
    /\ rcpStatus[x] \in Open
    /\ Begin(c, [op |-> "decide", receipt |-> x, status |-> rcpStatus[x],
                 amount |-> confirmed[x]])
    /\ UNCHANGED <<ordVars, rcpVars, mchVars, dspVars>>

\* Mutation of ConfirmableMatch: the row may be in use.
ConfirmableMatchOnUsedRow(x, w) == match[<<x, w>>] = "proposed" /\ <<x, w>> \notin active

\* "A row already used in an active match", of whichever claim, makes a conflict.
ConfirmableMatch(x, w) ==
    /\ match[<<x, w>>] = "proposed"
    /\ <<x, w>> \notin active
    /\ \A y \in Receipts : <<y, w>> \notin active

\* Mutation of Overpays: this receipt alone is compared with the price.
OverpaysAlone(x, n) == n > expected[OrderOf[x]]

Overpays(x, n) ==
    LET o == OrderOf[x] IN expected[o] # 0 /\ Received(o) + n > expected[o]

\* The order is locked, the match and the sum are read.  Naming no row is allowed.
\* An excess is refused and its task committed; otherwise the commit is to come.
ConfirmationChecks(c, n, w) ==
    LET x == doing[c].receipt IN
    /\ doing[c].op = "decide"
    /\ ~Locked(OrderOf[x])
    /\ w # Null => ConfirmableMatch(x, w)
    /\ \/ /\ Overpays(x, n)
          /\ discrepant' = discrepant \cup {x}
          /\ Done(c)
       \/ /\ ~Overpays(x, n)
          /\ doing' = [doing EXCEPT ![c] =
               [op |-> "confirm", receipt |-> x, status |-> doing[c].status,
                amount |-> doing[c].amount, offered |-> n, row |-> w]]
          /\ UNCHANGED discrepant
    /\ UNCHANGED <<ordVars, rcpStatus, confirmed, mchVars, dspVars>>

\* The match, the receipt and the order move together.  The receipt's amount is
\* replaced, though the total it is judged by counted the old one and the new.
ConfirmIncomingPayment(c) ==
    LET x    == doing[c].receipt
        o    == OrderOf[x]
        n    == doing[c].offered
        full == expected[o] # 0 /\ Received(o) + n >= expected[o] IN
    /\ doing[c].op = "confirm"
    /\ active' = IF doing[c].row = Null THEN active ELSE active \cup {<<x, doing[c].row>>}
    /\ confirmed' = [confirmed EXCEPT ![x] = Written(n, doing[c].amount, @)]
    /\ rcpStatus' = [rcpStatus EXCEPT ![x] =
         Written(IF full THEN "confirmed" ELSE "partially_confirmed", doing[c].status, @)]
    /\ ordStatus' = [ordStatus EXCEPT ![o] =
         IF full THEN "incoming_payment_confirmed" ELSE "incoming_payment_partially_confirmed"]
    /\ Bumped(c, o)
    /\ UNCHANGED <<expected, discrepant, match, dspVars>>

-----------------------------------------------------------------------------
(* The gold leaves, arrives, and the order ends. *)

\* Mutation of GuardPasses: the order's own word is taken for the money.
GuardTrustsStatus(o) == ordStatus[o] = "incoming_payment_confirmed"

GuardPasses(o) == expected[o] # 0 /\ Received(o) >= expected[o]

\* With the order locked.  Without the guard somebody permitted to overrides it.
RecordDispatch(o, d, physical) ==
    /\ ~Locked(o)
    /\ dspStatus[d] = "none"
    /\ ordStatus[o] \in DispatchableFrom
    /\ dspStatus' = [dspStatus EXCEPT ![d] = IF physical THEN "dispatched" ELSE "settled"]
    /\ dspOrder' = [dspOrder EXCEPT ![d] = o]
    /\ overridden' = IF GuardPasses(o) THEN overridden ELSE overridden \cup {d}
    /\ ordStatus' = [ordStatus EXCEPT ![o] =
                       IF physical THEN "dispatched" ELSE "settled_or_offset"]
    /\ doing' = [k \in Clerks |-> IF doing[k].op = "price" /\ doing[k].order = o
                                  THEN [op |-> "idle"] ELSE doing[k]]
    /\ UNCHANGED <<expected, rcpVars, mchVars>>

\* The dispatch is read before its order is locked, and not again.
AcknowledgementReads(c, d) ==
    /\ dspStatus[d] = "dispatched"
    /\ Begin(c, [op |-> "acknowledge", dispatch |-> d])
    /\ UNCHANGED <<ordVars, rcpVars, mchVars, dspVars>>

AcknowledgeDispatch(c) ==
    LET d == doing[c].dispatch
        o == dspOrder[d] IN
    /\ doing[c].op = "acknowledge"
    /\ ~Locked(o)
    /\ dspStatus' = [dspStatus EXCEPT ![d] = "delivered"]
    /\ ordStatus' = [ordStatus EXCEPT ![o] = "received_by_trader"]
    /\ Bumped(c, o)
    /\ UNCHANGED <<expected, rcpVars, mchVars, dspOrder, overridden>>

MetalInTransit(o) == \E d \in Dispatches : dspOrder[d] = o /\ dspStatus[d] = "dispatched"

\* Mutation of CloseOrder: the status is enough, as an order has one movement.
CloseOnStatusAlone(o) ==
    /\ ~Locked(o)
    /\ ordStatus[o] \in CloseableFrom
    /\ ordStatus' = [ordStatus EXCEPT ![o] = "closed"]
    /\ UNCHANGED <<expected, rcpVars, mchVars, dspVars, doing>>

CloseOrder(o) ==
    /\ ~Locked(o)
    /\ ordStatus[o] \in CloseableFrom
    /\ ~MetalInTransit(o)
    /\ ordStatus' = [ordStatus EXCEPT ![o] = "closed"]
    /\ UNCHANGED <<expected, rcpVars, mchVars, dspVars, doing>>

-----------------------------------------------------------------------------
Next ==
    \/ \E o \in Orders : CreateOrder(o) \/ SubmitOrder(o) \/ CloseOrder(o)
    \/ \E c \in Clerks : \/ Abandon(c) \/ SubmitReceipt(c)
                         \/ ConfirmIncomingPayment(c) \/ AcknowledgeDispatch(c)
    \/ \E c \in Clerks, o \in Orders : PricingReads(c, o)
    \/ \E c \in Clerks, price \in Prices : CreatePricingVersion(c, price)
    \/ \E c \in Clerks, x \in Receipts :
         ClaimReads(c, x) \/ ProposalReads(c, x) \/ ConfirmationReads(c, x)
    \/ \E c \in Clerks, w \in Rows : ProposeMatch(c, w)
    \/ \E p \in Pairs : RejectMatch(p)
    \/ \E c \in Clerks, n \in Amounts, w \in Rows \cup {Null} : ConfirmationChecks(c, n, w)
    \/ \E o \in Orders, d \in Dispatches, physical \in BOOLEAN : RecordDispatch(o, d, physical)
    \/ \E c \in Clerks, d \in Dispatches : AcknowledgementReads(c, d)

Spec == Init /\ [][Next]_vars

-----------------------------------------------------------------------------
(* Safety. *)

\* The confirmed amounts of an order never exceed its price, and an order that is
\* covered stays covered whatever is proposed, decided or re-priced beside it: gold
\* that left on the payment guard, with nobody's override, is paid for to the rial.
GuardedDispatchStaysCovered ==
    /\ \A o \in Orders : Received(o) <= expected[o]
    /\ \A d \in Dispatches :
         dspStatus[d] # "none" /\ d \notin overridden =>
           /\ expected[dspOrder[d]] # 0
           /\ Received(dspOrder[d]) = expected[dspOrder[d]]

\* The price of an order never moves once any of its money has been confirmed.
PriceFixedOncePaid ==
    [][\A o \in Orders : Received(o) # 0 => expected'[o] = expected[o]]_vars

\* No order reads as closed while gold of it is on the road: an acknowledgement that
\* read its dispatch long ago may say received of an order with a second movement.
ClosedHasNothingInTransit == \A o \in Orders : ordStatus[o] = "closed" => ~MetalInTransit(o)

\* Within an order one bank row pays one claim: the lock on the order spans the search
\* for active matches and the commit.  (Across orders nothing does.)
RowPaysOnceWithinOrder ==
    \A p, q \in active : p[2] = q[2] /\ OrderOf[p[1]] = OrderOf[q[1]] => p = q

\* What the above rest on.  Before a payment is confirmed an order has no money and no
\* gold moving, and so has one a pricing in flight will still swap.
Untouched(o) ==
    /\ \A x \in Receipts : OrderOf[x] = o => confirmed[x] = 0
    /\ \A d \in Dispatches : dspOrder[d] # o

PricedBeforePaid ==
    /\ \A o \in Orders : ordStatus[o] \in {"none", "draft", "submitted", "priced"} => Untouched(o)
    /\ \A o \in Orders : ordStatus[o] \in ClaimableFrom => expected[o] # 0
    /\ \A x \in Receipts : rcpStatus[x] # "none" => expected[OrderOf[x]] # 0
    /\ \A c \in Clerks :
         /\ doing[c].op = "price" => Untouched(doing[c].order)
         /\ doing[c].op \in {"claim", "propose", "decide", "confirm"} =>
              expected[OrderOf[doing[c].receipt]] # 0

\* A confirmation that has made its checks holds its order alone, and they stay true.
ChecksStayTrue ==
    \A c \in Clerks : doing[c].op = "confirm" =>
        LET o == OrderOf[doing[c].receipt] IN
        /\ \A k \in Clerks : doing[k].op = "confirm" /\ OrderOf[doing[k].receipt] = o => k = c
        /\ Received(o) + doing[c].offered <= expected[o]
        /\ \A y \in Receipts : OrderOf[y] = o => <<y, doing[c].row>> \notin active

DispatchesAreOfOrders ==
    /\ \A d \in Dispatches : dspStatus[d] = "none" <=> dspOrder[d] = Null
    /\ \A c \in Clerks : doing[c].op = "acknowledge" => dspStatus[doing[c].dispatch] # "none"

\* The conjunction is inductive: proved in GoldSale_proofs.
Inv ==
    /\ TypeOK
    /\ PricedBeforePaid
    /\ ChecksStayTrue
    /\ DispatchesAreOfOrders
    /\ GuardedDispatchStaysCovered
    /\ ClosedHasNothingInTransit
    /\ RowPaysOnceWithinOrder

\* gold_dispatch.py:69: "`dispatched`, `received_by_trader`, `settled_or_offset`, `closed`
\* ... are all past this point": an order past dispatch is never dispatchable again.
PastDispatchIsPast ==
    [][\A o \in Orders : ordStatus[o] \in {"dispatched", "received_by_trader",
                                           "settled_or_offset", "closed"}
         => ordStatus'[o] \notin DispatchableFrom]_vars

-----------------------------------------------------------------------------
(* The promise the rows implement. *)

Ledger == INSTANCE GoldLedger WITH
    Sales    <- Orders,
    due      <- expected,
    received <- [o \in Orders |-> Received(o)],
    released <- {o \in Orders : \E d \in Dispatches :
                   dspOrder[d] = o /\ dspStatus[d] # "none" /\ d \notin overridden}

\* Every behaviour of the gold commands keeps the promise of GoldLedger.
ImplementsLedger == Ledger!GLSpec

=============================================================================
