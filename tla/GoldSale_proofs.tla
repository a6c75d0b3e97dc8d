---------------------------- MODULE GoldSale_proofs ----------------------------
(***************************************************************************)
(* Proofs about GoldSale, for any orders, receipts, amounts and any sum:   *)
(* its invariant is inductive, and its executions are executions of        *)
(* GoldLedger.                                                             *)
(*                                                                         *)
(* The argument: a confirmation is judged with its order locked, counting  *)
(* what the receipt held before as well as what is offered, so the total   *)
(* can only come out too high and what is written never exceeds the price. *)
(* Once an order is covered every further amount is refused; and a price   *)
(* is swapped in only while the version, which every confirmation moves,   *)
(* is the one read before anything was paid.                               *)
(***************************************************************************)
EXTENDS GoldSale, TLAPS

\* The amounts of one order's receipts.
Share(f, o) == [x \in Receipts |-> IF OrderOf[x] = o THEN f[x] ELSE 0]

LEMMA AmountsAreNumbers == Sums \subseteq Nat /\ 0 \in Sums
BY DataAssumption DEF Sums

\* Replacing one receipt's amount moves its own order's total and no other.
LEMMA SharesMove ==
    ASSUME NEW f \in [Receipts -> Sums], NEW g \in [Receipts -> Sums],
           NEW x \in Receipts, \A y \in Receipts : y # x => g[y] = f[y],
           NEW o \in Orders
    PROVE  /\ TotalOf[Share(f, o)] \in Nat /\ TotalOf[Share(g, o)] \in Nat
           /\ OrderOf[x] = o => TotalOf[Share(g, o)] + f[x] = TotalOf[Share(f, o)] + g[x]
           /\ OrderOf[x] # o => TotalOf[Share(g, o)] = TotalOf[Share(f, o)]
<1>1. Share(f, o) \in [Receipts -> Sums] /\ Share(g, o) \in [Receipts -> Sums]
      BY AmountsAreNumbers DEF Share
<1>2. CASE OrderOf[x] = o
  <2>1. /\ \A y \in Receipts \ {x} : Share(g, o)[y] = Share(f, o)[y]
        /\ Share(f, o)[x] = f[x] /\ Share(g, o)[x] = g[x]
        BY <1>2 DEF Share
  <2>2. QED
        BY <1>1, <1>2, <2>1, SumAssumption
<1>3. CASE OrderOf[x] # o
  <2>1. Share(g, o) = Share(f, o)
        BY <1>3 DEF Share
  <2>2. QED
        BY <1>1, <1>3, <2>1, SumAssumption
<1>4. QED
      BY <1>2, <1>3

LEMMA ReceivedIsShare ==
    ASSUME NEW o \in Orders
    PROVE  Received(o) = TotalOf[Share(confirmed, o)]
BY DEF Received, Share

\* The same, of the totals the commands read.
LEMMA ReceivedMoves ==
    ASSUME confirmed \in [Receipts -> Sums], NEW x \in Receipts, NEW n \in Sums,
           confirmed' = [confirmed EXCEPT ![x] = n], NEW o \in Orders
    PROVE  /\ Received(o) \in Nat /\ Received(o)' \in Nat
           /\ OrderOf[x] = o => Received(o)' + confirmed[x] = Received(o) + n
           /\ OrderOf[x] # o => Received(o)' = Received(o)
<1> DEFINE f == confirmed
           g == [confirmed EXCEPT ![x] = n]
<1>1. Received(o) = TotalOf[Share(f, o)] /\ Received(o)' = TotalOf[Share(g, o)]
      BY DEF Received, Share
<1>2. /\ f \in [Receipts -> Sums] /\ g \in [Receipts -> Sums]
      /\ \A y \in Receipts : y # x => g[y] = f[y]
      /\ g[x] = n /\ f[x] = confirmed[x]
      OBVIOUS
<1> HIDE DEF f, g
<1>3. /\ TotalOf[Share(f, o)] \in Nat /\ TotalOf[Share(g, o)] \in Nat
      /\ OrderOf[x] = o => TotalOf[Share(g, o)] + f[x] = TotalOf[Share(f, o)] + g[x]
      /\ OrderOf[x] # o => TotalOf[Share(g, o)] = TotalOf[Share(f, o)]
      BY <1>2, SharesMove
<1>4. QED
      BY <1>1, <1>2, <1>3

\* What has been received and what is due are numbers.
LEMMA TotalsAreNumbers ==
    ASSUME TypeOK, NEW o \in Orders
    PROVE  Received(o) \in Nat /\ expected[o] \in Nat
<1>1. Share(confirmed, o) \in [Receipts -> Sums]
      BY AmountsAreNumbers DEF Share, TypeOK
<1>2. TotalOf[Share(confirmed, o)] \in Nat
      BY <1>1, SumAssumption
<1>3. QED
      BY <1>2, ReceivedIsShare, DataAssumption, AmountsAreNumbers DEF TypeOK

\* An order none of whose receipts is confirmed has received nothing.
LEMMA UntouchedIsUnpaid ==
    ASSUME TypeOK, NEW o \in Orders, Untouched(o)
    PROVE  Received(o) = 0
<1>1. Share(confirmed, o) = [x \in Receipts |-> 0]
      BY DEF Share, Untouched, TypeOK
<1>2. QED
      BY <1>1, ReceivedIsShare, SumAssumption

\* The state the program starts in satisfies the invariant.
LEMMA InitInv == Init => Inv
<1> SUFFICES ASSUME Init PROVE Inv
    OBVIOUS
<1> USE DEF Init
<1>1. TypeOK
      BY AmountsAreNumbers DEF TypeOK, OrderStatuses, ReceiptStatuses, MatchStatuses,
         DispatchStatuses, Jobs, Idle
<1>2. \A o \in Orders : Untouched(o)
      BY DataAssumption DEF Untouched
<1>3. PricedBeforePaid
      BY <1>2 DEF PricedBeforePaid, ClaimableFrom
<1>4. ChecksStayTrue
      BY DEF ChecksStayTrue
<1>5. DispatchesAreOfOrders
      BY DEF DispatchesAreOfOrders
<1>6. GuardedDispatchStaysCovered
      BY <1>1, <1>2, UntouchedIsUnpaid, TotalsAreNumbers DEF GuardedDispatchStaysCovered
<1>7. ClosedHasNothingInTransit
      BY DEF ClosedHasNothingInTransit
<1>8. RowPaysOnceWithinOrder
      BY DEF RowPaysOnceWithinOrder
<1>9. QED
      BY <1>1, <1>3, <1>4, <1>5, <1>6, <1>7, <1>8 DEF Inv

\* A rolled back transaction leaves no row.
LEMMA AbandonKeeps ==
    ASSUME Inv, NEW c \in Clerks, Abandon(c)
    PROVE  Inv'
<1> USE DEF Inv
<1>1. \A o \in Orders : Received(o)' = Received(o)
      BY DEF Received, Abandon, Done, ordVars, rcpVars, mchVars, dspVars
<1>2. TypeOK'
      BY DataAssumption, AmountsAreNumbers DEF TypeOK, OrderStatuses, ReceiptStatuses,
         MatchStatuses, DispatchStatuses, Jobs, Idle, Pricing, Claim, Proposal,
         Decision, Checked, Arrival, Abandon, Done, ordVars, rcpVars, mchVars, dspVars
<1>3. PricedBeforePaid'
      BY DataAssumption DEF PricedBeforePaid, Untouched, ClaimableFrom, TypeOK, Jobs,
         Idle, Pricing, Claim, Proposal, Decision, Checked, Arrival, Abandon, Done,
         ordVars, rcpVars, mchVars, dspVars
<1>4. ChecksStayTrue'
      BY <1>1, DataAssumption DEF ChecksStayTrue, TypeOK, Jobs, Idle, Pricing, Claim,
         Proposal, Decision, Checked, Arrival, Abandon, Done, ordVars, rcpVars, mchVars,
         dspVars
<1>5. DispatchesAreOfOrders'
      BY DataAssumption DEF DispatchesAreOfOrders, TypeOK, Jobs, Idle, Pricing, Claim,
         Proposal, Decision, Checked, Arrival, Abandon, Done, ordVars, rcpVars, mchVars,
         dspVars
<1>6. GuardedDispatchStaysCovered'
      BY <1>1, DataAssumption DEF GuardedDispatchStaysCovered, DispatchesAreOfOrders,
         TypeOK, Abandon, Done, ordVars, rcpVars, mchVars, dspVars
<1>7. ClosedHasNothingInTransit'
      BY DEF ClosedHasNothingInTransit, MetalInTransit, TypeOK, Abandon, Done, ordVars,
         rcpVars, mchVars, dspVars
<1>8. RowPaysOnceWithinOrder'
      BY DEF RowPaysOnceWithinOrder, Abandon, Done, ordVars, rcpVars, mchVars, dspVars
<1>9. QED
      BY <1>2, <1>3, <1>4, <1>5, <1>6, <1>7, <1>8 DEF Inv

\* A draft has nothing.
LEMMA CreateOrderKeeps ==
    ASSUME Inv, NEW o1 \in Orders, CreateOrder(o1)
    PROVE  Inv'
<1> USE DEF Inv
<1>1. \A o \in Orders : Received(o)' = Received(o)
      BY DEF Received, CreateOrder, ordVars, rcpVars, mchVars, dspVars
<1>2. TypeOK'
      BY DataAssumption, AmountsAreNumbers DEF TypeOK, OrderStatuses, ReceiptStatuses,
         MatchStatuses, DispatchStatuses, Jobs, Idle, Pricing, Claim, Proposal,
         Decision, Checked, Arrival, CreateOrder, ordVars, rcpVars, mchVars, dspVars
<1>3. PricedBeforePaid'
      BY DataAssumption DEF PricedBeforePaid, Untouched, ClaimableFrom, TypeOK, Jobs,
         Idle, Pricing, Claim, Proposal, Decision, Checked, Arrival, CreateOrder,
         ordVars, rcpVars, mchVars, dspVars
<1>4. ChecksStayTrue'
      BY <1>1, DataAssumption DEF ChecksStayTrue, TypeOK, Jobs, Idle, Pricing, Claim,
         Proposal, Decision, Checked, Arrival, CreateOrder, ordVars, rcpVars, mchVars,
         dspVars
<1>5. DispatchesAreOfOrders'
      BY DataAssumption DEF DispatchesAreOfOrders, TypeOK, Jobs, Idle, Pricing, Claim,
         Proposal, Decision, Checked, Arrival, CreateOrder, ordVars, rcpVars, mchVars,
         dspVars
<1>6. GuardedDispatchStaysCovered'
      BY <1>1, DataAssumption DEF GuardedDispatchStaysCovered, DispatchesAreOfOrders,
         TypeOK, CreateOrder, ordVars, rcpVars, mchVars, dspVars
<1>7. ClosedHasNothingInTransit'
      BY DEF ClosedHasNothingInTransit, MetalInTransit, TypeOK, CreateOrder, ordVars,
         rcpVars, mchVars, dspVars
<1>8. RowPaysOnceWithinOrder'
      BY DEF RowPaysOnceWithinOrder, CreateOrder, ordVars, rcpVars, mchVars, dspVars
<1>9. QED
      BY <1>2, <1>3, <1>4, <1>5, <1>6, <1>7, <1>8 DEF Inv

\* Handing an order over moves nothing.
LEMMA SubmitOrderKeeps ==
    ASSUME Inv, NEW o1 \in Orders, SubmitOrder(o1)
    PROVE  Inv'
<1> USE DEF Inv
<1>1. \A o \in Orders : Received(o)' = Received(o)
      BY DEF Received, SubmitOrder, ordVars, rcpVars, mchVars, dspVars
<1>2. TypeOK'
      BY DataAssumption, AmountsAreNumbers DEF TypeOK, OrderStatuses, ReceiptStatuses,
         MatchStatuses, DispatchStatuses, Jobs, Idle, Pricing, Claim, Proposal,
         Decision, Checked, Arrival, SubmitOrder, ordVars, rcpVars, mchVars, dspVars
<1>3. PricedBeforePaid'
      BY DataAssumption DEF PricedBeforePaid, Untouched, ClaimableFrom, TypeOK, Jobs,
         Idle, Pricing, Claim, Proposal, Decision, Checked, Arrival, SubmitOrder,
         ordVars, rcpVars, mchVars, dspVars
<1>4. ChecksStayTrue'
      BY <1>1, DataAssumption DEF ChecksStayTrue, TypeOK, Jobs, Idle, Pricing, Claim,
         Proposal, Decision, Checked, Arrival, SubmitOrder, ordVars, rcpVars, mchVars,
         dspVars
<1>5. DispatchesAreOfOrders'
      BY DataAssumption DEF DispatchesAreOfOrders, TypeOK, Jobs, Idle, Pricing, Claim,
         Proposal, Decision, Checked, Arrival, SubmitOrder, ordVars, rcpVars, mchVars,
         dspVars
<1>6. GuardedDispatchStaysCovered'
      BY <1>1, DataAssumption DEF GuardedDispatchStaysCovered, DispatchesAreOfOrders,
         TypeOK, SubmitOrder, ordVars, rcpVars, mchVars, dspVars
<1>7. ClosedHasNothingInTransit'
      BY DEF ClosedHasNothingInTransit, MetalInTransit, TypeOK, SubmitOrder, ordVars,
         rcpVars, mchVars, dspVars
<1>8. RowPaysOnceWithinOrder'
      BY DEF RowPaysOnceWithinOrder, SubmitOrder, ordVars, rcpVars, mchVars, dspVars
<1>9. QED
      BY <1>2, <1>3, <1>4, <1>5, <1>6, <1>7, <1>8 DEF Inv

\* An order is closed when nothing of it is in transit.
LEMMA CloseOrderKeeps ==
    ASSUME Inv, NEW o1 \in Orders, CloseOrder(o1)
    PROVE  Inv'
<1> USE DEF Inv
<1>1. \A o \in Orders : Received(o)' = Received(o)
      BY DEF Received, CloseOrder, CloseableFrom, ordVars, rcpVars, mchVars, dspVars
<1>2. TypeOK'
      BY DataAssumption, AmountsAreNumbers DEF TypeOK, OrderStatuses, ReceiptStatuses,
         MatchStatuses, DispatchStatuses, Jobs, Idle, Pricing, Claim, Proposal,
         Decision, Checked, Arrival, CloseOrder, CloseableFrom, ordVars, rcpVars,
         mchVars, dspVars
<1>3. PricedBeforePaid'
      BY DataAssumption DEF PricedBeforePaid, Untouched, ClaimableFrom, TypeOK, Jobs,
         Idle, Pricing, Claim, Proposal, Decision, Checked, Arrival, CloseOrder,
         CloseableFrom, ordVars, rcpVars, mchVars, dspVars
<1>4. ChecksStayTrue'
      BY <1>1, DataAssumption DEF ChecksStayTrue, TypeOK, Jobs, Idle, Pricing, Claim,
         Proposal, Decision, Checked, Arrival, CloseOrder, CloseableFrom, ordVars,
         rcpVars, mchVars, dspVars
<1>5. DispatchesAreOfOrders'
      BY DataAssumption DEF DispatchesAreOfOrders, TypeOK, Jobs, Idle, Pricing, Claim,
         Proposal, Decision, Checked, Arrival, CloseOrder, CloseableFrom, ordVars,
         rcpVars, mchVars, dspVars
<1>6. GuardedDispatchStaysCovered'
      BY <1>1, DataAssumption DEF GuardedDispatchStaysCovered, DispatchesAreOfOrders,
         TypeOK, CloseOrder, CloseableFrom, ordVars, rcpVars, mchVars, dspVars
<1>7. ClosedHasNothingInTransit'
      BY DEF ClosedHasNothingInTransit, MetalInTransit, TypeOK, CloseOrder,
         CloseableFrom, ordVars, rcpVars, mchVars, dspVars
<1>8. RowPaysOnceWithinOrder'
      BY DEF RowPaysOnceWithinOrder, CloseOrder, CloseableFrom, ordVars, rcpVars,
         mchVars, dspVars
<1>9. QED
      BY <1>2, <1>3, <1>4, <1>5, <1>6, <1>7, <1>8 DEF Inv

\* A pricing starts on an order without money.
LEMMA PricingReadsKeeps ==
    ASSUME Inv, NEW c \in Clerks, NEW o1 \in Orders, PricingReads(c, o1)
    PROVE  Inv'
<1> USE DEF Inv
<1>1. \A o \in Orders : Received(o)' = Received(o)
      BY DEF Received, PricingReads, PriceableFrom, Begin, ordVars, rcpVars, mchVars,
         dspVars
<1>2. TypeOK'
      BY DataAssumption, AmountsAreNumbers DEF TypeOK, OrderStatuses, ReceiptStatuses,
         MatchStatuses, DispatchStatuses, Jobs, Idle, Pricing, Claim, Proposal,
         Decision, Checked, Arrival, PricingReads, PriceableFrom, Begin, ordVars,
         rcpVars, mchVars, dspVars
<1>3. PricedBeforePaid'
      BY DataAssumption DEF PricedBeforePaid, Untouched, ClaimableFrom, TypeOK, Jobs,
         Idle, Pricing, Claim, Proposal, Decision, Checked, Arrival, PricingReads,
         PriceableFrom, Begin, ordVars, rcpVars, mchVars, dspVars
<1>4. ChecksStayTrue'
      BY <1>1, DataAssumption DEF ChecksStayTrue, TypeOK, Jobs, Idle, Pricing, Claim,
         Proposal, Decision, Checked, Arrival, PricingReads, PriceableFrom, Begin,
         ordVars, rcpVars, mchVars, dspVars
<1>5. DispatchesAreOfOrders'
      BY DataAssumption DEF DispatchesAreOfOrders, TypeOK, Jobs, Idle, Pricing, Claim,
         Proposal, Decision, Checked, Arrival, PricingReads, PriceableFrom, Begin,
         ordVars, rcpVars, mchVars, dspVars
<1>6. GuardedDispatchStaysCovered'
      BY <1>1, DataAssumption DEF GuardedDispatchStaysCovered, DispatchesAreOfOrders,
         TypeOK, PricingReads, PriceableFrom, Begin, ordVars, rcpVars, mchVars, dspVars
<1>7. ClosedHasNothingInTransit'
      BY DEF ClosedHasNothingInTransit, MetalInTransit, TypeOK, PricingReads,
         PriceableFrom, Begin, ordVars, rcpVars, mchVars, dspVars
<1>8. RowPaysOnceWithinOrder'
      BY DEF RowPaysOnceWithinOrder, PricingReads, PriceableFrom, Begin, ordVars,
         rcpVars, mchVars, dspVars
<1>9. QED
      BY <1>2, <1>3, <1>4, <1>5, <1>6, <1>7, <1>8 DEF Inv

\* A claim starts on a priced order.
LEMMA ClaimReadsKeeps ==
    ASSUME Inv, NEW c \in Clerks, NEW x \in Receipts, ClaimReads(c, x)
    PROVE  Inv'
<1> USE DEF Inv
<1>1. \A o \in Orders : Received(o)' = Received(o)
      BY DEF Received, ClaimReads, Begin, ordVars, rcpVars, mchVars, dspVars
<1>2. TypeOK'
      BY DataAssumption, AmountsAreNumbers DEF TypeOK, OrderStatuses, ReceiptStatuses,
         MatchStatuses, DispatchStatuses, Jobs, Idle, Pricing, Claim, Proposal,
         Decision, Checked, Arrival, ClaimReads, Begin, ordVars, rcpVars, mchVars,
         dspVars
<1>3. PricedBeforePaid'
      BY DataAssumption DEF PricedBeforePaid, Untouched, ClaimableFrom, TypeOK, Jobs,
         Idle, Pricing, Claim, Proposal, Decision, Checked, Arrival, ClaimReads, Begin,
         ordVars, rcpVars, mchVars, dspVars
<1>4. ChecksStayTrue'
      BY <1>1, DataAssumption DEF ChecksStayTrue, TypeOK, Jobs, Idle, Pricing, Claim,
         Proposal, Decision, Checked, Arrival, ClaimReads, Begin, ordVars, rcpVars,
         mchVars, dspVars
<1>5. DispatchesAreOfOrders'
      BY DataAssumption DEF DispatchesAreOfOrders, TypeOK, Jobs, Idle, Pricing, Claim,
         Proposal, Decision, Checked, Arrival, ClaimReads, Begin, ordVars, rcpVars,
         mchVars, dspVars
<1>6. GuardedDispatchStaysCovered'
      BY <1>1, DataAssumption DEF GuardedDispatchStaysCovered, DispatchesAreOfOrders,
         TypeOK, ClaimReads, Begin, ordVars, rcpVars, mchVars, dspVars
<1>7. ClosedHasNothingInTransit'
      BY DEF ClosedHasNothingInTransit, MetalInTransit, TypeOK, ClaimReads, Begin,
         ordVars, rcpVars, mchVars, dspVars
<1>8. RowPaysOnceWithinOrder'
      BY DEF RowPaysOnceWithinOrder, ClaimReads, Begin, ordVars, rcpVars, mchVars,
         dspVars
<1>9. QED
      BY <1>2, <1>3, <1>4, <1>5, <1>6, <1>7, <1>8 DEF Inv

\* A claim confirms nothing.
LEMMA SubmitReceiptKeeps ==
    ASSUME Inv, NEW c \in Clerks, SubmitReceipt(c)
    PROVE  Inv'
<1> USE DEF Inv
<1>1. \A o \in Orders : Received(o)' = Received(o)
      BY DEF Received, SubmitReceipt, Written, Done, ordVars, rcpVars, mchVars, dspVars
<1>2. TypeOK'
      BY DataAssumption, AmountsAreNumbers DEF TypeOK, OrderStatuses, ReceiptStatuses,
         MatchStatuses, DispatchStatuses, Jobs, Idle, Pricing, Claim, Proposal,
         Decision, Checked, Arrival, SubmitReceipt, Written, Done, ordVars, rcpVars,
         mchVars, dspVars
<1>3. PricedBeforePaid'
      BY DataAssumption DEF PricedBeforePaid, Untouched, ClaimableFrom, TypeOK, Jobs,
         Idle, Pricing, Claim, Proposal, Decision, Checked, Arrival, SubmitReceipt,
         Written, Done, ordVars, rcpVars, mchVars, dspVars
<1>4. ChecksStayTrue'
      BY <1>1, DataAssumption DEF ChecksStayTrue, TypeOK, Jobs, Idle, Pricing, Claim,
         Proposal, Decision, Checked, Arrival, SubmitReceipt, Written, Done, ordVars,
         rcpVars, mchVars, dspVars
<1>5. DispatchesAreOfOrders'
      BY DataAssumption DEF DispatchesAreOfOrders, TypeOK, Jobs, Idle, Pricing, Claim,
         Proposal, Decision, Checked, Arrival, SubmitReceipt, Written, Done, ordVars,
         rcpVars, mchVars, dspVars
<1>6. GuardedDispatchStaysCovered'
      BY <1>1, DataAssumption DEF GuardedDispatchStaysCovered, DispatchesAreOfOrders,
         TypeOK, SubmitReceipt, Written, Done, ordVars, rcpVars, mchVars, dspVars
<1>7. ClosedHasNothingInTransit'
      BY DEF ClosedHasNothingInTransit, MetalInTransit, TypeOK, SubmitReceipt, Written,
         Done, ordVars, rcpVars, mchVars, dspVars
<1>8. RowPaysOnceWithinOrder'
      BY DEF RowPaysOnceWithinOrder, SubmitReceipt, Written, Done, ordVars, rcpVars,
         mchVars, dspVars
<1>9. QED
      BY <1>2, <1>3, <1>4, <1>5, <1>6, <1>7, <1>8 DEF Inv

\* A proposal starts on a receipt of a priced order.
LEMMA ProposalReadsKeeps ==
    ASSUME Inv, NEW c \in Clerks, NEW x \in Receipts, ProposalReads(c, x)
    PROVE  Inv'
<1> USE DEF Inv
<1>1. \A o \in Orders : Received(o)' = Received(o)
      BY DEF Received, ProposalReads, Open, Begin, ordVars, rcpVars, mchVars, dspVars
<1>2. TypeOK'
      BY DataAssumption, AmountsAreNumbers DEF TypeOK, OrderStatuses, ReceiptStatuses,
         MatchStatuses, DispatchStatuses, Jobs, Idle, Pricing, Claim, Proposal,
         Decision, Checked, Arrival, ProposalReads, Open, Begin, ordVars, rcpVars,
         mchVars, dspVars
<1>3. PricedBeforePaid'
      BY DataAssumption DEF PricedBeforePaid, Untouched, ClaimableFrom, TypeOK, Jobs,
         Idle, Pricing, Claim, Proposal, Decision, Checked, Arrival, ProposalReads,
         Open, Begin, ordVars, rcpVars, mchVars, dspVars
<1>4. ChecksStayTrue'
      BY <1>1, DataAssumption DEF ChecksStayTrue, TypeOK, Jobs, Idle, Pricing, Claim,
         Proposal, Decision, Checked, Arrival, ProposalReads, Open, Begin, ordVars,
         rcpVars, mchVars, dspVars
<1>5. DispatchesAreOfOrders'
      BY DataAssumption DEF DispatchesAreOfOrders, TypeOK, Jobs, Idle, Pricing, Claim,
         Proposal, Decision, Checked, Arrival, ProposalReads, Open, Begin, ordVars,
         rcpVars, mchVars, dspVars
<1>6. GuardedDispatchStaysCovered'
      BY <1>1, DataAssumption DEF GuardedDispatchStaysCovered, DispatchesAreOfOrders,
         TypeOK, ProposalReads, Open, Begin, ordVars, rcpVars, mchVars, dspVars
<1>7. ClosedHasNothingInTransit'
      BY DEF ClosedHasNothingInTransit, MetalInTransit, TypeOK, ProposalReads, Open,
         Begin, ordVars, rcpVars, mchVars, dspVars
<1>8. RowPaysOnceWithinOrder'
      BY DEF RowPaysOnceWithinOrder, ProposalReads, Open, Begin, ordVars, rcpVars,
         mchVars, dspVars
<1>9. QED
      BY <1>2, <1>3, <1>4, <1>5, <1>6, <1>7, <1>8 DEF Inv

\* A suggestion confirms nothing.
LEMMA ProposeMatchKeeps ==
    ASSUME Inv, NEW c \in Clerks, NEW w \in Rows, ProposeMatch(c, w)
    PROVE  Inv'
<1> USE DEF Inv
<1>1. \A o \in Orders : Received(o)' = Received(o)
      BY DEF Received, ProposeMatch, Written, Done, Pairs, ordVars, rcpVars, mchVars,
         dspVars
<1>2. TypeOK'
      BY DataAssumption, AmountsAreNumbers DEF TypeOK, OrderStatuses, ReceiptStatuses,
         MatchStatuses, DispatchStatuses, Jobs, Idle, Pricing, Claim, Proposal,
         Decision, Checked, Arrival, ProposeMatch, Written, Done, Pairs, ordVars,
         rcpVars, mchVars, dspVars
<1>3. PricedBeforePaid'
      BY DataAssumption DEF PricedBeforePaid, Untouched, ClaimableFrom, TypeOK, Jobs,
         Idle, Pricing, Claim, Proposal, Decision, Checked, Arrival, ProposeMatch,
         Written, Done, Pairs, ordVars, rcpVars, mchVars, dspVars
<1>4. ChecksStayTrue'
      BY <1>1, DataAssumption DEF ChecksStayTrue, TypeOK, Jobs, Idle, Pricing, Claim,
         Proposal, Decision, Checked, Arrival, ProposeMatch, Written, Done, Pairs,
         ordVars, rcpVars, mchVars, dspVars
<1>5. DispatchesAreOfOrders'
      BY DataAssumption DEF DispatchesAreOfOrders, TypeOK, Jobs, Idle, Pricing, Claim,
         Proposal, Decision, Checked, Arrival, ProposeMatch, Written, Done, Pairs,
         ordVars, rcpVars, mchVars, dspVars
<1>6. GuardedDispatchStaysCovered'
      BY <1>1, DataAssumption DEF GuardedDispatchStaysCovered, DispatchesAreOfOrders,
         TypeOK, ProposeMatch, Written, Done, Pairs, ordVars, rcpVars, mchVars, dspVars
<1>7. ClosedHasNothingInTransit'
      BY DEF ClosedHasNothingInTransit, MetalInTransit, TypeOK, ProposeMatch, Written,
         Done, Pairs, ordVars, rcpVars, mchVars, dspVars
<1>8. RowPaysOnceWithinOrder'
      BY DEF RowPaysOnceWithinOrder, ProposeMatch, Written, Done, Pairs, ordVars,
         rcpVars, mchVars, dspVars
<1>9. QED
      BY <1>2, <1>3, <1>4, <1>5, <1>6, <1>7, <1>8 DEF Inv

\* A rejection leaves the confirmed matches alone.
LEMMA RejectMatchKeeps ==
    ASSUME Inv, NEW p \in Pairs, RejectMatch(p)
    PROVE  Inv'
<1> USE DEF Inv
<1>1. \A o \in Orders : Received(o)' = Received(o)
      BY DEF Received, RejectMatch, ordVars, rcpVars, mchVars, dspVars
<1>2. TypeOK'
      BY DataAssumption, AmountsAreNumbers DEF TypeOK, OrderStatuses, ReceiptStatuses,
         MatchStatuses, DispatchStatuses, Jobs, Idle, Pricing, Claim, Proposal,
         Decision, Checked, Arrival, RejectMatch, ordVars, rcpVars, mchVars, dspVars
<1>3. PricedBeforePaid'
      BY DataAssumption DEF PricedBeforePaid, Untouched, ClaimableFrom, TypeOK, Jobs,
         Idle, Pricing, Claim, Proposal, Decision, Checked, Arrival, RejectMatch,
         ordVars, rcpVars, mchVars, dspVars
<1>4. ChecksStayTrue'
      BY <1>1, DataAssumption DEF ChecksStayTrue, TypeOK, Jobs, Idle, Pricing, Claim,
         Proposal, Decision, Checked, Arrival, RejectMatch, ordVars, rcpVars, mchVars,
         dspVars
<1>5. DispatchesAreOfOrders'
      BY DataAssumption DEF DispatchesAreOfOrders, TypeOK, Jobs, Idle, Pricing, Claim,
         Proposal, Decision, Checked, Arrival, RejectMatch, ordVars, rcpVars, mchVars,
         dspVars
<1>6. GuardedDispatchStaysCovered'
      BY <1>1, DataAssumption DEF GuardedDispatchStaysCovered, DispatchesAreOfOrders,
         TypeOK, RejectMatch, ordVars, rcpVars, mchVars, dspVars
<1>7. ClosedHasNothingInTransit'
      BY DEF ClosedHasNothingInTransit, MetalInTransit, TypeOK, RejectMatch, ordVars,
         rcpVars, mchVars, dspVars
<1>8. RowPaysOnceWithinOrder'
      BY DEF RowPaysOnceWithinOrder, RejectMatch, ordVars, rcpVars, mchVars, dspVars
<1>9. QED
      BY <1>2, <1>3, <1>4, <1>5, <1>6, <1>7, <1>8 DEF Inv

\* A decision starts on a receipt of a priced order.
LEMMA ConfirmationReadsKeeps ==
    ASSUME Inv, NEW c \in Clerks, NEW x \in Receipts, ConfirmationReads(c, x)
    PROVE  Inv'
<1> USE DEF Inv
<1>1. \A o \in Orders : Received(o)' = Received(o)
      BY DEF Received, ConfirmationReads, Open, Begin, ordVars, rcpVars, mchVars,
         dspVars
<1>2. TypeOK'
      BY DataAssumption, AmountsAreNumbers DEF TypeOK, OrderStatuses, ReceiptStatuses,
         MatchStatuses, DispatchStatuses, Jobs, Idle, Pricing, Claim, Proposal,
         Decision, Checked, Arrival, ConfirmationReads, Open, Begin, ordVars, rcpVars,
         mchVars, dspVars
<1>3. PricedBeforePaid'
      BY DataAssumption DEF PricedBeforePaid, Untouched, ClaimableFrom, TypeOK, Jobs,
         Idle, Pricing, Claim, Proposal, Decision, Checked, Arrival, ConfirmationReads,
         Open, Begin, ordVars, rcpVars, mchVars, dspVars
<1>4. ChecksStayTrue'
      BY <1>1, DataAssumption DEF ChecksStayTrue, TypeOK, Jobs, Idle, Pricing, Claim,
         Proposal, Decision, Checked, Arrival, ConfirmationReads, Open, Begin, ordVars,
         rcpVars, mchVars, dspVars
<1>5. DispatchesAreOfOrders'
      BY DataAssumption DEF DispatchesAreOfOrders, TypeOK, Jobs, Idle, Pricing, Claim,
         Proposal, Decision, Checked, Arrival, ConfirmationReads, Open, Begin, ordVars,
         rcpVars, mchVars, dspVars
<1>6. GuardedDispatchStaysCovered'
      BY <1>1, DataAssumption DEF GuardedDispatchStaysCovered, DispatchesAreOfOrders,
         TypeOK, ConfirmationReads, Open, Begin, ordVars, rcpVars, mchVars, dspVars
<1>7. ClosedHasNothingInTransit'
      BY DEF ClosedHasNothingInTransit, MetalInTransit, TypeOK, ConfirmationReads, Open,
         Begin, ordVars, rcpVars, mchVars, dspVars
<1>8. RowPaysOnceWithinOrder'
      BY DEF RowPaysOnceWithinOrder, ConfirmationReads, Open, Begin, ordVars, rcpVars,
         mchVars, dspVars
<1>9. QED
      BY <1>2, <1>3, <1>4, <1>5, <1>6, <1>7, <1>8 DEF Inv

\* An acknowledgement starts on a dispatch that exists.
LEMMA AcknowledgementReadsKeeps ==
    ASSUME Inv, NEW c \in Clerks, NEW d \in Dispatches, AcknowledgementReads(c, d)
    PROVE  Inv'
<1> USE DEF Inv
<1>1. \A o \in Orders : Received(o)' = Received(o)
      BY DEF Received, AcknowledgementReads, Begin, ordVars, rcpVars, mchVars, dspVars
<1>2. TypeOK'
      BY DataAssumption, AmountsAreNumbers DEF TypeOK, OrderStatuses, ReceiptStatuses,
         MatchStatuses, DispatchStatuses, Jobs, Idle, Pricing, Claim, Proposal,
         Decision, Checked, Arrival, AcknowledgementReads, Begin, ordVars, rcpVars,
         mchVars, dspVars
<1>3. PricedBeforePaid'
      BY DataAssumption DEF PricedBeforePaid, Untouched, ClaimableFrom, TypeOK, Jobs,
         Idle, Pricing, Claim, Proposal, Decision, Checked, Arrival,
         AcknowledgementReads, Begin, ordVars, rcpVars, mchVars, dspVars
<1>4. ChecksStayTrue'
      BY <1>1, DataAssumption DEF ChecksStayTrue, TypeOK, Jobs, Idle, Pricing, Claim,
         Proposal, Decision, Checked, Arrival, AcknowledgementReads, Begin, ordVars,
         rcpVars, mchVars, dspVars
<1>5. DispatchesAreOfOrders'
      BY DataAssumption DEF DispatchesAreOfOrders, TypeOK, Jobs, Idle, Pricing, Claim,
         Proposal, Decision, Checked, Arrival, AcknowledgementReads, Begin, ordVars,
         rcpVars, mchVars, dspVars
<1>6. GuardedDispatchStaysCovered'
      BY <1>1, DataAssumption DEF GuardedDispatchStaysCovered, DispatchesAreOfOrders,
         TypeOK, AcknowledgementReads, Begin, ordVars, rcpVars, mchVars, dspVars
<1>7. ClosedHasNothingInTransit'
      BY DEF ClosedHasNothingInTransit, MetalInTransit, TypeOK, AcknowledgementReads,
         Begin, ordVars, rcpVars, mchVars, dspVars
<1>8. RowPaysOnceWithinOrder'
      BY DEF RowPaysOnceWithinOrder, AcknowledgementReads, Begin, ordVars, rcpVars,
         mchVars, dspVars
<1>9. QED
      BY <1>2, <1>3, <1>4, <1>5, <1>6, <1>7, <1>8 DEF Inv

\* An order received is not closed, and the dispatch no longer in transit.
LEMMA AcknowledgeDispatchKeeps ==
    ASSUME Inv, NEW c \in Clerks, AcknowledgeDispatch(c)
    PROVE  Inv'
<1> USE DEF Inv
<1>1. \A o \in Orders : Received(o)' = Received(o)
      BY DEF Received, AcknowledgeDispatch, Bumped, ordVars, rcpVars, mchVars, dspVars
<1>2. TypeOK'
      BY DataAssumption, AmountsAreNumbers DEF TypeOK, OrderStatuses, ReceiptStatuses,
         MatchStatuses, DispatchStatuses, Jobs, Idle, Pricing, Claim, Proposal,
         Decision, Checked, Arrival, AcknowledgeDispatch, Bumped, ordVars, rcpVars,
         mchVars, dspVars
<1>3. PricedBeforePaid'
      BY DataAssumption DEF PricedBeforePaid, Untouched, ClaimableFrom, TypeOK, Jobs,
         Idle, Pricing, Claim, Proposal, Decision, Checked, Arrival,
         AcknowledgeDispatch, Bumped, ordVars, rcpVars, mchVars, dspVars
<1>4. ChecksStayTrue'
      BY <1>1, DataAssumption DEF ChecksStayTrue, TypeOK, Jobs, Idle, Pricing, Claim,
         Proposal, Decision, Checked, Arrival, AcknowledgeDispatch, Bumped, ordVars,
         rcpVars, mchVars, dspVars
<1>5. DispatchesAreOfOrders'
      BY DataAssumption DEF DispatchesAreOfOrders, TypeOK, Jobs, Idle, Pricing, Claim,
         Proposal, Decision, Checked, Arrival, AcknowledgeDispatch, Bumped, ordVars,
         rcpVars, mchVars, dspVars
<1>6. GuardedDispatchStaysCovered'
      BY <1>1, DataAssumption DEF GuardedDispatchStaysCovered, DispatchesAreOfOrders,
         TypeOK, AcknowledgeDispatch, Bumped, ordVars, rcpVars, mchVars, dspVars
<1>7. ClosedHasNothingInTransit'
      BY DEF ClosedHasNothingInTransit, MetalInTransit, TypeOK, AcknowledgeDispatch,
         Bumped, ordVars, rcpVars, mchVars, dspVars
<1>8. RowPaysOnceWithinOrder'
      BY DEF RowPaysOnceWithinOrder, AcknowledgeDispatch, Bumped, ordVars, rcpVars,
         mchVars, dspVars
<1>9. QED
      BY <1>2, <1>3, <1>4, <1>5, <1>6, <1>7, <1>8 DEF Inv

\* A price moves only on an order without money and without gold moving.
LEMMA CreatePricingVersionKeeps ==
    ASSUME Inv, NEW c \in Clerks, NEW price \in Prices, CreatePricingVersion(c, price)
    PROVE  Inv'
<1> USE DEF Inv
<1> DEFINE p == doing[c].order
<1>1. \A o \in Orders : Received(o)' = Received(o)
      BY DEF Received, CreatePricingVersion, rcpVars, mchVars, dspVars
<1>2. p \in Orders /\ Untouched(p)
      BY DEF CreatePricingVersion, PricedBeforePaid, TypeOK, Jobs, Idle, Pricing, Claim,
         Proposal, Decision, Checked, Arrival
<1>3. Received(p) = 0
      BY <1>2, UntouchedIsUnpaid
<1>4. \A o \in Orders : expected'[o] = IF o = p THEN price ELSE expected[o]
      BY DEF CreatePricingVersion, TypeOK
<1>5. TypeOK'
      BY <1>2, DataAssumption DEF CreatePricingVersion, Bumped, rcpVars, mchVars, dspVars,
         TypeOK, OrderStatuses, Jobs, Idle
<1>6. PricedBeforePaid'
      BY <1>2, <1>4, DataAssumption DEF CreatePricingVersion, Bumped, rcpVars, mchVars,
         dspVars, PricedBeforePaid, Untouched, ClaimableFrom, TypeOK, Jobs, Idle, Pricing,
         Claim, Proposal, Decision, Checked, Arrival
<1>7. ChecksStayTrue'
      BY <1>1, <1>4, DataAssumption DEF CreatePricingVersion, Bumped, rcpVars, mchVars,
         dspVars, ChecksStayTrue, Locked, TypeOK, Jobs, Idle, Pricing, Claim, Proposal,
         Decision, Checked, Arrival
<1>8. DispatchesAreOfOrders'
      BY DEF CreatePricingVersion, Bumped, dspVars, DispatchesAreOfOrders
<1>9. GuardedDispatchStaysCovered'
      BY <1>1, <1>2, <1>3, <1>4, DataAssumption DEF CreatePricingVersion, rcpVars, mchVars,
         dspVars, GuardedDispatchStaysCovered, DispatchesAreOfOrders, Untouched, TypeOK
<1>10. ClosedHasNothingInTransit'
      BY DEF CreatePricingVersion, dspVars, ClosedHasNothingInTransit, MetalInTransit, TypeOK
<1>11. RowPaysOnceWithinOrder'
      BY DEF CreatePricingVersion, mchVars, RowPaysOnceWithinOrder
<1>12. QED
      BY <1>5, <1>6, <1>7, <1>8, <1>9, <1>10, <1>11 DEF Inv

\* The checks: nobody else holds the order, and what is offered fits.
LEMMA ConfirmationChecksKeeps ==
    ASSUME Inv, NEW c \in Clerks, NEW n \in Amounts, NEW w \in Rows \cup {Null},
           ConfirmationChecks(c, n, w)
    PROVE  Inv'
<1> USE DEF Inv
<1> DEFINE x == doing[c].receipt
           b == OrderOf[x]
<1>1. \A o \in Orders : Received(o)' = Received(o)
      BY DEF Received, ConfirmationChecks, ordVars, mchVars, dspVars
<1>2. /\ doing[c] \in Decision /\ x \in Receipts /\ b \in Orders
      /\ expected[b] # 0
      BY DataAssumption DEF ConfirmationChecks, PricedBeforePaid, TypeOK, Jobs, Idle,
         Pricing, Claim, Proposal, Decision, Checked, Arrival
<1>3. TypeOK'
      BY <1>2 DEF ConfirmationChecks, Done, ordVars, mchVars, dspVars, TypeOK, Jobs, Idle,
         Decision, Checked
<1>4. PricedBeforePaid'
      BY <1>2, DataAssumption DEF ConfirmationChecks, Done, ordVars, mchVars, dspVars,
         PricedBeforePaid, Untouched, TypeOK, Jobs, Idle, Pricing, Claim, Proposal,
         Decision, Checked, Arrival
<1>5. ChecksStayTrue'
  <2>1. CASE Overpays(x, n) /\ Done(c)
        BY <1>1, <2>1, DataAssumption DEF ConfirmationChecks, Done, ordVars, mchVars,
           ChecksStayTrue, TypeOK, Jobs, Idle, Pricing, Claim, Proposal, Decision, Checked,
           Arrival
  <2>2. CASE ~Overpays(x, n)
    <3>1. doing' = [doing EXCEPT ![c] =
            [op |-> "confirm", receipt |-> x, status |-> doing[c].status,
             amount |-> doing[c].amount, offered |-> n, row |-> w]]
          BY <2>2 DEF ConfirmationChecks
    <3>2. Received(b) \in Nat /\ expected[b] \in Nat /\ n \in Nat
          BY <1>2, TotalsAreNumbers, DataAssumption
    <3>3. Received(b) + n <= expected[b]
          BY <1>2, <2>2, <3>2 DEF Overpays
    <3>4. \A y \in Receipts : <<y, w>> \notin active
          BY DataAssumption DEF ConfirmationChecks, ConfirmableMatch, TypeOK, Pairs
    <3>5. \A k \in Clerks : doing[k].op = "confirm" => OrderOf[doing[k].receipt] # b
          BY DEF ConfirmationChecks, Locked
    <3>6. UNCHANGED <<active, expected>>
          BY DEF ConfirmationChecks, ordVars, mchVars
    <3>7. ASSUME NEW k \in Clerks, doing'[k].op = "confirm"
          PROVE  IF k = c
                 THEN /\ doing'[k].receipt = x /\ doing'[k].offered = n
                      /\ doing'[k].row = w
                 ELSE doing'[k] = doing[k]
          BY <3>1 DEF TypeOK
    <3>8. \A k \in Clerks : doing[k].op = "confirm" => OrderOf[doing[k].receipt] \in Orders
          BY DataAssumption DEF TypeOK, Jobs, Idle, Pricing, Claim, Proposal, Decision,
             Checked, Arrival
    <3>9. QED
          BY <1>1, <1>2, <3>3, <3>4, <3>5, <3>6, <3>7, <3>8 DEF ChecksStayTrue
  <2>3. QED
        BY <2>1, <2>2 DEF ConfirmationChecks
<1>6. DispatchesAreOfOrders'
      BY DEF ConfirmationChecks, Done, dspVars, DispatchesAreOfOrders, TypeOK
<1>7. GuardedDispatchStaysCovered'
      BY <1>1, DataAssumption DEF ConfirmationChecks, ordVars, dspVars,
         GuardedDispatchStaysCovered, DispatchesAreOfOrders, TypeOK
<1>8. ClosedHasNothingInTransit'
      BY DEF ConfirmationChecks, ordVars, dspVars, ClosedHasNothingInTransit, MetalInTransit
<1>9. RowPaysOnceWithinOrder'
      BY DEF ConfirmationChecks, mchVars, RowPaysOnceWithinOrder
<1>10. QED
      BY <1>3, <1>4, <1>5, <1>6, <1>7, <1>8, <1>9 DEF Inv

\* What a confirmation's commit does to the totals: its own order's stays within the
\* price, and is as it was if the order was covered; no other order's moves.
LEMMA ConfirmationFits ==
    ASSUME Inv, NEW c \in Clerks, ConfirmIncomingPayment(c), NEW o \in Orders
    PROVE  /\ doing[c] \in Checked
           /\ Received(o)' \in Nat
           /\ o # OrderOf[doing[c].receipt] => Received(o)' = Received(o)
           /\ o = OrderOf[doing[c].receipt] =>
                Received(o)' <= expected[o] /\ Received(o) # expected[o]
<1> DEFINE x == doing[c].receipt
           n == doing[c].offered
           v == Written(n, doing[c].amount, confirmed[x])
<1> USE DEF Inv
<1>1. doing[c] \in Checked
      BY DEF ConfirmIncomingPayment, TypeOK, Jobs, Idle, Pricing, Claim, Proposal, Decision,
         Checked, Arrival
<1>2. x \in Receipts /\ n \in Amounts
      BY <1>1 DEF Checked
<1>3. confirmed' = [confirmed EXCEPT ![x] = v] /\ v \in {n, confirmed[x]}
      BY DEF ConfirmIncomingPayment, Written
<1>4. v \in Sums /\ confirmed \in [Receipts -> Sums] /\ confirmed[x] \in Nat /\ n \in Nat \ {0}
      BY <1>2, <1>3, AmountsAreNumbers, DataAssumption DEF TypeOK, Sums
<1>5. /\ Received(o) \in Nat /\ Received(o)' \in Nat
      /\ OrderOf[x] = o => Received(o)' + confirmed[x] = Received(o) + v
      /\ OrderOf[x] # o => Received(o)' = Received(o)
      BY <1>2, <1>3, <1>4, ReceivedMoves
<1>6. ASSUME OrderOf[x] = o
      PROVE  Received(o)' <= expected[o] /\ Received(o) # expected[o]
  <2>1. Received(o) + n <= expected[o] /\ expected[o] \in Nat
        BY <1>6, TotalsAreNumbers DEF ConfirmIncomingPayment, ChecksStayTrue
  <2>2. v = n \/ v = confirmed[x]
        BY <1>3
  <2>3. QED
        BY <1>4, <1>5, <1>6, <2>1, <2>2
<1>7. QED
      BY <1>1, <1>5, <1>6

\* The commit of a confirmation.
LEMMA ConfirmIncomingPaymentKeeps ==
    ASSUME Inv, NEW c \in Clerks, ConfirmIncomingPayment(c)
    PROVE  Inv'
<1> DEFINE x == doing[c].receipt
           b == OrderOf[x]
<1> USE DEF Inv
<1>1. /\ doing[c] \in Checked /\ x \in Receipts /\ b \in Orders
      /\ doing[c].op = "confirm" /\ expected[b] # 0 /\ doing[c].row \in Rows \cup {Null}
      /\ doing[c].offered \in Sums
  <2>1. doing[c] \in Checked
        BY DEF ConfirmIncomingPayment, TypeOK, Jobs, Idle, Pricing, Claim, Proposal,
           Decision, Checked, Arrival
  <2>2. QED
        BY <2>1, DataAssumption DEF Checked, Sums, PricedBeforePaid
<1>2. \A o \in Orders :
        /\ Received(o)' \in Nat
        /\ o # b => Received(o)' = Received(o)
        /\ o = b => Received(o)' <= expected[o] /\ Received(o) # expected[o]
      BY ConfirmationFits
<1>3. /\ UNCHANGED <<expected, discrepant, match, dspStatus, dspOrder, overridden>>
      /\ \A k \in Clerks : doing'[k] = [op |-> "idle"] \/ (k # c /\ doing'[k] = doing[k])
      /\ \A k \in Clerks : doing'[k].op = "price" => doing'[k].order # b
      /\ doing' \in [Clerks -> Jobs]
      BY DEF ConfirmIncomingPayment, Bumped, dspVars, TypeOK, Jobs, Idle
<1>4. /\ \A y \in Receipts : y # x => confirmed'[y] = confirmed[y] /\ rcpStatus'[y] = rcpStatus[y]
      /\ \A o \in Orders : o # b => ordStatus'[o] = ordStatus[o]
      /\ ordStatus'[b] \in {"incoming_payment_confirmed", "incoming_payment_partially_confirmed"}
      BY <1>1 DEF ConfirmIncomingPayment, TypeOK
<1>5. TypeOK'
  <2>1. confirmed' \in [Receipts -> Sums] /\ rcpStatus' \in [Receipts -> ReceiptStatuses]
        BY <1>1 DEF ConfirmIncomingPayment, Written, TypeOK, ReceiptStatuses
  <2>2. ordStatus' \in [Orders -> OrderStatuses]
        BY <1>1 DEF ConfirmIncomingPayment, TypeOK, OrderStatuses
  <2>3. active' \subseteq Pairs
        BY <1>1 DEF ConfirmIncomingPayment, TypeOK, Pairs
  <2>4. QED
        BY <1>3, <2>1, <2>2, <2>3 DEF TypeOK
<1>6. PricedBeforePaid'
  <2>1. \A o \in Orders : o # b /\ Untouched(o) => Untouched(o)'
        BY <1>1, <1>3, <1>4 DEF Untouched
  <2>2. \A o \in Orders : ordStatus'[o] \in {"none", "draft", "submitted", "priced"} => Untouched(o)'
        BY <1>4, <2>1 DEF PricedBeforePaid
  <2>3. \A o \in Orders : ordStatus'[o] \in ClaimableFrom => expected'[o] # 0
        BY <1>1, <1>3, <1>4 DEF PricedBeforePaid
  <2>4. \A y \in Receipts : rcpStatus'[y] # "none" => expected'[OrderOf[y]] # 0
        BY <1>1, <1>3, <1>4 DEF PricedBeforePaid
  <2>5. ASSUME NEW k \in Clerks
        PROVE  /\ doing'[k].op = "price" => Untouched(doing[k].order)'
               /\ doing'[k].op \in {"claim", "propose", "decide", "confirm"} =>
                    expected'[OrderOf[doing'[k].receipt]] # 0
    <3>1. CASE doing'[k] = [op |-> "idle"]
          BY <3>1
    <3>2. CASE doing'[k] = doing[k]
      <4>1. doing[k].op = "price" => doing[k].order \in Orders
            BY DEF TypeOK, Jobs, Idle, Pricing, Claim, Proposal, Decision, Checked, Arrival
      <4>2. QED
            BY <1>3, <2>1, <3>2, <4>1 DEF PricedBeforePaid
    <3>3. QED
          BY <1>3, <3>1, <3>2
  <2>6. QED
        BY <2>2, <2>3, <2>4, <2>5 DEF PricedBeforePaid
<1>7. ChecksStayTrue'
  <2>1. ASSUME NEW k \in Clerks, doing'[k].op = "confirm"
        PROVE  /\ k # c /\ doing'[k] = doing[k] /\ doing[k].op = "confirm"
               /\ OrderOf[doing[k].receipt] # b /\ OrderOf[doing[k].receipt] \in Orders
    <3>1. k # c /\ doing'[k] = doing[k]
          BY <1>3, <2>1
    <3>2. QED
          BY <1>1, <2>1, <3>1, DataAssumption DEF ChecksStayTrue, TypeOK, Jobs, Idle,
             Pricing, Claim, Proposal, Decision, Checked, Arrival
  <2>2. \A y \in Receipts, w \in Rows \cup {Null} :
          OrderOf[y] # b /\ <<y, w>> \notin active => <<y, w>> \notin active'
        BY DEF ConfirmIncomingPayment
  <2>3. ASSUME NEW k \in Clerks, doing'[k].op = "confirm"
        PROVE  doing[k].row \in Rows \cup {Null}
        BY <2>1, <2>3 DEF TypeOK, Jobs, Idle, Pricing, Claim, Proposal, Decision, Checked,
           Arrival
  <2>4. QED
        BY <1>2, <1>3, <2>1, <2>2, <2>3 DEF ChecksStayTrue
<1>8. DispatchesAreOfOrders'
      BY <1>3 DEF DispatchesAreOfOrders
<1>9. GuardedDispatchStaysCovered'
      BY <1>2, <1>3, DataAssumption DEF GuardedDispatchStaysCovered, DispatchesAreOfOrders, TypeOK
<1>10. ClosedHasNothingInTransit'
      BY <1>3, <1>4 DEF ClosedHasNothingInTransit, MetalInTransit
<1>11. RowPaysOnceWithinOrder'
  <2>1. \A y \in Receipts : OrderOf[y] = b => <<y, doing[c].row>> \notin active
        BY <1>1 DEF ChecksStayTrue
  <2>2. active' = active \/ active' = active \cup {<<x, doing[c].row>>}
        BY DEF ConfirmIncomingPayment
  <2>3. \A p \in active : p[1] \in Receipts /\ p = <<p[1], p[2]>>
        BY DEF TypeOK, Pairs
  <2>4. QED
        BY <2>1, <2>2, <2>3 DEF RowPaysOnceWithinOrder
<1>12. QED
      BY <1>5, <1>6, <1>7, <1>8, <1>9, <1>10, <1>11 DEF Inv

\* Gold leaves a covered order, or on somebody's word.
LEMMA RecordDispatchKeeps ==
    ASSUME Inv, NEW b \in Orders, NEW d \in Dispatches, NEW physical \in BOOLEAN,
           RecordDispatch(b, d, physical)
    PROVE  Inv'
<1> USE DEF Inv
<1>1. \A o \in Orders : Received(o)' = Received(o)
      BY DEF Received, RecordDispatch, rcpVars, mchVars
<1>2. /\ UNCHANGED <<expected, rcpStatus, confirmed, discrepant, match, active>>
      /\ \A k \in Clerks : doing'[k] = [op |-> "idle"] \/ doing'[k] = doing[k]
      /\ \A k \in Clerks : doing'[k].op = "price" => doing'[k].order # b
      /\ doing' \in [Clerks -> Jobs]
      BY DEF RecordDispatch, rcpVars, mchVars, TypeOK, Jobs, Idle
<1>3. /\ \A o \in Orders : ordStatus'[o] =
           IF o = b THEN IF physical THEN "dispatched" ELSE "settled_or_offset" ELSE ordStatus[o]
      /\ \A e \in Dispatches : dspOrder'[e] = IF e = d THEN b ELSE dspOrder[e]
      /\ \A e \in Dispatches : e # d => dspStatus'[e] = dspStatus[e]
      /\ dspStatus[d] = "none" /\ dspStatus'[d] \in {"dispatched", "settled"}
      BY DEF RecordDispatch, TypeOK
<1>4. TypeOK'
      BY <1>2, DataAssumption DEF RecordDispatch, TypeOK, OrderStatuses, DispatchStatuses
<1>5. PricedBeforePaid'
  <2>1. \A o \in Orders : o # b /\ Untouched(o) => Untouched(o)'
        BY <1>2, <1>3 DEF Untouched
  <2>2. \A k \in Clerks : doing[k].op = "price" => doing[k].order \in Orders
        BY DEF TypeOK, Jobs, Idle, Pricing, Claim, Proposal, Decision, Checked, Arrival
  <2>3. \A o \in Orders : ordStatus'[o] \in {"none", "draft", "submitted", "priced"} => Untouched(o)'
        BY <1>3, <2>1 DEF PricedBeforePaid
  <2>4. \A o \in Orders : ordStatus'[o] \in ClaimableFrom => expected'[o] # 0
        BY <1>2, <1>3 DEF PricedBeforePaid, ClaimableFrom
  <2>5. ASSUME NEW k \in Clerks
        PROVE  /\ doing'[k].op = "price" => Untouched(doing[k].order)'
               /\ doing'[k].op \in {"claim", "propose", "decide", "confirm"} =>
                    expected'[OrderOf[doing'[k].receipt]] # 0
    <3>1. CASE doing'[k] = [op |-> "idle"]
          BY <3>1
    <3>2. CASE doing'[k] = doing[k]
          BY <1>2, <2>1, <2>2, <3>2 DEF PricedBeforePaid
    <3>3. QED
          BY <1>2, <3>1, <3>2
  <2>6. QED
        BY <1>2, <2>3, <2>4, <2>5 DEF PricedBeforePaid
<1>6. ChecksStayTrue'
  <2>1. \A k \in Clerks : doing'[k].op = "confirm" =>
          doing'[k] = doing[k] /\ OrderOf[doing[k].receipt] \in Orders
        BY <1>2, DataAssumption DEF TypeOK, Jobs, Idle, Pricing, Claim, Proposal, Decision,
           Checked, Arrival
  <2>2. QED
        BY <1>1, <1>2, <2>1 DEF ChecksStayTrue
<1>7. DispatchesAreOfOrders'
  <2>1. \A k \in Clerks : doing[k].op = "acknowledge" => doing[k].dispatch \in Dispatches
        BY DEF TypeOK, Jobs, Idle, Pricing, Claim, Proposal, Decision, Checked, Arrival
  <2>2. QED
        BY <1>2, <1>3, <2>1, DataAssumption DEF DispatchesAreOfOrders
<1>8. GuardedDispatchStaysCovered'
  <2>1. d \notin overridden' =>
          expected[b] # 0 /\ Received(b) >= expected[b]
        BY DEF RecordDispatch, GuardPasses
  <2>2. \A o \in Orders : Received(o) \in Nat /\ expected[o] \in Nat /\ Received(o) <= expected[o]
        BY TotalsAreNumbers DEF GuardedDispatchStaysCovered
  <2>3. \A e \in Dispatches : e # d /\ e \notin overridden' => e \notin overridden
        BY DEF RecordDispatch
  <2>4. \A e \in Dispatches : dspStatus[e] # "none" => dspOrder[e] \in Orders
        BY DEF DispatchesAreOfOrders, TypeOK
  <2>5. QED
        BY <1>1, <1>2, <1>3, <2>1, <2>2, <2>3, <2>4 DEF GuardedDispatchStaysCovered
<1>9. ClosedHasNothingInTransit'
      BY <1>3 DEF ClosedHasNothingInTransit, MetalInTransit
<1>10. RowPaysOnceWithinOrder'
      BY <1>2 DEF RowPaysOnceWithinOrder
<1>11. QED
      BY <1>4, <1>5, <1>6, <1>7, <1>8, <1>9, <1>10 DEF Inv

LEMMA StutterKeeps == Inv /\ UNCHANGED vars => Inv'
<1> SUFFICES ASSUME Inv, UNCHANGED vars PROVE Inv'
    OBVIOUS
<1> USE DEF vars, ordVars, rcpVars, mchVars, dspVars
<1>1. \A o \in Orders : Received(o)' = Received(o) /\ Untouched(o)' = Untouched(o)
      BY DEF Received, Untouched
<1>2. TypeOK' /\ DispatchesAreOfOrders' /\ RowPaysOnceWithinOrder'
      BY DEF Inv, TypeOK, DispatchesAreOfOrders, RowPaysOnceWithinOrder
<1>3. PricedBeforePaid' /\ ChecksStayTrue'
      BY DEF Inv, PricedBeforePaid, ChecksStayTrue, Untouched, Received
<1>4. GuardedDispatchStaysCovered' /\ ClosedHasNothingInTransit'
      BY DEF Inv, GuardedDispatchStaysCovered, ClosedHasNothingInTransit, MetalInTransit, Received
<1>5. QED
      BY <1>2, <1>3, <1>4 DEF Inv

LEMMA NextKeeps == Inv /\ [Next]_vars => Inv'
<1> SUFFICES ASSUME Inv, [Next]_vars PROVE Inv'
    OBVIOUS
<1>1. CASE \E o \in Orders : CreateOrder(o) \/ SubmitOrder(o) \/ CloseOrder(o)
      BY <1>1, CreateOrderKeeps, SubmitOrderKeeps, CloseOrderKeeps
<1>2. CASE \E c \in Clerks : \/ Abandon(c) \/ SubmitReceipt(c)
                            \/ ConfirmIncomingPayment(c) \/ AcknowledgeDispatch(c)
      BY <1>2, AbandonKeeps, SubmitReceiptKeeps, ConfirmIncomingPaymentKeeps,
         AcknowledgeDispatchKeeps
<1>3. CASE \E c \in Clerks, o \in Orders : PricingReads(c, o)
      BY <1>3, PricingReadsKeeps
<1>4. CASE \E c \in Clerks, price \in Prices : CreatePricingVersion(c, price)
      BY <1>4, CreatePricingVersionKeeps
<1>5. CASE \E c \in Clerks, x \in Receipts :
             ClaimReads(c, x) \/ ProposalReads(c, x) \/ ConfirmationReads(c, x)
      BY <1>5, ClaimReadsKeeps, ProposalReadsKeeps, ConfirmationReadsKeeps
<1>6. CASE \E c \in Clerks, w \in Rows : ProposeMatch(c, w)
      BY <1>6, ProposeMatchKeeps
<1>7. CASE \E p \in Pairs : RejectMatch(p)
      BY <1>7, RejectMatchKeeps
<1>8. CASE \E c \in Clerks, n \in Amounts, w \in Rows \cup {Null} : ConfirmationChecks(c, n, w)
      BY <1>8, ConfirmationChecksKeeps
<1>9. CASE \E o \in Orders, d \in Dispatches, physical \in BOOLEAN :
             RecordDispatch(o, d, physical)
      BY <1>9, RecordDispatchKeeps
<1>10. CASE \E c \in Clerks, d \in Dispatches : AcknowledgementReads(c, d)
      BY <1>10, AcknowledgementReadsKeeps
<1>11. CASE UNCHANGED vars
      BY <1>11, StutterKeeps
<1>12. QED
      BY <1>1, <1>2, <1>3, <1>4, <1>5, <1>6, <1>7, <1>8, <1>9, <1>10, <1>11 DEF Next

\* The invariant holds in every state the gold commands reach.
THEOREM Invariant == Spec => []Inv
BY InitInv, NextKeeps, PTL DEF Spec

\* Every column keeps to its vocabulary.
THEOREM TypeCorrect == Spec => []TypeOK
<1>1. Inv => TypeOK
      BY DEF Inv
<1>2. QED
      BY <1>1, Invariant, PTL

\* record_dispatch's guard is for good: what it let out stays paid for to the rial.
THEOREM GoldIsPaidFor == Spec => []GuardedDispatchStaysCovered
<1>1. Inv => GuardedDispatchStaysCovered
      BY DEF Inv
<1>2. QED
      BY <1>1, Invariant, PTL

\* close_order never ends an order with metal on the road.
THEOREM NothingOnTheRoad == Spec => []ClosedHasNothingInTransit
<1>1. Inv => ClosedHasNothingInTransit
      BY DEF Inv
<1>2. QED
      BY <1>1, Invariant, PTL

\* One bank row pays one claim of an order.
THEOREM OneRowOneClaim == Spec => []RowPaysOnceWithinOrder
<1>1. Inv => RowPaysOnceWithinOrder
      BY DEF Inv
<1>2. QED
      BY <1>1, Invariant, PTL

-----------------------------------------------------------------------------
(* The price and the promise. *)

\* Only a pricing moves a price, and it found the order untouched.
LEMMA StepFixesPrice ==
    ASSUME Inv, [Next]_vars, NEW o \in Orders, Received(o) # 0
    PROVE  expected'[o] = expected[o]
<1>1. CASE \E c \in Clerks, price \in Prices : CreatePricingVersion(c, price)
  <2>1. PICK c \in Clerks, price \in Prices : CreatePricingVersion(c, price)
        BY <1>1
  <2>2. doing[c].order \in Orders /\ Untouched(doing[c].order)
        BY <2>1 DEF CreatePricingVersion, Inv, PricedBeforePaid, TypeOK, Jobs, Idle, Pricing,
           Claim, Proposal, Decision, Checked, Arrival
  <2>3. doing[c].order # o
        BY <2>2, UntouchedIsUnpaid DEF Inv
  <2>4. QED
        BY <2>1, <2>3 DEF CreatePricingVersion, Inv, TypeOK
<1>2. CASE ~\E c \in Clerks, price \in Prices : CreatePricingVersion(c, price)
      BY <1>2 DEF Next, CreateOrder, SubmitOrder, CloseOrder, Abandon, SubmitReceipt,
         ConfirmIncomingPayment, AcknowledgeDispatch, PricingReads, ClaimReads,
         ProposalReads, ConfirmationReads, ProposeMatch, RejectMatch, ConfirmationChecks,
         RecordDispatch, AcknowledgementReads, vars, ordVars
<1>3. QED
      BY <1>1, <1>2

\* A version of the price is never swapped in over money.
THEOREM PriceStands == Spec => PriceFixedOncePaid
<1>1. Inv /\ [Next]_vars =>
        [\A o \in Orders : Received(o) # 0 => expected'[o] = expected[o]]_vars
      BY StepFixesPrice
<1>2. QED
      BY <1>1, Invariant, PTL DEF Spec, PriceFixedOncePaid

Sold  == [o \in Orders |-> Received(o)]
Freed == {o \in Orders : \E d \in Dispatches :
            dspOrder[d] = o /\ dspStatus[d] # "none" /\ d \notin overridden}

\* Steps that leave the amounts, the prices and the dispatches alone are not seen.
LEMMA Unseen ==
    ASSUME UNCHANGED <<expected, confirmed, overridden, dspOrder>>,
           \A d \in Dispatches : dspStatus'[d] = "none" <=> dspStatus[d] = "none"
    PROVE  UNCHANGED Ledger!glVars
<1>1. Sold' = Sold
      BY DEF Sold, Received
<1>2. Freed' = Freed
      BY DEF Freed
<1>3. QED
      BY <1>1, <1>2 DEF Ledger!glVars, Sold, Freed

LEMMA PricingIsSetPrice ==
    ASSUME Inv, NEW c \in Clerks, NEW price \in Prices, CreatePricingVersion(c, price)
    PROVE  \E o \in Orders : Ledger!SetPrice(o)
<1> DEFINE o == doing[c].order
<1>1. o \in Orders /\ Untouched(o)
      BY DEF CreatePricingVersion, Inv, PricedBeforePaid, TypeOK, Jobs, Idle, Pricing, Claim,
         Proposal, Decision, Checked, Arrival
<1>2. Sold[o] = 0
      BY <1>1, UntouchedIsUnpaid DEF Sold, Inv
<1>3. o \notin Freed
      BY <1>1 DEF Freed, Untouched
<1>4. Sold' = Sold /\ Freed' = Freed /\ expected' = [expected EXCEPT ![o] = price]
      BY DEF CreatePricingVersion, rcpVars, dspVars, Sold, Received, Freed
<1>5. Ledger!SetPrice(o)
      BY <1>2, <1>3, <1>4 DEF Ledger!SetPrice, Sold, Freed
<1>6. QED
      BY <1>1, <1>5

LEMMA ConfirmationIsReceive ==
    ASSUME Inv, NEW c \in Clerks, ConfirmIncomingPayment(c)
    PROVE  \E o \in Orders : \E n \in 0 .. expected[o] : Ledger!Receive(o, n)
<1>1. PICK b \in Orders : b = OrderOf[doing[c].receipt] /\ expected[b] # 0
  <2>1. doing[c] \in Checked /\ doing[c].op = "confirm"
        BY DEF ConfirmIncomingPayment, Inv, TypeOK, Jobs, Idle, Pricing, Claim, Proposal,
           Decision, Checked, Arrival
  <2>2. QED
        BY <2>1, DataAssumption DEF Checked, Inv, PricedBeforePaid
<1>2. Received(b)' \in 0 .. expected[b] /\ Received(b) # expected[b]
  <2>1. Received(b)' \in Nat /\ Received(b)' <= expected[b] /\ Received(b) # expected[b]
        BY <1>1, ConfirmationFits
  <2>2. expected[b] \in Nat
        BY TotalsAreNumbers DEF Inv
  <2>3. QED
        BY <2>1, <2>2
<1>3. \A o \in Orders : o # b => Received(o)' = Received(o)
      BY <1>1, ConfirmationFits
<1>4. Sold' = [Sold EXCEPT ![b] = Received(b)']
      BY <1>3 DEF Sold
<1>5. UNCHANGED <<expected, Freed>>
      BY DEF ConfirmIncomingPayment, dspVars, Freed
<1>6. Ledger!Receive(b, Received(b)')
      BY <1>1, <1>2, <1>4, <1>5 DEF Ledger!Receive, Ledger!Covered, Sold, Freed
<1>7. QED
      BY <1>2, <1>6

LEMMA DispatchIsRelease ==
    ASSUME Inv, NEW b \in Orders, NEW d \in Dispatches, NEW physical \in BOOLEAN,
           RecordDispatch(b, d, physical)
    PROVE  Ledger!Release(b) \/ UNCHANGED Ledger!glVars
<1>1. Sold' = Sold /\ expected' = expected
      BY DEF RecordDispatch, rcpVars, Sold, Received
<1>2. /\ \A e \in Dispatches : dspOrder'[e] = IF e = d THEN b ELSE dspOrder[e]
      /\ \A e \in Dispatches : e # d => dspStatus'[e] = dspStatus[e]
      /\ dspStatus[d] = "none" /\ dspStatus'[d] # "none"
      BY DEF RecordDispatch, Inv, TypeOK
<1>3. CASE d \in overridden'
  <2>1. \A e \in Dispatches : e # d => (e \in overridden' <=> e \in overridden)
        BY DEF RecordDispatch
  <2>2. Freed' = Freed
        BY <1>2, <1>3, <2>1 DEF Freed
  <2>3. QED
        BY <1>1, <2>2 DEF Ledger!glVars, Sold, Freed
<1>4. CASE d \notin overridden'
  <2>1. overridden' = overridden /\ d \notin overridden /\ GuardPasses(b)
        BY <1>4 DEF RecordDispatch
  <2>2. Freed' = Freed \cup {b}
        BY <1>2, <2>1 DEF Freed
  <2>3. expected[b] # 0 /\ Received(b) = expected[b]
        BY <2>1, TotalsAreNumbers DEF Inv, GuardedDispatchStaysCovered, GuardPasses
  <2>4. QED
        BY <1>1, <2>2, <2>3 DEF Ledger!Release, Ledger!Covered, Sold, Freed
<1>5. QED
      BY <1>3, <1>4

\* Every step of the commands is a step of the promise, or is not seen by it.
LEMMA StepMaps == Inv /\ [Next]_vars => [Ledger!GLNext]_(Ledger!glVars)
<1> SUFFICES ASSUME Inv, [Next]_vars PROVE Ledger!GLNext \/ UNCHANGED Ledger!glVars
    OBVIOUS
<1> USE DEF Ledger!GLNext
<1>1. CASE \E o \in Orders : CreateOrder(o) \/ SubmitOrder(o) \/ CloseOrder(o)
      BY <1>1, Unseen DEF CreateOrder, SubmitOrder, CloseOrder, rcpVars, dspVars
<1>2. CASE \E c \in Clerks : Abandon(c) \/ SubmitReceipt(c)
      BY <1>2, Unseen DEF Abandon, SubmitReceipt, ordVars, rcpVars, dspVars
<1>3. CASE \E c \in Clerks : ConfirmIncomingPayment(c)
      BY <1>3, ConfirmationIsReceive
<1>4. CASE \E c \in Clerks : AcknowledgeDispatch(c)
  <2>1. PICK c \in Clerks : AcknowledgeDispatch(c)
        BY <1>4
  <2>2. dspStatus[doing[c].dispatch] # "none" /\ dspStatus' = [dspStatus EXCEPT ![doing[c].dispatch] = "delivered"]
        BY <2>1 DEF AcknowledgeDispatch, Inv, DispatchesAreOfOrders
  <2>3. \A d \in Dispatches : dspStatus'[d] = "none" <=> dspStatus[d] = "none"
        BY <2>2 DEF Inv, TypeOK
  <2>4. QED
        BY <2>1, <2>3, Unseen DEF AcknowledgeDispatch, rcpVars
<1>5. CASE \E c \in Clerks, o \in Orders : PricingReads(c, o)
      BY <1>5, Unseen DEF PricingReads, ordVars, rcpVars, dspVars
<1>6. CASE \E c \in Clerks, price \in Prices : CreatePricingVersion(c, price)
      BY <1>6, PricingIsSetPrice
<1>7. CASE \E c \in Clerks, x \in Receipts :
             ClaimReads(c, x) \/ ProposalReads(c, x) \/ ConfirmationReads(c, x)
      BY <1>7, Unseen DEF ClaimReads, ProposalReads, ConfirmationReads, ordVars, rcpVars,
         dspVars
<1>8. CASE \E c \in Clerks, w \in Rows : ProposeMatch(c, w)
      BY <1>8, Unseen DEF ProposeMatch, ordVars, dspVars
<1>9. CASE \E p \in Pairs : RejectMatch(p)
      BY <1>9, Unseen DEF RejectMatch, ordVars, rcpVars, dspVars
<1>10. CASE \E c \in Clerks, n \in Amounts, w \in Rows \cup {Null} : ConfirmationChecks(c, n, w)
      BY <1>10, Unseen DEF ConfirmationChecks, ordVars, dspVars
<1>11. CASE \E o \in Orders, d \in Dispatches, physical \in BOOLEAN :
             RecordDispatch(o, d, physical)
      BY <1>11, DispatchIsRelease
<1>12. CASE \E c \in Clerks, d \in Dispatches : AcknowledgementReads(c, d)
      BY <1>12, Unseen DEF AcknowledgementReads, ordVars, rcpVars, dspVars
<1>13. CASE UNCHANGED vars
      BY <1>13, Unseen DEF vars, ordVars, rcpVars, dspVars
<1>14. QED
      BY <1>1, <1>2, <1>3, <1>4, <1>5, <1>6, <1>7, <1>8, <1>9, <1>10, <1>11, <1>12, <1>13
         DEF Next

LEMMA InitMaps == Init => Ledger!GLInit
<1> SUFFICES ASSUME Init PROVE Ledger!GLInit
    OBVIOUS
<1>1. \A o \in Orders : Received(o) = 0
      BY SumAssumption DEF Init, Received
<1>2. QED
      BY <1>1 DEF Init, Ledger!GLInit

\* The gold commands implement the ledger's promise, for any orders, receipts and
\* amounts: covered sales are final, and only those are released unless overridden.
THEOREM Refinement == Spec => ImplementsLedger
BY Invariant, StepMaps, InitMaps, PTL DEF Spec, ImplementsLedger, Ledger!GLSpec

=============================================================================
