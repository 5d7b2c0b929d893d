---------------------------- MODULE ClientPayments --------------------------
(***************************************************************************)
(* ClientPaymentsService: what the client has paid.  Payments may be       *)
(* recorded at any status; accounting confirms them, or hands them back.   *)
(***************************************************************************)
EXTENDS MoneyTables

PaymentJob ==
    [do : {"recordPayment"}, by : Users, amount : Amounts]
    \cup [do : {"updatePayment"}, by : Users, of : Payments, amount : Amounts \cup {Unsaid}]
    \cup [do : {"removePayment"}, by : Users, of : Payments]
    \cup [do : {"decidePayment"}, by : Accounting, of : Payments, to : {"VERIFIED", "RETURNED"}]

\* The only checks are that the trip and the attachment exist.
LoadRecord(h, u, amount) ==
    /\ Called(h, "recordPayment")
    /\ Accept(h, [do |-> "recordPayment", by |-> u, amount |-> amount])

\* assertBelongs, then assertMayAlter.
MayAlterPayment(h, op, u, p) ==
    /\ Called(h, op)
    /\ p \in Live(payment)
    /\ MayAlter(payment[p].stamp, u)

LoadUpdatePayment(h, u, p, amount) ==
    /\ MayAlterPayment(h, "updatePayment", u, p)
    /\ Accept(h, [do |-> "updatePayment", by |-> u, of |-> p, amount |-> amount])

LoadRemovePayment(h, u, p) ==
    /\ MayAlterPayment(h, "removePayment", u, p)
    /\ Accept(h, [do |-> "removePayment", by |-> u, of |-> p])

\* The first verification is the record: a second one is refused.
LoadVerifyPayment(h, u, p) ==
    /\ Called(h, "verifyPayment")
    /\ MayVerify(u)
    /\ p \in Live(payment)
    /\ payment[p].stamp.status # "VERIFIED"
    /\ Accept(h, [do |-> "decidePayment", by |-> u, of |-> p, to |-> "VERIFIED"])

LoadReturnPayment(h, u, p) ==
    /\ Called(h, "returnPayment")
    /\ MayVerify(u)
    /\ p \in Live(payment)
    /\ Accept(h, [do |-> "decidePayment", by |-> u, of |-> p, to |-> "RETURNED"])
-----------------------------------------------------------------------------
WritePayment(h, p, row) ==
    /\ payment' = [payment EXCEPT ![p] = row]
    /\ Done(h)
    /\ UNCHANGED <<shipment, charge, commission, adjustment, gasSetting>>

RecordPayment(h, p) ==
    /\ At(h, "recordPayment")
    /\ p \in Unused(payment)
    /\ WritePayment(h, p, [amount |-> job[h].amount, live |-> TRUE,
                           stamp |-> VerificationOnWriteBy(job[h].by)])

\* The edit decides the verification again, by whoever made it.
UpdatePayment(h) ==
    /\ At(h, "updatePayment")
    /\ WritePayment(h, job[h].of, [payment[job[h].of] EXCEPT
                                       !.amount = Named(job[h].amount, @),
                                       !.stamp = VerificationOnWriteBy(job[h].by)])

RemovePayment(h) ==
    /\ At(h, "removePayment")
    /\ WritePayment(h, job[h].of, [payment[job[h].of] EXCEPT !.live = FALSE])

DecidePayment(h) ==
    /\ At(h, "decidePayment")
    /\ WritePayment(h, job[h].of, [payment[job[h].of] EXCEPT
                                       !.stamp = [status |-> job[h].to, by |-> job[h].by]])

PaymentStep(h) ==
    \/ \E u \in Users, amount \in Amounts :
          \/ LoadRecord(h, u, amount)
          \/ \E p \in Payments : LoadUpdatePayment(h, u, p, amount)
    \/ \E u \in Users, p \in Payments :
          \/ LoadUpdatePayment(h, u, p, Unsaid) \/ LoadRemovePayment(h, u, p)
          \/ LoadVerifyPayment(h, u, p) \/ LoadReturnPayment(h, u, p)
    \/ \E p \in Payments : RecordPayment(h, p)
    \/ UpdatePayment(h) \/ RemovePayment(h) \/ DecidePayment(h)
=============================================================================
