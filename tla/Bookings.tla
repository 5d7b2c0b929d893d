------------------------------ MODULE Bookings ------------------------------
(***************************************************************************)
(* ShipmentsService.create and remove, over the numbers of one day: the    *)
(* next number is read in one statement and written in another, and a      *)
(* booking that loses its number to another tries again.                   *)
(***************************************************************************)
EXTENDS DeskTables, FiniteSetsExt

\* seen is not in the code: how many trips there were when the request came.
BookingJob ==
    [do : {"readNumbers"}, attempt : 1 .. Attempts, seen : Nat]
    \cup [do : {"insertTrip"}, attempt : 1 .. Attempts, seen : Nat, number : Nat \ {0}]
    \cup [do : {"removeTrip"}, of : Trips]

\* Mutant: the numbers of removed trips are not asked for.
LiveNumbers == {trip[t].number : t \in Live(trip)}
\* generateShipmentNumber reads removed trips too: a number issued is spent.
Issued == {trip[t].number : t \in Exists(trip)}
\* nextShipmentNumber, after the number of the day.
Highest(numbers) == IF numbers = {} THEN 0 ELSE Max(numbers)

LoadBook(h) ==
    /\ Waiting(h, "numbers")
    /\ Begin(h, [do |-> "readNumbers", attempt |-> 1, seen |-> Cardinality(Exists(trip))])

ReadNumbers(h) ==
    /\ At(h, "readNumbers")
    /\ GoOn(h, [do |-> "insertTrip", attempt |-> job[h].attempt, seen |-> job[h].seen,
                number |-> Highest(Issued) + 1])

\* shipment_number_live_key, which leaves out removed trips.
NumberFree(n) == \A t \in Live(trip) : trip[t].number # n

InsertTrip(h, t) ==
    /\ At(h, "insertTrip")
    /\ NumberFree(job[h].number)
    /\ IsNew(trip, t)
    /\ trip' = [trip EXCEPT ![t] = [number |-> job[h].number, live |-> TRUE]]
    /\ Done(h)
    /\ UNCHANGED <<record, naming, rule, winner>>

\* Mutant: the number read before is tried again.
RetrySame(h) ==
    /\ At(h, "insertTrip")
    /\ ~ NumberFree(job[h].number)
    /\ job[h].attempt < Attempts
    /\ GoOn(h, [job[h] EXCEPT !.attempt = @ + 1])
\* Mutant: it tries for ever.
RetryForever(h) ==
    /\ At(h, "insertTrip")
    /\ ~ NumberFree(job[h].number)
    /\ GoOn(h, [do |-> "readNumbers", attempt |-> job[h].attempt + 1, seen |-> job[h].seen])
\* isShipmentNumberCollision
RetryBooking(h) ==
    /\ At(h, "insertTrip")
    /\ ~ NumberFree(job[h].number)
    /\ job[h].attempt < Attempts
    /\ GoOn(h, [do |-> "readNumbers", attempt |-> job[h].attempt + 1, seen |-> job[h].seen])
TurnAway(h) ==
    /\ At(h, "insertTrip")
    /\ ~ NumberFree(job[h].number)
    /\ job[h].attempt = Attempts
    /\ Refuse(h)

\* A draft just booked has nothing that would keep it.
LoadRemoveTrip(h, t) ==
    /\ Waiting(h, "numbers")
    /\ t \in Live(trip)
    /\ Begin(h, [do |-> "removeTrip", of |-> t])
RemoveTrip(h) ==
    /\ At(h, "removeTrip")
    /\ trip' = [trip EXCEPT ![job[h].of].live = FALSE]
    /\ Done(h)
    /\ UNCHANGED <<record, naming, rule, winner>>

BookingStep(h) ==
    \/ LoadBook(h) \/ ReadNumbers(h) \/ RetryBooking(h) \/ TurnAway(h) \/ RemoveTrip(h)
    \/ \E t \in Trips : InsertTrip(h, t) \/ LoadRemoveTrip(h, t)
=============================================================================
