-------------------------- MODULE DriveReservation --------------------------
(***************************************************************************)
(* What the job manager promises about physical drives, without its code:  *)
(* tickets reserve drives.  A drive has at most one holder, at most Slots   *)
(* drives are held, a drive passes to the waiting tickets in the order     *)
(* they were issued, and a ticket waits only while it has to.              *)
(***************************************************************************)
EXTENDS Integers, FiniteSets

CONSTANTS Drives, Slots

VARIABLES
    issued,     \* the last ticket issued
    holder,     \* the ticket that holds each drive, or Nobody
    waiting     \* the tickets that wait for each drive

vars == <<issued, holder, waiting>>

Nobody == 0

Held(h) == {d \in Drives : h[d] # Nobody}

Full(h) == Cardinality(Held(h)) >= Slots

Init ==
    /\ issued = 0
    /\ holder = [d \in Drives |-> Nobody]
    /\ waiting = [d \in Drives |-> {}]

\* A ticket is issued: it is turned away, or waits because the drive or every
\* slot is taken, or holds its drive at once.
Arrive(d) ==
    /\ issued' = issued + 1
    /\ \/ UNCHANGED <<holder, waiting>>
       \/ /\ holder[d] # Nobody \/ Full(holder)
          /\ waiting' = [waiting EXCEPT ![d] = @ \cup {issued'}]
          /\ UNCHANGED holder
       \/ /\ holder[d] = Nobody /\ ~Full(holder)
          /\ holder' = [holder EXCEPT ![d] = issued']
          /\ UNCHANGED waiting

Withdraw(d, t) ==
    /\ waiting' = [waiting EXCEPT ![d] = @ \ {t}]
    /\ UNCHANGED <<issued, holder>>

\* The free drives are offered to the waiting tickets: some are refused, some
\* served.  A served ticket leaves nobody before it in the queue, and when it
\* is over whoever still waits has to.
Serve(h) ==
    /\ \A d \in Drives : waiting'[d] \subseteq waiting[d]
    /\ \A d \in Held(h) : holder'[d] = h[d] /\ waiting'[d] = waiting[d]
    /\ \A d \in Held(holder') \ Held(h) :
          /\ holder'[d] \in waiting[d]
          /\ \A t \in waiting'[d] : holder'[d] < t
    /\ Cardinality(Held(holder')) <= Slots
    /\ \A d \in Drives : waiting'[d] # {} => holder'[d] # Nobody \/ Full(holder')

Finish(d) ==
    /\ holder[d] # Nobody
    /\ Serve([holder EXCEPT ![d] = Nobody])
    /\ UNCHANGED issued

Next ==
    \E d \in Drives :
        \/ Arrive(d)
        \/ \E t \in waiting[d] : Withdraw(d, t)
        \/ Finish(d)

Spec == Init /\ [][Next]_vars
=============================================================================
