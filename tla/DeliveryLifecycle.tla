-------------------------- MODULE DeliveryLifecycle --------------------------
(***************************************************************************)
(* What the queue promises of one delivery, seen from outside: the state   *)
(* diagram of the delivery record, with the number of attempts on it.      *)
(* Storage, leases, due entries and dispatchers are invisible here.        *)
(* DeliveryQueue implements this specification.                            *)
(***************************************************************************)
EXTENDS Naturals

CONSTANTS
    Delivery,           \* delivery ids
    ScheduleLength      \* entries of the retry schedule

VARIABLES
    status,             \* DeliveryStatus, or "absent" before publish wrote it
    attemptCount

lifecycleVars == <<status, attemptCount>>

Status == {"absent", "pending", "delivering", "succeeded", "failed"}

Init ==
    /\ status = [d \in Delivery |-> "absent"]
    /\ attemptCount = [d \in Delivery |-> 0]

Move(d, from, to) ==
    /\ status[d] \in from
    /\ status' = [status EXCEPT ![d] = to]

\* publish() fan-out writes the delivery.
Publish(d) == Move(d, {"absent"}, "pending") /\ UNCHANGED attemptCount

\* Dispatchers claim a set of pending deliveries in one pass; an expired lease
\* is taken over without a visible change.
Claim ==
    /\ \E D \in SUBSET {d \in Delivery : status[d] = "pending"} :
        status' = [d \in Delivery |-> IF d \in D THEN "delivering" ELSE status[d]]
    /\ UNCHANGED attemptCount

\* An attempt is accounted for exactly once, and decides the next state.
Account(d, to) ==
    /\ Move(d, {"delivering"}, to)
    /\ attemptCount' = [attemptCount EXCEPT ![d] = @ + 1]

Succeed(d) == Account(d, "succeeded")

Backoff(d) == attemptCount[d] + 1 < ScheduleLength /\ Account(d, "pending")

\* Exhausted, or the endpoint no longer exists.
DeadLetter(d) == Account(d, "failed")

\* A disabled endpoint holds the delivery without spending an attempt.
Hold(d) == Move(d, {"delivering"}, "pending") /\ UNCHANGED attemptCount

\* retryDelivery / recoverEndpoint replay a dead letter.
Requeue(d) == Move(d, {"failed"}, "pending") /\ UNCHANGED attemptCount

Next ==
    \/ Claim
    \/ \E d \in Delivery :
        \/ Publish(d)
        \/ Succeed(d)
        \/ Backoff(d)
        \/ DeadLetter(d)
        \/ Hold(d)
        \/ Requeue(d)

Spec == Init /\ [][Next]_lifecycleVars
==============================================================================
