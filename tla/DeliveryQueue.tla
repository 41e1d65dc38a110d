---------------------------- MODULE DeliveryQueue ----------------------------
(***************************************************************************)
(* The delivery queue: delivery records, the due index that schedules      *)
(* them, the dispatchers that claim and attempt them, and the control-     *)
(* plane calls that write them (publish, retryDelivery, recoverEndpoint).  *)
(*                                                                         *)
(* Every storage call is an await in the code, so each one is a step of    *)
(* its own here and any other actor may run between two of them. The       *)
(* exception is claimDue of a storage with a native delivery queue, which  *)
(* runs without an await (src/storage/memory.ts).                          *)
(***************************************************************************)
EXTENDS Integers, FiniteSets

CONSTANTS
    Delivery,           \* delivery ids
    Endpoint,           \* endpoint ids
    EndpointOf,         \* the endpoint each delivery is for
    Dispatcher,         \* dispatcher processes sharing the storage
    Caller,             \* concurrent control-plane calls
    ScheduleLength,     \* entries of the retry schedule
    Delays,             \* delays a schedule entry can give, jitter included
    ConfiguredLease,    \* leaseMs as configured
    AttemptTimeout,     \* timeoutMs
    Headroom,           \* what the code adds to timeoutMs to record the outcome
    BatchSize,          \* deliveries claimed per tick
    Concurrency,        \* workers of one tick
    Prompt,             \* TRUE: a worker is done within AttemptTimeout + Headroom
    CrashPoints,        \* the steps before which an actor may crash or fail
    MaxTime,            \* bound on the clock
    MaxRequeues         \* bound on replays of one delivery

ASSUME EndpointAssumption == EndpointOf \in [Delivery -> Endpoint]
ASSUME ScheduleAssumption == ScheduleLength \in Nat \ {0} /\ Delays \subseteq Nat
ASSUME LeaseAssumption ==
    /\ ConfiguredLease \in Nat
    /\ AttemptTimeout \in Nat
    /\ Headroom \in Nat \ {0}
ASSUME SizeAssumption == BatchSize \in Nat \ {0} /\ Concurrency \in Nat \ {0}
ASSUME PromptAssumption == Prompt \in BOOLEAN
ASSUME CrashAssumption == "idle" \notin CrashPoints
ASSUME BoundAssumption == MaxTime \in Nat /\ MaxRequeues \in Nat

VARIABLES
    clock,              \* now()
    rec,                \* the delivery records
    due,                \* the due index: <<dueAtMillis, delivery>>
    attempts,           \* the attempt records
    endpoint,           \* what a dispatcher can read of an endpoint
    pc,                 \* per dispatcher and delivery: the next storage call
    snap,               \* the record the claim returned
    plan,               \* the outcome and the next due time of the work on it
    begun,              \* when a worker took it up
    call,               \* per caller and delivery: a control-plane call
    requeues            \* replays written, per delivery

vars == <<clock, rec, due, attempts, endpoint, pc, snap, plan, begun, call, requeues>>
jobVars == <<pc, snap, plan, begun>>

------------------------------------------------------------------------------
(* Types *)

NoTime == -1
TimeOrNone == Nat \cup {NoTime}

Status == {"absent", "pending", "delivering", "succeeded", "failed"}

Record == [status: Status,
           attemptCount: Nat,
           nextAttemptAt: TimeOrNone,
           leaseUntil: TimeOrNone,
           pendingTrigger: {"none", "manual"}]

AbsentRecord == [status |-> "absent", attemptCount |-> 0, nextAttemptAt |-> NoTime,
                 leaseUntil |-> NoTime, pendingTrigger |-> "none"]

Attempt == [delivery: Delivery, number: Nat, ok: BOOLEAN, trigger: {"schedule", "manual"}]

JobPc == {"idle", "queued", "sending", "log", "unindex_next", "unindex_lease", "write",
          "index", "note", "hold_unindex", "hold_write", "hold_index"}

Plan == [outcome: {"none", "ok", "fail", "gone"}, next: TimeOrNone]
NoPlan == [outcome |-> "none", next |-> NoTime]

CallPc == {"idle", "publish", "retry", "recover", "call_index"}
Call == [pc: CallPc, snap: Record, at: TimeOrNone]
IdleCall == [pc |-> "idle", snap |-> AbsentRecord, at |-> NoTime]

NonTerminal(r) == r.status \in {"pending", "delivering"}

\* One type invariant: what each variable can hold.
TypeOK ==
    /\ clock \in Nat
    /\ rec \in [Delivery -> Record]
    /\ due \subseteq Nat \X Delivery
    /\ attempts \subseteq Attempt
    /\ endpoint \in [Endpoint -> {"enabled", "disabled", "deleted"}]
    /\ pc \in [Dispatcher -> [Delivery -> JobPc]]
    /\ snap \in [Dispatcher -> [Delivery -> Record]]
    /\ plan \in [Dispatcher -> [Delivery -> Plan]]
    /\ begun \in [Dispatcher -> [Delivery -> TimeOrNone]]
    /\ call \in [Caller -> [Delivery -> Call]]
    /\ requeues \in [Delivery -> Nat]

Init ==
    /\ clock = 0
    /\ rec = [d \in Delivery |-> AbsentRecord]
    /\ due = {}
    /\ attempts = {}
    /\ endpoint = [e \in Endpoint |-> "enabled"]
    /\ pc = [p \in Dispatcher |-> [d \in Delivery |-> "idle"]]
    /\ snap = [p \in Dispatcher |-> [d \in Delivery |-> AbsentRecord]]
    /\ plan = [p \in Dispatcher |-> [d \in Delivery |-> NoPlan]]
    /\ begun = [p \in Dispatcher |-> [d \in Delivery |-> NoTime]]
    /\ call = [c \in Caller |-> [d \in Delivery |-> IdleCall]]
    /\ requeues = [d \in Delivery |-> 0]

------------------------------------------------------------------------------
(* Claiming *)

\* Mutant: the configured lease taken as it is.
leaseMsUnchecked == ConfiguredLease

\* The lease a dispatcher takes: never shorter than one attempt plus headroom.
leaseMs ==
    IF ConfiguredLease >= AttemptTimeout + Headroom
    THEN ConfiguredLease
    ELSE AttemptTimeout + Headroom

\* Mutant: the scan does not stop at now.
RipeAtAnyTime(d) == {t \in 0 .. MaxTime + leaseMs : <<t, d>> \in due}

\* Due times of d the scan reaches: not later than now.
RipeAt(d) == {t \in 0 .. clock : <<t, d>> \in due}

FirstDue(d) == CHOOSE t \in RipeAt(d) : \A u \in RipeAt(d) : t <= u

\* Pending, or delivering with an expired lease (NoTime: no lease at all).
Claimable(d) ==
    \/ rec[d].status = "pending"
    \/ rec[d].status = "delivering" /\ rec[d].leaseUntil <= clock

Candidates == {d \in Delivery : RipeAt(d) # {} /\ Claimable(d)}

\* Ripe entries of deliveries that are missing or terminal.
Orphans == {entry \in due : entry[1] <= clock /\ ~NonTerminal(rec[entry[2]])}

\* One pass in the order of the due index: claims at most BatchSize deliveries,
\* earliest first, and sweeps the orphans it meets on the way. Entries due at
\* the same time are ordered by id, which is left open here.
ScanResult(D, swept) ==
    /\ Cardinality(D) <= BatchSize
    /\ D # Candidates => Cardinality(D) = BatchSize
    /\ \A d \in D, c \in Candidates \ D : FirstDue(d) <= FirstDue(c)
    /\ \A o \in Orphans \ swept :
        /\ Cardinality(D) = BatchSize
        /\ \A d \in D : FirstDue(d) <= o[1]
    /\ \A o \in swept :
        \/ Cardinality(D) < BatchSize
        \/ \E d \in D : o[1] <= FirstDue(d)

\* Mutant: the entry that was found stays where it is.
ClaimAllLeavesDue(p, D, swept) ==
    /\ rec' = [d \in Delivery |->
                IF d \in D
                THEN [rec[d] EXCEPT !.status = "delivering", !.leaseUntil = clock + leaseMs]
                ELSE rec[d]]
    /\ due' = (due \ swept) \cup {<<clock + leaseMs, d>> : d \in D}
    /\ pc' = [pc EXCEPT ![p] = [d \in Delivery |-> IF d \in D THEN "queued" ELSE "idle"]]
    /\ snap' = [snap EXCEPT ![p] = [d \in Delivery |->
                    IF d \in D THEN rec'[d] ELSE AbsentRecord]]

\* The claim moves the due entry to the lease expiry in the same step.
ClaimAll(p, D, swept) ==
    /\ rec' = [d \in Delivery |->
                IF d \in D
                THEN [rec[d] EXCEPT !.status = "delivering", !.leaseUntil = clock + leaseMs]
                ELSE rec[d]]
    /\ due' = (due \ (swept \cup {<<FirstDue(d), d>> : d \in D}))
                \cup {<<clock + leaseMs, d>> : d \in D}
    /\ pc' = [pc EXCEPT ![p] = [d \in Delivery |-> IF d \in D THEN "queued" ELSE "idle"]]
    /\ snap' = [snap EXCEPT ![p] = [d \in Delivery |->
                    IF d \in D THEN rec'[d] ELSE AbsentRecord]]

\* A tick starts only when the previous one is over (inFlight).
Claim(p) ==
    /\ \A d \in Delivery : pc[p][d] = "idle"
    /\ \E D \in SUBSET Candidates, swept \in SUBSET Orphans :
        /\ D # {} \/ swept # {}
        /\ ScanResult(D, swept)
        /\ ClaimAll(p, D, swept)
    /\ UNCHANGED <<clock, attempts, endpoint, plan, begun, call, requeues>>

------------------------------------------------------------------------------
(* Processing one claim: processClaim, recordAttempt, noteEndpointOutcome *)

Active(p) == {d \in Delivery : pc[p][d] \notin {"idle", "queued"}}

FreeWorker(p) == Cardinality(Active(p)) < Concurrency

At(p, d, step) == pc[p][d] = step

Goto(p, d, step) == pc' = [pc EXCEPT ![p][d] = step]

\* The worker is done with the claim: its local state is gone.
Finish(p, d) ==
    /\ Goto(p, d, "idle")
    /\ snap' = [snap EXCEPT ![p][d] = AbsentRecord]
    /\ plan' = [plan EXCEPT ![p][d] = NoPlan]
    /\ begun' = [begun EXCEPT ![p][d] = NoTime]

\* A free worker takes a queued claim up. (Which one is left open; the code
\* takes them in the order they were claimed.)
TakeUp(p, d, step, newPlan) ==
    /\ At(p, d, "queued")
    /\ FreeWorker(p)
    /\ Goto(p, d, step)
    /\ plan' = [plan EXCEPT ![p][d] = newPlan]
    /\ begun' = [begun EXCEPT ![p][d] = clock]
    /\ UNCHANGED <<clock, rec, due, attempts, endpoint, snap, call, requeues>>

\* The endpoint is read as enabled: the request goes out.
StartAttempt(p, d) ==
    /\ endpoint[EndpointOf[d]] = "enabled"
    /\ TakeUp(p, d, "sending", NoPlan)

\* The endpoint is gone: a failed attempt is recorded and no retry planned.
FailTerminal(p, d) ==
    /\ endpoint[EndpointOf[d]] = "deleted"
    /\ TakeUp(p, d, "log", [outcome |-> "gone", next |-> NoTime])

\* The endpoint is disabled: the claim is released, to be looked at again after
\* a lease window.
HoldDisabled(p, d) ==
    /\ endpoint[EndpointOf[d]] = "disabled"
    /\ TakeUp(p, d, "hold_unindex", [outcome |-> "none", next |-> clock + leaseMs])

HoldUnindex(p, d) ==
    /\ At(p, d, "hold_unindex")
    /\ due' = due \ {<<snap[p][d].leaseUntil, d>>}
    /\ Goto(p, d, "hold_write")
    /\ UNCHANGED <<clock, rec, attempts, endpoint, snap, plan, begun, call, requeues>>

\* Mutant: holding forgets that the delivery was replayed.
HoldWriteDropsTrigger(p, d) ==
    /\ At(p, d, "hold_write")
    /\ rec' = [rec EXCEPT ![d] = [snap[p][d] EXCEPT
                !.status = "pending", !.nextAttemptAt = plan[p][d].next,
                !.leaseUntil = NoTime, !.pendingTrigger = "none"]]
    /\ Goto(p, d, "hold_index")
    /\ UNCHANGED <<clock, due, attempts, endpoint, snap, plan, begun, call, requeues>>

HoldWrite(p, d) ==
    /\ At(p, d, "hold_write")
    /\ rec' = [rec EXCEPT ![d] = [snap[p][d] EXCEPT
                !.status = "pending", !.nextAttemptAt = plan[p][d].next,
                !.leaseUntil = NoTime]]
    /\ Goto(p, d, "hold_index")
    /\ UNCHANGED <<clock, due, attempts, endpoint, snap, plan, begun, call, requeues>>

HoldIndex(p, d) ==
    /\ At(p, d, "hold_index")
    /\ due' = due \cup {<<plan[p][d].next, d>>}
    /\ Finish(p, d)
    /\ UNCHANGED <<clock, rec, attempts, endpoint, call, requeues>>

\* Mutants: one attempt too many; a jitter that outweighs the delay.
NextTimesOffByOne(attemptsMade) ==
    IF attemptsMade > ScheduleLength THEN {NoTime} ELSE {clock + w : w \in Delays}

NextTimesOverJittered(attemptsMade) ==
    IF attemptsMade >= ScheduleLength THEN {NoTime} ELSE {clock - 2 * w : w \in Delays}

\* When the next attempt may be made after attemptsMade of them, or NoTime
\* when the schedule is exhausted.
NextTimes(attemptsMade) ==
    IF attemptsMade >= ScheduleLength THEN {NoTime} ELSE {clock + w : w \in Delays}

\* The receiver answers, refuses, or the timeout aborts the request.
Respond(p, d) ==
    /\ At(p, d, "sending")
    /\ \/ plan' = [plan EXCEPT ![p][d] = [outcome |-> "ok", next |-> NoTime]]
       \/ \E t \in NextTimes(snap[p][d].attemptCount + 1) :
            plan' = [plan EXCEPT ![p][d] = [outcome |-> "fail", next |-> t]]
    /\ Goto(p, d, "log")
    /\ UNCHANGED <<clock, rec, due, attempts, endpoint, snap, begun, call, requeues>>

\* The attempt record, at the key of its number: an earlier one is overwritten.
LogAttempt(p, d) ==
    LET number == snap[p][d].attemptCount + 1 IN
    /\ At(p, d, "log")
    /\ attempts' =
        {a \in attempts : ~(a.delivery = d /\ a.number = number)} \cup
        {[delivery |-> d, number |-> number, ok |-> plan[p][d].outcome = "ok",
          trigger |-> IF snap[p][d].pendingTrigger = "manual"
                      THEN "manual" ELSE "schedule"]}
    /\ Goto(p, d, "unindex_next")
    /\ UNCHANGED <<clock, rec, due, endpoint, snap, plan, begun, call, requeues>>

\* removeDueEntry: the key at nextAttemptAt, then the key at leaseUntil.
UnindexNext(p, d) ==
    /\ At(p, d, "unindex_next")
    /\ due' = due \ {<<snap[p][d].nextAttemptAt, d>>}
    /\ Goto(p, d, "unindex_lease")
    /\ UNCHANGED <<clock, rec, attempts, endpoint, snap, plan, begun, call, requeues>>

\* Mutant: only the key at nextAttemptAt is removed.
UnindexLeaseSkipped(p, d) ==
    /\ At(p, d, "unindex_lease")
    /\ Goto(p, d, "write")
    /\ UNCHANGED <<clock, rec, due, attempts, endpoint, snap, plan, begun, call, requeues>>

UnindexLease(p, d) ==
    /\ At(p, d, "unindex_lease")
    /\ due' = due \ {<<snap[p][d].leaseUntil, d>>}
    /\ Goto(p, d, "write")
    /\ UNCHANGED <<clock, rec, attempts, endpoint, snap, plan, begun, call, requeues>>

\* The record after the attempt: the claimed record, with the trigger hint and
\* the lease cleared and the attempt counted.
Outcome(r, pl) ==
    [r EXCEPT
        !.status = CASE pl.outcome = "ok" -> "succeeded"
                     [] pl.outcome # "ok" /\ pl.next # NoTime -> "pending"
                     [] OTHER -> "failed",
        !.attemptCount = @ + 1,
        !.nextAttemptAt = pl.next,
        !.leaseUntil = NoTime,
        !.pendingTrigger = "none"]

\* Mutant: the record is put back to pending without a due entry.
WriteOutcomeUnindexed(p, d) ==
    /\ At(p, d, "write")
    /\ rec' = [rec EXCEPT ![d] = Outcome(snap[p][d], plan[p][d])]
    /\ Goto(p, d, "note")
    /\ UNCHANGED <<clock, due, attempts, endpoint, snap, plan, begun, call, requeues>>

WriteOutcome(p, d) ==
    /\ At(p, d, "write")
    /\ rec' = [rec EXCEPT ![d] = Outcome(snap[p][d], plan[p][d])]
    /\ Goto(p, d, IF plan[p][d].next # NoTime THEN "index" ELSE "note")
    /\ UNCHANGED <<clock, due, attempts, endpoint, snap, plan, begun, call, requeues>>

IndexNext(p, d) ==
    /\ At(p, d, "index")
    /\ due' = due \cup {<<plan[p][d].next, d>>}
    /\ Goto(p, d, "note")
    /\ UNCHANGED <<clock, rec, attempts, endpoint, snap, plan, begun, call, requeues>>

\* noteEndpointOutcome: a failure may disable the endpoint (the policy is not
\* decided here). Nothing is noted when no attempt reached an endpoint.
NoteOutcome(p, d) ==
    LET e == EndpointOf[d] IN
    /\ At(p, d, "note")
    /\ \/ UNCHANGED endpoint
       \/ /\ plan[p][d].outcome = "fail"
          /\ endpoint[e] = "enabled"
          /\ endpoint' = [endpoint EXCEPT ![e] = "disabled"]
    /\ Finish(p, d)
    /\ UNCHANGED <<clock, rec, due, attempts, call, requeues>>

------------------------------------------------------------------------------
(* Failures *)

\* A storage call rejects: the worker drops the claim and leaves the record
\* and its lease as they are.
StepFails(p, d) ==
    /\ pc[p][d] \in CrashPoints
    /\ Finish(p, d)
    /\ UNCHANGED <<clock, rec, due, attempts, endpoint, call, requeues>>

\* The process dies with every claim it holds, and a new one starts.
Crash(p) ==
    /\ \A d \in Delivery : pc[p][d] \in CrashPoints \cup {"idle"}
    /\ \E d \in Delivery : pc[p][d] # "idle"
    /\ pc' = [pc EXCEPT ![p] = [d \in Delivery |-> "idle"]]
    /\ snap' = [snap EXCEPT ![p] = [d \in Delivery |-> AbsentRecord]]
    /\ plan' = [plan EXCEPT ![p] = [d \in Delivery |-> NoPlan]]
    /\ begun' = [begun EXCEPT ![p] = [d \in Delivery |-> NoTime]]
    /\ UNCHANGED <<clock, rec, due, attempts, endpoint, call, requeues>>

\* A control-plane call fails or its process dies.
CallFails(c, d) ==
    /\ call[c][d].pc \in CrashPoints
    /\ call' = [call EXCEPT ![c][d] = IdleCall]
    /\ UNCHANGED <<clock, rec, due, attempts, endpoint, jobVars, requeues>>

------------------------------------------------------------------------------
(* Control-plane calls on deliveries *)

CallAt(c, d, step) == call[c][d].pc = step

SetCall(c, d, step, r, t) ==
    call' = [call EXCEPT ![c][d] = [pc |-> step, snap |-> r, at |-> t]]

\* publish() takes createdAt and reads the enabled endpoints. A delivery id is
\* new, so no other call writes it.
PublishBegin(c, d) ==
    /\ CallAt(c, d, "idle")
    /\ rec[d].status = "absent"
    /\ \A o \in Caller : call[o][d].pc # "publish"
    /\ endpoint[EndpointOf[d]] = "enabled"
    /\ SetCall(c, d, "publish", AbsentRecord, clock)
    /\ UNCHANGED <<clock, rec, due, attempts, endpoint, jobVars, requeues>>

\* The fan-out writes the record, due at the nowMs it read since.
PublishWrite(c, d) ==
    /\ CallAt(c, d, "publish")
    /\ rec' = [rec EXCEPT ![d] = [AbsentRecord EXCEPT
                !.status = "pending", !.nextAttemptAt = call[c][d].at]]
    /\ \E nowMs \in call[c][d].at .. clock :
        SetCall(c, d, "call_index", AbsentRecord, nowMs)
    /\ UNCHANGED <<clock, due, attempts, endpoint, jobVars, requeues>>

Requeues(d) == Cardinality({c \in Caller : call[c][d].pc \in {"retry", "recover"}})

\* Both replays read the record and go on only if it is a dead letter.
ReadDeadLetter(c, d, step, t) ==
    /\ CallAt(c, d, "idle")
    /\ rec[d].status = "failed"
    /\ requeues[d] + Requeues(d) < MaxRequeues
    /\ SetCall(c, d, step, rec[d], t)
    /\ UNCHANGED <<clock, rec, due, attempts, endpoint, jobVars, requeues>>

\* retryDelivery: the record is read, then the before hook is awaited.
RetryRead(c, d) == ReadDeadLetter(c, d, "retry", NoTime)

\* recoverEndpoint: nowMs was read before the loop came to this delivery.
RecoverRead(c, d) ==
    \E nowMs \in 0 .. clock : ReadDeadLetter(c, d, "recover", nowMs)

RequeueWrite(c, d) ==
    /\ call[c][d].pc \in {"retry", "recover"}
    /\ rec' = [rec EXCEPT ![d] = [call[c][d].snap EXCEPT
                !.status = "pending", !.nextAttemptAt = clock,
                !.leaseUntil = NoTime, !.pendingTrigger = "manual"]]
    /\ requeues' = [requeues EXCEPT ![d] = @ + 1]
    /\ SetCall(c, d, "call_index", AbsentRecord,
               IF call[c][d].pc = "retry" THEN clock ELSE call[c][d].at)
    /\ UNCHANGED <<clock, due, attempts, endpoint, jobVars>>

\* The second half of writeDeliveryWithDue, for all three calls.
CallIndex(c, d) ==
    /\ CallAt(c, d, "call_index")
    /\ due' = due \cup {<<call[c][d].at, d>>}
    /\ call' = [call EXCEPT ![c][d] = IdleCall]
    /\ UNCHANGED <<clock, rec, attempts, endpoint, jobVars, requeues>>

\* enableEndpoint, disableEndpoint and deleteEndpoint, as dispatchers and
\* publishers see them.
SetEndpoint(e, state) ==
    /\ endpoint[e] \notin {"deleted", state}
    /\ endpoint' = [endpoint EXCEPT ![e] = state]
    /\ UNCHANGED <<clock, rec, due, attempts, jobVars, call, requeues>>

------------------------------------------------------------------------------
(* Time *)

\* Work that must be done before the clock moves on, when workers are prompt:
\* a free worker takes up a queued claim at once, and is done with it within
\* AttemptTimeout + Headroom of taking it up.
Overdue(p, d) ==
    \/ At(p, d, "queued") /\ FreeWorker(p)
    \/ d \in Active(p) /\ clock + 1 >= begun[p][d] + AttemptTimeout + Headroom

Tick ==
    /\ clock < MaxTime
    /\ Prompt => \A p \in Dispatcher, d \in Delivery : ~Overdue(p, d)
    /\ clock' = clock + 1
    /\ UNCHANGED <<rec, due, attempts, endpoint, jobVars, call, requeues>>

ProcessClaim(p, d) ==
    \/ StartAttempt(p, d)
    \/ FailTerminal(p, d)
    \/ HoldDisabled(p, d)
    \/ HoldUnindex(p, d)
    \/ HoldWrite(p, d)
    \/ HoldIndex(p, d)
    \/ Respond(p, d)
    \/ LogAttempt(p, d)
    \/ UnindexNext(p, d)
    \/ UnindexLease(p, d)
    \/ WriteOutcome(p, d)
    \/ IndexNext(p, d)
    \/ NoteOutcome(p, d)
    \/ StepFails(p, d)

ControlPlane(c, d) ==
    \/ PublishBegin(c, d)
    \/ PublishWrite(c, d)
    \/ RetryRead(c, d)
    \/ RecoverRead(c, d)
    \/ RequeueWrite(c, d)
    \/ CallIndex(c, d)
    \/ CallFails(c, d)

Next ==
    \/ Tick
    \/ \E p \in Dispatcher : Claim(p) \/ Crash(p)
    \/ \E p \in Dispatcher, d \in Delivery : ProcessClaim(p, d)
    \/ \E c \in Caller, d \in Delivery : ControlPlane(c, d)
    \/ \E e \in Endpoint, state \in {"enabled", "disabled", "deleted"} : SetEndpoint(e, state)

Spec == Init /\ [][Next]_vars

------------------------------------------------------------------------------
(* Properties *)

\* The steps of an actor between the removal of a due entry, or the write of a
\* record, and the write of the new due entry.
JobWindow == {"unindex_lease", "write", "index", "hold_write", "hold_index"}
CallWindow == {"call_index"}

InHand(d) ==
    \/ \E p \in Dispatcher : pc[p][d] \in JobWindow
    \/ \E c \in Caller : call[c][d].pc \in CallWindow

DueOf(d) == {entry \in due : entry[2] = d}

\* No delivery is stranded: while it is not terminal, it has a due entry by
\* which some later tick finds it, or a live actor is about to write one.
\* (A claimed delivery has one at its lease expiry, which is what makes a crash
\* of its claimer harmless: core.ts writeDeliveryWithDue and removeDueEntry.)
DueCoverage ==
    \A d \in Delivery : NonTerminal(rec[d]) => InHand(d) \/ DueOf(d) # {}

\* Nobody is between the steps that move d and its due entry together.
Settled(d) ==
    /\ \A p \in Dispatcher :
        pc[p][d] \in {"idle", "queued", "sending", "log", "unindex_next", "note", "hold_unindex"}
    /\ \A c \in Caller : call[c][d].pc \notin CallWindow

\* ADR 0005: exactly one due entry per non-terminal delivery (a second one would
\* be a second schedule for it), and none is left behind by a terminal one.
ExactlyOneDue ==
    \A d \in Delivery : Settled(d) =>
        Cardinality(DueOf(d)) = IF NonTerminal(rec[d]) THEN 1 ELSE 0

\* The lease keeps a claim exclusive: no second dispatcher works on a delivery
\* while the first is still sending it or recording the outcome, so that the
\* record a dispatcher writes back, unconditionally, is never a stale one.
OneOwner ==
    \A d \in Delivery, p, q \in Dispatcher :
        /\ pc[p][d] \notin {"idle", "note"}
        /\ pc[q][d] \notin {"idle", "note"}
        => p = q

AttemptsOf(d) == {a \in attempts : a.delivery = d}

\* The attempt log agrees with the record: one attempt per number counted (and
\* at most the one being recorded beyond), and the only success is the last
\* attempt of a succeeded delivery. Crashes and re-sends do not disturb it.
AttemptLogComplete ==
    \A d \in Delivery :
        LET n == rec[d].attemptCount IN
        /\ 1 .. n \subseteq {a.number : a \in AttemptsOf(d)}
        /\ {a.number : a \in AttemptsOf(d)} \subseteq 1 .. n + 1
        /\ \A a \in AttemptsOf(d) : a.number <= n =>
            (a.ok <=> a.number = n /\ rec[d].status = "succeeded")

\* Each replay (retryDelivery, recoverEndpoint) is answered by exactly one
\* attempt marked "manual", however often the delivery is held, re-claimed or
\* re-sent after a crash in between.
ManualAccounting ==
    \A d \in Delivery :
        requeues[d] =
            Cardinality({a \in AttemptsOf(d) :
                            a.trigger = "manual" /\ a.number <= rec[d].attemptCount})
            + (IF rec[d].pendingTrigger = "manual" THEN 1 ELSE 0)

\* The queue implements the lifecycle: seen through the record, a delivery
\* moves only along the arrows of docs/DELIVERY.md, counts each attempt once,
\* backs off only while the schedule has entries left, and leaves "succeeded"
\* never again.
Lifecycle == INSTANCE DeliveryLifecycle WITH
    status <- [d \in Delivery |-> rec[d].status],
    attemptCount <- [d \in Delivery |-> rec[d].attemptCount]

ImplementsLifecycle == Lifecycle!Spec

==============================================================================
