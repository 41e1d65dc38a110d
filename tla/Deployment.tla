------------------------------ MODULE Deployment ------------------------------
(***************************************************************************)
(* The processes of a deployment (src/cli.ts, src/server/create-fetch-     *)
(* handler.ts) and the dispatcher loop each of them may run                *)
(* (src/dispatcher.ts: start, stop, tick, the poller and its workers).     *)
(*                                                                         *)
(* A process is one JavaScript thread: a promise callback runs when its    *)
(* promise settles, the poller's interval only when no callback is left.   *)
(* What a claim and an attempt write is DeliveryQueue's; here a delivery   *)
(* is only somewhere between published and attempted.                      *)
(***************************************************************************)
EXTENDS Naturals, FiniteSets, SequencesExt

CONSTANTS
    Process,        \* operating-system processes
    Delivery,       \* delivery ids
    Caller,         \* host code that calls tick() or stop()
    HostOf,         \* the process each caller runs in
    Setups,         \* the deployments: an environment for each process
    BatchSize,      \* deliveries claimed per tick
    Concurrency,    \* workers of one tick
    MaxFailures,    \* bound on storage failures and killed processes
    MaxRetries      \* bound on retries and replays, all together

ASSUME HostAssumption == HostOf \in [Caller -> Process]
ASSUME WorkAssumption ==
    /\ BatchSize \in Nat \ {0} /\ Concurrency \in Nat \ {0}
    /\ IsFiniteSet(Delivery)
ASSUME LimitAssumption == MaxFailures \in Nat /\ MaxRetries \in Nat

VARIABLES
    setup,          \* per process: what its command line and environment say
    proc,           \* per process: new, running, or its exit
    timer,          \* per process: the poller's interval is set
    inFlight,       \* per process: who started the tick in flight
    runs,           \* per process and starter: its run of runTick
    calls,          \* per caller: where its tick() or stop() is
    owed,           \* per caller: due when it called tick(), not claimed since
    life,           \* per delivery: where it is
    home,           \* per delivery: the stores it was published to
    dueOrder,       \* the pairs of deliveries that are due, the earlier one first
    failures,       \* failures so far
    retries         \* retries so far

loopVars == <<timer, inFlight, runs, calls, owed>>
queueVars == <<life, home, dueOrder>>
vars == <<setup, proc, loopVars, queueVars, failures, retries>>

------------------------------------------------------------------------------
(* Environment: buildStorage, buildQueueStorage, dispatcherEnabled *)

Commands == {"serve", "dispatch", "publish", "retry", "list-apps"}
Drivers == {"memory", "file", "redis"}
Environment == [command : Commands, storage : Drivers,
                queue : Drivers \cup {"unset"}, dispatcher : BOOLEAN]

ASSUME SetupAssumption == Setups \subseteq [Process -> Environment]

\* Where a driver keeps a role's data: in the process itself, or shared by
\* every process of the same driver and role.
Store(p, driver, role) ==
    <<driver, role, IF driver = "memory" THEN {p} ELSE Process>>

ControlStore(p) == Store(p, setup[p].storage, "STORAGE")

QueueStore(p) ==
    IF setup[p].queue = "unset" THEN ControlStore(p)
    ELSE Store(p, setup[p].queue, "QUEUE")

Stores(p) == [control |-> ControlStore(p), queue |-> QueueStore(p)]

\* `dispatch` always dispatches; `serve` unless DISPATCHER is off.
Dispatches(p) ==
    \/ setup[p].command = "dispatch"
    \/ setup[p].command = "serve" /\ setup[p].dispatcher

------------------------------------------------------------------------------
(* State *)

Poller == "poller"
Starter == Caller \cup {Poller}
Nobody == "nobody"

ASSUME NamesAssumption == {Poller, Nobody} \cap Caller = {}

NoRun == [phase |-> "none", todo |-> <<>>, working |-> {}]
NewRun == [NoRun EXCEPT !.phase = "claim"]

CallState == {"idle", "tick_waits", "tick_woken", "tick_runs", "tick_done",
              "tick_failed", "stop_waits", "stopped", "stop_failed"}

\* What each variable can hold.
DeployTypeOK ==
    /\ setup \in Setups
    /\ proc \in [Process -> {"new", "running", "exit_0", "exit_1", "killed"}]
    /\ timer \in [Process -> BOOLEAN]
    /\ inFlight \in [Process -> Starter \cup {Nobody}]
    /\ runs \in [Process -> [Starter -> [phase : {"none", "claim", "work"},
                                         todo : Seq(Delivery),
                                         working : SUBSET Delivery]]]
    /\ calls \in [Caller -> CallState]
    /\ owed \in [Caller -> SUBSET Delivery]
    /\ life \in [Delivery -> {"none", "due", "leased", "waiting", "delivered", "dead", "lost"}]
    /\ dueOrder \subseteq Delivery \X Delivery
    /\ failures \in Nat /\ retries \in Nat

Init ==
    /\ setup \in Setups
    /\ proc = [p \in Process |-> "new"]
    /\ timer = [p \in Process |-> FALSE]
    /\ inFlight = [p \in Process |-> Nobody]
    /\ runs = [p \in Process |-> [o \in Starter |-> NoRun]]
    /\ calls = [c \in Caller |-> "idle"]
    /\ owed = [c \in Caller |-> {}]
    /\ life = [d \in Delivery |-> "none"]
    /\ home = [d \in Delivery |-> <<>>]
    /\ dueOrder = {}
    /\ failures = 0
    /\ retries = 0

Held == UNION {runs[p][o].working \cup ToSet(runs[p][o].todo) : p \in Process, o \in Starter}

\* What process p can claim.
Due == {d \in Delivery : life[d] = "due"}
DueAt(p) == {d \in Due : home[d].queue = QueueStore(p)}

BecomesDue(d) ==
    /\ life' = [life EXCEPT ![d] = "due"]
    /\ dueOrder' = dueOrder \cup (Due \X {d})

NoLongerDue(ds) == dueOrder' = {pair \in dueOrder : pair[1] \notin ds /\ pair[2] \notin ds}

------------------------------------------------------------------------------
(* The loop: start, the interval, tick, stop *)

StartRun(p, o) ==
    /\ inFlight' = [inFlight EXCEPT ![p] = o]
    /\ runs' = [runs EXCEPT ![p][o] = NewRun]

\* A promise callback of p has yet to run.
Busy(p) == \E c \in Caller : HostOf[c] = p /\ calls[c] = "tick_woken"

\* Mutant: the interval does not look at inFlight.
MayPollAlways(p) == timer[p] /\ ~Busy(p) /\ runs[p][Poller].phase = "none"

MayPoll(p) == timer[p] /\ ~Busy(p) /\ inFlight[p] = Nobody

\* An interval that finds a tick in flight does nothing.
TimerFires(p) ==
    /\ MayPoll(p)
    /\ StartRun(p, Poller)
    /\ UNCHANGED <<setup, proc, timer, calls, owed, queueVars, failures, retries>>

\* Mutant: a tick in flight stands in for the one asked for.
AskTickJoins(c) ==
    LET p == HostOf[c] IN
    IF inFlight[p] = Nobody
    THEN StartRun(p, c) /\ calls' = [calls EXCEPT ![c] = "tick_runs"]
    ELSE /\ calls' = [calls EXCEPT ![c] = "tick_done"]
         /\ UNCHANGED <<inFlight, runs>>

\* while (inFlight) await inFlight, then a run of its own.
AskTick(c) ==
    LET p == HostOf[c] IN
    IF inFlight[p] = Nobody
    THEN StartRun(p, c) /\ calls' = [calls EXCEPT ![c] = "tick_runs"]
    ELSE /\ calls' = [calls EXCEPT ![c] = "tick_waits"]
         /\ UNCHANGED <<inFlight, runs>>

CallTick(c) ==
    /\ calls[c] = "idle"
    /\ proc[HostOf[c]] = "running" /\ Dispatches(HostOf[c])
    /\ AskTick(c)
    /\ owed' = [owed EXCEPT ![c] = DueAt(HostOf[c])]
    /\ UNCHANGED <<setup, proc, timer, queueVars, failures, retries>>

WakeTick(c) ==
    /\ calls[c] = "tick_woken"
    /\ AskTick(c)
    /\ UNCHANGED <<setup, proc, timer, owed, queueVars, failures, retries>>

\* Mutant: stop does not wait.
AfterStopAtOnce(p) == "stopped"

AfterStop(p) == IF inFlight[p] = Nobody THEN "stopped" ELSE "stop_waits"

CallStop(c) ==
    LET p == HostOf[c] IN
    /\ calls[c] = "idle"
    /\ proc[p] = "running" /\ Dispatches(p)
    /\ timer' = [timer EXCEPT ![p] = FALSE]
    /\ calls' = [calls EXCEPT ![c] = AfterStop(p)]
    /\ UNCHANGED <<setup, proc, inFlight, runs, owed, queueVars, failures, retries>>

\* start() is idempotent: a poller that is set stays as it is.
CallStart(c) ==
    /\ calls[c] = "stopped"
    /\ calls' = [calls EXCEPT ![c] = "idle"]
    /\ timer' = [timer EXCEPT ![HostOf[c]] = TRUE]
    /\ UNCHANGED <<setup, proc, inFlight, runs, owed, queueVars, failures, retries>>

------------------------------------------------------------------------------
(* One run of runTick *)

\* What a caller's state becomes when the run it waits for, or its own, is over.
Settled(p, o, c, ok) ==
    IF HostOf[c] # p THEN calls[c]
    ELSE CASE c = o /\ calls[c] = "tick_runs" -> IF ok THEN "tick_done" ELSE "tick_failed"
           [] calls[c] = "tick_waits" -> IF ok THEN "tick_woken" ELSE "tick_failed"
           [] calls[c] = "stop_waits" -> IF ok THEN "stopped" ELSE "stop_failed"
           [] OTHER -> calls[c]

\* Mutant: only a run that succeeds clears inFlight.
FreesSlotOnSuccess(ok) == ok

\* finally: a run that fails clears inFlight as well.
FreesSlot(ok) == TRUE

\* The run is over. A failed poll is caught: those who wait for it see success.
EndRun(p, o, ok) ==
    /\ inFlight' = [inFlight EXCEPT ![p] = IF FreesSlot(ok) THEN Nobody ELSE @]
    /\ runs' = [runs EXCEPT ![p][o] = NoRun]
    /\ calls' = [c \in Caller |-> Settled(p, o, c, ok \/ o = Poller)]

\* The first BatchSize deliveries that p can claim, and the list of them in due order.
Batch(p) ==
    {d \in DueAt(p) : Cardinality({e \in DueAt(p) : <<e, d>> \in dueOrder}) < BatchSize}
InDueOrder(batch) ==
    {list \in SetToSeqs(batch) :
        \A i, j \in DOMAIN list : i < j => <<list[i], list[j]>> \in dueOrder}

Claims(p, o) ==
    LET batch == Batch(p)
    IN  /\ runs[p][o].phase = "claim"
        /\ life' = [d \in Delivery |-> IF d \in batch THEN "leased" ELSE life[d]]
        /\ NoLongerDue(batch)
        /\ owed' = [c \in Caller |-> owed[c] \ batch]
        /\ IF batch = {}
           THEN EndRun(p, o, TRUE)
           ELSE \E list \in InDueOrder(batch) :
                /\ runs' = [runs EXCEPT ![p][o] = [NoRun EXCEPT !.phase = "work", !.todo = list]]
                /\ UNCHANGED <<inFlight, calls>>
        /\ UNCHANGED <<setup, proc, timer, home, failures, retries>>

ClaimFails(p, o) ==
    /\ runs[p][o].phase = "claim"
    /\ failures < MaxFailures
    /\ failures' = failures + 1
    /\ EndRun(p, o, FALSE)
    /\ UNCHANGED <<setup, proc, timer, owed, queueVars, retries>>

\* A free worker takes the next of the batch.
WorkerTakes(p, o) ==
    LET run == runs[p][o] IN
    /\ run.phase = "work" /\ run.todo # <<>>
    /\ Cardinality(run.working) < Concurrency
    /\ runs' = [runs EXCEPT ![p][o].todo = Tail(run.todo),
                            ![p][o].working = run.working \cup {Head(run.todo)}]
    /\ UNCHANGED <<setup, proc, timer, inFlight, calls, owed, queueVars, failures, retries>>

\* The worker is done with d; the last one to finish ends the run.
WorkerLeaves(p, o, d) ==
    LET run == runs[p][o] IN
    /\ d \in run.working
    /\ IF run.todo = <<>> /\ run.working = {d}
       THEN EndRun(p, o, TRUE)
       ELSE /\ runs' = [runs EXCEPT ![p][o].working = run.working \ {d}]
            /\ UNCHANGED <<inFlight, calls>>
    /\ UNCHANGED <<setup, proc, timer, owed, home, dueOrder>>

\* The attempt is recorded. A process that reads another control plane than the
\* one d was published to finds neither its endpoint nor its message.
WorkerRecords(p, o, d) ==
    /\ WorkerLeaves(p, o, d)
    /\ \E outcome \in IF home[d].control = ControlStore(p)
                      THEN {"delivered", "waiting", "dead"} ELSE {"dead"} :
        /\ outcome = "waiting" => retries < MaxRetries
        /\ life' = [life EXCEPT ![d] = outcome]
        /\ retries' = IF outcome = "waiting" THEN retries + 1 ELSE retries
    /\ UNCHANGED failures

\* A storage failure in the work on one claim: it stays leased.
WorkerThrows(p, o, d) ==
    /\ failures < MaxFailures
    /\ failures' = failures + 1
    /\ WorkerLeaves(p, o, d)
    /\ UNCHANGED <<life, retries>>

\* The lease of a claim nobody works on any more runs out.
LeaseExpires(d) ==
    /\ life[d] = "leased" /\ d \notin Held
    /\ BecomesDue(d)
    /\ UNCHANGED <<setup, proc, loopVars, home, failures, retries>>

\* The retry delay is over.
Ripens(d) ==
    /\ life[d] = "waiting"
    /\ BecomesDue(d)
    /\ UNCHANGED <<setup, proc, loopVars, home, failures, retries>>

------------------------------------------------------------------------------
(* Processes: the commands of run() *)

\* serve and dispatch come up; the dispatcher is started at once.
Boot(p) ==
    /\ proc[p] = "new" /\ setup[p].command \in {"serve", "dispatch"}
    /\ proc' = [proc EXCEPT ![p] = "running"]
    /\ timer' = [timer EXCEPT ![p] = Dispatches(p)]
    /\ UNCHANGED <<setup, inFlight, runs, calls, owed, queueVars, failures, retries>>

\* What only process p held is gone with it.
Survives(d, p) == home[d].queue[3] # {p}

Enqueues(p, d) ==
    /\ life[d] = "none"
    /\ home' = [home EXCEPT ![d] = Stores(p)]
    /\ BecomesDue(d)

\* Host code of a running panel publishes.
HostPublishes(p, d) ==
    /\ proc[p] = "running" /\ setup[p].command = "serve"
    /\ Enqueues(p, d)
    /\ UNCHANGED <<setup, proc, loopVars, failures, retries>>

\* A one-shot command with bad arguments, or one that only reads.
CommandReads(p) ==
    /\ proc[p] = "new" /\ setup[p].command \in {"publish", "retry", "list-apps"}
    /\ \E code \in IF setup[p].command = "list-apps" THEN {"exit_0"} ELSE {"exit_1"} :
            proc' = [proc EXCEPT ![p] = code]
    /\ UNCHANGED <<setup, loopVars, queueVars, failures, retries>>

\* publish: what a process stores in its own memory ends with it.
CommandPublishes(p, d) ==
    /\ proc[p] = "new" /\ setup[p].command = "publish"
    /\ life[d] = "none"
    /\ home' = [home EXCEPT ![d] = Stores(p)]
    /\ IF setup[p].queue = "memory" \/ (setup[p].queue = "unset" /\ setup[p].storage = "memory")
       THEN life' = [life EXCEPT ![d] = "lost"] /\ UNCHANGED dueOrder
       ELSE BecomesDue(d)
    /\ proc' = [proc EXCEPT ![p] = "exit_0"]
    /\ UNCHANGED <<setup, loopVars, failures, retries>>

\* retry of a dead letter this process can see.
CommandRetries(p, d) ==
    /\ proc[p] = "new" /\ setup[p].command = "retry"
    /\ life[d] = "dead" /\ home[d] = Stores(p)
    /\ BecomesDue(d)
    /\ proc' = [proc EXCEPT ![p] = "exit_0"]
    /\ UNCHANGED <<setup, loopVars, home, failures, retries>>

\* The process dies: its calls, its runs and its memory are gone, its leases stay.
Killed(p) ==
    /\ proc[p] = "running"
    /\ failures < MaxFailures
    /\ failures' = failures + 1
    /\ proc' = [proc EXCEPT ![p] = "killed"]
    /\ timer' = [timer EXCEPT ![p] = FALSE]
    /\ inFlight' = [inFlight EXCEPT ![p] = Nobody]
    /\ runs' = [runs EXCEPT ![p] = [o \in Starter |-> NoRun]]
    /\ calls' = [c \in Caller |-> IF HostOf[c] = p THEN "idle" ELSE calls[c]]
    /\ owed' = [c \in Caller |-> IF HostOf[c] = p THEN {} ELSE owed[c]]
    /\ LET lost == {d \in Delivery : life[d] # "none" /\ ~Survives(d, p)}
       IN  /\ life' = [d \in Delivery |-> IF d \in lost THEN "lost" ELSE life[d]]
           /\ NoLongerDue(lost)
    /\ UNCHANGED <<setup, home, retries>>

------------------------------------------------------------------------------
(* Specification *)

RunStep(p, o) ==
    \/ Claims(p, o)
    \/ WorkerTakes(p, o)
    \/ \E d \in Delivery : WorkerRecords(p, o, d)

Next ==
    \/ \E p \in Process :
        \/ TimerFires(p) \/ Boot(p) \/ CommandReads(p) \/ Killed(p)
        \/ \E o \in Starter :
            \/ RunStep(p, o) \/ ClaimFails(p, o)
            \/ \E d \in Delivery : WorkerThrows(p, o, d)
        \/ \E d \in Delivery :
            HostPublishes(p, d) \/ CommandPublishes(p, d) \/ CommandRetries(p, d)
    \/ \E c \in Caller : CallTick(c) \/ WakeTick(c) \/ CallStop(c) \/ CallStart(c)
    \/ \E d \in Delivery : LeaseExpires(d) \/ Ripens(d)

\* The timer of a started poller fires, storage calls and requests return,
\* promise callbacks run, and time passes. Nobody has to call anything, and no
\* process has to start.
Fairness ==
    /\ \A p \in Process :
        /\ WF_vars(TimerFires(p))
        /\ \A o \in Starter : WF_vars(RunStep(p, o))
    /\ \A c \in Caller : WF_vars(WakeTick(c))
    /\ \A d \in Delivery : WF_vars(LeaseExpires(d)) /\ WF_vars(Ripens(d))

Spec == Init /\ [][Next]_vars /\ Fairness

------------------------------------------------------------------------------
(* Properties *)

Running(p, o) == runs[p][o].phase # "none"

\* Ticks of one process never overlap: whoever starts them, the poller or a
\* caller of tick() among several that wake up together, at most one run is
\* under way ("never overlap ticks").
NoOverlap ==
    \A p \in Process, o1, o2 \in Starter : Running(p, o1) /\ Running(p, o2) => o1 = o2

\* tick() promises a pass of its own: when it returns, every delivery that was
\* due when it was called has been claimed by somebody since, as far as one
\* batch reaches. A tick in flight at the time of the call does not count.
OwnPass ==
    \A c \in Caller : calls[c] = "tick_done" /\ Cardinality(Delivery) <= BatchSize => owed[c] = {}

\* When stop() has returned, nothing is in flight and nothing starts, as long
\* as nobody called start() or tick() on the same dispatcher.
StoppedIsQuiet ==
    \A c \in Caller :
        /\ calls[c] = "stopped" /\ ~timer[HostOf[c]]
        /\ \A other \in Caller : HostOf[other] = HostOf[c] => calls[other] \in {"idle", "stopped"}
        => \A o \in Starter : ~Running(HostOf[c], o)

\* A process that dispatches d's queue is up and was not told to stop.
Served(d) == \E p \in Process : timer[p] /\ home[d].queue = QueueStore(p)

\* Every delivery that is due, or leased by a worker that failed or a process
\* that died, is attempted in the end, as long as some process polls its queue:
\* skipped intervals, failed ticks, callers of tick() and earlier deliveries
\* never hold it up forever.
DueIsAttempted ==
    \A d \in Delivery :
        life[d] \in {"due", "leased"} ~> (life[d] \notin {"due", "leased"} \/ ~Served(d))
==============================================================================
