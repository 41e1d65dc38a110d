----------------------------- MODULE ServerProofs -----------------------------
(***************************************************************************)
(* Theorems about what a server of the library runs and what stands in     *)
(* front of it: the dispatcher loop of Deployment, the admin API of        *)
(* ApiGate and the admin UI of Console, each for any values of its         *)
(* constants.  The three share nothing but this module.                    *)
(***************************************************************************)
EXTENDS Deployment, ApiGate, Console, FiniteSetTheorems, TLAPS

------------------------------------------------------------------------------
(* The dispatcher loop: its inductive invariant *)

\* A run for each process and starter.
Table(t) == t = [p \in Process |-> [o \in Starter |-> t[p][o]]]

IsRun(r) == r = [phase |-> r.phase, todo |-> r.todo, working |-> r.working]

\* What the loop's variables can hold. (The order of the batches plays no part here.)
Shape ==
    /\ timer \in [Process -> BOOLEAN]
    /\ proc \in [Process -> {"new", "running", "exit_0", "exit_1", "killed"}]
    /\ inFlight \in [Process -> Starter \cup {Nobody}]
    /\ calls \in [Caller -> CallState]
    /\ Table(runs)
    /\ \A p \in Process, o \in Starter :
        /\ IsRun(runs[p][o])
        /\ ~Running(p, o) => runs[p][o].working = {}

\* inFlight names the starter of the run under way, and nobody exactly when there is none.
SlotNamesRun == \A p \in Process, o \in Starter : Running(p, o) <=> inFlight[p] = o

\* A run that a caller started is the one this caller's tick() is in.
CallersOwnTheirRuns ==
    \A p \in Process, c \in Caller : Running(p, c) => HostOf[c] = p /\ calls[c] = "tick_runs"

\* A poll that goes on without its interval is waited for by who cleared the interval.
StopsAwaitPolls ==
    \A p \in Process : inFlight[p] = Poller /\ ~timer[p] =>
        \E c \in Caller : HostOf[c] = p /\ calls[c] = "stop_waits"

\* A process that is not up has no loop and no calls.
NothingRunsElsewhere ==
    \A p \in Process : proc[p] # "running" =>
        /\ ~timer[p] /\ inFlight[p] = Nobody
        /\ \A c \in Caller : HostOf[c] = p => calls[c] = "idle"

IInv ==
    /\ Shape
    /\ SlotNamesRun
    /\ CallersOwnTheirRuns
    /\ StopsAwaitPolls
    /\ NothingRunsElsewhere

\* A run, from the sets its fields are in.
LEMMA RunIs ==
    ASSUME NEW P, NEW T, NEW W, NEW r \in [phase : P, todo : T, working : W]
    PROVE  IsRun(r)
BY DEF IsRun

\* A new run has nothing to do yet.
LEMMA NewRunIs ==
    /\ IsRun(NoRun) /\ NoRun.phase = "none" /\ NoRun.working = {}
    /\ IsRun(NewRun) /\ NewRun.phase = "claim"
<1>1. IsRun(NoRun) /\ NoRun.phase = "none" /\ NoRun.working = {}
  BY DEF NoRun, IsRun
<1>2. NewRun.phase = "claim" /\ NewRun \in [phase : {"none", "claim"}, todo : {NoRun.todo}, working : {{}}]
  BY <1>1 DEF NewRun, IsRun
<1> QED
  BY <1>1, <1>2, RunIs

\* The initial states: no process is up.
LEMMA InitIInv == Init => IInv
<1> SUFFICES ASSUME Init PROVE IInv
  OBVIOUS
<1>1. \A p \in Process, o \in Starter : runs[p][o] = NoRun
  BY DEF Init
<1>2. \A p \in Process, o \in Starter : inFlight[p] = Nobody /\ o # Nobody
  BY NamesAssumption DEF Init, Starter, Poller, Nobody
<1>3. Shape
  BY <1>1, NewRunIs DEF Init, Shape, Table, Running, CallState
<1>4. SlotNamesRun /\ CallersOwnTheirRuns
  BY <1>1, <1>2 DEF SlotNamesRun, CallersOwnTheirRuns, Running, NoRun, Starter
<1>5. StopsAwaitPolls /\ NothingRunsElsewhere
  BY DEF Init, StopsAwaitPolls, NothingRunsElsewhere, Nobody, Poller
<1> QED
  BY <1>3, <1>4, <1>5 DEF IInv

------------------------------------------------------------------------------
(* Steps of the loop *)

SetsRun(p, o, r) == runs' = [runs EXCEPT ![p][o] = r]

\* What a step writes to one run, and leaves of the others.
LEMMA SetRun ==
    ASSUME Shape, NEW p \in Process, NEW o \in Starter, NEW r, SetsRun(p, o, r)
    PROVE  /\ Table(runs')
           /\ \A q \in Process, s \in Starter :
                runs'[q][s] = IF q = p /\ s = o THEN r ELSE runs[q][s]
<1> DEFINE row == [runs[p] EXCEPT ![o] = r]
<1>1. runs = [q \in Process |-> [s \in Starter |-> runs[q][s]]]
  BY DEF Shape, Table
<1>2. DOMAIN runs = Process /\ runs' = [q \in Process |-> IF q = p THEN row ELSE runs[q]]
  BY <1>1 DEF SetsRun
<1>3. \A q \in Process : runs[q] = [s \in Starter |-> runs[q][s]]
  BY <1>1
<1>4. row = [s \in Starter |-> IF s = o THEN r ELSE runs[p][s]]
  BY <1>3
<1>5. \A q \in Process : runs'[q] = IF q = p THEN row ELSE runs[q]
  BY <1>2
<1>6. \A q \in Process, s \in Starter : runs'[q][s] = IF q = p /\ s = o THEN r ELSE runs[q][s]
  BY <1>4, <1>5
<1>7. \A q \in Process : runs'[q] = [s \in Starter |-> runs'[q][s]]
  BY <1>3, <1>4, <1>5
<1> HIDE DEF row
<1>8. runs' = [q \in Process |-> runs'[q]]
  BY <1>2
<1> QED
  BY <1>6, <1>7, <1>8 DEF Table

\* A run that starts in a free slot is the only one of its process.
LEMMA StartRunEffect ==
    ASSUME Shape, NEW p \in Process, NEW o \in Starter, StartRun(p, o)
    PROVE  /\ inFlight' = [inFlight EXCEPT ![p] = o]
           /\ Table(runs')
           /\ \A q \in Process, s \in Starter :
                runs'[q][s] = IF q = p /\ s = o THEN NewRun ELSE runs[q][s]
<1>1. SetsRun(p, o, NewRun) /\ inFlight' = [inFlight EXCEPT ![p] = o]
  BY DEF StartRun, SetsRun
<1> QED
  BY <1>1, SetRun

\* The end of a run frees the slot, and nobody waits for it any more.
LEMMA EndRunEffect ==
    ASSUME Shape, NEW p \in Process, NEW o \in Starter, NEW ok \in BOOLEAN, EndRun(p, o, ok)
    PROVE  /\ inFlight' = [inFlight EXCEPT ![p] = Nobody]
           /\ Table(runs')
           /\ \A q \in Process, s \in Starter :
                runs'[q][s] = IF q = p /\ s = o THEN NoRun ELSE runs[q][s]
           /\ calls' \in [Caller -> CallState]
           /\ \A c \in Caller : calls'[c] # calls[c] =>
                /\ HostOf[c] = p
                /\ calls[c] \in {"tick_waits", "stop_waits"} \/ (c = o /\ calls[c] = "tick_runs")
                /\ calls'[c] # "stop_waits"
<1>1. /\ inFlight' = [inFlight EXCEPT ![p] = Nobody]
      /\ Table(runs')
      /\ \A q \in Process, s \in Starter :
            runs'[q][s] = IF q = p /\ s = o THEN NoRun ELSE runs[q][s]
  <2>1. SetsRun(p, o, NoRun) /\ inFlight' = [inFlight EXCEPT ![p] = Nobody]
    BY DEF EndRun, FreesSlot, SetsRun
  <2> QED
    BY <2>1, SetRun
<1>2. calls' = [c \in Caller |-> Settled(p, o, c, ok \/ o = Poller)]
  BY DEF EndRun
<1>3. \A c \in Caller :
        /\ Settled(p, o, c, ok \/ o = Poller) \in CallState
        /\ Settled(p, o, c, ok \/ o = Poller) # calls[c] =>
            /\ HostOf[c] = p
            /\ calls[c] \in {"tick_waits", "stop_waits"} \/ (c = o /\ calls[c] = "tick_runs")
            /\ Settled(p, o, c, ok \/ o = Poller) # "stop_waits"
  BY DEF Settled, Shape, CallState
<1> QED
  BY <1>1, <1>2, <1>3
\* A run that goes on, with another batch or another set of deliveries at work.
LEMMA RunGoesOn ==
    ASSUME IInv, NEW p \in Process, NEW o \in Starter, Running(p, o),
           NEW r, IsRun(r), r.phase # "none",
           SetsRun(p, o, r), UNCHANGED <<proc, timer, inFlight, calls>>
    PROVE  IInv'
<1>1. /\ Table(runs')
      /\ \A q \in Process, s \in Starter : runs'[q][s] = IF q = p /\ s = o THEN r ELSE runs[q][s]
  BY SetRun DEF IInv
<1>2. \A q \in Process, s \in Starter : Running(q, s)' <=> Running(q, s)
  BY <1>1 DEF Running
<1>3. Shape'
  BY <1>1, <1>2 DEF IInv, Shape
<1>4. SlotNamesRun' /\ CallersOwnTheirRuns'
  BY <1>2 DEF IInv, SlotNamesRun, CallersOwnTheirRuns, Starter
<1>5. StopsAwaitPolls' /\ NothingRunsElsewhere'
  BY DEF IInv, StopsAwaitPolls, NothingRunsElsewhere
<1> QED
  BY <1>3, <1>4, <1>5 DEF IInv

\* The start of a run by the interval, or by a caller that is in it from then on.
LEMMA RunStarts ==
    ASSUME IInv, NEW p \in Process, NEW o \in Starter, StartRun(p, o),
           proc[p] = "running", inFlight[p] = Nobody, UNCHANGED <<proc, timer>>,
           \/ o = Poller /\ timer[p] /\ UNCHANGED calls
           \/ o \in Caller /\ HostOf[o] = p /\ calls' = [calls EXCEPT ![o] = "tick_runs"]
    PROVE  IInv'
<1> USE NamesAssumption
<1>1. /\ inFlight' = [inFlight EXCEPT ![p] = o]
      /\ Table(runs')
      /\ \A q \in Process, s \in Starter :
            runs'[q][s] = IF q = p /\ s = o THEN NewRun ELSE runs[q][s]
  BY StartRunEffect DEF IInv
<1>2. IsRun(NewRun) /\ NewRun.phase = "claim"
  BY NewRunIs
<1>3. \A q \in Process, s \in Starter : Running(q, s)' <=> (Running(q, s) \/ (q = p /\ s = o))
  BY <1>1, <1>2 DEF Running
<1>4. \A q \in Process, s \in Starter : s # Nobody
  BY DEF Starter, Poller, Nobody
<1>5. Shape'
  <2>1. calls' \in [Caller -> CallState]
    BY DEF IInv, Shape, CallState
  <2> QED
    BY <1>1, <1>2, <1>3, <2>1 DEF IInv, Shape
<1>6. SlotNamesRun'
  BY <1>1, <1>3, <1>4 DEF IInv, SlotNamesRun, Shape
<1>7. CallersOwnTheirRuns'
  BY <1>3 DEF IInv, CallersOwnTheirRuns, Shape, Starter
<1>8. StopsAwaitPolls'
  BY <1>1 DEF IInv, StopsAwaitPolls, Shape
<1>9. NothingRunsElsewhere'
  BY <1>1 DEF IInv, NothingRunsElsewhere, Shape
<1> QED
  BY <1>5, <1>6, <1>7, <1>8, <1>9 DEF IInv

\* The end of a run, by the last worker, an empty batch or a failure.
LEMMA RunEnds ==
    ASSUME IInv, NEW p \in Process, NEW o \in Starter, Running(p, o),
           NEW ok \in BOOLEAN, EndRun(p, o, ok), UNCHANGED <<proc, timer>>
    PROVE  IInv'
<1> USE NamesAssumption
<1>1. /\ inFlight' = [inFlight EXCEPT ![p] = Nobody]
      /\ Table(runs')
      /\ \A q \in Process, s \in Starter :
            runs'[q][s] = IF q = p /\ s = o THEN NoRun ELSE runs[q][s]
      /\ calls' \in [Caller -> CallState]
      /\ \A c \in Caller : calls'[c] # calls[c] =>
            /\ HostOf[c] = p
            /\ calls[c] \in {"tick_waits", "stop_waits"} \/ (c = o /\ calls[c] = "tick_runs")
            /\ calls'[c] # "stop_waits"
  BY EndRunEffect DEF IInv
<1>2. inFlight[p] = o /\ proc[p] = "running"
  BY DEF IInv, SlotNamesRun, NothingRunsElsewhere, Starter, Poller, Nobody
<1>3. \A q \in Process, s \in Starter : Running(q, s)' <=> (Running(q, s) /\ ~(q = p /\ s = o))
  BY <1>1 DEF Running, NoRun
<1>4. \A s \in Starter : s # Nobody
  BY DEF Starter, Poller, Nobody
<1>5. Shape'
  BY <1>1, <1>3, NewRunIs DEF IInv, Shape
<1>6. SlotNamesRun'
  BY <1>1, <1>2, <1>3, <1>4 DEF IInv, SlotNamesRun, Shape
<1>7. CallersOwnTheirRuns'
  BY <1>1, <1>3 DEF IInv, CallersOwnTheirRuns, Starter
<1>8. StopsAwaitPolls'
  <2> SUFFICES ASSUME NEW q \in Process, inFlight'[q] = Poller, ~timer[q]
               PROVE  \E c \in Caller : HostOf[c] = q /\ calls'[c] = "stop_waits"
    BY DEF StopsAwaitPolls
  <2>1. q # p /\ inFlight[q] = Poller
    BY <1>1 DEF IInv, Shape, Poller, Nobody
  <2> QED
    BY <1>1, <2>1 DEF IInv, StopsAwaitPolls
<1>9. NothingRunsElsewhere'
  BY <1>1, <1>2 DEF IInv, NothingRunsElsewhere, Shape
<1> QED
  BY <1>5, <1>6, <1>7, <1>8, <1>9 DEF IInv

\* A call that waits, stops or starts changes no run.
LEMMA CallChanges ==
    ASSUME IInv, NEW c \in Caller, NEW s \in CallState, proc[HostOf[c]] = "running",
           calls' = [calls EXCEPT ![c] = s], UNCHANGED <<proc, inFlight, runs>>,
           calls[c] \notin {"tick_runs", "stop_waits"},
           timer' \in [Process -> BOOLEAN],
           \A q \in Process : timer'[q] # timer[q] =>
                HostOf[c] = q /\ (timer'[q] \/ inFlight[q] = Nobody \/ s = "stop_waits")
    PROVE  IInv'
<1>1. \A q \in Process, t \in Starter : Running(q, t)' <=> Running(q, t)
  BY DEF Running
<1>2. Shape'
  BY <1>1 DEF IInv, Shape
<1>3. SlotNamesRun' /\ CallersOwnTheirRuns'
  BY <1>1 DEF IInv, SlotNamesRun, CallersOwnTheirRuns, Starter, Shape
<1>4. StopsAwaitPolls'
  BY NamesAssumption DEF IInv, StopsAwaitPolls, Shape, Poller, Nobody
<1>5. NothingRunsElsewhere'
  BY DEF IInv, NothingRunsElsewhere, Shape
<1> QED
  BY <1>2, <1>3, <1>4, <1>5 DEF IInv
------------------------------------------------------------------------------
(* Every step *)

\* A pass that claims a batch goes on with it, one that finds nothing is over.
LEMMA ClaimsKeep ==
    ASSUME IInv, NEW p \in Process, NEW o \in Starter, Claims(p, o)
    PROVE  IInv'
<1>1. Running(p, o)
  BY DEF Claims, Running
<1>2. CASE Batch(p) = {}
  <2>1. EndRun(p, o, TRUE) /\ UNCHANGED <<proc, timer>>
    BY <1>2 DEF Claims
  <2> QED
    BY <1>1, <2>1, RunEnds
<1>3. CASE Batch(p) # {}
  <2>0. PICK list \in InDueOrder(Batch(p)) :
            /\ runs' = [runs EXCEPT ![p][o] = [NoRun EXCEPT !.phase = "work", !.todo = list]]
            /\ UNCHANGED <<proc, timer, inFlight, calls>>
    BY <1>3 DEF Claims
  <2> DEFINE r == [NoRun EXCEPT !.phase = "work", !.todo = list]
  <2>1. SetsRun(p, o, r) /\ UNCHANGED <<proc, timer, inFlight, calls>>
    BY <2>0 DEF SetsRun
  <2> DEFINE set == [phase : {"none", "work"}, todo : {NoRun.todo, list}, working : {{}}]
  <2>2. NoRun \in set
    BY NewRunIs DEF IsRun
  <2>3. r \in set /\ r.phase # "none"
    BY <2>2
  <2> HIDE DEF r
  <2>4. IsRun(r)
    BY <2>3, RunIs
  <2> QED
    BY <1>1, <2>1, <2>3, <2>4, RunGoesOn
<1> QED
  BY <1>2, <1>3

LEMMA WorkerTakesKeeps ==
    ASSUME IInv, NEW p \in Process, NEW o \in Starter, WorkerTakes(p, o)
    PROVE  IInv'
<1> DEFINE run == runs[p][o]
           r == [run EXCEPT !.todo = Tail(run.todo), !.working = run.working \cup {Head(run.todo)}]
<1>1. Running(p, o) /\ UNCHANGED <<proc, timer, inFlight, calls>>
  BY DEF WorkerTakes, Running
<1>2. IsRun(run) /\ run.phase = "work"
  BY DEF IInv, Shape, WorkerTakes
<1>3. SetsRun(p, o, r)
  BY DEF WorkerTakes, SetsRun
<1> DEFINE set == [phase : {"work"}, todo : {run.todo, Tail(run.todo)},
                   working : {run.working, run.working \cup {Head(run.todo)}}]
<1>4. run \in set
  BY <1>2 DEF IsRun
<1>5. r \in set /\ r.phase # "none"
  BY <1>4
<1> HIDE DEF r
<1>6. IsRun(r)
  BY <1>5, RunIs
<1> QED
  BY <1>1, <1>3, <1>5, <1>6, RunGoesOn

LEMMA WorkerLeavesKeeps ==
    ASSUME IInv, NEW p \in Process, NEW o \in Starter, NEW d \in Delivery, WorkerLeaves(p, o, d)
    PROVE  IInv'
<1> DEFINE run == runs[p][o]
           r == [run EXCEPT !.working = run.working \ {d}]
<1>1. Running(p, o)
  BY DEF WorkerLeaves, IInv, Shape
<1>2. IsRun(run)
  BY DEF IInv, Shape
<1>3. CASE run.todo = <<>> /\ run.working = {d}
  <2>1. EndRun(p, o, TRUE) /\ UNCHANGED <<proc, timer>>
    BY <1>3 DEF WorkerLeaves
  <2> QED
    BY <1>1, <2>1, RunEnds
<1>4. CASE ~(run.todo = <<>> /\ run.working = {d})
  <2>1. SetsRun(p, o, r) /\ UNCHANGED <<proc, timer, inFlight, calls>>
    BY <1>4 DEF WorkerLeaves, SetsRun
  <2>2. r \in [phase : {run.phase}, todo : {run.todo}, working : {run.working, run.working \ {d}}]
    BY <1>2 DEF IsRun
  <2>3. r.phase # "none"
    BY <1>1, <1>2 DEF Running, IsRun
  <2> HIDE DEF r
  <2>4. IsRun(r)
    BY <2>2, RunIs
  <2> QED
    BY <1>1, <2>1, <2>3, <2>4, RunGoesOn
<1> QED
  BY <1>3, <1>4

\* A tick() that finds the slot free takes it, any other waits for it.
LEMMA AskTickKeeps ==
    ASSUME IInv, NEW c \in Caller, AskTick(c), proc[HostOf[c]] = "running",
           calls[c] \in {"idle", "tick_woken"}, UNCHANGED <<proc, timer>>
    PROVE  IInv'
<1> DEFINE p == HostOf[c]
<1>1. p \in Process /\ c \in Starter
  BY HostAssumption DEF Starter
<1>2. CASE inFlight[p] = Nobody
  <2>1. StartRun(p, c) /\ calls' = [calls EXCEPT ![c] = "tick_runs"]
    BY <1>2 DEF AskTick
  <2> QED
    BY <1>1, <1>2, <2>1, RunStarts
<1>3. CASE inFlight[p] # Nobody
  <2>1. calls' = [calls EXCEPT ![c] = "tick_waits"] /\ UNCHANGED <<inFlight, runs>>
    BY <1>3 DEF AskTick
  <2>2. timer' \in [Process -> BOOLEAN] /\ "tick_waits" \in CallState
    BY DEF IInv, Shape, CallState
  <2> QED
    BY <2>1, <2>2, CallChanges
<1> QED
  BY <1>2, <1>3

LEMMA CallStopKeeps ==
    ASSUME IInv, NEW c \in Caller, CallStop(c)
    PROVE  IInv'
<1> DEFINE p == HostOf[c]
<1>1. /\ calls' = [calls EXCEPT ![c] = AfterStop(p)] /\ UNCHANGED <<proc, inFlight, runs>>
      /\ timer' = [timer EXCEPT ![p] = FALSE] /\ proc[p] = "running" /\ calls[c] = "idle"
  BY DEF CallStop
<1>2. AfterStop(p) \in CallState /\ (inFlight[p] = Nobody \/ AfterStop(p) = "stop_waits")
  BY DEF AfterStop, CallState
<1>3. timer' \in [Process -> BOOLEAN]
  BY <1>1 DEF IInv, Shape
<1>4. \A q \in Process : timer'[q] # timer[q] =>
            HostOf[c] = q /\ (timer'[q] \/ inFlight[q] = Nobody \/ AfterStop(p) = "stop_waits")
  BY <1>1, <1>2 DEF IInv, Shape
<1> HIDE DEF p
<1> QED
  BY <1>1, <1>2, <1>3, <1>4, CallChanges DEF p

LEMMA CallStartKeeps ==
    ASSUME IInv, NEW c \in Caller, CallStart(c)
    PROVE  IInv'
<1>1. /\ calls' = [calls EXCEPT ![c] = "idle"] /\ UNCHANGED <<proc, inFlight, runs>>
      /\ timer' = [timer EXCEPT ![HostOf[c]] = TRUE] /\ calls[c] = "stopped"
  BY DEF CallStart
<1>2. proc[HostOf[c]] = "running"
  BY <1>1, HostAssumption DEF IInv, NothingRunsElsewhere
<1>3. "idle" \in CallState /\ timer' \in [Process -> BOOLEAN]
  BY <1>1 DEF IInv, Shape, CallState
<1>4. \A q \in Process : timer'[q] # timer[q] => HostOf[c] = q /\ timer'[q]
  BY <1>1 DEF IInv, Shape
<1> QED
  BY <1>1, <1>2, <1>3, <1>4, CallChanges

\* A process that comes up has nothing in flight; what was in one that dies is gone.
LEMMA BootKeeps ==
    ASSUME IInv, NEW p \in Process, Boot(p)
    PROVE  IInv'
<1>1. /\ proc[p] = "new" /\ proc' = [proc EXCEPT ![p] = "running"]
      /\ timer' = [timer EXCEPT ![p] = Dispatches(p)] /\ UNCHANGED <<inFlight, runs, calls>>
  BY DEF Boot
<1>2. Dispatches(p) \in BOOLEAN
  BY DEF Dispatches
<1>3. \A q \in Process, s \in Starter : Running(q, s)' <=> Running(q, s)
  BY <1>1 DEF Running
<1>4. timer' \in [Process -> BOOLEAN]
  BY <1>1, <1>2 DEF IInv, Shape
<1>5. Shape'
  BY <1>1, <1>3, <1>4 DEF IInv, Shape
<1>6. SlotNamesRun' /\ CallersOwnTheirRuns'
  BY <1>1, <1>3 DEF IInv, SlotNamesRun, CallersOwnTheirRuns, Starter
<1>7. inFlight[p] = Nobody /\ Nobody # Poller
  BY <1>1 DEF IInv, NothingRunsElsewhere, Nobody, Poller
<1>8. StopsAwaitPolls'
  BY <1>1, <1>7 DEF IInv, StopsAwaitPolls, Shape
<1>9. NothingRunsElsewhere'
  BY <1>1 DEF IInv, NothingRunsElsewhere, Shape
<1> QED
  BY <1>5, <1>6, <1>8, <1>9 DEF IInv

LEMMA KilledKeeps ==
    ASSUME IInv, NEW p \in Process, Killed(p)
    PROVE  IInv'
<1>1. /\ proc[p] = "running" /\ proc' = [proc EXCEPT ![p] = "killed"]
      /\ timer' = [timer EXCEPT ![p] = FALSE] /\ inFlight' = [inFlight EXCEPT ![p] = Nobody]
      /\ runs' = [runs EXCEPT ![p] = [o \in Starter |-> NoRun]]
      /\ calls' = [c \in Caller |-> IF HostOf[c] = p THEN "idle" ELSE calls[c]]
  BY DEF Killed
<1>2. Table(runs') /\ \A q \in Process, s \in Starter :
                            runs'[q][s] = IF q = p THEN NoRun ELSE runs[q][s]
  <2> DEFINE row == [o \in Starter |-> NoRun]
  <2>1. runs = [q \in Process |-> [s \in Starter |-> runs[q][s]]]
    BY DEF IInv, Shape, Table
  <2>2. runs' = [q \in Process |-> IF q = p THEN row ELSE runs[q]]
    BY <1>1, <2>1
  <2>3. \A q \in Process : runs'[q] = IF q = p THEN row ELSE [s \in Starter |-> runs[q][s]]
    BY <2>1, <2>2
  <2>4. \A q \in Process, s \in Starter : runs'[q][s] = IF q = p THEN NoRun ELSE runs[q][s]
    BY <2>3
  <2>5. \A q \in Process : runs'[q] = [s \in Starter |-> runs'[q][s]]
    BY <2>3
  <2>6. runs' = [q \in Process |-> runs'[q]]
    BY <2>2
  <2> QED
    BY <2>4, <2>5, <2>6 DEF Table
<1>3. \A q \in Process, s \in Starter : Running(q, s)' <=> (Running(q, s) /\ q # p)
  BY <1>2 DEF Running, NoRun
<1>4. Shape'
  BY <1>1, <1>2, <1>3, NewRunIs DEF IInv, Shape, CallState
<1>5. SlotNamesRun' /\ CallersOwnTheirRuns'
  BY <1>1, <1>3, NamesAssumption
  DEF IInv, Shape, SlotNamesRun, CallersOwnTheirRuns, Starter, Poller, Nobody
<1>6. StopsAwaitPolls' /\ NothingRunsElsewhere'
  BY <1>1 DEF IInv, Shape, StopsAwaitPolls, NothingRunsElsewhere, Poller, Nobody
<1> QED
  BY <1>4, <1>5, <1>6 DEF IInv

\* What changes neither the loops nor a process that is up.
LEMMA OthersKeep ==
    ASSUME IInv, UNCHANGED loopVars,
           \/ UNCHANGED proc
           \/ \E p \in Process : \E code \in {"exit_0", "exit_1"} :
                  proc[p] = "new" /\ proc' = [proc EXCEPT ![p] = code]
    PROVE  IInv'
<1>1. \A q \in Process, s \in Starter : Running(q, s)' <=> Running(q, s)
  BY DEF Running, loopVars
<1>2. /\ proc' \in [Process -> {"new", "running", "exit_0", "exit_1", "killed"}]
      /\ \A q \in Process : proc'[q] # "running" => proc[q] # "running"
  BY DEF IInv, Shape
<1> QED
  BY <1>1, <1>2
  DEF IInv, Shape, SlotNamesRun, CallersOwnTheirRuns, StopsAwaitPolls, NothingRunsElsewhere,
      loopVars, Starter

LEMMA NextKeeps ==
    ASSUME IInv, [Next]_vars
    PROVE  IInv'
<1>1. ASSUME NEW p \in Process, TimerFires(p) PROVE IInv'
  <2>1. proc[p] = "running" /\ Poller \in Starter
    BY <1>1 DEF TimerFires, MayPoll, IInv, NothingRunsElsewhere, Starter
  <2> QED
    BY <1>1, <2>1, RunStarts DEF TimerFires, MayPoll
<1>2. ASSUME NEW p \in Process, NEW o \in Starter, RunStep(p, o) PROVE IInv'
  BY <1>2, ClaimsKeep, WorkerTakesKeeps, WorkerLeavesKeeps DEF RunStep, WorkerRecords
<1>3. ASSUME NEW p \in Process, NEW o \in Starter, ClaimFails(p, o) PROVE IInv'
  <2>1. Running(p, o)
    BY <1>3 DEF ClaimFails, Running
  <2> QED
    BY <1>3, <2>1, RunEnds DEF ClaimFails
<1>4. ASSUME NEW p \in Process, NEW o \in Starter, NEW d \in Delivery, WorkerThrows(p, o, d) PROVE IInv'
  BY <1>4, WorkerLeavesKeeps DEF WorkerThrows
<1>5. ASSUME NEW c \in Caller, CallTick(c) PROVE IInv'
  BY <1>5, AskTickKeeps DEF CallTick
<1>6. ASSUME NEW c \in Caller, WakeTick(c) PROVE IInv'
  <2>1. proc[HostOf[c]] = "running"
    BY <1>6, HostAssumption DEF WakeTick, IInv, NothingRunsElsewhere
  <2> QED
    BY <1>6, <2>1, AskTickKeeps DEF WakeTick
<1>7. ASSUME NEW p \in Process, CommandReads(p) PROVE IInv'
  BY <1>7, OthersKeep DEF CommandReads
<1>8. ASSUME NEW p \in Process, NEW d \in Delivery,
             HostPublishes(p, d) \/ CommandPublishes(p, d) \/ CommandRetries(p, d)
      PROVE  IInv'
  BY <1>8, OthersKeep DEF HostPublishes, CommandPublishes, CommandRetries
<1>9. ASSUME NEW d \in Delivery, LeaseExpires(d) \/ Ripens(d) PROVE IInv'
  BY <1>9, OthersKeep DEF LeaseExpires, Ripens
<1>10. CASE UNCHANGED vars
  BY <1>10, OthersKeep DEF vars
<1> QED
  BY <1>1, <1>2, <1>3, <1>4, <1>5, <1>6, <1>7, <1>8, <1>9, <1>10, CallStopKeeps, CallStartKeeps,
     BootKeeps, KilledKeeps
  DEF Next

------------------------------------------------------------------------------
(* Theorems about the loop *)

\* The passes of one process never overlap, whoever starts them: of the interval and any number
\* of callers of tick() that a finished pass wakes together, one takes the slot and the others
\* wait again (src/dispatcher.ts, tick and the interval of start).
THEOREM TicksNeverOverlap == Spec => []NoOverlap
<1>1. IInv => NoOverlap
  BY NamesAssumption DEF IInv, SlotNamesRun, NoOverlap
<1>2. IInv /\ [Next]_vars => IInv'
  BY NextKeeps
<1> QED
  BY InitIInv, <1>1, <1>2, PTL DEF Spec

\* stop() returns only when nothing is in flight, with any number of callers that tick, stop and
\* start the same dispatcher: a pass that outlives its interval has a stop() that waits for it.
THEOREM StopIsQuiet == Spec => []StoppedIsQuiet
<1>1. IInv => StoppedIsQuiet
  <2> SUFFICES ASSUME IInv, NEW c \in Caller, ~timer[HostOf[c]],
                      \A other \in Caller : HostOf[other] = HostOf[c] =>
                            calls[other] \in {"idle", "stopped"},
                      NEW o \in Starter, Running(HostOf[c], o)
               PROVE  FALSE
    BY DEF StoppedIsQuiet
  <2>1. HostOf[c] \in Process
    BY HostAssumption
  <2>2. o \notin Caller
    BY <2>1 DEF IInv, CallersOwnTheirRuns
  <2>3. inFlight[HostOf[c]] = Poller
    BY <2>1, <2>2 DEF IInv, SlotNamesRun, Starter
  <2> QED
    BY <2>1, <2>3 DEF IInv, StopsAwaitPolls
<1>2. IInv /\ [Next]_vars => IInv'
  BY NextKeeps
<1> QED
  BY InitIInv, <1>1, <1>2, PTL DEF Spec

------------------------------------------------------------------------------
(* What the runs hold, and what the callers of tick() are owed *)

HeldBy(r) == r.working \cup ToSet(r.todo)

\* A run holds deliveries only while it works on its batch, each of them once.
IsWork(r) ==
    /\ r.todo \in Seq(Delivery) /\ r.working \subseteq Delivery
    /\ \A i, j \in DOMAIN r.todo : r.todo[i] = r.todo[j] => i = j
    /\ ToSet(r.todo) \cap r.working = {}
    /\ r.phase # "work" => HeldBy(r) = {}

\* What is held is leased, and from the queue of the process that holds it.
HeldIsLeased ==
    \A p \in Process, o \in Starter :
        /\ IsWork(runs[p][o])
        /\ \A d \in HeldBy(runs[p][o]) : life[d] = "leased" /\ home[d].queue = QueueStore(p)

HeldApart ==
    \A p, q \in Process, o, s \in Starter :
        p # q \/ o # s => HeldBy(runs[p][o]) \cap HeldBy(runs[q][s]) = {}

QueueShape ==
    /\ life = [d \in Delivery |-> life[d]] /\ home = [d \in Delivery |-> home[d]]
    /\ owed \in [Caller -> SUBSET Delivery]
    /\ \A pair \in dueOrder : pair[1] # pair[2]

Asking == {"tick_waits", "tick_woken", "tick_runs", "tick_done"}

\* What a tick() still owes its caller has stayed due, where the caller's process claims.
OwedIsDue == \A c \in Caller : calls[c] \in Asking => owed[c] \subseteq DueAt(HostOf[c])

\* The run of a tick() that has claimed owes nothing, nor does a tick() that is done.
ClaimPaysAll ==
    \A c \in Caller :
        /\ calls[c] = "tick_runs" => Running(HostOf[c], c)
        /\ Cardinality(Delivery) <= BatchSize =>
            /\ calls[c] = "tick_runs" /\ runs[HostOf[c]][c].phase = "work" => owed[c] = {}
            /\ calls[c] = "tick_done" => owed[c] = {}

WorkInv == QueueShape /\ HeldIsLeased /\ HeldApart
OwedInv == OwedIsDue /\ ClaimPaysAll

PassInv == IInv /\ WorkInv /\ OwedInv

\* Every delivery due fits into one batch.
Small == Cardinality(Delivery) <= BatchSize

\* A batch that every delivery fits into has all that is due.
LEMMA BatchTakesAll ==
    ASSUME QueueShape, Small, NEW p \in Process
    PROVE  Batch(p) = DueAt(p)
<1> SUFFICES ASSUME NEW d \in DueAt(p)
             PROVE  Cardinality({e \in DueAt(p) : <<e, d>> \in dueOrder}) < BatchSize
  BY DEF Batch
<1>1. PICK E : E = {e \in DueAt(p) : <<e, d>> \in dueOrder}
  OBVIOUS
<1>2. d \in Delivery /\ E \subseteq Delivery \ {d}
  BY <1>1 DEF QueueShape, DueAt, Due
<1>3. IsFiniteSet(Delivery \ {d}) /\ Cardinality(Delivery \ {d}) = Cardinality(Delivery) - 1
      /\ Cardinality(Delivery) \in Nat
  BY <1>2, WorkAssumption, FS_RemoveElement, FS_CardinalityType
<1>4. Cardinality(E) \in Nat /\ Cardinality(E) <= Cardinality(Delivery \ {d})
  BY <1>2, <1>3, FS_Subset, FS_CardinalityType
<1> QED
  BY <1>1, <1>3, <1>4, WorkAssumption DEF Small

\* An order of a batch names its deliveries, each once.
LEMMA ListOfBatch ==
    ASSUME NEW batch, batch \subseteq Delivery, NEW list \in InDueOrder(batch)
    PROVE  /\ list \in Seq(Delivery) /\ ToSet(list) \subseteq batch
           /\ \A i, j \in DOMAIN list : list[i] = list[j] => i = j
<1>1. PICK n : n = Cardinality(batch)
  OBVIOUS
<1>2. n \in Nat
  BY <1>1, WorkAssumption, FS_Subset, FS_CardinalityType
<1>3. list \in [1 .. n -> batch] /\ \A i, j \in 1 .. n : i # j => list[i] # list[j]
  BY <1>1 DEF InDueOrder, SetToSeqs
<1>4. DOMAIN list = 1 .. n
  BY <1>3
<1> QED
  BY <1>2, <1>3, <1>4 DEF ToSet

\* What a run with nothing holds.
LEMMA EmptyHanded ==
    /\ IsWork(NoRun) /\ HeldBy(NoRun) = {}
    /\ IsWork(NewRun) /\ HeldBy(NewRun) = {} /\ NewRun.phase = "claim"
<1>1. NoRun.todo = <<>> /\ NoRun.working = {} /\ NoRun.phase = "none"
  BY DEF NoRun
<1>2. NewRun.todo = <<>> /\ NewRun.working = {} /\ NewRun.phase = "claim"
  BY DEF NoRun, NewRun
<1>3. ToSet(<<>>) = {} /\ <<>> \in Seq(Delivery)
  BY DEF ToSet
<1> QED
  BY <1>1, <1>2, <1>3 DEF IsWork, HeldBy

\* Whose stores a process uses does not change.
LEMMA StoresStay == UNCHANGED setup => \A p \in Process : QueueStore(p)' = QueueStore(p)
BY DEF QueueStore, ControlStore, Store

\* A step after which every run holds no more than before.
LEMMA HoldsKeep ==
    ASSUME HeldIsLeased, HeldApart, UNCHANGED setup,
           \A p \in Process, o \in Starter :
                IsWork(runs'[p][o]) /\ HeldBy(runs'[p][o]) \subseteq HeldBy(runs[p][o]),
           \A p \in Process, o \in Starter : \A d \in HeldBy(runs'[p][o]) :
                life'[d] = "leased" /\ home'[d] = home[d]
    PROVE  HeldIsLeased' /\ HeldApart'
<1>1. \A p \in Process, o \in Starter : \A d \in HeldBy(runs'[p][o]) : home[d].queue = QueueStore(p)
  BY DEF HeldIsLeased
<1>2. HeldIsLeased'
  BY <1>1, StoresStay DEF HeldIsLeased
<1>3. HeldApart'
  BY DEF HeldApart
<1> QED
  BY <1>2, <1>3

\* A step that neither asks nor takes what is owed out of what is due.
LEMMA OwedKeeps ==
    ASSUME OwedIsDue, owed \in [Caller -> SUBSET Delivery], UNCHANGED setup,
           \A c \in Caller : calls'[c] \in Asking => calls[c] \in Asking /\ owed'[c] \subseteq owed[c],
           \A c \in Caller : calls'[c] \in Asking =>
                \A d \in owed'[c] : life[d] = "due" => life'[d] = "due" /\ home'[d] = home[d]
    PROVE  OwedIsDue'
<1> SUFFICES ASSUME NEW c \in Caller, calls'[c] \in Asking, NEW d \in owed'[c]
             PROVE  d \in DueAt(HostOf[c])'
  BY DEF OwedIsDue, Asking
<1>1. d \in DueAt(HostOf[c]) /\ d \in Delivery
  BY DEF OwedIsDue
<1>2. life[d] = "due" /\ home[d].queue = QueueStore(HostOf[c])
  BY <1>1 DEF DueAt, Due
<1>3. life'[d] = "due" /\ home'[d].queue = QueueStore(HostOf[c])'
  BY <1>2, StoresStay, HostAssumption
<1> QED
  BY <1>1, <1>3 DEF DueAt, Due

\* A step that starts and ends no tick() of a caller.
LEMMA PaysKeeps ==
    ASSUME ClaimPaysAll,
           \A c \in Caller : calls'[c] \in {"tick_runs", "tick_done"} =>
                calls'[c] = calls[c] /\ owed'[c] \subseteq owed[c],
           \A c \in Caller : calls'[c] = "tick_runs" =>
                runs'[HostOf[c]][c].phase = runs[HostOf[c]][c].phase
    PROVE  ClaimPaysAll'
BY DEF ClaimPaysAll, Running

\* One delivery that is neither due nor held moves.
LEMMA DeliveryMoves ==
    ASSUME PassInv, NEW d \in Delivery, life[d] # "due",
           \A p \in Process, o \in Starter : d \notin HeldBy(runs[p][o]),
           NEW v, life' = [life EXCEPT ![d] = v],
           \/ UNCHANGED home
           \/ \E h : home' = [home EXCEPT ![d] = h],
           UNCHANGED dueOrder \/ dueOrder' = dueOrder \cup (Due \X {d}),
           UNCHANGED <<setup, runs, calls, owed>>
    PROVE  (WorkInv /\ OwedInv)'
<1>1. QueueShape /\ HeldIsLeased /\ HeldApart /\ OwedIsDue /\ ClaimPaysAll
  BY DEF PassInv, WorkInv, OwedInv
<1>2. \A e \in Delivery : e # d => life'[e] = life[e] /\ home'[e] = home[e]
  BY <1>1 DEF QueueShape
<1>3. \A pair \in dueOrder' : pair[1] # pair[2]
  BY <1>1 DEF QueueShape, Due
<1>4. QueueShape'
  BY <1>1, <1>3 DEF QueueShape
<1>5. \A p \in Process, o \in Starter : \A e \in HeldBy(runs[p][o]) :
            life'[e] = "leased" /\ home'[e] = home[e]
  <2> SUFFICES ASSUME NEW p \in Process, NEW o \in Starter, NEW e \in HeldBy(runs[p][o])
               PROVE  life'[e] = "leased" /\ home'[e] = home[e]
    OBVIOUS
  <2>1. e \in Delivery
    BY <1>1 DEF HeldIsLeased, IsWork, HeldBy, ToSet
  <2>2. life[e] = "leased" /\ e # d
    BY <1>1 DEF HeldIsLeased
  <2> QED
    BY <1>2, <2>1, <2>2
<1>6. HeldIsLeased' /\ HeldApart'
  <2>1. \A p \in Process, o \in Starter : IsWork(runs[p][o])
    BY <1>1 DEF HeldIsLeased
  <2> QED
    BY <1>1, <1>5, <2>1, HoldsKeep
<1>7. OwedIsDue'
  <2>1. \A c \in Caller : \A e \in owed[c] : e \in Delivery
    BY <1>1 DEF QueueShape
  <2> QED
    BY <1>1, <1>2, <2>1, OwedKeeps DEF QueueShape
<1>8. ClaimPaysAll'
  BY <1>1, PaysKeeps
<1> QED
  BY <1>4, <1>6, <1>7, <1>8 DEF WorkInv, OwedInv

\* What is due stays due when no delivery moves.
LEMMA DueStays == UNCHANGED <<setup, life, home>> => \A p \in Process : DueAt(p)' = DueAt(p)
<1> SUFFICES ASSUME UNCHANGED <<setup, life, home>>, NEW p \in Process PROVE DueAt(p)' = DueAt(p)
  OBVIOUS
<1>1. QueueStore(p)' = QueueStore(p)
  BY StoresStay
<1> QED
  BY <1>1 DEF DueAt, Due

\* A step that starts runs and leaves the deliveries where they are.
LEMMA StartsHoldNothing ==
    ASSUME PassInv, UNCHANGED <<setup, life, home>>,
           \A p \in Process, o \in Starter : runs'[p][o] \in {runs[p][o], NewRun, NoRun}
    PROVE  HeldIsLeased' /\ HeldApart'
<1>1. HeldIsLeased /\ HeldApart
  BY DEF PassInv, WorkInv
<1>2. \A p \in Process, o \in Starter : IsWork(runs[p][o])
  BY <1>1 DEF HeldIsLeased
<1>3. \A p \in Process, o \in Starter :
            IsWork(runs'[p][o]) /\ HeldBy(runs'[p][o]) \subseteq HeldBy(runs[p][o])
  <2> SUFFICES ASSUME NEW p \in Process, NEW o \in Starter
               PROVE  IsWork(runs'[p][o]) /\ HeldBy(runs'[p][o]) \subseteq HeldBy(runs[p][o])
    OBVIOUS
  <2>1. CASE runs'[p][o] = runs[p][o]
    BY <1>2, <2>1
  <2>2. CASE runs'[p][o] = NewRun
    BY <2>2, EmptyHanded
  <2>3. CASE runs'[p][o] = NoRun
    BY <2>3, EmptyHanded
  <2> QED
    BY <2>1, <2>2, <2>3
<1>4. \A p \in Process, o \in Starter : \A d \in HeldBy(runs'[p][o]) :
            life'[d] = "leased" /\ home'[d] = home[d]
  BY <1>1, <1>3 DEF HeldIsLeased
<1> QED
  BY <1>1, <1>3, <1>4, HoldsKeep

\* A caller asks for a tick, or wakes up and asks again.
LEMMA AskPays ==
    ASSUME PassInv, NEW c \in Caller, AskTick(c), UNCHANGED <<setup, queueVars>>,
           \/ calls[c] = "tick_woken" /\ UNCHANGED owed
           \/ owed' = [owed EXCEPT ![c] = DueAt(HostOf[c])]
    PROVE  (WorkInv /\ OwedInv)'
<1>1. QueueShape /\ OwedIsDue /\ ClaimPaysAll /\ Shape /\ UNCHANGED <<life, home, dueOrder>>
  BY DEF PassInv, WorkInv, OwedInv, IInv, queueVars
<1>2. PICK p \in Process : p = HostOf[c]
  BY HostAssumption
<1>3. /\ calls'[c] \in {"tick_runs", "tick_waits"}
      /\ \A e \in Caller : e # c => calls'[e] = calls[e]
      /\ calls'[c] = "tick_runs" => StartRun(p, c)
      /\ calls'[c] # "tick_runs" => UNCHANGED runs
  BY <1>1, <1>2 DEF AskTick, Shape
<1>4. /\ \A q \in Process, s \in Starter : q # p \/ s # c => runs'[q][s] = runs[q][s]
      /\ calls'[c] = "tick_runs" => runs'[p][c] = NewRun
      /\ calls'[c] # "tick_runs" => runs'[p][c] = runs[p][c]
  <2>1. c \in Starter
    BY DEF Starter
  <2>2. CASE calls'[c] = "tick_runs"
    BY <1>1, <1>3, <2>1, <2>2, StartRunEffect
  <2>3. CASE calls'[c] # "tick_runs"
    BY <1>3, <2>3
  <2> QED
    BY <2>2, <2>3
<1>5. DueAt(p) \subseteq Delivery
  BY DEF DueAt, Due
<1>6. owed' \in [Caller -> SUBSET Delivery] /\ \A e \in Caller : e # c => owed'[e] = owed[e]
  BY <1>1, <1>2, <1>5 DEF QueueShape
<1>7. owed'[c] \subseteq DueAt(p)
  BY <1>1, <1>2 DEF OwedIsDue, Asking, QueueShape
<1>8. HeldIsLeased' /\ HeldApart'
  <2>1. \A q \in Process, s \in Starter : runs'[q][s] \in {runs[q][s], NewRun, NoRun}
    BY <1>4
  <2> QED
    BY <1>1, <2>1, StartsHoldNothing
<1>9. OwedIsDue'
  BY <1>1, <1>2, <1>3, <1>6, <1>7, DueStays, HostAssumption DEF OwedIsDue
<1>10. ClaimPaysAll'
  <2> SUFFICES ASSUME NEW e \in Caller
               PROVE  /\ calls'[e] = "tick_runs" => Running(HostOf[e], e)'
                      /\ Small =>
                         /\ calls'[e] = "tick_runs" /\ runs'[HostOf[e]][e].phase = "work" => owed'[e] = {}
                         /\ calls'[e] = "tick_done" => owed'[e] = {}
    BY DEF ClaimPaysAll, Small
  <2>1. CASE e = c
    BY <1>2, <1>3, <1>4, <2>1, EmptyHanded DEF Running
  <2>2. CASE e # c
    <3>1. runs'[HostOf[e]][e] = runs[HostOf[e]][e]
      BY <1>4, <2>2, HostAssumption DEF Starter
    <3> QED
      BY <1>1, <1>3, <1>6, <2>2, <3>1 DEF ClaimPaysAll, Running, Small
  <2> QED
    BY <2>1, <2>2
<1> QED
  BY <1>1, <1>6, <1>8, <1>9, <1>10 DEF WorkInv, OwedInv, QueueShape

\* The interval starts a pass.
LEMMA TimerPays ==
    ASSUME PassInv, NEW p \in Process, TimerFires(p)
    PROVE  (WorkInv /\ OwedInv)'
<1>1. QueueShape /\ OwedIsDue /\ ClaimPaysAll /\ Shape
  BY DEF PassInv, WorkInv, OwedInv, IInv
<1>2. UNCHANGED <<setup, life, home, dueOrder, calls, owed>> /\ StartRun(p, Poller) /\ Poller \in Starter
  BY DEF TimerFires, queueVars, Starter
<1>3. \A q \in Process, s \in Starter : runs'[q][s] = IF q = p /\ s = Poller THEN NewRun ELSE runs[q][s]
  BY <1>1, <1>2, StartRunEffect
<1>4. HeldIsLeased' /\ HeldApart'
  <2>1. \A q \in Process, s \in Starter : runs'[q][s] \in {runs[q][s], NewRun, NoRun}
    BY <1>3
  <2> QED
    BY <1>2, <2>1, StartsHoldNothing
<1>5. OwedIsDue'
  BY <1>1, <1>2, DueStays, HostAssumption DEF OwedIsDue
<1>6. ClaimPaysAll'
  <2>1. \A c \in Caller : runs'[HostOf[c]][c] = runs[HostOf[c]][c]
    BY <1>3, HostAssumption, NamesAssumption DEF Starter
  <2> QED
    BY <1>1, <1>2, <2>1, PaysKeeps
<1> QED
  BY <1>1, <1>2, <1>4, <1>5, <1>6 DEF WorkInv, OwedInv, QueueShape

\* A run ends: a tick() that is done with it owes nothing, others that waited ask again.
LEMMA EndPays ==
    ASSUME PassInv, NEW p \in Process, NEW o \in Starter, NEW ok \in BOOLEAN, EndRun(p, o, ok),
           UNCHANGED setup, owed' \in [Caller -> SUBSET Delivery],
           \A c \in Caller : owed'[c] \subseteq owed[c],
           \A c \in Caller : \A d \in owed'[c] : life[d] = "due" => life'[d] = "due" /\ home'[d] = home[d],
           ok /\ Small /\ o \in Caller /\ calls[o] = "tick_runs" => owed'[o] = {}
    PROVE  OwedInv'
<1>1. QueueShape /\ OwedIsDue /\ ClaimPaysAll /\ Shape
  BY DEF PassInv, WorkInv, OwedInv, IInv
<1>2. \A c \in Caller : calls'[c] = Settled(p, o, c, ok \/ o = Poller)
  BY DEF EndRun
<1>3. \A q \in Process, s \in Starter : runs'[q][s] = IF q = p /\ s = o THEN NoRun ELSE runs[q][s]
  BY <1>1, EndRunEffect
<1>4. \A c \in Caller : calls'[c] \in Asking => calls[c] \in Asking
  BY <1>2 DEF Settled, Asking
<1>5. OwedIsDue'
  BY <1>1, <1>4, OwedKeeps DEF QueueShape
<1>6. ClaimPaysAll'
  <2> SUFFICES ASSUME NEW c \in Caller
               PROVE  /\ calls'[c] = "tick_runs" => Running(HostOf[c], c)'
                      /\ Small =>
                         /\ calls'[c] = "tick_runs" /\ runs'[HostOf[c]][c].phase = "work" => owed'[c] = {}
                         /\ calls'[c] = "tick_done" => owed'[c] = {}
    BY DEF ClaimPaysAll, Small
  <2>1. ASSUME calls'[c] = "tick_runs"
        PROVE  calls[c] = "tick_runs" /\ ~(HostOf[c] = p /\ c = o)
    BY <1>2, <2>1 DEF Settled
  <2>2. ASSUME calls'[c] = "tick_runs"
        PROVE  runs'[HostOf[c]][c] = runs[HostOf[c]][c]
    BY <1>3, <2>1, <2>2, HostAssumption DEF Starter
  <2>3. ASSUME calls'[c] = "tick_done"
        PROVE  calls[c] = "tick_done" \/ (c = o /\ calls[c] = "tick_runs" /\ (ok \/ o = Poller))
    BY <1>2, <2>3 DEF Settled
  <2>4. c # Poller
    BY NamesAssumption
  <2> QED
    BY <1>1, <2>1, <2>2, <2>3, <2>4 DEF ClaimPaysAll, Running, Small
<1> QED
  BY <1>5, <1>6 DEF OwedInv

\* What the end of a run leaves of the runs.
LEMMA RunIsGone ==
    ASSUME Shape, NEW p \in Process, NEW o \in Starter, NEW ok, EndRun(p, o, ok)
    PROVE  \A q \in Process, s \in Starter :
                runs'[q][s] = IF q = p /\ s = o THEN NoRun ELSE runs[q][s]
<1>1. SetsRun(p, o, NoRun)
  BY DEF EndRun, SetsRun
<1> QED
  BY <1>1, SetRun

\* A run claims a batch: all that its caller is owed, when everything fits.
LEMMA ClaimPays ==
    ASSUME PassInv, NEW p \in Process, NEW o \in Starter, Claims(p, o)
    PROVE  (WorkInv /\ OwedInv)'
<1>1. QueueShape /\ HeldIsLeased /\ HeldApart /\ OwedIsDue /\ ClaimPaysAll /\ Shape
  BY DEF PassInv, WorkInv, OwedInv, IInv
<1>2. PICK batch : batch = Batch(p)
  OBVIOUS
<1>3. batch \subseteq DueAt(p) /\ batch \subseteq Delivery /\ (Small => batch = DueAt(p))
  BY <1>1, <1>2, BatchTakesAll DEF Batch, DueAt, Due
<1>4. /\ life' = [d \in Delivery |-> IF d \in batch THEN "leased" ELSE life[d]]
      /\ owed' = [c \in Caller |-> owed[c] \ batch]
      /\ NoLongerDue(batch) /\ UNCHANGED <<setup, home>> /\ runs[p][o].phase = "claim"
  BY <1>2 DEF Claims
<1>5. QueueShape'
  BY <1>1, <1>4 DEF QueueShape, NoLongerDue
<1>6. \A c \in Caller : owed'[c] \in SUBSET Delivery /\ owed'[c] \subseteq owed[c] /\ owed'[c] \cap batch = {}
  BY <1>1, <1>4 DEF QueueShape
<1>7. \A c \in Caller : \A d \in owed'[c] : life[d] = "due" => life'[d] = "due" /\ home'[d] = home[d]
  BY <1>4, <1>6
<1>8. \A c \in Caller : calls[c] = "tick_runs" /\ HostOf[c] = p /\ Small => owed'[c] = {}
  BY <1>1, <1>3, <1>4 DEF OwedIsDue, Asking
<1>9. \A q \in Process, s \in Starter : \A d \in HeldBy(runs[q][s]) :
            d \in Delivery /\ d \notin batch /\ life'[d] = "leased" /\ home'[d] = home[d]
  <2> SUFFICES ASSUME NEW q \in Process, NEW s \in Starter, NEW d \in HeldBy(runs[q][s])
               PROVE  d \in Delivery /\ d \notin batch /\ life'[d] = "leased" /\ home'[d] = home[d]
    OBVIOUS
  <2>1. d \in Delivery
    BY <1>1 DEF HeldIsLeased, IsWork, HeldBy, ToSet
  <2>2. life[d] = "leased"
    BY <1>1 DEF HeldIsLeased
  <2>3. d \notin batch
    BY <1>3, <2>2 DEF DueAt, Due
  <2> QED
    BY <1>4, <2>1, <2>2, <2>3
<1>10. \A q \in Process, s \in Starter : IsWork(runs[q][s])
  BY <1>1 DEF HeldIsLeased
<1>11. CASE batch = {}
  <2>1. EndRun(p, o, TRUE)
    BY <1>2, <1>11 DEF Claims
  <2>2. \A q \in Process, s \in Starter : runs'[q][s] = IF q = p /\ s = o THEN NoRun ELSE runs[q][s]
    BY <1>1, <2>1, RunIsGone
  <2>3. \A q \in Process, s \in Starter :
            IsWork(runs'[q][s]) /\ HeldBy(runs'[q][s]) \subseteq HeldBy(runs[q][s])
    BY <1>10, <2>2, EmptyHanded
  <2>4. HeldIsLeased' /\ HeldApart'
    BY <1>1, <1>4, <1>9, <2>3, HoldsKeep
  <2>5. o \in Caller /\ calls[o] = "tick_runs" => HostOf[o] = p
    <3>1. Running(p, o)
      BY <1>4 DEF Running
    <3> QED
      BY <3>1 DEF PassInv, IInv, CallersOwnTheirRuns
  <2>6. OwedInv'
    BY <1>1, <1>4, <1>5, <1>6, <1>7, <1>8, <2>1, <2>5, EndPays DEF QueueShape
  <2> QED
    BY <1>5, <2>4, <2>6 DEF WorkInv
<1>12. CASE batch # {}
  <2>1. PICK list \in InDueOrder(batch) :
            /\ runs' = [runs EXCEPT ![p][o] = [NoRun EXCEPT !.phase = "work", !.todo = list]]
            /\ UNCHANGED calls
    BY <1>2, <1>12 DEF Claims
  <2>2. list \in Seq(Delivery) /\ ToSet(list) \subseteq batch
        /\ \A i, j \in DOMAIN list : list[i] = list[j] => i = j
    BY <1>3, ListOfBatch
  <2>3. PICK r : r = [NoRun EXCEPT !.phase = "work", !.todo = list]
    OBVIOUS
  <2>4. r.phase = "work" /\ r.todo = list /\ r.working = {}
    BY <2>3 DEF NoRun
  <2>5. IsWork(r) /\ HeldBy(r) \subseteq batch
    BY <2>2, <2>4 DEF IsWork, HeldBy
  <2>6. \A q \in Process, s \in Starter : runs'[q][s] = IF q = p /\ s = o THEN r ELSE runs[q][s]
    <3>1. SetsRun(p, o, r)
      BY <2>1, <2>3 DEF SetsRun
    <3> QED
      BY <1>1, <3>1, SetRun
  <2>7. \A d \in batch : life'[d] = "leased" /\ home'[d] = home[d] /\ home[d].queue = QueueStore(p)
    BY <1>3, <1>4 DEF DueAt
  <2>8. HeldIsLeased'
    <3> SUFFICES ASSUME NEW q \in Process, NEW s \in Starter
                 PROVE  /\ IsWork(runs'[q][s])
                        /\ \A d \in HeldBy(runs'[q][s]) :
                                life'[d] = "leased" /\ home'[d].queue = QueueStore(q)'
      BY DEF HeldIsLeased
    <3>1. QueueStore(q)' = QueueStore(q)
      BY <1>4, StoresStay
    <3>2. CASE q = p /\ s = o
      BY <2>5, <2>6, <2>7, <3>1, <3>2
    <3>3. CASE ~(q = p /\ s = o)
      <4>1. runs'[q][s] = runs[q][s]
        BY <2>6, <3>3
      <4> QED
        BY <1>1, <1>9, <3>1, <4>1 DEF HeldIsLeased
    <3> QED
      BY <3>2, <3>3
  <2>9. HeldApart'
    <3> SUFFICES ASSUME NEW q \in Process, NEW q2 \in Process, NEW s \in Starter, NEW s2 \in Starter,
                        q # q2 \/ s # s2
                 PROVE  HeldBy(runs'[q][s]) \cap HeldBy(runs'[q2][s2]) = {}
      BY DEF HeldApart
    <3>1. HeldBy(runs[q][s]) \cap HeldBy(runs[q2][s2]) = {}
      BY <1>1 DEF HeldApart
    <3>2. HeldBy(runs[q][s]) \cap batch = {} /\ HeldBy(runs[q2][s2]) \cap batch = {}
      BY <1>9
    <3> QED
      BY <2>5, <2>6, <3>1, <3>2
  <2>10. OwedIsDue'
    BY <1>1, <1>4, <1>6, <1>7, <2>1, OwedKeeps DEF QueueShape
  <2>11. ClaimPaysAll'
    <3> SUFFICES ASSUME NEW c \in Caller
                 PROVE  /\ calls'[c] = "tick_runs" => Running(HostOf[c], c)'
                        /\ Small =>
                           /\ calls'[c] = "tick_runs" /\ runs'[HostOf[c]][c].phase = "work" => owed'[c] = {}
                           /\ calls'[c] = "tick_done" => owed'[c] = {}
      BY DEF ClaimPaysAll, Small
    <3>1. calls'[c] = calls[c] /\ owed'[c] \subseteq owed[c] /\ HostOf[c] \in Process /\ c \in Starter
      BY <1>6, <2>1, HostAssumption DEF Starter
    <3>2. CASE HostOf[c] = p /\ c = o
      <4>1. Running(HostOf[c], c)'
        BY <2>4, <2>6, <3>1, <3>2 DEF Running
      <4> QED
        BY <1>1, <1>8, <3>1, <3>2, <4>1 DEF ClaimPaysAll, Small
    <3>3. CASE ~(HostOf[c] = p /\ c = o)
      <4>1. runs'[HostOf[c]][c] = runs[HostOf[c]][c]
        BY <2>6, <3>1, <3>3
      <4> QED
        BY <1>1, <3>1, <4>1 DEF ClaimPaysAll, Running, Small
    <3> QED
      BY <3>2, <3>3
  <2> QED
    BY <1>5, <2>8, <2>9, <2>10, <2>11 DEF WorkInv, OwedInv
<1> QED
  BY <1>11, <1>12

\* A claim fails.
LEMMA ClaimFailurePays ==
    ASSUME PassInv, NEW p \in Process, NEW o \in Starter, ClaimFails(p, o)
    PROVE  (WorkInv /\ OwedInv)'
<1>1. QueueShape /\ Shape
  BY DEF PassInv, WorkInv, IInv
<1>2. EndRun(p, o, FALSE) /\ UNCHANGED <<setup, owed, life, home, dueOrder>>
  BY DEF ClaimFails, queueVars
<1>3. \A q \in Process, s \in Starter : runs'[q][s] \in {runs[q][s], NewRun, NoRun}
  BY <1>1, <1>2, RunIsGone
<1>4. HeldIsLeased' /\ HeldApart'
  BY <1>2, <1>3, StartsHoldNothing
<1>5. OwedInv'
  BY <1>1, <1>2, EndPays DEF QueueShape
<1> QED
  BY <1>1, <1>2, <1>4, <1>5 DEF WorkInv, QueueShape

\* A worker takes the next delivery: the run holds what it held.
LEMMA TakePays ==
    ASSUME PassInv, NEW p \in Process, NEW o \in Starter, WorkerTakes(p, o)
    PROVE  (WorkInv /\ OwedInv)'
<1>1. QueueShape /\ HeldIsLeased /\ HeldApart /\ OwedIsDue /\ ClaimPaysAll /\ Shape
  BY DEF PassInv, WorkInv, OwedInv, IInv
<1>2. PICK run : run = runs[p][o]
  OBVIOUS
<1>3. IsWork(run) /\ IsRun(run) /\ run.phase = "work" /\ run.todo # <<>>
  BY <1>1, <1>2 DEF HeldIsLeased, Shape, WorkerTakes
<1>4. PICK r : r = [run EXCEPT !.todo = Tail(run.todo), !.working = run.working \cup {Head(run.todo)}]
  OBVIOUS
<1>5. r.phase = "work" /\ r.todo = Tail(run.todo) /\ r.working = run.working \cup {Head(run.todo)}
  BY <1>3, <1>4 DEF IsRun
<1>6. PICK list \in Seq(Delivery) : list = run.todo /\ list # <<>>
  BY <1>3 DEF IsWork
<1>7. /\ Tail(list) \in Seq(Delivery) /\ Head(list) = list[1] /\ 1 \in DOMAIN list
      /\ \A i \in DOMAIN Tail(list) : i + 1 \in DOMAIN list /\ Tail(list)[i] = list[i + 1] /\ i + 1 # 1
  BY <1>6
<1>8. ToSet(Tail(list)) \subseteq ToSet(list) /\ Head(list) \in ToSet(list) /\ Head(list) \notin ToSet(Tail(list))
  BY <1>3, <1>6, <1>7 DEF IsWork, ToSet
<1>9. \A i, j \in DOMAIN Tail(list) : Tail(list)[i] = Tail(list)[j] => i = j
  <2> SUFFICES ASSUME NEW i \in DOMAIN Tail(list), NEW j \in DOMAIN Tail(list), Tail(list)[i] = Tail(list)[j]
               PROVE  i = j
    OBVIOUS
  <2>1. i + 1 = j + 1
    BY <1>3, <1>6, <1>7 DEF IsWork
  <2>2. i \in Nat /\ j \in Nat
    BY <1>7
  <2> QED
    BY <2>1, <2>2
<1>10. Head(list) \in Delivery
  BY <1>6, <1>7
<1>11. IsWork(r) /\ HeldBy(r) \subseteq HeldBy(run)
  BY <1>3, <1>5, <1>6, <1>7, <1>8, <1>9, <1>10 DEF IsWork, HeldBy
<1>12. \A q \in Process, s \in Starter : runs'[q][s] = IF q = p /\ s = o THEN r ELSE runs[q][s]
  <2>1. SetsRun(p, o, r)
    BY <1>2, <1>4 DEF WorkerTakes, SetsRun
  <2> QED
    BY <1>1, <2>1, SetRun
<1>13. UNCHANGED <<setup, life, home, dueOrder, owed, calls>>
  BY DEF WorkerTakes, queueVars
<1>14. \A q \in Process, s \in Starter :
            IsWork(runs'[q][s]) /\ HeldBy(runs'[q][s]) \subseteq HeldBy(runs[q][s])
  BY <1>1, <1>2, <1>11, <1>12 DEF HeldIsLeased
<1>15. HeldIsLeased' /\ HeldApart'
  <2>1. \A q \in Process, s \in Starter : \A d \in HeldBy(runs'[q][s]) :
            life'[d] = "leased" /\ home'[d] = home[d]
    BY <1>1, <1>13, <1>14 DEF HeldIsLeased
  <2> QED
    BY <1>1, <1>13, <1>14, <2>1, HoldsKeep
<1>16. OwedIsDue'
  BY <1>1, <1>13, DueStays, HostAssumption DEF OwedIsDue
<1>17. ClaimPaysAll'
  <2>1. \A c \in Caller : runs'[HostOf[c]][c].phase = runs[HostOf[c]][c].phase
    BY <1>2, <1>3, <1>5, <1>12, HostAssumption DEF Starter
  <2> QED
    BY <1>1, <1>13, <2>1, PaysKeeps
<1> QED
  BY <1>1, <1>13, <1>15, <1>16, <1>17 DEF WorkInv, OwedInv, QueueShape

\* A worker is done with a delivery, which moves on or stays leased.
LEMMA LeavePays ==
    ASSUME PassInv, NEW p \in Process, NEW o \in Starter, NEW d \in Delivery, WorkerLeaves(p, o, d),
           \/ UNCHANGED life
           \/ \E v : life' = [life EXCEPT ![d] = v]
    PROVE  (WorkInv /\ OwedInv)'
<1>1. QueueShape /\ HeldIsLeased /\ HeldApart /\ OwedIsDue /\ ClaimPaysAll /\ Shape
  BY DEF PassInv, WorkInv, OwedInv, IInv
<1>2. PICK run : run = runs[p][o]
  OBVIOUS
<1>3. IsWork(run) /\ IsRun(run) /\ d \in run.working
  BY <1>1, <1>2 DEF HeldIsLeased, Shape, WorkerLeaves
<1>4. d \in HeldBy(run) /\ run.phase = "work" /\ life[d] = "leased"
  BY <1>1, <1>2, <1>3 DEF HeldIsLeased, IsWork, HeldBy
<1>5. UNCHANGED <<setup, owed, home, dueOrder>>
  BY DEF WorkerLeaves
<1>6. \A e \in Delivery : e # d => life'[e] = life[e]
  BY <1>1 DEF QueueShape
<1>7. QueueShape'
  BY <1>1, <1>5 DEF QueueShape
<1>8. PICK r : /\ \A q \in Process, s \in Starter : runs'[q][s] = IF q = p /\ s = o THEN r ELSE runs[q][s]
               /\ IsWork(r) /\ HeldBy(r) \subseteq HeldBy(run) \ {d}
  <2>1. CASE run.todo = <<>> /\ run.working = {d}
    <3>1. EndRun(p, o, TRUE)
      BY <1>2, <2>1 DEF WorkerLeaves
    <3>2. \A q \in Process, s \in Starter : runs'[q][s] = IF q = p /\ s = o THEN NoRun ELSE runs[q][s]
      BY <1>1, <3>1, RunIsGone
    <3> QED
      BY <3>2, EmptyHanded
  <2>2. CASE ~(run.todo = <<>> /\ run.working = {d})
    <3>1. PICK r : r = [run EXCEPT !.working = run.working \ {d}]
      OBVIOUS
    <3>2. SetsRun(p, o, r)
      BY <1>2, <2>2, <3>1 DEF WorkerLeaves, SetsRun
    <3>3. \A q \in Process, s \in Starter : runs'[q][s] = IF q = p /\ s = o THEN r ELSE runs[q][s]
      BY <1>1, <3>2, SetRun
    <3>4. r.todo = run.todo /\ r.working = run.working \ {d} /\ r.phase = run.phase
      BY <1>3, <3>1 DEF IsRun
    <3>5. IsWork(r) /\ HeldBy(r) \subseteq HeldBy(run) \ {d}
      BY <1>3, <1>4, <3>4 DEF IsWork, HeldBy
    <3> QED
      BY <3>3, <3>5
  <2> QED
    BY <2>1, <2>2
<1>9. \A q \in Process, s \in Starter :
            IsWork(runs'[q][s]) /\ HeldBy(runs'[q][s]) \subseteq HeldBy(runs[q][s]) \ {d}
  <2> SUFFICES ASSUME NEW q \in Process, NEW s \in Starter
               PROVE  IsWork(runs'[q][s]) /\ HeldBy(runs'[q][s]) \subseteq HeldBy(runs[q][s]) \ {d}
    OBVIOUS
  <2>1. CASE q = p /\ s = o
    BY <1>2, <1>8, <2>1
  <2>2. CASE ~(q = p /\ s = o)
    <3>1. runs'[q][s] = runs[q][s] /\ IsWork(runs[q][s])
      BY <1>1, <1>8, <2>2 DEF HeldIsLeased
    <3>2. d \notin HeldBy(runs[q][s])
      BY <1>1, <1>2, <1>4, <2>2 DEF HeldApart
    <3> QED
      BY <3>1, <3>2
  <2> QED
    BY <2>1, <2>2
<1>10. HeldIsLeased' /\ HeldApart'
  <2>1. \A q \in Process, s \in Starter : \A e \in HeldBy(runs'[q][s]) :
            life'[e] = "leased" /\ home'[e] = home[e]
    <3> SUFFICES ASSUME NEW q \in Process, NEW s \in Starter, NEW e \in HeldBy(runs'[q][s])
                 PROVE  life'[e] = "leased" /\ home'[e] = home[e]
      OBVIOUS
    <3>1. e \in HeldBy(runs[q][s]) /\ e # d
      BY <1>9
    <3>2. e \in Delivery /\ life[e] = "leased"
      BY <1>1, <3>1 DEF HeldIsLeased, IsWork, HeldBy, ToSet
    <3> QED
      BY <1>5, <1>6, <3>1, <3>2
  <2>2. \A q \in Process, s \in Starter :
            IsWork(runs'[q][s]) /\ HeldBy(runs'[q][s]) \subseteq HeldBy(runs[q][s])
    BY <1>9
  <2> QED
    BY <1>1, <1>5, <2>1, <2>2, HoldsKeep
<1>11. \A c \in Caller : \A e \in owed'[c] : life[e] = "due" => life'[e] = "due" /\ home'[e] = home[e]
  <2> SUFFICES ASSUME NEW c \in Caller, NEW e \in owed[c], life[e] = "due"
               PROVE  life'[e] = "due" /\ home'[e] = home[e]
    BY <1>5
  <2>1. e \in Delivery /\ e # d
    BY <1>1, <1>4 DEF QueueShape
  <2> QED
    BY <1>5, <1>6, <2>1
<1>12. OwedInv'
  <2>1. CASE run.todo = <<>> /\ run.working = {d}
    <3>1. EndRun(p, o, TRUE)
      BY <1>2, <2>1 DEF WorkerLeaves
    <3>2. Small /\ o \in Caller /\ calls[o] = "tick_runs" => owed[o] = {}
      <4>1. Running(p, o)
        BY <1>2, <1>4 DEF Running
      <4>2. o \in Caller => HostOf[o] = p
        BY <4>1 DEF PassInv, IInv, CallersOwnTheirRuns
      <4> QED
        BY <1>1, <1>2, <1>4, <4>2 DEF ClaimPaysAll, Small
    <3> QED
      BY <1>1, <1>5, <1>11, <3>1, <3>2, EndPays DEF QueueShape
  <2>2. CASE ~(run.todo = <<>> /\ run.working = {d})
    <3>1. UNCHANGED calls /\ runs' = [runs EXCEPT ![p][o].working = run.working \ {d}]
      BY <1>2, <2>2 DEF WorkerLeaves
    <3>2. OwedIsDue'
      BY <1>1, <1>5, <1>11, <3>1, OwedKeeps DEF QueueShape
    <3>3. \A c \in Caller : runs'[HostOf[c]][c].phase = runs[HostOf[c]][c].phase
      <4>1. PICK r2 : r2 = [run EXCEPT !.working = run.working \ {d}]
        OBVIOUS
      <4>2. SetsRun(p, o, r2) /\ r2.phase = run.phase
        BY <1>2, <1>3, <3>1, <4>1 DEF SetsRun, IsRun
      <4>3. \A q \in Process, s \in Starter : runs'[q][s] = IF q = p /\ s = o THEN r2 ELSE runs[q][s]
        BY <1>1, <4>2, SetRun
      <4> QED
        BY <1>2, <4>2, <4>3, HostAssumption DEF Starter
    <3>4. ClaimPaysAll'
      BY <1>1, <1>5, <3>1, <3>3, PaysKeeps
    <3> QED
      BY <3>2, <3>4 DEF OwedInv
  <2> QED
    BY <2>1, <2>2
<1> QED
  BY <1>7, <1>10, <1>12 DEF WorkInv

\* A process dies: what only it kept was owed to nobody else.
LEMMA KilledPays ==
    ASSUME PassInv, NEW p \in Process, Killed(p)
    PROVE  (WorkInv /\ OwedInv)'
<1>1. QueueShape /\ HeldIsLeased /\ HeldApart /\ OwedIsDue /\ ClaimPaysAll /\ Shape
  BY DEF PassInv, WorkInv, OwedInv, IInv
<1>2. PICK gone : gone = {d \in Delivery : life[d] # "none" /\ ~Survives(d, p)}
  OBVIOUS
<1>3. /\ life' = [d \in Delivery |-> IF d \in gone THEN "lost" ELSE life[d]]
      /\ NoLongerDue(gone) /\ UNCHANGED <<setup, home>>
      /\ owed' = [c \in Caller |-> IF HostOf[c] = p THEN {} ELSE owed[c]]
      /\ calls' = [c \in Caller |-> IF HostOf[c] = p THEN "idle" ELSE calls[c]]
      /\ runs' = [runs EXCEPT ![p] = [o \in Starter |-> NoRun]]
  BY <1>2 DEF Killed
<1>4. QueueShape'
  BY <1>1, <1>3 DEF QueueShape, NoLongerDue
<1>5. \A q \in Process, s \in Starter : runs'[q][s] = IF q = p THEN NoRun ELSE runs[q][s]
  <2> DEFINE row == [o \in Starter |-> NoRun]
  <2>1. runs = [q \in Process |-> [s \in Starter |-> runs[q][s]]]
    BY <1>1 DEF Shape, Table
  <2>2. runs' = [q \in Process |-> IF q = p THEN row ELSE runs[q]]
    BY <1>3, <2>1
  <2> QED
    BY <2>2
<1>6. ASSUME NEW q \in Process, q # p, NEW d \in Delivery, home[d].queue = QueueStore(q)
      PROVE  d \notin gone
  <2>1. QueueStore(q)[3] \in {{q}, Process}
    BY DEF QueueStore, ControlStore, Store
  <2>2. QueueStore(q)[3] # {p}
    BY <1>6, <2>1
  <2> QED
    BY <1>2, <1>6, <2>2 DEF Survives
<1>7. \A q \in Process, s \in Starter :
            IsWork(runs'[q][s]) /\ HeldBy(runs'[q][s]) \subseteq HeldBy(runs[q][s])
  BY <1>1, <1>5, EmptyHanded DEF HeldIsLeased
<1>8. \A q \in Process, s \in Starter : \A d \in HeldBy(runs'[q][s]) :
            life'[d] = "leased" /\ home'[d] = home[d]
  <2> SUFFICES ASSUME NEW q \in Process, NEW s \in Starter, NEW d \in HeldBy(runs'[q][s])
               PROVE  life'[d] = "leased" /\ home'[d] = home[d]
    OBVIOUS
  <2>1. q # p /\ d \in HeldBy(runs[q][s])
    BY <1>5, EmptyHanded
  <2>2. d \in Delivery /\ life[d] = "leased" /\ home[d].queue = QueueStore(q)
    BY <1>1, <2>1 DEF HeldIsLeased, IsWork, HeldBy, ToSet
  <2>3. d \notin gone
    BY <1>6, <2>1, <2>2
  <2> QED
    BY <1>3, <2>2, <2>3
<1>9. HeldIsLeased' /\ HeldApart'
  BY <1>1, <1>3, <1>7, <1>8, HoldsKeep
<1>10. \A c \in Caller : calls'[c] # "idle" => HostOf[c] # p /\ calls'[c] = calls[c] /\ owed'[c] = owed[c]
  BY <1>3
<1>11. OwedIsDue'
  <2> SUFFICES ASSUME NEW c \in Caller, calls'[c] \in Asking, NEW d \in owed'[c]
               PROVE  d \in DueAt(HostOf[c])'
    BY DEF OwedIsDue
  <2>1. HostOf[c] # p /\ d \in DueAt(HostOf[c]) /\ HostOf[c] \in Process
    BY <1>1, <1>10, HostAssumption DEF OwedIsDue, Asking
  <2>2. d \in Delivery /\ life[d] = "due" /\ home[d].queue = QueueStore(HostOf[c])
    BY <2>1 DEF DueAt, Due
  <2>3. d \notin gone
    BY <1>6, <2>1, <2>2
  <2>4. life'[d] = "due" /\ home'[d].queue = QueueStore(HostOf[c])'
    BY <1>3, <2>1, <2>2, <2>3, StoresStay
  <2> QED
    BY <2>2, <2>4 DEF DueAt, Due
<1>12. ClaimPaysAll'
  <2>1. \A c \in Caller : calls'[c] = "tick_runs" => runs'[HostOf[c]][c].phase = runs[HostOf[c]][c].phase
    BY <1>5, <1>10, HostAssumption DEF Starter
  <2> QED
    BY <1>1, <1>10, <2>1, PaysKeeps
<1> QED
  BY <1>4, <1>9, <1>11, <1>12 DEF WorkInv, OwedInv

\* A step that only touches calls that ask for nothing.
LEMMA OtherCallsPay ==
    ASSUME PassInv, UNCHANGED <<setup, runs, owed, queueVars>>,
           \A c \in Caller : calls'[c] \in Asking => calls'[c] = calls[c]
    PROVE  (WorkInv /\ OwedInv)'
<1>1. QueueShape /\ HeldIsLeased /\ HeldApart /\ OwedIsDue /\ ClaimPaysAll
  BY DEF PassInv, WorkInv, OwedInv
<1>2. UNCHANGED <<setup, life, home, dueOrder, runs, owed>>
  BY DEF queueVars
<1>3. HeldIsLeased' /\ HeldApart'
  BY <1>2, StartsHoldNothing
<1>4. OwedIsDue'
  BY <1>1, <1>2, OwedKeeps DEF QueueShape
<1>5. ClaimPaysAll'
  BY <1>1, <1>2, PaysKeeps DEF Asking
<1> QED
  BY <1>1, <1>2, <1>3, <1>4, <1>5 DEF WorkInv, OwedInv, QueueShape

\* Initially nothing is held, due or owed.
LEMMA PassInit == Init => PassInv
<1> SUFFICES ASSUME Init PROVE PassInv
  OBVIOUS
<1>1. IInv
  BY InitIInv
<1>2. QueueShape
  BY DEF Init, QueueShape
<1>3. \A p \in Process, o \in Starter : runs[p][o] = NoRun
  BY DEF Init
<1>4. HeldIsLeased /\ HeldApart
  BY <1>3, EmptyHanded DEF HeldIsLeased, HeldApart
<1>5. OwedIsDue /\ ClaimPaysAll
  BY DEF Init, OwedIsDue, ClaimPaysAll, Asking
<1> QED
  BY <1>1, <1>2, <1>4, <1>5 DEF PassInv, WorkInv, OwedInv

\* What is neither leased nor due is held by nobody.
LEMMA HeldByNobody ==
    ASSUME PassInv, NEW d \in Delivery, life[d] # "leased" \/ d \notin Held
    PROVE  \A p \in Process, o \in Starter : d \notin HeldBy(runs[p][o])
<1>1. HeldIsLeased
  BY DEF PassInv, WorkInv
<1>2. CASE life[d] # "leased"
  BY <1>1, <1>2 DEF HeldIsLeased
<1>3. CASE d \notin Held
  <2> SUFFICES ASSUME NEW p \in Process, NEW o \in Starter, d \in HeldBy(runs[p][o])
               PROVE  d \in Held
    BY <1>3
  <2> DEFINE all == {runs[q][s].working \cup ToSet(runs[q][s].todo) : q \in Process, s \in Starter}
             one == runs[p][o].working \cup ToSet(runs[p][o].todo)
  <2>1. one \in all /\ Held = UNION all
    BY DEF Held
  <2>2. d \in one
    BY DEF HeldBy
  <2> HIDE DEF all, one
  <2> QED
    BY <2>1, <2>2
<1> QED
  BY <1>2, <1>3

\* Every step keeps what the passes promise their callers.
LEMMA PassStep == PassInv /\ [Next]_vars => PassInv'
<1> SUFFICES ASSUME PassInv, [Next]_vars PROVE PassInv'
  OBVIOUS
<1> SUFFICES (WorkInv /\ OwedInv)'
  <2>1. IInv'
    BY NextKeeps DEF PassInv
  <2> QED
    BY <2>1 DEF PassInv
<1>1. \A c \in Caller : c \in DOMAIN calls
  BY DEF PassInv, IInv, Shape
<1>2. ASSUME NEW p \in Process, NEW o \in Starter, RunStep(p, o) PROVE (WorkInv /\ OwedInv)'
  <2>1. ASSUME NEW d \in Delivery, WorkerRecords(p, o, d) PROVE (WorkInv /\ OwedInv)'
    <3>1. WorkerLeaves(p, o, d) /\ \E v : life' = [life EXCEPT ![d] = v]
      BY <2>1 DEF WorkerRecords
    <3> QED
      BY <3>1, LeavePays
  <2> QED
    BY <1>2, <2>1, ClaimPays, TakePays DEF RunStep
<1>3. ASSUME NEW p \in Process, NEW o \in Starter, NEW d \in Delivery, WorkerThrows(p, o, d)
      PROVE  (WorkInv /\ OwedInv)'
  BY <1>3, LeavePays DEF WorkerThrows
<1>4. ASSUME NEW c \in Caller, CallTick(c) \/ WakeTick(c) PROVE (WorkInv /\ OwedInv)'
  BY <1>4, AskPays DEF CallTick, WakeTick
<1>5. ASSUME NEW c \in Caller, CallStop(c) \/ CallStart(c) PROVE (WorkInv /\ OwedInv)'
  <2>1. UNCHANGED <<setup, runs, owed, queueVars>>
    BY <1>5 DEF CallStop, CallStart
  <2>2. \E s \in {"stopped", "stop_waits", "idle"} : calls' = [calls EXCEPT ![c] = s]
    BY <1>5 DEF CallStop, CallStart, AfterStop
  <2>3. \A e \in Caller : calls'[e] \in Asking => calls'[e] = calls[e]
    BY <1>1, <2>2 DEF Asking
  <2> QED
    BY <2>1, <2>3, OtherCallsPay
<1>6. ASSUME NEW p \in Process, Boot(p) \/ CommandReads(p) PROVE (WorkInv /\ OwedInv)'
  BY <1>6, OtherCallsPay DEF Boot, CommandReads, loopVars
<1>7. CASE UNCHANGED vars
  BY <1>7, OtherCallsPay DEF vars, loopVars
<1>8. ASSUME NEW d \in Delivery,
             \/ LeaseExpires(d) \/ Ripens(d)
             \/ \E p \in Process : HostPublishes(p, d) \/ CommandPublishes(p, d) \/ CommandRetries(p, d)
      PROVE  (WorkInv /\ OwedInv)'
  <2>1. UNCHANGED <<setup, runs, calls, owed>>
    BY <1>8 DEF LeaseExpires, Ripens, HostPublishes, CommandPublishes, CommandRetries, loopVars
  <2>2. life[d] # "due" /\ (life[d] # "leased" \/ d \notin Held)
    BY <1>8 DEF LeaseExpires, Ripens, HostPublishes, CommandPublishes, CommandRetries, Enqueues
  <2>3. \E v : life' = [life EXCEPT ![d] = v]
    BY <1>8
    DEF LeaseExpires, Ripens, HostPublishes, CommandPublishes, CommandRetries, Enqueues, BecomesDue
  <2>4. UNCHANGED home \/ \E h : home' = [home EXCEPT ![d] = h]
    BY <1>8 DEF LeaseExpires, Ripens, HostPublishes, CommandPublishes, CommandRetries, Enqueues
  <2>5. UNCHANGED dueOrder \/ dueOrder' = dueOrder \cup (Due \X {d})
    BY <1>8
    DEF LeaseExpires, Ripens, HostPublishes, CommandPublishes, CommandRetries, Enqueues, BecomesDue
  <2>6. \A p \in Process, o \in Starter : d \notin HeldBy(runs[p][o])
    BY <2>2, HeldByNobody
  <2> QED
    BY <2>1, <2>2, <2>3, <2>4, <2>5, <2>6, DeliveryMoves
<1> QED
  BY <1>2, <1>3, <1>4, <1>5, <1>6, <1>7, <1>8, TimerPays, ClaimFailurePays, KilledPays DEF Next

\* tick() makes a pass of its own, whichever passes are in flight when it is called and however many
\* callers a finished one wakes: when it returns, all that was due at the call has been claimed, as
\* long as one batch reaches that far (src/dispatcher.ts, tick: "Manual ticks also serialize against the poller").
THEOREM TicksAreFresh == Spec => []OwnPass
<1>1. PassInv => OwnPass
  BY DEF PassInv, OwedInv, ClaimPaysAll, OwnPass
<1> QED
  BY PassInit, PassStep, <1>1, PTL DEF Spec

------------------------------------------------------------------------------
(* The admin API: its tables *)

\* What an operation is, table by table.
LEMMA CallsByTable ==
    /\ \A c \in DOMAIN ControlCalls : Calls[c] = ControlCalls[c]
    /\ \A c \in DOMAIN EndpointCalls : Calls[c] = EndpointCalls[c]
    /\ \A c \in DOMAIN DeliveryCalls : Calls[c] = DeliveryCalls[c]
<1>1. DOMAIN ControlCalls = {"listApplications", "createApplication", "getApplication",
        "updateApplication", "deleteApplication", "listEventTypes", "createEventType",
        "getEventType", "updateEventType", "deleteEventType"}
  BY DEF ControlCalls
<1>2. DOMAIN EndpointCalls = {"listEndpoints", "createEndpoint", "getEndpoint", "updateEndpoint",
        "deleteEndpoint", "getSecrets", "rotateSecret", "enableEndpoint", "disableEndpoint",
        "sendExample", "recoverEndpoint"}
  BY DEF EndpointCalls
<1>3. DOMAIN DeliveryCalls = {"listMessages", "publish", "getMessage", "listDeliveries",
        "getDelivery", "previewDeliveryRequest", "retryDelivery", "listAudit"}
  BY DEF DeliveryCalls
<1> QED
  BY <1>1, <1>2, <1>3 DEF Calls, CallNames

\* A route is told by its path and method.
LEMMA OneRoute ==
    ASSUME NEW r \in Routes, NEW s \in Routes, r.path = s.path, r.method = s.method
    PROVE  r = s
BY DEF Routes, ApplicationRoutes, EventTypeRoutes, EndpointRoutes, EndpointStepRoutes, MessageRoutes,
       DeliveryRoutes, Route

\* What the handlers promise: one that changes something names a mutating action and calls
\* guard(), one that shows a secret none that ends in ":read", and of the catalog only a reader is for a portal.
RouteFits(r) ==
    /\ r.call \in CallNames
    /\ Calls[r.call].writes # {} => r.action \in MutatingActions /\ Guarded(r.call)
    /\ Calls[r.call].writes # {} \/ "secret" \in Calls[r.call].shows => r.action \notin ReadActions
    /\ r.call = "listApplications" => r.path = "applications" /\ r.method = "GET"
    /\ r.path \notin Public \cup {"config"}
    /\ IF OfCatalog(r.path)
       THEN /\ Calls[r.call].writes \cup Calls[r.call].shows \subseteq {"event-type"}
            /\ r.action = <<"event-type", "read">> => Calls[r.call].writes = {}
       ELSE Calls[r.call].writes \cup Calls[r.call].shows \subseteq OwnKinds
    /\ Calls[r.call].status \subseteq {200, 201}
    /\ (\E d \in OpenApi : d[1] = r.path /\ d[2] = r.method) =>
            \A s \in Calls[r.call].status : Documented(r.path, r.method, s) \in OpenApi

\* Each group of rows of the routing table, and so the table, fits the calls.
LEMMA ApplicationRoutesFit == \A r \in ApplicationRoutes : RouteFits(r)
BY CallsByTable DEF ApplicationRoutes, Route, RouteFits, ControlCalls, Call, CallNames, MutatingActions,
   ReadActions, AllActions, Acts, OfCatalog, Kinds, OwnKinds, Public, OpenApi, DocumentedControl,
   DocumentedEndpoints, DocumentedDeliveries, Documented, Guarded, GuardedCalls
LEMMA EventTypeRoutesFit == \A r \in EventTypeRoutes : RouteFits(r)
BY CallsByTable DEF EventTypeRoutes, Route, RouteFits, ControlCalls, Call, CallNames, MutatingActions,
   ReadActions, AllActions, Acts, OfCatalog, Kinds, OwnKinds, Public, OpenApi, DocumentedControl,
   DocumentedEndpoints, DocumentedDeliveries, Documented, SecretAction, Guarded, GuardedCalls

LEMMA EndpointRoutesFit == \A r \in EndpointRoutes : RouteFits(r)
<1> SUFFICES ASSUME NEW r \in EndpointRoutes PROVE RouteFits(r)
  OBVIOUS
<1>1. r.call \in DOMAIN EndpointCalls
  BY DEF EndpointRoutes, Route, EndpointCalls
<1>2. Calls[r.call] = EndpointCalls[r.call] /\ r.call \in CallNames
  BY <1>1, CallsByTable DEF CallNames
<1>3. /\ EndpointCalls[r.call].writes # {} => r.action \in MutatingActions /\ Guarded(r.call)
      /\ EndpointCalls[r.call].writes # {} \/ "secret" \in EndpointCalls[r.call].shows =>
            r.action \notin ReadActions
  BY DEF EndpointRoutes, Route, EndpointCalls, Call, MutatingActions, ReadActions, AllActions, Acts, SecretAction,
     Guarded, GuardedCalls
<1>4. /\ r.call # "listApplications" /\ ~OfCatalog(r.path) /\ r.path \notin Public \cup {"config"}
      /\ EndpointCalls[r.call].writes \cup EndpointCalls[r.call].shows \subseteq OwnKinds
      /\ EndpointCalls[r.call].status \subseteq {200, 201}
  BY DEF EndpointRoutes, Route, EndpointCalls, Call, OfCatalog, Public, OwnKinds, Kinds
<1>5. \A s \in EndpointCalls[r.call].status : Documented(r.path, r.method, s) \in DocumentedEndpoints
  BY DEF EndpointRoutes, Route, EndpointCalls, Call, DocumentedEndpoints, Documented
<1> QED
  BY <1>2, <1>3, <1>4, <1>5 DEF RouteFits, OpenApi

LEMMA EndpointStepRoutesFit == \A r \in EndpointStepRoutes : RouteFits(r)
<1> SUFFICES ASSUME NEW r \in EndpointStepRoutes PROVE RouteFits(r)
  OBVIOUS
<1>1. r.call \in DOMAIN EndpointCalls
  BY DEF EndpointStepRoutes, Route, EndpointCalls
<1>2. Calls[r.call] = EndpointCalls[r.call] /\ r.call \in CallNames
  BY <1>1, CallsByTable DEF CallNames
<1>3. /\ EndpointCalls[r.call].writes # {} => r.action \in MutatingActions /\ Guarded(r.call)
      /\ EndpointCalls[r.call].writes # {} \/ "secret" \in EndpointCalls[r.call].shows =>
            r.action \notin ReadActions
  BY DEF EndpointStepRoutes, Route, EndpointCalls, Call, MutatingActions, ReadActions, AllActions, Acts, SecretAction,
     Guarded, GuardedCalls
<1>4. /\ r.call # "listApplications" /\ ~OfCatalog(r.path) /\ r.path \notin Public \cup {"config"}
      /\ EndpointCalls[r.call].writes \cup EndpointCalls[r.call].shows \subseteq OwnKinds
      /\ EndpointCalls[r.call].status \subseteq {200, 201}
  BY DEF EndpointStepRoutes, Route, EndpointCalls, Call, OfCatalog, Public, OwnKinds, Kinds
<1>5. \A s \in EndpointCalls[r.call].status : Documented(r.path, r.method, s) \in DocumentedEndpoints
  BY DEF EndpointStepRoutes, Route, EndpointCalls, Call, DocumentedEndpoints, Documented
<1> QED
  BY <1>2, <1>3, <1>4, <1>5 DEF RouteFits, OpenApi

LEMMA MessageRoutesFit == \A r \in MessageRoutes : RouteFits(r)
BY CallsByTable DEF MessageRoutes, Route, RouteFits, DeliveryCalls, Call, CallNames, MutatingActions,
   ReadActions, AllActions, Acts, OfCatalog, Kinds, OwnKinds, Public, OpenApi, DocumentedControl,
   DocumentedEndpoints, DocumentedDeliveries, Documented, SecretAction, Guarded, GuardedCalls

LEMMA DeliveryRoutesFit == \A r \in DeliveryRoutes : RouteFits(r)
BY CallsByTable DEF DeliveryRoutes, Route, RouteFits, DeliveryCalls, Call, CallNames, MutatingActions,
   ReadActions, AllActions, Acts, OfCatalog, Kinds, OwnKinds, Public, OpenApi, DocumentedControl,
   DocumentedEndpoints, DocumentedDeliveries, Documented, SecretAction, Guarded, GuardedCalls

LEMMA RoutesFit == \A r \in Routes : RouteFits(r)
BY ApplicationRoutesFit, EventTypeRoutesFit, EndpointRoutesFit, EndpointStepRoutesFit, MessageRoutesFit,
   DeliveryRoutesFit DEF Routes

\* Every operation of the document is routed, or answered before the routes with 200.
LEMMA DocumentedIsRouted ==
    \A d \in OpenApi :
        IF d[1] \in Public \cup {"config"} THEN d = Documented(d[1], d[2], 200)
        ELSE \E r \in Routes : r.path = d[1] /\ r.method = d[2]
<1> USE DEF Public, Route, Documented
<1>1. ASSUME NEW d \in DocumentedControl
      PROVE  IF d[1] \in Public \cup {"config"} THEN d = Documented(d[1], d[2], 200)
             ELSE \E r \in ApplicationRoutes \cup EventTypeRoutes : r.path = d[1] /\ r.method = d[2]
  BY DEF DocumentedControl, ApplicationRoutes, EventTypeRoutes
<1>2. ASSUME NEW d \in DocumentedEndpoints
      PROVE  /\ d[1] \notin Public \cup {"config"}
             /\ \E r \in EndpointRoutes \cup EndpointStepRoutes : r.path = d[1] /\ r.method = d[2]
  BY DEF DocumentedEndpoints, EndpointRoutes, EndpointStepRoutes
<1>3. ASSUME NEW d \in DocumentedDeliveries
      PROVE  /\ d[1] \notin Public \cup {"config"}
             /\ \E r \in MessageRoutes \cup DeliveryRoutes : r.path = d[1] /\ r.method = d[2]
  BY DEF DocumentedDeliveries, MessageRoutes, DeliveryRoutes
<1> QED
  BY <1>1, <1>2, <1>3 DEF OpenApi, Routes

------------------------------------------------------------------------------
(* A request through the admin API *)

\* Whom the API takes the sender for: a token that was presented, genuine and in time, or what the
\* host's provider made of the request.
Identified ==
    /\ request.stage = "arrived" => ~request.portal
    /\ request.stage \in {"known", "parsed", "permitted", "ready"} =>
        IF ByToken
        THEN /\ request.portal /\ request.who = asked.from.owner
             /\ asked.from.genuine /\ asked.from.exp # 0
        ELSE ~request.portal /\ request.who = asked.from.host

Allowed(action) == IF request.portal THEN PortalMay(action) ELSE HostMay(action)

\* Whoever comes to the operation was allowed the action of every route it may be of.
Authorized ==
    request.stage \in {"permitted", "ready"} => \A r \in TheRoutes : Allowed(r.action)

Untold ==
    /\ request.stage # "answered" => request.wrote = {} /\ request.shown = {}
    /\ request.stage \notin {"none", "answered"} => asked.path \notin Public

GateInv ==
    /\ GateTypeOK
    /\ Untold
    /\ Identified
    /\ Authorized
    /\ PortalConfined
    /\ ReadersOnlyRead
    /\ AnswersAreDocumented

\* The inductive invariant of the gate, one action at a time.
LEMMA GateStarts == GateInit => GateInv
<1> SUFFICES ASSUME GateInit PROVE GateInv
  OBVIOUS
<1>1. panel \in PanelType /\ exists = {} /\ time \in 0 .. MaxTime
  BY GateAssumption, SettingsAssumption DEF GateInit
<1>2. request = NoRequest /\ request \in Progress
  BY DEF GateInit, NoRequest, Progress
<1> QED
  BY <1>1, <1>2 DEF GateInv, GateTypeOK, Untold, Identified, Authorized, PortalConfined, ReadersOnlyRead,
     AnswersAreDocumented, Done, NoRequest

\* What a request that arrives is made of.
LEMMA AskedFields ==
    ASSUME GateInv, request.stage # "none"
    PROVE  /\ asked \in Asked /\ asked.path \in Paths /\ asked.app \in App /\ asked.from \in SenderType
           /\ asked.from.owner \in App /\ asked.from.host \in Host \cup {NoOne, "throws"}
           /\ asked.from.exp \in Nat /\ Owner \in Owners
BY GateAssumption, SettingsAssumption DEF GateInv, GateTypeOK, Asked, SenderType, Owner, Owners

\* A request that is refused has changed and shown nothing.
LEMMA GateRefuses ==
    ASSUME GateInv, request.stage \notin {"none", "answered"}, NEW s \in Nat, Refuse(s),
           s >= 300 \/ (asked.path = "config" /\ s = 200),
           ByToken /\ (~asked.from.genuine \/ asked.from.exp = 0) => s = 401
    PROVE  GateInv'
<1>1. /\ request' = [request EXCEPT !.stage = "answered", !.status = s, !.wrote = {}, !.shown = {}]
      /\ UNCHANGED <<panel, exists, time, asked>>
  BY DEF Refuse, Answer
<1>2. GateTypeOK /\ request \in Progress
  BY DEF GateInv, GateTypeOK
<1>3. /\ request' \in Progress /\ request'.stage = "answered" /\ request'.status = s
      /\ request'.wrote = {} /\ request'.shown = {} /\ request'.who = request.who
  BY <1>1, <1>2 DEF Progress
<1>4. GateTypeOK' /\ Untold' /\ Identified' /\ Authorized'
  BY <1>1, <1>2, <1>3 DEF GateTypeOK, Untold, Identified, Authorized
<1>5. PortalConfined' /\ ReadersOnlyRead'
  BY <1>1, <1>3 DEF PortalConfined, ReadersOnlyRead, Done, ByToken
<1>6. AnswersAreDocumented'
  <2> SUFFICES ASSUME NEW d \in OpenApi, d[1] = asked.path, d[2] = asked.method
               PROVE  /\ s < 300 => Documented(asked.path, asked.method, s) \in OpenApi
                      /\ asked.path \in Public \cup {"config"} \/ TheRoutes # {}
    BY <1>1, <1>3 DEF AnswersAreDocumented, Done, TheRoutes
  <2>1. s < 300 => Documented(asked.path, asked.method, s) \in OpenApi
    BY DocumentedIsRouted
  <2>2. asked.path \in Public \cup {"config"} \/ TheRoutes # {}
    BY DocumentedIsRouted DEF TheRoutes, Matches
  <2> QED
    BY <2>1, <2>2
<1> QED
  BY <1>4, <1>5, <1>6 DEF GateInv

\* A request that goes on.
LEMMA GateGoes ==
    ASSUME GateInv, request.stage \in {"known", "parsed", "permitted"},
           NEW stage \in {"parsed", "permitted", "ready"}, Goes(stage),
           stage \in {"permitted", "ready"} => \A r \in TheRoutes : Allowed(r.action)
    PROVE  GateInv'
<1>1. request' = [request EXCEPT !.stage = stage] /\ UNCHANGED <<panel, exists, time, asked>>
  BY DEF Goes
<1>2. GateTypeOK /\ request \in Progress /\ Untold /\ Identified
  BY DEF GateInv, GateTypeOK
<1>3. /\ request' \in Progress /\ request'.stage = stage /\ request'.portal = request.portal
      /\ request'.wrote = request.wrote /\ request'.shown = request.shown /\ request'.who = request.who
  BY <1>1, <1>2 DEF Progress
<1>4. GateTypeOK' /\ Untold' /\ Identified'
  BY <1>1, <1>2, <1>3 DEF GateTypeOK, Untold, Identified, ByToken
<1>5. Authorized'
  BY <1>1, <1>3 DEF Authorized, Allowed, PortalMay, HostMay, TheRoutes
<1>6. PortalConfined' /\ ReadersOnlyRead' /\ AnswersAreDocumented'
  BY <1>3 DEF PortalConfined, ReadersOnlyRead, AnswersAreDocumented, Done
<1> QED
  BY <1>4, <1>5, <1>6 DEF GateInv

\* A request that arrives knows nobody yet; a refused one is answered at once.
LEMMA GateArrives ==
    ASSUME GateInv, Arrive
    PROVE  GateInv'
<1>1. /\ asked' \in Asked /\ UNCHANGED <<panel, exists, time>>
      /\ request' = IF asked'.path \notin Public THEN [NoRequest EXCEPT !.stage = "arrived"]
                    ELSE [NoRequest EXCEPT !.stage = "answered", !.status = 200,
                            !.shown = IF asked'.path = "catalog" THEN exists \cap {<<"event-type", Catalog>>}
                                      ELSE {}]
  BY DEF Arrive
<1>2. GateTypeOK
  BY DEF GateInv
<1>3. CASE asked'.path \notin Public
  <2>1. request' = [NoRequest EXCEPT !.stage = "arrived"] /\ request' \in Progress
    BY <1>1, <1>3 DEF NoRequest, Progress
  <2>2. request'.stage = "arrived" /\ ~request'.portal /\ request'.wrote = {} /\ request'.shown = {}
    BY <2>1 DEF NoRequest
  <2> QED
    BY <1>1, <1>2, <1>3, <2>1, <2>2 DEF GateInv, GateTypeOK, Untold, Identified, Authorized, PortalConfined,
       ReadersOnlyRead, AnswersAreDocumented, Done
<1>4. CASE asked'.path \in Public
  <2>1. PICK shown \in SUBSET (exists \cap {<<"event-type", Catalog>>}) :
            request' = [NoRequest EXCEPT !.stage = "answered", !.status = 200, !.shown = shown]
    BY <1>1, <1>4
  <2>2. /\ request'.stage = "answered" /\ request'.status = 200 /\ request'.wrote = {}
        /\ request'.shown = shown /\ request'.who = NoOne
    BY <2>1 DEF NoRequest
  <2>3. request' \in Progress
    BY <1>2, <2>1 DEF NoRequest, Progress, GateTypeOK
  <2>4. GateTypeOK' /\ Untold' /\ Identified' /\ Authorized'
    BY <1>1, <1>2, <2>2, <2>3 DEF GateTypeOK, Untold, Identified, Authorized
  <2>5. PortalConfined'
    BY <1>4, <2>2 DEF PortalConfined, Done
  <2>6. ReadersOnlyRead'
    BY <2>2 DEF ReadersOnlyRead, Done
  <2>7. AnswersAreDocumented'
    BY <1>4, <2>2, DocumentedIsRouted DEF AnswersAreDocumented, Done
  <2> QED
    BY <2>4, <2>5, <2>6, <2>7 DEF GateInv
<1> QED
  BY <1>3, <1>4

\* Authentication names the caller, or sends the request away.
LEMMA GateAuthenticates ==
    ASSUME GateInv, Authenticate
    PROVE  GateInv'
<1>1. request.stage = "arrived" /\ GateTypeOK /\ request \in Progress /\ Untold /\ Identified
  BY DEF Authenticate, GateInv, GateTypeOK
<1>2. CASE ByToken /\ ~Verified
  BY <1>1, <1>2, GateRefuses DEF Authenticate
<1>3. CASE ~ByToken /\ asked.from.host = "throws"
  BY <1>1, <1>3, GateRefuses DEF Authenticate
<1>4. ASSUME NEW who \in Host \cup App \cup {NoOne}, NEW portal \in BOOLEAN,
             request' = [request EXCEPT !.stage = "known", !.who = who, !.portal = portal],
             UNCHANGED <<panel, exists, time, asked>>,
             IF ByToken THEN /\ portal /\ who = asked.from.owner
                             /\ asked.from.genuine /\ asked.from.exp # 0
             ELSE ~portal /\ who = asked.from.host
      PROVE  GateInv'
  <2>1. /\ request' \in Progress /\ request'.stage = "known" /\ request'.portal = portal
        /\ request'.wrote = {} /\ request'.shown = {} /\ request'.who = who
    BY <1>1, <1>4 DEF Progress, Untold
  <2>2. GateTypeOK' /\ Untold' /\ Identified' /\ Authorized'
    BY <1>1, <1>4, <2>1 DEF GateTypeOK, Untold, Identified, Authorized, ByToken
  <2> QED
    BY <2>1, <2>2 DEF GateInv, PortalConfined, ReadersOnlyRead, AnswersAreDocumented, Done
<1>5. CASE ByToken /\ Verified
  <2>1. asked.from.genuine /\ asked.from.exp # 0
    <3>1. time \in Nat /\ asked.from.exp \in Nat
      BY <1>1, AskedFields, GateAssumption DEF GateTypeOK
    <3> QED
      BY <1>5, <3>1 DEF Verified
  <2>2. request' = [request EXCEPT !.stage = "known", !.who = asked.from.owner, !.portal = TRUE]
        /\ UNCHANGED <<panel, exists, time, asked>>
    BY <1>5 DEF Authenticate
  <2> QED
    BY <1>1, <1>4, <1>5, <2>1, <2>2, AskedFields
<1>6. CASE ~ByToken /\ asked.from.host # "throws"
  <2>1. request' = [request EXCEPT !.stage = "known", !.who = asked.from.host]
        /\ UNCHANGED <<panel, exists, time, asked>>
    BY <1>6 DEF Authenticate
  <2>2. request' = [request EXCEPT !.stage = "known", !.who = asked.from.host, !.portal = FALSE]
    BY <1>1, <2>1 DEF Progress, Identified
  <2> QED
    BY <1>1, <1>4, <1>6, <2>1, <2>2, AskedFields
<1> QED
  BY <1>2, <1>3, <1>5, <1>6
\* Bootstrapping gives an answer to whoever was let in.
LEMMA GateBootstraps ==
    ASSUME GateInv, Bootstrap
    PROVE  GateInv'
<1>1. request.stage = "known" /\ Identified
  BY DEF Bootstrap, GateInv
<1>2. ~(ByToken /\ (~asked.from.genuine \/ asked.from.exp = 0))
  BY <1>1 DEF Identified
<1> QED
  BY <1>1, <1>2, GateRefuses DEF Bootstrap

\* Parsing finds the route of the table, or answers that there is none.
LEMMA GateParses ==
    ASSUME GateInv, Parse
    PROVE  GateInv'
<1>1. request.stage \in {"known", "permitted"} /\ Identified /\ Authorized
  BY DEF Parse, GateInv
<1>2. ~(ByToken /\ (~asked.from.genuine \/ asked.from.exp = 0))
  BY <1>1 DEF Identified
<1>3. CASE ~asked.json
  BY <1>1, <1>2, <1>3, GateRefuses DEF Parse
<1>4. CASE asked.json /\ request.stage = "known"
  BY <1>4, GateGoes DEF Parse
<1>5. CASE asked.json /\ request.stage = "permitted"
  <2>1. Goes("ready")
    BY <1>5 DEF Parse
  <2> QED
    BY <1>1, <1>5, <2>1, GateGoes DEF Authorized
<1> QED
  BY <1>1, <1>3, <1>4, <1>5

\* Authorization lets through what the roles or the token allow.
LEMMA GateAuthorizes ==
    ASSUME GateInv, Authorize
    PROVE  GateInv'
<1>1. request.stage \in {"known", "parsed"} /\ Identified
  BY DEF Authorize, GateInv
<1>2. ~(ByToken /\ (~asked.from.genuine \/ asked.from.exp = 0))
  BY <1>1 DEF Identified
<1>3. PICK route \in TheRoutes :
        IF Allowed(route.action) THEN Goes(IF route.body = "after" THEN "permitted" ELSE "ready")
        ELSE Refuse(403)
  BY DEF Authorize, Allowed
<1>4. CASE ~Allowed(route.action)
  BY <1>1, <1>2, <1>3, <1>4, GateRefuses
<1>5. CASE Allowed(route.action)
  <2>1. \A r \in TheRoutes : r = route
    BY OneRoute DEF TheRoutes, Matches
  <2>2. Goes("permitted") \/ Goes("ready")
    BY <1>3, <1>5
  <2> QED
    BY <1>1, <1>5, <2>1, <2>2, GateGoes
<1> QED
  BY <1>4, <1>5

\* Whose it is what an operation writes and shows.
LEMMA OperationReaches ==
    ASSUME GateInv, request.stage = "ready", NEW route \in TheRoutes
    PROVE  /\ {<<k, Owner>> : k \in Calls[route.call].writes} \subseteq Resource
           /\ ShownBy(route.call) \subseteq Resource
           /\ After(route.call, Calls[route.call].writes) \subseteq Resource
<1>1. route \in Routes /\ route.path = asked.path /\ RouteFits(route) /\ exists \subseteq Resource
  BY RoutesFit DEF TheRoutes, Matches, GateInv, GateTypeOK
<1>2. \A k \in Calls[route.call].writes \cup Calls[route.call].shows : <<k, Owner>> \in Resource
  <2>1. CASE OfCatalog(asked.path)
    BY <1>1, <2>1 DEF RouteFits, Owner, Resource
  <2>2. CASE ~OfCatalog(asked.path)
    BY <1>1, <2>2, AskedFields DEF RouteFits, Owner, Resource, OwnKinds
  <2> QED
    BY <2>1, <2>2
<1>3. {<<k, Owner>> : k \in Calls[route.call].writes} \subseteq Resource
  BY <1>2
<1>4. ShownBy(route.call) \subseteq Resource
  BY <1>1, <1>2 DEF ShownBy
<1>5. After(route.call, Calls[route.call].writes) \subseteq Resource
  <2>1. CASE route.call = "publish"
    <3>1. Calls["publish"].writes = {"message", "delivery"}
      BY CallsByTable DEF DeliveryCalls, Call
    <3> QED
      BY <1>1, <1>2, <2>1, <3>1 DEF After
  <2>2. CASE route.call # "publish"
    <3>1. \A r \in After(route.call, Calls[route.call].writes) :
            r \in exists \/ r \in {<<k, Owner>> : k \in Calls[route.call].writes}
      BY <2>2 DEF After
    <3> QED
      BY <1>1, <1>3, <3>1
  <2> QED
    BY <2>1, <2>2
<1> QED
  BY <1>3, <1>4, <1>5

\* An answer is one of those its route documents.
LEMMA GateAnswers ==
    ASSUME GateInv, request.stage = "ready", NEW route \in TheRoutes,
           ~(Guarded(route.call) /\ panel.readonly), NEW s \in Calls[route.call].status,
           Answer(s, {<<k, Owner>> : k \in Calls[route.call].writes}, ShownBy(route.call)),
           exists' = After(route.call, Calls[route.call].writes), UNCHANGED <<panel, time, asked>>
    PROVE  GateInv'
<1> DEFINE writes == Calls[route.call].writes
           shows == Calls[route.call].shows
<1>1. /\ route \in Routes /\ route.path = asked.path /\ route.method = asked.method /\ RouteFits(route)
      /\ GateTypeOK /\ request \in Progress /\ Identified /\ Allowed(route.action)
  BY RoutesFit DEF TheRoutes, Matches, GateInv, GateTypeOK, Authorized
<1>2. /\ {<<k, Owner>> : k \in writes} \subseteq Resource /\ ShownBy(route.call) \subseteq Resource
      /\ exists' \subseteq Resource
  BY OperationReaches
<1>3. s \in {200, 201}
  BY <1>1 DEF RouteFits
<1>4. PICK wrote \in SUBSET Resource : wrote = {<<k, Owner>> : k \in writes}
  BY <1>2
<1>5. PICK shown \in SUBSET Resource : shown = ShownBy(route.call)
  BY <1>2
<1>6. request' = [request EXCEPT !.stage = "answered", !.status = s, !.wrote = wrote, !.shown = shown]
  BY <1>4, <1>5 DEF Answer
<1>7. /\ request' \in Progress /\ request'.stage = "answered" /\ request'.status = s
      /\ request'.wrote = wrote /\ request'.shown = shown /\ request'.who = request.who
      /\ request'.portal = request.portal
  <2>1. s \in Nat /\ wrote \in SUBSET Resource /\ shown \in SUBSET Resource
    BY <1>3
  <2>2. PICK next : next = [request EXCEPT !.stage = "answered", !.status = s, !.wrote = wrote,
                                           !.shown = shown]
    OBVIOUS
  <2>3. /\ next \in Progress /\ next.stage = "answered" /\ next.status = s
        /\ next.wrote = wrote /\ next.shown = shown /\ next.who = request.who
        /\ next.portal = request.portal
    <3>1. request \in Progress
      BY <1>1
    <3> QED
      BY <3>1, <2>1, <2>2 DEF Progress
  <2> QED
    BY <1>6, <2>2, <2>3
<1>8. GateTypeOK' /\ Untold' /\ Identified' /\ Authorized'
  BY <1>1, <1>2, <1>7 DEF GateTypeOK, Untold, Identified, Authorized
<1>9. PortalConfined'
  <2> SUFFICES ASSUME ByToken
               PROVE  /\ \A r \in wrote : r[2] = asked.from.owner
                      /\ \A r \in shown : r[2] \in {asked.from.owner, Catalog}
                      /\ asked.from.genuine /\ asked.from.exp # 0
    BY <1>7 DEF PortalConfined, ByToken
  <2>1. request.portal /\ request.who = asked.from.owner /\ asked.from.genuine /\ asked.from.exp # 0
    BY <1>1 DEF Identified
  <2>2. PortalMay(route.action)
    BY <1>1, <2>1 DEF Allowed
  <2>3. CASE OfCatalog(asked.path)
    <3>1. writes = {} /\ route.call # "listApplications" /\ Owner = Catalog
      BY <1>1, <2>2, <2>3 DEF PortalMay, RouteFits, Owner, OfCatalog
    <3> QED
      BY <1>4, <1>5, <2>1, <3>1 DEF ShownBy
  <2>4. CASE ~OfCatalog(asked.path)
    <3>1. route.call # "listApplications" /\ Owner = asked.from.owner
      BY <1>1, <2>1, <2>2, <2>4 DEF PortalMay, RouteFits, Owner
    <3> QED
      BY <1>4, <1>5, <2>1, <3>1 DEF ShownBy
  <2> QED
    BY <2>3, <2>4
<1>10. ReadersOnlyRead'
  <2>1. panel.readonly => wrote = {}
    BY <1>1, <1>4 DEF RouteFits
  <2>2. ASSUME panel.roles, request.who \in Host, ~request.portal
        PROVE  /\ panel.frozen => wrote = {}
               /\ RolesOf[request.who] \subseteq {"viewer"} =>
                    wrote = {} /\ \A r \in shown : r[1] # "secret"
    <3>1. HostMay(route.action)
      BY <1>1, <2>2, AskedFields, GateAssumption DEF Identified, Allowed
    <3>2. panel.frozen => route.action \notin MutatingActions
      BY <2>2, <3>1 DEF HostMay
    <3>3. RolesOf[request.who] \subseteq {"viewer"} => route.action \in ReadActions
      BY <2>2, <3>1 DEF HostMay, RolePolicy
    <3>4. panel.frozen \/ RolesOf[request.who] \subseteq {"viewer"} => writes = {}
      BY <1>1, <3>2, <3>3 DEF RouteFits
    <3>5. RolesOf[request.who] \subseteq {"viewer"} => "secret" \notin shows
      BY <1>1, <3>3 DEF RouteFits
    <3>6. "secret" \notin shows => \A r \in shown : r[1] # "secret"
      BY <1>5 DEF ShownBy
    <3> QED
      BY <1>4, <3>4, <3>5, <3>6
  <2> QED
    BY <1>7, <2>1, <2>2 DEF ReadersOnlyRead
<1>11. AnswersAreDocumented'
  <2>1. (\E d \in OpenApi : d[1] = route.path /\ d[2] = route.method) =>
            Documented(route.path, route.method, s) \in OpenApi
    BY <1>1 DEF RouteFits
  <2>2. TheRoutes' # {}
    BY DEF TheRoutes
  <2> QED
    BY <1>1, <1>7, <2>1, <2>2 DEF AnswersAreDocumented
<1> QED
  BY <1>8, <1>9, <1>10, <1>11 DEF GateInv

\* Running the operation shows no more than the authorization allowed.
LEMMA GateOperates ==
    ASSUME GateInv, Operate
    PROVE  GateInv'
<1>1. request.stage = "ready" /\ Identified
  BY DEF Operate, GateInv
<1>2. ~(ByToken /\ (~asked.from.genuine \/ asked.from.exp = 0))
  BY <1>1 DEF Identified
<1>3. ASSUME NEW s \in Nat, s >= 300, Refuse(s) PROVE GateInv'
  BY <1>1, <1>2, <1>3, GateRefuses
<1>4. PICK route \in TheRoutes :
        \/ Refuse(403) \/ Refuse(404) \/ Refuse(409) \/ \E s \in Throws(route.call) : Refuse(s)
        \/ /\ ~(Guarded(route.call) /\ panel.readonly)
           /\ \E s \in Calls[route.call].status :
                Answer(s, {<<k, Owner>> : k \in Calls[route.call].writes}, ShownBy(route.call))
           /\ exists' = After(route.call, Calls[route.call].writes)
           /\ UNCHANGED <<panel, time, asked>>
  BY DEF Operate
<1>5. CASE Refuse(403) \/ Refuse(404) \/ Refuse(409)
  BY <1>3, <1>5
<1>6. CASE \E s \in Throws(route.call) : Refuse(s)
  <2>1. \A s \in Throws(route.call) : s \in Nat /\ s >= 300
    BY DEF Throws
  <2> QED
    BY <1>3, <1>6, <2>1
<1>7. CASE /\ ~(Guarded(route.call) /\ panel.readonly)
           /\ \E s \in Calls[route.call].status :
                Answer(s, {<<k, Owner>> : k \in Calls[route.call].writes}, ShownBy(route.call))
           /\ exists' = After(route.call, Calls[route.call].writes)
           /\ UNCHANGED <<panel, time, asked>>
  <2>1. PICK s \in Calls[route.call].status :
            Answer(s, {<<k, Owner>> : k \in Calls[route.call].writes}, ShownBy(route.call))
    BY <1>7
  <2>2. exists' = After(route.call, Calls[route.call].writes) /\ UNCHANGED <<panel, time, asked>>
    BY <1>7
  <2>3. ~(Guarded(route.call) /\ panel.readonly)
    BY <1>7
  <2> QED
    BY <1>1, <2>1, <2>2, <2>3, GateAnswers
<1> QED
  BY <1>4, <1>5, <1>6, <1>7

\* What an operation does with an id that leads elsewhere, on a storage that resolves keys.
LEMMA GateReachesAstray ==
    ASSUME GateInv, request.stage = "ready", Strays, ~panel.opaque, NEW route \in TheRoutes,
           ~(Guarded(route.call) /\ panel.readonly), NEW s \in Calls[route.call].status,
           Answer(s, Reaches(Calls[route.call].writes), Reaches(Calls[route.call].shows)),
           exists' \subseteq Resource, UNCHANGED <<panel, time, asked>>
    PROVE  GateInv'
<1> DEFINE writes == Calls[route.call].writes
<1>1. /\ route \in Routes /\ route.path = asked.path /\ route.method = asked.method /\ RouteFits(route)
      /\ GateTypeOK /\ request \in Progress /\ Identified /\ Allowed(route.action)
  BY RoutesFit DEF TheRoutes, Matches, GateInv, GateTypeOK, Authorized
<1>2. s \in {200, 201}
  BY <1>1 DEF RouteFits
<1>3. PICK wrote \in SUBSET Resource : wrote = Reaches(writes)
  BY DEF Reaches, Beyond
<1>4. PICK shown \in SUBSET Resource : shown = Reaches(Calls[route.call].shows)
  BY DEF Reaches, Beyond
<1>5. PICK next : next = [request EXCEPT !.stage = "answered", !.status = s, !.wrote = wrote,
                                         !.shown = shown]
  OBVIOUS
<1>6. request' = next
  BY <1>3, <1>4, <1>5 DEF Answer
<1>7. /\ next \in Progress /\ next.stage = "answered" /\ next.status = s /\ next.wrote = wrote
      /\ next.who = request.who /\ next.portal = request.portal
  <2>1. request \in Progress /\ s \in Nat
    BY <1>1, <1>2
  <2> QED
    BY <2>1, <1>5 DEF Progress
<1>8. GateTypeOK' /\ Untold' /\ Identified' /\ Authorized'
  BY <1>1, <1>6, <1>7 DEF GateTypeOK, Untold, Identified, Authorized
<1>9. PortalConfined'
  <2>1. ByToken => asked.from.genuine /\ asked.from.exp # 0
    BY <1>1 DEF Identified
  <2> QED
    BY <2>1 DEF PortalConfined, ByToken, Strays
<1>10. ReadersOnlyRead'
  <2>1. panel.readonly => wrote = {}
    BY <1>1, <1>3 DEF RouteFits, Reaches
  <2>2. ASSUME panel.roles, request.who \in Host, ~request.portal,
               panel.frozen \/ RolesOf[request.who] \subseteq {"viewer"}
        PROVE  wrote = {}
    <3>1. HostMay(route.action)
      BY <1>1, <2>2 DEF Allowed
    <3>2. route.action \notin MutatingActions \/ route.action \in ReadActions
      BY <2>2, <3>1 DEF HostMay, RolePolicy
    <3>3. writes = {}
      BY <1>1, <3>2 DEF RouteFits
    <3> QED
      BY <1>3, <3>3 DEF Reaches
  <2> QED
    BY <1>6, <1>7, <2>1, <2>2 DEF ReadersOnlyRead, Strays
<1>11. AnswersAreDocumented'
  <2>1. (\E d \in OpenApi : d[1] = route.path /\ d[2] = route.method) =>
            Documented(route.path, route.method, s) \in OpenApi
    BY <1>1 DEF RouteFits
  <2>2. TheRoutes' # {}
    BY DEF TheRoutes
  <2> QED
    BY <1>1, <1>6, <1>7, <2>1, <2>2 DEF AnswersAreDocumented
<1> QED
  BY <1>8, <1>9, <1>10, <1>11 DEF GateInv

\* An id that leads elsewhere gives nobody more than a storage that resolves keys gives away.
LEMMA GateOperatesAstray ==
    ASSUME GateInv, OperateAstray
    PROVE  GateInv'
<1>1. request.stage = "ready" /\ Strays /\ Identified /\ exists \subseteq Resource
  BY DEF OperateAstray, GateInv, GateTypeOK
<1>2. ~(ByToken /\ (~asked.from.genuine \/ asked.from.exp = 0))
  BY <1>1 DEF Identified
<1>3. ASSUME NEW s \in Nat, s >= 300, Refuse(s) PROVE GateInv'
  BY <1>1, <1>2, <1>3, GateRefuses
<1>4. PICK route \in TheRoutes :
        \/ Refuse(403) \/ Refuse(404) \/ Refuse(422) \/ \E s \in Throws(route.call) : Refuse(s)
        \/ /\ ~(Guarded(route.call) /\ panel.readonly) /\ ~panel.opaque
           /\ \E s \in Calls[route.call].status :
                Answer(s, Reaches(Calls[route.call].writes), Reaches(Calls[route.call].shows))
           /\ \/ UNCHANGED exists
              \/ \E r \in Reaches(Calls[route.call].writes) :
                    exists' \in {exists \cup {r}, exists \ {r}}
           /\ UNCHANGED <<panel, time, asked>>
  BY DEF OperateAstray
<1>5. CASE Refuse(403) \/ Refuse(404) \/ Refuse(422)
  BY <1>3, <1>5
<1>6. CASE \E s \in Throws(route.call) : Refuse(s)
  <2>1. \A s \in Throws(route.call) : s \in Nat /\ s >= 300
    BY DEF Throws
  <2> QED
    BY <1>3, <1>6, <2>1
<1>7. CASE /\ ~(Guarded(route.call) /\ panel.readonly) /\ ~panel.opaque
           /\ \E s \in Calls[route.call].status :
                Answer(s, Reaches(Calls[route.call].writes), Reaches(Calls[route.call].shows))
           /\ \/ UNCHANGED exists
              \/ \E r \in Reaches(Calls[route.call].writes) :
                    exists' \in {exists \cup {r}, exists \ {r}}
           /\ UNCHANGED <<panel, time, asked>>
  <2>1. PICK s \in Calls[route.call].status :
            Answer(s, Reaches(Calls[route.call].writes), Reaches(Calls[route.call].shows))
    BY <1>7
  <2>2. exists' \subseteq Resource
    <3>1. Reaches(Calls[route.call].writes) \subseteq Resource
      BY DEF Reaches, Beyond
    <3> QED
      BY <1>1, <1>7, <3>1
  <2>3. ~(Guarded(route.call) /\ panel.readonly) /\ ~panel.opaque /\ UNCHANGED <<panel, time, asked>>
    BY <1>7
  <2> QED
    BY <1>1, <2>1, <2>2, <2>3, GateReachesAstray
<1> QED
  BY <1>4, <1>5, <1>6, <1>7

\* Every step keeps the invariant.
LEMMA GateStep == GateInv /\ [GateNext]_gateVars => GateInv'
<1> SUFFICES ASSUME GateInv, [GateNext]_gateVars PROVE GateInv'
  OBVIOUS
<1>1. ASSUME UNCHANGED <<panel, asked, request>>, exists' \subseteq Resource, time' \in 0 .. MaxTime
      PROVE  GateInv'
  BY <1>1 DEF GateInv, GateTypeOK, Untold, Identified, Authorized, ByToken, Allowed, PortalMay, HostMay,
     TheRoutes, PortalConfined, ReadersOnlyRead, AnswersAreDocumented, Done, Strays
<1>2. exists \subseteq Resource /\ time \in 0 .. MaxTime
  BY DEF GateInv, GateTypeOK
<1>3. CASE Embedder
  <2>1. <<"event-type", Catalog>> \in Resource
    BY DEF Resource
  <2>2. \A a \in App : /\ <<"application", a>> \in Resource
                       /\ {<<k, a>> : k \in {"endpoint", "message", "delivery"}} \subseteq Resource
    BY DEF Resource, OwnKinds, Kinds
  <2>3. exists' \subseteq Resource
    <3>1. CASE exists' = exists \cup {<<"event-type", Catalog>>}
      BY <1>2, <2>1, <3>1
    <3>2. ASSUME NEW a \in App,
                 \/ exists' = exists \cup {<<"application", a>>}
                 \/ exists' = {r \in exists : r[2] # a}
                 \/ exists' = exists \cup {<<k, a>> : k \in {"endpoint", "message", "delivery"}}
          PROVE  exists' \subseteq Resource
      <4>1. CASE exists' = exists \cup {<<"application", a>>}
        BY <1>2, <2>2, <4>1
      <4>2. CASE exists' = {r \in exists : r[2] # a}
        BY <1>2, <4>2
      <4>3. CASE exists' = exists \cup {<<k, a>> : k \in {"endpoint", "message", "delivery"}}
        <5>1. {<<k, a>> : k \in {"endpoint", "message", "delivery"}} \subseteq Resource
          BY <2>2
        <5>2. PICK new \in SUBSET Resource :
                new = {<<k, a>> : k \in {"endpoint", "message", "delivery"}}
          BY <5>1
        <5>3. exists' = exists \cup new
          BY <4>3, <5>2
        <5> QED
          BY <1>2, <5>3
      <4> QED
        BY <3>2, <4>1, <4>2, <4>3
    <3> QED
      BY <1>3, <3>1, <3>2 DEF Embedder
  <2> QED
    BY <1>1, <1>2, <1>3, <2>3 DEF Embedder
<1>4. CASE Tick
  BY <1>1, <1>2, <1>4, GateAssumption DEF Tick
<1>5. CASE UNCHANGED gateVars
  BY <1>1, <1>2, <1>5 DEF gateVars
<1> QED
  BY <1>3, <1>4, <1>5, GateArrives, GateAuthenticates, GateBootstraps, GateParses, GateAuthorizes,
     GateOperates, GateOperatesAstray DEF GateNext

\* The invariant holds from the start.
LEMMA GateHolds == GateSpec => []GateInv
BY GateStarts, GateStep, PTL DEF GateSpec

\* A request with a portal token stays within its application, for any applications, grants, host
\* principals and tokens, on every storage that takes a key as one name, and on the others as long as
\* its id does not lead out of the application: the token is verified before a principal is made,
\* the principal compared with the application of the path before the grant counts, and every
\* operation behind a route reaches only keys under what the path names (src/server/routes.ts,
\* src/portal.ts, src/keys.ts).  What a token that is forged or run out opens depends on no storage.
THEOREM PortalStaysInside == GateSpec => []PortalConfined
<1>1. GateInv => PortalConfined
  BY DEF GateInv
<1> QED
  BY <1>1, GateHolds, PTL

\* Who may only read changes nothing and is shown no secret, for any roles and any grants: a route
\* whose operation changes something or shows a secret names an action that neither a viewer nor a
\* frozen authorizer lets through, and a read-only core refuses the operation.
THEOREM ReadersChangeNothing == GateSpec => []ReadersOnlyRead
<1>1. GateInv => ReadersOnlyRead
  BY DEF GateInv
<1> QED
  BY <1>1, GateHolds, PTL

\* The OpenAPI document tells the truth about every operation it names, for any panel and sender.
THEOREM DocumentIsTrue == GateSpec => []AnswersAreDocumented
<1>1. GateInv => AnswersAreDocumented
  BY DEF GateInv
<1> QED
  BY <1>1, GateHolds, PTL

------------------------------------------------------------------------------
(* The forms of the admin UI *)

\* A form is open exactly on an item that is shown, and says whose it is.
DraftOfShown ==
    /\ Shown = None => draft = None
    /\ Shown # None => draft = [of |-> Shown, value |-> draft.value]

\* The registered blocker is the answer of the render on screen.
BlockerIsFresh == blocker = (Shown # None /\ draft.value # cache[Shown])

FormInv == DraftOfShown /\ BlockerIsFresh /\ EditsNeedConsent /\ SaveIsOwn

\* What the discarding of a form's state comes to: a form for another item begins as that item's.
LEMMA RenderKeeps ==
    ASSUME NEW p, NEW c, NEW d, NEW k, Render(p, c, d, k), UNCHANGED mode,
           Shown # None => d = [of |-> Shown, value |-> d.value]
    PROVE  DraftOfShown' /\ BlockerIsFresh'
<1> DEFINE next == Selected(p, c)
<1>1. PICK now : now = next
  OBVIOUS
<1>2. Shown' = now
  <2>1. place' = p /\ cache' = c
    BY DEF Render
  <2> QED
    BY <1>1, <2>1 DEF Shown, Selected, appKey
<1>3. Resets(Shown, now) <=> now # Shown
  BY DEF Resets, ResetsEndpoint, ResetsType
<1>4. PICK e : e = (IF now = None THEN None ELSE IF Resets(Shown, now) THEN Fresh(now, c) ELSE d)
  OBVIOUS
<1>5. /\ cache' = c /\ draft' = e /\ blocker' = (now # None /\ e.value # c[now])
  BY <1>1, <1>4 DEF Render, Registered
<1>6. now = None => e = None
  BY <1>4
<1>7. now # None => e = [of |-> now, value |-> e.value]
  BY <1>3, <1>4 DEF Fresh
<1> QED
  BY <1>2, <1>5, <1>6, <1>7 DEF DraftOfShown, BlockerIsFresh

\* Edits that the blocker does not know of are none.
LEMMA BlockerKnows == FormInv => (Dirty => blocker)
BY DEF FormInv, DraftOfShown, BlockerIsFresh, Dirty

\* A navigation of the panel's own.
LEMMA NavigateKeeps ==
    ASSUME FormInv, NEW p, NEW ok, NEW k, Navigate(p, ok, k), UNCHANGED mode
    PROVE  DraftOfShown' /\ BlockerIsFresh' /\ EditsNeedConsent'
<1>1. CASE canLeave(ok)
  <2>1. Render(p, cache, draft, k) /\ lost' = (lost \/ (Dirty /\ ~blocker /\ Selected(p, cache) # Shown))
    BY <1>1 DEF Navigate
  <2>2. ~lost'
    BY <2>1, BlockerKnows DEF FormInv, EditsNeedConsent
  <2>3. Shown # None => draft = [of |-> Shown, value |-> draft.value]
    BY DEF FormInv, DraftOfShown
  <2>4. DraftOfShown' /\ BlockerIsFresh'
    BY <2>1, <2>3, RenderKeeps
  <2> QED
    BY <2>2, <2>4 DEF EditsNeedConsent
<1>2. CASE ~canLeave(ok)
  BY <1>2 DEF Navigate, FormInv, DraftOfShown, BlockerIsFresh, EditsNeedConsent, Shown, Selected, appKey
<1> QED
  BY <1>1, <1>2

\* A step that leaves the editor as it is, but for the dialog and the requests.
LEMMA EditorStays ==
    ASSUME FormInv, UNCHANGED <<mode, place, cache, draft, blocker, lost>>,
           \A r \in requests' : r \in requests \/ (r.op = "save" => r.form.of = r.item)
    PROVE  FormInv'
BY DEF FormInv, DraftOfShown, BlockerIsFresh, EditsNeedConsent, SaveIsOwn, Shown, Selected, appKey

\* A step of the panel's own that may navigate, and sends nothing.
LEMMA PanelGoes ==
    ASSUME FormInv, NEW p, NEW ok, NEW k, Navigate(p, ok, k), UNCHANGED mode,
           requests' \subseteq requests
    PROVE  FormInv'
BY NavigateKeeps DEF FormInv, SaveIsOwn

\* A step that renders what is shown again and asks nothing.
LEMMA PanelRenders ==
    ASSUME FormInv, NEW p, NEW c, NEW d, NEW k, Render(p, c, d, k), UNCHANGED <<mode, lost, requests>>,
           Shown # None => d = [of |-> Shown, value |-> d.value]
    PROVE  FormInv'
<1>1. DraftOfShown' /\ BlockerIsFresh'
  BY RenderKeeps
<1> QED
  BY <1>1 DEF FormInv, EditsNeedConsent, SaveIsOwn

\* A click that navigates.
LEMMA GoKeeps ==
    ASSUME FormInv, NEW page, NEW id, NEW ok, go(page, id, ok)
    PROVE  FormInv'
<1>1. PICK p : p = [place EXCEPT !.page = page, !.id = id]
  OBVIOUS
<1>2. Navigate(p, ok, confirm) /\ UNCHANGED <<mode, requests>>
  BY <1>1 DEF go
<1> QED
  BY <1>2, PanelGoes

\* A mutation leaves for the server.
LEMMA RequestKeeps ==
    ASSUME FormInv, NEW op, NEW item, NEW form, Request(op, item, form),
           op = "save" => form.of = item
    PROVE  FormInv'
<1>1. PICK r : r = [op |-> op, item |-> item, form |-> form, app |-> place.app]
  OBVIOUS
<1>2. requests' = requests \cup {r} /\ (r.op = "save" => r.form.of = r.item)
  BY <1>1 DEF Request
<1>3. UNCHANGED <<mode, place, cache, draft, blocker, lost>>
  BY DEF Request
<1> QED
  BY <1>2, <1>3, EditorStays

\* The form shown is the shown item's own.
LEMMA OwnForm == FormInv /\ Shown # None => draft = [of |-> Shown, value |-> draft.value] /\ draft.of = Shown
BY DEF FormInv, DraftOfShown

\* Every step of the tab, the server and the others.
LEMMA FormStep == FormInv /\ [ConsoleNext]_consoleVars => FormInv'
<1> SUFFICES ASSUME FormInv, [ConsoleNext]_consoleVars PROVE FormInv'
  OBVIOUS
<1>1. ASSUME NEW page, NEW ok, OpenTab(page, ok) PROVE FormInv'
  BY <1>1, GoKeeps DEF OpenTab
<1>2. ASSUME NEW ok, Back(ok) PROVE FormInv'
  BY <1>2, GoKeeps DEF Back
<1>3. ASSUME NEW e, NEW ok, OpenEndpoint(e, ok) \/ OpenType(e, ok) PROVE FormInv'
  BY <1>3, GoKeeps DEF OpenEndpoint, OpenType
<1>4. ASSUME NEW n, NEW ok, OpenDelivery(n, ok) \/ OpenMessage(n, ok) \/ OpenRecent(n, ok) \/ OpenFailure(n, ok)
      PROVE  FormInv'
  BY <1>4, GoKeeps DEF OpenDelivery, OpenMessage, OpenRecent, OpenFailure
<1>5. ASSUME NEW ok, OpenOfMessage(ok) \/ OpenOfDelivery(ok) PROVE FormInv'
  BY <1>5, GoKeeps DEF OpenOfMessage, OpenOfDelivery
<1>6. ASSUME NEW a, NEW ok, setAppKey(a, ok) PROVE FormInv'
  <2>1. PICK p : p = [place EXCEPT !.app = a]
    OBVIOUS
  <2>2. Navigate(p, ok, confirm) /\ UNCHANGED <<mode, requests>>
    BY <1>6, <2>1 DEF setAppKey
  <2> QED
    BY <2>2, PanelGoes
<1>7. ASSUME NEW p, Browse(p) PROVE FormInv'
  <2>1. Render(p, cache, draft, confirm) /\ UNCHANGED <<mode, lost, requests>>
    BY <1>7 DEF Browse
  <2> QED
    BY <2>1, OwnForm, PanelRenders
<1>8. ASSUME NEW i, NEW v, EditEndpoint(i, v) \/ EditType(i, v) PROVE FormInv'
  <2>1. PICK d : d = [draft EXCEPT !.value = v]
    OBVIOUS
  <2>2. Render(place, cache, d, confirm) /\ UNCHANGED <<mode, lost, requests>> /\ Shown # None
    BY <1>8, <2>1 DEF EditEndpoint, EditType, Edit, Editable
  <2>3. d = [of |-> Shown, value |-> d.value]
    BY <2>1, <2>2, OwnForm
  <2> QED
    BY <2>2, <2>3, PanelRenders
<1>9. CASE Revert
  <2>1. PICK d : d = Fresh(Shown, cache)
    OBVIOUS
  <2>2. Render(place, cache, d, confirm) /\ UNCHANGED <<mode, lost, requests>>
    BY <1>9, <2>1 DEF Revert
  <2>3. d = [of |-> Shown, value |-> d.value]
    BY <2>1 DEF Fresh
  <2> QED
    BY <2>2, <2>3, PanelRenders
<1>10. CASE SaveEndpoint \/ SaveType
  <2>1. Request("save", Shown, draft) /\ Shown # None
    BY <1>10 DEF SaveEndpoint, SaveType, Editable
  <2> QED
    BY <2>1, OwnForm, RequestKeeps
<1>11. ASSUME CommandEndpoint \/ DeleteEndpoint \/ DeleteType \/ \E i : CreateEndpoint(i) \/ CreateType(i) \/ CreateApplication(i)
       PROVE  FormInv'
  <2>1. PICK op, i : op \in {"command", "delete", "create"} /\ Request(op, i, None)
    BY <1>11 DEF CommandEndpoint, DeleteEndpoint, DeleteType, CreateEndpoint, CreateType, CreateApplication
  <2> QED
    BY <2>1, RequestKeeps
<1>12. ASSUME NEW i, NEW k, ConfirmEndpoint(i, k) \/ ConfirmType(i, k) PROVE FormInv'
  BY <1>12, EditorStays DEF ConfirmEndpoint, ConfirmType, Confirms
<1>13. ASSUME NEW r, NEW p, NEW ok, Answered(r, p, ok) PROVE FormInv'
  <2>1. PICK k : Navigate(p, ok, k)
    BY <1>13 DEF Answered
  <2>2. requests' \subseteq requests /\ UNCHANGED mode
    BY <1>13 DEF Answered
  <2> QED
    BY <2>1, <2>2, PanelGoes
<1>14. ASSUME NEW r, Fails(r) PROVE FormInv'
  BY <1>14, EditorStays DEF Fails
<1>15. ASSUME NEW items, Refetch(items) PROVE FormInv'
  <2>1. PICK c : c = [i \in Items |-> IF i \in items THEN store[i] ELSE cache[i]]
    OBVIOUS
  <2>2. Render(place, c, draft, confirm) /\ UNCHANGED <<mode, lost, requests>>
    BY <1>15, <2>1 DEF Refetch
  <2> QED
    BY <2>2, OwnForm, PanelRenders
<1>16. ASSUME NEW i, NEW v, Another(i, v) PROVE FormInv'
  BY <1>16, EditorStays DEF Another
<1>17. CASE UNCHANGED editorVars
  BY <1>17, EditorStays DEF editorVars
<1>18. ASSUME \/ RefetchPages \/ LoadMore \/ PageArrives \/ retryDelivery \/ Publishes
              \/ (\E s : setStatus(s)) \/ (\E n, s : Moves(n, s)) \/ UNCHANGED consoleVars
       PROVE  UNCHANGED editorVars
  BY <1>18 DEF RefetchPages, LoadMore, PageArrives, retryDelivery, Publishes, setStatus, Moves, consoleVars
<1> QED
  BY <1>1, <1>2, <1>3, <1>4, <1>5, <1>6, <1>7, <1>8, <1>9, <1>10, <1>11, <1>12, <1>13, <1>14, <1>15, <1>16,
     <1>17, <1>18 DEF ConsoleNext

\* A tab begins with no form and nothing sent.
LEMMA FormInit == ConsoleInit => FormInv
<1> SUFFICES ASSUME ConsoleInit PROVE FormInv
  OBVIOUS
<1>1. Shown = None
  BY DEF ConsoleInit, Shown, Selected
<1> QED
  BY <1>1 DEF ConsoleInit, FormInv, DraftOfShown, BlockerIsFresh, EditsNeedConsent, SaveIsOwn

(***************************************************************************)
(* The panel's own navigation never drops edits the user was not asked     *)
(* about: whenever there are any, the blocker that is registered knows of  *)
(* them, whatever was refetched, answered or browsed in between.           *)
(***************************************************************************)
THEOREM EditsAreNotDropped == ConsoleSpec => []EditsNeedConsent
<1>1. FormInv => EditsNeedConsent
  BY DEF FormInv
<1> QED
  BY <1>1, FormInit, FormStep, PTL DEF ConsoleSpec

(***************************************************************************)
(* A save carries the form of the item it saves, for any applications,     *)
(* endpoints, event types and values.                                      *)
(***************************************************************************)
THEOREM SavesAreOwn == ConsoleSpec => []SaveIsOwn
<1>1. FormInv => SaveIsOwn
  BY DEF FormInv
<1> QED
  BY <1>1, FormInit, FormStep, PTL DEF ConsoleSpec

------------------------------------------------------------------------------
(* The lists of the admin UI *)

\* A list of pages of records, newest first.
IsListing(ps) == ps \in Seq(Seq(Nat)) /\ Descends(ps)

\* A fetch goes on after the last of the pages it has, if it has any.
ListInv ==
    /\ records \in Seq({"pending", "failed", Gone})
    /\ IsListing(pages)
    /\ fetch # None =>
        /\ IsListing(fetch.got)
        /\ fetch.got = <<>> \/ NextParam(fetch.got) # None

\* No page at all is a listing, with nothing to go on from.
LEMMA NoPages == IsListing(<<>>) /\ NextParam(<<>>) = None
BY DEF IsListing, Descends, NextParam

\* A page names records, newest first, and only such as follow its cursor.
LEMMA PageFollows ==
    ASSUME NEW listed \in SUBSET (1 .. Len(records)), Len(records) \in Nat, NEW before,
           NEW page \in NewestFirst(paginate(listed, before))
    PROVE  /\ page \in Seq(Nat)
           /\ \A i, j \in DOMAIN page : i < j => page[i] > page[j]
           /\ before # None => \A i \in DOMAIN page : page[i] < before
<1>1. PICK S : S = paginate(listed, before)
  OBVIOUS
<1>2. S \subseteq listed /\ (before # None => \A n \in S : n < before)
  BY <1>1 DEF paginate, FirstPage
<1>3. IsFiniteSet(S)
  <2>1. IsFiniteSet(1 .. Len(records))
    BY FS_Interval
  <2> QED
    BY <1>2, <2>1, FS_Subset
<1>4. PICK k \in Nat : k = Cardinality(S)
  BY <1>3, FS_CardinalityType
<1>5. page \in [1 .. k -> S] /\ \A i, j \in DOMAIN page : i < j => page[i] > page[j]
  BY <1>1, <1>4 DEF NewestFirst, SetToSeqs
<1>6. S \subseteq Nat
  BY <1>2
<1>7. page \in Seq(Nat)
  <2>1. page \in [1 .. k -> Nat]
    BY <1>5, <1>6
  <2> QED
    BY <2>1
<1> QED
  BY <1>2, <1>5, <1>7

\* A listing with the page after its last record is a listing.
LEMMA PageExtends ==
    ASSUME NEW got, IsListing(got), got = <<>> \/ NextParam(got) # None,
           NEW page \in Seq(Nat), \A i, j \in DOMAIN page : i < j => page[i] > page[j],
           NextParam(got) # None => \A i \in DOMAIN page : page[i] < NextParam(got)
    PROVE  IsListing(Append(got, page))
<1>1. got \in Seq(Seq(Nat)) /\ Descends(got)
  BY DEF IsListing
<1>2. PICK next : next = Append(got, page)
  OBVIOUS
<1>3. PICK k \in Nat : k = Len(got) /\ DOMAIN got = 1 .. k
  BY <1>1
<1>4. /\ next \in Seq(Seq(Nat)) /\ DOMAIN next = 1 .. (k + 1)
      /\ \A i \in 1 .. k : next[i] = got[i]
      /\ next[k + 1] = page
  BY <1>1, <1>2, <1>3
<1>5. ASSUME NEW i \in 1 .. k, NEW m \in DOMAIN got[i], NEW n \in DOMAIN page
      PROVE  got[i][m] > page[n]
  <2>1. got # <<>> /\ NextParam(got) # None
    BY <1>3
  <2>2. NextParam(got) = Last(Last(got)) /\ Len(Last(got)) = PageSize
    BY <2>1 DEF NextParam
  <2>3. PICK final \in Seq(Nat) : final = got[k] /\ Last(got) = final /\ k \in 1 .. k
    <3>1. k \in 1 .. k
      BY <1>3
    <3>2. got[k] \in Seq(Nat) /\ Last(got) = got[k]
      BY <1>1, <1>3, <3>1 DEF Last
    <3> QED
      BY <3>1, <3>2
  <2>4. Last(final) = final[PageSize] /\ PageSize \in DOMAIN final /\ DOMAIN final = 1 .. PageSize
    BY <2>2, <2>3, ConsoleAssumption DEF Last
  <2>5. page[n] < final[PageSize]
    BY <2>1, <2>2, <2>3, <2>4
  <2>6. got[i] \in Seq(Nat)
    BY <1>1, <1>3
  <2>7. got[i][m] \in Nat /\ page[n] \in Nat /\ final[PageSize] \in Nat
    <3>1. PICK g \in Seq(Nat) : g = got[i]
      BY <2>6
    <3>2. g[m] \in Nat
      BY <3>1
    <3>3. g[m] = got[i][m]
      BY <3>1
    <3>4. page[n] \in Nat
      OBVIOUS
    <3>5. final[PageSize] \in Nat
      BY <2>4
    <3> QED
      BY <3>2, <3>3, <3>4, <3>5
  <2>8. CASE i < k
    <3>1. got[i][m] > final[PageSize]
      BY <1>1, <1>3, <2>3, <2>4, <2>8 DEF Descends
    <3> QED
      BY <2>5, <2>7, <3>1
  <2>9. CASE i = k
    <3>1. m = PageSize \/ got[i][m] > final[PageSize]
      <4>1. m \in 1 .. PageSize
        BY <2>3, <2>4, <2>9
      <4>2. m < PageSize => got[i][m] > final[PageSize]
        BY <1>1, <1>3, <2>3, <2>4, <2>9 DEF Descends
      <4> QED
        BY <4>1, <4>2, ConsoleAssumption
    <3> QED
      BY <2>3, <2>5, <2>7, <2>9, <3>1
  <2> QED
    BY <2>8, <2>9
<1>6. Descends(next)
  <2> SUFFICES ASSUME NEW i \in 1 .. (k + 1), NEW j \in 1 .. (k + 1),
                      NEW m \in DOMAIN next[i], NEW n \in DOMAIN next[j],
                      i < j \/ (i = j /\ m < n)
               PROVE  next[i][m] > next[j][n]
    BY <1>4 DEF Descends
  <2>1. CASE j \in 1 .. k
    <3>1. i \in 1 .. k
      BY <2>1
    <3> QED
      BY <1>1, <1>3, <1>4, <2>1, <3>1 DEF Descends
  <2>2. CASE j = k + 1 /\ i \in 1 .. k
    BY <1>4, <1>5, <2>2
  <2>3. CASE j = k + 1 /\ i = k + 1
    BY <1>4, <2>3
  <2> QED
    BY <2>1, <2>2, <2>3
<1> QED
  BY <1>2, <1>4, <1>6 DEF IsListing

\* A step that leaves the records and shows the same list or none.
LEMMA ListStays ==
    ASSUME ListInv, UNCHANGED records, UNCHANGED <<pages, fetch>> \/ (pages' = <<>> /\ fetch' = None)
    PROVE  ListInv'
<1>1. CASE UNCHANGED <<pages, fetch>>
  BY <1>1 DEF ListInv, IsListing, NextParam
<1>2. CASE pages' = <<>> /\ fetch' = None
  BY <1>2, NoPages DEF ListInv
<1> QED
  BY <1>1, <1>2

\* A page arrives.
LEMMA PageKeeps ==
    ASSUME ListInv, PageArrives
    PROVE  ListInv'
<1>1. PICK before, listed : before = NextParam(fetch.got) /\ listed = Listing(place.page, status)
  OBVIOUS
<1>2. PICK page \in NewestFirst(paginate(listed, before)) :
        IF fetch.left > 1 /\ NextParam(Append(fetch.got, page)) # None
        THEN fetch' = [left |-> fetch.left - 1, got |-> Append(fetch.got, page)] /\ UNCHANGED pages
        ELSE fetch' = None /\ pages' = Append(fetch.got, page)
  BY <1>1 DEF PageArrives
<1>3. PICK got : got = fetch.got
  OBVIOUS
<1>4. IsListing(got) /\ (got = <<>> \/ before # None) /\ IsListing(pages) /\ records' = records
      /\ records \in Seq({"pending", "failed", Gone})
  BY <1>1, <1>3 DEF ListInv, PageArrives
<1>5. Len(records) \in Nat /\ listed \in SUBSET (1 .. Len(records))
  BY <1>1, <1>4 DEF Listing
<1>6. PICK next : next = Append(got, page)
  OBVIOUS
<1>7. IsListing(next)
  BY <1>1, <1>2, <1>3, <1>4, <1>5, <1>6, PageFollows, PageExtends
<1>8. CASE fetch.left > 1 /\ NextParam(next) # None
  <2>1. fetch' = [left |-> fetch.left - 1, got |-> next] /\ pages' = pages
    BY <1>2, <1>3, <1>6, <1>8
  <2>2. fetch'.got = next
    BY <2>1
  <2>3. IsListing(fetch'.got) /\ NextParam(fetch'.got) # None
    BY <1>7, <1>8, <2>2
  <2> QED
    BY <1>4, <2>1, <2>3 DEF ListInv
<1>9. CASE ~(fetch.left > 1 /\ NextParam(next) # None)
  <2>1. fetch' = None /\ pages' = next
    BY <1>2, <1>3, <1>6, <1>9
  <2> QED
    BY <1>4, <1>7, <2>1 DEF ListInv
<1> QED
  BY <1>8, <1>9

\* A fetch begins with the pages on screen, or with none.
LEMMA FetchKeeps ==
    ASSUME ListInv, RefetchPages \/ LoadMore
    PROVE  ListInv'
<1>1. UNCHANGED <<records, pages>>
  BY DEF RefetchPages, LoadMore
<1>2. CASE RefetchPages
  <2>1. fetch'.got = <<>>
    BY <1>2 DEF RefetchPages
  <2> QED
    BY <1>1, <2>1, NoPages DEF ListInv
<1>3. CASE LoadMore
  <2>1. fetch'.got = pages /\ NextParam(pages) # None
    BY <1>3 DEF LoadMore
  <2> QED
    BY <1>1, <2>1 DEF ListInv
<1> QED
  BY <1>2, <1>3

\* A record is published or changes.
LEMMA RecordKeeps ==
    ASSUME ListInv, UNCHANGED <<pages, fetch>>, records' \in Seq({"pending", "failed", Gone})
    PROVE  ListInv'
BY DEF ListInv, IsListing, NextParam

\* Every step keeps the lists in order.
LEMMA ListStep == ListInv /\ [ConsoleNext]_consoleVars => ListInv'
<1> SUFFICES ASSUME ListInv, [ConsoleNext]_consoleVars PROVE ListInv'
  OBVIOUS
<1> DEFINE Stays == UNCHANGED records /\ (UNCHANGED <<pages, fetch>> \/ (pages' = <<>> /\ fetch' = None))
<1>1. ASSUME NEW page, NEW id, NEW ok, go(page, id, ok) PROVE Stays
  BY <1>1 DEF go, ListAfter, Unlisted
<1>2. ASSUME NEW n, NEW ok,
             \/ (\E page : OpenTab(page, ok)) \/ Back(ok) \/ OpenEndpoint(n, ok) \/ OpenType(n, ok)
             \/ OpenDelivery(n, ok) \/ OpenMessage(n, ok) \/ OpenRecent(n, ok) \/ OpenFailure(n, ok)
             \/ OpenOfMessage(ok) \/ OpenOfDelivery(ok)
      PROVE  Stays
  <2>1. \E page, id : go(page, id, ok)
    BY <1>2 DEF OpenTab, Back, OpenEndpoint, OpenType, OpenDelivery, OpenMessage, OpenRecent, OpenFailure,
       OpenOfMessage, OpenOfDelivery
  <2> QED
    BY <1>1, <2>1
<1>3. ASSUME NEW a, NEW ok, setAppKey(a, ok) PROVE Stays
  BY <1>3 DEF setAppKey, ListAfter, Unlisted
<1>4. ASSUME NEW p, Browse(p) PROVE Stays
  BY <1>4 DEF Browse, ListAfter, Unlisted
<1>5. ASSUME NEW i, NEW v, EditEndpoint(i, v) \/ EditType(i, v) \/ ConfirmEndpoint(i, v) \/ ConfirmType(i, v)
                            \/ Another(i, v)
      PROVE  Stays
  BY <1>5 DEF EditEndpoint, EditType, Edit, ConfirmEndpoint, ConfirmType, Confirms, Another, Unlogged
<1>6. ASSUME NEW i, \/ Revert \/ SaveEndpoint \/ SaveType \/ CommandEndpoint \/ DeleteEndpoint \/ DeleteType
                    \/ CreateEndpoint(i) \/ CreateType(i) \/ CreateApplication(i) \/ Fails(i) \/ Refetch(i)
      PROVE  Stays
  BY <1>6 DEF Revert, SaveEndpoint, SaveType, CommandEndpoint, DeleteEndpoint, DeleteType, CreateEndpoint,
     CreateType, CreateApplication, Fails, Refetch, Request, Unlogged
<1>7. ASSUME NEW r, NEW p, NEW ok, Answered(r, p, ok) PROVE Stays
  BY <1>7 DEF Answered, ListAfter, Unlisted
<1>8. ASSUME NEW s, setStatus(s) PROVE Stays
  BY <1>8 DEF setStatus
<1>9. CASE UNCHANGED consoleVars
  BY <1>9, ListStays DEF consoleVars, logVars
<1>10. ASSUME retryDelivery \/ Publishes \/ \E n \in DOMAIN records, s \in {"failed", Gone} : Moves(n, s)
       PROVE  ListInv'
  <2>1. UNCHANGED <<pages, fetch>>
    BY <1>10 DEF retryDelivery, Publishes, Moves
  <2>2. records \in Seq({"pending", "failed", Gone})
    BY DEF ListInv
  <2>3. \/ records' = Append(records, "pending")
        \/ \E n \in DOMAIN records, s \in {"pending", "failed", Gone} : records' = [records EXCEPT ![n] = s]
    BY <1>10 DEF retryDelivery, Publishes, Moves
  <2>4. records' \in Seq({"pending", "failed", Gone})
    BY <2>2, <2>3
  <2> QED
    BY <2>1, <2>4, RecordKeeps
<1>11. ASSUME Stays PROVE ListInv'
  BY <1>11, ListStays
<1> HIDE DEF Stays
<1> QED
  BY <1>2, <1>3, <1>4, <1>5, <1>6, <1>7, <1>8, <1>9, <1>10, <1>11, PageKeeps, FetchKeeps DEF ConsoleNext

\* A tab begins with no list.
LEMMA ListInit == ConsoleInit => ListInv
<1> SUFFICES ASSUME ConsoleInit PROVE ListInv
  OBVIOUS
<1>1. records \in Seq({"pending", "failed", Gone})
  BY ConsoleAssumption DEF ConsoleInit
<1> QED
  BY <1>1, NoPages DEF ConsoleInit, ListInv

(***************************************************************************)
(* Every list shows a record at most once and newest first, for any page   *)
(* size, whatever is published, retried, filtered away or pruned between   *)
(* its pages: each page follows the cursor of the one before it, and a     *)
(* cursor that is gone ends the list.                                      *)
(***************************************************************************)
THEOREM ListsAreInOrder == ConsoleSpec => []NewestFirstOnce
<1>1. ListInv => NewestFirstOnce
  BY DEF ListInv, IsListing, NewestFirstOnce
<1> QED
  BY <1>1, ListInit, ListStep, PTL DEF ConsoleSpec

===============================================================================
