----------------------------- MODULE ClaimProofs -----------------------------
(***************************************************************************)
(* Theorems about KvQueue and RedisQueue, the queues on storages without a *)
(* native one, whose claims take several calls, for every number of        *)
(* deliveries, dispatchers and callers.  What a worker and a control-plane *)
(* call do is the same as on a native queue, and so are the lemmas about   *)
(* their steps.  KvQueue comes first, RedisQueue after it.                 *)
(***************************************************************************)
EXTENDS KvQueue, RedisQueue, DeliveryQueueProofs, FunctionTheorems

------------------------------------------------------------------------------
(* The lease keeps a claim exclusive although the scan reads the record, swaps  *)
(* it and moves its due entry in steps of their own: what counts is the record, *)
(* and not, as on a native queue, the entry by which it was found.              *)

\* p has won the record of d and has not started its workers yet.
ScanOwns(p, d) ==
    \/ d \in scan[p].claimed
    \/ scan[p].pc \in {"scan_unindex", "scan_index"} /\ Visited(p) = d

KvOwns(p, d) == pc[p][d] \in BeforeWrite \/ ScanOwns(p, d)

AnyScan == [pc: ScanPc, now: Nat, todo: SUBSET (Nat \X Delivery),
            key: (Nat \X Delivery) \cup {NoScan.key}, seen: Record, claimed: SUBSET Delivery]

\* A scan is over before the clock moves on, and before its dispatcher works on a claim.
ScanShape(p) ==
    /\ scan[p].pc = "off" => scan[p] = NoScan
    /\ scan[p].pc # "off" =>
        /\ scan[p].now = clock
        /\ scan[p].key \in Nat \X Delivery /\ scan[p].key[1] <= clock
        /\ \A k \in scan[p].todo : k[1] <= clock
        /\ Cardinality(scan[p].claimed) < BatchSize
        /\ \A d \in Delivery : pc[p][d] = "idle"
    /\ scan[p].pc = "scan_claim" => KvClaimable(scan[p].seen, clock)

ScanInv == scan \in [Dispatcher -> AnyScan] /\ \A p \in Dispatcher : ScanShape(p)

\* What a scan has won is as it wrote it, until a worker takes it up.
ScanLeased(d) ==
    \A p \in Dispatcher : ScanOwns(p, d) =>
        rec[d] = snap[p][d] /\ rec[d].status = "delivering" /\ rec[d].leaseUntil = clock + leaseMs

KvOwnedOnce(d) ==
    \A p, q \in Dispatcher : KvOwns(p, d) /\ KvOwns(q, d) => p = q

ReadsApart(d) ==
    /\ ReadsHold(d)
    /\ \A c, o \in Caller : call[c][d].pc = "publish" /\ call[o][d].pc = "publish" => c = o

KvSound(d) ==
    /\ Leased(d)
    /\ ScanLeased(d)
    /\ KvOwnedOnce(d)
    /\ ReadsApart(d)
    /\ OnTime(d)
    /\ Planned(d)
    /\ rec[d].status = "absent" => rec[d].attemptCount = 0

ExclInv == TypeInv /\ ScanInv /\ WavesInTime /\ \A d \in Delivery : KvSound(d)

LEMMA NoScanOwnsNothing ==
    ASSUME ScanInv, NEW p \in Dispatcher, NEW d \in Delivery, pc[p][d] # "idle" \/ scan[p].pc = "off"
    PROVE  scan[p] = NoScan /\ ~ScanOwns(p, d)
BY DEF ScanInv, ScanShape, ScanOwns, NoScan

LEMMA ExclInit == KvInit => ExclInv
<1> SUFFICES ASSUME KvInit PROVE ExclInv
  OBVIOUS
<1>0. Init /\ scan = [p \in Dispatcher |-> NoScan]
  BY DEF KvInit
<1>1. TypeInv
  BY <1>0, TypeInit
<1>2. NoScan \in AnyScan
  BY AbsentRecordType DEF NoScan, AnyScan, ScanPc
<1>3. ScanInv
  BY <1>0, <1>2 DEF ScanInv, ScanShape, NoScan
<1>4. WavesInTime
  <2>1. \A p \in Dispatcher : Queue(p) = {}
    BY <1>0 DEF Init, Queue
  <2> QED
    BY <2>1 DEF WavesInTime
<1>5. ASSUME NEW d \in Delivery PROVE KvSound(d)
  <2>1. \A p \in Dispatcher : pc[p][d] = "idle" /\ ~ScanOwns(p, d)
    BY <1>0 DEF Init, ScanOwns, NoScan
  <2>2. rec[d] = AbsentRecord /\ \A c \in Caller : call[c][d].pc = "idle"
    BY <1>0 DEF Init, IdleCall
  <2> QED
    BY <2>1, <2>2 DEF KvSound, Leased, ScanLeased, KvOwnedOnce, KvOwns, ReadsApart, ReadsHold, OnTime,
           Planned, PlanFits, BeforeWrite, AbsentRecord
<1> QED
  BY <1>1, <1>3, <1>4, <1>5 DEF ExclInv

\* A step that leaves a delivery alone.
LEMMA ExclFrame ==
    ASSUME NEW d \in Delivery, KvSound(d), clock' = clock, rec'[d] = rec[d],
           \A q \in Dispatcher : /\ pc'[q][d] = pc[q][d] /\ snap'[q][d] = snap[q][d]
                                 /\ begun'[q][d] = begun[q][d] /\ plan'[q][d] = plan[q][d]
                                 /\ ScanOwns(q, d)' => ScanOwns(q, d),
           \A c \in Caller : call'[c][d] = call[c][d]
    PROVE  KvSound(d)'
<1>1. Leased(d)'
  BY DEF KvSound, Leased
<1>2. ScanLeased(d)' /\ OnTime(d)'
  BY DEF KvSound, ScanLeased, OnTime, leaseMs
<1>3. KvOwnedOnce(d)'
  BY DEF KvSound, KvOwnedOnce, KvOwns
<1>4. ReadsApart(d)' /\ Planned(d)'
  BY DEF KvSound, ReadsApart, ReadsHold, Planned, PlanFits
<1> QED
  BY <1>1, <1>2, <1>3, <1>4 DEF KvSound

\* The owner takes the claim up, or goes on with it without writing the record.
LEMMA ExclMoves ==
    ASSUME TypeInv, ScanInv, NEW p \in Dispatcher, NEW d \in Delivery, KvSound(d),
           NEW step \in BeforeWrite \ {"queued"}, Goto(p, d, step), pc[p][d] \in BeforeWrite,
           UNCHANGED <<clock, rec, snap, call, scan>>,
           \A q \in Dispatcher : q # p => begun'[q][d] = begun[q][d],
           begun'[p][d] = (IF pc[p][d] = "queued" THEN clock ELSE begun[p][d]),
           PlanFits(p, d)'
    PROVE  KvSound(d)'
<1>1. step \in JobPc /\ step \notin {"idle", "queued"} /\ step \in BeforeWrite
  BY DEF BeforeWrite, JobPc
<1>2. pc'[p][d] = step /\ \A q \in Dispatcher : q # p => pc'[q][d] = pc[q][d]
  BY <1>1, GotoTypes
<1>3. \A q \in Dispatcher : /\ KvOwns(q, d) => q = p
                            /\ ScanOwns(q, d)' <=> ScanOwns(q, d)
  BY DEF KvSound, KvOwnedOnce, KvOwns, ScanOwns, Visited
<1>4. Leased(d)' /\ ScanLeased(d)' /\ KvOwnedOnce(d)'
  BY <1>1, <1>2, <1>3 DEF KvSound, Leased, ScanLeased, KvOwnedOnce, KvOwns, leaseMs
<1>5. ReadsApart(d)'
  BY DEF KvSound, ReadsApart, ReadsHold
<1>6. OnTime(d)'
  <2>0. clock \in Nat
    BY DEF TypeInv, TypeOK
  <2>1. clock \in Nat /\ clock < clock + AttemptTimeout + Headroom
    BY <2>0, LeaseAssumption
  <2>2. leaseMs' = leaseMs
    BY DEF leaseMs
  <2> QED
    BY <1>1, <1>2, <2>1, <2>2 DEF KvSound, OnTime, BeforeWrite
<1>7. Planned(d)'
  BY <1>2, <1>3 DEF Planned, PlanFits, KvOwns, BeforeWrite
<1> QED
  BY <1>4, <1>5, <1>6, <1>7 DEF KvSound

\* A worker lets go of the delivery, without writing the record.
LEMMA ExclDrops ==
    ASSUME NEW p \in Dispatcher, NEW d \in Delivery, KvSound(d),
           \/ pc'[p][d] = "idle"
           \/ pc'[p][d] = "note" /\ pc[p][d] \notin {"idle", "queued"} /\ begun'[p][d] = begun[p][d],
           ~ScanOwns(p, d),
           \A q \in Dispatcher : q # p => /\ pc'[q][d] = pc[q][d] /\ snap'[q][d] = snap[q][d]
                                          /\ begun'[q][d] = begun[q][d] /\ plan'[q][d] = plan[q][d],
           UNCHANGED <<clock, rec, call, scan>>
    PROVE  KvSound(d)'
<1>1. pc'[p][d] \notin BeforeWrite
  BY DEF BeforeWrite
<1>3. \A q \in Dispatcher : ScanOwns(q, d)' <=> ScanOwns(q, d)
  BY DEF ScanOwns, Visited
<1>4. Leased(d)' /\ ScanLeased(d)' /\ KvOwnedOnce(d)'
  BY <1>1, <1>3 DEF KvSound, Leased, ScanLeased, KvOwnedOnce, KvOwns, leaseMs
<1>5. ReadsApart(d)'
  BY DEF KvSound, ReadsApart, ReadsHold
<1>6. OnTime(d)'
  BY <1>1 DEF KvSound, OnTime, leaseMs
<1>7. Planned(d)'
  BY <1>1 DEF KvSound, Planned, PlanFits, BeforeWrite
<1> QED
  BY <1>4, <1>5, <1>6, <1>7 DEF KvSound

\* The owner writes the record, and owns the delivery no longer.
LEMMA ExclWrites ==
    ASSUME TypeInv, ScanInv, NEW p \in Dispatcher, NEW d \in Delivery, KvSound(d),
           NEW step \in Written \cup {"note"}, Goto(p, d, step), pc[p][d] \in {"write", "hold_write"},
           NEW r \in Record, rec' = [rec EXCEPT ![d] = r], r.status \notin {"delivering", "absent"},
           UNCHANGED <<clock, snap, begun, call, scan>>
    PROVE  KvSound(d)'
<1>1. step \in JobPc /\ step \notin BeforeWrite /\ step \notin {"idle", "queued"}
  BY DEF BeforeWrite, Written, JobPc
<1>2. pc'[p][d] = step /\ \A q \in Dispatcher : q # p => pc'[q][d] = pc[q][d]
  BY <1>1, GotoTypes
<1>3. rec'[d] = r /\ rec[d].status = "delivering"
  BY DEF KvSound, Leased, TypeInv, TypeOK, BeforeWrite
<1>4. \A q \in Dispatcher : /\ ScanOwns(q, d)' <=> ScanOwns(q, d)
                            /\ KvOwns(q, d) => q = p
  BY DEF ScanOwns, Visited, KvSound, KvOwnedOnce, KvOwns, BeforeWrite
<1>5. ~ScanOwns(p, d)
  BY NoScanOwnsNothing
<1>6. \A q \in Dispatcher : ~KvOwns(q, d)'
  BY <1>1, <1>2, <1>4, <1>5 DEF KvOwns
<1>7. Leased(d)' /\ ScanLeased(d)' /\ KvOwnedOnce(d)'
  BY <1>6 DEF Leased, ScanLeased, KvOwnedOnce, KvOwns
<1>8. ReadsApart(d)'
  BY <1>3 DEF KvSound, ReadsApart, ReadsHold
<1>9. OnTime(d)'
  BY <1>1, <1>2, <1>6 DEF KvSound, OnTime, KvOwns, BeforeWrite
<1>10. Planned(d)'
  BY <1>6 DEF Planned, PlanFits, KvOwns, BeforeWrite
<1> QED
  BY <1>3, <1>7, <1>8, <1>9, <1>10 DEF KvSound

\* A step of p on one delivery leaves the others as they are, and the scans.
LEMMA ExclOthers ==
    ASSUME ExclInv, NEW p \in Dispatcher, NEW d \in Delivery, ProcessClaim(p, d), scan' = scan
    PROVE  /\ \A e \in Delivery : e # d => KvSound(e)'
           /\ pc[p][d] # "idle" => ScanInv'
           /\ WavesInTime' /\ clock' = clock /\ call' = call
<1>1. clock' = clock /\ call' = call /\ WavesInTime'
  BY ProcessFrame DEF ExclInv
<1>2. ASSUME NEW e \in Delivery, e # d PROVE KvSound(e)'
  <2>1. \A q \in Dispatcher : ScanOwns(q, e)' <=> ScanOwns(q, e)
    BY DEF ScanOwns, Visited
  <2> QED
    BY <1>1, <1>2, <2>1, ProcessFrame, ExclFrame DEF ExclInv
<1>3. ASSUME pc[p][d] # "idle" PROVE ScanInv'
  <2>1. \A q \in Dispatcher : scan[q].pc # "off" => q # p
    BY <1>3 DEF ExclInv, ScanInv, ScanShape
  <2>2. \A q \in Dispatcher, e \in Delivery : q # p => pc'[q][e] = pc[q][e]
    BY ProcessFrame DEF ExclInv
  <2>3. \A q \in Dispatcher : scan'[q] = scan[q] /\ ScanShape(q)
    BY DEF ExclInv, ScanInv
  <2>4. \A q \in Dispatcher : ScanShape(q)'
    BY <1>1, <2>1, <2>2, <2>3 DEF ScanShape, KvClaimable
  <2> QED
    BY <2>4 DEF ExclInv, ScanInv
<1> QED
  BY <1>1, <1>2, <1>3

\* Processing a claim, step by step.
LEMMA ExclProcess ==
    ASSUME ExclInv, NEW p \in Dispatcher, NEW d \in Delivery, ProcessClaim(p, d), scan' = scan
    PROVE  ExclInv'
<1>0. /\ TypeInv /\ ScanInv /\ KvSound(d) /\ clock' = clock /\ call' = call
  BY ExclOthers DEF ExclInv
<1>1. pc[p][d] # "idle"
  <2>1. CASE StepFails(p, d)
    BY <2>1, CrashAssumption DEF StepFails
  <2>2. CASE ~StepFails(p, d)
    BY <2>2 DEF ProcessClaim, StartAttempt, FailTerminal, HoldDisabled, TakeUp, HoldUnindex,
           HoldWrite, HoldIndex, Respond, LogAttempt, UnindexNext, UnindexLease, WriteOutcome,
           IndexNext, NoteOutcome, At
  <2> QED
    BY <2>1, <2>2
<1> SUFFICES KvSound(d)'
  BY <1>0, <1>1, ExclOthers, TypeProcess DEF ExclInv
<1>a. {"sending", "log", "hold_unindex", "unindex_next", "unindex_lease", "write", "hold_write"}
        \subseteq BeforeWrite \ {"queued"}
  BY DEF BeforeWrite
<1>b. ASSUME NEW step, NEW pl, TakeUp(p, d, step, pl), step \in {"sending", "log", "hold_unindex"},
             step = "log" => pl.outcome # "none" /\ pl.next = NoTime
      PROVE  KvSound(d)'
  <2>1. Goto(p, d, step) /\ pc[p][d] = "queued" /\ UNCHANGED <<clock, rec, snap, call, scan>>
    BY <1>b DEF TakeUp, At
  <2>2. /\ \A q \in Dispatcher : q # p => begun'[q][d] = begun[q][d]
        /\ begun'[p][d] = clock
    BY <1>0, <1>b DEF TakeUp, TypeInv, TypeOK
  <2>3. step \in BeforeWrite \ {"queued"} /\ "queued" \in BeforeWrite
    BY <1>b DEF BeforeWrite
  <2>4. PlanFits(p, d)'
    BY <1>0, <1>b, <2>1 DEF TakeUp, Goto, TypeInv, TypeOK, PlanFits
  <2> QED
    BY <1>0, <2>1, <2>2, <2>3, <2>4, ExclMoves
<1>c. ASSUME NEW step \in BeforeWrite \ {"queued"}, Goto(p, d, step), PlanFits(p, d)',
             pc[p][d] \in BeforeWrite \ {"queued"}, UNCHANGED <<clock, rec, snap, call, begun>>
      PROVE  KvSound(d)'
  BY <1>0, <1>c, ExclMoves
<1>d. ASSUME NEW step \in {"unindex_next", "unindex_lease", "write", "hold_write"}, Goto(p, d, step),
             pc[p][d] \in BeforeWrite \ {"queued"}, UNCHANGED <<clock, rec, snap, plan, call, begun>>,
             step # "hold_write" => pc[p][d] \in {"log", "unindex_next", "unindex_lease"}
      PROVE  KvSound(d)'
  <2>1. PlanFits(p, d)'
    BY <1>0, <1>d DEF Goto, TypeInv, TypeOK, KvSound, Planned, PlanFits
  <2> QED
    BY <1>a, <1>c, <1>d, <2>1
<1>e. ASSUME Finish(p, d), UNCHANGED <<clock, rec, call>> PROVE KvSound(d)'
  <2>1. /\ pc'[p][d] = "idle"
        /\ \A q \in Dispatcher : q # p => /\ pc'[q][d] = pc[q][d] /\ snap'[q][d] = snap[q][d]
                                          /\ begun'[q][d] = begun[q][d] /\ plan'[q][d] = plan[q][d]
    BY <1>0, <1>e DEF Finish, Goto, TypeInv, TypeOK
  <2> QED
    BY <1>0, <1>1, <1>e, <2>1, NoScanOwnsNothing, ExclDrops
<1>2. CASE StartAttempt(p, d)
  BY <1>2, <1>b DEF StartAttempt
<1>3. CASE FailTerminal(p, d)
  BY <1>3, <1>b DEF FailTerminal
<1>4. CASE HoldDisabled(p, d)
  BY <1>4, <1>b DEF HoldDisabled
<1>5. CASE HoldUnindex(p, d)
  BY <1>5, <1>a, <1>d DEF HoldUnindex, At
<1>6. CASE HoldWrite(p, d)
  <2> DEFINE held == [snap[p][d] EXCEPT !.status = "pending",
                        !.nextAttemptAt = plan[p][d].next, !.leaseUntil = NoTime]
  <2>1. snap[p][d] \in Record /\ plan[p][d].next \in TimeOrNone
    BY <1>0 DEF TypeInv, TypeOK, Plan
  <2>2. held \in Record /\ held.status = "pending"
    BY <2>1, HeldType DEF Record
  <2>3. rec' = [rec EXCEPT ![d] = held] /\ UNCHANGED <<clock, snap, begun, call>>
    BY <1>6 DEF HoldWrite
  <2>4. Goto(p, d, "hold_index") /\ "hold_index" \in Written /\ pc[p][d] = "hold_write"
    BY <1>6 DEF HoldWrite, At, Written
  <2> HIDE DEF held
  <2> QED
    BY <1>0, <2>2, <2>3, <2>4, ExclWrites
<1>7. CASE HoldIndex(p, d)
  BY <1>7, <1>e DEF HoldIndex
<1>8. CASE Respond(p, d)
  <2>1. PlanFits(p, d)'
    <3> DEFINE made == snap[p][d].attemptCount + 1
    <3>1. PICK pl : /\ plan' = [plan EXCEPT ![p][d] = pl]
                    /\ \/ pl = [outcome |-> "ok", next |-> NoTime]
                       \/ \E t \in NextTimes(made) : pl = [outcome |-> "fail", next |-> t]
      BY <1>8 DEF Respond
    <3>2. made \in Int /\ ScheduleLength \in Int
      BY <1>0, ScheduleAssumption DEF TypeInv, TypeOK, Record
    <3> HIDE DEF made
    <3>3. pl.outcome # "none" /\ (pl.next # NoTime => pl.outcome = "fail" /\ made < ScheduleLength)
      BY <3>1, <3>2 DEF NextTimes
    <3>4. plan'[p][d] = pl /\ snap' = snap
      BY <1>0, <1>8, <3>1 DEF Respond, TypeInv, TypeOK
    <3> QED
      BY <3>3, <3>4 DEF PlanFits, made
  <2> QED
    BY <1>8, <1>a, <1>c, <2>1 DEF Respond, At
<1>9. CASE LogAttempt(p, d)
  BY <1>9, <1>a, <1>d DEF LogAttempt, At
<1>10. CASE UnindexNext(p, d)
  BY <1>10, <1>a, <1>d DEF UnindexNext, At
<1>11. CASE UnindexLease(p, d)
  BY <1>11, <1>a, <1>d DEF UnindexLease, At
<1>12. CASE WriteOutcome(p, d)
  <2> DEFINE r == Outcome(snap[p][d], plan[p][d])
             step == IF plan[p][d].next # NoTime THEN "index" ELSE "note"
  <2>1. snap[p][d] \in Record /\ plan[p][d] \in Plan
    BY <1>0 DEF TypeInv, TypeOK
  <2>2. r \in Record /\ r.status \notin {"delivering", "absent"}
    BY <2>1, OutcomeType, OutcomeFields
  <2>3. rec' = [rec EXCEPT ![d] = r] /\ UNCHANGED <<clock, snap, begun, call>>
    BY <1>12 DEF WriteOutcome
  <2>4. Goto(p, d, step) /\ step \in Written \cup {"note"} /\ pc[p][d] = "write"
    BY <1>12 DEF WriteOutcome, At, Written
  <2> HIDE DEF r, step
  <2> QED
    BY <1>0, <2>2, <2>3, <2>4, ExclWrites
<1>13. CASE IndexNext(p, d)
  <2>1. /\ pc'[p][d] = "note" /\ begun' = begun /\ pc[p][d] = "index" /\ plan' = plan
        /\ \A q \in Dispatcher : q # p => pc'[q][d] = pc[q][d] /\ snap'[q][d] = snap[q][d]
        /\ UNCHANGED <<clock, rec, call>>
    BY <1>0, <1>13 DEF IndexNext, At, Goto, TypeInv, TypeOK
  <2> QED
    BY <1>0, <1>1, <2>1, NoScanOwnsNothing, ExclDrops
<1>14. CASE NoteOutcome(p, d)
  BY <1>14, <1>e DEF NoteOutcome
<1>15. CASE StepFails(p, d)
  BY <1>15, <1>e DEF StepFails
<1> QED
  BY <1>2, <1>3, <1>4, <1>5, <1>6, <1>7, <1>8, <1>9, <1>10, <1>11, <1>12, <1>13, <1>14,
     <1>15 DEF ProcessClaim

\* The claims of a crashed dispatcher are dropped, all at once.
LEMMA ExclCrash ==
    ASSUME ExclInv, NEW p \in Dispatcher, Crash(p), scan' = scan
    PROVE  ExclInv'
<1>1. \A q \in Dispatcher, d \in Delivery :
        /\ q = p => pc'[q][d] = "idle"
        /\ q # p => /\ pc'[q][d] = pc[q][d] /\ snap'[q][d] = snap[q][d]
                    /\ begun'[q][d] = begun[q][d] /\ plan'[q][d] = plan[q][d]
  BY DEF Crash, ExclInv, TypeInv, TypeOK
<1>2. scan[p].pc = "off" /\ UNCHANGED <<clock, rec, call, scan>>
  BY DEF Crash, ExclInv, ScanInv, ScanShape
<1>3. ASSUME NEW d \in Delivery PROVE KvSound(d)'
  <2>1. ~ScanOwns(p, d)
    BY <1>2, NoScanOwnsNothing DEF ExclInv
  <2> QED
    BY <1>1, <1>2, <2>1, ExclDrops DEF ExclInv
<1>4. WavesInTime'
  <2>1. \A q \in Dispatcher, d \in Delivery :
          /\ pc'[q][d] = "queued" => pc[q][d] = "queued" /\ snap'[q][d] = snap[q][d]
          /\ pc'[q][d] \notin {"idle", "queued"} =>
                pc[q][d] # "idle" /\ begun'[q][d] = begun[q][d]
    BY <1>1
  <2> QED
    BY <1>2, <2>1, WavesStay DEF ExclInv
<1>5. ScanInv'
  <2>1. \A q \in Dispatcher : ScanShape(q)'
    BY <1>1, <1>2 DEF ExclInv, ScanInv, ScanShape, KvClaimable
  <2> QED
    BY <1>2, <2>1 DEF ExclInv, ScanInv
<1> QED
  BY <1>3, <1>4, <1>5, TypeCrash DEF ExclInv

\* The clock moves on only when nobody is late, and no scan is under way.
LEMMA ExclTick ==
    ASSUME WorkersKeepUp, ExclInv, KvTick, scan' = scan
    PROVE  ExclInv'
<1>1. /\ UNCHANGED <<rec, due, pc, snap, plan, begun, call, attempts, endpoint, requeues>>
      /\ clock' = clock + 1 /\ leaseMs' = leaseMs /\ Tick
  BY DEF KvTick, Tick, jobVars, leaseMs
<1>3. \A p \in Dispatcher : scan[p] = NoScan /\ scan[p].pc = "off"
  BY DEF KvTick, WorkersKeepUp, Scanning, ExclInv, ScanInv, ScanShape
<1>4. TypeInv'
  BY <1>1, TypeStep DEF ExclInv, Next
<1>5. ScanInv'
  BY <1>3 DEF ExclInv, ScanInv, ScanShape, NoScan
<1>6. WavesInTime'
  BY <1>1, WavesTick DEF ExclInv, KvSound
<1>7. ASSUME NEW d \in Delivery PROVE KvSound(d)'
  <2>1. KvSound(d) /\ \A p \in Dispatcher : ~ScanOwns(p, d) /\ (ScanOwns(p, d)' <=> ScanOwns(p, d))
    BY <1>3, NoScanOwnsNothing DEF ExclInv, ScanOwns, Visited
  <2>2. Leased(d)' /\ ScanLeased(d)' /\ KvOwnedOnce(d)' /\ ReadsApart(d)' /\ Planned(d)'
    BY <1>1, <2>1 DEF KvSound, Leased, ScanLeased, KvOwnedOnce, KvOwns, ReadsApart, ReadsHold,
           Planned, PlanFits
  <2>3. OnTime(d)'
    BY <1>1, <2>1, OnTimeTick DEF ExclInv, KvSound
  <2> QED
    BY <1>1, <2>1, <2>2, <2>3 DEF KvSound
<1> QED
  BY <1>4, <1>5, <1>6, <1>7 DEF ExclInv


\* A control-plane call that writes the record found it where no dispatcher can own it.
LEMMA ExclCall ==
    ASSUME ExclInv, ReplaysApart, NEW c \in Caller, NEW d \in Delivery, ControlPlane(c, d),
           scan' = scan
    PROVE  ExclInv'
<1>0. TypeInv /\ KvSound(d) /\ UNCHANGED <<clock, pc, snap, plan, begun, scan>>
  BY DEF ExclInv, ControlPlane, PublishBegin, PublishWrite, RetryRead, RecoverRead,
         ReadDeadLetter, RequeueWrite, CallIndex, CallFails, jobVars
<1>1. WavesInTime' /\ ScanInv' /\ TypeInv'
  <2>1. WavesInTime'
    BY <1>0, WavesStay DEF ExclInv
  <2>2. ScanInv'
    BY <1>0 DEF ExclInv, ScanInv, ScanShape, KvClaimable
  <2> QED
    BY <1>0, <2>1, <2>2, TypeCall
<1>2. \A q \in Dispatcher, e \in Delivery : ScanOwns(q, e)' <=> ScanOwns(q, e)
  BY <1>0 DEF ScanOwns, Visited
<1>3. ASSUME NEW e \in Delivery, e # d PROVE KvSound(e)'
  <2>1. rec'[e] = rec[e]
    BY <1>0, <1>3 DEF ControlPlane, PublishBegin, PublishWrite, RetryRead, RecoverRead,
           ReadDeadLetter, RequeueWrite, CallIndex, CallFails, TypeInv, TypeOK
  <2>2. \A o \in Caller : call'[o][e] = call[o][e]
    <3>1. \E r : call' = [call EXCEPT ![c][d] = r]
      BY DEF ControlPlane, PublishBegin, PublishWrite, RetryRead, RecoverRead, ReadDeadLetter,
             RequeueWrite, CallIndex, CallFails, SetCall
    <3> QED
      BY <1>0, <1>3, <3>1 DEF TypeInv, TypeOK
  <2> QED
    BY <1>0, <1>2, <2>1, <2>2, ExclFrame DEF ExclInv
<1> SUFFICES KvSound(d)'
  BY <1>1, <1>3 DEF ExclInv
<1>4. \A o \in Caller : o # c => call'[o][d] = call[o][d]
  BY <1>0 DEF ControlPlane, PublishBegin, PublishWrite, RetryRead, RecoverRead, ReadDeadLetter,
         RequeueWrite, CallIndex, CallFails, SetCall, TypeInv, TypeOK
<1>5. ASSUME rec'[d] = rec[d], ReadsApart(d)' PROVE KvSound(d)'
  BY <1>0, <1>2, <1>5 DEF KvSound, Leased, ScanLeased, KvOwnedOnce, KvOwns, OnTime, Planned,
         PlanFits, leaseMs
<1>6. ASSUME rec[d].status # "delivering", rec'[d].status = "pending", ReadsApart(d)'
      PROVE  KvSound(d)'
  <2>1. \A q \in Dispatcher : ~KvOwns(q, d)
    BY <1>0, <1>6 DEF KvSound, Leased, ScanLeased, KvOwns
  <2>2. \A q \in Dispatcher : pc'[q][d] \notin BeforeWrite /\ ~ScanOwns(q, d)'
    BY <1>0, <1>2, <2>1 DEF KvOwns
  <2>3. Leased(d)' /\ ScanLeased(d)' /\ KvOwnedOnce(d)' /\ Planned(d)'
    BY <2>2 DEF Leased, ScanLeased, KvOwnedOnce, KvOwns, Planned, PlanFits, BeforeWrite
  <2>4. OnTime(d)'
    BY <1>0, <2>2 DEF KvSound, OnTime, BeforeWrite
  <2> QED
    BY <1>6, <2>3, <2>4 DEF KvSound
<1>7. CASE PublishBegin(c, d)
  <2>1. call'[c][d].pc = "publish" /\ rec' = rec
    BY <1>0, <1>7 DEF PublishBegin, SetCall, TypeInv, TypeOK
  <2>2. ReadsApart(d)'
    BY <1>0, <1>4, <1>7, <2>1 DEF PublishBegin, KvSound, ReadsApart, ReadsHold
  <2> QED
    BY <1>5, <2>1, <2>2
<1>8. CASE PublishWrite(c, d)
  <2>1. /\ call'[c][d].pc = "call_index" /\ call[c][d].pc = "publish"
        /\ rec[d].status = "absent" /\ rec'[d].status = "pending"
    BY <1>0, <1>8 DEF PublishWrite, CallAt, SetCall, KvSound, ReadsApart, ReadsHold, TypeInv,
           TypeOK, AbsentRecord
  <2>2. ReadsApart(d)'
    BY <1>0, <1>4, <2>1 DEF KvSound, ReadsApart, ReadsHold
  <2> QED
    BY <1>6, <2>1, <2>2
<1>9. CASE RetryRead(c, d) \/ RecoverRead(c, d)
  <2>1. \/ ReadDeadLetter(c, d, "retry", NoTime)
        \/ \E t \in 0 .. clock : ReadDeadLetter(c, d, "recover", t)
    BY <1>9 DEF RetryRead, RecoverRead
  <2>2. /\ call'[c][d].pc \in {"retry", "recover"} /\ call'[c][d].snap = rec[d]
        /\ rec[d].status = "failed" /\ rec' = rec
    BY <1>0, <2>1 DEF ReadDeadLetter, SetCall, TypeInv, TypeOK
  <2>3. ReadsApart(d)'
    BY <1>0, <1>4, <2>2 DEF KvSound, ReadsApart, ReadsHold
  <2> QED
    BY <1>5, <2>2, <2>3
<1>10. CASE RequeueWrite(c, d)
  <2>1. /\ call'[c][d].pc = "call_index" /\ call[c][d].pc \in {"retry", "recover"}
        /\ rec[d].status = "failed"
    BY <1>0, <1>10 DEF RequeueWrite, SetCall, KvSound, ReadsApart, ReadsHold, TypeInv, TypeOK
  <2>2. rec'[d].status = "pending"
    BY <1>0, <1>10 DEF RequeueWrite, TypeInv, TypeOK, Call, Record
  <2>3. \A o \in Caller : o # c => call'[o][d].pc \notin {"retry", "recover"}
    BY <1>4, <2>1 DEF ReplaysApart
  <2>4. ReadsApart(d)'
    BY <1>0, <1>4, <2>1, <2>3 DEF KvSound, ReadsApart, ReadsHold
  <2> QED
    BY <1>6, <2>1, <2>2, <2>4
<1>11. CASE CallIndex(c, d) \/ CallFails(c, d)
  <2>1. call'[c][d].pc = "idle" /\ rec' = rec
    BY <1>0, <1>11 DEF CallIndex, CallFails, IdleCall, TypeInv, TypeOK
  <2>2. ReadsApart(d)'
    BY <1>0, <1>4, <2>1 DEF KvSound, ReadsApart, ReadsHold
  <2> QED
    BY <1>5, <2>1, <2>2
<1> QED
  BY <1>7, <1>8, <1>9, <1>10, <1>11 DEF ControlPlane

------------------------------------------------------------------------------
(* The steps of a scan. *)

\* A scan that goes on, or that ends and starts its workers, owns what it has claimed.
LEMMA ContinueEffect ==
    ASSUME WorkersKeepUp, TypeInv, ScanInv, NEW p \in Dispatcher, scan[p].pc # "off",
           NEW claimed \in SUBSET Delivery, Cardinality(claimed) <= BatchSize,
           Continue(p, claimed), clock' = clock
    PROVE  /\ scan' \in [Dispatcher -> AnyScan] /\ ScanShape(p)'
           /\ pc' \in [Dispatcher -> [Delivery -> JobPc]]
           /\ \A q \in Dispatcher : q # p => scan'[q] = scan[q] /\ pc'[q] = pc[q]
           /\ \A d \in Delivery : /\ pc'[p][d] \in {"idle", "queued"}
                                  /\ KvOwns(p, d)' => d \in claimed
           /\ Queue(p)' \subseteq claimed
<1> DEFINE rest == scan[p].todo \ {scan[p].key}
           workers == [d \in Delivery |-> IF d \in claimed THEN "queued" ELSE "idle"]
<1>0. /\ scan \in [Dispatcher -> AnyScan] /\ pc \in [Dispatcher -> [Delivery -> JobPc]]
      /\ scan[p] \in AnyScan /\ scan[p].now = clock /\ clock \in Nat
      /\ \A k \in scan[p].todo : k \in Nat \X Delivery /\ k[1] <= clock
      /\ \A d \in Delivery : pc[p][d] = "idle"
  BY DEF ScanInv, ScanShape, TypeInv, TypeOK, AnyScan
<1>1. NoScan \in AnyScan
  BY AbsentRecordType DEF NoScan, AnyScan, ScanPc
<1>2. CASE rest = {} \/ Cardinality(claimed) = BatchSize
  <2>1. scan' = [scan EXCEPT ![p] = NoScan] /\ pc' = [pc EXCEPT ![p] = workers]
    BY <1>2 DEF Continue
  <2>2. workers \in [Delivery -> JobPc] /\ \A d \in Delivery : workers[d] \in {"idle", "queued"}
    BY DEF JobPc
  <2>3. scan'[p] = NoScan /\ pc'[p] = workers
    BY <1>0, <2>1
  <2>4. \A d \in Delivery : pc'[p][d] = IF d \in claimed THEN "queued" ELSE "idle"
    BY <2>3
  <2>5. \A d \in Delivery : KvOwns(p, d)' => d \in claimed
    BY <2>3, <2>4 DEF KvOwns, ScanOwns, NoScan, BeforeWrite
  <2>6. Queue(p)' \subseteq claimed
    BY <2>4 DEF Queue
  <2>7. ScanShape(p)'
    BY <2>3 DEF ScanShape, NoScan
  <2> HIDE DEF workers
  <2>8. /\ scan' \in [Dispatcher -> AnyScan] /\ pc' \in [Dispatcher -> [Delivery -> JobPc]]
        /\ \A q \in Dispatcher : q # p => scan'[q] = scan[q] /\ pc'[q] = pc[q]
    BY <1>0, <1>1, <2>1, <2>2
  <2>9. \A d \in Delivery : pc'[p][d] \in {"idle", "queued"}
    BY <2>4
  <2> QED
    BY <2>5, <2>6, <2>7, <2>8, <2>9
<1>3. CASE ~(rest = {} \/ Cardinality(claimed) = BatchSize)
  <2>1. PICK k \in Earliest(rest) :
          /\ scan' = [scan EXCEPT ![p] =
                        [@ EXCEPT !.pc = "scan_entry", !.todo = rest, !.key = k,
                                  !.seen = AbsentRecord, !.claimed = claimed]]
          /\ pc' = pc
    BY <1>3 DEF Continue
  <2>2. k \in rest /\ rest \subseteq scan[p].todo
    BY <2>1 DEF Earliest
  <2> HIDE DEF rest
  <2>3. /\ scan'[p].pc = "scan_entry" /\ scan'[p].now = clock /\ scan'[p].todo = rest
        /\ scan'[p].key = k /\ scan'[p].seen = AbsentRecord /\ scan'[p].claimed = claimed
        /\ scan'[p] \in AnyScan
    BY <1>0, <2>1, <2>2, AbsentRecordType DEF AnyScan, ScanPc
  <2>4. Cardinality(claimed) < BatchSize
    <3>1. IsFiniteSet(claimed)
      BY FS_Subset DEF WorkersKeepUp
    <3>2. Cardinality(claimed) \in Nat
      BY <3>1, FS_CardinalityType
    <3> QED
      BY <1>3, <3>2, SizeAssumption
  <2>5. ScanShape(p)'
    BY <1>0, <2>1, <2>2, <2>3, <2>4 DEF ScanShape
  <2>6. \A d \in Delivery : KvOwns(p, d)' => d \in claimed
    BY <1>0, <2>1, <2>3 DEF KvOwns, ScanOwns, BeforeWrite
  <2>7. Queue(p)' \subseteq claimed
    BY <1>0, <2>1 DEF Queue
  <2>8. scan' \in [Dispatcher -> AnyScan] /\ \A q \in Dispatcher : q # p => scan'[q] = scan[q]
    BY <1>0, <2>1, <2>3
  <2> QED
    BY <1>0, <2>1, <2>5, <2>6, <2>7, <2>8
<1> QED
  BY <1>2, <1>3

\* A scan that goes to its next step has claimed what it had.
LEMMA ScanGotoEffect ==
    ASSUME TypeInv, ScanInv, NEW p \in Dispatcher, scan[p].pc # "off", NEW r \in Record,
           NEW step \in ScanPc \ {"off"}, step = "scan_claim" => KvClaimable(r, clock),
           ScanGoto(p, step, r), clock' = clock, pc' = pc
    PROVE  /\ scan' \in [Dispatcher -> AnyScan] /\ ScanShape(p)'
           /\ \A q \in Dispatcher : q # p => scan'[q] = scan[q]
           /\ scan'[p].pc = step /\ scan'[p].claimed = scan[p].claimed /\ scan'[p].key = scan[p].key
<1>0. scan \in [Dispatcher -> AnyScan] /\ scan[p] \in AnyScan /\ ScanShape(p)
  BY DEF ScanInv
<1>1. scan' = [scan EXCEPT ![p] = [scan[p] EXCEPT !.pc = step, !.seen = r]]
  BY DEF ScanGoto
<1>2. /\ scan'[p] \in AnyScan /\ scan'[p].pc = step /\ scan'[p].seen = r
      /\ scan'[p].now = scan[p].now /\ scan'[p].todo = scan[p].todo
      /\ scan'[p].claimed = scan[p].claimed /\ scan'[p].key = scan[p].key
  BY <1>0, <1>1 DEF AnyScan
<1>3. ScanShape(p)'
  BY <1>0, <1>2 DEF ScanShape, KvClaimable
<1> QED
  BY <1>0, <1>1, <1>2, <1>3

\* A delivery that a step of a scan does not win: the scan owns it only if it did before.
LEMMA ScanMoves ==
    ASSUME NEW p \in Dispatcher, NEW d \in Delivery, KvSound(d), clock \in Nat,
           UNCHANGED <<clock, begun, plan, call>>, rec'[d] = rec[d],
           \A q \in Dispatcher : q # p => /\ pc'[q] = pc[q] /\ snap'[q] = snap[q]
                                          /\ scan'[q] = scan[q],
           pc[p][d] = "idle", pc'[p][d] \in {"idle", "queued"},
           KvOwns(p, d)' => ScanOwns(p, d) /\ snap'[p][d] = snap[p][d]
    PROVE  KvSound(d)'
<1>1. \A q \in Dispatcher : /\ q # p => (ScanOwns(q, d)' <=> ScanOwns(q, d))
                            /\ KvOwns(q, d)' => KvOwns(q, d)
  BY DEF ScanOwns, Visited, KvOwns
<1>2. /\ leaseMs' = leaseMs /\ "queued" \in BeforeWrite /\ "idle" \notin BeforeWrite
      /\ clock + AttemptTimeout + Headroom <= clock + leaseMs
  BY LeaseAssumption DEF leaseMs, BeforeWrite
<1>3. KvOwnedOnce(d)'
  BY <1>1 DEF KvSound, KvOwnedOnce
<1>4. Leased(d)'
  BY <1>2 DEF KvSound, Leased, ScanLeased, KvOwns
<1>5. ScanLeased(d)'
  BY <1>1, <1>2 DEF KvSound, ScanLeased, KvOwns
<1>6. ReadsApart(d)'
  BY DEF KvSound, ReadsApart, ReadsHold
<1>7. OnTime(d)'
  BY <1>2 DEF KvSound, OnTime, ScanLeased, KvOwns
<1>8. Planned(d)'
  BY <1>2 DEF KvSound, Planned, PlanFits
<1> QED
  BY <1>3, <1>4, <1>5, <1>6, <1>7, <1>8 DEF KvSound

\* What a step of a scan must show.
LEMMA ScanStep ==
    ASSUME WorkersKeepUp, ExclInv, NEW p \in Dispatcher, \A d \in Delivery : pc[p][d] = "idle",
           scan' \in [Dispatcher -> AnyScan], ScanShape(p)',
           pc' \in [Dispatcher -> [Delivery -> JobPc]],
           \A q \in Dispatcher : q # p => scan'[q] = scan[q] /\ pc'[q] = pc[q],
           \A d \in Delivery : pc'[p][d] \in {"idle", "queued"},
           AtMost(Queue(p)', Waves * Concurrency),
           rec' \in [Delivery -> Record], due' \subseteq Nat \X Delivery,
           snap' \in [Dispatcher -> [Delivery -> Record]],
           \A q \in Dispatcher : q # p => snap'[q] = snap[q],
           UNCHANGED <<clock, attempts, endpoint, plan, begun, call, requeues>>,
           \A d \in Delivery :
                \/ /\ rec'[d] = rec[d]
                   /\ KvOwns(p, d)' => ScanOwns(p, d) /\ snap'[p][d] = snap[p][d]
                \/ KvSound(d)' /\ pc'[p][d] = "idle"
    PROVE  ExclInv'
<1>1. \A d \in Delivery : KvSound(d)'
  BY ScanMoves DEF ExclInv, TypeInv, TypeOK
<1>2. TypeInv'
  <2>1. TypeOK'
    BY DEF ExclInv, TypeInv, TypeOK
  <2>2. TimesPlanned'
    BY DEF ExclInv, TypeInv, TimesPlanned
  <2> QED
    BY <2>1, <2>2 DEF TypeInv
<1>3. WavesInTime'
  <2>1. PICK D : D = Queue(p)'
    OBVIOUS
  <2>2. D \in SUBSET Delivery /\ AtMost(D, Waves * Concurrency)
    BY <2>1 DEF Queue
  <2>3. \A d \in Delivery : pc'[p][d] = IF d \in D THEN "queued" ELSE "idle"
    BY <2>1 DEF Queue
  <2>4. ASSUME NEW d \in D PROVE snap'[p][d].leaseUntil = clock + leaseMs
    <3>1. d \in Delivery /\ pc'[p][d] = "queued" /\ KvOwns(p, d)'
      BY <2>2, <2>3 DEF KvOwns, BeforeWrite
    <3>2. ScanOwns(p, d) /\ snap'[p][d] = snap[p][d]
      BY <3>1
    <3> QED
      BY <3>1, <3>2 DEF ExclInv, KvSound, ScanLeased
  <2>5. \A q \in Dispatcher, d \in Delivery : q # p => pc'[q][d] = pc[q][d] /\ snap'[q][d] = snap[q][d]
    OBVIOUS
  <2> QED
    BY <2>2, <2>3, <2>4, <2>5, WaveBegins DEF ExclInv, TypeInv, TypeOK
<1>4. ScanInv'
  <2>1. ASSUME NEW q \in Dispatcher, q # p PROVE ScanShape(q)'
    <3>1. ScanShape(q) /\ scan'[q] = scan[q] /\ pc'[q] = pc[q]
      BY <2>1 DEF ExclInv, ScanInv
    <3> QED
      BY <3>1 DEF ScanShape, KvClaimable
  <2> QED
    BY <2>1 DEF ScanInv
<1> QED
  BY <1>1, <1>2, <1>3, <1>4 DEF ExclInv

\* A delivery that is found claimable, and still is as it was read, is nobody's.
LEMMA ClaimableIsFree ==
    ASSUME ExclInv, NEW d \in Delivery, KvClaimable(rec[d], clock)
    PROVE  /\ \A q \in Dispatcher : ~KvOwns(q, d)
           /\ rec[d].status \in {"pending", "delivering"}
<1>0. TypeInv /\ KvSound(d) /\ clock \in Nat /\ leaseMs \in Nat /\ leaseMs > 0
  <2>1. leaseMs > 0
    BY LeaseAssumption DEF leaseMs
  <2> QED
    BY <2>1, LeaseIsNat DEF ExclInv, TypeInv, TypeOK
<1>1. ASSUME NEW q \in Dispatcher, KvOwns(q, d) PROVE FALSE
  <2>1. rec[d].status = "delivering" /\ rec[d].leaseUntil <= clock
    BY <1>0, <1>1 DEF KvSound, Leased, ScanLeased, KvOwns, KvClaimable
  <2>2. CASE ScanOwns(q, d)
    BY <1>0, <2>1, <2>2 DEF KvSound, ScanLeased
  <2>3. CASE pc[q][d] \in BeforeWrite
    <3>1. clock < rec[d].leaseUntil
      BY <1>0, <2>3, LeaseOutlasts DEF KvSound, TypeInv, TypeOK
    <3>2. rec[d] \in Record
      BY <1>0 DEF TypeInv, TypeOK
    <3>3. rec[d].leaseUntil \in Int
      BY <3>2 DEF Record, TimeOrNone, NoTime
    <3> QED
      BY <1>0, <2>1, <3>1, <3>3
  <2> QED
    BY <1>1, <2>2, <2>3 DEF KvOwns
<1>2. rec[d].status \in {"pending", "delivering"}
  BY DEF KvClaimable
<1> QED
  BY <1>1, <1>2

\* The record that a scan writes when it wins.
Won(p) == [scan[p].seen EXCEPT !.status = "delivering", !.leaseUntil = scan[p].now + leaseMs]

LEMMA WonFields ==
    ASSUME TypeInv, ScanInv, NEW p \in Dispatcher, scan[p].pc # "off"
    PROVE  /\ Won(p) \in Record /\ Won(p).status = "delivering"
           /\ Won(p).leaseUntil = clock + leaseMs
           /\ Won(p).attemptCount = scan[p].seen.attemptCount
<1>1. scan[p].seen \in Record /\ scan[p].now = clock /\ clock + leaseMs \in Nat
  BY LeaseIsNat DEF ScanInv, ScanShape, AnyScan, TypeInv, TypeOK
<1>2. Won(p) \in Record
  BY <1>1, ClaimedType DEF Won
<1> QED
  BY <1>1, <1>2 DEF Won, Record

\* With compareAndSwap a scan that wins takes a delivery nobody owns.
LEMMA ExclWins ==
    ASSUME ExclInv, HasCompareAndSwap, NEW p \in Dispatcher, ScanClaim(p), Wins(p),
           NEW d \in Delivery, d = Visited(p)
    PROVE  /\ rec[d] = scan[p].seen /\ rec[d].status \in {"pending", "delivering"}
           /\ rec' = [rec EXCEPT ![d] = Won(p)] /\ pc' = pc
           /\ KvSound(d)'
<1>0. /\ TypeInv /\ ScanInv /\ KvSound(d) /\ scan[p].pc = "scan_claim" /\ ScanShape(p)
      /\ clock' = clock /\ begun' = begun /\ call' = call /\ pc' = pc
  BY DEF ExclInv, ScanInv, ScanClaim, Scanning
<1>1. /\ rec' = [rec EXCEPT ![d] = Won(p)] /\ snap' = [snap EXCEPT ![p][d] = Won(p)]
      /\ ScanGoto(p, "scan_unindex", AbsentRecord)
  BY DEF ScanClaim, Won
<1>2. rec[d] = scan[p].seen /\ KvClaimable(rec[d], clock)
  BY <1>0 DEF Wins, ScanShape
<1>3. (\A q \in Dispatcher : ~KvOwns(q, d)) /\ rec[d].status \in {"pending", "delivering"}
  BY <1>2, ClaimableIsFree
<1>4. /\ rec'[d] = Won(p) /\ snap'[p][d] = Won(p) /\ leaseMs' = leaseMs
      /\ Won(p).status = "delivering" /\ Won(p).leaseUntil = clock + leaseMs
  BY <1>0, <1>1, WonFields DEF TypeInv, TypeOK, leaseMs
<1>5. \A q \in Dispatcher : q # p => scan'[q] = scan[q]
  BY <1>0, <1>1 DEF ScanGoto, ScanInv
<1>6. \A q \in Dispatcher : pc'[q][d] \notin BeforeWrite /\ (q # p => ~ScanOwns(q, d)')
  BY <1>0, <1>3, <1>5 DEF KvOwns, ScanOwns, Visited
<1>7. Leased(d)' /\ ScanLeased(d)' /\ KvOwnedOnce(d)' /\ Planned(d)'
  BY <1>0, <1>4, <1>6 DEF Leased, ScanLeased, KvOwnedOnce, KvOwns, Planned, PlanFits, BeforeWrite
<1>8. OnTime(d)'
  BY <1>0, <1>4, <1>6 DEF KvSound, OnTime, BeforeWrite
<1>9. ReadsApart(d)'
  BY <1>0, <1>3 DEF KvSound, ReadsApart, ReadsHold
<1>10. KvSound(d)'
  BY <1>4, <1>7, <1>8, <1>9 DEF KvSound
<1> QED
  BY <1>0, <1>1, <1>2, <1>3, <1>10

\* What a scan claims fits its workers.
LEMMA ClaimedFits ==
    ASSUME WorkersKeepUp, ScanInv, NEW p \in Dispatcher, scan[p].pc # "off"
    PROVE  /\ scan[p].claimed \in SUBSET Delivery /\ Cardinality(scan[p].claimed) <= BatchSize
           /\ Visited(p) \in Delivery
           /\ Cardinality(scan[p].claimed \cup {Visited(p)}) <= BatchSize
<1>1. /\ scan[p].claimed \in SUBSET Delivery /\ Visited(p) \in Delivery
      /\ Cardinality(scan[p].claimed) < BatchSize
  BY DEF ScanInv, ScanShape, AnyScan, Visited
<1>2. IsFiniteSet(scan[p].claimed)
  BY <1>1, FS_Subset DEF WorkersKeepUp
<1>3. Cardinality(scan[p].claimed) \in Nat
  BY <1>2, FS_CardinalityType
<1>4. Cardinality(scan[p].claimed \cup {Visited(p)}) =
        IF Visited(p) \in scan[p].claimed THEN Cardinality(scan[p].claimed)
                                          ELSE Cardinality(scan[p].claimed) + 1
  BY <1>2, FS_AddElement
<1>5. Cardinality(scan[p].claimed \cup {Visited(p)}) \in Nat
  BY <1>2, FS_AddElement, FS_CardinalityType
<1> QED
  BY <1>1, <1>3, <1>4, <1>5, SizeAssumption

LEMMA NoneWait ==
    ASSUME WorkersKeepUp, NEW p \in Dispatcher, \A d \in Delivery : pc'[p][d] = "idle"
    PROVE  AtMost(Queue(p)', Waves * Concurrency)
<1>1. PICK D : D = Queue(p)'
  OBVIOUS
<1>2. D = {}
  BY <1>1 DEF Queue
<1>3. Cardinality({}) <= BatchSize
  BY FS_EmptySet, SizeAssumption
<1>4. AtMost({}, Waves * Concurrency)
  BY <1>3, BatchFits
<1> QED
  BY <1>1, <1>2, <1>4

\* A scan that goes on or ends, having won nothing more than is claimed.
LEMMA ExclContinues ==
    ASSUME WorkersKeepUp, ExclInv, NEW p \in Dispatcher, scan[p].pc # "off",
           NEW claimed \in SUBSET Delivery, Cardinality(claimed) <= BatchSize,
           Continue(p, claimed), \A d \in claimed : ScanOwns(p, d),
           due' \subseteq Nat \X Delivery,
           UNCHANGED <<clock, rec, attempts, endpoint, snap, plan, begun, call, requeues>>
    PROVE  ExclInv'
<1>0. TypeInv /\ ScanInv /\ \A d \in Delivery : pc[p][d] = "idle"
  BY DEF ExclInv, ScanInv, ScanShape
<1>1. /\ scan' \in [Dispatcher -> AnyScan] /\ ScanShape(p)'
      /\ pc' \in [Dispatcher -> [Delivery -> JobPc]]
      /\ \A q \in Dispatcher : q # p => scan'[q] = scan[q] /\ pc'[q] = pc[q]
      /\ \A d \in Delivery : /\ pc'[p][d] \in {"idle", "queued"}
                             /\ KvOwns(p, d)' => d \in claimed
      /\ Queue(p)' \subseteq claimed
  BY <1>0, ContinueEffect
<1>2. AtMost(Queue(p)', Waves * Concurrency)
  <2> PICK D : D = Queue(p)'
    OBVIOUS
  <2>1. D \in SUBSET claimed
    BY <1>1
  <2> QED
    BY <2>1, BatchFits
<1>3. /\ rec' \in [Delivery -> Record] /\ snap' \in [Dispatcher -> [Delivery -> Record]]
      /\ rec' = rec /\ snap' = snap
  BY <1>0 DEF TypeInv, TypeOK
<1> QED
  BY <1>0, <1>1, <1>2, <1>3, ScanStep

\* A scan that goes to its next step for the same key, owning no more than before.
LEMMA ExclGoes ==
    ASSUME WorkersKeepUp, ExclInv, NEW p \in Dispatcher, scan[p].pc # "off", NEW r \in Record,
           NEW step \in ScanPc \ {"off"}, step = "scan_claim" => KvClaimable(r, clock),
           step \in {"scan_unindex", "scan_index"} => scan[p].pc \in {"scan_unindex", "scan_index"},
           ScanGoto(p, step, r), due' \subseteq Nat \X Delivery,
           UNCHANGED <<clock, rec, attempts, endpoint, pc, snap, plan, begun, call, requeues>>
    PROVE  ExclInv'
<1>0. TypeInv /\ ScanInv /\ \A d \in Delivery : pc[p][d] = "idle"
  BY DEF ExclInv, ScanInv, ScanShape
<1>1. /\ scan' \in [Dispatcher -> AnyScan] /\ ScanShape(p)'
      /\ \A q \in Dispatcher : q # p => scan'[q] = scan[q]
      /\ scan'[p].pc = step /\ scan'[p].claimed = scan[p].claimed /\ scan'[p].key = scan[p].key
  BY <1>0, ScanGotoEffect
<1>2. \A d \in Delivery : KvOwns(p, d)' => ScanOwns(p, d)
  BY <1>0, <1>1 DEF KvOwns, ScanOwns, Visited, BeforeWrite
<1>3. AtMost(Queue(p)', Waves * Concurrency)
  BY <1>0, NoneWait
<1>4. /\ rec' \in [Delivery -> Record] /\ snap' \in [Dispatcher -> [Delivery -> Record]]
      /\ rec' = rec /\ snap' = snap /\ pc' \in [Dispatcher -> [Delivery -> JobPc]] /\ pc' = pc
  BY <1>0 DEF TypeInv, TypeOK
<1> QED
  BY <1>0, <1>1, <1>2, <1>3, <1>4, ScanStep

\* Every step of a scan.
LEMMA ExclClaim ==
    ASSUME WorkersKeepUp, HasCompareAndSwap, ExclInv, NEW p \in Dispatcher, KvClaim(p)
    PROVE  ExclInv'
<1>0. /\ TypeInv /\ ScanInv /\ due \subseteq Nat \X Delivery /\ AbsentRecord \in Record
      /\ scan[p] \in AnyScan /\ ScanShape(p) /\ NoScan \in AnyScan
  BY AbsentRecordType DEF ExclInv, TypeInv, TypeOK, ScanInv, NoScan, AnyScan, ScanPc
<1>1. ASSUME scan[p].pc # "off"
      PROVE  /\ scan[p].claimed \in SUBSET Delivery /\ Cardinality(scan[p].claimed) <= BatchSize
             /\ Visited(p) \in Delivery /\ \A d \in scan[p].claimed : ScanOwns(p, d)
  BY <1>0, <1>1, ClaimedFits DEF ScanOwns
<1>2. CASE ScanKeys(p)
  <2>1. PICK nowMs \in 0 .. clock : \E k \in due :
          /\ Prompt => nowMs = clock
          /\ k[1] <= nowMs
          /\ scan' = [scan EXCEPT ![p] =
                        [@ EXCEPT !.pc = "scan_entry", !.now = nowMs,
                                  !.todo = {l \in due : l[1] <= nowMs}, !.key = k]]
    BY <1>2 DEF ScanKeys, Earliest
  <2>a. PICK k \in due :
          /\ k[1] <= nowMs
          /\ scan' = [scan EXCEPT ![p] =
                        [@ EXCEPT !.pc = "scan_entry", !.now = nowMs,
                                  !.todo = {l \in due : l[1] <= nowMs}, !.key = k]]
    BY <2>1
  <2>2. nowMs = clock /\ scan[p] = NoScan /\ clock \in Nat
    BY <1>0, <1>2, <2>1 DEF WorkersKeepUp, ScanShape, ScanKeys, Scanning, TypeInv, TypeOK
  <2> DEFINE ripe == {l \in due : l[1] <= nowMs}
  <2>3. ripe \subseteq Nat \X Delivery /\ k \in ripe /\ \A l \in ripe : l[1] <= clock
    BY <1>0, <2>a, <2>2
  <2>4. scan' = [scan EXCEPT ![p] = [scan[p] EXCEPT !.pc = "scan_entry", !.now = nowMs,
                                                    !.todo = ripe, !.key = k]]
    BY <2>a
  <2> HIDE DEF ripe
  <2>5. /\ scan'[p] \in AnyScan /\ scan'[p].pc = "scan_entry" /\ scan'[p].now = clock
        /\ scan'[p].todo = ripe /\ scan'[p].key = k /\ scan'[p].claimed = {}
        /\ scan' \in [Dispatcher -> AnyScan]
        /\ \A q \in Dispatcher : q # p => scan'[q] = scan[q]
    <3>1. scan[p].claimed = {}
      BY <2>2 DEF NoScan
    <3>2. scan'[p] = [scan[p] EXCEPT !.pc = "scan_entry", !.now = nowMs, !.todo = ripe, !.key = k]
      BY <1>0, <2>4 DEF ScanInv
    <3>3. "scan_entry" \in ScanPc /\ nowMs \in Nat /\ k \in Nat \X Delivery
      BY <2>2, <2>3 DEF ScanPc
    <3>4. scan'[p] \in AnyScan
      BY <1>0, <2>3, <3>2, <3>3 DEF AnyScan
    <3>5. /\ scan' \in [Dispatcher -> AnyScan]
          /\ \A q \in Dispatcher : q # p => scan'[q] = scan[q]
      BY <1>0, <2>4, <3>2, <3>4 DEF ScanInv
    <3> QED
      BY <1>0, <2>2, <3>1, <3>2, <3>4, <3>5 DEF AnyScan
  <2>6. /\ \A d \in Delivery : pc[p][d] = "idle"
        /\ UNCHANGED <<clock, rec, due, attempts, endpoint, pc, snap, plan, begun, call, requeues>>
    BY <1>2 DEF ScanKeys, ScanOnly
  <2>7. ScanShape(p)'
    BY <2>3, <2>5, <2>6, FS_EmptySet, SizeAssumption DEF ScanShape
  <2>8. \A d \in Delivery : ~KvOwns(p, d)'
    BY <2>5, <2>6 DEF KvOwns, ScanOwns, BeforeWrite
  <2>9. AtMost(Queue(p)', Waves * Concurrency)
    BY <2>6, NoneWait
  <2>10. /\ rec' \in [Delivery -> Record] /\ snap' \in [Dispatcher -> [Delivery -> Record]]
         /\ pc' \in [Dispatcher -> [Delivery -> JobPc]]
    BY <1>0, <2>6 DEF TypeInv, TypeOK
  <2> QED
    BY <1>0, <2>5, <2>6, <2>7, <2>8, <2>9, <2>10, ScanStep
<1>3. CASE ScanEntry(p)
  <2>1. /\ scan[p].pc = "scan_entry" /\ due' \subseteq Nat \X Delivery
        /\ UNCHANGED <<clock, rec, attempts, endpoint, snap, plan, begun, call, requeues>>
    BY <1>0, <1>3 DEF ScanEntry, Scanning, ScanOnly
  <2>2. \/ ScanGoto(p, "scan_record", AbsentRecord) /\ pc' = pc
        \/ Continue(p, scan[p].claimed)
    BY <1>3 DEF ScanEntry
  <2>3. CASE ScanGoto(p, "scan_record", AbsentRecord) /\ pc' = pc
    <3>1. "scan_record" \in ScanPc \ {"off"}
      BY DEF ScanPc
    <3> QED
      BY <1>0, <2>1, <2>3, <3>1, ExclGoes
  <2>4. CASE Continue(p, scan[p].claimed)
    BY <1>1, <2>1, <2>4, ExclContinues
  <2> QED
    BY <2>2, <2>3, <2>4
<1>4. CASE ScanRecord(p)
  <2>1. /\ scan[p].pc = "scan_record" /\ due' \subseteq Nat \X Delivery /\ scan[p].now = clock
        /\ UNCHANGED <<clock, rec, attempts, endpoint, snap, plan, begun, call, requeues>>
    BY <1>0, <1>4 DEF ScanRecord, Scanning, ScanOnly, ScanShape
  <2>2. \/ ScanGoto(p, "scan_claim", rec[Visited(p)]) /\ pc' = pc
                /\ KvClaimable(rec[Visited(p)], clock)
        \/ ScanGoto(p, "scan_sweep", AbsentRecord) /\ pc' = pc
        \/ Continue(p, scan[p].claimed)
    BY <1>4, <2>1 DEF ScanRecord
  <2>3. CASE ScanGoto(p, "scan_claim", rec[Visited(p)]) /\ pc' = pc
                /\ KvClaimable(rec[Visited(p)], clock)
    <3>1. "scan_claim" \in ScanPc \ {"off"} /\ rec[Visited(p)] \in Record
      BY <1>0, <1>1, <2>1 DEF ScanPc, TypeInv, TypeOK
    <3> QED
      BY <2>1, <2>3, <3>1, ExclGoes
  <2>4. CASE ScanGoto(p, "scan_sweep", AbsentRecord) /\ pc' = pc
    <3>1. "scan_sweep" \in ScanPc \ {"off"}
      BY DEF ScanPc
    <3> QED
      BY <1>0, <2>1, <2>4, <3>1, ExclGoes
  <2>5. CASE Continue(p, scan[p].claimed)
    BY <1>1, <2>1, <2>5, ExclContinues
  <2> QED
    BY <2>2, <2>3, <2>4, <2>5
<1>5. CASE ScanSweep(p)
  <2>1. /\ scan[p].pc = "scan_sweep" /\ due' \subseteq Nat \X Delivery
        /\ UNCHANGED <<clock, rec, attempts, endpoint, snap, plan, begun, call, requeues>>
        /\ Continue(p, scan[p].claimed)
    BY <1>0, <1>5 DEF ScanSweep, Scanning
  <2> QED
    BY <1>1, <2>1, ExclContinues
<1>6. CASE ScanClaim(p) /\ ~Wins(p)
  <2>1. /\ scan[p].pc = "scan_claim" /\ due' \subseteq Nat \X Delivery
        /\ UNCHANGED <<clock, rec, attempts, endpoint, snap, plan, begun, call, requeues>>
        /\ Continue(p, scan[p].claimed)
    BY <1>0, <1>6 DEF ScanClaim, Scanning
  <2> QED
    BY <1>1, <2>1, ExclContinues
<1>7. CASE ScanClaim(p) /\ Wins(p)
  <2>1. /\ scan[p].pc = "scan_claim" /\ due' = due
        /\ ScanGoto(p, "scan_unindex", AbsentRecord)
        /\ snap' = [snap EXCEPT ![p][Visited(p)] = Won(p)]
        /\ UNCHANGED <<clock, attempts, endpoint, plan, begun, call, requeues>>
    BY <1>7 DEF ScanClaim, Scanning, Won
  <2>2. "scan_unindex" \in ScanPc \ {"off"} /\ Won(p) \in Record /\ Visited(p) \in Delivery
    BY <1>0, <1>1, <2>1, WonFields DEF ScanPc
  <2>3. /\ rec' = [rec EXCEPT ![Visited(p)] = Won(p)] /\ pc' = pc
        /\ \A d \in Delivery : d = Visited(p) => KvSound(d)'
    <3>1. PICK d \in Delivery : d = Visited(p)
      BY <2>2
    <3>2. rec' = [rec EXCEPT ![d] = Won(p)] /\ pc' = pc /\ KvSound(d)'
      BY <1>7, <3>1, ExclWins
    <3> QED
      BY <3>1, <3>2
  <2>4. /\ scan' \in [Dispatcher -> AnyScan] /\ ScanShape(p)'
        /\ \A q \in Dispatcher : q # p => scan'[q] = scan[q]
        /\ scan'[p].claimed = scan[p].claimed /\ scan'[p].key = scan[p].key
    BY <1>0, <2>1, <2>2, <2>3, ScanGotoEffect
  <2>5. \A d \in Delivery : pc[p][d] = "idle"
    BY <1>0, <2>1 DEF ScanShape
  <2>6. /\ rec' \in [Delivery -> Record] /\ snap' \in [Dispatcher -> [Delivery -> Record]]
        /\ pc' \in [Dispatcher -> [Delivery -> JobPc]] /\ due' \subseteq Nat \X Delivery
        /\ \A q \in Dispatcher : q # p => snap'[q] = snap[q]
        /\ \A d \in Delivery : d # Visited(p) => rec'[d] = rec[d] /\ snap'[p][d] = snap[p][d]
    BY <1>0, <2>1, <2>2, <2>3 DEF TypeInv, TypeOK
  <2>7. AtMost(Queue(p)', Waves * Concurrency)
    BY <2>3, <2>5, NoneWait
  <2>8. \A d \in Delivery : d # Visited(p) /\ KvOwns(p, d)' => ScanOwns(p, d)
    BY <2>3, <2>4, <2>5 DEF KvOwns, ScanOwns, Visited, BeforeWrite
  <2> QED
    BY <2>1, <2>3, <2>4, <2>5, <2>6, <2>7, <2>8, ScanStep
<1>8. CASE ScanUnindex(p)
  <2>1. /\ scan[p].pc = "scan_unindex" /\ due' \subseteq Nat \X Delivery
        /\ UNCHANGED <<clock, rec, attempts, endpoint, pc, snap, plan, begun, call, requeues>>
        /\ ScanGoto(p, "scan_index", AbsentRecord) /\ "scan_index" \in ScanPc \ {"off"}
    BY <1>0, <1>8 DEF ScanUnindex, Scanning, ScanPc
  <2> QED
    BY <1>0, <2>1, ExclGoes
<1>9. CASE ScanIndex(p)
  <2>1. /\ scan[p].pc = "scan_index" /\ scan[p].now + leaseMs \in Nat
        /\ due' = due \cup {<<scan[p].now + leaseMs, Visited(p)>>}
        /\ UNCHANGED <<clock, rec, attempts, endpoint, snap, plan, begun, call, requeues>>
        /\ Continue(p, scan[p].claimed \cup {Visited(p)})
    BY <1>0, <1>9, LeaseIsNat DEF ScanIndex, Scanning, AnyScan
  <2>2. /\ due' \subseteq Nat \X Delivery
        /\ scan[p].claimed \cup {Visited(p)} \in SUBSET Delivery
        /\ Cardinality(scan[p].claimed \cup {Visited(p)}) <= BatchSize
        /\ \A d \in scan[p].claimed \cup {Visited(p)} : ScanOwns(p, d)
    BY <1>0, <1>1, <2>1, ClaimedFits DEF ScanOwns
  <2> QED
    BY <2>1, <2>2, ExclContinues
<1>10. CASE ScanFails(p)
  <2>1. scan[p].pc # "off"
    BY <1>10, ScanAssumption DEF ScanFails
  <2>2. /\ scan' = [scan EXCEPT ![p] = NoScan]
        /\ snap' = [snap EXCEPT ![p] = [d \in Delivery |-> AbsentRecord]]
        /\ UNCHANGED <<clock, rec, due, attempts, endpoint, pc, plan, begun, call, requeues>>
    BY <1>10 DEF ScanFails
  <2>3. /\ scan' \in [Dispatcher -> AnyScan] /\ scan'[p] = NoScan
        /\ \A q \in Dispatcher : q # p => scan'[q] = scan[q] /\ snap'[q] = snap[q]
        /\ rec' \in [Delivery -> Record] /\ snap' \in [Dispatcher -> [Delivery -> Record]]
        /\ pc' \in [Dispatcher -> [Delivery -> JobPc]] /\ due' \subseteq Nat \X Delivery
    BY <1>0, <2>2 DEF ScanInv, TypeInv, TypeOK
  <2>4. (\A d \in Delivery : pc[p][d] = "idle") /\ ScanShape(p)'
    BY <1>0, <2>1, <2>3 DEF ScanShape, NoScan
  <2>5. \A d \in Delivery : ~KvOwns(p, d)'
    BY <2>2, <2>3, <2>4 DEF KvOwns, ScanOwns, NoScan, BeforeWrite
  <2>6. AtMost(Queue(p)', Waves * Concurrency)
    BY <2>2, <2>4, NoneWait
  <2> QED
    BY <2>2, <2>3, <2>4, <2>5, <2>6, ScanStep
<1> QED
  BY <1>2, <1>3, <1>4, <1>5, <1>6, <1>7, <1>8, <1>9, <1>10 DEF KvClaim

LEMMA ExclStep ==
    ASSUME WorkersKeepUp, HasCompareAndSwap
    PROVE  ExclInv /\ ReplaysApart /\ [KvNext]_kvVars => ExclInv'
<1> SUFFICES ASSUME ExclInv, ReplaysApart, [KvNext]_kvVars PROVE ExclInv'
  OBVIOUS
<1>1. ASSUME UNCHANGED <<clock, rec, jobVars, call, scan>>, TypeInv' PROVE ExclInv'
  <2>1. WavesInTime'
    BY <1>1, WavesStay DEF ExclInv, jobVars
  <2>2. ScanInv'
    BY <1>1 DEF ExclInv, ScanInv, ScanShape, KvClaimable, jobVars
  <2>3. \A d \in Delivery : KvSound(d)'
    <3>1. \A q \in Dispatcher, d \in Delivery : ScanOwns(q, d)' <=> ScanOwns(q, d)
      BY <1>1 DEF ScanOwns, Visited
    <3> QED
      BY <1>1, <3>1, ExclFrame DEF ExclInv, jobVars
  <2> QED
    BY <1>1, <2>1, <2>2, <2>3 DEF ExclInv
<1>2. ASSUME NEW p \in Dispatcher, KvClaim(p) PROVE ExclInv'
  BY <1>2, ExclClaim
<1>3. CASE KvTick /\ UNCHANGED scan
  BY <1>3, ExclTick
<1>4. ASSUME NEW p \in Dispatcher, Crash(p), UNCHANGED scan PROVE ExclInv'
  BY <1>4, ExclCrash
<1>5. ASSUME NEW p \in Dispatcher, NEW d \in Delivery, ProcessClaim(p, d), UNCHANGED scan
      PROVE  ExclInv'
  BY <1>5, ExclProcess
<1>6. ASSUME NEW c \in Caller, NEW d \in Delivery, ControlPlane(c, d), UNCHANGED scan
      PROVE  ExclInv'
  BY <1>6, ExclCall
<1>7. ASSUME NEW e \in Endpoint, NEW state \in {"enabled", "disabled", "deleted"},
             SetEndpoint(e, state), UNCHANGED scan
      PROVE  ExclInv'
  <2>1. TypeInv'
    BY <1>7, TypeStep DEF Next, ExclInv
  <2> QED
    BY <1>1, <1>7, <2>1 DEF SetEndpoint
<1>8. CASE UNCHANGED kvVars
  <2>1. UNCHANGED vars /\ UNCHANGED scan
    BY <1>8 DEF kvVars
  <2>2. TypeInv'
    BY <2>1, TypeStep DEF ExclInv
  <2> QED
    BY <1>1, <2>1, <2>2 DEF vars, jobVars
<1> QED
  BY <1>2, <1>3, <1>4, <1>5, <1>6, <1>7, <1>8 DEF KvNext

LEMMA ExclHolds ==
    ASSUME WorkersKeepUp, HasCompareAndSwap
    PROVE  KvSpec /\ []ReplaysApart => []ExclInv
<1>1. ExclInv /\ ReplaysApart /\ [KvNext]_kvVars => ExclInv'
  BY ExclStep
<1> QED
  BY <1>1, ExclInit, PTL DEF KvSpec

\* Of all the dispatchers that scanned the due index and found a delivery claimable one owns it,
\* and nobody else does until its outcome is in its record: compareAndSwap lets one of them win
\* the record they all read, and what the winner writes is not claimable before it is done
\* (claimDueDeliveries of src/core.ts, whose due entries say nothing about ownership).
THEOREM SwapKeepsOneOwner ==
    ASSUME WorkersKeepUp, HasCompareAndSwap
    PROVE  KvSpec /\ []ReplaysApart => []KvOneOwner
<1>1. ExclInv => KvOneOwner
  <2> SUFFICES ASSUME ExclInv PROVE KvOneOwner
    OBVIOUS
  <2>1. \A p \in Dispatcher, d \in Delivery : Owns(p, d) => KvOwns(p, d)
    BY DEF ExclInv, TypeInv, TypeOK, JobPc, Owns, KvOwns, ScanOwns, BeforeWrite
  <2> QED
    BY <2>1 DEF ExclInv, KvSound, KvOwnedOnce, KvOneOwner
<1> QED
  BY <1>1, ExclHolds, PTL

------------------------------------------------------------------------------
(* The lifecycle once more: a scan moves a delivery when it wins its record,    *)
(* and at no other step.                                                        *)

\* A scan takes a pending delivery, or takes over an expired one without a visible change.
LEMMA WinSeen ==
    ASSUME ExclInv, HasCompareAndSwap, NEW p \in Dispatcher, ScanClaim(p), Wins(p)
    PROVE  Lifecycle!Claim
<1>0. TypeInv /\ ScanInv /\ scan[p].pc = "scan_claim"
  BY DEF ExclInv, ScanClaim, Scanning
<1>1. PICK d \in Delivery : d = Visited(p)
  BY <1>0 DEF ScanInv, ScanShape, Visited
<1>2. /\ rec[d] = scan[p].seen /\ rec[d].status \in {"pending", "delivering"}
      /\ rec' = [rec EXCEPT ![d] = Won(p)]
  BY <1>1, ExclWins
<1>3. /\ Won(p) \in Record /\ Won(p).status = "delivering"
      /\ Won(p).attemptCount = rec[d].attemptCount
  BY <1>0, <1>2, WonFields
<1>4. PICK r \in Record : r = Won(p)
  BY <1>3
<1>5. /\ CountSeen' = CountSeen /\ StatusSeen[d] = rec[d].status
      /\ StatusSeen' = [StatusSeen EXCEPT ![d] = "delivering"]
  BY <1>0, <1>2, <1>3, <1>4, WriteSeen
<1> DEFINE taken == {e \in {d} : StatusSeen[e] = "pending"}
<1>6. StatusSeen' = [e \in Delivery |-> IF e \in taken THEN "delivering" ELSE StatusSeen[e]]
  BY <1>2, <1>5 DEF StatusSeen
<1>7. taken \in SUBSET {e \in Delivery : StatusSeen[e] = "pending"}
  OBVIOUS
<1> HIDE DEF taken
<1> QED
  BY <1>5, <1>6, <1>7 DEF Lifecycle!Claim, StatusSeen, CountSeen

LEMMA KvStepSeen ==
    ASSUME HasCompareAndSwap
    PROVE  ExclInv /\ [KvNext]_kvVars => [Lifecycle!Next]_(Lifecycle!lifecycleVars)
<1> SUFFICES ASSUME ExclInv, [KvNext]_kvVars
             PROVE  Lifecycle!Next \/ (StatusSeen' = StatusSeen /\ CountSeen' = CountSeen)
  BY DEF Lifecycle!lifecycleVars, StatusSeen, CountSeen
<1>1. CASE rec' = rec
  BY <1>1, StutterSeen
<1>2. ASSUME NEW p \in Dispatcher, KvClaim(p)
      PROVE  Lifecycle!Next \/ (StatusSeen' = StatusSeen /\ CountSeen' = CountSeen)
  <2>1. CASE ScanClaim(p) /\ Wins(p)
    BY <2>1, WinSeen DEF Lifecycle!Next
  <2>2. CASE ~(ScanClaim(p) /\ Wins(p))
    BY <1>1, <1>2, <2>2 DEF KvClaim, ScanKeys, ScanEntry, ScanRecord, ScanSweep, ScanClaim,
           ScanUnindex, ScanIndex, ScanFails, ScanOnly
  <2> QED
    BY <2>1, <2>2
<1>3. ASSUME NEW p \in Dispatcher, NEW d \in Delivery, ProcessClaim(p, d)
      PROVE  Lifecycle!Next \/ (StatusSeen' = StatusSeen /\ CountSeen' = CountSeen)
  BY <1>3, ProcessSeen DEF ExclInv, KvSound
<1>4. ASSUME NEW c \in Caller, NEW d \in Delivery, ControlPlane(c, d)
      PROVE  Lifecycle!Next \/ (StatusSeen' = StatusSeen /\ CountSeen' = CountSeen)
  BY <1>4, CallSeen DEF ExclInv, KvSound, ReadsApart
<1> QED
  BY <1>1, <1>2, <1>3, <1>4 DEF KvNext, KvTick, Tick, Crash, SetEndpoint, kvVars, vars

\* On a storage without a native queue a delivery moves along the same arrows, and each attempt
\* is counted once: the record a scan wins is the one it read, the record a worker writes back
\* the one its scan wrote, although the due index is read and moved in other calls.
THEOREM KvQueueImplementsLifecycle ==
    ASSUME WorkersKeepUp, HasCompareAndSwap
    PROVE  KvSpec /\ []ReplaysApart => ImplementsLifecycle
<1>1. KvInit => Lifecycle!Init
  BY InitSeen DEF KvInit
<1>2. ExclInv /\ [KvNext]_kvVars => [Lifecycle!Next]_(Lifecycle!lifecycleVars)
  BY KvStepSeen
<1> QED
  BY <1>1, <1>2, ExclHolds, PTL DEF KvSpec, ImplementsLifecycle, Lifecycle!Spec

------------------------------------------------------------------------------
(* No delivery is stranded. A worker's due entries are covered as on a native   *)
(* queue; what is new is the sweep, which removes the entry of a delivery it     *)
(* read as terminal, and the delivery may have been replayed since. An entry it  *)
(* is about to remove covers nothing.                                            *)

\* Scans that are about to remove the entry of d at t.
Doomed(t, d) == \E p \in Dispatcher : scan[p].pc = "scan_sweep" /\ scan[p].key = <<t, d>>

KvCovered(d) ==
    \/ \E t \in Nat : <<t, d>> \in due /\ ~Doomed(t, d)
    \/ \E p \in Dispatcher : pc[p][d] \in JobWindow /\ ~Doomed(plan[p][d].next, d)
    \/ \E c \in Caller : call[c][d].pc = "call_index" /\ ~Doomed(call[c][d].at, d)
    \/ \E p \in Dispatcher : scan[p].pc = "scan_index" /\ Visited(p) = d

\* A next attempt is planned for later than the one that failed was taken up, a held claim for the
\* end of the lease it was found with.
PlannedLater(p, d) ==
    /\ pc[p][d] \notin {"idle", "queued"} => begun[p][d] <= clock
    /\ pc[p][d] \in {"log", "unindex_next", "unindex_lease", "write"} /\ plan[p][d].next # NoTime
        => plan[p][d].next > begun[p][d]
    /\ pc[p][d] \in {"hold_unindex", "hold_write", "hold_index"}
        => plan[p][d].next = begun[p][d] + leaseMs

\* A worker on a delivery that a scan has read as terminal took it up since, within this scan.
Fresh(p, d) ==
    (\E q \in Dispatcher : scan[q].pc = "scan_sweep" /\ Visited(q) = d) =>
        (pc[p][d] \in BeforeWrite \ {"queued"} => begun[p][d] = clock)

CoverInv ==
    \A d \in Delivery :
        /\ \A p \in Dispatcher : PlannedLater(p, d) /\ Fresh(p, d)
        /\ NonTerminal(rec[d]) => KvCovered(d)

\* The further hypotheses: nobody crashes between the removal of a due entry and the write of the
\* next one, and a retry waits.
KvCrashesOutsideWindows == CrashesOutsideWindows /\ "scan_index" \notin CrashPoints
RetriesWait == 0 \notin Delays

LEMMA KvCoverInit == KvInit => CoverInv
BY DEF KvInit, Init, CoverInv, PlannedLater, Fresh, NonTerminal, AbsentRecord, BeforeWrite, NoScan

LEMMA DoomedIsPast ==
    ASSUME ExclInv, NEW t, NEW d \in Delivery, Doomed(t, d)
    PROVE  t \in Nat /\ t <= clock /\ \E q \in Dispatcher : scan[q].pc = "scan_sweep" /\ Visited(q) = d
<1>1. PICK q \in Dispatcher : scan[q].pc = "scan_sweep" /\ scan[q].key = <<t, d>>
  BY DEF Doomed
<1>2. scan[q].key \in Nat \X Delivery /\ scan[q].key[1] <= clock
  BY <1>1 DEF ExclInv, ScanInv, ScanShape
<1> QED
  BY <1>1, <1>2 DEF Visited

\* What a worker is about to index is not about to be removed.
LEMMA PlanIsSafe ==
    ASSUME ExclInv, CoverInv, NEW p \in Dispatcher, NEW d \in Delivery,
           pc[p][d] \in {"unindex_next", "unindex_lease", "write", "hold_unindex", "hold_write",
                         "hold_index"}
    PROVE  ~Doomed(plan[p][d].next, d)
<1> SUFFICES ASSUME Doomed(plan[p][d].next, d) PROVE FALSE
  OBVIOUS
<1>1. plan[p][d].next \in Nat /\ plan[p][d].next <= clock /\ clock \in Nat
  BY DoomedIsPast DEF ExclInv, TypeInv, TypeOK
<1>2. PlannedLater(p, d) /\ Fresh(p, d) /\ OnTime(d)
  BY DEF CoverInv, ExclInv, KvSound
<1>3. CASE pc[p][d] \in {"unindex_next", "unindex_lease", "write"}
  <2>1. begun[p][d] = clock
    BY <1>2, <1>3, DoomedIsPast DEF Fresh, BeforeWrite
  <2> QED
    BY <1>1, <1>2, <1>3, <2>1 DEF PlannedLater, NoTime
<1>4. CASE pc[p][d] \in {"hold_unindex", "hold_write", "hold_index"}
  <2>1. begun[p][d] \in Nat /\ clock < begun[p][d] + AttemptTimeout + Headroom
    BY <1>1, <1>2, <1>4 DEF OnTime
  <2>2. plan[p][d].next = begun[p][d] + leaseMs
    BY <1>2, <1>4 DEF PlannedLater
  <2>3. leaseMs >= AttemptTimeout + Headroom
    BY LeaseAssumption DEF leaseMs
  <2> QED
    BY <1>1, <2>1, <2>2, <2>3, LeaseIsNat, LeaseAssumption
<1> QED
  BY <1>3, <1>4

\* A step that keeps what covers d, and dooms none of its entries.
LEMMA KvKeepsCover ==
    ASSUME NEW d \in Delivery, KvCovered(d),
           \A t : Doomed(t, d)' => Doomed(t, d),
           \A t \in Nat : <<t, d>> \in due /\ ~Doomed(t, d) => <<t, d>> \in due',
           \A q \in Dispatcher : pc[q][d] \in JobWindow =>
                pc'[q][d] \in JobWindow /\ plan'[q][d] = plan[q][d],
           \A c \in Caller : call[c][d].pc = "call_index" => call'[c][d] = call[c][d],
           \A q \in Dispatcher : scan[q].pc = "scan_index" /\ Visited(q) = d => scan'[q] = scan[q]
    PROVE  KvCovered(d)'
<1>1. CASE \E t \in Nat : <<t, d>> \in due /\ ~Doomed(t, d)
  <2>1. PICK t \in Nat : <<t, d>> \in due' /\ ~Doomed(t, d)'
    BY <1>1
  <2> QED
    BY <2>1 DEF KvCovered
<1>2. CASE \E p \in Dispatcher : pc[p][d] \in JobWindow /\ ~Doomed(plan[p][d].next, d)
  <2>1. PICK p \in Dispatcher : pc[p][d] \in JobWindow /\ ~Doomed(plan[p][d].next, d)
    BY <1>2
  <2>2. PICK t : t = plan[p][d].next
    OBVIOUS
  <2>3. pc'[p][d] \in JobWindow /\ plan'[p][d].next = t /\ ~Doomed(t, d)'
    BY <2>1, <2>2
  <2> QED
    BY <2>3 DEF KvCovered, Doomed
<1>3. CASE \E c \in Caller : call[c][d].pc = "call_index" /\ ~Doomed(call[c][d].at, d)
  <2>1. PICK c \in Caller : call[c][d].pc = "call_index" /\ ~Doomed(call[c][d].at, d)
    BY <1>3
  <2>2. PICK t : t = call[c][d].at
    OBVIOUS
  <2>3. call'[c][d].pc = "call_index" /\ call'[c][d].at = t /\ ~Doomed(t, d)'
    BY <2>1, <2>2
  <2> QED
    BY <2>3 DEF KvCovered, Doomed
<1>4. CASE \E p \in Dispatcher : scan[p].pc = "scan_index" /\ Visited(p) = d
  BY <1>4 DEF KvCovered, Visited
<1> QED
  BY <1>1, <1>2, <1>3, <1>4 DEF KvCovered

\* The plan of a claim, and when it was taken up.
LEMMA PlannedProcess ==
    ASSUME RetriesWait, ExclInv, CoverInv, NEW p \in Dispatcher, NEW d \in Delivery,
           ProcessClaim(p, d), scan' = scan
    PROVE  PlannedLater(p, d)' /\ Fresh(p, d)'
<1>0. /\ TypeInv /\ PlannedLater(p, d) /\ Fresh(p, d) /\ clock' = clock /\ leaseMs' = leaseMs
      /\ OnTime(d) /\ clock \in Nat
  BY ProcessFrame DEF ExclInv, CoverInv, leaseMs, KvSound, TypeInv, TypeOK
<1>1. ASSUME NEW step, NEW pl, TakeUp(p, d, step, pl),
             \/ step = "sending"
             \/ step = "log" /\ pl.next = NoTime
             \/ step = "hold_unindex" /\ pl.next = clock + leaseMs
      PROVE  PlannedLater(p, d)' /\ Fresh(p, d)'
  <2>1. pc'[p][d] = step /\ plan'[p][d] = pl /\ begun'[p][d] = clock
    BY <1>0, <1>1 DEF TakeUp, Goto, TypeInv, TypeOK
  <2> QED
    BY <1>0, <1>1, <2>1 DEF PlannedLater, Fresh
<1>2. ASSUME NEW step \in JobPc, Goto(p, d, step), begun' = begun,
             plan'[p][d] = plan[p][d], step \in BeforeWrite => pc[p][d] \in BeforeWrite \ {"queued"},
             step \in {"unindex_next", "unindex_lease", "write"} =>
                pc[p][d] \in {"log", "unindex_next", "unindex_lease"},
             step \in {"hold_write", "hold_index"} => pc[p][d] \in {"hold_unindex", "hold_write"},
             step \notin {"log", "hold_unindex"}, pc[p][d] \notin {"idle", "queued"}
      PROVE  PlannedLater(p, d)' /\ Fresh(p, d)'
  <2>1. pc'[p][d] = step
    BY <1>0, <1>2, GotoTypes
  <2>2. PlannedLater(p, d)'
    BY <1>0, <1>2, <2>1 DEF PlannedLater
  <2>3. Fresh(p, d)'
    BY <1>0, <1>2, <2>1 DEF Fresh, Visited
  <2> QED
    BY <2>2, <2>3
<1>3. ASSUME Finish(p, d) PROVE PlannedLater(p, d)' /\ Fresh(p, d)'
  <2>1. pc'[p][d] = "idle"
    BY <1>0, <1>3, FinishTypes
  <2> QED
    BY <2>1 DEF PlannedLater, Fresh, BeforeWrite
<1>4. CASE StartAttempt(p, d)
  BY <1>1, <1>4 DEF StartAttempt
<1>5. CASE FailTerminal(p, d)
  BY <1>1, <1>5 DEF FailTerminal
<1>6. CASE HoldDisabled(p, d)
  BY <1>1, <1>6 DEF HoldDisabled
<1>7. CASE HoldUnindex(p, d)
  BY <1>2, <1>7 DEF HoldUnindex, At, JobPc, BeforeWrite
<1>8. CASE HoldWrite(p, d)
  BY <1>2, <1>8 DEF HoldWrite, At, JobPc, BeforeWrite
<1>9. CASE Respond(p, d)
  <2>1. /\ pc'[p][d] = "log" /\ pc[p][d] = "sending" /\ begun' = begun
    BY <1>0, <1>9, GotoTypes DEF Respond, At, JobPc
  <2>2. begun[p][d] \in Nat /\ begun[p][d] <= clock
    BY <1>0, <2>1 DEF PlannedLater, OnTime
  <2>3. plan'[p][d].next = NoTime \/ \E w \in Delays : plan'[p][d].next = clock + w
    <3>1. PICK pl : /\ plan' = [plan EXCEPT ![p][d] = pl]
                    /\ \/ pl = [outcome |-> "ok", next |-> NoTime]
                       \/ \E t \in NextTimes(snap[p][d].attemptCount + 1) :
                            pl = [outcome |-> "fail", next |-> t]
      BY <1>9 DEF Respond
    <3>2. plan'[p][d] = pl
      BY <1>0, <3>1 DEF TypeInv, TypeOK
    <3>3. pl.next = NoTime \/ \E w \in Delays : pl.next = clock + w
      BY <3>1 DEF NextTimes
    <3> QED
      BY <3>2, <3>3
  <2>4. \A w \in Delays : w \in Nat /\ w > 0
    BY ScheduleAssumption DEF RetriesWait
  <2>5. plan'[p][d].next # NoTime => plan'[p][d].next > begun[p][d]
    BY <1>0, <2>2, <2>3, <2>4
  <2>6. PlannedLater(p, d)'
    BY <1>0, <2>1, <2>2, <2>5 DEF PlannedLater
  <2>7. Fresh(p, d)'
    BY <1>0, <2>1 DEF Fresh, Visited, BeforeWrite
  <2> QED
    BY <2>6, <2>7
<1>10. CASE LogAttempt(p, d)
  BY <1>2, <1>10 DEF LogAttempt, At, JobPc, BeforeWrite
<1>11. CASE UnindexNext(p, d)
  BY <1>2, <1>11 DEF UnindexNext, At, JobPc, BeforeWrite
<1>12. CASE UnindexLease(p, d)
  BY <1>2, <1>12 DEF UnindexLease, At, JobPc, BeforeWrite
<1>13. CASE WriteOutcome(p, d)
  BY <1>2, <1>13 DEF WriteOutcome, At, JobPc, BeforeWrite
<1>14. CASE IndexNext(p, d)
  BY <1>2, <1>14 DEF IndexNext, At, JobPc, BeforeWrite
<1>15. CASE HoldIndex(p, d) \/ NoteOutcome(p, d) \/ StepFails(p, d)
  BY <1>3, <1>15 DEF HoldIndex, NoteOutcome, StepFails
<1> QED
  BY <1>4, <1>5, <1>6, <1>7, <1>8, <1>9, <1>10, <1>11, <1>12, <1>13, <1>14, <1>15 DEF ProcessClaim

\* A worker's step leaves the delivery covered, or terminal.
LEMMA CoveredProcess ==
    ASSUME KvCrashesOutsideWindows, ExclInv, CoverInv, NEW p \in Dispatcher, NEW d \in Delivery,
           ProcessClaim(p, d), scan' = scan, NonTerminal(rec'[d])
    PROVE  KvCovered(d)'
<1>0. /\ TypeInv /\ clock' = clock /\ call' = call
      /\ NonTerminal(rec[d]) => KvCovered(d)
      /\ \A t : Doomed(t, d)' <=> Doomed(t, d)
      /\ \A q \in Dispatcher : q # p => pc'[q][d] = pc[q][d] /\ plan'[q][d] = plan[q][d]
  BY ProcessFrame DEF ExclInv, CoverInv, Doomed
<1>1. ASSUME pc[p][d] \notin JobWindow, rec' = rec, due' = due PROVE KvCovered(d)'
  BY <1>0, <1>1, KvKeepsCover
<1>2. ASSUME NEW step \in JobPc \cap JobWindow, Goto(p, d, step), plan' = plan,
             pc[p][d] \in {"unindex_next", "unindex_lease", "write", "hold_unindex", "hold_write"}
      PROVE  KvCovered(d)'
  <2>1. pc'[p][d] \in JobWindow
    BY <1>0, <1>2, GotoTypes
  <2>2. PICK t : t = plan[p][d].next
    OBVIOUS
  <2>3. ~Doomed(t, d)'
    BY <1>0, <1>2, <2>2, PlanIsSafe
  <2> QED
    BY <1>2, <2>1, <2>2, <2>3 DEF KvCovered, Doomed
<1>3. ASSUME NEW t \in Nat, due' = due \cup {<<t, d>>}, rec' = rec,
             pc[p][d] \in JobWindow => plan[p][d].next = t
      PROVE  KvCovered(d)'
  <2>1. KvCovered(d)
    BY <1>0, <1>3
  <2>2. CASE \E u \in Nat : <<u, d>> \in due /\ ~Doomed(u, d)
    <3>1. PICK u \in Nat : <<u, d>> \in due' /\ ~Doomed(u, d)'
      BY <1>0, <1>3, <2>2
    <3> QED
      BY <3>1 DEF KvCovered
  <2>3. CASE pc[p][d] \in JobWindow /\ ~Doomed(plan[p][d].next, d)
    <3>1. <<t, d>> \in due' /\ ~Doomed(t, d)'
      BY <1>0, <1>3, <2>3
    <3> QED
      BY <3>1 DEF KvCovered
  <2>4. CASE \E q \in Dispatcher :
                q # p /\ pc[q][d] \in JobWindow /\ ~Doomed(plan[q][d].next, d)
    <3>1. PICK q \in Dispatcher :
                q # p /\ pc[q][d] \in JobWindow /\ ~Doomed(plan[q][d].next, d)
      BY <2>4
    <3>2. PICK u : u = plan[q][d].next
      OBVIOUS
    <3>3. pc'[q][d] \in JobWindow /\ plan'[q][d].next = u /\ ~Doomed(u, d)'
      BY <1>0, <3>1, <3>2
    <3> QED
      BY <3>3 DEF KvCovered, Doomed
  <2>5. CASE \E c \in Caller : call[c][d].pc = "call_index" /\ ~Doomed(call[c][d].at, d)
    <3>1. PICK c \in Caller : call[c][d].pc = "call_index" /\ ~Doomed(call[c][d].at, d)
      BY <2>5
    <3>2. PICK u : u = call[c][d].at
      OBVIOUS
    <3>3. call'[c][d].pc = "call_index" /\ call'[c][d].at = u /\ ~Doomed(u, d)'
      BY <1>0, <3>1, <3>2
    <3> QED
      BY <3>3 DEF KvCovered, Doomed
  <2>6. CASE \E q \in Dispatcher : scan[q].pc = "scan_index" /\ Visited(q) = d
    BY <2>6 DEF KvCovered, Visited
  <2> QED
    BY <2>1, <2>2, <2>3, <2>4, <2>5, <2>6 DEF KvCovered
<1>4. CASE StartAttempt(p, d) \/ FailTerminal(p, d) \/ HoldDisabled(p, d) \/ Respond(p, d)
             \/ LogAttempt(p, d) \/ NoteOutcome(p, d) \/ StepFails(p, d)
  <2>1. rec' = rec /\ due' = due
    BY <1>4 DEF StartAttempt, FailTerminal, HoldDisabled, TakeUp, Respond, LogAttempt, NoteOutcome,
           StepFails
  <2>2. pc[p][d] \notin JobWindow
    BY <1>4 DEF StartAttempt, FailTerminal, HoldDisabled, TakeUp, Respond, LogAttempt, NoteOutcome,
           StepFails, At, JobWindow, KvCrashesOutsideWindows, CrashesOutsideWindows
  <2> QED
    BY <1>1, <2>1, <2>2
<1>5. CASE HoldUnindex(p, d)
  BY <1>2, <1>5 DEF HoldUnindex, At, JobPc, JobWindow
<1>6. CASE HoldWrite(p, d)
  BY <1>2, <1>6 DEF HoldWrite, At, JobPc, JobWindow
<1>7. CASE UnindexNext(p, d)
  BY <1>2, <1>7 DEF UnindexNext, At, JobPc, JobWindow
<1>8. CASE UnindexLease(p, d)
  BY <1>2, <1>8 DEF UnindexLease, At, JobPc, JobWindow
<1>9. CASE WriteOutcome(p, d)
  <2>1. rec'[d] = Outcome(snap[p][d], plan[p][d])
    BY <1>0, <1>9 DEF WriteOutcome, TypeInv, TypeOK
  <2>2. plan[p][d].next # NoTime
    BY <1>0, <2>1, OutcomeType DEF TypeInv, TypeOK
  <2> QED
    BY <1>2, <1>9, <2>2 DEF WriteOutcome, At, JobPc, JobWindow
<1>10. CASE IndexNext(p, d) \/ HoldIndex(p, d)
  <2>1. /\ plan[p][d].next \in Nat /\ rec' = rec
        /\ due' = due \cup {<<plan[p][d].next, d>>}
    BY <1>0, <1>10 DEF IndexNext, HoldIndex, At, TypeInv, TimesPlanned
  <2> QED
    BY <1>3, <2>1
<1> QED
  BY <1>4, <1>5, <1>6, <1>7, <1>8, <1>9, <1>10 DEF ProcessClaim

LEMMA KvCoverProcess ==
    ASSUME KvCrashesOutsideWindows, RetriesWait, ExclInv, CoverInv, NEW p \in Dispatcher,
           NEW d \in Delivery, ProcessClaim(p, d), scan' = scan
    PROVE  CoverInv'
<1>0. /\ TypeInv /\ clock' = clock /\ call' = call /\ leaseMs' = leaseMs
      /\ \A q \in Dispatcher, e \in Delivery : ~(q = p /\ e = d) =>
            /\ pc'[q][e] = pc[q][e] /\ begun'[q][e] = begun[q][e] /\ plan'[q][e] = plan[q][e]
      /\ \A e \in Delivery : e # d => rec'[e] = rec[e]
      /\ \A e \in Delivery, t \in Nat : e # d => (<<t, e>> \in due' <=> <<t, e>> \in due)
  BY ProcessFrame DEF ExclInv, leaseMs
<1>1. ASSUME NEW q \in Dispatcher, NEW e \in Delivery PROVE PlannedLater(q, e)' /\ Fresh(q, e)'
  <2>1. CASE q = p /\ e = d
    BY <2>1, PlannedProcess
  <2>2. CASE ~(q = p /\ e = d)
    BY <1>0, <2>2 DEF CoverInv, PlannedLater, Fresh, Visited
  <2> QED
    BY <2>1, <2>2
<1>2. ASSUME NEW e \in Delivery, NonTerminal(rec'[e]) PROVE KvCovered(e)'
  <2>1. CASE e = d
    BY <1>2, <2>1, CoveredProcess
  <2>2. CASE e # d
    <3>1. \A t : Doomed(t, e)' => Doomed(t, e)
      BY DEF Doomed
    <3>2. KvCovered(e)
      BY <1>0, <1>2, <2>2 DEF CoverInv
    <3> QED
      BY <1>0, <2>2, <3>1, <3>2, KvKeepsCover
  <2> QED
    BY <2>1, <2>2
<1> QED
  BY <1>1, <1>2 DEF CoverInv

LEMMA KvCoverCall ==
    ASSUME KvCrashesOutsideWindows, ExclInv, CoverInv, NEW c \in Caller, NEW d \in Delivery,
           ControlPlane(c, d), DistinctMillis(c, d), scan' = scan
    PROVE  CoverInv'
<1>0. TypeInv /\ UNCHANGED <<clock, pc, snap, plan, begun, scan>> /\ leaseMs' = leaseMs
  BY DEF ExclInv, leaseMs, ControlPlane, PublishBegin, PublishWrite, RetryRead, RecoverRead,
         ReadDeadLetter, RequeueWrite, CallIndex, CallFails, jobVars
<1>1. \A q \in Dispatcher, e \in Delivery : PlannedLater(q, e)' /\ Fresh(q, e)'
  BY <1>0 DEF CoverInv, PlannedLater, Fresh, Visited
<1>2. \A t, e : Doomed(t, e)' <=> Doomed(t, e)
  BY DEF Doomed
<1>3. \A o \in Caller, e \in Delivery : ~(o = c /\ e = d) => call'[o][e] = call[o][e]
  <2>1. \E r : call' = [call EXCEPT ![c][d] = r]
    BY DEF ControlPlane, PublishBegin, PublishWrite, RetryRead, RecoverRead, ReadDeadLetter,
           RequeueWrite, CallIndex, CallFails, SetCall
  <2> QED
    BY <1>0, <2>1 DEF TypeInv, TypeOK
<1>4. due \subseteq due'
  BY DEF ControlPlane, PublishBegin, PublishWrite, RetryRead, RecoverRead, ReadDeadLetter,
         RequeueWrite, CallIndex, CallFails
<1>5. ASSUME NEW e \in Delivery, NonTerminal(rec'[e]) PROVE KvCovered(e)'
  <2>1. CASE e # d
    <3>1. rec'[e] = rec[e]
      BY <1>0, <2>1 DEF ControlPlane, PublishBegin, PublishWrite, RetryRead, RecoverRead,
             ReadDeadLetter, RequeueWrite, CallIndex, CallFails, TypeInv, TypeOK
    <3>2. KvCovered(e)
      BY <1>5, <3>1 DEF CoverInv
    <3> QED
      BY <1>0, <1>2, <1>3, <1>4, <2>1, <3>2, KvKeepsCover
  <2>2. CASE e = d /\ (PublishWrite(c, d) \/ RequeueWrite(c, d))
    <3>1. call'[c][d].pc = "call_index"
      BY <1>0, <2>2 DEF PublishWrite, RequeueWrite, SetCall, TypeInv, TypeOK
    <3>2. PICK t : t = call'[c][d].at
      OBVIOUS
    <3>3. ~Doomed(t, d)'
      BY <1>2, <3>2 DEF Doomed, DistinctMillis, Scanning
    <3> QED
      BY <2>2, <3>1, <3>2, <3>3 DEF KvCovered, Doomed
  <2>3. CASE e = d /\ rec' = rec /\ call[c][d].pc # "call_index"
    <3>1. KvCovered(d)
      BY <1>5, <2>3 DEF CoverInv
    <3>2. \A o \in Caller : call[o][d].pc = "call_index" => call'[o][d] = call[o][d]
      BY <1>3, <2>3
    <3> QED
      BY <1>0, <1>2, <1>4, <2>3, <3>1, <3>2, KvKeepsCover
  <2>4. CASE e = d /\ CallIndex(c, d)
    <3>1. KvCovered(d)
      BY <1>5, <2>4 DEF CoverInv, CallIndex
    <3>2. PICK t : t = call[c][d].at
      OBVIOUS
    <3>3. t \in Nat /\ <<t, d>> \in due'
      BY <1>0, <2>4, <3>2 DEF CallIndex, CallAt, TypeInv, TimesPlanned
    <3>4. CASE ~Doomed(t, d)
      BY <1>2, <2>4, <3>3, <3>4 DEF KvCovered, Doomed
    <3>5. CASE Doomed(t, d) /\ \E u \in Nat : <<u, d>> \in due /\ ~Doomed(u, d)
      <4>1. PICK u \in Nat : <<u, d>> \in due' /\ ~Doomed(u, d)'
        BY <1>2, <1>4, <3>5
      <4> QED
        BY <2>4, <4>1 DEF KvCovered
    <3>6. CASE \E p \in Dispatcher : pc[p][d] \in JobWindow /\ ~Doomed(plan[p][d].next, d)
      <4>1. PICK p \in Dispatcher : pc[p][d] \in JobWindow /\ ~Doomed(plan[p][d].next, d)
        BY <3>6
      <4>2. PICK u : u = plan[p][d].next
        OBVIOUS
      <4>3. pc'[p][d] \in JobWindow /\ plan'[p][d].next = u /\ ~Doomed(u, d)'
        BY <1>0, <1>2, <4>1, <4>2
      <4> QED
        BY <2>4, <4>3 DEF KvCovered, Doomed
    <3>7. CASE Doomed(t, d) /\ \E o \in Caller : call[o][d].pc = "call_index" /\ ~Doomed(call[o][d].at, d)
      <4>1. PICK o \in Caller : call[o][d].pc = "call_index" /\ ~Doomed(call[o][d].at, d)
        BY <3>7
      <4>2. o # c /\ call'[o][d] = call[o][d]
        BY <1>3, <3>2, <3>7, <4>1
      <4>3. PICK u : u = call[o][d].at
        OBVIOUS
      <4>4. call'[o][d].pc = "call_index" /\ call'[o][d].at = u /\ ~Doomed(u, d)'
        BY <1>2, <4>1, <4>2, <4>3
      <4> QED
        BY <2>4, <4>4 DEF KvCovered, Doomed
    <3>8. CASE \E p \in Dispatcher : scan[p].pc = "scan_index" /\ Visited(p) = d
      BY <2>4, <3>8 DEF KvCovered, Visited
    <3> QED
      BY <3>1, <3>4, <3>5, <3>6, <3>7, <3>8 DEF KvCovered
  <2>5. \/ PublishWrite(c, d) \/ RequeueWrite(c, d) \/ CallIndex(c, d)
        \/ rec' = rec /\ call[c][d].pc # "call_index"
    BY DEF ControlPlane, PublishBegin, RetryRead, RecoverRead, ReadDeadLetter, CallFails, CallAt,
           KvCrashesOutsideWindows, CrashesOutsideWindows, CallWindow
  <2> QED
    BY <2>1, <2>2, <2>3, <2>4, <2>5
<1> QED
  BY <1>1, <1>5 DEF CoverInv

LEMMA KvCoverTick ==
    ASSUME WorkersKeepUp, ExclInv, CoverInv, KvTick, scan' = scan
    PROVE  CoverInv'
<1>1. /\ UNCHANGED <<rec, due, pc, snap, plan, begun, call, scan>>
      /\ clock' = clock + 1 /\ leaseMs' = leaseMs /\ clock \in Nat
      /\ \A p \in Dispatcher : scan[p].pc = "off"
  BY DEF KvTick, Tick, jobVars, leaseMs, WorkersKeepUp, Scanning, ExclInv, TypeInv, TypeOK
<1>2. ASSUME NEW p \in Dispatcher, NEW d \in Delivery PROVE PlannedLater(p, d)' /\ Fresh(p, d)'
  <2>1. pc[p][d] \notin {"idle", "queued"} => begun[p][d] \in Nat
    BY <1>1 DEF ExclInv, KvSound, OnTime
  <2> QED
    BY <1>1, <2>1 DEF CoverInv, PlannedLater, Fresh
<1>3. ASSUME NEW d \in Delivery, NonTerminal(rec'[d]) PROVE KvCovered(d)'
  BY <1>1, <1>3, KvKeepsCover DEF CoverInv, Doomed
<1> QED
  BY <1>2, <1>3 DEF CoverInv

LEMMA KvCoverCrash ==
    ASSUME KvCrashesOutsideWindows, ExclInv, CoverInv, NEW p \in Dispatcher, Crash(p), scan' = scan
    PROVE  CoverInv'
<1>1. /\ UNCHANGED <<clock, rec, due, call, scan>> /\ leaseMs' = leaseMs
      /\ \A d \in Delivery : pc'[p][d] = "idle" /\ pc[p][d] \notin JobWindow
      /\ \A q \in Dispatcher : q # p => pc'[q] = pc[q] /\ plan'[q] = plan[q] /\ begun'[q] = begun[q]
  BY DEF Crash, leaseMs, ExclInv, TypeInv, TypeOK, KvCrashesOutsideWindows, CrashesOutsideWindows,
         JobWindow
<1>2. \A q \in Dispatcher, d \in Delivery : PlannedLater(q, d)' /\ Fresh(q, d)'
  BY <1>1 DEF CoverInv, PlannedLater, Fresh, Visited, BeforeWrite
<1>3. ASSUME NEW d \in Delivery, NonTerminal(rec'[d]) PROVE KvCovered(d)'
  <2>1. \A q \in Dispatcher : pc[q][d] \in JobWindow =>
            pc'[q][d] \in JobWindow /\ plan'[q][d] = plan[q][d]
    BY <1>1
  <2> QED
    BY <1>1, <1>3, <2>1, KvKeepsCover DEF CoverInv, Doomed
<1> QED
  BY <1>2, <1>3 DEF CoverInv

\* What every step of a scan leaves alone.
LEMMA ScanFrame ==
    ASSUME WorkersKeepUp, ExclInv, NEW p \in Dispatcher, KvClaim(p)
    PROVE  /\ UNCHANGED <<clock, plan, begun, call>>
           /\ \A q \in Dispatcher : q # p => scan'[q] = scan[q] /\ pc'[q] = pc[q]
           /\ \A d \in Delivery : pc[p][d] = "idle" /\ pc'[p][d] \in {"idle", "queued"}
<1>0. /\ scan \in [Dispatcher -> AnyScan] /\ pc \in [Dispatcher -> [Delivery -> JobPc]]
      /\ ScanShape(p)
  BY DEF ExclInv, TypeInv, TypeOK, ScanInv
<1>1. \A d \in Delivery : pc[p][d] = "idle"
  <2>1. ScanKeys(p) \/ scan[p].pc # "off"
    BY ScanAssumption DEF KvClaim, ScanEntry, ScanRecord, ScanSweep, ScanClaim, ScanUnindex,
           ScanIndex, ScanFails, Scanning
  <2> QED
    BY <1>0, <2>1 DEF ScanKeys, ScanShape
<1>2. UNCHANGED <<clock, plan, begun, call>>
  BY DEF KvClaim, ScanKeys, ScanEntry, ScanRecord, ScanSweep, ScanClaim, ScanUnindex, ScanIndex,
         ScanFails, ScanOnly
<1>3. \/ pc' = pc
      \/ \E claimed : pc' = [pc EXCEPT ![p] =
                                [d \in Delivery |-> IF d \in claimed THEN "queued" ELSE "idle"]]
  BY DEF KvClaim, ScanKeys, ScanEntry, ScanRecord, ScanSweep, ScanClaim, ScanUnindex, ScanIndex,
         ScanFails, Continue
<1>4. \E s : scan' = [scan EXCEPT ![p] = s]
  BY DEF KvClaim, ScanKeys, ScanEntry, ScanRecord, ScanSweep, ScanClaim, ScanUnindex, ScanIndex,
         ScanFails, ScanGoto, Continue
<1>5. /\ \A q \in Dispatcher : q # p => pc'[q] = pc[q]
      /\ \A d \in Delivery : pc'[p][d] \in {"idle", "queued"}
  BY <1>0, <1>1, <1>3
<1>6. \A q \in Dispatcher : q # p => scan'[q] = scan[q]
  BY <1>0, <1>4
<1> QED
  BY <1>1, <1>2, <1>5, <1>6

\* A step of a scan that dooms nothing and does not end at the write of a due entry.
LEMMA KvScanKeeps ==
    ASSUME WorkersKeepUp, ExclInv, CoverInv, NEW p \in Dispatcher, KvClaim(p), NEW d \in Delivery,
           NonTerminal(rec[d]), scan'[p].pc # "scan_sweep" \/ Visited(p)' # d,
           scan[p].pc # "scan_index" \/ Visited(p) # d,
           \A t \in Nat : <<t, d>> \in due /\ ~Doomed(t, d) => <<t, d>> \in due'
    PROVE  KvCovered(d)'
<1>0. /\ UNCHANGED <<clock, plan, begun, call>>
      /\ \A q \in Dispatcher : q # p => scan'[q] = scan[q] /\ pc'[q] = pc[q]
      /\ pc[p][d] = "idle"
  BY ScanFrame
<1>1. ASSUME NEW t, Doomed(t, d)' PROVE Doomed(t, d)
  <2>1. PICK q \in Dispatcher : scan'[q].pc = "scan_sweep" /\ scan'[q].key = <<t, d>>
    BY <1>1 DEF Doomed
  <2>2. q # p
    BY <2>1 DEF Visited
  <2> QED
    BY <1>0, <2>1, <2>2 DEF Doomed
<1>2. KvCovered(d)
  BY DEF CoverInv
<1>3. \A q \in Dispatcher : pc[q][d] \in JobWindow =>
        pc'[q][d] \in JobWindow /\ plan'[q][d] = plan[q][d]
  BY <1>0 DEF JobWindow
<1>4. \A q \in Dispatcher : scan[q].pc = "scan_index" /\ Visited(q) = d => scan'[q] = scan[q]
  BY <1>0
<1> QED
  BY <1>0, <1>1, <1>2, <1>3, <1>4, KvKeepsCover

LEMMA KvCoverScan ==
    ASSUME WorkersKeepUp, HasCompareAndSwap, KvCrashesOutsideWindows, ExclInv, CoverInv,
           NEW p \in Dispatcher, KvClaim(p)
    PROVE  CoverInv'
<1>0. /\ UNCHANGED <<clock, plan, begun, call>> /\ leaseMs' = leaseMs /\ TypeInv
      /\ \A q \in Dispatcher : q # p => scan'[q] = scan[q] /\ pc'[q] = pc[q]
      /\ \A d \in Delivery : pc[p][d] = "idle" /\ pc'[p][d] \in {"idle", "queued"}
      /\ scan \in [Dispatcher -> AnyScan] /\ scan[p] \in AnyScan /\ ScanShape(p)
      /\ "scan_index" \notin CrashPoints
  BY ScanFrame DEF leaseMs, ExclInv, ScanInv, KvCrashesOutsideWindows
<1>1. ASSUME NEW claimed, Continue(p, claimed) PROVE scan'[p].pc \in {"off", "scan_entry"}
  <2>1. \/ scan' = [scan EXCEPT ![p] = NoScan]
        \/ \E k, rest : scan' = [scan EXCEPT ![p] =
                        [@ EXCEPT !.pc = "scan_entry", !.todo = rest, !.key = k,
                                  !.seen = AbsentRecord, !.claimed = claimed]]
    BY <1>1 DEF Continue
  <2>2. CASE scan' = [scan EXCEPT ![p] = NoScan]
    <3>1. scan'[p] = NoScan
      BY <1>0, <2>2
    <3> QED
      BY <3>1 DEF NoScan
  <2>3. ASSUME NEW k, NEW rest,
               scan' = [scan EXCEPT ![p] = [@ EXCEPT !.pc = "scan_entry", !.todo = rest, !.key = k,
                                                     !.seen = AbsentRecord, !.claimed = claimed]]
        PROVE  scan'[p].pc = "scan_entry"
    BY <1>0, <2>3 DEF AnyScan
  <2> QED
    BY <2>1, <2>2, <2>3
<1>2. ASSUME NEW step, NEW r, ScanGoto(p, step, r)
      PROVE  scan'[p].pc = step /\ scan'[p].key = scan[p].key
  BY <1>0, <1>2 DEF ScanGoto, AnyScan
<1>3. ASSUME NEW d \in Delivery, scan'[p].pc = "scan_sweep", Visited(p)' = d
      PROVE  ~NonTerminal(rec[d]) /\ rec' = rec
  <2>1. ScanRecord(p)
    <3>1. CASE ScanKeys(p)
      <4>1. \E n, t, k : scan' = [scan EXCEPT ![p] =
                        [@ EXCEPT !.pc = "scan_entry", !.now = n, !.todo = t, !.key = k]]
        BY <3>1 DEF ScanKeys
      <4> QED
        BY <1>0, <1>3, <4>1 DEF AnyScan
    <3>2. CASE ScanFails(p)
      BY <1>0, <1>3, <3>2 DEF ScanFails, NoScan
    <3>3. CASE ~ScanKeys(p) /\ ~ScanFails(p) /\ ~ScanRecord(p)
      BY <1>1, <1>2, <1>3, <3>3 DEF KvClaim, ScanEntry, ScanSweep, ScanClaim, ScanUnindex, ScanIndex
    <3> QED
      BY <3>1, <3>2, <3>3
  <2>2. ScanGoto(p, "scan_sweep", AbsentRecord) /\ ~NonTerminal(rec[Visited(p)]) /\ rec' = rec
    BY <1>1, <1>2, <1>3, <2>1 DEF ScanRecord, ScanOnly
  <2> QED
    BY <1>2, <1>3, <2>2 DEF Visited
<1>4. ASSUME NEW q \in Dispatcher, NEW d \in Delivery PROVE PlannedLater(q, d)' /\ Fresh(q, d)'
  <2>1. CASE q = p
    BY <1>0, <2>1 DEF PlannedLater, Fresh, BeforeWrite
  <2>2. CASE q # p
    <3>1. pc'[q][d] = pc[q][d] /\ PlannedLater(q, d) /\ Fresh(q, d)
      BY <1>0, <2>2 DEF CoverInv
    <3>2. PlannedLater(q, d)'
      BY <1>0, <3>1 DEF PlannedLater
    <3>3. CASE scan'[p].pc = "scan_sweep" /\ Visited(p)' = d
      <4>1. rec[d].status # "delivering"
        BY <1>3, <3>3 DEF NonTerminal
      <4>2. pc[q][d] \notin BeforeWrite
        BY <4>1 DEF ExclInv, KvSound, Leased
      <4> QED
        BY <3>1, <3>2, <4>2 DEF Fresh
    <3>4. CASE ~(scan'[p].pc = "scan_sweep" /\ Visited(p)' = d)
      <4>1. \A o \in Dispatcher : scan'[o].pc = "scan_sweep" /\ Visited(o)' = d =>
                scan[o].pc = "scan_sweep" /\ Visited(o) = d
        BY <1>0, <3>4 DEF Visited
      <4> QED
        BY <1>0, <3>1, <3>2, <4>1 DEF Fresh
    <3> QED
      BY <3>3, <3>4
  <2> QED
    BY <2>1, <2>2
<1>5. ASSUME NEW d \in Delivery, NonTerminal(rec'[d]) PROVE KvCovered(d)'
  <2>1. NonTerminal(rec[d])
    <3>1. CASE rec' = rec
      BY <1>5, <3>1
    <3>2. CASE ScanClaim(p) /\ Wins(p)
      <4>1. CASE d = Visited(p)
        BY <3>2, <4>1, ExclWins DEF NonTerminal
      <4>2. CASE d # Visited(p)
        <5>1. rec'[d] = rec[d]
          BY <1>0, <3>2, <4>2 DEF ScanClaim, TypeInv, TypeOK
        <5> QED
          BY <1>5, <5>1
      <4> QED
        BY <4>1, <4>2
    <3> QED
      BY <3>1, <3>2 DEF KvClaim, ScanKeys, ScanEntry, ScanRecord, ScanSweep, ScanClaim,
         ScanUnindex, ScanIndex, ScanFails, ScanOnly
  <2>2. ~(scan'[p].pc = "scan_sweep" /\ Visited(p)' = d)
    BY <1>3, <1>5
  <2>3. CASE scan[p].pc = "scan_index" /\ Visited(p) = d
    <3>1. ScanIndex(p)
      BY <1>0, <2>3 DEF KvClaim, ScanKeys, ScanEntry, ScanRecord, ScanSweep, ScanClaim, ScanUnindex,
             ScanFails, Scanning
    <3>2. PICK t : t = clock + leaseMs
      OBVIOUS
    <3>3. t \in Nat /\ t > clock /\ clock \in Nat /\ <<t, d>> \in due'
      <4>1. leaseMs > 0 /\ leaseMs \in Nat /\ clock \in Nat
        BY <1>0, LeaseIsNat, LeaseAssumption DEF leaseMs, TypeInv, TypeOK
      <4>2. <<t, d>> \in due'
        BY <1>0, <2>3, <3>1, <3>2 DEF ScanIndex, ScanShape
      <4> QED
        BY <3>2, <4>1, <4>2
    <3>4. ~Doomed(t, d)'
      <4>1. Continue(p, scan[p].claimed \cup {Visited(p)})
        BY <3>1 DEF ScanIndex
      <4>2. scan'[p].pc # "scan_sweep"
        BY <1>1, <4>1
      <4>3. Doomed(t, d)' => Doomed(t, d)
        BY <1>0, <4>2 DEF Doomed
      <4> QED
        BY <3>3, <4>3, DoomedIsPast
    <3> QED
      BY <3>3, <3>4 DEF KvCovered
  <2>4. CASE ScanUnindex(p) /\ Visited(p) = d
    <3>1. scan'[p].pc = "scan_index" /\ scan'[p].key = scan[p].key
      BY <1>2, <2>4 DEF ScanUnindex
    <3> QED
      BY <2>4, <3>1 DEF KvCovered, Visited
  <2>5. CASE ~(scan[p].pc = "scan_index" /\ Visited(p) = d) /\ ~(ScanUnindex(p) /\ Visited(p) = d)
    <3>1. ASSUME NEW t \in Nat, <<t, d>> \in due, ~Doomed(t, d) PROVE <<t, d>> \in due'
      <4>1. CASE ScanSweep(p)
        BY <3>1, <4>1 DEF ScanSweep, Scanning, Doomed
      <4>2. CASE ScanUnindex(p)
        BY <2>5, <3>1, <4>2 DEF ScanUnindex, Visited
      <4> QED
        BY <3>1, <4>1, <4>2 DEF KvClaim, ScanKeys, ScanEntry, ScanRecord, ScanClaim, ScanIndex,
           ScanFails, ScanOnly
    <3> QED
      BY <2>1, <2>2, <2>5, <3>1, KvScanKeeps
  <2> QED
    BY <2>3, <2>4, <2>5
<1> QED
  BY <1>4, <1>5 DEF CoverInv

LEMMA KvCoverStep ==
    ASSUME WorkersKeepUp, HasCompareAndSwap, KvCrashesOutsideWindows, RetriesWait
    PROVE  ExclInv /\ CoverInv /\ [KvNext]_kvVars => CoverInv'
<1> SUFFICES ASSUME ExclInv, CoverInv, [KvNext]_kvVars PROVE CoverInv'
  OBVIOUS
<1>1. ASSUME UNCHANGED <<clock, rec, due, jobVars, call, scan>> PROVE CoverInv'
  <2>1. leaseMs' = leaseMs
    BY DEF leaseMs
  <2>2. \A p \in Dispatcher, d \in Delivery : PlannedLater(p, d)' /\ Fresh(p, d)'
    BY <1>1, <2>1 DEF CoverInv, PlannedLater, Fresh, Visited, jobVars
  <2>3. ASSUME NEW d \in Delivery, NonTerminal(rec'[d]) PROVE KvCovered(d)'
    BY <1>1, <2>3, KvKeepsCover DEF CoverInv, Doomed, jobVars
  <2> QED
    BY <2>2, <2>3 DEF CoverInv
<1>2. ASSUME NEW p \in Dispatcher, KvClaim(p) PROVE CoverInv'
  BY <1>2, KvCoverScan
<1>3. CASE KvTick /\ UNCHANGED scan
  BY <1>3, KvCoverTick
<1>4. ASSUME NEW p \in Dispatcher, Crash(p), UNCHANGED scan PROVE CoverInv'
  BY <1>4, KvCoverCrash
<1>5. ASSUME NEW p \in Dispatcher, NEW d \in Delivery, ProcessClaim(p, d), UNCHANGED scan
      PROVE  CoverInv'
  BY <1>5, KvCoverProcess
<1>6. ASSUME NEW c \in Caller, NEW d \in Delivery, ControlPlane(c, d), DistinctMillis(c, d),
             UNCHANGED scan
      PROVE  CoverInv'
  BY <1>6, KvCoverCall
<1>7. ASSUME NEW e \in Endpoint, NEW state \in {"enabled", "disabled", "deleted"},
             SetEndpoint(e, state), UNCHANGED scan
      PROVE  CoverInv'
  BY <1>1, <1>7 DEF SetEndpoint
<1>8. CASE UNCHANGED kvVars
  BY <1>1, <1>8 DEF kvVars, vars, jobVars
<1> QED
  BY <1>2, <1>3, <1>4, <1>5, <1>6, <1>7, <1>8 DEF KvNext

\* A delivery that is not terminal keeps a due entry by which a later scan finds it, or a live
\* actor is about to write one, on a storage whose index a scan sweeps in calls of its own: what a
\* scan removes is the entry of a delivery it read as terminal, and whoever makes the delivery
\* pending since then writes another one (claimDueDeliveries, writeDeliveryWithDue).
THEOREM NothingStrandedOnKv ==
    ASSUME WorkersKeepUp, HasCompareAndSwap, KvCrashesOutsideWindows, RetriesWait
    PROVE  KvSpec /\ []ReplaysApart => []KvDueCoverage
<1>1. ExclInv /\ CoverInv /\ [KvNext]_kvVars => CoverInv'
  BY KvCoverStep
<1>2. CoverInv => KvDueCoverage
  <2> SUFFICES ASSUME CoverInv, NEW d \in Delivery, NonTerminal(rec[d])
               PROVE  \/ InHand(d)
                      \/ DueOf(d) # {}
                      \/ \E p \in Dispatcher : Scanning(p, "scan_index") /\ Visited(p) = d
    BY DEF KvDueCoverage
  <2>1. ASSUME NEW t \in Nat, <<t, d>> \in due PROVE DueOf(d) # {}
    <3>1. <<t, d>> \in DueOf(d)
      BY <2>1 DEF DueOf
    <3> QED
      BY <3>1
  <2>2. KvCovered(d)
    BY DEF CoverInv
  <2> QED
    BY <2>1, <2>2 DEF KvCovered, InHand, Scanning, CallWindow
<1> QED
  BY <1>1, <1>2, KvCoverInit, ExclHolds, PTL DEF KvSpec

------------------------------------------------------------------------------
(* Redis. The claim writes the record without comparing it. What keeps two      *)
(* claimers apart is that they pop different members, and that a delivery has    *)
(* one due key: the lock is the key, and a member whose key is gone opens        *)
(* nothing.                                                                      *)

NoDue(d) == \A t \in Nat : <<t, d>> \notin due

\* The claim of p has the member of this key still before it, or is at its commands.
Waits(p, t, d) ==
    /\ pop[p].pc # "off"
    /\ <<t, d>> \in pop[p].todo \/ (pop[p].pc = "pop_entry" /\ pop[p].key = <<t, d>>)

On(p, t, d) == pop[p].pc \notin {"off", "pop_entry"} /\ pop[p].key = <<t, d>>

\* p has popped the member and not removed it.
Hand(p, t, d) == Waits(p, t, d) \/ (On(p, t, d) /\ pop[p].pc \notin {"pop_set", "pop_zadd"})

\* p has found the due key of d, and has not started its workers yet.
PopOwns(p, d) ==
    \/ d \in pop[p].claimed
    \/ pop[p].pc # "pop_sweep_zrem" /\ \E t \in Nat : On(p, t, d)

Free(d) == \A p \in Dispatcher : ~Holds(p, d) /\ ~PopOwns(p, d)

\* The claim as it was written, in this very instant.
PopWon(p, d) ==
    /\ rec[d] = snap[p][d] /\ rec[d].status = "delivering"
    /\ rec[d].leaseUntil = clock + leaseMs

\* A claimer or a worker died between the removal of a due key and the write of the next one.
Lost(d) == rec[d].status = "delivering" /\ NoDue(d) /\ Free(d)

\* What p knows of the delivery it is at, command by command.
Step(p, t, d) ==
    /\ pop[p].pc \in {"pop_record", "pop_write", "pop_del"} => <<t, d>> \in due
    /\ pop[p].pc = "pop_write" => rec[d] = pop[p].seen
    /\ pop[p].pc \in {"pop_zrem", "pop_set"} => NoDue(d)
    /\ pop[p].pc = "pop_zadd" => <<clock + leaseMs, d>> \in due
    /\ pop[p].pc \in {"pop_del", "pop_zrem", "pop_set", "pop_zadd"} => PopWon(p, d)
    /\ pop[p].pc = "pop_sweep_zrem" => Lost(d) \/ d \in Deleted
    /\ d \in pop[p].claimed => pop[p].pc = "pop_sweep_zrem"

PoppedOnce(d) ==
    \A p \in Dispatcher :
        /\ PopOwns(p, d) => \A q \in Dispatcher : ~Holds(q, d) /\ (PopOwns(q, d) => q = p)
        /\ d \in pop[p].claimed => PopWon(p, d) /\ <<clock + leaseMs, d>> \in due
        /\ \A t \in Nat : On(p, t, d) => Step(p, t, d)

\* Who has popped a member has hidden it from the others, and its due key is there or it never
\* comes back.
HandsApart(d) ==
    \A p \in Dispatcher, t \in Nat :
        /\ Hand(p, t, d) =>
            /\ \A m \in zset : m.key = <<t, d>> => clock < m.score
            /\ \A q \in Dispatcher : Hand(q, t, d) => q = p
        /\ Waits(p, t, d) => <<t, d>> \in due \/ Lost(d) \/ d \in Deleted

Behind(a, d) == \E t \in TimeOrNone : mirror[a][d] \in {Zadd(<<t, d>>), Zrem(<<t, d>>)}

\* A command still to be sent: a removal is its owner's; an addition is of the one due key, of
\* which there is no member anywhere.
MirrorSound(d) ==
    \A a \in Actor :
        /\ mirror[a][d] = NoCommand \/ Behind(a, d)
        /\ \A t \in TimeOrNone : mirror[a][d] = Zrem(<<t, d>>) =>
            /\ a \in Dispatcher /\ pc[a][d] \in {"unindex_lease", "write", "hold_write"}
            /\ \A m \in zset : m.key = <<t, d>> => t = rec[d].leaseUntil /\ NoDue(d)
        /\ \A t \in TimeOrNone : mirror[a][d] = Zadd(<<t, d>>) =>
            /\ t \in Nat /\ <<t, d>> \in due /\ Free(d)
            /\ \A b \in Actor : mirror[b][d] # NoCommand => b = a
            /\ \A m \in zset : m.key # <<t, d>>
            /\ \A p \in Dispatcher : ~Waits(p, t, d)

\* A member has its due key, or is about to be removed, or leads nowhere for ever.
MembersSound(d) ==
    \A m \in zset, t \in Nat : m.key = <<t, d>> =>
        \/ <<t, d>> \in due
        \/ \E p \in Dispatcher : mirror[p][d] = Zrem(<<t, d>>)
        \/ \E p \in Dispatcher : On(p, t, d) /\ pop[p].pc = "pop_zrem"
        \/ Lost(d) \/ d \in Deleted

Untouched(d) ==
    d \in Deleted => rec[d] = AbsentRecord /\ NoDue(d) /\ \A c \in Caller : call[c][d] = IdleCall

RedisSound(d) ==
    /\ PoppedOnce(d)
    /\ HandsApart(d)
    /\ MirrorSound(d)
    /\ MembersSound(d)
    /\ Untouched(d)

AnyPop == [pc: PopPc \ {"pop_sweep_del"}, now: Nat, todo: SUBSET Key, key: Key \cup {NoPop.key},
           seen: Record, claimed: SUBSET Delivery]

AnyCommand == {NoCommand} \cup [op: {"zadd", "zrem"}, key: TimeOrNone \X Delivery]

\* A claim is over before the clock moves on, and before its dispatcher works on it.
PopShape(p) ==
    /\ pop[p].pc = "off" => pop[p] = NoPop
    /\ pop[p].pc # "off" =>
        /\ pop[p].now = clock
        /\ pop[p].key \in Key /\ pop[p].key[1] <= clock /\ pop[p].key \notin pop[p].todo
        /\ \A k \in pop[p].todo : k[1] <= clock
        /\ IsFiniteSet(pop[p].todo) /\ IsFiniteSet(pop[p].claimed)
        /\ Cardinality(pop[p].claimed) + Cardinality(pop[p].todo) < BatchSize
        /\ \A d \in Delivery : pc[p][d] = "idle" /\ mirror[p][d] = NoCommand

PopTypes ==
    /\ pop \in [Dispatcher -> AnyPop]
    /\ mirror \in [Actor -> [Delivery -> AnyCommand]]
    /\ \A p \in Dispatcher : PopShape(p)

\* A due key has one member, which does not surface before its time.
ZsetSound ==
    /\ zset \subseteq [key: Key, score: Nat] /\ IsFiniteSet(zset)
    /\ \A m, n \in zset : m.key = n.key => m = n
    /\ \A m \in zset : m.key[1] <= m.score

RedisInv == LeaseInv /\ PopTypes /\ ZsetSound /\ \A d \in Delivery : RedisSound(d)

\* The view that the claims have of d is as it was.
SameView(d) ==
    \A q \in Dispatcher :
        /\ \A t \in Nat : Waits(q, t, d)' <=> Waits(q, t, d)
        /\ \A t \in Nat : On(q, t, d)' <=> On(q, t, d)
        /\ \A t \in Nat : On(q, t, d) => pop'[q].pc = pop[q].pc /\ pop'[q].seen = pop[q].seen
        /\ d \in pop'[q].claimed <=> d \in pop[q].claimed

\* What is known of the claims of d, of who has popped its members and of a deleted d, when none of
\* them moves.
LEMMA ViewFrame ==
    ASSUME NEW d \in Delivery, RedisSound(d), clock' = clock, rec'[d] = rec[d],
           \A t \in Nat : <<t, d>> \in due' <=> <<t, d>> \in due,
           \A m \in zset', t \in Nat : m.key = <<t, d>> =>
              \/ \E n \in zset : n.key = <<t, d>> /\ (clock < n.score => clock < m.score)
              \/ \A q \in Dispatcher : ~Hand(q, t, d),
           \A q \in Dispatcher : Holds(q, d)' => Holds(q, d),
           \A q \in Dispatcher : PopOwns(q, d) => snap'[q][d] = snap[q][d],
           d \in Deleted => \A c \in Caller : call'[c][d] = call[c][d],
           SameView(d), clock + leaseMs \in Nat
    PROVE  /\ PoppedOnce(d)' /\ HandsApart(d)' /\ Untouched(d)'
           /\ (Free(d) => Free(d)') /\ (Lost(d) => Lost(d)')
           /\ Deleted' = Deleted
<1>1. \A q \in Dispatcher : PopOwns(q, d)' <=> PopOwns(q, d)
  BY DEF SameView, PopOwns
<1>2. \A q \in Dispatcher, t \in Nat : Hand(q, t, d)' <=> Hand(q, t, d)
  BY DEF SameView, Hand
<1>3. NoDue(d)' <=> NoDue(d)
  BY DEF NoDue
<1>4. (Free(d) => Free(d)') /\ (Lost(d) => Lost(d)')
  BY <1>1, <1>3 DEF Free, Lost
<1>5. leaseMs' = leaseMs /\ Deleted' = Deleted
  BY DEF leaseMs, Deleted
<1>6. PoppedOnce(d)'
  <2>1. \A q \in Dispatcher : PopOwns(q, d) => (PopWon(q, d) => PopWon(q, d)')
    BY <1>5 DEF PopWon
  <2>2. ASSUME NEW p \in Dispatcher, PopOwns(p, d)', NEW q \in Dispatcher
        PROVE  ~Holds(q, d)' /\ (PopOwns(q, d)' => q = p)
    BY <1>1, <2>2 DEF RedisSound, PoppedOnce
  <2>3. ASSUME NEW p \in Dispatcher, (d \in pop[p].claimed)'
        PROVE  PopWon(p, d)' /\ (<<clock + leaseMs, d>> \in due)'
    <3>1. d \in pop[p].claimed /\ PopOwns(p, d)
      BY <2>3 DEF SameView, PopOwns
    <3>2. PopWon(p, d) /\ <<clock + leaseMs, d>> \in due /\ clock + leaseMs \in Nat
      BY <3>1 DEF RedisSound, PoppedOnce
    <3> QED
      BY <1>5, <2>1, <3>1, <3>2
  <2>4. ASSUME NEW p \in Dispatcher, NEW t \in Nat, On(p, t, d)' PROVE Step(p, t, d)'
    <3>1. On(p, t, d) /\ Step(p, t, d)
      BY <2>4 DEF SameView, RedisSound, PoppedOnce
    <3>2. pop'[p].pc = pop[p].pc /\ pop'[p].seen = pop[p].seen
          /\ (d \in pop'[p].claimed <=> d \in pop[p].claimed)
      BY <3>1 DEF SameView
    <3>3. pop[p].pc # "pop_sweep_zrem" => PopOwns(p, d)
      BY <3>1 DEF PopOwns
    <3>4. pop[p].pc = "pop_zadd" => (<<clock + leaseMs, d>> \in due)'
      BY <1>5, <3>1 DEF Step
    <3> QED
      BY <1>3, <1>4, <1>5, <2>1, <3>1, <3>2, <3>3, <3>4 DEF Step
  <2> QED
    BY <2>2, <2>3, <2>4 DEF PoppedOnce
<1>7. HandsApart(d)'
  <2>1. \A p \in Dispatcher, t \in Nat : Hand(p, t, d) =>
            /\ \A m \in zset' : m.key = <<t, d>> => clock < m.score
            /\ \A q \in Dispatcher : Hand(q, t, d) => q = p
    <3> TAKE p \in Dispatcher, t \in Nat
    <3> HAVE Hand(p, t, d)
    <3>1. /\ \A m \in zset : m.key = <<t, d>> => clock < m.score
          /\ \A q \in Dispatcher : Hand(q, t, d) => q = p
      BY DEF RedisSound, HandsApart
    <3> QED
      BY <3>1, Zenon
  <2>2. \A p \in Dispatcher, t \in Nat : Waits(p, t, d) => <<t, d>> \in due' \/ Lost(d)' \/ d \in Deleted
    BY <1>4 DEF RedisSound, HandsApart
  <2> QED
    BY <1>2, <1>5, <2>1, <2>2 DEF HandsApart, SameView
<1>8. Untouched(d)'
  BY <1>3, <1>5 DEF RedisSound, Untouched
<1> QED
  BY <1>4, <1>5, <1>6, <1>7, <1>8

\* A step that leaves a delivery, its members and the commands for it alone.
LEMMA RedisFrame ==
    ASSUME NEW d \in Delivery, RedisSound(d), clock' = clock, rec'[d] = rec[d],
           \A t \in Nat : <<t, d>> \in due' <=> <<t, d>> \in due,
           \A m \in zset', t \in TimeOrNone : m.key = <<t, d>> =>
              \E n \in zset : n.key = <<t, d>> /\ (clock < n.score => clock < m.score),
           \A a \in Actor : mirror'[a][d] = mirror[a][d],
           \A q \in Dispatcher : Holds(q, d)' => Holds(q, d),
           \A q \in Dispatcher : mirror[q][d] # NoCommand => pc'[q][d] = pc[q][d],
           \A q \in Dispatcher : PopOwns(q, d) => snap'[q][d] = snap[q][d],
           d \in Deleted => \A c \in Caller : call'[c][d] = call[c][d],
           SameView(d), clock + leaseMs \in Nat
    PROVE  RedisSound(d)'
<1>1. /\ PoppedOnce(d)' /\ HandsApart(d)' /\ Untouched(d)'
      /\ (Free(d) => Free(d)') /\ (Lost(d) => Lost(d)')
      /\ Deleted' = Deleted
  BY ViewFrame DEF TimeOrNone
<1>3. NoDue(d)' <=> NoDue(d)
  BY DEF NoDue
<1>8. MirrorSound(d)'
  <2> SUFFICES ASSUME NEW a \in Actor PROVE
        /\ (mirror[a][d] = NoCommand \/ Behind(a, d))'
        /\ \A t \in TimeOrNone : mirror'[a][d] = Zrem(<<t, d>>) =>
            /\ a \in Dispatcher /\ pc'[a][d] \in {"unindex_lease", "write", "hold_write"}
            /\ \A m \in zset' : m.key = <<t, d>> => t = rec'[d].leaseUntil /\ NoDue(d)'
        /\ \A t \in TimeOrNone : mirror'[a][d] = Zadd(<<t, d>>) =>
            /\ t \in Nat /\ <<t, d>> \in due' /\ Free(d)'
            /\ \A b \in Actor : mirror'[b][d] # NoCommand => b = a
            /\ \A m \in zset' : m.key # <<t, d>>
            /\ \A p \in Dispatcher : ~Waits(p, t, d)'
    BY DEF MirrorSound
  <2>1. (mirror[a][d] = NoCommand \/ Behind(a, d))'
    BY DEF RedisSound, MirrorSound, Behind
  <2>3. ASSUME NEW t \in TimeOrNone, mirror'[a][d] = Zrem(<<t, d>>)
        PROVE  /\ a \in Dispatcher /\ pc'[a][d] \in {"unindex_lease", "write", "hold_write"}
               /\ \A m \in zset' : m.key = <<t, d>> => t = rec'[d].leaseUntil /\ NoDue(d)'
    <3>1. mirror[a][d] = Zrem(<<t, d>>) /\ mirror[a][d] # NoCommand
      BY <2>3 DEF Zrem, NoCommand
    <3> QED
      BY <1>3, <3>1 DEF RedisSound, MirrorSound
  <2>4. ASSUME NEW t \in TimeOrNone, mirror'[a][d] = Zadd(<<t, d>>)
        PROVE  /\ t \in Nat /\ <<t, d>> \in due' /\ Free(d)'
               /\ \A b \in Actor : mirror'[b][d] # NoCommand => b = a
               /\ \A m \in zset' : m.key # <<t, d>>
               /\ \A p \in Dispatcher : ~Waits(p, t, d)'
    <3>1. mirror[a][d] = Zadd(<<t, d>>)
      BY <2>4
    <3>2. /\ t \in Nat /\ <<t, d>> \in due /\ Free(d)
          /\ \A b \in Actor : mirror[b][d] # NoCommand => b = a
          /\ \A m \in zset : m.key # <<t, d>>
          /\ \A p \in Dispatcher : ~Waits(p, t, d)
      BY <3>1 DEF RedisSound, MirrorSound
    <3> QED
      BY <1>1, <3>2 DEF SameView
  <2> QED
    BY <2>1, <2>3, <2>4
<1>9. MembersSound(d)'
  <2>1. \A m \in zset', t \in Nat : m.key = <<t, d>> => \E n \in zset : n.key = <<t, d>>
    BY DEF TimeOrNone
  <2>2. \A p \in Dispatcher, t \in Nat :
            /\ mirror[p][d] = Zrem(<<t, d>>) => mirror'[p][d] = Zrem(<<t, d>>)
            /\ On(p, t, d) /\ pop[p].pc = "pop_zrem" => On(p, t, d)' /\ pop'[p].pc = "pop_zrem"
    BY DEF SameView, Actor
  <2>3. \A n \in zset, t \in Nat : n.key = <<t, d>> =>
            \/ <<t, d>> \in due'
            \/ \E p \in Dispatcher : mirror'[p][d] = Zrem(<<t, d>>)
            \/ \E p \in Dispatcher : On(p, t, d)' /\ pop'[p].pc = "pop_zrem"
            \/ Lost(d)' \/ d \in Deleted
    BY <1>1, <2>2 DEF RedisSound, MembersSound
  <2> QED
    BY <1>1, <2>1, <2>3 DEF MembersSound
<1> QED
  BY <1>1, <1>8, <1>9 DEF RedisSound

LEMMA CommandsDiffer ==
    ASSUME NEW k, NEW l
    PROVE  /\ Zadd(k) # NoCommand /\ Zrem(k) # NoCommand /\ Zadd(k) # Zrem(l)
           /\ (Zadd(k) = Zadd(l) => k = l) /\ (Zrem(k) = Zrem(l) => k = l)
<1>1. Zadd(k).op = "zadd" /\ Zrem(l).op = "zrem" /\ Zrem(k).op = "zrem" /\ NoCommand.op = "none"
  BY DEF Zadd, Zrem, NoCommand
<1>2. Zadd(k).key = k /\ Zadd(l).key = l /\ Zrem(k).key = k /\ Zrem(l).key = l
  BY DEF Zadd, Zrem
<1> QED
  BY <1>1, <1>2

\* Nothing of d is in the sorted set, under way to it, or popped from it.
Bare(d) ==
    /\ \A q \in Dispatcher : d \notin pop[q].claimed /\ \A t \in Nat : ~On(q, t, d) /\ ~Waits(q, t, d)
    /\ \A a \in Actor : mirror[a][d] = NoCommand
    /\ \A m \in zset, t \in Nat : m.key # <<t, d>>
    /\ d \notin Deleted

LEMMA BareIsSound ==
    ASSUME NEW d \in Delivery, Bare(d), UNCHANGED <<zset, pop>>,
           \A a \in Actor : mirror'[a][d] = NoCommand
    PROVE  RedisSound(d)'
<1>1. Bare(d)'
  BY DEF Bare, On, Waits, Deleted
<1> QED
  BY <1>1 DEF Bare, RedisSound, PoppedOnce, PopOwns, HandsApart, Hand, MirrorSound, MembersSound,
              Untouched, NoCommand, Zadd, Zrem

\* A delivery that waits for the write of its due key is bare.
LEMMA UnscheduledIsBare ==
    ASSUME RedisInv, NEW d \in Delivery, NoDue(d), rec[d].status # "delivering", d \notin Deleted
    PROVE  Bare(d)
<1>1. PoppedOnce(d) /\ HandsApart(d) /\ MirrorSound(d) /\ MembersSound(d)
  BY DEF RedisInv, RedisSound
<1>2. ~Lost(d) /\ \A q \in Dispatcher : ~PopWon(q, d)
  BY DEF Lost, PopWon
<1>3. \A q \in Dispatcher, t \in Nat : ~On(q, t, d)
  BY <1>1, <1>2 DEF PoppedOnce, On, NoDue, Step, RedisInv, PopTypes, AnyPop, PopPc
<1>4. \A q \in Dispatcher : d \notin pop[q].claimed
  BY <1>1, <1>2 DEF PoppedOnce
<1>5. \A q \in Dispatcher, t \in Nat : ~Waits(q, t, d)
  BY <1>1, <1>2 DEF HandsApart, NoDue
<1>6. \A a \in Actor : mirror[a][d] = NoCommand
  <2> SUFFICES ASSUME NEW a \in Actor, mirror[a][d] # NoCommand PROVE FALSE
    OBVIOUS
  <2>1. PICK t \in TimeOrNone : mirror[a][d] \in {Zadd(<<t, d>>), Zrem(<<t, d>>)}
    BY <1>1 DEF MirrorSound, Behind
  <2>2. CASE mirror[a][d] = Zadd(<<t, d>>)
    BY <2>2, <1>1 DEF MirrorSound, NoDue
  <2>3. CASE mirror[a][d] = Zrem(<<t, d>>)
    <3>1. a \in Dispatcher /\ pc[a][d] \in BeforeWrite
      BY <2>3, <1>1 DEF MirrorSound, BeforeWrite
    <3> QED
      BY <3>1 DEF RedisInv, LeaseInv, Sound, Leased
  <2> QED
    BY <2>1, <2>2, <2>3
<1>7. \A m \in zset, t \in Nat : m.key # <<t, d>>
  <2>1. \A q \in Dispatcher, t \in Nat : mirror[q][d] # Zrem(<<t, d>>)
    BY <1>6, CommandsDiffer DEF Actor
  <2> QED
    BY <1>1, <1>2, <1>3, <2>1 DEF MembersSound, NoDue
<1> QED
  BY <1>3, <1>4, <1>5, <1>6, <1>7 DEF Bare

LEMMA LeaseRuns ==
    ASSUME TypeInv, NEW d \in Delivery, Sound(d), NEW p \in Dispatcher, pc[p][d] \in BeforeWrite
    PROVE  rec[d].leaseUntil \in Nat /\ clock < rec[d].leaseUntil
<1>1. clock \in Nat /\ rec[d] \in Record
  BY DEF TypeInv, TypeOK
<1>2. clock < rec[d].leaseUntil
  BY <1>1, LeaseOutlasts DEF Sound
<1> QED
  BY <1>1, <1>2 DEF Record, TimeOrNone, NoTime

LEMMA ClaimRuns ==
    ASSUME TypeInv
    PROVE  clock \in Nat /\ leaseMs \in Nat /\ clock + leaseMs \in Nat /\ clock < clock + leaseMs
<1>1. clock \in Nat /\ leaseMs \in Nat /\ leaseMs > 0
  BY LeaseAssumption DEF TypeInv, TypeOK, leaseMs
<1> QED
  BY <1>1

\* Nobody else has anything of a delivery that a worker owns.
LEMMA OwnedAlone ==
    ASSUME RedisInv, NEW d \in Delivery, NEW p \in Dispatcher, Holds(p, d)
    PROVE  /\ \A q \in Dispatcher : d \notin pop[q].claimed
           /\ \A q \in Dispatcher, t \in Nat : ~On(q, t, d) /\ ~Waits(q, t, d)
           /\ \A a \in Actor : a # p => mirror[a][d] = NoCommand
           /\ \A t \in TimeOrNone : mirror[p][d] # Zadd(<<t, d>>)
           /\ d \notin Deleted /\ ~Lost(d)
<1>1. PoppedOnce(d) /\ HandsApart(d) /\ MirrorSound(d) /\ Untouched(d) /\ Sound(d) /\ TypeInv
  BY DEF RedisInv, RedisSound, LeaseInv
<1>2. ~Free(d) /\ ~Lost(d) /\ \A q \in Dispatcher : ~PopOwns(q, d)
  BY <1>1 DEF Free, Lost, PoppedOnce
<1>3. d \notin Deleted
  <2>1. rec[d].status # "absent"
    BY <1>1 DEF Sound, Leased, Released, Holds
  <2> QED
    BY <1>1, <2>1 DEF Untouched, AbsentRecord
<1>4. \A q \in Dispatcher : d \notin pop[q].claimed
  BY <1>2 DEF PopOwns
<1>5. \A q \in Dispatcher, t \in Nat : ~On(q, t, d)
  BY <1>1, <1>2, <1>3 DEF PoppedOnce, Step, PopOwns, On
<1>6. \A q \in Dispatcher, t \in Nat : ~Waits(q, t, d)
  <2> SUFFICES ASSUME NEW q \in Dispatcher, NEW t \in Nat, Waits(q, t, d) PROVE FALSE
    OBVIOUS
  <2>1. <<t, d>> \in due
    BY <1>1, <1>2, <1>3 DEF HandsApart
  <2>2. pc[p][d] \in BeforeWrite /\ t = rec[d].leaseUntil
    BY <1>1, <2>1 DEF Sound, ScheduledOnce, Holds, Written, Unindexed
  <2>3. t <= clock
    <3>1. PopShape(q)
      BY DEF RedisInv, PopTypes
    <3> QED
      BY <3>1 DEF Waits, PopShape
  <2>4. clock < t /\ clock \in Nat
    BY <1>1, <2>2, LeaseRuns DEF TypeInv, TypeOK
  <2> QED
    BY <2>3, <2>4
<1>7. ASSUME NEW a \in Actor, NEW t \in TimeOrNone, mirror[a][d] = Zadd(<<t, d>>) PROVE FALSE
  BY <1>1, <1>2, <1>7 DEF MirrorSound
<1>8. ASSUME NEW a \in Actor, a # p PROVE mirror[a][d] = NoCommand
  <2> SUFFICES ASSUME mirror[a][d] # NoCommand PROVE FALSE
    OBVIOUS
  <2>1. PICK t \in TimeOrNone : mirror[a][d] \in {Zadd(<<t, d>>), Zrem(<<t, d>>)}
    BY <1>1 DEF MirrorSound, Behind
  <2>2. a \in Dispatcher /\ pc[a][d] \in BeforeWrite
    BY <1>1, <1>7, <2>1 DEF MirrorSound, BeforeWrite
  <2> QED
    BY <1>1, <1>8, <2>2 DEF Sound, OwnedOnce, Holds
<1>9. p \in Actor
  BY DEF Actor
<1> QED
  BY <1>2, <1>3, <1>4, <1>5, <1>6, <1>7, <1>8, <1>9

\* A due key that a claim has reached, and nobody has found yet, is nobody's.
LEMMA RipeIsFree ==
    ASSUME RedisInv, NEW d \in Delivery, NEW t \in Nat, <<t, d>> \in due, t <= clock,
           NEW p \in Dispatcher, Waits(p, t, d)
    PROVE  Free(d) /\ \A a \in Actor : mirror[a][d] = NoCommand
<1>1. PoppedOnce(d) /\ HandsApart(d) /\ MirrorSound(d) /\ Untouched(d) /\ Sound(d) /\ TypeInv
  BY DEF RedisInv, RedisSound, LeaseInv
<1>2. \A u \in Nat : <<u, d>> \in due => u = t
  BY <1>1 DEF Sound, ScheduledOnce
<1>3. clock + leaseMs \in Nat /\ clock + leaseMs # t
  BY <1>1, ClaimRuns
<1>4. \A q \in Dispatcher : ~Holds(q, d)
  BY OwnedAlone
<1>5. \A q \in Dispatcher : d \notin pop[q].claimed
  BY <1>1, <1>2, <1>3 DEF PoppedOnce
<1>6. ASSUME NEW q \in Dispatcher, NEW u \in Nat, On(q, u, d), pop[q].pc # "pop_sweep_zrem" PROVE FALSE
  <2>1. Step(q, u, d)
    BY <1>1, <1>6 DEF PoppedOnce
  <2>2. pop[q].pc \in {"pop_record", "pop_write", "pop_del", "pop_zrem", "pop_set", "pop_zadd"}
    BY <1>6 DEF On, RedisInv, PopTypes, AnyPop, PopPc
  <2>3. pop[q].pc \in {"pop_record", "pop_write", "pop_del"} /\ u = t
    BY <1>2, <1>3, <2>1, <2>2 DEF Step, NoDue
  <2>4. Hand(q, t, d) /\ Hand(p, t, d)
    BY <1>6, <2>3 DEF Hand
  <2>5. q = p
    BY <1>1, <2>4 DEF HandsApart
  <2>6. PopShape(p)
    BY DEF RedisInv, PopTypes
  <2> QED
    BY <1>6, <2>3, <2>5, <2>6 DEF Waits, On, PopShape
<1>7. Free(d)
  BY <1>4, <1>5, <1>6 DEF Free, PopOwns
<1>8. ASSUME NEW a \in Actor, mirror[a][d] # NoCommand PROVE FALSE
  <2>1. PICK u \in TimeOrNone : mirror[a][d] \in {Zadd(<<u, d>>), Zrem(<<u, d>>)}
    BY <1>1, <1>8 DEF MirrorSound, Behind
  <2>2. mirror[a][d] = Zadd(<<u, d>>)
    <3>1. mirror[a][d] = Zrem(<<u, d>>) => a \in Dispatcher /\ Holds(a, d)
      BY <1>1 DEF MirrorSound, Holds, BeforeWrite
    <3> QED
      BY <1>4, <2>1, <3>1
  <2>3. u \in Nat /\ <<u, d>> \in due /\ ~Waits(p, u, d)
    BY <1>1, <2>2 DEF MirrorSound
  <2> QED
    BY <1>2, <2>3
<1> QED
  BY <1>7, <1>8

LEMMA MirrorTypes ==
    ASSUME PopTypes, NEW a \in Actor, NEW d \in Delivery, NEW command \in AnyCommand,
           mirror' = [mirror EXCEPT ![a][d] = command]
    PROVE  /\ mirror' \in [Actor -> [Delivery -> AnyCommand]]
           /\ \A b \in Actor, e \in Delivery :
                mirror'[b][e] = IF b = a /\ e = d THEN command ELSE mirror[b][e]
BY DEF PopTypes

\* A step that moves no claim.
LEMMA StillShape ==
    ASSUME PopTypes, ZsetSound, mirror' \in [Actor -> [Delivery -> AnyCommand]],
           UNCHANGED <<clock, zset, pop>>,
           \A p \in Dispatcher : pop[p].pc # "off" =>
                \A e \in Delivery : pc'[p][e] = pc[p][e] /\ mirror'[p][e] = mirror[p][e]
    PROVE  PopTypes' /\ ZsetSound'
<1>1. ZsetSound'
  BY DEF ZsetSound
<1>2. ASSUME NEW p \in Dispatcher PROVE PopShape(p)'
  <2>1. PopShape(p) /\ pop'[p] = pop[p] /\ NoPop' = NoPop
    BY DEF PopTypes, NoPop, AbsentRecord
  <2>2. pop[p].pc # "off" => \A e \in Delivery : pc'[p][e] = "idle" /\ mirror'[p][e] = NoCommand
    BY <2>1 DEF PopShape
  <2> QED
    BY <2>1, <2>2 DEF PopShape, Key
<1>3. pop' \in [Dispatcher -> AnyPop]
  BY DEF PopTypes
<1> QED
  BY <1>1, <1>2, <1>3 DEF PopTypes

\* A step of somebody who is in no claim.
LEMMA SameShape ==
    ASSUME PopTypes, ZsetSound, NEW a \in Actor, NEW d \in Delivery, NEW command \in AnyCommand,
           mirror' = [mirror EXCEPT ![a][d] = command], UNCHANGED <<clock, zset, pop>>,
           \A p \in Dispatcher : pop[p].pc # "off" =>
                p # a /\ \A e \in Delivery : pc'[p][e] = pc[p][e]
    PROVE  PopTypes' /\ ZsetSound'
<1>1. \A p \in Dispatcher : pop[p].pc # "off" => \A e \in Delivery : mirror'[p][e] = mirror[p][e]
  BY MirrorTypes DEF Actor
<1> QED
  BY <1>1, MirrorTypes, StillShape

LEMMA CommandTypes ==
    ASSUME TypeInv
    PROVE  /\ \A p \in Dispatcher, d \in Delivery : WorkerCommand(p, d) \in AnyCommand
           /\ \A c \in Caller, d \in Delivery : CallCommand(c, d) \in AnyCommand
<1>1. \A t \in TimeOrNone, d \in Delivery : Zadd(<<t, d>>) \in AnyCommand /\ Zrem(<<t, d>>) \in AnyCommand
  BY DEF AnyCommand, Zadd, Zrem
<1>2. NoCommand \in AnyCommand
  BY DEF AnyCommand
<1>3. ASSUME NEW p \in Dispatcher, NEW d \in Delivery PROVE WorkerCommand(p, d) \in AnyCommand
  <2>1. snap[p][d].leaseUntil \in TimeOrNone /\ snap[p][d].nextAttemptAt \in TimeOrNone
        /\ plan[p][d].next \in TimeOrNone
    BY DEF TypeInv, TypeOK, Record, Plan
  <2> QED
    BY <1>1, <1>2, <2>1 DEF WorkerCommand
<1>4. ASSUME NEW c \in Caller, NEW d \in Delivery PROVE CallCommand(c, d) \in AnyCommand
  <2>1. call[c][d].at \in TimeOrNone
    BY DEF TypeInv, TypeOK, Call
  <2> QED
    BY <1>1, <1>2, <2>1 DEF CallCommand
<1> QED
  BY <1>3, <1>4

\* Somebody writes the one due key of a bare delivery, and has its member still to add.
LEMMA IndexSound ==
    ASSUME RedisInv, NEW d \in Delivery, Bare(d), NEW a \in Actor, NEW t \in Nat,
           due' = due \cup {<<t, d>>}, Free(d)', UNCHANGED <<zset, pop>>,
           \A b \in Actor : mirror'[b][d] = IF b = a THEN Zadd(<<t, d>>) ELSE mirror[b][d]
    PROVE  RedisSound(d)'
<1>1. /\ \A q \in Dispatcher : d \notin pop'[q].claimed /\ \A u \in Nat : ~On(q, u, d)' /\ ~Waits(q, u, d)'
      /\ \A m \in zset', u \in Nat : m.key # <<u, d>>
      /\ d \notin Deleted'
  BY DEF Bare, On, Waits, Deleted
<1>2. PoppedOnce(d)' /\ HandsApart(d)' /\ Untouched(d)' /\ MembersSound(d)'
  BY <1>1 DEF PoppedOnce, PopOwns, HandsApart, Hand, Untouched, MembersSound
<1>3. MirrorSound(d)'
  <2> SUFFICES ASSUME NEW b \in Actor PROVE
        /\ mirror'[b][d] = NoCommand \/ Behind(b, d)'
        /\ \A u \in TimeOrNone : mirror'[b][d] # Zrem(<<u, d>>)
        /\ \A u \in TimeOrNone : mirror'[b][d] = Zadd(<<u, d>>) => u = t /\ b = a
    BY <1>1 DEF MirrorSound, Bare
  <2>1. CASE b = a
    BY <2>1, CommandsDiffer DEF Behind, TimeOrNone
  <2>2. CASE b # a
    BY <2>2, CommandsDiffer DEF Bare
  <2> QED
    BY <2>1, <2>2
<1> QED
  BY <1>2, <1>3 DEF RedisSound

\* A worker removes a due key of the delivery it owns, and has its member still to remove.
LEMMA UnindexSound ==
    ASSUME RedisInv, NEW d \in Delivery, NEW p \in Dispatcher, pc[p][d] \in BeforeWrite,
           mirror[p][d] = NoCommand, NEW t \in TimeOrNone, due' = due \ {<<t, d>>},
           pc'[p][d] \in {"unindex_lease", "write", "hold_write"}, UNCHANGED <<rec, zset, pop>>,
           \A b \in Actor : mirror'[b][d] = IF b = p THEN Zrem(<<t, d>>) ELSE mirror[b][d]
    PROVE  RedisSound(d)'
<1>1. /\ \A q \in Dispatcher : d \notin pop[q].claimed
      /\ \A q \in Dispatcher, u \in Nat : ~On(q, u, d) /\ ~Waits(q, u, d)
      /\ \A a \in Actor : mirror[a][d] = NoCommand
      /\ d \notin Deleted /\ ~Lost(d)
  BY OwnedAlone DEF Holds
<1>2. /\ \A q \in Dispatcher : d \notin pop'[q].claimed /\ \A u \in Nat : ~On(q, u, d)' /\ ~Waits(q, u, d)'
      /\ d \notin Deleted'
  BY <1>1 DEF On, Waits, Deleted
<1>3. PoppedOnce(d)' /\ HandsApart(d)' /\ Untouched(d)'
  BY <1>2 DEF PoppedOnce, PopOwns, HandsApart, Hand, Untouched
<1>4. \A m \in zset, u \in Nat : m.key = <<u, d>> => <<u, d>> \in due
  BY <1>1, CommandsDiffer DEF RedisInv, RedisSound, MembersSound, Actor
<1>5. \A u \in Nat : <<u, d>> \in due => u = rec[d].leaseUntil
  BY DEF RedisInv, LeaseInv, Sound, ScheduledOnce
<1>6. \A m \in zset : m.key = <<t, d>> => t = rec[d].leaseUntil /\ NoDue(d)'
  <2> TAKE m \in zset
  <2> HAVE m.key = <<t, d>>
  <2>1. t \in Nat
    BY DEF RedisInv, ZsetSound, Key
  <2> QED
    BY <2>1, <1>4, <1>5 DEF NoDue
<1>7. MirrorSound(d)'
  <2> SUFFICES ASSUME NEW b \in Actor PROVE
        /\ mirror'[b][d] = NoCommand \/ Behind(b, d)'
        /\ \A u \in TimeOrNone : mirror'[b][d] = Zrem(<<u, d>>) => u = t /\ b = p
        /\ \A u \in TimeOrNone : mirror'[b][d] # Zadd(<<u, d>>)
    BY <1>6 DEF MirrorSound
  <2>1. CASE b = p
    BY <2>1, CommandsDiffer DEF Behind
  <2>2. CASE b # p
    BY <1>1, <2>2, CommandsDiffer
  <2> QED
    BY <2>1, <2>2
<1>8. MembersSound(d)'
  <2> SUFFICES ASSUME NEW m \in zset', NEW u \in Nat, m.key = <<u, d>>
               PROVE  <<u, d>> \in due' \/ \E q \in Dispatcher : mirror'[q][d] = Zrem(<<u, d>>)
    BY DEF MembersSound
  <2>1. <<u, d>> \in due
    BY <1>4
  <2>2. p \in Actor
    BY DEF Actor
  <2> QED
    BY <2>1, <2>2
<1> QED
  BY <1>3, <1>7, <1>8 DEF RedisSound

LEMMA BusyIsNotIdle ==
    ASSUME NEW p \in Dispatcher, NEW d \in Delivery, ProcessClaim(p, d)
    PROVE  pc[p][d] # "idle"
BY CrashAssumption DEF ProcessClaim, StartAttempt, FailTerminal, HoldDisabled, TakeUp, HoldUnindex,
       HoldWrite, HoldIndex, Respond, LogAttempt, UnindexNext, UnindexLease, WriteOutcome, IndexNext,
       NoteOutcome, StepFails, At

\* A step of a worker, with the command it leaves.
LEMMA RedisWorker ==
    ASSUME RedisInv, NEW p \in Dispatcher, NEW d \in Delivery, ProcessClaim(p, d),
           Leaves(p, d, IF StepFails(p, d) THEN NoCommand ELSE WorkerCommand(p, d)),
           UNCHANGED <<zset, pop>>
    PROVE  PopTypes' /\ ZsetSound' /\ \A e \in Delivery : RedisSound(e)'
<1> PICK k : k = IF StepFails(p, d) THEN NoCommand ELSE WorkerCommand(p, d)
  OBVIOUS
<1>1. mirror[p][d] = NoCommand /\ mirror' = [mirror EXCEPT ![p][d] = k]
  BY DEF Leaves
<1>2. TypeInv /\ PopTypes /\ ZsetSound /\ Sound(d) /\ p \in Actor
  BY DEF RedisInv, LeaseInv, Actor
<1>3. k \in AnyCommand
  BY <1>2, CommandTypes DEF AnyCommand
<1>4. \A b \in Actor, e \in Delivery : mirror'[b][e] = IF b = p /\ e = d THEN k ELSE mirror[b][e]
  BY <1>1, <1>2, <1>3, MirrorTypes
<1>5. /\ clock' = clock /\ call' = call
      /\ \A q \in Dispatcher, e \in Delivery : ~(q = p /\ e = d) =>
            pc'[q][e] = pc[q][e] /\ snap'[q][e] = snap[q][e]
      /\ \A e \in Delivery : e # d => rec'[e] = rec[e]
      /\ \A e \in Delivery, t \in Nat : e # d => (<<t, e>> \in due' <=> <<t, e>> \in due)
  BY <1>2, ProcessFrame
<1>6. pc[p][d] # "idle" /\ pop[p] = NoPop
  BY <1>2, BusyIsNotIdle DEF PopTypes, PopShape
<1>7. PopTypes' /\ ZsetSound'
  <2>1. \A q \in Dispatcher : pop[q].pc # "off" => q # p /\ \A e \in Delivery : pc'[q][e] = pc[q][e]
    BY <1>5, <1>6 DEF NoPop
  <2> QED
    BY <1>1, <1>2, <1>3, <1>5, <2>1, SameShape
<1>8. \A e \in Delivery : SameView(e) /\ ~PopOwns(p, e)
  BY <1>6 DEF SameView, Waits, On, PopOwns, NoPop
<1>9. clock + leaseMs \in Nat
  BY <1>2, ClaimRuns
<1>10. ASSUME NEW e \in Delivery, e # d PROVE RedisSound(e)'
  <2>1. RedisSound(e)
    BY DEF RedisInv
  <2>2. \A q \in Dispatcher : pc'[q][e] = pc[q][e] /\ snap'[q][e] = snap[q][e]
    BY <1>5, <1>10
  <2>3. \A a \in Actor : mirror'[a][e] = mirror[a][e]
    BY <1>4, <1>10
  <2>4. \A q \in Dispatcher : Holds(q, e)' => Holds(q, e)
    BY <2>2 DEF Holds
  <2> QED
    BY <1>5, <1>8, <1>9, <1>10, <2>1, <2>2, <2>3, <2>4, RedisFrame
<1>11. ASSUME rec' = rec, due' = due, k = NoCommand, Holds(p, d)' => Holds(p, d)
       PROVE  RedisSound(d)'
  <2>1. RedisSound(d)
    BY DEF RedisInv
  <2>2. \A q \in Dispatcher : q # p => pc'[q][d] = pc[q][d] /\ snap'[q][d] = snap[q][d]
    BY <1>5
  <2>3. \A a \in Actor : mirror'[a][d] = mirror[a][d]
    BY <1>1, <1>4, <1>11
  <2>4. \A q \in Dispatcher : Holds(q, d)' => Holds(q, d)
    BY <1>11, <2>2 DEF Holds
  <2> QED
    BY <1>1, <1>5, <1>8, <1>9, <1>11, <2>1, <2>2, <2>3, <2>4, RedisFrame
<1>12. ASSUME NEW t \in TimeOrNone, due' = due \ {<<t, d>>}, k = Zrem(<<t, d>>), rec' = rec,
              pc[p][d] \in BeforeWrite, pc'[p][d] \in {"unindex_lease", "write", "hold_write"}
       PROVE  RedisSound(d)'
  BY <1>1, <1>4, <1>12, UnindexSound
<1>13. ASSUME NEW t \in TimeOrNone, due' = due \cup {<<t, d>>}, t \in Nat, k = Zadd(<<t, d>>), rec' = rec,
              pc[p][d] \in Written, pc'[p][d] \in {"idle", "note"}
       PROVE  RedisSound(d)'
  <2>1. NoDue(d) /\ rec[d].status # "delivering"
    BY <1>2, <1>13 DEF NoDue, Sound, ScheduledOnce, Released, Written, Unindexed
  <2>2. Holds(p, d)
    BY <1>13 DEF Holds
  <2>3. Bare(d)
    BY <2>1, <2>2, OwnedAlone, UnscheduledIsBare
  <2>4. \A q \in Dispatcher : ~Holds(q, d)'
    BY <1>2, <1>5, <1>13, <2>2 DEF Sound, OwnedOnce, Holds, BeforeWrite, Written
  <2>5. \A q \in Dispatcher : ~PopOwns(q, d)'
    BY <2>3 DEF Bare, PopOwns, On
  <2> QED
    BY <1>4, <1>13, <2>3, <2>4, <2>5, IndexSound, <1>2 DEF Free
<1>14. ASSUME due' = due, k = NoCommand, pc[p][d] \in {"write", "hold_write"}
       PROVE  RedisSound(d)'
  <2>1. Holds(p, d) /\ NoDue(d)
    BY <1>2, <1>14 DEF NoDue, Sound, ScheduledOnce, BeforeWrite, Unindexed, Holds
  <2>2. \A a \in Actor : mirror[a][d] = NoCommand
    BY <1>1, <2>1, OwnedAlone
  <2>3. Bare(d)
    BY <2>1, <2>2, OwnedAlone, CommandsDiffer
       DEF Bare, RedisInv, RedisSound, MembersSound, NoDue, Actor
  <2>4. \A a \in Actor : mirror'[a][d] = NoCommand
    BY <1>4, <1>14, <2>2
  <2> QED
    BY <2>3, <2>4, BareIsSound
<1>15. ASSUME NEW step \in JobPc, Goto(p, d, step) PROVE pc'[p][d] = step
  BY <1>2, <1>15, GotoTypes
<1>16. Finish(p, d) => pc'[p][d] = "idle"
  BY <1>2, FinishTypes
<1> SUFFICES RedisSound(d)'
  BY <1>7, <1>10
<1>17. CASE StepFails(p, d)
  <2>1. rec' = rec /\ due' = due /\ k = NoCommand /\ pc'[p][d] = "idle"
    BY <1>16, <1>17 DEF StepFails
  <2>2. ~Holds(p, d)'
    BY <2>1 DEF Holds, BeforeWrite, Written
  <2> QED
    BY <1>11, <2>1, <2>2
<1>18. CASE ~StepFails(p, d)
  <2>0. k = WorkerCommand(p, d)
    BY <1>18
  <2>t. /\ snap[p][d].leaseUntil \in TimeOrNone /\ snap[p][d].nextAttemptAt \in TimeOrNone
        /\ pc[p][d] \in {"index", "hold_index"} => plan[p][d].next \in Nat
    BY <1>2 DEF TypeInv, TypeOK, TimesPlanned, Record
  <2>1. CASE StartAttempt(p, d) \/ FailTerminal(p, d) \/ HoldDisabled(p, d)
    <3>1. rec' = rec /\ due' = due /\ pc[p][d] = "queued"
      BY <2>1 DEF StartAttempt, FailTerminal, HoldDisabled, TakeUp, At
    <3>2. k = NoCommand
      BY <2>0, <3>1 DEF WorkerCommand
    <3>3. Holds(p, d)
      BY <3>1 DEF Holds, BeforeWrite
    <3> QED
      BY <1>11, <3>1, <3>2, <3>3
  <2>2. CASE HoldUnindex(p, d)
    <3>1. /\ due' = due \ {<<snap[p][d].leaseUntil, d>>} /\ rec' = rec
          /\ pc[p][d] = "hold_unindex" /\ pc'[p][d] = "hold_write"
      BY <1>15, <2>2 DEF HoldUnindex, At, JobPc
    <3>2. k = Zrem(<<snap[p][d].leaseUntil, d>>)
      BY <2>0, <3>1 DEF WorkerCommand
    <3>3. pc[p][d] \in BeforeWrite
      BY <3>1 DEF BeforeWrite
    <3> QED
      BY <1>12, <3>1, <3>2, <3>3, <2>t
  <2>3. CASE HoldWrite(p, d) \/ WriteOutcome(p, d)
    <3>1. due' = due /\ pc[p][d] \in {"write", "hold_write"}
      BY <2>3 DEF HoldWrite, WriteOutcome, At
    <3>2. k = NoCommand
      BY <2>0, <3>1 DEF WorkerCommand
    <3> QED
      BY <1>14, <3>1, <3>2
  <2>4. CASE HoldIndex(p, d)
    <3>1. /\ due' = due \cup {<<plan[p][d].next, d>>} /\ rec' = rec
          /\ pc[p][d] = "hold_index" /\ pc'[p][d] = "idle"
      BY <1>16, <2>4 DEF HoldIndex, At
    <3>2. k = Zadd(<<plan[p][d].next, d>>)
      BY <2>0, <3>1 DEF WorkerCommand
    <3>3. pc[p][d] \in Written /\ plan[p][d].next \in TimeOrNone /\ plan[p][d].next \in Nat
      BY <2>t, <3>1 DEF Written, TimeOrNone
    <3> QED
      BY <1>13, <3>1, <3>2, <3>3
  <2>5. CASE Respond(p, d) \/ LogAttempt(p, d)
    <3>1. rec' = rec /\ due' = due /\ pc[p][d] \in {"sending", "log"}
      BY <2>5 DEF Respond, LogAttempt, At
    <3>2. k = NoCommand
      BY <2>0, <3>1 DEF WorkerCommand
    <3>3. Holds(p, d)
      BY <3>1 DEF Holds, BeforeWrite
    <3> QED
      BY <1>11, <3>1, <3>2, <3>3
  <2>6. CASE UnindexNext(p, d)
    <3>1. /\ due' = due \ {<<snap[p][d].nextAttemptAt, d>>} /\ rec' = rec
          /\ pc[p][d] = "unindex_next" /\ pc'[p][d] = "unindex_lease"
      BY <1>15, <2>6 DEF UnindexNext, At, JobPc
    <3>2. k = Zrem(<<snap[p][d].nextAttemptAt, d>>)
      BY <2>0, <3>1 DEF WorkerCommand
    <3>3. pc[p][d] \in BeforeWrite
      BY <3>1 DEF BeforeWrite
    <3> QED
      BY <1>12, <3>1, <3>2, <3>3, <2>t
  <2>7. CASE UnindexLease(p, d)
    <3>1. /\ due' = due \ {<<snap[p][d].leaseUntil, d>>} /\ rec' = rec
          /\ pc[p][d] = "unindex_lease" /\ pc'[p][d] = "write"
      BY <1>15, <2>7 DEF UnindexLease, At, JobPc
    <3>2. k = Zrem(<<snap[p][d].leaseUntil, d>>)
      BY <2>0, <3>1 DEF WorkerCommand
    <3>3. pc[p][d] \in BeforeWrite
      BY <3>1 DEF BeforeWrite
    <3> QED
      BY <1>12, <3>1, <3>2, <3>3, <2>t
  <2>8. CASE IndexNext(p, d)
    <3>1. /\ due' = due \cup {<<plan[p][d].next, d>>} /\ rec' = rec
          /\ pc[p][d] = "index" /\ pc'[p][d] = "note"
      BY <1>15, <2>8 DEF IndexNext, At, JobPc
    <3>2. k = Zadd(<<plan[p][d].next, d>>)
      BY <2>0, <3>1 DEF WorkerCommand
    <3>3. pc[p][d] \in Written /\ plan[p][d].next \in TimeOrNone /\ plan[p][d].next \in Nat
      BY <2>t, <3>1 DEF Written, TimeOrNone
    <3> QED
      BY <1>13, <3>1, <3>2, <3>3
  <2>9. CASE NoteOutcome(p, d)
    <3>1. rec' = rec /\ due' = due /\ pc[p][d] = "note" /\ pc'[p][d] = "idle"
      BY <1>16, <2>9 DEF NoteOutcome, At
    <3>2. k = NoCommand
      BY <2>0, <3>1 DEF WorkerCommand
    <3>3. ~Holds(p, d)'
      BY <3>1 DEF Holds, BeforeWrite, Written
    <3> QED
      BY <1>11, <3>1, <3>2, <3>3
  <2> QED
    BY <1>18, <2>1, <2>2, <2>3, <2>4, <2>5, <2>6, <2>7, <2>8, <2>9 DEF ProcessClaim
<1> QED
  BY <1>17, <1>18

LEMMA CallFrame ==
    ASSUME TypeInv, NEW c \in Caller, NEW d \in Delivery, ControlPlane(c, d)
    PROVE  /\ clock' = clock /\ pc' = pc /\ snap' = snap
           /\ \A e \in Delivery : e # d => rec'[e] = rec[e] /\ \A o \in Caller : call'[o][e] = call[o][e]
           /\ \A e \in Delivery, t \in Nat : e # d => (<<t, e>> \in due' <=> <<t, e>> \in due)
<1>1. clock' = clock /\ pc' = pc /\ snap' = snap
  BY DEF ControlPlane, PublishBegin, PublishWrite, RetryRead, RecoverRead, ReadDeadLetter, RequeueWrite,
         CallIndex, CallFails, jobVars
<1>2. \A e \in Delivery : e # d => \A o \in Caller : call'[o][e] = call[o][e]
  BY DEF ControlPlane, PublishBegin, PublishWrite, RetryRead, RecoverRead, ReadDeadLetter, RequeueWrite,
         CallIndex, CallFails, SetCall, TypeInv, TypeOK
<1>3. \A e \in Delivery : e # d => rec'[e] = rec[e]
  BY DEF ControlPlane, PublishBegin, PublishWrite, RetryRead, RecoverRead, ReadDeadLetter, RequeueWrite,
         CallIndex, CallFails, TypeInv, TypeOK
<1>4. \A e \in Delivery, t \in Nat : e # d => (<<t, e>> \in due' <=> <<t, e>> \in due)
  BY DEF ControlPlane, PublishBegin, PublishWrite, RetryRead, RecoverRead, ReadDeadLetter, RequeueWrite,
         CallIndex, CallFails
<1> QED
  BY <1>1, <1>2, <1>3, <1>4

\* A step of a control-plane call, with the command it leaves.
LEMMA RedisCall ==
    ASSUME RedisInv, NEW c \in Caller, NEW d \in Delivery, d \notin Deleted, ControlPlane(c, d),
           Leaves(c, d, IF CallFails(c, d) THEN NoCommand ELSE CallCommand(c, d)),
           UNCHANGED <<zset, pop>>
    PROVE  PopTypes' /\ ZsetSound' /\ \A e \in Delivery : RedisSound(e)'
<1> PICK k : k = IF CallFails(c, d) THEN NoCommand ELSE CallCommand(c, d)
  OBVIOUS
<1>1. mirror[c][d] = NoCommand /\ mirror' = [mirror EXCEPT ![c][d] = k]
  BY DEF Leaves
<1>2. TypeInv /\ PopTypes /\ ZsetSound /\ Sound(d) /\ c \in Actor /\ c \notin Dispatcher
  BY ActorsAssumption DEF RedisInv, LeaseInv, Actor
<1>3. k \in AnyCommand
  BY <1>2, CommandTypes DEF AnyCommand
<1>4. \A b \in Actor, e \in Delivery : mirror'[b][e] = IF b = c /\ e = d THEN k ELSE mirror[b][e]
  BY <1>1, <1>2, <1>3, MirrorTypes
<1>5. /\ clock' = clock /\ pc' = pc /\ snap' = snap
      /\ \A e \in Delivery : e # d => rec'[e] = rec[e] /\ \A o \in Caller : call'[o][e] = call[o][e]
      /\ \A e \in Delivery, t \in Nat : e # d => (<<t, e>> \in due' <=> <<t, e>> \in due)
  BY <1>2, CallFrame
<1>6. PopTypes' /\ ZsetSound'
  BY <1>1, <1>2, <1>3, <1>5, SameShape
<1>7. \A e \in Delivery : SameView(e) /\ \A q \in Dispatcher : Holds(q, e)' <=> Holds(q, e)
  BY <1>5 DEF SameView, Waits, On, Holds
<1>8. clock + leaseMs \in Nat
  BY <1>2, ClaimRuns
<1>9. ASSUME NEW e \in Delivery, rec'[e] = rec[e],
             \A t \in Nat : <<t, e>> \in due' <=> <<t, e>> \in due,
             \A a \in Actor : mirror'[a][e] = mirror[a][e],
             e \in Deleted => \A o \in Caller : call'[o][e] = call[o][e]
      PROVE  RedisSound(e)'
  <2>1. RedisSound(e)
    BY DEF RedisInv
  <2> QED
    BY <1>5, <1>7, <1>8, <1>9, <2>1, RedisFrame
<1>10. ASSUME NEW e \in Delivery, e # d PROVE RedisSound(e)'
  <2>1. \A a \in Actor : mirror'[a][e] = mirror[a][e]
    BY <1>4, <1>10
  <2> QED
    BY <1>5, <1>9, <1>10, <2>1
<1> SUFFICES RedisSound(d)'
  BY <1>6, <1>10
<1>11. ASSUME rec' = rec, due' = due, k = NoCommand PROVE RedisSound(d)'
  <2>1. \A a \in Actor : mirror'[a][d] = mirror[a][d]
    BY <1>1, <1>4, <1>11
  <2> QED
    BY <1>9, <1>11, <2>1
<1>12. CASE CallFails(c, d)
  BY <1>11, <1>12 DEF CallFails
<1>13. CASE ~CallFails(c, d)
  <2>0. k = CallCommand(c, d)
    BY <1>13
  <2>1. CASE PublishBegin(c, d) \/ RetryRead(c, d) \/ RecoverRead(c, d)
    <3>1. rec' = rec /\ due' = due /\ call[c][d].pc = "idle"
      BY <2>1 DEF PublishBegin, RetryRead, RecoverRead, ReadDeadLetter, CallAt
    <3>2. k = NoCommand
      BY <2>0, <3>1 DEF CallCommand, CallAt
    <3> QED
      BY <1>11, <3>1, <3>2
  <2>2. CASE PublishWrite(c, d) \/ RequeueWrite(c, d)
    <3>1. due' = due /\ call[c][d].pc \in {"publish", "retry", "recover"}
      BY <2>2 DEF PublishWrite, RequeueWrite, CallAt
    <3>2. k = NoCommand
      BY <2>0, <3>1 DEF CallCommand, CallAt
    <3>3. rec[d].status \in {"absent", "failed"}
      BY <1>2, <3>1 DEF Sound, CallsInTurn
    <3>4. NoDue(d)
      BY <1>2, <3>3 DEF NoDue, Sound, ScheduledOnce, NonTerminal
    <3>5. Bare(d)
      BY <3>3, <3>4, UnscheduledIsBare
    <3>6. \A a \in Actor : mirror'[a][d] = NoCommand
      BY <1>4, <3>2, <3>5 DEF Bare
    <3> QED
      BY <3>5, <3>6, BareIsSound
  <2>3. CASE CallIndex(c, d)
    <3>1. due' = due \cup {<<call[c][d].at, d>>} /\ call[c][d].pc = "call_index"
      BY <2>3 DEF CallIndex, CallAt
    <3>2. k = Zadd(<<call[c][d].at, d>>) /\ call[c][d].at \in Nat
      BY <1>2, <2>0, <3>1 DEF CallCommand, CallAt, TypeInv, TimesPlanned
    <3>3. rec[d].status = "pending" /\ NoDue(d) /\ \A q \in Dispatcher : ~Holds(q, d)
      BY <1>2, <3>1 DEF NoDue, Sound, CallsInTurn, ScheduledOnce
    <3>4. Bare(d)
      BY <3>3, UnscheduledIsBare
    <3>5. \A q \in Dispatcher : ~Holds(q, d)' /\ ~PopOwns(q, d)'
      BY <1>7, <3>3, <3>4 DEF Bare, PopOwns, On
    <3>6. \A b \in Actor : mirror'[b][d] = IF b = c THEN k ELSE mirror[b][d]
      BY <1>4
    <3> QED
      BY <1>2, <3>1, <3>2, <3>4, <3>5, <3>6, IndexSound DEF Free
  <2> QED
    BY <1>13, <2>1, <2>2, <2>3 DEF ControlPlane
<1> QED
  BY <1>12, <1>13

LEMMA RedisCrash ==
    ASSUME RedisInv, NEW p \in Dispatcher, \A d \in Delivery : Idle(p, d), Crash(p),
           UNCHANGED <<zset, mirror, pop>>
    PROVE  PopTypes' /\ ZsetSound' /\ \A e \in Delivery : RedisSound(e)'
<1>1. TypeInv /\ PopTypes /\ ZsetSound
  BY DEF RedisInv, LeaseInv
<1>2. PICK b \in Delivery : pc[p][b] # "idle"
  BY DEF Crash
<1>3. pop[p] = NoPop
  BY <1>1, <1>2 DEF PopTypes, PopShape
<1>4. UNCHANGED <<clock, rec, due, call>>
  BY DEF Crash
<1>5. \A q \in Dispatcher, e \in Delivery : q # p => pc'[q][e] = pc[q][e] /\ snap'[q][e] = snap[q][e]
  BY <1>1 DEF Crash, TypeInv, TypeOK
<1>6. \A e \in Delivery : pc'[p][e] = "idle"
  BY <1>1 DEF Crash, TypeInv, TypeOK
<1>7. PopTypes' /\ ZsetSound'
  BY <1>1, <1>3, <1>4, <1>5, StillShape DEF PopTypes, NoPop
<1>8. ASSUME NEW e \in Delivery PROVE RedisSound(e)'
  <2>1. SameView(e) /\ ~PopOwns(p, e) /\ RedisSound(e)
    BY <1>3 DEF SameView, Waits, On, PopOwns, NoPop, RedisInv
  <2>2. \A q \in Dispatcher : Holds(q, e)' => Holds(q, e)
    BY <1>5, <1>6 DEF Holds, BeforeWrite, Written
  <2>3. \A q \in Dispatcher : mirror[q][e] # NoCommand => pc'[q][e] = pc[q][e]
    BY <1>5 DEF Idle
  <2>4. \A q \in Dispatcher : PopOwns(q, e) => snap'[q][e] = snap[q][e]
    BY <1>5, <2>1
  <2>5. clock + leaseMs \in Nat
    BY <1>1, ClaimRuns
  <2> QED
    BY <1>4, <2>1, <2>2, <2>3, <2>4, <2>5, RedisFrame
<1> QED
  BY <1>7, <1>8

LEMMA RedisEndpoint ==
    ASSUME RedisInv, NEW e \in Endpoint, NEW state, SetEndpoint(e, state), UNCHANGED <<zset, mirror, pop>>
    PROVE  PopTypes' /\ ZsetSound' /\ \A d \in Delivery : RedisSound(d)'
<1>1. UNCHANGED <<clock, rec, due, call, pc, snap>>
  BY DEF SetEndpoint, jobVars
<1>2. TypeInv /\ PopTypes /\ ZsetSound
  BY DEF RedisInv, LeaseInv
<1>3. PopTypes' /\ ZsetSound'
  BY <1>1, <1>2, StillShape DEF PopTypes
<1>4. ASSUME NEW d \in Delivery PROVE RedisSound(d)'
  <2>1. SameView(d) /\ RedisSound(d) /\ clock + leaseMs \in Nat
    BY <1>2, ClaimRuns DEF SameView, Waits, On, RedisInv
  <2>2. \A q \in Dispatcher : Holds(q, d)' <=> Holds(q, d)
    BY <1>1 DEF Holds
  <2> QED
    BY <1>1, <2>1, <2>2, RedisFrame
<1> QED
  BY <1>3, <1>4

\* While the clock moves on nobody is in a claim and no command is under way.
LEMMA RedisTicks ==
    ASSUME RedisInv, WorkersKeepUp, RedisTick, UNCHANGED <<zset, mirror, pop>>
    PROVE  PopTypes' /\ ZsetSound' /\ \A d \in Delivery : RedisSound(d)'
<1>1. UNCHANGED <<rec, due, call, pc, snap>>
  BY DEF RedisTick, Tick, jobVars
<1>2. PopTypes /\ ZsetSound /\ \A p \in Dispatcher : pop[p].pc = "off" /\ pop[p] = NoPop
  BY DEF RedisInv, RedisTick, WorkersKeepUp, Popping, PopTypes, PopShape
<1>3. \A a \in Actor, d \in Delivery : mirror[a][d] = NoCommand
  BY DEF RedisTick, WorkersKeepUp
<1>4. PopTypes'
  <2>1. ASSUME NEW p \in Dispatcher PROVE PopShape(p)'
    BY <1>2 DEF PopShape, NoPop, AbsentRecord, NoTime
  <2> QED
    BY <1>2, <2>1 DEF PopTypes
<1>5. ZsetSound'
  BY <1>2 DEF ZsetSound
<1>6. ASSUME NEW d \in Delivery PROVE RedisSound(d)'
  <2>1. \A p \in Dispatcher : ~PopOwns(p, d) /\ \A t \in Nat : ~On(p, t, d) /\ ~Waits(p, t, d)
    BY <1>2 DEF PopOwns, On, Waits, NoPop
  <2>2. \A p \in Dispatcher : ~PopOwns(p, d)' /\ \A t \in Nat : ~On(p, t, d)' /\ ~Waits(p, t, d)'
    BY <1>2 DEF PopOwns, On, Waits, NoPop
  <2>3. PoppedOnce(d)' /\ HandsApart(d)'
    BY <1>2, <2>2 DEF PoppedOnce, HandsApart, Hand, NoPop
  <2>4. MirrorSound(d)'
    BY <1>3, CommandsDiffer DEF MirrorSound
  <2>5. Lost(d) => Lost(d)'
    BY <1>1, <2>2 DEF Lost, Free, NoDue, Holds
  <2>6. MembersSound(d)'
    BY <1>1, <1>3, <2>1, <2>5, CommandsDiffer DEF MembersSound, RedisInv, RedisSound, Actor, Deleted
  <2>7. Untouched(d)'
    BY <1>1 DEF RedisInv, RedisSound, Untouched, NoDue, Deleted
  <2> QED
    BY <2>3, <2>4, <2>6, <2>7 DEF RedisSound
<1> QED
  BY <1>4, <1>5, <1>6

LEMMA PutMembers ==
    ASSUME ZsetSound, NEW k \in Key, NEW s \in Nat, k[1] <= s, zset' = Put(k, s)
    PROVE  /\ ZsetSound'
           /\ \A m \in zset' : (m \in zset /\ m.key # k) \/ (m.key = k /\ m.score = s)
           /\ \A m \in zset : m.key # k => m \in zset'
<1> PICK new : new = [key |-> k, score |-> s]
  OBVIOUS
<1>1. new.key = k /\ new.score = s /\ new \in [key: Key, score: Nat]
  OBVIOUS
<1>2. zset' = {m \in zset : m.key # k} \cup {new}
  BY DEF Put
<1>3. \A m \in zset' : (m \in zset /\ m.key # k) \/ m = new
  BY <1>2
<1>4. IsFiniteSet(zset')
  <2>1. IsFiniteSet({m \in zset : m.key # k})
    BY FS_Subset DEF ZsetSound
  <2> QED
    BY <1>2, <2>1, FS_AddElement
<1>5. zset' \subseteq [key: Key, score: Nat] /\ Key' = Key
  BY <1>1, <1>3 DEF ZsetSound, Key
<1>6. \A m, n \in zset' : m.key = n.key => m = n
  BY <1>1, <1>3 DEF ZsetSound
<1>7. \A m \in zset' : m.key[1] <= m.score
  BY <1>1, <1>3 DEF ZsetSound
<1> QED
  BY <1>1, <1>2, <1>3, <1>4, <1>5, <1>6, <1>7 DEF ZsetSound

LEMMA DropMembers ==
    ASSUME ZsetSound, NEW k, zset' = Drop(k)
    PROVE  ZsetSound' /\ \A m \in zset' : m \in zset /\ m.key # k
<1>1. zset' \subseteq zset /\ \A m \in zset' : m.key # k
  BY DEF Drop
<1>2. IsFiniteSet(zset')
  BY <1>1, FS_Subset DEF ZsetSound
<1> QED
  BY <1>1, <1>2 DEF ZsetSound, Key

\* The second command of somebody who has written or removed a due key.
LEMMA RedisSent ==
    ASSUME RedisInv, NEW a \in Actor, NEW d \in Delivery, MirrorSent(a, d)
    PROVE  PopTypes' /\ ZsetSound' /\ \A e \in Delivery : RedisSound(e)'
<1>1. /\ mirror[a][d] # NoCommand
      /\ mirror' = [mirror EXCEPT ![a][d] = NoCommand]
      /\ UNCHANGED <<clock, rec, due, call, pc, snap, pop>>
  BY DEF MirrorSent, vars
<1>2. TypeInv /\ PopTypes /\ ZsetSound /\ RedisSound(d) /\ Sound(d)
  BY DEF RedisInv, LeaseInv
<1>3. /\ mirror' \in [Actor -> [Delivery -> AnyCommand]]
      /\ \A b \in Actor, e \in Delivery :
            mirror'[b][e] = IF b = a /\ e = d THEN NoCommand ELSE mirror[b][e]
  BY <1>1, <1>2, MirrorTypes DEF AnyCommand
<1>4. PICK t \in TimeOrNone : mirror[a][d] \in {Zadd(<<t, d>>), Zrem(<<t, d>>)}
  BY <1>1, <1>2 DEF RedisSound, MirrorSound, Behind
<1>5. PopTypes'
  <2>1. ASSUME NEW p \in Dispatcher PROVE PopShape(p)'
    <3>1. PopShape(p) /\ NoPop' = NoPop /\ pop'[p] = pop[p]
      BY <1>1, <1>2 DEF PopTypes, NoPop, AbsentRecord
    <3>2. pop[p].pc # "off" => \A e \in Delivery : pc'[p][e] = "idle" /\ mirror'[p][e] = NoCommand
      BY <1>1, <1>3, <3>1 DEF PopShape, Actor
    <3> QED
      BY <1>1, <3>1, <3>2 DEF PopShape, Key
  <2> QED
    BY <1>1, <1>2, <1>3, <2>1 DEF PopTypes
<1>6. \A e \in Delivery : SameView(e) /\ \A q \in Dispatcher : Holds(q, e)' <=> Holds(q, e)
  BY <1>1 DEF SameView, Waits, On, Holds
<1>7. clock + leaseMs \in Nat
  BY <1>2, ClaimRuns
<1>8. ASSUME \A m \in zset', e \in Delivery, u \in TimeOrNone : m.key = <<u, e>> /\ e # d => m \in zset,
             NEW e \in Delivery, e # d
      PROVE  RedisSound(e)'
  <2>1. \A b \in Actor : mirror'[b][e] = mirror[b][e]
    BY <1>3, <1>8
  <2>2. RedisSound(e)
    BY DEF RedisInv
  <2>3. \A m \in zset', u \in TimeOrNone : m.key = <<u, e>> =>
            \E n \in zset : n.key = <<u, e>> /\ (clock < n.score => clock < m.score)
    BY <1>8
  <2> QED
    BY <1>1, <1>6, <1>7, <2>1, <2>2, <2>3, RedisFrame
<1>9. CASE mirror[a][d] = Zadd(<<t, d>>)
  <2>1. /\ t \in Nat /\ <<t, d>> \in due /\ Free(d)
        /\ \A b \in Actor : mirror[b][d] # NoCommand => b = a
        /\ \A p \in Dispatcher : ~Waits(p, t, d)
    BY <1>2, <1>9 DEF RedisSound, MirrorSound
  <2>2. zset' = Put(<<t, d>>, t) /\ <<t, d>> \in Key /\ <<t, d>>[1] <= t
    BY <1>9, <2>1 DEF MirrorSent, Zadd, Key
  <2>3. /\ ZsetSound'
        /\ \A m \in zset' : (m \in zset /\ m.key # <<t, d>>) \/ (m.key = <<t, d>> /\ m.score = t)
    BY <1>2, <2>1, <2>2, PutMembers
  <2>4. \A m \in zset', e \in Delivery, u \in TimeOrNone : m.key = <<u, e>> /\ e # d => m \in zset
    BY <2>3
  <2>5. \A q \in Dispatcher : ~Hand(q, t, d)
    <3> SUFFICES ASSUME NEW q \in Dispatcher, On(q, t, d) PROVE FALSE
      BY <2>1 DEF Hand
    <3>1. pop[q].pc = "pop_sweep_zrem" /\ Step(q, t, d)
      BY <1>2, <2>1 DEF Free, PopOwns, RedisSound, PoppedOnce
    <3> QED
      BY <1>2, <2>1, <3>1 DEF Step, Lost, NoDue, RedisSound, Untouched
  <2>6. /\ PoppedOnce(d)' /\ HandsApart(d)' /\ Untouched(d)'
        /\ (Free(d) => Free(d)') /\ (Lost(d) => Lost(d)') /\ Deleted' = Deleted
    <3>1. \A m \in zset', u \in Nat : m.key = <<u, d>> =>
            \/ \E n \in zset : n.key = <<u, d>> /\ (clock < n.score => clock < m.score)
            \/ \A q \in Dispatcher : ~Hand(q, u, d)
      BY <2>3, <2>5
    <3> QED
      BY <1>1, <1>2, <1>6, <1>7, <3>1, ViewFrame
  <2>7. \A b \in Actor : mirror'[b][d] = NoCommand
    BY <1>3, <2>1
  <2>8. MirrorSound(d)'
    BY <2>7, CommandsDiffer DEF MirrorSound
  <2>9. MembersSound(d)'
    <3> SUFFICES ASSUME NEW m \in zset', NEW u \in Nat, m.key = <<u, d>>, <<u, d>> \notin due
                 PROVE  \/ \E q \in Dispatcher : On(q, u, d)' /\ pop'[q].pc = "pop_zrem"
                        \/ Lost(d)' \/ d \in Deleted'
      BY <1>1 DEF MembersSound
    <3>1. m \in zset
      BY <2>1, <2>3
    <3>2. \A q \in Dispatcher : mirror[q][d] # Zrem(<<u, d>>)
      BY <1>9, <2>1, CommandsDiffer DEF Actor
    <3> QED
      BY <1>1, <1>2, <2>6, <3>1, <3>2 DEF RedisSound, MembersSound, On
  <2>10. RedisSound(d)'
    BY <2>6, <2>8, <2>9 DEF RedisSound
  <2> QED
    BY <1>5, <1>8, <2>3, <2>4, <2>10
<1>10. CASE mirror[a][d] = Zrem(<<t, d>>)
  <2>1. a \in Dispatcher /\ Holds(a, d)
    BY <1>2, <1>10 DEF RedisSound, MirrorSound, Holds, BeforeWrite
  <2>2. /\ \A q \in Dispatcher : d \notin pop[q].claimed
        /\ \A q \in Dispatcher, u \in Nat : ~On(q, u, d) /\ ~Waits(q, u, d)
        /\ \A b \in Actor : b # a => mirror[b][d] = NoCommand
        /\ d \notin Deleted /\ ~Lost(d)
    BY <2>1, OwnedAlone
  <2>3. zset' = Drop(<<t, d>>)
    BY <1>10 DEF MirrorSent, Zrem
  <2>4. ZsetSound' /\ \A m \in zset' : m \in zset /\ m.key # <<t, d>>
    BY <1>2, <2>3, DropMembers
  <2>5. \A q \in Dispatcher : d \notin pop'[q].claimed /\ \A u \in Nat : ~On(q, u, d)' /\ ~Waits(q, u, d)'
    BY <1>1, <2>2 DEF On, Waits
  <2>6. d \notin Deleted'
    BY <2>2 DEF Deleted
  <2>7. \A b \in Actor : mirror'[b][d] = NoCommand
    BY <1>3, <2>2
  <2>8. MembersSound(d)'
    <3> SUFFICES ASSUME NEW m \in zset', NEW u \in Nat, m.key = <<u, d>>
                 PROVE  <<u, d>> \in due'
      BY DEF MembersSound
    <3>1. m \in zset /\ u # t
      BY <2>4
    <3>2. \A q \in Dispatcher : mirror[q][d] # Zrem(<<u, d>>)
      BY <1>10, <2>2, <3>1, CommandsDiffer DEF Actor
    <3> QED
      BY <1>1, <1>2, <2>2, <3>1, <3>2 DEF RedisSound, MembersSound
  <2>9. RedisSound(d)'
    BY <2>5, <2>6, <2>7, <2>8, CommandsDiffer
       DEF RedisSound, PoppedOnce, PopOwns, HandsApart, Hand, MirrorSound, Untouched
  <2> QED
    BY <1>5, <1>8, <2>4, <2>9
<1> QED
  BY <1>4, <1>9, <1>10

LEMMA LeaseDropped ==
    ASSUME LeaseInv, NEW p \in Dispatcher, NEW d \in Delivery, Finish(p, d),
           UNCHANGED <<clock, rec, due, attempts, endpoint, call, requeues>>
    PROVE  /\ LeaseInv' /\ pc'[p][d] = "idle"
           /\ \A q \in Dispatcher, e \in Delivery : ~(q = p /\ e = d) =>
                pc'[q][e] = pc[q][e] /\ snap'[q][e] = snap[q][e]
<1>0. TypeInv
  BY DEF LeaseInv
<1>1. pc'[p][d] = "idle"
  BY <1>0, FinishTypes
<1>2. \A q \in Dispatcher, e \in Delivery : ~(q = p /\ e = d) =>
        /\ pc'[q][e] = pc[q][e] /\ snap'[q][e] = snap[q][e]
        /\ begun'[q][e] = begun[q][e] /\ plan'[q][e] = plan[q][e]
  BY <1>0 DEF Finish, Goto, TypeInv, TypeOK
<1>3. TypeInv'
  BY <1>0, FinishTypes, TimesFinish DEF TypeInv, TypeOK
<1>4. WavesInTime'
  <2>1. \A q \in Dispatcher, e \in Delivery :
          /\ pc'[q][e] = "queued" => pc[q][e] = "queued" /\ snap'[q][e] = snap[q][e]
          /\ pc'[q][e] \notin {"idle", "queued"} =>
                pc[q][e] # "idle" /\ begun'[q][e] = begun[q][e]
    BY <1>1, <1>2
  <2> QED
    BY <2>1, WavesStay DEF LeaseInv
<1>5. ASSUME NEW e \in Delivery PROVE Sound(e)'
  <2>1. Sound(e)
    BY DEF LeaseInv
  <2>2. CASE e = d
    <3>1. \A q \in Dispatcher : q # p =>
            /\ pc'[q][d] = pc[q][d] /\ snap'[q][d] = snap[q][d]
            /\ begun'[q][d] = begun[q][d] /\ plan'[q][d] = plan[q][d]
      BY <1>2
    <3> QED
      BY <1>0, <1>1, <2>1, <2>2, <3>1, LeaseDrops
  <2>3. CASE e # d
    <3>1. \A q \in Dispatcher :
            /\ pc'[q][e] = pc[q][e] /\ snap'[q][e] = snap[q][e]
            /\ begun'[q][e] = begun[q][e] /\ plan'[q][e] = plan[q][e]
      BY <1>2, <2>3
    <3> QED
      BY <2>1, <3>1, LeaseFrame
  <2> QED
    BY <2>2, <2>3
<1> QED
  BY <1>1, <1>2, <1>3, <1>4, <1>5 DEF LeaseInv

\* The second command is never sent. After a removal the delivery is lost; after an addition it
\* has its due key and no member.
LEMMA RedisLost ==
    ASSUME RedisInv, NEW p \in Dispatcher, NEW d \in Delivery, MirrorLost(p, d)
    PROVE  RedisInv'
<1>1. /\ mirror[p][d] # NoCommand /\ Finish(p, d)
      /\ mirror' = [mirror EXCEPT ![p][d] = NoCommand]
      /\ UNCHANGED <<clock, rec, due, attempts, endpoint, call, requeues, zset, pop>>
  BY DEF MirrorLost
<1>2. TypeInv /\ PopTypes /\ ZsetSound /\ RedisSound(d) /\ Sound(d) /\ p \in Actor
  BY DEF RedisInv, LeaseInv, Actor
<1>3. /\ LeaseInv' /\ pc'[p][d] = "idle"
      /\ \A q \in Dispatcher, e \in Delivery : ~(q = p /\ e = d) =>
            pc'[q][e] = pc[q][e] /\ snap'[q][e] = snap[q][e]
  BY <1>1, LeaseDropped DEF RedisInv
<1>4. /\ mirror' \in [Actor -> [Delivery -> AnyCommand]]
      /\ \A b \in Actor, e \in Delivery :
            mirror'[b][e] = IF b = p /\ e = d THEN NoCommand ELSE mirror[b][e]
  BY <1>1, <1>2, MirrorTypes DEF AnyCommand
<1>5. pop[p] = NoPop
  BY <1>1, <1>2 DEF PopTypes, PopShape
<1>6. PopTypes' /\ ZsetSound'
  <2>1. \A q \in Dispatcher : pop[q].pc # "off" =>
            \A e \in Delivery : pc'[q][e] = pc[q][e] /\ mirror'[q][e] = mirror[q][e]
    BY <1>3, <1>4, <1>5 DEF Actor, NoPop
  <2> QED
    BY <1>1, <1>2, <1>4, <2>1, StillShape
<1>7. \A e \in Delivery : SameView(e) /\ ~PopOwns(p, e)
  BY <1>1, <1>5 DEF SameView, Waits, On, PopOwns, NoPop
<1>8. \A q \in Dispatcher, e \in Delivery : Holds(q, e)' => Holds(q, e)
  BY <1>3 DEF Holds, BeforeWrite, Written
<1>9. clock + leaseMs \in Nat
  BY <1>2, ClaimRuns
<1>10. ASSUME NEW e \in Delivery, e # d PROVE RedisSound(e)'
  <2>1. \A q \in Dispatcher : pc'[q][e] = pc[q][e] /\ snap'[q][e] = snap[q][e]
    BY <1>3, <1>10
  <2>2. \A b \in Actor : mirror'[b][e] = mirror[b][e]
    BY <1>4, <1>10
  <2>3. RedisSound(e)
    BY DEF RedisInv
  <2> QED
    BY <1>1, <1>7, <1>8, <1>9, <2>1, <2>2, <2>3, RedisFrame
<1>11. /\ PoppedOnce(d)' /\ HandsApart(d)' /\ Untouched(d)'
       /\ (Free(d) => Free(d)') /\ (Lost(d) => Lost(d)') /\ Deleted' = Deleted
  <2>1. \A q \in Dispatcher : PopOwns(q, d) => snap'[q][d] = snap[q][d]
    BY <1>3, <1>7
  <2> QED
    BY <1>1, <1>2, <1>7, <1>8, <1>9, <2>1, ViewFrame
<1>12. PICK t \in TimeOrNone : mirror[p][d] \in {Zadd(<<t, d>>), Zrem(<<t, d>>)}
  BY <1>1, <1>2 DEF RedisSound, MirrorSound, Behind
<1>13. \A b \in Actor : b # p => mirror[b][d] = NoCommand
  <2>1. CASE mirror[p][d] = Zadd(<<t, d>>)
    BY <1>2, <2>1 DEF RedisSound, MirrorSound
  <2>2. CASE mirror[p][d] = Zrem(<<t, d>>)
    <3>1. Holds(p, d)
      BY <1>2, <2>2 DEF RedisSound, MirrorSound, Holds, BeforeWrite
    <3> QED
      BY <3>1, OwnedAlone
  <2> QED
    BY <1>12, <2>1, <2>2
<1>14. \A b \in Actor : mirror'[b][d] = NoCommand
  BY <1>4, <1>13
<1>15. MirrorSound(d)'
  BY <1>14, CommandsDiffer DEF MirrorSound
<1>16. MembersSound(d)'
  <2> SUFFICES ASSUME NEW m \in zset, NEW u \in Nat, m.key = <<u, d>>, <<u, d>> \notin due,
                      ~\E q \in Dispatcher : On(q, u, d) /\ pop[q].pc = "pop_zrem",
                      ~Lost(d), d \notin Deleted
               PROVE  Lost(d)'
    BY <1>1, <1>11 DEF MembersSound, On
  <2>1. PICK q \in Dispatcher : mirror[q][d] = Zrem(<<u, d>>)
    BY <1>2 DEF RedisSound, MembersSound
  <2>2. q = p
    BY <1>13, <2>1, CommandsDiffer DEF Actor
  <2>3. pc[p][d] \in BeforeWrite /\ NoDue(d)
    BY <1>2, <2>1, <2>2 DEF RedisSound, MirrorSound, BeforeWrite, TimeOrNone
  <2>4. rec[d].status = "delivering" /\ \A b \in Dispatcher : b # p => ~Holds(b, d)
    BY <1>2, <2>3 DEF Sound, Leased, OwnedOnce, Holds
  <2>5. \A b \in Dispatcher : ~Holds(b, d)'
    BY <1>3, <1>8, <2>4 DEF Holds, BeforeWrite, Written
  <2>6. \A b \in Dispatcher : ~PopOwns(b, d)'
    <3>1. Holds(p, d)
      BY <2>3 DEF Holds
    <3> QED
      BY <1>1, <3>1, OwnedAlone DEF PopOwns, On
  <2> QED
    BY <1>1, <2>3, <2>4, <2>5, <2>6 DEF Lost, Free, NoDue
<1>17. RedisSound(d)'
  BY <1>11, <1>15, <1>16 DEF RedisSound
<1> QED
  BY <1>3, <1>6, <1>10, <1>17 DEF RedisInv

LEMMA KeysOf ==
    ASSUME NEW S, IsFiniteSet(S)
    PROVE  /\ IsFiniteSet({m.key : m \in S}) /\ Cardinality({m.key : m \in S}) \in Nat
           /\ Cardinality({m.key : m \in S}) <= Cardinality(S)
<1> DEFINE T == {m.key : m \in S}
           f == [m \in S |-> m.key]
<1>1. f \in Surjection(S, T)
  BY DEF Surjection
<1>2. IsFiniteSet(T) /\ Cardinality(T) <= Cardinality(S)
  BY <1>1, FS_Surjection
<1> QED
  BY <1>2, FS_CardinalityType

\* The script pops members whose time has come, and hides them for the length of the lease.
LEMMA RedisScript ==
    ASSUME RedisInv, WorkersKeepUp, NEW p \in Dispatcher, RunScript(p)
    PROVE  PopTypes' /\ ZsetSound' /\ \A d \in Delivery : RedisSound(d)'
<1>1. /\ UNCHANGED <<rec, due, pc, snap, clock, call, mirror>>
      /\ \A d \in Delivery : pc[p][d] = "idle" /\ mirror[p][d] = NoCommand
      /\ pop[p].pc = "off"
  BY DEF RunScript, PopOnly, Popping
<1>2. PICK popped \in SUBSET {m \in zset : m.score <= clock} :
        /\ Cardinality(popped) <= BatchSize
        /\ zset' = Repositioned(popped, clock + leaseMs)
        /\ \E m \in popped :
            pop' = [pop EXCEPT ![p] =
                [NoPop EXCEPT !.pc = "pop_entry", !.now = clock, !.key = m.key,
                              !.todo = {n.key : n \in popped} \ {m.key}]]
  <2>1. PICK nowMs \in IF Prompt THEN {clock} ELSE 0 .. clock :
          \E popped \in SUBSET {m \in zset : m.score <= nowMs} :
            /\ Cardinality(popped) <= BatchSize
            /\ zset' = Repositioned(popped, nowMs + leaseMs)
            /\ \E m \in popped :
                pop' = [pop EXCEPT ![p] =
                    [NoPop EXCEPT !.pc = "pop_entry", !.now = nowMs, !.key = m.key,
                                  !.todo = {n.key : n \in popped} \ {m.key}]]
    BY DEF RunScript
  <2>2. nowMs = clock
    BY DEF WorkersKeepUp
  <2> QED
    BY <2>1, <2>2
<1>3. PICK first \in popped :
            pop' = [pop EXCEPT ![p] =
                [NoPop EXCEPT !.pc = "pop_entry", !.now = clock, !.key = first.key,
                              !.todo = {n.key : n \in popped} \ {first.key}]]
  BY <1>2
<1>4. TypeInv /\ PopTypes /\ ZsetSound /\ pop[p] = NoPop
  BY <1>1 DEF RedisInv, LeaseInv, PopTypes, PopShape
<1>5. /\ clock \in Nat /\ clock + leaseMs \in Nat /\ clock < clock + leaseMs
  BY <1>4, ClaimRuns
<1> PICK keys : keys = {n.key : n \in popped} \ {first.key}
  OBVIOUS
<1>6. /\ pop'[p].pc = "pop_entry" /\ pop'[p].now = clock /\ pop'[p].key = first.key
      /\ pop'[p].todo = keys /\ pop'[p].claimed = {} /\ pop'[p].seen = AbsentRecord
      /\ \A q \in Dispatcher : q # p => pop'[q] = pop[q]
  BY <1>3, <1>4 DEF NoPop, PopTypes
<1>7. popped \subseteq zset /\ \A m \in popped : m.score <= clock
  OBVIOUS
<1>8. \A m \in popped : m.key \in Key /\ m.key[1] <= clock /\ m.key[1] \in Nat
  <2> TAKE m \in popped
  <2>1. m \in [key: Key, score: Nat] /\ m.key[1] <= m.score /\ m.score <= clock
    BY <1>4, <1>7 DEF ZsetSound
  <2>2. m.key \in Key /\ m.key[1] \in Nat /\ m.score \in Nat
    BY <2>1 DEF Key
  <2> QED
    BY <1>5, <2>1, <2>2
<1>9. IsFiniteSet(keys) /\ Cardinality(keys) \in Nat /\ Cardinality(keys) < BatchSize
  <2>1. IsFiniteSet(popped)
    BY <1>4, <1>7, FS_Subset DEF ZsetSound
  <2> DEFINE others == popped \ {first}
             otherKeys == {n.key : n \in others}
  <2>2. IsFiniteSet(others) /\ Cardinality(others) = Cardinality(popped) - 1 /\ Cardinality(popped) \in Nat
    BY <2>1, FS_RemoveElement, FS_CardinalityType
  <2>3. IsFiniteSet(otherKeys) /\ Cardinality(otherKeys) \in Nat /\ Cardinality(otherKeys) <= Cardinality(others)
    BY <2>2, KeysOf
  <2>4. keys \subseteq otherKeys
    OBVIOUS
  <2> HIDE DEF others, otherKeys
  <2>5. IsFiniteSet(keys) /\ Cardinality(keys) <= Cardinality(otherKeys)
    BY <2>3, <2>4, FS_Subset
  <2>6. Cardinality(keys) \in Nat
    BY <2>5, FS_CardinalityType
  <2> QED
    BY <1>2, <2>2, <2>3, <2>5, <2>6, SizeAssumption
<1>10. keys \subseteq Key /\ \A k \in keys : k[1] <= clock
  BY <1>8
<1>11. PopTypes'
  <2>1. pop'[p] \in AnyPop
    <3>1. pop'[p] = [pc |-> "pop_entry", now |-> clock, todo |-> keys, key |-> first.key,
                     seen |-> AbsentRecord, claimed |-> {}]
      BY <1>3, <1>4 DEF NoPop, PopTypes
    <3> QED
      BY <1>5, <1>8, <1>10, <3>1, AbsentRecordType DEF AnyPop, PopPc
  <2>2. pop' \in [Dispatcher -> AnyPop]
    BY <1>3, <1>4, <1>6, <2>1 DEF PopTypes
  <2>3. ASSUME NEW q \in Dispatcher PROVE PopShape(q)'
    <3>1. CASE q = p
      <4>1. IsFiniteSet({}) /\ Cardinality({}) = 0
        BY FS_EmptySet
      <4>2. first.key \notin keys
        OBVIOUS
      <4>3. Cardinality(pop'[p].claimed) + Cardinality(pop'[p].todo) < BatchSize
        BY <1>6, <1>9, <4>1, SizeAssumption
      <4>4. /\ pop'[p].pc # "off" /\ pop'[p].now = clock'
            /\ pop'[p].key \in Key /\ pop'[p].key[1] <= clock' /\ pop'[p].key \notin pop'[p].todo
            /\ \A k \in pop'[p].todo : k[1] <= clock'
            /\ IsFiniteSet(pop'[p].todo) /\ IsFiniteSet(pop'[p].claimed)
        BY <1>1, <1>6, <1>8, <1>9, <1>10, <4>1, <4>2
      <4>5. \A d \in Delivery : pc'[p][d] = "idle" /\ mirror'[p][d] = NoCommand
        BY <1>1
      <4> QED
        BY <3>1, <4>3, <4>4, <4>5 DEF PopShape, Key
    <3>2. CASE q # p
      <4>1. PopShape(q) /\ pop'[q] = pop[q] /\ NoPop' = NoPop
        BY <1>4, <1>6, <3>2 DEF PopTypes, NoPop, AbsentRecord
      <4> QED
        BY <1>1, <4>1 DEF PopShape, Key
    <3> QED
      BY <3>1, <3>2
  <2> QED
    BY <1>1, <1>4, <2>2, <2>3 DEF PopTypes
<1>12. \A m \in zset' : \/ m \in zset /\ m \notin popped
                        \/ \E n \in popped : m.key = n.key /\ m.score = clock + leaseMs
  BY <1>2 DEF Repositioned
<1>13. ZsetSound'
  <2>1. zset' \subseteq [key: Key, score: Nat]
    BY <1>2, <1>4, <1>5, <1>8 DEF Repositioned, ZsetSound
  <2>2. \A m, n \in zset' : m.key = n.key => m = n
    <3> SUFFICES ASSUME NEW m \in zset', NEW n \in zset', m.key = n.key PROVE m.score = n.score
      BY <2>1
    <3>1. \A a \in zset, b \in popped : a \notin popped => a.key # b.key
      BY <1>4, <1>7 DEF ZsetSound
    <3> QED
      BY <1>4, <1>12, <3>1 DEF ZsetSound
  <2>3. \A m \in zset' : m.key[1] <= m.score
    <3> TAKE m \in zset'
    <3>1. CASE m \in zset
      BY <1>4, <3>1 DEF ZsetSound
    <3>2. CASE m.score = clock + leaseMs /\ \E n \in popped : m.key = n.key
      <4>1. m.key[1] \in Nat /\ m.key[1] <= clock
        BY <1>8, <3>2
      <4> QED
        BY <1>5, <3>2, <4>1
    <3> QED
      BY <1>12, <3>1, <3>2
  <2>4. IsFiniteSet(zset')
    <3>1. IsFiniteSet(zset) /\ IsFiniteSet(popped)
      BY <1>4, <1>7, FS_Subset DEF ZsetSound
    <3>2. IsFiniteSet({m \in zset : m \notin popped})
      BY <3>1, FS_Subset
    <3> DEFINE moved == {[key |-> m.key, score |-> clock + leaseMs] : m \in popped}
    <3>3. IsFiniteSet(moved)
      <4> DEFINE f == [m \in popped |-> [key |-> m.key, score |-> clock + leaseMs]]
      <4>1. f \in Surjection(popped, moved)
        BY DEF Surjection
      <4> QED
        BY <3>1, <4>1, FS_Surjection
    <3> HIDE DEF moved
    <3>4. IsFiniteSet({m \in zset : m \notin popped} \cup moved)
      BY <3>2, <3>3, FS_Union
    <3> QED
      BY <1>2, <3>4 DEF Repositioned, moved
  <2> QED
    BY <2>1, <2>2, <2>3, <2>4 DEF ZsetSound, Key
<1>14. ASSUME NEW d \in Delivery PROVE RedisSound(d)'
  <2>1. RedisSound(d) /\ Sound(d)
    BY DEF RedisInv, LeaseInv
  <2>2. \A t \in Nat : Waits(p, t, d)' <=> \E m \in popped : m.key = <<t, d>>
    BY <1>6 DEF Waits
  <2>3. /\ \A t \in Nat : ~On(p, t, d)' /\ ~On(p, t, d) /\ ~Waits(p, t, d)
        /\ ~PopOwns(p, d) /\ ~PopOwns(p, d)' /\ d \notin pop'[p].claimed
    BY <1>4, <1>6 DEF On, Waits, PopOwns, NoPop
  <2>4. \A q \in Dispatcher : q # p =>
            /\ PopOwns(q, d)' <=> PopOwns(q, d)
            /\ \A t \in Nat : /\ On(q, t, d)' <=> On(q, t, d)
                              /\ Waits(q, t, d)' <=> Waits(q, t, d)
                              /\ Hand(q, t, d)' <=> Hand(q, t, d)
            /\ pop'[q] = pop[q]
    BY <1>6 DEF PopOwns, On, Waits, Hand
  <2>5. /\ NoDue(d)' <=> NoDue(d)
        /\ Free(d)' <=> Free(d)
        /\ Lost(d)' <=> Lost(d)
        /\ Deleted' = Deleted /\ leaseMs' = leaseMs
    BY <1>1, <2>3, <2>4 DEF Free, Lost, NoDue, Holds, Deleted, leaseMs
  <2>6. PoppedOnce(d)'
    <3>1. \A q \in Dispatcher : PopWon(q, d)' <=> PopWon(q, d)
      BY <1>1, <2>5 DEF PopWon
    <3>2. ASSUME NEW q \in Dispatcher, NEW t \in Nat, On(q, t, d)' PROVE Step(q, t, d)'
      <4>1. On(q, t, d) /\ Step(q, t, d) /\ pop'[q] = pop[q]
        BY <2>1, <2>3, <2>4, <3>2 DEF RedisSound, PoppedOnce
      <4> QED
        BY <1>1, <2>5, <3>1, <4>1 DEF Step
    <3>3. ASSUME NEW q \in Dispatcher, PopOwns(q, d)', NEW r \in Dispatcher
          PROVE  ~Holds(r, d)' /\ (PopOwns(r, d)' => r = q)
      BY <1>1, <2>1, <2>3, <2>4, <3>3 DEF RedisSound, PoppedOnce, Holds
    <3>4. ASSUME NEW q \in Dispatcher, d \in pop'[q].claimed
          PROVE  PopWon(q, d)' /\ (<<clock + leaseMs, d>> \in due)'
      BY <1>1, <2>1, <2>3, <2>4, <2>5, <3>1, <3>4 DEF RedisSound, PoppedOnce
    <3> QED
      BY <3>2, <3>3, <3>4 DEF PoppedOnce
  <2>7. ASSUME NEW m \in popped, NEW t \in Nat, m.key = <<t, d>>, NEW q \in Dispatcher
        PROVE  ~Hand(q, t, d)
    <3>1. m \in zset /\ m.score <= clock /\ m.score \in Nat
      BY <1>4, <1>7 DEF ZsetSound
    <3>2. ~(clock < m.score)
      BY <1>5, <3>1
    <3>3. HandsApart(d)
      BY <2>1 DEF RedisSound
    <3> QED
      BY <2>7, <3>1, <3>2, <3>3 DEF HandsApart
  <2>8. ASSUME NEW m \in popped, NEW t \in Nat, m.key = <<t, d>>
        PROVE  <<t, d>> \in due \/ Lost(d) \/ d \in Deleted
    <3>1. m \in zset /\ t <= clock
      BY <1>7, <1>8, <2>8
    <3>2. ASSUME NEW q \in Dispatcher, mirror[q][d] = Zrem(<<t, d>>) PROVE FALSE
      <4>1. pc[q][d] \in BeforeWrite /\ t = rec[d].leaseUntil
        BY <2>1, <2>8, <3>1, <3>2 DEF RedisSound, MirrorSound, Actor, TimeOrNone, BeforeWrite
      <4> QED
        BY <1>4, <1>5, <2>1, <3>1, <4>1, LeaseRuns
    <3>3. ASSUME NEW q \in Dispatcher, On(q, t, d), pop[q].pc = "pop_zrem" PROVE FALSE
      BY <2>7, <2>8, <3>3 DEF Hand
    <3> QED
      BY <2>1, <2>8, <3>1, <3>2, <3>3 DEF RedisSound, MembersSound
  <2>9. HandsApart(d)'
    <3>1. ASSUME NEW q \in Dispatcher, NEW t \in Nat, Hand(q, t, d)', NEW m \in zset', m.key = <<t, d>>
          PROVE  clock < m.score
      <4>1. CASE m \in zset /\ m \notin popped
        <5>1. q # p
          <6>1. ASSUME q = p PROVE FALSE
            <7>1. PICK n \in popped : n.key = <<t, d>>
              BY <2>2, <2>3, <3>1, <6>1 DEF Hand
            <7> QED
              BY <1>4, <1>7, <3>1, <4>1, <7>1 DEF ZsetSound
          <6> QED
            BY <6>1
        <5>2. Hand(q, t, d) /\ HandsApart(d)
          BY <2>1, <2>4, <3>1, <5>1 DEF RedisSound
        <5>3. \A n \in zset : n.key = <<t, d>> => clock < n.score
          BY <5>2 DEF HandsApart
        <5> QED
          BY <3>1, <4>1, <5>3
      <4>2. CASE m.score = clock + leaseMs
        BY <1>5, <4>2
      <4> QED
        BY <1>12, <4>1, <4>2
    <3>2. ASSUME NEW q \in Dispatcher, NEW t \in Nat, Hand(q, t, d)', NEW r \in Dispatcher, Hand(r, t, d)'
          PROVE  r = q
      <4>1. ASSUME NEW b \in Dispatcher, b # p, Hand(b, t, d)' PROVE Hand(b, t, d)
        BY <2>4, <4>1
      <4>2. Hand(p, t, d)' => \A b \in Dispatcher : ~Hand(b, t, d)
        BY <2>2, <2>3, <2>7 DEF Hand
      <4>3. CASE q # p /\ r # p
        BY <2>1, <3>2, <4>1, <4>3 DEF RedisSound, HandsApart
      <4>4. CASE q = p \/ r = p
        BY <3>2, <4>1, <4>2, <4>4
      <4> QED
        BY <4>3, <4>4
    <3>3. ASSUME NEW q \in Dispatcher, NEW t \in Nat, Waits(q, t, d)'
          PROVE  (<<t, d>> \in due)' \/ Lost(d)' \/ (d \in Deleted)'
      <4>1. CASE q = p
        BY <1>1, <2>2, <2>5, <2>8, <3>3, <4>1
      <4>2. CASE q # p
        BY <1>1, <2>1, <2>4, <2>5, <3>3, <4>2 DEF RedisSound, HandsApart
      <4> QED
        BY <4>1, <4>2
    <3>4. clock' = clock
      BY <1>1
    <3> QED
      BY <3>1, <3>2, <3>3, <3>4 DEF HandsApart
  <2>10. \A m \in zset' : \E n \in zset : n.key = m.key
    BY <1>7, <1>12
  <2>11. MirrorSound(d)'
    <3> SUFFICES ASSUME NEW a \in Actor PROVE
        /\ (mirror[a][d] = NoCommand \/ Behind(a, d))'
        /\ \A t \in TimeOrNone : mirror'[a][d] = Zrem(<<t, d>>) =>
            /\ a \in Dispatcher /\ pc'[a][d] \in {"unindex_lease", "write", "hold_write"}
            /\ \A m \in zset' : m.key = <<t, d>> => t = rec'[d].leaseUntil /\ NoDue(d)'
        /\ \A t \in TimeOrNone : mirror'[a][d] = Zadd(<<t, d>>) =>
            /\ t \in Nat /\ <<t, d>> \in due' /\ Free(d)'
            /\ \A b \in Actor : mirror'[b][d] # NoCommand => b = a
            /\ \A m \in zset' : m.key # <<t, d>>
            /\ \A q \in Dispatcher : ~Waits(q, t, d)'
      BY DEF MirrorSound
    <3>1. (mirror[a][d] = NoCommand \/ Behind(a, d))'
      BY <1>1, <2>1 DEF RedisSound, MirrorSound, Behind
    <3>2. ASSUME NEW t \in TimeOrNone, mirror'[a][d] = Zrem(<<t, d>>)
          PROVE  /\ a \in Dispatcher /\ pc'[a][d] \in {"unindex_lease", "write", "hold_write"}
                 /\ \A m \in zset' : m.key = <<t, d>> => t = rec'[d].leaseUntil /\ NoDue(d)'
      BY <1>1, <2>1, <2>5, <2>10, <3>2 DEF RedisSound, MirrorSound
    <3>3. ASSUME NEW t \in TimeOrNone, mirror'[a][d] = Zadd(<<t, d>>)
          PROVE  /\ t \in Nat /\ <<t, d>> \in due' /\ Free(d)'
                 /\ \A b \in Actor : mirror'[b][d] # NoCommand => b = a
                 /\ \A m \in zset' : m.key # <<t, d>>
                 /\ \A q \in Dispatcher : ~Waits(q, t, d)'
      <4>1. mirror[a][d] = Zadd(<<t, d>>)
        BY <1>1, <3>3
      <4>2. /\ t \in Nat /\ <<t, d>> \in due /\ Free(d)
            /\ \A b \in Actor : mirror[b][d] # NoCommand => b = a
            /\ \A m \in zset : m.key # <<t, d>>
            /\ \A q \in Dispatcher : ~Waits(q, t, d)
        BY <2>1, <4>1 DEF RedisSound, MirrorSound
      <4>3. \A m \in popped : m.key # <<t, d>>
        BY <1>7, <4>2
      <4>4. \A q \in Dispatcher : ~Waits(q, t, d)'
        BY <2>2, <2>4, <4>2, <4>3
      <4> QED
        BY <1>1, <2>5, <2>10, <4>2, <4>4
    <3> QED
      BY <3>1, <3>2, <3>3
  <2>12. MembersSound(d)'
    <3> SUFFICES ASSUME NEW m \in zset', NEW t \in Nat, m.key = <<t, d>>
                 PROVE  \/ <<t, d>> \in due
                        \/ \E q \in Dispatcher : mirror[q][d] = Zrem(<<t, d>>)
                        \/ \E q \in Dispatcher : On(q, t, d)' /\ pop'[q].pc = "pop_zrem"
                        \/ Lost(d) \/ d \in Deleted
      BY <1>1, <2>5 DEF MembersSound
    <3>1. PICK n \in zset : n.key = <<t, d>>
      BY <2>10
    <3>2. \A q \in Dispatcher : On(q, t, d) => On(q, t, d)' /\ pop'[q] = pop[q]
      BY <2>3, <2>4
    <3> QED
      BY <2>1, <3>1, <3>2 DEF RedisSound, MembersSound
  <2>13. Untouched(d)'
    BY <1>1, <2>1, <2>5 DEF RedisSound, Untouched
  <2> QED
    BY <2>6, <2>9, <2>11, <2>12, <2>13 DEF RedisSound
<1> QED
  BY <1>11, <1>13, <1>14

------------------------------------------------------------------------------
(* The commands of a claim, one delivery at a time. *)

LEMMA GotoShape ==
    ASSUME PopTypes, NEW p \in Dispatcher, pop[p].pc # "off",
           NEW step \in PopPc \ {"off", "pop_sweep_del"}, NEW seen \in Record, PopGoto(p, step, seen),
           UNCHANGED <<clock, pc, mirror>>
    PROVE  /\ PopTypes'
           /\ pop'[p].pc = step /\ pop'[p].seen = seen /\ pop'[p].key = pop[p].key
           /\ pop'[p].todo = pop[p].todo /\ pop'[p].claimed = pop[p].claimed /\ pop'[p].now = pop[p].now
           /\ \A q \in Dispatcher : q # p => pop'[q] = pop[q]
<1>1. pop[p] \in AnyPop /\ pop \in [Dispatcher -> AnyPop]
  BY DEF PopTypes
<1>2. pop'[p] = [pop[p] EXCEPT !.pc = step, !.seen = seen]
      /\ \A q \in Dispatcher : q # p => pop'[q] = pop[q]
  BY <1>1 DEF PopGoto
<1>3. /\ pop'[p].pc = step /\ pop'[p].seen = seen /\ pop'[p].key = pop[p].key
      /\ pop'[p].todo = pop[p].todo /\ pop'[p].claimed = pop[p].claimed /\ pop'[p].now = pop[p].now
      /\ pop'[p] \in AnyPop
  BY <1>1, <1>2 DEF AnyPop
<1>4. pop' \in [Dispatcher -> AnyPop]
  BY <1>1, <1>3 DEF PopGoto
<1>5. ASSUME NEW q \in Dispatcher PROVE PopShape(q)'
  <2>1. PopShape(q) /\ NoPop' = NoPop
    BY DEF PopTypes, NoPop, AbsentRecord
  <2>2. CASE q = p
    BY <1>3, <2>1, <2>2 DEF PopShape, Key
  <2>3. CASE q # p
    BY <1>2, <2>1, <2>3 DEF PopShape, Key
  <2> QED
    BY <2>2, <2>3
<1> QED
  BY <1>2, <1>3, <1>4, <1>5 DEF PopTypes

LEMMA GotoOthers ==
    ASSUME RedisInv, NEW p \in Dispatcher, NEW t \in Nat, NEW d \in Delivery, NEW e \in Delivery, e # d,
           pop[p].key = <<t, d>>, pop[p].pc # "off",
           pop'[p].pc # "off", pop'[p].key = pop[p].key, pop'[p].todo = pop[p].todo,
           pop'[p].claimed = pop[p].claimed, \A q \in Dispatcher : q # p => pop'[q] = pop[q],
           UNCHANGED <<clock, pc, mirror, call>>, rec'[e] = rec[e],
           \A u \in Nat : <<u, e>> \in due' <=> <<u, e>> \in due,
           \A q \in Dispatcher : snap'[q][e] = snap[q][e],
           \A m \in zset', u \in TimeOrNone : m.key = <<u, e>> => m \in zset
    PROVE  RedisSound(e)'
<1>1. \A u \in Nat : <<u, e>> # <<t, d>>
  OBVIOUS
<1>2. SameView(e)
  BY <1>1 DEF SameView, Waits, On
<1>3. RedisSound(e) /\ clock + leaseMs \in Nat
  BY ClaimRuns DEF RedisInv, LeaseInv
<1>4. \A q \in Dispatcher : Holds(q, e)' <=> Holds(q, e)
  BY DEF Holds
<1> QED
  BY <1>2, <1>3, <1>4, RedisFrame

\* Who has found the due key of d has d to itself.
LEMMA ClaimAlone ==
    ASSUME RedisInv, NEW p \in Dispatcher, NEW t \in Nat, NEW d \in Delivery, On(p, t, d),
           pop[p].pc # "pop_sweep_zrem"
    PROVE  /\ Step(p, t, d) /\ ~Free(d) /\ ~Lost(d) /\ d \notin Deleted /\ PopOwns(p, d)
           /\ \A q \in Dispatcher : ~Holds(q, d) /\ d \notin pop[q].claimed
           /\ \A q \in Dispatcher, u \in Nat : On(q, u, d) => q = p /\ u = t
           /\ \A q \in Dispatcher, u \in Nat : Waits(q, u, d) => <<u, d>> \in due
           /\ ~Waits(p, t, d)
           /\ \A a \in Actor : mirror[a][d] = NoCommand
           /\ \A m \in zset, u \in Nat : m.key = <<u, d>> =>
                <<u, d>> \in due \/ (u = t /\ pop[p].pc = "pop_zrem")
<1>1. PoppedOnce(d) /\ HandsApart(d) /\ MirrorSound(d) /\ MembersSound(d) /\ Untouched(d) /\ PopShape(p)
  BY DEF RedisInv, RedisSound, PopTypes
<1>2. Step(p, t, d) /\ PopOwns(p, d)
  BY <1>1 DEF PoppedOnce, PopOwns
<1>3. ~Free(d) /\ ~Lost(d)
  BY <1>2 DEF Free, Lost
<1>4. \A q \in Dispatcher : ~Holds(q, d) /\ (PopOwns(q, d) => q = p)
  BY <1>1, <1>2 DEF PoppedOnce
<1>5. d \notin Deleted
  <2>1. pop[p].pc \in {"pop_record", "pop_write", "pop_del", "pop_zrem", "pop_set", "pop_zadd"}
    BY DEF On, RedisInv, PopTypes, AnyPop, PopPc
  <2>2. <<t, d>> \in due \/ rec[d].status = "delivering"
    BY <1>2, <2>1 DEF Step, PopWon
  <2> QED
    BY <1>1, <2>2 DEF Untouched, NoDue, AbsentRecord
<1>6. \A q \in Dispatcher : d \notin pop[q].claimed
  BY <1>2, <1>4 DEF PopOwns, Step
<1>7. \A q \in Dispatcher, u \in Nat : On(q, u, d) => q = p /\ u = t
  <2> SUFFICES ASSUME NEW q \in Dispatcher, NEW u \in Nat, On(q, u, d) PROVE q = p /\ u = t
    OBVIOUS
  <2>1. pop[q].pc # "pop_sweep_zrem"
    BY <1>1, <1>3, <1>5 DEF PoppedOnce, Step
  <2>2. q = p
    BY <1>4, <2>1 DEF PopOwns
  <2> QED
    BY <2>2 DEF On
<1>8. \A q \in Dispatcher, u \in Nat : Waits(q, u, d) => <<u, d>> \in due
  BY <1>1, <1>3, <1>5 DEF HandsApart
<1>9. ~Waits(p, t, d)
  BY <1>1 DEF Waits, On, PopShape
<1>10. \A a \in Actor : mirror[a][d] = NoCommand
  <2> SUFFICES ASSUME NEW a \in Actor, mirror[a][d] # NoCommand PROVE FALSE
    OBVIOUS
  <2>1. PICK u \in TimeOrNone : mirror[a][d] \in {Zadd(<<u, d>>), Zrem(<<u, d>>)}
    BY <1>1 DEF MirrorSound, Behind
  <2>2. mirror[a][d] = Zrem(<<u, d>>) => a \in Dispatcher /\ Holds(a, d)
    BY <1>1 DEF MirrorSound, Holds, BeforeWrite
  <2>3. mirror[a][d] = Zadd(<<u, d>>) => Free(d)
    BY <1>1 DEF MirrorSound
  <2> QED
    BY <1>3, <1>4, <2>1, <2>2, <2>3
<1>11. \A m \in zset, u \in Nat : m.key = <<u, d>> =>
            <<u, d>> \in due \/ (u = t /\ pop[p].pc = "pop_zrem")
  <2>1. \A q \in Dispatcher, u \in Nat : mirror[q][d] # Zrem(<<u, d>>)
    BY <1>10, CommandsDiffer DEF Actor
  <2> QED
    BY <1>1, <1>3, <1>5, <1>7, <2>1 DEF MembersSound
<1> QED
  BY <1>2, <1>3, <1>4, <1>5, <1>6, <1>7, <1>8, <1>9, <1>10, <1>11

LEMMA ClaimGoesOn ==
    ASSUME RedisInv, NEW p \in Dispatcher, NEW t \in Nat, NEW d \in Delivery, On(p, t, d),
           pop[p].pc # "pop_sweep_zrem", On(p, t, d)', pop'[p].pc # "pop_sweep_zrem",
           Step(p, t, d)', pop'[p].todo = pop[p].todo, pop'[p].claimed = pop[p].claimed,
           \A q \in Dispatcher : q # p => pop'[q] = pop[q],
           pop[p].pc \in {"pop_set", "pop_zadd"} => pop'[p].pc \in {"pop_set", "pop_zadd"},
           UNCHANGED <<clock, pc, mirror>>, zset' \subseteq zset,
           \A q \in Dispatcher, u \in Nat : Waits(q, u, d) => <<u, d>> \in due',
           \A m \in zset', u \in Nat : m.key = <<u, d>> =>
                <<u, d>> \in due' \/ (u = t /\ pop'[p].pc = "pop_zrem")
    PROVE  RedisSound(d)'
<1>1. /\ d \notin Deleted /\ PopOwns(p, d)
      /\ \A q \in Dispatcher : ~Holds(q, d) /\ d \notin pop[q].claimed
      /\ \A q \in Dispatcher, u \in Nat : On(q, u, d) => q = p /\ u = t
      /\ ~Waits(p, t, d)
      /\ \A a \in Actor : mirror[a][d] = NoCommand
  BY ClaimAlone
<1>2. /\ \A q \in Dispatcher, u \in Nat : On(q, u, d)' => q = p /\ u = t
      /\ \A q \in Dispatcher, u \in Nat : Waits(q, u, d)' => Waits(q, u, d)
      /\ \A q \in Dispatcher : ~Holds(q, d)' /\ d \notin pop'[q].claimed
  BY <1>1 DEF On, Waits, Holds
<1>3. \A q \in Dispatcher, u \in Nat : Hand(q, u, d)' => Hand(q, u, d)
  BY <1>2 DEF Hand, On
<1>4. \A q \in Dispatcher : PopOwns(q, d)' => q = p
  BY <1>2 DEF PopOwns
<1>5. PoppedOnce(d)'
  BY <1>2, <1>4 DEF PoppedOnce
<1>6. HandsApart(d)'
  <2>1. ASSUME NEW q \in Dispatcher, NEW u \in Nat, Hand(q, u, d)'
        PROVE  /\ \A m \in zset' : m.key = <<u, d>> => clock < m.score
               /\ \A r \in Dispatcher : Hand(r, u, d)' => r = q
    <3>1. Hand(q, u, d) /\ HandsApart(d)
      BY <1>3, <2>1 DEF RedisInv, RedisSound
    <3>2. /\ \A m \in zset : m.key = <<u, d>> => clock < m.score
          /\ \A r \in Dispatcher : Hand(r, u, d) => r = q
      BY <3>1 DEF HandsApart
    <3> QED
      BY <1>3, <3>2
  <2> QED
    BY <1>2, <2>1 DEF HandsApart
<1>7. MirrorSound(d)'
  BY <1>1, CommandsDiffer DEF MirrorSound
<1>8. MembersSound(d)'
  BY DEF MembersSound
<1>9. Untouched(d)'
  BY <1>1 DEF Untouched, Deleted
<1> QED
  BY <1>5, <1>6, <1>7, <1>8, <1>9 DEF RedisSound

\* The claim looks for the due key: it has the delivery, or the member leads nowhere.
LEMMA RedisEntry ==
    ASSUME RedisInv, NEW p \in Dispatcher, PopEntry(p)
    PROVE  PopTypes' /\ ZsetSound' /\ \A e \in Delivery : RedisSound(e)'
<1>1. /\ UNCHANGED <<rec, due, zset, pc, snap, clock, call, mirror>>
      /\ pop[p].pc = "pop_entry"
      /\ PopGoto(p, IF pop[p].key \in due THEN "pop_record" ELSE "pop_sweep_zrem", AbsentRecord)
  BY DEF PopEntry, PopOnly, Popping
<1>2. TypeInv /\ PopTypes /\ ZsetSound /\ PopShape(p)
  BY DEF RedisInv, LeaseInv, PopTypes
<1>3. PICK t \in Nat, d \in Delivery : pop[p].key = <<t, d>>
  BY <1>1, <1>2 DEF PopShape, Key
<1> PICK step : step = IF pop[p].key \in due THEN "pop_record" ELSE "pop_sweep_zrem"
  OBVIOUS
<1>4. /\ PopTypes'
      /\ pop'[p].pc = step /\ pop'[p].seen = AbsentRecord /\ pop'[p].key = pop[p].key
      /\ pop'[p].todo = pop[p].todo /\ pop'[p].claimed = pop[p].claimed
      /\ \A q \in Dispatcher : q # p => pop'[q] = pop[q]
  <2>1. step \in PopPc \ {"off", "pop_sweep_del"}
    BY DEF PopPc
  <2> QED
    BY <1>1, <1>2, <2>1, AbsentRecordType, GotoShape
<1>5. ZsetSound'
  BY <1>1, <1>2 DEF ZsetSound
<1>6. ASSUME NEW e \in Delivery, e # d PROVE RedisSound(e)'
  BY <1>1, <1>3, <1>4, <1>6, GotoOthers
<1>7. /\ t <= clock /\ Waits(p, t, d) /\ Hand(p, t, d) /\ <<t, d>> \notin pop[p].todo
      /\ \A u \in Nat : ~On(p, u, d)
  BY <1>1, <1>2, <1>3 DEF PopShape, Waits, Hand, On
<1>8. RedisSound(d) /\ PoppedOnce(d) /\ HandsApart(d) /\ MirrorSound(d) /\ MembersSound(d) /\ Untouched(d)
  BY DEF RedisInv, RedisSound
<1>9. /\ \A q \in Dispatcher, u \in Nat : Waits(q, u, d)' => Waits(q, u, d)
      /\ \A u \in Nat : On(p, u, d)' <=> u = t
      /\ \A q \in Dispatcher : q # p => \A u \in Nat : On(q, u, d)' <=> On(q, u, d)
      /\ \A q \in Dispatcher : Holds(q, d)' <=> Holds(q, d)
      /\ \A q \in Dispatcher : d \in pop'[q].claimed <=> d \in pop[q].claimed
      /\ Deleted' = Deleted /\ (NoDue(d)' <=> NoDue(d)) /\ leaseMs' = leaseMs
  BY <1>1, <1>3, <1>4, <1>7 DEF Waits, On, Holds, Deleted, NoDue, leaseMs
<1>10. \A q \in Dispatcher, u \in Nat : Hand(q, u, d)' => Hand(q, u, d)
  <2> SUFFICES ASSUME NEW q \in Dispatcher, NEW u \in Nat, Hand(q, u, d)' PROVE Hand(q, u, d)
    OBVIOUS
  <2>1. CASE q = p
    BY <1>7, <1>9, <2>1 DEF Hand
  <2>2. CASE q # p
    BY <1>4, <1>9, <2>2 DEF Hand
  <2> QED
    BY <2>1, <2>2
<1>11. \A q \in Dispatcher : PopWon(q, d)' <=> PopWon(q, d)
  BY <1>1, <1>9 DEF PopWon
<1>12. CASE <<t, d>> \in due
  <2>1. step = "pop_record"
    BY <1>3, <1>12
  <2>2. Free(d) /\ ~Lost(d) /\ d \notin Deleted /\ \A a \in Actor : mirror[a][d] = NoCommand
    BY <1>7, <1>8, <1>12, RipeIsFree DEF Lost, NoDue, Untouched
  <2>3. \A q \in Dispatcher : q # p => ~PopOwns(q, d)'
    BY <1>4, <1>9, <2>2 DEF Free, PopOwns
  <2>4. \A q \in Dispatcher : ~Holds(q, d)' /\ d \notin pop'[q].claimed
    BY <1>9, <2>2 DEF Free, PopOwns
  <2>5. ASSUME NEW q \in Dispatcher, NEW u \in Nat, On(q, u, d)' PROVE Step(q, u, d)'
    <3>1. CASE q = p
      BY <1>1, <1>4, <1>9, <1>12, <2>1, <2>4, <2>5, <3>1 DEF Step
    <3>2. CASE q # p
      <4>1. On(q, u, d) /\ Step(q, u, d)
        BY <1>8, <1>9, <2>5, <3>2 DEF PoppedOnce
      <4>2. ~(pop[q].pc # "pop_sweep_zrem")
        BY <2>2, <4>1 DEF Free, PopOwns
      <4> QED
        BY <2>2, <4>1, <4>2 DEF Step
    <3> QED
      BY <3>1, <3>2
  <2>6. PoppedOnce(d)'
    BY <2>3, <2>4, <2>5 DEF PoppedOnce
  <2>7. HandsApart(d)'
    <3>1. \A q \in Dispatcher, u \in Nat : Waits(q, u, d)' => <<u, d>> \in due'
      BY <1>1, <1>8, <1>9, <2>2 DEF HandsApart
    <3>2. ASSUME NEW q \in Dispatcher, NEW u \in Nat, Hand(q, u, d)'
          PROVE  /\ \A m \in zset' : m.key = <<u, d>> => clock' < m.score
                 /\ \A r \in Dispatcher : Hand(r, u, d)' => r = q
      <4>1. Hand(q, u, d)
        BY <1>10, <3>2
      <4>2. /\ \A m \in zset : m.key = <<u, d>> => clock < m.score
            /\ \A r \in Dispatcher : Hand(r, u, d) => r = q
        BY <1>8, <4>1 DEF HandsApart
      <4> QED
        BY <1>1, <1>10, <4>2
    <3> QED
      BY <3>1, <3>2 DEF HandsApart
  <2>8. MirrorSound(d)'
    BY <1>1, <2>2, CommandsDiffer DEF MirrorSound
  <2>9. MembersSound(d)'
    <3>1. \A q \in Dispatcher, u \in Nat : On(q, u, d) => ~(pop[q].pc = "pop_zrem")
      BY <2>2 DEF Free, PopOwns
    <3>2. \A q \in Dispatcher, u \in Nat : mirror[q][d] # Zrem(<<u, d>>)
      BY <2>2, CommandsDiffer DEF Actor
    <3> QED
      BY <1>1, <1>8, <2>2, <3>1, <3>2 DEF MembersSound
  <2>10. Untouched(d)'
    BY <1>9, <2>2 DEF Untouched
  <2>11. RedisSound(d)'
    BY <2>6, <2>7, <2>8, <2>9, <2>10 DEF RedisSound
  <2> QED
    BY <1>4, <1>5, <1>6, <2>11
<1>13. CASE <<t, d>> \notin due
  <2>1. step = "pop_sweep_zrem"
    BY <1>3, <1>13
  <2>2. Lost(d) \/ d \in Deleted
    BY <1>7, <1>8, <1>13 DEF HandsApart
  <2>3. \A q \in Dispatcher : PopOwns(q, d)' <=> PopOwns(q, d)
    <3> TAKE q \in Dispatcher
    <3>1. CASE q = p
      BY <1>4, <1>7, <1>9, <2>1, <3>1 DEF PopOwns
    <3>2. CASE q # p
      BY <1>4, <1>9, <3>2 DEF PopOwns
    <3> QED
      BY <3>1, <3>2
  <2>4. (Free(d)' <=> Free(d)) /\ (Lost(d)' <=> Lost(d))
    BY <1>1, <1>9, <2>3 DEF Free, Lost
  <2>5. ASSUME NEW q \in Dispatcher, NEW u \in Nat, On(q, u, d)' PROVE Step(q, u, d)'
    <3>1. CASE q = p
      BY <1>4, <1>9, <2>1, <2>2, <2>4, <2>5, <3>1 DEF Step
    <3>2. CASE q # p
      <4>1. On(q, u, d) /\ Step(q, u, d)
        BY <1>8, <1>9, <2>5, <3>2 DEF PoppedOnce
      <4> QED
        BY <1>1, <1>4, <1>9, <1>11, <2>4, <3>2, <4>1 DEF Step
    <3> QED
      BY <3>1, <3>2
  <2>6. PoppedOnce(d)'
    <3>1. ASSUME NEW q \in Dispatcher, d \in pop'[q].claimed
          PROVE  PopWon(q, d)' /\ (<<clock + leaseMs, d>> \in due)'
      BY <1>1, <1>8, <1>9, <1>11, <3>1 DEF PoppedOnce
    <3>2. ASSUME NEW q \in Dispatcher, PopOwns(q, d)', NEW r \in Dispatcher
          PROVE  ~Holds(r, d)' /\ (PopOwns(r, d)' => r = q)
      BY <1>8, <1>9, <2>3, <3>2 DEF PoppedOnce
    <3> QED
      BY <2>5, <3>1, <3>2 DEF PoppedOnce
  <2>7. HandsApart(d)'
    <3>1. \A q \in Dispatcher, u \in Nat :
            Waits(q, u, d)' => (<<u, d>> \in due)' \/ Lost(d)' \/ (d \in Deleted)'
      BY <1>1, <1>8, <1>9, <2>4 DEF HandsApart
    <3>2. ASSUME NEW q \in Dispatcher, NEW u \in Nat, Hand(q, u, d)'
          PROVE  /\ \A m \in zset' : m.key = <<u, d>> => clock' < m.score
                 /\ \A r \in Dispatcher : Hand(r, u, d)' => r = q
      <4>1. Hand(q, u, d)
        BY <1>10, <3>2
      <4>2. /\ \A m \in zset : m.key = <<u, d>> => clock < m.score
            /\ \A r \in Dispatcher : Hand(r, u, d) => r = q
        BY <1>8, <4>1 DEF HandsApart
      <4> QED
        BY <1>1, <1>10, <4>2
    <3> QED
      BY <3>1, <3>2 DEF HandsApart
  <2>8. MirrorSound(d)'
    <3>1. \A a \in Actor : (mirror[a][d] = NoCommand \/ Behind(a, d))'
      BY <1>1, <1>8 DEF MirrorSound, Behind
    <3> QED
      BY <1>1, <1>8, <1>9, <2>4, <3>1 DEF MirrorSound
  <2>9. MembersSound(d)'
    BY <1>1, <2>2, <2>4, <1>9 DEF MembersSound
  <2>10. Untouched(d)'
    BY <1>1, <1>8, <1>9 DEF Untouched
  <2>11. RedisSound(d)'
    BY <2>6, <2>7, <2>8, <2>9, <2>10 DEF RedisSound
  <2> QED
    BY <1>4, <1>5, <1>6, <2>11
<1> QED
  BY <1>12, <1>13

\* A command of a claim that only removes due keys, or none.
LEMMA LeaseUnindexed ==
    ASSUME LeaseInv, UNCHANGED <<clock, rec, attempts, endpoint, pc, snap, plan, begun, call, requeues>>,
           due' \subseteq due
    PROVE  LeaseInv'
<1>1. TypeInv'
  BY DEF LeaseInv, TypeInv, TypeOK, TimesPlanned
<1>2. WavesInTime'
  BY WavesStay DEF LeaseInv
<1>3. ASSUME NEW d \in Delivery PROVE Sound(d)'
  <2>1. Sound(d)
    BY DEF LeaseInv
  <2> QED
    BY <2>1, LeaseFrame
<1> QED
  BY <1>1, <1>2, <1>3 DEF LeaseInv

LEMMA RedisReads ==
    ASSUME RedisInv, NEW p \in Dispatcher, NEW t \in Nat, NEW d \in Delivery, On(p, t, d),
           pop[p].pc = "pop_record", PopGoto(p, "pop_write", rec[d]),
           UNCHANGED <<rec, due, zset, pc, snap>>, PopOnly
    PROVE  RedisInv'
<1>1. TypeInv /\ PopTypes /\ ZsetSound /\ LeaseInv
  BY DEF RedisInv, LeaseInv
<1>2. UNCHANGED <<rec, due, zset, pc, snap, clock, call, mirror>>
  BY DEF PopOnly
<1>3. /\ PopTypes'
      /\ pop'[p].pc = "pop_write" /\ pop'[p].seen = rec[d] /\ pop'[p].key = pop[p].key
      /\ pop'[p].todo = pop[p].todo /\ pop'[p].claimed = pop[p].claimed
      /\ \A q \in Dispatcher : q # p => pop'[q] = pop[q]
  <2>1. "pop_write" \in PopPc \ {"off", "pop_sweep_del"} /\ rec[d] \in Record
    BY <1>1 DEF PopPc, TypeInv, TypeOK
  <2> QED
    BY <1>1, <1>2, <2>1, GotoShape DEF On
<1>4. ZsetSound' /\ LeaseInv'
  BY <1>1, <1>2, LeaseUnindexed DEF ZsetSound, PopOnly
<1>5. ASSUME NEW e \in Delivery, e # d PROVE RedisSound(e)'
  BY <1>2, <1>3, <1>5, GotoOthers DEF On
<1>6. /\ Step(p, t, d) /\ d \notin pop[p].claimed
      /\ \A q \in Dispatcher, u \in Nat : Waits(q, u, d) => <<u, d>> \in due
      /\ \A m \in zset, u \in Nat : m.key = <<u, d>> => <<u, d>> \in due
  BY ClaimAlone
<1>7. On(p, t, d)' /\ Step(p, t, d)'
  BY <1>2, <1>3, <1>6 DEF On, Step
<1>8. RedisSound(d)'
  BY <1>2, <1>3, <1>6, <1>7, ClaimGoesOn
<1> QED
  BY <1>3, <1>4, <1>5, <1>8 DEF RedisInv

LEMMA RedisDel ==
    ASSUME RedisInv, NEW p \in Dispatcher, PopDel(p)
    PROVE  RedisInv'
<1>1. TypeInv /\ PopTypes /\ ZsetSound /\ LeaseInv /\ PopShape(p)
  BY DEF RedisInv, LeaseInv, PopTypes
<1>2. /\ pop[p].pc = "pop_del" /\ UNCHANGED <<rec, zset, pc, snap, clock, call, mirror>>
      /\ due' = due \ {pop[p].key} /\ PopGoto(p, "pop_zrem", AbsentRecord)
  BY <1>1 DEF PopDel, PopOnly, Popping, PopTypes, AnyPop
<1>3. PICK t \in Nat, d \in Delivery : pop[p].key = <<t, d>>
  BY <1>1, <1>2 DEF PopShape, Key
<1>4. /\ PopTypes'
      /\ pop'[p].pc = "pop_zrem" /\ pop'[p].key = pop[p].key
      /\ pop'[p].todo = pop[p].todo /\ pop'[p].claimed = pop[p].claimed
      /\ \A q \in Dispatcher : q # p => pop'[q] = pop[q]
  <2>1. "pop_zrem" \in PopPc \ {"off", "pop_sweep_del"} /\ pop[p].pc # "off"
    BY <1>2 DEF PopPc
  <2> QED
    BY <1>1, <1>2, <2>1, AbsentRecordType, GotoShape
<1>5. ZsetSound' /\ LeaseInv'
  BY <1>1, <1>2, LeaseUnindexed DEF ZsetSound, PopDel, PopOnly
<1>6. ASSUME NEW e \in Delivery, e # d PROVE RedisSound(e)'
  <2>1. \A u \in Nat : <<u, e>> \in due' <=> <<u, e>> \in due
    BY <1>2, <1>3, <1>6
  <2> QED
    BY <1>2, <1>3, <1>4, <1>6, <2>1, GotoOthers
<1>7. On(p, t, d)
  BY <1>2, <1>3 DEF On
<1>8. /\ Step(p, t, d) /\ d \notin pop[p].claimed
      /\ \A q \in Dispatcher, u \in Nat : Waits(q, u, d) => <<u, d>> \in due
      /\ \A m \in zset, u \in Nat : m.key = <<u, d>> => <<u, d>> \in due
      /\ ~Waits(p, t, d)
  BY <1>2, <1>7, ClaimAlone
<1>9. <<t, d>> \in due /\ \A u \in Nat : <<u, d>> \in due => u = t
  BY <1>1, <1>2, <1>8 DEF Step, LeaseInv, Sound, ScheduledOnce
<1>10. \A q \in Dispatcher, u \in Nat : ~Waits(q, u, d)
  <2> SUFFICES ASSUME NEW q \in Dispatcher, Waits(q, t, d) PROVE FALSE
    BY <1>8, <1>9
  <2>1. Hand(q, t, d) /\ Hand(p, t, d)
    BY <1>2, <1>7 DEF Hand
  <2>2. q = p
    BY <2>1 DEF RedisInv, RedisSound, HandsApart
  <2> QED
    BY <1>8, <2>2
<1>11. NoDue(d)'
  BY <1>2, <1>3, <1>9 DEF NoDue
<1>12. PopWon(p, d)'
  BY <1>2, <1>8 DEF Step, PopWon, leaseMs
<1>13. On(p, t, d)' /\ Step(p, t, d)'
  BY <1>3, <1>4, <1>8, <1>11, <1>12 DEF On, Step
<1>14. \A m \in zset', u \in Nat : m.key = <<u, d>> => u = t /\ pop'[p].pc = "pop_zrem"
  BY <1>2, <1>4, <1>8, <1>9
<1>15. RedisSound(d)'
  BY <1>2, <1>4, <1>7, <1>10, <1>13, <1>14, ClaimGoesOn
<1> QED
  BY <1>4, <1>5, <1>6, <1>15 DEF RedisInv

LEMMA RedisZrem ==
    ASSUME RedisInv, NEW p \in Dispatcher, PopZrem(p)
    PROVE  RedisInv'
<1>1. TypeInv /\ PopTypes /\ ZsetSound /\ LeaseInv /\ PopShape(p)
  BY DEF RedisInv, LeaseInv, PopTypes
<1>2. /\ pop[p].pc = "pop_zrem" /\ UNCHANGED <<rec, due, pc, snap, clock, call, mirror>>
      /\ zset' = Drop(pop[p].key) /\ PopGoto(p, "pop_set", AbsentRecord)
  BY DEF PopZrem, PopOnly, Popping
<1>3. PICK t \in Nat, d \in Delivery : pop[p].key = <<t, d>>
  BY <1>1, <1>2 DEF PopShape, Key
<1>4. /\ PopTypes'
      /\ pop'[p].pc = "pop_set" /\ pop'[p].key = pop[p].key
      /\ pop'[p].todo = pop[p].todo /\ pop'[p].claimed = pop[p].claimed
      /\ \A q \in Dispatcher : q # p => pop'[q] = pop[q]
  <2>1. "pop_set" \in PopPc \ {"off", "pop_sweep_del"} /\ pop[p].pc # "off"
    BY <1>2 DEF PopPc
  <2> QED
    BY <1>1, <1>2, <2>1, AbsentRecordType, GotoShape
<1>5. ZsetSound' /\ \A m \in zset' : m \in zset /\ m.key # <<t, d>>
  BY <1>1, <1>2, <1>3, DropMembers
<1>6. LeaseInv'
  BY <1>1, <1>2, LeaseUnindexed DEF PopZrem, PopOnly
<1>7. ASSUME NEW e \in Delivery, e # d PROVE RedisSound(e)'
  BY <1>2, <1>3, <1>4, <1>5, <1>7, GotoOthers
<1>8. On(p, t, d)
  BY <1>2, <1>3 DEF On
<1>9. /\ Step(p, t, d) /\ d \notin pop[p].claimed
      /\ \A q \in Dispatcher, u \in Nat : Waits(q, u, d) => <<u, d>> \in due
      /\ \A m \in zset, u \in Nat : m.key = <<u, d>> => <<u, d>> \in due \/ u = t
  BY <1>2, <1>8, ClaimAlone
<1>10. NoDue(d)' /\ PopWon(p, d)'
  BY <1>2, <1>9 DEF Step, PopWon, NoDue, leaseMs
<1>11. On(p, t, d)' /\ Step(p, t, d)'
  BY <1>3, <1>4, <1>9, <1>10 DEF On, Step
<1>12. \A m \in zset', u \in Nat : m.key = <<u, d>> => <<u, d>> \in due'
  BY <1>2, <1>5, <1>9
<1>13. RedisSound(d)'
  BY <1>2, <1>4, <1>5, <1>8, <1>9, <1>11, <1>12, ClaimGoesOn
<1> QED
  BY <1>4, <1>5, <1>6, <1>7, <1>13 DEF RedisInv

LEMMA RedisWrite ==
    ASSUME RedisInv, NEW p \in Dispatcher, PopWrite(p)
    PROVE  RedisInv'
<1>1. TypeInv /\ PopTypes /\ ZsetSound /\ LeaseInv /\ PopShape(p)
  BY DEF RedisInv, LeaseInv, PopTypes
<1>2. pop[p].pc = "pop_write" /\ pop[p].now = clock /\ pop[p].seen \in Record
  BY <1>1 DEF PopWrite, Popping, PopShape, PopTypes, AnyPop
<1>3. PICK t \in Nat, d \in Delivery : pop[p].key = <<t, d>>
  BY <1>1, <1>2 DEF PopShape, Key
<1>4. PICK r : r = [pop[p].seen EXCEPT !.status = "delivering", !.leaseUntil = clock + leaseMs]
  OBVIOUS
<1>5. Popped(p) = d
  BY <1>3 DEF Popped
<1>6. /\ UNCHANGED <<due, zset, pc, clock, attempts, endpoint, plan, begun, call, requeues, mirror>>
      /\ rec' = [rec EXCEPT ![d] = r] /\ snap' = [snap EXCEPT ![p][d] = r]
      /\ PopGoto(p, "pop_del", AbsentRecord)
  BY <1>2, <1>4, <1>5 DEF PopWrite, PopOnly
<1>7. clock \in Nat /\ clock + leaseMs \in Nat
  BY <1>1, ClaimRuns
<1>8. r \in Record /\ r.status = "delivering" /\ r.leaseUntil = clock + leaseMs
  <2>1. r \in Record
    BY <1>2, <1>4, <1>7, ClaimedType
  <2> QED
    BY <1>2, <1>4, <2>1 DEF Record
<1>9. /\ rec'[d] = r /\ snap'[p][d] = r
      /\ \A e \in Delivery : e # d => rec'[e] = rec[e] /\ \A q \in Dispatcher : snap'[q][e] = snap[q][e]
      /\ rec' \in [Delivery -> Record] /\ snap' \in [Dispatcher -> [Delivery -> Record]]
  BY <1>1, <1>6, <1>8 DEF TypeInv, TypeOK
<1>10. On(p, t, d)
  BY <1>2, <1>3 DEF On
<1>11. /\ Step(p, t, d) /\ d \notin pop[p].claimed
       /\ \A q \in Dispatcher : ~Holds(q, d)
       /\ \A q \in Dispatcher, u \in Nat : Waits(q, u, d) => <<u, d>> \in due
       /\ \A m \in zset, u \in Nat : m.key = <<u, d>> => <<u, d>> \in due
  BY <1>2, <1>10, ClaimAlone
<1>12. <<t, d>> \in due
  BY <1>2, <1>11 DEF Step
<1>13. Sound(d)'
  <2>1. Sound(d)
    BY <1>1 DEF LeaseInv
  <2>2. /\ \A q \in Dispatcher : pc[q][d] \notin BeforeWrite \cup Written \cup Unindexed
        /\ \A q \in Dispatcher : pc'[q][d] \notin BeforeWrite \cup Written \cup Unindexed
    BY <1>6, <1>11 DEF Holds, BeforeWrite, Written, Unindexed
  <2>3. /\ NonTerminal(rec[d]) /\ \A u \in Nat : <<u, d>> \in due => u = t
        /\ \A c \in Caller : call[c][d].pc # "call_index"
    BY <1>12, <2>1 DEF Sound, ScheduledOnce
  <2>4. \A c \in Caller : call[c][d].pc \notin {"publish", "retry", "recover", "call_index"}
    BY <2>1, <2>3 DEF Sound, CallsInTurn, NonTerminal
  <2>5. Leased(d)' /\ Released(d)' /\ OwnedOnce(d)'
    BY <2>2 DEF Leased, Released, OwnedOnce, Holds
  <2>6. ScheduledOnce(d)'
    BY <1>6, <1>8, <1>9, <2>2, <2>3 DEF ScheduledOnce, NonTerminal
  <2>7. CallsInTurn(d)'
    BY <1>6, <2>4 DEF CallsInTurn
  <2>8. OnTime(d)'
    BY <1>6, <2>1, <2>2 DEF Sound, OnTime, BeforeWrite
  <2>9. Planned(d)'
    BY <2>2 DEF Planned, PlanFits, BeforeWrite
  <2> QED
    BY <2>5, <2>6, <2>7, <2>8, <2>9 DEF Sound
<1>14. LeaseInv'
  <2>1. TypeInv'
    BY <1>1, <1>6, <1>9 DEF TypeInv, TypeOK, TimesPlanned
  <2>2. WavesInTime'
    <3>1. \A q \in Dispatcher : pc[q][d] # "queued"
      BY <1>11 DEF Holds, BeforeWrite
    <3>2. \A q \in Dispatcher, e \in Delivery :
            /\ pc'[q][e] = pc[q][e] /\ begun'[q][e] = begun[q][e]
            /\ pc[q][e] = "queued" => snap'[q][e] = snap[q][e]
      BY <1>6, <1>9, <3>1
    <3> QED
      BY <1>1, <1>6, <3>2, WavesStay DEF LeaseInv
  <2>3. ASSUME NEW e \in Delivery, e # d PROVE Sound(e)'
    <3>1. Sound(e)
      BY <1>1 DEF LeaseInv
    <3> QED
      BY <1>6, <1>9, <2>3, <3>1, LeaseFrame
  <2> QED
    BY <1>13, <2>1, <2>2, <2>3 DEF LeaseInv
<1>15. /\ PopTypes'
       /\ pop'[p].pc = "pop_del" /\ pop'[p].key = pop[p].key
       /\ pop'[p].todo = pop[p].todo /\ pop'[p].claimed = pop[p].claimed
       /\ \A q \in Dispatcher : q # p => pop'[q] = pop[q]
  <2>1. "pop_del" \in PopPc \ {"off", "pop_sweep_del"} /\ pop[p].pc # "off"
    BY <1>2 DEF PopPc
  <2> QED
    BY <1>1, <1>6, <2>1, AbsentRecordType, GotoShape
<1>16. ZsetSound'
  BY <1>1, <1>6 DEF ZsetSound
<1>17. ASSUME NEW e \in Delivery, e # d PROVE RedisSound(e)'
  <2>1. pop[p].pc # "off" /\ pop'[p].pc # "off"
    BY <1>2, <1>15
  <2>2. rec'[e] = rec[e] /\ \A q \in Dispatcher : snap'[q][e] = snap[q][e]
    BY <1>9, <1>17
  <2>3. UNCHANGED <<clock, pc, mirror, call, due, zset>>
    BY <1>6
  <2> QED
    BY <1>3, <1>15, <1>17, <2>1, <2>2, <2>3, GotoOthers
<1>18. PopWon(p, d)'
  BY <1>6, <1>8, <1>9 DEF PopWon, leaseMs
<1>19. On(p, t, d)' /\ Step(p, t, d)'
  BY <1>3, <1>6, <1>11, <1>12, <1>15, <1>18 DEF On, Step
<1>20. RedisSound(d)'
  BY <1>2, <1>6, <1>10, <1>11, <1>15, <1>19, ClaimGoesOn
<1> QED
  BY <1>14, <1>15, <1>16, <1>17, <1>20 DEF RedisInv

LEMMA RedisSet ==
    ASSUME RedisInv, NEW p \in Dispatcher, PopSet(p)
    PROVE  RedisInv'
<1>1. TypeInv /\ PopTypes /\ ZsetSound /\ LeaseInv /\ PopShape(p)
  BY DEF RedisInv, LeaseInv, PopTypes
<1>2. pop[p].pc = "pop_set" /\ pop[p].now = clock
  BY <1>1 DEF PopSet, Popping, PopShape
<1>3. PICK t \in Nat, d \in Delivery : pop[p].key = <<t, d>>
  BY <1>1, <1>2 DEF PopShape, Key
<1>4. Popped(p) = d
  BY <1>3 DEF Popped
<1>5. PICK expiry \in Nat : expiry = clock + leaseMs
  BY <1>1, ClaimRuns
<1>6. /\ UNCHANGED <<rec, zset, pc, snap, clock, attempts, endpoint, plan, begun, call, requeues, mirror>>
      /\ due' = due \cup {<<expiry, d>>}
      /\ PopGoto(p, "pop_zadd", AbsentRecord)
  BY <1>2, <1>4, <1>5 DEF PopSet, PopOnly
<1>7. On(p, t, d)
  BY <1>2, <1>3 DEF On
<1>8. /\ Step(p, t, d) /\ d \notin pop[p].claimed
      /\ \A q \in Dispatcher : ~Holds(q, d)
      /\ \A q \in Dispatcher, u \in Nat : Waits(q, u, d) => <<u, d>> \in due
      /\ \A m \in zset, u \in Nat : m.key = <<u, d>> => <<u, d>> \in due
  BY <1>2, <1>7, ClaimAlone
<1>9. NoDue(d) /\ PopWon(p, d)
  BY <1>2, <1>8 DEF Step
<1>10. Sound(d)'
  <2>1. Sound(d)
    BY <1>1 DEF LeaseInv
  <2>2. /\ \A q \in Dispatcher : pc[q][d] \notin BeforeWrite \cup Written \cup Unindexed
        /\ \A q \in Dispatcher : pc'[q][d] \notin BeforeWrite \cup Written \cup Unindexed
    BY <1>6, <1>8 DEF Holds, BeforeWrite, Written, Unindexed
  <2>3. rec[d].status = "delivering"
    BY <1>9 DEF PopWon
  <2>4. \A c \in Caller : call[c][d].pc \notin {"publish", "retry", "recover", "call_index"}
    BY <2>1, <2>3 DEF Sound, CallsInTurn
  <2>5. Leased(d)' /\ Released(d)' /\ OwnedOnce(d)'
    BY <2>2 DEF Leased, Released, OwnedOnce, Holds
  <2>6. ScheduledOnce(d)'
    <3>1. \A u \in Nat : <<u, d>> \in due' => u = expiry
      BY <1>6, <1>9 DEF NoDue
    <3> QED
      BY <1>6, <2>2, <2>3, <2>4, <3>1 DEF ScheduledOnce, NonTerminal
  <2>7. CallsInTurn(d)'
    BY <1>6, <2>4 DEF CallsInTurn
  <2>8. OnTime(d)'
    BY <1>6, <2>1, <2>2 DEF Sound, OnTime, BeforeWrite
  <2>9. Planned(d)'
    BY <2>2 DEF Planned, PlanFits, BeforeWrite
  <2> QED
    BY <2>5, <2>6, <2>7, <2>8, <2>9 DEF Sound
<1>11. \A e \in Delivery, u \in Nat : e # d => (<<u, e>> \in due' <=> <<u, e>> \in due)
  BY <1>6
<1>12. LeaseInv'
  <2>1. TypeInv'
    BY <1>1, <1>6 DEF TypeInv, TypeOK, TimesPlanned
  <2>2. WavesInTime'
    BY <1>1, <1>6, WavesStay DEF LeaseInv
  <2>3. ASSUME NEW e \in Delivery, e # d PROVE Sound(e)'
    <3>1. Sound(e)
      BY <1>1 DEF LeaseInv
    <3> QED
      BY <1>6, <1>11, <2>3, <3>1, LeaseFrame
  <2> QED
    BY <1>10, <2>1, <2>2, <2>3 DEF LeaseInv
<1>13. /\ PopTypes'
       /\ pop'[p].pc = "pop_zadd" /\ pop'[p].key = pop[p].key
       /\ pop'[p].todo = pop[p].todo /\ pop'[p].claimed = pop[p].claimed
       /\ \A q \in Dispatcher : q # p => pop'[q] = pop[q]
  <2>1. "pop_zadd" \in PopPc \ {"off", "pop_sweep_del"} /\ pop[p].pc # "off"
    BY <1>2 DEF PopPc
  <2> QED
    BY <1>1, <1>6, <2>1, AbsentRecordType, GotoShape
<1>14. ZsetSound'
  BY <1>1, <1>6 DEF ZsetSound
<1>15. ASSUME NEW e \in Delivery, e # d PROVE RedisSound(e)'
  <2>1. pop[p].pc # "off" /\ pop'[p].pc # "off"
    BY <1>2, <1>13
  <2> QED
    BY <1>3, <1>6, <1>11, <1>13, <1>15, <2>1, GotoOthers
<1>16. PopWon(p, d)' /\ (<<clock + leaseMs, d>> \in due)'
  <2>1. leaseMs' = leaseMs
    BY DEF leaseMs
  <2> QED
    BY <1>5, <1>6, <1>9, <2>1 DEF PopWon
<1>17. On(p, t, d)' /\ Step(p, t, d)'
  BY <1>3, <1>6, <1>8, <1>13, <1>16 DEF On, Step
<1>18. RedisSound(d)'
  BY <1>2, <1>6, <1>7, <1>8, <1>13, <1>17, ClaimGoesOn
<1> QED
  BY <1>12, <1>13, <1>14, <1>15, <1>18 DEF RedisInv

\* A claim has done with a member: it takes the next one, or hands its deliveries C to workers.
LEMMA ContinueShape ==
    ASSUME TypeInv, PopTypes, NEW p \in Dispatcher, pop[p].pc # "off", NEW C \in SUBSET Delivery,
           PopContinue(p, pop[p].todo, C), UNCHANGED <<clock, mirror>>,
           IsFiniteSet(C), Cardinality(C) + Cardinality(pop[p].todo) <= BatchSize
    PROVE  /\ PopTypes'
           /\ \A q \in Dispatcher : q # p => pop'[q] = pop[q] /\ pc'[q] = pc[q]
           /\ pc' \in [Dispatcher -> [Delivery -> JobPc]]
           /\ \A e \in Delivery : pc[p][e] = "idle" /\ pc'[p][e] \in {"idle", "queued"}
           /\ pop'[p].pc \in {"off", "pop_entry"}
           /\ \A t \in Nat, e \in Delivery : Waits(p, t, e)' <=> <<t, e>> \in pop[p].todo
           /\ \A e \in Delivery : e \in C <=> e \in pop'[p].claimed \/ pc'[p][e] = "queued"
           /\ \A e \in Delivery : e \in pop'[p].claimed => pc'[p][e] = "idle"
           /\ Cardinality(C) \in Nat /\ Cardinality(C) <= BatchSize
<1>1. pop \in [Dispatcher -> AnyPop] /\ PopShape(p) /\ pop[p] \in AnyPop
  BY DEF PopTypes
<1>2. /\ pop[p].todo \subseteq Key /\ IsFiniteSet(pop[p].todo) /\ \A k \in pop[p].todo : k[1] <= clock
      /\ pop[p].now = clock /\ \A e \in Delivery : pc[p][e] = "idle" /\ mirror[p][e] = NoCommand
  BY <1>1 DEF PopShape, AnyPop
<1>3. Cardinality(C) \in Nat /\ Cardinality(pop[p].todo) \in Nat /\ Cardinality(C) <= BatchSize
  <2>1. Cardinality(C) \in Nat /\ Cardinality(pop[p].todo) \in Nat
    BY <1>2, FS_CardinalityType
  <2> QED
    BY <2>1, SizeAssumption
<1>4. CASE pop[p].todo = {}
  <2>1. /\ pop' = [pop EXCEPT ![p] = NoPop]
        /\ pc' = [pc EXCEPT ![p] = [e \in Delivery |-> IF e \in C THEN "queued" ELSE "idle"]]
    BY <1>4 DEF PopContinue
  <2>2. /\ pop'[p] = NoPop /\ \A q \in Dispatcher : q # p => pop'[q] = pop[q] /\ pc'[q] = pc[q]
        /\ \A e \in Delivery : pc'[p][e] = IF e \in C THEN "queued" ELSE "idle"
        /\ pc' \in [Dispatcher -> [Delivery -> JobPc]]
    BY <1>1, <2>1 DEF TypeInv, TypeOK, JobPc
  <2>3. NoPop \in AnyPop /\ NoPop.pc = "off" /\ NoPop.claimed = {}
    <3>1. NoPop.key \in Key \cup {NoPop.key}
      OBVIOUS
    <3> QED
      BY <3>1, AbsentRecordType DEF NoPop, AnyPop, PopPc
  <2>4. pop' \in [Dispatcher -> AnyPop]
    BY <1>1, <2>1, <2>3
  <2>5. ASSUME NEW q \in Dispatcher PROVE PopShape(q)'
    <3>1. PopShape(q) /\ NoPop' = NoPop
      BY DEF PopTypes, NoPop, AbsentRecord
    <3>2. CASE q = p
      BY <2>2, <2>3, <3>1, <3>2 DEF PopShape
    <3>3. CASE q # p
      BY <2>2, <3>1, <3>3 DEF PopShape, Key
    <3> QED
      BY <3>2, <3>3
  <2>6. PopTypes'
    BY <2>4, <2>5 DEF PopTypes
  <2>7. \A t \in Nat, e \in Delivery : ~Waits(p, t, e)'
    BY <2>2, <2>3 DEF Waits
  <2> QED
    BY <1>2, <1>3, <1>4, <2>2, <2>3, <2>6, <2>7
<1>5. CASE pop[p].todo # {}
  <2>1. PICK k \in pop[p].todo :
            pop' = [pop EXCEPT ![p] = [@ EXCEPT !.pc = "pop_entry", !.todo = pop[p].todo \ {k},
                                                !.key = k, !.claimed = C]]
    BY <1>5 DEF PopContinue
  <2>2. pc' = pc
    BY <1>5 DEF PopContinue
  <2> PICK rest : rest = pop[p].todo \ {k}
    OBVIOUS
  <2>3. pop'[p] = [pop[p] EXCEPT !.pc = "pop_entry", !.todo = rest, !.key = k, !.claimed = C]
        /\ \A q \in Dispatcher : q # p => pop'[q] = pop[q]
    BY <1>1, <2>1
  <2>4. /\ pop'[p].pc = "pop_entry" /\ pop'[p].todo = rest /\ pop'[p].key = k /\ pop'[p].claimed = C
        /\ pop'[p].now = clock /\ pop'[p].seen = pop[p].seen /\ pop'[p] \in AnyPop
    <3>1. k \in Key /\ rest \in SUBSET Key /\ "pop_entry" \in PopPc \ {"pop_sweep_del"}
      BY <1>2 DEF PopPc
    <3> QED
      BY <1>1, <1>2, <2>3, <3>1 DEF AnyPop
  <2>5. pop' \in [Dispatcher -> AnyPop]
    BY <1>1, <2>1, <2>4
  <2>6. IsFiniteSet(rest) /\ Cardinality(rest) = Cardinality(pop[p].todo) - 1
    BY <1>2, FS_RemoveElement
  <2>7. Cardinality(C) + Cardinality(rest) < BatchSize
    BY <1>3, <2>6, SizeAssumption
  <2>8. ASSUME NEW q \in Dispatcher PROVE PopShape(q)'
    <3>1. PopShape(q) /\ NoPop' = NoPop
      BY DEF PopTypes, NoPop, AbsentRecord
    <3>2. CASE q = p
      <4>1. k \in Key /\ k[1] <= clock /\ k \notin rest /\ \A l \in rest : l[1] <= clock
        BY <1>2
      <4>2. Cardinality(pop'[p].claimed) + Cardinality(pop'[p].todo) < BatchSize
        BY <2>4, <2>7
      <4>3. /\ pop'[p].pc # "off" /\ pop'[p].now = clock'
            /\ pop'[p].key \in Key /\ pop'[p].key[1] <= clock' /\ pop'[p].key \notin pop'[p].todo
            /\ \A l \in pop'[p].todo : l[1] <= clock'
            /\ IsFiniteSet(pop'[p].todo) /\ IsFiniteSet(pop'[p].claimed)
        BY <2>4, <2>6, <4>1
      <4>4. \A e \in Delivery : pc'[p][e] = "idle" /\ mirror'[p][e] = NoCommand
        BY <1>2, <2>2
      <4> QED
        BY <3>2, <4>2, <4>3, <4>4 DEF PopShape, Key
    <3>3. CASE q # p
      BY <2>2, <2>3, <3>1, <3>3 DEF PopShape, Key
    <3> QED
      BY <3>2, <3>3
  <2>9. PopTypes'
    BY <2>5, <2>8 DEF PopTypes
  <2>10. \A t \in Nat, e \in Delivery : Waits(p, t, e)' <=> <<t, e>> \in pop[p].todo
    BY <2>4 DEF Waits
  <2>11. pc' \in [Dispatcher -> [Delivery -> JobPc]]
    BY <2>2 DEF TypeInv, TypeOK
  <2> QED
    BY <1>2, <1>3, <2>2, <2>3, <2>4, <2>9, <2>10, <2>11
<1> QED
  BY <1>4, <1>5

\* The deliveries handed over are their workers' to attempt.
LEMMA ContinueLease ==
    ASSUME LeaseInv, WorkersKeepUp, NEW p \in Dispatcher, NEW C \in SUBSET Delivery, IsFiniteSet(C),
           Cardinality(C) \in Nat, Cardinality(C) <= BatchSize,
           UNCHANGED <<clock, rec, due, attempts, endpoint, snap, plan, begun, call, requeues>>,
           pc' \in [Dispatcher -> [Delivery -> JobPc]],
           \A q \in Dispatcher : q # p => pc'[q] = pc[q],
           \A e \in Delivery : pc[p][e] = "idle" /\ pc'[p][e] \in {"idle", "queued"},
           \A e \in Delivery : pc'[p][e] = "queued" => e \in C,
           \A e \in C : PopWon(p, e) /\ <<clock + leaseMs, e>> \in due /\ \A q \in Dispatcher : ~Holds(q, e)
    PROVE  LeaseInv'
<1>1. TypeInv'
  BY DEF LeaseInv, TypeInv, TypeOK, TimesPlanned
<1>2. WavesInTime'
  <2>1. PICK D : D = Queue(p)'
    OBVIOUS
  <2>2. D \in SUBSET C
    BY <2>1 DEF Queue
  <2>3. AtMost(D, Waves * Concurrency) /\ D \in SUBSET Delivery
    BY <2>2, BatchFits
  <2>4. \A d \in Delivery : pc'[p][d] = IF d \in D THEN "queued" ELSE "idle"
    BY <2>1 DEF Queue
  <2>5. \A d \in D : snap'[p][d].leaseUntil = clock + leaseMs
    BY <2>2 DEF PopWon
  <2>6. \A q \in Dispatcher, d \in Delivery : q # p => pc'[q][d] = pc[q][d] /\ snap'[q][d] = snap[q][d]
    OBVIOUS
  <2> QED
    BY <2>3, <2>4, <2>5, <2>6, WaveBegins DEF LeaseInv, TypeInv, TypeOK
<1>3. ASSUME NEW e \in Delivery PROVE Sound(e)'
  <2>1. Sound(e)
    BY DEF LeaseInv
  <2>2. CASE pc'[p][e] # "queued"
    <3>1. \A q \in Dispatcher : pc'[q][e] = pc[q][e]
      BY <2>2
    <3> QED
      BY <2>1, <3>1, LeaseFrame
  <2>3. CASE pc'[p][e] = "queued"
    <3>1. /\ rec[e] = snap[p][e] /\ rec[e].status = "delivering" /\ rec[e].leaseUntil = clock + leaseMs
          /\ <<clock + leaseMs, e>> \in due /\ \A q \in Dispatcher : ~Holds(q, e)
      BY <2>3 DEF PopWon
    <3>2. clock + leaseMs \in Nat /\ leaseMs' = leaseMs
      BY ClaimRuns DEF LeaseInv, leaseMs
    <3>3. \A q \in Dispatcher : q # p => pc'[q][e] = pc[q][e] /\ pc[q][e] \notin BeforeWrite \cup Written
      BY <3>1 DEF Holds
    <3>4. Leased(e)' /\ Released(e)' /\ OwnedOnce(e)'
      BY <2>3, <3>1, <3>3 DEF Leased, Released, OwnedOnce, Holds, BeforeWrite, Written
    <3>5. /\ \A u \in Nat : <<u, e>> \in due => u = clock + leaseMs
          /\ \A c \in Caller : call[c][e].pc # "call_index"
      BY <2>1, <3>1, <3>2 DEF Sound, ScheduledOnce
    <3>6. ScheduledOnce(e)'
      <4>1. \A q \in Dispatcher : pc'[q][e] \notin Unindexed
        BY <2>3, <3>3 DEF Unindexed, BeforeWrite, Written
      <4> QED
        BY <3>1, <3>5, <4>1 DEF ScheduledOnce, NonTerminal
    <3>7. CallsInTurn(e)'
      BY <2>1, <3>5 DEF Sound, CallsInTurn
    <3>8. OnTime(e)'
      <4>1. clock + AttemptTimeout + Headroom <= clock + leaseMs
        BY <3>2, LeaseAssumption DEF leaseMs, LeaseInv, TypeInv, TypeOK
      <4> QED
        BY <2>1, <2>3, <3>1, <3>3, <4>1 DEF Sound, OnTime, BeforeWrite
    <3>9. Planned(e)'
      BY <2>3, <3>3 DEF Planned, PlanFits, BeforeWrite
    <3> QED
      BY <3>4, <3>6, <3>7, <3>8, <3>9 DEF Sound
  <2> QED
    BY <2>2, <2>3
<1> QED
  BY <1>1, <1>2, <1>3 DEF LeaseInv

LEMMA ContinueSound ==
    ASSUME RedisInv, NEW p \in Dispatcher, NEW C \in SUBSET Delivery,
           pop[p].pc \in {"pop_record", "pop_sweep_zrem", "pop_zadd"}, pop[p].claimed \subseteq C,
           UNCHANGED <<clock, rec, due, snap, call, mirror>>,
           \A q \in Dispatcher : q # p => pop'[q] = pop[q] /\ pc'[q] = pc[q],
           \A e \in Delivery : pc[p][e] = "idle" /\ pc'[p][e] \in {"idle", "queued"},
           pop'[p].pc \in {"off", "pop_entry"},
           \A t \in Nat, e \in Delivery : Waits(p, t, e)' <=> <<t, e>> \in pop[p].todo,
           \A e \in Delivery : e \in C <=> e \in pop'[p].claimed \/ pc'[p][e] = "queued",
           \A e \in Delivery : e \in pop'[p].claimed => pc'[p][e] = "idle",
           NEW e \in Delivery,
           e \in C => PopOwns(p, e) /\ PopWon(p, e) /\ <<clock + leaseMs, e>> \in due,
           \A m \in zset', u \in TimeOrNone : m.key = <<u, e>> =>
                m \in zset \/ (e \in C /\ clock < m.score /\ <<u, e>> \in due)
    PROVE  RedisSound(e)'
<1>1. PoppedOnce(e) /\ HandsApart(e) /\ MirrorSound(e) /\ MembersSound(e) /\ Untouched(e)
  BY DEF RedisInv, RedisSound
<1>2. clock + leaseMs \in Nat /\ leaseMs' = leaseMs /\ Deleted' = Deleted /\ Nat \subseteq TimeOrNone
  BY ClaimRuns DEF RedisInv, LeaseInv, leaseMs, Deleted, TimeOrNone
<1>3. /\ \A q \in Dispatcher, u \in Nat : Waits(q, u, e)' => Waits(q, u, e)
      /\ \A q \in Dispatcher, u \in Nat : On(q, u, e)' => q # p /\ On(q, u, e)
      /\ \A q \in Dispatcher, u \in Nat : q # p /\ On(q, u, e) => On(q, u, e)'
  BY DEF Waits, On
<1>4. \A q \in Dispatcher, u \in Nat : Hand(q, u, e)' => Hand(q, u, e)
  BY <1>3 DEF Hand
<1>5. /\ \A q \in Dispatcher : PopWon(q, e)' <=> PopWon(q, e)
      /\ NoDue(e)' <=> NoDue(e)
  BY <1>2 DEF PopWon, NoDue
<1>6. Untouched(e)'
  BY <1>1, <1>2, <1>5 DEF Untouched
<1>7. CASE e \in C
  <2>1. PopOwns(p, e) /\ PopWon(p, e) /\ <<clock + leaseMs, e>> \in due
    BY <1>7
  <2>2. /\ \A q \in Dispatcher : ~Holds(q, e) /\ (PopOwns(q, e) => q = p)
        /\ ~Free(e) /\ ~Lost(e) /\ e \notin Deleted
    BY <1>1, <1>2, <2>1 DEF PoppedOnce, Free, Lost, Untouched, NoDue
  <2>3. \A q \in Dispatcher, u \in Nat : q # p => ~On(q, u, e)
    BY <1>1, <2>2 DEF PoppedOnce, PopOwns, Step
  <2>4. \A q \in Dispatcher, u \in Nat : ~On(q, u, e)'
    BY <1>3, <2>3
  <2>5. \A q \in Dispatcher : e \in pop'[q].claimed => q = p
    BY <2>2 DEF PopOwns
  <2>6. \A q \in Dispatcher : PopOwns(q, e)' => q = p /\ e \in pop'[p].claimed
    BY <2>4, <2>5 DEF PopOwns
  <2>7. e \in pop'[p].claimed => \A q \in Dispatcher : ~Holds(q, e)'
    <3> SUFFICES ASSUME e \in pop'[p].claimed, NEW q \in Dispatcher PROVE ~Holds(q, e)'
      OBVIOUS
    <3>1. CASE q = p
      <4>1. pc'[p][e] = "idle"
        OBVIOUS
      <4> QED
        BY <3>1, <4>1 DEF Holds, BeforeWrite, Written
    <3>2. CASE q # p
      BY <2>2, <3>2 DEF Holds
    <3> QED
      BY <3>1, <3>2
  <2>8. PoppedOnce(e)'
    BY <1>2, <1>5, <2>1, <2>4, <2>5, <2>6, <2>7 DEF PoppedOnce
  <2>9. HandsApart(e)'
    <3>1. ASSUME NEW q \in Dispatcher, NEW u \in Nat, Hand(q, u, e)'
          PROVE  /\ \A m \in zset' : m.key = <<u, e>> => clock' < m.score
                 /\ \A r \in Dispatcher : Hand(r, u, e)' => r = q
      <4>1. Hand(q, u, e)
        BY <1>4, <3>1
      <4>2. /\ \A m \in zset : m.key = <<u, e>> => clock < m.score
            /\ \A r \in Dispatcher : Hand(r, u, e) => r = q
        BY <1>1, <4>1 DEF HandsApart
      <4> QED
        BY <1>2, <1>4, <4>2
    <3>2. \A q \in Dispatcher, u \in Nat : Waits(q, u, e)' => <<u, e>> \in due'
      BY <1>1, <1>3, <2>2 DEF HandsApart
    <3> QED
      BY <3>1, <3>2 DEF HandsApart
  <2>10. \A a \in Actor : mirror[a][e] = NoCommand
    <3> SUFFICES ASSUME NEW a \in Actor, mirror[a][e] # NoCommand PROVE FALSE
      OBVIOUS
    <3>1. PICK u \in TimeOrNone : mirror[a][e] \in {Zadd(<<u, e>>), Zrem(<<u, e>>)}
      BY <1>1 DEF MirrorSound, Behind
    <3>2. mirror[a][e] = Zrem(<<u, e>>) => a \in Dispatcher /\ Holds(a, e)
      BY <1>1 DEF MirrorSound, Holds, BeforeWrite
    <3>3. mirror[a][e] = Zadd(<<u, e>>) => Free(e)
      BY <1>1 DEF MirrorSound
    <3> QED
      BY <2>2, <3>1, <3>2, <3>3
  <2>11. MirrorSound(e)'
    BY <2>10, CommandsDiffer DEF MirrorSound
  <2>12. MembersSound(e)'
    <3>1. \A q \in Dispatcher, u \in Nat : mirror[q][e] # Zrem(<<u, e>>)
      BY <2>10, CommandsDiffer DEF Actor
    <3>2. \A q \in Dispatcher, u \in Nat : ~(On(q, u, e) /\ pop[q].pc = "pop_zrem")
      BY <2>3
    <3>3. \A m \in zset, u \in Nat : m.key = <<u, e>> => <<u, e>> \in due
      BY <1>1, <2>2, <3>1, <3>2 DEF MembersSound
    <3>4. \A m \in zset', u \in Nat : m.key = <<u, e>> => <<u, e>> \in due'
      BY <1>2, <3>3
    <3> QED
      BY <3>4 DEF MembersSound
  <2> QED
    BY <1>6, <2>8, <2>9, <2>11, <2>12 DEF RedisSound
<1>8. CASE e \notin C
  <2>1. /\ \A q \in Dispatcher : e \in pop'[q].claimed => q # p /\ e \in pop[q].claimed
        /\ e \notin pop[p].claimed
        /\ pc'[p][e] = "idle"
    BY <1>8
  <2>2. \A q \in Dispatcher : PopOwns(q, e)' => q # p /\ PopOwns(q, e)
    BY <1>3, <2>1 DEF PopOwns
  <2>3. \A q \in Dispatcher : pc'[q][e] = pc[q][e]
    BY <2>1
  <2>4. \A q \in Dispatcher : Holds(q, e)' <=> Holds(q, e)
    BY <2>3 DEF Holds
  <2>5. (Free(e) => Free(e)') /\ (Lost(e) => Lost(e)')
    BY <1>5, <2>2, <2>4 DEF Free, Lost
  <2>6. ASSUME NEW q \in Dispatcher, NEW u \in Nat, On(q, u, e)' PROVE Step(q, u, e)'
    <3>1. q # p /\ On(q, u, e) /\ Step(q, u, e) /\ pop'[q] = pop[q]
      BY <1>1, <1>3, <2>6 DEF PoppedOnce
    <3> QED
      BY <1>2, <1>5, <2>5, <3>1 DEF Step
  <2>7. PoppedOnce(e)'
    <3>1. ASSUME NEW q \in Dispatcher, e \in pop'[q].claimed
          PROVE  PopWon(q, e)' /\ (<<clock + leaseMs, e>> \in due)'
      BY <1>1, <1>2, <1>5, <2>1, <3>1 DEF PoppedOnce
    <3>2. ASSUME NEW q \in Dispatcher, PopOwns(q, e)', NEW r \in Dispatcher
          PROVE  ~Holds(r, e)' /\ (PopOwns(r, e)' => r = q)
      BY <1>1, <2>2, <2>4, <3>2 DEF PoppedOnce
    <3> QED
      BY <2>6, <3>1, <3>2 DEF PoppedOnce
  <2>8. HandsApart(e)'
    <3>1. ASSUME NEW q \in Dispatcher, NEW u \in Nat, Hand(q, u, e)'
          PROVE  /\ \A m \in zset' : m.key = <<u, e>> => clock' < m.score
                 /\ \A r \in Dispatcher : Hand(r, u, e)' => r = q
      <4>1. Hand(q, u, e)
        BY <1>4, <3>1
      <4>2. /\ \A m \in zset : m.key = <<u, e>> => clock < m.score
            /\ \A r \in Dispatcher : Hand(r, u, e) => r = q
        BY <1>1, <4>1 DEF HandsApart
      <4> QED
        BY <1>2, <1>4, <1>8, <4>2
    <3>2. \A q \in Dispatcher, u \in Nat :
            Waits(q, u, e)' => (<<u, e>> \in due)' \/ Lost(e)' \/ (e \in Deleted)'
      BY <1>1, <1>2, <1>3, <2>5 DEF HandsApart
    <3> QED
      BY <3>1, <3>2 DEF HandsApart
  <2>9. MirrorSound(e)'
    <3>1. \A a \in Actor : (mirror[a][e] = NoCommand \/ Behind(a, e))'
      BY <1>1 DEF MirrorSound, Behind
    <3>2. \A a \in Actor, u \in TimeOrNone : mirror'[a][e] = Zrem(<<u, e>>) =>
            /\ a \in Dispatcher /\ pc'[a][e] \in {"unindex_lease", "write", "hold_write"}
            /\ \A m \in zset' : m.key = <<u, e>> => u = rec'[e].leaseUntil /\ NoDue(e)'
      <4> SUFFICES ASSUME NEW a \in Actor, NEW u \in TimeOrNone, mirror'[a][e] = Zrem(<<u, e>>)
                   PROVE  /\ a \in Dispatcher /\ pc'[a][e] \in {"unindex_lease", "write", "hold_write"}
                          /\ \A m \in zset' : m.key = <<u, e>> => u = rec'[e].leaseUntil /\ NoDue(e)'
        OBVIOUS
      <4>1. /\ a \in Dispatcher /\ pc[a][e] \in {"unindex_lease", "write", "hold_write"}
            /\ \A m \in zset : m.key = <<u, e>> => u = rec[e].leaseUntil /\ NoDue(e)
        BY <1>1 DEF MirrorSound
      <4> QED
        BY <1>5, <1>8, <2>3, <4>1
    <3>3. \A a \in Actor, u \in TimeOrNone : mirror'[a][e] = Zadd(<<u, e>>) =>
            /\ u \in Nat /\ <<u, e>> \in due' /\ Free(e)'
            /\ \A b \in Actor : mirror'[b][e] # NoCommand => b = a
            /\ \A m \in zset' : m.key # <<u, e>>
            /\ \A q \in Dispatcher : ~Waits(q, u, e)'
      <4> SUFFICES ASSUME NEW a \in Actor, NEW u \in TimeOrNone, mirror'[a][e] = Zadd(<<u, e>>)
                   PROVE  /\ u \in Nat /\ <<u, e>> \in due' /\ Free(e)'
                          /\ \A b \in Actor : mirror'[b][e] # NoCommand => b = a
                          /\ \A m \in zset' : m.key # <<u, e>>
                          /\ \A q \in Dispatcher : ~Waits(q, u, e)'
        OBVIOUS
      <4>1. /\ u \in Nat /\ <<u, e>> \in due /\ Free(e)
            /\ \A b \in Actor : mirror[b][e] # NoCommand => b = a
            /\ \A m \in zset : m.key # <<u, e>>
            /\ \A q \in Dispatcher : ~Waits(q, u, e)
        BY <1>1 DEF MirrorSound
      <4> QED
        BY <1>3, <1>8, <2>5, <4>1
    <3> QED
      BY <3>1, <3>2, <3>3 DEF MirrorSound
  <2>10. MembersSound(e)'
    <3>1. \A q \in Dispatcher, u \in Nat : On(q, u, e) /\ pop[q].pc = "pop_zrem" =>
            On(q, u, e)' /\ pop'[q].pc = "pop_zrem"
      BY <1>3
    <3> QED
      BY <1>1, <1>2, <1>8, <2>5, <3>1 DEF MembersSound
  <2> QED
    BY <1>6, <2>7, <2>8, <2>9, <2>10 DEF RedisSound
<1> QED
  BY <1>7, <1>8

LEMMA RedisContinues ==
    ASSUME RedisInv, WorkersKeepUp, NEW p \in Dispatcher, NEW C \in SUBSET Delivery,
           pop[p].pc \in {"pop_record", "pop_sweep_zrem", "pop_zadd"}, pop[p].claimed \subseteq C,
           PopContinue(p, pop[p].todo, C), UNCHANGED <<rec, due, snap>>, PopOnly, ZsetSound',
           IsFiniteSet(C), Cardinality(C) + Cardinality(pop[p].todo) <= BatchSize,
           \A e \in C : e \notin pop[p].claimed =>
                PopOwns(p, e) /\ PopWon(p, e) /\ <<clock + leaseMs, e>> \in due,
           \A e \in Delivery : \A m \in zset', u \in TimeOrNone : m.key = <<u, e>> =>
                m \in zset \/ (e \in C /\ clock < m.score /\ <<u, e>> \in due)
    PROVE  RedisInv'
<1>1. TypeInv /\ PopTypes /\ LeaseInv /\ pop[p].pc # "off"
  BY DEF RedisInv, LeaseInv
<1>2. UNCHANGED <<clock, attempts, endpoint, plan, begun, call, requeues, mirror>>
  BY DEF PopOnly
<1>3. /\ PopTypes'
      /\ \A q \in Dispatcher : q # p => pop'[q] = pop[q] /\ pc'[q] = pc[q]
      /\ pc' \in [Dispatcher -> [Delivery -> JobPc]]
      /\ \A e \in Delivery : pc[p][e] = "idle" /\ pc'[p][e] \in {"idle", "queued"}
      /\ pop'[p].pc \in {"off", "pop_entry"}
      /\ \A t \in Nat, e \in Delivery : Waits(p, t, e)' <=> <<t, e>> \in pop[p].todo
      /\ \A e \in Delivery : e \in C <=> e \in pop'[p].claimed \/ pc'[p][e] = "queued"
      /\ \A e \in Delivery : e \in pop'[p].claimed => pc'[p][e] = "idle"
      /\ Cardinality(C) \in Nat /\ Cardinality(C) <= BatchSize
  BY <1>1, <1>2, ContinueShape
<1>4. \A e \in C : PopOwns(p, e) /\ PopWon(p, e) /\ <<clock + leaseMs, e>> \in due
  BY DEF RedisInv, RedisSound, PoppedOnce, PopOwns
<1>5. \A e \in C : \A q \in Dispatcher : ~Holds(q, e)
  BY <1>4 DEF RedisInv, RedisSound, PoppedOnce
<1>6. LeaseInv'
  <2>1. \A q \in Dispatcher : q # p => pc'[q] = pc[q]
    BY <1>3
  <2>2. \A e \in Delivery : pc'[p][e] = "queued" => e \in C
    BY <1>3
  <2>3. \A e \in C : PopWon(p, e) /\ <<clock + leaseMs, e>> \in due /\ \A q \in Dispatcher : ~Holds(q, e)
    BY <1>4, <1>5
  <2> QED
    BY <1>1, <1>2, <1>3, <2>1, <2>2, <2>3, ContinueLease
<1>7. ASSUME NEW e \in Delivery PROVE RedisSound(e)'
  <2>1. e \in C => PopOwns(p, e) /\ PopWon(p, e) /\ <<clock + leaseMs, e>> \in due
    BY <1>4
  <2>2. \A m \in zset', u \in TimeOrNone : m.key = <<u, e>> =>
            m \in zset \/ (e \in C /\ clock < m.score /\ <<u, e>> \in due)
    BY <1>7
  <2> QED
    BY <1>2, <1>3, <2>1, <2>2, ContinueSound
<1> QED
  BY <1>3, <1>6, <1>7 DEF RedisInv

\* The claim reads the record: it takes the delivery, or a lease still runs and it goes on.
LEMMA RedisRecord ==
    ASSUME RedisInv, WorkersKeepUp, NEW p \in Dispatcher, PopRecord(p)
    PROVE  RedisInv'
<1>1. TypeInv /\ PopTypes /\ ZsetSound /\ LeaseInv /\ PopShape(p) /\ pop[p] \in AnyPop
  BY DEF RedisInv, LeaseInv, PopTypes
<1>2. pop[p].pc = "pop_record"
  BY DEF PopRecord, Popping
<1>3. PICK t \in Nat, d \in Delivery : pop[p].key = <<t, d>>
  BY <1>1, <1>2 DEF PopShape, Key
<1>4. On(p, t, d) /\ Popped(p) = d
  BY <1>2, <1>3 DEF On, Popped
<1>5. <<t, d>> \in due
  BY <1>2, <1>4, ClaimAlone DEF Step
<1>6. NonTerminal(rec[d])
  BY <1>1, <1>5 DEF LeaseInv, Sound, ScheduledOnce
<1>7. /\ \/ PopGoto(p, "pop_write", rec[d]) /\ UNCHANGED pc
         \/ PopContinue(p, pop[p].todo, pop[p].claimed)
      /\ UNCHANGED <<rec, due, zset, snap>> /\ PopOnly
  BY <1>4, <1>6 DEF PopRecord
<1>8. CASE PopGoto(p, "pop_write", rec[d]) /\ UNCHANGED pc
  BY <1>2, <1>4, <1>7, <1>8, RedisReads
<1>9. CASE PopContinue(p, pop[p].todo, pop[p].claimed)
  <2>1. /\ pop[p].claimed \in SUBSET Delivery /\ IsFiniteSet(pop[p].claimed) /\ IsFiniteSet(pop[p].todo)
        /\ Cardinality(pop[p].claimed) + Cardinality(pop[p].todo) < BatchSize
    BY <1>1, <1>2 DEF AnyPop, PopShape
  <2>2. Cardinality(pop[p].claimed) + Cardinality(pop[p].todo) <= BatchSize
    BY <2>1, FS_CardinalityType, SizeAssumption
  <2>3. ZsetSound'
    BY <1>1, <1>7 DEF ZsetSound
  <2> QED
    BY <1>2, <1>7, <1>9, <2>1, <2>2, <2>3, RedisContinues
<1> QED
  BY <1>7, <1>8, <1>9

LEMMA RedisSweep ==
    ASSUME RedisInv, WorkersKeepUp, NEW p \in Dispatcher, SweepZrem(p)
    PROVE  RedisInv'
<1>1. TypeInv /\ PopTypes /\ ZsetSound /\ LeaseInv /\ PopShape(p) /\ pop[p] \in AnyPop
  BY DEF RedisInv, LeaseInv, PopTypes
<1>2. /\ pop[p].pc = "pop_sweep_zrem" /\ zset' = Drop(pop[p].key)
      /\ PopContinue(p, pop[p].todo, pop[p].claimed) /\ UNCHANGED <<rec, due, snap>> /\ PopOnly
  BY DEF SweepZrem, Popping
<1>3. /\ pop[p].claimed \in SUBSET Delivery /\ IsFiniteSet(pop[p].claimed) /\ IsFiniteSet(pop[p].todo)
      /\ Cardinality(pop[p].claimed) + Cardinality(pop[p].todo) < BatchSize
  BY <1>1, <1>2 DEF AnyPop, PopShape
<1>4. Cardinality(pop[p].claimed) + Cardinality(pop[p].todo) <= BatchSize
  BY <1>3, FS_CardinalityType, SizeAssumption
<1>5. ZsetSound' /\ \A m \in zset' : m \in zset
  BY <1>1, <1>2, DropMembers
<1> QED
  BY <1>2, <1>3, <1>4, <1>5, RedisContinues

\* The member at the lease's end: the claim has this delivery done.
LEMMA RedisZadd ==
    ASSUME RedisInv, WorkersKeepUp, NEW p \in Dispatcher, PopZadd(p)
    PROVE  RedisInv'
<1>1. TypeInv /\ PopTypes /\ ZsetSound /\ LeaseInv /\ PopShape(p) /\ pop[p] \in AnyPop
  BY DEF RedisInv, LeaseInv, PopTypes
<1>2. pop[p].pc = "pop_zadd" /\ pop[p].now = clock
  BY <1>1 DEF PopZadd, Popping, PopShape
<1>3. PICK t \in Nat, d \in Delivery : pop[p].key = <<t, d>>
  BY <1>1, <1>2 DEF PopShape, Key
<1>4. On(p, t, d) /\ Popped(p) = d
  BY <1>2, <1>3 DEF On, Popped
<1>5. PICK expiry \in Nat : expiry = clock + leaseMs /\ clock < expiry
  BY <1>1, ClaimRuns
<1>6. /\ zset' = Put(<<expiry, d>>, expiry)
      /\ PopContinue(p, pop[p].todo, pop[p].claimed \cup {d}) /\ UNCHANGED <<rec, due, snap>> /\ PopOnly
  BY <1>2, <1>4, <1>5 DEF PopZadd
<1>7. PopOwns(p, d) /\ PopWon(p, d) /\ <<expiry, d>> \in due /\ d \notin pop[p].claimed
  BY <1>2, <1>4, <1>5, ClaimAlone DEF Step
<1> PICK C : C = pop[p].claimed \cup {d}
  OBVIOUS
<1>8. /\ C \in SUBSET Delivery /\ IsFiniteSet(C) /\ Cardinality(C) = Cardinality(pop[p].claimed) + 1
      /\ pop[p].claimed \subseteq C
  <2>1. pop[p].claimed \in SUBSET Delivery /\ IsFiniteSet(pop[p].claimed)
    BY <1>1, <1>2 DEF AnyPop, PopShape
  <2> QED
    BY <1>7, <2>1, FS_AddElement
<1>9. Cardinality(C) + Cardinality(pop[p].todo) <= BatchSize
  <2>1. /\ IsFiniteSet(pop[p].claimed) /\ IsFiniteSet(pop[p].todo)
        /\ Cardinality(pop[p].claimed) + Cardinality(pop[p].todo) < BatchSize
    BY <1>1, <1>2 DEF PopShape
  <2>2. Cardinality(pop[p].claimed) \in Nat /\ Cardinality(pop[p].todo) \in Nat
    BY <2>1, FS_CardinalityType
  <2> QED
    BY <1>8, <2>1, <2>2, SizeAssumption
<1>10. ZsetSound' /\ \A m \in zset' : m \in zset \/ (m.key = <<expiry, d>> /\ m.score = expiry)
  <2>1. <<expiry, d>> \in Key /\ <<expiry, d>>[1] <= expiry
    BY DEF Key
  <2> QED
    BY <1>1, <1>6, <2>1, PutMembers
<1>11. \A e \in Delivery : \A m \in zset', u \in TimeOrNone : m.key = <<u, e>> =>
            m \in zset \/ (e \in C /\ clock < m.score /\ <<u, e>> \in due)
  BY <1>5, <1>7, <1>10
<1>12. \A e \in C : e \notin pop[p].claimed =>
            PopOwns(p, e) /\ PopWon(p, e) /\ <<clock + leaseMs, e>> \in due
  BY <1>5, <1>7
<1>13. PopContinue(p, pop[p].todo, C)
  BY <1>6
<1> HIDE DEF PopContinue
<1> QED
  BY <1>2, <1>6, <1>8, <1>9, <1>10, <1>11, <1>12, <1>13, RedisContinues

\* A claimer dies: what it claimed stays leased, and what it was about to write is lost.
LEMMA RedisFails ==
    ASSUME RedisInv, NEW p \in Dispatcher, PopFails(p)
    PROVE  RedisInv'
<1>1. TypeInv /\ PopTypes /\ ZsetSound /\ LeaseInv /\ PopShape(p) /\ pop \in [Dispatcher -> AnyPop]
  BY DEF RedisInv, LeaseInv, PopTypes
<1>2. /\ pop[p].pc # "off" /\ pop' = [pop EXCEPT ![p] = NoPop]
      /\ snap' = [snap EXCEPT ![p] = [d \in Delivery |-> AbsentRecord]]
      /\ UNCHANGED <<rec, due, zset, pc, clock, attempts, endpoint, plan, begun, call, requeues, mirror>>
  <2>1. pop[p].pc # "off"
    BY MirrorAssumption DEF PopFails
  <2> QED
    BY <2>1 DEF PopFails, PopOnly
<1>3. /\ pop'[p] = NoPop /\ \A q \in Dispatcher : q # p => pop'[q] = pop[q]
      /\ \A d \in Delivery : pc[p][d] = "idle" /\ mirror[p][d] = NoCommand
  BY <1>1, <1>2 DEF PopShape
<1>4. /\ snap' \in [Dispatcher -> [Delivery -> Record]]
      /\ \A q \in Dispatcher, d \in Delivery : q # p => snap'[q][d] = snap[q][d]
  BY <1>1, <1>2, AbsentRecordType DEF TypeInv, TypeOK
<1>5. LeaseInv'
  <2>1. TypeInv'
    BY <1>1, <1>2, <1>4 DEF TypeInv, TypeOK, TimesPlanned
  <2>2. WavesInTime'
    BY <1>1, <1>2, <1>3, <1>4, WavesStay DEF LeaseInv
  <2>3. ASSUME NEW d \in Delivery PROVE Sound(d)'
    <3>1. Sound(d) /\ pc'[p][d] = "idle"
      BY <1>1, <1>2, <1>3 DEF LeaseInv
    <3> QED
      BY <1>1, <1>2, <1>4, <3>1, LeaseDrops
  <2> QED
    BY <2>1, <2>2, <2>3 DEF LeaseInv
<1>6. PopTypes' /\ ZsetSound'
  <2>1. NoPop \in AnyPop /\ NoPop' = NoPop /\ NoPop.pc = "off"
    <3>1. NoPop.key \in Key \cup {NoPop.key} /\ "off" \in PopPc \ {"pop_sweep_del"}
      BY DEF PopPc
    <3> QED
      BY <3>1, AbsentRecordType DEF NoPop, AnyPop, AbsentRecord
  <2>2. pop' \in [Dispatcher -> AnyPop]
    BY <1>1, <1>2, <2>1
  <2>3. ASSUME NEW q \in Dispatcher PROVE PopShape(q)'
    <3>1. PopShape(q)
      BY <1>1 DEF PopTypes
    <3>2. CASE q = p
      BY <1>3, <2>1, <3>2 DEF PopShape
    <3>3. CASE q # p
      BY <1>2, <1>3, <2>1, <3>1, <3>3 DEF PopShape, Key
    <3> QED
      BY <3>2, <3>3
  <2> QED
    BY <1>1, <1>2, <2>2, <2>3 DEF PopTypes, ZsetSound
<1>7. ASSUME NEW d \in Delivery PROVE RedisSound(d)'
  <2>1. PoppedOnce(d) /\ HandsApart(d) /\ MirrorSound(d) /\ MembersSound(d) /\ Untouched(d)
    BY DEF RedisInv, RedisSound
  <2>2. leaseMs' = leaseMs /\ Deleted' = Deleted /\ (NoDue(d)' <=> NoDue(d))
    BY <1>2 DEF leaseMs, Deleted, NoDue
  <2>3. /\ \A t \in Nat : ~On(p, t, d)' /\ ~Waits(p, t, d)'
        /\ \A q \in Dispatcher, t \in Nat : q # p => (On(q, t, d)' <=> On(q, t, d))
        /\ \A q \in Dispatcher, t \in Nat : q # p => (Waits(q, t, d)' <=> Waits(q, t, d))
        /\ \A q \in Dispatcher : d \in pop'[q].claimed => q # p /\ d \in pop[q].claimed
    BY <1>3 DEF On, Waits, NoPop
  <2>4. \A q \in Dispatcher : PopOwns(q, d)' => q # p /\ PopOwns(q, d)
    BY <1>3, <2>3 DEF PopOwns
  <2>5. \A q \in Dispatcher : Holds(q, d)' <=> Holds(q, d)
    BY <1>2 DEF Holds
  <2>6. (Free(d) => Free(d)') /\ (Lost(d) => Lost(d)')
    BY <1>2, <2>2, <2>4, <2>5 DEF Free, Lost
  <2>7. \A q \in Dispatcher : q # p => (PopWon(q, d)' <=> PopWon(q, d))
    BY <1>2, <1>4, <2>2 DEF PopWon
  <2>8. \A q \in Dispatcher, t \in Nat : Hand(q, t, d)' => Hand(q, t, d)
    BY <1>3, <2>3 DEF Hand
  <2>9. PoppedOnce(d)'
    <3>1. ASSUME NEW q \in Dispatcher, NEW t \in Nat, On(q, t, d)' PROVE Step(q, t, d)'
      <4>1. q # p /\ Step(q, t, d) /\ pop'[q] = pop[q]
        BY <1>3, <2>1, <2>3, <3>1 DEF PoppedOnce
      <4> QED
        BY <1>2, <2>2, <2>6, <2>7, <4>1 DEF Step
    <3>2. ASSUME NEW q \in Dispatcher, d \in pop'[q].claimed
          PROVE  PopWon(q, d)' /\ (<<clock + leaseMs, d>> \in due)'
      BY <1>2, <2>1, <2>2, <2>3, <2>7, <3>2 DEF PoppedOnce
    <3>3. ASSUME NEW q \in Dispatcher, PopOwns(q, d)', NEW r \in Dispatcher
          PROVE  ~Holds(r, d)' /\ (PopOwns(r, d)' => r = q)
      BY <2>1, <2>4, <2>5, <3>3 DEF PoppedOnce
    <3> QED
      BY <3>1, <3>2, <3>3 DEF PoppedOnce
  <2>10. HandsApart(d)'
    <3>1. ASSUME NEW q \in Dispatcher, NEW u \in Nat, Hand(q, u, d)'
          PROVE  /\ \A m \in zset' : m.key = <<u, d>> => clock' < m.score
                 /\ \A r \in Dispatcher : Hand(r, u, d)' => r = q
      <4>1. Hand(q, u, d)
        BY <2>8, <3>1
      <4>2. /\ \A m \in zset : m.key = <<u, d>> => clock < m.score
            /\ \A r \in Dispatcher : Hand(r, u, d) => r = q
        BY <2>1, <4>1 DEF HandsApart
      <4> QED
        BY <1>2, <2>8, <4>2
    <3>2. \A q \in Dispatcher, u \in Nat :
            Waits(q, u, d)' => (<<u, d>> \in due)' \/ Lost(d)' \/ (d \in Deleted)'
      BY <1>2, <2>1, <2>2, <2>3, <2>6 DEF HandsApart
    <3> QED
      BY <3>1, <3>2 DEF HandsApart
  <2>11. MirrorSound(d)'
    <3>1. \A a \in Actor : (mirror[a][d] = NoCommand \/ Behind(a, d))'
      BY <1>2, <2>1 DEF MirrorSound, Behind
    <3>2. \A q \in Dispatcher, u \in Nat : Waits(q, u, d)' => Waits(q, u, d)
      BY <2>3
    <3> QED
      BY <1>2, <2>1, <2>2, <2>6, <3>1, <3>2 DEF MirrorSound
  <2>12. MembersSound(d)'
    <3>1. ASSUME NEW t \in Nat, On(p, t, d), pop[p].pc = "pop_zrem" PROVE Lost(d)'
      <4>1. PopOwns(p, d) /\ Step(p, t, d)
        BY <2>1, <3>1 DEF PopOwns, PoppedOnce
      <4>2. NoDue(d) /\ rec[d].status = "delivering"
        BY <3>1, <4>1 DEF Step, PopWon
      <4>3. \A q \in Dispatcher : ~Holds(q, d)' /\ ~PopOwns(q, d)'
        BY <2>1, <2>4, <2>5, <4>1 DEF PoppedOnce
      <4> QED
        BY <1>2, <2>2, <4>2, <4>3 DEF Lost, Free
    <3>2. \A q \in Dispatcher, t \in Nat : On(q, t, d) /\ pop[q].pc = "pop_zrem" =>
            Lost(d)' \/ (On(q, t, d)' /\ pop'[q].pc = "pop_zrem")
      BY <1>3, <2>3, <3>1
    <3> QED
      BY <1>2, <2>1, <2>2, <2>6, <3>2 DEF MembersSound
  <2>13. Untouched(d)'
    BY <1>2, <2>1, <2>2 DEF Untouched
  <2> QED
    BY <2>9, <2>10, <2>11, <2>12, <2>13 DEF RedisSound
<1> QED
  BY <1>5, <1>6, <1>7 DEF RedisInv

LEMMA RedisStart == RedisInit => RedisInv
<1> SUFFICES ASSUME RedisInit PROVE RedisInv
  OBVIOUS
<1>1. /\ Init /\ zset = {[key |-> k, score |-> k[1]] : k \in Leftover}
      /\ mirror = [a \in Actor |-> [d \in Delivery |-> NoCommand]]
      /\ pop = [p \in Dispatcher |-> NoPop]
  BY DEF RedisInit
<1>2. LeaseInv
  BY <1>1, LeaseInit
<1>3. PopTypes
  <2>1. NoPop \in AnyPop /\ NoPop.pc = "off"
    <3>1. NoPop.key \in Key \cup {NoPop.key} /\ "off" \in PopPc \ {"pop_sweep_del"}
      BY DEF PopPc
    <3> QED
      BY <3>1, AbsentRecordType DEF NoPop, AnyPop
  <2> QED
    BY <1>1, <2>1 DEF PopTypes, PopShape, AnyCommand
<1>4. ZsetSound
  <2>1. IsFiniteSet(zset)
    <3> DEFINE f == [k \in Leftover |-> [key |-> k, score |-> k[1]]]
    <3>1. f \in Surjection(Leftover, zset)
      BY <1>1 DEF Surjection
    <3> QED
      BY <3>1, LeftoverAssumption, FS_Surjection
  <2>2. \A k \in Leftover : k \in Key /\ k[1] \in Nat
    BY LeftoverAssumption DEF Key
  <2>3. \A m \in zset : m \in [key: Key, score: Nat] /\ m.key[1] <= m.score
    BY <1>1, <2>2
  <2>4. \A m, n \in zset : m.key = n.key => m = n
    BY <1>1
  <2> QED
    BY <2>1, <2>3, <2>4 DEF ZsetSound
<1>5. ASSUME NEW d \in Delivery PROVE RedisSound(d)
  <2>1. \A p \in Dispatcher : ~PopOwns(p, d) /\ \A t \in Nat : ~On(p, t, d) /\ ~Waits(p, t, d)
    BY <1>1 DEF PopOwns, On, Waits, NoPop
  <2>2. PoppedOnce(d) /\ HandsApart(d)
    BY <1>1, <2>1 DEF PoppedOnce, HandsApart, Hand, NoPop
  <2>3. \A a \in Actor : mirror[a][d] = NoCommand
    BY <1>1
  <2>4. MirrorSound(d)
    BY <2>3, CommandsDiffer DEF MirrorSound
  <2>5. MembersSound(d)
    <3> SUFFICES ASSUME NEW m \in zset, NEW t \in Nat, m.key = <<t, d>> PROVE d \in Deleted
      BY DEF MembersSound
    <3>1. <<t, d>> \in Leftover
      BY <1>1
    <3> QED
      BY <3>1 DEF Deleted
  <2>6. Untouched(d)
    BY <1>1 DEF Init, Untouched, NoDue
  <2> QED
    BY <2>2, <2>4, <2>5, <2>6 DEF RedisSound
<1> QED
  BY <1>2, <1>3, <1>4, <1>5 DEF RedisInv

LEMMA RedisStep ==
    WorkersKeepUp /\ RedisInv /\ ReplaysApart /\ [RedisNext]_redisVars => RedisInv'
<1> SUFFICES ASSUME WorkersKeepUp, RedisInv, ReplaysApart, [RedisNext]_redisVars PROVE RedisInv'
  OBVIOUS
<1>1. ASSUME [Next]_vars, PopTypes' /\ ZsetSound' /\ \A e \in Delivery : RedisSound(e)'
      PROVE  RedisInv'
  BY <1>1, LeaseStep DEF RedisInv
<1>2. ASSUME NEW p \in Dispatcher, ClaimDue(p) PROVE RedisInv'
  <2>1. CASE RunScript(p)
    <3>1. UNCHANGED vars
      BY <2>1 DEF RunScript, PopOnly, vars, jobVars
    <3> QED
      BY <1>1, <2>1, <3>1, RedisScript
  <2>2. CASE PopEntry(p)
    <3>1. UNCHANGED vars
      BY <2>2 DEF PopEntry, PopOnly, vars, jobVars
    <3> QED
      BY <1>1, <2>2, <3>1, RedisEntry
  <2> QED
    BY <1>2, <2>1, <2>2, RedisRecord, RedisWrite, RedisDel, RedisZrem, RedisSweep, RedisSet, RedisZadd,
       RedisFails DEF ClaimDue
<1>3. ASSUME RedisTick, UNCHANGED <<zset, mirror, pop>> PROVE RedisInv'
  BY <1>1, <1>3, RedisTicks DEF RedisTick, Next
<1>4. ASSUME NEW p \in Dispatcher, \A d \in Delivery : Idle(p, d), Crash(p), UNCHANGED <<zset, mirror, pop>>
      PROVE  RedisInv'
  BY <1>1, <1>4, RedisCrash DEF Next
<1>5. ASSUME NEW p \in Dispatcher, NEW d \in Delivery, ProcessClaim(p, d),
             Leaves(p, d, IF StepFails(p, d) THEN NoCommand ELSE WorkerCommand(p, d)),
             UNCHANGED <<zset, pop>>
      PROVE  RedisInv'
  BY <1>1, <1>5, RedisWorker DEF Next
<1>6. ASSUME NEW c \in Caller, NEW d \in Delivery \ Deleted, ControlPlane(c, d),
             Leaves(c, d, IF CallFails(c, d) THEN NoCommand ELSE CallCommand(c, d)),
             UNCHANGED <<zset, pop>>
      PROVE  RedisInv'
  BY <1>1, <1>6, RedisCall DEF Next
<1>7. ASSUME NEW e \in Endpoint, NEW state \in {"enabled", "disabled", "deleted"},
             SetEndpoint(e, state), UNCHANGED <<zset, mirror, pop>>
      PROVE  RedisInv'
  BY <1>1, <1>7, RedisEndpoint DEF Next
<1>8. ASSUME NEW a \in Actor, NEW d \in Delivery, MirrorSent(a, d) PROVE RedisInv'
  <2>1. UNCHANGED vars
    BY <1>8 DEF MirrorSent
  <2> QED
    BY <1>1, <1>8, <2>1, RedisSent
<1>9. ASSUME NEW p \in Dispatcher, NEW d \in Delivery, MirrorLost(p, d) PROVE RedisInv'
  BY <1>9, RedisLost
<1>10. CASE UNCHANGED redisVars
  <2>1. UNCHANGED <<vars, zset, mirror, pop, clock, rec, due, call, pc, snap>>
    BY <1>10 DEF redisVars, vars, jobVars
  <2>2. PopTypes' /\ ZsetSound'
    BY <2>1, StillShape DEF RedisInv, LeaseInv, PopTypes
  <2>3. ASSUME NEW d \in Delivery PROVE RedisSound(d)'
    <3>1. SameView(d) /\ RedisSound(d) /\ clock + leaseMs \in Nat
      BY <2>1, ClaimRuns DEF SameView, Waits, On, RedisInv, LeaseInv
    <3>2. \A q \in Dispatcher : Holds(q, d)' <=> Holds(q, d)
      BY <2>1 DEF Holds
    <3> QED
      BY <2>1, <3>1, <3>2, RedisFrame
  <2> QED
    BY <1>1, <2>1, <2>2, <2>3
<1> QED
  BY <1>2, <1>3, <1>4, <1>5, <1>6, <1>7, <1>8, <1>9, <1>10 DEF RedisNext

LEMMA RedisHolds ==
    ASSUME WorkersKeepUp
    PROVE  RedisSpec /\ []ReplaysApart => []RedisInv
<1>1. RedisInit => RedisInv
  BY RedisStart
<1>2. RedisInv /\ ReplaysApart /\ [RedisNext]_redisVars => RedisInv'
  BY RedisStep
<1> QED
  BY <1>1, <1>2, PTL DEF RedisSpec

LEMMA RedisOwnsOnce == RedisInv => RedisOneOwner
<1> SUFFICES ASSUME RedisInv, NEW d \in Delivery, NEW p \in Dispatcher, NEW q \in Dispatcher,
                    RedisOwns(p, d), RedisOwns(q, d)
             PROVE  p = q
  BY DEF RedisOneOwner
<1>1. \A r \in Dispatcher : RedisOwns(r, d) => Holds(r, d) \/ PopOwns(r, d)
  <2> SUFFICES ASSUME NEW r \in Dispatcher, RedisOwns(r, d) PROVE Holds(r, d) \/ PopOwns(r, d)
    OBVIOUS
  <2>1. CASE pc[r][d] \notin {"idle", "index", "hold_index", "note"}
    <3>1. pc[r][d] \in JobPc
      BY DEF RedisInv, LeaseInv, TypeInv, TypeOK
    <3> QED
      BY <2>1, <3>1 DEF Holds, BeforeWrite, Written, JobPc
  <2>2. CASE d \in pop[r].claimed
    BY <2>2 DEF PopOwns
  <2>3. CASE pop[r].pc \in {"pop_write", "pop_del", "pop_zrem", "pop_set", "pop_zadd"} /\ Popped(r) = d
    <3>1. pop[r].key \in Key
      BY <2>3 DEF RedisInv, PopTypes, PopShape
    <3>2. PICK t \in Nat : pop[r].key = <<t, d>>
      BY <2>3, <3>1 DEF Key, Popped
    <3>3. On(r, t, d)
      BY <2>3, <3>2 DEF On
    <3> QED
      BY <2>3, <3>3 DEF PopOwns
  <2> QED
    BY <2>1, <2>2, <2>3 DEF RedisOwns
<1>2. OwnedOnce(d) /\ PoppedOnce(d)
  BY DEF RedisInv, LeaseInv, Sound, RedisSound
<1> QED
  BY <1>1, <1>2 DEF OwnedOnce, PoppedOnce

\* The claim on Redis writes the record without comparing it, and between the script that pops a
\* member and the write lie reads that others may interleave with (claimDue, src/storage/redis.ts).
\* Still no two dispatchers ever have one delivery, from the read that finds it due to the write of
\* its outcome, whatever is lost between two commands.
THEOREM RedisOwnership ==
    ASSUME WorkersKeepUp
    PROVE  RedisSpec /\ []ReplaysApart => []RedisOneOwner
BY RedisHolds, RedisOwnsOnce, PTL

------------------------------------------------------------------------------
(* The due keys and their members. The two are written by two commands, the       *)
(* claim moves them by six, and a crash may fall between any two that the         *)
(* hypothesis allows: what is under way covers for what is missing.               *)

\* The commands of a claim between the removal of a due key and the member of the next one.
BetweenKeys == {"pop_zrem", "pop_set", "pop_zadd"}

AtCommand(p, steps, d) == pop[p].pc \in steps /\ \E t \in Nat : On(p, t, d)

\* A delivery that is not terminal has a due key, or somebody is about to write one.
Indexed(d) ==
    NonTerminal(rec[d]) =>
        \/ ~NoDue(d)
        \/ \E p \in Dispatcher : pc[p][d] \in Unindexed
        \/ \E c \in Caller : call[c][d].pc \in CallWindow
        \/ \E p \in Dispatcher : AtCommand(p, {"pop_zrem", "pop_set"}, d)

HasMember(t, d) == \E m \in zset : m.key = <<t, d>>

\* A due key has a member, or somebody is about to add it.
Listed(d) ==
    \A t \in Nat : <<t, d>> \in due =>
        \/ HasMember(t, d)
        \/ \E a \in Actor : mirror[a][d] = Zadd(<<t, d>>)
        \/ \E p \in Dispatcher : AtCommand(p, {"pop_zadd"}, d)

\* A member is removed only after its due key.
RemovedFirst(d) ==
    \A a \in Actor, t \in Nat : mirror[a][d] = Zrem(<<t, d>>) => <<t, d>> \notin due

\* A claimed delivery was due: the key at nextAttemptAt, which the worker removes first, is never
\* the one at the end of the lease.
Reached(d) ==
    /\ rec[d].status = "delivering" => rec[d].nextAttemptAt <= clock
    /\ rec[d].status = "pending" =>
        \/ rec[d].nextAttemptAt <= clock
        \/ \E t \in Nat : <<t, d>> \in due /\ rec[d].nextAttemptAt = t
        \/ \E p \in Dispatcher : pc[p][d] \in Written /\ plan[p][d].next = rec[d].nextAttemptAt

RedisCovered(d) == Indexed(d) /\ Listed(d) /\ RemovedFirst(d) /\ Reached(d)

\* Nobody dies between the removal of a due key, or the write of a record, and the write of the
\* next due key and of its member, except where the lease still has its own key.
RedisCrashesOutsideWindows ==
    /\ (CrashPoints \cup MirrorCrashPoints) \cap (Unindexed \cup CallWindow \cup BetweenKeys) = {}
    /\ MirrorCrashPoints \cap {"idle", "note"} = {}

\* A step that does not touch the due keys of d, and leaves what covers for them under way.
LEMMA CoverageFrame ==
    ASSUME NEW d \in Delivery, RedisCovered(d), clock \in Nat, clock' \in Nat, clock <= clock',
           rec[d].nextAttemptAt \in TimeOrNone, rec'[d] = rec[d],
           \A t \in Nat : <<t, d>> \in due' <=> <<t, d>> \in due,
           \A p \in Dispatcher : pc[p][d] \in Unindexed =>
                pc'[p][d] = pc[p][d] /\ plan'[p][d] = plan[p][d],
           \A c \in Caller : call[c][d].pc \in CallWindow => call'[c][d].pc \in CallWindow,
           \A p \in Dispatcher, t \in Nat : On(p, t, d) /\ pop[p].pc \in BetweenKeys =>
                On(p, t, d)' /\ pop'[p].pc = pop[p].pc,
           \A t \in Nat : <<t, d>> \in due /\ HasMember(t, d) => HasMember(t, d)',
           \A a \in Actor, t \in Nat : mirror[a][d] = Zadd(<<t, d>>) =>
                mirror'[a][d] = Zadd(<<t, d>>) \/ HasMember(t, d)',
           \A a \in Actor, t \in Nat : mirror'[a][d] = Zrem(<<t, d>>) => mirror[a][d] = Zrem(<<t, d>>)
    PROVE  RedisCovered(d)'
<1>1. \A p \in Dispatcher :
        /\ AtCommand(p, {"pop_zrem", "pop_set"}, d) => AtCommand(p, {"pop_zrem", "pop_set"}, d)'
        /\ AtCommand(p, {"pop_zadd"}, d) => AtCommand(p, {"pop_zadd"}, d)'
  BY DEF AtCommand, BetweenKeys
<1>2. NoDue(d)' <=> NoDue(d)
  BY DEF NoDue
<1>3. Indexed(d)'
  <2>1. \A p \in Dispatcher : pc[p][d] \in Unindexed => pc'[p][d] \in Unindexed
    OBVIOUS
  <2> QED
    BY <1>1, <1>2, <2>1 DEF RedisCovered, Indexed, CallWindow
<1>4. Listed(d)'
  <2> SUFFICES ASSUME NEW t \in Nat, <<t, d>> \in due'
               PROVE  \/ HasMember(t, d)'
                      \/ \E a \in Actor : mirror'[a][d] = Zadd(<<t, d>>)
                      \/ \E p \in Dispatcher : AtCommand(p, {"pop_zadd"}, d)'
    BY DEF Listed
  <2>1. \/ HasMember(t, d)
        \/ \E a \in Actor : mirror[a][d] = Zadd(<<t, d>>)
        \/ \E p \in Dispatcher : AtCommand(p, {"pop_zadd"}, d)
    BY DEF RedisCovered, Listed
  <2> QED
    BY <1>1, <2>1
<1>5. RemovedFirst(d)'
  <2> SUFFICES ASSUME NEW a \in Actor, NEW t \in Nat, mirror'[a][d] = Zrem(<<t, d>>)
               PROVE  <<t, d>> \notin due'
    BY DEF RemovedFirst
  <2>1. mirror[a][d] = Zrem(<<t, d>>)
    OBVIOUS
  <2>2. <<t, d>> \notin due
    BY <2>1 DEF RedisCovered, RemovedFirst
  <2> QED
    BY <2>2
<1>6. Reached(d)'
  <2>1. rec[d].nextAttemptAt <= clock => rec[d].nextAttemptAt <= clock'
    BY DEF TimeOrNone, NoTime
  <2>2. \A p \in Dispatcher : pc[p][d] \in Written =>
            pc'[p][d] \in Written /\ plan'[p][d] = plan[p][d]
    BY DEF Unindexed, Written
  <2>3. \A t \in Nat : <<t, d>> \in due => <<t, d>> \in due'
    OBVIOUS
  <2> QED
    BY <2>1, <2>2, <2>3 DEF RedisCovered, Reached
<1> QED
  BY <1>3, <1>4, <1>5, <1>6 DEF RedisCovered

LEMMA CoverageStart == RedisInit => \A d \in Delivery : RedisCovered(d)
<1> SUFFICES ASSUME RedisInit, NEW d \in Delivery PROVE RedisCovered(d)
  OBVIOUS
<1>1. rec[d] = AbsentRecord /\ due = {} /\ \A a \in Actor : mirror[a][d] = NoCommand
  BY DEF RedisInit, Init
<1>2. Indexed(d) /\ Reached(d)
  BY <1>1 DEF Indexed, Reached, NonTerminal, AbsentRecord
<1>3. Listed(d) /\ RemovedFirst(d)
  BY <1>1 DEF Listed, RemovedFirst
<1> QED
  BY <1>2, <1>3 DEF RedisCovered

LEMMA CoverageTypes ==
    ASSUME RedisInv
    PROVE  /\ TypeInv /\ PopTypes /\ ZsetSound /\ clock \in Nat
           /\ \A d \in Delivery : Sound(d) /\ RedisSound(d) /\ rec[d].nextAttemptAt \in TimeOrNone
           /\ \A d \in Delivery, a \in Actor : mirror[a][d] = NoCommand \/ Behind(a, d)
<1>1. TypeInv /\ PopTypes /\ ZsetSound /\ \A d \in Delivery : Sound(d) /\ RedisSound(d)
  BY DEF RedisInv, LeaseInv
<1>2. \A d \in Delivery : rec[d].nextAttemptAt \in TimeOrNone
  BY <1>1 DEF TypeInv, TypeOK, Record
<1> QED
  BY <1>1, <1>2 DEF TypeInv, TypeOK, RedisSound, MirrorSound

\* A step of the claim of p that does not touch the delivery.
LEMMA CoverageClaim ==
    ASSUME RedisInv, NEW p \in Dispatcher, NEW d \in Delivery, RedisCovered(d),
           UNCHANGED <<clock, plan, call, mirror>>, rec'[d] = rec[d],
           \A t \in Nat : <<t, d>> \in due' <=> <<t, d>> \in due,
           \A q \in Dispatcher : q # p => pop'[q] = pop[q] /\ pc'[q] = pc[q],
           pc[p][d] = "idle",
           \A t \in Nat : On(p, t, d) => pop[p].pc \notin BetweenKeys,
           \A t \in Nat : <<t, d>> \in due /\ HasMember(t, d) => HasMember(t, d)'
    PROVE  RedisCovered(d)'
<1>1. clock \in Nat /\ clock <= clock /\ rec[d].nextAttemptAt \in TimeOrNone
  BY CoverageTypes
<1>2. \A q \in Dispatcher : pc[q][d] \in Unindexed => pc'[q][d] = pc[q][d] /\ plan'[q][d] = plan[q][d]
  BY DEF Unindexed
<1>3. \A q \in Dispatcher, t \in Nat : On(q, t, d) /\ pop[q].pc \in BetweenKeys =>
            On(q, t, d)' /\ pop'[q].pc = pop[q].pc
  BY DEF On
<1> QED
  BY <1>1, <1>2, <1>3, CoverageFrame

\* The script moves the scores of members, and leaves their keys.
LEMMA CoverageScript ==
    ASSUME RedisInv, NEW p \in Dispatcher, RunScript(p), NEW d \in Delivery, RedisCovered(d)
    PROVE  RedisCovered(d)'
<1>1. /\ UNCHANGED <<clock, plan, call, mirror, rec, due, pc>>
      /\ pc[p][d] = "idle" /\ pop[p].pc = "off"
  BY DEF RunScript, PopOnly, Popping
<1>2. PICK nowMs \in (IF Prompt THEN {clock} ELSE 0 .. clock) :
        LET ripe == {m \in zset : m.score <= nowMs} IN
        \E popped \in SUBSET ripe :
            /\ zset' = Repositioned(popped, nowMs + leaseMs)
            /\ \E m \in popped :
                pop' = [pop EXCEPT ![p] =
                    [NoPop EXCEPT !.pc = "pop_entry", !.now = nowMs, !.key = m.key,
                                  !.todo = {n.key : n \in popped} \ {m.key}]]
  BY DEF RunScript
<1>6. PICK popped : zset' = Repositioned(popped, nowMs + leaseMs)
                    /\ \E k : pop' = [pop EXCEPT ![p] = k]
  BY <1>2
<1>3. \A t \in Nat : HasMember(t, d) => HasMember(t, d)'
  <2> SUFFICES ASSUME NEW t \in Nat, NEW m \in zset, m.key = <<t, d>>
               PROVE  \E n \in zset' : n.key = <<t, d>>
    BY DEF HasMember
  <2>1. CASE m \in popped
    <3>1. [key |-> m.key, score |-> nowMs + leaseMs] \in zset'
      BY <1>6, <2>1 DEF Repositioned
    <3> QED
      BY <3>1
  <2>2. CASE m \notin popped
    BY <1>6, <2>2 DEF Repositioned
  <2> QED
    BY <2>1, <2>2
<1>4. \A q \in Dispatcher : q # p => pop'[q] = pop[q]
  BY <1>6, CoverageTypes DEF PopTypes
<1>5. \A t \in Nat : ~On(p, t, d)
  BY <1>1 DEF On
<1> QED
  BY <1>1, <1>3, <1>4, <1>5, CoverageClaim

\* What a step of a claim goes on with.
LEMMA CoverageGoes ==
    ASSUME RedisInv, NEW p \in Dispatcher, pop[p].pc # "off"
    PROVE  /\ \A d \in Delivery : pc[p][d] = "idle"
           /\ PopShape(p) /\ \E t \in Nat, d \in Delivery : pop[p].key = <<t, d>>
           /\ \A step, seen : PopGoto(p, step, seen) =>
                /\ pop'[p].pc = step /\ pop'[p].key = pop[p].key /\ pop'[p].now = pop[p].now
                /\ \A q \in Dispatcher : q # p => pop'[q] = pop[q]
           /\ \A todo, claimed : PopContinue(p, todo, claimed) =>
                \A q \in Dispatcher : q # p => pop'[q] = pop[q] /\ pc'[q] = pc[q]
<1>1. pop \in [Dispatcher -> AnyPop] /\ pop[p] \in AnyPop /\ PopShape(p)
  BY CoverageTypes DEF PopTypes
<1>2. pc \in [Dispatcher -> [Delivery -> JobPc]]
  BY CoverageTypes DEF TypeInv, TypeOK
<1>3. (\A d \in Delivery : pc[p][d] = "idle") /\ \E t \in Nat, d \in Delivery : pop[p].key = <<t, d>>
  BY <1>1 DEF PopShape, Key
<1>4. ASSUME NEW step, NEW seen, PopGoto(p, step, seen)
      PROVE  /\ pop'[p].pc = step /\ pop'[p].key = pop[p].key /\ pop'[p].now = pop[p].now
             /\ \A q \in Dispatcher : q # p => pop'[q] = pop[q]
  BY <1>1, <1>4 DEF PopGoto, AnyPop
<1>5. ASSUME NEW todo, NEW claimed, PopContinue(p, todo, claimed)
      PROVE  \A q \in Dispatcher : q # p => pop'[q] = pop[q] /\ pc'[q] = pc[q]
  BY <1>1, <1>2, <1>5 DEF PopContinue
<1> QED
  BY <1>1, <1>3, <1>4, <1>5

\* The reads of a claim, and its end, touch no due key.
LEMMA CoverageReads ==
    ASSUME RedisInv, RedisCrashesOutsideWindows, NEW p \in Dispatcher,
           PopEntry(p) \/ PopRecord(p) \/ PopFails(p),
           NEW d \in Delivery, RedisCovered(d)
    PROVE  RedisCovered(d)'
<1>1. UNCHANGED <<clock, plan, call, mirror, rec, due, zset>>
  BY DEF PopEntry, PopRecord, PopFails, PopOnly
<1>2. pop[p].pc # "off" /\ pop[p].pc \notin BetweenKeys
  <2>1. CASE PopFails(p)
    BY <2>1, MirrorAssumption DEF PopFails, RedisCrashesOutsideWindows
  <2>2. CASE PopEntry(p) \/ PopRecord(p)
    BY <2>2 DEF PopEntry, PopRecord, Popping, BetweenKeys
  <2> QED
    BY <2>1, <2>2
<1>3. \A q \in Dispatcher : q # p => pop'[q] = pop[q] /\ pc'[q] = pc[q]
  <2>1. CASE PopFails(p)
    BY <2>1, CoverageTypes DEF PopFails, PopTypes
  <2>2. CASE PopEntry(p)
    BY <1>2, <2>2, CoverageGoes DEF PopEntry
  <2>3. CASE PopRecord(p)
    <3>1. \/ (\E step, seen : PopGoto(p, step, seen)) /\ UNCHANGED pc
          \/ PopContinue(p, pop[p].todo, pop[p].claimed)
      BY <2>3 DEF PopRecord
    <3> QED
      BY <1>2, <3>1, CoverageGoes
  <2> QED
    BY <2>1, <2>2, <2>3
<1>4. \A t \in Nat : HasMember(t, d) => HasMember(t, d)'
  BY <1>1 DEF HasMember
<1>5. pc[p][d] = "idle"
  BY <1>2, CoverageGoes
<1> QED
  BY <1>1, <1>2, <1>3, <1>4, <1>5, CoverageClaim

\* A member is taken away: its key leads nowhere, or was removed before.
LEMMA CoverageDrop ==
    ASSUME RedisInv, NEW p \in Dispatcher, SweepZrem(p), NEW d \in Delivery, RedisCovered(d)
    PROVE  RedisCovered(d)'
<1>1. /\ UNCHANGED <<clock, plan, call, mirror, rec, due>>
      /\ zset' = Drop(pop[p].key) /\ pop[p].pc = "pop_sweep_zrem"
      /\ PopContinue(p, pop[p].todo, pop[p].claimed)
  BY DEF SweepZrem, PopOnly, Popping
<1>2. PICK u \in Nat, e \in Delivery : pop[p].key = <<u, e>>
  BY <1>1, CoverageGoes
<1>3. On(p, u, e) /\ NoDue(e)
  <2>1. On(p, u, e)
    BY <1>1, <1>2 DEF On
  <2>2. Lost(e) \/ e \in Deleted
    BY <1>1, <2>1, CoverageTypes DEF RedisSound, PoppedOnce, Step
  <2> QED
    BY <2>1, <2>2, CoverageTypes DEF RedisSound, Untouched, Lost
<1>4. \A t \in Nat : <<t, d>> \in due /\ HasMember(t, d) => HasMember(t, d)'
  <2> SUFFICES ASSUME NEW t \in Nat, <<t, d>> \in due, NEW m \in zset, m.key = <<t, d>>
               PROVE  m \in zset'
    BY DEF HasMember
  <2>1. <<t, d>> # <<u, e>>
    BY <1>3 DEF NoDue
  <2> QED
    BY <1>1, <1>2, <2>1 DEF Drop
<1>5. \A q \in Dispatcher : q # p => pop'[q] = pop[q] /\ pc'[q] = pc[q]
  BY <1>1, CoverageGoes
<1>6. pc[p][d] = "idle"
  BY <1>1, CoverageGoes
<1>7. \A t \in Nat : On(p, t, d) => pop[p].pc \notin BetweenKeys
  BY <1>1 DEF BetweenKeys
<1> QED
  BY <1>1, <1>4, <1>5, <1>6, <1>7, CoverageClaim

\* What a command of a claim on one delivery does to the others.
LEMMA CoverageApart ==
    ASSUME RedisInv, NEW p \in Dispatcher, NEW t \in Nat, NEW d \in Delivery, On(p, t, d),
           UNCHANGED <<clock, plan, call, mirror>>,
           \A q \in Dispatcher : q # p => pop'[q] = pop[q] /\ pc'[q] = pc[q],
           NEW e \in Delivery, e # d, RedisCovered(e), rec'[e] = rec[e],
           \A u \in Nat : <<u, e>> \in due' <=> <<u, e>> \in due,
           \A m \in zset : m.key[2] # d => m \in zset'
    PROVE  RedisCovered(e)'
<1>1. pop[p].pc # "off" /\ pop[p].key = <<t, d>> /\ pc[p][e] = "idle"
  BY CoverageGoes DEF On
<1>2. \A u \in Nat : ~On(p, u, e)
  BY <1>1 DEF On
<1>3. \A u \in Nat : HasMember(u, e) => HasMember(u, e)'
  <2> SUFFICES ASSUME NEW u \in Nat, NEW m \in zset, m.key = <<u, e>> PROVE m \in zset'
    BY DEF HasMember
  <2> QED
    OBVIOUS
<1> QED
  BY <1>1, <1>2, <1>3, CoverageClaim

\* The delivery a claim is at, command by command.
LEMMA CoverageAt ==
    ASSUME RedisInv, NEW p \in Dispatcher,
           pop[p].pc \in {"pop_write", "pop_del", "pop_zrem", "pop_set", "pop_zadd"}
    PROVE  \E t \in Nat, d \in Delivery :
            /\ pop[p].key = <<t, d>> /\ On(p, t, d) /\ Step(p, t, d) /\ Popped(p) = d
            /\ t <= clock /\ pop[p].now = clock
            /\ \A q \in Dispatcher : ~Holds(q, d)
            /\ \A q \in Dispatcher, u \in Nat : On(q, u, d) => q = p
            /\ \A a \in Actor : mirror[a][d] = NoCommand
            /\ ScheduledOnce(d)
<1>1. pop[p].pc # "off"
  OBVIOUS
<1>2. PICK t \in Nat, d \in Delivery : pop[p].key = <<t, d>>
  BY <1>1, CoverageGoes
<1>3. On(p, t, d) /\ Popped(p) = d
  BY <1>2 DEF On, Popped
<1>4. t <= clock /\ pop[p].now = clock
  BY <1>1, <1>2, CoverageGoes DEF PopShape
<1>5. /\ Step(p, t, d)
      /\ \A q \in Dispatcher : ~Holds(q, d)
      /\ \A q \in Dispatcher, u \in Nat : On(q, u, d) => q = p
      /\ \A a \in Actor : mirror[a][d] = NoCommand
  BY <1>3, ClaimAlone
<1>6. ScheduledOnce(d)
  BY CoverageTypes DEF Sound
<1> QED
  BY <1>2, <1>3, <1>4, <1>5, <1>6

\* The record of the claim: the delivery it is of was due.
LEMMA CoverageWrite ==
    ASSUME RedisInv, NEW p \in Dispatcher, PopWrite(p), \A d \in Delivery : RedisCovered(d)
    PROVE  \A d \in Delivery : RedisCovered(d)'
<1>1. /\ UNCHANGED <<clock, plan, call, mirror, due, zset, pc>>
      /\ pop[p].pc = "pop_write" /\ PopGoto(p, "pop_del", AbsentRecord)
  BY DEF PopWrite, PopOnly, Popping
<1>2. PICK t \in Nat, d \in Delivery :
            /\ On(p, t, d) /\ Step(p, t, d) /\ Popped(p) = d /\ t <= clock
            /\ \A q \in Dispatcher : ~Holds(q, d)
            /\ \A q \in Dispatcher, u \in Nat : On(q, u, d) => q = p
            /\ \A a \in Actor : mirror[a][d] = NoCommand
            /\ ScheduledOnce(d)
  BY <1>1, CoverageAt
<1>3. \A q \in Dispatcher : q # p => pop'[q] = pop[q] /\ pc'[q] = pc[q]
  BY <1>1, CoverageGoes
<1>4. ASSUME NEW e \in Delivery, e # d PROVE RedisCovered(e)'
  <2>1. rec'[e] = rec[e]
    BY <1>2, <1>4, CoverageTypes DEF PopWrite, TypeInv, TypeOK
  <2> QED
    BY <1>1, <1>2, <1>3, <1>4, <2>1, CoverageApart
<1>5. rec[d] = pop[p].seen /\ <<t, d>> \in due /\ NonTerminal(rec[d])
  BY <1>1, <1>2 DEF Step, ScheduledOnce
<1>6. rec'[d].status = "delivering" /\ rec'[d].nextAttemptAt = rec[d].nextAttemptAt
  BY <1>2, <1>5, CoverageTypes DEF PopWrite, TypeInv, TypeOK, Record
<1>7. rec[d].nextAttemptAt <= clock
  <2>1. Reached(d)
    BY DEF RedisCovered
  <2>2. \A q \in Dispatcher : pc[q][d] \notin Written
    BY <1>2 DEF Holds
  <2>3. \A u \in Nat : <<u, d>> \in due => u = t
    BY <1>2, <1>5 DEF ScheduledOnce
  <2> QED
    BY <1>2, <1>5, <2>1, <2>2, <2>3 DEF Reached, NonTerminal
<1>8. Reached(d)'
  BY <1>1, <1>6, <1>7 DEF Reached
<1>9. Indexed(d)'
  BY <1>1, <1>5 DEF Indexed, NoDue
<1>10. Listed(d)' /\ RemovedFirst(d)'
  <2>1. Listed(d) /\ RemovedFirst(d)
    BY DEF RedisCovered
  <2>2. \A q \in Dispatcher : ~AtCommand(q, {"pop_zadd"}, d)
    BY <1>1, <1>2 DEF AtCommand
  <2>3. Listed(d)'
    BY <1>1, <2>1, <2>2 DEF Listed, HasMember
  <2>4. RemovedFirst(d)'
    BY <1>1, <2>1 DEF RemovedFirst
  <2> QED
    BY <2>3, <2>4
<1>11. RedisCovered(d)'
  BY <1>8, <1>9, <1>10 DEF RedisCovered
<1> QED
  BY <1>4, <1>11

\* The due key of the claim is removed: the claimer covers for it.
LEMMA CoverageDel ==
    ASSUME RedisInv, NEW p \in Dispatcher, PopDel(p), \A d \in Delivery : RedisCovered(d)
    PROVE  \A d \in Delivery : RedisCovered(d)'
<1>1. pop[p].pc = "pop_del"
  <2>1. pop[p] \in AnyPop
    BY CoverageTypes DEF PopTypes
  <2> QED
    BY <2>1 DEF PopDel, AnyPop
<1>2. /\ UNCHANGED <<clock, plan, call, mirror, rec, zset, pc>>
      /\ due' = due \ {pop[p].key} /\ PopGoto(p, "pop_zrem", AbsentRecord)
  BY <1>1 DEF PopDel, PopOnly, Popping
<1>3. PICK t \in Nat, d \in Delivery :
            /\ pop[p].key = <<t, d>> /\ On(p, t, d) /\ Step(p, t, d)
            /\ \A q \in Dispatcher, u \in Nat : On(q, u, d) => q = p
  BY <1>1, CoverageAt
<1>4. /\ pop'[p].pc = "pop_zrem" /\ pop'[p].key = pop[p].key
      /\ \A q \in Dispatcher : q # p => pop'[q] = pop[q] /\ pc'[q] = pc[q]
  BY <1>1, <1>2, CoverageGoes
<1>5. ASSUME NEW e \in Delivery, e # d PROVE RedisCovered(e)'
  <2>1. rec'[e] = rec[e] /\ \A u \in Nat : <<u, e>> \in due' <=> <<u, e>> \in due
    BY <1>2, <1>3, <1>5
  <2> QED
    BY <1>2, <1>3, <1>4, <1>5, <2>1, CoverageApart
<1>6. Indexed(d)'
  <2>1. AtCommand(p, {"pop_zrem", "pop_set"}, d)'
    BY <1>3, <1>4 DEF AtCommand, On
  <2> QED
    BY <2>1 DEF Indexed
<1>7. Reached(d)'
  <2>1. rec[d].status = "delivering" /\ rec[d].nextAttemptAt <= clock
    BY <1>1, <1>3 DEF Step, PopWon, RedisCovered, Reached
  <2> QED
    BY <1>2, <2>1 DEF Reached
<1>8. Listed(d)'
  <2>1. Listed(d) /\ due' \subseteq due
    BY <1>2 DEF RedisCovered
  <2>2. \A q \in Dispatcher : ~AtCommand(q, {"pop_zadd"}, d)
    BY <1>1, <1>3 DEF AtCommand
  <2> QED
    BY <1>2, <2>1, <2>2 DEF Listed, HasMember
<1>9. RemovedFirst(d)'
  BY <1>2 DEF RedisCovered, RemovedFirst
<1>10. RedisCovered(d)'
  BY <1>6, <1>7, <1>8, <1>9 DEF RedisCovered
<1> QED
  BY <1>5, <1>10

\* Its member is removed after it.
LEMMA CoverageZrem ==
    ASSUME RedisInv, NEW p \in Dispatcher, PopZrem(p), \A d \in Delivery : RedisCovered(d)
    PROVE  \A d \in Delivery : RedisCovered(d)'
<1>1. /\ UNCHANGED <<clock, plan, call, mirror, rec, due, pc>>
      /\ pop[p].pc = "pop_zrem" /\ PopGoto(p, "pop_set", AbsentRecord) /\ zset' = Drop(pop[p].key)
  BY DEF PopZrem, PopOnly, Popping
<1>2. PICK t \in Nat, d \in Delivery :
            /\ pop[p].key = <<t, d>> /\ On(p, t, d) /\ Step(p, t, d)
            /\ \A q \in Dispatcher, u \in Nat : On(q, u, d) => q = p
  BY <1>1, CoverageAt
<1>3. /\ pop'[p].pc = "pop_set" /\ pop'[p].key = pop[p].key
      /\ \A q \in Dispatcher : q # p => pop'[q] = pop[q] /\ pc'[q] = pc[q]
  BY <1>1, CoverageGoes
<1>4. ASSUME NEW e \in Delivery, e # d PROVE RedisCovered(e)'
  <2>1. rec'[e] = rec[e] /\ \A u \in Nat : <<u, e>> \in due' <=> <<u, e>> \in due
    BY <1>1
  <2>2. \A m \in zset : m.key[2] # d => m \in zset'
    BY <1>1, <1>2 DEF Drop
  <2> QED
    BY <1>1, <1>2, <1>3, <1>4, <2>1, <2>2, CoverageApart
<1>5. Indexed(d)'
  <2>1. AtCommand(p, {"pop_zrem", "pop_set"}, d)'
    BY <1>2, <1>3 DEF AtCommand, On
  <2> QED
    BY <2>1 DEF Indexed
<1>6. Reached(d)'
  <2>1. rec[d].status = "delivering" /\ rec[d].nextAttemptAt <= clock
    BY <1>1, <1>2 DEF Step, PopWon, RedisCovered, Reached
  <2> QED
    BY <1>1, <2>1 DEF Reached
<1>7. Listed(d)'
  <2>1. NoDue(d)
    BY <1>1, <1>2 DEF Step
  <2> QED
    BY <1>1, <2>1 DEF Listed, NoDue
<1>8. RemovedFirst(d)'
  BY <1>1 DEF RedisCovered, RemovedFirst
<1>9. RedisCovered(d)'
  BY <1>5, <1>6, <1>7, <1>8 DEF RedisCovered
<1> QED
  BY <1>4, <1>9

\* The due key at the end of the lease: its member is next.
LEMMA CoverageSet ==
    ASSUME RedisInv, NEW p \in Dispatcher, PopSet(p), \A d \in Delivery : RedisCovered(d)
    PROVE  \A d \in Delivery : RedisCovered(d)'
<1>1. /\ UNCHANGED <<clock, plan, call, mirror, rec, zset, pc>>
      /\ pop[p].pc = "pop_set" /\ PopGoto(p, "pop_zadd", AbsentRecord)
      /\ due' = due \cup {<<pop[p].now + leaseMs, Popped(p)>>}
  BY DEF PopSet, PopOnly, Popping
<1>2. PICK t \in Nat, d \in Delivery :
            /\ pop[p].key = <<t, d>> /\ On(p, t, d) /\ Step(p, t, d) /\ Popped(p) = d
            /\ pop[p].now = clock
            /\ \A q \in Dispatcher, u \in Nat : On(q, u, d) => q = p
            /\ \A a \in Actor : mirror[a][d] = NoCommand
  BY <1>1, CoverageAt
<1>3. /\ pop'[p].pc = "pop_zadd" /\ pop'[p].key = pop[p].key
      /\ \A q \in Dispatcher : q # p => pop'[q] = pop[q] /\ pc'[q] = pc[q]
  BY <1>1, CoverageGoes
<1>4. ASSUME NEW e \in Delivery, e # d PROVE RedisCovered(e)'
  <2>1. rec'[e] = rec[e] /\ \A u \in Nat : <<u, e>> \in due' <=> <<u, e>> \in due
    BY <1>1, <1>2, <1>4
  <2> QED
    BY <1>1, <1>2, <1>3, <1>4, <2>1, CoverageApart
<1>5. Indexed(d)'
  <2>1. clock + leaseMs \in Nat /\ <<clock + leaseMs, d>> \in due'
    BY <1>1, <1>2, CoverageTypes, ClaimRuns
  <2> QED
    BY <2>1 DEF Indexed, NoDue
<1>6. Reached(d)'
  <2>1. rec[d].status = "delivering" /\ rec[d].nextAttemptAt <= clock
    BY <1>1, <1>2 DEF Step, PopWon, RedisCovered, Reached
  <2> QED
    BY <1>1, <2>1 DEF Reached
<1>7. Listed(d)'
  <2>1. AtCommand(p, {"pop_zadd"}, d)'
    BY <1>2, <1>3 DEF AtCommand, On
  <2> QED
    BY <2>1 DEF Listed
<1>8. RemovedFirst(d)'
  BY <1>1, <1>2, CommandsDiffer DEF RemovedFirst
<1>9. RedisCovered(d)'
  BY <1>5, <1>6, <1>7, <1>8 DEF RedisCovered
<1> QED
  BY <1>4, <1>9

\* The member of that key: the claim of this delivery is made.
LEMMA CoverageZadd ==
    ASSUME RedisInv, NEW p \in Dispatcher, PopZadd(p), \A d \in Delivery : RedisCovered(d)
    PROVE  \A d \in Delivery : RedisCovered(d)'
<1>1. /\ UNCHANGED <<clock, plan, call, mirror, rec, due>>
      /\ pop[p].pc = "pop_zadd" /\ PopContinue(p, pop[p].todo, pop[p].claimed \cup {Popped(p)})
      /\ zset' = Put(<<pop[p].now + leaseMs, Popped(p)>>, pop[p].now + leaseMs)
  BY DEF PopZadd, PopOnly, Popping
<1>2. PICK t \in Nat, d \in Delivery :
            /\ On(p, t, d) /\ Step(p, t, d) /\ Popped(p) = d
            /\ pop[p].now = clock
            /\ \A a \in Actor : mirror[a][d] = NoCommand
            /\ ScheduledOnce(d)
  BY <1>1, CoverageAt
<1>3. \A q \in Dispatcher : q # p => pop'[q] = pop[q] /\ pc'[q] = pc[q]
  BY <1>1, CoverageGoes
<1>4. ASSUME NEW e \in Delivery, e # d PROVE RedisCovered(e)'
  <2>1. rec'[e] = rec[e] /\ \A u \in Nat : <<u, e>> \in due' <=> <<u, e>> \in due
    BY <1>1
  <2>2. \A m \in zset : m.key[2] # d => m \in zset'
    BY <1>1, <1>2 DEF Put
  <2> QED
    BY <1>1, <1>2, <1>3, <1>4, <2>1, <2>2, CoverageApart
<1>5. clock + leaseMs \in Nat /\ <<clock + leaseMs, d>> \in due
  BY <1>1, <1>2, CoverageTypes, ClaimRuns DEF Step
<1>6. Indexed(d)'
  BY <1>1, <1>5 DEF Indexed, NoDue
<1>7. Reached(d)'
  <2>1. rec[d].status = "delivering" /\ rec[d].nextAttemptAt <= clock
    BY <1>1, <1>2 DEF Step, PopWon, RedisCovered, Reached
  <2> QED
    BY <1>1, <2>1 DEF Reached
<1>8. Listed(d)'
  <2>2. \A u \in Nat : <<u, d>> \in due => u = clock + leaseMs
    BY <1>2, <1>5 DEF ScheduledOnce
  <2>3. \A u \in Nat : u = clock + leaseMs => HasMember(u, d)'
    <3>1. [key |-> <<clock + leaseMs, d>>, score |-> clock + leaseMs] \in zset'
      BY <1>1, <1>2 DEF Put
    <3> QED
      BY <3>1 DEF HasMember
  <2> QED
    BY <1>1, <2>2, <2>3 DEF Listed
<1>9. RemovedFirst(d)'
  BY <1>1 DEF RedisCovered, RemovedFirst
<1>10. RedisCovered(d)'
  BY <1>6, <1>7, <1>8, <1>9 DEF RedisCovered
<1> QED
  BY <1>4, <1>10

\* Steps that leave the due keys, the members and the claims alone.
LEMMA CoverageStill ==
    ASSUME RedisInv, NEW d \in Delivery, RedisCovered(d), clock' \in Nat, clock <= clock',
           UNCHANGED <<rec, due, call, zset, mirror, pop>>,
           \A p \in Dispatcher : pc[p][d] \in Unindexed =>
                pc'[p][d] = pc[p][d] /\ plan'[p][d] = plan[p][d]
    PROVE  RedisCovered(d)'
<1>1. clock \in Nat /\ rec[d].nextAttemptAt \in TimeOrNone
  BY CoverageTypes
<1>2. \A p \in Dispatcher, t \in Nat : On(p, t, d) /\ pop[p].pc \in BetweenKeys =>
            On(p, t, d)' /\ pop'[p].pc = pop[p].pc
  BY DEF On
<1>3. \A t \in Nat : HasMember(t, d)' <=> HasMember(t, d)
  BY DEF HasMember
<1> QED
  BY <1>1, <1>2, <1>3, CoverageFrame

LEMMA CoverageTicks ==
    ASSUME RedisInv, RedisTick, UNCHANGED <<zset, mirror, pop>>, NEW d \in Delivery, RedisCovered(d)
    PROVE  RedisCovered(d)'
<1>1. clock' = clock + 1 /\ UNCHANGED <<rec, due, call, pc, plan>> /\ clock \in Nat
  BY CoverageTypes DEF RedisTick, Tick, jobVars
<1>2. clock' \in Nat /\ clock <= clock'
  BY <1>1
<1> QED
  BY <1>1, <1>2, CoverageStill

LEMMA CoverageCrash ==
    ASSUME RedisInv, RedisCrashesOutsideWindows, NEW p \in Dispatcher, Crash(p),
           UNCHANGED <<zset, mirror, pop>>, NEW d \in Delivery, RedisCovered(d)
    PROVE  RedisCovered(d)'
<1>1. UNCHANGED <<clock, rec, due, call>> /\ clock \in Nat
  BY CoverageTypes DEF Crash
<1>2. pc[p][d] \notin Unindexed
  BY DEF Crash, RedisCrashesOutsideWindows, Unindexed
<1>3. \A q \in Dispatcher : q # p => pc'[q][d] = pc[q][d] /\ plan'[q][d] = plan[q][d]
  BY CoverageTypes DEF Crash, TypeInv, TypeOK
<1> QED
  BY <1>1, <1>2, <1>3, CoverageStill

LEMMA CoverageEndpoint ==
    ASSUME RedisInv, NEW e \in Endpoint, NEW state, SetEndpoint(e, state), UNCHANGED <<zset, mirror, pop>>,
           NEW d \in Delivery, RedisCovered(d)
    PROVE  RedisCovered(d)'
<1>1. UNCHANGED <<clock, rec, due, call, pc, plan>> /\ clock \in Nat
  BY CoverageTypes DEF SetEndpoint, jobVars
<1> QED
  BY <1>1, CoverageStill

\* The second command of somebody: it adds the member that was missing, or removes one whose due
\* key is gone.
LEMMA CoverageSent ==
    ASSUME RedisInv, NEW a \in Actor, NEW e \in Delivery, MirrorSent(a, e),
           NEW d \in Delivery, \A c \in Delivery : RedisCovered(c)
    PROVE  RedisCovered(d)'
<1>1. /\ mirror[a][e] # NoCommand
      /\ mirror' = [mirror EXCEPT ![a][e] = NoCommand]
      /\ UNCHANGED <<clock, rec, due, call, pc, plan, pop>>
  BY DEF MirrorSent, vars, jobVars
<1>2. PICK t \in TimeOrNone : mirror[a][e] \in {Zadd(<<t, e>>), Zrem(<<t, e>>)}
  BY <1>1, CoverageTypes DEF Behind
<1>3. \A b \in Actor : ~(b = a /\ d = e) => mirror'[b][d] = mirror[b][d]
  BY <1>1, CoverageTypes DEF PopTypes
<1>4. d = e => mirror'[a][d] = NoCommand
  BY <1>1, CoverageTypes DEF PopTypes
<1>5. clock \in Nat /\ clock <= clock /\ rec[d].nextAttemptAt \in TimeOrNone
  BY CoverageTypes
<1>6. \A p \in Dispatcher, u \in Nat : On(p, u, d) /\ pop[p].pc \in BetweenKeys =>
            On(p, u, d)' /\ pop'[p].pc = pop[p].pc
  BY <1>1 DEF On
<1>7. CASE mirror[a][e] = Zadd(<<t, e>>)
  <2>1. zset' = Put(<<t, e>>, t)
    <3>1. mirror[a][e].op = "zadd" /\ mirror[a][e].key = <<t, e>>
      BY <1>7 DEF Zadd
    <3> QED
      BY <3>1 DEF MirrorSent
  <2>2. HasMember(t, e)'
    <3>1. [key |-> <<t, e>>, score |-> t] \in zset'
      BY <2>1 DEF Put
    <3> QED
      BY <3>1 DEF HasMember
  <2>3. \A u \in Nat : HasMember(u, d) => HasMember(u, d)'
    <3> SUFFICES ASSUME NEW u \in Nat, NEW m \in zset, m.key = <<u, d>> PROVE HasMember(u, d)'
      BY DEF HasMember
    <3>1. CASE <<u, d>> = <<t, e>>
      BY <3>1, <2>2
    <3>2. CASE <<u, d>> # <<t, e>>
      <4>1. m \in zset'
        BY <2>1, <3>2 DEF Put
      <4> QED
        BY <4>1 DEF HasMember
    <3> QED
      BY <3>1, <3>2
  <2>4. \A b \in Actor, u \in Nat : mirror[b][d] = Zadd(<<u, d>>) =>
            mirror'[b][d] = Zadd(<<u, d>>) \/ HasMember(u, d)'
    <3> SUFFICES ASSUME NEW b \in Actor, NEW u \in Nat, mirror[b][d] = Zadd(<<u, d>>), b = a, d = e
                 PROVE  HasMember(u, d)'
      BY <1>3
    <3>1. <<u, d>> = <<t, e>>
      BY <1>7, CommandsDiffer
    <3> QED
      BY <2>2, <3>1
  <2>5. \A b \in Actor, u \in Nat : mirror'[b][d] = Zrem(<<u, d>>) => mirror[b][d] = Zrem(<<u, d>>)
    BY <1>3, <1>4, CommandsDiffer
  <2> QED
    BY <1>1, <1>5, <1>6, <2>3, <2>4, <2>5, CoverageFrame
<1>8. CASE mirror[a][e] = Zrem(<<t, e>>)
  <2>1. zset' = Drop(<<t, e>>)
    <3>1. mirror[a][e].op # "zadd" /\ mirror[a][e].key = <<t, e>>
      BY <1>8 DEF Zrem
    <3> QED
      BY <3>1 DEF MirrorSent
  <2>2. \A u \in Nat : <<u, d>> \in due /\ HasMember(u, d) => HasMember(u, d)'
    <3> SUFFICES ASSUME NEW u \in Nat, <<u, d>> \in due, NEW m \in zset, m.key = <<u, d>> PROVE HasMember(u, d)'
      BY DEF HasMember
    <3>1. <<u, d>> # <<t, e>>
      <4> SUFFICES ASSUME u = t, d = e PROVE FALSE
        OBVIOUS
      <4>1. RemovedFirst(d)
        BY DEF RedisCovered
      <4> QED
        BY <1>8, <4>1 DEF RemovedFirst
    <3>2. m \in zset'
      BY <2>1, <3>1 DEF Drop
    <3> QED
      BY <3>2 DEF HasMember
  <2>3. \A b \in Actor, u \in Nat : mirror[b][d] = Zadd(<<u, d>>) => mirror'[b][d] = Zadd(<<u, d>>)
    BY <1>3, <1>8, CommandsDiffer
  <2>4. \A b \in Actor, u \in Nat : mirror'[b][d] = Zrem(<<u, d>>) => mirror[b][d] = Zrem(<<u, d>>)
    BY <1>3, <1>4, CommandsDiffer
  <2> QED
    BY <1>1, <1>5, <1>6, <2>2, <2>3, <2>4, CoverageFrame
<1> QED
  BY <1>2, <1>7, <1>8

\* A command is lost with its connection: no member is missing for it.
LEMMA CoverageLost ==
    ASSUME RedisInv, RedisCrashesOutsideWindows, NEW p \in Dispatcher, NEW e \in Delivery, MirrorLost(p, e),
           NEW d \in Delivery, RedisCovered(d)
    PROVE  RedisCovered(d)'
<1>1. /\ pc[p][e] \in MirrorCrashPoints /\ mirror' = [mirror EXCEPT ![p][e] = NoCommand]
      /\ Finish(p, e) /\ UNCHANGED <<clock, rec, due, call, zset, pop>> /\ p \in Actor
  BY DEF MirrorLost, Actor
<1>2. \A t \in Nat : mirror[p][e] # Zadd(<<t, e>>)
  <2>1. pc[p][e] \in JobPc /\ pc[p][e] \notin {"idle", "note"}
    BY <1>1, MirrorAssumption DEF RedisCrashesOutsideWindows
  <2>2. Holds(p, e)
    BY <2>1 DEF JobPc, Holds, BeforeWrite, Written
  <2> QED
    BY <2>2, OwnedAlone DEF TimeOrNone
<1>3. \A b \in Actor : ~(b = p /\ d = e) => mirror'[b][d] = mirror[b][d]
  BY <1>1, CoverageTypes DEF PopTypes
<1>4. d = e => mirror'[p][d] = NoCommand
  BY <1>1, CoverageTypes DEF PopTypes
<1>5. \A q \in Dispatcher : pc[q][d] \in Unindexed => pc'[q][d] = pc[q][d] /\ plan'[q][d] = plan[q][d]
  <2>1. pc[p][e] \notin Unindexed
    BY <1>1 DEF RedisCrashesOutsideWindows
  <2> QED
    BY <1>1, <2>1, CoverageTypes, FinishTypes
<1>6. \A b \in Actor, u \in Nat : mirror[b][d] = Zadd(<<u, d>>) => mirror'[b][d] = Zadd(<<u, d>>)
  BY <1>2, <1>3
<1>7. \A b \in Actor, u \in Nat : mirror'[b][d] = Zrem(<<u, d>>) => mirror[b][d] = Zrem(<<u, d>>)
  BY <1>3, <1>4, CommandsDiffer
<1>8. clock \in Nat /\ clock <= clock /\ rec[d].nextAttemptAt \in TimeOrNone
  BY CoverageTypes
<1>9. \A q \in Dispatcher, u \in Nat : On(q, u, d) /\ pop[q].pc \in BetweenKeys =>
            On(q, u, d)' /\ pop'[q].pc = pop[q].pc
  BY <1>1 DEF On
<1>10. \A u \in Nat : HasMember(u, d) => HasMember(u, d)'
  BY <1>1 DEF HasMember
<1> QED
  BY <1>1, <1>5, <1>6, <1>7, <1>8, <1>9, <1>10, CoverageFrame

\* What the owner of a delivery has to show for its step.
LEMMA CoverageOwner ==
    ASSUME RedisInv, NEW p \in Dispatcher, NEW d \in Delivery, Holds(p, d),
           mirror[p][d] = NoCommand
    PROVE  /\ \A a \in Actor : mirror[a][d] = NoCommand
           /\ \A q \in Dispatcher, t \in Nat : ~On(q, t, d)
           /\ \A q \in Dispatcher : Holds(q, d) => q = p
           /\ \A q \in Dispatcher : ~AtCommand(q, {"pop_zadd"}, d) /\ ~AtCommand(q, {"pop_zrem", "pop_set"}, d)
<1>1. /\ \A a \in Actor : mirror[a][d] = NoCommand
      /\ \A q \in Dispatcher, t \in Nat : ~On(q, t, d)
  BY OwnedAlone
<1>2. \A q \in Dispatcher : Holds(q, d) => q = p
  BY CoverageTypes DEF Sound, OwnedOnce
<1> QED
  BY <1>1, <1>2 DEF AtCommand

\* A due key is removed by its owner, who covers for it unless another one is left.
LEMMA CoverageUnindexes ==
    ASSUME RedisInv, NEW p \in Dispatcher, NEW d \in Delivery, pc[p][d] \in BeforeWrite, RedisCovered(d),
           NEW t, mirror[p][d] = NoCommand, due' = due \ {<<t, d>>}, UNCHANGED <<clock, rec, zset, pop>>,
           \A b \in Actor : mirror'[b][d] = IF b = p THEN Zrem(<<t, d>>) ELSE mirror[b][d],
           pc'[p][d] \in Unindexed \/ ~NoDue(d)'
    PROVE  RedisCovered(d)'
<1>1. Holds(p, d) /\ rec[d].status = "delivering" /\ p \in Actor
  BY CoverageTypes DEF Holds, Sound, Leased, Actor
<1>2. \A a \in Actor : mirror[a][d] = NoCommand
  BY <1>1, CoverageOwner
<1>3. \A q \in Dispatcher : ~AtCommand(q, {"pop_zadd"}, d)
  BY <1>1, CoverageOwner
<1>4. Indexed(d)'
  BY DEF Indexed
<1>5. Reached(d)'
  <2>1. rec[d].nextAttemptAt <= clock
    BY <1>1 DEF RedisCovered, Reached
  <2> QED
    BY <1>1, <2>1 DEF Reached
<1>6. Listed(d)'
  <2>1. \A u \in Nat : <<u, d>> \in due' => HasMember(u, d)
    <3> SUFFICES ASSUME NEW u \in Nat, <<u, d>> \in due PROVE HasMember(u, d)
      OBVIOUS
    <3>1. Listed(d)
      BY DEF RedisCovered
    <3> QED
      BY <1>2, <1>3, <3>1, CommandsDiffer DEF Listed
  <2> QED
    BY <2>1 DEF Listed, HasMember
<1>7. RemovedFirst(d)'
  <2> SUFFICES ASSUME NEW a \in Actor, NEW u \in Nat, mirror'[a][d] = Zrem(<<u, d>>) PROVE <<u, d>> \notin due'
    BY DEF RemovedFirst
  <2>1. mirror'[a][d] = Zrem(<<t, d>>)
    BY <1>2, CommandsDiffer
  <2>2. <<u, d>> = <<t, d>>
    BY <2>1, CommandsDiffer
  <2> QED
    BY <2>2
<1> QED
  BY <1>4, <1>5, <1>6, <1>7 DEF RedisCovered

\* A due key is written, and its member is next.
LEMMA CoverageIndexes ==
    ASSUME RedisInv, NEW d \in Delivery, RedisCovered(d), NEW a \in Actor, NEW t \in Nat,
           due' = due \cup {<<t, d>>}, UNCHANGED <<clock, rec, zset, pop>>,
           \A b \in Actor : mirror[b][d] = NoCommand,
           \A b \in Actor : mirror'[b][d] = IF b = a THEN Zadd(<<t, d>>) ELSE mirror[b][d],
           \A p \in Dispatcher : pc[p][d] \in Written =>
                plan[p][d].next = t \/ (pc'[p][d] = pc[p][d] /\ plan'[p][d] = plan[p][d])
    PROVE  RedisCovered(d)'
<1>1. Indexed(d)'
  BY DEF Indexed, NoDue
<1>2. Reached(d)'
  <2>1. Reached(d)
    BY DEF RedisCovered
  <2> QED
    BY <2>1 DEF Reached
<1>3. Listed(d)'
  <2> SUFFICES ASSUME NEW u \in Nat, <<u, d>> \in due, u # t
               PROVE  HasMember(u, d) \/ \E p \in Dispatcher : AtCommand(p, {"pop_zadd"}, d)
    BY DEF Listed, HasMember, AtCommand, On
  <2>1. Listed(d)
    BY DEF RedisCovered
  <2> QED
    BY <2>1, CommandsDiffer DEF Listed
<1>4. RemovedFirst(d)'
  <2>1. \A b \in Actor, u \in Nat : mirror'[b][d] # Zrem(<<u, d>>)
    BY CommandsDiffer
  <2> QED
    BY <2>1 DEF RemovedFirst
<1> QED
  BY <1>1, <1>2, <1>3, <1>4 DEF RedisCovered

\* A record is written before its due key: the writer covers for it.
LEMMA CoverageRecords ==
    ASSUME NEW d \in Delivery, RedisCovered(d), UNCHANGED <<due, zset, pop>>,
           \A b \in Actor : mirror'[b][d] = mirror[b][d],
           Indexed(d)', Reached(d)'
    PROVE  RedisCovered(d)'
<1>1. Listed(d)'
  BY DEF RedisCovered, Listed, HasMember, AtCommand, On
<1>2. RemovedFirst(d)'
  BY DEF RedisCovered, RemovedFirst
<1> QED
  BY <1>1, <1>2 DEF RedisCovered

\* A step of a worker, with the command it leaves.
LEMMA CoverageWorker ==
    ASSUME RedisInv, RedisCrashesOutsideWindows, NEW p \in Dispatcher, NEW d \in Delivery, ProcessClaim(p, d),
           Leaves(p, d, IF StepFails(p, d) THEN NoCommand ELSE WorkerCommand(p, d)),
           UNCHANGED <<zset, pop>>, \A e \in Delivery : RedisCovered(e)
    PROVE  \A e \in Delivery : RedisCovered(e)'
<1> PICK k : k = IF StepFails(p, d) THEN NoCommand ELSE WorkerCommand(p, d)
  OBVIOUS
<1>1. mirror[p][d] = NoCommand /\ mirror' = [mirror EXCEPT ![p][d] = k]
  BY DEF Leaves
<1>2. TypeInv /\ clock \in Nat /\ clock <= clock /\ p \in Actor
      /\ \A e \in Delivery : Sound(e) /\ rec[e].nextAttemptAt \in TimeOrNone
  BY CoverageTypes DEF Actor
<1>3. \A b \in Actor, e \in Delivery : mirror'[b][e] = IF b = p /\ e = d THEN k ELSE mirror[b][e]
  BY <1>1, CoverageTypes DEF PopTypes
<1>4. /\ clock' = clock /\ call' = call
      /\ \A q \in Dispatcher, e \in Delivery : ~(q = p /\ e = d) =>
            pc'[q][e] = pc[q][e] /\ plan'[q][e] = plan[q][e]
      /\ \A e \in Delivery : e # d => rec'[e] = rec[e]
      /\ \A e \in Delivery, t \in Nat : e # d => (<<t, e>> \in due' <=> <<t, e>> \in due)
  BY <1>2, ProcessFrame
<1>5. \A q \in Dispatcher, t \in Nat, e \in Delivery : On(q, t, e) /\ pop[q].pc \in BetweenKeys =>
            On(q, t, e)' /\ pop'[q].pc = pop[q].pc
  BY DEF On
<1>6. \A e \in Delivery, t \in Nat : HasMember(t, e) => HasMember(t, e)'
  BY DEF HasMember
<1>7. ASSUME NEW e \in Delivery, rec'[e] = rec[e],
             \A t \in Nat : <<t, e>> \in due' <=> <<t, e>> \in due,
             \A b \in Actor : mirror'[b][e] = mirror[b][e],
             e # d \/ pc[p][e] \notin Unindexed
      PROVE  RedisCovered(e)'
  <2>1. \A q \in Dispatcher : pc[q][e] \in Unindexed => pc'[q][e] = pc[q][e] /\ plan'[q][e] = plan[q][e]
    BY <1>4, <1>7
  <2>2. rec[e].nextAttemptAt \in TimeOrNone /\ RedisCovered(e)
    BY <1>2
  <2>3. \A q \in Dispatcher, t \in Nat : On(q, t, e) /\ pop[q].pc \in BetweenKeys =>
            On(q, t, e)' /\ pop'[q].pc = pop[q].pc
    BY <1>5
  <2>4. \A t \in Nat : HasMember(t, e) => HasMember(t, e)'
    BY <1>6
  <2> QED
    BY <1>2, <1>4, <1>7, <2>1, <2>2, <2>3, <2>4, CoverageFrame
<1>8. ASSUME NEW e \in Delivery, e # d PROVE RedisCovered(e)'
  <2>1. \A b \in Actor : mirror'[b][e] = mirror[b][e]
    BY <1>3, <1>8
  <2> QED
    BY <1>4, <1>7, <1>8, <2>1
<1> SUFFICES RedisCovered(d)'
  BY <1>8
<1>9. ASSUME rec' = rec, due' = due, k = NoCommand, pc[p][d] \notin Unindexed PROVE RedisCovered(d)'
  <2>1. \A b \in Actor : mirror'[b][d] = mirror[b][d]
    BY <1>1, <1>3, <1>9
  <2> QED
    BY <1>7, <1>9, <2>1
<1>10. CASE StepFails(p, d)
  <2>1. rec' = rec /\ due' = due /\ k = NoCommand /\ pc[p][d] \notin Unindexed
    BY <1>10 DEF StepFails, RedisCrashesOutsideWindows
  <2> QED
    BY <1>9, <2>1
<1>11. CASE ~StepFails(p, d)
  <2>0. k = WorkerCommand(p, d) /\ RedisCovered(d)
    BY <1>11
  <2>1. CASE StartAttempt(p, d) \/ FailTerminal(p, d) \/ HoldDisabled(p, d) \/ Respond(p, d)
             \/ LogAttempt(p, d) \/ NoteOutcome(p, d)
    <3>1. rec' = rec /\ due' = due /\ pc[p][d] \in {"queued", "sending", "log", "note"}
      BY <2>1 DEF StartAttempt, FailTerminal, HoldDisabled, TakeUp, Respond, LogAttempt, NoteOutcome, At
    <3>2. k = NoCommand /\ pc[p][d] \notin Unindexed
      BY <2>0, <3>1 DEF WorkerCommand, Unindexed
    <3> QED
      BY <1>9, <3>1, <3>2
  <2>2. CASE HoldUnindex(p, d) \/ UnindexLease(p, d)
    <3>1. /\ pc[p][d] \in {"hold_unindex", "unindex_lease"} /\ rec' = rec
          /\ due' = due \ {<<snap[p][d].leaseUntil, d>>}
          /\ Goto(p, d, "hold_write") \/ Goto(p, d, "write")
      BY <2>2 DEF HoldUnindex, UnindexLease, At
    <3>2. k = Zrem(<<snap[p][d].leaseUntil, d>>) /\ pc[p][d] \in BeforeWrite
      BY <2>0, <3>1 DEF WorkerCommand, BeforeWrite
    <3>3. pc'[p][d] \in Unindexed
      BY <1>2, <3>1 DEF Goto, TypeInv, TypeOK, Unindexed
    <3>4. \A b \in Actor : mirror'[b][d] = IF b = p THEN Zrem(<<snap[p][d].leaseUntil, d>>) ELSE mirror[b][d]
      BY <1>3, <3>2
    <3> QED
      BY <1>1, <1>4, <2>0, <3>1, <3>2, <3>3, <3>4, CoverageUnindexes
  <2>3. CASE UnindexNext(p, d)
    <3>1. /\ pc[p][d] = "unindex_next" /\ rec' = rec /\ due' = due \ {<<snap[p][d].nextAttemptAt, d>>}
      BY <2>3 DEF UnindexNext, At
    <3>2. k = Zrem(<<snap[p][d].nextAttemptAt, d>>) /\ pc[p][d] \in BeforeWrite
      BY <2>0, <3>1 DEF WorkerCommand, BeforeWrite
    <3>3. \A b \in Actor : mirror'[b][d] = IF b = p THEN Zrem(<<snap[p][d].nextAttemptAt, d>>) ELSE mirror[b][d]
      BY <1>3, <3>2
    <3>4. rec[d] = snap[p][d] /\ rec[d].status = "delivering" /\ Holds(p, d)
      BY <1>2, <3>2 DEF Sound, Leased, Holds
    <3>5. PICK t \in Nat : <<t, d>> \in due
      <4>1. Indexed(d)
        BY <2>0 DEF RedisCovered
      <4>2. \A q \in Dispatcher : pc[q][d] \notin Unindexed
        <5>1. \A q \in Dispatcher : Holds(q, d) => q = p
          BY <1>1, <3>4, CoverageOwner
        <5> QED
          BY <3>1, <5>1 DEF Holds, Unindexed, BeforeWrite, Written
      <4>3. \A c \in Caller : call[c][d].pc \notin CallWindow
        BY <1>2, <3>4 DEF Sound, CallsInTurn, CallWindow
      <4>4. \A q \in Dispatcher : ~AtCommand(q, {"pop_zrem", "pop_set"}, d)
        BY <1>1, <3>4, CoverageOwner
      <4> QED
        BY <3>4, <4>1, <4>2, <4>3, <4>4 DEF Indexed, NonTerminal, NoDue
    <3>6. t = rec[d].leaseUntil
      BY <1>2, <3>2, <3>5 DEF Sound, ScheduledOnce
    <3>7. clock < t
      BY <1>2, <3>2, <3>6, LeaseRuns
    <3>8. rec[d].nextAttemptAt # t
      <4>1. rec[d].nextAttemptAt <= clock
        BY <2>0, <3>4 DEF RedisCovered, Reached
      <4> QED
        BY <1>2, <3>7, <4>1 DEF TimeOrNone, NoTime
    <3>9. ~NoDue(d)'
      BY <3>1, <3>4, <3>5, <3>8 DEF NoDue
    <3> QED
      BY <1>1, <1>4, <2>0, <3>1, <3>2, <3>3, <3>9, CoverageUnindexes
  <2>4. CASE HoldWrite(p, d)
    <3>1. /\ pc[p][d] = "hold_write" /\ due' = due /\ plan' = plan
          /\ Goto(p, d, "hold_index")
          /\ rec' = [rec EXCEPT ![d] = [snap[p][d] EXCEPT
                !.status = "pending", !.nextAttemptAt = plan[p][d].next, !.leaseUntil = NoTime]]
      BY <2>4 DEF HoldWrite, At
    <3>2. k = NoCommand
      BY <2>0, <3>1 DEF WorkerCommand
    <3>3. pc'[p][d] = "hold_index"
      BY <1>2, <3>1 DEF Goto, TypeInv, TypeOK
    <3>4. rec'[d].status = "pending" /\ rec'[d].nextAttemptAt = plan[p][d].next
      BY <1>2, <3>1 DEF TypeInv, TypeOK, Record
    <3>5. Indexed(d)'
      BY <3>3 DEF Indexed, Unindexed
    <3>6. Reached(d)'
      BY <3>1, <3>3, <3>4 DEF Reached, Written
    <3>7. \A b \in Actor : mirror'[b][d] = mirror[b][d]
      BY <1>1, <1>3, <3>2
    <3> QED
      BY <2>0, <3>1, <3>5, <3>6, <3>7, CoverageRecords
  <2>5. CASE WriteOutcome(p, d)
    <3>1. /\ pc[p][d] = "write" /\ due' = due /\ plan' = plan
          /\ rec' = [rec EXCEPT ![d] = Outcome(snap[p][d], plan[p][d])]
          /\ Goto(p, d, IF plan[p][d].next # NoTime THEN "index" ELSE "note")
      BY <2>5 DEF WriteOutcome, At
    <3>2. k = NoCommand
      BY <2>0, <3>1 DEF WorkerCommand
    <3>3. plan[p][d].next # NoTime => pc'[p][d] = "index"
      BY <1>2, <3>1 DEF Goto, TypeInv, TypeOK
    <3>4. rec'[d] = Outcome(snap[p][d], plan[p][d]) /\ snap[p][d] \in Record /\ plan[p][d] \in Plan
      BY <1>2, <3>1 DEF TypeInv, TypeOK
    <3>5. /\ rec'[d].status \in {"succeeded", "pending", "failed"}
          /\ rec'[d].status = "pending" => plan[p][d].next # NoTime
      BY <3>4, OutcomeFields
    <3>6. rec'[d].nextAttemptAt = plan[p][d].next
      BY <3>4 DEF Outcome, Record
    <3>7. Indexed(d)'
      BY <3>3, <3>5 DEF Indexed, Unindexed, NonTerminal
    <3>8. Reached(d)'
      BY <3>1, <3>3, <3>5, <3>6 DEF Reached, Written
    <3>9. \A b \in Actor : mirror'[b][d] = mirror[b][d]
      BY <1>1, <1>3, <3>2
    <3> QED
      BY <2>0, <3>1, <3>7, <3>8, <3>9, CoverageRecords
  <2>6. CASE HoldIndex(p, d) \/ IndexNext(p, d)
    <3>1. pc[p][d] \in {"index", "hold_index"} /\ due' = due \cup {<<plan[p][d].next, d>>} /\ rec' = rec
      BY <2>6 DEF HoldIndex, IndexNext, At
    <3>2. k = Zadd(<<plan[p][d].next, d>>) /\ plan[p][d].next \in Nat /\ Holds(p, d)
      BY <1>2, <2>0, <3>1 DEF WorkerCommand, TypeInv, TimesPlanned, Holds, Written
    <3>3. \A b \in Actor : mirror[b][d] = NoCommand
      BY <1>1, <3>2, CoverageOwner
    <3>4. \A b \in Actor : mirror'[b][d] = IF b = p THEN Zadd(<<plan[p][d].next, d>>) ELSE mirror[b][d]
      BY <1>3, <3>2
    <3>5. \A q \in Dispatcher : pc[q][d] \in Written =>
            plan[q][d].next = plan[p][d].next \/ (pc'[q][d] = pc[q][d] /\ plan'[q][d] = plan[q][d])
      BY <1>4
    <3>6. PICK t \in Nat : t = plan[p][d].next
      BY <3>2
    <3> QED
      BY <1>2, <1>4, <2>0, <3>1, <3>3, <3>4, <3>5, <3>6, CoverageIndexes
  <2> QED
    BY <1>11, <2>1, <2>2, <2>3, <2>4, <2>5, <2>6 DEF ProcessClaim
<1> QED
  BY <1>10, <1>11

\* A step of a control-plane call, with the command it leaves.
LEMMA CoverageCall ==
    ASSUME RedisInv, RedisCrashesOutsideWindows, NEW c \in Caller, NEW d \in Delivery, d \notin Deleted,
           ControlPlane(c, d),
           Leaves(c, d, IF CallFails(c, d) THEN NoCommand ELSE CallCommand(c, d)),
           UNCHANGED <<zset, pop>>, \A e \in Delivery : RedisCovered(e)
    PROVE  \A e \in Delivery : RedisCovered(e)'
<1> PICK k : k = IF CallFails(c, d) THEN NoCommand ELSE CallCommand(c, d)
  OBVIOUS
<1>1. mirror[c][d] = NoCommand /\ mirror' = [mirror EXCEPT ![c][d] = k]
  BY DEF Leaves
<1>2. TypeInv /\ clock \in Nat /\ clock <= clock /\ c \in Actor
      /\ \A e \in Delivery : Sound(e) /\ rec[e].nextAttemptAt \in TimeOrNone
  BY CoverageTypes DEF Actor
<1>3. \A b \in Actor, e \in Delivery : mirror'[b][e] = IF b = c /\ e = d THEN k ELSE mirror[b][e]
  BY <1>1, CoverageTypes DEF PopTypes
<1>4. /\ clock' = clock /\ pc' = pc
      /\ \A e \in Delivery : e # d => rec'[e] = rec[e] /\ \A o \in Caller : call'[o][e] = call[o][e]
      /\ \A e \in Delivery, t \in Nat : e # d => (<<t, e>> \in due' <=> <<t, e>> \in due)
  BY <1>2, CallFrame
<1>5. plan' = plan /\ \A o \in Caller : o # c => call'[o][d] = call[o][d]
  BY <1>2 DEF ControlPlane, PublishBegin, PublishWrite, RetryRead, RecoverRead, ReadDeadLetter, RequeueWrite,
         CallIndex, CallFails, SetCall, jobVars, TypeInv, TypeOK
<1>6. ASSUME NEW e \in Delivery, rec'[e] = rec[e],
             \A t \in Nat : <<t, e>> \in due' <=> <<t, e>> \in due,
             \A b \in Actor : mirror'[b][e] = mirror[b][e],
             e # d \/ call[c][e].pc \notin CallWindow
      PROVE  RedisCovered(e)'
  <2>1. \A o \in Caller : call[o][e].pc \in CallWindow => call'[o][e].pc \in CallWindow
    BY <1>4, <1>5, <1>6
  <2>2. rec[e].nextAttemptAt \in TimeOrNone /\ RedisCovered(e)
    BY <1>2
  <2>3. \A q \in Dispatcher, t \in Nat : On(q, t, e) /\ pop[q].pc \in BetweenKeys =>
            On(q, t, e)' /\ pop'[q].pc = pop[q].pc
    BY DEF On
  <2>4. \A t \in Nat : HasMember(t, e) => HasMember(t, e)'
    BY DEF HasMember
  <2> QED
    BY <1>2, <1>4, <1>5, <1>6, <2>1, <2>2, <2>3, <2>4, CoverageFrame
<1>7. ASSUME NEW e \in Delivery, e # d PROVE RedisCovered(e)'
  <2>1. \A b \in Actor : mirror'[b][e] = mirror[b][e]
    BY <1>3, <1>7
  <2> QED
    BY <1>4, <1>6, <1>7, <2>1
<1> SUFFICES RedisCovered(d)'
  BY <1>7
<1>8. ASSUME rec' = rec, due' = due, k = NoCommand, call[c][d].pc \notin CallWindow PROVE RedisCovered(d)'
  <2>1. \A b \in Actor : mirror'[b][d] = mirror[b][d]
    BY <1>1, <1>3, <1>8
  <2> QED
    BY <1>6, <1>8, <2>1
<1>9. CASE CallFails(c, d)
  <2>1. rec' = rec /\ due' = due /\ k = NoCommand /\ call[c][d].pc \notin CallWindow
    BY <1>9 DEF CallFails, RedisCrashesOutsideWindows
  <2> QED
    BY <1>8, <2>1
<1>10. CASE ~CallFails(c, d)
  <2>0. k = CallCommand(c, d) /\ RedisCovered(d)
    BY <1>10
  <2>1. CASE PublishBegin(c, d) \/ RetryRead(c, d) \/ RecoverRead(c, d)
    <3>1. rec' = rec /\ due' = due /\ call[c][d].pc = "idle"
      BY <2>1 DEF PublishBegin, RetryRead, RecoverRead, ReadDeadLetter, CallAt
    <3>2. k = NoCommand /\ call[c][d].pc \notin CallWindow
      BY <2>0, <3>1 DEF CallCommand, CallAt, CallWindow
    <3> QED
      BY <1>8, <3>1, <3>2
  <2>2. CASE PublishWrite(c, d) \/ RequeueWrite(c, d)
    <3>1. due' = due /\ call[c][d].pc \in {"publish", "retry", "recover"}
      BY <2>2 DEF PublishWrite, RequeueWrite, CallAt
    <3>2. k = NoCommand
      BY <2>0, <3>1 DEF CallCommand, CallAt
    <3>3. call'[c][d].pc = "call_index"
      BY <1>2, <2>2 DEF PublishWrite, RequeueWrite, SetCall, TypeInv, TypeOK
    <3>4. rec'[d].status = "pending" /\ rec'[d].nextAttemptAt <= clock
      <4>1. CASE PublishWrite(c, d)
        <5>1. rec'[d].status = "pending" /\ rec'[d].nextAttemptAt = call[c][d].at
          BY <1>2, <4>1 DEF PublishWrite, TypeInv, TypeOK, AbsentRecord
        <5>2. PICK nowMs \in call[c][d].at .. clock : TRUE
          BY <4>1 DEF PublishWrite
        <5>3. call[c][d].at \in Nat
          BY <1>2, <4>1 DEF PublishWrite, CallAt, TypeInv, TimesPlanned
        <5>4. call[c][d].at <= clock
          BY <1>2, <5>2, <5>3
        <5> QED
          BY <5>1, <5>4
      <4>2. CASE RequeueWrite(c, d)
        <5>1. call[c][d].snap \in Record
          BY <1>2 DEF TypeInv, TypeOK, Call
        <5>2. rec'[d].status = "pending" /\ rec'[d].nextAttemptAt = clock
          BY <1>2, <4>2, <5>1 DEF RequeueWrite, TypeInv, TypeOK, Record
        <5> QED
          BY <1>2, <5>2
      <4> QED
        BY <2>2, <4>1, <4>2
    <3>5. Indexed(d)'
      BY <3>3 DEF Indexed, CallWindow
    <3>6. Reached(d)'
      BY <1>4, <3>4 DEF Reached
    <3>7. \A b \in Actor : mirror'[b][d] = mirror[b][d]
      BY <1>1, <1>3, <3>2
    <3> QED
      BY <2>0, <3>1, <3>5, <3>6, <3>7, CoverageRecords
  <2>3. CASE CallIndex(c, d)
    <3>1. due' = due \cup {<<call[c][d].at, d>>} /\ call[c][d].pc = "call_index" /\ rec' = rec
      BY <2>3 DEF CallIndex, CallAt
    <3>2. k = Zadd(<<call[c][d].at, d>>) /\ call[c][d].at \in Nat
      BY <1>2, <2>0, <3>1 DEF CallCommand, CallAt, TypeInv, TimesPlanned
    <3>3. rec[d].status = "pending" /\ NoDue(d)
      BY <1>2, <3>1 DEF NoDue, Sound, CallsInTurn, ScheduledOnce
    <3>4. \A b \in Actor : mirror[b][d] = NoCommand
      BY <3>3, UnscheduledIsBare DEF Bare
    <3>5. \A b \in Actor : mirror'[b][d] = IF b = c THEN Zadd(<<call[c][d].at, d>>) ELSE mirror[b][d]
      BY <1>3, <3>2
    <3> QED
      BY <1>2, <1>4, <1>5, <2>0, <3>1, <3>2, <3>4, <3>5, CoverageIndexes
  <2> QED
    BY <1>10, <2>1, <2>2, <2>3 DEF ControlPlane
<1> QED
  BY <1>9, <1>10

LEMMA CoverageStep ==
    ASSUME RedisInv, RedisCrashesOutsideWindows, \A d \in Delivery : RedisCovered(d), [RedisNext]_redisVars
    PROVE  \A d \in Delivery : RedisCovered(d)'
<1>1. ASSUME NEW p \in Dispatcher, ClaimDue(p) PROVE \A d \in Delivery : RedisCovered(d)'
  BY <1>1, CoverageScript, CoverageReads, CoverageDrop, CoverageWrite, CoverageDel, CoverageZrem, CoverageSet,
     CoverageZadd DEF ClaimDue
<1>2. ASSUME RedisTick, UNCHANGED <<zset, mirror, pop>> PROVE \A d \in Delivery : RedisCovered(d)'
  BY <1>2, CoverageTicks
<1>3. ASSUME NEW p \in Dispatcher, Crash(p), UNCHANGED <<zset, mirror, pop>>
      PROVE  \A d \in Delivery : RedisCovered(d)'
  BY <1>3, CoverageCrash
<1>4. ASSUME NEW p \in Dispatcher, NEW d \in Delivery, ProcessClaim(p, d),
             Leaves(p, d, IF StepFails(p, d) THEN NoCommand ELSE WorkerCommand(p, d)),
             UNCHANGED <<zset, pop>>
      PROVE  \A e \in Delivery : RedisCovered(e)'
  BY <1>4, CoverageWorker
<1>5. ASSUME NEW c \in Caller, NEW d \in Delivery \ Deleted, ControlPlane(c, d),
             Leaves(c, d, IF CallFails(c, d) THEN NoCommand ELSE CallCommand(c, d)),
             UNCHANGED <<zset, pop>>
      PROVE  \A e \in Delivery : RedisCovered(e)'
  BY <1>5, CoverageCall
<1>6. ASSUME NEW e \in Endpoint, NEW state \in {"enabled", "disabled", "deleted"},
             SetEndpoint(e, state), UNCHANGED <<zset, mirror, pop>>
      PROVE  \A d \in Delivery : RedisCovered(d)'
  BY <1>6, CoverageEndpoint
<1>7. ASSUME NEW a \in Actor, NEW e \in Delivery, MirrorSent(a, e) PROVE \A d \in Delivery : RedisCovered(d)'
  BY <1>7, CoverageSent
<1>8. ASSUME NEW p \in Dispatcher, NEW e \in Delivery, MirrorLost(p, e)
      PROVE  \A d \in Delivery : RedisCovered(d)'
  BY <1>8, CoverageLost
<1>9. CASE UNCHANGED redisVars
  <2>1. UNCHANGED <<clock, rec, due, call, zset, mirror, pop, pc, plan>> /\ clock \in Nat
    BY <1>9, CoverageTypes DEF redisVars, vars, jobVars
  <2>2. clock' \in Nat /\ clock <= clock'
    BY <2>1
  <2> QED
    BY <2>1, <2>2, CoverageStill
<1> QED
  BY <1>1, <1>2, <1>3, <1>4, <1>5, <1>6, <1>7, <1>8, <1>9 DEF RedisNext

LEMMA CoverageHolds ==
    ASSUME WorkersKeepUp, RedisCrashesOutsideWindows
    PROVE  RedisSpec /\ []ReplaysApart => [](RedisInv /\ \A d \in Delivery : RedisCovered(d))
<1>1. RedisInit => \A d \in Delivery : RedisCovered(d)
  BY CoverageStart
<1>2. RedisInv /\ (\A d \in Delivery : RedisCovered(d)) /\ [RedisNext]_redisVars
        => (\A d \in Delivery : RedisCovered(d))'
  BY CoverageStep
<1> QED
  BY <1>1, <1>2, RedisHolds, PTL DEF RedisSpec

LEMMA CoveredHasMember == RedisInv /\ (\A d \in Delivery : RedisCovered(d)) => MemberCoverage
<1> SUFFICES ASSUME RedisInv, NEW d \in Delivery, RedisCovered(d), NonTerminal(rec[d]), ~AtWork(d)
             PROVE  \E m \in zset : m.key \in due /\ m.key[2] = d
  BY DEF MemberCoverage
<1>1. \A p \in Dispatcher : ~AtCommand(p, {"pop_zrem", "pop_set"}, d) /\ ~AtCommand(p, {"pop_zadd"}, d)
  BY DEF AtCommand, On, AtWork, Popped
<1>2. PICK t \in Nat : <<t, d>> \in due
  BY <1>1 DEF RedisCovered, Indexed, NoDue, AtWork, InHand, Unindexed, JobWindow
<1>3. \A a \in Actor : mirror[a][d] # Zadd(<<t, d>>)
  BY CommandsDiffer DEF AtWork
<1>4. HasMember(t, d)
  BY <1>1, <1>2, <1>3 DEF RedisCovered, Listed
<1> QED
  BY <1>2, <1>4 DEF HasMember

LEMMA CoveredAgrees == RedisInv /\ (\A d \in Delivery : RedisCovered(d)) => MirrorAgrees
<1> SUFFICES ASSUME RedisInv, NEW d \in Delivery \ Deleted, RedisCovered(d), ~AtWork(d),
                    \A p \in Dispatcher : Popping(p, "off")
             PROVE  /\ {k \in Members : k[2] = d} = DueOf(d)
                    /\ \A m \in zset : m.key[2] = d => m.score >= m.key[1]
  BY DEF MirrorAgrees
<1>1. \A p \in Dispatcher : ~AtCommand(p, {"pop_zrem", "pop_set"}, d) /\ ~AtCommand(p, {"pop_zadd"}, d)
  BY DEF AtCommand, Popping
<1>2. ~Lost(d)
  <2> SUFFICES ASSUME Lost(d) PROVE FALSE
    OBVIOUS
  <2> QED
    BY <1>1 DEF Lost, NonTerminal, RedisCovered, Indexed, AtWork, InHand, Unindexed, JobWindow
<1>3. \A m \in zset, t \in Nat : m.key = <<t, d>> => <<t, d>> \in due
  <2>1. \A p \in Dispatcher, t \in Nat : mirror[p][d] # Zrem(<<t, d>>)
    BY CommandsDiffer DEF AtWork, Actor
  <2>2. \A p \in Dispatcher, t \in Nat : ~On(p, t, d)
    BY DEF On, Popping
  <2> QED
    BY <1>2, <2>1, <2>2, CoverageTypes DEF RedisSound, MembersSound
<1>4. \A t \in Nat : <<t, d>> \in due => HasMember(t, d)
  BY <1>1, CommandsDiffer DEF RedisCovered, Listed, AtWork
<1>5. \A k : k \in {l \in Members : l[2] = d} <=> k \in DueOf(d)
  <2>1. ASSUME NEW k, k \in Members, k[2] = d PROVE k \in DueOf(d)
    <3>1. PICK m \in zset : m.key = k
      BY <2>1 DEF Members
    <3>2. PICK t \in Nat : k = <<t, d>>
      BY <2>1, <3>1, CoverageTypes DEF ZsetSound, Key
    <3> QED
      BY <1>3, <2>1, <3>1, <3>2 DEF DueOf
  <2>2. ASSUME NEW k \in DueOf(d) PROVE k \in Members /\ k[2] = d
    <3>1. k \in due /\ k[2] = d
      BY DEF DueOf
    <3>2. PICK t \in Nat : k = <<t, d>>
      BY <3>1, CoverageTypes DEF TypeInv, TypeOK
    <3> QED
      BY <1>4, <3>1, <3>2 DEF HasMember, Members
  <2> QED
    BY <2>1, <2>2
<1>6. \A m \in zset : m.key[2] = d => m.score >= m.key[1]
  <2> SUFFICES ASSUME NEW m \in zset PROVE m.score >= m.key[1]
    OBVIOUS
  <2>1. m.key[1] \in Nat /\ m.score \in Nat /\ m.key[1] <= m.score
    BY CoverageTypes DEF ZsetSound, Key
  <2> QED
    BY <2>1
<1> QED
  BY <1>5, <1>6

\* The claim finds deliveries only through the sorted set (claimDue, src/storage/redis.ts). Although
\* a due key and its member are written by two commands, and the claim moves them by four more, a
\* delivery that is not terminal keeps a member with a due key behind it, whatever fails before the
\* first removal of a due key, or loses the connection at the one place where a second key is left.
THEOREM NothingStrandedOnRedis ==
    ASSUME WorkersKeepUp, RedisCrashesOutsideWindows
    PROVE  RedisSpec /\ []ReplaysApart => []MemberCoverage
BY CoverageHolds, CoveredHasMember, PTL

\* setItem and removeItem keep the sorted set and the due keys consistent (src/storage/redis.ts): while
\* nobody moves a delivery the two hold the same entries of it, and no member surfaces early.
THEOREM MirrorIsConsistent ==
    ASSUME WorkersKeepUp, RedisCrashesOutsideWindows
    PROVE  RedisSpec /\ []ReplaysApart => []MirrorAgrees
BY CoverageHolds, CoveredAgrees, PTL


------------------------------------------------------------------------------
(* The attempt log and the replays once more. A claim of several calls counts   *)
(* nothing: of a record it changes the status and the lease.                     *)

\* The steps of a claim move one dispatcher, and it has nothing in the log.
LEMMA LogHandsOut ==
    ASSUME TypeInv, LogInv, NEW p \in Dispatcher, UNCHANGED <<attempts, requeues, plan>>,
           \A d \in Delivery : rec'[d] = rec[d]
                \/ /\ rec'[d].attemptCount = rec[d].attemptCount
                   /\ rec'[d].pendingTrigger = rec[d].pendingTrigger
                   /\ rec'[d].status = "delivering" /\ rec[d].status \in {"pending", "delivering"},
           \A d \in Delivery : pc'[p][d] \in {"idle", "queued"},
           \A q \in Dispatcher : q # p => pc'[q] = pc[q] /\ snap'[q] = snap[q]
    PROVE  LogInv'
<1>1. \A d \in Delivery :
        /\ rec'[d].attemptCount = rec[d].attemptCount
        /\ rec'[d].pendingTrigger = rec[d].pendingTrigger
        /\ rec'[d].status = rec[d].status \/ (rec'[d].status = "delivering" /\ rec[d].status = "pending")
  OBVIOUS
<1>2. \A q \in Dispatcher, d \in Delivery : pc'[q][d] \notin {"idle", "queued"} =>
        pc'[q][d] = pc[q][d] /\ snap'[q][d] = snap[q][d] /\ plan'[q][d] = plan[q][d]
  OBVIOUS
<1> QED
  BY <1>1, <1>2, LogKeeps

\* What a step of a scan leaves alone.
LEMMA ScanMovesOne ==
    ASSUME TypeInv, ScanInv, NEW p \in Dispatcher, KvClaim(p)
    PROVE  /\ UNCHANGED <<attempts, requeues, plan>>
           /\ \A d \in Delivery : pc'[p][d] \in {"idle", "queued"}
           /\ \A q \in Dispatcher : q # p => pc'[q] = pc[q] /\ snap'[q] = snap[q]
<1>1. UNCHANGED <<attempts, requeues, plan>>
  BY DEF KvClaim, ScanKeys, ScanEntry, ScanRecord, ScanSweep, ScanClaim, ScanUnindex, ScanIndex, ScanFails,
         ScanOnly
<1>2. \A d \in Delivery : pc[p][d] = "idle"
  <2>1. CASE scan[p].pc = "off"
    BY <2>1, ScanAssumption DEF KvClaim, ScanKeys, ScanEntry, ScanRecord, ScanSweep, ScanClaim, ScanUnindex,
           ScanIndex, ScanFails, Scanning
  <2>2. CASE scan[p].pc # "off"
    BY <2>2 DEF ScanInv, ScanShape
  <2> QED
    BY <2>1, <2>2
<1>3. pc' = pc \/ \E D : pc' = [pc EXCEPT ![p] = [d \in Delivery |-> IF d \in D THEN "queued" ELSE "idle"]]
  BY DEF KvClaim, ScanKeys, ScanEntry, ScanRecord, ScanSweep, ScanClaim, ScanUnindex, ScanIndex, ScanFails,
         Continue
<1>4. snap' = snap \/ \E s : snap' = [snap EXCEPT ![p] = s]
  BY DEF KvClaim, ScanKeys, ScanEntry, ScanRecord, ScanSweep, ScanClaim, ScanUnindex, ScanIndex, ScanFails
<1>5. /\ pc \in [Dispatcher -> [Delivery -> JobPc]]
      /\ snap \in [Dispatcher -> [Delivery -> Record]]
  BY DEF TypeInv, TypeOK
<1>6. \A d \in Delivery : pc'[p][d] \in {"idle", "queued"}
  BY <1>2, <1>3, <1>5
<1>7. \A q \in Dispatcher : q # p => pc'[q] = pc[q] /\ snap'[q] = snap[q]
  BY <1>3, <1>4, <1>5
<1> QED
  BY <1>1, <1>6, <1>7

LEMMA LogScan ==
    ASSUME ExclInv, LogInv, HasCompareAndSwap, NEW p \in Dispatcher, KvClaim(p)
    PROVE  LogInv'
<1>1. TypeInv /\ ScanInv
  BY DEF ExclInv
<1>2. \A d \in Delivery : rec'[d] = rec[d]
        \/ /\ rec'[d].attemptCount = rec[d].attemptCount
           /\ rec'[d].pendingTrigger = rec[d].pendingTrigger
           /\ rec'[d].status = "delivering" /\ rec[d].status \in {"pending", "delivering"}
  <2>1. CASE ScanClaim(p) /\ Wins(p)
    <3>1. PICK d \in Delivery : d = Visited(p)
      BY <1>1, <2>1 DEF ScanClaim, Scanning, ScanInv, ScanShape, Visited
    <3>2. /\ rec[d] = scan[p].seen /\ rec[d].status \in {"pending", "delivering"}
          /\ rec' = [rec EXCEPT ![d] = Won(p)]
      BY <2>1, <3>1, ExclWins
    <3>3. /\ Won(p).status = "delivering" /\ Won(p).attemptCount = rec[d].attemptCount
          /\ Won(p).pendingTrigger = rec[d].pendingTrigger
      <4>1. scan[p].pc # "off" /\ scan[p].seen \in Record
        BY <1>1, <2>1 DEF ScanClaim, Scanning, ScanInv, AnyScan
      <4>2. Won(p).pendingTrigger = scan[p].seen.pendingTrigger
        BY <4>1 DEF Won, Record
      <4> QED
        BY <1>1, <3>2, <4>1, <4>2, WonFields
    <3>4. rec \in [Delivery -> Record]
      BY <1>1 DEF TypeInv, TypeOK
    <3> QED
      BY <3>2, <3>3, <3>4
  <2>2. CASE ~(ScanClaim(p) /\ Wins(p))
    <3>1. rec' = rec
      BY <2>2 DEF KvClaim, ScanKeys, ScanEntry, ScanRecord, ScanSweep, ScanClaim, ScanUnindex, ScanIndex,
             ScanFails, ScanOnly
    <3> QED
      BY <3>1
  <2> QED
    BY <2>1, <2>2
<1> QED
  BY <1>1, <1>2, ScanMovesOne, LogHandsOut

LEMMA KvLogStep ==
    ASSUME HasCompareAndSwap
    PROVE  ExclInv /\ LogInv /\ [KvNext]_kvVars => LogInv'
<1> SUFFICES ASSUME ExclInv, LogInv, [KvNext]_kvVars PROVE LogInv'
  OBVIOUS
<1>1. ASSUME NEW d \in Delivery PROVE TypeInv /\ Leased(d) /\ AttemptsApart(d) /\ ReadsHold(d)
  BY DEF ExclInv, KvSound, KvOwnedOnce, KvOwns, AttemptsApart, ReadsApart
<1>2. ASSUME UNCHANGED <<rec, attempts, jobVars, requeues>> PROVE LogInv'
  BY <1>2, LogKeeps DEF jobVars
<1>3. CASE Tick
  BY <1>2, <1>3 DEF Tick
<1>4. ASSUME NEW p \in Dispatcher, KvClaim(p) PROVE LogInv'
  BY <1>4, LogScan
<1>5. ASSUME NEW p \in Dispatcher, Crash(p) PROVE LogInv'
  BY <1>5, LogClaim DEF ExclInv
<1>6. ASSUME NEW p \in Dispatcher, NEW d \in Delivery, ProcessClaim(p, d) PROVE LogInv'
  BY <1>1, <1>6, LogProcess
<1>7. ASSUME NEW c \in Caller, NEW d \in Delivery, ControlPlane(c, d) PROVE LogInv'
  BY <1>1, <1>7, LogCall
<1>8. ASSUME NEW e \in Endpoint, NEW state \in {"enabled", "disabled", "deleted"}, SetEndpoint(e, state)
      PROVE  LogInv'
  BY <1>2, <1>8 DEF SetEndpoint
<1>9. CASE UNCHANGED kvVars
  BY <1>2, <1>9 DEF kvVars, vars, jobVars
<1> QED
  BY <1>3, <1>4, <1>5, <1>6, <1>7, <1>8, <1>9 DEF KvNext, KvTick

LEMMA KvLogHolds ==
    ASSUME WorkersKeepUp, HasCompareAndSwap
    PROVE  KvSpec /\ []ReplaysApart => [](TypeInv /\ LogInv)
<1>1. KvInit => LogInv
  BY LogInit DEF KvInit
<1>2. ExclInv /\ LogInv /\ [KvNext]_kvVars => LogInv'
  BY KvLogStep
<1>3. ExclInv => TypeInv
  BY DEF ExclInv
<1> QED
  BY <1>1, <1>2, <1>3, ExclHolds, PTL DEF KvSpec

\* On a storage without a native queue, too, no attempt is lost from the log, counted twice or
\* left out: what a worker logs is numbered by the record its scan has swapped in, and no second
\* scan takes the delivery before that record is replaced.
THEOREM LogIsCompleteOnKv ==
    ASSUME WorkersKeepUp, HasCompareAndSwap
    PROVE  KvSpec /\ []ReplaysApart => []AttemptLogComplete
BY KvLogHolds, CompleteLog, PTL

\* The hint of a replay survives the swap of a claim, and is used up by one attempt.
THEOREM ReplaysAreAnsweredOnKv ==
    ASSUME WorkersKeepUp, HasCompareAndSwap
    PROVE  KvSpec /\ []ReplaysApart => []ManualAccounting
BY KvLogHolds, AccountedReplays, PTL

\* What a step of a claim on Redis leaves alone.
LEMMA PopMovesOne ==
    ASSUME RedisInv, NEW p \in Dispatcher, ClaimDue(p)
    PROVE  /\ UNCHANGED <<attempts, requeues, plan>>
           /\ \A d \in Delivery : pc'[p][d] \in {"idle", "queued"}
           /\ \A q \in Dispatcher : q # p => pc'[q] = pc[q] /\ snap'[q] = snap[q]
<1>1. UNCHANGED <<attempts, requeues, plan>>
  BY DEF ClaimDue, RunScript, PopEntry, PopRecord, PopWrite, PopDel, PopZrem, SweepZrem, PopSet, PopZadd,
         PopFails, PopOnly
<1>2. \A d \in Delivery : pc[p][d] = "idle"
  <2>1. CASE pop[p].pc = "off"
    BY <2>1, MirrorAssumption DEF ClaimDue, RunScript, PopEntry, PopRecord, PopWrite, PopDel, PopZrem,
           SweepZrem, PopSet, PopZadd, PopFails, Popping
  <2>2. CASE pop[p].pc # "off"
    BY <2>2, CoverageGoes
  <2> QED
    BY <2>1, <2>2
<1>3. pc' = pc \/ \E D : pc' = [pc EXCEPT ![p] = [d \in Delivery |-> IF d \in D THEN "queued" ELSE "idle"]]
  BY DEF ClaimDue, RunScript, PopEntry, PopRecord, PopWrite, PopDel, PopZrem, SweepZrem, PopSet, PopZadd,
         PopFails, PopContinue
<1>4. snap' = snap \/ \E s : snap' = [snap EXCEPT ![p] = s]
  BY DEF ClaimDue, RunScript, PopEntry, PopRecord, PopWrite, PopDel, PopZrem, SweepZrem, PopSet, PopZadd,
         PopFails
<1>5. /\ pc \in [Dispatcher -> [Delivery -> JobPc]]
      /\ snap \in [Dispatcher -> [Delivery -> Record]]
  BY CoverageTypes DEF TypeInv, TypeOK
<1>6. \A d \in Delivery : pc'[p][d] \in {"idle", "queued"}
  BY <1>2, <1>3, <1>5
<1>7. \A q \in Dispatcher : q # p => pc'[q] = pc[q] /\ snap'[q] = snap[q]
  BY <1>3, <1>4, <1>5
<1> QED
  BY <1>1, <1>6, <1>7

\* The record that a claim writes without comparing it is the one it read, but for its status
\* and its lease: the due key it found has kept everybody else away.
LEMMA PopWrites ==
    ASSUME RedisInv, NEW p \in Dispatcher, PopWrite(p)
    PROVE  \E d \in Delivery, r \in Record :
            /\ rec' = [rec EXCEPT ![d] = r] /\ rec[d].status \in {"pending", "delivering"}
            /\ r.status = "delivering" /\ r.attemptCount = rec[d].attemptCount
            /\ r.pendingTrigger = rec[d].pendingTrigger
<1>1. pop[p].pc = "pop_write"
  BY DEF PopWrite, Popping
<1>2. PICK t \in Nat, d \in Delivery :
            Popped(p) = d /\ On(p, t, d) /\ Step(p, t, d) /\ ScheduledOnce(d) /\ pop[p].now = clock
  BY <1>1, CoverageAt
<1>3. rec[d] = pop[p].seen /\ NonTerminal(rec[d])
  BY <1>1, <1>2 DEF Step, ScheduledOnce
<1>4. rec[d] \in Record /\ clock + leaseMs \in Nat
  BY CoverageTypes, LeaseIsNat DEF TypeInv, TypeOK
<1>5. PICK r : r = [rec[d] EXCEPT !.status = "delivering", !.leaseUntil = clock + leaseMs]
  OBVIOUS
<1>6. r \in Record
  BY <1>4, <1>5, ClaimedType
<1>7. rec' = [rec EXCEPT ![d] = r]
  BY <1>2, <1>3, <1>5 DEF PopWrite
<1>8. /\ r.status = "delivering" /\ r.attemptCount = rec[d].attemptCount
      /\ r.pendingTrigger = rec[d].pendingTrigger
  BY <1>4, <1>5 DEF Record
<1> QED
  BY <1>3, <1>6, <1>7, <1>8 DEF NonTerminal

LEMMA PopKeepsRecords ==
    ASSUME NEW p \in Dispatcher, ClaimDue(p), ~PopWrite(p)
    PROVE  rec' = rec
BY DEF ClaimDue, RunScript, PopEntry, PopRecord, PopDel, PopZrem, SweepZrem, PopSet, PopZadd, PopFails

LEMMA LogPops ==
    ASSUME RedisInv, LogInv, NEW p \in Dispatcher, ClaimDue(p)
    PROVE  LogInv'
<1>1. TypeInv /\ rec \in [Delivery -> Record]
  BY CoverageTypes DEF TypeInv, TypeOK
<1>2. \A d \in Delivery : rec'[d] = rec[d]
        \/ /\ rec'[d].attemptCount = rec[d].attemptCount
           /\ rec'[d].pendingTrigger = rec[d].pendingTrigger
           /\ rec'[d].status = "delivering" /\ rec[d].status \in {"pending", "delivering"}
  <2>1. CASE PopWrite(p)
    BY <1>1, <2>1, PopWrites
  <2>2. CASE ~PopWrite(p)
    BY <2>2, PopKeepsRecords
  <2> QED
    BY <2>1, <2>2
<1> QED
  BY <1>1, <1>2, PopMovesOne, LogHandsOut

\* A worker that loses its connection between two commands drops its claim.
LEMMA LogLoses ==
    ASSUME RedisInv, LogInv, NEW p \in Dispatcher, NEW d \in Delivery, MirrorLost(p, d)
    PROVE  LogInv'
<1>1. UNCHANGED <<rec, attempts, requeues>> /\ Finish(p, d)
  BY DEF MirrorLost
<1>2. /\ pc \in [Dispatcher -> [Delivery -> JobPc]]
      /\ snap \in [Dispatcher -> [Delivery -> Record]]
      /\ plan \in [Dispatcher -> [Delivery -> Plan]]
  BY CoverageTypes DEF TypeInv, TypeOK
<1>3. \A q \in Dispatcher, e \in Delivery : pc'[q][e] \notin {"idle", "queued"} =>
        pc'[q][e] = pc[q][e] /\ snap'[q][e] = snap[q][e] /\ plan'[q][e] = plan[q][e]
  BY <1>1, <1>2 DEF Finish, Goto
<1> QED
  BY <1>1, <1>3, LogKeeps

LEMMA RedisLogStep == RedisInv /\ LogInv /\ [RedisNext]_redisVars => LogInv'
<1> SUFFICES ASSUME RedisInv, LogInv, [RedisNext]_redisVars PROVE LogInv'
  OBVIOUS
<1>0. LeaseInv
  BY DEF RedisInv
<1>1. ASSUME UNCHANGED <<rec, attempts, jobVars, requeues>> PROVE LogInv'
  BY <1>1, LogKeeps DEF jobVars
<1>2. CASE Tick
  BY <1>1, <1>2 DEF Tick
<1>3. ASSUME NEW p \in Dispatcher, ClaimDue(p) PROVE LogInv'
  BY <1>3, LogPops
<1>4. ASSUME NEW p \in Dispatcher, Crash(p) PROVE LogInv'
  BY <1>0, <1>4, LogClaim DEF LeaseInv
<1>5. ASSUME NEW p \in Dispatcher, NEW d \in Delivery, ProcessClaim(p, d) PROVE LogInv'
  BY <1>0, <1>5, LogNeeds, LogProcess
<1>6. ASSUME NEW c \in Caller, NEW d \in Delivery, ControlPlane(c, d) PROVE LogInv'
  BY <1>0, <1>6, LogNeeds, LogCall
<1>7. ASSUME NEW e \in Endpoint, NEW state \in {"enabled", "disabled", "deleted"}, SetEndpoint(e, state)
      PROVE  LogInv'
  BY <1>1, <1>7 DEF SetEndpoint
<1>8. ASSUME NEW a \in Actor, NEW d \in Delivery, MirrorSent(a, d) PROVE LogInv'
  BY <1>1, <1>8 DEF MirrorSent, vars, jobVars
<1>9. ASSUME NEW p \in Dispatcher, NEW d \in Delivery, MirrorLost(p, d) PROVE LogInv'
  BY <1>9, LogLoses
<1>10. CASE UNCHANGED redisVars
  BY <1>1, <1>10 DEF redisVars, vars, jobVars
<1> QED
  BY <1>2, <1>3, <1>4, <1>5, <1>6, <1>7, <1>8, <1>9, <1>10 DEF RedisNext, RedisTick

LEMMA RedisLogHolds ==
    ASSUME WorkersKeepUp
    PROVE  RedisSpec /\ []ReplaysApart => [](TypeInv /\ LogInv)
<1>1. RedisInit => LogInv
  BY LogInit DEF RedisInit
<1>2. RedisInv /\ LogInv /\ [RedisNext]_redisVars => LogInv'
  BY RedisLogStep
<1>3. RedisInv => TypeInv
  BY DEF RedisInv, LeaseInv
<1> QED
  BY <1>1, <1>2, <1>3, RedisHolds, PTL DEF RedisSpec

\* On Redis, too, the log has one attempt per number and none is missing, wherever a connection
\* breaks: a claim that died is taken over with the count it had, and the attempt that was logged
\* and not counted is overwritten.
THEOREM LogIsCompleteOnRedis ==
    ASSUME WorkersKeepUp
    PROVE  RedisSpec /\ []ReplaysApart => []AttemptLogComplete
BY RedisLogHolds, CompleteLog, PTL

\* The hint of a replay survives the claim's blind write of the record, and is used up by one
\* attempt.
THEOREM ReplaysAreAnsweredOnRedis ==
    ASSUME WorkersKeepUp
    PROVE  RedisSpec /\ []ReplaysApart => []ManualAccounting
BY RedisLogHolds, AccountedReplays, PTL

------------------------------------------------------------------------------
(* And the lifecycle: of the commands of a claim only the write of the record   *)
(* is an arrow.                                                                  *)

LEMMA PopSeen ==
    ASSUME RedisInv, NEW p \in Dispatcher, PopWrite(p)
    PROVE  Lifecycle!Claim
<1>1. PICK d \in Delivery, r \in Record :
            /\ rec' = [rec EXCEPT ![d] = r] /\ rec[d].status \in {"pending", "delivering"}
            /\ r.status = "delivering" /\ r.attemptCount = rec[d].attemptCount
            /\ r.pendingTrigger = rec[d].pendingTrigger
  BY PopWrites
<1>2. /\ CountSeen' = CountSeen /\ StatusSeen[d] = rec[d].status
      /\ StatusSeen' = [StatusSeen EXCEPT ![d] = "delivering"]
  <2>1. TypeInv
    BY DEF RedisInv, LeaseInv
  <2>2. /\ StatusSeen[d] = rec[d].status /\ StatusSeen' = [StatusSeen EXCEPT ![d] = r.status]
        /\ r.attemptCount = rec[d].attemptCount => CountSeen' = CountSeen
    <3>1. rec' = [rec EXCEPT ![d] = r]
      BY <1>1
    <3> QED
      BY <2>1, <3>1, WriteSeen
  <2>3. r.status = "delivering"
    BY <1>1
  <2> QED
    BY <1>1, <2>2, <2>3
<1> DEFINE taken == {e \in {d} : StatusSeen[e] = "pending"}
<1>3. StatusSeen' = [e \in Delivery |-> IF e \in taken THEN "delivering" ELSE StatusSeen[e]]
  BY <1>1, <1>2 DEF StatusSeen
<1>4. taken \in SUBSET {e \in Delivery : StatusSeen[e] = "pending"}
  OBVIOUS
<1> HIDE DEF taken
<1> QED
  BY <1>2, <1>3, <1>4 DEF Lifecycle!Claim, StatusSeen, CountSeen

LEMMA RedisStepSeen ==
    RedisInv /\ LogInv /\ [RedisNext]_redisVars => [Lifecycle!Next]_(Lifecycle!lifecycleVars)
<1> SUFFICES ASSUME RedisInv, LogInv, [RedisNext]_redisVars
             PROVE  Lifecycle!Next \/ (StatusSeen' = StatusSeen /\ CountSeen' = CountSeen)
  BY DEF Lifecycle!lifecycleVars, StatusSeen, CountSeen
<1>0. LeaseInv
  BY DEF RedisInv
<1>1. CASE rec' = rec
  BY <1>1, StutterSeen
<1>2. ASSUME NEW p \in Dispatcher, ClaimDue(p)
      PROVE  Lifecycle!Next \/ (StatusSeen' = StatusSeen /\ CountSeen' = CountSeen)
  BY <1>1, <1>2, PopSeen, PopKeepsRecords DEF Lifecycle!Next
<1>3. ASSUME NEW p \in Dispatcher, NEW d \in Delivery, ProcessClaim(p, d)
      PROVE  Lifecycle!Next \/ (StatusSeen' = StatusSeen /\ CountSeen' = CountSeen)
  BY <1>0, <1>3, LogNeeds, ProcessSeen
<1>4. ASSUME NEW c \in Caller, NEW d \in Delivery, ControlPlane(c, d)
      PROVE  Lifecycle!Next \/ (StatusSeen' = StatusSeen /\ CountSeen' = CountSeen)
  BY <1>0, <1>4, LogNeeds, CallSeen
<1> QED
  BY <1>1, <1>2, <1>3, <1>4 DEF RedisNext, RedisTick, Tick, Crash, SetEndpoint, MirrorSent, MirrorLost,
     redisVars, vars

\* On Redis a delivery moves along the arrows of the lifecycle, and each attempt is counted once,
\* although the claim writes the record blindly and its keys and members one by one, and although
\* a connection may break between any two of these commands.
THEOREM RedisQueueImplementsLifecycle ==
    ASSUME WorkersKeepUp
    PROVE  RedisSpec /\ []ReplaysApart => ImplementsLifecycle
<1>1. RedisInit => Lifecycle!Init
  BY InitSeen DEF RedisInit
<1>2. RedisInv /\ LogInv /\ [RedisNext]_redisVars => [Lifecycle!Next]_(Lifecycle!lifecycleVars)
  BY RedisStepSeen
<1> QED
  BY <1>1, <1>2, RedisHolds, RedisLogHolds, PTL DEF RedisSpec, ImplementsLifecycle, Lifecycle!Spec
==============================================================================
