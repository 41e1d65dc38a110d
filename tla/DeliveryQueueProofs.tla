------------------------- MODULE DeliveryQueueProofs -------------------------
(***************************************************************************)
(* Theorems about DeliveryQueue, for every number of deliveries,           *)
(* dispatchers and callers, and every schedule, lease, timeout, batch size *)
(* and concurrency.  The types and the coverage hold of prompt workers and *)
(* late ones; what rests on the lease assumes WorkersKeepUp.               *)
(***************************************************************************)
EXTENDS DeliveryQueue, FiniteSetTheorems, TLAPS

------------------------------------------------------------------------------
(* Type correctness. TypeOK is not inductive: the steps that write a due    *)
(* entry need to know that the time they carry is one.                      *)

TimesPlanned ==
    /\ \A p \in Dispatcher, d \in Delivery :
        pc[p][d] \in {"index", "hold_unindex", "hold_write", "hold_index"}
            => plan[p][d].next \in Nat
    /\ \A c \in Caller, d \in Delivery :
        call[c][d].pc \in {"publish", "recover", "call_index"} => call[c][d].at \in Nat

TypeInv == TypeOK /\ TimesPlanned

LEMMA LeaseIsNat == leaseMs \in Nat
BY LeaseAssumption DEF leaseMs

\* A worker that is done leaves well-typed local state behind.
LEMMA FinishTypes ==
    ASSUME TypeInv, NEW p \in Dispatcher, NEW d \in Delivery, Finish(p, d)
    PROVE  /\ pc' \in [Dispatcher -> [Delivery -> JobPc]]
           /\ snap' \in [Dispatcher -> [Delivery -> Record]]
           /\ plan' \in [Dispatcher -> [Delivery -> Plan]]
           /\ begun' \in [Dispatcher -> [Delivery -> TimeOrNone]]
           /\ \A q \in Dispatcher, c \in Delivery :
                /\ pc'[q][c] = IF q = p /\ c = d THEN "idle" ELSE pc[q][c]
                /\ plan'[q][c] = IF q = p /\ c = d THEN NoPlan ELSE plan[q][c]
BY DEF TypeInv, TypeOK, Finish, Goto, JobPc, Record, Status, AbsentRecord, TimeOrNone,
       NoTime, Plan, NoPlan

\* A step of a claim goes where it says and nowhere else.
LEMMA GotoTypes ==
    ASSUME TypeInv, NEW p \in Dispatcher, NEW d \in Delivery, NEW step \in JobPc,
           Goto(p, d, step)
    PROVE  /\ pc' \in [Dispatcher -> [Delivery -> JobPc]]
           /\ \A q \in Dispatcher, c \in Delivery :
                pc'[q][c] = IF q = p /\ c = d THEN step ELSE pc[q][c]
BY DEF TypeInv, TypeOK, Goto

LEMMA SetCallTypes ==
    ASSUME TypeInv, NEW c \in Caller, NEW d \in Delivery, NEW step \in CallPc,
           NEW r \in Record, NEW t \in TimeOrNone, SetCall(c, d, step, r, t)
    PROVE  /\ call' \in [Caller -> [Delivery -> Call]]
           /\ \A o \in Caller, e \in Delivery :
                call'[o][e] = IF o = c /\ e = d
                              THEN [pc |-> step, snap |-> r, at |-> t]
                              ELSE call[o][e]
BY DEF TypeInv, TypeOK, SetCall, Call

\* What a step of a claim, or of a call, must show for the times it carries.
LEMMA TimesGoto ==
    ASSUME TypeInv, NEW p \in Dispatcher, NEW d \in Delivery, NEW step \in JobPc,
           Goto(p, d, step), plan' = plan, call' = call,
           step \in {"index", "hold_unindex", "hold_write", "hold_index"}
                => plan[p][d].next \in Nat
    PROVE  TimesPlanned'
BY GotoTypes DEF TypeInv, TimesPlanned

LEMMA TimesFinish ==
    ASSUME TypeInv, NEW p \in Dispatcher, NEW d \in Delivery, Finish(p, d), call' = call
    PROVE  TimesPlanned'
<1> SUFFICES ASSUME NEW q \in Dispatcher, NEW e \in Delivery,
                    pc'[q][e] \in {"index", "hold_unindex", "hold_write", "hold_index"}
             PROVE  plan'[q][e].next \in Nat
  BY DEF TypeInv, TimesPlanned
<1>1. ~(q = p /\ e = d)
  BY FinishTypes
<1>2. pc'[q][e] = pc[q][e] /\ plan'[q][e] = plan[q][e]
  BY <1>1, FinishTypes
<1> QED
  BY <1>2 DEF TypeInv, TimesPlanned

LEMMA TimesCall ==
    ASSUME TypeInv, NEW c \in Caller, NEW d \in Delivery, NEW step \in CallPc,
           NEW r \in Record, NEW t \in TimeOrNone, SetCall(c, d, step, r, t),
           step \in {"publish", "recover", "call_index"} => t \in Nat,
           pc' = pc, plan' = plan
    PROVE  TimesPlanned'
<1> SUFFICES ASSUME NEW o \in Caller, NEW e \in Delivery,
                    call'[o][e].pc \in {"publish", "recover", "call_index"}
             PROVE  call'[o][e].at \in Nat
  BY DEF TypeInv, TimesPlanned
<1>0. \A a \in Caller, b \in Delivery :
        ~(a = c /\ b = d) => call'[a][b] = call[a][b]
  BY DEF SetCall, TypeInv, TypeOK
<1>1. CASE o = c /\ e = d
  <2>1. call'[o][e] = [pc |-> step, snap |-> r, at |-> t]
    BY <1>1, SetCallTypes
  <2> QED
    BY <2>1
<1>2. CASE ~(o = c /\ e = d)
  <2>1. call'[o][e] = call[o][e]
    BY <1>2, <1>0
  <2> QED
    BY <2>1 DEF TypeInv, TimesPlanned
<1> QED
  BY <1>1, <1>2

LEMMA AbsentRecordType == AbsentRecord \in Record
BY DEF AbsentRecord, Record, Status, TimeOrNone, NoTime

LEMMA ClaimedType ==
    ASSUME NEW r \in Record, NEW t \in Nat
    PROVE  [r EXCEPT !.status = "delivering", !.leaseUntil = t] \in Record
BY DEF Record, Status, TimeOrNone

LEMMA HeldType ==
    ASSUME NEW r \in Record, NEW t \in TimeOrNone
    PROVE  [r EXCEPT !.status = "pending", !.nextAttemptAt = t, !.leaseUntil = NoTime]
                \in Record
BY DEF Record, Status, TimeOrNone

LEMMA RequeuedType ==
    ASSUME NEW r \in Record, NEW t \in TimeOrNone
    PROVE  [r EXCEPT !.status = "pending", !.nextAttemptAt = t, !.leaseUntil = NoTime,
                     !.pendingTrigger = "manual"] \in Record
BY DEF Record, Status, TimeOrNone

\* The record written after an attempt: it is non-terminal only when a next
\* attempt is planned.
LEMMA OutcomeType ==
    ASSUME NEW r \in Record, NEW pl \in Plan
    PROVE  /\ Outcome(r, pl) \in Record
           /\ NonTerminal(Outcome(r, pl)) => pl.next # NoTime
<1> DEFINE s == CASE pl.outcome = "ok" -> "succeeded"
                  [] pl.outcome # "ok" /\ pl.next # NoTime -> "pending"
                  [] OTHER -> "failed"
<1>1. s \in Status /\ s # "delivering" /\ (s = "pending" => pl.next # NoTime)
  BY DEF Status
<1>2. Outcome(r, pl) = [r EXCEPT !.status = s, !.attemptCount = r.attemptCount + 1,
                                 !.nextAttemptAt = pl.next, !.leaseUntil = NoTime,
                                 !.pendingTrigger = "none"]
  BY DEF Outcome
<1> HIDE DEF s
<1>3. pl.next \in TimeOrNone /\ NoTime \in TimeOrNone
  BY DEF Plan, TimeOrNone
<1>4. r.attemptCount + 1 \in Nat
  BY DEF Record
<1>5. Outcome(r, pl) \in Record
  BY <1>1, <1>2, <1>3, <1>4 DEF Record
<1>6. Outcome(r, pl).status = s
  BY <1>2 DEF Record
<1> QED
  BY <1>1, <1>5, <1>6 DEF NonTerminal

LEMMA TypeInit == Init => TypeInv
BY DEF Init, TypeInv, TypeOK, TimesPlanned, AbsentRecord, Record, Status, TimeOrNone, NoTime,
       JobPc, NoPlan, Plan, IdleCall, Call, CallPc

\* Claiming.
LEMMA TypeClaim ==
    ASSUME TypeInv, NEW p \in Dispatcher, Claim(p)
    PROVE  TypeInv'
<1>1. PICK D \in SUBSET Candidates, swept \in SUBSET Orphans : ClaimAll(p, D, swept)
  BY DEF Claim
<1>2. D \subseteq Delivery
  BY <1>1 DEF Candidates
<1>3. clock + leaseMs \in Nat
  BY LeaseIsNat DEF TypeInv, TypeOK
<1>4. rec' \in [Delivery -> Record]
  <2>1. \A d \in Delivery :
          [rec[d] EXCEPT !.status = "delivering", !.leaseUntil = clock + leaseMs] \in Record
    BY <1>3, ClaimedType DEF TypeInv, TypeOK
  <2> QED
    BY <1>1, <2>1 DEF ClaimAll, TypeInv, TypeOK
<1>5. due' \subseteq Nat \X Delivery
  <2>1. {<<clock + leaseMs, d>> : d \in D} \subseteq Nat \X Delivery
    BY <1>2, <1>3
  <2>2. due' \subseteq due \cup {<<clock + leaseMs, d>> : d \in D}
    BY <1>1 DEF ClaimAll
  <2> QED
    BY <2>1, <2>2 DEF TypeInv, TypeOK
<1>6. pc' \in [Dispatcher -> [Delivery -> JobPc]]
  BY <1>1 DEF ClaimAll, TypeInv, TypeOK, JobPc
<1>7. snap' \in [Dispatcher -> [Delivery -> Record]]
  BY <1>1, <1>4, AbsentRecordType DEF ClaimAll, TypeInv, TypeOK
<1>8. TypeOK'
  BY <1>4, <1>5, <1>6, <1>7 DEF Claim, TypeInv, TypeOK
<1>9. TimesPlanned'
  BY <1>1 DEF Claim, ClaimAll, TypeInv, TypeOK, TimesPlanned
<1> QED
  BY <1>8, <1>9 DEF TypeInv

\* A worker takes a claim up, in one of its three ways.
LEMMA TypeTakeUp ==
    ASSUME TypeInv, NEW p \in Dispatcher, NEW d \in Delivery, NEW step \in JobPc,
           NEW newPlan \in Plan, TakeUp(p, d, step, newPlan),
           step \in {"index", "hold_unindex", "hold_write", "hold_index"}
                => newPlan.next \in Nat
    PROVE  TypeInv'
<1>1. Goto(p, d, step)
  BY DEF TakeUp
<1>2. plan' \in [Dispatcher -> [Delivery -> Plan]]
  BY DEF TakeUp, TypeInv, TypeOK
<1>3. begun' \in [Dispatcher -> [Delivery -> TimeOrNone]]
  BY DEF TakeUp, TypeInv, TypeOK, TimeOrNone
<1>4. TypeOK'
  BY <1>1, <1>2, <1>3, GotoTypes DEF TakeUp, TypeInv, TypeOK
<1>5. TimesPlanned'
  <2>1. \A q \in Dispatcher, c \in Delivery :
          plan'[q][c] = IF q = p /\ c = d THEN newPlan ELSE plan[q][c]
    BY DEF TakeUp, TypeInv, TypeOK
  <2> QED
    BY <1>1, <2>1, GotoTypes DEF TakeUp, TypeInv, TimesPlanned
<1> QED
  BY <1>4, <1>5 DEF TypeInv

\* The other steps of processing a claim.
LEMMA TypeProcess ==
    ASSUME TypeInv, NEW p \in Dispatcher, NEW d \in Delivery, ProcessClaim(p, d)
    PROVE  TypeInv'
<1>1. CASE StartAttempt(p, d)
  <2>1. TakeUp(p, d, "sending", NoPlan)
    BY <1>1 DEF StartAttempt
  <2>2. NoPlan \in Plan /\ "sending" \in JobPc
    BY DEF NoPlan, Plan, TimeOrNone, JobPc
  <2> QED
    BY <2>1, <2>2, TypeTakeUp
<1>2. CASE FailTerminal(p, d)
  <2> DEFINE gone == [outcome |-> "gone", next |-> NoTime]
  <2>1. TakeUp(p, d, "log", gone)
    BY <1>2 DEF FailTerminal
  <2>2. gone \in Plan /\ "log" \in JobPc
    BY DEF Plan, TimeOrNone, JobPc
  <2> QED
    BY <2>1, <2>2, TypeTakeUp
<1>3. CASE HoldDisabled(p, d)
  <2> DEFINE hold == [outcome |-> "none", next |-> clock + leaseMs]
  <2>1. TakeUp(p, d, "hold_unindex", hold)
    BY <1>3 DEF HoldDisabled
  <2>2. hold \in Plan /\ hold.next \in Nat /\ "hold_unindex" \in JobPc
    BY LeaseIsNat DEF TypeInv, TypeOK, Plan, TimeOrNone, JobPc
  <2> QED
    BY <2>1, <2>2, TypeTakeUp
<1>4. CASE HoldUnindex(p, d)
  <2>1. Goto(p, d, "hold_write") /\ "hold_write" \in JobPc
    BY <1>4 DEF HoldUnindex, JobPc
  <2>2. due' \subseteq Nat \X Delivery
    BY <1>4 DEF HoldUnindex, TypeInv, TypeOK
  <2>3. TypeOK'
    BY <1>4, <2>1, <2>2, GotoTypes DEF HoldUnindex, TypeInv, TypeOK
  <2>4. TimesPlanned'
    BY <1>4, <2>1, TimesGoto DEF HoldUnindex, At, TypeInv, TimesPlanned
  <2> QED
    BY <2>3, <2>4 DEF TypeInv
<1>5. CASE HoldWrite(p, d)
  <2>1. Goto(p, d, "hold_index") /\ "hold_index" \in JobPc
    BY <1>5 DEF HoldWrite, JobPc
  <2>2. rec' \in [Delivery -> Record]
    <3> DEFINE held == [snap[p][d] EXCEPT !.status = "pending",
                          !.nextAttemptAt = plan[p][d].next, !.leaseUntil = NoTime]
    <3>1. snap[p][d] \in Record /\ plan[p][d].next \in TimeOrNone
      BY DEF TypeInv, TypeOK, Plan
    <3>2. held \in Record
      BY <3>1, HeldType
    <3>3. rec' = [rec EXCEPT ![d] = held]
      BY <1>5 DEF HoldWrite
    <3> HIDE DEF held
    <3> QED
      BY <3>2, <3>3 DEF TypeInv, TypeOK
  <2>3. TypeOK'
    BY <1>5, <2>1, <2>2, GotoTypes DEF HoldWrite, TypeInv, TypeOK
  <2>4. TimesPlanned'
    BY <1>5, <2>1, TimesGoto DEF HoldWrite, At, TypeInv, TimesPlanned
  <2> QED
    BY <2>3, <2>4 DEF TypeInv
<1>6. CASE HoldIndex(p, d)
  <2>1. Finish(p, d)
    BY <1>6 DEF HoldIndex
  <2>2. due' \subseteq Nat \X Delivery
    BY <1>6 DEF HoldIndex, At, TypeInv, TypeOK, TimesPlanned
  <2>3. TypeOK'
    BY <1>6, <2>1, <2>2, FinishTypes DEF HoldIndex, TypeInv, TypeOK
  <2> QED
    BY <1>6, <2>1, <2>3, TimesFinish DEF HoldIndex, TypeInv
<1>7. CASE Respond(p, d)
  <2>1. Goto(p, d, "log") /\ "log" \in JobPc
    BY <1>7 DEF Respond, JobPc
  <2>2. \A n : NextTimes(n) \subseteq TimeOrNone
    BY ScheduleAssumption DEF NextTimes, TypeInv, TypeOK, TimeOrNone
  <2>3. PICK pl \in Plan : plan' = [plan EXCEPT ![p][d] = pl]
    BY <1>7, <2>2 DEF Respond, Plan, TimeOrNone
  <2>4. plan' \in [Dispatcher -> [Delivery -> Plan]]
    BY <2>3 DEF TypeInv, TypeOK
  <2>5. TimesPlanned'
    <3>1. \A q \in Dispatcher, c \in Delivery :
            plan'[q][c] = IF q = p /\ c = d THEN pl ELSE plan[q][c]
      BY <2>3 DEF TypeInv, TypeOK
    <3> QED
      BY <1>7, <2>1, <3>1, GotoTypes DEF Respond, TypeInv, TimesPlanned
  <2> QED
    BY <1>7, <2>1, <2>4, <2>5, GotoTypes DEF Respond, TypeInv, TypeOK
<1>8. CASE LogAttempt(p, d)
  <2>1. Goto(p, d, "unindex_next") /\ "unindex_next" \in JobPc
    BY <1>8 DEF LogAttempt, JobPc
  <2>2. attempts' \subseteq Attempt
    <3> DEFINE number == snap[p][d].attemptCount + 1
               kind == IF snap[p][d].pendingTrigger = "manual" THEN "manual" ELSE "schedule"
               new == [delivery |-> d, number |-> number,
                       ok |-> plan[p][d].outcome = "ok", trigger |-> kind]
    <3>1. number \in Nat
      BY DEF TypeInv, TypeOK, Record
    <3>2. new \in Attempt
      BY <3>1 DEF Attempt
    <3>3. attempts' = {a \in attempts : ~(a.delivery = d /\ a.number = number)} \cup {new}
      BY <1>8 DEF LogAttempt
    <3> HIDE DEF new
    <3> QED
      BY <3>2, <3>3 DEF TypeInv, TypeOK
  <2>3. TypeOK'
    BY <1>8, <2>1, <2>2, GotoTypes DEF LogAttempt, TypeInv, TypeOK
  <2> QED
    BY <1>8, <2>1, <2>3, TimesGoto DEF LogAttempt, TypeInv
<1>9. CASE UnindexNext(p, d)
  <2>1. Goto(p, d, "unindex_lease") /\ "unindex_lease" \in JobPc
    BY <1>9 DEF UnindexNext, JobPc
  <2>2. due' \subseteq Nat \X Delivery
    BY <1>9 DEF UnindexNext, TypeInv, TypeOK
  <2>3. TypeOK'
    BY <1>9, <2>1, <2>2, GotoTypes DEF UnindexNext, TypeInv, TypeOK
  <2>4. TimesPlanned'
    BY <1>9, <2>1, TimesGoto DEF UnindexNext, At, TypeInv, TimesPlanned
  <2> QED
    BY <2>3, <2>4 DEF TypeInv
<1>10. CASE UnindexLease(p, d)
  <2>1. Goto(p, d, "write") /\ "write" \in JobPc
    BY <1>10 DEF UnindexLease, JobPc
  <2>2. due' \subseteq Nat \X Delivery
    BY <1>10 DEF UnindexLease, TypeInv, TypeOK
  <2>3. TypeOK'
    BY <1>10, <2>1, <2>2, GotoTypes DEF UnindexLease, TypeInv, TypeOK
  <2>4. TimesPlanned'
    BY <1>10, <2>1, TimesGoto DEF UnindexLease, At, TypeInv, TimesPlanned
  <2> QED
    BY <2>3, <2>4 DEF TypeInv
<1>11. CASE WriteOutcome(p, d)
  <2> DEFINE step == IF plan[p][d].next # NoTime THEN "index" ELSE "note"
  <2>1. Goto(p, d, step) /\ step \in JobPc
    BY <1>11 DEF WriteOutcome, JobPc
  <2>2. rec' \in [Delivery -> Record]
    BY <1>11, OutcomeType DEF WriteOutcome, TypeInv, TypeOK
  <2>3. step = "index" => plan[p][d].next \in Nat
    BY DEF TypeInv, TypeOK, Plan, TimeOrNone
  <2> QED
    BY <1>11, <2>1, <2>2, <2>3, GotoTypes DEF WriteOutcome, TypeInv, TypeOK, TimesPlanned
<1>12. CASE IndexNext(p, d)
  <2>1. Goto(p, d, "note") /\ "note" \in JobPc
    BY <1>12 DEF IndexNext, JobPc
  <2>2. due' \subseteq Nat \X Delivery
    BY <1>12 DEF IndexNext, At, TypeInv, TypeOK, TimesPlanned
  <2> QED
    BY <1>12, <2>1, <2>2, GotoTypes DEF IndexNext, TypeInv, TypeOK, TimesPlanned
<1>13. CASE NoteOutcome(p, d)
  <2>1. Finish(p, d)
    BY <1>13 DEF NoteOutcome
  <2>2. endpoint' \in [Endpoint -> {"enabled", "disabled", "deleted"}]
    BY <1>13 DEF NoteOutcome, TypeInv, TypeOK
  <2>3. TypeOK'
    BY <1>13, <2>1, <2>2, FinishTypes DEF NoteOutcome, TypeInv, TypeOK
  <2> QED
    BY <1>13, <2>1, <2>3, TimesFinish DEF NoteOutcome, TypeInv
<1>14. CASE StepFails(p, d)
  <2>1. Finish(p, d)
    BY <1>14 DEF StepFails
  <2>2. TypeOK'
    BY <1>14, <2>1, FinishTypes DEF StepFails, TypeInv, TypeOK
  <2> QED
    BY <1>14, <2>1, <2>2, TimesFinish DEF StepFails, TypeInv
<1> QED
  BY <1>1, <1>2, <1>3, <1>4, <1>5, <1>6, <1>7, <1>8, <1>9, <1>10, <1>11, <1>12, <1>13,
     <1>14 DEF ProcessClaim

LEMMA TypeCrash ==
    ASSUME TypeInv, NEW p \in Dispatcher, Crash(p)
    PROVE  TypeInv'
<1>1. pc' \in [Dispatcher -> [Delivery -> JobPc]]
  BY DEF Crash, TypeInv, TypeOK, JobPc
<1>2. snap' \in [Dispatcher -> [Delivery -> Record]]
  BY AbsentRecordType DEF Crash, TypeInv, TypeOK
<1>3. plan' \in [Dispatcher -> [Delivery -> Plan]]
  BY DEF Crash, TypeInv, TypeOK, NoPlan, Plan, TimeOrNone
<1>4. begun' \in [Dispatcher -> [Delivery -> TimeOrNone]]
  BY DEF Crash, TypeInv, TypeOK, TimeOrNone
<1>5. TypeOK'
  BY <1>1, <1>2, <1>3, <1>4 DEF Crash, TypeInv, TypeOK
<1>6. TimesPlanned'
  BY DEF Crash, TypeInv, TypeOK, TimesPlanned
<1> QED
  BY <1>5, <1>6 DEF TypeInv

\* Control-plane calls.
LEMMA TypeCall ==
    ASSUME TypeInv, NEW c \in Caller, NEW d \in Delivery, ControlPlane(c, d)
    PROVE  TypeInv'
<1> USE AbsentRecordType
<1>a. {"idle", "publish", "retry", "recover", "call_index"} \subseteq CallPc
  BY DEF CallPc
<1>b. clock \in TimeOrNone /\ NoTime \in TimeOrNone
  BY DEF TypeInv, TypeOK, TimeOrNone
<1>c. ASSUME NEW step \in CallPc, NEW r \in Record, NEW t \in TimeOrNone,
             SetCall(c, d, step, r, t),
             step \in {"publish", "recover", "call_index"} => t \in Nat,
             UNCHANGED <<clock, due, attempts, endpoint, jobVars>>,
             rec' \in [Delivery -> Record], requeues' \in [Delivery -> Nat]
      PROVE  TypeInv'
  <2>1. TypeOK'
    BY <1>c, SetCallTypes DEF TypeInv, TypeOK, jobVars
  <2>2. TimesPlanned'
    BY <1>c, TimesCall DEF jobVars
  <2> QED
    BY <2>1, <2>2 DEF TypeInv
<1>1. CASE PublishBegin(c, d)
  <2>1. SetCall(c, d, "publish", AbsentRecord, clock)
    BY <1>1 DEF PublishBegin
  <2> QED
    BY <1>1, <1>a, <1>b, <1>c, <2>1 DEF PublishBegin, TypeInv, TypeOK
<1>2. CASE PublishWrite(c, d)
  <2>1. call[c][d].at \in Nat /\ clock \in Nat
    BY <1>2 DEF PublishWrite, CallAt, TypeInv, TypeOK, TimesPlanned
  <2>2. PICK nowMs \in call[c][d].at .. clock :
          SetCall(c, d, "call_index", AbsentRecord, nowMs)
    BY <1>2 DEF PublishWrite
  <2>3. nowMs \in Nat
    BY <2>1
  <2>4. rec' \in [Delivery -> Record]
    BY <1>2, <2>1 DEF PublishWrite, TypeInv, TypeOK, AbsentRecord, Record, Status, TimeOrNone
  <2> QED
    BY <1>2, <1>a, <1>c, <2>2, <2>3, <2>4 DEF PublishWrite, TypeInv, TypeOK, TimeOrNone
<1>3. CASE RetryRead(c, d)
  <2>1. SetCall(c, d, "retry", rec[d], NoTime)
    BY <1>3 DEF RetryRead, ReadDeadLetter
  <2> QED
    BY <1>3, <1>a, <1>b, <1>c, <2>1 DEF RetryRead, ReadDeadLetter, TypeInv, TypeOK
<1>4. CASE RecoverRead(c, d)
  <2>1. PICK nowMs \in 0 .. clock : ReadDeadLetter(c, d, "recover", nowMs)
    BY <1>4 DEF RecoverRead
  <2>2. SetCall(c, d, "recover", rec[d], nowMs) /\ nowMs \in Nat
    BY <2>1 DEF ReadDeadLetter, TypeInv, TypeOK
  <2> QED
    BY <1>a, <1>c, <2>1, <2>2 DEF ReadDeadLetter, TypeInv, TypeOK, TimeOrNone
<1>5. CASE RequeueWrite(c, d)
  <2> DEFINE t == IF call[c][d].pc = "retry" THEN clock ELSE call[c][d].at
  <2>1. SetCall(c, d, "call_index", AbsentRecord, t)
    BY <1>5 DEF RequeueWrite
  <2>2. t \in Nat
    BY <1>5 DEF RequeueWrite, TypeInv, TypeOK, TimesPlanned
  <2>3. rec' \in [Delivery -> Record]
    <3> DEFINE again == [call[c][d].snap EXCEPT !.status = "pending",
                           !.nextAttemptAt = clock, !.leaseUntil = NoTime,
                           !.pendingTrigger = "manual"]
    <3>1. call[c][d].snap \in Record
      BY DEF TypeInv, TypeOK, Call
    <3>2. again \in Record
      BY <1>b, <3>1, RequeuedType
    <3>3. rec' = [rec EXCEPT ![d] = again]
      BY <1>5 DEF RequeueWrite
    <3> HIDE DEF again
    <3> QED
      BY <3>2, <3>3 DEF TypeInv, TypeOK
  <2>4. requeues' \in [Delivery -> Nat]
    BY <1>5 DEF RequeueWrite, TypeInv, TypeOK
  <2> QED
    BY <1>5, <1>a, <1>c, <2>1, <2>2, <2>3, <2>4 DEF RequeueWrite, TimeOrNone
<1>6. CASE CallIndex(c, d)
  <2>1. SetCall(c, d, "idle", AbsentRecord, NoTime)
    BY <1>6 DEF CallIndex, SetCall, IdleCall
  <2>2. due' \subseteq Nat \X Delivery
    BY <1>6 DEF CallIndex, CallAt, TypeInv, TypeOK, TimesPlanned
  <2>3. TypeOK'
    BY <1>6, <1>a, <1>b, <2>1, <2>2, SetCallTypes DEF CallIndex, TypeInv, TypeOK, jobVars
  <2>4. TimesPlanned'
    BY <1>6, <1>a, <1>b, <2>1, TimesCall DEF CallIndex, jobVars
  <2> QED
    BY <2>3, <2>4 DEF TypeInv
<1>7. CASE CallFails(c, d)
  <2>1. SetCall(c, d, "idle", AbsentRecord, NoTime)
    BY <1>7 DEF CallFails, SetCall, IdleCall
  <2> QED
    BY <1>7, <1>a, <1>b, <1>c, <2>1 DEF CallFails, TypeInv, TypeOK
<1> QED
  BY <1>1, <1>2, <1>3, <1>4, <1>5, <1>6, <1>7 DEF ControlPlane

LEMMA TypeStep == TypeInv /\ [Next]_vars => TypeInv'
<1> SUFFICES ASSUME TypeInv, [Next]_vars PROVE TypeInv'
  OBVIOUS
<1>1. CASE Tick
  BY <1>1 DEF Tick, TypeInv, TypeOK, TimesPlanned, jobVars
<1>2. ASSUME NEW p \in Dispatcher, Claim(p) PROVE TypeInv'
  BY <1>2, TypeClaim
<1>3. ASSUME NEW p \in Dispatcher, Crash(p) PROVE TypeInv'
  BY <1>3, TypeCrash
<1>4. ASSUME NEW p \in Dispatcher, NEW d \in Delivery, ProcessClaim(p, d) PROVE TypeInv'
  BY <1>4, TypeProcess
<1>5. ASSUME NEW c \in Caller, NEW d \in Delivery, ControlPlane(c, d) PROVE TypeInv'
  BY <1>5, TypeCall
<1>6. ASSUME NEW e \in Endpoint, NEW state \in {"enabled", "disabled", "deleted"},
             SetEndpoint(e, state)
      PROVE  TypeInv'
  BY <1>6 DEF SetEndpoint, TypeInv, TypeOK, TimesPlanned, jobVars
<1>7. CASE UNCHANGED vars
  BY <1>7 DEF vars, TypeInv, TypeOK, TimesPlanned
<1> QED
  BY <1>1, <1>2, <1>3, <1>4, <1>5, <1>6, <1>7 DEF Next

\* Every variable keeps its type, and every due entry that is written carries a
\* time.
THEOREM TypeCorrect == Spec => []TypeOK
<1>1. Spec => []TypeInv
  BY TypeInit, TypeStep, PTL DEF Spec
<1>2. TypeInv => TypeOK
  BY DEF TypeInv
<1> QED
  BY <1>1, <1>2, PTL

------------------------------------------------------------------------------
(* No delivery is stranded. DueCoverage is inductive together with TypeInv, as  *)
(* long as nobody crashes inside the windows it names: a crash there is exactly *)
(* what strands a delivery.                                                     *)

Covered(d) == InHand(d) \/ DueOf(d) # {}

CrashesOutsideWindows == CrashPoints \cap (JobWindow \cup CallWindow) = {}

\* A step that neither takes an actor on d out of its window nor removes one of
\* d's due entries leaves d covered.
LEMMA KeepsCover ==
    ASSUME NEW d \in Delivery, Covered(d),
           \A q \in Dispatcher : pc[q][d] \in JobWindow => pc'[q][d] \in JobWindow,
           \A o \in Caller : call[o][d].pc \in CallWindow => call'[o][d].pc \in CallWindow,
           DueOf(d) \subseteq due'
    PROVE  Covered(d)'
<1>1. CASE InHand(d)
  BY <1>1 DEF InHand, Covered
<1>2. CASE DueOf(d) # {}
  BY <1>2 DEF DueOf, Covered
<1> QED
  BY <1>1, <1>2 DEF Covered

\* Claiming moves the entries of what it claims and sweeps only entries of
\* missing and terminal deliveries.
LEMMA CoverClaim ==
    ASSUME TypeInv, DueCoverage, NEW p \in Dispatcher, Claim(p)
    PROVE  DueCoverage'
<1>1. PICK D \in SUBSET Candidates, swept \in SUBSET Orphans : ClaimAll(p, D, swept)
  BY DEF Claim
<1>2. SUFFICES ASSUME NEW d \in Delivery, NonTerminal(rec'[d])
               PROVE  Covered(d)'
  BY DEF DueCoverage, Covered
<1>3. CASE d \in D
  <2>1. <<clock + leaseMs, d>> \in due'
    BY <1>1, <1>3 DEF ClaimAll
  <2>2. <<clock + leaseMs, d>> \in DueOf(d)'
    BY <2>1 DEF DueOf
  <2> QED
    BY <2>2 DEF Covered
<1>4. CASE d \notin D
  <2>1. rec'[d] = rec[d]
    BY <1>1, <1>4 DEF ClaimAll
  <2>2. Covered(d)
    BY <1>2, <2>1 DEF DueCoverage, Covered
  <2>3. DueOf(d) \subseteq due'
    <3> SUFFICES ASSUME NEW entry \in due, entry[2] = d PROVE entry \in due'
      BY DEF DueOf
    <3>1. entry \notin swept
      BY <1>2, <2>1 DEF Orphans
    <3>2. \A e \in D : entry # <<FirstDue(e), e>>
      BY <1>4
    <3> QED
      BY <1>1, <3>1, <3>2 DEF ClaimAll
  <2>4. \A q \in Dispatcher : pc[q][d] \in JobWindow => pc'[q][d] \in JobWindow
    BY <1>1 DEF Claim, ClaimAll, TypeInv, TypeOK, JobWindow
  <2>5. call' = call
    BY DEF Claim
  <2> QED
    BY <2>2, <2>3, <2>4, <2>5, KeepsCover
<1> QED
  BY <1>3, <1>4

\* A step of p on d leaves every other delivery alone.
LEMMA CoverOthers ==
    ASSUME TypeInv, DueCoverage, NEW p \in Dispatcher, NEW d \in Delivery,
           NEW c \in Delivery, c # d, NEW step \in JobPc,
           Goto(p, d, step), rec'[c] = rec[c], call' = call,
           \A entry \in due : entry[2] # d => entry \in due',
           NonTerminal(rec'[c])
    PROVE  Covered(c)'
<1>1. Covered(c)
  BY DEF DueCoverage, Covered
<1>2. \A q \in Dispatcher : pc'[q][c] = pc[q][c]
  BY GotoTypes
<1>3. DueOf(c) \subseteq due'
  BY DEF DueOf
<1> QED
  BY <1>1, <1>2, <1>3, KeepsCover

\* A step of p on d that starts outside the window and keeps record and index.
LEMMA CoverQuiet ==
    ASSUME TypeInv, DueCoverage, NEW p \in Dispatcher, NEW d \in Delivery,
           NEW step \in JobPc, Goto(p, d, step), pc[p][d] \notin JobWindow,
           rec' = rec, due' = due, call' = call
    PROVE  DueCoverage'
<1> SUFFICES ASSUME NEW c \in Delivery, NonTerminal(rec'[c]) PROVE Covered(c)'
  BY DEF DueCoverage, Covered
<1>1. Covered(c)
  BY DEF DueCoverage, Covered
<1>2. \A q \in Dispatcher : pc[q][c] \in JobWindow => pc'[q][c] \in JobWindow
  BY GotoTypes
<1>3. DueOf(c) \subseteq due'
  BY DEF DueOf
<1> QED
  BY <1>1, <1>2, <1>3, KeepsCover

\* A step of p on d that ends inside the window: p is the live actor.
LEMMA CoverEnters ==
    ASSUME TypeInv, DueCoverage, NEW p \in Dispatcher, NEW d \in Delivery,
           NEW step \in JobPc \cap JobWindow, Goto(p, d, step),
           \A c \in Delivery : c # d => rec'[c] = rec[c], call' = call,
           \A entry \in due : entry[2] # d => entry \in due'
    PROVE  DueCoverage'
<1> SUFFICES ASSUME NEW c \in Delivery, NonTerminal(rec'[c]) PROVE Covered(c)'
  BY DEF DueCoverage, Covered
<1>1. CASE c = d
  <2>1. pc'[p][d] \in JobWindow
    BY GotoTypes
  <2> QED
    BY <1>1, <2>1 DEF Covered, InHand
<1>2. CASE c # d
  BY <1>2, CoverOthers
<1> QED
  BY <1>1, <1>2

\* A step that adds a due entry of d and changes no record.
LEMMA CoverIndexes ==
    ASSUME TypeInv, DueCoverage, NEW p \in Dispatcher, NEW d \in Delivery,
           NEW step \in JobPc, Goto(p, d, step), NEW t,
           due' = due \cup {<<t, d>>}, rec' = rec, call' = call
    PROVE  DueCoverage'
<1> SUFFICES ASSUME NEW c \in Delivery, NonTerminal(rec'[c]) PROVE Covered(c)'
  BY DEF DueCoverage, Covered
<1>1. CASE c = d
  <2>1. <<t, d>> \in DueOf(d)'
    BY DEF DueOf
  <2> QED
    BY <1>1, <2>1 DEF Covered
<1>2. CASE c # d
  BY <1>2, CoverOthers
<1> QED
  BY <1>1, <1>2

LEMMA CoverProcess ==
    ASSUME CrashesOutsideWindows, TypeInv, DueCoverage,
           NEW p \in Dispatcher, NEW d \in Delivery, ProcessClaim(p, d)
    PROVE  DueCoverage'
<1>a. \A step \in {"sending", "log", "hold_unindex", "unindex_next", "note", "idle"} :
        step \in JobPc
  BY DEF JobPc
<1>b. JobWindow \subseteq JobPc
  BY DEF JobPc, JobWindow
<1>1. CASE StartAttempt(p, d)
  BY <1>1, <1>a, CoverQuiet DEF StartAttempt, TakeUp, At, JobWindow
<1>2. CASE FailTerminal(p, d)
  BY <1>2, <1>a, CoverQuiet DEF FailTerminal, TakeUp, At, JobWindow
<1>3. CASE HoldDisabled(p, d)
  BY <1>3, <1>a, CoverQuiet DEF HoldDisabled, TakeUp, At, JobWindow
<1>4. CASE HoldUnindex(p, d)
  <2>1. \A entry \in due : entry[2] # d => entry \in due'
    BY <1>4 DEF HoldUnindex
  <2> QED
    BY <1>4, <1>b, <2>1, CoverEnters DEF HoldUnindex, JobWindow
<1>5. CASE HoldWrite(p, d)
  <2>1. \A c \in Delivery : c # d => rec'[c] = rec[c]
    BY <1>5 DEF HoldWrite, TypeInv, TypeOK
  <2> QED
    BY <1>5, <1>b, <2>1, CoverEnters DEF HoldWrite, JobWindow
<1>6. CASE HoldIndex(p, d)
  BY <1>6, <1>a, CoverIndexes DEF HoldIndex, Finish
<1>7. CASE Respond(p, d)
  BY <1>7, <1>a, CoverQuiet DEF Respond, At, JobWindow
<1>8. CASE LogAttempt(p, d)
  BY <1>8, <1>a, CoverQuiet DEF LogAttempt, At, JobWindow
<1>9. CASE UnindexNext(p, d)
  <2>1. \A entry \in due : entry[2] # d => entry \in due'
    BY <1>9 DEF UnindexNext
  <2> QED
    BY <1>9, <1>b, <2>1, CoverEnters DEF UnindexNext, JobWindow
<1>10. CASE UnindexLease(p, d)
  <2>1. \A entry \in due : entry[2] # d => entry \in due'
    BY <1>10 DEF UnindexLease
  <2> QED
    BY <1>10, <1>b, <2>1, CoverEnters DEF UnindexLease, JobWindow
<1>11. CASE WriteOutcome(p, d)
  <2>1. \A c \in Delivery : c # d => rec'[c] = rec[c]
    BY <1>11 DEF WriteOutcome, TypeInv, TypeOK
  <2>2. CASE plan[p][d].next # NoTime
    <3>1. Goto(p, d, "index")
      BY <1>11, <2>2 DEF WriteOutcome
    <3> QED
      BY <1>11, <1>b, <2>1, <3>1, CoverEnters DEF WriteOutcome, JobWindow
  <2>3. CASE plan[p][d].next = NoTime
    <3>1. Goto(p, d, "note")
      BY <1>11, <2>3 DEF WriteOutcome
    <3>2. ~NonTerminal(rec'[d])
      BY <1>11, <2>3, OutcomeType DEF WriteOutcome, TypeInv, TypeOK
    <3>3. ASSUME NEW c \in Delivery, NonTerminal(rec'[c]) PROVE Covered(c)'
      BY <1>11, <1>a, <2>1, <3>1, <3>2, <3>3, CoverOthers DEF WriteOutcome
    <3> QED
      BY <3>3 DEF DueCoverage, Covered
  <2> QED
    BY <2>2, <2>3
<1>12. CASE IndexNext(p, d)
  BY <1>12, <1>a, CoverIndexes DEF IndexNext
<1>13. CASE NoteOutcome(p, d)
  BY <1>13, <1>a, CoverQuiet DEF NoteOutcome, Finish, At, JobWindow
<1>14. CASE StepFails(p, d)
  <2>1. pc[p][d] \notin JobWindow
    BY <1>14 DEF StepFails, CrashesOutsideWindows
  <2> QED
    BY <1>14, <1>a, <2>1, CoverQuiet DEF StepFails, Finish
<1> QED
  BY <1>1, <1>2, <1>3, <1>4, <1>5, <1>6, <1>7, <1>8, <1>9, <1>10, <1>11, <1>12, <1>13,
     <1>14 DEF ProcessClaim

LEMMA CoverCrash ==
    ASSUME CrashesOutsideWindows, TypeInv, DueCoverage, NEW p \in Dispatcher, Crash(p)
    PROVE  DueCoverage'
<1> SUFFICES ASSUME NEW d \in Delivery, NonTerminal(rec'[d]) PROVE Covered(d)'
  BY DEF DueCoverage, Covered
<1>1. Covered(d)
  BY DEF Crash, DueCoverage, Covered
<1>2. pc[p][d] \notin JobWindow
  BY DEF Crash, CrashesOutsideWindows, JobWindow
<1>3. \A q \in Dispatcher : pc[q][d] \in JobWindow => pc'[q][d] \in JobWindow
  BY <1>2 DEF Crash, TypeInv, TypeOK
<1>4. call' = call /\ DueOf(d) \subseteq due'
  BY DEF Crash, DueOf
<1> QED
  BY <1>1, <1>3, <1>4, KeepsCover

\* A control-plane call either touches no record and no due entry, or is itself
\* the live actor, or adds the entry.
LEMMA CoverCall ==
    ASSUME CrashesOutsideWindows, TypeInv, DueCoverage,
           NEW c \in Caller, NEW d \in Delivery, ControlPlane(c, d)
    PROVE  DueCoverage'
<1> SUFFICES ASSUME NEW e \in Delivery, NonTerminal(rec'[e]) PROVE Covered(e)'
  BY DEF DueCoverage, Covered
<1>0. pc' = pc
  BY DEF ControlPlane, PublishBegin, PublishWrite, RetryRead, RecoverRead, ReadDeadLetter,
         RequeueWrite, CallIndex, CallFails, jobVars
<1>1. \A o \in Caller : ~(o = c /\ e = d) => call'[o][e] = call[o][e]
  BY DEF ControlPlane, PublishBegin, PublishWrite, RetryRead, RecoverRead, ReadDeadLetter,
         RequeueWrite, CallIndex, CallFails, SetCall, TypeInv, TypeOK
<1>2. DueOf(e) \subseteq due'
  BY DEF ControlPlane, PublishBegin, PublishWrite, RetryRead, RecoverRead, ReadDeadLetter,
         RequeueWrite, CallIndex, CallFails, DueOf
<1>3. CASE e # d \/ (call[c][d].pc \notin CallWindow /\ rec' = rec)
  <2>1. rec'[e] = rec[e]
    BY <1>3 DEF ControlPlane, PublishBegin, PublishWrite, RetryRead, RecoverRead,
         ReadDeadLetter, RequeueWrite, CallIndex, CallFails, TypeInv, TypeOK
  <2>2. Covered(e)
    BY <2>1 DEF DueCoverage, Covered
  <2>3. \A o \in Caller : call[o][e].pc \in CallWindow => call'[o][e].pc \in CallWindow
    BY <1>1, <1>3
  <2> QED
    BY <1>0, <1>2, <2>2, <2>3, KeepsCover
<1>4. CASE e = d /\ (PublishWrite(c, d) \/ RequeueWrite(c, d))
  <2>1. call'[c][d].pc = "call_index"
    BY <1>4 DEF PublishWrite, RequeueWrite, SetCall, TypeInv, TypeOK
  <2> QED
    BY <1>4, <2>1 DEF Covered, InHand, CallWindow
<1>5. CASE e = d /\ CallIndex(c, d)
  <2>1. <<call[c][d].at, d>> \in DueOf(d)'
    BY <1>5 DEF CallIndex, DueOf
  <2> QED
    BY <1>5, <2>1 DEF Covered
<1>6. CASE PublishBegin(c, d) \/ RetryRead(c, d) \/ RecoverRead(c, d) \/ CallFails(c, d)
  <2>1. call[c][d].pc \notin CallWindow /\ rec' = rec
    BY <1>6 DEF PublishBegin, RetryRead, RecoverRead, ReadDeadLetter, CallFails, CallAt,
         CallWindow, CrashesOutsideWindows
  <2> QED
    BY <1>3, <2>1
<1> QED
  BY <1>3, <1>4, <1>5, <1>6 DEF ControlPlane

LEMMA CoverStep ==
    CrashesOutsideWindows /\ TypeInv /\ DueCoverage /\ [Next]_vars => DueCoverage'
<1> SUFFICES ASSUME CrashesOutsideWindows, TypeInv, DueCoverage, [Next]_vars
             PROVE  DueCoverage'
  OBVIOUS
<1>1. ASSUME UNCHANGED <<rec, due, pc, call>> PROVE DueCoverage'
  BY <1>1 DEF DueCoverage, InHand, DueOf
<1>2. CASE Tick
  BY <1>1, <1>2 DEF Tick, jobVars
<1>3. ASSUME NEW p \in Dispatcher, Claim(p) PROVE DueCoverage'
  BY <1>3, CoverClaim
<1>4. ASSUME NEW p \in Dispatcher, Crash(p) PROVE DueCoverage'
  BY <1>4, CoverCrash
<1>5. ASSUME NEW p \in Dispatcher, NEW d \in Delivery, ProcessClaim(p, d)
      PROVE  DueCoverage'
  BY <1>5, CoverProcess
<1>6. ASSUME NEW c \in Caller, NEW d \in Delivery, ControlPlane(c, d)
      PROVE  DueCoverage'
  BY <1>6, CoverCall
<1>7. ASSUME NEW e \in Endpoint, NEW state \in {"enabled", "disabled", "deleted"},
             SetEndpoint(e, state)
      PROVE  DueCoverage'
  BY <1>1, <1>7 DEF SetEndpoint, jobVars
<1>8. CASE UNCHANGED vars
  BY <1>1, <1>8 DEF vars
<1> QED
  BY <1>2, <1>3, <1>4, <1>5, <1>6, <1>7, <1>8 DEF Next

\* Whatever the interleaving of dispatchers and control-plane calls, however
\* late a worker is, however many of them work on the same delivery after a
\* lease ran out, and wherever actors crash outside the windows: a non-terminal
\* delivery keeps a due entry or a live actor that will write it one.
THEOREM NothingStranded ==
    ASSUME CrashesOutsideWindows
    PROVE  Spec => []DueCoverage
<1>1. Init => DueCoverage
  BY DEF Init, DueCoverage, NonTerminal, AbsentRecord
<1>2. TypeInv /\ DueCoverage /\ [Next]_vars => (TypeInv /\ DueCoverage)'
  BY CoverStep, TypeStep
<1> QED
  BY <1>1, <1>2, TypeInit, PTL DEF Spec

------------------------------------------------------------------------------
(* The lease keeps a claim exclusive. What has to hold for it: workers are      *)
(* prompt, the lease is as long as the waves in which they work on a batch, and *)
(* replays of one delivery do not overlap. Crashes and failing steps may happen *)
(* anywhere.                                                                    *)

\* The steps at which a worker owns a delivery: before it has written the record, and between
\* that write and the write of the due entry.
BeforeWrite == {"queued", "sending", "log", "unindex_next", "unindex_lease", "write",
                "hold_unindex", "hold_write"}
Written == {"index", "hold_index"}
Unindexed == {"write", "hold_write", "index", "hold_index"}

Holds(p, d) == pc[p][d] \in BeforeWrite \cup Written

\* The record is the one the claim returned until its owner writes it.
Leased(d) ==
    \A p \in Dispatcher : pc[p][d] \in BeforeWrite =>
        rec[d] = snap[p][d] /\ rec[d].status = "delivering"

Released(d) ==
    \A p \in Dispatcher : pc[p][d] \in Written => rec[d].status = "pending"

OwnedOnce(d) ==
    \A p, q \in Dispatcher : Holds(p, d) /\ Holds(q, d) => p = q

\* A due entry is the only one, says when the lease of an owner runs out, and nobody is about to
\* write one.
ScheduledOnce(d) ==
    \A t \in Nat : <<t, d>> \in due =>
        /\ NonTerminal(rec[d])
        /\ \A p \in Dispatcher : pc[p][d] \in BeforeWrite => t = rec[d].leaseUntil
        /\ \A u \in Nat : <<u, d>> \in due => u = t
        /\ \A p \in Dispatcher : pc[p][d] \notin Unindexed
        /\ \A c \in Caller : call[c][d].pc # "call_index"

\* What a control-plane call read of the record still holds when it writes.
CallsInTurn(d) ==
    \A c \in Caller :
        /\ call[c][d].pc = "publish" =>
            /\ rec[d].status = "absent"
            /\ \A o \in Caller : call[o][d].pc = "publish" => o = c
        /\ call[c][d].pc \in {"retry", "recover"} =>
            rec[d] = call[c][d].snap /\ rec[d].status = "failed"
        /\ call[c][d].pc = "call_index" =>
            /\ rec[d].status = "pending"
            /\ \A p \in Dispatcher : ~Holds(p, d)
            /\ \A o \in Caller : call[o][d].pc = "call_index" => o = c

\* A live owner's lease has not run out.
OnTime(d) ==
    \A p \in Dispatcher :
        /\ pc[p][d] = "queued" => clock + AttemptTimeout + Headroom <= rec[d].leaseUntil
        /\ pc[p][d] \notin {"idle", "queued"} =>
            /\ begun[p][d] \in 0 .. clock
            /\ clock < begun[p][d] + AttemptTimeout + Headroom
        /\ pc[p][d] \in BeforeWrite \ {"queued"} =>
            begun[p][d] + AttemptTimeout + Headroom <= rec[d].leaseUntil

\* Only a failed attempt is planned to be repeated, and only while the schedule lasts.
PlanFits(p, d) ==
    pc[p][d] \in {"log", "unindex_next", "unindex_lease", "write"} =>
        /\ plan[p][d].outcome # "none"
        /\ plan[p][d].next # NoTime =>
            plan[p][d].outcome = "fail" /\ snap[p][d].attemptCount + 1 < ScheduleLength

Planned(d) == \A p \in Dispatcher : PlanFits(p, d)

Sound(d) ==
    /\ Leased(d)
    /\ Released(d)
    /\ OwnedOnce(d)
    /\ ScheduledOnce(d)
    /\ CallsInTurn(d)
    /\ OnTime(d)
    /\ Planned(d)

\* The longest that a prompt worker is busy with a claim.
Longest == AttemptTimeout + Headroom - 1

\* A batch is worked on in waves of Concurrency claims, and the lease outlasts all of them.
WavesFit(waves) == BatchSize <= waves * Concurrency /\ waves * Longest < leaseMs

Waves == CHOOSE waves \in 1 .. BatchSize : WavesFit(waves)

Queue(p) == {d \in Delivery : pc[p][d] = "queued"}

AtMost(set, n) == n \in Nat /\ IsFiniteSet(set) /\ Cardinality(set) <= n

\* The claims of p that wait, and those that were taken up after a time.
Remaining(p, from) == Queue(p) \cup {d \in Active(p) : begun[p][d] > from}

\* Wave k of the claims that p made at time s. A wave lasts as long as the longest claim: so at
\* its end every worker is busy with a claim that it took up in this wave, and the claims that
\* wait belong to the waves to come.
InWave(p, s, k) ==
    /\ \A d \in Queue(p) : snap[p][d].leaseUntil = s + leaseMs
    /\ clock <= s + k * Longest
    /\ AtMost(Remaining(p, s + (k - 1) * Longest), (Waves - k) * Concurrency)

\* No claim waits longer than for the last wave.
WavesInTime ==
    \A p \in Dispatcher : Queue(p) # {} => \E s \in Nat, k \in 0 .. Waves - 1 : InWave(p, s, k)

LeaseInv == TypeInv /\ WavesInTime /\ \A d \in Delivery : Sound(d)

\* The hypotheses: a claim is done within its timeout, and the lease lasts for a whole batch.
WorkersKeepUp == Prompt /\ IsFiniteSet(Delivery) /\ \E waves \in 1 .. BatchSize : WavesFit(waves)

\* Two replays of one delivery (retryDelivery, recoverEndpoint) do not overlap between their
\* read of the dead letter and their write of it.
ReplaysApart ==
    \A d \in Delivery, c, o \in Caller :
        call[c][d].pc \in {"retry", "recover"} /\ call[o][d].pc \in {"retry", "recover"} => c = o

LEMMA LeaseInit == Init => LeaseInv
<1> SUFFICES ASSUME Init PROVE LeaseInv
  OBVIOUS
<1>1. \A p \in Dispatcher : Queue(p) = {}
  BY DEF Init, Queue
<1>2. WavesInTime
  BY <1>1 DEF WavesInTime
<1>3. ASSUME NEW d \in Delivery PROVE Sound(d)
  BY DEF Init, Sound, Leased, Released, OwnedOnce, Holds, ScheduledOnce, CallsInTurn, OnTime,
         Planned, PlanFits, BeforeWrite, Written, IdleCall
<1> QED
  BY <1>2, <1>3, TypeInit DEF LeaseInv

\* What the waves of a batch come to.
LEMMA WavesFitLease ==
    ASSUME WorkersKeepUp
    PROVE  /\ Waves \in Nat \ {0} /\ BatchSize <= Waves * Concurrency /\ Waves * Longest < leaseMs
           /\ Longest \in Nat /\ Concurrency \in Nat \ {0} /\ leaseMs \in Nat
<1>1. Waves \in 1 .. BatchSize /\ WavesFit(Waves)
  BY DEF Waves, WorkersKeepUp
<1>2. Longest \in Nat /\ leaseMs \in Nat
  BY LeaseAssumption, LeaseIsNat DEF Longest
<1> QED
  BY <1>1, <1>2, SizeAssumption DEF WavesFit

LEMMA AtMostSubset ==
    ASSUME NEW set, NEW n, AtMost(set, n), NEW part \in SUBSET set
    PROVE  AtMost(part, n)
<1>1. IsFiniteSet(part) /\ Cardinality(part) <= Cardinality(set)
  BY FS_Subset DEF AtMost
<1>2. Cardinality(part) \in Nat /\ Cardinality(set) \in Nat
  BY <1>1, FS_CardinalityType DEF AtMost
<1> QED
  BY <1>1, <1>2 DEF AtMost

\* A batch fits the waves, and so does a part of it.
LEMMA BatchFits ==
    ASSUME WorkersKeepUp, NEW D \in SUBSET Delivery, Cardinality(D) <= BatchSize,
           NEW part \in SUBSET D
    PROVE  AtMost(part, Waves * Concurrency)
<1>1. IsFiniteSet(D) /\ Cardinality(D) \in Nat
  BY FS_Subset, FS_CardinalityType DEF WorkersKeepUp
<1>2. PICK most \in Nat : most = Waves * Concurrency /\ BatchSize <= most
  BY WavesFitLease
<1>3. AtMost(D, most)
  BY <1>1, <1>2, SizeAssumption DEF AtMost
<1> QED
  BY <1>2, <1>3, AtMostSubset

\* The claims of a dispatcher that moves none of them stay in their wave.
LEMMA WaveStays ==
    ASSUME WavesInTime, NEW p \in Dispatcher, clock' = clock,
           \A d \in Delivery :
              /\ pc'[p][d] = "queued" => pc[p][d] = "queued" /\ snap'[p][d] = snap[p][d]
              /\ pc'[p][d] \notin {"idle", "queued"} =>
                    \/ pc[p][d] = "queued"
                    \/ pc[p][d] # "idle" /\ begun'[p][d] = begun[p][d],
           Queue(p)' # {}
    PROVE  \E s \in Nat, k \in 0 .. Waves - 1 : InWave(p, s, k)'
<1>1. Queue(p)' \subseteq Queue(p)
  BY DEF Queue
<1>2. PICK s \in Nat, k \in 0 .. Waves - 1 : InWave(p, s, k)
  BY <1>1 DEF WavesInTime
<1>3. PICK from : from = s + (k - 1) * Longest
  OBVIOUS
<1>4. PICK left : left = Remaining(p, from)'
  OBVIOUS
<1>5. left \subseteq Remaining(p, from)
  BY <1>4 DEF Remaining, Queue, Active
<1>6. AtMost(left, (Waves - k) * Concurrency)
  BY <1>2, <1>3, <1>5, AtMostSubset DEF InWave
<1>9. Waves' = Waves /\ Longest' = Longest /\ leaseMs' = leaseMs
  BY DEF Waves, WavesFit, Longest, leaseMs
<1> QED
  BY <1>1, <1>2, <1>3, <1>4, <1>6, <1>9 DEF InWave, Queue, AtMost

\* A batch that is claimed is in its first wave.
LEMMA WaveBegins ==
    ASSUME WorkersKeepUp, WavesInTime, NEW p \in Dispatcher, clock \in Nat, UNCHANGED <<clock, begun>>,
           \A q \in Dispatcher, d \in Delivery : q # p => pc'[q][d] = pc[q][d] /\ snap'[q][d] = snap[q][d],
           NEW D \in SUBSET Delivery, AtMost(D, Waves * Concurrency),
           \A d \in Delivery : pc'[p][d] = IF d \in D THEN "queued" ELSE "idle",
           \A d \in D : snap'[p][d].leaseUntil = clock + leaseMs
    PROVE  WavesInTime'
<1>1. ASSUME NEW q \in Dispatcher, q # p, Queue(q)' # {}
      PROVE  \E s \in Nat, k \in 0 .. Waves - 1 : InWave(q, s, k)'
  BY <1>1, WaveStays
<1>2. Queue(p)' = D
  BY DEF Queue
<1>3. Active(p)' = {}
  BY DEF Active
<1>4. Remaining(p, clock + (0 - 1) * Longest)' = D
  BY <1>2, <1>3 DEF Remaining
<1>5. Waves' = Waves /\ Longest' = Longest /\ leaseMs' = leaseMs
  BY DEF Waves, WavesFit, Longest, leaseMs
<1>6. (Waves - 0) * Concurrency = Waves * Concurrency /\ clock <= clock + 0 * Longest
  BY WavesFitLease
<1>7. InWave(p, clock, 0)'
  BY <1>2, <1>4, <1>5, <1>6 DEF InWave, AtMost
<1>8. 0 \in 0 .. Waves - 1
  BY WavesFitLease
<1> QED
  BY <1>1, <1>7, <1>8 DEF WavesInTime

\* A step that adds nothing to what waits.
LEMMA WavesStay ==
    ASSUME WavesInTime, clock' = clock,
           \A q \in Dispatcher, d \in Delivery :
              /\ pc'[q][d] = "queued" => pc[q][d] = "queued" /\ snap'[q][d] = snap[q][d]
              /\ pc'[q][d] \notin {"idle", "queued"} =>
                    \/ pc[q][d] = "queued"
                    \/ pc[q][d] # "idle" /\ begun'[q][d] = begun[q][d]
    PROVE  WavesInTime'
BY WaveStays DEF WavesInTime

\* A step that leaves a delivery alone, or only removes due entries of it.
LEMMA LeaseFrame ==
    ASSUME NEW d \in Delivery, Sound(d), clock' = clock, rec'[d] = rec[d],
           \A q \in Dispatcher : /\ pc'[q][d] = pc[q][d] /\ snap'[q][d] = snap[q][d]
                                 /\ begun'[q][d] = begun[q][d] /\ plan'[q][d] = plan[q][d],
           \A c \in Caller : call'[c][d] = call[c][d],
           \A t \in Nat : <<t, d>> \in due' => <<t, d>> \in due
    PROVE  Sound(d)'
<1>1. Leased(d)' /\ Released(d)' /\ OwnedOnce(d)'
  BY DEF Sound, Leased, Released, OwnedOnce, Holds
<1>2. ScheduledOnce(d)'
  BY DEF Sound, ScheduledOnce, NonTerminal
<1>3. CallsInTurn(d)'
  BY DEF Sound, CallsInTurn, Holds
<1>4. OnTime(d)'
  BY DEF Sound, OnTime, leaseMs
<1>5. Planned(d)'
  BY DEF Sound, Planned, PlanFits
<1> QED
  BY <1>1, <1>2, <1>3, <1>4, <1>5 DEF Sound

\* The owner takes the claim up, or goes on with it without writing the record.
LEMMA LeaseMoves ==
    ASSUME TypeInv, NEW p \in Dispatcher, NEW d \in Delivery, Sound(d),
           NEW step \in BeforeWrite \ {"queued"}, Goto(p, d, step), pc[p][d] \in BeforeWrite,
           UNCHANGED <<clock, rec, snap, call>>,
           \A q \in Dispatcher : q # p => begun'[q][d] = begun[q][d],
           begun'[p][d] = (IF pc[p][d] = "queued" THEN clock ELSE begun[p][d]),
           \A t \in Nat : <<t, d>> \in due' => <<t, d>> \in due /\ step \notin Unindexed,
           PlanFits(p, d)'
    PROVE  Sound(d)'
<1>1. step \in JobPc /\ step \notin {"idle", "queued"} /\ step \in BeforeWrite /\ step \notin Written
  BY DEF BeforeWrite, Written, JobPc
<1>2. pc'[p][d] = step /\ \A q \in Dispatcher : q # p => pc'[q][d] = pc[q][d]
  BY <1>1, GotoTypes
<1>3. \A q \in Dispatcher : Holds(q, d) => q = p
  BY DEF Sound, OwnedOnce, Holds
<1>4. Leased(d)' /\ Released(d)' /\ OwnedOnce(d)'
  BY <1>1, <1>2, <1>3 DEF Sound, Leased, Released, OwnedOnce, Holds
<1>5. ScheduledOnce(d)'
  BY <1>2 DEF Sound, ScheduledOnce, NonTerminal
<1>6. CallsInTurn(d)'
  BY <1>2 DEF Sound, CallsInTurn, Leased, Holds
<1>7. OnTime(d)'
  <2>0. clock \in Nat
    BY DEF TypeInv, TypeOK
  <2>1. clock < clock + AttemptTimeout + Headroom
    BY <2>0, LeaseAssumption
  <2>2. leaseMs' = leaseMs
    BY DEF leaseMs
  <2> QED
    BY <1>1, <1>2, <2>0, <2>1, <2>2 DEF Sound, OnTime, BeforeWrite
<1>8. Planned(d)'
  BY <1>2, <1>3 DEF Planned, PlanFits, Holds, BeforeWrite
<1> QED
  BY <1>4, <1>5, <1>6, <1>7, <1>8 DEF Sound

\* The owner drops the claim, or a worker that owns nothing any more is done.
LEMMA LeaseDrops ==
    ASSUME TypeInv, NEW p \in Dispatcher, NEW d \in Delivery, Sound(d), pc'[p][d] = "idle",
           \A q \in Dispatcher : q # p => /\ pc'[q][d] = pc[q][d] /\ snap'[q][d] = snap[q][d]
                                          /\ begun'[q][d] = begun[q][d] /\ plan'[q][d] = plan[q][d],
           clock' = clock, rec' = rec, call' = call, due' = due
    PROVE  Sound(d)'
<1>1. Leased(d)' /\ Released(d)' /\ OwnedOnce(d)'
  BY DEF Sound, Leased, Released, OwnedOnce, Holds, BeforeWrite, Written
<1>2. ScheduledOnce(d)'
  BY DEF Sound, ScheduledOnce, NonTerminal, Unindexed, BeforeWrite
<1>3. CallsInTurn(d)'
  BY DEF Sound, CallsInTurn, Holds, BeforeWrite, Written
<1>4. OnTime(d)'
  BY DEF Sound, OnTime, leaseMs, BeforeWrite
<1>5. Planned(d)'
  BY DEF Sound, Planned, PlanFits
<1> QED
  BY <1>1, <1>2, <1>3, <1>4, <1>5 DEF Sound

\* The owner writes the record, which has no due entry then.
LEMMA LeaseWrites ==
    ASSUME TypeInv, NEW p \in Dispatcher, NEW d \in Delivery, Sound(d),
           NEW step \in JobPc, Goto(p, d, step), pc[p][d] \in {"write", "hold_write"},
           NEW r \in Record, rec' = [rec EXCEPT ![d] = r], r.status # "delivering",
           (step \in Written /\ r.status = "pending") \/ step = "note",
           UNCHANGED <<clock, due, snap, begun, call>>
    PROVE  Sound(d)'
<1>1. pc'[p][d] = step /\ \A q \in Dispatcher : q # p => pc'[q][d] = pc[q][d]
  BY GotoTypes
<1>2. \A q \in Dispatcher : q # p => ~Holds(q, d)
  BY DEF Sound, OwnedOnce, Holds, BeforeWrite
<1>3. rec'[d] = r /\ rec[d].status = "delivering"
  BY DEF Sound, Leased, TypeInv, TypeOK, BeforeWrite
<1>4. \A t \in Nat : <<t, d>> \notin due'
  BY DEF Sound, ScheduledOnce, Unindexed
<1>5. step \notin BeforeWrite /\ step \notin {"idle", "queued"} /\ (step \in Written => r.status = "pending")
  BY DEF BeforeWrite, Written
<1>6. Leased(d)' /\ Released(d)' /\ OwnedOnce(d)'
  BY <1>1, <1>2, <1>3, <1>5 DEF Leased, Released, OwnedOnce, Holds
<1>7. ScheduledOnce(d)'
  BY <1>4 DEF ScheduledOnce
<1>8. CallsInTurn(d)'
  BY <1>3 DEF Sound, CallsInTurn
<1>9. OnTime(d)'
  BY <1>1, <1>2, <1>5 DEF Sound, OnTime, Holds, BeforeWrite
<1>10. Planned(d)'
  BY <1>1, <1>2, <1>5 DEF Planned, PlanFits, Holds, BeforeWrite
<1> QED
  BY <1>6, <1>7, <1>8, <1>9, <1>10 DEF Sound

\* The owner writes the due entry and owns the delivery no longer.
LEMMA LeaseIndexes ==
    ASSUME TypeInv, NEW p \in Dispatcher, NEW d \in Delivery, Sound(d), pc[p][d] \in Written,
           pc'[p][d] = "idle" \/ (pc'[p][d] = "note" /\ begun'[p][d] = begun[p][d]),
           \A q \in Dispatcher : q # p => /\ pc'[q][d] = pc[q][d] /\ snap'[q][d] = snap[q][d]
                                          /\ begun'[q][d] = begun[q][d],
           NEW t \in Nat, due' = due \cup {<<t, d>>},
           UNCHANGED <<clock, rec, call>>
    PROVE  Sound(d)'
<1>1. \A q \in Dispatcher : q # p => ~Holds(q, d)
  BY DEF Sound, OwnedOnce, Holds
<1>2. rec[d].status = "pending"
  BY DEF Sound, Released
<1>3. \A u \in Nat : <<u, d>> \notin due
  BY DEF Sound, ScheduledOnce, Written, Unindexed
<1>4. \A q \in Dispatcher : ~Holds(q, d)'
  BY <1>1 DEF Holds, BeforeWrite, Written
<1>5. \A c \in Caller : call'[c][d].pc # "call_index"
  BY DEF Sound, CallsInTurn, Holds
<1>6. Leased(d)' /\ Released(d)' /\ OwnedOnce(d)'
  BY <1>4 DEF Leased, Released, OwnedOnce, Holds
<1>7. ScheduledOnce(d)'
  <2>1. \A q \in Dispatcher : pc'[q][d] \notin Unindexed
    BY <1>4 DEF Holds, Unindexed, BeforeWrite, Written
  <2> QED
    BY <1>2, <1>3, <1>4, <1>5, <2>1 DEF ScheduledOnce, NonTerminal, Holds
<1>8. CallsInTurn(d)'
  BY <1>4, <1>5 DEF Sound, CallsInTurn
<1>9. OnTime(d)'
  BY <1>1 DEF Sound, OnTime, Holds, leaseMs, BeforeWrite, Written
<1>10. Planned(d)'
  BY <1>4 DEF Planned, PlanFits, Holds, BeforeWrite
<1> QED
  BY <1>6, <1>7, <1>8, <1>9, <1>10 DEF Sound

\* The lease of a claim that is worked on has not run out.
LEMMA LeaseOutlasts ==
    ASSUME NEW q \in Dispatcher, NEW d \in Delivery, OnTime(d), pc[q][d] \in BeforeWrite,
           clock \in Nat, rec[d] \in Record
    PROVE  clock < rec[d].leaseUntil
<1>1. AttemptTimeout + Headroom \in Nat \ {0} /\ rec[d].leaseUntil \in Int
  BY LeaseAssumption DEF Record, TimeOrNone, NoTime
<1>2. CASE pc[q][d] = "queued"
  BY <1>1, <1>2, LeaseAssumption DEF OnTime
<1>3. CASE pc[q][d] # "queued"
  BY <1>1, <1>3, LeaseAssumption DEF OnTime, BeforeWrite
<1> QED
  BY <1>2, <1>3

\* Claiming: no worker owns what is claimed, for its lease ran out, and its only due entry moves
\* to the expiry of the new lease.
LEMMA LeaseClaim ==
    ASSUME WorkersKeepUp, LeaseInv, NEW p \in Dispatcher, Claim(p)
    PROVE  WavesInTime' /\ \A d \in Delivery : Sound(d)'
<1>1. PICK D \in SUBSET Candidates, swept \in SUBSET Orphans :
          ScanResult(D, swept) /\ ClaimAll(p, D, swept)
  BY DEF Claim
<1>2. /\ D \subseteq Delivery /\ \A d \in Delivery : pc[p][d] = "idle"
      /\ UNCHANGED <<clock, begun, plan, call>>
  BY <1>1 DEF Candidates, Claim
<1>3. \A q \in Dispatcher, d \in Delivery : q # p => pc'[q][d] = pc[q][d] /\ snap'[q][d] = snap[q][d]
  BY <1>1 DEF ClaimAll, LeaseInv, TypeInv, TypeOK
<1>4. \A d \in Delivery : pc'[p][d] = IF d \in D THEN "queued" ELSE "idle"
  BY <1>1 DEF ClaimAll, LeaseInv, TypeInv, TypeOK
<1>5. WavesInTime'
  <2>1. AtMost(D, Waves * Concurrency)
    BY <1>1, <1>2, BatchFits DEF ScanResult
  <2>2. \A d \in D : snap'[p][d].leaseUntil = clock + leaseMs
    <3> SUFFICES ASSUME NEW d \in D PROVE snap'[p][d].leaseUntil = clock + leaseMs
      OBVIOUS
    <3>1. d \in Delivery /\ rec[d] \in Record
      BY <1>2 DEF LeaseInv, TypeInv, TypeOK
    <3>2. rec'[d] = [rec[d] EXCEPT !.status = "delivering", !.leaseUntil = clock + leaseMs]
      BY <1>1, <3>1 DEF ClaimAll
    <3>3. snap'[p][d] = rec'[d]
      BY <1>1, <3>1 DEF ClaimAll, LeaseInv, TypeInv, TypeOK
    <3> QED
      BY <3>1, <3>2, <3>3 DEF Record
  <2> QED
    BY <1>2, <1>3, <1>4, <2>1, <2>2, WaveBegins DEF LeaseInv, TypeInv, TypeOK
<1>6. ASSUME NEW d \in D PROVE Sound(d)'
  <2>0. d \in Delivery /\ Sound(d) /\ clock \in Nat /\ rec[d] \in Record
    BY <1>2 DEF LeaseInv, TypeInv, TypeOK
  <2>1. PICK t \in 0 .. clock : <<t, d>> \in due
    BY <1>1 DEF Candidates, RipeAt
  <2>2. /\ rec[d].status \in {"pending", "delivering"} /\ t \in Nat
        /\ \A q \in Dispatcher : pc[q][d] \in BeforeWrite => rec[d].leaseUntil = t
        /\ \A u \in Nat : <<u, d>> \in due => u = t
        /\ \A q \in Dispatcher : pc[q][d] \notin Unindexed
        /\ \A c \in Caller : call[c][d].pc # "call_index"
    BY <2>0, <2>1 DEF Sound, ScheduledOnce, NonTerminal
  <2>3. \A q \in Dispatcher : ~Holds(q, d)
    <3> SUFFICES ASSUME NEW q \in Dispatcher, Holds(q, d) PROVE FALSE
      OBVIOUS
    <3>1. pc[q][d] \in BeforeWrite
      BY <2>2 DEF Holds, Written, Unindexed
    <3>2. rec[d].leaseUntil = t
      BY <2>0, <2>2, <3>1 DEF Sound, Leased
    <3>3. clock < rec[d].leaseUntil
      BY <2>0, <3>1, LeaseOutlasts DEF Sound
    <3> QED
      BY <2>0, <2>1, <3>2, <3>3
  <2>4. FirstDue(d) = t
    <3>1. RipeAt(d) = {t}
      BY <2>1, <2>2, <2>0 DEF RipeAt
    <3> QED
      BY <2>1, <3>1 DEF FirstDue
  <2>5. /\ clock + leaseMs \in Nat /\ leaseMs' = leaseMs /\ clock' = clock
        /\ clock + AttemptTimeout + Headroom <= clock + leaseMs
    BY <1>2, <2>0, LeaseIsNat, LeaseAssumption DEF leaseMs
  <2>6. /\ rec'[d] = snap'[p][d]
        /\ rec'[d].status = "delivering" /\ rec'[d].leaseUntil = clock + leaseMs
    BY <1>1, <2>0 DEF ClaimAll, LeaseInv, TypeInv, TypeOK, Record
  <2>7. \A u \in Nat : <<u, d>> \in due' => u = clock + leaseMs
    <3> SUFFICES ASSUME NEW u \in Nat, <<u, d>> \in due', u # clock + leaseMs PROVE FALSE
      OBVIOUS
    <3>1. <<u, d>> \in due
      BY <1>1 DEF ClaimAll
    <3>2. <<u, d>> = <<FirstDue(d), d>>
      BY <2>2, <2>4, <3>1
    <3> QED
      BY <1>1, <3>2 DEF ClaimAll
  <2>8. pc'[p][d] = "queued" /\ \A q \in Dispatcher : q # p => ~Holds(q, d)'
    BY <1>3, <1>4, <2>0, <2>3 DEF Holds
  <2>9. Leased(d)' /\ Released(d)' /\ OwnedOnce(d)'
    BY <2>6, <2>8 DEF Leased, Released, OwnedOnce, Holds, Written
  <2>10. ScheduledOnce(d)'
    <3>1. \A q \in Dispatcher : pc'[q][d] \notin Unindexed
      BY <2>8 DEF Holds, Unindexed, BeforeWrite, Written
    <3> QED
      BY <1>2, <2>2, <2>6, <2>7, <3>1 DEF ScheduledOnce, NonTerminal
  <2>11. CallsInTurn(d)'
    BY <1>2, <2>0, <2>2, <2>6 DEF Sound, CallsInTurn
  <2>12. OnTime(d)'
    BY <1>2, <1>3, <2>0, <2>5, <2>6, <2>8 DEF Sound, OnTime, Holds, BeforeWrite
  <2>13. Planned(d)'
    BY <2>8 DEF Planned, PlanFits, Holds, BeforeWrite
  <2> QED
    BY <2>9, <2>10, <2>11, <2>12, <2>13 DEF Sound
<1>7. ASSUME NEW d \in Delivery \ D PROVE Sound(d)'
  <2>0. Sound(d) /\ rec'[d] = rec[d] /\ pc'[p][d] = "idle" /\ pc[p][d] = "idle"
    BY <1>1, <1>2, <1>4, <1>7 DEF ClaimAll, LeaseInv
  <2>1. \A t \in Nat : <<t, d>> \in due' => <<t, d>> \in due
    BY <1>1, <1>7 DEF ClaimAll
  <2>2. \A q \in Dispatcher : pc'[q][d] = pc[q][d]
    BY <1>3, <2>0
  <2>3. leaseMs' = leaseMs
    BY DEF leaseMs
  <2>4. Leased(d)' /\ Released(d)' /\ OwnedOnce(d)'
    BY <1>3, <2>0, <2>2 DEF Sound, Leased, Released, OwnedOnce, Holds, BeforeWrite
  <2>5. ScheduledOnce(d)'
    BY <1>2, <2>0, <2>1, <2>2 DEF Sound, ScheduledOnce, NonTerminal
  <2>6. CallsInTurn(d)' /\ OnTime(d)'
    BY <1>2, <2>0, <2>2, <2>3 DEF Sound, CallsInTurn, OnTime, Holds
  <2>7. Planned(d)'
    BY <1>2, <1>3, <2>0, <2>2 DEF Sound, Planned, PlanFits
  <2> QED
    BY <2>4, <2>5, <2>6, <2>7 DEF Sound
<1> QED
  BY <1>5, <1>6, <1>7

\* A step of p on one delivery leaves the others, and the calls, as they are, and takes up no
\* further claim.
LEMMA ProcessFrame ==
    ASSUME TypeInv, NEW p \in Dispatcher, NEW d \in Delivery, ProcessClaim(p, d)
    PROVE  /\ clock' = clock /\ call' = call
           /\ \A q \in Dispatcher, e \in Delivery : ~(q = p /\ e = d) =>
                /\ pc'[q][e] = pc[q][e] /\ snap'[q][e] = snap[q][e]
                /\ begun'[q][e] = begun[q][e] /\ plan'[q][e] = plan[q][e]
           /\ \A e \in Delivery : e # d => rec'[e] = rec[e]
           /\ \A e \in Delivery, t \in Nat : e # d => (<<t, e>> \in due' <=> <<t, e>> \in due)
           /\ pc[p][d] = "idle" => pc'[p][d] = "idle"
           /\ WavesInTime => WavesInTime'
<1>1. clock' = clock /\ call' = call
  BY DEF ProcessClaim, StartAttempt, FailTerminal, HoldDisabled, TakeUp, HoldUnindex, HoldWrite,
         HoldIndex, Respond, LogAttempt, UnindexNext, UnindexLease, WriteOutcome, IndexNext,
         NoteOutcome, StepFails
<1>2. PICK step \in JobPc \ {"queued"} : Goto(p, d, step) /\ (pc[p][d] = "idle" => step = "idle")
  <2>1. CASE StepFails(p, d)
    BY <2>1 DEF StepFails, Finish, JobPc
  <2>2. CASE WriteOutcome(p, d)
    BY <2>2 DEF WriteOutcome, At, JobPc
  <2>3. CASE ~StepFails(p, d) /\ ~WriteOutcome(p, d)
    <3>1. \E step \in {"sending", "log", "hold_unindex", "hold_write", "hold_index", "idle",
                       "unindex_next", "unindex_lease", "write", "note"} :
            Goto(p, d, step) /\ pc[p][d] # "idle"
      BY <2>3 DEF ProcessClaim, StartAttempt, FailTerminal, HoldDisabled, TakeUp, HoldUnindex,
             HoldWrite, HoldIndex, Respond, LogAttempt, UnindexNext, UnindexLease, IndexNext,
             NoteOutcome, Finish, At
    <3> QED
      BY <3>1 DEF JobPc
  <2> QED
    BY <2>1, <2>2, <2>3
<1>3. \A q \in Dispatcher, e \in Delivery : pc'[q][e] = IF q = p /\ e = d THEN step ELSE pc[q][e]
  BY <1>2, GotoTypes
<1>4. \A q \in Dispatcher, e \in Delivery :
        ~(q = p /\ e = d) =>
            snap'[q][e] = snap[q][e] /\ begun'[q][e] = begun[q][e] /\ plan'[q][e] = plan[q][e]
  BY DEF ProcessClaim, StartAttempt, FailTerminal, HoldDisabled, TakeUp, HoldUnindex, HoldWrite,
         HoldIndex, Respond, LogAttempt, UnindexNext, UnindexLease, WriteOutcome, IndexNext,
         NoteOutcome, StepFails, Finish, TypeInv, TypeOK
<1>5. \A e \in Delivery : e # d => rec'[e] = rec[e]
  BY DEF ProcessClaim, StartAttempt, FailTerminal, HoldDisabled, TakeUp, HoldUnindex, HoldWrite,
         HoldIndex, Respond, LogAttempt, UnindexNext, UnindexLease, WriteOutcome, IndexNext,
         NoteOutcome, StepFails, TypeInv, TypeOK
<1>6. \A e \in Delivery, t \in Nat : e # d => (<<t, e>> \in due' <=> <<t, e>> \in due)
  BY DEF ProcessClaim, StartAttempt, FailTerminal, HoldDisabled, TakeUp, HoldUnindex, HoldWrite,
         HoldIndex, Respond, LogAttempt, UnindexNext, UnindexLease, WriteOutcome, IndexNext,
         NoteOutcome, StepFails
<1>7. ASSUME WavesInTime PROVE WavesInTime'
  <2>1. \/ pc'[p][d] = "idle" \/ pc[p][d] = "queued"
        \/ pc[p][d] # "idle" /\ begun'[p][d] = begun[p][d]
    <3>1. CASE Finish(p, d)
      BY <3>1, FinishTypes
    <3>2. CASE \E newStep, pl : TakeUp(p, d, newStep, pl)
      BY <3>2 DEF TakeUp, At
    <3>3. CASE begun' = begun
      BY <1>2, <1>3, <3>3
    <3> QED
      BY <3>1, <3>2, <3>3 DEF ProcessClaim, StartAttempt, FailTerminal, HoldDisabled, HoldUnindex,
         HoldWrite, HoldIndex, Respond, LogAttempt, UnindexNext, UnindexLease, WriteOutcome,
         IndexNext, NoteOutcome, StepFails
  <2>2. pc'[p][d] # "queued"
    BY <1>2, <1>3
  <2> QED
    BY <1>1, <1>3, <1>4, <1>7, <2>1, <2>2, WaveStays DEF WavesInTime
<1> QED
  BY <1>1, <1>3, <1>4, <1>5, <1>6, <1>7, <1>2

LEMMA LeaseOthers ==
    ASSUME LeaseInv, NEW p \in Dispatcher, NEW d \in Delivery, ProcessClaim(p, d)
    PROVE  /\ \A e \in Delivery : e # d => Sound(e)'
           /\ WavesInTime' /\ clock' = clock /\ call' = call
<1>1. clock' = clock /\ call' = call /\ WavesInTime'
  BY ProcessFrame DEF LeaseInv
<1>2. ASSUME NEW e \in Delivery, e # d PROVE Sound(e)'
  BY <1>1, <1>2, ProcessFrame, LeaseFrame DEF LeaseInv
<1> QED
  BY <1>1, <1>2

\* Processing a claim, step by step.
LEMMA LeaseProcess ==
    ASSUME LeaseInv, NEW p \in Dispatcher, NEW d \in Delivery, ProcessClaim(p, d)
    PROVE  WavesInTime' /\ \A e \in Delivery : Sound(e)'
<1> SUFFICES Sound(d)'
  BY LeaseOthers
<1>0. TypeInv /\ Sound(d) /\ clock' = clock /\ call' = call
  BY LeaseOthers DEF LeaseInv
<1>a. {"sending", "log", "hold_unindex", "unindex_next", "unindex_lease", "write", "hold_write"}
        \subseteq BeforeWrite \ {"queued"}
  BY DEF BeforeWrite
<1>b. ASSUME NEW step, NEW pl, TakeUp(p, d, step, pl), step \in {"sending", "log", "hold_unindex"},
             step = "log" => pl.outcome # "none" /\ pl.next = NoTime
      PROVE  Sound(d)'
  <2>1. Goto(p, d, step) /\ pc[p][d] = "queued" /\ UNCHANGED <<clock, rec, snap, call, due>>
    BY <1>b DEF TakeUp, At
  <2>2. /\ \A q \in Dispatcher : q # p => begun'[q][d] = begun[q][d]
        /\ begun'[p][d] = clock
    BY <1>0, <1>b DEF TakeUp, TypeInv, TypeOK
  <2>3. step \in BeforeWrite \ {"queued"} /\ step \notin Unindexed /\ "queued" \in BeforeWrite
    BY <1>b DEF BeforeWrite, Unindexed
  <2>4. PlanFits(p, d)'
    BY <1>0, <1>b, <2>1 DEF TakeUp, Goto, TypeInv, TypeOK, PlanFits
  <2> QED
    BY <1>0, <2>1, <2>2, <2>3, <2>4, LeaseMoves
<1>c. ASSUME NEW step \in {"log", "unindex_next", "unindex_lease"}, Goto(p, d, step), PlanFits(p, d)',
             pc[p][d] \in BeforeWrite \ {"queued"}, UNCHANGED <<clock, rec, snap, call, begun>>,
             due' \subseteq due
      PROVE  Sound(d)'
  <2>1. step \in BeforeWrite \ {"queued"} /\ step \notin Unindexed
    BY <1>c DEF BeforeWrite, Unindexed
  <2> QED
    BY <1>0, <1>c, <2>1, LeaseMoves
<1>d. ASSUME NEW step \in {"write", "hold_write"}, Goto(p, d, step),
             pc[p][d] \in BeforeWrite \ {"queued"}, UNCHANGED <<clock, rec, snap, call, begun>>,
             due' = due \ {<<snap[p][d].leaseUntil, d>>},
             step = "write" => plan' = plan /\ pc[p][d] = "unindex_lease"
      PROVE  Sound(d)'
  <2>1. step \in BeforeWrite \ {"queued"}
    BY <1>d DEF BeforeWrite
  <2>2. \A t \in Nat : <<t, d>> \notin due'
    BY <1>0, <1>d DEF Sound, ScheduledOnce, Leased
  <2>3. PlanFits(p, d)'
    BY <1>0, <1>d DEF Goto, TypeInv, TypeOK, Sound, Planned, PlanFits
  <2> QED
    BY <1>0, <1>d, <2>1, <2>2, <2>3, LeaseMoves
<1>e. ASSUME Finish(p, d), UNCHANGED <<clock, rec, call, due>> PROVE Sound(d)'
  <2>1. /\ pc'[p][d] = "idle"
        /\ \A q \in Dispatcher : q # p => /\ pc'[q][d] = pc[q][d] /\ snap'[q][d] = snap[q][d]
                                          /\ begun'[q][d] = begun[q][d] /\ plan'[q][d] = plan[q][d]
    BY <1>0, <1>e DEF Finish, Goto, TypeInv, TypeOK
  <2> QED
    BY <1>0, <1>e, <2>1, LeaseDrops
<1>1. CASE StartAttempt(p, d)
  BY <1>1, <1>b DEF StartAttempt
<1>2. CASE FailTerminal(p, d)
  BY <1>2, <1>b DEF FailTerminal
<1>3. CASE HoldDisabled(p, d)
  BY <1>3, <1>b DEF HoldDisabled
<1>4. CASE HoldUnindex(p, d)
  BY <1>4, <1>a, <1>d DEF HoldUnindex, At
<1>5. CASE HoldWrite(p, d)
  <2> DEFINE held == [snap[p][d] EXCEPT !.status = "pending",
                        !.nextAttemptAt = plan[p][d].next, !.leaseUntil = NoTime]
  <2>1. snap[p][d] \in Record /\ plan[p][d].next \in TimeOrNone
    BY <1>0 DEF TypeInv, TypeOK, Plan
  <2>2. held \in Record /\ held.status = "pending"
    BY <2>1, HeldType DEF Record
  <2>3. rec' = [rec EXCEPT ![d] = held] /\ UNCHANGED <<clock, due, snap, begun, call>>
    BY <1>5 DEF HoldWrite
  <2>4. Goto(p, d, "hold_index") /\ "hold_index" \in JobPc /\ "hold_index" \in Written
        /\ pc[p][d] = "hold_write"
    BY <1>5 DEF HoldWrite, At, JobPc, Written
  <2> HIDE DEF held
  <2> QED
    BY <1>0, <2>2, <2>3, <2>4, LeaseWrites
<1>6. CASE HoldIndex(p, d)
  <2>1. /\ pc'[p][d] = "idle" /\ pc[p][d] \in Written
        /\ \A q \in Dispatcher : q # p => /\ pc'[q][d] = pc[q][d] /\ snap'[q][d] = snap[q][d]
                                          /\ begun'[q][d] = begun[q][d]
    BY <1>0, <1>6 DEF HoldIndex, At, Finish, Goto, TypeInv, TypeOK, Written
  <2>2. plan[p][d].next \in Nat
    BY <1>0, <1>6 DEF HoldIndex, At, TypeInv, TimesPlanned
  <2>3. due' = due \cup {<<plan[p][d].next, d>>} /\ UNCHANGED <<clock, rec, call>>
    BY <1>6 DEF HoldIndex
  <2> QED
    BY <1>0, <2>1, <2>2, <2>3, LeaseIndexes
<1>7. CASE Respond(p, d)
  <2>1. PlanFits(p, d)'
    <3> DEFINE made == snap[p][d].attemptCount + 1
    <3>1. PICK pl : /\ plan' = [plan EXCEPT ![p][d] = pl]
                    /\ \/ pl = [outcome |-> "ok", next |-> NoTime]
                       \/ \E t \in NextTimes(made) : pl = [outcome |-> "fail", next |-> t]
      BY <1>7 DEF Respond
    <3>2. made \in Int /\ ScheduleLength \in Int
      BY <1>0, ScheduleAssumption DEF TypeInv, TypeOK, Record
    <3> HIDE DEF made
    <3>3. pl.outcome # "none" /\ (pl.next # NoTime => pl.outcome = "fail" /\ made < ScheduleLength)
      BY <3>1, <3>2 DEF NextTimes
    <3>4. plan'[p][d] = pl /\ snap' = snap
      BY <1>0, <1>7, <3>1 DEF Respond, TypeInv, TypeOK
    <3> QED
      BY <3>3, <3>4 DEF PlanFits, made
  <2> QED
    BY <1>7, <1>a, <1>c, <2>1 DEF Respond, At
<1>8. CASE LogAttempt(p, d)
  <2>1. PlanFits(p, d)'
    BY <1>0, <1>8 DEF LogAttempt, At, Goto, TypeInv, TypeOK, Sound, Planned, PlanFits
  <2> QED
    BY <1>8, <1>a, <1>c, <2>1 DEF LogAttempt, At
<1>9. CASE UnindexNext(p, d)
  <2>1. due' \subseteq due /\ pc[p][d] = "unindex_next" /\ Goto(p, d, "unindex_lease")
        /\ UNCHANGED <<clock, rec, snap, call, begun>>
    BY <1>9 DEF UnindexNext, At
  <2>2. PlanFits(p, d)'
    BY <1>0, <1>9 DEF UnindexNext, At, Goto, TypeInv, TypeOK, Sound, Planned, PlanFits
  <2> QED
    BY <1>a, <1>c, <2>1, <2>2
<1>10. CASE UnindexLease(p, d)
  BY <1>10, <1>a, <1>d DEF UnindexLease, At
<1>11. CASE WriteOutcome(p, d)
  <2> DEFINE r == Outcome(snap[p][d], plan[p][d])
             step == IF plan[p][d].next # NoTime THEN "index" ELSE "note"
  <2>1. snap[p][d] \in Record /\ plan[p][d] \in Plan
    BY <1>0 DEF TypeInv, TypeOK
  <2>2. r \in Record /\ r.status # "delivering" /\ (step = "index" => r.status = "pending")
    <3>1. r.status = CASE plan[p][d].outcome = "ok" -> "succeeded"
                       [] plan[p][d].outcome # "ok" /\ plan[p][d].next # NoTime -> "pending"
                       [] OTHER -> "failed"
      BY <2>1 DEF Outcome, Record
    <3>2. step = "index" => plan[p][d].next # NoTime /\ plan[p][d].outcome = "fail"
      BY <1>0, <1>11 DEF WriteOutcome, At, Sound, Planned, PlanFits
    <3> HIDE DEF r, step
    <3>3. r.status # "delivering" /\ (step = "index" => r.status = "pending")
      BY <3>1, <3>2
    <3> QED
      BY <2>1, <3>3, OutcomeType DEF r
  <2>3. rec' = [rec EXCEPT ![d] = r] /\ UNCHANGED <<clock, due, snap, begun, call>>
    BY <1>11 DEF WriteOutcome
  <2>4. Goto(p, d, step) /\ step \in JobPc /\ pc[p][d] = "write"
        /\ ((step \in Written /\ step = "index") \/ step = "note")
    BY <1>11 DEF WriteOutcome, At, JobPc, Written
  <2> HIDE DEF r, step
  <2> QED
    BY <1>0, <2>2, <2>3, <2>4, LeaseWrites
<1>12. CASE IndexNext(p, d)
  <2>1. /\ pc'[p][d] = "note" /\ begun' = begun /\ pc[p][d] \in Written
        /\ \A q \in Dispatcher : q # p => pc'[q][d] = pc[q][d] /\ snap'[q][d] = snap[q][d]
    BY <1>0, <1>12 DEF IndexNext, At, Goto, TypeInv, TypeOK, Written
  <2>2. plan[p][d].next \in Nat
    BY <1>0, <1>12 DEF IndexNext, At, TypeInv, TimesPlanned
  <2>3. due' = due \cup {<<plan[p][d].next, d>>} /\ UNCHANGED <<clock, rec, call>>
    BY <1>12 DEF IndexNext
  <2> QED
    BY <1>0, <2>1, <2>2, <2>3, LeaseIndexes
<1>13. CASE NoteOutcome(p, d)
  BY <1>13, <1>e DEF NoteOutcome
<1>14. CASE StepFails(p, d)
  BY <1>14, <1>e DEF StepFails
<1> QED
  BY <1>1, <1>2, <1>3, <1>4, <1>5, <1>6, <1>7, <1>8, <1>9, <1>10, <1>11, <1>12, <1>13,
     <1>14 DEF ProcessClaim

\* The claims of a crashed dispatcher are dropped, all at once.
LEMMA LeaseCrash ==
    ASSUME LeaseInv, NEW p \in Dispatcher, Crash(p)
    PROVE  WavesInTime' /\ \A d \in Delivery : Sound(d)'
<1>1. \A q \in Dispatcher, d \in Delivery :
        /\ q = p => pc'[q][d] = "idle"
        /\ q # p => /\ pc'[q][d] = pc[q][d] /\ snap'[q][d] = snap[q][d]
                    /\ begun'[q][d] = begun[q][d] /\ plan'[q][d] = plan[q][d]
  BY DEF Crash, LeaseInv, TypeInv, TypeOK
<1>2. ASSUME NEW d \in Delivery PROVE Sound(d)'
  BY <1>1, LeaseDrops DEF Crash, LeaseInv
<1>3. WavesInTime'
  <2>1. Queue(p)' = {} /\ clock' = clock
    BY <1>1 DEF Queue, Crash
  <2> QED
    BY <1>1, <2>1, WaveStays DEF WavesInTime, LeaseInv
<1> QED
  BY <1>2, <1>3

\* The clock moves on only when nobody is late.
LEMMA NobodyLate ==
    ASSUME WorkersKeepUp, TypeInv, Tick, NEW p \in Dispatcher, NEW d \in Delivery, OnTime(d)
    PROVE  /\ pc[p][d] = "queued" => Concurrency <= Cardinality(Active(p))
           /\ pc[p][d] \notin {"idle", "queued"} =>
                clock + 1 < begun[p][d] + AttemptTimeout + Headroom
<1>1. ~Overdue(p, d)
  BY DEF Tick, WorkersKeepUp
<1>2. Active(p) \subseteq Delivery
  BY DEF Active
<1>3. Cardinality(Active(p)) \in Nat
  BY <1>2, FS_Subset, FS_CardinalityType DEF WorkersKeepUp
<1>4. pc[p][d] = "queued" => Concurrency <= Cardinality(Active(p))
  BY <1>1, <1>3, SizeAssumption DEF Overdue, At, FreeWorker
<1>5. pc[p][d] \notin {"idle", "queued"} => begun[p][d] \in Nat /\ clock \in Nat
  BY DEF OnTime, TypeInv, TypeOK
<1> QED
  BY <1>1, <1>4, <1>5, LeaseAssumption DEF Overdue, Active

\* At the end of a wave, which no claim in work began before, what waits is of the waves to come.
LEMMA WaveEnds ==
    ASSUME WorkersKeepUp, TypeInv, Tick, NEW p \in Dispatcher, \A d \in Delivery : OnTime(d),
           NEW waiting \in Queue(p), NEW s \in Nat, NEW k \in 0 .. Waves - 1, InWave(p, s, k),
           clock = s + k * Longest
    PROVE  AtMost(Queue(p), (Waves - (k + 1)) * Concurrency) /\ k + 1 \in 0 .. Waves - 1
<1>0. clock \in Nat /\ waiting \in Delivery /\ Waves \in Nat /\ Longest \in Nat
  BY WavesFitLease DEF TypeInv, TypeOK, Queue
<1>1. PICK from : from = s + (k - 1) * Longest
  OBVIOUS
<1>2. from \in Int /\ clock = from + Longest
  <2>1. k * Longest \in Int /\ (k - 1) * Longest = k * Longest - Longest
    BY <1>0
  <2> QED
    BY <1>0, <1>1, <2>1
<1>3. \A d \in Active(p) : begun[p][d] > from
  <2> SUFFICES ASSUME NEW d \in Active(p) PROVE begun[p][d] > from
    OBVIOUS
  <2>0. d \in Delivery /\ pc[p][d] \notin {"idle", "queued"}
    BY DEF Active
  <2>1. clock + 1 < begun[p][d] + AttemptTimeout + Headroom
    BY <2>0, NobodyLate
  <2>2. begun[p][d] \in Nat
    BY <1>0, <2>0 DEF OnTime
  <2> QED
    BY <1>0, <1>2, <2>1, <2>2, LeaseAssumption DEF Longest
<1>4. Remaining(p, from) = Queue(p) \cup Active(p)
  BY <1>3 DEF Remaining
<1>5. Concurrency <= Cardinality(Active(p))
  BY NobodyLate DEF Queue
<1>6. /\ IsFiniteSet(Queue(p)) /\ Cardinality(Queue(p)) \in Nat /\ 1 <= Cardinality(Queue(p))
      /\ IsFiniteSet(Active(p)) /\ Cardinality(Active(p)) \in Nat
  <2>1. Queue(p) \subseteq Delivery /\ Active(p) \subseteq Delivery
    BY DEF Queue, Active
  <2>2. IsFiniteSet(Queue(p)) /\ IsFiniteSet(Active(p))
    BY <2>1, FS_Subset DEF WorkersKeepUp
  <2>3. Cardinality(Queue(p)) # 0
    BY <2>2, FS_EmptySet
  <2> QED
    BY <2>2, <2>3, FS_CardinalityType
<1>7. Cardinality(Queue(p)) + Cardinality(Active(p)) = Cardinality(Queue(p) \cup Active(p))
  <2>1. Queue(p) \cap Active(p) = {}
    BY DEF Queue, Active
  <2>2. Cardinality(Queue(p) \cap Active(p)) = 0
    BY <2>1, FS_EmptySet
  <2>3. Cardinality(Queue(p) \cup Active(p)) =
            Cardinality(Queue(p)) + Cardinality(Active(p)) - Cardinality(Queue(p) \cap Active(p))
    BY <1>6, FS_Union
  <2> QED
    BY <1>6, <2>2, <2>3
<1>8. PICK bound \in Nat : bound = (Waves - k) * Concurrency /\ Cardinality(Queue(p) \cup Active(p)) <= bound
  BY <1>1, <1>4 DEF InWave, AtMost
<1>9. (Waves - (k + 1)) * Concurrency = bound - Concurrency /\ Concurrency \in Nat \ {0}
  BY <1>0, <1>8, WavesFitLease
<1>10. Cardinality(Queue(p)) <= bound - Concurrency /\ bound - Concurrency \in Nat \ {0}
  BY <1>5, <1>6, <1>7, <1>8, <1>9
<1>11. k + 1 # Waves
  <2>1. k + 1 = Waves => (Waves - (k + 1)) * Concurrency = 0
    BY <1>0, <1>9
  <2> QED
    BY <1>9, <1>10, <2>1
<1> QED
  BY <1>0, <1>6, <1>9, <1>10, <1>11 DEF AtMost

\* As the clock moves on, claims wait for the same wave or for the next one.
LEMMA WavesTick ==
    ASSUME WorkersKeepUp, TypeInv, WavesInTime, Tick, \A d \in Delivery : OnTime(d)
    PROVE  WavesInTime'
<1>0. UNCHANGED <<pc, snap, begun>> /\ clock' = clock + 1 /\ clock \in Nat
  BY DEF Tick, jobVars, TypeInv, TypeOK
<1> SUFFICES ASSUME NEW p \in Dispatcher, Queue(p)' # {}
             PROVE  \E s \in Nat, k \in 0 .. Waves - 1 : InWave(p, s, k)'
  BY DEF WavesInTime, Waves, WavesFit, leaseMs, Longest
<1>1. PICK waiting \in Queue(p) : Queue(p)' = Queue(p)
  BY <1>0 DEF Queue
<1>2. PICK s \in Nat, k \in 0 .. Waves - 1 : InWave(p, s, k)
  BY <1>1 DEF WavesInTime
<1>3. Waves' = Waves /\ Longest' = Longest /\ leaseMs' = leaseMs
  BY DEF Waves, WavesFit, Longest, leaseMs
<1>4. Waves \in Nat \ {0} /\ Longest \in Nat /\ k * Longest \in Nat
  BY WavesFitLease
<1>5. \A d \in Queue(p)' : snap'[p][d].leaseUntil = s + leaseMs
  BY <1>0, <1>1, <1>2 DEF InWave
<1>6. CASE clock + 1 <= s + k * Longest
  <2>1. PICK from : from = s + (k - 1) * Longest
    OBVIOUS
  <2>2. Remaining(p, from)' = Remaining(p, from)
    BY <1>0 DEF Remaining, Queue, Active
  <2>3. InWave(p, s, k)'
    BY <1>0, <1>2, <1>3, <1>5, <1>6, <2>1, <2>2 DEF InWave, AtMost
  <2> QED
    BY <2>3
<1>7. CASE ~(clock + 1 <= s + k * Longest)
  <2>1. clock <= s + k * Longest
    BY <1>2 DEF InWave
  <2>2. clock = s + k * Longest
    BY <1>0, <1>4, <1>7, <2>1
  <2>3. AtMost(Queue(p), (Waves - (k + 1)) * Concurrency) /\ k + 1 \in 0 .. Waves - 1
    BY <1>1, <1>2, <2>2, WaveEnds
  <2>4. (k + 1) * Longest = k * Longest + Longest /\ ((k + 1) - 1) * Longest = k * Longest
    BY <1>4
  <2>5. Longest >= 1
    <3>1. Cardinality(Active(p)) # 0
      BY <1>1, NobodyLate, SizeAssumption DEF Queue
    <3>2. PICK d \in Active(p) : TRUE
      BY <3>1, FS_EmptySet
    <3>3. clock + 1 < begun[p][d] + AttemptTimeout + Headroom /\ begun[p][d] \in 0 .. clock
      BY <3>2, NobodyLate DEF Active, OnTime
    <3> QED
      BY <1>0, <3>3, LeaseAssumption DEF Longest
  <2>a. PICK start : start = clock
    OBVIOUS
  <2>6. Remaining(p, start)' = Queue(p)
    <3>1. \A d \in Active(p) : ~(begun[p][d] > start)
      BY <1>0, <2>a DEF Active, OnTime
    <3> QED
      BY <1>0, <3>1 DEF Remaining, Queue, Active
  <2>7. start = s + ((k + 1) - 1) * Longest
    BY <2>2, <2>4, <2>a
  <2>8. clock' <= s + (k + 1) * Longest
    BY <1>0, <1>4, <2>2, <2>4, <2>5
  <2>9. InWave(p, s, k + 1)'
    BY <1>3, <1>5, <2>3, <2>6, <2>7, <2>8 DEF InWave, AtMost
  <2> QED
    BY <1>3, <2>3, <2>9
<1> QED
  BY <1>6, <1>7

\* Who waits for the last wave at the latest is done before the lease is over.
LEMMA WaveOutlasts ==
    ASSUME WorkersKeepUp, NEW s \in Nat, NEW k \in 0 .. Waves - 1, NEW now \in Nat,
           now <= s + k * Longest
    PROVE  now + AttemptTimeout + Headroom <= s + leaseMs
<1>1. /\ Waves \in Nat \ {0} /\ Longest \in Nat /\ leaseMs \in Nat
      /\ AttemptTimeout + Headroom = Longest + 1
  BY WavesFitLease, LeaseAssumption DEF Longest
<1>2. PICK left \in Nat : Waves = k + 1 + left
  <2>1. Waves - (k + 1) \in Nat /\ Waves = k + 1 + (Waves - (k + 1))
    BY <1>1
  <2> QED
    BY <2>1
<1>3. PICK before \in Nat : before = k * Longest
  BY <1>1
<1>4. PICK after \in Nat : after = left * Longest
  BY <1>1
<1>5. Waves * Longest = before + Longest + after
  BY <1>1, <1>2, <1>3, <1>4
<1>6. before + Longest + after < leaseMs
  BY <1>5, WavesFitLease
<1> QED
  BY <1>1, <1>3, <1>6, LeaseAssumption

\* With the clock no lease runs out on its owner.
LEMMA OnTimeTick ==
    ASSUME WorkersKeepUp, TypeInv, WavesInTime, Tick, \A e \in Delivery : OnTime(e),
           NEW d \in Delivery, Leased(d)
    PROVE  OnTime(d)'
<1>1. /\ UNCHANGED <<rec, pc, snap, begun>> /\ clock' = clock + 1 /\ leaseMs' = leaseMs
      /\ clock \in Nat
  BY DEF Tick, jobVars, leaseMs, TypeInv, TypeOK
<1>2. ASSUME NEW p \in Dispatcher, pc[p][d] \notin {"idle", "queued"}
      PROVE  clock + 1 < begun[p][d] + AttemptTimeout + Headroom
  BY <1>2, NobodyLate
<1>3. ASSUME NEW p \in Dispatcher, pc[p][d] = "queued"
      PROVE  clock' + AttemptTimeout + Headroom <= rec[d].leaseUntil
  <2>1. WavesInTime' /\ d \in Queue(p)'
    BY <1>1, <1>3, WavesTick DEF Queue
  <2>2. PICK s \in Nat, k \in 0 .. Waves' - 1 : InWave(p, s, k)'
    BY <2>1 DEF WavesInTime
  <2>3. Waves' = Waves /\ Longest' = Longest
    BY <1>1 DEF Waves, WavesFit, Longest
  <2>4. snap[p][d].leaseUntil = s + leaseMs /\ clock' <= s + k * Longest
    BY <1>1, <2>1, <2>2, <2>3 DEF InWave
  <2>5. snap[p][d] = rec[d]
    BY <1>3 DEF Leased, BeforeWrite
  <2> QED
    BY <1>1, <2>2, <2>3, <2>4, <2>5, WaveOutlasts
<1> QED
  BY <1>1, <1>2, <1>3 DEF OnTime

LEMMA LeaseTick ==
    ASSUME WorkersKeepUp, LeaseInv, Tick
    PROVE  WavesInTime' /\ \A d \in Delivery : Sound(d)'
<1>1. UNCHANGED <<rec, due, pc, snap, plan, begun, call>>
  BY DEF Tick, jobVars
<1>2. WavesInTime'
  BY WavesTick DEF LeaseInv, Sound
<1>3. ASSUME NEW d \in Delivery PROVE Sound(d)'
  <2>1. Sound(d)
    BY DEF LeaseInv
  <2>2. Leased(d)' /\ Released(d)' /\ OwnedOnce(d)' /\ ScheduledOnce(d)' /\ CallsInTurn(d)'
    BY <1>1, <2>1 DEF Sound, Leased, Released, OwnedOnce, Holds, ScheduledOnce, NonTerminal, CallsInTurn
  <2>3. OnTime(d)'
    BY <2>1, OnTimeTick DEF LeaseInv, Sound
  <2>4. Planned(d)'
    BY <1>1, <2>1 DEF Sound, Planned, PlanFits
  <2> QED
    BY <2>2, <2>3, <2>4 DEF Sound
<1> QED
  BY <1>2, <1>3

\* A call reads the record, or is over, and leaves record and index as they are.
LEMMA LeaseReads ==
    ASSUME NEW d \in Delivery, Sound(d), UNCHANGED <<clock, rec, due, pc, snap, plan, begun>>,
           \A o \in Caller : call'[o][d].pc = "call_index" => call[o][d].pc = "call_index",
           CallsInTurn(d)'
    PROVE  Sound(d)'
<1>1. Leased(d)' /\ Released(d)' /\ OwnedOnce(d)' /\ OnTime(d)' /\ Planned(d)'
  BY DEF Sound, Leased, Released, OwnedOnce, Holds, OnTime, Planned, PlanFits, leaseMs
<1>2. ScheduledOnce(d)'
  BY DEF Sound, ScheduledOnce, NonTerminal
<1> QED
  BY <1>1, <1>2 DEF Sound

\* A call writes the record of a delivery that nobody owns and nothing schedules.
LEMMA LeaseEnters ==
    ASSUME NEW d \in Delivery, Sound(d), UNCHANGED <<clock, due, pc, snap, plan, begun>>,
           rec[d].status \in {"absent", "failed"}, rec'[d].status = "pending", CallsInTurn(d)'
    PROVE  Sound(d)'
<1>1. \A p \in Dispatcher : ~Holds(p, d)
  BY DEF Sound, Leased, Released, Holds
<1>2. \A t \in Nat : <<t, d>> \notin due'
  BY DEF Sound, ScheduledOnce, NonTerminal
<1>3. Leased(d)' /\ Released(d)' /\ OwnedOnce(d)'
  BY <1>1 DEF Leased, Released, OwnedOnce, Holds
<1>4. ScheduledOnce(d)'
  BY <1>2 DEF ScheduledOnce
<1>5. OnTime(d)' /\ Planned(d)'
  BY <1>1 DEF Sound, OnTime, Planned, PlanFits, Holds, BeforeWrite
<1> QED
  BY <1>3, <1>4, <1>5 DEF Sound

\* Control-plane calls, replays of one delivery kept apart.
LEMMA LeaseCall ==
    ASSUME LeaseInv, ReplaysApart, NEW c \in Caller, NEW d \in Delivery, ControlPlane(c, d)
    PROVE  WavesInTime' /\ \A e \in Delivery : Sound(e)'
<1>0. TypeInv /\ Sound(d) /\ leaseMs' = leaseMs /\ UNCHANGED <<clock, pc, snap, plan, begun>>
  BY DEF LeaseInv, leaseMs, ControlPlane, PublishBegin, PublishWrite, RetryRead, RecoverRead,
         ReadDeadLetter, RequeueWrite, CallIndex, CallFails, jobVars
<1>1. WavesInTime'
  BY <1>0, WavesStay DEF LeaseInv
<1>2. ASSUME NEW e \in Delivery, e # d PROVE Sound(e)'
  <2>1. rec'[e] = rec[e]
    BY <1>2 DEF ControlPlane, PublishBegin, PublishWrite, RetryRead, RecoverRead, ReadDeadLetter,
           RequeueWrite, CallIndex, CallFails, LeaseInv, TypeInv, TypeOK
  <2>2. \A o \in Caller : call'[o][e] = call[o][e]
    <3>1. \E r : call' = [call EXCEPT ![c][d] = r]
      BY DEF ControlPlane, PublishBegin, PublishWrite, RetryRead, RecoverRead, ReadDeadLetter,
             RequeueWrite, CallIndex, CallFails, SetCall
    <3> QED
      BY <1>0, <1>2, <3>1 DEF TypeInv, TypeOK
  <2>3. \A t \in Nat : <<t, e>> \in due' => <<t, e>> \in due
    BY <1>2 DEF ControlPlane, PublishBegin, PublishWrite, RetryRead, RecoverRead, ReadDeadLetter,
           RequeueWrite, CallIndex, CallFails
  <2> QED
    BY <1>0, <2>1, <2>2, <2>3, LeaseFrame DEF LeaseInv
<1> SUFFICES Sound(d)'
  BY <1>1, <1>2
<1>3. \A o \in Caller : o # c => call'[o][d] = call[o][d]
  BY DEF ControlPlane, PublishBegin, PublishWrite, RetryRead, RecoverRead, ReadDeadLetter,
         RequeueWrite, CallIndex, CallFails, SetCall, LeaseInv, TypeInv, TypeOK
<1>4. CASE PublishBegin(c, d)
  <2>1. call'[c][d].pc = "publish" /\ rec' = rec /\ due' = due
    BY <1>0, <1>4 DEF PublishBegin, SetCall, TypeInv, TypeOK
  <2>2. CallsInTurn(d)'
    BY <1>0, <1>3, <1>4, <2>1 DEF PublishBegin, Sound, CallsInTurn, Holds
  <2> QED
    BY <1>0, <1>3, <2>1, <2>2, LeaseReads
<1>5. CASE PublishWrite(c, d)
  <2>1. /\ call'[c][d].pc = "call_index" /\ call[c][d].pc = "publish" /\ due' = due
        /\ rec[d].status = "absent" /\ rec'[d].status = "pending"
    BY <1>0, <1>5 DEF PublishWrite, CallAt, SetCall, Sound, CallsInTurn, TypeInv, TypeOK, AbsentRecord
  <2>2. \A p \in Dispatcher : ~Holds(p, d)
    BY <1>0, <2>1 DEF Sound, Leased, Released, Holds
  <2>3. CallsInTurn(d)'
    BY <1>0, <1>3, <2>1, <2>2 DEF Sound, CallsInTurn, Holds
  <2> QED
    BY <1>0, <2>1, <2>3, LeaseEnters
<1>6. CASE RetryRead(c, d) \/ RecoverRead(c, d)
  <2>1. \/ ReadDeadLetter(c, d, "retry", NoTime)
        \/ \E t \in 0 .. clock : ReadDeadLetter(c, d, "recover", t)
    BY <1>6 DEF RetryRead, RecoverRead
  <2>2. /\ call'[c][d].pc \in {"retry", "recover"} /\ call'[c][d].snap = rec[d]
        /\ rec[d].status = "failed" /\ rec' = rec /\ due' = due
    BY <1>0, <2>1 DEF ReadDeadLetter, SetCall, TypeInv, TypeOK
  <2>3. CallsInTurn(d)'
    BY <1>0, <1>3, <2>2 DEF Sound, CallsInTurn, Holds
  <2> QED
    BY <1>0, <1>3, <2>2, <2>3, LeaseReads
<1>7. CASE RequeueWrite(c, d)
  <2>1. /\ call'[c][d].pc = "call_index" /\ call[c][d].pc \in {"retry", "recover"} /\ due' = due
        /\ rec[d].status = "failed"
    BY <1>0, <1>7 DEF RequeueWrite, SetCall, Sound, CallsInTurn, TypeInv, TypeOK
  <2>2. rec'[d].status = "pending"
    BY <1>0, <1>7 DEF RequeueWrite, TypeInv, TypeOK, Call, Record
  <2>3. \A p \in Dispatcher : ~Holds(p, d)
    BY <1>0, <2>1 DEF Sound, Leased, Released, Holds
  <2>4. \A o \in Caller : o # c => call'[o][d].pc \notin {"retry", "recover"}
    BY <1>3, <2>1 DEF ReplaysApart
  <2>5. CallsInTurn(d)'
    BY <1>0, <1>3, <2>1, <2>2, <2>3, <2>4 DEF Sound, CallsInTurn, Holds
  <2> QED
    BY <1>0, <2>1, <2>2, <2>5, LeaseEnters
<1>8. CASE CallIndex(c, d)
  <2>1. /\ call'[c][d].pc = "idle" /\ call[c][d].pc = "call_index" /\ call[c][d].at \in Nat
        /\ rec' = rec /\ due' = due \cup {<<call[c][d].at, d>>}
    BY <1>0, <1>8 DEF CallIndex, CallAt, IdleCall, TypeInv, TypeOK, TimesPlanned
  <2>2. /\ rec[d].status = "pending" /\ \A p \in Dispatcher : ~Holds(p, d)
        /\ \A o \in Caller : call'[o][d].pc # "call_index"
    BY <1>0, <1>3, <2>1 DEF Sound, CallsInTurn
  <2>3. \A t \in Nat : <<t, d>> \notin due
    BY <1>0, <2>1 DEF Sound, ScheduledOnce
  <2>4. Leased(d)' /\ Released(d)' /\ OwnedOnce(d)' /\ OnTime(d)' /\ Planned(d)'
    BY <1>0, <2>1 DEF Sound, Leased, Released, OwnedOnce, Holds, OnTime, Planned, PlanFits
  <2>5. ScheduledOnce(d)'
    <3>1. \A p \in Dispatcher : pc'[p][d] \notin Unindexed
      BY <1>0, <2>2 DEF Holds, Unindexed, BeforeWrite, Written
    <3> QED
      BY <1>0, <2>1, <2>2, <2>3, <3>1 DEF ScheduledOnce, NonTerminal, Holds
  <2>6. CallsInTurn(d)'
    BY <1>0, <1>3, <2>1 DEF Sound, CallsInTurn, Holds
  <2> QED
    BY <2>4, <2>5, <2>6 DEF Sound
<1>9. CASE CallFails(c, d)
  <2>1. call'[c][d].pc = "idle" /\ rec' = rec /\ due' = due
    BY <1>0, <1>9 DEF CallFails, IdleCall, TypeInv, TypeOK
  <2>2. CallsInTurn(d)'
    BY <1>0, <1>3, <2>1 DEF Sound, CallsInTurn, Holds
  <2> QED
    BY <1>0, <1>3, <2>1, <2>2, LeaseReads
<1> QED
  BY <1>4, <1>5, <1>6, <1>7, <1>8, <1>9 DEF ControlPlane

LEMMA LeaseStep ==
    WorkersKeepUp /\ LeaseInv /\ ReplaysApart /\ [Next]_vars => LeaseInv'
<1> SUFFICES ASSUME WorkersKeepUp, LeaseInv, ReplaysApart, [Next]_vars
             PROVE  WavesInTime' /\ \A d \in Delivery : Sound(d)'
  BY TypeStep DEF LeaseInv
<1>1. ASSUME UNCHANGED <<clock, rec, due, jobVars, call>>
      PROVE  WavesInTime' /\ \A d \in Delivery : Sound(d)'
  <2>1. WavesInTime'
    BY <1>1, WavesStay DEF LeaseInv, jobVars
  <2> QED
    BY <1>1, <2>1, LeaseFrame DEF LeaseInv, jobVars
<1>2. CASE Tick
  BY <1>2, LeaseTick
<1>3. ASSUME NEW p \in Dispatcher, Claim(p) PROVE WavesInTime' /\ \A d \in Delivery : Sound(d)'
  BY <1>3, LeaseClaim
<1>4. ASSUME NEW p \in Dispatcher, Crash(p) PROVE WavesInTime' /\ \A d \in Delivery : Sound(d)'
  BY <1>4, LeaseCrash
<1>5. ASSUME NEW p \in Dispatcher, NEW d \in Delivery, ProcessClaim(p, d)
      PROVE  WavesInTime' /\ \A e \in Delivery : Sound(e)'
  BY <1>5, LeaseProcess
<1>6. ASSUME NEW c \in Caller, NEW d \in Delivery, ControlPlane(c, d)
      PROVE  WavesInTime' /\ \A e \in Delivery : Sound(e)'
  BY <1>6, LeaseCall
<1>7. ASSUME NEW e \in Endpoint, NEW state \in {"enabled", "disabled", "deleted"},
             SetEndpoint(e, state)
      PROVE  WavesInTime' /\ \A d \in Delivery : Sound(d)'
  BY <1>1, <1>7 DEF SetEndpoint
<1>8. CASE UNCHANGED vars
  BY <1>1, <1>8 DEF vars, jobVars
<1> QED
  BY <1>2, <1>3, <1>4, <1>5, <1>6, <1>7, <1>8 DEF Next

LEMMA LeaseHolds ==
    ASSUME WorkersKeepUp
    PROVE  Spec /\ []ReplaysApart => []LeaseInv
<1>1. LeaseInv /\ ReplaysApart /\ [Next]_vars => LeaseInv'
  BY LeaseStep
<1> QED
  BY <1>1, LeaseInit, PTL DEF Spec

\* No two dispatchers ever work on one delivery: the claim of a delivery that another one claimed
\* needs its due entry at the expiry of the lease, and by then the owner is done. Crashes may
\* happen before any step, and storage calls may fail (claimDue of src/storage/memory.ts,
\* processClaim of src/dispatcher.ts, recordAttempt of src/core.ts).
THEOREM LeaseIsExclusive ==
    ASSUME WorkersKeepUp
    PROVE  Spec /\ []ReplaysApart => []OneOwner
<1>1. LeaseInv => OneOwner
  <2> SUFFICES ASSUME LeaseInv PROVE OneOwner
    OBVIOUS
  <2>1. \A p \in Dispatcher, d \in Delivery : pc[p][d] \notin {"idle", "note"} => Holds(p, d)
    BY DEF LeaseInv, TypeInv, TypeOK, JobPc, Holds, BeforeWrite, Written
  <2> QED
    BY <2>1 DEF LeaseInv, Sound, OwnedOnce, OneOwner
<1> QED
  BY <1>1, LeaseHolds, PTL

\* A delivery that is not terminal has exactly one due entry whenever nobody is between the steps
\* that move its record and its entry, and a terminal one has none: the entry that a claim, an
\* outcome or a replay writes is never a second one (writeDeliveryWithDue, removeDueEntry).
THEOREM ScheduledExactlyOnce ==
    ASSUME WorkersKeepUp, CrashesOutsideWindows
    PROVE  Spec /\ []ReplaysApart => []ExactlyOneDue
<1>1. ASSUME LeaseInv, DueCoverage PROVE ExactlyOneDue
  <2> SUFFICES ASSUME NEW d \in Delivery, Settled(d)
               PROVE  Cardinality(DueOf(d)) = IF NonTerminal(rec[d]) THEN 1 ELSE 0
    BY DEF ExactlyOneDue
  <2>1. ASSUME NEW entry \in DueOf(d) PROVE \E t \in Nat : entry = <<t, d>> /\ <<t, d>> \in due
    <3>1. entry \in due /\ entry[2] = d /\ entry \in Nat \X Delivery
      BY <1>1 DEF DueOf, LeaseInv, TypeInv, TypeOK
    <3>2. entry = <<entry[1], d>> /\ entry[1] \in Nat
      BY <3>1
    <3> QED
      BY <3>1, <3>2
  <2>2. \A t \in Nat : <<t, d>> \in due => NonTerminal(rec[d]) /\ \A u \in Nat : <<u, d>> \in due => u = t
    BY <1>1 DEF LeaseInv, Sound, ScheduledOnce
  <2>3. CASE ~NonTerminal(rec[d])
    <3>1. DueOf(d) = {}
      BY <2>1, <2>2, <2>3
    <3> QED
      BY <2>3, <3>1, FS_EmptySet
  <2>4. CASE NonTerminal(rec[d])
    <3>1. ~InHand(d)
      BY DEF Settled, InHand, JobWindow
    <3>2. DueOf(d) # {}
      BY <1>1, <2>4, <3>1 DEF DueCoverage
    <3>3. PICK entry \in DueOf(d) : TRUE
      BY <3>2
    <3>4. DueOf(d) = {entry}
      BY <2>1, <2>2
    <3> QED
      BY <2>4, <3>4, FS_Singleton
  <2> QED
    BY <2>3, <2>4
<1> QED
  BY <1>1, LeaseHolds, NothingStranded, PTL

------------------------------------------------------------------------------
(* The attempt log and the replays agree with the record.                       *)

\* Between the write of the attempt and the write of the record, the attempt is in the log.
Recorded(p, d) ==
    pc[p][d] \in {"unindex_next", "unindex_lease", "write"} =>
        \E a \in attempts :
            /\ a.delivery = d /\ a.number = snap[p][d].attemptCount + 1
            /\ a.ok <=> plan[p][d].outcome = "ok"
            /\ a.trigger = "manual" <=> snap[p][d].pendingTrigger = "manual"

\* One attempt per number, counted or about to be, and the successes among those counted.
LogAgrees(d) ==
    /\ \A a, b \in attempts : a.delivery = d /\ b.delivery = d /\ a.number = b.number => a = b
    /\ \A a \in attempts : a.delivery = d => 1 <= a.number /\ a.number <= rec[d].attemptCount + 1
    /\ \A n \in 1 .. rec[d].attemptCount : \E a \in attempts : a.delivery = d /\ a.number = n
    /\ \A a \in attempts : a.delivery = d /\ a.number <= rec[d].attemptCount =>
        (a.ok <=> a.number = rec[d].attemptCount /\ rec[d].status = "succeeded")

\* A dead letter carries no trigger hint: its last attempt has used it up.
HintUsed(d) ==
    /\ rec[d].status = "absent" => rec[d].attemptCount = 0 /\ rec[d].pendingTrigger = "none"
    /\ rec[d].status = "failed" => rec[d].pendingTrigger = "none"

ManualsOf(d) == {a \in attempts : /\ a.delivery = d /\ a.trigger = "manual"
                                  /\ a.number <= rec[d].attemptCount}

ReplaysCounted(d) ==
    requeues[d] = Cardinality(ManualsOf(d)) + IF rec[d].pendingTrigger = "manual" THEN 1 ELSE 0

Accounted(d) ==
    /\ LogAgrees(d)
    /\ HintUsed(d)
    /\ ReplaysCounted(d)

LogInv ==
    /\ IsFiniteSet(attempts)
    /\ \A d \in Delivery : Accounted(d) /\ \A p \in Dispatcher : Recorded(p, d)

\* Nobody else is between the claim of d and the write of its outcome.
AttemptsApart(d) ==
    \A p, q \in Dispatcher : pc[p][d] \in BeforeWrite /\ pc[q][d] \in BeforeWrite => p = q

\* What a call read of the record still holds when it writes.
ReadsHold(d) ==
    \A c \in Caller :
        /\ call[c][d].pc = "publish" => rec[d].status = "absent" /\ rec[d].attemptCount = 0
        /\ call[c][d].pc \in {"retry", "recover"} =>
            rec[d] = call[c][d].snap /\ rec[d].status = "failed"

LEMMA LogInit == Init => LogInv
<1> SUFFICES ASSUME Init PROVE LogInv
  OBVIOUS
<1>1. IsFiniteSet(attempts) /\ attempts = {}
  BY FS_EmptySet DEF Init
<1>2. ASSUME NEW d \in Delivery PROVE Accounted(d) /\ \A p \in Dispatcher : Recorded(p, d)
  <2>1. rec[d] = AbsentRecord /\ requeues[d] = 0 /\ \A p \in Dispatcher : pc[p][d] = "idle"
    BY DEF Init
  <2>2. ManualsOf(d) = {}
    BY <1>1 DEF ManualsOf
  <2>3. ReplaysCounted(d)
    BY <2>1, <2>2, FS_EmptySet DEF ReplaysCounted, AbsentRecord
  <2>4. LogAgrees(d) /\ HintUsed(d)
    BY <1>1, <2>1 DEF LogAgrees, HintUsed, AbsentRecord
  <2> QED
    BY <2>1, <2>3, <2>4 DEF Accounted, Recorded
<1> QED
  BY <1>1, <1>2 DEF LogInv

\* A step that neither logs an attempt of d nor counts one, and replays nothing.
LEMMA LogFrame ==
    ASSUME NEW d \in Delivery, Accounted(d), requeues'[d] = requeues[d],
           \A a \in attempts \cup attempts' : a.delivery = d => (a \in attempts <=> a \in attempts'),
           rec'[d].attemptCount = rec[d].attemptCount,
           rec'[d].pendingTrigger = rec[d].pendingTrigger,
           rec'[d].status = "succeeded" <=> rec[d].status = "succeeded",
           rec'[d].status \in {"absent", "failed"} => rec'[d].status = rec[d].status
    PROVE  Accounted(d)'
<1>1. LogAgrees(d)'
  BY DEF Accounted, LogAgrees
<1>2. HintUsed(d)'
  BY DEF Accounted, HintUsed
<1>3. ManualsOf(d)' = ManualsOf(d)
  BY DEF ManualsOf
<1>4. ReplaysCounted(d)'
  BY <1>3 DEF Accounted, ReplaysCounted
<1> QED
  BY <1>1, <1>2, <1>4 DEF Accounted

\* The attempt is logged under the next number, over one of that number that was never counted.
LEMMA LogLogs ==
    ASSUME TypeInv, LogInv, NEW p \in Dispatcher, NEW d \in Delivery, Leased(d), LogAttempt(p, d)
    PROVE  /\ IsFiniteSet(attempts') /\ Accounted(d)' /\ Recorded(p, d)'
           /\ \A a \in attempts \cup attempts' : a.delivery # d => (a \in attempts <=> a \in attempts')
<1> DEFINE number == snap[p][d].attemptCount + 1
           new == [delivery |-> d, number |-> number, ok |-> plan[p][d].outcome = "ok",
                   trigger |-> IF snap[p][d].pendingTrigger = "manual" THEN "manual" ELSE "schedule"]
<1>1. /\ attempts' = {a \in attempts : ~(a.delivery = d /\ a.number = number)} \cup {new}
      /\ UNCHANGED <<rec, snap, plan, requeues>> /\ pc[p][d] = "log"
  BY DEF LogAttempt, At
<1>2. snap[p][d] = rec[d] /\ rec[d].attemptCount \in Nat /\ attempts \subseteq Attempt
  BY <1>1 DEF Leased, BeforeWrite, TypeInv, TypeOK, Record
<1>3. number = rec[d].attemptCount + 1
  BY <1>2
<1>4. /\ new.delivery = d /\ new.number = number /\ (new.ok <=> plan[p][d].outcome = "ok")
      /\ (new.trigger = "manual" <=> snap[p][d].pendingTrigger = "manual")
  OBVIOUS
<1> HIDE DEF number, new
<1>5. \A a \in attempts : a.number \in Nat
  BY <1>2 DEF Attempt
<1>6. IsFiniteSet(attempts')
  <2>1. IsFiniteSet({a \in attempts : ~(a.delivery = d /\ a.number = number)})
    BY FS_Subset DEF LogInv
  <2> QED
    BY <1>1, <2>1, FS_AddElement
<1>7. \A a \in attempts \cup attempts' : a.delivery # d => (a \in attempts <=> a \in attempts')
  BY <1>1, <1>4
<1>8. Recorded(p, d)'
  BY <1>1, <1>4 DEF Recorded, number
<1>9. LogAgrees(d)'
  <2>1. LogAgrees(d)
    BY DEF LogInv, Accounted
  <2>2. \A a \in attempts' : a.delivery = d => a = new \/ (a \in attempts /\ a.number # number)
    BY <1>1
  <2>3. \A a, b \in attempts' : a.delivery = d /\ b.delivery = d /\ a.number = b.number => a = b
    BY <1>4, <2>1, <2>2 DEF LogAgrees
  <2>4. \A a \in attempts' : a.delivery = d => 1 <= a.number /\ a.number <= rec'[d].attemptCount + 1
    BY <1>1, <1>2, <1>3, <1>4, <2>1, <2>2 DEF LogAgrees
  <2>5. \A n \in 1 .. rec'[d].attemptCount : \E a \in attempts' : a.delivery = d /\ a.number = n
    <3> SUFFICES ASSUME NEW n \in 1 .. rec[d].attemptCount
                 PROVE  \E a \in attempts' : a.delivery = d /\ a.number = n
      BY <1>1
    <3>1. PICK a \in attempts : a.delivery = d /\ a.number = n
      BY <2>1 DEF LogAgrees
    <3>2. a.number # number
      BY <1>2, <1>3, <3>1
    <3> QED
      BY <1>1, <3>1, <3>2
  <2>6. \A a \in attempts' : a.delivery = d /\ a.number <= rec'[d].attemptCount =>
            (a.ok <=> a.number = rec'[d].attemptCount /\ rec'[d].status = "succeeded")
    <3> SUFFICES ASSUME NEW a \in attempts', a.delivery = d, a.number <= rec[d].attemptCount
                 PROVE  a.ok <=> a.number = rec[d].attemptCount /\ rec[d].status = "succeeded"
      BY <1>1
    <3>1. a \in attempts
      BY <1>2, <1>3, <1>4, <2>2
    <3> QED
      BY <2>1, <3>1 DEF LogAgrees
  <2> QED
    BY <2>3, <2>4, <2>5, <2>6 DEF LogAgrees
<1>10. HintUsed(d)'
  BY <1>1 DEF LogInv, Accounted, HintUsed
<1>11. ManualsOf(d)' = ManualsOf(d)
  BY <1>1, <1>2, <1>3, <1>4 DEF ManualsOf
<1>12. ReplaysCounted(d)'
  BY <1>1, <1>11 DEF LogInv, Accounted, ReplaysCounted
<1> QED
  BY <1>6, <1>7, <1>8, <1>9, <1>10, <1>12 DEF Accounted

\* The record after an attempt counts it.
LEMMA OutcomeFields ==
    ASSUME NEW r \in Record, NEW pl \in Plan
    PROVE  /\ Outcome(r, pl).attemptCount = r.attemptCount + 1
           /\ Outcome(r, pl).pendingTrigger = "none"
           /\ Outcome(r, pl).status \in {"succeeded", "pending", "failed"}
           /\ Outcome(r, pl).status = "succeeded" <=> pl.outcome = "ok"
           /\ Outcome(r, pl).status = "pending" <=> pl.outcome # "ok" /\ pl.next # NoTime
<1> DEFINE s == CASE pl.outcome = "ok" -> "succeeded"
                  [] pl.outcome # "ok" /\ pl.next # NoTime -> "pending"
                  [] OTHER -> "failed"
<1>1. /\ s \in {"succeeded", "pending", "failed"} /\ (s = "succeeded" <=> pl.outcome = "ok")
      /\ (s = "pending" <=> pl.outcome # "ok" /\ pl.next # NoTime)
  OBVIOUS
<1>2. Outcome(r, pl) = [r EXCEPT !.status = s, !.attemptCount = r.attemptCount + 1,
                                 !.nextAttemptAt = pl.next, !.leaseUntil = NoTime,
                                 !.pendingTrigger = "none"]
  BY DEF Outcome
<1> HIDE DEF s
<1>3. Outcome(r, pl).status = s /\ Outcome(r, pl).attemptCount = r.attemptCount + 1
      /\ Outcome(r, pl).pendingTrigger = "none"
  BY <1>2 DEF Record
<1> QED
  BY <1>1, <1>3

\* The outcome is written: the attempt in the log is counted, and uses up the hint of a replay.
LEMMA LogCounts ==
    ASSUME TypeInv, LogInv, NEW p \in Dispatcher, NEW d \in Delivery, Leased(d), WriteOutcome(p, d)
    PROVE  Accounted(d)'
<1> DEFINE r == Outcome(snap[p][d], plan[p][d])
           n == rec[d].attemptCount
<1>1. /\ rec' = [rec EXCEPT ![d] = r] /\ UNCHANGED <<attempts, requeues>> /\ pc[p][d] = "write"
  BY DEF WriteOutcome, At
<1>2. /\ snap[p][d] = rec[d] /\ rec[d].status = "delivering" /\ rec[d] \in Record /\ n \in Nat
      /\ plan[p][d] \in Plan /\ attempts \subseteq Attempt /\ requeues[d] \in Nat
  BY <1>1 DEF Leased, BeforeWrite, TypeInv, TypeOK, Record
<1>3. rec'[d] = r
  BY <1>1 DEF TypeInv, TypeOK
<1>4. /\ r.attemptCount = n + 1 /\ r.pendingTrigger = "none" /\ r.status # "absent"
      /\ (r.status = "succeeded" <=> plan[p][d].outcome = "ok")
  BY <1>2, OutcomeFields
<1>5. PICK a0 \in attempts :
        /\ a0.delivery = d /\ a0.number = n + 1
        /\ a0.ok <=> plan[p][d].outcome = "ok"
        /\ a0.trigger = "manual" <=> rec[d].pendingTrigger = "manual"
  BY <1>1, <1>2 DEF LogInv, Recorded
<1>6. \A a \in attempts : a.number \in Nat
  BY <1>2 DEF Attempt
<1> HIDE DEF r, n
<1>7. /\ \A a, b \in attempts : a.delivery = d /\ b.delivery = d /\ a.number = b.number => a = b
      /\ \A a \in attempts : a.delivery = d => 1 <= a.number /\ a.number <= n + 1
      /\ \A k \in 1 .. n : \E a \in attempts : a.delivery = d /\ a.number = k
      /\ \A a \in attempts : a.delivery = d /\ a.number <= n => ~a.ok
  BY <1>2 DEF LogInv, Accounted, LogAgrees, n
<1>8. LogAgrees(d)'
  <2>1. \A k \in 1 .. n + 1 : \E a \in attempts : a.delivery = d /\ a.number = k
    <3> SUFFICES ASSUME NEW k \in 1 .. n + 1, k # n + 1
                 PROVE  \E a \in attempts : a.delivery = d /\ a.number = k
      BY <1>5
    <3>1. k \in 1 .. n
      BY <1>2
    <3> QED
      BY <1>7, <3>1
  <2>2. ASSUME NEW a \in attempts, a.delivery = d, a.number <= n + 1
        PROVE  a.ok <=> a.number = n + 1 /\ r.status = "succeeded"
    <3>1. CASE a.number = n + 1
      <4>1. a = a0
        BY <1>5, <1>7, <2>2, <3>1
      <4> QED
        BY <1>4, <1>5, <4>1
    <3>2. CASE a.number # n + 1
      <4>1. a.number <= n
        BY <1>2, <1>6, <2>2, <3>2
      <4> QED
        BY <1>7, <2>2, <3>2, <4>1
    <3> QED
      BY <3>1, <3>2
  <2>3. \A a \in attempts : a.delivery = d => 1 <= a.number /\ a.number <= n + 1 + 1
    BY <1>2, <1>6, <1>7
  <2> QED
    BY <1>1, <1>3, <1>4, <1>7, <2>1, <2>2, <2>3 DEF LogAgrees
<1>9. HintUsed(d)'
  BY <1>3, <1>4 DEF HintUsed
<1>10. ReplaysCounted(d)'
  <2>1. IsFiniteSet(ManualsOf(d))
    BY FS_Subset DEF LogInv, ManualsOf
  <2>2. Cardinality(ManualsOf(d)) \in Nat
    BY <2>1, FS_CardinalityType
  <2>3. requeues[d] = Cardinality(ManualsOf(d)) + IF rec[d].pendingTrigger = "manual" THEN 1 ELSE 0
    BY DEF LogInv, Accounted, ReplaysCounted
  <2>4. ManualsOf(d)' = {a \in attempts : a.delivery = d /\ a.trigger = "manual" /\ a.number <= n + 1}
    BY <1>1, <1>3, <1>4 DEF ManualsOf
  <2>5. ManualsOf(d) = {a \in attempts : a.delivery = d /\ a.trigger = "manual" /\ a.number <= n}
    BY DEF ManualsOf, n
  <2>6. \A a \in attempts : a.delivery = d /\ a.number <= n + 1 => a = a0 \/ a.number <= n
    BY <1>2, <1>5, <1>6, <1>7
  <2>7. CASE rec[d].pendingTrigger = "manual"
    <3>1. ManualsOf(d)' = ManualsOf(d) \cup {a0} /\ a0 \notin ManualsOf(d)
      BY <1>2, <1>5, <1>6, <2>4, <2>5, <2>6, <2>7
    <3>2. Cardinality(ManualsOf(d)') = Cardinality(ManualsOf(d)) + 1
      BY <2>1, <3>1, FS_AddElement
    <3> QED
      BY <1>1, <1>3, <1>4, <2>2, <2>3, <2>7, <3>2 DEF ReplaysCounted
  <2>8. CASE rec[d].pendingTrigger # "manual"
    <3>1. ManualsOf(d)' = ManualsOf(d)
      BY <1>2, <1>5, <1>6, <2>4, <2>5, <2>6, <2>8
    <3> QED
      BY <1>1, <1>3, <1>4, <2>2, <2>3, <2>8, <3>1 DEF ReplaysCounted
  <2> QED
    BY <2>7, <2>8
<1> QED
  BY <1>8, <1>9, <1>10 DEF Accounted

\* A step of a claim: only logging and writing the outcome change the accounts.
LEMMA LogProcess ==
    ASSUME TypeInv, LogInv, NEW p \in Dispatcher, NEW d \in Delivery, Leased(d), AttemptsApart(d),
           ProcessClaim(p, d)
    PROVE  LogInv'
<1>0. TypeInv /\ requeues' = requeues
  BY DEF ProcessClaim, StartAttempt, FailTerminal, HoldDisabled, TakeUp, HoldUnindex,
         HoldWrite, HoldIndex, Respond, LogAttempt, UnindexNext, UnindexLease, WriteOutcome,
         IndexNext, NoteOutcome, StepFails
<1>1. ~LogAttempt(p, d) => attempts' = attempts
  BY DEF ProcessClaim, StartAttempt, FailTerminal, HoldDisabled, TakeUp, HoldUnindex, HoldWrite,
         HoldIndex, Respond, UnindexNext, UnindexLease, WriteOutcome, IndexNext, NoteOutcome,
         StepFails
<1>2. /\ IsFiniteSet(attempts')
      /\ \A a \in attempts \cup attempts' : a.delivery # d => (a \in attempts <=> a \in attempts')
  BY <1>1, LogLogs DEF LogInv
<1>3. \A e \in Delivery : e # d => rec'[e] = rec[e]
  BY <1>0 DEF ProcessClaim, StartAttempt, FailTerminal, HoldDisabled, TakeUp, HoldUnindex, HoldWrite,
         HoldIndex, Respond, LogAttempt, UnindexNext, UnindexLease, WriteOutcome, IndexNext,
         NoteOutcome, StepFails, TypeInv, TypeOK
<1>4. \A q \in Dispatcher, e \in Delivery :
        ~(q = p /\ e = d) =>
            pc'[q][e] = pc[q][e] /\ snap'[q][e] = snap[q][e] /\ plan'[q][e] = plan[q][e]
  <2>1. pc' = [pc EXCEPT ![p][d] = pc'[p][d]]
    BY <1>0 DEF ProcessClaim, StartAttempt, FailTerminal, HoldDisabled, TakeUp, HoldUnindex,
         HoldWrite, HoldIndex, Respond, LogAttempt, UnindexNext, UnindexLease, WriteOutcome,
         IndexNext, NoteOutcome, StepFails, Finish, Goto, TypeInv, TypeOK
  <2>2. snap' = snap \/ snap' = [snap EXCEPT ![p][d] = AbsentRecord]
    BY DEF ProcessClaim, StartAttempt, FailTerminal, HoldDisabled, TakeUp, HoldUnindex,
         HoldWrite, HoldIndex, Respond, LogAttempt, UnindexNext, UnindexLease, WriteOutcome,
         IndexNext, NoteOutcome, StepFails, Finish
  <2>3. plan' = plan \/ \E pl : plan' = [plan EXCEPT ![p][d] = pl]
    BY DEF ProcessClaim, StartAttempt, FailTerminal, HoldDisabled, TakeUp, HoldUnindex,
         HoldWrite, HoldIndex, Respond, LogAttempt, UnindexNext, UnindexLease, WriteOutcome,
         IndexNext, NoteOutcome, StepFails, Finish
  <2> QED
    BY <1>0, <2>1, <2>2, <2>3 DEF TypeInv, TypeOK
<1>5. ASSUME NEW e \in Delivery, e # d PROVE Accounted(e)' /\ \A q \in Dispatcher : Recorded(q, e)'
  <2>1. Accounted(e)'
    BY <1>0, <1>2, <1>3, <1>5, LogFrame DEF LogInv
  <2>2. \A q \in Dispatcher : Recorded(q, e)'
    BY <1>2, <1>4, <1>5 DEF LogInv, Recorded
  <2> QED
    BY <2>1, <2>2
<1>6. Accounted(d)'
  <2>1. CASE LogAttempt(p, d)
    BY <2>1, LogLogs
  <2>2. CASE WriteOutcome(p, d)
    BY <2>2, LogCounts
  <2>3. CASE HoldWrite(p, d)
    <3>1. /\ rec[d] = snap[p][d] /\ rec[d].status = "delivering" /\ rec[d] \in Record
          /\ rec' = [rec EXCEPT ![d] = [snap[p][d] EXCEPT !.status = "pending",
                        !.nextAttemptAt = plan[p][d].next, !.leaseUntil = NoTime]]
      BY <2>3 DEF HoldWrite, At, Leased, BeforeWrite, TypeInv, TypeOK
    <3>2. /\ rec'[d].attemptCount = rec[d].attemptCount /\ rec'[d].status = "pending"
          /\ rec'[d].pendingTrigger = rec[d].pendingTrigger
      BY <1>0, <3>1 DEF TypeInv, TypeOK, Record
    <3>3. attempts' = attempts
      BY <2>3 DEF HoldWrite
    <3> QED
      BY <1>0, <3>1, <3>2, <3>3, LogFrame DEF LogInv
  <2>4. CASE rec' = rec /\ attempts' = attempts
    BY <1>0, <2>4, LogFrame DEF LogInv
  <2> QED
    BY <2>1, <2>2, <2>3, <2>4 DEF ProcessClaim, StartAttempt, FailTerminal, HoldDisabled, TakeUp,
       HoldUnindex, HoldIndex, Respond, UnindexNext, UnindexLease, IndexNext, NoteOutcome, StepFails
<1>7. \A q \in Dispatcher : Recorded(q, d)'
  <2> SUFFICES ASSUME NEW q \in Dispatcher, pc'[q][d] \in {"unindex_next", "unindex_lease", "write"}
               PROVE  Recorded(q, d)'
    BY DEF Recorded
  <2>1. CASE LogAttempt(p, d)
    <3>1. q = p
      <4>1. pc[p][d] = "log"
        BY <2>1 DEF LogAttempt, At
      <4> QED
        BY <1>4, <4>1 DEF AttemptsApart, BeforeWrite
    <3> QED
      BY <2>1, <3>1, LogLogs
  <2>2. CASE ~LogAttempt(p, d) /\ q # p
    BY <1>1, <1>4, <2>2 DEF LogInv, Recorded
  <2>3. CASE ~LogAttempt(p, d) /\ q = p
    <3>1. UnindexNext(p, d) \/ UnindexLease(p, d)
      BY <1>0, <2>3 DEF ProcessClaim, StartAttempt, FailTerminal, HoldDisabled, TakeUp, HoldUnindex,
         HoldWrite, HoldIndex, Respond, WriteOutcome, IndexNext, NoteOutcome, StepFails, Finish,
         Goto, TypeInv, TypeOK
    <3> QED
      BY <1>1, <2>3, <3>1 DEF UnindexNext, UnindexLease, At, LogInv, Recorded
  <2> QED
    BY <2>1, <2>2, <2>3
<1> QED
  BY <1>2, <1>5, <1>6, <1>7 DEF LogInv

\* A step that takes deliveries up or drops them: it counts nothing, and whoever is past the log
\* has not moved.
LEMMA LogKeeps ==
    ASSUME LogInv, UNCHANGED <<attempts, requeues>>,
           \A d \in Delivery :
                /\ rec'[d].attemptCount = rec[d].attemptCount
                /\ rec'[d].pendingTrigger = rec[d].pendingTrigger
                /\ \/ rec'[d].status = rec[d].status
                   \/ rec'[d].status = "delivering" /\ rec[d].status = "pending",
           \A q \in Dispatcher, d \in Delivery : pc'[q][d] \notin {"idle", "queued"} =>
                pc'[q][d] = pc[q][d] /\ snap'[q][d] = snap[q][d] /\ plan'[q][d] = plan[q][d]
    PROVE  LogInv'
<1>1. ASSUME NEW d \in Delivery PROVE Accounted(d)'
  BY LogFrame DEF LogInv
<1>2. \A q \in Dispatcher, d \in Delivery : Recorded(q, d)'
  BY DEF LogInv, Recorded
<1> QED
  BY <1>1, <1>2 DEF LogInv

\* Claiming counts nothing, and what it hands out is not logged yet; a crash loses no account.
LEMMA LogClaim ==
    ASSUME TypeInv, LogInv, NEW p \in Dispatcher, Claim(p) \/ Crash(p)
    PROVE  LogInv'
<1>1. attempts' = attempts /\ requeues' = requeues
  BY DEF Claim, Crash
<1>2. ASSUME NEW d \in Delivery
      PROVE  /\ rec'[d].attemptCount = rec[d].attemptCount
             /\ rec'[d].pendingTrigger = rec[d].pendingTrigger
             /\ \/ rec'[d].status = rec[d].status
                \/ rec'[d].status = "delivering" /\ rec[d].status = "pending"
  <2>1. CASE Crash(p)
    BY <2>1 DEF Crash
  <2>2. CASE Claim(p)
    <3>1. PICK D \in SUBSET Candidates, swept \in SUBSET Orphans : ClaimAll(p, D, swept)
      BY <2>2 DEF Claim
    <3>2. rec[d] \in Record
      BY DEF TypeInv, TypeOK
    <3>3. CASE d \in D
      <4>1. rec'[d] = [rec[d] EXCEPT !.status = "delivering", !.leaseUntil = clock + leaseMs]
        BY <3>1, <3>3 DEF ClaimAll
      <4>2. rec[d].status \in {"pending", "delivering"}
        BY <3>1, <3>3 DEF Candidates, Claimable
      <4> QED
        BY <3>2, <4>1, <4>2 DEF Record
    <3>4. CASE d \notin D
      BY <3>1, <3>4 DEF ClaimAll
    <3> QED
      BY <3>3, <3>4
  <2> QED
    BY <2>1, <2>2
<1>3. ASSUME NEW q \in Dispatcher, NEW d \in Delivery, pc'[q][d] \notin {"idle", "queued"}
      PROVE  pc'[q][d] = pc[q][d] /\ snap'[q][d] = snap[q][d] /\ plan'[q][d] = plan[q][d]
  <2>1. CASE Crash(p)
    BY <1>3, <2>1 DEF Crash, TypeInv, TypeOK
  <2>2. CASE Claim(p)
    <3>1. PICK D \in SUBSET Candidates, swept \in SUBSET Orphans : ClaimAll(p, D, swept)
      BY <2>2 DEF Claim
    <3>2. pc' = [pc EXCEPT ![p] = [e \in Delivery |-> IF e \in D THEN "queued" ELSE "idle"]]
      BY <3>1 DEF ClaimAll
    <3>3. q # p
      BY <1>3, <3>2 DEF TypeInv, TypeOK
    <3>4. pc'[q] = pc[q] /\ snap'[q] = snap[q] /\ plan' = plan
      BY <2>2, <3>1, <3>2, <3>3 DEF Claim, ClaimAll, TypeInv, TypeOK
    <3> QED
      BY <3>4
  <2> QED
    BY <2>1, <2>2
<1> QED
  BY <1>1, <1>2, <1>3, LogKeeps

\* Control-plane calls: publish starts the accounts, a replay counts itself in requeues and in the
\* hint of the record.
LEMMA LogCall ==
    ASSUME TypeInv, LogInv, NEW c \in Caller, NEW d \in Delivery, ReadsHold(d), ControlPlane(c, d)
    PROVE  LogInv'
<1>0. TypeInv /\ UNCHANGED <<attempts, pc, snap, plan>>
  BY DEF ControlPlane, PublishBegin, PublishWrite, RetryRead, RecoverRead,
         ReadDeadLetter, RequeueWrite, CallIndex, CallFails, jobVars
<1>1. \A q \in Dispatcher, e \in Delivery : Recorded(q, e)'
  BY <1>0 DEF LogInv, Recorded
<1>2. \A e \in Delivery : e # d => rec'[e] = rec[e] /\ requeues'[e] = requeues[e]
  BY <1>0 DEF ControlPlane, PublishBegin, PublishWrite, RetryRead, RecoverRead, ReadDeadLetter,
         RequeueWrite, CallIndex, CallFails, TypeInv, TypeOK
<1>3. ASSUME NEW e \in Delivery, e # d PROVE Accounted(e)'
  BY <1>0, <1>2, <1>3, LogFrame DEF LogInv
<1>4. Accounted(d)'
  <2>1. CASE PublishWrite(c, d)
    <3>1. call[c][d].pc = "publish"
      BY <2>1 DEF PublishWrite, CallAt
    <3>2. rec[d].status = "absent"
      BY <3>1 DEF ReadsHold
    <3>3. rec[d].attemptCount = 0 /\ rec[d].pendingTrigger = "none"
      BY <3>2 DEF LogInv, Accounted, HintUsed
    <3>4. /\ rec'[d].attemptCount = 0 /\ rec'[d].pendingTrigger = "none"
          /\ rec'[d].status = "pending" /\ requeues' = requeues
      BY <1>0, <2>1 DEF PublishWrite, TypeInv, TypeOK, AbsentRecord
    <3> QED
      BY <1>0, <3>2, <3>3, <3>4, LogFrame DEF LogInv
  <2>2. CASE RequeueWrite(c, d)
    <3>1. call[c][d].pc \in {"retry", "recover"} /\ attempts' = attempts
          /\ requeues' = [requeues EXCEPT ![d] = requeues[d] + 1]
      BY <1>0, <2>2 DEF RequeueWrite
    <3>2. rec[d] = call[c][d].snap /\ rec[d].status = "failed" /\ rec[d] \in Record
      BY <3>1 DEF ReadsHold, TypeInv, TypeOK
    <3>3. rec[d].pendingTrigger = "none"
      BY <3>2 DEF LogInv, Accounted, HintUsed
    <3>4. rec' = [rec EXCEPT ![d] = [rec[d] EXCEPT !.status = "pending", !.nextAttemptAt = clock,
                        !.leaseUntil = NoTime, !.pendingTrigger = "manual"]]
      BY <2>2, <3>2 DEF RequeueWrite
    <3>5. /\ rec'[d].status = "pending" /\ rec'[d].pendingTrigger = "manual"
          /\ rec'[d].attemptCount = rec[d].attemptCount
      BY <1>0, <3>2, <3>4 DEF TypeInv, TypeOK, Record
    <3>6. LogAgrees(d)'
      BY <3>1, <3>2, <3>5 DEF LogInv, Accounted, LogAgrees
    <3>7. HintUsed(d)'
      BY <3>5 DEF HintUsed
    <3>8. ReplaysCounted(d)'
      <4>1. ManualsOf(d)' = ManualsOf(d)
        BY <3>1, <3>5 DEF ManualsOf
      <4>2. IsFiniteSet(ManualsOf(d))
        BY FS_Subset DEF LogInv, ManualsOf
      <4>3. Cardinality(ManualsOf(d)) \in Nat
        BY <4>2, FS_CardinalityType
      <4>4. requeues[d] = Cardinality(ManualsOf(d))
        BY <3>3, <4>3 DEF LogInv, Accounted, ReplaysCounted
      <4>5. requeues'[d] = requeues[d] + 1
        BY <1>0, <3>1 DEF TypeInv, TypeOK
      <4> QED
        BY <3>5, <4>1, <4>3, <4>4, <4>5 DEF ReplaysCounted
    <3> QED
      BY <3>6, <3>7, <3>8 DEF Accounted
  <2>3. CASE rec' = rec /\ requeues' = requeues
    BY <1>0, <2>3, LogFrame DEF LogInv
  <2> QED
    BY <2>1, <2>2, <2>3 DEF ControlPlane, PublishBegin, RetryRead, RecoverRead, ReadDeadLetter,
       CallIndex, CallFails
<1> QED
  BY <1>0, <1>1, <1>3, <1>4 DEF LogInv

\* Attempts of one delivery do not overlap and calls read what is there, as LeaseInv says.
LEMMA LogNeeds ==
    ASSUME LeaseInv, LogInv, NEW d \in Delivery
    PROVE  TypeInv /\ Leased(d) /\ Planned(d) /\ AttemptsApart(d) /\ ReadsHold(d)
<1>1. Leased(d) /\ Planned(d) /\ OwnedOnce(d) /\ CallsInTurn(d) /\ HintUsed(d)
  BY DEF LeaseInv, Sound, LogInv, Accounted
<1> QED
  BY <1>1 DEF LeaseInv, OwnedOnce, Holds, AttemptsApart, CallsInTurn, HintUsed, ReadsHold

LEMMA LogStep == LeaseInv /\ LogInv /\ [Next]_vars => LogInv'
<1> SUFFICES ASSUME LeaseInv, LogInv, [Next]_vars PROVE LogInv'
  OBVIOUS
<1>1. ASSUME UNCHANGED <<rec, attempts, jobVars, requeues>> PROVE LogInv'
  BY <1>1, LogKeeps DEF jobVars
<1>2. CASE Tick
  BY <1>1, <1>2 DEF Tick
<1>3. ASSUME NEW p \in Dispatcher, Claim(p) \/ Crash(p) PROVE LogInv'
  BY <1>3, LogClaim DEF LeaseInv
<1>4. ASSUME NEW p \in Dispatcher, NEW d \in Delivery, ProcessClaim(p, d) PROVE LogInv'
  BY <1>4, LogNeeds, LogProcess
<1>5. ASSUME NEW c \in Caller, NEW d \in Delivery, ControlPlane(c, d) PROVE LogInv'
  BY <1>5, LogNeeds, LogCall
<1>6. ASSUME NEW e \in Endpoint, NEW state \in {"enabled", "disabled", "deleted"},
             SetEndpoint(e, state)
      PROVE  LogInv'
  BY <1>1, <1>6 DEF SetEndpoint
<1>7. CASE UNCHANGED vars
  BY <1>1, <1>7 DEF vars, jobVars
<1> QED
  BY <1>2, <1>3, <1>4, <1>5, <1>6, <1>7 DEF Next

LEMMA LogHolds ==
    ASSUME WorkersKeepUp
    PROVE  Spec /\ []ReplaysApart => []LogInv
<1>1. LeaseInv /\ LogInv /\ [Next]_vars => LogInv'
  BY LogStep
<1> QED
  BY <1>1, LeaseHolds, LogInit, PTL DEF Spec

LEMMA CompleteLog == TypeInv /\ LogInv => AttemptLogComplete
<1> SUFFICES ASSUME TypeInv, LogInv, NEW d \in Delivery
             PROVE  /\ 1 .. rec[d].attemptCount \subseteq {a.number : a \in AttemptsOf(d)}
                    /\ {a.number : a \in AttemptsOf(d)} \subseteq 1 .. rec[d].attemptCount + 1
                    /\ \A a \in AttemptsOf(d) : a.number <= rec[d].attemptCount =>
                          (a.ok <=> a.number = rec[d].attemptCount /\ rec[d].status = "succeeded")
  BY DEF AttemptLogComplete
<1>1. rec[d].attemptCount \in Nat /\ \A a \in attempts : a.number \in Nat
  BY DEF TypeInv, TypeOK, Record, Attempt
<1>2. LogAgrees(d)
  BY DEF LogInv, Accounted
<1> QED
  BY <1>1, <1>2 DEF LogAgrees, AttemptsOf

LEMMA AccountedReplays == LogInv => ManualAccounting
<1> SUFFICES ASSUME LogInv, NEW d \in Delivery
             PROVE  requeues[d] =
                      Cardinality({a \in AttemptsOf(d) :
                                      a.trigger = "manual" /\ a.number <= rec[d].attemptCount})
                      + (IF rec[d].pendingTrigger = "manual" THEN 1 ELSE 0)
  BY DEF ManualAccounting
<1>1. {a \in AttemptsOf(d) : a.trigger = "manual" /\ a.number <= rec[d].attemptCount} = ManualsOf(d)
  BY DEF AttemptsOf, ManualsOf
<1> QED
  BY <1>1 DEF LogInv, Accounted, ReplaysCounted

\* The attempt log agrees with the delivery: recordAttempt numbers an attempt by the claimed
\* record, logs it before it counts it, and a re-send after a crash overwrites what was logged
\* and not counted, so that no number is missing, and a success is the last attempt of a
\* delivery that succeeded.
THEOREM LogIsComplete ==
    ASSUME WorkersKeepUp
    PROVE  Spec /\ []ReplaysApart => []AttemptLogComplete
<1>1. LeaseInv => TypeInv
  BY DEF LeaseInv
<1> QED
  BY <1>1, LeaseHolds, LogHolds, CompleteLog, PTL

\* Every replay is answered by exactly one attempt marked "manual": the hint that retryDelivery
\* and recoverEndpoint leave on the record is used up by the attempt that counts, and survives
\* holds, takeovers and crashes until then.
THEOREM ReplaysAreAnswered ==
    ASSUME WorkersKeepUp
    PROVE  Spec /\ []ReplaysApart => []ManualAccounting
BY LogHolds, AccountedReplays, PTL

------------------------------------------------------------------------------
(* The queue implements the lifecycle of docs/DELIVERY.md. Seen through the     *)
(* record every step is one of its arrows, or changes nothing.                  *)

StatusSeen == [d \in Delivery |-> rec[d].status]
CountSeen == [d \in Delivery |-> rec[d].attemptCount]

LEMMA StutterSeen ==
    ASSUME rec' = rec
    PROVE  StatusSeen' = StatusSeen /\ CountSeen' = CountSeen
BY DEF StatusSeen, CountSeen

\* The write of one record moves one delivery.
LEMMA WriteSeen ==
    ASSUME TypeInv, NEW d \in Delivery, NEW r \in Record, rec' = [rec EXCEPT ![d] = r]
    PROVE  /\ StatusSeen[d] = rec[d].status /\ CountSeen[d] = rec[d].attemptCount
           /\ StatusSeen' = [StatusSeen EXCEPT ![d] = r.status]
           /\ CountSeen' = [CountSeen EXCEPT ![d] = r.attemptCount]
           /\ r.attemptCount = rec[d].attemptCount => CountSeen' = CountSeen
BY DEF StatusSeen, CountSeen, TypeInv, TypeOK

\* A claim takes pending deliveries, and takes over expired ones without a visible change.
LEMMA ClaimSeen ==
    ASSUME TypeInv, NEW p \in Dispatcher, Claim(p)
    PROVE  Lifecycle!Claim
<1>1. PICK D \in SUBSET Candidates, swept \in SUBSET Orphans : ClaimAll(p, D, swept)
  BY DEF Claim
<1> DEFINE taken == {d \in D : rec[d].status = "pending"}
<1>2. D \subseteq Delivery /\ \A d \in D : rec[d].status \in {"pending", "delivering"}
  BY <1>1 DEF Candidates, Claimable
<1>3. ASSUME NEW d \in Delivery
      PROVE  /\ rec'[d].status = IF d \in D THEN "delivering" ELSE rec[d].status
             /\ rec'[d].attemptCount = rec[d].attemptCount
  <2>1. rec'[d] = IF d \in D
                  THEN [rec[d] EXCEPT !.status = "delivering", !.leaseUntil = clock + leaseMs]
                  ELSE rec[d]
    BY <1>1 DEF ClaimAll
  <2>2. rec[d] \in Record
    BY DEF TypeInv, TypeOK
  <2> QED
    BY <2>1, <2>2 DEF Record
<1>4. StatusSeen' = [d \in Delivery |-> IF d \in taken THEN "delivering" ELSE StatusSeen[d]]
  BY <1>2, <1>3 DEF StatusSeen
<1>5. CountSeen' = CountSeen
  BY <1>3 DEF CountSeen
<1>6. taken \in SUBSET {d \in Delivery : StatusSeen[d] = "pending"}
  BY <1>2 DEF StatusSeen
<1> HIDE DEF taken
<1> QED
  BY <1>4, <1>5, <1>6 DEF Lifecycle!Claim, StatusSeen, CountSeen

\* The outcome of an attempt is written by its owner, from the record it claimed.
LEMMA OutcomeSeen ==
    ASSUME TypeInv, NEW p \in Dispatcher, NEW d \in Delivery, Leased(d), Planned(d),
           WriteOutcome(p, d)
    PROVE  Lifecycle!Succeed(d) \/ Lifecycle!Backoff(d) \/ Lifecycle!DeadLetter(d)
<1> DEFINE r == Outcome(snap[p][d], plan[p][d])
<1>1. /\ TypeInv /\ pc[p][d] = "write" /\ rec' = [rec EXCEPT ![d] = r]
      /\ snap[p][d] = rec[d] /\ rec[d].status = "delivering"
      /\ snap[p][d] \in Record /\ plan[p][d] \in Plan /\ PlanFits(p, d)
  BY DEF WriteOutcome, At, Leased, Planned, BeforeWrite, TypeInv, TypeOK
<1>2. /\ r \in Record /\ r.attemptCount = rec[d].attemptCount + 1
      /\ r.status \in {"succeeded", "pending", "failed"}
      /\ r.status = "pending" => plan[p][d].next # NoTime
  BY <1>1, OutcomeType, OutcomeFields
<1>3. r.status = "pending" => rec[d].attemptCount + 1 < ScheduleLength
  BY <1>1, <1>2 DEF PlanFits
<1> HIDE DEF r
<1>4. /\ StatusSeen[d] = "delivering" /\ CountSeen[d] = rec[d].attemptCount
      /\ StatusSeen' = [StatusSeen EXCEPT ![d] = r.status]
      /\ CountSeen' = [CountSeen EXCEPT ![d] = CountSeen[d] + 1]
  BY <1>1, <1>2, WriteSeen
<1>5. CASE r.status = "succeeded"
  BY <1>4, <1>5 DEF Lifecycle!Succeed, Lifecycle!Account, Lifecycle!Move, StatusSeen, CountSeen
<1>6. CASE r.status = "pending"
  BY <1>3, <1>4, <1>6 DEF Lifecycle!Backoff, Lifecycle!Account, Lifecycle!Move, StatusSeen, CountSeen
<1>7. CASE r.status = "failed"
  BY <1>4, <1>7 DEF Lifecycle!DeadLetter, Lifecycle!Account, Lifecycle!Move, StatusSeen, CountSeen
<1> QED
  BY <1>2, <1>5, <1>6, <1>7

\* Every step of a worker.
LEMMA ProcessSeen ==
    ASSUME TypeInv, NEW p \in Dispatcher, NEW d \in Delivery, Leased(d), Planned(d),
           ProcessClaim(p, d)
    PROVE  \/ Lifecycle!Next
           \/ StatusSeen' = StatusSeen /\ CountSeen' = CountSeen
<1>1. CASE WriteOutcome(p, d)
  BY <1>1, OutcomeSeen DEF Lifecycle!Next
<1>2. CASE HoldWrite(p, d)
  <2> DEFINE r == [snap[p][d] EXCEPT !.status = "pending", !.nextAttemptAt = plan[p][d].next,
                                     !.leaseUntil = NoTime]
  <2>1. /\ TypeInv /\ pc[p][d] = "hold_write" /\ rec' = [rec EXCEPT ![d] = r]
        /\ snap[p][d] = rec[d] /\ rec[d].status = "delivering"
        /\ snap[p][d] \in Record /\ plan[p][d].next \in TimeOrNone
    BY <1>2 DEF HoldWrite, At, Leased, BeforeWrite, TypeInv, TypeOK, Plan
  <2>2. r \in Record
    BY <2>1, HeldType
  <2>3. r.status = "pending" /\ r.attemptCount = rec[d].attemptCount
    BY <2>1 DEF Record
  <2> HIDE DEF r
  <2>4. /\ StatusSeen[d] = "delivering" /\ CountSeen' = CountSeen
        /\ StatusSeen' = [StatusSeen EXCEPT ![d] = "pending"]
    BY <2>1, <2>2, <2>3, WriteSeen
  <2>5. Lifecycle!Hold(d)
    BY <2>4 DEF Lifecycle!Hold, Lifecycle!Move, StatusSeen, CountSeen
  <2> QED
    BY <2>5 DEF Lifecycle!Next
<1>3. CASE rec' = rec
  BY <1>3, StutterSeen
<1> QED
  BY <1>1, <1>2, <1>3 DEF ProcessClaim, StartAttempt, FailTerminal, HoldDisabled, TakeUp,
     HoldUnindex, HoldIndex, Respond, LogAttempt, UnindexNext, UnindexLease, IndexNext,
     NoteOutcome, StepFails

\* Every step of a control-plane call.
LEMMA CallSeen ==
    ASSUME TypeInv, NEW c \in Caller, NEW d \in Delivery, ReadsHold(d), ControlPlane(c, d)
    PROVE  \/ Lifecycle!Next
           \/ StatusSeen' = StatusSeen /\ CountSeen' = CountSeen
<1>1. CASE PublishWrite(c, d)
  <2> DEFINE r == [AbsentRecord EXCEPT !.status = "pending", !.nextAttemptAt = call[c][d].at]
  <2>1. /\ call[c][d].pc = "publish" /\ rec' = [rec EXCEPT ![d] = r]
        /\ call[c][d].at \in TimeOrNone
    BY <1>1 DEF PublishWrite, CallAt, TypeInv, TypeOK, Call
  <2>2. rec[d].status = "absent" /\ rec[d].attemptCount = 0
    BY <2>1 DEF ReadsHold
  <2>3. r \in Record /\ r.status = "pending" /\ r.attemptCount = rec[d].attemptCount
    BY <2>1, <2>2 DEF Record, AbsentRecord, Status, TimeOrNone
  <2> HIDE DEF r
  <2>4. /\ StatusSeen[d] = "absent" /\ CountSeen' = CountSeen
        /\ StatusSeen' = [StatusSeen EXCEPT ![d] = "pending"]
    BY <2>1, <2>2, <2>3, WriteSeen
  <2>5. Lifecycle!Publish(d)
    BY <2>4 DEF Lifecycle!Publish, Lifecycle!Move, StatusSeen, CountSeen
  <2> QED
    BY <2>5 DEF Lifecycle!Next
<1>2. CASE RequeueWrite(c, d)
  <2> DEFINE r == [call[c][d].snap EXCEPT !.status = "pending", !.nextAttemptAt = clock,
                        !.leaseUntil = NoTime, !.pendingTrigger = "manual"]
  <2>1. call[c][d].pc \in {"retry", "recover"} /\ rec' = [rec EXCEPT ![d] = r]
    BY <1>2 DEF RequeueWrite
  <2>2. /\ rec[d] = call[c][d].snap /\ rec[d].status = "failed"
        /\ call[c][d].snap \in Record /\ clock \in TimeOrNone
    BY <2>1 DEF ReadsHold, TypeInv, TypeOK, TimeOrNone
  <2>3. r \in Record
    BY <2>2, RequeuedType
  <2>4. r.status = "pending" /\ r.attemptCount = rec[d].attemptCount
    BY <2>2 DEF Record
  <2> HIDE DEF r
  <2>5. /\ StatusSeen[d] = "failed" /\ CountSeen' = CountSeen
        /\ StatusSeen' = [StatusSeen EXCEPT ![d] = "pending"]
    BY <2>1, <2>2, <2>3, <2>4, WriteSeen
  <2>6. Lifecycle!Requeue(d)
    BY <2>5 DEF Lifecycle!Requeue, Lifecycle!Move, StatusSeen, CountSeen
  <2> QED
    BY <2>6 DEF Lifecycle!Next
<1>3. CASE rec' = rec
  BY <1>3, StutterSeen
<1> QED
  BY <1>1, <1>2, <1>3 DEF ControlPlane, PublishBegin, RetryRead, RecoverRead, ReadDeadLetter,
     CallIndex, CallFails

LEMMA StepSeen ==
    LeaseInv /\ LogInv /\ [Next]_vars => [Lifecycle!Next]_(Lifecycle!lifecycleVars)
<1> SUFFICES ASSUME LeaseInv, LogInv, [Next]_vars
             PROVE  Lifecycle!Next \/ (StatusSeen' = StatusSeen /\ CountSeen' = CountSeen)
  BY DEF Lifecycle!lifecycleVars, StatusSeen, CountSeen
<1>1. ASSUME NEW p \in Dispatcher, Claim(p) PROVE Lifecycle!Next
  BY <1>1, ClaimSeen DEF LeaseInv, Lifecycle!Next
<1>2. ASSUME NEW p \in Dispatcher, NEW d \in Delivery, ProcessClaim(p, d)
      PROVE  Lifecycle!Next \/ (StatusSeen' = StatusSeen /\ CountSeen' = CountSeen)
  BY <1>2, LogNeeds, ProcessSeen
<1>3. ASSUME NEW c \in Caller, NEW d \in Delivery, ControlPlane(c, d)
      PROVE  Lifecycle!Next \/ (StatusSeen' = StatusSeen /\ CountSeen' = CountSeen)
  BY <1>3, LogNeeds, CallSeen
<1>4. CASE rec' = rec
  BY <1>4, StutterSeen
<1> QED
  BY <1>1, <1>2, <1>3, <1>4 DEF Next, Tick, Crash, SetEndpoint, vars

LEMMA InitSeen == Init => Lifecycle!Init
BY DEF Init, Lifecycle!Init, AbsentRecord

\* The record of a delivery moves only along the arrows of the lifecycle, and every attempt is
\* counted once and decides the next state, although records are written unconditionally: a
\* worker writes back the record it claimed (recordAttempt, holdClaim), a replay the dead letter
\* it read (retryDelivery, recoverEndpoint), and nobody wrote in between.
THEOREM QueueImplementsLifecycle ==
    ASSUME WorkersKeepUp
    PROVE  Spec /\ []ReplaysApart => ImplementsLifecycle
<1>1. Init => Lifecycle!Init
  BY InitSeen
<1>2. LeaseInv /\ LogInv /\ [Next]_vars => [Lifecycle!Next]_(Lifecycle!lifecycleVars)
  BY StepSeen
<1> QED
  BY <1>1, <1>2, LeaseHolds, LogHolds, PTL DEF Spec, ImplementsLifecycle, Lifecycle!Spec
==============================================================================
