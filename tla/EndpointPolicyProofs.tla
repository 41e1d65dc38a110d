------------------------- MODULE EndpointPolicyProofs -------------------------
(***************************************************************************)
(* Theorems about EndpointPolicy, for every number of workers and rounds:  *)
(* its types; with compareAndSwap an accounting never undoes a decision of *)
(* the control plane; an outcome is given up only under contention; and,   *)
(* of control-plane calls that do not overlap, that a rotated secret keeps *)
(* its grace and that enabling an endpoint starts its streak anew.         *)
(***************************************************************************)
EXTENDS EndpointPolicy, FiniteSetTheorems, TLAPS

\* A record as it should be: typed, and with one current secret while live.
WellFormed(e) ==
    /\ e \in Endpoint
    /\ e.live => \E s \in e.secrets : Current(e) = {s}

\* What a worker may do to a record.
Respects(e, next) ==
    /\ Controlled(next) = Controlled(e)
    /\ e.disabled # "no" => next.disabled = e.disabled

\* Every copy of the record that somebody may yet write is well-formed.
CopiesInv ==
    /\ clock \in Nat
    /\ WellFormed(ep)
    /\ note \in [Worker -> Note]
    /\ \A w \in Worker : WellFormed(note[w].planned)
    /\ op \in [Caller -> Op]
    /\ \A c \in Caller : WellFormed(op[c].seen)
    /\ calls \in Nat
    /\ promised \subseteq Nat \X Nat
    /\ enabledAt \in Nat
    /\ rivals \in [Worker -> Nat]

\* A plan about to be committed respects the record it was made from.
PlansInv == \A w \in Worker :
    note[w].pc = "commit" => Respects(note[w].seen, note[w].planned)

IInv == CopiesInv /\ PlansInv

------------------------------------------------------------------------------
(* Records *)

LEMMA NoEndpointFormed == WellFormed(NoEndpoint)
BY DEF WellFormed, NoEndpoint, Endpoint, NoTime, TimeOrNone, Secret

LEMMA InitialFormed == WellFormed(InitialEndpoint)
<1> DEFINE s == [id |-> 1, expires |-> NoTime]
<1>1. s \in Secret
  BY DEF Secret, TimeOrNone, NoTime
<1>2. InitialEndpoint \in Endpoint /\ InitialEndpoint.secrets = {s}
  BY <1>1 DEF InitialEndpoint, Endpoint, TimeOrNone, NoTime
<1>3. Current(InitialEndpoint) = {s}
  BY <1>2 DEF Current
<1> QED BY <1>2, <1>3 DEF WellFormed

\* Changing what is not a secret keeps a record well-formed.
LEMMA SameSecrets ==
    ASSUME NEW e, NEW f, WellFormed(e), f \in Endpoint, f.secrets = e.secrets, f.live = e.live
    PROVE  WellFormed(f)
BY DEF WellFormed, Current

\* noteEndpointOutcome's plan is well-formed and respects the record it is made from.
LEMMA PlanRespects ==
    ASSUME NEW e, WellFormed(e), NEW ok \in BOOLEAN, clock \in Nat
    PROVE  WellFormed(Plan(e, ok)) /\ Respects(e, Plan(e, ok))
<1>1. e \in Endpoint
  BY DEF WellFormed
<1>2. StreakStart(e) \in TimeOrNone
  BY <1>1 DEF StreakStart, Endpoint, TimeOrNone
<1>3. Plan(e, ok) \in Endpoint /\ Plan(e, ok).secrets = e.secrets /\ Plan(e, ok).live = e.live
      /\ Plan(e, ok).settings = e.settings
  BY <1>1, <1>2 DEF Plan, Endpoint, TimeOrNone, NoTime
<1>4. Plan(e, ok).disabled = IF ~ok /\ ShouldDisable(e) THEN "auto" ELSE e.disabled
  BY <1>1 DEF Plan, Endpoint
<1>5. ShouldDisable(e) => e.disabled = "no"
  BY DEF ShouldDisable
<1> QED BY <1>3, <1>4, <1>5, SameSecrets DEF Respects, Controlled

\* A rotation leaves exactly one current secret, the new one.
LEMMA RotatedFormed ==
    ASSUME NEW e, WellFormed(e), clock \in Nat, calls \in Nat
    PROVE  WellFormed(Rotated(e))
<1> DEFINE new == [id |-> calls + 1, expires |-> NoTime]
           old == {[s EXCEPT !.expires = clock + Grace] : s \in Current(e)}
           rest == {s \in e.secrets : s.expires > clock}
<1>1. e \in Endpoint /\ e.secrets \subseteq Secret
  BY DEF WellFormed, Endpoint
<1>2. new \in Secret /\ new.expires = NoTime
  BY DEF Secret, TimeOrNone, NoTime
<1>3. \A s \in old : s \in Secret /\ s.expires # NoTime
  BY <1>1, PolicyAssumption DEF Current, Secret, TimeOrNone, NoTime
<1>4. \A s \in rest : s \in Secret /\ s.expires # NoTime
  BY <1>1 DEF Secret, TimeOrNone, NoTime
<1>5. Rotated(e).secrets = {new} \cup old \cup rest
  BY <1>1 DEF Rotated, Endpoint
<1>6. Rotated(e) \in Endpoint
  <2>1. {new} \cup old \cup rest \in SUBSET Secret
    BY <1>2, <1>3, <1>4
  <2> QED BY <2>1, <1>1 DEF Rotated, Endpoint
<1>7. Current(Rotated(e)) = {new}
  BY <1>2, <1>3, <1>4, <1>5 DEF Current
<1> QED BY <1>5, <1>6, <1>7 DEF WellFormed

LEMMA EnabledFormed ==
    ASSUME NEW e, WellFormed(e)
    PROVE  WellFormed(Enabled(e))
<1>1. e \in Endpoint
  BY DEF WellFormed
<1>2. Enabled(e) \in Endpoint /\ Enabled(e).secrets = e.secrets /\ Enabled(e).live = e.live
  BY <1>1 DEF Enabled, Endpoint, TimeOrNone, NoTime
<1> QED BY <1>2, SameSecrets

------------------------------------------------------------------------------
(* The invariant *)

LEMMA IdleTyped == IdleNote \in Note /\ IdleOp \in Op
BY NoEndpointFormed DEF IdleNote, IdleOp, Note, Op, ControlOp, WellFormed

LEMMA InitInv == Init => IInv
<1> SUFFICES ASSUME Init PROVE IInv
  OBVIOUS
<1>1. \A w \in Worker : note[w] = IdleNote /\ note[w].planned = NoEndpoint
                        /\ note[w].pc = "idle"
  BY DEF Init, IdleNote
<1>2. \A c \in Caller : op[c].seen = NoEndpoint
  BY DEF Init, IdleOp
<1>3. note \in [Worker -> Note] /\ op \in [Caller -> Op]
  BY IdleTyped DEF Init
<1>4. CopiesInv
  BY <1>1, <1>2, <1>3, InitialFormed, NoEndpointFormed DEF CopiesInv, Init
<1> QED BY <1>1, <1>4 DEF IInv, PlansInv

\* Writing the record counts rivals.
LEMMA WriteTyped ==
    ASSUME CopiesInv, NEW next, NEW writer, Write(next, writer)
    PROVE  ep' = next /\ rivals' \in [Worker -> Nat]
BY PolicyAssumption DEF CopiesInv, Write

\* One worker's note changes, to one that is idle or reading.
LEMMA NoteSet ==
    ASSUME CopiesInv, NEW w \in Worker, NEW n \in Note, WellFormed(n.planned), SetNote(w, n)
    PROVE  /\ note' \in [Worker -> Note]
           /\ \A v \in Worker : WellFormed(note'[v].planned)
           /\ note'[w] = n
           /\ \A v \in Worker \ {w} : note'[v] = note[v]
BY DEF CopiesInv, SetNote

LEMMA BeginInv ==
    ASSUME IInv, NEW w \in Worker, NEW ok \in BOOLEAN, NoteBegin(w, ok)
    PROVE  IInv'
<1> DEFINE n == [IdleNote EXCEPT !.pc = "read", !.ok = ok]
<1>1. n \in Note /\ n.planned = NoEndpoint /\ n.pc = "read"
  BY IdleTyped DEF Note, IdleNote
<1>2. SetNote(w, n)
  BY DEF NoteBegin
<1>3. /\ note' \in [Worker -> Note]
      /\ \A v \in Worker : WellFormed(note'[v].planned)
      /\ note'[w] = n
      /\ \A v \in Worker \ {w} : note'[v] = note[v]
  BY <1>1, <1>2, NoteSet, NoEndpointFormed DEF IInv
<1>4. CopiesInv'
  BY <1>3 DEF IInv, CopiesInv, NoteBegin, pledges, WellFormed, Current
<1>5. PlansInv'
  BY <1>1, <1>3 DEF IInv, PlansInv, Respects, Controlled
<1> QED BY <1>4, <1>5 DEF IInv

LEMMA ReadInv ==
    ASSUME IInv, NEW w \in Worker, NoteRead(w)
    PROVE  IInv'
<1> DEFINE n == [note[w] EXCEPT !.pc = "commit", !.seen = ep, !.planned = Plan(ep, note[w].ok)]
<1>1. note[w] \in Note /\ ep \in Endpoint /\ WellFormed(ep) /\ note[w].ok \in BOOLEAN
      /\ clock \in Nat
  BY DEF IInv, CopiesInv, WellFormed, Note
<1>2. WellFormed(Plan(ep, note[w].ok)) /\ Respects(ep, Plan(ep, note[w].ok))
  BY <1>1, PlanRespects
<1>3. n \in Note /\ n.pc = "commit" /\ n.seen = ep /\ n.planned = Plan(ep, note[w].ok)
  BY <1>1, <1>2 DEF Note, WellFormed
<1>4. IdleNote.planned = NoEndpoint /\ IdleNote.pc = "idle"
  BY DEF IdleNote
<1>5. PICK m \in {IdleNote, n} : SetNote(w, m)
  BY DEF NoteRead
<1>6. m \in Note /\ WellFormed(m.planned) /\ (m.pc = "commit" => Respects(m.seen, m.planned))
  BY <1>2, <1>3, <1>4, <1>5, IdleTyped, NoEndpointFormed
<1>7. /\ note' \in [Worker -> Note]
      /\ \A v \in Worker : WellFormed(note'[v].planned)
      /\ note'[w] = m
      /\ \A v \in Worker \ {w} : note'[v] = note[v]
  BY <1>5, <1>6, NoteSet DEF IInv
<1>8. rivals' \in [Worker -> Nat]
  BY DEF NoteRead, IInv, CopiesInv
<1>9. CopiesInv'
  BY <1>7, <1>8 DEF IInv, CopiesInv, NoteRead, pledges, WellFormed, Current
<1>10. PlansInv'
  BY <1>6, <1>7 DEF IInv, PlansInv, Respects, Controlled
<1> QED BY <1>9, <1>10 DEF IInv

LEMMA CommitInv ==
    ASSUME IInv, NEW w \in Worker, NoteCommit(w)
    PROVE  IInv'
<1> DEFINE n == [IdleNote EXCEPT !.pc = "read", !.ok = note[w].ok, !.tries = note[w].tries + 1]
<1>1. note[w] \in Note
  BY DEF IInv, CopiesInv
<1>2. n \in Note /\ n.planned = NoEndpoint /\ n.pc = "read"
  <2>1. IdleNote \in Note /\ IdleNote.planned = NoEndpoint
    BY IdleTyped DEF IdleNote
  <2>2. note[w].ok \in BOOLEAN /\ note[w].tries + 1 \in Nat
    BY <1>1 DEF Note
  <2> QED BY <2>1, <2>2 DEF Note
<1>3. IdleNote.planned = NoEndpoint /\ IdleNote.pc = "idle"
  BY DEF IdleNote
<1>4. PICK m \in {IdleNote, n} : SetNote(w, m)
  BY DEF NoteCommit
<1>5. m \in Note /\ WellFormed(m.planned) /\ m.pc # "commit"
  BY <1>2, <1>3, <1>4, IdleTyped, NoEndpointFormed
<1>6. /\ note' \in [Worker -> Note]
      /\ \A v \in Worker : WellFormed(note'[v].planned)
      /\ note'[w] = m
      /\ \A v \in Worker \ {w} : note'[v] = note[v]
  BY <1>4, <1>5, NoteSet DEF IInv
<1>7. WellFormed(ep') /\ rivals' \in [Worker -> Nat]
  <2>1. CASE Wins(w)
    <3>1. Write(note[w].planned, w)
      BY <2>1 DEF NoteCommit
    <3>2. ep' = note[w].planned /\ rivals' \in [Worker -> Nat]
      BY <3>1, WriteTyped DEF IInv
    <3> QED BY <3>2 DEF IInv, CopiesInv
  <2>2. CASE ~Wins(w)
    <3>1. ep' = ep
      BY <2>2 DEF NoteCommit
    <3>2. rivals' \in [Worker -> Nat]
      BY <2>2 DEF NoteCommit, IInv, CopiesInv
    <3> QED BY <3>1, <3>2 DEF IInv, CopiesInv
  <2> QED BY <2>1, <2>2
<1>8. CopiesInv'
  BY <1>6, <1>7 DEF IInv, CopiesInv, NoteCommit, pledges, WellFormed, Current
<1>9. PlansInv'
  BY <1>5, <1>6 DEF IInv, PlansInv, Respects, Controlled
<1> QED BY <1>8, <1>9 DEF IInv

LEMMA ControlReadInv ==
    ASSUME IInv, NEW c \in Caller, NEW kind \in ControlOp, ControlRead(c, kind)
    PROVE  IInv'
<1> DEFINE o == [pc |-> "write", kind |-> kind, seen |-> ep]
<1>1. o \in Op /\ WellFormed(o.seen)
  BY DEF IInv, CopiesInv, WellFormed, Op
<1>2. op' \in [Caller -> Op] /\ \A d \in Caller : WellFormed(op'[d].seen)
  BY <1>1 DEF IInv, CopiesInv, ControlRead
<1>3. CopiesInv'
  BY <1>2 DEF IInv, CopiesInv, ControlRead, pledges, WellFormed, Current
<1>4. PlansInv'
  BY DEF IInv, PlansInv, ControlRead, Respects, Controlled
<1> QED BY <1>3, <1>4 DEF IInv

\* The caller is idle again.
LEMMA OpDone ==
    ASSUME CopiesInv, NEW c \in Caller, op' = [op EXCEPT ![c] = IdleOp]
    PROVE  op' \in [Caller -> Op] /\ \A d \in Caller : WellFormed(op'[d].seen)
<1>1. IdleOp.seen = NoEndpoint
  BY DEF IdleOp
<1> QED BY <1>1, IdleTyped, NoEndpointFormed DEF CopiesInv

LEMMA ControlDeniedInv ==
    ASSUME IInv, NEW c \in Caller, ControlDenied(c)
    PROVE  IInv'
<1>1. op' \in [Caller -> Op] /\ \A d \in Caller : WellFormed(op'[d].seen)
  BY OpDone DEF IInv, ControlDenied
<1>2. CopiesInv'
  BY <1>1 DEF IInv, CopiesInv, ControlDenied, pledges, WellFormed, Current
<1>3. PlansInv'
  BY DEF IInv, PlansInv, ControlDenied, Respects, Controlled
<1> QED BY <1>2, <1>3 DEF IInv

\* Whatever a control-plane call writes, if it is well-formed.
LEMMA ControlWriteInv ==
    ASSUME IInv, NEW c \in Caller, NEW kind \in ControlOp, NEW next, WellFormed(next),
           ControlWrite(c, kind, next), promised' \subseteq Nat \X Nat, enabledAt' \in Nat
    PROVE  IInv'
<1> DEFINE e == [next EXCEPT !.settings = IF next.live THEN calls ELSE 0,
                             !.updatedAt = IF next.live THEN clock ELSE 0]
<1>1. calls \in Nat /\ clock \in Nat
  BY DEF IInv, CopiesInv
<1>2. e \in Endpoint /\ e.secrets = next.secrets /\ e.live = next.live
  BY <1>1 DEF WellFormed, Endpoint
<1>3. WellFormed(e)
  BY <1>2, SameSecrets
<1>4. ep' = e /\ rivals' \in [Worker -> Nat]
  BY WriteTyped DEF IInv, ControlWrite
<1>5. op' \in [Caller -> Op] /\ \A d \in Caller : WellFormed(op'[d].seen)
  BY OpDone DEF IInv, ControlWrite
<1>6. WellFormed(ep')
  BY <1>3, <1>4
<1>7. CopiesInv'
  BY <1>1, <1>4, <1>5, <1>6 DEF IInv, CopiesInv, ControlWrite, WellFormed, Current
<1>8. PlansInv'
  BY DEF IInv, PlansInv, ControlWrite, Respects, Controlled
<1> QED BY <1>7, <1>8 DEF IInv

LEMMA ControlPlaneInv ==
    ASSUME IInv, NEW c \in Caller,
           \/ UpdateWrite(c) \/ RotateWrite(c) \/ EnableWrite(c) \/ DisableWrite(c)
           \/ DeleteWrite(c)
    PROVE  IInv'
<1> DEFINE seen == op[c].seen
<1>1. /\ WellFormed(seen) /\ seen \in Endpoint
      /\ clock \in Nat /\ calls \in Nat
      /\ promised \subseteq Nat \X Nat /\ enabledAt \in Nat
  BY DEF IInv, CopiesInv, WellFormed
<1>2. CASE UpdateWrite(c)
  BY <1>1, <1>2, ControlWriteInv DEF UpdateWrite, pledges, ControlOp
<1>3. CASE RotateWrite(c)
  <2>1. WellFormed(Rotated(seen))
    BY <1>1, RotatedFormed
  <2>2. promised' \subseteq Nat \X Nat
    <3>1. \A s \in Current(seen) : s.id \in Nat
      BY <1>1 DEF Current, Endpoint, Secret
    <3> QED BY <3>1, <1>1, <1>3, PolicyAssumption DEF RotateWrite
  <2> QED BY <2>1, <2>2, <1>1, <1>3, ControlWriteInv DEF RotateWrite, ControlOp
<1>4. CASE EnableWrite(c)
  <2>1. WellFormed(Enabled(seen))
    BY <1>1, EnabledFormed
  <2> QED BY <2>1, <1>1, <1>4, ControlWriteInv DEF EnableWrite, ControlOp
<1>5. CASE DisableWrite(c)
  <2> DEFINE off == [seen EXCEPT !.disabled = "manual"]
  <2>1. off \in Endpoint /\ off.secrets = seen.secrets /\ off.live = seen.live
    BY <1>1 DEF Endpoint
  <2>2. WellFormed(off)
    BY <2>1, <1>1, SameSecrets
  <2> QED BY <2>2, <1>1, <1>5, ControlWriteInv DEF DisableWrite, pledges, ControlOp
<1>6. CASE DeleteWrite(c)
  BY <1>1, <1>6, NoEndpointFormed, ControlWriteInv DEF DeleteWrite, pledges, ControlOp
<1> QED BY <1>2, <1>3, <1>4, <1>5, <1>6

LEMMA TickInv ==
    ASSUME IInv, Tick \/ UNCHANGED vars
    PROVE  IInv'
<1>1. clock' \in Nat /\ UNCHANGED <<ep, note, op, calls, promised, enabledAt, rivals>>
  BY DEF IInv, CopiesInv, Tick, vars, pledges
<1>2. CopiesInv'
  BY <1>1 DEF IInv, CopiesInv, WellFormed, Current
<1>3. PlansInv'
  BY <1>1 DEF IInv, PlansInv, Respects, Controlled
<1> QED BY <1>2, <1>3 DEF IInv

LEMMA NextInv == IInv /\ [Next]_vars => IInv'
<1> SUFFICES ASSUME IInv, [Next]_vars PROVE IInv'
  OBVIOUS
<1>1. CASE Tick \/ UNCHANGED vars
  BY <1>1, TickInv
<1>2. ASSUME NEW w \in Worker, NEW ok \in BOOLEAN, NoteBegin(w, ok) PROVE IInv'
  BY <1>2, BeginInv
<1>3. ASSUME NEW w \in Worker, NoteRead(w) \/ NoteCommit(w) PROVE IInv'
  BY <1>3, ReadInv, CommitInv
<1>4. ASSUME NEW c \in Caller, NEW kind \in ControlOp, ControlRead(c, kind) PROVE IInv'
  BY <1>4, ControlReadInv
<1>5. ASSUME NEW c \in Caller,
             \/ ControlDenied(c) \/ UpdateWrite(c) \/ RotateWrite(c) \/ EnableWrite(c)
             \/ DisableWrite(c) \/ DeleteWrite(c)
      PROVE  IInv'
  BY <1>5, ControlDeniedInv, ControlPlaneInv
<1> QED BY <1>1, <1>2, <1>3, <1>4, <1>5 DEF Next

LEMMA Inductive == Spec => []IInv
BY InitInv, NextInv, PTL DEF Spec

------------------------------------------------------------------------------
(* Theorems *)

\* Every variable keeps its type, and whatever is written over an endpoint while it
\* is live, it keeps exactly one current secret (core.ts rotateSecret and all the
\* whole-record writes).
THEOREM EndpointTypeCorrect == Spec => []EndpointTypeOK
<1>1. ASSUME IInv PROVE EndpointTypeOK
  <2>1. ep.live => Cardinality(Current(ep)) = 1
    <3>1. \A s : Cardinality({s}) = 1
      BY FS_Singleton
    <3> QED BY <1>1, <3>1 DEF IInv, CopiesInv, WellFormed
  <2> QED BY <1>1, <2>1 DEF IInv, CopiesInv, EndpointTypeOK, WellFormed
<1> QED BY <1>1, Inductive, PTL

\* core.ts noteEndpointOutcome: with compareAndSwap an accounting is committed
\* without clobbering a concurrent control-plane write, for any number of workers
\* and callers, rounds and interleavings.
THEOREM ControlKept ==
    ASSUME HasCompareAndSwap
    PROVE  Spec => ControlChangesSurvive
<1> DEFINE Survives ==
        (\E w \in Worker : note'[w] # note[w]) =>
            /\ Controlled(ep') = Controlled(ep)
            /\ ep.disabled # "no" => ep'.disabled = ep.disabled
<1>1. ASSUME IInv, [Next]_vars PROVE [Survives]_vars
  <2>1. CASE ep' = ep
    BY <2>1 DEF Controlled
  <2>2. CASE note' = note
    BY <2>2
  <2>3. ASSUME NEW w \in Worker, NoteCommit(w), Wins(w) PROVE Survives
    <3>1. ep = note[w].seen
      BY <2>3 DEF Wins
    <3>2. ep' = note[w].planned
      BY <2>3 DEF NoteCommit, Write
    <3>3. Respects(note[w].seen, note[w].planned)
      BY <1>1, <2>3 DEF IInv, PlansInv, NoteCommit
    <3> QED BY <3>1, <3>2, <3>3 DEF Respects
  <2>4. ep' = ep \/ note' = note \/ \E w \in Worker : NoteCommit(w) /\ Wins(w)
    BY <1>1 DEF Next, vars, pledges, Tick, NoteBegin, NoteRead, NoteCommit, ControlRead,
                ControlDenied, ControlWrite, UpdateWrite, RotateWrite, EnableWrite,
                DisableWrite, DeleteWrite
  <2> QED BY <2>1, <2>2, <2>3, <2>4
<1>2. Spec => [][Survives]_vars
  BY <1>1, Inductive, PTL DEF Spec
<1> QED BY <1>2 DEF ControlChangesSurvive


------------------------------------------------------------------------------
(* Giving up.                                                                   *)

\* Every round that a worker has lost was lost to a write that it has seen as a
\* rival, the one it is about to lose included.
TriesOK(w) ==
    /\ note[w].tries < MaxTries
    /\ note[w].pc = "read" => rivals[w] >= note[w].tries
    /\ note[w].pc = "commit" => rivals[w] >= note[w].tries + (IF ep = note[w].seen THEN 0 ELSE 1)

TriesInv == \A w \in Worker : TriesOK(w)

LEMMA TriesInit == Init => TriesInv
BY PolicyAssumption DEF Init, TriesInv, TriesOK, IdleNote

\* A write is a rival to all who are noting.
LEMMA WriteRivals ==
    ASSUME CopiesInv, TriesInv, NEW next, NEW writer, Write(next, writer),
           NEW w \in Worker, w # writer, note'[w] = note[w]
    PROVE  TriesOK(w)'
<1>1. /\ note[w].tries \in Nat /\ rivals[w] \in Nat /\ MaxTries \in Nat /\ TriesOK(w)
      /\ note[w].pc \in {"idle", "read", "commit"}
  BY PolicyAssumption DEF CopiesInv, TriesInv, Note
<1>2. rivals'[w] = IF note[w].pc = "idle" THEN 0
                   ELSE IF rivals[w] = MaxTries THEN MaxTries ELSE rivals[w] + 1
  BY DEF Write
<1>3. CASE note[w].pc = "idle"
  BY <1>1, <1>3 DEF TriesOK
<1>4. CASE note[w].pc # "idle"
  <2>1. rivals[w] >= note[w].tries /\ note[w].tries < MaxTries
    BY <1>1, <1>4 DEF TriesOK
  <2>2. rivals'[w] \in Nat /\ rivals'[w] >= note[w].tries + 1
    BY <1>1, <1>2, <1>4, <2>1
  <2>3. (IF ep' = note[w].seen THEN 0 ELSE 1) \in {0, 1}
    OBVIOUS
  <2> QED
    BY <1>1, <2>1, <2>2, <2>3 DEF TriesOK
<1> QED
  BY <1>3, <1>4

\* Of the steps of a worker, the others only see the write.
LEMMA NoteOthers ==
    ASSUME IInv, NEW w \in Worker, NEW n, SetNote(w, n)
    PROVE  note'[w] = n /\ \A v \in Worker : v # w => note'[v] = note[v]
BY DEF IInv, CopiesInv, SetNote

LEMMA CommitCases ==
    ASSUME IInv, NEW w \in Worker, NoteCommit(w)
    PROVE  /\ note[w].pc = "commit"
           /\ \A v \in Worker : v # w => note'[v] = note[v]
           /\ UNCHANGED <<clock, op, calls, promised, enabledAt>>
           /\ \/ Wins(w) /\ Write(note[w].planned, w) /\ note'[w] = IdleNote
              \/ ~Wins(w) /\ LastTry(w) /\ note'[w] = IdleNote /\ ep' = ep
                 /\ rivals' = [rivals EXCEPT ![w] = 0]
              \/ ~Wins(w) /\ ~LastTry(w) /\ ep' = ep /\ rivals' = rivals
                 /\ note'[w].pc = "read" /\ note'[w].tries = note[w].tries + 1
<1>1. CASE Wins(w)
  BY <1>1, NoteOthers DEF NoteCommit, pledges
<1>2. CASE ~Wins(w) /\ LastTry(w)
  BY <1>2, NoteOthers DEF NoteCommit, pledges
<1>3. CASE ~Wins(w) /\ ~LastTry(w)
  <2> DEFINE n == [IdleNote EXCEPT !.pc = "read", !.ok = note[w].ok, !.tries = note[w].tries + 1]
  <2>1. n.pc = "read" /\ n.tries = note[w].tries + 1
    BY DEF IdleNote
  <2>2. SetNote(w, n)
    BY <1>3 DEF NoteCommit
  <2> HIDE DEF n
  <2> QED
    BY <1>3, <2>1, <2>2, NoteOthers DEF NoteCommit, pledges
<1> QED
  BY <1>1, <1>2, <1>3

LEMMA ReadCases ==
    ASSUME IInv, NEW w \in Worker, NoteRead(w)
    PROVE  /\ note[w].pc = "read"
           /\ \A v \in Worker : v # w => note'[v] = note[v]
           /\ UNCHANGED <<clock, ep, op, calls, promised, enabledAt>>
           /\ \/ note'[w] = IdleNote /\ rivals' = [rivals EXCEPT ![w] = 0]
              \/ /\ ep.live /\ rivals' = rivals
                 /\ note'[w].pc = "commit" /\ note'[w].tries = note[w].tries
                 /\ note'[w].seen = ep /\ note'[w].planned = Plan(ep, note[w].ok)
<1>1. CASE NothingToNote(ep, note[w].ok)
  BY <1>1, NoteOthers DEF NoteRead, pledges
<1>2. CASE ~NothingToNote(ep, note[w].ok)
  <2> DEFINE n == [note[w] EXCEPT !.pc = "commit", !.seen = ep, !.planned = Plan(ep, note[w].ok)]
  <2>1. note[w] \in Note
    BY DEF IInv, CopiesInv
  <2>2. n.pc = "commit" /\ n.tries = note[w].tries /\ n.seen = ep /\ n.planned = Plan(ep, note[w].ok)
    BY <2>1 DEF Note
  <2>3. SetNote(w, n) /\ ep.live
    BY <1>2 DEF NoteRead, NothingToNote
  <2> HIDE DEF n
  <2> QED
    BY <1>2, <2>2, <2>3, NoteOthers DEF NoteRead, pledges
<1> QED
  BY <1>1, <1>2

LEMMA BeginCases ==
    ASSUME IInv, NEW w \in Worker, NEW ok \in BOOLEAN, NoteBegin(w, ok)
    PROVE  /\ note[w].pc = "idle" /\ note'[w].pc = "read" /\ note'[w].tries = 0
           /\ \A v \in Worker : v # w => note'[v] = note[v]
           /\ UNCHANGED <<clock, ep, op, rivals, calls, promised, enabledAt>>
<1> DEFINE n == [IdleNote EXCEPT !.pc = "read", !.ok = ok]
<1>1. n.pc = "read" /\ n.tries = 0
  BY DEF IdleNote
<1>2. SetNote(w, n)
  BY DEF NoteBegin
<1> HIDE DEF n
<1> QED
  BY <1>1, <1>2, NoteOthers DEF NoteBegin, pledges

LEMMA TriesNext == IInv /\ TriesInv /\ [Next]_vars => TriesInv'
<1> SUFFICES ASSUME IInv, TriesInv, [Next]_vars, NEW v \in Worker PROVE TriesOK(v)'
  BY DEF TriesInv
<1>0. /\ TriesOK(v) /\ note[v].tries \in Nat /\ rivals \in [Worker -> Nat] /\ MaxTries \in Nat
      /\ 0 < MaxTries
  BY PolicyAssumption DEF IInv, CopiesInv, TriesInv, Note
<1>i. ASSUME note'[v] = IdleNote PROVE TriesOK(v)'
  BY <1>0, <1>i DEF TriesOK, IdleNote
<1>1. CASE UNCHANGED <<ep, note, rivals>>
  BY <1>0, <1>1 DEF TriesOK
<1>2. ASSUME NEW w \in Worker, NEW ok \in BOOLEAN, NoteBegin(w, ok) PROVE TriesOK(v)'
  BY <1>0, <1>2, BeginCases DEF TriesOK
<1>3. ASSUME NEW w \in Worker, NoteRead(w) PROVE TriesOK(v)'
  <2>1. CASE v # w
    <3>1. note'[v] = note[v] /\ rivals'[v] = rivals[v] /\ ep' = ep
      BY <1>0, <1>3, <2>1, ReadCases
    <3> QED
      BY <1>0, <3>1 DEF TriesOK
  <2>2. CASE v = w
    BY <1>0, <1>i, <1>3, <2>2, ReadCases DEF TriesOK
  <2> QED
    BY <2>1, <2>2
<1>4. ASSUME NEW w \in Worker, NoteCommit(w) PROVE TriesOK(v)'
  <2>1. CASE v # w /\ Wins(w)
    BY <1>4, <2>1, CommitCases, WriteRivals DEF IInv
  <2>2. CASE v # w /\ ~Wins(w)
    <3>1. note'[v] = note[v] /\ rivals'[v] = rivals[v] /\ ep' = ep
      BY <1>0, <1>4, <2>2, CommitCases
    <3> QED
      BY <1>0, <3>1 DEF TriesOK
  <2>3. CASE v = w /\ note'[v] # IdleNote
    <3>1. /\ ~Wins(w) /\ ~LastTry(w) /\ rivals' = rivals /\ note[w].pc = "commit"
          /\ note'[w].pc = "read" /\ note'[w].tries = note[w].tries + 1
      BY <1>4, <2>3, CommitCases
    <3>2. ep # note[w].seen
      BY <3>1 DEF Wins
    <3>3. note[v].tries + 1 # MaxTries /\ note[v].tries < MaxTries /\ rivals[v] >= note[v].tries + 1
      BY <1>0, <2>3, <3>1, <3>2 DEF LastTry, TriesOK
    <3> QED
      BY <1>0, <2>3, <3>1, <3>3 DEF TriesOK
  <2> QED
    BY <1>i, <2>1, <2>2, <2>3
<1>5. ASSUME NEW c \in Caller, NEW kind \in ControlOp, ControlRead(c, kind) PROVE TriesOK(v)'
  BY <1>1, <1>5 DEF ControlRead
<1>6. ASSUME NEW c \in Caller, ControlDenied(c) PROVE TriesOK(v)'
  BY <1>1, <1>6 DEF ControlDenied
<1>7. ASSUME NEW next, Write(next, "control"), note' = note PROVE TriesOK(v)'
  BY <1>7, WriteRivals, NamesAssumption DEF IInv
<1> QED
  BY <1>1, <1>2, <1>3, <1>4, <1>5, <1>6, <1>7
     DEF Next, vars, Tick, UpdateWrite, RotateWrite, EnableWrite, DisableWrite, DeleteWrite, ControlWrite

\* core.ts noteEndpointOutcome: a lost round is tried again from the latest record;
\* a worker drops its outcome only after MaxTries writes of the record while it was
\* noting it, or when the record says what it would have written. With compareAndSwap
\* and without, for any number of workers and callers.
THEOREM GivingUpTakesContention == Spec => GivesUpOnlyUnderContention
<1>1. ASSUME IInv, TriesInv, [Next]_vars
      PROVE  [\A w \in Worker :
                note[w].pc = "commit" /\ note'[w].pc = "idle" /\ ep' = ep
                    => rivals[w] >= MaxTries \/ note[w].planned = ep]_vars
  <2> SUFFICES ASSUME NEW w \in Worker, note[w].pc = "commit", note'[w].pc = "idle", ep' = ep
               PROVE  rivals[w] >= MaxTries \/ note[w].planned = ep
    OBVIOUS
  <2>1. NoteCommit(w)
    <3>1. ASSUME NEW v \in Worker, v # w, NoteRead(v) \/ NoteCommit(v) PROVE FALSE
      BY <1>1, <3>1, ReadCases, CommitCases
    <3>2. ASSUME NEW v \in Worker, NEW ok \in BOOLEAN, NoteBegin(v, ok) PROVE FALSE
      BY <1>1, <3>2, BeginCases
    <3> QED
      BY <1>1, <3>1, <3>2 DEF Next, vars, Tick, NoteRead, ControlRead, ControlDenied, ControlWrite,
         UpdateWrite, RotateWrite, EnableWrite, DisableWrite, DeleteWrite
  <2>2. CASE Wins(w)
    BY <1>1, <2>1, <2>2, CommitCases DEF Write
  <2>3. CASE ~Wins(w)
    <3>1. LastTry(w) /\ ep # note[w].seen
      BY <1>1, <2>1, <2>3, CommitCases DEF Wins
    <3> QED
      BY <1>1, <3>1 DEF TriesInv, TriesOK, LastTry
  <2> QED
    BY <2>2, <2>3
<1>2. IInv /\ TriesInv /\ [Next]_vars => (IInv /\ TriesInv)'
  BY NextInv, TriesNext
<1>3. Init => IInv /\ TriesInv
  BY InitInv, TriesInit
<1> QED
  BY <1>1, <1>2, <1>3, PTL DEF Spec, GivesUpOnlyUnderContention

------------------------------------------------------------------------------
(* One control-plane call at a time.                                            *)

\* Calls that read, await their hook and write do not overlap (those that do may
\* undo each other: a known hazard of the code).
OneCaller == \A c, d \in Caller : c = d

\* The streak began after the operator's last enable.
FreshStreak(e) == e.failingSince # NoTime => e.failingSince >= enabledAt

\* settings tells the record of one control-plane write from that of another.
Stamps == /\ enabledAt <= clock /\ ep.settings < calls
          /\ \A w \in Worker :
                note[w].pc = "commit" => note[w].seen.live /\ note[w].seen.settings < calls

\* What a control-plane call has read is as the record still is, but for the streak.
Copy(c) == op[c].pc = "write" =>
    /\ ep.live /\ op[c].seen.live
    /\ op[c].seen.secrets = ep.secrets
    /\ op[c].seen.disabled = "auto" => ep.disabled = "auto"
    /\ FreshStreak(op[c].seen)

\* What a worker may yet commit: made of a streak after the last enable, and
\* disabling for a streak that was long enough.
PlanOK(w) == note[w].pc = "commit" =>
    /\ note[w].seen.settings = ep.settings /\ ep.live => FreshStreak(note[w].planned)
    /\ note[w].planned.disabled = "auto" /\ note[w].seen.disabled # "auto" =>
        /\ note[w].planned.failingSince # NoTime
        /\ clock - note[w].planned.failingSince > FailingFor

SoloInv == /\ FreshStreak(ep) /\ Stamps
           /\ \A c \in Caller : Copy(c)
           /\ \A w \in Worker : PlanOK(w)
           /\ GraceKept

LEMMA SoloInit == Init => SoloInv
BY DEF Init, SoloInv, FreshStreak, Stamps, Copy, PlanOK, GraceKept, InitialEndpoint, IdleNote, IdleOp,
       NoTime

LEMMA ControlFields ==
    ASSUME IInv, NEW c \in Caller, NEW kind, NEW next \in Endpoint, ControlWrite(c, kind, next)
    PROVE  /\ op[c].pc = "write" /\ op'[c] = IdleOp /\ \A d \in Caller : d # c => op'[d] = op[d]
           /\ UNCHANGED <<clock, note>> /\ calls' = calls + 1
           /\ ep'.live = next.live /\ ep'.secrets = next.secrets /\ ep'.disabled = next.disabled
           /\ ep'.failingSince = next.failingSince
           /\ ep'.settings = IF next.live THEN calls ELSE 0
BY DEF IInv, CopiesInv, ControlWrite, Write, Endpoint

LEMMA ControlCases ==
    ASSUME IInv, NEW c \in Caller,
           \/ UpdateWrite(c) \/ RotateWrite(c) \/ EnableWrite(c) \/ DisableWrite(c)
           \/ DeleteWrite(c)
    PROVE  /\ op[c].pc = "write" /\ op'[c] = IdleOp /\ \A d \in Caller : d # c => op'[d] = op[d]
           /\ UNCHANGED <<clock, note>> /\ calls' = calls + 1
           /\ ep'.settings = IF ep'.live THEN calls ELSE 0
           /\ \/ /\ ~ep'.live /\ ep'.failingSince = NoTime /\ ep'.disabled = "no"
                 /\ UNCHANGED <<promised, enabledAt>>
              \/ /\ ep'.live = op[c].seen.live /\ ep'.secrets = op[c].seen.secrets
                 /\ ep'.disabled \in {op[c].seen.disabled, "manual"}
                 /\ ep'.failingSince = op[c].seen.failingSince
                 /\ UNCHANGED <<promised, enabledAt>>
              \/ /\ ep'.live = op[c].seen.live /\ ep'.secrets = op[c].seen.secrets
                 /\ ep'.disabled = "no" /\ ep'.failingSince = NoTime
                 /\ promised' = promised /\ enabledAt' = clock
              \/ /\ ep'.live = op[c].seen.live /\ ep'.secrets = Rotated(op[c].seen).secrets
                 /\ ep'.disabled = op[c].seen.disabled /\ ep'.failingSince = op[c].seen.failingSince
                 /\ promised' = promised \cup {<<s.id, clock + Grace>> : s \in Current(op[c].seen)}
                 /\ enabledAt' = enabledAt
<1>1. PICK seen : seen = op[c].seen
  OBVIOUS
<1>2. seen \in Endpoint /\ WellFormed(seen) /\ clock \in Nat /\ calls \in Nat
  BY <1>1 DEF IInv, CopiesInv, WellFormed
<1>3. CASE UpdateWrite(c)
  BY <1>1, <1>2, <1>3, ControlFields DEF UpdateWrite, pledges
<1>4. CASE RotateWrite(c)
  <2>1. Rotated(seen) \in Endpoint
    BY <1>2, RotatedFormed DEF WellFormed
  <2>2. /\ Rotated(seen).live = seen.live /\ Rotated(seen).disabled = seen.disabled
        /\ Rotated(seen).failingSince = seen.failingSince
    BY <1>2 DEF Rotated, Endpoint
  <2>3. ControlWrite(c, "rotate", Rotated(seen))
    BY <1>1, <1>4 DEF RotateWrite
  <2>4. /\ promised' = promised \cup {<<s.id, clock + Grace>> : s \in Current(op[c].seen)}
        /\ enabledAt' = enabledAt
    BY <1>4 DEF RotateWrite
  <2> QED
    BY <1>1, <2>1, <2>2, <2>3, <2>4, ControlFields
<1>5. CASE EnableWrite(c)
  <2>1. /\ Enabled(seen) \in Endpoint /\ Enabled(seen).live = seen.live
        /\ Enabled(seen).secrets = seen.secrets /\ Enabled(seen).disabled = "no"
        /\ Enabled(seen).failingSince = NoTime
    BY <1>2 DEF Enabled, Endpoint, TimeOrNone, NoTime
  <2>2. ControlWrite(c, "enable", Enabled(seen)) /\ enabledAt' = clock /\ promised' = promised
    BY <1>1, <1>5 DEF EnableWrite
  <2> QED
    BY <1>1, <2>1, <2>2, ControlFields
<1>6. CASE DisableWrite(c)
  <2> DEFINE off == [seen EXCEPT !.disabled = "manual"]
  <2>1. /\ off \in Endpoint /\ off.live = seen.live /\ off.secrets = seen.secrets
        /\ off.disabled = "manual" /\ off.failingSince = seen.failingSince
    BY <1>2 DEF Endpoint
  <2>2. ControlWrite(c, "disable", off) /\ UNCHANGED <<promised, enabledAt>>
    BY <1>1, <1>6 DEF DisableWrite, pledges
  <2> HIDE DEF off
  <2> QED
    BY <1>1, <2>1, <2>2, ControlFields
<1>7. CASE DeleteWrite(c)
  <2>1. /\ NoEndpoint \in Endpoint /\ ~NoEndpoint.live /\ NoEndpoint.disabled = "no"
        /\ NoEndpoint.failingSince = NoTime
    BY NoEndpointFormed DEF WellFormed, NoEndpoint
  <2>2. ControlWrite(c, "delete", NoEndpoint) /\ UNCHANGED <<promised, enabledAt>>
    BY <1>7 DEF DeleteWrite, pledges
  <2> QED
    BY <2>1, <2>2, ControlFields
<1> QED
  BY <1>3, <1>4, <1>5, <1>6, <1>7

\* A rotation keeps every secret that somebody counts on, and gives the one that it
\* replaces its grace.
LEMMA RotatedKeeps ==
    ASSUME NEW e \in Endpoint, clock \in Nat
    PROVE  /\ \A s \in e.secrets : s.expires # NoTime /\ s.expires > clock => s \in Rotated(e).secrets
           /\ \A s \in Current(e) : \E t \in Rotated(e).secrets :
                t.id = s.id /\ t.expires = clock + Grace
<1>1. Rotated(e).secrets = {[id |-> calls + 1, expires |-> NoTime]}
        \cup {[s EXCEPT !.expires = clock + Grace] : s \in Current(e)}
        \cup {s \in e.secrets : s.expires > clock}
  BY DEF Rotated, Endpoint
<1>2. ASSUME NEW s \in Current(e)
      PROVE  \E t \in Rotated(e).secrets : t.id = s.id /\ t.expires = clock + Grace
  <2>1. s \in Secret
    BY DEF Current, Endpoint
  <2>2. [s EXCEPT !.expires = clock + Grace].id = s.id
        /\ [s EXCEPT !.expires = clock + Grace].expires = clock + Grace
    BY <2>1 DEF Secret
  <2> QED
    BY <1>1, <2>2
<1> QED
  BY <1>1, <1>2

LEMMA PlanFields ==
    ASSUME NEW e \in Endpoint, NEW ok \in BOOLEAN
    PROVE  /\ Plan(e, ok).failingSince = IF ok THEN NoTime ELSE StreakStart(e)
           /\ Plan(e, ok).disabled = IF ~ok /\ ShouldDisable(e) THEN "auto" ELSE e.disabled
BY DEF Plan, Endpoint

LEMMA SoloControl ==
    ASSUME IInv, SoloInv, OneCaller, NEW c \in Caller,
           \/ UpdateWrite(c) \/ RotateWrite(c) \/ EnableWrite(c) \/ DisableWrite(c)
           \/ DeleteWrite(c)
    PROVE  SoloInv' /\ (ep'.disabled = "auto" => ep.disabled = "auto")
<1>0. /\ clock \in Nat /\ calls \in Nat /\ enabledAt \in Nat /\ enabledAt <= clock
      /\ ep.settings < calls /\ ep \in Endpoint
      /\ op[c].seen \in Endpoint
      /\ note \in [Worker -> Note]
  BY DEF IInv, CopiesInv, WellFormed, SoloInv, Stamps
<1>1. /\ op[c].pc = "write" /\ op'[c] = IdleOp
      /\ UNCHANGED <<clock, note>> /\ calls' = calls + 1
      /\ ep'.settings = IF ep'.live THEN calls ELSE 0
  BY ControlCases
<1>2. /\ ep.live /\ op[c].seen.live /\ op[c].seen.secrets = ep.secrets
      /\ op[c].seen.disabled = "auto" => ep.disabled = "auto"
      /\ FreshStreak(op[c].seen)
  BY <1>1 DEF SoloInv, Copy
<1>3. enabledAt' \in {enabledAt, clock}
  BY ControlCases
<1>4. FreshStreak(ep)'
  BY <1>2, ControlCases DEF FreshStreak
<1>5. Stamps'
  <2>1. \A w \in Worker : note[w].pc = "commit" => note[w].seen.settings \in Nat
                                                /\ note[w].seen.live /\ note[w].seen.settings < calls
    BY <1>0 DEF SoloInv, Stamps, Note, Endpoint
  <2> QED
    BY <1>0, <1>1, <1>3, <2>1 DEF Stamps
<1>6. \A d \in Caller : Copy(d)'
  BY <1>1 DEF OneCaller, Copy, IdleOp
<1>7. ASSUME NEW w \in Worker PROVE PlanOK(w)'
  <2>1. note[w].pc = "commit" => note[w].seen.settings \in Nat /\ note[w].seen.settings < calls
    BY <1>0 DEF SoloInv, Stamps, Note, Endpoint
  <2> QED
    BY <1>0, <1>1, <2>1 DEF SoloInv, PlanOK, FreshStreak
<1>8. GraceKept'
  <2> SUFFICES ASSUME ep'.live, NEW pledge \in promised', pledge[2] > clock
               PROVE  \E s \in ep'.secrets :
                        s.id = pledge[1] /\ s.expires # NoTime /\ s.expires >= pledge[2]
    BY <1>1 DEF GraceKept
  <2>1. CASE pledge \in promised
    <3>1. PICK s \in ep.secrets : s.id = pledge[1] /\ s.expires # NoTime /\ s.expires >= pledge[2]
      BY <1>2, <2>1 DEF SoloInv, GraceKept
    <3>2. s \in Secret /\ pledge[2] \in Nat
      BY <1>0, <2>1 DEF Endpoint, IInv, CopiesInv
    <3>3. s.expires > clock
      BY <1>0, <3>1, <3>2 DEF Secret, TimeOrNone, NoTime
    <3>4. s \in Rotated(op[c].seen).secrets
      BY <1>0, <1>2, <3>1, <3>3, RotatedKeeps
    <3> QED
      BY <1>2, <3>1, <3>4, ControlCases
  <2>2. CASE pledge \notin promised
    <3>a. promised' # promised
      BY <2>2
    <3>1. /\ ep'.secrets = Rotated(op[c].seen).secrets
          /\ promised' = promised \cup {<<s.id, clock + Grace>> : s \in Current(op[c].seen)}
      BY <3>a, ControlCases
    <3>2. PICK s \in Current(op[c].seen) : pledge = <<s.id, clock + Grace>>
      BY <2>2, <3>1
    <3>3. PICK t \in Rotated(op[c].seen).secrets : t.id = s.id /\ t.expires = clock + Grace
      BY <1>0, RotatedKeeps
    <3>4. clock + Grace \in Nat /\ clock + Grace # NoTime
      BY <1>0, PolicyAssumption DEF NoTime
    <3> QED
      BY <3>1, <3>2, <3>3, <3>4
  <2> QED
    BY <2>1, <2>2
<1>9. ep'.disabled = "auto" => ep.disabled = "auto"
  BY <1>2, ControlCases
<1> QED
  BY <1>4, <1>5, <1>6, <1>7, <1>8, <1>9 DEF SoloInv

\* A worker's commit, with compareAndSwap.
LEMMA SoloCommit ==
    ASSUME IInv, SoloInv, HasCompareAndSwap, NEW w \in Worker, NoteCommit(w)
    PROVE  /\ SoloInv'
           /\ ep'.disabled = "auto" /\ ep.disabled # "auto" => clock - enabledAt > FailingFor
<1>0. /\ clock \in Nat /\ calls \in Nat /\ enabledAt \in Nat /\ FailingFor \in Nat
      /\ note \in [Worker -> Note] /\ note[w].planned \in Endpoint
      /\ note[w].pc = "commit" /\ note'[w].pc # "commit"
      /\ \A v \in Worker : v # w => note'[v] = note[v]
      /\ UNCHANGED <<clock, op, calls, promised, enabledAt>>
  <2>1. note'[w] = IdleNote \/ note'[w].pc = "read"
    BY CommitCases
  <2>2. note'[w].pc # "commit"
    BY <2>1 DEF IdleNote
  <2>3. /\ clock \in Nat /\ calls \in Nat /\ enabledAt \in Nat /\ FailingFor \in Nat
        /\ note \in [Worker -> Note] /\ note[w].planned \in Endpoint
    BY PolicyAssumption DEF IInv, CopiesInv, WellFormed
  <2> QED
    BY <2>2, <2>3, CommitCases
<1>1. CASE ~Wins(w)
  <2>1. ep' = ep
    BY <1>1, CommitCases
  <2> QED
    BY <1>0, <2>1 DEF SoloInv, FreshStreak, Stamps, Copy, PlanOK, GraceKept
<1>2. CASE Wins(w)
  <2>1. ep = note[w].seen /\ ep' = note[w].planned
    BY <1>2, CommitCases DEF Wins, Write
  <2>2. /\ ep'.live = ep.live /\ ep'.secrets = ep.secrets /\ ep'.settings = ep.settings
        /\ ep.disabled # "no" => ep'.disabled = ep.disabled
    BY <1>0, <2>1 DEF IInv, PlansInv, Respects, Controlled
  <2>3. ep.live /\ FreshStreak(ep')
    BY <1>0, <2>1 DEF SoloInv, Stamps, PlanOK
  <2>4. FreshStreak(ep)'
    BY <1>0, <2>3 DEF FreshStreak
  <2>5. Stamps'
    BY <1>0, <2>2 DEF SoloInv, Stamps
  <2>6. \A c \in Caller : Copy(c)'
    BY <1>0, <2>2 DEF SoloInv, Copy, FreshStreak
  <2>7. \A v \in Worker : PlanOK(v)'
    BY <1>0, <2>2 DEF SoloInv, PlanOK, FreshStreak
  <2>8. GraceKept'
    BY <1>0, <2>2 DEF SoloInv, GraceKept
  <2>9. ASSUME ep'.disabled = "auto", ep.disabled # "auto" PROVE clock - enabledAt > FailingFor
    <3>1. ep'.failingSince # NoTime /\ clock - ep'.failingSince > FailingFor
      BY <1>0, <2>1, <2>9 DEF SoloInv, PlanOK
    <3>2. ep'.failingSince \in Nat /\ ep'.failingSince >= enabledAt
      BY <1>0, <2>1, <2>3, <3>1 DEF FreshStreak, Endpoint, TimeOrNone
    <3> QED
      BY <1>0, <3>1, <3>2
  <2> QED
    BY <2>4, <2>5, <2>6, <2>7, <2>8, <2>9 DEF SoloInv
<1> QED
  BY <1>1, <1>2

LEMMA SoloRead ==
    ASSUME IInv, SoloInv, NEW w \in Worker, NoteRead(w)
    PROVE  SoloInv'
<1>0. /\ clock \in Nat /\ enabledAt \in Nat /\ enabledAt <= clock /\ FailingFor \in Nat
      /\ ep \in Endpoint /\ note \in [Worker -> Note] /\ note[w].ok \in BOOLEAN
      /\ \A v \in Worker : v # w => note'[v] = note[v]
      /\ UNCHANGED <<clock, ep, op, calls, promised, enabledAt>>
  BY ReadCases, PolicyAssumption DEF IInv, CopiesInv, WellFormed, Note, SoloInv, Stamps
<1>1. FreshStreak(ep)' /\ GraceKept' /\ \A c \in Caller : Copy(c)'
  BY <1>0 DEF SoloInv, FreshStreak, GraceKept, Copy
<1>2. CASE note'[w].pc # "commit"
  BY <1>0, <1>1, <1>2 DEF SoloInv, Stamps, PlanOK, FreshStreak
<1>3. CASE note'[w].pc = "commit"
  <2>1. ep.live /\ note'[w].seen = ep /\ note'[w].planned = Plan(ep, note[w].ok)
    BY <1>3, ReadCases DEF IdleNote
  <2>2. /\ Plan(ep, note[w].ok).failingSince = IF note[w].ok THEN NoTime ELSE StreakStart(ep)
        /\ Plan(ep, note[w].ok).disabled
                = IF ~note[w].ok /\ ShouldDisable(ep) THEN "auto" ELSE ep.disabled
    BY <1>0, PlanFields
  <2>3. /\ StreakStart(ep) \in Nat /\ StreakStart(ep) # NoTime /\ StreakStart(ep) >= enabledAt
        /\ ShouldDisable(ep) => clock - StreakStart(ep) > FailingFor
    BY <1>0 DEF StreakStart, ShouldDisable, SoloInv, FreshStreak, Endpoint, TimeOrNone, NoTime
  <2>4. PlanOK(w)'
    BY <1>0, <2>1, <2>2, <2>3 DEF PlanOK, FreshStreak
  <2>5. Stamps'
    BY <1>0, <2>1 DEF SoloInv, Stamps
  <2>6. \A v \in Worker : v # w => PlanOK(v)'
    BY <1>0 DEF SoloInv, PlanOK, FreshStreak
  <2> QED
    BY <1>1, <2>4, <2>5, <2>6 DEF SoloInv
<1> QED
  BY <1>2, <1>3

LEMMA SoloNext ==
    ASSUME IInv, SoloInv, HasCompareAndSwap, OneCaller, [Next]_vars
    PROVE  /\ SoloInv'
           /\ ep'.disabled = "auto" /\ ep.disabled # "auto" => clock - enabledAt > FailingFor
<1>0. /\ clock \in Nat /\ enabledAt \in Nat /\ FailingFor \in Nat /\ ep \in Endpoint
      /\ promised \subseteq Nat \X Nat /\ note \in [Worker -> Note]
  BY PolicyAssumption DEF IInv, CopiesInv, WellFormed
<1>1. CASE Tick
  <2>1. clock' = clock + 1 /\ UNCHANGED <<ep, note, op, calls, promised, enabledAt>>
    BY <1>1 DEF Tick, pledges
  <2>2. GraceKept'
    <3>1. \A pledge \in promised : pledge[2] \in Nat /\ (pledge[2] > clock + 1 => pledge[2] > clock)
      BY <1>0
    <3> QED
      BY <2>1, <3>1 DEF SoloInv, GraceKept
  <2>3. Stamps'
    BY <1>0, <2>1 DEF SoloInv, Stamps
  <2>4. \A w \in Worker : PlanOK(w)'
    <3> TAKE w \in Worker
    <3>1. note[w].planned.failingSince \in Nat \cup {NoTime}
      BY <1>0 DEF Note, Endpoint, TimeOrNone
    <3> QED
      BY <1>0, <2>1, <3>1 DEF SoloInv, PlanOK, FreshStreak, NoTime
  <2> QED
    BY <2>1, <2>2, <2>3, <2>4 DEF SoloInv, FreshStreak, Copy
<1>2. ASSUME NEW w \in Worker, NEW ok \in BOOLEAN, NoteBegin(w, ok) PROVE SoloInv' /\ ep' = ep
  <2>1. /\ note'[w].pc = "read" /\ \A v \in Worker : v # w => note'[v] = note[v]
        /\ UNCHANGED <<clock, ep, op, calls, promised, enabledAt>>
    BY <1>2, BeginCases
  <2> QED
    BY <2>1 DEF SoloInv, FreshStreak, Stamps, Copy, PlanOK, GraceKept
<1>3. ASSUME NEW w \in Worker, NoteRead(w) PROVE SoloInv' /\ ep' = ep
  BY <1>3, SoloRead, ReadCases
<1>4. ASSUME NEW c \in Caller, NEW kind \in ControlOp, ControlRead(c, kind) PROVE SoloInv' /\ ep' = ep
  <2>1. /\ UNCHANGED <<clock, ep, note, calls, promised, enabledAt>> /\ ep.live
        /\ op'[c].seen = ep /\ \A d \in Caller : d # c => op'[d] = op[d]
    BY <1>4 DEF ControlRead, pledges, IInv, CopiesInv
  <2> QED
    BY <2>1 DEF SoloInv, FreshStreak, Stamps, Copy, PlanOK, GraceKept
<1>5. ASSUME NEW c \in Caller, ControlDenied(c) PROVE SoloInv' /\ ep' = ep
  <2>1. /\ UNCHANGED <<clock, ep, note, calls, promised, enabledAt>>
        /\ op'[c] = IdleOp /\ \A d \in Caller : d # c => op'[d] = op[d]
    BY <1>5 DEF ControlDenied, pledges, IInv, CopiesInv
  <2> QED
    BY <2>1 DEF SoloInv, FreshStreak, Stamps, Copy, PlanOK, GraceKept, IdleOp
<1>6. CASE UNCHANGED vars
  BY <1>6 DEF vars, pledges, SoloInv, FreshStreak, Stamps, Copy, PlanOK, GraceKept
<1> QED
  BY <1>1, <1>2, <1>3, <1>4, <1>5, <1>6, SoloCommit, SoloControl DEF Next, Tick

LEMMA SoloHolds ==
    ASSUME HasCompareAndSwap, OneCaller
    PROVE  Spec => [](IInv /\ SoloInv)
<1>1. Init => IInv /\ SoloInv
  BY InitInv, SoloInit
<1>2. IInv /\ SoloInv /\ [Next]_vars => (IInv /\ SoloInv)'
  BY NextInv, SoloNext
<1> QED
  BY <1>1, <1>2, PTL DEF Spec

\* core.ts rotateSecret, docs/SIGNING.md: a rotated secret keeps signing until its
\* grace has elapsed, however often secrets are rotated meanwhile and whatever the
\* workers write. With compareAndSwap and control-plane calls that do not overlap.
THEOREM RotatedSecretsKeepTheirGrace ==
    ASSUME HasCompareAndSwap, OneCaller
    PROVE  Spec => []GraceKept
<1>1. SoloInv => GraceKept
  BY DEF SoloInv
<1> QED
  BY <1>1, SoloHolds, PTL

\* ADR 0007, core.ts noteEndpointOutcome: the policy disables an endpoint only
\* after it has failed for longer than FailingFor since an operator last enabled
\* it. With compareAndSwap and control-plane calls that do not overlap.
THEOREM EnablingRestartsTheStreak ==
    ASSUME HasCompareAndSwap, OneCaller
    PROVE  Spec => EnableRestartsStreak
<1>1. ASSUME IInv /\ SoloInv, [Next]_vars
      PROVE  [ep'.disabled = "auto" /\ ep.disabled # "auto" => clock - enabledAt > FailingFor]_vars
  BY <1>1, SoloNext
<1> QED
  BY <1>1, SoloHolds, PTL DEF Spec, EnableRestartsStreak
===============================================================================
