----------------------------- MODULE EndpointPolicy -----------------------------
(***************************************************************************)
(* One endpoint record and everybody who writes it: dispatchers noting the *)
(* outcome of attempts (noteEndpointOutcome: failure streak, auto-disable) *)
(* and control-plane calls (updateEndpoint, rotateSecret, enableEndpoint,  *)
(* disableEndpoint, deleteEndpoint), all in core.ts.                       *)
(*                                                                         *)
(* A control-plane call reads the record, awaits its before hook and       *)
(* writes back a whole record. Noting an outcome reads, plans and commits  *)
(* with compareAndSwap where the storage has it.                           *)
(***************************************************************************)
EXTENDS Integers, FiniteSets

CONSTANTS
    Worker,             \* workers of all dispatchers
    Caller,             \* control-plane calls in progress
    HasCompareAndSwap,  \* isCompareAndSwap(storage)
    MaxTries,           \* rounds noteEndpointOutcome makes
    FailingFor,         \* failingForDays: a streak longer than this disables
    Grace,              \* secretRotationGrace
    MaxTime,            \* bound on the clock
    MaxCalls            \* bound on control-plane writes

ASSUME CasAssumption == HasCompareAndSwap \in BOOLEAN
ASSUME PolicyAssumption == MaxTries \in Nat \ {0} /\ FailingFor \in Nat /\ Grace \in Nat
ASSUME BoundAssumption == MaxTime \in Nat /\ MaxCalls \in Nat
ASSUME NamesAssumption == "control" \notin Worker

VARIABLES
    clock,
    ep,                 \* the endpoint record
    note,               \* per worker: the outcome it is noting
    op,                 \* per caller: the call it is in
    calls,              \* control-plane writes so far: fresh secrets and settings
    promised,           \* rotated secrets and until when they must keep signing
    enabledAt,          \* when an operator last enabled the endpoint
    rivals              \* per worker: others' writes while it notes, up to MaxTries

vars == <<clock, ep, note, op, calls, promised, enabledAt, rivals>>
pledges == <<promised, enabledAt>>

------------------------------------------------------------------------------
(* Types *)

NoTime == -1
TimeOrNone == Nat \cup {NoTime}

Secret == [id: Nat, expires: TimeOrNone]

\* settings: the number of the control-plane write that left them as they are.
Endpoint == [live: BOOLEAN,
             disabled: {"no", "manual", "auto"},
             failingSince: TimeOrNone,
             secrets: SUBSET Secret,
             settings: Nat,
             updatedAt: Nat]

Note == [pc: {"idle", "read", "commit"}, ok: BOOLEAN, tries: Nat,
         seen: Endpoint, planned: Endpoint]

ControlOp == {"update", "rotate", "enable", "disable", "delete"}

Op == [pc: {"idle", "write"}, kind: ControlOp, seen: Endpoint]

InitialEndpoint == [live |-> TRUE, disabled |-> "no", failingSince |-> NoTime,
                    secrets |-> {[id |-> 1, expires |-> NoTime]},
                    settings |-> 0, updatedAt |-> 0]

NoEndpoint == [live |-> FALSE, disabled |-> "no", failingSince |-> NoTime,
               secrets |-> {}, settings |-> 0, updatedAt |-> 0]

IdleNote == [pc |-> "idle", ok |-> TRUE, tries |-> 0, seen |-> NoEndpoint,
             planned |-> NoEndpoint]
IdleOp == [pc |-> "idle", kind |-> "update", seen |-> NoEndpoint]

\* The secret that signs without an expiry: endpoint.secrets[0].
Current(e) == {s \in e.secrets : s.expires = NoTime}

\* The types; and a live endpoint always has exactly one current secret, whatever
\* is written over it (schema.ts Endpoint.secrets: "[0] is current").
EndpointTypeOK ==
    /\ clock \in Nat
    /\ ep \in Endpoint
    /\ ep.live => Cardinality(Current(ep)) = 1
    /\ note \in [Worker -> Note]
    /\ op \in [Caller -> Op]
    /\ calls \in Nat
    /\ promised \subseteq Nat \X Nat
    /\ enabledAt \in Nat
    /\ rivals \in [Worker -> Nat]

Init ==
    /\ clock = 0
    /\ ep = InitialEndpoint
    /\ note = [w \in Worker |-> IdleNote]
    /\ op = [c \in Caller |-> IdleOp]
    /\ calls = 1
    /\ promised = {}
    /\ enabledAt = 0
    /\ rivals = [w \in Worker |-> 0]

\* The record is replaced: those who are noting an outcome have a rival.
Write(next, writer) ==
    /\ ep' = next
    /\ rivals' = [w \in Worker |->
                    IF note[w].pc = "idle" \/ w = writer THEN 0
                    ELSE IF rivals[w] = MaxTries THEN MaxTries ELSE rivals[w] + 1]

------------------------------------------------------------------------------
(* noteEndpointOutcome *)

SetNote(w, n) == note' = [note EXCEPT ![w] = n]

\* An attempt is over and its outcome is to be noted.
NoteBegin(w, ok) ==
    /\ note[w].pc = "idle"
    /\ SetNote(w, [IdleNote EXCEPT !.pc = "read", !.ok = ok])
    /\ UNCHANGED <<clock, ep, op, rivals, calls, pledges>>

\* The streak starts at the first failure after a success.
StreakStart(e) == IF e.failingSince = NoTime THEN clock ELSE e.failingSince

\* Mutant: an operator's disable is taken over by the policy.
ShouldDisableAnyway(e) == clock - StreakStart(e) > FailingFor

ShouldDisable(e) == e.disabled = "no" /\ clock - StreakStart(e) > FailingFor

Plan(e, ok) ==
    IF ok
    THEN [e EXCEPT !.failingSince = NoTime]
    ELSE [e EXCEPT !.failingSince = StreakStart(e),
                   !.disabled = IF ShouldDisable(e) THEN "auto" ELSE @,
                   !.updatedAt = IF ShouldDisable(e) THEN clock ELSE @]

\* Nothing to note: the endpoint is gone, or a success finds no streak.
NothingToNote(e, ok) == ~e.live \/ (ok /\ e.failingSince = NoTime)

NoteRead(w) ==
    /\ note[w].pc = "read"
    /\ IF NothingToNote(ep, note[w].ok)
       THEN SetNote(w, IdleNote) /\ rivals' = [rivals EXCEPT ![w] = 0]
       ELSE /\ SetNote(w, [note[w] EXCEPT !.pc = "commit", !.seen = ep,
                                          !.planned = Plan(ep, note[w].ok)])
            /\ UNCHANGED rivals
    /\ UNCHANGED <<clock, ep, op, calls, pledges>>

\* Mutant: the plan is written over whatever the record has become.
WinsAlways(w) == TRUE

Wins(w) == HasCompareAndSwap => ep = note[w].seen

\* Mutant: one round fewer than MaxTries.
LastTryEarly(w) == note[w].tries + 2 >= MaxTries

LastTry(w) == note[w].tries + 1 = MaxTries

NoteCommit(w) ==
    /\ note[w].pc = "commit"
    /\ IF Wins(w)
       THEN /\ Write(note[w].planned, w)
            /\ SetNote(w, IdleNote)
       ELSE /\ IF LastTry(w)
               THEN /\ SetNote(w, IdleNote)
                    /\ rivals' = [rivals EXCEPT ![w] = 0]
               ELSE /\ SetNote(w, [IdleNote EXCEPT !.pc = "read", !.ok = note[w].ok,
                                                   !.tries = note[w].tries + 1])
                    /\ UNCHANGED rivals
            /\ UNCHANGED ep
    /\ UNCHANGED <<clock, op, calls, pledges>>

------------------------------------------------------------------------------
(* Control-plane calls *)

\* requireEndpoint, then the before hook is awaited.
ControlRead(c, kind) ==
    /\ op[c].pc = "idle"
    /\ ep.live
    /\ calls <= MaxCalls
    /\ op' = [op EXCEPT ![c] = [pc |-> "write", kind |-> kind, seen |-> ep]]
    /\ UNCHANGED <<clock, ep, note, rivals, calls, pledges>>

\* The before hook denies the call, or the process dies.
ControlDenied(c) ==
    /\ op[c].pc = "write"
    /\ op' = [op EXCEPT ![c] = IdleOp]
    /\ UNCHANGED <<clock, ep, note, rivals, calls, pledges>>

\* Everything spread over the record read, and updatedAt set: a control-plane
\* write differs from every record written before it, be it by a millisecond.
ControlWrite(c, kind, next) ==
    /\ op[c].pc = "write"
    /\ op[c].kind = kind
    /\ op' = [op EXCEPT ![c] = IdleOp]
    /\ calls' = calls + 1
    /\ Write([next EXCEPT !.settings = IF next.live THEN calls ELSE 0,
                          !.updatedAt = IF next.live THEN clock ELSE 0], "control")
    /\ UNCHANGED <<clock, note>>

UpdateWrite(c) ==
    /\ ControlWrite(c, "update", op[c].seen)
    /\ UNCHANGED pledges

\* Mutant: a rotation keeps only the secret it replaces.
RotatedForgetsGrace(e) ==
    [e EXCEPT !.secrets =
        {[id |-> calls + 1, expires |-> NoTime]} \cup
        {[s EXCEPT !.expires = clock + Grace] : s \in Current(e)}]

\* Mutant: the replaced secret gets no expiry.
RotatedUnexpired(e) ==
    [e EXCEPT !.secrets = @ \cup {[id |-> calls + 1, expires |-> NoTime]}]

\* A new secret; the current one expires after the grace; of the others those
\* that have not expired are kept.
Rotated(e) ==
    [e EXCEPT !.secrets =
        {[id |-> calls + 1, expires |-> NoTime]} \cup
        {[s EXCEPT !.expires = clock + Grace] : s \in Current(e)} \cup
        {s \in e.secrets : s.expires > clock}]

RotateWrite(c) ==
    /\ ControlWrite(c, "rotate", Rotated(op[c].seen))
    /\ promised' = promised \cup {<<s.id, clock + Grace>> : s \in Current(op[c].seen)}
    /\ UNCHANGED enabledAt

\* Mutant: enabling leaves the streak as it was.
EnabledInStreak(e) == [e EXCEPT !.disabled = "no"]

Enabled(e) == [e EXCEPT !.disabled = "no", !.failingSince = NoTime]

EnableWrite(c) ==
    /\ ControlWrite(c, "enable", Enabled(op[c].seen))
    /\ enabledAt' = clock
    /\ UNCHANGED promised

DisableWrite(c) ==
    /\ ControlWrite(c, "disable", [op[c].seen EXCEPT !.disabled = "manual"])
    /\ UNCHANGED pledges

DeleteWrite(c) ==
    /\ ControlWrite(c, "delete", NoEndpoint)
    /\ UNCHANGED pledges

Tick ==
    /\ clock < MaxTime
    /\ clock' = clock + 1
    /\ UNCHANGED <<ep, note, op, rivals, calls, pledges>>

Next ==
    \/ Tick
    \/ \E w \in Worker, ok \in BOOLEAN : NoteBegin(w, ok)
    \/ \E w \in Worker : NoteRead(w) \/ NoteCommit(w)
    \/ \E c \in Caller, kind \in ControlOp : ControlRead(c, kind)
    \/ \E c \in Caller :
        \/ ControlDenied(c)
        \/ UpdateWrite(c)
        \/ RotateWrite(c)
        \/ EnableWrite(c)
        \/ DisableWrite(c)
        \/ DeleteWrite(c)

Spec == Init /\ [][Next]_vars

------------------------------------------------------------------------------
(* Properties *)

\* What a control-plane call decides of an endpoint.
Controlled(e) == <<e.live, e.secrets, e.settings, e.disabled = "manual">>

\* core.ts noteEndpointOutcome: an accounting is committed "without clobbering a
\* concurrent control-plane write". A worker's step changes neither secrets nor
\* settings, never brings a deleted endpoint back, never enables one and never
\* takes an operator's disable over.
ControlChangesSurvive ==
    [][(\E w \in Worker : note'[w] # note[w]) =>
        /\ Controlled(ep') = Controlled(ep)
        /\ ep.disabled # "no" => ep'.disabled = ep.disabled]_vars

\* core.ts noteEndpointOutcome: a lost round is tried again from the latest
\* record. An outcome is dropped only when the record was written MaxTries times
\* while the worker was noting it (or already says what the worker would).
GivesUpOnlyUnderContention ==
    [][\A w \in Worker :
        note[w].pc = "commit" /\ note'[w].pc = "idle" /\ ep' = ep
            => rivals[w] >= MaxTries \/ note[w].planned = ep]_vars

\* ADR 0007: the policy waits for a streak of more than FailingFor, and enabling
\* an endpoint starts a new one: no accounting planned before it disables the
\* endpoint again at once.
EnableRestartsStreak ==
    [][ep'.disabled = "auto" /\ ep.disabled # "auto" => clock - enabledAt > FailingFor]_vars

\* docs/SIGNING.md: a rotated secret keeps signing until its grace has elapsed,
\* however often secrets are rotated meanwhile and whatever else is written.
GraceKept ==
    ep.live => \A pledge \in promised :
        pledge[2] > clock =>
            \E s \in ep.secrets : s.id = pledge[1] /\ s.expires # NoTime /\ s.expires >= pledge[2]

==============================================================================
