------------------------------- MODULE Registry -------------------------------
(***************************************************************************)
(* The control plane of src/core.ts: applications, event types and the     *)
(* endpoint records of an application, the list each kind is kept in, the  *)
(* audit logs, hooks that veto, the retention of the audit logs, and the   *)
(* deliveries that publish and the dispatcher write beside a deletion,     *)
(* with what the dispatcher notes in the endpoint after an attempt.        *)
(*                                                                         *)
(* A list or a log is one storage value: it is read in one step and        *)
(* written back as a whole in another. Messages and idempotency keys are   *)
(* not modelled: a delivery stands for all that publish writes.            *)
(***************************************************************************)
EXTENDS Naturals, FiniteSets

CONSTANTS
    App, EventType, Endpoint, Delivery,
    AppOf,              \* the application of each endpoint and delivery
    EndpointOf,         \* the endpoint each delivery is for
    Caller,             \* concurrent control-plane calls
    Worker,             \* dispatcher workers
    Writable,           \* ~readonly
    HasCompareAndSwap,  \* isCompareAndSwap(storage)
    MaxCalls            \* bound on control-plane calls

ASSUME OwnerAssumption ==
    /\ AppOf \in [Endpoint \cup Delivery -> App]
    /\ EndpointOf \in [Delivery -> Endpoint]
ASSUME NamesAssumption == {"apps", "types", "global"} \cap App = {}
ASSUME CallBoundAssumption == Writable \in BOOLEAN /\ MaxCalls \in Nat
ASSUME StorageAssumption == HasCompareAndSwap \in BOOLEAN

VARIABLES
    records,            \* the record keys that exist
    list,               \* the lists of ids: applications, event types, endpoints
    log,                \* the audit logs: the changes they name
    delivery,           \* per delivery: none or its status
    call,               \* per caller: where its call is, what it read
    job,                \* per worker: what it does and with which delivery
    prune,              \* the audit pass: the log it has read
    calls,              \* calls so far
    committed,          \* every change that was written
    gone,               \* applications whose deletion was answered
    restored            \* applications whose log was written while it was erased

vars == <<records, list, log, delivery, call, job, prune, calls, committed, gone, restored>>
callVars == <<records, list, log, call, calls, committed, gone, restored>>

------------------------------------------------------------------------------
(* Keys and operations *)

\* A record key: what kind of record, under which id.
AppKey(a) == <<"app", a>>
TypeKey(t) == <<"event-type", t>>
EndpointKey(e) == <<"endpoint", e>>

Subject == App \cup EventType \cup Endpoint
RecordKey == {AppKey(a) : a \in App} \cup {TypeKey(t) : t \in EventType}
                \cup {EndpointKey(e) : e \in Endpoint}

\* "apps" and "types" are the two global lists; an application has one of
\* endpoints, and a log of its own beside the global one.
ListKey == {"apps", "types"} \cup App
LogKey == {"global"} \cup App

\* One row per operation: its record, its list and its log.
Operation ==
    [kind : {"create", "update", "delete"}, key : RecordKey]

Lister(op) ==
    CASE op.key[1] = "app" -> "apps"
      [] op.key[1] = "event-type" -> "types"
      [] OTHER -> AppOf[op.key[2]]

\* appendAudit's scope: event types and the end of an application are global.
Logger(op) ==
    CASE op.key[1] = "event-type" -> "global"
      [] op.key[1] = "app" -> IF op.kind = "delete" THEN "global" ELSE op.key[2]
      [] OTHER -> AppOf[op.key[2]]

\* The application a call is about, if it is about one.
AppsOf(op) ==
    CASE op.key[1] = "app" -> {op.key[2]}
      [] op.key[1] = "endpoint" -> {AppOf[op.key[2]]}
      [] OTHER -> {}

\* Mutant: the endpoint records are not under the prefix.
KeysUnderFlat(a) ==
    {k \in records : k = AppKey(a)} \cup {<<"list", a>>, <<"log", a>>}

\* What deleteApplication finds under the application's prefix. The list and the
\* log are keys whatever they hold.
KeysUnder(a) ==
    {k \in records : k = AppKey(a) \/ (k[1] = "endpoint" /\ AppOf[k[2]] = a)}
        \cup {<<"list", a>>, <<"log", a>>}
        \cup {<<"delivery", d>> : d \in {x \in Delivery : AppOf[x] = a /\ delivery[x] # "none"}}

NoOp == [kind |-> "update", key |-> CHOOSE k \in RecordKey : k[1] = "app"]
Idle == [pc |-> "idle", op |-> NoOp, todo |-> {}, list |-> {}, log |-> {}]

CallPc == {"idle", "before", "write", "erase", "index_read", "index_write",
           "audit_read", "audit_write", "after"}

Free == [pc |-> "idle", deliveries |-> {}, log |-> {}]
NoPass == [pc |-> "idle", key |-> "global", kept |-> {}]
JobPc == {"idle", "publish", "claimed", "holding", "sending", "failing", "noting",
          "note_write", "disable_write", "audit_read", "audit_write"}

\* What each variable can hold.
RegistryTypeOK ==
    /\ records \subseteq RecordKey
    /\ list \in [ListKey -> SUBSET Subject]
    /\ log \in [LogKey -> SUBSET Operation]
    /\ delivery \in [Delivery -> {"none", "pending", "delivering", "succeeded", "failed"}]
    /\ \A c \in Caller : call[c].pc \in CallPc /\ (call[c].pc # "idle" => call[c].op \in Operation)
    /\ job \in [Worker -> [pc : JobPc, deliveries : SUBSET Delivery, log : SUBSET Operation]]
    /\ prune \in [pc : {"idle", "write"}, key : LogKey, kept : SUBSET Operation]
    /\ calls \in 0 .. MaxCalls
    /\ committed \subseteq Operation /\ gone \subseteq App /\ restored \subseteq App

Init ==
    /\ records = {}
    /\ list = [k \in ListKey |-> {}]
    /\ log = [k \in LogKey |-> {}]
    /\ delivery = [d \in Delivery |-> "none"]
    /\ call = [c \in Caller |-> Idle]
    /\ job = [w \in Worker |-> Free]
    /\ prune = NoPass
    /\ calls = 0
    /\ committed = {}
    /\ gone = {}
    /\ restored = {}

------------------------------------------------------------------------------
(* Control-plane calls *)

DataOnly == UNCHANGED <<delivery, job, prune, restored>>

Active(c) == call[c].pc # "idle"

\* The calls of a deployment: two at the same time write different lists and
\* concern different applications.
Apart(op) ==
    \A c \in Caller : Active(c) =>
        /\ Lister(call[c].op) # Lister(op)
        /\ AppsOf(call[c].op) \cap AppsOf(op) = {}

\* The checks before the hook: the application or the record has to exist, or not to
\* exist yet; upsertEventType creates what does not, and updates what does.
Acceptable(op) ==
    /\ Writable
    /\ IF op.key[1] = "endpoint" /\ op.kind = "create"
       THEN /\ AppKey(AppOf[op.key[2]]) \in records
            /\ op \notin committed    \* a new id
       ELSE op.kind = "create" <=> op.key \notin records

\* A call that is not acceptable, or whose input is not valid, is answered with
\* an error and changes nothing.
Begin(c, op) ==
    /\ ~Active(c)
    /\ calls < MaxCalls
    /\ Apart(op)
    /\ Acceptable(op)
    /\ call' = [call EXCEPT ![c] = [Idle EXCEPT !.pc = "before", !.op = op]]
    /\ calls' = calls + 1
    /\ UNCHANGED <<records, list, log, committed, gone>>
    /\ DataOnly

Goto(c, pc) == call' = [call EXCEPT ![c].pc = pc]

\* Mutant: the change is logged before the hook was asked.
BeforeHookLogs(c) ==
    /\ call[c].pc = "before"
    /\ log' = [log EXCEPT ![Logger(call[c].op)] = @ \cup {call[c].op}]
    /\ \/ Goto(c, "write")
       \/ call' = [call EXCEPT ![c] = Idle]
    /\ UNCHANGED <<records, list, calls, committed, gone>>
    /\ DataOnly

\* The first before hook that throws denies the call. deleteApplication lists
\* the keys under its prefix next.
BeforeHook(c) ==
    LET op == call[c].op IN
    /\ call[c].pc = "before"
    /\ \/ call' = [call EXCEPT ![c] = Idle]
       \/ IF op.key[1] = "app" /\ op.kind = "delete"
          THEN call' = [call EXCEPT ![c].pc = "erase", ![c].todo = KeysUnder(op.key[2])]
          ELSE Goto(c, "write")
    /\ UNCHANGED <<records, list, log, calls, committed, gone>>
    /\ DataOnly

\* The record is written or removed. Only updates leave the lists alone.
Write(c) ==
    LET op == call[c].op IN
    /\ call[c].pc = "write"
    /\ records' = IF op.kind = "delete" THEN records \ {op.key} ELSE records \cup {op.key}
    /\ committed' = committed \cup {op}
    /\ Goto(c, IF op.kind = "update" /\ op.key[1] # "event-type"
               THEN "audit_read" ELSE "index_read")
    /\ UNCHANGED <<list, log, calls, gone>>
    /\ DataOnly

\* deleteApplication removes one of the keys it listed; a key written since is
\* not among them.
Erase(c) ==
    /\ call[c].pc = "erase"
    /\ \E k \in call[c].todo :
        /\ records' = records \ {k}
        /\ list' = IF k[1] = "list" THEN [list EXCEPT ![k[2]] = {}] ELSE list
        /\ log' = IF k[1] = "log" THEN [log EXCEPT ![k[2]] = {}] ELSE log
        /\ restored' = IF k[1] = "log" THEN restored \ {k[2]} ELSE restored
        /\ delivery' = IF k[1] = "delivery" THEN [delivery EXCEPT ![k[2]] = "none"] ELSE delivery
        /\ call' = [call EXCEPT ![c].todo = @ \ {k},
                                ![c].pc = IF call[c].todo = {k} THEN "index_read" ELSE "erase"]
    /\ committed' = committed \cup {call[c].op}
    /\ UNCHANGED <<calls, gone, job, prune>>

\* indexAdd and indexRemove: the list is read, and written if it changes.
IndexRead(c) ==
    /\ call[c].pc = "index_read"
    /\ call' = [call EXCEPT ![c].pc = "index_write", ![c].list = list[Lister(call[c].op)]]
    /\ UNCHANGED <<records, list, log, calls, committed, gone>>
    /\ DataOnly

\* Mutant: a deletion leaves the list as it is.
ListedForever(op, ids) == ids \cup {op.key[2]}

Listed(op, ids) == IF op.kind = "delete" THEN ids \ {op.key[2]} ELSE ids \cup {op.key[2]}

IndexWrite(c) ==
    LET op == call[c].op IN
    /\ call[c].pc = "index_write"
    /\ list' = [list EXCEPT ![Lister(op)] = Listed(op, call[c].list)]
    /\ Goto(c, "audit_read")
    /\ UNCHANGED <<records, log, calls, committed, gone>>
    /\ DataOnly

\* appendAudit.
AuditRead(c) ==
    /\ call[c].pc = "audit_read"
    /\ call' = [call EXCEPT ![c].pc = "audit_write", ![c].log = log[Logger(call[c].op)]]
    /\ UNCHANGED <<records, list, log, calls, committed, gone>>
    /\ DataOnly

AuditWrite(c) ==
    LET op == call[c].op IN
    /\ call[c].pc = "audit_write"
    /\ log' = [log EXCEPT ![Logger(op)] = call[c].log \cup {op}]
    /\ Goto(c, "after")
    /\ UNCHANGED <<records, list, calls, committed, gone>>
    /\ DataOnly

\* The after hooks cannot fail the call: it is answered.
AfterHook(c) ==
    LET op == call[c].op IN
    /\ call[c].pc = "after"
    /\ call' = [call EXCEPT ![c] = Idle]
    /\ gone' = CASE op.key[1] = "app" /\ op.kind = "delete" -> gone \cup {op.key[2]}
                 [] op.key[1] = "app" /\ op.kind = "create" -> gone \ {op.key[2]}
                 [] OTHER -> gone
    /\ UNCHANGED <<records, list, log, calls, committed>>
    /\ DataOnly

------------------------------------------------------------------------------
(* Retention of the audit logs: pruneAuditLog *)

\* The history of logs that are written by someone who does not know, or has read
\* before, that they were erased.
Restored(k, entries) ==
    IF k \in App /\ log[k] = {} /\ entries # {} THEN restored \cup {k} ELSE restored

\* A log is read, and what keepLast and maxAge leave of it is computed.
PruneRead ==
    /\ prune.pc = "idle"
    /\ \E k \in {"global"} \cup {a \in App : a \in list["apps"]} : \E kept \in SUBSET log[k] :
        /\ kept # log[k]
        /\ prune' = [pc |-> "write", key |-> k, kept |-> kept]
    /\ UNCHANGED <<callVars, delivery, job>>

\* The rest is written over whatever the log is by now.
PruneWrite ==
    /\ prune.pc = "write"
    /\ log' = [log EXCEPT ![prune.key] = prune.kept]
    /\ restored' = Restored(prune.key, prune.kept)
    /\ prune' = NoPass
    /\ UNCHANGED <<records, list, delivery, call, job, calls, committed, gone>>

------------------------------------------------------------------------------
(* The deliveries of an application: publish and the dispatcher *)

\* publish has read the application and its endpoints: the delivery is written
\* whatever happened to them since (the read is a worker's of the host).
PublishReads(w, d) ==
    /\ job[w].pc = "idle" /\ delivery[d] = "none"
    /\ AppKey(AppOf[d]) \in records
    /\ EndpointOf[d] \in list[AppOf[d]] /\ EndpointKey(EndpointOf[d]) \in records
    /\ \A v \in Worker : d \notin job[v].deliveries
    /\ job' = [job EXCEPT ![w] = [Free EXCEPT !.pc = "publish", !.deliveries = {d}]]
    /\ UNCHANGED <<callVars, delivery, prune>>

\* Worker w is at pc with delivery d.
At(w, d, pc) == job[w].pc = pc /\ job[w].deliveries = {d}

PublishWrites(w, d) ==
    /\ At(w, d, "publish")
    /\ delivery' = [delivery EXCEPT ![d] = "pending"]
    /\ job' = [job EXCEPT ![w] = Free]
    /\ UNCHANGED <<callVars, prune>>

\* Mutant: only deliveries of listed applications are found.
ClaimableListed(d) == delivery[d] = "pending" /\ AppOf[d] \in list["apps"]

\* A native queue finds a delivery by its due entry, whatever became of the rest.
Claimable(d) == delivery[d] = "pending"

Claim(w, d) ==
    /\ job[w].pc = "idle" /\ Claimable(d)
    /\ delivery' = [delivery EXCEPT ![d] = "delivering"]
    /\ job' = [job EXCEPT ![w] = [Free EXCEPT !.pc = "claimed", !.deliveries = {d}]]
    /\ UNCHANGED <<callVars, prune>>

\* The message and the endpoint are read: one of them is gone and the delivery
\* fails for good, the endpoint is disabled and it is held, or it is sent.
ReadsEndpoint(w, d) ==
    /\ At(w, d, "claimed")
    /\ \E pc \in {"failing"} \cup
                (IF EndpointKey(EndpointOf[d]) \in records THEN {"holding", "sending"} ELSE {}) :
        job' = [job EXCEPT ![w].pc = pc]
    /\ UNCHANGED <<callVars, delivery, prune>>

\* What recordAttempt, or the release of a held delivery, leaves of it: a failed
\* attempt is scheduled anew or, at the end of the schedule, was the last.
Outcomes ==
    [failing |-> {"failed"}, holding |-> {"pending"}, sending |-> {"succeeded", "failed", "pending"}]

\* The record that was claimed is written, also if it was deleted since.
Records(w, d) ==
    \E pc \in DOMAIN Outcomes :
        /\ At(w, d, pc)
        /\ \E status \in Outcomes[pc] : delivery' = [delivery EXCEPT ![d] = status]
        /\ job' = [job EXCEPT ![w] = IF pc = "sending" THEN [@ EXCEPT !.pc = "noting"] ELSE Free]
        /\ UNCHANGED <<callVars, prune>>

\* noteEndpointOutcome reads the endpoint anew: it is gone or there is nothing to
\* note, or the outcome is, and may be the one that disables the endpoint.
NoteReads(w, d) ==
    /\ At(w, d, "noting")
    /\ \/ job' = [job EXCEPT ![w] = Free]
       \/ /\ EndpointKey(EndpointOf[d]) \in records
          /\ \E pc \in {"note_write", "disable_write"} : job' = [job EXCEPT ![w].pc = pc]
    /\ UNCHANGED <<callVars, delivery, prune>>

Disabling(e) == [kind |-> "update", key |-> EndpointKey(e)]

\* Compare-and-swap fails on a record that was written or removed since, and is
\* tried again or given up; a storage without it writes the record in any case.
NoteWrites(w, d) ==
    LET key == EndpointKey(EndpointOf[d]) IN
    \E pc \in {"note_write", "disable_write"} :
        /\ At(w, d, pc)
        /\ \/ /\ HasCompareAndSwap
              /\ \/ job' = [job EXCEPT ![w].pc = "noting"]
                 \/ job' = [job EXCEPT ![w] = Free]
              /\ UNCHANGED <<records, committed>>
           \/ /\ HasCompareAndSwap => key \in records
              /\ records' = records \cup {key}
              /\ IF pc = "disable_write"
                 THEN /\ committed' = committed \cup {Disabling(EndpointOf[d])}
                      /\ job' = [job EXCEPT ![w].pc = "audit_read"]
                 ELSE /\ committed' = committed
                      /\ job' = [job EXCEPT ![w] = Free]
        /\ UNCHANGED <<list, log, delivery, call, prune, calls, gone, restored>>

\* The automatic disabling is logged by appendAudit, which asks for no application.
NoteAudit(w, d) ==
    LET key == AppOf[EndpointOf[d]]
        entries == job[w].log \cup {Disabling(EndpointOf[d])}
    IN
    /\ \/ /\ At(w, d, "audit_read")
          /\ job' = [job EXCEPT ![w].pc = "audit_write", ![w].log = log[key]]
          /\ UNCHANGED <<log, restored>>
       \/ /\ At(w, d, "audit_write")
          /\ log' = [log EXCEPT ![key] = entries]
          /\ restored' = Restored(key, entries)
          /\ job' = [job EXCEPT ![w] = Free]
    /\ UNCHANGED <<records, list, delivery, call, prune, calls, committed, gone>>

------------------------------------------------------------------------------
(* Specification *)

Proceed(c) ==
    \/ BeforeHook(c) \/ Write(c) \/ Erase(c) \/ IndexRead(c) \/ IndexWrite(c)
    \/ AuditRead(c) \/ AuditWrite(c) \/ AfterHook(c)

Work(w, d) ==
    \/ PublishWrites(w, d) \/ Claim(w, d) \/ ReadsEndpoint(w, d) \/ Records(w, d)
    \/ NoteReads(w, d) \/ NoteWrites(w, d) \/ NoteAudit(w, d)

Next ==
    \/ \E c \in Caller : Proceed(c) \/ \E op \in Operation : Begin(c, op)
    \/ \E w \in Worker, d \in Delivery : Work(w, d) \/ PublishReads(w, d)
    \/ PruneRead \/ PruneWrite

\* The dispatcher polls, and a call that was made is carried through.
Fairness ==
    /\ \A c \in Caller : WF_vars(Proceed(c))
    /\ \A w \in Worker : WF_vars(\E d \in Delivery : Work(w, d))

Spec == Init /\ [][Next]_vars /\ Fairness

------------------------------------------------------------------------------
(* Properties *)

IdsOf(kind) == {k[2] : k \in {r \in records : r[1] = kind}}

\* The lists and the records agree as soon as no call is under way that writes
\* them: what exists is listed and nothing else is, after any sequence of calls
\* that succeed or are denied, as long as no two of them write one list or
\* concern one application at the same time.
ListsAgree ==
    /\ (\A c \in Caller : Active(c) => Lister(call[c].op) # "apps") =>
            list["apps"] = IdsOf("app")
    /\ (\A c \in Caller : Active(c) => Lister(call[c].op) # "types") =>
            list["types"] = IdsOf("event-type")
    /\ \A a \in App : (\A c \in Caller : Active(c) => a \notin AppsOf(call[c].op)) =>
            list[a] = {e \in IdsOf("endpoint") : AppOf[e] = a}

\* The audit logs never name a change that was not made: not one a hook denied,
\* nor one still to be made, whatever order calls and audit passes write a log in.
AuditIsTrue == \A k \in LogKey : log[k] \subseteq committed

\* A deletion is whole: once it was answered, and as long as no call on the
\* application runs, no record and no list of the application's endpoints is
\* there, and no audit log, unless one was written again after its erasure by an
\* audit pass or a worker's automatic disabling that had begun before.
NothingLeftToCall ==
    \A a \in gone : (\A c \in Caller : Active(c) => a \notin AppsOf(call[c].op)) =>
        /\ \A k \in records : a \notin AppsOf([kind |-> "update", key |-> k])
        /\ list[a] = {}
        /\ log[a] # {} => a \in restored

\* A delivery that outlives its application, written by a publish, an attempt or a
\* release that ran meanwhile and put it back into the queue, does not stay there:
\* it becomes terminal, in queues that find deliveries without the application.
LeftoversSettle ==
    \A d \in Delivery :
        AppOf[d] \in gone /\ delivery[d] \in {"pending", "delivering"}
            ~> delivery[d] \notin {"pending", "delivering"}
==============================================================================
