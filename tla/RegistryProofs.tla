---------------------------- MODULE RegistryProofs ----------------------------
(***************************************************************************)
(* Theorems about the control plane of Registry, for any applications,     *)
(* event types, endpoints, callers and workers: the audit logs are true,   *)
(* and, on a storage with compareAndSwap, the lists and the records agree  *)
(* and a deletion is whole.                                                *)
(***************************************************************************)
EXTENDS Registry, TLAPS

------------------------------------------------------------------------------
(* The keys of a record *)

\* The list a record is kept in, and the application it belongs to, as Lister and AppsOf say.
ListOf(k) ==
    CASE k[1] = "app" -> "apps"
      [] k[1] = "event-type" -> "types"
      [] OTHER -> AppOf[k[2]]

Owned(k, a) == k = AppKey(a) \/ (k[1] = "endpoint" /\ AppOf[k[2]] = a)

\* Whatever deleteApplication may find under the prefix of an application.
Erasable(a) ==
    {AppKey(a), <<"list", a>>, <<"log", a>>} \cup {EndpointKey(e) : e \in {x \in Endpoint : AppOf[x] = a}}
        \cup {<<"delivery", d>> : d \in {x \in Delivery : AppOf[x] = a}}

ErasableKey == UNION {Erasable(a) : a \in App}

\* The id of the record is in its list.
InList(k) == k[2] \in list[ListOf(k)]

------------------------------------------------------------------------------
(* The inductive invariant *)

CallRecord == [pc : CallPc, op : Operation \cup {NoOp}, todo : SUBSET ErasableKey,
               list : SUBSET Subject, log : SUBSET Operation]
JobRecord == [pc : JobPc, deliveries : SUBSET Delivery, log : SUBSET Operation]
PassRecord == [pc : {"idle", "write"}, key : LogKey, kept : SUBSET Operation]

\* What the variables can hold.
Shape ==
    /\ records \subseteq RecordKey
    /\ list \in [ListKey -> SUBSET Subject]
    /\ log \in [LogKey -> SUBSET Operation]
    /\ prune \in PassRecord
    /\ job \in [Worker -> JobRecord]
    /\ gone \subseteq App
    /\ call \in [Caller -> CallRecord]
    /\ \A c \in Caller : Active(c) => call[c].op \in Operation

\* A list names only what it is the list of.
Sorted == \A l \in ListKey : \A x \in list[l] : \E k \in RecordKey : ListOf(k) = l /\ k[2] = x

\* Calls under way are of different lists and different applications.
CallsApart ==
    \A c1, c2 \in Caller : Active(c1) /\ Active(c2) /\ c1 # c2 =>
        /\ Lister(call[c1].op) # Lister(call[c2].op)
        /\ AppsOf(call[c1].op) \cap AppsOf(call[c2].op) = {}

\* A log, read or written back, names only changes that were made.
LogsAreTrue ==
    /\ \A k \in LogKey : log[k] \subseteq committed
    /\ prune.pc = "write" => prune.kept \subseteq committed
    /\ \A c \in Caller :
        /\ call[c].pc \in {"index_read", "index_write", "audit_read", "audit_write", "after"} =>
                call[c].op \in committed
        /\ call[c].pc = "audit_write" => call[c].log \subseteq committed
    /\ \A w \in Worker :
        /\ job[w].log \subseteq committed
        /\ job[w].pc \in {"audit_read", "audit_write"} =>
                \A d \in job[w].deliveries : Disabling(EndpointOf[d]) \in committed

\* What the checks before the hook saw still holds when the record is written.
ChecksStillHold ==
    \A c \in Caller : LET op == call[c].op IN
        call[c].pc \in {"before", "write"} =>
            /\ op.kind = "update" /\ op.key[1] # "event-type" => op.key \in records
            /\ op.kind = "create" /\ op.key[1] = "app" => op.key \notin records
            /\ call[c].pc = "write" => ~(op.kind = "delete" /\ op.key[1] = "app")

\* The deletion of an application has listed what is still to be erased, and then leaves nothing.
ErasureListed(c) ==
    LET op == call[c].op IN
    /\ op.kind = "delete" /\ op.key[1] = "app" /\ call[c].todo \subseteq Erasable(op.key[2])
    /\ \A k \in records : Owned(k, op.key[2]) => k \in call[c].todo
    /\ list[op.key[2]] # {} => <<"list", op.key[2]>> \in call[c].todo
    /\ log[op.key[2]] # {} => <<"log", op.key[2]>> \in call[c].todo \/ op.key[2] \in restored

Erased(c) ==
    /\ call[c].op.kind = "delete" /\ call[c].op.key[1] = "app"
    /\ call[c].pc \in {"index_read", "index_write", "audit_read", "audit_write", "after"}

ErasureIsWhole ==
    \A c \in Caller :
        /\ call[c].pc = "erase" => ErasureListed(c)
        /\ Erased(c) =>
            /\ \A k \in records : ~Owned(k, call[c].op.key[2])
            /\ list[call[c].op.key[2]] = {}
            /\ log[call[c].op.key[2]] # {} => call[c].op.key[2] \in restored

\* A list is read once its record is written, and stays as it was read until it is written.
IndexIsCurrent ==
    \A c \in Caller : LET op == call[c].op IN
        /\ call[c].pc \in {"index_read", "index_write"} => (op.key \in records <=> op.kind # "delete")
        /\ call[c].pc = "index_write" => call[c].list = list[Lister(op)]

\* The call is between its change of the record and its change of the list.
Disturbs(c, k) ==
    \/ call[c].pc \in {"erase", "index_read", "index_write"} /\ k = call[c].op.key
    \/ call[c].pc = "erase" /\ Owned(k, call[c].op.key[2])

\* Any other record is listed exactly when it exists.
RestAgrees ==
    \A k \in RecordKey : (\A c \in Caller : ~Disturbs(c, k)) => (InList(k) <=> k \in records)

\* A deleted application has no records, list, log and calls, but those of its creation anew.
GoneIsGone ==
    \A a \in gone :
        /\ \A c \in Caller : Active(c) /\ a \in AppsOf(call[c].op) =>
                call[c].op.kind = "create" /\ call[c].op.key = AppKey(a)
        /\ \A k \in records : Owned(k, a) =>
                k = AppKey(a) /\ \E c \in Caller : Active(c) /\ call[c].op.key = AppKey(a)
        /\ list[a] = {}
        /\ log[a] # {} => a \in restored \/ \E c \in Caller : call[c].pc = "after" /\ call[c].op.key = AppKey(a)

IInv ==
    /\ Shape
    /\ LogsAreTrue
    /\ Sorted
    /\ CallsApart
    /\ ChecksStillHold
    /\ ErasureIsWhole
    /\ IndexIsCurrent
    /\ RestAgrees
    /\ GoneIsGone

------------------------------------------------------------------------------
(* The initial states *)

\* The initial states: an empty control plane.
LEMMA InitIInv == Init => IInv
<1> SUFFICES ASSUME Init PROVE IInv
  OBVIOUS
<1>1. Idle.pc = "idle" /\ Idle.op = NoOp /\ Idle.todo = {} /\ Idle.list = {} /\ Idle.log = {}
  BY DEF Idle
<1>2. Idle \in CallRecord
  BY DEF Idle, CallPc, CallRecord
<1>3. \A c \in Caller : call[c] = Idle /\ ~Active(c)
  BY <1>1 DEF Init, Active
<1>4. Shape /\ Sorted
  <2>1. Free \in JobRecord /\ NoPass \in PassRecord
    BY DEF Free, NoPass, JobRecord, PassRecord, JobPc, LogKey
  <2> QED
    BY <1>2, <1>3, <2>1 DEF Init, Shape, Sorted
<1>5. LogsAreTrue
  BY <1>1, <1>3 DEF Init, LogsAreTrue, Free, NoPass
<1>6. CallsApart /\ ChecksStillHold /\ ErasureIsWhole /\ IndexIsCurrent
  BY <1>1, <1>3 DEF CallsApart, ChecksStillHold, ErasureIsWhole, Erased, IndexIsCurrent
<1>7. \A k \in RecordKey : ListOf(k) \in ListKey
  BY OwnerAssumption DEF RecordKey, AppKey, TypeKey, EndpointKey, ListOf, ListKey
<1>8. RestAgrees /\ GoneIsGone
  BY <1>7 DEF Init, RestAgrees, GoneIsGone, InList
<1> QED
  BY <1>4, <1>5, <1>6, <1>8 DEF IInv

------------------------------------------------------------------------------
(* Keys *)

\* A record key is an application's, an event type's or an endpoint's.
LEMMA KeyForms ==
    ASSUME NEW k \in RecordKey
    PROVE  \/ k[1] = "app" /\ k[2] \in App /\ k = AppKey(k[2]) /\ ListOf(k) = "apps"
           \/ k[1] = "event-type" /\ k[2] \in EventType /\ k = TypeKey(k[2]) /\ ListOf(k) = "types"
           \/ k[1] = "endpoint" /\ k[2] \in Endpoint /\ k = EndpointKey(k[2]) /\ ListOf(k) = AppOf[k[2]]
                /\ AppOf[k[2]] \in App
BY OwnerAssumption DEF RecordKey, AppKey, TypeKey, EndpointKey, ListOf

\* A list keeps one kind of record, so that an id in it stands for one record.
LEMMA ListsOfOneKind ==
    ASSUME NEW k \in RecordKey, NEW l \in RecordKey
    PROVE  /\ ListOf(k) \in ListKey
           /\ ListOf(k) = ListOf(l) /\ k[2] = l[2] => k = l
           /\ k[2] \in Subject
<1>1. ListOf(k) \in ListKey /\ k[2] \in Subject
  BY KeyForms DEF ListKey, Subject
<1>2. ListOf(k) = ListOf(l) => k[1] = l[1]
  BY KeyForms, NamesAssumption
<1>3. k[1] = l[1] /\ k[2] = l[2] => k = l
  BY KeyForms DEF AppKey, TypeKey, EndpointKey
<1> QED
  BY <1>1, <1>2, <1>3

\* An operation is about its record's list, log and application.
LEMMA OperationScope ==
    ASSUME NEW op \in Operation
    PROVE  /\ op.key \in RecordKey /\ op.kind \in {"create", "update", "delete"}
           /\ Lister(op) = ListOf(op.key) /\ Lister(op) \in ListKey
           /\ Logger(op) \in LogKey
           /\ \A a \in App : a \in AppsOf(op) <=> Owned(op.key, a)
           /\ AppsOf(op) \subseteq App
           /\ \A a \in App : Logger(op) = a => a \in AppsOf(op)
           /\ \A a \in App : Lister(op) = a => a \in AppsOf(op) /\ op.key[1] = "endpoint"
<1>1. op.key \in RecordKey /\ op.kind \in {"create", "update", "delete"}
  BY DEF Operation
<1>2. Lister(op) = ListOf(op.key) /\ Lister(op) \in ListKey
  BY <1>1, ListsOfOneKind DEF Lister, ListOf
<1>3. Logger(op) \in LogKey
  BY <1>1, KeyForms DEF Logger, LogKey
<1>4. AppsOf(op) \subseteq App /\ \A a \in App : a \in AppsOf(op) <=> Owned(op.key, a)
  <2>1. CASE op.key[1] = "app"
    BY <1>1, <2>1, KeyForms DEF AppsOf, Owned, AppKey
  <2>2. CASE op.key[1] = "event-type"
    BY <1>1, <2>2, KeyForms DEF AppsOf, Owned, AppKey
  <2>3. CASE op.key[1] = "endpoint"
    BY <1>1, <2>3, KeyForms DEF AppsOf, Owned, AppKey
  <2> QED
    BY <1>1, <2>1, <2>2, <2>3, KeyForms
<1>5. ASSUME NEW a \in App, Logger(op) = a PROVE a \in AppsOf(op)
  BY <1>1, <1>5, KeyForms, NamesAssumption DEF Logger, AppsOf
<1>6. ASSUME NEW a \in App, Lister(op) = a PROVE a \in AppsOf(op) /\ op.key[1] = "endpoint"
  BY <1>1, <1>6, KeyForms, NamesAssumption DEF Lister, AppsOf
<1> QED
  BY <1>1, <1>2, <1>3, <1>4, <1>5, <1>6

\* What deleteApplication lists is under the prefix, and nothing of it is missed.
LEMMA KeysUnderPrefix ==
    ASSUME Shape, NEW a \in App
    PROVE  /\ KeysUnder(a) \in SUBSET ErasableKey /\ KeysUnder(a) \subseteq Erasable(a)
           /\ \A k \in records : Owned(k, a) => k \in KeysUnder(a)
           /\ <<"list", a>> \in KeysUnder(a) /\ <<"log", a>> \in KeysUnder(a)
<1>1. \A k \in records : Owned(k, a) => k \in Erasable(a)
  <2> SUFFICES ASSUME NEW k \in records, Owned(k, a) PROVE k \in Erasable(a)
    OBVIOUS
  <2>1. k \in RecordKey
    BY DEF Shape
  <2> QED
    BY <2>1, KeyForms DEF Owned, Erasable
<1>2. KeysUnder(a) \subseteq Erasable(a)
  BY <1>1 DEF KeysUnder, Erasable, Owned
<1>3. \A k \in records : Owned(k, a) => k \in KeysUnder(a)
  BY DEF KeysUnder, Owned
<1>4. <<"list", a>> \in KeysUnder(a) /\ <<"log", a>> \in KeysUnder(a)
  BY DEF KeysUnder
<1>5. Erasable(a) \subseteq ErasableKey
  BY DEF ErasableKey
<1> QED
  BY <1>2, <1>3, <1>4, <1>5

------------------------------------------------------------------------------
(* The logs, on any storage *)

LEMMA GotoEffect ==
    ASSUME call \in [Caller -> CallRecord], NEW c \in Caller, NEW pc \in CallPc, Goto(c, pc)
    PROVE  /\ call' \in [Caller -> CallRecord] /\ \A b \in Caller \ {c} : call'[b] = call[b]
           /\ call'[c].pc = pc /\ call'[c].op = call[c].op /\ call'[c].todo = call[c].todo
           /\ call'[c].list = call[c].list /\ call'[c].log = call[c].log
BY DEF Goto, CallRecord

\* A record, a list and a log of a call's operation.
LEMMA CallShape ==
    ASSUME Shape, NEW c \in Caller, Active(c)
    PROVE  /\ call[c].op \in Operation /\ call[c] \in CallRecord
           /\ Lister(call[c].op) \in ListKey /\ Logger(call[c].op) \in LogKey
           /\ list[Lister(call[c].op)] \subseteq Subject /\ log[Logger(call[c].op)] \subseteq Operation
           /\ call[c].op.key \in RecordKey /\ call[c].op.key[2] \in Subject
<1>1. call[c].op \in Operation /\ call[c] \in CallRecord
  BY DEF Shape
<1>2. Lister(call[c].op) \in ListKey /\ Logger(call[c].op) \in LogKey /\ call[c].op.key \in RecordKey
  BY <1>1, OperationScope
<1> QED
  BY <1>1, <1>2, ListsOfOneKind DEF Shape

\* A key that deleteApplication may erase.
LEMMA ErasableForms ==
    ASSUME NEW k \in ErasableKey
    PROVE  /\ k[1] = "list" => k[2] \in ListKey
           /\ k[1] = "log" => k[2] \in LogKey
BY DEF ErasableKey, Erasable, AppKey, EndpointKey, ListKey, LogKey

\* The steps of a call keep the logs true.
LEMMA CallKeepsLogs ==
    ASSUME Shape, LogsAreTrue, NEW c \in Caller, Proceed(c)
    PROVE  Shape' /\ LogsAreTrue'
<1> DEFINE op == call[c].op
<1>1. Active(c)
  BY DEF Proceed, BeforeHook, Write, Erase, IndexRead, IndexWrite, AuditRead, AuditWrite, AfterHook, Active
<1>2. /\ op \in Operation /\ call[c] \in CallRecord /\ call \in [Caller -> CallRecord]
      /\ Lister(op) \in ListKey /\ Logger(op) \in LogKey
      /\ list[Lister(op)] \subseteq Subject /\ log[Logger(op)] \subseteq Operation
      /\ op.key \in RecordKey /\ op.key[2] \in Subject
  BY <1>1, CallShape DEF Shape
<1>3. UNCHANGED <<job, prune>>
  BY DEF Proceed, BeforeHook, Write, Erase, IndexRead, IndexWrite, AuditRead, AuditWrite, AfterHook, DataOnly
<1>4. Idle \in CallRecord /\ Idle.pc = "idle"
  BY DEF Idle, CallRecord, CallPc
\* What is to be shown of a step: the call's own record, and the rest.
<1>5. ASSUME call' \in [Caller -> CallRecord], \A b \in Caller \ {c} : call'[b] = call[b],
             Active(c)' => call'[c].op = op, records' \subseteq RecordKey, list' \in [ListKey -> SUBSET Subject],
             log' \in [LogKey -> SUBSET Operation], \A l \in LogKey : log'[l] \subseteq committed',
             committed \subseteq committed', gone' \subseteq App,
             call'[c].pc \in {"index_read", "index_write", "audit_read", "audit_write", "after"} => op \in committed',
             call'[c].pc = "audit_write" => call'[c].log \subseteq committed'
      PROVE  Shape' /\ LogsAreTrue'
  <2>1. Shape'
    BY <1>2, <1>3, <1>5 DEF Shape, Active
  <2>2. \A b \in Caller :
          /\ call'[b].pc \in {"index_read", "index_write", "audit_read", "audit_write", "after"} =>
                call'[b].op \in committed'
          /\ call'[b].pc = "audit_write" => call'[b].log \subseteq committed'
    BY <1>5 DEF LogsAreTrue, Active
  <2>3. /\ prune'.pc = "write" => prune'.kept \subseteq committed'
        /\ \A w \in Worker :
            /\ job'[w].log \subseteq committed'
            /\ job'[w].pc \in {"audit_read", "audit_write"} =>
                    \A d \in job'[w].deliveries : Disabling(EndpointOf[d]) \in committed'
    BY <1>3, <1>5 DEF LogsAreTrue
  <2> QED
    BY <1>5, <2>1, <2>2, <2>3 DEF LogsAreTrue, Disabling, EndpointKey
<1>6. CASE BeforeHook(c)
  <2>1. UNCHANGED <<records, list, log, committed, gone>>
    BY <1>6 DEF BeforeHook
  <2>2. CASE call' = [call EXCEPT ![c] = Idle]
    BY <1>2, <1>4, <1>5, <2>1, <2>2 DEF Shape, LogsAreTrue, Active
  <2>3. CASE /\ op.key[1] = "app" /\ op.kind = "delete"
             /\ call' = [call EXCEPT ![c].pc = "erase", ![c].todo = KeysUnder(op.key[2])]
    <3>1. op.key[2] \in App
      BY <1>2, <2>3, KeyForms
    <3>2. KeysUnder(op.key[2]) \in SUBSET ErasableKey
      BY <3>1, KeysUnderPrefix
    <3>3. /\ call' \in [Caller -> CallRecord] /\ \A b \in Caller \ {c} : call'[b] = call[b]
          /\ call'[c].pc = "erase" /\ call'[c].op = op
      BY <1>2, <2>3, <3>2 DEF CallRecord, CallPc
    <3> QED
      BY <1>5, <2>1, <3>3 DEF Shape, LogsAreTrue
  <2>4. CASE Goto(c, "write")
    <3>1. /\ call' \in [Caller -> CallRecord] /\ \A b \in Caller \ {c} : call'[b] = call[b]
          /\ call'[c].pc = "write" /\ call'[c].op = op
      BY <1>2, <2>4, GotoEffect DEF CallPc
    <3> QED
      BY <1>5, <2>1, <3>1 DEF Shape, LogsAreTrue
  <2> QED
    BY <1>6, <2>2, <2>3, <2>4 DEF BeforeHook
<1>7. CASE Write(c)
  <2>1. PICK pc \in {"audit_read", "index_read"} : Goto(c, pc)
    BY <1>7 DEF Write
  <2>2. /\ call' \in [Caller -> CallRecord] /\ \A b \in Caller \ {c} : call'[b] = call[b]
        /\ call'[c].pc = pc /\ call'[c].op = op
    BY <1>2, <2>1, GotoEffect DEF CallPc
  <2>3. /\ records' \subseteq RecordKey /\ committed' = committed \cup {op}
        /\ UNCHANGED <<list, log, gone>>
    BY <1>2, <1>7 DEF Write, Shape
  <2> QED
    BY <1>5, <2>2, <2>3 DEF Shape, LogsAreTrue
<1>8. CASE Erase(c)
  <2>1. PICK k \in call[c].todo :
          /\ records' = records \ {k}
          /\ list' = IF k[1] = "list" THEN [list EXCEPT ![k[2]] = {}] ELSE list
          /\ log' = IF k[1] = "log" THEN [log EXCEPT ![k[2]] = {}] ELSE log
          /\ call' = [call EXCEPT ![c].todo = @ \ {k},
                                  ![c].pc = IF call[c].todo = {k} THEN "index_read" ELSE "erase"]
    BY <1>8 DEF Erase
  <2>2. k \in ErasableKey
    BY <1>2 DEF CallRecord
  <2>3. list' \in [ListKey -> SUBSET Subject]
    BY <2>1, <2>2, ErasableForms DEF Shape
  <2>4. log' \in [LogKey -> SUBSET Operation] /\ \A l \in LogKey : log'[l] \subseteq log[l]
    BY <2>1, <2>2, ErasableForms DEF Shape
  <2>5. /\ call' \in [Caller -> CallRecord] /\ \A b \in Caller \ {c} : call'[b] = call[b]
        /\ call'[c].pc \in {"index_read", "erase"} /\ call'[c].op = op
    BY <1>2, <2>1 DEF CallRecord, CallPc
  <2>6. records' \subseteq RecordKey /\ committed' = committed \cup {op} /\ gone' = gone
    BY <1>8, <2>1 DEF Erase, Shape
  <2> QED
    BY <1>5, <2>3, <2>4, <2>5, <2>6 DEF Shape, LogsAreTrue
<1>9. CASE IndexRead(c)
  <2>1. /\ call' \in [Caller -> CallRecord] /\ \A b \in Caller \ {c} : call'[b] = call[b]
        /\ call'[c].pc = "index_write" /\ call'[c].op = op
    BY <1>2, <1>9 DEF IndexRead, CallRecord, CallPc
  <2>2. UNCHANGED <<records, list, log, committed, gone>> /\ call[c].pc = "index_read"
    BY <1>9 DEF IndexRead
  <2> QED
    BY <1>5, <2>1, <2>2 DEF Shape, LogsAreTrue
<1>10. CASE IndexWrite(c)
  <2>1. /\ call' \in [Caller -> CallRecord] /\ \A b \in Caller \ {c} : call'[b] = call[b]
        /\ call'[c].pc = "audit_read" /\ call'[c].op = op
    BY <1>2, <1>10, GotoEffect DEF IndexWrite, CallPc
  <2>2. UNCHANGED <<records, log, committed, gone>> /\ call[c].pc = "index_write"
    BY <1>10 DEF IndexWrite
  <2>3. list' \in [ListKey -> SUBSET Subject]
    <3>1. Listed(op, call[c].list) \in SUBSET Subject
      BY <1>2 DEF Listed, CallRecord
    <3> QED
      BY <1>2, <1>10, <3>1 DEF IndexWrite, Shape
  <2> QED
    BY <1>5, <2>1, <2>2, <2>3 DEF Shape, LogsAreTrue
<1>11. CASE AuditRead(c)
  <2>1. /\ call' \in [Caller -> CallRecord] /\ \A b \in Caller \ {c} : call'[b] = call[b]
        /\ call'[c].pc = "audit_write" /\ call'[c].op = op /\ call'[c].log = log[Logger(op)]
    BY <1>2, <1>11 DEF AuditRead, CallRecord, CallPc
  <2>2. UNCHANGED <<records, list, log, committed, gone>> /\ call[c].pc = "audit_read"
    BY <1>11 DEF AuditRead
  <2> QED
    BY <1>2, <1>5, <2>1, <2>2 DEF Shape, LogsAreTrue
<1>12. CASE AuditWrite(c)
  <2>1. /\ call' \in [Caller -> CallRecord] /\ \A b \in Caller \ {c} : call'[b] = call[b]
        /\ call'[c].pc = "after" /\ call'[c].op = op
    BY <1>2, <1>12, GotoEffect DEF AuditWrite, CallPc
  <2>2. UNCHANGED <<records, list, committed, gone>> /\ call[c].pc = "audit_write"
    BY <1>12 DEF AuditWrite
  <2>3. call[c].log \cup {op} \subseteq Operation /\ call[c].log \cup {op} \subseteq committed
    BY <1>2, <2>2 DEF CallRecord, LogsAreTrue
  <2>4. log' \in [LogKey -> SUBSET Operation] /\ \A l \in LogKey : log'[l] \subseteq committed
    BY <1>2, <1>12, <2>3 DEF AuditWrite, Shape, LogsAreTrue
  <2> QED
    BY <1>5, <2>1, <2>2, <2>3, <2>4 DEF Shape, LogsAreTrue
<1>13. CASE AfterHook(c)
  <2>1. call' \in [Caller -> CallRecord] /\ call'[c] = Idle /\ \A b \in Caller \ {c} : call'[b] = call[b]
    BY <1>2, <1>4, <1>13 DEF AfterHook
  <2>2. UNCHANGED <<records, list, log, committed>>
    BY <1>13 DEF AfterHook
  <2>3. gone' \subseteq App
    BY <1>2, <1>13, KeyForms DEF AfterHook, Shape
  <2> QED
    BY <1>4, <1>5, <2>1, <2>2, <2>3 DEF Shape, LogsAreTrue, Active
<1> QED
  BY <1>6, <1>7, <1>8, <1>9, <1>10, <1>11, <1>12, <1>13 DEF Proceed

\* A step of a worker or of the audit pass, in what the invariant says of it: a log changes only
\* by entries that were made, and what it holds where none was is on record.
OthersStep ==
    /\ UNCHANGED <<list, call, gone>>
    /\ committed \subseteq committed' /\ restored \subseteq restored'
    /\ HasCompareAndSwap => records' = records
    /\ \A a \in App : log'[a] # {} => log[a] # {} \/ a \in restored'

\* A log is written by someone who may not know that it was erased.
LEMMA LogRestored ==
    ASSUME Shape, LogsAreTrue, NEW l \in LogKey, NEW entries \in SUBSET Operation, entries \subseteq committed,
           log' = [log EXCEPT ![l] = entries], restored' = Restored(l, entries), committed' = committed
    PROVE  /\ log' \in [LogKey -> SUBSET Operation] /\ \A k \in LogKey : log'[k] \subseteq committed'
           /\ restored \subseteq restored'
           /\ \A a \in App : log'[a] # {} => log[a] # {} \/ a \in restored'
<1>1. log' \in [LogKey -> SUBSET Operation] /\ \A k \in LogKey : log'[k] \subseteq committed'
  BY DEF Shape, LogsAreTrue
<1>2. restored \subseteq restored'
  BY DEF Restored
<1>3. ASSUME NEW a \in App, log'[a] # {}, log[a] = {} PROVE a \in restored'
  <2>1. a = l /\ entries # {}
    BY <1>3 DEF Shape, LogKey
  <2> QED
    BY <1>3, <2>1 DEF Restored
<1> QED
  BY <1>1, <1>2, <1>3

\* A worker's step: it writes its delivery, the record of the endpoint and an entry in a log.
LEMMA WorkerKeepsLogs ==
    ASSUME Shape, LogsAreTrue, NEW w \in Worker, NEW d \in Delivery, Work(w, d) \/ PublishReads(w, d)
    PROVE  Shape' /\ LogsAreTrue' /\ OthersStep
<1> DEFINE e == EndpointOf[d]
<1>1. e \in Endpoint /\ AppOf[e] \in App
  BY OwnerAssumption
<1>2. EndpointKey(e) \in RecordKey /\ Disabling(e) \in Operation
  BY <1>1 DEF RecordKey, Disabling, Operation
<1>3. UNCHANGED <<list, call, gone, prune>>
  BY DEF Work, PublishReads, PublishWrites, Claim, ReadsEndpoint, Records, NoteReads, NoteWrites, NoteAudit, callVars
<1>4. Free \in JobRecord /\ Free.log = {} /\ Free.pc = "idle"
  BY DEF Free, JobRecord, JobPc
<1>5. job \in [Worker -> JobRecord] /\ job[w] \in JobRecord
  BY DEF Shape
\* What is to be shown of a step: the job, and the rest.
<1>6. ASSUME NEW j \in JobRecord, job' = [job EXCEPT ![w] = j], j.log \subseteq committed',
             j.pc \in {"audit_read", "audit_write"} => \A x \in j.deliveries : Disabling(EndpointOf[x]) \in committed',
             records' \subseteq RecordKey, log' \in [LogKey -> SUBSET Operation],
             \A l \in LogKey : log'[l] \subseteq committed', committed \subseteq committed'
      PROVE  Shape' /\ LogsAreTrue'
  <2>1. job' \in [Worker -> JobRecord] /\ job'[w] = j /\ \A v \in Worker \ {w} : job'[v] = job[v]
    BY <1>5, <1>6
  <2>2. Shape'
    BY <1>3, <1>6, <2>1 DEF Shape, Active
  <2>3. \A v \in Worker :
            /\ job'[v].log \subseteq committed'
            /\ job'[v].pc \in {"audit_read", "audit_write"} =>
                    \A x \in job'[v].deliveries : Disabling(EndpointOf[x]) \in committed'
    BY <1>6, <2>1 DEF LogsAreTrue
  <2> QED
    BY <1>3, <1>6, <2>2, <2>3 DEF LogsAreTrue, Disabling, EndpointKey
<1>7. CASE PublishReads(w, d) \/ PublishWrites(w, d) \/ Claim(w, d) \/ ReadsEndpoint(w, d) \/ Records(w, d)
           \/ NoteReads(w, d)
  <2>1. UNCHANGED <<records, log, committed, restored>>
    BY <1>7 DEF PublishReads, PublishWrites, Claim, ReadsEndpoint, Records, NoteReads, callVars
  <2>2. PICK j \in JobRecord : /\ job' = [job EXCEPT ![w] = j] /\ j.log \in {{}, job[w].log}
                               /\ j.pc \notin {"audit_read", "audit_write"}
    <3>1. CASE PublishReads(w, d)
      <4>1. [Free EXCEPT !.pc = "publish", !.deliveries = {d}] \in JobRecord
        BY DEF Free, JobRecord, JobPc
      <4> QED
        BY <3>1, <4>1 DEF PublishReads, Free
    <3>2. CASE PublishWrites(w, d)
      BY <1>4, <3>2 DEF PublishWrites
    <3>3. CASE Claim(w, d)
      <4>1. [Free EXCEPT !.pc = "claimed", !.deliveries = {d}] \in JobRecord
        BY DEF Free, JobRecord, JobPc
      <4> QED
        BY <3>3, <4>1 DEF Claim, Free
    <3>4. ASSUME NEW pc \in {"failing", "holding", "sending", "noting", "note_write", "disable_write"},
                 job' = [job EXCEPT ![w].pc = pc]
          PROVE  /\ [job[w] EXCEPT !.pc = pc] \in JobRecord /\ job' = [job EXCEPT ![w] = [job[w] EXCEPT !.pc = pc]]
                 /\ [job[w] EXCEPT !.pc = pc].log = job[w].log /\ [job[w] EXCEPT !.pc = pc].pc = pc
      BY <1>5, <3>4 DEF JobRecord, JobPc
    <3>5. CASE ReadsEndpoint(w, d)
      <4>1. PICK pc \in {"failing", "holding", "sending"} : job' = [job EXCEPT ![w].pc = pc]
        BY <3>5 DEF ReadsEndpoint
      <4> QED
        BY <3>4, <4>1
    <3>6. CASE Records(w, d)
      <4>1. job' = [job EXCEPT ![w] = [job[w] EXCEPT !.pc = "noting"]] \/ job' = [job EXCEPT ![w] = Free]
        BY <3>6, <1>5 DEF Records
      <4>2. /\ [job[w] EXCEPT !.pc = "noting"] \in JobRecord
            /\ [job[w] EXCEPT !.pc = "noting"].log = job[w].log /\ [job[w] EXCEPT !.pc = "noting"].pc = "noting"
        BY <1>5 DEF JobRecord, JobPc
      <4> QED
        BY <1>4, <4>1, <4>2
    <3>7. CASE NoteReads(w, d)
      <4>1. CASE job' = [job EXCEPT ![w] = Free]
        BY <1>4, <4>1
      <4>2. CASE \E pc \in {"note_write", "disable_write"} : job' = [job EXCEPT ![w].pc = pc]
        BY <3>4, <4>2
      <4> QED
        BY <3>7, <4>1, <4>2 DEF NoteReads
    <3> QED
      BY <1>7, <3>1, <3>2, <3>3, <3>5, <3>6, <3>7
  <2>3. Shape' /\ LogsAreTrue'
    BY <1>6, <2>1, <2>2 DEF Shape, LogsAreTrue
  <2> QED
    BY <1>3, <2>1, <2>3 DEF OthersStep
<1>8. CASE NoteWrites(w, d)
  <2>1. /\ UNCHANGED <<log, restored>> /\ committed \subseteq committed'
        /\ records' \subseteq RecordKey /\ (HasCompareAndSwap => records' = records)
    BY <1>2, <1>8 DEF NoteWrites, Shape
  <2>2. PICK j \in JobRecord : /\ job' = [job EXCEPT ![w] = j] /\ j.log \in {{}, job[w].log}
                               /\ j.pc \in {"audit_read", "audit_write"} =>
                                    j.deliveries = {d} /\ Disabling(e) \in committed'
    <3>1. ASSUME NEW pc \in {"noting", "audit_read"}
          PROVE  /\ [job[w] EXCEPT !.pc = pc] \in JobRecord
                 /\ [job EXCEPT ![w].pc = pc] = [job EXCEPT ![w] = [job[w] EXCEPT !.pc = pc]]
                 /\ [job[w] EXCEPT !.pc = pc].log = job[w].log /\ [job[w] EXCEPT !.pc = pc].pc = pc
                 /\ [job[w] EXCEPT !.pc = pc].deliveries = job[w].deliveries
      BY <1>5 DEF JobRecord, JobPc
    <3>2. CASE job' = [job EXCEPT ![w] = Free]
      BY <1>4, <3>2
    <3>3. CASE job' = [job EXCEPT ![w].pc = "noting"]
      BY <3>1, <3>3
    <3>4. CASE job' = [job EXCEPT ![w].pc = "audit_read"] /\ Disabling(e) \in committed'
      <4>1. job[w].deliveries = {d}
        BY <1>8 DEF NoteWrites, At
      <4> QED
        BY <3>1, <3>4, <4>1
    <3> QED
      BY <1>8, <3>2, <3>3, <3>4 DEF NoteWrites
  <2>3. Shape' /\ LogsAreTrue'
    BY <1>6, <2>1, <2>2 DEF Shape, LogsAreTrue
  <2> QED
    BY <1>3, <2>1, <2>3 DEF OthersStep
<1>9. CASE NoteAudit(w, d)
  <2> DEFINE key == AppOf[e]
             entries == job[w].log \cup {Disabling(e)}
  <2>1. records' = records /\ committed' = committed /\ key \in LogKey
    BY <1>1, <1>9 DEF NoteAudit, LogKey
  <2>2. CASE /\ At(w, d, "audit_read") /\ UNCHANGED <<log, restored>>
             /\ job' = [job EXCEPT ![w].pc = "audit_write", ![w].log = log[key]]
    <3>1. PICK j : j = [job[w] EXCEPT !.pc = "audit_write", !.log = log[key]]
      OBVIOUS
    <3>2. log[key] \subseteq committed /\ log[key] \subseteq Operation
      BY <2>1 DEF Shape, LogsAreTrue
    <3>3. j \in JobRecord /\ j.log = log[key] /\ j.deliveries = job[w].deliveries
      BY <1>5, <3>1, <3>2 DEF JobRecord, JobPc
    <3>4. job' = [job EXCEPT ![w] = j]
      BY <1>5, <2>2, <3>1
    <3>5. \A x \in j.deliveries : Disabling(EndpointOf[x]) \in committed'
      BY <2>1, <2>2, <3>3 DEF LogsAreTrue, At
    <3> HIDE DEF key, entries
    <3>6. Shape' /\ LogsAreTrue'
      BY <1>6, <2>1, <2>2, <3>2, <3>3, <3>4, <3>5 DEF Shape, LogsAreTrue
    <3> QED
      BY <1>3, <2>1, <2>2, <3>6 DEF OthersStep
  <2>3. CASE /\ At(w, d, "audit_write") /\ log' = [log EXCEPT ![key] = entries]
             /\ restored' = Restored(key, entries) /\ job' = [job EXCEPT ![w] = Free]
    <3>1. entries \subseteq committed /\ entries \in SUBSET Operation
      BY <1>2, <1>5, <2>3 DEF LogsAreTrue, At, JobRecord
    <3> HIDE DEF key, entries
    <3>2. /\ log' \in [LogKey -> SUBSET Operation] /\ \A k \in LogKey : log'[k] \subseteq committed'
          /\ restored \subseteq restored'
          /\ \A a \in App : log'[a] # {} => log[a] # {} \/ a \in restored'
      BY <2>1, <2>3, <3>1, LogRestored
    <3>3. Shape' /\ LogsAreTrue'
      BY <1>4, <1>6, <2>1, <2>3, <3>2 DEF Shape
    <3> QED
      BY <1>3, <2>1, <3>2, <3>3 DEF OthersStep
  <2> QED
    BY <1>9, <2>2, <2>3 DEF NoteAudit
<1> QED
  BY <1>7, <1>8, <1>9 DEF Work

LEMMA PassKeepsLogs ==
    ASSUME Shape, LogsAreTrue, PruneRead \/ PruneWrite
    PROVE  Shape' /\ LogsAreTrue' /\ OthersStep
<1>1. CASE PruneRead
  <2>1. PICK k \in {"global"} \cup {a \in App : a \in list["apps"]} :
            \E kept \in SUBSET log[k] : prune' = [pc |-> "write", key |-> k, kept |-> kept]
    BY <1>1 DEF PruneRead
  <2>2. PICK kept \in SUBSET log[k] : prune' = [pc |-> "write", key |-> k, kept |-> kept]
    BY <2>1
  <2>3. k \in LogKey /\ kept \subseteq Operation /\ kept \subseteq committed
    BY <2>2 DEF Shape, LogsAreTrue, LogKey
  <2>4. prune' \in PassRecord /\ prune'.kept \subseteq committed
    BY <2>2, <2>3 DEF PassRecord
  <2>5. UNCHANGED <<records, list, log, call, job, committed, gone, restored>>
    BY <1>1 DEF PruneRead, callVars
  <2> QED
    BY <2>4, <2>5 DEF Shape, LogsAreTrue, OthersStep, Active
<1>2. CASE PruneWrite
  <2>1. UNCHANGED <<records, list, call, job, committed, gone>> /\ prune' = NoPass
    BY <1>2 DEF PruneWrite
  <2>2. prune.kept \subseteq committed /\ prune.kept \in SUBSET Operation /\ prune.key \in LogKey
    BY <1>2 DEF PruneWrite, LogsAreTrue, Shape, PassRecord
  <2>3. NoPass \in PassRecord /\ NoPass.pc = "idle"
    BY DEF NoPass, PassRecord, LogKey
  <2>4. /\ log' \in [LogKey -> SUBSET Operation] /\ \A k \in LogKey : log'[k] \subseteq committed'
        /\ restored \subseteq restored'
        /\ \A a \in App : log'[a] # {} => log[a] # {} \/ a \in restored'
    BY <1>2, <2>1, <2>2, LogRestored DEF PruneWrite
  <2> QED
    BY <2>1, <2>3, <2>4 DEF Shape, LogsAreTrue, OthersStep, Active
<1> QED
  BY <1>1, <1>2

\* A call that begins, and a step in which nothing happens.
LEMMA BeginKeepsLogs ==
    ASSUME Shape, LogsAreTrue, NEW c \in Caller, NEW op \in Operation, Begin(c, op)
    PROVE  Shape' /\ LogsAreTrue'
<1>1. PICK q : q = [Idle EXCEPT !.pc = "before", !.op = op]
  OBVIOUS
<1>2. q \in CallRecord /\ q.pc = "before" /\ q.op = op
  BY <1>1 DEF Idle, CallRecord, CallPc
<1>3. call' = [call EXCEPT ![c] = q]
  BY <1>1 DEF Begin
<1>4. UNCHANGED <<records, list, log, committed, gone, job, prune>>
  BY DEF Begin, DataOnly
<1>5. /\ call' \in [Caller -> CallRecord] /\ call'[c] = q /\ \A b \in Caller \ {c} : call'[b] = call[b]
  BY <1>2, <1>3 DEF Shape
<1> QED
  BY <1>2, <1>4, <1>5 DEF Shape, LogsAreTrue, Active

LEMMA LogsKeep ==
    ASSUME Shape, LogsAreTrue, [Next]_vars
    PROVE  Shape' /\ LogsAreTrue'
<1>1. CASE UNCHANGED vars
  BY <1>1 DEF vars, Shape, LogsAreTrue, Active
<1> QED
  BY <1>1, CallKeepsLogs, WorkerKeepsLogs, PassKeepsLogs, BeginKeepsLogs DEF Next

------------------------------------------------------------------------------
(* The steps of a call *)

\* A call that moves on and leaves the records, the lists and the logs as they are.
LEMMA CallMoves ==
    ASSUME IInv, NEW c \in Caller, Active(c), call[c].pc # "after", NEW r \in CallRecord,
           r.pc # "idle", r.op = call[c].op, call'[c] = r, call' \in [Caller -> CallRecord], \A b \in Caller \ {c} : call'[b] = call[b],
           UNCHANGED <<records, list, log, gone, restored>>
    PROVE  Sorted' /\ CallsApart' /\ GoneIsGone'
<1>1. \A b \in Caller : (Active(b)' <=> Active(b)) /\ call'[b].op = call[b].op
  BY DEF Active
<1>2. Sorted'
  BY DEF IInv, Sorted
<1>3. CallsApart'
  BY <1>1 DEF IInv, CallsApart
<1>4. GoneIsGone'
  BY <1>1 DEF IInv, GoneIsGone
<1> QED
  BY <1>2, <1>3, <1>4

\* The log is read and what was read is written back with the change.
LEMMA AuditReadKeeps ==
    ASSUME IInv, Shape', LogsAreTrue', NEW c \in Caller, AuditRead(c)
    PROVE  IInv'
<1> DEFINE op == call[c].op
<1>1. Active(c) /\ op \in Operation /\ call \in [Caller -> CallRecord]
  BY DEF AuditRead, Active, IInv, Shape
<1>2. Logger(op) \in LogKey
  BY <1>1, OperationScope
<1>3. log[Logger(op)] \in SUBSET Operation /\ log[Logger(op)] \subseteq committed
  BY <1>2 DEF IInv, Shape, LogsAreTrue
<1>4. /\ call' \in [Caller -> CallRecord] /\ \A b \in Caller \ {c} : call'[b] = call[b]
      /\ call'[c].pc = "audit_write" /\ call'[c].op = op /\ call'[c].log = log[Logger(op)]
  BY <1>1, <1>3 DEF AuditRead, CallRecord, CallPc
<1>5. UNCHANGED <<records, list, log, gone, restored>> /\ call[c].pc = "audit_read"
  BY DEF AuditRead, DataOnly
<1>6. Sorted' /\ CallsApart' /\ GoneIsGone'
  BY <1>1, <1>4, <1>5, CallMoves
<1>8. ChecksStillHold' /\ IndexIsCurrent'
  BY <1>4, <1>5 DEF IInv, ChecksStillHold, IndexIsCurrent
<1>9. ErasureIsWhole'
  BY <1>4, <1>5 DEF IInv, ErasureIsWhole, ErasureListed, Erased
<1>10. RestAgrees'
  BY <1>4, <1>5 DEF IInv, RestAgrees, Disturbs, InList
<1> QED
  BY <1>6, <1>8, <1>9, <1>10 DEF IInv

LEMMA IndexReadKeeps ==
    ASSUME IInv, Shape', LogsAreTrue', NEW c \in Caller, IndexRead(c)
    PROVE  IInv'
<1> DEFINE op == call[c].op
<1>1. Active(c) /\ op \in Operation /\ call \in [Caller -> CallRecord]
  BY DEF IndexRead, Active, IInv, Shape
<1>2. Lister(op) \in ListKey
  BY <1>1, OperationScope
<1>3. list[Lister(op)] \in SUBSET Subject
  BY <1>2 DEF IInv, Shape
<1>4. /\ call' \in [Caller -> CallRecord] /\ \A b \in Caller \ {c} : call'[b] = call[b]
      /\ call'[c].pc = "index_write" /\ call'[c].op = op /\ call'[c].list = list[Lister(op)]
  BY <1>1, <1>3 DEF IndexRead, CallRecord, CallPc
<1>5. UNCHANGED <<records, list, log, gone, restored>> /\ call[c].pc = "index_read"
  BY DEF IndexRead, DataOnly
<1>6. Sorted' /\ CallsApart' /\ GoneIsGone'
  BY <1>1, <1>4, <1>5, CallMoves
<1>8. ChecksStillHold' /\ IndexIsCurrent'
  BY <1>4, <1>5 DEF IInv, ChecksStillHold, IndexIsCurrent
<1>9. ErasureIsWhole'
  BY <1>4, <1>5 DEF IInv, ErasureIsWhole, ErasureListed, Erased
<1>10. RestAgrees'
  BY <1>4, <1>5 DEF IInv, RestAgrees, Disturbs, InList
<1> QED
  BY <1>6, <1>8, <1>9, <1>10 DEF IInv
LEMMA AuditWriteKeeps ==
    ASSUME IInv, Shape', LogsAreTrue', NEW c \in Caller, AuditWrite(c)
    PROVE  IInv'
<1> DEFINE op == call[c].op
<1>1. Active(c) /\ op \in Operation /\ call \in [Caller -> CallRecord]
  BY DEF AuditWrite, Active, IInv, Shape
<1>2. /\ call' \in [Caller -> CallRecord] /\ \A b \in Caller \ {c} : call'[b] = call[b]
      /\ call'[c].pc = "after" /\ call'[c].op = op
  BY <1>1, GotoEffect DEF AuditWrite, CallPc
<1>3. UNCHANGED <<records, list, gone, restored>> /\ call[c].pc = "audit_write"
  BY DEF AuditWrite, DataOnly
<1>4. \A l \in LogKey : l # Logger(op) => log'[l] = log[l]
  BY DEF AuditWrite, IInv, Shape
<1>5. ASSUME NEW a \in App, a \notin AppsOf(op) PROVE log'[a] = log[a]
  BY <1>1, <1>4, <1>5, OperationScope DEF LogKey
<1>6. \A b \in Caller : (Active(b)' <=> Active(b)) /\ call'[b].op = call[b].op
  BY <1>1, <1>2 DEF Active
<1>7. Sorted' /\ CallsApart'
  BY <1>3, <1>6 DEF IInv, Sorted, CallsApart
<1>8. ChecksStillHold' /\ IndexIsCurrent'
  BY <1>2, <1>3 DEF IInv, ChecksStillHold, IndexIsCurrent
<1>9. ASSUME NEW b \in Caller, call[b].op.kind = "delete", call[b].op.key[1] = "app",
             call[b].pc \in {"erase", "index_read", "index_write", "audit_read", "audit_write", "after"}
      PROVE  log'[call[b].op.key[2]] = log[call[b].op.key[2]]
  <2>1. Active(b) /\ call[b].op \in Operation
    BY <1>9 DEF Active, IInv, Shape
  <2>2. call[b].op.key[2] \in App /\ call[b].op.key[2] \in AppsOf(call[b].op)
    BY <1>9, <2>1, OperationScope, KeyForms DEF Owned, AppKey
  <2>3. CASE b # c
    BY <1>1, <1>5, <2>1, <2>2, <2>3 DEF IInv, CallsApart
  <2>4. CASE b = c
    <3>1. Logger(op) = "global"
      BY <1>9, <2>4 DEF Logger
    <3> QED
      BY <1>4, <2>2, <2>4, <3>1, NamesAssumption DEF LogKey
  <2> QED
    BY <2>3, <2>4
<1>10. ErasureIsWhole'
  <2>1. ASSUME NEW b \in Caller, call'[b].pc = "erase" PROVE ErasureListed(b)'
    <3>1. b # c /\ call'[b] = call[b] /\ ErasureListed(b)
      BY <1>2, <2>1 DEF IInv, ErasureIsWhole
    <3>2. log'[call[b].op.key[2]] = log[call[b].op.key[2]]
      BY <1>9, <2>1, <3>1 DEF ErasureListed
    <3> QED
      BY <1>3, <3>1, <3>2 DEF ErasureListed
  <2>2. ASSUME NEW b \in Caller, Erased(b)'
        PROVE  /\ \A k \in records' : ~Owned(k, call'[b].op.key[2])
               /\ list'[call'[b].op.key[2]] = {}
               /\ log'[call'[b].op.key[2]] # {} => call'[b].op.key[2] \in restored'
    <3>1. Erased(b) /\ call'[b].op = call[b].op
      BY <1>2, <1>3, <2>2 DEF Erased
    <3>2. log'[call[b].op.key[2]] = log[call[b].op.key[2]]
      BY <1>9, <3>1 DEF Erased
    <3> QED
      BY <1>3, <3>1, <3>2 DEF IInv, ErasureIsWhole
  <2> QED
    BY <2>1, <2>2 DEF ErasureIsWhole
<1>11. RestAgrees'
  BY <1>2, <1>3 DEF IInv, RestAgrees, Disturbs, InList
<1>12. GoneIsGone'
  <2>1. ASSUME NEW g \in gone, g \in App, log'[g] # {}
        PROVE  g \in restored \/ \E b \in Caller : call'[b].pc = "after" /\ call'[b].op.key = AppKey(g)
    <3>1. CASE g \in AppsOf(op)
      BY <1>1, <1>2, <3>1 DEF IInv, GoneIsGone
    <3>2. CASE g \notin AppsOf(op)
      <4>1. log[g] # {}
        BY <1>5, <2>1, <3>2
      <4>2. \A b \in Caller : call[b].pc = "after" => call'[b] = call[b]
        BY <1>2, <1>3
      <4> QED
        BY <4>1, <4>2 DEF IInv, GoneIsGone
    <3> QED
      BY <3>1, <3>2
  <2> QED
    BY <1>3, <1>6, <2>1 DEF IInv, GoneIsGone, Shape
<1> QED
  BY <1>7, <1>8, <1>10, <1>11, <1>12 DEF IInv

\* A list is written back with the one id of the call added or taken out: nobody else wrote it
\* since it was read, as no other call of the list is under way.
LEMMA IndexWriteKeeps ==
    ASSUME IInv, Shape', LogsAreTrue', NEW c \in Caller, IndexWrite(c)
    PROVE  IInv'
<1> DEFINE op == call[c].op
           l == Lister(op)
<1>1. Active(c) /\ op \in Operation /\ call \in [Caller -> CallRecord]
  BY DEF IndexWrite, Active, IInv, Shape
<1>2. /\ call' \in [Caller -> CallRecord] /\ \A b \in Caller \ {c} : call'[b] = call[b]
      /\ call'[c].pc = "audit_read" /\ call'[c].op = op
  BY <1>1, GotoEffect DEF IndexWrite, CallPc
<1>3. UNCHANGED <<records, log, gone, restored>> /\ call[c].pc = "index_write"
  BY DEF IndexWrite, DataOnly
<1>4. /\ op.key \in RecordKey /\ l = ListOf(op.key) /\ l \in ListKey /\ op.key[2] \in Subject
      /\ op.kind \in {"create", "update", "delete"}
  BY <1>1, OperationScope, ListsOfOneKind
<1>5. /\ list' \in [ListKey -> SUBSET Subject]
      /\ list'[l] = IF op.kind = "delete" THEN list[l] \ {op.key[2]} ELSE list[l] \cup {op.key[2]}
      /\ \A m \in ListKey \ {l} : list'[m] = list[m]
  <2>1. list' = [list EXCEPT ![l] = Listed(op, list[l])]
    BY <1>3 DEF IndexWrite, IInv, IndexIsCurrent
  <2> HIDE DEF l, op
  <2>2. Listed(op, list[l]) \in SUBSET Subject
    BY <1>4 DEF Listed, IInv, Shape
  <2> QED
    BY <1>4, <2>1, <2>2 DEF Listed, IInv, Shape
<1> HIDE DEF l
<1>6. \A b \in Caller : (Active(b)' <=> Active(b)) /\ call'[b].op = call[b].op
  BY <1>1, <1>2 DEF Active
<1>7. Sorted'
  BY <1>4, <1>5 DEF IInv, Sorted
<1>8. CallsApart' /\ GoneIsGone'
  <2>1. ASSUME NEW g \in gone, g \in App PROVE list'[g] = {}
    <3>1. g # l
      <4>1. SUFFICES ASSUME g = l PROVE FALSE
        OBVIOUS
      <4>2. g \in AppsOf(op) /\ op.key[1] = "endpoint"
        BY <1>1, <2>1, <4>1, OperationScope DEF l
      <4> QED
        BY <1>1, <4>2 DEF IInv, GoneIsGone, AppKey
    <3> QED
      BY <1>5, <2>1, <3>1 DEF ListKey, IInv, GoneIsGone
  <2>2. \A b \in Caller : call[b].pc = "after" => call'[b] = call[b]
    BY <1>2, <1>3
  <2>3. CallsApart'
    BY <1>6 DEF IInv, CallsApart
  <2>4. ASSUME NEW g \in gone
        PROVE  /\ \A b \in Caller : Active(b)' /\ g \in AppsOf(call'[b].op) =>
                    call'[b].op.kind = "create" /\ call'[b].op.key = AppKey(g)
               /\ \A k \in records' : Owned(k, g) =>
                    k = AppKey(g) /\ \E b \in Caller : Active(b)' /\ call'[b].op.key = AppKey(g)
               /\ log'[g] # {} => g \in restored' \/ \E b \in Caller : call'[b].pc = "after" /\ call'[b].op.key = AppKey(g)
    BY <1>3, <1>6, <2>2, <2>4 DEF IInv, GoneIsGone
  <2> QED
    BY <1>3, <2>1, <2>3, <2>4 DEF GoneIsGone, IInv, Shape
<1>10. ChecksStillHold'
  BY <1>2, <1>3 DEF IInv, ChecksStillHold
<1>11. IndexIsCurrent'
  <2> SUFFICES ASSUME NEW b \in Caller, b # c, call[b].pc = "index_write"
               PROVE  call[b].list = list'[Lister(call[b].op)]
    BY <1>2, <1>3 DEF IInv, IndexIsCurrent
  <2>1. Active(b) /\ call[b].op \in Operation
    BY DEF Active, IInv, Shape
  <2>2. Lister(call[b].op) # l /\ Lister(call[b].op) \in ListKey
    BY <1>1, <2>1, OperationScope DEF IInv, CallsApart, l
  <2> QED
    BY <1>5, <2>2 DEF IInv, IndexIsCurrent
<1>12. ErasureIsWhole'
  <2>1. ASSUME NEW b \in Caller, call[b].op.kind = "delete", call[b].op.key[1] = "app",
               call[b].pc \in {"erase", "index_read", "index_write", "audit_read", "audit_write", "after"}
        PROVE  list'[call[b].op.key[2]] = list[call[b].op.key[2]]
    <3> DEFINE a == call[b].op.key[2]
    <3>1. Active(b) /\ call[b].op \in Operation
      BY <2>1 DEF Active, IInv, Shape
    <3>2. a \in App /\ call[b].op.key = AppKey(a)
      BY <2>1, <3>1, OperationScope, KeyForms
    <3>3. a # l
      <4>1. SUFFICES ASSUME a = l PROVE FALSE
        OBVIOUS
      <4>2. Owned(op.key, a)
        BY <1>4, <3>2, <4>1, KeyForms, NamesAssumption DEF Owned
      <4>3. a \in AppsOf(op) /\ a \in AppsOf(call[b].op)
        BY <1>1, <3>1, <3>2, <4>2, OperationScope DEF Owned
      <4>4. b = c
        BY <1>1, <3>1, <4>3 DEF IInv, CallsApart
      <4>5. l = "apps"
        BY <1>4, <2>1, <4>4 DEF ListOf
      <4> QED
        BY <3>2, <4>1, <4>5, NamesAssumption
    <3> QED
      BY <1>5, <3>2, <3>3 DEF ListKey
  <2>2. ASSUME NEW b \in Caller, call'[b].pc = "erase" PROVE ErasureListed(b)'
    <3>1. b # c /\ call'[b] = call[b] /\ ErasureListed(b)
      BY <1>2, <2>2 DEF IInv, ErasureIsWhole
    <3> QED
      BY <1>3, <2>1, <2>2, <3>1 DEF ErasureListed
  <2>3. ASSUME NEW b \in Caller, Erased(b)'
        PROVE  /\ \A k \in records' : ~Owned(k, call'[b].op.key[2])
               /\ list'[call'[b].op.key[2]] = {}
               /\ log'[call'[b].op.key[2]] # {} => call'[b].op.key[2] \in restored'
    <3>1. Erased(b) /\ call'[b].op = call[b].op
      BY <1>2, <1>3, <2>3 DEF Erased
    <3> QED
      BY <1>3, <2>1, <3>1 DEF IInv, ErasureIsWhole, Erased
  <2> QED
    BY <2>2, <2>3 DEF ErasureIsWhole
<1>13. RestAgrees'
  <2> SUFFICES ASSUME NEW k \in RecordKey, \A b \in Caller : ~Disturbs(b, k)'
               PROVE  InList(k)' <=> k \in records
    BY <1>3 DEF RestAgrees
  <2>1. CASE k = op.key
    BY <1>3, <1>4, <1>5, <2>1 DEF InList, IInv, IndexIsCurrent
  <2>2. CASE k # op.key
    <3>1. \A b \in Caller : ~Disturbs(b, k)
      BY <1>2, <1>3, <2>2 DEF Disturbs
    <3>2. InList(k)' <=> InList(k)
      BY <1>4, <1>5, <2>2, ListsOfOneKind DEF InList
    <3> QED
      BY <3>1, <3>2 DEF IInv, RestAgrees
  <2> QED
    BY <2>1, <2>2
<1> QED
  BY <1>7, <1>8, <1>10, <1>11, <1>12, <1>13 DEF IInv
\* A call that is over, and was not in the middle of its changes.
LEMMA CallEnds ==
    ASSUME IInv, Shape', LogsAreTrue', NEW c \in Caller, Active(c), call[c].pc \notin {"erase", "index_read", "index_write"},
           call' = [call EXCEPT ![c] = Idle], UNCHANGED <<records, list, log, restored>>
    PROVE  IInv' <=> GoneIsGone'
<1>1. Idle.pc = "idle" /\ Idle.op = NoOp /\ Idle \in CallRecord
  BY DEF Idle, CallRecord, CallPc
<1>2. call' \in [Caller -> CallRecord] /\ call'[c] = Idle /\ \A b \in Caller \ {c} : call'[b] = call[b]
  BY <1>1 DEF IInv, Shape
<1>3. \A b \in Caller : Active(b)' <=> Active(b) /\ b # c
  BY <1>1, <1>2 DEF Active
<1>4. Sorted' /\ CallsApart'
  BY <1>2, <1>3 DEF IInv, Sorted, CallsApart
<1>5. ChecksStillHold' /\ IndexIsCurrent'
  BY <1>1, <1>2 DEF IInv, ChecksStillHold, IndexIsCurrent
<1>6. ErasureIsWhole'
  <2>1. ASSUME NEW b \in Caller, call'[b].pc = "erase" PROVE ErasureListed(b)'
    BY <1>1, <1>2, <2>1 DEF IInv, ErasureIsWhole, ErasureListed
  <2>2. ASSUME NEW b \in Caller, Erased(b)'
        PROVE  /\ \A k \in records' : ~Owned(k, call'[b].op.key[2])
               /\ list'[call'[b].op.key[2]] = {}
               /\ log'[call'[b].op.key[2]] # {} => call'[b].op.key[2] \in restored'
    <3>1. b # c
      BY <1>1, <1>2, <2>2 DEF Erased
    <3> QED
      BY <1>2, <2>2, <3>1 DEF IInv, ErasureIsWhole, Erased
  <2> QED
    BY <2>1, <2>2 DEF ErasureIsWhole
<1>7. RestAgrees'
  BY <1>1, <1>2 DEF IInv, RestAgrees, Disturbs, InList
<1> QED
  BY <1>4, <1>5, <1>6, <1>7 DEF IInv

\* A denied call has changed nothing.
LEMMA BeforeHookKeeps ==
    ASSUME IInv, Shape', LogsAreTrue', NEW c \in Caller, BeforeHook(c)
    PROVE  IInv'
<1> DEFINE op == call[c].op
           a == op.key[2]
<1>1. Active(c) /\ op \in Operation /\ call \in [Caller -> CallRecord] /\ call[c].pc = "before"
  BY DEF BeforeHook, Active, IInv, Shape
<1>2. UNCHANGED <<records, list, log, gone, restored>>
  BY DEF BeforeHook, DataOnly
<1>3. CASE call' = [call EXCEPT ![c] = Idle]
  <2>1. IInv' <=> GoneIsGone'
    BY <1>1, <1>2, <1>3, CallEnds
  <2>2. Idle.pc = "idle"
    BY DEF Idle
  <2>3. \A b \in Caller : (Active(b)' <=> Active(b) /\ b # c) /\ (b # c => call'[b] = call[b])
    BY <1>1, <1>3, <2>2 DEF Active
  <2>4. ASSUME NEW g \in gone, NEW k \in records, Owned(k, g)
        PROVE  k = AppKey(g) /\ \E b \in Caller \ {c} : Active(b) /\ call[b].op.key = AppKey(g)
    <3>1. k = AppKey(g) /\ \E b \in Caller : Active(b) /\ call[b].op.key = AppKey(g)
      BY <2>4 DEF IInv, GoneIsGone
    <3>2. SUFFICES op.key # AppKey(g)
      BY <3>1
    <3>3. SUFFICES ASSUME op.key = AppKey(g) PROVE FALSE
      OBVIOUS
    <3>4. op.key \in RecordKey /\ g \in App /\ op.key[1] = "app"
      BY <1>1, <3>1, <3>3, OperationScope, KeyForms DEF AppKey
    <3>5. op.kind = "create"
      BY <1>1, <2>4, <3>3, <3>4, OperationScope DEF IInv, GoneIsGone, Owned
    <3> QED
      BY <1>1, <3>1, <3>3, <3>4, <3>5 DEF IInv, ChecksStillHold
  <2>5. GoneIsGone'
    <3>1. \A b \in Caller : call[b].pc = "after" => call'[b] = call[b]
      BY <1>1, <2>3
    <3> QED
      BY <1>2, <2>3, <2>4, <3>1 DEF IInv, GoneIsGone
  <2> QED
    BY <2>1, <2>5
<1>4. CASE /\ op.key[1] = "app" /\ op.kind = "delete"
           /\ call' = [call EXCEPT ![c].pc = "erase", ![c].todo = KeysUnder(a)]
  <2>1. a \in App /\ op.key = AppKey(a)
    BY <1>1, <1>4, OperationScope, KeyForms
  <2>2. /\ KeysUnder(a) \in SUBSET ErasableKey /\ KeysUnder(a) \subseteq Erasable(a)
        /\ \A k \in records : Owned(k, a) => k \in KeysUnder(a)
        /\ <<"list", a>> \in KeysUnder(a) /\ <<"log", a>> \in KeysUnder(a)
    BY <2>1, KeysUnderPrefix DEF IInv
  <2>3. /\ call' \in [Caller -> CallRecord] /\ \A b \in Caller \ {c} : call'[b] = call[b]
        /\ call'[c].pc = "erase" /\ call'[c].op = op /\ call'[c].todo = KeysUnder(a)
    BY <1>1, <1>4, <2>2 DEF CallRecord, CallPc
  <2>4. Sorted' /\ CallsApart' /\ GoneIsGone'
    BY <1>1, <1>2, <2>3, CallMoves
  <2>5. ChecksStillHold' /\ IndexIsCurrent'
    BY <1>2, <2>3 DEF IInv, ChecksStillHold, IndexIsCurrent
  <2>6. ErasureIsWhole'
    <3>1. ErasureListed(c)'
      BY <1>2, <1>4, <2>2, <2>3 DEF ErasureListed
    <3>2. \A b \in Caller \ {c} : (call'[b].pc = "erase" => ErasureListed(b)') /\ (Erased(b)' <=> Erased(b))
      BY <1>2, <2>3 DEF IInv, ErasureIsWhole, ErasureListed, Erased
    <3>3. ~Erased(c)'
      BY <2>3 DEF Erased
    <3> QED
      BY <1>2, <2>3, <3>1, <3>2, <3>3 DEF IInv, ErasureIsWhole
  <2>7. RestAgrees'
    BY <1>1, <1>2, <2>3 DEF IInv, RestAgrees, Disturbs, InList
  <2> QED
    BY <2>4, <2>5, <2>6, <2>7 DEF IInv
<1>5. CASE ~(op.key[1] = "app" /\ op.kind = "delete") /\ Goto(c, "write")
  <2>1. /\ call' \in [Caller -> CallRecord] /\ \A b \in Caller \ {c} : call'[b] = call[b]
        /\ call'[c].pc = "write" /\ call'[c].op = op
    BY <1>1, <1>5, GotoEffect DEF CallPc
  <2>2. Sorted' /\ CallsApart' /\ GoneIsGone'
    BY <1>1, <1>2, <2>1, CallMoves
  <2>3. IndexIsCurrent'
    BY <1>2, <2>1 DEF IInv, IndexIsCurrent
  <2>4. ChecksStillHold'
    BY <1>1, <1>2, <1>5, <2>1 DEF IInv, ChecksStillHold
  <2>5. ErasureIsWhole'
    <3>1. \A b \in Caller : /\ call'[b].pc = "erase" => call[b].pc = "erase" /\ ErasureListed(b)'
                            /\ Erased(b)' => Erased(b)
      BY <1>2, <2>1 DEF IInv, ErasureIsWhole, ErasureListed, Erased
    <3> QED
      BY <1>2, <2>1, <3>1 DEF IInv, ErasureIsWhole
  <2>6. RestAgrees'
    BY <1>1, <1>2, <2>1 DEF IInv, RestAgrees, Disturbs, InList
  <2> QED
    BY <2>2, <2>3, <2>4, <2>5, <2>6 DEF IInv
<1> QED
  BY <1>3, <1>4, <1>5 DEF BeforeHook
\* The answer of a deletion says that nothing is left, and that of a creation that something is.
LEMMA AfterHookKeeps ==
    ASSUME IInv, Shape', LogsAreTrue', NEW c \in Caller, AfterHook(c)
    PROVE  IInv'
<1> DEFINE op == call[c].op
<1>1. Active(c) /\ op \in Operation /\ call \in [Caller -> CallRecord] /\ call[c].pc = "after"
  BY DEF AfterHook, Active, IInv, Shape
<1>2. UNCHANGED <<records, list, log, restored>> /\ call' = [call EXCEPT ![c] = Idle]
  BY DEF AfterHook, DataOnly
<1>3. SUFFICES GoneIsGone'
  BY <1>1, <1>2, CallEnds
<1>4. /\ \A b \in Caller \ {c} : call'[b] = call[b] /\ (Active(b)' <=> Active(b))
      /\ ~Active(c)'
  BY <1>1, <1>2 DEF Active, Idle
<1>5. ASSUME NEW g \in gone', g \in gone, op.key # AppKey(g)
      PROVE  /\ \A b \in Caller : Active(b)' /\ g \in AppsOf(call'[b].op) =>
                    call'[b].op.kind = "create" /\ call'[b].op.key = AppKey(g)
             /\ \A k \in records : Owned(k, g) =>
                    k = AppKey(g) /\ \E b \in Caller : Active(b)' /\ call'[b].op.key = AppKey(g)
             /\ list[g] = {}
             /\ log[g] # {} =>
                    g \in restored \/ \E b \in Caller : call'[b].pc = "after" /\ call'[b].op.key = AppKey(g)
  BY <1>4, <1>5 DEF IInv, GoneIsGone
<1>6. ASSUME NEW g \in gone, op.key = AppKey(g) PROVE g \notin gone'
  <2>1. g \in App /\ op.key[1] = "app" /\ op.key[2] = g
    BY <1>1, <1>6, OperationScope, KeyForms DEF AppKey
  <2>2. op.kind = "create"
    BY <1>1, <1>6, <2>1, OperationScope DEF IInv, GoneIsGone, Owned
  <2> QED
    BY <2>1, <2>2 DEF AfterHook
<1>7. ASSUME NEW g \in gone', g \notin gone
      PROVE  /\ \A b \in Caller : ~(Active(b)' /\ g \in AppsOf(call'[b].op))
             /\ \A k \in records : ~Owned(k, g)
             /\ list[g] = {} /\ (log[g] # {} => g \in restored)
  <2>1. op.key[1] = "app" /\ op.kind = "delete" /\ g = op.key[2]
    BY <1>7 DEF AfterHook
  <2>2. g \in App /\ op.key = AppKey(g)
    BY <1>1, <2>1, OperationScope, KeyForms
  <2>3. g \in AppsOf(op)
    BY <1>1, <2>2, OperationScope DEF Owned
  <2>4. /\ \A k \in records : ~Owned(k, g)
        /\ list[g] = {} /\ (log[g] # {} => g \in restored)
    BY <1>1, <2>1 DEF IInv, ErasureIsWhole, Erased
  <2> QED
    BY <1>1, <1>4, <2>3, <2>4 DEF IInv, CallsApart
<1> QED
  BY <1>2, <1>5, <1>6, <1>7 DEF GoneIsGone

\* A call begins where no other is, and on an application that exists or is to be created.
LEMMA BeginKeeps ==
    ASSUME IInv, Shape', LogsAreTrue', NEW c \in Caller, NEW op \in Operation, Begin(c, op)
    PROVE  IInv'
<1> DEFINE r == [Idle EXCEPT !.pc = "before", !.op = op]
<1>1. ~Active(c) /\ call \in [Caller -> CallRecord] /\ call[c].pc = "idle"
  BY DEF Begin, Active, IInv, Shape
<1>2. Idle \in CallRecord
  BY DEF Idle, CallRecord, CallPc
<1>3. r \in CallRecord /\ r.pc = "before" /\ r.op = op
  BY <1>2 DEF CallRecord, CallPc
<1>4. call' = [call EXCEPT ![c] = r] /\ UNCHANGED <<records, list, log, gone, restored>>
  BY DEF Begin, DataOnly
<1> HIDE DEF r
<1>5. /\ call' \in [Caller -> CallRecord] /\ \A b \in Caller \ {c} : call'[b] = call[b]
      /\ call'[c].pc = "before" /\ call'[c].op = op
  BY <1>1, <1>3, <1>4
<1>6. \A b \in Caller : Active(b)' <=> (Active(b) \/ b = c)
  BY <1>1, <1>5 DEF Active
<1>7. \A b \in Caller : Active(b) => Lister(call[b].op) # Lister(op) /\ AppsOf(call[b].op) \cap AppsOf(op) = {}
  BY DEF Begin, Apart
<1>8. Sorted' /\ CallsApart'
  BY <1>1, <1>4, <1>5, <1>6, <1>7 DEF IInv, Sorted, CallsApart
<1>9. IndexIsCurrent'
  BY <1>4, <1>5 DEF IInv, IndexIsCurrent
<1>10. op.key \in RecordKey
  BY OperationScope
<1>11. ChecksStillHold'
  <2>1. op.kind = "update" /\ op.key[1] # "event-type" => op.key \in records
    BY <1>10, KeyForms DEF Begin, Acceptable
  <2>2. op.kind = "create" /\ op.key[1] = "app" => op.key \notin records
    BY DEF Begin, Acceptable
  <2> QED
    BY <1>4, <1>5, <2>1, <2>2 DEF IInv, ChecksStillHold
<1>12. ErasureIsWhole'
  <2>1. \A b \in Caller : /\ call'[b].pc = "erase" => b # c /\ ErasureListed(b)'
                          /\ Erased(b)' => b # c /\ Erased(b)
    BY <1>4, <1>5 DEF IInv, ErasureIsWhole, ErasureListed, Erased
  <2> QED
    BY <1>4, <1>5, <2>1 DEF IInv, ErasureIsWhole
<1>13. RestAgrees'
  BY <1>1, <1>4, <1>5 DEF IInv, RestAgrees, Disturbs, InList
<1>14. GoneIsGone'
  <2>1. ASSUME NEW g \in gone, g \in AppsOf(op) PROVE op.kind = "create" /\ op.key = AppKey(g)
    <3>1. g \in App /\ Owned(op.key, g)
      BY <2>1, OperationScope
    <3>2. ASSUME NEW k \in records, Owned(k, g) PROVE FALSE
      <4>1. PICK b \in Caller : Active(b) /\ call[b].op.key = AppKey(g)
        BY <3>2 DEF IInv, GoneIsGone
      <4>2. g \in AppsOf(call[b].op)
        BY <3>1, <4>1, OperationScope DEF Owned, IInv, Shape
      <4> QED
        BY <1>7, <2>1, <4>1, <4>2
    <3>3. op.key \notin records
      BY <3>1, <3>2
    <3>4. CASE op.key[1] = "app"
      BY <1>10, <3>1, <3>3, <3>4, OperationScope, KeyForms DEF Begin, Acceptable, Owned
    <3>5. CASE op.key[1] = "endpoint"
      <4>1. AppOf[op.key[2]] = g
        BY <3>1, <3>5 DEF Owned, AppKey
      <4>2. AppKey(g) \in records
        BY <1>10, <3>3, <3>5, <4>1, KeyForms DEF Begin, Acceptable
      <4> QED
        BY <3>2, <4>2 DEF Owned
    <3> QED
      BY <1>10, <3>1, <3>4, <3>5, KeyForms DEF Owned, AppKey
  <2> QED
    BY <1>1, <1>4, <1>5, <1>6, <2>1 DEF IInv, GoneIsGone
<1> QED
  BY <1>8, <1>9, <1>11, <1>12, <1>13, <1>14 DEF IInv
\* A record belongs to no other call that is under way.
LEMMA KeysApart ==
    ASSUME Shape, CallsApart, NEW b \in Caller, NEW c \in Caller, b # c, Active(b), Active(c)
    PROVE  /\ call[b].op.key # call[c].op.key
           /\ \A a \in App : ~(Owned(call[b].op.key, a) /\ Owned(call[c].op.key, a))
<1>1. call[b].op \in Operation /\ call[c].op \in Operation
  BY DEF Shape
<1>2. Lister(call[b].op) # Lister(call[c].op) /\ AppsOf(call[b].op) \cap AppsOf(call[c].op) = {}
  BY DEF CallsApart
<1> QED
  BY <1>1, <1>2, OperationScope

\* The record is written while the list is still as it was.
LEMMA WriteKeeps ==
    ASSUME IInv, Shape', LogsAreTrue', NEW c \in Caller, Write(c)
    PROVE  IInv'
<1> DEFINE op == call[c].op
           next == IF op.kind = "update" /\ op.key[1] # "event-type" THEN "audit_read" ELSE "index_read"
<1>1. Active(c) /\ op \in Operation /\ call \in [Caller -> CallRecord] /\ call[c].pc = "write"
  BY DEF Write, Active, IInv, Shape
<1>2. /\ call' \in [Caller -> CallRecord] /\ \A b \in Caller \ {c} : call'[b] = call[b]
      /\ call'[c].pc = next /\ call'[c].op = op
  BY <1>1, GotoEffect DEF Write, CallPc
<1>3. /\ records' = IF op.kind = "delete" THEN records \ {op.key} ELSE records \cup {op.key}
      /\ UNCHANGED <<list, log, gone, restored>>
  BY DEF Write, DataOnly
<1>4. op.key \in RecordKey /\ op.kind \in {"create", "update", "delete"}
  BY <1>1, OperationScope
<1>5. \A b \in Caller : (Active(b)' <=> Active(b)) /\ call'[b].op = call[b].op
  BY <1>1, <1>2 DEF Active
<1>6. /\ op.kind = "update" /\ op.key[1] # "event-type" => op.key \in records
      /\ op.kind = "create" /\ op.key[1] = "app" => op.key \notin records
      /\ ~(op.kind = "delete" /\ op.key[1] = "app")
  BY <1>1 DEF IInv, ChecksStillHold
<1>7. \A b \in Caller \ {c} : Active(b) => call[b].op.key # op.key
  BY <1>1, KeysApart DEF IInv
<1>8. Sorted' /\ CallsApart'
  BY <1>3, <1>5 DEF IInv, Sorted, CallsApart
<1>10. ChecksStillHold'
  <2> SUFFICES ASSUME NEW b \in Caller \ {c}, call[b].pc \in {"before", "write"}
               PROVE  LET o == call[b].op IN
                        /\ o.kind = "update" /\ o.key[1] # "event-type" => o.key \in records'
                        /\ o.kind = "create" /\ o.key[1] = "app" => o.key \notin records'
                        /\ call[b].pc = "write" => ~(o.kind = "delete" /\ o.key[1] = "app")
    BY <1>2 DEF ChecksStillHold
  <2>1. call[b].op.key # op.key
    BY <1>7 DEF Active
  <2> QED
    BY <1>3, <2>1 DEF IInv, ChecksStillHold
<1>11. ErasureIsWhole'
  <2>1. ASSUME NEW b \in Caller \ {c}, call[b].op.kind = "delete", call[b].op.key[1] = "app", Active(b)
        PROVE  \A k \in records' : Owned(k, call[b].op.key[2]) => k \in records
    <3>1. call[b].op.key[2] \in App /\ Owned(call[b].op.key, call[b].op.key[2])
      BY <2>1, OperationScope, KeyForms DEF IInv, Shape, Owned
    <3>2. ~Owned(op.key, call[b].op.key[2])
      BY <1>1, <2>1, <3>1, KeysApart DEF IInv
    <3> QED
      BY <1>3, <3>2
  <2>2. ASSUME NEW b \in Caller, call'[b].pc = "erase" PROVE ErasureListed(b)'
    <3>1. b \in Caller \ {c} /\ call'[b] = call[b] /\ Active(b) /\ ErasureListed(b)
      BY <1>2, <2>2 DEF IInv, ErasureIsWhole, Active
    <3> QED
      BY <1>3, <2>1, <3>1 DEF ErasureListed
  <2>3. ASSUME NEW b \in Caller, Erased(b)'
        PROVE  /\ \A k \in records' : ~Owned(k, call'[b].op.key[2])
               /\ list'[call'[b].op.key[2]] = {}
               /\ log'[call'[b].op.key[2]] # {} => call'[b].op.key[2] \in restored'
    <3>1. b \in Caller \ {c} /\ call'[b] = call[b] /\ Active(b) /\ Erased(b)
      BY <1>2, <1>6, <2>3 DEF Erased, Active
    <3> QED
      BY <1>3, <2>1, <3>1 DEF IInv, ErasureIsWhole, Erased
  <2> QED
    BY <2>2, <2>3 DEF ErasureIsWhole
<1>12. IndexIsCurrent'
  <2> SUFFICES ASSUME NEW b \in Caller
               PROVE  /\ call'[b].pc \in {"index_read", "index_write"} =>
                            (call'[b].op.key \in records' <=> call'[b].op.kind # "delete")
                      /\ call'[b].pc = "index_write" => call'[b].list = list[Lister(call'[b].op)]
    BY <1>3 DEF IndexIsCurrent
  <2>1. CASE b = c
    BY <1>2, <1>3, <1>4, <2>1
  <2>2. CASE b # c
    BY <1>2, <1>3, <1>7, <2>2 DEF IInv, IndexIsCurrent, Active
  <2> QED
    BY <2>1, <2>2
<1>13. RestAgrees'
  <2> SUFFICES ASSUME NEW k \in RecordKey, \A b \in Caller : ~Disturbs(b, k)'
               PROVE  InList(k)' <=> k \in records'
    BY DEF RestAgrees
  <2>1. \A b \in Caller : ~Disturbs(b, k)
    BY <1>1, <1>2 DEF Disturbs
  <2>2. InList(k)' <=> k \in records
    BY <1>3, <2>1 DEF IInv, RestAgrees, InList
  <2>3. k = op.key => op.kind = "update" /\ op.key[1] # "event-type"
    BY <1>2 DEF Disturbs
  <2>4. k \in records' <=> k \in records
    BY <1>3, <1>6, <2>3
  <2> QED
    BY <2>2, <2>4
<1>14. GoneIsGone'
  <2>1. ASSUME NEW g \in gone, NEW k \in records', Owned(k, g)
        PROVE  k = AppKey(g) /\ \E b \in Caller : Active(b) /\ call[b].op.key = AppKey(g)
    <3>1. CASE k \in records
      BY <2>1, <3>1 DEF IInv, GoneIsGone
    <3>2. CASE k \notin records
      <4>1. k = op.key
        BY <1>3, <3>2
      <4>2. g \in App
        BY <1>4, <2>1, <4>1, KeyForms DEF Owned, AppKey
      <4>3. op.key = AppKey(g)
        BY <1>1, <2>1, <4>1, <4>2, OperationScope DEF IInv, GoneIsGone
      <4> QED
        BY <1>1, <4>1, <4>3
    <3> QED
      BY <3>1, <3>2
  <2>2. \A b \in Caller : call[b].pc = "after" => call'[b] = call[b]
    BY <1>1, <1>2
  <2> QED
    BY <1>3, <1>5, <2>1, <2>2 DEF IInv, GoneIsGone
<1> QED
  BY <1>8, <1>10, <1>11, <1>12, <1>13, <1>14 DEF IInv

\* One key after the other is erased; the last one leaves nothing of the application.
LEMMA EraseKeeps ==
    ASSUME IInv, Shape', LogsAreTrue', NEW c \in Caller, Erase(c)
    PROVE  IInv'
<1> DEFINE op == call[c].op
           a == op.key[2]
           todo == call[c].todo
<1>1. Active(c) /\ op \in Operation /\ call \in [Caller -> CallRecord] /\ call[c].pc = "erase"
  BY DEF Erase, Active, IInv, Shape
<1>2. PICK k \in todo :
        /\ records' = records \ {k}
        /\ list' = IF k[1] = "list" THEN [list EXCEPT ![k[2]] = {}] ELSE list
        /\ log' = IF k[1] = "log" THEN [log EXCEPT ![k[2]] = {}] ELSE log
        /\ restored' = IF k[1] = "log" THEN restored \ {k[2]} ELSE restored
        /\ call' = [call EXCEPT ![c].todo = @ \ {k}, ![c].pc = IF todo = {k} THEN "index_read" ELSE "erase"]
  BY DEF Erase
<1>3. UNCHANGED gone
  BY DEF Erase
<1>4. ErasureListed(c)
  BY <1>1 DEF IInv, ErasureIsWhole
<1>5. a \in App /\ op.key = AppKey(a) /\ op.key \in RecordKey /\ k \in Erasable(a) /\ op.kind = "delete"
  BY <1>1, <1>4, OperationScope, KeyForms DEF ErasureListed
<1>6. /\ call' \in [Caller -> CallRecord] /\ \A b \in Caller \ {c} : call'[b] = call[b]
      /\ call'[c].pc = (IF todo = {k} THEN "index_read" ELSE "erase")
      /\ call'[c].op = op /\ call'[c].todo = todo \ {k}
  BY <1>1, <1>2 DEF CallRecord, CallPc
<1>7. \A b \in Caller : (Active(b)' <=> Active(b)) /\ call'[b].op = call[b].op
  BY <1>1, <1>6 DEF Active
<1>8. /\ list' \in [ListKey -> SUBSET Subject]
      /\ \A l \in ListKey : l # a => list'[l] = list[l]
      /\ list'[a] = IF k = <<"list", a>> THEN {} ELSE list[a]
      /\ \A l \in ListKey : list'[l] \subseteq list[l]
  <2>1. a \in ListKey /\ (k[1] = "list" <=> k = <<"list", a>>)
    BY <1>5 DEF ListKey, Erasable, AppKey, EndpointKey
  <2> HIDE DEF a
  <2> QED
    BY <1>2, <2>1 DEF IInv, Shape
<1>9. /\ \A l \in LogKey : l # a => log'[l] = log[l]
      /\ log'[a] = IF k = <<"log", a>> THEN {} ELSE log[a]
      /\ restored' = IF k = <<"log", a>> THEN restored \ {a} ELSE restored
  <2>1. a \in LogKey /\ (k[1] = "log" <=> k = <<"log", a>>)
    BY <1>5 DEF LogKey, Erasable, AppKey, EndpointKey
  <2>2. k[1] = "log" => k[2] = a
    BY <2>1
  <2> HIDE DEF a
  <2>3. restored' = IF k = <<"log", a>> THEN restored \ {a} ELSE restored
    BY <1>2, <2>1, <2>2
  <2>4. log' = IF k = <<"log", a>> THEN [log EXCEPT ![a] = {}] ELSE log
    BY <1>2, <2>1, <2>2
  <2> QED
    BY <2>1, <2>3, <2>4 DEF IInv, Shape
<1>10. \A j \in RecordKey : j = k => Owned(j, a)
  BY <1>5 DEF Erasable, RecordKey, Owned, AppKey, TypeKey, EndpointKey
<1>11. ASSUME NEW b \in Caller \ {c}, Active(b)
       PROVE  /\ call[b].op \in Operation /\ call[b].op.key \in RecordKey
              /\ ~Owned(call[b].op.key, a) /\ call[b].op.key # k /\ Lister(call[b].op) # a
  <2>1. call[b].op \in Operation /\ call[b].op.key \in RecordKey
    BY <1>11, OperationScope DEF IInv, Shape
  <2>2. ~Owned(call[b].op.key, a)
    BY <1>1, <1>5, <1>11, KeysApart DEF IInv, Owned
  <2>3. Lister(call[b].op) # a
    BY <1>5, <2>1, <2>2, OperationScope, KeyForms, NamesAssumption DEF Owned
  <2> QED
    BY <1>10, <2>1, <2>2, <2>3
<1> HIDE DEF a, op, todo
<1>12. Sorted' /\ CallsApart'
  BY <1>7, <1>8 DEF IInv, Sorted, CallsApart
<1>14. ChecksStillHold'
  <2> SUFFICES ASSUME NEW b \in Caller \ {c}, call[b].pc \in {"before", "write"}
               PROVE  LET o == call[b].op IN
                        /\ o.kind = "update" /\ o.key[1] # "event-type" => o.key \in records'
                        /\ o.kind = "create" /\ o.key[1] = "app" => o.key \notin records'
                        /\ call[b].pc = "write" => ~(o.kind = "delete" /\ o.key[1] = "app")
    BY <1>6 DEF ChecksStillHold
  <2>1. call[b].op.key # k
    BY <1>11 DEF Active
  <2> QED
    BY <1>2, <2>1 DEF IInv, ChecksStillHold
<1>15. ErasureIsWhole'
  <2>1. ASSUME NEW b \in Caller \ {c}, call[b].op.kind = "delete", call[b].op.key[1] = "app", Active(b)
        PROVE  /\ list'[call[b].op.key[2]] \subseteq list[call[b].op.key[2]]
               /\ log'[call[b].op.key[2]] = log[call[b].op.key[2]]
               /\ call[b].op.key[2] \in restored => call[b].op.key[2] \in restored'
    <3>1. call[b].op.key[2] \in App /\ call[b].op.key[2] # a
      BY <1>11, <2>1, KeyForms DEF Owned
    <3> QED
      BY <1>8, <1>9, <3>1 DEF ListKey, LogKey
  <2>2. ASSUME NEW b \in Caller, call'[b].pc = "erase" PROVE ErasureListed(b)'
    <3>1. CASE b = c
      <4>1. /\ list[a] # {} => <<"list", a>> \in todo
            /\ log[a] # {} => <<"log", a>> \in todo \/ a \in restored
        BY <1>4 DEF ErasureListed, a, op, todo
      <4>2. list'[a] # {} => <<"list", a>> \in todo \ {k}
        BY <1>8, <4>1
      <4>3. log'[a] # {} => <<"log", a>> \in todo \ {k} \/ a \in restored'
        BY <1>9, <4>1
      <4>4. \A j \in records' : Owned(j, a) => j \in todo \ {k}
        BY <1>2, <1>4 DEF ErasureListed, a, op, todo
      <4>5. op.kind = "delete" /\ op.key[1] = "app" /\ todo \ {k} \subseteq Erasable(a)
        BY <1>4 DEF ErasureListed, a, op, todo
      <4>6. call'[c].op.key[2] = a
        BY <1>6 DEF a
      <4> QED
        BY <1>6, <3>1, <4>2, <4>3, <4>4, <4>5, <4>6 DEF ErasureListed
    <3>2. CASE b # c
      <4>1. call'[b] = call[b] /\ Active(b) /\ ErasureListed(b)
        BY <1>6, <2>2, <3>2 DEF IInv, ErasureIsWhole, Active
      <4> QED
        BY <1>2, <2>1, <3>2, <4>1 DEF ErasureListed
    <3> QED
      BY <3>1, <3>2
  <2>3. ASSUME NEW b \in Caller, Erased(b)'
        PROVE  /\ \A j \in records' : ~Owned(j, call'[b].op.key[2])
               /\ list'[call'[b].op.key[2]] = {}
               /\ log'[call'[b].op.key[2]] # {} => call'[b].op.key[2] \in restored'
    <3>1. CASE b = c
      <4>1. todo = {k}
        BY <1>6, <2>3, <3>1 DEF Erased
      <4>2. \A j \in records' : ~Owned(j, a)
        BY <1>2, <1>4, <4>1 DEF ErasureListed, a, op, todo
      <4>3. list'[a] = {}
        BY <1>4, <1>8, <4>1 DEF ErasureListed, a, op, todo
      <4>4. log'[a] # {} => a \in restored'
        BY <1>4, <1>9, <4>1 DEF ErasureListed, a, op, todo
      <4> QED
        BY <1>6, <3>1, <4>2, <4>3, <4>4 DEF a
    <3>2. CASE b # c
      <4>1. call'[b] = call[b] /\ Active(b) /\ Erased(b)
        BY <1>6, <2>3, <3>2 DEF Erased, Active
      <4>2. /\ \A j \in records : ~Owned(j, call[b].op.key[2])
            /\ list[call[b].op.key[2]] = {}
            /\ log[call[b].op.key[2]] # {} => call[b].op.key[2] \in restored
        BY <4>1 DEF IInv, ErasureIsWhole
      <4>3. /\ list'[call[b].op.key[2]] \subseteq list[call[b].op.key[2]]
            /\ log'[call[b].op.key[2]] = log[call[b].op.key[2]]
            /\ call[b].op.key[2] \in restored => call[b].op.key[2] \in restored'
        BY <2>1, <3>2, <4>1 DEF Erased
      <4> QED
        BY <1>2, <4>1, <4>2, <4>3
    <3> QED
      BY <3>1, <3>2
  <2> QED
    BY <2>2, <2>3 DEF ErasureIsWhole
<1>16. IndexIsCurrent'
  <2> SUFFICES ASSUME NEW b \in Caller
               PROVE  /\ call'[b].pc \in {"index_read", "index_write"} =>
                            (call'[b].op.key \in records' <=> call'[b].op.kind # "delete")
                      /\ call'[b].pc = "index_write" => call'[b].list = list'[Lister(call'[b].op)]
    BY DEF IndexIsCurrent
  <2>1. CASE b = c
    <3>1. call'[c].pc # "index_write" /\ (call'[c].pc = "index_read" => todo = {k})
      BY <1>6
    <3>2. todo = {k} => op.key \notin records'
      BY <1>2, <1>4, <1>5 DEF ErasureListed, Owned, a, op, todo
    <3> QED
      BY <1>5, <1>6, <2>1, <3>1, <3>2
  <2>2. CASE b # c
    <3>1. call'[b].pc \in {"index_read", "index_write"} =>
            /\ call'[b] = call[b] /\ call[b].op.key # k
            /\ list'[Lister(call[b].op)] = list[Lister(call[b].op)]
      BY <1>6, <1>8, <1>11, <2>2, OperationScope DEF Active
    <3> QED
      BY <1>2, <2>2, <3>1 DEF IInv, IndexIsCurrent
  <2> QED
    BY <2>1, <2>2
<1>17. RestAgrees'
  <2> SUFFICES ASSUME NEW j \in RecordKey, \A b \in Caller : ~Disturbs(b, j)'
               PROVE  InList(j)' <=> j \in records'
    BY DEF RestAgrees
  <2>1. j # op.key
    BY <1>6 DEF Disturbs
  <2>2. CASE Owned(j, a)
    <3>1. todo = {k}
      BY <1>6, <2>2 DEF Disturbs, a
    <3>2. list'[a] = {} /\ j \notin records'
      BY <1>2, <1>4, <1>8, <2>2, <3>1 DEF ErasureListed, a, op, todo
    <3>3. ListOf(j) = a
      BY <1>5, <2>1, <2>2, KeyForms DEF Owned
    <3> QED
      BY <3>2, <3>3 DEF InList
  <2>3. CASE ~Owned(j, a)
    <3>1. \A b \in Caller : ~Disturbs(b, j)
      BY <1>6, <2>1, <2>3 DEF Disturbs, a, op
    <3>2. ListOf(j) # a /\ ListOf(j) \in ListKey
      BY <1>5, <2>3, KeyForms, ListsOfOneKind, NamesAssumption DEF Owned
    <3>3. j # k
      BY <1>10, <2>3
    <3> QED
      BY <1>2, <1>8, <3>1, <3>2, <3>3 DEF IInv, RestAgrees, InList
  <2> QED
    BY <2>2, <2>3
<1>18. GoneIsGone'
  <2>1. a \notin gone
    BY <1>1, <1>5, OperationScope DEF IInv, GoneIsGone, Owned, op
  <2>2. ASSUME NEW g \in gone, g \in App
        PROVE  list'[g] = list[g] /\ log'[g] = log[g] /\ (g \in restored => g \in restored')
    BY <1>8, <1>9, <2>1, <2>2 DEF ListKey, LogKey
  <2>3. \A b \in Caller : call[b].pc = "after" => call'[b] = call[b]
    BY <1>1, <1>6
  <2>4. ASSUME NEW g \in gone
        PROVE  /\ \A b \in Caller : Active(b)' /\ g \in AppsOf(call'[b].op) =>
                    call'[b].op.kind = "create" /\ call'[b].op.key = AppKey(g)
               /\ \A j \in records' : Owned(j, g) =>
                    j = AppKey(g) /\ \E b \in Caller : Active(b)' /\ call'[b].op.key = AppKey(g)
    BY <1>2, <1>7, <2>4 DEF IInv, GoneIsGone
  <2>5. ASSUME NEW g \in gone
        PROVE  /\ list'[g] = {}
               /\ log'[g] # {} =>
                    g \in restored' \/ \E b \in Caller : call'[b].pc = "after" /\ call'[b].op.key = AppKey(g)
    BY <2>2, <2>3, <2>5 DEF IInv, GoneIsGone, Shape
  <2> QED
    BY <1>3, <2>4, <2>5 DEF GoneIsGone
<1> QED
  BY <1>12, <1>14, <1>15, <1>16, <1>17, <1>18 DEF IInv

------------------------------------------------------------------------------
(* The other steps *)

\* What the workers and the audit pass do beside the calls.
LEMMA OthersKeep ==
    ASSUME IInv, Shape', LogsAreTrue', OthersStep, HasCompareAndSwap
    PROVE  IInv'
<1>1. UNCHANGED <<records, list, call, gone>> /\ restored \subseteq restored'
  BY DEF OthersStep
<1>2. Sorted' /\ CallsApart' /\ ChecksStillHold' /\ IndexIsCurrent'
  BY <1>1 DEF IInv, Sorted, CallsApart, ChecksStillHold, IndexIsCurrent, Active
<1>3. RestAgrees'
  BY <1>1 DEF IInv, RestAgrees, Disturbs, InList
<1>4. \A a \in App : log'[a] # {} => log[a] # {} \/ a \in restored'
  BY DEF OthersStep
<1>5. GoneIsGone'
  BY <1>1, <1>4 DEF IInv, GoneIsGone, Active, Shape
<1>6. ErasureIsWhole'
  <2>1. ASSUME NEW c \in Caller, call[c].pc # "idle", call[c].op.key[1] = "app"
        PROVE  call[c].op.key[2] \in App
    BY <2>1, CallShape, KeyForms DEF IInv, Active
  <2>2. ASSUME NEW c \in Caller, call[c].pc = "erase" PROVE ErasureListed(c)'
    <3>1. ErasureListed(c)
      BY <2>2 DEF IInv, ErasureIsWhole
    <3>2. call[c].op.key[2] \in App
      BY <2>1, <2>2, <3>1 DEF ErasureListed
    <3> QED
      BY <1>1, <1>4, <3>1, <3>2 DEF ErasureListed
  <2>3. ASSUME NEW c \in Caller, Erased(c)
        PROVE  /\ \A k \in records : ~Owned(k, call[c].op.key[2])
               /\ list[call[c].op.key[2]] = {}
               /\ log'[call[c].op.key[2]] # {} => call[c].op.key[2] \in restored'
    <3>1. call[c].op.key[2] \in App
      BY <2>1, <2>3 DEF Erased
    <3> QED
      BY <1>1, <1>4, <2>3, <3>1 DEF IInv, ErasureIsWhole
  <2> QED
    BY <1>1, <2>2, <2>3 DEF ErasureIsWhole, Erased
<1> QED
  BY <1>2, <1>3, <1>5, <1>6 DEF IInv

LEMMA NextKeeps ==
    ASSUME IInv, [Next]_vars, HasCompareAndSwap
    PROVE  IInv'
<1>1. Shape' /\ LogsAreTrue'
  BY LogsKeep DEF IInv
<1>2. ASSUME NEW c \in Caller, Proceed(c) PROVE IInv'
  BY <1>1, <1>2, BeforeHookKeeps, WriteKeeps, EraseKeeps, IndexReadKeeps, IndexWriteKeeps, AuditReadKeeps,
     AuditWriteKeeps, AfterHookKeeps
  DEF Proceed
<1>3. ASSUME NEW c \in Caller, NEW op \in Operation, Begin(c, op) PROVE IInv'
  BY <1>1, <1>3, BeginKeeps
<1>4. ASSUME NEW w \in Worker, NEW d \in Delivery, Work(w, d) \/ PublishReads(w, d) PROVE IInv'
  BY <1>1, <1>4, WorkerKeepsLogs, OthersKeep DEF IInv
<1>5. CASE PruneRead \/ PruneWrite
  BY <1>1, <1>5, PassKeepsLogs, OthersKeep DEF IInv
<1>6. CASE UNCHANGED vars
  <2>1. OthersStep
    BY <1>6 DEF vars, OthersStep
  <2> QED
    BY <1>1, <2>1, OthersKeep
<1> QED
  BY <1>2, <1>3, <1>4, <1>5, <1>6 DEF Next

------------------------------------------------------------------------------
(* Theorems *)

\* No audit log ever names a change that was not made (appendAudit and pruneAuditLog of
\* src/core.ts): a log that a call read and writes back, or that an audit pass cut and writes
\* over it, holds only changes that some call had written to its record before.
THEOREM AuditLogsAreTrue == Spec => []AuditIsTrue
<1>1. Init => Shape /\ LogsAreTrue
  BY InitIInv DEF IInv
<1>2. Shape /\ LogsAreTrue => AuditIsTrue
  BY DEF LogsAreTrue, AuditIsTrue
<1>3. Shape /\ LogsAreTrue /\ [Next]_vars => Shape' /\ LogsAreTrue'
  BY LogsKeep
<1> QED
  BY <1>1, <1>2, <1>3, PTL DEF Spec

\* The variables of the control plane hold what their declarations say (src/core.ts): keys of the
\* three kinds of records, ids in lists, changes in logs, and a delivery one of its statuses.
THEOREM ControlPlaneTypes == Spec => []RegistryTypeOK
<1> DEFINE Rest ==
        /\ delivery \in [Delivery -> {"none", "pending", "delivering", "succeeded", "failed"}]
        /\ calls \in 0 .. MaxCalls
        /\ committed \subseteq Operation /\ restored \subseteq App
<1>1. Init => Shape /\ LogsAreTrue /\ Rest
  BY InitIInv, CallBoundAssumption DEF IInv, Init
<1>2. Shape /\ Rest => RegistryTypeOK
  BY DEF Shape, RegistryTypeOK, CallRecord, JobRecord, PassRecord, Active
<1>3. Shape /\ LogsAreTrue /\ Rest /\ [Next]_vars => Shape' /\ LogsAreTrue' /\ Rest'
  <2> SUFFICES ASSUME Shape, LogsAreTrue, Rest, [Next]_vars PROVE Rest'
    BY LogsKeep
  <2>1. ASSUME NEW c \in Caller, Proceed(c) PROVE Rest'
    <3>1. CASE BeforeHook(c) \/ IndexRead(c) \/ IndexWrite(c) \/ AuditRead(c) \/ AuditWrite(c) \/ AfterHook(c)
      BY <3>1 DEF BeforeHook, IndexRead, IndexWrite, AuditRead, AuditWrite, AfterHook, DataOnly
    <3>2. CASE Write(c)
      <4>1. call[c].op \in Operation
        BY <3>2 DEF Write, Shape, Active
      <4> QED
        BY <3>2, <4>1 DEF Write, DataOnly
    <3>3. CASE Erase(c)
      <4>1. call[c].op \in Operation
        BY <3>3 DEF Erase, Shape, Active
      <4>2. restored' \subseteq restored
        BY <3>3 DEF Erase
      <4>3. delivery' \in [Delivery -> {"none", "pending", "delivering", "succeeded", "failed"}]
        BY <3>3 DEF Erase
      <4> QED
        BY <3>3, <4>1, <4>2, <4>3 DEF Erase
    <3> QED
      BY <2>1, <3>1, <3>2, <3>3 DEF Proceed
  <2>2. ASSUME NEW c \in Caller, NEW op \in Operation, Begin(c, op) PROVE Rest'
    BY <2>2, CallBoundAssumption DEF Begin, DataOnly
  <2>3. ASSUME NEW w \in Worker, NEW d \in Delivery, Work(w, d) \/ PublishReads(w, d) PROVE Rest'
    <3>1. CASE PublishReads(w, d) \/ PublishWrites(w, d) \/ Claim(w, d) \/ ReadsEndpoint(w, d) \/ NoteReads(w, d)
      BY <3>1 DEF PublishReads, PublishWrites, Claim, ReadsEndpoint, NoteReads, callVars
    <3>2. CASE Records(w, d)
      BY <3>2 DEF Records, Outcomes, callVars
    <3>3. CASE NoteWrites(w, d)
      <4>1. Disabling(EndpointOf[d]) \in Operation
        BY OwnerAssumption DEF Disabling, Operation, RecordKey
      <4> QED
        BY <3>3, <4>1 DEF NoteWrites
    <3>4. CASE NoteAudit(w, d)
      BY <3>4 DEF NoteAudit, Restored
    <3> QED
      BY <2>3, <3>1, <3>2, <3>3, <3>4 DEF Work
  <2>4. CASE PruneRead \/ PruneWrite
    BY <2>4 DEF PruneRead, PruneWrite, Restored, callVars
  <2>5. CASE UNCHANGED vars
    BY <2>5 DEF vars
  <2> QED
    BY <2>1, <2>2, <2>3, <2>4, <2>5 DEF Next
<1> QED
  BY <1>1, <1>2, <1>3, PTL DEF Spec

\* The applications, event types and endpoints that exist are those the lists name, as soon as no
\* call that writes the list is under way: after any number of calls, denied or carried through,
\* among them deletions of whole applications, that are kept apart as Apart says.
THEOREM ListsAgreeWithRecords ==
    ASSUME HasCompareAndSwap
    PROVE  Spec => []ListsAgree
<1>1. IInv => ListsAgree
  <2> SUFFICES ASSUME IInv PROVE ListsAgree
    OBVIOUS
  <2>1. \A c \in Caller : call[c].pc # "idle" => Active(c) /\ call[c].op \in Operation
    BY DEF IInv, Shape, Active
  <2>2. ASSUME NEW k \in RecordKey, \A c \in Caller : Active(c) => Lister(call[c].op) # ListOf(k),
               k[1] \in {"app", "event-type"}
        PROVE  InList(k) <=> k \in records
    <3>1. \A c \in Caller : Disturbs(c, k) => Active(c) /\ k = call[c].op.key
      <4> SUFFICES ASSUME NEW c \in Caller, Disturbs(c, k), k # call[c].op.key PROVE FALSE
        BY <2>1 DEF Disturbs
      <4>1. call[c].pc = "erase" /\ Owned(k, call[c].op.key[2])
        BY DEF Disturbs
      <4>2. k = AppKey(call[c].op.key[2])
        BY <2>2, <4>1 DEF Owned
      <4>3. call[c].op.key[1] = "app" /\ call[c].op.key \in RecordKey
        BY <2>1, <4>1, OperationScope DEF IInv, ErasureIsWhole, ErasureListed
      <4> QED
        BY <4>2, <4>3, KeyForms
    <3>2. ASSUME NEW c \in Caller, Disturbs(c, k) PROVE FALSE
      <4>1. Active(c) /\ k = call[c].op.key /\ call[c].op \in Operation
        BY <2>1, <3>1, <3>2 DEF Active
      <4>2. Lister(call[c].op) = ListOf(k)
        BY <4>1, OperationScope
      <4> QED
        BY <2>2, <4>1, <4>2
    <3> QED
      BY <3>2 DEF IInv, RestAgrees
  <2>3. (\A c \in Caller : Active(c) => Lister(call[c].op) # "apps") => list["apps"] = IdsOf("app")
    <3> SUFFICES ASSUME \A c \in Caller : Active(c) => Lister(call[c].op) # "apps"
                 PROVE  list["apps"] = IdsOf("app")
      OBVIOUS
    <3>1. ASSUME NEW x \in list["apps"] PROVE x \in IdsOf("app")
      <4>1. PICK k \in RecordKey : ListOf(k) = "apps" /\ k[2] = x
        BY <3>1 DEF IInv, Sorted, ListKey
      <4>2. k[1] = "app"
        BY <4>1, KeyForms, NamesAssumption
      <4> QED
        BY <2>2, <4>1, <4>2 DEF InList, IdsOf
    <3>2. ASSUME NEW x \in IdsOf("app") PROVE x \in list["apps"]
      <4>1. PICK k \in records : k[1] = "app" /\ k[2] = x
        BY <3>2 DEF IdsOf
      <4>2. k \in RecordKey /\ ListOf(k) = "apps"
        BY <4>1, KeyForms DEF IInv, Shape
      <4> QED
        BY <2>2, <4>1, <4>2 DEF InList
    <3> QED
      BY <3>1, <3>2
  <2>4. (\A c \in Caller : Active(c) => Lister(call[c].op) # "types") => list["types"] = IdsOf("event-type")
    <3> SUFFICES ASSUME \A c \in Caller : Active(c) => Lister(call[c].op) # "types"
                 PROVE  list["types"] = IdsOf("event-type")
      OBVIOUS
    <3>1. ASSUME NEW x \in list["types"] PROVE x \in IdsOf("event-type")
      <4>1. PICK k \in RecordKey : ListOf(k) = "types" /\ k[2] = x
        BY <3>1 DEF IInv, Sorted, ListKey
      <4>2. k[1] = "event-type"
        BY <4>1, KeyForms, NamesAssumption
      <4> QED
        BY <2>2, <4>1, <4>2 DEF InList, IdsOf
    <3>2. ASSUME NEW x \in IdsOf("event-type") PROVE x \in list["types"]
      <4>1. PICK k \in records : k[1] = "event-type" /\ k[2] = x
        BY <3>2 DEF IdsOf
      <4>2. k \in RecordKey /\ ListOf(k) = "types"
        BY <4>1, KeyForms DEF IInv, Shape
      <4> QED
        BY <2>2, <4>1, <4>2 DEF InList
    <3> QED
      BY <3>1, <3>2
  <2>5. ASSUME NEW a \in App, \A c \in Caller : Active(c) => a \notin AppsOf(call[c].op)
        PROVE  list[a] = {e \in IdsOf("endpoint") : AppOf[e] = a}
    <3>1. ASSUME NEW k \in RecordKey, Owned(k, a), k[1] = "endpoint" PROVE InList(k) <=> k \in records
      <4>1. ASSUME NEW c \in Caller, Disturbs(c, k) PROVE FALSE
        <5>1. Active(c) /\ call[c].op \in Operation /\ call[c].op.key \in RecordKey
          BY <2>1, <4>1, OperationScope DEF Disturbs
        <5>2. CASE k = call[c].op.key
          BY <2>5, <3>1, <5>1, <5>2, OperationScope
        <5>3. CASE call[c].pc = "erase" /\ Owned(k, call[c].op.key[2])
          <6>1. call[c].op.key = AppKey(call[c].op.key[2])
            BY <5>1, <5>3, KeyForms DEF IInv, ErasureIsWhole, ErasureListed
          <6>2. call[c].op.key[2] = a
            BY <3>1, <5>3 DEF Owned, AppKey
          <6> QED
            BY <2>5, <5>1, <6>1, <6>2, OperationScope DEF Owned
        <5> QED
          BY <4>1, <5>2, <5>3 DEF Disturbs
      <4> QED
        BY <4>1 DEF IInv, RestAgrees
    <3>2. ASSUME NEW x \in list[a] PROVE x \in IdsOf("endpoint") /\ AppOf[x] = a
      <4>1. PICK k \in RecordKey : ListOf(k) = a /\ k[2] = x
        BY <3>2 DEF IInv, Sorted, ListKey
      <4>2. k[1] = "endpoint" /\ AppOf[x] = a
        BY <4>1, KeyForms, NamesAssumption
      <4> QED
        BY <3>1, <3>2, <4>1, <4>2 DEF InList, IdsOf, Owned
    <3>3. ASSUME NEW x \in IdsOf("endpoint"), AppOf[x] = a PROVE x \in list[a]
      <4>1. PICK k \in records : k[1] = "endpoint" /\ k[2] = x
        BY <3>3 DEF IdsOf
      <4>2. k \in RecordKey /\ ListOf(k) = a
        BY <3>3, <4>1, KeyForms DEF IInv, Shape
      <4> QED
        BY <3>1, <3>3, <4>1, <4>2 DEF InList, Owned
    <3> QED
      BY <3>2, <3>3
  <2> QED
    BY <2>3, <2>4, <2>5 DEF ListsAgree
<1>2. IInv /\ [Next]_vars => IInv'
  BY NextKeeps
<1> QED
  BY InitIInv, <1>1, <1>2, PTL DEF Spec

\* deleteApplication leaves no record and no list of the application, and none appears until it
\* is created anew: what it lists under the prefix is everything, because the calls that could add
\* to it are kept apart from it and refused once the record of the application is gone, and a
\* worker's note of an outcome finds no record to swap. Its log is erased as well; that of a
\* deleted application is there only if an audit pass or a worker wrote it after that.
THEOREM DeletionIsComplete ==
    ASSUME HasCompareAndSwap
    PROVE  Spec => []NothingLeftToCall
<1>1. IInv => NothingLeftToCall
  <2> SUFFICES ASSUME IInv, NEW a \in gone,
                      \A c \in Caller : Active(c) => a \notin AppsOf(call[c].op)
               PROVE  /\ \A k \in records : a \notin AppsOf([kind |-> "update", key |-> k])
                      /\ list[a] = {}
                      /\ log[a] # {} => a \in restored
    BY DEF NothingLeftToCall
  <2>1. a \in App
    BY DEF IInv, Shape
  <2>2. ASSUME NEW c \in Caller, Active(c) PROVE call[c].op.key # AppKey(a)
    BY <2>1, <2>2, OperationScope DEF Owned, IInv, Shape
  <2>3. ASSUME NEW k \in records, a \in AppsOf([kind |-> "update", key |-> k]) PROVE FALSE
    <3>1. k \in RecordKey /\ [kind |-> "update", key |-> k] \in Operation
      BY DEF IInv, Shape, Operation
    <3>2. Owned(k, a)
      BY <2>1, <2>3, <3>1, OperationScope
    <3> QED
      BY <2>2, <3>2 DEF IInv, GoneIsGone
  <2>4. log[a] # {} => a \in restored
    BY <2>2 DEF IInv, GoneIsGone, Active
  <2> QED
    BY <2>3, <2>4 DEF IInv, GoneIsGone
<1>2. IInv /\ [Next]_vars => IInv'
  BY NextKeeps
<1> QED
  BY InitIInv, <1>1, <1>2, PTL DEF Spec

===============================================================================
