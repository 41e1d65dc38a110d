------------------------------ MODULE MessageStore ------------------------------
(***************************************************************************)
(* Messages: publish with its idempotency keys and its fan-out, retention  *)
(* (prune) and replay, all in core.ts, one storage call per action. What a *)
(* dispatcher does with a delivery, and the write of a record with its due *)
(* entry, are one step here: DeliveryQueue has them call by call. The      *)
(* by-endpoint index, which retention does not read, is left out.          *)
(***************************************************************************)
EXTENDS Integers, FiniteSets

CONSTANTS
    Publisher,          \* publish calls in progress
    Pruner,             \* processes that prune (one pass at a time in each)
    Key,                \* idempotency keys
    NoKey,              \* no idempotency key given
    Payload,            \* payloads, which only calls with a key compare
    NoPayload,          \* the payload of a call without one
    Endpoint,           \* the enabled endpoints that match
    KeepLast,           \* retention.messages.keepLast, or NoRule
    MaxAge,             \* retention.messages.maxAge, or NoRule
    Sequential,         \* a key is published again only after the call before ended
    Prompt,             \* a publish call is over before its message is MaxAge old
    CrashPoints,        \* steps before which a process may die or a call reject
    MaxMessages,        \* bound on messages
    MaxReplays,         \* bound on replays
    MaxTime             \* bound on the clock

NoRule == -1

ASSUME RetentionAssumption == KeepLast \in Nat \cup {NoRule} /\ MaxAge \in Nat \cup {NoRule}
ASSUME KeyAssumption == NoKey \notin Key /\ NoPayload \notin Payload
ASSUME BoundAssumption == MaxMessages \in Nat /\ MaxReplays \in Nat /\ MaxTime \in Nat
ASSUME SwitchAssumption == Sequential \in BOOLEAN /\ Prompt \in BOOLEAN

VARIABLES
    clock,
    messages,           \* ids of the messages stored
    about,              \* per id: what the message says
    idem,               \* per key: the id stored under it, or NoMessage
    status,             \* per delivery: its record's status
    due,                \* deliveries with a due entry
    byMessage,          \* deliveries in the by-message index
    pub,                \* per publisher: the call it is in
    pruning,            \* per pruner: the pass it is in
    replay,             \* deliveries a retryDelivery has read and not yet written
    answered,           \* messages some publish call has returned
    pruned,             \* deliveries removed by a pass
    replayed            \* deliveries ever replayed

queue == <<status, due, byMessage>>
store == <<messages, about, idem>>
vars == <<clock, store, queue, pub, pruning, replay, answered, pruned, replayed>>

------------------------------------------------------------------------------
(* Types *)

MessageId == 1 .. MaxMessages
NoMessage == 0
NoTime == -1
Delivery == MessageId \X Endpoint

Message == [key: Key \cup {NoKey}, payload: Payload \cup {NoPayload}, createdAt: Nat \cup {NoTime}]

Status == {"none", "pending", "succeeded", "failed"}
Terminal == {"succeeded", "failed"}

PubPc == {"idle", "lookup", "existing", "hook", "message", "key", "record",
          "by_message", "return"}
Pub == [pc: PubPc, key: Key \cup {NoKey}, payload: Payload \cup {NoPayload}, id: 0 .. MaxMessages,
        left: SUBSET Endpoint, at: SUBSET Endpoint]

PrunePc == {"idle", "list", "check", "un_message", "un_record", "un_key", "un_store"}
Pass == [pc: PrunePc, todo: SUBSET MessageId, id: 0 .. MaxMessages, left: SUBSET Delivery,
         doomed: SUBSET Delivery]



IdlePub == [pc |-> "idle", key |-> NoKey, payload |-> NoPayload,
            id |-> NoMessage, left |-> {}, at |-> {}]
IdlePass == [pc |-> "idle", todo |-> {}, id |-> NoMessage, left |-> {},
             doomed |-> {}]

Blank == [key |-> NoKey, payload |-> NoPayload, createdAt |-> NoTime]

\* The types; and a key names a message that carries it, no message is younger
\* than the clock.
MsgTypeOK ==
    /\ clock \in Nat
    /\ messages \subseteq MessageId
    /\ about \in [MessageId -> Message]
    /\ \A m \in MessageId : about[m].createdAt <= clock
    /\ idem \in [Key -> 0 .. MaxMessages]
    /\ \A k \in Key : idem[k] # NoMessage => about[idem[k]].key = k
    /\ status \in [Delivery -> Status]
    /\ due \subseteq Delivery
    /\ byMessage \subseteq Delivery
    /\ pub \in [Publisher -> Pub]
    /\ pruning \in [Pruner -> Pass]
    /\ replay \subseteq Delivery
    /\ answered \subseteq MessageId
    /\ pruned \subseteq Delivery
    /\ replayed \subseteq Delivery

Init ==
    /\ clock = 0
    /\ messages = {}
    /\ about = [m \in MessageId |-> Blank]
    /\ idem = [k \in Key |-> NoMessage]
    /\ status = [d \in Delivery |-> "none"]
    /\ due = {} /\ byMessage = {}
    /\ pub = [p \in Publisher |-> IdlePub]
    /\ pruning = [r \in Pruner |-> IdlePass]
    /\ replay = {}
    /\ answered = {} /\ pruned = {} /\ replayed = {}

Of(m) == {d \in Delivery : d[1] = m}

------------------------------------------------------------------------------
(* publish *)

AtPub(p, step) == pub[p].pc = step

SetPub(p, next) == pub' = [pub EXCEPT ![p] = next]

PubGoto(p, step) == SetPub(p, [pub[p] EXCEPT !.pc = step])

\* The call returns, with a message or with an error.
Answer(p, returned) ==
    /\ SetPub(p, IdlePub)
    /\ answered' = answered \cup returned

\* Everything but publish, the store, the queue.
PubRest == UNCHANGED <<clock, pruning, replay, pruned, replayed>>

\* Ids are never used twice.
Used == {m \in MessageId : about[m] # Blank}

PubBegin(p, key, payload) ==
    /\ AtPub(p, "idle")
    /\ (key = NoKey) = (payload = NoPayload)
    /\ Sequential /\ key # NoKey => \A q \in Publisher : pub[q].key # key
    /\ SetPub(p, [IdlePub EXCEPT !.pc = IF key = NoKey THEN "hook" ELSE "lookup",
                                 !.key = key, !.payload = payload])
    /\ UNCHANGED <<store, queue, answered>>
    /\ PubRest

\* The id under the key.
PubLookup(p) ==
    LET id == idem[pub[p].key] IN
    /\ AtPub(p, "lookup")
    /\ SetPub(p, [pub[p] EXCEPT !.pc = IF id = NoMessage THEN "hook" ELSE "existing",
                                !.id = id])
    /\ UNCHANGED <<store, queue, answered>>
    /\ PubRest

\* The message with that id: gone, in conflict, or the same.
PubExisting(p) ==
    LET id == pub[p].id IN
    /\ AtPub(p, "existing")
    /\ IF id \notin messages
       THEN SetPub(p, [pub[p] EXCEPT !.pc = "hook", !.id = NoMessage]) /\ UNCHANGED answered
       ELSE IF about[id].payload # pub[p].payload
       THEN Answer(p, {})
       ELSE Answer(p, {id})
    /\ UNCHANGED <<store, queue>>
    /\ PubRest

\* A before hook that denies the call ends it.
PubDenied(p) ==
    /\ AtPub(p, "hook")
    /\ Answer(p, {})
    /\ UNCHANGED <<store, queue>>
    /\ PubRest

\* Mutant: createdAt is whatever timestamp the caller gives.
CreatedAtCallers == clock + 1

CreatedAt == clock

\* The message is made and the endpoints are read.
PubHook(p) ==
    \E m \in MessageId :
        /\ AtPub(p, "hook")
        /\ m \notin Used
        /\ \A n \in MessageId \ Used : m <= n
        /\ about' = [about EXCEPT ![m] = [key |-> pub[p].key, payload |-> pub[p].payload,
                                          createdAt |-> CreatedAt]]
        /\ SetPub(p, [pub[p] EXCEPT !.pc = "message", !.id = m, !.left = Endpoint])
        /\ UNCHANGED <<messages, idem, queue, answered>>
        /\ PubRest

PubMessage(p) ==
    /\ AtPub(p, "message")
    /\ messages' = messages \cup {pub[p].id}
    /\ PubGoto(p, IF pub[p].key = NoKey THEN "record" ELSE "key")
    /\ UNCHANGED <<about, idem, queue, answered>>
    /\ PubRest

\* Mutant: the key is never written.
PubKeySkipped(p) ==
    /\ AtPub(p, "key")
    /\ PubGoto(p, "record")
    /\ UNCHANGED <<store, queue, answered>>
    /\ PubRest

PubKey(p) ==
    /\ AtPub(p, "key")
    /\ idem' = [idem EXCEPT ![pub[p].key] = pub[p].id]
    /\ PubGoto(p, "record")
    /\ UNCHANGED <<messages, about, queue, answered>>
    /\ PubRest

\* The fan-out: record and due entry of the next delivery (writeDeliveryWithDue).
\* The order of the endpoints is left open.
PubRecord(p) ==
    /\ AtPub(p, "record")
    /\ \E e \in pub[p].left :
        /\ status' = [status EXCEPT ![<<pub[p].id, e>>] = "pending"]
        /\ due' = due \cup {<<pub[p].id, e>>}
        /\ SetPub(p, [pub[p] EXCEPT !.pc = "by_message", !.left = @ \ {e}, !.at = {e}])
    /\ UNCHANGED <<store, byMessage, answered>>
    /\ PubRest

\* Mutant: the fan-out ends with the first endpoint.
AfterEndpointEarly(p) == "return"

AfterEndpoint(p) == IF pub[p].left = {} THEN "return" ELSE "record"

\* The index entry of the delivery just written.
PubByMessage(p) ==
    /\ AtPub(p, "by_message")
    /\ byMessage' = byMessage \cup ({pub[p].id} \X pub[p].at)
    /\ SetPub(p, [pub[p] EXCEPT !.pc = AfterEndpoint(p), !.at = {}])
    /\ UNCHANGED <<store, status, due, answered>>
    /\ PubRest

PubReturn(p) ==
    /\ AtPub(p, "return")
    /\ Answer(p, {pub[p].id})
    /\ UNCHANGED <<store, queue>>
    /\ PubRest

\* The process dies, or a storage call rejects: the caller has no answer.
PubCrash(p) ==
    /\ pub[p].pc \in CrashPoints
    /\ Answer(p, {})
    /\ UNCHANGED <<store, queue>>
    /\ PubRest

Publish(p) ==
    \/ \E key \in Key \cup {NoKey}, payload \in Payload \cup {NoPayload} : PubBegin(p, key, payload)
    \/ PubLookup(p)
    \/ PubExisting(p)
    \/ PubDenied(p)
    \/ PubHook(p)
    \/ PubMessage(p)
    \/ PubKey(p)
    \/ PubRecord(p)
    \/ PubByMessage(p)
    \/ PubReturn(p)
    \/ PubCrash(p)

------------------------------------------------------------------------------
(* prune *)

AtPrune(r, step) == pruning[r].pc = step

SetPass(r, next) == pruning' = [pruning EXCEPT ![r] = next]

PruneGoto(r, step) == SetPass(r, [pruning[r] EXCEPT !.pc = step])

PruneRest == UNCHANGED <<clock, about, due, pub, replay, answered, replayed>>

\* The next message of the pass, or its end.
NextMessage(r) ==
    LET rest == pruning[r].todo \ {pruning[r].id} IN
    IF rest = {}
    THEN SetPass(r, IdlePass)
    ELSE \E m \in rest :
            SetPass(r, [pc |-> "list", todo |-> rest, id |-> m, left |-> {}, doomed |-> {}])

\* The KeepLast newest messages.
Newest(set) ==
    /\ set \subseteq messages
    /\ Cardinality(set) = IF Cardinality(messages) < KeepLast THEN Cardinality(messages)
                          ELSE KeepLast
    /\ \A m \in set, n \in messages \ set : about[m].createdAt >= about[n].createdAt

KeptByAge == IF MaxAge = NoRule THEN {}
             ELSE {m \in messages : about[m].createdAt >= clock - MaxAge}

\* The messages are read; those that a rule keeps are left out. Of messages of
\* the same time, either may be the newer.
PruneRead(r) ==
    /\ AtPrune(r, "idle")
    /\ \E newest \in SUBSET messages :
        /\ IF KeepLast = NoRule THEN newest = {} ELSE Newest(newest)
        /\ \E m \in messages \ (newest \cup KeptByAge) :
            SetPass(r, [pc |-> "list", todo |-> messages \ (newest \cup KeptByAge),
                        id |-> m, left |-> {}, doomed |-> {}])
    /\ KeepLast # NoRule \/ MaxAge # NoRule
    /\ UNCHANGED <<messages, idem, status, byMessage, pruned>>
    /\ PruneRest

\* The deliveries of the message, from the index.
PruneList(r) ==
    /\ AtPrune(r, "list")
    /\ SetPass(r, [pruning[r] EXCEPT !.pc = "check", !.left = Of(pruning[r].id) \cap byMessage])
    /\ UNCHANGED <<messages, idem, status, byMessage, pruned>>
    /\ PruneRest

\* Mutant: a message is pruned although a delivery of it is pending.
StillNeededNever(r) == FALSE

StillNeeded(r) == \E d \in pruning[r].left : status[d] = "pending"

AfterDelivery(r, left) == IF left # {} THEN "un_message"
                          ELSE IF about[pruning[r].id].key = NoKey THEN "un_store" ELSE "un_key"

\* Their records: if one is not terminal, the message stays.
PruneCheck(r) ==
    LET found == {d \in pruning[r].left : status[d] # "none"} IN
    /\ AtPrune(r, "check")
    /\ IF StillNeeded(r)
       THEN NextMessage(r)
       ELSE SetPass(r, [pruning[r] EXCEPT !.pc = AfterDelivery(r, found), !.left = found])
    /\ UNCHANGED <<messages, idem, status, byMessage, pruned>>
    /\ PruneRest

\* deleteDeliveryCascade: the index entry, then the record. (A terminal delivery
\* has no due entry to remove; attempts are left out.)
UnMessage(r) ==
    /\ AtPrune(r, "un_message")
    /\ \E d \in pruning[r].left :
        /\ byMessage' = byMessage \ {d}
        /\ SetPass(r, [pruning[r] EXCEPT !.pc = "un_record", !.doomed = {d}])
    /\ UNCHANGED <<messages, idem, status, pruned>>
    /\ PruneRest

\* Mutant: the record is left behind by the cascade.
UnRecordSkipped(r) ==
    LET rest == pruning[r].left \ pruning[r].doomed IN
    /\ AtPrune(r, "un_record")
    /\ SetPass(r, [pruning[r] EXCEPT !.pc = AfterDelivery(r, rest), !.left = rest,
                                     !.doomed = {}])
    /\ UNCHANGED <<messages, idem, status, byMessage, pruned>>
    /\ PruneRest

UnRecord(r) ==
    LET rest == pruning[r].left \ pruning[r].doomed IN
    /\ AtPrune(r, "un_record")
    /\ status' = [d \in Delivery |-> IF d \in pruning[r].doomed THEN "none" ELSE status[d]]
    /\ pruned' = pruned \cup pruning[r].doomed
    /\ SetPass(r, [pruning[r] EXCEPT !.pc = AfterDelivery(r, rest), !.left = rest,
                                     !.doomed = {}])
    /\ UNCHANGED <<messages, idem, byMessage>>
    /\ PruneRest

\* Mutant: the message is removed before its key.
UnKeyLate(r) ==
    /\ AtPrune(r, "un_key")
    /\ IF pruning[r].id \in messages
       THEN messages' = messages \ {pruning[r].id} /\ UNCHANGED <<idem, pruning>>
       ELSE /\ idem' = [idem EXCEPT ![about[pruning[r].id].key] = NoMessage]
            /\ PruneGoto(r, "un_store")
            /\ UNCHANGED messages
    /\ UNCHANGED <<status, byMessage, pruned>>
    /\ PruneRest

\* The key is removed, whatever message it names by now.
UnKey(r) ==
    /\ AtPrune(r, "un_key")
    /\ idem' = [idem EXCEPT ![about[pruning[r].id].key] = NoMessage]
    /\ PruneGoto(r, "un_store")
    /\ UNCHANGED <<messages, status, byMessage, pruned>>
    /\ PruneRest

UnStore(r) ==
    /\ AtPrune(r, "un_store")
    /\ messages' = messages \ {pruning[r].id}
    /\ NextMessage(r)
    /\ UNCHANGED <<idem, status, byMessage, pruned>>
    /\ PruneRest

\* The process dies, or a storage call rejects: the pass ends.
PruneCrash(r) ==
    /\ pruning[r].pc \in CrashPoints
    /\ SetPass(r, IdlePass)
    /\ UNCHANGED <<messages, idem, status, byMessage, pruned>>
    /\ PruneRest

Prune(r) ==
    \/ PruneRead(r)
    \/ PruneList(r)
    \/ PruneCheck(r)
    \/ UnMessage(r)
    \/ UnRecord(r)
    \/ UnKey(r)
    \/ UnStore(r)
    \/ PruneCrash(r)

------------------------------------------------------------------------------
(* Dispatchers and replay *)

\* A due delivery is attempted until it is terminal, which it is at once when the
\* message is gone; an entry without a pending delivery is swept.
Dispatch(d) ==
    /\ d \in due
    /\ due' = due \ {d}
    /\ IF status[d] = "pending"
       THEN \E outcome \in Terminal :
            /\ d[1] \notin messages => outcome = "failed"
            /\ status' = [status EXCEPT ![d] = outcome]
       ELSE UNCHANGED status
    /\ UNCHANGED <<clock, store, byMessage, pub, pruning, replay, answered,
                   pruned, replayed>>

\* retryDelivery: the record is read and found failed, the hook awaited.
ReplayRead(d) ==
    /\ status[d] = "failed"
    /\ d \notin replayed
    /\ Cardinality(replayed) < MaxReplays
    /\ replay' = replay \cup {d}
    /\ replayed' = replayed \cup {d}
    /\ UNCHANGED <<clock, store, queue, pub, pruning, answered, pruned>>

\* The record that was read is written as pending, whatever has become of it.
ReplayWrite(d) ==
    /\ d \in replay
    /\ replay' = replay \ {d}
    /\ status' = [status EXCEPT ![d] = "pending"]
    /\ due' = due \cup {d}
    /\ UNCHANGED <<clock, store, byMessage, pub, pruning, answered, pruned, replayed>>

\* Publish calls under way keep their messages young, if they are Prompt.
InTime == \A p \in Publisher :
    pub[p].pc \notin {"idle", "lookup", "existing", "hook"} =>
        clock < about[pub[p].id].createdAt + MaxAge

Tick ==
    /\ clock < MaxTime
    /\ Prompt => InTime
    /\ clock' = clock + 1
    /\ UNCHANGED <<store, queue, pub, pruning, replay, answered, pruned, replayed>>

Next ==
    \/ Tick
    \/ \E p \in Publisher : Publish(p)
    \/ \E r \in Pruner : Prune(r)
    \/ \E d \in Delivery : Dispatch(d)
    \/ \E d \in Delivery : ReplayRead(d)
    \/ \E d \in Delivery : ReplayWrite(d)

Spec == Init /\ [][Next]_vars

------------------------------------------------------------------------------
(* Properties *)

\* A pass has decided to delete this message.
Deleting(m) == \E r \in Pruner :
    pruning[r].id = m /\ pruning[r].pc \notin {"idle", "list", "check"}

\* Some publish call is still writing this message.
Publishing(m) == \E p \in Publisher : pub[p].id = m /\ pub[p].pc # "existing"

\* schema.ts Message.idempotencyKey: "same key within retention returns the same
\* message". A message stored with a key is the one its key leads to, so a repeated
\* publish finds it and no second one is stored beside it.
IdempotentOnce ==
    \A m \in messages :
        about[m].key # NoKey /\ ~Deleting(m) /\ ~(\E p \in Publisher : pub[p].id = m /\ AtPub(p, "key"))
            => idem[about[m].key] = m

\* docs/ARCHITECTURE.md: publish "fans out one pending Delivery per matching enabled
\* endpoint". Whoever was answered with a message, by the call that stored it or by
\* one that was deduplicated, can rely on its deliveries: each exists, or was
\* pruned after it ended.
AcceptedIsDelivered ==
    \A d \in Delivery : d[1] \in answered => status[d] # "none" \/ d \in pruned

\* core.ts pruneMessagesForApp: "Never prune a message the dispatcher still needs."
\* No pass removes a pending delivery, nor a message of one, nor one that is still
\* being published; only a replay that overtakes the pass can have made it pending.
NothingNeededIsPruned ==
    [][/\ \A d \in Delivery : status[d] = "pending" /\ status'[d] = "none" => d \in replayed
       /\ \A m \in messages \ messages' :
            /\ ~Publishing(m)
            /\ \A d \in Of(m) : status[d] = "pending" => d \in replayed]_vars

\* Retention reaches everything: a delivery at rest has its message and is in the
\* index that a pass finds it by. (One that a replay put back after a pass is not.)
RetentionReaches ==
    \A d \in Delivery :
        status[d] # "none" /\ ~Publishing(d[1]) /\ ~Deleting(d[1]) /\ d \notin replayed
            => d[1] \in messages /\ d \in byMessage

===============================================================================
