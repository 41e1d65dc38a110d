-------------------------- MODULE MessageStoreProofs --------------------------
(***************************************************************************)
(* Theorems about MessageStore, for every number of publishers, pruning    *)
(* processes, keys, endpoints and messages.  The rules of retention have a *)
(* maxAge where a hypothesis (KeepsPace) says so.                          *)
(***************************************************************************)
EXTENDS MessageStore, TLAPS

------------------------------------------------------------------------------
(* Types, and what the locals of a call and of a pass mean.                     *)

WritePc == {"message", "key", "record", "by_message", "return"}

\* p has made this message and is writing it.
Writing(p, m) == pub[p].pc \in WritePc /\ pub[p].id = m

Made(m) == about[m].createdAt \in Nat

CallOK(p) ==
    /\ pub[p].pc \in {"idle", "lookup", "hook"} => pub[p].id = NoMessage
    /\ pub[p].pc \in {"lookup", "existing", "key"} => pub[p].key \in Key
    /\ pub[p].pc = "existing" => pub[p].id \in MessageId /\ about[pub[p].id].key = pub[p].key
    /\ pub[p].pc \in WritePc =>
        /\ pub[p].id \in MessageId /\ Made(pub[p].id)
        /\ about[pub[p].id].key = pub[p].key
        /\ pub[p].pc = "message" => pub[p].id \notin messages
    /\ pub[p].pc = "return" => pub[p].left = {}

PassOK(r) ==
    /\ pruning[r].pc # "idle" =>
        /\ pruning[r].id \in MessageId
        /\ \A m \in pruning[r].todo \cup {pruning[r].id} : Made(m)
    /\ pruning[r].left \subseteq Of(pruning[r].id)
    /\ pruning[r].doomed \subseteq Of(pruning[r].id)
    /\ pruning[r].pc = "un_key" => about[pruning[r].id].key \in Key

Base ==
    /\ MsgTypeOK
    /\ \A m \in messages : Made(m)
    /\ \A p \in Publisher : CallOK(p)
    /\ \A p, q \in Publisher, m \in MessageId : Writing(p, m) /\ Writing(q, m) => p = q
    /\ \A r \in Pruner : PassOK(r)

LEMMA BaseInit == Init => Base
<1> SUFFICES ASSUME Init PROVE Base
  OBVIOUS
<1>1. MaxMessages \in Nat
  BY BoundAssumption
<1>2. MsgTypeOK
  BY <1>1, KeyAssumption DEF Init, MsgTypeOK, MessageId, Delivery, Message, Blank, NoTime, NoMessage, Status,
     Pub, PubPc, IdlePub, Pass, PrunePc, IdlePass
<1>3. \A p \in Publisher : CallOK(p)
  BY DEF Init, CallOK, IdlePub, WritePc
<1>4. \A r \in Pruner : PassOK(r)
  BY DEF Init, PassOK, IdlePass
<1> QED
  BY <1>2, <1>3, <1>4 DEF Init, Base, Writing, WritePc, IdlePub

\* The call of one publisher moves, and nothing that is outside of publish.
LEMMA SetPubEffect ==
    ASSUME Base, NEW p \in Publisher, NEW c \in Pub, SetPub(p, c)
    PROVE  /\ pub' \in [Publisher -> Pub] /\ pub'[p] = c
           /\ \A q \in Publisher : q # p => pub'[q] = pub[q]
BY DEF Base, MsgTypeOK, SetPub

LEMMA IdlePubType == IdlePub \in Pub
BY BoundAssumption DEF IdlePub, Pub, PubPc, NoMessage

LEMMA PubEffect ==
    ASSUME Base, NEW p \in Publisher, Publish(p)
    PROVE  /\ pub' \in [Publisher -> Pub]
           /\ \A q \in Publisher : q # p => pub'[q] = pub[q]
<1>0. pub[p] \in Pub /\ idem \in [Key -> 0 .. MaxMessages] /\ MaxMessages \in Nat
  BY BoundAssumption DEF Base, MsgTypeOK
<1>1. CASE \E returned : Answer(p, returned)
  BY <1>1, SetPubEffect, IdlePubType DEF Answer
<1>2. ASSUME NEW key \in Key \cup {NoKey}, NEW payload \in Payload \cup {NoPayload},
             PubBegin(p, key, payload)
      PROVE  \E c \in Pub : SetPub(p, c)
  <2> DEFINE c == [IdlePub EXCEPT !.pc = IF key = NoKey THEN "hook" ELSE "lookup",
                                  !.key = key, !.payload = payload]
  <2>1. c \in Pub
    BY IdlePubType DEF Pub, PubPc
  <2>2. SetPub(p, c)
    BY <1>2 DEF PubBegin
  <2> HIDE DEF c
  <2> QED
    BY <2>1, <2>2
<1>3. CASE PubLookup(p)
  <2> DEFINE c == [pub[p] EXCEPT !.pc = IF idem[pub[p].key] = NoMessage THEN "hook" ELSE "existing",
                                 !.id = idem[pub[p].key]]
  <2>1. pub[p].key \in Key
    BY <1>3 DEF Base, CallOK, PubLookup, AtPub
  <2>2. c \in Pub
    BY <1>0, <2>1 DEF Pub, PubPc
  <2>3. SetPub(p, c)
    BY <1>3 DEF PubLookup
  <2> HIDE DEF c
  <2> QED
    BY <2>2, <2>3, SetPubEffect
<1>4. CASE PubExisting(p)
  <2> DEFINE c == [pub[p] EXCEPT !.pc = "hook", !.id = NoMessage]
  <2>0. NoMessage \in 0 .. MaxMessages /\ "hook" \in PubPc
    BY <1>0 DEF NoMessage, PubPc
  <2>1. c \in Pub
    BY <1>0, <2>0 DEF Pub
  <2>2. SetPub(p, c) \/ \E returned : Answer(p, returned)
    BY <1>4 DEF PubExisting
  <2> HIDE DEF c
  <2> QED
    BY <1>1, <2>1, <2>2, SetPubEffect
<1>5. CASE PubHook(p)
  <2>1. PICK m \in MessageId :
            SetPub(p, [pub[p] EXCEPT !.pc = "message", !.id = m, !.left = Endpoint])
    BY <1>5 DEF PubHook
  <2> DEFINE c == [pub[p] EXCEPT !.pc = "message", !.id = m, !.left = Endpoint]
  <2>0. m \in 0 .. MaxMessages /\ "message" \in PubPc
    BY <1>0 DEF MessageId, PubPc
  <2>2. c \in Pub
    BY <1>0, <2>0 DEF Pub
  <2>3. SetPub(p, c)
    BY <2>1
  <2> HIDE DEF c
  <2> QED
    BY <2>2, <2>3, SetPubEffect
<1>6. ASSUME NEW step \in PubPc, PubGoto(p, step) PROVE \E c \in Pub : SetPub(p, c)
  <2>1. [pub[p] EXCEPT !.pc = step] \in Pub
    BY <1>0 DEF Pub
  <2> QED
    BY <1>6, <2>1 DEF PubGoto
<1>7. CASE PubMessage(p) \/ PubKey(p)
  BY <1>6, <1>7, SetPubEffect DEF PubMessage, PubKey, PubPc
<1>8. CASE PubRecord(p)
  <2>1. PICK e \in pub[p].left :
            SetPub(p, [pub[p] EXCEPT !.pc = "by_message", !.left = @ \ {e}, !.at = {e}])
    BY <1>8 DEF PubRecord
  <2>2. [pub[p] EXCEPT !.pc = "by_message", !.left = @ \ {e}, !.at = {e}] \in Pub
    BY <1>0 DEF Pub, PubPc
  <2> QED
    BY <2>1, <2>2, SetPubEffect
<1>9. CASE PubByMessage(p)
  <2>1. AfterEndpoint(p) \in PubPc
    BY DEF AfterEndpoint, PubPc
  <2>2. [pub[p] EXCEPT !.pc = AfterEndpoint(p), !.at = {}] \in Pub
    BY <1>0, <2>1 DEF Pub
  <2> QED
    BY <1>9, <2>2, SetPubEffect DEF PubByMessage
<1> QED
  BY <1>1, <1>2, <1>3, <1>4, <1>5, <1>7, <1>8, <1>9, SetPubEffect DEF Publish, PubDenied, PubReturn, PubCrash

\* Where the steps of a call lead, and what they keep of it.
SameCall(p) == pub'[p].id = pub[p].id /\ pub'[p].key = pub[p].key

LEMMA BeginFields ==
    ASSUME Base, NEW p \in Publisher, NEW key \in Key \cup {NoKey},
           NEW payload \in Payload \cup {NoPayload}, PubBegin(p, key, payload)
    PROVE  /\ pub'[p].pc = IF key = NoKey THEN "hook" ELSE "lookup"
           /\ pub'[p].key = key /\ pub'[p].id = NoMessage
BY DEF PubBegin, SetPub, Base, MsgTypeOK, IdlePub

LEMMA LookupFields ==
    ASSUME Base, NEW p \in Publisher, PubLookup(p)
    PROVE  /\ pub'[p].pc = IF idem[pub[p].key] = NoMessage THEN "hook" ELSE "existing"
           /\ pub'[p].key = pub[p].key /\ pub'[p].id = idem[pub[p].key]
BY DEF PubLookup, SetPub, Base, MsgTypeOK, Pub

LEMMA ExistingFields ==
    ASSUME Base, NEW p \in Publisher, PubExisting(p)
    PROVE  \/ /\ pub[p].id \notin messages /\ answered' = answered
              /\ pub'[p].pc = "hook" /\ pub'[p].key = pub[p].key /\ pub'[p].id = NoMessage
           \/ /\ pub[p].id \in messages /\ answered' \subseteq answered \cup {pub[p].id}
              /\ pub'[p] = IdlePub
BY DEF PubExisting, Answer, SetPub, Base, MsgTypeOK, Pub

LEMMA AnswerFields ==
    ASSUME Base, NEW p \in Publisher, PubDenied(p) \/ PubReturn(p) \/ PubCrash(p)
    PROVE  pub'[p] = IdlePub
BY DEF PubDenied, PubReturn, PubCrash, Answer, SetPub, Base, MsgTypeOK

LEMMA HookFields ==
    ASSUME Base, NEW p \in Publisher, PubHook(p)
    PROVE  \E m \in MessageId :
            /\ about[m] = Blank
            /\ pub'[p].pc = "message" /\ pub'[p].key = pub[p].key /\ pub'[p].id = m
            /\ pub'[p].left = Endpoint
            /\ about'[m].key = pub[p].key /\ about'[m].createdAt = clock /\ about'[m] \in Message
            /\ \A n \in MessageId : n # m => about'[n] = about[n]
            /\ about' \in [MessageId -> Message]
<1>1. PICK m \in MessageId :
        /\ m \notin Used
        /\ about' = [about EXCEPT ![m] = [key |-> pub[p].key, payload |-> pub[p].payload,
                                          createdAt |-> clock]]
        /\ pub' = [pub EXCEPT ![p] = [pub[p] EXCEPT !.pc = "message", !.id = m, !.left = Endpoint]]
  BY DEF PubHook, SetPub, CreatedAt
<1>2. pub[p] \in Pub /\ about \in [MessageId -> Message] /\ clock \in Nat
  BY DEF Base, MsgTypeOK
<1>3. [key |-> pub[p].key, payload |-> pub[p].payload, createdAt |-> clock] \in Message
  BY <1>2 DEF Pub, Message
<1>4. about[m] = Blank
  BY <1>1 DEF Used
<1>5. /\ pub'[p].pc = "message" /\ pub'[p].key = pub[p].key /\ pub'[p].id = m
      /\ pub'[p].left = Endpoint
  BY <1>1, <1>2 DEF Pub, Base, MsgTypeOK
<1>6. /\ about'[m].key = pub[p].key /\ about'[m].createdAt = clock /\ about'[m] \in Message
      /\ \A n \in MessageId : n # m => about'[n] = about[n]
      /\ about' \in [MessageId -> Message]
  BY <1>1, <1>2, <1>3
<1> QED
  BY <1>4, <1>5, <1>6

LEMMA WriteFields ==
    ASSUME Base, NEW p \in Publisher
    PROVE  /\ PubMessage(p) => SameCall(p) /\ pub'[p].left = pub[p].left
                               /\ pub'[p].pc = IF pub[p].key = NoKey THEN "record" ELSE "key"
           /\ PubKey(p) => SameCall(p) /\ pub'[p].left = pub[p].left /\ pub'[p].pc = "record"
           /\ PubByMessage(p) => SameCall(p) /\ pub'[p].left = pub[p].left
                                 /\ pub'[p].pc = IF pub[p].left = {} THEN "return" ELSE "record"
<1>1. pub[p] \in Pub
  BY DEF Base, MsgTypeOK
<1>2. ASSUME PubMessage(p)
      PROVE  SameCall(p) /\ pub'[p].left = pub[p].left
             /\ pub'[p].pc = IF pub[p].key = NoKey THEN "record" ELSE "key"
  BY <1>1, <1>2 DEF PubMessage, PubGoto, SetPub, SameCall, Base, MsgTypeOK, Pub
<1>3. ASSUME PubKey(p)
      PROVE  SameCall(p) /\ pub'[p].left = pub[p].left /\ pub'[p].pc = "record"
  BY <1>1, <1>3 DEF PubKey, PubGoto, SetPub, SameCall, Base, MsgTypeOK, Pub
<1>4. ASSUME PubByMessage(p)
      PROVE  SameCall(p) /\ pub'[p].left = pub[p].left
             /\ pub'[p].pc = IF pub[p].left = {} THEN "return" ELSE "record"
  BY <1>1, <1>4 DEF PubByMessage, AfterEndpoint, SetPub, SameCall, Base, MsgTypeOK, Pub
<1> QED
  BY <1>2, <1>3, <1>4

LEMMA RecordFields ==
    ASSUME Base, NEW p \in Publisher, PubRecord(p)
    PROVE  \E e \in pub[p].left :
            /\ SameCall(p) /\ pub'[p].pc = "by_message" /\ pub'[p].at = {e}
            /\ pub'[p].left = pub[p].left \ {e}
            /\ e \in Endpoint /\ <<pub[p].id, e>> \in Delivery
            /\ due' = due \cup {<<pub[p].id, e>>}
            /\ status' \in [Delivery -> Status] /\ status'[<<pub[p].id, e>>] = "pending"
            /\ \A d \in Delivery : d # <<pub[p].id, e>> => status'[d] = status[d]
<1>1. PICK e \in pub[p].left :
        /\ status' = [status EXCEPT ![<<pub[p].id, e>>] = "pending"]
        /\ due' = due \cup {<<pub[p].id, e>>}
        /\ pub' = [pub EXCEPT ![p] = [pub[p] EXCEPT !.pc = "by_message", !.left = @ \ {e}, !.at = {e}]]
  BY DEF PubRecord, SetPub
<1>2. pub[p] \in Pub /\ pub[p].id \in MessageId /\ status \in [Delivery -> Status]
  BY DEF Base, MsgTypeOK, CallOK, WritePc, PubRecord, AtPub
<1>3. /\ SameCall(p) /\ pub'[p].pc = "by_message" /\ pub'[p].at = {e}
      /\ pub'[p].left = pub[p].left \ {e}
  BY <1>1, <1>2 DEF SameCall, Pub, Base, MsgTypeOK
<1>4. e \in Endpoint /\ <<pub[p].id, e>> \in Delivery
  BY <1>1, <1>2 DEF Pub, Delivery
<1>5. /\ status' \in [Delivery -> Status] /\ status'[<<pub[p].id, e>>] = "pending"
      /\ \A d \in Delivery : d # <<pub[p].id, e>> => status'[d] = status[d]
  BY <1>1, <1>2, <1>4 DEF Status
<1> QED
  BY <1>1, <1>3, <1>4, <1>5

LEMMA PubKeeps ==
    ASSUME NEW p \in Publisher, Publish(p)
    PROVE  UNCHANGED <<clock, pruning, replay, pruned, replayed>>
BY DEF Publish, PubBegin, PubLookup, PubExisting, PubDenied, PubHook, PubMessage, PubKey, PubRecord,
       PubByMessage, PubReturn, PubCrash, PubRest

\* A step of publish that makes no message.
LEMMA BaseCall ==
    ASSUME Base, NEW p \in Publisher, Publish(p), about' = about,
           messages \subseteq messages',
           \A m \in messages' \ messages : pub[p].pc = "message" /\ m = pub[p].id,
           idem' \in [Key -> 0 .. MaxMessages],
           \A k \in Key : idem'[k] # NoMessage => about[idem'[k]].key = k,
           status' \in [Delivery -> Status], due' \subseteq Delivery, byMessage' \subseteq Delivery,
           answered' \subseteq MessageId,
           CallOK(p)', pub'[p].pc \in WritePc => pub[p].pc \in WritePc /\ pub'[p].id = pub[p].id
    PROVE  Base'
<1>1. /\ pub' \in [Publisher -> Pub] /\ \A q \in Publisher : q # p => pub'[q] = pub[q]
      /\ UNCHANGED <<clock, pruning, replay, pruned, replayed>>
  BY PubEffect, PubKeeps
<1>2. \A m \in messages' \ messages : Writing(p, m) /\ m \in MessageId /\ Made(m)
  BY DEF Base, CallOK, Writing, WritePc
<1>3. MsgTypeOK'
  BY <1>1, <1>2 DEF Base, MsgTypeOK
<1>4. \A m \in messages' : Made(m)'
  BY <1>2 DEF Base, Made
<1>5. ASSUME NEW q \in Publisher PROVE CallOK(q)'
  <2>1. CASE q = p
    BY <2>1
  <2>2. CASE q # p
    <3>1. CallOK(q) /\ pub'[q] = pub[q]
      BY <1>1, <2>2 DEF Base
    <3>2. pub[q].pc = "message" => pub[q].id \notin messages'
      <4> SUFFICES ASSUME pub[q].pc = "message", pub[q].id \in messages' PROVE FALSE
        OBVIOUS
      <4>1. pub[q].id \notin messages /\ pub[q].id \in MessageId /\ Writing(q, pub[q].id)
        BY <3>1 DEF CallOK, Writing, WritePc
      <4>2. Writing(p, pub[q].id)
        BY <1>2, <4>1
      <4> QED
        BY <2>2, <4>1, <4>2 DEF Base
    <3> QED
      BY <3>1, <3>2 DEF CallOK, Made
  <2> QED
    BY <2>1, <2>2
<1>6. \A q \in Publisher, m \in MessageId : Writing(q, m)' => Writing(q, m)
  BY <1>1 DEF Writing
<1>7. \A r \in Pruner : PassOK(r)'
  BY <1>1 DEF Base, PassOK, Made
<1> QED
  BY <1>3, <1>4, <1>5, <1>6, <1>7 DEF Base

LEMMA BasePublish ==
    ASSUME Base, NEW p \in Publisher, Publish(p)
    PROVE  Base'
<1>0. /\ MsgTypeOK /\ CallOK(p) /\ pub[p] \in Pub /\ clock' = clock
      /\ pub' \in [Publisher -> Pub] /\ \A q \in Publisher : q # p => pub'[q] = pub[q]
      /\ UNCHANGED <<clock, pruning, replay, pruned, replayed>>
  BY PubEffect, PubKeeps DEF Base, MsgTypeOK
<1>a. /\ answered \subseteq MessageId /\ idem \in [Key -> 0 .. MaxMessages]
      /\ \A k \in Key : idem[k] # NoMessage => about[idem[k]].key = k
      /\ status \in [Delivery -> Status] /\ due \subseteq Delivery /\ byMessage \subseteq Delivery
  BY <1>0 DEF MsgTypeOK
<1>1. ASSUME NEW key \in Key \cup {NoKey}, NEW payload \in Payload \cup {NoPayload},
             PubBegin(p, key, payload)
      PROVE  Base'
  <2>1. UNCHANGED <<messages, about, idem, status, due, byMessage, answered>>
    BY <1>1 DEF PubBegin, store, queue
  <2>2. CallOK(p)' /\ pub'[p].pc \notin WritePc
    BY <1>1, BeginFields DEF CallOK, WritePc
  <2> QED
    BY <1>a, <2>1, <2>2, BaseCall
<1>2. CASE PubLookup(p)
  <2>1. UNCHANGED <<messages, about, idem, status, due, byMessage, answered>>
    BY <1>2 DEF PubLookup, store, queue
  <2>2. pub[p].key \in Key
    BY <1>0, <1>2 DEF PubLookup, AtPub, CallOK
  <2>3. idem[pub[p].key] # NoMessage => idem[pub[p].key] \in MessageId
    BY <1>a, <2>2, BoundAssumption DEF MessageId, NoMessage
  <2>4. CallOK(p)' /\ pub'[p].pc \notin WritePc
    BY <1>2, <1>a, <2>1, <2>2, <2>3, LookupFields DEF CallOK, WritePc
  <2> QED
    BY <1>a, <2>1, <2>4, BaseCall
<1>3. CASE PubExisting(p)
  <2>1. UNCHANGED <<messages, about, idem, status, due, byMessage>>
    BY <1>3 DEF PubExisting, store, queue
  <2>2. pub[p].id \in MessageId
    BY <1>0, <1>3 DEF PubExisting, AtPub, CallOK
  <2>3. CallOK(p)' /\ pub'[p].pc \notin WritePc /\ answered' \subseteq MessageId
    BY <1>3, <1>a, <2>2, ExistingFields DEF CallOK, WritePc, IdlePub
  <2> QED
    BY <1>a, <2>1, <2>3, BaseCall
<1>4. CASE PubDenied(p) \/ PubReturn(p) \/ PubCrash(p)
  <2>1. UNCHANGED <<messages, about, idem, status, due, byMessage>>
    BY <1>4 DEF PubDenied, PubReturn, PubCrash, store, queue
  <2>2. answered' \subseteq MessageId
    BY <1>0, <1>4, <1>a DEF PubDenied, PubReturn, PubCrash, Answer, AtPub, CallOK, WritePc
  <2>3. CallOK(p)' /\ pub'[p].pc \notin WritePc
    BY <1>4, AnswerFields DEF CallOK, WritePc, IdlePub
  <2> QED
    BY <1>a, <2>1, <2>2, <2>3, BaseCall
<1>5. CASE PubHook(p)
  <2>1. UNCHANGED <<messages, idem, status, due, byMessage, answered>>
    BY <1>5 DEF PubHook, queue
  <2>2. PICK m \in MessageId :
            /\ about[m] = Blank
            /\ pub'[p].pc = "message" /\ pub'[p].key = pub[p].key /\ pub'[p].id = m
            /\ pub'[p].left = Endpoint
            /\ about'[m].key = pub[p].key /\ about'[m].createdAt = clock /\ about'[m] \in Message
            /\ \A n \in MessageId : n # m => about'[n] = about[n]
            /\ about' \in [MessageId -> Message]
    BY <1>5, HookFields
  <2>3. ~Made(m) /\ about[m].key = NoKey /\ clock \in Nat
    BY <1>0, <2>2 DEF Made, Blank, NoTime, MsgTypeOK
  <2>4. \A n \in MessageId : Made(n) => n # m /\ about'[n] = about[n] /\ Made(n)'
    BY <2>2, <2>3 DEF Made
  <2>5. \A k \in Key : idem[k] # NoMessage => idem[k] \in MessageId /\ idem[k] # m
    BY <1>a, <2>2, <2>3, KeyAssumption, BoundAssumption DEF MessageId, NoMessage
  <2>6. MsgTypeOK'
    BY <1>0, <1>a, <2>1, <2>2, <2>3, <2>5 DEF MsgTypeOK
  <2>7. ASSUME NEW q \in Publisher PROVE CallOK(q)'
    <3>1. CASE q = p
      <4>1. m \notin messages /\ Made(m)'
        BY <2>2, <2>3 DEF Base, Made
      <4> QED
        BY <1>0, <2>1, <2>2, <3>1, <4>1 DEF CallOK, WritePc
    <3>2. CASE q # p
      <4>1. CallOK(q) /\ pub'[q] = pub[q]
        BY <1>0, <3>2 DEF Base
      <4>2. pub[q].pc = "existing" => pub[q].id # m
        BY <2>3, <4>1, KeyAssumption DEF CallOK
      <4> QED
        BY <2>1, <2>2, <2>4, <4>1, <4>2 DEF CallOK
    <3> QED
      BY <3>1, <3>2
  <2>8. ASSUME NEW q \in Publisher, NEW n \in MessageId, Writing(q, n)'
        PROVE  IF n = m THEN q = p ELSE Writing(q, n)
    <3>1. CASE q = p
      BY <2>2, <2>8, <3>1 DEF Writing
    <3>2. CASE q # p
      <4>1. Writing(q, n) /\ Made(n)
        BY <1>0, <2>8, <3>2 DEF Writing, Base, CallOK
      <4> QED
        BY <2>3, <4>1
    <3> QED
      BY <3>1, <3>2
  <2>9. ASSUME NEW r \in Pruner PROVE PassOK(r)'
    <3>1. PassOK(r) /\ pruning'[r] = pruning[r] /\ pruning[r].todo \subseteq MessageId
      BY <1>0 DEF Base, MsgTypeOK, Pass
    <3>2. pruning[r].pc = "un_key" => about'[pruning[r].id] = about[pruning[r].id]
      BY <2>4, <3>1 DEF PassOK
    <3> QED
      BY <2>4, <3>1, <3>2 DEF PassOK
  <2>10. \A n \in messages' : Made(n)'
    BY <2>1, <2>4 DEF Base, MsgTypeOK
  <2>11. \A q, o \in Publisher, n \in MessageId : Writing(q, n)' /\ Writing(o, n)' => q = o
    BY <2>8 DEF Base
  <2> QED
    BY <2>6, <2>7, <2>9, <2>10, <2>11 DEF Base
<1>6. CASE PubMessage(p)
  <2>1. /\ UNCHANGED <<about, idem, status, due, byMessage, answered>>
        /\ pub[p].pc = "message" /\ messages' = messages \cup {pub[p].id}
    BY <1>6 DEF PubMessage, queue, AtPub
  <2>2. CallOK(p)' /\ pub'[p].pc \in WritePc /\ pub'[p].id = pub[p].id
    BY <1>0, <1>6, <2>1, WriteFields DEF CallOK, WritePc, SameCall, Pub, Made
  <2> QED
    BY <1>a, <2>1, <2>2, BaseCall DEF WritePc
<1>7. CASE PubKey(p)
  <2>1. /\ UNCHANGED <<about, messages, status, due, byMessage, answered>>
        /\ pub[p].pc = "key" /\ idem' = [idem EXCEPT ![pub[p].key] = pub[p].id]
    BY <1>7 DEF PubKey, queue, AtPub
  <2>2. pub[p].key \in Key /\ pub[p].id \in MessageId /\ about[pub[p].id].key = pub[p].key
    BY <1>0, <2>1 DEF CallOK, WritePc
  <2>3. /\ idem' \in [Key -> 0 .. MaxMessages]
        /\ \A k \in Key : idem'[k] # NoMessage => about[idem'[k]].key = k
    BY <1>a, <2>1, <2>2, BoundAssumption DEF MessageId
  <2>4. CallOK(p)' /\ pub'[p].pc \in WritePc /\ pub'[p].id = pub[p].id
    BY <1>0, <1>7, <2>1, WriteFields DEF CallOK, WritePc, SameCall, Made
  <2> QED
    BY <1>a, <2>1, <2>3, <2>4, BaseCall DEF WritePc
<1>8. CASE PubRecord(p)
  <2>1. /\ UNCHANGED <<about, messages, idem, byMessage, answered>> /\ pub[p].pc = "record"
    BY <1>8 DEF PubRecord, store, AtPub
  <2>2. PICK e \in pub[p].left :
            /\ SameCall(p) /\ pub'[p].pc = "by_message" /\ pub'[p].at = {e}
            /\ pub'[p].left = pub[p].left \ {e}
            /\ e \in Endpoint /\ <<pub[p].id, e>> \in Delivery
            /\ due' = due \cup {<<pub[p].id, e>>}
            /\ status' \in [Delivery -> Status] /\ status'[<<pub[p].id, e>>] = "pending"
            /\ \A d \in Delivery : d # <<pub[p].id, e>> => status'[d] = status[d]
    BY <1>8, RecordFields
  <2>3. CallOK(p)' /\ pub'[p].pc \in WritePc /\ pub'[p].id = pub[p].id
    BY <1>0, <2>1, <2>2 DEF CallOK, WritePc, SameCall, Made
  <2>4. due' \subseteq Delivery
    BY <1>a, <2>2
  <2> QED
    BY <1>a, <2>1, <2>2, <2>3, <2>4, BaseCall DEF WritePc
<1>9. CASE PubByMessage(p)
  <2>1. /\ UNCHANGED <<about, messages, idem, status, due, answered>> /\ pub[p].pc = "by_message"
        /\ byMessage' = byMessage \cup ({pub[p].id} \X pub[p].at)
    BY <1>9 DEF PubByMessage, store, AtPub
  <2>2. pub[p].id \in MessageId /\ pub[p].at \subseteq Endpoint
    BY <1>0, <2>1 DEF CallOK, WritePc, Pub
  <2>3. CallOK(p)' /\ pub'[p].pc \in WritePc /\ pub'[p].id = pub[p].id
    BY <1>0, <1>9, <2>1, WriteFields DEF CallOK, WritePc, SameCall, Made
  <2>4. byMessage' \subseteq Delivery
    BY <1>a, <2>1, <2>2 DEF Delivery
  <2> QED
    BY <1>a, <2>1, <2>3, <2>4, BaseCall DEF WritePc
<1> QED
  BY <1>1, <1>2, <1>3, <1>4, <1>5, <1>6, <1>7, <1>8, <1>9 DEF Publish

\* The pass of one pruning process moves, and nothing that is outside of prune.
LEMMA SetPassEffect ==
    ASSUME Base, NEW r \in Pruner, NEW c \in Pass, SetPass(r, c)
    PROVE  /\ pruning' \in [Pruner -> Pass] /\ pruning'[r] = c
           /\ \A s \in Pruner : s # r => pruning'[s] = pruning[s]
BY DEF Base, MsgTypeOK, SetPass

OnlyPass(r) == /\ pruning' \in [Pruner -> Pass]
               /\ \A s \in Pruner : s # r => pruning'[s] = pruning[s]

Moved(r, pc, todo, id, left, doomed) ==
    /\ pruning'[r].pc = pc /\ pruning'[r].todo = todo /\ pruning'[r].id = id
    /\ pruning'[r].left = left /\ pruning'[r].doomed = doomed

Ended(r) == Moved(r, "idle", {}, NoMessage, {}, {})

LEMMA IdlePassType == IdlePass \in Pass
BY BoundAssumption DEF IdlePass, Pass, PrunePc, NoMessage

LEMMA PassStarts ==
    ASSUME Base, NEW r \in Pruner, NEW m \in MessageId, NEW todo \in SUBSET MessageId,
           SetPass(r, [pc |-> "list", todo |-> todo, id |-> m, left |-> {}, doomed |-> {}])
    PROVE  OnlyPass(r) /\ Moved(r, "list", todo, m, {}, {})
<1> DEFINE c == [pc |-> "list", todo |-> todo, id |-> m, left |-> {}, doomed |-> {}]
<1>1. c \in Pass
  BY BoundAssumption DEF Pass, PrunePc, MessageId
<1> HIDE DEF c
<1>2. pruning'[r] = c /\ OnlyPass(r)
  BY <1>1, SetPassEffect DEF OnlyPass, c
<1> QED
  BY <1>2 DEF Moved, c

LEMMA PassEnds ==
    ASSUME Base, NEW r \in Pruner, SetPass(r, IdlePass)
    PROVE  OnlyPass(r) /\ Ended(r)
BY IdlePassType, SetPassEffect DEF OnlyPass, Ended, Moved, IdlePass

LEMMA NextFields ==
    ASSUME Base, NEW r \in Pruner, NextMessage(r)
    PROVE  /\ OnlyPass(r)
           /\ \/ Ended(r)
              \/ \E m \in pruning[r].todo \ {pruning[r].id} :
                    Moved(r, "list", pruning[r].todo \ {pruning[r].id}, m, {}, {})
<1> DEFINE rest == pruning[r].todo \ {pruning[r].id}
<1>1. rest \in SUBSET MessageId
  BY DEF Base, MsgTypeOK, Pass
<1>2. CASE rest = {}
  BY <1>2, PassEnds DEF NextMessage
<1>3. CASE rest # {}
  <2>1. PICK m \in rest :
            SetPass(r, [pc |-> "list", todo |-> rest, id |-> m, left |-> {}, doomed |-> {}])
    BY <1>3 DEF NextMessage
  <2>2. m \in MessageId
    BY <1>1
  <2> HIDE DEF rest
  <2>3. OnlyPass(r) /\ Moved(r, "list", rest, m, {}, {})
    BY <1>1, <2>1, <2>2, PassStarts
  <2> QED
    BY <2>3 DEF rest
<1> QED
  BY <1>2, <1>3

\* A pass goes on with its message.
LEMMA PassMoves ==
    ASSUME Base, NEW r \in Pruner, NEW pc \in PrunePc, NEW left \in SUBSET Delivery,
           NEW doomed \in SUBSET Delivery,
           SetPass(r, [pruning[r] EXCEPT !.pc = pc, !.left = left, !.doomed = doomed])
    PROVE  OnlyPass(r) /\ Moved(r, pc, pruning[r].todo, pruning[r].id, left, doomed)
<1> DEFINE c == [pruning[r] EXCEPT !.pc = pc, !.left = left, !.doomed = doomed]
<1>0. pruning[r] \in Pass
  BY DEF Base, MsgTypeOK
<1>1. c \in Pass
  BY <1>0 DEF Pass
<1>2. /\ c.pc = pc /\ c.todo = pruning[r].todo /\ c.id = pruning[r].id /\ c.left = left
      /\ c.doomed = doomed
  BY <1>0 DEF Pass
<1> HIDE DEF c
<1>3. pruning'[r] = c /\ OnlyPass(r)
  BY <1>1, SetPassEffect DEF OnlyPass, c
<1> QED
  BY <1>2, <1>3 DEF Moved

\* The same, of what the steps leave as it is.
LEMMA PassFields ==
    ASSUME Base, NEW r \in Pruner, NEW pc \in PrunePc
    PROVE  /\ \A left \in SUBSET Delivery :
                SetPass(r, [pruning[r] EXCEPT !.pc = pc, !.left = left])
                    => OnlyPass(r) /\ Moved(r, pc, pruning[r].todo, pruning[r].id, left, pruning[r].doomed)
           /\ \A doomed \in SUBSET Delivery :
                SetPass(r, [pruning[r] EXCEPT !.pc = pc, !.doomed = doomed])
                    => OnlyPass(r) /\ Moved(r, pc, pruning[r].todo, pruning[r].id, pruning[r].left, doomed)
           /\ PruneGoto(r, pc) => OnlyPass(r) /\ Moved(r, pc, pruning[r].todo, pruning[r].id,
                                                       pruning[r].left, pruning[r].doomed)
<1>0. pruning[r] \in Pass
  BY DEF Base, MsgTypeOK
<1>1. pruning[r].left \in SUBSET Delivery /\ pruning[r].doomed \in SUBSET Delivery
  BY <1>0 DEF Pass
<1>2. ASSUME NEW left \in SUBSET Delivery,
             SetPass(r, [pruning[r] EXCEPT !.pc = pc, !.left = left])
      PROVE  OnlyPass(r) /\ Moved(r, pc, pruning[r].todo, pruning[r].id, left, pruning[r].doomed)
  <2>1. [pruning[r] EXCEPT !.pc = pc, !.left = left]
            = [pruning[r] EXCEPT !.pc = pc, !.left = left, !.doomed = pruning[r].doomed]
    BY <1>0 DEF Pass
  <2> QED
    BY <1>1, <1>2, <2>1, PassMoves
<1>3. ASSUME NEW doomed \in SUBSET Delivery,
             SetPass(r, [pruning[r] EXCEPT !.pc = pc, !.doomed = doomed])
      PROVE  OnlyPass(r) /\ Moved(r, pc, pruning[r].todo, pruning[r].id, pruning[r].left, doomed)
  <2>1. [pruning[r] EXCEPT !.pc = pc, !.doomed = doomed]
            = [pruning[r] EXCEPT !.pc = pc, !.left = pruning[r].left, !.doomed = doomed]
    BY <1>0 DEF Pass
  <2> QED
    BY <1>1, <1>3, <2>1, PassMoves
<1>4. ASSUME PruneGoto(r, pc)
      PROVE  OnlyPass(r) /\ Moved(r, pc, pruning[r].todo, pruning[r].id, pruning[r].left,
                                  pruning[r].doomed)
  <2>1. [pruning[r] EXCEPT !.pc = pc]
            = [pruning[r] EXCEPT !.pc = pc, !.left = pruning[r].left, !.doomed = pruning[r].doomed]
    BY <1>0 DEF Pass
  <2> QED
    BY <1>1, <1>4, <2>1, PassMoves DEF PruneGoto
<1> QED
  BY <1>2, <1>3, <1>4

\* What each step of a pass does.
LEMMA PruneKeeps ==
    ASSUME NEW r \in Pruner, Prune(r)
    PROVE  UNCHANGED <<clock, about, due, pub, replay, answered, replayed>>
BY DEF Prune, PruneRead, PruneList, PruneCheck, UnMessage, UnRecord, UnKey, UnStore, PruneCrash, PruneRest

LEMMA ReadFields ==
    ASSUME Base, NEW r \in Pruner, PruneRead(r)
    PROVE  /\ OnlyPass(r) /\ UNCHANGED <<messages, idem, status, byMessage, pruned>>
           /\ \E todo \in SUBSET messages : \E m \in todo :
                /\ Moved(r, "list", todo, m, {}, {})
                /\ MaxAge # NoRule => \A n \in todo : ~(about[n].createdAt >= clock - MaxAge)
<1>0. PICK newest \in SUBSET messages :
        \E m \in messages \ (newest \cup KeptByAge) :
            SetPass(r, [pc |-> "list", todo |-> messages \ (newest \cup KeptByAge),
                        id |-> m, left |-> {}, doomed |-> {}])
  BY DEF PruneRead
<1>1. PICK m \in messages \ (newest \cup KeptByAge) :
        SetPass(r, [pc |-> "list", todo |-> messages \ (newest \cup KeptByAge),
                    id |-> m, left |-> {}, doomed |-> {}])
  BY <1>0
<1> DEFINE all == messages \ (newest \cup KeptByAge)
<1>2. m \in all /\ all \in SUBSET messages
  BY <1>1
<1>3. MaxAge # NoRule => \A n \in all : ~(about[n].createdAt >= clock - MaxAge)
  BY DEF KeptByAge
<1>4. PICK todo : todo = all
  OBVIOUS
<1>5. SetPass(r, [pc |-> "list", todo |-> todo, id |-> m, left |-> {}, doomed |-> {}])
  BY <1>1, <1>4
<1> HIDE DEF all
<1>6. todo \in SUBSET MessageId /\ m \in MessageId
  BY <1>2, <1>4 DEF Base, MsgTypeOK
<1>7. OnlyPass(r) /\ Moved(r, "list", todo, m, {}, {})
  BY <1>5, <1>6, PassStarts
<1>8. UNCHANGED <<messages, idem, status, byMessage, pruned>>
  BY DEF PruneRead
<1> QED
  BY <1>2, <1>3, <1>4, <1>7, <1>8

LEMMA ListFields ==
    ASSUME Base, NEW r \in Pruner, PruneList(r)
    PROVE  /\ OnlyPass(r) /\ UNCHANGED <<messages, idem, status, byMessage, pruned>>
           /\ pruning[r].pc = "list"
           /\ Moved(r, "check", pruning[r].todo, pruning[r].id, Of(pruning[r].id) \cap byMessage,
                    pruning[r].doomed)
<1>1. "check" \in PrunePc /\ (Of(pruning[r].id) \cap byMessage) \in SUBSET Delivery
  BY DEF PrunePc, Of
<1> QED
  BY <1>1, PassFields DEF PruneList, AtPrune

\* The deliveries that the check finds records of.
Records(r) == {d \in pruning[r].left : status[d] # "none"}

LEMMA AfterDeliveryIs ==
    ASSUME NEW r \in Pruner, NEW left
    PROVE  AfterDelivery(r, left) \in {"un_message", "un_store", "un_key"}
BY DEF AfterDelivery

LEMMA CheckFields ==
    ASSUME Base, NEW r \in Pruner, PruneCheck(r)
    PROVE  /\ OnlyPass(r) /\ UNCHANGED <<messages, idem, status, byMessage, pruned>>
           /\ pruning[r].pc = "check"
           /\ \/ NextMessage(r)
              \/ /\ \A d \in pruning[r].left : status[d] # "pending"
                 /\ Moved(r, AfterDelivery(r, Records(r)), pruning[r].todo, pruning[r].id, Records(r),
                          pruning[r].doomed)
<1>1. AfterDelivery(r, Records(r)) \in PrunePc
  BY AfterDeliveryIs DEF PrunePc
<1>2. Records(r) \in SUBSET Delivery
  BY DEF Base, MsgTypeOK, Pass, Records
<1>3. CASE NextMessage(r)
  BY <1>3, NextFields DEF PruneCheck, AtPrune
<1>4. CASE ~NextMessage(r)
  <2>1. ~StillNeeded(r)
        /\ SetPass(r, [pruning[r] EXCEPT !.pc = AfterDelivery(r, Records(r)), !.left = Records(r)])
    BY <1>4 DEF PruneCheck, Records
  <2>2. \A d \in pruning[r].left : status[d] # "pending"
    BY <2>1 DEF StillNeeded
  <2> QED
    BY <1>1, <1>2, <2>1, <2>2, PassFields DEF PruneCheck, AtPrune
<1> QED
  BY <1>3, <1>4

LEMMA UnMessageFields ==
    ASSUME Base, NEW r \in Pruner, UnMessage(r)
    PROVE  /\ OnlyPass(r) /\ UNCHANGED <<messages, idem, status, pruned>>
           /\ pruning[r].pc = "un_message"
           /\ \E d \in pruning[r].left :
                /\ byMessage' = byMessage \ {d}
                /\ Moved(r, "un_record", pruning[r].todo, pruning[r].id, pruning[r].left, {d})
<1>1. PICK d \in pruning[r].left :
        /\ byMessage' = byMessage \ {d}
        /\ SetPass(r, [pruning[r] EXCEPT !.pc = "un_record", !.doomed = {d}])
  BY DEF UnMessage
<1>2. "un_record" \in PrunePc /\ {d} \in SUBSET Delivery
  BY DEF Base, MsgTypeOK, Pass, PrunePc
<1> QED
  BY <1>1, <1>2, PassFields DEF UnMessage, AtPrune

LEMMA UnRecordFields ==
    ASSUME Base, NEW r \in Pruner, UnRecord(r)
    PROVE  /\ OnlyPass(r) /\ UNCHANGED <<messages, idem, byMessage>>
           /\ pruning[r].pc = "un_record"
           /\ status' \in [Delivery -> Status]
           /\ \A d \in Delivery : status'[d] = IF d \in pruning[r].doomed THEN "none" ELSE status[d]
           /\ pruned' = pruned \cup pruning[r].doomed
           /\ Moved(r, AfterDelivery(r, pruning[r].left \ pruning[r].doomed), pruning[r].todo,
                    pruning[r].id, pruning[r].left \ pruning[r].doomed, {})
<1>1. AfterDelivery(r, pruning[r].left \ pruning[r].doomed) \in PrunePc
  BY AfterDeliveryIs DEF PrunePc
<1>2. (pruning[r].left \ pruning[r].doomed) \in SUBSET Delivery /\ {} \in SUBSET Delivery
  BY DEF Base, MsgTypeOK, Pass
<1>3. OnlyPass(r) /\ Moved(r, AfterDelivery(r, pruning[r].left \ pruning[r].doomed), pruning[r].todo,
                    pruning[r].id, pruning[r].left \ pruning[r].doomed, {})
  BY <1>1, <1>2, PassMoves DEF UnRecord
<1>4. status \in [Delivery -> Status] /\ "none" \in Status
  BY DEF Base, MsgTypeOK, Status
<1>5. status' = [d \in Delivery |-> IF d \in pruning[r].doomed THEN "none" ELSE status[d]]
  BY DEF UnRecord
<1>6. status' \in [Delivery -> Status]
      /\ \A d \in Delivery : status'[d] = IF d \in pruning[r].doomed THEN "none" ELSE status[d]
  BY <1>4, <1>5
<1> QED
  BY <1>3, <1>6 DEF UnRecord, AtPrune

LEMMA UnKeyFields ==
    ASSUME Base, NEW r \in Pruner, UnKey(r)
    PROVE  /\ OnlyPass(r) /\ UNCHANGED <<messages, status, byMessage, pruned>>
           /\ pruning[r].pc = "un_key"
           /\ idem' = [idem EXCEPT ![about[pruning[r].id].key] = NoMessage]
           /\ Moved(r, "un_store", pruning[r].todo, pruning[r].id, pruning[r].left, pruning[r].doomed)
<1>1. "un_store" \in PrunePc
  BY DEF PrunePc
<1> QED
  BY <1>1, PassFields DEF UnKey, AtPrune

LEMMA UnStoreFields ==
    ASSUME Base, NEW r \in Pruner, UnStore(r)
    PROVE  /\ OnlyPass(r) /\ UNCHANGED <<idem, status, byMessage, pruned>>
           /\ pruning[r].pc = "un_store" /\ messages' = messages \ {pruning[r].id}
           /\ NextMessage(r)
BY NextFields DEF UnStore, AtPrune

LEMMA CrashFields ==
    ASSUME Base, NEW r \in Pruner, PruneCrash(r)
    PROVE  /\ OnlyPass(r) /\ UNCHANGED <<messages, idem, status, byMessage, pruned>>
           /\ pruning[r].pc \in CrashPoints /\ Ended(r)
BY PassEnds DEF PruneCrash

LEMMA BasePass ==
    ASSUME Base, NEW r \in Pruner, Prune(r), OnlyPass(r), PassOK(r)',
           messages' \subseteq messages,
           idem' \in [Key -> 0 .. MaxMessages],
           \A k \in Key : idem'[k] # NoMessage => idem'[k] = idem[k],
           status' \in [Delivery -> Status], byMessage' \subseteq Delivery, pruned' \subseteq Delivery
    PROVE  Base'
<1>1. UNCHANGED <<clock, about, due, pub, replay, answered, replayed>>
  BY PruneKeeps
<1>2. MsgTypeOK'
  BY <1>1 DEF Base, MsgTypeOK, OnlyPass
<1>3. \A p \in Publisher : CallOK(p)'
  BY <1>1 DEF Base, CallOK, Made
<1>4. \A s \in Pruner : PassOK(s)'
  BY <1>1 DEF Base, PassOK, Made, OnlyPass
<1> QED
  BY <1>1, <1>2, <1>3, <1>4 DEF Base, Made, Writing

\* The pass takes its next message.
LEMMA NextOK ==
    ASSUME Base, NEW r \in Pruner, pruning[r].pc # "idle", about' = about, NextMessage(r)
    PROVE  PassOK(r)'
<1>1. \A m \in pruning[r].todo : Made(m)
  BY DEF Base, PassOK
<1>2. pruning[r].todo \subseteq MessageId
  BY DEF Base, MsgTypeOK, Pass
<1> QED
  BY <1>1, <1>2, NextFields DEF PassOK, Ended, Moved, Made

LEMMA BasePrune ==
    ASSUME Base, NEW r \in Pruner, Prune(r)
    PROVE  Base'
<1>0. /\ PassOK(r) /\ about' = about /\ pruning[r] \in Pass
      /\ messages \subseteq MessageId /\ \A m \in messages : Made(m)
      /\ idem \in [Key -> 0 .. MaxMessages] /\ status \in [Delivery -> Status]
      /\ byMessage \subseteq Delivery /\ pruned \subseteq Delivery
  BY PruneKeeps DEF Base, MsgTypeOK
<1>k. pruning[r].pc # "idle" => about[pruning[r].id].key \in Key \cup {NoKey}
  BY <1>0 DEF Base, MsgTypeOK, PassOK, Message
<1>1. CASE PruneRead(r)
  <2>1. /\ OnlyPass(r) /\ UNCHANGED <<messages, idem, status, byMessage, pruned>>
        /\ \E todo \in SUBSET messages : \E m \in todo : Moved(r, "list", todo, m, {}, {})
    BY <1>1, ReadFields
  <2>2. PassOK(r)'
    BY <1>0, <2>1 DEF PassOK, Moved, Made
  <2> QED
    BY <1>0, <2>1, <2>2, BasePass
<1>2. CASE PruneList(r)
  <2>1. PassOK(r)'
    BY <1>0, <1>2, ListFields DEF PassOK, Moved, Made
  <2> QED
    BY <1>0, <1>2, <2>1, ListFields, BasePass
<1>3. CASE PruneCheck(r)
  <2>1. PassOK(r)'
    <3>1. CASE NextMessage(r)
      BY <1>0, <1>3, <3>1, CheckFields, NextOK
    <3>2. CASE ~NextMessage(r)
      <4>1. /\ pruning[r].pc = "check"
            /\ Moved(r, AfterDelivery(r, Records(r)), pruning[r].todo, pruning[r].id, Records(r),
                     pruning[r].doomed)
        BY <1>3, <3>2, CheckFields
      <4>2. AfterDelivery(r, Records(r)) = "un_key" => about[pruning[r].id].key # NoKey
        BY DEF AfterDelivery
      <4> QED
        BY <1>0, <1>k, <4>1, <4>2, AfterDeliveryIs DEF PassOK, Moved, Made, Records
    <3> QED
      BY <3>1, <3>2
  <2> QED
    BY <1>0, <1>3, <2>1, CheckFields, BasePass
<1>4. CASE UnMessage(r)
  <2>1. PassOK(r)'
    BY <1>0, <1>4, UnMessageFields DEF PassOK, Moved, Made
  <2>2. byMessage' \subseteq Delivery
    BY <1>0, <1>4, UnMessageFields
  <2> QED
    BY <1>0, <1>4, <2>1, <2>2, UnMessageFields, BasePass
<1>5. CASE UnRecord(r)
  <2>1. AfterDelivery(r, pruning[r].left \ pruning[r].doomed) = "un_key"
            => about[pruning[r].id].key # NoKey
    BY DEF AfterDelivery
  <2>2. PassOK(r)'
    BY <1>0, <1>k, <1>5, <2>1, UnRecordFields DEF PassOK, Moved, Made
  <2>3. pruned' \subseteq Delivery
    BY <1>0, <1>5, UnRecordFields DEF Pass
  <2> QED
    BY <1>0, <1>5, <2>2, <2>3, UnRecordFields, BasePass
<1>6. CASE UnKey(r)
  <2>1. PassOK(r)'
    BY <1>0, <1>6, UnKeyFields DEF PassOK, Moved, Made
  <2>2. /\ idem' \in [Key -> 0 .. MaxMessages]
        /\ \A k \in Key : idem'[k] # NoMessage => idem'[k] = idem[k]
    BY <1>0, <1>6, UnKeyFields, BoundAssumption DEF NoMessage
  <2> QED
    BY <1>0, <1>6, <2>1, <2>2, UnKeyFields, BasePass
<1>7. CASE UnStore(r)
  <2>1. PassOK(r)'
    BY <1>0, <1>7, UnStoreFields, NextOK
  <2> QED
    BY <1>0, <1>7, <2>1, UnStoreFields, BasePass
<1>8. CASE PruneCrash(r)
  <2>1. PassOK(r)'
    BY <1>8, CrashFields DEF PassOK, Ended, Moved
  <2> QED
    BY <1>0, <1>8, <2>1, CrashFields, BasePass
<1> QED
  BY <1>1, <1>2, <1>3, <1>4, <1>5, <1>6, <1>7, <1>8 DEF Prune

\* What a dispatcher and a replay do to one delivery.
LEMMA DispatchFields ==
    ASSUME Base, NEW d \in Delivery, Dispatch(d)
    PROVE  /\ UNCHANGED <<clock, store, byMessage, pub, pruning, replay, answered, pruned, replayed>>
           /\ due' = due \ {d} /\ status' \in [Delivery -> Status]
           /\ \A e \in Delivery : status'[e] # status[e] => e = d /\ status[e] = "pending"
                                                         /\ status'[e] \in Terminal
<1>1. status \in [Delivery -> Status] /\ Terminal \subseteq Status
  BY DEF Base, MsgTypeOK, Status, Terminal
<1> QED
  BY <1>1 DEF Dispatch

LEMMA ReplayFields ==
    ASSUME Base, NEW d \in Delivery, ReplayWrite(d)
    PROVE  /\ UNCHANGED <<clock, store, byMessage, pub, pruning, answered, pruned, replayed>>
           /\ d \in replay /\ replay' = replay \ {d} /\ due' = due \cup {d}
           /\ status' \in [Delivery -> Status] /\ status'[d] = "pending"
           /\ \A e \in Delivery : e # d => status'[e] = status[e]
<1>1. status \in [Delivery -> Status] /\ "pending" \in Status
  BY DEF Base, MsgTypeOK, Status
<1> QED
  BY <1>1 DEF ReplayWrite

\* A step that only touches the queue, the replays and the clock.
LEMMA BaseOther ==
    ASSUME Base, UNCHANGED <<store, pub, pruning, answered, pruned>>,
           clock' \in Nat, clock' >= clock, status' \in [Delivery -> Status], due' \subseteq Delivery,
           byMessage' \subseteq Delivery, replay' \subseteq Delivery, replayed' \subseteq Delivery
    PROVE  Base'
<1>1. UNCHANGED <<messages, about, idem, pub, pruning, answered, pruned>>
  BY DEF store
<1>2. \A m \in MessageId : about'[m].createdAt <= clock'
  <2> TAKE m \in MessageId
  <2>1. about[m].createdAt \in Int /\ about[m].createdAt <= clock /\ clock \in Int
    BY DEF Base, MsgTypeOK, Message, NoTime
  <2> QED
    BY <1>1, <2>1
<1>3. MsgTypeOK'
  BY <1>1, <1>2 DEF Base, MsgTypeOK
<1> QED
  BY <1>1, <1>3 DEF Base, Made, Writing, CallOK, PassOK

LEMMA BaseNext == Base /\ [Next]_vars => Base'
<1> SUFFICES ASSUME Base, [Next]_vars PROVE Base'
  OBVIOUS
<1>0. /\ clock \in Nat /\ status \in [Delivery -> Status] /\ due \subseteq Delivery
      /\ byMessage \subseteq Delivery /\ replay \subseteq Delivery /\ replayed \subseteq Delivery
  BY DEF Base, MsgTypeOK
<1>1. CASE Tick
  BY <1>0, <1>1, BaseOther DEF Tick, queue
<1>2. CASE \E p \in Publisher : Publish(p)
  BY <1>2, BasePublish
<1>3. CASE \E r \in Pruner : Prune(r)
  BY <1>3, BasePrune
<1>4. ASSUME NEW d \in Delivery, Dispatch(d) PROVE Base'
  <2>1. /\ UNCHANGED <<clock, store, byMessage, pub, pruning, replay, answered, pruned, replayed>>
        /\ due' \subseteq Delivery /\ status' \in [Delivery -> Status]
    BY <1>0, <1>4, DispatchFields
  <2> QED
    BY <1>0, <2>1, BaseOther
<1>5. ASSUME NEW d \in Delivery, ReplayRead(d) PROVE Base'
  <2>1. /\ UNCHANGED <<clock, store, status, due, byMessage, pub, pruning, answered, pruned>>
        /\ replay' \subseteq Delivery /\ replayed' \subseteq Delivery
    BY <1>0, <1>5 DEF ReplayRead, queue
  <2> QED
    BY <1>0, <2>1, BaseOther
<1>6. ASSUME NEW d \in Delivery, ReplayWrite(d) PROVE Base'
  <2>1. /\ UNCHANGED <<clock, store, byMessage, pub, pruning, answered, pruned, replayed>>
        /\ due' \subseteq Delivery /\ status' \in [Delivery -> Status] /\ replay' \subseteq Delivery
    BY <1>0, <1>6, ReplayFields
  <2> QED
    BY <1>0, <2>1, BaseOther
<1>7. CASE UNCHANGED vars
  BY <1>0, <1>7, BaseOther DEF vars, queue
<1> QED
  BY <1>1, <1>2, <1>3, <1>4, <1>5, <1>6, <1>7 DEF Next

LEMMA BaseHolds == Spec => []Base
BY BaseInit, BaseNext, PTL DEF Spec

------------------------------------------------------------------------------
(* An accepted message is delivered.                                            *)

\* A call that has begun to write its deliveries writes them all: what may end it
\* is before the message is stored or after the last delivery.
FanOutIsWhole == CrashPoints \cap {"key", "record", "by_message"} = {}

\* The delivery exists, or did until a pass removed it.
There(d) == status[d] # "none" \/ d \in pruned

Fanned(p) == pub[p].pc \in WritePc => \A e \in Endpoint \ pub[p].left : There(<<pub[p].id, e>>)

Whole(m) == \A e \in Endpoint : There(<<m, e>>)

WholeOrWriting == \A m \in messages : (\E p \in Publisher : Writing(p, m)) \/ Whole(m)

\* No two calls with one key.
OneCall == \A p, q \in Publisher : pub[p].key = pub[q].key /\ pub[p].key # NoKey => p = q

DelInv == OneCall /\ (\A p \in Publisher : Fanned(p)) /\ WholeOrWriting /\ AcceptedIsDelivered

LEMMA StepCases ==
    ASSUME [Next]_vars
    PROVE  \/ \E p \in Publisher : Publish(p)
           \/ \E r \in Pruner : Prune(r)
           \/ pub' = pub /\ pruning' = pruning /\ messages' = messages /\ about' = about /\ idem' = idem
              /\ answered' = answered /\ pruned' = pruned
BY DEF Next, vars, Tick, Dispatch, ReplayRead, ReplayWrite, store, queue

\* What happens to one delivery's record.
LEMMA StatusCases ==
    ASSUME Base, [Next]_vars, NEW d \in Delivery, status'[d] # status[d]
    PROVE  \/ \E p \in Publisher : /\ PubRecord(p) /\ d[1] = pub[p].id /\ status'[d] = "pending"
                                   /\ d[2] \in pub'[p].at
           \/ \E r \in Pruner : /\ UnRecord(r) /\ d \in pruning[r].doomed /\ status'[d] = "none"
                                /\ d \in pruned'
           \/ status[d] = "pending" /\ status'[d] \in Terminal
           \/ ReplayWrite(d) /\ status'[d] = "pending"
<1>1. CASE \E p \in Publisher : Publish(p)
  <2>1. PICK p \in Publisher : Publish(p)
    BY <1>1
  <2>2. PubRecord(p)
    BY <2>1 DEF Publish, PubBegin, PubLookup, PubExisting, PubDenied, PubHook, PubMessage, PubKey,
       PubByMessage, PubReturn, PubCrash, queue
  <2>3. PICK e \in pub[p].left : /\ status'[<<pub[p].id, e>>] = "pending" /\ pub'[p].at = {e}
                                 /\ \A c \in Delivery : c # <<pub[p].id, e>> => status'[c] = status[c]
    BY <2>2, RecordFields
  <2>4. d = <<pub[p].id, e>>
    BY <2>3
  <2> QED
    BY <2>2, <2>3, <2>4
<1>2. CASE \E r \in Pruner : Prune(r)
  <2>1. PICK r \in Pruner : Prune(r)
    BY <1>2
  <2>2. UnRecord(r)
    BY <2>1, ReadFields, ListFields, CheckFields, UnMessageFields, UnKeyFields, UnStoreFields, CrashFields
       DEF Prune
  <2> QED
    BY <2>2, UnRecordFields
<1>3. CASE Tick \/ UNCHANGED vars
  BY <1>3 DEF Tick, vars, queue
<1>4. ASSUME NEW c \in Delivery, Dispatch(c)
      PROVE  status[d] = "pending" /\ status'[d] \in Terminal
  BY <1>4, DispatchFields
<1>5. ASSUME NEW c \in Delivery, ReplayRead(c) PROVE FALSE
  BY <1>5 DEF ReplayRead, queue
<1>6. ASSUME NEW c \in Delivery, ReplayWrite(c) PROVE ReplayWrite(d) /\ status'[d] = "pending"
  <2>1. c = d
    BY <1>6, ReplayFields
  <2> QED
    BY <1>6, <2>1, ReplayFields
<1> QED
  BY <1>1, <1>2, <1>3, <1>4, <1>5, <1>6 DEF Next

\* Only UnRecord takes from the deliveries there are, and it notes them as pruned.
LEMMA ThereStays ==
    ASSUME Base, [Next]_vars, NEW d \in Delivery, There(d)
    PROVE  There(d)'
<1>1. pruned \subseteq pruned'
  <2>1. CASE \E r \in Pruner : Prune(r)
    BY <2>1, ReadFields, ListFields, CheckFields, UnMessageFields, UnRecordFields, UnKeyFields,
       UnStoreFields, CrashFields DEF Prune
  <2>2. CASE ~\E r \in Pruner : Prune(r)
    BY <2>2, StepCases, PubKeeps
  <2> QED
    BY <2>1, <2>2
<1>2. CASE status'[d] = status[d]
  BY <1>1, <1>2 DEF There
<1>3. CASE status'[d] # status[d]
  BY <1>3, StatusCases DEF There, Terminal
<1> QED
  BY <1>2, <1>3

\* The messages, and the calls that write them.
LEMMA OnlyWriterStores ==
    ASSUME Base, [Next]_vars, NEW m \in messages' \ messages
    PROVE  \E p \in Publisher : PubMessage(p) /\ m = pub[p].id
<1>1. PICK p \in Publisher : Publish(p)
  BY StepCases, ReadFields, ListFields, CheckFields, UnMessageFields, UnRecordFields, UnKeyFields,
     UnStoreFields, CrashFields DEF Prune
<1>2. PubMessage(p)
  BY <1>1 DEF Publish, PubBegin, PubLookup, PubExisting, PubDenied, PubHook, PubKey, PubRecord,
       PubByMessage, PubReturn, PubCrash, store
<1> QED
  BY <1>2 DEF PubMessage

\* How a call comes to write a message, and how it ceases to.
LEMMA WriterSteps ==
    ASSUME Base, [Next]_vars, NEW p \in Publisher
    PROVE  /\ pub'[p].pc \in WritePc => \/ pub[p].pc \in WritePc /\ SameCall(p)
                                        \/ PubHook(p) /\ pub'[p].pc = "message"
           /\ pub[p].pc \in WritePc /\ pub'[p].pc \notin WritePc =>
                \/ PubReturn(p) /\ pub[p].pc = "return"
                \/ pub[p].pc \in CrashPoints
<1>1. CASE Publish(p)
  <2>1. CASE \E key \in Key \cup {NoKey}, payload \in Payload \cup {NoPayload} : PubBegin(p, key, payload)
    BY <2>1, BeginFields DEF WritePc, PubBegin, AtPub
  <2>2. CASE PubLookup(p)
    <3>1. pub'[p].pc \in {"hook", "existing"} /\ pub[p].pc = "lookup"
      BY <2>2, LookupFields DEF PubLookup, AtPub
    <3> QED
      BY <3>1 DEF WritePc
  <2>3. CASE PubExisting(p)
    <3>1. pub'[p].pc = "hook" \/ pub'[p] = IdlePub
      BY <2>3, ExistingFields
    <3>2. pub'[p].pc \notin WritePc
      BY <3>1 DEF WritePc, IdlePub
    <3>3. pub[p].pc \notin WritePc
      BY <2>3 DEF WritePc, PubExisting, AtPub
    <3> QED
      BY <3>2, <3>3
  <2>4. CASE PubDenied(p) \/ PubReturn(p) \/ PubCrash(p)
    BY <2>4, AnswerFields DEF WritePc, PubDenied, PubReturn, PubCrash, AtPub, IdlePub
  <2>5. CASE PubHook(p)
    BY <2>5, HookFields DEF WritePc, PubHook, AtPub
  <2>6. CASE PubMessage(p) \/ PubKey(p) \/ PubByMessage(p)
    BY <2>6, WriteFields DEF WritePc, PubMessage, PubKey, PubByMessage, AtPub
  <2>7. CASE PubRecord(p)
    BY <2>7, RecordFields DEF WritePc, PubRecord, AtPub
  <2> QED
    BY <1>1, <2>1, <2>2, <2>3, <2>4, <2>5, <2>6, <2>7 DEF Publish
<1>2. CASE ~Publish(p)
  <2>1. pub'[p] = pub[p]
    BY <1>2, StepCases, PubEffect, PruneKeeps
  <2> QED
    BY <2>1 DEF SameCall
<1> QED
  BY <1>1, <1>2

LEMMA OneCallNext ==
    ASSUME Base, OneCall, Sequential, [Next]_vars
    PROVE  OneCall'
<1>1. CASE \E p \in Publisher : Publish(p)
  <2>1. PICK p \in Publisher : Publish(p)
    BY <1>1
  <2>2. \A q \in Publisher : q # p => pub'[q] = pub[q]
    BY <2>1, PubEffect
  <2>3. CASE pub'[p].key \in {pub[p].key, NoKey}
    BY <2>2, <2>3 DEF OneCall
  <2>4. CASE pub'[p].key \notin {pub[p].key, NoKey}
    <3>a. ~PubLookup(p) /\ ~PubHook(p)
      BY <2>4, LookupFields, HookFields
    <3>b. ~PubExisting(p) /\ ~PubDenied(p) /\ ~PubReturn(p) /\ ~PubCrash(p)
      BY <2>4, ExistingFields, AnswerFields DEF IdlePub
    <3>c. ~PubMessage(p) /\ ~PubKey(p) /\ ~PubByMessage(p) /\ ~PubRecord(p)
      BY <2>4, WriteFields, RecordFields DEF SameCall
    <3>1. PICK key \in Key \cup {NoKey}, payload \in Payload \cup {NoPayload} : PubBegin(p, key, payload)
      BY <2>1, <3>a, <3>b, <3>c DEF Publish
    <3>2. pub'[p].key = key /\ \A q \in Publisher : pub[q].key # key
      BY <2>4, <3>1, BeginFields DEF PubBegin
    <3> QED
      BY <2>2, <3>2 DEF OneCall
  <2> QED
    BY <2>3, <2>4
<1>2. CASE ~\E p \in Publisher : Publish(p)
  BY <1>2, StepCases, PruneKeeps DEF OneCall
<1> QED
  BY <1>1, <1>2

LEMMA DelInit == Init => DelInv
BY DEF Init, DelInv, OneCall, IdlePub, Fanned, WritePc, WholeOrWriting, AcceptedIsDelivered

LEMMA FannedNext ==
    ASSUME Base, NEW p \in Publisher, Fanned(p), [Next]_vars
    PROVE  Fanned(p)'
<1> SUFFICES ASSUME pub'[p].pc \in WritePc, NEW e \in Endpoint, e \notin pub'[p].left,
                    NEW d, d = <<pub'[p].id, e>>
             PROVE  There(d)'
  BY DEF Fanned, There
<1>1. CASE PubHook(p)
  BY <1>1, HookFields
<1>2. CASE ~PubHook(p)
  <2>1. pub[p].pc \in WritePc /\ SameCall(p)
    BY <1>2, WriterSteps
  <2>2. <<pub[p].id, e>> \in Delivery
    BY <2>1 DEF Base, CallOK, Delivery
  <2>3. CASE e \notin pub[p].left
    <3>1. There(<<pub[p].id, e>>)
      BY <2>1, <2>3 DEF Fanned
    <3>2. d \in Delivery /\ There(d)
      BY <2>1, <2>2, <3>1 DEF SameCall
    <3> QED
      BY <3>2, ThereStays
  <2>4. CASE e \in pub[p].left
    <3>1. Publish(p)
      BY <2>4, StepCases, PubEffect, PruneKeeps
    <3>a. ~PubMessage(p) /\ ~PubKey(p) /\ ~PubByMessage(p)
      BY <2>4, WriteFields
    <3>b. ~PubLookup(p) /\ ~PubExisting(p) /\ ~PubDenied(p)
      BY <2>1 DEF WritePc, PubLookup, PubExisting, PubDenied, AtPub
    <3>c. ~PubReturn(p) /\ ~PubCrash(p)
      BY AnswerFields DEF IdlePub, WritePc
    <3>d. ~\E key \in Key \cup {NoKey}, payload \in Payload \cup {NoPayload} : PubBegin(p, key, payload)
      BY <2>1 DEF WritePc, PubBegin, AtPub
    <3>2. PubRecord(p)
      BY <1>2, <3>1, <3>a, <3>b, <3>c, <3>d DEF Publish
    <3>3. PICK c \in pub[p].left : /\ pub'[p].left = pub[p].left \ {c}
                                   /\ status'[<<pub[p].id, c>>] = "pending"
      BY <3>2, RecordFields
    <3>4. c = e
      BY <2>4, <3>3
    <3>5. status'[d] = "pending"
      BY <2>1, <3>3, <3>4 DEF SameCall
    <3> QED
      BY <3>5 DEF There
  <2> QED
    BY <2>3, <2>4
<1> QED
  BY <1>1, <1>2

LEMMA WholeNext ==
    ASSUME Base, NEW m \in MessageId, Whole(m), [Next]_vars
    PROVE  Whole(m)'
<1> SUFFICES ASSUME NEW e \in Endpoint PROVE There(<<m, e>>)'
  BY DEF Whole
<1>1. PICK d \in Delivery : d = <<m, e>>
  BY DEF Delivery
<1> QED
  BY <1>1, ThereStays DEF Whole, There

LEMMA WholeOrWritingNext ==
    ASSUME Base, FanOutIsWhole, \A p \in Publisher : Fanned(p), WholeOrWriting, [Next]_vars
    PROVE  WholeOrWriting'
<1> SUFFICES ASSUME NEW m \in messages', ~Whole(m)' PROVE \E p \in Publisher : Writing(p, m)'
  BY DEF WholeOrWriting
<1>1. CASE m \notin messages
  <2>1. PICK p \in Publisher : PubMessage(p) /\ m = pub[p].id
    BY <1>1, OnlyWriterStores
  <2>2. Writing(p, m)'
    BY <2>1, WriteFields DEF Writing, SameCall, WritePc
  <2> QED
    BY <2>2
<1>2. CASE m \in messages
  <2>1. m \in MessageId /\ ~Whole(m)
    BY <1>2, WholeNext DEF Base, MsgTypeOK
  <2>2. PICK p \in Publisher : Writing(p, m)
    BY <1>2, <2>1 DEF WholeOrWriting
  <2>3. pub[p].pc \notin {"return", "message"}
    BY <1>2, <2>1, <2>2 DEF Writing, WritePc, Base, CallOK, Fanned, Whole
  <2>4. pub[p].pc \notin CrashPoints
    BY <2>2, <2>3 DEF FanOutIsWhole, Writing, WritePc
  <2>5. pub'[p].pc \in WritePc
    BY <2>2, <2>3, <2>4, WriterSteps DEF Writing
  <2>6. ~PubHook(p)
    BY <2>2 DEF Writing, WritePc, PubHook, AtPub
  <2>7. Writing(p, m)'
    BY <2>2, <2>5, <2>6, WriterSteps DEF Writing, SameCall
  <2> QED
    BY <2>7
<1> QED
  BY <1>1, <1>2

\* A message is answered by the call that wrote it, or by one that found it stored.
LEMMA AnswerSteps ==
    ASSUME Base, [Next]_vars, NEW m \in answered' \ answered
    PROVE  \E p \in Publisher : \/ PubReturn(p) /\ m = pub[p].id
                                \/ PubExisting(p) /\ m = pub[p].id /\ m \in messages
<1>1. PICK p \in Publisher : Publish(p)
  BY StepCases, PruneKeeps
<1>2. PubReturn(p) \/ PubExisting(p)
  BY <1>1 DEF Publish, PubBegin, PubLookup, PubDenied, PubHook, PubKey, PubRecord, PubMessage,
       PubByMessage, PubCrash, Answer
<1>3. CASE PubReturn(p)
  BY <1>3 DEF PubReturn, Answer
<1>4. CASE PubExisting(p)
  BY <1>4, ExistingFields
<1> QED
  BY <1>2, <1>3, <1>4

LEMMA AcceptedNext ==
    ASSUME Base, DelInv, [Next]_vars
    PROVE  AcceptedIsDelivered'
<1> SUFFICES ASSUME NEW d \in Delivery, d[1] \in answered' PROVE There(d)'
  BY DEF AcceptedIsDelivered, There
<1>1. SUFFICES There(d)
  BY <1>1, ThereStays
<1>2. CASE d[1] \in answered
  BY <1>2 DEF DelInv, AcceptedIsDelivered, There
<1>3. CASE d[1] \notin answered
  <2>1. d[2] \in Endpoint /\ d = <<d[1], d[2]>>
    BY DEF Delivery
  <2>2. PICK p \in Publisher : \/ PubReturn(p) /\ d[1] = pub[p].id
                               \/ PubExisting(p) /\ d[1] = pub[p].id /\ d[1] \in messages
    BY <1>3, AnswerSteps
  <2>3. CASE PubReturn(p)
    <3>1. pub[p].pc = "return" /\ pub[p].left = {} /\ Fanned(p) /\ d[1] = pub[p].id
      BY <2>2, <2>3 DEF PubReturn, AtPub, Base, CallOK, DelInv, PubExisting
    <3> QED
      BY <2>1, <3>1 DEF Fanned, WritePc
  <2>4. CASE PubExisting(p)
    <3>1. /\ pub[p].pc = "existing" /\ d[1] = pub[p].id /\ d[1] \in messages
          /\ about[d[1]].key = pub[p].key /\ pub[p].key \in Key
      BY <2>2, <2>4 DEF PubExisting, PubReturn, AtPub, Base, CallOK
    <3>2. ASSUME NEW q \in Publisher, Writing(q, d[1]) PROVE FALSE
      <4>1. pub[q].key = pub[p].key
        BY <3>1, <3>2 DEF Writing, Base, CallOK
      <4>2. q = p
        BY <3>1, <4>1, KeyAssumption DEF DelInv, OneCall
      <4> QED
        BY <3>1, <3>2, <4>2 DEF Writing, WritePc
    <3>3. Whole(d[1])
      BY <3>1, <3>2 DEF DelInv, WholeOrWriting
    <3> QED
      BY <2>1, <3>3 DEF Whole
  <2> QED
    BY <2>2, <2>3, <2>4
<1> QED
  BY <1>2, <1>3

LEMMA DelNext == Base /\ DelInv /\ Sequential /\ FanOutIsWhole /\ [Next]_vars => DelInv'
<1> SUFFICES ASSUME Base, DelInv, Sequential, FanOutIsWhole, [Next]_vars PROVE DelInv'
  OBVIOUS
<1>1. OneCall' /\ AcceptedIsDelivered'
  BY OneCallNext, AcceptedNext DEF DelInv
<1>2. \A p \in Publisher : Fanned(p)'
  BY FannedNext DEF DelInv
<1>3. WholeOrWriting'
  BY WholeOrWritingNext DEF DelInv
<1> QED
  BY <1>1, <1>2, <1>3 DEF DelInv

\* core.ts publish: whoever was answered with a message, by the call that stored it
\* or by a repeated one that found it, can rely on a delivery to every endpoint,
\* until a pass has removed it. For repeated calls that follow each other, and when
\* no call ends in the middle of its fan-out.
THEOREM AcceptedMeansDelivered ==
    ASSUME Sequential, FanOutIsWhole
    PROVE  Spec => []AcceptedIsDelivered
<1>1. Init => Base /\ DelInv
  BY BaseInit, DelInit
<1>2. Base /\ DelInv /\ [Next]_vars => (Base /\ DelInv)'
  BY BaseNext, DelNext
<1>3. Base /\ DelInv => AcceptedIsDelivered
  BY DEF DelInv
<1> QED
  BY <1>1, <1>2, <1>3, PTL DEF Spec

------------------------------------------------------------------------------
(* Retention and publish keep apart: what a pass holds is nobody's to write.    *)

\* There is a maxAge, and a publish call is over before its message is that old.
KeepsPace == Prompt /\ MaxAge \in Nat

Young(p) == pub[p].pc \in WritePc => clock <= about[pub[p].id].createdAt + MaxAge

\* The messages a pass has still to look at.
InPass(r, m) == pruning[r].pc # "idle" /\ m \in pruning[r].todo \cup {pruning[r].id}

Stored(p) == pub[p].pc \in WritePc \ {"message"} => pub[p].id \in messages

ApartInv == /\ \A p \in Publisher : Young(p) /\ Stored(p)
            /\ \A r \in Pruner, p \in Publisher, m \in MessageId : InPass(r, m) => ~Writing(p, m)

\* A pass moves by its own steps.
LEMMA PassSteps ==
    ASSUME Base, [Next]_vars, NEW r \in Pruner
    PROVE  Prune(r) \/ pruning'[r] = pruning[r]
<1>1. CASE \E s \in Pruner : Prune(s)
  <2>1. PICK s \in Pruner : Prune(s)
    BY <1>1
  <2>2. OnlyPass(s)
    BY <2>1, ReadFields, ListFields, CheckFields, UnMessageFields, UnRecordFields, UnKeyFields,
       UnStoreFields, CrashFields DEF Prune
  <2> QED
    BY <2>1, <2>2 DEF OnlyPass
<1>2. CASE ~\E s \in Pruner : Prune(s)
  BY <1>2, StepCases, PubKeeps
<1> QED
  BY <1>1, <1>2

\* A call moves by its own steps.
LEMMA CallSteps ==
    ASSUME Base, [Next]_vars, NEW p \in Publisher
    PROVE  Publish(p) \/ pub'[p] = pub[p]
BY StepCases, PubEffect, PruneKeeps

\* A message is taken from the store by UnStore alone.
LEMMA OnlyUnStoreRemoves ==
    ASSUME Base, [Next]_vars, NEW m \in messages \ messages'
    PROVE  \E r \in Pruner : UnStore(r) /\ m = pruning[r].id /\ pruning[r].pc = "un_store"
<1>1. CASE \E p \in Publisher : Publish(p)
  BY <1>1 DEF Publish, PubBegin, PubLookup, PubExisting, PubDenied, PubHook, PubMessage, PubKey,
       PubRecord, PubByMessage, PubReturn, PubCrash, store
<1>2. CASE \E r \in Pruner : Prune(r)
  <2>1. PICK r \in Pruner : Prune(r)
    BY <1>2
  <2>2. UnStore(r)
    BY <2>1, ReadFields, ListFields, CheckFields, UnMessageFields, UnRecordFields, UnKeyFields,
       CrashFields DEF Prune
  <2> QED
    BY <2>2, UnStoreFields
<1> QED
  BY <1>1, <1>2, StepCases

\* What a message says is written once, by the hook step of its call.
LEMMA AboutStays ==
    ASSUME Base, [Next]_vars, NEW m \in MessageId, Made(m)
    PROVE  about'[m] = about[m]
<1>1. CASE \E p \in Publisher : PubHook(p)
  <2>1. PICK p \in Publisher : PubHook(p)
    BY <1>1
  <2>2. PICK n \in MessageId : /\ about[n] = Blank
                               /\ \A o \in MessageId : o # n => about'[o] = about[o]
    BY <2>1, HookFields
  <2>3. m # n
    BY <2>2 DEF Made, Blank, NoTime
  <2> QED
    BY <2>2, <2>3
<1>2. CASE ~\E p \in Publisher : PubHook(p)
  <2>1. about' = about
    <3>1. CASE \E p \in Publisher : Publish(p)
      BY <1>2, <3>1 DEF Publish, PubBegin, PubLookup, PubExisting, PubDenied, PubMessage, PubKey,
       PubRecord, PubByMessage, PubReturn, PubCrash, store
    <3> QED
      BY <3>1, StepCases, PruneKeeps
  <2> QED
    BY <2>1
<1> QED
  BY <1>1, <1>2

LEMMA ClockSteps ==
    ASSUME Base, [Next]_vars
    PROVE  clock' = clock \/ Tick
BY PubKeeps, PruneKeeps DEF Next, vars, Dispatch, ReplayRead, ReplayWrite

LEMMA YoungNext ==
    ASSUME Base, KeepsPace, NEW p \in Publisher, Young(p), [Next]_vars
    PROVE  Young(p)'
<1> SUFFICES ASSUME pub'[p].pc \in WritePc PROVE clock' <= about'[pub'[p].id].createdAt + MaxAge
  BY DEF Young
<1>0. clock \in Nat /\ MaxAge \in Nat
  BY DEF Base, MsgTypeOK, KeepsPace
<1>1. CASE PubHook(p)
  BY <1>0, <1>1, HookFields, PubKeeps DEF Publish
<1>2. CASE ~PubHook(p)
  <2>1. pub[p].pc \in WritePc /\ pub'[p].id = pub[p].id
    BY <1>2, WriterSteps DEF SameCall
  <2>2. /\ about'[pub'[p].id] = about[pub[p].id] /\ about[pub[p].id].createdAt \in Nat
        /\ clock <= about[pub[p].id].createdAt + MaxAge
    BY <2>1, AboutStays DEF Base, CallOK, Young, Made
  <2>3. CASE Tick
    <3>1. clock < about[pub[p].id].createdAt + MaxAge /\ clock' = clock + 1
      BY <2>1, <2>3 DEF Tick, InTime, KeepsPace, WritePc
    <3> QED
      BY <1>0, <2>2, <3>1
  <2> QED
    BY <2>2, <2>3, ClockSteps
<1> QED
  BY <1>1, <1>2

\* What enters a pass is stored, and older than maxAge.
LEMMA InPassSteps ==
    ASSUME Base, [Next]_vars, NEW r \in Pruner, NEW m, InPass(r, m)'
    PROVE  \/ InPass(r, m)
           \/ /\ PruneRead(r) /\ m \in messages
              /\ MaxAge # NoRule => ~(about[m].createdAt >= clock - MaxAge)
<1>1. CASE pruning'[r] = pruning[r]
  BY <1>1 DEF InPass
<1>2. CASE PruneRead(r)
  <2>1. PICK todo \in SUBSET messages : \E n \in todo :
            /\ Moved(r, "list", todo, n, {}, {})
            /\ MaxAge # NoRule => \A o \in todo : ~(about[o].createdAt >= clock - MaxAge)
    BY <1>2, ReadFields
  <2>2. m \in todo
    BY <2>1 DEF InPass, Moved
  <2> QED
    BY <1>2, <2>1, <2>2
<1>3. CASE NextMessage(r) /\ pruning[r].pc # "idle"
  BY <1>3, NextFields DEF InPass, Ended, Moved
<1>4. CASE PruneCrash(r)
  BY <1>4, CrashFields DEF InPass, Ended, Moved
<1>5. CASE PruneCheck(r) /\ ~NextMessage(r)
  BY <1>5, CheckFields DEF InPass, Moved
<1>6. CASE PruneList(r)
  BY <1>6, ListFields DEF InPass, Moved
<1>7. CASE UnMessage(r)
  BY <1>7, UnMessageFields DEF InPass, Moved
<1>8. CASE UnRecord(r)
  BY <1>8, UnRecordFields DEF InPass, Moved
<1>9. CASE UnKey(r)
  BY <1>9, UnKeyFields DEF InPass, Moved
<1> QED
  BY <1>1, <1>2, <1>3, <1>4, <1>5, <1>6, <1>7, <1>8, <1>9, PassSteps, UnStoreFields, CheckFields DEF Prune

LEMMA ApartNext == Base /\ ApartInv /\ KeepsPace /\ [Next]_vars => ApartInv'
<1> SUFFICES ASSUME Base, ApartInv, KeepsPace, [Next]_vars PROVE ApartInv'
  OBVIOUS
<1>1. \A p \in Publisher : Young(p)'
  BY YoungNext DEF ApartInv
<1>2. ASSUME NEW p \in Publisher, pub'[p].pc \in WritePc \ {"message"}, pub'[p].id \notin messages'
      PROVE  FALSE
  <2>1. pub[p].pc \in WritePc /\ SameCall(p)
    BY <1>2, WriterSteps
  <2>2. CASE pub[p].pc = "message"
    <3>1. Publish(p)
      BY <1>2, <2>2, CallSteps
    <3>2. PubMessage(p)
      <4>1. ~PubCrash(p) /\ ~PubReturn(p) /\ ~PubDenied(p)
        BY <1>2, AnswerFields DEF IdlePub, WritePc
      <4> QED
        BY <2>2, <3>1, <4>1 DEF Publish, PubBegin, PubLookup, PubExisting, PubHook, PubKey, PubRecord,
           PubByMessage, AtPub
    <3> QED
      BY <1>2, <2>1, <3>2 DEF PubMessage, SameCall
  <2>3. CASE pub[p].pc # "message"
    <3>1. pub[p].id \in messages
      BY <2>1, <2>3 DEF ApartInv, Stored
    <3>2. PICK r \in Pruner : pub[p].id = pruning[r].id /\ pruning[r].pc = "un_store"
      BY <1>2, <2>1, <3>1, OnlyUnStoreRemoves DEF SameCall
    <3>3. InPass(r, pub[p].id) /\ Writing(p, pub[p].id) /\ pub[p].id \in MessageId
      BY <2>1, <3>1, <3>2 DEF InPass, Writing, Base, MsgTypeOK
    <3> QED
      BY <3>3 DEF ApartInv
  <2> QED
    BY <2>2, <2>3
<1>3. ASSUME NEW r \in Pruner, NEW p \in Publisher, NEW m \in MessageId, InPass(r, m)', Writing(p, m)'
      PROVE  FALSE
  <2>1. InPass(r, m) \/ (PruneRead(r) /\ m \in messages /\ ~(about[m].createdAt >= clock - MaxAge))
    BY <1>3, InPassSteps DEF KeepsPace, NoRule
  <2>2. Made(m)
    BY <2>1 DEF InPass, Base, PassOK
  <2>3. CASE PubHook(p)
    <3>1. about[m] = Blank
      BY <1>3, <2>3, HookFields DEF Writing
    <3> QED
      BY <2>2, <3>1 DEF Made, Blank, NoTime
  <2>4. CASE ~PubHook(p)
    <3>1. Writing(p, m)
      BY <1>3, <2>4, WriterSteps DEF Writing, SameCall
    <3>2. clock <= about[m].createdAt + MaxAge
      BY <3>1 DEF ApartInv, Young, Writing
    <3>3. InPass(r, m)
      BY <2>1, <2>2, <3>2 DEF KeepsPace, Made, Base, MsgTypeOK
    <3> QED
      BY <3>1, <3>3 DEF ApartInv
  <2> QED
    BY <2>3, <2>4
<1> QED
  BY <1>1, <1>2, <1>3 DEF ApartInv, Stored

LEMMA ApartInit == Init => ApartInv
BY DEF Init, ApartInv, Young, Stored, InPass, IdlePub, IdlePass, WritePc

------------------------------------------------------------------------------
(* Retention removes what is at rest, all of it, and nothing else.              *)

\* No crash between an index entry and its record, in either direction.
EntriesWithRecords == CrashPoints \cap {"by_message", "un_record"} = {}

\* A pass has taken the entry of the delivery and not yet its record.
Doomed(r, d) == pruning[r].pc = "un_record" /\ d \in pruning[r].doomed

\* A call has written the record and not yet the entry.
BeingIndexed(d) == \E p \in Publisher : Writing(p, d[1]) /\ pub[p].pc = "by_message" /\ d[2] \in pub[p].at

AtRest(d) == status[d] # "none" /\ d \notin replayed

Reached(d) == AtRest(d) =>
    \/ d[1] \in messages /\ (d \in byMessage \/ BeingIndexed(d))
    \/ \E r \in Pruner : Doomed(r, d)

\* What a pass has listed is all there is of its message.
Listed(r, d) == pruning[r].pc \notin {"idle", "list"} /\ d[1] = pruning[r].id /\ AtRest(d) =>
    \/ d \in pruning[r].left
    \/ \E s \in Pruner : Doomed(s, d)

Past == {"un_message", "un_record", "un_key", "un_store"}

\* What a pass has found ended has ended.
Terminated(r, d) == pruning[r].pc \in Past /\ d \in pruning[r].left => status[d] # "pending" \/ d \in replayed

Emptied(r) == /\ pruning[r].doomed \subseteq pruning[r].left
              /\ pruning[r].pc # "un_record" => pruning[r].doomed = {}
              /\ pruning[r].pc \in {"un_key", "un_store"} => pruning[r].left = {}

ReachInv ==
    /\ replay \subseteq replayed
    /\ \A d \in Delivery : Reached(d) /\ \A r \in Pruner : Listed(r, d) /\ Terminated(r, d)
    /\ \A r \in Pruner : Emptied(r)

LEMMA ReachInit == Init => ReachInv
BY DEF Init, ReachInv, Reached, AtRest, Listed, Terminated, Emptied, IdlePass, Past, Doomed, Of

LEMMA ReplayKeeps ==
    ASSUME Base, replay \subseteq replayed, [Next]_vars
    PROVE  replay' \subseteq replayed' /\ replayed \subseteq replayed'
<1>1. CASE \E d \in Delivery : ReplayRead(d) \/ ReplayWrite(d)
  BY <1>1 DEF ReplayRead, ReplayWrite
<1>2. CASE ~\E d \in Delivery : ReplayRead(d) \/ ReplayWrite(d)
  BY <1>2, PubKeeps, PruneKeeps DEF Next, vars, Dispatch, Tick
<1> QED
  BY <1>1, <1>2

LEMMA EmptiedNext ==
    ASSUME Base, NEW r \in Pruner, Emptied(r), [Next]_vars
    PROVE  Emptied(r)'
<1>1. CASE pruning'[r] = pruning[r]
  BY <1>1 DEF Emptied
<1>2. CASE PruneRead(r)
  BY <1>2, ReadFields DEF Emptied, Moved
<1>3. CASE NextMessage(r)
  BY <1>3, NextFields DEF Emptied, Ended, Moved
<1>4. CASE PruneCrash(r)
  BY <1>4, CrashFields DEF Emptied, Ended, Moved
<1>5. CASE PruneCheck(r) /\ ~NextMessage(r)
  <2>1. /\ Moved(r, AfterDelivery(r, Records(r)), pruning[r].todo, pruning[r].id, Records(r), {})
    BY <1>5, CheckFields DEF Emptied
  <2>2. AfterDelivery(r, Records(r)) # "un_record"
        /\ (AfterDelivery(r, Records(r)) \in {"un_key", "un_store"} => Records(r) = {})
    BY DEF AfterDelivery
  <2> QED
    BY <2>1, <2>2 DEF Emptied, Moved
<1>6. CASE PruneList(r)
  BY <1>6, ListFields DEF Emptied, Moved
<1>7. CASE UnMessage(r)
  BY <1>7, UnMessageFields DEF Emptied, Moved
<1>8. CASE UnRecord(r)
  <2>1. PICK rest : rest = pruning[r].left \ pruning[r].doomed
    OBVIOUS
  <2>2. Moved(r, AfterDelivery(r, rest), pruning[r].todo, pruning[r].id, rest, {})
    BY <1>8, <2>1, UnRecordFields
  <2>3. AfterDelivery(r, rest) # "un_record"
        /\ (AfterDelivery(r, rest) \in {"un_key", "un_store"} => rest = {})
    BY DEF AfterDelivery
  <2> QED
    BY <2>2, <2>3 DEF Emptied, Moved
<1>9. CASE UnKey(r)
  BY <1>9, UnKeyFields DEF Emptied, Moved
<1> QED
  BY <1>1, <1>2, <1>3, <1>4, <1>5, <1>6, <1>7, <1>8, <1>9, PassSteps, UnStoreFields, CheckFields DEF Prune

\* The pass goes from one message to the next, or past the check of one, or stays
\* where it was; what it has left shrinks by what it has removed.
LEMMA ListedSteps ==
    ASSUME Base, [Next]_vars, NEW r \in Pruner, pruning'[r].pc \notin {"idle", "list"}
    PROVE  \/ PruneList(r) /\ pruning'[r].id = pruning[r].id /\ pruning[r].pc = "list"
              /\ pruning'[r].left = Of(pruning[r].id) \cap byMessage /\ pruning'[r].pc = "check"
              /\ UNCHANGED <<status, replayed>>
           \/ /\ pruning[r].pc \notin {"idle", "list"} /\ pruning'[r].id = pruning[r].id
              /\ \/ pruning[r].pc = "check" /\ pruning'[r].left = Records(r)
                    /\ (\A d \in pruning[r].left : status[d] # "pending") /\ UNCHANGED status
                 \/ UnRecord(r) /\ pruning'[r].left = pruning[r].left \ pruning[r].doomed
                    /\ pruning[r].pc = "un_record"
                 \/ pruning'[r].left = pruning[r].left
                    /\ (pruning'[r].pc \in Past => pruning[r].pc \in Past)
<1>1. CASE pruning'[r] = pruning[r]
  BY <1>1
<1>2. CASE PruneRead(r)
  BY <1>2, ReadFields DEF Moved
<1>3. CASE NextMessage(r)
  BY <1>3, NextFields DEF Ended, Moved
<1>4. CASE PruneCrash(r)
  BY <1>4, CrashFields DEF Ended, Moved
<1>5. CASE PruneCheck(r) /\ ~NextMessage(r)
  BY <1>5, CheckFields DEF Moved
<1>6. CASE PruneList(r)
  BY <1>6, ListFields, PruneKeeps DEF Moved, Prune
<1>7. CASE UnMessage(r)
  BY <1>7, UnMessageFields DEF Moved, Past
<1>8. CASE UnRecord(r)
  BY <1>8, UnRecordFields DEF Moved
<1>9. CASE UnKey(r)
  BY <1>9, UnKeyFields DEF Moved, Past
<1> QED
  BY <1>1, <1>2, <1>3, <1>4, <1>5, <1>6, <1>7, <1>8, <1>9, PassSteps, UnStoreFields, CheckFields DEF Prune

\* A delivery that a pass took the entry of loses its record next.
LEMMA DoomedNext ==
    ASSUME Base, EntriesWithRecords, [Next]_vars, NEW r \in Pruner, NEW d \in Delivery, Doomed(r, d)
    PROVE  Doomed(r, d)' \/ status'[d] = "none"
<1>1. CASE pruning'[r] = pruning[r]
  BY <1>1 DEF Doomed
<1>2. CASE Prune(r)
  <2>1. pruning[r].pc = "un_record" /\ pruning[r].pc \notin CrashPoints
    BY DEF Doomed, EntriesWithRecords
  <2>2. UnRecord(r)
    BY <1>2, <2>1 DEF Prune, PruneRead, PruneList, PruneCheck, UnMessage, UnKey, UnStore, PruneCrash,
       AtPrune
  <2> QED
    BY <2>2, UnRecordFields DEF Doomed
<1> QED
  BY <1>1, <1>2, PassSteps

\* A delivery being indexed is indexed next.
LEMMA BeingIndexedNext ==
    ASSUME Base, EntriesWithRecords, [Next]_vars, NEW d \in Delivery, BeingIndexed(d)
    PROVE  BeingIndexed(d)' \/ d \in byMessage'
<1>1. PICK p \in Publisher : Writing(p, d[1]) /\ pub[p].pc = "by_message" /\ d[2] \in pub[p].at
  BY DEF BeingIndexed
<1>2. CASE pub'[p] = pub[p]
  BY <1>1, <1>2 DEF BeingIndexed, Writing
<1>3. CASE Publish(p)
  <2>1. pub[p].pc \notin CrashPoints
    BY <1>1 DEF EntriesWithRecords
  <2>2. PubByMessage(p)
    BY <1>1, <1>3, <2>1 DEF Publish, PubBegin, PubLookup, PubExisting, PubDenied, PubHook, PubMessage,
       PubKey, PubRecord, PubReturn, PubCrash, AtPub
  <2>3. byMessage' = byMessage \cup ({pub[p].id} \X pub[p].at)
    BY <2>2 DEF PubByMessage
  <2>4. d = <<d[1], d[2]>> /\ d[1] = pub[p].id
    BY <1>1 DEF Delivery, Writing
  <2> QED
    BY <1>1, <2>3, <2>4
<1> QED
  BY <1>2, <1>3, CallSteps

\* An entry leaves the index by UnMessage alone.
LEMMA EntrySteps ==
    ASSUME Base, [Next]_vars, NEW d \in byMessage \ byMessage'
    PROVE  \E r \in Pruner : Doomed(r, d)'
<1>1. CASE \E p \in Publisher : Publish(p)
  BY <1>1 DEF Publish, PubBegin, PubLookup, PubExisting, PubDenied, PubHook, PubMessage, PubKey,
       PubRecord, PubByMessage, PubReturn, PubCrash, queue
<1>2. CASE \E r \in Pruner : Prune(r)
  <2>1. PICK r \in Pruner : Prune(r)
    BY <1>2
  <2>2. UnMessage(r)
    BY <2>1, ReadFields, ListFields, CheckFields, UnRecordFields, UnKeyFields, UnStoreFields,
       CrashFields DEF Prune
  <2>3. PICK c \in pruning[r].left :
            /\ byMessage' = byMessage \ {c}
            /\ Moved(r, "un_record", pruning[r].todo, pruning[r].id, pruning[r].left, {c})
    BY <2>2, UnMessageFields
  <2> QED
    BY <2>3 DEF Doomed, Moved
<1>3. CASE UNCHANGED byMessage
  BY <1>3
<1> QED
  BY <1>1, <1>2, <1>3 DEF Next, vars, Dispatch, ReplayRead, ReplayWrite, Tick, queue

LEMMA RestSteps ==
    ASSUME Base, replay \subseteq replayed, [Next]_vars, NEW d \in Delivery, AtRest(d)'
    PROVE  \/ AtRest(d)
           \/ \E p \in Publisher : PubRecord(p) /\ d[1] = pub[p].id /\ d[2] \in pub'[p].at
<1>1. replayed \subseteq replayed'
  BY ReplayKeeps
<1>2. CASE status'[d] = status[d]
  BY <1>1, <1>2 DEF AtRest
<1>3. CASE status'[d] # status[d]
  <2>1. ~ReplayWrite(d)
    BY <1>1 DEF AtRest, ReplayWrite
  <2> QED
    BY <1>1, <1>3, <2>1, StatusCases DEF AtRest
<1> QED
  BY <1>2, <1>3

\* A pass and a call that writes a delivery are never about the same message.
LEMMA NotInPass ==
    ASSUME Base, ApartInv, NEW r \in Pruner, NEW p \in Publisher, pub[p].pc \in WritePc,
           pruning[r].pc # "idle"
    PROVE  pub[p].id # pruning[r].id
<1>1. pub[p].id \in MessageId /\ Writing(p, pub[p].id)
  BY DEF Base, CallOK, Writing
<1> QED
  BY <1>1 DEF ApartInv, InPass

LEMMA ReachedNext ==
    ASSUME Base, ApartInv, ReachInv, EntriesWithRecords, [Next]_vars, NEW d \in Delivery
    PROVE  Reached(d)'
<1> SUFFICES ASSUME AtRest(d)', ~\E r \in Pruner : Doomed(r, d)'
             PROVE  d[1] \in messages' /\ (d \in byMessage' \/ BeingIndexed(d)')
  BY DEF Reached
<1>1. ASSUME NEW p \in Publisher, PubRecord(p), d[1] = pub[p].id, d[2] \in pub'[p].at
      PROVE  d[1] \in messages' /\ BeingIndexed(d)'
  <2>1. pub[p].pc = "record" /\ messages' = messages
    BY <1>1 DEF PubRecord, AtPub, store
  <2>2. d[1] \in messages
    BY <1>1, <2>1 DEF ApartInv, Stored, WritePc
  <2>3. SameCall(p) /\ pub'[p].pc = "by_message"
    BY <1>1, RecordFields
  <2>4. Writing(p, d[1])'
    BY <1>1, <2>3 DEF Writing, SameCall, WritePc
  <2> QED
    BY <1>1, <2>1, <2>2, <2>3, <2>4 DEF BeingIndexed
<1>2. CASE AtRest(d)
  <2>1. ASSUME NEW s \in Pruner, Doomed(s, d) PROVE FALSE
    BY <2>1, DoomedNext DEF AtRest
  <2>2. d[1] \in messages /\ (d \in byMessage \/ BeingIndexed(d))
    BY <1>2, <2>1 DEF ReachInv, Reached
  <2>3. ASSUME d[1] \notin messages' PROVE FALSE
    <3>1. PICK r \in Pruner : d[1] = pruning[r].id /\ pruning[r].pc = "un_store"
      BY <2>2, <2>3, OnlyUnStoreRemoves
    <3>2. d \in pruning[r].left
      BY <1>2, <2>1, <3>1 DEF ReachInv, Listed
    <3> QED
      BY <3>1, <3>2 DEF ReachInv, Emptied
  <2>4. d \in byMessage => d \in byMessage'
    BY EntrySteps
  <2> QED
    BY <2>2, <2>3, <2>4, BeingIndexedNext
<1> QED
  BY <1>1, <1>2, RestSteps DEF ReachInv

LEMMA ListedNext ==
    ASSUME Base, ApartInv, ReachInv, EntriesWithRecords, [Next]_vars, NEW r \in Pruner,
           NEW d \in Delivery
    PROVE  Listed(r, d)'
<1> SUFFICES ASSUME pruning'[r].pc \notin {"idle", "list"}, d[1] = pruning'[r].id, AtRest(d)',
                    ~\E s \in Pruner : Doomed(s, d)'
             PROVE  d \in pruning'[r].left
  BY DEF Listed
<1>0. pruning[r].pc # "idle" /\ pruning'[r].id = pruning[r].id
  BY ListedSteps
<1>1. AtRest(d)
  <2>1. ASSUME NEW p \in Publisher, PubRecord(p), d[1] = pub[p].id PROVE FALSE
    BY <1>0, <2>1, NotInPass DEF PubRecord, AtPub, WritePc
  <2> QED
    BY <2>1, RestSteps DEF ReachInv
<1>2. ASSUME NEW s \in Pruner, Doomed(s, d) PROVE FALSE
  BY <1>2, DoomedNext DEF AtRest
<1>3. CASE PruneList(r) /\ pruning'[r].left = Of(pruning[r].id) \cap byMessage
  <2>1. ~BeingIndexed(d)
    BY <1>0, NotInPass DEF BeingIndexed, Writing
  <2>2. d \in byMessage
    BY <1>1, <1>2, <2>1 DEF ReachInv, Reached
  <2> QED
    BY <1>0, <1>3, <2>2 DEF Of
<1>4. CASE pruning[r].pc \notin {"idle", "list"}
  <2>1. d \in pruning[r].left
    BY <1>0, <1>1, <1>2, <1>4 DEF ReachInv, Listed
  <2>2. d \in Records(r)
    BY <1>1, <2>1 DEF AtRest, Records
  <2>3. UnRecord(r) => d \notin pruning[r].doomed
    BY UnRecordFields DEF AtRest
  <2> QED
    BY <1>4, <2>1, <2>2, <2>3, ListedSteps
<1> QED
  BY <1>3, <1>4, ListedSteps

LEMMA TerminatedNext ==
    ASSUME Base, ApartInv, ReachInv, [Next]_vars, NEW r \in Pruner, NEW d \in Delivery
    PROVE  Terminated(r, d)'
<1> SUFFICES ASSUME pruning'[r].pc \in Past, d \in pruning'[r].left, status'[d] = "pending",
                    d \notin replayed'
             PROVE  FALSE
  BY DEF Terminated
<1>0. d \notin replayed /\ d \notin replay
  BY ReplayKeeps DEF ReachInv
<1>1. pruning'[r].pc \notin {"idle", "list", "check"}
  BY DEF Past
<1>2. d \in pruning[r].left /\ pruning[r].pc # "idle" /\ status[d] # "pending"
  BY <1>0, <1>1, ListedSteps DEF ReachInv, Terminated, Records, Past
<1>3. d[1] = pruning[r].id
  BY <1>2 DEF Base, PassOK, Of
<1>4. ASSUME NEW p \in Publisher, PubRecord(p), d[1] = pub[p].id PROVE FALSE
  BY <1>2, <1>3, <1>4, NotInPass DEF PubRecord, AtPub, WritePc
<1>5. ~ReplayWrite(d)
  BY <1>0 DEF ReplayWrite
<1> QED
  BY <1>2, <1>4, <1>5, StatusCases DEF Terminal

LEMMA ReachNext == Base /\ ApartInv /\ ReachInv /\ EntriesWithRecords /\ [Next]_vars => ReachInv'
<1> SUFFICES ASSUME Base, ApartInv, ReachInv, EntriesWithRecords, [Next]_vars PROVE ReachInv'
  OBVIOUS
<1>1. (replay \subseteq replayed)'
  BY ReplayKeeps DEF ReachInv
<1>2. \A r \in Pruner : Emptied(r)'
  BY EmptiedNext DEF ReachInv
<1> QED
  BY <1>1, <1>2, ReachedNext, ListedNext, TerminatedNext DEF ReachInv

LEMMA ReachHolds ==
    ASSUME KeepsPace, EntriesWithRecords
    PROVE  Spec => [](Base /\ ApartInv /\ ReachInv)
<1>1. Init => Base /\ ApartInv /\ ReachInv
  BY BaseInit, ApartInit, ReachInit
<1>2. Base /\ ApartInv /\ ReachInv /\ [Next]_vars => (Base /\ ApartInv /\ ReachInv)'
  BY BaseNext, ApartNext, ReachNext
<1> QED
  BY <1>1, <1>2, PTL DEF Spec

\* core.ts pruneMessagesForApp: every delivery at rest has its message, and is in
\* the index that a pass finds the deliveries of a message by, whatever number of
\* passes run. For publish calls that are over before their message is maxAge old,
\* and when nothing ends between an index entry and its record.
THEOREM RetentionReachesAll ==
    ASSUME KeepsPace, EntriesWithRecords
    PROVE  Spec => []RetentionReaches
<1>1. Base /\ ReachInv => RetentionReaches
  <2> SUFFICES ASSUME Base, ReachInv, NEW d \in Delivery, AtRest(d), ~Publishing(d[1]), ~Deleting(d[1])
               PROVE  d[1] \in messages /\ d \in byMessage
    BY DEF RetentionReaches, AtRest
  <2>1. ~BeingIndexed(d)
    BY DEF Publishing, BeingIndexed, Writing
  <2>2. ASSUME NEW r \in Pruner, Doomed(r, d) PROVE FALSE
    <3>1. pruning[r].id = d[1] /\ pruning[r].pc = "un_record"
      BY <2>2 DEF Doomed, Base, PassOK, Of
    <3> QED
      BY <3>1 DEF Deleting
  <2> QED
    BY <2>1, <2>2 DEF ReachInv, Reached
<1> QED
  BY <1>1, ReachHolds, PTL

\* core.ts pruneMessagesForApp, "Never prune a message the dispatcher still needs":
\* no pass removes a pending delivery, or the message of one, or a message that a
\* publish call is still writing, unless a replay has made the delivery pending.
\* With the hypotheses of the theorem above.
THEOREM PruneSparesTheNeeded ==
    ASSUME KeepsPace, EntriesWithRecords
    PROVE  Spec => NothingNeededIsPruned
<1>1. ASSUME Base, ApartInv, ReachInv, [Next]_vars
      PROVE  [/\ \A d \in Delivery : status[d] = "pending" /\ status'[d] = "none" => d \in replayed
              /\ \A m \in messages \ messages' :
                    /\ ~Publishing(m)
                    /\ \A d \in Of(m) : status[d] = "pending" => d \in replayed]_vars
  <2>1. ASSUME NEW d \in Delivery, status[d] = "pending", status'[d] = "none" PROVE d \in replayed
    <3>1. PICK r \in Pruner : UnRecord(r) /\ d \in pruning[r].doomed
      BY <1>1, <2>1, StatusCases DEF Terminal
    <3>2. pruning[r].pc \in Past /\ d \in pruning[r].left
      BY <1>1, <3>1 DEF UnRecord, AtPrune, Past, ReachInv, Emptied
    <3> QED
      BY <1>1, <2>1, <3>2 DEF ReachInv, Terminated
  <2>2. ASSUME NEW m \in messages \ messages'
        PROVE  ~Publishing(m) /\ \A d \in Of(m) : status[d] = "pending" => d \in replayed
    <3>1. PICK r \in Pruner : m = pruning[r].id /\ pruning[r].pc = "un_store"
      BY <1>1, <2>2, OnlyUnStoreRemoves
    <3>2. m \in MessageId /\ m # NoMessage
      BY <1>1, <2>2 DEF Base, MsgTypeOK, MessageId, NoMessage
    <3>3. ASSUME NEW p \in Publisher, pub[p].id = m, pub[p].pc # "existing" PROVE FALSE
      <4>1. CallOK(p) /\ pub[p].pc \in PubPc
        BY <1>1 DEF Base, MsgTypeOK, Pub
      <4>2. pub[p].pc \in WritePc
        BY <3>2, <3>3, <4>1 DEF CallOK, WritePc, PubPc
      <4> QED
        BY <1>1, <3>1, <3>3, <4>2, NotInPass
    <3>4. ASSUME NEW d \in Of(m), status[d] = "pending", d \notin replayed PROVE FALSE
      <4>1. d \in Delivery /\ d[1] = m /\ AtRest(d)
        BY <3>4 DEF Of, AtRest
      <4>2. pruning[r].left = {}
        BY <1>1, <3>1 DEF ReachInv, Emptied
      <4>3. PICK s \in Pruner : Doomed(s, d)
        BY <1>1, <3>1, <4>1, <4>2 DEF ReachInv, Listed
      <4>4. pruning[s].pc \in Past /\ d \in pruning[s].left
        BY <1>1, <4>3 DEF Doomed, Past, ReachInv, Emptied
      <4> QED
        BY <1>1, <3>4, <4>1, <4>4 DEF ReachInv, Terminated
    <3> QED
      BY <3>3, <3>4 DEF Publishing
  <2> QED
    BY <2>1, <2>2
<1> QED
  BY <1>1, ReachHolds, PTL DEF Spec, NothingNeededIsPruned

------------------------------------------------------------------------------
(* A key leads to its message.                                                  *)

\* No two passes at a time: one removes a key by its name, and would take the key
\* of a message published after the other removed the first.
OnePass == \A r, s \in Pruner : r = s

\* No crash between a message and its key, in either direction.
KeysWithMessages == CrashPoints \cap {"key", "un_store"} = {}

Unstoring(m) == \E r \in Pruner : AtPrune(r, "un_store") /\ pruning[r].id = m

AtKey(m) == \E p \in Publisher : AtPub(p, "key") /\ pub[p].id = m

KeyLeads(m) == about[m].key # NoKey => idem[about[m].key] = m \/ AtKey(m) \/ Unstoring(m)

\* The key still leads to the message that the call has found under it.
Found(p) == AtPub(p, "existing") => idem[pub[p].key] \in {pub[p].id, NoMessage}

\* A call that is about to store a message is the only one with its key.
NoOther(p) ==
    pub[p].pc \in {"hook", "message", "key"} /\ pub[p].key # NoKey =>
        \A m \in messages : about[m].key = pub[p].key => m = pub[p].id \/ Unstoring(m)

PassThere(r) == pruning[r].pc # "idle" => pruning[r].todo \cup {pruning[r].id} \subseteq messages

KeyInv == /\ OneCall
          /\ \A m \in messages : KeyLeads(m)
          /\ \A p \in Publisher : Found(p) /\ NoOther(p)
          /\ \A r \in Pruner : PassThere(r)

LEMMA KeyInit == Init => KeyInv
BY DEF Init, KeyInv, OneCall, Found, NoOther, PassThere, IdlePub, IdlePass, AtPub

\* The keys are written by PubKey and removed by UnKey.
LEMMA IdemSteps ==
    ASSUME Base, [Next]_vars, NEW k \in Key, idem'[k] # idem[k]
    PROVE  \/ \E p \in Publisher : PubKey(p) /\ pub[p].key = k /\ idem'[k] = pub[p].id
           \/ \E r \in Pruner : UnKey(r) /\ about[pruning[r].id].key = k /\ idem'[k] = NoMessage
<1>0. idem \in [Key -> 0 .. MaxMessages]
  BY DEF Base, MsgTypeOK
<1>1. CASE \E p \in Publisher : Publish(p)
  <2>1. PICK p \in Publisher : Publish(p)
    BY <1>1
  <2>2. PubKey(p)
    BY <2>1 DEF Publish, PubBegin, PubLookup, PubExisting, PubDenied, PubHook, PubMessage,
       PubRecord, PubByMessage, PubReturn, PubCrash, store
  <2> QED
    BY <1>0, <2>2 DEF PubKey
<1>2. CASE \E r \in Pruner : Prune(r)
  <2>1. PICK r \in Pruner : Prune(r)
    BY <1>2
  <2>2. UnKey(r)
    BY <2>1, ReadFields, ListFields, CheckFields, UnMessageFields, UnRecordFields, UnStoreFields,
       CrashFields DEF Prune
  <2> QED
    BY <1>0, <2>2, UnKeyFields
<1> QED
  BY <1>1, <1>2, StepCases

LEMMA UnstoringNext ==
    ASSUME Base, KeysWithMessages, [Next]_vars, NEW m, Unstoring(m)
    PROVE  Unstoring(m)' \/ m \notin messages'
<1>1. PICK r \in Pruner : pruning[r].pc = "un_store" /\ pruning[r].id = m
  BY DEF Unstoring, AtPrune
<1>2. CASE pruning'[r] = pruning[r]
  BY <1>1, <1>2 DEF Unstoring, AtPrune
<1>3. CASE Prune(r)
  <2>1. UnStore(r)
    BY <1>1, <1>3 DEF Prune, PruneRead, PruneList, PruneCheck, UnMessage, UnRecord, UnKey, PruneCrash,
       AtPrune, KeysWithMessages
  <2> QED
    BY <1>1, <2>1, UnStoreFields
<1> QED
  BY <1>2, <1>3, PassSteps

\* Of two calls with one key there is one.
LEMMA AtKeyIs ==
    ASSUME Base, OneCall, NEW p \in Publisher, NEW m \in MessageId, AtKey(m), about[m].key = pub[p].key
    PROVE  pub[p].pc = "key" /\ pub[p].id = m
<1>1. PICK q \in Publisher : pub[q].pc = "key" /\ pub[q].id = m
  BY DEF AtKey, AtPub
<1>2. about[m].key = pub[q].key /\ pub[q].key # NoKey
  BY <1>1, KeyAssumption DEF Base, CallOK, WritePc
<1> QED
  BY <1>1, <1>2 DEF OneCall

LEMMA KeyLeadsNext ==
    ASSUME Base, ApartInv, KeyInv, OnePass, KeysWithMessages, [Next]_vars, NEW m \in messages'
    PROVE  KeyLeads(m)'
<1> SUFFICES ASSUME about'[m].key # NoKey, ~AtKey(m)', ~Unstoring(m)' PROVE idem'[about'[m].key] = m
  BY DEF KeyLeads
<1>1. CASE m \notin messages
  <2>1. PICK p \in Publisher : PubMessage(p) /\ m = pub[p].id
    BY <1>1, OnlyWriterStores
  <2>2. about[m].key = pub[p].key /\ about' = about
    BY <2>1 DEF PubMessage, AtPub, Base, CallOK, WritePc
  <2>3. AtKey(m)'
    BY <2>1, <2>2, WriteFields DEF AtKey, AtPub, SameCall
  <2> QED
    BY <2>3
<1>2. CASE m \in messages
  <2>1. /\ m \in MessageId /\ about'[m] = about[m] /\ KeyLeads(m)
        /\ about[m].key \in Key
    BY <1>2, AboutStays DEF Base, MsgTypeOK, Message, KeyInv
  <2>2. ~Unstoring(m)
    BY UnstoringNext
  <2>3. CASE AtKey(m)
    <3>1. PICK p \in Publisher : pub[p].pc = "key" /\ pub[p].id = m
      BY <2>3 DEF AtKey, AtPub
    <3>2. Publish(p)
      BY <3>1, CallSteps DEF AtKey, AtPub
    <3>3. PubKey(p)
      BY <3>1, <3>2 DEF Publish, PubBegin, PubLookup, PubExisting, PubDenied, PubHook, PubMessage,
         PubRecord, PubByMessage, PubReturn, PubCrash, AtPub, KeysWithMessages
    <3>4. pub[p].key = about[m].key
      BY <3>1 DEF Base, CallOK, WritePc
    <3>5. idem' = [idem EXCEPT ![pub[p].key] = pub[p].id] /\ idem \in [Key -> 0 .. MaxMessages]
      BY <3>3 DEF PubKey, Base, MsgTypeOK
    <3> QED
      BY <2>1, <3>1, <3>4, <3>5
  <2>4. CASE ~AtKey(m)
    <3>1. idem[about[m].key] = m
      BY <1>2, <2>1, <2>2, <2>4 DEF KeyLeads
    <3> SUFFICES ASSUME idem'[about[m].key] # idem[about[m].key] PROVE FALSE
      BY <2>1, <3>1
    <3>2. ASSUME NEW p \in Publisher, PubKey(p), pub[p].key = about[m].key, idem'[about[m].key] = pub[p].id
          PROVE  FALSE
      <4>1. pub[p].pc = "key" /\ pub[p].key # NoKey
        BY <2>1, <3>2, KeyAssumption DEF PubKey, AtPub
      <4>2. m = pub[p].id
        BY <1>2, <2>2, <3>2, <4>1 DEF KeyInv, NoOther
      <4> QED
        BY <4>1, <4>2, <2>4 DEF AtKey, AtPub
    <3>3. ASSUME NEW r \in Pruner, UnKey(r), about[pruning[r].id].key = about[m].key PROVE FALSE
      <4>1. PICK n : n = pruning[r].id
        OBVIOUS
      <4>2. pruning[r].pc = "un_key" /\ Unstoring(n)'
        BY <3>3, <4>1, UnKeyFields DEF Moved, Unstoring, AtPrune
      <4>3. n \in messages /\ n # m /\ n \in MessageId /\ InPass(r, n)
        BY <4>1, <4>2 DEF KeyInv, PassThere, InPass, Base, MsgTypeOK
      <4>4. ~AtKey(n)
        BY <4>3 DEF ApartInv, AtKey, AtPub, Writing, WritePc
      <4>5. ~Unstoring(n)
        BY <4>2 DEF Unstoring, AtPrune, OnePass
      <4>6. idem[about[n].key] = n
        BY <2>1, <3>3, <4>1, <4>3, <4>4, <4>5, KeyAssumption DEF KeyInv, KeyLeads
      <4> QED
        BY <3>1, <3>3, <4>1, <4>3, <4>6
    <3> QED
      BY <2>1, <3>2, <3>3, IdemSteps
  <2> QED
    BY <2>3, <2>4
<1> QED
  BY <1>1, <1>2

LEMMA FoundNext ==
    ASSUME Base, OneCall, NEW p \in Publisher, Found(p), [Next]_vars
    PROVE  Found(p)'
<1> SUFFICES ASSUME pub'[p].pc = "existing" PROVE idem'[pub'[p].key] \in {pub'[p].id, NoMessage}
  BY DEF Found, AtPub
<1>1. CASE pub'[p] = pub[p]
  <2>1. pub[p].key \in Key /\ pub[p].key # NoKey /\ idem[pub[p].key] \in {pub[p].id, NoMessage}
    BY <1>1, KeyAssumption DEF Base, CallOK, Found, AtPub
  <2>2. ASSUME NEW q \in Publisher, PubKey(q), pub[q].key = pub[p].key PROVE FALSE
    BY <1>1, <2>1, <2>2 DEF OneCall, PubKey, AtPub
  <2> QED
    BY <1>1, <2>1, <2>2, IdemSteps
<1>2. CASE PubLookup(p)
  BY <1>2, LookupFields DEF PubLookup, store
<1>3. CASE Publish(p) /\ ~PubLookup(p)
  <2>1. ~PubExisting(p) /\ ~PubDenied(p) /\ ~PubReturn(p) /\ ~PubCrash(p)
    BY ExistingFields, AnswerFields DEF IdlePub
  <2>2. ~PubMessage(p) /\ ~PubKey(p) /\ ~PubByMessage(p) /\ ~PubRecord(p) /\ ~PubHook(p)
    BY WriteFields, RecordFields, HookFields
  <2>3. ~\E key \in Key \cup {NoKey}, payload \in Payload \cup {NoPayload} : PubBegin(p, key, payload)
    BY BeginFields
  <2> QED
    BY <1>3, <2>1, <2>2, <2>3 DEF Publish
<1> QED
  BY <1>1, <1>2, <1>3, CallSteps

\* How a call comes to be about to store a message, and keep its key for it.
LEMMA ClaimSteps ==
    ASSUME Base, [Next]_vars, NEW p \in Publisher, pub'[p].pc \in {"hook", "message", "key"},
           pub'[p].key # NoKey
    PROVE  \/ PubLookup(p) /\ idem[pub[p].key] = NoMessage /\ pub'[p].key = pub[p].key
           \/ PubExisting(p) /\ pub[p].id \notin messages /\ pub'[p].key = pub[p].key
           \/ /\ pub[p].pc \in {"hook", "message", "key"} /\ pub'[p].key = pub[p].key
              /\ \/ pub'[p].id = pub[p].id
                 \/ PubHook(p)
<1>1. CASE pub'[p] = pub[p]
  BY <1>1
<1>2. CASE Publish(p)
  <2>1. ~PubDenied(p) /\ ~PubReturn(p) /\ ~PubCrash(p)
    BY AnswerFields DEF IdlePub
  <2>2. ~\E key \in Key \cup {NoKey}, payload \in Payload \cup {NoPayload} : PubBegin(p, key, payload)
    BY BeginFields
  <2>3. ~PubKey(p) /\ ~PubByMessage(p) /\ ~PubRecord(p)
    BY WriteFields, RecordFields
  <2>4. CASE PubLookup(p)
    BY <2>4, LookupFields
  <2>5. CASE PubExisting(p)
    BY <2>5, ExistingFields DEF IdlePub
  <2>6. CASE PubHook(p)
    BY <2>6, HookFields DEF PubHook, AtPub
  <2>7. CASE PubMessage(p)
    BY <2>7, WriteFields DEF PubMessage, AtPub, SameCall
  <2> QED
    BY <1>2, <2>1, <2>2, <2>3, <2>4, <2>5, <2>6, <2>7 DEF Publish
<1> QED
  BY <1>1, <1>2, CallSteps

LEMMA NoOtherNext ==
    ASSUME Base, KeyInv, Sequential, KeysWithMessages, [Next]_vars, NEW p \in Publisher
    PROVE  NoOther(p)'
<1> SUFFICES ASSUME pub'[p].pc \in {"hook", "message", "key"}, pub'[p].key # NoKey,
                    NEW m \in messages', about'[m].key = pub'[p].key, ~Unstoring(m)'
             PROVE  m = pub'[p].id
  BY DEF NoOther
<1>0. OneCall /\ OneCall'
  BY OneCallNext DEF KeyInv
<1>1. CASE m \notin messages
  <2>1. PICK q \in Publisher : PubMessage(q) /\ m = pub[q].id
    BY <1>1, OnlyWriterStores
  <2>2. about'[m].key = pub[q].key /\ pub'[q].key = pub[q].key /\ pub'[q].id = m
    BY <2>1, WriteFields DEF PubMessage, AtPub, Base, CallOK, WritePc, SameCall
  <2>3. q = p
    BY <1>0, <2>2 DEF OneCall
  <2> QED
    BY <2>2, <2>3
<1>2. CASE m \in messages
  <2>1. m \in MessageId /\ m # NoMessage /\ about'[m] = about[m] /\ Made(m) /\ KeyLeads(m)
    BY <1>2, AboutStays DEF Base, MsgTypeOK, MessageId, NoMessage, KeyInv
  <2>2. ~Unstoring(m)
    BY UnstoringNext
  <2>3. pub'[p].key = pub[p].key /\ about[m].key = pub[p].key /\ pub[p].key # NoKey
    BY <2>1, ClaimSteps
  <2>4. AtKey(m) => pub[p].pc = "key" /\ pub[p].id = m
    BY <1>0, <2>1, <2>3, AtKeyIs
  <2>5. CASE PubLookup(p) /\ idem[pub[p].key] = NoMessage
    BY <2>1, <2>2, <2>3, <2>4, <2>5 DEF KeyLeads, PubLookup, AtPub
  <2>6. CASE PubExisting(p) /\ pub[p].id \notin messages
    <3>1. idem[pub[p].key] \in {pub[p].id, NoMessage}
      BY <2>6 DEF KeyInv, Found, PubExisting
    <3> QED
      BY <1>2, <2>1, <2>2, <2>3, <2>4, <2>6, <3>1 DEF KeyLeads, PubExisting, AtPub
  <2>7. CASE pub[p].pc \in {"hook", "message", "key"}
    <3>1. m = pub[p].id
      BY <1>2, <2>2, <2>3, <2>7 DEF KeyInv, NoOther
    <3>2. ~PubHook(p)
      BY <2>1, <3>1 DEF PubHook, AtPub, Base, CallOK
    <3>3. ~PubLookup(p) /\ ~PubExisting(p)
      BY <2>7 DEF PubLookup, PubExisting, AtPub
    <3> QED
      BY <3>1, <3>2, <3>3, ClaimSteps
  <2> QED
    BY <2>5, <2>6, <2>7, ClaimSteps
<1> QED
  BY <1>1, <1>2

LEMMA PassThereNext ==
    ASSUME Base, OnePass, NEW r \in Pruner, PassThere(r), [Next]_vars
    PROVE  PassThere(r)'
<1> SUFFICES ASSUME NEW m, InPass(r, m)' PROVE m \in messages'
  BY DEF PassThere, InPass
<1>1. m \in messages
  BY InPassSteps DEF PassThere, InPass
<1> SUFFICES ASSUME m \notin messages' PROVE FALSE
  OBVIOUS
<1>2. PICK s \in Pruner : UnStore(s) /\ m = pruning[s].id
  BY <1>1, OnlyUnStoreRemoves
<1>3. s = r
  BY DEF OnePass
<1>4. NextMessage(r)
  BY <1>2, <1>3, UnStoreFields
<1> QED
  BY <1>2, <1>3, <1>4, NextFields DEF InPass, Ended, Moved

LEMMA KeyNext ==
    Base /\ ApartInv /\ KeyInv /\ Sequential /\ OnePass /\ KeysWithMessages /\ [Next]_vars => KeyInv'
<1> SUFFICES ASSUME Base, ApartInv, KeyInv, Sequential, OnePass, KeysWithMessages, [Next]_vars
             PROVE  KeyInv'
  OBVIOUS
<1>1. OneCall'
  BY OneCallNext DEF KeyInv
<1>2. \A m \in messages' : KeyLeads(m)'
  BY KeyLeadsNext
<1>3. \A p \in Publisher : Found(p)'
  BY FoundNext DEF KeyInv
<1>4. \A p \in Publisher : NoOther(p)'
  BY NoOtherNext
<1>5. \A r \in Pruner : PassThere(r)'
  BY PassThereNext DEF KeyInv
<1> QED
  BY <1>1, <1>2, <1>3, <1>4, <1>5 DEF KeyInv

\* core.ts publish, schema.ts Message.idempotencyKey: a message that is stored with
\* a key is the one its key leads to, so that a repeated publish finds it and none
\* is stored beside it. For calls with a key that follow each other and are over
\* before their message is maxAge old, one pass at a time, and when nothing ends
\* between a message and its key.
THEOREM KeysLeadToMessages ==
    ASSUME KeepsPace, Sequential, OnePass, KeysWithMessages
    PROVE  Spec => []IdempotentOnce
<1>1. Init => Base /\ ApartInv /\ KeyInv
  BY BaseInit, ApartInit, KeyInit
<1>2. Base /\ ApartInv /\ KeyInv /\ [Next]_vars => (Base /\ ApartInv /\ KeyInv)'
  BY BaseNext, ApartNext, KeyNext
<1>3. KeyInv => IdempotentOnce
  <2> SUFFICES ASSUME KeyInv, NEW m \in messages, about[m].key # NoKey, ~Deleting(m),
                      ~(\E p \in Publisher : pub[p].id = m /\ AtPub(p, "key"))
               PROVE  idem[about[m].key] = m
    BY DEF IdempotentOnce
  <2>1. ~Unstoring(m) /\ ~AtKey(m)
    BY DEF Unstoring, AtPrune, Deleting, AtKey
  <2> QED
    BY <2>1 DEF KeyInv, KeyLeads
<1> QED
  BY <1>1, <1>2, <1>3, PTL DEF Spec
==============================================================================
