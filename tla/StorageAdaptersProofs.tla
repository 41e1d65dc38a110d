------------------------ MODULE StorageAdaptersProofs ------------------------
(***************************************************************************)
(* That every storage adapter of StorageAdapters implements the contract   *)
(* of KeyValueStore, for any clients, applications, keys and values, any   *)
(* names that LIKE confuses and any order of calls, outages and pages.     *)
(***************************************************************************)
EXTENDS StorageAdapters, TLAPS

------------------------------------------------------------------------------
(* Every open call is at an await *)

\* A call is open exactly while its client is at an await, and only a write has a file open:
\* no call is left without a step to come and none is answered twice.
Awaits ==
    \A c \in Client :
        /\ call[c].at = "open" <=> step[c] # "idle"
        /\ step[c] \in {"opened", "crossed"} => call[c].ask.op = "setItem"

IInv == TypeOK /\ Awaits

\* The initial states: no call, on any adapter.
LEMMA InitIInv == Init => IInv
<1> SUFFICES ASSUME Init PROVE IInv
  OBVIOUS
<1>1. adapter.connects \in {"never", "once", "retried"}
  BY DEF Init, Adapters, Memory, Postgres, Libsql, Sqlite, DrizzleOn, Mongodb, Redis, CloudflareKv,
         Unstorage, File
<1>2. TypeOK
  BY <1>1 DEF Init, StoreInit, TypeOK, StoreTypeOK, NoCall, Answers, Steps
<1>3. Awaits
  BY DEF Init, StoreInit, Awaits, NoCall
<1> QED
  BY <1>2, <1>3 DEF IInv

\* A client's call, and what an answer makes of it.
Calls == [at : {"idle", "open", "done", "failed"}, ask : Ask \cup {NoCall.ask},
          answer : Answers, looked : SUBSET Key, listed : SUBSET Key]

LEMMA CallTypes ==
    ASSUME NEW r \in Calls
    PROVE  /\ \A at \in {"done", "failed"}, answer \in Answers :
                [r EXCEPT !.at = at, !.answer = answer] \in Calls
           /\ \A ask \in Ask : [r EXCEPT !.at = "open", !.ask = ask] \in Calls
           /\ \A looked, listed \in SUBSET Key :
                [r EXCEPT !.looked = looked, !.listed = listed] \in Calls
BY DEF Calls

LEMMA NewCallTypes ==
    /\ NoCall \in Calls
    /\ \A ask \in Ask : [NoCall EXCEPT !.at = "open", !.ask = ask] \in Calls
<1>1. NoCall \in Calls
  BY DEF NoCall, Calls, Answers
<1>2. ASSUME NEW ask \in Ask PROVE [NoCall EXCEPT !.at = "open", !.ask = ask] \in Calls
  BY <1>1, CallTypes
<1> QED
  BY <1>1, <1>2

\* The key and the value a call is about.
LEMMA AskTypes ==
    ASSUME NEW r \in Calls
    PROVE  /\ r.ask.op \in {"getItem", "setItem", "removeItem", "compareAndSwap"} => r.ask.key \in Key
           /\ r.ask.op \in {"setItem", "compareAndSwap"} => r.ask.value \in Value
           /\ r.ask.op = "getKeys" => r.ask.app \in App
BY DEF Calls, Ask, NoCall

\* The steps of the contract keep the types of its variables.
LEMMA StoreStepTypes ==
    ASSUME StoreTypeOK, StoreNext
    PROVE  StoreTypeOK'
<1>1. store \in [Key -> Value \cup {Absent}] /\ inDoubt \subseteq Key /\ call \in [Client -> Calls]
  BY DEF StoreTypeOK, Calls
<1>2. SUFFICES /\ store' \in [Key -> Value \cup {Absent}] /\ inDoubt' \subseteq Key
               /\ call' \in [Client -> Calls]
  BY DEF StoreTypeOK, Calls
<1>3. \A c \in Client, answer \in Answers : Answered(c, answer) \in [Client -> Calls]
  <2> SUFFICES ASSUME NEW c \in Client, NEW answer \in Answers
               PROVE  Answered(c, answer) \in [Client -> Calls]
    OBVIOUS
  <2>1. [call[c] EXCEPT !.at = "done", !.answer = answer] \in Calls
    BY <1>1, CallTypes
  <2> QED
    BY <1>1, <2>1 DEF Answered
<1>4. {"ok", "swapped", "refused", "error", Absent} \cup Value \subseteq Answers
  BY DEF Answers
<1>5. ASSUME NEW c \in Client, NEW ask \in Ask, Called(c, ask) PROVE <1>2!1
  BY <1>1, <1>5, NewCallTypes DEF Called
<1>6. ASSUME NEW c \in Client, Read(c) PROVE <1>2!1
  <2>1. store[call[c].ask.key] \in Answers
    BY <1>1, <1>4, <1>6, AskTypes DEF Read, Open
  <2> QED
    BY <1>1, <1>3, <1>6, <2>1 DEF Read
<1>7. ASSUME NEW c \in Client, WriteBegins(c) PROVE <1>2!1
  BY <1>1, <1>7, AskTypes DEF WriteBegins, Open
<1>8. ASSUME NEW c \in Client, Written(c) PROVE <1>2!1
  <2>1. call[c].ask.key \in Key /\ call[c].ask.value \in Value
    BY <1>1, <1>8, AskTypes DEF Written, Open
  <2> QED
    BY <1>1, <1>3, <1>4, <1>8, <2>1 DEF Written
<1>9. ASSUME NEW c \in Client, Removed(c) PROVE <1>2!1
  <2>1. call[c].ask.key \in Key
    BY <1>1, <1>9, AskTypes DEF Removed, Open
  <2>2. store' \in [Key -> Value \cup {Absent}] /\ inDoubt' \subseteq Key
    BY <1>1, <1>9, <2>1 DEF Removed
  <2>3. PICK overtaken \in SUBSET Writers(call[c].ask.key) :
            call' = [w \in Client |-> IF w \in overtaken \cup {c} THEN Answered(w, "ok")[w] ELSE call[w]]
    BY <1>9 DEF Removed
  <2>4. \A w \in Client : Answered(w, "ok")[w] \in Calls
    BY <1>3, <1>4
  <2> QED
    BY <1>1, <2>2, <2>3, <2>4
<1>10. ASSUME NEW c \in Client, Swapped(c) PROVE <1>2!1
  <2>1. call[c].ask.key \in Key /\ call[c].ask.value \in Value
    BY <1>1, <1>10, AskTypes DEF Swapped, Open
  <2> QED
    BY <1>1, <1>3, <1>4, <1>10, <2>1 DEF Swapped
<1>11. ASSUME NEW c \in Client, NEW keys \in SUBSET Key, Looked(c, keys) PROVE <1>2!1
  <2> DEFINE there == {k \in keys : store[k] # Absent}
             must == {k \in there : AppOf[k] = call[c].ask.app}
             may == {k \in there \cup (keys \cap inDoubt) : AppOf[k] \in Alike[call[c].ask.app]}
  <2>1. PICK extra \in SUBSET may :
            call' = [call EXCEPT ![c].looked = @ \cup keys, ![c].listed = @ \cup must \cup extra]
    BY <1>11 DEF Looked
  <2>2. call[c].looked \cup keys \in SUBSET Key /\ call[c].listed \cup must \cup extra \in SUBSET Key
    BY <1>1 DEF Calls
  <2>3. [call[c] EXCEPT !.looked = @ \cup keys, !.listed = @ \cup must \cup extra] \in Calls
    BY <1>1, <2>2, CallTypes
  <2> HIDE DEF must, may
  <2> QED
    BY <1>1, <1>11, <2>1, <2>3 DEF Looked
<1>12. ASSUME NEW c \in Client, ListingEnds(c) PROVE <1>2!1
  BY <1>1, <1>3, <1>4, <1>12 DEF ListingEnds
<1>13. ASSUME NEW c \in Client, Returned(c) PROVE <1>2!1
  BY <1>1, <1>13, NewCallTypes DEF Returned
<1>14. ASSUME NEW clients \in SUBSET Client, Failed(clients) PROVE <1>2!1
  <2>1. \A c \in Client : [call[c] EXCEPT !.at = "failed", !.answer = "error"] \in Calls
    BY <1>1, <1>4, CallTypes
  <2> QED
    BY <1>1, <1>14, <2>1 DEF Failed
<1> QED
  BY <1>5, <1>6, <1>7, <1>8, <1>9, <1>10, <1>11, <1>12, <1>13, <1>14 DEF StoreNext

------------------------------------------------------------------------------
(* The lists of keys *)

\* Whatever pattern an adapter lists with, it finds the application asked for and none but
\* those whose names are alike (prefixes, LIKE with its wildcards escaped, LIKE of SQLite).
LEMMA FoundIsAlike ==
    ASSUME adapter \in Adapters, NEW app \in App
    PROVE  app \in Found(app) /\ Found(app) \subseteq Alike[app]
<1>1. adapter.pattern \in {"prefix", "like", "like_folding"}
  BY DEF Adapters, Memory, Postgres, Libsql, Sqlite, DrizzleOn, Mongodb, Redis, CloudflareKv,
         Unstorage, File
<1>2. app \in Alike[app]
  BY StoreAssumption
<1>3. CASE adapter.pattern = "prefix"
  BY <1>2, <1>3 DEF Found
<1>4. CASE adapter.pattern = "like"
  BY <1>2, <1>4 DEF Found, escapeLike
<1>5. CASE adapter.pattern = "like_folding"
  BY <1>2, <1>5 DEF Found, escapeLike
<1> QED
  BY <1>1, <1>3, <1>4, <1>5

\* What a page adds to a listing is what the contract allows: the keys of the application that
\* are there, and beside them keys of applications alike and keys in doubt.
LEMMA PageLooks ==
    ASSUME IInv,
           NEW c \in Client, NEW keys \in SUBSET Key, Page(c, keys)
    PROVE  Looked(c, keys)
<1> DEFINE app == call[c].ask.app
           there == {k \in keys : store[k] # Absent}
           must == {k \in there : AppOf[k] = app}
           may == {k \in there \cup (keys \cap inDoubt) : AppOf[k] \in Alike[app]}
           shown == {k \in keys : AppOf[k] \in Found(app) /\ (store[k] # Absent \/ k \in inDoubt)}
<1>1. Open(c, "getKeys")
  BY DEF Page, At, IInv, Awaits, Open
<1>2. app \in App
  BY <1>1 DEF IInv, TypeOK, StoreTypeOK, Open, Ask, NoCall
<1>3. must \subseteq shown /\ shown \subseteq may
  BY <1>2, FoundIsAlike, StoreAssumption DEF IInv, TypeOK
<1>4. shown \in SUBSET may
  BY <1>3
<1>5. call[c].listed \cup shown = call[c].listed \cup must \cup shown
  BY <1>3
<1>6. call' = [call EXCEPT ![c].looked = @ \cup keys, ![c].listed = @ \cup shown]
  BY DEF Page
<1>7. call' = [call EXCEPT ![c].looked = @ \cup keys, ![c].listed = @ \cup must \cup shown]
  BY <1>5, <1>6
<1> HIDE DEF shown
<1> QED
  BY <1>1, <1>4, <1>7 DEF Page, Looked

------------------------------------------------------------------------------
(* The steps *)

\* Every step of an adapter is a step of the contract, or one it does not see.
LEMMA StepImplements ==
    ASSUME IInv, [Next]_vars
    PROVE  [StoreNext]_storeVars
<1>1. ASSUME NEW c \in Client, Proceed(c) PROVE [StoreNext]_storeVars
  <2>1. CASE getItem(c)
    BY <2>1 DEF getItem, StoreNext
  <2>2. CASE setItem(c) \/ FileWritten(c)
    BY <2>2 DEF setItem, FileWritten, StoreNext
  <2>3. CASE FileTruncated(c)
    BY <2>3 DEF FileTruncated, StoreNext
  <2>4. CASE removeItem(c)
    BY <2>4 DEF removeItem, StoreNext
  <2>5. CASE compareAndSwap(c)
    BY <2>5 DEF compareAndSwap, StoreNext
  <2>6. ASSUME NEW keys \in SUBSET Key, Page(c, keys) PROVE StoreNext
    BY <2>6, PageLooks DEF StoreNext
  <2>7. CASE getKeys(c)
    BY <2>7 DEF getKeys, StoreNext
  <2>8. CASE StatementFails(c)
    BY <2>8 DEF StatementFails, StoreNext
  <2>9. CASE Return(c)
    BY <2>9 DEF Return, StoreNext
  <2> QED
    BY <1>1, <2>1, <2>2, <2>3, <2>4, <2>5, <2>6, <2>7, <2>8, <2>9 DEF Proceed
<1>2. ASSUME NEW c \in Client, NEW ask \in AsksOf[c], Begin(c, ask) PROVE StoreNext
  <2>1. ask \in Ask
    BY AdaptersAssumption
  <2> QED
    BY <1>2, <2>1 DEF Begin, StoreNext
<1>3. ASSUME NEW c \in Client, AnswerLost(c) PROVE StoreNext
  BY <1>3 DEF AnswerLost, StoreNext
<1>4. CASE ConnectionFails
  BY <1>4 DEF ConnectionFails, StoreNext, Waiting
<1>5. CASE ConnectionOpens \/ Stops \/ Works \/ UNCHANGED vars
  BY <1>5 DEF ConnectionOpens, Stops, Works, vars
<1> QED
  BY <1>1, <1>2, <1>3, <1>4, <1>5 DEF Next

\* What a step does to the adapter's own variables.
LEMMA StepTypes ==
    ASSUME IInv, [Next]_vars
    PROVE  TypeOK'
<1>1. StoreTypeOK'
  BY StepImplements, StoreStepTypes DEF IInv, TypeOK, storeVars, StoreTypeOK
<1>2. adapter' = adapter /\ up' \in BOOLEAN
  BY DEF IInv, TypeOK, Next, Proceed, vars, getItem, setItem, FileTruncated, FileWritten, removeItem,
         compareAndSwap, Page, getKeys, StatementFails, Return, Begin, AnswerLost, ConnectionOpens,
         ConnectionFails, Stops, Works, Done
<1>3. conn' \in {"none", "connecting", "ready", "rejected"}
  BY DEF IInv, TypeOK, Next, Proceed, vars, getItem, setItem, FileTruncated, FileWritten, removeItem,
         compareAndSwap, Page, getKeys, StatementFails, Return, Begin, AnswerLost, ConnectionOpens,
         ConnectionFails, Stops, Works, Done, AfterFailure
<1>4. step' \in [Client -> Steps]
  BY DEF IInv, TypeOK, Steps, Next, Proceed, vars, getItem, setItem, FileTruncated, FileWritten,
         removeItem, compareAndSwap, Page, getKeys, StatementFails, Return, Begin, AnswerLost,
         ConnectionOpens, ConnectionFails, Stops, Works, Done
<1> QED
  BY <1>1, <1>2, <1>3, <1>4 DEF TypeOK, IInv
\* What a failure and an answer leave of the calls.
LEMMA FailureEffect ==
    ASSUME call \in [Client -> Calls], NEW clients \in SUBSET Client, Failed(clients)
    PROVE  \A w \in Client : /\ w \in clients => call[w].at \in {"open", "done"} /\ call'[w].at = "failed"
                                                /\ call'[w].ask = call[w].ask
                             /\ w \notin clients => call'[w] = call[w]
<1> SUFFICES ASSUME NEW w \in Client
             PROVE  /\ w \in clients => call[w].at \in {"open", "done"} /\ call'[w].at = "failed"
                                       /\ call'[w].ask = call[w].ask
                    /\ w \notin clients => call'[w] = call[w]
  OBVIOUS
<1>1. call'[w] = IF w \in clients THEN [call[w] EXCEPT !.at = "failed", !.answer = "error"] ELSE call[w]
  BY DEF Failed
<1>2. call[w] \in Calls
  OBVIOUS
<1>3. \A r \in Calls : [r EXCEPT !.at = "failed", !.answer = "error"].at = "failed"
                       /\ [r EXCEPT !.at = "failed", !.answer = "error"].ask = r.ask
  BY DEF Calls
<1>4. w \in clients => call[w].at \in {"open", "done"}
  BY DEF Failed
<1> QED
  BY <1>1, <1>2, <1>3, <1>4

LEMMA AnswerEffect ==
    ASSUME call \in [Client -> Calls], NEW c \in Client, NEW answer, call' = Answered(c, answer)
    PROVE  /\ call'[c].at = "done" /\ call'[c].ask = call[c].ask
           /\ \A w \in Client \ {c} : call'[w] = call[w]
BY DEF Answered, Calls

\* A step that answers or fails calls leaves the await of these, and of no other.
LEMMA AwaitsStep ==
    ASSUME IInv, [Next]_vars
    PROVE  Awaits'
<1>1. call \in [Client -> Calls] /\ step \in [Client -> Steps]
  BY DEF IInv, TypeOK, StoreTypeOK, Calls
<1>2. call' \in [Client -> Calls] /\ step' \in [Client -> Steps]
  BY StepTypes DEF TypeOK, StoreTypeOK, Calls
<1>3. ASSUME NEW c \in Client, Proceed(c) PROVE Awaits'
  <2>1. CASE getItem(c)
    <3>1. CASE call[c].ask.key \in inDoubt
      BY <1>1, <2>1, <3>1, FailureEffect DEF getItem, Done, Awaits, IInv
    <3>2. CASE call[c].ask.key \notin inDoubt
      BY <1>1, <2>1, <3>2, AnswerEffect DEF getItem, Read, Done, Awaits, IInv
    <3> QED
      BY <3>1, <3>2
  <2>2. CASE setItem(c)
    BY <1>1, <2>2, AnswerEffect DEF setItem, Done, Written, Awaits, IInv
  <2>3. CASE FileTruncated(c)
    BY <1>1, <1>2, <2>3 DEF FileTruncated, At, WriteBegins, Awaits, IInv
  <2>4. CASE FileWritten(c)
    <3>1. \A w \in Others(c) : w # c /\ call'[w] = call[w] /\ step'[w] = "crossed"
                              /\ step[w] \in {"opened", "crossed"}
      BY <1>1, <2>4 DEF FileWritten, Written, Answered, Others, Writers
    <3>2. \A w \in Client : w # c /\ w \notin Others(c) => call'[w] = call[w] /\ step'[w] = step[w]
      BY <1>1, <2>4 DEF FileWritten, Written, Answered
    <3>3. call'[c].at = "done" /\ step'[c] = "idle"
      <4>1. call' = Answered(c, "ok") /\ step' = [w \in Client |-> CASE w = c -> "idle"
                                             [] w \in Others(c) -> "crossed" [] OTHER -> step[w]]
        BY <2>4 DEF FileWritten, Written
      <4>2. step'[c] = "idle"
        BY <3>1, <4>1
      <4> QED
        BY <1>1, <4>1, <4>2, AnswerEffect
    <3> QED
      BY <3>1, <3>2, <3>3 DEF Awaits, IInv
  <2>5. CASE removeItem(c)
    <3>1. PICK overtaken \in SUBSET Writers(call[c].ask.key) :
              call' = [w \in Client |-> IF w \in overtaken \cup {c} THEN Answered(w, "ok")[w] ELSE call[w]]
      BY <2>5 DEF removeItem, Removed
    <3>2. \A w \in Client : Answered(w, "ok")[w] = [call[w] EXCEPT !.at = "done", !.answer = "ok"]
      BY <1>1 DEF Answered
    <3>3. \A r \in Calls : [r EXCEPT !.at = "done", !.answer = "ok"].at = "done"
      BY DEF Calls
    <3>4. \A w \in Client : /\ w \in overtaken \cup {c} => call[w].at = "open" /\ call'[w].at = "done"
                            /\ w \notin overtaken \cup {c} => call'[w] = call[w]
      <4>1. \A w \in overtaken \cup {c} : w \in Client /\ call[w].at = "open"
        BY <2>5 DEF removeItem, Removed, Writers, Open
      <4>2. \A w \in overtaken \cup {c} : call'[w].at = "done"
        <5> SUFFICES ASSUME NEW w \in overtaken \cup {c} PROVE call'[w].at = "done"
          OBVIOUS
        <5>1. w \in Client
          BY <4>1
        <5>2. call'[w] = Answered(w, "ok")[w]
          BY <3>1, <5>1
        <5>3. call'[w] = [call[w] EXCEPT !.at = "done", !.answer = "ok"]
          BY <3>2, <5>1, <5>2
        <5> QED
          BY <1>1, <3>3, <5>1, <5>3
      <4> QED
        BY <1>1, <3>1, <4>1, <4>2
    <3>5. \A w \in Client : w \in overtaken \cup {c} <=> w \in {c} \cup Others(c)
      BY <2>5, <3>4 DEF removeItem
    <3>6. \A w \in Client : step'[w] = IF w \in {c} \cup Others(c) THEN "idle" ELSE step[w]
      BY <1>1, <2>5 DEF removeItem
    <3> QED
      BY <3>4, <3>5, <3>6 DEF Awaits, IInv
  <2>6. CASE compareAndSwap(c)
    BY <1>1, <2>6, AnswerEffect DEF compareAndSwap, Done, Swapped, Awaits, IInv
  <2>7. ASSUME NEW keys \in SUBSET Key, Page(c, keys) PROVE Awaits'
    <3>1. step' = step /\ \A w \in Client : call'[w].at = call[w].at /\ call'[w].ask = call[w].ask
      BY <1>1, <2>7 DEF Page, Calls
    <3> QED
      BY <3>1 DEF Awaits, IInv
  <2>8. CASE getKeys(c)
    BY <1>1, <2>8, AnswerEffect DEF getKeys, Done, ListingEnds, Awaits, IInv
  <2>9. CASE StatementFails(c)
    BY <1>1, <2>9, FailureEffect DEF StatementFails, Done, Awaits, IInv
  <2>10. CASE Return(c)
    BY <1>1, <1>2, <2>10 DEF Return, Returned, NoCall, Awaits, IInv
  <2> QED
    BY <1>3, <2>1, <2>2, <2>3, <2>4, <2>5, <2>6, <2>7, <2>8, <2>9, <2>10 DEF Proceed
<1>4. ASSUME NEW c \in Client, NEW ask \in AsksOf[c], Begin(c, ask) PROVE Awaits'
  <2>1. call[c].at = "idle" /\ step[c] = "idle"
    BY <1>1, <1>4 DEF Begin, Called, Awaits, IInv
  <2>2. call' = [call EXCEPT ![c] = [NoCall EXCEPT !.at = "open", !.ask = ask]]
    BY <1>4 DEF Begin, Called
  <2>3. call'[c].at = "open"
    BY <1>1, <2>2 DEF NoCall
  <2>4. step'[c] \in {"statement", "connection"} /\ \A w \in Client \ {c} : step'[w] = step[w] /\ call'[w] = call[w]
    BY <1>1, <1>4, <2>2 DEF Begin
  <2> QED
    BY <2>3, <2>4 DEF Awaits, IInv
<1>5. ASSUME NEW c \in Client, AnswerLost(c) PROVE Awaits'
  BY <1>1, <1>5, FailureEffect DEF AnswerLost, Awaits, IInv
<1>6. CASE ConnectionOpens
  BY <1>1, <1>6 DEF ConnectionOpens, storeVars, Waiting, Awaits, IInv
<1>7. CASE ConnectionFails
  <2>1. Waiting \in SUBSET Client /\ Failed(Waiting)
    BY <1>7 DEF ConnectionFails, Waiting
  <2>2. \A w \in Client : step'[w] = IF w \in Waiting THEN "idle" ELSE step[w]
    BY <1>1, <1>7 DEF ConnectionFails
  <2> QED
    BY <1>1, <2>1, <2>2, FailureEffect DEF Awaits, IInv
<1>8. CASE Stops \/ Works \/ UNCHANGED vars
  BY <1>8 DEF Stops, Works, vars, storeVars, Awaits, IInv
<1> QED
  BY <1>3, <1>4, <1>5, <1>6, <1>7, <1>8 DEF Next

\* In every reachable state a call is open exactly while its client is at an await of its
\* adapter (src/storage): an outage, a lost answer, a file that is overtaken by another write
\* or by its removal never leaves a caller without an answer to come.
THEOREM OpenCallsAwait == Spec => [](TypeOK /\ Awaits)
<1>1. IInv /\ [Next]_vars => IInv'
  BY StepTypes, AwaitsStep DEF IInv
<1>2. IInv => TypeOK /\ Awaits
  BY DEF IInv
<1> QED
  BY InitIInv, <1>1, <1>2, PTL DEF Spec

\* Every adapter of src/storage keeps the promises of src/storage/contract.ts that the core
\* counts on: a read returns the value at one moment of the call, a write and a removal take
\* effect at one moment, and a listing, asked for by prefix, by pattern or page by page, misses
\* no key of its application that stays and shows none of an application that is not alike.
THEOREM AdaptersImplementStore == Spec => ImplementsStore
<1>1. Init => StoreInit
  BY DEF Init
<1>2. IInv /\ [Next]_vars => IInv' /\ [StoreNext]_storeVars
  BY StepTypes, AwaitsStep, StepImplements DEF IInv
<1> QED
  BY InitIInv, <1>1, <1>2, PTL DEF Spec, ImplementsStore, StoreSpec

==============================================================================
