--------------------------- MODULE KeyValueStore ---------------------------
(***************************************************************************)
(* What the core may count on from a storage, whichever adapter is behind  *)
(* it (src/storage/contract.ts): reads, writes and removals take effect at *)
(* one moment between the call and its answer, a listing looks at each key *)
(* once at moments of its own, and any call may fail, before or after it   *)
(* took effect. A listing may also show keys of an application whose name  *)
(* differs in case only, and keys whose write was begun and not finished:  *)
(* some adapters do (see StorageAdapters).                                 *)
(***************************************************************************)
EXTENDS Naturals

CONSTANTS
    Client,     \* code of one process that calls the storage
    App,        \* applications: the prefixes asked for
    Key,        \* keys
    AppOf,      \* the application whose prefix a key begins with
    Alike,      \* the applications whose name is that of another up to case
    Value

Absent == "absent"

ASSUME StoreAssumption ==
    /\ AppOf \in [Key -> App]
    /\ Alike \in [App -> SUBSET App]
    /\ \A a \in App : a \in Alike[a]
    /\ Absent \notin Value

VARIABLES
    store,      \* the value of every key
    inDoubt,    \* keys of a write begun and not finished
    call        \* per client: its call and how far it is

storeVars == <<store, inDoubt, call>>

Ask == [op : {"getItem", "removeItem"}, key : Key]
       \cup [op : {"setItem"}, key : Key, value : Value]
       \cup [op : {"compareAndSwap"}, key : Key, expected : Value \cup {Absent}, value : Value]
       \cup [op : {"getKeys"}, app : App]

NoCall == [at |-> "idle", ask |-> [op |-> "none"], answer |-> "none", looked |-> {}, listed |-> {}]

Answers == Value \cup {Absent, "none", "ok", "swapped", "refused", "error"}

StoreTypeOK ==
    /\ store \in [Key -> Value \cup {Absent}]
    /\ inDoubt \subseteq Key
    /\ call \in [Client -> [at : {"idle", "open", "done", "failed"}, ask : Ask \cup {NoCall.ask},
                            answer : Answers, looked : SUBSET Key, listed : SUBSET Key]]

StoreInit ==
    /\ store = [k \in Key |-> Absent]
    /\ inDoubt = {}
    /\ call = [c \in Client |-> NoCall]

------------------------------------------------------------------------------
Open(c, op) == call[c].at = "open" /\ call[c].ask.op = op

\* The clients with an unfinished write of a key.
Writers(k) == {c \in Client : Open(c, "setItem") /\ call[c].ask.key = k}

Answered(c, answer) == [call EXCEPT ![c].at = "done", ![c].answer = answer]

Called(c, ask) ==
    /\ call[c].at = "idle"
    /\ call' = [call EXCEPT ![c] = [NoCall EXCEPT !.at = "open", !.ask = ask]]
    /\ UNCHANGED <<store, inDoubt>>

Read(c) ==
    /\ Open(c, "getItem")
    /\ call' = Answered(c, store[call[c].ask.key])
    /\ UNCHANGED <<store, inDoubt>>

\* From here on a listing may show the key.
WriteBegins(c) ==
    /\ Open(c, "setItem")
    /\ inDoubt' = inDoubt \cup {call[c].ask.key}
    /\ UNCHANGED <<store, call>>

Written(c) ==
    /\ Open(c, "setItem")
    /\ store' = [store EXCEPT ![call[c].ask.key] = call[c].ask.value]
    /\ call' = Answered(c, "ok")
    /\ inDoubt' \in {inDoubt \ {call[c].ask.key}, inDoubt}

\* Writes of the key that are under way may take effect just before.
Removed(c) ==
    /\ Open(c, "removeItem")
    /\ store' = [store EXCEPT ![call[c].ask.key] = Absent]
    /\ inDoubt' = inDoubt \ {call[c].ask.key}
    /\ \E overtaken \in SUBSET Writers(call[c].ask.key) :
        call' = [w \in Client |-> IF w \in overtaken \cup {c} THEN Answered(w, "ok")[w] ELSE call[w]]

Swapped(c) ==
    /\ Open(c, "compareAndSwap")
    /\ LET ask == call[c].ask IN
        IF store[ask.key] = ask.expected
        THEN /\ store' = [store EXCEPT ![ask.key] = ask.value]
             /\ call' = Answered(c, "swapped")
        ELSE /\ call' = Answered(c, "refused")
             /\ UNCHANGED store
    /\ UNCHANGED inDoubt

\* Every key of the application must be listed if it is there when looked at; keys of
\* applications alike and keys in doubt may be; no other key ever is.
Looked(c, keys) ==
    /\ Open(c, "getKeys")
    /\ keys # {} /\ keys \cap call[c].looked = {}
    /\ LET app == call[c].ask.app
           there == {k \in keys : store[k] # Absent}
           must == {k \in there : AppOf[k] = app}
           may == {k \in there \cup (keys \cap inDoubt) : AppOf[k] \in Alike[app]} IN
        \E extra \in SUBSET may :
            call' = [call EXCEPT ![c].looked = @ \cup keys, ![c].listed = @ \cup must \cup extra]
    /\ UNCHANGED <<store, inDoubt>>

ListingEnds(c) ==
    /\ Open(c, "getKeys")
    /\ call[c].looked = Key
    /\ call' = Answered(c, "ok")
    /\ UNCHANGED <<store, inDoubt>>

\* The clients of which a call fails, together when they waited for one connection.
Failed(clients) ==
    /\ clients # {}
    /\ \A c \in clients : call[c].at \in {"open", "done"}
    /\ call' = [c \in Client |-> IF c \in clients THEN [call[c] EXCEPT !.at = "failed", !.answer = "error"]
                                 ELSE call[c]]
    /\ UNCHANGED <<store, inDoubt>>

Returned(c) ==
    /\ call[c].at \in {"done", "failed"}
    /\ call' = [call EXCEPT ![c] = NoCall]
    /\ UNCHANGED <<store, inDoubt>>

StoreNext ==
    \/ \E c \in Client :
        \/ \E ask \in Ask : Called(c, ask)
        \/ Read(c)
        \/ WriteBegins(c)
        \/ Written(c)
        \/ Removed(c)
        \/ Swapped(c)
        \/ \E keys \in SUBSET Key : Looked(c, keys)
        \/ ListingEnds(c)
        \/ Returned(c)
    \/ \E clients \in SUBSET Client : Failed(clients)

StoreSpec == StoreInit /\ [][StoreNext]_storeVars

==============================================================================
