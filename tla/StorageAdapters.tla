--------------------------- MODULE StorageAdapters ---------------------------
(***************************************************************************)
(* The storage adapters (src/storage): clients of one process share an     *)
(* adapter, which connects on its first call, sends one statement for each *)
(* read, write and removal, and lists keys by a pattern or page by page,   *)
(* while its server or disk stops working and works again. An adapter is   *)
(* a record of the ways it differs from the others; two adapters that do   *)
(* not differ are one state here. (The due index of Redis is RedisQueue.)  *)
(***************************************************************************)
EXTENDS KeyValueStore

CONSTANTS
    Wild,       \* the applications that a name matches when its _ and % are wildcards
    AsksOf      \* the calls each client may make: which calls meet is chosen with it

ASSUME AdaptersAssumption ==
    /\ Wild \in [App -> SUBSET App] /\ \A a \in App : a \in Wild[a]
    /\ AsksOf \in [Client -> SUBSET Ask]

VARIABLES
    adapter,
    conn,       \* the shared promise of a connection
    up,         \* the server, or the disk, works
    step        \* per client: the await it is at

vars == <<storeVars, adapter, conn, up, step>>

------------------------------------------------------------------------------
(* The adapters *)

\* One synchronous step of the process, with compareAndSwap.
Memory == [connects |-> "never", at |-> "process", lists |-> "at_once", pattern |-> "prefix"]

\* ensureTable keeps its promise, a rejected one too.
Postgres == [connects |-> "once", at |-> "server", lists |-> "at_once", pattern |-> "like"]

\* getClient does as well, and LIKE folds case in SQLite.
Libsql == [connects |-> "once", at |-> "server", lists |-> "at_once", pattern |-> "like_folding"]

Sqlite == [connects |-> "never", at |-> "disk", lists |-> "at_once", pattern |-> "like_folding"]

\* The database is the caller's, on a server with Postgres, on a disk with SQLite.
DrizzleOn(dialect) ==
    IF dialect = "pg" THEN [Postgres EXCEPT !.connects = "never"] ELSE Sqlite

\* A failed connection is dropped, and the cursor of a listing fetches batches.
Mongodb == [connects |-> "retried", at |-> "server", lists |-> "by_page", pattern |-> "prefix"]

\* As is the promise of getClient, and getKeys is a SCAN.
Redis == [connects |-> "retried", at |-> "server", lists |-> "by_page", pattern |-> "prefix"]

\* The namespace is bound already; list() returns pages.
CloudflareKv == [connects |-> "never", at |-> "server", lists |-> "by_page", pattern |-> "prefix"]

\* Any driver of the caller's, whose keys are filtered by prefix.
Unstorage == [connects |-> "never", at |-> "server", lists |-> "by_page", pattern |-> "prefix"]

\* writeFile truncates the file and then writes it; walk reads one directory after another.
File == [connects |-> "never", at |-> "disk", lists |-> "by_page", pattern |-> "prefix"]

Adapters == {Memory, Postgres, Libsql, Sqlite, DrizzleOn("pg"), DrizzleOn("sqlite"), Mongodb, Redis,
             CloudflareKv, Unstorage, File}

\* Mutant: _ and % of the name stay wildcards.
escapeLikeNot(app) == Wild[app]

\* The applications a name stands for in a pattern, its wildcards escaped.
escapeLike(app) == {app}

\* The applications whose keys a listing finds.
Found(app) ==
    CASE adapter.pattern = "prefix" -> {app}
      [] adapter.pattern = "like" -> escapeLike(app)
      [] adapter.pattern = "like_folding" -> UNION {Alike[a] : a \in escapeLike(app)}

------------------------------------------------------------------------------
(* The connection *)

Steps == {"idle", "connection", "statement", "opened", "crossed"}

\* What the variables of this module can hold, beside those of KeyValueStore.
TypeOK ==
    /\ StoreTypeOK
    /\ adapter \in Adapters
    /\ conn \in {"none", "connecting", "ready", "rejected"}
    /\ up \in BOOLEAN
    /\ step \in [Client -> Steps]

Init ==
    /\ StoreInit
    /\ adapter \in Adapters
    /\ conn = IF adapter.connects = "never" THEN "ready" ELSE "none"
    /\ up \in IF adapter.at = "process" THEN {TRUE} ELSE BOOLEAN
    /\ step = [c \in Client |-> "idle"]

Waiting == {c \in Client : step[c] = "connection"}

\* A call joins the connection being made or makes one; without one it is at its statement.
Begin(c, ask) ==
    /\ ask.op = "compareAndSwap" => adapter = Memory
    /\ Called(c, ask)
    /\ conn' = IF conn = "none" THEN "connecting" ELSE conn
    /\ step' = [step EXCEPT ![c] = IF conn = "ready" THEN "statement" ELSE "connection"]
    /\ UNCHANGED <<adapter, up>>

ConnectionOpens ==
    /\ conn = "connecting"
    /\ up
    /\ conn' = "ready"
    /\ step' = [c \in Client |-> IF c \in Waiting THEN "statement" ELSE step[c]]
    /\ UNCHANGED <<storeVars, adapter, up>>

\* Mutant: every adapter keeps the rejected promise.
AfterFailureKept == "rejected"

\* The catch or finally of an adapter that connects again drops the promise.
AfterFailure == IF adapter.connects = "retried" THEN "none" ELSE "rejected"

\* Everyone who awaits the promise fails with it.
ConnectionFails ==
    /\ \/ conn = "connecting" /\ ~up /\ conn' = AfterFailure
       \/ conn = "rejected" /\ UNCHANGED conn
    /\ Failed(Waiting)
    /\ step' = [c \in Client |-> IF c \in Waiting THEN "idle" ELSE step[c]]
    /\ UNCHANGED <<adapter, up>>

------------------------------------------------------------------------------
(* The statements *)

\* The client is at the statement of its call, and the call is such a one.
At(c, op) == step[c] = "statement" /\ call[c].ask.op = op

Done(c) == step' = [step EXCEPT ![c] = "idle"] /\ UNCHANGED <<adapter, conn, up>>

\* The value of a file that is being written does not parse.
getItem(c) ==
    /\ At(c, "getItem")
    /\ up
    /\ IF call[c].ask.key \in inDoubt THEN Failed({c}) ELSE Read(c)
    /\ Done(c)

setItem(c) ==
    /\ At(c, "setItem")
    /\ up
    /\ adapter # File
    /\ Written(c)
    /\ Done(c)

\* The file is there, and empty.
FileTruncated(c) ==
    /\ At(c, "setItem")
    /\ up
    /\ adapter = File
    /\ WriteBegins(c)
    /\ step' = [step EXCEPT ![c] = "opened"]
    /\ UNCHANGED <<adapter, conn, up>>

\* Clients with the same file open.
Others(c) == {w \in Writers(call[c].ask.key) \ {c} : step[w] \in {"opened", "crossed"}}

\* What was written through another handle since stays behind a shorter text.
FileWritten(c) ==
    /\ step[c] \in {"opened", "crossed"}
    /\ up
    /\ Written(c)
    /\ step[c] = "opened" => call[c].ask.key \notin inDoubt'
    /\ step[c] = "crossed" => inDoubt' \in {inDoubt \cup {call[c].ask.key}, inDoubt \ {call[c].ask.key}}
    /\ step' = [w \in Client |-> CASE w = c -> "idle" [] w \in Others(c) -> "crossed" [] OTHER -> step[w]]
    /\ UNCHANGED <<adapter, conn, up>>

\* unlink leaves the handles of others on a file without a name: their writes are lost.
removeItem(c) ==
    /\ At(c, "removeItem")
    /\ up
    /\ Removed(c)
    /\ {w \in Client : call'[w] # call[w]} = {c} \cup Others(c)
    /\ step' = [w \in Client |-> IF w = c \/ w \in Others(c) THEN "idle" ELSE step[w]]
    /\ UNCHANGED <<adapter, conn, up>>

compareAndSwap(c) ==
    /\ At(c, "compareAndSwap")
    /\ Swapped(c)
    /\ Done(c)

\* A page of the listing, or all of it.
Page(c, keys) ==
    /\ At(c, "getKeys")
    /\ up
    /\ adapter.lists = "at_once" => keys = Key
    /\ keys # {} /\ keys \cap call[c].looked = {}
    /\ call' = [call EXCEPT
            ![c].looked = @ \cup keys,
            ![c].listed = @ \cup {k \in keys : /\ AppOf[k] \in Found(call[c].ask.app)
                                               /\ store[k] # Absent \/ k \in inDoubt}]
    /\ UNCHANGED <<store, inDoubt, adapter, conn, up, step>>

getKeys(c) ==
    /\ At(c, "getKeys")
    /\ ListingEnds(c)
    /\ Done(c)

\* The statement is refused; a truncated file stays as it is.
StatementFails(c) ==
    /\ step[c] \in {"statement", "opened", "crossed"}
    /\ ~up
    /\ Failed({c})
    /\ Done(c)

\* The statement was carried out and its answer did not arrive.
AnswerLost(c) ==
    /\ call[c].at = "done"
    /\ adapter.at = "server"
    /\ ~up
    /\ Failed({c})
    /\ UNCHANGED <<adapter, conn, up, step>>

Return(c) ==
    /\ Returned(c)
    /\ UNCHANGED <<adapter, conn, up, step>>

Stops ==
    /\ adapter.at # "process"
    /\ up
    /\ up' = FALSE
    /\ UNCHANGED <<storeVars, adapter, conn, step>>

Works ==
    /\ ~up
    /\ up' = TRUE
    /\ UNCHANGED <<storeVars, adapter, conn, step>>

------------------------------------------------------------------------------
(* Specification *)

\* What the process does next with a call of a client.
Proceed(c) ==
    \/ getItem(c)
    \/ setItem(c)
    \/ FileTruncated(c)
    \/ FileWritten(c)
    \/ removeItem(c)
    \/ compareAndSwap(c)
    \/ \E keys \in SUBSET Key : Page(c, keys)
    \/ getKeys(c)
    \/ StatementFails(c)
    \/ Return(c)

Next ==
    \/ \E c \in Client : Proceed(c)
    \/ \E c \in Client : \E ask \in AsksOf[c] : Begin(c, ask)
    \/ \E c \in Client : AnswerLost(c)
    \/ ConnectionOpens
    \/ ConnectionFails
    \/ Stops
    \/ Works

\* Every await of the process ends; no server has to come back and no client has to call.
Fairness ==
    /\ \A c \in Client : WF_vars(Proceed(c))
    /\ WF_vars(ConnectionOpens)
    /\ WF_vars(ConnectionFails)

Spec == Init /\ [][Next]_vars /\ Fairness

------------------------------------------------------------------------------
(* Properties *)

\* Every adapter keeps the promises of the contract: what a read returns was the value at a
\* moment of the call, and a listing shows every key of its application that stays there, none
\* that is not there, and none of another application but one alike up to case.
ImplementsStore == StoreSpec

\* A call that fails for a reason that ends with the outage.
FailsNow(c) ==
    /\ call[c].at = "failed"
    /\ ~(adapter = File /\ call[c].ask.op = "getItem")
    /\ ~(adapter.connects = "once" /\ conn = "rejected")

\* Once the server stays up, calls stop failing, even those whose connection failed before:
\* but for the two adapters that keep a rejected promise, and for reads of files cut short.
Recovers == <>[]up => <>[](\A c \in Client : ~FailsNow(c))

==============================================================================
