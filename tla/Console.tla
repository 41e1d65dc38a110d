------------------------------- MODULE Console -------------------------------
(***************************************************************************)
(* The admin UI in one browser tab: the shell and its routes               *)
(* (src/ui/App.tsx), the navigation guard (src/ui/lib/nav-guard.ts), the   *)
(* forms of an endpoint and of an event type (src/ui/views/EndpointsView   *)
(* and EventTypesView), the paged lists of deliveries and of messages      *)
(* (DeliveriesView, MessagesView), and the pages core.ts serves them.      *)
(*                                                                         *)
(* Everything else that writes is "another": other operators, the          *)
(* publisher, the dispatcher and the retention pass.  React Query and the  *)
(* browser are external: a query answers with what the server holds then,  *)
(* an effect runs before the next event, and a location may change at any  *)
(* time and without asking the panel.  A form is one value.                *)
(***************************************************************************)
EXTENDS Naturals, Sequences, FiniteSets, SequencesExt

CONSTANTS
    None,               \* no item, form or cursor
    Apps,               \* the applications
    DefaultApp,         \* initialApplicationKey, or the first application, if any
    Endpoints,          \* endpoint ids
    Types,              \* event-type names
    Home,               \* the application of each endpoint
    Values,             \* what a form may say besides the empty string
    PageSize,           \* PAGE_SIZE
    Later,              \* the endpoints created only in the course of a behaviour
    Published,          \* the statuses of the messages published before the tab was opened
    MaxRecords,         \* messages ever published
    MaxRequests,        \* requests the tab has on their way at once
    MaxChanges          \* changes of the server's data in one behaviour

ASSUME ConsoleAssumption ==
    /\ Home \in [Endpoints -> Apps] /\ DefaultApp \in Apps \cup {None}
    /\ {MaxRecords, MaxRequests, MaxChanges} \subseteq Nat /\ PageSize \in Nat \ {0}
    /\ Later \subseteq Endpoints /\ Published \in Seq({"pending", "failed"})
    /\ Apps \cap Endpoints = {} /\ Apps \cap Types = {} /\ Endpoints \cap Types = {}

VARIABLES
    mode,       \* what /config says of this principal
    place,      \* the location: page, ?app= and the selected id
    store,      \* the server's endpoints and event types
    cache,      \* the same, as the tab last fetched them
    draft,      \* useState of the form shown: its value, and whose value it began as
    blocker,    \* `dirty` as the registered blocker captured it
    confirm,    \* the dialog of a deletion: closed, or what was typed into it
    requests,   \* mutations on their way
    lost,       \* edits were dropped by the panel itself without a question (history)
    records,    \* messages of the portal's application in publish order, each with its one delivery
    status,     \* the filter tab of DeliveriesView
    pages,      \* the pages of the infinite query on screen
    fetch,      \* its fetch in flight: pages still wanted, pages so far
    changes

editorVars == <<mode, place, store, cache, draft, blocker, confirm, requests, lost>>
logVars == <<records, status, pages, fetch>>
consoleVars == <<editorVars, logVars, changes>>

------------------------------------------------------------------------------
(* Places and what they show *)

Blank == "blank"
Gone == "gone"      \* deleted; an endpoint not created yet is None
Closed == "closed"
Items == Endpoints \cup Types
Forms == Values \cup {Blank}
Modes == {"admin", "readonly", "portal"}
Lists == {"deliveries", "messages"}

\* The routes; a page that keeps nothing (overview, audit) is "other".
Selectable(page) == CASE page = "endpoints" -> Endpoints
                      [] page = "event-types" -> Types
                      [] page = "deliveries" -> 1 .. MaxRecords
                      [] OTHER -> {}
Places == UNION {[page : {p}, app : Apps \cup {None}, id : Selectable(p) \cup {None}]
                    : p \in {"other", "endpoints", "event-types"} \cup Lists}

PortalApp == CHOOSE a \in Apps : TRUE       \* the application of the portal's token

\* AppShell's appKey: the token pins the application; otherwise ?app= names it, and
\* without one it is the default.
appKey(p) ==
    IF mode = "portal" THEN PortalApp
    ELSE IF p.app # None THEN p.app ELSE DefaultApp

\* The item whose form is mounted: the selected one, when the fetched list holds it.
Selected(p, c) ==
    IF /\ p.id \in Items
       /\ p.id \in Endpoints => Home[p.id] = appKey(p)
       /\ c[p.id] \in Forms
    THEN p.id ELSE None
Shown == Selected(place, cache)

Editable == /\ Shown # None
            /\ mode # "readonly"
            /\ mode = "portal" => Shown \in Endpoints

Dirty == draft # None /\ draft.value # cache[Shown]

------------------------------------------------------------------------------
(* Rendering *)

\* toDraft
Fresh(item, c) == [of |-> item, value |-> c[item]]

\* Whether the render discards the form's state: another id, or another form.
ResetsAtMount(was, now) == was \notin Endpoints                             \* mutant
ResetsEndpoint(was, now) == now # was
ResetsType(was, now) == now # was
Resets(was, now) == IF now \in Endpoints THEN ResetsEndpoint(was, now) ELSE ResetsType(was, now)

\* The effect that registers the blocker, again whenever `dirty` changes.
RegisteredOnce(was, now, dirty) == IF was = now THEN blocker ELSE dirty     \* mutant
Registered(was, now, dirty) == dirty

\* The dialog is state of the detail, which stays from one endpoint to the next, as from type to type.
ConfirmAfter(was, now, k) == IF {was, now} \subseteq Endpoints \/ {was, now} \subseteq Types THEN k ELSE Closed

\* The tab re-renders at location p with fetched data c, form state d and dialog k, and its effects run.
Render(p, c, d, k) ==
    LET now == Selected(p, c)
        d1 == IF now = None THEN None
              ELSE IF Resets(Shown, now) THEN Fresh(now, c) ELSE d
    IN  /\ place' = p /\ cache' = c /\ draft' = d1 /\ confirm' = ConfirmAfter(Shown, now, k)
        /\ blocker' = (now # None /\ Registered(Shown, now, d1.value # c[now]))

\* canLeave: the answer of the registered blocker; `ok` is the user's, if asked.
canLeave(ok) == ~blocker \/ ok
Answers == IF blocker THEN BOOLEAN ELSE {TRUE}

\* In-app navigation: go() and setAppKey().
Navigate(p, ok, k) ==
    IF canLeave(ok)
    THEN /\ Render(p, cache, draft, k)
         /\ lost' = (lost \/ (Dirty /\ ~blocker /\ Selected(p, cache) # Shown))
    ELSE confirm' = k /\ UNCHANGED <<place, cache, draft, blocker, lost>>

\* The list on screen is dropped with its view, its application or its filter.
Unlisted == /\ pages' = <<>> /\ fetch' = None /\ status' = "all"
SameList(p) == p.page = place.page /\ appKey(p) = appKey(place)
ListAfter(p) == IF SameList(p) THEN UNCHANGED <<pages, fetch, status>> ELSE Unlisted

------------------------------------------------------------------------------
(* Moving around *)

\* The dialog is modal: nothing else of the panel takes a click.
Modal == confirm # Closed

\* A click that navigates, within the application.
go(page, id, ok) ==
    LET p == [place EXCEPT !.page = page, !.id = id] IN
    /\ ~Modal /\ p # place
    /\ Navigate(p, ok, confirm)
    /\ IF canLeave(ok) THEN ListAfter(p) ELSE UNCHANGED <<pages, fetch, status>>
    /\ UNCHANGED <<mode, store, requests, records, changes>>

\* A tab; the portal has none for the overview and the audit log.
OpenTab(page, ok) == (mode = "portal" => page # "other") /\ go(page, None, ok)

\* The arrow back to the list.
Back(ok) == (Shown # None \/ (place.page \in Lists /\ place.id # None)) /\ go(place.page, None, ok)

\* A row of the endpoints, or of the catalog, as last fetched.
OpenEndpoint(e, ok) ==
    /\ place.page = "endpoints" /\ Shown = None
    /\ Home[e] = appKey(place) /\ cache[e] \in Forms
    /\ go("endpoints", e, ok)
OpenType(t, ok) ==
    /\ place.page = "event-types" /\ Shown = None
    /\ cache[t] \in Forms
    /\ go("event-types", t, ok)

\* A row of the paged list.
OpenDelivery(n, ok) ==
    /\ place.page = "deliveries" /\ place.id = None /\ n \in ToSet(FlattenSeq(pages))
    /\ go("deliveries", n, ok)
OpenMessage(n, ok) ==
    /\ place.page = "messages" /\ place.id = None /\ n \in ToSet(FlattenSeq(pages))
    /\ go("messages", n, ok)

\* What a query of the portal's application can have answered.
Recorded(n) == appKey(place) = PortalApp /\ n \in DOMAIN records /\ records[n] # Gone

\* The latest deliveries beside an endpoint, and the latest failures in the overview.
OpenRecent(n, ok)  == Shown \in Endpoints /\ Recorded(n) /\ go("deliveries", n, ok)
OpenFailure(n, ok) == place.page = "other" /\ Recorded(n) /\ go("deliveries", n, ok)

\* From a message to its delivery, from a delivery to its message or its endpoint.
OpenOfMessage(ok) == place.page = "messages" /\ Recorded(place.id) /\ go("deliveries", place.id, ok)
OpenOfDelivery(ok) ==
    /\ place.page = "deliveries" /\ Recorded(place.id)
    /\ \/ go("messages", place.id, ok)
       \/ \E e \in Endpoints : Home[e] = PortalApp /\ go("endpoints", e, ok)

setAppKey(app, ok) ==
    LET p == [place EXCEPT !.app = app] IN
    /\ mode # "portal" /\ app # place.app /\ ~Modal
    /\ Navigate(p, ok, confirm)
    /\ IF canLeave(ok) THEN ListAfter(p) ELSE UNCHANGED <<pages, fetch, status>>
    /\ UNCHANGED <<mode, store, requests, records, changes>>

\* The browser moves by itself: history, a link of the host page, the hash typed in.
Browse(p) ==
    /\ p # place
    /\ Render(p, cache, draft, confirm) /\ ListAfter(p)
    /\ UNCHANGED <<mode, store, requests, lost, records, changes>>

------------------------------------------------------------------------------
(* Forms *)

Unlogged == UNCHANGED <<records, status, pages, fetch>>

Edit(item, v) ==
    /\ Editable /\ ~Modal /\ item = Shown /\ v # draft.value
    /\ Render(place, cache, [draft EXCEPT !.value = v], confirm)
    /\ UNCHANGED <<mode, store, requests, lost, changes>> /\ Unlogged
EditEndpoint(e, v) == Edit(e, v)
EditType(t, v)     == Edit(t, v)

Revert ==
    /\ Editable /\ ~Modal /\ Dirty
    /\ Render(place, cache, Fresh(Shown, cache), confirm)
    /\ UNCHANGED <<mode, store, requests, lost, changes>> /\ Unlogged

Request(op, item, form) ==
    /\ Cardinality(requests) < MaxRequests
    /\ requests' = requests \cup {[op |-> op, item |-> item, form |-> form, app |-> place.app]}
    /\ UNCHANGED <<mode, place, store, cache, draft, blocker, confirm, lost, changes>> /\ Unlogged

SaveEndpoint == Editable /\ ~Modal /\ Shown \in Endpoints /\ Dirty /\ Request("save", Shown, draft)
SaveType     == Editable /\ ~Modal /\ Shown \in Types /\ Dirty /\ Request("save", Shown, draft)

\* Rotate, enable or disable, send an example, recover: nothing a form holds.
CommandEndpoint == Editable /\ ~Modal /\ Shown \in Endpoints /\ Request("command", Shown, None)

\* The dialog of a deletion opens empty, takes the name of what is shown, and closes.
Confirms(item, k) ==
    /\ Editable /\ Shown = item /\ k # confirm
    /\ confirm = Closed => k = None
    /\ confirm' = k
    /\ UNCHANGED <<mode, place, store, cache, draft, blocker, requests, lost, changes>> /\ Unlogged
ConfirmEndpoint(e, k) == Confirms(e, k)
ConfirmType(t, k)     == Confirms(t, k)

\* Its button is enabled when the text is the name of what is shown by then.
DeleteEndpoint == Editable /\ Shown \in Endpoints /\ confirm = Shown /\ Request("delete", Shown, None)
DeleteType     == Editable /\ Shown \in Types /\ confirm = Shown /\ Request("delete", Shown, None)

CreateEndpoint(e) == /\ mode # "readonly" /\ place.page = "endpoints" /\ Shown = None
                     /\ store[e] = None /\ Home[e] = appKey(place)
                     /\ Request("create", e, None)
CreateType(t) == /\ mode = "admin" /\ place.page = "event-types" /\ Shown = None
                 /\ Request("create", t, None)
CreateApplication(a) == mode = "admin" /\ Request("create", a, None)

\* What a save or a create leaves: an empty field is sent as undefined, and merged away.
Merged(r) ==
    LET old == IF store[r.item] \in Forms THEN store[r.item] ELSE Blank IN
    IF r.op = "save" /\ r.form.value # Blank THEN r.form.value ELSE old

\* The server refuses what is not there; an event type is written all the same.
Refused(r) == r.item \in Endpoints /\ r.op # "create" /\ store[r.item] = Gone

Applied(r) ==
    IF r.item \in Apps \/ r.op = "command" THEN store
    ELSE [store EXCEPT ![r.item] = IF r.op = "delete" THEN Gone ELSE Merged(r)]

\* onSuccess: where the panel goes by itself, wherever the user is by then.  The callbacks of a view
\* already left keep the ?app= of its last render.
Destinations(r) ==
    LET page == IF r.item \in Types THEN "event-types" ELSE "endpoints" IN
    IF r.item \in Apps THEN {[place EXCEPT !.app = r.item]}
    ELSE IF r.op = "delete" \/ (r.op = "create" /\ r.item \in Types)
    THEN {[page |-> page, app |-> a, id |-> IF r.op = "delete" THEN None ELSE r.item] :
            a \in {r.app} \cup (IF r.item \in Types THEN {place.app} ELSE {})}
    ELSE {place}

\* A request is done and its answer handled; the refetch it asks for is Refetch. A deletion closes its
\* dialog, unless the detail was left and opened again meanwhile.
Answered(r, p, ok) ==
    /\ ~Refused(r)
    /\ Applied(r) # store => changes < MaxChanges
    /\ requests' = requests \ {r}
    /\ store' = Applied(r)
    /\ changes' = changes + (IF Applied(r) # store THEN 1 ELSE 0)
    /\ \E k \in {confirm} \cup (IF r.op = "delete" THEN {Closed} ELSE {}) : Navigate(p, ok, k)
    /\ IF canLeave(ok) THEN ListAfter(p) ELSE UNCHANGED <<pages, fetch, status>>
    /\ UNCHANGED <<mode, records>>

\* onError: a toast.
Fails(r) ==
    /\ requests' = requests \ {r}
    /\ UNCHANGED <<mode, place, store, cache, draft, blocker, confirm, lost, changes>> /\ Unlogged

\* A query of the endpoints shown, or of the catalog, answers.
Refetch(items) ==
    LET c == [i \in Items |-> IF i \in items THEN store[i] ELSE cache[i]] IN
    /\ items \in {{e \in Endpoints : Home[e] = appKey(place)}, Types}
    /\ c # cache
    /\ Render(place, c, draft, confirm)
    /\ UNCHANGED <<mode, store, requests, lost, changes>> /\ Unlogged

\* Another operator saves, creates or deletes.
Another(i, v) ==
    /\ changes < MaxChanges /\ store[i] # v
    /\ i \in Endpoints => store[i] # Gone /\ (store[i] = None => v = Blank)
    /\ store' = [store EXCEPT ![i] = v]
    /\ changes' = changes + 1
    /\ UNCHANGED <<mode, place, cache, draft, blocker, confirm, requests, lost>> /\ Unlogged

------------------------------------------------------------------------------
(* Lists *)

Statuses == {"pending", "failed"}

\* The records a list holds, after the filters.
Listing(list, filter) ==
    {n \in DOMAIN records :
        /\ appKey(place) = PortalApp /\ records[n] # Gone
        /\ list = "deliveries" /\ filter # "all" => records[n] = filter}

\* byCreatedAtDesc: the order of a page.
NewestFirst(ns) ==
    {page \in SetToSeqs(ns) : \A i, j \in DOMAIN page : i < j => page[i] > page[j]}

\* paginate: the newest of what follows the cursor, and nothing when the cursor is gone.
FirstPage(rest) == {n \in rest : Cardinality({m \in rest : m > n}) < PageSize}
paginateRestarts(listed, before) ==                                         \* mutant
    FirstPage(IF before \in listed THEN {n \in listed : n < before} ELSE listed)
paginate(listed, before) ==
    FirstPage(IF before = None THEN listed
              ELSE IF before \in listed THEN {n \in listed : n < before} ELSE {})

\* getNextPageParam
NextParam(ps) == IF ps # <<>> /\ Len(Last(ps)) = PageSize THEN Last(Last(ps)) ELSE None

\* The list's query is enabled: its view is on screen, and no record is open.
Listed == place.page \in Lists /\ place.id = None

\* Deliveries are fetched again every 2 s and after each mutation, messages when they are opened.
Refetches == place.page = "messages" => pages = <<>>

\* All the pages on screen again, one after the other.
RefetchPages ==
    /\ Listed /\ fetch = None /\ Refetches
    /\ fetch' = [left |-> IF pages = <<>> THEN 1 ELSE Len(pages), got |-> <<>>]
    /\ UNCHANGED <<editorVars, records, status, pages, changes>>

\* "Load more": it cancels a refetch in flight, and keeps the pages on screen.
LoadMore ==
    /\ Listed /\ NextParam(pages) # None
    /\ fetch' = [left |-> 1, got |-> pages]
    /\ UNCHANGED <<editorVars, records, status, pages, changes>>

\* One page arrives; after the last one wanted, or the last there is, they are shown.
PageArrives ==
    /\ fetch # None
    /\ \E page \in NewestFirst(paginate(Listing(place.page, status), NextParam(fetch.got))) :
        LET got == Append(fetch.got, page) IN
        IF fetch.left > 1 /\ NextParam(got) # None
        THEN fetch' = [left |-> fetch.left - 1, got |-> got] /\ UNCHANGED pages
        ELSE fetch' = None /\ pages' = got
    /\ UNCHANGED <<editorVars, records, status, changes>>

setStatus(s) ==
    /\ place.page = "deliveries" /\ Listed /\ s # status
    /\ status' = s /\ pages' = <<>> /\ fetch' = None
    /\ UNCHANGED <<editorVars, records, changes>>

\* The Retry button of DeliveryDetailView, offered on a dead letter.
retryDelivery ==
    /\ place.page = "deliveries" /\ appKey(place) = PortalApp
    /\ mode # "readonly" /\ changes < MaxChanges
    /\ place.id \in DOMAIN records /\ records[place.id] = "failed"
    /\ records' = [records EXCEPT ![place.id] = "pending"]
    /\ changes' = changes + 1
    /\ UNCHANGED <<editorVars, status, pages, fetch>>

Publishes ==
    /\ changes < MaxChanges /\ Len(records) < MaxRecords
    /\ records' = Append(records, "pending")
    /\ changes' = changes + 1
    /\ UNCHANGED <<editorVars, status, pages, fetch>>

\* A delivery is dead-lettered, or a record is pruned.
Moves(n, s) ==
    /\ changes < MaxChanges
    /\ \/ s = "failed" /\ records[n] = "pending"
       \/ s = Gone /\ records[n] # Gone
    /\ records' = [records EXCEPT ![n] = s]
    /\ changes' = changes + 1
    /\ UNCHANGED <<editorVars, status, pages, fetch>>

------------------------------------------------------------------------------

ConsoleInit ==
    /\ mode \in Modes
    /\ place = [page |-> "endpoints", app |-> None, id |-> None]
    /\ store = [i \in Items |-> IF i \in Later THEN None ELSE Blank]
    /\ cache = store
    /\ draft = None /\ blocker = FALSE /\ confirm = Closed /\ requests = {} /\ lost = FALSE
    /\ records = Published
    /\ status = "all" /\ pages = <<>> /\ fetch = None /\ changes = 0

ConsoleNext ==
    \/ \E page \in {"other", "endpoints", "event-types"} \cup Lists, ok \in Answers : OpenTab(page, ok)
    \/ \E ok \in Answers : Back(ok)
    \/ \E e \in Endpoints, ok \in Answers : OpenEndpoint(e, ok)
    \/ \E t \in Types, ok \in Answers : OpenType(t, ok)
    \/ \E n \in 1 .. MaxRecords, ok \in Answers :
        \/ OpenDelivery(n, ok)
        \/ OpenMessage(n, ok)
        \/ OpenRecent(n, ok)
        \/ OpenFailure(n, ok)
    \/ \E ok \in Answers : OpenOfMessage(ok)
    \/ \E ok \in Answers : OpenOfDelivery(ok)
    \/ \E a \in Apps, ok \in Answers : setAppKey(a, ok)
    \/ \E p \in Places : Browse(p)
    \/ \E e \in Endpoints, v \in Forms : EditEndpoint(e, v)
    \/ \E t \in Types, v \in Forms : EditType(t, v)
    \/ Revert
    \/ SaveEndpoint
    \/ SaveType
    \/ CommandEndpoint
    \/ \E e \in Endpoints, k \in {Closed, None, Shown} : ConfirmEndpoint(e, k)
    \/ \E t \in Types, k \in {Closed, None, Shown} : ConfirmType(t, k)
    \/ DeleteEndpoint
    \/ DeleteType
    \/ \E e \in Endpoints : CreateEndpoint(e)
    \/ \E t \in Types : CreateType(t)
    \/ \E a \in Apps : CreateApplication(a)
    \/ \E r \in requests, ok \in Answers : \E p \in Destinations(r) : Answered(r, p, ok)
    \/ \E r \in requests : Fails(r)
    \/ \E items \in {{e \in Endpoints : Home[e] = appKey(place)}, Types} : Refetch(items)
    \/ \E i \in Items, v \in Forms \cup {Gone} : Another(i, v)
    \/ RefetchPages
    \/ LoadMore
    \/ PageArrives
    \/ \E s \in Statuses \cup {"all"} : setStatus(s)
    \/ retryDelivery
    \/ Publishes
    \/ \E n \in DOMAIN records, s \in {"failed", Gone} : Moves(n, s)

ConsoleSpec == ConsoleInit /\ [][ConsoleNext]_consoleVars

------------------------------------------------------------------------------
(* Properties *)

(***************************************************************************)
(* The panel's own navigation (a tab, a row, the application switcher, the *)
(* answer of a create or a delete) never drops edits the user was not      *)
(* asked about, although the blocker is a closure over an older render,    *)
(* data is refetched under the form, and answers arrive after the user has *)
(* moved on (canLeave, src/ui/lib/nav-guard.ts).                           *)
(***************************************************************************)
EditsNeedConsent == ~lost

(***************************************************************************)
(* What is saved to an endpoint or an event type began as that item's      *)
(* data: no way through the panel, the history and refetches carries the   *)
(* form of one into the save of another (the effect on endpoint.id).       *)
(***************************************************************************)
SaveIsOwn == \A r \in requests : r.op = "save" => r.form.of = r.item

\* Each entry of a list of pages is older than those before it.
Descends(list) ==
    \A i, j \in DOMAIN list : \A m \in DOMAIN list[i], n \in DOMAIN list[j] :
        i < j \/ (i = j /\ m < n) => list[i][m] > list[j][n]

(***************************************************************************)
(* A list shows each record once and newest first, while records are       *)
(* published, retried, filtered away and pruned between its pages and      *)
(* during a refetch of all of them (paginate, src/core.ts).                *)
(***************************************************************************)
NewestFirstOnce == Descends(pages)
==============================================================================
