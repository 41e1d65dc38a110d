-------------------------------- MODULE ApiGate --------------------------------
(***************************************************************************)
(* The admin API of a mounted panel (src/server/routes.ts behind           *)
(* src/server/create-fetch-handler.ts): a request is routed, its sender    *)
(* authenticated - by a portal token (src/portal.ts) or by the host's      *)
(* provider -, the action authorized, and one operation of the core        *)
(* called.  Every await is a step; the application that embeds the panel   *)
(* calls the core beside it.                                               *)
(*                                                                         *)
(* A resource is <<kind, owner>>: one endpoint, message and delivery per   *)
(* application are enough to tell whose data a request reaches.            *)
(***************************************************************************)
EXTENDS Naturals, FiniteSets

CONSTANTS
    App,                \* application keys
    Catalog,            \* the owner of the event types, which no application has
    Host,               \* the principals the host's provider knows
    RolesOf,            \* the roles of each of them
    NoOne,
    Panel,              \* the configurations of the panel
    Lifetime,           \* expiresIn of a portal token
    Sender,             \* the senders of requests
    MaxTime

ASSUME GateAssumption ==
    /\ Catalog \notin App /\ NoOne \notin App \cup Host
    /\ Lifetime \in Nat \ {0} /\ MaxTime \in Nat

VARIABLES
    panel,              \* the panel's configuration
    exists,             \* the resources that exist
    time,
    asked,              \* what the request asks
    request             \* where it is and what became of it

gateVars == <<panel, exists, time, asked, request>>

------------------------------------------------------------------------------
(* Actions and grants *)

Acts(kind, verbs) == {<<kind, v>> : v \in verbs}

AllActions ==
    UNION {Acts("application", {"read", "create", "update", "delete"}),
           Acts("event-type", {"read", "create", "update", "delete"}),
           Acts("endpoint", {"read", "create", "update", "delete",
                             "rotate-secret", "read-secret"}),
           Acts("message", {"read", "publish"}),
           Acts("delivery", {"read", "retry"}),
           Acts("audit", {"read"})}

\* Every action that ends in ":read"; reading a secret does not.
ReadActions == {a \in AllActions : a[2] = "read"}

MutatingActions ==
    UNION {Acts("application", {"create", "update", "delete"}),
           Acts("event-type", {"create", "update", "delete"}),
           Acts("endpoint", {"create", "update", "delete", "rotate-secret"}),
           Acts("message", {"publish"}),
           Acts("delivery", {"retry"})}

RolePolicy == [admin |-> AllActions, editor |-> AllActions, viewer |-> ReadActions]

PortalActions ==
    UNION {Acts("endpoint", {"read", "create", "update", "delete",
                             "rotate-secret", "read-secret"}),
           Acts("message", {"read"}), Acts("delivery", {"read", "retry"}),
           Acts("event-type", {"read"})}

\* A configuration: are portal tokens accepted, what may they do, does the host
\* authorize by role, does that authorizer refuse changes, is the core read-only,
\* does its storage take a key as one name (file.ts resolves it as a path).
PanelType ==
    [portal : BOOLEAN, allow : SUBSET AllActions, roles : BOOLEAN, frozen : BOOLEAN,
     readonly : BOOLEAN, opaque : BOOLEAN]

------------------------------------------------------------------------------
(* The core's operations: what each needs, changes, shows and answers *)

Call(needs, writes, shows, status) ==
    [needs |-> needs, writes |-> writes, shows |-> shows, status |-> status]

Kinds == {"application", "endpoint", "message", "delivery"}
OwnKinds == Kinds \cup {"secret", "audit", "traffic"}
Resource == (OwnKinds \X App) \cup {<<"event-type", Catalog>>}

ControlCalls ==
    [listApplications |-> Call({}, {}, {"application"}, {200}),
     createApplication |-> Call({}, {"application"}, {"application"}, {201}),
     getApplication |-> Call({"application"}, {}, {"application"}, {200}),
     updateApplication |-> Call({"application"}, {"application"}, {"application"}, {200}),
     deleteApplication |-> Call({"application"}, Kinds, {}, {200}),
     listEventTypes |-> Call({}, {}, {"event-type"}, {200}),
     createEventType |-> Call({}, {"event-type"}, {"event-type"}, {201}),
     getEventType |-> Call({"event-type"}, {}, {"event-type"}, {200}),
     updateEventType |-> Call({}, {"event-type"}, {"event-type"}, {200}),
     deleteEventType |-> Call({"event-type"}, {"event-type"}, {}, {200})]

EndpointCalls ==
    [listEndpoints |-> Call({"application"}, {}, {"endpoint"}, {200}),
     createEndpoint |-> Call({"application"}, {"endpoint"}, {"endpoint", "secret"}, {201}),
     getEndpoint |-> Call({"endpoint"}, {}, {"endpoint"}, {200}),
     updateEndpoint |-> Call({"application", "endpoint"}, {"endpoint"}, {"endpoint"}, {200}),
     deleteEndpoint |-> Call({"application", "endpoint"}, {"endpoint"}, {}, {200}),
     getSecrets |-> Call({"application", "endpoint"}, {}, {"secret"}, {200}),
     rotateSecret |->
        Call({"application", "endpoint"}, {"endpoint"}, {"endpoint", "secret"}, {200}),
     enableEndpoint |-> Call({"application", "endpoint"}, {"endpoint"}, {"endpoint"}, {200}),
     disableEndpoint |-> Call({"application", "endpoint"}, {"endpoint"}, {"endpoint"}, {200}),
     sendExample |-> Call({"application", "endpoint"}, {"traffic"}, {"message"}, {200}),
     recoverEndpoint |-> Call({"application", "endpoint"}, {"delivery"}, {"delivery"}, {200})]

DeliveryCalls ==
    [listMessages |-> Call({"application"}, {}, {"message"}, {200}),
     publish |-> Call({"application"}, {"message", "delivery"}, {"message"}, {200, 201}),
     getMessage |-> Call({"application", "message"}, {}, {"message", "delivery"}, {200}),
     listDeliveries |-> Call({"application"}, {}, {"delivery"}, {200}),
     getDelivery |-> Call({"delivery"}, {}, {"delivery"}, {200}),
     previewDeliveryRequest |->
        Call({"delivery", "message", "endpoint"}, {}, {"delivery", "message"}, {200}),
     retryDelivery |-> Call({"application", "delivery"}, {"delivery"}, {"delivery"}, {200}),
     listAudit |-> Call({}, {}, {"audit"}, {200})]

CallNames == DOMAIN ControlCalls \cup DOMAIN EndpointCalls \cup DOMAIN DeliveryCalls
Calls ==
    [c \in CallNames |-> CASE c \in DOMAIN ControlCalls -> ControlCalls[c]
                           [] c \in DOMAIN EndpointCalls -> EndpointCalls[c]
                           [] OTHER -> DeliveryCalls[c]]

GuardedCalls ==
    {"createApplication", "updateApplication", "deleteApplication",
     "createEventType", "updateEventType", "deleteEventType",
     "createEndpoint", "updateEndpoint", "deleteEndpoint", "rotateSecret",
     "enableEndpoint", "disableEndpoint", "publish", "retryDelivery",
     "recoverEndpoint", "sendExample"}

\* Mutant: testing an endpoint is not guarded.
GuardedButTest(c) == c \in GuardedCalls \ {"sendExample"}

\* The operations that throw ReadonlyError first of all when the core is
\* read-only: those that call guard().
Guarded(c) == c \in GuardedCalls

------------------------------------------------------------------------------
(* Routes.  body: the body is parsed before or after the action is authorized *)

Route(path, method, action, body, call) ==
    [path |-> path, method |-> method, action |-> action, body |-> body, call |-> call]

ApplicationRoutes ==
    {Route("applications", "GET", <<"application", "read">>, "none", "listApplications"),
     Route("applications", "POST", <<"application", "create">>, "before", "createApplication"),
     Route("application", "GET", <<"application", "read">>, "none", "getApplication"),
     Route("application", "PUT", <<"application", "update">>, "before", "updateApplication"),
     Route("application", "DELETE", <<"application", "delete">>, "none", "deleteApplication")}

\* Mutant: the collection's POST answers like the item's PUT.
EventTypeRoutesAlike ==
    {Route("event-types", "GET", <<"event-type", "read">>, "none", "listEventTypes"),
     Route("event-types", "POST", <<"event-type", "create">>, "before", "updateEventType"),
     Route("event-type", "GET", <<"event-type", "read">>, "none", "getEventType"),
     Route("event-type", "PUT", <<"event-type", "update">>, "before", "updateEventType"),
     Route("event-type", "DELETE", <<"event-type", "delete">>, "none", "deleteEventType")}

EventTypeRoutes ==
    {Route("event-types", "GET", <<"event-type", "read">>, "none", "listEventTypes"),
     Route("event-types", "POST", <<"event-type", "create">>, "before", "createEventType"),
     Route("event-type", "GET", <<"event-type", "read">>, "none", "getEventType"),
     Route("event-type", "PUT", <<"event-type", "update">>, "before", "updateEventType"),
     Route("event-type", "DELETE", <<"event-type", "delete">>, "none", "deleteEventType")}

EndpointRoutes ==
    {Route("endpoints", "GET", <<"endpoint", "read">>, "none", "listEndpoints"),
     Route("endpoints", "POST", <<"endpoint", "create">>, "before", "createEndpoint"),
     Route("endpoint", "GET", <<"endpoint", "read">>, "none", "getEndpoint"),
     Route("endpoint", "PUT", <<"endpoint", "update">>, "before", "updateEndpoint"),
     Route("endpoint", "DELETE", <<"endpoint", "delete">>, "none", "deleteEndpoint")}

SecretAction == <<"endpoint", "read-secret">>
EndpointStepRoutes ==
    {Route("secret", "GET", SecretAction, "none", "getSecrets"),
     Route("rotate-secret", "POST", <<"endpoint", "rotate-secret">>, "none", "rotateSecret"),
     Route("enable", "POST", <<"endpoint", "update">>, "none", "enableEndpoint"),
     Route("disable", "POST", <<"endpoint", "update">>, "none", "disableEndpoint"),
     Route("test", "POST", <<"endpoint", "update">>, "after", "sendExample"),
     Route("recover", "POST", <<"delivery", "retry">>, "after", "recoverEndpoint")}

MessageRoutes ==
    {Route("messages", "GET", <<"message", "read">>, "none", "listMessages"),
     Route("messages", "POST", <<"message", "publish">>, "before", "publish"),
     Route("message", "GET", <<"message", "read">>, "none", "getMessage")}

DeliveryRoutes ==
    {Route("deliveries", "GET", <<"delivery", "read">>, "none", "listDeliveries"),
     Route("delivery", "GET", <<"delivery", "read">>, "none", "getDelivery"),
     Route("request", "GET", <<"delivery", "read">>, "none", "previewDeliveryRequest"),
     Route("retry", "POST", <<"delivery", "retry">>, "none", "retryDelivery"),
     Route("audit", "GET", <<"audit", "read">>, "none", "listAudit")}

Routes ==
    UNION {ApplicationRoutes, EventTypeRoutes, EndpointRoutes, EndpointStepRoutes,
           MessageRoutes, DeliveryRoutes}

Public == {"catalog", "openapi"}     \* answered before anybody is authenticated
Paths == {r.path : r \in Routes} \cup Public \cup {"config"}
Methods == {"GET", "POST", "PUT", "DELETE"}

OfCatalog(path) == path \in {"event-types", "event-type", "catalog"}
Matches(path, method) == {r \in Routes : r.path = path /\ r.method = method}

\* The operations buildOpenApiDocument names, with the successes it lists.
Documented(path, method, status) == <<path, method, status>>

DocumentedControl ==
    {Documented("config", "GET", 200), Documented("openapi", "GET", 200),
     Documented("catalog", "GET", 200),
     Documented("applications", "GET", 200), Documented("applications", "POST", 201),
     Documented("event-types", "GET", 200), Documented("event-types", "POST", 201)}
        \cup {Documented(p, m, 200) : p \in {"application", "event-type"},
                                      m \in {"GET", "PUT", "DELETE"}}

DocumentedEndpoints ==
    {Documented("endpoints", "GET", 200), Documented("endpoints", "POST", 201),
     Documented("secret", "GET", 200)}
        \cup {Documented("endpoint", m, 200) : m \in {"GET", "PUT", "DELETE"}}
        \cup {Documented(p, "POST", 200) :
                p \in {"rotate-secret", "enable", "disable", "test", "recover"}}

DocumentedDeliveries ==
    {Documented("messages", "GET", 200), Documented("messages", "POST", 200),
     Documented("messages", "POST", 201), Documented("retry", "POST", 200)}
        \cup {Documented(p, "GET", 200) : p \in {"message", "deliveries", "delivery", "audit"}}

OpenApi == UNION {DocumentedControl, DocumentedEndpoints, DocumentedDeliveries}

------------------------------------------------------------------------------
(* Requests *)

\* Who sends a request.  "bearer": it presents a portal token, minted for owner
\* until exp, signed by the host or not (genuine).  "host": what the host's
\* provider makes of it, by cookie or password: a principal, nobody, a failure.
SenderType ==
    [bearer : BOOLEAN, owner : App, exp : 0 .. MaxTime + Lifetime, genuine : BOOLEAN,
     host : Host \cup {NoOne, "throws"}]

\* The configurations and the senders considered are some of these.
ASSUME SettingsAssumption == Panel \subseteq PanelType /\ Sender \subseteq SenderType

\* The paths that end in an id or go on behind one.  match() decodes it, and the
\* core does not check it: it may hold slashes and dots and, to a storage that
\* resolves keys, lead to some record of an application or of the catalog.
ItemPaths ==
    {"event-type", "endpoint", "secret", "rotate-secret", "enable", "disable", "test",
     "recover", "message", "delivery", "request", "retry"}
Owners == App \cup {Catalog}

\* What it asks, and where its id leads (NoOne: it is an id as the core makes
\* them); whether its body is JSON matters where a body is parsed.
Asked ==
    {q \in [path : Paths, method : Methods, app : App, leads : Owners \cup {NoOne},
            json : BOOLEAN, from : Sender] :
        /\ ~q.json => \E r \in Matches(q.path, q.method) : r.body # "none"
        /\ q.leads # NoOne => q.path \in ItemPaths}

\* Where the request is, whom the API takes its sender for (a portal principal
\* is named by its application), and what became of it.
Progress ==
    [stage : {"none", "arrived", "known", "parsed", "permitted", "ready", "answered"},
     who : Host \cup App \cup {NoOne}, portal : BOOLEAN, status : Nat,
     wrote : SUBSET Resource, shown : SUBSET Resource]

NoRequest ==
    [stage |-> "none", who |-> NoOne, portal |-> FALSE, status |-> 0,
     wrote |-> {}, shown |-> {}]

\* What each variable can hold.
GateTypeOK ==
    /\ panel \in PanelType
    /\ exists \subseteq Resource
    /\ time \in 0 .. MaxTime
    /\ request.stage # "none" => asked \in Asked
    /\ request \in Progress

GateInit ==
    /\ panel \in Panel
    /\ exists = {}
    /\ time = 0
    /\ asked = NoOne
    /\ request = NoRequest

\* The answer ends the request.
Answer(status, wrote, shown) ==
    request' = [request EXCEPT !.stage = "answered", !.status = status,
                               !.wrote = wrote, !.shown = shown]
Refuse(status) == Answer(status, {}, {}) /\ UNCHANGED <<panel, exists, time, asked>>
Goes(stage) ==
    /\ request' = [request EXCEPT !.stage = stage]
    /\ UNCHANGED <<panel, exists, time, asked>>

TheRoutes == Matches(asked.path, asked.method)
Strays == asked.leads # NoOne
Owner == IF OfCatalog(asked.path) THEN Catalog ELSE asked.app

\* fetch: the API is asked before the static files; the public documents are
\* answered without authentication, whatever the method.
Arrive ==
    /\ request.stage = "none"
    /\ asked' \in {q \in Asked : q.from.exp <= time + Lifetime}
    /\ request' =
        IF asked'.path \notin Public THEN [NoRequest EXCEPT !.stage = "arrived"]
        ELSE [NoRequest EXCEPT !.stage = "answered", !.status = 200,
                !.shown = IF asked'.path = "catalog" THEN exists \cap {<<"event-type", Catalog>>}
                          ELSE {}]
    /\ UNCHANGED <<panel, exists, time>>

\* verifyPortalToken: the signature before the claims, expired at exp itself.
Verified == asked.from.genuine /\ time < asked.from.exp

\* Mutant: a rejected token leaves the request to the host's provider.
ByTokenFallsBack == panel.portal /\ asked.from.bearer /\ Verified

\* A portal token that is presented is the request's only credential.
ByToken == panel.portal /\ asked.from.bearer

\* A valid token makes a portal principal, an invalid one ends the request; else
\* the host's provider decides, and its failure is not a refusal.
Authenticate ==
    /\ request.stage = "arrived"
    /\ IF ByToken
       THEN IF Verified
            THEN /\ request' = [request EXCEPT !.stage = "known", !.who = asked.from.owner,
                                               !.portal = TRUE]
                 /\ UNCHANGED <<panel, exists, time, asked>>
            ELSE Refuse(401)
       ELSE IF asked.from.host = "throws"
            THEN Refuse(500)
            ELSE /\ request' = [request EXCEPT !.stage = "known", !.who = asked.from.host]
                 /\ UNCHANGED <<panel, exists, time, asked>>

\* The bootstrap config answers anybody; nobody else goes on unknown; a path
\* or method that is no route ends here.
Bootstrap ==
    /\ request.stage = "known"
    /\ \/ asked.path = "config" /\ Refuse(200)
       \/ asked.path # "config" /\ request.who = NoOne /\ Refuse(401)
       \/ asked.path # "config" /\ request.who # NoOne /\ TheRoutes = {} /\ Refuse(404)

\* body(): a body that is not JSON is refused.
Parse ==
    /\ request.stage \in {"known", "permitted"}
    /\ \E route \in TheRoutes :
        /\ request.who # NoOne
        /\ \/ request.stage = "known" /\ route.body = "before"
           \/ request.stage = "permitted" /\ route.body = "after"
        /\ IF ~asked.json THEN Refuse(400)
           ELSE Goes(IF request.stage = "known" THEN "parsed" ELSE "ready")

\* A portal principal: granted, and in its own application or reading the catalog.
PortalMay(action) ==
    /\ action \in panel.allow
    /\ IF OfCatalog(asked.path) THEN action = <<"event-type", "read">>
       ELSE asked.path # "applications" \/ asked.method # "GET"
    /\ OfCatalog(asked.path) \/ asked.app = request.who

\* rolesAuthorization: refused when frozen, else granted by any role; without an
\* authorizer everything is allowed.
HostMay(action) ==
    panel.roles =>
        /\ ~(panel.frozen /\ action \in MutatingActions)
        /\ \E role \in RolesOf[request.who] : action \in RolePolicy[role]

Authorize ==
    /\ request.stage \in {"known", "parsed"}
    /\ \E route \in TheRoutes :
        /\ request.who # NoOne
        /\ \/ request.stage = "known" /\ route.body # "before"
           \/ request.stage = "parsed"
        /\ IF (IF request.portal THEN PortalMay(route.action) ELSE HostMay(route.action))
           THEN Goes(IF route.body = "after" THEN "permitted" ELSE "ready")
           ELSE Refuse(403)

\* What the core's operation leaves.
After(call, kinds) ==
    CASE call = "deleteApplication" -> exists \ {r \in exists : r[2] = Owner}
      [] call \in {"deleteEventType", "deleteEndpoint"} -> exists \ {<<k, Owner>> : k \in kinds}
      [] call \in {"createApplication", "createEventType", "updateEventType",
                   "createEndpoint"} -> exists \cup {<<k, Owner>> : k \in kinds}
      [] call = "publish" ->
            exists \cup {<<"message", Owner>>}
                   \cup (IF <<"endpoint", Owner>> \in exists THEN {<<"delivery", Owner>>} ELSE {})
      [] OTHER -> exists

ShownBy(call) ==
    IF call = "listApplications" THEN {r \in exists : r[1] = "application"}
    ELSE {<<k, Owner>> : k \in Calls[call].shows}

\* mapError's answers to what an operation may throw before it changes anything:
\* a hook's denial, a conflict, a payload too large, an invalid input, a failure.
Throws(call) ==
    {500} \cup (IF Guarded(call) THEN {403, 422} ELSE {})
          \cup (IF call = "publish" THEN {409, 413} ELSE {})

\* The operation on an id the core made: readonly first, then what it needs, then its own refusals.
Operate ==
    /\ request.stage = "ready" /\ ~Strays
    /\ \E route \in TheRoutes : LET call == route.call IN
        IF Guarded(call) /\ panel.readonly THEN Refuse(403)
        ELSE IF \E k \in Calls[call].needs : <<k, Owner>> \notin exists THEN Refuse(404)
        ELSE IF call = "createApplication" /\ <<"application", Owner>> \in exists
             THEN Refuse(409)
        ELSE \/ \E s \in Throws(call) : Refuse(s)
             \/ /\ \E s \in Calls[call].status :
                    Answer(s, {<<k, Owner>> : k \in Calls[call].writes}, ShownBy(call))
                /\ exists' = After(call, Calls[call].writes)
                /\ UNCHANGED <<panel, time, asked>>

\* The operation on an id that leads elsewhere.  A storage that takes a key as one
\* name has nothing there; another reaches what the id leads to, and which of that
\* owner's records, of what kind, is not told.  Only an event type's name is
\* checked before it is used.
Beyond == {r \in Resource : r[2] \in {Owner, asked.leads}}
Reaches(kinds) == IF kinds = {} THEN {} ELSE Beyond

OperateAstray ==
    /\ request.stage = "ready" /\ Strays
    /\ \E route \in TheRoutes : LET call == route.call IN
        IF Guarded(call) /\ panel.readonly THEN Refuse(403)
        ELSE IF call = "updateEventType" THEN Refuse(422)
        ELSE \/ Refuse(404)
             \/ \E s \in Throws(call) : Refuse(s)
             \/ /\ ~panel.opaque
                /\ \E s \in Calls[call].status :
                    Answer(s, Reaches(Calls[call].writes), Reaches(Calls[call].shows))
                /\ \/ UNCHANGED exists
                   \/ \E r \in Reaches(Calls[call].writes) :
                        exists' \in {exists \cup {r}, exists \ {r}}
                /\ UNCHANGED <<panel, time, asked>>

\* The application that embeds the panel uses the core as well.
Embedder ==
    /\ \/ exists' = exists \cup {<<"event-type", Catalog>>}
       \/ \E a \in App :
            \/ exists' = exists \cup {<<"application", a>>}
            \/ exists' = {r \in exists : r[2] # a}
            \/ /\ <<"application", a>> \in exists
               /\ exists' = exists \cup {<<k, a>> : k \in {"endpoint", "message", "delivery"}}
    /\ UNCHANGED <<panel, time, asked, request>>

Tick ==
    /\ time < MaxTime
    /\ time' = time + 1
    /\ UNCHANGED <<panel, exists, asked, request>>

GateNext ==
    \/ Arrive \/ Authenticate \/ Bootstrap \/ Parse \/ Authorize \/ Operate \/ OperateAstray
    \/ Embedder \/ Tick

GateSpec == GateInit /\ [][GateNext]_gateVars

------------------------------------------------------------------------------
(* Properties *)

Done == request.stage = "answered"

\* A request that presents a portal token is never anybody else's: whatever the
\* host's cookies say and whatever the host granted portals, it is refused or
\* stays within the application the token was minted for - all it changes or
\* shows is that application's, or is read from the catalog - wherever the storage
\* takes keys as names, and on any storage as long as its id is one the core made;
\* and a token that had run out when it was checked opens nothing.
\* (routes.ts verifies, scopes and authorizes a portal request in three places;
\* beyond them it is the storage that keeps one application's keys apart.)
PortalConfined ==
    Done /\ panel.portal /\ asked.from.bearer =>
        /\ panel.opaque \/ ~Strays =>
            /\ \A r \in request.wrote : r[2] = asked.from.owner
            /\ \A r \in request.shown : r[2] \in {asked.from.owner, Catalog}
        /\ ~asked.from.genuine \/ asked.from.exp = 0 =>
            request.wrote = {} /\ (asked.path \in Public \/ request.status = 401)

\* Whoever may only read changes nothing and sends nothing, and is shown no
\* secret (by an id that leads elsewhere, where the storage takes keys as names):
\* a host principal whose roles have read actions only, anybody of the
\* host under an authorizer that refuses changes, everybody under a read-only core.
\* (Thirty routes name their action by hand, and two lists of actions decide.)
ReadersOnlyRead ==
    Done =>
        /\ panel.readonly => request.wrote = {}
        /\ panel.roles /\ request.who \in Host /\ ~request.portal =>
            /\ panel.frozen => request.wrote = {}
            /\ RolesOf[request.who] \subseteq {"viewer"} =>
                /\ request.wrote = {}
                /\ panel.opaque \/ ~Strays => \A r \in request.shown : r[1] # "secret"

\* Every operation the OpenAPI document names is routed, and its successes are
\* among those the document lists.
\* (openapi.ts is written by hand beside routes.ts.)
AnswersAreDocumented ==
    Done /\ (\E d \in OpenApi : d[1] = asked.path /\ d[2] = asked.method) =>
        /\ request.status < 300 => Documented(asked.path, asked.method, request.status) \in OpenApi
        /\ asked.path \in Public \cup {"config"} \/ TheRoutes # {}
=============================================================================
