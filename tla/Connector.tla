----------------------------- MODULE Connector -----------------------------
(***************************************************************************)
(* The connector as the platform meets it (cmd/main.go): at start-up it    *)
(* collects the routes it advertises, then it serves requests.  A request  *)
(* goes through the top multiplexer, the router below it and the           *)
(* controller of its route, which refuses it or calls a service.  What the *)
(* services do is in the other modules.                                    *)
(*                                                                         *)
(* A controller registers its routes in the order of a Go map, so a path   *)
(* that two of its routes match may reach either.  gorilla/mux and         *)
(* net/http are modelled from how main uses them: the first route that     *)
(* matches, the longest pattern.  A path variable is never empty, a        *)
(* cleaned path has no empty segments.                                     *)
(***************************************************************************)
EXTENDS Endpoints, AttributeModel

CONSTANTS
  Idle,           \* no exchange
  Segments,       \* values of the path variables
  EngineNames,    \* names of PKI engines: sequences of segments
  AttributeLists  \* attributes a request may carry

VARIABLES
  step,       \* start-up steps done
  advertised, \* function group -> route -> times it is listed
  exchange    \* the request being served

vars == <<step, advertised, exchange>>

-----------------------------------------------------------------------------
(* Start-up.                                                               *)

AuthorityRouter ==
  <<AuthorityAttributesRoutes, AuthorityManagementRoutes, CertificateManagementRoutes>>
DiscoveryRouter == <<DiscoveryAttributesRoutes, DiscoveryRoutes>>

AllOf(router) == UNION {router[i] : i \in DOMAIN router}

Groups == {"authorityProvider", "discoveryProvider"}

\* Mutant: the second call collects the routes of the certificate router.
PopulatedFromCertificates ==
  <<[group |-> "authorityProvider", router |-> AuthorityRouter],
    [group |-> "authorityProvider", router |-> <<CertificateManagementRoutes>>],
    [group |-> "discoveryProvider", router |-> DiscoveryRouter]>>

\* The calls of populateRoutes, in their order; the second is a repetition.
Populated ==
  <<[group |-> "authorityProvider", router |-> AuthorityRouter],
    [group |-> "authorityProvider", router |-> AuthorityRouter],
    [group |-> "discoveryProvider", router |-> DiscoveryRouter]>>

Advertisable == AllOf(AuthorityRouter) \cup AllOf(DiscoveryRouter)

\* Mutant: the list of the group is not emptied first.
populateMore(group, router) ==
  advertised' = [advertised EXCEPT ![group] =
                   [r \in Advertisable |-> @[r] + IF r \in AllOf(router) THEN 1 ELSE 0]]

populateRoutes(group, router) ==
  advertised' = [advertised EXCEPT ![group] =
                   [r \in Advertisable |-> IF r \in AllOf(router) THEN 1 ELSE 0]]

Init ==
  /\ step = 0
  /\ advertised = [g \in Groups |-> [r \in Advertisable |-> 0]]
  /\ exchange = Idle

StartUp ==
  /\ step < Len(Populated)
  /\ step' = step + 1
  /\ populateRoutes(Populated[step'].group, Populated[step'].router)
  /\ UNCHANGED exchange

Serving == step = Len(Populated)

-----------------------------------------------------------------------------
(* The top multiplexer and the routers.                                    *)

Mount(path, subtree, router) == [path |-> path, subtree |-> subtree, router |-> router]

v2commonHealth == Handler("v2commonHealth", NoBody)
v2Info == Handler("v2Info", NoBody)

\* promhttp answers with the metrics the middlewares have counted.
metricsHandler == Handler("promhttp", NoBody)
MetricsRoutes == {Route("GET", <<"v1", "metrics">>, metricsHandler)}

V2HealthRoutes ==
  {Route("GET", <<"v2", "health">>, v2commonHealth),
   Route("GET", <<"v2", "health", "liveness">>, v2commonHealth),
   Route("GET", <<"v2", "health", "readiness">>, v2commonHealth)}
V2InfoRoutes == {Route("GET", <<"v2", Rest>>, v2Info)}

Mounts ==
  {Mount(<<"v1">>, FALSE, <<InfoRoutes>>), Mount(<<"v1">>, TRUE, <<HealthRoutes>>),
   Mount(<<"v1", "authorityProvider">>, TRUE, AuthorityRouter),
   Mount(<<"v2", "authorityProvider">>, TRUE, <<CertificateManagementRoutes>>),
   Mount(<<"v1", "discoveryProvider">>, TRUE, DiscoveryRouter),
   Mount(<<"v1", "secretProvider">>, TRUE, SecretRoutes),
   Mount(<<"v1", "metrics">>, FALSE, <<MetricsRoutes>>),
   Mount(<<"v2">>, TRUE, <<V2InfoRoutes>>),
   Mount(<<"v2", "health">>, FALSE, <<V2HealthRoutes>>),
   Mount(<<"v2", "health", "liveness">>, FALSE, <<V2HealthRoutes>>),
   Mount(<<"v2", "health", "readiness">>, FALSE, <<V2HealthRoutes>>)}

Mounted(mount, url) ==
  /\ IF mount.subtree THEN Len(url) > Len(mount.path) ELSE Len(url) = Len(mount.path)
  /\ \A i \in DOMAIN mount.path : url[i] = mount.path[i]

RouterOf(url) ==
  LET at == {m \in Mounts : Mounted(m, url)} IN
  IF at = {} THEN <<>>
  ELSE (CHOOSE m \in at : \A n \in at : Len(n.path) <= Len(m.path)).router

Variables == {Uuid, Kind, CredentialType, CredentialsType,
              SecretType, EngineName}

Fits(segment, pattern) == pattern \in Variables \/ segment = pattern

Matches(path, url) ==
  LET rest == {i \in DOMAIN path : path[i] = Rest}
      extra == Len(url) - Len(path)
  IN  IF rest = {}
      THEN extra = 0 /\ \A i \in DOMAIN path : Fits(url[i], path[i])
      ELSE LET r == CHOOSE i \in rest : TRUE IN
           /\ extra >= 0
           /\ \A i \in DOMAIN path :
                i # r => Fits(url[IF i < r THEN i ELSE i + extra], path[i])

\* The routes that may serve a request; none is a 404 or a 405.
Candidates(method, url) ==
  LET router == RouterOf(url)
      Hits(i) == {r \in router[i] : r.method = method /\ Matches(r.path, url)}
      some == {i \in DOMAIN router : Hits(i) # {}}
  IN  IF some = {} THEN {} ELSE Hits(CHOOSE i \in some : \A j \in some : i <= j)

-----------------------------------------------------------------------------
(* The controllers.  A body is readable or not, a JSON value or not; zero  *)
(* are the fields that are missing or empty, and attributes the list it    *)
(* carries.                                                                *)

AttributeFields == {"raProfileAttributes", "attributes"}

\* A list is empty where its field counts as missing; it is also the content
\* of the attributes of a "list", which may be there and empty.
Consistent(takes, b) ==
  IF takes.required \cap AttributeFields # {}
  THEN b.attributes = <<>> <=> b.zero \cap AttributeFields # {}
  ELSE takes.kind = "strict" \/ "content" \in b.zero => b.attributes = <<>>

Bodies(takes) ==
  IF takes.kind \in {"none", "own"} THEN {NoBody}
  ELSE {b \in [form : {"unreadable", "malformed", "json"},
               zero : SUBSET takes.required, attributes : AttributeLists] :
          Consistent(takes, b)}

ReadFails(takes, body) ==
  takes.kind \notin {"none", "own"} /\ body.form = "unreadable"

\* Content of a "list" has no concrete type to be decoded into.
DecodeFails(takes, body) ==
  \/ takes.kind \in {"strict", "list"} /\ body.form = "malformed"
  \/ takes.kind = "list" /\ body.attributes # <<>>

FieldMissing(takes, body) == takes.kind \notin {"none", "own"} /\ body.zero # {}

(* The check of each attribute asks for its name first, which panics for a *)
(* Nil; content is never nil, and a name of the catalogue never empty.     *)
AttributePanics(takes, body) ==
  /\ takes.nested
  /\ \E i \in DOMAIN body.attributes : UnmarshalAttributesValues(body.attributes)[i] = Nil

Outcome(takes, body) ==
  CASE ReadFails(takes, body)       -> "badRequest"
    [] DecodeFails(takes, body)     -> "badRequest"
    [] FieldMissing(takes, body)    -> "unprocessable"
    [] AttributePanics(takes, body) -> "panic"
    [] OTHER                        -> "service"

-----------------------------------------------------------------------------
(* The platform.  It calls what is advertised, the callbacks of the        *)
(* catalogue, and what the descriptions of the other interfaces name.      *)

Callbacks ==
  {Route("GET", AttributeList["ra_profile_role"].callback, RAProfileCallback),
   Route("GET", AttributeList["credential_group"].callback, CredentialAttributesCallback),
   Route("GET", AttributeList["pki_engines_to_discover"].callback, PkiEnginesCallback)}

\* Nothing serves these: an unknown path, a method no route has.
Nobody == Handler("nobody", NoBody)
Unserved == {Route("GET", <<"v1", "unknown">>, Nobody),
             Route("PATCH", <<"v1", "authorityProvider", "authorities">>, Nobody)}

Known ==
  {r \in Advertisable : \E g \in Groups : advertised[g][r] > 0}
    \cup Callbacks \cup InfoRoutes \cup HealthRoutes \cup AllOf(SecretRoutes)
    \cup MetricsRoutes \cup V2HealthRoutes
    \cup {Route("GET", <<"v2", "info">>, v2Info)} \cup Unserved

\* Each variable is replaced by its value, the name of an engine by its segments.
URL(path, value, engine) ==
  LET wide == {i \in DOMAIN path : path[i] \in {Rest, EngineName}}
      Filled(i) == IF path[i] \in Variables THEN value ELSE path[i]
      extra == Len(engine) - 1
  IN  IF wide = {} THEN [i \in DOMAIN path |-> Filled(i)]
      ELSE LET w == CHOOSE i \in wide : TRUE IN
           [i \in 1 .. Len(path) + extra |->
              IF i < w THEN Filled(i)
              ELSE IF i <= w + extra THEN engine[i - w + 1] ELSE Filled(i - extra)]

\* An engine has a name; a value is none of the words of the paths: a kind is
\* not called "authorities", a type of secrets not "rotate".
ASSUME NamesAssumption ==
  /\ EngineNames \subseteq Seq(STRING) \ {<<>>}
  /\ \A value \in Segments :
       \A route \in Advertisable \cup InfoRoutes \cup HealthRoutes \cup MetricsRoutes
                       \cup V2HealthRoutes \cup AllOf(SecretRoutes) :
         \A i \in DOMAIN route.path : value # route.path[i]

Send ==
  /\ Serving /\ exchange = Idle
  /\ \E route \in Known, value \in Segments, engine \in EngineNames :
       \E body \in Bodies(route.handler.body) :
         exchange' = [asked |-> route, url |-> URL(route.path, value, engine),
                      body |-> body, handler |-> Idle, outcome |-> "sent"]
  /\ UNCHANGED <<step, advertised>>

Sent == exchange # Idle /\ exchange.outcome = "sent"

Serve ==
  /\ Sent
  /\ \E route \in Candidates(exchange.asked.method, exchange.url) :
       exchange' = [exchange EXCEPT !.handler = route.handler,
                      !.outcome = Outcome(route.handler.body, exchange.body)]
  /\ UNCHANGED <<step, advertised>>

NotServed ==
  /\ Sent
  /\ Candidates(exchange.asked.method, exchange.url) = {}
  /\ exchange' = [exchange EXCEPT !.outcome = "notFound"]
  /\ UNCHANGED <<step, advertised>>

Forget == exchange # Idle /\ ~Sent /\ exchange' = Idle /\ UNCHANGED <<step, advertised>>

Next == StartUp \/ Send \/ Serve \/ NotServed \/ Forget

Spec == Init /\ [][Next]_vars

-----------------------------------------------------------------------------
Outcomes == {"sent", "badRequest", "unprocessable", "panic", "service", "notFound"}

(* Every variable has its type; a route is listed at most once.            *)
TypeOK ==
  /\ step \in 0 .. Len(Populated)
  /\ advertised \in [Groups -> [Advertisable -> {0, 1}]]
  /\ exchange # Idle => exchange.outcome \in Outcomes

(* What the platform asks for is what serves it, in whatever order the     *)
(* controllers have registered their routes: each advertised endpoint,     *)
(* under the prefix and version it is advertised with, each callback of    *)
(* the catalogue with the values put into its path, engines of nested      *)
(* mounts included, and each route of the secret interface but the one     *)
(* that RotationIsNotImplemented is about.                                 *)
ReachesItsHandler ==
  exchange # Idle /\ ~Sent /\ exchange.url # RotateAttributes =>
    exchange.handler = IF exchange.asked \in Unserved THEN Idle ELSE exchange.asked.handler

(* The information the platform gets lists every route of the two function *)
(* groups, once each, although main collects those of authorityProvider    *)
(* twice.                                                                  *)
AdvertisesEveryRoute ==
  Serving => /\ \A r \in AllOf(AuthorityRouter) : advertised["authorityProvider"][r] = 1
             /\ \A r \in AllOf(DiscoveryRouter) : advertised["discoveryProvider"][r] = 1

(* A certificate operation starts only with attributes that the catalogue  *)
(* has as data, at least one, and with no Nil among them for the lookups   *)
(* by uuid to run into.                                                    *)
CertificateServicesSeeAttributes ==
  exchange # Idle /\ exchange.outcome = "service"
    /\ "raProfileAttributes" \in exchange.handler.body.required =>
    /\ exchange.body.attributes # <<>>
    /\ \A i \in DOMAIN exchange.body.attributes :
         GetAttributeByName(exchange.body.attributes[i].name).type = "data"

(* "Not implemented for now - returns HTTP 501 Not Implemented"            *)
(* (server.go): the attributes of a rotation are asked of the handler that *)
(* answers 501.                                                            *)
RotationIsNotImplemented ==
  exchange # Idle /\ ~Sent /\ exchange.url = RotateAttributes =>
    exchange.handler.name = "getRotateAttributes"
=============================================================================
