--------------------------- MODULE ConnectorProofs ---------------------------
(***************************************************************************)
(* What the connector advertises, and what its controllers let through to  *)
(* the services, for any path variables, engines and lists of attributes.  *)
(***************************************************************************)
EXTENDS Connector, TLAPS, NaturalsInduction, WellFoundedInduction

-----------------------------------------------------------------------------
(* Start-up.                                                               *)

Counted(group, router) ==
  \A r \in AllOf(router) : advertised[group][r] = 1

\* What the calls made so far have listed.
StartInv ==
  /\ step \in 0 .. 3
  /\ advertised \in [Groups -> [Advertisable -> {0, 1}]]
  /\ step >= 1 => Counted("authorityProvider", AuthorityRouter)
  /\ step >= 3 => Counted("discoveryProvider", DiscoveryRouter)

LEMMA Calls ==
  /\ Len(Populated) = 3
  /\ \A i \in {1, 2} :
       Populated[i] = [group |-> "authorityProvider", router |-> AuthorityRouter]
  /\ Populated[3] = [group |-> "discoveryProvider", router |-> DiscoveryRouter]
  BY DEF Populated

LEMMA CallStep ==
  ASSUME StartInv, NEW group \in Groups, NEW router, AllOf(router) \subseteq Advertisable,
         populateRoutes(group, router)
  PROVE  /\ advertised' \in [Groups -> [Advertisable -> {0, 1}]]
         /\ Counted(group, router)'
         /\ \A g \in Groups \ {group} : advertised'[g] = advertised[g]
<1>. DEFINE listed == [r \in Advertisable |-> IF r \in AllOf(router) THEN 1 ELSE 0]
<1>1. advertised' = [advertised EXCEPT ![group] = listed]
  BY DEF populateRoutes
<1>2. listed \in [Advertisable -> {0, 1}] /\ \A r \in AllOf(router) : listed[r] = 1
  OBVIOUS
<1>. HIDE DEF listed
<1>. QED
  BY <1>1, <1>2 DEF StartInv, Counted

LEMMA StartInit == Init => StartInv
  BY DEF Init, StartInv, Counted

LEMMA StartStep == StartInv /\ [Next]_vars => StartInv'
<1>. SUFFICES ASSUME StartInv, [Next]_vars
              PROVE  StartInv'
  OBVIOUS
<1>1. CASE UNCHANGED <<step, advertised>>
  BY <1>1 DEF StartInv, Counted
<1>2. CASE StartUp
  <2>. DEFINE call == Populated[step']
  <2>1. step \in {0, 1, 2} /\ step' = step + 1 /\ populateRoutes(call.group, call.router)
    BY <1>2, Calls DEF StartUp, StartInv
  <2>2. /\ AllOf(AuthorityRouter) \subseteq Advertisable
        /\ AllOf(DiscoveryRouter) \subseteq Advertisable
    BY DEF Advertisable
  <2>3. CASE step \in {0, 1}
    <3>1. call.group = "authorityProvider" /\ call.router = AuthorityRouter
      BY <2>1, <2>3, Calls
    <3>2. /\ advertised' \in [Groups -> [Advertisable -> {0, 1}]]
          /\ Counted("authorityProvider", AuthorityRouter)'
      BY <2>1, <2>2, <3>1, CallStep DEF Groups
    <3>. QED
      BY <2>1, <2>3, <3>2 DEF StartInv
  <2>4. CASE step = 2
    <3>1. call.group = "discoveryProvider" /\ call.router = DiscoveryRouter
      BY <2>1, <2>4, Calls
    <3>2. /\ advertised' \in [Groups -> [Advertisable -> {0, 1}]]
          /\ Counted("discoveryProvider", DiscoveryRouter)'
          /\ advertised'["authorityProvider"] = advertised["authorityProvider"]
      BY <2>1, <2>2, <3>1, CallStep DEF Groups
    <3>3. Counted("authorityProvider", AuthorityRouter)'
      BY <2>4, <3>2 DEF StartInv, Counted
    <3>. QED
      BY <2>1, <2>4, <3>2, <3>3 DEF StartInv
  <2>. QED
    BY <2>1, <2>3, <2>4
<1>. QED
  BY <1>1, <1>2 DEF Next, Send, Serve, NotServed, Forget, vars

LEMMA StartInductive == Spec => []StartInv
  BY StartInit, StartStep, PTL DEF Spec

(* Every variable has its type, and no route is listed twice, although the *)
(* routes of authorityProvider are collected twice.                        *)
THEOREM ConnectorTypes == Spec => []TypeOK
<1>. DEFINE Known1 == exchange # Idle => exchange.outcome \in Outcomes
<1>1. Init => Known1
  BY DEF Init
<1>2. Known1 /\ [Next]_vars => Known1'
  <2>. SUFFICES ASSUME Known1, [Next]_vars
                PROVE  Known1'
    OBVIOUS
  <2>1. CASE Send
    BY <2>1 DEF Send, Outcomes
  <2>2. CASE Serve
    BY <2>2 DEF Serve, Sent, Outcome, Outcomes
  <2>3. CASE NotServed
    BY <2>3 DEF NotServed, Sent, Outcomes
  <2>. QED
    BY <2>1, <2>2, <2>3 DEF Next, StartUp, Forget, vars
<1>3. StartInv /\ Known1 => TypeOK
  BY Calls DEF StartInv, TypeOK
<1>. HIDE DEF Known1
<1>. QED
  BY <1>1, <1>2, <1>3, StartInductive, PTL DEF Spec

(* When the connector serves, the platform is told every route of both     *)
(* function groups, once each.                                             *)
THEOREM AdvertisedCorrect == Spec => []AdvertisesEveryRoute
<1>1. StartInv => AdvertisesEveryRoute
  BY Calls DEF StartInv, AdvertisesEveryRoute, Serving, Counted
<1>. QED
  BY <1>1, StartInductive, PTL

-----------------------------------------------------------------------------
(* The table of the routes: who takes the attributes of a profile looks at *)
(* each of them.                                                           *)

LooksAtEach(handler) ==
  "raProfileAttributes" \in handler.body.required =>
    handler.body.kind = "fields" /\ handler.body.nested

AllLookAtEach(routes) == \A r \in routes : LooksAtEach(r.handler)

LEMMA HandlersLook ==
  \A name : /\ LooksAtEach(Handler(name, NoBody)) /\ LooksAtEach(Handler(name, OwnBody))
            /\ LooksAtEach(Handler(name, Values))
            /\ \A b \in {CertificateSignRequestDto, CertificateRenewRequestDto,
                         CertRevocationDto, CertificateIdentificationRequestDto,
                         CaCertificatesRequestDto, CertificateRevocationListRequestDto,
                         AuthorityProviderInstanceRequestDto, DiscoveryRequestDto,
                         DiscoveryDataRequestDto, RequestAttributeDto} :
                 LooksAtEach(Handler(name, b))
  BY DEF LooksAtEach, Handler, Body, NoBody, OwnBody, Values,
         CertificateSignRequestDto, CertificateRenewRequestDto, CertRevocationDto,
         CertificateIdentificationRequestDto, CaCertificatesRequestDto,
         CertificateRevocationListRequestDto, AuthorityProviderInstanceRequestDto,
         DiscoveryRequestDto, DiscoveryDataRequestDto, RequestAttributeDto

LEMMA RouteHandler == \A method, path, handler : Route(method, path, handler).handler = handler
  BY DEF Route

LEMMA AuthorityLooks == AllLookAtEach(AllOf(AuthorityRouter))
<1>1. AllLookAtEach(AuthorityAttributesRoutes)
  <2>1. \A r \in AuthorityAttributesRoutes :
          r.handler \in {ListAttributeDefinitions, CredentialAttributesCallback,
                         ValidateAttributes}
    BY DEF Route, AuthorityAttributesRoutes
  <2>2. /\ LooksAtEach(ListAttributeDefinitions) /\ LooksAtEach(CredentialAttributesCallback)
        /\ LooksAtEach(ValidateAttributes)
    BY HandlersLook
       DEF ListAttributeDefinitions, CredentialAttributesCallback, ValidateAttributes
  <2>. QED
    BY <2>1, <2>2 DEF AllLookAtEach
<1>2. AllLookAtEach(AuthorityManagementRoutes)
  <2>1. \A r \in AuthorityManagementRoutes :
          r.handler \in {CreateAuthorityInstance, GetAuthorityInstance, GetCaCertificates,
                         GetConnection, GetCrl, ListAuthorityInstances,
                         ListRAProfileAttributes, RemoveAuthorityInstance,
                         UpdateAuthorityInstance, ValidateRAProfileAttributes,
                         RAProfileCallback}
    BY DEF Route, AuthorityManagementRoutes
  <2>2. /\ LooksAtEach(CreateAuthorityInstance) /\ LooksAtEach(GetAuthorityInstance)
        /\ LooksAtEach(GetCaCertificates) /\ LooksAtEach(GetConnection) /\ LooksAtEach(GetCrl)
        /\ LooksAtEach(ListAuthorityInstances) /\ LooksAtEach(ListRAProfileAttributes)
        /\ LooksAtEach(RemoveAuthorityInstance) /\ LooksAtEach(UpdateAuthorityInstance)
        /\ LooksAtEach(ValidateRAProfileAttributes) /\ LooksAtEach(RAProfileCallback)
    BY HandlersLook
       DEF CreateAuthorityInstance, GetAuthorityInstance, GetCaCertificates, GetConnection,
           GetCrl, ListAuthorityInstances, ListRAProfileAttributes, RemoveAuthorityInstance,
           UpdateAuthorityInstance, ValidateRAProfileAttributes, RAProfileCallback
  <2>. QED
    BY <2>1, <2>2 DEF AllLookAtEach
<1>3. AllLookAtEach(CertificateManagementRoutes)
  <2>1. \A r \in CertificateManagementRoutes :
          r.handler \in {IdentifyCertificate, IssueCertificate, ListIssueCertificateAttributes,
                         ListRevokeCertificateAttributes, RenewCertificate, RevokeCertificate,
                         ValidateIssueCertificateAttributes,
                         ValidateRevokeCertificateAttributes}
    BY DEF Route, CertificateManagementRoutes
  <2>2. /\ LooksAtEach(IdentifyCertificate) /\ LooksAtEach(IssueCertificate)
        /\ LooksAtEach(ListIssueCertificateAttributes)
        /\ LooksAtEach(ListRevokeCertificateAttributes)
        /\ LooksAtEach(RenewCertificate) /\ LooksAtEach(RevokeCertificate)
        /\ LooksAtEach(ValidateIssueCertificateAttributes)
        /\ LooksAtEach(ValidateRevokeCertificateAttributes)
    BY HandlersLook
       DEF IdentifyCertificate, IssueCertificate, ListIssueCertificateAttributes,
           ListRevokeCertificateAttributes, RenewCertificate, RevokeCertificate,
           ValidateIssueCertificateAttributes, ValidateRevokeCertificateAttributes
  <2>. QED
    BY <2>1, <2>2 DEF AllLookAtEach
<1>. QED
  BY <1>1, <1>2, <1>3 DEF AllLookAtEach, AllOf, AuthorityRouter

LEMMA DiscoveryLooks == AllLookAtEach(AllOf(DiscoveryRouter))
<1>1. AllLookAtEach(DiscoveryAttributesRoutes)
  <2>1. \A r \in DiscoveryAttributesRoutes :
          r.handler \in {ListDiscoveryAttributeDefinitions, PkiEnginesCallback,
                         ValidateDiscoveryAttributes}
    BY DEF Route, DiscoveryAttributesRoutes
  <2>2. /\ LooksAtEach(ListDiscoveryAttributeDefinitions) /\ LooksAtEach(PkiEnginesCallback)
        /\ LooksAtEach(ValidateDiscoveryAttributes)
    BY HandlersLook
       DEF ListDiscoveryAttributeDefinitions, PkiEnginesCallback, ValidateDiscoveryAttributes
  <2>. QED
    BY <2>1, <2>2 DEF AllLookAtEach
<1>2. AllLookAtEach(DiscoveryRoutes)
  <2>1. \A r \in DiscoveryRoutes :
          r.handler \in {DeleteDiscovery, DiscoverCertificate, GetDiscovery}
    BY DEF Route, DiscoveryRoutes
  <2>2. /\ LooksAtEach(DeleteDiscovery) /\ LooksAtEach(DiscoverCertificate)
        /\ LooksAtEach(GetDiscovery)
    BY HandlersLook DEF DeleteDiscovery, DiscoverCertificate, GetDiscovery
  <2>. QED
    BY <2>1, <2>2 DEF AllLookAtEach
<1>. QED
  BY <1>1, <1>2 DEF AllLookAtEach, AllOf, DiscoveryRouter

LEMMA SecretLooks == AllLookAtEach(AllOf(SecretRoutes))
<1>1. \A method, path, name : AllLookAtEach(SecretRoute(method, path, name))
  BY RouteHandler, HandlersLook DEF AllLookAtEach, SecretRoute
<1>2. DOMAIN SecretRoutes = 1 .. 11
  BY DEF SecretRoutes
<1>3. \A i \in 1 .. 11 : AllLookAtEach(SecretRoutes[i])
  BY <1>1 DEF SecretRoutes
<1>. QED
  BY <1>2, <1>3 DEF AllLookAtEach, AllOf

LEMMA OthersLook ==
  AllLookAtEach(UNION {Callbacks, InfoRoutes, HealthRoutes, MetricsRoutes, V2HealthRoutes,
                       {Route("GET", <<"v2", "info">>, v2Info)}, Unserved})
<1>1. AllLookAtEach(Callbacks) /\ AllLookAtEach(InfoRoutes)
      /\ AllLookAtEach(HealthRoutes) /\ AllLookAtEach(Unserved)
  BY RouteHandler, HandlersLook
     DEF AllLookAtEach, Callbacks, RAProfileCallback, CredentialAttributesCallback,
         PkiEnginesCallback, InfoRoutes, ListSupportedFunctions, HealthRoutes, CheckHealth,
         Unserved, Nobody
<1>2. AllLookAtEach(V2HealthRoutes) /\ AllLookAtEach(MetricsRoutes)
      /\ AllLookAtEach({Route("GET", <<"v2", "info">>, v2Info)})
  BY RouteHandler, HandlersLook
     DEF AllLookAtEach, V2HealthRoutes, v2commonHealth, v2Info, MetricsRoutes, metricsHandler
<1>. QED
  BY <1>1, <1>2 DEF AllLookAtEach

\* Every route the platform may ask, whatever it was told of.
Asked ==
  UNION {AllOf(AuthorityRouter), AllOf(DiscoveryRouter), AllOf(SecretRoutes), Callbacks,
         InfoRoutes, HealthRoutes, MetricsRoutes, V2HealthRoutes,
         {Route("GET", <<"v2", "info">>, v2Info)}}

LEMMA KnownAsked == Known \subseteq Asked \cup Unserved
  BY DEF Known, Asked, Advertisable

LEMMA AskedLook == AllLookAtEach(Asked \cup Unserved)
  BY AuthorityLooks, DiscoveryLooks, SecretLooks, OthersLook DEF AllLookAtEach, Asked

-----------------------------------------------------------------------------
(* Paths.  A plain one has as many segments as its URL, and two of them    *)
(* match when they are alike segment by segment.                           *)

IsPath(path) == Len(path) \in Nat /\ DOMAIN path = 1 .. Len(path)
Plain(path) == IsPath(path) /\ \A i \in DOMAIN path : path[i] \notin {Rest, EngineName}

Covers(pattern, path) ==
  /\ Len(pattern) = Len(path)
  /\ \A i \in DOMAIN path : pattern[i] \in Variables \/ pattern[i] = path[i]

Foreign(value, path) == \A i \in DOMAIN path : value # path[i]

LEMMA PlainURL ==
  ASSUME NEW path, Plain(path), NEW value, NEW engine
  PROVE  /\ DOMAIN URL(path, value, engine) = DOMAIN path
         /\ Len(URL(path, value, engine)) = Len(path)
         /\ \A i \in DOMAIN path :
              URL(path, value, engine)[i] = IF path[i] \in Variables THEN value ELSE path[i]
<1>. DEFINE url == [i \in DOMAIN path |-> IF path[i] \in Variables THEN value ELSE path[i]]
<1>1. {i \in DOMAIN path : path[i] \in {Rest, EngineName}} = {}
  BY DEF Plain
<1>2. URL(path, value, engine) = url
  BY <1>1 DEF URL
<1>3. Len(url) = Len(path)
  BY DEF Plain, IsPath
<1>. QED
  BY <1>2, <1>3

LEMMA PlainMatch ==
  ASSUME NEW path, Plain(path), NEW pattern, Plain(pattern),
         NEW value, Foreign(value, pattern), NEW engine
  PROVE  Matches(pattern, URL(path, value, engine)) <=> Covers(pattern, path)
<1>. DEFINE url == URL(path, value, engine)
<1>1. /\ DOMAIN url = DOMAIN path /\ Len(url) = Len(path)
      /\ \A i \in DOMAIN path : url[i] = IF path[i] \in Variables THEN value ELSE path[i]
  BY PlainURL
<1>2. /\ DOMAIN path = 1 .. Len(path) /\ DOMAIN pattern = 1 .. Len(pattern)
      /\ Len(path) \in Nat /\ Len(pattern) \in Nat
  BY DEF Plain, IsPath
<1>. HIDE DEF url
<1>3. \A i \in DOMAIN path \cap DOMAIN pattern :
        Fits(url[i], pattern[i]) <=> pattern[i] \in Variables \/ pattern[i] = path[i]
  BY <1>1 DEF Fits, Foreign
<1>4. {i \in DOMAIN pattern : pattern[i] = Rest} = {}
  BY DEF Plain
<1>5. Matches(pattern, url) <=>
        Len(url) - Len(pattern) = 0 /\ \A i \in DOMAIN pattern : Fits(url[i], pattern[i])
  BY <1>4 DEF Matches
<1>6. ASSUME Len(pattern) = Len(path)
      PROVE  Matches(pattern, url) <=> Covers(pattern, path)
  BY <1>1, <1>2, <1>3, <1>5, <1>6 DEF Covers
<1>7. ASSUME Len(pattern) # Len(path)
      PROVE  ~Matches(pattern, url) /\ ~Covers(pattern, path)
  <2>1. \A m, n \in Nat : m # n => n - m # 0
    OBVIOUS
  <2>2. Len(url) - Len(pattern) # 0
    BY <1>1, <1>2, <1>7, <2>1, Zenon
  <2>. QED
    BY <1>5, <1>7, <2>2 DEF Covers
<1>. QED
  BY <1>6, <1>7 DEF url

LEMMA CoversItself == ASSUME NEW path PROVE Covers(path, path)
  BY DEF Covers

-----------------------------------------------------------------------------
(* The first router whose route matches serves the request.                *)

LEMMA Smallest ==
  ASSUME NEW S, S \subseteq Nat, S # {}
  PROVE  \E i \in S : \A j \in S : i <= j
<1>. DEFINE Less == OpToRel(<, Nat)
<1>1. IsWellFoundedOn(Less, Nat)
  BY NatLessThanWellFounded
<1>2. \A i \in Nat : \A j \in Nat : <<i, j>> \in Less <=> i < j
  BY Zenon DEF OpToRel
<1>. HIDE DEF Less
<1>3. PICK i \in S : \A j \in S : ~(<<j, i>> \in Less)
  BY <1>1, WFMin
<1>4. \A j \in S : ~(j < i)
  BY <1>2, <1>3, Zenon
<1>. QED
  BY <1>4

Served(method, url, handler) ==
  /\ Candidates(method, url) # {}
  /\ \A r \in Candidates(method, url) : r.handler = handler

Hits(routes, method, url) == {r \in routes : r.method = method /\ Matches(r.path, url)}

LEMMA FirstHit ==
  ASSUME NEW url, DOMAIN RouterOf(url) \subseteq Nat, NEW method
  PROVE  \/ /\ Candidates(method, url) = {}
            /\ \A i \in DOMAIN RouterOf(url) : Hits(RouterOf(url)[i], method, url) = {}
         \/ \E i \in DOMAIN RouterOf(url) :
              /\ Candidates(method, url) = Hits(RouterOf(url)[i], method, url)
              /\ Candidates(method, url) # {}
<1>. DEFINE router == RouterOf(url)
            some == {i \in DOMAIN router : Hits(router[i], method, url) # {}}
            first == CHOOSE i \in some : \A j \in some : i <= j
<1>1. Candidates(method, url) = IF some = {} THEN {} ELSE Hits(router[first], method, url)
  BY DEF Candidates, Hits
<1>2. CASE some = {}
  BY <1>1, <1>2
<1>3. CASE some # {}
  <2>1. \E i \in some : \A j \in some : i <= j
    BY <1>3, Smallest
  <2>2. first \in some
    BY <2>1
  <2>. QED
    BY <1>1, <1>3, <2>2
<1>. QED
  BY <1>2, <1>3

LEMMA CandidatesIn ==
  ASSUME NEW url, DOMAIN RouterOf(url) \subseteq Nat, NEW method
  PROVE  \A r \in Candidates(method, url) :
           r \in AllOf(RouterOf(url)) /\ r.method = method /\ Matches(r.path, url)
  BY FirstHit DEF AllOf, Hits

LEMMA ServedBy ==
  ASSUME NEW url, NEW router, RouterOf(url) = router, DOMAIN router \subseteq Nat,
         NEW method, NEW handler,
         \E r \in AllOf(router) : r.method = method /\ Matches(r.path, url),
         \A r \in AllOf(router) :
           r.method = method /\ Matches(r.path, url) => r.handler = handler
  PROVE  Served(method, url, handler)
<1>1. Candidates(method, url) # {}
  BY FirstHit DEF AllOf, Hits
<1>. QED
  BY <1>1, CandidatesIn DEF Served

LEMMA NoneServes ==
  ASSUME NEW url, NEW router, RouterOf(url) = router, NEW method,
         \A r \in AllOf(router) : r.method = method => ~Matches(r.path, url)
  PROVE  Candidates(method, url) = {}
  BY DEF Candidates, AllOf

IsLongest(mount, url) ==
  /\ mount \in Mounts /\ Mounted(mount, url) /\ Len(mount.path) \in Nat
  /\ \A other \in Mounts : Mounted(other, url) /\ other # mount =>
       Len(other.path) \in 0 .. Len(mount.path) - 1

LEMMA LongestMount ==
  ASSUME NEW url, NEW mount, IsLongest(mount, url)
  PROVE  RouterOf(url) = mount.router
<1>. DEFINE at == {m \in Mounts : Mounted(m, url)}
<1>1. mount \in at /\ \A n \in at : Len(n.path) <= Len(mount.path)
  BY DEF IsLongest
<1>2. \A m \in at : (\A n \in at : Len(n.path) <= Len(m.path)) => m = mount
  BY DEF IsLongest
<1>3. RouterOf(url) = (CHOOSE m \in at : \A n \in at : Len(n.path) <= Len(m.path)).router
  BY <1>1 DEF RouterOf
<1>. HIDE DEF at
<1>. QED
  BY <1>1, <1>2, <1>3

Providers ==
  {Mount(<<"v1", "authorityProvider">>, TRUE, AuthorityRouter),
   Mount(<<"v2", "authorityProvider">>, TRUE, <<CertificateManagementRoutes>>),
   Mount(<<"v1", "discoveryProvider">>, TRUE, DiscoveryRouter),
   Mount(<<"v1", "secretProvider">>, TRUE, SecretRoutes)}

LEMMA ProviderRouter ==
  ASSUME NEW url, Len(url) \in Nat, Len(url) > 2, NEW mount \in Providers,
         url[1] = mount.path[1], url[2] = mount.path[2]
  PROVE  RouterOf(url) = mount.router
<1>1. mount \in Mounts /\ Mounted(mount, url) /\ Len(mount.path) = 2
  <2>1. /\ mount \in Mounts /\ Len(mount.path) = 2 /\ DOMAIN mount.path = 1 .. 2
        /\ mount.subtree
    BY DEF Providers, Mounts, Mount
  <2>. QED
    BY <2>1 DEF Mounted
<1>2. \A other \in Mounts : Mounted(other, url) => other \in Providers \/ Len(other.path) = 1
  <2>. SUFFICES ASSUME NEW other \in Mounts, Mounted(other, url), other \notin Providers,
                       Len(other.path) # 1
                PROVE  FALSE
    OBVIOUS
  <2>1. Len(url) = Len(other.path) /\ url[2] = "health"
    BY DEF Mounts, Mount, Mounted, Providers
  <2>2. url[2] # "health"
    BY DEF Providers, Mount
  <2>. QED
    BY <2>1, <2>2
<1>3. \A other \in Providers : Mounted(other, url) => other = mount
  <2>1. \A other \in Providers :
          Mounted(other, url) => url[1] = other.path[1] /\ url[2] = other.path[2]
    BY DEF Providers, Mount, Mounted
  <2>2. \A m, n \in Providers : m.path[1] = n.path[1] /\ m.path[2] = n.path[2] => m = n
    <3>. DEFINE A == Mount(<<"v1", "authorityProvider">>, TRUE, AuthorityRouter)
                C == Mount(<<"v2", "authorityProvider">>, TRUE, <<CertificateManagementRoutes>>)
                D == Mount(<<"v1", "discoveryProvider">>, TRUE, DiscoveryRouter)
                S == Mount(<<"v1", "secretProvider">>, TRUE, SecretRoutes)
    <3>1. /\ A.path[1] = "v1" /\ A.path[2] = "authorityProvider"
          /\ C.path[1] = "v2" /\ C.path[2] = "authorityProvider"
          /\ D.path[1] = "v1" /\ D.path[2] = "discoveryProvider"
          /\ S.path[1] = "v1" /\ S.path[2] = "secretProvider"
      BY DEF Mount
    <3>2. Providers = {A, C, D, S}
      BY DEF Providers
    <3>. HIDE DEF A, C, D, S
    <3>. QED
      BY <3>1, <3>2
  <2>. QED
    BY <2>1, <2>2
<1>4. IsLongest(mount, url)
  BY <1>1, <1>2, <1>3 DEF IsLongest
<1>. QED
  BY <1>4, LongestMount

LEMMA ShortRouters ==
  ASSUME NEW url, Len(url) \in Nat
  PROVE  /\ Len(url) = 1 /\ url[1] = "v1" => RouterOf(url) = <<InfoRoutes>>
         /\ Len(url) = 2 /\ url[1] = "v1" /\ url[2] # "metrics" =>
              RouterOf(url) = <<HealthRoutes>>
         /\ Len(url) = 2 /\ url[1] = "v1" /\ url[2] = "metrics" =>
              RouterOf(url) = <<MetricsRoutes>>
         /\ Len(url) = 2 /\ url[1] = "v2" /\ url[2] # "health" =>
              RouterOf(url) = <<V2InfoRoutes>>
         /\ Len(url) = 2 /\ url[1] = "v2" /\ url[2] = "health" =>
              RouterOf(url) = <<V2HealthRoutes>>
         /\ Len(url) = 3 /\ url[1] = "v2" /\ url[2] = "health"
              /\ url[3] \in {"liveness", "readiness"} => RouterOf(url) = <<V2HealthRoutes>>
<1>1. ASSUME Len(url) = 1, url[1] = "v1"
      PROVE  RouterOf(url) = <<InfoRoutes>>
  <2>. DEFINE mount == Mount(<<"v1">>, FALSE, <<InfoRoutes>>)
  <2>1. /\ mount \in Mounts /\ Mounted(mount, url)
        /\ Len(mount.path) = 1 /\ mount.router = <<InfoRoutes>>
    BY <1>1 DEF Mounts, Mount, Mounted
  <2>2. \A other \in Mounts : Mounted(other, url) => other = mount
    BY <1>1 DEF Mounts, Mount, Mounted
  <2>. HIDE DEF mount
  <2>3. IsLongest(mount, url)
    BY <2>1, <2>2 DEF IsLongest
  <2>. QED
    BY <2>1, <2>3, LongestMount
<1>2. ASSUME Len(url) = 2, url[1] = "v1", url[2] # "metrics"
      PROVE  RouterOf(url) = <<HealthRoutes>>
  <2>. DEFINE mount == Mount(<<"v1">>, TRUE, <<HealthRoutes>>)
  <2>1. /\ mount \in Mounts /\ Mounted(mount, url)
        /\ Len(mount.path) = 1 /\ mount.router = <<HealthRoutes>>
    BY <1>2 DEF Mounts, Mount, Mounted
  <2>2. \A other \in Mounts : Mounted(other, url) => other = mount
    BY <1>2 DEF Mounts, Mount, Mounted
  <2>. HIDE DEF mount
  <2>3. IsLongest(mount, url)
    BY <2>1, <2>2 DEF IsLongest
  <2>. QED
    BY <2>1, <2>3, LongestMount
<1>3. ASSUME Len(url) = 2, url[1] = "v2", url[2] # "health"
      PROVE  RouterOf(url) = <<V2InfoRoutes>>
  <2>. DEFINE mount == Mount(<<"v2">>, TRUE, <<V2InfoRoutes>>)
  <2>1. /\ mount \in Mounts /\ Mounted(mount, url)
        /\ Len(mount.path) = 1 /\ mount.router = <<V2InfoRoutes>>
    BY <1>3 DEF Mounts, Mount, Mounted
  <2>2. \A other \in Mounts : Mounted(other, url) => other = mount
    BY <1>3 DEF Mounts, Mount, Mounted
  <2>. HIDE DEF mount
  <2>3. IsLongest(mount, url)
    BY <2>1, <2>2 DEF IsLongest
  <2>. QED
    BY <2>1, <2>3, LongestMount
<1>4. ASSUME Len(url) = 2, url[1] = "v2", url[2] = "health"
      PROVE  RouterOf(url) = <<V2HealthRoutes>>
  <2>. DEFINE mount == Mount(<<"v2", "health">>, FALSE, <<V2HealthRoutes>>)
  <2>1. /\ mount \in Mounts /\ Mounted(mount, url)
        /\ Len(mount.path) = 2 /\ mount.router = <<V2HealthRoutes>>
    BY <1>4 DEF Mounts, Mount, Mounted
  <2>2. \A other \in Mounts : Mounted(other, url) /\ other # mount => Len(other.path) = 1
    BY <1>4 DEF Mounts, Mount, Mounted
  <2>. HIDE DEF mount
  <2>3. IsLongest(mount, url)
    BY <2>1, <2>2 DEF IsLongest
  <2>. QED
    BY <2>1, <2>3, LongestMount
<1>5. ASSUME Len(url) = 3, url[1] = "v2", url[2] = "health", url[3] = "liveness"
      PROVE  RouterOf(url) = <<V2HealthRoutes>>
  <2>. DEFINE mount == Mount(<<"v2", "health", "liveness">>, FALSE, <<V2HealthRoutes>>)
  <2>1. /\ mount \in Mounts /\ Mounted(mount, url)
        /\ Len(mount.path) = 3 /\ mount.router = <<V2HealthRoutes>>
    BY <1>5 DEF Mounts, Mount, Mounted
  <2>2. \A other \in Mounts : Mounted(other, url) /\ other # mount => Len(other.path) = 1
    BY <1>5 DEF Mounts, Mount, Mounted
  <2>. HIDE DEF mount
  <2>3. IsLongest(mount, url)
    BY <2>1, <2>2 DEF IsLongest
  <2>. QED
    BY <2>1, <2>3, LongestMount
<1>6. ASSUME Len(url) = 3, url[1] = "v2", url[2] = "health", url[3] = "readiness"
      PROVE  RouterOf(url) = <<V2HealthRoutes>>
  <2>. DEFINE mount == Mount(<<"v2", "health", "readiness">>, FALSE, <<V2HealthRoutes>>)
  <2>1. /\ mount \in Mounts /\ Mounted(mount, url)
        /\ Len(mount.path) = 3 /\ mount.router = <<V2HealthRoutes>>
    BY <1>6 DEF Mounts, Mount, Mounted
  <2>2. \A other \in Mounts : Mounted(other, url) /\ other # mount => Len(other.path) = 1
    BY <1>6 DEF Mounts, Mount, Mounted
  <2>. HIDE DEF mount
  <2>3. IsLongest(mount, url)
    BY <2>1, <2>2 DEF IsLongest
  <2>. QED
    BY <2>1, <2>3, LongestMount
<1>7. ASSUME Len(url) = 2, url[1] = "v1", url[2] = "metrics"
      PROVE  RouterOf(url) = <<MetricsRoutes>>
  <2>. DEFINE mount == Mount(<<"v1", "metrics">>, FALSE, <<MetricsRoutes>>)
  <2>1. /\ mount \in Mounts /\ Mounted(mount, url)
        /\ Len(mount.path) = 2 /\ mount.router = <<MetricsRoutes>>
    BY <1>7 DEF Mounts, Mount, Mounted
  <2>2. \A other \in Mounts : Mounted(other, url) /\ other # mount => Len(other.path) = 1
    BY <1>7 DEF Mounts, Mount, Mounted
  <2>. HIDE DEF mount
  <2>3. IsLongest(mount, url)
    BY <2>1, <2>2 DEF IsLongest
  <2>. QED
    BY <2>1, <2>3, LongestMount
<1>. QED
  BY <1>1, <1>2, <1>3, <1>4, <1>5, <1>6, <1>7

-----------------------------------------------------------------------------
(* The tables, row by row: what tells the routes apart.                    *)

Under(r, first, second) ==
  Plain(r.path) /\ Len(r.path) > 2 /\ r.path[1] = first /\ r.path[2] = second

\* third and so on are segments of the path, where it has as many.
AuthorityAttributesRow(method, length, third, fourth, fifth, handler) ==
  \/ /\ method = "GET" /\ length = 4 /\ handler = ListAttributeDefinitions
     /\ third = Kind /\ fourth = "attributes"
  \/ /\ method = "GET" /\ length = 5 /\ handler = CredentialAttributesCallback
     /\ third = "credentialType"
  \/ /\ method = "POST" /\ length = 5 /\ handler = ValidateAttributes
     /\ third = Kind /\ fourth = "attributes" /\ fifth = "validate"

AuthorityManagementRow(method, length, third, fourth, fifth, handler) ==
  /\ third = "authorities"
  /\ \/ method = "POST" /\ length = 3 /\ handler = CreateAuthorityInstance
     \/ method = "GET" /\ length = 3 /\ handler = ListAuthorityInstances
     \/ /\ fourth = Uuid
        /\ \/ method = "GET" /\ length = 4 /\ handler = GetAuthorityInstance
           \/ method = "DELETE" /\ length = 4 /\ handler = RemoveAuthorityInstance
           \/ method = "POST" /\ length = 4 /\ handler = UpdateAuthorityInstance
           \/ /\ method = "POST" /\ length = 5 /\ handler = GetCaCertificates
              /\ fifth = "caCertificates"
           \/ method = "GET" /\ length = 5 /\ handler = GetConnection
           \/ method = "POST" /\ length = 5 /\ handler = GetCrl /\ fifth = "crl"
           \/ method = "GET" /\ length = 6 /\ handler = ListRAProfileAttributes
           \/ method = "POST" /\ length = 7 /\ handler = ValidateRAProfileAttributes

CertificateRow(method, length, sixth, handler) ==
  \/ /\ method = "POST" /\ length = 6
     /\ \/ sixth = "identify" /\ handler = IdentifyCertificate
        \/ sixth = "issue" /\ handler = IssueCertificate
        \/ sixth = "renew" /\ handler = RenewCertificate
        \/ sixth = "revoke" /\ handler = RevokeCertificate
  \/ /\ method = "GET" /\ length = 7
     /\ \/ sixth = "issue" /\ handler = ListIssueCertificateAttributes
        \/ sixth = "revoke" /\ handler = ListRevokeCertificateAttributes
  \/ /\ method = "POST" /\ length = 8
     /\ \/ sixth = "issue" /\ handler = ValidateIssueCertificateAttributes
        \/ sixth = "revoke" /\ handler = ValidateRevokeCertificateAttributes

DiscoveryRow(method, length, handler) ==
  \/ method = "GET" /\ length = 4 /\ handler = ListDiscoveryAttributeDefinitions
  \/ method = "POST" /\ length = 5 /\ handler = ValidateDiscoveryAttributes
  \/ method = "GET" /\ length = 5 /\ handler = PkiEnginesCallback
  \/ method = "DELETE" /\ length = 4 /\ handler = DeleteDiscovery
  \/ method = "POST" /\ length = 3 /\ handler = DiscoverCertificate
  \/ method = "POST" /\ length = 4 /\ handler = GetDiscovery

SecretRow(method, length, third, fourth, name) ==
  \/ /\ third = "secrets"
     /\ \/ method = "POST" /\ length = 3 /\ name = "createSecret"
        \/ method = "PUT" /\ length = 3 /\ name = "updateSecret"
        \/ method = "DELETE" /\ length = 3 /\ name = "deleteSecret"
        \/ method = "POST" /\ length = 4 /\ name = "getSecretValue" /\ fourth = "content"
        \/ method = "POST" /\ length = 4 /\ name = "rotateSecretValue" /\ fourth = "rotate"
        \/ method = "GET" /\ length = 5 /\ name = "getSecretAttributes" /\ fourth = SecretType
        \/ method = "GET" /\ length = 5 /\ name = "getRotateAttributes" /\ fourth = "rotate"
  \/ method = "GET" /\ length = 4 /\ name = "listVaultAttributes"
  \/ /\ method = "POST" /\ length = 4 /\ name = "listVaultProfileAttributes"
     /\ third = "vaultProfiles"
  \/ method = "GET" /\ length = 5 /\ name = "credentialsType" /\ third = "credentialType"
  \/ method = "POST" /\ length = 3 /\ name = "checkVaultConnection" /\ third = "vaults"

HasAuthorityRow(r) ==
  \/ AuthorityAttributesRow(r.method, Len(r.path), r.path[3], r.path[4], r.path[5], r.handler)
  \/ AuthorityManagementRow(r.method, Len(r.path), r.path[3], r.path[4], r.path[5], r.handler)
HasCertificateRow(r) == CertificateRow(r.method, Len(r.path), r.path[6], r.handler)
HasDiscoveryRow(r) == DiscoveryRow(r.method, Len(r.path), r.handler)
HasSecretRow(r) ==
  /\ SecretRow(r.method, Len(r.path), r.path[3], r.path[4], r.handler.name)
  /\ r.handler = [name |-> r.handler.name, body |-> OwnBody]
  /\ r.handler.name = "getRotateAttributes" => r.path = RotateAttributes

Roles == Route("GET", <<"v1", "authorityProvider", "authorities", Uuid, "raProfileRole",
                        Rest, "callback">>, RAProfileCallback)

LEMMA AuthorityAttributesRows ==
  \A r \in AuthorityAttributesRoutes : HasAuthorityRow(r)
  BY DEF AuthorityAttributesRoutes, Route, HasAuthorityRow, AuthorityAttributesRow
LEMMA AuthorityManagementRows ==
  \A r \in AuthorityManagementRoutes : r = Roles \/ HasAuthorityRow(r)
  BY DEF AuthorityManagementRoutes, Roles, Route, HasAuthorityRow, AuthorityManagementRow
LEMMA CertificateRows ==
  \A r \in CertificateManagementRoutes : HasCertificateRow(r)
  BY DEF CertificateManagementRoutes, Route, HasCertificateRow, CertificateRow
LEMMA DiscoveryRows ==
  \A r \in DiscoveryAttributesRoutes \cup DiscoveryRoutes : HasDiscoveryRow(r)
  BY DEF DiscoveryAttributesRoutes, DiscoveryRoutes, Route, HasDiscoveryRow, DiscoveryRow

LEMMA AuthorityAttributesUnder ==
  \A r \in AuthorityAttributesRoutes : Under(r, "v1", "authorityProvider")
<1>1. \A r \in AuthorityAttributesRoutes : IsPath(r.path)
  BY DEF AuthorityAttributesRoutes, Route, IsPath
<1>2. \A r \in AuthorityAttributesRoutes : Len(r.path) > 2
  BY DEF AuthorityAttributesRoutes, Route
<1>3. \A r \in AuthorityAttributesRoutes : r.path[1] = "v1"
  BY DEF AuthorityAttributesRoutes, Route
<1>4. \A r \in AuthorityAttributesRoutes : r.path[2] = "authorityProvider"
  BY DEF AuthorityAttributesRoutes, Route
<1>5. \A r \in AuthorityAttributesRoutes :
        \A i \in DOMAIN r.path : r.path[i] \notin {Rest, EngineName}
  BY DEF AuthorityAttributesRoutes, Route, Rest, EngineName, Uuid, Kind,
         CredentialType, CredentialsType, SecretType
<1>. QED
  BY <1>1, <1>2, <1>3, <1>4, <1>5 DEF Under, Plain

LEMMA AuthorityManagementUnder ==
  \A r \in AuthorityManagementRoutes \ {Roles} : Under(r, "v1", "authorityProvider")
<1>1. \A r \in AuthorityManagementRoutes \ {Roles} : IsPath(r.path)
  BY DEF AuthorityManagementRoutes, Roles, Route, IsPath
<1>2. \A r \in AuthorityManagementRoutes \ {Roles} : Len(r.path) > 2
  BY DEF AuthorityManagementRoutes, Roles, Route
<1>3. \A r \in AuthorityManagementRoutes \ {Roles} : r.path[1] = "v1"
  BY DEF AuthorityManagementRoutes, Roles, Route
<1>4. \A r \in AuthorityManagementRoutes \ {Roles} : r.path[2] = "authorityProvider"
  BY DEF AuthorityManagementRoutes, Roles, Route
<1>5. \A r \in AuthorityManagementRoutes \ {Roles} :
        \A i \in DOMAIN r.path : r.path[i] \notin {Rest, EngineName}
  BY DEF AuthorityManagementRoutes, Roles, Route, Rest, EngineName, Uuid, Kind,
         CredentialType, CredentialsType, SecretType
<1>. QED
  BY <1>1, <1>2, <1>3, <1>4, <1>5 DEF Under, Plain

LEMMA CertificateUnder ==
  \A r \in CertificateManagementRoutes : Under(r, "v2", "authorityProvider")
<1>1. \A r \in CertificateManagementRoutes : IsPath(r.path)
  BY DEF CertificateManagementRoutes, Route, IsPath
<1>2. \A r \in CertificateManagementRoutes : Len(r.path) > 2
  BY DEF CertificateManagementRoutes, Route
<1>3. \A r \in CertificateManagementRoutes : r.path[1] = "v2"
  BY DEF CertificateManagementRoutes, Route
<1>4. \A r \in CertificateManagementRoutes : r.path[2] = "authorityProvider"
  BY DEF CertificateManagementRoutes, Route
<1>5. \A r \in CertificateManagementRoutes :
        \A i \in DOMAIN r.path : r.path[i] \notin {Rest, EngineName}
  BY DEF CertificateManagementRoutes, Route, Rest, EngineName, Uuid, Kind,
         CredentialType, CredentialsType, SecretType
<1>. QED
  BY <1>1, <1>2, <1>3, <1>4, <1>5 DEF Under, Plain

LEMMA DiscoveryAttributesUnder ==
  \A r \in DiscoveryAttributesRoutes : Under(r, "v1", "discoveryProvider")
<1>1. \A r \in DiscoveryAttributesRoutes : IsPath(r.path)
  BY DEF DiscoveryAttributesRoutes, Route, IsPath
<1>2. \A r \in DiscoveryAttributesRoutes : Len(r.path) > 2
  BY DEF DiscoveryAttributesRoutes, Route
<1>3. \A r \in DiscoveryAttributesRoutes : r.path[1] = "v1"
  BY DEF DiscoveryAttributesRoutes, Route
<1>4. \A r \in DiscoveryAttributesRoutes : r.path[2] = "discoveryProvider"
  BY DEF DiscoveryAttributesRoutes, Route
<1>5. \A r \in DiscoveryAttributesRoutes :
        \A i \in DOMAIN r.path : r.path[i] \notin {Rest, EngineName}
  BY DEF DiscoveryAttributesRoutes, Route, Rest, EngineName, Uuid, Kind,
         CredentialType, CredentialsType, SecretType
<1>. QED
  BY <1>1, <1>2, <1>3, <1>4, <1>5 DEF Under, Plain

LEMMA DiscoveryUnder ==
  \A r \in DiscoveryRoutes : Under(r, "v1", "discoveryProvider")
<1>1. \A r \in DiscoveryRoutes : IsPath(r.path)
  BY DEF DiscoveryRoutes, Route, IsPath
<1>2. \A r \in DiscoveryRoutes : Len(r.path) > 2
  BY DEF DiscoveryRoutes, Route
<1>3. \A r \in DiscoveryRoutes : r.path[1] = "v1"
  BY DEF DiscoveryRoutes, Route
<1>4. \A r \in DiscoveryRoutes : r.path[2] = "discoveryProvider"
  BY DEF DiscoveryRoutes, Route
<1>5. \A r \in DiscoveryRoutes :
        \A i \in DOMAIN r.path : r.path[i] \notin {Rest, EngineName}
  BY DEF DiscoveryRoutes, Route, Rest, EngineName, Uuid, Kind,
         CredentialType, CredentialsType, SecretType
<1>. QED
  BY <1>1, <1>2, <1>3, <1>4, <1>5 DEF Under, Plain

LEMMA SecretRows == \A r \in AllOf(SecretRoutes) : HasSecretRow(r)
<1>1. \A r \in AllOf(SecretRoutes) : \E i \in 1 .. 11 : r \in SecretRoutes[i]
  BY DEF AllOf, SecretRoutes
<1>2. \A r \in SecretRoutes[1] : HasSecretRow(r)
  BY DEF SecretRoutes, SecretRoute, Route, HasSecretRow, SecretRow, Handler
<1>3. \A r \in SecretRoutes[2] : HasSecretRow(r)
  BY DEF SecretRoutes, SecretRoute, Route, HasSecretRow, SecretRow, Handler
<1>4. \A r \in SecretRoutes[3] : HasSecretRow(r)
  BY DEF SecretRoutes, SecretRoute, Route, HasSecretRow, SecretRow, Handler
<1>5. \A r \in SecretRoutes[4] : HasSecretRow(r)
  BY DEF SecretRoutes, SecretRoute, Route, HasSecretRow, SecretRow, Handler
<1>6. \A r \in SecretRoutes[5] : HasSecretRow(r)
  BY DEF SecretRoutes, SecretRoute, Route, HasSecretRow, SecretRow, Handler
<1>7. \A r \in SecretRoutes[6] : HasSecretRow(r)
  BY DEF SecretRoutes, SecretRoute, Route, HasSecretRow, SecretRow, Handler
<1>8. \A r \in SecretRoutes[7] : HasSecretRow(r)
  BY DEF SecretRoutes, SecretRoute, Route, HasSecretRow, SecretRow, Handler
<1>9. \A r \in SecretRoutes[8] : HasSecretRow(r)
  BY DEF SecretRoutes, SecretRoute, Route, HasSecretRow, SecretRow, Handler
<1>10. \A r \in SecretRoutes[9] : HasSecretRow(r)
  BY DEF SecretRoutes, SecretRoute, Route, HasSecretRow, SecretRow, Handler
<1>11. \A r \in SecretRoutes[10] : HasSecretRow(r)
  BY DEF SecretRoutes, SecretRoute, Route, HasSecretRow, SecretRow, Handler
<1>12. \A r \in SecretRoutes[11] : HasSecretRow(r)
  BY DEF SecretRoutes, SecretRoute, Route, HasSecretRow, SecretRow, Handler, RotateAttributes
<1>. QED
  BY <1>1, <1>2, <1>3, <1>4, <1>5, <1>6, <1>7, <1>8, <1>9, <1>10, <1>11, <1>12

LEMMA SecretUnder == \A r \in AllOf(SecretRoutes) : Under(r, "v1", "secretProvider")
<1>1. \A r \in AllOf(SecretRoutes) : \E i \in 1 .. 11 : r \in SecretRoutes[i]
  BY DEF AllOf, SecretRoutes
<1>2. \A r \in SecretRoutes[1] : Under(r, "v1", "secretProvider")
  BY DEF SecretRoutes, SecretRoute, Route, Under, Plain, IsPath, Rest, EngineName,
         CredentialsType, SecretType, RotateAttributes
<1>3. \A r \in SecretRoutes[2] : Under(r, "v1", "secretProvider")
  BY DEF SecretRoutes, SecretRoute, Route, Under, Plain, IsPath, Rest, EngineName,
         CredentialsType, SecretType, RotateAttributes
<1>4. \A r \in SecretRoutes[3] : Under(r, "v1", "secretProvider")
  BY DEF SecretRoutes, SecretRoute, Route, Under, Plain, IsPath, Rest, EngineName,
         CredentialsType, SecretType, RotateAttributes
<1>5. \A r \in SecretRoutes[4] : Under(r, "v1", "secretProvider")
  BY DEF SecretRoutes, SecretRoute, Route, Under, Plain, IsPath, Rest, EngineName,
         CredentialsType, SecretType, RotateAttributes
<1>6. \A r \in SecretRoutes[5] : Under(r, "v1", "secretProvider")
  BY DEF SecretRoutes, SecretRoute, Route, Under, Plain, IsPath, Rest, EngineName,
         CredentialsType, SecretType, RotateAttributes
<1>7. \A r \in SecretRoutes[6] : Under(r, "v1", "secretProvider")
  BY DEF SecretRoutes, SecretRoute, Route, Under, Plain, IsPath, Rest, EngineName,
         CredentialsType, SecretType, RotateAttributes
<1>8. \A r \in SecretRoutes[7] : Under(r, "v1", "secretProvider")
  BY DEF SecretRoutes, SecretRoute, Route, Under, Plain, IsPath, Rest, EngineName,
         CredentialsType, SecretType, RotateAttributes
<1>9. \A r \in SecretRoutes[8] : Under(r, "v1", "secretProvider")
  BY DEF SecretRoutes, SecretRoute, Route, Under, Plain, IsPath, Rest, EngineName,
         CredentialsType, SecretType, RotateAttributes
<1>10. \A r \in SecretRoutes[9] : Under(r, "v1", "secretProvider")
  BY DEF SecretRoutes, SecretRoute, Route, Under, Plain, IsPath, Rest, EngineName,
         CredentialsType, SecretType, RotateAttributes
<1>11. \A r \in SecretRoutes[10] : Under(r, "v1", "secretProvider")
  BY DEF SecretRoutes, SecretRoute, Route, Under, Plain, IsPath, Rest, EngineName,
         CredentialsType, SecretType, RotateAttributes
<1>12. \A r \in SecretRoutes[11] : Under(r, "v1", "secretProvider")
  BY DEF SecretRoutes, SecretRoute, Route, Under, Plain, IsPath, Rest, EngineName,
         CredentialsType, SecretType, RotateAttributes
<1>. QED
  BY <1>1, <1>2, <1>3, <1>4, <1>5, <1>6, <1>7, <1>8, <1>9, <1>10, <1>11, <1>12

-----------------------------------------------------------------------------
(* No two routes of a router take the same request.                        *)

Like(pattern, word) == pattern \in Variables \/ pattern = word

LEMMA Words ==
  \A word \in {"attributes", "validate", "callback", "credentialType", "authorities",
               "caCertificates", "crl", "identify", "issue", "renew", "revoke", "secrets",
               "content", "rotate", "vaults", "vaultProfiles", "v1", "v2"} :
    word \notin Variables
  BY DEF Variables, Uuid, Kind, CredentialType, CredentialsType, SecretType, EngineName

LEMMA CoversLike ==
  ASSUME NEW path, IsPath(path), NEW pattern, Covers(pattern, path)
  PROVE  /\ Len(pattern) = Len(path)
         /\ \A i \in 1 .. Len(path) : Like(pattern[i], path[i])
  BY DEF Covers, IsPath, Like

LEMMA SameAuthorityRow ==
  ASSUME NEW method, NEW length,
         NEW p3, NEW p4, NEW p5, NEW asked,
            AuthorityAttributesRow(method, length, p3, p4, p5, asked)
              \/ AuthorityManagementRow(method, length, p3, p4, p5, asked),
         NEW q3, NEW q4, NEW q5, NEW handler,
            AuthorityAttributesRow(method, length, q3, q4, q5, handler)
              \/ AuthorityManagementRow(method, length, q3, q4, q5, handler),
         Like(q3, p3), length >= 4 => Like(q4, p4), length >= 5 => Like(q5, p5)
  PROVE  handler = asked
  BY Words DEF AuthorityAttributesRow, AuthorityManagementRow, Like, Uuid, Kind

LEMMA ShortRows ==
  ASSUME NEW length, NEW p3, NEW p4, NEW p5, NEW asked,
         AuthorityAttributesRow("GET", length, p3, p4, p5, asked)
           \/ AuthorityManagementRow("GET", length, p3, p4, p5, asked)
  PROVE  length \in 3 .. 6
  BY DEF AuthorityAttributesRow, AuthorityManagementRow

LEMMA SameCertificateRow ==
  ASSUME NEW method, NEW length, NEW p6, NEW asked, CertificateRow(method, length, p6, asked),
         NEW q6, NEW handler, CertificateRow(method, length, q6, handler), Like(q6, p6)
  PROVE  handler = asked
  BY Words DEF CertificateRow, Like

LEMMA CertificateRowLength ==
  ASSUME NEW method, NEW length, NEW p6, NEW asked, CertificateRow(method, length, p6, asked)
  PROVE  length \in 6 .. 8
  BY DEF CertificateRow

LEMMA CertificateLength ==
  \A r \in CertificateManagementRoutes : Len(r.path) \in 6 .. 8
  BY CertificateRows, CertificateRowLength DEF HasCertificateRow

LEMMA SameDiscoveryRow ==
  ASSUME NEW method, NEW length, NEW asked, DiscoveryRow(method, length, asked),
         NEW handler, DiscoveryRow(method, length, handler)
  PROVE  handler = asked
  BY DEF DiscoveryRow

LEMMA SameSecretRow ==
  ASSUME NEW method, NEW length,
         NEW p3, NEW p4, NEW asked, SecretRow(method, length, p3, p4, asked),
         NEW q3, NEW q4, NEW name, SecretRow(method, length, q3, q4, name),
         Like(q3, p3), length >= 4 => Like(q4, p4), asked # "getRotateAttributes"
  PROVE  name = asked
  BY Words DEF SecretRow, Like, SecretType

-----------------------------------------------------------------------------
(* Each router serves what is asked of it by the handler it was asked at.  *)

LEMMA SegmentsForeign ==
  ASSUME NEW value \in Segments
  PROVE  /\ \A r \in AllOf(AuthorityRouter) \cup AllOf(DiscoveryRouter) \cup InfoRoutes
                      \cup HealthRoutes \cup MetricsRoutes \cup V2HealthRoutes
                      \cup AllOf(SecretRoutes) :
              Foreign(value, r.path)
  BY NamesAssumption DEF Advertisable, Foreign

LEMMA PlainServed ==
  ASSUME NEW p, Plain(p.path), NEW value, NEW engine,
         NEW router, RouterOf(URL(p.path, value, engine)) = router, DOMAIN router \subseteq Nat,
         \E q \in AllOf(router) : /\ q.method = p.method /\ Plain(q.path)
                                  /\ Foreign(value, q.path) /\ Covers(q.path, p.path),
         \A q \in AllOf(router) : q.method = p.method =>
           \/ ~Matches(q.path, URL(p.path, value, engine))
           \/ /\ Plain(q.path) /\ Foreign(value, q.path)
              /\ Covers(q.path, p.path) => q.handler = p.handler
  PROVE  Served(p.method, URL(p.path, value, engine), p.handler)
<1>. DEFINE url == URL(p.path, value, engine)
<1>1. \E q \in AllOf(router) : q.method = p.method /\ Matches(q.path, url)
  BY PlainMatch
<1>2. \A q \in AllOf(router) :
        q.method = p.method /\ Matches(q.path, url) => q.handler = p.handler
  BY PlainMatch
<1>. QED
  BY <1>1, <1>2, ServedBy

LEMMA UnderURL ==
  ASSUME NEW p, NEW first, NEW second, Under(p, first, second),
         {first, second} \cap Variables = {},
         NEW value, NEW engine
  PROVE  LET url == URL(p.path, value, engine) IN
         /\ Len(url) \in Nat /\ Len(url) > 2 /\ Len(url) = Len(p.path)
         /\ url[1] = first /\ url[2] = second
<1>1. Plain(p.path) /\ Len(p.path) \in Nat /\ 1 \in DOMAIN p.path /\ 2 \in DOMAIN p.path
  BY DEF Under, Plain, IsPath
<1>. QED
  BY <1>1, PlainURL DEF Under

\* Who is asked below the prefix of a provider is served by its router.
LEMMA RouterAt ==
  ASSUME NEW url, Len(url) \in Nat, Len(url) > 2, NEW first, NEW second, NEW router,
         Mount(<<first, second>>, TRUE, router) \in Providers, url[1] = first, url[2] = second
  PROVE  RouterOf(url) = router
<1>. DEFINE mount == Mount(<<first, second>>, TRUE, router)
<1>1. mount.path[1] = first /\ mount.path[2] = second /\ mount.router = router
  BY DEF Mount
<1>. HIDE DEF mount
<1>. QED
  BY <1>1, ProviderRouter DEF mount

LEMMA ProviderRouters ==
  ASSUME NEW url, Len(url) \in Nat, Len(url) > 2
  PROVE  /\ url[1] = "v1" /\ url[2] = "authorityProvider" => RouterOf(url) = AuthorityRouter
         /\ url[1] = "v2" /\ url[2] = "authorityProvider" =>
              RouterOf(url) = <<CertificateManagementRoutes>>
         /\ url[1] = "v1" /\ url[2] = "discoveryProvider" => RouterOf(url) = DiscoveryRouter
         /\ url[1] = "v1" /\ url[2] = "secretProvider" => RouterOf(url) = SecretRoutes
<1>1. /\ Mount(<<"v1", "authorityProvider">>, TRUE, AuthorityRouter) \in Providers
      /\ Mount(<<"v2", "authorityProvider">>, TRUE, <<CertificateManagementRoutes>>)
           \in Providers
      /\ Mount(<<"v1", "discoveryProvider">>, TRUE, DiscoveryRouter) \in Providers
      /\ Mount(<<"v1", "secretProvider">>, TRUE, SecretRoutes) \in Providers
  BY DEF Providers
<1>. QED
  BY <1>1, RouterAt

LEMMA ProviderURLs ==
  ASSUME NEW p, NEW value, NEW engine
  PROVE  LET router == RouterOf(URL(p.path, value, engine)) IN
         /\ Under(p, "v1", "authorityProvider") => router = AuthorityRouter
         /\ Under(p, "v2", "authorityProvider") => router = <<CertificateManagementRoutes>>
         /\ Under(p, "v1", "discoveryProvider") => router = DiscoveryRouter
         /\ Under(p, "v1", "secretProvider") => router = SecretRoutes
<1>1. {"v1", "v2", "authorityProvider", "discoveryProvider", "secretProvider"}
        \cap Variables = {}
  BY DEF Variables, Uuid, Kind, CredentialType, CredentialsType, SecretType, EngineName
<1>2. \A first, second \in {"v1", "v2", "authorityProvider", "discoveryProvider",
                             "secretProvider"} :
        LET url == URL(p.path, value, engine) IN
        Under(p, first, second) =>
          Len(url) \in Nat /\ Len(url) > 2 /\ url[1] = first /\ url[2] = second
  BY <1>1, UnderURL
<1>. QED
  BY <1>2, ProviderRouters

\* The one route that takes slashes.
LEMMA RolesMatch ==
  ASSUME NEW url, Len(url) \in Nat
  PROVE  Matches(Roles.path, url) <=>
           /\ Len(url) >= 7
           /\ url[1] = "v1" /\ url[2] = "authorityProvider" /\ url[3] = "authorities"
           /\ url[5] = "raProfileRole" /\ url[Len(url)] = "callback"
<1>. DEFINE path == Roles.path
<1>1. /\ Len(path) = 7 /\ DOMAIN path = 1 .. 7 /\ path[6] = Rest
      /\ \A i \in 1 .. 7 : path[i] = Rest => i = 6
  BY DEF Roles, Route, Rest, Uuid
<1>2. path[1] = "v1" /\ path[2] = "authorityProvider" /\ path[3] = "authorities"
      /\ path[4] = Uuid /\ path[5] = "raProfileRole" /\ path[7] = "callback"
  BY DEF Roles, Route
<1>. HIDE DEF path
<1>3. {i \in DOMAIN path : path[i] = Rest} = {6}
  BY <1>1
<1>4. Matches(path, url) <=>
        /\ Len(url) - Len(path) >= 0
        /\ \A i \in DOMAIN path : i # 6 =>
             Fits(url[IF i < 6 THEN i ELSE i + (Len(url) - Len(path))], path[i])
  BY <1>3 DEF Matches
<1>5. Uuid \in Variables /\ \A i \in {1, 2, 3, 5, 7} : path[i] \notin Variables
  BY <1>2 DEF Variables, Uuid, Kind, CredentialType, CredentialsType, SecretType, EngineName
<1>6. Matches(path, url) <=>
        /\ Len(url) >= 7
        /\ url[1] = path[1] /\ url[2] = path[2] /\ url[3] = path[3] /\ url[5] = path[5]
        /\ url[Len(url)] = path[7]
  BY <1>1, <1>2, <1>4, <1>5 DEF Fits
<1>. QED
  BY <1>2, <1>6 DEF path

LEMMA AuthorityServed ==
  ASSUME NEW p, Under(p, "v1", "authorityProvider"), HasAuthorityRow(p),
         \E q \in AllOf(AuthorityRouter) :
           q.method = p.method /\ Plain(q.path) /\ Covers(q.path, p.path),
         NEW value \in Segments, NEW engine
  PROVE  Served(p.method, URL(p.path, value, engine), p.handler)
<1>. DEFINE url == URL(p.path, value, engine)
<1>1. RouterOf(url) = AuthorityRouter
  BY ProviderURLs
<1>2. Plain(p.path) /\ IsPath(p.path) /\ Len(url) = Len(p.path) /\ Len(p.path) \in Nat
  BY PlainURL DEF Under, Plain, IsPath
<1>3. DOMAIN AuthorityRouter \subseteq Nat
  BY DEF AuthorityRouter
<1>4. \A q \in AllOf(AuthorityRouter) : Foreign(value, q.path)
  BY SegmentsForeign
<1>5. ASSUME NEW q \in AllOf(AuthorityRouter), q.method = p.method,
             Matches(q.path, url)
      PROVE  Plain(q.path) /\ (Covers(q.path, p.path) => q.handler = p.handler)
  <2>1. CASE q = Roles
    <3>1. Len(p.path) >= 7 /\ p.method = "GET"
      BY <1>2, <1>5, <2>1, RolesMatch DEF Roles, Route
    <3>2. Len(p.path) \in 3 .. 6
      BY <3>1, ShortRows DEF HasAuthorityRow
    <3>3. \A n \in 3 .. 6 : ~(n >= 7)
      OBVIOUS
    <3>. QED
      BY <3>1, <3>2, <3>3, Zenon
  <2>2. CASE q \in CertificateManagementRoutes
    <3>1. Plain(q.path) /\ q.path[1] = "v2" /\ Len(q.path) > 2
      BY <2>2, CertificateUnder DEF Under
    <3>2. ASSUME Covers(q.path, p.path)
          PROVE  FALSE
      <4>1. Like(q.path[1], p.path[1])
        BY <1>2, <3>2, CoversLike DEF Under
      <4>. QED
        BY <3>1, <4>1, Words DEF Like, Under
    <3>. QED
      BY <3>1, <3>2
  <2>3. CASE q \in (AuthorityAttributesRoutes \cup AuthorityManagementRoutes) \ {Roles}
    <3>1. Plain(q.path) /\ HasAuthorityRow(q)
      BY <2>3, AuthorityAttributesUnder, AuthorityManagementUnder, AuthorityAttributesRows,
         AuthorityManagementRows DEF Under
    <3>2. ASSUME Covers(q.path, p.path)
          PROVE  q.handler = p.handler
      <4>1. Len(q.path) = Len(p.path) /\ \A i \in 1 .. Len(p.path) : Like(q.path[i], p.path[i])
        BY <1>2, <3>2, CoversLike
      <4>2. /\ Like(q.path[3], p.path[3])
            /\ Len(p.path) >= 4 => Like(q.path[4], p.path[4])
            /\ Len(p.path) >= 5 => Like(q.path[5], p.path[5])
        BY <1>2, <4>1 DEF Under
      <4>. QED
        BY <1>5, <3>1, <4>1, <4>2, SameAuthorityRow DEF HasAuthorityRow
    <3>. QED
      BY <3>1, <3>2
  <2>. QED
    BY <2>1, <2>2, <2>3 DEF AllOf, AuthorityRouter
<1>. QED
  BY <1>1, <1>2, <1>3, <1>4, <1>5, PlainServed

\* The wide path itself, as the catalogue has it and as it is registered.
LEMMA RolesServed ==
  ASSUME NEW path, path \in {Roles.path, RolesPath},
         NEW value \in Segments, NEW engine \in EngineNames
  PROVE  Served("GET", URL(path, value, engine), RAProfileCallback)
<1>. DEFINE url == URL(path, value, engine)
            extra == Len(engine) - 1
            Filled(i) == IF path[i] \in Variables THEN value ELSE path[i]
<1>1. Len(engine) \in Nat /\ Len(engine) >= 1
  BY NamesAssumption
<1>2. /\ Len(path) = 7 /\ DOMAIN path = 1 .. 7
      /\ path[1] = "v1" /\ path[2] = "authorityProvider" /\ path[3] = "authorities"
      /\ path[4] = "_uuid" /\ path[5] = "raProfileRole" /\ path[7] = "callback"
      /\ path[6] \in {Rest, EngineName}
  BY DEF Roles, Route, RolesPath, Rest, Uuid, EngineName
<1>3. {i \in DOMAIN path : path[i] \in {Rest, EngineName}} = {6}
  BY <1>2 DEF Rest, EngineName
<1>4. url = [i \in 1 .. 7 + extra |->
               IF i < 6 THEN Filled(i)
               ELSE IF i <= 6 + extra THEN engine[i - 6 + 1] ELSE Filled(i - extra)]
  BY <1>2, <1>3 DEF URL
<1>5. extra \in Nat
  BY <1>1
<1>6. \A i \in {1, 2, 3, 5, 7} : Filled(i) = path[i]
  BY <1>2 DEF Variables, Uuid, Kind, CredentialType, CredentialsType, SecretType, EngineName
<1>. HIDE DEF url, extra, Filled
<1>7. Len(url) = 7 + extra
  BY <1>4, <1>5
<1>8. /\ url[1] = "v1" /\ url[2] = "authorityProvider" /\ url[3] = "authorities"
      /\ url[5] = "raProfileRole"
  BY <1>2, <1>4, <1>5, <1>6
<1>9. url[7 + extra] = "callback"
  BY <1>2, <1>4, <1>5, <1>6
<1>10. Roles \in AllOf(AuthorityRouter) /\ Roles.method = "GET"
         /\ Roles.handler = RAProfileCallback
  BY DEF AllOf, AuthorityRouter, AuthorityManagementRoutes, Roles, Route
<1>11. Matches(Roles.path, url)
  BY <1>5, <1>7, <1>8, <1>9, RolesMatch
<1>12. RouterOf(url) = AuthorityRouter
  BY <1>5, <1>7, <1>8, ProviderRouters
<1>13. ASSUME NEW q \in AllOf(AuthorityRouter), q.method = "GET", q # Roles
       PROVE  ~Matches(q.path, url)
  <2>1. CASE q \in CertificateManagementRoutes
    <3>1. Plain(q.path) /\ q.path[1] = "v2" /\ Len(q.path) > 2
      BY <2>1, CertificateUnder DEF Under
    <3>2. ~Fits(url[1], q.path[1]) /\ 1 \in DOMAIN q.path
      BY <1>8, <3>1, Words DEF Fits, Plain, IsPath
    <3>. QED
      BY <3>1, <3>2 DEF Matches, Plain
  <2>2. CASE q \in (AuthorityAttributesRoutes \cup AuthorityManagementRoutes) \ {Roles}
    <3>1. Plain(q.path) /\ HasAuthorityRow(q)
      BY <2>2, AuthorityAttributesUnder, AuthorityManagementUnder, AuthorityAttributesRows,
         AuthorityManagementRows DEF Under
    <3>2. Len(q.path) \in 3 .. 6
      BY <1>13, <3>1, ShortRows DEF HasAuthorityRow
    <3>3. \A m \in Nat, n \in 3 .. 6 : (7 + m) - n # 0
      OBVIOUS
    <3>4. Len(url) - Len(q.path) # 0
      BY <1>5, <1>7, <3>2, <3>3, Zenon
    <3>. QED
      BY <3>1, <3>4 DEF Matches, Plain
  <2>. QED
    BY <1>13, <2>1, <2>2 DEF AllOf, AuthorityRouter
<1>14. DOMAIN AuthorityRouter \subseteq Nat
  BY DEF AuthorityRouter
<1>. QED
  BY <1>10, <1>11, <1>12, <1>13, <1>14, ServedBy DEF url

LEMMA CertificateServed ==
  ASSUME NEW p \in CertificateManagementRoutes, NEW value \in Segments, NEW engine
  PROVE  Served(p.method, URL(p.path, value, engine), p.handler)
<1>. DEFINE router == <<CertificateManagementRoutes>>
<1>1. AllOf(router) = CertificateManagementRoutes /\ DOMAIN router \subseteq Nat
  BY DEF AllOf
<1>2. RouterOf(URL(p.path, value, engine)) = router
  BY ProviderURLs, CertificateUnder
<1>. HIDE DEF router
<1>3. \A q \in CertificateManagementRoutes :
        /\ Plain(q.path) /\ IsPath(q.path) /\ HasCertificateRow(q) /\ Foreign(value, q.path)
        /\ Len(q.path) \in 6 .. 8
  BY CertificateUnder, CertificateRows, CertificateLength, SegmentsForeign
     DEF Under, Plain, AllOf, AuthorityRouter
<1>4. ASSUME NEW q \in CertificateManagementRoutes, q.method = p.method, Covers(q.path, p.path)
      PROVE  q.handler = p.handler
  <2>1. Len(q.path) = Len(p.path) /\ \A i \in 1 .. Len(p.path) : Like(q.path[i], p.path[i])
    BY <1>3, <1>4, CoversLike
  <2>2. Like(q.path[6], p.path[6])
    BY <1>3, <2>1
  <2>. QED
    BY <1>3, <1>4, <2>1, <2>2, SameCertificateRow DEF HasCertificateRow
<1>. QED
  BY <1>1, <1>2, <1>3, <1>4, CoversItself, PlainServed

LEMMA DiscoveryServed ==
  ASSUME NEW p \in AllOf(DiscoveryRouter), NEW value \in Segments, NEW engine
  PROVE  Served(p.method, URL(p.path, value, engine), p.handler)
<1>1. AllOf(DiscoveryRouter) = DiscoveryAttributesRoutes \cup DiscoveryRoutes
      /\ DOMAIN DiscoveryRouter \subseteq Nat
  BY DEF AllOf, DiscoveryRouter
<1>2. \A q \in AllOf(DiscoveryRouter) :
        /\ Under(q, "v1", "discoveryProvider")
        /\ Plain(q.path) /\ IsPath(q.path) /\ HasDiscoveryRow(q) /\ Foreign(value, q.path)
  BY <1>1, DiscoveryAttributesUnder, DiscoveryUnder, DiscoveryRows, SegmentsForeign
     DEF Under, Plain
<1>3. RouterOf(URL(p.path, value, engine)) = DiscoveryRouter
  BY <1>2, ProviderURLs
<1>4. ASSUME NEW q \in AllOf(DiscoveryRouter), q.method = p.method, Covers(q.path, p.path)
      PROVE  q.handler = p.handler
  <2>1. Len(q.path) = Len(p.path)
    BY <1>4 DEF Covers
  <2>. QED
    BY <1>2, <1>4, <2>1, SameDiscoveryRow DEF HasDiscoveryRow
<1>. QED
  BY <1>1, <1>2, <1>3, <1>4, CoversItself, PlainServed

LEMMA SecretServed ==
  ASSUME NEW p \in AllOf(SecretRoutes), p.path # RotateAttributes,
         NEW value \in Segments, NEW engine
  PROVE  Served(p.method, URL(p.path, value, engine), p.handler)
<1>1. DOMAIN SecretRoutes \subseteq Nat
  BY DEF SecretRoutes
<1>2. \A q \in AllOf(SecretRoutes) :
        /\ Under(q, "v1", "secretProvider")
        /\ Plain(q.path) /\ IsPath(q.path) /\ HasSecretRow(q) /\ Foreign(value, q.path)
  BY SecretUnder, SecretRows, SegmentsForeign DEF Under, Plain
<1>3. RouterOf(URL(p.path, value, engine)) = SecretRoutes
  BY <1>2, ProviderURLs
<1>4. ASSUME NEW q \in AllOf(SecretRoutes), q.method = p.method, Covers(q.path, p.path)
      PROVE  q.handler = p.handler
  <2>1. Len(q.path) = Len(p.path) /\ \A i \in 1 .. Len(p.path) : Like(q.path[i], p.path[i])
    BY <1>2, <1>4, CoversLike
  <2>2. Like(q.path[3], p.path[3]) /\ (Len(p.path) >= 4 => Like(q.path[4], p.path[4]))
    BY <1>2, <2>1 DEF Under, IsPath
  <2>3. p.handler.name # "getRotateAttributes"
    BY <1>2 DEF HasSecretRow
  <2>4. /\ SecretRow(p.method, Len(p.path), p.path[3], p.path[4], p.handler.name)
        /\ SecretRow(p.method, Len(p.path), q.path[3], q.path[4], q.handler.name)
    BY <1>2, <1>4, <2>1 DEF HasSecretRow
  <2>5. q.handler.name = p.handler.name
    BY <2>2, <2>3, <2>4, SameSecretRow
  <2>. QED
    BY <1>2, <2>5 DEF HasSecretRow
<1>. QED
  BY <1>1, <1>2, <1>3, <1>4, CoversItself, PlainServed

\* The endpoints outside of the providers.
LEMMA ShortServed ==
  ASSUME NEW p \in UNION {InfoRoutes, HealthRoutes, MetricsRoutes, V2HealthRoutes},
         NEW value \in Segments, NEW engine
  PROVE  Served(p.method, URL(p.path, value, engine), p.handler)
<1>. DEFINE url == URL(p.path, value, engine)
<1>1. /\ Plain(p.path) /\ 1 \in DOMAIN p.path /\ Len(p.path) \in {1, 2, 3}
      /\ \A i \in DOMAIN p.path : p.path[i] \notin Variables
  BY DEF InfoRoutes, HealthRoutes, MetricsRoutes, V2HealthRoutes, Route, Plain, IsPath, Rest,
         EngineName,
         Variables, Uuid, Kind, CredentialType, CredentialsType, SecretType
<1>2. Len(url) = Len(p.path) /\ \A i \in DOMAIN p.path : url[i] = p.path[i]
  BY <1>1, PlainURL
<1>. HIDE DEF url
<1>3. CASE p \in InfoRoutes
  <2>1. RouterOf(url) = <<InfoRoutes>>
    BY <1>2, <1>3, ShortRouters DEF InfoRoutes, Route
  <2>2. AllOf(<<InfoRoutes>>) = {p} /\ DOMAIN <<InfoRoutes>> \subseteq Nat
    BY <1>3 DEF AllOf, InfoRoutes
  <2>. QED
    BY <1>1, <1>3, <2>1, <2>2, SegmentsForeign, CoversItself, PlainServed DEF url
<1>4. CASE p \in HealthRoutes
  <2>1. RouterOf(url) = <<HealthRoutes>>
    BY <1>2, <1>4, ShortRouters DEF HealthRoutes, Route
  <2>2. AllOf(<<HealthRoutes>>) = {p} /\ DOMAIN <<HealthRoutes>> \subseteq Nat
    BY <1>4 DEF AllOf, HealthRoutes
  <2>. QED
    BY <1>1, <1>4, <2>1, <2>2, SegmentsForeign, CoversItself, PlainServed DEF url
<1>5. CASE p \in V2HealthRoutes
  <2>1. RouterOf(url) = <<V2HealthRoutes>>
    BY <1>2, <1>5, ShortRouters DEF V2HealthRoutes, Route
  <2>2. AllOf(<<V2HealthRoutes>>) = V2HealthRoutes /\ DOMAIN <<V2HealthRoutes>> \subseteq Nat
    BY DEF AllOf
  <2>3. \A q \in V2HealthRoutes : q.handler = p.handler /\ Plain(q.path)
    BY <1>5 DEF V2HealthRoutes, Route, Plain, IsPath, Rest, EngineName
  <2>. QED
    BY <1>1, <1>5, <2>1, <2>2, <2>3, SegmentsForeign, CoversItself, PlainServed DEF url
<1>6. CASE p \in MetricsRoutes
  <2>1. RouterOf(url) = <<MetricsRoutes>>
    BY <1>2, <1>6, ShortRouters DEF MetricsRoutes, Route
  <2>2. AllOf(<<MetricsRoutes>>) = {p} /\ DOMAIN <<MetricsRoutes>> \subseteq Nat
    BY <1>6 DEF AllOf, MetricsRoutes
  <2>. QED
    BY <1>1, <1>6, <2>1, <2>2, SegmentsForeign, CoversItself, PlainServed DEF url
<1>. QED
  BY <1>3, <1>4, <1>5, <1>6 DEF url

LEMMA InfoServed ==
  ASSUME NEW value, NEW engine
  PROVE  Served("GET", URL(<<"v2", "info">>, value, engine), v2Info)
<1>. DEFINE path == <<"v2", "info">>
            url == URL(path, value, engine)
            wide == <<"v2", Rest>>
<1>1. /\ Plain(path) /\ DOMAIN path = {1, 2} /\ Len(path) = 2
      /\ path[1] = "v2" /\ path[2] = "info"
      /\ path[1] \notin Variables /\ path[2] \notin Variables
  BY DEF Plain, IsPath, Rest, EngineName, Variables, Uuid, Kind, CredentialType,
         CredentialsType, SecretType
<1>2. /\ DOMAIN wide = {1, 2} /\ Len(wide) = 2 /\ wide[1] = "v2" /\ wide[2] = Rest
      /\ {i \in DOMAIN wide : wide[i] = Rest} = {2}
  BY DEF Rest
<1>. HIDE DEF path, wide
<1>3. Len(url) = 2 /\ url[1] = "v2" /\ url[2] = "info"
  BY <1>1, PlainURL
<1>. HIDE DEF url
<1>4. RouterOf(url) = <<V2InfoRoutes>>
  BY <1>3, ShortRouters
<1>5. /\ AllOf(<<V2InfoRoutes>>) = {Route("GET", wide, v2Info)}
      /\ DOMAIN <<V2InfoRoutes>> \subseteq Nat
  BY DEF AllOf, V2InfoRoutes, wide
<1>6. Matches(wide, url)
  BY <1>2, <1>3 DEF Matches, Fits
<1>7. \E r \in AllOf(<<V2InfoRoutes>>) : r.method = "GET" /\ Matches(r.path, url)
  <2>. DEFINE r == Route("GET", wide, v2Info)
  <2>1. r.method = "GET" /\ r.path = wide
    BY DEF Route
  <2>. HIDE DEF r
  <2>. QED
    BY <1>5, <1>6, <2>1 DEF r
<1>8. \A r \in AllOf(<<V2InfoRoutes>>) : r.handler = v2Info
  BY <1>5 DEF Route
<1>9. Served("GET", url, v2Info)
  BY <1>4, <1>5, <1>7, <1>8, ServedBy
<1>. QED
  BY <1>9 DEF url, path

\* Nothing takes what nobody serves.
LEMMA UnservedFails ==
  ASSUME NEW p \in Unserved, NEW value \in Segments, NEW engine
  PROVE  Candidates(p.method, URL(p.path, value, engine)) = {}
<1>. DEFINE url == URL(p.path, value, engine)
<1>1. CASE p = Route("GET", <<"v1", "unknown">>, Nobody)
  <2>1. /\ Plain(p.path) /\ DOMAIN p.path = {1, 2} /\ Len(p.path) = 2
        /\ p.path[1] = "v1" /\ p.path[2] = "unknown" /\ "v1" \notin Variables
        /\ "unknown" \notin Variables /\ "health" \notin Variables
    BY <1>1 DEF Route, Plain, IsPath, Rest, EngineName, Variables, Uuid, Kind, CredentialType,
         CredentialsType, SecretType
  <2>2. Len(url) = 2 /\ url[1] = "v1" /\ url[2] = "unknown"
    BY <2>1, PlainURL
  <2>3. RouterOf(url) = <<HealthRoutes>>
    BY <2>2, ShortRouters
  <2>4. AllOf(<<HealthRoutes>>) = HealthRoutes
    BY DEF AllOf
  <2>5. \A r \in HealthRoutes : Plain(r.path) /\ 2 \in DOMAIN r.path /\ r.path[2] = "health"
    BY DEF HealthRoutes, Route, Plain, IsPath, Rest, EngineName
  <2>6. \A r \in HealthRoutes : ~Covers(r.path, p.path)
    BY <2>1, <2>5 DEF Covers
  <2>7. \A r \in HealthRoutes : ~Matches(r.path, url)
    BY <2>1, <2>4, <2>5, <2>6, SegmentsForeign, PlainMatch
  <2>. QED
    BY <2>3, <2>4, <2>7, NoneServes
<1>2. CASE p = Route("PATCH", <<"v1", "authorityProvider", "authorities">>, Nobody)
  <2>1. p.method = "PATCH" /\ Under(p, "v1", "authorityProvider")
    BY <1>2 DEF Route, Under, Plain, IsPath, Rest, EngineName
  <2>2. RouterOf(url) = AuthorityRouter
    BY <2>1, ProviderURLs
  <2>3. \A r \in AllOf(AuthorityRouter) : r.method \in {"GET", "POST", "DELETE"}
    BY DEF AllOf, AuthorityRouter, AuthorityAttributesRoutes, AuthorityManagementRoutes,
           CertificateManagementRoutes, Route
  <2>. QED
    BY <2>1, <2>2, <2>3, NoneServes
<1>. QED
  BY <1>1, <1>2 DEF Unserved

LEMMA CallbackPaths ==
  /\ AttributeList["ra_profile_role"].callback = RolesPath
  /\ AttributeList["credential_group"].callback = CredentialPath
  /\ AttributeList["pki_engines_to_discover"].callback = PkiEnginesPath
<1>1. /\ "ra_profile_role" \in DOMAIN RAProfilesAttributes
      /\ "ra_profile_role" \notin DOMAIN DiscoveryAttributes
      /\ "ra_profile_role" \notin DOMAIN AuthorityManagementAttributes
      /\ "credential_group" \in DOMAIN AuthorityManagementAttributes
      /\ "pki_engines_to_discover" \in DOMAIN DiscoveryAttributes
      /\ "pki_engines_to_discover" \notin DOMAIN AuthorityManagementAttributes
  BY DEF RAProfilesAttributes, DiscoveryAttributes, AuthorityManagementAttributes
<1>2. /\ RAProfilesAttributes["ra_profile_role"].callback = RolesPath
      /\ AuthorityManagementAttributes["credential_group"].callback = CredentialPath
      /\ DiscoveryAttributes["pki_engines_to_discover"].callback = PkiEnginesPath
  BY DEF RAProfilesAttributes, DiscoveryAttributes, AuthorityManagementAttributes,
         WithCallback, DataAttribute, Definition
<1>. QED
  BY <1>1, <1>2 DEF AttributeList, Over

LEMMA AskedServed ==
  ASSUME NEW p \in Asked, p.path # RotateAttributes,
         NEW value \in Segments, NEW engine \in EngineNames
  PROVE  Served(p.method, URL(p.path, value, engine), p.handler)
<1>1. CASE p \in AuthorityAttributesRoutes \cup AuthorityManagementRoutes /\ p # Roles
  <2>1. Under(p, "v1", "authorityProvider") /\ HasAuthorityRow(p)
    BY <1>1, AuthorityAttributesUnder, AuthorityManagementUnder, AuthorityAttributesRows,
       AuthorityManagementRows
  <2>2. p \in AllOf(AuthorityRouter) /\ Plain(p.path)
    BY <1>1, <2>1 DEF AllOf, AuthorityRouter, Under
  <2>. QED
    BY <2>1, <2>2, CoversItself, AuthorityServed
<1>2. CASE p \in CertificateManagementRoutes
  BY <1>2, CertificateServed
<1>3. CASE p \in AllOf(DiscoveryRouter)
  BY <1>3, DiscoveryServed
<1>4. CASE p \in AllOf(SecretRoutes)
  BY <1>4, SecretServed
<1>5. CASE p \in UNION {InfoRoutes, HealthRoutes, MetricsRoutes, V2HealthRoutes}
  BY <1>5, ShortServed
<1>6. CASE p = Route("GET", <<"v2", "info">>, v2Info)
  BY <1>6, InfoServed DEF Route
<1>7. CASE p = Roles \/ p = Route("GET", RolesPath, RAProfileCallback)
  <2>1. p.method = "GET" /\ p.path \in {Roles.path, RolesPath} /\ p.handler = RAProfileCallback
    BY <1>7 DEF Roles, Route
  <2>. QED
    BY <2>1, RolesServed
<1>8. CASE p = Route("GET", CredentialPath, CredentialAttributesCallback)
  <2>. DEFINE q == Route("GET", <<"v1", "authorityProvider", "credentialType", CredentialType,
                                  "callback">>, CredentialAttributesCallback)
  <2>1. q \in AuthorityAttributesRoutes /\ q \in AllOf(AuthorityRouter) /\ q.method = "GET"
    BY DEF AllOf, AuthorityRouter, AuthorityAttributesRoutes, Route
  <2>2. Plain(q.path)
    BY <2>1, AuthorityAttributesUnder DEF Under
  <2>3. p.method = "GET" /\ Under(p, "v1", "authorityProvider")
    BY <1>8 DEF Route, CredentialPath, Under, Plain, IsPath, Rest, EngineName
  <2>4. HasAuthorityRow(p)
    BY <1>8 DEF Route, CredentialPath, HasAuthorityRow, AuthorityAttributesRow
  <2>5. Covers(q.path, p.path)
    BY <1>8 DEF Route, CredentialPath, Covers, Variables, CredentialType
  <2>. QED
    BY <2>1, <2>2, <2>3, <2>4, <2>5, AuthorityServed
<1>9. CASE p = Route("GET", PkiEnginesPath, PkiEnginesCallback)
  <2>1. p \in AllOf(DiscoveryRouter)
    BY <1>9 DEF PkiEnginesPath, Uuid, AllOf, DiscoveryRouter, DiscoveryAttributesRoutes
  <2>. QED
    BY <2>1, DiscoveryServed
<1>10. Callbacks = {Route("GET", RolesPath, RAProfileCallback),
                    Route("GET", CredentialPath, CredentialAttributesCallback),
                    Route("GET", PkiEnginesPath, PkiEnginesCallback)}
  BY CallbackPaths DEF Callbacks
<1>. QED
  BY <1>1, <1>2, <1>3, <1>4, <1>5, <1>6, <1>7, <1>8, <1>9, <1>10
     DEF Asked, AllOf, AuthorityRouter

LEMMA RotateURL ==
  ASSUME NEW value, NEW engine
  PROVE  URL(RotateAttributes, value, engine) = RotateAttributes
<1>1. \A i \in DOMAIN RotateAttributes :
        RotateAttributes[i] \notin Variables \cup {Rest, EngineName}
  BY DEF RotateAttributes, Rest, Variables, Uuid, Kind, CredentialType, CredentialsType,
         SecretType, EngineName
<1>2. RotateAttributes = [i \in DOMAIN RotateAttributes |-> RotateAttributes[i]]
  BY DEF RotateAttributes
<1>. QED
  BY <1>1, <1>2 DEF URL

-----------------------------------------------------------------------------
(* An exchange.                                                            *)

\* A request is for a route, with a body that fits it; it is served by a candidate,
\* and a service was called for a body that its controller let through.
ExchangeInv ==
  exchange # Idle =>
    /\ DOMAIN exchange = {"asked", "url", "body", "handler", "outcome"}
    /\ exchange.asked \in Asked \cup Unserved
    /\ exchange.body \in Bodies(exchange.asked.handler.body)
    /\ \E value \in Segments : \E engine \in EngineNames :
         exchange.url = URL(exchange.asked.path, value, engine)
    /\ \/ exchange.outcome = "sent" /\ exchange.handler = Idle
       \/ /\ exchange.outcome = "notFound" /\ exchange.handler = Idle
          /\ Candidates(exchange.asked.method, exchange.url) = {}
       \/ \E route \in Candidates(exchange.asked.method, exchange.url) :
            /\ exchange.handler = route.handler
            /\ exchange.outcome = Outcome(route.handler.body, exchange.body)

LEMMA OutcomeValues ==
  \A takes, body :
    Outcome(takes, body) \in {"badRequest", "unprocessable", "panic", "service"}
  BY DEF Outcome

LEMMA ExchangeInductive == Spec => []ExchangeInv
<1>1. Init => ExchangeInv
  BY DEF Init, ExchangeInv
<1>2. ExchangeInv /\ [Next]_vars => ExchangeInv'
  <2>. SUFFICES ASSUME ExchangeInv, [Next]_vars
                PROVE  ExchangeInv'
    OBVIOUS
  <2>1. CASE Send
    <3>1. PICK route \in Known, value \in Segments, engine \in EngineNames :
            \E body \in Bodies(route.handler.body) :
              exchange' = [asked |-> route, url |-> URL(route.path, value, engine),
                           body |-> body, handler |-> Idle, outcome |-> "sent"]
      BY <2>1 DEF Send
    <3>2. PICK body \in Bodies(route.handler.body) :
            exchange' = [asked |-> route, url |-> URL(route.path, value, engine),
                         body |-> body, handler |-> Idle, outcome |-> "sent"]
      BY <3>1
    <3>3. /\ DOMAIN exchange' = {"asked", "url", "body", "handler", "outcome"}
          /\ exchange'.asked = route /\ exchange'.url = URL(route.path, value, engine)
          /\ exchange'.body = body /\ exchange'.handler = Idle /\ exchange'.outcome = "sent"
      BY <3>2
    <3>4. route \in Asked \cup Unserved
      BY KnownAsked
    <3>. QED
      BY <3>3, <3>4 DEF ExchangeInv
  <2>2. CASE Serve
    <3>1. exchange # Idle /\ exchange.outcome = "sent"
      BY <2>2 DEF Serve, Sent
    <3>2. PICK route \in Candidates(exchange.asked.method, exchange.url) :
            exchange' = [exchange EXCEPT !.handler = route.handler,
                           !.outcome = Outcome(route.handler.body, exchange.body)]
      BY <2>2 DEF Serve
    <3>3. /\ DOMAIN exchange' = DOMAIN exchange /\ exchange'.asked = exchange.asked
          /\ exchange'.url = exchange.url /\ exchange'.body = exchange.body
          /\ exchange'.handler = route.handler
          /\ exchange'.outcome = Outcome(route.handler.body, exchange.body)
      BY <3>1, <3>2 DEF ExchangeInv
    <3>. QED
      BY <3>1, <3>3 DEF ExchangeInv
  <2>3. CASE NotServed
    <3>1. /\ exchange # Idle /\ exchange.outcome = "sent"
          /\ Candidates(exchange.asked.method, exchange.url) = {}
          /\ exchange' = [exchange EXCEPT !.outcome = "notFound"]
      BY <2>3 DEF NotServed, Sent
    <3>2. /\ DOMAIN exchange' = DOMAIN exchange /\ exchange'.asked = exchange.asked
          /\ exchange'.url = exchange.url /\ exchange'.body = exchange.body
          /\ exchange'.handler = exchange.handler /\ exchange'.outcome = "notFound"
      BY <3>1 DEF ExchangeInv
    <3>3. exchange.handler = Idle
      BY <3>1, OutcomeValues DEF ExchangeInv
    <3>. QED
      BY <3>1, <3>2, <3>3 DEF ExchangeInv
  <2>4. CASE UNCHANGED exchange
    BY <2>4 DEF ExchangeInv
  <2>5. CASE Forget
    BY <2>5 DEF Forget, ExchangeInv
  <2>. QED
    BY <2>1, <2>2, <2>3, <2>4, <2>5 DEF Next, StartUp, vars
<1>. QED
  BY <1>1, <1>2, PTL DEF Spec

\* Who was sent something served is served by the handler asked for.
LEMMA Reached ==
  ASSUME ExchangeInv, exchange # Idle, exchange.outcome # "sent",
         exchange.url # RotateAttributes
  PROVE  exchange.handler = IF exchange.asked \in Unserved THEN Idle ELSE exchange.asked.handler
<1>. DEFINE method == exchange.asked.method
            candidates == Candidates(method, exchange.url)
<1>1. PICK value \in Segments, engine \in EngineNames :
        exchange.url = URL(exchange.asked.path, value, engine)
  BY DEF ExchangeInv
<1>2. \/ exchange.handler = Idle /\ candidates = {}
      \/ \E route \in candidates : exchange.handler = route.handler
  BY DEF ExchangeInv
<1>3. CASE exchange.asked \in Unserved
  <2>1. candidates = {}
    BY <1>1, <1>3, UnservedFails
  <2>. QED
    BY <1>2, <1>3, <2>1
<1>4. CASE exchange.asked \notin Unserved
  <2>1. exchange.asked \in Asked
    BY <1>4 DEF ExchangeInv
  <2>2. exchange.asked.path # RotateAttributes
    BY <1>1, RotateURL
  <2>3. Served(method, exchange.url, exchange.asked.handler)
    BY <1>1, <2>1, <2>2, AskedServed
  <2>. QED
    BY <1>2, <1>4, <2>3 DEF Served
<1>. QED
  BY <1>3, <1>4

(* Every endpoint is served by its own handler, whatever the values put    *)
(* into its path, for every engine, and in every order in which the        *)
(* controllers register their routes.                                      *)
THEOREM EachReachesItsHandler == Spec => []ReachesItsHandler
<1>1. ExchangeInv => ReachesItsHandler
  BY Reached DEF ReachesItsHandler, Sent
<1>. QED
  BY <1>1, ExchangeInductive, PTL

\* A body of a request for a certificate that reaches its service.
LEMMA PassedBody ==
  ASSUME NEW takes, takes.kind = "fields", takes.nested,
         "raProfileAttributes" \in takes.required,
         NEW body \in Bodies(takes), Outcome(takes, body) = "service"
  PROVE  /\ body.attributes # <<>>
         /\ \A i \in DOMAIN body.attributes :
              GetAttributeByName(body.attributes[i].name).type = "data"
<1>1. Consistent(takes, body) /\ body.zero \subseteq takes.required
  BY DEF Bodies
<1>2. ~FieldMissing(takes, body) /\ ~AttributePanics(takes, body)
  BY DEF Outcome
<1>3. body.zero = {}
  BY <1>2 DEF FieldMissing
<1>4. body.attributes # <<>>
  BY <1>1, <1>3 DEF Consistent, AttributeFields
<1>5. \A i \in DOMAIN body.attributes : unmarshalAttributeValue(body.attributes[i]) # Nil
  BY <1>2 DEF AttributePanics, UnmarshalAttributesValues
<1>6. \A sent : unmarshalAttributeValue(sent) # Nil =>
        GetAttributeByName(sent.name).type = "data"
  BY DEF unmarshalAttributeValue
<1>. QED
  BY <1>4, <1>5, <1>6

(* A certificate operation starts with attributes, all of them data of the *)
(* catalogue, whatever list was sent: it was asked for at its own route,   *)
(* whose controller looks at each of them.                                 *)
THEOREM ServicesSeeAttributes == Spec => []CertificateServicesSeeAttributes
<1>1. ASSUME ExchangeInv
      PROVE  CertificateServicesSeeAttributes
  <2>. SUFFICES ASSUME exchange # Idle, exchange.outcome = "service",
                       "raProfileAttributes" \in exchange.handler.body.required
                PROVE  /\ exchange.body.attributes # <<>>
                       /\ \A i \in DOMAIN exchange.body.attributes :
                            GetAttributeByName(exchange.body.attributes[i].name).type = "data"
    BY DEF CertificateServicesSeeAttributes
  <2>. DEFINE takes == exchange.handler.body
  <2>1. PICK route \in Candidates(exchange.asked.method, exchange.url) :
          /\ exchange.handler = route.handler
          /\ exchange.outcome = Outcome(route.handler.body, exchange.body)
    BY <1>1 DEF ExchangeInv
  <2>2. CASE exchange.url = RotateAttributes
    <3>1. RouterOf(exchange.url) = SecretRoutes
      BY <2>2, ProviderRouters DEF RotateAttributes
    <3>2. route \in AllOf(SecretRoutes)
      BY <2>1, <3>1, CandidatesIn DEF SecretRoutes
    <3>3. route.handler = [name |-> route.handler.name, body |-> OwnBody]
      BY <3>2, SecretRows DEF HasSecretRow
    <3>4. route.handler.body = OwnBody
      BY <3>3
    <3>. QED
      BY <2>1, <3>4 DEF OwnBody, Body
  <2>3. CASE exchange.url # RotateAttributes
    <3>1. exchange.asked \notin Unserved
      BY <1>1, <2>1, UnservedFails DEF ExchangeInv
    <3>2. exchange.handler = exchange.asked.handler
      BY <1>1, <2>3, <3>1, Reached
    <3>3. /\ takes.kind = "fields" /\ takes.nested
          /\ exchange.body \in Bodies(takes) /\ Outcome(takes, exchange.body) = "service"
      BY <1>1, <2>1, <3>2, AskedLook DEF ExchangeInv, AllLookAtEach, LooksAtEach
    <3>. QED
      BY <3>3, PassedBody
  <2>. QED
    BY <2>2, <2>3
<1>. QED
  BY <1>1, ExchangeInductive, PTL
=============================================================================
