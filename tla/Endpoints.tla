----------------------------- MODULE Endpoints -----------------------------
(***************************************************************************)
(* The routes of the connector and what its controllers take: the table    *)
(* behind the HTTP interface.  A path is the sequence of its segments; a   *)
(* handler is its name and the body it reads:                              *)
(*   "none"    no body,                                                    *)
(*   "fields"  fields picked from whatever was sent (gjson), where nothing *)
(*             is malformed but everything may be missing,                 *)
(*   "strict"  a JSON decoder that refuses what it does not know,          *)
(*   "list"    a strict list of attributes of the platform,                *)
(*   "values"  a list of attributes that no check is made of,              *)
(*   "own"     the secret interface, which reads its bodies itself.        *)
(* required are the fields that must not be zero, nested says whether the  *)
(* attributes in the body are looked at one by one.                        *)
(***************************************************************************)
EXTENDS Naturals, Sequences

Body(kind, required, nested) == [kind |-> kind, required |-> required, nested |-> nested]
NoBody == Body("none", {}, FALSE)
Values == Body("values", {}, FALSE)
OwnBody == Body("own", {}, FALSE)

-----------------------------------------------------------------------------
(* The transfer objects.                                                   *)

CertificateSignRequestDto ==
  Body("fields", {"request", "format", "raProfileAttributes"}, TRUE)
\* Mutant: the attributes of a renewal are not looked at.
RenewRequestUnchecked ==
  Body("fields", {"request", "format", "raProfileAttributes", "certificate"}, FALSE)
CertificateRenewRequestDto ==
  Body("fields", {"request", "format", "raProfileAttributes", "certificate"}, TRUE)
CertRevocationDto ==
  Body("fields", {"reason", "raProfileAttributes", "certificate"}, TRUE)
CertificateIdentificationRequestDto ==
  Body("fields", {"certificate", "raProfileAttributes"}, TRUE)
CaCertificatesRequestDto == Body("fields", {"raProfileAttributes"}, TRUE)
CertificateRevocationListRequestDto == Body("fields", {"raProfileAttributes"}, TRUE)
AuthorityProviderInstanceRequestDto ==
  Body("fields", {"name", "kind", "attributes"}, FALSE)
DiscoveryRequestDto == Body("fields", {"name", "kind"}, TRUE)
DiscoveryDataRequestDto ==
  Body("strict", {"name", "kind", "pageNumber", "itemsPerPage"}, FALSE)
RequestAttributeDto == Body("list", {"name", "content"}, FALSE)

-----------------------------------------------------------------------------
(* The handlers.                                                           *)

Handler(name, body) == [name |-> name, body |-> body]

CheckHealth == Handler("CheckHealth", NoBody)
ListSupportedFunctions == Handler("ListSupportedFunctions", NoBody)

ListAttributeDefinitions == Handler("ListAttributeDefinitions", NoBody)
CredentialAttributesCallback == Handler("CredentialAttributesCallback", NoBody)
ValidateAttributes == Handler("ValidateAttributes", Values)

CreateAuthorityInstance ==
  Handler("CreateAuthorityInstance", AuthorityProviderInstanceRequestDto)
GetAuthorityInstance == Handler("GetAuthorityInstance", NoBody)
GetCaCertificates == Handler("GetCaCertificates", CaCertificatesRequestDto)
GetConnection == Handler("GetConnection", NoBody)
GetCrl == Handler("GetCrl", CertificateRevocationListRequestDto)
ListAuthorityInstances == Handler("ListAuthorityInstances", NoBody)
ListRAProfileAttributes == Handler("ListRAProfileAttributes", NoBody)
RemoveAuthorityInstance == Handler("RemoveAuthorityInstance", NoBody)
UpdateAuthorityInstance ==
  Handler("UpdateAuthorityInstance", AuthorityProviderInstanceRequestDto)
ValidateRAProfileAttributes == Handler("ValidateRAProfileAttributes", Values)
RAProfileCallback == Handler("RAProfileCallback", NoBody)

IdentifyCertificate == Handler("IdentifyCertificate", CertificateIdentificationRequestDto)
IssueCertificate == Handler("IssueCertificate", CertificateSignRequestDto)
ListIssueCertificateAttributes == Handler("ListIssueCertificateAttributes", NoBody)
ListRevokeCertificateAttributes == Handler("ListRevokeCertificateAttributes", NoBody)
RenewCertificate == Handler("RenewCertificate", CertificateRenewRequestDto)
RevokeCertificate == Handler("RevokeCertificate", CertRevocationDto)
ValidateIssueCertificateAttributes ==
  Handler("ValidateIssueCertificateAttributes", RequestAttributeDto)
ValidateRevokeCertificateAttributes ==
  Handler("ValidateRevokeCertificateAttributes", RequestAttributeDto)

DeleteDiscovery == Handler("DeleteDiscovery", NoBody)
DiscoverCertificate == Handler("DiscoverCertificate", DiscoveryRequestDto)
GetDiscovery == Handler("GetDiscovery", DiscoveryDataRequestDto)
PkiEnginesCallback == Handler("PkiEnginesCallback", NoBody)
ListDiscoveryAttributeDefinitions == Handler("ListAttributeDefinitions", NoBody)
ValidateDiscoveryAttributes == Handler("ValidateAttributes", Values)

-----------------------------------------------------------------------------
(* The routes of each controller, a Go map: a set, without an order.       *)

Route(method, path, handler) == [method |-> method, path |-> path, handler |-> handler]

\* Variables of a path, {uuid} and so on; Rest is the one that takes slashes too.
Uuid            == "_uuid"
Kind            == "_kind"
CredentialType  == "_credentialType"
CredentialsType == "_credentialsType"
SecretType      == "_secretType"
EngineName      == "_engineName"
Rest            == "_engineName:.*"

HealthRoutes == {Route("GET", <<"v1", "health">>, CheckHealth)}
InfoRoutes == {Route("GET", <<"v1">>, ListSupportedFunctions)}

AuthorityAttributesRoutes ==
  {Route("GET", <<"v1", "authorityProvider", Kind, "attributes">>, ListAttributeDefinitions),
   Route("GET", <<"v1", "authorityProvider", "credentialType", CredentialType, "callback">>,
         CredentialAttributesCallback),
   Route("POST", <<"v1", "authorityProvider", Kind, "attributes", "validate">>,
         ValidateAttributes)}

\* Mutant: the engine name takes the rest of the path.
AuthorityRoutesWithRest ==
  {Route("POST", <<"v1", "authorityProvider", "authorities">>, CreateAuthorityInstance),
   Route("GET", <<"v1", "authorityProvider", "authorities", Uuid>>, GetAuthorityInstance),
   Route("GET", <<"v1", "authorityProvider", "authorities", Uuid, "connect">>, GetConnection),
   Route("GET", <<"v1", "authorityProvider", "authorities", Uuid, Rest>>, RAProfileCallback)}

AuthorityManagementRoutes ==
  {Route("POST", <<"v1", "authorityProvider", "authorities">>, CreateAuthorityInstance),
   Route("GET", <<"v1", "authorityProvider", "authorities", Uuid>>, GetAuthorityInstance),
   Route("POST", <<"v1", "authorityProvider", "authorities", Uuid, "caCertificates">>,
         GetCaCertificates),
   Route("GET", <<"v1", "authorityProvider", "authorities", Uuid, "connect">>, GetConnection),
   Route("POST", <<"v1", "authorityProvider", "authorities", Uuid, "crl">>, GetCrl),
   Route("GET", <<"v1", "authorityProvider", "authorities">>, ListAuthorityInstances),
   Route("GET", <<"v1", "authorityProvider", "authorities", Uuid, "raProfile",
                  "attributes">>, ListRAProfileAttributes),
   Route("DELETE", <<"v1", "authorityProvider", "authorities", Uuid>>,
         RemoveAuthorityInstance),
   Route("POST", <<"v1", "authorityProvider", "authorities", Uuid>>, UpdateAuthorityInstance),
   Route("POST", <<"v1", "authorityProvider", "authorities", Uuid, "raProfile",
                   "attributes", "validate">>, ValidateRAProfileAttributes),
   Route("GET", <<"v1", "authorityProvider", "authorities", Uuid, "raProfileRole", Rest,
                  "callback">>, RAProfileCallback)}

CertificateManagementRoutes ==
  {Route("POST", <<"v2", "authorityProvider", "authorities", Uuid, "certificates",
                   "identify">>, IdentifyCertificate),
   Route("POST", <<"v2", "authorityProvider", "authorities", Uuid, "certificates",
                   "issue">>, IssueCertificate),
   Route("GET", <<"v2", "authorityProvider", "authorities", Uuid, "certificates",
                  "issue", "attributes">>, ListIssueCertificateAttributes),
   Route("GET", <<"v2", "authorityProvider", "authorities", Uuid, "certificates",
                  "revoke", "attributes">>, ListRevokeCertificateAttributes),
   Route("POST", <<"v2", "authorityProvider", "authorities", Uuid, "certificates",
                   "renew">>, RenewCertificate),
   Route("POST", <<"v2", "authorityProvider", "authorities", Uuid, "certificates",
                   "revoke">>, RevokeCertificate),
   Route("POST", <<"v2", "authorityProvider", "authorities", Uuid, "certificates",
                   "issue", "attributes", "validate">>, ValidateIssueCertificateAttributes),
   Route("POST", <<"v2", "authorityProvider", "authorities", Uuid, "certificates",
                   "revoke", "attributes", "validate">>, ValidateRevokeCertificateAttributes)}

DiscoveryAttributesRoutes ==
  {Route("GET", <<"v1", "discoveryProvider", Kind, "attributes">>,
         ListDiscoveryAttributeDefinitions),
   Route("POST", <<"v1", "discoveryProvider", Kind, "attributes", "validate">>,
         ValidateDiscoveryAttributes),
   Route("GET", <<"v1", "discoveryProvider", Uuid, "pkiengines", "callback">>,
         PkiEnginesCallback)}

DiscoveryRoutes ==
  {Route("DELETE", <<"v1", "discoveryProvider", "discover", Uuid>>, DeleteDiscovery),
   Route("POST", <<"v1", "discoveryProvider", "discover">>, DiscoverCertificate),
   Route("POST", <<"v1", "discoveryProvider", "discover", Uuid>>, GetDiscovery)}

(* The secret interface registers one route after the other.               *)

SecretRoute(method, path, name) == {Route(method, path, Handler(name, OwnBody))}

RotateAttributes == <<"v1", "secretProvider", "secrets", "rotate", "attributes">>

SecretRoutes ==
  <<SecretRoute("POST", <<"v1", "secretProvider", "secrets">>, "createSecret"),
    SecretRoute("PUT", <<"v1", "secretProvider", "secrets">>, "updateSecret"),
    SecretRoute("POST", <<"v1", "secretProvider", "secrets", "content">>, "getSecretValue"),
    SecretRoute("DELETE", <<"v1", "secretProvider", "secrets">>, "deleteSecret"),
    SecretRoute("GET", <<"v1", "secretProvider", "vaults", "attributes">>,
                "listVaultAttributes"),
    SecretRoute("POST", <<"v1", "secretProvider", "vaultProfiles", "attributes">>,
                "listVaultProfileAttributes"),
    SecretRoute("GET", <<"v1", "secretProvider", "secrets", SecretType, "attributes">>,
                "getSecretAttributes"),
    SecretRoute("GET", <<"v1", "secretProvider", "credentialType", CredentialsType,
                         "callback">>, "credentialsType"),
    SecretRoute("POST", <<"v1", "secretProvider", "vaults">>, "checkVaultConnection"),
    SecretRoute("POST", <<"v1", "secretProvider", "secrets", "rotate">>,
                "rotateSecretValue"),
    SecretRoute("GET", RotateAttributes, "getRotateAttributes")>>
=============================================================================
