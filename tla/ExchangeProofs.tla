--------------------------- MODULE ExchangeProofs ---------------------------
(***************************************************************************)
(* The forms of the connector, for any authorities, engines and roles:     *)
(* what it offers it accepts, what is typed it stores, what is selected it *)
(* uses.                                                                   *)
(***************************************************************************)
EXTENDS AttributeExchange, SequenceTheorems, TLAPS

-----------------------------------------------------------------------------
(* The catalogue.                                                          *)

AuthorityFields == {"authority_url", "credentials_type", "role_id", "role_secret",
                    "vault_role", "mount_path"}
CertificateFields == {"ra_profile_engine", "ra_profile_authority", "ra_profile_role"}
DiscoveryFields == {"authority_to_discover", "pki_engines_to_discover"}
AllFields == AuthorityFields \cup CertificateFields \cup DiscoveryFields

Catalogued(name, contentType, required, list) ==
  LET def == GetAttributeByName(name) IN
  /\ def.type = "data" /\ def.contentType = contentType
  /\ def.required = required /\ def.list = list

LEMMA AuthorityCatalogue ==
  /\ Catalogued("authority_url", "string", TRUE, FALSE)
  /\ Catalogued("credentials_type", "string", TRUE, TRUE)
  /\ Catalogued("role_id", "secret", TRUE, FALSE)
  /\ Catalogued("role_secret", "secret", TRUE, FALSE)
  /\ Catalogued("vault_role", "string", FALSE, FALSE)
  /\ Catalogued("mount_path", "string", FALSE, FALSE)
<1>. DEFINE A == AuthorityManagementAttributes
<1>1. /\ AuthorityFields \subseteq DOMAIN A
      /\ \A n \in AuthorityFields : A[n].type = "data"
      /\ A["authority_url"].contentType = "string" /\ A["authority_url"].required
      /\ A["authority_url"].list = FALSE
      /\ A["credentials_type"].contentType = "string" /\ A["credentials_type"].required
      /\ A["credentials_type"].list
      /\ A["role_id"].contentType = "secret" /\ A["role_id"].required
      /\ A["role_id"].list = FALSE
      /\ A["role_secret"].contentType = "secret" /\ A["role_secret"].required
      /\ A["role_secret"].list = FALSE
      /\ A["vault_role"].contentType = "string" /\ A["vault_role"].required = FALSE
      /\ A["vault_role"].list = FALSE
      /\ A["mount_path"].contentType = "string" /\ A["mount_path"].required = FALSE
      /\ A["mount_path"].list = FALSE
  BY DEF AuthorityManagementAttributes, DataAttribute, Definition, AuthorityFields
<1>2. \A n \in DOMAIN A : GetAttributeByName(n) = A[n]
  BY DEF GetAttributeByName, AttributeList, Over
<1>. HIDE DEF A
<1>. QED
  BY <1>1, <1>2 DEF Catalogued, AuthorityFields

LEMMA OtherCatalogue ==
  /\ Catalogued("ra_profile_engine", "object", TRUE, TRUE)
  /\ Catalogued("ra_profile_authority", "string", TRUE, FALSE)
  /\ Catalogued("ra_profile_role", "string", TRUE, TRUE)
  /\ Catalogued("authority_to_discover", "object", TRUE, TRUE)
  /\ Catalogued("pki_engines_to_discover", "object", FALSE, TRUE)
  /\ GetAttributeByName("custom").type # "data"
<1>. DEFINE A == AuthorityManagementAttributes
            D == DiscoveryAttributes
            R == RAProfilesAttributes
<1>1. DOMAIN A = AuthorityFields \cup {"authority_info", "credential_group"}
  BY DEF AuthorityManagementAttributes, AuthorityFields
<1>2. /\ DOMAIN D = DiscoveryFields
      /\ \A n \in DiscoveryFields : D[n].type = "data"
      /\ D["authority_to_discover"].contentType = "object"
      /\ D["authority_to_discover"].required /\ D["authority_to_discover"].list
      /\ D["pki_engines_to_discover"].contentType = "object"
      /\ D["pki_engines_to_discover"].required = FALSE
      /\ D["pki_engines_to_discover"].list
  BY DEF DiscoveryAttributes, DiscoveryFields, DataAttribute, Definition, WithCallback
<1>3. /\ DOMAIN R = CertificateFields
      /\ \A n \in CertificateFields : R[n].type = "data"
      /\ R["ra_profile_engine"].contentType = "object"
      /\ R["ra_profile_engine"].required /\ R["ra_profile_engine"].list
      /\ R["ra_profile_authority"].contentType = "string"
      /\ R["ra_profile_authority"].required /\ R["ra_profile_authority"].list = FALSE
      /\ R["ra_profile_role"].contentType = "string"
      /\ R["ra_profile_role"].required /\ R["ra_profile_role"].list
  BY DEF RAProfilesAttributes, CertificateFields, DataAttribute, Definition, WithCallback
<1>4. AttributeList = Over(A, Over(D, R))
  BY DEF AttributeList
<1>. HIDE DEF A, D, R
<1>5. /\ DOMAIN AttributeList = DOMAIN A \cup DOMAIN D \cup DOMAIN R
      /\ \A n \in DOMAIN D \ DOMAIN A : AttributeList[n] = D[n]
      /\ \A n \in DOMAIN R \ (DOMAIN A \cup DOMAIN D) : AttributeList[n] = R[n]
  BY <1>4 DEF Over
<1>6. /\ \A n \in DiscoveryFields : n \in DOMAIN D /\ n \notin DOMAIN A
      /\ \A n \in CertificateFields : n \in DOMAIN R /\ n \notin DOMAIN A \cup DOMAIN D
      /\ "custom" \notin DOMAIN A \cup DOMAIN D \cup DOMAIN R
  BY <1>1, <1>2, <1>3 DEF AuthorityFields, DiscoveryFields, CertificateFields
<1>7. /\ \A n \in DiscoveryFields : GetAttributeByName(n) = D[n]
      /\ \A n \in CertificateFields : GetAttributeByName(n) = R[n]
      /\ GetAttributeByName("custom") = Definition(Empty, Empty, FALSE, FALSE)
  BY <1>5, <1>6 DEF GetAttributeByName
<1>8. GetAttributeByName("custom").type # "data"
  BY <1>7 DEF Definition, Empty
<1>9. /\ Catalogued("authority_to_discover", "object", TRUE, TRUE)
      /\ Catalogued("pki_engines_to_discover", "object", FALSE, TRUE)
  BY <1>2, <1>7 DEF Catalogued, DiscoveryFields
<1>10. /\ Catalogued("ra_profile_engine", "object", TRUE, TRUE)
       /\ Catalogued("ra_profile_authority", "string", TRUE, FALSE)
       /\ Catalogued("ra_profile_role", "string", TRUE, TRUE)
  BY <1>3, <1>7 DEF Catalogued, CertificateFields
<1>. QED
  BY <1>8, <1>9, <1>10

LEMMA FieldsAreData ==
  \A n \in AllFields : GetAttributeByName(n).type = "data"
  BY AuthorityCatalogue, OtherCatalogue
     DEF Catalogued, AllFields, AuthorityFields, CertificateFields, DiscoveryFields

LEMMA CustomUnlisted == "custom" \notin DOMAIN AttributeList
  BY DEF AttributeList, Over, AuthorityManagementAttributes, DiscoveryAttributes,
         RAProfilesAttributes

LEMMA FieldsListed == AllFields \subseteq DOMAIN AttributeList
<1>1. Definition(Empty, Empty, FALSE, FALSE).type # "data"
  BY DEF Definition, Empty
<1>. QED
  BY <1>1, FieldsAreData DEF GetAttributeByName

-----------------------------------------------------------------------------
(* Lookups in a list of attributes.                                        *)

\* What a lookup by uuid may give: nothing, a panic, or the attribute.
LEMMA Lookup ==
  ASSUME NEW name, NEW attributes, DOMAIN attributes \subseteq Int,
         \A i, j \in DOMAIN attributes :
           attributes[i] = Nil /\ attributes[j] = Nil => i = j,
         \A i, j \in DOMAIN attributes :
           /\ attributes[i] # Nil /\ attributes[j] # Nil
           /\ attributes[i].name = name /\ attributes[j].name = name
           => i = j
  PROVE  LET a == GetAttributeFromArrayByUUID(name, attributes) IN
         \/ /\ a = Nil
            /\ \A i \in DOMAIN attributes : attributes[i] # Nil /\ attributes[i].name # name
         \/ /\ a = Fault
            /\ \E i \in DOMAIN attributes : attributes[i] = Nil
         \/ \E i \in DOMAIN attributes :
              attributes[i] # Nil /\ attributes[i].name = name /\ a = attributes[i]
<1>. DEFINE found == {i \in DOMAIN attributes :
                        attributes[i] = Nil \/ attributes[i].name = name}
            at == CHOOSE i \in found : \A j \in found : i <= j
            a == GetAttributeFromArrayByUUID(name, attributes)
<1>1. a = IF found = {} THEN Nil ELSE IF attributes[at] = Nil THEN Fault ELSE attributes[at]
  BY DEF GetAttributeFromArrayByUUID
<1>2. CASE found = {}
  BY <1>1, <1>2
<1>3. CASE found # {}
  <2>1. \E i \in found : \A j \in found : i <= j
    <3>1. PICK i \in found : TRUE
      BY <1>3
    <3>2. CASE \A j \in found : j = i
      BY <3>1, <3>2
    <3>3. CASE \E j \in found : j # i
      <4>1. PICK j \in found : j # i
        BY <3>3
      <4>2. \A k \in found : k = i \/ k = j
        BY <3>1, <4>1
      <4>3. CASE i <= j
        BY <3>1, <4>1, <4>2, <4>3
      <4>4. CASE j <= i
        BY <3>1, <4>1, <4>2, <4>4
      <4>. QED
        BY <3>1, <4>1, <4>3, <4>4
    <3>. QED
      BY <3>2, <3>3
  <2>2. at \in found
    BY <2>1
  <2>. HIDE DEF at
  <2>. QED
    BY <1>1, <1>3, <2>2
<1>. QED
  BY <1>2, <1>3

-----------------------------------------------------------------------------
(* The lists a form is handed in as.                                       *)

\* The items of a field, as they are sent.
ItemsIn(style, name) ==
  IF style = "strings" THEN {AsString(items) : items \in ItemsOf(name)} ELSE ItemsOf(name)

\* A list of the form: its fields, each once, the required ones among them;
\* with an attribute of the platform only where that is the style.
OfForm(style, list) ==
  /\ DOMAIN list \subseteq Int
  /\ \A i, j \in DOMAIN list : list[i].name = list[j].name => i = j
  /\ \A i \in DOMAIN list :
       \/ /\ list[i].name \in DOMAIN form.offered \cap AllFields
          /\ list[i].items \in ItemsIn(style, list[i].name)
       \/ list[i].name = "custom" /\ style = "foreign"
  /\ \A n \in DOMAIN form.offered :
       GetAttributeByName(n).required => \E i \in DOMAIN list : list[i].name = n

LEMMA PlaceNumber == \A n \in AllFields : Place[n] \in Int
  BY DEF AllFields, AuthorityFields, CertificateFields, DiscoveryFields, Place

LEMMA OrderedOnce ==
  ASSUME NEW names \in Orders
  PROVE  /\ \E k \in Nat : names \in [1 .. k -> AllFields]
         /\ \A i, j \in DOMAIN names : names[i] = names[j] => i = j
<1>1. PICK goal \in DOMAIN Fields : names \in InOrder(Fields[goal])
  BY DEF Orders
<1>2. Fields[goal] \subseteq AllFields
  BY DEF Fields, AllFields, AuthorityFields, CertificateFields, DiscoveryFields
<1>. DEFINE fields == Fields[goal]
<1>. HIDE DEF fields
<1>3. PICK k \in 0 .. Cardinality(fields) :
        /\ names \in [1 .. k -> fields]
        /\ \A i, j \in 1 .. k : i < j => Place[names[i]] < Place[names[j]]
  BY <1>1 DEF InOrder, fields
<1>4. k \in Nat /\ names \in [1 .. k -> AllFields]
  BY <1>2, <1>3 DEF fields
<1>5. \A i, j \in 1 .. k : i < j => names[i] # names[j]
  BY <1>3, <1>4, PlaceNumber
<1>6. \A i, j \in 1 .. k : names[i] = names[j] => i = j
  BY <1>4, <1>5
<1>. QED
  BY <1>4, <1>6

\* The fields as they are sent, alone.
LEMMA SentOfForm ==
  ASSUME NEW style, NEW names \in Orders, Present(names), NEW items \in Picks(names)
  PROVE  /\ \E S : Sent(names, items, style) \in Seq(S)
         /\ \A i \in DOMAIN Sent(names, items, style) :
              Sent(names, items, style)[i].name \in AllFields
         /\ OfForm(style, Sent(names, items, style))
<1>. DEFINE list == Sent(names, items, style)
<1>1. PICK k \in Nat : names \in [1 .. k -> AllFields]
  BY OrderedOnce
<1>2. /\ DOMAIN list = 1 .. k
      /\ \A i \in 1 .. k :
           /\ list[i].name = names[i]
           /\ list[i].items = IF style = "strings" THEN AsString(items[i]) ELSE items[i]
  BY <1>1 DEF Sent
<1>3. \A i \in 1 .. k : items[i] \in ItemsOf(names[i])
  BY <1>1 DEF Picks
<1>4. \A i \in 1 .. k : list[i].items \in ItemsIn(style, names[i])
  BY <1>2, <1>3 DEF ItemsIn
<1>5. \A i \in 1 .. k : names[i] \in DOMAIN form.offered \cap AllFields
  BY <1>1 DEF Present
<1>6. \A n \in DOMAIN form.offered :
        GetAttributeByName(n).required => \E i \in 1 .. k : names[i] = n
  BY <1>1 DEF Present
<1>7. \A i, j \in 1 .. k : names[i] = names[j] => i = j
  BY <1>1, OrderedOnce
<1>10. list \in Seq({list[i] : i \in 1 .. k})
  <2>1. list = [i \in 1 .. k |-> list[i]]
    BY <1>1 DEF Sent
  <2>. HIDE DEF list
  <2>. QED
    BY <1>1, <2>1
<1>. HIDE DEF list
<1>8. OfForm(style, list)
  BY <1>2, <1>4, <1>5, <1>6, <1>7 DEF OfForm
<1>9. \A i \in 1 .. k : list[i].name \in AllFields
  BY <1>2, <1>5
<1>. QED
  BY <1>2, <1>8, <1>9, <1>10 DEF list

\* An attribute of the platform, before or after the others.
LEMMA CustomFirst ==
  ASSUME NEW S, NEW list \in Seq(S), OfForm("foreign", list),
         \A i \in DOMAIN list : list[i].name \in AllFields
  PROVE  OfForm("foreign", Custom \o list)
<1>. DEFINE all == Custom \o list
            T   == S \cup {Custom[1]}
<1>1. Custom \in Seq(T) /\ Len(Custom) = 1 /\ Custom[1].name = "custom"
  BY DEF Custom
<1>2. list \in Seq(T) /\ Len(list) \in Nat /\ DOMAIN list = 1 .. Len(list)
  OBVIOUS
<1>. HIDE DEF T
<1>3. /\ DOMAIN all = 1 .. Len(list) + 1
      /\ all[1] = Custom[1]
      /\ \A i \in 1 .. Len(list) : all[i + 1] = list[i]
  <2>1. /\ all \in Seq(T)
        /\ Len(all) = Len(Custom) + Len(list)
        /\ \A i \in 1 .. Len(Custom) + Len(list) :
             all[i] = IF i <= Len(Custom) THEN Custom[i] ELSE list[i - Len(Custom)]
    BY <1>1, <1>2, ConcatProperties
  <2>. HIDE DEF all
  <2>. QED
    BY <1>1, <1>2, <2>1
<1>. HIDE DEF all
<1>4. \A i \in DOMAIN all : i = 1 \/ (i - 1 \in DOMAIN list /\ all[i] = list[i - 1])
  BY <1>2, <1>3
<1>5. "custom" \notin AllFields
  BY DEF AllFields, AuthorityFields, CertificateFields, DiscoveryFields
<1>6. \A i, j \in DOMAIN all : all[i].name = all[j].name => i = j
  <2>. SUFFICES ASSUME NEW i \in DOMAIN all, NEW j \in DOMAIN all, all[i].name = all[j].name
                PROVE  i = j
    OBVIOUS
  <2>1. CASE i = 1 \/ j = 1
    BY <1>1, <1>3, <1>4, <1>5, <2>1
  <2>2. CASE i # 1 /\ j # 1
    <3>1. i - 1 = j - 1
      BY <1>4, <2>2 DEF OfForm
    <3>. QED
      BY <1>2, <1>3, <3>1
  <2>. QED
    BY <2>1, <2>2
<1>7. \A n \in DOMAIN form.offered :
        GetAttributeByName(n).required => \E i \in DOMAIN all : all[i].name = n
  <2>. SUFFICES ASSUME NEW n \in DOMAIN form.offered, GetAttributeByName(n).required
                PROVE  \E i \in DOMAIN all : all[i].name = n
    OBVIOUS
  <2>1. PICK i \in DOMAIN list : list[i].name = n
    BY DEF OfForm
  <2>. QED
    BY <1>2, <1>3, <2>1
<1>8. \A i \in DOMAIN all :
        \/ /\ all[i].name \in DOMAIN form.offered \cap AllFields
           /\ all[i].items \in ItemsIn("foreign", all[i].name)
        \/ all[i].name = "custom"
  BY <1>1, <1>3, <1>4 DEF OfForm
<1>. QED
  BY <1>2, <1>3, <1>6, <1>7, <1>8 DEF OfForm, all

LEMMA CustomLast ==
  ASSUME NEW S, NEW list \in Seq(S), OfForm("foreign", list),
         \A i \in DOMAIN list : list[i].name \in AllFields
  PROVE  OfForm("foreign", list \o Custom)
<1>. DEFINE all == list \o Custom
            T   == S \cup {Custom[1]}
<1>1. Custom \in Seq(T) /\ Len(Custom) = 1 /\ Custom[1].name = "custom"
  BY DEF Custom
<1>2. list \in Seq(T) /\ Len(list) \in Nat /\ DOMAIN list = 1 .. Len(list)
  OBVIOUS
<1>. HIDE DEF T
<1>3. /\ DOMAIN all = 1 .. Len(list) + 1
      /\ all[Len(list) + 1] = Custom[1]
      /\ \A i \in 1 .. Len(list) : all[i] = list[i]
  <2>1. /\ all \in Seq(T)
        /\ Len(all) = Len(list) + Len(Custom)
        /\ \A i \in 1 .. Len(list) + Len(Custom) :
             all[i] = IF i <= Len(list) THEN list[i] ELSE Custom[i - Len(list)]
    BY <1>1, <1>2, ConcatProperties
  <2>. HIDE DEF all
  <2>. QED
    BY <1>1, <1>2, <2>1
<1>. HIDE DEF all
<1>4. \A i \in DOMAIN all : i = Len(list) + 1 \/ (i \in DOMAIN list /\ all[i] = list[i])
  BY <1>2, <1>3
<1>5. "custom" \notin AllFields
  BY DEF AllFields, AuthorityFields, CertificateFields, DiscoveryFields
<1>6. \A i, j \in DOMAIN all : all[i].name = all[j].name => i = j
  BY <1>1, <1>3, <1>4, <1>5 DEF OfForm
<1>7. \A n \in DOMAIN form.offered :
        GetAttributeByName(n).required => \E i \in DOMAIN all : all[i].name = n
  BY <1>2, <1>3 DEF OfForm
<1>8. \A i \in DOMAIN all :
        \/ /\ all[i].name \in DOMAIN form.offered \cap AllFields
           /\ all[i].items \in ItemsIn("foreign", all[i].name)
        \/ all[i].name = "custom"
  BY <1>1, <1>3, <1>4 DEF OfForm
<1>. QED
  BY <1>2, <1>3, <1>6, <1>7, <1>8 DEF OfForm, all

LEMMA FilledOfForm ==
  ASSUME NEW style \in Styles, NEW list \in Filled(style)
  PROVE  OfForm(style, list)
<1>. DEFINE sent == UNION {{Sent(names, items, style) : items \in Picks(names)} :
                             names \in {order \in Orders : Present(order)}}
<1>1. ASSUME NEW one \in sent
      PROVE  /\ \E S : one \in Seq(S)
             /\ \A i \in DOMAIN one : one[i].name \in AllFields
             /\ OfForm(style, one)
  <2>1. PICK names \in Orders : /\ Present(names)
                                /\ \E items \in Picks(names) : one = Sent(names, items, style)
    BY <1>1
  <2>2. PICK items \in Picks(names) : one = Sent(names, items, style)
    BY <2>1
  <2>. QED
    BY <2>1, <2>2, SentOfForm
<1>2. IF style # "foreign" THEN list \in sent
      ELSE \E one \in sent : list = Custom \o one \/ list = one \o Custom
  BY DEF Filled
<1>. HIDE DEF sent
<1>. QED
  BY <1>1, <1>2, CustomFirst, CustomLast

-----------------------------------------------------------------------------
(* What a lookup in a list of the form gives.                              *)

Got(name, list) == GetAttributeFromArrayByUUID(name, UnmarshalAttributesValues(list))

Has(name, list) == \E i \in DOMAIN list : list[i].name = name

ContentOf(sent) == EachContent(sent.items, GetAttributeByName(sent.name).contentType)

LEMMA FieldUnmarshalled ==
  ASSUME NEW sent, sent.name \in AllFields
  PROVE  /\ unmarshalAttributeValue(sent).type = "data"
         /\ unmarshalAttributeValue(sent).name = sent.name
         /\ unmarshalAttributeValue(sent).contentType = GetAttributeByName(sent.name).contentType
         /\ unmarshalAttributeValue(sent).content = ContentOf(sent)
  BY FieldsAreData DEF unmarshalAttributeValue, Attribute, ContentOf

LEMMA CustomUnmarshalled ==
  ASSUME NEW sent, sent.name = "custom"
  PROVE  unmarshalAttributeValue(sent) = Nil
  BY OtherCatalogue DEF unmarshalAttributeValue

LEMMA Tags ==
  /\ Nil.type = "nil" /\ Fault.type = "panic"
  /\ \A a : a.type = "data" => a # Nil /\ a # Fault
  BY DEF Nil, Fault

LEMMA GotField ==
  ASSUME NEW style, NEW list, OfForm(style, list), NEW name \in AllFields
  PROVE  \/ Got(name, list) = Nil /\ ~Has(name, list)
         \/ Got(name, list) = Fault /\ style = "foreign"
         \/ \E i \in DOMAIN list :
              /\ list[i].name = name
              /\ list[i].items \in ItemsIn(style, name)
              /\ Got(name, list) \notin {Nil, Fault}
              /\ Got(name, list).content = ContentOf(list[i])
<1>. DEFINE attributes == UnmarshalAttributesValues(list)
<1>1. /\ DOMAIN attributes = DOMAIN list
      /\ \A i \in DOMAIN list : attributes[i] = unmarshalAttributeValue(list[i])
  BY DEF UnmarshalAttributesValues
<1>. HIDE DEF attributes
<1>2. \A i \in DOMAIN list : list[i].name \in AllFields =>
        /\ attributes[i] \notin {Nil, Fault}
        /\ attributes[i].name = list[i].name
        /\ attributes[i].content = ContentOf(list[i])
  BY <1>1, FieldUnmarshalled, Tags
<1>3. \A i \in DOMAIN list : list[i].name \notin AllFields =>
        attributes[i] = Nil /\ list[i].name = "custom" /\ style = "foreign"
  BY <1>1, CustomUnmarshalled DEF OfForm
<1>4. \A i, j \in DOMAIN attributes : attributes[i] = Nil /\ attributes[j] = Nil => i = j
  BY <1>1, <1>2, <1>3 DEF OfForm
<1>5. \A i, j \in DOMAIN attributes :
        /\ attributes[i] # Nil /\ attributes[j] # Nil
        /\ attributes[i].name = name /\ attributes[j].name = name
        => i = j
  BY <1>1, <1>2, <1>3 DEF OfForm
<1>6. DOMAIN attributes \subseteq Int
  BY <1>1 DEF OfForm
<1>. DEFINE a == GetAttributeFromArrayByUUID(name, attributes)
<1>7. \/ /\ a = Nil
         /\ \A i \in DOMAIN attributes : attributes[i] # Nil /\ attributes[i].name # name
      \/ /\ a = Fault
         /\ \E i \in DOMAIN attributes : attributes[i] = Nil
      \/ \E i \in DOMAIN attributes :
           attributes[i] # Nil /\ attributes[i].name = name /\ a = attributes[i]
  BY <1>4, <1>5, <1>6, Lookup
<1>8. Got(name, list) = a
  BY DEF Got, attributes
<1>. HIDE DEF a
<1>9. \A i \in DOMAIN list : list[i].name = name => list[i].items \in ItemsIn(style, name)
  <2>1. name # "custom"
    BY DEF AllFields, AuthorityFields, CertificateFields, DiscoveryFields
  <2>. QED
    BY <2>1 DEF OfForm
<1>10. CASE /\ a = Nil
            /\ \A i \in DOMAIN attributes : attributes[i] # Nil /\ attributes[i].name # name
  BY <1>1, <1>2, <1>3, <1>8, <1>10 DEF Has
<1>11. CASE a = Fault /\ \E i \in DOMAIN attributes : attributes[i] = Nil
  BY <1>1, <1>2, <1>3, <1>8, <1>11
<1>12. CASE \E i \in DOMAIN attributes :
              attributes[i] # Nil /\ attributes[i].name = name /\ a = attributes[i]
  <2>1. PICK i \in DOMAIN list :
               attributes[i] # Nil /\ attributes[i].name = name /\ a = attributes[i]
    BY <1>1, <1>12
  <2>. QED
    BY <1>2, <1>3, <1>8, <1>9, <2>1
<1>. QED
  BY <1>7, <1>10, <1>11, <1>12

-----------------------------------------------------------------------------
(* The items of a field, and what the connector makes of them.             *)

Text(v) == <<"string", v>>

\* One item, and what it is read as.
One(items, data) == DOMAIN items = {1} /\ items[1] = data

LEMMA TextItems ==
  ASSUME NEW style, NEW name, NEW required, Catalogued(name, "string", required, FALSE),
         NEW items \in ItemsIn(style, name)
  PROVE  One(items, Text(name))
<1>1. ItemsOf(name) = {<<Text(name)>>}
  BY DEF ItemsOf, Catalogued, Typed, Text
<1>2. One(<<Text(name)>>, Text(name)) /\ One(AsString(<<Text(name)>>), Text(name))
  BY DEF One, AsString, Text
<1>. QED
  BY <1>1, <1>2 DEF ItemsIn

LEMMA SecretItems ==
  ASSUME NEW style, NEW name, NEW required, Catalogued(name, "secret", required, FALSE),
         NEW items \in ItemsIn(style, name)
  PROVE  One(items, <<"object", "secret", name>>) \/ One(items, Text(name))
<1>1. ItemsOf(name) = {<<<<"object", "secret", name>>>>}
  BY DEF ItemsOf, Catalogued, Typed
<1>2. /\ One(<<<<"object", "secret", name>>>>, <<"object", "secret", name>>)
      /\ One(AsString(<<<<"object", "secret", name>>>>), Text(name))
  BY DEF One, AsString, Text
<1>. QED
  BY <1>1, <1>2 DEF ItemsIn

\* What is chosen from a list of strings.
LEMMA ChosenText ==
  ASSUME NEW style, NEW name, NEW contentType, Catalogued(name, contentType, TRUE, TRUE),
         NEW S, form.offered[name] \subseteq {Text(v) : v \in S},
         NEW items \in ItemsIn(style, name)
  PROVE  \E v \in S : Text(v) \in form.offered[name] /\ One(items, Text(v))
<1>1. PICK given \in ItemsOf(name) : items = given \/ items = AsString(given)
  BY DEF ItemsIn
<1>2. PICK data \in form.offered[name] : given = <<data>>
  BY <1>1 DEF ItemsOf, Catalogued
<1>3. PICK v \in S : data = Text(v)
  BY <1>2
<1>4. One(<<Text(v)>>, Text(v)) /\ One(AsString(<<Text(v)>>), Text(v))
  BY DEF One, AsString, Text
<1>. QED
  BY <1>1, <1>2, <1>3, <1>4

\* What is chosen from a list of objects, each with its one key.
ObjectChosen(style, items, key, S) ==
  \E v \in S : \/ One(items, <<"object", key, v>>)
               \/ style = "strings" /\ One(items, Text(v))

LEMMA ChosenObject ==
  ASSUME NEW style, NEW name, NEW contentType, Catalogued(name, contentType, TRUE, TRUE),
         NEW key, NEW S, form.offered[name] \subseteq {<<"object", key, v>> : v \in S},
         NEW items \in ItemsIn(style, name)
  PROVE  ObjectChosen(style, items, key, S)
<1>1. PICK given \in ItemsOf(name) :
        items = given \/ (style = "strings" /\ items = AsString(given))
  BY DEF ItemsIn
<1>2. PICK data \in form.offered[name] : given = <<data>>
  BY <1>1 DEF ItemsOf, Catalogued
<1>3. PICK v \in S : data = <<"object", key, v>>
  BY <1>2
<1>4. /\ One(<<<<"object", key, v>>>>, <<"object", key, v>>)
      /\ One(AsString(<<<<"object", key, v>>>>), Text(v))
  BY DEF One, AsString, Text
<1>. QED
  BY <1>1, <1>2, <1>3, <1>4 DEF ObjectChosen

\* What is selected from a list of objects that is not required.
ObjectsSelected(style, items, key, S) ==
  \A j \in DOMAIN items : \E v \in S :
    items[j] = <<"object", key, v>> \/ (style = "strings" /\ items[j] = Text(v))

LEMMA SelectedObjects ==
  ASSUME NEW style, NEW name, NEW contentType, Catalogued(name, contentType, FALSE, TRUE),
         NEW key, NEW S, form.offered[name] \subseteq {<<"object", key, v>> : v \in S},
         NEW items \in ItemsIn(style, name)
  PROVE  ObjectsSelected(style, items, key, S)
<1>1. PICK given \in ItemsOf(name) :
        items = given \/ (style = "strings" /\ items = AsString(given))
  BY DEF ItemsIn
<1>2. given \in Selections(form.offered[name])
  BY <1>1 DEF ItemsOf, Catalogued
<1>3. PICK k \in 0 .. Cardinality(form.offered[name]) : given \in [1 .. k -> form.offered[name]]
  BY <1>2 DEF Selections
<1>4. \A j \in DOMAIN given : \E v \in S : given[j] = <<"object", key, v>>
  BY <1>3
<1>5. CASE items = given
  BY <1>4, <1>5 DEF ObjectsSelected
<1>6. CASE style = "strings" /\ items = AsString(given)
  <2>1. DOMAIN items = DOMAIN given
    BY <1>6 DEF AsString
  <2>2. SUFFICES ASSUME NEW j \in DOMAIN given
                 PROVE  \E v \in S : items[j] = Text(v)
    BY <1>6, <2>1 DEF ObjectsSelected
  <2>3. PICK v \in S : given[j] = <<"object", key, v>>
    BY <1>4
  <2>4. given[j][1] = "object" /\ given[j][3] = v
    BY <2>3
  <2>. QED
    BY <1>6, <2>4 DEF AsString, Text
<1>. QED
  BY <1>1, <1>5, <1>6

\* What becomes of a datum of each form.
LEMMA Conversions ==
  ASSUME NEW v
  PROVE  /\ unmarshalAttributeContent(Text(v), "string") = Text(v)
         /\ unmarshalAttributeContent(Text(v), "secret") = <<"secret", v>>
         /\ unmarshalAttributeContent(<<"object", "secret", v>>, "secret") = <<"secret", v>>
         /\ unmarshalAttributeContent(Text(v), "object") = <<"object", "objectData", v>>
         /\ \A key : unmarshalAttributeContent(<<"object", key, v>>, "object")
                       = <<"object", key, v>>
         /\ MarshalContent(Text(v)) = Text(v)
         /\ v # Empty => MarshalContent(<<"secret", v>>) = <<"object", "secret", v>>
<1>1. IsStringOrNull(Text(v)) /\ StringOf(Text(v)) = v
  BY DEF IsStringOrNull, StringOf, Text
<1>2. \A key : LET data == <<"object", key, v>> IN
        ~IsStringOrNull(data) /\ Len(data) = 3 /\ data[1] = "object" /\ data[2] = key /\ data[3] = v
  BY DEF IsStringOrNull
<1>3. /\ unmarshalAttributeContent(Text(v), "string") = Text(v)
      /\ unmarshalAttributeContent(Text(v), "secret") = <<"secret", v>>
      /\ unmarshalAttributeContent(Text(v), "object") = <<"object", "objectData", v>>
  BY <1>1 DEF unmarshalAttributeContent, Text
<1>4. unmarshalAttributeContent(<<"object", "secret", v>>, "secret") = <<"secret", v>>
  BY <1>2 DEF unmarshalAttributeContent
<1>5. \A key : unmarshalAttributeContent(<<"object", key, v>>, "object") = <<"object", key, v>>
  BY <1>2 DEF unmarshalAttributeContent
<1>6. /\ MarshalContent(Text(v)) = Text(v)
      /\ v # Empty => MarshalContent(<<"secret", v>>) = <<"object", "secret", v>>
  BY DEF MarshalContent, Text
<1>. QED
  BY <1>3, <1>4, <1>5, <1>6

LEMMA OneContent ==
  ASSUME NEW items, NEW data, One(items, data), NEW contentType
  PROVE  /\ One(EachContent(items, contentType), unmarshalAttributeContent(data, contentType))
         /\ EachContent(items, contentType) # <<>>
         /\ Len(EachContent(items, contentType)) = 1
<1>. DEFINE c == EachContent(items, contentType)
<1>1. DOMAIN c = 1 .. 1 /\ c[1] = unmarshalAttributeContent(data, contentType)
  BY DEF EachContent, One
<1>2. c \in Seq({c[1]})
  <2>1. c = [i \in 1 .. 1 |-> c[1]]
    BY DEF EachContent, One
  <2>. HIDE DEF c
  <2>. QED
    BY <1>1, <2>1
<1>. HIDE DEF c
<1>3. Len(c) = 1 /\ c # <<>>
  BY <1>1, <1>2
<1>. QED
  BY <1>1, <1>3 DEF One, c

-----------------------------------------------------------------------------
(* The columns an authority is stored with.                                *)

Firsts(name, list) ==
  {list[i].items[1] : i \in {j \in DOMAIN list : list[j].name = name}}

LEMMA FirstsOnce ==
  ASSUME NEW style, NEW list, OfForm(style, list), NEW name
  PROVE  /\ ~Has(name, list) => Firsts(name, list) = {}
         /\ \A i \in DOMAIN list : list[i].name = name => Firsts(name, list) = {list[i].items[1]}
<1>1. ~Has(name, list) => Firsts(name, list) = {}
  BY DEF Has, Firsts
<1>2. ASSUME NEW i \in DOMAIN list, list[i].name = name
      PROVE  Firsts(name, list) = {list[i].items[1]}
  <2>1. {j \in DOMAIN list : list[j].name = name} = {i}
    BY <1>2 DEF OfForm
  <2>. QED
    BY <2>1 DEF Firsts
<1>. QED
  BY <1>1, <1>2

\* What a column of a free field holds, for a text and for a secret.
TextRead(v, style, name, list) ==
  \/ v = Panic /\ style = "foreign"
  \/ v = Empty /\ Firsts(name, list) = {}
  \/ v = name /\ Firsts(name, list) = {Text(name)}

SecretRead(v, style, name, list) ==
  \/ v = Panic /\ style = "foreign"
  \/ v = Empty /\ ~Has(name, list) /\ Firsts(name, list) = {}
  \/ /\ v = name
     /\ \/ Firsts(name, list) = {Text(name)}
        \/ Firsts(name, list) = {<<"object", "secret", name>>}

LEMMA OptionalText ==
  ASSUME NEW style, NEW list, OfForm(style, list), NEW name \in AllFields,
         Catalogued(name, "string", FALSE, FALSE)
  PROVE  TextRead(optionalStringAttribute(name, UnmarshalAttributesValues(list)),
                  style, name, list)
<1>. DEFINE v == optionalStringAttribute(name, UnmarshalAttributesValues(list))
            a == Got(name, list)
<1>1. v = IF a = Fault THEN Panic ELSE IF a = Nil THEN Empty
          ELSE IF a.content = <<>> THEN Empty
          ELSE IF a.content[1][1] = "string" THEN a.content[1][2] ELSE Empty
  BY DEF optionalStringAttribute, OptionalContent, Got
<1>2. Nil # Fault
  BY DEF Nil, Fault
<1>. HIDE DEF v, a
<1>3. CASE a = Nil /\ ~Has(name, list)
  BY <1>1, <1>2, <1>3, FirstsOnce DEF v, TextRead
<1>4. CASE a = Fault /\ style = "foreign"
  BY <1>1, <1>4 DEF v, TextRead
<1>5. CASE \E i \in DOMAIN list :
             /\ list[i].name = name
             /\ list[i].items \in ItemsIn(style, name)
             /\ a \notin {Nil, Fault}
             /\ a.content = ContentOf(list[i])
  <2>1. PICK i \in DOMAIN list :
             /\ list[i].name = name
             /\ list[i].items \in ItemsIn(style, name)
             /\ a \notin {Nil, Fault}
             /\ a.content = ContentOf(list[i])
    BY <1>5
  <2>2. One(list[i].items, Text(name))
    BY <2>1, TextItems
  <2>3. a.content = EachContent(list[i].items, "string")
    BY <2>1 DEF ContentOf, Catalogued
  <2>4. One(a.content, Text(name)) /\ a.content # <<>>
    BY <2>2, <2>3, OneContent, Conversions
  <2>5. v = name
    BY <1>1, <2>1, <2>4 DEF One, Text
  <2>6. Firsts(name, list) = {Text(name)}
    BY <2>1, <2>2, FirstsOnce DEF One
  <2>. QED
    BY <2>5, <2>6 DEF v, TextRead
<1>. QED
  BY <1>3, <1>4, <1>5, GotField DEF a

LEMMA SecretText ==
  ASSUME NEW style, NEW list, OfForm(style, list), NEW name \in AllFields,
         Catalogued(name, "secret", TRUE, FALSE)
  PROVE  SecretRead(secretAttributeValue(name, UnmarshalAttributesValues(list)),
                    style, name, list)
<1>. DEFINE v == secretAttributeValue(name, UnmarshalAttributesValues(list))
            a == Got(name, list)
<1>1. v = IF a = Fault THEN Panic ELSE IF a = Nil THEN Empty
          ELSE IF a.content = <<>> THEN Empty
          ELSE IF a.content[1][1] = "secret" THEN a.content[1][2] ELSE Empty
  BY DEF secretAttributeValue, OptionalContent, Got
<1>2. Nil # Fault
  BY DEF Nil, Fault
<1>. HIDE DEF v, a
<1>3. CASE a = Nil /\ ~Has(name, list)
  BY <1>1, <1>2, <1>3, FirstsOnce DEF v, SecretRead
<1>4. CASE a = Fault /\ style = "foreign"
  BY <1>1, <1>4 DEF v, SecretRead
<1>5. CASE \E i \in DOMAIN list :
             /\ list[i].name = name
             /\ list[i].items \in ItemsIn(style, name)
             /\ a \notin {Nil, Fault}
             /\ a.content = ContentOf(list[i])
  <2>1. PICK i \in DOMAIN list :
             /\ list[i].name = name
             /\ list[i].items \in ItemsIn(style, name)
             /\ a \notin {Nil, Fault}
             /\ a.content = ContentOf(list[i])
    BY <1>5
  <2>2. One(list[i].items, Text(name)) \/ One(list[i].items, <<"object", "secret", name>>)
    BY <2>1, SecretItems
  <2>3. a.content = EachContent(list[i].items, "secret")
    BY <2>1 DEF ContentOf, Catalogued
  <2>4. One(a.content, <<"secret", name>>) /\ a.content # <<>>
    BY <2>2, <2>3, OneContent, Conversions
  <2>5. v = name
    BY <1>1, <2>1, <2>4 DEF One
  <2>6. \/ Firsts(name, list) = {Text(name)}
        \/ Firsts(name, list) = {<<"object", "secret", name>>}
    BY <2>1, <2>2, FirstsOnce DEF One
  <2>. QED
    BY <2>5, <2>6 DEF v, SecretRead
<1>. QED
  BY <1>3, <1>4, <1>5, GotField DEF a

\* A required string: the url, and the type that was chosen.
LEMMA RequiredText ==
  ASSUME NEW style, NEW list, OfForm(style, list), NEW name \in AllFields,
         NEW list1 \in BOOLEAN, Catalogued(name, "string", TRUE, list1), Has(name, list), NEW text,
         \A items \in ItemsIn(style, name) : One(items, Text(text))
  PROVE  LET v == RequiredString(name, UnmarshalAttributesValues(list)) IN
         /\ Firsts(name, list) = {Text(text)}
         /\ v = text \/ (v = Panic /\ style = "foreign")
<1>. DEFINE v == RequiredString(name, UnmarshalAttributesValues(list))
            a == Got(name, list)
            c == IF a \in {Nil, Fault} THEN NoContent
                 ELSE IF a.content = <<>> THEN NoContent ELSE a.content[1]
<1>1. v = IF c[1] = "string" THEN c[2] ELSE Panic
  BY DEF RequiredString, FirstContent, Got
<1>2. Firsts(name, list) = {Text(text)}
  <2>1. PICK i \in DOMAIN list : list[i].name = name
    BY DEF Has
  <2>2. name # "custom"
    BY DEF AllFields, AuthorityFields, CertificateFields, DiscoveryFields
  <2>3. list[i].items \in ItemsIn(style, name)
    BY <2>1, <2>2 DEF OfForm
  <2>. QED
    BY <2>1, <2>3, FirstsOnce DEF One
<1>3. NoContent[1] # "string"
  BY DEF NoContent
<1>. HIDE DEF v, a
<1>4. CASE a = Fault /\ style = "foreign"
  BY <1>1, <1>2, <1>3, <1>4 DEF v
<1>5. CASE \E i \in DOMAIN list :
             /\ list[i].name = name
             /\ list[i].items \in ItemsIn(style, name)
             /\ a \notin {Nil, Fault}
             /\ a.content = ContentOf(list[i])
  <2>1. PICK i \in DOMAIN list :
             /\ list[i].name = name
             /\ list[i].items \in ItemsIn(style, name)
             /\ a \notin {Nil, Fault}
             /\ a.content = ContentOf(list[i])
    BY <1>5
  <2>2. a.content = EachContent(list[i].items, "string")
    BY <2>1 DEF ContentOf, Catalogued
  <2>3. One(a.content, Text(text)) /\ a.content # <<>>
    BY <2>1, <2>2, OneContent, Conversions
  <2>. QED
    BY <1>1, <1>2, <2>1, <2>3 DEF One, Text, v
<1>. QED
  BY <1>4, <1>5, GotField DEF a

-----------------------------------------------------------------------------
(* The invariant.                                                          *)

\* What the open form offers: what the lists gave, and once something was
\* chosen that alone, with what its callback gave.
AuthorityForm ==
  LET o == form.offered IN
  \/ /\ form.chosen = <<>>
     /\ DOMAIN o = {"authority_url", "credentials_type"}
     /\ o["credentials_type"] \subseteq {Text(t) : t \in CredentialTypes}
  \/ \E t \in CredentialTypes :
       /\ form.chosen = Text(t)
       /\ DOMAIN o = {"authority_url", "credentials_type"} \cup CredentialAttributesCallback(t)
       /\ o["credentials_type"] = {Text(t)}

CertificateForm ==
  LET o == form.offered IN
  \/ /\ form.chosen = <<>>
     /\ DOMAIN o = {"ra_profile_engine", "ra_profile_authority"}
     /\ o["ra_profile_engine"] \subseteq {EngineObject(e) : e \in Engines}
  \/ \E e \in Engines :
       /\ form.chosen = EngineObject(e)
       /\ DOMAIN o = CertificateFields
       /\ o["ra_profile_engine"] = {EngineObject(e)}
       /\ o["ra_profile_role"] \subseteq {Text(r) : r \in Roles}
       /\ o["ra_profile_role"] # {} => isValidVaultMountPath(e)

DiscoveryForm ==
  LET o == form.offered IN
  \/ /\ form.chosen = <<>>
     /\ DOMAIN o = {"authority_to_discover"}
     /\ o["authority_to_discover"] \subseteq {UuidObject(n) : n \in Names}
  \/ \E n \in Names :
       /\ form.chosen = UuidObject(n)
       /\ DOMAIN o = DiscoveryFields
       /\ o["authority_to_discover"] = {UuidObject(n)}
       /\ o["pki_engines_to_discover"] \subseteq {EngineObject(e) : e \in Engines}

FormInv ==
  /\ DOMAIN form = {"goal", "subject", "offered", "chosen"}
  /\ form.goal = "authority" => AuthorityForm
  /\ form.goal = "certificate" => CertificateForm
  /\ form.goal = "discovery" => DiscoveryForm

\* The row an answer is about.
ResultInv ==
  /\ DOMAIN table = Names
  /\ answer.status = "200" /\ answer.form.goal = "authority" => answer.result \in Names

ExchangeInv == TypeOK /\ FormInv /\ ResultInv /\ OfferedIsAccepted /\ StoredIsAnswered

-----------------------------------------------------------------------------
(* An authority is stored as its form was filled in.                       *)

KeptIn(column, name, list) ==
  IF Firsts(name, list) = {} THEN column = Empty ELSE Firsts(name, list) = {Text(column)}

KeptSecretIn(column, name, list) ==
  IF Firsts(name, list) = {} THEN column = Empty
  ELSE \A data \in Firsts(name, list) : Value(data) = column

RowAsSent(row, list) ==
  /\ KeptIn(row.url, "authority_url", list) /\ KeptIn(row.type, "credentials_type", list)
  /\ KeptIn(row.mountPath, "mount_path", list) /\ KeptIn(row.vaultRole, "vault_role", list)
  /\ KeptSecretIn(row.roleId, "role_id", list) /\ KeptSecretIn(row.roleSecret, "role_secret", list)

LEMMA KeptTexts ==
  ASSUME NEW v, NEW name, NEW list
  PROVE  /\ v = Empty /\ Firsts(name, list) = {} => KeptIn(v, name, list)
         /\ v = name /\ Firsts(name, list) = {Text(name)} => KeptIn(v, name, list)
         /\ v = Empty /\ Firsts(name, list) = {} => KeptSecretIn(v, name, list)
         /\ v = name /\ (\/ Firsts(name, list) = {Text(name)}
                         \/ Firsts(name, list) = {<<"object", "secret", name>>})
            => KeptSecretIn(v, name, list)
<1>1. Value(Text(name)) = name /\ Value(<<"object", "secret", name>>) = name
  BY DEF Value, Text
<1>2. /\ v = Empty /\ Firsts(name, list) = {} => KeptIn(v, name, list)
      /\ v = name /\ Firsts(name, list) = {Text(name)} => KeptIn(v, name, list)
      /\ v = Empty /\ Firsts(name, list) = {} => KeptSecretIn(v, name, list)
  BY DEF KeptIn, KeptSecretIn
<1>3. ASSUME v = name, NEW data, Firsts(name, list) = {data}, Value(data) = name
      PROVE  KeptSecretIn(v, name, list)
  BY <1>3 DEF KeptSecretIn
<1>. QED
  BY <1>1, <1>2, <1>3

\* The type is the one that was chosen; no column is lost or mistaken, unless
\* the request ends in a panic, which takes an attribute of the platform.
RowRead(row, style, list) ==
  /\ Panics(row) => style = "foreign"
  /\ ~Panics(row) =>
       /\ RowAsSent(row, list)
       /\ form.chosen = Text(row.type) /\ row.type \in CredentialTypes
       /\ row.type = APPROLE_CRED => Empty \notin {row.roleId, row.roleSecret}

LEMMA AuthorityRow ==
  ASSUME NEW style, NEW list, OfForm(style, list), form.goal = "authority",
         AuthorityForm, form.chosen # <<>>
  PROVE  RowRead(AuthorityColumns(UnmarshalAttributesValues(list)), style, list)
<1>. DEFINE attributes == UnmarshalAttributesValues(list)
            row == AuthorityColumns(attributes)
<1>1. PICK t \in CredentialTypes :
        /\ form.chosen = Text(t)
        /\ DOMAIN form.offered =
             {"authority_url", "credentials_type"} \cup CredentialAttributesCallback(t)
        /\ form.offered["credentials_type"] = {Text(t)}
  BY DEF AuthorityForm
<1>2. /\ {"authority_url", "credentials_type", "role_id", "role_secret",
          "vault_role", "mount_path"} \subseteq AllFields
      /\ APPROLE_CRED # JWTOIDC_CRED /\ APPROLE_CRED # KUBERNETES_CRED
  BY DEF AllFields, AuthorityFields, APPROLE_CRED, JWTOIDC_CRED, KUBERNETES_CRED
<1>3. Has("authority_url", list) /\ Has("credentials_type", list)
  BY <1>1, AuthorityCatalogue DEF OfForm, Catalogued, Has
<1>. DEFINE type == RequiredString("credentials_type", attributes)
            url  == RequiredString("authority_url", attributes)
            path == optionalStringAttribute("mount_path", attributes)
            role == optionalStringAttribute("vault_role", attributes)
            id   == secretAttributeValue("role_id", attributes)
            secret == secretAttributeValue("role_secret", attributes)
<1>4. /\ row.url = url /\ row.type = type /\ row.mountPath = path
      /\ row.roleId = IF type = APPROLE_CRED THEN id ELSE Empty
      /\ row.roleSecret = IF type = APPROLE_CRED THEN secret ELSE Empty
      /\ row.vaultRole = IF type \in {JWTOIDC_CRED, KUBERNETES_CRED} THEN role ELSE Empty
  BY DEF AuthorityColumns
<1>5. /\ Firsts("authority_url", list) = {Text("authority_url")}
      /\ url = "authority_url" \/ (url = Panic /\ style = "foreign")
  <2>1. \A items \in ItemsIn(style, "authority_url") : One(items, Text("authority_url"))
    BY AuthorityCatalogue, TextItems
  <2>. QED
    BY <1>2, <1>3, <2>1, AuthorityCatalogue, RequiredText
<1>6. /\ Firsts("credentials_type", list) = {Text(t)}
      /\ type = t \/ (type = Panic /\ style = "foreign")
  <2>1. \A items \in ItemsIn(style, "credentials_type") : One(items, Text(t))
    <3>1. form.offered["credentials_type"] \subseteq {Text(v) : v \in {t}}
      BY <1>1
    <3>. QED
      BY <3>1, AuthorityCatalogue, ChosenText
  <2>. QED
    BY <1>2, <1>3, <2>1, AuthorityCatalogue, RequiredText
<1>7. /\ TextRead(path, style, "mount_path", list)
      /\ TextRead(role, style, "vault_role", list)
  BY <1>2, AuthorityCatalogue, OptionalText
<1>8. /\ SecretRead(id, style, "role_id", list)
      /\ SecretRead(secret, style, "role_secret", list)
  BY <1>2, AuthorityCatalogue, SecretText
<1>. HIDE DEF row, type, url, path, role, id, secret
<1>9. /\ Panic \notin {Empty, t, "authority_url", "mount_path", "vault_role", "role_id", "role_secret"}
      /\ Empty \notin {"role_id", "role_secret"}
  <2>1. {"authority_url", "mount_path", "vault_role", "role_id", "role_secret"}
           \subseteq DOMAIN AttributeList
    BY FieldsListed, <1>2
  <2>2. Empty \notin {"role_id", "role_secret"}
    BY DEF Empty
  <2>. QED
    BY <1>1, <2>1, <2>2, PanicAssumption
<1>10. Panics(row) => style = "foreign"
  BY <1>4, <1>5, <1>6, <1>7, <1>8, <1>9 DEF Panics, TextRead, SecretRead
<1>11. ASSUME ~Panics(row)
       PROVE  /\ RowAsSent(row, list)
              /\ form.chosen = Text(row.type) /\ row.type \in CredentialTypes
              /\ row.type = APPROLE_CRED => Empty \notin {row.roleId, row.roleSecret}
  <2>1. type = t /\ url = "authority_url" /\ path # Panic
    BY <1>4, <1>5, <1>6, <1>11 DEF Panics
  <2>2. /\ KeptIn(row.url, "authority_url", list) /\ KeptIn(row.mountPath, "mount_path", list)
        /\ KeptIn(row.type, "credentials_type", list)
    BY <1>4, <1>5, <1>6, <1>7, <2>1, KeptTexts DEF KeptIn, TextRead
  <2>3. CASE t = APPROLE_CRED
    <3>1. DOMAIN form.offered = {"authority_url", "credentials_type", "role_id", "role_secret", "mount_path"}
      BY <1>1, <2>3 DEF CredentialAttributesCallback
    <3>2. Has("role_id", list) /\ Has("role_secret", list)
      BY <3>1, AuthorityCatalogue DEF OfForm, Catalogued, Has
    <3>3. ~Has("vault_role", list)
      BY <3>1 DEF OfForm, Has
    <3>4. Firsts("vault_role", list) = {} /\ row.vaultRole = Empty
      BY <1>2, <1>4, <2>1, <2>3, <3>3, FirstsOnce
    <3>5. row.roleId = id /\ row.roleSecret = secret
      BY <1>4, <2>1, <2>3
    <3>6. id # Panic /\ secret # Panic
      BY <1>11, <3>5 DEF Panics
    <3>7. id = "role_id" /\ secret = "role_secret"
      BY <1>8, <3>2, <3>6 DEF SecretRead
    <3>8. KeptSecretIn(row.roleId, "role_id", list) /\ KeptSecretIn(row.roleSecret, "role_secret", list)
      BY <1>8, <3>2, <3>5, <3>6, KeptTexts DEF SecretRead
    <3>9. KeptIn(row.vaultRole, "vault_role", list)
      BY <3>4, KeptTexts
    <3>. QED
      BY <1>1, <1>4, <1>9, <2>1, <2>2, <3>5, <3>7, <3>8, <3>9 DEF RowAsSent
  <2>4. CASE t # APPROLE_CRED
    <3>1. DOMAIN form.offered = {"authority_url", "credentials_type", "vault_role", "mount_path"}
      BY <1>1, <2>4 DEF CredentialAttributesCallback, CredentialTypes
    <3>2. ~Has("role_id", list) /\ ~Has("role_secret", list)
      BY <3>1 DEF OfForm, Has
    <3>3. /\ Firsts("role_id", list) = {} /\ Firsts("role_secret", list) = {}
          /\ row.roleId = Empty /\ row.roleSecret = Empty
      BY <1>4, <2>1, <2>4, <3>2, FirstsOnce
    <3>4. row.vaultRole = role /\ role # Panic
      BY <1>1, <1>4, <1>11, <2>1, <2>4 DEF CredentialTypes, Panics
    <3>5. /\ KeptSecretIn(row.roleId, "role_id", list) /\ KeptSecretIn(row.roleSecret, "role_secret", list)
          /\ KeptIn(row.vaultRole, "vault_role", list)
      BY <1>7, <3>3, <3>4, KeptTexts DEF TextRead
    <3>. QED
      BY <1>1, <1>4, <2>1, <2>2, <2>4, <3>5 DEF RowAsSent
  <2>. QED
    BY <2>3, <2>4
<1>. QED
  BY <1>10, <1>11 DEF row, RowRead

\* What is written for an attribute is read back with the name and the value
\* that were sent.
BackAsSent(back, list, i) ==
  /\ back[i].name = list[i].name
  /\ Value(back[i].content[1]) = Value(list[i].items[1])

LEMMA ReadBack ==
  ASSUME NEW style, NEW list, OfForm(style, list), form.goal = "authority",
         AuthorityForm, form.chosen # <<>>,
         NEW i \in DOMAIN list, list[i].name \in DOMAIN AttributeList
  PROVE  BackAsSent(UnmarshalAttributes(MarshalAttributes(UnmarshalAttributesValues(list))),
                    list, i)
<1>. DEFINE name    == list[i].name
            type    == GetAttributeByName(name).contentType
            a       == unmarshalAttributeValue(list[i])
            written == [j \in DOMAIN a.content |-> MarshalContent(a.content[j])]
            stored  == Attribute(a.name, a, written, a.constrained)
            read    == unmarshalAttribute(stored)
            back    == UnmarshalAttributes(MarshalAttributes(UnmarshalAttributesValues(list)))
<1>1. name \in DOMAIN form.offered \cap AuthorityFields /\ list[i].items \in ItemsIn(style, name)
  <2>1. "custom" \notin DOMAIN AttributeList
    BY CustomUnlisted
  <2>2. name \in DOMAIN form.offered /\ list[i].items \in ItemsIn(style, name)
    BY <2>1 DEF OfForm
  <2>3. DOMAIN form.offered \subseteq AuthorityFields
    BY DEF AuthorityForm, AuthorityFields, CredentialAttributesCallback
  <2>. QED
    BY <2>2, <2>3
<1>2. /\ a.type = "data" /\ a.name = name /\ a.contentType = type /\ a # Nil
      /\ a.content = EachContent(list[i].items, type)
  BY <1>1, FieldUnmarshalled, Tags DEF AllFields, ContentOf
<1>3. back[i] = read
  <2>1. UnmarshalAttributesValues(list)[i] = a /\ i \in DOMAIN UnmarshalAttributesValues(list)
    BY DEF UnmarshalAttributesValues
  <2>. DEFINE values == UnmarshalAttributesValues(list)
  <2>. HIDE DEF values, a
  <2>2. MarshalAttributes(values)[i] = stored /\ i \in DOMAIN MarshalAttributes(values)
    BY <1>2, <2>1 DEF MarshalAttributes, values
  <2>. HIDE DEF stored
  <2>3. UnmarshalAttributes(MarshalAttributes(values))[i] = read
    BY <2>2 DEF UnmarshalAttributes
  <2>. QED
    BY <2>3 DEF values
<1>. HIDE DEF a, back
<1>4. stored.type = "data" /\ stored.name = name /\ stored.contentType = type /\ stored.content = written
  BY <1>2 DEF Attribute
<1>5. read.name = name /\ read.content = EachContent(written, type)
  <2>. HIDE DEF stored, written, type
  <2>. QED
    BY <1>4 DEF unmarshalAttribute, Attribute
<1>6. ASSUME NEW data, One(list[i].items, data), NEW again,
             MarshalContent(unmarshalAttributeContent(data, type)) = again
      PROVE  One(read.content, unmarshalAttributeContent(again, type))
  <2>1. One(a.content, unmarshalAttributeContent(data, type))
    BY <1>2, <1>6, OneContent
  <2>2. One(written, again)
    BY <1>6, <2>1 DEF One
  <2>. HIDE DEF written, type, read
  <2>. QED
    BY <1>5, <2>2, OneContent
<1>. HIDE DEF read, written, stored
<1>7. \A v : Value(Text(v)) = v /\ Value(<<"secret", v>>) = v /\ Value(<<"object", "secret", v>>) = v
  BY DEF Value, Text
<1>8. ASSUME NEW v, type = "string", One(list[i].items, Text(v))
      PROVE  One(read.content, Text(v))
  BY <1>6, <1>8, Conversions
<1>9. ASSUME type = "secret", NEW data \in {Text(name), <<"object", "secret", name>>},
             One(list[i].items, data), name # Empty
      PROVE  One(read.content, <<"secret", name>>)
  <2>1. unmarshalAttributeContent(data, type) = <<"secret", name>>
    BY <1>9, Conversions
  <2>2. MarshalContent(<<"secret", name>>) = <<"object", "secret", name>>
    BY <1>9, Conversions
  <2>3. unmarshalAttributeContent(<<"object", "secret", name>>, type) = <<"secret", name>>
    BY <1>9, Conversions
  <2>. QED
    BY <1>6, <1>9, <2>1, <2>2, <2>3
<1>10. ASSUME name \in {"authority_url", "vault_role", "mount_path"}
       PROVE  Value(read.content[1]) = Value(list[i].items[1])
  <2>1. type = "string" /\ One(list[i].items, Text(name))
    BY <1>1, <1>10, AuthorityCatalogue, TextItems DEF Catalogued
  <2>. QED
    BY <1>7, <1>8, <2>1 DEF One
<1>11. ASSUME name \in {"role_id", "role_secret"}
       PROVE  Value(read.content[1]) = Value(list[i].items[1])
  <2>1. /\ type = "secret" /\ name # Empty
        /\ One(list[i].items, <<"object", "secret", name>>) \/ One(list[i].items, Text(name))
    BY <1>1, <1>11, AuthorityCatalogue, SecretItems DEF Catalogued, Empty
  <2>. QED
    BY <1>7, <1>9, <2>1 DEF One
<1>12. ASSUME name = "credentials_type"
       PROVE  Value(read.content[1]) = Value(list[i].items[1])
  <2>1. form.offered["credentials_type"] \subseteq {Text(v) : v \in CredentialTypes}
    BY DEF AuthorityForm
  <2>2. PICK v \in CredentialTypes : One(list[i].items, Text(v))
    BY <1>1, <1>12, <2>1, AuthorityCatalogue, ChosenText
  <2>3. type = "string"
    BY <1>12, AuthorityCatalogue DEF Catalogued
  <2>. QED
    BY <1>7, <1>8, <2>2, <2>3 DEF One
<1>. QED
  BY <1>1, <1>3, <1>5, <1>10, <1>11, <1>12 DEF AuthorityFields, back, BackAsSent

-----------------------------------------------------------------------------
(* A profile and a discovery are read as they were selected.               *)

LEMMA SelectedItems ==
  ASSUME NEW style, NEW list, OfForm(style, list), NEW name, NEW i \in DOMAIN list,
         list[i].name = name
  PROVE  Selected(list, name) = {Value(list[i].items[j]) : j \in DOMAIN list[i].items}
<1>1. {k \in DOMAIN list : list[k].name = name} = {i}
  BY DEF OfForm
<1>. QED
  BY <1>1 DEF Selected

LEMMA SelectedOnce ==
  ASSUME NEW style, NEW list, OfForm(style, list), NEW name, NEW i \in DOMAIN list,
         list[i].name = name, NEW data, One(list[i].items, data)
  PROVE  Selected(list, name) = {Value(data)}
<1>1. Selected(list, name) = {Value(list[i].items[j]) : j \in DOMAIN list[i].items}
  BY SelectedItems
<1>. QED
  BY <1>1 DEF One

LEMMA Values ==
  ASSUME NEW v
  PROVE  /\ Value(Text(v)) = v
         /\ \A key : Value(<<"object", key, v>>) = v
         /\ \A key : ObjectKey(<<"object", key, v>>, key) = v
         /\ \A key : ObjectKey(<<"object", "objectData", v>>, key) = IF key = "objectData" THEN v ELSE Panic
  BY DEF Value, Text, ObjectKey

EngineRead(v, style, list) ==
  \/ v = Panic /\ style = "foreign"
  \/ v = Invalid /\ style = "strings"
  \/ v \in Engines /\ Selected(list, "ra_profile_engine") = {v}

RoleRead(v, style, list) ==
  \/ v = Panic /\ style = "foreign"
  \/ /\ v = Invalid
     /\ \E i \in DOMAIN list : /\ list[i].name = "ra_profile_role"
                               /\ list[i].items[1][2] \in RefusedRoles
  \/ v \in Roles /\ Selected(list, "ra_profile_role") = {v}

LEMMA ProfileRole ==
  ASSUME NEW style, NEW list, OfForm(style, list), CertificateForm, form.chosen # <<>>
  PROVE  /\ RoleRead(getRAProfileRoleName(UnmarshalAttributesValues(list)), style, list)
         /\ form.offered["ra_profile_role"] # {}
<1>. DEFINE name == "ra_profile_role"
            v == getRAProfileRoleName(UnmarshalAttributesValues(list))
            a == Got(name, list)
<1>1. /\ name \in AllFields /\ name # "custom"
      /\ name \in DOMAIN form.offered
      /\ form.offered[name] \subseteq {Text(r) : r \in Roles}
  BY DEF CertificateForm, AllFields, CertificateFields
<1>2. PICK i \in DOMAIN list : list[i].name = name
  BY <1>1, OtherCatalogue DEF OfForm, Catalogued
<1>3. list[i].items \in ItemsIn(style, name)
  BY <1>1, <1>2 DEF OfForm
<1>4. PICK r \in Roles : Text(r) \in form.offered[name] /\ One(list[i].items, Text(r))
  BY <1>1, <1>3, OtherCatalogue, ChosenText
<1>5. /\ Selected(list, name) = {r}
      /\ list[i].items[1][2] = r
  <2>1. One(list[i].items, Text(r))
    BY <1>4
  <2>2. Selected(list, name) = {Value(Text(r))}
    <3>. DEFINE data == Text(r)
    <3>1. One(list[i].items, data)
      BY <2>1
    <3>. HIDE DEF data
    <3>2. Selected(list, name) = {Value(data)}
      BY <1>2, <3>1, SelectedOnce
    <3>. QED
      BY <3>2 DEF data
  <2>3. list[i].items[1] = Text(r)
    BY <1>4 DEF One
  <2>4. Value(Text(r)) = r /\ Text(r)[2] = r
    BY Values DEF Text
  <2>. QED
    BY <2>2, <2>3, <2>4
<1>6. v = IF a = Fault THEN Panic ELSE IF a = Nil THEN Invalid
          ELSE IF Len(a.content) # 1 THEN Invalid
          ELSE IF a.content[1][1] = "string" /\ isValidVaultPathSegment(a.content[1][2])
               THEN a.content[1][2] ELSE Invalid
  BY DEF getRAProfileRoleName, Got
<1>. HIDE DEF v, a
<1>7. CASE a = Fault /\ style = "foreign"
  BY <1>4, <1>6, <1>7 DEF RoleRead, v
<1>8. CASE \E k \in DOMAIN list :
             /\ list[k].name = name
             /\ list[k].items \in ItemsIn(style, name)
             /\ a \notin {Nil, Fault}
             /\ a.content = ContentOf(list[k])
  <2>1. a \notin {Nil, Fault} /\ a.content = EachContent(list[i].items, "string")
    <3>1. PICK k \in DOMAIN list :
             /\ list[k].name = name
             /\ list[k].items \in ItemsIn(style, name)
             /\ a \notin {Nil, Fault}
             /\ a.content = ContentOf(list[k])
      BY <1>8
    <3>2. k = i
      BY <1>2, <3>1 DEF OfForm
    <3>. QED
      BY <3>1, <3>2, OtherCatalogue DEF ContentOf, Catalogued
  <2>2. One(a.content, Text(r)) /\ Len(a.content) = 1
    <3>1. unmarshalAttributeContent(Text(r), "string") = Text(r)
      BY Conversions
    <3>. QED
      BY <1>4, <2>1, <3>1, OneContent
  <2>3. a.content[1][1] = "string" /\ a.content[1][2] = r
    BY <2>2 DEF One, Text
  <2>4. v = IF isValidVaultPathSegment(r) THEN r ELSE Invalid
    BY <1>6, <2>1, <2>2, <2>3
  <2>5. RoleRead(v, style, list)
    BY <1>2, <1>5, <2>4 DEF RoleRead, isValidVaultPathSegment
  <2>. QED
    BY <1>4, <2>5 DEF v
<1>9. ~(a = Nil /\ ~Has(name, list))
  BY <1>2 DEF Has
<1>. QED
  BY <1>1, <1>7, <1>8, <1>9, GotField DEF a

LEMMA ProfileEngine ==
  ASSUME NEW style, NEW list, OfForm(style, list), CertificateForm, form.chosen # <<>>
  PROVE  EngineRead(getRAProfileEngineName(UnmarshalAttributesValues(list)), style, list)
<1>. DEFINE name == "ra_profile_engine"
            v == getRAProfileEngineName(UnmarshalAttributesValues(list))
            a == Got(name, list)
<1>1. PICK e \in Engines :
        /\ DOMAIN form.offered = CertificateFields
        /\ form.offered[name] = {EngineObject(e)}
        /\ form.offered["ra_profile_role"] # {} => isValidVaultMountPath(e)
  BY DEF CertificateForm
<1>2. isValidVaultMountPath(e)
  BY <1>1, ProfileRole
<1>3. name \in AllFields /\ name # "custom" /\ name \in DOMAIN form.offered
  BY <1>1 DEF AllFields, CertificateFields
<1>4. PICK i \in DOMAIN list : list[i].name = name
  BY <1>3, OtherCatalogue DEF OfForm, Catalogued
<1>5. list[i].items \in ItemsIn(style, name)
  BY <1>3, <1>4 DEF OfForm
<1>6. \/ One(list[i].items, EngineObject(e))
      \/ style = "strings" /\ One(list[i].items, Text(e))
  <2>1. form.offered[name] \subseteq {<<"object", "engineName", x>> : x \in {e}}
    BY <1>1 DEF EngineObject
  <2>2. Catalogued(name, "object", TRUE, TRUE)
    BY OtherCatalogue
  <2>3. ObjectChosen(style, list[i].items, "engineName", {e})
    BY <1>5, <2>1, <2>2, ChosenObject
  <2>. QED
    BY <2>3 DEF EngineObject, ObjectChosen
<1>7. Selected(list, name) = {e}
  <2>1. Value(Text(e)) = e /\ Value(EngineObject(e)) = e
    BY Values DEF EngineObject
  <2>. QED
    BY <1>4, <1>6, <2>1, SelectedOnce
<1>8. v = IF a = Fault THEN Panic ELSE IF a = Nil THEN Invalid
          ELSE IF Len(a.content) # 1 THEN Invalid
          ELSE IF /\ ObjectKey(a.content[1], "engineName") # Panic
                  /\ isValidVaultMountPath(ObjectKey(a.content[1], "engineName"))
               THEN ObjectKey(a.content[1], "engineName") ELSE Invalid
  BY DEF getRAProfileEngineName, Got
<1>. HIDE DEF v, a
<1>9. CASE a = Fault /\ style = "foreign"
  BY <1>8, <1>9 DEF EngineRead, v
<1>10. CASE \E k \in DOMAIN list :
              /\ list[k].name = name
              /\ list[k].items \in ItemsIn(style, name)
              /\ a \notin {Nil, Fault}
              /\ a.content = ContentOf(list[k])
  <2>1. a \notin {Nil, Fault} /\ a.content = EachContent(list[i].items, "object")
    <3>1. PICK k \in DOMAIN list :
             /\ list[k].name = name
             /\ list[k].items \in ItemsIn(style, name)
             /\ a \notin {Nil, Fault}
             /\ a.content = ContentOf(list[k])
      BY <1>10
    <3>2. k = i
      BY <1>4, <3>1 DEF OfForm
    <3>. QED
      BY <3>1, <3>2, OtherCatalogue DEF ContentOf, Catalogued
  <2>2. CASE One(list[i].items, EngineObject(e))
    <3>1. One(a.content, EngineObject(e)) /\ Len(a.content) = 1
      <4>1. unmarshalAttributeContent(EngineObject(e), "object") = EngineObject(e)
        BY Conversions DEF EngineObject
      <4>. QED
        BY <2>1, <2>2, <4>1, OneContent
    <3>2. ObjectKey(a.content[1], "engineName") = e
      BY <3>1, Values DEF One, EngineObject
    <3>3. v = e
      BY <1>2, <1>8, <2>1, <3>1, <3>2, PanicAssumption
    <3>. QED
      BY <1>7, <3>3 DEF EngineRead, v
  <2>3. CASE style = "strings" /\ One(list[i].items, Text(e))
    <3>1. One(a.content, <<"object", "objectData", e>>) /\ Len(a.content) = 1
      <4>1. unmarshalAttributeContent(Text(e), "object") = <<"object", "objectData", e>>
        BY Conversions
      <4>. QED
        BY <2>1, <2>3, <4>1, OneContent
    <3>2. ObjectKey(a.content[1], "engineName") = Panic
      BY <3>1, Values DEF One
    <3>3. v = Invalid
      BY <1>8, <2>1, <3>1, <3>2
    <3>. QED
      BY <2>3, <3>3 DEF EngineRead, v
  <2>. QED
    BY <1>6, <2>2, <2>3
<1>11. ~(a = Nil /\ ~Has(name, list))
  BY <1>4 DEF Has
<1>. QED
  BY <1>3, <1>9, <1>10, <1>11, GotField DEF a

UuidRead(v, style) == (v = Panic /\ style # "defined") \/ v \in Names

SearchRead(S, style, list) ==
  \/ Panic \in S /\ style # "defined"
  \/ /\ Panic \notin S
     /\ S = IF Has("pki_engines_to_discover", list)
            THEN Selected(list, "pki_engines_to_discover") ELSE engines

LEMMA DiscoveryUuid ==
  ASSUME NEW style, NEW list, OfForm(style, list), DiscoveryForm, form.chosen # <<>>
  PROVE  UuidRead(ObjectKey(FirstContent("authority_to_discover",
                                         UnmarshalAttributesValues(list)), "uuid"), style)
<1>. DEFINE name == "authority_to_discover"
            c == FirstContent(name, UnmarshalAttributesValues(list))
            a == Got(name, list)
<1>1. /\ name \in AllFields /\ name # "custom" /\ name \in DOMAIN form.offered
      /\ form.offered[name] \subseteq {<<"object", "uuid", n>> : n \in Names}
  BY DEF DiscoveryForm, UuidObject, AllFields, DiscoveryFields
<1>2. PICK i \in DOMAIN list : list[i].name = name
  BY <1>1, OtherCatalogue DEF OfForm, Catalogued
<1>3. ObjectChosen(style, list[i].items, "uuid", Names)
  <2>1. list[i].items \in ItemsIn(style, name)
    BY <1>1, <1>2 DEF OfForm
  <2>2. Catalogued(name, "object", TRUE, TRUE)
    BY OtherCatalogue
  <2>. QED
    BY <1>1, <2>1, <2>2, ChosenObject
<1>4. PICK n \in Names : \/ One(list[i].items, <<"object", "uuid", n>>)
                         \/ style = "strings" /\ One(list[i].items, Text(n))
  BY <1>3 DEF ObjectChosen
<1>5. c = IF a \in {Nil, Fault} THEN NoContent
          ELSE IF a.content = <<>> THEN NoContent ELSE a.content[1]
  BY DEF FirstContent, Got
<1>6. ObjectKey(NoContent, "uuid") = Panic
  BY DEF ObjectKey, NoContent
<1>. HIDE DEF c, a
<1>7. CASE a = Fault /\ style = "foreign"
  BY <1>5, <1>6, <1>7 DEF UuidRead, c
<1>8. CASE \E k \in DOMAIN list :
             /\ list[k].name = name
             /\ list[k].items \in ItemsIn(style, name)
             /\ a \notin {Nil, Fault}
             /\ a.content = ContentOf(list[k])
  <2>1. a \notin {Nil, Fault} /\ a.content = EachContent(list[i].items, "object")
    <3>1. PICK k \in DOMAIN list :
             /\ list[k].name = name
             /\ list[k].items \in ItemsIn(style, name)
             /\ a \notin {Nil, Fault}
             /\ a.content = ContentOf(list[k])
      BY <1>8
    <3>2. k = i
      BY <1>2, <3>1 DEF OfForm
    <3>. QED
      BY <3>1, <3>2, OtherCatalogue DEF ContentOf, Catalogued
  <2>2. CASE One(list[i].items, <<"object", "uuid", n>>)
    <3>1. unmarshalAttributeContent(<<"object", "uuid", n>>, "object") = <<"object", "uuid", n>>
      BY Conversions
    <3>2. One(a.content, <<"object", "uuid", n>>) /\ a.content # <<>>
      BY <2>1, <2>2, <3>1, OneContent
    <3>3. c = <<"object", "uuid", n>>
      BY <1>5, <2>1, <3>2 DEF One
    <3>4. ObjectKey(c, "uuid") = n
      BY <3>3, Values
    <3>. QED
      BY <3>4 DEF UuidRead, c
  <2>3. CASE style = "strings" /\ One(list[i].items, Text(n))
    <3>1. unmarshalAttributeContent(Text(n), "object") = <<"object", "objectData", n>>
      BY Conversions
    <3>2. One(a.content, <<"object", "objectData", n>>) /\ a.content # <<>>
      BY <2>1, <2>3, <3>1, OneContent
    <3>3. c = <<"object", "objectData", n>>
      BY <1>5, <2>1, <3>2 DEF One
    <3>4. ObjectKey(c, "uuid") = Panic
      BY <3>3, Values
    <3>. QED
      BY <2>3, <3>4 DEF UuidRead, c
  <2>. QED
    BY <1>4, <2>2, <2>3
<1>9. ~(a = Nil /\ ~Has(name, list))
  BY <1>2 DEF Has
<1>. QED
  BY <1>1, <1>7, <1>8, <1>9, GotField DEF a

\* An engine given as an object is one to search; as a string it is a panic.
LEMMA EachEngine ==
  ASSUME NEW data, NEW v
  PROVE  LET c == unmarshalAttributeContent(data, "object") IN
         /\ data = <<"object", "engineName", v>> =>
              ObjectKey(c, "engineName") = v /\ Value(data) = v
         /\ data = Text(v) => ObjectKey(c, "engineName") = Panic
<1>. DEFINE object == <<"object", "engineName", v>>
            other  == <<"object", "objectData", v>>
<1>1. unmarshalAttributeContent(object, "object") = object
  BY Conversions
<1>2. unmarshalAttributeContent(Text(v), "object") = other
  BY Conversions
<1>3. ObjectKey(object, "engineName") = v /\ Value(object) = v
  BY Values
<1>4. ObjectKey(other, "engineName") = Panic
  BY Values
<1>. HIDE DEF object, other
<1>5. data = object => ObjectKey(unmarshalAttributeContent(data, "object"), "engineName") = v
                       /\ Value(data) = v
  BY <1>1, <1>3
<1>6. data = Text(v) =>
        ObjectKey(unmarshalAttributeContent(data, "object"), "engineName") = Panic
  BY <1>2, <1>4
<1>. QED
  BY <1>5, <1>6 DEF object

LEMMA DiscoverySearch ==
  ASSUME NEW style, NEW list, OfForm(style, list), DiscoveryForm, form.chosen # <<>>,
         engines \subseteq Engines
  PROVE  SearchRead(DiscoveredEngines(UnmarshalAttributesValues(list)), style, list)
<1>. DEFINE name == "pki_engines_to_discover"
            S == DiscoveredEngines(UnmarshalAttributesValues(list))
            a == Got(name, list)
<1>1. /\ name \in AllFields
      /\ form.offered[name] \subseteq {<<"object", "engineName", e>> : e \in Engines}
  BY DEF DiscoveryForm, EngineObject, AllFields, DiscoveryFields
<1>2. Panic \notin Engines
  BY PanicAssumption
<1>3. S = IF a = Fault THEN {Panic} ELSE IF a = Nil THEN engines
          ELSE {ObjectKey(a.content[i], "engineName") : i \in DOMAIN a.content}
  BY DEF DiscoveredEngines, Got
<1>4. Nil # Fault
  BY DEF Nil, Fault
<1>. HIDE DEF S, a
<1>5. CASE a = Nil /\ ~Has(name, list)
  BY <1>2, <1>3, <1>4, <1>5 DEF SearchRead, S
<1>6. CASE a = Fault /\ style = "foreign"
  BY <1>3, <1>6 DEF SearchRead, S
<1>7. CASE \E k \in DOMAIN list :
             /\ list[k].name = name
             /\ list[k].items \in ItemsIn(style, name)
             /\ a \notin {Nil, Fault}
             /\ a.content = ContentOf(list[k])
  <2>1. PICK k \in DOMAIN list :
             /\ list[k].name = name
             /\ list[k].items \in ItemsIn(style, name)
             /\ a \notin {Nil, Fault}
             /\ a.content = ContentOf(list[k])
    BY <1>7
  <2>. DEFINE items == list[k].items
              key(j) == ObjectKey(unmarshalAttributeContent(items[j], "object"), "engineName")
  <2>2. ObjectsSelected(style, items, "engineName", Engines)
    <3>1. Catalogued(name, "object", FALSE, TRUE)
      BY OtherCatalogue
    <3>. QED
      BY <1>1, <2>1, <3>1, SelectedObjects
  <2>3. S = {key(j) : j \in DOMAIN items}
    <3>1. a.content = EachContent(items, "object")
      BY <2>1, OtherCatalogue DEF ContentOf, Catalogued
    <3>2. DOMAIN a.content = DOMAIN items /\ \A j \in DOMAIN items :
            ObjectKey(a.content[j], "engineName") = key(j)
      BY <3>1 DEF EachContent
    <3>. HIDE DEF items, key
    <3>. QED
      BY <1>3, <2>1, <3>2
  <2>4. Has(name, list)
    BY <2>1 DEF Has
  <2>5. Selected(list, name) = {Value(items[j]) : j \in DOMAIN items}
    BY <2>1, SelectedItems
  <2>6. \A j \in DOMAIN items :
          \/ \E v \in Engines : key(j) = v /\ Value(items[j]) = v
          \/ key(j) = Panic /\ style = "strings"
    BY <2>2, EachEngine DEF ObjectsSelected
  <2>. HIDE DEF key, items
  <2>7. CASE \E j \in DOMAIN items : key(j) = Panic /\ style = "strings"
    BY <2>3, <2>7 DEF SearchRead, S
  <2>8. CASE \A j \in DOMAIN items : key(j) \in Engines /\ Value(items[j]) = key(j)
    <3>1. S = Selected(list, name)
      BY <2>3, <2>5, <2>8
    <3>2. Panic \notin S
      BY <1>2, <2>3, <2>8
    <3>. QED
      BY <2>4, <3>1, <3>2 DEF SearchRead, S
  <2>. QED
    BY <2>6, <2>7, <2>8
<1>. QED
  BY <1>1, <1>5, <1>6, <1>7, GotField DEF a

-----------------------------------------------------------------------------
(* The invariant holds: at first, and where a form is opened or left.      *)

\* What is stored, of an answer and a table.
StoredAs(a, t) ==
  (a.status = "200" /\ a.form.goal = "authority" /\ t[a.result] # Missing) =>
    /\ RowAsSent(t[a.result], a.sent)
    /\ \A i \in DOMAIN a.sent : a.sent[i].name \in DOMAIN AttributeList =>
         BackAsSent(UnmarshalAttributes(t[a.result].attributes), a.sent, i)

LEMMA StoredMeans == StoredIsAnswered <=> StoredAs(answer, table)
  BY DEF StoredIsAnswered, StoredAs, RowAsSent, BackAsSent, Kept, KeptSecret, SentAs,
         KeptIn, KeptSecretIn, Firsts, Text

LEMMA StoredMeansNext == StoredIsAnswered' <=> StoredAs(answer', table')
  BY DEF StoredIsAnswered, StoredAs, RowAsSent, BackAsSent, Kept, KeptSecret, SentAs,
         KeptIn, KeptSecretIn, Firsts, Text

\* Without an answer there is nothing to keep.
LEMMA NothingAnswered ==
  ASSUME TypeOK, ResultInv, answer' = NoAnswer, UNCHANGED <<engines, tokenFile, table>>,
         form'.goal \in DOMAIN Fields \cup {"none"}, FormInv'
  PROVE  ExchangeInv'
<1>1. answer'.status = "none"
  BY DEF NoAnswer
<1>2. TypeOK'
  BY <1>1 DEF TypeOK
<1>3. ResultInv' /\ OfferedIsAccepted'
  BY <1>1 DEF ResultInv, OfferedIsAccepted
<1>4. StoredIsAnswered'
  BY <1>1, StoredMeansNext DEF StoredAs
<1>. QED
  BY <1>2, <1>3, <1>4 DEF ExchangeInv

LEMMA FieldGoals == {"authority", "certificate", "discovery"} = DOMAIN Fields
  BY DEF Fields

LEMMA NoFormGoal == NoForm.goal = "none" /\ DOMAIN NoForm = {"goal", "subject", "offered", "chosen"}
  BY DEF NoForm, Form

LEMMA NoFormInv ==
  ASSUME form' = NoForm
  PROVE  FormInv'
  BY NoFormGoal DEF FormInv

LEMMA ExchangeInit == Init => ExchangeInv
<1>. SUFFICES ASSUME Init PROVE ExchangeInv
  OBVIOUS
<1>1. answer.status = "none" /\ form.goal = "none"
  BY NoFormGoal DEF Init, NoAnswer
<1>2. TypeOK
  BY <1>1 DEF Init, TypeOK
<1>3. FormInv
  BY <1>1, NoFormGoal DEF Init, FormInv
<1>4. ResultInv /\ OfferedIsAccepted
  BY <1>1 DEF Init, ResultInv, OfferedIsAccepted
<1>5. StoredIsAnswered
  BY <1>1, StoredMeans DEF StoredAs
<1>. QED
  BY <1>2, <1>3, <1>4, <1>5 DEF ExchangeInv

LEMMA OpensAuthority ==
  ASSUME ExchangeInv, ListAttributeDefinitions
  PROVE  ExchangeInv'
<1>. DEFINE offered == [authority_url |-> {},
                        credentials_type |-> {<<"string", t>> : t \in OfferedTypes}]
<1>1. /\ form' = Form("authority", Nil, offered) /\ answer' = NoAnswer
      /\ UNCHANGED <<engines, tokenFile, table>>
  BY DEF ListAttributeDefinitions, Open
<1>2. /\ DOMAIN offered = {"authority_url", "credentials_type"}
      /\ offered["credentials_type"] \subseteq {Text(t) : t \in CredentialTypes}
  BY DEF OfferedTypes, CredentialTypes, Text
<1>. HIDE DEF offered
<1>3. /\ form'.goal = "authority" /\ form'.offered = offered /\ form'.chosen = <<>>
      /\ DOMAIN form' = {"goal", "subject", "offered", "chosen"}
  BY <1>1 DEF Form
<1>4. FormInv'
  BY <1>2, <1>3 DEF FormInv, AuthorityForm
<1>. QED
  BY <1>1, <1>3, <1>4, NothingAnswered, FieldGoals DEF ExchangeInv

LEMMA OpensCertificate ==
  ASSUME ExchangeInv, NEW n \in Names, ListRAProfileAttributes(n)
  PROVE  ExchangeInv'
<1>. DEFINE offered == [ra_profile_engine |-> ListPkiEngines,
                        ra_profile_authority |-> {<<"string", n>>}]
<1>1. /\ form' = Form("certificate", n, offered) /\ answer' = NoAnswer
      /\ UNCHANGED <<engines, tokenFile, table>>
  BY DEF ListRAProfileAttributes, Open
<1>2. /\ DOMAIN offered = {"ra_profile_engine", "ra_profile_authority"}
      /\ offered["ra_profile_engine"] \subseteq {EngineObject(e) : e \in Engines}
  BY DEF ExchangeInv, TypeOK, ListPkiEngines
<1>. HIDE DEF offered
<1>3. /\ form'.goal = "certificate" /\ form'.offered = offered /\ form'.chosen = <<>>
      /\ DOMAIN form' = {"goal", "subject", "offered", "chosen"}
  BY <1>1 DEF Form
<1>4. FormInv'
  BY <1>2, <1>3 DEF FormInv, CertificateForm
<1>. QED
  BY <1>1, <1>3, <1>4, NothingAnswered, FieldGoals DEF ExchangeInv

LEMMA OpensDiscovery ==
  ASSUME ExchangeInv, ListDiscoveryAttributes
  PROVE  ExchangeInv'
<1>1. PICK listed \in {{}, {n \in Names : table[n] # Missing}} :
        Open("discovery", Nil, [authority_to_discover |-> {UuidObject(n) : n \in listed}])
  BY DEF ListDiscoveryAttributes
<1>. DEFINE offered == [authority_to_discover |-> {UuidObject(n) : n \in listed}]
<1>2. /\ form' = Form("discovery", Nil, offered) /\ answer' = NoAnswer
      /\ UNCHANGED <<engines, tokenFile, table>>
  BY <1>1 DEF Open
<1>3. /\ DOMAIN offered = {"authority_to_discover"}
      /\ offered["authority_to_discover"] \subseteq {UuidObject(n) : n \in Names}
  OBVIOUS
<1>. HIDE DEF offered
<1>4. /\ form'.goal = "discovery" /\ form'.offered = offered /\ form'.chosen = <<>>
      /\ DOMAIN form' = {"goal", "subject", "offered", "chosen"}
  BY <1>2 DEF Form
<1>5. FormInv'
  BY <1>3, <1>4 DEF FormInv, DiscoveryForm
<1>. QED
  BY <1>2, <1>4, <1>5, NothingAnswered, FieldGoals DEF ExchangeInv

-----------------------------------------------------------------------------
(* The invariant holds where something is chosen, and where the vault or   *)
(* the table changes.                                                      *)

LEMMA AnswerKept ==
  ASSUME ExchangeInv, UNCHANGED <<table, answer>>, engines' \subseteq Engines,
         tokenFile' \in BOOLEAN, form'.goal = form.goal \/ form'.goal = "none", FormInv'
  PROVE  ExchangeInv'
<1>1. TypeOK'
  BY DEF ExchangeInv, TypeOK
<1>2. ResultInv' /\ OfferedIsAccepted'
  BY DEF ExchangeInv, ResultInv, OfferedIsAccepted
<1>3. StoredIsAnswered'
  BY StoredMeans, StoredMeansNext DEF ExchangeInv
<1>. QED
  BY <1>1, <1>2, <1>3 DEF ExchangeInv

\* What the form is when something was chosen.
ChosenForm(f, goal, name, data, asked, before) ==
  /\ DOMAIN f = {"goal", "subject", "offered", "chosen"}
  /\ f.goal = goal /\ f.chosen = data
  /\ DOMAIN f.offered = DOMAIN asked \cup {name} \cup before
  /\ f.offered[name] = {data}
  /\ \A x \in DOMAIN asked : f.offered[x] = asked[x]

LEMMA Chosen ==
  ASSUME NEW name, NEW data, NEW asked, Choose(name, data, asked),
         FormInv, name \notin DOMAIN asked
  PROVE  ChosenForm(form', form.goal, name, data, asked, DOMAIN form.offered)
<1>. DEFINE single  == [n \in {name} |-> {data}]
            kept    == Over(single, form.offered)
            offered == Over(asked, kept)
<1>1. /\ DOMAIN single = {name} /\ single[name] = {data}
  OBVIOUS
<1>. HIDE DEF single
<1>2. DOMAIN kept = {name} \cup DOMAIN form.offered /\ kept[name] = {data}
  BY <1>1 DEF Over
<1>. HIDE DEF kept
<1>3. /\ DOMAIN offered = DOMAIN asked \cup {name} \cup DOMAIN form.offered
      /\ offered[name] = {data} /\ \A x \in DOMAIN asked : offered[x] = asked[x]
  BY <1>2 DEF Over
<1>4. form' = [form EXCEPT !.chosen = data, !.offered = offered]
  BY DEF Choose, kept, single
<1>. HIDE DEF offered
<1>5. /\ DOMAIN form' = {"goal", "subject", "offered", "chosen"}
      /\ form'.goal = form.goal /\ form'.chosen = data /\ form'.offered = offered
  BY <1>4 DEF FormInv
<1>. QED
  BY <1>3, <1>5 DEF ChosenForm

LEMMA SomethingChosen ==
  /\ \A t : Text(t) # <<>>
  /\ \A e : EngineObject(e) # <<>>
  /\ \A n : UuidObject(n) # <<>>
<1>1. /\ \A t : Len(Text(t)) = 2
      /\ \A e : Len(EngineObject(e)) = 3
      /\ \A n : Len(UuidObject(n)) = 3
  BY DEF Text, EngineObject, UuidObject
<1>. QED
  BY <1>1

LEMMA ChoosesType ==
  ASSUME ExchangeInv, ChooseCredentialType
  PROVE  ExchangeInv'
<1>. DEFINE name == "credentials_type"
<1>1. PICK data \in form.offered[name] :
        /\ form.goal = "authority" /\ form.chosen = <<>>
        /\ Choose(name, data, Free(CredentialAttributesCallback(data[2])))
  BY DEF ChooseCredentialType, MayChoose
<1>2. /\ DOMAIN form.offered = {"authority_url", "credentials_type"}
      /\ form.offered[name] \subseteq {Text(t) : t \in CredentialTypes}
  BY <1>1, SomethingChosen DEF ExchangeInv, FormInv, AuthorityForm
<1>3. PICK t \in CredentialTypes : data = Text(t)
  BY <1>1, <1>2
<1>. DEFINE asked == Free(CredentialAttributesCallback(t))
<1>4. Choose(name, data, asked)
  BY <1>1, <1>3 DEF Text
<1>5. DOMAIN asked = CredentialAttributesCallback(t) /\ name \notin DOMAIN asked
  BY DEF Free, CredentialAttributesCallback
<1>. HIDE DEF asked
<1>6. ChosenForm(form', form.goal, name, data, asked, DOMAIN form.offered)
  BY <1>4, <1>5, Chosen DEF ExchangeInv
<1>7. /\ form'.goal = "authority" /\ form'.chosen = Text(t)
      /\ DOMAIN form' = {"goal", "subject", "offered", "chosen"}
      /\ form'.offered[name] = {Text(t)}
      /\ DOMAIN form'.offered =
           {"authority_url", "credentials_type"} \cup CredentialAttributesCallback(t)
  BY <1>1, <1>2, <1>3, <1>5, <1>6 DEF ChosenForm
<1>8. FormInv'
  <2>1. CredentialAttributesCallback(t)' = CredentialAttributesCallback(t)
    BY DEF CredentialAttributesCallback
  <2>. QED
    BY <1>7, <2>1 DEF FormInv, AuthorityForm
<1>. QED
  BY <1>1, <1>7, <1>8, AnswerKept DEF Choose, ExchangeInv, TypeOK

LEMMA ChoosesEngine ==
  ASSUME ExchangeInv, RAProfileCallback
  PROVE  ExchangeInv'
<1>. DEFINE name == "ra_profile_engine"
<1>1. PICK data \in form.offered[name] :
        /\ form.goal = "certificate" /\ form.chosen = <<>>
        /\ Choose(name, data,
                  [ra_profile_role |->
                     IF /\ isValidVaultMountPath(data[3])
                        /\ table[form.subject] # Missing
                        /\ GetClient(table[form.subject])
                        /\ data[3] \in engines
                     THEN {<<"string", r>> : r \in Roles} ELSE {}])
  BY DEF RAProfileCallback, MayChoose
<1>2. /\ DOMAIN form.offered = {"ra_profile_engine", "ra_profile_authority"}
      /\ form.offered[name] \subseteq {EngineObject(e) : e \in Engines}
  BY <1>1, SomethingChosen DEF ExchangeInv, FormInv, CertificateForm
<1>3. PICK e \in Engines : data = EngineObject(e)
  BY <1>1, <1>2
<1>4. data[3] = e
  BY <1>3 DEF EngineObject
<1>5. \E roles : /\ Choose(name, data, [ra_profile_role |-> roles])
                 /\ roles \subseteq {Text(r) : r \in Roles}
                 /\ roles # {} => isValidVaultMountPath(e)
  <2>. DEFINE roles == IF /\ isValidVaultMountPath(data[3])
                          /\ table[form.subject] # Missing
                          /\ GetClient(table[form.subject])
                          /\ data[3] \in engines
                       THEN {<<"string", r>> : r \in Roles} ELSE {}
  <2>1. Choose(name, data, [ra_profile_role |-> roles])
    BY <1>1
  <2>2. roles \subseteq {Text(r) : r \in Roles} /\ (roles # {} => isValidVaultMountPath(e))
    BY <1>4 DEF Text
  <2>. HIDE DEF roles
  <2>. QED
    BY <2>1, <2>2
<1>6. PICK roles : /\ Choose(name, data, [ra_profile_role |-> roles])
                   /\ roles \subseteq {Text(r) : r \in Roles}
                   /\ roles # {} => isValidVaultMountPath(e)
  BY <1>5
<1>. DEFINE asked == [ra_profile_role |-> roles]
<1>7. DOMAIN asked = {"ra_profile_role"} /\ asked["ra_profile_role"] = roles
  OBVIOUS
<1>. HIDE DEF asked
<1>8. ChosenForm(form', form.goal, name, data, asked, DOMAIN form.offered)
  BY <1>6, <1>7, Chosen DEF ExchangeInv, asked
<1>9. /\ form'.goal = "certificate" /\ form'.chosen = EngineObject(e)
      /\ DOMAIN form' = {"goal", "subject", "offered", "chosen"}
      /\ form'.offered[name] = {EngineObject(e)}
      /\ DOMAIN form'.offered = CertificateFields
      /\ form'.offered["ra_profile_role"] = roles
  BY <1>1, <1>2, <1>3, <1>7, <1>8 DEF ChosenForm, CertificateFields
<1>10. FormInv'
  BY <1>6, <1>9 DEF FormInv, CertificateForm
<1>. QED
  BY <1>1, <1>9, <1>10, AnswerKept DEF Choose, ExchangeInv, TypeOK

LEMMA ChoosesAuthority ==
  ASSUME ExchangeInv, PkiEnginesCallback
  PROVE  ExchangeInv'
<1>. DEFINE name == "authority_to_discover"
<1>1. PICK data \in form.offered[name] :
        /\ form.goal = "discovery" /\ form.chosen = <<>>
        /\ Choose(name, data,
                  [pki_engines_to_discover |->
                     IF table[data[3]] # Missing /\ GetClient(table[data[3]])
                     THEN ListPkiEngines ELSE {}])
  BY DEF PkiEnginesCallback, MayChoose
<1>2. /\ DOMAIN form.offered = {"authority_to_discover"}
      /\ form.offered[name] \subseteq {UuidObject(n) : n \in Names}
  BY <1>1, SomethingChosen DEF ExchangeInv, FormInv, DiscoveryForm
<1>3. PICK n \in Names : data = UuidObject(n)
  BY <1>1, <1>2
<1>4. \E found : /\ Choose(name, data, [pki_engines_to_discover |-> found])
                 /\ found \subseteq {EngineObject(e) : e \in Engines}
  <2>. DEFINE found == IF table[data[3]] # Missing /\ GetClient(table[data[3]])
                       THEN ListPkiEngines ELSE {}
  <2>1. Choose(name, data, [pki_engines_to_discover |-> found])
    BY <1>1
  <2>2. found \subseteq {EngineObject(e) : e \in Engines}
    BY DEF ListPkiEngines, ExchangeInv, TypeOK
  <2>. HIDE DEF found
  <2>. QED
    BY <2>1, <2>2
<1>5. PICK found : /\ Choose(name, data, [pki_engines_to_discover |-> found])
                   /\ found \subseteq {EngineObject(e) : e \in Engines}
  BY <1>4
<1>. DEFINE asked == [pki_engines_to_discover |-> found]
<1>6. DOMAIN asked = {"pki_engines_to_discover"} /\ asked["pki_engines_to_discover"] = found
  OBVIOUS
<1>. HIDE DEF asked
<1>7. ChosenForm(form', form.goal, name, data, asked, DOMAIN form.offered)
  BY <1>5, <1>6, Chosen DEF ExchangeInv, asked
<1>8. /\ form'.goal = "discovery" /\ form'.chosen = UuidObject(n)
      /\ DOMAIN form' = {"goal", "subject", "offered", "chosen"}
      /\ form'.offered[name] = {UuidObject(n)}
      /\ DOMAIN form'.offered = DiscoveryFields
      /\ form'.offered["pki_engines_to_discover"] = found
  BY <1>1, <1>2, <1>3, <1>6, <1>7 DEF ChosenForm, DiscoveryFields
<1>9. FormInv'
  BY <1>5, <1>8 DEF FormInv, DiscoveryForm
<1>. QED
  BY <1>1, <1>8, <1>9, AnswerKept DEF Choose, ExchangeInv, TypeOK

LEMMA VaultChanges ==
  ASSUME ExchangeInv, Remount \/ TokenFileChanges \/ GiveUp
  PROVE  ExchangeInv'
<1>1. CASE Remount \/ TokenFileChanges
  <2>1. /\ UNCHANGED <<table, form, answer>>
        /\ engines' \subseteq Engines /\ tokenFile' \in BOOLEAN
    BY <1>1 DEF Remount, TokenFileChanges, ExchangeInv, TypeOK
  <2>2. FormInv'
    BY <2>1 DEF ExchangeInv, FormInv, AuthorityForm, CertificateForm, DiscoveryForm
  <2>. QED
    BY <2>1, <2>2, AnswerKept
<1>2. CASE GiveUp
  BY <1>2, NoFormInv, NoFormGoal, AnswerKept DEF GiveUp, ExchangeInv, TypeOK
<1>. QED
  BY <1>1, <1>2

LEMMA AuthorityRemoved ==
  ASSUME ExchangeInv, RemoveAuthorityInstance
  PROVE  ExchangeInv'
<1>1. PICK n \in Names : /\ table' = [table EXCEPT ![n] = Missing]
                         /\ UNCHANGED <<engines, tokenFile, form, answer>>
  BY DEF RemoveAuthorityInstance
<1>2. DOMAIN table' = Names /\ \A m \in Names : table'[m] = table[m] \/ table'[m] = Missing
  BY <1>1 DEF ExchangeInv, ResultInv
<1>3. TypeOK'
  BY <1>1, <1>2 DEF ExchangeInv, TypeOK
<1>4. FormInv' /\ ResultInv' /\ OfferedIsAccepted'
  BY <1>1, <1>2 DEF ExchangeInv, FormInv, AuthorityForm, CertificateForm, DiscoveryForm,
                    ResultInv, OfferedIsAccepted
<1>5. StoredIsAnswered'
  BY <1>1, <1>2, StoredMeans, StoredMeansNext DEF StoredAs, ExchangeInv, ResultInv
<1>. QED
  BY <1>3, <1>4, <1>5 DEF ExchangeInv

-----------------------------------------------------------------------------
(* The invariant holds where a form is handed in.                          *)

\* The answer of a step, and the form left.
LEMMA Answers ==
  ASSUME NEW style, NEW list, NEW status, NEW result, Answered(style, list, status, result)
  PROVE  /\ answer'.form = form /\ answer'.style = style /\ answer'.sent = list
         /\ answer'.status = status /\ answer'.result = result
         /\ form'.goal = "none" /\ FormInv'
         /\ UNCHANGED <<engines, tokenFile>>
  BY NoFormInv, NoFormGoal DEF Answered

Statuses == {"none", "200", "400", "404", "500", "invalid", "panic"}

\* An answer that stores nothing leaves nothing to prove but that it is one
\* the form may have.
LEMMA NothingStored ==
  ASSUME ExchangeInv, UNCHANGED table,
         NEW style, NEW list, NEW status \in Statuses, NEW result,
         Answered(style, list, status, result),
         status = "200" => form.goal # "authority",
         OfferedIsAccepted'
  PROVE  ExchangeInv'
<1>1. /\ answer'.form = form /\ answer'.status = status /\ form'.goal = "none" /\ FormInv'
      /\ UNCHANGED <<engines, tokenFile>>
  BY Answers
<1>2. TypeOK'
  BY <1>1 DEF ExchangeInv, TypeOK, Statuses
<1>3. ResultInv'
  BY <1>1 DEF ExchangeInv, ResultInv
<1>4. StoredIsAnswered'
  BY <1>1, StoredMeansNext DEF StoredAs
<1>. QED
  BY <1>1, <1>2, <1>3, <1>4 DEF ExchangeInv

LEMMA RowColumns ==
  ASSUME NEW attributes, ~Panics(AuthorityColumns(attributes))
  PROVE  /\ AuthorityColumns(attributes).attributes = MarshalAttributes(attributes)
         /\ \A c \in DOMAIN AuthorityColumns(attributes) \ {"attributes"} :
              AuthorityColumns(attributes)[c] # Panic
<1>. DEFINE row == AuthorityColumns(attributes)
<1>1. /\ DOMAIN row = {"url", "type", "mountPath", "roleId", "roleSecret", "vaultRole", "attributes"}
      /\ row.attributes = MarshalAttributes(attributes)
  BY DEF AuthorityColumns
<1>. HIDE DEF row
<1>2. ~Panics(row)
  BY DEF row
<1>3. \A c \in DOMAIN row \ {"attributes"} : row[c] # Panic
  BY <1>1, <1>2 DEF Panics
<1>. QED
  BY <1>1, <1>3 DEF row

LEMMA AuthorityStored ==
  ASSUME ExchangeInv, NEW style \in Styles, CreateAuthorityInstance(style)
  PROVE  ExchangeInv'
<1>1. PICK list \in Filled(style), n \in Names :
        LET row == AuthorityColumns(UnmarshalAttributesValues(list)) IN
        IF Panics(row) THEN Answered(style, list, "panic", Nil) /\ UNCHANGED table
        ELSE IF ~GetClient(row)
        THEN Answered(style, list, "400", Nil) /\ UNCHANGED table
        ELSE IF table[n] # Missing
        THEN Answered(style, list, "500", Nil) /\ UNCHANGED table
        ELSE Answered(style, list, "200", n) /\ table' = [table EXCEPT ![n] = row]
  BY DEF CreateAuthorityInstance
<1>2. form.goal = "authority" /\ form.chosen # <<>> /\ AuthorityForm
  BY DEF CreateAuthorityInstance, ExchangeInv, FormInv
<1>3. OfForm(style, list)
  BY FilledOfForm
<1>. DEFINE attributes == UnmarshalAttributesValues(list)
            row == AuthorityColumns(attributes)
<1>4. RowRead(row, style, list)
  BY <1>2, <1>3, AuthorityRow
<1>5. ~Panics(row) => /\ row.attributes = MarshalAttributes(attributes)
                      /\ \A c \in DOMAIN row \ {"attributes"} : row[c] # Panic
  BY RowColumns
<1>6. \A i \in DOMAIN list : list[i].name \in DOMAIN AttributeList =>
        BackAsSent(UnmarshalAttributes(MarshalAttributes(attributes)), list, i)
  BY <1>2, <1>3, ReadBack
<1>7. \/ Panics(row) /\ Answered(style, list, "panic", Nil) /\ UNCHANGED table
      \/ ~Panics(row) /\ ~GetClient(row) /\ Answered(style, list, "400", Nil) /\ UNCHANGED table
      \/ Answered(style, list, "500", Nil) /\ UNCHANGED table
      \/ ~Panics(row) /\ Answered(style, list, "200", n) /\ table' = [table EXCEPT ![n] = row]
  BY <1>1
<1>. HIDE DEF row, attributes
<1>8. CASE Panics(row) /\ Answered(style, list, "panic", Nil) /\ UNCHANGED table
  <2>1. style # "defined"
    BY <1>4, <1>8 DEF RowRead
  <2>2. OfferedIsAccepted'
    BY <1>8, <2>1, Answers DEF OfferedIsAccepted
  <2>. QED
    BY <1>8, <2>2, NothingStored DEF Statuses
<1>9. CASE ~Panics(row) /\ ~GetClient(row) /\ Answered(style, list, "400", Nil) /\ UNCHANGED table
  <2>1. row.type # APPROLE_CRED /\ form.chosen = Text(row.type)
    <3>1. APPROLE_CRED \notin {JWTOIDC_CRED, KUBERNETES_CRED}
      BY DEF APPROLE_CRED, JWTOIDC_CRED, KUBERNETES_CRED
    <3>. QED
      BY <1>4, <1>9, <3>1 DEF RowRead, GetClient
  <2>2. form.chosen # <<"string", APPROLE_CRED>>
    BY <2>1 DEF Text
  <2>3. OfferedIsAccepted'
    BY <1>9, <2>2, Answers DEF OfferedIsAccepted
  <2>. QED
    BY <1>9, <2>3, NothingStored DEF Statuses
<1>10. CASE Answered(style, list, "500", Nil) /\ UNCHANGED table
  <2>1. OfferedIsAccepted'
    BY <1>10, Answers DEF OfferedIsAccepted
  <2>. QED
    BY <1>10, <2>1, NothingStored DEF Statuses
<1>11. CASE ~Panics(row) /\ Answered(style, list, "200", n) /\ table' = [table EXCEPT ![n] = row]
  <2>1. /\ answer'.form = form /\ answer'.sent = list /\ answer'.status = "200"
        /\ answer'.result = n /\ form'.goal = "none" /\ FormInv'
        /\ UNCHANGED <<engines, tokenFile>>
    BY <1>11, Answers
  <2>2. /\ DOMAIN table' = Names /\ table'[n] = row
        /\ \A m \in Names : m # n => table'[m] = table[m]
    BY <1>11 DEF ExchangeInv, ResultInv
  <2>3. TypeOK'
    <3>1. \A m \in Names : table'[m] # Missing =>
            /\ table'[m].type \in CredentialTypes
            /\ \A c \in DOMAIN table'[m] \ {"attributes"} : table'[m][c] # Panic
      BY <1>4, <1>5, <1>11, <2>2 DEF ExchangeInv, TypeOK, RowRead
    <3>. QED
      BY <2>1, <3>1 DEF ExchangeInv, TypeOK
  <2>4. ResultInv' /\ OfferedIsAccepted'
    BY <2>1, <2>2 DEF ResultInv, OfferedIsAccepted
  <2>5. StoredAs(answer', table')
    BY <1>4, <1>5, <1>6, <1>11, <2>1, <2>2 DEF StoredAs, RowRead
  <2>. QED
    BY <2>1, <2>3, <2>4, <2>5, StoredMeansNext DEF ExchangeInv
<1>. QED
  BY <1>7, <1>8, <1>9, <1>10, <1>11

\* What IssueCertificate and DiscoverCertificate do, and with what.
Issued(style, list, engine, role) ==
  \/ (engine = Panic \/ role = Panic) /\ Answered(style, list, "panic", Nil)
  \/ Invalid \in {engine, role} /\ Answered(style, list, "invalid", Nil)
  \/ \E status \in {"404", "500"} : Answered(style, list, status, Nil)
  \/ {engine, role} \cap {Panic, Invalid} = {} /\ Answered(style, list, "200", <<engine, role>>)

LEMMA Issues ==
  ASSUME ExchangeInv, NEW style \in Styles, IssueCertificate(style)
  PROVE  /\ form.goal = "certificate" /\ UNCHANGED table
         /\ \E list, engine, role :
              /\ EngineRead(engine, style, list) /\ RoleRead(role, style, list)
              /\ Issued(style, list, engine, role)
<1>1. /\ form.goal = "certificate" /\ form.chosen # <<>> /\ CertificateForm
      /\ UNCHANGED table
  BY DEF IssueCertificate, ExchangeInv, FormInv
<1>2. PICK list \in Filled(style) :
        LET attributes == UnmarshalAttributesValues(list)
            engine     == getRAProfileEngineName(attributes)
            role       == getRAProfileRoleName(attributes)
        IN  IF engine = Panic \/ (engine # Invalid /\ role = Panic)
            THEN Answered(style, list, "panic", Nil)
            ELSE IF Invalid \in {engine, role} THEN Answered(style, list, "invalid", Nil)
            ELSE IF table[form.subject] = Missing THEN Answered(style, list, "404", Nil)
            ELSE IF ~GetClient(table[form.subject]) THEN Answered(style, list, "500", Nil)
            ELSE Answered(style, list, "200", <<engine, role>>)
  BY DEF IssueCertificate
<1>. DEFINE engine == getRAProfileEngineName(UnmarshalAttributesValues(list))
            role   == getRAProfileRoleName(UnmarshalAttributesValues(list))
<1>3. OfForm(style, list)
  BY FilledOfForm
<1>4. EngineRead(engine, style, list)
  BY <1>1, <1>3, ProfileEngine
<1>5. RoleRead(role, style, list)
  BY <1>1, <1>3, ProfileRole
<1>6. Issued(style, list, engine, role)
  <2>1. IF engine = Panic \/ (engine # Invalid /\ role = Panic)
        THEN Answered(style, list, "panic", Nil)
        ELSE IF Invalid \in {engine, role} THEN Answered(style, list, "invalid", Nil)
        ELSE \/ \E status \in {"404", "500"} : Answered(style, list, status, Nil)
             \/ Answered(style, list, "200", <<engine, role>>)
    BY <1>2
  <2>. HIDE DEF engine, role
  <2>. QED
    BY <2>1 DEF Issued
<1>. HIDE DEF engine, role
<1>. QED
  BY <1>1, <1>4, <1>5, <1>6

LEMMA CertificateAnswered ==
  ASSUME ExchangeInv, NEW style \in Styles, IssueCertificate(style)
  PROVE  ExchangeInv'
<1>1. form.goal = "certificate" /\ UNCHANGED table
  BY Issues
<1>2. PICK list, engine, role :
        /\ EngineRead(engine, style, list) /\ RoleRead(role, style, list)
        /\ Issued(style, list, engine, role)
  BY Issues
<1>3. PICK status, result :
        /\ status \in Statuses /\ Answered(style, list, status, result)
        /\ status = "panic" => engine = Panic \/ role = Panic
        /\ status = "invalid" => Invalid \in {engine, role}
  BY <1>2 DEF Issued, Statuses
<1>4. /\ engine = Panic => style = "foreign"
      /\ engine = Invalid => style = "strings"
      /\ role = Panic => style = "foreign"
      /\ role = Invalid =>
           \E i \in DOMAIN list : /\ list[i].name = "ra_profile_role"
                                  /\ list[i].items[1][2] \in RefusedRoles
  <2>1. Panic \notin Engines \cup Roles \cup {Invalid}
    BY PanicAssumption
  <2>. QED
    BY <1>2, <2>1, InvalidAssumption DEF EngineRead, RoleRead
<1>5. OfferedIsAccepted'
  BY <1>1, <1>3, <1>4, Answers DEF OfferedIsAccepted
<1>. QED
  BY <1>1, <1>3, <1>5, NothingStored

Searched(style, list, uuid, searched) ==
  \/ (uuid = Panic \/ Panic \in searched) /\ Answered(style, list, "panic", Nil)
  \/ \E status \in {"400", "404"} : Answered(style, list, status, Nil)
  \/ Panic \notin searched /\ Answered(style, list, "200", searched)

LEMMA Searches ==
  ASSUME ExchangeInv, NEW style \in Styles, DiscoverCertificate(style)
  PROVE  /\ form.goal = "discovery" /\ UNCHANGED table
         /\ \E list, uuid, searched :
              /\ UuidRead(uuid, style) /\ SearchRead(searched, style, list)
              /\ Searched(style, list, uuid, searched)
<1>1. /\ form.goal = "discovery" /\ form.chosen # <<>> /\ DiscoveryForm
      /\ UNCHANGED table /\ engines \subseteq Engines
  BY DEF DiscoverCertificate, ExchangeInv, FormInv, TypeOK
<1>2. PICK list \in Filled(style) :
       LET attributes == UnmarshalAttributesValues(list)
           uuid       == ObjectKey(FirstContent("authority_to_discover", attributes), "uuid")
           searched   == DiscoveredEngines(attributes)
       IN  IF uuid = Panic THEN Answered(style, list, "panic", Nil)
           ELSE IF table[uuid] = Missing THEN Answered(style, list, "404", Nil)
           ELSE IF Panic \in searched THEN Answered(style, list, "panic", Nil)
           ELSE IF /\ GetAttributeFromArrayByUUID("pki_engines_to_discover", attributes) = Nil
                   /\ ~GetClient(table[uuid])
           THEN Answered(style, list, "400", Nil)
           ELSE Answered(style, list, "200", searched)
  BY DEF DiscoverCertificate
<1>. DEFINE attributes == UnmarshalAttributesValues(list)
            uuid       == ObjectKey(FirstContent("authority_to_discover", attributes), "uuid")
            searched   == DiscoveredEngines(attributes)
<1>3. OfForm(style, list)
  BY FilledOfForm
<1>4. UuidRead(uuid, style)
  BY <1>1, <1>3, DiscoveryUuid
<1>5. SearchRead(searched, style, list)
  BY <1>1, <1>3, DiscoverySearch
<1>6. Searched(style, list, uuid, searched)
  <2>1. IF uuid = Panic THEN Answered(style, list, "panic", Nil)
        ELSE \/ Answered(style, list, "404", Nil)
             \/ IF Panic \in searched THEN Answered(style, list, "panic", Nil)
                ELSE Answered(style, list, "400", Nil) \/ Answered(style, list, "200", searched)
    BY <1>2
  <2>. HIDE DEF uuid, searched
  <2>. QED
    BY <2>1 DEF Searched
<1>. HIDE DEF uuid, searched
<1>. QED
  BY <1>1, <1>4, <1>5, <1>6

LEMMA DiscoveryAnswered ==
  ASSUME ExchangeInv, NEW style \in Styles, DiscoverCertificate(style)
  PROVE  ExchangeInv'
<1>1. form.goal = "discovery" /\ UNCHANGED table
  BY Searches
<1>2. PICK list, uuid, searched :
        /\ UuidRead(uuid, style) /\ SearchRead(searched, style, list)
        /\ Searched(style, list, uuid, searched)
  BY Searches
<1>3. PICK status, result :
        /\ status \in Statuses /\ Answered(style, list, status, result)
        /\ status = "panic" => uuid = Panic \/ Panic \in searched
        /\ status # "invalid"
  BY <1>2 DEF Searched, Statuses
<1>4. status = "panic" => style # "defined"
  BY <1>2, <1>3, PanicAssumption DEF UuidRead, SearchRead
<1>5. OfferedIsAccepted'
  BY <1>1, <1>3, <1>4, Answers DEF OfferedIsAccepted
<1>. QED
  BY <1>1, <1>3, <1>5, NothingStored

-----------------------------------------------------------------------------
(* The theorems.                                                           *)

\* The invariant is inductive: every list opens a form the catalogue knows,
\* every callback adds to it what the service can read, and every service
\* answers from what the form holds.
THEOREM ExchangeInductive == Spec => []ExchangeInv
<1>1. Init => ExchangeInv
  BY ExchangeInit
<1>2. ASSUME ExchangeInv, [Next]_vars
      PROVE  ExchangeInv'
  <2>1. CASE UNCHANGED vars
    <3>1. FormInv'
      BY <1>2, <2>1 DEF vars, ExchangeInv, FormInv, AuthorityForm, CertificateForm,
                        DiscoveryForm, CredentialAttributesCallback
    <3>. QED
      BY <1>2, <2>1, <3>1, AnswerKept DEF vars, ExchangeInv, TypeOK
  <2>2. ASSUME Lists
        PROVE  ExchangeInv'
    BY <1>2, <2>2, OpensAuthority, OpensCertificate, OpensDiscovery DEF Lists
  <2>3. ASSUME Callbacks
        PROVE  ExchangeInv'
    BY <1>2, <2>3, ChoosesType, ChoosesEngine, ChoosesAuthority DEF Callbacks
  <2>4. ASSUME Submits
        PROVE  ExchangeInv'
    BY <1>2, <2>4, AuthorityStored, CertificateAnswered, DiscoveryAnswered DEF Submits
  <2>5. ASSUME Environment
        PROVE  ExchangeInv'
    BY <1>2, <2>5, VaultChanges, AuthorityRemoved DEF Environment
  <2>. QED
    BY <1>2, <2>1, <2>2, <2>3, <2>4, <2>5 DEF Next
<1>. QED
  BY <1>1, <1>2, PTL DEF Spec

\* No row of authority_instances holds what a panic left behind, and a form is
\* answered once, with an answer its handler gives.
THEOREM ExchangeTypes == Spec => []TypeOK
<1>1. ExchangeInv => TypeOK
  BY DEF ExchangeInv
<1>. QED
  BY <1>1, ExchangeInductive, PTL

\* A form of the connector that is filled in as its definitions say panics no
\* handler and is no invalid profile but for a role that is no path segment;
\* an approle form has every credential the login needs.
THEOREM OfferedAccepted == Spec => []OfferedIsAccepted
<1>1. ExchangeInv => OfferedIsAccepted
  BY DEF ExchangeInv
<1>. QED
  BY <1>1, ExchangeInductive, PTL

\* An authority is stored with what was typed, in its columns and in the
\* attributes that are read back, however the interface sent it.
THEOREM StoredAnswered == Spec => []StoredIsAnswered
<1>1. ExchangeInv => StoredIsAnswered
  BY DEF ExchangeInv
<1>. QED
  BY <1>1, ExchangeInductive, PTL

LEMMA CertificateSelection ==
  ASSUME ExchangeInv, NEW style \in Styles, IssueCertificate(style), answer'.status = "200"
  PROVE  /\ form.goal = "certificate"
         /\ Selected(answer'.sent, "ra_profile_engine") = {answer'.result[1]}
         /\ Selected(answer'.sent, "ra_profile_role") = {answer'.result[2]}
<1>1. PICK list, engine, role :
        /\ EngineRead(engine, style, list) /\ RoleRead(role, style, list)
        /\ Issued(style, list, engine, role)
  BY Issues
<1>2. \A status, result : Answered(style, list, status, result) =>
        answer'.sent = list /\ answer'.status = status /\ answer'.result = result
  BY Answers
<1>3. /\ answer'.sent = list /\ answer'.result = <<engine, role>>
      /\ {engine, role} \cap {Panic, Invalid} = {}
  BY <1>1, <1>2 DEF Issued
<1>4. answer'.result[1] = engine /\ answer'.result[2] = role
  BY <1>3
<1>5. Selected(list, "ra_profile_engine") = {engine}
  BY <1>1, <1>3 DEF EngineRead
<1>6. Selected(list, "ra_profile_role") = {role}
  BY <1>1, <1>3 DEF RoleRead
<1>. QED
  BY <1>3, <1>4, <1>5, <1>6, Issues

LEMMA DiscoverySelection ==
  ASSUME ExchangeInv, NEW style \in Styles, DiscoverCertificate(style), answer'.status = "200"
  PROVE  /\ form.goal = "discovery"
         /\ answer'.result = IF Has("pki_engines_to_discover", answer'.sent)
                             THEN Selected(answer'.sent, "pki_engines_to_discover")
                             ELSE engines
<1>1. PICK list, uuid, searched :
        /\ UuidRead(uuid, style) /\ SearchRead(searched, style, list)
        /\ Searched(style, list, uuid, searched)
  BY Searches
<1>2. \A status, result : Answered(style, list, status, result) =>
        answer'.sent = list /\ answer'.status = status /\ answer'.result = result
  BY Answers
<1>3. answer'.sent = list /\ answer'.result = searched /\ Panic \notin searched
  BY <1>1, <1>2 DEF Searched
<1>4. searched = IF Has("pki_engines_to_discover", list)
                 THEN Selected(list, "pki_engines_to_discover") ELSE engines
  BY <1>1, <1>3 DEF SearchRead
<1>. QED
  BY <1>3, <1>4, Searches

\* A certificate is asked of the engine and the role selected, a discovery
\* searches the engines selected, or all when that attribute was left out,
\* whatever was mounted or removed since the form was filled in.
THEOREM SelectionUsed == Spec => SelectionIsUsed
<1>. DEFINE Used ==
       (answer.status # "200" /\ answer'.status = "200") =>
         LET list == answer'.sent
             Has1(name) == \E i \in DOMAIN list : list[i].name = name IN
         CASE form.goal = "certificate" ->
                /\ Selected(list, "ra_profile_engine") = {answer'.result[1]}
                /\ Selected(list, "ra_profile_role") = {answer'.result[2]}
           [] form.goal = "discovery" ->
                answer'.result = IF Has1("pki_engines_to_discover")
                                 THEN Selected(list, "pki_engines_to_discover") ELSE engines
           [] OTHER -> TRUE
<1>1. ASSUME ExchangeInv, [Next]_vars
      PROVE  [Used]_vars
  <2>. SUFFICES ASSUME answer.status # "200", answer'.status = "200"
                PROVE  Used
    OBVIOUS
  <2>1. Submits
    <3>1. ~(Lists /\ answer'.status = "200")
      <4>1. Lists => answer' = NoAnswer
        BY DEF Lists, ListAttributeDefinitions, ListDiscoveryAttributes,
               ListRAProfileAttributes, Open
      <4>. QED
        BY <4>1 DEF NoAnswer
    <3>2. ~(Callbacks /\ answer' # answer)
      BY DEF Callbacks, ChooseCredentialType, RAProfileCallback, PkiEnginesCallback, Choose
    <3>3. ~(Environment /\ answer' # answer)
      BY DEF Environment, Remount, TokenFileChanges, RemoveAuthorityInstance, GiveUp
    <3>. QED
      BY <1>1, <3>1, <3>2, <3>3 DEF Next, vars
  <2>2. PICK style \in Styles :
          \/ CreateAuthorityInstance(style)
          \/ IssueCertificate(style)
          \/ DiscoverCertificate(style)
    BY <2>1 DEF Submits
  <2>3. CASE CreateAuthorityInstance(style)
    <3>1. form.goal = "authority"
      BY <2>3 DEF CreateAuthorityInstance
    <3>. QED
      BY <3>1
  <2>4. CASE IssueCertificate(style)
    BY <1>1, <2>4, CertificateSelection
  <2>5. CASE DiscoverCertificate(style)
    BY <1>1, <2>5, DiscoverySelection DEF Has
  <2>. QED
    BY <2>2, <2>3, <2>4, <2>5
<1>2. SelectionIsUsed <=> [][Used]_vars
  BY DEF SelectionIsUsed
<1>. HIDE DEF Used
<1>. QED
  BY <1>1, <1>2, ExchangeInductive, PTL DEF Spec
=============================================================================
