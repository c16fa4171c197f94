--------------------------------- MODULE Build -------------------------------
(***************************************************************************)
(* From resolved resources to a configuration (internal/config: build.go,  *)
(* props.go, policies.go).  What a builder has of a resource is a record   *)
(* with the logical ID it comes from; the fields that only pass through    *)
(* (names, comments, ports, times, methods) are left out, and so are the   *)
(* features that are rejected when they are mentioned.                     *)
(***************************************************************************)
EXTENDS Templates

CONSTANTS
  HasShape(_), \* decodeProps: do properties have the shape that their type in props.go wants?
  Managed,     \* the managed policies: by type, a function of their IDs
  ToLower      \* tokens of aliases in capital letters, and the small ones

(* A small letter has no smaller one.                                      *)
ASSUME LowerAssumption == \A t \in DOMAIN ToLower : ToLower[t] \notin DOMAIN ToLower

(* The managed policies' IDs are nobody else's.                            *)
ASSUME ManagedAssumption ==
  DOMAIN Managed = PolicyTypes /\ \A t \in PolicyTypes : \A id \in DOMAIN Managed[t] : id[1][1] = "managed"

-----------------------------------------------------------------------------
(* decodeProps: a field that is absent is empty.                           *)
Empty == Map(<<>>)
Has(m, f) == f \in DOMAIN m.fields
Field(m, f) == IF Has(m, f) THEN m.fields[f] ELSE Empty
Text(m, f) == IF Has(m, f) THEN m.fields[f].text ELSE <<>>
Maps(m, f) == IF Has(m, f) THEN m.fields[f].items ELSE <<>>

(* stringList: a list, its Items, or one string.                           *)
Texts(m, f) ==
  LET v == Field(m, f)
      items == CASE v.kind = "string" -> <<v>>
                 [] v.kind = "list" -> v.items
                 [] OTHER -> Maps(v, "Items")
  IN  [i \in DOMAIN items |-> items[i].text]

-----------------------------------------------------------------------------
(* The builder.  ok says that no check has failed yet.                     *)

Builder(raw) ==
  [ok |-> TRUE, raw |-> raw, policies |-> Managed, keys |-> <<>>, keyGroups |-> <<>>, stores |-> <<>>,
   functions |-> {}, functionsByARN |-> <<>>, aliasOwner |-> <<>>, distributions |-> <<>>]

Fail(b) == [b EXCEPT !.ok = FALSE]

(* What references found: the ones that are placeholders or unknown fail.  *)
Known(texts, table) == \A i \in DOMAIN texts : ~IsUnresolved(texts[i]) /\ texts[i] \in DOMAIN table
Found(texts, table) == [i \in DOMAIN texts |-> table[texts[i]]]

StoreIsValid(r) ==
  /\ Text(r.props, "Name") # <<>>
  /\ Has(r.props, "ImportSource") => Text(Field(r.props, "ImportSource"), "SourceType") = Word("S3")
StoreOf(r) ==
  [id |-> r.id, name |-> Text(r.props, "Name"),
   source |-> IF Has(r.props, "ImportSource") THEN Text(Field(r.props, "ImportSource"), "SourceArn") ELSE <<>>]
StoreARN(r) == ARN("KeyValueStore", ID(r.type, r.id))

KeyValueStore(b, r) ==
  IF ~StoreIsValid(r) THEN Fail(b) ELSE [b EXCEPT !.stores = WithEntry(@, StoreARN(r), StoreOf(r))]

KeyOf(r) == [id |-> r.id, code |-> Text(Field(r.props, "PublicKeyConfig"), "EncodedKey")]

PublicKey(b, r) ==
  IF KeyOf(r).code = <<>> THEN Fail(b) ELSE [b EXCEPT !.keys = WithEntry(@, ID(r.type, r.id), KeyOf(r))]

KeyItems(r) == Texts(Field(r.props, "KeyGroupConfig"), "Items")
KeyGroupOf(b, r) == [id |-> r.id, keys |-> Found(KeyItems(r), b.keys)]

KeyGroup(b, r) ==
  IF ~Has(r.props, "KeyGroupConfig") \/ ~Known(KeyItems(r), b.keys) THEN Fail(b)
  ELSE [b EXCEPT !.keyGroups = WithEntry(@, ID(r.type, r.id), KeyGroupOf(b, r))]

(* cachePolicyFromProps and originRequestPolicyFromProps; of a response    *)
(* headers policy only its presence matters.                               *)
Selection(m, config, behavior, items) ==
  LET c == Field(m, config)
  IN  [behavior |-> IF Text(c, behavior) = <<>> THEN Word("none") ELSE Text(c, behavior), items |-> ToSet(Texts(c, items))]

PolicyOf(r, config) ==
  LET m == IF r.type = "CachePolicy" THEN Field(config, "Parameters") ELSE config
  IN  [id |-> r.id, headers |-> Selection(m, "HeadersConfig", "HeaderBehavior", "Headers"),
       cookies |-> Selection(m, "CookiesConfig", "CookieBehavior", "Cookies"),
       queryStrings |-> Selection(m, "QueryStringsConfig", "QueryStringBehavior", "QueryStrings")]

(* cachePolicyFromForwardedValues; its Cookies are ForwardedCookies here.  *)
LegacyPolicy(forwarded) ==
  LET All == [behavior |-> Word("all"), items |-> {}]
      Only(items) == [behavior |-> Word("whitelist"), items |-> items]
      None == [behavior |-> Word("none"), items |-> {}]
      headers == ToSet(Texts(forwarded, "Headers"))
      cookies == Field(forwarded, "ForwardedCookies")
      keys == ToSet(Texts(forwarded, "QueryStringCacheKeys"))
  IN  [id |-> "legacy",
       headers |-> IF Word("*") \in headers THEN All ELSE IF headers # {} THEN Only(headers) ELSE None,
       cookies |-> CASE Text(cookies, "Forward") = Word("all") -> All
                     [] Text(cookies, "Forward") = Word("whitelist") -> Only(ToSet(Texts(cookies, "WhitelistedNames")))
                     [] OTHER -> None,
       queryStrings |-> IF Text(forwarded, "QueryString") # Word("true") THEN None
                        ELSE IF keys # {} THEN Only(keys) ELSE All]

PolicyField(r) == r.type \o "Config"
WithPolicy(policies, r) ==
  [policies EXCEPT ![r.type] = WithEntry(@, ID(r.type, r.id), PolicyOf(r, r.props.fields[PolicyField(r)]))]

Policy(b, r) ==
  IF ~Has(r.props, PolicyField(r)) THEN Fail(b) ELSE [b EXCEPT !.policies = WithPolicy(@, r)]

StoreARNs(r) ==
  LET associations == Maps(Field(r.props, "FunctionConfig"), "KeyValueStoreAssociations")
  IN  [i \in DOMAIN associations |-> Text(associations[i], "KeyValueStoreARN")]
FunctionIsValid(b, r) == Text(r.props, "Name") # <<>> /\ Text(r.props, "FunctionCode") # <<>> /\ Known(StoreARNs(r), b.stores)
FunctionOf(b, r) == [id |-> r.id, code |-> Text(r.props, "FunctionCode"), stores |-> Found(StoreARNs(r), b.stores)]

Function(b, r) ==
  IF ~FunctionIsValid(b, r) THEN Fail(b)
  ELSE [b EXCEPT !.functions = @ \cup {FunctionOf(b, r)},
                 !.functionsByARN = WithEntry(@, FunctionARN(Resource(ToSet(b.raw), r.id)), FunctionOf(b, r))]
-----------------------------------------------------------------------------
(* buildOrigin, with parseS3Domain.                                        *)
Slashed(text) == text = <<>> \/ text[1] = <<"word", "/", "">>
IsS3Domain(text) == Len(text) = 2 /\ text[2] = <<"word", ".s3", "">>

OriginIsValid(o) ==
  LET domain == Text(o, "DomainName")
  IN  /\ Text(o, "Id") # <<>>
      /\ domain # <<>> /\ ~IsUnresolved(domain)
      /\ Slashed(Text(o, "OriginPath"))
      /\ Has(o, "S3OriginConfig") # Has(o, "CustomOriginConfig")
      /\ Has(o, "S3OriginConfig") => IsS3Domain(domain)
      /\ Has(o, "CustomOriginConfig")
           => Text(o.fields["CustomOriginConfig"], "OriginProtocolPolicy") \in {Word("http-only"), Word("https-only"), Word("match-viewer")}

OriginOf(o) ==
  [id |-> Text(o, "Id"), s3 |-> Has(o, "S3OriginConfig"), domain |-> Text(o, "DomainName"), path |-> Text(o, "OriginPath"),
   customHeaders |-> [i \in DOMAIN Maps(o, "OriginCustomHeaders") |-> Text(Maps(o, "OriginCustomHeaders")[i], "HeaderValue")]]

-----------------------------------------------------------------------------
(* buildBehavior.                                                          *)

(* resolvePolicy: an optional reference.                                   *)
OptionallyKnown(text, table) == text # <<>> => Known(<<text>>, table)
IfAny(text, table) == IF text = <<>> THEN {} ELSE {table[text]}

(* applyFunctionAssociations and behaviorFunctionSlot.                     *)
Slots == {Word("viewer-request"), Word("viewer-response")}
ARNs(associations) == [i \in DOMAIN associations |-> Text(associations[i], "FunctionARN")]

AssociationsAreValid(b, associations) ==
  LET events == [i \in DOMAIN associations |-> Text(associations[i], "EventType")]
  IN  Known(ARNs(associations), b.functionsByARN) /\ ToSet(events) \subseteq Slots /\ Cardinality(ToSet(events)) = Len(events)

BehaviorIsValid(b, m, origins, isDefault) ==
  /\ isDefault <=> Text(m, "PathPattern") = <<>>
  /\ \E i \in DOMAIN origins : Text(origins[i], "Id") = Text(m, "TargetOriginId")
  /\ (Text(m, "CachePolicyId") # <<>>) # Has(m, "ForwardedValues")
  /\ OptionallyKnown(Text(m, "CachePolicyId"), b.policies["CachePolicy"])
  /\ ~(Has(m, "ForwardedValues") /\ Text(m, "OriginRequestPolicyId") # <<>>)
  /\ OptionallyKnown(Text(m, "OriginRequestPolicyId"), b.policies["OriginRequestPolicy"])
  /\ OptionallyKnown(Text(m, "ResponseHeadersPolicyId"), b.policies["ResponseHeadersPolicy"])
  /\ Known(Texts(m, "TrustedKeyGroups"), b.keyGroups)
  /\ AssociationsAreValid(b, Maps(m, "FunctionAssociations"))

BehaviorOf(b, m) ==
  LET associations == Maps(m, "FunctionAssociations")
  IN  [pattern |-> Text(m, "PathPattern"), target |-> Text(m, "TargetOriginId"),
       cache |-> IF Has(m, "ForwardedValues") THEN LegacyPolicy(m.fields["ForwardedValues"])
                 ELSE b.policies["CachePolicy"][Text(m, "CachePolicyId")],
       orp |-> IfAny(Text(m, "OriginRequestPolicyId"), b.policies["OriginRequestPolicy"]),
       rhp |-> IfAny(Text(m, "ResponseHeadersPolicyId"), b.policies["ResponseHeadersPolicy"]),
       keyGroups |-> Found(Texts(m, "TrustedKeyGroups"), b.keyGroups),
       functions |-> Found(ARNs(associations), b.functionsByARN)]

-----------------------------------------------------------------------------
(* distribution.                                                           *)

Lower(text) == [i \in DOMAIN text |-> IF text[i] \in DOMAIN ToLower THEN ToLower[text[i]] ELSE text[i]]

(* Mutant: aliases are compared as they are written.                       *)
Aliases_AsWritten(config) == Texts(config, "Aliases") \o Texts(config, "CNAMEs")

Aliases(config) ==
  LET written == Texts(config, "Aliases") \o Texts(config, "CNAMEs") IN [i \in DOMAIN written |-> Lower(written[i])]

BehaviorsOf(config) == <<Field(config, "DefaultCacheBehavior")>> \o Maps(config, "CacheBehaviors")

DistributionIsValid(b, r, config) ==
  LET aliases == Aliases(config)
      origins == Maps(config, "Origins")
      behaviors == BehaviorsOf(config)
      errors == Maps(config, "CustomErrorResponses")
  IN  /\ \A i \in DOMAIN aliases :
           /\ ~IsUnresolved(aliases[i])
           /\ aliases[i] \in DOMAIN b.aliasOwner => b.aliasOwner[aliases[i]] = r.id
      /\ origins # <<>>
      /\ \A i \in DOMAIN origins : OriginIsValid(origins[i])
      /\ \A i, j \in DOMAIN origins : Text(origins[i], "Id") = Text(origins[j], "Id") => i = j
      /\ Has(config, "DefaultCacheBehavior")
      /\ \A i \in DOMAIN behaviors : BehaviorIsValid(b, behaviors[i], origins, i = 1)
      /\ \A i \in DOMAIN errors : Has(errors[i], "ErrorCode") /\ Slashed(Text(errors[i], "ResponsePagePath"))

DistributionOf(b, r) ==
  LET config == Field(r.props, "DistributionConfig")
      behaviors == BehaviorsOf(config)
      origins == Maps(config, "Origins")
      errors == Maps(config, "CustomErrorResponses")
  IN  [id |-> r.id, enabled |-> Text(config, "Enabled") # Word("false"), root |-> Text(config, "DefaultRootObject"),
       aliases |-> ToSet(Aliases(config)), origins |-> [i \in DOMAIN origins |-> OriginOf(origins[i])],
       behaviors |-> [i \in DOMAIN behaviors |-> BehaviorOf(b, behaviors[i])],
       errorPages |-> [i \in DOMAIN errors |-> Text(errors[i], "ResponsePagePath")]]

Distribution(b, r) ==
  IF ~Has(r.props, "DistributionConfig") \/ ~DistributionIsValid(b, r, Field(r.props, "DistributionConfig")) THEN Fail(b)
  ELSE [b EXCEPT !.distributions = Append(@, DistributionOf(b, r)),
                 !.aliasOwner = With(@, [a \in DistributionOf(b, r).aliases |-> r.id])]

-----------------------------------------------------------------------------
(* Load and Build: the passes, each over all resources.                    *)

(* Mutant: one pass, in the order of the files.                            *)
Passes_One == <<SupportedTypes>>

Passes == <<{"OriginAccessControl"}, {"KeyValueStore"}, {"PublicKey"}, {"KeyGroup"}, PolicyTypes, {"Function"}, {"Distribution"}>>

BuildOne(b, r) ==
  IF ~HasShape(r.props) THEN Fail(b)
  ELSE CASE r.type = "KeyValueStore" -> KeyValueStore(b, r)
         [] r.type = "PublicKey" -> PublicKey(b, r)
         [] r.type = "KeyGroup" -> KeyGroup(b, r)
         [] r.type \in PolicyTypes -> Policy(b, r)
         [] r.type = "Function" -> Function(b, r)
         [] r.type = "Distribution" -> Distribution(b, r)
         [] OTHER -> b

(* One pass: the resources of its types in their order, until one fails.   *)
Pass(start, resources, types) ==
  LET built[n \in 0 .. Len(resources)] ==
        IF n = 0 THEN start
        ELSE LET b == built[n - 1] IN IF b.ok /\ resources[n].type \in types THEN BuildOne(b, resources[n]) ELSE b
  IN  built[Len(resources)]

AllPasses(start, resources) ==
  LET after[n \in 0 .. Len(Passes)] == IF n = 0 THEN start ELSE Pass(after[n - 1], resources, Passes[n])
  IN  after[Len(Passes)]

Load(files, parameters) ==
  LET parsed == Parse(files)
      resolved == Resolved(parsed, parameters)
  IN  IF resolved.ok THEN AllPasses(Builder(parsed.resources), resolved.resources) ELSE Fail(Builder(<<>>))
=============================================================================
