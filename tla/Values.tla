-------------------------------- MODULE Values -------------------------------
(***************************************************************************)
(* What is defined by recursion on values: the resolver (internal/cfntmpl, *)
(* resolve.go), which is the ValueOf of Templates, and the shapes of       *)
(* props.go (internal/config), which are the HasShape of Build.  These     *)
(* modules take them as constants so that what they do with the results    *)
(* can be proved for any.                                                  *)
(***************************************************************************)
EXTENDS Build

-----------------------------------------------------------------------------
(* resolver.                                                               *)

Pseudo == {"AWS::AccountId", "AWS::Region", "AWS::StackName"}

(* parameterValue and normalizeParameter; every token of a text stands for *)
(* an element if the parameter is a list.                                  *)
ParameterValue(def, given) ==
  LET value == IF given.kind = "error" THEN def.default ELSE given
  IN  IF def.list /\ value.kind = "string"
      THEN Lst([i \in DOMAIN value.text |-> Str(<<value.text[i]>>)]) ELSE value

Ref(env, name) ==
  LET p == env.parsed
  IN  IF name = "AWS::NoValue" THEN NoValue
      ELSE IF name \in Pseudo THEN Str(Word(name))
      ELSE IF name \in DOMAIN p.parameters
      THEN ParameterValue(p.parameters[name], IF name \in DOMAIN env.parameters THEN env.parameters[name] ELSE Error)
      ELSE IF name \in Ids(p.resources) /\ RefValue(Resource(p.resources, name)) # Error THEN RefValue(Resource(p.resources, name))
      ELSE Placeholder(name, "")

GetAtt(env, name, attr) ==
  LET rs == env.parsed.resources
  IN  IF name \in Ids(rs) /\ AttValue(Resource(rs, name), attr) # Error THEN AttValue(Resource(rs, name), attr)
      ELSE Placeholder(name, attr)

(* stringify, then strings.Join.                                           *)
Concatenation(values, delimiter) ==
  IF \E i \in DOMAIN values : values[i].kind # "string" THEN Error
  ELSE Str(FlattenSeq([i \in DOMAIN values |-> IF i = 1 THEN values[i].text ELSE delimiter \o values[i].text]))

RECURSIVE Value(_, _)

Sub(env, parts, vars) ==
  LET locals == [n \in DOMAIN vars |-> Value(env, vars[n])]
      Part(part) == IF part.kind # "var" THEN Value(env, part)
                    ELSE IF part.name \in DOMAIN vars THEN locals[part.name] ELSE Ref(env, part.name)
  IN  IF \E n \in DOMAIN locals : locals[n] = Error THEN Error
      ELSE Concatenation([i \in DOMAIN parts |-> Part(parts[i])], <<>>)

Join(env, delimiter, list) ==
  LET items == Value(env, list) IN IF items.kind # "list" THEN Error ELSE Concatenation(items.items, delimiter)

FindInMap(env, keys) ==
  LET k == [i \in DOMAIN keys |-> Value(env, keys[i])]
      found == env.parsed.mappings
  IN  IF \E i \in DOMAIN k : k[i].kind # "string" THEN Error
      ELSE IF <<k[1].text, k[2].text, k[3].text>> \in DOMAIN found THEN found[<<k[1].text, k[2].text, k[3].text>>] ELSE Error

(* value and intrinsic.                                                    *)
Value(env, v) ==
  CASE v.kind = "string" -> v
    [] v.kind = "list" ->
         LET items == [i \in DOMAIN v.items |-> Value(env, v.items[i])]
         IN  IF Error \in ToSet(items) THEN Error ELSE Lst(SelectSeq(items, LAMBDA x : x # NoValue))
    [] v.kind = "map" ->
         LET fields == [f \in DOMAIN v.fields |-> Value(env, v.fields[f])]
         IN  IF \E f \in DOMAIN fields : fields[f] = Error THEN Error
             ELSE Map(Restrict(fields, {f \in DOMAIN fields : fields[f] # NoValue}))
    [] v.kind = "ref" -> Ref(env, v.to)
    [] v.kind = "getAtt" -> GetAtt(env, v.to, v.attr)
    [] v.kind = "sub" -> Sub(env, v.parts, v.vars)
    [] v.kind = "join" -> Join(env, v.delimiter, v.list)
    [] v.kind = "findInMap" -> FindInMap(env, v.keys)
    [] OTHER -> Error

-----------------------------------------------------------------------------
(* decodeProps: fields by the kind of value they must have.                *)

Records == {"OriginAccessControlConfig", "PublicKeyConfig", "KeyGroupConfig", "ImportSource", "CachePolicyConfig", "FunctionConfig",
            "OriginRequestPolicyConfig", "ResponseHeadersPolicyConfig", "DistributionConfig", "DefaultCacheBehavior", "ForwardedValues",
            "HeadersConfig", "CookiesConfig", "QueryStringsConfig", "Parameters", "CustomOriginConfig", "S3OriginConfig", "ForwardedCookies"}
RecordLists == {"Origins", "CacheBehaviors", "CustomErrorResponses", "KeyValueStoreAssociations", "FunctionAssociations", "OriginCustomHeaders"}
StringLists == {"Aliases", "CNAMEs", "TrustedKeyGroups", "Headers", "Cookies", "QueryStrings",
                "WhitelistedNames", "QueryStringCacheKeys"}
Lists == StringLists \cup {"Items"}
Scalars == {"Name", "Id", "EncodedKey", "SourceType", "SourceArn", "FunctionCode", "KeyValueStoreARN", "HeaderBehavior", "CookieBehavior",
            "QueryStringBehavior", "QueryString", "Forward", "DomainName", "OriginPath", "OriginProtocolPolicy", "HeaderName",
            "HeaderValue", "PathPattern", "TargetOriginId", "CachePolicyId", "OriginRequestPolicyId", "ResponseHeadersPolicyId",
            "EventType", "FunctionARN", "ErrorCode", "ResponsePagePath", "DefaultRootObject", "Enabled"}

AllStrings(v) == v.kind = "list" /\ \A i \in DOMAIN v.items : v.items[i].kind = "string"

(* Has every field the shape its type in props.go wants?  Other fields are *)
(* ignored.                                                                *)
RECURSIVE Decodes(_)
Decodes(m) ==
  \A f \in DOMAIN m.fields :
    LET v == m.fields[f]
    IN  CASE f \in Records -> v.kind = "map" /\ Decodes(v)
          [] f \in RecordLists -> v.kind = "list" /\ \A i \in DOMAIN v.items : v.items[i].kind = "map" /\ Decodes(v.items[i])
          [] f \in Lists -> v.kind = "string" \/ AllStrings(v) \/ (v.kind = "map" /\ Has(v, "Items") /\ AllStrings(v.fields["Items"]))
          [] OTHER -> f \in Scalars => v.kind = "string"
=============================================================================
