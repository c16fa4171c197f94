------------------------------- MODULE MCLoading -----------------------------
(* Templates of one or two files around one distribution, each in          *)
(* variants that change a part of it.                                      *)
EXTENDS Loading, Values, TLC

MCValueOf(env, v) == Value(env, v)
MCHasShape(m) == Decodes(m)

S(s) == Str(Word(s))
Optimized == <<<<"managed", "optimized", "">>>>
R(id) == [kind |-> "ref", to |-> id]
GA(id, attr) == [kind |-> "getAtt", to |-> id, attr |-> attr]
SubOf(template, locals) == [kind |-> "sub", parts |-> template, vars |-> locals]
Var(name) == [kind |-> "var", name |-> name]
JoinOf(list) == [kind |-> "join", delimiter |-> Word("-"), list |-> list]
Find(a, b, c) == [kind |-> "findInMap", keys |-> <<a, b, c>>]
One(f, v) == Map(f :> v)

Res(id, type, fields) == [id |-> id, type |-> type, condition |-> FALSE, props |-> Map(fields)]
File(params, resources) == [transform |-> FALSE, parameters |-> params, mappings |-> <<>>, resources |-> resources]

(* The parts that are referred to.                                         *)
Bucket == Res("Bucket", "Bucket", "BucketName" :> S("b"))
Cache(name) == Res("Cache", "CachePolicy", "CachePolicyConfig" :> One("Name", name))
Fn(id, name, code, store) ==
  Res(id, "Function", "Name" :> name @@ "FunctionCode" :> code @@
      "FunctionConfig" :> One("KeyValueStoreAssociations", Lst(IF store = "" THEN <<>> ELSE <<One("KeyValueStoreARN", GA(store, "Arn"))>>)))
Group == Res("Group", "KeyGroup", "KeyGroupConfig" :> One("Items", Lst(<<R("Key"), R("AWS::NoValue")>>)))
PubKey == Res("Key", "PublicKey", "PublicKeyConfig" :> One("EncodedKey", SubOf(<<S("pem"), Var("x"), GA("Elsewhere", "Key")>>, "x" :> S("!"))))
Store(source) ==
  Res("Store", "KeyValueStore", "Name" :> S("store") @@
      (IF source = "" THEN <<>> ELSE "ImportSource" :> Map("SourceType" :> S("S3") @@ "SourceArn" :> S(source))))

(* A distribution: the default behavior and one for "/a".                  *)
Associate(fn) == Lst(<<Map("EventType" :> S("viewer-request") @@ "FunctionARN" :> fn)>>)
Behave(more) == Map(more @@ "TargetOriginId" :> S("o") @@ "CachePolicyId" :> R("Cache"))
S3Origin == Map("Id" :> S("o") @@ "DomainName" :> GA("Bucket", "DomainName") @@ "S3OriginConfig" :> Empty)
Custom(domain) == Map("Id" :> S("o") @@ "DomainName" :> domain @@ "CustomOriginConfig" :> One("OriginProtocolPolicy", S("http-only")))
Dist(id, alias, origin, enabled, default, other) ==
  Res(id, "Distribution",
      "DistributionConfig" :> Map("Aliases" :> Lst(<<alias>>) @@ "Origins" :> Lst(<<origin>>) @@ "Enabled" :> enabled @@
        "DefaultCacheBehavior" :> Behave(default) @@ "CacheBehaviors" :> Lst(<<Behave("PathPattern" :> S("/a") @@ other)>>)))

guarded == "TrustedKeyGroups" :> Lst(<<R("Group")>>)
runs(fn) == "FunctionAssociations" :> Associate(fn)
app == Custom(S("app"))
Site(origin, enabled, other) == Dist("Site", S("WWW"), origin, enabled, guarded, other)
parts == <<Bucket, Cache(S("c"))>>
signed == <<Group, PubKey>>

Base(source, name, sites) == parts \o <<Fn("Edge", name, S("ok"), "Store")>> \o signed \o sites \o <<Store(source)>>
site == Site(app, S("true"), runs(R("Edge")))
Around(sites) == Base("arn", S("edge"), sites)
base == Around(<<>>)

(* Every other part a distribution may have.                               *)
Policies ==
  <<Res("Orp", "OriginRequestPolicy", "OriginRequestPolicyConfig" :>
          Map("HeadersConfig" :> Map("HeaderBehavior" :> S("whitelist") @@ "Headers" :> One("Items", Lst(<<S("X-A")>>))) @@
              "CookiesConfig" :> One("CookieBehavior", S("all")))),
    Res("Rhp", "ResponseHeadersPolicy", "ResponseHeadersPolicyConfig" :> One("Name", S("n")))>>
Forwarded(cookies) ==
  Map("Headers" :> Lst(<<S("X-A"), S("*")>>) @@ "QueryString" :> S("true") @@ "QueryStringCacheKeys" :> S("q") @@
      "ForwardedCookies" :> Map("Forward" :> S("whitelist") @@ "WhitelistedNames" :> cookies))
Rich(cookies, policy) ==
  Res("Rich", "Distribution",
      "DistributionConfig" :> Map("CNAMEs" :> S("rich") @@ "DefaultRootObject" :> S("index") @@ "Restrictions" :> Empty @@
        "Origins" :> Lst(<<app, Map("Id" :> S("p") @@ "OriginPath" :> S("/") @@
                                    "OriginCustomHeaders" :> Lst(<<Map("HeaderName" :> S("X-K") @@ "HeaderValue" :> R("Elsewhere"))>>) @@
                                    "DomainName" :> SubOf(<<GA("Bucket", "DomainName")>>, <<>>) @@ "S3OriginConfig" :> Empty)>>) @@
        "DefaultCacheBehavior" :> Map("TargetOriginId" :> S("p") @@ "CachePolicyId" :> policy @@
                                      "OriginRequestPolicyId" :> R("Orp") @@ "ResponseHeadersPolicyId" :> GA("Rhp", "Id")) @@
        "CacheBehaviors" :> Lst(<<Map("PathPattern" :> S("/b") @@ "TargetOriginId" :> S("o") @@ "ForwardedValues" :> Forwarded(cookies))>>) @@
        "CustomErrorResponses" :> Lst(<<Map("ErrorCode" :> S("404") @@ "ResponsePagePath" :> S("/"))>>)))

staged == "Stage" :> [list |-> FALSE, default |-> S("dev")]

MCTemplates ==
  {<<File(<<>>, base), File(<<>>, <<s>>)>> :
     s \in {site, Site(S3Origin, S("true"), runs(GA("Edge", "FunctionARN"))), Site(app, S("false"), runs(R("Edge"))),
            Site(app, S("true"), <<>>), Site(app, S("true"), runs(R("Elsewhere"))), Site(Custom(R("Elsewhere")), S("true"), <<>>)}}
  \cup {<<File(<<>>, <<s>> \o Around(<<site>>))>> : s \in {Dist("Alias", S("www"), app, S("false"), guarded, <<>>),
                                                     Dist("Alias", S("other"), app, S("true"), runs(R("Edge")), <<>>)}}
  \cup {<<File(<<>>, <<Rich(c, p)>>), File(<<>>, <<Bucket>> \o Policies)>> : c \in {S("c"), Lst(<<S("c")>>), S3Origin}, p \in {Str(Optimized), S("unknown")}}
  \cup {<<File(<<>>, parts), File(<<>>, <<Dist("Site", S("WWW"), app, S("true"), <<>>, <<>>)>>)>>}
  \cup {<<File(<<>>, Base("", n, <<>>)), File(staged, <<site>>)>> :
          n \in {SubOf(<<S("edge"), Var("Stage")>>, <<>>), JoinOf(Lst(<<S("a"), R("Stage")>>)), JoinOf(R("Stage"))}}
  \cup {<<[File(<<>>, <<site>>) EXCEPT !.mappings = <<Word("m"), Word("dev"), Word("k")>> :> S("edge")],
          File(staged, Base("", Find(S("m"), R("Stage"), S("k")), <<>>))>>}
  \cup {<<File(<<>>, parts \o <<Fn("Edge", n, c, ""), Fn("Edge2", S("Edge"), S("ok"), "Store")>> \o signed \o <<site, Store("arn")>>)>> :
          n \in {S("edge"), SubOf(<<S("edge")>>, <<>>)}, c \in {S("ok"), S("bad"), [kind |-> "unsupported"]}}
  \cup {<<File(<<>>, base), File(<<>>, <<site, Store("")>>)>>, <<[File(<<>>, Around(<<site>>)) EXCEPT !.transform = TRUE]>>,
        <<File(<<>>, Around(<<[site EXCEPT !.condition = TRUE]>>))>>}

RECURSIVE PartsOf(_)
PartsOf(v) ==
  {v} \cup CASE v.kind = "map" -> UNION {PartsOf(v.fields[f]) : f \in DOMAIN v.fields}
             [] v.kind = "list" -> UNION {PartsOf(v.items[i]) : i \in DOMAIN v.items}
             [] OTHER -> {}
MCWritten ==
  UNION {UNION {UNION {PartsOf(r.props) : r \in {q \in ToSet(fs[n].resources) : q.type \in {"Distribution", "Function"}}} :
                  n \in DOMAIN fs} : fs \in MCTemplates}

MCParameterOptions == {<<>>, "Stage" :> S("dev")}
MCSeedOptions == {<<>>, Word("store") :> "f", (Word("Store") :> "f" @@ Word("store") :> "g"), Word("other") :> "f"}
MCContents == {"v", Broken}
MCCompiling == {Word("ok")}
MCToLower == <<"word", "WWW", "">> :> <<"word", "www", "">>
MCManaged == [t \in PolicyTypes |-> IF t = "CachePolicy" THEN Optimized :> LegacyPolicy(Empty) ELSE <<>>]
=============================================================================
