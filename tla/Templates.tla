------------------------------ MODULE Templates ------------------------------
(***************************************************************************)
(* Template files, merged (internal/cfntmpl), and what references to their *)
(* resources stand for (internal/config/refs.go and ids.go).  How intrinsic*)
(* functions are resolved is module Values's.                              *)
(*                                                                         *)
(* A file is [transform, parameters, mappings, resources]; resources is a  *)
(* sequence of [id, type, condition, props] by ascending id; mappings maps *)
(* a triple of keys to a value.  A value is                                *)
(*   [kind |-> "string", text]         text is a sequence of tokens,       *)
(*   [kind |-> "list", items], [kind |-> "map", fields],                   *)
(* or a call of an intrinsic function, its arguments in named fields:      *)
(*   "ref" [to], "getAtt" [to, attr], "join" [delimiter, list],            *)
(*   "findInMap" [keys], "unsupported", or                                 *)
(*   "sub" [parts, vars]: its template is split into values and variables  *)
(*   [kind |-> "var", name]; X.Attr is a "getAtt" among them.              *)
(* Tokens are triples.                                                     *)
(***************************************************************************)
EXTENDS Integers, FiniteSets, Sequences, SequencesExt

CONSTANT
  ValueOf(_, _)  \* resolver.value: what the resolver makes of a value, in an environment

IsSeq(s) == s \in Seq(ToSet(s))

(* Assignments to a map's entries.                                         *)
With(table, more) == [k \in DOMAIN table \cup DOMAIN more |-> IF k \in DOMAIN more THEN more[k] ELSE table[k]]
WithEntry(table, key, value) == With(table, [k \in {key} |-> value])

Word(s) == <<<<"word", s, "">>>>
Str(text) == [kind |-> "string", text |-> text]
Lst(items) == [kind |-> "list", items |-> items]
Map(fields) == [kind |-> "map", fields |-> fields]

Error == [kind |-> "error"]
NoValue == [kind |-> "noValue"]

-----------------------------------------------------------------------------
(* Parse: the files merged, in their order.                                *)

Ids(resources) == {r.id : r \in resources}
NothingParsed == [ok |-> TRUE, parameters |-> <<>>, mappings |-> <<>>, resources |-> <<>>]

(* parseOne, parseParameters, parseMappings and parseResources.            *)
ParseOne(p, file) ==
  IF \/ file.transform
     \/ DOMAIN file.parameters \cap DOMAIN p.parameters # {}
     \/ {k[1] : k \in DOMAIN file.mappings} \cap {k[1] : k \in DOMAIN p.mappings} # {}
     \/ Ids(ToSet(file.resources)) \cap Ids(ToSet(p.resources)) # {}
  THEN [p EXCEPT !.ok = FALSE]
  ELSE [p EXCEPT !.parameters = With(@, file.parameters),
                 !.mappings = With(@, file.mappings),
                 !.resources = @ \o file.resources]

Parse(files) ==
  LET parsed[n \in 0 .. Len(files)] ==
        IF n = 0 THEN NothingParsed
        ELSE LET p == parsed[n - 1] IN IF p.ok THEN ParseOne(p, files[n]) ELSE p
  IN  parsed[Len(files)]

Resource(resources, id) == CHOOSE r \in resources : r.id = id

-----------------------------------------------------------------------------
(* What Ref and Fn::GetAtt of a resource stand for.                        *)

PolicyTypes == {"CachePolicy", "OriginRequestPolicy", "ResponseHeadersPolicy"}
SupportedTypes == PolicyTypes \cup {"Distribution", "Function", "KeyValueStore", "PublicKey", "KeyGroup", "OriginAccessControl"}

(* idSuffix and uuidID: an identifier is made from a type and a logical ID.*)
ID(type, id) == <<<<"id", type, id>>>>
ARN(type, name) == <<<<"arn", type, "">>>> \o name

(* The tokens of identifiers.                                              *)
Identifying == {"id", "arn", "managed", "unresolved"}

(* rawStringProp, with what is used without it.                            *)
RawName(r, field, default) ==
  IF /\ r.props.kind = "map" /\ field \in DOMAIN r.props.fields
     /\ r.props.fields[field].kind = "string" /\ r.props.fields[field].text # <<>>
  THEN r.props.fields[field].text ELSE default

(* functionARN(rawFunctionName(r)).                                        *)
FunctionARN(r) == ARN("Function", RawName(r, "Name", Word(r.id)))
BucketName(r) == RawName(r, "BucketName", <<<<"bucket", r.id, "">>>>)

(* Mutant: a function's reference is made from its logical ID.             *)
RefValue_LogicalID(r) == Str(IF r.type = "Function" THEN ARN("Function", Word(r.id)) ELSE ID(r.type, r.id))

RefValue(r) ==
  CASE r.type = "Function" -> Str(FunctionARN(r))
    [] r.type = "KeyValueStore" -> Str(RawName(r, "Name", Word(r.id)))
    [] r.type = "Bucket" -> Str(BucketName(r))
    [] r.type \in SupportedTypes \ {"Function", "KeyValueStore"} -> Str(ID(r.type, r.id))
    [] OTHER -> Error

(* The attributes that have a fixed value.                                 *)
Fixed(type) ==
  CASE type \in PolicyTypes \cup {"KeyGroup"} -> {"LastModifiedTime"}
    [] type = "PublicKey" -> {"CreatedTime"}
    [] type = "Function" -> {"Stage"}
    [] type = "KeyValueStore" -> {"Status"}
    [] OTHER -> {}

(* A bucket's domain names count as one.                                   *)
AttValue(r, attr) ==
  CASE r.type = "Function" /\ attr = "FunctionARN" -> Str(FunctionARN(r))
    [] <<r.type, attr>> \in {<<"KeyValueStore", "Arn">>, <<"Distribution", "ARN">>} -> Str(ARN(r.type, ID(r.type, r.id)))
    [] r.type = "Distribution" /\ attr = "DomainName" -> Str(Word("cloudfront") \o ID(r.type, r.id))
    [] r.type \in SupportedTypes \ {"Function"} /\ attr = "Id" -> Str(ID(r.type, r.id))
    [] r.type = "Bucket" /\ attr = "DomainName" -> Str(BucketName(r) \o Word(".s3"))
    [] attr \in Fixed(r.type) -> Str(Word(attr))
    [] OTHER -> Error

(* placeholder and IsUnresolved.                                           *)
Placeholder(id, attr) == Str(<<<<"unresolved", id, attr>>>>)
IsUnresolved(text) == \E i \in DOMAIN text : text[i][1] = "unresolved"

-----------------------------------------------------------------------------
(* Resolve.  An environment is [parsed, parameters]: what was parsed, with *)
(* its resources in no order, and the overrides of parameters.  The        *)
(* resources of other types stay as they are: nobody looks at them.        *)

Environment(parsed, parameters) == [parsed |-> [parsed EXCEPT !.resources = ToSet(@)], parameters |-> parameters]

(* What cannot be resolved, or does not resolve to properties.             *)
Props(env, r) == ValueOf(env, r.props)
Resolves(env, r) == r.type \in SupportedTypes => ~r.condition /\ Props(env, r).kind \in {"map", "noValue"}

ResolvedOne(env, r) ==
  [id |-> r.id, type |-> r.type,
   props |-> IF r.type \notin SupportedTypes THEN r.props ELSE IF Props(env, r) = NoValue THEN Map(<<>>) ELSE Props(env, r)]

Resolved(parsed, parameters) ==
  LET env == Environment(parsed, parameters)
      rs == parsed.resources
      ok == /\ parsed.ok
            /\ DOMAIN parameters \subseteq DOMAIN parsed.parameters
            /\ \A i \in DOMAIN rs : Resolves(env, rs[i])
  IN  [ok |-> ok, resources |-> IF ok THEN [i \in DOMAIN rs |-> ResolvedOne(env, rs[i])] ELSE <<>>]
=============================================================================
