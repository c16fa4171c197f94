-------------------------------- MODULE Loading ------------------------------
(***************************************************************************)
(* From the templates to what is served (cmd/localfront: serve, loadConfig,*)
(* functions.go, and the order of reload): the configuration is loaded, at *)
(* startup the need of an object store is checked, the KeyValueStores are  *)
(* seeded one by one, the reachable functions compiled one by one, and     *)
(* then the result is served.  An error ends the startup; in a reload it   *)
(* keeps what is served.                                                   *)
(*                                                                         *)
(* The files are read as module Watch says; here a save is seen by the     *)
(* next read.  When functions are closed is module Reload's.               *)
(***************************************************************************)
EXTENDS Build

CONSTANTS
  Templates,   \* what --template files may hold: sequences of files
  ParameterOptions, \* --parameter: functions of names to values
  SeedOptions, \* --kvs-seed: functions of store names to seed files
  Contents,    \* what a seed file or an imported object may hold
  Broken,      \* a seed file or object that cannot be read or parsed
  Compiling,   \* the function codes that compile
  MaxSaves,    \* bound: saves in a behaviour
  Written      \* the values that the templates are made of

(* Lists and texts are sequences, the keys of a file's resources differ,   *)
(* and no name is written that looks like an identifier.                   *)
ASSUME TemplatesAssumption ==
  \A fs \in Templates :
    /\ IsSeq(fs)
    /\ \A n \in DOMAIN fs :
         /\ IsSeq(fs[n].resources)
         /\ \A r \in ToSet(fs[n].resources) :
              /\ IsSeq(RawName(r, "Name", Word(r.id))) /\ RawName(r, "Name", Word(r.id))[1][1] \notin Identifying
              /\ IsSeq(BucketName(r)) /\ BucketName(r)[1][1] \notin Identifying
         /\ \A i, j \in DOMAIN fs[n].resources : fs[n].resources[i].id = fs[n].resources[j].id => i = j

(* A reference to a resource is to the one of that name: no parameter has  *)
(* it too.  And the resolver, one level at a time (resolve.go: value, ref  *)
(* and getAtt).                                                            *)
Nothing == [kind |-> "ref", to |-> "AWS::NoValue"]

ResolvesTo(env, v, w) ==
  LET Made(x) == ValueOf(env, x)
      Refers(value, attr) == v.to \in Ids(env.parsed.resources) => w = IF value = Error THEN Placeholder(v.to, attr) ELSE value
      R == Resource(env.parsed.resources, v.to)
  IN  /\ w = NoValue <=> v = Nothing
      /\ v.kind = "string" => w = v
      /\ v.kind = "list" => IF \E i \in DOMAIN v.items : Made(v.items[i]) = Error THEN w = Error
                            ELSE (\A i \in DOMAIN v.items : v.items[i] # Nothing) => w = Lst([i \in DOMAIN v.items |-> Made(v.items[i])])
      /\ v.kind = "map" => w = IF \E f \in DOMAIN v.fields : Made(v.fields[f]) = Error THEN Error
                               ELSE Map([f \in {g \in DOMAIN v.fields : v.fields[g] # Nothing} |-> Made(v.fields[f])])
      /\ v.kind = "ref" => Refers(RefValue(R), "")
      /\ v.kind = "getAtt" => Refers(AttValue(R, v.attr), v.attr)

ASSUME ResolverAssumption ==
  /\ \A fs \in Templates : \A n \in DOMAIN fs : \A r \in ToSet(fs[n].resources) :
       r.type \in {"Distribution", "Function"} => r.props \in Written
  /\ \A v \in Written : /\ v.kind = "map" => \A f \in DOMAIN v.fields : v.fields[f] \in Written
                        /\ v.kind = "list" => \A i \in DOMAIN v.items : v.items[i] \in Written
  /\ \A fs \in Templates, ps \in ParameterOptions :
       Parse(fs).ok => \A v \in Written : ResolvesTo(Environment(Parse(fs), ps), v, ValueOf(Environment(Parse(fs), ps), v))

(* Distributions and functions are written out: their objects and lists of *)
(* references are no results of intrinsic functions, and nothing in the    *)
(* lists is absent.                                                        *)
AreMaps(m, f) ==
  Has(m, f) => /\ m.fields[f].kind = "list" /\ IsSeq(m.fields[f].items)
               /\ \A i \in DOMAIN m.fields[f].items : m.fields[f].items[i].kind = "map"

BehaviorIsWritten(m) ==
  /\ AreMaps(m, "FunctionAssociations")
  /\ Has(m, "TrustedKeyGroups") => /\ m.fields["TrustedKeyGroups"].kind = "list"
                                   /\ \A i \in DOMAIN m.fields["TrustedKeyGroups"].items : m.fields["TrustedKeyGroups"].items[i] # Nothing

IsWrittenOut(r) ==
  LET config == Field(r.props, "DistributionConfig")
      behavior == Field(config, "DefaultCacheBehavior")
      function == Field(r.props, "FunctionConfig")
  IN  /\ r.type \in {"Distribution", "Function"} => r.props.kind = "map"
      /\ r.type = "Distribution" => /\ config.kind = "map" /\ behavior.kind = "map" /\ BehaviorIsWritten(behavior)
                                    /\ AreMaps(config, "CacheBehaviors")
                                    /\ \A i \in DOMAIN Maps(config, "CacheBehaviors") : BehaviorIsWritten(Maps(config, "CacheBehaviors")[i])
      /\ r.type = "Function" => function.kind = "map" /\ AreMaps(function, "KeyValueStoreAssociations")

ASSUME WrittenOutAssumption ==
  \A fs \in Templates : \A n \in DOMAIN fs : \A r \in ToSet(fs[n].resources) : IsWrittenOut(r)

VARIABLES
  templates,  \* the template files
  parameters, \* the --parameter option
  seeds,      \* the --kvs-seed option
  seedFiles,  \* what the seed files hold
  hasStore,   \* is there an object store (--s3-endpoint)?
  saves,      \* saves so far
  stage,      \* "load", "check", "stores", "functions", "serving" or "exited"
  booted,     \* is something served?
  config,     \* the configuration of this load, a builder
  stores,     \* the KeyValueStores of this load, by logical ID
  compiled,   \* the functions of this load, by logical ID
  fetched,    \* the stores whose ImportSource this load has fetched
  error,      \* the error that ended the last load
  live        \* what is served: [config, functions]

options == <<parameters, seeds, hasStore>>
files == <<templates, seedFiles, saves>>
vars == <<options, files, stage, booted, config, stores, compiled, fetched, error, live>>

Nobody == [config |-> Builder(<<>>), functions |-> <<>>]

Init ==
  /\ templates \in Templates
  /\ parameters \in ParameterOptions
  /\ seeds \in SeedOptions
  /\ seedFiles \in [{seeds[k] : k \in DOMAIN seeds} -> Contents]
  /\ hasStore \in BOOLEAN
  /\ saves = 0
  /\ stage = "load" /\ booted = FALSE
  /\ config = Builder(<<>>)
  /\ stores = <<>> /\ compiled = <<>> /\ fetched = {}
  /\ error = ""
  /\ live = Nobody

-----------------------------------------------------------------------------
(* What the configuration needs.                                           *)

Enabled(c) == {d \in ToSet(c.distributions) : d.enabled}

(* reachableResources.                                                     *)
ReachableFunctions(c) == UNION {ToSet(b.functions) : b \in UNION {ToSet(d.behaviors) : d \in Enabled(c)}}
ReachableStores(c) == UNION {ToSet(f.stores) : f \in ReachableFunctions(c)}

(* lookupSeed: the options that seed a store, and the file of the first.   *)
LookupSeed(s) == {s.name, Word(s.id)} \cap DOMAIN seeds
SeedFile(s) == seeds[IF s.name \in DOMAIN seeds THEN s.name ELSE Word(s.id)]

ConfigUsesS3(c) == \E d \in Enabled(c) : \E i \in DOMAIN d.origins : d.origins[i].s3

(* Mutant: a --kvs-seed option covers every store.                         *)
ConfigUsesKVSImportSource_AnySeed(c) ==
  \E s \in ReachableStores(c) : s.source # <<>> /\ seeds = <<>>

ConfigUsesKVSImportSource(c) ==
  \E s \in ReachableStores(c) : s.source # <<>> /\ LookupSeed(s) = {}

-----------------------------------------------------------------------------
(* A load, and what an error in it does.                                   *)

Fails(reason) == error' = reason /\ stage' = IF booted THEN "serving" ELSE "exited"

LoadConfig ==
  /\ stage = "load"
  /\ config' = Load(templates, parameters)
  /\ stores' = <<>> /\ compiled' = <<>> /\ fetched' = {}
  /\ IF config'.ok THEN error' = "" /\ stage' = (IF booted THEN "stores" ELSE "check") ELSE Fails("templates")
  /\ UNCHANGED <<options, files, booted, live>>

(* serve, before the first buildFunctions.                                 *)
Check ==
  /\ stage = "check"
  /\ IF (ConfigUsesS3(config) \/ ConfigUsesKVSImportSource(config)) /\ ~hasStore
     THEN Fails("needsStore") ELSE stage' = "stores" /\ UNCHANGED error
  /\ UNCHANGED <<options, files, booted, config, stores, compiled, fetched, live>>

(* The stores of the configuration, in their order.                        *)
StoresInOrder ==
  LET rs == SelectSeq(config.raw, LAMBDA r : r.type = "KeyValueStore")
  IN  [i \in DOMAIN rs |-> CHOOSE s \in {config.stores[a] : a \in DOMAIN config.stores} : s.id = rs[i].id]

Seeded(s) == LookupSeed(s) # {}

(* loadKVSSeedFile and loadKVSImportSource, with ParseSeed.                *)
Filled(s, content) == stores' = WithEntry(stores, s.id, content) /\ UNCHANGED <<stage, error>>
Seed(s, content) ==
  IF content = Broken THEN Fails(IF Seeded(s) THEN "seed" ELSE "import") /\ UNCHANGED stores ELSE Filled(s, content)

(* buildKVSStores, one store; a store that nothing reaches is not imported.*)
BuildKVSStore ==
  /\ stage = "stores" /\ Cardinality(DOMAIN stores) < Len(StoresInOrder)
  /\ LET s == StoresInOrder[Cardinality(DOMAIN stores) + 1]
         import == ~Seeded(s) /\ s.source # <<>> /\ s \in ReachableStores(config)
     IN  /\ CASE Seeded(s) -> Seed(s, seedFiles[SeedFile(s)])
              [] import /\ hasStore -> \E content \in Contents : Seed(s, content)
              [] import /\ ~hasStore -> Fails("noStore") /\ UNCHANGED stores
              [] OTHER -> Filled(s, <<>>)
         /\ fetched' = IF import /\ hasStore THEN fetched \cup {s} ELSE fetched
  /\ UNCHANGED <<options, files, booted, config, compiled, live>>

StoresBuilt ==
  /\ stage = "stores" /\ Cardinality(DOMAIN stores) = Len(StoresInOrder)
  /\ stage' = "functions"
  /\ UNCHANGED <<options, files, booted, config, stores, compiled, fetched, error, live>>

(* buildFunctions, one reachable function with its first store; on an      *)
(* error closeFunctions closes the others.                                 *)
ToCompile == {f \in ReachableFunctions(config) : f.id \notin DOMAIN compiled}
First(functions) ==
  CHOOSE f \in functions : \E i \in DOMAIN config.raw : /\ config.raw[i].id = f.id
                                                      /\ \A j \in 1 .. i - 1 : config.raw[j].id \notin Ids(functions)

Compile ==
  /\ stage = "functions" /\ ToCompile # {}
  /\ LET f == First(ToCompile)
         kvs == IF f.stores = <<>> THEN <<>> ELSE <<stores[f.stores[1].id]>>
     IN  IF f.code \in Compiling
         THEN compiled' = WithEntry(compiled, f.id, [code |-> f.code, kvs |-> kvs]) /\ UNCHANGED <<stage, error>>
         ELSE compiled' = <<>> /\ Fails("compile")
  /\ UNCHANGED <<options, files, booted, config, stores, fetched, live>>

(* dataplane.New, or the Swap at the end of reload.                        *)
Serve ==
  /\ stage = "functions" /\ ToCompile = {}
  /\ stage' = "serving" /\ booted' = TRUE
  /\ live' = [config |-> config, functions |-> compiled]
  /\ UNCHANGED <<options, files, config, stores, compiled, fetched, error>>

(* Files are saved at any moment; watchFiles reloads after a save.         *)
Save ==
  /\ saves < MaxSaves /\ stage # "exited"
  /\ saves' = saves + 1
  /\ \/ templates' \in Templates /\ UNCHANGED seedFiles
     \/ \E f \in DOMAIN seedFiles, c \in Contents : seedFiles' = [seedFiles EXCEPT ![f] = c] /\ UNCHANGED templates
  /\ UNCHANGED <<options, stage, booted, config, stores, compiled, fetched, error, live>>

Reload ==
  /\ stage = "serving" /\ saves > 0
  /\ stage' = "load"
  /\ UNCHANGED <<options, files, booted, config, stores, compiled, fetched, error, live>>

Next == LoadConfig \/ Check \/ BuildKVSStore \/ StoresBuilt \/ Compile \/ Serve \/ Save \/ Reload

Spec == Init /\ [][Next]_vars

-----------------------------------------------------------------------------
(* Properties.                                                             *)

FunctionsOf(c) == {r \in ToSet(c.raw) : r.type = "Function"}
NamesAreDistinct(c) == \A f, g \in FunctionsOf(c) : RawName(f, "Name", Word(f.id)) = RawName(g, "Name", Word(g.id)) => f = g

(* The resource a reference is written to, if it is one.                   *)
To(v, c) == IF v.kind \in {"ref", "getAtt"} THEN {v.to} \cap Ids(ToSet(c.raw)) ELSE {}

(***************************************************************************)
(* What is served runs what the templates wrote, through every rewriting   *)
(* of identifiers between the two: a behavior's reference to a function    *)
(* resource is served by that function, compiled from its code; a          *)
(* behavior's policies and key groups and a function's stores are, in the  *)
(* configuration, the resources they refer to.  (Two functions whose names *)
(* as written agree are taken for one: build.go:293.)                      *)
(***************************************************************************)
ReferencesBind ==
  LET c == live.config
      Raw(id) == Resource(ToSet(c.raw), id).props
      Refers(d, i) ==
        LET m == BehaviorsOf(Field(Raw(d.id), "DistributionConfig"))[i]
            b == d.behaviors[i]
            associations == Maps(m, "FunctionAssociations")
            groups == Maps(m, "TrustedKeyGroups")
        IN  /\ To(Field(m, "CachePolicyId"), c) \subseteq {b.cache.id}
            /\ To(Field(m, "OriginRequestPolicyId"), c) \subseteq Ids(b.orp)
            /\ To(Field(m, "ResponseHeadersPolicyId"), c) \subseteq Ids(b.rhp)
            /\ \A j \in DOMAIN groups : To(groups[j], c) \subseteq {b.keyGroups[j].id}
            /\ \A j \in DOMAIN associations : \A f \in To(Field(associations[j], "FunctionARN"), c) :
                 /\ b.functions[j].id = f
                 /\ d.enabled =>
                      /\ f \in DOMAIN live.functions
                      /\ Field(Raw(f), "FunctionCode").kind = "string" => live.functions[f].code = Text(Raw(f), "FunctionCode")
      Stores(f) ==
        LET associations == Maps(Field(Raw(f.id), "FunctionConfig"), "KeyValueStoreAssociations")
        IN  \A j \in DOMAIN associations : To(Field(associations[j], "KeyValueStoreARN"), c) \subseteq {f.stores[j].id}
  IN  NamesAreDistinct(c) =>
        /\ \A i \in DOMAIN c.distributions : \A j \in DOMAIN c.distributions[i].behaviors : Refers(c.distributions[i], j)
        /\ \A f \in c.functions : Stores(f)

(***************************************************************************)
(* The order of the --template options changes nothing: neither whether    *)
(* they load nor what they say (but for functions of the same name).       *)
(***************************************************************************)
OrderDoesNotMatter ==
  (stage = "check" \/ error = "templates") /\ saves = 0 =>
    LET other == Load(Reverse(templates), parameters)
        Said(c) == [c EXCEPT !.raw = ToSet(@), !.distributions = ToSet(@)]
    IN  NamesAreDistinct(config) => other.ok = config.ok /\ (config.ok => Said(other) = Said(config))

(***************************************************************************)
(* The check at startup foresees what seeding does: a startup it lets pass *)
(* never fails for lack of an object store, and one it refuses would have  *)
(* needed it.  A store with a seed file is never fetched, nor is one that  *)
(* no function of an enabled distribution uses: an "offline run needs      *)
(* neither the object store nor a reachable ImportSource"                  *)
(* (functions.go:111-112).                                                 *)
(***************************************************************************)
StartupCheckForesees ==
  LET functions == {f \in config.functions : \E d \in Enabled(config) : \E i \in DOMAIN d.behaviors : f \in ToSet(d.behaviors[i].functions)}
      used == {s \in {config.stores[a] : a \in DOMAIN config.stores} : \E f \in functions : s \in ToSet(f.stores)}
      imported == {s \in used : s.source # <<>> /\ {s.name, Word(s.id)} \cap DOMAIN seeds = {}}
  IN  /\ error = "noStore" => booted
      /\ error = "needsStore" => imported # {} \/ ConfigUsesS3(config)
      /\ fetched \subseteq imported

(***************************************************************************)
(* No two distributions served together have an alias in common, in any    *)
(* capitalisation: a request's host names one distribution.                *)
(***************************************************************************)
AliasesHaveOneOwner ==
  \A d, e \in ToSet(live.config.distributions) :
    {Lower(a) : a \in d.aliases} \cap {Lower(a) : a \in e.aliases} # {} => d = e
=============================================================================
