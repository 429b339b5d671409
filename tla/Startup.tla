------------------------------ MODULE Startup -------------------------------
(***************************************************************************)
(* What New and NewFromSessions make of their arguments: the options are   *)
(* applied one after the other, the configuration is checked, the servers  *)
(* are connected, and a Multiplexer with an entry per server is returned.  *)
(***************************************************************************)
EXTENDS Integers, Sequences, FiniteSetsExt

CONSTANTS
    Setups,  \* arguments of the constructors: [by, options, cfg, kindSettings],
             \* and the listings that are called afterwards: queries
    Served   \* tool lists as servers send them: sequences of tools

VARIABLES
    setup,        \* the constructor (by), its options and its configuration
    phase,        \* "options", "checks", "connecting", "ready" or "failed"
    todo,         \* options still to be applied
    opts,         \* mx.opts
    builtinCache, \* is mx.builtinCache set?
    err,          \* the error New returns
    servers       \* mx.servers: a function from names to entries

newVars == <<setup, phase, todo, opts, builtinCache, err>>
startVars == <<newVars, servers>>

-----------------------------------------------------------------------------
(* Options.  Durations, sizes, hooks and callbacks are integers; 0 is nil    *)
(* or the empty string.                                                      *)

defaultOptions ==
    [logger |-> 0, metrics |-> 0, callTimeout |-> 30, httpRetryMax |-> 5,
     clientName |-> 1, clientVersion |-> 1, cacheTTL |-> 30, cacheSize |-> 256,
     cache |-> 0, cacheDisabled |-> FALSE, cacheKey |-> 0, authFunc |-> 0,
     healthCheckInterval |-> 0, healthCheckSet |-> FALSE, schemaValidation |-> FALSE,
     onReconnect |-> 0, onToolsChanged |-> 0, onRejectedCall |-> 0, onConnect |-> 0,
     beforeCall |-> <<>>, afterCall |-> <<>>, resultTransform |-> <<>>,
     metaEnrichers |-> <<>>, resourceSingular |-> <<>>, customTransformers |-> <<>>]

\* The options that assign one field, and that field: of calls, of the cache,
\* the callbacks, and the rest.
CallSetting ==
    [WithCallTimeout |-> "callTimeout", WithHTTPRetryMax |-> "httpRetryMax",
     WithAuthFunc |-> "authFunc"]

CacheSetting ==
    [WithCacheTTL |-> "cacheTTL", WithCacheSize |-> "cacheSize", WithCacheKey |-> "cacheKey"]

CallbackSetting ==
    [WithOnReconnect |-> "onReconnect", WithOnToolsChanged |-> "onToolsChanged",
     WithMetrics |-> "metrics"]

ObserverSetting ==
    [WithLogger |-> "logger", WithOnRejectedCall |-> "onRejectedCall",
     WithOnConnect |-> "onConnect", WithSchemaValidation |-> "schemaValidation"]

Setting ==
    [w \in DOMAIN CallSetting \cup DOMAIN CacheSetting \cup DOMAIN CallbackSetting
                \cup DOMAIN ObserverSetting |->
        CASE w \in DOMAIN CallSetting -> CallSetting[w]
          [] w \in DOMAIN CacheSetting -> CacheSetting[w]
          [] w \in DOMAIN CallbackSetting -> CallbackSetting[w]
          [] w \in DOMAIN ObserverSetting -> ObserverSetting[w]]

\* The options that append to a list, and that list.
Chain ==
    [WithBeforeCall |-> "beforeCall", WithAfterCall |-> "afterCall",
     WithResultTransform |-> "resultTransform", WithMetaEnricher |-> "metaEnrichers"]

\* The options that add to a map, and that map.
Merge ==
    [WithResourceSingular |-> "resourceSingular", WithArgsTransformer |-> "customTransformers"]

\* A map to which another was added.
merged(old, new) ==
    [k \in DOMAIN old \cup DOMAIN new |-> IF k \in DOMAIN new THEN new[k] ELSE old[k]]

OptionNames ==
    DOMAIN Setting \cup DOMAIN Chain \cup DOMAIN Merge
        \cup {"WithCache", "WithoutCache", "WithHealthCheck", "WithClientIdentity"}

\* Values that an option ignores.
ignored(opt) ==
    \/ opt.with \in {"WithCallTimeout", "WithCacheTTL", "WithCacheSize"} /\ opt.v <= 0
    \/ opt.with = "WithHTTPRetryMax" /\ opt.v < 0
    \/ opt.with \in {"WithCache", "WithLogger", "WithMetrics"} /\ opt.v = 0

\* Variant: WithCache leaves cacheDisabled alone.
WithCacheOnly(o, c) == [o EXCEPT !.cache = c]

WithCache(o, c) == [o EXCEPT !.cache = c, !.cacheDisabled = FALSE]

WithoutCache(o) == [o EXCEPT !.cacheDisabled = TRUE, !.cache = 0]

WithHealthCheck(o, interval) ==
    [o EXCEPT !.healthCheckInterval = interval, !.healthCheckSet = TRUE]

WithClientIdentity(o, name, version) ==
    [o EXCEPT !.clientName = IF name = 0 THEN @ ELSE name,
              !.clientVersion = IF version = 0 THEN @ ELSE version]

apply(opt, o) ==
    CASE ignored(opt) -> o
      [] opt.with = "WithCache" /\ ~ignored(opt) -> WithCache(o, opt.v)
      [] opt.with = "WithoutCache" -> WithoutCache(o)
      [] opt.with = "WithHealthCheck" -> WithHealthCheck(o, opt.v)
      [] opt.with = "WithClientIdentity" -> WithClientIdentity(o, opt.v, opt.version)
      [] opt.with \in DOMAIN Chain -> [o EXCEPT ![Chain[opt.with]] = Append(@, opt.v)]
      [] opt.with \in DOMAIN Merge -> [o EXCEPT ![Merge[opt.with]] = merged(@, opt.v)]
      [] opt.with \in DOMAIN Setting /\ ~ignored(opt) -> [o EXCEPT ![Setting[opt.with]] = opt.v]

\* The cache that CallTool uses.
activeCache ==
    IF opts.cacheDisabled THEN "none"
    ELSE IF opts.cache # 0 THEN "custom"
    ELSE IF builtinCache THEN "built in" ELSE "none"

-----------------------------------------------------------------------------
(* The configuration *)

NoText == ""

ASSUME StartupAssumption ==
    /\ \A s \in Setups :
        /\ s.options \in Seq({s.options[i] : i \in DOMAIN s.options})
        /\ \A i \in DOMAIN s.options : s.options[i].with \in OptionNames
        /\ s.cfg \in Seq({s.cfg[i] : i \in DOMAIN s.cfg})
        /\ \A i \in DOMAIN s.cfg :
              DOMAIN s.cfg[i] = {"Name", "Kind", "Transport", "Binary", "URL", "Auth",
                                 "ArgsTransformers", "FieldMap"}
        /\ \/ s.by = "New"
           \* The names are the keys of a map, and all the configuration there is.
           \/ /\ s.by = "NewFromSessions"
              /\ s.kindSettings = <<>>
              /\ \A i \in DOMAIN s.cfg : s.cfg[i].Kind = NoText /\ ~s.cfg[i].Auth
              /\ \A i, j \in DOMAIN s.cfg : i # j => s.cfg[i].Name # s.cfg[j].Name
    /\ \A l \in Served : l \in Seq({l[i] : i \in DOMAIN l})

validate(c) ==
    CASE c.Name = NoText -> "name"
      [] c.Name # NoText /\ c.Transport = "stdio" -> IF c.Binary = NoText THEN "binary" ELSE "nil"
      [] c.Name # NoText /\ c.Transport \in {"http", "sse"} -> IF c.URL = NoText THEN "url" ELSE "nil"
      [] OTHER -> "transport"

\* The checks of New, in their order, up to the first that fails.
checkConfig(cfg, o) ==
    LET repeated(i) == \E j \in 1..(i - 1) : cfg[j].Name = cfg[i].Name
        bad == {i \in DOMAIN cfg : validate(cfg[i]) # "nil" \/ repeated(i)}
        first == CHOOSE i \in bad : \A j \in bad : i <= j
    IN  CASE o.healthCheckSet /\ o.healthCheckInterval <= 0 -> "interval"
          [] ~(o.healthCheckSet /\ o.healthCheckInterval <= 0) /\ bad # {} ->
                IF validate(cfg[first]) # "nil" THEN validate(cfg[first]) ELSE "duplicate"
          [] OTHER ->
                IF o.authFunc = 0 /\ \E i \in DOMAIN cfg : cfg[i].Auth
                THEN "no AuthFunc" ELSE "nil"

\* A tool without annotations has none of the hints, and is taken to destroy;
\* so is a read-only tool, unless a hint denies it.
toolInfo(server, t) ==
    LET a == t.annotations
        destructive == a.DestructiveHint # "false"
        readOnly == a.ReadOnlyHint
    IN  [Server |-> server, Name |-> t.Name, ReadOnly |-> readOnly,
         Destructive |-> destructive, Idempotent |-> a.IdempotentHint,
         Write |-> ~readOnly /\ ~destructive]

fetchTools(server, list) == [i \in DOMAIN list |-> toolInfo(server, list[i])]

\* A server without transformers, or field map, of its own has those of its kind.
withKindDefaults(c) ==
    IF c.Kind \in DOMAIN setup.kindSettings
    THEN LET ks == setup.kindSettings[c.Kind]
         IN  [c EXCEPT !.ArgsTransformers = IF @ = <<>> THEN ks.ArgsTransformers ELSE @,
                       !.FieldMap = IF @ = <<>> THEN ks.FieldMap ELSE @]
    ELSE c

entry(c, state, tools) == [config |-> c, state |-> state, tools |-> tools]

\* mx.servers with one more entry.
withEntry(name, e) ==
    [n \in DOMAIN servers \cup {name} |-> IF n = name THEN e ELSE servers[n]]

-----------------------------------------------------------------------------
(* New and NewFromSessions *)

StartInit ==
    /\ setup \in Setups
    /\ phase = "options"
    /\ todo = setup.options
    /\ opts = defaultOptions
    /\ builtinCache = FALSE
    /\ err = "nil"
    /\ servers = <<>>

appliesOption ==
    /\ phase = "options"
    /\ todo # <<>>
    /\ opts' = apply(Head(todo), opts)
    /\ todo' = Tail(todo)
    /\ UNCHANGED <<setup, phase, builtinCache, err, servers>>

\* New makes the built-in cache; NewFromSessions has no cache of its own and
\* checks nothing.
appliedOptions ==
    /\ phase = "options"
    /\ todo = <<>>
    /\ phase' = IF setup.by = "New" THEN "checks" ELSE "connecting"
    /\ builtinCache' = (setup.by = "New" /\ ~opts.cacheDisabled /\ opts.cache = 0)
    /\ UNCHANGED <<setup, todo, opts, err, servers>>

checks ==
    /\ phase = "checks"
    /\ err' = checkConfig(setup.cfg, opts)
    /\ phase' = IF err' = "nil" THEN "connecting" ELSE "failed"
    /\ UNCHANGED <<setup, todo, opts, builtinCache, servers>>

\* The servers are connected concurrently by New, in the order of a map by
\* NewFromSessions. One that cannot be reached gets a stub in state down; in
\* NewFromSessions it counts as connected, without tools.
registers(c) ==
    /\ phase = "connecting"
    /\ c.Name \notin DOMAIN servers
    /\ LET sc == withKindDefaults(c)
           unlisted == IF setup.by = "New" THEN "down" ELSE "connected"
       IN  \/ \E l \in Served :
                servers' = withEntry(c.Name, entry(sc, "connected", fetchTools(c.Name, l)))
           \/ servers' = withEntry(c.Name, entry(sc, unlisted, <<>>))
    /\ UNCHANGED newVars

Names == {setup.cfg[i].Name : i \in DOMAIN setup.cfg}

\* wg.Wait, and the Multiplexer is returned.
returns ==
    /\ phase = "connecting"
    /\ DOMAIN servers = Names
    /\ phase' = "ready"
    /\ UNCHANGED <<setup, todo, opts, builtinCache, err, servers>>

Start ==
    \/ appliesOption \/ appliedOptions \/ checks \/ returns
    \/ \E i \in DOMAIN setup.cfg : registers(setup.cfg[i])

-----------------------------------------------------------------------------
(* What the caller of the constructor may rely on. *)

\* Where in the list the options of these names are, without the ignored ones.
Given(withs) ==
    {i \in DOMAIN setup.options :
        setup.options[i].with \in withs /\ ~ignored(setup.options[i])}

LastOf(withs) == setup.options[Max(Given(withs))]

\* A list holds the values of the given options, in their order.
InOrder(list, given) ==
    /\ Len(list) = Cardinality(given)
    /\ \A i \in given : list[Cardinality({j \in given : j <= i})] = setup.options[i].v

\* The options that put a key into a map, and those with a name or a version.
Putting(w, key) == {i \in Given({w}) : key \in DOMAIN setup.options[i].v}
Identifying(field) == {i \in Given({"WithClientIdentity"}) : setup.options[i][field] # 0}

\* A map holds what the last option that put a key into it gave for that key.
PutTogether(map, w) ==
    /\ DOMAIN map = UNION {DOMAIN setup.options[i].v : i \in Given({w})}
    /\ \A key \in DOMAIN map : map[key] = setup.options[Max(Putting(w, key))].v[key]

\* The value of the client's identity that is known under a name.
Identity(field, default) ==
    IF Identifying(field) = {} THEN default ELSE setup.options[Max(Identifying(field))][field]

\* A configuration in use: a list or map of the server's own, or else its kind's.
ConfiguredAs(held, c) ==
    /\ \A f \in DOMAIN c \ {"ArgsTransformers", "FieldMap"} : held[f] = c[f]
    /\ \A f \in {"ArgsTransformers", "FieldMap"} :
          held[f] = IF c[f] = <<>> /\ c.Kind \in DOMAIN setup.kindSettings
                    THEN setup.kindSettings[c.Kind][f] ELSE c[f]

CacheOptionNames == {"WithCache", "WithoutCache"}

\* WithCache(nil) is the last of the options about the cache.
NilIsLast ==
    \E i \in DOMAIN setup.options :
        /\ setup.options[i].with = "WithCache" /\ ignored(setup.options[i])
        /\ \A j \in DOMAIN setup.options : setup.options[j].with \in CacheOptionNames => j <= i

\* Once the constructor has returned, whatever the order of the options and of
\* the connects: of several options for one thing (a setting, the health check,
\* the client's name or version, a key of a map) the last usable one counts,
\* hooks keep their order, and of several options about the cache the last one
\* decides, if it is not WithCache(nil) (options.go); every configured server has
\* its entry, reachable or not, and nobody else (multiplexer.go:107-113), with
\* the transformers and the field map of its own or else of its kind
\* (config.go:86-94); and a configuration that New turns down has caused no
\* connection, one that it takes has an AuthFunc for every server that needs one
\* (options.go:133-136).
StartsAsConfigured ==
    /\ phase = "ready" =>
        /\ \A w \in DOMAIN Setting :
                opts[Setting[w]] = IF Given({w}) = {} THEN defaultOptions[Setting[w]]
                                   ELSE LastOf({w}).v
        /\ \A w \in DOMAIN Chain : InOrder(opts[Chain[w]], Given({w}))
        /\ \A w \in DOMAIN Merge : PutTogether(opts[Merge[w]], w)
        /\ IF Given({"WithHealthCheck"}) = {} THEN ~opts.healthCheckSet
           ELSE opts.healthCheckSet /\ opts.healthCheckInterval = LastOf({"WithHealthCheck"}).v
        /\ opts.clientName = Identity("v", defaultOptions.clientName)
        /\ opts.clientVersion = Identity("version", defaultOptions.clientVersion)
        /\ Given(CacheOptionNames) = {} =>
                activeCache = IF setup.by = "New" THEN "built in" ELSE "none"
        /\ Given(CacheOptionNames) # {} /\ ~NilIsLast =>
                activeCache = IF LastOf(CacheOptionNames).with = "WithCache" THEN "custom" ELSE "none"
        /\ \A i \in DOMAIN setup.cfg :
                ConfiguredAs(servers[setup.cfg[i].Name].config, setup.cfg[i])
        /\ setup.by = "New" =>
                /\ Cardinality(DOMAIN servers) = Len(setup.cfg)
                /\ \A n \in DOMAIN servers :
                        servers[n].config.Auth =>
                            Given({"WithAuthFunc"}) # {} /\ LastOf({"WithAuthFunc"}).v # 0
    /\ phase = "failed" => servers = <<>>

\* options.go:239-240: "Passing nil keeps the built-in LRU. WithCache and
\* WithoutCache are mutually exclusive -- last one registered wins."  So with
\* WithCache(nil) behind the others, calls are answered from the built-in LRU.
NilKeepsBuiltIn ==
    phase = "ready" /\ setup.by = "New" /\ NilIsLast => activeCache = "built in"
=============================================================================
