---------------------------- MODULE StartupProofs ---------------------------
(***************************************************************************)
(* The constructors do what their options and their configuration say, for *)
(* any list of options, any configuration and any order of connects.       *)
(***************************************************************************)
EXTENDS ListingsProofs

SettingNames ==
    {"WithCallTimeout", "WithHTTPRetryMax", "WithAuthFunc", "WithCacheTTL", "WithCacheSize",
     "WithCacheKey", "WithOnReconnect", "WithOnToolsChanged", "WithMetrics", "WithLogger",
     "WithOnRejectedCall", "WithOnConnect", "WithSchemaValidation"}

SettingFields ==
    {"callTimeout", "httpRetryMax", "authFunc", "cacheTTL", "cacheSize", "cacheKey",
     "onReconnect", "onToolsChanged", "metrics", "logger", "onRejectedCall", "onConnect",
     "schemaValidation"}

ChainNames == {"WithBeforeCall", "WithAfterCall", "WithResultTransform", "WithMetaEnricher"}

ChainFields == {"beforeCall", "afterCall", "resultTransform", "metaEnrichers"}

MergeNames == {"WithResourceSingular", "WithArgsTransformer"}

MergeFields == {"resourceSingular", "customTransformers"}

OtherFields ==
    {"cache", "cacheDisabled", "healthCheckInterval", "healthCheckSet", "clientName", "clientVersion"}

-----------------------------------------------------------------------------
(* The tables of options *)

\* Which option sets which field.
LEMMA SettingTable ==
    /\ DOMAIN Setting = SettingNames
    /\ Setting["WithCallTimeout"] = "callTimeout" /\ Setting["WithHTTPRetryMax"] = "httpRetryMax"
    /\ Setting["WithAuthFunc"] = "authFunc" /\ Setting["WithCacheTTL"] = "cacheTTL"
    /\ Setting["WithCacheSize"] = "cacheSize" /\ Setting["WithCacheKey"] = "cacheKey"
    /\ Setting["WithOnReconnect"] = "onReconnect" /\ Setting["WithOnToolsChanged"] = "onToolsChanged"
    /\ Setting["WithMetrics"] = "metrics" /\ Setting["WithLogger"] = "logger"
    /\ Setting["WithOnRejectedCall"] = "onRejectedCall" /\ Setting["WithOnConnect"] = "onConnect"
    /\ Setting["WithSchemaValidation"] = "schemaValidation"
<1>1. /\ DOMAIN CallSetting = {"WithCallTimeout", "WithHTTPRetryMax", "WithAuthFunc"}
      /\ DOMAIN CacheSetting = {"WithCacheTTL", "WithCacheSize", "WithCacheKey"}
      /\ DOMAIN CallbackSetting = {"WithOnReconnect", "WithOnToolsChanged", "WithMetrics"}
      /\ DOMAIN ObserverSetting = {"WithLogger", "WithOnRejectedCall", "WithOnConnect", "WithSchemaValidation"}
  BY DEF CallSetting, CacheSetting, CallbackSetting, ObserverSetting
<1>2. DOMAIN Setting = SettingNames
  BY <1>1 DEF Setting, SettingNames
<1>3. /\ \A w \in DOMAIN CallSetting : Setting[w] = CallSetting[w]
      /\ \A w \in DOMAIN CacheSetting : Setting[w] = CacheSetting[w]
      /\ \A w \in DOMAIN CallbackSetting : Setting[w] = CallbackSetting[w]
      /\ \A w \in DOMAIN ObserverSetting : Setting[w] = ObserverSetting[w]
  BY <1>1 DEF Setting
<1>4. /\ CallSetting["WithCallTimeout"] = "callTimeout"
      /\ CallSetting["WithHTTPRetryMax"] = "httpRetryMax"
      /\ CallSetting["WithAuthFunc"] = "authFunc"
  BY DEF CallSetting
<1>5. /\ CacheSetting["WithCacheTTL"] = "cacheTTL"
      /\ CacheSetting["WithCacheSize"] = "cacheSize"
      /\ CacheSetting["WithCacheKey"] = "cacheKey"
  BY DEF CacheSetting
<1>6. /\ CallbackSetting["WithOnReconnect"] = "onReconnect"
      /\ CallbackSetting["WithOnToolsChanged"] = "onToolsChanged"
      /\ CallbackSetting["WithMetrics"] = "metrics"
  BY DEF CallbackSetting
<1>7. /\ ObserverSetting["WithLogger"] = "logger"
      /\ ObserverSetting["WithOnRejectedCall"] = "onRejectedCall"
      /\ ObserverSetting["WithOnConnect"] = "onConnect"
      /\ ObserverSetting["WithSchemaValidation"] = "schemaValidation"
  BY DEF ObserverSetting
<1> QED BY <1>1, <1>2, <1>3, <1>4, <1>5, <1>6, <1>7

\* Different options set different fields, and no other kind of option does.
LEMMA SettingFacts ==
    /\ DOMAIN Setting = SettingNames
    /\ \A w \in SettingNames : Setting[w] \in SettingFields
    /\ \A w, u \in SettingNames : Setting[w] = Setting[u] => w = u
<1>1. DOMAIN Setting = SettingNames
  BY SettingTable
<1>2. \A w \in SettingNames : Setting[w] \in SettingFields
  BY SettingTable DEF SettingNames, SettingFields
<1>3. \A w, u \in SettingNames : Setting[w] = Setting[u] => w = u
  BY SettingTable, SMTT(60) DEF SettingNames
<1> QED BY <1>1, <1>2, <1>3

\* Different options append to different lists.
LEMMA ChainFacts ==
    /\ DOMAIN Chain = ChainNames
    /\ \A w \in ChainNames : Chain[w] \in ChainFields
    /\ \A w, u \in ChainNames : Chain[w] = Chain[u] => w = u
<1>1. DOMAIN Chain = ChainNames
  BY DEF Chain, ChainNames
<1>2. /\ Chain["WithBeforeCall"] = "beforeCall" /\ Chain["WithAfterCall"] = "afterCall"
      /\ Chain["WithResultTransform"] = "resultTransform" /\ Chain["WithMetaEnricher"] = "metaEnrichers"
  BY DEF Chain
<1>3. \A w \in ChainNames : Chain[w] \in ChainFields
  BY <1>2 DEF ChainNames, ChainFields
<1>4. \A w, u \in ChainNames : Chain[w] = Chain[u] => w = u
  BY <1>2 DEF ChainNames
<1> QED BY <1>1, <1>3, <1>4

\* Which options add to a map.
LEMMA MergeFacts ==
    /\ DOMAIN Merge = MergeNames
    /\ \A w \in MergeNames : Merge[w] \in MergeFields
    /\ \A w, u \in MergeNames : Merge[w] = Merge[u] => w = u
<1>1. DOMAIN Merge = MergeNames
  BY DEF Merge, MergeNames
<1>2. Merge["WithResourceSingular"] = "resourceSingular" /\ Merge["WithArgsTransformer"] = "customTransformers"
  BY DEF Merge
<1> QED BY <1>1, <1>2 DEF MergeNames, MergeFields

\* The kinds of options write different fields.
LEMMA FieldFacts ==
    /\ DOMAIN defaultOptions = SettingFields \cup ChainFields \cup MergeFields \cup OtherFields
    /\ SettingFields \cap (ChainFields \cup MergeFields \cup OtherFields) = {}
    /\ ChainFields \cap (MergeFields \cup OtherFields) = {}
    /\ OtherFields \cap (SettingFields \cup ChainFields \cup MergeFields) = {}
<1>1. DOMAIN defaultOptions = SettingFields \cup ChainFields \cup MergeFields \cup OtherFields
  BY DEF defaultOptions, SettingFields, ChainFields, MergeFields, OtherFields
<1>2. SettingFields \cap (ChainFields \cup MergeFields \cup OtherFields) = {}
  BY DEF SettingFields, ChainFields, MergeFields, OtherFields
<1>3. ChainFields \cap (MergeFields \cup OtherFields) = {}
  BY DEF ChainFields, MergeFields, OtherFields
<1>4. OtherFields \cap (SettingFields \cup ChainFields \cup MergeFields) = {}
  BY DEF SettingFields, ChainFields, MergeFields, OtherFields
<1> QED BY <1>1, <1>2, <1>3, <1>4

-----------------------------------------------------------------------------
(* One option *)

Fields == DOMAIN defaultOptions

\* An option that is ignored does nothing.
LEMMA ApplyIgnored ==
    ASSUME NEW opt, NEW o, ignored(opt)
    PROVE  apply(opt, o) = o
<1>1. /\ opt.with \notin {"WithoutCache", "WithHealthCheck", "WithClientIdentity"}
      /\ opt.with \notin DOMAIN Chain /\ opt.with \notin DOMAIN Merge
  BY ChainFacts, MergeFacts DEF ignored, ChainNames, MergeNames
<1> QED BY <1>1 DEF apply

\* What an option does to the fields that one option assigns.
LEMMA ApplySetting ==
    ASSUME NEW opt, opt.with \in OptionNames, NEW o, DOMAIN o = Fields, NEW w \in SettingNames
    PROVE  apply(opt, o)[Setting[w]] =
              IF opt.with = w /\ ~ignored(opt) THEN opt.v ELSE o[Setting[w]]
<1>1. Setting[w] \in SettingFields /\ Setting[w] \in DOMAIN o
  BY SettingFacts, FieldFacts DEF Fields
<1>2. /\ Setting[w] \notin ChainFields /\ Setting[w] \notin MergeFields
      /\ Setting[w] \notin OtherFields
  BY <1>1, FieldFacts
<1>3. CASE ignored(opt)
  BY <1>3, ApplyIgnored
<1>4. CASE ~ignored(opt) /\ opt.with \in SettingNames
  <2>1. apply(opt, o) = [o EXCEPT ![Setting[opt.with]] = opt.v]
    BY <1>4, SettingFacts, ChainFacts, MergeFacts DEF apply, SettingNames, ChainNames, MergeNames
  <2> QED BY <1>1, <1>4, <2>1, SettingFacts
<1>5. CASE ~ignored(opt) /\ opt.with \in ChainNames
  <2>1. apply(opt, o) = [o EXCEPT ![Chain[opt.with]] = Append(@, opt.v)]
    BY <1>5, SettingFacts, ChainFacts, MergeFacts DEF apply, SettingNames, ChainNames, MergeNames
  <2>2. Chain[opt.with] # Setting[w] /\ opt.with # w
    BY <1>2, <1>5, ChainFacts DEF ChainNames, SettingNames
  <2> QED BY <1>1, <2>1, <2>2
<1>6. CASE ~ignored(opt) /\ opt.with \in MergeNames
  <2>1. apply(opt, o) = [o EXCEPT ![Merge[opt.with]] = merged(@, opt.v)]
    BY <1>6, SettingFacts, ChainFacts, MergeFacts DEF apply, SettingNames, ChainNames, MergeNames
  <2>2. Merge[opt.with] # Setting[w] /\ opt.with # w
    BY <1>2, <1>6, MergeFacts DEF MergeNames, SettingNames
  <2> QED BY <1>1, <2>1, <2>2
<1>7. CASE ~ignored(opt) /\ opt.with \in {"WithCache", "WithoutCache", "WithHealthCheck", "WithClientIdentity"}
  <2>1. /\ opt.with # w
        /\ Setting[w] # "cache" /\ Setting[w] # "cacheDisabled"
        /\ Setting[w] # "healthCheckInterval" /\ Setting[w] # "healthCheckSet"
        /\ Setting[w] # "clientName" /\ Setting[w] # "clientVersion"
    BY <1>2, <1>7 DEF SettingNames, OtherFields
  <2> QED
    BY <1>1, <1>7, <2>1, SettingFacts, ChainFacts, MergeFacts
    DEF apply, WithCache, WithoutCache, WithHealthCheck, WithClientIdentity,
        SettingNames, ChainNames, MergeNames
<1> QED BY <1>3, <1>4, <1>5, <1>6, <1>7, SettingFacts, ChainFacts, MergeFacts DEF OptionNames

\* ... to the lists of hooks: no such option is ever ignored.
LEMMA ApplyChain ==
    ASSUME NEW opt, opt.with \in OptionNames, NEW o, DOMAIN o = Fields, NEW w \in ChainNames
    PROVE  /\ apply(opt, o)[Chain[w]] =
                IF opt.with = w THEN Append(o[Chain[w]], opt.v) ELSE o[Chain[w]]
           /\ opt.with = w => ~ignored(opt)
<1>1. Chain[w] \in ChainFields /\ Chain[w] \in DOMAIN o
  BY ChainFacts, FieldFacts DEF Fields
<1>2. /\ Chain[w] \notin SettingFields /\ Chain[w] \notin MergeFields
      /\ Chain[w] \notin OtherFields
  BY <1>1, FieldFacts
<1>n. opt.with = w => ~ignored(opt)
  BY DEF ignored, ChainNames
<1>3. CASE ignored(opt)
  BY <1>3, <1>n, ApplyIgnored
<1>4. CASE ~ignored(opt) /\ opt.with \in SettingNames
  <2>1. apply(opt, o) = [o EXCEPT ![Setting[opt.with]] = opt.v]
    BY <1>4, SettingFacts, ChainFacts, MergeFacts DEF apply, SettingNames, ChainNames, MergeNames
  <2>2. Setting[opt.with] # Chain[w] /\ opt.with # w
    BY <1>2, <1>4, SettingFacts DEF ChainNames, SettingNames
  <2> QED BY <1>1, <1>n, <2>1, <2>2
<1>5. CASE ~ignored(opt) /\ opt.with \in ChainNames
  <2>1. apply(opt, o) = [o EXCEPT ![Chain[opt.with]] = Append(@, opt.v)]
    BY <1>5, SettingFacts, ChainFacts, MergeFacts DEF apply, SettingNames, ChainNames, MergeNames
  <2> QED BY <1>1, <1>5, <1>n, <2>1, ChainFacts
<1>6. CASE ~ignored(opt) /\ opt.with \in MergeNames
  <2>1. apply(opt, o) = [o EXCEPT ![Merge[opt.with]] = merged(@, opt.v)]
    BY <1>6, SettingFacts, ChainFacts, MergeFacts DEF apply, SettingNames, ChainNames, MergeNames
  <2>2. Merge[opt.with] # Chain[w] /\ opt.with # w
    BY <1>2, <1>6, MergeFacts DEF MergeNames, ChainNames
  <2> QED BY <1>1, <1>n, <2>1, <2>2
<1>7. CASE ~ignored(opt) /\ opt.with \in {"WithCache", "WithoutCache", "WithHealthCheck", "WithClientIdentity"}
  <2>1. /\ opt.with # w
        /\ Chain[w] # "cache" /\ Chain[w] # "cacheDisabled"
        /\ Chain[w] # "healthCheckInterval" /\ Chain[w] # "healthCheckSet"
        /\ Chain[w] # "clientName" /\ Chain[w] # "clientVersion"
    BY <1>2, <1>7 DEF ChainNames, OtherFields
  <2> QED
    BY <1>1, <1>7, <1>n, <2>1, SettingFacts, ChainFacts, MergeFacts
    DEF apply, WithCache, WithoutCache, WithHealthCheck, WithClientIdentity,
        SettingNames, ChainNames, MergeNames
<1> QED BY <1>3, <1>4, <1>5, <1>6, <1>7, SettingFacts, ChainFacts, MergeFacts DEF OptionNames

\* ... to the maps, where none is ignored either.
LEMMA ApplyMerge ==
    ASSUME NEW opt, opt.with \in OptionNames, NEW o, DOMAIN o = Fields, NEW w \in MergeNames
    PROVE  /\ apply(opt, o)[Merge[w]] =
                IF opt.with = w THEN merged(o[Merge[w]], opt.v) ELSE o[Merge[w]]
           /\ opt.with = w => ~ignored(opt)
<1>1. Merge[w] \in MergeFields /\ Merge[w] \in DOMAIN o
  BY MergeFacts, FieldFacts DEF Fields
<1>2. /\ Merge[w] \notin SettingFields /\ Merge[w] \notin ChainFields
      /\ Merge[w] \notin OtherFields
  BY <1>1, FieldFacts
<1>n. opt.with = w => ~ignored(opt)
  BY DEF ignored, MergeNames
<1>3. CASE ignored(opt)
  BY <1>3, <1>n, ApplyIgnored
<1>4. CASE ~ignored(opt) /\ opt.with \in SettingNames
  <2>1. apply(opt, o) = [o EXCEPT ![Setting[opt.with]] = opt.v]
    BY <1>4, SettingFacts, ChainFacts, MergeFacts DEF apply, SettingNames, ChainNames, MergeNames
  <2>2. Setting[opt.with] # Merge[w] /\ opt.with # w
    BY <1>2, <1>4, SettingFacts DEF MergeNames, SettingNames
  <2> QED BY <1>1, <1>n, <2>1, <2>2
<1>5. CASE ~ignored(opt) /\ opt.with \in ChainNames
  <2>1. apply(opt, o) = [o EXCEPT ![Chain[opt.with]] = Append(@, opt.v)]
    BY <1>5, SettingFacts, ChainFacts, MergeFacts DEF apply, SettingNames, ChainNames, MergeNames
  <2>2. Chain[opt.with] # Merge[w] /\ opt.with # w
    BY <1>2, <1>5, ChainFacts DEF MergeNames, ChainNames
  <2> QED BY <1>1, <1>n, <2>1, <2>2
<1>6. CASE ~ignored(opt) /\ opt.with \in MergeNames
  <2>1. apply(opt, o) = [o EXCEPT ![Merge[opt.with]] = merged(@, opt.v)]
    BY <1>6, SettingFacts, ChainFacts, MergeFacts DEF apply, SettingNames, ChainNames, MergeNames
  <2> QED BY <1>1, <1>6, <1>n, <2>1, MergeFacts
<1>7. CASE ~ignored(opt) /\ opt.with \in {"WithCache", "WithoutCache", "WithHealthCheck", "WithClientIdentity"}
  <2>1. /\ opt.with # w
        /\ Merge[w] # "cache" /\ Merge[w] # "cacheDisabled"
        /\ Merge[w] # "healthCheckInterval" /\ Merge[w] # "healthCheckSet"
        /\ Merge[w] # "clientName" /\ Merge[w] # "clientVersion"
    BY <1>2, <1>7 DEF MergeNames, OtherFields
  <2> QED
    BY <1>1, <1>7, <1>n, <2>1, SettingFacts, ChainFacts, MergeFacts
    DEF apply, WithCache, WithoutCache, WithHealthCheck, WithClientIdentity,
        SettingNames, ChainNames, MergeNames
<1> QED BY <1>3, <1>4, <1>5, <1>6, <1>7, SettingFacts, ChainFacts, MergeFacts DEF OptionNames

\* ... to the health check and the identity of the client ...
HealthAfter(opt, o, a) ==
    IF opt.with = "WithHealthCheck"
    THEN a["healthCheckSet"] = TRUE /\ a["healthCheckInterval"] = opt.v
    ELSE a["healthCheckSet"] = o["healthCheckSet"] /\ a["healthCheckInterval"] = o["healthCheckInterval"]

IdentityAfter(opt, o, a) ==
    /\ a["clientName"] =
          IF opt.with = "WithClientIdentity" /\ opt["v"] # 0 THEN opt["v"] ELSE o["clientName"]
    /\ a["clientVersion"] =
          IF opt.with = "WithClientIdentity" /\ opt["version"] # 0 THEN opt["version"]
          ELSE o["clientVersion"]

\* Each has its option.
LEMMA ApplyOther ==
    ASSUME NEW opt, opt.with \in OptionNames, NEW o, DOMAIN o = Fields
    PROVE  /\ HealthAfter(opt, o, apply(opt, o)) /\ IdentityAfter(opt, o, apply(opt, o))
           /\ opt.with \in {"WithHealthCheck", "WithClientIdentity"} => ~ignored(opt)
<1> DEFINE others == {"healthCheckSet", "healthCheckInterval", "clientName", "clientVersion"}
           same(a) == \A f \in others : a[f] = o[f]
<1>1. others \subseteq DOMAIN o /\ others \subseteq OtherFields
  BY FieldFacts DEF Fields, OtherFields
<1>2. \A f \in others : f \notin SettingFields /\ f \notin ChainFields /\ f \notin MergeFields
  BY <1>1, FieldFacts
<1>n. opt.with \in {"WithHealthCheck", "WithClientIdentity"} => ~ignored(opt)
  BY DEF ignored
<1>s. ASSUME NEW a, same(a), opt.with \notin {"WithHealthCheck", "WithClientIdentity"}
      PROVE  HealthAfter(opt, o, a) /\ IdentityAfter(opt, o, a)
  BY <1>s DEF HealthAfter, IdentityAfter
<1>3. CASE ignored(opt)
  BY <1>3, <1>n, <1>s, ApplyIgnored
<1>4. CASE ~ignored(opt) /\ opt.with \in SettingNames
  <2>1. apply(opt, o) = [o EXCEPT ![Setting[opt.with]] = opt.v]
    BY <1>4, SettingFacts, ChainFacts, MergeFacts DEF apply, SettingNames, ChainNames, MergeNames
  <2>2. Setting[opt.with] \notin others /\ opt.with \notin {"WithHealthCheck", "WithClientIdentity"}
    BY <1>2, <1>4, SettingFacts DEF SettingNames
  <2>3. same(apply(opt, o))
    BY <1>1, <2>1, <2>2
  <2> QED BY <1>n, <1>s, <2>2, <2>3
<1>5. CASE ~ignored(opt) /\ opt.with \in ChainNames
  <2>1. apply(opt, o) = [o EXCEPT ![Chain[opt.with]] = Append(@, opt.v)]
    BY <1>5, SettingFacts, ChainFacts, MergeFacts DEF apply, SettingNames, ChainNames, MergeNames
  <2>2. Chain[opt.with] \notin others /\ opt.with \notin {"WithHealthCheck", "WithClientIdentity"}
    BY <1>2, <1>5, ChainFacts DEF ChainNames
  <2>3. same(apply(opt, o))
    BY <1>1, <2>1, <2>2
  <2> QED BY <1>n, <1>s, <2>2, <2>3
<1>6. CASE ~ignored(opt) /\ opt.with \in MergeNames
  <2>1. apply(opt, o) = [o EXCEPT ![Merge[opt.with]] = merged(@, opt.v)]
    BY <1>6, SettingFacts, ChainFacts, MergeFacts DEF apply, SettingNames, ChainNames, MergeNames
  <2>2. Merge[opt.with] \notin others /\ opt.with \notin {"WithHealthCheck", "WithClientIdentity"}
    BY <1>2, <1>6, MergeFacts DEF MergeNames
  <2>3. same(apply(opt, o))
    BY <1>1, <2>1, <2>2
  <2> QED BY <1>n, <1>s, <2>2, <2>3
<1>7. CASE ~ignored(opt) /\ opt.with \in {"WithCache", "WithoutCache"}
  <2>1. apply(opt, o) = IF opt.with = "WithCache" THEN WithCache(o, opt.v) ELSE WithoutCache(o)
    BY <1>7, SettingFacts, ChainFacts, MergeFacts DEF apply, SettingNames, ChainNames, MergeNames
  <2>2. same(apply(opt, o))
    BY <1>1, <2>1 DEF WithCache, WithoutCache
  <2> QED BY <1>7, <1>n, <1>s, <2>2
<1>8. CASE ~ignored(opt) /\ opt.with = "WithHealthCheck"
  <2>1. apply(opt, o) = WithHealthCheck(o, opt.v)
    BY <1>8, SettingFacts, ChainFacts, MergeFacts DEF apply, SettingNames, ChainNames, MergeNames
  <2> QED BY <1>1, <1>8, <2>1 DEF WithHealthCheck, HealthAfter, IdentityAfter
<1>9. CASE ~ignored(opt) /\ opt.with = "WithClientIdentity"
  <2>1. apply(opt, o) = WithClientIdentity(o, opt.v, opt.version)
    BY <1>9, SettingFacts, ChainFacts, MergeFacts DEF apply, SettingNames, ChainNames, MergeNames
  <2> QED BY <1>1, <1>9, <2>1 DEF WithClientIdentity, HealthAfter, IdentityAfter
<1> QED BY <1>3, <1>4, <1>5, <1>6, <1>7, <1>8, <1>9, SettingFacts, ChainFacts, MergeFacts
        DEF OptionNames

\* ... and to the fields that choose the cache.
LEMMA ApplyCache ==
    ASSUME NEW opt, opt.with \in OptionNames, NEW o, DOMAIN o = Fields
    PROVE  LET a == apply(opt, o)
           IN  /\ DOMAIN a = Fields
               /\ opt.with = "WithCache" /\ ~ignored(opt) =>
                     a["cache"] # 0 /\ a["cacheDisabled"] = FALSE
               /\ opt.with = "WithoutCache" => a["cacheDisabled"] = TRUE /\ ~ignored(opt)
               /\ opt.with \notin {"WithCache", "WithoutCache"} \/ ignored(opt) =>
                     a["cache"] = o["cache"] /\ a["cacheDisabled"] = o["cacheDisabled"]
<1>1. /\ "cache" \in DOMAIN o /\ "cacheDisabled" \in DOMAIN o
      /\ \A f \in {"cache", "cacheDisabled"} : f \in OtherFields
      /\ \A f \in {"cache", "cacheDisabled"} :
            f \notin SettingFields /\ f \notin ChainFields /\ f \notin MergeFields
  BY FieldFacts DEF Fields, OtherFields
<1>2. opt.with = "WithoutCache" => ~ignored(opt)
  BY DEF ignored
<1>3. CASE ignored(opt)
  BY <1>2, <1>3, ApplyIgnored
<1>4. CASE ~ignored(opt) /\ opt.with \in SettingNames
  <2>1. apply(opt, o) = [o EXCEPT ![Setting[opt.with]] = opt.v]
    BY <1>4, SettingFacts, ChainFacts, MergeFacts DEF apply, SettingNames, ChainNames, MergeNames
  <2>2. Setting[opt.with] \notin {"cache", "cacheDisabled"} /\ opt.with \notin {"WithCache", "WithoutCache"}
    BY <1>1, <1>4, SettingFacts DEF SettingNames
  <2> QED BY <1>1, <2>1, <2>2
<1>5. CASE ~ignored(opt) /\ opt.with \in ChainNames
  <2>1. apply(opt, o) = [o EXCEPT ![Chain[opt.with]] = Append(@, opt.v)]
    BY <1>5, SettingFacts, ChainFacts, MergeFacts DEF apply, SettingNames, ChainNames, MergeNames
  <2>2. Chain[opt.with] \notin {"cache", "cacheDisabled"} /\ opt.with \notin {"WithCache", "WithoutCache"}
    BY <1>1, <1>5, ChainFacts DEF ChainNames
  <2> QED BY <1>1, <2>1, <2>2
<1>6. CASE ~ignored(opt) /\ opt.with \in MergeNames
  <2>1. apply(opt, o) = [o EXCEPT ![Merge[opt.with]] = merged(@, opt.v)]
    BY <1>6, SettingFacts, ChainFacts, MergeFacts DEF apply, SettingNames, ChainNames, MergeNames
  <2>2. Merge[opt.with] \notin {"cache", "cacheDisabled"} /\ opt.with \notin {"WithCache", "WithoutCache"}
    BY <1>1, <1>6, MergeFacts DEF MergeNames
  <2> QED BY <1>1, <2>1, <2>2
<1>7. CASE ~ignored(opt) /\ opt.with = "WithCache"
  <2>1. apply(opt, o) = WithCache(o, opt.v)
    BY <1>7, SettingFacts, ChainFacts, MergeFacts DEF apply, SettingNames, ChainNames, MergeNames
  <2>2. opt.v # 0
    BY <1>7 DEF ignored
  <2> QED BY <1>1, <1>7, <2>1, <2>2 DEF WithCache
<1>8. CASE ~ignored(opt) /\ opt.with \in {"WithoutCache", "WithHealthCheck", "WithClientIdentity"}
  BY <1>1, <1>8, SettingFacts, ChainFacts, MergeFacts
  DEF apply, WithoutCache, WithHealthCheck, WithClientIdentity,
      SettingNames, ChainNames, MergeNames
<1> QED BY <1>3, <1>4, <1>5, <1>6, <1>7, <1>8, SettingFacts, ChainFacts, MergeFacts DEF OptionNames

-----------------------------------------------------------------------------
(* The options so far *)

\* Where the options of these names are among the first k, without the ignored.
UpTo(ops, withs, k) ==
    {i \in DOMAIN ops : ops[i].with \in withs /\ ~ignored(ops[i]) /\ i <= k}

\* After k options, o holds what these say: of the options that assign a field,
AssignedBy(ops, k, o, w) ==
    o[Setting[w]] = IF UpTo(ops, {w}, k) = {} THEN defaultOptions[Setting[w]]
                    ELSE ops[Max(UpTo(ops, {w}, k))].v

\* of the options that append to a list,
ListsValues(ops, list, given) ==
    /\ list \in Seq(Range(list))
    /\ Len(list) = Cardinality(given)
    /\ \A i \in given : list[Cardinality({j \in given : j <= i})] = ops[i].v

\* of the options that put a key into a map, or name the client, which are among
\* the first k options those in a set,
Among(ops, T, k) == {i \in DOMAIN ops : ops[i] \in T /\ i <= k}

PuttingIn(ops, w, key) == {x \in Range(ops) : x.with = w /\ ~ignored(x) /\ key \in DOMAIN x.v}

IdentifyingIn(ops, field) ==
    {x \in Range(ops) : x.with = "WithClientIdentity" /\ ~ignored(x) /\ x[field] # 0}

PutBy(ops, k, map, w, key) ==
    LET given == Among(ops, PuttingIn(ops, w, key), k)
    IN  IF given = {} THEN key \notin DOMAIN map
        ELSE key \in DOMAIN map /\ map[key] = ops[Max(given)].v[key]

NamedBy(ops, k, value, field) ==
    LET given == Among(ops, IdentifyingIn(ops, field), k)
    IN  value = IF given = {} THEN 1 ELSE ops[Max(given)][field]

\* of WithHealthCheck,
HealthAs(ops, k, o) ==
    LET given == UpTo(ops, {"WithHealthCheck"}, k)
    IN  IF given = {} THEN o["healthCheckSet"] = FALSE
        ELSE o["healthCheckSet"] = TRUE /\ o["healthCheckInterval"] = ops[Max(given)].v

\* and of the options about the cache.
CacheNames == CacheOptionNames

CachedAs(ops, k, o) ==
    IF UpTo(ops, CacheNames, k) = {} THEN o["cache"] = 0 /\ o["cacheDisabled"] = FALSE
    ELSE IF ops[Max(UpTo(ops, CacheNames, k))].with = "WithCache"
    THEN o["cache"] # 0 /\ o["cacheDisabled"] = FALSE
    ELSE o["cacheDisabled"] = TRUE

Applied(ops, k, o) ==
    /\ DOMAIN o = Fields
    /\ \A w \in SettingNames : AssignedBy(ops, k, o, w)
    /\ \A w \in ChainNames : ListsValues(ops, o[Chain[w]], UpTo(ops, {w}, k))
    /\ \A w \in MergeNames : \A key : PutBy(ops, k, o[Merge[w]], w, key)
    /\ NamedBy(ops, k, o["clientName"], "v") /\ NamedBy(ops, k, o["clientVersion"], "version")
    /\ HealthAs(ops, k, o)
    /\ CachedAs(ops, k, o)

\* Positions up to k are among the first k.
LEMMA UpToFacts ==
    ASSUME NEW ops, ops \in Seq(Range(ops)), NEW withs, NEW k \in Nat
    PROVE  /\ UpTo(ops, withs, k) \subseteq 1..k
           /\ IsFiniteSet(UpTo(ops, withs, k))
           /\ UpTo(ops, withs, 0) = {}
<1>1. DOMAIN ops = 1..Len(ops) /\ Len(ops) \in Nat
  OBVIOUS
<1>2. UpTo(ops, withs, k) \subseteq 1..k /\ UpTo(ops, withs, 0) = {}
  BY <1>1 DEF UpTo
<1>3. IsFiniteSet(1..k)
  BY FS_Interval
<1> QED BY <1>2, <1>3, FS_Subset

\* A number behind others is their greatest.
LEMMA MaxNext ==
    ASSUME NEW k \in Nat, NEW S \in SUBSET (1..k)
    PROVE  Max(S \cup {k + 1}) = k + 1
<1> DEFINE T == S \cup {k + 1}
           isMax(x) == \A y \in T : x >= y
<1>1. k + 1 \in T /\ isMax(k + 1)
  OBVIOUS
<1>2. \A x \in T : isMax(x) => x = k + 1
  OBVIOUS
<1>3. Max(T) = CHOOSE x \in T : isMax(x)
  BY DEF Max
<1> HIDE DEF T, isMax
<1>4. Max(T) = k + 1
  BY <1>1, <1>2, <1>3
<1> QED BY <1>4 DEF T

\* The next option is the last of its names, or changes nothing.
LEMMA UpToNext ==
    ASSUME NEW ops, ops \in Seq(Range(ops)), NEW withs, NEW k \in Nat, k + 1 \in DOMAIN ops
    PROVE  IF ops[k + 1].with \in withs /\ ~ignored(ops[k + 1])
           THEN /\ UpTo(ops, withs, k + 1) = UpTo(ops, withs, k) \cup {k + 1}
                /\ UpTo(ops, withs, k + 1) # {}
                /\ Max(UpTo(ops, withs, k + 1)) = k + 1
           ELSE UpTo(ops, withs, k + 1) = UpTo(ops, withs, k)
<1>1. DOMAIN ops = 1..Len(ops) /\ Len(ops) \in Nat
  OBVIOUS
<1>2. \A i \in DOMAIN ops : i <= k + 1 <=> i <= k \/ i = k + 1
  BY <1>1
<1>3. IF ops[k + 1].with \in withs /\ ~ignored(ops[k + 1])
      THEN UpTo(ops, withs, k + 1) = UpTo(ops, withs, k) \cup {k + 1}
      ELSE UpTo(ops, withs, k + 1) = UpTo(ops, withs, k)
  BY <1>2 DEF UpTo
<1> QED BY <1>3, UpToFacts, MaxNext

\* The next option is the last in a set, or changes nothing.
LEMMA AmongNext ==
    ASSUME NEW ops, ops \in Seq(Range(ops)), NEW T, NEW k \in Nat, k + 1 \in DOMAIN ops
    PROVE  IF ops[k + 1] \in T
           THEN Among(ops, T, k + 1) # {} /\ Max(Among(ops, T, k + 1)) = k + 1
           ELSE Among(ops, T, k + 1) = Among(ops, T, k)
<1>1. DOMAIN ops = 1..Len(ops) /\ Len(ops) \in Nat
  OBVIOUS
<1>2. \A i \in DOMAIN ops : i <= k + 1 <=> i <= k \/ i = k + 1
  BY <1>1
<1>3. IF ops[k + 1] \in T
      THEN Among(ops, T, k + 1) = Among(ops, T, k) \cup {k + 1}
      ELSE Among(ops, T, k + 1) = Among(ops, T, k)
  BY <1>2 DEF Among
<1>4. Among(ops, T, k) \in SUBSET (1..k)
  BY <1>1 DEF Among
<1> QED BY <1>3, <1>4, MaxNext

\* A list of values, and one more.
LEMMA ListsNext ==
    ASSUME NEW ops, NEW list, NEW k \in Nat, NEW given \in SUBSET (1..k),
           ListsValues(ops, list, given)
    PROVE  ListsValues(ops, Append(list, ops[k + 1].v), given \cup {k + 1})
<1> DEFINE new == Append(list, ops[k + 1].v)
           more == given \cup {k + 1}
           place(i) == Cardinality({j \in given : j <= i})
           newRank(i) == Cardinality({j \in more : j <= i})
<1>1. list \in Seq(Range(list)) /\ Len(list) = Cardinality(given)
  BY DEF ListsValues
<1>2. IsFiniteSet(1..k) /\ IsFiniteSet(given)
  <2>1. IsFiniteSet(1..k)
    BY FS_Interval
  <2> QED BY <2>1, FS_Subset
<1>3. k + 1 \notin given
  OBVIOUS
<1>4. Cardinality(more) = Len(list) + 1
  BY <1>1, <1>2, <1>3, FS_AddElement
<1>5. /\ new \in Seq(Range(list) \cup {ops[k + 1].v}) /\ Len(new) = Len(list) + 1
      /\ new[Len(list) + 1] = ops[k + 1].v
      /\ \A i \in 1..Len(list) : new[i] = list[i]
  BY <1>1
<1>6. new \in Seq(Range(new))
  BY <1>5 DEF Range
<1>7. ASSUME NEW i \in given
      PROVE  new[newRank(i)] = ops[i].v
  <2>1. {j \in more : j <= i} = {j \in given : j <= i}
    <3>1. i \in Nat /\ i <= k
      OBVIOUS
    <3>2. ~(k + 1 <= i)
      BY <3>1
    <3> QED BY <3>2
  <2>2. {j \in given : j <= i} \subseteq given /\ i \in {j \in given : j <= i}
    <3>1. i \in Nat /\ i <= i
      OBVIOUS
    <3> QED BY <3>1
  <2>3. /\ IsFiniteSet({j \in given : j <= i})
        /\ Cardinality({j \in given : j <= i}) <= Cardinality(given)
    BY <1>2, <2>2, FS_Subset
  <2>4. Cardinality({j \in given : j <= i}) \in Nat /\ Cardinality({j \in given : j <= i}) # 0
    BY <2>2, <2>3, FS_CardinalityType, FS_EmptySet
  <2>5. place(i) \in 1..Len(list)
    BY <1>1, <2>3, <2>4
  <2>6. list[place(i)] = ops[i].v
    BY DEF ListsValues
  <2> QED BY <1>5, <2>1, <2>5, <2>6
<1>8. new[newRank(k + 1)] = ops[k + 1].v
  <2>1. {j \in more : j <= k + 1} = more
    <3>1. \A j \in more : j <= k + 1
      OBVIOUS
    <3> HIDE DEF more
    <3> QED BY <3>1
  <2> QED BY <1>4, <1>5, <2>1
<1>9. \A i \in more : new[newRank(i)] = ops[i].v
  BY <1>7, <1>8
<1> QED BY <1>4, <1>5, <1>6, <1>9 DEF ListsValues

\* Before the first option.
LEMMA AppliedNone ==
    ASSUME NEW ops, ops \in Seq(Range(ops))
    PROVE  Applied(ops, 0, defaultOptions)
<1>1. \A withs : UpTo(ops, withs, 0) = {}
  BY UpToFacts
<1>2. \A w \in SettingNames : AssignedBy(ops, 0, defaultOptions, w)
  BY <1>1 DEF AssignedBy
<1>3. \A w \in ChainNames : defaultOptions[Chain[w]] = <<>>
  BY ChainFacts DEF defaultOptions, ChainFields
<1>4. \A w \in ChainNames : ListsValues(ops, defaultOptions[Chain[w]], UpTo(ops, {w}, 0))
  <2>1. <<>> \in Seq(Range(<<>>)) /\ Len(<<>>) = 0
    BY EmptyFacts
  <2>2. Cardinality({}) = 0
    BY FS_EmptySet
  <2> QED BY <1>1, <1>3, <2>1, <2>2 DEF ListsValues
<1>5. CachedAs(ops, 0, defaultOptions)
  BY <1>1 DEF CachedAs, defaultOptions
<1>6. \A T : Among(ops, T, 0) = {}
  <2>1. DOMAIN ops = 1..Len(ops) /\ Len(ops) \in Nat
    OBVIOUS
  <2> QED BY <2>1 DEF Among
<1>7. \A w \in MergeNames : \A key : PutBy(ops, 0, defaultOptions[Merge[w]], w, key)
  <2>1. \A w \in MergeNames : defaultOptions[Merge[w]] = <<>>
    BY MergeFacts DEF defaultOptions, MergeFields
  <2> QED BY <1>6, <2>1, EmptyFacts DEF PutBy
<1>8. /\ NamedBy(ops, 0, defaultOptions["clientName"], "v")
      /\ NamedBy(ops, 0, defaultOptions["clientVersion"], "version")
  BY <1>6 DEF NamedBy, defaultOptions
<1>9. HealthAs(ops, 0, defaultOptions)
  BY <1>1 DEF HealthAs, defaultOptions
<1> QED BY <1>2, <1>4, <1>5, <1>7, <1>8, <1>9 DEF Applied, Fields

\* One option more.
LEMMA AppliedNext ==
    ASSUME NEW ops, ops \in Seq(Range(ops)), \A i \in DOMAIN ops : ops[i].with \in OptionNames,
           NEW k \in Nat, k + 1 \in DOMAIN ops, NEW o, Applied(ops, k, o)
    PROVE  Applied(ops, k + 1, apply(ops[k + 1], o))
<1> DEFINE opt == ops[k + 1]
           a == apply(ops[k + 1], o)
<1>1. opt.with \in OptionNames /\ DOMAIN o = Fields
  BY DEF Applied
<1>2. \A withs : IF opt.with \in withs /\ ~ignored(opt)
                 THEN /\ UpTo(ops, withs, k + 1) = UpTo(ops, withs, k) \cup {k + 1}
                      /\ UpTo(ops, withs, k + 1) # {}
                      /\ Max(UpTo(ops, withs, k + 1)) = k + 1
                 ELSE UpTo(ops, withs, k + 1) = UpTo(ops, withs, k)
  BY UpToNext
<1>3. \A withs : UpTo(ops, withs, k) \in SUBSET (1..k)
  BY UpToFacts
<1>4. /\ DOMAIN a = Fields
      /\ opt.with = "WithCache" /\ ~ignored(opt) => a["cache"] # 0 /\ a["cacheDisabled"] = FALSE
      /\ opt.with = "WithoutCache" => a["cacheDisabled"] = TRUE /\ ~ignored(opt)
      /\ opt.with \notin {"WithCache", "WithoutCache"} \/ ignored(opt) =>
            a["cache"] = o["cache"] /\ a["cacheDisabled"] = o["cacheDisabled"]
  BY <1>1, ApplyCache
<1>5. ASSUME NEW w \in SettingNames
      PROVE  AssignedBy(ops, k + 1, a, w)
  <2>1. a[Setting[w]] = IF opt.with = w /\ ~ignored(opt) THEN opt.v ELSE o[Setting[w]]
    BY <1>1, ApplySetting
  <2>2. AssignedBy(ops, k, o, w)
    BY DEF Applied
  <2> HIDE DEF a
  <2>3. CASE opt.with = w /\ ~ignored(opt)
    <3>1. UpTo(ops, {w}, k + 1) # {} /\ Max(UpTo(ops, {w}, k + 1)) = k + 1
      BY <1>2, <2>3
    <3> QED BY <2>1, <2>3, <3>1 DEF AssignedBy
  <2>4. CASE ~(opt.with = w /\ ~ignored(opt))
    <3>1. UpTo(ops, {w}, k + 1) = UpTo(ops, {w}, k)
      BY <1>2, <2>4
    <3> QED BY <2>1, <2>2, <2>4, <3>1 DEF AssignedBy
  <2> QED BY <2>3, <2>4
<1>6. ASSUME NEW w \in ChainNames
      PROVE  ListsValues(ops, a[Chain[w]], UpTo(ops, {w}, k + 1))
  <2>1. /\ a[Chain[w]] = IF opt.with = w THEN Append(o[Chain[w]], opt.v) ELSE o[Chain[w]]
        /\ opt.with = w => ~ignored(opt)
    BY <1>1, ApplyChain
  <2>2. ListsValues(ops, o[Chain[w]], UpTo(ops, {w}, k))
    BY DEF Applied
  <2> HIDE DEF a
  <2>3. CASE opt.with = w
    <3>1. UpTo(ops, {w}, k + 1) = UpTo(ops, {w}, k) \cup {k + 1}
      BY <1>2, <2>1, <2>3
    <3> DEFINE list == o[Chain[w]]
               given == UpTo(ops, {w}, k)
    <3>2. ListsValues(ops, list, given) /\ given \in SUBSET (1..k)
      BY <1>3, <2>2
    <3> HIDE DEF list, given
    <3>3. ListsValues(ops, Append(list, ops[k + 1].v), given \cup {k + 1})
      BY <3>2, ListsNext
    <3> QED BY <2>1, <2>3, <3>1, <3>3 DEF list, given
  <2>4. CASE opt.with # w
    BY <1>2, <2>1, <2>2, <2>4
  <2> QED BY <2>3, <2>4
<1>7. CachedAs(ops, k + 1, a)
  <2>1. CachedAs(ops, k, o)
    BY DEF Applied
  <2> HIDE DEF a
  <2>2. CASE opt.with \in CacheNames /\ ~ignored(opt)
    BY <1>2, <1>4, <2>2 DEF CachedAs, CacheNames, CacheOptionNames
  <2>3. CASE ~(opt.with \in CacheNames /\ ~ignored(opt))
    <3>1. UpTo(ops, CacheNames, k + 1) = UpTo(ops, CacheNames, k)
      BY <1>2, <2>3
    <3> QED BY <1>4, <2>1, <2>3, <3>1 DEF CachedAs, CacheNames, CacheOptionNames
  <2> QED BY <2>2, <2>3
<1>9. opt \in Range(ops)
  BY DEF Range
<1>10. ASSUME NEW w \in MergeNames, NEW key
       PROVE  PutBy(ops, k + 1, a[Merge[w]], w, key)
  <2> DEFINE T == PuttingIn(ops, w, key)
             old == o[Merge[w]]
             new == a[Merge[w]]
  <2>1. /\ new = IF opt.with = w THEN merged(old, opt.v) ELSE old
        /\ opt.with = w => ~ignored(opt)
    BY <1>1, ApplyMerge
  <2>2. PutBy(ops, k, old, w, key)
    BY DEF Applied
  <2>3. opt \in T <=> opt.with = w /\ key \in DOMAIN opt.v
    BY <1>9, <2>1 DEF PuttingIn
  <2>4. IF opt \in T THEN Among(ops, T, k + 1) # {} /\ Max(Among(ops, T, k + 1)) = k + 1
        ELSE Among(ops, T, k + 1) = Among(ops, T, k)
    <3> HIDE DEF T
    <3> QED BY AmongNext
  <2> HIDE DEF a, T, old, new, opt
  <2>5. CASE opt \in T
    <3>1. key \in DOMAIN new /\ new[key] = opt.v[key]
      BY <2>1, <2>3, <2>5 DEF merged
    <3> QED BY <2>4, <2>5, <3>1 DEF PutBy, T, new, opt
  <2>6. CASE opt \notin T
    <3>1. /\ key \in DOMAIN new <=> key \in DOMAIN old
          /\ key \in DOMAIN old => new[key] = old[key]
      BY <2>1, <2>3, <2>6 DEF merged
    <3> QED BY <2>2, <2>4, <2>6, <3>1 DEF PutBy, T, new
  <2> QED BY <2>5, <2>6
<1>11. /\ NamedBy(ops, k + 1, a["clientName"], "v")
       /\ NamedBy(ops, k + 1, a["clientVersion"], "version")
  <2>1. IdentityAfter(opt, o, a) /\ (opt.with = "WithClientIdentity" => ~ignored(opt))
    BY <1>1, ApplyOther
  <2>2. NamedBy(ops, k, o["clientName"], "v") /\ NamedBy(ops, k, o["clientVersion"], "version")
    BY DEF Applied
  <2>3. ASSUME NEW field, NEW old, NEW new, NamedBy(ops, k, old, field),
               new = IF opt.with = "WithClientIdentity" /\ opt[field] # 0 THEN opt[field] ELSE old
        PROVE  NamedBy(ops, k + 1, new, field)
    <3> DEFINE T == IdentifyingIn(ops, field)
    <3>1. opt \in T <=> opt.with = "WithClientIdentity" /\ opt[field] # 0
      BY <1>9, <2>1 DEF IdentifyingIn
    <3>2. IF opt \in T THEN Among(ops, T, k + 1) # {} /\ Max(Among(ops, T, k + 1)) = k + 1
          ELSE Among(ops, T, k + 1) = Among(ops, T, k)
      <4> HIDE DEF T
      <4> QED BY AmongNext
    <3> HIDE DEF T
    <3> QED BY <2>3, <3>1, <3>2 DEF NamedBy, T
  <2> HIDE DEF a, opt
  <2> QED BY <2>1, <2>2, <2>3 DEF IdentityAfter
<1>12. HealthAs(ops, k + 1, a)
  <2>1. HealthAfter(opt, o, a) /\ (opt.with = "WithHealthCheck" => ~ignored(opt))
    BY <1>1, ApplyOther
  <2>2. HealthAs(ops, k, o)
    BY DEF Applied
  <2> HIDE DEF a
  <2>3. CASE opt.with = "WithHealthCheck"
    <3>1. UpTo(ops, {"WithHealthCheck"}, k + 1) # {} /\ Max(UpTo(ops, {"WithHealthCheck"}, k + 1)) = k + 1
      BY <1>2, <2>1, <2>3
    <3> QED BY <2>1, <2>3, <3>1 DEF HealthAs, HealthAfter
  <2>4. CASE opt.with # "WithHealthCheck"
    <3>1. UpTo(ops, {"WithHealthCheck"}, k + 1) = UpTo(ops, {"WithHealthCheck"}, k)
      BY <1>2, <2>4
    <3> QED BY <2>1, <2>2, <2>4, <3>1 DEF HealthAs, HealthAfter
  <2> QED BY <2>3, <2>4
<1> HIDE DEF a
<1>8. Applied(ops, k + 1, a)
  BY <1>4, <1>5, <1>6, <1>7, <1>10, <1>11, <1>12 DEF Applied
<1> QED BY <1>8 DEF a

-----------------------------------------------------------------------------
(* The inductive invariant *)

\* How many options have been applied.
Done == Len(setup.options) - Len(todo)

\* What is left of the options is their end, and the others are applied.
OptionInv ==
    /\ todo \in Seq(Range(setup.options))
    /\ Len(todo) <= Len(setup.options)
    /\ \A i \in DOMAIN todo : todo[i] = setup.options[Done + i]
    /\ Applied(setup.options, Done, opts)
    /\ phase # "options" =>
          /\ todo = <<>>
          /\ builtinCache =
                (setup.by = "New" /\ opts["cacheDisabled"] = FALSE /\ opts["cache"] = 0)

\* A configuration that is in use is one that the checks let through.
Checked ==
    /\ \A i, j \in DOMAIN setup.cfg : i # j => setup.cfg[i].Name # setup.cfg[j].Name
    /\ setup.by = "New" =>
          opts["authFunc"] # 0 \/ \A i \in DOMAIN setup.cfg : ~setup.cfg[i].Auth

\* Every entry is that of a configured server.
ConfigInv ==
    /\ phase \in {"options", "checks", "connecting", "ready", "failed"}
    /\ phase \in {"options", "checks", "failed"} => servers = <<>>
    /\ phase \in {"connecting", "ready"} => Checked
    /\ phase = "ready" => DOMAIN servers = Names
    /\ \A n \in DOMAIN servers : \E i \in DOMAIN setup.cfg :
          n = setup.cfg[i].Name /\ servers[n].config = withKindDefaults(setup.cfg[i])

StartInv == OptionInv /\ ConfigInv

-----------------------------------------------------------------------------
(* The assumptions about a setup, in the words of the proofs *)

\* Options are known and configurations have their fields.
LEMMA SetupFacts ==
    ASSUME setup \in Setups
    PROVE  /\ setup.options \in Seq(Range(setup.options))
           /\ \A i \in DOMAIN setup.options : setup.options[i].with \in OptionNames
           /\ setup.cfg \in Seq(Range(setup.cfg))
           /\ \A i \in DOMAIN setup.cfg :
                 {"Name", "Kind", "Auth", "ArgsTransformers", "FieldMap"} \subseteq DOMAIN setup.cfg[i]
           /\ setup.by # "New" =>
                 \A i, j \in DOMAIN setup.cfg : i # j => setup.cfg[i].Name # setup.cfg[j].Name
<1>1. /\ setup.options \in Seq({setup.options[i] : i \in DOMAIN setup.options})
      /\ \A i \in DOMAIN setup.options : setup.options[i].with \in OptionNames
  BY StartupAssumption, Zenon
<1>2. setup.cfg \in Seq({setup.cfg[i] : i \in DOMAIN setup.cfg})
  BY StartupAssumption, Zenon
<1>3. \A i \in DOMAIN setup.cfg :
          DOMAIN setup.cfg[i] = {"Name", "Kind", "Transport", "Binary", "URL", "Auth",
                                 "ArgsTransformers", "FieldMap"}
  BY StartupAssumption, Zenon
<1>4. setup.by # "New" =>
          \A i, j \in DOMAIN setup.cfg : i # j => setup.cfg[i].Name # setup.cfg[j].Name
  BY StartupAssumption, Zenon
<1> QED BY <1>1, <1>2, <1>3, <1>4 DEF Range

\* The settings of a kind leave the rest of a configuration alone, and what the
\* server has of its own.
LEMMA KindDefaultsFacts ==
    ASSUME NEW c, {"Name", "Kind", "Auth", "ArgsTransformers", "FieldMap"} \subseteq DOMAIN c
    PROVE  /\ withKindDefaults(c).Auth = c.Auth
           /\ ConfiguredAs(withKindDefaults(c), c)
<1> DEFINE d == withKindDefaults(c)
           own(f) == IF c[f] = <<>> /\ c.Kind \in DOMAIN setup.kindSettings
                     THEN setup.kindSettings[c.Kind][f] ELSE c[f]
<1>1. /\ \A f \in DOMAIN c \ {"ArgsTransformers", "FieldMap"} : d[f] = c[f]
      /\ d["ArgsTransformers"] = own("ArgsTransformers") /\ d["FieldMap"] = own("FieldMap")
  BY DEF withKindDefaults
<1> HIDE DEF d
<1>2. ConfiguredAs(d, c)
  BY <1>1 DEF ConfiguredAs
<1>3. d["Auth"] = c["Auth"]
  BY <1>1
<1> QED BY <1>2, <1>3 DEF d

\* What a configuration is like in which New finds nothing wrong.
LEMMA CheckFacts ==
    ASSUME NEW cfg, cfg \in Seq(Range(cfg)), NEW o, checkConfig(cfg, o) = "nil"
    PROVE  /\ \A i, j \in DOMAIN cfg : i # j => cfg[i].Name # cfg[j].Name
           /\ o["authFunc"] # 0 \/ \A i \in DOMAIN cfg : ~cfg[i].Auth
<1> DEFINE repeated(i) == \E j \in 1..(i - 1) : cfg[j].Name = cfg[i].Name
           bad == {i \in DOMAIN cfg : validate(cfg[i]) # "nil" \/ repeated(i)}
           first == CHOOSE i \in bad : \A j \in bad : i <= j
           late == o.healthCheckSet /\ o.healthCheckInterval <= 0
<1>1. checkConfig(cfg, o) =
        CASE late -> "interval"
          [] ~late /\ bad # {} ->
                IF validate(cfg[first]) # "nil" THEN validate(cfg[first]) ELSE "duplicate"
          [] OTHER ->
                IF o.authFunc = 0 /\ \E i \in DOMAIN cfg : cfg[i].Auth
                THEN "no AuthFunc" ELSE "nil"
  BY DEF checkConfig
<1>2. bad = {} /\ ~late
  <2> HIDE DEF bad, late, first
  <2> QED BY <1>1
<1>3. o["authFunc"] # 0 \/ \A i \in DOMAIN cfg : ~cfg[i].Auth
  <2> HIDE DEF bad, late, first
  <2> QED BY <1>1, <1>2
<1>4. \A i \in DOMAIN cfg : ~repeated(i)
  BY <1>2
<1>5. \A i, j \in DOMAIN cfg : j < i => cfg[i].Name # cfg[j].Name
  <2>1. \A i, j \in DOMAIN cfg : j < i => j \in 1..(i - 1)
    OBVIOUS
  <2> QED BY <1>4, <2>1
<1>6. \A i, j \in DOMAIN cfg : i # j => i < j \/ j < i
  OBVIOUS
<1> QED BY <1>3, <1>5, <1>6

-----------------------------------------------------------------------------
(* The invariant is inductive, one step per action of the constructor *)

\* Before the first option.
LEMMA StartInitInv == Init => StartInv
<1> SUFFICES ASSUME StartInit PROVE StartInv
  BY DEF Init
<1>1. setup \in Setups /\ todo = setup.options /\ opts = defaultOptions
  BY DEF StartInit
<1>2. setup.options \in Seq(Range(setup.options))
  BY <1>1, SetupFacts
<1>3. Len(setup.options) \in Nat /\ Done = 0 /\ DOMAIN todo \subseteq Nat
  BY <1>1, <1>2 DEF Done
<1>4. Applied(setup.options, Done, opts)
  BY <1>1, <1>2, <1>3, AppliedNone
<1>5. \A i \in DOMAIN todo : todo[i] = setup.options[Done + i]
  BY <1>1, <1>3
<1>6. phase = "options" /\ servers = <<>> /\ DOMAIN <<>> = {}
  BY EmptyFacts DEF StartInit
<1>7. OptionInv
  BY <1>1, <1>2, <1>3, <1>4, <1>5, <1>6 DEF OptionInv
<1>8. ConfigInv
  BY <1>6 DEF ConfigInv
<1> QED BY <1>7, <1>8 DEF StartInv

\* One option is applied.
LEMMA AppliesStep ==
    ASSUME setup \in Setups, StartInv, appliesOption
    PROVE  StartInv'
<1>1. /\ setup' = setup /\ phase' = phase /\ phase = "options" /\ servers' = servers
      /\ todo # <<>> /\ todo' = Tail(todo) /\ opts' = apply(Head(todo), opts)
  BY DEF appliesOption
<1> DEFINE ops == setup.options
           k == Done
<1>2. /\ ops \in Seq(Range(ops)) /\ \A i \in DOMAIN ops : ops[i].with \in OptionNames
  BY SetupFacts
<1>3. /\ todo \in Seq(Range(ops)) /\ Len(todo) <= Len(ops)
      /\ \A i \in DOMAIN todo : todo[i] = ops[k + i]
      /\ Applied(ops, k, opts)
  BY DEF StartInv, OptionInv
<1>4. /\ Len(todo) \in Nat /\ Len(todo) > 0 /\ Len(ops) \in Nat
      /\ DOMAIN todo = 1..Len(todo) /\ DOMAIN ops = 1..Len(ops)
      /\ Head(todo) = todo[1] /\ Tail(todo) \in Seq(Range(ops))
      /\ Len(Tail(todo)) = Len(todo) - 1 /\ DOMAIN Tail(todo) = 1..(Len(todo) - 1)
      /\ \A i \in 1..(Len(todo) - 1) : Tail(todo)[i] = todo[i + 1]
  BY <1>1, <1>2, <1>3
<1>5. k \in Nat /\ k + 1 \in DOMAIN ops /\ Head(todo) = ops[k + 1]
  BY <1>3, <1>4 DEF Done
<1>6. Done' = k + 1
  BY <1>1, <1>4 DEF Done
<1> HIDE DEF k
<1>7. Applied(ops, k + 1, apply(ops[k + 1], opts))
  BY <1>2, <1>3, <1>5, AppliedNext
<1>8. Applied(setup.options, Done, opts)'
  BY <1>1, <1>5, <1>6, <1>7
<1>9. \A i \in DOMAIN Tail(todo) : Tail(todo)[i] = ops[(k + 1) + i]
  <2> SUFFICES ASSUME NEW i \in 1..(Len(todo) - 1) PROVE Tail(todo)[i] = ops[(k + 1) + i]
    BY <1>4
  <2>1. i + 1 \in DOMAIN todo /\ k + (i + 1) = (k + 1) + i
    BY <1>4, <1>5
  <2> QED BY <1>3, <1>4, <2>1
<1>10. OptionInv'
  <2>1. Len(todo') <= Len(setup'.options)
    BY <1>1, <1>3, <1>4
  <2> QED BY <1>1, <1>4, <1>6, <1>8, <1>9, <2>1 DEF OptionInv
<1>11. ConfigInv'
  BY <1>1, EmptyFacts DEF StartInv, ConfigInv
<1> QED BY <1>10, <1>11 DEF StartInv

\* OptionInv speaks of these variables only.
LEMMA OptionsSame ==
    ASSUME OptionInv, UNCHANGED <<setup, phase, todo, opts, builtinCache>>
    PROVE  OptionInv'
BY DEF OptionInv, Done

\* After the last option the built-in cache is made.
LEMMA AppliedOptionsStep ==
    ASSUME setup \in Setups, StartInv, appliedOptions
    PROVE  StartInv'
<1>1. /\ UNCHANGED <<setup, todo, opts, servers>> /\ phase = "options" /\ todo = <<>>
      /\ phase' = IF setup.by = "New" THEN "checks" ELSE "connecting"
      /\ builtinCache' = (setup.by = "New" /\ ~opts.cacheDisabled /\ opts.cache = 0)
  BY DEF appliedOptions
<1>2. OptionInv /\ servers = <<>>
  BY <1>1 DEF StartInv, ConfigInv
<1>3. Applied(setup.options, Done, opts)'
  BY <1>1, <1>2 DEF OptionInv, Done
<1>4. opts["cacheDisabled"] \in BOOLEAN
  BY <1>2 DEF OptionInv, Applied, CachedAs
<1>5. builtinCache' = (setup.by = "New" /\ opts["cacheDisabled"] = FALSE /\ opts["cache"] = 0)
  BY <1>1, <1>4
<1>6. OptionInv'
  BY <1>1, <1>2, <1>3, <1>5 DEF OptionInv, Done
<1>7. ConfigInv'
  <2>1. setup.by # "New" => Checked'
    BY <1>1, SetupFacts DEF Checked
  <2> QED BY <1>1, <1>2, <2>1, EmptyFacts DEF ConfigInv
<1> QED BY <1>6, <1>7 DEF StartInv

\* The checks of New let a configuration through, or nothing is opened.
LEMMA ChecksStep ==
    ASSUME setup \in Setups, StartInv, checks
    PROVE  StartInv'
<1>1. /\ UNCHANGED <<setup, todo, opts, builtinCache, servers>> /\ phase = "checks"
      /\ err' = checkConfig(setup.cfg, opts)
      /\ phase' = IF err' = "nil" THEN "connecting" ELSE "failed"
  BY DEF checks
<1>2. OptionInv /\ servers = <<>>
  BY <1>1 DEF StartInv, ConfigInv
<1>3. Applied(setup.options, Done, opts)'
  BY <1>1, <1>2 DEF OptionInv, Done
<1>4. OptionInv'
  BY <1>1, <1>2, <1>3 DEF OptionInv, Done
<1>5. phase' = "connecting" => Checked'
  <2> SUFFICES ASSUME err' = "nil" PROVE Checked'
    BY <1>1
  <2>1. setup.cfg \in Seq(Range(setup.cfg)) /\ checkConfig(setup.cfg, opts) = "nil"
    BY <1>1, SetupFacts
  <2>2. /\ \A i, j \in DOMAIN setup.cfg : i # j => setup.cfg[i].Name # setup.cfg[j].Name
        /\ opts["authFunc"] # 0 \/ \A i \in DOMAIN setup.cfg : ~setup.cfg[i].Auth
    BY <2>1, CheckFacts
  <2> QED BY <1>1, <2>2 DEF Checked
<1>6. ConfigInv'
  BY <1>1, <1>2, <1>5, EmptyFacts DEF ConfigInv
<1> QED BY <1>4, <1>6 DEF StartInv

\* The constructor returns when every server has its entry.
LEMMA ReturnsConstructor ==
    ASSUME StartInv, returns
    PROVE  StartInv'
<1>1. /\ UNCHANGED <<setup, todo, opts, builtinCache, servers>> /\ phase = "connecting"
      /\ phase' = "ready" /\ DOMAIN servers = Names
  BY DEF returns
<1>2. OptionInv /\ ConfigInv
  BY DEF StartInv
<1>3. Applied(setup.options, Done, opts)'
  BY <1>1, <1>2 DEF OptionInv, Done
<1>4. OptionInv'
  BY <1>1, <1>2, <1>3 DEF OptionInv, Done
<1>5. ConfigInv'
  <2>1. \A d : withKindDefaults(d)' = withKindDefaults(d)
    BY <1>1 DEF withKindDefaults
  <2> QED BY <1>1, <1>2, <2>1 DEF ConfigInv, Checked, Names
<1> QED BY <1>4, <1>5 DEF StartInv

\* Whatever a connect brought, the entry has its server's configuration.
LEMMA RegistersStep ==
    ASSUME StartInv, NEW i \in DOMAIN setup.cfg, registers(setup.cfg[i])
    PROVE  StartInv'
<1> DEFINE c == setup.cfg[i]
<1>1. /\ UNCHANGED <<setup, phase, todo, opts, builtinCache>> /\ phase = "connecting"
      /\ \E state, tools : servers' = withEntry(c.Name, entry(withKindDefaults(c), state, tools))
  BY DEF registers, newVars
<1>2. PICK state, tools : servers' = withEntry(c.Name, entry(withKindDefaults(c), state, tools))
  BY <1>1
<1>3. OptionInv /\ ConfigInv
  BY DEF StartInv
<1>4. OptionInv'
  BY <1>1, <1>3, OptionsSame
<1>5. ASSUME NEW n \in DOMAIN servers'
      PROVE  \E j \in DOMAIN setup.cfg :
                n = setup.cfg[j].Name /\ servers'[n].config = withKindDefaults(setup.cfg[j])
  <2>1. CASE n = c.Name
    <3>1. servers'[n] = entry(withKindDefaults(c), state, tools)
      BY <1>2, <2>1 DEF withEntry
    <3>2. servers'[n].config = withKindDefaults(c)
      BY <3>1 DEF entry
    <3> QED BY <2>1, <3>2
  <2>2. CASE n # c.Name
    <3>1. n \in DOMAIN servers /\ servers'[n] = servers[n]
      BY <1>2, <1>5, <2>2 DEF withEntry
    <3> QED BY <1>3, <3>1 DEF ConfigInv
  <2> QED BY <2>1, <2>2
<1>6. \A d : withKindDefaults(d)' = withKindDefaults(d)
  BY <1>1 DEF withKindDefaults
<1>7. ConfigInv'
  BY <1>1, <1>3, <1>5, <1>6 DEF ConfigInv, Checked
<1> QED BY <1>4, <1>7 DEF StartInv

\* What happens afterwards leaves the configurations alone.
LEMMA BecomesConfig ==
    ASSUME EntryInv, StartInv, NEW n \in DOMAIN servers, NEW state, NEW tools,
           becomes(n, state, tools)
    PROVE  StartInv'
<1>1. /\ UNCHANGED <<setup, phase, todo, opts, builtinCache>> /\ phase = "ready"
      /\ servers' = [servers EXCEPT ![n].state = state, ![n].tools = tools]
  BY DEF becomes, newVars
<1>2. OptionInv /\ ConfigInv
  BY DEF StartInv
<1>3. OptionInv'
  BY <1>1, <1>2, OptionsSame
<1>4. DOMAIN servers' = DOMAIN servers
  BY <1>1
<1>5. ASSUME NEW m \in DOMAIN servers
      PROVE  servers'[m].config = servers[m].config
  <2>1. servers[m] = entry(servers[m].config, servers[m].state, servers[m].tools)
    BY DEF EntryInv
  <2>2. CASE m = n
    BY <1>1, <2>1, <2>2 DEF entry
  <2>3. CASE m # n
    BY <1>1, <2>3
  <2> QED BY <2>2, <2>3
<1>6. \A d : withKindDefaults(d)' = withKindDefaults(d)
  BY <1>1 DEF withKindDefaults
<1>7. ConfigInv'
  BY <1>1, <1>2, <1>4, <1>5, <1>6 DEF ConfigInv, Checked, Names
<1> QED BY <1>3, <1>7 DEF StartInv

\* Steps that touch neither the options nor the entries.
LEMMA StartSame ==
    ASSUME StartInv, UNCHANGED startVars
    PROVE  StartInv'
<1>1. UNCHANGED <<setup, phase, todo, opts, builtinCache, servers>>
  BY DEF startVars, newVars
<1>2. OptionInv /\ ConfigInv
  BY DEF StartInv
<1>3. OptionInv'
  BY <1>1, <1>2, OptionsSame
<1>4. \A d : withKindDefaults(d)' = withKindDefaults(d)
  BY <1>1 DEF withKindDefaults
<1>5. ConfigInv'
  BY <1>1, <1>2, <1>4 DEF ConfigInv, Checked, Names
<1> QED BY <1>3, <1>5 DEF StartInv

\* Every step preserves the invariant.
LEMMA StartInvStep == IInv /\ StartInv /\ [Next]_vars => StartInv'
<1> SUFFICES ASSUME IInv, StartInv, [Next]_vars PROVE StartInv'
  OBVIOUS
<1>1. setup \in Setups /\ EntryInv
  BY DEF IInv, TypeInv
<1>2. CASE start
  BY <1>1, <1>2, AppliesStep, AppliedOptionsStep, ChecksStep, ReturnsConstructor, RegistersStep
  DEF start, Start
<1>3. CASE \E c \in Callers : \E q \in setup.queries : calls(c, q) \/ looksUp(c, q)
  BY <1>3, StartSame DEF calls, begins, looksUp
<1>4. CASE \E c \in Callers : callerStep(c)
  BY <1>4, StartSame
  DEF callerStep, listsThen, begins, skips, reads, groupsLoads, groupsReads, remember, returnsList
<1>5. CASE \E n \in DOMAIN servers : reconnected(n) \/ foundDead(n) \/ refreshed(n)
  BY <1>1, <1>5, BecomesConfig DEF reconnected, foundDead, refreshed
<1>8. CASE \E n \in DOMAIN servers : fallsSilent(n) \/ answersAgain(n)
  BY <1>8, StartSame DEF fallsSilent, answersAgain
<1>6. CASE Close \/ closeLocks \/ closeReturns
  BY <1>6, StartSame DEF Close, closeLocks, closeReturns, closeStep
<1>7. CASE UNCHANGED vars
  BY <1>7, StartSame DEF vars
<1> QED BY <1>2, <1>3, <1>4, <1>5, <1>6, <1>7, <1>8 DEF Next

\* The constructors apply their options in order and their entries are those
\* of the configured servers, in every reachable state.
THEOREM StartInductive == Spec => []StartInv
<1>1. Spec => []IInv
  BY InductiveInvariant
<1>2. Init => StartInv
  BY StartInitInv
<1>3. IInv /\ StartInv /\ [Next]_vars => StartInv'
  BY StartInvStep
<1> QED BY <1>1, <1>2, <1>3, PTL DEF Spec

-----------------------------------------------------------------------------
(* The property *)

\* Different names make as many entries as there are configurations.
LEMMA CountNames ==
    ASSUME setup \in Setups, Checked
    PROVE  Cardinality(Names) = Len(setup.cfg)
<1> DEFINE cfg == setup.cfg
           f == [i \in DOMAIN cfg |-> cfg[i].Name]
<1>1. cfg \in Seq(Range(cfg))
  BY SetupFacts
<1>2. DOMAIN cfg = 1..Len(cfg) /\ Len(cfg) \in Nat
  BY <1>1
<1>3. Names = {cfg[i].Name : i \in DOMAIN cfg}
  BY DEF Names
<1>4. \A i, j \in DOMAIN cfg : i # j => cfg[i].Name # cfg[j].Name
  BY DEF Checked
<1> HIDE DEF cfg
<1>5. f \in [DOMAIN cfg -> Names] /\ \A i \in DOMAIN cfg : f[i] = cfg[i].Name
  BY <1>3
<1>6. f \in Injection(DOMAIN cfg, Names) /\ f \in Surjection(DOMAIN cfg, Names)
  <2> HIDE DEF f
  <2>1. \A i, j \in DOMAIN cfg : f[i] = f[j] => i = j
    BY <1>4, <1>5
  <2>2. \A n \in Names : \E i \in DOMAIN cfg : f[i] = n
    BY <1>3, <1>5
  <2> QED BY <1>5, <2>1, <2>2 DEF Injection, Surjection, IsInjective
<1>7. ExistsBijection(DOMAIN cfg, Names)
  BY <1>6 DEF ExistsBijection, Bijection
<1>8. IsFiniteSet(1..Len(cfg)) /\ Cardinality(1..Len(cfg)) = Len(cfg)
  <2>1. 1 \in Int /\ Len(cfg) \in Int
    BY <1>2
  <2>2. /\ IsFiniteSet(1..Len(cfg))
        /\ Cardinality(1..Len(cfg)) = IF 1 > Len(cfg) THEN 0 ELSE Len(cfg) - 1 + 1
    BY <2>1, FS_Interval, Zenon
  <2> QED BY <1>2, <2>2
<1>9. Cardinality(Names) = Cardinality(DOMAIN cfg)
  BY <1>2, <1>7, <1>8, FS_Bijection
<1> QED BY <1>2, <1>8, <1>9 DEF cfg

\* After the last option, the positions up to here are all of them.
LEMMA AllGiven ==
    ASSUME setup \in Setups, NEW withs
    PROVE  UpTo(setup.options, withs, Len(setup.options)) = Given(withs)
<1>1. setup.options \in Seq(Range(setup.options))
  BY SetupFacts
<1>2. \A i \in DOMAIN setup.options : i <= Len(setup.options)
  BY <1>1
<1> QED BY <1>2 DEF UpTo, Given

\* The same for the options in a set.
LEMMA AllAmong ==
    ASSUME setup \in Setups
    PROVE  /\ \A w, key : Among(setup.options, PuttingIn(setup.options, w, key),
                                Len(setup.options)) = Putting(w, key)
           /\ \A field : Among(setup.options, IdentifyingIn(setup.options, field),
                                Len(setup.options)) = Identifying(field)
<1>1. setup.options \in Seq(Range(setup.options))
  BY SetupFacts
<1>2. \A i \in DOMAIN setup.options : i <= Len(setup.options)
  BY <1>1
<1>3. \A i \in DOMAIN setup.options : setup.options[i] \in Range(setup.options)
  BY DEF Range
<1>4. ASSUME NEW w, NEW key
      PROVE  Among(setup.options, PuttingIn(setup.options, w, key), Len(setup.options))
                = Putting(w, key)
  BY <1>2, <1>3 DEF Among, PuttingIn, Putting, Given
<1>5. ASSUME NEW field
      PROVE  Among(setup.options, IdentifyingIn(setup.options, field), Len(setup.options))
                = Identifying(field)
  BY <1>2, <1>3 DEF Among, IdentifyingIn, Identifying, Given
<1> QED BY <1>4, <1>5

\* Once a constructor has returned, the options count and the servers are there
\* as the arguments say, and a configuration that New turned down has caused no
\* connection: for any list of options, any configuration and any order in
\* which the servers connect.
THEOREM StartsAsConfiguredHolds == Spec => []StartsAsConfigured
<1>1. ASSUME IInv, StartInv
      PROVE  StartsAsConfigured
  <2>1. setup \in Setups /\ OptionInv /\ ConfigInv
    BY <1>1 DEF StartInv, IInv, TypeInv
  <2>2. phase = "failed" => servers = <<>>
    BY <2>1 DEF ConfigInv
  <2>3. ASSUME phase = "ready"
        PROVE  /\ \A w \in DOMAIN Setting :
                     opts[Setting[w]] = IF Given({w}) = {} THEN defaultOptions[Setting[w]]
                                        ELSE LastOf({w}).v
               /\ \A w \in DOMAIN Chain : InOrder(opts[Chain[w]], Given({w}))
               /\ \A w \in DOMAIN Merge : PutTogether(opts[Merge[w]], w)
               /\ IF Given({"WithHealthCheck"}) = {} THEN ~opts.healthCheckSet
                  ELSE /\ opts.healthCheckSet
                       /\ opts.healthCheckInterval = LastOf({"WithHealthCheck"}).v
               /\ opts.clientName = Identity("v", defaultOptions.clientName)
               /\ opts.clientVersion = Identity("version", defaultOptions.clientVersion)
               /\ activeCache =
                     IF Given(CacheOptionNames) = {}
                     THEN IF setup.by = "New" THEN "built in" ELSE "none"
                     ELSE IF LastOf(CacheOptionNames).with = "WithCache"
                          THEN "custom" ELSE "none"
    <3>1. Len(setup.options) \in Nat
      BY <2>1, SetupFacts
    <3>2. todo = <<>> /\ Done = Len(setup.options)
      BY <2>1, <2>3, <3>1 DEF OptionInv, Done
    <3>3. Applied(setup.options, Len(setup.options), opts)
      BY <2>1, <3>2 DEF OptionInv
    <3>4. \A withs : UpTo(setup.options, withs, Len(setup.options)) = Given(withs)
      BY <2>1, AllGiven
    <3>5. \A w \in DOMAIN Setting :
              opts[Setting[w]] = IF Given({w}) = {} THEN defaultOptions[Setting[w]]
                                 ELSE LastOf({w}).v
      BY <3>3, <3>4, SettingFacts DEF Applied, AssignedBy, LastOf
    <3>6. \A w \in DOMAIN Chain : InOrder(opts[Chain[w]], Given({w}))
      <4> SUFFICES ASSUME NEW w \in ChainNames PROVE InOrder(opts[Chain[w]], Given({w}))
        BY ChainFacts
      <4>1. ListsValues(setup.options, opts[Chain[w]], Given({w}))
        BY <3>3, <3>4 DEF Applied
      <4> DEFINE list == opts[Chain[w]]
                 given == Given({w})
      <4> HIDE DEF list, given
      <4>2. ListsValues(setup.options, list, given)
        BY <4>1 DEF list, given
      <4>3. InOrder(list, given)
        BY <4>2 DEF ListsValues, InOrder
      <4> QED BY <4>3 DEF list, given
    <3>7. builtinCache = (setup.by = "New" /\ opts["cacheDisabled"] = FALSE /\ opts["cache"] = 0)
      BY <2>1, <2>3 DEF OptionInv
    <3>8. IF Given(CacheNames) = {} THEN opts["cache"] = 0 /\ opts["cacheDisabled"] = FALSE
          ELSE IF LastOf(CacheNames).with = "WithCache"
          THEN opts["cache"] # 0 /\ opts["cacheDisabled"] = FALSE
          ELSE opts["cacheDisabled"] = TRUE
      BY <3>3, <3>4 DEF Applied, CachedAs, LastOf
    <3>9. activeCache =
              IF Given(CacheNames) = {}
              THEN IF setup.by = "New" THEN "built in" ELSE "none"
              ELSE IF LastOf(CacheNames).with = "WithCache" THEN "custom" ELSE "none"
      BY <3>7, <3>8 DEF activeCache
    <3>10. /\ \A w, key : Among(setup.options, PuttingIn(setup.options, w, key),
                                 Len(setup.options)) = Putting(w, key)
           /\ \A field : Among(setup.options, IdentifyingIn(setup.options, field),
                                 Len(setup.options)) = Identifying(field)
      BY <2>1, AllAmong
    <3>11. ASSUME NEW w \in DOMAIN Merge PROVE PutTogether(opts[Merge[w]], w)
      <4> DEFINE map == opts[Merge[w]]
      <4>1. w \in MergeNames
        BY MergeFacts
      <4>2. \A key : PutBy(setup.options, Len(setup.options), map, w, key)
        BY <3>3, <4>1 DEF Applied
      <4> HIDE DEF map
      <4>3. \A key : IF Putting(w, key) = {} THEN key \notin DOMAIN map
                     ELSE /\ key \in DOMAIN map
                          /\ map[key] = setup.options[Max(Putting(w, key))].v[key]
        BY <3>10, <4>2 DEF PutBy
      <4>4. \A key : Putting(w, key) # {} <=> \E i \in Given({w}) : key \in DOMAIN setup.options[i].v
        BY DEF Putting
      <4>5. DOMAIN map = UNION {DOMAIN setup.options[i].v : i \in Given({w})}
        BY <4>3, <4>4
      <4>6. \A key \in DOMAIN map : map[key] = setup.options[Max(Putting(w, key))].v[key]
        BY <4>3
      <4>7. PutTogether(map, w)
        BY <4>5, <4>6 DEF PutTogether
      <4> QED BY <4>7 DEF map
    <3>12. /\ opts["clientName"] = Identity("v", defaultOptions["clientName"])
           /\ opts["clientVersion"] = Identity("version", defaultOptions["clientVersion"])
      <4>1. defaultOptions["clientName"] = 1 /\ defaultOptions["clientVersion"] = 1
        BY DEF defaultOptions
      <4>2. /\ NamedBy(setup.options, Len(setup.options), opts["clientName"], "v")
            /\ NamedBy(setup.options, Len(setup.options), opts["clientVersion"], "version")
        BY <3>3 DEF Applied
      <4> QED BY <3>10, <4>1, <4>2 DEF NamedBy, Identity
    <3>13. IF Given({"WithHealthCheck"}) = {} THEN opts["healthCheckSet"] = FALSE
           ELSE /\ opts["healthCheckSet"] = TRUE
                /\ opts["healthCheckInterval"] = LastOf({"WithHealthCheck"}).v
      BY <3>3, <3>4 DEF Applied, HealthAs, LastOf
    <3> QED BY <3>5, <3>6, <3>9, <3>11, <3>12, <3>13 DEF CacheNames
  <2>4. ASSUME phase = "ready"
        PROVE  /\ \A i \in DOMAIN setup.cfg :
                     ConfiguredAs(servers[setup.cfg[i].Name].config, setup.cfg[i])
               /\ setup.by = "New" =>
                     /\ Cardinality(DOMAIN servers) = Len(setup.cfg)
                     /\ \A n \in DOMAIN servers :
                           servers[n].config.Auth =>
                               Given({"WithAuthFunc"}) # {} /\ LastOf({"WithAuthFunc"}).v # 0
    <3>1. /\ Checked /\ DOMAIN servers = Names
          /\ \A n \in DOMAIN servers : \E i \in DOMAIN setup.cfg :
                n = setup.cfg[i].Name /\ servers[n].config = withKindDefaults(setup.cfg[i])
      BY <2>1, <2>4 DEF ConfigInv
    <3>2. \A i \in DOMAIN setup.cfg :
             {"Name", "Kind", "Auth", "ArgsTransformers", "FieldMap"} \subseteq DOMAIN setup.cfg[i]
      BY <2>1, SetupFacts
    <3>3. \A i, j \in DOMAIN setup.cfg : i # j => setup.cfg[i].Name # setup.cfg[j].Name
      BY <3>1 DEF Checked
    <3>4. ASSUME NEW i \in DOMAIN setup.cfg
          PROVE  servers[setup.cfg[i].Name].config = withKindDefaults(setup.cfg[i])
      <4>1. setup.cfg[i].Name \in DOMAIN servers
        BY <3>1 DEF Names
      <4> QED BY <3>1, <3>3, <4>1
    <3>5. ASSUME NEW i \in DOMAIN setup.cfg
          PROVE  ConfiguredAs(servers[setup.cfg[i].Name].config, setup.cfg[i])
      <4>1. ConfiguredAs(withKindDefaults(setup.cfg[i]), setup.cfg[i])
        BY <3>2, KindDefaultsFacts
      <4> QED BY <3>4, <4>1
    <3>6. Cardinality(DOMAIN servers) = Len(setup.cfg)
      BY <2>1, <3>1, CountNames
    <3>7. ASSUME setup.by = "New", NEW n \in DOMAIN servers, servers[n].config.Auth
          PROVE  Given({"WithAuthFunc"}) # {} /\ LastOf({"WithAuthFunc"}).v # 0
      <4>1. PICK i \in DOMAIN setup.cfg : servers[n].config = withKindDefaults(setup.cfg[i])
        BY <3>1
      <4>2. setup.cfg[i].Auth
        BY <3>2, <3>7, <4>1, KindDefaultsFacts
      <4>3. opts["authFunc"] # 0
        BY <3>1, <3>7, <4>2 DEF Checked
      <4>4. /\ "WithAuthFunc" \in DOMAIN Setting /\ Setting["WithAuthFunc"] = "authFunc"
            /\ defaultOptions["authFunc"] = 0
        BY SettingTable DEF SettingNames, defaultOptions
      <4>5. opts["authFunc"] = IF Given({"WithAuthFunc"}) = {} THEN defaultOptions["authFunc"]
                               ELSE LastOf({"WithAuthFunc"}).v
        BY <2>3, <2>4, <4>4
      <4> QED BY <4>3, <4>4, <4>5
    <3> QED BY <3>5, <3>6, <3>7
  <2> QED BY <2>2, <2>3, <2>4 DEF StartsAsConfigured
<1> QED BY <1>1, InductiveInvariant, StartInductive, PTL
=============================================================================
