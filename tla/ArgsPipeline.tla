---------------------------- MODULE ArgsPipeline ----------------------------
(***************************************************************************)
(* What the steps of ArgsSteps compute: the placeholders in the arguments  *)
(* of a call, what the transformers and the field map make of them, and    *)
(* whether they satisfy the schema of the tool.                            *)
(*                                                                         *)
(* A JSON value is a record of one shape for all types. A string is the    *)
(* sequence of its parts between spaces (the empty string is <<"">>). The  *)
(* name of a field is the sequence of its parts between underscores, and a *)
(* part is a sequence of words: resource_type is                           *)
(* <<<<"resource">>, <<"type">>>>, resourceType is <<<<"resource","Type">>>>. *)
(***************************************************************************)
EXTENDS ArgsSteps, FiniteSets, SequencesExt, TLC

CONSTANTS Upper,         \* from words to words: the first letter in upper case
          Lower,         \* from parts of strings to parts: in lower case
          Nearest,       \* from numbers to numbers: the nearest float64
          CustomResults  \* what a registered custom transformer may return

Empty == [type |-> "empty", str |-> <<>>, items |-> <<>>, fields |-> <<>>]
Malformed == [Empty EXCEPT !.type = "malformed"]
Null == [Empty EXCEPT !.type = "null"]
Number(n) == [Empty EXCEPT !.type = "number", !.str = <<n>>]
\* A Go value without a JSON form (a channel, a function), which only a custom
\* transformer can put into the arguments.
Opaque == [Empty EXCEPT !.type = "opaque"]
Str(s) == [Empty EXCEPT !.type = "string", !.str = s]
Array(items) == [Empty EXCEPT !.type = "array", !.items = items]
Object(fields) == [Empty EXCEPT !.type = "object", !.fields = fields]

toLower(s) == [i \in DOMAIN s |-> Lower[s[i]]]
resourceType == <<<<"resource", "Type">>>>

-----------------------------------------------------------------------------
(* Placeholders *)

invalidArgValues ==
    {"undefined", "null", "none", "unknown", "<unknown>", "<none>"}

\* Variant: the spaces around a value count.
isInvalidUntrimmed(s) ==
    toLower(s) \in {<<"">>} \cup {<<w>> : w \in invalidArgValues}

isInvalid(s) ==
    SelectSeq(toLower(s), LAMBDA w : w # "")
        \in {<<>>} \cup {<<w>> : w \in invalidArgValues}

\* Variant: only the arguments themselves are looked at.
walkArgsFlat(v, path) ==
    CASE v.type = "object" ->
            {Append(path, k) : k \in {j \in DOMAIN v.fields :
                v.fields[j].type = "string" /\ isInvalid(v.fields[j].str)}}
      [] OTHER -> {}

RECURSIVE walkArgs(_, _)
walkArgs(v, path) ==
    CASE v.type = "object" ->
            UNION {walkArgs(v.fields[k], Append(path, k)) : k \in DOMAIN v.fields}
      [] v.type = "string" /\ isInvalid(v.str) -> {path}
      [] OTHER -> {}

findInvalidArgs(v) == walkArgs(v, <<>>)

-----------------------------------------------------------------------------
(* Transformers. Loops over a Go map run in random order, so that of fields *)
(* with the same new name any may be the last one written: the results of a *)
(* renaming are a set. name gives the new name of each field, values what   *)
(* may become of its value.                                                 *)

renamings(name, values) ==
    LET names == Range(name)
    IN  {out \in [names -> UNION Range(values)] :
            \A n \in names : \E k \in DOMAIN name :
                name[k] = n /\ out[n] \in values[k]}

snakeToCamel(k) ==
    IF Len(k) = 1 THEN k
    ELSE <<k[1] \o FlattenSeq([i \in 1..(Len(k) - 1) |->
            IF k[i + 1] = <<>> THEN <<>>
            ELSE <<Upper[Head(k[i + 1])]>> \o Tail(k[i + 1])])>>

\* Variant: fields of nested objects keep their names.
snakeToCamelKeysFlat(m) ==
    renamings([k \in DOMAIN m |-> snakeToCamel(k)], [k \in DOMAIN m |-> {m[k]}])

RECURSIVE snakeToCamelKeys(_)
snakeToCamelKeys(m) ==
    renamings([k \in DOMAIN m |-> snakeToCamel(k)],
              [k \in DOMAIN m |->
                  IF m[k].type = "object"
                  THEN {Object(f) : f \in snakeToCamelKeys(m[k].fields)}
                  ELSE {m[k]}])

\* strings.Join of an array of strings; of an empty one it is the empty string.
joinItems(v) ==
    IF v.items = <<>> THEN Str(<<"">>)
    ELSE Str(FlattenSeq([i \in DOMAIN v.items |-> v.items[i].str]))

allStrings(v) == \A i \in DOMAIN v.items : v.items[i].type = "string"

RECURSIVE joinStringArrays(_)
joinStringArrays(m) ==
    [k \in DOMAIN m |->
        CASE m[k].type = "object" -> Object(joinStringArrays(m[k].fields))
          [] m[k].type = "array" /\ allStrings(m[k]) -> joinItems(m[k])
          [] OTHER -> m[k]]

\* Two of the thirteen entries, of which configurations override one.
k8sResourceSingular == (<<"pods">> :> <<"pod">>) @@ (<<"jobs">> :> <<"job">>)

mergedSingularMap(globalCustom, perServer) ==
    perServer @@ globalCustom @@ k8sResourceSingular

singularizeResourceType(v, singular) ==
    IF /\ resourceType \in DOMAIN v.fields
       /\ v.fields[resourceType].type = "string"
       /\ toLower(v.fields[resourceType].str) \in DOMAIN singular
    THEN [v EXCEPT !.fields[resourceType] = Str(singular[toLower(@.str)])]
    ELSE v

\* Names of a server's list that are neither built in nor registered do nothing.
applyArgsTransformer(t, v, c) ==
    CASE t = "camelCase" -> {Object(m) : m \in snakeToCamelKeys(v.fields)}
      [] t = "joinArrays" -> {Object(joinStringArrays(v.fields))}
      [] t = "singularResourceType" ->
            {singularizeResourceType(v, mergedSingularMap(c.global, c.perServer))}
      [] t \in c.custom -> CustomResults
      [] OTHER -> {v}

applyFieldMap(v, fm) ==
    IF DOMAIN fm = {} THEN {v}
    ELSE {Object(m) : m \in
            renamings([k \in DOMAIN v.fields |-> IF k \in DOMAIN fm THEN fm[k] ELSE k],
                      [k \in DOMAIN v.fields |-> {v.fields[k]}])}

-----------------------------------------------------------------------------
(* gojsonschema, for schemas of objects with required and typed fields. A   *)
(* tool without a schema has the set of no schemas.                         *)

conforms(schema, v) ==
    /\ v.type = "object"
    /\ schema.required \subseteq DOMAIN v.fields
    /\ \A k \in DOMAIN schema.types \cap DOMAIN v.fields :
            v.fields[k].type = schema.types[k]

validateSchema(schemas, v) ==
    \A s \in schemas : conforms(s, IF v = Empty THEN Object(<<>>) ELSE v)

-----------------------------------------------------------------------------
(* encoding/json *)

\* What json.Unmarshal accepts for a map; null makes it the nil map.
isArgsMap(v) == v.type \in {"object", "null"}

\* A number becomes a float64, so that an integer beyond 2^53 is rounded.
RECURSIVE decoded(_)
decoded(v) ==
    CASE v.type = "number" -> [v EXCEPT !.str = <<Nearest[@[1]]>>]
      [] v.type = "array" -> Array([i \in DOMAIN v.items |-> decoded(v.items[i])])
      [] v.type = "object" -> Object([k \in DOMAIN v.fields |-> decoded(v.fields[k])])
      [] OTHER -> v

\* json.Marshal reports an error for a value without a JSON form.
RECURSIVE Marshals(_)
Marshals(v) ==
    /\ v.type # "opaque"
    /\ \A i \in DOMAIN v.items : Marshals(v.items[i])
    /\ \A k \in DOMAIN v.fields : Marshals(v.fields[k])

-----------------------------------------------------------------------------
(* Reference definitions: arguments as a set of leaves, each with the path of *)
(* field names that leads to it, and what becomes of a single leaf.           *)

RECURSIVE Nodes(_)
Nodes(v) ==
    UNION {{[path |-> <<k>>, value |-> v.fields[k]]} \cup
           {[n EXCEPT !.path = <<k>> \o @] : n \in Nodes(v.fields[k])} :
                k \in DOMAIN v.fields}

Leaves(v) == {n \in Nodes(v) : DOMAIN n.value.fields = {}}

SingularOf(s) ==
    CASE s \in DOMAIN cfg.perServer -> cfg.perServer[s]
      [] s \notin DOMAIN cfg.perServer /\ s \in DOMAIN cfg.global -> cfg.global[s]
      [] OTHER -> k8sResourceSingular[s]

HasSingular(s) ==
    s \in DOMAIN cfg.perServer \cup DOMAIN cfg.global \cup DOMAIN k8sResourceSingular

\* What transformer t makes of leaf l.
LeafAfter(l, t) ==
    CASE t = "camelCase" -> [l EXCEPT !.path = [i \in DOMAIN @ |-> snakeToCamel(@[i])]]
      [] t = "joinArrays" /\ l.value.type = "array" /\ allStrings(l.value) ->
            [l EXCEPT !.value = joinItems(@)]
      [] /\ t = "singularResourceType"
         /\ l.path = <<resourceType>>
         /\ l.value.type = "string"
         /\ HasSingular(toLower(l.value.str)) ->
            [l EXCEPT !.value = Str(SingularOf(toLower(@.str)))]
      [] OTHER -> l

\* Where and as what leaf l of the caller's arguments arrives at the server.
Arrives(l) ==
    LET c == withKindDefaults(cfg)
        t == FoldLeft(LeafAfter, [l EXCEPT !.value = decoded(@)], c.transformers)
    IN  IF t.path[1] \in DOMAIN c.fieldMap
        THEN [t EXCEPT !.path = <<c.fieldMap[@[1]]>> \o Tail(@)] ELSE t

\* Two fields of one object get the same name.
Collides ==
    \E m, n \in Nodes(argsJSON) :
        m.path # n.path /\ Arrives(m).path = Arrives(n).path

NoCustom == cfg.custom \cap Range(withKindDefaults(cfg).transformers) = {}

-----------------------------------------------------------------------------
(* Properties *)

\* Every argument the caller supplies reaches the server under the name and in
\* the form that its transformers, applied one after the other to it alone,
\* and the field map give it, and nothing else reaches the server. When two
\* fields of an object get the same name one of them is lost, and which one is
\* chance; no value is ever mixed up or invented, but for numbers that are not
\* float64s, which arrive as the nearest one (transform.go, caller.go:98-128).
ArgumentsArrive ==
    pc = "ready" /\ NoCustom =>
        LET arriving == {Arrives(l) : l \in Leaves(argsJSON)}
        IN  /\ Leaves(args) \subseteq arriving
            /\ ~Collides => Leaves(args) = arriving

\* Although the check for placeholders runs on the caller's arguments and
\* everything after it rewrites them, no built-in transformer lets a
\* placeholder or an empty string reach the server, with one exception: a
\* string that joinArrays made of an array, whose items the check does not
\* visit (validate.go:57-73, transform.go:113-140).
PlaceholdersStayOut ==
    pc = "ready" /\ NoCustom =>
        \A l \in Leaves(args) :
            l.value.type = "string" /\ isInvalid(l.value.str) =>
                \E r \in Leaves(argsJSON) :
                    r.value.type = "array" /\ joinItems(r.value) = l.value

\* The fields that ErrInvalidArgs names are fields as the caller wrote them,
\* all of those with an unusable value and no others, however it is written
\* (validate.go:23-27, caller.go:111-117).
BadFieldsAreTheCallers ==
    (pc = "rejected" /\ bad # {}) \/ pc = "ready" =>
        bad = {l.path : l \in {x \in Leaves(argsJSON) :
                /\ x.value.type = "string"
                /\ \/ Range(x.value.str) \subseteq {""}
                   \/ \E w \in invalidArgValues :
                        toLower(SelectSeq(x.value.str, LAMBDA p : p # "")) = <<w>>}}

\* The strings in a value, at any depth.
RECURSIVE Texts(_)
Texts(v) ==
    (IF v.type = "string" THEN {v.str} ELSE {})
        \cup UNION {Texts(v.items[i]) : i \in DOMAIN v.items}
        \cup UNION {Texts(v.fields[k]) : k \in DOMAIN v.fields}

\* validate.go:21-22: "findInvalidArgs walks args recursively and returns dotted
\* paths whose string values are known placeholders (case-insensitive) or empty
\* strings."  So arguments in which it found none hold none.
EveryPlaceholderIsFound ==
    pc = "ready" => \A s \in Texts(argsJSON) : ~isInvalid(s)
=============================================================================
