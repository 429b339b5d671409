--------------------------- MODULE MCArgsPipeline ---------------------------
(* Small arguments and configurations for ArgsPipeline. *)
EXTENDS ArgsPipeline

Words == "type" :> "Type" @@ "Type" :> "Type" @@ "ns" :> "Ns"
Parts == {"", "pods", "pod", "po", "jobs", "job", "undefined"}
Lowered == [p \in Parts |-> p] @@ "Pods" :> "pods" @@ "Undefined" :> "undefined"

Floats == "7" :> "7" @@ "2^53 + 1" :> "2^53"

resource_type == <<<<"resource">>, <<"type">>>>
_ns == <<<<>>, <<"ns">>>>
ns == <<<<"ns">>>>
kind == <<<<"kind">>>>

Strings == {Str(<<"Pods">>), Str(<<"jobs">>), Str(<<"", "Undefined">>), Str(<<"", "">>)}
Arrays == {Array(<<>>), Array(<<Str(<<"jobs">>)>>), Array(<<Str(<<"undefined">>)>>),
           Array(<<Str(<<"pods">>), Str(<<"job">>)>>), Array(<<Str(<<"pods">>), Number("2^53 + 1")>>)}
Flat == Strings \cup Arrays \cup {Number("7")}
Nested == {Object(resource_type :> v) : v \in Flat}
    \cup {Object(resource_type :> Str(<<"jobs">>) @@ resourceType :> Number("2^53 + 1")),
          Object(<<>>)}

MCInputs ==
    {Empty, Malformed, Null, Number("7"), Array(<<>>), Object(<<>>)}
    \cup {Object(k :> v) : k \in {resource_type, resourceType, _ns, kind},
                           v \in Flat \cup Nested}
    \cup {Object(resource_type :> v @@ k :> w) :
            k \in {resourceType, ns}, v \in Flat \cup Nested, w \in Flat}

Rename == (kind :> resourceType)
Hide == (resourceType :> kind)
Lists == {<<>>, <<"joinArrays">>, <<"camelCase">>,
          <<"camelCase", "joinArrays", "singularResourceType">>,
          <<"singularResourceType", "camelCase">>,
          <<"camelCase", "mine", "other">>}

Config(ts, fm, kts, kfm, g, p, custom, val, s) ==
    [transformers |-> ts, fieldMap |-> fm, kindTransformers |-> kts,
     kindFieldMap |-> kfm, global |-> g, perServer |-> p, custom |-> custom,
     schemaValidation |-> val, schemas |-> s]

Schema == [required |-> {resourceType}, types |-> (resourceType :> "string")]
Short == <<"pods">> :> <<"po">>
Odd == <<"pods">> :> <<"job">>

MCConfigs ==
    {Config(ts, fm, <<>>, <<>>, <<>>, <<>>, {"mine"}, TRUE, s) :
        ts \in Lists, fm \in {<<>>, Hide}, s \in {{}, {Schema}}}
    \cup {Config(<<>>, <<>>, ts, fm, Odd, p, {}, FALSE, {Schema}) :
            ts \in Lists, fm \in {<<>>, Rename}, p \in {<<>>, Short}}

MCCustomResults ==
    {Null, Object(resourceType :> Opaque), Object(ns :> Str(<<"undefined">>))}
=============================================================================
