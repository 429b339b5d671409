----------------------------- MODULE MCListings -----------------------------
(* Instances of Listings: setups that try the options, setups that New      *)
(* turns down, and setups whose Multiplexer is listed while it changes; and *)
(* single setups for what the repository's text says of a listing.          *)
EXTENDS Listings, TLC

Plain == [Name |-> "a", Kind |-> "", Transport |-> "http", Binary |-> "", URL |-> "u",
          Auth |-> FALSE, ArgsTransformers |-> <<>>, FieldMap |-> <<>>]

With(w, values) == {[with |-> w, v |-> x] : x \in values}

Options ==
    UNION {With(w, {-1, 0, 2, 3}) : w \in {"WithCallTimeout", "WithCacheSize", "WithHTTPRetryMax"}}
    \cup UNION {With(w, {0, 2}) : w \in {"WithCache", "WithLogger", "WithAuthFunc", "WithOnConnect"}}
    \cup UNION {With(w, {2, 3}) : w \in {"WithBeforeCall", "WithMetaEnricher"}}
    \cup With("WithHealthCheck", {0, 1}) \cup With("WithoutCache", {0})
    \cup With("WithResourceSingular", {<<>>, "p" :> "q", "p" :> "r"})
    \cup {[with |-> "WithClientIdentity", v |-> n, version |-> 2 - n] : n \in {0, 2}}

CacheOptions ==
    With("WithCache", {0, 2}) \cup With("WithoutCache", {0}) \cup With("WithCacheSize", {0, 4})

\* Every pair of options, and every three of those about the cache.
OptionLists == SeqOf(Options, 2) \cup SeqOf(CacheOptions, 3)

Kinds == "k" :> [ArgsTransformers |-> <<"camelCase">>, FieldMap |-> "from" :> "to"]

Setup(by, options, cfg, queries) ==
    [by |-> by, options |-> options, cfg |-> cfg, queries |-> queries,
     kindSettings |-> IF by = "New" THEN Kinds ELSE <<>>]

OptionSetups ==
    {Setup(by, l, <<>>, {}) : by \in {"New", "NewFromSessions"}, l \in OptionLists}

\* Configurations that New checks before it connects.
CheckSetups ==
    {Setup("New", l, cfg, {}) :
        l \in {<<>>, <<[with |-> "WithAuthFunc", v |-> 2]>>, <<[with |-> "WithHealthCheck", v |-> 0]>>},
        cfg \in {<<[Plain EXCEPT !.Name = ""]>>, <<[Plain EXCEPT !.Transport = "ftp"]>>,
                 <<[Plain EXCEPT !.URL = ""]>>, <<[Plain EXCEPT !.Transport = "stdio"]>>,
                 <<Plain, Plain>>, <<Plain, [Plain EXCEPT !.Name = "b", !.Auth = TRUE]>>}}

Ops(names) ==
    [op : {"ToolsForServers", "KindsForServers", "FilterByNames"}, names : names]
    \cup [op : {"ServerNames", "ServerStatus", "AllTools", "KindGroups", "CallTool"}, names : {<<>>}]

Two == <<[Plain EXCEPT !.Kind = "k", !.ArgsTransformers = <<"joinArrays">>],
         [Plain EXCEPT !.Name = "b", !.Kind = "k", !.Transport = "stdio", !.Binary = "x"]>>
\* A server whose kind is the name of another, and servers without a kind.
Namesake == <<[Plain EXCEPT !.Name = "k"], [Plain EXCEPT !.Name = "c", !.Kind = "k"]>>
Unkinded == <<Plain, [Plain EXCEPT !.Name = "b"]>>
\* The second server's name goes on where the first one's ends.
Nested == <<Plain, [Plain EXCEPT !.Name = "a/b"]>>

Supervised == <<[with |-> "WithHealthCheck", v |-> 1]>>

Asks(op, names) == [op : {op}, names : {names}]

MCSetups ==
    OptionSetups \cup CheckSetups
    \cup {Setup("New", Supervised, Two, Ops({<<"b", "a">>, <<"a", "x", "a">>})),
          Setup("New", <<>>, Namesake, Asks("KindGroups", <<>>)
                    \cup Asks("KindsForServers", <<"c", "x", "k">>)),
          Setup("New", <<>>, Nested, Asks("ToolsForServers", <<"a", "a/b">>)),
          Setup("NewFromSessions", <<>>, Unkinded, Ops({<<"b", "a">>}))}

\* Instances for what the repository's text says.
CacheSetups == {Setup("New", l, <<>>, {}) : l \in SeqOf(CacheOptions, 3)}
SupervisedSetups == {Setup("New", Supervised, Two, Asks("AllTools", <<>>))}
UnsupervisedSetups == {Setup("New", <<>>, Two, Asks("ServerStatus", <<>>))}
NestedSetups == {Setup("NewFromSessions", <<>>, Nested, Asks("ToolsForServers", <<"a", "a/b">>))}
NamesakeSetups == {Setup("New", <<>>, Namesake, Asks("KindGroups", <<>>))}
GroupSetups == {Setup("New", <<>>, Two, Asks("KindGroups", <<>>))}

\* One tool with no annotations and one that reads, and a list that has the
\* second twice.
tool(name, readOnly) ==
    [Name |-> name, annotations |-> [ReadOnlyHint |-> readOnly, IdempotentHint |-> readOnly,
        DestructiveHint |-> IF readOnly THEN "false" ELSE "nil"]]
MCServed == {<<tool("t", FALSE), tool("b/t", TRUE)>>,
             <<tool("b/t", TRUE), tool("t", FALSE), tool("b/t", TRUE)>>}

MCSegments ==
    [n \in {"", "a", "b", "c", "k", "t", "a/b", "b/t", "?"} |->
        CASE n = "a/b" -> <<"a", "b">> [] n = "b/t" -> <<"b", "t">> [] OTHER -> <<n>>]
=============================================================================
