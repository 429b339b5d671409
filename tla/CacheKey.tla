------------------------------ MODULE CacheKey ------------------------------
(***************************************************************************)
(* The default key of the response cache: four texts joined by bars.  A    *)
(* key is the sequence of its parts between bars, to which a text with a   *)
(* bar in it contributes several.                                          *)
(***************************************************************************)
EXTENDS Sequences

CONSTANTS
    Parts(_),  \* the parts of a text between its bars
    Malformed  \* texts that json.Unmarshal turns down

NoText == ""

\* Nothing and what cannot be read count as no arguments.  The rest is the
\* output of json.Marshal, which reading and writing leaves as it is.
canonicalJSON(args) == IF args = NoText \/ args \in Malformed THEN "{}" ELSE args

defaultCacheKey(scope, server, tool, args) ==
    Parts(scope) \o Parts(server) \o Parts(tool) \o Parts(canonicalJSON(args))
=============================================================================
