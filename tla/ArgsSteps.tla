----------------------------- MODULE ArgsSteps ------------------------------
(***************************************************************************)
(* What CallTool does with the arguments of one call before the BeforeCall *)
(* hooks run, step by step: unmarshal, look for placeholders, run the      *)
(* transformers of the server left to right, rename fields, marshal, check *)
(* the schema.  CallPath models the same steps as one choice between       *)
(* "accepted" and "rejected"; ArgsPipeline says what each of them          *)
(* computes, which is a parameter here.                                    *)
(***************************************************************************)
EXTENDS Naturals, Sequences

CONSTANTS
    Inputs,              \* what callers pass as argsJSON
    Configs,             \* configurations of a server, see withKindDefaults
    NoArgs,              \* the argsJSON of a call without arguments
    IsMap(_),            \* does json.Unmarshal accept it for a map?
    Decoded(_),          \* what json.Unmarshal makes of it
    HasJSON(_),          \* does json.Marshal accept it?
    Placeholders(_),     \* arguments: the paths that findInvalidArgs finds
    Transformed(_, _, _),\* name of a transformer, arguments, configuration: what
                         \* applyArgsTransformer may return
    Renamed(_, _),       \* arguments, field map: what applyFieldMap may return
    Valid(_, _)          \* schemas, arguments: does validateSchema find no error?

\* The transformers that are configured are lists.
ASSUME ArgsStepsAssumption ==
    \A c \in Configs : \A ts \in {c.transformers, c.kindTransformers} :
        ts \in Seq({ts[i] : i \in DOMAIN ts})

VARIABLES
    cfg,        \* configuration of the server, its kind and the multiplexer
    argsJSON,   \* the argument of CallTool
    pc,         \* "unmarshal", "check", "transform", "validate", "ready", "rejected"
    todo,       \* transformers still to be applied
    args,       \* rawArgs, then transformed, in the end params.Arguments
    finalArgs,  \* what the schema check, the hooks and the cache key are given
    bad         \* ErrInvalidArgs.BadFields: paths in the caller's arguments

vars == <<cfg, argsJSON, pc, todo, args, finalArgs, bad>>

\* Lists and maps of the server, and those of its kind where it has none.
withKindDefaults(c) ==
    [transformers |-> IF c.transformers = <<>> THEN c.kindTransformers
                                               ELSE c.transformers,
     fieldMap |-> IF DOMAIN c.fieldMap = {} THEN c.kindFieldMap ELSE c.fieldMap]

Init ==
    /\ cfg \in Configs
    /\ argsJSON \in Inputs
    /\ pc = "unmarshal"
    /\ todo = withKindDefaults(cfg).transformers
    /\ args = NoArgs
    /\ finalArgs = argsJSON
    /\ bad = {}

withoutArgs ==
    /\ pc = "unmarshal"
    /\ argsJSON = NoArgs
    /\ pc' = "validate"
    /\ UNCHANGED <<cfg, argsJSON, todo, args, finalArgs, bad>>

unmarshalFails ==
    /\ pc = "unmarshal"
    /\ argsJSON # NoArgs
    /\ ~IsMap(argsJSON)
    /\ pc' = "rejected"
    /\ UNCHANGED <<cfg, argsJSON, todo, args, finalArgs, bad>>

unmarshal ==
    /\ pc = "unmarshal"
    /\ argsJSON # NoArgs
    /\ IsMap(argsJSON)
    /\ args' = Decoded(argsJSON)
    /\ pc' = "check"
    /\ UNCHANGED <<cfg, argsJSON, todo, finalArgs, bad>>

rejectPlaceholders ==
    /\ pc = "check"
    /\ Placeholders(args) # {}
    /\ bad' = Placeholders(args)
    /\ pc' = "rejected"
    /\ UNCHANGED <<cfg, argsJSON, todo, args, finalArgs>>

acceptArgs ==
    /\ pc = "check"
    /\ Placeholders(args) = {}
    /\ pc' = "transform"
    /\ UNCHANGED <<cfg, argsJSON, todo, args, finalArgs, bad>>

\* One turn of the loop of applyAll.
applyNext ==
    /\ pc = "transform"
    /\ todo # <<>>
    /\ args' \in Transformed(Head(todo), args, cfg)
    /\ todo' = Tail(todo)
    /\ UNCHANGED <<cfg, argsJSON, pc, finalArgs, bad>>

\* Variant: the arguments are not marshalled again.
remarshalNot == finalArgs' = finalArgs

remarshal == finalArgs' = IF HasJSON(args') THEN args' ELSE finalArgs

renameFields ==
    /\ pc = "transform"
    /\ todo = <<>>
    /\ args' \in Renamed(args, withKindDefaults(cfg).fieldMap)
    /\ remarshal
    /\ pc' = "validate"
    /\ UNCHANGED <<cfg, argsJSON, todo, bad>>

checkSchema ==
    /\ pc = "validate"
    /\ pc' = IF cfg.schemaValidation /\ ~Valid(cfg.schemas, finalArgs)
             THEN "rejected" ELSE "ready"
    /\ UNCHANGED <<cfg, argsJSON, todo, args, finalArgs, bad>>

Next ==
    \/ withoutArgs \/ unmarshalFails \/ unmarshal
    \/ rejectPlaceholders \/ acceptArgs
    \/ applyNext \/ renameFields \/ checkSchema

Spec == Init /\ [][Next]_vars

-----------------------------------------------------------------------------
(* Properties *)

\* With schema validation the arguments that are sent satisfy the schema of
\* the tool: it is applied to the result of the pipeline, not to what the
\* caller passed (caller.go:118-138). Arguments that do not marshal are the
\* exception: the schema, the hooks and the cache then see the caller's.
SentConforms ==
    pc = "ready" /\ cfg.schemaValidation /\ HasJSON(args) =>
        Valid(cfg.schemas, args)
=============================================================================
