-------------------------- MODULE ArgsStepsProofs ---------------------------
(***************************************************************************)
(* The order of CallTool's steps on the arguments of a call, whatever the  *)
(* steps compute: what is checked is what is sent, and what is sent is     *)
(* what the transformers make of the caller's arguments, one after the     *)
(* other.                                                                  *)
(***************************************************************************)
EXTENDS ArgsSteps, TLAPS

transformers == withKindDefaults(cfg).transformers

\* A run of the first k transformers: what there is before and after each.
Run(r, k) ==
    /\ DOMAIN r = 0..k
    /\ r[0] = Decoded(argsJSON)
    /\ \A i \in 1..k : r[i] \in Transformed(transformers[i], r[i - 1], cfg)

\* The arguments are what the first k transformers may make of the caller's.
After(k, v) == \E r : Run(r, k) /\ r[k] = v

-----------------------------------------------------------------------------
(* The inductive invariants *)

\* What is checked and shown to hooks is what is sent, or else the caller's, and
\* errors name placeholders of the caller's arguments, with which a call ends.
CheckInv ==
    /\ pc = "unmarshal" => args = NoArgs
    /\ pc = "check" => args = Decoded(argsJSON)
    /\ pc \in {"unmarshal", "check", "transform"} => finalArgs = argsJSON
    /\ pc \in {"validate", "ready"} => finalArgs = args \/ (~HasJSON(args) /\ finalArgs = argsJSON)
    /\ pc = "ready" /\ cfg.schemaValidation => Valid(cfg.schemas, finalArgs)
    /\ bad # {} => pc = "rejected" /\ bad = Placeholders(Decoded(argsJSON))
    /\ pc \in {"transform", "validate", "ready"} =>
          argsJSON = NoArgs \/ Placeholders(Decoded(argsJSON)) = {}

\* What is to be done is the end of the list of transformers, ...
TodoInv ==
    /\ Len(transformers) \in Nat
    /\ todo \in Seq({todo[i] : i \in DOMAIN todo})
    /\ Len(todo) <= Len(transformers)
    /\ \A i \in 1..Len(todo) : todo[i] = transformers[(Len(transformers) - Len(todo)) + i]
    /\ pc \in {"unmarshal", "check"} => Len(todo) = Len(transformers)

\* ... and the arguments are what the others made of the caller's.
RunInv ==
    /\ pc = "unmarshal" => args = NoArgs
    /\ pc = "check" => args = Decoded(argsJSON)
    /\ pc = "transform" => After(Len(transformers) - Len(todo), args)
    /\ pc \in {"validate", "ready"} =>
          \/ argsJSON = NoArgs /\ args = NoArgs
          \/ \E v : /\ After(Len(transformers), v)
                    /\ args \in Renamed(v, withKindDefaults(cfg).fieldMap)

-----------------------------------------------------------------------------
(* What is checked *)

\* The steps in their order keep what was checked and what is sent together.
LEMMA CheckStep == CheckInv /\ [Next]_vars => CheckInv'
<1> SUFFICES ASSUME CheckInv, [Next]_vars PROVE CheckInv'
  OBVIOUS
<1>1. CASE withoutArgs
  BY <1>1 DEF CheckInv, withoutArgs
<1>2. CASE unmarshalFails
  BY <1>2 DEF CheckInv, unmarshalFails
<1>3. CASE unmarshal
  BY <1>3 DEF CheckInv, unmarshal
<1>4. CASE rejectPlaceholders
  BY <1>4 DEF CheckInv, rejectPlaceholders
<1>5. CASE acceptArgs
  BY <1>5 DEF CheckInv, acceptArgs
<1>6. CASE applyNext
  BY <1>6 DEF CheckInv, applyNext
<1>7. CASE renameFields
  BY <1>7 DEF CheckInv, renameFields, remarshal
<1>8. CASE checkSchema
  BY <1>8 DEF CheckInv, checkSchema
<1>9. CASE UNCHANGED vars
  BY <1>9 DEF CheckInv, vars
<1> QED BY <1>1, <1>2, <1>3, <1>4, <1>5, <1>6, <1>7, <1>8, <1>9 DEF Next

\* The invariant of the checks.
LEMMA Checks == Spec => []CheckInv
<1>1. Init => CheckInv
  BY DEF Init, CheckInv
<1> QED BY <1>1, CheckStep, PTL DEF Spec

\* With schema validation the arguments that are sent satisfy the schema, unless
\* they do not marshal (caller.go:118-138), whatever arguments, configurations,
\* transformers and schemas there are.
THEOREM SentConformsHolds == Spec => []SentConforms
<1>1. CheckInv => SentConforms
  BY DEF CheckInv, SentConforms
<1> QED BY <1>1, Checks, PTL

\* The hooks, the schema check and the cache are given what is sent, or else what
\* the caller passed, and that only if what is sent does not marshal.
HooksSeeWhatIsSent ==
    pc = "ready" => finalArgs = args \/ (~HasJSON(args) /\ finalArgs = argsJSON)

\* What BeforeCall hooks, the policy among them, and the cache key are given
\* describes the arguments that are sent (caller.go:101, 120-125).
THEOREM HooksSeeWhatIsSentHolds == Spec => []HooksSeeWhatIsSent
<1>1. CheckInv => HooksSeeWhatIsSent
  BY DEF CheckInv, HooksSeeWhatIsSent
<1> QED BY <1>1, Checks, PTL

\* BadFields are the placeholders of what the caller passed, not of what the
\* transformers made of it, and a call with any does not go on.
PlaceholdersAreTheCallers ==
    /\ bad # {} => pc = "rejected" /\ bad = Placeholders(Decoded(argsJSON))
    /\ pc = "ready" /\ argsJSON # NoArgs => Placeholders(Decoded(argsJSON)) = {}

\* The check for placeholders sees the caller's arguments as they were Decoded and
\* every call passes through it (caller.go:102-117), the half of
\* BadFieldsAreTheCallers that is about the order of the steps.
THEOREM PlaceholdersAreTheCallersHolds == Spec => []PlaceholdersAreTheCallers
<1>1. CheckInv => PlaceholdersAreTheCallers
  BY DEF CheckInv, PlaceholdersAreTheCallers
<1> QED BY <1>1, Checks, PTL

-----------------------------------------------------------------------------
(* What is sent *)

\* Before any transformer there are the Decoded arguments.
LEMMA AfterNone == After(0, Decoded(argsJSON))
<1> DEFINE r == [i \in 0..0 |-> Decoded(argsJSON)]
<1>1. DOMAIN r = 0..0 /\ r[0] = Decoded(argsJSON)
  OBVIOUS
<1> HIDE DEF r
<1>2. Run(r, 0)
  BY <1>1 DEF Run
<1> QED BY <1>1, <1>2 DEF After

\* One more transformer.
LEMMA AfterNext ==
    ASSUME NEW k \in Nat, NEW v, After(k, v),
           NEW w \in Transformed(transformers[k + 1], v, cfg)
    PROVE  After(k + 1, w)
<1>1. PICK r : Run(r, k) /\ r[k] = v
  BY DEF After
<1> DEFINE s == [i \in 0..(k + 1) |-> IF i = k + 1 THEN w ELSE r[i]]
<1>2. /\ DOMAIN s = 0..(k + 1) /\ s[k + 1] = w /\ \A i \in 0..k : s[i] = r[i]
  OBVIOUS
<1> HIDE DEF s
<1>3. s[0] = Decoded(argsJSON)
  BY <1>1, <1>2 DEF Run
<1>4. ASSUME NEW i \in 1..(k + 1)
      PROVE  s[i] \in Transformed(transformers[i], s[i - 1], cfg)
  <2>1. CASE i = k + 1
    <3>1. i - 1 = k /\ k \in 0..k
      BY <2>1
    <3> QED BY <1>1, <1>2, <2>1, <3>1
  <2>2. CASE i # k + 1
    <3>1. i \in 1..k /\ i \in 0..k /\ i - 1 \in 0..k
      BY <2>2
    <3>2. s[i] = r[i] /\ s[i - 1] = r[i - 1]
      BY <1>2, <3>1
    <3> QED BY <1>1, <3>1, <3>2 DEF Run
  <2> QED BY <2>1, <2>2
<1>5. Run(s, k + 1)
  BY <1>2, <1>3, <1>4 DEF Run
<1> QED BY <1>2, <1>5 DEF After

\* The list is worked off from its front, and each transformer is given what the
\* one before it returned.
LEMMA RunStep == TodoInv /\ RunInv /\ [Next]_vars => TodoInv' /\ RunInv'
<1> SUFFICES ASSUME TodoInv, RunInv, [Next]_vars PROVE TodoInv' /\ RunInv'
  OBVIOUS
<1>1. UNCHANGED <<cfg, argsJSON>>
  BY DEF Next, vars, withoutArgs, unmarshalFails, unmarshal, rejectPlaceholders, acceptArgs,
         applyNext, renameFields, checkSchema
<1>2. transformers' = transformers /\ \A k, v : After(k, v)' <=> After(k, v)
  BY <1>1 DEF transformers, After, Run
<1>3. CASE applyNext
  <2> DEFINE k == Len(transformers) - Len(todo)
  <2>1. /\ pc = "transform" /\ pc' = "transform" /\ todo # <<>> /\ todo' = Tail(todo)
        /\ args' \in Transformed(Head(todo), args, cfg)
    BY <1>3 DEF applyNext
  <2>2. /\ Len(todo) \in Nat /\ Len(todo) > 0 /\ Head(todo) = todo[1] /\ k \in Nat
        /\ DOMAIN todo = 1..Len(todo)
    BY <2>1 DEF TodoInv
  <2>3. /\ Len(todo') = Len(todo) - 1 /\ DOMAIN todo' = 1..(Len(todo) - 1)
        /\ \A i \in 1..(Len(todo) - 1) : todo'[i] = todo[i + 1]
    BY <2>1 DEF TodoInv
  <2>4. Head(todo) = transformers[k + 1]
    BY <2>2 DEF TodoInv
  <2>5. Len(transformers) - Len(todo') = k + 1
    BY <2>2, <2>3 DEF TodoInv
  <2> HIDE DEF k
  <2>6. After(k + 1, args')
    <3>1. After(k, args)
      BY <2>1 DEF RunInv, k
    <3> QED BY <2>1, <2>2, <2>4, <3>1, AfterNext
  <2>7. RunInv'
    BY <1>2, <2>1, <2>5, <2>6 DEF RunInv
  <2>8. todo' \in Seq({todo'[i] : i \in DOMAIN todo'})
    <3> DEFINE S == {todo[i] : i \in DOMAIN todo}
    <3>0. todo \in Seq(S)
      BY DEF TodoInv
    <3> HIDE DEF S
    <3>1. todo' = [i \in DOMAIN todo' |-> todo'[i]]
      <4>1. Tail(todo) \in Seq(S)
        BY <2>1, <3>0
      <4>2. \A t \in Seq(S) : t = [i \in DOMAIN t |-> t[i]]
        OBVIOUS
      <4> QED BY <2>1, <4>1, <4>2
    <3>2. Len(todo) - 1 \in Nat
      BY <2>2
    <3> QED BY <2>3, <3>1, <3>2
  <2>9. \A i \in 1..Len(todo') : todo'[i] = transformers[(k + 1) + i]
    <3> TAKE i \in 1..Len(todo')
    <3>1. i + 1 \in 1..Len(todo) /\ i \in 1..(Len(todo) - 1) /\ k + (i + 1) = (k + 1) + i
      BY <2>2, <2>3
    <3>2. todo'[i] = todo[i + 1]
      BY <2>3, <3>1
    <3>3. todo[i + 1] = transformers[k + (i + 1)]
      BY <3>1 DEF TodoInv, k
    <3> QED BY <3>1, <3>2, <3>3
  <2>10. Len(todo') <= Len(transformers) /\ Len(transformers) \in Nat
    BY <2>2, <2>3 DEF TodoInv
  <2>11. TodoInv'
    BY <1>2, <2>1, <2>5, <2>8, <2>9, <2>10 DEF TodoInv
  <2> QED BY <2>7, <2>11
<1>4. ASSUME ~applyNext PROVE TodoInv'
  <2>1. todo' = todo
    BY <1>4 DEF Next, vars, withoutArgs, unmarshalFails, unmarshal, rejectPlaceholders, acceptArgs,
                renameFields, checkSchema
  <2>2. pc' \in {"unmarshal", "check"} => pc \in {"unmarshal", "check"}
    BY <1>4 DEF Next, vars, withoutArgs, unmarshalFails, unmarshal, rejectPlaceholders, acceptArgs,
                renameFields, checkSchema
  <2> QED BY <1>2, <2>1, <2>2 DEF TodoInv
<1>5. ASSUME withoutArgs PROVE RunInv'
  BY <1>2, <1>5 DEF RunInv, withoutArgs
<1>6. ASSUME unmarshalFails \/ rejectPlaceholders PROVE RunInv'
  BY <1>6 DEF RunInv, unmarshalFails, rejectPlaceholders
<1>7. ASSUME unmarshal PROVE RunInv'
  BY <1>7 DEF RunInv, unmarshal
<1>8. ASSUME acceptArgs PROVE RunInv'
  <2>1. Len(transformers) - Len(todo) = 0
    BY <1>8 DEF TodoInv, acceptArgs
  <2>2. After(0, args)
    BY <1>8, AfterNone DEF RunInv, acceptArgs
  <2> QED BY <1>2, <1>8, <2>1, <2>2 DEF RunInv, acceptArgs
<1>9. ASSUME renameFields PROVE RunInv'
  <2>1. Len(transformers) - Len(todo) = Len(transformers)
    <3>1. todo = <<>>
      BY <1>9 DEF renameFields
    <3>2. Len(todo) = 0
      BY <3>1
    <3> QED BY <3>2 DEF TodoInv
  <2>2. After(Len(transformers), args)
    BY <1>9, <2>1 DEF RunInv, renameFields
  <2> QED BY <1>1, <1>2, <1>9, <2>2 DEF RunInv, renameFields
<1>10. ASSUME checkSchema PROVE RunInv'
  BY <1>1, <1>2, <1>10 DEF RunInv, checkSchema
<1>11. ASSUME UNCHANGED vars PROVE RunInv'
  BY <1>1, <1>2, <1>11 DEF RunInv, vars
<1> QED BY <1>3, <1>4, <1>5, <1>6, <1>7, <1>8, <1>9, <1>10, <1>11 DEF Next

\* The arguments that are sent are what the server's transformers, each applied once
\* and in the order of the list to what the one before it returned, and then its
\* field map make of the caller's arguments. A call without arguments sends none.
SentIsTransformed ==
    pc = "ready" =>
        \/ argsJSON = NoArgs /\ args = NoArgs
        \/ \E v : /\ After(Len(transformers), v)
                  /\ args \in Renamed(v, withKindDefaults(cfg).fieldMap)

\* The pipeline applies the transformers of the server, or of its kind if it has
\* none, left to right, skips none and applies none twice, and renames fields last
\* (transform.go:27-36, caller.go:118-120).
THEOREM SentIsTransformedHolds == Spec => []SentIsTransformed
<1>1. Init => TodoInv /\ RunInv
  <2> SUFFICES ASSUME Init PROVE TodoInv /\ RunInv
    OBVIOUS
  <2>1. transformers \in Seq({transformers[i] : i \in DOMAIN transformers}) /\ todo = transformers
    BY ArgsStepsAssumption DEF Init, transformers, withKindDefaults
  <2>2. Len(transformers) \in Nat
    BY <2>1
  <2>3. TodoInv
    BY <2>1, <2>2 DEF TodoInv
  <2> QED BY <2>3 DEF Init, RunInv
<1>2. RunInv => SentIsTransformed
  BY DEF RunInv, SentIsTransformed
<1> QED BY <1>1, <1>2, RunStep, PTL DEF Spec
=============================================================================
