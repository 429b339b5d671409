---------------------------- MODULE MCHttpClient ----------------------------
(* Auth blocks for HttpClient: good ones, and ones with each kind of fault. *)
EXTENDS HttpClient, TLC

Blocks == {
    <<>>,
    "token" :> "t", "token" :> "", "token" :> NotAString,
    "value" :> "t",
    "tokenName" :> "X" @@ "value" :> "t",
    "tokenName" :> "X" @@ "value" :> "",
    "tokenName" :> NotAString @@ "value" :> "t"}

\* What a custom AuthFunc sets: a credential, another one, or nothing.
Tokens == {{}, {<<"Authorization", "c1">>}, {<<"Authorization", "c2">>}}
=============================================================================
