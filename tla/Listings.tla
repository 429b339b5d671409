------------------------------ MODULE Listings ------------------------------
(***************************************************************************)
(* The read API of a Multiplexer that Startup made: ServerNames,           *)
(* ServerStatus, AllTools, ToolsForServers, KindGroups, KindsForServers,   *)
(* FilterByNames and views, and the list of servers in the error of a call *)
(* to an unknown one.  A listing holds mx.mu for reading from its first to *)
(* its last step and visits one entry after the other, while reconnects    *)
(* and refreshes change the entries (as Availability allows) and Close     *)
(* wants mx.mu for writing.                                                *)
(***************************************************************************)
EXTENDS Startup, SequencesExt

CONSTANTS
    Segments,    \* per name of a server or a tool: its parts between slashes
    Callers,     \* goroutines that each make one call of the read API
    MaxChanges   \* bound: changes of entries and silences after New has returned

ASSUME ListingsAssumption ==
    /\ MaxChanges \in Nat
    \* Names with the same segments are the same.
    /\ IsInjective(Segments)
    /\ \A n \in DOMAIN Segments : Segments[n] \in Seq(Range(Segments[n]))
    /\ \A s \in Setups : \A i \in DOMAIN s.cfg : s.cfg[i].Name \in DOMAIN Segments
    /\ \A l \in Served : \A i \in DOMAIN l : l[i].Name \in DOMAIN Segments
    /\ \A s \in Setups : \A q \in s.queries :
            q \in [op : {"ServerNames", "ServerStatus", "AllTools", "KindGroups",
                         "ToolsForServers", "KindsForServers", "FilterByNames", "CallTool"},
                   names : Seq(Range(q.names))]

VARIABLES
    changes,  \* changes of entries and silences so far
    silent,   \* the servers with a session that do not answer at the moment
    closePc,  \* Close: "open", "waiting" for mx.mu, "held" or "done"
    \* per caller
    at,       \* "idle", "looked up" (an unknown server), "reading" or "done"
    query,    \* what it called
    visit,    \* names still to be visited
    word,     \* the tools of which KindGroups has read the first word
    acc,      \* what it has read so far: a sequence of [server, state, tools]
    out,      \* and the tools of these, one list behind the other (AllTools' result)
    keys,     \* the keys under which ToolsForServers looks for these
    seen      \* history: per server, what its entry held since the call began

callVars == <<at, query, visit, word, acc, out, keys, seen>>
vars == <<startVars, changes, silent, closePc, callVars>>

NoQuery == [op |-> "none", names |-> <<>>]
Nothing == <<>>

Init ==
    /\ StartInit
    /\ changes = 0
    /\ silent = {}
    /\ closePc = "open"
    /\ at = [c \in Callers |-> "idle"]
    /\ query = [c \in Callers |-> NoQuery]
    /\ visit = [c \in Callers |-> <<>>]
    /\ word = [c \in Callers |-> Nothing]
    /\ acc = [c \in Callers |-> <<>>]
    /\ out = [c \in Callers |-> <<>>]
    /\ keys = [c \in Callers |-> <<>>]
    /\ seen = [c \in Callers |-> <<>>]

-----------------------------------------------------------------------------
(* mx.mu: a sync.RWMutex, where a waiting writer keeps new readers out.     *)

\* Variant: CallTool keeps the lock while it lists the servers.
holdsNested(c) == at[c] \in {"reading", "looked up"}

holds(c) == at[c] = "reading"

mayRead == phase = "ready" /\ closePc \in {"open", "done"}

Held(n) == [state |-> servers[n].state, tools |-> servers[n].tools]

ByName == {"ToolsForServers", "KindsForServers"}

\* Variant: ServerStatus leaves out what is down when it begins.
visitsLive(q) ==
    IF q.op \in ByName THEN {q.names}
    ELSE SetToSeqs({n \in DOMAIN servers : q.op = "ServerStatus" => servers[n].state # "down"})

\* The names a listing visits: the ones asked for, or all in map order.
visits(q) == IF q.op \in ByName THEN {q.names} ELSE SetToSeqs(DOMAIN servers)

\* A listing takes mx.mu.
begins(c, q) ==
    /\ mayRead
    /\ query' = [query EXCEPT ![c] = q]
    /\ \E order \in visits(q) : visit' = [visit EXCEPT ![c] = order]
    /\ at' = [at EXCEPT ![c] = "reading"]
    /\ seen' = [seen EXCEPT ![c] = [n \in DOMAIN servers |-> {Held(n)}]]
    /\ UNCHANGED <<startVars, changes, silent, closePc, word, acc, out, keys>>

calls(c, q) ==
    /\ at[c] = "idle"
    /\ q.op \notin {"CallTool", "FilterByNames"}
    /\ begins(c, q)

\* FilterByNames fails for a name that is not registered, connected or not.
FilterByNames(names) == Range(names) \subseteq DOMAIN servers

\* CallTool and FilterByNames look names up under mx.mu and let go of it ...
looksUp(c, q) ==
    /\ at[c] = "idle"
    /\ q.op \in {"CallTool", "FilterByNames"}
    /\ mayRead
    /\ LET fails == q.op = "FilterByNames" /\ ~FilterByNames(q.names)
       IN  at' = [at EXCEPT ![c] = IF fails THEN "done" ELSE "looked up"]
    /\ query' = [query EXCEPT ![c] = q]
    /\ UNCHANGED <<startVars, changes, silent, closePc, visit, word, acc, out, keys, seen>>

\* ... before CallTool, for a server it does not know, calls ServerNames for
\* the text of its error, and the view is asked for its Tools.
listsThen(c) ==
    /\ at[c] = "looked up"
    /\ begins(c, [query[c] EXCEPT !.op = IF @ = "CallTool" THEN "ServerNames"
                                         ELSE "ToolsForServers"])

-----------------------------------------------------------------------------
(* Visiting an entry *)

remember(c, n, state, tools) ==
    /\ acc' = [acc EXCEPT ![c] = Append(@, [server |-> n, state |-> state, tools |-> tools])]
    /\ out' = [out EXCEPT ![c] = @ \o tools]
    /\ visit' = [visit EXCEPT ![c] = Tail(@)]
    /\ UNCHANGED <<startVars, changes, silent, closePc, at, query, seen>>

\* A name that is not registered is passed over.
skips(c) ==
    /\ at[c] = "reading"
    /\ visit[c] # <<>>
    /\ Head(visit[c]) \notin DOMAIN servers
    /\ visit' = [visit EXCEPT ![c] = Tail(@)]
    /\ UNCHANGED <<startVars, changes, silent, closePc, at, query, word, acc, out, keys, seen>>

\* Variant: tools are told apart by their names alone.
pairOfName(name, t) == Segments[t.Name]

\* The key name + "/" + t.Name, split at the slashes.
pair(name, t) == Segments[name] \o Segments[t.Name]

\* Under entry.mu (KindsForServers needs only entry.config, which is fixed).
reads(c) ==
    /\ at[c] = "reading"
    /\ visit[c] # <<>>
    /\ query[c].op # "KindGroups"
    /\ Head(visit[c]) \in DOMAIN servers
    /\ LET n == Head(visit[c])
           tools == servers[n].tools
           more == [i \in DOMAIN tools |-> pair(n, tools[i])]
       IN  /\ remember(c, n, servers[n].state, tools)
           /\ keys' = IF query[c].op = "ToolsForServers"
                      THEN [keys EXCEPT ![c] = @ \o more] ELSE keys
    /\ UNCHANGED word

\* KindGroups reads entry.tools without entry.mu: a pointer and a length, one
\* after the other, while reconnectServer and applyToolRefresh assign both.
groupsLoads(c) ==
    /\ at[c] = "reading"
    /\ visit[c] # <<>>
    /\ query[c].op = "KindGroups"
    /\ word[c] = Nothing
    /\ word' = [word EXCEPT ![c] = <<servers[Head(visit[c])].tools>>]
    /\ UNCHANGED <<startVars, changes, silent, closePc, at, query, visit, acc, out, keys, seen>>

\* What lies behind the end of an array.
Garbage == [Server |-> "?", Name |-> "?", ReadOnly |-> FALSE, Destructive |-> FALSE,
            Idempotent |-> FALSE, Write |-> FALSE]

\* The elements of one list, as many as the other has.
torn(array, length) ==
    [i \in DOMAIN length |-> IF i \in DOMAIN array THEN array[i] ELSE Garbage]

groupsReads(c) ==
    /\ word[c] # Nothing
    /\ LET n == Head(visit[c])
           now == servers[n].tools
       IN  \/ remember(c, n, servers[n].state, torn(word[c][1], now))
           \/ remember(c, n, servers[n].state, torn(now, word[c][1]))
    /\ word' = [word EXCEPT ![c] = Nothing]
    /\ UNCHANGED keys

returnsList(c) ==
    /\ at[c] = "reading"
    /\ visit[c] = <<>>
    /\ at' = [at EXCEPT ![c] = "done"]
    /\ UNCHANGED <<startVars, changes, silent, closePc, query, visit, word, acc, out, keys, seen>>

-----------------------------------------------------------------------------
(* What the callers get, from what was read.  Sorted lists are sets here.   *)

ServerNames(read) == {read[i].server : i \in {j \in DOMAIN read : read[j].state # "down"}}

ServerStatus(read) ==
    [n \in {read[i].server : i \in DOMAIN read} |->
        (CHOOSE x \in Range(read) : x.server = n).state]

\* How many of the positions are there up to i?
rank(i, positions) == Cardinality({j \in positions : j <= i})

\* The elements of a list at some positions, in their order.
Picked(list, positions) ==
    [k \in 1..Cardinality(positions) |-> list[CHOOSE i \in positions : rank(i, positions) = k]]

\* Where a key is not yet in the map.
firsts(all) == {i \in DOMAIN all : \A j \in 1..(i - 1) : all[j] # all[i]}

\* The tools whose key is the first of its kind.
ToolsForServers(all, allKeys) == Picked(all, firsts(allKeys))

\* Variant: servers without a kind form one group.
kindOfAny(n) == servers[n].config.Kind

kindOf(n) ==
    IF servers[n].config.Kind = NoText THEN n ELSE servers[n].config.Kind

KindsForServers(read) == {kindOf(read[i].server) : i \in DOMAIN read}

KindGroups(read) ==
    [k \in KindsForServers(read) |->
        LET members == {x \in Range(read) : kindOf(x.server) = k}
        IN  [Servers |-> {x.server : x \in members},
             Tools |-> UNION {{t.Name : t \in Range(x.tools)} : x \in members}]]

-----------------------------------------------------------------------------
(* The rest of the program, as far as it concerns a listing: reconnects and  *)
(* refreshes (Lifecycle) assign an entry's fields under entry.mu, which      *)
(* NewFromSessions starts none of, and Close takes mx.mu.                    *)

becomes(n, state, tools) ==
    /\ phase = "ready"
    /\ setup.by = "New"
    /\ changes < MaxChanges
    /\ changes' = changes + 1
    /\ servers' = [servers EXCEPT ![n].state = state, ![n].tools = tools]
    /\ seen' = [c \in Callers |->
            IF at[c] = "reading"
            THEN [seen[c] EXCEPT ![n] = @ \cup {[state |-> state, tools |-> tools]}]
            ELSE seen[c]]
    /\ UNCHANGED <<newVars, silent, closePc, at, query, visit, word, acc, out, keys>>

reconnected(n) ==
    /\ servers[n].state = "down"
    /\ n \notin silent
    /\ \E l \in Served : becomes(n, "connected", fetchTools(n, l))

foundDead(n) ==
    /\ opts.healthCheckInterval > 0
    /\ servers[n].state = "connected"
    /\ becomes(n, "down", servers[n].tools)

\* A refresh that began before the server was found dead may end after it.
refreshed(n) ==
    /\ servers[n].state = "connected" \/ servers[n].tools # <<>>
    /\ \E l \in Served : becomes(n, servers[n].state, fetchTools(n, l))

\* The server at the other end of a session stops answering ...
fallsSilent(n) ==
    /\ phase = "ready"
    /\ n \notin silent
    /\ servers[n].state = "connected"
    /\ changes < MaxChanges
    /\ changes' = changes + 1
    /\ silent' = silent \cup {n}
    /\ UNCHANGED <<startVars, closePc, callVars>>

\* ... and may start again.
answersAgain(n) ==
    /\ n \in silent
    /\ silent' = silent \ {n}
    /\ UNCHANGED <<startVars, changes, closePc, callVars>>

closeStep(from, to) ==
    /\ closePc = from
    /\ closePc' = to
    /\ UNCHANGED <<startVars, changes, silent, callVars>>

Close == phase = "ready" /\ closeStep("open", "waiting")

closeLocks == (\A c \in Callers : ~holds(c)) /\ closeStep("waiting", "held")

\* The servers that keep Close waiting: a subprocess is killed, but over HTTP the
\* request that ends a session has to be answered.
blocking == {n \in silent : servers[n].config.Transport # "stdio"}

\* The sessions are closed and mx.mu is given back.
closeReturns == blocking = {} /\ closeStep("held", "done")

-----------------------------------------------------------------------------
start == Start /\ UNCHANGED <<changes, silent, closePc, callVars>>

callerStep(c) ==
    \/ listsThen(c) \/ skips(c) \/ reads(c) \/ groupsLoads(c) \/ groupsReads(c) \/ returnsList(c)

Next ==
    \/ start
    \/ \E c \in Callers : \E q \in setup.queries : calls(c, q) \/ looksUp(c, q)
    \/ \E c \in Callers : callerStep(c)
    \/ \E n \in DOMAIN servers : \/ reconnected(n) \/ foundDead(n) \/ refreshed(n)
                                \/ fallsSilent(n) \/ answersAgain(n)
    \/ Close \/ closeLocks \/ closeReturns

Spec == Init /\ [][Next]_vars

\* A goroutine that can take its next step does so.
LiveSpec ==
    /\ Spec
    /\ \A c \in Callers : WF_vars(callerStep(c))
    /\ WF_vars(closeLocks) /\ WF_vars(closeReturns)

-----------------------------------------------------------------------------
(* Properties *)

HeldStates(c, n) == {h.state : h \in seen[c][n]}
HeldTools(c, n) == {h.tools : h \in seen[c][n]}

\* The tools of a server in a list are a given list, in one piece.
Piece(list, server, tools) ==
    \E k \in 0..(Len(list) - Len(tools)) :
        /\ \A i \in DOMAIN tools : list[k + i] = tools[i]
        /\ \A j \in DOMAIN list : list[j].Server = server => j \in (k + 1)..(k + Len(tools))

\* Was a server connected, or down, whenever its entry was seen during the call?
Always(c, n, state) == HeldStates(c, n) = {state}

\* A listing that other goroutines disturb still tells, for each server, what
\* that server's entry held at some moment of the call: no server is missed or
\* given twice, and none is shown with tools of two lists or with its tools
\* torn apart; AllTools has those of every server that was connected throughout
\* (multiplexer.go:155-171, 264-290).
ListingsAreCurrent ==
    \A c \in Callers : at[c] = "done" =>
        /\ query[c].op = "ServerNames" => \A n \in DOMAIN seen[c] :
                IF n \in ServerNames(acc[c])
                THEN "connected" \in HeldStates(c, n) ELSE "down" \in HeldStates(c, n)
        /\ query[c].op = "ServerStatus" =>
                /\ DOMAIN ServerStatus(acc[c]) = DOMAIN seen[c]
                /\ opts.healthCheckInterval > 0 => \A n \in DOMAIN seen[c] :
                        ServerStatus(acc[c])[n] \in HeldStates(c, n)
        /\ query[c].op = "AllTools" => \A n \in DOMAIN seen[c] :
                \/ \E tools \in HeldTools(c, n) : Piece(out[c], n, tools)
                \/ ~Always(c, n, "connected") /\ \A j \in DOMAIN out[c] : out[c][j].Server # n

\* multiplexer.go:263: "AllTools returns every (server, tool) pair across all
\* connected servers."  So a server whose tools it lists was connected at some
\* moment of the call.
AllToolsAreOfConnected ==
    \A c \in Callers : at[c] = "done" /\ query[c].op = "AllTools" =>
        \A j \in DOMAIN out[c] : ~Always(c, out[c][j].Server, "down")

\* multiplexer.go:278-279: "When health-check is disabled (WithHealthCheck not
\* called), all values are [ServerStateConnected]."
UnsupervisedIsConnected ==
    \A c \in Callers : at[c] = "done" /\ query[c].op = "ServerStatus" =>
        opts.healthCheckSet \/ \A n \in DOMAIN seen[c] : ServerStatus(acc[c])[n] = "connected"

\* Where a name occurs for the first time in a server's list.
FirstNames(tools) ==
    {i \in DOMAIN tools : \A j \in 1..(i - 1) : tools[j].Name # tools[i].Name}

Chosen(c) == ToolsForServers(out[c], keys[c])

\* What ToolsForServers gives of a server is what its entry held at some moment
\* of the call, each name once and in one piece.
ChosenOf(c, n) ==
    \E tools \in HeldTools(c, n) : Piece(Chosen(c), n, Picked(tools, FirstNames(tools)))

\* The registered servers a listing was asked for, and those asked for once.
Asked(c) == Range(query[c].names) \cap DOMAIN seen[c]
AskedOnce(c) ==
    {n \in Asked(c) : LET names == query[c].names
                      IN  \E i \in DOMAIN names : {j \in DOMAIN names : names[j] = n} = {i}}

\* No tool that was read of another server has the key of one of n's.
Clear(c, n) ==
    \A x, y \in Range(out[c]) :
        x.Server = n /\ y.Server # n =>
            Segments[x.Server] \o Segments[x.Name] # Segments[y.Server] \o Segments[y.Name]

\* The tools of some servers are theirs alone and are current in the same sense
\* for each server that was asked for once and whose keys are no other's; no pair
\* of a server and a tool is there twice, but two servers' tools of the same
\* name both are (multiplexer.go:236-262).
ChosenToolsAreCurrent ==
    \A c \in Callers : at[c] = "done" /\ query[c].op = "ToolsForServers" =>
        /\ {x.Server : x \in Range(Chosen(c))} \subseteq Asked(c)
        /\ \A n \in AskedOnce(c) : Clear(c, n) => ChosenOf(c, n)
        /\ \A i, j \in DOMAIN Chosen(c) : i # j =>
                <<Chosen(c)[i].Server, Chosen(c)[i].Name>>
                    # <<Chosen(c)[j].Server, Chosen(c)[j].Name>>

\* multiplexer.go:236-238: "ToolsForServers returns ToolInfo for tools across the
\* given server names, in input order with stable per-server ordering. Each
\* (server, tool) pair appears once."  So no pair is missing, whatever the names.
EveryChosenToolAppears ==
    \A c \in Callers : at[c] = "done" /\ query[c].op = "ToolsForServers" =>
        \A n \in AskedOnce(c) : ChosenOf(c, n)

\* The groups that a server is in.
GroupsOf(c, n) == {k \in DOMAIN KindGroups(acc[c]) : n \in KindGroups(acc[c])[k].Servers}

\* The names of the tools that the entries of a group held during the call.
HeldNames(c, group) ==
    {t.Name : t \in UNION {UNION {Range(tools) : tools \in HeldTools(c, n)} : n \in group.Servers}}

\* Every server is in exactly one group; servers with a kind share theirs if and
\* only if they are of one kind, and no two servers without a kind do; a group
\* that was left alone lists the tools of its servers; and the kinds of some
\* servers are the kinds of the groups that they are in (multiplexer.go:173-234).
GroupsPartition ==
    \A c \in Callers : at[c] = "done" =>
        LET kind(n) == servers[n].config.Kind
            groups == KindGroups(acc[c])
            same(m, n) == GroupsOf(c, m) = GroupsOf(c, n)
            undisturbed(k) == \A n \in groups[k].Servers : Cardinality(seen[c][n]) = 1
        IN  /\ query[c].op = "KindGroups" =>
                /\ \A n \in DOMAIN seen[c] : Cardinality(GroupsOf(c, n)) = 1
                /\ \A m, n \in DOMAIN seen[c] :
                    (kind(m) = NoText <=> kind(n) = NoText) =>
                        (same(m, n) <=> m = n \/ (kind(m) = kind(n) /\ kind(m) # NoText))
                /\ \A k \in DOMAIN groups :
                    undisturbed(k) => groups[k].Tools = HeldNames(c, groups[k])
            /\ query[c].op = "KindsForServers" =>
                KindsForServers(acc[c]) =
                    {IF kind(n) = NoText THEN n ELSE kind(n) :
                        n \in Range(query[c].names) \cap DOMAIN servers}

\* config.go:38-39: "Empty kind is treated as a unique kind equal to the server
\* name."  So a server without a kind shares its group with no other.
KindlessAreAlone ==
    \A c \in Callers : at[c] = "done" /\ query[c].op = "KindGroups" =>
        \A m, n \in DOMAIN seen[c] :
            servers[m].config.Kind = NoText /\ m # n => GroupsOf(c, m) # GroupsOf(c, n)

\* multiplexer.go:30: "mu sync.RWMutex // guards session, tools, state".  So what
\* KindGroups lists are tools that the entries of the group held.
GroupToolsAreHeld ==
    \A c \in Callers : at[c] = "done" /\ query[c].op = "KindGroups" =>
        \A k \in DOMAIN KindGroups(acc[c]) :
            KindGroups(acc[c])[k].Tools \subseteq HeldNames(c, KindGroups(acc[c])[k])

\* Unless a server stays silent for ever over HTTP, every listing returns, and so
\* does Close, although a Close that waits keeps new readers out of mx.mu and
\* CallTool lists the servers after its own look at them (caller.go:54-60,
\* multiplexer.go:293-309).
ListingsAndCloseReturn ==
    <>[](blocking = {}) =>
        /\ \A c \in Callers : at[c] # "idle" ~> at[c] = "done"
        /\ closePc = "waiting" ~> closePc = "done"
=============================================================================
