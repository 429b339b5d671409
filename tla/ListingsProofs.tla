--------------------------- MODULE ListingsProofs ---------------------------
(***************************************************************************)
(* What the read API tells is current and its groups are a partition, for  *)
(* any set of servers, any number of callers and any number of changes     *)
(* meanwhile.                                                              *)
(***************************************************************************)
EXTENDS Listings, FiniteSetTheorems, TLAPS

States == {"connected", "down"}

\* The tools an entry can have.
ToolsOf(n) == {toolInfo(n, t) : t \in (UNION {Range(l) : l \in Served})}

AnyTool == UNION {ToolsOf(n) : n \in DOMAIN servers}

-----------------------------------------------------------------------------
(* The inductive invariant *)

TypeInv ==
    /\ setup \in Setups
    /\ at \in [Callers -> {"idle", "looked up", "reading", "done"}]
    /\ DOMAIN query = Callers /\ DOMAIN visit = Callers /\ DOMAIN word = Callers
    /\ DOMAIN acc = Callers /\ DOMAIN out = Callers /\ DOMAIN keys = Callers
    /\ DOMAIN seen = Callers
    /\ \A c \in Callers :
          query[c] = [op |-> query[c].op, names |-> query[c].names]

\* Every entry belongs to its name, which is that of a configured server.
EntryInv ==
    /\ \A n \in DOMAIN servers : \E i \in DOMAIN setup.cfg : n = setup.cfg[i].Name
    /\ servers = [n \in DOMAIN servers |-> servers[n]]
    /\ IsFiniteSet(DOMAIN servers)
    /\ \A n \in DOMAIN servers :
          /\ servers[n] = entry(servers[n].config, servers[n].state, servers[n].tools)
          /\ servers[n].state \in States
          /\ servers[n].tools \in Seq(ToolsOf(n))

\* A caller that holds nothing has read nothing, and there is nobody to call
\* before New has returned.
IdleInv ==
    \A c \in Callers :
        /\ at[c] # "idle" => phase = "ready"
        /\ at[c] \in {"idle", "looked up"} =>
              /\ visit[c] = <<>> /\ word[c] = <<>> /\ acc[c] = <<>> /\ out[c] = <<>>
              /\ keys[c] = <<>>
        /\ at[c] = "looked up" =>
              query[c].op \in {"CallTool", "FilterByNames"} /\ query[c].names \in Seq(Range(query[c].names))
        /\ at[c] = "reading" => query[c].op # "FilterByNames"
        /\ word[c] # <<>> => at[c] = "reading" /\ query[c].op = "KindGroups" /\ visit[c] # <<>>

Listing(c) == at[c] \in {"reading", "done"} /\ query[c].op # "FilterByNames"

\* What a listing is about.
Wanted(c) == IF query[c].op \in ByName THEN Range(query[c].names) ELSE DOMAIN servers

Visited(c) == {x.server : x \in Range(acc[c])}

\* seen is what the entries have held since the call began.
SeenOK(c) ==
    /\ seen[c] = [n \in DOMAIN servers |-> seen[c][n]]
    /\ \A n \in DOMAIN servers :
          /\ seen[c][n] # {} /\ IsFiniteSet(seen[c][n])
          /\ \A h \in seen[c][n] : h.state \in States /\ h.tools \in Seq(ToolsOf(n))
          /\ at[c] = "reading" => Held(n) \in seen[c][n]

\* The rest of some names is their end, and what was visited is among the others.
Rest(names, rest, visited) ==
    LET k == Len(names) - Len(rest)
    IN  /\ names \in Seq(Range(names)) /\ rest \in Seq(Range(names)) /\ Len(rest) <= Len(names)
        /\ \A i \in DOMAIN rest : rest[i] = names[k + i]
        /\ \A n \in visited : \E i \in 1..k : names[i] = n

Once(names, n) == \A i, j \in DOMAIN names : names[i] = n /\ names[j] = n => i = j

\* A listing visits server n at most once.
Single(c, n) == query[c].op \in ByName => Once(query[c].names, n)

\* Every entry was visited or is still to be visited, and in map order only one
\* of these.
VisitOK(c) ==
    /\ visit[c] \in Seq(Wanted(c))
    /\ at[c] = "done" => visit[c] = <<>>
    /\ Visited(c) \cup (Range(visit[c]) \cap DOMAIN servers) = Wanted(c) \cap DOMAIN servers
    /\ query[c].op \notin ByName =>
          IsInjective(visit[c]) /\ Visited(c) \cap Range(visit[c]) = {}
    /\ query[c].op \in ByName => Rest(query[c].names, visit[c], Visited(c))

\* What was read of an entry, it held. KindGroups may have mixed two lists, but
\* not if there was only one.
ReadOK(c) ==
    /\ acc[c] \in Seq(Range(acc[c]))
    /\ \A x \in Range(acc[c]) :
          /\ x.state \in HeldStates(c, x.server)
          /\ query[c].op = "KindGroups" => \A h \in seen[c][x.server] :
                seen[c][x.server] = {h} => x.tools = h.tools
    /\ word[c] # <<>> => word[c][1] \in HeldTools(c, Head(visit[c]))

\* The keys of some tools.
keysOf(list) == [i \in DOMAIN list |-> pair(list[i].Server, list[i])]

\* The tools collected are one piece for each server that is visited once, and
\* nothing of any that is not, and ToolsForServers knows their keys.
OutOK(c) ==
    query[c].op # "KindGroups" =>
        /\ out[c] \in Seq(AnyTool)
        /\ query[c].op = "ToolsForServers" => keys[c] = keysOf(out[c])
        /\ \A n \in DOMAIN servers :
              IF n \in Visited(c)
              THEN Single(c, n) => \E tools \in HeldTools(c, n) : Piece(out[c], n, tools)
              ELSE \A j \in DOMAIN out[c] : out[c][j].Server # n

CallerOK(c) == Listing(c) => SeenOK(c) /\ VisitOK(c) /\ ReadOK(c) /\ OutOK(c)

IInv == TypeInv /\ EntryInv /\ IdleInv /\ \A c \in Callers : CallerOK(c)

-----------------------------------------------------------------------------
(* Sequences *)

\* Nothing of a list has been visited yet.
LEMMA RestAll ==
    ASSUME NEW names, names \in Seq(Range(names))
    PROVE  Rest(names, names, {})
BY DEF Rest

\* The next name of a list has been dealt with, or it was there before.
LEMMA RestNext ==
    ASSUME NEW names, NEW rest, NEW visited, Rest(names, rest, visited), rest # <<>>,
           NEW more \in SUBSET (visited \cup {Head(rest)})
    PROVE  /\ Rest(names, Tail(rest), more)
           /\ Head(rest) \in visited => ~Once(names, Head(rest))
<1> DEFINE k == Len(names) - Len(rest)
<1>1. /\ names \in Seq(Range(names)) /\ rest \in Seq(Range(names)) /\ Len(rest) <= Len(names)
      /\ \A i \in DOMAIN rest : rest[i] = names[k + i]
      /\ \A n \in visited : \E i \in 1..k : names[i] = n
  BY DEF Rest
<1>2. /\ Len(rest) \in Nat /\ Len(rest) > 0 /\ Len(names) \in Nat /\ k \in Nat /\ k + 1 <= Len(names)
      /\ DOMAIN rest = 1..Len(rest) /\ DOMAIN names = 1..Len(names)
      /\ Head(rest) = rest[1] /\ Tail(rest) \in Seq(Range(names))
      /\ Len(Tail(rest)) = Len(rest) - 1 /\ DOMAIN Tail(rest) = 1..(Len(rest) - 1)
      /\ \A i \in 1..(Len(rest) - 1) : Tail(rest)[i] = rest[i + 1]
  BY <1>1
<1>3. Len(names) - Len(Tail(rest)) = k + 1 /\ Len(Tail(rest)) <= Len(names)
  BY <1>1, <1>2
<1>4. Head(rest) = names[k + 1]
  BY <1>1, <1>2
<1> HIDE DEF k
<1>5. ASSUME NEW i \in DOMAIN Tail(rest) PROVE Tail(rest)[i] = names[(k + 1) + i]
  <2>1. i + 1 \in DOMAIN rest /\ k + (i + 1) = (k + 1) + i
    BY <1>2
  <2> QED BY <1>1, <1>2, <2>1
<1>6. \A n \in more : \E i \in 1..(k + 1) : names[i] = n
  <2>1. k + 1 \in 1..(k + 1) /\ 1..k \subseteq 1..(k + 1)
    BY <1>2
  <2> QED BY <1>1, <1>4, <2>1
<1>7. Head(rest) \in visited => ~Once(names, Head(rest))
  <2>1. k + 1 \in DOMAIN names /\ \A i \in 1..k : i \in DOMAIN names /\ i # k + 1
    BY <1>2
  <2> QED BY <1>1, <1>4, <2>1 DEF Once
<1> QED BY <1>1, <1>2, <1>3, <1>5, <1>6, <1>7 DEF Rest

\* An order of a finite set has each of its elements once.
LEMMA OrderFacts ==
    ASSUME NEW D, IsFiniteSet(D), NEW f \in SetToSeqs(D)
    PROVE  f \in Seq(D) /\ Range(f) = D /\ IsInjective(f)
<1>1. Cardinality(D) \in Nat
  BY FS_CardinalityType
<1>2. Cardinality(1..Cardinality(D)) = Cardinality(D)
  <2>1. 1 \in Int /\ Cardinality(D) \in Int
    BY <1>1
  <2>2. Cardinality(1..Cardinality(D)) =
           IF 1 > Cardinality(D) THEN 0 ELSE Cardinality(D) - 1 + 1
    BY <2>1, FS_Interval, Zenon
  <2> QED BY <1>1, <2>2
<1>3. /\ f \in [1..Cardinality(D) -> D]
      /\ \A i, j \in 1..Cardinality(D) : i # j => f[i] # f[j]
  BY DEF SetToSeqs
<1>4. f \in Injection(1..Cardinality(D), D)
  BY <1>3 DEF Injection, IsInjective
<1>5. f \in Surjection(1..Cardinality(D), D)
  BY <1>2, <1>4, FS_Injection
<1>6. f \in Seq(D)
  BY <1>1, <1>3
<1> QED BY <1>3, <1>5, <1>6 DEF Surjection, Range, IsInjective

\* The empty sequence.
LEMMA EmptyFacts ==
    /\ DOMAIN <<>> = {} /\ Range(<<>>) = {} /\ IsInjective(<<>>)
    /\ \A S : <<>> \in Seq(S)
<1>1. DOMAIN <<>> = {} /\ \A S : <<>> \in Seq(S)
  OBVIOUS
<1> QED BY <1>1 DEF Range, IsInjective

\* The rest of a sequence.
LEMMA TailFacts ==
    ASSUME NEW S, NEW s \in Seq(S), s # <<>>
    PROVE  /\ Tail(s) \in Seq(S)
           /\ Head(s) \in S
           /\ Range(s) = {Head(s)} \cup Range(Tail(s))
           /\ IsInjective(s) => IsInjective(Tail(s)) /\ Head(s) \notin Range(Tail(s))
<1>1. Len(s) \in Nat /\ Len(s) > 0 /\ DOMAIN s = 1..Len(s)
  OBVIOUS
<1>2. /\ Tail(s) \in Seq(S) /\ Head(s) = s[1] /\ DOMAIN Tail(s) = 1..(Len(s) - 1)
      /\ \A i \in 1..(Len(s) - 1) : Tail(s)[i] = s[i + 1]
  OBVIOUS
<1>3. 1 \in DOMAIN s /\ (\A i \in 1..(Len(s) - 1) : i + 1 \in DOMAIN s /\ i + 1 # 1)
  BY <1>1
<1>4. \A i \in DOMAIN s : i = 1 \/ (i - 1 \in 1..(Len(s) - 1) /\ (i - 1) + 1 = i)
  BY <1>1
<1>5. Range(s) = {Head(s)} \cup Range(Tail(s))
  BY <1>2, <1>3, <1>4 DEF Range
<1>6. ASSUME IsInjective(s)
      PROVE  IsInjective(Tail(s)) /\ Head(s) \notin Range(Tail(s))
  <2>1. ASSUME NEW i \in DOMAIN Tail(s), NEW j \in DOMAIN Tail(s), Tail(s)[i] = Tail(s)[j]
        PROVE  i = j
    <3>1. s[i + 1] = s[j + 1]
      BY <1>2, <2>1
    <3>2. i + 1 = j + 1
      BY <1>2, <1>3, <1>6, <3>1 DEF IsInjective
    <3> QED BY <1>1, <1>2, <3>2
  <2>2. \A i \in DOMAIN Tail(s) : Tail(s)[i] # s[1]
    BY <1>2, <1>3, <1>6 DEF IsInjective
  <2> QED BY <1>2, <2>1, <2>2 DEF IsInjective, Range
<1> QED BY <1>2, <1>3, <1>5, <1>6

\* One more element.
LEMMA AppendFacts ==
    ASSUME NEW s, s \in Seq(Range(s)), NEW x
    PROVE  /\ Append(s, x) \in Seq(Range(Append(s, x)))
           /\ Range(Append(s, x)) = Range(s) \cup {x}
<1> DEFINE S == Range(s) \cup {x}
           t == Append(s, x)
<1>1. s \in Seq(S) /\ x \in S
  OBVIOUS
<1>2. /\ t \in Seq(S) /\ DOMAIN t = 1..(Len(s) + 1) /\ DOMAIN s = 1..Len(s) /\ Len(s) \in Nat
      /\ t[Len(s) + 1] = x /\ \A i \in 1..Len(s) : t[i] = s[i]
  BY <1>1
<1>3. Range(t) = S
  <2> HIDE DEF t
  <2>1. \A i \in 1..(Len(s) + 1) : i \in 1..Len(s) \/ i = Len(s) + 1
    BY <1>2
  <2>2. Len(s) + 1 \in DOMAIN t /\ (\A i \in 1..Len(s) : i \in DOMAIN t)
    BY <1>2
  <2> QED BY <1>2, <2>1, <2>2 DEF Range
<1> QED BY <1>2, <1>3

\* A piece stays a piece when tools of other servers follow it.
LEMMA PieceKept ==
    ASSUME NEW S, NEW list \in Seq(S), NEW more \in Seq(S), NEW tools \in Seq(S), NEW n,
           Piece(list, n, tools), \A i \in DOMAIN more : more[i].Server # n
    PROVE  Piece(list \o more, n, tools)
<1> DEFINE t == list \o more
<1>1. /\ t \in Seq(S) /\ Len(t) = Len(list) + Len(more) /\ DOMAIN t = 1..(Len(list) + Len(more))
      /\ \A i \in 1..Len(list) : t[i] = list[i]
      /\ \A i \in 1..Len(more) : t[Len(list) + i] = more[i]
  OBVIOUS
<1>2. /\ Len(list) \in Nat /\ Len(more) \in Nat /\ Len(tools) \in Nat
      /\ DOMAIN list = 1..Len(list) /\ DOMAIN more = 1..Len(more) /\ DOMAIN tools = 1..Len(tools)
  OBVIOUS
<1> HIDE DEF t
<1>3. PICK k \in 0..(Len(list) - Len(tools)) :
        /\ \A i \in DOMAIN tools : list[k + i] = tools[i]
        /\ \A j \in DOMAIN list : list[j].Server = n => j \in (k + 1)..(k + Len(tools))
  BY DEF Piece
<1>4. k \in 0..(Len(t) - Len(tools))
  BY <1>1, <1>2
<1>5. \A i \in DOMAIN tools : t[k + i] = tools[i]
  <2> TAKE i \in DOMAIN tools
  <2>1. k + i \in 1..Len(list)
    BY <1>2
  <2> QED BY <1>1, <1>3, <2>1
<1>6. \A j \in DOMAIN t : t[j].Server = n => j \in (k + 1)..(k + Len(tools))
  <2> TAKE j \in DOMAIN t
  <2> HAVE t[j].Server = n
  <2>1. CASE j \in 1..Len(list)
    BY <1>1, <1>2, <1>3, <2>1
  <2>2. CASE j \notin 1..Len(list)
    <3>1. j - Len(list) \in 1..Len(more) /\ Len(list) + (j - Len(list)) = j
      BY <1>1, <1>2, <2>2
    <3>2. t[j] = more[j - Len(list)]
      BY <1>1, <3>1
    <3> QED BY <1>2, <3>1, <3>2
  <2> QED BY <2>1, <2>2
<1> QED BY <1>4, <1>5, <1>6 DEF Piece, t

\* The tools of a server of which there was nothing are a piece.
LEMMA PieceNew ==
    ASSUME NEW S, NEW list \in Seq(S), NEW tools \in Seq(S), NEW n,
           \A j \in DOMAIN list : list[j].Server # n
    PROVE  Piece(list \o tools, n, tools)
<1> DEFINE t == list \o tools
<1>1. /\ t \in Seq(S) /\ Len(t) = Len(list) + Len(tools) /\ DOMAIN t = 1..(Len(list) + Len(tools))
      /\ \A i \in 1..Len(list) : t[i] = list[i]
      /\ \A i \in 1..Len(tools) : t[Len(list) + i] = tools[i]
  OBVIOUS
<1>2. /\ Len(list) \in Nat /\ Len(tools) \in Nat
      /\ DOMAIN list = 1..Len(list) /\ DOMAIN tools = 1..Len(tools)
  OBVIOUS
<1> HIDE DEF t
<1>3. Len(list) \in 0..(Len(t) - Len(tools))
  BY <1>1, <1>2
<1>4. \A i \in DOMAIN tools : t[Len(list) + i] = tools[i]
  BY <1>1, <1>2
<1>5. \A j \in DOMAIN t : t[j].Server = n => j \in (Len(list) + 1)..(Len(list) + Len(tools))
  <2> TAKE j \in DOMAIN t
  <2> HAVE t[j].Server = n
  <2>1. j \notin 1..Len(list)
    BY <1>1, <1>2
  <2> QED BY <1>1, <1>2, <2>1
<1> QED BY <1>3, <1>4, <1>5 DEF Piece, t

\* Nothing of a server stays nothing when tools of others follow.
LEMMA NoneKept ==
    ASSUME NEW S, NEW list \in Seq(S), NEW more \in Seq(S), NEW n,
           \A j \in DOMAIN list : list[j].Server # n,
           \A i \in DOMAIN more : more[i].Server # n
    PROVE  \A j \in DOMAIN (list \o more) : (list \o more)[j].Server # n
<1> DEFINE t == list \o more
<1>1. /\ DOMAIN t = 1..(Len(list) + Len(more))
      /\ \A i \in 1..Len(list) : t[i] = list[i]
      /\ \A i \in 1..Len(more) : t[Len(list) + i] = more[i]
  OBVIOUS
<1>2. /\ Len(list) \in Nat /\ Len(more) \in Nat
      /\ DOMAIN list = 1..Len(list) /\ DOMAIN more = 1..Len(more)
  OBVIOUS
<1> HIDE DEF t
<1>3. \A j \in DOMAIN t : t[j].Server # n
  <2> TAKE j \in DOMAIN t
  <2>1. CASE j \in 1..Len(list)
    BY <1>1, <1>2, <2>1
  <2>2. CASE j \notin 1..Len(list)
    <3>1. j - Len(list) \in 1..Len(more) /\ Len(list) + (j - Len(list)) = j
      BY <1>1, <1>2, <2>2
    <3> QED BY <1>1, <1>2, <3>1
  <2> QED BY <2>1, <2>2
<1> QED BY <1>3 DEF t

\* A sequence behind another one.
LEMMA ConcatFacts ==
    ASSUME NEW S, NEW s \in Seq(S), NEW t \in Seq(S)
    PROVE  /\ Len(s \o t) = Len(s) + Len(t) /\ Len(s) \in Nat /\ Len(t) \in Nat
           /\ \A i \in 1..Len(s) : (s \o t)[i] = s[i]
           /\ \A i \in 1..Len(t) : (s \o t)[Len(s) + i] = t[i]
OBVIOUS

\* No tools have no keys.
LEMMA NoKeys == keysOf(<<>>) = <<>>
<1>1. DOMAIN keysOf(<<>>) = 1..0 /\ keysOf(<<>>) = [i \in 1..0 |-> keysOf(<<>>)[i]]
  BY DEF keysOf
<1>2. keysOf(<<>>) \in Seq({0}) /\ Len(keysOf(<<>>)) = 0
  <2> DEFINE k == keysOf(<<>>)
  <2>1. \A i \in 1..0 : FALSE
    OBVIOUS
  <2> HIDE DEF k
  <2>2. k = [i \in 1..0 |-> k[i]] => k \in Seq({0}) /\ Len(k) = 0
    BY <2>1
  <2> QED BY <1>1, <2>2 DEF k
<1> QED BY <1>2

\* The keys of two lists behind each other.
LEMMA KeysConcat ==
    ASSUME NEW S, NEW list \in Seq(S), NEW more \in Seq(S)
    PROVE  keysOf(list \o more) = keysOf(list) \o keysOf(more)
<1> DEFINE t == list \o more
           K == Range(keysOf(list)) \cup Range(keysOf(more)) \cup Range(keysOf(t))
<1>1. /\ t \in Seq(S) /\ DOMAIN t = 1..(Len(list) + Len(more))
      /\ \A i \in 1..Len(list) : t[i] = list[i]
      /\ \A i \in 1..Len(more) : t[Len(list) + i] = more[i]
  OBVIOUS
<1>2. /\ Len(list) \in Nat /\ Len(more) \in Nat
      /\ DOMAIN list = 1..Len(list) /\ DOMAIN more = 1..Len(more)
  OBVIOUS
<1> HIDE DEF t
<1>3. /\ DOMAIN keysOf(list) = 1..Len(list) /\ DOMAIN keysOf(more) = 1..Len(more)
      /\ DOMAIN keysOf(t) = 1..(Len(list) + Len(more))
  BY <1>1, <1>2 DEF keysOf
<1>4. /\ keysOf(list) \in Seq(K) /\ keysOf(more) \in Seq(K) /\ keysOf(t) \in Seq(K)
      /\ Len(keysOf(list)) = Len(list) /\ Len(keysOf(more)) = Len(more)
  <2>1. ASSUME NEW f, NEW n \in Nat, f = [i \in 1..n |-> f[i]], Range(f) \subseteq K
        PROVE  f \in Seq(K) /\ Len(f) = n
    <3>1. \A i \in 1..n : f[i] \in K
      BY <2>1 DEF Range
    <3> HIDE DEF K
    <3> QED BY <2>1, <3>1
  <2>2. /\ keysOf(list) = [i \in 1..Len(list) |-> keysOf(list)[i]]
        /\ keysOf(more) = [i \in 1..Len(more) |-> keysOf(more)[i]]
        /\ keysOf(t) = [i \in 1..(Len(list) + Len(more)) |-> keysOf(t)[i]]
    BY <1>1, <1>2 DEF keysOf
  <2>3. Len(list) + Len(more) \in Nat
    BY <1>2
  <2> QED BY <1>2, <2>1, <2>2, <2>3
<1>5. \A i \in 1..Len(list) : keysOf(t)[i] = keysOf(list)[i]
  <2> TAKE i \in 1..Len(list)
  <2>1. i \in DOMAIN t
    BY <1>1, <1>2
  <2> QED BY <1>1, <1>2, <2>1 DEF keysOf
<1>6. \A i \in 1..Len(more) : keysOf(t)[Len(list) + i] = keysOf(more)[i]
  <2> TAKE i \in 1..Len(more)
  <2>1. Len(list) + i \in DOMAIN t
    BY <1>1, <1>2
  <2> QED BY <1>1, <1>2, <2>1 DEF keysOf
<1>7. keysOf(t) = keysOf(list) \o keysOf(more)
  <2> HIDE DEF K
  <2> DEFINE a == keysOf(list)
             b == keysOf(more)
             u == keysOf(t)
  <2>1. /\ a \in Seq(K) /\ b \in Seq(K) /\ u \in Seq(K)
        /\ Len(u) = Len(a) + Len(b)
        /\ \A i \in 1..Len(a) : u[i] = a[i]
        /\ \A i \in 1..Len(b) : u[Len(a) + i] = b[i]
    BY <1>2, <1>3, <1>4, <1>5, <1>6
  <2> HIDE DEF a, b, u
  <2>2. u = a \o b
    <3> DEFINE v == a \o b
    <3>1. /\ v \in Seq(K) /\ Len(v) = Len(a) + Len(b) /\ Len(a) \in Nat /\ Len(b) \in Nat
          /\ \A i \in 1..Len(a) : v[i] = a[i]
          /\ \A i \in 1..Len(b) : v[Len(a) + i] = b[i]
      BY <2>1, ConcatFacts
    <3> HIDE DEF v
    <3>2. ASSUME NEW i \in 1..(Len(a) + Len(b)) PROVE u[i] = v[i]
      <4>1. CASE i \in 1..Len(a)
        BY <2>1, <3>1, <4>1
      <4>2. CASE i \notin 1..Len(a)
        <5>1. i - Len(a) \in 1..Len(b) /\ Len(a) + (i - Len(a)) = i
          BY <3>1, <4>2
        <5> QED BY <2>1, <3>1, <5>1
      <4> QED BY <4>1, <4>2
    <3>3. u = [i \in 1..Len(u) |-> u[i]] /\ v = [i \in 1..Len(v) |-> v[i]]
      BY <2>1, <3>1
    <3>4. u = v
      BY <2>1, <3>1, <3>2, <3>3
    <3> QED BY <3>4 DEF v
  <2> QED BY <2>2 DEF a, b, u
<1> QED BY <1>7 DEF t

\* Tools as a server sends them become tools of that server.
LEMMA FetchedTools ==
    ASSUME NEW n, NEW l \in Served
    PROVE  fetchTools(n, l) \in Seq(ToolsOf(n))
<1>1. l \in Seq({l[i] : i \in DOMAIN l})
  BY StartupAssumption
<1>2. DOMAIN l = 1..Len(l) /\ Len(l) \in Nat
  BY <1>1
<1>3. \A i \in DOMAIN l : toolInfo(n, l[i]) \in ToolsOf(n)
  BY DEF ToolsOf, Range
<1> QED BY <1>2, <1>3 DEF fetchTools

-----------------------------------------------------------------------------
(* The invariant holds when a constructor is called, and while it runs.      *)

\* Before New has returned nobody has called anything.
LEMMA InitInv == Init => IInv
<1> SUFFICES ASSUME Init PROVE IInv
  OBVIOUS
<1>1. TypeInv
  BY DEF Init, StartInit, TypeInv, NoQuery
<1>2. EntryInv
  BY FS_EmptySet DEF Init, StartInit, EntryInv
<1>3. IdleInv
  BY DEF Init, IdleInv, Nothing
<1>4. \A c \in Callers : ~Listing(c)
  BY DEF Init, Listing
<1> QED BY <1>1, <1>2, <1>3, <1>4 DEF IInv, CallerOK

\* An entry that is new belongs to its name.
LEMMA EntryAdded ==
    ASSUME EntryInv, NEW name, NEW sc, NEW state \in States, NEW tools \in Seq(ToolsOf(name)),
           servers' = withEntry(name, entry(sc, state, tools)),
           setup' = setup, \E i \in DOMAIN setup.cfg : name = setup.cfg[i].Name
    PROVE  EntryInv'
<1>1. DOMAIN servers' = DOMAIN servers \cup {name} /\ servers' = [n \in DOMAIN servers' |-> servers'[n]]
  BY DEF withEntry
<1>2. IsFiniteSet(DOMAIN servers')
  BY <1>1, FS_AddElement DEF EntryInv
<1>3. ASSUME NEW n \in DOMAIN servers'
      PROVE  /\ servers'[n] = entry(servers'[n].config, servers'[n].state, servers'[n].tools)
             /\ servers'[n].state \in States
             /\ servers'[n].tools \in Seq(ToolsOf(n))
  <2>1. CASE n = name
    <3>1. servers'[n] = entry(sc, state, tools)
      BY <2>1 DEF withEntry
    <3> QED BY <2>1, <3>1 DEF entry
  <2>2. CASE n # name
    <3>1. n \in DOMAIN servers /\ servers'[n] = servers[n]
      BY <1>1, <2>2 DEF withEntry
    <3> QED BY <3>1 DEF EntryInv
  <2> QED BY <2>1, <2>2
<1> QED BY <1>1, <1>2, <1>3 DEF EntryInv, ToolsOf

\* The constructor adds entries while there are no callers.
LEMMA StartStep == IInv /\ start => IInv'
<1> SUFFICES ASSUME IInv, start PROVE IInv'
  OBVIOUS
<1> USE DEF IInv
<1>1. phase # "ready" /\ setup' = setup /\ UNCHANGED callVars
  BY DEF start, Start, appliesOption, appliedOptions, checks, returns, registers, newVars
<1>2. \A c \in Callers : at[c] = "idle"
  BY <1>1 DEF IdleInv, TypeInv
<1>3. TypeInv'
  BY <1>1 DEF TypeInv, callVars
<1>4. IdleInv'
  BY <1>1, <1>2 DEF IdleInv, callVars
<1>5. \A c \in Callers : CallerOK(c)'
  BY <1>1, <1>2 DEF CallerOK, Listing, callVars
<1>6. EntryInv'
  <2>1. CASE appliesOption \/ appliedOptions \/ checks \/ returns
    BY <1>1, <2>1 DEF EntryInv, appliesOption, appliedOptions, checks, returns
  <2>2. CASE \E i \in DOMAIN setup.cfg : registers(setup.cfg[i])
    <3>1. PICK i \in DOMAIN setup.cfg : registers(setup.cfg[i])
      BY <2>2
    <3> DEFINE c == setup.cfg[i]
               sc == withKindDefaults(c)
    <3>2. PICK state \in States, tools \in Seq(ToolsOf(c.Name)) :
              servers' = withEntry(c.Name, entry(sc, state, tools))
      <4>1. <<>> \in Seq(ToolsOf(c.Name))
        OBVIOUS
      <4> QED BY <3>1, <4>1, FetchedTools DEF registers, States
    <3> QED BY <1>1, <3>2, EntryAdded
  <2> QED BY <2>1, <2>2 DEF start, Start
<1> QED BY <1>3, <1>4, <1>5, <1>6

-----------------------------------------------------------------------------
(* Steps of a caller *)

\* What is true of a caller stays true while neither it nor an entry moves.
LEMMA CallerSame ==
    ASSUME NEW c \in Callers, CallerOK(c), servers' = servers,
           at'[c] = at[c], query'[c] = query[c], visit'[c] = visit[c], word'[c] = word[c],
           acc'[c] = acc[c], out'[c] = out[c], keys'[c] = keys[c], seen'[c] = seen[c]
    PROVE  CallerOK(c)'
<1>1. Listing(c)' = Listing(c) /\ Wanted(c)' = Wanted(c) /\ Visited(c)' = Visited(c)
  BY DEF Listing, Wanted, Visited
<1>2. \A n : HeldStates(c, n)' = HeldStates(c, n) /\ HeldTools(c, n)' = HeldTools(c, n) /\ Held(n)' = Held(n)
  BY DEF HeldStates, HeldTools, Held
<1>3. AnyTool' = AnyTool
  BY DEF AnyTool
<1>4. SeenOK(c)' = SeenOK(c)
  BY <1>2 DEF SeenOK, ToolsOf
<1>5. VisitOK(c)' = VisitOK(c)
  BY <1>1 DEF VisitOK
<1>6. ReadOK(c)' = ReadOK(c)
  BY <1>2 DEF ReadOK
<1>7. OutOK(c)' = OutOK(c)
  BY <1>1, <1>2, <1>3 DEF OutOK, Single
<1> QED BY <1>1, <1>4, <1>5, <1>6, <1>7 DEF CallerOK

\* A listing begins, by a caller that has read nothing yet.
LEMMA BeginsStep ==
    ASSUME IInv, NEW c \in Callers, NEW q, begins(c, q), at[c] \in {"idle", "looked up"},
           q = [op |-> q.op, names |-> q.names], q.names \in Seq(Range(q.names)),
           q.op # "FilterByNames"
    PROVE  IInv'
<1> USE DEF IInv
<1>1. PICK order \in visits(q) : visit' = [visit EXCEPT ![c] = order]
  BY DEF begins
<1>2. /\ at'[c] = "reading" /\ query'[c] = q /\ visit'[c] = order /\ word'[c] = <<>>
      /\ acc'[c] = <<>> /\ out'[c] = <<>> /\ keys'[c] = <<>>
      /\ seen'[c] = [n \in DOMAIN servers |-> {Held(n)}]
  BY <1>1 DEF begins, TypeInv, IdleInv
<1>3. \A d \in Callers \ {c} :
         /\ at'[d] = at[d] /\ query'[d] = query[d] /\ visit'[d] = visit[d] /\ word'[d] = word[d]
         /\ acc'[d] = acc[d] /\ out'[d] = out[d] /\ keys'[d] = keys[d] /\ seen'[d] = seen[d]
  BY <1>1 DEF begins, TypeInv
<1>4. servers' = servers /\ phase' = phase /\ setup' = setup /\ phase = "ready"
  BY DEF begins, startVars, newVars, mayRead
<1>5. TypeInv'
  BY <1>1, <1>2, <1>3, <1>4 DEF begins, TypeInv
<1>6. EntryInv'
  BY <1>4 DEF EntryInv
<1>7. IdleInv'
  <2> SUFFICES ASSUME NEW d \in Callers PROVE IdleInv!(d)'
    BY DEF IdleInv
  <2>1. CASE d = c
    BY <1>2, <1>4, <2>1
  <2>2. CASE d # c
    BY <1>3, <1>4, <2>2 DEF IdleInv
  <2> QED BY <2>1, <2>2
<1>8. CallerOK(c)'
  <2>1. SeenOK(c)'
    <3>1. \A n \in DOMAIN servers : Held(n)' = Held(n) /\ seen'[c][n] = {Held(n)}
      BY <1>2, <1>4 DEF Held
    <3>2. \A n \in DOMAIN servers : IsFiniteSet(seen'[c][n])
      <4>1. \A x : IsFiniteSet({x})
        BY FS_Singleton, Zenon
      <4> QED BY <3>1, <4>1
    <3>3. \A n \in DOMAIN servers : Held(n).state \in States /\ Held(n).tools \in Seq(ToolsOf(n))
      BY DEF Held, EntryInv
    <3> QED BY <1>2, <1>4, <3>1, <3>2, <3>3 DEF SeenOK, ToolsOf
  <2>2. /\ Range(acc'[c]) = {} /\ acc'[c] \in Seq(Range(acc'[c]))
        /\ DOMAIN out'[c] = {} /\ \A S : out'[c] \in Seq(S)
    BY <1>2, EmptyFacts
  <2>3. Visited(c)' = {}
    BY <2>2 DEF Visited
  <2>4. VisitOK(c)'
    <3>1. CASE q.op \in ByName
      <4>1. order = q.names /\ Wanted(c)' = Range(q.names)
        BY <1>2, <3>1 DEF visits, Wanted
      <4>2. Rest(q.names, q.names, {})
        BY RestAll
      <4> QED BY <1>2, <1>4, <2>3, <3>1, <4>1, <4>2 DEF VisitOK
    <3>2. CASE q.op \notin ByName
      <4>1. order \in SetToSeqs(DOMAIN servers) /\ Wanted(c)' = DOMAIN servers
        BY <1>2, <1>4, <3>2 DEF visits, Wanted
      <4>2. order \in Seq(DOMAIN servers) /\ Range(order) = DOMAIN servers /\ IsInjective(order)
        BY <4>1, OrderFacts DEF EntryInv
      <4> QED BY <1>2, <1>4, <2>3, <3>2, <4>1, <4>2 DEF VisitOK
    <3> QED BY <3>1, <3>2
  <2>5. ReadOK(c)'
    BY <1>2, <2>2 DEF ReadOK
  <2>6. OutOK(c)'
    <3>1. keys'[c] = keysOf(out'[c])
      BY <1>2, NoKeys
    <3> QED BY <2>3, <2>2, <3>1 DEF OutOK
  <2> QED BY <2>1, <2>4, <2>5, <2>6 DEF CallerOK
<1>9. \A d \in Callers : CallerOK(d)'
  BY <1>3, <1>4, <1>8, CallerSame
<1> QED BY <1>5, <1>6, <1>7, <1>9

\* Queries are what ListingsAssumption says.
LEMMA QueryFacts ==
    ASSUME TypeInv, NEW q \in setup.queries
    PROVE  q = [op |-> q.op, names |-> q.names] /\ q.names \in Seq(Range(q.names))
BY ListingsAssumption DEF TypeInv

\* A call takes the lock ...
LEMMA CallsStep ==
    ASSUME IInv, NEW c \in Callers, NEW q \in setup.queries, calls(c, q)
    PROVE  IInv'
<1>1. q = [op |-> q.op, names |-> q.names] /\ q.names \in Seq(Range(q.names))
  BY QueryFacts DEF IInv
<1> QED BY <1>1, BeginsStep DEF calls

\* ... or only looks names up ...
LEMMA LooksUpStep ==
    ASSUME IInv, NEW c \in Callers, NEW q \in setup.queries, looksUp(c, q)
    PROVE  IInv'
<1> USE DEF IInv
<1>1. q = [op |-> q.op, names |-> q.names] /\ q.names \in Seq(Range(q.names))
  BY QueryFacts
<1>2. /\ at'[c] \in {"looked up", "done"} /\ query'[c] = q /\ at[c] = "idle"
      /\ q.op \in {"CallTool", "FilterByNames"} /\ phase = "ready"
      /\ at'[c] = "done" => q.op = "FilterByNames"
  BY DEF looksUp, mayRead, TypeInv
<1>3. \A d \in Callers \ {c} : at'[d] = at[d] /\ query'[d] = query[d]
  BY DEF looksUp, TypeInv
<1>4. UNCHANGED <<setup, phase, servers, visit, word, acc, out, keys, seen>>
  BY DEF looksUp, startVars, newVars
<1>5. TypeInv'
  BY <1>1, <1>2, <1>3, <1>4 DEF looksUp, TypeInv
<1>6. EntryInv'
  BY <1>4 DEF EntryInv
<1>7. IdleInv'
  BY <1>1, <1>2, <1>3, <1>4 DEF IdleInv
<1>8. ~Listing(c)'
  BY <1>2 DEF Listing
<1>9. \A d \in Callers \ {c} : CallerOK(d)'
  BY <1>3, <1>4, CallerSame
<1> QED BY <1>5, <1>6, <1>7, <1>8, <1>9 DEF CallerOK

\* ... and takes the lock afterwards.
LEMMA ListsThenStep ==
    ASSUME IInv, NEW c \in Callers, listsThen(c)
    PROVE  IInv'
<1> DEFINE q == [query[c] EXCEPT !.op = IF @ = "CallTool" THEN "ServerNames" ELSE "ToolsForServers"]
<1>1. at[c] = "looked up" /\ begins(c, q)
  BY DEF listsThen
<1>2. query[c] = [op |-> query[c].op, names |-> query[c].names] /\ query[c].names \in Seq(Range(query[c].names))
  BY <1>1 DEF IInv, TypeInv, IdleInv
<1>3. /\ q.op \in {"ServerNames", "ToolsForServers"} /\ q.names = query[c].names
      /\ q = [op |-> q.op, names |-> q.names]
  BY <1>2
<1> HIDE DEF q
<1> QED BY <1>1, <1>2, <1>3, BeginsStep

\* The next name has been dealt with.
LEMMA NextVisit ==
    ASSUME IInv, NEW c \in Callers, at[c] = "reading", visit[c] # <<>>,
           servers' = servers, at'[c] = at[c], query'[c] = query[c], visit'[c] = Tail(visit[c]),
           Visited(c)' = Visited(c) \cup ({Head(visit[c])} \cap DOMAIN servers)
    PROVE  /\ Listing(c) /\ Listing(c)' /\ SeenOK(c) /\ VisitOK(c) /\ ReadOK(c) /\ OutOK(c)
           /\ VisitOK(c)'
           /\ Head(visit[c]) \in Visited(c) => ~Single(c, Head(visit[c]))
<1> DEFINE s == visit[c]
<1>1. Listing(c) /\ Listing(c)' /\ SeenOK(c) /\ VisitOK(c) /\ ReadOK(c) /\ OutOK(c)
  BY DEF IInv, IdleInv, Listing, CallerOK
<1>2. Wanted(c)' = Wanted(c) /\ s \in Seq(Wanted(c))
  BY <1>1 DEF Wanted, VisitOK
<1>3. /\ Tail(s) \in Seq(Wanted(c)) /\ Head(s) \in Wanted(c)
      /\ Range(s) = {Head(s)} \cup Range(Tail(s))
      /\ IsInjective(s) => IsInjective(Tail(s)) /\ Head(s) \notin Range(Tail(s))
  BY <1>2, TailFacts
<1> HIDE DEF s
<1>4. visit'[c] = Tail(s) /\ visit[c] = s
  BY DEF s
<1>r. query[c].op \in ByName =>
         /\ Rest(query[c].names, Tail(s), Visited(c)')
         /\ Head(s) \in Visited(c) => ~Once(query[c].names, Head(s))
  <2>1. s # <<>> /\ Visited(c)' \in SUBSET (Visited(c) \cup {Head(s)})
    BY <1>4
  <2>2. query[c].op \in ByName => Rest(query[c].names, s, Visited(c))
    BY <1>1, <1>4 DEF VisitOK
  <2> QED BY <2>1, <2>2, RestNext
<1>5. VisitOK(c)'
  BY <1>1, <1>2, <1>3, <1>4, <1>r DEF VisitOK
<1>6. Head(s) \in Visited(c) => ~Single(c, Head(s))
  BY <1>1, <1>3, <1>4, <1>r DEF VisitOK, Single
<1> QED BY <1>1, <1>4, <1>5, <1>6

\* What seen[c] is about does not change with a step of the caller.
LEMMA SeenSame ==
    ASSUME NEW c \in Callers, SeenOK(c), servers' = servers, seen'[c] = seen[c], at[c] = "reading"
    PROVE  SeenOK(c)'
BY DEF SeenOK, ToolsOf, Held

\* An unknown name is passed over.
LEMMA SkipsStep ==
    ASSUME IInv, NEW c \in Callers, skips(c)
    PROVE  IInv'
<1>1. at[c] = "reading" /\ visit[c] # <<>> /\ Head(visit[c]) \notin DOMAIN servers
  BY DEF skips
<1>2. visit'[c] = Tail(visit[c]) /\ DOMAIN visit' = Callers /\ \A d \in Callers \ {c} : visit'[d] = visit[d]
  BY DEF skips, IInv, TypeInv
<1>3. UNCHANGED <<setup, phase, servers, at, query, word, acc, out, keys, seen>>
  BY DEF skips, startVars, newVars
<1>4. /\ Visited(c)' = Visited(c)
      /\ \A n : HeldStates(c, n)' = HeldStates(c, n) /\ HeldTools(c, n)' = HeldTools(c, n)
      /\ AnyTool' = AnyTool
  BY <1>3 DEF Visited, HeldStates, HeldTools, AnyTool, ToolsOf
<1>5. SeenOK(c) /\ ReadOK(c) /\ OutOK(c) /\ VisitOK(c) /\ VisitOK(c)'
  <2>1. Visited(c)' = Visited(c) \cup ({Head(visit[c])} \cap DOMAIN servers)
    BY <1>1, <1>4
  <2> QED BY <1>1, <1>2, <1>3, <2>1, NextVisit
<1>6. word[c] = <<>>
  <2>1. query[c].op \in ByName
    <3>1. Head(visit[c]) \in Wanted(c)
      BY <1>1, <1>5, TailFacts DEF VisitOK
    <3> QED BY <1>1, <3>1 DEF Wanted
  <2> QED BY <2>1 DEF IInv, IdleInv, ByName
<1>7. TypeInv' /\ EntryInv'
  BY <1>2, <1>3 DEF IInv, TypeInv, EntryInv
<1>8. IdleInv'
  <2> SUFFICES ASSUME NEW d \in Callers PROVE IdleInv!(d)'
    BY DEF IdleInv
  <2>1. CASE d = c
    BY <1>1, <1>3, <1>6, <2>1 DEF IInv, IdleInv
  <2>2. CASE d # c
    BY <1>2, <1>3, <2>2 DEF IInv, IdleInv
  <2> QED BY <2>1, <2>2
<1>9. CallerOK(c)'
  <2>1. SeenOK(c)'
    BY <1>1, <1>3, <1>5, SeenSame
  <2>2. ReadOK(c)'
    BY <1>3, <1>4, <1>5, <1>6 DEF ReadOK
  <2>3. OutOK(c)'
    BY <1>3, <1>4, <1>5 DEF OutOK, Single
  <2> QED BY <1>5, <2>1, <2>2, <2>3 DEF CallerOK
<1>10. \A d \in Callers \ {c} : CallerOK(d)'
  BY <1>2, <1>3, CallerSame DEF IInv
<1> QED BY <1>7, <1>8, <1>9, <1>10 DEF IInv

\* An entry has been read.
LEMMA RememberStep ==
    ASSUME IInv, NEW c \in Callers, at[c] = "reading", visit[c] # <<>>,
           NEW n \in DOMAIN servers, n = Head(visit[c]), NEW tools,
           remember(c, n, servers[n].state, tools),
           DOMAIN word' = Callers, word'[c] = <<>>, \A d \in Callers \ {c} : word'[d] = word[d],
           DOMAIN keys' = Callers, \A d \in Callers \ {c} : keys'[d] = keys[d],
           query[c].op = "ToolsForServers" =>
               keys'[c] = keys[c] \o [i \in DOMAIN tools |-> pair(n, tools[i])],
           query[c].op # "KindGroups" => tools = servers[n].tools,
           query[c].op = "KindGroups" => \A h \in seen[c][n] : seen[c][n] = {h} => tools = h.tools
    PROVE  IInv'
<1> DEFINE x == [server |-> n, state |-> servers[n].state, tools |-> tools]
<1>1. /\ visit'[c] = Tail(visit[c]) /\ acc'[c] = Append(acc[c], x) /\ out'[c] = out[c] \o tools
      /\ DOMAIN visit' = Callers /\ DOMAIN acc' = Callers /\ DOMAIN out' = Callers
  BY DEF remember, IInv, TypeInv
<1>2. \A d \in Callers \ {c} : visit'[d] = visit[d] /\ acc'[d] = acc[d] /\ out'[d] = out[d]
  BY DEF remember, IInv, TypeInv
<1>3. UNCHANGED <<setup, phase, servers, at, query, seen>>
  BY DEF remember, startVars, newVars
<1>4. ReadOK(c) /\ acc[c] \in Seq(Range(acc[c]))
  BY DEF IInv, IdleInv, Listing, CallerOK, ReadOK
<1>5. acc'[c] \in Seq(Range(acc'[c])) /\ Range(acc'[c]) = Range(acc[c]) \cup {x}
  BY <1>1, <1>4, AppendFacts
<1>6. /\ Visited(c)' = Visited(c) \cup {n}
      /\ \A m : HeldStates(c, m)' = HeldStates(c, m) /\ HeldTools(c, m)' = HeldTools(c, m)
      /\ AnyTool' = AnyTool
  <2>1. Visited(c)' = Visited(c) \cup {x.server} /\ x.server = n
    BY <1>5, Zenon DEF Visited
  <2>2. \A m : HeldStates(c, m)' = HeldStates(c, m) /\ HeldTools(c, m)' = HeldTools(c, m)
    BY <1>3 DEF HeldStates, HeldTools
  <2>3. AnyTool' = AnyTool
    BY <1>3 DEF AnyTool, ToolsOf
  <2> QED BY <2>1, <2>2, <2>3
<1>7. /\ Listing(c) /\ Listing(c)' /\ SeenOK(c) /\ OutOK(c) /\ VisitOK(c)'
      /\ n \in Visited(c) => ~Single(c, n)
  <2>1. Visited(c)' = Visited(c) \cup ({Head(visit[c])} \cap DOMAIN servers)
    BY <1>6
  <2> QED BY <1>1, <1>3, <2>1, NextVisit
<1>8. Held(n) \in seen[c][n] /\ Held(n).state = servers[n].state /\ Held(n).tools = servers[n].tools
  BY <1>7 DEF SeenOK, Held
<1>9. TypeInv' /\ EntryInv'
  BY <1>1, <1>3 DEF IInv, TypeInv, EntryInv
<1>10. IdleInv'
  <2> SUFFICES ASSUME NEW d \in Callers PROVE IdleInv!(d)'
    BY DEF IdleInv
  <2>1. CASE d = c
    BY <1>3, <2>1 DEF IInv, IdleInv
  <2>2. CASE d # c
    BY <1>2, <1>3, <2>2 DEF IInv, IdleInv
  <2> QED BY <2>1, <2>2
<1>11. SeenOK(c)'
  BY <1>3, <1>7, SeenSame
<1>12. ReadOK(c)'
  <2>1. x.state \in HeldStates(c, x.server)
    BY <1>8 DEF HeldStates
  <2>2. query[c].op = "KindGroups" => \A h \in seen[c][x.server] : seen[c][x.server] = {h} => x.tools = h.tools
    OBVIOUS
  <2> HIDE DEF x
  <2> QED BY <1>3, <1>4, <1>5, <1>6, <2>1, <2>2 DEF ReadOK
<1>13. OutOK(c)'
  <2> SUFFICES ASSUME query[c].op # "KindGroups"
               PROVE  /\ out'[c] \in Seq(AnyTool)
                      /\ query[c].op = "ToolsForServers" => keys'[c] = keysOf(out'[c])
                      /\ \A m \in DOMAIN servers :
                            IF m \in Visited(c)'
                            THEN Single(c, m) => \E l \in HeldTools(c, m) : Piece(out'[c], m, l)
                            ELSE \A j \in DOMAIN out'[c] : out'[c][j].Server # m
    BY <1>3, <1>6 DEF OutOK, Single
  <2>1. tools = servers[n].tools /\ tools \in Seq(ToolsOf(n)) /\ tools \in HeldTools(c, n)
    BY <1>8 DEF IInv, EntryInv, HeldTools
  <2>2. tools \in Seq(AnyTool) /\ out[c] \in Seq(AnyTool)
    <3>1. ToolsOf(n) \subseteq AnyTool
      BY DEF AnyTool
    <3> QED BY <1>7, <2>1, <3>1 DEF OutOK
  <2>4. \A i \in DOMAIN tools : tools[i].Server = n
    <3>1. \A t \in ToolsOf(n) : t.Server = n
      BY DEF ToolsOf, toolInfo
    <3>2. \A i \in DOMAIN tools : tools[i] \in ToolsOf(n)
      BY <2>1
    <3> QED BY <3>1, <3>2
  <2>5. out'[c] \in Seq(AnyTool)
    BY <1>1, <2>2
  <2>7. ASSUME query[c].op = "ToolsForServers" PROVE keys'[c] = keysOf(out'[c])
    <3>1. [i \in DOMAIN tools |-> pair(n, tools[i])] = keysOf(tools)
      BY <2>4 DEF keysOf
    <3>2. keys[c] = keysOf(out[c])
      BY <1>7, <2>7 DEF OutOK
    <3>3. keysOf(out[c] \o tools) = keysOf(out[c]) \o keysOf(tools)
      BY <2>2, KeysConcat
    <3> QED BY <1>1, <2>7, <3>1, <3>2, <3>3
  <2>6. ASSUME NEW m \in DOMAIN servers
        PROVE  IF m \in Visited(c)'
               THEN Single(c, m) => \E l \in HeldTools(c, m) : Piece(out'[c], m, l)
               ELSE \A j \in DOMAIN out'[c] : out'[c][j].Server # m
    <3>1. CASE m = n /\ Single(c, n)
      <4>1. \A j \in DOMAIN out[c] : out[c][j].Server # n
        BY <1>7, <3>1 DEF OutOK
      <4>2. Piece(out[c] \o tools, n, tools)
        BY <2>2, <4>1, PieceNew
      <4> QED BY <1>1, <1>6, <2>1, <3>1, <4>2
    <3>4. CASE m = n /\ ~Single(c, n)
      BY <1>6, <3>4
    <3>2. CASE m # n /\ m \in Visited(c) /\ Single(c, m)
      <4>1. PICK l \in HeldTools(c, m) : Piece(out[c], m, l)
        BY <1>7, <3>2 DEF OutOK
      <4>2. l \in Seq(AnyTool)
        <5>1. l \in Seq(ToolsOf(m))
          BY <1>7 DEF SeenOK, HeldTools
        <5>2. ToolsOf(m) \subseteq AnyTool
          BY DEF AnyTool
        <5> QED BY <5>1, <5>2
      <4>3. \A i \in DOMAIN tools : tools[i].Server # m
        BY <2>4, <3>2
      <4>4. Piece(out[c] \o tools, m, l)
        BY <2>2, <4>1, <4>2, <4>3, PieceKept
      <4> QED BY <1>1, <1>6, <3>2, <4>4
    <3>3. CASE m # n /\ m \notin Visited(c)
      <4>1. \A j \in DOMAIN out[c] : out[c][j].Server # m
        BY <1>7, <3>3 DEF OutOK
      <4>2. \A i \in DOMAIN tools : tools[i].Server # m
        BY <2>4, <3>3
      <4>3. \A j \in DOMAIN (out[c] \o tools) : (out[c] \o tools)[j].Server # m
        BY <2>2, <4>1, <4>2, NoneKept
      <4> QED BY <1>1, <1>6, <3>3, <4>3
    <3>5. CASE m # n /\ m \in Visited(c) /\ ~Single(c, m)
      BY <1>6, <3>5
    <3> QED BY <3>1, <3>2, <3>3, <3>4, <3>5
  <2> QED BY <2>5, <2>6, <2>7
<1>14. CallerOK(c)'
  BY <1>7, <1>11, <1>12, <1>13 DEF CallerOK
<1>15. \A d \in Callers \ {c} : CallerOK(d)'
  BY <1>2, <1>3, CallerSame DEF IInv
<1> QED BY <1>9, <1>10, <1>14, <1>15 DEF IInv

\* What a caller that reads knows.
LEMMA ReaderFacts ==
    ASSUME IInv, NEW c \in Callers, at[c] = "reading"
    PROVE  /\ SeenOK(c) /\ VisitOK(c) /\ ReadOK(c) /\ OutOK(c)
           /\ visit[c] # <<>> /\ query[c].op = "KindGroups" => Head(visit[c]) \in DOMAIN servers
<1>1. SeenOK(c) /\ VisitOK(c) /\ ReadOK(c) /\ OutOK(c)
  BY DEF IInv, IdleInv, Listing, CallerOK
<1>2. visit[c] # <<>> => Head(visit[c]) \in Wanted(c)
  BY <1>1, TailFacts DEF VisitOK
<1> QED BY <1>1, <1>2 DEF Wanted, ByName

\* A visit under entry.mu.
LEMMA ReadsStep ==
    ASSUME IInv, NEW c \in Callers, reads(c)
    PROVE  IInv'
<1> DEFINE n == Head(visit[c])
<1>1. /\ at[c] = "reading" /\ visit[c] # <<>> /\ query[c].op # "KindGroups" /\ n \in DOMAIN servers
      /\ remember(c, n, servers[n].state, servers[n].tools) /\ word' = word
      /\ keys' = IF query[c].op = "ToolsForServers"
                 THEN [keys EXCEPT ![c] = @ \o [i \in DOMAIN servers[n].tools |->
                                                 pair(n, servers[n].tools[i])]]
                 ELSE keys
  BY DEF reads
<1>2. word[c] = <<>> /\ DOMAIN word = Callers
  BY <1>1 DEF IInv, IdleInv, TypeInv
<1>3. /\ DOMAIN keys' = Callers /\ \A d \in Callers \ {c} : keys'[d] = keys[d]
      /\ query[c].op = "ToolsForServers" =>
            keys'[c] = keys[c] \o [i \in DOMAIN servers[n].tools |-> pair(n, servers[n].tools[i])]
  BY <1>1 DEF IInv, TypeInv
<1> QED BY <1>1, <1>2, <1>3, RememberStep

\* The first half of a visit without entry.mu ...
LEMMA GroupsLoadsStep ==
    ASSUME IInv, NEW c \in Callers, groupsLoads(c)
    PROVE  IInv'
<1> DEFINE n == Head(visit[c])
<1>1. at[c] = "reading" /\ visit[c] # <<>> /\ query[c].op = "KindGroups"
  BY DEF groupsLoads
<1>2. word'[c] = <<servers[n].tools>> /\ DOMAIN word' = Callers /\ \A d \in Callers \ {c} : word'[d] = word[d]
  BY DEF groupsLoads, IInv, TypeInv
<1>3. UNCHANGED <<setup, phase, servers, at, query, visit, acc, out, keys, seen>>
  BY DEF groupsLoads, startVars, newVars
<1>4. SeenOK(c) /\ VisitOK(c) /\ ReadOK(c) /\ OutOK(c) /\ n \in DOMAIN servers
  BY <1>1, ReaderFacts
<1>5. TypeInv' /\ EntryInv'
  BY <1>2, <1>3 DEF IInv, TypeInv, EntryInv
<1>6. IdleInv'
  <2> SUFFICES ASSUME NEW d \in Callers PROVE IdleInv!(d)'
    BY DEF IdleInv
  <2>1. CASE d = c
    BY <1>1, <1>3, <2>1 DEF IInv, IdleInv
  <2>2. CASE d # c
    BY <1>2, <1>3, <2>2 DEF IInv, IdleInv
  <2> QED BY <2>1, <2>2
<1>7. SeenOK(c)'
  BY <1>1, <1>3, <1>4, SeenSame
<1>8. VisitOK(c)'
  BY <1>3, <1>4 DEF VisitOK, Visited, Wanted
<1>9. OutOK(c)'
  BY <1>3, <1>4 DEF OutOK, Single, Visited, HeldTools, AnyTool, ToolsOf
<1>10. ReadOK(c)'
  <2>1. word'[c][1] \in HeldTools(c, n)
    <3>1. Held(n) \in seen[c][n] /\ Held(n).tools = servers[n].tools
      BY <1>1, <1>4 DEF SeenOK, Held
    <3> QED BY <1>2, <3>1 DEF HeldTools
  <2>2. \A m : HeldStates(c, m)' = HeldStates(c, m) /\ HeldTools(c, m)' = HeldTools(c, m)
    BY <1>3 DEF HeldStates, HeldTools
  <2> QED BY <1>3, <1>4, <2>1, <2>2 DEF ReadOK
<1>11. \A d \in Callers \ {c} : CallerOK(d)'
  BY <1>2, <1>3, CallerSame DEF IInv
<1> QED BY <1>5, <1>6, <1>7, <1>8, <1>9, <1>10, <1>11 DEF IInv, CallerOK

\* ... and the second, perhaps of another list.
LEMMA GroupsReadsStep ==
    ASSUME IInv, NEW c \in Callers, groupsReads(c)
    PROVE  IInv'
<1> DEFINE n == Head(visit[c])
           now == servers[n].tools
<1>1. word[c] # <<>> /\ at[c] = "reading" /\ query[c].op = "KindGroups" /\ visit[c] # <<>>
  BY DEF groupsReads, Nothing, IInv, IdleInv
<1>2. SeenOK(c) /\ ReadOK(c) /\ n \in DOMAIN servers
  BY <1>1, ReaderFacts
<1>3. /\ DOMAIN word' = Callers /\ word'[c] = <<>>
      /\ \A d \in Callers \ {c} : word'[d] = word[d]
      /\ keys' = keys /\ DOMAIN keys = Callers
  BY DEF groupsReads, Nothing, IInv, TypeInv
<1>4. PICK tools : /\ remember(c, n, servers[n].state, tools)
                   /\ tools \in {torn(word[c][1], now), torn(now, word[c][1])}
  BY DEF groupsReads
<1>5. \A h \in seen[c][n] : seen[c][n] = {h} => tools = h.tools
  <2> SUFFICES ASSUME NEW h \in seen[c][n], seen[c][n] = {h} PROVE tools = h.tools
    OBVIOUS
  <2>1. word[c][1] = h.tools
    BY <1>1, <1>2 DEF ReadOK, HeldTools
  <2>2. now = h.tools /\ h.tools \in Seq(ToolsOf(n))
    <3>1. Held(n) \in seen[c][n] /\ h.tools \in Seq(ToolsOf(n))
      BY <1>1, <1>2 DEF SeenOK
    <3>2. Held(n).tools = now
      BY DEF Held
    <3> HIDE DEF now, n
    <3> QED BY <3>1, <3>2
  <2>3. torn(h.tools, h.tools) = h.tools
    BY <2>2 DEF torn
  <2> QED BY <1>4, <2>1, <2>2, <2>3
<1> QED BY <1>1, <1>2, <1>3, <1>4, <1>5, RememberStep

\* A listing that has visited everything returns.
LEMMA ReturnsStep ==
    ASSUME IInv, NEW c \in Callers, returnsList(c)
    PROVE  IInv'
<1>1. at[c] = "reading" /\ visit[c] = <<>> /\ at'[c] = "done" /\ \A d \in Callers \ {c} : at'[d] = at[d]
  BY DEF returnsList, IInv, TypeInv
<1>2. UNCHANGED <<setup, phase, servers, query, visit, word, acc, out, keys, seen>>
  BY DEF returnsList, startVars, newVars
<1>3. SeenOK(c) /\ VisitOK(c) /\ ReadOK(c) /\ OutOK(c)
  BY <1>1, ReaderFacts
<1>4. TypeInv' /\ EntryInv'
  BY <1>2 DEF IInv, TypeInv, EntryInv, returnsList
<1>5. IdleInv'
  BY <1>1, <1>2 DEF IInv, IdleInv
<1>6. SeenOK(c)' /\ VisitOK(c)' /\ ReadOK(c)' /\ OutOK(c)'
  <2>1. SeenOK(c)'
    BY <1>1, <1>2, <1>3 DEF SeenOK, ToolsOf
  <2>2. VisitOK(c)'
    BY <1>1, <1>2, <1>3 DEF VisitOK, Visited, Wanted
  <2>3. ReadOK(c)'
    BY <1>2, <1>3 DEF ReadOK, HeldStates, HeldTools
  <2>4. OutOK(c)'
    BY <1>2, <1>3 DEF OutOK, Single, Visited, HeldTools, AnyTool, ToolsOf
  <2> QED BY <2>1, <2>2, <2>3, <2>4
<1>7. \A d \in Callers \ {c} : CallerOK(d)'
  BY <1>1, <1>2, CallerSame DEF IInv
<1> QED BY <1>4, <1>5, <1>6, <1>7 DEF IInv, CallerOK

-----------------------------------------------------------------------------
(* Steps of everybody else *)

\* An entry changes, and everybody who is reading has seen it.
LEMMA BecomesStep ==
    ASSUME IInv, NEW n \in DOMAIN servers, NEW state \in States, NEW tools \in Seq(ToolsOf(n)),
           becomes(n, state, tools)
    PROVE  IInv'
<1> DEFINE new == [state |-> state, tools |-> tools]
<1>1. /\ UNCHANGED <<setup, phase, at, query, visit, word, acc, out, keys>>
      /\ DOMAIN servers' = DOMAIN servers /\ servers' = [m \in DOMAIN servers' |-> servers'[m]]
      /\ servers'[n] = entry(servers[n].config, state, tools)
      /\ \A m \in DOMAIN servers \ {n} : servers'[m] = servers[m]
  <2>1. servers' = [servers EXCEPT ![n].state = state, ![n].tools = tools]
    BY DEF becomes
  <2>2. servers[n] = entry(servers[n].config, servers[n].state, servers[n].tools)
    BY DEF IInv, EntryInv
  <2>3. UNCHANGED <<setup, phase, at, query, visit, word, acc, out, keys>>
    BY DEF becomes, newVars
  <2>4. ASSUME NEW e, NEW cfg, NEW s, NEW t, e = entry(cfg, s, t)
        PROVE  [e EXCEPT !.state = state] = entry(cfg, state, t) /\ [e EXCEPT !.tools = tools] = entry(cfg, s, tools)
    BY <2>4 DEF entry
  <2>5. [servers[n] EXCEPT !.state = state] = entry(servers[n].config, state, servers[n].tools)
    BY <2>2, <2>4
  <2>6. [[servers[n] EXCEPT !.state = state] EXCEPT !.tools = tools] = entry(servers[n].config, state, tools)
    <3> DEFINE e == [servers[n] EXCEPT !.state = state]
    <3>1. e = entry(servers[n].config, state, servers[n].tools)
      BY <2>5
    <3> HIDE DEF e
    <3>2. [e EXCEPT !.tools = tools] = entry(servers[n].config, state, tools)
      BY <3>1, <2>4
    <3> QED BY <3>2 DEF e
  <2>7. servers'[n] = [[servers[n] EXCEPT !.state = state] EXCEPT !.tools = tools]
    BY <2>1 DEF IInv, EntryInv
  <2> QED BY <2>1, <2>3, <2>6, <2>7 DEF IInv, EntryInv
<1>2. Held(n)' = new /\ \A m \in DOMAIN servers \ {n} : Held(m)' = Held(m)
  BY <1>1 DEF Held, entry
<1>3. /\ DOMAIN seen' = Callers
      /\ \A c \in Callers : at[c] # "reading" => seen'[c] = seen[c]
      /\ \A c \in Callers : at[c] = "reading" => seen'[c] = [seen[c] EXCEPT ![n] = @ \cup {new}]
  BY DEF becomes
<1>4. TypeInv'
  BY <1>1, <1>3 DEF IInv, TypeInv
<1>5. EntryInv'
  <2>1. \A m \in DOMAIN servers :
           /\ servers'[m] = entry(servers'[m].config, servers'[m].state, servers'[m].tools)
           /\ servers'[m].state \in States
           /\ servers'[m].tools \in Seq(ToolsOf(m))
    BY <1>1 DEF IInv, EntryInv, entry
  <2> QED BY <1>1, <2>1 DEF IInv, EntryInv, ToolsOf
<1>6. IdleInv'
  BY <1>1 DEF IInv, IdleInv
<1>7. ASSUME NEW c \in Callers, Listing(c)'
      PROVE  SeenOK(c)' /\ VisitOK(c)' /\ ReadOK(c)' /\ OutOK(c)'
  <2>1. SeenOK(c) /\ VisitOK(c) /\ ReadOK(c) /\ OutOK(c)
    BY <1>1, <1>7 DEF IInv, CallerOK, Listing
  <2>2. SeenOK(c)' /\ \A m \in DOMAIN servers : seen[c][m] \subseteq seen'[c][m]
    <3>1. CASE at[c] # "reading"
      BY <1>1, <1>3, <2>1, <3>1 DEF SeenOK, ToolsOf
    <3>2. CASE at[c] = "reading"
      <4>1. /\ DOMAIN seen'[c] = DOMAIN servers /\ seen'[c] = [m \in DOMAIN servers |-> seen'[c][m]]
            /\ seen'[c][n] = seen[c][n] \cup {new}
            /\ \A m \in DOMAIN servers \ {n} : seen'[c][m] = seen[c][m]
        BY <1>3, <2>1, <3>2 DEF SeenOK
      <4>2. IsFiniteSet(seen[c][n] \cup {new})
        BY <2>1, FS_AddElement DEF SeenOK
      <4>3. \A m \in DOMAIN servers :
               /\ seen'[c][m] # {} /\ IsFiniteSet(seen'[c][m])
               /\ \A h \in seen'[c][m] : h.state \in States /\ h.tools \in Seq(ToolsOf(m))
               /\ Held(m)' \in seen'[c][m]
        <5> TAKE m \in DOMAIN servers
        <5>1. CASE m = n
          <6>1. new.state \in States /\ new.tools \in Seq(ToolsOf(n))
            OBVIOUS
          <6> HIDE DEF new
          <6> QED BY <1>2, <2>1, <4>1, <4>2, <5>1, <6>1 DEF SeenOK
        <5>2. CASE m # n
          BY <1>2, <2>1, <3>2, <4>1, <5>2 DEF SeenOK
        <5> QED BY <5>1, <5>2
      <4> QED BY <1>1, <4>1, <4>3 DEF SeenOK, ToolsOf
    <3> QED BY <3>1, <3>2
  <2>3. /\ Visited(c)' = Visited(c) /\ Wanted(c)' = Wanted(c) /\ AnyTool' = AnyTool
        /\ Visited(c) \subseteq DOMAIN servers
    BY <1>1, <2>1 DEF Visited, Wanted, AnyTool, ToolsOf, VisitOK
  <2>4. \A m \in DOMAIN servers :
           HeldStates(c, m) \subseteq HeldStates(c, m)' /\ HeldTools(c, m) \subseteq HeldTools(c, m)'
    BY <2>2 DEF HeldStates, HeldTools
  <2>5. VisitOK(c)'
    BY <1>1, <2>1, <2>3 DEF VisitOK
  <2>6. OutOK(c)'
    BY <1>1, <2>1, <2>3, <2>4 DEF OutOK, Single
  <2>7. ReadOK(c)'
    <3>1. \A x \in Range(acc[c]) : x.server \in DOMAIN servers
      BY <2>3 DEF Visited
    <3>2. \A x \in Range(acc[c]) : x.state \in HeldStates(c, x.server)'
      BY <2>1, <2>4, <3>1 DEF ReadOK
    <3>3. ASSUME NEW x \in Range(acc[c]), query[c].op = "KindGroups",
                 NEW h \in seen'[c][x.server], seen'[c][x.server] = {h}
          PROVE  x.tools = h.tools
      <4>1. seen[c][x.server] = {h}
        <5>1. seen[c][x.server] # {} /\ seen[c][x.server] \subseteq {h}
          BY <2>1, <2>2, <3>1, <3>3 DEF SeenOK
        <5> QED BY <5>1
      <4> QED BY <2>1, <3>3, <4>1 DEF ReadOK
    <3>4. ASSUME word[c] # <<>>
          PROVE  word[c][1] \in HeldTools(c, Head(visit[c]))'
      <4>1. Head(visit[c]) \in DOMAIN servers
        BY <3>4, ReaderFacts DEF IInv, IdleInv
      <4> QED BY <1>1, <2>1, <2>4, <3>4, <4>1 DEF ReadOK
    <3> QED BY <1>1, <2>1, <3>2, <3>3, <3>4 DEF ReadOK
  <2> QED BY <2>2, <2>5, <2>6, <2>7
<1> QED BY <1>4, <1>5, <1>6, <1>7 DEF IInv, CallerOK

\* Reconnects, failed probes and refreshes.
LEMMA ChangeStep ==
    ASSUME IInv, NEW n \in DOMAIN servers, reconnected(n) \/ foundDead(n) \/ refreshed(n)
    PROVE  IInv'
<1>1. servers[n].state \in States /\ servers[n].tools \in Seq(ToolsOf(n))
  BY DEF IInv, EntryInv
<1>2. \E state \in States, tools \in Seq(ToolsOf(n)) : becomes(n, state, tools)
  BY <1>1, FetchedTools DEF reconnected, foundDead, refreshed, States
<1> QED BY <1>2, BecomesStep

\* Close, servers that fall silent, and steps of nobody.
LEMMA CloseStep ==
    ASSUME IInv, UNCHANGED <<startVars, callVars>>
    PROVE  IInv'
<1>1. UNCHANGED <<setup, phase, servers, at, query, visit, word, acc, out, keys, seen>>
  BY DEF startVars, newVars, callVars
<1>2. TypeInv' /\ EntryInv' /\ IdleInv'
  BY <1>1 DEF IInv, TypeInv, EntryInv, IdleInv, ToolsOf
<1>3. \A d \in Callers : CallerOK(d)'
  BY <1>1, CallerSame DEF IInv
<1> QED BY <1>2, <1>3 DEF IInv

\* Every step preserves the invariant.
LEMMA NextStep == IInv /\ [Next]_vars => IInv'
<1> SUFFICES ASSUME IInv, [Next]_vars PROVE IInv'
  OBVIOUS
<1>1. CASE start
  BY <1>1, StartStep
<1>2. CASE \E c \in Callers : \E q \in setup.queries : calls(c, q) \/ looksUp(c, q)
  BY <1>2, CallsStep, LooksUpStep
<1>3. CASE \E c \in Callers : callerStep(c)
  BY <1>3, ListsThenStep, SkipsStep, ReadsStep, GroupsLoadsStep, GroupsReadsStep, ReturnsStep
     DEF callerStep
<1>4. CASE \E n \in DOMAIN servers : reconnected(n) \/ foundDead(n) \/ refreshed(n)
  BY <1>4, ChangeStep
<1>7. CASE \E n \in DOMAIN servers : fallsSilent(n) \/ answersAgain(n)
  BY <1>7, CloseStep DEF fallsSilent, answersAgain
<1>5. CASE Close \/ closeLocks \/ closeReturns
  BY <1>5, CloseStep DEF Close, closeLocks, closeReturns, closeStep
<1>6. CASE UNCHANGED vars
  BY <1>6, CloseStep DEF vars
<1> QED BY <1>1, <1>2, <1>3, <1>4, <1>5, <1>6, <1>7 DEF Next

\* The invariant of the read API: what a listing has read so far was held by the
\* entries it visited, and it has dealt with each of them once, whatever
\* reconnects, refreshes and Close do meanwhile (multiplexer.go:155-309).
THEOREM InductiveInvariant == Spec => []IInv
<1> QED BY InitInv, NextStep, PTL DEF Spec

-----------------------------------------------------------------------------
(* What the callers are told *)

\* A listing that has returned has visited what it is about.
LEMMA DoneFacts ==
    ASSUME IInv, NEW c \in Callers, at[c] = "done", query[c].op # "FilterByNames"
    PROVE  /\ SeenOK(c) /\ ReadOK(c) /\ OutOK(c)
           /\ DOMAIN seen[c] = DOMAIN servers
           /\ Visited(c) = Wanted(c) \cap DOMAIN servers
           /\ \A x : x \in Range(acc[c]) <=> \E i \in DOMAIN acc[c] : x = acc[c][i]
<1>1. SeenOK(c) /\ VisitOK(c) /\ ReadOK(c) /\ OutOK(c)
  BY DEF IInv, CallerOK, Listing
<1>2. Range(visit[c]) = {}
  BY <1>1, EmptyFacts DEF VisitOK
<1>3. DOMAIN seen[c] = DOMAIN servers
  BY <1>1 DEF SeenOK
<1>4. \A x : x \in Range(acc[c]) <=> \E i \in DOMAIN acc[c] : x = acc[c][i]
  BY DEF Range
<1> QED BY <1>1, <1>2, <1>3, <1>4 DEF VisitOK

\* ServerNames, ServerStatus and AllTools tell of every server what its entry held
\* at some moment of the call, for any number of servers, callers and changes.
THEOREM ListingsAreCurrentHolds == Spec => []ListingsAreCurrent
<1>1. IInv => ListingsAreCurrent
  <2> SUFFICES ASSUME IInv, NEW c \in Callers, at[c] = "done"
               PROVE  ListingsAreCurrent!(c)!2
    BY DEF ListingsAreCurrent
  <2>1. ASSUME query[c].op = "ServerNames", NEW n \in DOMAIN seen[c]
        PROVE  IF n \in ServerNames(acc[c])
               THEN "connected" \in HeldStates(c, n) ELSE "down" \in HeldStates(c, n)
    <3>1. /\ SeenOK(c) /\ ReadOK(c) /\ n \in DOMAIN servers /\ n \in Visited(c)
          /\ \A x : x \in Range(acc[c]) <=> \E i \in DOMAIN acc[c] : x = acc[c][i]
      BY <2>1, DoneFacts DEF Wanted, ByName
    <3>2. \A x \in Range(acc[c]) : x.server = n => x.state \in HeldStates(c, n)
      BY <3>1 DEF ReadOK
    <3>3. HeldStates(c, n) \subseteq {"connected", "down"}
      BY <3>1 DEF SeenOK, HeldStates, States
    <3>4. n \in ServerNames(acc[c]) <=> \E x \in Range(acc[c]) : x.server = n /\ x.state # "down"
      BY <3>1 DEF ServerNames
    <3>5. \E x \in Range(acc[c]) : x.server = n
      BY <3>1 DEF Visited
    <3> QED BY <3>2, <3>3, <3>4, <3>5
  <2>2. ASSUME query[c].op = "ServerStatus"
        PROVE  /\ DOMAIN ServerStatus(acc[c]) = DOMAIN seen[c]
               /\ opts.healthCheckInterval > 0 => \A n \in DOMAIN seen[c] :
                    ServerStatus(acc[c])[n] \in HeldStates(c, n)
    <3>1. /\ ReadOK(c) /\ DOMAIN seen[c] = DOMAIN servers /\ Visited(c) = DOMAIN servers
          /\ \A x : x \in Range(acc[c]) <=> \E i \in DOMAIN acc[c] : x = acc[c][i]
      BY <2>2, DoneFacts DEF Wanted, ByName
    <3>2. {acc[c][i].server : i \in DOMAIN acc[c]} = Visited(c)
      BY <3>1 DEF Visited
    <3>3. ASSUME NEW n \in Visited(c)
          PROVE  (CHOOSE x \in Range(acc[c]) : x.server = n).state \in HeldStates(c, n)
      <4>1. \E x \in Range(acc[c]) : x.server = n
        BY DEF Visited
      <4> QED BY <3>1, <4>1 DEF ReadOK
    <3> QED BY <3>1, <3>2, <3>3 DEF ServerStatus
  <2>3. ASSUME query[c].op = "AllTools", NEW n \in DOMAIN seen[c]
        PROVE  \E tools \in HeldTools(c, n) : Piece(out[c], n, tools)
    <3>1. OutOK(c) /\ n \in DOMAIN servers /\ n \in Visited(c)
      BY <2>3, DoneFacts DEF Wanted, ByName
    <3> QED BY <2>3, <3>1 DEF OutOK, Single, ByName
  <2> QED BY <2>1, <2>2, <2>3
<1> QED BY <1>1, InductiveInvariant, PTL

\* Every server is in exactly one group of KindGroups, servers with a kind in that
\* of their kind and no two without one together; an undisturbed group has the tools
\* of its servers; KindsForServers tells the kinds of those asked for that there are.
THEOREM GroupsPartitionHolds == Spec => []GroupsPartition
<1>1. IInv => GroupsPartition
  <2> SUFFICES ASSUME IInv, NEW c \in Callers, at[c] = "done"
               PROVE  GroupsPartition!(c)!2
    BY DEF GroupsPartition
  <2> DEFINE kind(n) == servers[n].config.Kind
             related(m, n) == m = n \/ (kind(m) = kind(n) /\ kind(m) # NoText)
             groups == KindGroups(acc[c])
             In(n) == GroupsOf(c, n)
             undisturbed(k) == \A n \in groups[k].Servers : Cardinality(seen[c][n]) = 1
  <2>1. ASSUME query[c].op # "FilterByNames"
        PROVE  KindsForServers(acc[c]) = {kindOf(n) : n \in Visited(c)}
    <3>1. \A x : x \in Range(acc[c]) <=> \E i \in DOMAIN acc[c] : x = acc[c][i]
      BY <2>1, DoneFacts
    <3> QED BY <3>1 DEF KindsForServers, Visited
  <2>2. ASSUME query[c].op = "KindGroups"
        PROVE  /\ \A n \in DOMAIN seen[c] : Cardinality(In(n)) = 1
               /\ \A m, n \in DOMAIN seen[c] :
                    (kind(m) = NoText <=> kind(n) = NoText) => (In(m) = In(n) <=> related(m, n))
               /\ \A k \in DOMAIN groups :
                    undisturbed(k) => groups[k].Tools = HeldNames(c, groups[k])
    <3> DEFINE members(k) == {x \in Range(acc[c]) : kindOf(x.server) = k}
    <3>1. SeenOK(c) /\ ReadOK(c) /\ DOMAIN seen[c] = DOMAIN servers /\ Visited(c) = DOMAIN servers
      BY <2>2, DoneFacts DEF Wanted, ByName
    <3>2. DOMAIN groups = {kindOf(n) : n \in DOMAIN servers}
      BY <2>1, <2>2, <3>1 DEF KindGroups
    <3>3. \A k \in DOMAIN groups :
             /\ groups[k].Servers = {x.server : x \in members(k)}
             /\ groups[k].Tools = UNION {{t.Name : t \in Range(x.tools)} : x \in members(k)}
      BY DEF KindGroups
    <3>0. \A n : In(n) = {k \in DOMAIN groups : n \in groups[k].Servers}
      BY DEF GroupsOf
    <3> HIDE DEF groups
    <3>4. \A k \in DOMAIN groups : groups[k].Servers = {n \in DOMAIN servers : kindOf(n) = k}
      BY <3>1, <3>3 DEF Visited
    <3>5. \A n \in DOMAIN servers : In(n) = {kindOf(n)}
      BY <3>0, <3>2, <3>4
    <3>6. \A n \in DOMAIN seen[c] : Cardinality(In(n)) = 1
      <4>1. \A x : Cardinality({x}) = 1
        BY FS_Singleton, Zenon
      <4> QED BY <3>1, <3>5, <4>1
    <3>7. ASSUME NEW m \in DOMAIN servers, NEW n \in DOMAIN servers
          PROVE  (kind(m) = NoText <=> kind(n) = NoText) => (In(m) = In(n) <=> related(m, n))
      <4>1. In(m) = In(n) <=> kindOf(m) = kindOf(n)
        BY <3>5
      <4>2. (kind(m) = NoText <=> kind(n) = NoText) => (kindOf(m) = kindOf(n) <=> related(m, n))
        BY DEF kindOf
      <4> QED BY <4>1, <4>2
    <3>8. ASSUME NEW k \in DOMAIN groups, undisturbed(k)
          PROVE  groups[k].Tools = HeldNames(c, groups[k])
      <4>1. ASSUME NEW x \in members(k)
            PROVE  UNION {Range(h.tools) : h \in seen[c][x.server]} = Range(x.tools)
        <5>1. x.server \in DOMAIN servers /\ x.server \in groups[k].Servers
          BY <3>1, <3>3 DEF Visited
        <5>2. IsFiniteSet(seen[c][x.server]) /\ Cardinality(seen[c][x.server]) = 1
          BY <3>1, <3>8, <5>1 DEF SeenOK
        <5>3. PICK h : seen[c][x.server] = {h}
          BY <5>2, FS_Singleton, Zenon
        <5>4. x.tools = h.tools
          BY <2>2, <3>1, <5>3 DEF ReadOK
        <5> QED BY <5>3, <5>4
      <4> HIDE DEF members
      <4>2. UNION {UNION {Range(h.tools) : h \in seen[c][n]} : n \in groups[k].Servers}
               = UNION {Range(x.tools) : x \in members(k)}
        BY <3>3, <4>1
      <4>3. groups[k].Tools = {t.Name : t \in UNION {Range(x.tools) : x \in members(k)}}
        BY <3>3
      <4>4. \A n : UNION {Range(tools) : tools \in HeldTools(c, n)}
                    = UNION {Range(h.tools) : h \in seen[c][n]}
        BY DEF HeldTools
      <4> QED BY <4>2, <4>3, <4>4 DEF HeldNames
    <3> QED BY <3>1, <3>6, <3>7, <3>8
  <2>3. ASSUME query[c].op = "KindsForServers"
        PROVE  KindsForServers(acc[c]) =
                  {IF kind(n) = NoText THEN n ELSE kind(n) :
                      n \in Range(query[c].names) \cap DOMAIN servers}
    <3>1. Visited(c) = Range(query[c].names) \cap DOMAIN servers
      BY <2>3, DoneFacts DEF Wanted, ByName
    <3> QED BY <2>1, <2>3, <3>1 DEF kindOf
  <2> QED BY <2>2, <2>3
<1> QED BY <1>1, InductiveInvariant, PTL

-----------------------------------------------------------------------------
(* Picking some elements of a list *)

\* The positions up to some position, counted.
LEMMA RankFacts ==
    ASSUME NEW N \in Nat, NEW S \in SUBSET (1..N)
    PROVE  /\ IsFiniteSet(S) /\ Cardinality(S) \in Nat
           /\ \A i \in Int : IsFiniteSet({j \in S : j <= i})
           /\ \A i \in Int : rank(i, S) \in Nat /\ rank(i, S) <= Cardinality(S)
           /\ \A i \in S : rank(i, S) \in 1..Cardinality(S)
           /\ \A i, j \in S : i < j => rank(i, S) < rank(j, S)
           /\ \A k \in 1..Cardinality(S) : \E i \in S : rank(i, S) = k
<1> DEFINE up(i) == {j \in S : j <= i}
           C == Cardinality(S)
           f == [i \in S |-> rank(i, S)]
<1>1. 1 \in Int /\ N \in Int /\ \A i \in S : i \in Int
  OBVIOUS
<1>2. IsFiniteSet(1..N)
  BY <1>1, FS_Interval, Zenon
<1>3. IsFiniteSet(S) /\ C \in Nat
  BY <1>2, FS_Subset, FS_CardinalityType
<1>4. \A i \in Int : IsFiniteSet(up(i)) /\ Cardinality(up(i)) \in Nat /\ Cardinality(up(i)) <= C
  <2> TAKE i \in Int
  <2>1. up(i) \in SUBSET S
    OBVIOUS
  <2> HIDE DEF up
  <2> QED BY <1>3, <2>1, FS_Subset, FS_CardinalityType
<1>5. \A i \in S : rank(i, S) \in 1..C
  <2> TAKE i \in S
  <2>1. up(i) # {} /\ i \in Int
    BY <1>1
  <2>2. Cardinality(up(i)) # 0
    BY <1>4, <2>1, FS_EmptySet
  <2>3. Cardinality(up(i)) \in 1..C
    BY <1>3, <1>4, <2>1, <2>2
  <2> QED BY <2>3 DEF rank
<1>6. ASSUME NEW i \in S, NEW j \in S, i < j PROVE rank(i, S) < rank(j, S)
  <2>1. i \in Int /\ j \in Int
    BY <1>1
  <2>2. up(i) \in SUBSET up(j) /\ j \in up(j) /\ j \notin up(i)
    <3>1. \A l \in S : l <= i => l <= j
      BY <1>1, <1>6
    <3>2. j <= j /\ ~(j <= i)
      BY <2>1, <1>6
    <3> QED BY <3>1, <3>2
  <2>3. IsFiniteSet(up(j)) /\ Cardinality(up(i)) \in Nat /\ Cardinality(up(j)) \in Nat
    BY <1>4, <2>1
  <2>4. Cardinality(up(i)) <= Cardinality(up(j)) /\ Cardinality(up(i)) # Cardinality(up(j))
    <3> HIDE DEF up
    <3> QED BY <2>2, <2>3, FS_Subset
  <2>5. Cardinality(up(i)) < Cardinality(up(j))
    <3> HIDE DEF up
    <3> QED BY <2>3, <2>4
  <2> QED BY <2>5 DEF rank
<1>7. f \in Injection(S, 1..C)
  <2>1. f \in [S -> 1..C] /\ \A i \in S : f[i] = rank(i, S)
    BY <1>5
  <2> HIDE DEF f
  <2>2. ASSUME NEW i \in S, NEW j \in S, f[i] = f[j] PROVE i = j
    <3>1. i < j \/ j < i \/ i = j
      BY <1>1
    <3>2. rank(i, S) \in Nat /\ rank(j, S) \in Nat /\ rank(i, S) = rank(j, S)
      BY <1>3, <1>5, <2>1, <2>2
    <3>3. ~(rank(i, S) < rank(j, S)) /\ ~(rank(j, S) < rank(i, S))
      BY <3>2
    <3> QED BY <1>6, <3>1, <3>3
  <2> QED BY <2>1, <2>2 DEF Injection, IsInjective
<1>8. IsFiniteSet(1..C) /\ Cardinality(1..C) = C
  <2>1. C \in Int
    BY <1>3
  <2>2. IsFiniteSet(1..C) /\ Cardinality(1..C) = IF 1 > C THEN 0 ELSE C - 1 + 1
    BY <1>1, <2>1, FS_Interval, Zenon
  <2> QED BY <1>3, <2>2
<1>9. f \in Surjection(S, 1..C)
  BY <1>7, <1>8, FS_Injection
<1>10. \A k \in 1..C : \E i \in S : rank(i, S) = k
  BY <1>9 DEF Surjection
<1>11. \A i \in Int : rank(i, S) \in Nat /\ rank(i, S) <= C
  BY <1>4 DEF rank
<1> QED BY <1>3, <1>4, <1>5, <1>6, <1>10, <1>11

\* A list of what is at some positions, in their order.
PickedBy(p, list, positions) ==
    /\ DOMAIN p = 1..Cardinality(positions)
    /\ Len(p) = Cardinality(positions)
    /\ \A i \in positions : p[rank(i, positions)] = list[i]
    /\ \A k \in 1..Cardinality(positions) :
          \E i \in positions : rank(i, positions) = k /\ p[k] = list[i]

\* What is picked is what is at the positions, in their order.
LEMMA PickedFacts ==
    ASSUME NEW N \in Nat, NEW S \in SUBSET (1..N), NEW list
    PROVE  PickedBy(Picked(list, S), list, S)
<1> DEFINE C == Cardinality(S)
           at0(k) == CHOOSE i \in S : rank(i, S) = k
<1>1. C \in Nat
  BY RankFacts
<1>2. ASSUME NEW i \in S PROVE rank(i, S) \in 1..C /\ at0(rank(i, S)) = i
  <2>1. \A j \in S : j # i => rank(j, S) # rank(i, S)
    <3> TAKE j \in S
    <3> HAVE j # i
    <3>1. i < j \/ j < i
      OBVIOUS
    <3>2. rank(i, S) \in Nat /\ rank(j, S) \in Nat
      <4>1. i \in Int /\ j \in Int
        OBVIOUS
      <4> QED BY <4>1, RankFacts
    <3>3. rank(i, S) < rank(j, S) \/ rank(j, S) < rank(i, S)
      BY <3>1, RankFacts
    <3> QED BY <3>2, <3>3
  <2> QED BY <2>1, RankFacts
<1>3. \A k \in 1..C : \E i \in S : rank(i, S) = k
  BY RankFacts
<1>4. Picked(list, S) = [k \in 1..C |-> list[at0(k)]]
  BY DEF Picked
<1> HIDE DEF at0
<1>5. \A i \in S : Picked(list, S)[rank(i, S)] = list[i]
  BY <1>2, <1>4
<1>6. DOMAIN Picked(list, S) = 1..C
  BY <1>4
<1>7. Len(Picked(list, S)) = C
  BY <1>1, <1>6
<1>8. \A k \in 1..C : \E i \in S : rank(i, S) = k /\ Picked(list, S)[k] = list[i]
  BY <1>3, <1>5
<1> QED BY <1>5, <1>6, <1>7, <1>8 DEF PickedBy

\* Positions behind an offset are counted like those before them and then like
\* their distances.
LEMMA RankShift ==
    ASSUME NEW N \in Nat, NEW F \in SUBSET (1..N), NEW M \in Nat, NEW G \in SUBSET (1..M),
           NEW k \in Nat, \A i \in 1..M : k + i \in F <=> i \in G,
           NEW i \in 0..M
    PROVE  rank(k + i, F) = rank(k, F) + rank(i, G)
<1> DEFINE A == {j \in F : j <= k}
           B == {j \in G : j <= i}
           D == {j \in F : k < j /\ j <= k + i}
           f == [j \in B |-> k + j]
<1>1. k \in Int /\ i \in Int /\ k + i \in Int
  OBVIOUS
<1>2. IsFiniteSet(A) /\ IsFiniteSet(B)
  BY <1>1, RankFacts
<1>3. f \in [B -> D] /\ \A j \in B : f[j] = k + j
  <2>1. \A j \in B : k + j \in D
    <3> TAKE j \in B
    <3>1. j \in 1..M /\ j <= i /\ k + j \in F
      OBVIOUS
    <3>2. k < k + j /\ k + j <= k + i
      BY <3>1
    <3> QED BY <3>1, <3>2
  <2> HIDE DEF B, D
  <2> QED BY <2>1
<1>4. f \in Injection(B, D) /\ f \in Surjection(B, D)
  <2>1. \A j, l \in B : k + j = k + l => j = l
    OBVIOUS
  <2>2. \A d \in D : d - k \in B /\ k + (d - k) = d
    <3> TAKE d \in D
    <3>1. d - k \in 1..M /\ k + (d - k) = d /\ d - k <= i
      OBVIOUS
    <3> QED BY <3>1
  <2> HIDE DEF f, B, D
  <2> QED BY <1>3, <2>1, <2>2 DEF Injection, Surjection, IsInjective
<1>5. ExistsBijection(B, D)
  BY <1>4 DEF ExistsBijection, Bijection
<1>6. IsFiniteSet(D) /\ Cardinality(D) = Cardinality(B)
  <2> HIDE DEF B, D
  <2> QED BY <1>2, <1>5, FS_Bijection
<1>7. {j \in F : j <= k + i} = A \cup D /\ A \cap D = {}
  <2>1. \A j \in F : /\ j <= k + i <=> j <= k \/ (k < j /\ j <= k + i)
                    /\ ~(j <= k /\ k < j)
    <3> TAKE j \in F
    <3>1. j \in Nat /\ i \in Nat
      OBVIOUS
    <3> QED BY <3>1
  <2> QED BY <2>1
<1>8. Cardinality(A \cup D) = Cardinality(A) + Cardinality(D)
  <2>1. Cardinality(A) \in Nat /\ Cardinality(D) \in Nat /\ Cardinality({}) = 0
    <3> HIDE DEF A, D
    <3> QED BY <1>2, <1>6, FS_CardinalityType, FS_EmptySet
  <2> HIDE DEF A, D
  <2>2. Cardinality(A \cup D) = Cardinality(A) + Cardinality(D) - Cardinality({})
    BY <1>2, <1>6, <1>7, FS_Union
  <2> QED BY <2>1, <2>2
<1> QED BY <1>6, <1>7, <1>8 DEF rank

\* What is picked of a piece is a piece of what is picked.
LEMMA PickedPiece ==
    ASSUME NEW N \in Nat, NEW M \in Nat, NEW list, NEW tools, NEW n, NEW k \in 0..(N - M),
           \A i \in 1..M : list[k + i] = tools[i],
           \A j \in 1..N : list[j].Server = n => j \in (k + 1)..(k + M),
           NEW F \in SUBSET (1..N), NEW G \in SUBSET (1..M),
           \A i \in 1..M : k + i \in F <=> i \in G
    PROVE  Piece(Picked(list, F), n, Picked(tools, G))
<1> DEFINE p == Picked(list, F)
           q == Picked(tools, G)
           m == rank(k, F)
<1>1. k \in Nat /\ k \in Int /\ k + M \in Int /\ M \in 0..M /\ M \in Int
  OBVIOUS
<1>2. /\ Cardinality(F) \in Nat /\ Cardinality(G) \in Nat /\ m \in Nat
      /\ rank(k + M, F) <= Cardinality(F)
      /\ \A g \in G : rank(g, G) \in 1..Cardinality(G)
  BY <1>1, RankFacts
<1>3. \A i \in 0..M : rank(k + i, F) = m + rank(i, G)
  BY <1>1, RankShift
<1>4. rank(M, G) = Cardinality(G)
  <2>1. \A j \in G : j <= M
    OBVIOUS
  <2>2. {j \in G : j <= M} = G
    BY <2>1
  <2> QED BY <2>2 DEF rank
<1>5. m + Cardinality(G) <= Cardinality(F)
  BY <1>1, <1>2, <1>3, <1>4
<1>6. PickedBy(p, list, F) /\ PickedBy(q, tools, G)
  BY PickedFacts
<1> HIDE DEF p, q, m
<1>7. /\ DOMAIN p = 1..Cardinality(F) /\ Len(p) = Cardinality(F)
      /\ DOMAIN q = 1..Cardinality(G) /\ Len(q) = Cardinality(G)
  BY <1>6 DEF PickedBy
<1>8. m \in 0..(Len(p) - Len(q))
  BY <1>2, <1>5, <1>7
<1>9. ASSUME NEW i \in DOMAIN q PROVE p[m + i] = q[i]
  <2>1. PICK g \in G : rank(g, G) = i /\ q[i] = tools[g]
    BY <1>6 DEF PickedBy
  <2>2. g \in 1..M /\ g \in 0..M /\ k + g \in F
    OBVIOUS
  <2>3. rank(k + g, F) = m + i
    BY <1>3, <2>1, <2>2
  <2>4. p[m + i] = list[k + g]
    BY <1>6, <2>2, <2>3 DEF PickedBy
  <2> QED BY <2>1, <2>2, <2>4
<1>10. ASSUME NEW j \in DOMAIN p, p[j].Server = n PROVE j \in (m + 1)..(m + Len(q))
  <2>1. PICK x \in F : rank(x, F) = j /\ p[j] = list[x]
    BY <1>6 DEF PickedBy
  <2>2. x \in (k + 1)..(k + M)
    BY <1>10, <2>1
  <2>3. x - k \in 1..M /\ x - k \in 0..M /\ k + (x - k) = x
    BY <1>1, <2>2
  <2>4. x - k \in G
    BY <2>3
  <2>5. j = m + rank(x - k, G)
    BY <1>3, <2>1, <2>3
  <2>6. rank(x - k, G) \in 1..Cardinality(G)
    BY <1>2, <2>4
  <2> QED BY <1>2, <1>7, <2>5, <2>6
<1> QED BY <1>8, <1>9, <1>10 DEF Piece, p, q

\* A key with its beginning cut off.
Cut(key, n) == [i \in 1..(Len(key) - n) |-> key[n + i]]

\* Of two keys that begin in the same way, the rests tell.
LEMMA SameBeginning ==
    ASSUME NEW S, NEW a \in Seq(S), NEW x \in Seq(S), NEW y \in Seq(S), a \o x = a \o y
    PROVE  x = y
<1>1. ASSUME NEW z \in Seq(S) PROVE z = Cut(a \o z, Len(a))
  <2> DEFINE t == a \o z
  <2>1. /\ Len(t) = Len(a) + Len(z) /\ Len(a) \in Nat /\ Len(z) \in Nat
        /\ \A i \in 1..Len(z) : t[Len(a) + i] = z[i]
    BY ConcatFacts
  <2> HIDE DEF t
  <2>2. Len(t) - Len(a) = Len(z) /\ z = [i \in 1..Len(z) |-> z[i]]
    BY <2>1
  <2>3. z = [i \in 1..(Len(t) - Len(a)) |-> t[Len(a) + i]]
    BY <2>1, <2>2
  <2> QED BY <2>3 DEF Cut, t
<1>2. x = Cut(a \o x, Len(a)) /\ y = Cut(a \o y, Len(a))
  BY <1>1
<1> QED BY <1>2

\* The tools of the entries belong to a server, and the key of one of them tells
\* its name among those of its server.
LEMMA PairFacts ==
    ASSUME TypeInv, EntryInv, NEW t \in AnyTool, NEW u \in AnyTool
    PROVE  /\ t.Server \in DOMAIN servers
           /\ t.Server = u.Server => (pair(t.Server, t) = pair(u.Server, u) <=> t.Name = u.Name)
<1>1. ASSUME NEW v \in AnyTool
      PROVE  /\ v.Server \in DOMAIN servers
             /\ v.Server \in DOMAIN Segments
             /\ v.Name \in DOMAIN Segments
  <2>1. PICK n \in DOMAIN servers : v \in ToolsOf(n)
    BY DEF AnyTool
  <2>2. PICK l \in Served : \E r \in Range(l) : v = toolInfo(n, r)
    BY <2>1 DEF ToolsOf
  <2>3. PICK i \in DOMAIN l : v = toolInfo(n, l[i])
    BY <2>2 DEF Range
  <2>4. v.Server = n /\ v.Name = l[i].Name
    BY <2>3 DEF toolInfo
  <2>5. setup \in Setups /\ \E j \in DOMAIN setup.cfg : n = setup.cfg[j].Name
    BY DEF TypeInv, EntryInv
  <2> QED BY <2>4, <2>5, ListingsAssumption
<1>2. \A n \in DOMAIN Segments : Segments[n] \in Seq(Range(Segments[n]))
  BY ListingsAssumption
<1>3. \A m, n \in DOMAIN Segments : Segments[m] = Segments[n] => m = n
  BY ListingsAssumption DEF IsInjective
<1>4. ASSUME t.Server = u.Server, pair(t.Server, t) = pair(u.Server, u) PROVE t.Name = u.Name
  <2>1. Segments[t.Name] = Segments[u.Name]
    <3> DEFINE a == Segments[t.Server]
               x == Segments[t.Name]
               y == Segments[u.Name]
               S == UNION {Range(a), Range(x), Range(y)}
    <3>1. a \in Seq(Range(a)) /\ x \in Seq(Range(x)) /\ y \in Seq(Range(y))
      BY <1>1, <1>2
    <3>2. a \o x = a \o y
      BY <1>4 DEF pair
    <3> HIDE DEF a, x, y
    <3>3. a \in Seq(S) /\ x \in Seq(S) /\ y \in Seq(S)
      BY <3>1
    <3> HIDE DEF S
    <3>4. x = y
      BY <3>2, <3>3, SameBeginning
    <3> QED BY <3>4 DEF x, y
  <2> QED BY <1>1, <1>3, <2>1
<1>5. ASSUME t.Server = u.Server, t.Name = u.Name PROVE pair(t.Server, t) = pair(u.Server, u)
  BY <1>5 DEF pair
<1> QED BY <1>1, <1>4, <1>5

\* In one server's piece the first of its keys are the first of its names, if no
\* other server's tools have them.
LEMMA FirstsOfPiece ==
    ASSUME TypeInv, EntryInv, NEW list \in Seq(AnyTool), NEW n \in DOMAIN servers,
           NEW tools \in Seq(ToolsOf(n)), Piece(list, n, tools),
           \A x, y \in Range(list) :
               x.Server = n /\ y.Server # n => pair(x.Server, x) # pair(y.Server, y)
    PROVE  Piece(Picked(list, firsts(keysOf(list))), n, Picked(tools, FirstNames(tools)))
<1> DEFINE N == Len(list)
           M == Len(tools)
           F == firsts(keysOf(list))
           key(i) == pair(list[i].Server, list[i])
           G == FirstNames(tools)
<1>1. N \in Nat /\ M \in Nat /\ DOMAIN list = 1..N /\ DOMAIN tools = 1..M
  OBVIOUS
<1>2. PICK k \in 0..(N - M) :
        /\ \A i \in DOMAIN tools : list[k + i] = tools[i]
        /\ \A j \in DOMAIN list : list[j].Server = n => j \in (k + 1)..(k + M)
  BY DEF Piece
<1>3. F \in SUBSET (1..N) /\ G \in SUBSET (1..M)
  BY <1>1 DEF firsts, FirstNames, keysOf
<1>4. \A i \in 1..M : tools[i].Server = n
  BY <1>1 DEF ToolsOf, toolInfo
<1>5. \A j \in 1..N : list[j] \in AnyTool
  BY <1>1
<1>6. \A i \in 1..N, j \in 1..N :
         list[i].Server = list[j].Server => (key(i) = key(j) <=> list[i].Name = list[j].Name)
  BY <1>5, PairFacts
<1>c. \A i \in 1..N, j \in 1..N : list[i].Server = n /\ list[j].Server # n => key(i) # key(j)
  BY <1>1 DEF Range
<1>f. F = {i \in 1..N : \A j \in 1..(i - 1) : key(j) # key(i)}
  <2>1. DOMAIN keysOf(list) = 1..N /\ \A i \in 1..N : keysOf(list)[i] = key(i)
    BY <1>1 DEF keysOf
  <2>2. \A i \in 1..N : \A j \in 1..(i - 1) : j \in 1..N
    BY <1>1
  <2> HIDE DEF key, N
  <2> QED BY <2>1, <2>2 DEF firsts
<1> HIDE DEF N, M, F, G, key
<1>7. ASSUME NEW i \in 1..M PROVE k + i \in F <=> i \in G
  <2>1. k \in Nat /\ k + i \in 1..N /\ list[k + i] = tools[i] /\ list[k + i].Server = n
    <3>1. k \in Nat /\ k + i \in 1..N
      BY <1>1, <1>2
    <3>2. list[k + i] = tools[i] /\ tools[i].Server = n
      BY <1>1, <1>2, <1>4
    <3> QED BY <3>1, <3>2
  <2>2. ASSUME NEW j \in 1..(i - 1)
        PROVE  key(k + j) = key(k + i) <=> tools[j].Name = tools[i].Name
    <3>1. j \in 1..M /\ k + j \in 1..N
      BY <1>1, <1>2
    <3>2. list[k + j] = tools[j] /\ tools[j].Server = n
      BY <1>1, <1>2, <1>4, <3>1
    <3> QED BY <1>6, <2>1, <3>1, <3>2
  <2>3. ASSUME NEW j \in 1..k PROVE key(j) # key(k + i)
    <3>1. j \in 1..N /\ j \notin (k + 1)..(k + M)
      BY <1>1, <1>2
    <3>2. list[j].Server # n
      BY <1>1, <1>2, <3>1
    <3> QED BY <1>c, <2>1, <3>1, <3>2
  <2>4. ASSUME i \in G PROVE k + i \in F
    <3>1. ASSUME NEW j \in 1..((k + i) - 1) PROVE key(j) # key(k + i)
      <4>1. CASE j <= k
        BY <2>1, <2>3, <4>1
      <4>2. CASE ~(j <= k)
        <5>1. j - k \in 1..(i - 1) /\ k + (j - k) = j
          BY <2>1, <4>2
        <5>2. tools[j - k].Name # tools[i].Name
          BY <2>4, <5>1 DEF G, FirstNames
        <5> QED BY <2>2, <5>1, <5>2
      <4> QED BY <4>1, <4>2
    <3> QED BY <1>1, <1>f, <2>1, <3>1
  <2>5. ASSUME k + i \in F PROVE i \in G
    <3>1. ASSUME NEW j \in 1..(i - 1) PROVE tools[j].Name # tools[i].Name
      <4>1. k + j \in 1..((k + i) - 1)
        BY <2>1
      <4>2. key(k + j) # key(k + i)
        BY <1>f, <2>1, <2>5, <4>1
      <4> QED BY <2>2, <4>2
    <3> QED BY <1>1, <3>1 DEF G, FirstNames
  <2> QED BY <2>4, <2>5
<1>8. /\ \A i \in 1..M : list[k + i] = tools[i]
      /\ \A j \in 1..N : list[j].Server = n => j \in (k + 1)..(k + M)
  BY <1>1, <1>2
<1>9. Piece(Picked(list, F), n, Picked(tools, G))
  BY <1>1, <1>3, <1>7, <1>8, PickedPiece
<1> QED BY <1>9 DEF F, G

\* ToolsForServers returns tools of the servers asked for and of no other, each
\* server that was asked for once, and with whose keys no other's collide, with
\* what its entry held at some moment of the call, and no pair of a server and a
\* tool twice, whatever the servers are called and for any number of servers,
\* callers and changes (multiplexer.go:236-262).
THEOREM ChosenToolsAreCurrentHolds == Spec => []ChosenToolsAreCurrent
<1>1. IInv => ChosenToolsAreCurrent
  <2> SUFFICES ASSUME IInv, NEW c \in Callers, at[c] = "done", query[c].op = "ToolsForServers"
               PROVE  ChosenToolsAreCurrent!(c)!2
    BY DEF ChosenToolsAreCurrent
  <2> DEFINE list == out[c]
             F == firsts(keys[c])
             names == query[c].names
  <2>1. /\ SeenOK(c) /\ OutOK(c) /\ TypeInv /\ EntryInv
        /\ DOMAIN seen[c] = DOMAIN servers /\ Visited(c) = Asked(c)
    BY DoneFacts DEF IInv, Wanted, ByName, Asked
  <2>2. /\ list \in Seq(AnyTool) /\ keys[c] = keysOf(list)
        /\ \A n \in DOMAIN servers :
              IF n \in Asked(c)
              THEN Once(names, n) => \E tools \in HeldTools(c, n) : Piece(list, n, tools)
              ELSE \A j \in DOMAIN list : list[j].Server # n
    BY <2>1 DEF OutOK, Single, ByName
  <2>3. /\ Len(list) \in Nat /\ DOMAIN list = 1..Len(list) /\ DOMAIN keys[c] = DOMAIN list
        /\ \A i \in DOMAIN list : keys[c][i] = pair(list[i].Server, list[i])
    BY <2>2 DEF keysOf
  <2>f. F \in SUBSET (1..Len(list))
    BY <2>3 DEF firsts
  <2>4. PickedBy(Chosen(c), list, F)
    BY <2>3, <2>f, PickedFacts DEF Chosen, ToolsForServers
  <2> DEFINE chosen == Chosen(c)
  <2> HIDE DEF list, chosen
  <2>5. ASSUME NEW i \in DOMAIN chosen
        PROVE  \E x \in F : rank(x, F) = i /\ chosen[i] = list[x]
    BY <2>4 DEF PickedBy, chosen
  <2>6. \A x \in F : list[x] \in AnyTool /\ list[x].Server \in DOMAIN servers
    <3>1. \A x \in F : list[x] \in AnyTool
      BY <2>2, <2>3, <2>f
    <3> QED BY <2>1, <3>1, PairFacts
  <2>7. {x.Server : x \in Range(chosen)} \subseteq Asked(c)
    <3>1. \A i \in DOMAIN chosen : chosen[i].Server \in Asked(c)
      BY <2>2, <2>3, <2>f, <2>5, <2>6
    <3> QED BY <3>1 DEF Range
  <2>8. ASSUME NEW n \in AskedOnce(c), Clear(c, n)
        PROVE  ChosenOf(c, n)
    <3>1. Once(names, n)
      BY <2>8 DEF Once, AskedOnce
    <3>2. n \in DOMAIN servers /\ n \in Asked(c)
      BY <2>1 DEF AskedOnce, Asked
    <3>3. PICK tools \in HeldTools(c, n) : Piece(list, n, tools)
      BY <2>2, <3>1, <3>2
    <3>4. tools \in Seq(ToolsOf(n))
      BY <2>1, <3>2 DEF SeenOK, HeldTools
    <3>5. \A x, y \in Range(list) :
             x.Server = n /\ y.Server # n => pair(x.Server, x) # pair(y.Server, y)
      BY <2>8 DEF Clear, pair, list
    <3>6. Piece(Picked(list, firsts(keysOf(list))), n, Picked(tools, FirstNames(tools)))
      BY <2>1, <2>2, <3>2, <3>3, <3>4, <3>5, FirstsOfPiece
    <3>7. Chosen(c) = Picked(list, firsts(keysOf(list)))
      BY <2>2 DEF Chosen, ToolsForServers, list
    <3> QED BY <3>6, <3>7 DEF ChosenOf
  <2>9. ASSUME NEW i \in DOMAIN chosen, NEW j \in DOMAIN chosen, i # j,
               chosen[i].Server = chosen[j].Server, chosen[i].Name = chosen[j].Name
        PROVE  FALSE
    <3>1. PICK x \in F : rank(x, F) = i /\ chosen[i] = list[x]
      BY <2>5
    <3>2. PICK y \in F : rank(y, F) = j /\ chosen[j] = list[y]
      BY <2>5
    <3>3. keys[c][x] = keys[c][y]
      <4>1. pair(list[x].Server, list[x]) = pair(list[y].Server, list[y])
        BY <2>9, <3>1, <3>2 DEF pair
      <4> QED BY <2>3, <2>f, <4>1
    <3>4. x \in Nat /\ y \in Nat /\ x # y
      BY <2>3, <2>f, <2>9, <3>1, <3>2
    <3>5. x \in 1..(y - 1) \/ y \in 1..(x - 1)
      BY <2>3, <2>f, <3>4
    <3> QED BY <3>3, <3>5 DEF firsts
  <2>11. \A i, j \in DOMAIN chosen : i # j =>
            <<chosen[i].Server, chosen[i].Name>> # <<chosen[j].Server, chosen[j].Name>>
    BY <2>9
  <2> QED BY <2>7, <2>8, <2>11 DEF chosen
<1> QED BY <1>1, InductiveInvariant, PTL
=============================================================================
