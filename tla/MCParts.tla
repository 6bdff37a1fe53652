------------------------------ MODULE MCParts ------------------------------
(***************************************************************************)
(* Programs that use one part of the runtime each.  The parts share no     *)
(* state, so a program is checked with the one it uses, and the variables  *)
(* v1, v2, ... hold the state of that part, in the order its module        *)
(* declares it; those a part does not need stay Unused.                    *)
(***************************************************************************)
EXTENDS Naturals, Integers, Sequences, FiniteSets, TLC

CONSTANTS t1, t2, src, b1, b2, r1, q1, a1, a2, l1, l2, g1, h1, n1, n2, n3

VARIABLES part, v1, v2, v3, v4, v5, v6, v7, v8, v9, v10, v11, v12, v13, v14

vars == <<part, v1, v2, v3, v4, v5, v6, v7, v8, v9, v10, v11, v12, v13, v14>>

Unused == 0
Unused14 == v14 = Unused
Unused13 == v13 = Unused /\ Unused14
Unused12 == v12 = Unused /\ Unused13
Unused11 == v11 = Unused /\ Unused12
Unused10 == v10 = Unused /\ Unused11
Unused9 == v9 = Unused /\ Unused10
Unused8 == v8 = Unused /\ Unused9
Unused7 == v7 = Unused /\ Unused8
Unused5 == v5 = Unused /\ v6 = Unused /\ Unused7
Unused4 == v4 = Unused /\ Unused5

-----------------------------------------------------------------------------
(* Two tasks on a stream with callbacks, and its reader, tee and pipe.     *)

Streams == INSTANCE Streams WITH
    Task <- {t1, t2}, Made <- {src}, Branch <- {b1, b2}, Reader <- {r1},
    HasPull <- {src}, HasCancel <- {src}, HasWrite <- TRUE,
    Menu <- {{"read", "tee"}, {"read", "pipe"}, {"read", "cancel"}, {"pipe", "cancel"}},
    MaxChunks <- 2, MaxCallbacks <- 2, MaxDelivered <- 3,
    queue <- v1, index <- v2, locked <- v3, reader <- v4, calls <- v5,
    delivered <- v6, contended <- v7, menu <- v8

(* Two tasks that fetch, with redirects, or that use the body of a request. *)

Fetch == INSTANCE Fetch WITH
    Task <- {t1, t2}, Request <- {q1}, Menu <- {{"requests"}, {"responses"}},
    MaxConnections <- 2, MaxChunks <- 1, MaxRedirects <- 1,
    files <- v1, read <- v2, response <- v3, request <- v4, pc <- v5, aborted <- v6,
    handed <- v7, overlapped <- v8, cut <- v9, leaked <- v10, menu <- v11

(* Two timers, and the addresses of two tasks for them and their successors. *)

Intervals == INSTANCE Intervals WITH
    Addr <- {a1, a2}, Timer <- {1, 2}, MaxFires <- 2,
    kind <- v1, address <- v2, place <- v3, calling <- v4, cancelled <- v5,
    fires <- v6, stopped <- v7, missed <- v8, struck <- v9

(* An aggregate over two leaves, themselves and a thenable among its members. *)

Promises == INSTANCE Promises WITH
    Leaf <- {l1, l2}, Aggregate <- {g1}, Thenable <- {h1}, MaxMembers <- 2, MaxSettles <- 2,
    outcome <- v1, value <- v2, handled <- v3, form <- v4, array <- v5, members <- v6,
    then <- v7, status <- v8, payload <- v9, order <- v10, polled <- v11, touched <- v12,
    source <- v13, settles <- v14

-----------------------------------------------------------------------------
(* One exchange: chunks with a right or a wrong size, line end and payload. *)

LineEnd == <<"CR", "LF">>
Chunk(digits, extension, payload) ==
    [digits |-> digits, extension |-> extension, line |-> LineEnd, payload |-> payload, last |-> LineEnd]
RightChunks == {Chunk(<<"2">>, <<>>, <<"x", "y">>), Chunk(<<"0", "1">>, <<"semi", "1">>, <<"CR">>)}
LastChunk == Chunk(<<"0">>, <<>>, <<>>)
WrongChunks ==
    {Chunk(<<>>, <<>>, <<"x">>), Chunk(<<"1", "0">>, <<>>, <<"x">>), Chunk(<<"g">>, <<>>, <<"x">>),
     Chunk(<<"1">>, <<>>, <<"x", "y">>),
     [Chunk(<<"2">>, <<>>, <<"x", "y">>) EXCEPT !.line = <<"CR", "x">>]}
PeerResponses ==
    {[header |-> <<"h">> \o LineEnd \o LineEnd, chunked |-> TRUE, parts |-> <<c, d>>] :
        c \in RightChunks, d \in RightChunks \cup {LastChunk} \cup WrongChunks}
    \cup {[header |-> <<"CR", "LF", "CR">> \o LineEnd \o LineEnd, chunked |-> FALSE,
           parts |-> << <<"x", "y", "CR", "LF">> >>]}

Network == INSTANCE Network WITH
    Byte <- {"h1", "h2", "d1", "d2", "d3", "h", "CR", "LF", "0", "1", "2", "g", "semi", "x", "y"},
    RequestHead <- <<"h1", "h2">>, RequestBody <- <<"d1", "d2", "d3">>, Responses <- PeerResponses,
    WriteLimit <- 2, ChunkLimit <- 2, ReadLimit <- 2, Capacity <- 2,
    socket <- v1, closes <- v2, stage <- v3, call <- v4, aborted <- v5, sent <- v6, accepted <- v7,
    response <- v8, pos <- v9, ended <- v10, buffer <- v11, room <- v12, size <- v13, results <- v14

(* One lookup, and the texts of two-octet and three-group addresses. *)

TextsOver(S, n) == UNION {[1 .. m -> S] : m \in 0 .. n}
AddressTexts ==
    TextsOver({".", "9", "1"}, 5) \cup TextsOver({":", "1"}, 8) \cup TextsOver({":", "a", "."}, 4)
Dotted19 == <<"1", ".", "9">>
Dotted91 == <<"9", ".", "1">>
NotDotted == <<"1", ":", "9">>
LookedUp == {Dotted19, <<"localhost">>, <<"x">>, <<"x", ".", "x">>, <<"x", "x">>}
HostsLine(before, after) == [before |-> before, after |-> after]
HostsContents ==
    {<<>>,
     <<HostsLine(<<Dotted19, <<"y">>, <<"x">>>>, <<>>)>>,
     <<HostsLine(<<NotDotted, <<"x">>>>, <<>>), HostsLine(<<Dotted91, <<"x">>>>, <<>>)>>,
     <<HostsLine(<<Dotted19>>, <<<<"x">>>>), HostsLine(<<Dotted91, <<"x">>>>, <<>>)>>,
     <<HostsLine(<<>>, <<Dotted19, <<"x">>>>), HostsLine(<<<<"x">>, Dotted19>>, <<>>)>>}
ConfContents ==
    {<<>>, <<[comment |-> FALSE, server |-> NotDotted], [comment |-> TRUE, server |-> Dotted19],
             [comment |-> FALSE, server |-> Dotted91]>>}
Pointer == [name |-> <<192, 12>>, type |-> 1, class |-> 1, data |-> <<7, 0>>]
Labels == [name |-> <<1, 120, 192, 12>>, type |-> 1, class |-> 1, data |-> <<8, 8>>]
Alias == [name |-> <<1, 120, 0>>, type |-> 5, class |-> 1, data |-> <<1, 120, 0>>]
TooLong == [name |-> <<0>>, type |-> 1, class |-> 1, data |-> <<9, 9, 9>>]
ServerReplies ==
    [id : BOOLEAN, rcode : {0, 3}, question : {<<1, 120, 0>>},
     answers : {<<>>, <<Pointer>>, <<Alias, Labels>>, <<TooLong, Alias, Pointer>>},
     length : {0, 3, 6, 7, 8, 9, 20, 21, 22, 23, 24, 40, 50, 60, 80}]

Resolver == INSTANCE Resolver WITH
    Hosts <- LookedUp, Texts <- AddressTexts, HostsFiles <- HostsContents, ConfFiles <- ConfContents,
    Replies <- ServerReplies, Octets <- 2, Groups <- 3, GroupDigits <- 2, LabelLimit <- 1, MaxTries <- 2,
    text <- v1, host <- v2, hosts <- v3, conf <- v4, pc <- v5, udp <- v6, server <- v7, tries <- v8,
    aborted <- v9, reply <- v10, pos <- v11, answers <- v12, result <- v13, why <- v14

-----------------------------------------------------------------------------
(* One URL and its parameters, and two Headers objects. *)

URLs == INSTANCE URLs WITH
    Inputs <- {<<"HTTP", ":", "/", "/", "H", ":", "80", "/", "x", "/", "..", "/", "y", "?", "a", "=", "%26", "#", "f">>,
               <<"https", ":", "/", "/", "[", "v6", "]", ":", "443">>, <<"http", ":", "/", "/", "[", "v6">>},
    Relatives <- {<<>>, <<".", "/", "y">>, <<"?", "a">>, <<"#", "f">>, <<"..", "/", "x">>, <<"/", "/", "h">>,
                  <<"http", ":", "/", "/", "h">>},
    Protocols <- {<<"https", ":">>, <<"http">>, <<"x">>},
    Hosts <- {<<"h", ":", "443">>, <<"[", "v6", "]">>, <<"h", "/">>},
    Ports <- {<<>>, <<"80">>, <<"x">>},
    Pathnames <- {<<"x">>, <<"/", "y", "/", "..">>},
    Searches <- {<<>>, <<"?", "a", "=", "b">>, <<"&", "b", "#">>},
    Hashes <- {<<"#">>}, Words <- {<<"a">>, <<"b", "&">>}, MaxEntries <- 2,
    url <- v1, entries <- v2, owned <- v3, appending <- v4

Headers == INSTANCE Headers WITH
    Object <- {q1, r1}, Order <- <<"a", "set-cookie">>,
    LowerOf <- ("A" :> "a") @@ ("a" :> "a") @@ ("Set-Cookie" :> "set-cookie"),
    Invalid <- {"a b"}, Char <- {"sp", "lf", "v"},
    Texts <- {<<"sp", "v">>, <<"lf">>, <<"v", "lf", "v">>}, MaxPairs <- 3,
    Arrays <- {<<>>, << <<"a b", <<"lf">>>>, <<"A", <<"v", "lf", "v">>>>, <<"A", <<"sp", "v">>>> >>,
               << <<"Set-Cookie", <<"lf">>>> >>},
    entries <- v1, given <- v2, lost <- v3

(* A collection, a dynamic object, an array of numbers or one of any values; *)
(* two names with one hash, and three in one slot of the smallest table.   *)
Containers == INSTANCE Containers WITH
    Kind <- {"collection", "object", "array", "values"},
    Key <- {"+0", "-0", "nan", "s1", "s2"}, Same <- {{"+0", "-0"}, {"s1", "s2"}},
    Name <- {"a", "b", "c", "d"}, HashOf <- [a |-> 3, b |-> 7, c |-> 0, d |-> 3],
    Element <- {1, 2}, MaxIndex <- 5,
    kind <- v1, count <- v2, slots <- v3, last <- v4, given <- v5, answer <- v6

-----------------------------------------------------------------------------
(* The graphs of three nodes, with cycles and sharing, and their transfers. *)

Typed(n) == [to |-> n, any |-> FALSE]
Loose(n) == [to |-> n, any |-> TRUE]
SlotTypes(kind, n) ==
    CASE kind[n] = "buffer" -> {}
      [] kind[n] = "dynamic" -> {Loose(m) : m \in {n1, n2, n3, "number"}}
      [] OTHER -> {Loose(m) : m \in {n1, n2, "number"}}
                  \cup {Typed(m) : m \in {m \in {n2, n3} : kind[m] # "dynamic"}}
SlotLists(kind, n) ==
    CASE SlotTypes(kind, n) = {} -> {<<>>}
      [] n = n1 -> SlotTypes(kind, n) \X SlotTypes(kind, n)
      [] OTHER -> {<<r>> : r \in SlotTypes(kind, n)}
NodeKinds == {(n1 :> k1) @@ (n2 :> k2) @@ (n3 :> k3) :
    k1 \in {"object", "dynamic"}, k2 \in {"array", "dynamic", "buffer"}, k3 \in {"dynamic", "buffer"}}
CloneCalls ==
    UNION {[kind : {kind},
            slots : {(n1 :> x) @@ (n2 :> y) @@ (n3 :> z) :
                x \in SlotLists(kind, n1), y \in SlotLists(kind, n2), z \in SlotLists(kind, n3)},
            root : {IF kind[n1] = "dynamic" THEN Loose(n1) ELSE Typed(n1)},
            transfer : {<<>>}
                \cup (IF kind[n3] = "buffer" THEN {<<n3>>, <<n3, n3>>} ELSE {})
                \cup (IF kind[n3] = "buffer" /\ kind[n2] = "buffer" THEN {<<n3, n2>>} ELSE {})] :
           kind \in NodeKinds}

StructuredClone == INSTANCE StructuredClone WITH
    Node <- {n1, n2, n3}, Menu <- CloneCalls, MaxClones <- 6,
    call <- v1, phase <- v2, bytes <- v3, memo <- v4, made <- v5, result <- v6

-----------------------------------------------------------------------------
(* Small programs: tries in tries, loops of each form, conditional         *)
(* expressions in one another, arithmetic to fold, and switches.           *)

Number(n) == [kind |-> "number", n |-> n]
Local(x) == [kind |-> "var", var |-> x]
Call(e) == [kind |-> "call", of |-> e]
Let(x, e) == [kind |-> "assign", var |-> x, to |-> e]
Binary(k, a, b) == [kind |-> k, left |-> a, right |-> b]
Two(a, b) == [kind |-> "seq", list |-> <<a, b>>]
Throw(e) == [kind |-> "throw", of |-> e]
Return(e) == [kind |-> "return", of |-> e]
If(c, a, b) == [kind |-> "if", cond |-> c, then |-> a, else |-> b]
Try(a, b, c) == [kind |-> "try", body |-> a, catch |-> b, finally |-> c]
Small(e) == Binary("less", e, Number(1))
Inc(x, n) == Let(x, Binary("add", Local(x), Number(n)))
Skip == [kind |-> "seq", list |-> <<>>]

Tries(bs, cs, fs) ==
    {Try(b, <<c>>, <<>>) : b \in bs, c \in cs} \cup {Try(b, <<>>, <<f>>) : b \in bs, f \in fs}
    \cup {Try(b, <<c>>, <<f>>) : b \in bs, c \in cs, f \in fs}
InnerTries ==
    Tries({Call(Number(1)), Return(Number(2)), If(Small(Local("p")), Throw(Number(3)), Call(Number(4)))},
          {Call(Local("e")), Throw(Number(5))}, {Call(Number(7)), Inc("x", 1), Return(Number(8))})
OuterTries ==
    Tries(InnerTries, {Call(Local("e"))}, {Call(Number(9))})
    \cup Tries({Throw(Local("p"))}, InnerTries, {Call(Number(9))})
    \cup Tries({Return(Local("p")), Call(Number(0))}, {Call(Local("e"))}, InnerTries)

Steps == {Inc("x", 1), Let("x", Number(1)), Call(Local("x")), Return(Local("x"))}
LoopBodies ==
    Steps \cup {If(Small(Local("p")), a, b) : a \in Steps, b \in {Skip, Inc("x", 2)}}
    \cup {Two(Inc("x", 1), Call(Local("y")))}
    \cup {Try(a, <<>>, <<Inc("y", 1)>>) : a \in {Call(Local("x")), Return(Local("x"))}}
For(b) == [kind |-> "for", init |-> Let("y", Number(0)), cond |-> Binary("less", Local("y"), Number(2)),
           post |-> Inc("y", 1), body |-> b]
LoopsOver(b) ==
    {[kind |-> k, cond |-> Binary("less", Local("x"), Number(2)), body |-> b] : k \in {"while", "do"}}
    \cup {For(b), [kind |-> "forof", var |-> "y", of |-> Local("p"), body |-> b]}
Loops == UNION {LoopsOver(b) : b \in LoopBodies \cup {For(Inc("x", 1)), If(Small(Local("p")), For(Inc("x", 1)), Skip)}}

Atoms == {Local("p"), Number(1), Call(Local("p"))}
Logical(op, a, b) == [kind |-> "logical", op |-> op, left |-> a, right |-> b]
Conditionals(as, bs) ==
    {Logical(op, a, b) : op \in {"and", "or"}, a \in as, b \in bs} \cup {Binary("nullish", a, b) : a \in as, b \in bs}
Choices == Conditionals(Atoms, Atoms)
    \cup {[kind |-> "member", of |-> a] : a \in Atoms \ {Number(1)}}
    \cup {[kind |-> "choose", cond |-> Small(Local("p")), then |-> a, else |-> b] : a \in Atoms, b \in Atoms}
Arithmetic ==
    {Two(Let("x", Binary("add", Number(1), Number(2))),
         Two(Let("y", Binary("sub", Local("x"), Number(1))),
             If([kind |-> "boolean", n |-> b], Call(Local("y")), a))) :
        b \in {0, 1},
        a \in {Call(Local("x")), Return(Local("y")), [kind |-> "push", of |-> Local("x")], [kind |-> "push", of |-> Local("p")]}}
Clause(test, do) == [test |-> test, do |-> do]
Switches ==
    {[kind |-> "switch", on |-> Local("p"), clauses |-> c] :
        c \in {<<Clause({Number(0)}, a), Clause({Number(1)}, b), Clause({}, d)>> :
                   a, b, d \in {Call(Number(1)), Inc("x", 1), Return(Number(3))}}}

Programs ==
    {Two(s, Call(Local("x"))) : s \in InnerTries \cup OuterTries \cup Loops \cup Switches}
    \cup {Return(e) : e \in Choices \cup Conditionals(Choices, {Call(Number(1))})}
    \cup {If(e, Call(Number(1)), Let("x", Number(3))) : e \in Choices} \cup Arithmetic

ControlFlow == INSTANCE ControlFlow WITH
    Var <- {"p", "x", "y", "e"}, Menu <- Programs, Inputs <- {-2, -1, 0, 2}, MaxRounds <- 4, MaxBlocks <- 40,
    prog <- v1, input <- v2, phase <- v3, code <- v4, passes <- v5, changed <- v6, steps <- v7,
    at <- v8, from <- v9, env <- v10, seen <- v11, result <- v12

-----------------------------------------------------------------------------

ASSUME PartsAssumption ==
    /\ Streams!StreamsAssumption /\ Fetch!FetchAssumption /\ Intervals!IntervalsAssumption
    /\ Promises!PromisesAssumption /\ Network!NetworkAssumption /\ Resolver!ResolverAssumption
    /\ Headers!HeadersAssumption /\ Containers!ContainersAssumption /\ StructuredClone!StructuredCloneAssumption
    /\ ControlFlow!ControlFlowAssumption

Init ==
    \/ part = "streams" /\ Streams!Init /\ Unused9
    \/ part = "fetch" /\ Fetch!Init /\ Unused12
    \/ part = "intervals" /\ Intervals!Init /\ Unused10
    \/ part = "promises" /\ Promises!Init
    \/ part = "network" /\ Network!Init
    \/ part = "resolver" /\ Resolver!Init
    \/ part = "urls" /\ URLs!Init /\ Unused5
    \/ part = "headers" /\ Headers!Init /\ Unused4
    \/ part = "containers" /\ Containers!Init /\ Unused7
    \/ part = "clone" /\ StructuredClone!Init /\ Unused7
    \/ part = "control" /\ ControlFlow!Init /\ Unused13

Next ==
    \/ part = "streams" /\ Streams!Next /\ UNCHANGED <<part, v9, v10, v11, v12, v13, v14>>
    \/ part = "fetch" /\ Fetch!Next /\ UNCHANGED <<part, v12, v13, v14>>
    \/ part = "intervals" /\ Intervals!Next /\ UNCHANGED <<part, v10, v11, v12, v13, v14>>
    \/ part = "promises" /\ Promises!Next /\ UNCHANGED part
    \/ part = "network" /\ Network!Next /\ UNCHANGED part
    \/ part = "resolver" /\ Resolver!Next /\ UNCHANGED part
    \/ part = "urls" /\ URLs!Next /\ UNCHANGED <<part, v5, v6, v7, v8, v9, v10, v11, v12, v13, v14>>
    \/ part = "headers" /\ Headers!Next /\ UNCHANGED <<part, v4, v5, v6, v7, v8, v9, v10, v11, v12, v13, v14>>
    \/ part = "containers" /\ Containers!Next /\ UNCHANGED <<part, v7, v8, v9, v10, v11, v12, v13, v14>>
    \/ part = "clone" /\ StructuredClone!Next /\ UNCHANGED <<part, v7, v8, v9, v10, v11, v12, v13, v14>>
    \/ part = "control" /\ ControlFlow!Next /\ UNCHANGED <<part, v13, v14>>

Spec == Init /\ [][Next]_vars

-----------------------------------------------------------------------------
(* The properties of the parts, each with the types of its part's state.   *)

(* Streams: however reads, pulls, tees and pipes overlap, the queue's      *)
(* index never passes a chunk no consumer was given, and without overlap   *)
(* the chunks are given in order and once (web_streams_readable.go).       *)
ChunksInOrder == part = "streams" => Streams!TypeOK /\ Streams!ChunksInOrder

(* Fetch: each open socket has one holder, nothing of a body is missing,   *)
(* and text() or a fetch takes whole only what no reader and none of them  *)
(* was given before, until a response is used while a pull of it is        *)
(* blocked (web_fetch.go, web_response.go, web_request.go).                *)
BodiesHeld == part = "fetch" => Fetch!TypeOK /\ Fetch!BodiesHeld

(* Intervals: a clear that finds its timer stops it, one that does not     *)
(* came too late or in a join, and what nobody cleared is cancelled only   *)
(* through an outlived handle (intervals_amd64.go, web_timers.go).         *)
ClearedStops == part = "intervals" => Intervals!TypeOK /\ Intervals!ClearedStops

(* Promises: an aggregate settles at the poll that sees what decides it,   *)
(* from the members it should, and a thenable with its first settlement    *)
(* (promises.go, promise_rejection_amd64.go).                              *)
AggregateRight == part = "promises" => Promises!TypeOK /\ Promises!AggregateRight

(* Network: wherever the kernel cuts writes and reads, the request and the *)
(* response arrive whole and in order, and every way out closes the socket *)
(* once (net_stream_amd64.go, net_amd64.go).                               *)
InStep == part = "network" => Network!TypeOK /\ Network!InStep


(* URLs: the parameters are those of the query whichever of the two is     *)
(* changed, and the text of a URL parses to the same URL                   *)
(* (web_url_record.go, web_url.go).                                        *)
URLAgrees == part = "urls" => URLs!TypeOK /\ URLs!URLAgrees

(* Headers: has, get and iteration give the values the calls gave each     *)
(* name, but for those an array gave (web_headers.go).                     *)
HeadersAgree == part = "headers" => Headers!TypeOK /\ Headers!HeadersAgree

(* Containers: every question has the answer the calls before it call for, *)
(* whatever a grown or reused block held before (collection_amd64.go,      *)
(* dynamic_object_amd64.go, array_runtime_amd64.go).                       *)
ContainersAgree == part = "containers" => Containers!TypeOK /\ Containers!ContainersAgree

(* Structured clone: one copy of each node, linked as the source is, and   *)
(* transferred bytes in their copy alone (web_structured_clone.go).        *)
CloneIsCopy == part = "clone" => StructuredClone!TypeOK /\ StructuredClone!CloneIsCopy

(* Control flow: lowered, and optimized any number of times, a supported   *)
(* program does what it means (exceptions.go, statements.go,               *)
(* expression_flow.go, opt.go).                                            *)
RunsAsWritten == part = "control" => ControlFlow!TypeOK /\ ControlFlow!RunsAsWritten

=============================================================================
