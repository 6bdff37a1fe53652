--------------------------- MODULE MCAsyncProgram ---------------------------
(***************************************************************************)
(* Programs for TLC.  "main" is the main program; A to D are tasks.        *)
(***************************************************************************)
EXTENDS AsyncProgram, TLC

MCTask == {"A", "B", "C", "D"}
MCMessage == [c \in MCTask \cup {"main"} |-> {c \o "1", c \o "2"}]

NoScript == [c \in MCTask \cup {"main"} |-> <<>>]

(* A producer and a consumer, joined by the main program. *)
Pipeline ==
    ("main" :> << <<"spawn", "A">>, <<"spawn", "B">>, <<"join", "B">> >>)
    @@ ("A" :> << <<"send", "A1">>, <<"send", "A2">>, <<"send", "A1">> >>)
    @@ ("B" :> << <<"recv">>, <<"recv">>, <<"recv">> >>)
    @@ NoScript

(* A waiter that is requeued again and again, and the sleeper, a timer or  *)
(* an ordinary task, that will satisfy it.                                 *)
Sleeper ==
    ("main" :> << <<"spawn", "A">>, <<"timeout", "B", 2>>, <<"timeout", "C", 1>>, <<"join", "A">> >>)
    @@ ("A" :> << <<"recv">>, <<"recv">> >>)
    @@ ("B" :> << <<"send", "B1">> >>)
    @@ ("C" :> << <<"spawn", "D">>, <<"join", "D">> >>)
    @@ ("D" :> << <<"sleep", 2>>, <<"send", "D1">> >>)
    @@ NoScript

(* Joins nested to the depth of the number of tasks, with microtasks, and  *)
(* two producers that meet the main program in the channel.                *)
Nested ==
    ("main" :> << <<"spawn", "A">>, <<"microtask", "D">>, <<"yield">>, <<"recv">>, <<"recv">>, <<"sleep", 1>> >>)
    @@ ("A" :> << <<"spawn", "B">>, <<"join", "B">>, <<"send", "A1">> >>)
    @@ ("B" :> << <<"spawn", "C">>, <<"yield">>, <<"join", "C">>, <<"join", "C">> >>)
    @@ ("C" :> << <<"sleep", 1>>, <<"yield">> >>)
    @@ ("D" :> << <<"send", "D1">>, <<"yield">> >>)
    @@ NoScript

MCPrograms == {Pipeline, Sleeper, Nested}

(* B waits for D in a join on top of A's join: D's value comes from A,     *)
(* which could go on as soon as C has settled.                             *)
JoinOnJoin ==
    ("main" :> << <<"spawn", "C">>, <<"spawn", "A">>, <<"spawn", "D">>, <<"spawn", "B">> >>)
    @@ ("C" :> << <<"sleep", 1>> >>)
    @@ ("A" :> << <<"join", "C">>, <<"send", "A1">> >>)
    @@ ("B" :> << <<"join", "D">> >>)
    @@ ("D" :> << <<"recv">> >>)
    @@ NoScript

MCJoinOnJoin == {JoinOnJoin}

(* Two tasks exchange a request and its answer over one channel. *)
PingPong ==
    ("main" :> << <<"spawn", "A">>, <<"spawn", "B">> >>)
    @@ ("A" :> << <<"send", "A1">>, <<"recv">> >>)
    @@ ("B" :> << <<"recv">>, <<"send", "B1">> >>)
    @@ NoScript

MCPingPong == {PingPong}

=============================================================================
