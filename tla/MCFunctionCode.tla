--------------------------- MODULE MCFunctionCode ---------------------------
(***************************************************************************)
(* Functions of the shape that lowerFor and lowerIf give a loop whose body *)
(* is a conditional: the blocks of the conditional are emitted after the   *)
(* loop's post and exit blocks, to which their values flow back.           *)
(***************************************************************************)
EXTENDS FunctionCode

NoPhis == <<>>
Phi(r, b1, v1, b2, v2) == [res |-> r, from |-> (b1 :> v1) @@ (b2 :> v2)]

(* 1 before, 2 condition, 3 body, 4 post, 5 exit, 6 then, 7 else, 8 join.   *)
Loop(callIn, call, a, b, c, d, result) ==
    [params |-> <<1>>,
     phis |-> [n \in 1 .. 8 |->
                IF n = 2 THEN <<Phi(2, 1, 1, 4, a), Phi(3, 1, NoValue, 4, b)>>
                ELSE IF n = 8 THEN <<Phi(4, 6, c, 7, d)>> ELSE NoPhis],
     code |-> [n \in 1 .. 8 |-> IF n = callIn THEN <<call>> ELSE <<>>],
     test |-> [n \in 1 .. 8 |-> IF n = 2 THEN {2} ELSE IF n = 5 THEN result ELSE {}],
     succ |-> <<{2}, {3, 5}, {6, 7}, {2}, {}, {8}, {8}, {4}>>]

Calls == {[res |-> 5, uses |-> u, late |-> l] : u \in {{1}, {2, 3}}, l \in BOOLEAN}

Loops ==
    UNION {{Loop(n, call, a, b, c, d, result) :
                call \in Calls,
                a \in {3, 4} \cup (IF n \in {3, 4} THEN {5} ELSE {}),
                b \in {2, 4},
                c \in {2, NoValue} \cup (IF n \in {3, 6} THEN {5} ELSE {}),
                d \in {2, 3},
                result \in {{1}, {3}}}
           : n \in {3, 4, 6}}

(* A conditional with two parameters, 1 entry, 2 then, 3 else, 4 join.      *)
Conditional(call, a, b, c, d, last, result) ==
    [params |-> <<1, 2>>,
     phis |-> <<NoPhis, NoPhis, NoPhis, <<Phi(4, 2, a, 3, b), Phi(5, 2, c, 3, d)>>>>,
     code |-> <<<<call>>, <<>>, <<>>, <<last>>>>,
     test |-> <<{3}, {}, {}, result>>,
     succ |-> <<{2, 3}, {4}, {4}, {}>>]

Conditionals ==
    {Conditional([res |-> 3, uses |-> u, late |-> l], a, b, c, d,
                 [res |-> NoValue, uses |-> w, late |-> l], result) :
        u \in {{}, {1}, {1, 2}}, l \in BOOLEAN,
        a \in {1, 3}, b \in {2, 3}, c \in {2, NoValue}, d \in {1, 3},
        w \in {{4}, {1, 5}}, result \in {{4}, {5}}}

Compiled == Loops \cup Conditionals
=============================================================================
