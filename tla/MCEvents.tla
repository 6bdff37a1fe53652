------------------------------ MODULE MCEvents ------------------------------
(***************************************************************************)
(* Programs made of four kinds of calls: dispatches on a target whose list *)
(* changes, listeners bound to a signal, signals that depend on two        *)
(* others, and chains of dependent signals with handlers.                  *)
(***************************************************************************)
EXTENDS Events, TLC

CONSTANTS target, s1, s2, s3, first, second, x, y

On(t, ty, c, once, s) == [target |-> t, type |-> ty, code |-> c, once |-> once, signal |-> s]

Dispatching ==
    [listen |-> { On(target, "tick", first, FALSE, NoSignal), On(target, "tick", second, TRUE, NoSignal),
                  On(target, "abort", first, TRUE, NoSignal), On(target, "abort", second, FALSE, NoSignal) },
     dispatch |-> {target} \X {Made("tick"), Made("abort")},
     handle |-> {}, make |-> {}, reasons |-> {}, room |-> 3]

Binding ==
    [listen |-> { On(target, "tick", first, FALSE, NoSignal), On(target, "tick", first, TRUE, s1),
                  On(s1, "abort", first, FALSE, s1) },
     dispatch |-> {<<target, Made("tick")>>, <<target, Fired(s1)>>, <<s1, Fired(s1)>>},
     handle |-> {},
     make |-> {<<s1, "controller">>},
     reasons |-> {x}, room |-> 4]

Depending ==
    [listen |-> {On(s1, "abort", first, FALSE, NoSignal)},
     dispatch |-> {<<s1, Made("abort")>>},
     handle |-> {},
     make |-> {<<s1, "controller">>, <<s2, "timeout">>, <<s3, "any">>},
     reasons |-> Reason, room |-> 3]

Chaining ==
    [listen |-> {},
     dispatch |-> {},
     handle |-> {s3} \X {first, NoHandler},
     make |-> {<<s1, "controller">>, <<s2, "static">>, <<s2, "any">>, <<s3, "any">>},
     reasons |-> Reason, room |-> 3]

MCMenu == {Dispatching, Binding, Depending, Chaining}

TaskSymmetry == Permutations(Task)

=============================================================================
