----------------------------- MODULE ControlFlow -----------------------------
(***************************************************************************)
(* Statements and short-circuit expressions lowered to basic blocks with   *)
(* phis (midend/irgen), the blocks optimized (midend/opt) and run; and     *)
(* what the same program means when its syntax tree is evaluated.          *)
(*                                                                         *)
(* A tree node is a record with a "kind". A value is an integer: a number  *)
(* (also a boolean, 0 or 1) or one of three marked ones. An object is      *)
(* named by a number n and its one field holds n + 1; an array named n has *)
(* n elements, 1 to n. The state of the generator is a record g: the       *)
(* blocks made so far, the current block, the operand every local variable *)
(* stands for, the stacks of operands and of catch and finally contexts,   *)
(* and the next value.                                                     *)
(***************************************************************************)
EXTENDS Integers, Sequences, FiniteSets, SequencesExt

CONSTANTS
    Var,            \* the local variables
    Menu,           \* the programs: statements
    Inputs,         \* what the parameter "p" is called with
    MaxRounds,      \* iterations of the loops of a run the meaning is taken of
    MaxBlocks       \* blocks a run executes before it counts as endless

ControlFlowAssumption ==
    /\ "p" \in Var
    /\ MaxRounds \in Nat /\ MaxBlocks \in Nat

Undefined == -1
Null      == -2
Garbage   == -3         \* what a register holds before its value is computed
Param     == 1          \* the value of "p"

VARIABLES prog, input, phase, code, passes, changed, steps, at, from, env, seen, result

vars == <<prog, input, phase, code, passes, changed, steps, at, from, env, seen, result>>

Const(n) == <<"number", n>>
Bool(n)  == <<"boolean", n>>
Value(i) == <<"value", i>>

Open      == [kind |-> "open"]
Jump(b)   == [kind |-> "jump", to |-> b]
Return(v) == [kind |-> "return", val |-> v]
Branch(c, b, d) == [kind |-> "branch", on |-> c, yes |-> b, no |-> d]

-----------------------------------------------------------------------------
(* Building blocks. The operands of the expressions being lowered stand on *)
(* a stack: an instruction takes its arguments from it and leaves a result.*)

EmptyBlock == [phis |-> <<>>, code |-> <<>>, term |-> Open]

NewBlocks(g, n) == [g EXCEPT !.block = @ \o [i \in 1..n |-> EmptyBlock]]
LastBlock(g) == Len(g.block)

Enter(g, b) == [g EXCEPT !.cur = b]
IsOpen(g) == g.block[g.cur].term = Open
Terminate(g, t) == [g EXCEPT !.block[g.cur].term = t]
LeaveTo(g, b) == IF IsOpen(g) THEN Terminate(g, Jump(b)) ELSE g

\* The block after a jump out: it already returns, and nothing reaches it.
EnterDead(g) == Terminate(Enter(NewBlocks(g, 1), LastBlock(g) + 1), Return(Const(Undefined)))

Push(g, v) == [g EXCEPT !.operands = Append(@, v)]
Drop(g) == [g EXCEPT !.operands = Front(@)]
Top(g) == Last(g.operands)

\* An instruction on the last n operands, appended to the current block.
Emit(g, op, n) ==
    LET k == Len(g.operands) - n
        args == SubSeq(g.operands, k + 1, k + n)
    IN  [g EXCEPT !.block[g.cur].code = Append(@, [op |-> op, res |-> g.next, args |-> args]),
                  !.operands = Append(SubSeq(@, 1, k), Value(g.next)),
                  !.next = @ + 1]

BranchTo(g, yes, no) == Terminate(Drop(g), Branch(Top(g), yes, no))
ReturnTop(g) == Terminate(Drop(g), Return(Top(g)))

In(b, v) == [from |-> b, val |-> v]

NewPhi(g, b, incoming) ==
    [g EXCEPT !.block[b].phis = Append(@, [res |-> g.next, in |-> incoming]), !.next = @ + 1]

\* One more incoming value for every phi of block b.
AddIncoming(g, b, ins) ==
    [g EXCEPT !.block[b].phis = [k \in DOMAIN @ |-> [res |-> @[k].res, in |-> Append(@[k].in, ins[k])]]]

Bind(g, x, v) == [g EXCEPT !.locals[x] = v]
BindPhi(g, x, b, incoming) == Bind(NewPhi(g, b, incoming), x, Value(g.next))

-----------------------------------------------------------------------------
(* Routing a completion to the finally or catch that sees it. *)

currentCatch(g) == IF g.catch = <<>> THEN <<>> ELSE <<Last(g.catch)>>
currentFinally(g) == IF g.finally = <<>> THEN <<>> ELSE <<Last(g.finally)>>

routeFinallyCompletion(g, block, kind) ==
    EnterDead(Terminate(AddIncoming(Drop(g), block, <<In(g.cur, Const(kind)), In(g.cur, Top(g))>>), Jump(block)))

\* Mutant of routeThrownValue: a catch inside a finally no longer comes before it.
routeThrownValueOut(g) ==
    LET catch == currentCatch(g)
        final == currentFinally(g)
    IN  IF final # <<>> /\ (catch = <<>> \/ catch[1].depth <= Len(g.finally))
        THEN routeFinallyCompletion(g, final[1], 2)
        ELSE IF catch # <<>>
        THEN EnterDead(Terminate(AddIncoming(Drop(g), catch[1].block, <<In(g.cur, Top(g))>>), Jump(catch[1].block)))
        ELSE EnterDead(Terminate(Drop(Emit(g, "reject", 1)), Return(Const(Undefined))))

\* The innermost try sees a throw first: its catch, if the catch was entered at this depth of
\* finally blocks, or else the finally, which passes the throw on afterwards.
routeThrownValue(g) ==
    LET catch == currentCatch(g)
        final == currentFinally(g)
    IN  IF final # <<>> /\ (catch = <<>> \/ catch[1].depth < Len(g.finally))
        THEN routeFinallyCompletion(g, final[1], 2)
        ELSE IF catch # <<>>
        THEN EnterDead(Terminate(AddIncoming(Drop(g), catch[1].block, <<In(g.cur, Top(g))>>), Jump(catch[1].block)))
        ELSE EnterDead(Terminate(Drop(Emit(g, "reject", 1)), Return(Const(Undefined))))

-----------------------------------------------------------------------------
(* Which variables a loop gives phis: a syntactic walk that does not enter *)
(* every kind of node.                                                     *)

RECURSIVE findModifiedVars(_)
findModifiedVars(n) ==
    CASE n.kind = "assign" -> {n.var} \cup findModifiedVars(n.to)
      [] n.kind = "neg"    -> findModifiedVars(n.of)
      [] n.kind = "seq"    -> UNION { findModifiedVars(n.list[k]) : k \in DOMAIN n.list }
      [] n.kind = "if"     -> UNION { findModifiedVars(m) : m \in {n.cond, n.then, n.else} }
      [] n.kind = "for"    -> UNION { findModifiedVars(m) : m \in {n.init, n.cond, n.post, n.body} }
      [] OTHER -> {}

-----------------------------------------------------------------------------
(* Lowering an expression pushes its operand. *)

RECURSIVE lowerExpr(_, _), lowerStatement(_, _)

Pure == {"add", "sub", "less", "equal"}

\* An expression in a block of its own, its operand one more incoming value of the join's phi.
Arm(g, b, e, join) ==
    LET Arrive(h) == LeaveTo(AddIncoming(Drop(h), join, <<In(h.cur, Top(h))>>), join)
    IN  Arrive(lowerExpr(Enter(g, b), e))

Joined(g, join) == Push(Enter(g, join), Value(Last(g.block[join].phis).res))

\* Both logical operators and the conditional: the parts run in blocks n + 1 and n + 2.
ChooseIn(g, n, yes, no) ==
    Joined(Arm(Arm(BranchTo(g, n + 1, n + 2), n + 1, yes, n + 3), n + 2, no, n + 3), n + 3)
lowerChoice(g, yes, no) ==
    ChooseIn(NewPhi(NewBlocks(g, 3), LastBlock(g) + 3, <<>>), LastBlock(g), yes, no)

\* The operand again, for the side of a logical operator that is not evaluated.
Again(g) == [kind |-> "operand", v |-> Top(g)]

lowerLogicalExpr(g, e) ==
    LET On(h) == lowerChoice(h, IF e.op = "and" THEN e.right ELSE Again(h),
                                IF e.op = "and" THEN Again(h) ELSE e.right)
    IN  On(lowerExpr(g, e.left))

\* A test for a constant, and on in the block for the answer no.
Asked(g, v, n, yes, no) == Enter(BranchTo(Emit(Push(Push(g, v), Const(n)), "equal", 2), yes, no), no)

\* A test for undefined, then one for null in block n + 1: "missing", in n + 2, is reached
\* from both.
PresenceIn(g, n, v, missing, present) ==
    LET asked == Asked(Asked(g, v, Undefined, n + 2, n + 1), v, Null, n + 2, n + 3)
    IN  Joined(Arm(Arm(asked, n + 3, present, n + 4), n + 2, missing, n + 4), n + 4)
lowerPresence(g, missing, present) ==
    PresenceIn(NewPhi(NewBlocks(Drop(g), 4), LastBlock(g) + 4, <<>>), LastBlock(g), Top(g), missing, present)

lowerNullishExpr(g, e) ==
    LET On(h) == lowerPresence(h, e.right, Again(h)) IN On(lowerExpr(g, e.left))

lowerOptionalMember(g, e) ==
    LET On(h) == lowerPresence(h, [kind |-> "operand", v |-> Const(Undefined)], [kind |-> "field", v |-> Top(h)])
    IN  On(lowerExpr(g, e.of))

lowerAssignment(g, e) == LET On(h) == Bind(h, e.var, Top(h)) IN On(lowerExpr(g, e.to))

lowerExpr(g, e) ==
    CASE e.kind = "number"  -> Push(g, Const(e.n))
      [] e.kind = "boolean" -> Push(g, Bool(e.n))
      [] e.kind = "operand" -> Push(g, e.v)
      [] e.kind = "field"   -> Emit(Push(g, e.v), "field", 1)
      [] e.kind = "var"     -> Push(g, g.locals[e.var])
      [] e.kind \in {"neg", "call"} -> Emit(lowerExpr(g, e.of), e.kind, 1)
      [] e.kind \in Pure    -> Emit(lowerExpr(lowerExpr(g, e.left), e.right), e.kind, 2)
      [] e.kind = "assign"  -> lowerAssignment(g, e)
      [] e.kind = "logical" -> lowerLogicalExpr(g, e)
      [] e.kind = "nullish" -> lowerNullishExpr(g, e)
      [] e.kind = "member"  -> lowerOptionalMember(g, e)
      [] e.kind = "choose"  -> lowerChoice(lowerExpr(g, e.cond), e.then, e.else)

\* The value of a throw, and of a return that a finally sees, is boxed by a call.
Boxed(g, e) == Emit(lowerExpr(g, e), "box", 1)

-----------------------------------------------------------------------------
(* Lowering a statement. *)

lowerReturn(g, s) ==
    IF currentFinally(g) # <<>>
    THEN routeFinallyCompletion(Boxed(g, s.of), currentFinally(g)[1], 1)
    ELSE ReturnTop(lowerExpr(g, s.of))

\* A variable the sides t and e of an if leave with different operands gets a phi.
Merged(t, e, orig, join) ==
    LET Merge(h, x) ==
            IF t.locals[x] = e.locals[x] THEN Bind(h, x, orig[x])
            ELSE BindPhi(h, x, join, <<In(t.cur, t.locals[x]), In(e.cur, e.locals[x])>>)
    IN  FoldLeft(Merge, Enter(e, join), SetToSeq(Var))

lowerIf(g, s) ==
    LET Else(t, orig, n) ==
            Merged(t, LeaveTo(lowerStatement(Enter([t EXCEPT !.locals = orig], n + 2), s.else), n + 3), orig, n + 3)
        Then(h, n) ==
            Else(LeaveTo(lowerStatement(Enter(BranchTo(NewBlocks(h, 3), n + 1, n + 2), n + 1), s.then), n + 3),
                 h.locals, n)
        On(h) == Then(h, LastBlock(h))
    IN  On(lowerExpr(g, s.cond))

\* The phis of a loop's head, and the second incoming value of each.
OpenLoop(g, head, xs) ==
    FoldLeft(LAMBDA h, x : BindPhi(h, x, head, <<In(g.cur, h.locals[x])>>), g, xs)

CloseLoop(g, head, xs) == AddIncoming(g, head, [k \in DOMAIN xs |-> In(g.cur, g.locals[xs[k]])])

PhiLocals(g, head, xs) ==
    FoldLeft(LAMBDA h, k : Bind(h, xs[k], Value(g.block[head].phis[k].res)), g, [k \in DOMAIN xs |-> k])

\* The test belongs to the head, also when it has made blocks of its own.
LoopTest(g, cond, head, body, exit) == BranchTo(Enter(lowerExpr(Enter(g, head), cond), head), body, exit)

\* The body ends in "end", which goes back to the head; after the loop a variable is its phi.
lowerWhile(g, s) ==
    LET n  == LastBlock(g)
        xs == SetToSeq(findModifiedVars(s.body))
        h  == OpenLoop(Terminate(NewBlocks(g, 3), Jump(n + 1)), n + 1, xs)
        c  == LoopTest(h, s.cond, n + 1, n + 2, n + 3)
        b  == LeaveTo(lowerStatement(Enter(c, n + 2), s.body), n + 1)
    IN  Enter(PhiLocals(CloseLoop(b, n + 1, xs), n + 1, xs), n + 3)

lowerDoWhile(g, s) ==
    LET n  == LastBlock(g)
        xs == SetToSeq(findModifiedVars(s.body))
        h  == OpenLoop(LeaveTo(NewBlocks(g, 3), n + 1), n + 1, xs)
        b  == LeaveTo(lowerStatement(Enter(h, n + 1), s.body), n + 2)
        c  == BranchTo(lowerExpr(Enter(b, n + 2), s.cond), n + 1, n + 3)
    IN  Enter(CloseLoop(c, n + 1, xs), n + 3)

lowerFor(g, s) ==
    LET xs == SetToSeq(findModifiedVars(s.body) \cup findModifiedVars(s.post))
        Loop(i, n) ==
            LET h == OpenLoop(LeaveTo(NewBlocks(i, 4), n + 1), n + 1, xs)
                c == LoopTest(h, s.cond, n + 1, n + 2, n + 4)
                b == LeaveTo(lowerStatement(Enter(c, n + 2), s.body), n + 3)
                p == LeaveTo(Drop(lowerExpr(Enter(b, n + 3), s.post)), n + 1)
            IN  Enter(PhiLocals(CloseLoop(p, n + 1, xs), n + 1, xs), n + 4)
        After(i) == Loop(i, LastBlock(i))
    IN  After(lowerStatement(g, s.init))

\* The loop of a for-of over array a: index i counts the elements, and goes up in block n + 3.
\* The loop variable is the element, and has its old operand after.
ForOfLoop(g, s, xs, n, a, i) ==
    LET t == BranchTo(Emit(Emit(Push(Push(g, i), a), "length", 1), "less", 2), n + 2, n + 4)
        Body(h) == lowerStatement(Bind(Drop(h), s.var, Top(h)), s.body)
        b == LeaveTo(Body(Emit(Push(Push(Enter(t, n + 2), a), i), "element", 2)), n + 3)
        p == LeaveTo(Emit(Push(Push(Enter(b, n + 3), i), Const(1)), "add", 2), n + 1)
        Close(h) == AddIncoming(Drop(h), n + 1, [k \in DOMAIN xs |-> In(h.cur, h.locals[xs[k]])] \o <<In(h.cur, Top(h))>>)
    IN  Enter(Bind(PhiLocals(Close(p), n + 1, xs), s.var, g.locals[s.var]), n + 4)

lowerForOf(g, s) ==
    LET xs == SetToSeq(findModifiedVars(s.body) \ {s.var})
        Loop(h, n) ==
            LET l == OpenLoop(LeaveTo(NewBlocks(Drop(h), 4), n + 1), n + 1, xs)
            IN  ForOfLoop(Enter(NewPhi(l, n + 1, <<In(h.cur, Const(0))>>), n + 1), s, xs, n,
                          Top(h), Value(h.next + Len(xs)))
        On(h) == Loop(h, LastBlock(h))
    IN  On(lowerExpr(g, s.of))

\* From the last clause to the first: a clause with a test asks it and falls to the chain of
\* the later ones, and the default takes the place of that chain.
lowerSwitch(g, s) ==
    LET Chain(on) ==
            FoldRight(LAMBDA c, rest :
                          IF c.test = {} THEN c.do
                          ELSE [kind |-> "if", then |-> c.do, else |-> rest,
                                cond |-> [kind |-> "equal", left |-> on, right |-> CHOOSE e \in c.test : TRUE]],
                      s.clauses, [kind |-> "seq", list |-> <<>>])
        On(h) == lowerStatement(Drop(h), Chain(Again(h)))
    IN  On(lowerExpr(g, s.on))

PushCatch(g, b) == [g EXCEPT !.catch = Append(@, [block |-> b, depth |-> Len(g.finally)])]

\* A catch begins with the contexts and the locals g of before its try, and what was thrown.
EnterCatch(h, g, b) ==
    [Enter(h, b) EXCEPT !.catch = g.catch, !.locals = [g.locals EXCEPT !["e"] = Value(h.block[b].phis[1].res)]]

\* A try without a finally. Its catch, and what follows it, have the locals of before.
lowerTry(g, s) ==
    LET n == LastBlock(g)
        Exit(c, open) ==
            LET x == Enter([LeaveTo(c, n + 2) EXCEPT !.locals = g.locals], n + 2)
            IN  IF open \/ IsOpen(c) THEN x ELSE Terminate(x, Return(Const(Undefined)))
        Catch(t) == Exit(lowerStatement(EnterCatch(LeaveTo(t, n + 2), g, n + 1), s.catch[1]), IsOpen(t))
    IN  Catch(lowerStatement(PushCatch(NewPhi(NewBlocks(g, 2), n + 1, <<>>), n + 1), s.body))

\* The end of a finally: it tells the kinds of completion apart, and goes on with each.
FinallyEnds(f, k, v, after) ==
    LET n == LastBlock(f)
        asked == Asked(Asked(NewBlocks(f, 4), k, 0, n + 1, n + 2), k, 1, n + 3, n + 4)
        ended == Terminate(Enter(asked, n + 1), Jump(after))
        returned == Terminate(Enter(ended, n + 3), Return(v))
    IN  Enter(routeThrownValue(Push(Enter(returned, n + 4), v)), after)

\* A try with a finally: every way out of it enters the finally with a kind and a value.
lowerTryWithFinally(g, s) ==
    LET n == LastBlock(g)
        Leave(h) == IF IsOpen(h) THEN routeFinallyCompletion(Push(h, Const(Undefined)), n + 1, 0) ELSE h
        End(f, normal) ==
            IF ~IsOpen(f) THEN [f EXCEPT !.locals = g.locals]
            ELSE LET x == FinallyEnds(f, Value(g.next), Value(g.next + 1), n + 2)
                 IN  IF normal THEN x ELSE Terminate(x, Return(Const(Undefined)))
        Finally(c, open) ==
            End(lowerStatement([Enter(Leave(c), n + 1) EXCEPT !.locals = g.locals, !.finally = g.finally],
                               s.finally[1]),
                open \/ IsOpen(c))
        Catch(t) == Finally(lowerStatement(EnterCatch(Leave(t), g, n + 3), s.catch[1]), IsOpen(t))
        h == [NewPhi(NewPhi(NewBlocks(g, 2), n + 1, <<>>), n + 1, <<>>) EXCEPT !.finally = Append(@, n + 1)]
    IN  IF s.catch = <<>> THEN Finally(lowerStatement(h, s.body), FALSE)
        ELSE Catch(lowerStatement(PushCatch(NewPhi(NewBlocks(h, 1), n + 3, <<>>), n + 3), s.body))

lowerStatement(g, s) ==
    CASE s.kind = "seq"    -> FoldLeft(lowerStatement, g, s.list)
      [] s.kind = "throw"  -> routeThrownValue(Boxed(g, s.of))
      [] s.kind = "return" -> lowerReturn(g, s)
      [] s.kind = "push"   -> Drop(Emit(lowerExpr(g, s.of), "push", 1))
      [] s.kind = "if"     -> lowerIf(g, s)
      [] s.kind = "while"  -> lowerWhile(g, s)
      [] s.kind = "do"     -> lowerDoWhile(g, s)
      [] s.kind = "for"    -> lowerFor(g, s)
      [] s.kind = "forof"  -> lowerForOf(g, s)
      [] s.kind = "switch" -> lowerSwitch(g, s)
      [] s.kind = "try"    -> IF s.finally = <<>> THEN lowerTry(g, s) ELSE lowerTryWithFinally(g, s)
      [] OTHER             -> Drop(lowerExpr(g, s))

\* A function of one parameter; a block it ends in returns.
lowerFunction(s) ==
    LET g == [block |-> <<EmptyBlock>>, cur |-> 1, next |-> Param + 1, operands |-> <<>>,
              catch |-> <<>>, finally |-> <<>>,
              locals |-> [x \in Var |-> IF x = "p" THEN Value(Param) ELSE Const(0)]]
        End(h) == IF IsOpen(h) THEN Terminate(h, Return(Const(Undefined))) ELSE h
        Built(h) == [block |-> h.block, order |-> [b \in DOMAIN h.block |-> b], values |-> h.next - 1]
    IN  Built(End(lowerStatement(g, s)))

-----------------------------------------------------------------------------
(* The optimizer. A folded instruction goes; its constant takes its place  *)
(* in the operands of what is left, of some kinds only, in layout order.   *)

resolveConst(v, map) ==
    IF v[1] # "value" THEN v
    ELSE IF map[v[2]] = {} THEN v ELSE Const(CHOOSE n \in map[v[2]] : TRUE)

Fold(op, args) == CASE op = "add" -> args[1][2] + args[2][2]
                    [] op = "sub" -> args[1][2] - args[2][2]
                    [] op = "neg" -> -args[1][2]

FoldInstruction(m, i) ==
    LET args == [k \in DOMAIN i.args |-> resolveConst(i.args[k], m.map)]
        all  == \A k \in DOMAIN args : args[k][1] = "number"
    IN  IF i.op \in {"add", "sub", "neg"} /\ all
        THEN [m EXCEPT !.map[i.res] = {Fold(i.op, args)}]
        ELSE IF i.op \in Pure \cup {"neg", "call", "box", "reject"}
        THEN [m EXCEPT !.kept = Append(@, [i EXCEPT !.args = args])]
        ELSE [m EXCEPT !.kept = Append(@, i)]

FoldTerm(t, map) ==
    CASE t.kind = "branch" /\ t.on[1] = "boolean" -> Jump(IF t.on[2] = 1 THEN t.yes ELSE t.no)
      [] t.kind = "return" -> Return(resolveConst(t.val, map))
      [] OTHER -> t

FoldBlock(m, b) ==
    LET bb == m.block[b]
        n  == FoldLeft(FoldInstruction, [map |-> m.map, kept |-> <<>>], bb.code)
        Resolved(phi) == [res |-> phi.res,
                          in |-> [k \in DOMAIN phi.in |-> In(phi.in[k].from, resolveConst(phi.in[k].val, n.map))]]
    IN  [map |-> n.map,
         block |-> [m.block EXCEPT ![b] = [phis |-> [k \in DOMAIN bb.phis |-> Resolved(bb.phis[k])],
                                           code |-> n.kept, term |-> FoldTerm(bb.term, n.map)]]]

constantFold(c) ==
    [c EXCEPT !.block = FoldLeft(FoldBlock, [map |-> [i \in 1..c.values |-> {}], block |-> c.block], c.order).block]

RangeOf(f) == { f[k] : k \in DOMAIN f }

UsedIn(c, b) ==
    LET bb == c.block[b]
    IN  UNION { { i.val : i \in RangeOf(phi.in) } : phi \in RangeOf(bb.phis) }
          \cup UNION { RangeOf(i.args) : i \in RangeOf(bb.code) }
          \cup (CASE bb.term.kind = "return" -> {bb.term.val}
                  [] bb.term.kind = "branch" -> {bb.term.on}
                  [] OTHER -> {})

\* A value nothing uses is not computed, but calls and stores stay.
deadCodeElim(c) ==
    LET used == UNION { UsedIn(c, b) : b \in RangeOf(c.order) }
        Kept(i) == i.op \in {"call", "box", "reject", "push"} \/ Value(i.res) \in used
    IN  [c EXCEPT !.block = [b \in DOMAIN @ |->
            IF b \in RangeOf(c.order) THEN [@[b] EXCEPT !.code = SelectSeq(@, Kept)] ELSE @[b]]]

Successors(t) == CASE t.kind = "jump"   -> {t.to}
                   [] t.kind = "branch" -> {t.yes, t.no}
                   [] OTHER -> {}

RECURSIVE ReachedFrom(_, _)
ReachedFrom(c, bs) ==
    LET more == bs \cup UNION { Successors(c.block[b].term) : b \in bs }
    IN  IF more = bs THEN bs ELSE ReachedFrom(c, more)

simplifyCFG(c) ==
    LET reachable == ReachedFrom(c, {c.order[1]})
    IN  [c EXCEPT !.order = SelectSeq(@, LAMBDA b : b \in reachable)]

-----------------------------------------------------------------------------
(* Running a block: the phis' moves all read before any writes, then the   *)
(* instructions. A call records what it is called with.                    *)

Read(e, v) == IF v[1] = "value" THEN e[v[2]] ELSE v[2]

PhiMoves(e, bb, b) ==
    LET Moved(phi) == { k \in DOMAIN phi.in : phi.in[k].from = b }
        First(phi) == phi.in[CHOOSE k \in Moved(phi) : \A l \in Moved(phi) : k <= l]
        moves == { phi \in RangeOf(bb.phis) : Moved(phi) # {} }
    IN  [i \in DOMAIN e |->
            IF \E phi \in moves : phi.res = i
            THEN Read(e, First(CHOOSE phi \in moves : phi.res = i).val)
            ELSE e[i]]

Truth(b) == IF b THEN 1 ELSE 0
FieldOf(n) == n + 1

Compute(op, a) ==
    CASE op = "add"     -> a[1] + a[2]
      [] op = "sub"     -> a[1] - a[2]
      [] op = "neg"     -> -a[1]
      [] op = "less"    -> Truth(a[1] < a[2])
      [] op = "equal"   -> Truth(a[1] = a[2])
      [] op = "field"   -> FieldOf(a[1])
      [] op = "length"  -> a[1]
      [] op = "element" -> a[2] + 1
      [] OTHER          -> a[1]

Execute(m, i) ==
    LET a == [k \in DOMAIN i.args |-> Read(m.env, i.args[k])]
    IN  [env |-> [m.env EXCEPT ![i.res] = Compute(i.op, a)],
         seen |-> IF i.op \in {"call", "push"} THEN Append(m.seen, a[1]) ELSE m.seen,
         rejected |-> IF i.op = "reject" THEN <<a[1]>> ELSE m.rejected]

RunBlock(c, e, b, prev, s) ==
    FoldLeft(Execute, [env |-> PhiMoves(e, c.block[b], prev), seen |-> s, rejected |-> <<>>], c.block[b].code)

-----------------------------------------------------------------------------
(* The meaning of a program, from its syntax tree alone. A state m has the *)
(* variables, what was recorded, and the completion: <<"normal">>, or a    *)
(* return or a throw with its value, or <<"endless">> after MaxRounds.     *)

Normal == <<"normal">>

RECURSIVE Evaluate(_, _), Meaning(_, _), Rounds(_, _, _, _)

Evaluate(m, e) ==
    CASE e.kind \in {"number", "boolean"} -> [m |-> m, v |-> e.n]
      [] e.kind = "var"    -> [m |-> m, v |-> m.var[e.var]]
      [] e.kind = "neg"    -> LET a == Evaluate(m, e.of) IN [m |-> a.m, v |-> -a.v]
      [] e.kind = "call"   -> LET a == Evaluate(m, e.of) IN [m |-> [a.m EXCEPT !.seen = Append(@, a.v)], v |-> a.v]
      [] e.kind \in Pure   -> LET a == Evaluate(m, e.left)
                                  b == Evaluate(a.m, e.right)
                              IN  [m |-> b.m, v |-> Compute(e.kind, <<a.v, b.v>>)]
      [] e.kind = "assign" -> LET a == Evaluate(m, e.to) IN [m |-> [a.m EXCEPT !.var[e.var] = a.v], v |-> a.v]
      [] e.kind = "logical" -> LET a == Evaluate(m, e.left)
                               IN  IF (a.v # 0) = (e.op = "and") THEN Evaluate(a.m, e.right) ELSE a
      [] e.kind = "nullish" -> LET a == Evaluate(m, e.left)
                               IN  IF a.v \in {Undefined, Null} THEN Evaluate(a.m, e.right) ELSE a
      [] e.kind = "member"  -> LET a == Evaluate(m, e.of)
                               IN  [a EXCEPT !.v = IF @ \in {Undefined, Null} THEN Undefined ELSE FieldOf(@)]
      [] e.kind = "choose"  -> LET c == Evaluate(m, e.cond) IN Evaluate(c.m, IF c.v # 0 THEN e.then ELSE e.else)

Completed(m, kind, e) == LET a == Evaluate(m, e) IN [a.m EXCEPT !.out = <<kind, a.v>>]

\* Rounds of a loop: test, body, step.
Rounds(m, test, body, step) ==
    LET c == Evaluate(m, test)
        b == Meaning(c.m, body)
    IN  IF c.v = 0 THEN c.m
        ELSE IF m.fuel = 0 THEN [m EXCEPT !.out = <<"endless">>]
        ELSE IF b.out # Normal THEN b
        ELSE Rounds([Meaning(b, step) EXCEPT !.fuel = @ - 1], test, body, step)

Elements(m, s, n) ==
    LET Element(h, i) == IF h.out # Normal THEN h ELSE Meaning([h EXCEPT !.var[s.var] = i], s.body)
    IN  [FoldLeft(Element, m, [i \in 1..n |-> i]) EXCEPT !.var[s.var] = m.var[s.var]]

MeaningOfTry(m, s) ==
    LET t == Meaning(m, s.body)
        c == IF t.out[1] = "throw" /\ s.catch # <<>>
             THEN [Meaning([t EXCEPT !.var["e"] = t.out[2], !.out = Normal], s.catch[1])
                      EXCEPT !.var["e"] = m.var["e"]]
             ELSE t
        f == IF s.finally = <<>> \/ c.out = <<"endless">> THEN c
             ELSE Meaning([c EXCEPT !.out = Normal], s.finally[1])
    IN  IF f.out = Normal THEN [f EXCEPT !.out = c.out] ELSE f

MeaningOfSwitch(m, s) ==
    LET d == Evaluate(m, s.on)
        Test(k) == { Evaluate(d.m, e).v : e \in s.clauses[k].test }
        chosen == { k \in DOMAIN s.clauses : Test(k) = {d.v} }
        default == { k \in DOMAIN s.clauses : s.clauses[k].test = {} }
        Do(ks) == Meaning(d.m, s.clauses[CHOOSE k \in ks : \A l \in ks : k <= l].do)
    IN  IF chosen # {} THEN Do(chosen) ELSE IF default # {} THEN Do(default) ELSE d.m

Nothing == [kind |-> "seq", list |-> <<>>]

Meaning(m, s) ==
    IF m.out # Normal THEN m
    ELSE CASE s.kind = "seq"    -> FoldLeft(Meaning, m, s.list)
           [] s.kind \in {"throw", "return"} -> Completed(m, s.kind, s.of)
           [] s.kind = "push"   -> LET a == Evaluate(m, s.of) IN [a.m EXCEPT !.seen = Append(@, a.v)]
           [] s.kind = "if"     -> LET c == Evaluate(m, s.cond) IN Meaning(c.m, IF c.v # 0 THEN s.then ELSE s.else)
           [] s.kind = "while"  -> Rounds(m, s.cond, s.body, Nothing)
           [] s.kind = "do"     -> LET b == Meaning(m, s.body)
                                   IN  IF b.out = Normal THEN Rounds(b, s.cond, s.body, Nothing) ELSE b
           [] s.kind = "for"    -> Rounds(Meaning(m, s.init), s.cond, s.body, s.post)
           [] s.kind = "forof"  -> LET a == Evaluate(m, s.of) IN Elements(a.m, s, a.v)
           [] s.kind = "switch" -> MeaningOfSwitch(m, s)
           [] s.kind = "try"    -> MeaningOfTry(m, s)
           [] OTHER             -> Evaluate(m, s).m

\* What a run of the program should record, and how it should end.
Outcome(s, v) ==
    LET m == Meaning([var |-> [x \in Var |-> IF x = "p" THEN v ELSE 0], seen |-> <<>>, out |-> Normal,
                      fuel |-> MaxRounds], s)
    IN  [seen |-> m.seen, out |-> IF m.out = Normal THEN <<"return", Undefined>> ELSE m.out]

-----------------------------------------------------------------------------
(* The programs the lowering is right about. Each conjunct names a form it *)
(* mistranslates.                                                          *)

RECURSIVE Nodes(_)
\* The node and every node below it.
Nodes(n) ==
    LET Parts == CASE n.kind = "seq" -> RangeOf(n.list)
                   [] n.kind \in {"neg", "call", "throw", "return", "push", "member"} -> {n.of}
                   [] n.kind \in Pure \cup {"logical", "nullish"} -> {n.left, n.right}
                   [] n.kind = "assign" -> {n.to}
                   [] n.kind \in {"if", "choose"} -> {n.cond, n.then, n.else}
                   [] n.kind \in {"while", "do"} -> {n.cond, n.body}
                   [] n.kind = "for" -> {n.init, n.cond, n.post, n.body}
                   [] n.kind = "forof" -> {n.of, n.body}
                   [] n.kind = "switch" -> {n.on} \cup UNION { c.test \cup {c.do} : c \in RangeOf(n.clauses) }
                   [] n.kind = "try" -> {n.body} \cup RangeOf(n.catch) \cup RangeOf(n.finally)
                   [] OTHER -> {}
    IN  {n} \cup UNION { Nodes(p) : p \in Parts }

Kinds(n) == { m.kind : m \in Nodes(n) }
Assigned(n) == { m.var : m \in { k \in Nodes(n) : k.kind = "assign" } }
Branching == {"logical", "nullish", "member", "choose"}

RECURSIVE EndsInReturn(_)
EndsInReturn(s) ==
    \/ s.kind = "return"
    \/ s.kind = "seq" /\ \E k \in DOMAIN s.list : EndsInReturn(s.list[k])
    \/ s.kind = "try" /\ \E f \in RangeOf(s.finally) : EndsInReturn(f)

\* Nothing is written after a return: it would go into the block the return ends.
NothingAfterReturn(s) ==
    s.kind = "seq" => \A k \in 1..(Len(s.list) - 1) : ~EndsInReturn(s.list[k])

\* The arms of an expression assign nothing: the join merges the result, not the variables.
ArmsAssignNothing(n) ==
    CASE n.kind \in {"logical", "nullish"} -> Assigned(n.right) = {}
      [] n.kind = "choose" -> Assigned(n.then) \cup Assigned(n.else) = {}
      [] OTHER -> TRUE

\* Every assignment of a loop is one the syntactic walk finds, and its test has no blocks.
LoopWalkFindsAll(n) ==
    /\ n.kind \in {"while", "do", "for", "forof"} => Assigned(n.body) = findModifiedVars(n.body)
    /\ n.kind \in {"while", "do", "for"} => Assigned(n.cond) = {}
    /\ n.kind \in {"while", "for"} => Kinds(n.cond) \cap Branching = {}

\* A try and its catch assign nothing: what follows has the operands of before the try.
TryAssignsNothing(n) ==
    n.kind = "try" => Assigned(n.body) = {} /\ (n.catch # <<>> => Assigned(n.catch[1]) = {})

\* The parts of a try a finally guards do not hold a try with a finally that a return leaves:
\* that return ends the function when the inner finally ends.
ReturnsThroughOneFinally(n) ==
    LET Guarded(t) == {t.body} \cup RangeOf(t.catch)
        Returns(p) == "return" \in Kinds(p)
        Final(p) == { m \in Nodes(p) : m.kind = "try" /\ m.finally # <<>> }
    IN  (n.kind = "try" /\ n.finally # <<>>)
            => \A p \in Guarded(n) : \A t \in Final(p) : \A q \in Guarded(t) : ~Returns(q)

\* The two sides of an if do not give a variable the same operand: the join would take it for
\* unchanged.
SidesDiffer(n) ==
    LET Copied(s, x) == { m.to : m \in { k \in Nodes(s) : k.kind = "assign" /\ k.var = x
                                                          /\ k.to.kind \in {"number", "var"} } }
    IN  n.kind = "if" => \A x \in Var : Copied(n.then, x) \cap Copied(n.else, x) = {}

\* The default of a switch is its last clause: the ones after it would be dropped.
DefaultLast(n) ==
    n.kind = "switch" => \A k \in 1..(Len(n.clauses) - 1) : n.clauses[k].test # {}

Supported(s) ==
    \A n \in Nodes(s) :
        /\ NothingAfterReturn(n) /\ ArmsAssignNothing(n) /\ LoopWalkFindsAll(n)
        /\ TryAssignsNothing(n) /\ ReturnsThroughOneFinally(n) /\ SidesDiffer(n) /\ DefaultLast(n)

\* A value that may be folded is used where the optimizer does not put its constant: in a
\* store or an access, or in a block laid out before the one that computes it.
FoldEscapes(c) ==
    LET made == UNION { RangeOf(c.block[b].code) : b \in DOMAIN c.block }
        arithmetic == { i \in made : i.op \in {"add", "sub", "neg"} }
        folded == { Value(i.res) : i \in { j \in arithmetic : \A a \in RangeOf(j.args) :
                        a[1] = "number" \/ \E k \in arithmetic : a = Value(k.res) } }
        Place(v) == CHOOSE b \in DOMAIN c.block : \E i \in RangeOf(c.block[b].code) : Value(i.res) = v
    IN  \/ \E i \in made : i.op \in {"push", "field", "length", "element"} /\ RangeOf(i.args) \cap folded # {}
        \/ \E b \in DOMAIN c.block : \E v \in folded \cap UsedIn(c, b) : b < Place(v)

-----------------------------------------------------------------------------

NoCode == [block |-> <<>>, order |-> <<>>, values |-> 0]
Running == <<"running">>

Init ==
    /\ prog \in Menu /\ input \in Inputs
    /\ phase = "lower"
    /\ code = NoCode /\ passes = 0 /\ steps = 0 /\ changed = FALSE
    /\ at = 1 /\ from = 0 /\ env = <<>> /\ seen = <<>> /\ result = Running

Started(c) ==
    /\ phase' = "run" /\ code' = c
    /\ at' = c.order[1]
    /\ env' = [i \in 1..c.values |-> IF i = Param THEN input ELSE Garbage]

\* Built without optimization, or with it.
Lower ==
    /\ phase = "lower"
    /\ \/ Started(lowerFunction(prog)) /\ UNCHANGED <<passes, changed>>
       \/ /\ phase' = "fold" /\ passes' = 1 /\ changed' = FALSE /\ code' = lowerFunction(prog)
          /\ UNCHANGED <<at, env>>
    /\ UNCHANGED <<prog, input, steps, from, seen, result>>

Pass(now, next, c) ==
    /\ phase = now /\ phase' = next
    /\ code' = c /\ changed' = (changed \/ c # code)
    /\ UNCHANGED <<prog, input, passes, steps, at, from, env, seen, result>>

ConstantFold == phase = "fold" /\ Pass("fold", "eliminate", constantFold(code))
EliminateDead == phase = "eliminate" /\ Pass("eliminate", "simplify", deadCodeElim(code))
Simplify == phase = "simplify" /\ Pass("simplify", "again", simplifyCFG(code))

\* At most five rounds of the three passes, while something changes.
optimizeFunction ==
    /\ phase = "again"
    /\ IF changed /\ passes < 5
       THEN phase' = "fold" /\ passes' = passes + 1 /\ changed' = FALSE /\ UNCHANGED <<code, at, env>>
       ELSE Started(code) /\ UNCHANGED <<passes, changed>>
    /\ UNCHANGED <<prog, input, steps, from, seen, result>>

Run ==
    /\ phase = "run" /\ result = Running
    /\ LET m == RunBlock(code, env, at, from, seen)
           t == code.block[at].term
           Go(b) == at' = b /\ result' = Running
       IN  /\ env' = m.env /\ seen' = m.seen /\ from' = at
           /\ steps' = steps + 1
           /\ CASE steps >= MaxBlocks -> result' = <<"endless">> /\ UNCHANGED at
                [] t.kind = "jump"   -> Go(t.to)
                [] t.kind = "branch" -> Go(IF Read(m.env, t.on) # 0 THEN t.yes ELSE t.no)
                [] t.kind = "return" -> /\ result' = IF m.rejected = <<>> THEN <<"return", Read(m.env, t.val)>>
                                                     ELSE <<"throw", m.rejected[1]>>
                                        /\ UNCHANGED at
                [] OTHER             -> result' = <<"fallen">> /\ UNCHANGED at
    /\ UNCHANGED <<prog, input, phase, code, passes, changed>>

Next == Lower \/ ConstantFold \/ EliminateDead \/ Simplify \/ optimizeFunction \/ Run

Spec == Init /\ [][Next]_vars

-----------------------------------------------------------------------------

TypeOK ==
    /\ prog \in Menu /\ input \in Inputs
    /\ phase \in {"lower", "fold", "eliminate", "simplify", "again", "run"}
    /\ passes \in 0..5 /\ steps \in 0..(MaxBlocks + 1) /\ changed \in BOOLEAN
    /\ code = NoCode \/ (at \in DOMAIN code.block /\ from \in 0..Len(code.block))

(* A finished run of a supported program recorded and ended as the program *)
(* means: whatever the nesting of tries, loops and branches, a value read  *)
(* was computed on the way, a finally ran once on every way out, and the   *)
(* optimizer changed nothing that can be seen.                             *)
RunsAsWritten ==
    (/\ result # Running /\ Supported(prog)
     /\ Outcome(prog, input).out # <<"endless">>
     /\ passes > 0 => ~FoldEscapes(lowerFunction(prog)))
        => [seen |-> seen, out |-> result] = Outcome(prog, input)

=============================================================================
